---------------------------- MODULE Uart2_proofs ----------------------------
(***************************************************************************)
(* Uart2 for every size of its buffers and queues: both rings are the      *)
(* channels that ByteChannel describes, no wake-up is lost, and            *)
(* uart2_flush means what it says.  The invariant says where the bytes of  *)
(* a ring are, how many there are, and what a step of the main program     *)
(* that an interrupt may have overtaken still knows.                       *)
(***************************************************************************)
EXTENDS Uart2, TLAPS

(* The place i of a ring holds a byte that waits.                          *)
Holds(i, in, out, size) == Pending(i, out, size) < Pending(in, out, size)

(* A ring holds the bytes numbered from last + 1 to next, in that order.   *)
Ring(buf, in, out, size, next, last) ==
    /\ Pending(in, out, size) = next - last
    /\ \A i \in 0 .. size - 1 :
           Holds(i, in, out, size) => buf[i] = last + 1 + Pending(i, out, size)

TxRing == Ring(wrBuf, wrIn, wrOut, TxSize, wrote, sent)
RxRing == Ring(rdBuf, rdIn, rdOut, RxSize, taken, got)

(* What the main program has seen stays true while handlers run.           *)
Seen ==
    /\ pc \in {"store", "publish"} => After(wrIn, TxSize) # wrOut
    /\ pc = "publish" => wrBuf[wrIn] = wrote + 1
    /\ pc = "flush_port" => wrIn = wrOut
    /\ pc \in {"read", "release"} => rdIn # rdOut
    /\ pc = "release" => byte = got + 1

IInv == TypeOK /\ TxRing /\ RxRing /\ Seen /\ NoLostWakeup

-----------------------------------------------------------------------------
(* Arithmetic of a ring.                                                   *)

LEMMA RingRange ==
    ASSUME NEW size \in Nat \ {0, 1}, NEW in \in 0 .. size - 1, NEW out \in 0 .. size - 1
    PROVE  /\ After(in, size) \in 0 .. size - 1
           /\ Pending(in, out, size) \in 0 .. size - 1
           /\ Pending(in, out, size) = 0 <=> in = out
           /\ After(in, size) # in
  BY DEF After, Pending

LEMMA RingPut ==
    ASSUME NEW size \in Nat \ {0, 1}, NEW in \in 0 .. size - 1, NEW out \in 0 .. size - 1,
           NEW i \in 0 .. size - 1
    PROVE  /\ After(in, size) # out =>
                 /\ Pending(After(in, size), out, size) = Pending(in, out, size) + 1
                 /\ Holds(i, After(in, size), out, size) => Holds(i, in, out, size) \/ i = in
           /\ After(in, size) = out => Pending(in, out, size) = size - 1
  BY DEF After, Pending, Holds

LEMMA RingGet ==
    ASSUME NEW size \in Nat \ {0, 1}, NEW in \in 0 .. size - 1, NEW out \in 0 .. size - 1,
           NEW i \in 0 .. size - 1, in # out
    PROVE  /\ Pending(in, After(out, size), size) = Pending(in, out, size) - 1
           /\ Holds(i, in, After(out, size), size) =>
                 /\ Holds(i, in, out, size)
                 /\ Pending(i, After(out, size), size) = Pending(i, out, size) - 1
           /\ Holds(out, in, out, size)
           /\ Pending(out, out, size) = 0
           /\ After(in, size) # After(out, size)
  BY DEF After, Pending, Holds

(* A byte put in a ring with room is the next one.                         *)
LEMMA RingAfterPut ==
    ASSUME NEW size \in Nat \ {0, 1}, NEW in \in 0 .. size - 1, NEW out \in 0 .. size - 1,
           NEW buf \in [0 .. size - 1 -> Nat], NEW next \in Nat, NEW last \in Nat,
           Ring(buf, in, out, size, next, last), After(in, size) # out, buf[in] = next + 1
    PROVE  Ring(buf, After(in, size), out, size, next + 1, last)
  <1>1. Pending(After(in, size), out, size) = next + 1 - last
    BY RingPut, RingRange DEF Ring
  <1>2. ASSUME NEW i \in 0 .. size - 1, Holds(i, After(in, size), out, size)
        PROVE  buf[i] = last + 1 + Pending(i, out, size)
    <2>1. CASE Holds(i, in, out, size)
      BY <2>1 DEF Ring
    <2>2. CASE i = in
      BY <2>2, RingRange DEF Ring
    <2> QED
      BY <1>2, <2>1, <2>2, RingPut
  <1> QED
    BY <1>1, <1>2 DEF Ring

(* The byte taken from a ring is the one after the last.                   *)
LEMMA RingAfterGet ==
    ASSUME NEW size \in Nat \ {0, 1}, NEW in \in 0 .. size - 1, NEW out \in 0 .. size - 1,
           NEW buf \in [0 .. size - 1 -> Nat], NEW next \in Nat, NEW last \in Nat,
           Ring(buf, in, out, size, next, last), in # out
    PROVE  /\ buf[out] = last + 1
           /\ Ring(buf, in, After(out, size), size, next, last + 1)
  <1>1. buf[out] = last + 1
    BY RingGet, RingRange DEF Ring
  <1>2. Pending(in, After(out, size), size) = next - (last + 1)
    BY RingGet, RingRange DEF Ring
  <1>3. ASSUME NEW i \in 0 .. size - 1, Holds(i, in, After(out, size), size)
        PROVE  buf[i] = last + 1 + 1 + Pending(i, After(out, size), size)
    <2>1. /\ Holds(i, in, out, size)
          /\ Pending(i, After(out, size), size) = Pending(i, out, size) - 1
      BY <1>3, RingGet
    <2>2. Pending(i, out, size) \in 0 .. size - 1
      BY RingRange
    <2>3. buf[i] = last + 1 + Pending(i, out, size)
      BY <2>1 DEF Ring
    <2> QED
      BY <2>1, <2>2, <2>3
  <1> QED
    BY <1>1, <1>2, <1>3 DEF Ring

(* Writing a place where no byte waits changes nothing for those that do.  *)
LEMMA RingAfterStore ==
    ASSUME NEW size \in Nat \ {0, 1}, NEW in \in 0 .. size - 1, NEW out \in 0 .. size - 1,
           NEW buf \in [0 .. size - 1 -> Nat], NEW next \in Nat, NEW last \in Nat,
           Ring(buf, in, out, size, next, last), NEW b \in Nat
    PROVE  Ring([buf EXCEPT ![in] = b], in, out, size, next, last)
  <1>1. ASSUME NEW i \in 0 .. size - 1, Holds(i, in, out, size)
        PROVE  i # in
    BY <1>1, RingRange DEF Holds
  <1> QED
    BY <1>1 DEF Ring

-----------------------------------------------------------------------------
LEMMA InitEstablishes == Init => IInv
  <1> SUFFICES ASSUME Init PROVE IInv
    OBVIOUS
  <1> USE SizesAssumption
  <1>0. 0 \in 0 .. TxSize - 1 /\ 0 \in 0 .. RxSize - 1 /\ 0 \in 0 .. FifoDepth
    OBVIOUS
  <1>1. TypeOK
    BY <1>0 DEF Init, TypeOK
  <1>2. TxRing /\ RxRing
    BY DEF Init, TxRing, RxRing, Ring, Holds, Pending
  <1>3. Seen /\ NoLostWakeup
    BY DEF Init, Seen, NoLostWakeup
  <1> QED
    BY <1>1, <1>2, <1>3 DEF IInv

LEMMA NextPreserves == IInv /\ [Next]_vars => IInv'
  <1> SUFFICES ASSUME IInv, [Next]_vars PROVE IInv'
    OBVIOUS
  <1> USE SizesAssumption DEF IInv
  <1> USE DEF vars, txVars, rxVars
  <1> DEFINE TxSame == UNCHANGED <<wrBuf, wrIn, wrOut, wrote, sent>>
             RxSame == UNCHANGED <<rdBuf, rdIn, rdOut, byte, taken, got>>
  <1>tx. ASSUME TxSame PROVE TxRing'
    BY <1>tx DEF TxRing, Ring, Holds, Pending
  <1>rx. ASSUME RxSame PROVE RxRing'
    BY <1>rx DEF RxRing, Ring, Holds, Pending
  <1> HIDE DEF TxSame, RxSame
  (* Steps that move neither ring. *)
  <1>1. CASE \/ EnableInterrupts \/ BootPutchar \/ Putchar \/ PushHasRoom \/ PushIsFull
             \/ WriteFindsNone \/ WriteFindsSome \/ WriteEnable
             \/ Flush \/ FlushRing \/ FlushReturns \/ ReadFindsNone \/ ReadFindsSome
    <2> USE DEF EnableInterrupts, BootPutchar, Putchar, PushHasRoom, PushIsFull,
                WriteFindsNone, WriteFindsSome, WriteEnable, Flush, FlushRing,
                FlushReturns, ReadFindsNone, ReadFindsSome, Goto, WriteReturn, Caller
    <2>1. TypeOK'
      BY <1>1 DEF TypeOK
    <2>2. TxRing' /\ RxRing'
      BY <1>1, <1>tx, <1>rx DEF TxSame, RxSame
    <2>3. Pending(wrIn, wrOut, TxSize) = 0 <=> wrIn = wrOut
      BY RingRange DEF TypeOK
    <2>4. Seen'
      BY <1>1, <2>3, RingRange DEF Seen, TypeOK, After
    <2>5. NoLostWakeup'
      BY <1>1, <2>3, RingRange DEF NoLostWakeup, TypeOK
    <2> QED
      BY <2>1, <2>2, <2>4, <2>5
  <1>2. CASE PushStore
    <2> USE <1>2 DEF PushStore, Goto
    <2>1. TypeOK'
      BY DEF TypeOK
    <2>2. TxRing'
      <3>1. wrote + 1 \in Nat
        BY DEF TypeOK
      <3>2. Ring([wrBuf EXCEPT ![wrIn] = wrote + 1], wrIn, wrOut, TxSize, wrote, sent)
        BY <3>1, RingAfterStore DEF TxRing, TypeOK
      <3> QED
        BY <3>2 DEF TxRing
    <2>3. RxRing'
      BY <1>rx DEF RxSame
    <2>4. Seen' /\ NoLostWakeup'
      BY DEF Seen, NoLostWakeup, TypeOK, After
    <2> QED
      BY <2>1, <2>2, <2>3, <2>4
  <1>3. CASE PushPublish
    <2> USE <1>3 DEF PushPublish, Goto
    <2>0. After(wrIn, TxSize) \in 0 .. TxSize - 1
      BY RingRange DEF TypeOK
    <2>1. TypeOK'
      BY <2>0 DEF TypeOK
    <2>2. TxRing'
      BY RingAfterPut DEF TxRing, TypeOK, Seen
    <2>3. RxRing'
      BY <1>rx DEF RxSame
    <2>4. Seen' /\ NoLostWakeup'
      BY DEF Seen, NoLostWakeup
    <2> QED
      BY <2>1, <2>2, <2>3, <2>4
  <1>4. CASE ReadCopy
    <2> USE <1>4 DEF ReadCopy, Goto
    <2>1. TypeOK'
      BY DEF TypeOK
    <2>2. TxRing'
      BY <1>tx DEF TxSame
    <2>3. RxRing'
      BY DEF RxRing, Ring, Holds, Pending
    <2>4. byte' = got + 1
      <3>1. rdIn # rdOut
        BY DEF Seen
      <3>2. rdBuf[rdOut] = got + 1
        <4>1. /\ RxSize \in Nat \ {0, 1} /\ rdIn \in 0 .. RxSize - 1 /\ rdOut \in 0 .. RxSize - 1
              /\ rdBuf \in [0 .. RxSize - 1 -> Nat] /\ taken \in Nat /\ got \in Nat
          BY DEF TypeOK
        <4>2. Ring(rdBuf, rdIn, rdOut, RxSize, taken, got)
          BY DEF RxRing
        <4> QED
          BY <3>1, <4>1, <4>2, RingAfterGet
      <3> QED
        BY <3>2
    <2>5. Seen' /\ NoLostWakeup'
      BY <2>4 DEF Seen, NoLostWakeup, After
    <2> QED
      BY <2>1, <2>2, <2>3, <2>5
  <1>5. CASE ReadRelease
    <2> USE <1>5 DEF ReadRelease, Goto
    <2>0. After(rdOut, RxSize) \in 0 .. RxSize - 1
      BY RingRange DEF TypeOK
    <2>1. TypeOK'
      BY <2>0 DEF TypeOK
    <2>2. TxRing'
      BY <1>tx DEF TxSame, TxRing, Ring, Holds, Pending
    <2>3. RxRing'
      BY RingAfterGet DEF RxRing, TypeOK, Seen
    <2>4. Seen' /\ NoLostWakeup'
      BY DEF Seen, NoLostWakeup, After
    <2> QED
      BY <2>1, <2>2, <2>3, <2>4
  (* The handlers and the port. *)
  <1>6. CASE TxPull
    <2> USE <1>6 DEF TxPull
    <2>1. /\ wrBuf[wrOut] = sent + 1
          /\ Ring(wrBuf, wrIn, After(wrOut, TxSize), TxSize, wrote, sent + 1)
      BY RingAfterGet DEF TxRing, TypeOK
    <2>0. After(wrOut, TxSize) \in 0 .. TxSize - 1
      BY RingRange DEF TypeOK
    <2>2. TypeOK'
      BY <2>0, <2>1 DEF TypeOK
    <2>3. TxRing'
      BY <2>1 DEF TxRing
    <2>4. RxRing'
      BY <1>rx DEF RxSame
    <2>5. After(wrIn, TxSize) # After(wrOut, TxSize)
      BY RingGet DEF TypeOK
    <2>6. Seen' /\ NoLostWakeup'
      BY <2>5 DEF Seen, NoLostWakeup, TypeOK
    <2> QED
      BY <2>2, <2>3, <2>4, <2>6
  <1>7. CASE RxPush
    <2> USE <1>7 DEF RxPush
    <2>0. After(rdIn, RxSize) \in 0 .. RxSize - 1 /\ taken + 1 \in Nat /\ rxfifo - 1 \in 0 .. FifoDepth
      BY RingRange DEF TypeOK
    <2>1. TypeOK'
      BY <2>0 DEF TypeOK
    <2>2. TxRing'
      BY <1>tx DEF TxSame
    <2>3. RxRing'
      <3> DEFINE buf == [rdBuf EXCEPT ![rdIn] = taken + 1]
      <3>1. buf \in [0 .. RxSize - 1 -> Nat] /\ buf[rdIn] = taken + 1
        BY DEF TypeOK
      <3>2. Ring(buf, rdIn, rdOut, RxSize, taken, got)
        BY <2>0, RingAfterStore DEF RxRing, TypeOK
      <3> HIDE DEF buf
      <3>3. Ring(buf, After(rdIn, RxSize), rdOut, RxSize, taken + 1, got)
        BY <3>1, <3>2, RingAfterPut DEF TypeOK
      <3> QED
        BY <3>3 DEF RxRing, buf
    <2>4. Seen' /\ NoLostWakeup'
      BY DEF Seen, NoLostWakeup, TypeOK
    <2> QED
      BY <2>1, <2>2, <2>3, <2>4
  <1>8. CASE \/ TxHandler \/ TxHandlerIdle \/ TxHandlerEmptied \/ TxHandlerFilled
             \/ RxHandler \/ RxDrop \/ RxHandlerReturns
             \/ FaultHandler \/ FaultDiscard \/ FaultHandlerReturns
             \/ ByteGoesOut \/ ByteComesIn
    <2> USE DEF TxHandler, TxHandlerIdle, TxHandlerEmptied, TxHandlerFilled, RxHandler,
                RxDrop, RxHandlerReturns, FaultHandler, FaultDiscard, FaultHandlerReturns,
                ByteGoesOut, ByteComesIn, Enter, Leave
    <2>1. TypeOK'
      <3>1. /\ rxfifo > 0 => rxfifo - 1 \in 0 .. FifoDepth
            /\ rxfifo < FifoDepth => rxfifo + 1 \in 0 .. FifoDepth
            /\ txfifo > 0 => txfifo - 1 \in 0 .. FifoDepth
            /\ lost + 1 \in Nat /\ arrivals + 1 \in Nat
        BY DEF TypeOK
      <3>2. CASE RxDrop
        BY <3>1, <3>2 DEF TypeOK
      <3>3. CASE FaultDiscard
        BY <3>1, <3>3 DEF TypeOK
      <3>4. CASE ByteComesIn
        BY <3>1, <3>4 DEF TypeOK
      <3>5. CASE ByteGoesOut
        BY <3>1, <3>5 DEF TypeOK
      <3>6. CASE TxHandler \/ TxHandlerIdle \/ TxHandlerEmptied \/ TxHandlerFilled
        BY <3>6 DEF TypeOK
      <3>7. CASE RxHandler \/ RxHandlerReturns
        BY <3>7 DEF TypeOK
      <3>8. CASE FaultHandler \/ FaultHandlerReturns
        BY <3>8 DEF TypeOK
      <3> QED
        BY <1>8, <3>2, <3>3, <3>4, <3>5, <3>6, <3>7, <3>8
    <2>2. TxRing' /\ RxRing'
      BY <1>8, <1>tx, <1>rx DEF TxSame, RxSame
    <2>3. Pending(wrIn, wrOut, TxSize) = 0 <=> wrIn = wrOut
      BY RingRange DEF TypeOK
    <2>4. Seen' /\ NoLostWakeup'
      BY <1>8, <2>3 DEF Seen, NoLostWakeup
    <2> QED
      BY <2>1, <2>2, <2>4
  <1>9. CASE UNCHANGED vars
    BY <1>9 DEF TypeOK, TxRing, RxRing, Ring, Holds, Pending, After, Seen, NoLostWakeup
  <1> QED
    BY <1>1, <1>2, <1>3, <1>4, <1>5, <1>6, <1>7, <1>8, <1>9
    DEF Next, MainSteps, Calls, Handlers

LEMMA IInvAlways == Spec => []IInv
  BY InitEstablishes, NextPreserves, PTL DEF Spec

(***************************************************************************)
(* Every variable keeps its type; in particular the indices stay inside    *)
(* UART2_WriteBuffer and UART2_ReadBuffer.                                 *)
(***************************************************************************)
THEOREM UartTypeCorrect == Spec => []TypeOK
  BY IInvAlways, PTL DEF IInv

(***************************************************************************)
(* However UART2_Write and the transmit handler race for the enable bit,   *)
(* bytes never wait in the ring with the interrupt off and nobody about to *)
(* enable it.                                                              *)
(***************************************************************************)
THEOREM NoWakeupIsLost == Spec => []NoLostWakeup
  BY IInvAlways, PTL DEF IInv

(***************************************************************************)
(* When uart2_flush returns, the port has sent all the program wrote.      *)
(***************************************************************************)
THEOREM FlushSends == Spec => FlushMeansSent
  <1>1. IInv /\ [Next]_vars => [pc = "flush_port" /\ pc' = "main" => sent = wrote /\ txfifo = 0]_vars
    <2> SUFFICES ASSUME IInv, Next, pc = "flush_port", pc' = "main"
                 PROVE  sent = wrote /\ txfifo = 0
      OBVIOUS
    <2>1. sent = wrote
      <3>1. Pending(wrIn, wrOut, TxSize) = 0
        BY SizesAssumption, RingRange DEF IInv, TypeOK, Seen
      <3> QED
        BY <3>1 DEF IInv, TxRing, Ring, TypeOK
    <2>2. FlushReturns
      BY DEF Next, MainSteps, Calls, Handlers, EnableInterrupts, BootPutchar, Putchar,
             PushHasRoom, PushIsFull, PushStore, PushPublish, WriteFindsNone, WriteFindsSome,
             WriteEnable, Flush, FlushRing, ReadFindsNone, ReadFindsSome, ReadCopy,
             ReadRelease, Goto, TxHandler, TxHandlerIdle, TxPull, TxHandlerEmptied,
             TxHandlerFilled, RxHandler, RxPush, RxDrop, RxHandlerReturns, FaultHandler,
             FaultDiscard, FaultHandlerReturns, ByteGoesOut, ByteComesIn, Enter, Leave
    <2> QED
      BY <2>1, <2>2 DEF FlushReturns
  <1> QED
    BY <1>1, IInvAlways, PTL DEF Spec, FlushMeansSent

-----------------------------------------------------------------------------
LEMMA TxStep == IInv /\ [Next]_vars => [Tx!Next]_<<wrote, sent, 0>>
  <1> SUFFICES ASSUME IInv, Next PROVE Tx!Put \/ Tx!Get \/ UNCHANGED <<wrote, sent>>
    BY DEF Tx!Next, vars, txVars
  <1>1. CASE PushPublish
    <2>1. TypeOK /\ TxRing /\ After(wrIn, TxSize) # wrOut
      BY <1>1 DEF IInv, Seen, PushPublish, Goto
    <2>2. Pending(After(wrIn, TxSize), wrOut, TxSize) = Pending(wrIn, wrOut, TxSize) + 1
      BY <2>1, SizesAssumption, RingPut DEF TypeOK
    <2>3. Pending(After(wrIn, TxSize), wrOut, TxSize) \in 0 .. TxSize - 1
      BY <2>1, SizesAssumption, RingRange DEF TypeOK
    <2>4. wrote < sent + (TxSize - 1)
      BY <2>1, <2>2, <2>3, SizesAssumption DEF TxRing, Ring, TypeOK
    <2> QED
      BY <1>1, <2>4 DEF PushPublish, Tx!Put
  <1>2. CASE TxPull
    <2>1. TypeOK /\ TxRing /\ wrIn # wrOut
      BY <1>2 DEF IInv, TxPull
    <2>2. /\ TxSize \in Nat \ {0, 1} /\ wrIn \in 0 .. TxSize - 1 /\ wrOut \in 0 .. TxSize - 1
          /\ wrBuf \in [0 .. TxSize - 1 -> Nat] /\ wrote \in Nat /\ sent \in Nat
          /\ Ring(wrBuf, wrIn, wrOut, TxSize, wrote, sent)
      BY <2>1, SizesAssumption DEF TypeOK, TxRing
    <2>3. wrBuf[wrOut] = sent + 1
      BY <2>1, <2>2 DEF Ring, Holds, Pending
    <2>4. sent < wrote
      <3>1. Pending(wrIn, wrOut, TxSize) \in 1 .. TxSize - 1
        BY <2>1, <2>2 DEF Pending
      <3> QED
        BY <2>2, <3>1 DEF Ring
    <2> QED
      BY <1>2, <2>3, <2>4 DEF TxPull, Tx!Get
  <1>3. ASSUME ~PushPublish, ~TxPull PROVE UNCHANGED <<wrote, sent>>
    BY <1>3
    DEF Next, MainSteps, Calls, Handlers, EnableInterrupts, BootPutchar, Putchar,
        PushHasRoom, PushIsFull, PushStore, WriteFindsNone, WriteFindsSome, WriteEnable,
        Flush, FlushRing, FlushReturns, ReadFindsNone, ReadFindsSome, ReadCopy, ReadRelease,
        TxHandler, TxHandlerIdle, TxHandlerEmptied, TxHandlerFilled, RxHandler, RxPush,
        RxDrop, RxHandlerReturns, FaultHandler, FaultDiscard, FaultHandlerReturns,
        ByteGoesOut, ByteComesIn, txVars
  <1> QED
    BY <1>1, <1>2, <1>3

LEMMA RxStep == IInv /\ [Next]_vars => [Rx!Next]_<<taken, got, lost>>
  <1> SUFFICES ASSUME IInv, Next
               PROVE  Rx!Put \/ Rx!Get \/ Rx!Lose \/ UNCHANGED <<taken, got, lost>>
    BY DEF Rx!Next, vars, rxVars
  <1> USE SizesAssumption
  <1>0. TypeOK /\ RxRing
    BY DEF IInv
  <1>1. CASE RxPush
    <2>1. Pending(After(rdIn, RxSize), rdOut, RxSize) = Pending(rdIn, rdOut, RxSize) + 1
      BY <1>0, <1>1, RingPut DEF RxPush, TypeOK
    <2>2. Pending(After(rdIn, RxSize), rdOut, RxSize) \in 0 .. RxSize - 1
      BY <1>0, RingRange DEF TypeOK
    <2>3. taken < got + (RxSize - 1)
      BY <1>0, <2>1, <2>2 DEF RxRing, Ring, TypeOK
    <2> QED
      BY <1>1, <2>3 DEF RxPush, Rx!Put
  <1>2. CASE RxDrop
    <2>1. Pending(rdIn, rdOut, RxSize) = RxSize - 1
      BY <1>0, <1>2, RingPut DEF RxDrop, TypeOK
    <2>2. taken = got + (RxSize - 1)
      BY <1>0, <2>1 DEF RxRing, Ring, TypeOK
    <2> QED
      BY <1>2, <2>2 DEF RxDrop, Rx!Lose
  <1>3. CASE ReadRelease
    <2>1. rdIn # rdOut /\ byte = got + 1
      BY <1>3 DEF IInv, Seen, ReadRelease, Goto
    <2>2. got < taken
      <3>1. Pending(rdIn, rdOut, RxSize) \in 1 .. RxSize - 1
        BY <1>0, <2>1 DEF Pending, TypeOK
      <3> QED
        BY <1>0, <3>1 DEF RxRing, Ring, TypeOK
    <2> QED
      BY <1>3, <2>1, <2>2 DEF ReadRelease, Rx!Get
  <1>4. ASSUME ~RxPush, ~RxDrop, ~ReadRelease PROVE UNCHANGED <<taken, got, lost>>
    BY <1>4
    DEF Next, MainSteps, Calls, Handlers, EnableInterrupts, BootPutchar, Putchar,
        PushHasRoom, PushIsFull, PushStore, PushPublish, WriteFindsNone, WriteFindsSome,
        WriteEnable, Flush, FlushRing, FlushReturns, ReadFindsNone, ReadFindsSome, ReadCopy,
        TxHandler, TxHandlerIdle, TxPull, TxHandlerEmptied, TxHandlerFilled, RxHandler,
        RxHandlerReturns, FaultHandler, FaultDiscard, FaultHandlerReturns,
        ByteGoesOut, ByteComesIn, rxVars
  <1> QED
    BY <1>1, <1>2, <1>3, <1>4

(***************************************************************************)
(* Every byte that UART2_Write accepts goes to the port once and in order, *)
(* and it accepts one unless TxSize - 1 bytes wait.                        *)
(***************************************************************************)
THEOREM TransmitsInOrder == Spec => TxIsChannel
  <1>1. Init => Tx!Init
    BY DEF Init, Tx!Init
  <1> QED
    BY <1>1, TxStep, IInvAlways, PTL DEF Spec, TxIsChannel, Tx!Spec

(***************************************************************************)
(* Every byte the receive handler puts in its ring reaches uart2_getchar   *)
(* once and in order, and the handler drops one only when RxSize - 1 bytes *)
(* wait to be read.                                                        *)
(***************************************************************************)
THEOREM ReceivesInOrder == Spec => RxIsChannel
  <1>1. Init => Rx!Init
    BY DEF Init, Rx!Init
  <1> QED
    BY <1>1, RxStep, IInvAlways, PTL DEF Spec, RxIsChannel, Rx!Spec
=============================================================================
