------------------------- MODULE TcpSockets_proofs -------------------------
(***************************************************************************)
(* Proofs about the socket table.  Every step of the stack, and every call *)
(* of the application, replaces TCBs one by one, so the invariants are     *)
(* proved of one TCB and carried to the table.                             *)
(***************************************************************************)
EXTENDS TcpSockets, WellFoundedInduction, TLAPS

Good(t) ==
    /\ t \in Tcb
    /\ t.kill => t.st \in ClosingStates
    /\ t.fin <=> t.st \in {"CLOSE_WAIT", "CLOSING", "LAST_ACK"}
    /\ t.rx => t.st \in ConnectedStates \cup ClosingStates

TableOK == /\ tcb \in [Handles -> Tcb]
           /\ \A h \in Handles : Good(tcb[h])

CountersOK == synRun \subseteq Handles /\ nconn \in 0 .. MaxConns

(* A socket the application has opened and not closed.                     *)
Live(t) == t.st # "CLOSED" /\ ~t.kill

(***************************************************************************)
(* What the stack may do to one TCB: it stays good, an open socket stays   *)
(* open on its port, and no socket comes to be open.                       *)
(***************************************************************************)
Kept(t, u) == /\ Good(u)
              /\ Live(t) <=> Live(u)
              /\ Live(t) => u.port = t.port

(* The same for a socket the application closes.                           *)
Shut(t, u) == Good(u) /\ ~Live(u)

-----------------------------------------------------------------------------
(* One TCB.                                                                *)

LEMMA ListenGood == ASSUME NEW port \in Ports \cup {0} PROVE Good(ListenTcb(port)) /\ Live(ListenTcb(port))
  BY SocketAssumption DEF Good, Live, ListenTcb, FreeTcb, Tcb, States, ConnectedStates, ClosingStates, Conns, NoConn

LEMMA FreeGood == Good(FreeTcb) /\ ~Live(FreeTcb)
  BY DEF Good, Live, FreeTcb, Tcb, States, ConnectedStates, ClosingStates, Conns, NoConn

LEMMA AfterCloseKept == ASSUME NEW t, Good(t), t.st # "CLOSED" PROVE Kept(t, AfterClose(t))
  <1>1. CASE t.kill
    BY <1>1, FreeGood DEF Kept, AfterClose, Live
  <1>2. CASE ~t.kill
    <2>1. t.port \in Ports \cup {0}
      BY DEF Good, Tcb
    <2>2. AfterClose(t) = ListenTcb(t.port)
      BY <1>2 DEF AfterClose
    <2>3. ListenTcb(t.port).port = t.port
      BY DEF ListenTcb, FreeTcb
    <2> QED
      BY <1>2, <2>1, <2>2, <2>3, ListenGood DEF Kept, Live
  <1> QED
    BY <1>1, <1>2

LEMMA GoodKept == ASSUME NEW t, Good(t) PROVE Kept(t, t)
  BY DEF Kept

-----------------------------------------------------------------------------
(* The table.                                                              *)

(* A step that replaces one TCB by a good one leaves a good table.         *)
LEMMA ReplaceOne ==
  ASSUME TableOK, NEW h \in Handles, NEW u, Good(u), tcb' = [tcb EXCEPT ![h] = u]
  PROVE  TableOK' /\ tcb'[h] = u /\ \A g \in Handles \ {h} : tcb'[g] = tcb[g]
  BY DEF TableOK, Good

(* ... and if it keeps that TCB, it keeps every TCB.                       *)
AllKept == \A h \in Handles : Kept(tcb[h], tcb'[h])

LEMMA KeepOne ==
  ASSUME TableOK, NEW h \in Handles, NEW u, Kept(tcb[h], u), tcb' = [tcb EXCEPT ![h] = u]
  PROVE  TableOK' /\ AllKept
  <1>1. Good(u)
    BY DEF Kept
  <1>2. TableOK' /\ tcb'[h] = u /\ \A g \in Handles \ {h} : tcb'[g] = tcb[g]
    BY <1>1, ReplaceOne
  <1>3. \A g \in Handles : Kept(tcb[g], tcb[g])
    BY GoodKept DEF TableOK
  <1> QED
    BY <1>2, <1>3 DEF AllKept

LEMMA KeepAll == ASSUME TableOK, UNCHANGED tcb PROVE TableOK' /\ AllKept
  BY GoodKept DEF TableOK, AllKept

LEMMA CloseSocketKept ==
  ASSUME TableOK, NEW h \in Handles, Allocated(h), CloseSocket(h)
  PROVE  TableOK' /\ AllKept
  <1>1. tcb' = [tcb EXCEPT ![h] = AfterClose(tcb[h])]
    BY DEF CloseSocket
  <1>2. Kept(tcb[h], AfterClose(tcb[h]))
    BY AfterCloseKept DEF TableOK, Allocated
  <1> QED
    BY <1>1, <1>2, KeepOne

(* Nothing the network or a timer does to the table breaks it, closes a    *)
(* socket that is open or opens one.                                       *)
LEMMA StackStepKept ==
  ASSUME TableOK, CountersOK, StackStep
  PROVE  TableOK' /\ CountersOK' /\ AllKept
  <1> USE DEF CountersOK
  <1>0. ASSUME NEW h \in Handles PROVE Good(tcb[h])
    BY DEF TableOK
  <1>1. ASSUME NEW h \in Handles, RxSyn(h) PROVE TableOK' /\ CountersOK' /\ AllKept
    <2> DEFINE u == [[tcb[h] EXCEPT !.st = "SYN_RECEIVED"] EXCEPT !.conn = nconn + 1]
    <2>1. tcb' = [tcb EXCEPT ![h] = u]
      BY <1>1 DEF RxSyn, TableOK
    <2>c. nconn + 1 \in Conns
      BY <1>1, SocketAssumption DEF RxSyn, Conns
    <2>2. Kept(tcb[h], u)
      BY <1>0, <1>1, <2>c DEF RxSyn, Kept, Good, Live, Tcb, States, ConnectedStates, ClosingStates
    <2>3. CountersOK'
      BY <1>1, SocketAssumption DEF RxSyn
    <2> QED
      BY <2>1, <2>2, <2>3, KeepOne
  <1>2. ASSUME NEW h \in Handles, RxAckOfSyn(h) PROVE TableOK' /\ CountersOK' /\ AllKept
    <2> DEFINE u == [tcb[h] EXCEPT !.st = "ESTABLISHED"]
    <2>1. tcb' = [tcb EXCEPT ![h] = u]
      BY <1>2 DEF RxAckOfSyn, TableOK
    <2>2. Kept(tcb[h], u)
      BY <1>0, <1>2 DEF RxAckOfSyn, Kept, Good, Live, Tcb, States, ConnectedStates, ClosingStates
    <2> QED
      BY <1>2, <2>1, <2>2, KeepOne DEF RxAckOfSyn
  <1>3. ASSUME NEW h \in Handles, RxData(h) PROVE TableOK' /\ CountersOK' /\ AllKept
    <2> DEFINE u == [tcb[h] EXCEPT !.rx = TRUE]
    <2>1. tcb' = [tcb EXCEPT ![h] = u]
      BY <1>3 DEF RxData, TableOK
    <2>2. Kept(tcb[h], u)
      BY <1>0, <1>3 DEF RxData, Kept, Good, Live, Tcb, States, ConnectedStates, ClosingStates
    <2> QED
      BY <1>3, <2>1, <2>2, KeepOne DEF RxData
  <1>4. ASSUME NEW h \in Handles, RxFin(h) PROVE TableOK' /\ CountersOK' /\ AllKept
    <2>1. CASE tcb[h].st \in {"ESTABLISHED", "FIN_WAIT_1"}
      <3> DEFINE s == IF tcb[h].st = "ESTABLISHED" THEN "CLOSE_WAIT" ELSE "CLOSING"
                 u == [[tcb[h] EXCEPT !.st = s] EXCEPT !.fin = TRUE]
      <3>1. tcb' = [tcb EXCEPT ![h] = u]
        BY <1>4, <2>1 DEF RxFin, TableOK
      <3>2. Kept(tcb[h], u)
        BY <1>0, <2>1 DEF Kept, Good, Live, Tcb, States, ConnectedStates, ClosingStates
      <3> QED
        BY <1>4, <3>1, <3>2, KeepOne DEF RxFin
    <2>2. CASE tcb[h].st = "FIN_WAIT_2"
      BY <1>4, <2>2, CloseSocketKept DEF RxFin, Allocated
    <2> QED
      BY <1>4, <2>1, <2>2 DEF RxFin
  <1>5. ASSUME NEW h \in Handles, RxAckOfFin(h) PROVE TableOK' /\ CountersOK' /\ AllKept
    <2>1. CASE tcb[h].st = "FIN_WAIT_1"
      <3> DEFINE u == [[tcb[h] EXCEPT !.st = "FIN_WAIT_2"] EXCEPT !.stalled = FALSE]
      <3>1. tcb' = [tcb EXCEPT ![h] = u]
        BY <1>5, <2>1 DEF RxAckOfFin, TableOK
      <3>2. Kept(tcb[h], u)
        BY <1>0, <2>1 DEF Kept, Good, Live, Tcb, States, ConnectedStates, ClosingStates
      <3> QED
        BY <1>5, <3>1, <3>2, KeepOne DEF RxAckOfFin
    <2>2. CASE tcb[h].st \in {"CLOSING", "LAST_ACK"}
      BY <1>5, <2>2, CloseSocketKept DEF RxAckOfFin, Allocated
    <2> QED
      BY <1>5, <2>1, <2>2 DEF RxAckOfFin
  <1>6. ASSUME NEW h \in Handles, RxRst(h) PROVE TableOK' /\ CountersOK' /\ AllKept
    BY <1>6, CloseSocketKept DEF RxRst, Allocated
  <1>7. ASSUME NEW h \in Handles, Timeout(h) PROVE TableOK' /\ CountersOK' /\ AllKept
    <2>1. CASE tcb[h].st = "ESTABLISHED"
      <3> DEFINE u == [tcb[h] EXCEPT !.st = "FIN_WAIT_1"]
      <3>1. tcb' = [tcb EXCEPT ![h] = u]
        BY <1>7, <2>1 DEF Timeout, ClosingStates, TableOK
      <3>2. Kept(tcb[h], u)
        BY <1>0, <2>1 DEF Kept, Good, Live, Tcb, States, ConnectedStates, ClosingStates
      <3> QED
        BY <1>7, <3>1, <3>2, KeepOne DEF Timeout
    <2>2. CASE tcb[h].st \in {"SYN_RECEIVED"} \cup ClosingStates
      BY <1>7, <2>2, CloseSocketKept DEF Timeout, Allocated, ClosingStates
    <2> QED
      BY <1>7, <2>1, <2>2 DEF Timeout
  <1>8. ASSUME NEW h \in Handles, RxWindow(h) PROVE TableOK' /\ CountersOK' /\ AllKept
    <2> DEFINE u == [tcb[h] EXCEPT !.stalled = ~tcb[h].stalled]
    <2>1. tcb' = [tcb EXCEPT ![h] = u]
      BY <1>8 DEF RxWindow, TableOK
    <2>2. Kept(tcb[h], u)
      BY <1>0, <1>8 DEF RxWindow, Kept, Good, Live, Tcb, States, ConnectedStates, ClosingStates
    <2> QED
      BY <1>8, <2>1, <2>2, KeepOne DEF RxWindow
  <1> QED
    BY <1>1, <1>2, <1>3, <1>4, <1>5, <1>6, <1>7, <1>8 DEF StackStep

-----------------------------------------------------------------------------
(* What the application calls.                                             *)

(* A set of naturals that is not empty has a lowest element.               *)
LEMMA LowestIsLowest ==
  ASSUME NEW S, S \subseteq Nat, S # {}
  PROVE  Lowest(S) \in S /\ \A g \in S : Lowest(S) <= g
  <1> DEFINE R == OpToRel(<, Nat)
  <1>1. PICK h \in S : \A g \in S : <<g, h>> \notin R
    <2> HIDE DEF R
    <2>1. IsWellFoundedOn(R, Nat)
      BY NatLessThanWellFounded DEF R
    <2> QED
      BY <2>1, WFMin
  <1>2. R = {ss \in Nat \X Nat : ss[1] < ss[2]}
    BY DEF OpToRel
  <1>3. \A g \in S : h <= g
    <2> HIDE DEF R
    <2>1. ASSUME NEW g \in S, g < h PROVE FALSE
      <3>1. <<g, h>> \in Nat \X Nat /\ <<g, h>>[1] < <<g, h>>[2]
        BY <2>1
      <3> QED
        BY <1>1, <1>2, <3>1
    <2> QED
      BY <2>1
  <1> QED
    BY <1>3 DEF Lowest

LEMMA LowestHandle == ASSUME NEW S, S \subseteq Handles, S # {} PROVE Lowest(S) \in S
  <1>1. Handles \subseteq Nat
    BY SocketAssumption DEF Handles
  <1> QED
    BY <1>1, LowestIsLowest

(* Opening fills one slot with an open socket.                             *)
LEMMA OpenOpens ==
  ASSUME TableOK, NEW h \in Handles, NEW port \in Ports \cup {0}, OpenAt(h, port)
  PROVE  /\ TableOK'
         /\ Live(tcb'[h]) /\ tcb'[h].port = port
         /\ \A g \in Handles \ {h} : tcb'[g] = tcb[g]
  <1>1. ListenTcb(port).port = port
    BY DEF ListenTcb, FreeTcb
  <1> QED
    BY <1>1, ListenGood, ReplaceOne DEF OpenAt

(* Closing shuts one socket, whichever way the code takes.                 *)
LEMMA CloseShuts ==
  ASSUME TableOK, NEW h \in Handles, Allocated(h), Close(h)
  PROVE  /\ TableOK'
         /\ Shut(tcb[h], tcb'[h])
         /\ \A g \in Handles \ {h} : tcb'[g] = tcb[g]
  <1>0. Good(tcb[h])
    BY DEF TableOK
  <1>1. CASE tcb[h].st # "LISTEN" /\ CloseGracefully(h)
    <2> DEFINE s == AfterDisconnect(tcb[h].st)
               u(w) == [[[tcb[h] EXCEPT !.kill = TRUE] EXCEPT !.st = s] EXCEPT !.stalled = w]
    <2>1. PICK w \in BOOLEAN : tcb' = [tcb EXCEPT ![h] = u(w)]
      <3>1. PICK zero \in BOOLEAN :
              tcb' = [tcb EXCEPT ![h].kill = TRUE,
                                 ![h].st = AfterDisconnect(@),
                                 ![h].stalled = IF tcb[h].st \in ClosingStates THEN @ ELSE zero]
        BY <1>1 DEF CloseGracefully
      <3> DEFINE w == IF tcb[h].st \in ClosingStates THEN tcb[h].stalled ELSE zero
      <3>2. w \in BOOLEAN
        BY <1>0 DEF Good, Tcb
      <3>3. tcb' = [tcb EXCEPT ![h] = u(w)]
        BY <1>0, <3>1 DEF TableOK, Good, Tcb
      <3> QED
        BY <3>2, <3>3
    <2>2. /\ s \in ClosingStates
          /\ s \in {"CLOSING", "LAST_ACK"} <=> tcb[h].st \in {"CLOSE_WAIT", "CLOSING", "LAST_ACK"}
      BY <1>0, <1>1 DEF Allocated, Good, Tcb, States, ConnectedStates, ClosingStates, AfterDisconnect
    <2>3. Good(u(w)) /\ ~Live(u(w))
      <3> HIDE DEF s
      <3> QED
        BY <1>0, <2>2 DEF Good, Live, Tcb, States, ConnectedStates, ClosingStates
    <2> HIDE DEF u
    <2> QED
      BY <2>1, <2>3, ReplaceOne DEF Shut
  <1>2. CASE CloseByAbort(h)
    BY <1>2, FreeGood, ReplaceOne DEF CloseByAbort, Shut
  <1> QED
    BY <1>1, <1>2 DEF Close

-----------------------------------------------------------------------------
(* The table under an arbitrary application.                               *)

StackInv == TableOK /\ CountersOK

LEMMA StackInvInit == StackInit => StackInv
  BY FreeGood, SocketAssumption DEF StackInit, StackInv, TableOK, CountersOK, Good

LEMMA StackInvStep == StackInv /\ [StackNext]_stackVars => StackInv'
  <1> SUFFICES ASSUME StackInv, [StackNext]_stackVars PROVE StackInv'
    OBVIOUS
  <1> USE DEF StackInv
  <1>1. CASE StackStep
    BY <1>1, StackStepKept
  <1>2. CASE EndRun
    BY <1>2, KeepAll DEF EndRun, CountersOK
  <1>3. ASSUME NEW port \in Ports, AppOpen(port) PROVE StackInv'
    <2>1. Lowest(FreeSlots) \in Handles
      BY <1>3, LowestHandle DEF AppOpen, FreeSlots
    <2> QED
      BY <1>3, <2>1, OpenOpens DEF AppOpen, CountersOK
  <1>4. ASSUME NEW h \in Handles, AppClose(h) PROVE StackInv'
    BY <1>4, CloseShuts DEF AppClose, CountersOK
  <1>5. ASSUME NEW h \in Handles, AppRead(h) PROVE StackInv'
    <2> DEFINE u == [tcb[h] EXCEPT !.rx = FALSE]
    <2>1. tcb' = [tcb EXCEPT ![h] = u]
      BY <1>5 DEF AppRead, TableOK
    <2>2. Good(u)
      BY DEF TableOK, Good, Tcb
    <2> QED
      BY <1>5, <2>1, <2>2, ReplaceOne DEF AppRead, CountersOK
  <1>6. CASE UNCHANGED stackVars
    BY <1>6, KeepAll DEF stackVars, CountersOK
  <1> QED
    BY <1>1, <1>2, <1>3, <1>4, <1>5, <1>6 DEF StackNext

LEMMA StackInvMeaning ==
  StackInv => StackTypeOK /\ KilledIsClosing /\ FinMeansPeerClosed /\ NoStaleInput
  BY DEF StackInv, TableOK, CountersOK, Good, StackTypeOK, KilledIsClosing, FinMeansPeerClosed,
         NoStaleInput

LEMMA StackInvAlways == StackSpec => []StackInv
  BY StackInvInit, StackInvStep, PTL DEF StackSpec

(***************************************************************************)
(* The socket table keeps its type, whatever segments, timers and calls    *)
(* come.                                                                   *)
(***************************************************************************)
THEOREM StackTypeCorrect == StackSpec => []StackTypeOK
  BY StackInvAlways, StackInvMeaning, PTL

(***************************************************************************)
(* TCPIP_TCP_Close never leaves a TCB that is marked to be killed in a     *)
(* state from which no timer and no peer would free it.                    *)
(***************************************************************************)
THEOREM KilledAreOnTheirWay == StackSpec => []KilledIsClosing
  BY StackInvAlways, StackInvMeaning, PTL

(***************************************************************************)
(* WasDisconnected holds of a handle exactly while the peer of its present *)
(* connection has closed: _TcpCloseSocket forgets the FIN of the last one. *)
(***************************************************************************)
THEOREM FinIsOfThisPeer == StackSpec => []FinMeansPeerClosed
  BY StackInvAlways, StackInvMeaning, PTL

(***************************************************************************)
(* A socket that listens has nothing to read: _TcpCloseSocket discards     *)
(* what the last connection left.                                          *)
(***************************************************************************)
THEOREM InputIsOfThisPeer == StackSpec => []NoStaleInput
  BY StackInvAlways, StackInvMeaning, PTL
=============================================================================
