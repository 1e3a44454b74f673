------------------------------- MODULE Uart2 -------------------------------
(***************************************************************************)
(* The console's serial port: plib_uart2.c and the routines of pic.c that  *)
(* call it.  Two ring buffers are shared, with no lock, by the main        *)
(* program and the interrupt handlers.  The handlers all have priority 1   *)
(* (plib_evic.c), so that one of them runs at a time and the main program  *)
(* does not move while it runs, but an interrupt may fall between any two  *)
(* accesses of the main program to what it shares with them, and the port  *)
(* itself sends and receives all the while.  A step of the main program    *)
(* below therefore reads or writes one shared variable.                    *)
(*                                                                         *)
(* A byte stands for its number: the main program writes 1, 2, 3, ... and  *)
(* the port's bytes are numbered as the receive buffer takes them.  The    *)
(* port's own queues are counts.  The firmware registers no callback, uses *)
(* eight bits, and reads and writes one byte at a time.                    *)
(***************************************************************************)
EXTENDS Naturals

CONSTANTS
    TxSize,        \* UART2_WRITE_BUFFER_SIZE
    RxSize,        \* UART2_READ_BUFFER_SIZE
    FifoDepth,     \* of the port's transmit and receive queues
    BootText,      \* bytes console_initialize prints with interrupts disabled
    MaxWrites,     \* bound on the bytes the main program writes
    MaxArrivals    \* bound on the bytes that arrive at the port

\* One byte of a ring always stays free, and the boot text fits in the rest.
ASSUME SizesAssumption ==
    /\ TxSize \in Nat \ {0, 1} /\ RxSize \in Nat \ {0, 1} /\ FifoDepth \in Nat \ {0}
    /\ BootText \in Nat /\ BootText < TxSize
    /\ MaxWrites \in Nat /\ MaxArrivals \in Nat

VARIABLES
    wrBuf, wrIn, wrOut,     \* UART2_WriteBuffer, wrInIndex, wrOutIndex
    rdBuf, rdIn, rdOut,     \* UART2_ReadBuffer, rdInIndex, rdOutIndex
    pc, wrote, byte, got,   \* the main program: where it is, bytes written, byte in hand, byte read
    pushed,                 \* UART2_TxPushByte's isSuccess in the current UART2_Write
    gie, txie,              \* interrupts enabled, transmit interrupt enabled
    isr,                    \* the handler that runs, or "none"
    txfifo, sent,           \* bytes in the port's transmit queue, last byte put there
    rxfifo, oerr,           \* bytes in the port's receive queue, overrun
    taken, lost, arrivals   \* bytes the receive buffer took and turned away, bytes that arrived

txVars == <<wrBuf, wrIn, wrOut, wrote, pushed, txie, txfifo, sent>>
rxVars == <<rdBuf, rdIn, rdOut, byte, got, rxfifo, oerr, taken, lost, arrivals>>
vars == <<txVars, rxVars, pc, gie, isr>>

After_OffByOne(i, size) == IF i + 1 > size THEN 0 ELSE i + 1
After(i, size) == IF i + 1 >= size THEN 0 ELSE i + 1

(* WritePendingBytesGet and ReadCountGet: bytes in a ring.                 *)
Pending(in, out, size) == IF in >= out THEN in - out ELSE (size - out) + in

Init ==
    /\ wrBuf = [i \in 0 .. TxSize - 1 |-> 0] /\ wrIn = 0 /\ wrOut = 0
    /\ rdBuf = [i \in 0 .. RxSize - 1 |-> 0] /\ rdIn = 0 /\ rdOut = 0
    /\ pc = "boot" /\ wrote = 0 /\ byte = 0 /\ got = 0 /\ pushed = FALSE
    /\ gie = FALSE /\ txie = FALSE /\ isr = "none"
    /\ txfifo = 0 /\ sent = 0
    /\ rxfifo = 0 /\ oerr = FALSE /\ taken = 0 /\ lost = 0 /\ arrivals = 0

-----------------------------------------------------------------------------
(* The main program.  It runs while no handler does.                       *)

Goto(from, to) == isr = "none" /\ pc = from /\ pc' = to

(* Where the main program is between calls: interrupts stay disabled until *)
(* it has printed the boot text.                                           *)
Caller == IF gie THEN "main" ELSE "boot"

EnableInterrupts ==
    /\ Goto("boot", "main") /\ wrote = BootText
    /\ gie' = TRUE
    /\ UNCHANGED <<txVars, rxVars, isr>>

(* uart2_putchar calls UART2_Write until the byte is written.              *)
BootPutchar ==
    /\ Goto("boot", "room") /\ wrote < BootText
    /\ UNCHANGED <<txVars, rxVars, gie, isr>>

Putchar ==
    /\ Goto("main", "room") /\ wrote < MaxWrites
    /\ UNCHANGED <<txVars, rxVars, gie, isr>>

PushHasRoom_NoWrap ==
    /\ wrIn + 1 # wrOut
    /\ Goto("room", "store")
    /\ UNCHANGED <<txVars, rxVars, gie, isr>>

(* TxPushByte: is there room?  It reads wrOut, which the handler moves.    *)
PushHasRoom ==
    /\ After(wrIn, TxSize) # wrOut
    /\ Goto("room", "store")
    /\ UNCHANGED <<txVars, rxVars, gie, isr>>

PushIsFull ==
    /\ After(wrIn, TxSize) = wrOut
    /\ Goto("room", "count")
    /\ pushed' = FALSE
    /\ UNCHANGED <<wrBuf, wrIn, wrOut, wrote, txie, txfifo, sent, rxVars, gie, isr>>

PushStore ==
    /\ Goto("store", "publish")
    /\ wrBuf' = [wrBuf EXCEPT ![wrIn] = wrote + 1]
    /\ UNCHANGED <<wrIn, wrOut, wrote, pushed, txie, txfifo, sent, rxVars, gie, isr>>

PushPublish ==
    /\ Goto("publish", "count")
    /\ wrIn' = After(wrIn, TxSize)
    /\ wrote' = wrote + 1
    /\ pushed' = TRUE
    /\ UNCHANGED <<wrBuf, wrOut, txie, txfifo, sent, rxVars, gie, isr>>

(* UART2_Write returns 1 or 0, and 0 makes uart2_putchar call it again.    *)
WriteReturn == IF pushed THEN Caller ELSE "room"

(* UART2_Write looks for bytes to send whether it could push or not.       *)
WriteFindsNone ==
    /\ Pending(wrIn, wrOut, TxSize) = 0
    /\ Goto("count", WriteReturn)
    /\ UNCHANGED <<txVars, rxVars, gie, isr>>

WriteFindsSome ==
    /\ Pending(wrIn, wrOut, TxSize) > 0
    /\ Goto("count", "enable")
    /\ UNCHANGED <<txVars, rxVars, gie, isr>>

WriteEnable ==
    /\ Goto("enable", WriteReturn)
    /\ txie' = TRUE
    /\ UNCHANGED <<wrBuf, wrIn, wrOut, wrote, pushed, txfifo, sent, rxVars, gie, isr>>

(* uart2_flush waits for the ring, then for the port.                      *)
Flush ==
    /\ Goto("main", "flush_ring")
    /\ UNCHANGED <<txVars, rxVars, gie, isr>>

FlushRing_Skips ==
    /\ Goto("flush_ring", "flush_port")
    /\ UNCHANGED <<txVars, rxVars, gie, isr>>

FlushRing ==
    /\ Goto("flush_ring", "flush_port")
    /\ Pending(wrIn, wrOut, TxSize) = 0
    /\ UNCHANGED <<txVars, rxVars, gie, isr>>

FlushReturns ==
    /\ Goto("flush_port", "main")
    /\ txfifo = 0
    /\ UNCHANGED <<txVars, rxVars, gie, isr>>

(* UART2_Read of one byte.  It reads rdIn, which the handler moves.        *)
ReadFindsNone ==
    /\ rdIn = rdOut
    /\ Goto("main", "main")
    /\ UNCHANGED <<txVars, rxVars, gie, isr>>

ReadFindsSome ==
    /\ rdIn # rdOut
    /\ Goto("main", "read")
    /\ UNCHANGED <<txVars, rxVars, gie, isr>>

ReadCopy ==
    /\ Goto("read", "release")
    /\ byte' = rdBuf[rdOut]
    /\ UNCHANGED <<txVars, rdBuf, rdIn, rdOut, got, rxfifo, oerr, taken, lost, arrivals, gie, isr>>

ReadRelease_TakesLatest ==
    /\ Goto("release", "main")
    /\ rdOut' = rdIn
    /\ got' = byte
    /\ UNCHANGED <<txVars, rdBuf, rdIn, byte, rxfifo, oerr, taken, lost, arrivals, gie, isr>>

ReadRelease ==
    /\ Goto("release", "main")
    /\ rdOut' = After(rdOut, RxSize)
    /\ got' = byte
    /\ UNCHANGED <<txVars, rdBuf, rdIn, byte, rxfifo, oerr, taken, lost, arrivals, gie, isr>>

MainSteps ==
    \/ EnableInterrupts \/ BootPutchar
    \/ PushHasRoom \/ PushIsFull \/ PushStore \/ PushPublish
    \/ WriteFindsNone \/ WriteFindsSome \/ WriteEnable
    \/ FlushRing \/ FlushReturns
    \/ ReadCopy \/ ReadRelease

Calls == Putchar \/ Flush \/ ReadFindsNone \/ ReadFindsSome

-----------------------------------------------------------------------------
(* The interrupt handlers.                                                 *)

Enter(handler) == gie /\ isr = "none" /\ isr' = handler
Leave(handler) == isr = handler /\ isr' = "none"

(* UTXISEL = 2: the port asks for the transmit handler while it is enabled *)
(* and the port's queue is empty.  With nothing to send it is disabled.    *)
TxHandler ==
    /\ txie /\ txfifo = 0 /\ Pending(wrIn, wrOut, TxSize) > 0
    /\ Enter("tx")
    /\ UNCHANGED <<txVars, rxVars, pc, gie>>

TxHandlerIdle ==
    /\ txie /\ txfifo = 0 /\ Pending(wrIn, wrOut, TxSize) = 0
    /\ gie /\ isr = "none"
    /\ txie' = FALSE
    /\ UNCHANGED <<wrBuf, wrIn, wrOut, wrote, pushed, txfifo, sent, rxVars, pc, gie, isr>>

(* TxPullByte, and the byte goes to the port.                              *)
TxPull ==
    /\ isr = "tx" /\ txfifo < FifoDepth /\ wrOut # wrIn
    /\ sent' = wrBuf[wrOut]
    /\ wrOut' = After(wrOut, TxSize)
    /\ txfifo' = txfifo + 1
    /\ UNCHANGED <<wrBuf, wrIn, wrote, pushed, txie, rxVars, pc, gie, isr>>

TxHandlerEmptied ==
    /\ txfifo < FifoDepth /\ wrOut = wrIn
    /\ Leave("tx")
    /\ txie' = FALSE
    /\ UNCHANGED <<wrBuf, wrIn, wrOut, wrote, pushed, txfifo, sent, rxVars, pc, gie>>

TxHandlerFilled_Disables ==
    /\ txfifo = FifoDepth
    /\ Leave("tx")
    /\ txie' = FALSE
    /\ UNCHANGED <<wrBuf, wrIn, wrOut, wrote, pushed, txfifo, sent, rxVars, pc, gie>>

TxHandlerFilled ==
    /\ txfifo = FifoDepth
    /\ Leave("tx")
    /\ UNCHANGED <<txVars, rxVars, pc, gie>>

RxHandler ==
    /\ rxfifo > 0
    /\ Enter("rx")
    /\ UNCHANGED <<txVars, rxVars, pc, gie>>

(* RxPushByte: the byte is lost when the ring is full.                     *)
RxPush ==
    /\ isr = "rx" /\ rxfifo > 0 /\ After(rdIn, RxSize) # rdOut
    /\ rdBuf' = [rdBuf EXCEPT ![rdIn] = taken + 1]
    /\ rdIn' = After(rdIn, RxSize)
    /\ taken' = taken + 1
    /\ rxfifo' = rxfifo - 1
    /\ UNCHANGED <<txVars, rdOut, byte, got, oerr, lost, arrivals, pc, gie, isr>>

RxDrop ==
    /\ isr = "rx" /\ rxfifo > 0 /\ After(rdIn, RxSize) = rdOut
    /\ lost' = lost + 1
    /\ rxfifo' = rxfifo - 1
    /\ UNCHANGED <<txVars, rdBuf, rdIn, rdOut, byte, got, oerr, taken, arrivals, pc, gie, isr>>

RxHandlerReturns ==
    /\ rxfifo = 0
    /\ Leave("rx")
    /\ UNCHANGED <<txVars, rxVars, pc, gie>>

(* The fault handler clears an overrun and empties the port's queue.       *)
FaultHandler ==
    /\ oerr
    /\ Enter("fault")
    /\ oerr' = FALSE
    /\ UNCHANGED <<txVars, rdBuf, rdIn, rdOut, byte, got, rxfifo, taken, lost, arrivals, pc, gie>>

FaultDiscard ==
    /\ isr = "fault" /\ rxfifo > 0
    /\ rxfifo' = rxfifo - 1
    /\ UNCHANGED <<txVars, rdBuf, rdIn, rdOut, byte, got, oerr, taken, lost, arrivals, pc, gie, isr>>

FaultHandlerReturns ==
    /\ rxfifo = 0
    /\ Leave("fault")
    /\ UNCHANGED <<txVars, rxVars, pc, gie>>

Handlers ==
    \/ TxHandler \/ TxHandlerIdle \/ TxPull \/ TxHandlerEmptied \/ TxHandlerFilled
    \/ RxHandler \/ RxPush \/ RxDrop \/ RxHandlerReturns
    \/ FaultHandler \/ FaultDiscard \/ FaultHandlerReturns

-----------------------------------------------------------------------------
(* The port.                                                               *)

ByteGoesOut ==
    /\ txfifo > 0
    /\ txfifo' = txfifo - 1
    /\ UNCHANGED <<wrBuf, wrIn, wrOut, wrote, pushed, txie, sent, rxVars, pc, gie, isr>>

(* A byte that finds the queue full overruns it, and none is received      *)
(* until the overrun is cleared.                                           *)
ByteComesIn ==
    /\ arrivals < MaxArrivals /\ ~oerr
    /\ arrivals' = arrivals + 1
    /\ IF rxfifo < FifoDepth THEN rxfifo' = rxfifo + 1 /\ UNCHANGED oerr
                             ELSE oerr' = TRUE /\ UNCHANGED rxfifo
    /\ UNCHANGED <<txVars, rdBuf, rdIn, rdOut, byte, got, taken, lost, pc, gie, isr>>

Next == MainSteps \/ Calls \/ Handlers \/ ByteGoesOut \/ ByteComesIn

Spec == Init /\ [][Next]_vars

(* The processor and the port run; nobody has to call or to type.          *)
FairSpec == Spec /\ WF_vars(MainSteps) /\ WF_vars(Handlers) /\ WF_vars(ByteGoesOut)

-----------------------------------------------------------------------------
TypeOK ==
    /\ wrBuf \in [0 .. TxSize - 1 -> Nat] /\ wrIn \in 0 .. TxSize - 1 /\ wrOut \in 0 .. TxSize - 1
    /\ rdBuf \in [0 .. RxSize - 1 -> Nat] /\ rdIn \in 0 .. RxSize - 1 /\ rdOut \in 0 .. RxSize - 1
    /\ pc \in {"boot", "main", "room", "store", "publish", "count", "enable",
               "flush_ring", "flush_port", "read", "release"}
    /\ wrote \in Nat /\ byte \in Nat /\ got \in Nat /\ pushed \in BOOLEAN
    /\ gie \in BOOLEAN /\ txie \in BOOLEAN /\ isr \in {"none", "tx", "rx", "fault"}
    /\ txfifo \in 0 .. FifoDepth /\ sent \in Nat
    /\ rxfifo \in 0 .. FifoDepth /\ oerr \in BOOLEAN
    /\ taken \in Nat /\ lost \in Nat /\ arrivals \in Nat

(* Bytes the main program wrote never wait for an interrupt that nobody    *)
(* will enable: with no UART2_Write under way, a ring that is not empty    *)
(* has its interrupt enabled (UART2_Write and the transmit handler race    *)
(* for the enable bit).                                                    *)
NoLostWakeup ==
    wrIn # wrOut => txie \/ pc \in {"count", "enable"}

(* uart2_flush returns only when the port has sent all that was written.   *)
FlushMeansSent == [][pc = "flush_port" /\ pc' = "main" => sent = wrote /\ txfifo = 0]_vars

(* The transmit ring is a channel from the main program to the port, and   *)
(* the receive ring one from the port to the main program.                 *)
Tx == INSTANCE ByteChannel WITH Capacity <- TxSize - 1, in <- wrote, out <- sent, lost <- 0
Rx == INSTANCE ByteChannel WITH Capacity <- RxSize - 1, in <- taken, out <- got, lost <- lost
TxIsChannel == Tx!Spec
RxIsChannel == Rx!Spec

(* Every call of the main program comes to an end, those of the boot text  *)
(* included, though uart2_putchar and uart2_flush wait for the handlers.   *)
CallsReturn == []<>(pc = "main")
=============================================================================
