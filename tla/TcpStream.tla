----------------------------- MODULE TcpStream -----------------------------
(***************************************************************************)
(* The data path of an established connection of the Harmony stack         *)
(* (tcp.c): the transmit ring with its three pointers, the receive ring    *)
(* with the one hole that segments out of order may leave in it, windows,  *)
(* delayed acknowledgements and retransmission, over a network that loses, *)
(* repeats and reorders segments.                                          *)
(*                                                                         *)
(* The bytes of each direction are numbered from 1, so that byte n has the *)
(* sequence number n - 1; the model's numbers do not reach the width of    *)
(* MySEQ and RemoteSEQ, while the windows keep theirs, modulo WindowMod.   *)
(* Timers may expire whenever they run.  Connecting and closing are in     *)
(* TcpSockets.                                                             *)
(***************************************************************************)
EXTENDS Integers, Sequences, FiniteSets

CONSTANTS
    TxSlots,        \* txEnd - txStart: one more than the transmit ring holds
    RxSlots,        \* rxEnd - rxStart + 1: one more than the receive ring holds
    MaxPayload,     \* the least of wRemoteMSS and localMSS
    MaxRetries,     \* TCPIP_TCP_MAX_RETRIES
    WindowMod,      \* the range of remoteWindow
    PeerBuffer,     \* what the peer can hold unread
    Loads,          \* what the application and the peer may write in all, and the
                    \* slot from which the receive ring is filled
    MaxFlight       \* bound on the segments under way

ASSUME StreamAssumption ==
    /\ TxSlots \in Nat /\ TxSlots > 1 /\ RxSlots \in Nat /\ RxSlots > 1
    /\ MaxPayload \in Nat \ {0} /\ MaxRetries \in Nat /\ MaxFlight \in Nat
    /\ PeerBuffer \in Nat /\ WindowMod \in Nat /\ PeerBuffer < WindowMod
    /\ \A l \in Loads : l.app \in Nat /\ l.peer \in Nat /\ l.slot \in 0 .. RxSlots - 1

VARIABLES
    tcb,            \* the socket's TCB_STUB
    open,           \* it is in TCPIP_TCP_STATE_ESTABLISHED
    wrote, got,     \* what the application has written, and the bytes it has read
    peer,           \* the remote node
    toPeer, toUs,   \* segments under way
    load

vars == <<tcb, open, wrote, got, peer, toPeer, toUs, load>>

None == -1
Least(a, b) == IF a < b THEN a ELSE b
Most(a, b) == IF a < b THEN b ELSE a

-----------------------------------------------------------------------------
(* The rings.  A pointer is a slot; both directions leave one slot free.   *)

Held(s) == (s.txHead - s.txTail) % TxSlots
Unacked(s) == (s.txUnackedTail - s.txTail) % TxSlots
Unsent(s) == (s.txHead - s.txUnackedTail) % TxSlots
TxFree(s) == TxSlots - 1 - Held(s)
Ready(s) == (s.rxHead - s.rxTail) % RxSlots
RxFree(s) == RxSlots - 1 - Ready(s)

Slots(ring, from, n, size) == [i \in 1 .. n |-> ring[(from + i - 1) % size]]
Stored(ring, from, bytes, size) ==
    [k \in DOMAIN ring |->
        LET i == ((k - from) % size) + 1 IN IF i \in DOMAIN bytes THEN bytes[i] ELSE ring[k]]

-----------------------------------------------------------------------------
(* _TcpSend(pSkt, ACK, ...): whatever may be sent, or else a bare ACK.     *)

Sendable(s) == Least(Unsent(s), s.remoteWindow)
SendLength_IgnoresWindow(s) == Least(Unsent(s), MaxPayload)
SendLength(s) == Least(Sendable(s), MaxPayload)
SegmentOf(s) == [seq |-> s.MySEQ, ack |-> s.RemoteSEQ, win |-> RxFree(s),
                 bytes |-> Slots(s.tx, s.txUnackedTail, SendLength(s), TxSlots)]
RetryAfter_StartsAgain(s, reset) == IF SendLength(s) > 0 THEN 0 ELSE s.retryCount
RetryAfter(s, reset) ==
    IF SendLength(s) > 0 THEN IF reset THEN 0 ELSE s.retryCount
    ELSE IF s.timer /\ ~reset /\ s.retryCount > 0 THEN s.retryCount - 1 ELSE s.retryCount
(* lastAck, a history of what was acknowledged, is not a field of TCB_STUB. *)
Sent(s, reset) ==
    [s EXCEPT !.due = "no", !.oneSegment = FALSE, !.asap = Sendable(s) > MaxPayload,
              !.MySEQ = @ + SendLength(s),
              !.txUnackedTail = (@ + SendLength(s)) % TxSlots,
              !.remoteWindow = @ - SendLength(s),
              !.timer = @ \/ SendLength(s) > 0,
              !.retryCount = RetryAfter(s, reset),
              !.localWindow = RxFree(s), !.lastAck = s.RemoteSEQ]

(* The network loses what it has no room for.                              *)
Room == Cardinality(toPeer) + Cardinality(toUs) < MaxFlight
Carried(m) == IF Room THEN toPeer \cup {m} ELSE toPeer

(* The socket is s after the handler, which has sent or not.               *)
Quiet(s) == tcb' = s /\ UNCHANGED toPeer
Sends(s, reset) == tcb' = Sent(s, reset) /\ toPeer' = Carried(SegmentOf(s))

CanFlush(s) == Unsent(s) > 0 /\ s.remoteWindow # 0

(* Timer 2 is started unless it runs.                                      *)
DueLater_Never(s) == s
DueLater(s) == [s EXCEPT !.due = IF @ = "no" THEN "later" ELSE @]

-----------------------------------------------------------------------------
(* The application: tcp_write, tcp_flush and tcp_read.                     *)

Put(s, n) == [s EXCEPT !.tx = Stored(@, s.txHead, [i \in 1 .. n |-> wrote + i], TxSlots),
                       !.txHead = (@ + n) % TxSlots]

(* Whether enough waits to be sent at once depends on sizes and windows,   *)
(* and on whether anything is unacknowledged: _TCPNeedSend.                *)
ArrayPut(n, needSend) ==
    /\ open /\ n <= TxFree(tcb) /\ wrote + n <= load.app
    /\ wrote' = wrote + n
    /\ LET s == Put(tcb, n) IN
        IF ~needSend THEN Quiet(DueLater(s))
        ELSE IF CanFlush(s) THEN Sends(s, TRUE) ELSE Quiet(s)
    /\ UNCHANGED <<open, got, peer, toUs, load>>

Flush ==
    /\ open /\ CanFlush(tcb)
    /\ Sends(tcb, TRUE)
    /\ UNCHANGED <<open, wrote, got, peer, toUs, load>>

(* A window update goes out at once when the whole buffer is free or the   *)
(* window has grown enough.                                                *)
Advertises(s) ==
    \/ RxFree(s) = RxSlots - 1
    \/ RxFree(s) - s.localWindow > Least((RxSlots - 1) \div 2, MaxPayload)

ArrayGet(n) ==
    /\ open /\ n <= Ready(tcb)
    /\ got' = got \o Slots(tcb.rx, tcb.rxTail, n, RxSlots)
    /\ LET s == [tcb EXCEPT !.rxTail = (@ + n) % RxSlots] IN
        IF Advertises(s) THEN Sends(s, TRUE)
        ELSE IF Ready(s) <= n THEN Quiet([s EXCEPT !.asap = TRUE])
        ELSE Quiet(DueLater(s))
    /\ UNCHANGED <<open, wrote, peer, toUs, load>>

-----------------------------------------------------------------------------
(* TCPIP_TCP_Tick.                                                         *)

TickSends ==
    /\ open /\ (tcb.asap \/ tcb.due # "no")
    /\ Sends(tcb, ~tcb.asap)
    /\ UNCHANGED <<open, wrote, got, peer, toUs, load>>

RolledBack_NotSeq(s) ==
    [s EXCEPT !.txUnackedTail = s.txTail, !.remoteWindow = (@ + Unacked(s)) % WindowMod]
RolledBack(s) ==
    [s EXCEPT !.MySEQ = @ - Unacked(s), !.txUnackedTail = s.txTail,
              !.remoteWindow = (@ + Unacked(s)) % WindowMod]

TimerExpires == open /\ tcb.timer /\ ~tcb.asap /\ tcb.due # "now"

TickRetransmits ==
    /\ TimerExpires /\ tcb.retryCount < MaxRetries
    /\ Sends(RolledBack([tcb EXCEPT !.retryCount = @ + 1]), FALSE)
    /\ UNCHANGED <<open, wrote, got, peer, toUs, load>>

(* No answer for too long: the connection is closed.                       *)
TickGivesUp ==
    /\ TimerExpires /\ tcb.retryCount >= MaxRetries
    /\ open' = FALSE
    /\ UNCHANGED <<tcb, wrote, got, peer, toPeer, toUs, load>>

-----------------------------------------------------------------------------
(* _TcpHandleSeg.                                                          *)

Missing(s, m) == m.seq - s.RemoteSEQ
Acceptable(s, m) ==
    IF m.bytes = <<>>
      THEN Missing(s, m) = 0 \/ (Missing(s, m) >= 0 /\ RxFree(s) > Missing(s, m))
      ELSE /\ RxFree(s) > 0 /\ Missing(s, m) < RxFree(s)
           /\ Missing(s, m) + Len(m.bytes) > 0

AcksUnsent(s, m) == m.ack > s.MySEQ + Unsent(s)
Newly(s, m) == m.ack - (s.MySEQ - Unacked(s))

(* Bytes are acknowledged, some of them perhaps after a roll-back.         *)
Released(s, n) ==
    LET beyond == n - Unacked(s) IN
    [s EXCEPT !.txTail = (@ + n) % TxSlots,
              !.MySEQ = IF beyond > 0 THEN @ + beyond ELSE @,
              !.txUnackedTail = IF beyond > 0 THEN (@ + beyond) % TxSlots ELSE @]

(* Nothing new is: retxTime may have passed, for a fast retransmission.    *)
FastRetransmit(s) ==
    [s EXCEPT !.MySEQ = @ - Unacked(s), !.txUnackedTail = s.txTail, !.asap = TRUE]

Acknowledged(s, m, late) ==
    LET t == IF Newly(s, m) > 0 THEN Released(s, Newly(s, m))
             ELSE IF Unacked(s) > 0 /\ late THEN FastRetransmit(s) ELSE s
        window == (m.win - (t.MySEQ - m.ack)) % WindowMod
    IN [t EXCEPT !.timer = @ /\ Held(t) # 0,
                 !.due = IF t.remoteWindow = 0 /\ window # 0 THEN "now" ELSE @,
                 !.remoteWindow = window]

(* Data that is expected next, after what is old has been skipped.  It may *)
(* reach the data behind the hole.                                         *)
HoleClosed(s, n) ==
    LET hole == s.sHoleSize - n
        extra == s.wFutureDataSize + hole
    IN IF extra < 0 THEN [s EXCEPT !.sHoleSize = None]
       ELSE IF hole <= 0
              THEN [s EXCEPT !.RemoteSEQ = @ + extra, !.rxHead = (@ + extra) % RxSlots,
                             !.sHoleSize = None]
              ELSE [s EXCEPT !.sHoleSize = hole]

InSequence(s, m) ==
    LET old == -Missing(s, m)
        n == Least(Len(m.bytes) - old, RxFree(s))
        t == [s EXCEPT !.rx = Stored(@, s.rxHead, SubSeq(m.bytes, old + 1, old + n), RxSlots),
                       !.RemoteSEQ = @ + n, !.rxHead = (@ + n) % RxSlots]
    IN IF s.sHoleSize = None THEN t ELSE HoleClosed(t, n)

(* Data ahead of it goes to its place in the ring.  One hole is recorded;  *)
(* what lies behind a second one is forgotten.                             *)
FutureOf_JoinsAnything(s, missing, n) ==
    Most(missing + n, s.sHoleSize + s.wFutureDataSize) - Least(missing, s.sHoleSize)
FutureOf(s, missing, n) ==
    LET end == s.sHoleSize + s.wFutureDataSize IN
    IF missing < s.sHoleSize
      THEN IF missing + n > end \/ missing + n < s.sHoleSize THEN n ELSE end - missing
      ELSE IF missing + n > end /\ missing <= end THEN missing + n - s.sHoleSize
      ELSE s.wFutureDataSize

OutOfSequence(s, m) ==
    LET missing == Missing(s, m)
        n == Least(Len(m.bytes), RxFree(s) - missing)
        t == [s EXCEPT !.rx = Stored(@, (s.rxHead + missing) % RxSlots,
                                     SubSeq(m.bytes, 1, n), RxSlots)]
    IN IF s.sHoleSize = None
         THEN [t EXCEPT !.sHoleSize = missing, !.wFutureDataSize = n]
         ELSE [t EXCEPT !.sHoleSize = Least(missing, @), !.wFutureDataSize = FutureOf(s, missing, n)]

Text(s, m) == IF Missing(s, m) <= 0 THEN InSequence(s, m) ELSE OutOfSequence(s, m)

(* Every second segment with data is acknowledged at once.                 *)
HandleSeg(m, late) ==
    /\ open /\ m \in toUs
    /\ IF ~Acceptable(tcb, m) THEN Sends(tcb, TRUE)
       ELSE IF AcksUnsent(tcb, m) THEN Sends(tcb, FALSE)
       ELSE LET s == Acknowledged(tcb, m, late) IN
            IF m.bytes = <<>> THEN Quiet(s)
            ELSE IF s.oneSegment THEN Sends(Text(s, m), TRUE)
            ELSE Quiet(DueLater([Text(s, m) EXCEPT !.oneSegment = TRUE]))
    /\ UNCHANGED <<open, wrote, got, peer, load>>

-----------------------------------------------------------------------------
(* The remote node, which follows the protocol: una and edge are the first *)
(* byte it has to send and the end of the window it was given, in is what  *)
(* it has received and out how much of that it has read.                   *)

PeerWindow == PeerBuffer - (Len(peer.in) - peer.out)
PeerSegment(seq, n) == [seq |-> seq, ack |-> Len(peer.in), win |-> PeerWindow,
                        bytes |-> [i \in 1 .. n |-> seq + i]]

(* It cuts its data as it likes, sends any of it again, and probes a       *)
(* window of zero with one byte.                                           *)
PeerMaySend(seq, n) ==
    /\ seq \in peer.una .. peer.sent /\ seq + n <= load.peer
    /\ seq + n <= peer.edge \/ (seq = peer.edge /\ seq = peer.una /\ n = 1)
PeerSends(seq, n) ==
    /\ PeerMaySend(seq, n)
    /\ Room
    /\ toUs' = toUs \cup {PeerSegment(seq, n)}
    /\ peer' = [peer EXCEPT !.sent = Most(@, seq + n)]
    /\ UNCHANGED <<tcb, open, wrote, got, toPeer, load>>

PeerAcks ==
    /\ peer.in # <<>> /\ Room
    /\ toUs' = toUs \cup {PeerSegment(peer.sent, 0)}
    /\ UNCHANGED <<tcb, open, wrote, got, peer, toPeer, load>>

PeerReads ==
    /\ peer.out < Len(peer.in)
    /\ peer' = [peer EXCEPT !.out = @ + 1]
    /\ UNCHANGED <<tcb, open, wrote, got, toPeer, toUs, load>>

PeerTakes(m) ==
    LET old == Len(peer.in) - m.seq
        n == Least(Len(m.bytes) - old, PeerWindow)
    IN peer' = [peer EXCEPT !.una = Most(@, m.ack), !.edge = Most(@, m.ack + m.win),
                            !.in = IF old >= 0 /\ n > 0 THEN @ \o SubSeq(m.bytes, old + 1, old + n)
                                   ELSE @]
PeerReceives(m) ==
    /\ m \in toPeer /\ PeerTakes(m)
    /\ UNCHANGED <<tcb, open, wrote, got, load>>

(* What is delivered may be delivered again.                               *)
Delivers ==
    \/ \E m \in toUs : \E late, again \in BOOLEAN :
         HandleSeg(m, late) /\ toUs' = IF again THEN toUs ELSE toUs \ {m}
    \/ \E m \in toPeer : \E again \in BOOLEAN :
         PeerReceives(m) /\ toPeer' = (IF again THEN toPeer ELSE toPeer \ {m}) /\ UNCHANGED toUs
Loses ==
    /\ \/ \E m \in toUs : toUs' = toUs \ {m} /\ UNCHANGED toPeer
       \/ \E m \in toPeer : toPeer' = toPeer \ {m} /\ UNCHANGED toUs
    /\ UNCHANGED <<tcb, open, wrote, got, peer, load>>

-----------------------------------------------------------------------------
Init ==
    /\ load \in Loads
    /\ tcb = [txHead |-> 0, txTail |-> 0, txUnackedTail |-> 0, tx |-> [k \in 0 .. TxSlots - 1 |-> 0],
              rxHead |-> load.slot, rxTail |-> load.slot, rx |-> [k \in 0 .. RxSlots - 1 |-> 0],
              MySEQ |-> 0, RemoteSEQ |-> 0, remoteWindow |-> PeerBuffer,
              sHoleSize |-> None, wFutureDataSize |-> 0,
              timer |-> FALSE, retryCount |-> 0, asap |-> FALSE, due |-> "no", oneSegment |-> FALSE,
              localWindow |-> RxSlots - 1, lastAck |-> 0]
    /\ open = TRUE /\ wrote = 0 /\ got = <<>>
    /\ peer = [in |-> <<>>, out |-> 0, una |-> 0, sent |-> 0, edge |-> RxSlots - 1]
    /\ toPeer = {} /\ toUs = {}

Application ==
    \/ \E n \in 1 .. TxSlots - 1 : \E needSend \in BOOLEAN : ArrayPut(n, needSend)
    \/ Flush
    \/ \E n \in 1 .. RxSlots - 1 : ArrayGet(n)
Tick == TickSends \/ TickRetransmits \/ TickGivesUp
Peer == (\E seq \in 0 .. load.peer, n \in 1 .. MaxPayload : PeerSends(seq, n)) \/ PeerAcks \/ PeerReads

Next == Application \/ Tick \/ Peer \/ Delivers \/ Loses

Spec == Init /\ [][Next]_vars

(* The main loop runs the stack again and again, and timers that run       *)
(* expire.                                                                 *)
FairSpec == Spec /\ WF_vars(Tick)

-----------------------------------------------------------------------------
TypeOK ==
    /\ tcb.txHead \in 0 .. TxSlots - 1 /\ tcb.txTail \in 0 .. TxSlots - 1
    /\ tcb.txUnackedTail \in 0 .. TxSlots - 1
    /\ tcb.rxHead \in 0 .. RxSlots - 1 /\ tcb.rxTail \in 0 .. RxSlots - 1
    /\ Unacked(tcb) + Unsent(tcb) = Held(tcb)
    /\ tcb.MySEQ \in Nat /\ tcb.RemoteSEQ \in Nat
    /\ tcb.remoteWindow \in 0 .. WindowMod - 1
    /\ tcb.retryCount \in 0 .. MaxRetries /\ tcb.due \in {"no", "later", "now"}
    /\ tcb.sHoleSize = None
         \/ (tcb.sHoleSize > 0 /\ tcb.sHoleSize + tcb.wFutureDataSize <= RxFree(tcb))
    /\ wrote \in 0 .. load.app /\ open \in BOOLEAN

Written == INSTANCE ReliableStream WITH Capacity <- TxSlots - 1, written <- wrote, read <- peer.in
Received == INSTANCE ReliableStream WITH Capacity <- RxSlots, written <- peer.sent, read <- got

(* What the peer receives is what the application wrote, in order and      *)
(* once, and no byte leaves the transmit ring before the peer has it,      *)
(* whatever is lost, repeated, reordered, rolled back or acknowledged late *)
(* (TCPIP_TCP_ArrayPut, _TcpSend, TCPIP_TCP_Tick, _TcpHandleSeg).          *)
TxIsStream == Written!Spec

(* What the application reads is what the peer sent, in order and once,    *)
(* with segments that overlap, leave holes or come twice, and the peer is  *)
(* never invited to send more than the ring holds, but for the byte of a   *)
(* probe (_TcpHandleSeg, TCPIP_TCP_ArrayGet).                              *)
RxIsStream == Received!Spec

(* Everything sent is acknowledged, but the peer has closed its window.    *)
Stalled == tcb.remoteWindow = 0 /\ Unacked(tcb) = 0

(* If from some time on nothing arrives any more, the connection is given  *)
(* up, or nothing was left to send, or the peer's window is closed: then   *)
(* the retry counter is put back each time and nobody ever gives up        *)
(* (TCPIP_TCP_Tick with _TcpSend).                                         *)
UnansweredIsGivenUp ==
    <>[][~Delivers]_vars => []<>(~open \/ Held(tcb) = 0 \/ Stalled)

(* The peer is told, again and again, how far its data has been taken and  *)
(* how much room there is: no delayed acknowledgement and no window update *)
(* is forgotten (the timers of TCPIP_TCP_ArrayGet and _TcpHandleSeg).      *)
PeerIsTold == []<>(~open \/ (tcb.lastAck = tcb.RemoteSEQ /\ tcb.localWindow = RxFree(tcb)))
=============================================================================
