----------------------------- MODULE TcpSockets -----------------------------
(***************************************************************************)
(* The socket table of the Harmony TCP module, as far as a TCP server can  *)
(* tell one state of it from another.  tcp.c keeps an array of pointers to *)
(* transmission control blocks (TCBs); a socket handle is an index into    *)
(* it.  Every TCB here is a server socket: the firmware opens no client    *)
(* sockets.                                                                *)
(*                                                                         *)
(* Sequence numbers, retransmission and buffers are abstracted: a segment  *)
(* is an action, a timer is an action that may fire whenever its state     *)
(* arms it, the receive buffer is the one bit "there is something to       *)
(* read", and so is the peer's window: "nothing can be sent".  Connections *)
(* are numbered in the order of their SYNs, so that a TCB says which       *)
(* connection it carries.  Sockets are not aborted by a change of the      *)
(* interface: that code is compiled out, and the firmware never brings the *)
(* network down.                                                           *)
(*                                                                         *)
(* A definition named after another and a slip, AfterClose_KeepsFin say,   *)
(* is a wrong form of it that no action uses: put in its place, it shows   *)
(* that a property can fail.                                               *)
(***************************************************************************)
EXTENDS Integers

CONSTANTS
    MaxSockets,     \* TCPIP_TCP_MAX_SOCKETS, or what the heap has room for
    Ports,          \* the TCP ports a server may listen on
    MaxConns        \* bound on the number of connection attempts

ASSUME SocketAssumption ==
    /\ MaxSockets \in Nat \ {0}
    /\ Ports \subseteq Nat
    /\ MaxConns \in Nat

Handles == 0 .. MaxSockets - 1
Invalid == -1                       \* INVALID_SOCKET
Conns   == 1 .. MaxConns
NoConn  == 0

VARIABLES
    tcb,            \* the table: handle -> TCB
    synRun,         \* handles whose SYN arrived in the present run of the stack
    nconn           \* number of connections attempted so far

stackVars == <<tcb, synRun, nconn>>

ConnectedStates == {"ESTABLISHED", "FIN_WAIT_1", "FIN_WAIT_2", "CLOSE_WAIT"}
ClosingStates   == {"FIN_WAIT_1", "FIN_WAIT_2", "CLOSING", "LAST_ACK"}
States == {"CLOSED", "LISTEN", "SYN_RECEIVED"} \cup ConnectedStates \cup ClosingStates

(***************************************************************************)
(* st "CLOSED" is an empty slot.  fin is bRxFin, kill is forceKill, rx is  *)
(* a receive buffer that is not empty.  stalled is a window of zero with   *)
(* no data under way: remoteWindow is 0 and the peer has all that was sent *)
(* before; it is kept for the states in which a FIN is to be sent.         *)
(***************************************************************************)
Tcb == [st : States, port : Ports \cup {0}, conn : Conns \cup {NoConn},
        fin : BOOLEAN, kill : BOOLEAN, rx : BOOLEAN, stalled : BOOLEAN]

FreeTcb == [st |-> "CLOSED", port |-> 0, conn |-> NoConn,
            fin |-> FALSE, kill |-> FALSE, rx |-> FALSE, stalled |-> FALSE]

ListenTcb(port) == [FreeTcb EXCEPT !.st = "LISTEN", !.port = port]

Allocated(h) == tcb[h].st # "CLOSED"

IsConnected(h) == tcb[h].st \in ConnectedStates
WasDisconnected(h) == tcb[h].fin
GetIsReady(h) == tcb[h].rx

StackInit ==
    /\ tcb = [h \in Handles |-> FreeTcb]
    /\ synRun = {}
    /\ nconn = 0

-----------------------------------------------------------------------------
(* What the application calls.                                             *)

FreeSlots == {h \in Handles : ~Allocated(h)}
Lowest(S) == CHOOSE h \in S : \A g \in S : h <= g

(* TCPIP_TCP_ServerOpen claims the first empty slot and starts to listen.  *)
OpenAt(h, port) == tcb' = [tcb EXCEPT ![h] = ListenTcb(port)]

AfterClose_KeepsFin(t) == IF t.kill THEN FreeTcb ELSE [ListenTcb(t.port) EXCEPT !.fin = t.fin]
AfterClose_KeepsInput(t) == IF t.kill THEN FreeTcb ELSE [ListenTcb(t.port) EXCEPT !.rx = t.rx]
AfterClose_AlwaysFrees(t) == FreeTcb
AfterClose_AlwaysListens(t) == ListenTcb(t.port)

(***************************************************************************)
(* What _TcpCloseSocket leaves of a TCB: a socket the application asked to *)
(* close is freed, any other goes back to listening under its own handle.  *)
(***************************************************************************)
AfterClose(t) == IF t.kill THEN FreeTcb ELSE ListenTcb(t.port)
CloseSocket(h) == tcb' = [tcb EXCEPT ![h] = AfterClose(@)]

CloseGracefully_NoFin(h) == tcb' = [tcb EXCEPT ![h].kill = TRUE]

(***************************************************************************)
(* TCPIP_TCP_Close marks the TCB to be killed and sends a FIN if there is  *)
(* a connection, which may stall; if there is none, or the segment cannot  *)
(* be sent, it aborts the socket, which frees it at once.                  *)
(***************************************************************************)
AfterDisconnect(st) == CASE st \in {"SYN_RECEIVED", "ESTABLISHED"} -> "FIN_WAIT_1"
                         [] st = "CLOSE_WAIT" -> "LAST_ACK"
                         [] OTHER -> st
CloseGracefully(h) ==
    \E zero \in BOOLEAN :
        tcb' = [tcb EXCEPT ![h].kill = TRUE,
                           ![h].st = AfterDisconnect(@),
                           ![h].stalled = IF tcb[h].st \in ClosingStates THEN @ ELSE zero]
CloseByAbort(h) ==
    /\ tcb[h].st \notin ClosingStates
    /\ tcb' = [tcb EXCEPT ![h] = FreeTcb]

Close(h) ==
    \/ tcb[h].st # "LISTEN" /\ CloseGracefully(h)
    \/ CloseByAbort(h)

-----------------------------------------------------------------------------
(* Segments from the network and timers.  A connection takes a round trip  *)
(* to establish: the peer's ACK answers the SYN|ACK of an earlier run of   *)
(* the stack.                                                              *)

Listeners(port) == {h \in Handles : tcb[h].st = "LISTEN" /\ tcb[h].port = port}

RxSyn(h) ==
    /\ nconn < MaxConns
    /\ tcb[h].st = "LISTEN"
    /\ h = Lowest(Listeners(tcb[h].port))
    /\ tcb' = [tcb EXCEPT ![h].st = "SYN_RECEIVED", ![h].conn = nconn + 1]
    /\ nconn' = nconn + 1
    /\ synRun' = synRun \cup {h}

RxAckOfSyn(h) ==
    /\ tcb[h].st = "SYN_RECEIVED" /\ h \notin synRun
    /\ tcb' = [tcb EXCEPT ![h].st = "ESTABLISHED"]
    /\ UNCHANGED <<synRun, nconn>>

RxData(h) ==
    /\ tcb[h].st \in {"ESTABLISHED", "FIN_WAIT_1", "FIN_WAIT_2"} /\ ~tcb[h].rx
    /\ tcb' = [tcb EXCEPT ![h].rx = TRUE]
    /\ UNCHANGED <<synRun, nconn>>

RxFin(h) ==
    /\ \/ /\ tcb[h].st = "ESTABLISHED"
          /\ tcb' = [tcb EXCEPT ![h].st = "CLOSE_WAIT", ![h].fin = TRUE]
       \/ /\ tcb[h].st = "FIN_WAIT_1"
          /\ tcb' = [tcb EXCEPT ![h].st = "CLOSING", ![h].fin = TRUE]
       \/ /\ tcb[h].st = "FIN_WAIT_2"
          /\ CloseSocket(h)
    /\ UNCHANGED <<synRun, nconn>>

RxAckOfFin(h) ==
    /\ \/ /\ tcb[h].st = "FIN_WAIT_1"
          /\ tcb' = [tcb EXCEPT ![h].st = "FIN_WAIT_2", ![h].stalled = FALSE]
       \/ /\ tcb[h].st \in {"CLOSING", "LAST_ACK"}
          /\ CloseSocket(h)
    /\ UNCHANGED <<synRun, nconn>>

(* A reset, or a SYN inside the window, from the peer.                     *)
RxRst(h) ==
    /\ tcb[h].st \notin {"CLOSED", "LISTEN"}
    /\ CloseSocket(h)
    /\ UNCHANGED <<synRun, nconn>>

(* An ACK that closes or opens the window of a peer that still has to take *)
(* a FIN.  In LAST_ACK the window of a segment is not looked at.           *)
RxWindow(h) ==
    /\ tcb[h].st \in {"FIN_WAIT_1", "CLOSING"}
    /\ tcb' = [tcb EXCEPT ![h].stalled = ~@]
    /\ UNCHANGED <<synRun, nconn>>

(***************************************************************************)
(* Retries are exhausted, or FIN_WAIT_2 has lasted too long.  A socket     *)
(* that is stalled is not given up: _TcpSend leaves the FIN out of what it *)
(* sends, so that no retry timer starts, or takes back the retry that      *)
(* TCPIP_TCP_Tick has counted.  It stays until its peer speaks.            *)
(***************************************************************************)
Timeout(h) ==
    /\ ~tcb[h].stalled
    /\ \/ /\ tcb[h].st \in {"SYN_RECEIVED"} \cup ClosingStates
          /\ CloseSocket(h)
       \/ /\ tcb[h].st = "ESTABLISHED"
          /\ tcb' = [tcb EXCEPT ![h].st = "FIN_WAIT_1"]
    /\ UNCHANGED <<synRun, nconn>>

StackStep ==
    \E h \in Handles : \/ RxSyn(h) \/ RxAckOfSyn(h) \/ RxData(h) \/ RxFin(h)
                       \/ RxAckOfFin(h) \/ RxRst(h) \/ RxWindow(h) \/ Timeout(h)

(* A run of the stack ends; segments that arrive later belong to the next. *)
EndRun == synRun' = {} /\ UNCHANGED <<tcb, nconn>>

-----------------------------------------------------------------------------
(* The table with an arbitrary application on top of it, which reads,      *)
(* opens and closes as it likes but closes a handle only once.             *)

AppOpen(port) == /\ FreeSlots # {}
                 /\ OpenAt(Lowest(FreeSlots), port)
                 /\ UNCHANGED <<synRun, nconn>>
AppClose(h) == Allocated(h) /\ ~tcb[h].kill /\ Close(h) /\ UNCHANGED <<synRun, nconn>>
AppRead(h) == /\ Allocated(h) /\ ~tcb[h].kill /\ tcb[h].rx
              /\ tcb' = [tcb EXCEPT ![h].rx = FALSE]
              /\ UNCHANGED <<synRun, nconn>>

StackNext ==
    \/ StackStep
    \/ EndRun
    \/ \E port \in Ports : AppOpen(port)
    \/ \E h \in Handles : AppClose(h) \/ AppRead(h)

StackSpec == StackInit /\ [][StackNext]_stackVars

-----------------------------------------------------------------------------
StackTypeOK ==
    /\ tcb \in [Handles -> Tcb]
    /\ synRun \subseteq Handles
    /\ nconn \in 0 .. MaxConns

(***************************************************************************)
(* A TCB that is to be killed is on its way out: it is in a state whose    *)
(* timer, or whose peer, will free it.  A killed TCB in any other state    *)
(* would take its slot for ever.                                           *)
(***************************************************************************)
KilledIsClosing == \A h \in Handles : tcb[h].kill => tcb[h].st \in ClosingStates

(***************************************************************************)
(* The two questions a server asks of a socket, IsConnected and            *)
(* WasDisconnected, are both answered yes exactly when the peer has closed *)
(* its side and the server has not; and the FIN of one connection is never *)
(* held against the next one that the same handle carries.                 *)
(***************************************************************************)
FinMeansPeerClosed ==
    \A h \in Handles : tcb[h].fin <=> tcb[h].st \in {"CLOSE_WAIT", "CLOSING", "LAST_ACK"}

(***************************************************************************)
(* Data are waiting only for a connection: a listening socket, and one     *)
(* that has not finished its handshake, has an empty receive buffer, so    *)
(* that no connection reads what an earlier one sent.                      *)
(***************************************************************************)
NoStaleInput ==
    \A h \in Handles : tcb[h].rx => tcb[h].st \in ConnectedStates \cup ClosingStates

=============================================================================
