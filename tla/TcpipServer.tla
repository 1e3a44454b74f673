---------------------------- MODULE TcpipServer ----------------------------
(***************************************************************************)
(* tcpip_server of server.c, called for one server after another by the    *)
(* main loop, on top of the socket table of TcpSockets.                    *)
(*                                                                         *)
(* There is one thread.  The TCP/IP stack runs only where the program      *)
(* calls tcp_tick: at the top of the main loop, and inside a protocol task *)
(* that waits (Blocking names the servers whose task does).  Everything    *)
(* between two such places is one step of the server, and tcpip_server is  *)
(* the sequence of its clauses: network, address, active socket, queue,    *)
(* listening socket, reopening.                                            *)
(*                                                                         *)
(* A definition named after another and a slip, CloseActive_KeepsHandle,   *)
(* is a wrong form of it that no action uses: put in its place, it shows   *)
(* that a property can fail.                                               *)
(***************************************************************************)
EXTENDS TcpSockets

CONSTANTS
    N,              \* number of servers, in the order the main loop calls them
    Port,           \* server -> its port, 0 to disable it
    QueueSize,      \* EEM_TCB_QUEUE_SIZE
    TcpTimeout,     \* server -> seconds of silence it tolerates, 0 for any
    Blocking,       \* servers whose protocol task may run the stack
    Careless        \* those whose task may go on when tcp_sock_tick says -1

Servers == 1 .. N
Places  == 1 .. QueueSize

ASSUME ServerAssumption ==
    /\ N \in Nat \ {0}
    /\ QueueSize \in Nat \ {0}
    /\ Port \in [Servers -> Ports \cup {0}]
    /\ TcpTimeout \in [Servers -> Nat]
    /\ Blocking \subseteq Servers
    /\ Careless \subseteq Blocking

VARIABLES
    network_up, ip_assigned, sock_init, socket, listening, queue,
    idle,           \* seconds since last_tick, up to one more than the timeout
    indicator,      \* the lamp of the server
    close_socket,   \* the local variable of the call in progress: a timeout
    cur,            \* server whose call is in progress, 0 at the top of the loop
    pc,             \* clause of the call in progress
    netReady,       \* the interface has a link and an address
    session,        \* history: connection for which the task was initialised
    missed          \* history: servers whose client came or went unwatched

serverVars == <<network_up, ip_assigned, sock_init, socket, listening, queue,
                idle, indicator, close_socket, session>>
loopVars == <<cur, pc>>
vars == <<stackVars, serverVars, loopVars, netReady, missed>>

Clauses == {"tick", "call", "tasks", "promote", "accept", "open"}
Statuses == {"OK", "ERR", "END", "SIN"}     \* >= 0 and the EEM_SOCK_ codes

Init ==
    /\ StackInit
    /\ network_up = [p \in Servers |-> FALSE]
    /\ ip_assigned = [p \in Servers |-> FALSE]
    /\ sock_init = [p \in Servers |-> TRUE]
    /\ socket = [p \in Servers |-> Invalid]
    /\ listening = [p \in Servers |-> Invalid]
    /\ queue = [p \in Servers |-> [i \in Places |-> 0]]     \* static storage
    /\ idle = [p \in Servers |-> 0]
    /\ indicator = [p \in Servers |-> FALSE]
    /\ close_socket = FALSE
    /\ session = [p \in Servers |-> NoConn]
    /\ cur = 0 /\ pc = "tick"
    /\ netReady = FALSE
    /\ missed = {}

-----------------------------------------------------------------------------
(* The main loop.                                                          *)

Goto(c) == pc' = c /\ UNCHANGED cur

NextCall_OneTooMany == /\ cur' = IF cur > N THEN 0 ELSE cur + 1
                       /\ pc' = IF cur > N THEN "tick" ELSE "call"

(* The call in progress, or the tick, is over.                             *)
NextCall == /\ cur' = IF cur = N THEN 0 ELSE cur + 1
            /\ pc' = IF cur = N THEN "tick" ELSE "call"

EndTick == /\ pc = "tick" /\ EndRun /\ NextCall
           /\ UNCHANGED <<serverVars, netReady, missed>>

(* The stack runs in tcp_tick, and in the wait of a protocol task.         *)
StackRuns == \/ pc = "tick"
             \/ pc = "tasks" /\ cur \in Blocking /\ ~sock_init[cur]

(* Every server looks at its socket after a run of the main loop; after a  *)
(* run in a task only the task itself does, if it heeds the answer.        *)
Watched == IF pc = "tasks" THEN {cur} \ Careless ELSE Servers

(* The active socket gets a client, or loses it, in this step of the stack. *)
ComesOrGoes(p) == /\ socket[p] # Invalid /\ ~sock_init[p]
                  /\ IsConnected(socket[p]) # (tcb'[socket[p]].st \in ConnectedStates)

Stack == /\ StackRuns /\ StackStep
         /\ missed' = missed \cup {p \in Servers \ Watched : ComesOrGoes(p)}
         /\ UNCHANGED <<serverVars, loopVars, netReady>>

Gone_OnlyByFin(h) == WasDisconnected(h)
Gone(h) == ~IsConnected(h) \/ WasDisconnected(h)

(***************************************************************************)
(* A task that waits calls tcp_sock_tick, which runs the stack again and   *)
(* then looks at the socket; a task that heeds the answer waits no longer  *)
(* once the socket is gone.                                                *)
(***************************************************************************)
NestedTick == /\ pc = "tasks" /\ StackRuns
              /\ cur \in Careless \/ ~Gone(socket[cur])
              /\ synRun # {} /\ EndRun
              /\ UNCHANGED <<serverVars, loopVars, netReady, missed>>

(* The link comes and goes; nothing looks once every server has an address. *)
LinkChange == /\ StackRuns /\ \E p \in Servers : ~ip_assigned[p]
              /\ netReady' = ~netReady
              /\ UNCHANGED <<stackVars, serverVars, loopVars, missed>>

(* A second passes; it is counted only where and as far as it matters.     *)
Ticks(p) == socket[p] # Invalid /\ TcpTimeout[p] > 0 /\ idle[p] <= TcpTimeout[p]
SecondPasses ==
    /\ StackRuns
    /\ \E p \in Servers : Ticks(p)
    /\ idle' = [p \in Servers |-> IF Ticks(p) THEN idle[p] + 1 ELSE idle[p]]
    /\ UNCHANGED <<stackVars, loopVars, netReady, missed, network_up, ip_assigned,
                   sock_init, socket, listening, queue, indicator, close_socket,
                   session>>

-----------------------------------------------------------------------------
(* The clauses of tcpip_server.                                            *)

Called(p) == pc = "call" /\ cur = p

Disabled(p) == /\ Called(p) /\ Port[p] = 0
               /\ NextCall /\ UNCHANGED <<stackVars, serverVars, netReady, missed>>

(* main waits for the stack to be ready before it calls a server at all.   *)
NetworkUp(p) ==
    /\ Called(p) /\ Port[p] # 0 /\ ~network_up[p]
    /\ network_up' = [network_up EXCEPT ![p] = TRUE]
    /\ ip_assigned' = [ip_assigned EXCEPT ![p] = FALSE]
    /\ NextCall
    /\ UNCHANGED <<stackVars, netReady, missed, sock_init, socket, listening, queue,
                   idle, indicator, close_socket, session>>

AssignIp(p) ==
    /\ Called(p) /\ Port[p] # 0 /\ network_up[p] /\ ~ip_assigned[p]
    /\ IF netReady
         THEN /\ ip_assigned' = [ip_assigned EXCEPT ![p] = TRUE]
              /\ socket' = [socket EXCEPT ![p] = Invalid]
              /\ listening' = [listening EXCEPT ![p] = Invalid]
              /\ queue' = [queue EXCEPT ![p] = [i \in Places |-> Invalid]]
         ELSE UNCHANGED <<ip_assigned, socket, listening, queue>>
    /\ NextCall
    /\ UNCHANGED <<stackVars, netReady, missed, network_up, sock_init, idle,
                   indicator, close_socket, session>>

Serving(p) == Called(p) /\ Port[p] # 0 /\ network_up[p] /\ ip_assigned[p]

NoActive(p) == /\ Serving(p) /\ socket[p] = Invalid
               /\ Goto("promote") /\ UNCHANGED <<stackVars, serverVars, netReady, missed>>

CloseActive_KeepsHandle(p) ==
    /\ Close(socket[p])
    /\ indicator' = [indicator EXCEPT ![p] = FALSE]
    /\ session' = [session EXCEPT ![p] = NoConn]
    /\ UNCHANGED socket

(* TCPIP_TCP_Close on the active socket, which is then marked as closed.   *)
CloseActive(p) ==
    /\ Close(socket[p])
    /\ socket' = [socket EXCEPT ![p] = Invalid]
    /\ indicator' = [indicator EXCEPT ![p] = FALSE]
    /\ session' = [session EXCEPT ![p] = NoConn]

ClosedByClient(p) ==
    /\ Serving(p) /\ socket[p] # Invalid /\ Gone(socket[p])
    /\ CloseActive(p)
    /\ Goto("promote")
    /\ UNCHANGED <<synRun, nconn, netReady, missed, network_up, ip_assigned,
                   sock_init, listening, queue, idle, close_socket>>

Input_Always(p) == TRUE
Input(p) == GetIsReady(socket[p])

(* The timeout is noted, but the task is called all the same.              *)
CheckTimeout(p) ==
    /\ Serving(p) /\ socket[p] # Invalid /\ ~Gone(socket[p])
    /\ close_socket' = (TcpTimeout[p] > 0 /\ ~Input(p) /\ idle[p] > TcpTimeout[p])
    /\ idle' = IF Input(p) THEN [idle EXCEPT ![p] = 0] ELSE idle
    /\ Goto("tasks")
    /\ UNCHANGED <<stackVars, netReady, missed, network_up, ip_assigned, sock_init,
                   socket, listening, queue, indicator, session>>

(* What the task answers, or the timeout, ends the connection.             *)
Ends_OnlyByStatus(status) == status # "OK"
Ends(status) == close_socket \/ status # "OK"

(* The first call of a protocol task for a newly activated socket.         *)
TasksInit(p) ==
    /\ pc = "tasks" /\ cur = p /\ sock_init[p]
    /\ sock_init' = [sock_init EXCEPT ![p] = FALSE]
    /\ missed' = missed \ {p}
    /\ IF Ends("OK")
         THEN CloseActive(p)
         ELSE /\ indicator' = [indicator EXCEPT ![p] = TRUE]
              /\ session' = [session EXCEPT ![p] = tcb[socket[p]].conn]
              /\ UNCHANGED <<tcb, socket>>
    /\ close_socket' = FALSE
    /\ Goto("promote")
    /\ UNCHANGED <<synRun, nconn, netReady, network_up, ip_assigned, listening,
                   queue, idle>>

(* Reading the input, as a part of the step of TasksReturn that it is.     *)
Reading(h) == tcb' = [tcb EXCEPT ![h].rx = FALSE]

(* Any other call: it ends with a status, read or not what had arrived.    *)
TasksReturn(p, status, reads) ==
    /\ pc = "tasks" /\ cur = p /\ ~sock_init[p]
    /\ p \notin Careless /\ Gone(socket[p]) => status = "ERR"
    /\ IF Ends(status)
         THEN CloseActive(p)
         ELSE /\ indicator' = [indicator EXCEPT ![p] = TRUE]
              /\ IF reads THEN Reading(socket[p]) ELSE UNCHANGED tcb
              /\ UNCHANGED <<socket, session>>
    /\ synRun' = {}
    /\ close_socket' = FALSE
    /\ Goto("promote")
    /\ UNCHANGED <<nconn, netReady, missed, network_up, ip_assigned, sock_init,
                   listening, queue, idle>>

Front_Youngest(p) == queue[p][CHOOSE i \in Places : /\ queue[p][i] # Invalid
                                                   /\ i < QueueSize => queue[p][i + 1] = Invalid]
Front(p) == queue[p][1]
Shifted_LeavesGap(p) == [queue[p] EXCEPT ![1] = Invalid]
Shifted(p) == [i \in Places |-> IF i < QueueSize THEN queue[p][i + 1] ELSE Invalid]
MayPromote_WatchesListening(p) == listening[p] = Invalid /\ queue[p][1] # Invalid
MayPromote(p) == socket[p] = Invalid /\ queue[p][1] # Invalid

(* The front of the queue becomes active and the others move up.           *)
Promote(p) ==
    /\ pc = "promote" /\ cur = p
    /\ IF MayPromote(p)
         THEN /\ socket' = [socket EXCEPT ![p] = Front(p)]
              /\ sock_init' = [sock_init EXCEPT ![p] = TRUE]
              /\ idle' = [idle EXCEPT ![p] = 0]
              /\ queue' = [queue EXCEPT ![p] = Shifted(p)]
         ELSE UNCHANGED <<socket, sock_init, idle, queue>>
    /\ Goto("accept")
    /\ UNCHANGED <<stackVars, netReady, missed, network_up, ip_assigned, listening,
                   indicator, close_socket, session>>

FreePlaces(p) == {i \in Places : queue[p][i] = Invalid}

Join(p) == /\ FreePlaces(p) # {}
           /\ queue' = [queue EXCEPT ![p][Lowest(FreePlaces(p))] = listening[p]]
           /\ UNCHANGED tcb
Refuse_Forgets(p) == FreePlaces(p) = {} /\ UNCHANGED <<tcb, queue>>
Refuse(p) == FreePlaces(p) = {} /\ Close(listening[p]) /\ UNCHANGED queue
StopListening_Never(p) == UNCHANGED listening
StopListening(p) == listening' = [listening EXCEPT ![p] = Invalid]

(* A listening socket that has connected joins the queue or is closed.     *)
Accept(p) ==
    /\ pc = "accept" /\ cur = p
    /\ IF listening[p] # Invalid /\ IsConnected(listening[p])
         THEN (Join(p) \/ Refuse(p)) /\ StopListening(p)
         ELSE UNCHANGED <<tcb, queue, listening>>
    /\ Goto("open")
    /\ UNCHANGED <<synRun, nconn, netReady, missed, network_up, ip_assigned,
                   sock_init, socket, idle, indicator, close_socket, session>>

MayOpen_WhenIdle(p) == listening[p] = Invalid /\ FreeSlots # {} /\ socket[p] = Invalid
MayOpen(p) == listening[p] = Invalid /\ FreeSlots # {}

(* Without a listening socket, try to open one; the next call tries again. *)
Open(p) ==
    /\ pc = "open" /\ cur = p
    /\ IF MayOpen(p)
         THEN LET h == Lowest(FreeSlots)
              IN /\ OpenAt(h, Port[p])
                 /\ listening' = [listening EXCEPT ![p] = h]
         ELSE UNCHANGED <<tcb, listening>>
    /\ NextCall
    /\ UNCHANGED <<synRun, nconn, netReady, missed, network_up, ip_assigned,
                   sock_init, socket, queue, idle, indicator, close_socket,
                   session>>

Tasks(p) == \/ TasksInit(p)
            \/ \E status \in Statuses, reads \in BOOLEAN : TasksReturn(p, status, reads)

Tcpip_server(p) ==
    \/ Disabled(p) \/ NetworkUp(p) \/ AssignIp(p)
    \/ NoActive(p) \/ ClosedByClient(p) \/ CheckTimeout(p) \/ Tasks(p)
    \/ Promote(p) \/ Accept(p) \/ Open(p)

Program == EndTick \/ \E p \in Servers : Tcpip_server(p)
Environment == Stack \/ NestedTick \/ LinkChange \/ SecondPasses

Next == Program \/ Environment

Spec == Init /\ [][Next]_vars

(***************************************************************************)
(* The main loop goes on, and time passes.  A call of a task can wait for  *)
(* a client that does not take its output, for as long as that client is   *)
(* connected (CommandLine has the states in which it does): the liveness   *)
(* of the servers is that of a firmware whose clients read their answers.  *)
(***************************************************************************)
Fairness == WF_vars(Program) /\ SF_vars(SecondPasses)

FairSpec == Spec /\ Fairness

-----------------------------------------------------------------------------
TypeOK ==
    /\ StackTypeOK
    /\ network_up \in [Servers -> BOOLEAN]
    /\ ip_assigned \in [Servers -> BOOLEAN]
    /\ sock_init \in [Servers -> BOOLEAN]
    /\ socket \in [Servers -> Handles \cup {Invalid}]
    /\ listening \in [Servers -> Handles \cup {Invalid}]
    /\ queue \in [Servers -> [Places -> Handles \cup {Invalid}]]
    /\ idle \in [Servers -> Nat]
    /\ indicator \in [Servers -> BOOLEAN]
    /\ close_socket \in BOOLEAN
    /\ session \in [Servers -> Conns \cup {NoConn}]
    /\ cur \in 0 .. N
    /\ pc \in Clauses
    /\ netReady \in BOOLEAN
    /\ missed \subseteq Servers

-----------------------------------------------------------------------------
(* Safety.                                                                 *)

(* The handles a server holds, once it has an address.                     *)
Held(p) == IF ip_assigned[p]
             THEN ({socket[p], listening[p]} \cup {queue[p][i] : i \in Places}) \ {Invalid}
             ELSE {}

(* A socket that was opened and not closed.                                *)
InUse(h) == Allocated(h) /\ ~tcb[h].kill

(***************************************************************************)
(* The clauses are reached in the state they count on: only a server that  *)
(* has an address gets past the first two, and a protocol task is called   *)
(* only with a valid active socket.                                        *)
(***************************************************************************)
CallOK ==
    /\ pc = "tick" <=> cur = 0
    /\ pc \in {"tasks", "promote", "accept", "open"} => ip_assigned[cur]
    /\ pc = "tasks" => socket[cur] # Invalid

(***************************************************************************)
(* No handle dangles: whatever tcpip_server keeps in its record names a    *)
(* socket that is still its own, on its port, and not closed.  A handle    *)
(* kept past TCPIP_TCP_Close could be given to the other server.           *)
(***************************************************************************)
HeldAreOpen ==
    \A p \in Servers : \A h \in Held(p) :
        InUse(h) /\ tcb[h].port = Port[p]

(***************************************************************************)
(* No socket leaks: every socket that was opened and not closed is in the  *)
(* record of a server.  A leaked one would listen for ever, take clients   *)
(* that nobody serves and occupy its slot.                                 *)
(***************************************************************************)
NoLeak ==
    \A h \in Handles : InUse(h) => \E p \in Servers : h \in Held(p)

(***************************************************************************)
(* A handle has one role: no server has it in two fields of its record and *)
(* no two servers have it.                                                 *)
(***************************************************************************)
OneRole(p) ==
    /\ socket[p] # Invalid => /\ socket[p] # listening[p]
                              /\ \A i \in Places : socket[p] # queue[p][i]
    /\ listening[p] # Invalid => \A i \in Places : listening[p] # queue[p][i]
    /\ \A i, j \in Places : queue[p][i] = queue[p][j] /\ queue[p][i] # Invalid => i = j
HeldOnce ==
    /\ \A p \in Servers : ip_assigned[p] => OneRole(p)
    /\ \A p, q \in Servers : p # q => Held(p) \cap Held(q) = {}

(***************************************************************************)
(* The queue has no gaps: the front of it is invalid only when nobody      *)
(* waits, which is all that the clause that promotes looks at.             *)
(***************************************************************************)
QueueCompact ==
    \A p \in Servers : ip_assigned[p] =>
        \A i, j \in Places : i < j /\ queue[p][j] # Invalid => queue[p][i] # Invalid

(***************************************************************************)
(* The state a protocol task keeps for its client (logged_in, the receive  *)
(* buffer, the command line) is that of the connection it talks to: when   *)
(* it is called for a socket that is connected, it was initialised for the *)
(* connection which that socket carries.                                   *)
(***************************************************************************)
SessionIntactOf(p) ==
    pc = "tasks" /\ cur = p /\ ~sock_init[p] /\ IsConnected(socket[p])
      => tcb[socket[p]].conn = session[p]
SessionIntact == \A p \in Servers : SessionIntactOf(p)

(***************************************************************************)
(* ... and only a run of the stack inside a task can break it.  The main   *)
(* loop looks at every socket between two of its runs, and no client can   *)
(* leave and another connect in one run: whatever the tasks do, a server   *)
(* is called for its own client unless its socket lost or gained a client  *)
(* in a run that a task started and that the server did not watch.         *)
(***************************************************************************)
SessionKept == \A p \in Servers : p \notin missed => SessionIntactOf(p)

(***************************************************************************)
(* The lamp of a server is lit only while a client is being served: never  *)
(* after its socket was closed, nor before its task was initialised.       *)
(***************************************************************************)
LampMeansService ==
    \A p \in Servers : indicator[p] => socket[p] # Invalid /\ ~sock_init[p]

-----------------------------------------------------------------------------
(* tcpip_server implements the service of FifoService.                     *)

QueueLength(q) == LET free == {i \in Places : q[i] = Invalid}
                  IN IF free = {} THEN QueueSize ELSE Lowest(free) - 1
ActiveOf(p) == IF ip_assigned[p] THEN socket[p] ELSE Invalid
WaitingOf(p) == IF ip_assigned[p]
                  THEN [i \in 1 .. QueueLength(queue[p]) |-> queue[p][i]]
                  ELSE <<>>

Fifo == INSTANCE FifoService
          WITH None <- Invalid,
               active <- [p \in Servers |-> ActiveOf(p)],
               waiting <- [p \in Servers |-> WaitingOf(p)]

(* Every step of a server is a step of the service, or none of its.        *)
ImplementsFifo == Fifo!Spec

(* ... and a server that is free turns to its queue.                       *)
ImplementsFairFifo == Fifo!FairSpec

-----------------------------------------------------------------------------
(* What a step may never do.                                               *)

(***************************************************************************)
(* A socket that is open stops being so, freed or marked to be killed,     *)
(* only in a call of the server that holds it, and that call takes it out  *)
(* of the record in the same step: no segment, no timer and no call of     *)
(* another server ever closes it.                                          *)
(***************************************************************************)
OnlyTheHolderCloses ==
    [][\A h \in Handles : InUse(h) /\ ~InUse(h)' =>
          \E p \in Servers : cur = p /\ h \in Held(p) /\ h \notin Held(p)']_vars

-----------------------------------------------------------------------------
(* Liveness.                                                               *)

(***************************************************************************)
(* The hypothesis of what follows: the peers fall silent for good, and the *)
(* timers go on.  Only then does a retry counter reach its limit, since    *)
(* any segment outside the window resets it.  An established connection is *)
(* given up only if something it sent is not acknowledged, which this      *)
(* hypothesis does not ask for.                                            *)
(***************************************************************************)
TimerFires(h) == tcb[h].st # "ESTABLISHED" /\ Timeout(h) /\ Stack
PeersFallSilent ==
    /\ <>[][Stack => \E h \in Handles : Timeout(h)]_vars
    /\ \A h \in Handles : SF_vars(TimerFires(h))

TimesOut == \A p \in Servers : TcpTimeout[p] > 0

(***************************************************************************)
(* A task leaves input in the socket.  lwdaq_tasks does so for good when a *)
(* message announces more than its buffer holds, and input that waits is   *)
(* activity: such a client is not timed out.                               *)
(***************************************************************************)
Unread(p) == socket[p] # Invalid /\ tcb[socket[p]].rx

(***************************************************************************)
(* When the peers say no more, every socket that waits is served in the    *)
(* end: the timeout, or the end of the connection, makes room for it.  The *)
(* one obstacle is an active socket with input that the task never reads.  *)
(***************************************************************************)
WaitingAreServed ==
    TimesOut /\ PeersFallSilent =>
        \A p \in Servers, h \in Handles :
            [](ip_assigned[p] /\ (\E i \in Places : queue[p][i] = h)
                 => <>(socket[p] = h) \/ <>[]Unread(p))

(* ... and every socket that is served is dropped in the end, unless the   *)
(* task leaves its input unread for ever.                                  *)
SilentAreDropped ==
    TimesOut /\ PeersFallSilent =>
        \A p \in Servers, h \in Handles :
            [](ip_assigned[p] /\ socket[p] = h => <>(socket[p] # h) \/ <>[]Unread(p))

(***************************************************************************)
(* A socket that was closed is free again in the end, unless its peer went *)
(* silent with its window closed: its FIN is then never sent, and it keeps *)
(* its slot for ever.                                                      *)
(***************************************************************************)
KilledIsFreed ==
    PeersFallSilent => \A h \in Handles : tcb[h].kill ~> ~Allocated(h) \/ tcb[h].stalled

(***************************************************************************)
(* A server is without a listening socket for good only when the table is  *)
(* full for good, of sockets in use and of closed ones whose peers stall   *)
(* them: it finds the slot that becomes free, whatever else it serves.     *)
(***************************************************************************)
FullForGood == <>[](\A h \in Handles : InUse(h) \/ tcb[h].stalled)
KeepsListening ==
    PeersFallSilent =>
        \A p \in Servers : [](ip_assigned[p] => <>(listening[p] # Invalid) \/ FullForGood)
=============================================================================
