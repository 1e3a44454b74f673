---------------------------- MODULE FifoService ----------------------------
(***************************************************************************)
(* What tcpip_server promises of the sockets it accepts: one of them is    *)
(* served at a time, the others wait, and they are served in the order in  *)
(* which they began to wait.  A socket that is served is served until it   *)
(* is dropped, and it is dropped for good.                                 *)
(***************************************************************************)
EXTENDS Naturals, Sequences

CONSTANTS Servers, Handles, None, QueueSize

VARIABLES active, waiting

Waiting(p) == {waiting[p][i] : i \in 1 .. Len(waiting[p])}
InService == {active[p] : p \in Servers} \cup UNION {Waiting(p) : p \in Servers}

Init == /\ active = [p \in Servers |-> None]
        /\ waiting = [p \in Servers |-> <<>>]

(* A socket that no server has joins the back of a queue that has room.    *)
Enter(p, h) == /\ Len(waiting[p]) < QueueSize
               /\ waiting' = [waiting EXCEPT ![p] = Append(@, h)]
               /\ h \notin InService
               /\ UNCHANGED active

Start(p) == /\ active[p] = None /\ waiting[p] # <<>>
            /\ active' = [active EXCEPT ![p] = Head(waiting[p])]
            /\ waiting' = [waiting EXCEPT ![p] = Tail(@)]

Drop(p) == /\ active[p] # None
           /\ active' = [active EXCEPT ![p] = None]
           /\ UNCHANGED waiting

Next == \E p \in Servers : Start(p) \/ Drop(p) \/ \E h \in Handles : Enter(p, h)

Spec == Init /\ [][Next]_<<active, waiting>>

(* A server that has nobody to serve turns to the queue.                   *)
FairSpec == Spec /\ \A p \in Servers : WF_<<active, waiting>>(Start(p))
=============================================================================
