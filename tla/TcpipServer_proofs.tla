------------------------- MODULE TcpipServer_proofs -------------------------
(***************************************************************************)
(* Proofs about tcpip_server, for every number of servers, ports, sockets, *)
(* clients, queue size and timeout, whether the tasks run the stack or not.*)
(*                                                                         *)
(* The inductive invariant says who owns what: the sockets that are open   *)
(* are those the servers hold, and no handle is held twice.                *)
(***************************************************************************)
EXTENDS TcpipServer, TcpSockets_proofs

(* A server that has an address has the link; one that has none holds no   *)
(* active socket and its lamp is dark.                                     *)
Prepared == \A p \in Servers : /\ ip_assigned[p] => network_up[p]
                               /\ ~ip_assigned[p] => socket[p] = Invalid /\ ~indicator[p]

Owned ==
    /\ \A p \in Servers : \A h \in Held(p) : Live(tcb[h]) /\ tcb[h].port = Port[p]
    /\ \A h \in Handles : Live(tcb[h]) => \E p \in Servers : h \in Held(p)
    /\ \A p, q \in Servers : p # q => Held(p) \cap Held(q) = {}

Roles == \A p \in Servers : ip_assigned[p] => OneRole(p)

IInv == TypeOK /\ TableOK /\ CallOK /\ Prepared /\ Owned /\ Roles

(* What the variables about ownership are.                                 *)
holdings == <<ip_assigned, socket, listening, queue>>

-----------------------------------------------------------------------------
LEMMA ServerFacts ==
  /\ Servers \subseteq Nat \ {0} /\ 0 \notin Servers
  /\ Invalid \notin Handles
  /\ Places \subseteq Nat \ {0} /\ 1 \in Places
  /\ \A p \in Servers : Port[p] \in Ports \cup {0}
  BY ServerAssumption, SocketAssumption DEF Servers, Places, Handles, Invalid

(* A handle that is held is in one of the three places a server has.       *)
Holds(p, h) == /\ ip_assigned[p] /\ h # Invalid
               /\ \/ h = socket[p] \/ h = listening[p]
                  \/ \E i \in Places : h = queue[p][i]

LEMMA HeldMembers ==
  ASSUME NEW p, NEW h
  PROVE  /\ h \in Held(p) <=> Holds(p, h)
         /\ h \in Held(p)' <=> Holds(p, h)'
  BY DEF Held, Holds

LEMMA HeldAreHandles == ASSUME TypeOK, NEW p \in Servers PROVE Held(p) \subseteq Handles
  BY HeldMembers DEF TypeOK, Holds

LEMMA HeldSame ==
  ASSUME NEW p, ip_assigned[p]' = ip_assigned[p], socket[p]' = socket[p],
         listening[p]' = listening[p], queue[p]' = queue[p]
  PROVE  Held(p)' = Held(p) /\ (OneRole(p)' <=> OneRole(p))
  BY DEF Held, OneRole

(* How ownership changes: not at all, by a socket closed or by one opened. *)
LEMMA OwnedKept ==
  ASSUME TypeOK, Owned, AllKept, \A p \in Servers : Held(p)' = Held(p)
  PROVE  Owned'
  BY HeldAreHandles DEF Owned, AllKept, Kept

LEMMA OwnedLess ==
  ASSUME TypeOK, Owned, NEW p \in Servers, NEW h \in Held(p),
         ~Live(tcb'[h]), \A g \in Handles \ {h} : tcb'[g] = tcb[g],
         Held(p)' = Held(p) \ {h}, \A q \in Servers \ {p} : Held(q)' = Held(q)
  PROVE  Owned'
  <1>1. \A q \in Servers : Held(q)' = Held(q) \ {h}
    BY DEF Owned
  <1>2. \A q \in Servers : \A g \in Held(q)' : Live(tcb'[g]) /\ tcb'[g].port = Port[q]
    BY <1>1, HeldAreHandles DEF Owned
  <1>3. \A g \in Handles : Live(tcb'[g]) => \E q \in Servers : g \in Held(q)'
    BY <1>1 DEF Owned
  <1> QED
    BY <1>1, <1>2, <1>3 DEF Owned

LEMMA OwnedMore ==
  ASSUME TypeOK, Owned, NEW p \in Servers, NEW h \in Handles,
         ~Live(tcb[h]), Live(tcb'[h]), tcb'[h].port = Port[p],
         \A g \in Handles \ {h} : tcb'[g] = tcb[g],
         Held(p)' = Held(p) \cup {h}, \A q \in Servers \ {p} : Held(q)' = Held(q)
  PROVE  Owned'
  <1>1. \A q \in Servers : h \notin Held(q)
    BY DEF Owned
  <1>2. \A q \in Servers : \A g \in Held(q)' : Live(tcb'[g]) /\ tcb'[g].port = Port[q]
    BY <1>1, HeldAreHandles DEF Owned
  <1>3. \A g \in Handles : Live(tcb'[g]) => \E q \in Servers : g \in Held(q)'
    BY DEF Owned
  <1> QED
    BY <1>1, <1>2, <1>3 DEF Owned

-----------------------------------------------------------------------------
(* Steps that leave the servers' holdings as they are.                     *)

LEMMA QuietHoldings ==
  ASSUME IInv, UNCHANGED holdings, AllKept
  PROVE  Owned' /\ Roles'
  <1>1. \A p \in Servers : Held(p)' = Held(p) /\ (OneRole(p)' <=> OneRole(p))
    BY HeldSame DEF holdings
  <1> QED
    BY <1>1, OwnedKept DEF IInv, Roles, holdings

LEMMA QuietTable ==
  ASSUME IInv, UNCHANGED holdings, UNCHANGED tcb
  PROVE  TableOK' /\ Owned' /\ Roles'
  BY KeepAll, QuietHoldings DEF IInv

(* The main loop goes from server to server.                               *)
LEMMA NextCallOK ==
  ASSUME TypeOK, NextCall
  PROVE  cur' \in 0 .. N /\ pc' \in {"tick", "call"} /\ (pc' = "tick" <=> cur' = 0)
  <1>1. N \in Nat /\ cur \in 0 .. N
    BY ServerAssumption DEF TypeOK
  <1>2. CASE cur = N
    BY <1>1, <1>2 DEF NextCall
  <1>3. CASE cur # N
    <2>1. cur + 1 \in 0 .. N /\ cur + 1 # 0
      BY <1>1, <1>3
    <2> QED
      BY <1>3, <2>1 DEF NextCall
  <1> QED
    BY <1>2, <1>3

LEMMA TickStep == ASSUME IInv, EndTick PROVE IInv'
  <1>0. cur' \in 0 .. N /\ pc' \in {"tick", "call"} /\ (pc' = "tick" <=> cur' = 0)
    BY NextCallOK DEF IInv, EndTick
  <1>1. TypeOK' /\ CallOK' /\ Prepared'
    BY <1>0 DEF IInv, EndTick, EndRun, TypeOK, StackTypeOK, CallOK, Prepared, serverVars, Clauses
  <1> QED
    BY <1>1, QuietTable DEF IInv, EndTick, EndRun, serverVars, holdings

LEMMA StackIsQuiet == ASSUME IInv, Stack PROVE IInv'
  <1>1. TableOK' /\ CountersOK' /\ AllKept
    BY StackStepKept DEF IInv, Stack, TypeOK, StackTypeOK, CountersOK
  <1>2. StackTypeOK'
    BY <1>1 DEF TableOK, CountersOK, StackTypeOK
  <1>3. TypeOK' /\ CallOK' /\ Prepared'
    BY <1>2 DEF IInv, Stack, TypeOK, CallOK, Prepared, serverVars, loopVars
  <1> QED
    BY <1>1, <1>3, QuietHoldings DEF IInv, Stack, serverVars, holdings

LEMMA EnvironmentStep == ASSUME IInv, Environment PROVE IInv'
  <1>1. CASE Stack
    BY <1>1, StackIsQuiet
  <1>2. CASE NestedTick
    <2>1. TypeOK' /\ CallOK' /\ Prepared'
      BY <1>2 DEF IInv, NestedTick, EndRun, TypeOK, StackTypeOK, CallOK, Prepared, serverVars, loopVars
    <2> QED
      BY <1>2, <2>1, QuietTable DEF IInv, NestedTick, EndRun, serverVars, holdings
  <1>3. CASE LinkChange
    <2>1. TypeOK' /\ CallOK' /\ Prepared'
      BY <1>3 DEF IInv, LinkChange, TypeOK, StackTypeOK, CallOK, Prepared, serverVars, stackVars, loopVars
    <2> QED
      BY <1>3, <2>1, QuietTable DEF IInv, LinkChange, serverVars, stackVars, holdings
  <1>4. CASE SecondPasses
    <2>1. idle' \in [Servers -> Nat]
      BY <1>4 DEF IInv, SecondPasses, TypeOK
    <2>2. TypeOK' /\ CallOK' /\ Prepared'
      BY <1>4, <2>1 DEF IInv, SecondPasses, TypeOK, StackTypeOK, CallOK, Prepared, stackVars, loopVars
    <2> QED
      BY <1>4, <2>2, QuietTable DEF IInv, SecondPasses, stackVars, holdings
  <1> QED
    BY <1>1, <1>2, <1>3, <1>4 DEF Environment

(* The clauses that only look.                                             *)
LEMMA LookingStep ==
  ASSUME IInv, NEW p \in Servers, Disabled(p) \/ NoActive(p) \/ CheckTimeout(p)
  PROVE  IInv'
  <1>1. UNCHANGED <<stackVars, holdings, network_up, sock_init, indicator, session, netReady, missed>>
    BY DEF Disabled, NoActive, CheckTimeout, serverVars, stackVars, holdings
  <1>2. TypeOK' /\ Prepared'
    <2>1. pc' \in Clauses /\ cur' \in 0 .. N
      BY NextCallOK DEF IInv, TypeOK, Disabled, NoActive, CheckTimeout, Goto, Clauses
    <2>2. close_socket' \in BOOLEAN
      BY DEF IInv, TypeOK, Disabled, NoActive, CheckTimeout, serverVars
    <2>3. idle' \in [Servers -> Nat]
      BY DEF IInv, TypeOK, Disabled, NoActive, CheckTimeout, serverVars
    <2> QED
      BY <1>1, <2>1, <2>2, <2>3 DEF IInv, TypeOK, StackTypeOK, Prepared, stackVars, holdings
  <1>3. CallOK'
    BY <1>1, NextCallOK, ServerFacts
    DEF IInv, CallOK, Disabled, NoActive, CheckTimeout, Serving, Called, Goto, holdings
  <1> QED
    BY <1>1, <1>2, <1>3, QuietTable DEF IInv, stackVars

LEMMA NetworkStep ==
  ASSUME IInv, NEW p \in Servers, NetworkUp(p) \/ AssignIp(p)
  PROVE  IInv'
  <1> USE DEF IInv
  <1>1. cur' \in 0 .. N /\ pc' \in Clauses /\ (pc' = "tick" <=> cur' = 0) /\ pc' \in {"tick", "call"}
    BY NextCallOK DEF NetworkUp, AssignIp, Clauses
  <1>2. /\ network_up' \in [Servers -> BOOLEAN] /\ ip_assigned' \in [Servers -> BOOLEAN]
        /\ socket' \in [Servers -> Handles \cup {Invalid}]
        /\ listening' \in [Servers -> Handles \cup {Invalid}]
        /\ queue' \in [Servers -> [Places -> Handles \cup {Invalid}]]
    <2>1. CASE NetworkUp(p)
      BY <2>1 DEF NetworkUp, TypeOK
    <2>2. CASE AssignIp(p) /\ netReady
      <3>1. [i \in Places |-> Invalid] \in [Places -> Handles \cup {Invalid}]
        OBVIOUS
      <3> DEFINE none == [i \in Places |-> Invalid]
      <3> HIDE DEF none
      <3>2. queue' = [queue EXCEPT ![p] = none]
        BY <2>2 DEF AssignIp, none
      <3>3. queue' \in [Servers -> [Places -> Handles \cup {Invalid}]]
        BY <3>1, <3>2 DEF TypeOK, none
      <3> QED
        BY <2>2, <3>3 DEF AssignIp, TypeOK
    <2>3. CASE AssignIp(p) /\ ~netReady
      BY <2>3 DEF AssignIp, TypeOK
    <2> QED
      BY <2>1, <2>2, <2>3 DEF TypeOK
  <1>3. TypeOK'
    BY <1>1, <1>2 DEF NetworkUp, AssignIp, TypeOK, StackTypeOK, stackVars
  <1>4. CallOK'
    BY <1>1 DEF CallOK
  <1>5. Prepared'
    BY DEF TypeOK, Prepared, NetworkUp, AssignIp
  <1>6. ~ip_assigned[p] /\ socket[p] = Invalid
    BY DEF Prepared, NetworkUp, AssignIp
  <1>7. ip_assigned'[p] => /\ socket'[p] = Invalid /\ listening'[p] = Invalid
                           /\ \A i \in Places : queue'[p][i] = Invalid
    BY <1>6 DEF TypeOK, NetworkUp, AssignIp
  <1>8. \A q \in Servers \ {p} : /\ ip_assigned'[q] = ip_assigned[q] /\ socket'[q] = socket[q]
                                 /\ listening'[q] = listening[q] /\ queue'[q] = queue[q]
    BY DEF TypeOK, NetworkUp, AssignIp
  <1>9. \A q \in Servers \ {p} : Held(q)' = Held(q) /\ (OneRole(q)' <=> OneRole(q))
    BY <1>8, HeldSame
  <1>10. Held(p) = {} /\ Held(p)' = {}
    BY <1>6, <1>7, HeldMembers DEF Holds
  <1>11. Roles'
    BY <1>7, <1>8, <1>9 DEF Roles, OneRole
  <1>12. UNCHANGED tcb
    BY DEF NetworkUp, AssignIp, stackVars
  <1> QED
    BY <1>3, <1>4, <1>5, <1>9, <1>10, <1>11, <1>12, KeepAll, OwnedKept

-----------------------------------------------------------------------------
(* Steps that close a socket, open one or move one.                        *)

LEMMA CloseActiveOwned ==
  ASSUME IInv, NEW p \in Servers, ip_assigned[p], socket[p] # Invalid,
         CloseActive(p), UNCHANGED <<ip_assigned, listening, queue>>
  PROVE  /\ TableOK' /\ Owned' /\ Roles'
         /\ socket' \in [Servers -> Handles \cup {Invalid}] /\ socket'[p] = Invalid
         /\ indicator' \in [Servers -> BOOLEAN] /\ indicator'[p] = FALSE
         /\ \A q \in Servers \ {p} : socket'[q] = socket[q] /\ indicator'[q] = indicator[q]
         /\ session' \in [Servers -> Conns \cup {NoConn}]
  <1> USE DEF IInv
  <1> DEFINE h == socket[p]
  <1>1. h \in Handles /\ h \in Held(p)
    BY HeldMembers DEF TypeOK, Holds
  <1>2. Live(tcb[h]) /\ Allocated(h)
    BY <1>1 DEF Owned, Live, Allocated
  <1>3. /\ TableOK' /\ Shut(tcb[h], tcb'[h])
        /\ \A g \in Handles \ {h} : tcb'[g] = tcb[g]
    BY <1>1, <1>2, CloseShuts DEF CloseActive
  <1>4. /\ socket' \in [Servers -> Handles \cup {Invalid}] /\ socket'[p] = Invalid
        /\ indicator' \in [Servers -> BOOLEAN] /\ indicator'[p] = FALSE
        /\ \A q \in Servers \ {p} : socket'[q] = socket[q] /\ indicator'[q] = indicator[q]
        /\ session' \in [Servers -> Conns \cup {NoConn}]
    BY DEF CloseActive, TypeOK
  <1>5. \A q \in Servers \ {p} : Held(q)' = Held(q) /\ (OneRole(q)' <=> OneRole(q))
    BY <1>4, HeldSame
  <1>6. Held(p)' = Held(p) \ {h}
    <2>1. OneRole(p)
      BY DEF Roles
    <2> HIDE DEF IInv
    <2>2. \A g : Holds(p, g)' <=> Holds(p, g) /\ g # h
      BY <1>4, <2>1 DEF Holds, OneRole
    <2> QED
      BY <2>2, HeldMembers
  <1>7. Roles'
    BY <1>4, <1>5 DEF Roles, OneRole
  <1>8. Owned'
    BY <1>1, <1>3, <1>5, <1>6, OwnedLess DEF Shut
  <1> QED
    BY <1>3, <1>4, <1>7, <1>8

LEMMA ClosedByClientStep == ASSUME IInv, NEW p \in Servers, ClosedByClient(p) PROVE IInv'
  <1>1. /\ ip_assigned[p] /\ socket[p] # Invalid /\ CloseActive(p)
        /\ UNCHANGED <<ip_assigned, listening, queue>>
    BY DEF ClosedByClient, Serving
  <1>2. /\ TableOK' /\ Owned' /\ Roles'
        /\ socket' \in [Servers -> Handles \cup {Invalid}] /\ socket'[p] = Invalid
        /\ indicator' \in [Servers -> BOOLEAN] /\ indicator'[p] = FALSE
        /\ \A q \in Servers \ {p} : socket'[q] = socket[q] /\ indicator'[q] = indicator[q]
        /\ session' \in [Servers -> Conns \cup {NoConn}]
    BY <1>1, CloseActiveOwned
  <1>3. TypeOK' /\ CallOK' /\ Prepared'
    BY <1>1, <1>2, ServerFacts
    DEF IInv, TypeOK, StackTypeOK, TableOK, CallOK, Prepared, ClosedByClient, Called, Serving, Goto, Clauses
  <1> QED
    BY <1>2, <1>3 DEF IInv

(* Reading a socket changes nothing that anybody owns.                     *)
LEMMA ReadingKept ==
  ASSUME TableOK, NEW h \in Handles, Reading(h) PROVE TableOK' /\ AllKept
  <1> DEFINE u == [tcb[h] EXCEPT !.rx = FALSE]
  <1>1. tcb' = [tcb EXCEPT ![h] = u]
    BY DEF Reading, TableOK
  <1>2. Kept(tcb[h], u)
    BY DEF TableOK, Kept, Good, Live, Tcb
  <1> QED
    BY <1>1, <1>2, KeepOne

(* A protocol task ends: its socket is closed or its lamp is lit.          *)
LEMMA TasksEnd ==
  ASSUME IInv, NEW p \in Servers, pc = "tasks", cur = p, UNCHANGED <<ip_assigned, listening, queue>>,
         \/ CloseActive(p)
         \/ /\ indicator' = [indicator EXCEPT ![p] = TRUE]
            /\ UNCHANGED tcb \/ Reading(socket[p])
            /\ UNCHANGED socket
  PROVE  /\ TableOK' /\ Owned' /\ Roles'
         /\ socket' \in [Servers -> Handles \cup {Invalid}]
         /\ indicator' \in [Servers -> BOOLEAN]
         /\ \A q \in Servers \ {p} : socket'[q] = socket[q] /\ indicator'[q] = indicator[q]
  <1>1. ip_assigned[p] /\ socket[p] # Invalid /\ socket[p] \in Handles
    BY DEF IInv, CallOK, TypeOK
  <1>2. CASE CloseActive(p)
    BY <1>1, <1>2, CloseActiveOwned
  <1>3. CASE /\ indicator' = [indicator EXCEPT ![p] = TRUE]
             /\ UNCHANGED tcb \/ Reading(socket[p])
             /\ UNCHANGED socket
    <2>1. TableOK' /\ AllKept
      BY <1>1, <1>3, KeepAll, ReadingKept DEF IInv
    <2>2. Owned' /\ Roles'
      BY <1>3, <2>1, QuietHoldings DEF holdings
    <2> QED
      BY <1>3, <2>1, <2>2 DEF IInv, TypeOK
  <1> QED
    BY <1>2, <1>3

LEMMA TasksStep == ASSUME IInv, NEW p \in Servers, Tasks(p) PROVE IInv'
  <1>1. /\ pc = "tasks" /\ cur = p /\ UNCHANGED <<nconn, netReady, network_up, ip_assigned, listening, queue, idle>>
        /\ synRun' \in {synRun, {}} /\ close_socket' = FALSE /\ pc' = "promote" /\ cur' = cur
        /\ \/ CloseActive(p)
           \/ /\ indicator' = [indicator EXCEPT ![p] = TRUE]
              /\ UNCHANGED tcb \/ Reading(socket[p])
              /\ UNCHANGED socket
    BY DEF Tasks, TasksInit, TasksReturn, Goto
  <1>2. /\ TableOK' /\ Owned' /\ Roles'
        /\ socket' \in [Servers -> Handles \cup {Invalid}]
        /\ indicator' \in [Servers -> BOOLEAN]
        /\ \A q \in Servers \ {p} : socket'[q] = socket[q] /\ indicator'[q] = indicator[q]
    BY <1>1, TasksEnd
  <1>3. ip_assigned[p] /\ socket[p] \in Handles
    BY <1>1 DEF IInv, CallOK, TypeOK
  <1>4. CASE TasksInit(p)
    <2>1. tcb[socket[p]].conn \in Conns \cup {NoConn}
      BY <1>3 DEF IInv, TableOK, Good, Tcb
    <2>2. sock_init' \in [Servers -> BOOLEAN] /\ missed' \subseteq Servers
      BY <1>4 DEF IInv, TypeOK, TasksInit
    <2>3. session' \in [Servers -> Conns \cup {NoConn}]
      BY <1>4, <2>1 DEF IInv, TypeOK, TasksInit, CloseActive
    <2> QED
      BY <1>1, <1>2, <1>3, <2>2, <2>3 DEF IInv, TypeOK, StackTypeOK, TableOK, CallOK, Prepared, Clauses
  <1>5. ASSUME NEW status \in Statuses, NEW reads \in BOOLEAN, TasksReturn(p, status, reads)
        PROVE  IInv'
    <2>1. UNCHANGED <<sock_init, missed>> /\ session' \in [Servers -> Conns \cup {NoConn}]
      BY <1>5 DEF IInv, TypeOK, TasksReturn, CloseActive
    <2> QED
      BY <1>1, <1>2, <1>3, <2>1 DEF IInv, TypeOK, StackTypeOK, TableOK, CallOK, Prepared, Clauses
  <1> QED
    BY <1>4, <1>5 DEF Tasks

(* The front of the queue changes its place, not its owner.                *)
LEMMA PromoteStep == ASSUME IInv, NEW p \in Servers, Promote(p) PROVE IInv'
  <1> USE DEF IInv
  <1>1. ip_assigned[p] /\ OneRole(p)
    BY DEF Promote, CallOK, Roles
  <1>2. CASE MayPromote(p)
    <2>1. socket[p] = Invalid /\ queue[p][1] # Invalid
      BY <1>2 DEF MayPromote
    <2>2. Shifted(p) \in [Places -> Handles \cup {Invalid}]
      BY ServerAssumption DEF TypeOK, Shifted, Places
    <2>3. /\ socket' \in [Servers -> Handles \cup {Invalid}] /\ socket'[p] = queue[p][1]
          /\ \A q \in Servers \ {p} : socket'[q] = socket[q]
      BY <1>2, ServerFacts DEF Promote, Front, TypeOK
    <2>4. /\ queue' \in [Servers -> [Places -> Handles \cup {Invalid}]] /\ queue'[p] = Shifted(p)
          /\ \A q \in Servers \ {p} : queue'[q] = queue[q]
      <3> HIDE DEF IInv
      <3> QED
        BY <1>2, <2>2 DEF Promote, TypeOK, IInv
    <2>5. sock_init' \in [Servers -> BOOLEAN] /\ idle' \in [Servers -> Nat]
      <3> HIDE DEF IInv
      <3>1. sock_init \in [Servers -> BOOLEAN] /\ idle \in [Servers -> Nat]
        BY DEF IInv, TypeOK
      <3>2. sock_init' \in [Servers -> BOOLEAN]
        BY <1>2, <3>1 DEF Promote
      <3>3. idle' \in [Servers -> Nat]
        BY <1>2, <3>1 DEF Promote
      <3> QED
        BY <3>2, <3>3
    <2>6. TypeOK'
      BY <2>3, <2>4, <2>5 DEF Promote, TypeOK, StackTypeOK, stackVars, Goto, Clauses
    <2>7. CallOK' /\ Prepared'
      BY <1>1, <2>3, ServerFacts DEF Promote, CallOK, Prepared, Goto
    <2>8. UNCHANGED <<tcb, ip_assigned, listening>>
      BY DEF Promote, stackVars
    <2>9. \A q \in Servers \ {p} : Held(q)' = Held(q) /\ (OneRole(q)' <=> OneRole(q))
      BY <2>3, <2>4, <2>8, HeldSame
    <2>10. \A i \in Places : IF i < QueueSize THEN i + 1 \in Places /\ queue'[p][i] = queue[p][i + 1]
                                              ELSE queue'[p][i] = Invalid
      BY <2>4, ServerAssumption DEF Shifted, Places
    <2>11. \A i \in Places : i = 1 \/ (i - 1 \in Places /\ i - 1 < QueueSize /\ (i - 1) + 1 = i)
      BY ServerAssumption DEF Places
    <2>12. \A g : Holds(p, g)' <=> Holds(p, g)
      <3> HIDE DEF IInv
      <3>1. ASSUME NEW g, g # Invalid, NEW i \in Places, g = queue[p][i]
            PROVE  g = socket'[p] \/ \E j \in Places : g = queue'[p][j]
        BY <2>3, <2>10, <2>11, <3>1
      <3>2. ASSUME NEW g, g # Invalid, g = socket'[p] \/ \E j \in Places : g = queue'[p][j]
            PROVE  \E i \in Places : g = queue[p][i]
        BY <2>3, <2>10, <3>2, ServerFacts
      <3> QED
        BY <2>1, <2>8, <3>1, <3>2 DEF Holds
    <2>13. OneRole(p)'
      <3> HIDE DEF IInv
      <3>1. \A i, j \in Places : i + 1 = j + 1 => i = j
        BY DEF Places
      <3>2. \A i \in Places : i + 1 # 1
        BY DEF Places
      <3> QED
        BY <1>1, <2>3, <2>8, <2>10, <3>1, <3>2, ServerFacts DEF OneRole
    <2>14. Owned'
      BY <2>8, <2>9, <2>12, HeldMembers, KeepAll, OwnedKept
    <2> QED
      BY <2>6, <2>7, <2>8, <2>9, <2>13, <2>14, KeepAll DEF Roles
  <1>3. CASE ~MayPromote(p)
    <2>1. TypeOK' /\ CallOK' /\ Prepared' /\ UNCHANGED <<holdings, tcb>>
      BY <1>1, <1>3, ServerFacts
      DEF Promote, TypeOK, StackTypeOK, CallOK, Prepared, stackVars, Goto, Clauses, holdings
    <2> QED
      BY <2>1, QuietTable
  <1> QED
    BY <1>2, <1>3

(* A listening socket that joins the queue stays with its server ...       *)
LEMMA JoinHoldings ==
  ASSUME IInv, NEW p \in Servers, ip_assigned[p], listening[p] # Invalid,
         Join(p), StopListening(p), UNCHANGED <<ip_assigned, socket>>
  PROVE  /\ TableOK' /\ Owned' /\ Roles'
         /\ listening' \in [Servers -> Handles \cup {Invalid}]
         /\ queue' \in [Servers -> [Places -> Handles \cup {Invalid}]]
  <1> USE DEF IInv
  <1> DEFINE k == Lowest(FreePlaces(p))
  <1>1. k \in Places /\ queue[p][k] = Invalid
    <2>1. FreePlaces(p) \subseteq Nat
      BY ServerFacts DEF FreePlaces
    <2> QED
      BY <2>1, LowestIsLowest DEF Join, FreePlaces
  <1> HIDE DEF k
  <1>2. queue' = [queue EXCEPT ![p] = [queue[p] EXCEPT ![k] = listening[p]]]
    BY DEF Join, k
  <1>3. queue' \in [Servers -> [Places -> Handles \cup {Invalid}]]
    BY <1>1, <1>2 DEF TypeOK
  <1>4. /\ queue'[p][k] = listening[p] /\ \A i \in Places \ {k} : queue'[p][i] = queue[p][i]
        /\ \A q \in Servers \ {p} : queue'[q] = queue[q]
    BY <1>1, <1>2 DEF TypeOK
  <1>5. /\ listening' \in [Servers -> Handles \cup {Invalid}] /\ listening'[p] = Invalid
        /\ \A q \in Servers \ {p} : listening'[q] = listening[q]
    BY DEF StopListening, TypeOK
  <1>6. \A q \in Servers \ {p} : Held(q)' = Held(q) /\ (OneRole(q)' <=> OneRole(q))
    BY <1>4, <1>5, HeldSame
  <1>7. OneRole(p)
    BY DEF Roles
  <1>8. \A g : Holds(p, g)' <=> Holds(p, g)
    <2> HIDE DEF IInv
    <2> QED
      BY <1>1, <1>4, <1>5 DEF Holds
  <1>9. OneRole(p)'
    <2> HIDE DEF IInv
    <2> QED
      BY <1>1, <1>4, <1>5, <1>7 DEF OneRole
  <1>10. UNCHANGED tcb
    BY DEF Join
  <1> QED
    BY <1>3, <1>5, <1>6, <1>8, <1>9, <1>10, HeldMembers, KeepAll, OwnedKept DEF Roles

(* ... and one that is refused is closed.                                  *)
LEMMA RefuseHoldings ==
  ASSUME IInv, NEW p \in Servers, ip_assigned[p], listening[p] # Invalid,
         Refuse(p), StopListening(p), UNCHANGED <<ip_assigned, socket>>
  PROVE  /\ TableOK' /\ Owned' /\ Roles'
         /\ listening' \in [Servers -> Handles \cup {Invalid}]
         /\ UNCHANGED queue
  <1> USE DEF IInv
  <1> DEFINE h == listening[p]
  <1>1. h \in Handles /\ h \in Held(p)
    BY HeldMembers DEF TypeOK, Holds
  <1>2. Live(tcb[h]) /\ Allocated(h)
    BY <1>1 DEF Owned, Live, Allocated
  <1>3. /\ TableOK' /\ Shut(tcb[h], tcb'[h])
        /\ \A g \in Handles \ {h} : tcb'[g] = tcb[g]
    BY <1>1, <1>2, CloseShuts DEF Refuse
  <1>4. /\ listening' \in [Servers -> Handles \cup {Invalid}] /\ listening'[p] = Invalid
        /\ \A q \in Servers \ {p} : listening'[q] = listening[q]
    BY DEF StopListening, TypeOK
  <1>5. \A q \in Servers \ {p} : Held(q)' = Held(q) /\ (OneRole(q)' <=> OneRole(q))
    BY <1>4, HeldSame DEF Refuse
  <1>6. OneRole(p)
    BY DEF Roles
  <1>7. Held(p)' = Held(p) \ {h}
    <2> HIDE DEF IInv
    <2>1. \A g : Holds(p, g)' <=> Holds(p, g) /\ g # h
      BY <1>4, <1>6 DEF Holds, OneRole, Refuse
    <2> QED
      BY <2>1, HeldMembers
  <1>8. Roles'
    BY <1>4, <1>5, <1>6 DEF Roles, OneRole, Refuse
  <1>9. Owned'
    BY <1>1, <1>3, <1>5, <1>7, OwnedLess DEF Shut
  <1> QED
    BY <1>3, <1>4, <1>8, <1>9 DEF Refuse

LEMMA AcceptStep == ASSUME IInv, NEW p \in Servers, Accept(p) PROVE IInv'
  <1>1. ip_assigned[p] /\ UNCHANGED <<ip_assigned, socket>>
    BY DEF IInv, Accept, CallOK
  <1>2. /\ TableOK' /\ Owned' /\ Roles'
        /\ listening' \in [Servers -> Handles \cup {Invalid}]
        /\ queue' \in [Servers -> [Places -> Handles \cup {Invalid}]]
    <2>1. CASE listening[p] # Invalid /\ IsConnected(listening[p]) /\ Join(p)
      BY <1>1, <2>1, JoinHoldings DEF Accept, Join, Refuse
    <2>2. CASE listening[p] # Invalid /\ IsConnected(listening[p]) /\ Refuse(p)
      BY <1>1, <2>2, RefuseHoldings DEF Accept, Join, Refuse, IInv, TypeOK
    <2>3. CASE ~(listening[p] # Invalid /\ IsConnected(listening[p]))
      BY <1>1, <2>3, QuietTable DEF Accept, holdings, IInv, TypeOK
    <2> QED
      BY <2>1, <2>2, <2>3 DEF Accept
  <1>3. TypeOK' /\ CallOK' /\ Prepared'
    BY <1>1, <1>2, ServerFacts DEF IInv, Accept, TypeOK, StackTypeOK, TableOK, CallOK, Prepared, Goto, Clauses
  <1> QED
    BY <1>2, <1>3 DEF IInv

(* The socket that is opened was nobody's.                                 *)
LEMMA OpenStep == ASSUME IInv, NEW p \in Servers, Open(p) PROVE IInv'
  <1> USE DEF IInv
  <1>1. ip_assigned[p] /\ UNCHANGED <<ip_assigned, socket, queue>>
    BY DEF Open, CallOK
  <1>2. /\ TableOK' /\ Owned' /\ Roles'
        /\ listening' \in [Servers -> Handles \cup {Invalid}]
    <2>1. CASE MayOpen(p)
      <3> DEFINE h == Lowest(FreeSlots)
      <3>1. h \in Handles /\ h \in FreeSlots
        BY <2>1, LowestHandle DEF MayOpen, FreeSlots
      <3>2. OpenAt(h, Port[p]) /\ listening' = [listening EXCEPT ![p] = h]
        BY <2>1 DEF Open
      <3> HIDE DEF h
      <3>3. /\ TableOK' /\ Live(tcb'[h]) /\ tcb'[h].port = Port[p]
            /\ \A g \in Handles \ {h} : tcb'[g] = tcb[g]
        BY <3>1, <3>2, OpenOpens, ServerFacts
      <3>4. ~Live(tcb[h]) /\ \A q \in Servers : h \notin Held(q)
        BY <3>1 DEF FreeSlots, Allocated, Live, Owned
      <3>5. /\ listening' \in [Servers -> Handles \cup {Invalid}] /\ listening'[p] = h
            /\ \A q \in Servers \ {p} : listening'[q] = listening[q]
        BY <3>1, <3>2 DEF TypeOK
      <3>6. \A q \in Servers \ {p} : Held(q)' = Held(q) /\ (OneRole(q)' <=> OneRole(q))
        BY <1>1, <3>5, HeldSame
      <3>7. listening[p] = Invalid /\ h # Invalid /\ OneRole(p)
        BY <1>1, <2>1, <3>1, ServerFacts DEF MayOpen, Roles
      <3>8. Held(p)' = Held(p) \cup {h}
        <4> HIDE DEF IInv
        <4>1. \A g : Holds(p, g)' <=> Holds(p, g) \/ g = h
          BY <1>1, <3>5, <3>7 DEF Holds
        <4> QED
          BY <4>1, HeldMembers
      <3>9. ~Holds(p, h)
        BY <3>4, HeldMembers
      <3>10. OneRole(p)'
        <4> HIDE DEF IInv
        <4> QED
          BY <1>1, <3>5, <3>7, <3>9 DEF OneRole, Holds
      <3>11. Owned'
        BY <3>1, <3>3, <3>4, <3>6, <3>8, OwnedMore
      <3> QED
        BY <1>1, <3>3, <3>5, <3>6, <3>10, <3>11 DEF Roles
    <2>2. CASE ~MayOpen(p)
      BY <1>1, <2>2, QuietTable DEF Open, holdings, TypeOK
    <2> QED
      BY <2>1, <2>2
  <1>3. cur' \in 0 .. N /\ pc' \in {"tick", "call"} /\ (pc' = "tick" <=> cur' = 0)
    BY NextCallOK DEF Open
  <1>4. TypeOK' /\ CallOK' /\ Prepared'
    BY <1>1, <1>2, <1>3 DEF Open, TypeOK, StackTypeOK, TableOK, CallOK, Prepared, Clauses
  <1> QED
    BY <1>2, <1>4

-----------------------------------------------------------------------------
(* The invariant holds.                                                    *)

LEMMA IInvInit == Init => IInv
  <1> SUFFICES ASSUME Init PROVE IInv
    OBVIOUS
  <1>1. TableOK /\ StackTypeOK
    <2>1. StackInv
      BY StackInvInit DEF Init
    <2> QED
      BY <2>1, StackInvMeaning DEF StackInv
  <1>2. TypeOK
    <2>1. 0 \in Handles /\ 0 \in 0 .. N
      BY SocketAssumption, ServerAssumption DEF Handles
    <2> QED
      BY <1>1, <2>1 DEF Init, TypeOK, Clauses
  <1>3. CallOK /\ Prepared /\ Roles
    BY DEF Init, CallOK, Prepared, Roles
  <1>4. \A p \in Servers : Held(p) = {}
    BY DEF Init, Held
  <1>5. \A h \in Handles : ~Live(tcb[h])
    BY FreeGood DEF Init, StackInit
  <1> QED
    BY <1>1, <1>2, <1>3, <1>4, <1>5 DEF IInv, Owned

LEMMA IInvStep == IInv /\ [Next]_vars => IInv'
  <1> SUFFICES ASSUME IInv, [Next]_vars PROVE IInv'
    OBVIOUS
  <1>1. CASE EndTick
    BY <1>1, TickStep
  <1>2. ASSUME NEW p \in Servers, Tcpip_server(p) PROVE IInv'
    <2>1. CASE Disabled(p) \/ NoActive(p) \/ CheckTimeout(p)
      BY <2>1, LookingStep
    <2>2. CASE NetworkUp(p) \/ AssignIp(p)
      BY <2>2, NetworkStep
    <2>3. CASE ClosedByClient(p)
      BY <2>3, ClosedByClientStep
    <2>4. CASE Tasks(p)
      BY <2>4, TasksStep
    <2>5. CASE Promote(p)
      BY <2>5, PromoteStep
    <2>6. CASE Accept(p)
      BY <2>6, AcceptStep
    <2>7. CASE Open(p)
      BY <2>7, OpenStep
    <2> QED
      BY <1>2, <2>1, <2>2, <2>3, <2>4, <2>5, <2>6, <2>7 DEF Tcpip_server
  <1>3. CASE Environment
    BY <1>3, EnvironmentStep
  <1>4. CASE UNCHANGED vars
    <2>1. TypeOK' /\ CallOK' /\ Prepared'
      BY <1>4 DEF IInv, TypeOK, StackTypeOK, CallOK, Prepared, vars, stackVars, serverVars, loopVars
    <2> QED
      BY <1>4, <2>1, QuietTable DEF IInv, vars, stackVars, serverVars, holdings
  <1> QED
    BY <1>1, <1>2, <1>3, <1>4 DEF Next, Program

LEMMA IInvAlways == Spec => []IInv
  BY IInvInit, IInvStep, PTL DEF Spec

LEMMA IInvMeaning == IInv => TypeOK /\ CallOK /\ HeldAreOpen /\ NoLeak /\ HeldOnce
  BY DEF IInv, Owned, Roles, HeldAreOpen, NoLeak, HeldOnce, InUse, Live, Allocated

(***************************************************************************)
(* The records of the servers, the socket table and the main loop keep     *)
(* their types.                                                            *)
(***************************************************************************)
THEOREM TypeCorrect == Spec => []TypeOK
  BY IInvAlways, IInvMeaning, PTL

(***************************************************************************)
(* A clause of tcpip_server, and a protocol task, is never reached without *)
(* the address and the active socket that it uses without looking.         *)
(***************************************************************************)
THEOREM ClausesAreReachedReady == Spec => []CallOK
  BY IInvAlways, IInvMeaning, PTL

(***************************************************************************)
(* Whatever handle a server keeps names an open socket on its own port: no *)
(* handle is used after TCPIP_TCP_Close.                                   *)
(***************************************************************************)
THEOREM NoHandleDangles == Spec => []HeldAreOpen
  BY IInvAlways, IInvMeaning, PTL

(***************************************************************************)
(* Every socket that tcpip_server opened and did not close is in the       *)
(* record of a server, whatever the queue size and the number of sockets.  *)
(***************************************************************************)
THEOREM NoSocketLeaks == Spec => []NoLeak
  BY IInvAlways, IInvMeaning, PTL

(* No handle has two roles, or two servers.                                *)
THEOREM HandlesHaveOneRole == Spec => []HeldOnce
  BY IInvAlways, IInvMeaning, PTL

(***************************************************************************)
(* The socket table as the servers use it keeps what it promises under any *)
(* application: a socket that was closed is on its way out, the FIN flag   *)
(* and the input of a socket are those of its present peer.                *)
(***************************************************************************)
THEOREM ServersKeepTable == Spec => [](StackTypeOK /\ KilledIsClosing /\ FinMeansPeerClosed /\ NoStaleInput)
  <1>1. IInv => StackInv
    BY DEF IInv, StackInv, TypeOK, StackTypeOK, CountersOK
  <1> QED
    BY <1>1, IInvAlways, StackInvMeaning, PTL

(* Who closes a socket: the call of the server that holds it.              *)
LEMMA ClosingEnds ==
  ASSUME IInv, NEW g \in Handles, NEW h \in Handles, Close(g), Live(tcb[g]),
         Live(tcb[h]), ~Live(tcb'[h])
  PROVE  g = h
  <1>1. Allocated(g) /\ TableOK
    BY DEF Live, Allocated, IInv
  <1>2. \A k \in Handles \ {g} : tcb'[k] = tcb[k]
    BY <1>1, CloseShuts
  <1> QED
    BY <1>2

LEMMA HolderCloses ==
  ASSUME IInv, [Next]_vars, NEW h \in Handles, Live(tcb[h]), ~Live(tcb'[h])
  PROVE  \E p \in Servers : cur = p /\ h \in Held(p)
  <1> DEFINE Goal == \E p \in Servers : cur = p /\ h \in Held(p)
  <1>1. CASE Stack
    BY <1>1, StackStepKept DEF Stack, IInv, TypeOK, StackTypeOK, CountersOK, AllKept, Kept
  <1>2. ASSUME NEW p \in Servers, Tasks(p) \/ ClosedByClient(p) PROVE Goal
    <2>1. cur = p /\ socket[p] \in Handles /\ socket[p] \in Held(p) /\ Live(tcb[socket[p]])
      <3>1. /\ cur = p /\ ip_assigned[p] /\ socket[p] # Invalid
            /\ socket[p] \in Handles
        BY <1>2 DEF Tasks, TasksInit, TasksReturn, ClosedByClient, Serving, Called, IInv, CallOK, TypeOK
      <3> QED
        BY <3>1, HeldMembers DEF IInv, Owned, Holds
    <2>2. CASE CloseActive(p)
      BY <2>1, <2>2, ClosingEnds DEF CloseActive
    <2>3. CASE UNCHANGED tcb \/ Reading(socket[p])
      BY <2>1, <2>3, ReadingKept DEF IInv, AllKept, Kept
    <2> QED
      BY <1>2, <2>2, <2>3 DEF Tasks, TasksInit, TasksReturn, ClosedByClient
  <1>3. ASSUME NEW p \in Servers, Accept(p) PROVE Goal
    <2>1. CASE Refuse(p) /\ listening[p] # Invalid
      <3>1. cur = p /\ listening[p] \in Handles /\ listening[p] \in Held(p) /\ Live(tcb[listening[p]])
        <4>1. cur = p /\ ip_assigned[p] /\ listening[p] \in Handles
          BY <1>3, <2>1 DEF Accept, IInv, CallOK, TypeOK
        <4> QED
          BY <2>1, <4>1, HeldMembers DEF IInv, Owned, Holds
      <3> QED
        BY <2>1, <3>1, ClosingEnds DEF Refuse
    <2> QED
      BY <1>3, <2>1 DEF Accept, Join
  <1>4. ASSUME NEW p \in Servers, Open(p) PROVE Goal
    <2> DEFINE g == Lowest(FreeSlots)
    <2>1. CASE MayOpen(p)
      <3>1. OpenAt(g, Port[p])
        BY <1>4, <2>1 DEF Open
      <3>2. g \in Handles
        BY <2>1, LowestHandle DEF MayOpen, FreeSlots
      <3> HIDE DEF g
      <3>3. Live(tcb'[g]) /\ \A k \in Handles \ {g} : tcb'[k] = tcb[k]
        BY <3>1, <3>2, OpenOpens, ServerFacts DEF IInv
      <3> QED
        BY <3>3
    <2> QED
      BY <1>4, <2>1 DEF Open
  <1>5. CASE UNCHANGED tcb
    BY <1>5
  <1>6. \/ Stack \/ UNCHANGED tcb
        \/ \E p \in Servers : Tasks(p) \/ ClosedByClient(p) \/ Accept(p) \/ Open(p)
    BY DEF Next, Program, Environment, Tcpip_server, EndTick, EndRun, NestedTick, LinkChange,
           SecondPasses, Disabled, NetworkUp, AssignIp, NoActive, CheckTimeout, Promote, vars, stackVars
  <1> QED
    BY <1>1, <1>2, <1>3, <1>4, <1>5, <1>6

(***************************************************************************)
(* No segment, no timer and no other server closes a socket: with any      *)
(* number of servers over the table, that is done in a call of the server  *)
(* that holds it, which has forgotten the handle when the step is over.    *)
(***************************************************************************)
THEOREM OnlyHoldersClose == Spec => OnlyTheHolderCloses
  <1>1. IInv /\ IInv' /\ [Next]_vars
          => [\A h \in Handles : InUse(h) /\ ~InUse(h)' =>
                 \E p \in Servers : cur = p /\ h \in Held(p) /\ h \notin Held(p)']_vars
    <2> SUFFICES ASSUME IInv, IInv', [Next]_vars, NEW h \in Handles, InUse(h), ~InUse(h)'
                 PROVE  \E p \in Servers : cur = p /\ h \in Held(p) /\ h \notin Held(p)'
      OBVIOUS
    <2>1. Live(tcb[h]) /\ ~Live(tcb'[h])
      BY DEF InUse, Allocated, Live
    <2>2. PICK p \in Servers : cur = p /\ h \in Held(p)
      BY <2>1, HolderCloses
    <2>3. h \notin Held(p)'
      BY <2>1 DEF IInv, Owned
    <2> QED
      BY <2>2, <2>3
  <1> QED
    BY <1>1, IInvAlways, PTL DEF Spec, OnlyTheHolderCloses

-----------------------------------------------------------------------------
(* The queue has no gaps.                                                  *)

(* The queue of one server, and all that the steps do to it.               *)
Compact(p) == \A i, j \in Places : i < j /\ queue[p][j] # Invalid => queue[p][i] # Invalid

LEMMA CompactSame ==
  ASSUME QueueCompact, UNCHANGED <<ip_assigned, queue>> PROVE QueueCompact'
  BY DEF QueueCompact

LEMMA CompactStep == IInv /\ QueueCompact /\ [Next]_vars => QueueCompact'
  <1> SUFFICES ASSUME IInv, QueueCompact, [Next]_vars PROVE QueueCompact'
    OBVIOUS
  <1>1. CASE EndTick \/ Environment \/ UNCHANGED vars
    BY <1>1, CompactSame
    DEF EndTick, Environment, Stack, NestedTick, LinkChange, SecondPasses, serverVars, vars
  <1>2. ASSUME NEW p \in Servers, NetworkUp(p) \/ AssignIp(p) PROVE QueueCompact'
    <2>1. \A q \in Servers \ {p} : ip_assigned'[q] = ip_assigned[q] /\ queue'[q] = queue[q]
      BY <1>2 DEF IInv, TypeOK, NetworkUp, AssignIp
    <2>2. ip_assigned'[p] => \A i \in Places : queue'[p][i] = Invalid
      BY <1>2 DEF IInv, TypeOK, NetworkUp, AssignIp
    <2> QED
      BY <2>1, <2>2 DEF QueueCompact
  <1>3. ASSUME NEW p \in Servers, Promote(p) PROVE QueueCompact'
    <2>1. CASE MayPromote(p)
      <3>1. UNCHANGED ip_assigned /\ \A q \in Servers \ {p} : queue'[q] = queue[q]
        BY <1>3, <2>1 DEF IInv, TypeOK, Promote
      <3>2. \A i \in Places : IF i < QueueSize THEN i + 1 \in Places /\ queue'[p][i] = queue[p][i + 1]
                                               ELSE queue'[p][i] = Invalid
        BY <1>3, <2>1, ServerAssumption DEF IInv, TypeOK, Promote, Shifted, Places
      <3>3. \A i, j \in Places : i < j => i < QueueSize /\ i + 1 < j + 1
        BY ServerAssumption DEF Places
      <3>4. ip_assigned[p]
        BY <1>3 DEF IInv, CallOK, Promote
      <3>5. Compact(p)
        BY <3>4 DEF QueueCompact, Compact
      <3>6. Compact(p)'
        BY <3>2, <3>3, <3>5 DEF Compact
      <3> QED
        BY <3>1, <3>6 DEF QueueCompact, Compact
    <2>2. CASE ~MayPromote(p)
      BY <1>3, <2>2, CompactSame DEF Promote
    <2> QED
      BY <2>1, <2>2
  <1>4. ASSUME NEW p \in Servers, Accept(p) PROVE QueueCompact'
    <2>1. UNCHANGED ip_assigned
      BY <1>4 DEF Accept
    <2>2. CASE UNCHANGED queue
      BY <2>1, <2>2, CompactSame
    <2>3. CASE Join(p)
      <3> DEFINE k == Lowest(FreePlaces(p))
      <3>1. k \in FreePlaces(p) /\ \A i \in FreePlaces(p) : k <= i
        <4>1. FreePlaces(p) \subseteq Nat
          BY ServerFacts DEF FreePlaces
        <4> QED
          BY <2>3, <4>1, LowestIsLowest DEF Join
      <3>2. queue' = [queue EXCEPT ![p] = [queue[p] EXCEPT ![k] = listening[p]]]
        BY <2>3 DEF Join
      <3> HIDE DEF k
      <3>3. /\ k \in Places /\ queue[p][k] = Invalid
            /\ \A i \in Places : i < k => queue[p][i] # Invalid
        BY <3>1 DEF FreePlaces, Places
      <3>4. /\ \A i \in Places \ {k} : queue'[p][i] = queue[p][i]
            /\ \A q \in Servers \ {p} : queue'[q] = queue[q]
        BY <3>2, <3>3 DEF IInv, TypeOK
      <3>5. ip_assigned[p]
        BY <1>4 DEF IInv, CallOK, Accept
      <3>6. \A i \in Places : k < i => queue[p][i] = Invalid
        BY <3>3, <3>5 DEF QueueCompact
      <3>7. \A i, j \in Places : i = j \/ i < j \/ j < i
        BY DEF Places
      <3>8. Compact(p)'
        BY <3>3, <3>4, <3>6, <3>7 DEF Compact, Places
      <3> QED
        BY <2>1, <3>4, <3>8 DEF QueueCompact, Compact
    <2> QED
      BY <1>4, <2>2, <2>3 DEF Accept, Refuse
  <1>5. ASSUME NEW p \in Servers, \/ Disabled(p) \/ NoActive(p) \/ CheckTimeout(p)
                                  \/ ClosedByClient(p) \/ Tasks(p) \/ Open(p)
        PROVE  QueueCompact'
    BY <1>5, CompactSame
    DEF Disabled, NoActive, CheckTimeout, ClosedByClient, Tasks, TasksInit, TasksReturn, Open, serverVars
  <1> QED
    BY <1>1, <1>2, <1>3, <1>4, <1>5 DEF Next, Program, Tcpip_server

(***************************************************************************)
(* The place that is looked at to see whether anybody waits, the first, is *)
(* never empty while somebody does.                                        *)
(***************************************************************************)
THEOREM QueueHasNoGaps == Spec => []QueueCompact
  <1>1. Init => QueueCompact
    BY DEF Init, QueueCompact
  <1> QED
    BY <1>1, IInvAlways, CompactStep, PTL DEF Spec

-----------------------------------------------------------------------------
(* The lamp.                                                               *)

LEMMA LampStep == IInv /\ LampMeansService /\ [Next]_vars => LampMeansService'
  <1> SUFFICES ASSUME IInv, LampMeansService, [Next]_vars PROVE LampMeansService'
    OBVIOUS
  <1> USE DEF IInv, LampMeansService
  <1>1. CASE UNCHANGED <<indicator, socket, sock_init>>
    BY <1>1
  <1>2. ASSUME NEW p \in Servers, AssignIp(p) PROVE LampMeansService'
    BY <1>2 DEF AssignIp, Prepared, TypeOK
  <1>3. ASSUME NEW p \in Servers, ClosedByClient(p) PROVE LampMeansService'
    BY <1>3 DEF ClosedByClient, CloseActive, TypeOK
  <1>4. ASSUME NEW p \in Servers, Tasks(p) PROVE LampMeansService'
    <2>1. socket[p] # Invalid
      BY <1>4 DEF Tasks, TasksInit, TasksReturn, CallOK
    <2>2. CASE TasksInit(p)
      BY <2>1, <2>2 DEF TasksInit, CloseActive, TypeOK
    <2>3. ASSUME NEW status \in Statuses, NEW reads \in BOOLEAN, TasksReturn(p, status, reads)
          PROVE  LampMeansService'
      BY <2>1, <2>3 DEF TasksReturn, CloseActive, TypeOK
    <2> QED
      BY <1>4, <2>2, <2>3 DEF Tasks
  <1>5. ASSUME NEW p \in Servers, Promote(p) PROVE LampMeansService'
    BY <1>5 DEF Promote, MayPromote, TypeOK
  <1>6. ASSUME NEW p \in Servers, \/ Disabled(p) \/ NetworkUp(p) \/ NoActive(p) \/ CheckTimeout(p)
                                  \/ Accept(p) \/ Open(p)
        PROVE  UNCHANGED <<indicator, socket, sock_init>>
    BY <1>6 DEF Disabled, NetworkUp, NoActive, CheckTimeout, Accept, Open, serverVars
  <1>7. CASE EndTick \/ Environment \/ UNCHANGED vars
    BY <1>7 DEF EndTick, Environment, Stack, NestedTick, LinkChange, SecondPasses, serverVars, vars
  <1> QED
    BY <1>1, <1>2, <1>3, <1>4, <1>5, <1>6, <1>7 DEF Next, Program, Tcpip_server

(* The lamp of a server is lit only while it serves a client.              *)
THEOREM LampTellsTheTruth == Spec => []LampMeansService
  <1>1. Init => LampMeansService
    BY DEF Init, LampMeansService
  <1> QED
    BY <1>1, IInvAlways, LampStep, PTL DEF Spec

-----------------------------------------------------------------------------
(***************************************************************************)
(* Sessions.  While p is not running, nothing but a run that it misses     *)
(* changes whether it has a client; in a run that it watches, a handshake  *)
(* cannot end that began in it, and p looks at its socket before there is  *)
(* another run: in its turn, or because tcp_sock_tick tells the task that  *)
(* waits.                                                                  *)
(***************************************************************************)

(* The stack runs, and p looks at its socket when it has run.              *)
Running(p) == pc = "tick" \/ (pc = "tasks" /\ cur = p /\ p \in Blocking \ Careless)

Fresh(h) == tcb[h].st = "LISTEN" \/ (tcb[h].st = "SYN_RECEIVED" /\ h \in synRun)

(* p has looked at its socket in this turn of the loop.                    *)
Looked(p) == p < cur \/ (p = cur /\ pc # "call")

InSession(p) == ip_assigned[p] /\ socket[p] # Invalid /\ ~sock_init[p]
Intact(p) == tcb[socket[p]].conn = session[p]
SessionOK(p) ==
    InSession(p) /\ p \notin missed =>
        IF Running(p) THEN Intact(p) \/ Fresh(socket[p])
                      ELSE IF IsConnected(socket[p]) THEN Intact(p) ELSE ~Looked(p)
SessionInv == /\ \A p \in Servers : SessionOK(p)
              /\ \A p \in Servers : ip_assigned[p] => Port[p] # 0
              /\ pc = "tasks" /\ sock_init[cur] => IsConnected(socket[cur])

LEMMA FreshIsNot == \A h : Fresh(h) => ~IsConnected(h)
  BY DEF Fresh, IsConnected, ConnectedStates

LEMMA StackConnections ==
  ASSUME TableOK, StackStep, NEW h \in Handles, Live(tcb[h])
  PROVE  Fresh(h)' \/ (tcb'[h].conn = tcb[h].conn /\ ~Fresh(h))
  <1>1. ASSUME NEW g \in Handles, CloseSocket(g), UNCHANGED synRun
        PROVE  Fresh(h)' \/ (tcb'[h].conn = tcb[h].conn /\ ~Fresh(h))
    <2>1. CASE g = h
      <3>1. tcb'[h] = ListenTcb(tcb[h].port)
        BY <1>1, <2>1 DEF CloseSocket, AfterClose, TableOK, Live
      <3> QED
        BY <3>1 DEF Fresh, ListenTcb, FreeTcb
    <2>2. CASE g # h
      BY <1>1, <2>2 DEF CloseSocket, TableOK, Fresh
    <2> QED
      BY <2>1, <2>2
  <1>2. ASSUME NEW g \in Handles, RxSyn(g) PROVE Fresh(h)' \/ (tcb'[h].conn = tcb[h].conn /\ ~Fresh(h))
    BY <1>2 DEF RxSyn, Fresh, TableOK, Tcb
  <1>3. ASSUME NEW g \in Handles, RxAckOfSyn(g) PROVE Fresh(h)' \/ (tcb'[h].conn = tcb[h].conn /\ ~Fresh(h))
    BY <1>3 DEF RxAckOfSyn, Fresh, TableOK, Tcb
  <1>4. ASSUME NEW g \in Handles, RxData(g) PROVE Fresh(h)' \/ (tcb'[h].conn = tcb[h].conn /\ ~Fresh(h))
    BY <1>4 DEF RxData, Fresh, TableOK, Tcb
  <1>5. ASSUME NEW g \in Handles, RxFin(g) PROVE Fresh(h)' \/ (tcb'[h].conn = tcb[h].conn /\ ~Fresh(h))
    <2>1. CASE tcb[g].st \in {"ESTABLISHED", "FIN_WAIT_1"}
      BY <1>5, <2>1 DEF RxFin, Fresh, TableOK, Tcb
    <2> QED
      BY <1>1, <1>5, <2>1 DEF RxFin
  <1>6. ASSUME NEW g \in Handles, RxAckOfFin(g) PROVE Fresh(h)' \/ (tcb'[h].conn = tcb[h].conn /\ ~Fresh(h))
    <2>1. CASE tcb[g].st = "FIN_WAIT_1"
      BY <1>6, <2>1 DEF RxAckOfFin, Fresh, TableOK, Tcb
    <2> QED
      BY <1>1, <1>6, <2>1 DEF RxAckOfFin
  <1>7. ASSUME NEW g \in Handles, Timeout(g) PROVE Fresh(h)' \/ (tcb'[h].conn = tcb[h].conn /\ ~Fresh(h))
    <2>1. CASE tcb[g].st = "ESTABLISHED"
      BY <1>7, <2>1 DEF Timeout, ClosingStates, Fresh, TableOK, Tcb
    <2> QED
      BY <1>1, <1>7, <2>1 DEF Timeout
  <1>8. ASSUME NEW g \in Handles, RxWindow(g) PROVE Fresh(h)' \/ (tcb'[h].conn = tcb[h].conn /\ ~Fresh(h))
    BY <1>8 DEF RxWindow, Fresh, TableOK, Tcb
  <1> QED
    BY <1>1, <1>2, <1>3, <1>4, <1>5, <1>6, <1>7, <1>8 DEF StackStep, RxRst

(* A server that has looked has its client, and the session it should have. *)
LEMMA SessionLooked ==
  ASSUME SessionInv, NEW p \in Servers, InSession(p), p \notin missed,
         IsConnected(socket[p]) \/ (Looked(p) /\ ~Running(p))
  PROVE  IsConnected(socket[p]) /\ Intact(p)
  BY FreshIsNot DEF SessionInv, SessionOK

(* The step is one of the call for p, which goes on or ends.               *)
Advances(p) == /\ pc # "tick" /\ cur = p
               /\ \/ pc' \in {"tasks", "promote", "accept", "open"} /\ cur' = cur
                  \/ NextCall

SameServer(q) == /\ UNCHANGED <<ip_assigned[q], socket[q], sock_init[q], session[q]>>
                 /\ q \in missed' <=> q \in missed
SameSocket(q) == ip_assigned[q] /\ socket[q] # Invalid => tcb'[socket[q]] = tcb[socket[q]]

(* A server whose own record and socket stay, in a call of another.        *)
LEMMA SessionOthers ==
  ASSUME IInv, SessionInv, NEW p \in Servers, NEW q \in Servers, q # p,
         Advances(p), SameServer(q), SameSocket(q)
  PROVE  SessionOK(q)'
  <1>1. p \in Nat /\ q \in Nat /\ N \in Nat /\ p <= N /\ q <= N /\ p # 0
    BY ServerAssumption DEF Servers
  <1>2. SUFFICES ASSUME InSession(q)', q \notin missed'
                 PROVE (IF Running(q) THEN Intact(q) \/ Fresh(socket[q])
                        ELSE IF IsConnected(socket[q]) THEN Intact(q) ELSE ~Looked(q))'
    BY DEF SessionOK
  <1>3. /\ InSession(q) /\ q \notin missed
        /\ tcb'[socket[q]'] = tcb[socket[q]] /\ socket[q]' = socket[q] /\ session[q]' = session[q]
    BY <1>2 DEF InSession, SameServer, SameSocket
  <1>4. pc # "tick" /\ cur = p /\ ~Running(q)
    BY DEF Advances, Running
  <1>5. IF IsConnected(socket[q]) THEN Intact(q) ELSE ~Looked(q)
    BY <1>3, <1>4 DEF SessionInv, SessionOK
  <1>6. IsConnected(socket[q])' <=> IsConnected(socket[q])
    BY <1>3 DEF IsConnected
  <1>7. Intact(q)' <=> Intact(q)
    BY <1>3 DEF Intact
  <1>8. CASE Looked(q)
    BY <1>5, <1>6, <1>7, <1>8
  <1>9. CASE ~Looked(q)
    <2>1. p < q
      BY <1>1, <1>4, <1>9 DEF Looked
    <2>2. ~Looked(q)' /\ ~Running(q)'
      <3>1. CASE pc' \in {"tasks", "promote", "accept", "open"} /\ cur' = cur
        BY <1>1, <1>4, <2>1, <3>1 DEF Looked, Running
      <3>2. CASE NextCall
        <4>1. cur' = p + 1 /\ pc' = "call"
          BY <1>1, <1>4, <2>1, <3>2 DEF NextCall
        <4> QED
          BY <1>1, <2>1, <4>1 DEF Looked, Running
      <3> QED
        BY <3>1, <3>2 DEF Advances
    <2> QED
      BY <1>5, <1>6, <1>7, <2>2
  <1> QED
    BY <1>8, <1>9

(* A call that leaves the sockets alone, but for its own.                  *)
LEMMA SocketsApart ==
  ASSUME IInv, NEW p \in Servers, NEW q \in Servers, q # p, NEW h,
         h \in Held(p) \/ (h \in Handles /\ ~Live(tcb[h])),
         \A g \in Handles \ {h} : tcb'[g] = tcb[g]
  PROVE  SameSocket(q)
  <1> SUFFICES ASSUME ip_assigned[q], socket[q] # Invalid PROVE tcb'[socket[q]] = tcb[socket[q]]
    BY DEF SameSocket
  <1>1. socket[q] \in Held(q) /\ socket[q] \in Handles
    BY HeldMembers DEF Holds, IInv, TypeOK
  <1>2. Live(tcb[socket[q]]) /\ (h \in Held(p) => socket[q] # h)
    BY <1>1 DEF IInv, Owned
  <1> QED
    BY <1>1, <1>2

LEMMA CloseActiveApart ==
  ASSUME IInv, NEW p \in Servers, ip_assigned[p], socket[p] # Invalid, CloseActive(p),
         NEW q \in Servers, q # p
  PROVE  SameSocket(q)
  <1>1. socket[p] \in Held(p) /\ socket[p] \in Handles
    BY HeldMembers DEF Holds, IInv, TypeOK
  <1>2. Allocated(socket[p])
    BY <1>1 DEF IInv, Owned, Live, Allocated
  <1>3. \A g \in Handles \ {socket[p]} : tcb'[g] = tcb[g]
    BY <1>1, <1>2, CloseShuts DEF CloseActive, IInv
  <1> QED
    BY <1>1, <1>3, SocketsApart

(* A clause after the first two leaves its server in its session.          *)
LEMMA SessionOwn ==
  ASSUME SessionInv, NEW p \in Servers, cur = p, pc \in {"promote", "accept", "open"},
         InSession(p)' => InSession(p), SameServer(p) \/ ~InSession(p)', SameSocket(p)
  PROVE  SessionOK(p)'
  <1>1. SUFFICES ASSUME InSession(p)', p \notin missed' PROVE IsConnected(socket[p])' /\ Intact(p)'
    BY DEF SessionOK
  <1>2. InSession(p) /\ p \notin missed /\ SameServer(p)
    BY <1>1 DEF SameServer
  <1>3. IsConnected(socket[p]) /\ Intact(p)
    BY <1>2, SessionLooked DEF Looked, Running
  <1> QED
    BY <1>2, <1>3 DEF SameServer, SameSocket, InSession, IsConnected, Intact

LEMMA SessionOfCall ==
  ASSUME IInv, SessionInv, NEW p \in Servers, Tcpip_server(p)
  PROVE  SessionInv'
  <1> USE DEF IInv
  <1>1. \A q \in Servers : ip_assigned'[q] => Port[q] # 0
    <2>1. ASSUME NEW q \in Servers, ip_assigned'[q] PROVE Port[q] # 0
      <3>1. CASE AssignIp(p) \/ NetworkUp(p)
        BY <2>1, <3>1 DEF SessionInv, AssignIp, NetworkUp, TypeOK
      <3>2. CASE UNCHANGED ip_assigned
        BY <2>1, <3>2 DEF SessionInv
      <3> QED
        BY <3>1, <3>2 DEF Tcpip_server, Disabled, NoActive, ClosedByClient, CheckTimeout, Tasks, TasksInit,
           TasksReturn, Promote, Accept, Open, serverVars
    <2> QED
      BY <2>1
  <1>2. Advances(p)
    <2>1. pc # "tick" /\ cur = p
      BY DEF Tcpip_server, Disabled, NetworkUp, AssignIp, NoActive, ClosedByClient, CheckTimeout, Tasks, TasksInit,
         TasksReturn, Promote, Accept, Open, Serving, Called
    <2> QED
      BY <2>1 DEF Advances, Tcpip_server, Disabled, NetworkUp, AssignIp, NoActive, ClosedByClient, CheckTimeout,
         Tasks, TasksInit, TasksReturn, Promote, Accept, Open, Goto
  <1>3. pc' = "tasks" => CheckTimeout(p)
    BY DEF Tcpip_server, Disabled, NetworkUp, AssignIp, NoActive, ClosedByClient, CheckTimeout, Tasks, TasksInit,
       TasksReturn, Promote, Accept, Open, Goto, NextCall
  <1>4. pc' = "tasks" /\ sock_init'[cur'] => IsConnected(socket[cur])'
    <2>1. SUFFICES ASSUME CheckTimeout(p) PROVE IsConnected(socket[cur])'
      BY <1>3
    <2>2. cur = p /\ IsConnected(socket[p]) /\ UNCHANGED <<tcb, socket, cur>>
      BY <1>2, <2>1 DEF Advances, CheckTimeout, Gone, stackVars, Goto
    <2> QED
      BY <2>2 DEF IsConnected
  <1>5. SUFFICES SessionOK(p)' /\ \A q \in Servers \ {p} : SameServer(q) /\ SameSocket(q)
    BY <1>1, <1>2, <1>4, SessionOthers DEF SessionInv
  <1>6. CASE Disabled(p) \/ NetworkUp(p) \/ AssignIp(p) \/ NoActive(p)
    <2>1. UNCHANGED <<tcb, missed>>
      BY <1>6 DEF Disabled, NetworkUp, AssignIp, NoActive, stackVars
    <2>2. \A q \in Servers \ {p} : SameServer(q)
      BY <1>6, <2>1 DEF Disabled, NetworkUp, AssignIp, NoActive, SameServer, serverVars, TypeOK
    <2>3. ~InSession(p)'
      BY <1>6 DEF Disabled, NetworkUp, AssignIp, NoActive, SessionInv, InSession, serverVars, TypeOK, Prepared
    <2> QED
      BY <2>1, <2>2, <2>3 DEF SessionOK, SameSocket
  <1>7. CASE ClosedByClient(p)
    <2>1. ~InSession(p)' /\ \A q \in Servers \ {p} : SameServer(q)
      BY <1>7 DEF ClosedByClient, CloseActive, InSession, SameServer, TypeOK
    <2>2. \A q \in Servers \ {p} : SameSocket(q)
      BY <1>7, CloseActiveApart DEF ClosedByClient, Serving
    <2> QED
      BY <2>1, <2>2 DEF SessionOK
  <1>8. CASE CheckTimeout(p)
    <2>1. UNCHANGED <<tcb, ip_assigned, socket, sock_init, session, missed>> /\ IsConnected(socket[p])
      BY <1>8 DEF CheckTimeout, Gone, stackVars
    <2>2. SessionOK(p)'
      BY <2>1, SessionLooked DEF SessionOK, InSession, Intact, IsConnected
    <2> QED
      BY <2>1, <2>2 DEF SameServer, SameSocket
  <1>9. CASE TasksInit(p)
    <2>1. /\ pc = "tasks" /\ cur = p /\ ip_assigned[p] /\ socket[p] # Invalid /\ socket[p] \in Handles
          /\ sock_init[p] /\ pc' = "promote" /\ UNCHANGED ip_assigned
      BY <1>9 DEF TasksInit, CallOK, TypeOK, Goto
    <2>2. CASE CloseActive(p)
      <3>1. ~InSession(p)' /\ \A q \in Servers \ {p} : SameServer(q)
        BY <1>9, <2>1, <2>2 DEF TasksInit, CloseActive, InSession, SameServer, TypeOK
      <3> QED
        BY <2>1, <2>2, <3>1, CloseActiveApart DEF SessionOK
    <2>3. CASE UNCHANGED <<tcb, socket>> /\ session' = [session EXCEPT ![p] = tcb[socket[p]].conn]
      <3>1. IsConnected(socket[p])'
        BY <2>1, <2>3 DEF SessionInv, IsConnected
      <3>2. Intact(p)'
        BY <2>3 DEF Intact, TypeOK
      <3> QED
        BY <1>9, <2>3, <3>1, <3>2 DEF TasksInit, SessionOK, SameServer, SameSocket, TypeOK
    <2> QED
      BY <1>9, <2>2, <2>3 DEF TasksInit
  <1>10. ASSUME NEW status \in Statuses, NEW reads \in BOOLEAN, TasksReturn(p, status, reads)
         PROVE  SessionOK(p)' /\ \A q \in Servers \ {p} : SameServer(q) /\ SameSocket(q)
    <2>1. /\ pc = "tasks" /\ cur = p /\ ip_assigned[p] /\ socket[p] # Invalid /\ socket[p] \in Handles
          /\ ~sock_init[p] /\ pc' = "promote" /\ UNCHANGED <<ip_assigned, sock_init, missed>>
      BY <1>10 DEF TasksReturn, CallOK, TypeOK, Goto
    <2>2. CASE CloseActive(p)
      <3>1. ~InSession(p)' /\ \A q \in Servers \ {p} : SameServer(q)
        BY <2>1, <2>2 DEF CloseActive, InSession, SameServer, TypeOK
      <3> QED
        BY <2>1, <2>2, <3>1, CloseActiveApart DEF SessionOK
    <2>3. CASE ~Ends(status) /\ (UNCHANGED tcb \/ Reading(socket[p])) /\ UNCHANGED <<socket, session>>
      <3>1. p \in Careless \/ ~Gone(socket[p])
        BY <1>10, <2>3 DEF TasksReturn, Ends
      <3>2. p \notin missed => IsConnected(socket[p]) /\ Intact(p)
        <4>1. CASE p \in Careless
          BY <2>1, <4>1, SessionLooked DEF InSession, Looked, Running
        <4>2. CASE ~Gone(socket[p])
          BY <2>1, <4>2, SessionLooked DEF InSession, Gone
        <4> QED
          BY <3>1, <4>1, <4>2
      <3>3. \A g \in Handles \ {socket[p]} : tcb'[g] = tcb[g]
        BY <2>1, <2>3 DEF Reading, TypeOK, StackTypeOK
      <3>4. tcb'[socket[p]].conn = tcb[socket[p]].conn /\ tcb'[socket[p]].st = tcb[socket[p]].st
        BY <2>1, <2>3 DEF Reading, TypeOK, StackTypeOK, Tcb
      <3>5. SessionOK(p)'
        BY <2>1, <2>3, <3>2, <3>4 DEF SessionOK, InSession, IsConnected, Intact
      <3>6. socket[p] \in Held(p)
        BY <2>1, HeldMembers DEF Holds
      <3>7. \A q \in Servers \ {p} : SameServer(q)
        BY <2>1, <2>3 DEF SameServer
      <3> QED
        BY <3>3, <3>5, <3>6, <3>7, SocketsApart
    <2> QED
      BY <1>10, <2>2, <2>3 DEF TasksReturn
  <1>11. CASE Promote(p)
    <2>1. pc = "promote" /\ cur = p /\ UNCHANGED <<tcb, ip_assigned, session, missed>>
      BY <1>11 DEF Promote, stackVars
    <2>2. \A q \in Servers \ {p} : SameServer(q)
      BY <1>11, <2>1 DEF Promote, SameServer, TypeOK
    <2>3. \A q \in Servers : SameSocket(q)
      BY <2>1 DEF SameSocket
    <2>4. (InSession(p)' => InSession(p)) /\ (SameServer(p) \/ ~InSession(p)')
      BY <1>11, <2>1 DEF Promote, InSession, SameServer, TypeOK
    <2> QED
      BY <2>1, <2>2, <2>3, <2>4, SessionOwn
  <1>12. CASE Accept(p)
    <2>1. pc = "accept" /\ cur = p /\ UNCHANGED <<ip_assigned, session, sock_init, socket, missed>>
      BY <1>12 DEF Accept
    <2>2. \A q \in Servers : SameSocket(q)
      <3>1. CASE UNCHANGED tcb
        BY <3>1 DEF SameSocket
      <3>2. CASE Refuse(p) /\ listening[p] # Invalid
        <4>1. ip_assigned[p]
          BY <2>1 DEF CallOK
        <4>2. listening[p] \in Held(p) /\ listening[p] \in Handles
          BY <3>2, <4>1, HeldMembers DEF Holds, TypeOK
        <4>3. Allocated(listening[p])
          BY <4>2 DEF Owned, Live, Allocated
        <4>4. \A g \in Handles \ {listening[p]} : tcb'[g] = tcb[g]
          BY <3>2, <4>2, <4>3, CloseShuts DEF Refuse
        <4>5. SameSocket(p)
          BY <4>1, <4>4 DEF SameSocket, Roles, OneRole, TypeOK
        <4> QED
          BY <4>2, <4>4, <4>5, SocketsApart
      <3> QED
        BY <1>12, <3>1, <3>2 DEF Accept, Join
    <2>3. \A q \in Servers : SameServer(q) /\ (InSession(q)' <=> InSession(q))
      BY <2>1 DEF SameServer, InSession
    <2> QED
      BY <2>1, <2>2, <2>3, SessionOwn
  <1>13. CASE Open(p)
    <2>1. pc = "open" /\ cur = p /\ UNCHANGED <<ip_assigned, session, sock_init, socket, missed>>
      BY <1>13 DEF Open
    <2>2. \A q \in Servers : SameSocket(q)
      <3>1. CASE MayOpen(p)
        <4> DEFINE h == Lowest(FreeSlots)
        <4>1. h \in Handles /\ h \in FreeSlots
          BY <3>1, LowestHandle DEF MayOpen, FreeSlots
        <4>2. OpenAt(h, Port[p])
          BY <1>13, <3>1 DEF Open
        <4> HIDE DEF h
        <4>3. \A g \in Handles \ {h} : tcb'[g] = tcb[g]
          BY <4>1, <4>2 DEF OpenAt, TypeOK, StackTypeOK
        <4>4. \A q \in Servers : ip_assigned[q] /\ socket[q] # Invalid => socket[q] \in Handles \ {h}
          BY <4>1, HeldMembers DEF Holds, Owned, TypeOK, FreeSlots, Allocated, Live
        <4> QED
          BY <4>3, <4>4 DEF SameSocket
      <3>2. CASE ~MayOpen(p)
        BY <1>13, <3>2 DEF Open, SameSocket
      <3> QED
        BY <3>1, <3>2
    <2>3. \A q \in Servers : SameServer(q) /\ (InSession(q)' <=> InSession(q))
      BY <2>1 DEF SameServer, InSession
    <2> QED
      BY <2>1, <2>2, <2>3, SessionOwn
  <1> QED
    BY <1>6, <1>7, <1>8, <1>9, <1>10, <1>11, <1>12, <1>13 DEF Tcpip_server, Tasks

(* A run of the stack: those that watch it end up fresh or as they were,   *)
(* and what it does to the others is noted.                                *)
LEMMA SessionOfStack == ASSUME IInv, SessionInv, Stack PROVE SessionInv'
  <1> USE DEF IInv
  <1>1. /\ StackRuns /\ StackStep
        /\ UNCHANGED <<ip_assigned, socket, sock_init, session, pc, cur>>
        /\ missed' = missed \cup {p \in Servers \ Watched : ComesOrGoes(p)}
    BY DEF Stack, serverVars, loopVars
  <1>2. ~(pc = "tasks" /\ sock_init[cur])
    BY <1>1 DEF StackRuns
  <1>3. SUFFICES ASSUME NEW q \in Servers, InSession(q), q \notin missed'
                 PROVE (IF Running(q) THEN Intact(q) \/ Fresh(socket[q])
                        ELSE IF IsConnected(socket[q]) THEN Intact(q) ELSE ~Looked(q))'
    BY <1>1, <1>2 DEF SessionInv, SessionOK, InSession
  <1>4. q \notin missed /\ (q \in Watched \/ ~ComesOrGoes(q))
    BY <1>1, <1>3
  <1>5. socket[q] \in Handles /\ Live(tcb[socket[q]])
    BY <1>3, HeldMembers DEF InSession, Holds, Owned, TypeOK
  <1>6. (Running(q)' <=> Running(q)) /\ (Looked(q)' <=> Looked(q))
    BY <1>1 DEF Running, Looked
  <1>7. Fresh(socket[q])' \/ (tcb'[socket[q]].conn = tcb[socket[q]].conn /\ ~Fresh(socket[q]))
    <2>1. ASSUME NEW h \in Handles, h = socket[q]
          PROVE  Fresh(h)' \/ (tcb'[h].conn = tcb[h].conn /\ ~Fresh(h))
      BY <1>1, <1>5, <2>1, StackConnections
    <2> QED
      BY <1>1, <1>5, <2>1 DEF Fresh
  <1>8. CASE Running(q)
    BY <1>1, <1>3, <1>4, <1>6, <1>7, <1>8 DEF SessionInv, SessionOK, Intact
  <1>9. CASE ~Running(q)
    <2>1. q \notin Watched
      BY <1>1, <1>9 DEF Watched, Running, StackRuns
    <2>2. IsConnected(socket[q])' <=> IsConnected(socket[q])
      BY <1>1, <1>3, <1>4, <2>1 DEF ComesOrGoes, InSession, IsConnected
    <2>3. Fresh(socket[q])' => ~IsConnected(socket[q])'
      BY FreshIsNot DEF Fresh, IsConnected, ConnectedStates
    <2>4. IsConnected(socket[q])' => (Intact(q)' <=> Intact(q))
      BY <1>1, <1>7, <2>3 DEF Intact
    <2> QED
      BY <1>3, <1>4, <1>6, <1>9, <2>2, <2>4 DEF SessionInv, SessionOK
  <1> QED
    BY <1>8, <1>9

LEMMA SessionStep == IInv /\ SessionInv /\ [Next]_vars => SessionInv'
  <1> SUFFICES ASSUME IInv, SessionInv, [Next]_vars PROVE SessionInv'
    OBVIOUS
  <1> USE DEF IInv
  <1>1. ASSUME NEW p \in Servers, Tcpip_server(p) PROVE SessionInv'
    BY <1>1, SessionOfCall
  <1>2. CASE EndTick
    <2>1. pc = "tick" /\ cur = 0 /\ cur' = 1 /\ pc' = "call"
      BY <1>2, ServerAssumption DEF EndTick, NextCall, CallOK
    <2>2. \A q \in Servers : Running(q) /\ ~Running(q)' /\ ~Looked(q)'
      BY <2>1, ServerAssumption DEF Looked, Running, Servers
    <2>3. UNCHANGED <<tcb, ip_assigned, socket, sock_init, session, missed>>
      BY <1>2 DEF EndTick, EndRun, serverVars
    <2> QED
      BY <2>1, <2>2, <2>3, FreshIsNot DEF SessionInv, SessionOK, InSession, Intact, IsConnected
  <1>3. CASE Stack
    BY <1>3, SessionOfStack
  <1>4. CASE NestedTick
    <2>1. /\ pc = "tasks" /\ cur \in Blocking /\ (cur \in Careless \/ ~Gone(socket[cur]))
          /\ UNCHANGED <<tcb, ip_assigned, socket, sock_init, session, missed, cur, pc>>
      BY <1>4 DEF NestedTick, StackRuns, EndRun, serverVars, loopVars
    <2>2. ASSUME NEW q \in Servers, InSession(q), q \notin missed, Running(q) PROVE Intact(q)
      BY <2>1, <2>2, SessionLooked DEF Running, Gone
    <2> QED
      BY <2>1, <2>2 DEF SessionInv, SessionOK, InSession, Running, Looked, Intact, IsConnected
  <1>5. CASE LinkChange \/ SecondPasses \/ UNCHANGED vars
    <2>1. UNCHANGED <<tcb, synRun, cur, pc, ip_assigned, socket, sock_init, session, missed>>
      BY <1>5 DEF LinkChange, SecondPasses, vars, serverVars, loopVars, stackVars
    <2> QED
      BY <2>1 DEF SessionInv, SessionOK, InSession, Running, Fresh, Looked, Intact, IsConnected
  <1> QED
    BY <1>1, <1>2, <1>3, <1>4, <1>5 DEF Next, Program, Environment

LEMMA SessionInit == Init => SessionInv
  BY DEF Init, SessionInv, SessionOK, InSession

LEMMA SessionHolds == IInv /\ SessionInv => SessionKept
  <1> SUFFICES ASSUME IInv, SessionInv, NEW p \in Servers, p \notin missed,
                      pc = "tasks", cur = p, ~sock_init[p], IsConnected(socket[p])
               PROVE  tcb[socket[p]].conn = session[p]
    BY DEF SessionKept, SessionIntactOf
  <1>1. InSession(p)
    BY DEF IInv, CallOK, InSession
  <1> QED
    BY <1>1, SessionLooked DEF Intact

(***************************************************************************)
(* Whatever the tasks do, the task of a server is never called for another *)
(* connection than the one it was initialised for, unless its socket has   *)
(* since lost or gained a client in a run of the stack that a task started *)
(* and that the server did not watch.  That the stack also runs in the     *)
(* main loop, in the waits of others while nothing happens to this client, *)
(* and in a wait of its own that heeds the answer, does no harm.           *)
(***************************************************************************)
THEOREM SessionsAreKept == Spec => []SessionKept
  BY SessionInit, SessionStep, SessionHolds, IInvAlways, PTL DEF Spec
=============================================================================
