-------------------------- MODULE TcpipFifo_proofs --------------------------
(***************************************************************************)
(* tcpip_server implements FifoService, for every value of the constants:  *)
(* the queue without gaps is the sequence of those who wait, Promote is    *)
(* Start, a connected socket that joins enters, a closed one is dropped.   *)
(***************************************************************************)
EXTENDS TcpipServer_proofs, Sequences

(* The length of a queue without gaps is what one expects.                 *)
NoGaps(f) == \A i, j \in Places : i < j /\ f[j] # Invalid => f[i] # Invalid
HasLength(f, n) == n \in 0 .. QueueSize /\ \A i \in Places : f[i] # Invalid <=> i <= n

LEMMA LengthOfQueue == ASSUME NEW f, NoGaps(f) PROVE HasLength(f, QueueLength(f))
  <1> DEFINE free == {i \in Places : f[i] = Invalid}
  <1>1. CASE free = {}
    <2>1. QueueLength(f) = QueueSize
      BY <1>1 DEF QueueLength
    <2> QED
      BY <1>1, <2>1, ServerAssumption DEF HasLength, Places
  <1>2. CASE free # {}
    <2>1. QueueLength(f) = Lowest(free) - 1
      BY <1>2 DEF QueueLength
    <2>2. Lowest(free) \in free /\ \A i \in free : Lowest(free) <= i
      <3>1. free \subseteq Nat
        BY ServerFacts
      <3> HIDE DEF free
      <3> QED
        BY <1>2, <3>1, LowestIsLowest
    <2>3. PICK k \in Places : k = Lowest(free) /\ f[k] = Invalid /\ \A i \in Places : i < k => f[i] # Invalid
      BY <2>2, ServerFacts DEF Places
    <2>4. \A i \in Places : k <= i => f[i] = Invalid
      BY <2>3 DEF NoGaps, Places
    <2>5. QueueLength(f) = k - 1
      BY <2>1, <2>3
    <2> QED
      BY <2>3, <2>4, <2>5, ServerAssumption DEF HasLength, Places
  <1> QED
    BY <1>1, <1>2

LEMMA LengthIsUnique ==
  ASSUME NEW f, NEW n, HasLength(f, n) PROVE QueueLength(f) = n
  <1>1. NoGaps(f)
    BY DEF HasLength, NoGaps, Places
  <1>2. HasLength(f, QueueLength(f))
    BY <1>1, LengthOfQueue
  <1>3. ASSUME NEW m, NEW k, HasLength(f, m), HasLength(f, k), m < k PROVE FALSE
    <2>1. k \in Places
      BY <1>3 DEF HasLength, Places
    <2> QED
      BY <1>3, <2>1 DEF HasLength
  <1> QED
    BY <1>2, <1>3 DEF HasLength

LEMMA FunctionIsSequence ==
  ASSUME NEW S, NEW n \in Nat, NEW w \in [1 .. n -> S]
  PROVE  w \in Seq(S) /\ Len(w) = n
  OBVIOUS

FifoVars == <<[p \in Servers |-> ActiveOf(p)], [p \in Servers |-> WaitingOf(p)]>>

(* A step that concerns one server leaves the service of the others alone. *)
LEMMA ServiceSame ==
  ASSUME NEW q, ip_assigned[q]' = ip_assigned[q], socket[q]' = socket[q], queue[q]' = queue[q]
  PROVE  ActiveOf(q)' = ActiveOf(q) /\ WaitingOf(q)' = WaitingOf(q)
  BY DEF ActiveOf, WaitingOf

LEMMA FifoQuiet ==
  ASSUME UNCHANGED <<ip_assigned, socket, queue>>
  PROVE  UNCHANGED FifoVars
  BY ServiceSame DEF FifoVars

LEMMA FifoInit == Init => Fifo!Init
  BY DEF Init, Fifo!Init, ActiveOf, WaitingOf

LEMMA FifoDrop ==
  ASSUME IInv, NEW p \in Servers, ip_assigned[p], socket[p] # Invalid,
         CloseActive(p), UNCHANGED <<ip_assigned, queue>>
  PROVE  Fifo!Drop(p)
  <1>1. socket' = [socket EXCEPT ![p] = Invalid]
    BY DEF CloseActive
  <1>2. \A q \in Servers : WaitingOf(q)' = WaitingOf(q)
    BY DEF WaitingOf
  <1>3. \A q \in Servers : ActiveOf(q)' = IF q = p THEN Invalid ELSE ActiveOf(q)
    BY <1>1 DEF IInv, TypeOK, ActiveOf
  <1>4. ActiveOf(p) # Invalid
    BY DEF ActiveOf
  <1> QED
    BY <1>2, <1>3, <1>4 DEF Fifo!Drop

LEMMA FifoStart ==
  ASSUME IInv, QueueCompact, NEW p \in Servers, Promote(p), MayPromote(p)
  PROVE  Fifo!Start(p)
  <1>1. ip_assigned[p] /\ UNCHANGED ip_assigned /\ socket[p] = Invalid /\ queue[p][1] # Invalid
    BY DEF IInv, CallOK, Promote, MayPromote
  <1> DEFINE f == queue[p]
             g == Shifted(p)
             n == QueueLength(f)
  <1>2. HasLength(f, n) /\ f \in [Places -> Handles \cup {Invalid}]
    BY <1>1, LengthOfQueue DEF IInv, TypeOK, QueueCompact, NoGaps
  <1>3. n \in 1 .. QueueSize
    BY <1>1, <1>2, ServerFacts, ServerAssumption DEF HasLength
  <1>4. \A i \in Places : g[i] = IF i < QueueSize THEN f[i + 1] ELSE Invalid
    BY DEF Shifted
  <1>5. HasLength(g, n - 1)
    <2> HIDE DEF f, g, n
    <2>1. \A i \in Places : i < QueueSize => i + 1 \in Places
      BY ServerAssumption DEF Places
    <2> QED
      BY <1>2, <1>3, <1>4, <2>1, ServerAssumption DEF HasLength, Places
  <1>6. QueueLength(g) = n - 1
    <2> HIDE DEF f, g, n
    <2> QED
      BY <1>5, LengthIsUnique
  <1>7. queue' = [queue EXCEPT ![p] = g] /\ socket' = [socket EXCEPT ![p] = f[1]]
    BY DEF Promote, Front
  <1>8. queue'[p] = g /\ socket'[p] = f[1]
    BY <1>7 DEF IInv, TypeOK
  <1>9. \A q \in Servers \ {p} : ActiveOf(q)' = ActiveOf(q) /\ WaitingOf(q)' = WaitingOf(q)
    BY <1>1, <1>7, ServiceSame DEF IInv, TypeOK
  <1>10. ActiveOf(p) = Invalid /\ ActiveOf(p)' = f[1]
    BY <1>1, <1>8 DEF ActiveOf
  <1>11. WaitingOf(p) = [i \in 1 .. n |-> f[i]] /\ WaitingOf(p)' = [i \in 1 .. n - 1 |-> g[i]]
    BY <1>1, <1>6, <1>8 DEF WaitingOf
  <1>12. /\ [i \in 1 .. n |-> f[i]] \in Seq(Handles \cup {Invalid}) /\ [i \in 1 .. n |-> f[i]] # <<>>
         /\ Len([i \in 1 .. n |-> f[i]]) = n
         /\ Head([i \in 1 .. n |-> f[i]]) = f[1]
         /\ Tail([i \in 1 .. n |-> f[i]]) = [i \in 1 .. n - 1 |-> f[i + 1]]
    <2> HIDE DEF f, g, n
    <2>1. \A i \in 1 .. n : i \in Places
      BY <1>3, ServerAssumption DEF Places
    <2> QED
      BY <1>2, <1>3, <2>1
  <1>13. [i \in 1 .. n - 1 |-> g[i]] = [i \in 1 .. n - 1 |-> f[i + 1]]
    <2> HIDE DEF f, g, n
    <2>1. \A i \in 1 .. n - 1 : i \in Places /\ i < QueueSize
      BY <1>3, ServerAssumption DEF Places
    <2> QED
      BY <1>4, <2>1
  <1> DEFINE w == [i \in 1 .. n |-> f[i]]
  <1>14. WaitingOf(p) = w /\ w # <<>> /\ Head(w) = f[1] /\ WaitingOf(p)' = Tail(w)
    BY <1>11, <1>12, <1>13
  <1> HIDE DEF f, g, n, w
  <1>15. [q \in Servers |-> ActiveOf(q)'] = [[q \in Servers |-> ActiveOf(q)] EXCEPT ![p] = Head(w)]
    BY <1>9, <1>10, <1>14
  <1>16. [q \in Servers |-> WaitingOf(q)'] = [[q \in Servers |-> WaitingOf(q)] EXCEPT ![p] = Tail(w)]
    BY <1>9, <1>14
  <1>17. [q \in Servers |-> WaitingOf(q)][p] = w /\ [q \in Servers |-> ActiveOf(q)][p] = Invalid
    BY <1>10, <1>14
  <1> QED
    BY <1>14, <1>15, <1>16, <1>17 DEF Fifo!Start

LEMMA FifoEnter ==
  ASSUME IInv, QueueCompact, NEW p \in Servers, ip_assigned[p], listening[p] # Invalid,
         Join(p), UNCHANGED <<ip_assigned, socket>>
  PROVE  Fifo!Enter(p, listening[p])
  <1> DEFINE f == queue[p]
             h == listening[p]
             n == QueueLength(f)
             k == Lowest(FreePlaces(p))
             g == [f EXCEPT ![k] = h]
             w == [i \in 1 .. n |-> f[i]]
  <1>1. HasLength(f, n) /\ f \in [Places -> Handles \cup {Invalid}]
    BY LengthOfQueue DEF IInv, TypeOK, QueueCompact, NoGaps
  <1>2. k = n + 1 /\ k \in Places
    <2>1. FreePlaces(p) = {i \in Places : f[i] = Invalid} /\ FreePlaces(p) # {}
      BY DEF Join, FreePlaces
    <2>2. n = k - 1
      BY <2>1 DEF QueueLength
    <2>3. FreePlaces(p) \subseteq Nat
      BY ServerFacts DEF FreePlaces
    <2>4. k \in FreePlaces(p)
      BY <2>1, <2>3, LowestIsLowest
    <2> HIDE DEF f, n, k
    <2>5. k \in Places
      BY <2>1, <2>4
    <2>6. k \in Nat
      BY <2>5, ServerFacts
    <2> QED
      BY <2>2, <2>5, <2>6
  <1>3. n \in 0 .. QueueSize - 1 /\ QueueSize \in Nat
    <2> HIDE DEF f, n, k
    <2> QED
      BY <1>1, <1>2, ServerAssumption DEF HasLength, Places
  <1>4. queue' = [queue EXCEPT ![p] = g]
    BY DEF Join
  <1>5. queue'[p] = g
    BY <1>4 DEF IInv, TypeOK
  <1>6. \A i \in Places : g[i] = IF i = k THEN h ELSE f[i]
    <2> HIDE DEF f, n, k, h
    <2> QED
      BY <1>1
  <1>7. HasLength(g, n + 1)
    <2> HIDE DEF f, n, k, g
    <2> QED
      BY <1>1, <1>2, <1>3, <1>6 DEF HasLength, Places
  <1>8. QueueLength(g) = n + 1
    <2> HIDE DEF f, n, k, g
    <2> QED
      BY <1>7, LengthIsUnique
  <1>9. \A q \in Servers \ {p} : WaitingOf(q)' = WaitingOf(q)
    BY <1>4, ServiceSame DEF IInv, TypeOK
  <1>10. \A q \in Servers : ActiveOf(q)' = ActiveOf(q)
    BY DEF ActiveOf
  <1>11. WaitingOf(p) = w /\ WaitingOf(p)' = [i \in 1 .. n + 1 |-> g[i]]
    BY <1>5, <1>8 DEF WaitingOf
  <1>12. w \in Seq(Handles \cup {Invalid}) /\ Len(w) = n /\ [i \in 1 .. n + 1 |-> g[i]] = Append(w, h)
    <2> HIDE DEF f, n, k, g
    <2>1. \A i \in 1 .. n : i \in Places /\ i # k
      BY <1>2, <1>3 DEF Places
    <2>a. n \in Nat /\ \A i \in 1 .. n : f[i] \in Handles \cup {Invalid}
      BY <1>1, <1>3, <2>1
    <2>2. w \in Seq(Handles \cup {Invalid}) /\ Len(w) = n
      <3>1. w \in [1 .. n -> Handles \cup {Invalid}]
        BY <2>a
      <3> HIDE DEF w
      <3> QED
        BY <2>a, <3>1, FunctionIsSequence
    <2>3. \A i \in 1 .. n + 1 : g[i] = IF i = n + 1 THEN h ELSE f[i]
      BY <1>2, <1>3, <1>6, <2>1
    <2>4. \A i \in 1 .. n + 1 : g[i] = IF i = n + 1 THEN h ELSE w[i]
      BY <2>a, <2>3
    <2> HIDE DEF w
    <2>5. Append(w, h) = [i \in 1 .. n + 1 |-> IF i = n + 1 THEN h ELSE w[i]]
      BY <2>a, <2>2
    <2>6. [i \in 1 .. n + 1 |-> g[i]] = [i \in 1 .. n + 1 |-> IF i = n + 1 THEN h ELSE w[i]]
      BY <2>4
    <2> QED
      BY <2>2, <2>5, <2>6
  <1>13. h \in Handles /\ h \notin Fifo!InService
    <2>1. h \in Handles /\ h \in Held(p) /\ OneRole(p)
      BY HeldMembers DEF IInv, TypeOK, Holds, Roles
    <2>2. \A q \in Servers \ {p} : h \notin Held(q)
      BY <2>1 DEF IInv, Owned
    <2>3. \A q \in Servers : ActiveOf(q) # h
      BY <2>1, <2>2, HeldMembers, ServerFacts DEF ActiveOf, Holds, OneRole
    <2>4. ASSUME NEW q \in Servers, NEW i \in 1 .. Len(WaitingOf(q)), WaitingOf(q)[i] = h PROVE FALSE
      <3> DEFINE fq == queue[q]
                 m == QueueLength(fq)
      <3>1. ip_assigned[q]
        BY <2>4 DEF WaitingOf
      <3>2. HasLength(fq, m)
        BY <3>1, LengthOfQueue DEF QueueCompact, NoGaps
      <3>3. WaitingOf(q) = [j \in 1 .. m |-> fq[j]]
        BY <3>1 DEF WaitingOf
      <3>4. i \in Places /\ queue[q][i] = h
        <4> HIDE DEF fq, m, h
        <4>1. m \in Nat /\ m <= QueueSize /\ QueueSize \in Nat
          BY <3>2, ServerAssumption DEF HasLength
        <4>2. Len([j \in 1 .. m |-> fq[j]]) = m
          BY <4>1
        <4> QED
          BY <2>4, <3>3, <4>1, <4>2 DEF Places, fq
      <3>5. CASE q = p
        BY <2>1, <3>4, <3>5 DEF OneRole
      <3>6. CASE q # p
        BY <2>1, <2>2, <3>1, <3>4, <3>6, HeldMembers, ServerFacts DEF Holds
      <3> QED
        BY <3>5, <3>6
    <2> HIDE DEF h
    <2> QED
      BY <2>1, <2>3, <2>4 DEF Fifo!InService, Fifo!Waiting
  <1> HIDE DEF f, h, n, k, g, w
  <1>14. [q \in Servers |-> WaitingOf(q)'] = [[q \in Servers |-> WaitingOf(q)] EXCEPT ![p] = Append(w, h)]
    BY <1>9, <1>11, <1>12
  <1>15. [q \in Servers |-> WaitingOf(q)][p] = w /\ Len(w) < QueueSize
    BY <1>3, <1>11, <1>12
  <1>16. [q \in Servers |-> ActiveOf(q)'] = [q \in Servers |-> ActiveOf(q)]
    BY <1>10
  <1>17. Fifo!Enter(p, h)
    BY <1>13, <1>14, <1>15, <1>16 DEF Fifo!Enter
  <1> QED
    BY <1>17 DEF h

LEMMA FifoStep ==
  ASSUME IInv, QueueCompact, [Next]_vars
  PROVE  [Fifo!Next]_FifoVars
  <1>1. CASE UNCHANGED <<ip_assigned, socket, queue>>
    BY <1>1, FifoQuiet
  <1>2. CASE EndTick \/ Environment \/ UNCHANGED vars
    <2>1. UNCHANGED <<ip_assigned, socket, queue>>
      BY <1>2 DEF EndTick, Environment, Stack, NestedTick, LinkChange, SecondPasses, serverVars, vars
    <2> QED
      BY <1>1, <2>1
  <1>3. ASSUME NEW p \in Servers, NetworkUp(p) \/ AssignIp(p) PROVE UNCHANGED FifoVars
    <2>1. \A q \in Servers \ {p} : ActiveOf(q)' = ActiveOf(q) /\ WaitingOf(q)' = WaitingOf(q)
      BY <1>3, ServiceSame DEF NetworkUp, AssignIp, IInv, TypeOK
    <2>2. ActiveOf(p) = Invalid /\ WaitingOf(p) = <<>>
      BY <1>3 DEF NetworkUp, AssignIp, IInv, Prepared, ActiveOf, WaitingOf
    <2>3. ActiveOf(p)' = Invalid /\ WaitingOf(p)' = <<>>
      <3>1. CASE ~ip_assigned'[p]
        BY <3>1 DEF ActiveOf, WaitingOf
      <3>2. CASE ip_assigned'[p]
        <4>1. socket'[p] = Invalid /\ \A i \in Places : queue'[p][i] = Invalid
          BY <1>3, <3>2 DEF NetworkUp, AssignIp, IInv, TypeOK
        <4>2. HasLength(queue'[p], 0)
          BY <4>1, ServerAssumption DEF HasLength, Places
        <4>3. QueueLength(queue'[p]) = 0
          BY <4>2, LengthIsUnique
        <4>4. WaitingOf(p)' = [i \in 1 .. 0 |-> queue'[p][i]]
          BY <3>2, <4>3 DEF WaitingOf
        <4> QED
          BY <3>2, <4>1, <4>4 DEF ActiveOf
      <3> QED
        BY <3>1, <3>2
    <2> QED
      BY <2>1, <2>2, <2>3 DEF FifoVars
  <1>4. ASSUME NEW p \in Servers, ClosedByClient(p) PROVE Fifo!Drop(p)
    BY <1>4, FifoDrop DEF ClosedByClient, Serving
  <1>5. ASSUME NEW p \in Servers, Tasks(p) PROVE Fifo!Drop(p) \/ UNCHANGED <<ip_assigned, socket, queue>>
    <2>1. ip_assigned[p] /\ socket[p] # Invalid
      BY <1>5 DEF Tasks, TasksInit, TasksReturn, IInv, CallOK
    <2> QED
      BY <1>5, <2>1, FifoDrop DEF Tasks, TasksInit, TasksReturn
  <1>6. ASSUME NEW p \in Servers, Promote(p) PROVE Fifo!Start(p) \/ UNCHANGED <<ip_assigned, socket, queue>>
    BY <1>6, FifoStart DEF Promote
  <1>7. ASSUME NEW p \in Servers, Accept(p)
        PROVE  \/ Fifo!Enter(p, listening[p]) /\ listening[p] \in Handles
               \/ UNCHANGED <<ip_assigned, socket, queue>>
    BY <1>7, FifoEnter DEF Accept, Refuse, IInv, CallOK, TypeOK
  <1>8. ASSUME NEW p \in Servers, Disabled(p) \/ NoActive(p) \/ CheckTimeout(p) \/ Open(p)
        PROVE  UNCHANGED <<ip_assigned, socket, queue>>
    BY <1>8 DEF Disabled, NoActive, CheckTimeout, Open, serverVars
  <1> QED
    BY <1>1, <1>2, <1>3, <1>4, <1>5, <1>6, <1>7, <1>8 DEF Next, Program, Tcpip_server, Fifo!Next

(***************************************************************************)
(* However many servers, sockets and clients there are, tcpip_server       *)
(* serves the sockets it accepts one at a time and in the order in which   *)
(* they joined the queue, and each of them once.                           *)
(***************************************************************************)
THEOREM ServesInOrder == Spec => ImplementsFifo
  <1>1. IInv /\ QueueCompact /\ [Next]_vars => [Fifo!Next]_FifoVars
    BY FifoStep
  <1> QED
    BY <1>1, FifoInit, IInvAlways, QueueHasNoGaps, PTL DEF Spec, ImplementsFifo, Fifo!Spec, FifoVars
=============================================================================
