--------------------------- MODULE MessageService ---------------------------
(***************************************************************************)
(* What the LWDAQ server promises a client: its messages are obeyed one by *)
(* one, once each and in the order in which they were sent.  A message     *)
(* that is malformed, or that the client may not send before it has given  *)
(* the password, is not obeyed, and nothing that comes after it is.  What  *)
(* one client has sent or proven is forgotten when its session is over.    *)
(***************************************************************************)
EXTENDS Naturals, Sequences

CONSTANTS
    Messages,            \* what can arrive
    WellFormed(_),       \* the message is one the server can obey
    Needs(_),            \* the security level from which it needs the password
    Levels,              \* the security levels there are
    IsLogin(_),          \* the message offers a password
    GivesPassword(_)     \* it is the right one

VARIABLES
    todo,       \* messages that have arrived and are not yet obeyed
    done,       \* those obeyed in this session
    proven,     \* the last password offered in this session was right
    level       \* the security level in force

vars == <<todo, done, proven, level>>

Init == todo = <<>> /\ done = <<>> /\ proven = FALSE /\ level \in Levels

(* One more message is at the end.                                         *)
Arrive == /\ todo' # <<>> /\ todo = SubSeq(todo', 1, Len(todo') - 1)
          /\ todo'[Len(todo')] \in Messages
          /\ UNCHANGED <<done, proven, level>>

Allowed(m) == WellFormed(m) /\ (level >= Needs(m) => proven)

Obey == /\ todo # <<>> /\ Allowed(Head(todo))
        /\ todo' = Tail(todo)
        /\ done' = Append(done, Head(todo))
        /\ proven' = IF IsLogin(Head(todo)) THEN GivesPassword(Head(todo)) ELSE proven
        /\ UNCHANGED level

Forgotten == todo' = <<>> /\ done' = <<>> /\ proven' = FALSE
Over == Forgotten /\ UNCHANGED level
(* The level changes only when the server starts again.                    *)
Restart == Forgotten /\ level' \in Levels

Next == Arrive \/ Obey \/ Over \/ Restart

Spec == Init /\ [][Next]_vars
=============================================================================
