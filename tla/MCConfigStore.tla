--------------------------- MODULE MCConfigStore ---------------------------
(* Instances of ConfigStore for TLC.                                       *)
EXTENDS ConfigStore

MCPasswords == {"LWDAQ", "other"}
LevelEdits == {[seclevel |-> 2], [seclevel |-> 1]}
PasswordEdits == {[password |-> "other"]}
SomeEdits == LevelEdits \cup PasswordEdits
=============================================================================
