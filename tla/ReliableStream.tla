--------------------------- MODULE ReliableStream ---------------------------
(***************************************************************************)
(* What one direction of a TCP connection promises.  The bytes written are *)
(* numbered 1, 2, 3, ...; what has been read of them is a prefix: in the   *)
(* order of writing, without a gap, a repetition or a foreign byte.  The   *)
(* buffers on the way bound what is written ahead of what is read.         *)
(***************************************************************************)
EXTENDS Naturals, Sequences

CONSTANT Capacity

VARIABLES written, read

Init == written = 0 /\ read = <<>>

Write == /\ \E n \in 1 .. Capacity : written' = written + n
         /\ written' - Len(read) <= Capacity
         /\ UNCHANGED read

Read == /\ \E n \in 1 .. Capacity : read' = read \o [i \in 1 .. n |-> Len(read) + i]
        /\ Len(read') <= written
        /\ UNCHANGED written

Next == Write \/ Read

Spec == Init /\ [][Next]_<<written, read>>
=============================================================================
