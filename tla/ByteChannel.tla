---------------------------- MODULE ByteChannel ----------------------------
(***************************************************************************)
(* What a ring buffer between an interrupt handler and the main program    *)
(* promises.  The bytes offered to it are numbered 1, 2, 3, ... as it      *)
(* takes them; "out" is the last byte that came out.  They come out one by *)
(* one in the order they went in, and a byte is turned away only when the  *)
(* channel is full.                                                        *)
(***************************************************************************)
EXTENDS Naturals

CONSTANT Capacity

VARIABLES in, out, lost

Init == in = 0 /\ out = 0 /\ lost = 0

Put == /\ in < out + Capacity
       /\ in' = in + 1
       /\ UNCHANGED <<out, lost>>

Get == /\ out < in
       /\ out' = out + 1
       /\ UNCHANGED <<in, lost>>

Lose == /\ in = out + Capacity
        /\ lost' = lost + 1
        /\ UNCHANGED <<in, out>>

Next == Put \/ Get \/ Lose

Spec == Init /\ [][Next]_<<in, out, lost>>
=============================================================================
