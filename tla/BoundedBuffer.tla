---------------------------- MODULE BoundedBuffer ----------------------------
(***************************************************************************)
(* What a producer/consumer program promises: a store of at most Capacity  *)
(* units, to which units are added one at a time and from which they are   *)
(* taken one at a time.                                                    *)
(***************************************************************************)
EXTENDS Naturals

CONSTANT Capacity

VARIABLE level   \* the number of units in the store

Init == level = 0

Put == level < Capacity /\ level' = level + 1

Get == level > 0 /\ level' = level - 1

Next == Put \/ Get

Spec == Init /\ [][Next]_level
=============================================================================
