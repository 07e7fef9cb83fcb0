-------------------------------- MODULE Fifo --------------------------------
(***************************************************************************)
(* What a bounded queue promises: elements leave in the order in which     *)
(* they came, a full queue refuses one, an empty one has none to give.     *)
(***************************************************************************)
EXTENDS Naturals, Sequences

CONSTANTS Elems, NULL, Capacity

VARIABLES
  items,
  result   \* of the last operation

Init == items = <<>> /\ result = NULL

Put(e) ==
  \/ Len(items) < Capacity /\ items' = Append(items, e) /\ result' = TRUE
  \/ Len(items) = Capacity /\ UNCHANGED items /\ result' = FALSE

Get ==
  \/ items # <<>> /\ items' = Tail(items) /\ result' = Head(items)
  \/ items = <<>> /\ UNCHANGED items /\ result' = NULL

Next == (\E e \in Elems : Put(e)) \/ Get

Spec == Init /\ [][Next]_<<items, result>>

=============================================================================
