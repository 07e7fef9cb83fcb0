------------------------------ MODULE LinkedList ------------------------------
(***************************************************************************)
(* src/IPC/IPC/GENERIC_SHM_LOCAL/LinkedList/LinkedListApi.c: a singly      *)
(* linked list of pointers to data, newest first.                          *)
(*                                                                         *)
(* An inner node is removed by moving its successor's pointer into it and  *)
(* freeing the successor together with the data that pointer still names.  *)
(* Data freed twice ends the program.  After the removal of the last node  *)
(* singly_ll_remove_node_by_value() reads the freed node: it finds the end *)
(* of the list, or anything.                                               *)
(***************************************************************************)
EXTENDS Integers, Sequences, FiniteSets

CONSTANTS
  Data,        \* the pointers callers add
  MAX_LENGTH   \* bound

ASSUME ListAssumption == MAX_LENGTH \in Nat

VARIABLES
  list,        \* the data of the nodes, from the head
  node_count,
  freed,       \* data that was freed
  faulted,     \* the program has used a freed block
  removal      \* history: the last call of singly_ll_remove_node_by_value()

listVars == <<list, node_count, freed, faulted, removal>>

NoRemoval == [of |-> "none"]

ListInit ==
  /\ list = <<>>
  /\ node_count = 0
  /\ freed = {}
  /\ faulted = FALSE
  /\ removal = NoRemoval

Without(s, i) == SubSeq(s, 1, i - 1) \o SubSeq(s, i + 1, Len(s))

singly_ll_add_node_by_val(d) ==
  /\ ~faulted
  /\ node_count < MAX_LENGTH
  /\ d \notin freed
  /\ list' = <<d>> \o list
  /\ node_count' = node_count + 1
  /\ removal' = NoRemoval
  /\ UNCHANGED <<freed, faulted>>

\* What singly_ll_remove_node() frees of the data when it removes node i of s.
Frees(s, i) ==
  IF i < Len(s) THEN {s[i + 1]} ELSE IF i > 1 THEN {s[i]} ELSE {}

\* The body of the loop at node i, if it gets there; r.dead is the data that is
\* freed.  "bad" is a block freed twice, "end" the removal of the last node.
Visit(r, i, d) ==
  IF r.how # "done" \/ i > Len(r.list) \/ r.list[i] # d THEN r
  ELSE IF Frees(r.list, i) \cap r.dead # {} THEN [r EXCEPT !.how = "bad"]
  ELSE [list |-> Without(r.list, i),
        dead |-> r.dead \cup Frees(r.list, i),
        how |-> IF i = Len(r.list) THEN "end" ELSE "done"]

\* The loop: a node that took its successor's place is not looked at again.
Sweep(d) ==
  LET after[i \in 0 .. Len(list)] ==
        IF i = 0 THEN [list |-> list, dead |-> freed, how |-> "done"] ELSE Visit(after[i - 1], i, d)
  IN  after[Len(list)]

\* Mutant of singly_ll_remove_node_by_value: the count of the nodes stays.
Mutsingly_ll_remove_node_by_value(d) ==
  LET r == Sweep(d) IN
  /\ ~faulted /\ list # <<>>
  /\ list' = r.list
  /\ freed' = r.dead
  /\ faulted' = (r.how # "done")
  /\ removal' = [of |-> d, from |-> list]
  /\ UNCHANGED node_count

singly_ll_remove_node_by_value(d) ==
  LET r == Sweep(d) IN
  /\ ~faulted /\ list # <<>>
  /\ list' = r.list
  /\ node_count' = node_count - (Len(list) - Len(r.list))
  /\ freed' = r.dead
  /\ \/ r.how # "bad" /\ faulted' = FALSE
     \/ r.how # "done" /\ faulted' = TRUE
  /\ removal' = [of |-> d, from |-> list]

reverse_singly_ll ==
  /\ ~faulted
  /\ list' = [i \in 1 .. Len(list) |-> list[Len(list) + 1 - i]]
  /\ removal' = NoRemoval
  /\ UNCHANGED <<node_count, freed, faulted>>

ListNext ==
  \/ \E d \in Data : singly_ll_add_node_by_val(d) \/ singly_ll_remove_node_by_value(d)
  \/ reverse_singly_ll

ListSpec == ListInit /\ [][ListNext]_listVars

-----------------------------------------------------------------------------
\* The nodes i of s that end an even number of equal neighbours.
RunOf(s, i) == Cardinality({j \in 1 .. i : \A n \in j .. i : s[n] = s[i]})
Kept(s, d) == {i \in 1 .. Len(s) : s[i] # d \/ RunOf(s, i) % 2 = 0}

\* node_count is the length of the list, and a removal by value takes every
\* other node of a run of equal ones and leaves the rest in order, whatever
\* order of calls led there.
RemovesEveryOther ==
  ~faulted =>
    /\ node_count = Len(list)
    /\ removal # NoRemoval =>
         LET s == removal.from
             kept == Kept(s, removal.of)
         IN  /\ Len(list) = Cardinality(kept)
             /\ \A i \in kept : list[Cardinality({j \in kept : j <= i})] = s[i]

=============================================================================
