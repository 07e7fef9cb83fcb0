------------------------------- MODULE RouteMap -------------------------------
(***************************************************************************)
(* What a routing table promises: at most one route for each destination,  *)
(* the one that was inserted or updated last.                              *)
(***************************************************************************)
EXTENDS Integers

CONSTANTS Dests, Routes, NoRoute

VARIABLES
  table,
  call, rc   \* the last call, with its destination and route, and its result

Init == table = [d \in Dests |-> NoRoute] /\ call = <<>> /\ rc = 0

Insert(d, r) ==
  /\ call' = <<"insert", d, r>>
  /\ IF table[d] = NoRoute
     THEN table' = [table EXCEPT ![d] = r] /\ rc' = 0
     ELSE UNCHANGED table /\ rc' = -1

Delete(d) ==
  /\ call' = <<"delete", d>>
  /\ IF table[d] # NoRoute
     THEN table' = [table EXCEPT ![d] = NoRoute] /\ rc' = 0
     ELSE UNCHANGED table /\ rc' = -1

Update(d, r) ==
  /\ call' = <<"update", d, r>>
  /\ IF table[d] \notin {NoRoute, r}
     THEN table' = [table EXCEPT ![d] = r] /\ rc' = 0
     ELSE UNCHANGED table /\ rc' = -1

Next ==
  \E d \in Dests : Delete(d) \/ \E r \in Routes : Insert(d, r) \/ Update(d, r)

Spec == Init /\ [][Next]_<<table, call, rc>>

=============================================================================
