------------------------------ MODULE Semaphore ------------------------------
(***************************************************************************)
(* What src/IPC/IPC/pthreads/barrier.c promises its critical section: at   *)
(* most LIMIT_BARRIER threads are inside, and threads come and go one at a *)
(* time.                                                                   *)
(***************************************************************************)
EXTENDS Integers, FiniteSets

CONSTANTS Threads, LIMIT_BARRIER

VARIABLE inside

Init == inside = {}

Enter(t) ==
  /\ t \notin inside
  /\ Cardinality(inside) < LIMIT_BARRIER
  /\ inside' = inside \cup {t}

Leave(t) ==
  /\ t \in inside
  /\ inside' = inside \ {t}

Next == \E t \in Threads : Enter(t) \/ Leave(t)

Spec == Init /\ [][Next]_inside

=============================================================================
