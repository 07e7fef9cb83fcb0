------------------------------ MODULE MCBarrier ------------------------------
(***************************************************************************)
(* Instances of Barrier for TLC: three threads, of which one or two may be *)
(* in the critical section, instead of ten and four.                       *)
(***************************************************************************)
EXTENDS Barrier

MCMutexes == {"n_concurrent_threads_mutex", "CS_mutex"}
=============================================================================
