------------------------------- MODULE Watcher -------------------------------
(***************************************************************************)
(* src/IPC/IPC/pthreads/Mutexes/conditionalVariables.c: two threads that   *)
(* increment count, and signal when it reaches a multiple of COUNT_LIMIT,  *)
(* and one that waits until it is large enough and adds to it whenever it  *)
(* wakes up.  count_mutex is held for the whole of an increment, and by    *)
(* the watcher from a test to its sleep: each is one step.                 *)
(***************************************************************************)
EXTENDS Integers

CONSTANTS
  TCOUNT, COUNT_LIMIT, UPDATE,   \* 10, 15, 125
  MAX_WAKES                      \* bound: how often the watcher wakes up for no reason

ASSUME WatcherAssumption ==
  TCOUNT \in Nat /\ COUNT_LIMIT \in Nat \ {0} /\ UPDATE \in Nat /\ MAX_WAKES \in Nat

\* What EndsOnlyByChance rests on, and the three numbers of the program satisfy:
\* the increments alone reach the limit once, the update does not reach the end,
\* and what the threads can count from the update on is no multiple of the limit.
ASSUME LimitsAssumption ==
  /\ TCOUNT < COUNT_LIMIT /\ 2 * TCOUNT + UPDATE < 10 * COUNT_LIMIT
  /\ \A n \in COUNT_LIMIT + UPDATE + 1 .. 2 * TCOUNT + UPDATE : n % COUNT_LIMIT # 0

VARIABLES
  count,
  done,       \* how often each thread has incremented
  watch_at,   \* where the watcher is
  updates,    \* how often it has added to count
  wakes       \* how often it woke up for no reason

watchVars == <<count, done, watch_at, updates, wakes>>

Counters == {2, 3}

WatchInit ==
  /\ count = 0
  /\ done = [c \in Counters |-> 0]
  /\ watch_at = "test"
  /\ updates = 0
  /\ wakes = 0

\* Mutant of inc_count: a signal on every increment.
Mutinc_count(c) ==
  /\ done[c] < TCOUNT
  /\ count' = count + 1
  /\ done' = [done EXCEPT ![c] = @ + 1]
  /\ watch_at' = IF watch_at = "asleep" THEN "update" ELSE watch_at
  /\ UNCHANGED <<updates, wakes>>

inc_count(c) ==
  /\ done[c] < TCOUNT
  /\ count' = count + 1
  /\ done' = [done EXCEPT ![c] = @ + 1]
  /\ watch_at' = IF count' % COUNT_LIMIT = 0 /\ watch_at = "asleep" THEN "update" ELSE watch_at
  /\ UNCHANGED <<updates, wakes>>

Test ==
  /\ watch_at = "test"
  /\ watch_at' = IF count < COUNT_LIMIT * 10 THEN "asleep" ELSE "done"
  /\ UNCHANGED <<count, done, updates, wakes>>

\* The update, and the test that follows in the same hold of the mutex.
Update ==
  /\ watch_at = "update"
  /\ count' = count + UPDATE
  /\ updates' = updates + 1
  /\ watch_at' = IF count' < COUNT_LIMIT * 10 THEN "asleep" ELSE "done"
  /\ UNCHANGED <<done, wakes>>

WakeUpEarly ==
  /\ watch_at = "asleep"
  /\ wakes < MAX_WAKES
  /\ wakes' = wakes + 1
  /\ watch_at' = "update"
  /\ UNCHANGED <<count, done, updates>>

watch_count == Test \/ Update

WatchNext == (\E c \in Counters : inc_count(c)) \/ watch_count \/ WakeUpEarly

WatchSpec == WatchInit /\ [][WatchNext]_watchVars

\* Every thread that can run is scheduled; nothing makes a wake-up happen.
WatchFairSpec ==
  /\ WatchSpec
  /\ \A c \in Counters : WF_watchVars(inc_count(c))
  /\ WF_watchVars(watch_count)

-----------------------------------------------------------------------------
WatchTypeOK ==
  /\ count \in Nat
  /\ done \in [Counters -> 0 .. TCOUNT]
  /\ watch_at \in {"test", "asleep", "update", "done"}
  /\ updates \in Nat
  /\ wakes \in 0 .. MAX_WAKES

\* The watcher ends, and main() with it, only if it woke up for no reason: the
\* one signal that can reach it leaves the count below its limit for good.
EndsOnlyByChance == watch_at = "done" => wakes > 0

\* "The program continues until the incrementing threads reach TCOUNT. The main
\* program prints the final value of count" (21), and the loop is skipped "to
\* prevent pthread_cond_wait from never returning" (78): the watcher ends.
WatcherEnds == <>(watch_at = "done")

=============================================================================
