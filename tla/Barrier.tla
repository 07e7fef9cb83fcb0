------------------------------- MODULE Barrier -------------------------------
(***************************************************************************)
(* src/IPC/IPC/pthreads/barrier.c and the pool of blocked threads of       *)
(* threadApi.c.  A thread that finds LIMIT_BARRIER threads in the critical *)
(* section puts itself into the pool and sleeps in wait(); a thread that   *)
(* leaves signals one of the pool and goes round its loop.                 *)
(*                                                                         *)
(* A section under pool_mutex is one step: it changes one slot.  The scan  *)
(* of the pool does not take that mutex and is a step for every slot; its  *)
(* variables are those of the thread that holds the other mutex.  It reads *)
(* a slot twice or once, as the compiler likes.                            *)
(***************************************************************************)
EXTENDS ThreadApi, Integers, FiniteSets

CONSTANTS LIMIT_BARRIER, POOL_SIZE

ASSUME BarrierAssumption ==
  /\ IsFiniteSet(Threads)
  /\ LIMIT_BARRIER \in Nat \ {0}
  /\ POOL_SIZE \in Nat \ {0}
  /\ Cardinality(Threads) <= POOL_SIZE   \* so that every selfid fits the pool
  /\ Mutexes = {"n_concurrent_threads_mutex", "CS_mutex"}

VARIABLES
  n_concurrent_threads,
  pool,         \* gl_block_pool.blocked_thread_collection
  cursor,       \* the slot get_blocked_thread_from_pool() is at
  next_thread,
  pc

poolVars == <<cursor, next_thread>>
vars == <<apiVars, n_concurrent_threads, pool, poolVars, pc>>

NM == "n_concurrent_threads_mutex"
CM == "CS_mutex"
Slots == 0 .. POOL_SIZE - 1

Init ==
  /\ ApiInit
  /\ n_concurrent_threads = 0
  /\ pool = [i \in Slots |-> NoThread]
  /\ cursor = 0 /\ next_thread = NoThread
  /\ pc = [t \in Threads |-> "lock"]

Goto(t, l) == pc' = [pc EXCEPT ![t] = l]

-----------------------------------------------------------------------------
(* Entering and leaving the critical section                               *)

\* Mutant of Lock: the mutex is not taken.
MutLock(t) ==
  /\ \/ pc[t] = "lock" /\ Goto(t, "test")
     \/ pc[t] = "lock_exit" /\ Goto(t, "leave")
  /\ UNCHANGED <<apiVars, n_concurrent_threads, pool, poolVars>>

Lock(t) ==
  /\ MutexLock(t, NM)
  /\ \/ pc[t] = "lock" /\ Goto(t, "test")
     \/ pc[t] = "lock_exit" /\ Goto(t, "leave")
  /\ UNCHANGED <<condVars, n_concurrent_threads, pool, poolVars>>

Test(t) ==
  /\ pc[t] = "test"
  /\ \/ /\ n_concurrent_threads < LIMIT_BARRIER
        /\ Goto(t, "enter")
        /\ UNCHANGED holder
     \/ /\ n_concurrent_threads >= LIMIT_BARRIER
        /\ MutexUnlock(NM)
        /\ Goto(t, "add")
  /\ UNCHANGED <<condVars, n_concurrent_threads, pool, poolVars>>

EnterCS(t) ==
  /\ pc[t] = "enter"
  /\ n_concurrent_threads' = n_concurrent_threads + 1
  /\ MutexUnlock(NM)
  /\ Goto(t, "CS")
  /\ UNCHANGED <<condVars, pool, poolVars>>

EndCS(t) ==
  /\ pc[t] = "CS"
  /\ Goto(t, "lock_exit")
  /\ UNCHANGED <<apiVars, n_concurrent_threads, pool, poolVars>>

\* Mutant of LeaveCS: the count stays.
MutLeaveCSUncounted(t) ==
  /\ pc[t] = "leave"
  /\ cursor' = POOL_SIZE - 1
  /\ Goto(t, "scan")
  /\ UNCHANGED <<apiVars, n_concurrent_threads, pool, next_thread>>

\* The count goes down; it is below the limit then, and the pool is searched.
LeaveCS(t) ==
  /\ pc[t] = "leave"
  /\ n_concurrent_threads' = n_concurrent_threads - 1
  /\ cursor' = POOL_SIZE - 1
  /\ Goto(t, "scan")
  /\ UNCHANGED <<apiVars, pool, next_thread>>

\* get_blocked_thread_from_pool(), from the last slot down.
ScanSlot(t) ==
  /\ pc[t] = "scan"
  /\ \/ /\ pool[cursor] = NoThread
        /\ cursor > 0
        /\ cursor' = cursor - 1
        /\ UNCHANGED <<next_thread, pc>>
     \/ /\ pool[cursor] = NoThread
        /\ cursor = 0
        /\ Goto(t, "unlock_exit")
        /\ UNCHANGED poolVars
     \/ /\ pool[cursor] # NoThread
        /\ next_thread' = pool[cursor]
        /\ Goto(t, "signal")
        /\ UNCHANGED cursor
     \/ /\ pool[cursor] # NoThread
        /\ Goto(t, "reread")
        /\ UNCHANGED poolVars
  /\ UNCHANGED <<apiVars, n_concurrent_threads, pool>>

\* The slot is read again for the result, which may be NULL by now.
RereadSlot(t) ==
  /\ pc[t] = "reread"
  /\ next_thread' = pool[cursor]
  /\ Goto(t, IF pool[cursor] = NoThread THEN "unlock_exit" ELSE "signal")
  /\ UNCHANGED <<apiVars, n_concurrent_threads, pool, cursor>>

SendSignal(t) ==
  /\ pc[t] = "signal"
  /\ SignalCond(next_thread)
  /\ Goto(t, "record")
  /\ UNCHANGED <<holder, n_concurrent_threads, pool, poolVars>>

RecordSignal(t) ==
  /\ pc[t] = "record"
  /\ SignalRecord(t, next_thread)
  /\ Goto(t, "unlock_exit")
  /\ UNCHANGED <<holder, n_concurrent_threads, pool, poolVars>>

\* The release, and the next round of the loop.
UnlockExit(t) ==
  /\ pc[t] = "unlock_exit"
  /\ MutexUnlock(NM)
  /\ Goto(t, "lock")
  /\ cursor' = 0 /\ next_thread' = NoThread
  /\ UNCHANGED <<condVars, n_concurrent_threads, pool>>

-----------------------------------------------------------------------------
(* The pool and the sleep                                                  *)

InPool(t) == \E i \in Slots : pool[i] = t
Empty(i) == pool[i] = NoThread

\* add_thread_to_pool() takes the last empty slot; a thread that is in the pool
\* already, or finds it full, fails the assertion.
AddToPool(t) ==
  /\ pc[t] = "add"
  /\ IF ~InPool(t) /\ \E i \in Slots : Empty(i)
     THEN /\ \E i \in Slots :
               /\ Empty(i) /\ \A j \in Slots : Empty(j) => j <= i
               /\ pool' = [pool EXCEPT ![i] = t]
          /\ Goto(t, "wait")
     ELSE Goto(t, "assert") /\ UNCHANGED pool
  /\ UNCHANGED <<apiVars, n_concurrent_threads, poolVars>>

EnterWait(t) ==
  /\ pc[t] = "wait"
  /\ WaitLock(t, CM)
  /\ Goto(t, "sleep")
  /\ UNCHANGED <<n_concurrent_threads, pool, poolVars>>

FallAsleep(t) ==
  /\ pc[t] = "sleep"
  /\ WaitSleep(t, CM)
  /\ Goto(t, "asleep")
  /\ UNCHANGED <<n_concurrent_threads, pool, poolVars>>

WakeUp(t) ==
  /\ pc[t] = "asleep"
  /\ WaitWake(t, CM)
  /\ Goto(t, "unlock")
  /\ UNCHANGED <<n_concurrent_threads, pool, poolVars>>

\* wait() releases CS_mutex, and so does its caller once more.
Unlock(t) ==
  /\ \/ pc[t] = "unlock" /\ Goto(t, "unlock_again")
     \/ pc[t] = "unlock_again" /\ Goto(t, "remove")
  /\ WaitUnlock(t, CM)
  /\ UNCHANGED <<n_concurrent_threads, pool, poolVars>>

\* Mutant of RemoveFromPool: the thread stays in the pool.
MutRemoveNothing(t) ==
  /\ pc[t] = "remove"
  /\ Goto(t, "lock")
  /\ UNCHANGED <<apiVars, n_concurrent_threads, pool, poolVars>>

RemoveFromPool(t) ==
  /\ pc[t] = "remove"
  /\ pool' = [i \in Slots |-> IF pool[i] = t THEN NoThread ELSE pool[i]]
  /\ Goto(t, "lock")
  /\ UNCHANGED <<apiVars, n_concurrent_threads, poolVars>>

Spurious(t) ==
  /\ SpuriousWakeup(t)
  /\ UNCHANGED <<n_concurrent_threads, pool, poolVars, pc>>

-----------------------------------------------------------------------------
Section(t) == Lock(t) \/ Test(t) \/ EnterCS(t) \/ EndCS(t) \/ LeaveCS(t)

Wakener(t) ==
  ScanSlot(t) \/ RereadSlot(t) \/ SendSignal(t) \/ RecordSignal(t) \/ UnlockExit(t)

Sleeper(t) ==
  \/ AddToPool(t) \/ EnterWait(t) \/ FallAsleep(t) \/ WakeUp(t) \/ Unlock(t)
  \/ RemoveFromPool(t)

CS(t) == Section(t) \/ Wakener(t) \/ Sleeper(t)

Next == \E t \in Threads : CS(t) \/ Spurious(t)

Spec == Init /\ [][Next]_vars

\* Every thread that can run is scheduled; nothing has to wake a sleeper.
FairSpec == Spec /\ \A t \in Threads : WF_vars(CS(t))

-----------------------------------------------------------------------------
Locations ==
  {"lock", "test", "enter", "CS", "lock_exit", "leave", "scan", "reread", "signal", "record",
   "unlock_exit", "add", "wait", "sleep", "asleep", "unlock", "unlock_again", "remove",
   "assert"}

TypeOK ==
  /\ ApiTypeOK
  /\ n_concurrent_threads \in 0 .. LIMIT_BARRIER
  /\ pool \in [Slots -> Threads \cup {NoThread}]
  /\ cursor \in Slots
  /\ next_thread \in Threads \cup {NoThread}
  /\ pc \in [Threads -> Locations]

\* The threads that hold the mutex of the count.
HoldsCount ==
  {t \in Threads : pc[t] \in {"test", "enter", "leave", "scan", "reread", "signal", "record",
                              "unlock_exit"}}

\* The count's mutex is free exactly when nobody is in a part it guards.
LockDiscipline == HoldsCount = {holder[NM]} \ {NoThread}

Inside == {t \in Threads : pc[t] \in {"CS", "lock_exit", "leave"}}

\* The count is the number of the threads in the critical section.
CountIsExact == n_concurrent_threads = Cardinality(Inside)

\* Never more than LIMIT_BARRIER threads are in the critical section, and they
\* come and go one at a time.
Limit == INSTANCE Semaphore WITH inside <- Inside
ImplementsSemaphore == Limit!Spec

\* The parts in which a thread has given up on the section and not tried again.
Blocked == {t \in Threads : pc[t] \in {"add", "wait", "sleep", "asleep"}}

\* Although a signal may be lost, the threads never all end up asleep.
SomeoneRuns == Threads # {} => Blocked # Threads

\* "assert(0)": adding a thread to the pool does not fail, whether the pool is
\* full or the thread is in it already.
PoolAddSucceeds == \A t \in Threads : pc[t] # "assert"

\* The section is entered again and again, whatever signals are lost.
SectionIsUsed == []<>(Inside # {})

=============================================================================
