--------------------------- MODULE Barrier_proofs ---------------------------
(***************************************************************************)
(* What Barrier guarantees for any number of threads and any limit: it     *)
(* implements the counting semaphore, the count is exact, the threads      *)
(* never all sleep, and the pool never overflows.                          *)
(***************************************************************************)
EXTENDS Barrier, FiniteSetTheorems, TLAPS

\* A thread that is about to enter has found room, and nobody has taken it.
EnterInv == \A t \in Threads : pc[t] = "enter" => n_concurrent_threads < LIMIT_BARRIER

\* The parts in which a thread is in the pool.
Pooled == {"wait", "sleep", "asleep", "unlock", "unlock_again", "remove"}

\* A thread is in the pool exactly when it should be, and once.
PoolInv ==
  /\ \A t \in Threads : InPool(t) <=> pc[t] \in Pooled
  /\ \A i, j \in Slots : pool[i] = pool[j] /\ pool[i] # NoThread => i = j

IInv ==
  /\ TypeOK /\ LockDiscipline /\ EnterInv /\ CountIsExact /\ PoolInv /\ SomeoneRuns
  /\ PoolAddSucceeds

-----------------------------------------------------------------------------
\* The critical section holds a finite number of threads.
LEMMA InsideIsFinite ==
  ASSUME NEW S, S \subseteq Threads
  PROVE  IsFiniteSet(S) /\ Cardinality(S) \in Nat
  BY BarrierAssumption, FS_Subset, FS_CardinalityType

\* Initially nobody is inside, asleep or in the pool.
LEMMA InitIInv == Init => IInv
  <1> SUFFICES ASSUME Init PROVE IInv
    OBVIOUS
  <1> USE BarrierAssumption, NoThreadAssumption DEF Init, ApiInit
  <1>1. CountIsExact
    <2>1. Inside = {}
      BY DEF Inside
    <2> QED
      BY <2>1, FS_EmptySet DEF CountIsExact
  <1>2. TypeOK
    BY DEF TypeOK, ApiTypeOK, Locations, Slots
  <1>3. LockDiscipline /\ EnterInv
    BY DEF LockDiscipline, HoldsCount, EnterInv, NM
  <1>4. PoolInv
    BY DEF PoolInv, InPool, Pooled, Slots
  <1>5. SomeoneRuns /\ PoolAddSucceeds
    BY DEF SomeoneRuns, Blocked, PoolAddSucceeds
  <1> QED
    BY <1>1, <1>2, <1>3, <1>4, <1>5 DEF IInv

-----------------------------------------------------------------------------
\* Only entering and leaving move a thread across the border of the section.
LEMMA QuietStep ==
  ASSUME IInv, NEW t \in Threads, CS(t) \/ Spurious(t), ~EnterCS(t), ~LeaveCS(t)
  PROVE  UNCHANGED n_concurrent_threads /\ Inside' = Inside
  <1> USE DEF IInv, TypeOK, Goto, Inside
  <1>1. CASE Lock(t) \/ Test(t) \/ EndCS(t)
    BY <1>1 DEF Lock, Test, EndCS
  <1>2. CASE ScanSlot(t) \/ RereadSlot(t)
    BY <1>2 DEF ScanSlot, RereadSlot
  <1>3. CASE SendSignal(t) \/ RecordSignal(t) \/ UnlockExit(t)
    BY <1>3 DEF SendSignal, RecordSignal, UnlockExit
  <1>4. CASE AddToPool(t) \/ RemoveFromPool(t)
    BY <1>4 DEF AddToPool, RemoveFromPool
  <1>5. CASE EnterWait(t) \/ FallAsleep(t) \/ WakeUp(t) \/ Unlock(t)
    BY <1>5 DEF EnterWait, FallAsleep, WakeUp, Unlock
  <1>6. CASE Spurious(t)
    BY <1>6 DEF Spurious
  <1> QED
    BY <1>1, <1>2, <1>3, <1>4, <1>5, <1>6 DEF CS, Section, Wakener, Sleeper

\* Who enters was outside, finds room and is inside then.
LEMMA EnterStep ==
  ASSUME IInv, NEW t \in Threads, EnterCS(t)
  PROVE  /\ t \notin Inside /\ Inside' = Inside \cup {t}
         /\ Cardinality(Inside) < LIMIT_BARRIER
         /\ CountIsExact' /\ n_concurrent_threads' \in 0 .. LIMIT_BARRIER
  <1>1. t \notin Inside /\ Inside' = Inside \cup {t}
    BY DEF IInv, TypeOK, Goto, Inside, EnterCS
  <1>2. n_concurrent_threads < LIMIT_BARRIER /\ n_concurrent_threads' = n_concurrent_threads + 1
    BY DEF IInv, EnterInv, EnterCS
  <1>3. Cardinality(Inside') = Cardinality(Inside) + 1
    BY <1>1, InsideIsFinite, FS_AddElement DEF Inside
  <1> QED
    BY <1>1, <1>2, <1>3, BarrierAssumption DEF IInv, TypeOK, CountIsExact

\* Who leaves was inside.
LEMMA LeaveStep ==
  ASSUME IInv, NEW t \in Threads, LeaveCS(t)
  PROVE  /\ t \in Inside /\ Inside' = Inside \ {t}
         /\ CountIsExact' /\ n_concurrent_threads' \in 0 .. LIMIT_BARRIER
  <1>1. t \in Inside /\ Inside' = Inside \ {t}
    BY DEF IInv, TypeOK, Goto, Inside, LeaveCS
  <1>2. n_concurrent_threads' = n_concurrent_threads - 1
    BY DEF LeaveCS
  <1>3. Cardinality(Inside') = Cardinality(Inside) - 1
    BY <1>1, InsideIsFinite, FS_RemoveElement DEF Inside
  <1>4. Cardinality(Inside') \in Nat
    BY <1>1, InsideIsFinite DEF Inside
  <1> QED
    BY <1>1, <1>2, <1>3, <1>4, BarrierAssumption DEF IInv, TypeOK, CountIsExact

\* The count follows every step, and stays in its range.
LEMMA NextCount ==
  ASSUME IInv, NEW t \in Threads, CS(t) \/ Spurious(t)
  PROVE  CountIsExact' /\ n_concurrent_threads' \in 0 .. LIMIT_BARRIER
  <1>1. CASE EnterCS(t)
    BY <1>1, EnterStep
  <1>2. CASE LeaveCS(t)
    BY <1>2, LeaveStep
  <1>3. CASE ~EnterCS(t) /\ ~LeaveCS(t)
    BY <1>3, QuietStep DEF IInv, TypeOK, CountIsExact
  <1> QED
    BY <1>1, <1>2, <1>3

-----------------------------------------------------------------------------
\* The types of everything but the count.
LEMMA NextTypes ==
  ASSUME IInv, NEW t \in Threads, CS(t) \/ Spurious(t)
  PROVE  /\ ApiTypeOK' /\ pool' \in [Slots -> Threads \cup {NoThread}]
         /\ cursor' \in Slots /\ next_thread' \in Threads \cup {NoThread}
         /\ pc' \in [Threads -> Locations]
  <1> USE BarrierAssumption, NoThreadAssumption
      DEF IInv, TypeOK, ApiTypeOK, Goto, Locations, NM, CM, Slots, apiVars, condVars, poolVars,
          MutexLock, MutexUnlock
  <1>1. CASE Lock(t) \/ Test(t)
    BY <1>1 DEF Lock, Test
  <1>2. CASE EnterCS(t) \/ EndCS(t) \/ LeaveCS(t)
    BY <1>2 DEF EnterCS, EndCS, LeaveCS
  <1>3. CASE ScanSlot(t) \/ RereadSlot(t)
    BY <1>3 DEF ScanSlot, RereadSlot
  <1>4. CASE SendSignal(t)
    BY <1>4 DEF SendSignal, SignalCond
  <1>5. CASE RecordSignal(t)
    BY <1>5 DEF RecordSignal, SignalRecord
  <1>6. CASE UnlockExit(t)
    BY <1>6 DEF UnlockExit
  <1>7. CASE AddToPool(t)
    BY <1>7 DEF AddToPool
  <1>8. CASE RemoveFromPool(t)
    BY <1>8 DEF RemoveFromPool
  <1>9. CASE EnterWait(t)
    BY <1>9 DEF EnterWait, WaitLock
  <1>10. CASE FallAsleep(t)
    BY <1>10 DEF FallAsleep, WaitSleep
  <1>11. CASE WakeUp(t) \/ Unlock(t)
    BY <1>11 DEF WakeUp, Unlock, WaitWake, WaitUnlock
  <1>12. CASE Spurious(t)
    BY <1>12 DEF Spurious, SpuriousWakeup
  <1> QED
    BY <1>1, <1>2, <1>3, <1>4, <1>5, <1>6, <1>7, <1>8, <1>9, <1>10, <1>11, <1>12
       DEF CS, Section, Wakener, Sleeper

\* The count's mutex is taken when it is free and released by its holder; what
\* is done to CS_mutex does not touch it.
LEMMA NextLocks ==
  ASSUME IInv, NEW t \in Threads, CS(t) \/ Spurious(t)
  PROVE  LockDiscipline'
  <1> USE BarrierAssumption, NoThreadAssumption
      DEF IInv, TypeOK, ApiTypeOK, Goto, LockDiscipline, HoldsCount, NM, CM, apiVars, condVars,
          MutexLock, MutexUnlock
  <1>1. CASE Lock(t)
    BY <1>1 DEF Lock
  <1>2. CASE Test(t)
    BY <1>2 DEF Test
  <1>3. CASE EnterCS(t) \/ UnlockExit(t)
    BY <1>3 DEF EnterCS, UnlockExit
  <1>4. CASE EndCS(t) \/ LeaveCS(t)
    BY <1>4 DEF EndCS, LeaveCS
  <1>5. CASE ScanSlot(t) \/ RereadSlot(t)
    BY <1>5 DEF ScanSlot, RereadSlot
  <1>6. CASE SendSignal(t) \/ RecordSignal(t)
    BY <1>6 DEF SendSignal, RecordSignal
  <1>7. CASE AddToPool(t) \/ RemoveFromPool(t)
    BY <1>7 DEF AddToPool, RemoveFromPool
  <1>8. CASE EnterWait(t)
    BY <1>8 DEF EnterWait, WaitLock
  <1>9. CASE FallAsleep(t)
    BY <1>9 DEF FallAsleep, WaitSleep
  <1>10. CASE WakeUp(t) \/ Unlock(t)
    BY <1>10 DEF WakeUp, Unlock, WaitWake, WaitUnlock
  <1>11. CASE Spurious(t)
    BY <1>11 DEF Spurious, SpuriousWakeup
  <1> QED
    BY <1>1, <1>2, <1>3, <1>4, <1>5, <1>6, <1>7, <1>8, <1>9, <1>10, <1>11
       DEF CS, Section, Wakener, Sleeper

\* The room found is still there when the thread takes it, because the mutex is
\* held from the one to the other.
LEMMA NextEnter ==
  ASSUME IInv, NEW t \in Threads, CS(t) \/ Spurious(t)
  PROVE  EnterInv'
  <1> USE DEF IInv, TypeOK, Goto, EnterInv
  <1>1. CASE EnterCS(t) \/ LeaveCS(t)
    <2>1. \A q \in Threads : q # t => pc[q] # "enter"
      BY <1>1 DEF LockDiscipline, HoldsCount, EnterCS, LeaveCS
    <2>2. pc'[t] # "enter" /\ \A q \in Threads : q # t => pc'[q] = pc[q]
      BY <1>1 DEF EnterCS, LeaveCS
    <2> QED
      BY <2>1, <2>2
  <1>2. CASE Test(t)
    BY <1>2, BarrierAssumption DEF Test
  <1>3. CASE ~EnterCS(t) /\ ~LeaveCS(t) /\ ~Test(t)
    <2>1. UNCHANGED n_concurrent_threads
      BY <1>3, QuietStep
    <2>2. pc' = pc \/ (pc' = [pc EXCEPT ![t] = pc'[t]] /\ pc'[t] # "enter")
      BY <1>3 DEF CS, Section, Wakener, Sleeper, Lock, EndCS, ScanSlot, RereadSlot, SendSignal,
                  RecordSignal, UnlockExit, AddToPool, EnterWait, FallAsleep, WakeUp, Unlock,
                  RemoveFromPool, Spurious
    <2> QED
      BY <2>1, <2>2
  <1> QED
    BY <1>1, <1>2, <1>3

-----------------------------------------------------------------------------
\* A pool with a place for every thread, of which one is not in it, has an empty
\* slot.
LEMMA PoolHasRoom ==
  ASSUME IInv, NEW t \in Threads, ~InPool(t)
  PROVE  \E i \in Slots : Empty(i)
  <1> SUFFICES ASSUME \A i \in Slots : pool[i] # NoThread PROVE FALSE
    BY DEF Empty
  <1> DEFINE T == Threads \ {t}
  <1>1. pool \in [Slots -> T]
    BY DEF IInv, TypeOK, InPool
  <1>2. IsFiniteSet(T) /\ Cardinality(T) = Cardinality(Threads) - 1
    BY BarrierAssumption, FS_RemoveElement
  <1>3. IsFiniteSet(Slots) /\ Cardinality(Slots) = POOL_SIZE
    <2>1. 0 \in Int /\ POOL_SIZE - 1 \in Int /\ 0 <= POOL_SIZE - 1
      BY BarrierAssumption
    <2> QED
      BY <2>1, FS_Interval, BarrierAssumption DEF Slots
  <1>4. Cardinality(Threads) \in Nat
    BY BarrierAssumption, FS_CardinalityType
  <1>5. Cardinality(T) < Cardinality(Slots)
    BY <1>2, <1>3, <1>4, BarrierAssumption
  <1>6. PICK i, j \in Slots : i # j /\ pool[i] = pool[j]
    <2> HIDE DEF T
    <2> QED
      BY <1>1, <1>2, <1>3, <1>5, FS_PigeonHole
  <1> QED
    BY <1>6 DEF IInv, PoolInv

\* The pool is left by RemoveFromPool only, entered by AddToPool only, and not
\* found full.
LEMMA NextPool ==
  ASSUME IInv, NEW t \in Threads, CS(t) \/ Spurious(t)
  PROVE  PoolInv' /\ PoolAddSucceeds'
  <1> USE DEF IInv, TypeOK, Goto, PoolInv, PoolAddSucceeds, InPool, Pooled, poolVars
  <1>1. CASE AddToPool(t)
    <2>1. ~InPool(t) /\ \E i \in Slots : Empty(i)
      BY <1>1, PoolHasRoom DEF AddToPool
    <2>2. PICK i \in Slots : Empty(i) /\ pool' = [pool EXCEPT ![i] = t]
      BY <1>1, <2>1 DEF AddToPool
    <2>3. pc' = [pc EXCEPT ![t] = "wait"] /\ pc[t] = "add"
      BY <1>1, <2>1 DEF AddToPool
    <2> QED
      BY <2>1, <2>2, <2>3, NoThreadAssumption DEF Empty
  <1>2. CASE RemoveFromPool(t)
    BY <1>2, NoThreadAssumption DEF RemoveFromPool
  <1>3. CASE ~AddToPool(t) /\ ~RemoveFromPool(t)
    <2>1. UNCHANGED pool
      BY <1>3 DEF CS, Section, Wakener, Sleeper, Lock, Test, EnterCS, EndCS, LeaveCS, ScanSlot,
                  RereadSlot, SendSignal, RecordSignal, UnlockExit, EnterWait, FallAsleep,
                  WakeUp, Unlock, Spurious
    <2>2. \/ UNCHANGED pc
          \/ /\ pc' = [pc EXCEPT ![t] = pc'[t]]
             /\ pc[t] \in Pooled <=> pc'[t] \in Pooled
             /\ pc'[t] # "assert"
      BY <1>3 DEF CS, Section, Wakener, Sleeper, Lock, Test, EnterCS, EndCS, LeaveCS, ScanSlot,
                  RereadSlot, SendSignal, RecordSignal, UnlockExit, EnterWait, FallAsleep,
                  WakeUp, Unlock, Spurious
    <2> QED
      BY <2>1, <2>2
  <1> QED
    BY <1>1, <1>2, <1>3

\* A thread gives up only while another is inside.
LEMMA NextSomeone ==
  ASSUME IInv, NEW t \in Threads, CS(t) \/ Spurious(t)
  PROVE  SomeoneRuns'
  <1> USE DEF IInv, TypeOK, Goto, SomeoneRuns, Blocked
  <1>1. CASE Test(t) /\ n_concurrent_threads >= LIMIT_BARRIER
    <2>1. Cardinality(Inside) # 0
      BY <1>1, BarrierAssumption DEF CountIsExact
    <2>2. PICK q \in Threads : q \in Inside
      BY <2>1, FS_EmptySet DEF Inside
    <2>3. q # t /\ pc'[q] = pc[q]
      BY <1>1, <2>2 DEF Test, Inside
    <2> QED
      BY <2>2, <2>3 DEF Inside
  <1>2. CASE ~(Test(t) /\ n_concurrent_threads >= LIMIT_BARRIER)
    <2>1. \/ UNCHANGED pc
          \/ /\ pc' = [pc EXCEPT ![t] = pc'[t]]
             /\ pc'[t] \in {"add", "wait", "sleep", "asleep"}
                  => pc[t] \in {"add", "wait", "sleep", "asleep"}
      BY <1>2 DEF CS, Section, Wakener, Sleeper, Lock, Test, EnterCS, EndCS, LeaveCS, ScanSlot,
                  RereadSlot, SendSignal, RecordSignal, UnlockExit, AddToPool, EnterWait,
                  FallAsleep, WakeUp, Unlock, RemoveFromPool, Spurious
    <2> QED
      BY <2>1
  <1> QED
    BY <1>1, <1>2

\* Every step keeps the inductive invariant.
LEMMA NextIInv == IInv /\ [Next]_vars => IInv'
  <1> SUFFICES ASSUME IInv, [Next]_vars PROVE IInv'
    OBVIOUS
  <1>1. CASE UNCHANGED vars
    BY <1>1 DEF vars, apiVars, poolVars, IInv, TypeOK, ApiTypeOK, LockDiscipline, HoldsCount,
                EnterInv, CountIsExact, Inside, PoolInv, InPool, SomeoneRuns, Blocked,
                PoolAddSucceeds
  <1>2. CASE Next
    <2>1. PICK t \in Threads : CS(t) \/ Spurious(t)
      BY <1>2 DEF Next
    <2> QED
      BY <2>1, NextCount, NextTypes, NextLocks, NextEnter, NextPool, NextSomeone
         DEF IInv, TypeOK
  <1> QED
    BY <1>1, <1>2

\* Every reachable state satisfies the inductive invariant.
THEOREM Invariance == Spec => []IInv
  BY InitIInv, NextIInv, PTL DEF Spec

\* barrier.c implements the counting semaphore: never more than LIMIT_BARRIER
\* threads are in the critical section, for any number of threads.
THEOREM ImplementsSemaphoreHolds == Spec => ImplementsSemaphore
  <1>1. Init => Limit!Init
    BY DEF Init, Limit!Init, Inside
  <1>2. IInv /\ [Next]_vars => [Limit!Next]_Inside
    <2> SUFFICES ASSUME IInv, [Next]_vars PROVE Limit!Next \/ Inside' = Inside
      OBVIOUS
    <2>1. CASE UNCHANGED vars
      BY <2>1 DEF vars, Inside
    <2>2. ASSUME NEW t \in Threads, EnterCS(t) PROVE Limit!Next
      <3>1. Limit!Cardinality(Inside) = Cardinality(Inside)
        BY DEF Cardinality, Limit!Cardinality
      <3> QED
        BY <2>2, <3>1, EnterStep DEF Limit!Next, Limit!Enter
    <2>3. ASSUME NEW t \in Threads, LeaveCS(t) PROVE Limit!Next
      BY <2>3, LeaveStep DEF Limit!Next, Limit!Leave
    <2>4. ASSUME NEW t \in Threads, CS(t) \/ Spurious(t), ~EnterCS(t), ~LeaveCS(t)
          PROVE Inside' = Inside
      BY <2>4, QuietStep
    <2> QED
      BY <2>1, <2>2, <2>3, <2>4 DEF Next
  <1> QED
    BY <1>1, <1>2, Invariance, PTL DEF Spec, ImplementsSemaphore, Limit!Spec

\* The count's mutex is held in the parts it guards, and by one thread.
THEOREM LockDisciplineHolds == Spec => []LockDiscipline
  <1>1. IInv => LockDiscipline
    BY DEF IInv
  <1> QED
    BY <1>1, Invariance, PTL

\* Whatever signals are lost, the threads never all sleep.
THEOREM SomeoneRunsHolds == Spec => []SomeoneRuns
  <1>1. IInv => SomeoneRuns
    BY DEF IInv
  <1> QED
    BY <1>1, Invariance, PTL

\* A pool as large as the number of threads never refuses one.
THEOREM PoolAddSucceedsHolds == Spec => []PoolAddSucceeds
  <1>1. IInv => PoolAddSucceeds
    BY DEF IInv
  <1> QED
    BY <1>1, Invariance, PTL

=============================================================================
