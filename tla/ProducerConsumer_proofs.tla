----------------------- MODULE ProducerConsumer_proofs -----------------------
(***************************************************************************)
(* What ProducerConsumer guarantees for every number of slots.             *)
(***************************************************************************)
EXTENDS ProducerConsumer, FiniteSetTheorems, TLAPS

\* A thread asleep in wait() has its flag, whatever signals came before.
SleeperIsFlagged ==
  \A t \in sleeping : pc[t] = "asleep" /\ isWaiting[t]

\* The inductive invariant: the mutex is held exactly in the critical
\* sections, a sleeper is at its wait and flagged, and two stuck threads
\* leave the store at a limit.
IInv == TypeOK /\ LockDiscipline /\ SleeperIsFlagged /\ StuckOnlyAtLimit

\* Initially the threads are at the lock, awake, and the store is empty.
LEMMA InitIInv == Init => IInv
  BY ThreadsAssumption, NoThreadAssumption
  DEF Init, IInv, TypeOK, LockDiscipline, SleeperIsFlagged, StuckOnlyAtLimit,
      ApiTypeOK, ApiInit, Stuck, Holding, Steps, M, AVAILABLE, Available

\* The steps that both threads have leave the slots alone.
LEMMA CommonIInv ==
  ASSUME IInv, NEW t \in Threads, Common(t)
  PROVE  IInv'
  <1> USE ThreadsAssumption, NoThreadAssumption
      DEF IInv, TypeOK, LockDiscipline, SleeperIsFlagged, StuckOnlyAtLimit,
          ApiTypeOK, Stuck, Holding, Steps, M, AVAILABLE, Available, Goto,
          condVars, MutexLock, MutexUnlock
  <1>1. CASE Lock(t)
    BY <1>1 DEF Lock
  <1>2. CASE EnterWait(t)
    BY <1>2 DEF EnterWait, WaitLock
  <1>3. CASE FallAsleep(t)
    BY <1>3 DEF FallAsleep, WaitSleep
  <1>4. CASE WakeUp(t)
    BY <1>4 DEF WakeUp, WaitWake
  <1>5. CASE LeaveWait(t)
    BY <1>5 DEF LeaveWait, WaitUnlock
  <1> QED
    BY <1>1, <1>2, <1>3, <1>4, <1>5 DEF Common

\* The steps that look at the slots hold the mutex, so the other thread is in
\* none of them; Produce and Consume wake the other thread.
LEMMA ScanIInv ==
  ASSUME IInv, Produce \/ FoundFull \/ Consume \/ FoundEmpty
  PROVE  IInv'
  <1> USE ThreadsAssumption, NoThreadAssumption
      DEF IInv, TypeOK, LockDiscipline, SleeperIsFlagged, StuckOnlyAtLimit,
          ApiTypeOK, Stuck, Holding, Steps, M, AVAILABLE, Available, Goto,
          condVars, MutexLock, MutexUnlock
  <1>1. CASE Produce
    BY <1>1 DEF Produce, Signal
  <1>2. CASE FoundFull
    BY <1>2 DEF FoundFull
  <1>3. CASE Consume
    BY <1>3 DEF Consume, Signal
  <1>4. CASE FoundEmpty
    BY <1>4 DEF FoundEmpty
  <1> QED
    BY <1>1, <1>2, <1>3, <1>4

\* A spurious wakeup makes a thread runnable and changes nothing else.
LEMMA SpuriousIInv ==
  ASSUME IInv, NEW t \in Threads, Spurious(t)
  PROVE  IInv'
  BY ThreadsAssumption
  DEF Spurious, SpuriousWakeup, IInv, TypeOK, LockDiscipline, SleeperIsFlagged,
      StuckOnlyAtLimit, ApiTypeOK, Stuck, Holding, Steps, M, Available

\* Every step of both threads keeps the inductive invariant.
LEMMA NextIInv == IInv /\ [Next]_vars => IInv'
  <1> SUFFICES ASSUME IInv, [Next]_vars PROVE IInv'
    OBVIOUS
  <1>1. CASE ProducerStep
    BY <1>1, CommonIInv, ScanIInv, ThreadsAssumption DEF ProducerStep
  <1>2. CASE ConsumerStep
    BY <1>2, CommonIInv, ScanIInv, ThreadsAssumption DEF ConsumerStep
  <1>3. CASE \E t \in Threads : Spurious(t)
    BY <1>3, SpuriousIInv
  <1>4. CASE UNCHANGED vars
    BY <1>4
    DEF vars, apiVars, IInv, TypeOK, LockDiscipline, SleeperIsFlagged,
        StuckOnlyAtLimit, ApiTypeOK, Stuck, Available
  <1> QED
    BY <1>1, <1>2, <1>3, <1>4 DEF Next

\* Every reachable state satisfies the inductive invariant.
THEOREM Invariance == Spec => []IInv
  BY InitIInv, NextIInv, PTL DEF Spec

\* The mutex protects the sections around the slots and inside wait().
THEOREM LockDisciplineHolds == Spec => []LockDiscipline
  <1>1. IInv => LockDiscipline
    BY DEF IInv
  <1> QED BY <1>1, Invariance, PTL

\* A hang of both threads happens only at a limit of the store.
THEOREM StuckOnlyAtLimitHolds == Spec => []StuckOnlyAtLimit
  <1>1. IInv => StuckOnlyAtLimit
    BY DEF IInv
  <1> QED BY <1>1, Invariance, PTL

-----------------------------------------------------------------------------
FilledSlots == {i \in Slots : ~Available(i)}

\* The filled slots are a finite set, RESOURCE_UNITS of them at most, and not
\* all of them while a slot is available.
LEMMA FilledBounds ==
  /\ IsFiniteSet(FilledSlots)
  /\ Filled \in Nat
  /\ (\E i \in Slots : Available(i)) => Filled < RESOURCE_UNITS
  /\ (\E i \in Slots : ~Available(i)) => Filled > 0
  <1>1. IsFiniteSet(Slots) /\ Cardinality(Slots) = RESOURCE_UNITS
    BY FS_Interval, UnitsAssumption DEF Slots
  <1>2. FilledSlots \in SUBSET Slots
    BY DEF FilledSlots
  <1>3. /\ IsFiniteSet(FilledSlots)
        /\ Cardinality(FilledSlots) <= RESOURCE_UNITS
        /\ Cardinality(FilledSlots) = RESOURCE_UNITS => FilledSlots = Slots
    BY <1>1, <1>2, FS_Subset
  <1>4. Cardinality(FilledSlots) \in Nat
    BY <1>3, FS_CardinalityType
  <1>5. Cardinality(FilledSlots) = 0 => FilledSlots = {}
    BY <1>3, FS_EmptySet
  <1>6. (\E i \in Slots : Available(i)) => FilledSlots # Slots
    BY DEF FilledSlots
  <1>7. (\E i \in Slots : ~Available(i)) => FilledSlots # {}
    BY DEF FilledSlots
  <1> QED
    BY <1>3, <1>4, <1>5, <1>6, <1>7, UnitsAssumption DEF Filled, FilledSlots

\* Produce fills one slot more, below the capacity: the slot it takes was
\* available, and no other changes.
LEMMA ProduceStep ==
  ASSUME IInv, Produce
  PROVE  Filled < RESOURCE_UNITS /\ Filled' = Filled + 1
  <1>1. PICK i \in Slots : Available(i) /\ slot' = [slot EXCEPT ![i] = 1]
    BY DEF Produce
  <1>2. i \notin FilledSlots /\ FilledSlots' = FilledSlots \cup {i}
    BY <1>1 DEF IInv, TypeOK, FilledSlots, Available, AVAILABLE, Slots
  <1>3. Cardinality(FilledSlots') = Cardinality(FilledSlots) + 1
    BY <1>2, FilledBounds, FS_AddElement
  <1> QED
    BY <1>1, <1>3, FilledBounds DEF Filled, FilledSlots

\* Consume empties one slot that was filled.
LEMMA ConsumeStep ==
  ASSUME IInv, Consume
  PROVE  Filled > 0 /\ Filled' = Filled - 1
  <1>1. PICK i \in Slots : ~Available(i) /\ slot' = [slot EXCEPT ![i] = AVAILABLE]
    BY DEF Consume
  <1>2. i \in FilledSlots /\ FilledSlots' = FilledSlots \ {i}
    BY <1>1 DEF IInv, TypeOK, FilledSlots, Available, AVAILABLE, Slots
  <1>3. Cardinality(FilledSlots') = Cardinality(FilledSlots) - 1
    BY <1>2, FilledBounds, FS_RemoveElement
  <1> QED
    BY <1>1, <1>3, FilledBounds DEF Filled, FilledSlots

\* Every other step leaves the slots alone.
LEMMA OtherStep ==
  ASSUME [Next]_vars, ~Produce, ~Consume
  PROVE  Filled' = Filled
  <1>1. slot' = slot
    <2>1. ASSUME NEW t \in Threads, Common(t) \/ Spurious(t) PROVE slot' = slot
      BY <2>1
      DEF Common, Lock, EnterWait, FallAsleep, WakeUp, LeaveWait, Spurious
    <2> QED
      BY <2>1, ThreadsAssumption
      DEF Next, ProducerStep, ConsumerStep, FoundFull, FoundEmpty, vars
  <1> QED
    BY <1>1 DEF Filled, Available

\* producer_consumer.c implements the bounded buffer: every step adds one unit
\* below the capacity, takes one above zero, or leaves the store alone, for
\* every number of slots.
THEOREM ImplementsBoundedBufferHolds == Spec => ImplementsBoundedBuffer
  <1>1. Init => Store!Init
    <2> SUFFICES ASSUME Init PROVE Filled = 0
      BY DEF Store!Init
    <2>1. {i \in Slots : ~Available(i)} = {}
      BY DEF Init, Available
    <2> QED
      BY <2>1, FS_EmptySet DEF Filled
  <1>2. IInv /\ [Next]_vars => [Store!Next]_Filled
    BY ProduceStep, ConsumeStep, OtherStep
    DEF Store!Next, Store!Put, Store!Get
  <1> QED
    BY <1>1, <1>2, Invariance, PTL DEF Spec, ImplementsBoundedBuffer, Store!Spec

=============================================================================
