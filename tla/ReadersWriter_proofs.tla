------------------------ MODULE ReadersWriter_proofs ------------------------
(***************************************************************************)
(* What ReadersWriter guarantees for any finite number of readers: the     *)
(* mutexes are held where they should be, the count is exact, and the      *)
(* last reader to look at it sends the signal.                             *)
(***************************************************************************)
EXTENDS ReadersWriter, FiniteSetTheorems, TLAPS

Locations == ReaderLocations \cup WriterLocations

\* What a reader has loaded is still the count when it stores.
SeenInv == \A r \in Readers : thread_at[r] \in {"increment", "decrement"} => seen[r] = Nreader_count

\* As long as nobody has signalled, somebody still may.
SignalInv == resume_thread_id[WRITER] = NoThread => \E r \in Readers : thread_at[r] # "done"

\* The types, with the function thread_at.
TypeInv == RwTypeOK /\ thread_at \in [Threads -> Locations]

IInv == TypeInv /\ LockDiscipline /\ SeenInv /\ CountIsExact /\ SignalInv

-----------------------------------------------------------------------------
\* The counted readers are finitely many, at most all of them.
LEMMA CountedIsFinite ==
  /\ IsFiniteSet(Counted) /\ Cardinality(Counted) \in 0 .. Cardinality(Readers)
  /\ Cardinality(Readers) \in Nat
  <1>1. Counted \subseteq Readers /\ IsFiniteSet(Readers)
    BY ReadersAssumption DEF Counted
  <1>2. IsFiniteSet(Counted) /\ Cardinality(Counted) <= Cardinality(Readers)
    BY <1>1, FS_Subset
  <1>3. Cardinality(Counted) \in Nat /\ Cardinality(Readers) \in Nat
    BY <1>1, <1>2, FS_CardinalityType
  <1> QED
    BY <1>2, <1>3

\* Initially nobody is counted and no mutex is held.
LEMMA InitIInv == RwInit => IInv
  <1> SUFFICES ASSUME RwInit PROVE IInv
    OBVIOUS
  <1> USE ReadersAssumption, NoThreadAssumption DEF RwInit, ApiInit
  <1>1. Counted = {}
    BY DEF Counted
  <1>2. CountIsExact
    BY <1>1, FS_EmptySet DEF CountIsExact
  <1>3. TypeInv
    BY CountedIsFinite DEF TypeInv, RwTypeOK, ApiTypeOK, Locations, ReaderLocations, WriterLocations
  <1>4. LockDiscipline
    BY DEF LockDiscipline, HoldsResource, HoldsCount, RM, CM
  <1>5. SeenInv /\ SignalInv
    BY DEF SeenInv, SignalInv
  <1> QED
    BY <1>2, <1>3, <1>4, <1>5 DEF IInv

-----------------------------------------------------------------------------
\* A step of one reader that does not count: the others stay where they are.
LEMMA QuietReader ==
  ASSUME IInv, NEW r \in Readers,
         LockResource(r) \/ PassResource(r) \/ LockCount(r) \/ LoadCount(r) \/ EndReading(r)
           \/ CheckCount(r) \/ SendSignal(r) \/ RecordSignal(r)
  PROVE  UNCHANGED Nreader_count /\ Counted' = Counted /\ SeenInv'
  <1> USE ReadersAssumption
      DEF IInv, TypeInv, RwTypeOK, ThreadGoto, countVars, Counted, SeenInv, LockDiscipline,
          HoldsCount
  <1>1. CASE LockResource(r) \/ PassResource(r)
    BY <1>1 DEF LockResource, PassResource
  <1>2. CASE LockCount(r) \/ LoadCount(r)
    BY <1>2 DEF LockCount, LoadCount
  <1>3. CASE EndReading(r)
    BY <1>3 DEF EndReading
  <1>4. CASE CheckCount(r)
    BY <1>4 DEF CheckCount
  <1>5. CASE SendSignal(r) \/ RecordSignal(r)
    BY <1>5 DEF SendSignal, RecordSignal
  <1> QED
    BY <1>1, <1>2, <1>3, <1>4, <1>5

\* A reader that stores adds or removes itself, and the count follows.
LEMMA CountingReader ==
  ASSUME IInv, NEW r \in Readers, Increment(r) \/ Decrement(r)
  PROVE  CountIsExact' /\ SeenInv'
  <1> USE ReadersAssumption DEF IInv, TypeInv, ThreadGoto
  <1>1. seen[r] = Nreader_count /\ Nreader_count = Cardinality(Counted) /\ UNCHANGED seen
    BY DEF SeenInv, CountIsExact, Increment, Decrement
  <1>2. SeenInv'
    <2>1. \A q \in Readers : q # r => thread_at'[q] \notin {"increment", "decrement"}
      BY DEF LockDiscipline, HoldsCount, Increment, Decrement
    <2>2. thread_at'[r] \notin {"increment", "decrement"}
      BY DEF Increment, Decrement
    <2> QED
      BY <2>1, <2>2 DEF SeenInv
  <1>3. CASE Increment(r)
    <2>1. Counted' = Counted \cup {r} /\ r \notin Counted /\ Nreader_count' = seen[r] + 1
      BY <1>3 DEF Counted, Increment
    <2>2. Cardinality(Counted') = Cardinality(Counted) + 1
      BY <2>1, CountedIsFinite, FS_AddElement
    <2> QED
      BY <1>1, <1>2, <2>1, <2>2 DEF CountIsExact
  <1>4. CASE Decrement(r)
    <2>1. Counted' = Counted \ {r} /\ r \in Counted /\ Nreader_count' = seen[r] - 1
      BY <1>4 DEF Counted, Decrement
    <2>2. Cardinality(Counted') = Cardinality(Counted) - 1
      BY <2>1, CountedIsFinite, FS_RemoveElement
    <2> QED
      BY <1>1, <1>2, <2>1, <2>2 DEF CountIsExact
  <1> QED
    BY <1>3, <1>4

\* The writer counts nothing.
LEMMA WriterCounts ==
  ASSUME IInv, WriterStep \/ WriterWakesEarly
  PROVE  UNCHANGED <<Nreader_count, seen>> /\ Counted' = Counted /\ SeenInv' /\ SignalInv'
  <1>1. UNCHANGED <<Nreader_count, seen, resume_thread_id>>
    BY DEF WriterStep, TestCount, StartWriting, EndWriting, WriterEntersWait, WriterFallsAsleep,
           WriterWakesUp, WriterLeavesWait, WriterWakesEarly, SpuriousWakeup, WaitLock, WaitSleep,
           WaitWake, WaitUnlock,
           apiVars, condVars, countVars
  <1>2. \A r \in Readers : thread_at'[r] = thread_at[r]
    BY ReadersAssumption
       DEF WriterStep, TestCount, StartWriting, EndWriting, WriterEntersWait, WriterFallsAsleep,
           WriterWakesUp, WriterLeavesWait, WriterWakesEarly, ThreadGoto, IInv, TypeInv
  <1> QED
    BY <1>1, <1>2 DEF Counted, SeenInv, SignalInv, IInv

\* The reader that ends without a signal leaves one behind that is counted.
LEMMA ReaderSignals ==
  ASSUME IInv, NEW r \in Readers, ReaderStep(r)
  PROVE  SignalInv'
  <1> USE ReadersAssumption, NoThreadAssumption DEF IInv, TypeInv, RwTypeOK, ApiTypeOK, ThreadGoto
  <1>1. CASE RecordSignal(r)
    BY <1>1 DEF RecordSignal, SignalRecord, SignalInv
  <1>2. CASE CheckCount(r) /\ Nreader_count # 0
    <2>1. Counted # {}
      BY <1>2, FS_EmptySet DEF CountIsExact
    <2>2. PICK q \in Readers : thread_at[q] # "done" /\ thread_at[q] # "check"
      BY <2>1 DEF Counted
    <2>3. thread_at'[q] # "done"
      BY <1>2, <2>2 DEF CheckCount
    <2> QED
      BY <2>3 DEF SignalInv
  <1>3. CASE ~RecordSignal(r) /\ ~(CheckCount(r) /\ Nreader_count # 0)
    <2>1. thread_at'[r] # "done"
      BY <1>3 DEF ReaderStep, LockResource, PassResource, LockCount, LoadCount, Increment,
                  EndReading, Decrement, CheckCount, SendSignal
    <2> QED
      BY <2>1 DEF SignalInv
  <1> QED
    BY <1>1, <1>2, <1>3

-----------------------------------------------------------------------------
\* The types of everything but the count.
LEMMA NextThreadTypes ==
  ASSUME IInv, RwNext
  PROVE  /\ ApiTypeOK' /\ thread_at' \in [Threads -> Locations]
         /\ \A r \in Readers : thread_at'[r] \in ReaderLocations
         /\ thread_at'[WRITER] \in WriterLocations
  <1> USE ReadersAssumption, NoThreadAssumption
      DEF IInv, TypeInv, RwTypeOK, ApiTypeOK, ThreadGoto, Locations, ReaderLocations,
          WriterLocations,
          RM, CM, apiVars, condVars, MutexLock, MutexUnlock
  <1>1. ASSUME NEW r \in Readers, ReaderStep(r)
        PROVE  /\ ApiTypeOK' /\ thread_at' \in [Threads -> Locations]
               /\ \A q \in Readers : thread_at'[q] \in ReaderLocations
               /\ thread_at'[WRITER] \in WriterLocations
    <2>1. CASE LockResource(r) \/ PassResource(r)
      BY <2>1 DEF LockResource, PassResource
    <2>2. CASE LockCount(r) \/ LoadCount(r) \/ EndReading(r)
      BY <2>2 DEF LockCount, LoadCount, EndReading
    <2>3. CASE Increment(r) \/ Decrement(r)
      BY <2>3 DEF Increment, Decrement
    <2>4. CASE CheckCount(r)
      BY <2>4 DEF CheckCount
    <2>5. CASE SendSignal(r)
      BY <2>5 DEF SendSignal, SignalCond
    <2>6. CASE RecordSignal(r)
      BY <2>6 DEF RecordSignal, SignalRecord
    <2> QED
      BY <1>1, <2>1, <2>2, <2>3, <2>4, <2>5, <2>6 DEF ReaderStep
  <1>2. CASE TestCount \/ StartWriting \/ EndWriting
    BY <1>2 DEF TestCount, StartWriting, EndWriting
  <1>3. CASE WriterEntersWait
    BY <1>3 DEF WriterEntersWait, WaitLock
  <1>6. CASE WriterFallsAsleep
    BY <1>6 DEF WriterFallsAsleep, WaitSleep
  <1>4. CASE WriterWakesUp \/ WriterLeavesWait
    BY <1>4 DEF WriterWakesUp, WriterLeavesWait, WaitWake, WaitUnlock
  <1>5. CASE WriterWakesEarly
    BY <1>5 DEF WriterWakesEarly, SpuriousWakeup
  <1> QED
    BY <1>1, <1>2, <1>3, <1>4, <1>5, <1>6 DEF RwNext, WriterStep

\* Every step takes a mutex that is free, or releases its own.
LEMMA NextLocks ==
  ASSUME IInv, RwNext
  PROVE  LockDiscipline'
  <1> USE ReadersAssumption, NoThreadAssumption
      DEF IInv, TypeInv, RwTypeOK, ApiTypeOK, ThreadGoto, LockDiscipline, HoldsResource, HoldsCount,
          RM, CM, apiVars, condVars, MutexLock, MutexUnlock
  <1>1. ASSUME NEW r \in Readers, ReaderStep(r) PROVE LockDiscipline'
    <2>1. CASE LockResource(r)
      BY <2>1 DEF LockResource
    <2>2. CASE PassResource(r)
      BY <2>2 DEF PassResource
    <2>3. CASE LockCount(r)
      BY <2>3 DEF LockCount
    <2>4. CASE LoadCount(r) \/ EndReading(r)
      BY <2>4 DEF LoadCount, EndReading
    <2>5. CASE Increment(r) \/ Decrement(r)
      BY <2>5 DEF Increment, Decrement
    <2>6. CASE CheckCount(r)
      BY <2>6 DEF CheckCount
    <2>7. CASE SendSignal(r)
      BY <2>7 DEF SendSignal
    <2>8. CASE RecordSignal(r)
      BY <2>8 DEF RecordSignal
    <2> QED
      BY <1>1, <2>1, <2>2, <2>3, <2>4, <2>5, <2>6, <2>7, <2>8 DEF ReaderStep
  <1>2. CASE TestCount \/ WriterWakesEarly
    BY <1>2 DEF TestCount, WriterWakesEarly, SpuriousWakeup
  <1>3. CASE StartWriting \/ WriterEntersWait
    BY <1>3 DEF StartWriting, WriterEntersWait, WaitLock
  <1>4. CASE EndWriting \/ WriterLeavesWait
    BY <1>4 DEF EndWriting, WriterLeavesWait, WaitUnlock
  <1>5. CASE WriterFallsAsleep
    BY <1>5 DEF WriterFallsAsleep, WaitSleep
  <1>6. CASE WriterWakesUp
    BY <1>6 DEF WriterWakesUp, WaitWake
  <1> QED
    BY <1>1, <1>2, <1>3, <1>4, <1>5, <1>6 DEF RwNext, WriterStep

\* Every step keeps the count exact, and the loaded values in its range.
LEMMA NextCount ==
  ASSUME IInv, RwNext
  PROVE  CountIsExact' /\ SeenInv' /\ seen' \in [Readers -> 0 .. Cardinality(Readers)]
  <1>1. CASE WriterStep \/ WriterWakesEarly
    BY <1>1, WriterCounts DEF IInv, TypeInv, RwTypeOK, CountIsExact
  <1>2. ASSUME NEW r \in Readers, ReaderStep(r)
        PROVE CountIsExact' /\ SeenInv' /\ seen' \in [Readers -> 0 .. Cardinality(Readers)]
    <2>1. CountIsExact' /\ SeenInv'
      BY <1>2, QuietReader, CountingReader DEF ReaderStep, IInv, CountIsExact
    <2>2. seen' = seen \/ seen' = [seen EXCEPT ![r] = Nreader_count]
      BY <1>2 DEF ReaderStep, LockResource, PassResource, LockCount, LoadCount, Increment,
                  EndReading, Decrement, CheckCount, SendSignal, RecordSignal, countVars
    <2> QED
      BY <2>1, <2>2 DEF IInv, TypeInv, RwTypeOK
  <1> QED
    BY <1>1, <1>2 DEF RwNext

\* Every step keeps the inductive invariant.
LEMMA NextIInv == IInv /\ [RwNext]_rwVars => IInv'
  <1> SUFFICES ASSUME IInv, [RwNext]_rwVars PROVE IInv'
    OBVIOUS
  <1>1. CASE UNCHANGED rwVars
    BY <1>1 DEF rwVars, apiVars, IInv, TypeInv, RwTypeOK, ApiTypeOK, LockDiscipline, HoldsResource,
                HoldsCount, SeenInv, CountIsExact, Counted, SignalInv
  <1>2. CASE RwNext
    <2>1. SignalInv'
      BY <1>2, ReaderSignals, WriterCounts DEF RwNext
    <2>2. CountIsExact' /\ SeenInv' /\ seen' \in [Readers -> 0 .. Cardinality(Readers)]
      BY <1>2, NextCount
    <2>3. Nreader_count' \in 0 .. Cardinality(Readers)
      <3>1. Counted' \subseteq Readers /\ IsFiniteSet(Readers)
        BY ReadersAssumption DEF Counted
      <3>2. IsFiniteSet(Counted') /\ Cardinality(Counted') <= Cardinality(Readers)
        BY <3>1, FS_Subset
      <3>3. Cardinality(Counted') \in Nat /\ Cardinality(Readers) \in Nat
        BY <3>1, <3>2, FS_CardinalityType
      <3> QED
        BY <2>2, <3>2, <3>3 DEF CountIsExact
    <2> QED
      BY <1>2, <2>1, <2>2, <2>3, NextThreadTypes, NextLocks DEF IInv, TypeInv, RwTypeOK
  <1> QED
    BY <1>1, <1>2

\* Every reachable state satisfies the inductive invariant.
THEOREM Invariance == RwSpec => []IInv
  BY InitIInv, NextIInv, PTL DEF RwSpec

\* The mutexes are held in the parts they guard, and by one thread.
THEOREM LockDisciplineHolds == RwSpec => []LockDiscipline
  <1>1. IInv => LockDiscipline
    BY DEF IInv
  <1> QED
    BY <1>1, Invariance, PTL

\* Nreader_count is the number of the readers inside.
THEOREM CountIsExactHolds == RwSpec => []CountIsExact
  <1>1. IInv => CountIsExact
    BY DEF IInv
  <1> QED
    BY <1>1, Invariance, PTL

\* When all readers have ended, one of them has sent the writer its signal.
THEOREM SomeReaderSignalsHolds == RwSpec => []SomeReaderSignals
  <1>1. IInv => SomeReaderSignals
    BY ReadersAssumption DEF IInv, SignalInv, SomeReaderSignals
  <1> QED
    BY <1>1, Invariance, PTL

=============================================================================
