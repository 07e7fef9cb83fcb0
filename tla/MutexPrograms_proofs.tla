------------------------- MODULE MutexPrograms_proofs -------------------------
(***************************************************************************)
(* What the programs with mutexes and condition variables guarantee: the   *)
(* pool of blocked slaves for every number of threads, the turns for a     *)
(* ring of every size, the watcher for all numbers in the relation of its  *)
(* own; and that each keeps its properties in MutexPrograms.  The readers  *)
(* and the writer have proofs of their own, in ReadersWriter_proofs.       *)
(***************************************************************************)
EXTENDS MutexPrograms, FiniteSetTheorems, TLAPS

USE ThreadNumAssumption, TurnsAssumption

-----------------------------------------------------------------------------
(* Master and slaves: types                                                *)

\* The master has a request from the prompt to the end of the request.
Requested ==
  master_at \in {"block", "resume", "add", "remove", "signal"} => inp_th_id \in Slaves

\* Ids are integers, and None is none of them.
LEMMA IdFacts ==
  /\ 0 \in Ids /\ Ids \subseteq Int /\ None \notin Ids
  /\ Slaves \subseteq Ids /\ Slaves = Ids \ {0}
  BY DEF Ids, Slaves, None

\* Init gives every variable a value of its type.
LEMMA MsInitTyped == MsInit => MsTypeOK /\ Requested
<1> SUFFICES ASSUME MsInit PROVE MsTypeOK /\ Requested
  OBVIOUS
<1>1. master_at \in MasterLocations /\ inp_th_id \in Ids \cup {None} /\ Requested
  BY DEF MsInit, MasterLocations, Requested
<1>2. blocked \in [Ids -> Slaves \cup {None}] /\ wait_mutex \in Slaves \cup {None}
  BY DEF MsInit
<1>3. slave_at \in [Slaves -> SlaveLocations]
  BY DEF MsInit, SlaveLocations
<1>4. lines \in [Slaves -> 0 .. 2]
  BY DEF MsInit
<1>5. mutex_gone \in BOOLEAN
  <2>1. mutex_gone = FALSE
    BY DEF MsInit
  <2> QED
    BY <2>1
<1>6. pool_mutex \in BOOLEAN
  BY DEF MsInit
<1>8. cancelled \subseteq Slaves /\ cleaned \in 0 .. THREAD_NUM + 1
  BY DEF MsInit
<1>7. missed \subseteq Slaves
  BY DEF MsInit
<1> QED
  BY <1>1, <1>2, <1>3, <1>4, <1>5, <1>6, <1>7, <1>8, Zenon DEF MsTypeOK

\* The master's steps keep the types.
LEMMA MasterTyped ==
  ASSUME MsTypeOK, Requested, Master_thread \/ CleanUp
  PROVE  MsTypeOK' /\ Requested'
<1> USE IdFacts DEF MsTypeOK, Requested, MasterLocations, SlaveLocations, MasterGoto,
    SlaveGoto, poolVars, masterVars, mainVars, historyVars, InBlockPool
<1>1. CASE Prompt
  BY <1>1 DEF Prompt
<1>2. CASE LockPool
  BY <1>2 DEF LockPool
<1>3. CASE BlockThread
  <2>1. inp_th_id \in Slaves
    BY <1>3 DEF BlockThread
  <2>2. blocked' \in [Ids -> Slaves \cup {None}]
    BY <1>3, <2>1 DEF BlockThread, PoolAdd
  <2>3. lines' \in [Slaves -> 0 .. 2]
    BY <1>3, <2>1 DEF BlockThread, PoolAdd
  <2> QED
    BY <1>3, <2>2, <2>3 DEF BlockThread
<1>4. CASE UnblockThread
  <2>1. blocked' \in [Ids -> Slaves \cup {None}]
    BY <1>4 DEF UnblockThread
  <2> QED
    BY <1>4, <2>1 DEF UnblockThread
<1>5. CASE SignalSlave
  <2>1. inp_th_id \in Slaves
    BY <1>5 DEF SignalSlave
  <2>2. slave_at' \in [Slaves -> SlaveLocations] /\ missed' \subseteq Slaves
    BY <1>5, <2>1 DEF SignalSlave
  <2> QED
    BY <1>5, <2>2 DEF SignalSlave
<1>6. CASE CancelSlave
  BY <1>6 DEF CancelSlave
<1>7. CASE DestroyCond \/ DestroyMutex
  <2>1. UNCHANGED <<masterVars, poolVars, wait_mutex, slave_at, cancelled, historyVars>>
    BY <1>7 DEF DestroyCond, DestroyMutex
  <2>2. mutex_gone' \in BOOLEAN
    BY <1>7, Zenon DEF DestroyCond, DestroyMutex, InUse, MsTypeOK
  <2>3. cleaned' \in 0 .. THREAD_NUM + 1
    BY <1>7 DEF DestroyCond, DestroyMutex
  <2> QED
    BY <2>1, <2>2, <2>3
<1> QED
  BY <1>1, <1>2, <1>3, <1>4, <1>5, <1>6, <1>7 DEF Master_thread, CleanUp

\* A slave's steps keep the types.
LEMMA SlaveTyped ==
  ASSUME MsTypeOK, Requested, NEW s \in Slaves, Slave_thread(s) \/ SpuriousWake(s)
  PROVE  MsTypeOK' /\ Requested'
<1> USE DEF MsTypeOK, Requested, SlaveLocations, SlaveGoto, poolVars, masterVars, mainVars,
    historyVars
<1>1. CASE CopyCollection(s)
  BY <1>1 DEF CopyCollection
<1>2. CASE LockCopy(s)
  BY <1>2 DEF LockCopy
<1>3. CASE LockWait(s)
  BY <1>3 DEF LockWait
<1>4. CASE LockGone(s) \/ FallAsleep(s) \/ FailToSleep(s)
  BY <1>4 DEF LockGone, FallAsleep, FailToSleep
<1>5. CASE LeaveWait(s)
  BY <1>5 DEF LeaveWait
<1>6. CASE Write(s)
  BY <1>6 DEF Write
<1>7. CASE Die(s)
  BY <1>7 DEF Die
<1>8. CASE SpuriousWake(s)
  BY <1>8 DEF SpuriousWake
<1> QED
  BY <1>1, <1>2, <1>3, <1>4, <1>5, <1>6, <1>7, <1>8 DEF Slave_thread

\* Every variable keeps its type, and the master has a request while it serves one.
THEOREM MsTypedHolds == MsSpec => [](MsTypeOK /\ Requested)
<1>1. MsTypeOK /\ Requested /\ [MsNext]_msVars => MsTypeOK' /\ Requested'
  <2>1. MsTypeOK /\ Requested /\ UNCHANGED msVars => MsTypeOK' /\ Requested'
    BY DEF MsTypeOK, Requested, msVars, poolVars, masterVars, mainVars, historyVars
  <2> QED
    BY <2>1, MasterTyped, SlaveTyped DEF MsNext
<1> QED
  BY MsInitTyped, <1>1, PTL DEF MsSpec

-----------------------------------------------------------------------------
(* The pool                                                                *)

\* A master that adds or removes leaves every other slave where it is, one that
\* is added is in the pool afterwards, and nothing else changes the pool.
LEMMA PoolSteps ==
  ASSUME MsTypeOK, Requested, MsNext, NEW s \in Slaves
  PROVE  /\ InBlockPool(s)' => InBlockPool(s) \/ (BlockThread /\ inp_th_id = s)
         /\ InBlockPool(s) => InBlockPool(s)' \/ (UnblockThread /\ inp_th_id = s)
<1> USE IdFacts DEF MsTypeOK, Requested, InBlockPool
<1>1. CASE BlockThread
  <2>1. inp_th_id \in Slaves
    BY <1>1 DEF BlockThread
  <2>2. \A i \in Ids : blocked'[i] = blocked[i] \/ (blocked[i] = None /\ blocked'[i] = inp_th_id)
    BY <1>1, <2>1 DEF BlockThread, PoolAdd
  <2> QED
    BY <1>1, <2>1, <2>2
<1>2. CASE UnblockThread
  <2>1. \A i \in Ids : blocked'[i] = blocked[i] \/ (blocked[i] = inp_th_id /\ blocked'[i] = None)
    BY <1>2 DEF UnblockThread
  <2> QED
    BY <1>2, <2>1
<1>3. CASE ~BlockThread /\ ~UnblockThread
  <2>1. UNCHANGED blocked
    BY <1>3 DEF MsNext, Master_thread, CleanUp, Slave_thread, Prompt, LockPool, SignalSlave,
      CancelSlave, DestroyCond, DestroyMutex, CopyCollection, LockCopy, LockWait, LockGone,
      FallAsleep, FailToSleep, LeaveWait, Write, Die, SpuriousWake, poolVars
  <2> QED
    BY <2>1
<1> QED
  BY <1>1, <1>2, <1>3

\* No slave is in two slots of the pool, so that one removal takes it out
\* (_pool_add() is called only when the slave was not found).
THEOREM ListedOnceHolds == MsSpec => []ListedOnce
<1>1. MsInit => ListedOnce
  BY DEF MsInit, ListedOnce
<1>2. MsTypeOK /\ Requested /\ ListedOnce /\ [MsNext]_msVars => ListedOnce'
  <2> SUFFICES ASSUME MsTypeOK, Requested, ListedOnce, MsNext, ~UNCHANGED blocked
               PROVE  ListedOnce'
    BY DEF ListedOnce, msVars, poolVars
  <2> USE IdFacts DEF ListedOnce, MsTypeOK, Requested, InBlockPool
  <2>1. CASE BlockThread
    <3>1. inp_th_id \in Slaves /\ ~InBlockPool(inp_th_id)
      BY <2>1 DEF BlockThread
    <3>2. PICK k \in Ids : blocked[k] = None /\ blocked' = [blocked EXCEPT ![k] = inp_th_id]
      BY <2>1, <3>1 DEF BlockThread, PoolAdd
    <3> QED
      BY <3>1, <3>2
  <2>2. CASE UnblockThread
    BY <2>2 DEF UnblockThread
  <2> QED
    BY <2>1, <2>2 DEF MsNext, Master_thread, CleanUp, Slave_thread, Prompt, LockPool, SignalSlave,
      CancelSlave, DestroyCond, DestroyMutex, CopyCollection, LockCopy, LockWait, LockGone,
      FallAsleep, FailToSleep, LeaveWait, Write, Die, SpuriousWake, poolVars
<1> QED
  BY <1>1, <1>2, MsTypedHolds, PTL DEF MsSpec

-----------------------------------------------------------------------------
(* One line more                                                           *)

\* A slave that has woken up has written nothing since, and one in the pool
\* that is about to write has written nothing since it was blocked or woke up.
NothingYet ==
  \A s \in Slaves :
    \/ slave_at[s] = "unlock"
    \/ InBlockPool(s) /\ slave_at[s] \in {"unlisted", "write"}
    => lines[s] = 0

\* From the moment a slave is in the pool it writes at most one line before it
\* sleeps, and one after each time it wakes up.
THEOREM BlockedWritesOnceHolds == MsSpec => []BlockedWritesOnce
<1> DEFINE Inv == NothingYet /\ BlockedWritesOnce
<1>1. MsInit => Inv
  BY IdFacts DEF MsInit, NothingYet, BlockedWritesOnce, InBlockPool
<1>2. MsTypeOK /\ Requested /\ Inv /\ [MsNext]_msVars => Inv'
  <2>1. Inv /\ UNCHANGED msVars => Inv'
    BY DEF NothingYet, BlockedWritesOnce, InBlockPool, msVars, poolVars, historyVars
  <2>2. SUFFICES ASSUME MsTypeOK, Requested, Inv, MsNext, NEW s \in Slaves
                 PROVE  /\ \/ slave_at'[s] = "unlock"
                           \/ InBlockPool(s)' /\ slave_at'[s] \in {"unlisted", "write"}
                           => lines'[s] = 0
                        /\ InBlockPool(s)' => lines'[s] <= 1
    BY <2>1 DEF NothingYet, BlockedWritesOnce
  <2>3. slave_at[s] = "unlock" \/ (InBlockPool(s) /\ slave_at[s] \in {"unlisted", "write"})
        => lines[s] = 0
    BY <2>2 DEF NothingYet
  <2>4. (InBlockPool(s) => lines[s] <= 1) /\ lines[s] \in 0 .. 2
    BY <2>2 DEF BlockedWritesOnce, MsTypeOK
  <2>5. /\ InBlockPool(s)' => InBlockPool(s) \/ (BlockThread /\ inp_th_id = s)
        /\ slave_at \in [Slaves -> SlaveLocations] /\ lines \in [Slaves -> 0 .. 2]
    BY <2>2, PoolSteps DEF MsTypeOK
  <2> USE <2>3, <2>4, <2>5 DEF poolVars, masterVars, historyVars, SlaveGoto
  <2>6. CASE BlockThread
    BY <2>6 DEF BlockThread
  <2>7. CASE ~BlockThread /\ (Master_thread \/ CleanUp)
    BY <2>7 DEF Master_thread, CleanUp, Prompt, LockPool, UnblockThread, SignalSlave, CancelSlave,
      DestroyCond, DestroyMutex
  <2>8. ASSUME NEW r \in Slaves, Slave_thread(r) \/ SpuriousWake(r), ~BlockThread
        PROVE  /\ \/ slave_at'[s] = "unlock"
                  \/ InBlockPool(s)' /\ slave_at'[s] \in {"unlisted", "write"}
                  => lines'[s] = 0
               /\ InBlockPool(s)' => lines'[s] <= 1
    <3>1. CASE CopyCollection(r)
      BY <2>8, <3>1 DEF CopyCollection
    <3>2. CASE LockCopy(r)
      BY <2>8, <3>2 DEF LockCopy
    <3>3. CASE LockWait(r)
      BY <2>8, <3>3 DEF LockWait
    <3>4. CASE FallAsleep(r) \/ LeaveWait(r) \/ Die(r) \/ SpuriousWake(r)
      BY <2>8, <3>4 DEF FallAsleep, LeaveWait, Die, SpuriousWake
    <3>6. CASE LockGone(r) \/ FailToSleep(r)
      BY <2>8, <3>6 DEF LockGone, FailToSleep
    <3>5. CASE Write(r)
      BY <2>8, <3>5 DEF Write
    <3> QED
      BY <2>8, <3>1, <3>2, <3>3, <3>4, <3>5, <3>6 DEF Slave_thread
  <2> QED
    BY <2>2, <2>6, <2>7, <2>8 DEF MsNext
<1> QED
  BY <1>1, <1>2, MsTypedHolds, PTL DEF MsSpec

-----------------------------------------------------------------------------
(* The signal that comes too early                                         *)

\* Who records its sleep or leaves wait() holds the mutex of wait(), if that is
\* not destroyed, which it is only when the master has ended.
WaitingHolds ==
  /\ \A s \in Slaves :
       slave_at[s] = "unlock" \/ (slave_at[s] = "record" /\ ~mutex_gone) => wait_mutex = s
  /\ mutex_gone => master_at = "exit" /\ cleaned = THREAD_NUM + 1

\* A slave on its way from its look at the pool to its sleep is in the pool,
\* unless a signal was sent to it meanwhile or is about to be.
GoesOnlyIfListed ==
  \A s \in Slaves :
    slave_at[s] \in {"listed", "wait", "record", "asleep"} /\ ~InBlockPool(s) =>
      s \in missed \/ (master_at = "signal" /\ inp_th_id = s)

\* A slave sleeps outside the pool only if its resume fell between its look
\* into the copy of the pool and its sleep, for any number of slaves.
THEOREM SleepsOutsideOnlyIfMissedHolds == MsSpec => []SleepsOutsideOnlyIfMissed
<1> DEFINE Inv == WaitingHolds /\ GoesOnlyIfListed
<1>1. MsInit => Inv
  BY DEF MsInit, WaitingHolds, GoesOnlyIfListed
<1>2. MsTypeOK /\ Requested /\ Inv /\ [MsNext]_msVars => Inv'
  <2>1. Inv /\ UNCHANGED msVars => Inv'
    BY DEF WaitingHolds, GoesOnlyIfListed, InBlockPool, msVars, poolVars, masterVars, mainVars,
      historyVars
  <2> SUFFICES ASSUME MsTypeOK, Requested, Inv, MsNext PROVE Inv'
    BY <2>1
  <2> USE DEF poolVars, masterVars, mainVars, historyVars, SlaveGoto, MasterGoto
  <2>2. slave_at \in [Slaves -> SlaveLocations] /\ None \notin Slaves
    BY IdFacts DEF MsTypeOK
  <2>3. WaitingHolds'
    <3> USE <2>2 DEF WaitingHolds
    <3>1. CASE Master_thread
      BY <3>1 DEF Master_thread, Prompt, LockPool, BlockThread, UnblockThread, SignalSlave
    <3>3. CASE CancelSlave \/ DestroyCond
      BY <3>3, ThreadNumAssumption DEF CancelSlave, DestroyCond
    <3>4. CASE DestroyMutex
      <4>1. /\ UNCHANGED <<slave_at, wait_mutex, master_at>> /\ master_at = "exit"
            /\ cleaned' = THREAD_NUM + 1
        BY <3>4 DEF DestroyMutex
      <4>2. ~mutex_gone
        BY <3>4, ThreadNumAssumption DEF DestroyMutex
      <4> QED
        BY <4>1, <4>2
    <3>2. ASSUME NEW r \in Slaves, Slave_thread(r) \/ SpuriousWake(r) PROVE WaitingHolds'
      <4>1. CASE CopyCollection(r) \/ LockCopy(r) \/ Write(r) \/ SpuriousWake(r)
        BY <3>2, <4>1 DEF CopyCollection, LockCopy, Write, SpuriousWake
      <4>2. CASE LockWait(r) \/ LockGone(r)
        BY <3>2, <4>2 DEF LockWait, LockGone
      <4>3. CASE FallAsleep(r) \/ FailToSleep(r) \/ LeaveWait(r)
        BY <3>2, <4>3 DEF FallAsleep, FailToSleep, LeaveWait
      <4>4. CASE Die(r)
        BY <3>2, <4>4 DEF Die
      <4> QED
        BY <3>2, <4>1, <4>2, <4>3, <4>4 DEF Slave_thread
    <3> QED
      BY <3>1, <3>2, <3>3, <3>4 DEF MsNext, CleanUp
  <2>4. GoesOnlyIfListed'
    <3> SUFFICES ASSUME NEW s \in Slaves,
                        slave_at'[s] \in {"listed", "wait", "record", "asleep"}, ~InBlockPool(s)'
                 PROVE  s \in missed' \/ (master_at' = "signal" /\ inp_th_id' = s)
      BY DEF GoesOnlyIfListed
    <3>1. ~InBlockPool(s) \/ (UnblockThread /\ inp_th_id = s)
      BY PoolSteps
    <3>2. slave_at[s] \in {"listed", "wait", "record", "asleep"} /\ ~InBlockPool(s) =>
            s \in missed \/ (master_at = "signal" /\ inp_th_id = s)
      BY DEF GoesOnlyIfListed
    <3>3. slave_at[s] = "record" /\ master_at = "signal" => wait_mutex = s
      BY DEF WaitingHolds
    <3> USE <2>2, <3>1, <3>2, <3>3
    <3>4. CASE UnblockThread
      BY <3>4 DEF UnblockThread
    <3>5. CASE SignalSlave
      BY <3>5 DEF SignalSlave
    <3>6. CASE Prompt \/ LockPool \/ BlockThread \/ CleanUp
      BY <3>6 DEF UnblockThread, Prompt, LockPool, BlockThread, CleanUp, CancelSlave, DestroyCond,
        DestroyMutex
    <3>7. ASSUME NEW r \in Slaves, Slave_thread(r) \/ SpuriousWake(r), ~UnblockThread
          PROVE  s \in missed' \/ (master_at' = "signal" /\ inp_th_id' = s)
      <4>1. CASE CopyCollection(r)
        BY <3>7, <4>1 DEF CopyCollection
      <4>2. CASE LockCopy(r)
        BY <3>7, <4>2 DEF LockCopy
      <4>3. CASE LockWait(r)
        BY <3>7, <4>3 DEF LockWait
      <4>4. CASE FallAsleep(r) \/ LeaveWait(r) \/ Write(r)
        BY <3>7, <4>4 DEF FallAsleep, LeaveWait, Write
      <4>6. CASE LockGone(r) \/ FailToSleep(r)
        BY <3>7, <4>6 DEF LockGone, FailToSleep
      <4>5. CASE Die(r) \/ SpuriousWake(r)
        BY <3>7, <4>5 DEF Die, SpuriousWake
      <4> QED
        BY <3>7, <4>1, <4>2, <4>3, <4>4, <4>5, <4>6 DEF Slave_thread
    <3> QED
      BY <3>4, <3>5, <3>6, <3>7 DEF MsNext, Master_thread
  <2> QED
    BY <2>3, <2>4
<1>3. Inv => SleepsOutsideOnlyIfMissed
  BY DEF GoesOnlyIfListed, SleepsOutsideOnlyIfMissed
<1> QED
  BY <1>1, <1>2, <1>3, MsTypedHolds, PTL DEF MsSpec

-----------------------------------------------------------------------------
(* Alternation and ring                                                    *)

\* How far a thread is ahead of the one before it, with the print it is about to
\* make and the one it is about to be signalled for.
NeverFarAhead ==
  \A t \in Members :
    /\ ahead[After(t)] + (IF turn_at[After(t)] = "print" THEN 1 ELSE 0)
         + (IF turn_at[t] = "signal" THEN 1 ELSE 0) <= 1 + spurious

TurnsBalance ==
  Cardinality(Turning) + lost = Cardinality(Starters) + spurious

\* There are n numbers below n.
LEMMA NumbersBelow ==
  ASSUME NEW n \in Nat
  PROVE  IsFiniteSet(0 .. n - 1) /\ Cardinality(0 .. n - 1) = n
  BY FS_Interval

\* The threads are numbered from 0, and there are two or more.
LEMMA MembersAre ==
  ASSUME TurnTypeOK
  PROVE  \E n \in Nat :
           n >= 2 /\ Members = 0 .. n - 1 /\ Cardinality(Members) = n /\ IsFiniteSet(Members)
<1>1. PICK n \in Nat : n >= 2 /\ Members = 0 .. n - 1
  <2>1. CASE who_am_i = "alternation"
    <3>1. 2 \in Nat /\ 2 >= 2 /\ {0, 1} = 0 .. 2 - 1
      OBVIOUS
    <3> QED
      BY <2>1, <3>1 DEF Members
  <2>2. CASE who_am_i # "alternation"
    BY <2>2 DEF Members
  <2> QED
    BY <2>1, <2>2
<1> QED
  BY <1>1, NumbersBelow

\* In a ring every thread comes after one other thread.
LEMMA RingFacts ==
  ASSUME TurnTypeOK
  PROVE  /\ \A t \in Members : After(t) \in Members /\ After(t) # t
         /\ \A t, u \in Members : After(t) = After(u) => t = u
         /\ \A t \in Members : \E u \in Members : t = After(u)
<1>1. PICK n \in Nat : n >= 2 /\ Members = 0 .. n - 1 /\ Cardinality(Members) = n /\
          IsFiniteSet(Members)
  BY MembersAre
<1>2. \A t \in 0 .. n - 1 : After(t) = IF t = n - 1 THEN 0 ELSE t + 1
  <2> TAKE t \in 0 .. n - 1
  <2>1. CASE t = n - 1
    BY <1>1, <2>1 DEF After
  <2>2. CASE t # n - 1
    BY <1>1, <2>2 DEF After
  <2> QED
    BY <2>1, <2>2
<1>3. \A t \in 0 .. n - 1 : \E u \in 0 .. n - 1 : t = After(u)
  <2> TAKE t \in 0 .. n - 1
  <2>1. CASE t = 0
    <3>1. n - 1 \in 0 .. n - 1 /\ After(n - 1) = 0
      BY <1>1, <1>2
    <3> QED
      BY <2>1, <3>1
  <2>2. CASE t # 0
    <3>1. t - 1 \in 0 .. n - 1 /\ t - 1 # n - 1 /\ t = (t - 1) + 1
      BY <1>1, <2>2
    <3>2. After(t - 1) = t
      BY <1>2, <3>1
    <3> QED
      BY <3>1, <3>2
  <2> QED
    BY <2>1, <2>2
<1>4. \A t \in 0 .. n - 1 : After(t) \in 0 .. n - 1 /\ After(t) # t
  BY <1>1, <1>2
<1>5. \A t, u \in 0 .. n - 1 : After(t) = After(u) => t = u
  <2> TAKE t, u \in 0 .. n - 1
  <2>1. After(t) = (IF t = n - 1 THEN 0 ELSE t + 1) /\ After(u) = IF u = n - 1 THEN 0 ELSE u + 1
    BY <1>2
  <2> QED
    BY <1>1, <2>1
<1> QED
  BY <1>1, <1>3, <1>4, <1>5

-----------------------------------------------------------------------------
(* Types                                                                   *)

\* Every variable keeps its type, and the program that runs stays the same.
LEMMA TurnTyped ==
  ASSUME TurnTypeOK, [TurnNext]_turnVars
  PROVE  TurnTypeOK' /\ Members' = Members /\ \A t : After(t)' = After(t)
<1> USE RingFacts DEF TurnTypeOK
<1>1. who_am_i' = who_am_i
  BY DEF TurnNext, Turn, PrintLine, SignalNext, Wait, WakeForNothing, turnVars
<1>2. Members' = Members
  BY <1>1 DEF Members
<1>3. \A t : After(t)' = After(t)
  BY <1>2 DEF After
<1>4. TurnTypeOK'
  <2>1. CASE UNCHANGED turnVars
    BY <1>2, <2>1 DEF turnVars
  <2>2. ASSUME NEW t \in Members, PrintLine(t) PROVE TurnTypeOK'
    BY <1>2, <2>2 DEF PrintLine
  <2>3. ASSUME NEW t \in Members, SignalNext(t) PROVE TurnTypeOK'
    BY <1>2, <2>3 DEF SignalNext
  <2>4. ASSUME NEW t \in Members, Wait(t) \/ WakeForNothing(t) PROVE TurnTypeOK'
    BY <1>2, <2>4 DEF Wait, WakeForNothing
  <2> QED
    BY <2>1, <2>2, <2>3, <2>4 DEF TurnNext, Turn
<1> QED
  BY <1>2, <1>3, <1>4

\* The threads start with a turn each, or the first of two with the only one.
LEMMA InitTurns == TurnInit => TurnTypeOK /\ NeverFarAhead /\ TurnsBalance
<1> SUFFICES ASSUME TurnInit PROVE TurnTypeOK /\ NeverFarAhead /\ TurnsBalance
  OBVIOUS
<1>1. TurnTypeOK
  BY DEF TurnInit, TurnTypeOK
<1>2. NeverFarAhead
  BY <1>1, RingFacts DEF TurnInit, NeverFarAhead
<1>3. Turning = Starters
  BY DEF TurnInit, Turning, Starters, Members
<1>4. Cardinality(Turning) \in Nat
  <2>1. IsFiniteSet(Members)
    BY <1>1, MembersAre
  <2>2. Turning \subseteq Members
    BY DEF Turning
  <2> QED
    BY <2>1, <2>2, FS_Subset, FS_CardinalityType
<1> QED
  BY <1>1, <1>2, <1>3, <1>4 DEF TurnInit, TurnsBalance

-----------------------------------------------------------------------------
(* The balance of turns                                                    *)

\* The turns are those of finitely many threads, and who started is settled.
LEMMA TurningFinite == TurnTypeOK => IsFiniteSet(Turning) /\ Cardinality(Turning) \in Nat
<1> SUFFICES ASSUME TurnTypeOK PROVE IsFiniteSet(Turning) /\ Cardinality(Turning) \in Nat
  OBVIOUS
<1>1. IsFiniteSet(Members)
  BY MembersAre
<1>2. Turning \subseteq Members
  BY DEF Turning
<1> QED
  BY <1>1, <1>2, FS_Subset, FS_CardinalityType

\* Every step keeps the sum of turns and lost signals, or adds one wake-up.
LEMMA BalanceKept ==
  ASSUME TurnTypeOK, TurnsBalance, [TurnNext]_turnVars
  PROVE  TurnsBalance'
<1> USE DEF TurnTypeOK
<1>1. IsFiniteSet(Turning) /\ Cardinality(Turning) \in Nat
  BY TurningFinite
<1>2. Members' = Members /\ \A t : After(t)' = After(t)
  BY TurnTyped
<1>3. Starters' = Starters
  BY <1>2 DEF Starters, TurnNext, Turn, PrintLine, SignalNext, Wait, WakeForNothing, turnVars
<1>4. SUFFICES ASSUME NEW k \in Int,
                      Cardinality(Turning') = Cardinality(Turning) + k,
                      lost' + k = lost + (spurious' - spurious),
                      lost' \in Int, spurious' \in Int
               PROVE  TurnsBalance'
  <2>1. CASE UNCHANGED turnVars
    <3>1. Turning' = Turning
      BY <1>2, <2>1 DEF Turning, turnVars
    <3> QED
      BY <1>1, <1>4, <2>1, <3>1 DEF turnVars
  <2>2. ASSUME NEW t \in Members, PrintLine(t) PROVE TurnsBalance'
    <3>1. Turning' = Turning
      BY <1>2, <2>2 DEF Turning, PrintLine
    <3> QED
      BY <1>1, <1>4, <2>2, <3>1 DEF PrintLine
  <2>3. ASSUME NEW t \in Members, Wait(t) PROVE TurnsBalance'
    <3>1. Turning' = Turning
      BY <1>2, <2>3 DEF Turning, Wait
    <3> QED
      BY <1>1, <1>4, <2>3, <3>1 DEF Wait
  <2>4. ASSUME NEW t \in Members, WakeForNothing(t) PROVE TurnsBalance'
    <3>1. Turning' = Turning \cup {t} /\ t \notin Turning
      BY <1>2, <2>4 DEF Turning, WakeForNothing
    <3>2. Cardinality(Turning') = Cardinality(Turning) + 1
      BY <1>1, <3>1, FS_AddElement
    <3> QED
      BY <1>4, <2>4, <3>2 DEF WakeForNothing
  <2>5. ASSUME NEW t \in Members, SignalNext(t) PROVE TurnsBalance'
    <3>1. t \in Turning /\ After(t) \in Members /\ After(t) # t
      BY <2>5, RingFacts DEF Turning, SignalNext
    <3>2. IsFiniteSet(Turning \ {t}) /\ Cardinality(Turning \ {t}) = Cardinality(Turning) - 1
      BY <1>1, <3>1, FS_RemoveElement
    <3>3. CASE turn_at[After(t)] = "asleep"
      <4>1. Turning' = (Turning \ {t}) \cup {After(t)} /\ After(t) \notin Turning \ {t}
        BY <1>2, <2>5, <3>1, <3>3 DEF Turning, SignalNext
      <4>2. Cardinality((Turning \ {t}) \cup {After(t)}) = Cardinality(Turning \ {t}) + 1
        BY <3>2, <4>1, FS_AddElement
      <4>3. Cardinality(Turning') = Cardinality(Turning) + 0
        BY <1>1, <3>2, <4>1, <4>2
      <4> QED
        BY <1>4, <2>5, <3>3, <4>3 DEF SignalNext
    <3>4. CASE turn_at[After(t)] # "asleep"
      <4>1. Turning' = Turning \ {t}
        BY <1>2, <2>5, <3>1, <3>4 DEF Turning, SignalNext
      <4>2. Cardinality(Turning') = Cardinality(Turning) + (-1)
        BY <1>1, <3>2, <4>1
      <4>3. lost' + (-1) = lost + (spurious' - spurious) /\ lost' \in Int /\ spurious' \in Int
        BY <2>5, <3>4 DEF SignalNext
      <4> QED
        BY <1>4, <4>2, <4>3
    <3> QED
      BY <3>3, <3>4
  <2> QED
    BY <2>1, <2>2, <2>3, <2>4, <2>5 DEF TurnNext, Turn
<1>5. Cardinality(Turning) + lost = Cardinality(Starters) + spurious
  BY DEF TurnsBalance
<1>6. Cardinality(Starters) = Cardinality(Turning) + lost - spurious
  <2>1. Cardinality(Starters) \in Int
    <3>1. IsFiniteSet(Members)
      BY MembersAre
    <3>2. IsFiniteSet(Starters)
      BY <3>1, FS_Singleton DEF Starters
    <3> QED
      BY <3>2, FS_CardinalityType
  <2> QED
    BY <1>1, <1>5, <2>1
<1> QED
  BY <1>1, <1>3, <1>4, <1>6 DEF TurnsBalance

-----------------------------------------------------------------------------
(* The order of the prints                                                 *)

\* Every step keeps each thread within one print of the one before it.
LEMMA OrderKept ==
  ASSUME TurnTypeOK, NeverFarAhead, [TurnNext]_turnVars
  PROVE  NeverFarAhead'
<1> USE DEF TurnTypeOK
<1>1. Members' = Members /\ \A t : After(t)' = After(t)
  BY TurnTyped
<1> SUFFICES ASSUME NEW u \in Members
             PROVE  ahead'[After(u)] + (IF turn_at'[After(u)] = "print" THEN 1 ELSE 0)
                      + (IF turn_at'[u] = "signal" THEN 1 ELSE 0) <= 1 + spurious'
  BY <1>1 DEF NeverFarAhead
<1> DEFINE v == After(u)
<1>2. v \in Members /\ v # u /\ \A t \in Members : After(t) \in Members /\ After(t) # t
  BY RingFacts
<1>3. \A t \in Members : After(t) = v => t = u
  BY RingFacts
<1>4. ahead[v] + (IF turn_at[v] = "print" THEN 1 ELSE 0)
        + (IF turn_at[u] = "signal" THEN 1 ELSE 0) <= 1 + spurious
  BY DEF NeverFarAhead
<1>5. ahead[v] \in Int /\ spurious \in Int
  BY <1>2
<1> HIDE DEF v
<1> SUFFICES ahead'[v] + (IF turn_at'[v] = "print" THEN 1 ELSE 0)
               + (IF turn_at'[u] = "signal" THEN 1 ELSE 0) <= 1 + spurious'
  BY DEF v
<1> USE <1>2, <1>3, <1>4, <1>5
<1>6. CASE UNCHANGED turnVars
  BY <1>6 DEF turnVars
<1>7. ASSUME NEW t \in Members, PrintLine(t)
      PROVE  ahead'[v] + (IF turn_at'[v] = "print" THEN 1 ELSE 0)
               + (IF turn_at'[u] = "signal" THEN 1 ELSE 0) <= 1 + spurious'
  <2>1. CASE t = u
    BY <1>7, <2>1 DEF PrintLine, v
  <2>2. CASE t = v
    BY <1>7, <2>2 DEF PrintLine
  <2>3. CASE t # u /\ t # v
    BY <1>7, <2>3 DEF PrintLine
  <2> QED
    BY <2>1, <2>2, <2>3
<1>8. ASSUME NEW t \in Members, SignalNext(t)
      PROVE  ahead'[v] + (IF turn_at'[v] = "print" THEN 1 ELSE 0)
               + (IF turn_at'[u] = "signal" THEN 1 ELSE 0) <= 1 + spurious'
  <2>1. CASE t = u
    BY <1>8, <2>1 DEF SignalNext, v
  <2>2. CASE t # u
    BY <1>8, <2>2 DEF SignalNext
  <2> QED
    BY <2>1, <2>2
<1>9. ASSUME NEW t \in Members, Wait(t) \/ WakeForNothing(t)
      PROVE  ahead'[v] + (IF turn_at'[v] = "print" THEN 1 ELSE 0)
               + (IF turn_at'[u] = "signal" THEN 1 ELSE 0) <= 1 + spurious'
  BY <1>9 DEF Wait, WakeForNothing
<1> QED
  BY <1>6, <1>7, <1>8, <1>9 DEF TurnNext, Turn

\* Turns pass on, are lost with their signal or come out of nothing, and nobody
\* prints more than once ahead of the one before it, plus the wake-ups for no
\* reason, in rings of every size (Alternation.c and sequence.c).
THEOREM TurnsPassOrAreLostHolds == TurnSpec => []TurnsPassOrAreLost
<1> DEFINE Inv == TurnTypeOK /\ NeverFarAhead /\ TurnsBalance
<1>1. TurnInit => Inv
  BY InitTurns
<1>2. Inv /\ [TurnNext]_turnVars => Inv'
  BY TurnTyped, BalanceKept, OrderKept
<1>3. Inv => TurnsPassOrAreLost
  <2> SUFFICES ASSUME Inv PROVE \A t \in Members : ahead[t] <= 1 + spurious
    BY DEF TurnsPassOrAreLost, TurnsBalance
  <2> TAKE t \in Members
  <2>1. PICK u \in Members : t = After(u)
    BY RingFacts
  <2>2. ahead[t] \in Int /\ spurious \in Int
    BY DEF TurnTypeOK
  <2>3. ahead[t] + (IF turn_at[t] = "print" THEN 1 ELSE 0)
          + (IF turn_at[u] = "signal" THEN 1 ELSE 0) <= 1 + spurious
    BY <2>1 DEF NeverFarAhead
  <2> QED
    BY <2>2, <2>3
<1> QED
  BY <1>1, <1>2, <1>3, PTL DEF TurnSpec

-----------------------------------------------------------------------------
(* The watcher                                                             *)

\* A watcher that was not woken for nothing has had at most one signal, when the
\* increments reached the limit, and sleeps after the update that followed.
WatchInv ==
  wakes = 0 =>
    \/ /\ updates = 0 /\ count = done[2] + done[3]
       /\ watch_at \in {"test", "asleep"} \/ (watch_at = "update" /\ count >= COUNT_LIMIT)
    \/ /\ updates = 1 /\ count = done[2] + done[3] + UPDATE
       /\ watch_at = "asleep" /\ done[2] + done[3] >= COUNT_LIMIT

\* Below twice the limit there is one multiple of it.
LEMMA OneMultiple ==
  ASSUME NEW d \in Nat \ {0}, NEW n \in Nat, 0 < n, n < 2 * d, n % d = 0
  PROVE  n = d
  OBVIOUS

\* Types hold initially and after every step.
LEMMA WatchTyped ==
  /\ WatchInit => WatchTypeOK /\ WatchInv
  /\ WatchTypeOK /\ [WatchNext]_watchVars => WatchTypeOK'
<1> USE WatcherAssumption DEF WatchTypeOK, Counters
<1>1. WatchInit => WatchTypeOK /\ WatchInv
  BY DEF WatchInit, WatchInv
<1>2. WatchTypeOK /\ UNCHANGED watchVars => WatchTypeOK'
  BY DEF watchVars
<1>3. ASSUME WatchTypeOK, NEW c \in Counters, inc_count(c) PROVE WatchTypeOK'
  BY <1>3 DEF inc_count
<1>4. ASSUME WatchTypeOK, watch_count \/ WakeUpEarly PROVE WatchTypeOK'
  BY <1>4 DEF watch_count, Test, Update, WakeUpEarly
<1> QED
  BY <1>1, <1>2, <1>3, <1>4 DEF WatchNext

\* No step ends an undisturbed watcher.
LEMMA WatchKept ==
  ASSUME WatchTypeOK, WatchInv, [WatchNext]_watchVars
  PROVE  WatchInv'
<1> USE WatcherAssumption
<1>1. /\ count \in Nat /\ done \in [Counters -> 0 .. TCOUNT] /\ Counters = {2, 3}
      /\ done[2] \in 0 .. TCOUNT /\ done[3] \in 0 .. TCOUNT /\ wakes \in Nat
  BY DEF WatchTypeOK, Counters
<1>2. CASE UNCHANGED watchVars
  BY <1>2 DEF WatchInv, watchVars
<1>3. ASSUME NEW c \in Counters, inc_count(c) PROVE WatchInv'
  <2>1. /\ count' = count + 1 /\ UNCHANGED <<updates, wakes>>
        /\ done'[2] + done'[3] = done[2] + done[3] + 1
        /\ done'[2] + done'[3] <= 2 * TCOUNT
    BY <1>1, <1>3 DEF inc_count
  <2>2. CASE updates = 0
    <3>1. wakes = 0 /\ watch_at = "asleep" /\ count' % COUNT_LIMIT = 0 => count' >= COUNT_LIMIT
      <4>1. wakes = 0 => count' < 2 * COUNT_LIMIT
        BY <2>1, <2>2, <1>1, LimitsAssumption DEF WatchInv
      <4> QED
        BY <4>1, <2>1, <1>1, OneMultiple
    <3> QED
      BY <2>1, <2>2, <3>1, <1>1, <1>3 DEF WatchInv, inc_count
  <2>3. CASE updates = 1 /\ wakes = 0
    <3>1. count' \in COUNT_LIMIT + UPDATE + 1 .. 2 * TCOUNT + UPDATE
      BY <2>1, <2>3, <1>1 DEF WatchInv
    <3>2. count' % COUNT_LIMIT # 0
      BY <3>1, LimitsAssumption
    <3> QED
      BY <2>1, <2>3, <3>2, <1>1, <1>3 DEF WatchInv, inc_count
  <2> QED
    BY <2>1, <2>2, <2>3 DEF WatchInv
<1>4. CASE Test
  BY <1>1, <1>4, LimitsAssumption DEF WatchInv, Test
<1>5. CASE Update
  <2>1. wakes = 0 => count = done[2] + done[3] /\ updates = 0 /\ count >= COUNT_LIMIT
    BY <1>5 DEF WatchInv, Update
  <2>2. count' = count + UPDATE /\ updates' = updates + 1 /\ UNCHANGED <<done, wakes>>
        /\ watch_at' = IF count' < COUNT_LIMIT * 10 THEN "asleep" ELSE "done"
    BY <1>5 DEF Update
  <2>3. wakes = 0 => count' < COUNT_LIMIT * 10
    BY <2>1, <2>2, <1>1, LimitsAssumption
  <2> QED
    BY <2>1, <2>2, <2>3, <1>1 DEF WatchInv
<1>6. CASE WakeUpEarly
  BY <1>1, <1>6 DEF WatchInv, WakeUpEarly
<1> QED
  BY <1>2, <1>3, <1>4, <1>5, <1>6 DEF WatchNext, watch_count

\* The watcher, and with it conditionalVariables.c, ends only by a wake-up for no
\* reason, wherever the numbers stand to each other as the program's do.
THEOREM EndsOnlyByChanceHolds == WatchSpec => []EndsOnlyByChance
<1>1. WatchTypeOK /\ WatchInv /\ [WatchNext]_watchVars => WatchInv'
  BY WatchKept
<1>2. WatchTypeOK /\ WatchInv => EndsOnlyByChance
  BY WatcherAssumption DEF WatchTypeOK, WatchInv, EndsOnlyByChance
<1> QED
  BY WatchTyped, <1>1, <1>2, PTL DEF WatchSpec

-----------------------------------------------------------------------------
(* The programs side by side                                               *)

\* A step of the composition is a step of one program, or of none.
LEMMA EachProgram == Spec => MsSpec /\ TurnSpec /\ WatchSpec
<1>1. Init => MsInit /\ TurnInit /\ WatchInit
  BY DEF Init
<1>2. [Next]_vars => [MsNext]_msVars /\ [TurnNext]_turnVars /\ [WatchNext]_watchVars
  BY DEF Next, RwOnly, MsOnly, TurnOnly, WatchOnly, vars
<1> QED
  BY <1>1, <1>2, PTL DEF Spec, MsSpec, TurnSpec, WatchSpec

\* Whichever of the programs runs, it keeps what is proved of it alone.
THEOREM MutexProgramsHold ==
  Spec => [](/\ BlockedWritesOnce /\ SleepsOutsideOnlyIfMissed
             /\ TurnsPassOrAreLost /\ EndsOnlyByChance)
<1> QED
  BY EachProgram, BlockedWritesOnceHolds, SleepsOutsideOnlyIfMissedHolds, TurnsPassOrAreLostHolds,
     EndsOnlyByChanceHolds, PTL

===============================================================================
