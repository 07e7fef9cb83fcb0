-------------------------- MODULE ProducerConsumer ---------------------------
(***************************************************************************)
(* src/IPC/IPC/pthreads/producer_consumer.c: one producer and one consumer *)
(* over RESOURCE_UNITS slots guarded by resrc_mutex.  Each looks for a     *)
(* slot under the mutex; if there is none it releases the mutex and then   *)
(* calls wait(), which takes the mutex again before it sleeps.  The        *)
(* monitor thread only prints, and is left out.                            *)
(*                                                                         *)
(* A critical section that ends with the release of the mutex is one step  *)
(* after the step that takes the mutex.                                    *)
(***************************************************************************)
EXTENDS ThreadApi, Integers, FiniteSets

CONSTANTS PRODUCER, CONSUMER, RESOURCE_UNITS

ASSUME ThreadsAssumption ==
  /\ PRODUCER # CONSUMER
  /\ Threads = {PRODUCER, CONSUMER}
  /\ "resrc_mutex" \in Mutexes

ASSUME UnitsAssumption == RESOURCE_UNITS \in Nat \ {0}

VARIABLES
  slot,  \* resource.slot: AVAILABLE or 1
  pc     \* where each thread is

vars == <<apiVars, slot, pc>>

AVAILABLE == 0
Slots == 0 .. RESOURCE_UNITS - 1
M == "resrc_mutex"

Steps == {"lock", "scan", "wait", "sleep", "asleep", "unlock"}

Init ==
  /\ ApiInit
  /\ slot = [i \in Slots |-> AVAILABLE]
  /\ pc = [t \in Threads |-> "lock"]

Goto(t, l) == pc' = [pc EXCEPT ![t] = l]

Available(i) == slot[i] = AVAILABLE

-----------------------------------------------------------------------------
Lock(t) ==
  /\ pc[t] = "lock"
  /\ MutexLock(t, M)
  /\ Goto(t, "scan")
  /\ UNCHANGED <<condVars, slot>>

\* Mutant of Produce: no break after the first slot, every one is filled.
MutProduceNoBreak ==
  /\ pc[PRODUCER] = "scan"
  /\ \E i \in Slots : Available(i)
  /\ slot' = [i \in Slots |-> 1]
  /\ Signal(PRODUCER, CONSUMER)
  /\ MutexUnlock(M)
  /\ Goto(PRODUCER, "lock")

\* The producer fills the first available slot, signals and unlocks.
Produce ==
  /\ pc[PRODUCER] = "scan"
  /\ \E i \in Slots :
       /\ Available(i) /\ \A j \in 0 .. i - 1 : ~Available(j)
       /\ slot' = [slot EXCEPT ![i] = 1]
  /\ Signal(PRODUCER, CONSUMER)
  /\ MutexUnlock(M)
  /\ Goto(PRODUCER, "lock")

\* No slot is available: unlock, and only then call wait().
FoundFull ==
  /\ pc[PRODUCER] = "scan"
  /\ \A i \in Slots : ~Available(i)
  /\ MutexUnlock(M)
  /\ Goto(PRODUCER, "wait")
  /\ UNCHANGED <<condVars, slot>>

\* The consumer empties the first filled slot, signals and unlocks.
Consume ==
  /\ pc[CONSUMER] = "scan"
  /\ \E i \in Slots :
       /\ ~Available(i) /\ \A j \in 0 .. i - 1 : Available(j)
       /\ slot' = [slot EXCEPT ![i] = AVAILABLE]
  /\ Signal(CONSUMER, PRODUCER)
  /\ MutexUnlock(M)
  /\ Goto(CONSUMER, "lock")

\* Mutant of FoundEmpty: the scan ends one slot early.
MutFoundEmptyOffByOne ==
  /\ pc[CONSUMER] = "scan"
  /\ \A i \in Slots \ {RESOURCE_UNITS - 1} : Available(i)
  /\ MutexUnlock(M)
  /\ Goto(CONSUMER, "wait")
  /\ UNCHANGED <<condVars, slot>>

\* Mutant of FoundEmpty: the call of wait() is missing, the consumer polls.
MutFoundEmptyPolls ==
  /\ pc[CONSUMER] = "scan"
  /\ \A i \in Slots : Available(i)
  /\ MutexUnlock(M)
  /\ Goto(CONSUMER, "lock")
  /\ UNCHANGED <<condVars, slot>>

FoundEmpty ==
  /\ pc[CONSUMER] = "scan"
  /\ \A i \in Slots : Available(i)
  /\ MutexUnlock(M)
  /\ Goto(CONSUMER, "wait")
  /\ UNCHANGED <<condVars, slot>>

EnterWait(t) ==
  /\ pc[t] = "wait"
  /\ WaitLock(t, M)
  /\ Goto(t, "sleep")
  /\ UNCHANGED slot

FallAsleep(t) ==
  /\ pc[t] = "sleep"
  /\ WaitSleep(t, M)
  /\ Goto(t, "asleep")
  /\ UNCHANGED slot

WakeUp(t) ==
  /\ pc[t] = "asleep"
  /\ WaitWake(t, M)
  /\ Goto(t, "unlock")
  /\ UNCHANGED slot

LeaveWait(t) ==
  /\ pc[t] = "unlock"
  /\ WaitUnlock(t, M)
  /\ Goto(t, "lock")
  /\ UNCHANGED slot

Spurious(t) ==
  /\ SpuriousWakeup(t)
  /\ UNCHANGED <<slot, pc>>

-----------------------------------------------------------------------------
Common(t) ==
  Lock(t) \/ EnterWait(t) \/ FallAsleep(t) \/ WakeUp(t) \/ LeaveWait(t)

ProducerStep == Common(PRODUCER) \/ Produce \/ FoundFull
ConsumerStep == Common(CONSUMER) \/ Consume \/ FoundEmpty

Next ==
  \/ ProducerStep
  \/ ConsumerStep
  \/ \E t \in Threads : Spurious(t)

Spec == Init /\ [][Next]_vars

(***************************************************************************)
(* Strong fairness of each thread: the kernel schedules every runnable     *)
(* thread, and a thread that asks for the mutex again and again gets it.   *)
(* Nothing makes a spurious wake-up happen.                                *)
(***************************************************************************)
FairSpec == Spec /\ SF_vars(ProducerStep) /\ SF_vars(ConsumerStep)

-----------------------------------------------------------------------------
TypeOK ==
  /\ ApiTypeOK
  /\ slot \in [Slots -> {AVAILABLE, 1}]
  /\ pc \in [Threads -> Steps]

Holding == {"scan", "sleep", "unlock"}

\* A thread is in a critical section exactly when it holds the mutex: the
\* release before wait() and the release inside pthread_cond_wait() never
\* leave two threads in a section.
LockDiscipline ==
  \A t \in Threads : pc[t] \in Holding <=> holder[M] = t

\* A thread that has found no slot and has not been woken since.
Stuck(t) == pc[t] \in {"wait", "sleep"} \/ t \in sleeping

\* When both threads have decided to block, the store is entirely full or
\* entirely empty: the hang of the lost signal happens only at a limit of the
\* store, never with slots left that one of them could use.
StuckOnlyAtLimit ==
  (\A t \in Threads : Stuck(t))
    => \/ \A i \in Slots : Available(i)
       \/ \A i \in Slots : ~Available(i)

Filled == Cardinality({i \in Slots : ~Available(i)})

Store == INSTANCE BoundedBuffer WITH Capacity <- RESOURCE_UNITS, level <- Filled

\* Every step adds one unit below the capacity, takes one unit above zero, or
\* leaves the store alone: no slot is filled twice or consumed twice.
ImplementsBoundedBuffer == Store!Spec

\* A thread asleep in wait() is resumed by the other, unless that one falls
\* asleep too: only both together can hang.
SleeperResumed ==
  \A t \in Threads :
    t \in sleeping ~> (t \notin sleeping \/ sleeping = Threads)

-----------------------------------------------------------------------------
\* The messages of producer_consumer.c:67 and :102, "producer thread resumes as
\* it recieves the signal": a thread asleep in wait() is resumed.
SleeperResumes == \A t \in Threads : t \in sleeping ~> t \notin sleeping

=============================================================================
