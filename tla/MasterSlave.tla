----------------------------- MODULE MasterSlave -----------------------------
(***************************************************************************)
(* src/IPC/IPC/pthreads/Mutexes/Master_slave_threads.c: a master thread    *)
(* that blocks and resumes slave threads on request through a pool of      *)
(* blocked threads, and slaves that look for themselves in the pool before *)
(* every line they write and sleep in wait() when they are there.  When    *)
(* the master exits main() cancels the slaves and destroys their condition *)
(* variables and the mutex, while slaves may still be in wait().  What     *)
(* that does is undefined; the model has what the C library of the         *)
(* repository's programs, glibc, does and may do: a mutex that is held or  *)
(* slept with is not destroyed, one that is destroyed cannot be locked     *)
(* (the error is not looked at), and a destroyed condition variable works  *)
(* as before or fails.                                                     *)
(*                                                                         *)
(* A slave looks into a COPY of the pool, which holds a copy of its mutex: *)
(* the lock of the copy excludes nobody, and never ends if the copy was    *)
(* made while the master held the mutex.  The copy is made in ascending    *)
(* order, the slots before the mutex.                                      *)
(*                                                                         *)
(* signal() changes everything under the mutex that wait() holds until it  *)
(* sleeps, and is one step.  The ids the master asks for are those it      *)
(* offers, 0 to THREAD_NUM-1.  The fields of _pthread_t that are only      *)
(* printed are left out.  A pending request to end takes effect at the     *)
(* prints, the write, the sleep and the wait, not in pthread_mutex_lock(). *)
(***************************************************************************)
EXTENDS Integers

CONSTANT THREAD_NUM

ASSUME ThreadNumAssumption == THREAD_NUM \in Nat /\ THREAD_NUM >= 2

VARIABLES
  master_at,    \* where the master is
  inp_th_id,    \* the thread it blocks or resumes
  blocked,      \* gl_blocked_th_pool.blocked_thread_collection
  pool_mutex,   \* whether the master holds gl_blocked_th_pool.pool_mutex
  wait_mutex,   \* the holder of mutex
  slave_at,     \* where each slave is
  cancelled,    \* the slaves main() has asked to end
  cleaned,      \* how many objects main() has tried to destroy: the conditions, then mutex
  mutex_gone,   \* mutex has been destroyed
  lines,        \* history: lines written since the slave was blocked or woke up, at most 2
  missed        \* history: slaves whose last signal came after their look and before their sleep

poolVars == <<blocked, pool_mutex>>
masterVars == <<master_at, inp_th_id>>
mainVars == <<cancelled, cleaned, mutex_gone>>
historyVars == <<lines, missed>>
msVars == <<masterVars, poolVars, wait_mutex, slave_at, mainVars, historyVars>>

Ids == 0 .. THREAD_NUM - 1
Slaves == Ids \ {0}
None == -1

MsInit ==
  /\ master_at = "prompt" /\ inp_th_id = None
  /\ blocked = [i \in Ids |-> None]
  /\ pool_mutex = FALSE
  /\ wait_mutex = None
  /\ slave_at = [s \in Slaves |-> "look"]
  /\ cancelled = {} /\ cleaned = 0 /\ mutex_gone = FALSE
  /\ lines = [s \in Slaves |-> 0]
  /\ missed = {}

\* am_i_in_block_pool()
InBlockPool(s) == \E i \in Ids : blocked[i] = s

MasterGoto(l) == master_at' = l
SlaveGoto(s, l) == slave_at' = [slave_at EXCEPT ![s] = l]

-----------------------------------------------------------------------------
(* The master                                                              *)

\* It asks what to do with which thread, refuses itself, and prints a record or
\* the pool without a change.
Prompt ==
  /\ master_at = "prompt"
  /\ \/ \E id \in Ids \ {0}, l \in {"block", "resume"} :
          inp_th_id' = id /\ MasterGoto(l)
     \/ \E l \in {"prompt", "exit"} :
          MasterGoto(l) /\ UNCHANGED inp_th_id
  /\ UNCHANGED <<poolVars, wait_mutex, slave_at, mainVars, historyVars>>

LockPool ==
  /\ \/ master_at = "block" /\ MasterGoto("add")
     \/ master_at = "resume" /\ MasterGoto("remove")
  /\ pool_mutex' = TRUE
  /\ UNCHANGED <<inp_th_id, blocked, wait_mutex, slave_at, mainVars, historyVars>>

\* _pool_add(): the first empty slot; a full pool is not changed.
PoolAdd(s) ==
  IF \E i \in Ids : blocked[i] = None
  THEN \E i \in Ids :
         /\ blocked[i] = None /\ \A j \in Ids : blocked[j] = None => i <= j
         /\ blocked' = [blocked EXCEPT ![i] = s]
  ELSE UNCHANGED blocked

BlockThread ==
  /\ master_at = "add"
  /\ IF InBlockPool(inp_th_id)
     THEN UNCHANGED <<blocked, lines>>
     ELSE PoolAdd(inp_th_id) /\ lines' = [lines EXCEPT ![inp_th_id] = 0]
  /\ pool_mutex' = FALSE
  /\ MasterGoto("prompt")
  /\ inp_th_id' = None
  /\ UNCHANGED <<wait_mutex, slave_at, mainVars, missed>>

\* Mutant of UnblockThread: no signal follows.
MutUnblockThreadSilent ==
  /\ master_at = "remove"
  /\ blocked' = [i \in Ids |-> IF blocked[i] = inp_th_id THEN None ELSE blocked[i]]
  /\ pool_mutex' = FALSE
  /\ MasterGoto("prompt")
  /\ inp_th_id' = None
  /\ UNCHANGED <<wait_mutex, slave_at, mainVars, historyVars>>

\* The first slot that holds the thread; the signal follows in any case.
UnblockThread ==
  /\ master_at = "remove"
  /\ IF InBlockPool(inp_th_id)
     THEN \E i \in Ids :
            /\ blocked[i] = inp_th_id /\ \A j \in Ids : blocked[j] = inp_th_id => i <= j
            /\ blocked' = [blocked EXCEPT ![i] = None]
     ELSE UNCHANGED blocked
  /\ pool_mutex' = FALSE
  /\ MasterGoto("signal")
  /\ UNCHANGED <<inp_th_id, wait_mutex, slave_at, mainVars, historyVars>>

\* signal(): a slave that does not sleep yet never hears of it.
SignalSlave ==
  LET s == inp_th_id IN
  /\ master_at = "signal"
  /\ wait_mutex = None
  /\ IF slave_at[s] = "asleep" THEN SlaveGoto(s, "woken") ELSE UNCHANGED slave_at
  /\ missed' = IF slave_at[s] \in {"listed", "wait"} THEN missed \cup {s} ELSE missed
  /\ MasterGoto("prompt")
  /\ inp_th_id' = None
  /\ UNCHANGED <<poolVars, wait_mutex, mainVars, lines>>

-----------------------------------------------------------------------------
(* main(), when the master has ended                                       *)

\* It cancels the slaves in the order of their ids.
CancelSlave ==
  /\ master_at = "exit"
  /\ \E s \in Slaves \ cancelled :
       /\ \A r \in Slaves \ cancelled : s <= r
       /\ cancelled' = cancelled \cup {s}
  /\ UNCHANGED <<masterVars, poolVars, wait_mutex, slave_at, cleaned, mutex_gone, historyVars>>

\* cleanup_pthread(), of the master's record first.
DestroyCond ==
  /\ master_at = "exit" /\ cancelled = Slaves
  /\ cleaned < THREAD_NUM
  /\ cleaned' = cleaned + 1
  /\ UNCHANGED <<masterVars, poolVars, wait_mutex, slave_at, cancelled, mutex_gone, historyVars>>

InUse == wait_mutex # None \/ \E s \in Slaves : slave_at[s] \in {"asleep", "woken"}

DestroyMutex ==
  /\ master_at = "exit" /\ cleaned = THREAD_NUM
  /\ cleaned' = cleaned + 1
  /\ mutex_gone' = ~InUse
  /\ UNCHANGED <<masterVars, poolVars, wait_mutex, slave_at, cancelled, historyVars>>

-----------------------------------------------------------------------------
(* A slave                                                                 *)

\* Mutant of CopyCollection: the first slot is not looked at.
MutCopyCollectionShort(s) ==
  /\ slave_at[s] = "look"
  /\ SlaveGoto(s, IF \E i \in Ids \ {0} : blocked[i] = s THEN "listed" ELSE "unlisted")
  /\ UNCHANGED <<masterVars, poolVars, wait_mutex, mainVars, historyVars>>

\* The slots are copied; what the slave finds there is decided.
CopyCollection(s) ==
  /\ slave_at[s] = "look"
  /\ SlaveGoto(s, IF InBlockPool(s) THEN "listed" ELSE "unlisted")
  /\ UNCHANGED <<masterVars, poolVars, wait_mutex, mainVars, historyVars>>

\* The mutex is copied and the copy locked: if it is held, for ever.
LockCopy(s) ==
  /\ \/ pool_mutex /\ slave_at[s] \in {"listed", "unlisted"} /\ SlaveGoto(s, "stuck")
     \/ ~pool_mutex /\ slave_at[s] = "listed" /\ SlaveGoto(s, "wait")
     \/ ~pool_mutex /\ slave_at[s] = "unlisted" /\ SlaveGoto(s, "write")
  /\ UNCHANGED <<masterVars, poolVars, wait_mutex, mainVars, historyVars>>

LockWait(s) ==
  /\ wait_mutex = None /\ ~mutex_gone
  /\ \/ /\ slave_at[s] = "wait" /\ SlaveGoto(s, "record")
        /\ UNCHANGED historyVars
     \/ /\ slave_at[s] = "woken" /\ SlaveGoto(s, "unlock")
        /\ lines' = [lines EXCEPT ![s] = 0]
        /\ missed' = missed \ {s}
  /\ wait_mutex' = s
  /\ UNCHANGED <<masterVars, poolVars, mainVars>>

\* The mutex cannot be locked any more, and wait() goes on without it.
LockGone(s) ==
  /\ mutex_gone
  /\ slave_at[s] = "wait" /\ SlaveGoto(s, "record")
  /\ UNCHANGED <<masterVars, poolVars, wait_mutex, mainVars, historyVars>>

FallAsleep(s) ==
  /\ slave_at[s] = "record" /\ ~mutex_gone
  /\ wait_mutex' = None
  /\ SlaveGoto(s, "asleep")
  /\ UNCHANGED <<masterVars, poolVars, mainVars, historyVars>>

\* pthread_cond_wait() fails and wait() ends the slave, which releases nothing.
FailToSleep(s) ==
  /\ slave_at[s] = "record"
  /\ mutex_gone \/ cleaned > s
  /\ SlaveGoto(s, "dead")
  /\ UNCHANGED <<masterVars, poolVars, wait_mutex, mainVars, historyVars>>

LeaveWait(s) ==
  /\ slave_at[s] = "unlock"
  /\ wait_mutex' = None
  /\ SlaveGoto(s, "write")
  /\ UNCHANGED <<masterVars, poolVars, mainVars, historyVars>>

\* Mutant of Write: the next line is written without another look.
MutWriteOn(s) ==
  /\ slave_at[s] = "write" /\ s \notin cancelled
  /\ lines' = [lines EXCEPT ![s] = IF @ < 2 THEN @ + 1 ELSE @]
  /\ UNCHANGED <<masterVars, poolVars, wait_mutex, slave_at, mainVars, missed>>

\* A line and the sleep(1), in which a cancelled slave ends.
Write(s) ==
  /\ slave_at[s] = "write" /\ s \notin cancelled
  /\ lines' = [lines EXCEPT ![s] = IF @ < 2 THEN @ + 1 ELSE @]
  /\ SlaveGoto(s, "look")
  /\ UNCHANGED <<masterVars, poolVars, wait_mutex, mainVars, missed>>

SpuriousWake(s) ==
  /\ slave_at[s] = "asleep"
  /\ SlaveGoto(s, "woken")
  /\ UNCHANGED <<masterVars, poolVars, wait_mutex, mainVars, historyVars>>

\* Mutant of Die: a slave that sleeps is not cancelled.
MutDieAwake(s) ==
  /\ s \in cancelled
  /\ slave_at[s] \in {"write", "wait", "record"}
  /\ SlaveGoto(s, "dead")
  /\ UNCHANGED <<masterVars, poolVars, wait_mutex, mainVars, historyVars>>

\* A cancelled slave ends, with mutex if it holds it: a slave that sleeps takes
\* it first, and nobody releases it.
Die(s) ==
  /\ s \in cancelled
  /\ \/ slave_at[s] \in {"write", "wait", "record"} /\ UNCHANGED wait_mutex
     \/ slave_at[s] = "asleep" /\ wait_mutex = None /\ wait_mutex' = s
  /\ SlaveGoto(s, "dead")
  /\ UNCHANGED <<masterVars, poolVars, mainVars, historyVars>>

-----------------------------------------------------------------------------
Master_thread == Prompt \/ LockPool \/ BlockThread \/ UnblockThread \/ SignalSlave

CleanUp == CancelSlave \/ DestroyCond \/ DestroyMutex

Slave_thread(s) ==
  \/ CopyCollection(s) \/ LockCopy(s) \/ LockWait(s) \/ LockGone(s) \/ FallAsleep(s)
  \/ FailToSleep(s) \/ LeaveWait(s) \/ Write(s) \/ Die(s)

MsNext ==
  \/ Master_thread \/ CleanUp
  \/ \E s \in Slaves : Slave_thread(s) \/ SpuriousWake(s)

MsSpec == MsInit /\ [][MsNext]_msVars

-----------------------------------------------------------------------------
MasterLocations == {"prompt", "block", "resume", "add", "remove", "signal", "exit"}

SlaveLocations ==
  {"look", "listed", "unlisted", "stuck", "wait", "record", "asleep", "woken", "unlock",
   "write", "dead"}

MsTypeOK ==
  /\ master_at \in MasterLocations
  /\ inp_th_id \in Ids \cup {None}
  /\ blocked \in [Ids -> Slaves \cup {None}]
  /\ pool_mutex \in BOOLEAN
  /\ wait_mutex \in Slaves \cup {None}
  /\ slave_at \in [Slaves -> SlaveLocations]
  /\ cancelled \subseteq Slaves /\ cleaned \in 0 .. THREAD_NUM + 1 /\ mutex_gone \in BOOLEAN
  /\ lines \in [Slaves -> 0 .. 2]
  /\ missed \subseteq Slaves

\* "realised that is has been black listed, hence blocking itself": from the
\* moment a slave is in the pool it writes at most one more line before it
\* sleeps, and one more after each time it wakes up.
BlockedWritesOnce == \A s \in Slaves : InBlockPool(s) => lines[s] <= 1

\* No slot holds a slave that another one holds, so that the master removes a
\* slave when it resumes it.
ListedOnce == \A i, j \in Ids : blocked[i] = blocked[j] /\ blocked[i] # None => i = j

\* A slave that sleeps outside the pool, where only another resume can help it,
\* got its signal between its look at the pool and its sleep, or is about to.
SleepsOutsideOnlyIfMissed ==
  \A s \in Slaves :
    slave_at[s] = "asleep" /\ ~InBlockPool(s) =>
      s \in missed \/ (master_at = "signal" /\ inp_th_id = s)

\* Why a slave can do nothing more: it locked the copy of a held mutex, or
\* waits for a mutex that a cancelled slave has taken with it.
Stuck(s) == slave_at[s] = "stuck"
MutexIsLost == wait_mutex # None /\ slave_at[wait_mutex] = "dead"

=============================================================================
