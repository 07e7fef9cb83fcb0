------------------------------ MODULE ThreadApi ------------------------------
(***************************************************************************)
(* The thread library of src/IPC/IPC/pthreads/threadApi.c: the thread      *)
(* record _pthread_t, wait() and signal().  Every thread has a condition   *)
(* variable of its own, on which only that thread ever sleeps, so the wait *)
(* set of a condition variable is a subset of one thread and "sleeping" is *)
(* the union of all of them.                                               *)
(*                                                                         *)
(* wait() is four steps: take the mutex, go to sleep (which releases the   *)
(* mutex), take the mutex again after the wake-up, release it.  signal()   *)
(* is one step wherever it is called with a mutex held that its receiver   *)
(* needs to go to sleep; the programs that extend this module say so.      *)
(* pthread_mutex_* and pthread_cond_* are external; their failure returns  *)
(* (EINVAL on an object that was never initialised) cannot happen, since   *)
(* every program initialises them before it creates a thread.              *)
(***************************************************************************)

CONSTANTS
  Threads,   \* the threads of the program
  NoThread,  \* the holder of a free mutex, and "never resumed" (-1)
  Mutexes    \* the mutexes of the program

ASSUME NoThreadAssumption == NoThread \notin Threads

VARIABLES
  holder,            \* the thread that holds each mutex
  sleeping,          \* threads blocked inside pthread_cond_wait()
  isWaiting,         \* _pthread_t.isWaiting
  resume_thread_id   \* _pthread_t.resume_thread_id

apiVars == <<holder, sleeping, isWaiting, resume_thread_id>>
condVars == <<sleeping, isWaiting, resume_thread_id>>

ApiTypeOK ==
  /\ holder \in [Mutexes -> Threads \cup {NoThread}]
  /\ sleeping \subseteq Threads
  /\ isWaiting \in [Threads -> BOOLEAN]
  /\ resume_thread_id \in [Threads -> Threads \cup {NoThread}]

\* pthread_init() of every thread and pthread_mutex_init() of every mutex.
ApiInit ==
  /\ holder = [m \in Mutexes |-> NoThread]
  /\ sleeping = {}
  /\ isWaiting = [t \in Threads |-> FALSE]
  /\ resume_thread_id = [t \in Threads |-> NoThread]

MutexLock(t, m) ==
  /\ holder[m] = NoThread
  /\ holder' = [holder EXCEPT ![m] = t]

\* A default mutex does not check who releases it.
MutexUnlock(m) == holder' = [holder EXCEPT ![m] = NoThread]

-----------------------------------------------------------------------------
(* wait(t, m)                                                              *)

WaitLock(t, m) ==
  /\ MutexLock(t, m)
  /\ UNCHANGED condVars

WaitSleep(t, m) ==
  /\ isWaiting' = [isWaiting EXCEPT ![t] = TRUE]
  /\ sleeping' = sleeping \cup {t}
  /\ MutexUnlock(m)
  /\ UNCHANGED resume_thread_id

WaitWake(t, m) ==
  /\ t \notin sleeping
  /\ MutexLock(t, m)
  /\ UNCHANGED condVars

WaitUnlock(t, m) ==
  /\ MutexUnlock(m)
  /\ UNCHANGED condVars

\* POSIX lets pthread_cond_wait() return although nobody signalled.
SpuriousWakeup(t) ==
  /\ t \in sleeping
  /\ sleeping' = sleeping \ {t}
  /\ UNCHANGED <<holder, isWaiting, resume_thread_id>>

-----------------------------------------------------------------------------
(* signal(s, t): a signal to a thread that is not asleep is lost.          *)

Signal(s, t) ==
  /\ sleeping' = sleeping \ {t}
  /\ isWaiting' = [isWaiting EXCEPT ![t] = FALSE]
  /\ resume_thread_id' = [resume_thread_id EXCEPT ![t] = s]

\* The two parts of signal() where its caller does not hold the mutex that t
\* sleeps with: pthread_cond_signal(), and the record of t.
SignalCond(t) ==
  /\ sleeping' = sleeping \ {t}
  /\ UNCHANGED <<isWaiting, resume_thread_id>>

SignalRecord(s, t) ==
  /\ isWaiting' = [isWaiting EXCEPT ![t] = FALSE]
  /\ resume_thread_id' = [resume_thread_id EXCEPT ![t] = s]
  /\ UNCHANGED sleeping

=============================================================================
