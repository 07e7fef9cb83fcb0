---------------------------- MODULE ReadersWriter ----------------------------
(***************************************************************************)
(* src/IPC/IPC/pthreads/readers_writer.c: readers that count themselves    *)
(* under Nreader_count_mutex, and a writer that looks at the count without *)
(* it: it waits for a signal if somebody reads, and writes under           *)
(* resrc_mutex otherwise.  Each thread runs once.                          *)
(*                                                                         *)
(* Counting up and down is a load and a store, so that the mutex matters.  *)
(* signal() is called without the mutex of the wait() it ends.             *)
(***************************************************************************)
EXTENDS ThreadApi, Integers, FiniteSets

CONSTANTS Readers, WRITER

ASSUME ReadersAssumption ==
  /\ IsFiniteSet(Readers) /\ Readers # {}
  /\ WRITER \notin Readers
  /\ Threads = Readers \cup {WRITER}
  /\ Mutexes = {"resrc_mutex", "Nreader_count_mutex"}

VARIABLES
  Nreader_count,
  seen,   \* what each reader has loaded of it
  thread_at

rwVars == <<apiVars, Nreader_count, seen, thread_at>>
countVars == <<Nreader_count, seen>>

RM == "resrc_mutex"
CM == "Nreader_count_mutex"

RwInit ==
  /\ ApiInit
  /\ Nreader_count = 0
  /\ seen = [r \in Readers |-> 0]
  /\ thread_at = [t \in Threads |-> IF t = WRITER THEN "test" ELSE "lock"]

ThreadGoto(t, l) == thread_at' = [thread_at EXCEPT ![t] = l]

-----------------------------------------------------------------------------
(* read()                                                                  *)

\* A reader takes and releases resrc_mutex: it only waits for the writer.
LockResource(r) ==
  /\ thread_at[r] = "lock"
  /\ MutexLock(r, RM)
  /\ ThreadGoto(r, "pass")
  /\ UNCHANGED <<condVars, countVars>>

PassResource(r) ==
  /\ thread_at[r] = "pass"
  /\ MutexUnlock(RM)
  /\ ThreadGoto(r, "lock_enter")
  /\ UNCHANGED <<condVars, countVars>>

LockCount(r) ==
  /\ MutexLock(r, CM)
  /\ \/ thread_at[r] = "lock_enter" /\ ThreadGoto(r, "enter")
     \/ thread_at[r] = "lock_leave" /\ ThreadGoto(r, "leave")
     \/ thread_at[r] = "lock_check" /\ ThreadGoto(r, "check")
  /\ UNCHANGED <<condVars, countVars>>

LoadCount(r) ==
  /\ \/ thread_at[r] = "enter" /\ ThreadGoto(r, "increment")
     \/ thread_at[r] = "leave" /\ ThreadGoto(r, "decrement")
  /\ seen' = [seen EXCEPT ![r] = Nreader_count]
  /\ UNCHANGED <<apiVars, Nreader_count>>

Increment(r) ==
  /\ thread_at[r] = "increment"
  /\ Nreader_count' = seen[r] + 1
  /\ MutexUnlock(CM)
  /\ ThreadGoto(r, "reading")
  /\ UNCHANGED <<condVars, seen>>

EndReading(r) ==
  /\ thread_at[r] = "reading"
  /\ ThreadGoto(r, "lock_leave")
  /\ UNCHANGED <<apiVars, countVars>>

Decrement(r) ==
  /\ thread_at[r] = "decrement"
  /\ Nreader_count' = seen[r] - 1
  /\ MutexUnlock(CM)
  /\ ThreadGoto(r, "lock_check")
  /\ UNCHANGED <<condVars, seen>>

\* Mutant of CheckCount: the reader still counts itself.
MutCheckCountSelf(r) ==
  /\ thread_at[r] = "check"
  /\ \/ /\ Nreader_count = 1
        /\ ThreadGoto(r, "signal")
        /\ UNCHANGED holder
     \/ /\ Nreader_count # 1
        /\ MutexUnlock(CM)
        /\ ThreadGoto(r, "done")
  /\ UNCHANGED <<condVars, countVars>>

\* Mutant of CheckCount: the mutex is kept on the way without a signal.
MutCheckCountKeeps(r) ==
  /\ thread_at[r] = "check"
  /\ \/ Nreader_count = 0 /\ ThreadGoto(r, "signal")
     \/ Nreader_count # 0 /\ ThreadGoto(r, "done")
  /\ UNCHANGED <<apiVars, countVars>>

CheckCount(r) ==
  /\ thread_at[r] = "check"
  /\ \/ /\ Nreader_count = 0
        /\ ThreadGoto(r, "signal")
        /\ UNCHANGED holder
     \/ /\ Nreader_count # 0
        /\ MutexUnlock(CM)
        /\ ThreadGoto(r, "done")
  /\ UNCHANGED <<condVars, countVars>>

SendSignal(r) ==
  /\ thread_at[r] = "signal"
  /\ SignalCond(WRITER)
  /\ ThreadGoto(r, "record")
  /\ UNCHANGED <<holder, countVars>>

\* The rest of signal(), and the release of the count's mutex.
RecordSignal(r) ==
  /\ thread_at[r] = "record"
  /\ SignalRecord(r, WRITER)
  /\ MutexUnlock(CM)
  /\ ThreadGoto(r, "done")
  /\ UNCHANGED countVars

-----------------------------------------------------------------------------
(* write()                                                                 *)

\* The count is read without its mutex.
TestCount ==
  /\ thread_at[WRITER] = "test"
  /\ \/ Nreader_count > 0 /\ ThreadGoto(WRITER, "wait")
     \/ Nreader_count <= 0 /\ ThreadGoto(WRITER, "lock")
  /\ UNCHANGED <<apiVars, countVars>>

StartWriting ==
  /\ thread_at[WRITER] = "lock"
  /\ MutexLock(WRITER, RM)
  /\ ThreadGoto(WRITER, "writing")
  /\ UNCHANGED <<condVars, countVars>>

EndWriting ==
  /\ thread_at[WRITER] = "writing"
  /\ MutexUnlock(RM)
  /\ ThreadGoto(WRITER, "done")
  /\ UNCHANGED <<condVars, countVars>>

WriterEntersWait ==
  /\ thread_at[WRITER] = "wait"
  /\ WaitLock(WRITER, RM)
  /\ ThreadGoto(WRITER, "sleep")
  /\ UNCHANGED countVars

WriterFallsAsleep ==
  /\ thread_at[WRITER] = "sleep"
  /\ WaitSleep(WRITER, RM)
  /\ ThreadGoto(WRITER, "asleep")
  /\ UNCHANGED countVars

WriterWakesUp ==
  /\ thread_at[WRITER] = "asleep"
  /\ WaitWake(WRITER, RM)
  /\ ThreadGoto(WRITER, "unlock")
  /\ UNCHANGED countVars

\* The writer that has waited does not write.
WriterLeavesWait ==
  /\ thread_at[WRITER] = "unlock"
  /\ WaitUnlock(WRITER, RM)
  /\ ThreadGoto(WRITER, "done")
  /\ UNCHANGED countVars

WriterWakesEarly ==
  /\ SpuriousWakeup(WRITER)
  /\ UNCHANGED <<countVars, thread_at>>

-----------------------------------------------------------------------------
ReaderStep(r) ==
  \/ LockResource(r) \/ PassResource(r)
  \/ LockCount(r) \/ LoadCount(r)
  \/ Increment(r) \/ EndReading(r) \/ Decrement(r)
  \/ CheckCount(r) \/ SendSignal(r) \/ RecordSignal(r)

WriterStep ==
  \/ TestCount \/ StartWriting \/ EndWriting
  \/ WriterEntersWait \/ WriterFallsAsleep \/ WriterWakesUp \/ WriterLeavesWait

RwNext == (\E r \in Readers : ReaderStep(r)) \/ WriterStep \/ WriterWakesEarly

RwSpec == RwInit /\ [][RwNext]_rwVars

-----------------------------------------------------------------------------
ReaderLocations ==
  {"lock", "pass", "lock_enter", "enter", "increment", "reading", "lock_leave", "leave",
   "decrement", "lock_check", "check", "signal", "record", "done"}

WriterLocations ==
  {"test", "lock", "writing", "wait", "sleep", "asleep", "unlock", "done"}

RwTypeOK ==
  /\ ApiTypeOK
  /\ Nreader_count \in 0 .. Cardinality(Readers)
  /\ seen \in [Readers -> 0 .. Cardinality(Readers)]
  /\ \A r \in Readers : thread_at[r] \in ReaderLocations
  /\ thread_at[WRITER] \in WriterLocations

\* The locations in which a reader and the writer hold a mutex.
HoldsResource == {t \in Threads : thread_at[t] \in {"pass", "writing", "sleep", "unlock"}}
HoldsCount ==
  {r \in Readers :
     thread_at[r] \in {"enter", "increment", "leave", "decrement", "check", "signal", "record"}}

\* A mutex is free exactly when no thread is in a part it guards, and never in
\* two threads' hands.
LockDiscipline ==
  /\ HoldsResource = {holder[RM]} \ {NoThread}
  /\ HoldsCount = {holder[CM]} \ {NoThread}

\* The readers between their increment and their decrement.
Counted == {r \in Readers : thread_at[r] \in {"reading", "lock_leave", "leave", "decrement"}}

\* Nreader_count is the number of the readers that have entered and not left,
\* whatever the order in which they enter and leave.
CountIsExact == Nreader_count = Cardinality(Counted)

\* However the readers' decrements and their later looks at the count mix, one
\* of them finds it at zero and sends the writer its signal.
SomeReaderSignals ==
  (\A r \in Readers : thread_at[r] = "done") => resume_thread_id[WRITER] # NoThread

\* "reader thread just lock and unlock the mutex to ensure mutual exclusion wrt
\* to writer thread only": nobody reads while the writer writes.
WriterExcludesReaders == thread_at[WRITER] = "writing" => Counted = {}

=============================================================================
