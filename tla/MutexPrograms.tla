---------------------------- MODULE MutexPrograms ----------------------------
(***************************************************************************)
(* readers_writer.c and the programs of Mutexes/, all in                   *)
(* src/IPC/IPC/pthreads/, side by side: program, chosen once, is the one   *)
(* that runs ("who_am_i" stands for Alternation.c and sequence.c).  They   *)
(* share nothing but the question which signals are lost, and what that    *)
(* costs.                                                                  *)
(***************************************************************************)
EXTENDS ReadersWriter, MasterSlave, Turns, Watcher

VARIABLE program

Programs == {"readers_writer", "Master_slave_threads", "who_am_i", "conditionalVariables"}

vars == <<program, rwVars, msVars, turnVars, watchVars>>

Init ==
  /\ program \in Programs
  /\ RwInit /\ MsInit /\ TurnInit /\ WatchInit
  /\ program # "who_am_i" => who_am_i = "sequence"

\* A step of one program, the others being idle.
RwOnly(A) ==
  program = "readers_writer" /\ A /\ UNCHANGED <<program, msVars, turnVars, watchVars>>
MsOnly(A) ==
  program = "Master_slave_threads" /\ A /\ UNCHANGED <<program, rwVars, turnVars, watchVars>>
TurnOnly(A) ==
  program = "who_am_i" /\ A /\ UNCHANGED <<program, rwVars, msVars, watchVars>>
WatchOnly(A) ==
  program = "conditionalVariables" /\ A /\ UNCHANGED <<program, rwVars, msVars, turnVars>>

Next == RwOnly(RwNext) \/ MsOnly(MsNext) \/ TurnOnly(TurnNext) \/ WatchOnly(WatchNext)

Spec == Init /\ [][Next]_vars

(***************************************************************************)
(* A thread that can run is scheduled, and one that asks for a mutex that  *)
(* is free again and again gets it.  Nobody makes the master choose,       *)
(* nothing wakes a sleeper, and main() may wait in its clean-up.           *)
(***************************************************************************)
Fairness ==
  /\ \A r \in Readers : WF_vars(RwOnly(ReaderStep(r)))
  /\ WF_vars(RwOnly(WriterStep))
  /\ WF_vars(MsOnly(LockPool \/ BlockThread \/ UnblockThread \/ CancelSlave))
  /\ SF_vars(MsOnly(SignalSlave))
  /\ \A s \in Slaves : SF_vars(MsOnly(Slave_thread(s)))
  /\ \A t \in 0 .. RING_SIZE - 1 : WF_vars(TurnOnly(t \in Members /\ Turn(t)))
  /\ \A c \in Counters : WF_vars(WatchOnly(inc_count(c)))
  /\ WF_vars(WatchOnly(watch_count))

FairSpec == Spec /\ Fairness

-----------------------------------------------------------------------------
TypeOK == program \in Programs /\ RwTypeOK /\ MsTypeOK /\ TurnTypeOK /\ WatchTypeOK

\* The writer keeps no reader out for ever.
ReadersComplete ==
  program = "readers_writer" => \A r \in Readers : <>(thread_at[r] = "done")

\* A slave that the master has put into the pool sleeps before long, unless
\* it is taken out again, is stuck with a copied mutex, or the program ends.
BlockTakesEffect ==
  \A s \in Slaves :
    InBlockPool(s) ~> ~InBlockPool(s) \/ slave_at[s] \in {"asleep", "stuck"} \/ master_at = "exit"

\* Nothing but a slave that took the mutex with it, or locked a copied one,
\* keeps the cancelled slaves from ending, whether main() has destroyed the
\* objects they still use or not.
CancelledEndOrMutexIsLost ==
  master_at = "exit" ~> (\A s \in Slaves : slave_at[s] = "dead" \/ Stuck(s)) \/ MutexIsLost

=============================================================================
