-------------------------------- MODULE Turns --------------------------------
(***************************************************************************)
(* src/IPC/IPC/pthreads/Mutexes/Alternation.c and sequence.c: threads that *)
(* print in turn.  Each prints, signals the next one and waits for its own *)
(* signal, for ever.  In sequence.c every thread starts with a print; in   *)
(* Alternation.c, which has two, thread 1 starts with the wait.            *)
(*                                                                         *)
(* wait() holds the mutex from its lock to its sleep and signal() holds it *)
(* throughout, so that each of them is one step.  Nothing remembers a      *)
(* signal to a thread that does not sleep.                                 *)
(***************************************************************************)
EXTENDS Integers, FiniteSets

CONSTANTS
  RING_SIZE,     \* THREAD_NUM of sequence.c
  MAX_SPURIOUS   \* bound: how often a thread wakes up for no reason

ASSUME TurnsAssumption == RING_SIZE \in Nat /\ RING_SIZE >= 2 /\ MAX_SPURIOUS \in Nat

VARIABLES
  who_am_i,   \* the program that runs, "alternation" or "sequence"
  turn_at,    \* where each thread is
  ahead,      \* prints of each thread, less those of the one before it
  lost,       \* signals that nobody heard
  spurious    \* wake-ups for no reason

turnVars == <<who_am_i, turn_at, ahead, lost, spurious>>

Members == IF who_am_i = "alternation" THEN {0, 1} ELSE 0 .. RING_SIZE - 1
After(t) == (t + 1) % Cardinality(Members)

TurnInit ==
  /\ who_am_i \in {"alternation", "sequence"}
  /\ turn_at = [t \in Members |->
                  IF who_am_i = "alternation" /\ t = 1 THEN "wait" ELSE "print"]
  /\ ahead = [t \in Members |-> 0]
  /\ lost = 0
  /\ spurious = 0

-----------------------------------------------------------------------------
PrintLine(t) ==
  /\ turn_at[t] = "print"
  /\ ahead' = [ahead EXCEPT ![t] = @ + 1, ![After(t)] = @ - 1]
  /\ turn_at' = [turn_at EXCEPT ![t] = "signal"]
  /\ UNCHANGED <<who_am_i, lost, spurious>>

\* Mutant of SignalNext: every thread that sleeps is woken.
MutSignalNextAll(t) ==
  /\ turn_at[t] = "signal"
  /\ turn_at' = [u \in Members |->
                   IF u = t THEN "wait" ELSE IF turn_at[u] = "asleep" THEN "print" ELSE turn_at[u]]
  /\ lost' = IF turn_at[After(t)] = "asleep" THEN lost ELSE lost + 1
  /\ UNCHANGED <<who_am_i, ahead, spurious>>

SignalNext(t) ==
  /\ turn_at[t] = "signal"
  /\ \/ /\ turn_at[After(t)] = "asleep"
        /\ turn_at' = [turn_at EXCEPT ![t] = "wait", ![After(t)] = "print"]
        /\ UNCHANGED lost
     \/ /\ turn_at[After(t)] # "asleep"
        /\ turn_at' = [turn_at EXCEPT ![t] = "wait"]
        /\ lost' = lost + 1
  /\ UNCHANGED <<who_am_i, ahead, spurious>>

Wait(t) ==
  /\ turn_at[t] = "wait"
  /\ turn_at' = [turn_at EXCEPT ![t] = "asleep"]
  /\ UNCHANGED <<who_am_i, ahead, lost, spurious>>

WakeForNothing(t) ==
  /\ turn_at[t] = "asleep"
  /\ spurious < MAX_SPURIOUS
  /\ spurious' = spurious + 1
  /\ turn_at' = [turn_at EXCEPT ![t] = "print"]
  /\ UNCHANGED <<who_am_i, ahead, lost>>

-----------------------------------------------------------------------------
Turn(t) == PrintLine(t) \/ SignalNext(t) \/ Wait(t)

TurnNext == \E t \in Members : Turn(t) \/ WakeForNothing(t)

TurnSpec == TurnInit /\ [][TurnNext]_turnVars

-----------------------------------------------------------------------------
TurnTypeOK ==
  /\ who_am_i \in {"alternation", "sequence"}
  /\ turn_at \in [Members -> {"print", "signal", "wait", "asleep"}]
  /\ ahead \in [Members -> Int]
  /\ lost \in Nat
  /\ spurious \in 0 .. MAX_SPURIOUS

\* The threads whose turn it is.
Turning == {t \in Members : turn_at[t] \in {"print", "signal"}}

Starters == IF who_am_i = "alternation" THEN {0} ELSE Members

\* A turn passes on, is lost with its signal, or comes out of nothing: the
\* threads whose turn it is are those that started, less the lost signals.  And
\* whatever signals are lost a thread prints at most once more than the one
\* before it, unless it woke up for no reason.
TurnsPassOrAreLost ==
  /\ Cardinality(Turning) + lost = Cardinality(Starters) + spurious
  /\ \A t \in Members : ahead[t] <= 1 + spurious

=============================================================================
