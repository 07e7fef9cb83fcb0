-------------------------------- MODULE Queue --------------------------------
(***************************************************************************)
(* src/IPC/IPC/GENERIC_SHM_LOCAL/Queue/Queue.c: a ring of pointers that is *)
(* filled downwards.  front is the slot of the next element to leave, rear *)
(* that of the last one that came; when the queue is empty both name the   *)
(* slot the next element takes, and only the counter tells the two apart.  *)
(***************************************************************************)
EXTENDS Integers, Sequences

CONSTANTS
  Q_DEFAULT_SIZE,
  Elems,   \* the pointers callers pass
  NULL

ASSUME QueueAssumption ==
  /\ Q_DEFAULT_SIZE \in Nat \ {0}
  /\ NULL \notin Elems

VARIABLES elem, front, rear, q_count,
  q_result   \* what the last call returned

queueVars == <<elem, front, rear, q_count, q_result>>

Slots == 0 .. Q_DEFAULT_SIZE - 1

initQ ==
  /\ elem = [i \in Slots |-> NULL]
  /\ rear = Q_DEFAULT_SIZE - 1
  /\ front = rear
  /\ q_count = 0
  /\ q_result = NULL

is_queue_empty == q_count = 0
is_queue_full == q_count = Q_DEFAULT_SIZE

\* One slot down, from the first to the last.
Below(i) == IF i = 0 THEN Q_DEFAULT_SIZE - 1 ELSE i - 1

\* Mutant of enqueue: an empty queue moves on, too.
Mutenqueue(ptr) ==
  \/ /\ ~is_queue_full
     /\ rear' = Below(rear)
     /\ elem' = [elem EXCEPT ![rear'] = ptr]
     /\ q_count' = q_count + 1
     /\ q_result' = TRUE
     /\ UNCHANGED front
  \/ /\ is_queue_full
     /\ q_result' = FALSE
     /\ UNCHANGED <<elem, front, rear, q_count>>

enqueue(ptr) ==
  \/ /\ ~is_queue_full
     /\ rear' = IF is_queue_empty THEN rear ELSE Below(rear)
     /\ elem' = [elem EXCEPT ![rear'] = ptr]
     /\ q_count' = q_count + 1
     /\ q_result' = TRUE
     /\ UNCHANGED front
  \/ /\ is_queue_full
     /\ q_result' = FALSE
     /\ UNCHANGED <<elem, front, rear, q_count>>

\* The last element leaves front where it is.
deque ==
  \/ /\ is_queue_empty
     /\ q_result' = NULL
     /\ UNCHANGED <<elem, front, rear, q_count>>
  \/ /\ ~is_queue_empty
     /\ q_result' = elem[front]
     /\ elem' = [elem EXCEPT ![front] = NULL]
     /\ front' = IF front = rear THEN front ELSE Below(front)
     /\ q_count' = q_count - 1
     /\ UNCHANGED rear

QueueNext == (\E ptr \in Elems : enqueue(ptr)) \/ deque

QueueSpec == initQ /\ [][QueueNext]_queueVars

-----------------------------------------------------------------------------
QueueTypeOK ==
  /\ elem \in [Slots -> Elems \cup {NULL}]
  /\ front \in Slots /\ rear \in Slots
  /\ q_count \in 0 .. Q_DEFAULT_SIZE

\* The slot of the i-th element from the front.
SlotOf(i) == IF front - i + 1 >= 0 THEN front - i + 1 ELSE front - i + 1 + Q_DEFAULT_SIZE

Contents == [i \in 1 .. q_count |-> elem[SlotOf(i)]]

\* The ring is a first-in first-out queue of Q_DEFAULT_SIZE elements: no wrap,
\* no emptying and no filling loses, repeats or reorders one.
Abstract == INSTANCE Fifo WITH items <- Contents, result <- q_result, Capacity <- Q_DEFAULT_SIZE
ImplementsFifo == Abstract!Spec

=============================================================================
