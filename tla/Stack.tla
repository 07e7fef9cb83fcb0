-------------------------------- MODULE Stack --------------------------------
(***************************************************************************)
(* src/IPC/IPC/GENERIC_SHM_LOCAL/Stack/stack.c: an array of pointers with  *)
(* two counters behind it.  push() compares top with the number of slots   *)
(* and not with the last one, so that one element more than the array      *)
(* holds is written over both counters, and is then counted upon.          *)
(***************************************************************************)
EXTENDS Integers

CONSTANTS
  MAX_STACK_SIZE,
  Nodes,    \* the pointers callers push
  NoNode,   \* NULL
  Garbage   \* a pointer that was counted upon, or counters that are one

ASSUME StackAssumption ==
  /\ MAX_STACK_SIZE \in Nat \ {0}
  /\ {NoNode, Garbage} \cap Nodes = {}
  /\ Garbage \notin Int   \* it stands for what is no count

VARIABLES top, slot,
  counted,   \* count_of_push - count_of_pop
  overrun,   \* history: something was pushed behind the array since the last reset
  pushed,    \* history: the node pushed at each height
  popped     \* what pop() returned last, and what was pushed there

stackVars == <<top, slot, counted, overrun, pushed, popped>>

Heights == 0 .. MAX_STACK_SIZE   \* one more than there are slots

\* get_new_stack()
StackInit ==
  /\ top = -1
  /\ slot = [i \in Heights |-> NoNode]
  /\ counted = 0
  /\ overrun = FALSE
  /\ pushed = slot
  /\ popped = <<NoNode, NoNode>>

\* Mutant of reset_stack: only the top is reset.
Mutreset_stack ==
  /\ top' = -1
  /\ slot' = [i \in Heights |-> NoNode]
  /\ overrun' = FALSE
  /\ UNCHANGED <<counted, pushed, popped>>

reset_stack ==
  /\ top' = -1
  /\ slot' = [i \in Heights |-> NoNode]
  /\ counted' = 0
  /\ overrun' = FALSE
  /\ UNCHANGED <<pushed, popped>>

push(node) ==
  /\ top < MAX_STACK_SIZE
  /\ top' = top + 1
  /\ \/ /\ top' < MAX_STACK_SIZE
        /\ slot' = [slot EXCEPT ![top'] = node]
        /\ counted' = IF counted = Garbage THEN Garbage ELSE counted + 1
        /\ UNCHANGED overrun
     \/ /\ top' = MAX_STACK_SIZE
        /\ slot' = [slot EXCEPT ![top'] = Garbage]
        /\ counted' = Garbage
        /\ overrun' = TRUE
  /\ pushed' = [pushed EXCEPT ![top'] = node]
  /\ UNCHANGED popped

pop ==
  /\ top # -1
  /\ popped' = <<slot[top], pushed[top]>>
  /\ top' = top - 1
  /\ counted' = IF counted = Garbage THEN Garbage ELSE counted - 1
  /\ UNCHANGED <<slot, overrun, pushed>>

StackNext == reset_stack \/ (\E node \in Nodes : push(node)) \/ pop

StackSpec == StackInit /\ [][StackNext]_stackVars

-----------------------------------------------------------------------------
\* The counters tell the height, and pop() returns the node that was pushed at
\* its height, as long as no more nodes were pushed than there are slots.
ExactUnlessOverrun ==
  ~overrun => counted = top + 1 /\ (popped[1] = Garbage \/ popped[1] = popped[2])

=============================================================================
