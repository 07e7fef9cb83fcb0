---------------------------- MODULE Programs_proofs ----------------------------
(***************************************************************************)
(* What the libraries and services of module Programs guarantee for every  *)
(* value of their constants, one after the other: the queue, the stack,    *)
(* the map over shared memory, the routing table, the region shared by     *)
(* igmp and pim, the select server, the chat server, the linked list, the  *)
(* tree, the writer of C files and the command line.  SdFs_proofs has the  *)
(* files on the card.                                                      *)
(***************************************************************************)
EXTENDS Programs, SdFs_proofs, SequenceTheorems, FiniteSetTheorems, WellFoundedInduction, TLAPS

\* A function from 1 .. n is a sequence of length n.
LEMMA SequenceOf ==
  ASSUME NEW S, NEW n \in Nat, NEW f \in [1 .. n -> S]
  PROVE  f \in Seq(S) /\ Len(f) = n
  OBVIOUS

\* A set of natural numbers that is not empty has a least one.
LEMMA LeastExists ==
  ASSUME NEW S \in SUBSET Nat, S # {}
  PROVE  \E k \in S : \A m \in S : k <= m
<1>1. \E k \in S : \A m \in S : <<m, k>> \notin OpToRel(<, Nat)
  BY NatLessThanWellFounded, WFMin
<1>2. PICK k \in S : \A m \in S : <<m, k>> \notin OpToRel(<, Nat)
  BY <1>1
<1>3. \A m \in S : ~ (m < k)
  BY <1>2 DEF OpToRel
<1> QED
  BY <1>3

-----------------------------------------------------------------------------
(* The recursive functions of the modules exist.  A loop's value after i     *)
(* turns comes from that after i - 1; a walk goes from a place to the next   *)
(* until it comes to one from which it goes no further, each step brings it  *)
(* nearer.                                                                   *)

\* A set that holds 0, and with every number the next, holds all of them.
LEMMA AllUpTo ==
  ASSUME NEW L \in Nat, NEW S, 0 \in S, \A i \in 1 .. L : i - 1 \in S => i \in S,
         NEW n \in 0 .. L
  PROVE  n \in S
<1> DEFINE Missing == (0 .. L) \ S
<1> SUFFICES ASSUME Missing # {} PROVE FALSE
  OBVIOUS
<1>1. PICK k \in Missing : \A m \in Missing : k <= m
  BY LeastExists, Missing \in SUBSET Nat
<1>2. k - 1 \in 0 .. L /\ k \in 1 .. L /\ ~ (k <= k - 1)
  BY <1>1
<1> QED
  BY <1>1, <1>2

\* f has the values of a loop: z before it, turn[i] of the last after its i-th turn.
LoopOf(f, z, turn, m) == f[0] = z /\ \A i \in 1 .. m : f[i] = turn[i][f[i - 1]]

\* They exist.
LEMMA LoopExists ==
  ASSUME NEW T, NEW z \in T, NEW L \in Nat, NEW turn \in [1 .. L -> [T -> T]]
  PROVE  \E f \in [0 .. L -> T] : LoopOf(f, z, turn, L)
<1> DEFINE S == {m \in 0 .. L : \E f \in [0 .. L -> T] : LoopOf(f, z, turn, m)}
<1>1. 0 \in S
  <2>1. [i \in 0 .. L |-> z] \in [0 .. L -> T] /\ LoopOf([i \in 0 .. L |-> z], z, turn, 0)
    BY DEF LoopOf
  <2>2. 0 \in 0 .. L
    OBVIOUS
  <2> QED
    BY <2>1, <2>2
<1>2. ASSUME NEW m \in 1 .. L, m - 1 \in S PROVE m \in S
  <2>1. PICK f \in [0 .. L -> T] : LoopOf(f, z, turn, m - 1)
    BY <1>2
  <2> DEFINE g == [f EXCEPT ![m] = turn[m][f[m - 1]]]
  <2>2. g \in [0 .. L -> T] /\ g[0] = f[0] /\ g[m] = turn[m][f[m - 1]]
        /\ \A i \in 0 .. L : i # m => g[i] = f[i]
    OBVIOUS
  <2> HIDE DEF g
  <2>3. LoopOf(g, z, turn, m)
    <3>1. ASSUME NEW i \in 1 .. m PROVE g[i] = turn[i][g[i - 1]]
      <4>1. g[i - 1] = f[i - 1] /\ (i # m => g[i] = f[i] /\ i \in 1 .. m - 1)
        BY <2>2
      <4> QED
        BY <2>1, <2>2, <4>1 DEF LoopOf
    <3> QED
      BY <2>1, <2>2, <3>1 DEF LoopOf
  <2> QED
    BY <2>2, <2>3
<1>3. L \in S
  <2> HIDE DEF S
  <2>1. \A i \in 1 .. L : i - 1 \in S => i \in S
    BY <1>2
  <2>2. L \in 0 .. L
    OBVIOUS
  <2> QED
    BY <1>1, <2>1, <2>2, AllUpTo
<1> QED
  BY <1>3

\* The function that says where a walk ends exists.
LEMMA WalkExists ==
  ASSUME NEW D, NEW step \in [D -> D], NEW M \in Nat, NEW rank \in [D -> 0 .. M],
         \A n \in D : step[n] # n => rank[step[n]] < rank[n]
  PROVE  \E f \in [D -> D] : \A n \in D : f[n] = IF step[n] = n THEN n ELSE f[step[n]]
<1> DEFINE Known(m, f) == \A n \in D : rank[n] < m => f[n] = IF step[n] = n THEN n ELSE f[step[n]]
           Missing == {m \in 0 .. M + 1 : ~ \E f \in [D -> D] : Known(m, f)}
<1>1. \E f \in [D -> D] : Known(0, f)
  <2>1. [n \in D |-> n] \in [D -> D] /\ \A n \in D : ~ (rank[n] < 0)
    OBVIOUS
  <2> QED
    BY <2>1
<1>2. ASSUME NEW m \in 1 .. M + 1, NEW f \in [D -> D], Known(m - 1, f)
      PROVE  \E g \in [D -> D] : Known(m, g)
  <2> DEFINE g == [n \in D |-> IF step[n] = n THEN n
                               ELSE IF rank[n] = m - 1 THEN f[step[n]] ELSE f[n]]
  <2>1. g \in [D -> D]
    OBVIOUS
  <2>2. ASSUME NEW n \in D, rank[n] < m PROVE g[n] = IF step[n] = n THEN n ELSE g[step[n]]
    <3>1. CASE step[n] = n
      BY <3>1
    <3>2. CASE step[n] # n
      <4>1. step[n] \in D /\ rank[step[n]] < rank[n] /\ rank[n] \in Nat /\ rank[step[n]] \in Nat
        BY <3>2
      <4>2. rank[step[n]] < m - 1
        BY <2>2, <4>1
      <4>3. g[step[n]] = f[step[n]]
        <5>1. CASE step[step[n]] = step[n]
          BY <1>2, <4>1, <4>2, <5>1
        <5>2. CASE step[step[n]] # step[n]
          BY <4>1, <4>2, <5>2
        <5> QED
          BY <5>1, <5>2
      <4>4. g[n] = f[step[n]]
        <5>1. CASE rank[n] = m - 1
          BY <3>2, <5>1
        <5>2. CASE rank[n] < m - 1
          BY <1>2, <3>2, <5>2
        <5> QED
          BY <2>2, <4>1, <5>1, <5>2
      <4> QED
        BY <3>2, <4>3, <4>4
    <3> QED
      BY <3>1, <3>2
  <2> QED
    BY <2>1, <2>2
<1>3. Missing = {}
  <2> SUFFICES ASSUME Missing # {} PROVE FALSE
    OBVIOUS
  <2>1. PICK m \in Missing : \A k \in Missing : m <= k
    BY LeastExists, Missing \in SUBSET Nat
  <2> HIDE DEF Known
  <2>2. m # 0 /\ m \in 0 .. M + 1
    BY <1>1, <2>1
  <2>3. m - 1 \in 0 .. M + 1 /\ m \in 1 .. M + 1 /\ ~ (m <= m - 1)
    BY <2>2
  <2>4. \E f \in [D -> D] : Known(m - 1, f)
    BY <2>1, <2>3
  <2> QED
    BY <1>2, <2>1, <2>3, <2>4
<1>4. PICK f \in [D -> D] : Known(M + 1, f)
  <2> HIDE DEF Known
  <2> QED
    BY <1>3, M + 1 \in 0 .. M + 1
<1>5. \A n \in D : f[n] = IF step[n] = n THEN n ELSE f[step[n]]
  BY <1>4
<1> QED
  BY <1>5

\* A walk ends, in every set it begins in that no step leaves.
LEMMA WalkEnds ==
  ASSUME NEW D, NEW step \in [D -> D], NEW M \in Nat, NEW rank \in [D -> 0 .. M],
         \A n \in D : step[n] # n => rank[step[n]] < rank[n],
         NEW f, \A n \in D : f[n] = IF step[n] = n THEN n ELSE f[step[n]],
         NEW S, S \subseteq D, \A n \in S : step[n] \in S, NEW a \in S
  PROVE  f[a] \in S /\ step[f[a]] = f[a]
<1> DEFINE Right(n) == f[n] \in S /\ step[f[n]] = f[n]
           Wrong == {r \in 0 .. M : \E n \in S : rank[n] = r /\ ~Right(n)}
<1> SUFFICES ASSUME ~Right(a) PROVE FALSE
  OBVIOUS
<1>1. rank[a] \in Wrong
  OBVIOUS
<1>2. PICK r \in Wrong : \A k \in Wrong : r <= k
  BY <1>1, LeastExists, Wrong \in SUBSET Nat
<1>3. PICK m \in S : rank[m] = r /\ ~Right(m)
  BY <1>2
<1>4. step[m] # m
  BY <1>3
<1>5. f[m] = f[step[m]] /\ step[m] \in S
  BY <1>4
<1>6. rank[step[m]] \in 0 .. M /\ rank[step[m]] < r /\ ~Right(step[m])
  BY <1>3, <1>4, <1>5
<1>7. rank[step[m]] \in Wrong
  BY <1>5, <1>6
<1> QED
  BY <1>2, <1>6, <1>7

-----------------------------------------------------------------------------
(* The ring of Queue.c is a first-in first-out queue: what it holds, read  *)
(* from front down to rear, changes only as the abstract queue does.       *)

\* rear is the slot of the last element; in an empty queue it is where front is.
EndsMeet ==
  /\ q_count = 0 => front = rear
  /\ q_count > 0 => rear = SlotOf(q_count)

QInv == QueueTypeOK /\ EndsMeet

USE QueueAssumption

\* SlotOf() names a slot, a different one for each element that fits, the first
\* is front and the next is one below.
LEMMA SlotFacts ==
  ASSUME front \in Slots
  PROVE  /\ SlotOf(1) = front
         /\ \A i \in 1 .. Q_DEFAULT_SIZE : SlotOf(i) \in Slots
         /\ \A i, j \in 1 .. Q_DEFAULT_SIZE : SlotOf(i) = SlotOf(j) => i = j
         /\ \A i \in 1 .. Q_DEFAULT_SIZE : SlotOf(i + 1) = Below(SlotOf(i))
  BY DEF SlotOf, Slots, Below

\* One slot down is a slot.
LEMMA BelowIsSlot == \A i \in Slots : Below(i) \in Slots
  BY DEF Below, Slots

\* The contents are a sequence as long as the counter says.
LEMMA ContentsSeq ==
  ASSUME QInv
  PROVE  /\ Contents \in Seq(Elems \cup {NULL})
         /\ Len(Contents) = q_count
         /\ \A i \in 1 .. q_count : Contents[i] = elem[SlotOf(i)]
<1>1. \A i \in 1 .. q_count : elem[SlotOf(i)] \in Elems \cup {NULL}
  BY SlotFacts DEF QInv, QueueTypeOK
<1>2. q_count \in Nat
  BY DEF QInv, QueueTypeOK
<1>3. Contents \in [1 .. q_count -> Elems \cup {NULL}]
  BY <1>1 DEF Contents
<1> QED
  BY <1>2, <1>3, SequenceOf DEF Contents

\* enqueue() on a queue that is not full appends, and keeps the ends in place.
LEMMA EnqueueAppends ==
  ASSUME QInv, NEW ptr \in Elems, enqueue(ptr), ~is_queue_full
  PROVE  QInv' /\ Contents' = Append(Contents, ptr)
<1> USE DEF QInv, QueueTypeOK
<1>1. /\ rear' = IF q_count = 0 THEN rear ELSE Below(rear)
      /\ elem' = [elem EXCEPT ![rear'] = ptr]
      /\ q_count' = q_count + 1 /\ front' = front
  BY DEF enqueue, is_queue_empty
<1>2. q_count \in 0 .. Q_DEFAULT_SIZE - 1
  BY DEF is_queue_full
<1>3. rear' = SlotOf(q_count + 1)
  BY <1>1, <1>2, SlotFacts DEF EndsMeet
<1>4. rear' \in Slots
  BY <1>2, <1>3, SlotFacts
<1>5. \A i \in Nat : SlotOf(i)' = SlotOf(i)
  BY <1>1 DEF SlotOf
<1>6. QInv'
  BY <1>1, <1>2, <1>3, <1>4, <1>5 DEF EndsMeet
<1>7. \A i \in 1 .. q_count + 1 : elem'[SlotOf(i)] = IF i = q_count + 1 THEN ptr ELSE elem[SlotOf(i)]
  BY <1>1, <1>2, <1>3, SlotFacts
<1>8. Contents' = [i \in 1 .. q_count + 1 |-> IF i = q_count + 1 THEN ptr ELSE Contents[i]]
  <2>1. \A i \in 1 .. q_count + 1 : elem'[SlotOf(i)'] = IF i = q_count + 1 THEN ptr ELSE Contents[i]
    BY <1>2, <1>5, <1>7, ContentsSeq
  <2> QED
    BY <1>1, <2>1 DEF Contents
<1>9. /\ Contents' \in [1 .. q_count + 1 -> Elems \cup {NULL}]
      /\ \A i \in 1 .. q_count : Contents'[i] = Contents[i]
      /\ Contents'[q_count + 1] = ptr
  BY <1>2, <1>8, ContentsSeq
<1>10. Contents' \in Seq(Elems \cup {NULL}) /\ Len(Contents') = q_count + 1
  BY <1>2, <1>9, SequenceOf
<1>11. /\ Append(Contents, ptr) \in Seq(Elems \cup {NULL})
       /\ Len(Append(Contents, ptr)) = q_count + 1
       /\ \A i \in 1 .. q_count : Append(Contents, ptr)[i] = Contents[i]
       /\ Append(Contents, ptr)[q_count + 1] = ptr
  BY <1>2, ContentsSeq, AppendProperties
<1>12. Contents' = Append(Contents, ptr)
  BY <1>2, <1>9, <1>10, <1>11, SeqEqual
<1> QED
  BY <1>6, <1>12

\* deque() of a queue that is not empty takes the head and leaves the tail.
LEMMA DequeTakesHead ==
  ASSUME QInv, deque, ~is_queue_empty
  PROVE  /\ QInv'
         /\ Contents # <<>> /\ q_result' = Head(Contents) /\ Contents' = Tail(Contents)
<1> USE DEF QInv, QueueTypeOK
<1>1. /\ q_result' = elem[front]
      /\ elem' = [elem EXCEPT ![front] = NULL]
      /\ front' = IF front = rear THEN front ELSE Below(front)
      /\ q_count' = q_count - 1 /\ rear' = rear
  BY DEF deque, is_queue_empty
<1>2. q_count \in 1 .. Q_DEFAULT_SIZE
  BY DEF is_queue_empty
<1>3. rear = SlotOf(q_count)
  BY <1>2 DEF EndsMeet
<1>4. front = rear <=> q_count = 1
  BY <1>2, <1>3, SlotFacts
<1>5. q_count > 1 => \A i \in 1 .. q_count - 1 : SlotOf(i)' = SlotOf(i + 1)
  BY <1>1, <1>2, <1>4 DEF SlotOf, Below, Slots
<1>6. front' \in Slots
  BY <1>1, BelowIsSlot
<1>7. QInv'
  BY <1>1, <1>2, <1>3, <1>4, <1>5, <1>6 DEF EndsMeet
<1>8. \A i \in 2 .. q_count : elem'[SlotOf(i)] = elem[SlotOf(i)]
  BY <1>1, <1>2, SlotFacts
<1>9. Contents' = [i \in 1 .. q_count - 1 |-> Contents[i + 1]]
  <2>1. \A i \in 1 .. q_count - 1 : elem'[SlotOf(i)'] = Contents[i + 1]
    BY <1>2, <1>5, <1>8, ContentsSeq
  <2> QED
    BY <1>1, <2>1 DEF Contents
<1>10. Contents # <<>> /\ Head(Contents) = elem[front]
  BY <1>2, ContentsSeq, SlotFacts, HeadTailProperties
<1>11. Tail(Contents) = [i \in 1 .. q_count - 1 |-> Contents[i + 1]]
  <2>1. /\ Tail(Contents) \in Seq(Elems \cup {NULL}) /\ Len(Tail(Contents)) = q_count - 1
        /\ \A i \in 1 .. q_count - 1 : Tail(Contents)[i] = Contents[i + 1]
    BY <1>2, <1>10, ContentsSeq, HeadTailProperties
  <2>2. DOMAIN Tail(Contents) = 1 .. q_count - 1
    BY <2>1, LenProperties
  <2> QED
    BY <2>1, <2>2, LenProperties
<1> QED
  BY <1>1, <1>7, <1>9, <1>10, <1>11

\* The counter, the two ends and the slots agree after every sequence of calls.
THEOREM QueueInvHolds == QueueSpec => []QInv
<1>1. initQ => QInv
  BY DEF initQ, QInv, QueueTypeOK, EndsMeet, Slots
<1>2. QInv /\ [QueueNext]_queueVars => QInv'
  <2> SUFFICES ASSUME QInv, [QueueNext]_queueVars PROVE QInv'
    OBVIOUS
  <2>1. CASE UNCHANGED <<elem, front, rear, q_count>>
    BY <2>1 DEF QInv, QueueTypeOK, EndsMeet, SlotOf
  <2>2. ASSUME NEW ptr \in Elems, enqueue(ptr) PROVE QInv'
    BY <2>1, <2>2, EnqueueAppends DEF enqueue
  <2>3. CASE deque
    BY <2>1, <2>3, DequeTakesHead DEF deque
  <2> QED
    BY <2>1, <2>2, <2>3 DEF QueueNext, queueVars
<1> QED
  BY <1>1, <1>2, PTL DEF QueueSpec

\* Every call on the ring is a call on the bounded first-in first-out queue, for
\* every number of slots (enqueue() and deque() of Queue.c).
THEOREM ImplementsFifoHolds == QueueSpec => ImplementsFifo
<1>1. initQ => Abstract!Init
  BY DEF initQ, Abstract!Init, Contents
<1>2. QInv /\ [QueueNext]_queueVars => [Abstract!Next]_<<Contents, q_result>>
  <2> SUFFICES ASSUME QInv, [QueueNext]_queueVars PROVE [Abstract!Next]_<<Contents, q_result>>
    OBVIOUS
  <2>1. UNCHANGED <<elem, front, rear, q_count>> => Contents' = Contents
    BY DEF Contents, SlotOf
  <2>2. Len(Contents) = q_count /\ q_count \in Nat /\ (Contents = <<>> <=> q_count = 0)
    BY ContentsSeq DEF QInv, QueueTypeOK
  <2>3. ASSUME NEW ptr \in Elems, enqueue(ptr) PROVE Abstract!Put(ptr)
    <3>1. CASE is_queue_full
      BY <2>1, <2>2, <2>3, <3>1 DEF enqueue, is_queue_full, Abstract!Put
    <3>2. CASE ~is_queue_full
      <4>1. Contents' = Append(Contents, ptr)
        BY <2>3, <3>2, EnqueueAppends
      <4> QED
        BY <2>2, <2>3, <3>2, <4>1 DEF enqueue, is_queue_full, Abstract!Put, QInv, QueueTypeOK
    <3> QED
      BY <3>1, <3>2
  <2>4. ASSUME deque PROVE Abstract!Get
    <3>1. CASE is_queue_empty
      BY <2>1, <2>2, <2>4, <3>1 DEF deque, is_queue_empty, Abstract!Get
    <3>2. CASE ~is_queue_empty
      BY <2>4, <3>2, DequeTakesHead DEF Abstract!Get
    <3> QED
      BY <3>1, <3>2
  <2>5. CASE UNCHANGED queueVars
    BY <2>1, <2>5 DEF queueVars
  <2> QED
    BY <2>3, <2>4, <2>5 DEF QueueNext, Abstract!Next
<1> QED
  BY <1>1, <1>2, QueueInvHolds, PTL DEF QueueSpec, ImplementsFifo, Abstract!Spec

HIDE QueueAssumption

-----------------------------------------------------------------------------
(* The stack of stack.c, while nothing was pushed behind its array.        *)

\* What the slots and the counters are.
StackTyped ==
  /\ top \in -1 .. MAX_STACK_SIZE
  /\ slot \in [Heights -> Nodes \cup {NoNode, Garbage}]
  /\ pushed \in [Heights -> Nodes \cup {NoNode}]
  /\ overrun \in BOOLEAN

\* Each slot below the top holds the node pushed at its height, or what was
\* written over it; the counters tell the height while nothing was pushed behind
\* the array, and then the top is a slot of it.
StackInv ==
  /\ StackTyped
  /\ \A i \in 0 .. top : slot[i] = pushed[i] \/ slot[i] = Garbage
  /\ ~overrun => counted = top + 1
  /\ popped[1] = Garbage \/ popped[1] = popped[2]

USE StackAssumption

\* The invariant holds from get_new_stack() on through every call.
LEMMA StackInvHolds == StackSpec => []StackInv
<1> USE DEF StackInv, StackTyped, Heights
<1>1. ASSUME StackInit
      PROVE  StackInv
  <2>1. /\ top = -1 /\ slot = [i \in Heights |-> NoNode] /\ counted = 0
        /\ overrun = FALSE /\ pushed = slot /\ popped = <<NoNode, NoNode>>
    BY <1>1 DEF StackInit
  <2>2. top \in -1 .. MAX_STACK_SIZE /\ 0 .. top = {}
    BY <2>1
  <2>3. slot \in [Heights -> Nodes \cup {NoNode, Garbage}]
    BY <2>1
  <2>4. pushed \in [Heights -> Nodes \cup {NoNode}]
    BY <2>1
  <2>5. overrun \in BOOLEAN
    BY <2>1
  <2>6. counted = top + 1
    BY <2>1
  <2>7. popped[1] = popped[2]
    BY <2>1
  <2> QED
    BY <2>2, <2>3, <2>4, <2>5, <2>6, <2>7
<1>2. StackInv /\ [StackNext]_stackVars => StackInv'
  <2> SUFFICES ASSUME StackInv, [StackNext]_stackVars
               PROVE  StackInv'
    OBVIOUS
  <2>1. CASE reset_stack
    <3>1. /\ top' = -1 /\ slot' = [i \in Heights |-> NoNode] /\ counted' = 0
          /\ overrun' = FALSE /\ pushed' = pushed /\ popped' = popped
      BY <2>1 DEF reset_stack
    <3>2. StackTyped'
      <4>1. top' \in -1 .. MAX_STACK_SIZE
        BY <3>1
      <4>2. slot' \in [Heights -> Nodes \cup {NoNode, Garbage}]
        BY <3>1
      <4>3. pushed' \in [Heights -> Nodes \cup {NoNode}]
        BY <3>1
      <4>4. overrun' \in BOOLEAN
        BY <3>1
      <4> QED
        BY <4>1, <4>2, <4>3, <4>4
    <3>3. 0 .. top' = {}
      BY <3>1
    <3> QED
      BY <3>1, <3>2, <3>3
  <2>2. ASSUME NEW node \in Nodes, push(node)
        PROVE  StackInv'
    <3>1. /\ top' = top + 1 /\ top' \in 0 .. MAX_STACK_SIZE
          /\ pushed' = [pushed EXCEPT ![top'] = node] /\ popped' = popped
      BY <2>2 DEF push
    <3>2. CASE /\ top' < MAX_STACK_SIZE
               /\ slot' = [slot EXCEPT ![top'] = node]
               /\ counted' = IF counted = Garbage THEN Garbage ELSE counted + 1
               /\ UNCHANGED overrun
      BY <3>1, <3>2
    <3>3. CASE /\ top' = MAX_STACK_SIZE
               /\ slot' = [slot EXCEPT ![top'] = Garbage]
               /\ counted' = Garbage
               /\ overrun' = TRUE
      BY <3>1, <3>3
    <3> QED
      BY <2>2, <3>2, <3>3 DEF push
  <2>3. CASE pop
    <3>1. /\ popped' = <<slot[top], pushed[top]>> /\ top' = top - 1 /\ top \in 0 .. MAX_STACK_SIZE
          /\ slot' = slot /\ pushed' = pushed /\ overrun' = overrun
          /\ counted' = IF counted = Garbage THEN Garbage ELSE counted - 1
      BY <2>3 DEF pop
    <3> QED
      BY <3>1
  <2>4. CASE UNCHANGED stackVars
    BY <2>4 DEF stackVars
  <2> QED
    BY <2>1, <2>2, <2>3, <2>4 DEF StackNext
<1> QED
  BY <1>1, <1>2, PTL DEF StackSpec

\* The counters tell the height and pop() returns the node pushed at its height,
\* for a stack of any size, as long as nothing was pushed behind the array.
THEOREM ExactUnlessOverrunHolds == StackSpec => []ExactUnlessOverrun
<1>1. StackInv => ExactUnlessOverrun
  BY DEF StackInv, ExactUnlessOverrun
<1> QED
  BY <1>1, StackInvHolds, PTL

HIDE StackAssumption

-----------------------------------------------------------------------------
(* The map of shm_ds.c and map.c, whose processes use the same names.      *)

\* An element of a process: its container and its key.
MapElems == [ds : Containers, key : MapKeys]

\* What the processes have added and where they stand with the last of it.
MapTyped ==
  /\ elems \in [Processes -> Seq(MapElems)]
  /\ map_at \in [Processes -> {"idle", "opened", "mapped", "dead"}]
  /\ \A p \in Processes :
       Len(elems[p]) <= MAX_ADDS /\ (map_at[p] \in {"opened", "mapped"} => Len(elems[p]) > 0)
  /\ DOMAIN region = Names /\ region = [n \in Names |-> region[n]]
  /\ DOMAIN touched = Processes /\ touched = [p \in Processes |-> touched[p]]

\* Object n holds what p copied into it, if p has come to that and nobody touched it.
HoldsOwn(p, n) ==
  n \notin touched[p] /\ (map_at[p] = "idle" \/ n < Len(elems[p])) => region[n] = ValueOf(p, n)

OwnValues == \A p \in Processes : \A n \in 1 .. Len(elems[p]) : HoldsOwn(p, n)

MapInv == MapTyped /\ OwnValues

USE MapAssumption

\* Whoever is touched stays so, and the others are where the step is at object n.
LEMMA TouchesThem ==
  ASSUME MapInv, NEW ps \in SUBSET Processes, NEW n, Touch(ps, n)
  PROVE  /\ DOMAIN touched' = Processes /\ touched' = [p \in Processes |-> touched'[p]]
         /\ \A p \in Processes : touched[p] \subseteq touched'[p]
         /\ \A p \in ps : n <= Len(elems[p]) => n \in touched'[p]
  BY DEF Touch

\* A step of p at object n: the values of the others are where they were, or lost.
LEMMA StepKeepsValues ==
  ASSUME MapInv, MapTyped', NEW p \in Processes, NEW n \in Names,
         \A m \in Names : m # n => region'[m] = region[m],
         \A q \in Processes : touched[q] \subseteq touched'[q],
         \A q \in Processes : q # p =>
           /\ elems'[q] = elems[q] /\ map_at'[q] = map_at[q]
           /\ n <= Len(elems[q]) => region' = region \/ n \in touched'[q],
         \A m \in 1 .. Len(elems'[p]) : HoldsOwn(p, m)'
  PROVE  MapInv'
<1>1. ASSUME NEW q \in Processes, NEW m \in 1 .. Len(elems'[q]) PROVE HoldsOwn(q, m)'
  <2>1. CASE q = p
    BY <2>1
  <2>2. CASE q # p
    <3>1. m \in 1 .. Len(elems[q]) /\ m \in Names /\ elems[q] \in Seq(MapElems)
      BY <2>2 DEF MapInv, MapTyped, Names
    <3>2. SUFFICES ASSUME m \notin touched'[q], map_at'[q] = "idle" \/ m < Len(elems'[q])
                   PROVE  region'[m] = ValueOf(q, m)
      BY DEF HoldsOwn, ValueOf
    <3>3. m \notin touched[q] /\ (map_at[q] = "idle" \/ m < Len(elems[q]))
      BY <2>2, <3>2
    <3>4. region[m] = ValueOf(q, m)
      BY <3>1, <3>3 DEF MapInv, OwnValues, HoldsOwn
    <3>5. region'[m] = region[m]
      BY <2>2, <3>1, <3>2
    <3> QED
      BY <3>4, <3>5
  <2> QED
    BY <2>1, <2>2
<1> QED
  BY <1>1 DEF MapInv, OwnValues

\* A new element: the values of the earlier ones are as they were.
LEMMA AddKeepsValues ==
  ASSUME MapInv, NEW p \in Processes, NEW ds \in Containers, NEW key \in MapKeys,
         shm_add_elem(p, ds, key)
  PROVE  MapInv'
<1> DEFINE e == [ds |-> ds, key |-> key]
           n == Len(elems[p]) + 1
<1>1. /\ map_at[p] = "idle" /\ n <= MAX_ADDS
      /\ elems' = [elems EXCEPT ![p] = Append(@, e)]
      /\ \/ /\ region' = [region EXCEPT ![n] = Hollow]
            /\ map_at' = [map_at EXCEPT ![p] = "opened"]
            /\ Touch(OthersThan(p), n)
         \/ GiveUp(p, n)
  BY DEF shm_add_elem
<1>2. e \in MapElems
  BY DEF MapElems
<1> HIDE DEF e
<1>3. elems[p] \in Seq(MapElems) /\ Len(elems[p]) \in Nat /\ n \in Names /\ n \in Nat
  BY <1>1 DEF MapInv, MapTyped, Names
<1>4. Append(elems[p], e) \in Seq(MapElems) /\ Len(Append(elems[p], e)) = n
  BY <1>2, <1>3
<1>5. /\ elems'[p] = Append(elems[p], e) /\ Len(elems'[p]) = n
      /\ \A q \in Processes : q # p => elems'[q] = elems[q] /\ map_at'[q] = map_at[q]
      /\ map_at'[p] \in {"opened", "idle"}
  BY <1>1, <1>4 DEF MapInv, MapTyped, GiveUp
<1>6. /\ DOMAIN touched' = Processes /\ touched' = [q \in Processes |-> touched'[q]]
      /\ \A q \in Processes : touched[q] \subseteq touched'[q]
      /\ \A q \in Processes : q # p /\ n <= Len(elems[q]) => region' = region \/ n \in touched'[q]
      /\ map_at'[p] = "opened" \/ n \in touched'[p]
      /\ \A m \in Names : m # n => region'[m] = region[m]
      /\ DOMAIN region' = Names /\ region' = [m \in Names |-> region'[m]]
  <2>1. CASE Touch(OthersThan(p), n) /\ region' = [region EXCEPT ![n] = Hollow]
             /\ map_at' = [map_at EXCEPT ![p] = "opened"]
    <3>1. OthersThan(p) \in SUBSET Processes /\ \A q \in Processes : q # p => q \in OthersThan(p)
      BY DEF OthersThan
    <3>2. /\ DOMAIN touched' = Processes /\ touched' = [q \in Processes |-> touched'[q]]
          /\ \A q \in Processes : touched[q] \subseteq touched'[q]
          /\ \A q \in OthersThan(p) : n <= Len(elems[q]) => n \in touched'[q]
      BY <2>1, <3>1, TouchesThem
    <3> QED
      BY <2>1, <3>1, <3>2 DEF MapInv, MapTyped
  <2>2. CASE GiveUp(p, n)
    BY <2>2 DEF GiveUp, MapInv, MapTyped
  <2> QED
    BY <1>1, <2>1, <2>2
<1>7. MapTyped'
  <2>1. elems' \in [Processes -> Seq(MapElems)]
    BY <1>1, <1>4 DEF MapInv, MapTyped
  <2>2. map_at' \in [Processes -> {"idle", "opened", "mapped", "dead"}]
    BY <1>1 DEF MapInv, MapTyped, GiveUp
  <2>3. ASSUME NEW q \in Processes
        PROVE  Len(elems'[q]) <= MAX_ADDS /\ (map_at'[q] \in {"opened", "mapped"} => Len(elems'[q]) > 0)
    BY <1>1, <1>3, <1>5 DEF MapInv, MapTyped
  <2> QED
    BY <1>6, <2>1, <2>2, <2>3 DEF MapTyped
<1>8. ASSUME NEW m \in 1 .. Len(elems'[p]) PROVE HoldsOwn(p, m)'
  <2>1. SUFFICES ASSUME m \notin touched'[p], map_at'[p] = "idle" \/ m < Len(elems'[p])
                 PROVE  region'[m] = ValueOf(p, m)
    BY DEF HoldsOwn, ValueOf
  <2>2. m # n
    BY <1>3, <1>5, <1>6, <2>1
  <2>3. m \in 1 .. Len(elems[p]) /\ m \in Names
    BY <1>3, <1>5, <1>8, <2>2 DEF Names
  <2>4. HoldsOwn(p, m) /\ m \notin touched[p]
    BY <1>6, <2>1, <2>3 DEF MapInv, OwnValues
  <2>5. region[m] = ValueOf(p, m)
    BY <1>1, <2>4 DEF HoldsOwn
  <2> QED
    BY <1>6, <2>2, <2>3, <2>5
<1> HIDE DEF n
<1>9. /\ n \in Names /\ \A q \in Processes : q # p => elems'[q] = elems[q] /\ map_at'[q] = map_at[q]
      /\ \A q \in Processes : q # p /\ n <= Len(elems[q]) => region' = region \/ n \in touched'[q]
      /\ \A m \in Names : m # n => region'[m] = region[m]
      /\ \A q \in Processes : touched[q] \subseteq touched'[q]
  BY <1>3, <1>5, <1>6
<1> QED
  BY <1>7, <1>8, <1>9, StepKeepsValues

\* ftruncate(), the copy and the fault: only the last element's value is at stake.
LEMMA WriteKeepsValues ==
  ASSUME MapInv, NEW p \in Processes, Resize(p) \/ CopyValue(p) \/ Fault(p)
  PROVE  MapInv'
<1> DEFINE n == Object(p)
<1>1. /\ map_at[p] \in {"opened", "mapped"} /\ elems' = elems
      /\ \A q \in Processes : q # p => map_at'[q] = map_at[q]
      /\ map_at' \in [Processes -> {"idle", "opened", "mapped", "dead"}]
  BY DEF Resize, CopyValue, Fault, GiveUp, MapInv, MapTyped
<1>2. n \in Names /\ n \in Nat /\ n = Len(elems[p])
  BY <1>1 DEF MapInv, MapTyped, Names, Object
<1>3. /\ DOMAIN touched' = Processes /\ touched' = [q \in Processes |-> touched'[q]]
      /\ \A q \in Processes : touched[q] \subseteq touched'[q]
      /\ \A q \in Processes : q # p /\ n <= Len(elems[q]) => region' = region \/ n \in touched'[q]
      /\ map_at'[p] = "idle" => n \in touched'[p] \/ region'[n] = ValueOf(p, n)
      /\ \A m \in Names : m # n => region'[m] = region[m]
      /\ DOMAIN region' = Names /\ region' = [m \in Names |-> region'[m]]
      /\ map_at'[p] \in {"opened", "mapped"} => Len(elems[p]) > 0
  <2>0. OthersThan(p) \in SUBSET Processes /\ \A q \in Processes : q # p => q \in OthersThan(p)
    BY DEF OthersThan
  <2>1. CASE Resize(p) /\ ~GiveUp(p, n)
    <3>1. /\ region' = [region EXCEPT ![n] = IF @ = Hollow THEN Zeros ELSE @]
          /\ map_at' = [map_at EXCEPT ![p] = "mapped"]
          /\ Touch(OthersThan(p), n)
      BY <2>1 DEF Resize
    <3>2. /\ DOMAIN touched' = Processes /\ touched' = [q \in Processes |-> touched'[q]]
          /\ \A q \in Processes : touched[q] \subseteq touched'[q]
          /\ \A q \in OthersThan(p) : n <= Len(elems[q]) => n \in touched'[q]
      BY <2>0, <3>1, TouchesThem
    <3> HIDE DEF n
    <3>3. /\ \A m \in Names : m # n => region'[m] = region[m]
          /\ DOMAIN region' = Names /\ region' = [m \in Names |-> region'[m]]
      BY <3>1 DEF MapInv, MapTyped
    <3>4. map_at'[p] = "mapped" /\ Len(elems[p]) > 0
      BY <1>1, <3>1 DEF MapInv, MapTyped
    <3> QED
      BY <2>0, <3>2, <3>3, <3>4
  <2>2. CASE Resize(p) /\ GiveUp(p, n)
    <3>1. /\ touched' = [touched EXCEPT ![p] = @ \cup {n}]
          /\ map_at' = [map_at EXCEPT ![p] = "idle"] /\ region' = region
      BY <2>2 DEF GiveUp
    <3> HIDE DEF n
    <3>2. /\ DOMAIN touched' = Processes /\ touched' = [q \in Processes |-> touched'[q]]
          /\ \A q \in Processes : touched[q] \subseteq touched'[q]
          /\ n \in touched'[p]
      BY <3>1 DEF MapInv, MapTyped
    <3>3. map_at'[p] = "idle"
      BY <3>1 DEF MapInv, MapTyped
    <3>4. DOMAIN region' = Names /\ region' = [m \in Names |-> region'[m]]
      BY <3>1 DEF MapInv, MapTyped
    <3> QED
      BY <3>1, <3>2, <3>3, <3>4
  <2>3. CASE CopyValue(p)
    <3>1. PICK content \in {ValueOf(p, n), Mixed} :
            (content = Mixed => Overlapped(p)) /\ region' = [region EXCEPT ![n] = content]
      BY <2>3 DEF CopyValue
    <3>2. PICK ps \in SUBSET Processes : /\ ps = IF Overlapped(p) THEN Processes ELSE OthersThan(p)
                                         /\ Touch(ps, n)
      BY <2>0, <2>3 DEF CopyValue
    <3>3. /\ DOMAIN touched' = Processes /\ touched' = [q \in Processes |-> touched'[q]]
          /\ \A q \in Processes : touched[q] \subseteq touched'[q]
          /\ \A q \in ps : n <= Len(elems[q]) => n \in touched'[q]
      BY <3>2, TouchesThem
    <3>4. \A q \in Processes : q # p => q \in ps
      BY <2>0, <3>2
    <3>5. region'[n] = content /\ (content # ValueOf(p, n) => p \in ps)
      <4>1. n \in DOMAIN region
        BY <1>2 DEF MapInv, MapTyped
      <4> QED
        BY <3>1, <3>2, <4>1
    <3>6. map_at' = [map_at EXCEPT ![p] = "idle"]
      BY <2>3 DEF CopyValue
    <3> HIDE DEF n
    <3>7. /\ \A m \in Names : m # n => region'[m] = region[m]
          /\ DOMAIN region' = Names /\ region' = [m \in Names |-> region'[m]]
      BY <3>1 DEF MapInv, MapTyped
    <3>8. n \in touched'[p] \/ region'[n] = ValueOf(p, n)
      BY <1>2, <3>3, <3>5
    <3>9. map_at'[p] = "idle"
      BY <3>6 DEF MapInv, MapTyped
    <3> QED
      BY <3>3, <3>4, <3>7, <3>8, <3>9
  <2>4. CASE Fault(p)
    BY <2>4 DEF Fault, MapInv, MapTyped
  <2> QED
    BY <2>1, <2>2, <2>3, <2>4
<1>4. MapTyped'
  <2>1. ASSUME NEW q \in Processes
        PROVE  Len(elems'[q]) <= MAX_ADDS /\ (map_at'[q] \in {"opened", "mapped"} => Len(elems'[q]) > 0)
    BY <1>1, <1>3 DEF MapInv, MapTyped
  <2> QED
    BY <1>1, <1>3, <2>1 DEF MapInv, MapTyped
<1>5. ASSUME NEW m \in 1 .. Len(elems'[p]) PROVE HoldsOwn(p, m)'
  <2>1. SUFFICES ASSUME m \notin touched'[p], map_at'[p] = "idle" \/ m < Len(elems'[p])
                 PROVE  region'[m] = ValueOf(p, m)
    BY DEF HoldsOwn, ValueOf
  <2>2. CASE m = n
    <3>1. map_at'[p] = "idle"
      BY <1>1, <1>2, <2>1, <2>2
    <3> QED
      BY <1>3, <2>1, <2>2, <3>1
  <2>3. CASE m # n
    <3>1. m \in 1 .. Len(elems[p]) /\ m \in Names /\ m < Len(elems[p])
      BY <1>1, <1>2, <1>5, <2>3 DEF Names
    <3>2. HoldsOwn(p, m) /\ m \notin touched[p]
      BY <1>3, <2>1, <3>1 DEF MapInv, OwnValues
    <3>3. region[m] = ValueOf(p, m)
      BY <3>1, <3>2 DEF HoldsOwn
    <3> QED
      BY <1>3, <2>3, <3>1, <3>3
  <2> QED
    BY <2>2, <2>3
<1> HIDE DEF n
<1>6. \A q \in Processes : q # p => elems'[q] = elems[q] /\ map_at'[q] = map_at[q]
  BY <1>1
<1> QED
  BY <1>2, <1>3, <1>4, <1>5, <1>6, StepKeepsValues

\* The invariant of the map holds in every state.
LEMMA MapInvHolds == MapSpec => []MapInv
<1>1. MapInit => MapInv
  BY DEF MapInit, MapInv, MapTyped, OwnValues
<1>2. MapInv /\ [MapNext]_mapVars => MapInv'
  <2>1. MapInv /\ UNCHANGED mapVars => MapInv'
    BY DEF mapVars, MapInv, MapTyped, OwnValues, HoldsOwn
  <2> QED
    BY <2>1, AddKeepsValues, WriteKeepsValues DEF MapNext
<1> QED
  BY <1>1, <1>2, PTL DEF MapSpec

\* The lookup stops at the element that is last of its key in a list, first in a
\* tree.
LEMMA FoundIsTheEnd ==
  ASSUME NEW p \in Processes, NEW ds, NEW key, NEW n \in Matching(p, ds, key),
         \A m \in Matching(p, ds, key) : IF ds = "list" THEN m <= n ELSE n <= m
  PROVE  Found(Matching(p, ds, key), ds) = n
<1>1. Matching(p, ds, key) \subseteq Int
  BY DEF Matching
<1> DEFINE IsEnd(k) == \A m \in Matching(p, ds, key) : IF ds = "list" THEN m <= k ELSE k <= m
<1>2. \A k \in Matching(p, ds, key) : IsEnd(k) => k = n
  BY <1>1
<1> QED
  BY <1>2 DEF Found

\* For every number of processes and objects and all keys: a lookup between two
\* calls gives the value the process itself added with the newest key that is the
\* same text (list) or the oldest that begins with the same four bytes (tree),
\* unless the call failed or another process has since created or written an object
\* of that name (shm_add_elem(), add_value_in_physical_memory(), SHM_LOOKUP).
THEOREM FindsOwnUnlessRecreatedHolds == MapSpec => []FindsOwnUnlessRecreated
<1>1. MapInv => FindsOwnUnlessRecreated
  <2> SUFFICES ASSUME MapInv, NEW p \in Processes, NEW key \in LookupKeys, NEW ds \in Containers,
                      NEW n \in Matching(p, ds, key), map_at[p] = "idle", n \notin touched[p],
                      \A m \in Matching(p, ds, key) : IF ds = "list" THEN m <= n ELSE n <= m
               PROVE  SHM_LOOKUP(p, ds, key) = ValueOf(p, n)
    BY DEF FindsOwnUnlessRecreated
  <2>1. SHM_LOOKUP(p, ds, key) = region[n]
    BY FoundIsTheEnd DEF SHM_LOOKUP
  <2>2. n \in 1 .. Len(elems[p])
    BY DEF Matching
  <2> QED
    BY <2>1, <2>2 DEF MapInv, OwnValues, HoldsOwn
<1> QED
  BY <1>1, MapInvHolds, PTL

HIDE MapAssumption

-----------------------------------------------------------------------------
(* The list of rt.c is a table with at most one route for a destination.   *)

USE RoutingAssumption

\* What a walk comes by is not left by it, and is in every set that is not.
LEMMA LinkedLeast ==
  ASSUME NEW first \in Entries \cup {NIL}, NEW link \in [Entries -> Entries \cup {NIL}]
  PROVE  /\ LinkedFrom(first, link) \in SUBSET Entries
         /\ ClosedUnder(LinkedFrom(first, link), first, link)
         /\ \A S \in SUBSET Entries : ClosedUnder(S, first, link) => LinkedFrom(first, link) \subseteq S
<1> DEFINE L == LinkedFrom(first, link)
           reached == {e \in Entries : e = first \/ \E p \in Entries : link[p] = e}
<1>1. \A e \in Entries :
        e \in L <=> /\ e \in reached
                    /\ \A S \in SUBSET reached : ClosedUnder(S, first, link) => e \in S
  BY DEF LinkedFrom
<1>2. L \in SUBSET Entries
  BY DEF LinkedFrom
<1>3. /\ first # NIL => first \in reached
      /\ \A e \in Entries : link[e] # NIL => link[e] \in reached
      /\ reached \in SUBSET Entries
  OBVIOUS
<1> HIDE DEF L, reached
<1>4. first # NIL => first \in L
  BY <1>1, <1>3 DEF ClosedUnder
<1>5. ASSUME NEW e \in L, link[e] # NIL
      PROVE  link[e] \in L
  <2>1. e \in Entries /\ link[e] \in Entries /\ link[e] \in reached
    BY <1>2, <1>3, <1>5
  <2>2. ASSUME NEW S \in SUBSET reached, ClosedUnder(S, first, link)
        PROVE  link[e] \in S
    <3>1. e \in S
      BY <1>1, <2>1, <2>2
    <3> QED
      BY <1>5, <2>2, <3>1 DEF ClosedUnder
  <2> QED
    BY <1>1, <2>1, <2>2
<1>6. ClosedUnder(L, first, link)
  BY <1>4, <1>5 DEF ClosedUnder
<1>7. ASSUME NEW S \in SUBSET Entries, ClosedUnder(S, first, link)
      PROVE  L \subseteq S
  <2>1. ClosedUnder(S \cap reached, first, link)
    BY <1>3, <1>7 DEF ClosedUnder
  <2>2. S \cap reached \in SUBSET reached
    OBVIOUS
  <2> QED
    BY <1>1, <1>2, <2>1, <2>2
<1> QED
  BY <1>2, <1>6, <1>7 DEF L

\* An entry that is not the first one is the next one of another.
LEMMA HasPredecessor ==
  ASSUME NEW first \in Entries \cup {NIL}, NEW link \in [Entries -> Entries \cup {NIL}],
         NEW e \in LinkedFrom(first, link), e # first
  PROVE  \E p \in LinkedFrom(first, link) \ {e} : link[p] = e
<1> DEFINE L == LinkedFrom(first, link)
<1> SUFFICES ASSUME \A p \in L \ {e} : link[p] # e
             PROVE  FALSE
  OBVIOUS
<1>1. L \in SUBSET Entries /\ ClosedUnder(L, first, link)
  BY LinkedLeast
<1>2. ClosedUnder(L \ {e}, first, link)
  BY <1>1 DEF ClosedUnder
<1>3. L \ {e} \in SUBSET Entries
  BY <1>1
<1>4. L \subseteq L \ {e}
  BY <1>2, <1>3, LinkedLeast
<1> QED
  BY <1>4

\* A new entry before the first one.
LEMMA LinkedPrepend ==
  ASSUME NEW first \in Entries \cup {NIL}, NEW link \in [Entries -> Entries \cup {NIL}],
         NEW new \in [Entries -> Entries \cup {NIL}],
         NEW e \in Entries, e \notin LinkedFrom(first, link),
         new[e] = first, \A x \in Entries \ {e} : new[x] = link[x]
  PROVE  LinkedFrom(e, new) = LinkedFrom(first, link) \cup {e}
<1> DEFINE L == LinkedFrom(first, link)
           M == LinkedFrom(e, new)
<1>1. L \in SUBSET Entries /\ ClosedUnder(L, first, link)
  BY LinkedLeast
<1>3. new[e] = first /\ \A x \in Entries : x # e => new[x] = link[x]
  OBVIOUS
<1>4. M \in SUBSET Entries /\ ClosedUnder(M, e, new)
  BY LinkedLeast
<1>5. \A S \in SUBSET Entries : ClosedUnder(S, e, new) => M \subseteq S
  BY LinkedLeast
<1>6. \A S \in SUBSET Entries : ClosedUnder(S, first, link) => L \subseteq S
  BY LinkedLeast
<1>7. e \notin L
  OBVIOUS
<1> HIDE DEF L, M
<1>8. M \subseteq L \cup {e}
  <2>1. ClosedUnder(L \cup {e}, e, new)
    BY <1>1, <1>3 DEF ClosedUnder
  <2> QED
    BY <1>1, <1>5, <2>1
<1>9. L \cup {e} \subseteq M
  <2>1. e \in M
    BY <1>4 DEF ClosedUnder
  <2>2. first # NIL => first \in L \cap M
    BY <1>1, <1>3, <1>4, <2>1 DEF ClosedUnder
  <2>3. \A x \in L \cap M : link[x] # NIL => link[x] \in L \cap M
    BY <1>1, <1>3, <1>4, <1>7 DEF ClosedUnder
  <2>4. ClosedUnder(L \cap M, first, link)
    BY <2>2, <2>3 DEF ClosedUnder
  <2> QED
    BY <1>1, <1>6, <2>1, <2>4
<1> QED
  BY <1>8, <1>9 DEF L, M

\* The walk from the second entry.
LEMMA LinkedDropFirst ==
  ASSUME NEW first \in Entries, NEW link \in [Entries -> Entries \cup {NIL}],
         \A p \in LinkedFrom(first, link) : link[p] # first
  PROVE  LinkedFrom(link[first], link) = LinkedFrom(first, link) \ {first}
<1> DEFINE L == LinkedFrom(first, link)
           M == LinkedFrom(link[first], link)
<1>1. L \in SUBSET Entries /\ ClosedUnder(L, first, link)
  BY LinkedLeast
<1>2. link[first] \in Entries \cup {NIL} /\ first # NIL
  OBVIOUS
<1>3. M \in SUBSET Entries /\ ClosedUnder(M, link[first], link)
  BY <1>2, LinkedLeast
<1>4. \A S \in SUBSET Entries : ClosedUnder(S, link[first], link) => M \subseteq S
  BY <1>2, LinkedLeast
<1>5. \A S \in SUBSET Entries : ClosedUnder(S, first, link) => L \subseteq S
  BY LinkedLeast
<1>6. \A p \in L : link[p] # first
  OBVIOUS
<1> HIDE DEF L, M
<1>7. ClosedUnder(L \ {first}, link[first], link)
  BY <1>1, <1>2, <1>6 DEF ClosedUnder
<1>8. ClosedUnder(M \cup {first}, first, link)
  BY <1>2, <1>3 DEF ClosedUnder
<1>9. M \subseteq L \ {first}
  BY <1>1, <1>4, <1>7
<1>10. L \subseteq M \cup {first}
  BY <1>3, <1>5, <1>8
<1> QED
  BY <1>9, <1>10 DEF L, M

\* The walk that goes past an entry.
LEMMA LinkedSkip ==
  ASSUME NEW first \in Entries, NEW link \in [Entries -> Entries \cup {NIL}],
         NEW e \in LinkedFrom(first, link), NEW p \in LinkedFrom(first, link),
         e # first, p # e, link[p] = e,
         \A x \in LinkedFrom(first, link) : link[x] = e => x = p,
         NEW new \in [Entries -> Entries \cup {NIL}],
         new[p] = link[e], new[e] = NIL, \A x \in Entries \ {e, p} : new[x] = link[x]
  PROVE  LinkedFrom(first, new) = LinkedFrom(first, link) \ {e}
<1> DEFINE L == LinkedFrom(first, link)
           M == LinkedFrom(first, new)
<1>1. L \in SUBSET Entries /\ ClosedUnder(L, first, link)
  BY LinkedLeast
<1>2. e \in Entries /\ p \in Entries /\ first # NIL
  BY <1>1
<1>4. new[p] = link[e] /\ new[e] = NIL /\ \A x \in Entries \ {e, p} : new[x] = link[x]
  OBVIOUS
<1>5. M \in SUBSET Entries /\ ClosedUnder(M, first, new)
  BY LinkedLeast
<1>6. \A S \in SUBSET Entries : ClosedUnder(S, first, new) => M \subseteq S
  BY LinkedLeast
<1>7. \A S \in SUBSET Entries : ClosedUnder(S, first, link) => L \subseteq S
  BY LinkedLeast
<1>8. e \in L /\ p \in L /\ \A x \in L : link[x] = e => x = p
  OBVIOUS
<1> HIDE DEF L, M
<1>9. M \subseteq L \ {e}
  <2>1. ClosedUnder(L \ {e}, first, new)
    BY <1>1, <1>2, <1>4, <1>8 DEF ClosedUnder
  <2> QED
    BY <1>1, <1>6, <2>1
<1>10. p \in M
  <2> SUFFICES ASSUME p \notin M
               PROVE  FALSE
    OBVIOUS
  <2>1. ClosedUnder((L \cap M) \ {e}, first, link)
    BY <1>1, <1>2, <1>4, <1>5, <1>8 DEF ClosedUnder
  <2>2. L \subseteq (L \cap M) \ {e}
    BY <1>1, <1>7, <2>1
  <2> QED
    BY <1>8, <2>2
<1>11. L \subseteq M \cup {e}
  <2>1. first \in M
    BY <1>2, <1>5 DEF ClosedUnder
  <2>2. ASSUME NEW x \in M \cup {e}, link[x] # NIL
        PROVE  link[x] \in M \cup {e}
    <3>1. CASE x = e
      BY <1>4, <1>5, <1>10, <2>2, <3>1 DEF ClosedUnder
    <3>2. CASE x = p
      BY <3>2
    <3>3. CASE x \notin {e, p}
      BY <1>4, <1>5, <2>2, <3>3 DEF ClosedUnder
    <3> QED
      BY <3>1, <3>2, <3>3
  <2>3. ClosedUnder(M \cup {e}, first, link)
    BY <2>1, <2>2 DEF ClosedUnder
  <2> QED
    BY <1>2, <1>5, <1>7, <2>3
<1> QED
  BY <1>9, <1>11 DEF L, M

LinksTyped ==
  /\ head \in Entries \cup {NIL}
  /\ next \in [Entries -> Entries \cup {NIL}]
  /\ prev \in [Entries -> Entries \cup {NIL}]

ContentTyped ==
  /\ dest \in [Entries -> Dests \cup {NoDest}]
  /\ route \in [Entries -> Routes \cup {NoRoute}]
  /\ allocated \subseteq Entries /\ tails \subseteq Entries

\* An entry of the list has a key, no other has the same, and a route.
KeysDiffer ==
  /\ \A e \in Linked : dest[e] \in Dests /\ route[e] \in Routes
  /\ \A e, f \in Linked : dest[e] = dest[f] => e = f

RtInv == LinksTyped /\ ContentTyped /\ KeysDiffer /\ OnlyTailsLeak

\* The list is closed under its links, and is no larger than it must be.
LEMMA LinkedIsClosed ==
  ASSUME LinksTyped
  PROVE  /\ Linked \in SUBSET Entries
         /\ head # NIL => head \in Linked
         /\ \A e \in Linked : next[e] # NIL => next[e] \in Linked
         /\ head = NIL => Linked = {}
<1>1. /\ LinkedFrom(head, next) \in SUBSET Entries
      /\ ClosedUnder(LinkedFrom(head, next), head, next)
      /\ \A S \in SUBSET Entries : ClosedUnder(S, head, next) => LinkedFrom(head, next) \subseteq S
  BY LinkedLeast DEF LinksTyped
<1>2. head = NIL => LinkedFrom(head, next) = {}
  <2>1. head = NIL => ClosedUnder({}, head, next)
    BY DEF ClosedUnder
  <2>2. {} \in SUBSET Entries
    OBVIOUS
  <2> QED
    BY <1>1, <2>1, <2>2
<1> QED
  BY <1>1, <1>2 DEF Linked, ClosedUnder

\* The links of the list: prev leads to the one entry that next leads from, for
\* all but the head, to which none leads.
LEMMA ListShape ==
  ASSUME LinksTyped, LinksAgree
  PROVE  /\ \A e \in Linked : e # head => prev[e] \in Linked /\ prev[e] # e /\ next[prev[e]] = e
         /\ \A e, f \in Linked : next[e] = f => e = prev[f]
         /\ \A e \in Linked : next[e] # head \/ head = NIL
         /\ \A e, f \in Linked : next[e] = next[f] /\ next[e] # NIL => e = f
<1>1. /\ Linked \in SUBSET Entries
      /\ \A e \in Linked : next[e] # NIL => next[e] \in Linked
  BY LinkedIsClosed
<1>2. \A e, f \in Linked : next[e] = f => e = prev[f]
  BY <1>1 DEF LinksAgree
<1>3. \A e \in Linked : next[e] # head \/ head = NIL
  BY <1>1, LinkedIsClosed DEF LinksAgree
<1>4. \A e, f \in Linked : next[e] = next[f] /\ next[e] # NIL => e = f
  BY <1>1 DEF LinksAgree
<1>5. ASSUME NEW e \in Linked, e # head
      PROVE  prev[e] \in Linked /\ prev[e] # e /\ next[prev[e]] = e
  <2>1. \E p \in Linked \ {e} : next[p] = e
    BY <1>5, HasPredecessor DEF Linked, LinksTyped
  <2> QED
    BY <1>2, <2>1
<1> QED
  BY <1>2, <1>3, <1>4, <1>5

\* An entry that is inserted is the head, before the others.
LEMMA InsertKeeps ==
  ASSUME RtInv, NEW d \in Dests, NEW r \in Routes, Insert(d, r)
  PROVE  /\ RtInv'
         /\ \E e \in Entries \ Linked :
              /\ Linked' = Linked \cup {e}
              /\ dest' = [dest EXCEPT ![e] = d] /\ route' = [route EXCEPT ![e] = r]
<1> DEFINE e == NewEntry
<1>1. /\ Absent(d) /\ allocated # Entries
      /\ allocated' = allocated \cup {e}
      /\ dest' = [dest EXCEPT ![e] = d]
      /\ route' = [route EXCEPT ![e] = r]
      /\ next' = [next EXCEPT ![e] = head]
      /\ prev' = [p \in Entries |-> IF p = e THEN NIL ELSE IF p = head THEN e ELSE prev[p]]
      /\ head' = e /\ tails' = tails
  BY DEF Insert
<1>2. e \in Entries /\ e \notin allocated
  <2>1. \E x \in Entries : x \notin allocated
    BY <1>1 DEF RtInv, ContentTyped
  <2> QED
    BY <2>1 DEF NewEntry
<1> HIDE DEF e
<1>3. e \notin Linked /\ e \notin tails /\ e # NIL
  BY <1>2 DEF RtInv, OnlyTailsLeak
<1>4. LinksTyped' /\ ContentTyped'
  BY <1>1, <1>2 DEF RtInv, LinksTyped, ContentTyped
<1>5. Linked' = Linked \cup {e}
  <2>1. next' \in [Entries -> Entries \cup {NIL}]
        /\ next'[e] = head /\ \A x \in Entries \ {e} : next'[x] = next[x]
    BY <1>1, <1>2, <1>4 DEF RtInv, LinksTyped
  <2>2. LinkedFrom(e, next') = LinkedFrom(head, next) \cup {e}
    BY <1>2, <1>3, <2>1, LinkedPrepend DEF RtInv, LinksTyped, Linked
  <2> QED
    BY <1>1, <2>2 DEF Linked
<1>6. /\ Linked \in SUBSET Entries /\ (head # NIL => head \in Linked)
      /\ \A x \in Linked : next[x] # NIL => next[x] \in Linked
  BY LinkedIsClosed DEF RtInv
<1>7. KeysDiffer'
  <2>1. \A x \in Linked : dest[x] # d
    BY <1>1 DEF Absent, LookUp
  <2>2. \A x \in Linked \cup {e} : dest'[x] = (IF x = e THEN d ELSE dest[x])
                                  /\ route'[x] = (IF x = e THEN r ELSE route[x])
    BY <1>1, <1>2, <1>6 DEF RtInv, ContentTyped
  <2> QED
    BY <1>5, <2>1, <2>2 DEF RtInv, KeysDiffer
<1>8. LinksAgree'
  <2>1. next'[e] = head /\ prev'[e] = NIL /\ (head # NIL => prev'[head] = e)
    BY <1>1, <1>2, <1>3, <1>6 DEF RtInv, LinksTyped
  <2>2. \A x \in Linked : next'[x] = next[x] /\ (x # head => prev'[x] = prev[x])
    BY <1>1, <1>3, <1>6 DEF RtInv, LinksTyped
  <2>3. \A x \in Linked : next[x] # head \/ head = NIL
    BY ListShape DEF RtInv, OnlyTailsLeak
  <2>4. ASSUME NEW x \in Linked
        PROVE  /\ next'[x] # NIL => prev'[next'[x]] = x
               /\ prev'[x] = NIL <=> x = e
    <3>1. /\ next[x] # NIL => prev[next[x]] = x
          /\ prev[x] = NIL <=> x = head
      BY DEF RtInv, OnlyTailsLeak, LinksAgree
    <3>2. next[x] # NIL => prev'[next[x]] = x
      BY <1>6, <2>2, <2>3, <3>1
    <3>3. x # e
      BY <1>3
    <3>4. prev'[x] # NIL
      BY <1>3, <1>6, <2>1, <2>2, <3>1
    <3> QED
      BY <2>2, <3>2, <3>3, <3>4
  <2> QED
    BY <1>1, <1>3, <1>5, <1>6, <2>1, <2>4 DEF LinksAgree
<1>9. OnlyTailsLeak'
  BY <1>1, <1>3, <1>5, <1>8 DEF RtInv, OnlyTailsLeak
<1> QED
  BY <1>1, <1>2, <1>3, <1>4, <1>5, <1>7, <1>9 DEF RtInv

\* The head is deleted.
LEMMA DeleteHead ==
  ASSUME RtInv, NEW e \in Linked, e = head,
         head' = next[e], next' = next,
         prev' = [p \in Entries |-> IF p = next[e] THEN NIL ELSE prev[p]]
  PROVE  LinksTyped' /\ LinksAgree' /\ Linked' = Linked \ {e}
<1>1. /\ Linked \in SUBSET Entries /\ e \in Entries
      /\ \A x \in Linked : next[x] # NIL => next[x] \in Linked
  BY LinkedIsClosed DEF RtInv
<1>2. LinksTyped'
  BY <1>1 DEF RtInv, LinksTyped
<1>3. \A x \in Linked : next[x] # e
  BY <1>1, ListShape DEF RtInv, OnlyTailsLeak
<1>4. Linked' = Linked \ {e}
  <2>1. LinkedFrom(next[e], next) = LinkedFrom(e, next) \ {e}
    BY <1>1, <1>3, LinkedDropFirst DEF RtInv, LinksTyped, Linked
  <2> QED
    BY <2>1 DEF Linked
<1>5. LinksAgree'
  <2> SUFFICES ASSUME NEW x \in Linked, x # e
               PROVE  /\ next[x] # NIL => prev'[next[x]] = x
                      /\ prev'[x] = NIL <=> x = next[e]
    BY <1>4 DEF LinksAgree
  <2>1. /\ next[x] # NIL => prev[next[x]] = x
        /\ prev[x] = NIL <=> x = head
    BY DEF RtInv, OnlyTailsLeak, LinksAgree
  <2>2. next[x] # NIL => next[x] # next[e]
    BY ListShape DEF RtInv, OnlyTailsLeak
  <2> QED
    BY <1>1, <2>1, <2>2
<1> QED
  BY <1>2, <1>4, <1>5

\* An entry that is not the head is deleted, the last one or another.
LEMMA DeleteOther ==
  ASSUME RtInv, NEW e \in Linked, e # head, head' = head,
         \/ /\ next[e] = NIL
            /\ next' = [next EXCEPT ![prev[e]] = NIL]
            /\ prev' = [prev EXCEPT ![e] = NIL]
         \/ /\ next[e] # NIL
            /\ next' = [next EXCEPT ![prev[e]] = next[e], ![e] = NIL]
            /\ prev' = [prev EXCEPT ![next[e]] = prev[e], ![e] = NIL]
  PROVE  LinksTyped' /\ LinksAgree' /\ Linked' = Linked \ {e}
<1> DEFINE p == prev[e]
<1>1. /\ Linked \in SUBSET Entries /\ e \in Entries
      /\ \A x \in Linked : next[x] # NIL => next[x] \in Linked
      /\ head # NIL
  BY LinkedIsClosed DEF RtInv
<1>2. p \in Linked /\ p # e /\ next[p] = e /\ \A x \in Linked : next[x] = e => x = p
  BY ListShape DEF RtInv, OnlyTailsLeak
<1>3. \A x, y \in Linked : next[x] = next[y] /\ next[x] # NIL => x = y
  BY ListShape DEF RtInv, OnlyTailsLeak
<1>4. p \in Entries /\ p # NIL /\ e # NIL
  BY <1>1, <1>2
<1>5. next' = [next EXCEPT ![p] = next[e], ![e] = NIL]
  BY <1>1, <1>2, <1>4 DEF RtInv, LinksTyped
<1>6. /\ next[e] # e
      /\ \A x \in Linked : prev[x] = NIL <=> x = head
      /\ \A x \in Linked : next[x] # NIL => prev[next[x]] = x
  BY <1>2 DEF RtInv, OnlyTailsLeak, LinksAgree
<1>7. LinksTyped'
  BY <1>1, <1>4 DEF RtInv, LinksTyped
<1> HIDE DEF p
<1>8. Linked' = Linked \ {e}
  <2>1. head \in Entries /\ next \in [Entries -> Entries \cup {NIL}]
    BY <1>1 DEF RtInv, LinksTyped
  <2>2. /\ next' \in [Entries -> Entries \cup {NIL}]
        /\ next'[p] = next[e] /\ next'[e] = NIL /\ \A x \in Entries \ {e, p} : next'[x] = next[x]
    BY <1>1, <1>2, <1>4, <1>5, <1>7, <2>1 DEF LinksTyped
  <2>3. LinkedFrom(head, next') = LinkedFrom(head, next) \ {e}
    BY <1>2, <2>1, <2>2, LinkedSkip DEF Linked
  <2> QED
    BY <2>3 DEF Linked
<1>9. LinksAgree'
  <2> SUFFICES ASSUME NEW x \in Linked, x # e
               PROVE  /\ next'[x] # NIL => prev'[next'[x]] = x
                      /\ prev'[x] = NIL <=> x = head
    BY <1>8 DEF LinksAgree
  <2>1. next'[x] = IF x = p THEN next[e] ELSE next[x]
    BY <1>1, <1>4, <1>5 DEF RtInv, LinksTyped
  <2>2. \A y \in Linked : y # e => prev'[y] = IF y = next[e] THEN p ELSE prev[y]
    BY <1>1, <1>4 DEF RtInv, LinksTyped, p
  <2>3. next'[x] # NIL => prev'[next'[x]] = x
    <3>1. CASE x = p
      BY <1>1, <1>6, <2>1, <2>2, <3>1
    <3>2. CASE x # p
      BY <1>1, <1>2, <1>3, <1>6, <2>1, <2>2, <3>2
    <3> QED
      BY <3>1, <3>2
  <2>4. prev'[x] = NIL <=> x = head
    <3>1. CASE x = next[e]
      <4>1. prev[x] = e
        BY <1>1, <1>4, <1>6, <3>1
      <4> QED
        BY <1>4, <1>6, <2>2, <3>1, <4>1
    <3>2. CASE x # next[e]
      BY <1>6, <2>2, <3>2
    <3> QED
      BY <3>1, <3>2
  <2> QED
    BY <2>3, <2>4
<1> QED
  BY <1>7, <1>8, <1>9

\* An entry that is deleted is gone, and the others are as they were.
LEMMA DeleteKeeps ==
  ASSUME RtInv, NEW e \in Linked, Delete(e)
  PROVE  /\ RtInv'
         /\ Linked' = Linked \ {e}
         /\ \A x \in Linked \ {e} : dest'[x] = dest[x] /\ route'[x] = route[x]
<1>1. dest' = [dest EXCEPT ![e] = NoDest] /\ route' = [route EXCEPT ![e] = NoRoute]
  BY DEF Delete
<1>2. /\ LinksTyped' /\ LinksAgree' /\ Linked' = Linked \ {e}
      /\ \/ allocated' = allocated \ {e} /\ tails' = tails
         \/ allocated' = allocated /\ tails' = tails \cup {e}
  <2>1. CASE e = head /\ UNCHANGED next
    BY <2>1, DeleteHead DEF Delete
  <2>2. CASE e # head
    BY <2>2, DeleteOther DEF Delete
  <2> QED
    BY <2>1, <2>2 DEF Delete
<1>3. Linked \in SUBSET Entries
  BY LinkedIsClosed DEF RtInv
<1>4. ContentTyped'
  BY <1>1, <1>2, <1>3 DEF RtInv, ContentTyped
<1>5. \A x \in Linked \ {e} : dest'[x] = dest[x] /\ route'[x] = route[x]
  BY <1>1, <1>3 DEF RtInv, ContentTyped
<1>6. KeysDiffer'
  BY <1>2, <1>5 DEF RtInv, KeysDiffer
<1>7. OnlyTailsLeak'
  <2>1. allocated = Linked \cup tails /\ Linked \cap tails = {}
    BY DEF RtInv, OnlyTailsLeak
  <2> QED
    BY <1>2, <2>1 DEF OnlyTailsLeak
<1> QED
  BY <1>2, <1>4, <1>5, <1>6, <1>7 DEF RtInv

\* An update changes the route of one entry.
LEMMA UpdateKeeps ==
  ASSUME RtInv, NEW e \in Linked, NEW r \in Routes, Update(e, r)
  PROVE  /\ RtInv'
         /\ Linked' = Linked
         /\ \A x \in Linked : dest'[x] = dest[x] /\ route'[x] = IF x = e THEN r ELSE route[x]
<1>1. /\ route' = [route EXCEPT ![e] = r]
      /\ UNCHANGED <<head, next, prev, dest, allocated, tails>>
  BY DEF Update, linkVars
<1>2. Linked' = Linked
  BY <1>1 DEF Linked
<1>3. Linked \in SUBSET Entries
  BY LinkedIsClosed DEF RtInv
<1>4. \A x \in Linked : dest'[x] = dest[x] /\ route'[x] = IF x = e THEN r ELSE route[x]
  BY <1>1, <1>3 DEF RtInv, ContentTyped
<1>5. LinksTyped' /\ ContentTyped'
  BY <1>1, <1>3 DEF RtInv, LinksTyped, ContentTyped
<1>6. KeysDiffer'
  BY <1>2, <1>4 DEF RtInv, KeysDiffer
<1>7. OnlyTailsLeak'
  BY <1>1, <1>2 DEF RtInv, OnlyTailsLeak, LinksAgree
<1> QED
  BY <1>2, <1>4, <1>5, <1>6, <1>7 DEF RtInv

\* A call that is refused, or none.
LEMMA SameKeeps ==
  ASSUME RtInv, UNCHANGED <<linkVars, dest, route, allocated, tails>>
  PROVE  RtInv' /\ UNCHANGED <<Linked, Table>>
<1>1. UNCHANGED <<head, next, prev, dest, route, allocated, tails>>
  BY DEF linkVars
<1>2. Linked' = Linked
  BY <1>1 DEF Linked
<1>3. LinksTyped' /\ ContentTyped' /\ KeysDiffer' /\ OnlyTailsLeak'
  BY <1>1, <1>2 DEF RtInv, LinksTyped, ContentTyped, KeysDiffer, OnlyTailsLeak, LinksAgree
<1> QED
  BY <1>1, <1>2, <1>3 DEF RtInv, Table

\* The invariant of the table holds in every state.
LEMMA RtInvHolds == RtSpec => []RtInv
<1>1. ASSUME RtInit
      PROVE  RtInv
  <2>1. /\ head = NIL /\ next = [e \in Entries |-> NIL] /\ prev = next
        /\ dest = [e \in Entries |-> NoDest] /\ route = [e \in Entries |-> NoRoute]
        /\ allocated = {} /\ tails = {}
    BY <1>1 DEF RtInit
  <2>2. LinksTyped /\ ContentTyped
    BY <2>1 DEF LinksTyped, ContentTyped
  <2>3. Linked = {}
    BY <2>1, <2>2, LinkedIsClosed
  <2> QED
    BY <2>1, <2>2, <2>3 DEF RtInv, KeysDiffer, OnlyTailsLeak, LinksAgree
<1>2. RtInv /\ [RtNext]_rtVars => RtInv'
  <2>1. RtInv /\ Refuse => RtInv'
    BY SameKeeps DEF Refuse
  <2>2. RtInv /\ UNCHANGED rtVars => RtInv'
    BY SameKeeps DEF rtVars, linkVars
  <2> QED
    BY <2>1, <2>2, InsertKeeps, DeleteKeeps, UpdateKeeps DEF RtNext
<1> QED
  BY <1>1, <1>2, PTL DEF RtSpec

\* For every number of entries, destinations and routes: the links of the two
\* directions agree, and every entry that was allocated is in the list or was
\* the last of several when it was deleted (rt_delete_rt_entry() of rt.c).
THEOREM OnlyTailsLeakHolds == RtSpec => []OnlyTailsLeak
<1>1. RtInv => OnlyTailsLeak
  BY DEF RtInv
<1> QED
  BY <1>1, RtInvHolds, PTL

\* What the list says of a destination.
LEMMA TableAt ==
  ASSUME RtInv
  PROVE  /\ DOMAIN Table = Dests /\ Table = [d \in Dests |-> Table[d]]
         /\ \A e \in Linked : Table[dest[e]] = route[e]
         /\ \A d \in Dests : Absent(d) => Table[d] = NoRoute
         /\ \A d \in Dests : Table[d] = NoRoute <=> Absent(d)
<1>1. DOMAIN Table = Dests /\ Table = [d \in Dests |-> Table[d]]
  BY DEF Table
<1>2. ASSUME NEW e \in Linked
      PROVE  Table[dest[e]] = route[e]
  <2>1. dest[e] \in Dests /\ \A f \in Linked : dest[f] = dest[e] => f = e
    BY DEF RtInv, KeysDiffer
  <2> QED
    BY <2>1 DEF Table
<1>3. \A d \in Dests : Absent(d) => Table[d] = NoRoute
  BY DEF Table, Absent, LookUp
<1>4. \A d \in Dests : Table[d] = NoRoute => Absent(d)
  BY <1>2 DEF Absent, LookUp, RtInv, KeysDiffer
<1> QED
  BY <1>1, <1>2, <1>3, <1>4

\* What TableAt says, for the next state.
TableOfList ==
  /\ DOMAIN Table = Dests /\ Table = [d \in Dests |-> Table[d]]
  /\ \A e \in Linked : Table[dest[e]] = route[e]
  /\ \A d \in Dests : Absent(d) => Table[d] = NoRoute

\* What the list says of a destination after a step.
LEMMA TableAtNext ==
  RtInv' => /\ DOMAIN Table' = Dests /\ Table' = [d \in Dests |-> Table'[d]]
            /\ \A e \in Linked' : Table'[dest'[e]] = route'[e]
            /\ \A d \in Dests : Absent(d)' => Table'[d] = NoRoute
<1>1. RtInv => TableOfList
  BY TableAt DEF TableOfList
<1>2. RtInv' => TableOfList'
  BY <1>1, PTL
<1> QED
  BY <1>2 DEF TableOfList

\* An insertion is one in the table.
LEMMA InsertMaps ==
  ASSUME RtInv, RtInv', NEW d \in Dests, NEW r \in Routes, Insert(d, r)
  PROVE  Promise!Insert(d, r)
<1>1. rt_call' = <<"insert", d, r>> /\ rt_rc' = 0 /\ Absent(d)
  BY DEF Insert
<1>2. PICK e \in Entries \ Linked :
        /\ Linked' = Linked \cup {e}
        /\ dest' = [dest EXCEPT ![e] = d] /\ route' = [route EXCEPT ![e] = r]
  BY InsertKeeps
<1>3. Linked \in SUBSET Entries
  BY LinkedIsClosed DEF RtInv
<1>4. \A x \in Linked : dest'[x] = dest[x] /\ route'[x] = route[x]
  BY <1>2, <1>3 DEF RtInv, ContentTyped
<1>5. dest'[e] = d /\ route'[e] = r
  BY <1>2 DEF RtInv, ContentTyped
<1>6. \A x \in Dests : Table'[x] = IF x = d THEN r ELSE Table[x]
  <2> TAKE x \in Dests
  <2>1. CASE x = d
    BY <1>2, <1>5, <2>1, TableAtNext
  <2>2. CASE x # d /\ Absent(x)
    <3>1. Absent(x)'
      BY <1>2, <1>4, <1>5, <2>2 DEF Absent, LookUp
    <3> QED
      BY <2>2, <3>1, TableAt, TableAtNext
  <2>3. CASE x # d /\ ~Absent(x)
    <3>1. PICK f \in Linked : dest[f] = x
      BY <2>3 DEF Absent, LookUp
    <3> QED
      BY <1>2, <1>4, <2>3, <3>1, TableAt, TableAtNext
  <2> QED
    BY <2>1, <2>2, <2>3
<1>7. Table' = [Table EXCEPT ![d] = r]
  BY <1>6, TableAt, TableAtNext
<1>8. Table[d] = NoRoute
  BY <1>1, TableAt
<1> QED
  BY <1>1, <1>7, <1>8 DEF Promise!Insert

\* A deletion is one in the table.
LEMMA DeleteMaps ==
  ASSUME RtInv, RtInv', NEW e \in Linked, Delete(e)
  PROVE  Promise!Delete(dest[e])
<1> DEFINE d == dest[e]
<1>1. rt_call' = <<"delete", d>> /\ rt_rc' = 0
  BY DEF Delete
<1>2. /\ Linked' = Linked \ {e}
      /\ \A x \in Linked \ {e} : dest'[x] = dest[x] /\ route'[x] = route[x]
  BY DeleteKeeps
<1>3. d \in Dests /\ route[e] \in Routes /\ \A f \in Linked : dest[f] = d => f = e
  BY DEF RtInv, KeysDiffer
<1>4. Table[d] # NoRoute
  BY <1>3, TableAt
<1> HIDE DEF d
<1>5. \A x \in Dests : Table'[x] = IF x = d THEN NoRoute ELSE Table[x]
  <2> TAKE x \in Dests
  <2>1. CASE x = d
    <3>1. Absent(x)'
      BY <1>2, <1>3, <2>1 DEF Absent, LookUp
    <3> QED
      BY <2>1, <3>1, TableAtNext
  <2>2. CASE x # d /\ Absent(x)
    <3>1. Absent(x)'
      BY <1>2, <2>2 DEF Absent, LookUp
    <3> QED
      BY <2>2, <3>1, TableAt, TableAtNext
  <2>3. CASE x # d /\ ~Absent(x)
    <3>1. PICK f \in Linked : dest[f] = x
      BY <2>3 DEF Absent, LookUp
    <3>2. f # e
      BY <2>3, <3>1 DEF d
    <3> QED
      BY <1>2, <2>3, <3>1, <3>2, TableAt, TableAtNext
  <2> QED
    BY <2>1, <2>2, <2>3
<1>6. Table' = [Table EXCEPT ![d] = NoRoute]
  BY <1>5, TableAt, TableAtNext
<1> QED
  BY <1>1, <1>4, <1>6 DEF Promise!Delete, d

\* An update is one in the table.
LEMMA UpdateMaps ==
  ASSUME RtInv, RtInv', NEW e \in Linked, NEW r \in Routes, Update(e, r)
  PROVE  Promise!Update(dest[e], r)
<1> DEFINE d == dest[e]
<1>1. rt_call' = <<"update", d, r>> /\ rt_rc' = 0 /\ route[e] # r
  BY DEF Update
<1>2. /\ Linked' = Linked
      /\ \A x \in Linked : dest'[x] = dest[x] /\ route'[x] = IF x = e THEN r ELSE route[x]
  BY UpdateKeeps
<1>3. d \in Dests /\ route[e] \in Routes /\ \A f \in Linked : dest[f] = d => f = e
  BY DEF RtInv, KeysDiffer
<1>4. Table[d] = route[e] /\ Table[d] \notin {NoRoute, r}
  BY <1>1, <1>3, TableAt
<1> HIDE DEF d
<1>5. \A x \in Dests : Table'[x] = IF x = d THEN r ELSE Table[x]
  <2> TAKE x \in Dests
  <2>1. CASE x = d
    BY <1>2, <2>1, TableAtNext DEF d
  <2>2. CASE x # d /\ Absent(x)
    <3>1. Absent(x)'
      BY <1>2, <2>2 DEF Absent, LookUp
    <3> QED
      BY <2>2, <3>1, TableAt, TableAtNext
  <2>3. CASE x # d /\ ~Absent(x)
    <3>1. PICK f \in Linked : dest[f] = x
      BY <2>3 DEF Absent, LookUp
    <3>2. f # e
      BY <2>3, <3>1 DEF d
    <3> QED
      BY <1>2, <2>3, <3>1, <3>2, TableAt, TableAtNext
  <2> QED
    BY <2>1, <2>2, <2>3
<1>6. Table' = [Table EXCEPT ![d] = r]
  BY <1>5, TableAt, TableAtNext
<1> QED
  BY <1>1, <1>4, <1>6 DEF Promise!Update, d

\* What is refused would be refused by the table.
LEMMA RefuseMaps ==
  ASSUME RtInv, Refuse
  PROVE  Promise!Next
<1>1. PICK d \in Dests, r \in Routes :
        \/ ~Absent(d) /\ rt_call' = <<"insert", d, r>>
        \/ Absent(d) /\ rt_call' \in {<<"delete", d>>, <<"update", d, r>>}
        \/ (\E e \in LookUp(d) : route[e] = r) /\ rt_call' = <<"update", d, r>>
  BY DEF Refuse
<1>2. rt_rc' = -1 /\ UNCHANGED Table
  BY SameKeeps DEF Refuse
<1>3. CASE ~Absent(d) /\ rt_call' = <<"insert", d, r>>
  <2>1. Table[d] # NoRoute
    BY <1>3, TableAt
  <2>2. Promise!Insert(d, r)
    BY <1>2, <1>3, <2>1 DEF Promise!Insert
  <2> QED
    BY <2>2 DEF Promise!Next
<1>4. CASE Absent(d) /\ rt_call' = <<"delete", d>>
  <2>1. Table[d] = NoRoute
    BY <1>4, TableAt
  <2>2. Promise!Delete(d)
    BY <1>2, <1>4, <2>1 DEF Promise!Delete
  <2> QED
    BY <2>2 DEF Promise!Next
<1>5. CASE Absent(d) /\ rt_call' = <<"update", d, r>>
  <2>1. Table[d] = NoRoute
    BY <1>5, TableAt
  <2>2. Promise!Update(d, r)
    BY <1>2, <1>5, <2>1 DEF Promise!Update
  <2> QED
    BY <2>2 DEF Promise!Next
<1>6. CASE (\E e \in LookUp(d) : route[e] = r) /\ rt_call' = <<"update", d, r>>
  <2>1. Table[d] = r
    BY <1>6, TableAt DEF LookUp
  <2>2. Promise!Update(d, r)
    BY <1>2, <1>6, <2>1 DEF Promise!Update
  <2> QED
    BY <2>2 DEF Promise!Next
<1> QED
  BY <1>1, <1>3, <1>4, <1>5, <1>6

\* Every call on the list is a call on a table with at most one route for a key,
\* and returns the same, on every path of a deletion and for every number of
\* entries, destinations and routes.
THEOREM ImplementsRouteMapHolds == RtSpec => ImplementsRouteMap
<1>1. RtInit /\ RtInv => Promise!Init
  <2> SUFFICES ASSUME RtInit, RtInv
               PROVE  Promise!Init
    OBVIOUS
  <2>1. Linked = {}
    BY LinkedIsClosed DEF RtInit, RtInv
  <2>2. \A d \in Dests : Table[d] = NoRoute
    BY <2>1, TableAt DEF Absent, LookUp
  <2>3. Table = [d \in Dests |-> NoRoute]
    BY <2>2, TableAt
  <2> QED
    BY <2>3 DEF Promise!Init, RtInit
<1>2. RtInv /\ RtInv' /\ [RtNext]_rtVars => [Promise!Next]_<<Table, rt_call, rt_rc>>
  <2> SUFFICES ASSUME RtInv, RtInv', [RtNext]_rtVars
               PROVE  [Promise!Next]_<<Table, rt_call, rt_rc>>
    OBVIOUS
  <2>1. ASSUME NEW d \in Dests, NEW r \in Routes, Insert(d, r)
        PROVE  Promise!Next
    BY <2>1, InsertMaps DEF Promise!Next
  <2>2. ASSUME NEW e \in Linked, Delete(e)
        PROVE  Promise!Next
    <3>1. dest[e] \in Dests
      BY DEF RtInv, KeysDiffer
    <3> QED
      BY <2>2, <3>1, DeleteMaps DEF Promise!Next
  <2>3. ASSUME NEW e \in Linked, NEW r \in Routes, Update(e, r)
        PROVE  Promise!Next
    <3>1. dest[e] \in Dests
      BY DEF RtInv, KeysDiffer
    <3> QED
      BY <2>3, <3>1, UpdateMaps DEF Promise!Next
  <2>4. CASE UNCHANGED rtVars
    BY <2>4, SameKeeps DEF rtVars, linkVars
  <2> QED
    BY <2>1, <2>2, <2>3, <2>4, RefuseMaps DEF RtNext
<1> QED
  BY <1>1, <1>2, RtInvHolds, PTL DEF RtSpec, ImplementsRouteMap, Promise!Spec

HIDE RoutingAssumption

-----------------------------------------------------------------------------
(* The named region and its mutex: the entries are those written, in order, *)
(* and a dump shows one content unless igmp came back while it was made.   *)

USE RegionAssumption

Numbers == RollNumbers \cup {0}

RegionType ==
  [size : {"empty", "whole"}, ip_address : [Indices -> Numbers],
   shm_mutex : {"free", "igmp", "pim"}, contended : BOOLEAN]

RegionProcesses == {"igmp", "pim"}

\* The regions there are, and what was written to each.
StoreTyped ==
  /\ regions \in Seq(RegionType) /\ Len(regions) <= MAX_REGIONS
  /\ added \in Seq(Seq(RollNumbers)) /\ Len(added) = Len(regions)
  /\ \A r \in 1 .. Len(regions) : Len(added[r]) <= N_IPADDRESS

\* The processes, and a process that runs has mapped a region there is.
ProcessesTyped ==
  /\ process_at \in [igmp : {"off", "opened", "mapped", "ready", "asleep", "write", "written"},
                     pim : {"off", "ready", "asleep", "dump"}]
  /\ shm_reg \in [igmp : Regions \cup {NoRegion}, pim : Regions \cup {NoRegion}]
  /\ \A p \in RegionProcesses : process_at[p] # "off" => shm_reg[p] \in 1 .. Len(regions)
  /\ shm_name \in 1 .. Len(regions) \cup {NoRegion}
  /\ dump \in Seq(Numbers)
  /\ unlinked \in BOOLEAN

RegionTypeOK == StoreTyped /\ ProcessesTyped

\* Who writes or dumps has the region's mutex, if it was not made anew under it.
HoldsMutex ==
  /\ process_at.pim = "dump" /\ shm_reg.pim \notin disturbed =>
       regions[shm_reg.pim].shm_mutex = "pim"
  /\ process_at.igmp \in {"write", "written"} /\ shm_reg.igmp \notin disturbed =>
       regions[shm_reg.igmp].shm_mutex = "igmp"

\* Who runs has mapped the region of that name, as long as nobody removed the
\* name from under it.
MappedByName ==
  ~unlinked => \A p \in RegionProcesses : process_at[p] # "off" => shm_reg[p] = shm_name

RegionInv == RegionTypeOK /\ EntriesAreKept /\ HoldsMutex /\ DumpIsOneContent /\ MappedByName

\* The bounds are numbers.
LEMMA Bounds == N_IPADDRESS \in Nat /\ MAX_REGIONS \in Nat
  OBVIOUS

(* Steps on the regions                                                    *)

\* One region is changed, but not its entries: the others stay, and so do all
\* the entries.
LEMMA OneRegionChanges ==
  ASSUME StoreTyped, NEW r \in 1 .. Len(regions), NEW R \in RegionType,
         R.ip_address = regions[r].ip_address,
         regions' = [regions EXCEPT ![r] = R], added' = added
  PROVE  /\ StoreTyped' /\ Len(regions') = Len(regions)
         /\ \A q \in 1 .. Len(regions) : regions'[q] = IF q = r THEN R ELSE regions[q]
         /\ \A q \in 1 .. Len(regions) : regions'[q].ip_address = regions[q].ip_address
         /\ EntriesAreKept => EntriesAreKept'
<1>1. regions' \in [1 .. Len(regions) -> RegionType] /\ Len(regions) \in Nat
  BY DEF StoreTyped
<1>2. regions' \in Seq(RegionType) /\ Len(regions') = Len(regions)
  BY <1>1, SequenceOf
<1>3. \A q \in 1 .. Len(regions) : regions'[q] = IF q = r THEN R ELSE regions[q]
  BY DEF StoreTyped
<1>4. \A q \in 1 .. Len(regions) : regions'[q].ip_address = regions[q].ip_address
  BY <1>3
<1>5. EntriesAreKept => EntriesAreKept'
  BY <1>2, <1>4 DEF EntriesAreKept
<1> QED
  BY <1>2, <1>3, <1>4, <1>5 DEF StoreTyped

\* The region a running process has mapped is there.
LEMMA Mapped ==
  ASSUME RegionTypeOK, NEW p \in RegionProcesses, process_at[p] # "off"
  PROVE  /\ shm_reg[p] \in 1 .. Len(regions) /\ regions[shm_reg[p]] \in RegionType
         /\ regions \in [1 .. Len(regions) -> RegionType]
<1>1. shm_reg[p] \in 1 .. Len(regions)
  BY DEF RegionTypeOK, ProcessesTyped
<1>2. regions \in [1 .. Len(regions) -> RegionType]
  BY DEF RegionTypeOK, StoreTyped
<1> QED
  BY <1>1, <1>2

\* A mutex that is taken, released or made anew is that of the region mapped.
LEMMA MutexSet ==
  ASSUME RegionTypeOK, NEW p \in RegionProcesses, process_at[p] # "off", added' = added,
         NEW m \in {"free", "igmp", "pim"},
         \/ regions' = [regions EXCEPT ![shm_reg[p]].shm_mutex = m]
         \/ regions' = [regions EXCEPT ![shm_reg[p]].shm_mutex = m, ![shm_reg[p]].contended = FALSE]
  PROVE  /\ StoreTyped' /\ Len(regions') = Len(regions)
         /\ \A q \in 1 .. Len(regions) :
              regions'[q].shm_mutex = IF q = shm_reg[p] THEN m ELSE regions[q].shm_mutex
         /\ \A q \in 1 .. Len(regions) : regions'[q].ip_address = regions[q].ip_address
         /\ EntriesAreKept => EntriesAreKept'
<1>1. PICK r \in 1 .. Len(regions) : r = shm_reg[p] /\ regions[r] \in RegionType
  BY Mapped
<1>2. PICK R \in RegionType : /\ R.ip_address = regions[r].ip_address /\ R.shm_mutex = m
                             /\ regions' = [regions EXCEPT ![r] = R]
  <2>1. CASE regions' = [regions EXCEPT ![r].shm_mutex = m]
    <3>1. [regions[r] EXCEPT !.shm_mutex = m] \in RegionType
      BY <1>1 DEF RegionType
    <3> QED
      BY <1>1, <2>1, <3>1 DEF RegionType
  <2>2. CASE regions' = [regions EXCEPT ![r].shm_mutex = m, ![r].contended = FALSE]
    <3> DEFINE R == [regions[r] EXCEPT !.shm_mutex = m, !.contended = FALSE]
    <3>1. R \in RegionType /\ R.ip_address = regions[r].ip_address /\ R.shm_mutex = m
      BY <1>1 DEF RegionType
    <3>2. regions' = [regions EXCEPT ![r] = R]
      BY <1>1, <2>2, Mapped
    <3> QED
      BY <3>1, <3>2
  <2> QED
    BY <1>1, <2>1, <2>2
<1>3. /\ StoreTyped' /\ Len(regions') = Len(regions)
      /\ \A q \in 1 .. Len(regions) : regions'[q] = IF q = r THEN R ELSE regions[q]
      /\ \A q \in 1 .. Len(regions) : regions'[q].ip_address = regions[q].ip_address
      /\ EntriesAreKept => EntriesAreKept'
  BY <1>1, <1>2, OneRegionChanges DEF RegionTypeOK
<1> QED
  BY <1>1, <1>2, <1>3

\* A region that is given its size, or whose mutex is asked for in vain, keeps
\* its mutex and its entries.
LEMMA MutexKept ==
  ASSUME RegionTypeOK, NEW p \in RegionProcesses, process_at[p] # "off", added' = added,
         \/ regions' = [regions EXCEPT ![shm_reg[p]].size = "whole"]
         \/ regions' = [regions EXCEPT ![shm_reg[p]].contended = TRUE]
  PROVE  /\ StoreTyped' /\ Len(regions') = Len(regions)
         /\ \A q \in 1 .. Len(regions) : regions'[q].shm_mutex = regions[q].shm_mutex
         /\ \A q \in 1 .. Len(regions) : regions'[q].ip_address = regions[q].ip_address
         /\ EntriesAreKept => EntriesAreKept'
<1>1. PICK r \in 1 .. Len(regions) : r = shm_reg[p] /\ regions[r] \in RegionType
  BY Mapped
<1>2. PICK R \in RegionType : /\ R.ip_address = regions[r].ip_address
                             /\ R.shm_mutex = regions[r].shm_mutex
                             /\ regions' = [regions EXCEPT ![r] = R]
  <2>1. /\ [regions[r] EXCEPT !.size = "whole"] \in RegionType
        /\ [regions[r] EXCEPT !.contended = TRUE] \in RegionType
    BY <1>1 DEF RegionType
  <2> QED
    BY <1>1, <2>1 DEF RegionType
<1>3. /\ StoreTyped' /\ Len(regions') = Len(regions)
      /\ \A q \in 1 .. Len(regions) : regions'[q] = IF q = r THEN R ELSE regions[q]
      /\ \A q \in 1 .. Len(regions) : regions'[q].ip_address = regions[q].ip_address
      /\ EntriesAreKept => EntriesAreKept'
  BY <1>1, <1>2, OneRegionChanges DEF RegionTypeOK
<1> QED
  BY <1>1, <1>2, <1>3

(* The actions                                                             *)

\* The end of a process, with or without the name, leaves the regions alone.
LEMMA EndsKeep ==
  ASSUME RegionInv, EndIgmp \/ KillIgmp \/ Interrupt \/ BusError
  PROVE  RegionInv'
<1> USE DEF RegionInv, RegionTypeOK
<1>1. PICK p \in RegionProcesses :
        /\ process_at[p] # "off"
        /\ process_at' = [process_at EXCEPT ![p] = "off"]
        /\ shm_reg' = [shm_reg EXCEPT ![p] = NoRegion]
        /\ dump' = IF p = "pim" THEN <<>> ELSE dump
        /\ UNCHANGED <<regions, added, disturbed>>
        /\ \/ UNCHANGED <<shm_name, unlinked>>
           \/ /\ shm_name' = NoRegion
              /\ unlinked' = (unlinked \/ \E q \in RegionProcesses \ {p} : process_at[q] # "off")
  BY DEF EndIgmp, KillIgmp, Interrupt, BusError, Dies, Unlink, RegionProcesses
<1>2. StoreTyped' /\ EntriesAreKept'
  BY <1>1 DEF StoreTyped, EntriesAreKept
<1>3. ProcessesTyped'
  <2>1. dump' \in Seq(Numbers)
    BY <1>1 DEF ProcessesTyped
  <2>2. unlinked' \in BOOLEAN
    BY <1>1 DEF ProcessesTyped
  <2>3. shm_name' \in 1 .. Len(regions') \cup {NoRegion}
    BY <1>1 DEF ProcessesTyped
  <2> QED
    BY <1>1, <2>1, <2>2, <2>3 DEF ProcessesTyped, RegionProcesses
<1>4. \A q \in RegionProcesses :
        process_at'[q] # "off" =>
          q # p /\ process_at'[q] = process_at[q] /\ shm_reg'[q] = shm_reg[q]
  BY <1>1 DEF ProcessesTyped, RegionProcesses
<1>5. HoldsMutex'
  BY <1>1, <1>4 DEF HoldsMutex, RegionProcesses
<1>6. DumpIsOneContent'
  BY <1>1, <1>4 DEF DumpIsOneContent, RegionProcesses
<1>7. MappedByName'
  <2>1. CASE UNCHANGED <<shm_name, unlinked>>
    BY <1>4, <2>1 DEF MappedByName
  <2>2. CASE unlinked' = (unlinked \/ \E q \in RegionProcesses \ {p} : process_at[q] # "off")
    <3>1. ASSUME ~unlinked', NEW q \in RegionProcesses, process_at'[q] # "off" PROVE FALSE
      <4>1. q \in RegionProcesses \ {p} /\ process_at[q] # "off"
        BY <1>4, <3>1
      <4> QED
        BY <2>2, <3>1, <4>1
    <3> QED
      BY <3>1 DEF MappedByName
  <2> QED
    BY <1>1, <2>1, <2>2
<1> QED
  BY <1>2, <1>3, <1>5, <1>6, <1>7

\* A process that takes the mutex, or sleeps for it, has not disturbed anybody.
LEMMA LocksKeep ==
  ASSUME RegionInv, WriteLock \/ DumpLock
  PROVE  RegionInv'
<1> USE DEF RegionInv, RegionTypeOK
<1>1. PICK p \in RegionProcesses :
        /\ process_at[p] = "ready" /\ UNCHANGED <<shm_name, shm_reg, added, disturbed, unlinked>>
        /\ Lock(p, IF p = "igmp" THEN "write" ELSE "dump")
        /\ dump' = IF p = "igmp" THEN dump ELSE <<>>
  BY DEF WriteLock, DumpLock, Lock, RegionProcesses
<1>2. \/ /\ regions[shm_reg[p]].shm_mutex = "free"
         /\ process_at' = [process_at EXCEPT ![p] = IF p = "igmp" THEN "write" ELSE "dump"]
         /\ regions' = [regions EXCEPT ![shm_reg[p]].shm_mutex = p]
      \/ /\ process_at' = [process_at EXCEPT ![p] = "asleep"]
         /\ regions' = [regions EXCEPT ![shm_reg[p]].contended = TRUE]
  BY <1>1 DEF Lock, MayLock, Steps
<1>3. /\ StoreTyped' /\ EntriesAreKept' /\ Len(regions') = Len(regions)
      /\ \A q \in 1 .. Len(regions) : regions'[q].ip_address = regions[q].ip_address
  BY <1>1, <1>2, MutexSet, MutexKept DEF RegionProcesses
<1>4. ProcessesTyped'
  BY <1>1, <1>2, <1>3 DEF ProcessesTyped, RegionProcesses
<1>5. HoldsMutex'
  <2>1. CASE process_at' = [process_at EXCEPT ![p] = "asleep"]
             /\ regions' = [regions EXCEPT ![shm_reg[p]].contended = TRUE]
    <3>1. \A q \in 1 .. Len(regions) : regions'[q].shm_mutex = regions[q].shm_mutex
      BY <1>1, <2>1, MutexKept
    <3> QED
      BY <1>1, <2>1, <3>1 DEF HoldsMutex, ProcessesTyped, RegionProcesses
  <2>2. CASE /\ regions[shm_reg[p]].shm_mutex = "free"
             /\ process_at' = [process_at EXCEPT ![p] = IF p = "igmp" THEN "write" ELSE "dump"]
             /\ regions' = [regions EXCEPT ![shm_reg[p]].shm_mutex = p]
    <3>1. \A q \in 1 .. Len(regions) :
            regions'[q].shm_mutex = IF q = shm_reg[p] THEN p ELSE regions[q].shm_mutex
      BY <1>1, <2>2, MutexSet DEF RegionProcesses
    <3> QED
      BY <1>1, <2>2, <3>1 DEF HoldsMutex, ProcessesTyped, RegionProcesses
  <2> QED
    BY <1>2, <2>1, <2>2
<1>6. DumpIsOneContent'
  <2>1. CASE p = "igmp"
    BY <1>1, <1>2, <1>3, <2>1 DEF DumpIsOneContent, ProcessesTyped, RegionProcesses
  <2>2. CASE p = "pim"
    BY <1>1, <2>2 DEF DumpIsOneContent
  <2> QED
    BY <2>1, <2>2 DEF RegionProcesses
<1>7. MappedByName'
  BY <1>1, <1>2 DEF MappedByName, ProcessesTyped, RegionProcesses
<1> QED
  BY <1>3, <1>4, <1>5, <1>6, <1>7

\* A process that releases the mutex held it, or was disturbed.
LEMMA UnlocksKeep ==
  ASSUME RegionInv, WriteUnlock \/ DumpUnlock
  PROVE  RegionInv'
<1> USE DEF RegionInv, RegionTypeOK
<1>1. PICK p \in RegionProcesses :
        /\ process_at[p] = IF p = "igmp" THEN "written" ELSE "dump"
        /\ UNCHANGED <<shm_name, shm_reg, added, disturbed, unlinked>>
        /\ Unlock(p, IF p = "igmp" THEN "written" ELSE "dump")
        /\ dump' = IF p = "igmp" THEN dump ELSE <<>>
  BY DEF WriteUnlock, DumpUnlock, Unlock, RegionProcesses
<1>2. regions' = [regions EXCEPT ![shm_reg[p]].shm_mutex = "free", ![shm_reg[p]].contended = FALSE]
  BY <1>1 DEF Unlock
<1>3. /\ process_at' \in [igmp : {"off", "opened", "mapped", "ready", "asleep", "write", "written"},
                          pim : {"off", "ready", "asleep", "dump"}]
      /\ process_at'[p] = "ready"
      /\ \A q \in RegionProcesses \ {p} :
           process_at'[q] = process_at[q] \/ (process_at[q] = "asleep" /\ process_at'[q] = "ready")
  BY <1>1 DEF Unlock, ProcessesTyped, RegionProcesses
<1>4. /\ StoreTyped' /\ EntriesAreKept' /\ Len(regions') = Len(regions)
      /\ \A q \in 1 .. Len(regions) : regions'[q].ip_address = regions[q].ip_address
      /\ \A q \in 1 .. Len(regions) :
           regions'[q].shm_mutex = IF q = shm_reg[p] THEN "free" ELSE regions[q].shm_mutex
  BY <1>1, <1>2, MutexSet DEF RegionProcesses
<1>5. ProcessesTyped'
  BY <1>1, <1>3, <1>4 DEF ProcessesTyped, RegionProcesses
<1>6. HoldsMutex'
  BY <1>1, <1>3, <1>4 DEF HoldsMutex, ProcessesTyped, RegionProcesses
<1>7. DumpIsOneContent'
  BY <1>1, <1>3, <1>4 DEF DumpIsOneContent, ProcessesTyped, RegionProcesses
<1>8. MappedByName'
  BY <1>1, <1>3 DEF MappedByName, ProcessesTyped, RegionProcesses
<1> QED
  BY <1>4, <1>5, <1>6, <1>7, <1>8

\* igmp gives the region its size, and makes the mutex anew: whoever dumped the
\* region with the old one is disturbed.
LEMMA AllocateKeeps ==
  ASSUME RegionInv, Allocate
  PROVE  RegionInv'
<1> USE DEF RegionInv, RegionTypeOK, Allocate, Steps
<1>1. /\ StoreTyped' /\ EntriesAreKept' /\ Len(regions') = Len(regions)
      /\ \A q \in 1 .. Len(regions) : regions'[q].ip_address = regions[q].ip_address
      /\ \A q \in 1 .. Len(regions) : regions'[q].shm_mutex = regions[q].shm_mutex
  BY MutexKept DEF RegionProcesses
<1>2. ProcessesTyped'
  BY <1>1 DEF ProcessesTyped, RegionProcesses
<1>3. HoldsMutex' /\ DumpIsOneContent' /\ MappedByName'
  BY <1>1 DEF HoldsMutex, DumpIsOneContent, MappedByName, ProcessesTyped, RegionProcesses
<1> QED
  BY <1>1, <1>2, <1>3

\* igmp makes the mutex anew, although somebody may hold it.
LEMMA InitMutexKeeps ==
  ASSUME RegionInv, InitMutex
  PROVE  RegionInv'
<1> USE DEF RegionInv, RegionTypeOK, InitMutex, Steps, Disturb
<1>1. /\ StoreTyped' /\ EntriesAreKept' /\ Len(regions') = Len(regions)
      /\ \A q \in 1 .. Len(regions) : regions'[q].ip_address = regions[q].ip_address
      /\ \A q \in 1 .. Len(regions) :
           regions'[q].shm_mutex = IF q = shm_reg["igmp"] THEN "free" ELSE regions[q].shm_mutex
  BY MutexSet DEF RegionProcesses
<1>2. ProcessesTyped'
  BY <1>1 DEF ProcessesTyped, RegionProcesses
<1>3. HoldsMutex'
  BY <1>1 DEF HoldsMutex, ProcessesTyped, RegionProcesses
<1>4. DumpIsOneContent' /\ MappedByName'
  BY <1>1 DEF DumpIsOneContent, MappedByName, ProcessesTyped, RegionProcesses
<1> QED
  BY <1>1, <1>2, <1>3, <1>4

\* igmp starts: its region loses its entries, and whoever dumped it is disturbed.
LEMMA StartIgmpKeeps ==
  ASSUME RegionInv, StartIgmp
  PROVE  RegionInv'
<1> USE DEF RegionInv, RegionTypeOK
<1> DEFINE n == Len(regions)
           m == Len(regions')
<1>1. PICK r \in Regions :
        /\ r = Named
        /\ (shm_name = NoRegion /\ r = n + 1) \/ (shm_name = r /\ r \in 1 .. n)
  BY DEF StartIgmp, Named, ProcessesTyped, StoreTyped
<1>2. /\ process_at.igmp = "off" /\ process_at' = [process_at EXCEPT !.igmp = "opened"]
      /\ shm_name' = r /\ shm_reg' = [shm_reg EXCEPT !.igmp = r]
      /\ regions' = [q \in 1 .. n \cup {r} |-> IF q = r THEN NewRegion ELSE regions[q]]
      /\ added' = [q \in 1 .. n \cup {r} |-> IF q = r THEN <<>> ELSE added[q]]
      /\ disturbed' = IF process_at.pim = "dump" /\ shm_reg.pim = r THEN disturbed \cup {r} ELSE disturbed
      /\ UNCHANGED <<dump, unlinked>>
  BY <1>1 DEF StartIgmp, Steps, Disturb
<1>3. PICK k \in Nat : 1 .. n \cup {r} = 1 .. k /\ k >= n /\ k <= MAX_REGIONS /\ r \in 1 .. k
  <2>1. n \in Nat /\ n <= MAX_REGIONS /\ r <= MAX_REGIONS /\ MAX_REGIONS \in Nat
    BY DEF StoreTyped, Regions
  <2>2. CASE r = n + 1
    <3>1. 1 .. n \cup {r} = 1 .. n + 1
      BY <2>1, <2>2
    <3> QED
      BY <2>1, <2>2, <3>1
  <2>3. CASE r \in 1 .. n
    <3>1. 1 .. n \cup {r} = 1 .. n
      BY <2>3
    <3> QED
      BY <2>1, <2>3, <3>1
  <2> QED
    BY <1>1, <2>2, <2>3
<1>4. NewRegion \in RegionType /\ NewRegion.ip_address = [i \in Indices |-> 0]
  BY DEF NewRegion, RegionType, Numbers
<1>5. n \in Nat /\ \A q \in 1 .. n : regions[q] \in RegionType /\ added[q] \in Seq(RollNumbers)
  BY DEF StoreTyped
<1>6. regions' \in [1 .. k -> RegionType] /\ added' \in [1 .. k -> Seq(RollNumbers)]
  <2>1. \A q \in 1 .. k : q # r => q \in 1 .. n
    BY <1>3
  <2>2. <<>> \in Seq(RollNumbers)
    OBVIOUS
  <2> QED
    BY <1>2, <1>3, <1>4, <1>5, <2>1, <2>2
<1>7. /\ regions' \in Seq(RegionType) /\ m = k
      /\ added' \in Seq(Seq(RollNumbers)) /\ Len(added') = k
  BY <1>6, SequenceOf
<1>8. \A q \in 1 .. k : /\ regions'[q] = IF q = r THEN NewRegion ELSE regions[q]
                        /\ added'[q] = IF q = r THEN <<>> ELSE added[q]
                        /\ q # r => q \in 1 .. n
  BY <1>2, <1>3
<1> HIDE DEF m, n
<1>9. StoreTyped'
  <2>1. \A q \in 1 .. k : Len(added'[q]) <= N_IPADDRESS
    BY <1>8 DEF StoreTyped, n
  <2> QED
    BY <1>3, <1>7, <2>1 DEF StoreTyped, m
<1>10. ProcessesTyped'
  <2>1. r \in 1 .. Len(regions') /\ \A q \in 1 .. Len(regions) : q \in 1 .. Len(regions')
    BY <1>3, <1>5, <1>7 DEF m, n
  <2> QED
    BY <1>2, <2>1 DEF ProcessesTyped, RegionProcesses
<1>11. EntriesAreKept'
  <2>1. ASSUME NEW q \in 1 .. k
        PROVE  regions'[q].ip_address =
                 [i \in Indices |-> IF i <= Len(added'[q]) THEN added'[q][i] ELSE 0]
    <3>1. CASE q = r
      <4>1. regions'[q].ip_address = [i \in Indices |-> 0] /\ Len(added'[q]) = 0
        BY <1>4, <1>8, <3>1
      <4>2. \A i \in Indices : ~(i <= 0)
        BY DEF Indices
      <4> QED
        BY <4>1, <4>2
    <3>2. CASE q # r
      BY <1>8, <3>2 DEF EntriesAreKept, n
    <3> QED
      BY <3>1, <3>2
  <2> QED
    BY <1>7, <2>1 DEF EntriesAreKept, m
<1>12. HoldsMutex'
  BY <1>2, <1>3, <1>5, <1>8 DEF HoldsMutex, ProcessesTyped, RegionProcesses, n
<1>13. DumpIsOneContent'
  BY <1>2, <1>3, <1>5, <1>8 DEF DumpIsOneContent, ProcessesTyped, RegionProcesses, n
<1>14. MappedByName'
  <2>1. ASSUME ~unlinked, process_at["pim"] # "off" PROVE shm_reg["pim"] = r
    <3>1. shm_reg["pim"] = shm_name /\ shm_reg["pim"] \in 1 .. n
      BY <2>1 DEF MappedByName, ProcessesTyped, RegionProcesses, n
    <3>2. n <= MAX_REGIONS
      BY DEF StoreTyped, n
    <3> QED
      BY <1>1, <1>5, <3>1, <3>2 DEF Regions
  <2> QED
    BY <1>2, <2>1 DEF MappedByName, ProcessesTyped, RegionProcesses
<1> QED
  BY <1>9, <1>10, <1>11, <1>12, <1>13, <1>14

\* pim starts: it maps the region of that name, or a new one behind the others.
LEMMA StartPimKeeps ==
  ASSUME RegionInv, StartPim
  PROVE  RegionInv'
<1> USE DEF RegionInv, RegionTypeOK
<1> DEFINE n == Len(regions)
<1>1. PICK r \in Regions :
        /\ r = Named
        /\ (shm_name = NoRegion /\ r = n + 1) \/ (shm_name = r /\ r \in 1 .. n)
  BY DEF StartPim, Named, ProcessesTyped, StoreTyped
<1>2. /\ process_at.pim = "off" /\ process_at' = [process_at EXCEPT !.pim = "ready"]
      /\ shm_name' = r /\ shm_reg' = [shm_reg EXCEPT !.pim = r]
      /\ regions' = IF shm_name = NoRegion THEN Append(regions, NewRegion) ELSE regions
      /\ added' = IF shm_name = NoRegion THEN Append(added, <<>>) ELSE added
      /\ UNCHANGED <<dump, disturbed, unlinked>>
  BY <1>1 DEF StartPim, Steps
<1>3. NewRegion \in RegionType /\ NewRegion.ip_address = [i \in Indices |-> 0]
  BY DEF NewRegion, RegionType, Numbers
<1>4. n \in Nat /\ n <= MAX_REGIONS
  BY DEF StoreTyped
<1>5. /\ StoreTyped' /\ Len(regions') >= n /\ r \in 1 .. Len(regions')
      /\ \A q \in 1 .. n : regions'[q] = regions[q] /\ added'[q] = added[q]
      /\ \A q \in 1 .. Len(regions') :
           q \notin 1 .. n => regions'[q] = NewRegion /\ added'[q] = <<>>
  <2>1. CASE shm_name = NoRegion
    <3>1. <<>> \in Seq(RollNumbers)
      OBVIOUS
    <3>2. /\ regions' \in Seq(RegionType) /\ Len(regions') = n + 1
          /\ \A q \in 1 .. n : regions'[q] = regions[q]
          /\ regions'[n + 1] = NewRegion
      BY <1>2, <1>3, <2>1, AppendProperties DEF StoreTyped
    <3>3. /\ added' \in Seq(Seq(RollNumbers)) /\ Len(added') = n + 1
          /\ \A q \in 1 .. n : added'[q] = added[q]
          /\ added'[n + 1] = <<>>
      BY <1>2, <2>1, <3>1, AppendProperties DEF StoreTyped
    <3>4. r = n + 1 /\ n + 1 <= MAX_REGIONS
      BY <1>1, <1>4, <2>1 DEF Regions
    <3>5. \A q \in 1 .. n + 1 : Len(added'[q]) <= N_IPADDRESS
      <4>1. \A q \in 1 .. n : Len(added[q]) <= N_IPADDRESS
        BY DEF StoreTyped
      <4>2. \A q \in 1 .. n + 1 : q \in 1 .. n \/ q = n + 1
        BY <1>4
      <4>3. Len(<<>>) <= N_IPADDRESS
        BY Bounds
      <4> QED
        BY <3>3, <4>1, <4>2, <4>3
    <3>6. StoreTyped'
      BY <3>2, <3>3, <3>4, <3>5 DEF StoreTyped
    <3>7. \A q \in 1 .. Len(regions') : q \notin 1 .. n => q = n + 1
      BY <1>4, <3>2
    <3> QED
      BY <1>4, <3>2, <3>3, <3>4, <3>6, <3>7
  <2>2. CASE shm_name # NoRegion
    <3>1. regions' = regions /\ added' = added /\ r \in 1 .. n
      BY <1>1, <1>2, <2>2
    <3> QED
      BY <1>4, <3>1 DEF StoreTyped
  <2> QED
    BY <2>1, <2>2
<1>6. Len(regions') \in Nat
  BY <1>5 DEF StoreTyped
<1>7. ProcessesTyped'
  <2>1. \A q \in 1 .. n : q \in 1 .. Len(regions')
    BY <1>4, <1>5, <1>6
  <2> QED
    BY <1>2, <1>5, <2>1 DEF ProcessesTyped, RegionProcesses
<1>8. EntriesAreKept'
  <2>1. ASSUME NEW q \in 1 .. Len(regions')
        PROVE  regions'[q].ip_address =
                 [i \in Indices |-> IF i <= Len(added'[q]) THEN added'[q][i] ELSE 0]
    <3>1. CASE q \notin 1 .. n
      <4>1. regions'[q].ip_address = [i \in Indices |-> 0] /\ Len(added'[q]) = 0
        BY <1>3, <1>5, <3>1
      <4>2. \A i \in Indices : ~(i <= 0)
        BY DEF Indices
      <4> QED
        BY <4>1, <4>2
    <3>2. CASE q \in 1 .. n
      BY <1>5, <3>2 DEF EntriesAreKept
    <3> QED
      BY <3>1, <3>2
  <2> QED
    BY <2>1 DEF EntriesAreKept
<1>9. HoldsMutex' /\ DumpIsOneContent'
  BY <1>2, <1>5 DEF HoldsMutex, DumpIsOneContent, ProcessesTyped, RegionProcesses
<1>10. MappedByName'
  <2>1. ASSUME ~unlinked, process_at["igmp"] # "off" PROVE shm_reg["igmp"] = r
    <3>1. shm_reg["igmp"] = shm_name /\ shm_reg["igmp"] \in 1 .. n
      BY <2>1 DEF MappedByName, ProcessesTyped, RegionProcesses
    <3> QED
      BY <1>1, <1>4, <3>1 DEF Regions
  <2> QED
    BY <1>2, <2>1 DEF MappedByName, ProcessesTyped, RegionProcesses
<1> QED
  BY <1>5, <1>7, <1>8, <1>9, <1>10

\* The entry written is the first free one, behind all that were written.
LEMMA WriteEntryKeeps ==
  ASSUME RegionInv, NEW number \in RollNumbers, WriteEntry(number)
  PROVE  RegionInv'
<1> USE DEF RegionInv, RegionTypeOK
<1>1. /\ process_at["igmp"] = "write" /\ process_at' = [process_at EXCEPT !["igmp"] = "written"]
      /\ UNCHANGED <<shm_name, shm_reg, dump, disturbed, unlinked>>
  BY DEF WriteEntry, Steps
<1>2. PICK r \in 1 .. Len(regions) : r = shm_reg["igmp"] /\ regions[r] \in RegionType
  BY <1>1, Mapped DEF RegionProcesses
<1> DEFINE free == {i \in Indices : regions[r].ip_address[i] = 0}
           last == Len(added[r])
<1>3. /\ last \in 0 .. N_IPADDRESS /\ added[r] \in Seq(RollNumbers)
      /\ regions[r].ip_address = [i \in Indices |-> IF i <= last THEN added[r][i] ELSE 0]
  BY DEF StoreTyped, EntriesAreKept
<1>4. \A i \in Indices : i \in free <=> i > last
  <2>1. \A i \in 1 .. last : added[r][i] # 0
    BY <1>3, ElementOfSeq DEF RollNumbers
  <2>2. \A i \in Indices : i <= last => i \in 1 .. last
    BY <1>3, Bounds DEF Indices
  <2>3. \A i \in Indices : regions[r].ip_address[i] = IF i <= last THEN added[r][i] ELSE 0
    BY <1>3
  <2>4. \A i \in Indices : i > last <=> ~(i <= last)
    BY <1>3, Bounds DEF Indices
  <2> HIDE DEF last
  <2> QED
    BY <2>1, <2>2, <2>3, <2>4
<1>5. CASE free = {}
  <2>1. UNCHANGED <<regions, added>>
    BY <1>2, <1>5 DEF WriteEntry
  <2>2. StoreTyped' /\ EntriesAreKept'
    BY <2>1 DEF StoreTyped, EntriesAreKept
  <2>3. ProcessesTyped'
    BY <1>1, <2>1 DEF ProcessesTyped, RegionProcesses
  <2>4. HoldsMutex' /\ DumpIsOneContent'
    BY <1>1, <2>1 DEF HoldsMutex, DumpIsOneContent, ProcessesTyped
  <2>5. MappedByName'
    BY <1>1 DEF MappedByName, ProcessesTyped, RegionProcesses
  <2> QED
    BY <2>2, <2>3, <2>4, <2>5
<1>6. CASE free # {}
  <2>0. last + 1 \in Indices /\ last + 1 \in free /\ \A j \in free : last + 1 <= j /\ j \in Nat
    <3>1. last \in Nat /\ \A i \in Indices : i \in Nat
      BY <1>3, Bounds DEF Indices
    <3>2. PICK j \in Indices : j > last
      BY <1>4, <1>6
    <3>3. last + 1 \in Indices
      BY <3>1, <3>2, Bounds DEF Indices
    <3> QED
      BY <1>4, <3>1, <3>3
  <2>1. (CHOOSE i \in free : \A j \in free : i <= j) = last + 1
    <3>1. \A i \in free : (\A j \in free : i <= j) => i = last + 1
      BY <2>0
    <3> HIDE DEF free
    <3> QED
      BY <2>0, <3>1
  <2>2. /\ regions' = [regions EXCEPT ![r].ip_address[last + 1] = number]
        /\ added' = [added EXCEPT ![r] = Append(@, number)]
    BY <1>2, <1>6, <2>1 DEF WriteEntry
  <2> DEFINE R == [regions[r] EXCEPT !.ip_address[last + 1] = number]
             A == Append(added[r], number)
  <2>3. last + 1 \in Indices
    BY <2>0
  <2>4. /\ R \in RegionType /\ R.shm_mutex = regions[r].shm_mutex
        /\ R.ip_address = [regions[r].ip_address EXCEPT ![last + 1] = number]
    BY <1>2, <2>3 DEF RegionType, Numbers
  <2>5. /\ A \in Seq(RollNumbers) /\ Len(A) = last + 1 /\ A[last + 1] = number
        /\ \A i \in 1 .. last : A[i] = added[r][i]
    BY <1>3, AppendProperties
  <2>6. R.ip_address = [i \in Indices |-> IF i <= Len(A) THEN A[i] ELSE 0]
    <3>1. \A i \in Indices : regions[r].ip_address[i] = IF i <= last THEN added[r][i] ELSE 0
      BY <1>3
    <3>2. \A i \in Indices : i = last + 1 \/ (i <= last /\ i # last + 1 /\ i \in 1 .. last)
                             \/ (i > last + 1 /\ ~(i <= last))
      BY <1>3, Bounds DEF Indices
    <3>3. \A i \in Indices :
            R.ip_address[i] = IF i = last + 1 THEN number ELSE regions[r].ip_address[i]
      BY <1>2, <2>4 DEF RegionType
    <3>4. ASSUME NEW i \in Indices
          PROVE  R.ip_address[i] = IF i <= Len(A) THEN A[i] ELSE 0
      <4>1. R.ip_address[i] = IF i = last + 1 THEN number ELSE regions[r].ip_address[i]
        BY <3>3
      <4>2. regions[r].ip_address[i] = IF i <= last THEN added[r][i] ELSE 0
        BY <3>1
      <4>3. i \in Int /\ last \in Int /\ Len(A) = last + 1 /\ A[last + 1] = number
        BY <1>3, <2>5, Bounds DEF Indices
      <4>4. i <= last => A[i] = added[r][i]
        BY <2>5, <3>2, <4>3
      <4> HIDE DEF R, A, last
      <4> QED
        BY <4>1, <4>2, <4>3, <4>4
    <3>5. R.ip_address \in [Indices -> Numbers]
      BY <2>4 DEF RegionType
    <3> HIDE DEF R, A
    <3> QED
      BY <3>4, <3>5
  <2>7. regions' = [regions EXCEPT ![r] = R] /\ added' = [added EXCEPT ![r] = A]
    BY <1>2, <2>2 DEF StoreTyped
  <2> HIDE DEF R, A
  <2>8. /\ regions' \in [1 .. Len(regions) -> RegionType]
        /\ added' \in [1 .. Len(regions) -> Seq(RollNumbers)] /\ Len(regions) \in Nat
    BY <2>4, <2>5, <2>7 DEF StoreTyped
  <2>9. /\ regions' \in Seq(RegionType) /\ Len(regions') = Len(regions)
        /\ added' \in Seq(Seq(RollNumbers)) /\ Len(added') = Len(regions)
    BY <2>8, SequenceOf
  <2>10. \A q \in 1 .. Len(regions) : /\ regions'[q] = IF q = r THEN R ELSE regions[q]
                                      /\ added'[q] = IF q = r THEN A ELSE added[q]
    BY <2>7 DEF StoreTyped
  <2>11. StoreTyped'
    <3>1. \A q \in 1 .. Len(regions) : Len(added'[q]) <= N_IPADDRESS
      <4>1. last + 1 <= N_IPADDRESS
        BY <1>3, <2>3, Bounds DEF Indices
      <4> QED
        BY <2>5, <2>10, <4>1 DEF StoreTyped
    <3> QED
      BY <2>9, <3>1 DEF StoreTyped
  <2>12. EntriesAreKept'
    <3>1. ASSUME NEW q \in 1 .. Len(regions)
          PROVE  regions'[q].ip_address =
                   [i \in Indices |-> IF i <= Len(added'[q]) THEN added'[q][i] ELSE 0]
      <4>1. CASE q = r
        BY <2>6, <2>10, <4>1
      <4>2. CASE q # r
        BY <2>10, <4>2 DEF EntriesAreKept
      <4> QED
        BY <4>1, <4>2
    <3> QED
      BY <2>9, <3>1 DEF EntriesAreKept
  <2>13. ProcessesTyped'
    BY <1>1, <2>9 DEF ProcessesTyped, RegionProcesses
  <2>14. HoldsMutex'
    BY <1>1, <1>2, <2>4, <2>10 DEF HoldsMutex, ProcessesTyped, RegionProcesses
  <2>15. DumpIsOneContent'
    <3>1. process_at["pim"] = "dump" /\ shm_reg["pim"] \notin disturbed => shm_reg["pim"] # r
      BY <1>1, <1>2 DEF HoldsMutex
    <3> QED
      BY <1>1, <2>10, <3>1 DEF DumpIsOneContent, ProcessesTyped, RegionProcesses
  <2>16. MappedByName'
    BY <1>1 DEF MappedByName, ProcessesTyped, RegionProcesses
  <2> QED
    BY <2>11, <2>12, <2>13, <2>14, <2>15, <2>16
<1> QED
  BY <1>5, <1>6

\* The entry dumped is the one the region holds.
LEMMA DumpEntryKeeps ==
  ASSUME RegionInv, DumpEntry
  PROVE  RegionInv'
<1> USE DEF RegionInv, RegionTypeOK
<1>1. /\ process_at["pim"] = "dump" /\ Len(dump) < N_IPADDRESS
      /\ dump' = Append(dump, regions[shm_reg["pim"]].ip_address[Len(dump) + 1])
      /\ UNCHANGED <<regions, shm_name, process_at, shm_reg, added, disturbed, unlinked>>
  BY DEF DumpEntry
<1>2. shm_reg["pim"] \in 1 .. Len(regions) /\ regions[shm_reg["pim"]] \in RegionType
  BY <1>1, Mapped DEF RegionProcesses
<1>3. regions[shm_reg["pim"]].ip_address[Len(dump) + 1] \in Numbers
  <2>1. Len(dump) + 1 \in Indices
    BY <1>1 DEF ProcessesTyped, Indices
  <2> QED
    BY <1>2, <2>1 DEF RegionType
<1>4. /\ dump' \in Seq(Numbers) /\ Len(dump') = Len(dump) + 1 /\ Len(dump) \in Nat
      /\ \A i \in 1 .. Len(dump) : dump'[i] = dump[i]
      /\ dump'[Len(dump) + 1] = regions[shm_reg["pim"]].ip_address[Len(dump) + 1]
  BY <1>1, <1>3, AppendProperties DEF ProcessesTyped
<1>5. DumpIsOneContent'
  BY <1>1, <1>4 DEF DumpIsOneContent
<1>6. StoreTyped' /\ EntriesAreKept' /\ HoldsMutex' /\ MappedByName'
  BY <1>1 DEF StoreTyped, EntriesAreKept, HoldsMutex, MappedByName
<1>7. ProcessesTyped'
  BY <1>1, <1>4 DEF ProcessesTyped
<1> QED
  BY <1>5, <1>6, <1>7

\* The entries are kept, a dump shows one content and the two processes look at
\* one region, until a restart or an unlink takes that away: for every number of
\* entries, regions and restarts (igmp.c, pim.c and shm_struct.c).
THEOREM RegionExactHolds == RegionSpec => []RegionExactUnlessRestarted
<1>1. RegionInit => RegionInv
  <2> SUFFICES ASSUME RegionInit PROVE RegionInv
    OBVIOUS
  <2>1. Len(regions) = 0 /\ Len(added) = 0 /\ 0 <= MAX_REGIONS
    BY DEF RegionInit
  <2>2. StoreTyped
    BY <2>1 DEF RegionInit, StoreTyped
  <2>3. ProcessesTyped
    <3>1. dump \in Seq(Numbers)
      BY DEF RegionInit
    <3>2. process_at["igmp"] = "off" /\ process_at["pim"] = "off"
      BY DEF RegionInit
    <3>3. /\ process_at \in [igmp : {"off", "opened", "mapped", "ready", "asleep", "write", "written"},
                             pim : {"off", "ready", "asleep", "dump"}]
          /\ shm_reg \in [igmp : Regions \cup {NoRegion}, pim : Regions \cup {NoRegion}]
      BY DEF RegionInit
    <3> QED
      BY <3>1, <3>2, <3>3 DEF RegionInit, ProcessesTyped, RegionProcesses
  <2> QED
    BY <2>1, <2>2, <2>3 DEF RegionInit, RegionInv, RegionTypeOK, EntriesAreKept, HoldsMutex,
      DumpIsOneContent, MappedByName, RegionProcesses
<1>2. RegionInv /\ [RegionNext]_regionVars => RegionInv'
  <2>1. RegionInv /\ UNCHANGED regionVars => RegionInv'
    BY DEF RegionInv, RegionTypeOK, StoreTyped, ProcessesTyped, EntriesAreKept, HoldsMutex,
      DumpIsOneContent, MappedByName, regionVars
  <2> QED
    BY <2>1, EndsKeep, LocksKeep, UnlocksKeep, AllocateKeeps, InitMutexKeeps, StartIgmpKeeps,
      StartPimKeeps, WriteEntryKeeps, DumpEntryKeeps DEF RegionNext
<1>3. RegionInv => RegionExactUnlessRestarted
  BY DEF RegionInv, MappedByName, RegionIsShared, RegionExactUnlessRestarted, RegionProcesses
<1> QED
  BY <1>1, <1>2, <1>3, PTL DEF RegionSpec

HIDE RegionAssumption

-----------------------------------------------------------------------------
(* The select server serves each connection from one place of its table.   *)

\* A piece of data, or the failure of a reading.
Readings == [from : Clients, number : Nat, has : {"text", "zero", "error"}]

ClientTyped ==
  /\ client_state \in [Clients -> {"away", "here", "left", "reset"}]
  /\ unread \in [Clients -> Seq(Readings)]
  /\ sent \in [Clients -> Seq(Readings)]
  /\ echoed \in [Clients -> Seq(Readings)]

TableTyped ==
  /\ client_socket \in [Places -> Clients \cup {NoSocket}]
  /\ accepted \in 0 .. MAX_CLIENTS
  /\ open_sockets \subseteq 1 .. accepted /\ turned_away \subseteq 1 .. accepted

\* The loop serves the socket of a client.
LoopTyped ==
  /\ readfds \subseteq Clients \cup {Listener}
  /\ place \in Places
  /\ server_at = "serve" => client_socket[place] \in Clients

\* The table names the sockets that are open and had a place, each in one place.
TableInv ==
  /\ \A i \in Places : client_socket[i] # NoSocket => client_socket[i] \in open_sockets \ turned_away
  /\ \A i, j \in Places : client_socket[i] = client_socket[j] => i = j \/ client_socket[i] = NoSocket
  /\ \A c \in open_sockets \ turned_away : \E i \in Places : client_socket[i] = c

AllText(c) == \A k \in 1 .. Len(sent[c]) : sent[c][k].has = "text"

\* What EchoIsExact says of one client.
ExactFor(c) == client_state[c] # "reset" /\ AllText(c) => echoed[c] \o unread[c] = sent[c]

SelInv == ClientTyped /\ TableTyped /\ LoopTyped /\ TableInv /\ \A c \in Clients : ExactFor(c)

USE SelectAssumption

\* The clients are numbers, the two sockets that are none of theirs are not.
LEMMA NoClientSockets == NoSocket \notin Clients /\ Listener \notin Clients
  BY DEF Clients

\* What is appended to the second of two parts is appended to both.
LEMMA AppendToBoth ==
  ASSUME NEW S, NEW s \in Seq(S), NEW t \in Seq(S), NEW x \in S
  PROVE  s \o Append(t, x) = Append(s \o t, x)
<1>1. Append(t, x) = t \o <<x>> /\ <<x>> \in Seq(S)
  OBVIOUS
<1>2. s \o t \in Seq(S)
  OBVIOUS
<1>3. Append(s \o t, x) = (s \o t) \o <<x>>
  BY <1>2
<1> QED
  BY <1>1, <1>3, ConcatAssociative

\* What was echoed, the first pieces and the rest are what was echoed and all of them.
LEMMA PartsOfReading ==
  ASSUME NEW S, NEW a \in Seq(S), NEW s \in Seq(S), NEW n \in 1 .. Len(s)
  PROVE  (a \o SubSeq(s, 1, n)) \o SubSeq(s, n + 1, Len(s)) = a \o s
<1> DEFINE first == SubSeq(s, 1, n)
           rest == SubSeq(s, n + 1, Len(s))
<1>1. first \in Seq(S) /\ rest \in Seq(S)
  OBVIOUS
<1>2. first \o rest = SubSeq(s, 1, Len(s))
  BY ConcatAdjacentSubSeq
<1>3. SubSeq(s, 1, Len(s)) = s
  BY SubSeqFull
<1>4. \A t, u \in Seq(S) : (a \o t) \o u = a \o (t \o u)
  OBVIOUS
<1> HIDE DEF first, rest
<1>5. (a \o first) \o rest = a \o (first \o rest)
  BY <1>1, <1>4
<1> QED
  BY <1>2, <1>3, <1>5 DEF first, rest

\* A reading without a zero byte is echoed whole.
LEMMA TextIsEchoedWhole ==
  ASSUME NEW S, NEW s \in Seq(S), \A k \in 1 .. Len(s) : s[k].has = "text"
  PROVE  UpToZero(s) = s
<1>1. {k \in 1 .. Len(s) : s[k].has = "zero"} = {}
  OBVIOUS
<1>2. SubSeq(s, 1, Len(s)) = s
  BY SubSeqFull
<1> QED
  BY <1>1, <1>2 DEF UpToZero

\* In any reading, what is echoed is part of it.
LEMMA EchoedIsRead ==
  ASSUME NEW S, NEW s \in Seq(S)
  PROVE  UpToZero(s) \in Seq(S)
<1> DEFINE zeros == {k \in 1 .. Len(s) : s[k].has = "zero"}
           end == IF zeros = {} THEN Len(s) ELSE CHOOSE k \in zeros : \A z \in zeros : k <= z
<1>1. Len(s) \in Nat
  OBVIOUS
<1>2. ASSUME zeros # {}
      PROVE  \E k \in zeros : \A z \in zeros : k <= z
  <2>1. zeros \in SUBSET Nat
    OBVIOUS
  <2> QED
    BY <1>2, <2>1, LeastExists
<1>3. end \in 0 .. Len(s)
  <2>1. CASE zeros = {}
    BY <1>1, <2>1
  <2>2. CASE zeros # {}
    <3> DEFINE first == CHOOSE k \in zeros : \A z \in zeros : k <= z
    <3>1. first \in zeros
      BY <1>2, <2>2
    <3> QED
      BY <1>1, <2>2, <3>1
  <2> QED
    BY <2>1, <2>2
<1>4. UpToZero(s) = SubSeq(s, 1, end)
  BY DEF UpToZero
<1> HIDE DEF end
<1>5. \A i \in 1 .. end : s[i] \in S
  BY <1>1, <1>3
<1> QED
  BY <1>3, <1>4, <1>5, SubSeqProperties

\* FirstFree is a free place when there is one.
LEMMA FirstFreeIsFree == FreePlaces # {} => FirstFree \in FreePlaces
<1>1. FreePlaces \in SUBSET Nat
  BY DEF FreePlaces, Places
<1>2. FreePlaces # {} => \E i \in FreePlaces : \A j \in FreePlaces : i <= j
  BY <1>1, LeastExists
<1> QED
  BY <1>2 DEF FirstFree

\* The loop stays in the table, and stops where there is the socket of a client.
LEMMA LoopServesClients ==
  ASSUME NEW i, NEW table \in [Places -> Clients \cup {NoSocket}],
         NEW set \in SUBSET (Clients \cup {Listener}), ServeFrom(i, table, set)
  PROVE  /\ readfds' \subseteq Clients \cup {Listener}
         /\ place' \in Places
         /\ server_at' = "serve" => table[place'] \in Clients
<1> DEFINE ready == {j \in Places : i <= j /\ table[j] \in set}
<1>1. CASE /\ ready # {} /\ readfds' = set
           /\ place' = CHOOSE j \in ready : \A k \in ready : j <= k
  <2>1. ready \in SUBSET Nat
    BY DEF Places
  <2>2. \E j \in ready : \A k \in ready : j <= k
    BY <1>1, <2>1, LeastExists
  <2>3. place' \in ready
    BY <1>1, <2>2
  <2>4. table[place'] # NoSocket
    BY <2>3, NoClientSockets
  <2> QED
    BY <1>1, <2>3, <2>4
<1>2. CASE server_at' = "select" /\ readfds' = {} /\ place' = 0
  BY <1>2 DEF Places
<1> HIDE DEF ready
<1> QED
  BY <1>1, <1>2 DEF ServeFrom, ready

\* A step that serves goes on in the table or ends the server.
LEMMA ServingKeepsLoop ==
  ASSUME SelInv, client_socket' \in [Places -> Clients \cup {NoSocket}], NextPlace \/ SigPipe
  PROVE  LoopTyped'
<1>1. CASE NextPlace
  BY <1>1, LoopServesClients DEF NextPlace, LoopTyped, SelInv
<1>2. CASE SigPipe
  BY <1>2 DEF SigPipe, LoopTyped, SelInv
<1> QED
  BY <1>1, <1>2

\* What a client does leaves the table alone, and does to what it sent what
\* ExactFor allows.
LEMMA ConnectKeeps ==
  ASSUME SelInv, NEW c \in Clients, Connect(c)
  PROVE  SelInv'
<1> USE DEF SelInv
<1>1. /\ client_state[c] = "away" /\ client_state' = [client_state EXCEPT ![c] = "here"]
      /\ UNCHANGED <<unread, sent, echoed, tableVars, loopVars>>
  BY DEF Connect
<1>2. ClientTyped' /\ TableTyped' /\ LoopTyped' /\ TableInv'
  BY <1>1 DEF ClientTyped, TableTyped, LoopTyped, TableInv, tableVars, loopVars
<1>3. \A d \in Clients : client_state'[d] = IF d = c THEN "here" ELSE client_state[d]
  BY <1>1 DEF ClientTyped
<1>4. \A d \in Clients : ExactFor(d)'
  BY <1>1, <1>3 DEF ExactFor, AllText
<1> QED
  BY <1>2, <1>4

\* A client that leaves.
LEMMA LeaveKeeps ==
  ASSUME SelInv, NEW c \in Clients, Leave(c)
  PROVE  SelInv'
<1> USE DEF SelInv
<1>1. /\ client_state[c] = "here" /\ client_state' = [client_state EXCEPT ![c] = "left"]
      /\ UNCHANGED <<unread, sent, echoed, tableVars, loopVars>>
  BY DEF Leave
<1>2. ClientTyped' /\ TableTyped' /\ LoopTyped' /\ TableInv'
  BY <1>1 DEF ClientTyped, TableTyped, LoopTyped, TableInv, tableVars, loopVars
<1>3. \A d \in Clients : client_state'[d] = IF d = c THEN "left" ELSE client_state[d]
  BY <1>1 DEF ClientTyped
<1>4. \A d \in Clients : ExactFor(d)'
  BY <1>1, <1>3 DEF ExactFor, AllText
<1> QED
  BY <1>2, <1>4

\* A client that breaks off is one of which nothing is said.
LEMMA BreakOffKeeps ==
  ASSUME SelInv, NEW c \in Clients, BreakOff(c)
  PROVE  SelInv'
<1> USE DEF SelInv
<1>1. /\ client_state' = [client_state EXCEPT ![c] = "reset"]
      /\ unread' = [unread EXCEPT ![c] = <<Failure(c)>>]
      /\ UNCHANGED <<sent, echoed, tableVars, loopVars>>
  BY DEF BreakOff
<1>2. <<Failure(c)>> \in Seq(Readings)
  BY DEF Readings, Failure
<1>3. ClientTyped' /\ TableTyped' /\ LoopTyped' /\ TableInv'
  BY <1>1, <1>2 DEF ClientTyped, TableTyped, LoopTyped, TableInv, tableVars, loopVars
<1>4. \A d \in Clients : client_state'[d] = IF d = c THEN "reset" ELSE client_state[d]
  BY <1>1 DEF ClientTyped
<1>5. \A d \in Clients : ExactFor(d)'
  BY <1>1, <1>4 DEF ExactFor, AllText, ClientTyped
<1> QED
  BY <1>3, <1>5

\* A piece that is sent is the last one still to be read.
LEMMA SendKeeps ==
  ASSUME SelInv, NEW c \in Clients, Send(c)
  PROVE  SelInv'
<1> USE DEF SelInv
<1>1. PICK has \in {"text", "zero"} :
        LET piece == [from |-> c, number |-> Len(sent[c]) + 1, has |-> has] IN
        /\ sent' = [sent EXCEPT ![c] = Append(@, piece)]
        /\ unread' = [unread EXCEPT ![c] = Append(@, piece)]
  BY DEF Send
<1> DEFINE piece == [from |-> c, number |-> Len(sent[c]) + 1, has |-> has]
<1>2. UNCHANGED <<client_state, echoed, tableVars, loopVars>>
  BY DEF Send
<1>3. sent[c] \in Seq(Readings) /\ unread[c] \in Seq(Readings) /\ echoed[c] \in Seq(Readings)
  BY DEF ClientTyped
<1>4. piece \in Readings
  BY <1>3 DEF Readings
<1>5. sent' = [sent EXCEPT ![c] = Append(@, piece)] /\ unread' = [unread EXCEPT ![c] = Append(@, piece)]
  BY <1>1
<1> HIDE DEF piece
<1>6. Append(sent[c], piece) \in Seq(Readings) /\ Append(unread[c], piece) \in Seq(Readings)
  BY <1>3, <1>4
<1>7. ClientTyped'
  BY <1>2, <1>5, <1>6 DEF ClientTyped
<1>8. TableTyped' /\ LoopTyped' /\ TableInv'
  BY <1>2 DEF TableTyped, LoopTyped, TableInv, tableVars, loopVars
<1>9. ASSUME NEW d \in Clients
      PROVE  ExactFor(d)'
  <2>1. CASE d = c
    <3>1. sent'[c] = Append(sent[c], piece) /\ unread'[c] = Append(unread[c], piece)
      BY <1>5 DEF ClientTyped
    <3> SUFFICES ASSUME client_state[c] # "reset",
                        \A k \in 1 .. Len(Append(sent[c], piece)) : Append(sent[c], piece)[k].has = "text"
                 PROVE  echoed[c] \o Append(unread[c], piece) = Append(sent[c], piece)
      BY <1>2, <2>1, <3>1 DEF ExactFor, AllText
    <3>2. AllText(c)
      <4> SUFFICES ASSUME NEW k \in 1 .. Len(sent[c])
                   PROVE  sent[c][k].has = "text"
        BY DEF AllText
      <4>1. k \in 1 .. Len(Append(sent[c], piece)) /\ Append(sent[c], piece)[k] = sent[c][k]
        BY <1>3, <1>4
      <4> QED
        BY <4>1
    <3>3. echoed[c] \o unread[c] = sent[c]
      BY <3>2 DEF ExactFor
    <3>4. \A s, t \in Seq(Readings) : s \o Append(t, piece) = Append(s \o t, piece)
      BY <1>4, AppendToBoth
    <3> QED
      BY <1>3, <3>3, <3>4
  <2>2. CASE d # c
    BY <1>2, <1>5, <2>2 DEF ExactFor, AllText, ClientTyped
  <2> QED
    BY <2>1, <2>2
<1> QED
  BY <1>7, <1>8, <1>9

\* select() leaves sockets of the table and the listening one, or none.
LEMMA SelectKeeps ==
  ASSUME SelInv, Select \/ SelectFails
  PROVE  SelInv'
<1> USE DEF SelInv
<1>1. PICK set \in SUBSET Watched : SelectLeaves(set)
  BY DEF Select, SelectFails
<1>2. UNCHANGED <<client_state, unread, sent, echoed, tableVars>>
  BY <1>1 DEF SelectLeaves
<1>3. set \in SUBSET (Clients \cup {Listener})
  BY <1>1 DEF Watched, TableTyped
<1>4. LoopTyped'
  <2>1. CASE readfds' = set /\ server_at' = "accept" /\ UNCHANGED place
    BY <1>3, <2>1 DEF LoopTyped
  <2>2. CASE ServeFrom(0, client_socket, set)
    BY <1>2, <1>3, <2>2, LoopServesClients DEF TableTyped, LoopTyped, tableVars
  <2> QED
    BY <1>1, <2>1, <2>2 DEF SelectLeaves
<1> QED
  BY <1>2, <1>4 DEF ClientTyped, TableTyped, TableInv, ExactFor, AllText, tableVars

\* A connection that is accepted gets a place of its own, or none.
LEMMA SeatKeeps ==
  ASSUME SelInv, NEW c \in Clients, c = accepted + 1, accepted' = c,
         open_sockets' = open_sockets \cup {c}, Seat(c)
  PROVE  TableTyped' /\ TableInv'
<1> USE DEF SelInv
<1>1. /\ c \notin open_sockets /\ c \notin turned_away /\ \A i \in Places : client_socket[i] # c
      /\ accepted \in Nat /\ 1 .. accepted \subseteq 1 .. c /\ c \in 1 .. c /\ c \in 0 .. MAX_CLIENTS
  <2>1. c \notin open_sockets /\ c \notin turned_away /\ accepted \in Nat
    BY DEF TableTyped, Clients
  <2>2. c # NoSocket
    BY NoClientSockets
  <2> QED
    BY <2>1, <2>2 DEF TableInv, TableTyped, Clients
<1>2. c # NoSocket
  BY NoClientSockets
<1>3. open_sockets' \subseteq 1 .. accepted' /\ turned_away' \subseteq 1 .. accepted'
  BY <1>1 DEF Seat, TableTyped
<1>4. CASE FreePlaces # {} /\ client_socket' = [client_socket EXCEPT ![FirstFree] = c]
           /\ UNCHANGED turned_away
  <2>1. FirstFree \in Places /\ client_socket[FirstFree] = NoSocket
    BY <1>4, FirstFreeIsFree DEF FreePlaces
  <2> DEFINE first == FirstFree
  <2> HIDE DEF first
  <2>2. \A i \in Places : client_socket'[i] = IF i = first THEN c ELSE client_socket[i]
    BY <1>4 DEF TableTyped, first
  <2>3. first \in Places /\ client_socket[first] = NoSocket
    BY <2>1 DEF first
  <2>4. TableTyped'
    BY <1>1, <1>3, <1>4 DEF TableTyped
  <2>5. open_sockets' \ turned_away' = (open_sockets \ turned_away) \cup {c}
    BY <1>1, <1>4
  <2>6. \A i \in Places : client_socket'[i] # NoSocket => client_socket'[i] \in open_sockets' \ turned_away'
    BY <2>2, <2>5 DEF TableInv
  <2>7. \A i, j \in Places :
          client_socket'[i] = client_socket'[j] => i = j \/ client_socket'[i] = NoSocket
    BY <1>1, <2>2 DEF TableInv
  <2>8. ASSUME NEW d \in open_sockets' \ turned_away'
        PROVE  \E i \in Places : client_socket'[i] = d
    <3>1. CASE d = c
      BY <2>2, <2>3, <3>1
    <3>2. CASE d # c
      <4>1. PICK i \in Places : client_socket[i] = d
        BY <2>5, <3>2 DEF TableInv
      <4>2. d # NoSocket
        BY <2>5, <3>2 DEF TableTyped
      <4> QED
        BY <2>2, <2>3, <4>1, <4>2
    <3> QED
      BY <3>1, <3>2
  <2> QED
    BY <2>4, <2>6, <2>7, <2>8 DEF TableInv
<1>5. CASE turned_away' = turned_away \cup {c} /\ UNCHANGED client_socket
  <2>1. open_sockets' \ turned_away' = open_sockets \ turned_away
    BY <1>1, <1>5
  <2>2. TableTyped'
    BY <1>1, <1>3, <1>5 DEF TableTyped
  <2> QED
    BY <1>5, <2>1, <2>2 DEF TableInv
<1> QED
  BY <1>4, <1>5 DEF Seat

\* accept(): nothing of what a client sent is taken, but the error of one that is reset.
LEMMA AcceptKeeps ==
  ASSUME SelInv, AcceptOne
  PROVE  SelInv'
<1> USE DEF SelInv
<1>1. PICK c \in Clients :
        /\ c = accepted + 1 /\ accepted' = c /\ open_sockets' = open_sockets \cup {c} /\ Seat(c)
        /\ \/ UNCHANGED unread
           \/ client_state[c] = "reset" /\ unread' = [unread EXCEPT ![c] = <<>>]
  BY DEF AcceptOne, Waiting
<1>2. UNCHANGED <<client_state, sent, echoed>> /\ ServeFrom(0, client_socket', readfds)
  BY DEF AcceptOne
<1>3. TableTyped' /\ TableInv'
  BY <1>1, SeatKeeps
<1>4. LoopTyped'
  BY <1>2, <1>3, LoopServesClients DEF LoopTyped, TableTyped
<1>5. <<>> \in Seq(Readings)
  OBVIOUS
<1>6. ClientTyped'
  BY <1>1, <1>2, <1>5 DEF ClientTyped
<1>7. \A d \in Clients : ExactFor(d)'
  BY <1>1, <1>2 DEF ExactFor, AllText, ClientTyped
<1> QED
  BY <1>3, <1>4, <1>6, <1>7

\* The end of the server.
LEMMA AcceptEndsKeeps ==
  ASSUME SelInv, AcceptEnds
  PROVE  SelInv'
<1>1. /\ server_at' = "ended"
      /\ UNCHANGED <<client_state, unread, sent, echoed, tableVars, readfds, place>>
  BY DEF AcceptEnds
<1> QED
  BY <1>1 DEF SelInv, ClientTyped, TableTyped, LoopTyped, TableInv, ExactFor, AllText, tableVars

\* The socket that is served is one of a client.
LEMMA ServedIsClient ==
  ASSUME SelInv, server_at = "serve"
  PROVE  Served \in Clients /\ Served \in open_sockets \ turned_away
<1>1. Served \in Clients /\ place \in Places
  BY DEF SelInv, LoopTyped, Served
<1> QED
  BY <1>1, NoClientSockets DEF SelInv, TableInv, Served

\* A socket that is closed was in one place, which is free now.
LEMMA CloseKeeps ==
  ASSUME SelInv, CloseOne
  PROVE  SelInv'
<1> USE DEF SelInv
<1> DEFINE c == Served
<1>1. /\ open_sockets' = open_sockets \ {c}
      /\ client_socket' = [client_socket EXCEPT ![place] = NoSocket]
      /\ UNCHANGED <<client_state, unread, sent, echoed, accepted, turned_away>>
  BY DEF CloseOne
<1>2. c \in Clients /\ c \in open_sockets \ turned_away
  BY ServedIsClient DEF CloseOne
<1>3. c # NoSocket /\ place \in Places /\ c = client_socket[place]
  BY <1>2, NoClientSockets DEF LoopTyped, Served
<1>4. \A i \in Places : client_socket'[i] = IF i = place THEN NoSocket ELSE client_socket[i]
  BY <1>1 DEF TableTyped
<1>5. TableTyped' /\ ClientTyped'
  BY <1>1 DEF TableTyped, ClientTyped
<1>6. LoopTyped'
  BY <1>5, ServingKeepsLoop DEF TableTyped, CloseOne
<1>7. \A i \in Places : i # place => client_socket[i] # c
  BY <1>3 DEF TableInv
<1> HIDE DEF c
<1>8. \A i \in Places : client_socket'[i] # NoSocket => client_socket'[i] \in open_sockets' \ turned_away'
  BY <1>1, <1>4, <1>7 DEF TableInv
<1>9. \A i, j \in Places :
        client_socket'[i] = client_socket'[j] => i = j \/ client_socket'[i] = NoSocket
  BY <1>4 DEF TableInv
<1>10. \A d \in open_sockets' \ turned_away' : \E i \in Places : client_socket'[i] = d
  <2> SUFFICES ASSUME NEW d \in open_sockets \ turned_away, d # c
               PROVE  \E i \in Places : client_socket'[i] = d
    BY <1>1
  <2>1. PICK i \in Places : client_socket[i] = d
    BY DEF TableInv
  <2> QED
    BY <1>3, <1>4, <2>1
<1>11. TableInv'
  BY <1>1, <1>8, <1>9, <1>10 DEF TableInv
<1>12. \A d \in Clients : ExactFor(d)'
  BY <1>1 DEF ExactFor, AllText
<1> QED
  BY <1>5, <1>6, <1>11, <1>12

\* What is echoed follows what was echoed and precedes what is left.
LEMMA EchoKeeps ==
  ASSUME SelInv, Echo
  PROVE  SelInv'
<1> USE DEF SelInv
<1> DEFINE c == Served
<1>1. PICK n \in 1 .. Len(unread[c]) :
        /\ unread' = [unread EXCEPT ![c] = SubSeq(@, n + 1, Len(@))]
        /\ echoed' = [echoed EXCEPT ![c] = @ \o UpToZero(SubSeq(unread[c], 1, n))]
  BY DEF Echo
<1>2. UNCHANGED <<client_state, sent, tableVars>> /\ (NextPlace \/ SigPipe)
  BY DEF Echo
<1>3. c \in Clients
  BY ServedIsClient DEF Echo
<1>4. TableTyped' /\ TableInv' /\ LoopTyped'
  <2>1. TableTyped' /\ TableInv'
    BY <1>2 DEF TableTyped, TableInv, tableVars
  <2> QED
    BY <1>2, <2>1, ServingKeepsLoop DEF TableTyped
<1> HIDE DEF c
<1> DEFINE old == unread[c]
           pieces == SubSeq(old, 1, n)
           rest == SubSeq(old, n + 1, Len(old))
<1>5. old \in Seq(Readings) /\ echoed[c] \in Seq(Readings) /\ Len(old) \in Nat /\ n \in 1 .. Len(old)
  BY <1>1, <1>3 DEF ClientTyped
<1>6. unread'[c] = rest /\ echoed'[c] = echoed[c] \o UpToZero(pieces)
  BY <1>1, <1>3 DEF ClientTyped
<1>7. \A d \in Clients : d # c => unread'[d] = unread[d] /\ echoed'[d] = echoed[d]
  BY <1>1 DEF ClientTyped
<1> HIDE DEF old
<1>8. pieces \in Seq(Readings) /\ rest \in Seq(Readings)
  BY <1>5
<1>9. UpToZero(pieces) \in Seq(Readings)
  BY <1>8, EchoedIsRead
<1>10. echoed[c] \o UpToZero(pieces) \in Seq(Readings)
  BY <1>5, <1>9
<1>11. ClientTyped'
  BY <1>1, <1>2, <1>8, <1>10 DEF ClientTyped, old
<1>12. ASSUME NEW d \in Clients
       PROVE  ExactFor(d)'
  <2>1. CASE d = c
    <3> SUFFICES ASSUME client_state[c] # "reset", AllText(c)
                 PROVE  (echoed[c] \o UpToZero(pieces)) \o rest = sent[c]
      BY <1>2, <1>6, <2>1 DEF ExactFor, AllText
    <3>1. echoed[c] \o old = sent[c]
      BY <1>3 DEF ExactFor, old
    <3>2. \A k \in 1 .. Len(old) : old[k].has = "text"
      <4> TAKE k \in 1 .. Len(old)
      <4>1. /\ Len(echoed[c]) + k \in 1 .. Len(sent[c])
            /\ sent[c][Len(echoed[c]) + k] = old[k]
        BY <1>5, <3>1
      <4> QED
        BY <4>1 DEF AllText
    <3>3. \A k \in 1 .. Len(pieces) : pieces[k].has = "text"
      <4> SUFFICES ASSUME NEW k \in 1 .. Len(pieces)
                   PROVE  pieces[k].has = "text"
        OBVIOUS
      <4>1. k \in 1 .. Len(old) /\ pieces[k] = old[k]
        BY <1>5
      <4> QED
        BY <3>2, <4>1
    <3>4. UpToZero(pieces) = pieces
      BY <1>8, <3>3, TextIsEchoedWhole
    <3>5. (echoed[c] \o pieces) \o rest = echoed[c] \o old
      BY <1>5, PartsOfReading
    <3> QED
      BY <3>1, <3>4, <3>5
  <2>2. CASE d # c
    BY <1>2, <1>7, <2>2 DEF ExactFor, AllText
  <2> QED
    BY <2>1, <2>2
<1> QED
  BY <1>4, <1>11, <1>12

\* A reading that fails is not of a client of which something is said.
LEMMA EchoErrorKeeps ==
  ASSUME SelInv, EchoError
  PROVE  SelInv'
<1> USE DEF SelInv
<1> DEFINE c == Served
<1>1. unread[c] = <<Failure(c)>> /\ unread' = [unread EXCEPT ![c] = <<>>]
      /\ UNCHANGED <<client_state, sent, echoed, tableVars>> /\ (NextPlace \/ SigPipe)
  BY DEF EchoError
<1>2. c \in Clients
  BY ServedIsClient DEF EchoError
<1> HIDE DEF c
<1>3. ClientTyped'
  <2>1. <<>> \in Seq(Readings)
    OBVIOUS
  <2> QED
    BY <1>1, <2>1 DEF ClientTyped
<1>4. TableTyped' /\ TableInv'
  BY <1>1 DEF TableTyped, TableInv, tableVars
<1>5. LoopTyped'
  BY <1>1, <1>4, ServingKeepsLoop DEF TableTyped
<1>6. ASSUME NEW d \in Clients
      PROVE  ExactFor(d)'
  <2>1. CASE d = c
    <3>1. client_state[c] # "reset" => ~AllText(c)
      <4> SUFFICES ASSUME client_state[c] # "reset", AllText(c)
                   PROVE  FALSE
        OBVIOUS
      <4> DEFINE failure == Failure(c)
      <4>1. failure.has = "error"
        BY DEF Failure
      <4> HIDE DEF failure
      <4>2. echoed[c] \o <<failure>> = sent[c] /\ echoed[c] \in Seq(Readings)
        BY <1>1, <1>2 DEF ExactFor, ClientTyped, failure
      <4>3. Len(sent[c]) = Len(echoed[c]) + 1 /\ sent[c][Len(sent[c])] = failure /\ Len(sent[c]) >= 1
        BY <4>2
      <4> QED
        BY <4>1, <4>3 DEF AllText
    <3> QED
      BY <1>1, <2>1, <3>1 DEF ExactFor, AllText
  <2>2. CASE d # c
    BY <1>1, <2>2 DEF ExactFor, AllText, ClientTyped
  <2> QED
    BY <2>1, <2>2
<1> QED
  BY <1>3, <1>4, <1>5, <1>6

\* The invariant of the server holds in every state.
LEMMA SelInvHolds == SelSpec => []SelInv
<1>1. ASSUME SelInit
      PROVE  SelInv
  <2>1. ClientTyped
    BY <1>1 DEF SelInit, ClientTyped
  <2>2. TableTyped /\ LoopTyped /\ TableInv
    BY <1>1 DEF SelInit, TableTyped, LoopTyped, TableInv, Places
  <2>3. \A c \in Clients : ExactFor(c)
    BY <1>1 DEF SelInit, ExactFor
  <2> QED
    BY <2>1, <2>2, <2>3 DEF SelInv
<1>2. SelInv /\ [SelNext]_selVars => SelInv'
  <2>1. SelInv /\ UNCHANGED selVars => SelInv'
    BY DEF selVars, SelInv, ClientTyped, TableTyped, LoopTyped, TableInv, ExactFor, AllText
  <2> QED
    BY <2>1, ConnectKeeps, SendKeeps, LeaveKeeps, BreakOffKeeps, SelectKeeps, AcceptKeeps,
       AcceptEndsKeeps, CloseKeeps, EchoKeeps, EchoErrorKeeps DEF SelNext
<1> QED
  BY <1>1, <1>2, PTL DEF SelSpec

\* For every number of clients and places: a socket the server has open is
\* served from one place, exactly and in order, until it is closed.
THEOREM ServesExactlyHolds == SelSpec => []ServesExactly
<1>1. ASSUME SelInv
      PROVE  OnePlaceUnlessFull
  <2> SUFFICES ASSUME NEW c \in Clients
               PROVE  Cardinality({i \in Places : client_socket[i] = c})
                        = IF c \in open_sockets \ turned_away THEN 1 ELSE 0
    BY DEF OnePlaceUnlessFull
  <2> DEFINE own == {i \in Places : client_socket[i] = c}
  <2>1. c # NoSocket
    BY DEF Clients
  <2>2. CASE c \in open_sockets \ turned_away
    <3>1. PICK i \in Places : client_socket[i] = c
      BY <1>1, <2>2 DEF SelInv, TableInv
    <3>2. own = {i}
      BY <1>1, <2>1, <3>1 DEF SelInv, TableInv
    <3> QED
      BY <2>2, <3>2, FS_Singleton
  <2>3. CASE c \notin open_sockets \ turned_away
    <3>1. own = {}
      BY <1>1, <2>1, <2>3 DEF SelInv, TableInv
    <3> QED
      BY <2>3, <3>1, FS_EmptySet
  <2> QED
    BY <2>2, <2>3
<1>2. SelInv => EchoIsExact
  BY DEF SelInv, ExactFor, AllText, EchoIsExact
<1> QED
  BY <1>1, <1>2, SelInvHolds, PTL DEF ServesExactly

HIDE SelectAssumption

-----------------------------------------------------------------------------
(* The chat server hands each connection to a thread of its own.           *)

USE ChatAssumption

Working == {"question", "again", "service", "close"}

ChatTyped ==
  /\ peer \in [Peers -> {"away", "open", "left", "failed"}]
  /\ descriptors \in [Fds -> Peers \cup {Nobody, File}]
  /\ client_socketfd \in Fds \cup {NoFd}
  /\ main_at \in {"accept", "create", "return", "ended"}
  /\ thread_at \in [Peers -> {"none", "start", "done"} \cup Working]
  /\ thread_fd \in [Peers -> Fds \cup {NoFd}]
  /\ thread_file \in [Peers -> Fds \cup {NoFd}]

\* The clients are accepted in order, and no descriptor is of one to come.
AcceptedInOrder ==
  /\ Accepted \in 0 .. MAX_ACCEPTS
  /\ \A p \in Peers : peer[p] # "away" <=> p <= Accepted
  /\ \A f \in Fds : descriptors[f] \in Peers => descriptors[f] <= Accepted
  /\ main_at = "create" => Accepted > 0

\* While the process lives, each turn of the loop but one not ended has a thread.
Threads ==
  main_at # "ended" =>
    \A t \in Peers : thread_at[t] = "none" <=> (t > Accepted \/ (main_at = "create" /\ t = Accepted))

\* fd is the one descriptor of a client, or the client has none and fd is NoFd.
Holds(t, fd) == \A f \in Fds : descriptors[f] = t <=> f = fd

\* A descriptor is that of the thread it was handed to, all the way: in main()'s
\* variable, then in the thread's own.
Handed ==
  main_at # "ended" =>
    /\ main_at = "create" => Holds(Accepted, client_socketfd)
    /\ \A t \in Peers : thread_at[t] = "start" => main_at # "create" /\ Holds(t, client_socketfd)
    /\ \A t \in Peers : thread_at[t] \in Working => Holds(t, thread_fd[t])
    /\ \A t \in Peers : thread_at[t] = "done" => Holds(t, NoFd)

\* The files of the threads are files, each of one thread.
FilesHeld ==
  /\ \A t \in Peers : thread_file[t] # NoFd => descriptors[thread_file[t]] = File
  /\ \A t, u \in Peers : thread_file[t] = thread_file[u] => t = u \/ thread_file[t] = NoFd

OwnDeals == \A deal \in dealt_with : deal[1] = deal[2]

Undisturbed == overtaken = {} /\ closed_twice = {}

ChatInv ==
  /\ ChatTyped /\ AcceptedInOrder /\ Threads
  /\ Undisturbed => Handed /\ FilesHeld /\ OwnDeals

\* The lowest free descriptor is one.
LEMMA LowestIsFree == FreeFds # {} => LowestFree \in Fds /\ descriptors[LowestFree] = Nobody
<1>1. FreeFds \in SUBSET Nat
  BY DEF FreeFds, Fds
<1>2. FreeFds # {} => \E f \in FreeFds : \A g \in FreeFds : f <= g
  BY <1>1, LeastExists
<1> QED
  BY <1>2 DEF FreeFds, LowestFree

\* What is new is at a descriptor that was free.
LEMMA TakesFree ==
  ASSUME ChatTyped, NEW x \in Peers \cup {File}, TakeFd(x)
  PROVE  /\ LowestFree \in Fds /\ descriptors[LowestFree] = Nobody
         /\ descriptors' \in [Fds -> Peers \cup {Nobody, File}]
         /\ \A f \in Fds : descriptors'[f] = IF f = LowestFree THEN x ELSE descriptors[f]
<1>1. FreeFds # {} /\ descriptors' = [descriptors EXCEPT ![LowestFree] = x]
  BY DEF TakeFd
<1>2. LowestFree \in Fds /\ descriptors[LowestFree] = Nobody
  BY <1>1, LowestIsFree
<1> QED
  BY <1>1, <1>2 DEF ChatTyped

\* A client that is accepted has the descriptor that main() holds, or none.
LEMMA AcceptKeepsInv ==
  ASSUME ChatInv, Accept
  PROVE  ChatInv'
<1> DEFINE p == Accepted + 1
<1>1. /\ main_at = "accept" /\ p \in Peers /\ main_at' = "create"
      /\ \/ peer' = [peer EXCEPT ![p] = "open"] /\ TakeFd(p) /\ client_socketfd' = LowestFree
         \/ peer' = [peer EXCEPT ![p] = "failed"] /\ client_socketfd' = NoFd /\ UNCHANGED descriptors
      /\ overtaken' = overtaken \cup {t \in Peers : thread_at[t] = "start"}
      /\ UNCHANGED <<thread_at, thread_fd, thread_file, closed_twice, dealt_with>>
  BY DEF Accept
<1>2. Accepted \in 0 .. MAX_ACCEPTS - 1
  BY <1>1 DEF ChatInv, AcceptedInOrder, Peers
<1>3. p # Nobody /\ p # File /\ \A f \in Fds : descriptors[f] # p
  BY <1>1, <1>2 DEF ChatInv, AcceptedInOrder
<1>4. /\ descriptors' \in [Fds -> Peers \cup {Nobody, File}] /\ client_socketfd' \in Fds \cup {NoFd}
      /\ \A f \in Fds : descriptors'[f] = IF f = client_socketfd' THEN p ELSE descriptors[f]
      /\ client_socketfd' # NoFd => descriptors[client_socketfd'] = Nobody
  <2>1. CASE TakeFd(p) /\ client_socketfd' = LowestFree
    BY <1>1, <2>1, TakesFree DEF ChatInv
  <2>2. CASE client_socketfd' = NoFd /\ UNCHANGED descriptors
    BY <2>2 DEF ChatInv, ChatTyped, Fds
  <2> QED
    BY <1>1, <2>1, <2>2
<1>5. ChatTyped'
  BY <1>1, <1>4 DEF ChatInv, ChatTyped
<1>6. \A q \in Peers : peer'[q] # "away" <=> q <= p
  BY <1>1, <1>2 DEF ChatInv, ChatTyped, AcceptedInOrder, Peers
<1>7. Accepted' = p
  <2>1. {q \in Peers : peer'[q] # "away"} = 1 .. p
    BY <1>1, <1>2, <1>6 DEF Peers
  <2>2. Cardinality(1 .. p) = p
    BY <1>2, FS_Interval
  <2> QED
    BY <2>1, <2>2 DEF Accepted
<1>8. \A f \in Fds : descriptors'[f] \in Peers => descriptors'[f] <= p
  BY <1>2, <1>4 DEF ChatInv, AcceptedInOrder, ChatTyped, Peers
<1>9. AcceptedInOrder'
  BY <1>1, <1>2, <1>6, <1>7, <1>8 DEF AcceptedInOrder, Peers
<1>10. \A t \in Peers : thread_at[t] = "none" <=> t > Accepted
  BY <1>1 DEF ChatInv, Threads
<1>11. Threads'
  BY <1>1, <1>2, <1>7, <1>10 DEF Threads, Peers
<1>12. ASSUME Undisturbed'
       PROVE  Handed' /\ FilesHeld' /\ OwnDeals'
  <2>1. Undisturbed /\ \A t \in Peers : thread_at[t] # "start"
    BY <1>1, <1>12 DEF Undisturbed
  <2>2. OwnDeals'
    BY <1>1, <2>1 DEF ChatInv, OwnDeals
  <2>3. FilesHeld'
    <3>1. \A t \in Peers : thread_file[t] # NoFd =>
            thread_file[t] \in Fds /\ descriptors[thread_file[t]] = File /\ thread_file[t] # client_socketfd'
      BY <1>4, <2>1 DEF ChatInv, FilesHeld, ChatTyped
    <3> QED
      BY <1>1, <1>4, <2>1, <3>1 DEF ChatInv, FilesHeld
  <2>4. Holds(Accepted, client_socketfd)'
    BY <1>3, <1>4, <1>7 DEF Holds
  <2>5. \A t \in Peers \ {p} : \A f \in Fds : descriptors'[f] = t <=> descriptors[f] = t
    <3> SUFFICES ASSUME NEW t \in Peers \ {p}, NEW f \in Fds
                 PROVE  descriptors'[f] = t <=> descriptors[f] = t
      OBVIOUS
    <3>1. t # Nobody /\ NoFd \notin Fds
      BY DEF Peers, Fds
    <3> QED
      BY <1>4, <3>1
  <2>6. \A t \in Peers : thread_at[t] # "none" => t # p
    BY <1>2, <1>10 DEF Peers
  <2>7. \A t \in Peers : thread_at[t] \in Working => Holds(t, thread_fd[t])'
    BY <1>1, <2>1, <2>5, <2>6 DEF ChatInv, Handed, Holds, Working
  <2>8. \A t \in Peers : thread_at[t] = "done" => Holds(t, NoFd)'
    BY <1>1, <2>1, <2>5, <2>6 DEF ChatInv, Handed, Holds
  <2> QED
    BY <1>1, <2>1, <2>2, <2>3, <2>4, <2>7, <2>8 DEF Handed
<1> QED
  BY <1>5, <1>9, <1>11, <1>12 DEF ChatInv

\* What leaves the clients' order alone: nobody was accepted.
LEMMA AcceptedSame ==
  ASSUME ChatTyped, peer' = peer \/ (\E p \in Peers : peer[p] = "open" /\ peer' = [peer EXCEPT ![p] = "left"])
  PROVE  /\ Accepted' = Accepted
         /\ peer' \in [Peers -> {"away", "open", "left", "failed"}]
         /\ \A p \in Peers : peer'[p] # "away" <=> peer[p] # "away"
<1>1. \A p \in Peers : peer'[p] # "away" <=> peer[p] # "away"
  BY DEF ChatTyped
<1>2. {p \in Peers : peer'[p] # "away"} = {p \in Peers : peer[p] # "away"}
  BY <1>1
<1>3. Accepted' = Accepted
  BY <1>2 DEF Accepted
<1> QED
  BY <1>1, <1>3 DEF ChatTyped

\* A client that leaves.
LEMMA HangupKeepsInv ==
  ASSUME ChatInv, NEW p \in Peers, Hangup(p)
  PROVE  ChatInv'
<1>1. /\ peer[p] = "open" /\ peer' = [peer EXCEPT ![p] = "left"]
      /\ UNCHANGED <<descriptors, client_socketfd, main_at, thread_at, thread_fd, thread_file,
                     overtaken, closed_twice, dealt_with>>
  BY DEF Hangup
<1>2. /\ Accepted' = Accepted /\ peer' \in [Peers -> {"away", "open", "left", "failed"}]
      /\ \A q \in Peers : peer'[q] # "away" <=> peer[q] # "away"
  BY <1>1, AcceptedSame DEF ChatInv
<1>3. ChatTyped' /\ AcceptedInOrder' /\ Threads'
  BY <1>1, <1>2 DEF ChatInv, ChatTyped, AcceptedInOrder, Threads
<1> QED
  BY <1>1, <1>2, <1>3 DEF ChatInv, Undisturbed, Handed, Holds, FilesHeld, OwnDeals

\* The thread that is started is the one of the client accepted last.
LEMMA CreateKeepsInv ==
  ASSUME ChatInv, Create
  PROVE  ChatInv'
<1>1. /\ main_at = "create" /\ main_at' \in {"return", "accept"}
      /\ thread_at' = [thread_at EXCEPT ![Accepted] = "start"]
      /\ UNCHANGED <<peer, descriptors, client_socketfd, thread_fd, thread_file,
                     overtaken, closed_twice, dealt_with>>
  BY DEF Create
<1>2. Accepted' = Accepted
  BY <1>1, AcceptedSame DEF ChatInv
<1>3. Accepted \in Peers
  BY <1>1 DEF ChatInv, AcceptedInOrder, Peers
<1>4. ChatTyped'
  BY <1>1 DEF ChatInv, ChatTyped
<1>5. \A t \in Peers : thread_at'[t] = IF t = Accepted THEN "start" ELSE thread_at[t]
  BY <1>1 DEF ChatInv, ChatTyped
<1>6. AcceptedInOrder'
  BY <1>1, <1>2 DEF ChatInv, AcceptedInOrder
<1>7. \A t \in Peers : thread_at[t] = "none" <=> t > Accepted \/ t = Accepted
  BY <1>1 DEF ChatInv, Threads
<1>8. Threads'
  BY <1>1, <1>2, <1>3, <1>5, <1>7 DEF Threads, Peers
<1>9. ASSUME Undisturbed'
      PROVE  Handed' /\ FilesHeld' /\ OwnDeals'
  <2>1. Undisturbed
    BY <1>1, <1>9 DEF Undisturbed
  <2>2. OwnDeals' /\ FilesHeld'
    BY <1>1, <2>1 DEF ChatInv, OwnDeals, FilesHeld
  <2>3. Holds(Accepted, client_socketfd)
    BY <1>1, <2>1 DEF ChatInv, Handed
  <2>4. \A t \in Peers : thread_at'[t] = "start" => t = Accepted
    BY <1>1, <1>5, <2>1 DEF ChatInv, Handed
  <2>5. \A t \in Peers : thread_at'[t] \in Working => thread_at[t] \in Working
    BY <1>5 DEF Working
  <2>6. \A t \in Peers : thread_at'[t] = "done" => thread_at[t] = "done"
    BY <1>5
  <2>7. \A t, fd : Holds(t, fd)' <=> Holds(t, fd)
    BY <1>1 DEF Holds
  <2> QED
    BY <1>1, <2>1, <2>2, <2>3, <2>4, <2>5, <2>6, <2>7 DEF ChatInv, Handed
<1> QED
  BY <1>4, <1>6, <1>8, <1>9 DEF ChatInv

\* A process that ends hands nothing over any more.
LEMMA EndKeepsInv ==
  ASSUME ChatInv, ProcessEnds
  PROVE  ChatInv'
<1>1. /\ main_at' = "ended"
      /\ UNCHANGED <<peer, descriptors, client_socketfd, thread_at, thread_fd, thread_file,
                     overtaken, closed_twice, dealt_with>>
  BY DEF ProcessEnds
<1>2. Accepted' = Accepted
  BY <1>1, AcceptedSame DEF ChatInv
<1>3. ChatTyped' /\ AcceptedInOrder' /\ Threads'
  BY <1>1, <1>2 DEF ChatInv, ChatTyped, AcceptedInOrder, Threads
<1> QED
  BY <1>1, <1>3 DEF ChatInv, Undisturbed, Handed, FilesHeld, OwnDeals

\* What the steps of a thread have in common: it goes from one place to another,
\* neither of which is the first, and main() and the clients stay where they are.
LEMMA GoesOn ==
  ASSUME ChatInv, NEW t \in Peers, NEW from \in {"start"} \cup Working, NEW to \in Working \cup {"done"},
         ThreadGoes(t, from, to), UNCHANGED mainVars
  PROVE  /\ main_at # "ended" /\ thread_at[t] = from
         /\ Accepted' = Accepted
         /\ thread_at' \in [Peers -> {"none", "start", "done"} \cup Working]
         /\ \A u \in Peers : thread_at'[u] = IF u = t THEN to ELSE thread_at[u]
         /\ Threads'
<1>1. main_at # "ended" /\ thread_at[t] = from /\ thread_at' = [thread_at EXCEPT ![t] = to]
  BY DEF ThreadGoes
<1>2. Accepted' = Accepted
  BY AcceptedSame DEF ChatInv, mainVars
<1>3. thread_at' \in [Peers -> {"none", "start", "done"} \cup Working]
  BY <1>1 DEF ChatInv, ChatTyped
<1>4. \A u \in Peers : thread_at'[u] = IF u = t THEN to ELSE thread_at[u]
  BY <1>1 DEF ChatInv, ChatTyped
<1>5. from # "none" /\ to # "none"
  BY DEF Working
<1>6. Threads'
  BY <1>1, <1>2, <1>4, <1>5 DEF ChatInv, Threads, mainVars
<1> QED
  BY <1>1, <1>2, <1>3, <1>4, <1>6

\* A thread that has its own descriptor deals with its own client.
LEMMA DealsWithOwn ==
  ASSUME ChatInv, Undisturbed, NEW t \in Peers, thread_at[t] \in Working, main_at # "ended",
         Deal(t, thread_fd[t])
  PROVE  OwnDeals'
<1>1. ClientOf(thread_fd[t]) \in {t, Nobody}
  BY DEF ChatInv, Handed, Holds, ClientOf
<1>2. dealt_with' \subseteq dealt_with \cup {<<t, t>>}
  BY <1>1 DEF Deal
<1>3. \A deal \in dealt_with : deal[1] = deal[2]
  BY DEF ChatInv, OwnDeals
<1> QED
  BY <1>2, <1>3 DEF OwnDeals

\* A thread that reads main()'s variable gets the descriptor of its client.
LEMMA StartKeepsInv ==
  ASSUME ChatInv, NEW t \in Peers, Start(t)
  PROVE  ChatInv'
<1>1. /\ ThreadGoes(t, "start", "question")
      /\ thread_fd' = [thread_fd EXCEPT ![t] = client_socketfd]
      /\ UNCHANGED <<mainVars, descriptors, thread_file, closed_twice, dealt_with>>
  BY DEF Start
<1>2. "question" \in Working /\ "start" \notin Working
  BY DEF Working
<1>3. /\ main_at # "ended" /\ thread_at[t] = "start" /\ Accepted' = Accepted
      /\ thread_at' \in [Peers -> {"none", "start", "done"} \cup Working]
      /\ \A u \in Peers : thread_at'[u] = IF u = t THEN "question" ELSE thread_at[u]
      /\ Threads'
  BY <1>1, <1>2, GoesOn
<1>4. ChatTyped'
  BY <1>1, <1>3 DEF ChatInv, ChatTyped, mainVars
<1>5. AcceptedInOrder'
  BY <1>1, <1>3 DEF ChatInv, AcceptedInOrder, mainVars
<1>6. \A u \in Peers : thread_fd'[u] = IF u = t THEN client_socketfd ELSE thread_fd[u]
  BY <1>1 DEF ChatInv, ChatTyped
<1>7. ASSUME Undisturbed'
      PROVE  Handed' /\ FilesHeld' /\ OwnDeals'
  <2>1. Undisturbed
    BY <1>1, <1>7 DEF Undisturbed, mainVars
  <2>2. OwnDeals' /\ FilesHeld'
    BY <1>1, <2>1 DEF ChatInv, OwnDeals, FilesHeld
  <2>3. Holds(t, client_socketfd) /\ main_at # "create"
    BY <1>3, <2>1 DEF ChatInv, Handed
  <2>4. \A u, fd : Holds(u, fd)' <=> Holds(u, fd)
    BY <1>1 DEF Holds
  <2>5. \A u \in Peers : thread_at'[u] \in Working => Holds(u, thread_fd'[u])
    BY <1>3, <1>6, <2>1, <2>3 DEF ChatInv, Handed
  <2>6. \A u \in Peers : thread_at'[u] \in {"start", "done"} => thread_at'[u] = thread_at[u]
    BY <1>3
  <2>7. /\ \A u \in Peers : thread_at'[u] = "start" => Holds(u, client_socketfd)
        /\ \A u \in Peers : thread_at'[u] = "done" => Holds(u, NoFd)
    BY <1>3, <2>1, <2>6 DEF ChatInv, Handed
  <2>8. main_at' = main_at /\ client_socketfd' = client_socketfd
    BY <1>1 DEF mainVars
  <2> QED
    BY <2>2, <2>3, <2>4, <2>5, <2>7, <2>8 DEF Handed
<1> QED
  BY <1>3, <1>4, <1>5, <1>7 DEF ChatInv

\* A step in which no descriptor becomes a client's, and of a thread that has
\* disturbed nothing none ceases to be.
LEMMA ServiceKeepsInv ==
  ASSUME ChatInv, NEW t \in Peers, NEW from \in Working, NEW to \in Working,
         ThreadGoes(t, from, to), UNCHANGED <<mainVars, thread_fd, closed_twice>>,
         descriptors' \in [Fds -> Peers \cup {Nobody, File}],
         thread_file' \in [Peers -> Fds \cup {NoFd}],
         \A f \in Fds : descriptors'[f] \in Peers => descriptors'[f] = descriptors[f],
         Undisturbed => /\ \A f \in Fds : descriptors[f] \in Peers => descriptors'[f] = descriptors[f]
                        /\ FilesHeld' /\ OwnDeals'
  PROVE  ChatInv'
<1>1. /\ main_at # "ended" /\ thread_at[t] = from /\ Accepted' = Accepted
      /\ thread_at' \in [Peers -> {"none", "start", "done"} \cup Working]
      /\ \A u \in Peers : thread_at'[u] = IF u = t THEN to ELSE thread_at[u]
      /\ Threads'
  BY GoesOn
<1>2. ChatTyped'
  BY <1>1 DEF ChatInv, ChatTyped, mainVars
<1>3. AcceptedInOrder'
  BY <1>1 DEF ChatInv, AcceptedInOrder, mainVars
<1>4. ASSUME Undisturbed'
      PROVE  Handed' /\ FilesHeld' /\ OwnDeals'
  <2>1. Undisturbed
    BY <1>4 DEF Undisturbed, mainVars
  <2>2. \A u \in Peers : \A fd : Holds(u, fd) => Holds(u, fd)'
    BY <2>1 DEF Holds
  <2>3. \A u \in Peers : thread_at'[u] \in Working <=> thread_at[u] \in Working
    BY <1>1
  <2>4. \A u \in Peers : thread_at'[u] \in {"start", "done"} => thread_at'[u] = thread_at[u]
    BY <1>1 DEF Working
  <2>5. main_at = "create" => Accepted \in Peers
    BY DEF ChatInv, AcceptedInOrder, Peers
  <2>6. main_at' = main_at /\ client_socketfd' = client_socketfd /\ thread_fd' = thread_fd
    BY DEF mainVars
  <2>7. /\ main_at = "create" => Holds(Accepted, client_socketfd)
        /\ \A u \in Peers : thread_at'[u] = "start" => main_at # "create" /\ Holds(u, client_socketfd)
        /\ \A u \in Peers : thread_at'[u] \in Working => Holds(u, thread_fd[u])
        /\ \A u \in Peers : thread_at'[u] = "done" => Holds(u, NoFd)
    BY <1>1, <2>1, <2>3, <2>4 DEF ChatInv, Handed
  <2>8. Handed'
    BY <1>1, <2>2, <2>5, <2>6, <2>7 DEF Handed
  <2> QED
    BY <2>1, <2>8
<1> QED
  BY <1>1, <1>2, <1>3, <1>4 DEF ChatInv

\* A step in which a thread deals with its client, and opens and closes nothing.
LEMMA DealKeepsInv ==
  ASSUME ChatInv, NEW t \in Peers, NEW from \in Working, NEW to \in Working,
         ThreadGoes(t, from, to), Deal(t, thread_fd[t]),
         UNCHANGED <<mainVars, descriptors, thread_fd, thread_file, closed_twice>>
  PROVE  ChatInv'
<1>1. main_at # "ended" /\ thread_at[t] \in Working
  BY DEF ThreadGoes
<1>2. Undisturbed => OwnDeals'
  BY <1>1, DealsWithOwn
<1>3. Undisturbed => FilesHeld'
  BY DEF ChatInv, FilesHeld
<1> QED
  BY <1>2, <1>3, ServiceKeepsInv DEF ChatInv, ChatTyped

\* A file that is opened has a descriptor that was free.
LEMMA OpenKeepsInv ==
  ASSUME ChatInv, NEW t \in Peers, ThreadGoes(t, "service", "service"), TakeFd(File),
         UNCHANGED <<mainVars, thread_fd, closed_twice, dealt_with>>,
         \/ thread_file[t] = NoFd /\ thread_file' = [thread_file EXCEPT ![t] = LowestFree]
         \/ UNCHANGED thread_file
  PROVE  ChatInv'
<1> DEFINE fd == LowestFree
<1>1. /\ fd \in Fds /\ descriptors[fd] = Nobody
      /\ descriptors' \in [Fds -> Peers \cup {Nobody, File}]
      /\ \A f \in Fds : descriptors'[f] = IF f = fd THEN File ELSE descriptors[f]
  BY TakesFree DEF ChatInv
<1>2. File \notin Peers /\ Nobody \notin Peers /\ "service" \in Working /\ Nobody # File
  BY DEF Peers, Working
<1>3. thread_file' \in [Peers -> Fds \cup {NoFd}]
  BY <1>1 DEF ChatInv, ChatTyped
<1>4. Undisturbed => OwnDeals'
  BY DEF ChatInv, OwnDeals
<1>5. ASSUME Undisturbed
      PROVE  FilesHeld'
  <2>1. FilesHeld /\ thread_file \in [Peers -> Fds \cup {NoFd}] /\ NoFd \notin Fds
    BY <1>5 DEF ChatInv, ChatTyped, Fds
  <2>2. \A u \in Peers : thread_file[u] # fd
    BY <1>1, <1>2, <2>1 DEF FilesHeld
  <2>3. \A u \in Peers : thread_file'[u] = thread_file[u] \/ (u = t /\ thread_file'[u] = fd)
    BY <2>1
  <2>4. \A u \in Peers : thread_file'[u] # NoFd => descriptors'[thread_file'[u]] = File
    BY <1>1, <2>1, <2>3 DEF FilesHeld
  <2>5. \A u, v \in Peers : thread_file'[u] = thread_file'[v] => u = v \/ thread_file'[u] = NoFd
    BY <2>1, <2>2, <2>3 DEF FilesHeld
  <2> QED
    BY <2>4, <2>5 DEF FilesHeld
<1> HIDE DEF fd
<1>6. /\ \A f \in Fds : descriptors'[f] \in Peers => descriptors'[f] = descriptors[f]
      /\ \A f \in Fds : descriptors[f] \in Peers => descriptors'[f] = descriptors[f]
  BY <1>1, <1>2
<1> QED
  BY <1>1, <1>2, <1>3, <1>4, <1>5, <1>6, ServiceKeepsInv

\* A service that gets no descriptor for its file.
LEMMA NoFileKeepsInv ==
  ASSUME ChatInv, NEW t \in Peers, ThreadGoes(t, "service", "close"),
         UNCHANGED <<mainVars, descriptors, thread_fd, thread_file, closed_twice, dealt_with>>
  PROVE  ChatInv'
<1>1. {"service", "close"} \subseteq Working
  BY DEF Working
<1>2. Undisturbed => FilesHeld' /\ OwnDeals'
  BY DEF ChatInv, FilesHeld, OwnDeals
<1> QED
  BY <1>1, <1>2, ServiceKeepsInv DEF ChatInv, ChatTyped

\* What fclose() closes is a file, if nothing was disturbed.
LEMMA CloseFileKeepsInv ==
  ASSUME ChatInv, NEW t \in Peers, CloseFile(t)
  PROVE  ChatInv'
<1> DEFINE fd == thread_file[t]
<1>1. /\ ThreadGoes(t, "service", "service") /\ fd # NoFd /\ Deal(t, fd)
      /\ descriptors' = Closed(fd)
      /\ thread_file' = [thread_file EXCEPT ![t] = NoFd]
      /\ UNCHANGED <<mainVars, thread_fd, closed_twice>>
  BY DEF CloseFile
<1>2. File \notin Peers /\ Nobody \notin Peers /\ "service" \in Working
  BY DEF Peers, Working
<1>3. /\ descriptors' \in [Fds -> Peers \cup {Nobody, File}]
      /\ \A f \in Fds : descriptors'[f] = IF f = fd THEN Nobody ELSE descriptors[f]
  BY <1>1 DEF Closed, ChatInv, ChatTyped
<1>4. thread_file' \in [Peers -> Fds \cup {NoFd}] /\ thread_file \in [Peers -> Fds \cup {NoFd}]
  BY <1>1 DEF ChatInv, ChatTyped
<1>5. ASSUME Undisturbed
      PROVE  /\ \A f \in Fds : descriptors[f] \in Peers => descriptors'[f] = descriptors[f]
             /\ FilesHeld' /\ OwnDeals'
  <2>1. FilesHeld /\ descriptors[fd] = File
    BY <1>1, <1>5 DEF ChatInv, FilesHeld
  <2>2. OwnDeals'
    BY <1>1, <1>2, <1>5, <2>1 DEF Deal, ClientOf, ChatInv, OwnDeals
  <2>3. \A u \in Peers : thread_file'[u] = IF u = t THEN NoFd ELSE thread_file[u]
    BY <1>1, <1>4
  <2>4. FilesHeld'
    <3>1. \A u \in Peers : thread_file'[u] # NoFd => u # t /\ thread_file[u] # fd /\ thread_file[u] # NoFd
      BY <1>1, <2>1, <2>3 DEF FilesHeld
    <3>2. \A u \in Peers : thread_file'[u] # NoFd => descriptors'[thread_file'[u]] = File
      BY <1>3, <1>4, <2>1, <2>3, <3>1 DEF FilesHeld
    <3>3. \A u, v \in Peers : thread_file'[u] = thread_file'[v] => u = v \/ thread_file'[u] = NoFd
      BY <2>1, <2>3 DEF FilesHeld
    <3> QED
      BY <3>2, <3>3 DEF FilesHeld
  <2> QED
    BY <1>2, <1>3, <2>1, <2>2, <2>4
<1> HIDE DEF fd
<1>6. \A f \in Fds : descriptors'[f] \in Peers => descriptors'[f] = descriptors[f]
  BY <1>2, <1>3
<1> QED
  BY <1>1, <1>2, <1>3, <1>4, <1>5, <1>6, ServiceKeepsInv

\* A descriptor that is closed is nobody's, and the others are as they were.
LEMMA ClosedIsFree ==
  ASSUME ChatInv, NEW fd \in Fds \cup {NoFd}, descriptors' = Closed(fd), UNCHANGED mainVars, Accepted' = Accepted
  PROVE  /\ descriptors' \in [Fds -> Peers \cup {Nobody, File}]
         /\ \A f \in Fds : descriptors'[f] = IF f = fd THEN Nobody ELSE descriptors[f]
         /\ AcceptedInOrder'
<1>1. descriptors' \in [Fds -> Peers \cup {Nobody, File}]
  BY DEF ChatInv, ChatTyped, Closed
<1>2. \A f \in Fds : descriptors'[f] = IF f = fd THEN Nobody ELSE descriptors[f]
  BY DEF Closed
<1>3. Nobody \notin Peers
  BY DEF Peers
<1>4. AcceptedInOrder'
  BY <1>2, <1>3 DEF ChatInv, AcceptedInOrder, mainVars
<1> QED
  BY <1>1, <1>2, <1>4

\* A thread that closes its descriptor and goes on is one of those of which
\* nothing is said.
LEMMA NoAnswerKeepsInv ==
  ASSUME ChatInv, NEW t \in Peers, NoAnswer(t)
  PROVE  ChatInv'
<1>1. PICK to \in {"again", "service"} : ThreadGoes(t, "question", to)
  BY DEF NoAnswer
<1>2. /\ descriptors' = Closed(thread_fd[t])
      /\ closed_twice' = closed_twice \cup {t}
      /\ UNCHANGED <<mainVars, thread_fd, thread_file>>
  BY DEF NoAnswer
<1>3. "question" \in Working /\ to \in Working
  BY DEF Working
<1>4. /\ Accepted' = Accepted
      /\ thread_at' \in [Peers -> {"none", "start", "done"} \cup Working]
      /\ Threads'
  BY <1>1, <1>2, <1>3, GoesOn
<1>5. thread_fd[t] \in Fds \cup {NoFd}
  BY DEF ChatInv, ChatTyped
<1>6. descriptors' \in [Fds -> Peers \cup {Nobody, File}] /\ AcceptedInOrder'
  BY <1>2, <1>4, <1>5, ClosedIsFree
<1>7. ChatTyped'
  BY <1>2, <1>4, <1>6 DEF ChatInv, ChatTyped, mainVars
<1>8. ~Undisturbed'
  BY <1>2 DEF Undisturbed
<1> QED
  BY <1>4, <1>6, <1>7, <1>8 DEF ChatInv

\* The last close() of a thread frees the descriptor of its own client.
LEMMA CloseKeepsInv ==
  ASSUME ChatInv, NEW t \in Peers, Close(t)
  PROVE  ChatInv'
<1> DEFINE fd == thread_fd[t]
<1>1. /\ ThreadGoes(t, "close", "done") /\ Deal(t, fd)
      /\ descriptors' = Closed(fd)
      /\ UNCHANGED <<mainVars, thread_fd, thread_file, closed_twice>>
  BY DEF Close
<1>2. "close" \in Working /\ "done" \notin Working
  BY DEF Working
<1>3. /\ main_at # "ended" /\ thread_at[t] = "close" /\ Accepted' = Accepted
      /\ thread_at' \in [Peers -> {"none", "start", "done"} \cup Working]
      /\ \A u \in Peers : thread_at'[u] = IF u = t THEN "done" ELSE thread_at[u]
      /\ Threads'
  BY <1>1, <1>2, GoesOn
<1>4. fd \in Fds \cup {NoFd}
  BY DEF ChatInv, ChatTyped
<1>5. /\ descriptors' \in [Fds -> Peers \cup {Nobody, File}] /\ AcceptedInOrder'
      /\ \A f \in Fds : descriptors'[f] = IF f = fd THEN Nobody ELSE descriptors[f]
  BY <1>1, <1>3, <1>4, ClosedIsFree
<1>6. ChatTyped'
  BY <1>1, <1>3, <1>5 DEF ChatInv, ChatTyped, mainVars
<1>7. ASSUME Undisturbed'
      PROVE  Handed' /\ FilesHeld' /\ OwnDeals'
  <2>1. Undisturbed
    BY <1>1, <1>7 DEF Undisturbed, mainVars
  <2>2. OwnDeals'
    BY <1>1, <1>2, <1>3, <2>1, DealsWithOwn
  <2>3. Holds(t, fd)
    BY <1>2, <1>3, <2>1 DEF ChatInv, Handed
  <2>4. FilesHeld'
    <3>1. File # t /\ Nobody # File
      BY DEF Peers
    <3>2. \A u \in Peers : thread_file[u] # NoFd => thread_file[u] # fd /\ thread_file[u] \in Fds
      BY <2>1, <2>3, <3>1 DEF ChatInv, ChatTyped, FilesHeld, Holds
    <3> QED
      BY <1>1, <1>5, <2>1, <3>2 DEF ChatInv, FilesHeld
  <2> HIDE DEF fd
  <2>5. \A u \in Peers \ {t} : \A g : Holds(u, g) => Holds(u, g)'
    <3> SUFFICES ASSUME NEW u \in Peers \ {t}, NEW g, Holds(u, g), NEW f \in Fds
                 PROVE  descriptors'[f] = u <=> f = g
      BY DEF Holds
    <3>1. u # Nobody
      BY DEF Peers
    <3> QED
      BY <1>5, <2>3, <3>1 DEF Holds
  <2>6. Holds(t, NoFd)'
    <3>1. t # Nobody /\ NoFd \notin Fds
      BY DEF Peers, Fds
    <3> QED
      BY <1>5, <2>3, <3>1 DEF Holds
  <2>7. main_at = "create" => Accepted \in Peers \ {t}
    BY <1>3 DEF ChatInv, Threads, AcceptedInOrder, Peers
  <2>8. /\ main_at = "create" => Holds(Accepted, client_socketfd)
        /\ \A u \in Peers \ {t} : thread_at'[u] = "start" => main_at # "create" /\ Holds(u, client_socketfd)
        /\ \A u \in Peers \ {t} : thread_at'[u] \in Working => Holds(u, thread_fd[u])
        /\ \A u \in Peers \ {t} : thread_at'[u] = "done" => Holds(u, NoFd)
    BY <1>3, <2>1 DEF ChatInv, Handed
  <2>9. main_at' = main_at /\ client_socketfd' = client_socketfd /\ thread_fd' = thread_fd
    BY <1>1 DEF mainVars
  <2>10. /\ main_at' = "create" => Holds(Accepted, client_socketfd)'
         /\ \A u \in Peers : thread_at'[u] = "start" => main_at' # "create" /\ Holds(u, client_socketfd)'
         /\ \A u \in Peers : thread_at'[u] \in Working => Holds(u, thread_fd[u])'
         /\ \A u \in Peers : thread_at'[u] = "done" => Holds(u, NoFd)'
    BY <1>2, <1>3, <2>5, <2>6, <2>7, <2>8, <2>9
  <2> QED
    BY <2>2, <2>4, <2>10 DEF Handed
<1> QED
  BY <1>3, <1>5, <1>6, <1>7 DEF ChatInv

\* The steps of a thread.
LEMMA ThreadKeepsInv ==
  ASSUME ChatInv, NEW t \in Peers, thread_funct(t)
  PROVE  ChatInv'
<1>1. {"question", "again", "service", "close"} \subseteq Working
  BY DEF Working
<1>2. CASE Answer(t)
  <2>1. PICK to \in {"again", "service"} : ThreadGoes(t, "question", to)
    BY <1>2 DEF Answer
  <2> QED
    BY <1>1, <1>2, <2>1, DealKeepsInv DEF Answer
<1>3. CASE Again(t)
  <2>1. PICK to \in {"again", "service"} : ThreadGoes(t, "again", to)
    BY <1>3 DEF Again
  <2> QED
    BY <1>1, <1>3, <2>1, DealKeepsInv DEF Again
<1>4. CASE Serve(t)
  <2>1. PICK to \in {"service", "close"} : ThreadGoes(t, "service", to)
    BY <1>4 DEF Serve
  <2> QED
    BY <1>1, <1>4, <2>1, DealKeepsInv DEF Serve
<1>5. CASE OpenFile(t) \/ LeakFile(t)
  BY <1>5, OpenKeepsInv, NoFileKeepsInv DEF OpenFile, LeakFile
<1> QED
  BY <1>2, <1>3, <1>4, <1>5, StartKeepsInv, NoAnswerKeepsInv, CloseKeepsInv, CloseFileKeepsInv
  DEF thread_funct

\* The invariant of the server holds in every state.
LEMMA ChatInvHolds == ChatSpec => []ChatInv
<1>1. ASSUME ChatInit
      PROVE  ChatInv
  <2>1. ChatTyped
    BY <1>1 DEF ChatInit, ChatTyped
  <2>2. Accepted = 0
    <3>1. {p \in Peers : peer[p] # "away"} = {}
      BY <1>1 DEF ChatInit
    <3> QED
      BY <3>1, FS_EmptySet DEF Accepted
  <2>3. AcceptedInOrder
    BY <1>1, <2>2 DEF ChatInit, AcceptedInOrder, Peers
  <2>4. Threads
    BY <1>1, <2>2 DEF ChatInit, Threads, Peers
  <2>5. Handed /\ FilesHeld /\ OwnDeals
    BY <1>1 DEF ChatInit, Handed, FilesHeld, OwnDeals, Working
  <2> QED
    BY <2>1, <2>3, <2>4, <2>5 DEF ChatInv
<1>2. ASSUME ChatInv, UNCHANGED chatVars
      PROVE  ChatInv'
  <2>1. Accepted' = Accepted
    BY <1>2 DEF chatVars, mainVars, Accepted
  <2>2. ChatTyped' /\ AcceptedInOrder' /\ Threads'
    BY <1>2, <2>1 DEF chatVars, mainVars, ChatInv, ChatTyped, AcceptedInOrder, Threads
  <2> QED
    BY <1>2, <2>1, <2>2 DEF chatVars, mainVars, ChatInv, Undisturbed, Handed, Holds, FilesHeld, OwnDeals
<1>3. ChatInv /\ [ChatNext]_chatVars => ChatInv'
  BY <1>2, AcceptKeepsInv, CreateKeepsInv, EndKeepsInv, HangupKeepsInv, ThreadKeepsInv DEF ChatNext
<1> QED
  BY <1>1, <1>3, PTL DEF ChatSpec

\* For every number of clients and descriptors: as long as no thread was overtaken
\* before it read main()'s variable and none went on after its first close(), each
\* deals with its own client only, and each open connection has a thread that is
\* not done.
THEOREM OwnClientUnlessOvertakenHolds == ChatSpec => []OwnClientUnlessOvertaken
<1>1. ASSUME ChatInv, Undisturbed, main_at # "ended", NEW f \in Fds, ClientOf(f) # Nobody
      PROVE  \/ main_at = "create" /\ client_socketfd = f
             \/ LET t == ClientOf(f) IN
                thread_at[t] = "start" \/ (thread_at[t] # "done" /\ thread_fd[t] = f)
  <2> DEFINE t == ClientOf(f)
  <2>1. t \in Peers /\ descriptors[f] = t /\ t <= Accepted /\ Accepted \in Int
    BY <1>1 DEF ClientOf, ChatInv, ChatTyped, AcceptedInOrder
  <2> HIDE DEF t
  <2>2. CASE thread_at[t] = "none"
    <3>1. main_at = "create" /\ t = Accepted
      BY <1>1, <2>1, <2>2 DEF ChatInv, Threads, Peers
    <3> QED
      BY <1>1, <2>1, <3>1 DEF ChatInv, Handed, Holds
  <2>3. CASE thread_at[t] \in Working
    <3>1. thread_fd[t] = f
      BY <1>1, <2>1, <2>3 DEF ChatInv, Handed, Holds
    <3> QED
      BY <2>3, <3>1 DEF Working, t
  <2>4. CASE thread_at[t] = "done"
    <3>1. Holds(t, NoFd) /\ NoFd \notin Fds
      BY <1>1, <2>1, <2>4 DEF ChatInv, Handed, Fds
    <3> QED
      BY <2>1, <3>1 DEF Holds
  <2>5. thread_at[t] \in {"none", "start", "done"} \cup Working
    BY <1>1, <2>1 DEF ChatInv, ChatTyped
  <2> QED
    BY <2>2, <2>3, <2>4, <2>5 DEF t
<1>2. ChatInv => OwnClientUnlessOvertaken
  BY <1>1 DEF OwnClientUnlessOvertaken, ChatInv, Undisturbed, OwnDeals
<1> QED
  BY <1>2, ChatInvHolds, PTL

HIDE ChatAssumption

-----------------------------------------------------------------------------
(* What a removal by value takes of the list of LinkedListApi.c.           *)

\* One more node of a run, or the first of another.
LEMMA RunGrows ==
  ASSUME NEW s, NEW i \in Nat
  PROVE  /\ RunOf(s, i) \in Nat
         /\ RunOf(s, i + 1) = IF i > 0 /\ s[i + 1] = s[i] THEN RunOf(s, i) + 1 ELSE 1
<1> DEFINE Run(k) == {j \in 1 .. k : \A n \in j .. k : s[n] = s[k]}
<1>1. IsFiniteSet(Run(i)) /\ Cardinality(Run(i)) \in Nat
  <2>1. IsFiniteSet(1 .. i) /\ Run(i) \in SUBSET (1 .. i)
    BY FS_Interval
  <2> QED
    BY <2>1, FS_Subset, FS_CardinalityType
<1>2. CASE i > 0 /\ s[i + 1] = s[i]
  <2>1. Run(i + 1) = Run(i) \cup {i + 1} /\ i + 1 \notin Run(i)
    BY <1>2
  <2> QED
    BY <1>1, <1>2, <2>1, FS_AddElement DEF RunOf
<1>3. CASE ~ (i > 0 /\ s[i + 1] = s[i])
  <2>1. Run(i + 1) = {i + 1}
    <3>1. ASSUME NEW j \in Run(i + 1) PROVE j = i + 1
      <4>1. j # i + 1 => i \in j .. i + 1 /\ i > 0
        OBVIOUS
      <4> QED
        BY <1>3, <4>1
    <3>2. i + 1 \in Run(i + 1)
      OBVIOUS
    <3> QED
      BY <3>1, <3>2
  <2> QED
    BY <1>1, <1>3, <2>1, FS_Singleton DEF RunOf
<1> QED
  BY <1>2, <1>3

\* The nodes that stay: after one of them, or at the head, a node of the datum
\* does not; after one that does not, every node does.
LEMMA EveryOtherIsKept ==
  ASSUME NEW s \in Seq(Data), NEW d
  PROVE  /\ \A x \in 1 .. Len(s) : s[x] # d => x \in Kept(s, d)
         /\ \A c \in 0 .. Len(s) - 1 :
              (c = 0 \/ c \in Kept(s, d)) /\ s[c + 1] = d => c + 1 \notin Kept(s, d)
         /\ \A c \in 1 .. Len(s) - 1 : c \notin Kept(s, d) => c + 1 \in Kept(s, d)
<1>1. \A x \in 1 .. Len(s) : s[x] # d => x \in Kept(s, d)
  BY DEF Kept
<1>2. ASSUME NEW c \in 0 .. Len(s) - 1, c = 0 \/ c \in Kept(s, d), s[c + 1] = d
      PROVE  c + 1 \notin Kept(s, d)
  <2>1. RunOf(s, c) \in Nat /\ RunOf(s, c + 1) = IF c > 0 /\ s[c + 1] = s[c] THEN RunOf(s, c) + 1 ELSE 1
    BY RunGrows
  <2>2. RunOf(s, c + 1) % 2 = 1
    <3>1. CASE c > 0 /\ s[c] = d
      <4>1. RunOf(s, c) % 2 = 0
        BY <1>2, <3>1 DEF Kept
      <4> QED
        BY <1>2, <2>1, <3>1, <4>1
    <3>2. CASE ~ (c > 0 /\ s[c] = d)
      BY <1>2, <2>1, <3>2
    <3> QED
      BY <3>1, <3>2
  <2> QED
    BY <1>2, <2>2 DEF Kept
<1>3. ASSUME NEW c \in 1 .. Len(s) - 1, c \notin Kept(s, d)
      PROVE  c + 1 \in Kept(s, d)
  <2>1. RunOf(s, c) \in Nat /\ RunOf(s, c + 1) = IF c > 0 /\ s[c + 1] = s[c] THEN RunOf(s, c) + 1 ELSE 1
    <3>1. c \in Nat
      OBVIOUS
    <3> QED
      BY <3>1, RunGrows
  <2>2. s[c] = d /\ RunOf(s, c) % 2 # 0
    BY <1>3 DEF Kept
  <2>3. ASSUME NEW n \in Nat, n % 2 # 0 PROVE (n + 1) % 2 = 0
    BY <2>3
  <2>4. s[c + 1] # d \/ RunOf(s, c + 1) % 2 = 0
    BY <2>1, <2>2, <2>3
  <2> QED
    BY <2>4 DEF Kept
<1> QED
  BY <1>1, <1>2, <1>3

\* How many of the first x nodes stay.
CountKept(s, d, x) == Cardinality({j \in Kept(s, d) : j <= x})

\* The count grows by one at each node that stays, and by none at the others.
LEMMA KeptAreCounted ==
  ASSUME NEW s \in Seq(Data), NEW d
  PROVE  /\ CountKept(s, d, 0) = 0 /\ CountKept(s, d, Len(s)) = Cardinality(Kept(s, d))
         /\ \A x \in Nat : CountKept(s, d, x) \in Nat /\ CountKept(s, d, x) <= x
         /\ \A x \in Nat : CountKept(s, d, x + 1) =
              IF x + 1 \in Kept(s, d) THEN CountKept(s, d, x) + 1 ELSE CountKept(s, d, x)
         /\ \A c \in Nat, x \in Kept(s, d) : x <= c => CountKept(s, d, x) \in 1 .. CountKept(s, d, c)
<1> DEFINE K == Kept(s, d)
           Up(x) == {j \in K : j <= x}
<1>1. K \subseteq 1 .. Len(s) /\ Len(s) \in Nat
  BY DEF Kept
<1> HIDE DEF K
<1>2. IsFiniteSet(K)
  <2>1. IsFiniteSet(1 .. Len(s)) /\ K \in SUBSET (1 .. Len(s))
    BY <1>1, FS_Interval
  <2> QED
    BY <2>1, FS_Subset
<1>m. \A j \in K : j \in Nat /\ j > 0
  BY <1>1
<1>3. ASSUME NEW x PROVE IsFiniteSet(Up(x)) /\ Cardinality(Up(x)) \in Nat
  <2>1. Up(x) \in SUBSET K
    OBVIOUS
  <2> HIDE DEF Up
  <2>2. IsFiniteSet(Up(x))
    BY <1>2, <2>1, FS_Subset
  <2>3. Cardinality(Up(x)) \in Nat
    BY <2>2, FS_CardinalityType
  <2> QED
    BY <2>2, <2>3
<1>4. Up(0) = {} /\ Up(Len(s)) = K
  <2>1. Up(0) = {}
    BY <1>m
  <2>2. \A j \in K : j <= Len(s)
    BY <1>1
  <2> QED
    BY <2>1, <2>2
<1>7. ASSUME NEW x \in Nat PROVE Cardinality(Up(x)) <= x
  <2>1. Up(x) \in SUBSET (1 .. x)
    BY <1>m
  <2> HIDE DEF Up
  <2>2. IsFiniteSet(1 .. x) /\ Cardinality(1 .. x) = x
    BY FS_Interval
  <2>3. Cardinality(Up(x)) <= Cardinality(1 .. x)
    BY <2>1, <2>2, FS_Subset
  <2> QED
    BY <2>2, <2>3
<1>5. ASSUME NEW x \in Nat
      PROVE  Cardinality(Up(x + 1)) = IF x + 1 \in K THEN Cardinality(Up(x)) + 1 ELSE Cardinality(Up(x))
  <2>1. CASE x + 1 \in K
    <3>1. Up(x + 1) = Up(x) \cup {x + 1} /\ x + 1 \notin Up(x)
      BY <1>m, <2>1
    <3> HIDE DEF Up
    <3> QED
      BY <1>3, <2>1, <3>1, FS_AddElement
  <2>2. CASE x + 1 \notin K
    <3>1. Up(x + 1) = Up(x)
      BY <1>m, <2>2
    <3> QED
      BY <2>2, <3>1
  <2> QED
    BY <2>1, <2>2
<1>6. ASSUME NEW c \in Nat, NEW x \in K, x <= c
      PROVE  Cardinality(Up(x)) \in 1 .. Cardinality(Up(c))
  <2>1. Up(x) \in SUBSET Up(c) /\ x \in Up(x)
    BY <1>m, <1>6
  <2> HIDE DEF Up
  <2>2. Cardinality(Up(x)) <= Cardinality(Up(c))
    BY <1>3, <2>1, FS_Subset
  <2>3. Cardinality(Up(x)) # 0
    BY <1>3, <2>1, FS_EmptySet
  <2> QED
    BY <1>3, <2>2, <2>3
<1> QED
  BY <1>3, <1>4, <1>5, <1>6, <1>7, FS_EmptySet DEF CountKept, K

\* A sequence without one of its members.
LEMMA OneLess ==
  ASSUME NEW s \in Seq(Data), NEW i \in 1 .. Len(s)
  PROVE  /\ Without(s, i) \in Seq(Data) /\ Len(Without(s, i)) = Len(s) - 1
         /\ \A k \in 1 .. i - 1 : Without(s, i)[k] = s[k]
         /\ \A k \in i .. Len(s) - 1 : Without(s, i)[k] = s[k + 1]
<1> DEFINE a == SubSeq(s, 1, i - 1)
           b == SubSeq(s, i + 1, Len(s))
<1>1. a \in Seq(Data) /\ Len(a) = i - 1 /\ \A k \in 1 .. i - 1 : a[k] = s[k]
  OBVIOUS
<1>2. b \in Seq(Data) /\ Len(b) = Len(s) - i /\ \A k \in 1 .. Len(s) - i : b[k] = s[i + k]
  OBVIOUS
<1> HIDE DEF a, b
<1>3. /\ a \o b \in Seq(Data) /\ Len(a \o b) = Len(s) - 1
      /\ \A k \in 1 .. i - 1 : (a \o b)[k] = a[k]
      /\ \A k \in i .. Len(s) - 1 : (a \o b)[k] = b[k - (i - 1)]
  <2>1. /\ a \o b \in Seq(Data) /\ Len(a \o b) = Len(a) + Len(b)
        /\ \A k \in 1 .. Len(a) + Len(b) : (a \o b)[k] = IF k <= Len(a) THEN a[k] ELSE b[k - Len(a)]
    BY <1>1, <1>2, ConcatProperties
  <2>2. /\ \A k \in 1 .. i - 1 : k \in 1 .. Len(a) + Len(b) /\ k <= Len(a)
        /\ \A k \in i .. Len(s) - 1 : k \in 1 .. Len(a) + Len(b) /\ ~ (k <= Len(a))
    BY <1>1, <1>2
  <2>3. Len(a) + Len(b) = Len(s) - 1
    BY <1>1, <1>2
  <2> QED
    BY <1>1, <2>1, <2>2, <2>3
<1>4. \A k \in i .. Len(s) - 1 : (a \o b)[k] = s[k + 1]
  <2> TAKE k \in i .. Len(s) - 1
  <2>1. k - (i - 1) \in 1 .. Len(s) - i /\ i + (k - (i - 1)) = k + 1
    OBVIOUS
  <2> QED
    BY <1>2, <1>3, <2>1
<1> QED
  BY <1>1, <1>3, <1>4 DEF Without, a, b

Results == [list : Seq(Data), dead : SUBSET Data, how : {"done", "end", "bad"}]

\* The first m nodes of the new list are those that stay of the first c nodes of
\* the old one, whose others follow.
Swept(s, d, new, m, c) ==
  /\ new \in Seq(Data) /\ m \in 0 .. Len(new) /\ c \in 0 .. Len(s)
  /\ Len(s) - c = Len(new) - m
  /\ CountKept(s, d, c) = m
  /\ \A x \in Kept(s, d) : x <= c => new[CountKept(s, d, x)] = s[x]
  /\ \A j \in 1 .. Len(new) - m : new[m + j] = s[c + j]
  /\ c = 0 \/ c \in Kept(s, d) \/ m = Len(new)

\* A node that stays: the next one is looked at.
LEMMA StayingIsSwept ==
  ASSUME NEW s \in Seq(Data), NEW d, NEW new, NEW i \in Nat, NEW c,
         i < Len(new), Swept(s, d, new, i, c), new[i + 1] # d
  PROVE  Swept(s, d, new, i + 1, c + 1)
<1>1. Len(s) \in Nat /\ Len(new) \in Nat /\ new \in Seq(Data) /\ Len(s) - c = Len(new) - i
  BY DEF Swept
<1>2. c \in 0 .. Len(s) /\ CountKept(s, d, c) = i
  BY DEF Swept
<1>3. \A x \in Kept(s, d) : x <= c => new[CountKept(s, d, x)] = s[x]
  BY DEF Swept
<1>4. \A j \in 1 .. Len(new) - i : new[i + j] = s[c + j]
  BY DEF Swept
<1>5. c + 1 \in 1 .. Len(s) /\ 1 \in 1 .. Len(new) - i /\ i + 1 \in 0 .. Len(new)
      /\ Len(s) - (c + 1) = Len(new) - (i + 1)
  BY <1>1, <1>2
<1>6. new[i + 1] = s[c + 1] /\ c + 1 \in Kept(s, d)
  <2>1. new[i + 1] = s[c + 1]
    BY <1>4, <1>5
  <2> QED
    BY <1>5, <2>1, EveryOtherIsKept
<1>7. CountKept(s, d, c + 1) = i + 1
  BY <1>2, <1>6, KeptAreCounted
<1>8. \A x \in Kept(s, d) : x <= c + 1 => new[CountKept(s, d, x)] = s[x]
  <2>1. \A x \in Kept(s, d) : x <= c + 1 => x <= c \/ x = c + 1
    BY <1>2 DEF Kept
  <2> QED
    BY <1>3, <1>6, <1>7, <2>1
<1>9. \A j \in 1 .. Len(new) - (i + 1) : new[(i + 1) + j] = s[(c + 1) + j]
  <2> TAKE j \in 1 .. Len(new) - (i + 1)
  <2>1. j + 1 \in 1 .. Len(new) - i /\ i + (j + 1) = (i + 1) + j /\ c + (j + 1) = (c + 1) + j
    BY <1>1, <1>2
  <2> QED
    BY <1>4, <2>1
<1> QED
  BY <1>1, <1>5, <1>6, <1>7, <1>8, <1>9 DEF Swept

\* A node that is removed: the one behind it, if there is one, takes its place
\* and stays.
LEMMA RemovalIsSwept ==
  ASSUME NEW s \in Seq(Data), NEW d, NEW old, NEW i \in Nat, NEW c,
         i < Len(old), Swept(s, d, old, i, c), old[i + 1] = d
  PROVE  LET new == Without(old, i + 1) IN
         IF i + 1 = Len(old) THEN Swept(s, d, new, i, c + 1) ELSE Swept(s, d, new, i + 1, c + 2)
<1> DEFINE new == Without(old, i + 1)
<1>1. Len(s) \in Nat /\ Len(old) \in Nat /\ old \in Seq(Data) /\ Len(s) - c = Len(old) - i
  BY DEF Swept
<1>2. c \in 0 .. Len(s) /\ CountKept(s, d, c) = i
  BY DEF Swept
<1>3. \A x \in Kept(s, d) : x <= c => old[CountKept(s, d, x)] = s[x]
  BY DEF Swept
<1>4. \A j \in 1 .. Len(old) - i : old[i + j] = s[c + j]
  BY DEF Swept
<1>5. i + 1 \in 1 .. Len(old) /\ (i + 1) - 1 = i
  BY <1>1
<1>6. /\ new \in Seq(Data) /\ Len(new) = Len(old) - 1
      /\ \A k \in 1 .. i : new[k] = old[k]
      /\ \A k \in i + 1 .. Len(old) - 1 : new[k] = old[k + 1]
  BY <1>1, <1>5, OneLess
<1> HIDE DEF new
<1>7. c + 1 \in 1 .. Len(s) /\ 1 \in 1 .. Len(old) - i /\ c \in 0 .. Len(s) - 1 /\ c \in Nat
      /\ c + 1 \in Nat /\ (c + 1) + 1 = c + 2
  BY <1>1, <1>2
<1>8. c + 1 \notin Kept(s, d)
  <2>1. s[c + 1] = d
    BY <1>4, <1>7
  <2>2. c = 0 \/ c \in Kept(s, d)
    BY <1>1 DEF Swept
  <2> QED
    BY <1>7, <2>1, <2>2, EveryOtherIsKept
<1>9. CountKept(s, d, c + 1) = i
  BY <1>2, <1>7, <1>8, KeptAreCounted
<1>10. \A x \in Kept(s, d) : x <= c => new[CountKept(s, d, x)] = s[x]
  <2> TAKE x \in Kept(s, d)
  <2> HAVE x <= c
  <2>1. CountKept(s, d, x) \in 1 .. i
    BY <1>2, <1>7, KeptAreCounted
  <2> QED
    BY <1>3, <1>6, <2>1
<1>11. \A x \in Kept(s, d) : x \in Nat /\ (x <= c + 1 => x <= c)
  BY <1>7, <1>8 DEF Kept
<1>12. CASE i + 1 = Len(old)
  <2>1. Len(new) = i /\ Len(s) - (c + 1) = Len(new) - i /\ 1 .. Len(new) - i = {}
    BY <1>1, <1>2, <1>6, <1>12
  <2>2. \A x \in Kept(s, d) : x <= c + 1 => new[CountKept(s, d, x)] = s[x]
    BY <1>10, <1>11
  <2>3. Swept(s, d, new, i, c + 1)
    BY <1>6, <1>7, <1>9, <2>1, <2>2 DEF Swept
  <2> QED
    BY <1>12, <2>3 DEF new
<1>13. CASE i + 1 # Len(old)
  <2>1. c + 2 \in 1 .. Len(s) /\ i + 1 \in i + 1 .. Len(old) - 1 /\ 2 \in 1 .. Len(old) - i
        /\ c + 1 \in 1 .. Len(s) - 1 /\ i + 1 \in 0 .. Len(new)
        /\ Len(s) - (c + 2) = Len(new) - (i + 1)
    BY <1>1, <1>2, <1>6, <1>13
  <2>2. c + 2 \in Kept(s, d)
    BY <1>7, <1>8, <2>1, EveryOtherIsKept
  <2>3. CountKept(s, d, c + 2) = i + 1
    BY <1>7, <1>9, <2>2, KeptAreCounted
  <2>4. new[i + 1] = s[c + 2]
    <3>1. (i + 1) + 1 = i + 2
      OBVIOUS
    <3> QED
      BY <1>4, <1>6, <2>1, <3>1
  <2>5. \A x \in Kept(s, d) : x <= c + 2 => new[CountKept(s, d, x)] = s[x]
    <3>1. \A x \in Kept(s, d) : x <= c + 2 => x <= c \/ x = c + 2
      BY <1>7, <1>11, <1>8
    <3> QED
      BY <1>10, <2>3, <2>4, <3>1
  <2>6. \A j \in 1 .. Len(new) - (i + 1) : new[(i + 1) + j] = s[(c + 2) + j]
    <3> TAKE j \in 1 .. Len(new) - (i + 1)
    <3>1. /\ (i + 1) + j \in i + 1 .. Len(old) - 1 /\ j + 2 \in 1 .. Len(old) - i
          /\ ((i + 1) + j) + 1 = i + (j + 2) /\ c + (j + 2) = (c + 2) + j
      BY <1>1, <1>6, <1>7
    <3> QED
      BY <1>4, <1>6, <3>1
  <2>7. Swept(s, d, new, i + 1, c + 2)
    BY <1>6, <2>1, <2>2, <2>3, <2>5, <2>6 DEF Swept
  <2> QED
    BY <1>13, <2>7 DEF new
<1> QED
  BY <1>12, <1>13

\* After i turns of the loop: all of the new list is swept, or its first i nodes.
SweptTo(s, d, r, i) ==
  r.how # "bad" =>
    \E c : IF r.how = "end" \/ i > Len(r.list)
           THEN Swept(s, d, r.list, Len(r.list), c)
           ELSE Swept(s, d, r.list, i, c)

\* One turn of the loop.
LEMMA VisitSweeps ==
  ASSUME NEW s \in Seq(Data), NEW d, NEW r \in Results, NEW i \in Nat \ {0}, SweptTo(s, d, r, i - 1)
  PROVE  Visit(r, i, d) \in Results /\ SweptTo(s, d, Visit(r, i, d), i)
<1>1. r.list \in Seq(Data) /\ Len(r.list) \in Nat /\ r.dead \subseteq Data
      /\ r.how \in {"done", "end", "bad"}
  BY DEF Results
<1>2. CASE r.how # "done"
  <2>1. Visit(r, i, d) = r
    BY <1>2 DEF Visit
  <2> QED
    BY <1>1, <1>2, <2>1 DEF SweptTo
<1>3. CASE r.how = "done" /\ i > Len(r.list)
  <2>1. Visit(r, i, d) = r
    BY <1>3 DEF Visit
  <2>2. i - 1 > Len(r.list) \/ i - 1 = Len(r.list)
    BY <1>1, <1>3
  <2> QED
    BY <1>1, <1>3, <2>1, <2>2 DEF SweptTo
<1>4. CASE r.how = "done" /\ i <= Len(r.list)
  <2>1. i - 1 \in Nat /\ i - 1 < Len(r.list) /\ (i - 1) + 1 = i /\ ~ (i - 1 > Len(r.list))
        /\ i \in 1 .. Len(r.list) /\ ~ (i > Len(r.list))
    BY <1>1, <1>4
  <2>2. PICK c : Swept(s, d, r.list, i - 1, c)
    BY <1>4, <2>1 DEF SweptTo
  <2>3. CASE r.list[i] # d
    <3>1. Visit(r, i, d) = r
      BY <2>3 DEF Visit
    <3>2. Swept(s, d, r.list, i, c + 1)
      BY <2>1, <2>2, <2>3, StayingIsSwept
    <3> QED
      BY <1>4, <2>1, <3>1, <3>2 DEF SweptTo
  <2>4. CASE r.list[i] = d /\ Frees(r.list, i) \cap r.dead # {}
    <3>1. Visit(r, i, d) = [r EXCEPT !.how = "bad"]
      BY <1>4, <2>1, <2>4 DEF Visit
    <3> QED
      BY <1>1, <3>1 DEF SweptTo, Results
  <2>5. CASE r.list[i] = d /\ ~ (Frees(r.list, i) \cap r.dead # {})
    <3> DEFINE new == Without(r.list, i)
               dead == r.dead \cup Frees(r.list, i)
               how == IF i = Len(r.list) THEN "end" ELSE "done"
    <3>1. Visit(r, i, d) = [list |-> new, dead |-> dead, how |-> how]
      BY <1>4, <2>1, <2>5 DEF Visit
    <3>2. new \in Seq(Data) /\ Len(new) = Len(r.list) - 1
      BY <1>1, <2>1, OneLess
    <3>3. dead \subseteq Data
      BY <1>1, <2>1 DEF Frees
    <3>4. IF i = Len(r.list) THEN Swept(s, d, new, i - 1, c + 1) ELSE Swept(s, d, new, i, c + 2)
      BY <2>1, <2>2, <2>5, RemovalIsSwept
    <3> HIDE DEF new, dead
    <3>5. CASE i = Len(r.list)
      BY <1>1, <3>1, <3>2, <3>3, <3>4, <3>5 DEF SweptTo, Results
    <3>6. CASE i # Len(r.list)
      <4>1. ~ (i > Len(new))
        BY <1>1, <2>1, <3>2, <3>6
      <4> QED
        BY <1>1, <3>1, <3>2, <3>3, <3>4, <3>6, <4>1 DEF SweptTo, Results
    <3> QED
      BY <3>5, <3>6
  <2> QED
    BY <2>3, <2>4, <2>5
<1> QED
  BY <1>1, <1>2, <1>3, <1>4

\* What is left when all of the list is swept.
LEMMA AllSwept ==
  ASSUME NEW s \in Seq(Data), NEW d, NEW new, NEW c, Swept(s, d, new, Len(new), c)
  PROVE  /\ Len(new) = Cardinality(Kept(s, d))
         /\ \A x \in Kept(s, d) : new[CountKept(s, d, x)] = s[x]
<1>1. /\ new \in Seq(Data) /\ c \in 0 .. Len(s) /\ Len(s) - c = Len(new) - Len(new)
      /\ CountKept(s, d, c) = Len(new)
      /\ \A x \in Kept(s, d) : x <= c => new[CountKept(s, d, x)] = s[x]
  BY DEF Swept
<1>2. c = Len(s) /\ Len(s) \in Nat
  BY <1>1
<1>3. \A x \in Kept(s, d) : x <= Len(s)
  BY <1>2 DEF Kept
<1> QED
  BY <1>1, <1>2, <1>3, KeptAreCounted

\* What is left by the whole loop.
LEMMA SweepKeeps ==
  ASSUME list \in Seq(Data), freed \subseteq Data, NEW d
  PROVE  /\ Sweep(d) \in Results
         /\ Sweep(d).how # "bad" =>
              /\ Len(Sweep(d).list) = Cardinality(Kept(list, d))
              /\ \A x \in Kept(list, d) : Sweep(d).list[CountKept(list, d, x)] = list[x]
<1> DEFINE L == Len(list)
           start == [list |-> list, dead |-> freed, how |-> "done"]
           visits == [i \in 1 .. L |-> [r \in Results |->
                       IF SweptTo(list, d, r, i - 1) THEN Visit(r, i, d) ELSE r]]
           Good(i) == {r \in Results : SweptTo(list, d, r, i)}
           P(f) == f = [i \in 0 .. Len(list) |->
                          IF i = 0 THEN [list |-> list, dead |-> freed, how |-> "done"]
                          ELSE Visit(f[i - 1], i, d)]
<1>1. L \in Nat /\ start \in Results
  BY DEF Results
<1>2. SweptTo(list, d, start, 0)
  <2>1. Swept(list, d, list, 0, 0)
    <3>1. CountKept(list, d, 0) = 0
      BY KeptAreCounted
    <3>2. \A x \in Kept(list, d) : ~ (x <= 0)
      BY DEF Kept
    <3> QED
      BY <1>1, <3>1, <3>2 DEF Swept
  <2> QED
    BY <1>1, <2>1 DEF SweptTo
<1>3. ASSUME NEW i \in 1 .. L, NEW r \in Good(i - 1) PROVE Visit(r, i, d) \in Good(i)
  BY <1>1, <1>3, VisitSweeps
<1>4. visits \in [1 .. L -> [Results -> Results]]
  <2>1. ASSUME NEW i \in 1 .. L, NEW r \in Results
        PROVE  (IF SweptTo(list, d, r, i - 1) THEN Visit(r, i, d) ELSE r) \in Results
    BY <1>3
  <2> QED
    BY <2>1
<1>5. \E f : P(f)
  <2> HIDE DEF visits, start, L, P, Good
  <2>0. PICK f \in [0 .. L -> Results] : LoopOf(f, start, visits, L)
    BY <1>1, <1>4, LoopExists
  <2>1. f[0] = start /\ \A i \in 1 .. L : f[i] = visits[i][f[i - 1]]
    BY <2>0 DEF LoopOf
  <2> USE DEF visits, start, L, P, Good
  <2>2. ASSUME NEW n \in 0 .. L PROVE f[n] \in Good(n)
    <3> DEFINE S == {m \in 0 .. L : f[m] \in Good(m)}
    <3>1. 0 \in S
      BY <1>1, <1>2, <2>1
    <3>2. ASSUME NEW i \in 1 .. L, i - 1 \in S PROVE i \in S
      <4>1. f[i] = Visit(f[i - 1], i, d)
        BY <2>1, <3>2
      <4> QED
        BY <1>3, <3>2, <4>1
    <3> HIDE DEF S
    <3>3. n \in S
      BY <1>1, <3>1, <3>2, AllUpTo
    <3> QED
      BY <3>3 DEF S
  <2>3. \A i \in 1 .. L : i - 1 \in 0 .. L /\ i # 0
    BY <1>1
  <2>4. \A i \in 1 .. L : f[i] = Visit(f[i - 1], i, d)
    BY <2>1, <2>2, <2>3
  <2>5. P(f)
    <3>1. \A i \in 0 .. L : f[i] = IF i = 0 THEN start ELSE Visit(f[i - 1], i, d)
      BY <1>1, <2>1, <2>4
    <3> QED
      BY <2>1, <3>1
  <2> QED
    BY <2>5
<1> DEFINE after == CHOOSE f : P(f)
<1>6. P(after)
  <2> HIDE DEF P
  <2> QED
    BY <1>5
<1>7. Sweep(d) = after[L]
  BY DEF Sweep
<1> HIDE DEF after
<1>8. after[0] = start /\ \A i \in 1 .. L : after[i] = Visit(after[i - 1], i, d)
  <2>1. \A i \in 0 .. L : after[i] = IF i = 0 THEN start ELSE Visit(after[i - 1], i, d)
    BY <1>6
  <2>2. 0 \in 0 .. L /\ \A i \in 1 .. L : i \in 0 .. L /\ i # 0
    BY <1>1
  <2> QED
    BY <2>1, <2>2
<1>9. after[L] \in Good(L)
  <2> DEFINE S == {m \in 0 .. L : after[m] \in Good(m)}
  <2>1. 0 \in S
    BY <1>1, <1>2, <1>8
  <2>2. ASSUME NEW i \in 1 .. L, i - 1 \in S PROVE i \in S
    BY <1>3, <1>8, <2>2
  <2>3. L \in 0 .. L
    BY <1>1
  <2> HIDE DEF S
  <2>4. L \in S
    BY <1>1, <2>1, <2>2, <2>3, AllUpTo
  <2> QED
    BY <2>4 DEF S
<1>10. ASSUME after[L].how # "bad" PROVE \E c : Swept(list, d, after[L].list, Len(after[L].list), c)
  <2> DEFINE new == after[L].list
  <2>1. CASE after[L].how = "end" \/ L > Len(new)
    BY <1>9, <1>10, <2>1 DEF SweptTo
  <2>2. CASE ~ (after[L].how = "end" \/ L > Len(new))
    <3>1. PICK c : Swept(list, d, new, L, c)
      BY <1>9, <1>10, <2>2 DEF SweptTo
    <3>2. c \in 0 .. L /\ CountKept(list, d, c) = L /\ L - c = Len(new) - L /\ new \in Seq(Data)
      BY <3>1 DEF Swept
    <3>3. c \in Nat
      BY <1>1, <3>2
    <3>5. CountKept(list, d, c) <= c
      BY <3>3, KeptAreCounted
    <3>4. Len(new) = L
      BY <1>1, <3>2, <3>3, <3>5
    <3> QED
      BY <3>1, <3>4
  <2> QED
    BY <2>1, <2>2
<1> QED
  BY <1>7, <1>9, <1>10, AllSwept

\* What every state without a fault satisfies.
ListInv ==
  ~faulted =>
    /\ list \in Seq(Data) /\ freed \subseteq Data
    /\ node_count = Len(list)
    /\ removal # NoRemoval =>
         /\ Len(list) = Cardinality(Kept(removal.from, removal.of))
         /\ \A x \in Kept(removal.from, removal.of) :
              list[CountKept(removal.from, removal.of, x)] = removal.from[x]

\* For any data and any length: node_count is the length of the list, and a
\* removal by value takes every other node of a run of equal ones, as long as
\* no freed block was used (singly_ll_remove_node_by_value() of LinkedListApi.c).
THEOREM RemovesEveryOtherHolds == ListSpec => []RemovesEveryOther
<1>1. ListInit => ListInv
  BY DEF ListInit, ListInv
<1>2. ASSUME ListInv, NEW d \in Data, singly_ll_add_node_by_val(d) PROVE ListInv'
  <2>1. ~faulted /\ list \in Seq(Data) /\ freed \subseteq Data /\ node_count = Len(list)
    BY <1>2 DEF ListInv, singly_ll_add_node_by_val
  <2>2. list' \in Seq(Data) /\ Len(list') = Len(list) + 1
    BY <1>2, <2>1 DEF singly_ll_add_node_by_val
  <2> QED
    BY <1>2, <2>1, <2>2 DEF ListInv, singly_ll_add_node_by_val
<1>3. ASSUME ListInv, NEW d \in Data, singly_ll_remove_node_by_value(d) PROVE ListInv'
  <2> SUFFICES ASSUME ~faulted' PROVE ListInv'
    BY DEF ListInv
  <2>1. ~faulted /\ list \in Seq(Data) /\ freed \subseteq Data /\ node_count = Len(list)
    BY <1>3 DEF ListInv, singly_ll_remove_node_by_value
  <2> DEFINE r == Sweep(d)
  <2>2. /\ list' = r.list /\ freed' = r.dead /\ removal' = [of |-> d, from |-> list]
        /\ node_count' = node_count - (Len(list) - Len(r.list))
        /\ r.how # "bad"
    BY <1>3 DEF singly_ll_remove_node_by_value
  <2> HIDE DEF r
  <2>3. /\ r \in Results
        /\ Len(r.list) = Cardinality(Kept(list, d))
        /\ \A x \in Kept(list, d) : r.list[CountKept(list, d, x)] = list[x]
    BY <2>1, <2>2, SweepKeeps DEF r
  <2>4. list' \in Seq(Data) /\ freed' \subseteq Data /\ node_count' = Len(list')
    BY <2>1, <2>2, <2>3 DEF Results
  <2>5. removal'.from = list /\ removal'.of = d
    BY <2>2
  <2> QED
    BY <2>2, <2>3, <2>4, <2>5 DEF ListInv
<1>4. ASSUME ListInv, reverse_singly_ll PROVE ListInv'
  <2>1. ~faulted /\ list \in Seq(Data) /\ freed \subseteq Data /\ node_count = Len(list)
    BY <1>4 DEF ListInv, reverse_singly_ll
  <2>2. list' \in [1 .. Len(list) -> Data] /\ Len(list) \in Nat
    BY <1>4, <2>1 DEF reverse_singly_ll
  <2>3. list' \in Seq(Data) /\ Len(list') = Len(list)
    BY <2>2, SequenceOf
  <2> QED
    BY <1>4, <2>1, <2>3 DEF ListInv, reverse_singly_ll
<1>5. ASSUME ListInv, UNCHANGED listVars PROVE ListInv'
  BY <1>5 DEF ListInv, listVars
<1>6. ListInv /\ [ListNext]_listVars => ListInv'
  BY <1>2, <1>3, <1>4, <1>5 DEF ListNext
<1>7. ListInv => RemovesEveryOther
  BY DEF ListInv, RemovesEveryOther, CountKept
<1> QED
  BY <1>1, <1>6, <1>7, PTL DEF ListSpec

-----------------------------------------------------------------------------
(* The tree of tree.c finds the first node of a key.                       *)

TreeSize == Len(data)

\* The children of a node came after it.
TreeTyped ==
  /\ data \in Seq(TreeKeys)
  /\ left \in [1 .. TreeSize -> 0 .. TreeSize] /\ right \in [1 .. TreeSize -> 0 .. TreeSize]
  /\ \A n \in 1 .. TreeSize : (left[n] = 0 \/ left[n] > n) /\ (right[n] = 0 \/ right[n] > n)

\* The sets that hold the root and, with each node, its child for the key.
ClosedFor(key) ==
  {S \in SUBSET (1 .. TreeSize) :
     /\ TreeSize # 0 => 1 \in S
     /\ \A n \in S : Child(n, key) # 0 => Child(n, key) \in S}

\* Who goes down from the root for the key of a node comes by that node.
OnItsWay == \A n \in 1 .. TreeSize : \A S \in ClosedFor(data[n]) : n \in S

TreeInv == TreeTyped /\ OnItsWay

\* The loop of add_tree_node() ends at a node that it comes by, and that has no
\* child for the key.
LEMMA ParentIsOnTheWay ==
  ASSUME TreeInv, TreeSize # 0, NEW key \in TreeKeys
  PROVE  /\ ParentFor(key) \in 1 .. TreeSize /\ Child(ParentFor(key), key) = 0
         /\ \A S \in ClosedFor(key) : ParentFor(key) \in S
<1> DEFINE D == 1 .. TreeSize
           step == [n \in D |-> IF Child(n, key) = 0 THEN n ELSE Child(n, key)]
           rank == [n \in D |-> TreeSize - n]
           P(f) == f = [n \in 1 .. Len(data) |-> IF Child(n, key) = 0 THEN n ELSE f[Child(n, key)]]
           Walk(f) == \A n \in D : f[n] = IF step[n] = n THEN n ELSE f[step[n]]
<1>1. TreeSize \in Nat /\ 1 \in D
  BY DEF TreeInv, TreeTyped, TreeSize
<1>2. \A n \in D : Child(n, key) \in 0 .. TreeSize /\ (Child(n, key) = 0 \/ Child(n, key) > n)
  BY <1>1 DEF TreeInv, TreeTyped, Child
<1>3. step \in [D -> D] /\ rank \in [D -> 0 .. TreeSize] /\ TreeSize \in Nat
  BY <1>1, <1>2
<1>n. \A n \in D : step[n] # n => rank[step[n]] < rank[n]
  BY <1>1, <1>2
<1>4. \E f : P(f)
  <2>1. PICK f \in [D -> D] : Walk(f)
    <3> HIDE DEF D, step, rank
    <3> QED
      BY <1>n, <1>3, WalkExists
  <2>2. \A n \in D : f[n] = IF Child(n, key) = 0 THEN n ELSE f[Child(n, key)]
    BY <1>2, <2>1
  <2>3. P(f)
    BY <2>2 DEF TreeSize
  <2> QED
    BY <2>3
<1> DEFINE down == CHOOSE f : P(f)
<1>5. P(down)
  <2> HIDE DEF P
  <2> QED
    BY <1>4
<1>6. ParentFor(key) = down[1]
  BY DEF ParentFor
<1> HIDE DEF down
<1>7. Walk(down)
  <2>1. \A n \in D : down[n] = IF Child(n, key) = 0 THEN n ELSE down[Child(n, key)]
    BY <1>5 DEF TreeSize
  <2> QED
    BY <1>2, <2>1
<1> HIDE DEF P
<1>8. ASSUME NEW S, S \subseteq D, \A n \in S : step[n] \in S, 1 \in S
      PROVE  down[1] \in S /\ step[down[1]] = down[1]
  <2> HIDE DEF D, step, rank
  <2> QED
    BY <1>n, <1>1, <1>3, <1>7, <1>8, WalkEnds
<1>9. down[1] \in D /\ Child(down[1], key) = 0
  <2>1. \A n \in D : step[n] \in D
    BY <1>3
  <2>2. down[1] \in D /\ step[down[1]] = down[1]
    BY <1>1, <1>8, <2>1
  <2> QED
    BY <1>2, <2>2
<1>10. ASSUME NEW S \in ClosedFor(key) PROVE down[1] \in S
  <2>1. S \subseteq D /\ 1 \in S /\ \A n \in S : Child(n, key) # 0 => Child(n, key) \in S
    BY <1>10 DEF ClosedFor
  <2>2. \A n \in S : step[n] \in S
    BY <2>1
  <2> QED
    BY <1>8, <2>1, <2>2
<1> QED
  BY <1>6, <1>9, <1>10

\* A function on 1 .. N with one more value.
LEMMA OneMore ==
  ASSUME NEW N \in Nat, NEW low \in [1 .. N -> 0 .. N + 1]
  PROVE  /\ Append(low, 0) \in [1 .. N + 1 -> 0 .. N + 1]
         /\ Append(low, 0)[N + 1] = 0
         /\ \A n \in 1 .. N : Append(low, 0)[n] = low[n]
<1>1. low \in Seq(0 .. N + 1) /\ Len(low) = N /\ 0 \in 0 .. N + 1
  BY SequenceOf
<1>2. /\ Append(low, 0) \in Seq(0 .. N + 1) /\ Len(Append(low, 0)) = N + 1
      /\ Append(low, 0)[N + 1] = 0
      /\ \A n \in 1 .. N : Append(low, 0)[n] = low[n]
  BY <1>1, AppendProperties
<1> QED
  BY <1>2, LenProperties

\* add_tree_node() puts a node below another, or makes it the root.
LEMMA AddKeepsInv ==
  ASSUME TreeInv, NEW key \in TreeKeys, add_tree_node(key)
  PROVE  TreeInv'
<1> DEFINE node == TreeSize + 1
<1>1. TreeSize \in Nat /\ TreeSize' = node /\ data' \in Seq(TreeKeys) /\ data' = Append(data, key)
  BY DEF TreeInv, TreeTyped, TreeSize, add_tree_node
<1>2. data'[node] = key /\ \A n \in 1 .. TreeSize : data'[n] = data[n]
  BY <1>1 DEF TreeInv, TreeTyped, TreeSize
<1>3. CASE TreeSize = 0
  <2>1. left' = <<0>> /\ right' = <<0>>
    BY <1>3 DEF add_tree_node, TreeSize, TreeInv, TreeTyped
  <2>2. TreeTyped'
    BY <1>1, <1>3, <2>1 DEF TreeTyped
  <2>3. OnItsWay'
    BY <1>1, <1>3 DEF OnItsWay, ClosedFor
  <2> QED
    BY <2>2, <2>3 DEF TreeInv
<1>4. CASE TreeSize # 0
  <2>1. PICK p \in 1 .. TreeSize : /\ p = ParentFor(key) /\ Child(p, key) = 0
                                /\ \A S \in ClosedFor(key) : p \in S
    BY <1>4, ParentIsOnTheWay
  <2>2. IF key < data[p]
        THEN left' = Append([left EXCEPT ![p] = node], 0) /\ right' = Append(right, 0)
        ELSE right' = Append([right EXCEPT ![p] = node], 0) /\ left' = Append(left, 0)
    BY <1>4, <2>1 DEF add_tree_node, TreeSize, TreeInv, TreeTyped
  <2>5. left \in [1 .. TreeSize -> 0 .. TreeSize] /\ right \in [1 .. TreeSize -> 0 .. TreeSize]
    BY DEF TreeInv, TreeTyped
  <2> DEFINE lower(f) == [f EXCEPT ![p] = node]
  <2>6. \A f \in [1 .. TreeSize -> 0 .. TreeSize] :
          /\ f \in [1 .. TreeSize -> 0 .. node] /\ lower(f) \in [1 .. TreeSize -> 0 .. node]
          /\ lower(f)[p] = node /\ \A n \in 1 .. TreeSize : n # p => lower(f)[n] = f[n]
    BY <1>1, <2>1
  <2> HIDE DEF lower
  <2>7. /\ left' \in [1 .. node -> 0 .. node] /\ left'[node] = 0
        /\ right' \in [1 .. node -> 0 .. node] /\ right'[node] = 0
        /\ \A n \in 1 .. TreeSize : left'[n] = left[n] \/ (key < data[p] /\ n = p /\ left'[n] = node)
        /\ \A n \in 1 .. TreeSize :
             right'[n] = right[n] \/ (~ (key < data[p]) /\ n = p /\ right'[n] = node)
        /\ IF key < data[p] THEN left'[p] = node ELSE right'[p] = node
    <3>1. CASE key < data[p]
      <4>1. left' = Append(lower(left), 0) /\ right' = Append(right, 0)
        BY <2>2, <3>1 DEF lower
      <4>2. /\ lower(left) \in [1 .. TreeSize -> 0 .. TreeSize + 1]
            /\ right \in [1 .. TreeSize -> 0 .. TreeSize + 1]
        BY <2>5, <2>6
      <4>3. /\ left' \in [1 .. node -> 0 .. node] /\ left'[node] = 0
            /\ \A n \in 1 .. TreeSize : left'[n] = lower(left)[n]
        BY <1>1, <4>1, <4>2, OneMore
      <4>4. /\ right' \in [1 .. node -> 0 .. node] /\ right'[node] = 0
            /\ \A n \in 1 .. TreeSize : right'[n] = right[n]
        BY <1>1, <4>1, <4>2, OneMore
      <4>5. /\ left'[p] = node
            /\ \A n \in 1 .. TreeSize : left'[n] = left[n] \/ (n = p /\ left'[n] = node)
        BY <2>1, <2>5, <2>6, <4>3
      <4> QED
        BY <3>1, <4>3, <4>4, <4>5
    <3>2. CASE ~ (key < data[p])
      <4>1. right' = Append(lower(right), 0) /\ left' = Append(left, 0)
        BY <2>2, <3>2 DEF lower
      <4>2. /\ lower(right) \in [1 .. TreeSize -> 0 .. TreeSize + 1]
            /\ left \in [1 .. TreeSize -> 0 .. TreeSize + 1]
        BY <2>5, <2>6
      <4>3. /\ right' \in [1 .. node -> 0 .. node] /\ right'[node] = 0
            /\ \A n \in 1 .. TreeSize : right'[n] = lower(right)[n]
        BY <1>1, <4>1, <4>2, OneMore
      <4>4. /\ left' \in [1 .. node -> 0 .. node] /\ left'[node] = 0
            /\ \A n \in 1 .. TreeSize : left'[n] = left[n]
        BY <1>1, <4>1, <4>2, OneMore
      <4>5. /\ right'[p] = node
            /\ \A n \in 1 .. TreeSize : right'[n] = right[n] \/ (n = p /\ right'[n] = node)
        BY <2>1, <2>5, <2>6, <4>3
      <4> QED
        BY <3>2, <4>3, <4>4, <4>5
    <3> QED
      BY <3>1, <3>2
  <2>8. \A n \in 1 .. node : n \in 1 .. TreeSize \/ n = node
    BY <1>1
  <2>9. TreeTyped'
    <3>1. ASSUME NEW n \in 1 .. TreeSize
          PROVE  (left'[n] = 0 \/ left'[n] > n) /\ (right'[n] = 0 \/ right'[n] > n)
      <4>1. (left[n] = 0 \/ left[n] > n) /\ (right[n] = 0 \/ right[n] > n) /\ node > n
        BY <1>1 DEF TreeInv, TreeTyped
      <4> QED
        BY <2>7, <4>1
    <3>2. \A n \in 1 .. node : (left'[n] = 0 \/ left'[n] > n) /\ (right'[n] = 0 \/ right'[n] > n)
      BY <2>7, <2>8, <3>1
    <3> QED
      BY <1>1, <2>7, <3>2 DEF TreeTyped
  <2>10. ASSUME NEW k \in TreeKeys, NEW S \in ClosedFor(k)'
         PROVE  S \cap (1 .. TreeSize) \in ClosedFor(k)
    <3>1. 1 \in S \cap (1 .. TreeSize)
      BY <1>1, <1>4, <2>10 DEF ClosedFor
    <3>2. ASSUME NEW n \in S \cap (1 .. TreeSize), Child(n, k) # 0
          PROVE  Child(n, k) \in S \cap (1 .. TreeSize)
      <4>1. Child(n, k) \in 1 .. TreeSize
        BY <1>1, <3>2, <2>5 DEF Child
      <4>2. Child(n, k)' = Child(n, k)
        <5>1. data'[n] = data[n]
          BY <1>2
        <5>2. CASE k < data[n]
          <6>1. left[n] # 0
            BY <3>2, <5>2 DEF Child
          <6>2. ~ (n = p /\ key < data[p])
            BY <2>1, <6>1 DEF Child
          <6> QED
            BY <2>7, <5>1, <5>2, <6>2 DEF Child
        <5>3. CASE ~ (k < data[n])
          <6>1. right[n] # 0
            BY <3>2, <5>3 DEF Child
          <6>2. ~ (n = p /\ ~ (key < data[p]))
            BY <2>1, <6>1 DEF Child
          <6> QED
            BY <2>7, <5>1, <5>3, <6>2 DEF Child
        <5> QED
          BY <5>2, <5>3
      <4>3. Child(n, k)' # 0 => Child(n, k)' \in S
        BY <2>10, <3>2 DEF ClosedFor
      <4> QED
        BY <3>2, <4>1, <4>2, <4>3
    <3> QED
      BY <3>1, <3>2 DEF ClosedFor
  <2>11. OnItsWay'
    <3> SUFFICES ASSUME NEW n \in 1 .. node, NEW S \in ClosedFor(data[n])' PROVE n \in S
      BY <1>1 DEF OnItsWay
    <3>1. data'[n] \in TreeKeys
      BY <1>1 DEF TreeSize
    <3>2. CASE n \in 1 .. TreeSize
      <4>1. S \cap (1 .. TreeSize) \in ClosedFor(data[n])
        BY <1>2, <2>10, <3>1, <3>2
      <4> QED
        BY <3>2, <4>1 DEF TreeInv, OnItsWay
    <3>3. CASE n = node
      <4>1. S \in ClosedFor(key)'
        BY <1>2, <3>3
      <4>2. p \in S
        BY <2>1, <2>10, <4>1
      <4>3. Child(p, key)' = node
        BY <1>1, <1>2, <2>1, <2>7 DEF Child
      <4> QED
        BY <1>1, <3>3, <4>1, <4>2, <4>3 DEF ClosedFor
    <3> QED
      BY <2>8, <3>2, <3>3
  <2> QED
    BY <2>9, <2>11 DEF TreeInv
<1> QED
  BY <1>1, <1>3, <1>4

\* The types and the ways hold in every state.
THEOREM TreeInvHolds == TreeSpec => []TreeInv
<1>1. init_tree => TreeInv
  <2> SUFFICES ASSUME init_tree PROVE TreeInv
    OBVIOUS
  <2>1. data = <<>> /\ left = <<>> /\ right = <<>> /\ TreeSize = 0
    BY DEF init_tree, TreeSize
  <2>2. TreeTyped
    BY <2>1 DEF TreeTyped
  <2>3. OnItsWay
    BY <2>1 DEF OnItsWay
  <2> QED
    BY <2>2, <2>3 DEF TreeInv
<1>2. ASSUME TreeInv, UNCHANGED treeVars PROVE TreeInv'
  <2>1. TreeSize' = TreeSize /\ TreeTyped'
    BY <1>2 DEF treeVars, TreeSize, TreeInv, TreeTyped
  <2>2. ASSUME NEW key PROVE ClosedFor(key)' = ClosedFor(key)
    BY <1>2, <2>1 DEF treeVars, ClosedFor, Child
  <2>3. OnItsWay'
    BY <1>2, <2>1, <2>2 DEF treeVars, TreeInv, OnItsWay
  <2> QED
    BY <2>1, <2>3 DEF TreeInv
<1>3. TreeInv /\ [TreeNext]_treeVars => TreeInv'
  BY <1>2, AddKeepsInv DEF TreeNext
<1> QED
  BY <1>1, <1>3, PTL DEF TreeSpec

\* The loop of tree_lookup() goes where add_tree_node() went, and stops at the
\* first node of the key on its way.
LEMMA LookupEnds ==
  ASSUME TreeInv, TreeSize # 0, NEW key \in TreeKeys
  PROVE  \E find :
           /\ tree_lookup(key) = find[1] /\ find[1] \in 0 .. TreeSize
           /\ find[0] = 0
           /\ \A n \in 1 .. TreeSize :
                find[n] = IF data[n] = key THEN n ELSE find[Child(n, key)]
           /\ find[1] # 0 => data[find[1]] = key
<1> DEFINE D == 0 .. TreeSize
           stops(n) == n = 0 \/ data[n] = key
           step == [n \in D |-> IF stops(n) THEN n ELSE Child(n, key)]
           rank == [n \in D |-> IF n = 0 THEN 0 ELSE TreeSize + 1 - n]
           P(f) == f = [n \in 0 .. Len(data) |->
                          IF n = 0 THEN 0
                          ELSE IF data[n] = key THEN n
                          ELSE IF data[n] < key THEN f[right[n]] ELSE f[left[n]]]
           Walk(f) == \A n \in D : f[n] = IF step[n] = n THEN n ELSE f[step[n]]
<1>1. TreeSize \in Nat /\ 1 \in D /\ TreeSize + 1 \in Nat
  BY DEF TreeInv, TreeTyped, TreeSize
<1>2. \A n \in 1 .. TreeSize :
        /\ data[n] \in Int /\ key \in Int
        /\ Child(n, key) \in 0 .. TreeSize /\ (Child(n, key) = 0 \/ Child(n, key) > n)
        /\ data[n] # key => Child(n, key) = IF data[n] < key THEN right[n] ELSE left[n]
  <2>1. \A n \in 1 .. TreeSize : data[n] \in TreeKeys
    BY DEF TreeInv, TreeTyped, TreeSize
  <2>2. \A n \in 1 .. TreeSize : data[n] \in Int /\ key \in Int
    BY <2>1, TreeAssumption
  <2> QED
    BY <1>1, <2>2 DEF TreeInv, TreeTyped, Child
<1>3. step \in [D -> D] /\ rank \in [D -> 0 .. TreeSize + 1]
  BY <1>1, <1>2
<1>4. \A n \in D : step[n] # n => rank[step[n]] < rank[n]
  BY <1>1, <1>2
<1>5. \E f : P(f)
  <2>1. PICK f \in [D -> D] : Walk(f)
    <3> HIDE DEF D, step, rank
    <3> QED
      BY <1>1, <1>3, <1>4, WalkExists
  <2>2. \A n \in D : f[n] = IF n = 0 THEN 0
                            ELSE IF data[n] = key THEN n
                            ELSE IF data[n] < key THEN f[right[n]] ELSE f[left[n]]
    BY <1>2, <2>1
  <2>3. P(f)
    BY <2>2 DEF TreeSize
  <2> QED
    BY <2>3
<1> DEFINE find == CHOOSE f : P(f)
<1>6. P(find)
  <2> HIDE DEF P
  <2> QED
    BY <1>5
<1>7. tree_lookup(key) = find[1]
  BY DEF tree_lookup, TreeSize, TreeInv, TreeTyped
<1> HIDE DEF find
<1>8. \A n \in D : find[n] = IF n = 0 THEN 0
                             ELSE IF data[n] = key THEN n
                             ELSE IF data[n] < key THEN find[right[n]] ELSE find[left[n]]
  BY <1>6 DEF TreeSize
<1> HIDE DEF P
<1>9. Walk(find)
  BY <1>2, <1>8
<1>10. find[1] \in D /\ step[find[1]] = find[1]
  <2>1. \A n \in D : step[n] \in D
    BY <1>3
  <2>2. ASSUME NEW S, S \subseteq D, \A n \in S : step[n] \in S, 1 \in S
        PROVE  find[1] \in S /\ step[find[1]] = find[1]
    <3> HIDE DEF D, step, rank
    <3> QED
      BY <1>1, <1>3, <1>4, <1>9, <2>2, WalkEnds
  <2> QED
    BY <1>1, <2>1, <2>2
<1>11. find[1] \in 0 .. TreeSize /\ (find[1] # 0 => data[find[1]] = key)
  <2>1. \A n \in 1 .. TreeSize : data[n] # key => step[n] # n
    BY <1>2
  <2> QED
    BY <1>1, <1>10, <2>1
<1>12. find[0] = 0
  BY <1>1, <1>8
<1>13. \A n \in 1 .. TreeSize : find[n] = IF data[n] = key THEN n ELSE find[Child(n, key)]
  <2>1. \A n \in 1 .. TreeSize : n \in D /\ n # 0
    BY <1>1
  <2> QED
    BY <1>2, <1>8, <2>1
<1> QED
  BY <1>7, <1>11, <1>12, <1>13

\* For any number of nodes and any keys, in whatever order they come: a lookup
\* finds a key that was added, at the first node that was added with it, and no
\* other (add_tree_node() and tree_lookup() of tree.c).
THEOREM TreeFindsFirstHolds == TreeSpec => []TreeFindsFirst
<1>1. ASSUME TreeInv, TreeSize = 0, NEW key \in TreeKeys
      PROVE  tree_lookup(key) = 0 /\ ~ \E n \in 1 .. Len(data) : data[n] = key
  BY <1>1 DEF tree_lookup, TreeSize, TreeInv, TreeTyped
<1>2. ASSUME TreeInv, TreeSize # 0, NEW key \in TreeKeys
      PROVE  LET found == tree_lookup(key) IN
             IF \E n \in 1 .. Len(data) : data[n] = key
             THEN found # 0 /\ data[found] = key /\ \A n \in 1 .. found - 1 : data[n] # key
             ELSE found = 0
  <2>1. PICK find : /\ tree_lookup(key) = find[1] /\ find[1] \in 0 .. TreeSize
                    /\ find[0] = 0
                    /\ \A n \in 1 .. TreeSize :
                         find[n] = IF data[n] = key THEN n ELSE find[Child(n, key)]
                    /\ find[1] # 0 => data[find[1]] = key
    BY <1>2, LookupEnds
  <2> DEFINE found == find[1]
             \* Who goes down the tree for the key without stopping at found.
             S == {n \in 1 .. TreeSize : find[n] = found \/ (found # 0 /\ n > found)}
  <2>2. TreeSize \in Nat /\ TreeSize = Len(data) /\ 1 \in S
    BY <1>2 DEF TreeInv, TreeTyped, TreeSize
  <2>3. ASSUME NEW n \in S, Child(n, key) # 0 PROVE Child(n, key) \in S
    <3>1. Child(n, key) \in 1 .. TreeSize /\ Child(n, key) > n /\ n \in 1 .. TreeSize
      BY <1>2, <2>2, <2>3 DEF TreeInv, TreeTyped, Child
    <3>2. CASE found # 0 /\ n > found
      BY <2>1, <3>1, <3>2
    <3>3. CASE find[n] = found /\ data[n] = key
      BY <2>1, <3>1, <3>3
    <3>4. CASE find[n] = found /\ data[n] # key
      BY <2>1, <3>1, <3>4
    <3> QED
      BY <3>2, <3>3, <3>4
  <2>4. S \in ClosedFor(key)
    BY <2>2, <2>3 DEF ClosedFor
  <2>5. ASSUME NEW n \in 1 .. TreeSize, data[n] = key PROVE found # 0 /\ found <= n
    <3>1. n \in S
      BY <1>2, <2>4, <2>5 DEF TreeInv, OnItsWay
    <3>2. find[n] = n
      BY <2>1, <2>5
    <3> QED
      BY <2>1, <2>5, <3>1, <3>2
  <2>6. \A n \in 1 .. found - 1 : data[n] # key
    BY <2>1, <2>2, <2>5
  <2> HIDE DEF S
  <2> QED
    BY <2>1, <2>2, <2>5, <2>6
<1>3. TreeInv => TreeFindsFirst
  <2>1. TreeInv => TreeSize = 0 \/ TreeSize # 0
    OBVIOUS
  <2> QED
    BY <1>1, <1>2, <2>1 DEF TreeFindsFirst
<1> QED
  BY <1>3, TreeInvHolds, PTL

-----------------------------------------------------------------------------
(* What create_c.c writes and file_read.c finds.                           *)

\* A number below the modulus is its own remainder.
LEMMA SmallIsItself ==
  ASSUME NEW x \in Nat, NEW K \in Nat, x < K
  PROVE  x % K = x
  OBVIOUS

\* What the search of read_content() finds is there.
LEMMA FoundStands ==
  ASSUME NEW word \in Seq(STRING), WordFound(word)
  PROVE  \E k \in 0 .. Len(COMMANDS_TXT) - Len(word) :
           \A i \in 1 .. Len(word) : COMMANDS_TXT[k + i] = word[i]
<1> DEFINE L == Len(COMMANDS_TXT)
           N == Len(word)
           fit(x, n) == IF x = N THEN N ELSE IF word[x + 1] = COMMANDS_TXT[n] THEN x + 1 ELSE 0
           turn == [n \in 1 .. L |-> [x \in 0 .. N |-> fit(x, n)]]
           P(f) == f = [n \in 0 .. Len(COMMANDS_TXT) |->
                          IF n = 0 THEN 0
                          ELSE IF f[n - 1] = Len(word) THEN Len(word)
                          ELSE IF word[f[n - 1] + 1] = COMMANDS_TXT[n] THEN f[n - 1] + 1 ELSE 0]
           \* x letters of the word end the first n characters, or all of it is there.
           Ends(x, n) == \E k \in 0 .. n - x : /\ x < N => k = n - x
                                               /\ \A i \in 1 .. x : COMMANDS_TXT[k + i] = word[i]
<1>1. L \in Nat /\ N \in Nat /\ 0 \in 0 .. N /\ 0 \in 0 .. L /\ L \in 0 .. L
  BY TextAssumption
<1>2. turn \in [1 .. L -> [0 .. N -> 0 .. N]]
  BY <1>1
<1>3. \A f \in [0 .. L -> 0 .. N] : LoopOf(f, 0, turn, L) => P(f)
  <2> SUFFICES ASSUME NEW f \in [0 .. L -> 0 .. N], LoopOf(f, 0, turn, L) PROVE P(f)
    OBVIOUS
  <2>1. f[0] = 0 /\ \A n \in 1 .. L : f[n] = turn[n][f[n - 1]]
    BY DEF LoopOf
  <2>2. ASSUME NEW n \in 1 .. L PROVE n # 0 /\ f[n] = fit(f[n - 1], n)
    <3>1. n - 1 \in 0 .. L /\ n # 0
      BY <1>1
    <3>2. f[n - 1] \in 0 .. N
      BY <3>1
    <3> QED
      BY <2>1, <3>1, <3>2
  <2>3. \A n \in 0 .. L : n = 0 \/ n \in 1 .. L
    BY <1>1
  <2>4. \A n \in 0 .. L : f[n] = IF n = 0 THEN 0 ELSE fit(f[n - 1], n)
    <3> HIDE DEF fit, turn
    <3> QED
      BY <2>1, <2>2, <2>3
  <2> QED
    BY <2>4
<1>4. \E f : P(f)
  <2> HIDE DEF turn, L, N, P
  <2>1. \E f \in [0 .. L -> 0 .. N] : LoopOf(f, 0, turn, L)
    BY <1>1, <1>2, LoopExists
  <2> QED
    BY <1>3, <2>1
<1> DEFINE fits == CHOOSE f : P(f)
<1>5. P(fits)
  <2> HIDE DEF P
  <2> QED
    BY <1>4
<1>6. fits[L] = N
  BY DEF WordFound
<1> HIDE DEF fits
<1>7. fits[0] = 0 /\ \A n \in 1 .. L : fits[n] = fit(fits[n - 1], n)
  <2>1. \A n \in 0 .. L : fits[n] = IF n = 0 THEN 0 ELSE fit(fits[n - 1], n)
    BY <1>5
  <2>2. \A n \in 1 .. L : n \in 0 .. L /\ n # 0
    BY <1>1
  <2> QED
    BY <1>1, <2>1, <2>2
<1> DEFINE S == {n \in 0 .. L : fits[n] \in 0 .. N /\ fits[n] <= n /\ Ends(fits[n], n)}
<1>8. 0 \in S
  <2>1. Ends(0, 0)
    BY <1>1
  <2> QED
    BY <1>1, <1>7, <2>1
<1>9. ASSUME NEW n \in 1 .. L, n - 1 \in S PROVE n \in S
  <2> DEFINE x == fits[n - 1]
  <2>1. x \in 0 .. N /\ x <= n - 1 /\ fits[n] = fit(x, n) /\ n \in 0 .. L
    <3>1. n \in 0 .. L
      BY <1>1
    <3>2. fits[n] = fit(x, n)
      BY <1>7
    <3>3. x \in 0 .. N /\ x <= n - 1
      BY <1>9
    <3> HIDE DEF x, fit
    <3> QED
      BY <3>1, <3>2, <3>3
  <2>2. PICK k \in 0 .. (n - 1) - x : /\ x < N => k = (n - 1) - x
                                      /\ \A i \in 1 .. x : COMMANDS_TXT[k + i] = word[i]
    BY <1>9
  <2> HIDE DEF x
  <2>3. CASE x = N
    <3>1. fits[n] = N /\ k \in 0 .. n - N
      BY <1>1, <2>1, <2>2, <2>3
    <3>2. Ends(N, n)
      BY <1>1, <2>2, <2>3, <3>1
    <3>3. N <= n /\ N \in 0 .. N
      BY <1>1, <2>1, <2>3
    <3> HIDE DEF Ends
    <3> QED
      BY <2>1, <3>1, <3>2, <3>3
  <2>4. CASE x # N /\ word[x + 1] = COMMANDS_TXT[n]
    <3>0. x < N /\ x + 1 \in 0 .. N /\ x + 1 <= n
      BY <1>1, <2>1, <2>4
    <3>5. fits[n] = x + 1
      BY <2>1, <2>4
    <3>6. k = n - (x + 1) /\ k \in 0 .. n - (x + 1) /\ k + (x + 1) = n
      <4>1. k = (n - 1) - x
        BY <2>2, <3>0
      <4> QED
        BY <2>1, <3>0, <4>1
    <3>1. fits[n] = x + 1 /\ k = n - (x + 1) /\ x + 1 \in 0 .. N /\ k \in 0 .. n - (x + 1)
          /\ x + 1 <= n /\ k + (x + 1) = n
      BY <3>0, <3>5, <3>6
    <3>2. \A i \in 1 .. x + 1 : i \in 1 .. x \/ i = x + 1
      BY <1>1, <2>1
    <3>3. \A i \in 1 .. x + 1 : COMMANDS_TXT[k + i] = word[i]
      BY <2>2, <2>4, <3>1, <3>2
    <3>4. Ends(x + 1, n)
      BY <3>1, <3>3
    <3> QED
      BY <2>1, <3>1, <3>4
  <2>5. CASE x # N /\ word[x + 1] # COMMANDS_TXT[n]
    <3>1. fits[n] = 0 /\ n \in 0 .. n - 0 /\ n = n - 0 /\ 0 <= n
      BY <1>1, <2>1, <2>5
    <3>2. Ends(0, n)
      BY <3>1
    <3> QED
      BY <1>1, <2>1, <3>1, <3>2
  <2> QED
    BY <2>3, <2>4, <2>5
<1>10. L \in S
  <2> HIDE DEF S
  <2> QED
    BY <1>1, <1>8, <1>9, AllUpTo
<1> QED
  BY <1>6, <1>10

\* What is written, and where a conversation stands before and in main().
Written ==
  [piece : {"include", "define", "text", "main", "declare", "end"}]
    \cup [piece : {"name"}, of : Nat]
BeforeMain == {"library", "names", "check", "change", "section"}
InMain == {"variable", "kind", "count", "name", "load", "store"}

FileTyped ==
  /\ talk_at \in BeforeMain \cup InMain \cup {"idle", "macro"}
  /\ file \in Seq(Written)
  /\ c_name \in Nat /\ incremented \in Nat
  /\ loaded \in [Conversations -> Nat \cup {NotLoaded}]

\* Piece m is main(); what is included, and a macro, is before it.
MainIs(m) ==
  \A k \in 1 .. Len(file) :
    /\ (file[k].piece = "main") = (k = m)
    /\ file[k].piece = "include" => k < m
    /\ file[k].piece = "define" => m = k + 2

Layout ==
  /\ talk_at \in BeforeMain => \A k \in 1 .. Len(file) : file[k].piece = "include"
  /\ talk_at = "macro" =>
       /\ Len(file) # 0 /\ file[Len(file)].piece = "define"
       /\ \A k \in 1 .. Len(file) - 1 : file[k].piece = "include"
  /\ talk_at \in InMain \/ (talk_at = "idle" /\ file # <<>>) => \E m \in 1 .. Len(file) : MainIs(m)

\* The counter is never ahead of the increments, and as long as none was undone
\* it is their number.
Counted ==
  /\ c_name <= incremented
  /\ \A t \in Conversations : loaded[t] <= incremented
  /\ ~overwritten /\ incremented < CHARS => c_name = incremented

\* A name is written before the counter goes on.
Pending == IF talk_at \in {"load", "store"} THEN 1 ELSE 0

\* A name was the counter's value before an increment; without a lost one, each of
\* another.
Numbered ==
  /\ \A k \in 1 .. Len(file) : file[k].piece = "name" => file[k].of < incremented + Pending
  /\ ~overwritten /\ incremented + Pending <= CHARS =>
       \A k, l \in 1 .. Len(file) :
         file[k].piece = "name" /\ file[l].piece = "name" /\ k # l => file[k].of # file[l].of

Searched ==
  search = NoSearch \/ (search.word \in SearchWords /\ (search.found => WordFound(search.word)))

FileInv == FileTyped /\ Layout /\ Counted /\ Numbered /\ Searched

\* The file has got piece p.
Wrote(p) ==
  /\ file' \in Seq(Written) /\ Len(file') = Len(file) + 1
  /\ \A k \in 1 .. Len(file) : file'[k] = file[k]
  /\ file'[Len(file) + 1] = p

\* One call of fwrite().
LEMMA OneWritten ==
  ASSUME FileInv, NEW p \in Written, fwrite(<<p>>)
  PROVE  Wrote(p)
<1>1. file \in Seq(Written)
  BY DEF FileInv, FileTyped
<1>2. PICK q : q = <<p>>
  OBVIOUS
<1>3. q \in Seq(Written) /\ Len(q) = 1 /\ q[1] = p /\ file' = file \o q
  BY <1>2 DEF fwrite
<1>4. PICK N \in Nat : N = Len(file)
  BY <1>1
<1>5. /\ file' \in Seq(Written) /\ Len(file') = N + 1
      /\ \A k \in 1 .. N + 1 : file'[k] = IF k <= N THEN file[k] ELSE q[k - N]
  <2>1. file \in Seq(Written) /\ q \in Seq(Written)
    BY <1>1, <1>3, <1>4
  <2>2. /\ file \o q \in Seq(Written) /\ Len(file \o q) = Len(file) + Len(q)
        /\ \A k \in 1 .. Len(file) + Len(q) :
             (file \o q)[k] = IF k <= Len(file) THEN file[k] ELSE q[k - Len(file)]
    BY <2>1, ConcatProperties
  <2> QED
    BY <1>1, <1>3, <1>4, <2>2
<1>6. file'[N + 1] = p
  <2>1. N + 1 \in 1 .. N + 1 /\ ~ (N + 1 <= N) /\ (N + 1) - N = 1
    OBVIOUS
  <2> QED
    BY <1>3, <1>5, <2>1
<1>7. \A k \in 1 .. N : file'[k] = file[k]
  <2>1. \A k \in 1 .. N : k \in 1 .. N + 1 /\ k <= N
    OBVIOUS
  <2> QED
    BY <1>5, <2>1
<1> QED
  BY <1>4, <1>5, <1>6, <1>7 DEF Wrote

\* Steps that write nothing and do not count.
LEMMA NothingWritten ==
  ASSUME FileInv, UNCHANGED <<file, counterVars>>, Searched', Pending' = Pending,
         \/ talk_at \in BeforeMain /\ talk_at' \in BeforeMain
         \/ talk_at \in InMain /\ talk_at' \in InMain
         \/ talk_at' = talk_at
  PROVE  FileInv'
<1>1. FileTyped' /\ Counted' /\ Numbered'
  BY DEF FileInv, FileTyped, Counted, Numbered, counterVars
<1>2. Layout'
  <2>1. \A m : MainIs(m)' = MainIs(m)
    BY DEF MainIs
  <2>2. talk_at' \in BeforeMain \/ talk_at' = "macro" =>
          /\ file' = file /\ (talk_at' = "macro" => talk_at = "macro")
          /\ talk_at' \in BeforeMain => talk_at \in BeforeMain
    BY DEF BeforeMain, InMain
  <2>3. talk_at' \in InMain \/ (talk_at' = "idle" /\ file' # <<>>) =>
          file' = file /\ (talk_at \in InMain \/ (talk_at = "idle" /\ file # <<>>))
    BY DEF BeforeMain, InMain
  <2>4. Layout
    BY DEF FileInv
  <2> QED
    BY <2>1, <2>2, <2>3, <2>4 DEF Layout
<1> QED
  BY <1>1, <1>2 DEF FileInv

\* A piece that is no name leaves the names as they are.
LEMMA NumberedKept ==
  ASSUME FileInv, NEW p, p.piece # "name", Wrote(p), UNCHANGED counterVars, Pending' = Pending
  PROVE  Numbered'
<1>1. PICK N \in Nat : N = Len(file)
  BY DEF FileInv, FileTyped
<1>2. \A k \in 1 .. Len(file') : file'[k].piece = "name" => k \in 1 .. N /\ file'[k] = file[k]
  <2> TAKE k \in 1 .. Len(file')
  <2>1. k \in 1 .. N \/ k = N + 1
    BY <1>1 DEF Wrote
  <2> QED
    BY <1>1, <2>1 DEF Wrote
<1>3. UNCHANGED <<incremented, overwritten>>
  BY DEF counterVars
<1> QED
  BY <1>1, <1>2, <1>3 DEF FileInv, Numbered

\* main() stays where it is when a piece of its body or its end follows.
LEMMA MainStays ==
  ASSUME FileInv, talk_at \in InMain, NEW p, p.piece \in {"declare", "name", "end"}, Wrote(p),
         talk_at' \in InMain \cup {"idle"}
  PROVE  Layout'
<1>1. PICK N \in Nat : N = Len(file)
  BY DEF FileInv, FileTyped
<1>2. PICK m \in 1 .. N : MainIs(m)
  BY <1>1 DEF FileInv, Layout
<1>3. MainIs(m)'
  <2> SUFFICES ASSUME NEW k \in 1 .. Len(file')
               PROVE  /\ (file'[k].piece = "main") = (k = m)
                      /\ file'[k].piece = "include" => k < m
                      /\ file'[k].piece = "define" => m = k + 2
    BY DEF MainIs
  <2>1. k \in 1 .. N \/ k = N + 1
    BY <1>1 DEF Wrote
  <2>2. CASE k \in 1 .. N
    BY <1>1, <1>2, <2>2 DEF MainIs, Wrote
  <2>3. CASE k = N + 1
    BY <1>1, <2>3 DEF Wrote
  <2> QED
    BY <2>1, <2>2, <2>3
<1>4. m \in 1 .. Len(file')
  BY <1>1 DEF Wrote
<1> QED
  BY <1>3, <1>4 DEF Layout, BeforeMain, InMain

\* An include, before main().
LEMMA IncludeKeeps ==
  ASSUME FileInv, talk_at \in BeforeMain, talk_at' = talk_at,
         fwrite(<<[piece |-> "include"]>>), UNCHANGED <<counterVars, search>>
  PROVE  FileInv'
<1> DEFINE p == [piece |-> "include"]
<1>1. p \in Written /\ p.piece = "include"
  BY DEF Written
<1>2. Wrote(p)
  BY <1>1, OneWritten
<1> HIDE DEF p
<1>3. Pending' = Pending
  BY DEF Pending
<1>4. Numbered'
  BY <1>1, <1>2, <1>3, NumberedKept
<1>5. \A k \in 1 .. Len(file') : file'[k].piece = "include"
  <2>1. \A k \in 1 .. Len(file) : file[k].piece = "include"
    BY DEF FileInv, Layout
  <2>2. Len(file) \in Nat
    BY DEF FileInv, FileTyped
  <2> QED
    BY <1>1, <1>2, <2>1, <2>2 DEF Wrote
<1>6. Layout'
  BY <1>5 DEF Layout, BeforeMain, InMain
<1>7. FileTyped' /\ Counted' /\ Searched'
  BY <1>2 DEF FileInv, FileTyped, Counted, Searched, Wrote, counterVars
<1> QED
  BY <1>4, <1>6, <1>7 DEF FileInv

\* The macro's first line.
LEMMA MacroKeeps ==
  ASSUME FileInv, Macro
  PROVE  FileInv'
<1> DEFINE p == [piece |-> "define"]
<1>1. p \in Written /\ p.piece = "define"
  BY DEF Written
<1>2. /\ fwrite(<<p>>) /\ talk_at = "section" /\ talk_at' = "macro"
      /\ UNCHANGED <<counterVars, search>>
  BY DEF Macro, Goto
<1>3. Wrote(p)
  BY <1>1, <1>2, OneWritten
<1> HIDE DEF p
<1>4. Pending' = Pending
  BY <1>2 DEF Pending
<1>5. Numbered'
  BY <1>1, <1>2, <1>3, <1>4, NumberedKept
<1>6. PICK N \in Nat : N = Len(file)
  BY DEF FileInv, FileTyped
<1>7. \A k \in 1 .. N : file'[k].piece = "include"
  BY <1>2, <1>3, <1>6 DEF FileInv, Layout, BeforeMain, Wrote
<1>8. Layout'
  <2>1. Len(file') # 0 /\ Len(file') - 1 = N /\ file'[Len(file')].piece = "define"
    BY <1>1, <1>3, <1>6 DEF Wrote
  <2> QED
    BY <1>2, <1>7, <2>1 DEF Layout, BeforeMain, InMain
<1>9. FileTyped' /\ Counted' /\ Searched'
  BY <1>2, <1>3 DEF FileInv, FileTyped, Counted, Searched, Wrote, counterVars
<1> QED
  BY <1>5, <1>8, <1>9 DEF FileInv

\* The macro's text, and main().
LEMMA MacroTextKeeps ==
  ASSUME FileInv, MacroText
  PROVE  FileInv'
<1>1. [piece |-> "text"] \in Written /\ [piece |-> "main"] \in Written
  BY DEF Written
<1>2. PICK q : q = <<[piece |-> "text"], [piece |-> "main"]>>
  OBVIOUS
<1>3. file' = file \o q /\ talk_at = "macro" /\ talk_at' = "variable"
      /\ UNCHANGED <<counterVars, search>>
  BY <1>2 DEF fwrite, MacroText, Goto
<1>4. q \in Seq(Written) /\ Len(q) = 2 /\ q[1].piece = "text" /\ q[2].piece = "main"
  BY <1>1, <1>2
<1>5. PICK N \in Nat : N = Len(file) /\ file \in Seq(Written)
  BY DEF FileInv, FileTyped
<1>6. /\ file' \in Seq(Written) /\ Len(file') = N + 2
      /\ \A k \in 1 .. N + 2 : file'[k] = IF k <= N THEN file[k] ELSE q[k - N]
  <2>1. file \in Seq(Written) /\ q \in Seq(Written)
    BY <1>3, <1>4, <1>5
  <2>2. /\ file \o q \in Seq(Written) /\ Len(file \o q) = Len(file) + Len(q)
        /\ \A k \in 1 .. Len(file) + Len(q) :
             (file \o q)[k] = IF k <= Len(file) THEN file[k] ELSE q[k - Len(file)]
    BY <2>1, ConcatProperties
  <2> QED
    BY <1>3, <1>4, <1>5, <2>2
<1>7. /\ \A k \in 1 .. N : file'[k] = file[k]
      /\ file'[N + 1].piece = "text" /\ file'[N + 2].piece = "main"
  <2>1. /\ \A k \in 1 .. N : k \in 1 .. N + 2 /\ k <= N
        /\ N + 1 \in 1 .. N + 2 /\ ~ (N + 1 <= N) /\ (N + 1) - N = 1
        /\ N + 2 \in 1 .. N + 2 /\ ~ (N + 2 <= N) /\ (N + 2) - N = 2
    OBVIOUS
  <2> QED
    BY <1>4, <1>6, <2>1
<1>8. Pending' = Pending /\ UNCHANGED <<incremented, overwritten>>
  BY <1>3 DEF Pending, counterVars
<1>9. Numbered'
  <2>1. \A k \in 1 .. Len(file') : file'[k].piece = "name" => k \in 1 .. N /\ file'[k] = file[k]
    <3> TAKE k \in 1 .. Len(file')
    <3>1. k \in 1 .. N \/ k = N + 1 \/ k = N + 2
      BY <1>6
    <3> QED
      BY <1>7, <3>1
  <2> QED
    BY <1>5, <1>8, <2>1 DEF FileInv, Numbered
<1>10. N # 0 /\ file'[N].piece = "define" /\ \A k \in 1 .. N - 1 : file'[k].piece = "include"
  <2>1. N # 0 /\ file[N].piece = "define" /\ \A k \in 1 .. N - 1 : file[k].piece = "include"
    BY <1>3, <1>5 DEF FileInv, Layout
  <2> QED
    BY <1>7, <2>1
<1>11. MainIs(N + 2)'
  <2> SUFFICES ASSUME NEW k \in 1 .. Len(file')
               PROVE  /\ (file'[k].piece = "main") = (k = N + 2)
                      /\ file'[k].piece = "include" => k < N + 2
                      /\ file'[k].piece = "define" => N + 2 = k + 2
    BY DEF MainIs
  <2>1. k \in 1 .. N - 1 \/ k = N \/ k = N + 1 \/ k = N + 2
    BY <1>6
  <2> QED
    BY <1>7, <1>10, <2>1
<1>12. Layout'
  <2>1. N + 2 \in 1 .. Len(file')
    BY <1>6
  <2> QED
    BY <1>3, <1>11, <2>1 DEF Layout, BeforeMain, InMain
<1>13. FileTyped' /\ Counted' /\ Searched'
  BY <1>3, <1>6 DEF FileInv, FileTyped, Counted, Searched, InMain, counterVars
<1> QED
  BY <1>9, <1>12, <1>13 DEF FileInv

\* main() without a macro.
LEMMA NoMacroKeeps ==
  ASSUME FileInv, NoMacro
  PROVE  FileInv'
<1> DEFINE p == [piece |-> "main"]
<1>1. p \in Written /\ p.piece = "main"
  BY DEF Written
<1>2. /\ fwrite(<<p>>) /\ talk_at = "section" /\ talk_at' = "kind"
      /\ UNCHANGED <<counterVars, search>>
  BY DEF NoMacro, Goto
<1>3. Wrote(p)
  BY <1>1, <1>2, OneWritten
<1> HIDE DEF p
<1>4. Pending' = Pending
  BY <1>2 DEF Pending
<1>5. Numbered'
  BY <1>1, <1>2, <1>3, <1>4, NumberedKept
<1>6. PICK N \in Nat : N = Len(file)
  BY DEF FileInv, FileTyped
<1>7. \A k \in 1 .. N : file'[k].piece = "include"
  BY <1>2, <1>3, <1>6 DEF FileInv, Layout, BeforeMain, Wrote
<1>8. MainIs(N + 1)'
  <2> SUFFICES ASSUME NEW k \in 1 .. Len(file')
               PROVE  /\ (file'[k].piece = "main") = (k = N + 1)
                      /\ file'[k].piece = "include" => k < N + 1
                      /\ file'[k].piece = "define" => N + 1 = k + 2
    BY DEF MainIs
  <2>1. k \in 1 .. N \/ k = N + 1
    BY <1>3, <1>6 DEF Wrote
  <2> QED
    BY <1>1, <1>3, <1>6, <1>7, <2>1 DEF Wrote
<1>9. Layout'
  <2>1. N + 1 \in 1 .. Len(file')
    BY <1>3, <1>6 DEF Wrote
  <2> QED
    BY <1>2, <1>8, <2>1 DEF Layout, BeforeMain, InMain
<1>10. FileTyped' /\ Counted' /\ Searched'
  BY <1>2, <1>3 DEF FileInv, FileTyped, Counted, Searched, Wrote, counterVars, InMain
<1> QED
  BY <1>5, <1>9, <1>10 DEF FileInv

\* The beginning of a declaration, and the end of main().
LEMMA BodyKeeps ==
  ASSUME FileInv, NEW p \in Written, p.piece \in {"declare", "end"}, fwrite(<<p>>),
         talk_at \in {"kind", "count"}, talk_at' \in {"kind", "name", "idle"},
         UNCHANGED <<counterVars, search>>
  PROVE  FileInv'
<1>1. Wrote(p)
  BY OneWritten
<1>2. Pending' = Pending
  BY DEF Pending
<1>3. Numbered'
  BY <1>1, <1>2, NumberedKept
<1>4. Layout'
  BY <1>1, MainStays DEF InMain
<1>5. FileTyped' /\ Counted' /\ Searched'
  BY <1>1 DEF FileInv, FileTyped, Counted, Searched, Wrote, counterVars, InMain
<1> QED
  BY <1>3, <1>4, <1>5 DEF FileInv

\* The name of a variable is the counter's value.
LEMMA NameKeeps ==
  ASSUME FileInv, Name
  PROVE  FileInv'
<1> DEFINE p == [piece |-> "name", of |-> c_name]
<1>0. c_name \in Nat /\ incremented \in Nat /\ CHARS \in Nat /\ c_name <= incremented
  BY CFileAssumption DEF FileInv, FileTyped, Counted
<1>1. p \in Written /\ p.piece = "name" /\ p.of = c_name
  BY <1>0 DEF Written
<1>2. /\ fwrite(<<p>>) /\ talk_at = "name" /\ talk_at' = "load"
      /\ UNCHANGED <<counterVars, search>>
  BY DEF Name, Goto
<1>3. Wrote(p)
  BY <1>1, <1>2, OneWritten
<1> HIDE DEF p
<1>4. Pending = 0 /\ Pending' = 1 /\ UNCHANGED <<c_name, incremented, overwritten>>
  BY <1>2 DEF Pending, counterVars
<1>5. PICK N \in Nat : N = Len(file)
  BY DEF FileInv, FileTyped
<1>6. \A k \in 1 .. Len(file') : k \in 1 .. N \/ k = N + 1
  BY <1>3, <1>5 DEF Wrote
<1>7. \A k \in 1 .. N : file'[k] = file[k] /\ (file[k].piece = "name" => file[k].of < incremented)
  BY <1>0, <1>3, <1>4, <1>5 DEF Wrote, FileInv, Numbered
<1>8. \A k \in 1 .. N : file[k].piece = "name" => file[k].of \in Nat
  <2> TAKE k \in 1 .. N
  <2>1. file[k] \in Written
    BY <1>5 DEF FileInv, FileTyped
  <2> QED
    BY <2>1 DEF Written
<1>9. \A k \in 1 .. Len(file') : file'[k].piece = "name" => file'[k].of < incremented' + Pending'
  <2> TAKE k \in 1 .. Len(file')
  <2>1. CASE k \in 1 .. N
    BY <1>0, <1>4, <1>7, <1>8, <2>1
  <2>2. CASE k = N + 1
    BY <1>0, <1>1, <1>3, <1>4, <1>5, <2>2 DEF Wrote
  <2> QED
    BY <1>6, <2>1, <2>2
<1>10. ASSUME ~overwritten, incremented + 1 <= CHARS,
              NEW k \in 1 .. Len(file'), NEW l \in 1 .. Len(file'),
              file'[k].piece = "name", file'[l].piece = "name", k # l
       PROVE  file'[k].of # file'[l].of
  <2>1. c_name = incremented
    BY <1>0, <1>10 DEF FileInv, Counted
  <2>2. file'[N + 1].of = incremented
    BY <1>1, <1>3, <1>5, <2>1 DEF Wrote
  <2>3. CASE k \in 1 .. N /\ l \in 1 .. N
    <3>1. incremented + Pending <= CHARS
      BY <1>0, <1>4, <1>10
    <3> QED
      BY <1>5, <1>7, <1>10, <2>3, <3>1 DEF FileInv, Numbered
  <2>4. CASE k = N + 1 /\ l \in 1 .. N
    BY <1>0, <1>7, <1>8, <1>10, <2>2, <2>4
  <2>5. CASE k \in 1 .. N /\ l = N + 1
    BY <1>0, <1>7, <1>8, <1>10, <2>2, <2>5
  <2> QED
    BY <1>6, <1>10, <2>3, <2>4, <2>5
<1>11. Numbered'
  BY <1>4, <1>9, <1>10 DEF Numbered
<1>12. Layout'
  BY <1>1, <1>2, <1>3, MainStays DEF InMain
<1>13. FileTyped' /\ Counted' /\ Searched'
  BY <1>2, <1>3 DEF FileInv, FileTyped, Counted, Searched, Wrote, counterVars, InMain
<1> QED
  BY <1>11, <1>12, <1>13 DEF FileInv

\* The variable is read for an increment.
LEMMA LoadKeeps ==
  ASSUME FileInv, NEW t \in Conversations, Load(t), UNCHANGED <<file, search>>,
         talk_at' = talk_at \/ (talk_at = "load" /\ talk_at' = "store")
  PROVE  FileInv'
<1>1. /\ loaded' = [loaded EXCEPT ![t] = c_name]
      /\ UNCHANGED <<c_name, incremented, overwritten>>
  BY DEF Load
<1>2. FileTyped'
  BY <1>1 DEF FileInv, FileTyped, InMain
<1>3. Counted'
  <2>1. \A x \in Conversations : loaded'[x] = loaded[x] \/ loaded'[x] = c_name
    BY <1>1 DEF FileInv, FileTyped
  <2> QED
    BY <1>1, <2>1 DEF FileInv, Counted
<1>4. Pending' = Pending
  BY DEF Pending
<1>5. Numbered'
  BY <1>1, <1>4 DEF FileInv, Numbered
<1>6. Layout'
  <2>1. \A m : MainIs(m)' = MainIs(m)
    BY DEF MainIs
  <2>2. talk_at' = talk_at \/ (talk_at \in InMain /\ talk_at' \in InMain)
    BY DEF InMain
  <2>3. Layout
    BY DEF FileInv
  <2>4. talk_at' \in InMain => talk_at' \notin BeforeMain /\ talk_at' # "macro"
    BY DEF BeforeMain, InMain
  <2> QED
    BY <2>1, <2>2, <2>3, <2>4 DEF Layout
<1>7. Searched'
  BY DEF FileInv, Searched
<1> QED
  BY <1>2, <1>3, <1>5, <1>6, <1>7 DEF FileInv

\* The next value is written, ours where a name waits for it.
LEMMA StoreKeeps ==
  ASSUME FileInv, NEW t \in Conversations, Store(t), UNCHANGED <<file, search>>,
         talk_at' = talk_at \/ (talk_at = "store" /\ talk_at' \in {"kind", "name"})
  PROVE  FileInv'
<1>0. /\ CHARS \in Nat /\ CHARS > 0 /\ c_name \in Nat /\ incremented \in Nat
      /\ loaded \in [Conversations -> Nat \cup {NotLoaded}]
  BY CFileAssumption DEF FileInv, FileTyped
<1>1. /\ loaded[t] \in Nat
      /\ c_name' = (loaded[t] + 1) % CHARS
      /\ loaded' = [loaded EXCEPT ![t] = NotLoaded]
      /\ incremented' = incremented + 1
      /\ overwritten' = (overwritten \/ loaded[t] # c_name)
  BY <1>0 DEF Store
<1>2. PICK x \in Nat : x = loaded[t] + 1
  BY <1>1
<1>3. c_name' \in Nat /\ c_name' <= x /\ (x < CHARS => c_name' = x)
  <2>1. c_name' = x % CHARS
    BY <1>1, <1>2
  <2>2. x % CHARS \in 0 .. CHARS - 1
    BY <1>0
  <2>3. CASE x < CHARS
    BY <1>0, <2>1, <2>3, SmallIsItself
  <2>4. CASE ~ (x < CHARS)
    BY <1>0, <2>1, <2>2, <2>4
  <2> QED
    BY <2>3, <2>4
<1>4. x <= incremented + 1
  BY <1>0, <1>1, <1>2 DEF FileInv, Counted
<1>5. FileTyped'
  BY <1>0, <1>1, <1>3 DEF FileInv, FileTyped, InMain
<1>6. Counted'
  <2>1. c_name' <= incremented'
    BY <1>0, <1>1, <1>3, <1>4
  <2>2. ASSUME NEW y \in Conversations PROVE loaded'[y] <= incremented'
    <3>1. loaded[y] <= incremented /\ loaded[y] \in Int
      BY <1>0 DEF FileInv, Counted, NotLoaded
    <3>2. loaded'[y] = loaded[y] \/ loaded'[y] = NotLoaded
      BY <1>0, <1>1
    <3> QED
      BY <1>0, <1>1, <3>1, <3>2 DEF NotLoaded
  <2>3. ASSUME ~overwritten', incremented' < CHARS PROVE c_name' = incremented'
    <3>0. ~overwritten /\ loaded[t] = c_name
      BY <1>1, <2>3, Zenon
    <3>1. ~overwritten /\ loaded[t] = c_name /\ incremented < CHARS
      <4>1. incremented < CHARS
        BY <1>0, <1>1, <2>3
      <4> QED
        BY <3>0, <4>1
    <3>2. c_name = incremented
      BY <3>1 DEF FileInv, Counted
    <3> QED
      BY <1>0, <1>1, <1>2, <1>3, <2>3, <3>1, <3>2
  <2> QED
    BY <2>1, <2>2, <2>3 DEF Counted
<1>7. PICK pb \in Nat, pa \in Nat : pb = Pending /\ pa = Pending' /\ pb <= pa + 1
  BY DEF Pending
<1>8. Numbered'
  <2>0. PICK i \in Nat, j \in Nat : i = incremented /\ j = incremented' /\ j = i + 1
    BY <1>0, <1>1
  <2>1. i + pb <= j + pa
    <3>1. pb <= pa + 1
      BY <1>7
    <3>2. j = i + 1
      BY <2>0
    <3> QED
      BY <3>1, <3>2
  <2>2. ASSUME NEW k \in 1 .. Len(file), file[k].piece = "name"
        PROVE  file[k].of < j + pa
    <3>1. file[k] \in Written
      BY DEF FileInv, FileTyped
    <3>2. file[k].of \in Nat
      BY <2>2, <3>1 DEF Written
    <3>3. file[k].of < i + pb
      BY <1>7, <2>0, <2>2 DEF FileInv, Numbered
    <3> QED
      BY <2>1, <3>2, <3>3
  <2>3. ASSUME ~overwritten', j + pa <= CHARS
        PROVE  ~overwritten /\ i + pb <= CHARS
    <3>1. ~overwritten
      BY <1>1, <2>3, Zenon
    <3>2. i + pb <= CHARS
      BY <1>0, <2>1, <2>3
    <3> QED
      BY <3>1, <3>2
  <2> QED
    BY <1>7, <2>0, <2>2, <2>3 DEF FileInv, Numbered
<1>9. Layout'
  <2>1. \A m : MainIs(m)' = MainIs(m)
    BY DEF MainIs
  <2>2. talk_at' = talk_at \/ (talk_at \in InMain /\ talk_at' \in InMain)
    BY DEF InMain
  <2>3. Layout
    BY DEF FileInv
  <2>4. talk_at' \in InMain => talk_at' \notin BeforeMain /\ talk_at' # "macro"
    BY DEF BeforeMain, InMain
  <2> QED
    BY <2>1, <2>2, <2>3, <2>4 DEF Layout
<1>10. Searched'
  BY DEF FileInv, Searched
<1> QED
  BY <1>5, <1>6, <1>8, <1>9, <1>10 DEF FileInv

\* The structure of the file holds in every state.
THEOREM FileInvHolds == FileSpec => []FileInv
<1>1. FileInit => FileInv
  <2> SUFFICES ASSUME FileInit PROVE FileInv
    OBVIOUS
  <2>1. /\ talk_at = "idle" /\ file = <<>> /\ c_name = 0 /\ incremented = 0 /\ search = NoSearch
        /\ loaded = [t \in Conversations |-> NotLoaded]
    BY DEF FileInit
  <2>2. FileTyped /\ Layout /\ Counted /\ Numbered /\ Searched
    BY <2>1 DEF FileTyped, Layout, Counted, Numbered, Searched, BeforeMain, InMain, NotLoaded
  <2> QED
    BY <2>2 DEF FileInv
<1>2. ASSUME FileInv, [FileNext]_fileVars PROVE FileInv'
  <2>1. ASSUME NEW word \in SearchWords, read_content(word) PROVE FileInv'
    <3>1. Searched'
      BY <2>1 DEF read_content, Searched
    <3>2. UNCHANGED <<file, counterVars, talk_at>> /\ Pending' = Pending
      BY <2>1 DEF read_content, ownVars, Pending
    <3> QED
      BY <1>2, <3>1, <3>2, NothingWritten
  <2>2. CASE create_c
    <3>1. /\ talk_at = "idle" /\ talk_at' = "library" /\ file' = <<>> /\ search' = NoSearch
          /\ UNCHANGED counterVars
      BY <2>2 DEF create_c, Goto
    <3>2. FileTyped' /\ Layout' /\ Counted' /\ Numbered' /\ Searched'
      BY <1>2, <3>1 DEF FileInv, FileTyped, Layout, Counted, Numbered, Searched, BeforeMain, InMain,
                        counterVars
    <3> QED
      BY <3>2 DEF FileInv
  <2>3. ASSUME UNCHANGED <<file, counterVars, search>>, Pending' = Pending,
               \/ talk_at \in BeforeMain /\ talk_at' \in BeforeMain
               \/ talk_at \in InMain /\ talk_at' \in InMain
               \/ talk_at' = talk_at
        PROVE  FileInv'
    <3>1. Searched'
      BY <1>2, <2>3 DEF FileInv, Searched
    <3> QED
      BY <1>2, <2>3, <3>1, NothingWritten
  <2>4. CASE Other \/ OtherLine \/ OtherToken \/ UNCHANGED fileVars
    <3>1. UNCHANGED <<file, counterVars, search, talk_at>> /\ Pending' = Pending
      BY <2>4 DEF Other, OtherLine, OtherToken, fileVars, ownVars, Pending
    <3> QED
      BY <2>3, <3>1
  <2>5. CASE Keyword \/ NamesLine \/ Change \/ Variable \/ Kind
    <3>1. UNCHANGED <<file, counterVars, search>> /\ Pending' = Pending
      BY <2>5 DEF Keyword, NamesLine, Change, Variable, Kind, Goto, Pending
    <3>2. \/ talk_at \in BeforeMain /\ talk_at' \in BeforeMain
          \/ talk_at \in InMain /\ talk_at' \in InMain
          \/ talk_at' = talk_at
      <4>1. CASE Keyword \/ NamesLine \/ Change
        BY <4>1 DEF Keyword, NamesLine, Change, Goto, BeforeMain
      <4>2. CASE Kind
        BY <4>2 DEF Kind, Goto, InMain
      <4>3. CASE Variable
        BY <4>3 DEF Variable, Goto, InMain
      <4> QED
        BY <2>5, <4>1, <4>2, <4>3
    <3> QED
      BY <2>3, <3>1, <3>2
  <2>6. CASE CheckNext
    <3>1. talk_at = "check" /\ UNCHANGED <<counterVars, search>>
      BY <2>6 DEF CheckNext
    <3>2. CASE fwrite(<<[piece |-> "include"]>>) /\ talk_at' = talk_at
      BY <1>2, <3>1, <3>2, IncludeKeeps DEF BeforeMain
    <3>3. CASE file' = file /\ talk_at' \in {"change", "section"}
      <4>1. Pending' = Pending
        BY <3>1, <3>3 DEF Pending
      <4> QED
        BY <2>3, <3>1, <3>3, <4>1 DEF BeforeMain
    <3> QED
      BY <2>6, <3>2, <3>3 DEF CheckNext
  <2>7. ASSUME NEW total_v \in -1 .. MAX_VARIABLES, Count(total_v) PROVE FileInv'
    <3>1. CASE total_v = 0
      <4>1. UNCHANGED <<file, counterVars, search, talk_at>> /\ Pending' = Pending
        BY <2>7, <3>1 DEF Count, Pending
      <4> QED
        BY <2>3, <4>1
    <3>2. CASE total_v # 0
      <4>1. [piece |-> "declare"] \in Written /\ [piece |-> "declare"].piece = "declare"
        BY DEF Written
      <4>2. /\ fwrite(<<[piece |-> "declare"]>>) /\ talk_at = "count"
            /\ talk_at' \in {"kind", "name"} /\ UNCHANGED <<counterVars, search>>
        BY <2>7, <3>2 DEF Count
      <4> QED
        BY <1>2, <4>1, <4>2, BodyKeeps
    <3> QED
      BY <3>1, <3>2
  <2>8. CASE Finish
    <3>1. [piece |-> "end"] \in Written /\ [piece |-> "end"].piece = "end"
      BY DEF Written
    <3>2. /\ fwrite(<<[piece |-> "end"]>>) /\ talk_at = "kind" /\ talk_at' = "idle"
          /\ UNCHANGED <<counterVars, search>>
      BY <2>8 DEF Finish, Goto
    <3> QED
      BY <1>2, <3>1, <3>2, BodyKeeps
  <2>9. CASE Macro
    BY <1>2, <2>9, MacroKeeps
  <2>10. CASE MacroText
    BY <1>2, <2>10, MacroTextKeeps
  <2>11. CASE NoMacro
    BY <1>2, <2>11, NoMacroKeeps
  <2>12. CASE Name
    BY <1>2, <2>12, NameKeeps
  <2>13. CASE LoadName
    <3>1. Me \in Conversations
      BY DEF Conversations
    <3> QED
      BY <1>2, <2>13, <3>1, LoadKeeps DEF LoadName, Goto
  <2>14. CASE StoreName
    <3>1. Me \in Conversations
      BY DEF Conversations
    <3>2. talk_at = "store" /\ talk_at' \in {"kind", "name"}
      BY <2>14 DEF StoreName, Goto
    <3> QED
      BY <1>2, <2>14, <3>1, <3>2, StoreKeeps DEF StoreName
  <2>15. ASSUME NEW t \in Others, OtherNames(t) PROVE FileInv'
    <3>1. t \in Conversations
      BY DEF Conversations
    <3>2. UNCHANGED <<file, search, talk_at>> /\ (Load(t) \/ Store(t))
      BY <2>15 DEF OtherNames, ownVars
    <3> QED
      BY <1>2, <3>1, <3>2, LoadKeeps, StoreKeeps
  <2> QED
    BY <1>2, <2>1, <2>2, <2>4, <2>5, <2>6, <2>7, <2>8, <2>9, <2>10, <2>11, <2>12, <2>13, <2>14, <2>15
       DEF FileNext
<1> QED
  BY <1>1, <1>2, PTL DEF FileSpec

\* For any texts and words, any number of conversations and variables, and any
\* width of a character, whatever the other threads do to the counter and to
\* strtok(): a file that was ended is a program, its variables have names of their
\* own unless an increment was undone or the names came round, and what a search
\* finds is in the text (create_c(), check_string(), read_content()).
THEOREM WritesAndFindsRightlyHolds == FileSpec => []WritesAndFindsRightly
<1>1. ASSUME FileInv, talk_at = "idle", file # <<>> PROVE EndedFileIsProgram
  <2>1. PICK m \in 1 .. Len(file) : MainIs(m)
    BY <1>1 DEF FileInv, Layout
  <2>2. \A k \in Pieces("main") : k = m
    BY <2>1 DEF MainIs, Pieces
  <2>3. \A k \in Pieces("include"), l \in Pieces("main") : k < l
    BY <2>1, <2>2 DEF MainIs, Pieces
  <2>4. \A k \in Pieces("define"), l \in Pieces("main") : l = k + 2
    BY <2>1, <2>2 DEF MainIs, Pieces
  <2>5. Pending = 0 /\ incremented \in Nat /\ incremented + 0 = incremented /\ LETTERS \in Nat
    BY <1>1, CFileAssumption DEF Pending, FileInv, FileTyped
  <2>6. ASSUME incremented <= LETTERS, NEW k \in Pieces("name") PROVE file[k].of < LETTERS
    <3>1. k \in 1 .. Len(file) /\ file[k].piece = "name"
      BY DEF Pieces
    <3>2. file[k] \in Written
      BY <1>1, <3>1 DEF FileInv, FileTyped
    <3>3. file[k].of \in Nat
      BY <3>1, <3>2 DEF Written
    <3>4. file[k].of < incremented
      BY <1>1, <2>5, <3>1 DEF FileInv, Numbered
    <3> QED
      BY <2>5, <2>6, <3>3, <3>4
  <2>7. ASSUME ~overwritten, incremented <= CHARS,
               NEW k \in Pieces("name"), NEW l \in Pieces("name"), k # l
        PROVE  file[k].of # file[l].of
    <3>1. /\ k \in 1 .. Len(file) /\ file[k].piece = "name"
          /\ l \in 1 .. Len(file) /\ file[l].piece = "name"
      BY DEF Pieces
    <3> QED
      BY <1>1, <2>5, <2>7, <3>1 DEF FileInv, Numbered
  <2> QED
    BY <2>2, <2>3, <2>4, <2>6, <2>7 DEF EndedFileIsProgram
<1>2. FileInv => EndedFileIsProgram
  BY <1>1 DEF EndedFileIsProgram
<1>3. FileInv => FoundIsThere
  <2> SUFFICES ASSUME FileInv, search.found PROVE FoundIsThere
    BY DEF FoundIsThere
  <2>1. search.word \in SearchWords /\ WordFound(search.word)
    BY DEF FileInv, Searched, NoSearch
  <2>2. search.word \in Seq(STRING)
    BY <2>1, TextAssumption
  <2> QED
    BY <2>1, <2>2, FoundStands DEF FoundIsThere
<1>4. FileInv => WritesAndFindsRightly
  BY <1>2, <1>3 DEF WritesAndFindsRightly
<1> QED
  BY <1>4, FileInvHolds, PTL

-----------------------------------------------------------------------------
(* The help of cli.c follows the list.                                     *)

\* The least of a set of numbers is the one that CHOOSE gives.
LEMMA LeastIsChosen ==
  ASSUME NEW S \in SUBSET Nat, NEW k \in S, \A m \in S : k <= m
  PROVE  (CHOOSE n \in S : \A m \in S : n <= m) = k
<1> DEFINE c == CHOOSE n \in S : \A m \in S : n <= m
<1>1. c \in S /\ \A m \in S : c <= m
  OBVIOUS
<1> HIDE DEF c
<1>2. c = k
  BY <1>1
<1> QED
  BY <1>2 DEF c

\* Two words are the same but for the case of their letters.
Same(w, v) == [i \in 1 .. Len(w) |-> Upper(w[i])] = [i \in 1 .. Len(v) |-> Upper(v[i])]

\* Memcmpi() over a word and its zero says so.
LEMMA MemcmpiIsSame ==
  ASSUME NEW w \in Word, NEW v \in Word
  PROVE  Memcmpi(w, v, Len(w) + 1) = 0 <=> Same(w, v)
<1>1. Len(w) \in Nat /\ Len(v) \in Nat
      /\ (\A i \in 1 .. Len(w) : w[i] \in 1 .. 255) /\ (\A i \in 1 .. Len(v) : v[i] \in 1 .. 255)
  <2>1. w \in Seq(1 .. 255) /\ v \in Seq(1 .. 255)
    BY DEF Word
  <2>2. \A S : \A s \in Seq(S) : \A i \in 1 .. Len(s) : s[i] \in S
    OBVIOUS
  <2>3. \A i \in 1 .. Len(w) : w[i] \in 1 .. 255
    BY <2>1, <2>2, Zenon
  <2>4. \A i \in 1 .. Len(v) : v[i] \in 1 .. 255
    BY <2>1, <2>2, Zenon
  <2> QED
    BY <2>1, <2>3, <2>4
<1>2. \A b \in 1 .. 255 : Upper(b) \in 1 .. 255
  BY DEF Upper
<1> DEFINE apart == {i \in 1 .. Len(w) + 1 : Byte(w, i) # Byte(v, i)}
<1>3. Memcmpi(w, v, Len(w) + 1) = 0 <=> apart = {}
  BY DEF Memcmpi
<1>4. ASSUME apart = {} PROVE Same(w, v)
  <2>1. \A i \in 1 .. Len(w) + 1 : Byte(w, i) = Byte(v, i)
    BY <1>4
  <2>2. ASSUME Len(v) > Len(w) PROVE FALSE
    <3>1. Len(w) + 1 \in 1 .. Len(w) + 1 /\ ~ (Len(w) + 1 <= Len(w)) /\ Len(w) + 1 \in 1 .. Len(v)
      BY <1>1, <2>2
    <3>2. Byte(w, Len(w) + 1) = 0 /\ Byte(v, Len(w) + 1) = Upper(v[Len(w) + 1])
      BY <1>1, <3>1 DEF Byte
    <3>3. Upper(v[Len(w) + 1]) \in 1 .. 255
      BY <1>1, <1>2, <3>1
    <3>4. Upper(v[Len(w) + 1]) = 0
      BY <2>1, <3>1, <3>2
    <3> QED
      BY <3>3, <3>4
  <2>3. ASSUME Len(v) < Len(w) PROVE FALSE
    <3>1. Len(w) \in 1 .. Len(w) + 1 /\ Len(w) \in 1 .. Len(w) /\ ~ (Len(w) <= Len(v))
      BY <1>1, <2>3
    <3>2. Byte(v, Len(w)) = 0 /\ Byte(w, Len(w)) = Upper(w[Len(w)])
      BY <1>1, <3>1 DEF Byte
    <3>3. Upper(w[Len(w)]) \in 1 .. 255
      BY <1>1, <1>2, <3>1
    <3>4. Upper(w[Len(w)]) = 0
      BY <2>1, <3>1, <3>2
    <3> QED
      BY <3>3, <3>4
  <2>4. Len(v) = Len(w)
    BY <1>1, <2>2, <2>3
  <2>5. \A i \in 1 .. Len(w) : Upper(w[i]) = Upper(v[i])
    <3> TAKE i \in 1 .. Len(w)
    <3>1. i \in 1 .. Len(w) + 1 /\ i <= Len(w) /\ i <= Len(v)
      BY <1>1, <2>4
    <3> QED
      BY <2>1, <3>1 DEF Byte
  <2> QED
    BY <2>4, <2>5 DEF Same
<1>5. ASSUME Same(w, v) PROVE apart = {}
  <2> DEFINE a == [i \in 1 .. Len(w) |-> Upper(w[i])]
             b == [i \in 1 .. Len(v) |-> Upper(v[i])]
  <2>1. a = b /\ DOMAIN a = 1 .. Len(w) /\ DOMAIN b = 1 .. Len(v)
    BY <1>5 DEF Same
  <2>2. 1 .. Len(w) = 1 .. Len(v)
    <3> HIDE DEF a, b
    <3> QED
      BY <2>1
  <2>3. Len(v) = Len(w)
    <3>1. \A i \in 1 .. Len(w) : i \in 1 .. Len(v)
      BY <2>2
    <3>2. \A i \in 1 .. Len(v) : i \in 1 .. Len(w)
      BY <2>2
    <3>3. Len(w) # 0 => Len(w) \in 1 .. Len(w)
      BY <1>1
    <3>4. Len(v) # 0 => Len(v) \in 1 .. Len(v)
      BY <1>1
    <3> QED
      BY <1>1, <3>1, <3>2, <3>3, <3>4
  <2>4. \A i \in 1 .. Len(w) : a[i] = Upper(w[i]) /\ b[i] = Upper(v[i])
    BY <2>3
  <2> HIDE DEF a, b
  <2>5. \A i \in 1 .. Len(w) : Upper(w[i]) = Upper(v[i])
    BY <2>1, <2>4
  <2>6. ASSUME NEW i \in 1 .. Len(w) + 1 PROVE Byte(w, i) = Byte(v, i)
    <3>1. i \in 1 .. Len(w) \/ ~ (i <= Len(w))
      BY <1>1
    <3> QED
      BY <1>1, <2>3, <2>5, <3>1 DEF Byte
  <2> QED
    BY <2>6
<1> QED
  BY <1>3, <1>4, <1>5

\* The first place of a word in a list of names.
LEMMA PlaceIsFirst ==
  ASSUME NEW word \in Word, NEW names \in Seq(Word)
  PROVE  /\ PlaceOf(word, names) \in 0 .. Len(names)
         /\ PlaceOf(word, names) = 0 => \A i \in 1 .. Len(names) : ~Same(word, names[i])
         /\ PlaceOf(word, names) # 0 =>
              /\ Same(word, names[PlaceOf(word, names)])
              /\ \A i \in 1 .. PlaceOf(word, names) - 1 : ~Same(word, names[i])
<1> DEFINE same == {i \in 1 .. Len(names) : Memcmpi(word, names[i], Len(word) + 1) = 0}
           alike == {i \in 1 .. Len(names) : Same(word, names[i])}
<1>1. same = alike
  <2>1. \A i \in 1 .. Len(names) : names[i] \in Word
    OBVIOUS
  <2> QED
    BY <2>1, MemcmpiIsSame
<1>2. PlaceOf(word, names) = IF alike = {} THEN 0 ELSE CHOOSE i \in alike : \A j \in alike : i <= j
  <2>1. PlaceOf(word, names) = IF same = {} THEN 0 ELSE CHOOSE i \in same : \A j \in same : i <= j
    BY DEF PlaceOf
  <2> HIDE DEF same, alike
  <2> QED
    BY <1>1, <2>1
<1>3. CASE alike = {}
  <2>1. \A i \in 1 .. Len(names) : ~Same(word, names[i])
    BY <1>3
  <2>2. PlaceOf(word, names) = 0
    BY <1>2, <1>3
  <2> QED
    BY <2>1, <2>2
<1>4. CASE alike # {}
  <2>1. alike \in SUBSET Nat
    OBVIOUS
  <2>2. PICK k \in alike : \A m \in alike : k <= m
    <3> HIDE DEF alike
    <3> QED
      BY <1>4, <2>1, LeastExists
  <2>3. PlaceOf(word, names) = k
    <3> HIDE DEF alike
    <3> QED
      BY <1>2, <1>4, <2>1, <2>2, LeastIsChosen
  <2>4. k \in 1 .. Len(names) /\ Same(word, names[k]) /\ Len(names) \in Nat
    BY <2>2
  <2>5. ASSUME NEW i \in 1 .. k - 1 PROVE ~Same(word, names[i])
    <3>1. i \in 1 .. Len(names) /\ ~ (k <= i)
      BY <2>4
    <3> QED
      BY <2>2, <3>1
  <2> QED
    BY <2>3, <2>4, <2>5
<1> QED
  BY <1>3, <1>4

\* Three lists behind one another.
LEMMA ThreeLists ==
  ASSUME NEW A \in Seq(Word), NEW B \in Seq(Word), NEW C \in Seq(Word)
  PROVE  /\ Len(A) \in Nat /\ Len(B) \in Nat /\ Len(C) \in Nat
         /\ A \o B \o C \in Seq(Word) /\ Len(A \o B \o C) = Len(A) + Len(B) + Len(C)
         /\ \A i \in 1 .. Len(A) : (A \o B \o C)[i] = A[i]
         /\ \A i \in 1 .. Len(B) : (A \o B \o C)[Len(A) + i] = B[i]
         /\ \A i \in 1 .. Len(C) : (A \o B \o C)[Len(A) + Len(B) + i] = C[i]
<1>1. Len(A) \in Nat /\ Len(B) \in Nat /\ Len(C) \in Nat
  OBVIOUS
<1>2. /\ A \o B \in Seq(Word) /\ Len(A \o B) = Len(A) + Len(B)
      /\ \A k \in 1 .. Len(A) + Len(B) : (A \o B)[k] = IF k <= Len(A) THEN A[k] ELSE B[k - Len(A)]
  BY ConcatProperties
<1>3. PICK D \in Seq(Word) : D = A \o B
  BY <1>2
<1>4. /\ D \o C \in Seq(Word) /\ Len(D \o C) = Len(D) + Len(C)
      /\ \A k \in 1 .. Len(D) + Len(C) : (D \o C)[k] = IF k <= Len(D) THEN D[k] ELSE C[k - Len(D)]
  BY ConcatProperties
<1>5. Len(D) = Len(A) + Len(B)
  BY <1>2, <1>3
<1>6. ASSUME NEW i \in 1 .. Len(A) PROVE (D \o C)[i] = A[i]
  <2>1. i \in 1 .. Len(D) + Len(C) /\ i <= Len(D) /\ i \in 1 .. Len(A) + Len(B) /\ i <= Len(A)
    BY <1>1, <1>5
  <2> QED
    BY <1>2, <1>3, <1>4, <2>1
<1>7. ASSUME NEW i \in 1 .. Len(B) PROVE (D \o C)[Len(A) + i] = B[i]
  <2>1. Len(A) + i \in 1 .. Len(D) + Len(C) /\ Len(A) + i <= Len(D)
        /\ Len(A) + i \in 1 .. Len(A) + Len(B) /\ ~ (Len(A) + i <= Len(A)) /\ (Len(A) + i) - Len(A) = i
    BY <1>1, <1>5
  <2> QED
    BY <1>2, <1>3, <1>4, <2>1
<1>8. ASSUME NEW i \in 1 .. Len(C) PROVE (D \o C)[Len(A) + Len(B) + i] = C[i]
  <2>1. Len(A) + Len(B) + i \in 1 .. Len(D) + Len(C) /\ ~ (Len(A) + Len(B) + i <= Len(D))
        /\ (Len(A) + Len(B) + i) - Len(D) = i
    BY <1>1, <1>5
  <2> QED
    BY <1>4, <2>1
<1> QED
  BY <1>1, <1>3, <1>4, <1>5, <1>6, <1>7, <1>8

CliTyped ==
  /\ commands \in [AllGroups -> Seq(Word)] /\ subgroups \in [AllGroups -> Seq(Groups)]

\* The three lists of a group.
LEMMA ListsAreWords ==
  ASSUME CliTyped, NEW g \in AllGroups
  PROVE  /\ CommandList(g) \in Seq(Word) /\ commands[g] \in Seq(Word) /\ SubgroupNames(g) \in Seq(Word)
         /\ Len(SubgroupNames(g)) = Len(subgroups[g])
         /\ \A i \in 1 .. Len(subgroups[g]) : subgroups[g][i] \in Groups
<1>1. CommandList(g) \in Seq(Word)
  <2>1. \A b \in 1 .. 255, c \in 1 .. 255 : <<b>> \in Word /\ <<b, c>> \in Word
    BY DEF Word
  <2>2. /\ <<86>> \in Word /\ <<72>> \in Word /\ <<69>> \in Word /\ <<82, 101>> \in Word
        /\ <<85>> \in Word /\ <<82, 111>> \in Word
    <3>1. 86 \in 1 .. 255 /\ 72 \in 1 .. 255 /\ 69 \in 1 .. 255 /\ 82 \in 1 .. 255 /\ 101 \in 1 .. 255
          /\ 85 \in 1 .. 255 /\ 111 \in 1 .. 255
      OBVIOUS
    <3> QED
      BY <2>1, <3>1, Zenon
  <2> HIDE DEF Word
  <2>3. \A v, w, x, y, z \in Word : <<v, w, x, y>> \in Seq(Word) /\ <<v, w, x, y, z>> \in Seq(Word)
    OBVIOUS
  <2> QED
    BY <2>2, <2>3 DEF CommandList, Root_Command_List, Common_Command_List
<1>2. commands[g] \in Seq(Word) /\ subgroups[g] \in Seq(Groups)
  BY DEF CliTyped
<1>3. Len(subgroups[g]) \in Nat /\ \A i \in 1 .. Len(subgroups[g]) : subgroups[g][i] \in Groups
  BY <1>2
<1>4. SubgroupNames(g) \in [1 .. Len(subgroups[g]) -> Word]
  BY <1>3, CliAssumption DEF SubgroupNames
<1>5. SubgroupNames(g) \in Seq(Word) /\ Len(SubgroupNames(g)) = Len(subgroups[g])
  BY <1>3, <1>4, SequenceOf
<1> QED
  BY <1>1, <1>2, <1>3, <1>5

\* What a parameter means: an entry of a group, and its line in the list.
Stands(g, found, line) ==
  LET a == Len(CommandList(g))
      b == Len(commands[g])
      c == Len(subgroups[g])
  IN  \/ found = NotFound /\ line = -1
      \/ \E k \in 1 .. a : found = Entry("common", k) /\ line = k - 1
      \/ \E k \in 1 .. b : found = Entry("command", k) /\ line = a + k - 1
      \/ \E k \in 1 .. c : found = Entry("group", k) /\ line = a + b + k - 1

\* The parameter means line n of these.
Meant(lines, p, n) ==
  IF "number" \in DOMAIN p THEN n = p.number ELSE Same(p.word, lines[n + 1])

\* LineOf() gives the first line that is meant.
LEMMA LineIsFirst ==
  ASSUME NEW g, NEW p, NEW L \in Nat, L = Len(Display_Command_List(g))
  PROVE  LET lines == Display_Command_List(g) IN
         /\ (\A n \in 0 .. L - 1 : ~Meant(lines, p, n)) => LineOf(g, p) = -1
         /\ \A k \in 0 .. L - 1 :
              Meant(lines, p, k) /\ (\A n \in 0 .. k - 1 : ~Meant(lines, p, n)) => LineOf(g, p) = k
<1> DEFINE lines == Display_Command_List(g)
           fits == {n \in 0 .. L - 1 : Meant(lines, p, n)}
<1>1. LineOf(g, p) = IF fits = {} THEN -1 ELSE CHOOSE n \in fits : \A m \in fits : n <= m
  BY DEF LineOf, Meant, Same
<1> HIDE DEF lines
<1>2. fits \in SUBSET Nat
  OBVIOUS
<1>3. ASSUME \A n \in 0 .. L - 1 : ~Meant(lines, p, n) PROVE LineOf(g, p) = -1
  BY <1>1, <1>3
<1>4. ASSUME NEW k \in 0 .. L - 1, Meant(lines, p, k), \A n \in 0 .. k - 1 : ~Meant(lines, p, n)
      PROVE  LineOf(g, p) = k
  <2>1. k \in fits /\ \A m \in fits : k <= m
    BY <1>4
  <2> HIDE DEF fits
  <2> QED
    BY <1>1, <1>2, <2>1, LeastIsChosen
<1> QED
  BY <1>3, <1>4 DEF lines

\* The list of a group is its three lists.
Three(g, A, B, C, lines) ==
  /\ A = CommandList(g) /\ B = commands[g] /\ C = SubgroupNames(g)
  /\ Len(C) = Len(subgroups[g]) /\ lines = Display_Command_List(g)
  /\ Len(A) \in Nat /\ Len(B) \in Nat /\ Len(C) \in Nat
  /\ Len(lines) = Len(A) + Len(B) + Len(C)
  /\ \A i \in 1 .. Len(A) : lines[i] = A[i]
  /\ \A i \in 1 .. Len(B) : lines[Len(A) + i] = B[i]
  /\ \A i \in 1 .. Len(C) : lines[Len(A) + Len(B) + i] = C[i]

\* Display_Command_List() puts them behind one another.
LEMMA ListIsThree ==
  ASSUME CliTyped, NEW g \in AllGroups
  PROVE  \E A, B, C, lines \in Seq(Word) : Three(g, A, B, C, lines)
<1>1. PICK A, B, C \in Seq(Word) : /\ A = CommandList(g) /\ B = commands[g] /\ C = SubgroupNames(g)
                                   /\ Len(C) = Len(subgroups[g])
  BY ListsAreWords
<1>2. PICK lines : lines = A \o B \o C
  OBVIOUS
<1>3. lines = Display_Command_List(g)
  BY <1>1, <1>2, CliAssumption DEF Display_Command_List, AllGroups
<1>4. /\ Len(A) \in Nat /\ Len(B) \in Nat /\ Len(C) \in Nat
      /\ lines \in Seq(Word) /\ Len(lines) = Len(A) + Len(B) + Len(C)
      /\ \A i \in 1 .. Len(A) : lines[i] = A[i]
      /\ \A i \in 1 .. Len(B) : lines[Len(A) + i] = B[i]
      /\ \A i \in 1 .. Len(C) : lines[Len(A) + Len(B) + i] = C[i]
  BY <1>2, ThreeLists
<1>5. lines \in Seq(Word)
  BY <1>2, ThreeLists
<1>6. Three(g, A, B, C, lines)
  BY <1>1, <1>3, <1>4 DEF Three
<1> QED
  BY <1>5, <1>6

\* How long they are.
LEMMA ListLengths ==
  ASSUME CliTyped, NEW g \in AllGroups
  PROVE  \E a, b, c \in Nat :
           /\ a = Len(CommandList(g)) /\ b = Len(commands[g]) /\ c = Len(subgroups[g])
           /\ Len(Display_Command_List(g)) = a + b + c
<1>0. PICK A, B, C, lines \in Seq(Word) : Three(g, A, B, C, lines)
  BY ListIsThree
<1>1. /\ A = CommandList(g) /\ B = commands[g] /\ C = SubgroupNames(g)
      /\ Len(C) = Len(subgroups[g]) /\ lines = Display_Command_List(g)
      /\ Len(lines) = Len(A) + Len(B) + Len(C)
  BY <1>0 DEF Three
<1>2. PICK a, b, c \in Nat : a = Len(A) /\ b = Len(B) /\ c = Len(C)
  BY <1>0 DEF Three
<1>3. /\ a = Len(CommandList(g)) /\ b = Len(commands[g]) /\ c = Len(subgroups[g])
      /\ Len(Display_Command_List(g)) = a + b + c
  BY <1>1, <1>2
<1> QED
  BY <1>3, Zenon

\* Find_Command() finds what the list shows, by a number.
LEMMA NumberStands ==
  ASSUME CliTyped, NEW g \in AllGroups, NEW p \in [number : TypedNumbers]
  PROVE  Stands(g, Find_Command(g, p), LineOf(g, p))
<1>1. g # NoGroup
  BY CliAssumption DEF AllGroups
<1>2. PICK a, b, c \in Nat : /\ a = Len(CommandList(g)) /\ b = Len(commands[g]) /\ c = Len(subgroups[g])
                             /\ Len(Display_Command_List(g)) = a + b + c
  BY ListLengths
<1>3. "number" \in DOMAIN p /\ p.number \in Int
  BY CliAssumption
<1>4. PICK x \in Int : x = p.number
  BY <1>3
<1>5. Find_Command(g, p) = FindNumber(g, x)
  BY <1>1, <1>3, <1>4 DEF Find_Command
<1>6. IF x \in 0 .. a + b + c - 1 THEN LineOf(g, p) = x ELSE LineOf(g, p) = -1
  <2>1. PICK lines : lines = Display_Command_List(g)
    OBVIOUS
  <2>2. \A n : Meant(lines, p, n) <=> n = x
    <3>1. \A n : Meant(lines, p, n) <=> n = p.number
      BY <1>3, Zenon DEF Meant
    <3> QED
      BY <1>4, <3>1, Zenon
  <2>3. PICK L \in Nat : L = a + b + c
    OBVIOUS
  <2>4. ASSUME x \in 0 .. L - 1 PROVE LineOf(g, p) = x
    <3>1. \A n \in 0 .. x - 1 : n # x
      BY <1>4
    <3> QED
      BY <1>2, <2>1, <2>2, <2>3, <2>4, <3>1, LineIsFirst
  <2>5. ASSUME ~ (x \in 0 .. L - 1) PROVE LineOf(g, p) = -1
    <3>1. \A n \in 0 .. L - 1 : n # x
      BY <2>5
    <3> QED
      BY <3>1, <1>2, <2>1, <2>2, <2>3, <2>5, LineIsFirst
  <2> QED
    BY <2>3, <2>4, <2>5
<1>7. FindNumber(g, x) = IF x < 0 THEN NotFound
                         ELSE IF x < a THEN Entry("common", x + 1)
                         ELSE IF x - a < b THEN Entry("command", x - a + 1)
                         ELSE IF x - a - b < c THEN Entry("group", x - a - b + 1)
                         ELSE NotFound
  BY <1>2 DEF FindNumber, COMMAND_START_INDEX
<1> SUFFICES \/ FindNumber(g, x) = NotFound /\ LineOf(g, p) = -1
             \/ \E k \in 1 .. a : FindNumber(g, x) = Entry("common", k) /\ LineOf(g, p) = k - 1
             \/ \E k \in 1 .. b : FindNumber(g, x) = Entry("command", k) /\ LineOf(g, p) = a + k - 1
             \/ \E k \in 1 .. c : FindNumber(g, x) = Entry("group", k) /\ LineOf(g, p) = a + b + k - 1
  BY <1>2, <1>5 DEF Stands
<1>8. CASE x < 0 \/ x >= a + b + c
  <2>1. ~ (x \in 0 .. a + b + c - 1)
    BY <1>8
  <2>2. x < 0 \/ (~ (x < 0) /\ ~ (x < a) /\ ~ (x - a < b) /\ ~ (x - a - b < c))
    BY <1>8
  <2> QED
    BY <1>6, <1>7, <2>1, <2>2
<1>9. CASE 0 <= x /\ x < a
  <2>1. x + 1 \in 1 .. a /\ x = (x + 1) - 1 /\ x \in 0 .. a + b + c - 1 /\ ~ (x < 0)
    BY <1>9
  <2> QED
    BY <1>6, <1>7, <1>9, <2>1
<1>10. CASE a <= x /\ x < a + b
  <2>1. x - a + 1 \in 1 .. b /\ x = a + (x - a + 1) - 1 /\ x \in 0 .. a + b + c - 1
        /\ ~ (x < 0) /\ ~ (x < a) /\ x - a < b
    BY <1>10
  <2> QED
    BY <1>6, <1>7, <2>1
<1>11. CASE a + b <= x /\ x < a + b + c
  <2>1. x - a - b + 1 \in 1 .. c /\ x = a + b + (x - a - b + 1) - 1 /\ x \in 0 .. a + b + c - 1
        /\ ~ (x < 0) /\ ~ (x < a) /\ ~ (x - a < b) /\ x - a - b < c
    BY <1>11
  <2> QED
    BY <1>6, <1>7, <2>1
<1> QED
  BY <1>8, <1>9, <1>10, <1>11

\* ... and by a word.
LEMMA WordStands ==
  ASSUME CliTyped, NEW g \in AllGroups, NEW p \in [word : TypedWords]
  PROVE  Stands(g, Find_Command(g, p), LineOf(g, p))
<1>1. g # NoGroup
  BY CliAssumption DEF AllGroups
<1>0. PICK A, B, C, lines \in Seq(Word) : Three(g, A, B, C, lines)
  BY ListIsThree
<1>2. /\ A = CommandList(g) /\ B = commands[g] /\ C = SubgroupNames(g)
      /\ Len(C) = Len(subgroups[g]) /\ lines = Display_Command_List(g)
      /\ Len(A) \in Nat /\ Len(B) \in Nat /\ Len(C) \in Nat
      /\ Len(lines) = Len(A) + Len(B) + Len(C)
      /\ \A i \in 1 .. Len(A) : lines[i] = A[i]
      /\ \A i \in 1 .. Len(B) : lines[Len(A) + i] = B[i]
      /\ \A i \in 1 .. Len(C) : lines[Len(A) + Len(B) + i] = C[i]
  BY <1>0 DEF Three
<1>3. ~ ("number" \in DOMAIN p) /\ p.word \in Word
  BY CliAssumption
<1>4. PICK w \in Word : w = p.word
  BY <1>3
<1>5. PICK a, b, c \in Nat : a = Len(A) /\ b = Len(B) /\ c = Len(C)
  BY <1>2
<1>6. \A n : Meant(lines, p, n) <=> Same(w, lines[n + 1])
  BY <1>3, <1>4, Zenon DEF Meant
<1>7. PICK i, j, k : i = PlaceOf(w, A) /\ j = PlaceOf(w, B) /\ k = PlaceOf(w, C)
  OBVIOUS
<1>8. Find_Command(g, p) = IF i # 0 THEN Entry("common", i)
                           ELSE IF j # 0 THEN Entry("command", j)
                           ELSE IF k # 0 THEN Entry("group", k)
                           ELSE NotFound
  BY <1>1, <1>2, <1>3, <1>4, <1>7 DEF Find_Command, FindName
<1>9. /\ i \in 0 .. a
      /\ i = 0 => \A n \in 1 .. a : ~Same(w, A[n])
      /\ i # 0 => Same(w, A[i]) /\ \A n \in 1 .. i - 1 : ~Same(w, A[n])
  BY <1>5, <1>7, PlaceIsFirst
<1>10. /\ j \in 0 .. b
       /\ j = 0 => \A n \in 1 .. b : ~Same(w, B[n])
       /\ j # 0 => Same(w, B[j]) /\ \A n \in 1 .. j - 1 : ~Same(w, B[n])
  BY <1>5, <1>7, PlaceIsFirst
<1>11. /\ k \in 0 .. c
       /\ k = 0 => \A n \in 1 .. c : ~Same(w, C[n])
       /\ k # 0 => Same(w, C[k]) /\ \A n \in 1 .. k - 1 : ~Same(w, C[n])
  BY <1>5, <1>7, PlaceIsFirst
\* The same of the lines.
<1>12. /\ \A n \in 0 .. a - 1 : Meant(lines, p, n) <=> Same(w, A[n + 1])
       /\ \A n \in a .. a + b - 1 : Meant(lines, p, n) <=> Same(w, B[n - a + 1])
       /\ \A n \in a + b .. a + b + c - 1 : Meant(lines, p, n) <=> Same(w, C[n - a - b + 1])
  <2>1. ASSUME NEW n \in 0 .. a - 1 PROVE Meant(lines, p, n) <=> Same(w, A[n + 1])
    <3>1. n + 1 \in 1 .. Len(A)
      BY <1>5
    <3> QED
      BY <1>2, <1>6, <3>1
  <2>2. ASSUME NEW n \in a .. a + b - 1 PROVE Meant(lines, p, n) <=> Same(w, B[n - a + 1])
    <3>1. n - a + 1 \in 1 .. Len(B) /\ Len(A) + (n - a + 1) = n + 1
      BY <1>5
    <3>2. lines[n + 1] = B[n - a + 1]
      BY <1>2, <3>1
    <3> QED
      BY <1>6, <3>2
  <2>3. ASSUME NEW n \in a + b .. a + b + c - 1 PROVE Meant(lines, p, n) <=> Same(w, C[n - a - b + 1])
    <3>1. n - a - b + 1 \in 1 .. Len(C) /\ Len(A) + Len(B) + (n - a - b + 1) = n + 1
      BY <1>5
    <3>2. lines[n + 1] = C[n - a - b + 1]
      BY <1>2, <3>1
    <3> QED
      BY <1>6, <3>2
  <2> QED
    BY <2>1, <2>2, <2>3
<1>13. PICK L \in Nat : L = a + b + c /\ L = Len(Display_Command_List(g))
  <2>1. a + b + c \in Nat
    OBVIOUS
  <2>2. Len(Display_Command_List(g)) = a + b + c
    BY <1>2, <1>5
  <2> QED
    BY <2>1, <2>2, Zenon
<1>14. /\ (\A n \in 0 .. L - 1 : ~Meant(lines, p, n)) => LineOf(g, p) = -1
       /\ \A m \in 0 .. L - 1 :
            Meant(lines, p, m) /\ (\A n \in 0 .. m - 1 : ~Meant(lines, p, n)) => LineOf(g, p) = m
  BY <1>2, <1>13, LineIsFirst
<1> SUFFICES \/ Find_Command(g, p) = NotFound /\ LineOf(g, p) = -1
             \/ \E m \in 1 .. a : Find_Command(g, p) = Entry("common", m) /\ LineOf(g, p) = m - 1
             \/ \E m \in 1 .. b : Find_Command(g, p) = Entry("command", m) /\ LineOf(g, p) = a + m - 1
             \/ \E m \in 1 .. c : Find_Command(g, p) = Entry("group", m) /\ LineOf(g, p) = a + b + m - 1
  BY <1>2, <1>5 DEF Stands
<1>15. ASSUME i = 0, NEW n \in 0 .. a - 1 PROVE ~Meant(lines, p, n)
  <2>1. n + 1 \in 1 .. a
    OBVIOUS
  <2> QED
    BY <1>9, <1>12, <1>15, <2>1
<1>16. ASSUME j = 0, NEW n \in a .. a + b - 1 PROVE ~Meant(lines, p, n)
  <2>1. n - a + 1 \in 1 .. b
    OBVIOUS
  <2> QED
    BY <1>10, <1>12, <1>16, <2>1
<1>17. CASE i # 0
  <2>1. i \in 1 .. a /\ i - 1 \in 0 .. a - 1 /\ i - 1 \in 0 .. L - 1 /\ (i - 1) + 1 = i
    BY <1>9, <1>13, <1>17
  <2>2. Meant(lines, p, i - 1)
    BY <1>9, <1>12, <1>17, <2>1
  <2>3. ASSUME NEW n \in 0 .. (i - 1) - 1 PROVE ~Meant(lines, p, n)
    <3>1. n \in 0 .. a - 1 /\ n + 1 \in 1 .. i - 1
      BY <2>1
    <3> QED
      BY <1>9, <1>12, <1>17, <3>1
  <2>4. LineOf(g, p) = i - 1
    BY <1>14, <2>1, <2>2, <2>3
  <2> QED
    BY <1>8, <1>17, <2>1, <2>4
<1>18. CASE i = 0 /\ j # 0
  <2> DEFINE m == a + j - 1
  <2>1. j \in 1 .. b /\ m \in a .. a + b - 1 /\ m \in 0 .. L - 1 /\ m - a + 1 = j
    BY <1>10, <1>13, <1>18
  <2>2. Meant(lines, p, m)
    BY <1>10, <1>12, <1>18, <2>1
  <2>3. ASSUME NEW n \in 0 .. m - 1 PROVE ~Meant(lines, p, n)
    <3>1. CASE n \in 0 .. a - 1
      BY <1>15, <1>18, <3>1
    <3>2. CASE n \in a .. m - 1
      <4>1. n \in a .. a + b - 1 /\ n - a + 1 \in 1 .. j - 1
        BY <2>1, <3>2
      <4> QED
        BY <1>10, <1>12, <1>18, <4>1
    <3> QED
      BY <3>1, <3>2
  <2> HIDE DEF m
  <2>4. LineOf(g, p) = m
    BY <1>14, <2>1, <2>2, <2>3
  <2> QED
    BY <1>8, <1>18, <2>1, <2>4 DEF m
<1>19. CASE i = 0 /\ j = 0 /\ k # 0
  <2> DEFINE m == a + b + k - 1
  <2>1. k \in 1 .. c /\ m \in a + b .. a + b + c - 1 /\ m \in 0 .. L - 1 /\ m - a - b + 1 = k
    BY <1>11, <1>13, <1>19
  <2>2. Meant(lines, p, m)
    BY <1>11, <1>12, <1>19, <2>1
  <2>3. ASSUME NEW n \in 0 .. m - 1 PROVE ~Meant(lines, p, n)
    <3>1. CASE n \in 0 .. a - 1
      BY <1>15, <1>19, <3>1
    <3>2. CASE n \in a .. a + b - 1
      BY <1>16, <1>19, <3>2
    <3>3. CASE n \in a + b .. m - 1
      <4>1. n \in a + b .. a + b + c - 1 /\ n - a - b + 1 \in 1 .. k - 1
        BY <2>1, <3>3
      <4> QED
        BY <1>11, <1>12, <1>19, <4>1
    <3> QED
      BY <3>1, <3>2, <3>3
  <2> HIDE DEF m
  <2>4. LineOf(g, p) = m
    BY <1>14, <2>1, <2>2, <2>3
  <2> QED
    BY <1>8, <1>19, <2>1, <2>4 DEF m
<1>20. CASE i = 0 /\ j = 0 /\ k = 0
  <2>1. ASSUME NEW n \in 0 .. L - 1 PROVE ~Meant(lines, p, n)
    <3>1. CASE n \in 0 .. a - 1
      BY <1>15, <1>20, <3>1
    <3>2. CASE n \in a .. a + b - 1
      BY <1>16, <1>20, <3>2
    <3>3. CASE n \in a + b .. a + b + c - 1
      <4>1. n - a - b + 1 \in 1 .. c
        BY <3>3
      <4> QED
        BY <1>11, <1>12, <1>20, <3>3, <4>1
    <3> QED
      BY <1>13, <3>1, <3>2, <3>3
  <2>2. LineOf(g, p) = -1
    BY <1>14, <2>1
  <2> QED
    BY <1>8, <1>20, <2>2
<1> QED
  BY <1>17, <1>18, <1>19, <1>20

\* What is found is what is shown: nothing where no line is meant, and a group
\* where its line is.
LEMMA FindsTheLine ==
  ASSUME CliTyped, NEW g \in AllGroups, NEW p \in Parameters
  PROVE  LET found == Find_Command(g, p)
             line == LineOf(g, p)
         IN  /\ found = NotFound <=> line = -1
             /\ found # NotFound =>
                  IF found.list = "group"
                  THEN /\ GroupOf(g, line) = subgroups[g][found.at]
                       /\ subgroups[g][found.at] \in Groups
                  ELSE GroupOf(g, line) = NoGroup
<1>1. Stands(g, Find_Command(g, p), LineOf(g, p))
  BY NumberStands, WordStands DEF Parameters
<1>2. PICK a, b, c \in Nat : /\ a = Len(CommandList(g)) /\ b = Len(commands[g]) /\ c = Len(subgroups[g])
                             /\ Len(Display_Command_List(g)) = a + b + c
  BY ListLengths
<1>3. \A i \in 1 .. c : subgroups[g][i] \in Groups
  BY <1>2, ListsAreWords
<1>4. PICK found, line : found = Find_Command(g, p) /\ line = LineOf(g, p)
  OBVIOUS
<1>5. GroupOf(g, line) = IF line >= 0 /\ line - (a + b + c) + c + 1 >= 1
                         THEN subgroups[g][line - (a + b + c) + c + 1] ELSE NoGroup
  BY <1>2 DEF GroupOf
<1>6. CASE found = NotFound /\ line = -1
  BY <1>4, <1>6
<1>7. ASSUME NEW k \in 1 .. a, found = Entry("common", k), line = k - 1
      PROVE  found # NotFound /\ found.list # "group" /\ line # -1 /\ GroupOf(g, line) = NoGroup
  BY <1>5, <1>7 DEF Entry, NotFound
<1>8. ASSUME NEW k \in 1 .. b, found = Entry("command", k), line = a + k - 1
      PROVE  found # NotFound /\ found.list # "group" /\ line # -1 /\ GroupOf(g, line) = NoGroup
  BY <1>5, <1>8 DEF Entry, NotFound
<1>9. ASSUME NEW k \in 1 .. c, found = Entry("group", k), line = a + b + k - 1
      PROVE  /\ found # NotFound /\ found.list = "group" /\ found.at = k /\ line # -1
             /\ GroupOf(g, line) = subgroups[g][k]
  <2>1. line >= 0 /\ line - (a + b + c) + c + 1 >= 1 /\ line - (a + b + c) + c + 1 = k
    BY <1>9
  <2> QED
    BY <1>5, <1>9, <2>1 DEF Entry, NotFound
<1>10. \/ found = NotFound /\ line = -1
       \/ \E k \in 1 .. a : found = Entry("common", k) /\ line = k - 1
       \/ \E k \in 1 .. b : found = Entry("command", k) /\ line = a + k - 1
       \/ \E k \in 1 .. c : found = Entry("group", k) /\ line = a + b + k - 1
  BY <1>1, <1>2, <1>4 DEF Stands
<1> QED
  BY <1>3, <1>4, <1>6, <1>7, <1>8, <1>9, <1>10

\* The value of Display_Help() by the entries found, for up to two parameters.
LEMMA HelpIs ==
  ASSUME CliTyped, NEW g \in AllGroups \cup {NoGroup},
         NEW n \in 0 .. 2, NEW ps \in [1 .. n -> Parameters]
  PROVE  LET found == Find_Command(g, ps[1])
             below == subgroups[g][found.at]
         IN  Display_Help(g, ps) =
               IF n = 0 THEN 0
               ELSE IF found = NotFound THEN 1
               ELSE IF n = 1 THEN 0
               ELSE IF found.list # "group" \/ Find_Command(below, ps[2]) = NotFound THEN 2 ELSE 0
<1> DEFINE G == AllGroups \cup {NoGroup}
           Row(k, later) == [h \in G |->
             IF k > Len(ps) THEN 0
             ELSE LET found == Find_Command(h, ps[k]) IN
                  IF found = NotFound THEN 1
                  ELSE IF found.list = "group"
                  THEN LET below == later[subgroups[h][found.at]]
                       IN  IF below > 0 THEN below + 1 ELSE 0
                  ELSE IF k = Len(ps) THEN 0 ELSE 2]
           P(f) == f = [k \in 1 .. Len(ps) + 1 |-> Row(k, f[k + 1])]
           zero == [h \in G |-> 0]
           rows == [k \in 1 .. n + 1 |-> IF k = n + 1 THEN zero
                                         ELSE IF k = n THEN Row(n, zero)
                                         ELSE Row(1, Row(2, zero))]
<1>1. Len(ps) = n
  BY SequenceOf
<1>2. \A later : Row(n + 1, later) = zero
  BY <1>1
<1> HIDE DEF Row, zero
<1>3. P(rows)
  <2>1. ASSUME NEW k \in 1 .. n + 1 PROVE rows[k] = Row(k, rows[k + 1])
    <3>1. CASE k = n + 1
      BY <1>2, <3>1
    <3>2. CASE k = n
      BY <3>2
    <3>3. CASE k = 1 /\ n = 2
      BY <3>3
    <3> QED
      BY <3>1, <3>2, <3>3
  <2> HIDE DEF rows
  <2>2. rows = [k \in 1 .. n + 1 |-> rows[k]]
    BY DEF rows
  <2> QED
    BY <1>1, <2>1, <2>2
<1> DEFINE help == CHOOSE f : P(f)
<1>4. P(help)
  <2> HIDE DEF P, rows
  <2> QED
    BY <1>3
<1>5. Display_Help(g, ps) = help[1][g]
  BY DEF Display_Help, Row
<1> HIDE DEF help
<1>6. \A k \in 1 .. n + 1 : help[k] = Row(k, help[k + 1])
  BY <1>1, <1>4
<1>7. help[n + 1] = zero
  BY <1>2, <1>6
<1> HIDE DEF P, rows
<1>8. PICK F : F = [h \in G |-> [k \in 1 .. n |-> Find_Command(h, ps[k])]]
  OBVIOUS
<1>9. \A k \in 1 .. n, h \in G :
        help[k][h] = IF Find_Command(h, ps[k]) = NotFound THEN 1
                     ELSE IF Find_Command(h, ps[k]).list = "group"
                     THEN IF help[k + 1][subgroups[h][Find_Command(h, ps[k]).at]] > 0
                          THEN help[k + 1][subgroups[h][Find_Command(h, ps[k]).at]] + 1 ELSE 0
                     ELSE IF k = n THEN 0 ELSE 2
  <2> TAKE k \in 1 .. n, h \in G
  <2>1. k \in 1 .. n + 1 /\ ~ (k > Len(ps))
    BY <1>1
  <2>2. PICK later : later = help[k + 1]
    OBVIOUS
  <2>3. PICK found : found = Find_Command(h, ps[k])
    OBVIOUS
  <2>4. Row(k, later)[h] = IF found = NotFound THEN 1
                           ELSE IF found.list = "group"
                           THEN IF later[subgroups[h][found.at]] > 0
                                THEN later[subgroups[h][found.at]] + 1 ELSE 0
                           ELSE IF k = n THEN 0 ELSE 2
    BY <1>1, <2>1, <2>3 DEF Row
  <2>5. help[k][h] = Row(k, later)[h]
    BY <1>6, <2>1, <2>2
  <2> QED
    BY <2>2, <2>3, <2>4, <2>5
<1>10. \A h \in AllGroups, k \in 1 .. n :
         Find_Command(h, ps[k]) # NotFound /\ Find_Command(h, ps[k]).list = "group"
           => subgroups[h][Find_Command(h, ps[k]).at] \in Groups
  <2> TAKE h \in AllGroups, k \in 1 .. n
  <2>1. ps[k] \in Parameters
    OBVIOUS
  <2> QED
    BY <2>1, FindsTheLine
<1>11. \A k \in 1 .. n : Find_Command(NoGroup, ps[k]) = NotFound
  BY DEF Find_Command
<1>12. \A h \in Groups : h \in AllGroups /\ h \in G
  BY DEF AllGroups
<1>13. \A h \in G : zero[h] = 0
  BY DEF zero
<1> HIDE DEF G
<1>14. g \in G /\ (g = NoGroup \/ g \in AllGroups)
  BY DEF G
<1>15. CASE n = 0
  BY <1>5, <1>7, <1>13, <1>14, <1>15
<1>16. CASE n = 1
  <2>1. 1 \in 1 .. n
    BY <1>16
  <2> DEFINE found == Find_Command(g, ps[1])
  <2>2. found # NotFound /\ found.list = "group" => help[2][subgroups[g][found.at]] = 0
    BY <1>7, <1>10, <1>11, <1>12, <1>13, <1>14, <1>16, <2>1
  <2>3. help[1][g] = IF found = NotFound THEN 1
                     ELSE IF found.list = "group"
                     THEN IF help[2][subgroups[g][found.at]] > 0
                          THEN help[2][subgroups[g][found.at]] + 1 ELSE 0
                     ELSE 0
    BY <1>9, <1>14, <1>16, <2>1
  <2> QED
    BY <1>5, <1>16, <2>2, <2>3
<1>17. CASE n = 2
  <2>1. 1 \in 1 .. n /\ 2 \in 1 .. n
    BY <1>17
  <2>2. \A h \in Groups : help[2][h] = IF Find_Command(h, ps[2]) = NotFound THEN 1 ELSE 0
    <3> TAKE h \in Groups
    <3> DEFINE found == Find_Command(h, ps[2])
    <3>1. found # NotFound /\ found.list = "group" => help[3][subgroups[h][found.at]] = 0
      BY <1>7, <1>10, <1>12, <1>13, <1>17, <2>1
    <3>2. help[2][h] = IF found = NotFound THEN 1
                       ELSE IF found.list = "group"
                       THEN IF help[3][subgroups[h][found.at]] > 0
                            THEN help[3][subgroups[h][found.at]] + 1 ELSE 0
                       ELSE 0
      BY <1>9, <1>12, <1>17, <2>1
    <3> QED
      BY <3>1, <3>2
  <2> DEFINE found == Find_Command(g, ps[1])
             below == subgroups[g][found.at]
  <2>3. found # NotFound /\ found.list = "group" => below \in Groups
    BY <1>10, <1>11, <1>14, <2>1
  <2>4. help[1][g] = IF found = NotFound THEN 1
                     ELSE IF found.list = "group"
                     THEN IF help[2][below] > 0 THEN help[2][below] + 1 ELSE 0
                     ELSE 2
    BY <1>9, <1>14, <1>17, <2>1
  <2> QED
    BY <1>5, <1>17, <2>2, <2>3, <2>4
<1> QED
  BY <1>15, <1>16, <1>17

\* What is displayed is what the list says.
HelpIsListed ==
  helped = NotHelped \/
    \E g \in AllGroups \cup {NoGroup}, n \in 0 .. 2 :
      \E ps \in [1 .. n -> Parameters] :
        helped = [group |-> g, params |-> ps, result |-> Display_Help(g, ps)]

CliInv == CliTyped /\ HelpIsListed

\* The command line, in use or not.
CliRuns == (CliInit \/ NoCli) /\ [][CliNext]_cliVars

\* For any groups and words, and up to two parameters: the value of the help is
\* 0, or the position of the first parameter that names no line of the list
\* (Display_Help(), Find_Command() and Memcmpi() of cli.c).
THEOREM HelpFollowsTheListHolds ==
  /\ CliSpec => []HelpFollowsTheList
  /\ CliRuns => []HelpFollowsTheList
<1>1. CliInit => CliInv
  <2> SUFFICES ASSUME CliInit PROVE CliInv
    OBVIOUS
  <2>1. \A S : \A max \in Nat : ListsOf(S, max) \subseteq Seq(S)
    BY SequenceOf DEF ListsOf
  <2>2. ListsOf(CommandWords, MAX_COMMANDS) \subseteq Seq(Word)
    <3>1. CommandWords \subseteq Word
      BY CliAssumption
    <3> HIDE DEF Word
    <3>2. ListsOf(CommandWords, MAX_COMMANDS) \subseteq ListsOf(Word, MAX_COMMANDS)
      BY <3>1 DEF ListsOf
    <3> QED
      BY <2>1, <3>2, CliAssumption
  <2>3. /\ subgroups \in [AllGroups -> ListsOf(Groups, MAX_SUBGROUPS)]
        /\ commands \in [AllGroups -> ListsOf(CommandWords, MAX_COMMANDS)]
        /\ helped = NotHelped
    BY DEF CliInit
  <2>4. subgroups \in [AllGroups -> Seq(Groups)]
    BY <2>1, <2>3, CliAssumption
  <2>5. commands \in [AllGroups -> Seq(Word)]
    BY <2>2, <2>3
  <2> QED
    BY <2>3, <2>4, <2>5 DEF CliInv, CliTyped, HelpIsListed
<1>n. NoCli => CliInv
  <2> SUFFICES ASSUME NoCli PROVE CliInv
    OBVIOUS
  <2>1. commands = [g \in AllGroups |-> <<>>] /\ subgroups = commands /\ helped = NotHelped
    BY DEF NoCli
  <2>2. \A S : <<>> \in Seq(S)
    OBVIOUS
  <2> QED
    BY <2>1, <2>2 DEF CliInv, CliTyped, HelpIsListed
<1>2. ASSUME CliInv, [CliNext]_cliVars PROVE CliInv'
  <2>1. UNCHANGED <<commands, subgroups>>
    BY <1>2 DEF CliNext, Command_Help, cliVars
  <2>2. CliTyped'
    BY <1>2, <2>1 DEF CliInv, CliTyped
  <2>3. \A g, ps : Display_Help(g, ps)' = Display_Help(g, ps)
    BY <2>1 DEF Display_Help, Find_Command, FindNumber, FindName, CommandList, SubgroupNames
  <2>4. CASE UNCHANGED cliVars
    <3>1. helped' = helped
      BY <2>4 DEF cliVars
    <3> QED
      BY <1>2, <2>2, <2>3, <3>1 DEF CliInv, HelpIsListed
  <2>5. CASE CliNext
    <3>1. PICK g \in AllGroups \cup {NoGroup}, n \in 0 .. 2 :
            \E ps \in [1 .. n -> Parameters] : Command_Help(g, ps)
      BY <2>5 DEF CliNext
    <3>2. PICK ps \in [1 .. n -> Parameters] : Command_Help(g, ps)
      BY <3>1
    <3>3. helped' = [group |-> g, params |-> ps, result |-> Display_Help(g, ps)] \/ helped' = NotHelped
      BY <3>2 DEF Command_Help
    <3>4. HelpIsListed'
      BY <2>3, <3>3 DEF HelpIsListed
    <3> QED
      BY <2>2, <3>4 DEF CliInv
  <2> QED
    BY <1>2, <2>4, <2>5
<1>3. CliInv => HelpFollowsTheList
  <2> SUFFICES ASSUME CliInv PROVE HelpFollowsTheList
    OBVIOUS
  <2>1. CASE helped = NotHelped
    BY <2>1 DEF HelpFollowsTheList, NotHelped
  <2>2. ASSUME NEW g \in AllGroups \cup {NoGroup}, NEW n \in 0 .. 2, NEW ps \in [1 .. n -> Parameters],
               helped = [group |-> g, params |-> ps, result |-> Display_Help(g, ps)]
        PROVE  HelpFollowsTheList
    <3>1. CliTyped
      BY DEF CliInv
    <3>2. PICK value : value = Display_Help(g, ps)
      OBVIOUS
    <3>3. helped.group = g /\ helped.params = ps /\ helped.result = value
      BY <2>2, <3>2
    <3>4. ps \in Seq(Parameters) /\ Len(ps) = n /\ (ps = <<>> <=> n = 0)
      <4>1. ps \in Seq(Parameters) /\ Len(ps) = n
        BY SequenceOf
      <4> QED
        BY <4>1
    <3> DEFINE found == Find_Command(g, ps[1])
               sub == subgroups[g][found.at]
               first == LineOf(g, ps[1])
               below == GroupOf(g, first)
    <3>5. value = IF n = 0 THEN 0
                  ELSE IF found = NotFound THEN 1
                  ELSE IF n = 1 THEN 0
                  ELSE IF found.list # "group" \/ Find_Command(sub, ps[2]) = NotFound THEN 2 ELSE 0
      BY <3>1, <3>2, HelpIs
    <3>6. n # 0 /\ g \in AllGroups =>
            /\ found = NotFound <=> first = -1
            /\ found # NotFound =>
                 IF found.list = "group" THEN below = sub /\ sub \in Groups ELSE below = NoGroup
      <4>1. n # 0 => ps[1] \in Parameters
        OBVIOUS
      <4> QED
        BY <3>1, <4>1, FindsTheLine
    <3>7. n # 0 /\ g = NoGroup => found = NotFound /\ first = -1
      BY DEF Find_Command, LineOf, Display_Command_List
    <3>8. n = 2 /\ sub \in Groups =>
            (Find_Command(sub, ps[2]) = NotFound <=> LineOf(sub, ps[2]) = -1) /\ sub # NoGroup
      <4>1. n = 2 => ps[2] \in Parameters
        OBVIOUS
      <4>2. sub \in Groups => sub \in AllGroups /\ sub # NoGroup
        BY CliAssumption DEF AllGroups
      <4> HIDE DEF sub
      <4> QED
        BY <3>1, <4>1, <4>2, FindsTheLine
    <3> HIDE DEF found, sub, first, below
    <3>9. value = IF n = 0 THEN 0
                  ELSE IF first = -1 THEN 1
                  ELSE IF n = 1 THEN 0
                  ELSE IF below = NoGroup \/ LineOf(below, ps[2]) = -1 THEN 2 ELSE 0
      <4>1. CASE n = 0
        BY <3>5, <4>1
      <4>2. CASE n # 0 /\ (g = NoGroup \/ found = NotFound)
        BY <3>5, <3>6, <3>7, <4>2
      <4>3. CASE n # 0 /\ g \in AllGroups /\ found # NotFound /\ found.list = "group"
        BY <3>5, <3>6, <3>8, <4>3
      <4>4. CASE n # 0 /\ g \in AllGroups /\ found # NotFound /\ found.list # "group"
        BY <3>5, <3>6, <4>4
      <4> QED
        BY <4>1, <4>2, <4>3, <4>4
    <3> USE DEF first, below
    <3> QED
      BY <3>3, <3>4, <3>9 DEF HelpFollowsTheList
  <2> QED
    BY <2>1, <2>2 DEF CliInv, HelpIsListed
<1> QED
  BY <1>1, <1>n, <1>2, <1>3, PTL DEF CliSpec, CliRuns

-----------------------------------------------------------------------------
(* All of them, as module Programs puts them side by side.                 *)

\* A step of the one that is in use leaves the variables of the others alone.
LEMMA EachProgram ==
  Spec => /\ QueueSpec /\ StackSpec /\ MapSpec /\ RtSpec
          /\ RegionSpec /\ SelSpec /\ ChatSpec
          /\ ListSpec /\ TreeSpec /\ FileSpec /\ CliRuns /\ FsSpec
<1>1. Init => /\ initQ /\ StackInit /\ MapInit /\ RtInit
              /\ RegionInit /\ SelInit /\ ChatInit
              /\ ListInit /\ init_tree /\ FileInit /\ (CliInit \/ NoCli) /\ FsInit
  BY DEF Init
<1>2. ASSUME [Next]_vars
      PROVE  /\ [QueueNext]_queueVars /\ [StackNext]_stackVars /\ [MapNext]_mapVars /\ [RtNext]_rtVars
             /\ [RegionNext]_regionVars /\ [SelNext]_selVars /\ [ChatNext]_chatVars
             /\ [ListNext]_listVars /\ [TreeNext]_treeVars /\ [FileNext]_fileVars /\ [CliNext]_cliVars
             /\ [FsNext]_fsVars
  <2> USE DEF libVars, serviceVars
  <2>1. CASE QueueCall
    BY <2>1 DEF QueueCall
  <2>2. CASE StackCall
    BY <2>2 DEF StackCall
  <2>3. CASE ListCall
    BY <2>3 DEF ListCall
  <2>4. CASE TreeCall
    BY <2>4 DEF TreeCall
  <2>5. CASE RouteCall
    BY <2>5 DEF RouteCall
  <2>6. CASE MapCall
    BY <2>6 DEF MapCall
  <2>7. CASE RegionStep
    BY <2>7 DEF RegionStep
  <2>8. CASE SelectStep
    BY <2>8 DEF SelectStep
  <2>9. CASE ChatStep
    BY <2>9 DEF ChatStep
  <2>10. CASE FileStep
    BY <2>10 DEF FileStep
  <2>11. CASE CliStep
    BY <2>11 DEF CliStep
  <2>12. CASE CardStep
    BY <2>12 DEF CardStep
  <2>13. CASE UNCHANGED vars
    BY <2>13 DEF vars
  <2> QED
    BY <1>2, <2>1, <2>2, <2>3, <2>4, <2>5, <2>6, <2>7, <2>8, <2>9, <2>10, <2>11, <2>12,
       <2>13 DEF Next
<1> QED
  BY <1>1, <1>2, PTL DEF Spec, QueueSpec, StackSpec, MapSpec, RtSpec, RegionSpec, SelSpec, ChatSpec,
                        ListSpec, TreeSpec, FileSpec, CliRuns, FsSpec

\* What is proved of each holds of the specification that is checked, for every
\* value of the constants.
THEOREM ProgramsHold ==
  Spec => /\ [](ExactUnlessOverrun /\ FindsOwnUnlessRecreated /\ OnlyTailsLeak)
          /\ [](RegionExactUnlessRestarted /\ ServesExactly /\ OwnClientUnlessOvertaken)
          /\ [](RemovesEveryOther /\ TreeFindsFirst /\ WritesAndFindsRightly /\ HelpFollowsTheList)
          /\ [](TestOkIsTrue /\ WriteOkIsWholeUnlessShort /\ HandlesReturned)
          /\ ImplementsFifo /\ ImplementsRouteMap
  BY EachProgram, ExactUnlessOverrunHolds, FindsOwnUnlessRecreatedHolds, OnlyTailsLeakHolds,
     RegionExactHolds, ServesExactlyHolds, OwnClientUnlessOvertakenHolds,
     RemovesEveryOtherHolds, TreeFindsFirstHolds, WritesAndFindsRightlyHolds, HelpFollowsTheListHolds,
     TestOkIsTrueHolds, WriteOkIsWholeHolds, HandlesReturnedHolds,
     ImplementsFifoHolds, ImplementsRouteMapHolds, PTL

===============================================================================
