--------------------------------- MODULE Tree ---------------------------------
(***************************************************************************)
(* src/IPC/IPC/GENERIC_SHM_LOCAL/Trees/tree.c: an unbalanced binary tree   *)
(* of keys, to which nodes are only added.  A key that is there already    *)
(* goes to the right.  Nodes are named by the order in which they came; 0  *)
(* is the null pointer, 1 the root.                                        *)
(***************************************************************************)
EXTENDS Integers, Sequences

CONSTANTS
  TreeKeys,
  MAX_NODES   \* bound

ASSUME TreeAssumption == TreeKeys \subseteq Int /\ MAX_NODES \in Nat

VARIABLES
  data,          \* the key of each node
  left, right

treeVars == <<data, left, right>>

init_tree == data = <<>> /\ left = <<>> /\ right = <<>>

\* Mutant of Child: an equal key goes to the left.
MutChild(n, key) == IF key <= data[n] THEN left[n] ELSE right[n]

\* The child of n under which a key belongs.
Child(n, key) == IF key < data[n] THEN left[n] ELSE right[n]

\* The node under which the loop of add_tree_node() ends.
ParentFor(key) ==
  LET down[n \in 1 .. Len(data)] == IF Child(n, key) = 0 THEN n ELSE down[Child(n, key)]
  IN  down[1]

add_tree_node(key) ==
  LET node == Len(data) + 1 IN
  /\ node <= MAX_NODES
  /\ data' = Append(data, key)
  /\ IF data = <<>>
     THEN left' = <<0>> /\ right' = <<0>>
     ELSE LET p == ParentFor(key)
          IN  IF key < data[p]
              THEN left' = Append([left EXCEPT ![p] = node], 0) /\ right' = Append(right, 0)
              ELSE right' = Append([right EXCEPT ![p] = node], 0) /\ left' = Append(left, 0)

TreeNext == \E key \in TreeKeys : add_tree_node(key)

TreeSpec == init_tree /\ [][TreeNext]_treeVars

tree_lookup(key) ==
  LET find[n \in 0 .. Len(data)] ==
        IF n = 0 THEN 0
        ELSE IF data[n] = key THEN n
        ELSE IF data[n] < key THEN find[right[n]] ELSE find[left[n]]
  IN  IF data = <<>> THEN 0 ELSE find[1]

-----------------------------------------------------------------------------
\* A key is found if and only if it was added, and the node found is the first
\* that was added with it, although the tree holds the later ones as well.
TreeFindsFirst ==
  \A key \in TreeKeys :
    LET found == tree_lookup(key) IN
    IF \E n \in 1 .. Len(data) : data[n] = key
    THEN found # 0 /\ data[found] = key /\ \A n \in 1 .. found - 1 : data[n] # key
    ELSE found = 0

=============================================================================
