-------------------------------- MODULE ShmMap --------------------------------
(***************************************************************************)
(* src/IPC/IPC/GENERIC_SHM_LOCAL/shm_ds.c and map.c: a list or a tree      *)
(* whose nodes are private to a process and whose values are shared memory *)
(* objects.  A process names its objects with a counter of its own that    *)
(* starts at one, so that two processes use the same names, and creates    *)
(* them anew with O_TRUNC.                                                 *)
(*                                                                         *)
(* A key is a sequence of bytes.  The list compares keys as texts, up to   *)
(* the first zero, and finds the newest node; the tree compares the first  *)
(* four bytes, and finds the oldest one (module Tree).  Who reads or       *)
(* writes an empty object gets a fault.                                    *)
(***************************************************************************)
EXTENDS Integers, Sequences

CONSTANTS
  Processes,
  MapKeys,    \* what elements are added with
  LookupKeys, \* what is looked up
  Hollow,     \* the content of an object of length zero
  Zeros,      \* the content of one that was given its size
  Mixed,      \* what two processes leave that copy into one object at a time
  Nothing,    \* no object, or no node of that key
  MAX_ADDS    \* bound on the elements of a process

\* A key ends with a zero byte or holds one (main.c: small integers and texts), or
\* strcmp() would not stop; the tree takes four bytes of it.
ASSUME MapAssumption ==
  /\ MAX_ADDS \in Nat
  /\ \A key \in MapKeys \cup LookupKeys :
       key \in Seq(0 .. 255) /\ Len(key) >= 4 /\ \E n \in 1 .. Len(key) : key[n] = 0

VARIABLES
  elems,      \* what each process has added, in order: container and key
  map_at,     \* where each process stands in add_value_in_physical_memory()
  region,     \* the shared memory objects, by name
  touched     \* history: the names of each process that failed or that others touched

mapVars == <<elems, map_at, region, touched>>

Names == 1 .. MAX_ADDS
Containers == {"list", "tree"}

\* The values are told apart by who gave them, with which of its elements.
ValueOf(p, n) == <<p, n>>

MapInit ==
  /\ elems = [p \in Processes |-> <<>>]
  /\ map_at = [p \in Processes |-> "idle"]
  /\ region = [n \in Names |-> Nothing]
  /\ touched = [p \in Processes |-> {}]

\* The object p has opened last.
Object(p) == Len(elems[p])

\* Object n is changed: these processes may lose the value they have there.
Touch(ps, n) ==
  touched' = [q \in Processes |-> IF q \in ps /\ n <= Len(elems[q])
                                  THEN touched[q] \cup {n} ELSE touched[q]]

OthersThan(p) == Processes \ {p}

\* A call that fails leaves the node without its value.
GiveUp(p, n) ==
  /\ touched' = [touched EXCEPT ![p] = @ \cup {n}]
  /\ map_at' = [map_at EXCEPT ![p] = "idle"]
  /\ UNCHANGED region

\* shm_add_elem() up to shm_open(): shm_unit_key_index is the number of elements
\* this process has added, whatever container they went to.
shm_add_elem(p, ds, key) ==
  LET n == Len(elems[p]) + 1 IN
  /\ map_at[p] = "idle"
  /\ n <= MAX_ADDS
  /\ elems' = [elems EXCEPT ![p] = Append(@, [ds |-> ds, key |-> key])]
  /\ \/ /\ region' = [region EXCEPT ![n] = Hollow]
        /\ map_at' = [map_at EXCEPT ![p] = "opened"]
        /\ Touch(OthersThan(p), n)
     \/ GiveUp(p, n)

\* ftruncate() and mmap().
Resize(p) ==
  /\ map_at[p] = "opened"
  /\ \/ /\ region' = [region EXCEPT ![Object(p)] = IF @ = Hollow THEN Zeros ELSE @]
        /\ map_at' = [map_at EXCEPT ![p] = "mapped"]
        /\ Touch(OthersThan(p), Object(p))
     \/ GiveUp(p, Object(p))
  /\ UNCHANGED elems

\* Another process has copied into p's object since p opened it, or may do so now.
Overlapped(p) ==
  \/ Object(p) \in touched[p]
  \/ \E q \in OthersThan(p) : map_at[q] = "mapped" /\ Object(q) = Object(p)

\* memset() and copy().
CopyValue(p) ==
  /\ map_at[p] = "mapped" /\ region[Object(p)] # Hollow
  /\ \E content \in {ValueOf(p, Object(p)), Mixed} :
       /\ content = Mixed => Overlapped(p)
       /\ region' = [region EXCEPT ![Object(p)] = content]
  /\ Touch(IF Overlapped(p) THEN Processes ELSE OthersThan(p), Object(p))
  /\ map_at' = [map_at EXCEPT ![p] = "idle"]
  /\ UNCHANGED elems

\* The same while another process's O_TRUNC has made the object empty: SIGBUS.
Fault(p) ==
  /\ map_at[p] = "mapped" /\ region[Object(p)] = Hollow
  /\ map_at' = [map_at EXCEPT ![p] = "dead"]
  /\ UNCHANGED <<elems, region, touched>>

MapNext ==
  \E p \in Processes :
    \/ \E ds \in Containers, key \in MapKeys : shm_add_elem(p, ds, key)
    \/ Resize(p) \/ CopyValue(p) \/ Fault(p)

MapSpec == MapInit /\ [][MapNext]_mapVars

-----------------------------------------------------------------------------
\* strcmp() gives zero.
ll_key_compare(key1, key2) ==
  \E n \in DOMAIN key1 \cap DOMAIN key2 :
    /\ key1[n] = 0 /\ key2[n] = 0
    /\ \A i \in 1 .. n - 1 : key1[i] = key2[i]

\* The integers at the beginning of the keys are the same.
tree_key_compare(key1, key2) == \A i \in 1 .. 4 : key1[i] = key2[i]

\* The elements of a process in one container whose key is taken for this one.
Matching(p, ds, key) ==
  {n \in 1 .. Len(elems[p]) :
     /\ elems[p][n].ds = ds
     /\ IF ds = "list" THEN ll_key_compare(key, elems[p][n].key)
                       ELSE tree_key_compare(elems[p][n].key, key)}

\* Mutant of Found: the list is searched from its other end.
MutFound(ns, ds) == CHOOSE n \in ns : \A m \in ns : n <= m

\* The node the container's lookup stops at.
Found(ns, ds) ==
  CHOOSE n \in ns : \A m \in ns : IF ds = "list" THEN m <= n ELSE n <= m

\* SHM_LOOKUP(): what the object of the node found holds now.
SHM_LOOKUP(p, ds, key) ==
  LET ns == Matching(p, ds, key) IN IF ns = {} THEN Nothing ELSE region[Found(ns, ds)]

-----------------------------------------------------------------------------
\* A lookup between two calls gives the value this process added: the last one
\* whose key is the same text in the list, the first one whose key begins with the
\* same four bytes in the tree; unless the call failed, or another process has
\* since created or written an object of that name.
FindsOwnUnlessRecreated ==
  \A p \in Processes, key \in LookupKeys, ds \in Containers :
    \A n \in Matching(p, ds, key) :
      /\ map_at[p] = "idle" /\ n \notin touched[p]
      /\ \A m \in Matching(p, ds, key) : IF ds = "list" THEN m <= n ELSE n <= m
      => SHM_LOOKUP(p, ds, key) = ValueOf(p, n)

=============================================================================
