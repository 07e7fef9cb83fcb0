----------------------------- MODULE RoutingTable -----------------------------
(***************************************************************************)
(* src/IPC/ITC/rt.c: a routing table as a doubly linked list of entries on *)
(* the heap.  A key is a destination with its mask, a route a gateway with *)
(* its interface; the time of the last update is left out.                 *)
(***************************************************************************)
EXTENDS Integers

CONSTANTS
  Entries,   \* bound: the heap's blocks
  NIL,       \* the null pointer
  Dests, Routes, NoDest, NoRoute

ASSUME RoutingAssumption == NIL \notin Entries /\ NoDest \notin Dests /\ NoRoute \notin Routes

VARIABLES
  head, next, prev,
  dest, route,   \* the key and the content of each entry
  allocated,     \* entries that were allocated and not freed
  tails,         \* history: entries that were the last of several when they were deleted
  rt_call, rt_rc \* history: the last call and what it returned

rtVars == <<head, next, prev, dest, route, allocated, tails, rt_call, rt_rc>>
linkVars == <<head, next, prev>>

\* rt_create_new_rt_table()
RtInit ==
  /\ head = NIL
  /\ next = [e \in Entries |-> NIL] /\ prev = next
  /\ dest = [e \in Entries |-> NoDest]
  /\ route = [e \in Entries |-> NoRoute]
  /\ allocated = {} /\ tails = {}
  /\ rt_call = <<>> /\ rt_rc = 0

-----------------------------------------------------------------------------
\* A set that a walk from first along the links does not leave.
ClosedUnder(S, first, link) ==
  /\ first # NIL => first \in S
  /\ \A e \in S : link[e] # NIL => link[e] \in S

\* The entries a walk comes by: the least such set.  It holds no others than the
\* first one and those that some link leads to.
LinkedFrom(first, link) ==
  LET reached == {e \in Entries : e = first \/ \E p \in Entries : link[p] = e}
      closed == {S \in SUBSET reached : ClosedUnder(S, first, link)}
  IN  {e \in reached : \A S \in closed : e \in S}

Linked == LinkedFrom(head, next)

\* rt_look_up_rt_table_entry(): the first entry of the list with that key.
LookUp(d) == {e \in Linked : dest[e] = d}

\* Mutant of Absent: only the head is looked at.
MutAbsent(d) == IF head = NIL THEN TRUE ELSE dest[head] # d

Absent(d) == LookUp(d) = {}

\* malloc(): nothing tells one block from another.
NewEntry == CHOOSE e \in Entries : e \notin allocated

\* Mutant of Insert: the old head does not learn of the new entry.
MutInsert(d, r) ==
  /\ Absent(d)
  /\ allocated # Entries
  /\ LET e == NewEntry IN
       /\ allocated' = allocated \cup {e}
       /\ dest' = [dest EXCEPT ![e] = d]
       /\ route' = [route EXCEPT ![e] = r]
       /\ next' = [next EXCEPT ![e] = head]
       /\ prev' = [prev EXCEPT ![e] = NIL]
       /\ head' = e
  /\ rt_call' = <<"insert", d, r>> /\ rt_rc' = 0
  /\ UNCHANGED tails

Insert(d, r) ==
  /\ Absent(d)
  /\ allocated # Entries
  /\ LET e == NewEntry IN
       /\ allocated' = allocated \cup {e}
       /\ dest' = [dest EXCEPT ![e] = d]
       /\ route' = [route EXCEPT ![e] = r]
       /\ next' = [next EXCEPT ![e] = head]
       /\ prev' = [p \in Entries |-> IF p = e THEN NIL ELSE IF p = head THEN e ELSE prev[p]]
       /\ head' = e
  /\ rt_call' = <<"insert", d, r>> /\ rt_rc' = 0
  /\ UNCHANGED tails

\* rt_delete_rt_entry() of the entry found.  Its path for an entry without a
\* predecessor that is not the head (122) is left out: see LinksAgree.
Delete(e) ==
  /\ \/ /\ e = head
        /\ head' = next[e]
        /\ prev' = [p \in Entries |-> IF p = next[e] THEN NIL ELSE prev[p]]
        /\ allocated' = allocated \ {e}
        /\ UNCHANGED <<next, tails>>
     \/ /\ e # head /\ next[e] = NIL   \* the last one is unlinked and not freed
        /\ next' = [next EXCEPT ![prev[e]] = NIL]
        /\ prev' = [prev EXCEPT ![e] = NIL]
        /\ tails' = tails \cup {e}
        /\ UNCHANGED <<head, allocated>>
     \/ /\ e # head /\ next[e] # NIL
        /\ next' = [next EXCEPT ![prev[e]] = next[e], ![e] = NIL]
        /\ prev' = [prev EXCEPT ![next[e]] = prev[e], ![e] = NIL]
        /\ allocated' = allocated \ {e}
        /\ UNCHANGED <<head, tails>>
  /\ dest' = [dest EXCEPT ![e] = NoDest]     \* nothing reads it again
  /\ route' = [route EXCEPT ![e] = NoRoute]
  /\ rt_call' = <<"delete", dest[e]>> /\ rt_rc' = 0

Update(e, r) ==
  /\ route[e] # r
  /\ route' = [route EXCEPT ![e] = r]
  /\ rt_call' = <<"update", dest[e], r>> /\ rt_rc' = 0
  /\ UNCHANGED <<linkVars, dest, allocated, tails>>

\* The key is there already, or not there, or has that route: -1.
Refuse ==
  /\ \E d \in Dests, r \in Routes :
       \/ ~Absent(d) /\ rt_call' = <<"insert", d, r>>
       \/ Absent(d) /\ rt_call' \in {<<"delete", d>>, <<"update", d, r>>}
       \/ (\E e \in LookUp(d) : route[e] = r) /\ rt_call' = <<"update", d, r>>
  /\ rt_rc' = -1
  /\ UNCHANGED <<linkVars, dest, route, allocated, tails>>

RtNext ==
  \/ \E d \in Dests, r \in Routes : Insert(d, r)
  \/ \E e \in Linked : Delete(e) \/ \E r \in Routes : Update(e, r)
  \/ Refuse

RtSpec == RtInit /\ [][RtNext]_rtVars

-----------------------------------------------------------------------------
\* The links of the two directions agree, and begin at the head.
LinksAgree ==
  \A e \in Linked :
    /\ next[e] # NIL => prev[next[e]] = e
    /\ prev[e] = NIL <=> e = head

\* Every entry that was allocated is in the list, or was the last one when it
\* was deleted: that path of rt_delete_rt_entry() frees nothing.
OnlyTailsLeak ==
  LinksAgree /\ LET listed == Linked IN allocated = listed \cup tails /\ listed \cap tails = {}

Table ==
  LET listed == Linked IN
  [d \in Dests |->
     IF \E e \in listed : dest[e] = d
     THEN route[CHOOSE e \in listed : dest[e] = d] ELSE NoRoute]

\* Every call does to the list what it would do to a table with at most one route
\* for a key, and returns the same, on every path of a deletion.
Promise ==
  INSTANCE RouteMap WITH table <- Table, call <- rt_call, rc <- rt_rc
ImplementsRouteMap == Promise!Spec

=============================================================================
