----------------------------- MODULE SharedRegion -----------------------------
(***************************************************************************)
(* src/IPC/IPC/SHM/igmp_pim_synchronisation/: igmp makes a named shared    *)
(* region, with a mutex in it, and fills its entries; pim opens the region *)
(* by its name and dumps the entries.                                      *)
(*                                                                         *)
(* Either process may be killed, or started again, at any moment; there is *)
(* one of each at a time.  The region outlives both, and its name may be   *)
(* removed while it is mapped.  A region that is opened with O_TRUNC loses *)
(* its content, and touching it before ftruncate() kills with SIGBUS.      *)
(***************************************************************************)
EXTENDS Integers, Sequences

CONSTANTS
  N_IPADDRESS,
  MAX_REGIONS,    \* bound: regions made
  MAX_STARTS,     \* bound: starts of either process
  NoRegion

Regions == 1 .. MAX_REGIONS

ASSUME RegionAssumption ==
  {N_IPADDRESS, MAX_REGIONS, MAX_STARTS} \subseteq Nat /\ NoRegion \notin Regions

Indices == 1 .. N_IPADDRESS

\* Roll numbers: 0 is an entry that is free.
RollNumbers == {1, 2}

VARIABLES
  regions,      \* of each region: its size, its entries, its mutex
  shm_name,     \* the region SHM_NAME stands for, or NoRegion
  process_at,   \* where "igmp" and "pim" are
  shm_reg,      \* the region each has mapped, or NoRegion
  dump,         \* the entries pim has printed of the dump it is in
  starts,
  added,        \* history: the numbers written to a region since it was emptied
  disturbed,    \* history: regions whose mutex was made anew while pim held it
  unlinked      \* history: whether the name was removed while somebody else used it

regionVars == <<regions, shm_name, process_at, shm_reg, dump, starts, added, disturbed, unlinked>>

NewRegion == [size |-> "empty", ip_address |-> [i \in Indices |-> 0],
              shm_mutex |-> "free", contended |-> FALSE]

RegionInit ==
  /\ regions = <<>>
  /\ shm_name = NoRegion
  /\ process_at = [igmp |-> "off", pim |-> "off"]
  /\ shm_reg = [igmp |-> NoRegion, pim |-> NoRegion]
  /\ dump = <<>> /\ starts = 0
  /\ added = <<>> /\ disturbed = {} /\ unlinked = FALSE

-----------------------------------------------------------------------------
Steps(p, from, to) ==
  /\ process_at[p] = from
  /\ process_at' = [process_at EXCEPT ![p] = to]

\* shm_open() with O_CREAT.
Named == IF shm_name = NoRegion THEN Len(regions) + 1 ELSE shm_name

\* The mutex of a region is made anew.
Disturb(r) ==
  disturbed' = IF process_at.pim = "dump" /\ shm_reg.pim = r THEN disturbed \cup {r} ELSE disturbed

\* igmp opens with O_TRUNC.
StartIgmp ==
  /\ Steps("igmp", "off", "opened")
  /\ starts < MAX_STARTS /\ starts' = starts + 1
  /\ Named \in Regions
  /\ shm_name' = Named
  /\ shm_reg' = [shm_reg EXCEPT !.igmp = Named]
  /\ regions' = [r \in 1 .. Len(regions) \cup {Named} |->
                   IF r = Named THEN NewRegion ELSE regions[r]]
  /\ added' = [r \in 1 .. Len(regions) \cup {Named} |-> IF r = Named THEN <<>> ELSE added[r]]
  /\ Disturb(Named)
  /\ UNCHANGED <<dump, unlinked>>

\* ftruncate() and mmap().
Allocate ==
  /\ Steps("igmp", "opened", "mapped")
  /\ regions' = [regions EXCEPT ![shm_reg.igmp].size = "whole"]
  /\ UNCHANGED <<shm_name, shm_reg, dump, starts, added, disturbed, unlinked>>

\* pthread_mutex_init().
InitMutex ==
  /\ Steps("igmp", "mapped", "ready")
  /\ regions' = [regions EXCEPT ![shm_reg.igmp].shm_mutex = "free", ![shm_reg.igmp].contended = FALSE]
  /\ Disturb(shm_reg.igmp)
  /\ UNCHANGED <<shm_name, shm_reg, dump, starts, added, unlinked>>

\* pim opens what there is, or makes a region it gives no size.
StartPim ==
  /\ Steps("pim", "off", "ready")
  /\ starts < MAX_STARTS /\ starts' = starts + 1
  /\ Named \in Regions
  /\ shm_name' = Named
  /\ shm_reg' = [shm_reg EXCEPT !.pim = Named]
  /\ regions' = IF shm_name = NoRegion THEN Append(regions, NewRegion) ELSE regions
  /\ added' = IF shm_name = NoRegion THEN Append(added, <<>>) ELSE added
  /\ UNCHANGED <<dump, disturbed, unlinked>>

-----------------------------------------------------------------------------
\* Mutant of MayLock: nobody asks for the mutex.
MutMayLock(r) == TRUE

MayLock(r) == regions[r].shm_mutex = "free"

\* pthread_mutex_lock(), which sleeps if the mutex is held.
Lock(p, to) ==
  LET r == shm_reg[p] IN
  /\ process_at[p] = "ready"
  /\ regions[r].size = "whole"
  /\ \/ /\ MayLock(r)
        /\ Steps(p, "ready", to)
        /\ regions' = [regions EXCEPT ![r].shm_mutex = p]
     \/ /\ ~MayLock(r)
        /\ Steps(p, "ready", "asleep")
        /\ regions' = [regions EXCEPT ![r].contended = TRUE]

\* pthread_mutex_unlock(), which wakes who sleeps if the mutex knows of it.
Unlock(p, from) ==
  LET r == shm_reg[p]
      woken == {q \in {"igmp", "pim"} : regions[r].contended /\ process_at[q] = "asleep" /\ shm_reg[q] = r}
  IN
  /\ process_at[p] = from
  /\ process_at' = [q \in {"igmp", "pim"} |-> IF q = p \/ q \in woken THEN "ready" ELSE process_at[q]]
  /\ regions' = [regions EXCEPT ![r].shm_mutex = "free", ![r].contended = FALSE]

WriteLock ==
  /\ Lock("igmp", "write")
  /\ UNCHANGED <<shm_name, shm_reg, dump, starts, added, disturbed, unlinked>>

\* The first entry that is 0; none if the region is full.
WriteEntry(number) ==
  LET r == shm_reg.igmp
      free == {i \in Indices : regions[r].ip_address[i] = 0}
      first == CHOOSE i \in free : \A j \in free : i <= j
  IN
  /\ Steps("igmp", "write", "written")
  /\ \/ /\ free # {}
        /\ regions' = [regions EXCEPT ![r].ip_address[first] = number]
        /\ added' = [added EXCEPT ![r] = Append(@, number)]
     \/ free = {} /\ UNCHANGED <<regions, added>>
  /\ UNCHANGED <<shm_name, shm_reg, dump, starts, disturbed, unlinked>>

WriteUnlock ==
  /\ Unlock("igmp", "written")
  /\ UNCHANGED <<shm_name, shm_reg, dump, starts, added, disturbed, unlinked>>

DumpLock ==
  /\ Lock("pim", "dump")
  /\ dump' = <<>>
  /\ UNCHANGED <<shm_name, shm_reg, starts, added, disturbed, unlinked>>

DumpEntry ==
  LET r == shm_reg.pim IN
  /\ process_at.pim = "dump"
  /\ regions[r].size = "whole"
  /\ Len(dump) < N_IPADDRESS
  /\ dump' = Append(dump, regions[r].ip_address[Len(dump) + 1])
  /\ UNCHANGED <<regions, shm_name, process_at, shm_reg, starts, added, disturbed, unlinked>>

DumpUnlock ==
  /\ process_at.pim = "dump" /\ Len(dump) = N_IPADDRESS
  /\ regions[shm_reg.pim].size = "whole"
  /\ Unlock("pim", "dump")
  /\ dump' = <<>>
  /\ UNCHANGED <<shm_name, shm_reg, starts, added, disturbed, unlinked>>

-----------------------------------------------------------------------------
\* The end of a process, which keeps the mutexes it holds locked.
Dies(p) ==
  /\ process_at[p] # "off"
  /\ process_at' = [process_at EXCEPT ![p] = "off"]
  /\ shm_reg' = [shm_reg EXCEPT ![p] = NoRegion]
  /\ dump' = IF p = "pim" THEN <<>> ELSE dump

\* shm_unlink(), of whatever has the name.
Unlink(p) ==
  /\ shm_name' = NoRegion
  /\ unlinked' = (unlinked \/ \E q \in {"igmp", "pim"} \ {p} : process_at[q] # "off")

\* A number that is not positive: munmap() and shm_unlink().
EndIgmp ==
  /\ process_at.igmp = "ready"
  /\ Dies("igmp")
  /\ Unlink("igmp")
  /\ UNCHANGED <<regions, starts, added, disturbed>>

\* igmp has no handler.
KillIgmp ==
  /\ Dies("igmp")
  /\ UNCHANGED <<regions, shm_name, starts, added, disturbed, unlinked>>

\* pim's handler unmaps and unlinks; then fgets() is interrupted, or the next
\* touch of what was mapped ends the process.
Interrupt ==
  /\ Dies("pim")
  /\ Unlink("pim")
  /\ UNCHANGED <<regions, starts, added, disturbed>>

\* The region has no size, or has lost it.
BusError ==
  /\ process_at.pim \in {"ready", "dump"}
  /\ regions[shm_reg.pim].size = "empty"
  /\ Dies("pim")
  /\ UNCHANGED <<regions, shm_name, starts, added, disturbed, unlinked>>

RegionNext ==
  \/ StartIgmp \/ Allocate \/ InitMutex \/ StartPim
  \/ WriteLock \/ (\E number \in RollNumbers : WriteEntry(number)) \/ WriteUnlock
  \/ DumpLock \/ DumpEntry \/ DumpUnlock
  \/ EndIgmp \/ KillIgmp \/ Interrupt \/ BusError

RegionSpec == RegionInit /\ [][RegionNext]_regionVars

-----------------------------------------------------------------------------
\* A region holds the numbers written to it since it was emptied, in their order
\* and without a gap, whoever was killed in between.
EntriesAreKept ==
  \A r \in 1 .. Len(regions) :
    regions[r].ip_address =
      [i \in Indices |-> IF i <= Len(added[r]) THEN added[r][i] ELSE 0]

\* What pim has printed so far is what the region holds now, unless igmp was ever
\* started again while pim held the mutex: one unlock too many follows from it.
DumpIsOneContent ==
  process_at.pim = "dump" /\ shm_reg.pim \notin disturbed =>
    \A i \in 1 .. Len(dump) : dump[i] = regions[shm_reg.pim].ip_address[i]

\* The two look at one region, unless the name was removed while one used it.
RegionIsShared ==
  process_at.igmp # "off" /\ process_at.pim # "off" /\ ~unlinked => shm_reg.igmp = shm_reg.pim

\* All of this together: the mutex and the name do what they are there for, until
\* a restart or an unlink takes them away.
RegionExactUnlessRestarted == EntriesAreKept /\ DumpIsOneContent /\ RegionIsShared

=============================================================================
