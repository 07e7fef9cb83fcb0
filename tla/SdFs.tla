-------------------------------- MODULE SdFs --------------------------------
(***************************************************************************)
(* The files on the SD card: src/SD_CARD/src/device/sdcard_fs_core.c, and  *)
(* sdcard_fs_test() of sd_card_fs_demo.c, which calls it.                  *)
(*                                                                         *)
(* One task makes one call at a time.  A call is a step for every call it  *)
(* makes of the FAT library, which is external: each of those may fail, as *)
(* far as faults allows, and a transfer may end early.  Mode "w" empties   *)
(* the file, a file cannot be removed while it is open (sdcard_fs_core.h), *)
(* and a seek beyond the end fails or leaves a hole.  The board may reset  *)
(* between any two steps.                                                  *)
(***************************************************************************)
EXTENDS Integers, Sequences, FiniteSets

CONSTANTS
  FileNames,        \* of files
  SKYLT,        \* the file of sdcard_fs_test()
  Buffers,      \* what callers write: sequences, <<>> among them
  TestBuffer,   \* "SKYLO_SDCARD_TEST"
  Positions, Lengths,
  Hole,         \* a byte nobody wrote
  NoContent,       \* the content of a file that is not there
  MaxHandles,   \* bound: how many handles of a file the library gives out
  FaultSets     \* what faults may be

\* What a byte of a file can be.
Bytes == {Hole} \cup UNION {{b[i] : i \in DOMAIN b} : b \in Buffers \cup {TestBuffer}}

ASSUME FilesAssumption == SKYLT \in FileNames /\ TestBuffer # <<>>
ASSUME BuffersAssumption == Buffers \cup {TestBuffer} \subseteq Seq(Bytes)
ASSUME BoundsAssumption == Positions \cup Lengths \cup {MaxHandles} \subseteq Nat

ASSUME FaultsAssumption ==
  FaultSets \subseteq SUBSET {"mount", "open", "seek", "short", "close", "format", "reset"}

VARIABLES
  faults,          \* what may fail; "short": a transfer, "reset": the board
  g_pxDisk_ptr,    \* "NULL" or "disk"
  mounted,         \* the library knows the disk by its name
  total_sectors,   \* sdcard_conf.total_sectors: of the "card" or the "partition"
  files,           \* the content of each file
  handles,         \* how many handles of each file are open
  pc,
  call,            \* the arguments and locals of the call
  test             \* what sdcard_fs_test() has come to

diskVars == <<g_pxDisk_ptr, mounted, total_sectors>>
fsVars == <<faults, diskVars, files, handles, pc, call, test>>

QAPI_OK == 0
QAPI_ERROR == -1
pdFAIL == 0
pdPASS == 1

NoCall ==
  [op |-> "none", name |-> SKYLT, buffer |-> <<>>, position |-> 0, length |-> 0,
   write_length |-> 0, read_length |-> 0, read |-> <<>>, ret |-> QAPI_OK]

FsInit ==
  /\ faults \in FaultSets
  /\ g_pxDisk_ptr = "NULL" /\ mounted = FALSE /\ total_sectors = "card"
  /\ files = [n \in FileNames |-> NoContent]
  /\ handles = [n \in FileNames |-> 0]
  /\ pc = "idle" /\ call = NoCall /\ test = "none"

-----------------------------------------------------------------------------
(* The beginning and the end of a call                                     *)

\* Where a call goes on after its guards.
Begins(c) ==
  IF c.op \in {"write", "read"} /\ c.length = 0 THEN "idle"
  ELSE IF c.op = "write" THEN "open_w"
  ELSE IF c.op \in {"read", "file_len"} THEN "open_r"
  ELSE c.op

Enter(c, next) ==
  /\ call' = [c EXCEPT !.ret = QAPI_ERROR]
  /\ pc' = next

Writing(n, b, p) ==
  [NoCall EXCEPT !.op = "write", !.name = n, !.buffer = b, !.length = Len(b), !.position = p]
Reading(n, l, p) ==
  [NoCall EXCEPT !.op = "read", !.name = n, !.length = l, !.position = p]

OnFile(o, n) == [NoCall EXCEPT !.op = o, !.name = n]
OnDisk(o) == [NoCall EXCEPT !.op = o]

Requests ==
  {Writing(n, b, p) : n \in FileNames, b \in Buffers, p \in Positions}
    \cup {Reading(n, l, p) : n \in FileNames, l \in Lengths, p \in Positions}
    \cup {OnFile(o, n) : o \in {"delete", "file_len"}, n \in FileNames}
    \cup {OnDisk(o) : o \in {"init", "stat", "get_size", "format"}}

\* A caller other than sdcard_fs_test().
Call ==
  /\ pc = "idle" /\ test \notin {"init", "write", "read", "delete"}
  /\ \E c \in Requests : Enter(c, Begins(c))
  /\ test' = "none"
  /\ UNCHANGED <<diskVars, files, handles>>

Return(r) ==
  /\ pc' = "idle"
  /\ call' = [call EXCEPT !.ret = r]

-----------------------------------------------------------------------------
(* The disk                                                                *)

\* FF_SDDiskInit() registers the disk it returns.  The number of sectors
\* becomes that of the partition.
InitFs ==
  /\ pc = "init"
  /\ \/ /\ g_pxDisk_ptr = "NULL"
        /\ g_pxDisk_ptr' = "disk" /\ mounted' = TRUE /\ total_sectors' = "partition"
        /\ Return(QAPI_OK)
     \/ /\ g_pxDisk_ptr = "NULL" /\ "mount" \in faults
        /\ Return(QAPI_ERROR)
        /\ UNCHANGED diskVars
     \/ /\ g_pxDisk_ptr # "NULL"
        /\ Return(QAPI_OK)
        /\ UNCHANGED diskVars
  /\ UNCHANGED <<files, handles, test>>

\* FF_SDDiskShowPartition(): the state is known of a disk only.
Shown == IF g_pxDisk_ptr = "NULL" THEN pdFAIL ELSE pdPASS

Stat ==
  /\ pc = "stat"
  /\ Return(Shown)
  /\ UNCHANGED <<diskVars, files, handles, test>>

GetSize ==
  /\ pc = "get_size"
  /\ Return(IF Shown = pdFAIL THEN QAPI_ERROR ELSE QAPI_OK)
  /\ UNCHANGED <<diskVars, files, handles, test>>

\* Without a disk its status is read through NULL.
Format ==
  /\ pc = "format"
  /\ \/ /\ g_pxDisk_ptr = "NULL"
        /\ pc' = "fault"
        /\ UNCHANGED <<diskVars, files, call>>
     \/ /\ g_pxDisk_ptr # "NULL" /\ "format" \in faults
        /\ g_pxDisk_ptr' = "NULL"
        /\ Return(QAPI_ERROR)
        /\ UNCHANGED <<mounted, total_sectors, files>>
     \/ /\ g_pxDisk_ptr # "NULL"
        /\ files' = [n \in FileNames |-> NoContent]
        /\ mounted' = TRUE
        /\ Return(QAPI_OK)
        /\ UNCHANGED <<g_pxDisk_ptr, total_sectors>>
  /\ UNCHANGED <<handles, test>>

-----------------------------------------------------------------------------
(* The files                                                               *)

name == call.name
OpenFails == "open" \in faults \/ ~mounted \/ handles[name] >= MaxHandles
HandleOpened == handles' = [handles EXCEPT ![name] = @ + 1]
HandleClosed == handles' = [handles EXCEPT ![name] = @ - 1]

\* Mutant of OpenToWrite: the file is opened as it is.
MutOpenToWriteKeeps ==
  /\ pc = "open_w"
  /\ \/ /\ mounted /\ handles[name] < MaxHandles
        /\ files' = [files EXCEPT ![name] = IF @ = NoContent THEN <<>> ELSE @]
        /\ HandleOpened
        /\ pc' = "seek"
        /\ UNCHANGED call
     \/ /\ OpenFails
        /\ Return(QAPI_ERROR)
        /\ UNCHANGED <<files, handles>>
  /\ UNCHANGED <<diskVars, test>>

OpenToWrite ==
  /\ pc = "open_w"
  /\ \/ /\ mounted /\ handles[name] < MaxHandles
        /\ files' = [files EXCEPT ![name] = <<>>]
        /\ HandleOpened
        /\ pc' = "seek"
        /\ UNCHANGED call
     \/ /\ OpenFails
        /\ Return(QAPI_ERROR)
        /\ UNCHANGED <<files, handles>>
  /\ UNCHANGED <<diskVars, test>>

OpenToRead ==
  /\ pc = "open_r"
  /\ \/ /\ mounted /\ handles[name] < MaxHandles /\ files[name] # NoContent
        /\ HandleOpened
        /\ pc' = IF call.op = "read" THEN "seek" ELSE "length"
        /\ UNCHANGED call
     \/ /\ OpenFails \/ files[name] = NoContent
        /\ Return(QAPI_ERROR)
        /\ UNCHANGED handles
  /\ UNCHANGED <<diskVars, files, test>>

\* A failed seek ends the call, and the file stays open.
Seek ==
  /\ pc = "seek"
  /\ \/ pc' = "transfer" /\ call' = [call EXCEPT !.ret = QAPI_OK]
     \/ "seek" \in faults /\ Return(QAPI_ERROR)
  /\ UNCHANGED <<diskVars, files, handles, test>>

\* The content with b in it from position p on.
Patched(content, b, p) ==
  [i \in 1 .. IF Len(content) > p + Len(b) THEN Len(content) ELSE p + Len(b) |->
     IF i \in p + 1 .. p + Len(b) THEN b[i - p]
     ELSE IF i <= Len(content) THEN content[i] ELSE Hole]

\* A short write ends the call with the status of the seek, and the file stays
\* open.
Write ==
  /\ pc = "transfer" /\ call.op = "write"
  /\ \E k \in (IF "short" \in faults THEN 0 .. call.length ELSE {call.length}) :
       /\ files' = [files EXCEPT ![name] =
                      IF k = 0 THEN @ ELSE Patched(@, SubSeq(call.buffer, 1, k), call.position)]
       /\ call' = [call EXCEPT !.write_length = k]
       /\ pc' = IF k = call.length THEN "close" ELSE "idle"
  /\ UNCHANGED <<diskVars, handles, test>>

\* A read ends at the end of the file.
Read ==
  /\ pc = "transfer" /\ call.op = "read"
  /\ LET left == Len(files[name]) - call.position
         most == IF left < 0 THEN 0 ELSE IF left < call.length THEN left ELSE call.length
     IN  \E k \in (IF "short" \in faults THEN 0 .. most ELSE {most}) :
           call' = [call EXCEPT !.read_length = k,
                      !.read = SubSeq(files[name], call.position + 1, call.position + k)]
  /\ pc' = "close"
  /\ UNCHANGED <<diskVars, files, handles, test>>

FileLength ==
  /\ pc = "length"
  /\ call' = [call EXCEPT !.read_length = Len(files[name])]
  /\ pc' = "close"
  /\ UNCHANGED <<diskVars, files, handles, test>>

\* Mutant of CloseHandle: the file is closed after a full read only.
MutCloseFull ==
  /\ pc = "close"
  /\ \/ Return(QAPI_OK)
     \/ "close" \in faults /\ Return(QAPI_ERROR)
  /\ IF call.op = "read" /\ call.read_length # call.length THEN UNCHANGED handles ELSE
         HandleClosed
  /\ UNCHANGED <<diskVars, files, test>>

\* The status of the close is the result, of a short read too.
CloseHandle ==
  /\ pc = "close"
  /\ \/ Return(QAPI_OK)
     \/ "close" \in faults /\ Return(QAPI_ERROR)
  /\ HandleClosed
  /\ UNCHANGED <<diskVars, files, test>>

DeleteFile ==
  /\ pc = "delete"
  /\ \/ /\ mounted /\ files[name] # NoContent /\ handles[name] = 0
        /\ files' = [files EXCEPT ![name] = NoContent]
        /\ Return(QAPI_OK)
     \/ /\ "open" \in faults \/ ~mounted \/ files[name] = NoContent \/ handles[name] > 0
        /\ Return(QAPI_ERROR)
        /\ UNCHANGED files
  /\ UNCHANGED <<diskVars, handles, test>>

-----------------------------------------------------------------------------
(* sdcard_fs_test()                                                        *)

StartTest ==
  /\ pc = "idle" /\ test \in {"none", "passed", "failed"}
  /\ Enter(OnDisk("init"), "init")
  /\ test' = "init"
  /\ UNCHANGED <<diskVars, files, handles>>

\* The call of the stage has returned.
After(stage) == pc = "idle" /\ test = stage

TestFails ==
  /\ pc = "idle" /\ test \in {"init", "write", "read", "delete"}
  /\ call.ret # QAPI_OK
  /\ test' = "failed"
  /\ UNCHANGED <<diskVars, files, handles, pc, call>>

TestGoesOn ==
  /\ call.ret = QAPI_OK
  /\ \/ /\ After("init")
        /\ Enter(Writing(SKYLT, TestBuffer, 0), "open_w")
        /\ test' = "write"
     \/ /\ After("write")
        /\ Enter([call EXCEPT !.op = "read"], "open_r")
        /\ test' = "read"
     \/ /\ After("read")
        /\ Enter([call EXCEPT !.op = "delete"], "delete")
        /\ test' = "delete"
  /\ UNCHANGED <<diskVars, files, handles>>

\* Mutant of TestCompares: only what came back is compared.
MutTestComparesRead ==
  /\ After("delete") /\ call.ret = QAPI_OK
  /\ test' = IF call.read = SubSeq(call.buffer, 1, call.read_length) THEN "passed" ELSE "failed"
  /\ UNCHANGED <<diskVars, files, handles, pc, call>>

\* strncmp() over the length of the buffer; the read buffer was zeroed.
TestCompares ==
  /\ After("delete") /\ call.ret = QAPI_OK
  /\ test' = IF call.read = call.buffer THEN "passed" ELSE "failed"
  /\ UNCHANGED <<diskVars, files, handles, pc, call>>

\* Power is lost or the board resets.
Reset ==
  /\ "reset" \in faults
  /\ g_pxDisk_ptr' = "NULL" /\ mounted' = FALSE /\ total_sectors' = "card"
  /\ handles' = [n \in FileNames |-> 0]
  /\ pc' = "idle" /\ call' = NoCall /\ test' = "none"
  /\ UNCHANGED files

-----------------------------------------------------------------------------
FileOpStep ==
  \/ OpenToWrite \/ OpenToRead \/ Seek \/ Write \/ Read \/ FileLength \/ CloseHandle \/ DeleteFile

DiskStep == InitFs \/ Stat \/ GetSize \/ Format

Test == StartTest \/ TestFails \/ TestGoesOn \/ TestCompares

FsNext ==
  /\ Call \/ FileOpStep \/ DiskStep \/ Test \/ Reset
  /\ UNCHANGED faults

FsSpec == FsInit /\ [][FsNext]_fsVars

-----------------------------------------------------------------------------
Status == {QAPI_OK, QAPI_ERROR, pdPASS}

Calls ==
  [op : {"none", "write", "read", "delete", "file_len", "init", "stat", "get_size", "format"},
   name : FileNames, buffer : Seq(Bytes), position : Nat, length : Nat,
   write_length : Nat, read_length : Nat, read : Seq(Bytes), ret : Status]

FsTypeOK ==
  /\ faults \in FaultSets
  /\ g_pxDisk_ptr \in {"NULL", "disk"} /\ mounted \in BOOLEAN
  /\ total_sectors \in {"card", "partition"}
  /\ files \in [FileNames -> {NoContent} \cup Seq(Bytes)]
  /\ handles \in [FileNames -> 0 .. MaxHandles]
  /\ pc \in {"idle", "fault", "init", "stat", "get_size", "format", "delete", "open_w", "open_r",
             "seek", "transfer", "length", "close"}
  /\ call \in Calls
  /\ test \in {"none", "init", "write", "read", "delete", "passed", "failed"}

Returned(op) == pc = "idle" /\ call.op = op

\* When sdcard_fs_test() passes, both calls have
\* moved the whole buffer, whatever was left on the card by an earlier test.
TestOkIsTrue ==
  test = "passed" => call.write_length = Len(TestBuffer) /\ call.read_length = Len(TestBuffer)

\* A write that returns QAPI_OK has put the whole buffer into the file, and
\* nothing else is in it.
WriteOkIsWhole ==
  Returned("write") /\ call.ret = QAPI_OK
    => files[name] = Patched(<<>>, call.buffer, call.position)

\* Where no transfer ends early it has.
WriteOkIsWholeUnlessShort == "short" \notin faults => WriteOkIsWhole

\* Where no seek fails and no transfer ends early, no handle is left open
\* between the calls; the disk, the files and the call are in order at all times.
HandlesReturned ==
  /\ FsTypeOK
  /\ pc = "idle" /\ faults \cap {"seek", "short"} = {} => \A n \in FileNames : handles[n] = 0

=============================================================================
