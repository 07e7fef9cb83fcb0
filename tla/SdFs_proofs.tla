----------------------------- MODULE SdFs_proofs -----------------------------
(***************************************************************************)
(* What SdFs guarantees for every set of files, buffers and positions and  *)
(* every choice of faults: a self-test that passes has moved the whole     *)
(* buffer both ways, a write that returns QAPI_OK has replaced the file by *)
(* the buffer unless a transfer ended early, and a file that is used is    *)
(* open, and closed again unless a seek or a transfer failed.              *)
(***************************************************************************)
EXTENDS SdFs, SequenceTheorems, TLAPS

\* The calls of the FAT library that need an open file.
Holding == {"seek", "transfer", "length", "close"}

\* What each step is a step of.
OpInv ==
  /\ pc = "open_w" => call.op = "write"
  /\ pc = "open_r" => call.op \in {"read", "file_len"}
  /\ pc \in {"seek", "transfer"} => call.op \in {"write", "read"}
  /\ pc = "length" => call.op = "file_len"
  /\ pc \in {"init", "stat", "get_size", "format", "delete"} => call.op = pc

\* A file that is being used is there and open ...
OpenInv == pc \in Holding => files[name] \in Seq(Bytes) /\ handles[name] > 0

\* ... and where neither a seek fails nor a transfer ends early nothing else is.
HandlesInv ==
  faults \cap {"seek", "short"} = {}
    => \A n \in FileNames : handles[n] = IF pc \in Holding /\ n = name THEN 1 ELSE 0

\* A transfer has ended with the status of its seek or of its close.
HasMoved == pc = "close" \/ (pc = "idle" /\ call.ret = QAPI_OK)

\* A write finds the file empty and leaves what it has transferred.
WriteInv ==
  call.op = "write" =>
    /\ call.length = Len(call.buffer)
    /\ pc \in {"open_w", "seek", "transfer"} => call.length > 0
    /\ pc \in {"seek", "transfer"} => files[name] = <<>>
    /\ HasMoved =>
         /\ call.write_length <= call.length
         /\ files[name] = IF call.write_length = 0 THEN <<>>
              ELSE Patched(<<>>, SubSeq(call.buffer, 1, call.write_length), call.position)
         /\ "short" \notin faults => call.write_length = call.length /\ call.length > 0

\* From its write on sdcard_fs_test() works on its own file, with its own buffer;
\* the file is as long as the write said, and the read moves no more than that.
TestInv ==
  /\ test \in {"write", "read", "delete"} =>
       /\ call.op = test /\ name = SKYLT /\ call.buffer = TestBuffer
       /\ call.position = 0 /\ call.length = Len(TestBuffer)
  /\ test \in {"read", "delete"} => call.write_length <= call.length
  /\ test = "read" /\ pc \in {"open_r", "seek", "transfer"} =>
       files[SKYLT] \in Seq(Bytes) /\ Len(files[SKYLT]) = call.write_length
  /\ test = "delete" \/ (test = "read" /\ HasMoved) =>
       call.read_length <= call.write_length /\ Len(call.read) = call.read_length
  /\ test = "passed" => pc = "idle"

FsInv == FsTypeOK /\ OpInv /\ OpenInv /\ HandlesInv /\ WriteInv /\ TestInv /\ TestOkIsTrue

-----------------------------------------------------------------------------
(* The data                                                                *)

\* A function on 1 .. n is a sequence of length n.
LEMMA IsSequence ==
  ASSUME NEW S, NEW n \in Nat, NEW f \in [1 .. n -> S]
  PROVE  f \in Seq(S) /\ Len(f) = n
  OBVIOUS

\* A write leaves a file of bytes, at least as long as where it ended.
LEMMA WrittenIs ==
  ASSUME NEW content \in Seq(Bytes), NEW b \in Seq(Bytes), NEW p \in Nat
  PROVE  /\ Patched(content, b, p) \in Seq(Bytes)
         /\ Len(Patched(content, b, p)) =
              IF Len(content) > p + Len(b) THEN Len(content) ELSE p + Len(b)
  <1> DEFINE n == IF Len(content) > p + Len(b) THEN Len(content) ELSE p + Len(b)
             F(i) == IF i \in p + 1 .. p + Len(b) THEN b[i - p]
                     ELSE IF i <= Len(content) THEN content[i] ELSE Hole
  <1>1. n \in Nat /\ Hole \in Bytes /\ Len(b) \in Nat /\ Len(content) \in Nat
    BY DEF Bytes
  <1>2. \A i \in 1 .. n : F(i) \in Bytes
    <2> SUFFICES ASSUME NEW i \in 1 .. n PROVE F(i) \in Bytes
      OBVIOUS
    <2>1. CASE i \in p + 1 .. p + Len(b)
      <3>1. i - p \in 1 .. Len(b)
        BY <2>1, <1>1
      <3>2. b[i - p] \in Bytes
        BY <3>1, ElementOfSeq
      <3> QED
        BY <2>1, <3>2
    <2>2. CASE i \notin p + 1 .. p + Len(b) /\ i <= Len(content)
      BY <2>2, <1>1, ElementOfSeq
    <2>3. CASE i \notin p + 1 .. p + Len(b) /\ ~(i <= Len(content))
      BY <2>3, <1>1
    <2> QED
      BY <2>1, <2>2, <2>3
  <1>3. [i \in 1 .. n |-> F(i)] \in [1 .. n -> Bytes]
    BY <1>2
  <1>4. Patched(content, b, p) = [i \in 1 .. n |-> F(i)]
    BY DEF Patched
  <1> HIDE DEF n, F
  <1>5. Patched(content, b, p) \in Seq(Bytes) /\ Len(Patched(content, b, p)) = n
    BY <1>1, <1>3, <1>4, IsSequence
  <1> QED
    BY <1>5 DEF n

\* The first k bytes of a sequence, and what a read takes of it.
LEMMA Part ==
  ASSUME NEW q \in Seq(Bytes), NEW p \in Nat, NEW k \in Nat, k > 0 => p + k <= Len(q)
  PROVE  SubSeq(q, p + 1, p + k) \in Seq(Bytes) /\ Len(SubSeq(q, p + 1, p + k)) = k
  <1>1. CASE k = 0
    <2>1. SubSeq(q, p + 1, p + k) = <<>>
      BY <1>1, SubSeqEmpty
    <2> QED
      BY <2>1, <1>1
  <1>2. CASE k > 0
    <2>1. \A i \in p + 1 .. p + k : q[i] \in Bytes
      BY <1>2, ElementOfSeq
    <2>2. p + 1 \in Int /\ p + k \in Int /\ p + 1 <= p + k /\ (p + k) - (p + 1) + 1 = k
      BY <1>2
    <2> QED
      BY <2>1, <2>2, SubSeqProperties
  <1> QED
    BY <1>1, <1>2

\* Only the status of a call changes.
LEMMA WithRet ==
  ASSUME NEW c \in Calls, NEW r \in Status
  PROVE  /\ [c EXCEPT !.ret = r] \in Calls
         /\ [c EXCEPT !.ret = r].ret = r
         /\ \A f \in {"op", "name", "buffer", "position", "length", "write_length", "read_length",
                      "read"} : [c EXCEPT !.ret = r][f] = c[f]
  BY DEF Calls

\* No call is one.
LEMMA NoCallIs == NoCall \in Calls /\ NoCall.op = "none"
  <1>1. <<>> \in Seq(Bytes)
    BY EmptySeq
  <1> QED
    BY <1>1, FilesAssumption DEF NoCall, Calls, Status, QAPI_OK

\* A write as it is called.
LEMMA WritingIs ==
  ASSUME NEW n \in FileNames, NEW b \in Seq(Bytes), NEW p \in Nat
  PROVE  LET c == Writing(n, b, p)
         IN  /\ c \in Calls /\ c.op = "write" /\ c.name = n /\ c.buffer = b /\ c.position = p
             /\ c.length = Len(b)
  <1>1. Len(b) \in Nat
    OBVIOUS
  <1> QED
    BY <1>1, NoCallIs DEF Writing, Calls

\* The other calls.
LEMMA OthersAre ==
  /\ \A n \in FileNames, l \in Nat, p \in Nat : Reading(n, l, p) \in Calls /\ Reading(n, l,
         p).op = "read"
  /\ \A o \in {"delete", "file_len"}, n \in FileNames : OnFile(o, n) \in Calls /\ OnFile(o,
         n).op = o
  /\ \A o \in {"init", "stat", "get_size", "format"} : OnDisk(o) \in Calls /\ OnDisk(o).op = o
  <1>1. \A n \in FileNames, l \in Nat, p \in Nat :
          Reading(n, l, p) \in Calls /\ Reading(n, l, p).op = "read"
    BY NoCallIs DEF Reading, Calls
  <1>2. \A o \in {"delete", "file_len"}, n \in FileNames : OnFile(o, n) \in Calls /\ OnFile(o,
            n).op = o
    BY NoCallIs DEF OnFile, Calls
  <1>3. \A o \in {"init", "stat", "get_size", "format"} : OnDisk(o) \in Calls /\ OnDisk(o).op = o
    BY NoCallIs DEF OnDisk, Calls
  <1> QED
    BY <1>1, <1>2, <1>3

\* What a caller other than the test asks for.
LEMMA RequestsAre ==
  ASSUME NEW c \in Requests
  PROVE  c \in Calls /\ c.op # "none" /\ (c.op = "write" => c.length = Len(c.buffer))
  <1>1. Buffers \subseteq Seq(Bytes) /\ Positions \subseteq Nat /\ Lengths \subseteq Nat
    BY BuffersAssumption, BoundsAssumption
  <1>2. CASE \E n \in FileNames, b \in Buffers, p \in Positions : c = Writing(n, b, p)
    BY <1>1, <1>2, WritingIs
  <1>3. CASE \E n \in FileNames, l \in Lengths, p \in Positions : c = Reading(n, l, p)
    BY <1>1, <1>3, OthersAre
  <1>4. CASE \E o \in {"delete", "file_len"}, n \in FileNames : c = OnFile(o, n)
    BY <1>4, OthersAre
  <1>5. CASE \E o \in {"init", "stat", "get_size", "format"} : c = OnDisk(o)
    BY <1>5, OthersAre
  <1> QED
    BY <1>2, <1>3, <1>4, <1>5 DEF Requests

-----------------------------------------------------------------------------
(* The types                                                               *)

\* What the steps that may return do with the call.
LEMMA Returning ==
  ASSUME FsTypeOK, DiskStep \/ OpenToWrite \/ OpenToRead \/ Seek \/ CloseHandle \/ DeleteFile
  PROVE  call' = call \/ \E r \in Status : call' = [call EXCEPT !.ret = r]
  <1> USE DEF Return, Status, QAPI_OK, QAPI_ERROR, pdPASS, pdFAIL
  <1>1. CASE InitFs
    BY <1>1 DEF InitFs
  <1>2. CASE Stat \/ GetSize
    BY <1>2 DEF Stat, GetSize, Shown
  <1>3. CASE Format
    BY <1>3 DEF Format
  <1>4. CASE OpenToWrite \/ OpenToRead
    BY <1>4 DEF OpenToWrite, OpenToRead
  <1>5. CASE Seek \/ CloseHandle \/ DeleteFile
    BY <1>5 DEF Seek, CloseHandle, DeleteFile
  <1> QED
    BY <1>1, <1>2, <1>3, <1>4, <1>5 DEF DiskStep

\* The first bytes of a buffer.
LEMMA Front ==
  ASSUME NEW q \in Seq(Bytes), NEW k \in Nat, k <= Len(q)
  PROVE  SubSeq(q, 1, k) \in Seq(Bytes) /\ Len(SubSeq(q, 1, k)) = k
  <1>1. 0 + 1 = 1 /\ 0 + k = k
    OBVIOUS
  <1> QED
    BY <1>1, Part

\* What a read takes of a file that is there.
LEMMA ReadTakes ==
  ASSUME FsTypeOK, OpenInv, Read
  PROVE  \E k \in Nat : /\ call' = [call EXCEPT !.read_length = k,
                                      !.read = SubSeq(files[name], call.position + 1,
                                          call.position + k)]
                        /\ k > 0 => call.position + k <= Len(files[name])
                        /\ k <= call.length
                        /\ SubSeq(files[name], call.position + 1,
                               call.position + k) \in Seq(Bytes)
                        /\ Len(SubSeq(files[name], call.position + 1, call.position + k)) = k
  <1>1. files[name] \in Seq(Bytes) /\ call.position \in Nat /\ call.length \in Nat
    BY DEF OpenInv, Read, Holding, FsTypeOK, Calls
  <1>2. Len(files[name]) \in Nat
    BY <1>1
  <1> DEFINE left == Len(files[name]) - call.position
             most == IF left < 0 THEN 0 ELSE IF left < call.length THEN left ELSE call.length
  <1>3. most \in Nat /\ (most > 0 => call.position + most <= Len(files[name])) /\
            most <= call.length
    BY <1>1, <1>2
  <1>4. PICK k \in (IF "short" \in faults THEN 0 .. most ELSE {most}) :
          call' = [call EXCEPT !.read_length = k,
                     !.read = SubSeq(files[name], call.position + 1, call.position + k)]
    BY DEF Read
  <1> HIDE DEF left, most
  <1>5. k \in Nat /\ (k > 0 => call.position + k <= Len(files[name])) /\ k <= call.length
    BY <1>1, <1>2, <1>3
  <1>6. /\ SubSeq(files[name], call.position + 1, call.position + k) \in Seq(Bytes)
        /\ Len(SubSeq(files[name], call.position + 1, call.position + k)) = k
    BY <1>1, <1>5, Part
  <1> QED
    BY <1>4, <1>5, <1>6

\* A write transfers a first part of the buffer.
LEMMA WriteMoves ==
  ASSUME FsTypeOK, Write
  PROVE  \E k \in Nat :
           /\ k <= call.length
           /\ "short" \notin faults => k = call.length
           /\ files' = [files EXCEPT ![name] =
                          IF k = 0 THEN @ ELSE Patched(@, SubSeq(call.buffer, 1, k),
                              call.position)]
           /\ call' = [call EXCEPT !.write_length = k]
           /\ pc' = IF k = call.length THEN "close" ELSE "idle"
  <1>1. call.length \in Nat
    BY DEF FsTypeOK, Calls
  <1>2. PICK k \in (IF "short" \in faults THEN 0 .. call.length ELSE {call.length}) :
          /\ files' = [files EXCEPT ![name] =
                         IF k = 0 THEN @ ELSE Patched(@, SubSeq(call.buffer, 1, k),
                             call.position)]
          /\ call' = [call EXCEPT !.write_length = k]
          /\ pc' = IF k = call.length THEN "close" ELSE "idle"
    BY DEF Write
  <1>3. k \in Nat /\ k <= call.length /\ ("short" \notin faults => k = call.length)
    BY <1>1
  <1> QED
    BY <1>2, <1>3

\* A call stays one.
LEMMA CallStep ==
  ASSUME FsTypeOK, OpenInv, WriteInv, FsNext
  PROVE  call' \in Calls
  <1>1. call \in Calls /\ QAPI_ERROR \in Status /\ SKYLT \in FileNames /\
            TestBuffer \in Seq(Bytes)
    BY FilesAssumption, BuffersAssumption DEF FsTypeOK, Status
  <1>2. CASE Call
    <2>1. PICK c \in Requests : call' = [c EXCEPT !.ret = QAPI_ERROR]
      BY <1>2 DEF Call, Enter
    <2> QED
      BY <2>1, <1>1, RequestsAre, WithRet
  <1>3. CASE DiskStep \/ OpenToWrite \/ OpenToRead \/ Seek \/ CloseHandle \/ DeleteFile
    BY <1>1, <1>3, Returning, WithRet
  <1>4. CASE Write
    <2>1. PICK k \in Nat : call' = [call EXCEPT !.write_length = k]
      BY <1>4, WriteMoves
    <2> QED
      BY <2>1, <1>1 DEF Calls
  <1>5. CASE Read
    <2>1. PICK k \in Nat, r \in Seq(Bytes) : call' = [call EXCEPT !.read_length = k, !.read = r]
      BY <1>5, ReadTakes
    <2> QED
      BY <2>1, <1>1 DEF Calls
  <1>6. CASE FileLength
    <2>1. Len(files[name]) \in Nat
      BY <1>6 DEF FileLength, OpenInv, Holding
    <2> QED
      BY <2>1, <1>1, <1>6 DEF FileLength, Calls
  <1>7. CASE StartTest
    <2>1. call' = [OnDisk("init") EXCEPT !.ret = QAPI_ERROR]
      BY <1>7 DEF StartTest, Enter
    <2>2. OnDisk("init") \in Calls
      BY OthersAre
    <2> QED
      BY <2>1, <2>2, <1>1, WithRet
  <1>8. CASE TestGoesOn
    <2>1. Writing(SKYLT, TestBuffer, 0) \in Calls
      BY <1>1, WritingIs
    <2>2. [call EXCEPT !.op = "read"] \in Calls /\ [call EXCEPT !.op = "delete"] \in Calls
      BY <1>1 DEF Calls
    <2>3. \E c \in Calls : call' = [c EXCEPT !.ret = QAPI_ERROR]
      BY <2>1, <2>2, <1>8 DEF TestGoesOn, Enter
    <2> QED
      BY <2>3, <1>1, WithRet
  <1>9. CASE TestFails \/ TestCompares
    BY <1>1, <1>9 DEF TestFails, TestCompares
  <1>10. CASE Reset
    BY <1>10, NoCallIs DEF Reset
  <1> QED
    BY <1>2, <1>3, <1>4, <1>5, <1>6, <1>7, <1>8, <1>9, <1>10 DEF FsNext, FileOpStep, Test

\* A write leaves a file.
LEMMA WrittenFile ==
  ASSUME FsTypeOK, OpenInv, WriteInv, Write
  PROVE  \E v \in Seq(Bytes) : files' = [files EXCEPT ![name] = v]
  <1>1. PICK k \in Nat :
          /\ k <= call.length
          /\ files' = [files EXCEPT ![name] =
                         IF k = 0 THEN @ ELSE Patched(@, SubSeq(call.buffer, 1, k),
                             call.position)]
    BY WriteMoves
  <1>2. files[name] \in Seq(Bytes) /\ call.position \in Nat /\ call.buffer \in Seq(Bytes)
    BY DEF Write, OpenInv, Holding, FsTypeOK, Calls
  <1>3. call.length = Len(call.buffer)
    BY DEF Write, WriteInv
  <1>4. SubSeq(call.buffer, 1, k) \in Seq(Bytes)
    BY <1>1, <1>2, <1>3, Front
  <1>5. Patched(files[name], SubSeq(call.buffer, 1, k), call.position) \in Seq(Bytes)
    BY <1>2, <1>4, WrittenIs
  <1>6. files[name] \in Seq(Bytes)
    BY <1>2
  <1> DEFINE v == IF k = 0 THEN files[name]
                  ELSE Patched(files[name], SubSeq(call.buffer, 1, k), call.position)
  <1>7. v \in Seq(Bytes) /\ files' = [files EXCEPT ![name] = v]
    <2>1. CASE k = 0
      BY <2>1, <1>1, <1>6
    <2>2. CASE k # 0
      BY <2>2, <1>1, <1>5
    <2> QED
      BY <2>1, <2>2
  <1> QED
    BY <1>7

\* The files stay files.
LEMMA FilesStep ==
  ASSUME FsTypeOK, OpenInv, WriteInv, FsNext
  PROVE  files' \in [FileNames -> {NoContent} \cup Seq(Bytes)]
  <1>1. files \in [FileNames -> {NoContent} \cup Seq(Bytes)] /\ name \in FileNames /\
            <<>> \in Seq(Bytes)
    BY EmptySeq DEF FsTypeOK, Calls, name
  <1>2. CASE Write
    BY <1>1, <1>2, WrittenFile
  <1>3. CASE OpenToWrite
    BY <1>1, <1>3 DEF OpenToWrite
  <1>4. CASE Format \/ DeleteFile
    BY <1>1, <1>4 DEF Format, DeleteFile
  <1>5. CASE UNCHANGED files
    BY <1>1, <1>5
  <1>6. Call \/ InitFs \/ Stat \/ GetSize \/ OpenToRead \/ Seek \/ Read \/ FileLength \/
            CloseHandle \/ Test \/ Reset
          => UNCHANGED files
    BY DEF Call, InitFs, Stat, GetSize, OpenToRead, Seek, Read, FileLength, CloseHandle, Test,
           StartTest,
       TestFails, TestGoesOn, TestCompares, Reset
  <1> QED
    BY <1>2, <1>3, <1>4, <1>5, <1>6 DEF FsNext, FileOpStep, DiskStep

\* A file is open as often as it was opened and not closed.
LEMMA HandlesStep ==
  ASSUME FsTypeOK, OpenInv, FsNext
  PROVE  handles' \in [FileNames -> 0 .. MaxHandles]
  <1>1. handles \in [FileNames -> 0 .. MaxHandles] /\ name \in FileNames /\ MaxHandles \in Nat
    BY BoundsAssumption DEF FsTypeOK, Calls, name
  <1>2. CASE OpenToWrite \/ OpenToRead
    <2>1. UNCHANGED handles \/ (handles[name] < MaxHandles /\ handles' =
              [handles EXCEPT ![name] = @ + 1])
      BY <1>2 DEF OpenToWrite, OpenToRead, HandleOpened
    <2> QED
      BY <2>1, <1>1
  <1>3. CASE CloseHandle
    <2>1. handles[name] > 0 /\ handles' = [handles EXCEPT ![name] = @ - 1]
      BY <1>3 DEF CloseHandle, HandleClosed, OpenInv, Holding
    <2> QED
      BY <2>1, <1>1
  <1>4. CASE Reset
    BY <1>1, <1>4 DEF Reset
  <1>5. CASE UNCHANGED handles
    BY <1>1, <1>5
  <1>6. Call \/ DiskStep \/ Seek \/ Write \/ Read \/ FileLength \/ DeleteFile \/ Test =>
            UNCHANGED handles
    BY DEF Call, DiskStep, InitFs, Stat, GetSize, Format, Seek, Write, Read, FileLength,
           DeleteFile, Test,
       StartTest, TestFails, TestGoesOn, TestCompares
  <1> QED
    BY <1>2, <1>3, <1>4, <1>5, <1>6 DEF FsNext, FileOpStep

\* Where a caller's request goes on.
LEMMA BeginsAt ==
  ASSUME NEW c \in Calls, c.op # "none"
  PROVE  \/ Begins(c) = "idle"
         \/ Begins(c) = "open_w" /\ c.op = "write" /\ c.length > 0
         \/ Begins(c) = "open_r" /\ c.op \in {"read", "file_len"}
         \/ Begins(c) = c.op /\ c.op \in {"init", "stat", "get_size", "format", "delete"}
  BY DEF Begins, Calls

\* What a caller's request leads to.
LEMMA CallIs ==
  ASSUME Call
  PROVE  \E c \in Calls :
           /\ call' = [c EXCEPT !.ret = QAPI_ERROR] /\ pc' = Begins(c)
           /\ c.op # "none" /\ (c.op = "write" => c.length = Len(c.buffer))
           /\ call' \in Calls /\ call'.ret = QAPI_ERROR
           /\ call'.op = c.op /\ call'.length = c.length /\ call'.buffer = c.buffer
  <1>1. PICK c \in Requests : call' = [c EXCEPT !.ret = QAPI_ERROR] /\ pc' = Begins(c)
    BY DEF Call, Enter
  <1>2. QAPI_ERROR \in Status
    BY DEF Status
  <1> QED
    BY <1>1, <1>2, RequestsAre, WithRet

\* The remaining types.
LEMMA ControlStep ==
  ASSUME FsTypeOK, OpenInv, FsNext
  PROVE  /\ faults' \in FaultSets
         /\ g_pxDisk_ptr' \in {"NULL", "disk"}
         /\ total_sectors' \in {"card", "partition"}
         /\ pc' \in {"idle", "fault", "init", "stat", "get_size", "format", "delete", "open_w",
                      "open_r", "seek", "transfer", "length", "close"}
         /\ test' \in {"none", "init", "write", "read", "delete", "passed", "failed"}
  <1> USE DEF FsTypeOK, Return, Enter, diskVars
  <1>1. UNCHANGED faults
    BY DEF FsNext
  <1>2. CASE Call
    <2>1. PICK c \in Calls : c.op # "none" /\ pc' = Begins(c)
      BY <1>2, CallIs
    <2> QED
      BY <2>1, <1>1, <1>2, BeginsAt DEF Call
  <1>3. CASE InitFs \/ Stat \/ GetSize
    BY <1>1, <1>3 DEF InitFs, Stat, GetSize
  <1>4. CASE Format
    BY <1>1, <1>4 DEF Format
  <1>5. CASE OpenToWrite \/ OpenToRead \/ Seek
    BY <1>1, <1>5 DEF OpenToWrite, OpenToRead, Seek
  <1>6. CASE Write \/ Read \/ FileLength \/ CloseHandle \/ DeleteFile
    BY <1>1, <1>6 DEF Write, Read, FileLength, CloseHandle, DeleteFile
  <1>7. CASE Test
    BY <1>1, <1>7 DEF Test, StartTest, TestFails, TestGoesOn, TestCompares
  <1>8. CASE Reset
    BY <1>1, <1>8 DEF Reset
  <1> QED
    BY <1>2, <1>3, <1>4, <1>5, <1>6, <1>7, <1>8 DEF FsNext, FileOpStep, DiskStep

\* The library knows the disk or does not.
LEMMA MountedStep ==
  ASSUME mounted \in BOOLEAN, FsNext
  PROVE  mounted' \in BOOLEAN
  <1> USE DEF diskVars
  <1>1. CASE Call \/ FileOpStep \/ Test
    BY <1>1 DEF Call, FileOpStep, OpenToWrite, OpenToRead, Seek, Write, Read, FileLength,
           CloseHandle, DeleteFile,
       Test, StartTest, TestFails, TestGoesOn, TestCompares
  <1>2. CASE DiskStep
    BY <1>2 DEF DiskStep, InitFs, Stat, GetSize, Format
  <1>3. CASE Reset
    BY <1>3 DEF Reset
  <1> QED
    BY <1>1, <1>2, <1>3 DEF FsNext

\* All types.
LEMMA TypeStep ==
  ASSUME FsTypeOK, OpenInv, WriteInv, FsNext
  PROVE  FsTypeOK'
  <1>1. mounted' \in BOOLEAN
    BY MountedStep DEF FsTypeOK
  <1> QED
    BY <1>1, CallStep, FilesStep, HandlesStep, ControlStep DEF FsTypeOK

-----------------------------------------------------------------------------
(* Which step belongs to which call, and which file is open                *)

\* The steps that change nothing of a call but its status keep what it is.
LEMMA Keeping ==
  ASSUME FsTypeOK, DiskStep \/ OpenToWrite \/ OpenToRead \/ Seek \/ CloseHandle \/ DeleteFile
  PROVE  \A f \in {"op", "name", "buffer", "position", "length", "write_length", "read_length",
             "read"} :
           call'[f] = call[f]
  <1>1. call \in Calls
    BY DEF FsTypeOK
  <1>2. CASE call' = call
    BY <1>2
  <1>3. CASE \E r \in Status : call' = [call EXCEPT !.ret = r]
    <2>1. PICK r \in Status : call' = [call EXCEPT !.ret = r]
      BY <1>3
    <2> QED
      BY <2>1, <1>1, WithRet
  <1> QED
    BY <1>2, <1>3, Returning

\* The same for the transfers.
LEMMA Transferring ==
  ASSUME FsTypeOK, OpenInv, Write \/ Read \/ FileLength
  PROVE  \A f \in {"op", "name", "buffer", "position", "length", "ret"} : call'[f] = call[f]
  <1>1. call \in Calls
    BY DEF FsTypeOK
  <1>2. CASE Write
    <2>1. PICK k \in Nat : call' = [call EXCEPT !.write_length = k]
      BY <1>2, WriteMoves
    <2> QED
      BY <2>1, <1>1 DEF Calls
  <1>3. CASE Read
    <2>1. PICK k \in Nat, r \in Seq(Bytes) : call' = [call EXCEPT !.read_length = k, !.read = r]
      BY <1>3, ReadTakes
    <2> QED
      BY <2>1, <1>1 DEF Calls
  <1>4. CASE FileLength
    <2>1. call' = [call EXCEPT !.read_length = Len(files[name])]
      BY <1>4 DEF FileLength
    <2> QED
      BY <2>1, <1>1 DEF Calls
  <1> QED
    BY <1>2, <1>3, <1>4

\* What the test enters with.
LEMMA TestEnters ==
  ASSUME FsTypeOK, StartTest \/ TestGoesOn
  PROVE  /\ call'.ret = QAPI_ERROR
         /\ pc' = IF call'.op = "write" THEN "open_w" ELSE IF call'.op = "read" THEN
                "open_r" ELSE call'.op
         /\ test' = call'.op
         /\ \/ call'.op = "init"
            \/ /\ call'.op = "write" /\ call'.name = SKYLT /\ call'.buffer = TestBuffer
               /\ call'.position = 0 /\ call'.length = Len(TestBuffer)
               /\ call.ret = QAPI_OK
            \/ /\ call'.op \in {"read", "delete"} /\ call.ret = QAPI_OK /\ pc = "idle"
               /\ test = IF call'.op = "read" THEN "write" ELSE "read"
               /\ \A f \in {"name", "buffer", "position", "length", "write_length",
                      "read_length", "read"} :
                    call'[f] = call[f]
  <1>1. call \in Calls /\ QAPI_ERROR \in Status /\ SKYLT \in FileNames /\
            TestBuffer \in Seq(Bytes)
    BY FilesAssumption, BuffersAssumption DEF FsTypeOK, Status
  <1>2. CASE StartTest
    <2>1. call' = [OnDisk("init") EXCEPT !.ret = QAPI_ERROR] /\ pc' = "init" /\ test' = "init"
      BY <1>2 DEF StartTest, Enter
    <2>2. call'.op = "init" /\ call'.ret = QAPI_ERROR
      BY <2>1, <1>1, OthersAre, WithRet
    <2> QED
      BY <2>1, <2>2
  <1>3. CASE TestGoesOn /\ test = "init"
    <2>1. /\ call' = [Writing(SKYLT, TestBuffer, 0) EXCEPT !.ret = QAPI_ERROR]
          /\ pc' = "open_w" /\ test' = "write" /\ call.ret = QAPI_OK
      BY <1>3 DEF TestGoesOn, Enter, After
    <2>2. /\ call'.op = "write" /\ call'.ret = QAPI_ERROR /\ call'.name = SKYLT
          /\ call'.buffer = TestBuffer /\ call'.position = 0 /\ call'.length = Len(TestBuffer)
      BY <2>1, <1>1, WritingIs, WithRet
    <2> QED
      BY <2>1, <2>2
  <1>4. CASE TestGoesOn /\ test = "write"
    <2>1. /\ call' = [[call EXCEPT !.op = "read"] EXCEPT !.ret = QAPI_ERROR]
          /\ pc' = "open_r" /\ test' = "read" /\ call.ret = QAPI_OK /\ pc = "idle"
      BY <1>4 DEF TestGoesOn, Enter, After
    <2>2. /\ call'.op = "read" /\ call'.ret = QAPI_ERROR
          /\ \A f \in {"name", "buffer", "position", "length", "write_length", "read_length",
                 "read"} :
               call'[f] = call[f]
      BY <2>1, <1>1 DEF Calls
    <2> QED
      BY <2>1, <2>2, <1>4
  <1>5. CASE TestGoesOn /\ test = "read"
    <2>1. /\ call' = [[call EXCEPT !.op = "delete"] EXCEPT !.ret = QAPI_ERROR]
          /\ pc' = "delete" /\ test' = "delete" /\ call.ret = QAPI_OK /\ pc = "idle"
      BY <1>5 DEF TestGoesOn, Enter, After
    <2>2. /\ call'.op = "delete" /\ call'.ret = QAPI_ERROR
          /\ \A f \in {"name", "buffer", "position", "length", "write_length", "read_length",
                 "read"} :
               call'[f] = call[f]
      BY <2>1, <1>1 DEF Calls
    <2> QED
      BY <2>1, <2>2, <1>5
  <1> QED
    BY <1>2, <1>3, <1>4, <1>5 DEF TestGoesOn, After

\* A step enters a call of its own kind, or goes on with the one there is.
LEMMA OpStep ==
  ASSUME FsTypeOK, OpenInv, OpInv, FsNext
  PROVE  OpInv'
  <1> USE DEF OpInv
  <1>1. CASE Call
    <2>1. PICK c \in Calls : c.op # "none" /\ pc' = Begins(c) /\ call'.op = c.op
      BY <1>1, CallIs
    <2> QED
      BY <2>1, BeginsAt
  <1>2. CASE DiskStep \/ OpenToWrite \/ OpenToRead \/ Seek \/ CloseHandle \/ DeleteFile
    <2>1. call'.op = call.op
      BY <1>2, Keeping
    <2> QED
      BY <2>1, <1>2 DEF Return, DiskStep, InitFs, Stat, GetSize, Format, OpenToWrite, OpenToRead,
             Seek, CloseHandle, DeleteFile
  <1>3. CASE Write \/ Read \/ FileLength
    <2>1. pc' \in {"idle", "close"}
      BY <1>3, WriteMoves DEF Read, FileLength
    <2> QED
      BY <2>1
  <1>4. CASE StartTest \/ TestGoesOn
    BY <1>4, TestEnters
  <1>5. CASE TestFails \/ TestCompares \/ Reset
    BY <1>5 DEF TestFails, TestCompares, Reset
  <1> QED
    BY <1>1, <1>2, <1>3, <1>4, <1>5 DEF FsNext, FileOpStep, Test

\* A file that is used is there and open.
LEMMA OpenStep ==
  ASSUME FsTypeOK, OpenInv, OpInv, WriteInv, FsNext
  PROVE  OpenInv'
  <1> USE DEF OpenInv, Holding
  <1>1. name \in FileNames /\ files \in [FileNames -> {NoContent} \cup Seq(Bytes)] /\
            handles \in [FileNames -> 0 .. MaxHandles]
        /\ MaxHandles \in Nat /\ <<>> \in Seq(Bytes)
    BY BoundsAssumption, EmptySeq DEF FsTypeOK, Calls, name
  <1>2. CASE Call
    <2>1. PICK c \in Calls : c.op # "none" /\ pc' = Begins(c)
      BY <1>2, CallIs
    <2> QED
      BY <2>1, BeginsAt
  <1>3. CASE DiskStep \/ DeleteFile \/ CloseHandle \/ Reset \/ TestFails \/ TestCompares
    <2>1. pc' \in {"idle", "fault"}
      BY <1>3 DEF Return, DiskStep, InitFs, Stat, GetSize, Format, CloseHandle, DeleteFile,
             Reset, TestFails,
         TestCompares, After
    <2> QED
      BY <2>1
  <1>4. CASE OpenToWrite
    <2>1. name' = name
      BY <1>4, Keeping DEF name
    <2>2. CASE handles[name] < MaxHandles /\ files' = [files EXCEPT ![name] = <<>>] /\
              HandleOpened
      BY <2>1, <2>2, <1>1 DEF HandleOpened
    <2> QED
      BY <2>2, <1>4 DEF OpenToWrite, Return
  <1>5. CASE OpenToRead
    <2>1. name' = name
      BY <1>5, Keeping DEF name
    <2>2. CASE files[name] # NoContent /\ HandleOpened
      BY <2>1, <2>2, <1>1, <1>5 DEF HandleOpened, OpenToRead
    <2> QED
      BY <2>2, <1>5 DEF OpenToRead, Return
  <1>6. CASE Seek
    <2>1. name' = name
      BY <1>6, Keeping DEF name
    <2> QED
      BY <2>1, <1>6 DEF Seek, Return
  <1>7. CASE Read \/ FileLength
    <2>1. name' = name
      BY <1>7, Transferring DEF name
    <2> QED
      BY <2>1, <1>7 DEF Read, FileLength
  <1>8. CASE Write
    <2>1. name' = name
      BY <1>8, Transferring DEF name
    <2>2. files'[name] \in Seq(Bytes) /\ handles'[name] > 0
      BY <1>1, <1>8, WrittenFile DEF Write
    <2> QED
      BY <2>1, <2>2
  <1>9. CASE StartTest \/ TestGoesOn
    BY <1>9, TestEnters
  <1> QED
    BY <1>2, <1>3, <1>4, <1>5, <1>6, <1>7, <1>8, <1>9 DEF FsNext, FileOpStep, Test

\* Where neither a seek fails nor a transfer ends early, a call closes what it opened.
LEMMA HandlesInvStep ==
  ASSUME FsTypeOK, OpenInv, OpInv, WriteInv, HandlesInv, FsNext
  PROVE  HandlesInv'
  <1> SUFFICES ASSUME faults \cap {"seek", "short"} = {}
               PROVE  \A n \in FileNames : handles'[n] = IF pc' \in Holding /\ n = name' THEN
                          1 ELSE 0
    BY DEF HandlesInv, FsNext
  <1>1. name \in FileNames /\ handles \in [FileNames -> 0 .. MaxHandles]
        /\ \A n \in FileNames : handles[n] = IF pc \in Holding /\ n = name THEN 1 ELSE 0
    BY DEF FsTypeOK, Calls, name, HandlesInv
  <1> USE DEF Holding
  <1>2. CASE Call
    <2>1. PICK c \in Calls : c.op # "none" /\ pc' = Begins(c)
      BY <1>2, CallIs
    <2> QED
      BY <2>1, <1>1, <1>2, BeginsAt DEF Call
  <1>3. CASE DiskStep \/ DeleteFile \/ TestFails \/ TestCompares
    <2>1. pc' \in {"idle", "fault"} /\ pc \notin Holding /\ UNCHANGED handles
      BY <1>3 DEF Return, DiskStep, InitFs, Stat, GetSize, Format, DeleteFile, TestFails,
             TestCompares, After
    <2> QED
      BY <2>1, <1>1
  <1>4. CASE OpenToWrite \/ OpenToRead
    <2>1. name' = name
      BY <1>4, Keeping DEF name
    <2>2. pc \notin Holding
          /\ \/ pc' \in Holding /\ handles' = [handles EXCEPT ![name] = @ + 1]
             \/ pc' = "idle" /\ UNCHANGED handles
      BY <1>4 DEF OpenToWrite, OpenToRead, HandleOpened, Return
    <2> QED
      BY <2>1, <2>2, <1>1
  <1>5. CASE Seek
    <2>1. name' = name
      BY <1>5, Keeping DEF name
    <2> QED
      BY <2>1, <1>1, <1>5 DEF Seek
  <1>6. CASE Write \/ Read \/ FileLength
    <2>1. name' = name
      BY <1>6, Transferring DEF name
    <2>2. pc' = "close"
      BY <1>6, WriteMoves DEF Read, FileLength
    <2>3. pc \in Holding /\ UNCHANGED handles
      BY <1>6 DEF Write, Read, FileLength
    <2> QED
      BY <2>1, <2>2, <2>3, <1>1
  <1>7. CASE CloseHandle
    <2>1. pc = "close" /\ pc' = "idle" /\ handles' = [handles EXCEPT ![name] = @ - 1]
      BY <1>7 DEF CloseHandle, HandleClosed, Return
    <2> QED
      BY <2>1, <1>1
  <1>8. CASE StartTest \/ TestGoesOn
    <2>1. pc' \notin Holding
      BY <1>8, TestEnters
    <2>2. pc = "idle" /\ UNCHANGED handles
      BY <1>8 DEF StartTest, TestGoesOn, After
    <2> QED
      BY <2>1, <2>2, <1>1
  <1>9. CASE Reset
    BY <1>9 DEF Reset
  <1> QED
    BY <1>2, <1>3, <1>4, <1>5, <1>6, <1>7, <1>8, <1>9 DEF FsNext, FileOpStep, Test

-----------------------------------------------------------------------------
(* The writes                                                              *)

\* What a write has transferred is the file.
LEMMA WriteStep ==
  ASSUME FsTypeOK, OpenInv, OpInv, WriteInv, FsNext
  PROVE  WriteInv'
  <1>1. call \in Calls /\ name \in FileNames /\
            files \in [FileNames -> {NoContent} \cup Seq(Bytes)]
        /\ QAPI_ERROR # QAPI_OK /\ UNCHANGED faults
    BY DEF FsTypeOK, Calls, name, QAPI_ERROR, QAPI_OK, FsNext
  <1>2. CASE Call
    <2>1. PICK c \in Calls :
           /\ pc' = Begins(c)
           /\ c.op # "none" /\ (c.op = "write" => c.length = Len(c.buffer))
           /\ call'.ret = QAPI_ERROR
           /\ call'.op = c.op /\ call'.length = c.length /\ call'.buffer = c.buffer
      BY <1>2, CallIs
    <2>2. c.op = "write" => pc' = "idle" \/ (pc' = "open_w" /\ c.length > 0)
      BY <2>1, BeginsAt
    <2> QED
      BY <2>1, <2>2, <1>1 DEF WriteInv, HasMoved
  <1>3. CASE DiskStep \/ OpenToRead \/ DeleteFile \/ FileLength \/ Read
    <2>1. call.op # "write"
      BY <1>3 DEF OpInv, DiskStep, InitFs, Stat, GetSize, Format, OpenToRead, DeleteFile,
             FileLength, Read
    <2>2. call'.op = call.op
      BY <1>3, Keeping, Transferring
    <2> QED
      BY <2>1, <2>2 DEF WriteInv
  <1>4. CASE OpenToWrite
    <2>1. call.op = "write" /\ \A f \in {"op", "name", "buffer", "length"} : call'[f] = call[f]
      BY <1>4, Keeping DEF OpInv, OpenToWrite
    <2>2. call.length = Len(call.buffer) /\ call.length > 0
      BY <2>1, <1>4 DEF WriteInv, OpenToWrite
    <2>3. \/ pc' = "seek" /\ files'[name] = <<>>
          \/ pc' = "idle" /\ call'.ret = QAPI_ERROR
      BY <1>1, <1>4 DEF OpenToWrite, Return, Calls
    <2> QED
      BY <2>1, <2>2, <2>3, <1>1 DEF WriteInv, HasMoved, name
  <1>5. CASE Seek
    <2>1. \A f \in {"op", "name", "buffer", "length"} : call'[f] = call[f]
      BY <1>5, Keeping
    <2>2. pc = "seek" /\ UNCHANGED files
          /\ (pc' = "transfer" \/ (pc' = "idle" /\ call'.ret = QAPI_ERROR))
      BY <1>1, <1>5 DEF Seek, Return, Calls
    <2> QED
      BY <2>1, <2>2, <1>1 DEF WriteInv, HasMoved, name
  <1>6. CASE Write
    <2>1. PICK k \in Nat :
           /\ k <= call.length
           /\ "short" \notin faults => k = call.length
           /\ files' = [files EXCEPT ![name] =
                          IF k = 0 THEN @ ELSE Patched(@, SubSeq(call.buffer, 1, k),
                              call.position)]
           /\ call' = [call EXCEPT !.write_length = k]
           /\ pc' = IF k = call.length THEN "close" ELSE "idle"
      BY <1>6, WriteMoves
    <2>2. call.op = "write" /\ call.length > 0 /\ call.length = Len(call.buffer) /\ files[name] =
              <<>>
      BY <1>6 DEF Write, WriteInv
    <2>3. /\ call'.write_length = k /\ call'.length = call.length /\ call'.buffer = call.buffer
          /\ call'.position = call.position /\ call'.name = call.name
      BY <2>1, <1>1 DEF Calls
    <2>4. files'[name] = IF k = 0 THEN <<>> ELSE Patched(<<>>, SubSeq(call.buffer, 1, k),
              call.position)
      BY <2>1, <2>2, <1>1
    <2> QED
      BY <2>1, <2>2, <2>3, <2>4, <1>1 DEF WriteInv, HasMoved, name
  <1>7. CASE CloseHandle
    <2>1. \A f \in {"op", "name", "buffer", "position", "length", "write_length"} : call'[f] =
              call[f]
      BY <1>7, Keeping
    <2>2. pc = "close" /\ pc' = "idle" /\ UNCHANGED files
      BY <1>7 DEF CloseHandle, Return
    <2> QED
      BY <2>1, <2>2, <1>1 DEF WriteInv, HasMoved, name
  <1>8. CASE StartTest \/ TestGoesOn
    <2>1. call'.ret = QAPI_ERROR /\ (call'.op = "write" => pc' = "open_w" /\ call'.buffer =
              TestBuffer
             /\ call'.length = Len(TestBuffer))
      BY <1>8, TestEnters
    <2>2. Len(TestBuffer) > 0
      BY FilesAssumption, BuffersAssumption, EmptySeq
    <2> QED
      BY <2>1, <2>2, <1>1 DEF WriteInv, HasMoved
  <1>9. CASE TestFails \/ TestCompares
    <2>1. UNCHANGED <<faults, files, pc, call>>
      BY <1>1, <1>9 DEF TestFails, TestCompares
    <2> QED
      BY <2>1 DEF WriteInv, HasMoved, name
  <1>10. CASE Reset
    <2>1. call'.op = "none"
      BY <1>10, NoCallIs DEF Reset
    <2> QED
      BY <2>1 DEF WriteInv
  <1> QED
    BY <1>2, <1>3, <1>4, <1>5, <1>6, <1>7, <1>8, <1>9, <1>10 DEF FsNext, FileOpStep, Test

-----------------------------------------------------------------------------
(* The test                                                                *)

\* A write at the beginning of an empty file makes it as long as it says.
LEMMA WrittenAtStart ==
  ASSUME FsTypeOK, WriteInv, call.op = "write", HasMoved, call.position = 0
  PROVE  files[name] \in Seq(Bytes) /\ Len(files[name]) = call.write_length
  <1>1. /\ call.buffer \in Seq(Bytes) /\ call.write_length \in Nat /\
               call.write_length <= Len(call.buffer)
        /\ files[name] = IF call.write_length = 0 THEN <<>>
              ELSE Patched(<<>>, SubSeq(call.buffer, 1, call.write_length), 0)
    BY DEF FsTypeOK, Calls, WriteInv
  <1>2. <<>> \in Seq(Bytes) /\ Len(<<>>) = 0
    BY EmptySeq
  <1>3. /\ SubSeq(call.buffer, 1, call.write_length) \in Seq(Bytes)
        /\ Len(SubSeq(call.buffer, 1, call.write_length)) = call.write_length
    BY <1>1, Front
  <1>4. ASSUME NEW w \in Seq(Bytes), Len(w) = call.write_length
        PROVE  Patched(<<>>, w, 0) \in Seq(Bytes) /\ Len(Patched(<<>>, w, 0)) = call.write_length
    <2>1. /\ Patched(<<>>, w, 0) \in Seq(Bytes)
          /\ Len(Patched(<<>>, w, 0)) = IF Len(<<>>) > 0 + Len(w) THEN Len(<<>>) ELSE 0 + Len(w)
      <3>1. 0 \in Nat /\ <<>> \in Seq(Bytes) /\ w \in Seq(Bytes)
        BY <1>2, <1>4
      <3> QED
        BY ONLY <3>1, WrittenIs
    <2> QED
      BY <2>1, <1>1, <1>2, <1>4
  <1>5. /\ Patched(<<>>, SubSeq(call.buffer, 1, call.write_length), 0) \in Seq(Bytes)
        /\ Len(Patched(<<>>, SubSeq(call.buffer, 1, call.write_length), 0)) = call.write_length
    BY <1>3, <1>4
  <1>6. CASE call.write_length = 0
    BY <1>6, <1>1, <1>2
  <1>7. CASE call.write_length # 0
    BY <1>7, <1>1, <1>5
  <1> QED
    BY <1>6, <1>7

\* The test works on its own file and knows what has been moved.
LEMMA TestStep ==
  ASSUME FsTypeOK, OpenInv, OpInv, WriteInv, TestInv, TestOkIsTrue, FsNext
  PROVE  TestInv' /\ TestOkIsTrue'
  <1>1. call \in Calls /\ name \in FileNames /\ QAPI_ERROR # QAPI_OK
    BY DEF FsTypeOK, Calls, name, QAPI_ERROR, QAPI_OK
  <1>2. CASE Call
    BY <1>2 DEF Call, TestInv, TestOkIsTrue
  <1>3. CASE DiskStep
    <2>1. test \notin {"write", "read", "delete", "passed"}
      BY <1>3 DEF TestInv, OpInv, DiskStep, InitFs, Stat, GetSize, Format
    <2>2. UNCHANGED test
      BY <1>3 DEF DiskStep, InitFs, Stat, GetSize, Format
    <2> QED
      BY <2>1, <2>2 DEF TestInv, TestOkIsTrue
  <1>4. CASE OpenToWrite \/ OpenToRead \/ Seek \/ CloseHandle \/ DeleteFile
    <2>1. \A f \in {"op", "name", "buffer", "position", "length", "write_length", "read_length",
              "read"} :
           call'[f] = call[f]
      BY <1>4, Keeping
    <2>2. UNCHANGED test /\ test # "passed"
      BY <1>4 DEF OpenToWrite, OpenToRead, Seek, CloseHandle, DeleteFile, TestInv
    <2>3. CASE OpenToWrite
      <3>1. test \notin {"read", "delete"}
        BY <2>3 DEF TestInv, OpInv, OpenToWrite
      <3> QED
        BY <2>1, <2>2, <3>1 DEF TestInv, TestOkIsTrue, name
    <2>4. CASE OpenToRead \/ Seek
      <3>1. /\ UNCHANGED files /\ pc \in {"open_r", "seek"}
            /\ pc' \in {"seek", "length", "transfer"} \/ (pc' = "idle" /\ call'.ret = QAPI_ERROR)
        BY <2>4, <1>1 DEF OpenToRead, Seek, Return, Calls
      <3> QED
        BY <2>1, <2>2, <3>1, <1>1 DEF TestInv, TestOkIsTrue, name, HasMoved, OpInv
    <2>5. CASE CloseHandle
      <3>1. pc = "close" /\ pc' = "idle"
        BY <2>5 DEF CloseHandle, Return
      <3> QED
        BY <2>1, <2>2, <3>1 DEF TestInv, TestOkIsTrue, name, HasMoved
    <2>6. CASE DeleteFile
      <3>1. pc = "delete" /\ pc' = "idle" /\ test # "read"
        BY <2>6 DEF DeleteFile, Return, TestInv, OpInv
      <3> QED
        BY <2>1, <2>2, <3>1 DEF TestInv, TestOkIsTrue, name, HasMoved
    <2> QED
      BY <1>4, <2>3, <2>4, <2>5, <2>6
  <1>5. CASE Write
    <2>1. \A f \in {"op", "name", "buffer", "position", "length"} : call'[f] = call[f]
      BY <1>5, Transferring
    <2>2. UNCHANGED test /\ test \notin {"read", "delete", "passed"}
      BY <1>5 DEF Write, TestInv
    <2> QED
      BY <2>1, <2>2 DEF TestInv, TestOkIsTrue, name
  <1>6. CASE Read
    <2>1. PICK k \in Nat :
            /\ call' = [call EXCEPT !.read_length = k,
                          !.read = SubSeq(files[name], call.position + 1, call.position + k)]
            /\ k > 0 => call.position + k <= Len(files[name])
            /\ Len(SubSeq(files[name], call.position + 1, call.position + k)) = k
      BY <1>6, ReadTakes
    <2>2. /\ \A f \in {"op", "name", "buffer", "position", "length", "write_length"} : call'[f] =
                 call[f]
          /\ call'.read_length = k
          /\ call'.read = SubSeq(files[name], call.position + 1, call.position + k)
      BY <2>1, <1>1 DEF Calls
    <2>3. UNCHANGED test /\ test \notin {"write", "delete", "passed"} /\ pc = "transfer" /\ pc' =
              "close"
      BY <1>6 DEF Read, TestInv
    <2>4. CASE test = "read"
      <3>1. /\ name = SKYLT /\ call.position = 0 /\ Len(files[SKYLT]) = call.write_length
            /\ call.write_length \in Nat
        BY <2>3, <2>4, <1>1 DEF TestInv, Calls
      <3>2. k <= call.write_length /\ Len(call'.read) = k
        BY <3>1, <2>1, <2>2
      <3> QED
        BY <3>1, <3>2, <2>2, <2>3, <2>4 DEF TestInv, TestOkIsTrue, name
    <2>5. CASE test # "read"
      BY <2>3, <2>5 DEF TestInv, TestOkIsTrue
    <2> QED
      BY <2>4, <2>5
  <1>7. CASE FileLength
    <2>1. UNCHANGED test /\ test \notin {"write", "read", "delete", "passed"}
      BY <1>7 DEF FileLength, TestInv, OpInv
    <2> QED
      BY <2>1 DEF TestInv, TestOkIsTrue
  <1>8. CASE StartTest \/ TestGoesOn
    <2>1. CASE call'.op = "init" \/ call'.op = "write"
      BY <2>1, <1>1, <1>8, TestEnters DEF TestInv, TestOkIsTrue, name
    <2>2. CASE call'.op = "read"
      <3>1. /\ test = "write" /\ test' = "read" /\ pc = "idle" /\ call.ret = QAPI_OK
            /\ pc' = "open_r" /\ UNCHANGED files
            /\ \A f \in {"name", "buffer", "position", "length", "write_length"} : call'[f] =
                   call[f]
        BY <2>2, <1>8, TestEnters DEF StartTest, TestGoesOn
      <3>2. /\ call.op = "write" /\ name = SKYLT /\ call.buffer = TestBuffer /\ call.position = 0
            /\ call.length = Len(TestBuffer)
        BY <3>1 DEF TestInv
      <3>3. files[name] \in Seq(Bytes) /\ Len(files[name]) = call.write_length
        BY <3>1, <3>2, WrittenAtStart DEF HasMoved
      <3>4. call.write_length <= call.length
        BY <3>1, <3>2 DEF WriteInv, HasMoved
      <3> QED
        BY <2>2, <3>1, <3>2, <3>3, <3>4 DEF TestInv, TestOkIsTrue, name, HasMoved
    <2>3. CASE call'.op = "delete"
      <3>1. /\ test = "read" /\ test' = "delete" /\ pc = "idle" /\ call.ret = QAPI_OK
            /\ pc' = "delete"
            /\ \A f \in {"name", "buffer", "position", "length", "write_length", "read_length",
                   "read"} :
                 call'[f] = call[f]
        BY <2>3, <1>8, TestEnters
      <3> QED
        BY <2>3, <3>1 DEF TestInv, TestOkIsTrue, name, HasMoved
    <2> QED
      BY <2>1, <2>2, <2>3, <1>8, TestEnters
  <1>9. CASE TestFails
    BY <1>9 DEF TestFails, TestInv, TestOkIsTrue
  <1>10. CASE TestCompares
    <2>1. /\ call.read_length <= call.write_length /\ Len(call.read) = call.read_length
          /\ call.write_length <= call.length /\ call.length = Len(TestBuffer)
          /\ call.buffer = TestBuffer /\ pc = "idle"
      BY <1>10 DEF TestCompares, After, TestInv
    <2>2. call.read_length \in Nat /\ call.write_length \in Nat /\ call.length \in Nat
      BY <1>1 DEF Calls
    <2>3. test' = "passed" => call.read = TestBuffer
      BY <1>10, <2>1 DEF TestCompares
    <2>4. UNCHANGED <<pc, call>> /\ test' \in {"passed", "failed"}
      BY <1>10 DEF TestCompares
    <2>5. call.read = TestBuffer => call.write_length = Len(TestBuffer) /\ call.read_length =
              Len(TestBuffer)
      BY <2>1, <2>2
    <2> QED
      BY <2>1, <2>3, <2>4, <2>5 DEF TestInv, TestOkIsTrue
  <1>11. CASE Reset
    BY <1>11 DEF Reset, TestInv, TestOkIsTrue
  <1> QED
    BY <1>2, <1>3, <1>4, <1>5, <1>6, <1>7, <1>8, <1>9, <1>10, <1>11 DEF FsNext, FileOpStep, Test

-----------------------------------------------------------------------------
(* The theorems                                                            *)

\* Nothing has been called after power on.
LEMMA InitFsInv == FsInit => FsInv
  <1> SUFFICES ASSUME FsInit PROVE FsInv
    OBVIOUS
  <1>1. FsTypeOK
    <2>1. call \in Calls
      BY NoCallIs DEF FsInit
    <2>2. MaxHandles \in Nat
      BY BoundsAssumption
    <2>3. files \in [FileNames -> {NoContent} \cup Seq(Bytes)] /\
              handles \in [FileNames -> 0 .. MaxHandles]
      BY <2>2 DEF FsInit
    <2>4. mounted \in BOOLEAN
      BY DEF FsInit
    <2> QED
      BY <2>1, <2>3, <2>4 DEF FsInit, FsTypeOK
  <1>2. OpInv /\ OpenInv /\ HandlesInv
    BY DEF FsInit, OpInv, OpenInv, HandlesInv, Holding
  <1>3. WriteInv /\ TestInv /\ TestOkIsTrue
    BY NoCallIs DEF FsInit, WriteInv, TestInv, TestOkIsTrue
  <1> QED
    BY <1>1, <1>2, <1>3 DEF FsInv

\* The whole invariant is inductive.
LEMMA NextFsInv == FsInv /\ [FsNext]_fsVars => FsInv'
  <1>1. FsInv /\ FsNext => FsInv'
    BY TypeStep, OpStep, OpenStep, HandlesInvStep, WriteStep, TestStep DEF FsInv
  <1>2. ASSUME FsInv, UNCHANGED fsVars PROVE FsInv'
    <2> USE <1>2 DEF FsInv, fsVars, diskVars
    <2>1. FsTypeOK'
      BY DEF FsTypeOK
    <2>2. OpInv' /\ OpenInv' /\ HandlesInv'
      BY DEF OpInv, OpenInv, HandlesInv, name
    <2>3. WriteInv' /\ TestInv' /\ TestOkIsTrue'
      BY DEF WriteInv, TestInv, TestOkIsTrue, HasMoved, name
    <2> QED
      BY <2>1, <2>2, <2>3
  <1> QED
    BY <1>1, <1>2

\* A self-test that passes has written and read its whole buffer, whatever failed
\* before it and whatever was left on the card.
THEOREM TestOkIsTrueHolds == FsSpec => []TestOkIsTrue
  <1>1. FsInv => TestOkIsTrue
    BY DEF FsInv
  <1> QED
    BY <1>1, InitFsInv, NextFsInv, PTL DEF FsSpec

\* Where no transfer ends early, a write that returned QAPI_OK has left exactly
\* its buffer in the file.
THEOREM WriteOkIsWholeHolds == FsSpec => []WriteOkIsWholeUnlessShort
  <1>1. ASSUME FsInv PROVE WriteOkIsWholeUnlessShort
    <2> SUFFICES ASSUME "short" \notin faults, pc = "idle", call.op = "write", call.ret = QAPI_OK
                 PROVE  files[name] = Patched(<<>>, call.buffer, call.position)
      BY DEF WriteOkIsWholeUnlessShort, WriteOkIsWhole, Returned
    <2>1. /\ call.write_length = Len(call.buffer) /\ Len(call.buffer) > 0
          /\ files[name] = IF call.write_length = 0 THEN <<>>
               ELSE Patched(<<>>, SubSeq(call.buffer, 1, call.write_length), call.position)
      BY <1>1 DEF FsInv, WriteInv, HasMoved
    <2>2. SubSeq(call.buffer, 1, Len(call.buffer)) = call.buffer
      BY <1>1, SubSeqFull DEF FsInv, FsTypeOK, Calls
    <2>3. Len(call.buffer) \in Nat
      BY <1>1 DEF FsInv, FsTypeOK, Calls
    <2>4. call.write_length # 0
      BY <2>1, <2>3
    <2> QED
      BY <2>1, <2>2, <2>4
  <1> QED
    BY <1>1, InitFsInv, NextFsInv, PTL DEF FsSpec

\* The disk, the files and the call are in order, and where no seek fails and no
\* transfer ends early no call returns with a handle left open.
THEOREM HandlesReturnedHolds == FsSpec => []HandlesReturned
  <1>1. FsInv => HandlesReturned
    BY DEF FsInv, HandlesReturned, HandlesInv, Holding
  <1> QED
    BY <1>1, InitFsInv, NextFsInv, PTL DEF FsSpec

====
