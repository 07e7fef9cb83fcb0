---------------------------- MODULE SdCard_proofs ----------------------------
(***************************************************************************)
(* What SdCard guarantees for every number of tasks and sectors, every     *)
(* set of lengths and every fault of the card:                             *)
(*   - the mutex is owned in the locked parts, and internal_buffer holds   *)
(*     what the task that filled it put there;                             *)
(*   - the card is deselected when every call has returned;                *)
(*   - no call returns with the mutex, its buffers or a disordered heap;   *)
(*   - success means stored, delivered and erased.                         *)
(* The second half adds to the lock what is true of each call (CallInv),   *)
(* of the bit-banged bus (BitBangInv) and of the calls during which no     *)
(* other task was on the bus without the mutex (QuietInv).                 *)
(***************************************************************************)
EXTENDS SdCard, TLAPS

\* What the proofs need of the types: the functions of the tasks.
TaskInv ==
  /\ pc \in [Tasks -> Locations]
  /\ op \in [Tasks -> Ops \cup {"none"}]
  /\ DOMAIN call = Tasks

\* A task in a call has an operation; only the register read reaches the
\* register's steps, and it reaches no others.
OpsInv ==
  \A t \in Tasks :
    /\ pc[t] # "idle" => op[t] \in Ops
    /\ pc[t] \in {"regtoken", "regdata"} => op[t] = "register"

LockInv == TaskInv /\ OpsInv /\ LockOwned

\* Initially no task is in a call.
LEMMA InitLockInv == Init => LockInv
  BY DEF Init, LockInv, TaskInv, OpsInv, LockOwned, Locked, Locations

-----------------------------------------------------------------------------
\* The steps outside the locked part: calls, and the ends after the release.
LEMMA OutsideLockInv ==
  ASSUME LockInv, NEW t \in Tasks,
         Call(t) \/ FailDeselect(t) \/ FailReturn(t) \/ ReadRegister(t)
  PROVE  LockInv'
  <1> USE DEF LockInv, TaskInv, OpsInv, LockOwned, Locked, Locations, Goto, Set, Return,
              busVars, cardVars, callVars
  <1>1. CASE CallLocked(t)
    <2>1. PICK o, c : o \in Ops \ {"register"} /\ Begin(t, o, c)
      <3>1. CASE Transfer(t)
        BY <3>1 DEF Transfer
      <3>2. CASE Erase(t)
        BY <3>2 DEF Erase
      <3>3. CASE Clean(t)
        BY <3>3 DEF Clean
      <3> QED
        BY <1>1, <3>1, <3>2, <3>3 DEF CallLocked
    <2>2. op' = [op EXCEPT ![t] = o] /\ DOMAIN call' = Tasks
      BY <2>1 DEF Begin
    <2>3. pc' = [pc EXCEPT ![t] = "lock"] /\ UNCHANGED mutex
      BY <1>1 DEF CallLocked
    <2> QED
      BY <2>1, <2>2, <2>3
  <1>2. CASE FindTotalSector(t)
    BY <1>2 DEF FindTotalSector, Begin
  <1>3. CASE FailDeselect(t)
    BY <1>3 DEF FailDeselect
  <1>4. CASE FailReturn(t)
    BY <1>4 DEF FailReturn
  <1>5. CASE RegisterToken(t)
    BY <1>5 DEF RegisterToken
  <1>6. CASE RegisterRead(t)
    BY <1>6 DEF RegisterRead
  <1> QED
    BY <1>1, <1>2, <1>3, <1>4, <1>5, <1>6 DEF Call, ReadRegister

\* The steps up to the first response, and the steps that release the mutex.
LEMMA EdgeLockInv ==
  ASSUME LockInv, NEW t \in Tasks,
         TakeLock(t) \/ Alloc(t) \/ Command(t) \/ Done(t) \/ FailUnlock(t)
  PROVE  LockInv'
  <1> USE OpsAssumption, TaskAssumption
      DEF LockInv, TaskInv, OpsInv, LockOwned, Locked, Locations, Goto, Set, Return, Fail,
          busVars, cardVars, callVars
  <1>1. CASE TakeLock(t)
    BY <1>1 DEF TakeLock, Lockable
  <1>2. CASE Alloc(t)
    BY <1>2 DEF Alloc
  <1>3. CASE SendCommand(t)
    BY <1>3 DEF SendCommand
  <1>4. CASE Accepted(t)
    <2>1. /\ pc[t] = "resp" /\ UNCHANGED <<mutex, op>>
          /\ DOMAIN call' = Tasks
      BY <1>4 DEF Accepted
    <2>2. PICK l \in Locations :
            /\ pc' = [pc EXCEPT ![t] = l]
            /\ \/ l = "regtoken" /\ op[t] = "register"
               \/ l \in {"fill", "token"} /\ op[t] # "register"
               \/ l \in {"cmd", "busy"} /\ op[t] # "register"
      <3>1. op[t] \in {"write", "read", "erase", "clean", "register"}
        BY <2>1
      <3> QED
        BY <1>4, <3>1 DEF Accepted, Erasing
    <2> QED
      BY <2>1, <2>2
  <1>5. CASE Refused(t)
    BY <1>5 DEF Refused, Erasing
  <1>6. CASE StopTransmission(t)
    BY <1>6 DEF StopTransmission
  <1>7. CASE Done(t)
    BY <1>7 DEF Done
  <1>8. CASE FailUnlock(t)
    BY <1>8 DEF FailUnlock
  <1> QED
    BY <1>1, <1>2, <1>3, <1>4, <1>5, <1>6, <1>7, <1>8 DEF Command

\* The block loops and the erase wait stay in the locked part.
LEMMA InsideLockInv ==
  ASSUME LockInv, NEW t \in Tasks, WriteBlock(t) \/ ReadBlock(t) \/ EraseBusy(t)
  PROVE  LockInv'
  <1> USE DEF LockInv, TaskInv, OpsInv, LockOwned, Locked, Locations, Goto, Set, Fail,
              busVars, cardVars, callVars
  <1>1. CASE Fill(t)
    BY <1>1 DEF Fill
  <1>2. CASE Send(t)
    BY <1>2 DEF Send
  <1>3. CASE DataAccepted(t)
    BY <1>3 DEF DataAccepted
  <1>4. CASE DataRejected(t)
    BY <1>4 DEF DataRejected
  <1>5. CASE AwaitToken(t)
    BY <1>5 DEF AwaitToken
  <1>6. CASE NoToken(t)
    BY <1>6 DEF NoToken
  <1>7. CASE ReceiveBlock(t)
    BY <1>7 DEF ReceiveBlock
  <1>8. CASE CrcMatches(t)
    BY <1>8 DEF CrcMatches
  <1>9. CASE CrcMismatch(t)
    BY <1>9 DEF CrcMismatch
  <1>10. CASE EraseBusy(t)
    BY <1>10 DEF EraseBusy
  <1> QED
    BY <1>1, <1>2, <1>3, <1>4, <1>5, <1>6, <1>7, <1>8, <1>9, <1>10 DEF WriteBlock, ReadBlock

\* Every step of every task keeps the mutex with its owner.
LEMMA NextLockInv == LockInv /\ [Next]_vars => LockInv'
  <1> SUFFICES ASSUME LockInv, [Next]_vars PROVE LockInv'
    OBVIOUS
  <1>1. CASE UNCHANGED vars
    BY <1>1 DEF vars, LockInv, TaskInv, OpsInv, LockOwned, Locked
  <1>2. CASE Next
    BY <1>2, OutsideLockInv, EdgeLockInv, InsideLockInv DEF Next, Step, Progress, Ending
  <1> QED
    BY <1>1, <1>2

\* A task in the locked part of a call owns sdcard->mutex, whatever the card
\* does and whether or not buffers can be allocated.
THEOREM LockOwnedHolds == Spec => []LockOwned
  <1>1. LockInv => LockOwned
    BY DEF LockInv
  <1> QED
    BY <1>1, InitLockInv, NextLockInv, PTL DEF Spec

-----------------------------------------------------------------------------

\* The history forgets only the task that steps.
LEMMA DisturbedStays ==
  ASSUME NEW t \in Tasks, Observe(t), NEW u \in Tasks, u # t, u \in disturbed
  PROVE  u \in disturbed'
  BY DEF Observe

\* A step that leaves the buffer alone brings no task to its send.
LEMMA QuietBufferInv ==
  ASSUME LockInv, BufferIsOwn, NEW t \in Tasks, Observe(t),
         UNCHANGED internal_buffer,
         \A u \in Tasks : u # t => pc'[u] = pc[u] /\ call'[u] = call[u],
         pc'[t] # "send"
  PROVE  BufferIsOwn'
  <1> SUFFICES ASSUME NEW u \in Tasks, u \notin disturbed', pc'[u] = "send"
               PROVE  internal_buffer' = Chunk(call'[u].val, call'[u].k,
                                               Copied(call'[u].len, call'[u].k))
    BY DEF BufferIsOwn, Copied, Total, Chunk, Zero, Block
  <1>1. u # t /\ pc[u] = "send" /\ call'[u] = call[u]
    OBVIOUS
  <1>2. u \notin disturbed
    BY <1>1, DisturbedStays
  <1> QED
    BY <1>1, <1>2 DEF BufferIsOwn

\* A step of the owner of the mutex that changes the buffer leaves no other
\* task at its send; if the owner is there afterwards, the buffer is its own.
LEMMA OwnerBufferInv ==
  ASSUME LockInv, NEW t \in Tasks, mutex = t,
         \A u \in Tasks : u # t => pc'[u] = pc[u],
         pc'[t] = "send" =>
           internal_buffer' = Chunk(call'[t].val, call'[t].k, Copied(call'[t].len, call'[t].k))
  PROVE  BufferIsOwn'
  BY DEF BufferIsOwn, LockInv, LockOwned, Locked, Copied, Total, Chunk, Zero, Block

\* The register read changes the buffer without the mutex: it disturbs every
\* other task that is in a call.
LEMMA RegisterBufferInv ==
  ASSUME LockInv, NEW t \in Tasks, Observe(t), ReadRegister(t)
  PROVE  BufferIsOwn'
  <1>1. op[t] = "register" /\ pc'[t] # "send"
    BY DEF ReadRegister, RegisterToken, RegisterRead, LockInv, TaskInv, OpsInv, Goto, Return
  <1>2. \A u \in Tasks : u # t => pc'[u] = pc[u]
    BY DEF ReadRegister, RegisterToken, RegisterRead, LockInv, TaskInv, Goto, Return
  <1>3. \A u \in Tasks : u # t /\ pc[u] # "idle" => u \in disturbed'
    BY <1>1 DEF Observe, Unlocked
  <1> QED
    BY <1>1, <1>2, <1>3 DEF BufferIsOwn

\* Every step keeps the buffer with the task that filled it.
LEMMA NextBufferInv ==
  ASSUME LockInv, BufferIsOwn, [Next]_vars
  PROVE  BufferIsOwn'
  <1> USE DEF LockInv, TaskInv, OpsInv, Goto, Set, Return, Fail, Begin, busVars, cardVars,
          callVars
  <1>1. CASE UNCHANGED vars
    BY <1>1 DEF vars, BufferIsOwn, Copied, Total, Chunk, Zero, Block
  <1>2. ASSUME NEW t \in Tasks, Observe(t), Call(t) PROVE BufferIsOwn'
    <2>1. UNCHANGED internal_buffer /\ pc'[t] # "send"
      BY <1>2 DEF Call, CallLocked, FindTotalSector
    <2>2. \A u \in Tasks : u # t => pc'[u] = pc[u] /\ call'[u] = call[u]
      BY <1>2 DEF Call, CallLocked, FindTotalSector, Transfer, Erase, Clean
    <2> QED
      BY <1>2, <2>1, <2>2, QuietBufferInv
  <1>3. ASSUME NEW t \in Tasks, Observe(t), TakeLock(t) \/ Alloc(t) \/ Command(t) \/ Ending(t)
        PROVE BufferIsOwn'
    <2>1. UNCHANGED internal_buffer /\ pc'[t] # "send"
      BY <1>3 DEF TakeLock, Alloc, Command, SendCommand, Accepted, Refused, StopTransmission,
                  Ending, EraseBusy, Done, FailUnlock, FailDeselect, FailReturn
    <2>2. \A u \in Tasks : u # t => pc'[u] = pc[u] /\ call'[u] = call[u]
      BY <1>3 DEF TakeLock, Alloc, Command, SendCommand, Accepted, Refused, StopTransmission,
                  Ending, EraseBusy, Done, FailUnlock, FailDeselect, FailReturn
    <2> QED
      BY <1>3, <2>1, <2>2, QuietBufferInv
  <1>4. ASSUME NEW t \in Tasks, Observe(t),
               Send(t) \/ DataAccepted(t) \/ DataRejected(t) \/ NoToken(t) \/ CrcMatches(t) \/
                   CrcMismatch(t)
        PROVE BufferIsOwn'
    <2>1. UNCHANGED internal_buffer /\ pc'[t] # "send"
      BY <1>4 DEF Send, DataAccepted, DataRejected, NoToken, CrcMatches, CrcMismatch
    <2>2. \A u \in Tasks : u # t => pc'[u] = pc[u] /\ call'[u] = call[u]
      BY <1>4 DEF Send, DataAccepted, DataRejected, NoToken, CrcMatches, CrcMismatch
    <2> QED
      BY <1>4, <2>1, <2>2, QuietBufferInv
  <1>5. ASSUME NEW t \in Tasks, Observe(t), Fill(t) \/ AwaitToken(t) \/ ReceiveBlock(t)
        PROVE BufferIsOwn'
    <2>1. mutex = t
      BY <1>5 DEF LockOwned, Locked, Fill, AwaitToken, ReceiveBlock
    <2>2. \A u \in Tasks : u # t => pc'[u] = pc[u]
      BY <1>5 DEF Fill, AwaitToken, ReceiveBlock
    <2>3. CASE Fill(t)
      BY <2>1, <2>2, <2>3, OwnerBufferInv DEF Fill
    <2>4. CASE AwaitToken(t) \/ ReceiveBlock(t)
      <3>1. pc'[t] # "send"
        BY <2>4 DEF AwaitToken, ReceiveBlock
      <3> QED
        BY <3>1, <2>1, <2>2, OwnerBufferInv
    <2> QED
      BY <1>5, <2>3, <2>4
  <1>6. ASSUME NEW t \in Tasks, Observe(t), ReadRegister(t) PROVE BufferIsOwn'
    BY <1>6, RegisterBufferInv
  <1> QED
    BY <1>1, <1>2, <1>3, <1>4, <1>5, <1>6 DEF Next, Step, Progress, WriteBlock, ReadBlock

\* A block that goes out is the block its task put into internal_buffer, if no
\* other task was on the bus without the mutex during the call.
THEOREM BufferIsOwnHolds == Spec => []BufferIsOwn
  <1>1. Init => BufferIsOwn
    BY DEF Init, BufferIsOwn
  <1>2. LockInv /\ BufferIsOwn /\ [Next]_vars => BufferIsOwn'
    BY NextBufferInv
  <1> QED
    BY <1>1, <1>2, InitLockInv, NextLockInv, PTL DEF Spec

-----------------------------------------------------------------------------
\* Who is in a call and has not raised the chip select for the last time.
Holding == {t \in Tasks : pc[t] \notin {"idle", "lock", "alloc", "stray"}}

SelectedByHolder == cs = "low" => Holding # {}

\* A step leaves the card deselected, or its task holding, or neither touches
\* the chip select nor ends a task's holding.
LEMMA StepSelects ==
  ASSUME LockInv, NEW t \in Tasks, Call(t) \/ Progress(t)
  PROVE  /\ \A u \in Tasks : u # t => pc'[u] = pc[u]
         /\ cs' = "high" \/ t \in Holding' \/ (t \notin Holding /\ cs' = cs)
  <1> USE DEF LockInv, TaskInv, Locations, Holding, Goto, Set, Return, Fail, busVars, cardVars,
              callVars
  <1>1. CASE Call(t)
    BY <1>1 DEF Call, CallLocked, FindTotalSector
  <1>2. CASE TakeLock(t) \/ Alloc(t)
    BY <1>2 DEF TakeLock, Alloc
  <1>3. CASE Command(t)
    BY <1>3 DEF Command, SendCommand, Accepted, Refused, StopTransmission
  <1>4. CASE WriteBlock(t)
    BY <1>4 DEF WriteBlock, Fill, Send, DataAccepted, DataRejected
  <1>5. CASE ReadBlock(t)
    BY <1>5 DEF ReadBlock, AwaitToken, NoToken, ReceiveBlock, CrcMatches, CrcMismatch
  <1>6. CASE Ending(t)
    BY <1>6 DEF Ending, EraseBusy, Done, FailUnlock, FailDeselect, FailReturn
  <1>7. CASE ReadRegister(t)
    BY <1>7 DEF ReadRegister, RegisterToken, RegisterRead
  <1> QED
    BY <1>1, <1>2, <1>3, <1>4, <1>5, <1>6, <1>7 DEF Progress

\* The card is not left selected when every call has returned, for any number of
\* tasks: each path out of a call raises the chip select after its last frame.
THEOREM DeselectedWhenIdleHolds == Spec => []DeselectedWhenIdle
  <1> DEFINE Inv == SelectedByHolder /\ cs \in {"low", "high"}
  <1>1. Init => Inv
    BY DEF Init, SelectedByHolder
  <1>2. LockInv /\ Inv /\ [Next]_vars => Inv'
    <2>1. Inv /\ UNCHANGED vars => Inv'
      BY DEF SelectedByHolder, Holding, vars
    <2>2. ASSUME LockInv, Inv, NEW t \in Tasks, Call(t) \/ Progress(t) PROVE Inv'
      <3>1. \A u \in Tasks : u # t => pc'[u] = pc[u]
        BY <2>2, StepSelects
      <3>2. cs' = "high" \/ t \in Holding' \/ (t \notin Holding /\ cs' = cs)
        BY <2>2, StepSelects
      <3>3. cs' \in {"low", "high"}
        BY <2>2 DEF Call, CallLocked, FindTotalSector, Progress, TakeLock, Alloc, Command,
          SendCommand, Accepted, Refused, StopTransmission, WriteBlock, Fill, Select, Send,
          DataAccepted, DataRejected, ReadBlock, AwaitToken, NoToken, ReceiveBlock, CrcMatches,
          CrcMismatch, Ending, EraseBusy, Done, FailUnlock, FailDeselect, FailReturn,
              ReadRegister,
          RegisterToken, RegisterRead, busVars
      <3>4. t \notin Holding /\ Holding # {} => Holding' # {}
        BY <3>1 DEF Holding
      <3> QED
        BY <2>2, <3>2, <3>3, <3>4 DEF SelectedByHolder
    <2> QED
      BY <2>1, <2>2 DEF Next, Step
  <1>3. Inv => DeselectedWhenIdle
    BY DEF SelectedByHolder, Holding, DeselectedWhenIdle
  <1> QED
    BY <1>1, <1>2, <1>3, InitLockInv, NextLockInv, PTL DEF Spec

-----------------------------------------------------------------------------
(* Numbers                                                                 *)

\* What the provers know of div and mod.
LEMMA DivFacts ==
  ASSUME NEW a \in Nat, NEW b \in Nat \ {0}
  PROVE  /\ a \div b \in Nat
         /\ a % b \in 0 .. b - 1
         /\ a = b * (a \div b) + (a % b)
         /\ a < b => a % b = a
  OBVIOUS

\* Every transfer has at least one block.
LEMMA TotalIsPositive ==
  ASSUME NEW len \in Nat PROVE Total(len) \in Nat \ {0}
  <1>1. CASE len <= BLOCK_SIZE
    BY <1>1 DEF Total
  <1>2. CASE len > BLOCK_SIZE
    <2>1. len \div BLOCK_SIZE \in Nat /\ len =
              BLOCK_SIZE * (len \div BLOCK_SIZE) + (len % BLOCK_SIZE)
      BY SizeAssumption, DivFacts
    <2>2. len \div BLOCK_SIZE # 0
      BY <2>1, <1>2, SizeAssumption, DivFacts
    <2> QED
      BY <2>1, <2>2, <1>2, SizeAssumption DEF Total
  <1> QED
    BY <1>1, <1>2, SizeAssumption

\* What sdcard_write() copies of a block is what the caller has for it, unless
\* the last of several blocks is a whole one.
LEMMA CopiedIsWanted ==
  ASSUME NEW len \in Nat, NEW k \in 0 .. Total(len) - 1,
         len > BLOCK_SIZE => len % BLOCK_SIZE # 0
  PROVE  Copied(len, k) = Want(len, k)
  <1> USE SizeAssumption
  <1>1. CASE len <= BLOCK_SIZE
    <2>1. k = 0 /\ Total(len) = 1 /\ k * BLOCK_SIZE = 0
      BY <1>1 DEF Total
    <2>2. len < BLOCK_SIZE => len % BLOCK_SIZE = len
      BY DivFacts
    <2>3. Copied(len, k) = len
      BY <1>1, <2>1, <2>2 DEF Copied
    <2>4. Want(len, k) = len
      BY <1>1, <2>1 DEF Want
    <2> QED
      BY <2>3, <2>4
  <1>2. CASE len > BLOCK_SIZE
    <2> DEFINE q == len \div BLOCK_SIZE
               r == len % BLOCK_SIZE
    <2>1. q \in Nat /\ r \in 1 .. BLOCK_SIZE - 1 /\ len = BLOCK_SIZE * q + r
      <3>1. q \in Nat /\ r \in 0 .. BLOCK_SIZE - 1 /\ len = BLOCK_SIZE * q + r
        BY DivFacts
      <3>2. r # 0
        BY <1>2
      <3> HIDE DEF q, r
      <3> QED
        BY <3>1, <3>2
    <2>2. Total(len) = q + 1 /\ k \in Nat /\ k <= q
      BY <1>2, <2>1 DEF Total
    <2> HIDE DEF q, r
    <2>3. CASE k = q
      <3>1. len - (k * BLOCK_SIZE) = r
        BY <2>1, <2>3
      <3> QED
        BY <1>2, <2>1, <2>2, <2>3, <3>1 DEF Copied, Want, r
    <2>4. CASE k < q
      <3>1. BLOCK_SIZE * (k + 1) <= BLOCK_SIZE * q
        BY <2>1, <2>2, <2>4
      <3>2. k * BLOCK_SIZE + BLOCK_SIZE = BLOCK_SIZE * (k + 1)
        BY <2>2
      <3>3. len - (k * BLOCK_SIZE) >= BLOCK_SIZE
        BY <2>1, <2>2, <3>1, <3>2
      <3>4. Copied(len, k) = BLOCK_SIZE
        BY <2>1, <2>2, <2>4 DEF Copied
      <3>5. Want(len, k) = BLOCK_SIZE
        BY <2>1, <2>2, <3>3 DEF Want
      <3> QED
        BY <3>4, <3>5
    <2> QED
      BY <2>2, <2>3, <2>4, <2>1
  <1> QED
    BY <1>1, <1>2

-----------------------------------------------------------------------------
(* Types                                                                   *)

\* A block of a buffer is something a sector can hold.
LEMMA BlockIsContents ==
  ASSUME NEW v \in Values \cup {"zero", "erased", "garbage", "register"}, NEW k \in Nat,
             NEW n \in Nat
  PROVE  Block(v, k, n) \in Contents
  BY DEF Block, Contents

\* The contents named in the model.
LEMMA NamedContents ==
  /\ {Zero, Erased, Garbage, Register} \subseteq Contents
  /\ \A v \in Values \cup {"zero"}, k, n \in Nat : Chunk(v, k, n) \in Contents
  BY BlockIsContents, SizeAssumption DEF Zero, Erased, Garbage, Register, Chunk

\* The record of an idle task is one of a call.
LEMMA NoCallIsCall == NoCall \in Calls
  <1>1. 0 \in Sectors
    BY SizeAssumption DEF Sectors
  <1> QED
    BY <1>1, NamedContents DEF NoCall, Calls

\* The bytes copied of a block are a number of bytes.
LEMMA CopiedIsNat ==
  ASSUME NEW len \in Nat, NEW k \in Nat PROVE Copied(len, k) \in Nat
  BY DivFacts, SizeAssumption DEF Copied

\* What a block appended to, or put in place of, the caller's data is.
LEMMA ReceivedIsData ==
  ASSUME NEW t \in Tasks, call[t] \in Calls, NEW b \in Contents
  PROVE  Received(t, b) \in Seq(Contents \X Int)
  <1>1. Want(call[t].len, call[t].k) \in Int
    BY SizeAssumption DEF Want, Calls
  <1>2. call[t].got \in Seq(Contents \X Int)
    BY DEF Calls
  <1>3. <<b, Want(call[t].len, call[t].k)>> \in Contents \X Int /\ <<b,
            BLOCK_SIZE>> \in Contents \X Int
    BY <1>1, SizeAssumption
  <1> HIDE DEF Want
  <1>4. \A S : \A g \in Seq(S), e \in S : Append(g, e) \in Seq(S) /\ <<e>> \in Seq(S)
    OBVIOUS
  <1> QED
    BY <1>2, <1>3, <1>4 DEF Received

\* The records of a call that the steps make from another.
LEMMA CallEdits ==
  ASSUME NEW c \in Calls
  PROVE  /\ \A h \in {"none", "live", "freed"} : [c EXCEPT !.heap = h] \in Calls
         /\ \A l, s \in Nat, v \in Values \cup {"zero"} :
              [c EXCEPT !.len = l, !.sector = s, !.val = v] \in Calls
         /\ \A s, e \in Nat : [c EXCEPT !.sector = s, !.last = e] \in Calls
         /\ \A e \in Nat : [c EXCEPT !.last = e] \in Calls
         /\ \A f \in BOOLEAN : [c EXCEPT !.frees = f] \in Calls /\ [c EXCEPT !.stop = f] \in Calls
         /\ \A s \in Sectors : /\ [c EXCEPT !.target = s] \in Calls
                               /\ [c EXCEPT !.target = s, !.k = 1] \in Calls
                               /\ [c EXCEPT !.end = s, !.k = 2] \in Calls
         /\ [c EXCEPT !.k = @ + 1] \in Calls
         /\ \A b \in Contents, h \in {"none", "live", "freed"} :
              [c EXCEPT !.moved = b, !.heap = h] \in Calls
         /\ \A b \in Contents, g \in Seq(Contents \X Int), h \in {"none", "live", "freed"} :
              [c EXCEPT !.moved = b, !.got = g, !.heap = h] \in Calls
  <1>1. [c EXCEPT !.k = @ + 1] \in Calls
    <2>1. c.k + 1 \in Nat
      BY DEF Calls
    <2>2. \A n \in Nat : [c EXCEPT !.k = n] \in Calls
      BY DEF Calls
    <2> QED
      BY <2>1, <2>2
  <1>2. \A b \in Contents, g \in Seq(Contents \X Int), h \in {"none", "live", "freed"} :
           [c EXCEPT !.moved = b, !.got = g, !.heap = h] \in Calls
    BY DEF Calls
  <1>3. \A b \in Contents, h \in {"none", "live", "freed"} :
           [c EXCEPT !.moved = b, !.heap = h] \in Calls
    BY DEF Calls
  <1>4. \A s \in Sectors : /\ [c EXCEPT !.target = s] \in Calls
                            /\ [c EXCEPT !.target = s, !.k = 1] \in Calls
                            /\ [c EXCEPT !.end = s, !.k = 2] \in Calls
    BY DEF Calls
  <1>5. \A l, s \in Nat, v \in Values \cup {"zero"} :
          [c EXCEPT !.len = l, !.sector = s, !.val = v] \in Calls
    BY DEF Calls
  <1>6. \A f \in BOOLEAN : [c EXCEPT !.frees = f] \in Calls /\ [c EXCEPT !.stop = f] \in Calls
    BY DEF Calls
  <1>7. /\ \A s, e \in Nat : [c EXCEPT !.sector = s, !.last = e] \in Calls
        /\ \A e \in Nat : [c EXCEPT !.last = e] \in Calls
        /\ \A h \in {"none", "live", "freed"} : [c EXCEPT !.heap = h] \in Calls
    BY DEF Calls
  <1> QED
    BY <1>1, <1>2, <1>3, <1>4, <1>5, <1>6, <1>7

\* The last sector sdcard_clean() asks for is a number of 32 bits.
LEMMA LastSectorIsNat == TypeOK => LastSector \in Nat
  <1> SUFFICES ASSUME TypeOK PROVE LastSector \in Nat
    OBVIOUS
  <1>1. total_sectors + UINT32 - 1 \in Nat /\ UINT32 \in Nat \ {0}
    BY SizeAssumption DEF TypeOK
  <1> QED
    BY <1>1, DivFacts DEF LastSector

\* A step changes the record of its own task only, into a record of a call.
LEMMA StepCalls ==
  ASSUME TypeOK, NEW t \in Tasks, Call(t) \/ Progress(t)
  PROVE  \E r \in Calls : call' = [call EXCEPT ![t] = r]
  <1> DEFINE Goal == \E r \in Calls : call' = [call EXCEPT ![t] = r]
  <1>a. /\ call[t] \in Calls /\ call = [call EXCEPT ![t] = call[t]]
        /\ call[t].heap \in {"none", "live", "freed"}
    BY DEF TypeOK, Calls
  <1>b. call' = call => Goal
    BY <1>a
  <1>c. Return(t) => Goal
    BY NoCallIsCall, CallEdits DEF Return
  <1>d. \A f \in BOOLEAN : Fail(t, f) => Goal
    BY <1>a, CallEdits DEF Fail, Set
  <1>1. CASE Call(t)
    <2>1. ASSUME NEW o, NEW d \in Calls, Begin(t, o, d) PROVE Goal
      BY <1>a, <2>1, CallEdits DEF Begin
    <2>2. CASE Transfer(t)
      <3>1. PICK o \in Ops \cap {"write", "read"}, len \in Lengths, s \in Sectors, v \in Values :
              Begin(t, o, [NoCall EXCEPT !.len = len, !.sector = s,
                                         !.val = IF o = "write" THEN v ELSE "zero"])
        BY <2>2 DEF Transfer
      <3>2. len \in Nat /\ s \in Nat
        BY LengthAssumption, SizeAssumption DEF Sectors
      <3>3. [NoCall EXCEPT !.len = len, !.sector = s,
                           !.val = IF o = "write" THEN v ELSE "zero"] \in Calls
        BY <3>2, NoCallIsCall, CallEdits
      <3> QED
        BY <2>1, <3>1, <3>3
    <2>3. CASE Erase(t)
      <3>1. PICK s \in Sectors : \E e \in s .. NSectors - 1 :
              Begin(t, "erase", [NoCall EXCEPT !.sector = s, !.last = e])
        BY <2>3 DEF Erase
      <3>2. PICK e \in s .. NSectors - 1 :
              Begin(t, "erase", [NoCall EXCEPT !.sector = s, !.last = e])
        BY <3>1
      <3>3. s \in Nat /\ e \in Nat
        BY SizeAssumption DEF Sectors
      <3>4. [NoCall EXCEPT !.sector = s, !.last = e] \in Calls
        BY <3>3, NoCallIsCall, CallEdits
      <3> QED
        BY <2>1, <3>2, <3>4
    <2>4. CASE Clean(t)
      <3>1. [NoCall EXCEPT !.last = LastSector] \in Calls
        BY LastSectorIsNat, NoCallIsCall, CallEdits
      <3> QED
        BY <2>1, <2>4, <3>1 DEF Clean
    <2>5. CASE FindTotalSector(t)
      BY <2>1, <2>5, NoCallIsCall DEF FindTotalSector
    <2> QED
      BY <1>1, <2>2, <2>3, <2>4, <2>5 DEF Call, CallLocked
  <1>2. CASE Alloc(t)
    BY <1>2, <1>a, <1>c, CallEdits DEF Alloc, Set
  <1>3. CASE Accepted(t)
    <2>1. \A arg : Heard(t, arg) \subseteq Sectors
      BY DEF Heard
    <2> QED
      BY <1>3, <1>a, <1>b, <2>1, CallEdits DEF Accepted, Set, callVars
  <1>4. CASE Refused(t)
    BY <1>4, <1>c, <1>d DEF Refused
  <1>5. CASE Send(t)
    <2>1. internal_buffer \in Contents
      BY DEF TypeOK
    <2>2. CASE call' # call
      <3> DEFINE h == IF call[t].heap = "live" THEN "freed" ELSE call[t].heap
      <3>1. call' = [call EXCEPT ![t] = [call[t] EXCEPT !.moved = internal_buffer, !.heap = h]]
        BY <1>5, <2>2 DEF Send, Set, callVars
      <3>2. h \in {"none", "live", "freed"}
        BY <1>a
      <3> HIDE DEF h
      <3>3. [call[t] EXCEPT !.moved = internal_buffer, !.heap = h] \in Calls
        BY <1>a, <2>1, <3>2, CallEdits
      <3> QED
        BY <3>1, <3>3
    <2> QED
      BY <2>2, <1>b
  <1>6. CASE DataAccepted(t)
    BY <1>6, <1>a, <1>b, CallEdits DEF DataAccepted, Set, callVars
  <1>7. CASE ReceiveBlock(t)
    <2>1. CASE call' = call
      BY <2>1, <1>b
    <2>2. CASE call' # call
      <3>1. PICK b \in {card[At(t)], Garbage} :
              call' = [call EXCEPT ![t] =
                        [call[t] EXCEPT !.moved = card[At(t)], !.got = Received(t, b),
                                        !.heap = IF @ = "live" THEN "freed" ELSE @]]
        BY <1>7, <2>2 DEF ReceiveBlock, Set, callVars
      <3>2. card[At(t)] \in Contents /\ Garbage \in Contents
        BY <1>7, NamedContents DEF ReceiveBlock, TypeOK
      <3>3. Received(t, b) \in Seq(Contents \X Int)
        BY <1>a, <3>2, ReceivedIsData
      <3> QED
        BY <3>1, <3>2, <3>3, <1>a, CallEdits
    <2> QED
      BY <2>1, <2>2
  <1>8. CASE CrcMatches(t)
    <2>1. (call[t].len > BLOCK_SIZE) \in BOOLEAN
      OBVIOUS
    <2> QED
      BY <1>8, <1>a, <2>1, CallEdits DEF CrcMatches, Set
  <1>9. CASE FailReturn(t)
    BY <1>9, <1>a, <1>b, <1>c, NoCallIsCall DEF FailReturn, callVars
  <1>10. CASE DataRejected(t) \/ NoToken(t) \/ CrcMismatch(t)
    BY <1>10, <1>d DEF DataRejected, NoToken, CrcMismatch
  <1>11. CASE Done(t) \/ RegisterRead(t)
    BY <1>11, <1>c DEF Done, RegisterRead
  <1>12. CASE TakeLock(t) \/ SendCommand(t) \/ StopTransmission(t) \/ Fill(t) \/ AwaitToken(t)
                \/ EraseBusy(t) \/ FailUnlock(t) \/ FailDeselect(t) \/ RegisterToken(t)
    BY <1>12, <1>b DEF TakeLock, SendCommand, StopTransmission, Fill, AwaitToken, EraseBusy,
       FailUnlock, FailDeselect, RegisterToken, callVars
  <1> QED
    BY <1>1, <1>2, <1>3, <1>4, <1>5, <1>6, <1>7, <1>8, <1>9, <1>10, <1>11, <1>12
    DEF Progress, Command, WriteBlock, ReadBlock, Ending, ReadRegister, Goal

\* Every step of a task, by what it does to each variable.
LEMMA StepTypes ==
  ASSUME TypeOK, NEW t \in Tasks, Call(t) \/ Progress(t)
  PROVE  /\ mutex' \in Tasks \cup {NoTask}
         /\ cs' \in {"low", "high"}
         /\ shifted' \subseteq Tasks
         /\ internal_buffer' \in Contents
         /\ card' \in [Sectors -> Contents]
         /\ served' \in Tasks \cup {NoTask}
         /\ total_sectors' \in 0 .. UINT32 - 1
         /\ \E l \in Locations : pc' = [pc EXCEPT ![t] = l]
         /\ \E o \in Ops \cup {"none"} : op' = [op EXCEPT ![t] = o]
  <1> DEFINE Goal ==
               /\ mutex' \in Tasks \cup {NoTask}
               /\ cs' \in {"low", "high"}
               /\ shifted' \subseteq Tasks
               /\ internal_buffer' \in Contents
               /\ card' \in [Sectors -> Contents]
               /\ served' \in Tasks \cup {NoTask}
               /\ total_sectors' \in 0 .. UINT32 - 1
               /\ \E l \in Locations : pc' = [pc EXCEPT ![t] = l]
               /\ \E o \in Ops \cup {"none"} : op' = [op EXCEPT ![t] = o]
  <1>a. /\ mutex \in Tasks \cup {NoTask} /\ cs \in {"low", "high"} /\ shifted \subseteq Tasks
        /\ internal_buffer \in Contents /\ card \in [Sectors -> Contents]
        /\ served \in Tasks \cup {NoTask} /\ total_sectors \in 0 .. UINT32 - 1
        /\ pc \in [Tasks -> Locations] /\ op \in [Tasks -> Ops \cup {"none"}]
        /\ op = [op EXCEPT ![t] = op[t]] /\ op[t] \in Ops \cup {"none"}
        /\ call[t] \in Calls
    BY DEF TypeOK
  <1>b. Clock(t) \/ StartFrame(t) => shifted' \subseteq Tasks
    BY <1>a DEF Clock, StartFrame, Midway
  <1> USE DEF Locations, Goto, Set, Return, Fail, busVars, cardVars, callVars
  <1>1. CASE CallLocked(t)
    <2>1. \E o \in Ops : \E d : Begin(t, o, d)
      BY <1>1 DEF CallLocked, Transfer, Erase, Clean
    <2>2. \E o \in Ops \cup {"none"} : op' = [op EXCEPT ![t] = o]
      BY <2>1 DEF Begin
    <2> QED
      BY <1>1, <1>a, <2>2 DEF CallLocked
  <1>2. CASE FindTotalSector(t)
    BY <1>2, <1>a DEF FindTotalSector, Begin
  <1>3. CASE TakeLock(t)
    BY <1>3, <1>a DEF TakeLock
  <1>4. CASE Alloc(t)
    BY <1>4, <1>a DEF Alloc
  <1>5. CASE SendCommand(t)
    BY <1>5, <1>a, <1>b DEF SendCommand
  <1>6. CASE Accepted(t)
    <2>1. Erased \in Contents
      BY NamedContents
    <2>2. card' \in [Sectors -> Contents]
      BY <1>6, <1>a, <2>1 DEF Accepted
    <2>3. \E l \in Locations : pc' = [pc EXCEPT ![t] = l]
      BY <1>6, <1>a DEF Accepted
    <2>4. op' = op
      BY <1>6 DEF Accepted
    <2>5. /\ mutex' = mutex /\ cs' = "high" /\ served' = t /\ Clock(t)
          /\ UNCHANGED <<internal_buffer, total_sectors>>
      BY <1>6 DEF Accepted
    <2> QED
      BY <1>a, <1>b, <2>2, <2>3, <2>4, <2>5
  <1>7. CASE Refused(t)
    BY <1>7, <1>a, <1>b DEF Refused
  <1>8. CASE StopTransmission(t)
    BY <1>8, <1>a, <1>b DEF StopTransmission
  <1>9. CASE Fill(t)
    <2>1. Chunk(call[t].val, call[t].k, Copied(call[t].len, call[t].k)) \in Contents
      BY <1>a, NamedContents, CopiedIsNat DEF Calls
    <2> QED
      BY <1>9, <1>a, <2>1 DEF Fill, Select
  <1>10. CASE Send(t)
    BY <1>10, <1>a, <1>b DEF Send
  <1>11. CASE DataAccepted(t)
    <2>1. call[t].moved \in Contents
      BY <1>a DEF Calls
    <2>2. card' \in [Sectors -> Contents]
      BY <1>11, <1>a, <2>1 DEF DataAccepted
    <2> QED
      BY <1>11, <1>a, <1>b, <2>2 DEF DataAccepted
  <1>12. CASE DataRejected(t)
    <2>1. call[t].moved \in Contents /\ Garbage \in Contents
      BY <1>a, NamedContents DEF Calls
    <2>2. card' \in [Sectors -> Contents]
      BY <1>12, <1>a, <2>1 DEF DataRejected
    <2> QED
      BY <1>12, <1>a, <1>b, <2>2 DEF DataRejected
  <1>13. CASE AwaitToken(t)
    BY <1>13, <1>a, NamedContents DEF AwaitToken, Select
  <1>14. CASE NoToken(t)
    BY <1>14, <1>a, <1>b DEF NoToken
  <1>15. CASE ReceiveBlock(t)
    <2>1. internal_buffer' \in Contents
      <3>1. card[At(t)] \in Contents /\ Garbage \in Contents
        BY <1>15, <1>a, NamedContents DEF ReceiveBlock
      <3> QED
        BY <1>15, <1>a, <3>1 DEF ReceiveBlock
    <2> QED
      BY <1>15, <1>a, <1>b, <2>1 DEF ReceiveBlock
  <1>16. CASE CrcMatches(t)
    BY <1>16, <1>a, <1>b DEF CrcMatches
  <1>17. CASE CrcMismatch(t)
    BY <1>17, <1>a, <1>b DEF CrcMismatch
  <1>18. CASE EraseBusy(t) \/ Done(t)
    BY <1>18, <1>a, <1>b DEF EraseBusy, Done
  <1>19. CASE FailUnlock(t) \/ FailDeselect(t)
    BY <1>19, <1>a DEF FailUnlock, FailDeselect
  <1>20. CASE FailReturn(t)
    BY <1>20, <1>a, <1>b DEF FailReturn
  <1>21. CASE RegisterToken(t)
    BY <1>21, <1>a, NamedContents DEF RegisterToken
  <1>22. CASE RegisterRead(t)
    <2>1. total_sectors' \in 0 .. UINT32 - 1
      BY <1>22, <1>a, SizeAssumption DEF RegisterRead
    <2> QED
      BY <1>22, <1>a, <1>b, <2>1, NamedContents DEF RegisterRead
  <1> QED
    BY <1>1, <1>2, <1>3, <1>4, <1>5, <1>6, <1>7, <1>8, <1>9, <1>10, <1>11, <1>12, <1>13, <1>14,
       <1>15, <1>16, <1>17, <1>18, <1>19, <1>20, <1>21, <1>22
    DEF Call, Progress, Command, WriteBlock, ReadBlock, Ending, ReadRegister

\* Types hold initially and after every step.
LEMMA TypeInvariant ==
  /\ Init => TypeOK
  /\ TypeOK /\ [Next]_vars => TypeOK'
  <1>1. Init => TypeOK
    <2>1. Zero \in Contents /\ Erased \in Contents /\ NoCall \in Calls
      BY NamedContents, NoCallIsCall
    <2> QED
      BY <2>1, SizeAssumption DEF Init, TypeOK, Locations
  <1>2. TypeOK /\ UNCHANGED vars => TypeOK'
    BY DEF TypeOK, vars
  <1>3. ASSUME TypeOK, NEW t \in Tasks, Call(t) \/ Progress(t), Observe(t) PROVE TypeOK'
    <2>1. call' \in [Tasks -> Calls]
      BY <1>3, StepCalls DEF TypeOK
    <2>2. pc' \in [Tasks -> Locations] /\ op' \in [Tasks -> Ops \cup {"none"}]
      BY <1>3, StepTypes DEF TypeOK
    <2>3. disturbed' \subseteq Tasks /\ spi_bus' \in Buses
      BY <1>3 DEF TypeOK, Observe
    <2> QED
      BY <1>3, <2>1, <2>2, <2>3, StepTypes DEF TypeOK
  <1> QED
    BY <1>1, <1>2, <1>3 DEF Next, Step

-----------------------------------------------------------------------------
(* What is true of each call                                               *)

\* Where a call is, given its operation: each passes its own part of the code.
PathOf(t) ==
  /\ op[t] = "none" <=> pc[t] = "idle"
  /\ pc[t] \in {"alloc", "fail", "deselect", "stray", "corrupt"} => op[t] \in {"write", "read"}
  /\ pc[t] \in {"fill", "send", "accept"} => op[t] = "write"
  /\ pc[t] \in {"token", "data", "crc"} => op[t] = "read"
  /\ pc[t] = "busy" => op[t] \in {"erase", "clean"}
  /\ pc[t] \in {"lock", "done"} => op[t] # "register"

\* A call of several blocks may use its buffer again after it was freed; one of
\* a single block has it live until the block is moved, and frees it once.
HeapOf(t) ==
  /\ pc[t] \in {"idle", "lock", "alloc"} => call[t].heap = "none"
  /\ op[t] \notin {"write", "read"} => call[t].heap = "none"
  /\ pc[t] \in {"accept", "crc", "done"} => call[t].heap # "live"
  /\ call[t].stop => call[t].heap # "live" /\ call[t].len > BLOCK_SIZE
  /\ pc[t] \in {"fail", "deselect", "stray"} /\ ~call[t].frees => call[t].heap # "live"
  /\ call[t].len <= BLOCK_SIZE =>
       /\ pc[t] \in {"cmd", "resp", "fill", "send", "token", "data"} => call[t].heap # "freed"
       /\ pc[t] \in {"fail", "deselect", "stray"} /\ call[t].frees => call[t].heap # "freed"
  /\ pc[t] = "corrupt" => call[t].len > BLOCK_SIZE

\* On the bit-banged bus nothing is allocated, and who has the mutex is in the
\* locked part of its call.
BitBangOf(t) ==
  spi_bus = "SPI_BITBANG" =>
    /\ pc[t] \notin {"alloc", "corrupt"}
    /\ call[t].heap = "none"
    /\ mutex = t => Locked(t)

\* How far a call is, whoever else uses the bus.
ShapeOf(t) ==
  /\ op[t] \in {"write", "read"} => call[t].sector + Total(call[t].len) <= NSectors
  /\ /\ op[t] # "none"
     /\ \/ pc[t] \in {"lock", "alloc"}
        \/ pc[t] \in {"cmd", "resp"} /\ ~call[t].stop /\ op[t] \in {"write", "read"}
     => call[t].k = 0 /\ call[t].got = <<>> /\ ~call[t].stop
  /\ pc[t] \in {"fill", "send", "accept", "token", "data", "crc"} =>
       call[t].k < Total(call[t].len) /\ ~call[t].stop
  /\ call[t].stop => op[t] = "read"
  /\ op[t] = "clean" => call[t].sector = 0 /\ call[t].k \in 0 .. 2

\* The first n blocks of the caller's data are on the card.
Written(t, n) ==
  \A j \in 0 .. n - 1 :
    card[call[t].sector + j] = Chunk(call[t].val, j, Copied(call[t].len, j))

\* The first n blocks of the call's sectors, as sdcard_read() delivers them.
Delivered(t, n) ==
  [i \in 1 .. n |-> <<card[call[t].sector + i - 1], Want(call[t].len, i - 1)>>]

QuietWrite(t) ==
  /\ pc[t] \in {"fill", "send", "accept"} => Written(t, call[t].k)
  /\ pc[t] = "accept" =>
       call[t].moved = Chunk(call[t].val, call[t].k, Copied(call[t].len, call[t].k))
  /\ Succeeds(t, "write") => Written(t, Total(call[t].len))

QuietRead(t) ==
  spi_bus = "SPI_BITBANG" =>
    /\ pc[t] \in {"token", "data"} => call[t].got = Delivered(t, call[t].k)
    /\ pc[t] = "crc" =>
         /\ call[t].moved = card[call[t].sector + call[t].k]
         /\ call[t].got = Append(Delivered(t, call[t].k),
                                 <<internal_buffer, Want(call[t].len, call[t].k)>>)
    /\ op[t] = "read" /\ (pc[t] = "done" \/ (pc[t] \in {"cmd", "resp"} /\ call[t].stop)) =>
         call[t].got = Delivered(t, Total(call[t].len))

QuietClean(t) ==
  op[t] = "clean" /\ ~SizeTooSmall =>
    /\ call[t].last = NSectors - 1 \/ call[t].last \notin Sectors
    /\ call[t].k >= 1 => call[t].target = 0
    /\ call[t].k = 2 => call[t].end = NSectors - 1
    /\ pc[t] = "busy" => call[t].k = 2
    /\ pc[t] \in {"busy", "done"} => \A s \in Sectors : card[s] = Erased

\* A call during which no other task was on the bus without the mutex has done
\* what it has got to, with its own frames, on its own sectors.
QuietOf(t) ==
  /\ pc[t] \in {"resp", "accept", "data", "crc"} /\ op[t] # "register" => t \notin shifted
  /\ pc[t] \in {"fill", "send", "accept", "token", "data", "crc"} =>
       call[t].target = call[t].sector
  /\ QuietWrite(t)
  /\ QuietRead(t)
  /\ QuietClean(t)
CallOf(t) == PathOf(t) /\ HeapOf(t) /\ ShapeOf(t)

CallInv == \A t \in Tasks : CallOf(t)

BitBangInv == \A t \in Tasks : BitBangOf(t)

QuietInv == \A t \in Tasks \ disturbed : QuietOf(t)

\* A step of one task leaves the location, operation and record of the others.
LEMMA OthersStay ==
  ASSUME TypeOK, NEW t \in Tasks, Call(t) \/ Progress(t), NEW u \in Tasks, u # t
  PROVE  pc'[u] = pc[u] /\ op'[u] = op[u] /\ call'[u] = call[u]
  <1>1. call'[u] = call[u]
    BY StepCalls DEF TypeOK
  <1>2. pc'[u] = pc[u] /\ op'[u] = op[u]
    BY StepTypes DEF TypeOK
  <1> QED
    BY <1>1, <1>2

\* The call of operation o with the arguments of d.
LEMMA BeginCall ==
  ASSUME TypeOK, CallInv, NEW t \in Tasks, pc[t] = "idle",
         NEW o \in Ops, NEW d \in Calls, d.k = 0, d.got = <<>>, ~d.stop,
         o \in {"write", "read"} => d.sector + Total(d.len) <= NSectors,
         o = "clean" => d.sector = 0,
         Begin(t, o, d),
         \/ pc' = [pc EXCEPT ![t] = "lock"] /\ o # "register"
         \/ pc' = [pc EXCEPT ![t] = "cmd"] /\ o = "register"
  PROVE  CallOf(t)'
  <1>1. pc \in [Tasks -> Locations] /\ op \in [Tasks -> Ops \cup {"none"}] /\
            call \in [Tasks -> Calls]
    BY DEF TypeOK
  <1>2. op'[t] = o /\ o \in {"write", "read", "erase", "clean", "register"}
    BY <1>1, OpsAssumption DEF Begin
  <1>3. call[t].heap = "none"
    BY DEF CallInv, CallOf, HeapOf
  <1>4. call'[t] = [d EXCEPT !.heap = "none"]
    BY <1>1, <1>3 DEF Begin
  <1>5. /\ call'[t].heap = "none" /\ call'[t].k = 0 /\ call'[t].got = <<>> /\ ~call'[t].stop
        /\ call'[t].sector = d.sector /\ call'[t].len = d.len
    BY <1>4 DEF Calls
  <1>6. pc'[t] \in {"lock", "cmd"} /\ (pc'[t] = "lock" => o # "register")
    BY <1>1
  <1>7. pc'[t] = "cmd" => o = "register"
    BY <1>1
  <1>8. PathOf(t)'
    BY <1>2, <1>6, <1>7 DEF PathOf
  <1>9. HeapOf(t)'
    BY <1>2, <1>5, <1>6, <1>7 DEF HeapOf
  <1>10. ShapeOf(t)'
    BY <1>2, <1>5, <1>6, <1>7 DEF ShapeOf
  <1> QED
    BY <1>8, <1>9, <1>10 DEF CallOf

\* A task that calls passes arguments that fit the card, and starts at block 0.
LEMMA CallsCallOf ==
  ASSUME TypeOK, CallInv, NEW t \in Tasks, Call(t)
  PROVE  CallOf(t)'
  <1>n. /\ NoCall \in Calls /\ NoCall.k = 0 /\ NoCall.got = <<>> /\ ~NoCall.stop
        /\ NoCall.sector = 0
    BY NoCallIsCall DEF NoCall
  <1>1. CASE CallLocked(t)
    <2>a. pc[t] = "idle" /\ pc' = [pc EXCEPT ![t] = "lock"]
      BY <1>1 DEF CallLocked, Goto
    <2>1. CASE Transfer(t)
      <3>1. PICK o \in Ops \cap {"write", "read"}, len \in Lengths, s \in Sectors, v \in Values :
              /\ s + Total(len) <= NSectors
              /\ Begin(t, o, [NoCall EXCEPT !.len = len, !.sector = s,
                                            !.val = IF o = "write" THEN v ELSE "zero"])
        BY <2>1 DEF Transfer
      <3> DEFINE w == IF o = "write" THEN v ELSE "zero"
                 d == [NoCall EXCEPT !.len = len, !.sector = s, !.val = w]
      <3>2. len \in Nat /\ s \in Nat /\ w \in Values \cup {"zero"}
        BY LengthAssumption, SizeAssumption DEF Sectors
      <3>3. d \in Calls
        BY <3>2, <1>n, CallEdits
      <3>4. d.k = 0 /\ d.got = <<>> /\ ~d.stop /\ d.len = len /\ d.sector = s
        BY DEF NoCall
      <3>5. Begin(t, o, d)
        BY <3>1
      <3> HIDE DEF d
      <3> QED
        BY <2>a, <3>1, <3>3, <3>4, <3>5, BeginCall
    <2>2. CASE Erase(t)
      <3>1. PICK s \in Sectors : \E e \in s .. NSectors - 1 :
              Begin(t, "erase", [NoCall EXCEPT !.sector = s, !.last = e])
        BY <2>2 DEF Erase
      <3>2. PICK e \in s .. NSectors - 1 :
              Begin(t, "erase", [NoCall EXCEPT !.sector = s, !.last = e])
        BY <3>1
      <3> DEFINE d == [NoCall EXCEPT !.sector = s, !.last = e]
      <3>3. s \in Nat /\ e \in Nat
        BY SizeAssumption DEF Sectors
      <3>4. d \in Calls
        BY <3>3, <1>n, CallEdits
      <3>5. d.k = 0 /\ d.got = <<>> /\ ~d.stop
        BY DEF NoCall
      <3>6. Begin(t, "erase", d) /\ "erase" \in Ops
        BY <2>2, <3>2 DEF Erase
      <3> HIDE DEF d
      <3> QED
        BY <2>a, <3>4, <3>5, <3>6, BeginCall
    <2>3. CASE Clean(t)
      <3> DEFINE d == [NoCall EXCEPT !.last = LastSector]
      <3>1. d \in Calls
        BY <1>n, LastSectorIsNat, CallEdits
      <3>2. d.k = 0 /\ d.got = <<>> /\ ~d.stop /\ d.sector = 0
        BY DEF NoCall
      <3>3. Begin(t, "clean", d) /\ "clean" \in Ops
        BY <2>3 DEF Clean
      <3> HIDE DEF d
      <3> QED
        BY <2>a, <3>1, <3>2, <3>3, BeginCall
    <2> QED
      BY <1>1, <2>1, <2>2, <2>3 DEF CallLocked
  <1>2. CASE FindTotalSector(t)
    BY <1>2, <1>n, BeginCall DEF FindTotalSector, Goto
  <1> QED
    BY <1>1, <1>2 DEF Call

\* A call that returns with no live buffer leaves the state of an idle task.
LEMMA ReturnCall ==
  ASSUME TypeOK, NEW t \in Tasks, Return(t), call[t].heap # "live"
  PROVE  CallOf(t)'
  <1>1. pc'[t] = "idle" /\ op'[t] = "none" /\ call'[t] = [NoCall EXCEPT !.heap = "none"]
    BY DEF TypeOK, Return, Goto
  <1> QED
    BY <1>1, OpsAssumption DEF CallOf, PathOf, HeapOf, ShapeOf, NoCall

\* A call that fails, from where its buffer was moved or is still to be.
LEMMA FailCall ==
  ASSUME TypeOK, NEW t \in Tasks, CallOf(t), NEW f \in BOOLEAN, Fail(t, f),
         op[t] \in {"write", "read"}, ~call[t].stop,
         ~f => call[t].heap # "live",
         f /\ call[t].len <= BLOCK_SIZE => call[t].heap # "freed"
  PROVE  CallOf(t)'
  <1>1. /\ pc'[t] = "fail" /\ op'[t] = op[t]
        /\ call'[t] = [call[t] EXCEPT !.frees = f] /\ call[t] \in Calls
    BY DEF TypeOK, Fail, Set, Goto
  <1>2. /\ call'[t].frees = f /\ call'[t].heap = call[t].heap /\ call'[t].len = call[t].len
        /\ call'[t].stop = call[t].stop /\ call'[t].sector = call[t].sector
        /\ call'[t].k = call[t].k
    BY <1>1 DEF Calls
  <1>3. PathOf(t)'
    BY <1>1 DEF PathOf
  <1>4. HeapOf(t)'
    BY <1>1, <1>2 DEF HeapOf
  <1>5. ShapeOf(t)'
    BY <1>1, <1>2 DEF ShapeOf, CallOf
  <1> QED
    BY <1>3, <1>4, <1>5 DEF CallOf

\* The lock, the buffers of the peripheral bus and the command.
LEMMA CommandCallOf ==
  ASSUME TypeOK, NEW t \in Tasks, CallOf(t), OpsInv, TakeLock(t) \/ Alloc(t) \/ Command(t)
  PROVE  CallOf(t)'
  <1>a. /\ pc \in [Tasks -> Locations] /\ op \in [Tasks -> Ops \cup {"none"}]
        /\ call \in [Tasks -> Calls] /\ call[t] \in Calls
    BY DEF TypeOK
  <1>b. op[t] \in {"write", "read", "erase", "clean", "register", "none"}
    BY <1>a, OpsAssumption
  <1>c. PathOf(t) /\ HeapOf(t) /\ ShapeOf(t)
    BY DEF CallOf
  <1>1. CASE TakeLock(t)
    <2>1. /\ pc[t] = "lock" /\ op'[t] = op[t] /\ call'[t] = call[t]
          /\ pc'[t] = "alloc" \/ pc'[t] = "cmd"
          /\ pc'[t] = "alloc" => op[t] \in {"write", "read"}
      BY <1>1, <1>a DEF TakeLock, Goto, callVars
    <2> QED
      BY <2>1, <1>c DEF CallOf, PathOf, HeapOf, ShapeOf
  <1>2. CASE Alloc(t)
    <2>1. pc[t] = "alloc" /\ call[t].heap = "none"
      BY <1>2, <1>c DEF Alloc, HeapOf
    <2>2. CASE Return(t)
      BY <2>1, <2>2, ReturnCall
    <2>3. CASE Set(t, [call[t] EXCEPT !.heap = "live"]) /\ Goto(t, "cmd")
      <3>1. pc'[t] = "cmd" /\ op'[t] = op[t] /\ call'[t] = [call[t] EXCEPT !.heap = "live"]
        BY <2>3, <1>a DEF Set, Goto
      <3>2. /\ call'[t].heap = "live" /\ call'[t].len = call[t].len /\ call'[t].stop =
                   call[t].stop
            /\ call'[t].sector = call[t].sector /\ call'[t].k = call[t].k /\ call'[t].got =
                   call[t].got
        BY <3>1, <1>a DEF Calls
      <3> QED
        BY <2>1, <3>1, <3>2, <1>c DEF CallOf, PathOf, HeapOf, ShapeOf
    <2> QED
      BY <1>2, <2>2, <2>3 DEF Alloc
  <1>3. CASE SendCommand(t)
    <2>1. pc[t] = "cmd" /\ pc'[t] = "resp" /\ op'[t] = op[t] /\ call'[t] = call[t]
      BY <1>3, <1>a DEF SendCommand, Goto, callVars
    <2> QED
      BY <2>1, <1>c DEF CallOf, PathOf, HeapOf, ShapeOf
  <1>4. CASE Accepted(t)
    <2>1. pc[t] = "resp" /\ ~call[t].stop /\ op'[t] = op[t]
      BY <1>4 DEF Accepted, Set, callVars
    <2>2. /\ call'[t].heap = call[t].heap /\ call'[t].len = call[t].len
          /\ call'[t].stop = call[t].stop /\ call'[t].sector = call[t].sector
          /\ call'[t].got = call[t].got
          /\ ~Erasing(t) => call'[t].k = call[t].k
          /\ call'[t].k \in {call[t].k, 1, 2}
      <3>1. \E s \in Sectors :
              \/ call'[t] = [call[t] EXCEPT !.target = s] \/ call'[t] = call[t]
              \/ Erasing(t) /\ call'[t] = [call[t] EXCEPT !.target = s, !.k = 1]
              \/ Erasing(t) /\ call'[t] = [call[t] EXCEPT !.end = s, !.k = 2]
        <4>1. \A arg : Heard(t, arg) \subseteq Sectors
          BY DEF Heard
        <4>2. 0 \in Sectors
          BY SizeAssumption DEF Sectors
        <4> QED
          BY <1>4, <1>a, <4>1, <4>2 DEF Accepted, Set, callVars
      <3> QED
        BY <3>1, <1>a DEF Calls
    <2>3. CASE ~Erasing(t)
      <3>1. pc'[t] = CASE op[t] = "write" -> "fill" [] op[t] =
                "read" -> "token" [] OTHER -> "regtoken"
        BY <1>4, <1>a, <2>3 DEF Accepted, Goto
      <3>2. call'[t].k = call[t].k
        BY <2>2, <2>3
      <3>3. op[t] \in {"write", "read"} => call[t].k < Total(call[t].len)
        <4>1. Total(call[t].len) \in Nat \ {0}
          BY <1>a, TotalIsPositive DEF Calls
        <4> QED
          BY <2>1, <1>c, <4>1 DEF ShapeOf, PathOf
      <3>4. op[t] # "none"
        BY <2>1, <1>c DEF PathOf
      <3>5. PathOf(t)'
        BY <1>b, <2>1, <2>3, <3>1, <3>4 DEF PathOf, Erasing
      <3>6. HeapOf(t)'
        BY <1>b, <1>c, <2>1, <2>2, <2>3, <3>1 DEF HeapOf, Erasing
      <3>7. ShapeOf(t)'
        BY <1>b, <1>c, <2>1, <2>2, <2>3, <3>1, <3>2, <3>3 DEF ShapeOf, Erasing
      <3> QED
        BY <3>5, <3>6, <3>7 DEF CallOf
    <2>4. CASE Erasing(t)
      <3>1. pc'[t] \in {"cmd", "busy"}
        BY <1>4, <1>a, <2>4 DEF Accepted, Goto
      <3> QED
        BY <2>1, <2>2, <2>4, <3>1, <1>c DEF CallOf, PathOf, HeapOf, ShapeOf, Erasing
    <2> QED
      BY <2>3, <2>4
  <1>5. CASE Refused(t)
    <2>1. pc[t] = "resp" /\ ~call[t].stop
      BY <1>5 DEF Refused
    <2>2. CASE op[t] \in {"write", "read"} /\ Fail(t, TRUE)
      <3>1. call[t].len <= BLOCK_SIZE => call[t].heap # "freed"
        BY <2>1, <1>c DEF HeapOf
      <3> QED
        BY <2>1, <2>2, <3>1, FailCall
    <2>3. CASE op[t] \notin {"write", "read"} /\ Return(t)
      BY <2>3, <1>c, ReturnCall DEF HeapOf
    <2> QED
      BY <1>5, <2>2, <2>3 DEF Refused, Erasing
  <1>6. CASE StopTransmission(t)
    <2>1. /\ pc[t] = "resp" /\ op[t] = "read" /\ call[t].stop
          /\ pc'[t] = "done" /\ op'[t] = op[t] /\ call'[t] = call[t]
      BY <1>6, <1>a DEF StopTransmission, Goto, callVars
    <2> QED
      BY <2>1, <1>c DEF CallOf, PathOf, HeapOf, ShapeOf
  <1> QED
    BY <1>1, <1>2, <1>3, <1>4, <1>5, <1>6 DEF Command

\* The blocks of a write.
LEMMA WriteCallOf ==
  ASSUME TypeOK, NEW t \in Tasks, CallOf(t), WriteBlock(t)
  PROVE  CallOf(t)'
  <1>a. /\ pc \in [Tasks -> Locations] /\ op \in [Tasks -> Ops \cup {"none"}]
        /\ call \in [Tasks -> Calls] /\ call[t] \in Calls
    BY DEF TypeOK
  <1>c. PathOf(t) /\ HeapOf(t) /\ ShapeOf(t)
    BY DEF CallOf
  <1>d. call[t].k \in Nat /\ Total(call[t].len) \in Nat
    BY <1>a, TotalIsPositive DEF Calls
  <1>1. CASE Fill(t)
    <2>1. pc[t] = "fill" /\ pc'[t] = "send" /\ op'[t] = op[t] /\ call'[t] = call[t]
      BY <1>1, <1>a DEF Fill, Goto, callVars
    <2> QED
      BY <2>1, <1>c DEF CallOf, PathOf, HeapOf, ShapeOf
  <1>2. CASE Send(t)
    <2>1. pc[t] = "send" /\ op'[t] = op[t]
      BY <1>2 DEF Send, Set, callVars
    <2>2. CASE call[t].heap # "freed"
      <3>1. pc'[t] = "accept"
        BY <1>2, <1>a, <2>2 DEF Send, Goto
      <3>2. /\ call'[t].heap # "live" /\ call'[t].len = call[t].len
            /\ call'[t].stop = call[t].stop /\ call'[t].sector = call[t].sector
            /\ call'[t].k = call[t].k
        <4>1. call'[t] = [call[t] EXCEPT !.moved = internal_buffer,
                                         !.heap = IF @ = "live" THEN "freed" ELSE @]
          BY <1>2, <1>a, <2>2 DEF Send, Set
        <4> QED
          BY <4>1, <1>a DEF Calls
      <3> QED
        BY <2>1, <3>1, <3>2, <1>c DEF CallOf, PathOf, HeapOf, ShapeOf
    <2>3. CASE call[t].heap = "freed"
      <3>1. pc'[t] = "corrupt" /\ call'[t] = call[t]
        BY <1>2, <1>a, <2>3 DEF Send, Goto, callVars
      <3>2. call[t].len > BLOCK_SIZE
        BY <1>a, <1>c, <2>1, <2>3, SizeAssumption DEF HeapOf, Calls
      <3> QED
        BY <2>1, <2>3, <3>1, <3>2, <1>c DEF CallOf, PathOf, HeapOf, ShapeOf
    <2> QED
      BY <2>2, <2>3
  <1>3. CASE DataAccepted(t)
    <2>1. pc[t] = "accept" /\ op'[t] = op[t] /\ call[t].heap # "live"
      BY <1>3, <1>c DEF DataAccepted, Set, callVars, HeapOf
    <2>2. CASE call[t].k + 1 < Total(call[t].len)
      <3>1. pc'[t] = "fill" /\ call'[t] = [call[t] EXCEPT !.k = @ + 1]
        BY <1>3, <1>a, <1>d, <2>2 DEF DataAccepted, Goto, Set
      <3>2. /\ call'[t].heap = call[t].heap /\ call'[t].len = call[t].len
            /\ call'[t].stop = call[t].stop /\ call'[t].sector = call[t].sector
            /\ call'[t].k = call[t].k + 1
        BY <3>1, <1>a DEF Calls
      <3>3. call[t].len > BLOCK_SIZE
        BY <2>2, <1>a, SizeAssumption DEF Total, Calls
      <3> QED
        BY <2>1, <2>2, <3>1, <3>2, <3>3, <1>a, <1>c, SizeAssumption
        DEF CallOf, PathOf, HeapOf, ShapeOf, Calls
    <2>3. CASE call[t].k + 1 = Total(call[t].len)
      <3>1. pc'[t] = "done" /\ call'[t] = call[t]
        BY <1>3, <1>a, <1>d, <2>3 DEF DataAccepted, Goto, callVars
      <3> QED
        BY <2>1, <3>1, <1>c DEF CallOf, PathOf, HeapOf, ShapeOf
    <2> QED
      BY <1>3, <2>2, <2>3 DEF DataAccepted
  <1>4. CASE DataRejected(t)
    <2>1. pc[t] = "accept" /\ Fail(t, FALSE)
      BY <1>4 DEF DataRejected
    <2>2. op[t] = "write" /\ ~call[t].stop /\ call[t].heap # "live"
      BY <2>1, <1>c DEF PathOf, HeapOf, ShapeOf
    <2> QED
      BY <2>1, <2>2, FailCall
  <1> QED
    BY <1>1, <1>2, <1>3, <1>4 DEF WriteBlock

\* The blocks of a read.
LEMMA ReadCallOf ==
  ASSUME TypeOK, NEW t \in Tasks, CallOf(t), ReadBlock(t)
  PROVE  CallOf(t)'
  <1>a. /\ pc \in [Tasks -> Locations] /\ op \in [Tasks -> Ops \cup {"none"}]
        /\ call \in [Tasks -> Calls] /\ call[t] \in Calls
    BY DEF TypeOK
  <1>c. PathOf(t) /\ HeapOf(t) /\ ShapeOf(t)
    BY DEF CallOf
  <1>d. call[t].k \in Nat /\ Total(call[t].len) \in Nat
    BY <1>a, TotalIsPositive DEF Calls
  <1>1. CASE AwaitToken(t)
    <2>1. pc[t] = "token" /\ pc'[t] = "data" /\ op'[t] = op[t] /\ call'[t] = call[t]
      BY <1>1, <1>a DEF AwaitToken, Goto, callVars
    <2> QED
      BY <2>1, <1>c DEF CallOf, PathOf, HeapOf, ShapeOf
  <1>2. CASE NoToken(t)
    <2>1. pc[t] = "data" /\ Fail(t, TRUE)
      BY <1>2 DEF NoToken
    <2>2. op[t] = "read" /\ ~call[t].stop /\ (call[t].len <= BLOCK_SIZE => call[t].heap # "freed")
      BY <2>1, <1>c DEF PathOf, HeapOf, ShapeOf
    <2> QED
      BY <2>1, <2>2, FailCall
  <1>3. CASE ReceiveBlock(t)
    <2>1. pc[t] = "data" /\ op'[t] = op[t]
      BY <1>3 DEF ReceiveBlock, Set, callVars
    <2>2. CASE call[t].heap # "freed"
      <3>1. pc'[t] = "crc"
        BY <1>3, <1>a, <2>2 DEF ReceiveBlock, Goto
      <3>2. /\ call'[t].heap # "live" /\ call'[t].len = call[t].len
            /\ call'[t].stop = call[t].stop /\ call'[t].sector = call[t].sector
            /\ call'[t].k = call[t].k
        <4>1. \E b : call'[t] = [call[t] EXCEPT !.moved = card[At(t)], !.got = Received(t, b),
                                                !.heap = IF @ = "live" THEN "freed" ELSE @]
          BY <1>3, <1>a, <2>2 DEF ReceiveBlock, Set
        <4> QED
          BY <4>1, <1>a DEF Calls
      <3> QED
        BY <2>1, <3>1, <3>2, <1>c DEF CallOf, PathOf, HeapOf, ShapeOf
    <2>3. CASE call[t].heap = "freed"
      <3>1. pc'[t] = "corrupt" /\ call'[t] = call[t]
        BY <1>3, <1>a, <2>3 DEF ReceiveBlock, Goto, callVars
      <3>2. call[t].len > BLOCK_SIZE
        BY <1>a, <1>c, <2>1, <2>3, SizeAssumption DEF HeapOf, Calls
      <3> QED
        BY <2>1, <2>3, <3>1, <3>2, <1>c DEF CallOf, PathOf, HeapOf, ShapeOf
    <2> QED
      BY <2>2, <2>3
  <1>4. CASE CrcMatches(t)
    <2>1. pc[t] = "crc" /\ op'[t] = op[t] /\ call[t].heap # "live"
      BY <1>4, <1>c DEF CrcMatches, Set, HeapOf
    <2>2. CASE call[t].k + 1 < Total(call[t].len)
      <3>1. pc'[t] = "token" /\ call'[t] = [call[t] EXCEPT !.k = @ + 1]
        BY <1>4, <1>a, <1>d, <2>2 DEF CrcMatches, Goto, Set
      <3>2. /\ call'[t].heap = call[t].heap /\ call'[t].len = call[t].len
            /\ call'[t].stop = call[t].stop /\ call'[t].sector = call[t].sector
            /\ call'[t].k = call[t].k + 1
        BY <3>1, <1>a DEF Calls
      <3>3. call[t].len > BLOCK_SIZE
        BY <2>2, <1>a, SizeAssumption DEF Total, Calls
      <3> QED
        BY <2>1, <2>2, <3>1, <3>2, <3>3, <1>a, <1>c, SizeAssumption
        DEF CallOf, PathOf, HeapOf, ShapeOf, Calls
    <2>3. CASE call[t].k + 1 = Total(call[t].len)
      <3> DEFINE several == call[t].len > BLOCK_SIZE
      <3>1. /\ call' = [call EXCEPT ![t] = [call[t] EXCEPT !.stop = several]]
            /\ pc'[t] = IF several THEN "cmd" ELSE "done"
        BY <1>4, <1>a, <1>d, <2>3 DEF CrcMatches, Goto, Set
      <3>2. /\ call'[t].heap = call[t].heap /\ call'[t].len = call[t].len
            /\ call'[t].stop = several /\ call'[t].sector = call[t].sector
            /\ call'[t].k = call[t].k
        BY <3>1, <1>a DEF Calls
      <3>3. call[t].len \in Nat /\ several \in BOOLEAN
        BY <1>a DEF Calls
      <3>4. PathOf(t)'
        BY <2>1, <3>1, <1>c DEF PathOf
      <3>5. HeapOf(t)'
        <4>1. CASE several
          <5>1. pc'[t] = "cmd" /\ call'[t].len > BLOCK_SIZE
            BY <4>1, <3>1, <3>2
          <5> QED
            BY <5>1, <2>1, <3>2, <3>3, <1>c, SizeAssumption DEF PathOf, HeapOf
        <4>2. CASE ~several
          <5>1. pc'[t] = "done" /\ ~call'[t].stop
            BY <4>2, <3>1, <3>2
          <5> QED
            BY <5>1, <2>1, <3>2, <1>c DEF PathOf, HeapOf
        <4> QED
          BY <4>1, <4>2
      <3>6. ShapeOf(t)'
        BY <2>1, <3>1, <3>2, <3>3, <1>c DEF PathOf, ShapeOf
      <3> QED
        BY <3>4, <3>5, <3>6 DEF CallOf
    <2> QED
      BY <1>4, <2>2, <2>3 DEF CrcMatches
  <1>5. CASE CrcMismatch(t)
    <2>1. pc[t] = "crc" /\ Fail(t, FALSE)
      BY <1>5 DEF CrcMismatch
    <2>2. op[t] = "read" /\ ~call[t].stop /\ call[t].heap # "live"
      BY <2>1, <1>c DEF PathOf, HeapOf, ShapeOf
    <2> QED
      BY <2>1, <2>2, FailCall
  <1> QED
    BY <1>1, <1>2, <1>3, <1>4, <1>5 DEF ReadBlock

\* The ends of the calls and the register read.
LEMMA EndingCallOf ==
  ASSUME TypeOK, NEW t \in Tasks, CallOf(t), OpsInv, Ending(t) \/ ReadRegister(t)
  PROVE  CallOf(t)'
  <1>a. /\ pc \in [Tasks -> Locations] /\ op \in [Tasks -> Ops \cup {"none"}]
        /\ call \in [Tasks -> Calls] /\ call[t] \in Calls
    BY DEF TypeOK
  <1>c. PathOf(t) /\ HeapOf(t) /\ ShapeOf(t)
    BY DEF CallOf
  <1>1. CASE EraseBusy(t)
    <2>1. pc[t] = "busy" /\ pc'[t] = "done" /\ op'[t] = op[t] /\ call'[t] = call[t]
      BY <1>1, <1>a DEF EraseBusy, Goto, callVars
    <2> QED
      BY <2>1, <1>c DEF CallOf, PathOf, HeapOf, ShapeOf
  <1>2. CASE Done(t)
    BY <1>2, <1>c, ReturnCall DEF Done, HeapOf
  <1>3. CASE FailUnlock(t) \/ FailDeselect(t)
    <2>1. /\ pc[t] \in {"fail", "deselect"} /\ pc'[t] \in {"deselect", "stray"}
          /\ op'[t] = op[t] /\ call'[t] = call[t]
      BY <1>3, <1>a DEF FailUnlock, FailDeselect, Goto, callVars
    <2> QED
      BY <2>1, <1>c DEF CallOf, PathOf, HeapOf, ShapeOf
  <1>4. CASE FailReturn(t)
    <2>1. pc[t] = "stray"
      BY <1>4 DEF FailReturn
    <2>2. CASE call[t].frees /\ call[t].heap = "freed"
      <3>1. pc'[t] = "corrupt" /\ op'[t] = op[t] /\ call'[t] = call[t]
        BY <1>4, <1>a, <2>2 DEF FailReturn, Goto, callVars
      <3>2. call[t].len > BLOCK_SIZE
        BY <1>a, <1>c, <2>1, <2>2, SizeAssumption DEF HeapOf, Calls
      <3> QED
        BY <2>1, <2>2, <3>1, <3>2, <1>c DEF CallOf, PathOf, HeapOf, ShapeOf
    <2>3. CASE call[t].frees /\ call[t].heap # "freed"
      <3>1. pc'[t] = "idle" /\ op'[t] = "none" /\ call'[t] = NoCall
        BY <1>4, <1>a, <2>3 DEF FailReturn, Goto, callVars
      <3> QED
        BY <3>1, OpsAssumption DEF CallOf, PathOf, HeapOf, ShapeOf, NoCall
    <2>4. CASE ~call[t].frees /\ Return(t)
      BY <2>1, <2>4, <1>c, ReturnCall DEF HeapOf
    <2> QED
      BY <1>4, <2>2, <2>3, <2>4 DEF FailReturn
  <1>5. CASE RegisterToken(t)
    <2>1. /\ pc[t] = "regtoken" /\ pc'[t] = "regdata" /\ op'[t] = op[t] /\ call'[t] = call[t]
      BY <1>5, <1>a DEF RegisterToken, Goto, callVars
    <2> QED
      BY <2>1, <1>c DEF CallOf, PathOf, HeapOf, ShapeOf
  <1>6. CASE RegisterRead(t)
    <2>1. call[t].heap = "none" /\ Return(t)
      BY <1>6, <1>c DEF RegisterRead, OpsInv, HeapOf
    <2> QED
      BY <2>1, ReturnCall
  <1> QED
    BY <1>1, <1>2, <1>3, <1>4, <1>5, <1>6 DEF Ending, ReadRegister

\* Every step keeps what is true of each call.
LEMMA NextCallInv ==
  ASSUME TypeOK, LockInv, CallInv, NEW t \in Tasks, Call(t) \/ Progress(t)
  PROVE  CallInv'
  <1>1. CallOf(t)'
    <2>1. CallOf(t) /\ OpsInv
      BY DEF CallInv, LockInv
    <2> QED
      BY <2>1, CallsCallOf, CommandCallOf, WriteCallOf, ReadCallOf, EndingCallOf DEF Progress
  <1>2. ASSUME NEW u \in Tasks, u # t PROVE CallOf(u)'
    <2>1. pc'[u] = pc[u] /\ op'[u] = op[u] /\ call'[u] = call[u]
      BY <1>2, OthersStay
    <2> QED
      BY <2>1 DEF CallInv, CallOf, PathOf, HeapOf, ShapeOf
  <1> QED
    BY <1>1, <1>2 DEF CallInv

\* On the bit-banged bus no step allocates, and a step that leaves the locked
\* part of a call gives the mutex back.
LEMMA OwnBitBang ==
  ASSUME TypeOK, LockInv, CallInv, BitBangInv, NEW t \in Tasks, Call(t) \/ Progress(t),
         spi_bus = "SPI_BITBANG"
  PROVE  /\ pc'[t] \notin {"alloc", "corrupt"}
         /\ call'[t].heap = "none"
         /\ mutex' \in {mutex, t, NoTask}
         /\ mutex' = t => Locked(t)'
  <1>a. /\ pc \in [Tasks -> Locations] /\ op \in [Tasks -> Ops \cup {"none"}]
        /\ call \in [Tasks -> Calls] /\ call[t] \in Calls
    BY DEF TypeOK
  <1>b. /\ pc[t] \notin {"alloc", "corrupt"} /\ call[t].heap = "none"
        /\ mutex = t => Locked(t)
    BY DEF BitBangInv, BitBangOf
  <1>c. NoTask \notin Tasks /\ mutex \in Tasks \cup {NoTask}
    BY TaskAssumption DEF TypeOK
  <1>d. Locked(t) => mutex = t
    BY DEF LockInv, LockOwned
  <1>e. PathOf(t)
    BY DEF CallInv, CallOf
  <1>r. Return(t) => pc'[t] = "idle" /\ call'[t].heap = "none"
    <2>1. Return(t) => pc'[t] = "idle" /\ call'[t] = [NoCall EXCEPT !.heap = "none"]
      BY <1>a, <1>b DEF Return, Goto
    <2> QED
      BY <2>1 DEF NoCall
  <1>f. \A g \in BOOLEAN : Fail(t, g) => pc'[t] = "fail" /\ call'[t].heap = "none"
    <2>1. \A g : Fail(t, g) => pc'[t] = "fail" /\ call'[t] = [call[t] EXCEPT !.frees = g]
      BY <1>a DEF Fail, Set, Goto
    <2> QED
      BY <2>1, <1>a, <1>b DEF Calls
  <1> USE DEF Goto, Set, callVars
  <1>1. CASE Call(t)
    <2>1. HeapOf(t)'
      BY <1>1, CallsCallOf DEF CallOf
    <2>2. call'[t].heap = "none"
      <3>1. pc'[t] = "lock" \/ (pc'[t] = "cmd" /\ op'[t] = "register")
        BY <1>1, <1>a DEF Call, CallLocked, FindTotalSector, Begin
      <3> QED
        BY <2>1, <3>1 DEF HeapOf
    <2>3. pc[t] = "idle" /\ pc'[t] \in {"lock", "cmd"} /\ mutex' = mutex
      BY <1>1, <1>a DEF Call, CallLocked, FindTotalSector
    <2>4. mutex # t
      BY <2>3, <1>b DEF Locked
    <2> QED
      BY <2>2, <2>3, <2>4
  <1>2. CASE TakeLock(t)
    <2>1. pc[t] = "lock" /\ pc'[t] = "cmd" /\ op'[t] = op[t] /\ call'[t] = call[t] /\ mutex' = t
      BY <1>2, <1>a DEF TakeLock
    <2> QED
      BY <2>1, <1>b, <1>e DEF Locked, PathOf
  <1>3. CASE Alloc(t)
    BY <1>3, <1>b DEF Alloc
  <1>4. CASE SendCommand(t)
    BY <1>4, <1>a, <1>b DEF SendCommand, Locked
  <1>5. CASE Accepted(t)
    <2>1. pc[t] = "resp" /\ op'[t] = op[t] /\ mutex' = mutex
      BY <1>5 DEF Accepted
    <2>2. call'[t].heap = "none"
      <3>1. \E s \in Sectors :
              \/ call'[t] = [call[t] EXCEPT !.target = s] \/ call'[t] = call[t]
              \/ call'[t] = [call[t] EXCEPT !.target = s, !.k = 1]
              \/ call'[t] = [call[t] EXCEPT !.end = s, !.k = 2]
        <4>1. \A arg : Heard(t, arg) \subseteq Sectors
          BY DEF Heard
        <4>2. 0 \in Sectors
          BY SizeAssumption DEF Sectors
        <4> QED
          BY <1>5, <1>a, <4>1, <4>2 DEF Accepted
      <3> QED
        BY <3>1, <1>a, <1>b DEF Calls
    <2>3. /\ pc'[t] \in {"fill", "token", "cmd", "busy", "regtoken"}
          /\ op[t] = "register" \/ pc'[t] # "regtoken"
      <3>1. op[t] \in {"write", "read", "erase", "clean", "register"}
        BY <2>1, <1>a, <1>e, OpsAssumption DEF PathOf
      <3> QED
        BY <3>1, <1>5, <1>a DEF Accepted, Erasing
    <2> QED
      BY <2>1, <2>2, <2>3, <1>b DEF Locked
  <1>6. CASE Refused(t)
    <2>1. pc[t] = "resp"
      BY <1>6 DEF Refused
    <2>2. CASE op[t] = "register"
      BY <2>1, <2>2, <1>6, <1>b, <1>r DEF Refused, Erasing, Locked
    <2>3. CASE op[t] # "register"
      BY <2>1, <2>3, <1>6, <1>b, <1>c, <1>r, <1>f DEF Refused, Locked
    <2> QED
      BY <2>2, <2>3
  <1>7. CASE StopTransmission(t)
    BY <1>7, <1>a, <1>b DEF StopTransmission, Locked
  <1>8. CASE Fill(t)
    BY <1>8, <1>a, <1>b DEF Fill, Locked
  <1>9. CASE Send(t)
    <2>1. pc'[t] = "accept" /\ mutex' = mutex
      BY <1>9, <1>a, <1>b DEF Send
    <2>2. call'[t] = [call[t] EXCEPT !.moved = internal_buffer,
                                     !.heap = IF @ = "live" THEN "freed" ELSE @]
      BY <1>9, <1>a, <1>b DEF Send
    <2>3. call'[t].heap = "none"
      BY <2>2, <1>a, <1>b DEF Calls
    <2> QED
      BY <2>1, <2>3 DEF Locked
  <1>10. CASE DataAccepted(t)
    <2>1. pc'[t] \in {"fill", "done"} /\ mutex' = mutex
      BY <1>10, <1>a DEF DataAccepted
    <2>2. call'[t] = call[t] \/ call'[t] = [call[t] EXCEPT !.k = @ + 1]
      BY <1>10, <1>a DEF DataAccepted
    <2>3. call'[t].heap = "none"
      BY <2>2, <1>a, <1>b DEF Calls
    <2> QED
      BY <2>1, <2>3 DEF Locked
  <1>11. CASE DataRejected(t) \/ NoToken(t) \/ CrcMismatch(t)
    <2>1. mutex' = mutex /\ pc'[t] = "fail" /\ call'[t].heap = "none"
      BY <1>11, <1>f DEF DataRejected, NoToken, CrcMismatch
    <2> QED
      BY <2>1 DEF Locked
  <1>12. CASE AwaitToken(t)
    BY <1>12, <1>a, <1>b DEF AwaitToken, Locked
  <1>13. CASE ReceiveBlock(t)
    <2>1. pc'[t] = "crc" /\ mutex' = mutex
      BY <1>13, <1>a, <1>b DEF ReceiveBlock
    <2>2. \E b : call'[t] = [call[t] EXCEPT !.moved = card[At(t)], !.got = Received(t, b),
                                            !.heap = IF @ = "live" THEN "freed" ELSE @]
      <3>1. call[t].heap # "freed"
        BY <1>b
      <3>2. PICK b : call' = [call EXCEPT ![t] =
                               [call[t] EXCEPT !.moved = card[At(t)], !.got = Received(t, b),
                                               !.heap = IF @ = "live" THEN "freed" ELSE @]]
        BY <3>1, <1>13 DEF ReceiveBlock
      <3> QED
        BY <3>2, <1>a
    <2>3. call'[t].heap = "none"
      BY <2>2, <1>a, <1>b DEF Calls
    <2> QED
      BY <2>1, <2>3 DEF Locked
  <1>14. CASE CrcMatches(t)
    <2>1. pc[t] = "crc" /\ pc'[t] \in {"token", "cmd", "done"} /\ mutex' = mutex /\ op'[t] = op[t]
      BY <1>14, <1>a DEF CrcMatches
    <2>2. \/ call'[t] = [call[t] EXCEPT !.k = @ + 1]
          \/ call'[t] = [call[t] EXCEPT !.stop = call[t].len > BLOCK_SIZE]
      BY <1>14, <1>a DEF CrcMatches
    <2>3. call'[t].heap = "none"
      BY <2>2, <1>a, <1>b DEF Calls
    <2> QED
      BY <2>1, <2>3, <1>e DEF Locked, PathOf
  <1>15. CASE EraseBusy(t)
    BY <1>15, <1>a, <1>b DEF EraseBusy, Locked
  <1>16. CASE Done(t)
    BY <1>16, <1>c, <1>r DEF Done
  <1>17. CASE FailUnlock(t)
    BY <1>17, <1>a, <1>b, <1>c DEF FailUnlock
  <1>18. CASE FailDeselect(t)
    BY <1>18, <1>a, <1>b DEF FailDeselect, Locked
  <1>19. CASE FailReturn(t)
    <2>1. pc[t] = "stray" /\ mutex' = mutex
      BY <1>19 DEF FailReturn
    <2>2. mutex # t
      BY <2>1, <1>b DEF Locked
    <2>3. pc'[t] = "idle" /\ (Return(t) \/ call'[t] = NoCall)
      BY <1>19, <1>a, <1>b, <1>r DEF FailReturn
    <2>4. call'[t].heap = "none"
      BY <2>3, <1>r DEF NoCall
    <2> QED
      BY <2>1, <2>2, <2>3, <2>4
  <1>20. CASE RegisterToken(t)
    BY <1>20, <1>a, <1>b DEF RegisterToken, Locked
  <1>21. CASE RegisterRead(t)
    BY <1>21, <1>b, <1>r DEF RegisterRead, Locked
  <1> QED
    BY <1>1, <1>2, <1>3, <1>4, <1>5, <1>6, <1>7, <1>8, <1>9, <1>10, <1>11, <1>12, <1>13, <1>14,
       <1>15, <1>16, <1>17, <1>18, <1>19, <1>20, <1>21
    DEF Progress, Command, WriteBlock, ReadBlock, Ending, ReadRegister

\* So the invariant is kept.
LEMMA NextBitBangInv ==
  ASSUME TypeOK, LockInv, CallInv, BitBangInv, NEW t \in Tasks, Call(t) \/ Progress(t), Observe(t)
  PROVE  BitBangInv'
  <1> SUFFICES ASSUME spi_bus = "SPI_BITBANG", NEW u \in Tasks
               PROVE  /\ pc'[u] \notin {"alloc", "corrupt"}
                      /\ call'[u].heap = "none"
                      /\ mutex' = u => Locked(u)'
    BY DEF BitBangInv, BitBangOf, Observe
  <1>1. CASE u = t
    BY <1>1, OwnBitBang
  <1>2. CASE u # t
    <2>1. pc'[u] = pc[u] /\ op'[u] = op[u] /\ call'[u] = call[u]
      BY <1>2, OthersStay
    <2>2. mutex' = u => mutex = u
      BY <1>2, TaskAssumption, OwnBitBang
    <2> QED
      BY <2>1, <2>2 DEF BitBangInv, BitBangOf, Locked
  <1> QED
    BY <1>1, <1>2

\* The invariant of the calls, and what it says of the end of each.
CleanInv == TypeOK /\ LockInv /\ CallInv /\ BitBangInv

\* It holds initially and after every step, and no call returns unclean.
LEMMA CleanInvariant ==
  /\ Init => CleanInv
  /\ CleanInv /\ [Next]_vars => CleanInv'
  /\ CleanInv => ReturnsClean
  <1>1. Init => CleanInv
    <2>1. Init => CallInv /\ BitBangInv
      BY OpsAssumption, TaskAssumption
      DEF Init, CallInv, CallOf, PathOf, HeapOf, ShapeOf, BitBangInv, BitBangOf, Locked, NoCall
    <2> QED
      BY <2>1, TypeInvariant, InitLockInv DEF CleanInv
  <1>2. ASSUME CleanInv, UNCHANGED vars PROVE CallInv' /\ BitBangInv'
    BY <1>2 DEF CleanInv, vars, CallInv, CallOf, PathOf, HeapOf, ShapeOf, BitBangInv, BitBangOf,
           Locked
  <1>3. ASSUME CleanInv, Next PROVE CallInv' /\ BitBangInv'
    BY <1>3, NextCallInv, NextBitBangInv DEF CleanInv, Next, Step
  <1>4. CleanInv => ReturnsClean
    BY DEF CleanInv, ReturnsClean, ReturnsUnlocked, ReturnsHeap, OneBlockBuffersAreLive, CallInv,
           CallOf, HeapOf, BitBangInv, BitBangOf, Locked
  <1> QED
    BY <1>1, <1>2, <1>3, <1>4, TypeInvariant, NextLockInv DEF CleanInv

\* Whichever of its steps failed, no call returns with its bus buffers still
\* allocated, none of one block frees or uses a buffer twice, and on the
\* bit-banged bus none returns with sdcard->mutex.
THEOREM ReturnsCleanHolds == Spec => []ReturnsClean
  BY CleanInvariant, PTL DEF Spec

-----------------------------------------------------------------------------
(* Calls that are not disturbed                                            *)

\* A step of another task that does not disturb call u changes neither the
\* size of the card nor, while u owns the mutex, the card, the buffer or u's
\* frame.
LEMMA QuietFrame ==
  ASSUME TypeOK, LockInv, CallInv, NEW t \in Tasks, Call(t) \/ Progress(t), Observe(t),
         NEW u \in Tasks, u # t, u \notin disturbed', pc[u] # "idle"
  PROVE  /\ u \notin disturbed
         /\ total_sectors' = total_sectors
         /\ Locked(u) => UNCHANGED <<card, internal_buffer, shifted>>
  <1>1. u \notin disturbed
    BY DisturbedStays
  <1>2. ~Unlocked(t)
    BY DEF Observe
  <1>3. total_sectors' = total_sectors
    <2>1. ~RegisterRead(t)
      BY <1>2 DEF Unlocked, RegisterRead, LockInv, OpsInv
    <2> QED
      BY <2>1 DEF Call, CallLocked, FindTotalSector, Progress, TakeLock, Alloc, Command,
             SendCommand,
         Accepted, Refused, StopTransmission, WriteBlock, Fill, Send, DataAccepted, DataRejected,
         ReadBlock, AwaitToken, NoToken, ReceiveBlock, CrcMatches, CrcMismatch, Ending, EraseBusy,
         Done, FailUnlock, FailDeselect, FailReturn, ReadRegister, RegisterToken
  <1>4. ASSUME Locked(u) PROVE UNCHANGED <<card, internal_buffer, shifted>>
    <2>1. mutex = u /\ ~Locked(t) /\ mutex # NoTask
      BY <1>4, TaskAssumption DEF LockInv, LockOwned
    <2>2. pc[t] \in {"idle", "lock", "corrupt"}
      BY <1>2, <2>1 DEF Unlocked, Locked, LockInv, OpsInv, TaskInv, Locations
    <2>3. CASE Call(t)
      BY <2>3 DEF Call, CallLocked, FindTotalSector, busVars, cardVars
    <2>4. ~Progress(t)
      BY <2>1, <2>2 DEF Progress, TakeLock, Lockable, Alloc, Command, SendCommand, Accepted,
             Refused,
         StopTransmission, WriteBlock, Fill, Send, DataAccepted, DataRejected, ReadBlock,
             AwaitToken,
         NoToken, ReceiveBlock, CrcMatches, CrcMismatch, Ending, EraseBusy, Done, FailUnlock,
         FailDeselect, FailReturn, ReadRegister, RegisterToken, RegisterRead
    <2> QED
      BY <2>3, <2>4
  <1> QED
    BY <1>1, <1>3, <1>4

\* So what holds of u's call goes on holding.
LEMMA OthersQuiet ==
  ASSUME TypeOK, LockInv, CallInv, QuietInv, NEW t \in Tasks, Call(t) \/ Progress(t), Observe(t),
         NEW u \in Tasks, u # t, u \notin disturbed'
  PROVE  QuietOf(u)'
  <1>1. pc'[u] = pc[u] /\ op'[u] = op[u] /\ call'[u] = call[u] /\ spi_bus' = spi_bus
    BY OthersStay DEF Observe
  <1>p. PathOf(u)
    BY DEF CallInv, CallOf
  <1>2. CASE pc[u] = "idle"
    BY <1>1, <1>2, <1>p DEF PathOf, QuietOf, QuietWrite, QuietRead, QuietClean, Succeeds
  <1>3. CASE pc[u] # "idle"
    <2>1. u \notin disturbed /\ total_sectors' = total_sectors /\ QuietOf(u)
      BY <1>3, QuietFrame DEF QuietInv
    <2>2. CASE Locked(u)
      <3>1. UNCHANGED <<card, internal_buffer, shifted>>
        BY <1>3, <2>2, QuietFrame
      <3>2. \A n : (Written(u, n) => Written(u, n)') /\ Delivered(u, n)' = Delivered(u, n)
        BY <1>1, <3>1 DEF Written, Delivered
      <3>3. QuietWrite(u)'
        BY <1>1, <2>1, <3>2 DEF QuietOf, QuietWrite, Succeeds
      <3>4. QuietRead(u)'
        BY <1>1, <2>1, <3>1, <3>2 DEF QuietOf, QuietRead
      <3>5. QuietClean(u)'
        BY <1>1, <2>1, <3>1 DEF QuietOf, QuietClean, SizeTooSmall
      <3> QED
        BY <1>1, <2>1, <3>1, <3>3, <3>4, <3>5 DEF QuietOf
    <2>3. CASE ~Locked(u)
      <3>1. /\ pc[u] \notin {"fill", "send", "accept", "token", "data", "crc", "busy", "done"}
            /\ pc[u] \in {"cmd", "resp"} => op[u] = "register"
        BY <2>3 DEF Locked
      <3> QED
        BY <1>1, <2>1, <3>1 DEF QuietOf, QuietWrite, QuietRead, QuietClean, SizeTooSmall, Succeeds
    <2> QED
      BY <2>2, <2>3
  <1> QED
    BY <1>2, <1>3

\* Nothing is claimed of a call that has failed, returned or reads a register.
LEMMA QuietElsewhere ==
  ASSUME NEW t \in Tasks,
         pc'[t] \in {"idle", "fail", "deselect", "stray", "corrupt", "regtoken", "regdata"},
         op'[t] # "clean"
  PROVE  QuietOf(t)'
  BY DEF QuietOf, QuietWrite, QuietRead, QuietClean, Succeeds

\* A step that returns or fails leaves a call of which nothing is claimed.
LEMMA FailReturnQuiet ==
  ASSUME TypeOK, NEW t \in Tasks, PathOf(t),
         \/ Return(t)
         \/ Fail(t, TRUE) /\ op[t] # "clean"
         \/ Fail(t, FALSE) /\ op[t] # "clean"
  PROVE  QuietOf(t)'
  <1>1. \/ pc'[t] = "idle" /\ op'[t] = "none"
        \/ pc'[t] = "fail" /\ op'[t] = op[t] /\ op[t] # "clean"
    BY DEF TypeOK, Return, Fail, Goto, Set
  <1> QED
    BY <1>1, QuietElsewhere

\* A new call has done nothing yet.
LEMMA CallsQuiet ==
  ASSUME TypeOK, CallInv, NEW t \in Tasks, Call(t)
  PROVE  QuietOf(t)'
  <1>1. CallOf(t)'
    BY CallsCallOf
  <1>2. /\ pc'[t] = "lock" \/ (pc'[t] = "cmd" /\ op'[t] = "register")
        /\ op'[t] = "clean" => Clean(t)
    BY DEF TypeOK, Call, CallLocked, FindTotalSector, Begin, Goto, Transfer, Erase, Clean
  <1>3. ASSUME op'[t] = "clean", ~SizeTooSmall'
        PROVE  /\ call'[t].last = NSectors - 1 \/ call'[t].last \notin Sectors
               /\ call'[t].k = 0
    <2>1. total_sectors' = total_sectors
      BY DEF Call, CallLocked, FindTotalSector
    <2>2. call'[t].last = LastSector /\ call'[t].k = 0
      <3>1. call'[t] = [[NoCall EXCEPT !.last = LastSector] EXCEPT !.heap = call[t].heap]
        BY <1>2, <1>3 DEF Clean, Begin, TypeOK
      <3> QED
        BY <3>1 DEF NoCall
    <2>3. CASE total_sectors = 0
      <3>1. LastSector = UINT32 - 1
        BY <2>3, SizeAssumption DEF LastSector
      <3>2. UINT32 - 1 >= NSectors
        BY SizeAssumption
      <3> QED
        BY <2>2, <3>1, <3>2, SizeAssumption DEF Sectors
    <2>4. CASE total_sectors = NSectors
      <3>1. LastSector = NSectors - 1
        BY <2>4, SizeAssumption DEF LastSector
      <3> QED
        BY <2>2, <3>1
    <2>5. CASE total_sectors > NSectors
      <3>1. LastSector = total_sectors - 1
        BY <2>5, SizeAssumption DEF LastSector, TypeOK
      <3>2. total_sectors - 1 > NSectors - 1
        BY <2>5, SizeAssumption DEF TypeOK
      <3> QED
        BY <2>2, <3>1, <3>2, SizeAssumption DEF Sectors, TypeOK
    <2>6. total_sectors = 0 \/ total_sectors = NSectors \/ total_sectors > NSectors
      BY <1>3, <2>1, SizeAssumption DEF SizeTooSmall, TypeOK
    <2> QED
      BY <2>3, <2>4, <2>5, <2>6
  <1> QED
    BY <1>2, <1>3 DEF QuietOf, QuietWrite, QuietRead, QuietClean, Succeeds

\* A read that has started has delivered nothing; one more block makes one more.
LEMMA DeliveredNone ==
  ASSUME NEW t \in Tasks PROVE Delivered(t, 0) = <<>>
  BY DEF Delivered

\* The blocks delivered up to n, and block n, are those up to n + 1.
LEMMA DeliveredOneMore ==
  ASSUME NEW t \in Tasks, NEW n \in Nat
  PROVE  Delivered(t, n + 1) =
           Append(Delivered(t, n), <<card[call[t].sector + n], Want(call[t].len, n)>>)
  <1> DEFINE f(i) == <<card[call[t].sector + i - 1], Want(call[t].len, i - 1)>>
  <1>1. Delivered(t, n) = [i \in 1 .. n |-> f(i)] /\ Delivered(t, n + 1) =
            [i \in 1 .. n + 1 |-> f(i)]
    BY DEF Delivered
  <1>2. f(n + 1) = <<card[call[t].sector + n], Want(call[t].len, n)>>
    <2>1. call[t].sector + (n + 1) - 1 = call[t].sector + n /\ (n + 1) - 1 = n
      OBVIOUS
    <2> QED
      BY <2>1
  <1> HIDE DEF f
  <1>3. [i \in 1 .. n + 1 |-> f(i)] = Append([i \in 1 .. n |-> f(i)], f(n + 1))
    OBVIOUS
  <1> QED
    BY <1>1, <1>2, <1>3

\* Neither the frame a task starts nor the bytes it clocks are shifted by itself.
LEMMA OwnFrame ==
  ASSUME NEW t \in Tasks
  PROVE  /\ StartFrame(t) => t \notin shifted'
         /\ Clock(t) /\ t \notin shifted => t \notin shifted'
  BY DEF StartFrame, Clock

\* The lock and the first frame.
LEMMA LockQuiet ==
  ASSUME TypeOK, LockInv, NEW t \in Tasks, CallOf(t), QuietOf(t), spi_bus' = spi_bus,
         TakeLock(t) \/ Alloc(t) \/ SendCommand(t)
  PROVE  QuietOf(t)'
  <1>a. /\ pc \in [Tasks -> Locations] /\ op \in [Tasks -> Ops \cup {"none"}]
        /\ call \in [Tasks -> Calls] /\ call[t] \in Calls
    BY DEF TypeOK
  <1>c. PathOf(t) /\ HeapOf(t) /\ ShapeOf(t)
    BY DEF CallOf
  <1>1. CASE TakeLock(t)
    <2>1. /\ pc[t] = "lock" /\ pc'[t] \in {"alloc", "cmd"} /\ op'[t] = op[t] /\ call'[t] = call[t]
          /\ total_sectors' = total_sectors
      BY <1>1, <1>a DEF TakeLock, Goto, callVars
    <2>2. ~call[t].stop
      BY <2>1, <1>c DEF PathOf, ShapeOf
    <2> QED
      BY <2>1, <2>2 DEF QuietOf, QuietWrite, QuietRead, QuietClean, SizeTooSmall, Succeeds
  <1>2. CASE Alloc(t)
    <2>1. pc[t] = "alloc" /\ op[t] \in {"write", "read"} /\ ~call[t].stop
      BY <1>2, <1>c DEF Alloc, PathOf, ShapeOf
    <2>2. CASE Return(t)
      BY <1>c, <2>2, FailReturnQuiet
    <2>3. CASE Set(t, [call[t] EXCEPT !.heap = "live"]) /\ Goto(t, "cmd")
      <3>1. pc'[t] = "cmd" /\ op'[t] = op[t] /\ call'[t] = [call[t] EXCEPT !.heap = "live"]
        BY <2>3, <1>a DEF Set, Goto
      <3>2. call'[t].stop = call[t].stop
        BY <3>1, <1>a DEF Calls
      <3> QED
        BY <2>1, <3>1, <3>2 DEF QuietOf, QuietWrite, QuietRead, QuietClean, Succeeds
    <2> QED
      BY <1>2, <2>2, <2>3 DEF Alloc
  <1>3. CASE SendCommand(t)
    <2>1. /\ pc[t] = "cmd" /\ pc'[t] = "resp" /\ op'[t] = op[t] /\ call'[t] = call[t]
          /\ total_sectors' = total_sectors /\ card' = card /\ t \notin shifted'
      BY <1>3, <1>a, OwnFrame DEF SendCommand, Goto, callVars, cardVars
    <2>2. \A n : Delivered(t, n)' = Delivered(t, n)
      BY <2>1 DEF Delivered
    <2> QED
      BY <2>1, <2>2 DEF QuietOf, QuietWrite, QuietRead, QuietClean, SizeTooSmall, Succeeds
  <1> QED
    BY <1>1, <1>2, <1>3

\* The response: an undisturbed frame carries its own sector.
LEMMA ResponseQuiet ==
  ASSUME TypeOK, LockInv, NEW t \in Tasks, CallOf(t), QuietOf(t), spi_bus' = spi_bus,
         Accepted(t) \/ Refused(t) \/ StopTransmission(t)
  PROVE  QuietOf(t)'
  <1>a. /\ pc \in [Tasks -> Locations] /\ op \in [Tasks -> Ops \cup {"none"}]
        /\ call \in [Tasks -> Calls] /\ call[t] \in Calls /\ card \in [Sectors -> Contents]
    BY DEF TypeOK
  <1>b. op[t] \in {"write", "read", "erase", "clean", "register", "none"}
    BY <1>a, OpsAssumption
  <1>c. PathOf(t) /\ HeapOf(t) /\ ShapeOf(t)
    BY DEF CallOf
  <1>1. CASE Accepted(t)
    <2>1. pc[t] = "resp" /\ ~call[t].stop /\ op'[t] = op[t] /\ total_sectors' = total_sectors
      BY <1>1 DEF Accepted, Set, callVars
    <2>2. op[t] # "none"
      BY <2>1, <1>c DEF PathOf
    <2>3. op[t] # "register" => t \notin shifted
      BY <2>1 DEF QuietOf
    <2>4. CASE op[t] = "register"
      <3>1. pc'[t] = "regtoken"
        BY <1>1, <1>a, <2>4 DEF Accepted, Erasing, Goto
      <3> QED
        BY <3>1, <2>1, <2>4, QuietElsewhere
    <2>5. CASE op[t] \in {"write", "read"}
      <3>1. /\ pc'[t] = IF op[t] = "write" THEN "fill" ELSE "token"
            /\ card' = card
        BY <1>1, <1>a, <2>5 DEF Accepted, Erasing, Goto
      <3>2. call'[t] = [call[t] EXCEPT !.target = call[t].sector]
        BY <1>1, <1>a, <2>3, <2>5 DEF Accepted, Erasing, Set, Heard
      <3>3. /\ call'[t].target = call'[t].sector /\ call'[t].k = call[t].k
            /\ call'[t].got = call[t].got /\ call'[t].stop = call[t].stop
        BY <3>2, <1>a DEF Calls
      <3>4. call[t].k = 0 /\ call[t].got = <<>>
        BY <2>1, <2>5, <1>c DEF ShapeOf
      <3>5. Written(t, 0)'
        BY DEF Written
      <3>6. Delivered(t, 0)' = <<>>
        BY DEF Delivered
      <3>7. QuietWrite(t)'
        BY <2>1, <2>5, <3>1, <3>3, <3>4, <3>5 DEF QuietWrite, Succeeds
      <3>8. QuietRead(t)'
        BY <2>1, <2>5, <3>1, <3>3, <3>4, <3>6 DEF QuietRead
      <3> QED
        BY <2>1, <2>5, <3>1, <3>3, <3>7, <3>8 DEF QuietOf, QuietClean
    <2>6. CASE Erasing(t)
      <3> DEFINE First == /\ call[t].k = 0 /\ pc'[t] = "cmd"
                          /\ \E s \in Heard(t, call[t].sector) :
                               call'[t] = [call[t] EXCEPT !.target = s, !.k = 1]
                 Last == /\ call[t].k = 1 /\ pc'[t] = "cmd"
                         /\ \E s \in Heard(t, call[t].last) :
                              call'[t] = [call[t] EXCEPT !.end = s, !.k = 2]
                 Start == /\ call[t].k = 2 /\ pc'[t] = "busy" /\ call'[t] = call[t]
                          /\ card' = [s \in Sectors |->
                                        IF s \in call[t].target .. call[t].end THEN Erased ELSE
                                            card[s]]
      <3>0. First \/ Last \/ Start
        <4>g. \A l : Goto(t, l) => pc'[t] = l
          BY <1>a DEF Goto
        <4>s. \A c : Set(t, c) => call'[t] = c
          BY <1>a DEF Set
        <4>1. ASSUME call[t].k = 0, Goto(t, "cmd"),
                     \E s \in Heard(t, call[t].sector) :
                       Set(t, [call[t] EXCEPT !.target = s, !.k = 1])
              PROVE First
          BY <4>1, <4>g, <4>s
        <4>2. ASSUME call[t].k = 1, Goto(t, "cmd"),
                     \E s \in Heard(t, call[t].last) :
                       Set(t, [call[t] EXCEPT !.end = s, !.k = 2])
              PROVE Last
          BY <4>2, <4>g, <4>s
        <4>3. CASE call[t].k = 2
          BY <1>1, <1>a, <2>6, <4>3 DEF Accepted, Goto, callVars
        <4> HIDE DEF First, Last, Start
        <4> QED
          BY <1>1, <2>6, <4>1, <4>2, <4>3 DEF Accepted
      <3>1. pc'[t] \in {"cmd", "busy"}
        BY <3>0
      <3>2. QuietClean(t)'
        <4>1. SUFFICES ASSUME op[t] = "clean", ~SizeTooSmall
                       PROVE  /\ call'[t].last = NSectors - 1 \/ call'[t].last \notin Sectors
                              /\ call'[t].k >= 1 => call'[t].target = 0
                              /\ call'[t].k = 2 => call'[t].end = NSectors - 1
                              /\ pc'[t] = "busy" =>
                                   call'[t].k = 2 /\ \A s \in Sectors : card'[s] = Erased
          BY <2>1, <3>1 DEF QuietClean, SizeTooSmall
        <4>2. /\ call[t].last = NSectors - 1 \/ call[t].last \notin Sectors
              /\ call[t].k >= 1 => call[t].target = 0
              /\ call[t].k = 2 => call[t].end = NSectors - 1
              /\ call[t].sector = 0 /\ call[t].k \in 0 .. 2 /\ t \notin shifted
          BY <4>1, <2>3, <1>c DEF QuietOf, QuietClean, ShapeOf
        <4>3. CASE First
          <5>1. call'[t] = [call[t] EXCEPT !.target = 0, !.k = 1]
            BY <4>2, <4>3 DEF Heard
          <5>2. call'[t].target = 0 /\ call'[t].k = 1 /\ call'[t].last = call[t].last
            BY <5>1, <1>a DEF Calls
          <5> QED
            BY <4>2, <4>3, <5>2
        <4>4. CASE Last
          <5>1. call'[t] = [call[t] EXCEPT !.end = call[t].last, !.k = 2] /\
                    call[t].last \in Sectors
            BY <4>2, <4>4 DEF Heard
          <5>2. /\ call'[t].target = call[t].target /\ call'[t].k = 2
                /\ call'[t].last = call[t].last /\ call'[t].end = call[t].last
            BY <5>1, <1>a DEF Calls
          <5> QED
            BY <4>2, <4>4, <5>1, <5>2
        <4>5. CASE Start
          <5>1. call[t].target = 0 /\ call[t].end = NSectors - 1
            BY <4>2, <4>5
          <5>2. \A s \in Sectors : card'[s] = Erased
            BY <4>5, <5>1, SizeAssumption DEF Sectors
          <5> QED
            BY <4>2, <4>5, <5>2
        <4> QED
          BY <3>0, <4>3, <4>4, <4>5
      <3>3. op[t] \in {"erase", "clean"}
        BY <2>6 DEF Erasing
      <3> QED
        BY <2>1, <3>1, <3>2, <3>3 DEF QuietOf, QuietWrite, QuietRead, Succeeds
    <2> QED
      BY <1>b, <2>2, <2>4, <2>5, <2>6 DEF Erasing
  <1>2. CASE Refused(t)
    BY <1>2, <1>c, FailReturnQuiet DEF Refused
  <1>3. CASE StopTransmission(t)
    <2>1. /\ pc[t] = "resp" /\ pc'[t] = "done" /\ op'[t] = op[t] /\ call'[t] = call[t]
          /\ op[t] = "read" /\ call[t].stop /\ card' = card
      BY <1>3, <1>a DEF StopTransmission, Goto, callVars, cardVars
    <2>2. \A n : Delivered(t, n)' = Delivered(t, n)
      BY <2>1 DEF Delivered
    <2> QED
      BY <2>1, <2>2 DEF QuietOf, QuietWrite, QuietRead, QuietClean, Succeeds
  <1> QED
    BY <1>1, <1>2, <1>3

\* The blocks of a write: each one that is accepted is the caller's next.
LEMMA WriteQuiet ==
  ASSUME TypeOK, LockInv, NEW t \in Tasks, CallOf(t), QuietOf(t), BufferIsOwn, t \notin disturbed,
         WriteBlock(t)
  PROVE  QuietOf(t)'
  <1>a. /\ pc \in [Tasks -> Locations] /\ op \in [Tasks -> Ops \cup {"none"}]
        /\ call \in [Tasks -> Calls] /\ call[t] \in Calls /\ card \in [Sectors -> Contents]
    BY DEF TypeOK
  <1>c. PathOf(t) /\ HeapOf(t) /\ ShapeOf(t)
    BY DEF CallOf
  <1>d. /\ call[t].k \in Nat /\ Total(call[t].len) \in Nat /\ call[t].sector \in Nat
    BY <1>a, TotalIsPositive DEF Calls
  <1>1. CASE Fill(t)
    <2>1. /\ pc[t] = "fill" /\ pc'[t] = "send" /\ op'[t] = op[t] /\ call'[t] = call[t] /\ card' =
                 card
          /\ op[t] = "write"
      BY <1>1, <1>a, <1>c DEF Fill, Goto, callVars, cardVars, PathOf
    <2>2. Written(t, call[t].k)'
      BY <2>1 DEF QuietOf, QuietWrite, Written
    <2> QED
      BY <2>1, <2>2 DEF QuietOf, QuietWrite, QuietRead, QuietClean, Succeeds
  <1>2. CASE Send(t)
    <2>1. pc[t] = "send" /\ op[t] = "write" /\ op'[t] = op[t] /\ card' = card /\ t \notin shifted'
      BY <1>2, <1>c, OwnFrame DEF Send, Set, callVars, cardVars, PathOf
    <2>2. CASE call[t].heap = "freed"
      <3>1. pc'[t] = "corrupt"
        BY <1>2, <1>a, <2>2 DEF Send, Goto
      <3> QED
        BY <2>1, <3>1, QuietElsewhere
    <2>3. CASE call[t].heap # "freed"
      <3>1. /\ pc'[t] = "accept"
            /\ call'[t] = [call[t] EXCEPT !.moved = internal_buffer,
                                          !.heap = IF @ = "live" THEN "freed" ELSE @]
        BY <1>2, <1>a, <2>3 DEF Send, Goto, Set
      <3>2. /\ call'[t].moved = internal_buffer /\ call'[t].k = call[t].k
            /\ call'[t].sector = call[t].sector /\ call'[t].target = call[t].target
            /\ call'[t].len = call[t].len /\ call'[t].val = call[t].val
        BY <3>1, <1>a DEF Calls
      <3>3. internal_buffer = Chunk(call[t].val, call[t].k, Copied(call[t].len, call[t].k))
        BY <2>1 DEF BufferIsOwn
      <3>4. Written(t, call[t].k)'
        BY <2>1, <3>2 DEF QuietOf, QuietWrite, Written
      <3>5. QuietWrite(t)'
        BY <2>1, <3>1, <3>2, <3>3, <3>4 DEF QuietWrite, Succeeds
      <3> QED
        BY <2>1, <3>1, <3>2, <3>5 DEF QuietOf, QuietRead, QuietClean
    <2> QED
      BY <2>2, <2>3
  <1>3. CASE DataAccepted(t)
    <2>1. /\ pc[t] = "accept" /\ op[t] = "write" /\ op'[t] = op[t] /\ At(t) \in Sectors
          /\ card' = [card EXCEPT ![At(t)] = call[t].moved]
      BY <1>3, <1>c DEF DataAccepted, Set, callVars, PathOf
    <2>2. /\ Written(t, call[t].k) /\ call[t].target = call[t].sector
          /\ call[t].moved = Chunk(call[t].val, call[t].k, Copied(call[t].len, call[t].k))
      BY <2>1 DEF QuietOf, QuietWrite
    <2>3. \A j \in 0 .. call[t].k :
            card'[call[t].sector + j] = Chunk(call[t].val, j, Copied(call[t].len, j))
      <3>1. TAKE j \in 0 .. call[t].k
      <3>2. CASE j = call[t].k
        BY <3>2, <2>1, <2>2, <1>a DEF At
      <3>3. CASE j # call[t].k
        <4>1. j \in 0 .. call[t].k - 1 /\ call[t].sector + j # At(t)
          BY <3>3, <1>d, <2>2 DEF At
        <4>2. card'[call[t].sector + j] = card[call[t].sector + j]
          <5>1. call[t].sector + j \in Sectors
            BY <4>1, <1>c, <1>d, <2>1, SizeAssumption DEF Sectors, ShapeOf
          <5> QED
            BY <5>1, <4>1, <2>1, <1>a
        <4> QED
          BY <4>1, <4>2, <2>2 DEF Written
      <3> QED
        BY <3>2, <3>3
    <2>4. CASE call[t].k + 1 < Total(call[t].len)
      <3>1. pc'[t] = "fill" /\ call'[t] = [call[t] EXCEPT !.k = @ + 1]
        BY <1>3, <1>a, <1>d, <2>4 DEF DataAccepted, Goto, Set
      <3>2. /\ call'[t].k = call[t].k + 1
            /\ call'[t].sector = call[t].sector /\ call'[t].target = call[t].target
            /\ call'[t].len = call[t].len /\ call'[t].val = call[t].val
        BY <3>1, <1>a DEF Calls
      <3>3. Written(t, call[t].k)'
        <4>1. call'[t].k - 1 = call[t].k
          BY <1>d, <3>2
        <4> QED
          BY <2>3, <3>2, <4>1 DEF Written
      <3>4. QuietWrite(t)'
        BY <2>1, <3>1, <3>2, <3>3 DEF QuietWrite, Succeeds
      <3> QED
        BY <2>1, <2>2, <3>1, <3>2, <3>4 DEF QuietOf, QuietRead, QuietClean
    <2>5. CASE call[t].k + 1 = Total(call[t].len)
      <3>1. pc'[t] = "done" /\ call'[t] = call[t]
        BY <1>3, <1>a, <1>d, <2>5 DEF DataAccepted, Goto, callVars
      <3>2. Written(t, Total(call[t].len))'
        BY <1>d, <2>3, <2>5, <3>1 DEF Written
      <3> QED
        BY <2>1, <3>1, <3>2 DEF QuietOf, QuietWrite, QuietRead, QuietClean, Succeeds
    <2> QED
      BY <1>3, <2>4, <2>5 DEF DataAccepted
  <1>4. CASE DataRejected(t)
    BY <1>4, <1>c, FailReturnQuiet DEF DataRejected, PathOf
  <1> QED
    BY <1>1, <1>2, <1>3, <1>4 DEF WriteBlock

\* The blocks of a read: each one that passes the checksum is the next of the
\* call's sectors.
LEMMA ReadQuiet ==
  ASSUME TypeOK, LockInv, NEW t \in Tasks, CallOf(t), QuietOf(t), spi_bus' = spi_bus, ReadBlock(t)
  PROVE  QuietOf(t)'
  <1>a. /\ pc \in [Tasks -> Locations] /\ op \in [Tasks -> Ops \cup {"none"}]
        /\ call \in [Tasks -> Calls] /\ call[t] \in Calls
    BY DEF TypeOK
  <1>c. PathOf(t) /\ HeapOf(t) /\ ShapeOf(t)
    BY DEF CallOf
  <1>d. call[t].k \in Nat /\ Total(call[t].len) \in Nat
    BY <1>a, TotalIsPositive DEF Calls
  <1>1. CASE AwaitToken(t)
    <2>1. /\ pc[t] = "token" /\ pc'[t] = "data" /\ op'[t] = op[t] /\ call'[t] = call[t] /\
                 card' = card
          /\ op[t] = "read" /\ t \notin shifted'
      BY <1>1, <1>a, <1>c DEF AwaitToken, Goto, callVars, cardVars, PathOf
    <2>2. \A n : Delivered(t, n)' = Delivered(t, n)
      BY <2>1 DEF Delivered
    <2>3. QuietRead(t)'
      BY <2>1, <2>2 DEF QuietOf, QuietRead
    <2> QED
      BY <2>1, <2>3 DEF QuietOf, QuietWrite, QuietClean, Succeeds
  <1>2. CASE NoToken(t) \/ CrcMismatch(t)
    BY <1>2, <1>c, FailReturnQuiet DEF NoToken, CrcMismatch, PathOf
  <1>3. CASE ReceiveBlock(t)
    <2>1. /\ pc[t] = "data" /\ op[t] = "read" /\ op'[t] = op[t] /\ card' = card
      BY <1>3, <1>c DEF ReceiveBlock, Set, callVars, cardVars, PathOf
    <2>2. t \notin shifted'
      BY <1>3, <2>1, OwnFrame DEF ReceiveBlock, QuietOf
    <2>3. CASE call[t].heap = "freed"
      <3>1. pc'[t] = "corrupt"
        BY <1>3, <1>a, <2>3 DEF ReceiveBlock, Goto
      <3> QED
        BY <2>1, <3>1, QuietElsewhere
    <2>4. CASE call[t].heap # "freed"
      <3>1. pc'[t] = "crc"
        BY <1>3, <1>a, <2>4 DEF ReceiveBlock, Goto
      <3>2. call' = [call EXCEPT ![t] = [call[t] EXCEPT
                                           !.moved = card[At(t)], !.got = Received(t,
                                               internal_buffer'),
                                           !.heap = IF @ = "live" THEN "freed" ELSE @]]
        BY <1>3, <2>4 DEF ReceiveBlock, Set
      <3>3. /\ call'[t].moved = card[At(t)] /\ call'[t].k = call[t].k
            /\ call'[t].got = Received(t, internal_buffer')
            /\ call'[t].sector = call[t].sector /\ call'[t].target = call[t].target
            /\ call'[t].len = call[t].len /\ call'[t].stop = call[t].stop
        BY <3>2, <1>a DEF Calls
      <3>4. At(t) = call[t].sector + call[t].k /\ call[t].target = call[t].sector
        BY <2>1 DEF QuietOf, At
      <3>5. \A n : Delivered(t, n)' = Delivered(t, n)
        BY <2>1, <3>3 DEF Delivered
      <3>6. ASSUME spi_bus = "SPI_BITBANG"
            PROVE  call'[t].got = Append(Delivered(t, call[t].k),
                                         <<internal_buffer', Want(call[t].len, call[t].k)>>)
        BY <2>1, <3>3, <3>6 DEF QuietOf, QuietRead, Received
      <3>7. QuietRead(t)'
        BY <2>1, <3>1, <3>3, <3>4, <3>5, <3>6 DEF QuietRead
      <3> QED
        BY <2>1, <2>2, <3>1, <3>3, <3>4, <3>7 DEF QuietOf, QuietWrite, QuietClean, Succeeds
    <2> QED
      BY <2>3, <2>4
  <1>4. CASE CrcMatches(t)
    <2>1. /\ pc[t] = "crc" /\ op[t] = "read" /\ op'[t] = op[t] /\ card' = card
          /\ internal_buffer = call[t].moved /\ call[t].target = call[t].sector
      BY <1>4, <1>c DEF CrcMatches, Set, Verified, cardVars, PathOf, QuietOf
    <2>2. spi_bus = "SPI_BITBANG" => call[t].got = Delivered(t, call[t].k + 1)
      <3>1. SUFFICES ASSUME spi_bus = "SPI_BITBANG"
                     PROVE  call[t].got = Delivered(t, call[t].k + 1)
        OBVIOUS
      <3>2. /\ internal_buffer = card[call[t].sector + call[t].k]
            /\ call[t].got = Append(Delivered(t, call[t].k),
                                    <<internal_buffer, Want(call[t].len, call[t].k)>>)
        BY <2>1, <3>1 DEF QuietOf, QuietRead
      <3> QED
        BY <1>d, <3>2, DeliveredOneMore
    <2>3. CASE call[t].k + 1 < Total(call[t].len)
      <3>1. pc'[t] = "token" /\ call'[t] = [call[t] EXCEPT !.k = @ + 1]
        BY <1>4, <1>a, <1>d, <2>3 DEF CrcMatches, Goto, Set
      <3>2. /\ call'[t].k = call[t].k + 1 /\ call'[t].got = call[t].got
            /\ call'[t].sector = call[t].sector /\ call'[t].target = call[t].target
            /\ call'[t].len = call[t].len
        BY <3>1, <1>a DEF Calls
      <3>3. \A n : Delivered(t, n)' = Delivered(t, n)
        BY <2>1, <3>2 DEF Delivered
      <3>4. QuietRead(t)'
        BY <2>1, <2>2, <3>1, <3>2, <3>3 DEF QuietRead
      <3> QED
        BY <2>1, <3>1, <3>2, <3>4 DEF QuietOf, QuietWrite, QuietClean, Succeeds
    <2>4. CASE call[t].k + 1 = Total(call[t].len)
      <3> DEFINE several == call[t].len > BLOCK_SIZE
      <3>1. /\ call' = [call EXCEPT ![t] = [call[t] EXCEPT !.stop = several]]
            /\ pc'[t] \in {"cmd", "done"}
        BY <1>4, <1>a, <1>d, <2>4 DEF CrcMatches, Goto, Set
      <3>2. /\ call'[t].got = call[t].got /\ call'[t].sector = call[t].sector
            /\ call'[t].len = call[t].len
        BY <3>1, <1>a DEF Calls
      <3>3. \A n : Delivered(t, n)' = Delivered(t, n)
        BY <2>1, <3>2 DEF Delivered
      <3>4. QuietRead(t)'
        BY <2>1, <2>2, <2>4, <3>1, <3>2, <3>3 DEF QuietRead
      <3> QED
        BY <2>1, <3>1, <3>4 DEF QuietOf, QuietWrite, QuietClean, Succeeds
    <2> QED
      BY <1>4, <2>3, <2>4 DEF CrcMatches
  <1> QED
    BY <1>1, <1>2, <1>3, <1>4 DEF ReadBlock

\* The ends of the calls and the register read.
LEMMA EndingQuiet ==
  ASSUME TypeOK, LockInv, NEW t \in Tasks, CallOf(t), QuietOf(t), Ending(t) \/ ReadRegister(t)
  PROVE  QuietOf(t)'
  <1>a. /\ pc \in [Tasks -> Locations] /\ op \in [Tasks -> Ops \cup {"none"}]
        /\ call \in [Tasks -> Calls] /\ call[t] \in Calls
    BY DEF TypeOK
  <1>c. PathOf(t) /\ HeapOf(t) /\ ShapeOf(t)
    BY DEF CallOf
  <1>1. CASE EraseBusy(t)
    <2>1. /\ pc[t] = "busy" /\ pc'[t] = "done" /\ op'[t] = op[t] /\ call'[t] = call[t] /\ card' =
                 card
          /\ op[t] \in {"erase", "clean"} /\ total_sectors' = total_sectors
      BY <1>1, <1>a, <1>c DEF EraseBusy, Goto, callVars, cardVars, PathOf
    <2>2. QuietClean(t)'
      BY <2>1 DEF QuietOf, QuietClean, SizeTooSmall
    <2> QED
      BY <2>1, <2>2 DEF QuietOf, QuietWrite, QuietRead, Succeeds
  <1>2. CASE Done(t) \/ RegisterRead(t)
    BY <1>2, <1>c, FailReturnQuiet DEF Done, RegisterRead
  <1>3. CASE FailUnlock(t) \/ FailDeselect(t)
    <2>1. pc'[t] \in {"deselect", "stray"} /\ op'[t] # "clean"
      BY <1>3, <1>a, <1>c DEF FailUnlock, FailDeselect, Goto, callVars, PathOf
    <2> QED
      BY <2>1, QuietElsewhere
  <1>4. CASE FailReturn(t)
    <2>1. pc'[t] \in {"idle", "corrupt"} /\ op'[t] # "clean"
      BY <1>4, <1>a, <1>c DEF FailReturn, Return, Goto, callVars, PathOf
    <2> QED
      BY <2>1, QuietElsewhere
  <1>5. CASE RegisterToken(t)
    <2>1. pc'[t] = "regdata" /\ op'[t] # "clean"
      BY <1>5, <1>a DEF RegisterToken, Goto, callVars, LockInv, OpsInv
    <2> QED
      BY <2>1, QuietElsewhere
  <1> QED
    BY <1>1, <1>2, <1>3, <1>4, <1>5 DEF Ending, ReadRegister

\* Every step keeps what is true of the calls that are not disturbed.
LEMMA NextQuietInv ==
  ASSUME TypeOK, LockInv, CallInv, BufferIsOwn, QuietInv,
         NEW t \in Tasks, Call(t) \/ Progress(t), Observe(t)
  PROVE  QuietInv'
  <1>1. ASSUME t \notin disturbed' PROVE QuietOf(t)'
    <2>1. CASE Call(t)
      BY <2>1, CallsQuiet
    <2>2. CASE Progress(t)
      <3>1. pc[t] # "idle"
        BY <2>2 DEF Progress, TakeLock, Alloc, Command, SendCommand, Accepted, Refused,
         StopTransmission, WriteBlock, Fill, Send, DataAccepted, DataRejected, ReadBlock,
             AwaitToken,
         NoToken, ReceiveBlock, CrcMatches, CrcMismatch, Ending, EraseBusy, Done, FailUnlock,
         FailDeselect, FailReturn, ReadRegister, RegisterToken, RegisterRead
      <3>2. t \notin disturbed
        BY <1>1, <3>1 DEF Observe
      <3>3. CallOf(t) /\ QuietOf(t) /\ spi_bus' = spi_bus
        BY <3>2 DEF CallInv, QuietInv, Observe
      <3> QED
        BY <2>2, <3>2, <3>3, LockQuiet, ResponseQuiet, WriteQuiet, ReadQuiet, EndingQuiet
        DEF Progress, Command
    <2> QED
      BY <2>1, <2>2
  <1>2. ASSUME NEW u \in Tasks \ disturbed', u # t PROVE QuietOf(u)'
    BY <1>2, OthersQuiet
  <1> QED
    BY <1>1, <1>2 DEF QuietInv

\* What the invariant says of a call that is about to return success.
LEMMA QuietIsDone == TypeOK /\ QuietInv => OkMeansDone
  <1> SUFFICES ASSUME TypeOK, QuietInv PROVE OkMeansDone
    OBVIOUS
  <1>1. ASSUME NEW t \in Tasks \ disturbed, Succeeds(t, "write"),
               call[t].len > BLOCK_SIZE => call[t].len % BLOCK_SIZE # 0
        PROVE  Stored(t)
    <2>1. Written(t, Total(call[t].len))
      BY <1>1 DEF QuietInv, QuietOf, QuietWrite
    <2>2. call[t].len \in Nat
      BY <1>1 DEF TypeOK, Calls
    <2>3. \A k \in 0 .. Total(call[t].len) - 1 : Copied(call[t].len, k) = Want(call[t].len, k)
      BY <1>1, <2>2, CopiedIsWanted
    <2> QED
      BY <2>1, <2>3 DEF Written, Stored
  <1>2. ASSUME NEW t \in Tasks \ disturbed, spi_bus = "SPI_BITBANG", Succeeds(t, "read")
        PROVE  call[t].got = Delivered(t, Total(call[t].len))
    BY <1>2 DEF QuietInv, QuietOf, QuietRead, Succeeds
  <1>3. ASSUME NEW t \in Tasks \ disturbed, Succeeds(t, "clean"), ~SizeTooSmall
        PROVE  \A s \in Sectors : card[s] = Erased
    BY <1>3 DEF QuietInv, QuietOf, QuietClean, Succeeds
  <1>4. QuietWriteIsStored
    BY <1>1 DEF QuietWriteIsStored
  <1>5. QuietReadIsContent
    BY <1>2 DEF QuietReadIsContent, Delivered
  <1>6. OkCleanErasesCard
    BY <1>3 DEF OkCleanErasesCard
  <1> QED
    BY <1>4, <1>5, <1>6 DEF OkMeansDone

\* Success means done, for every number of tasks and sectors, every length and
\* every fault of the card: a write that is about to return QAPI_OK has stored
\* the caller's bytes, a read on the bit-banged bus has delivered its sectors,
\* and sdcard_clean() has erased the card, unless another task was on the bus
\* without the mutex during the call.
THEOREM OkMeansDoneHolds == Spec => []OkMeansDone
  <1> DEFINE Inv == CleanInv /\ BufferIsOwn /\ QuietInv
  <1>1. Init => Inv
    <2>1. Init => QuietInv /\ BufferIsOwn
      BY DEF Init, QuietInv, QuietOf, QuietWrite, QuietRead, QuietClean, Succeeds, BufferIsOwn
    <2> QED
      BY <2>1, CleanInvariant
  <1>2. Inv /\ [Next]_vars => Inv'
    <2>1. ASSUME Inv, UNCHANGED vars PROVE QuietInv'
      <3>1. \A t, n : (Written(t, n) <=> Written(t, n)') /\ Delivered(t, n)' = Delivered(t, n)
        BY <2>1 DEF vars, Written, Delivered
      <3> QED
        BY <2>1, <3>1 DEF vars, QuietInv, QuietOf, QuietWrite, QuietRead, QuietClean,
               SizeTooSmall, Succeeds
    <2>2. ASSUME Inv, Next PROVE QuietInv'
      BY <2>2, NextQuietInv DEF Next, Step, CleanInv
    <2> QED
      BY <2>1, <2>2, CleanInvariant, NextBufferInv DEF CleanInv
  <1>3. Inv => OkMeansDone
    BY QuietIsDone DEF CleanInv
  <1> QED
    BY <1>1, <1>2, <1>3, PTL DEF Spec

====
