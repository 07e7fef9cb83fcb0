-------------------------------- MODULE SdCard --------------------------------
(***************************************************************************)
(* The SD card driver of src/SD_CARD/src/device/sd_card_core.c after       *)
(* sdcard_init(): tasks that call sdcard_write(), sdcard_read(),           *)
(* sdcard_erase(), sdcard_clean() and sdcard_find_total_sector() on one    *)
(* card.  A call on a card whose status is SD_UNINITIALIZED_E or           *)
(* SD_FAILED_E returns before it changes anything; only the other states   *)
(* are modelled.                                                           *)
(*                                                                         *)
(* The three data operations hold sdcard->mutex; the register read does    *)
(* not.  Most error paths release the mutex first and only then raise the  *)
(* chip select and clock one more byte, so that another task's frame can   *)
(* be cut or shifted.  A cut frame or block is lost.  A shifted command    *)
(* carries another sector; a shifted block ends in an error response.  The *)
(* driver's CRC16 is assumed to tell a damaged block from a good one.      *)
(*                                                                         *)
(* A block of data is [val, blk, n]: the first n bytes of block blk of the *)
(* caller's buffer val, zero filled.  The byte counters and speeds are     *)
(* left out.                                                               *)
(***************************************************************************)
EXTENDS Integers, Sequences

CONSTANTS
  Tasks, NoTask,
  Buses,        \* what spi_bus may be
  BLOCK_SIZE,
  NSectors,     \* sectors of the card
  UINT32,       \* the modulus of uint32_t, above NSectors
  Lengths,      \* lengths callers pass
  Values,       \* buffers callers pass
  Ops,          \* operations callers use
  CardFaults,   \* what the card may do wrong: "cmd", "reject", "token", "crc"
  AllocFails    \* whether buff_alloc() may return NULL

ASSUME SizeAssumption ==
  /\ BLOCK_SIZE \in Nat \ {0}
  /\ NSectors \in Nat \ {0}
  /\ UINT32 \in Nat /\ UINT32 > NSectors
ASSUME BusAssumption == Buses \subseteq {"SPI_BITBANG", "SPI_PERIPHERAL"}
ASSUME TaskAssumption == NoTask \notin Tasks
ASSUME OpsAssumption == Ops \subseteq {"write", "read", "erase", "clean", "register"}
ASSUME LengthAssumption == Lengths \subseteq Nat

VARIABLES
  spi_bus,
  mutex,            \* sdcard->mutex
  cs,               \* the chip select line
  shifted,          \* tasks whose frame or block holds another task's byte
  internal_buffer,
  card,             \* the content of each sector
  served,           \* the task whose command the card took last
  total_sectors,    \* sdcard->total_sectors
  pc,
  op,               \* the operation each task calls
  call,             \* the arguments and locals of that call
  disturbed         \* history: tasks in a call during which another task used the bus unlocked

vars ==
  <<spi_bus, mutex, cs, shifted, internal_buffer, card, served, total_sectors, pc, op, call,
    disturbed>>

Sectors == 0 .. NSectors - 1

Block(v, k, n) == [val |-> v, blk |-> k, n |-> n]
Zero == Block("zero", 0, 0)
Erased == Block("erased", 0, BLOCK_SIZE)
Garbage == Block("garbage", 0, BLOCK_SIZE)
Register == Block("register", 0, BLOCK_SIZE)

NoCall ==
  [len |-> 0, sector |-> 0, last |-> 0, val |-> "zero",
   k |-> 0, target |-> 0, end |-> 0, stop |-> FALSE, moved |-> Zero, got |-> <<>>,
   heap |-> "none", frees |-> FALSE]

Init ==
  /\ spi_bus \in Buses
  /\ mutex = NoTask
  /\ cs = "high"
  /\ shifted = {}
  /\ internal_buffer = Zero
  /\ card = [s \in Sectors |-> Erased]
  /\ served = NoTask
  /\ total_sectors = 0
  /\ pc = [t \in Tasks |-> "idle"]
  /\ op = [t \in Tasks |-> "none"]
  /\ call = [t \in Tasks |-> NoCall]
  /\ disturbed = {}

-----------------------------------------------------------------------------
Total(len) ==
  IF len <= BLOCK_SIZE THEN 1
  ELSE len \div BLOCK_SIZE + (IF len % BLOCK_SIZE = 0 THEN 0 ELSE 1)

\* The bytes sdcard_write() copies into internal_buffer for block k.
Copied(len, k) ==
  IF len # BLOCK_SIZE /\ k = Total(len) - 1 THEN len % BLOCK_SIZE ELSE BLOCK_SIZE

Chunk(v, k, n) == IF n = 0 THEN Zero ELSE Block(v, k, n)

Goto(t, l) == pc' = [pc EXCEPT ![t] = l]
Set(t, c) == call' = [call EXCEPT ![t] = c] /\ UNCHANGED op

\* t calls operation o; c holds its arguments.
Begin(t, o, c) ==
  /\ op' = [op EXCEPT ![t] = o]
  /\ call' = [call EXCEPT ![t] = [c EXCEPT !.heap = call[t].heap]]

\* The call returns; a buffer that was not freed stays allocated.
Return(t) ==
  /\ Goto(t, "idle")
  /\ op' = [op EXCEPT ![t] = "none"]
  /\ call' = [call EXCEPT ![t] =
                [NoCall EXCEPT !.heap = IF call[t].heap = "live" THEN "live" ELSE "none"]]

\* A write or a read fails; free() follows on some of the paths.
Fail(t, frees) ==
  /\ Goto(t, "fail")
  /\ Set(t, [call[t] EXCEPT !.frees = frees])

\* The tasks in the middle of a frame or a block.
Midway == {u \in Tasks : pc[u] \in {"resp", "accept", "data", "crc", "regdata"}}

\* t starts a frame or a block of its own on the bus.
StartFrame(t) == shifted' = (shifted \cup Midway) \ {t}

\* t clocks bytes: with the card selected they end up in the others' frames.
Clock(t) == shifted' = shifted \cup (IF cs = "low" THEN Midway \ {t} ELSE {})

busVars == <<cs, shifted>>
cardVars == <<card, served>>
callVars == <<op, call>>

-----------------------------------------------------------------------------
(* Calls, the lock and the buffers of the peripheral bus                   *)

Transfer(t) ==
  \E o \in Ops \cap {"write", "read"}, len \in Lengths, s \in Sectors, v \in Values :
    /\ s + Total(len) <= NSectors
    /\ Begin(t, o, [NoCall EXCEPT !.len = len, !.sector = s,
                                  !.val = IF o = "write" THEN v ELSE "zero"])

Erase(t) ==
  /\ "erase" \in Ops
  /\ \E s \in Sectors : \E e \in s .. NSectors - 1 :
       Begin(t, "erase", [NoCall EXCEPT !.sector = s, !.last = e])

\* Mutant of LastSector: one sector short.
MutLastSector == (total_sectors + UINT32 - 2) % UINT32

\* total_sectors - 1, in 32 bits.
LastSector == (total_sectors + UINT32 - 1) % UINT32

Clean(t) ==
  /\ "clean" \in Ops
  /\ Begin(t, "clean", [NoCall EXCEPT !.last = LastSector])

\* The three that take the lock.
CallLocked(t) ==
  /\ pc[t] = "idle"
  /\ Transfer(t) \/ Erase(t) \/ Clean(t)
  /\ Goto(t, "lock")
  /\ UNCHANGED <<mutex, busVars, internal_buffer, cardVars, total_sectors>>

\* sdcard_find_total_sector() reads the CSD register, without the lock.
FindTotalSector(t) ==
  /\ pc[t] = "idle"
  /\ "register" \in Ops
  /\ Begin(t, "register", NoCall)
  /\ Goto(t, "cmd")
  /\ UNCHANGED <<mutex, busVars, internal_buffer, cardVars, total_sectors>>

\* Mutant of Lockable: the result of qurt_mutex_lock_timed() is ignored.
MutLockable(t) == TRUE

Lockable(t) == mutex = NoTask

TakeLock(t) ==
  /\ pc[t] = "lock"
  /\ Lockable(t)
  /\ mutex' = t
  /\ Goto(t, IF spi_bus = "SPI_PERIPHERAL" /\ op[t] \in {"write", "read"}
             THEN "alloc" ELSE "cmd")
  /\ UNCHANGED <<busVars, internal_buffer, cardVars, total_sectors, callVars>>

\* When buff_alloc() returns NULL the call returns with the mutex held.
Alloc(t) ==
  /\ pc[t] = "alloc"
  /\ \/ Set(t, [call[t] EXCEPT !.heap = "live"]) /\ Goto(t, "cmd")
     \/ AllocFails /\ Return(t)
  /\ UNCHANGED <<mutex, busVars, internal_buffer, cardVars, total_sectors>>

-----------------------------------------------------------------------------
(* sdcard_command()                                                        *)

SendCommand(t) ==
  /\ pc[t] = "cmd"
  /\ cs' = "low"
  /\ StartFrame(t)
  /\ Goto(t, "resp")
  /\ UNCHANGED <<mutex, internal_buffer, cardVars, total_sectors, callVars>>

\* The sector the card understands.
Heard(t, arg) == IF t \in shifted THEN Sectors ELSE {arg} \cap Sectors

Erasing(t) == op[t] \in {"erase", "clean"}

\* R1 is 0: the card does what it understood, in place of any earlier command.
\* An erase is three commands, the first and the last sector and the start.
Accepted(t) ==
  /\ pc[t] = "resp" /\ ~call[t].stop
  /\ cs = "low" /\ cs' = "high"
  /\ served' = t
  /\ Clock(t)
  /\ \/ /\ ~Erasing(t)
        /\ \E s \in Heard(t, call[t].sector) : Set(t, [call[t] EXCEPT !.target = s])
        /\ Goto(t, CASE op[t] = "write" -> "fill"
                     [] op[t] = "read" -> "token"
                     [] OTHER -> "regtoken")
        /\ UNCHANGED card
     \/ /\ Erasing(t) /\ call[t].k < 2
        /\ \/ /\ call[t].k = 0
              /\ \E s \in Heard(t, call[t].sector) :
                   Set(t, [call[t] EXCEPT !.target = s, !.k = 1])
           \/ /\ call[t].k = 1
              /\ \E s \in Heard(t, call[t].last) :
                   Set(t, [call[t] EXCEPT !.end = s, !.k = 2])
        /\ Goto(t, "cmd")
        /\ UNCHANGED card
     \/ /\ Erasing(t) /\ call[t].k = 2
        /\ card' = [s \in Sectors |->
                      IF s \in call[t].target .. call[t].end THEN Erased ELSE card[s]]
        /\ Goto(t, "busy")
        /\ UNCHANGED callVars
  /\ UNCHANGED <<mutex, internal_buffer, total_sectors>>

\* R1 is not 0: the card refuses, or never saw the command (0xFF).
NotHeard(t) ==
  \/ cs = "high" \/ t \in shifted \/ "cmd" \in CardFaults
  \/ Erasing(t) /\ call[t].k = 1 /\ call[t].last \notin Sectors

Refused(t) ==
  /\ pc[t] = "resp" /\ ~call[t].stop
  /\ NotHeard(t)
  /\ cs' = "high"
  /\ Clock(t)
  /\ \/ op[t] \in {"write", "read"} /\ Fail(t, TRUE) /\ UNCHANGED mutex
     \/ Erasing(t) /\ Return(t) /\ mutex' = NoTask
     \/ op[t] = "register" /\ Return(t) /\ UNCHANGED mutex
  /\ UNCHANGED <<internal_buffer, cardVars, total_sectors>>

\* CMD12 ends a read of several blocks; any other response than 0 selects the
\* card again until it is no longer busy.
StopTransmission(t) ==
  /\ pc[t] = "resp" /\ op[t] = "read" /\ call[t].stop
  /\ \/ cs = "low" /\ cs' = "high"
     \/ NotHeard(t) /\ cs' = "low"
  /\ Clock(t)
  /\ Goto(t, "done")
  /\ UNCHANGED <<mutex, internal_buffer, cardVars, total_sectors, callVars>>

-----------------------------------------------------------------------------
(* The block loops of sdcard_write() and sdcard_read()                     *)

\* The card is selected once, before the first block.
Select(t) == cs' = IF call[t].k = 0 THEN "low" ELSE cs

At(t) == call[t].target + call[t].k

Fill(t) ==
  /\ pc[t] = "fill"
  /\ internal_buffer' = Chunk(call[t].val, call[t].k, Copied(call[t].len, call[t].k))
  /\ Select(t)
  /\ Goto(t, "send")
  /\ UNCHANGED <<mutex, shifted, cardVars, total_sectors, callVars>>

\* The token and internal_buffer go out.  The peripheral bus sends it through
\* temp, which is freed after every block.
Send(t) ==
  /\ pc[t] = "send"
  /\ \/ /\ call[t].heap # "freed"
        /\ Set(t, [call[t] EXCEPT !.moved = internal_buffer,
                                  !.heap = IF @ = "live" THEN "freed" ELSE @])
        /\ Goto(t, "accept")
     \/ /\ call[t].heap = "freed"
        /\ Goto(t, "corrupt")
        /\ UNCHANGED callVars
  /\ StartFrame(t)
  /\ UNCHANGED <<mutex, cs, internal_buffer, cardVars, total_sectors>>

\* The data response is 0x05: the block is stored.  After the last block of a
\* multiple write the end token 0xFD goes out and the card is awaited.
DataAccepted(t) ==
  /\ pc[t] = "accept"
  /\ cs = "low" /\ t \notin shifted /\ served = t
  /\ At(t) \in Sectors
  /\ card' = [card EXCEPT ![At(t)] = call[t].moved]
  /\ \/ /\ call[t].k + 1 < Total(call[t].len)
        /\ Goto(t, "fill")
        /\ Set(t, [call[t] EXCEPT !.k = @ + 1])
     \/ /\ call[t].k + 1 = Total(call[t].len)
        /\ Goto(t, "done")
        /\ UNCHANGED callVars
  /\ Clock(t)
  /\ UNCHANGED <<mutex, cs, internal_buffer, served, total_sectors>>

\* Another response: a shifted block may have been stored all the same.
DataRejected(t) ==
  /\ pc[t] = "accept"
  /\ \/ /\ cs = "high" \/ served # t \/ "reject" \in CardFaults \/ At(t) \notin Sectors
        /\ UNCHANGED card
     \/ /\ t \in shifted /\ served = t /\ At(t) \in Sectors
        /\ \E b \in {call[t].moved, Garbage} : card' = [card EXCEPT ![At(t)] = b]
  /\ Fail(t, FALSE)
  /\ Clock(t)
  /\ UNCHANGED <<mutex, cs, internal_buffer, served, total_sectors>>

AwaitToken(t) ==
  /\ pc[t] = "token"
  /\ internal_buffer' = Zero
  /\ Select(t)
  /\ shifted' = shifted \ {t}
  /\ Goto(t, "data")
  /\ UNCHANGED <<mutex, cardVars, total_sectors, callVars>>

\* Mutant of NoToken: the wait for the token has no bound.
MutNoTokenWaits(t) ==
  /\ pc[t] = "data"
  /\ \/ cs = "high" \/ served # t \/ t \in shifted \/ "token" \in CardFaults
     \/ At(t) \notin Sectors
  /\ Clock(t)
  /\ UNCHANGED <<mutex, cs, internal_buffer, cardVars, total_sectors, pc, callVars>>

\* 255 bytes without a start token.
NoToken(t) ==
  /\ pc[t] = "data"
  /\ \/ cs = "high" \/ served # t \/ t \in shifted \/ "token" \in CardFaults
     \/ At(t) \notin Sectors
  /\ Fail(t, TRUE)
  /\ Clock(t)
  /\ UNCHANGED <<mutex, cs, internal_buffer, cardVars, total_sectors>>

Want(len, k) ==
  LET left == len - k * BLOCK_SIZE IN IF left < BLOCK_SIZE THEN left ELSE BLOCK_SIZE

\* The bit-banged bus stores at most len bytes, block after block; the
\* peripheral bus copies every block whole to the start of data.
Received(t, b) ==
  IF spi_bus = "SPI_BITBANG"
  THEN Append(call[t].got, <<b, Want(call[t].len, call[t].k)>>)
  ELSE <<<<b, BLOCK_SIZE>>>>

ReceiveBlock(t) ==
  /\ pc[t] = "data"
  /\ cs = "low" /\ served = t /\ At(t) \in Sectors
  /\ \/ /\ call[t].heap # "freed"
        /\ \E b \in {card[At(t)]} \cup
                    (IF t \in shifted \/ "crc" \in CardFaults THEN {Garbage} ELSE {}) :
             /\ internal_buffer' = b
             /\ Set(t, [call[t] EXCEPT !.moved = card[At(t)],
                                       !.got = Received(t, b),
                                       !.heap = IF @ = "live" THEN "freed" ELSE @])
        /\ Goto(t, "crc")
     \/ /\ call[t].heap = "freed"
        /\ Goto(t, "corrupt")
        /\ UNCHANGED <<internal_buffer, callVars>>
  /\ Clock(t)
  /\ UNCHANGED <<mutex, cs, cardVars, total_sectors>>

\* The checksum of internal_buffer is that of the block the card sent.
Verified(t) == cs = "low" /\ internal_buffer = call[t].moved

CrcMatches(t) ==
  /\ pc[t] = "crc"
  /\ Verified(t)
  /\ \/ /\ call[t].k + 1 < Total(call[t].len)
        /\ Set(t, [call[t] EXCEPT !.k = @ + 1])
        /\ Goto(t, "token")
     \/ /\ call[t].k + 1 = Total(call[t].len)
        /\ Set(t, [call[t] EXCEPT !.stop = call[t].len > BLOCK_SIZE])
        /\ Goto(t, IF call[t].len > BLOCK_SIZE THEN "cmd" ELSE "done")
  /\ Clock(t)
  /\ UNCHANGED <<mutex, cs, internal_buffer, cardVars, total_sectors>>

CrcMismatch(t) ==
  /\ pc[t] = "crc"
  /\ t \in shifted \/ ~Verified(t)
  /\ Fail(t, FALSE)
  /\ Clock(t)
  /\ UNCHANGED <<mutex, cs, internal_buffer, cardVars, total_sectors>>

-----------------------------------------------------------------------------
(* The ends of the calls                                                   *)

\* The erased card is selected until it is no longer busy.
EraseBusy(t) ==
  /\ pc[t] = "busy"
  /\ cs' = "low"
  /\ StartFrame(t)
  /\ Goto(t, "done")
  /\ UNCHANGED <<mutex, internal_buffer, cardVars, total_sectors, callVars>>

\* Mutant of Done: the card stays selected.
MutDoneSelected(t) ==
  /\ pc[t] = "done"
  /\ Clock(t)
  /\ mutex' = NoTask
  /\ Return(t)
  /\ UNCHANGED <<cs, internal_buffer, cardVars, total_sectors>>

\* Success: the chip select is raised before the mutex is released.
Done(t) ==
  /\ pc[t] = "done"
  /\ cs' = "high"
  /\ Clock(t)
  /\ mutex' = NoTask
  /\ Return(t)
  /\ UNCHANGED <<internal_buffer, cardVars, total_sectors>>

\* Mutant of FailUnlock: the release is missing.
MutFailNoUnlock(t) ==
  /\ pc[t] = "fail"
  /\ Goto(t, "deselect")
  /\ UNCHANGED <<mutex, busVars, internal_buffer, cardVars, total_sectors, callVars>>

\* Failure of a write or a read: the mutex is released first ...
FailUnlock(t) ==
  /\ pc[t] = "fail"
  /\ mutex' = NoTask
  /\ Goto(t, "deselect")
  /\ UNCHANGED <<busVars, internal_buffer, cardVars, total_sectors, callVars>>

\* ... then the chip select is raised ...
FailDeselect(t) ==
  /\ pc[t] = "deselect"
  /\ cs' = "high"
  /\ Goto(t, "stray")
  /\ UNCHANGED <<mutex, shifted, internal_buffer, cardVars, total_sectors, callVars>>

\* ... and one more byte is clocked, and the buffers are freed on some paths.
FailReturn(t) ==
  /\ pc[t] = "stray"
  /\ Clock(t)
  /\ \/ /\ call[t].frees /\ call[t].heap = "freed"
        /\ Goto(t, "corrupt")
        /\ UNCHANGED callVars
     \/ /\ call[t].frees /\ call[t].heap # "freed"
        /\ Goto(t, "idle")
        /\ op' = [op EXCEPT ![t] = "none"]
        /\ call' = [call EXCEPT ![t] = NoCall]
     \/ ~call[t].frees /\ Return(t)
  /\ UNCHANGED <<mutex, cs, internal_buffer, cardVars, total_sectors>>

-----------------------------------------------------------------------------
(* sdcard_register_info() after its command                                *)

RegisterToken(t) ==
  /\ pc[t] = "regtoken"
  /\ cs' = "low"
  /\ internal_buffer' = Zero
  /\ shifted' = shifted \ {t}
  /\ Goto(t, "regdata")
  /\ UNCHANGED <<mutex, cardVars, total_sectors, callVars>>

\* Nothing checks the register: from the first byte that is lost to another task
\* or comes in after the card was deselected the size is made of other bits.
Undisturbed(t) == cs = "low" /\ served = t /\ t \notin shifted

RegisterRead(t) ==
  /\ pc[t] = "regdata"
  /\ \/ /\ ~Undisturbed(t) \/ "token" \in CardFaults
        /\ UNCHANGED <<internal_buffer, total_sectors>>
     \/ /\ Undisturbed(t)
        /\ internal_buffer' = Register
        /\ total_sectors' = NSectors
     \/ /\ ~Undisturbed(t)
        /\ internal_buffer' = Garbage
        /\ total_sectors' \in 0 .. UINT32 - 1
  /\ cs' = "high"
  /\ Clock(t)
  /\ Return(t)
  /\ UNCHANGED <<mutex, cardVars>>

-----------------------------------------------------------------------------
Call(t) == CallLocked(t) \/ FindTotalSector(t)

Command(t) ==
  SendCommand(t) \/ Accepted(t) \/ Refused(t) \/ StopTransmission(t)

WriteBlock(t) == Fill(t) \/ Send(t) \/ DataAccepted(t) \/ DataRejected(t)

ReadBlock(t) ==
  AwaitToken(t) \/ NoToken(t) \/ ReceiveBlock(t) \/ CrcMatches(t) \/ CrcMismatch(t)

Ending(t) ==
  EraseBusy(t) \/ Done(t) \/ FailUnlock(t) \/ FailDeselect(t) \/ FailReturn(t)

ReadRegister(t) == RegisterToken(t) \/ RegisterRead(t)

Progress(t) ==
  \/ TakeLock(t) \/ Alloc(t)
  \/ Command(t) \/ WriteBlock(t) \/ ReadBlock(t) \/ Ending(t) \/ ReadRegister(t)

\* The steps on the bus that take no lock: the end of a failed transfer, and
\* all of the register read.
Unlocked(t) == pc[t] \in {"deselect", "stray"} \/ op[t] = "register"

\* What a step of t means for the history, and the bus, which is set up once.
Observe(t) ==
  /\ disturbed' = IF Unlocked(t) THEN disturbed \cup {u \in Tasks \ {t} : pc[u] # "idle"}
                  ELSE IF pc[t] = "idle" THEN disturbed \ {t} ELSE disturbed
  /\ UNCHANGED spi_bus

Step(t) == Progress(t) /\ Observe(t)

Next == \E t \in Tasks : (Call(t) /\ Observe(t)) \/ Step(t)

Spec == Init /\ [][Next]_vars

(***************************************************************************)
(* A task in a call is scheduled, and one that waits for the mutex without *)
(* a time limit gets it if it is free again and again.  Nothing makes a    *)
(* task call.  The card ends every busy period and answers every command   *)
(* or is given up on.                                                      *)
(***************************************************************************)
FairSpec == Spec /\ \A t \in Tasks : SF_vars(Step(t))

-----------------------------------------------------------------------------
Locations ==
  {"idle", "lock", "alloc", "cmd", "resp", "fill", "send", "accept", "token",
   "data", "crc", "busy", "done", "fail", "deselect", "stray", "regtoken",
   "regdata", "corrupt"}

Contents ==
  [val : Values \cup {"zero", "erased", "garbage", "register"}, blk : Nat, n : Nat]

Calls ==
  [len : Nat, sector : Nat, last : Nat, val : Values \cup {"zero"},
   k : Nat, target : Sectors, end : Sectors, stop : BOOLEAN,
   moved : Contents, got : Seq(Contents \X Int),
   heap : {"none", "live", "freed"}, frees : BOOLEAN]

TypeOK ==
  /\ spi_bus \in Buses
  /\ mutex \in Tasks \cup {NoTask}
  /\ cs \in {"low", "high"}
  /\ shifted \subseteq Tasks
  /\ internal_buffer \in Contents
  /\ card \in [Sectors -> Contents]
  /\ served \in Tasks \cup {NoTask}
  /\ total_sectors \in 0 .. UINT32 - 1
  /\ pc \in [Tasks -> Locations]
  /\ op \in [Tasks -> Ops \cup {"none"}]
  /\ call \in [Tasks -> Calls]
  /\ disturbed \subseteq Tasks

\* The locations in which a task owns the mutex.
Locked(t) ==
  \/ pc[t] \in {"alloc", "fill", "send", "accept", "token", "data", "crc", "busy",
                "done", "fail"}
  \/ pc[t] \in {"cmd", "resp"} /\ op[t] # "register"

\* internal_buffer, one for all tasks, still holds what the task put there when
\* the block goes out, unless another task was on the bus without the mutex.
BufferIsOwn ==
  \A t \in Tasks \ disturbed :
    pc[t] = "send" =>
      internal_buffer = Chunk(call[t].val, call[t].k, Copied(call[t].len, call[t].k))

\* A free mutex belongs to no task in its locked part, and never to two.
LockOwned ==
  \A t \in Tasks : Locked(t) => mutex = t

\* The card is not left selected when every call has returned.
DeselectedWhenIdle ==
  (\A t \in Tasks : pc[t] \in {"idle", "lock", "alloc"}) => cs = "high"

\* On the bit-banged bus no call returns with the mutex.
ReturnsUnlocked ==
  spi_bus = "SPI_BITBANG" => \A t \in Tasks : pc[t] = "idle" => mutex # t

\* No call returns with its bus buffers still allocated.
ReturnsHeap == \A t \in Tasks : pc[t] = "idle" => call[t].heap = "none"

Succeeds(t, o) == pc[t] = "done" /\ op[t] = o

\* The caller's bytes, zero filled, are in every sector of the call's range.
Stored(t) ==
  \A k \in 0 .. Total(call[t].len) - 1 :
    card[call[t].sector + k] = Chunk(call[t].val, k, Want(call[t].len, k))

\* "QAPI_SUCCESS if successfully write data to sdcard": a write that is about
\* to return success has stored the caller's bytes.
OkWriteIsStored == \A t \in Tasks : Succeeds(t, "write") => Stored(t)

\* So it has, whatever the card does wrong and whatever waits for the mutex,
\* if no other task was on the bus without the mutex and the last of several
\* blocks is not a whole one.
QuietWriteIsStored ==
  \A t \in Tasks \ disturbed :
    /\ Succeeds(t, "write")
    /\ call[t].len > BLOCK_SIZE => call[t].len % BLOCK_SIZE # 0
    => Stored(t)

\* "QAPI_OK if successfully read data from sdcard": on the bit-banged bus a
\* read that is about to return success, and was not disturbed, has delivered
\* the first len bytes of its sectors and not one byte more.
QuietReadIsContent ==
  \A t \in Tasks \ disturbed :
    spi_bus = "SPI_BITBANG" /\ Succeeds(t, "read") =>
      call[t].got = [i \in 1 .. Total(call[t].len) |->
                       <<card[call[t].sector + i - 1], Want(call[t].len, i - 1)>>]

\* A register read that another task disturbed may have left a size below that
\* of the card; 0 is that of a card whose register was not read.
SizeTooSmall == total_sectors \in 1 .. NSectors - 1

\* sdcard_clean() that is about to return success has erased every sector, if
\* nobody read the register meanwhile and no earlier read left too small a size.
OkCleanErasesCard ==
  \A t \in Tasks \ disturbed :
    Succeeds(t, "clean") /\ ~SizeTooSmall => \A s \in Sectors : card[s] = Erased

\* The three together: success means stored, delivered, erased.
OkMeansDone == QuietWriteIsStored /\ QuietReadIsContent /\ OkCleanErasesCard

\* No transfer of one block uses a bus buffer that has been freed, or frees it
\* twice, on any of the error paths.
OneBlockBuffersAreLive ==
  \A t \in Tasks : pc[t] = "corrupt" => call[t].len > BLOCK_SIZE

\* No call keeps the mutex, its buffers, or the heap in disorder, whichever of
\* its steps failed.
ReturnsClean == TypeOK /\ ReturnsUnlocked /\ ReturnsHeap /\ OneBlockBuffersAreLive

\* On the bit-banged bus every call returns a status.
CallsReturn ==
  \A t \in Tasks : spi_bus = "SPI_BITBANG" /\ pc[t] # "idle" ~> pc[t] = "idle"

=============================================================================
