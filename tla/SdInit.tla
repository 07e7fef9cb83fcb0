-------------------------------- MODULE SdInit --------------------------------
(***************************************************************************)
(* The start of the SD card: sdcard_init() and sd_card_detect_init() of    *)
(* src/SD_CARD/src/device/sd_card_core.c, the interrupt callback           *)
(* sd_detect_callback(), the card and its detect pin, and another task     *)
(* that sends a command of sdcard_write() or one of its kind meanwhile.    *)
(*                                                                         *)
(* Where the code calls set_system_reset_reason() the board resets and     *)
(* starts again; the calls behind it are never reached.  The bus is        *)
(* external: a command is answered, refused or lost (0xFF) as a whole.     *)
(* Repeating a lost CMD0 changes nothing and is not a step.                *)
(* sdcard_command() raises the chip select behind the first byte of the    *)
(* response; the bytes behind it are read from a card that still drives    *)
(* the line, or from an idle line that it has released.                    *)
(***************************************************************************)
EXTENDS Integers

CONSTANTS
  Kinds,        \* of cards: "SD1", "SD2" (standard capacity) and "SDHC"
  MaxTries,     \* 0xFF, the bound of time_count
  FaultSets,    \* what faults may be
  BoardFaults,  \* "pin", "mutex" and "spi": what may fail on the board
  Client        \* whether another task uses the card meanwhile

ASSUME KindsAssumption == Kinds \subseteq {"SD1", "SD2", "SDHC"}
ASSUME FaultsAssumption == FaultSets \subseteq SUBSET {"lost", "release", "swap"}
ASSUME MaxTriesAssumption == MaxTries \in Nat

VARIABLES
  faults,           \* what may be: a command "lost", the line "release"d early, a "swap"
  inserted,         \* the pin reads low
  kind,             \* the kind of the card in use
  card,             \* the card's own state: "off", "idle" or "ready"
  app,              \* the card expects an application command
  response,         \* what it has still to send: "none", "r7" or "ocr"
  edge,             \* an interrupt is pending
  callback,         \* what sd_detect_callback() has read
  interrupts,       \* gpio_reg_interrupt() has been called
  sd_detect_flag,
  pc,
  pin,              \* what sd_card_detect_init() has read
  time_count,
  status,           \* sdcard->status
  type_,
  result,           \* what the last sdcard_init() returned
  client            \* the other task: "idle", "checked" or "sent"

cardVars == <<inserted, kind, card, app, response>>
detectVars == <<edge, callback, interrupts, sd_detect_flag>>
initVars == <<pc, pin, time_count, status, type_, result>>
vars == <<faults, cardVars, detectVars, initVars, client>>

\* The board after power on.
Booted ==
  [edge |-> FALSE, callback |-> "none", interrupts |-> FALSE,
   sd_detect_flag |-> "SD_REMOVED", pc |-> "idle", pin |-> "none", time_count |-> 0,
   status |-> "SD_UNINITIALIZED_E", type_ |-> "none", result |-> "none", client |-> "idle"]

Init ==
  /\ faults \in FaultSets
  /\ inserted \in BOOLEAN /\ kind \in Kinds /\ card = "off" /\ app = FALSE
  /\ response = "none"
  /\ edge = Booted.edge /\ callback = Booted.callback /\ interrupts = Booted.interrupts
  /\ sd_detect_flag = Booted.sd_detect_flag
  /\ pc = Booted.pc /\ pin = Booted.pin /\ time_count = Booted.time_count
  /\ status = Booted.status /\ type_ = Booted.type_ /\ result = Booted.result
  /\ client = Booted.client

-----------------------------------------------------------------------------
(* The card, its pin and the callback                                      *)

\* The card is pulled out or put in; a registered interrupt sees the edge.
Swap ==
  /\ "swap" \in faults
  /\ inserted' = ~inserted /\ kind' \in Kinds
  /\ card' = "off" /\ app' = FALSE /\ response' = "none"
  /\ edge' = interrupts
  /\ UNCHANGED <<callback, interrupts, sd_detect_flag, initVars, client>>

Level == IF inserted THEN "low" ELSE "high"
Flag(level) == IF level = "low" THEN "SD_DETECT" ELSE "SD_REMOVED"

CallbackReads ==
  /\ edge /\ callback = "none"
  /\ edge' = FALSE
  /\ callback' = Level
  /\ UNCHANGED <<cardVars, interrupts, sd_detect_flag, initVars, client>>

\* Mutant of CallbackSets: only a removal is noted.
MutCallbackSetsRemoved ==
  /\ callback # "none"
  /\ sd_detect_flag' = IF callback = "high" THEN "SD_REMOVED" ELSE sd_detect_flag
  /\ callback' = "none"
  /\ UNCHANGED <<cardVars, edge, interrupts, initVars, client>>

CallbackSets ==
  /\ callback # "none"
  /\ sd_detect_flag' = Flag(callback)
  /\ callback' = "none"
  /\ UNCHANGED <<cardVars, edge, interrupts, initVars, client>>

-----------------------------------------------------------------------------
(* sdcard_init() up to the handshake                                       *)

\* The file system calls sdcard_init(), again after a failure.
Start ==
  /\ pc = "idle" /\ status # "SD_ENABLED_E"
  /\ pc' = "register"
  /\ time_count' = 0
  /\ result' = "none"
  /\ UNCHANGED <<cardVars, detectVars, pin, status, type_, client>>

\* The pin is configured and its interrupt registered.
RegisterInterrupt ==
  /\ pc = "register"
  /\ \/ interrupts' = TRUE /\ pc' = "readpin"
     \/ "pin" \in BoardFaults /\ pc' = "reset" /\ UNCHANGED interrupts
  /\ UNCHANGED <<cardVars, edge, callback, sd_detect_flag, pin, time_count, status, type_,
                 result, client>>

ReadPin ==
  /\ pc = "readpin"
  /\ pin' = Level
  /\ pc' = "setflag"
  /\ UNCHANGED <<cardVars, detectVars, time_count, status, type_, result, client>>

SetFlag ==
  /\ pc = "setflag"
  /\ sd_detect_flag' = Flag(pin)
  /\ pc' = "checkflag"
  /\ UNCHANGED <<cardVars, edge, callback, interrupts, pin, time_count, status, type_,
                 result, client>>

\* No card: the board resets.  Otherwise the mutex is created.
CheckFlag ==
  /\ pc = "checkflag"
  /\ \/ sd_detect_flag # "SD_DETECT" /\ pc' = "reset"
     \/ sd_detect_flag = "SD_DETECT" /\ pc' = "spi"
     \/ sd_detect_flag = "SD_DETECT" /\ "mutex" \in BoardFaults /\ pc' = "reset"
  /\ UNCHANGED <<cardVars, detectVars, pin, time_count, status, type_, result, client>>

\* The pins or the bus are set up, in the state SD_INITIALIZING_E.
SpiInit ==
  /\ pc = "spi"
  /\ \/ status' = "SD_INITIALIZING_E" /\ pc' = "cmd0"
     \/ "spi" \in BoardFaults /\ status' = "SD_FAILED_E" /\ pc' = "reset"
  /\ UNCHANGED <<cardVars, detectVars, pin, time_count, type_, result, client>>

\* The board starts again; the card keeps its state.
Reset ==
  /\ pc = "reset"
  /\ edge' = Booted.edge /\ callback' = Booted.callback /\ interrupts' = Booted.interrupts
  /\ sd_detect_flag' = Booted.sd_detect_flag
  /\ pc' = Booted.pc /\ pin' = Booted.pin /\ time_count' = Booted.time_count
  /\ status' = Booted.status /\ type_' = Booted.type_ /\ result' = Booted.result
  /\ client' = Booted.client
  /\ UNCHANGED cardVars

-----------------------------------------------------------------------------
(* The handshake                                                           *)

Lost == "lost" \in faults \/ ~inserted \/ card = "off"
Heard == inserted /\ card # "off"

ReturnError == pc' = "idle" /\ result' = "error"

\* CMD0 is repeated until the card answers that it is idle.
GoIdle ==
  /\ pc = "cmd0"
  /\ inserted
  /\ card' = "idle" /\ app' = FALSE /\ response' = "none"
  /\ pc' = "cmd8"
  /\ UNCHANGED <<inserted, kind, detectVars, pin, time_count, status, type_, result, client>>

\* CMD8 is answered; at the bound of time_count that comes too late.
Cmd8Answered ==
  /\ pc = "cmd8"
  /\ Heard /\ card = "idle" /\ kind # "SD1"
  /\ \/ /\ time_count < MaxTries
        /\ pc' = "r7"
        /\ UNCHANGED <<status, result>>
     \/ /\ time_count = MaxTries
        /\ status' = "SD_FAILED_E"
        /\ ReturnError
  /\ app' = FALSE /\ response' = "r7"
  /\ UNCHANGED <<inserted, kind, card, detectVars, pin, time_count, type_, client>>

\* Mutant of Cmd8Missed: the tries are not counted.
MutCmd8MissedUncounted ==
  /\ pc = "cmd8"
  /\ Lost \/ kind = "SD1"
  /\ UNCHANGED vars

\* An SD1 card answers that CMD8 is illegal, which is no idle state either, so
\* that the branch for SD_CARD_TYPE_SD1 behind the loop is never reached.
Cmd8Missed ==
  /\ pc = "cmd8"
  /\ Lost \/ kind = "SD1"
  /\ \/ /\ time_count < MaxTries
        /\ time_count' = time_count + 1
        /\ UNCHANGED <<pc, status, result>>
     \/ /\ time_count = MaxTries
        /\ status' = "SD_FAILED_E"
        /\ ReturnError
        /\ UNCHANGED time_count
  /\ UNCHANGED <<cardVars, detectVars, pin, type_, client>>

\* What spi_bb_recieve() may give: the byte of a card that still sends, 0xFF from
\* a line that nobody drives, anything where another task is transferring.
IdleLine == 255
Bytes == 0 .. 255
Line(expected, byte) ==
  (IF Heard /\ response = expected THEN {byte} ELSE {IdleLine})
    \cup (IF {"lost", "release"} \cap faults # {} THEN {IdleLine} ELSE {})
    \cup (IF client = "sent" THEN Bytes ELSE {})

\* The last byte of R7 echoes the check pattern, or sdcard_init() gives up.
CheckByte == 170
CheckPattern ==
  /\ pc = "r7"
  /\ \/ /\ CheckByte \in Line("r7", CheckByte)
        /\ type_' = "SD2"
        /\ pc' = "cmd55"
        /\ UNCHANGED result
     \/ /\ Line("r7", CheckByte) # {CheckByte}
        /\ ReturnError
        /\ UNCHANGED type_
  /\ response' = "none"
  /\ UNCHANGED <<inserted, kind, card, app, detectVars, pin, time_count, status, client>>

\* The response to CMD55 is not looked at.
AnnounceAppCommand ==
  /\ pc = "cmd55"
  /\ \/ Heard /\ app' = TRUE
     \/ Lost /\ UNCHANGED app
  /\ pc' = "acmd41"
  /\ UNCHANGED <<inserted, kind, card, response, detectVars, pin, time_count, status, type_,
                 result, client>>

\* Mutant of CardReady: the card's own state is not awaited.
MutCardReadyAtOnce ==
  /\ pc = "acmd41"
  /\ app' = FALSE
  /\ pc' = "cmd58"
  /\ UNCHANGED <<inserted, kind, card, response, detectVars, pin, time_count, status, type_,
                 result, client>>

\* ACMD41: the card has left the idle state.
CardReady ==
  /\ pc = "acmd41"
  /\ Heard /\ app
  /\ card' = "ready" /\ app' = FALSE
  /\ pc' = "cmd58"
  /\ UNCHANGED <<inserted, kind, response, detectVars, pin, time_count, status, type_, result,
                 client>>

\* It is still busy, the command was lost, or it was no application command.
CardBusy ==
  /\ pc = "acmd41"
  /\ app' = FALSE
  /\ pc' = "cmd55"
  /\ UNCHANGED <<inserted, kind, card, response, detectVars, pin, time_count, status, type_,
                 result, client>>

\* CMD58 asks for the OCR; its response is not looked at.
SendCmd58 ==
  /\ pc = "cmd58"
  /\ \/ Heard /\ app' = FALSE /\ response' = "ocr"
     \/ Lost /\ UNCHANGED <<app, response>>
  /\ pc' = "ocr"
  /\ UNCHANGED <<inserted, kind, card, detectVars, pin, time_count, status, type_, result, client>>

\* The first byte of the OCR holds the capacity, the others the voltages; the
\* upper bits of the second, 3.4 to 3.6 V, are among those every card works with.
OcrByte(i) == <<IF kind = "SDHC" THEN 192 ELSE 128, 255, 128, 0>>[i]

\* The first went with the byte that sdcard_command() clocks after the response.
ReadsOcrByte == 2

HighCapacity(byte) == byte \div 64 = 3

\* What is read tells the kind, and the initialization is over.
ReadOcr ==
  /\ pc = "ocr"
  /\ \E byte \in Line("ocr", OcrByte(ReadsOcrByte)) :
       type_' = IF HighCapacity(byte) THEN "SDHC" ELSE type_
  /\ response' = "none"
  /\ status' = "SD_ENABLED_E"
  /\ pc' = "idle" /\ result' = "ok"
  /\ UNCHANGED <<inserted, kind, card, app, detectVars, pin, time_count, client>>

-----------------------------------------------------------------------------
(* Another task                                                            *)

Usable == status \notin {"SD_UNINITIALIZED_E", "SD_FAILED_E"}

\* sdcard_write() and its kind test the status ...
ClientChecks ==
  /\ Client /\ client = "idle"
  /\ Usable
  /\ client' = "checked"
  /\ UNCHANGED <<cardVars, detectVars, initVars>>

\* ... and sdcard_command() tests it again before it sends the command, which the
\* card takes for the one announced and which ends what it was still sending.
ClientSends ==
  /\ client = "checked"
  /\ \/ Usable /\ client' = "sent" /\ app' = FALSE /\ response' = "none"
     \/ ~Usable /\ client' = "idle" /\ UNCHANGED <<app, response>>
  /\ UNCHANGED <<inserted, kind, card, detectVars, initVars>>

ClientReturns ==
  /\ client = "sent"
  /\ client' = "idle"
  /\ UNCHANGED <<cardVars, detectVars, initVars>>

-----------------------------------------------------------------------------
Detect == RegisterInterrupt \/ ReadPin \/ SetFlag \/ CheckFlag \/ SpiInit

Handshake ==
  \/ GoIdle \/ Cmd8Answered \/ Cmd8Missed \/ CheckPattern
  \/ AnnounceAppCommand \/ CardReady \/ CardBusy \/ SendCmd58 \/ ReadOcr

InitStep == Detect \/ Handshake

Callback == CallbackReads \/ CallbackSets

ClientStep == ClientChecks \/ ClientSends \/ ClientReturns

Next ==
  /\ Start \/ InitStep \/ Reset \/ Swap \/ Callback \/ ClientStep
  /\ UNCHANGED faults

Spec == Init /\ [][Next]_vars

(***************************************************************************)
(* A started sdcard_init() runs, and a card that is asked again and again  *)
(* with ACMD41 becomes ready.  Nothing makes anyone call it, and nothing   *)
(* brings a card back that was taken out.                                  *)
(***************************************************************************)
FairSpec ==
  /\ Spec
  /\ WF_vars(InitStep /\ UNCHANGED faults)
  /\ SF_vars(CardReady /\ UNCHANGED faults)
  /\ WF_vars(Reset /\ UNCHANGED faults)

-----------------------------------------------------------------------------
Levels == {"none", "low", "high"}

TypeOK ==
  /\ faults \in FaultSets
  /\ inserted \in BOOLEAN /\ kind \in Kinds /\ card \in {"off", "idle", "ready"} /\ app \in BOOLEAN
  /\ response \in {"none", "r7", "ocr"}
  /\ edge \in BOOLEAN /\ callback \in Levels /\ interrupts \in BOOLEAN
  /\ sd_detect_flag \in {"SD_REMOVED", "SD_DETECT"}
  /\ pc \in {"idle", "register", "readpin", "setflag", "checkflag", "spi", "reset",
             "cmd0", "cmd8", "r7", "cmd55", "acmd41", "cmd58", "ocr"}
  /\ pin \in Levels /\ time_count \in 0 .. MaxTries
  /\ status \in {"SD_UNINITIALIZED_E", "SD_INITIALIZING_E", "SD_ENABLED_E", "SD_FAILED_E"}
  /\ type_ \in {"none", "SD2", "SDHC"} /\ result \in {"none", "ok", "error"}
  /\ client \in {"idle", "checked", "sent"}

\* SD_ENABLED_E, whatever was lost on the bus and whoever else used it, means
\* that the card in the slot, if it was not taken out, has finished its
\* initialization and is one that answers CMD8.
EnabledIsReady ==
  "swap" \notin faults /\ status = "SD_ENABLED_E" => card = "ready" /\ kind # "SD1"

\* What the driver says of the card is so.
CardIsAsReported == TypeOK /\ EnabledIsReady

\* "if SD2 read OCR register to check for SDHC card" (sd_card_core.c, 257): where
\* nothing is lost and the card stays an enabled card has been given its own kind.
TypeIsKind ==
  faults \subseteq {"release"} /\ status = "SD_ENABLED_E" => type_ = kind

\* "On Success QAPI_OK is returned ..., On Failure System Is Reseted": where
\* the card stays and hears every command sdcard_init() ends.
InitReturns == faults \subseteq {"release"} /\ pc # "idle" ~> pc = "idle"

\* The detection has set the flag and no interrupt is on its way.
Settled ==
  /\ interrupts /\ ~edge /\ callback = "none"
  /\ pc \notin {"register", "readpin", "setflag"}

\* A flag that disagrees with the pin is what sd_card_detect_init() has written
\* over a callback, never what a callback left.
StaleFlagIsFromInit ==
  Settled /\ sd_detect_flag # Flag(Level) => sd_detect_flag = Flag(pin)

=============================================================================
