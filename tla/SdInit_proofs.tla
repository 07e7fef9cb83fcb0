---------------------------- MODULE SdInit_proofs ----------------------------
(***************************************************************************)
(* What SdInit guarantees for every bound of time_count, every fault of    *)
(* the card and of the board, and whatever the other task does: a card     *)
(* that is enabled is ready, and a stale sd_detect_flag is one that        *)
(* sd_card_detect_init() has written.                                      *)
(***************************************************************************)
EXTENDS SdInit, TLAPS

\* The steps of the handshake from CMD8 on, and those behind its answer.
Handshaking == {"cmd8", "r7", "cmd55", "acmd41", "cmd58", "ocr"}
Answered == Handshaking \ {"cmd8"}

\* Nothing but a call of sdcard_init() that has returned enables the card.  If
\* no card is pulled out, the one in the slot has been there since CMD0, is no
\* SD1 card once it has answered CMD8, and is ready when the OCR is read.
HandshakeInv ==
  /\ status = "SD_ENABLED_E" => pc = "idle"
  /\ "swap" \notin faults =>
       /\ pc \in Handshaking => inserted /\ card # "off"
       /\ pc \in Answered => kind # "SD1"
       /\ pc \in {"cmd58", "ocr"} \/ status = "SD_ENABLED_E" => card = "ready" /\ kind # "SD1"

ReportInv == TypeOK /\ HandshakeInv

\* The types of the Boolean variables, and of the others.
FlagsOK == inserted \in BOOLEAN /\ app \in BOOLEAN /\ edge \in BOOLEAN /\ interrupts \in BOOLEAN

\* A step keeps the flags Boolean.
LEMMA FlagsStep ==
  ASSUME FlagsOK, Next
  PROVE  FlagsOK'
  <1> USE DEF FlagsOK, cardVars, detectVars, initVars
  <1>1. CASE Start
    BY <1>1 DEF Start
  <1>2. CASE Reset
    BY <1>2 DEF Reset, Booted
  <1>3. CASE Swap
    BY <1>3 DEF Swap
  <1>4. CASE CallbackReads
    BY <1>4 DEF CallbackReads, Level
  <1>5. CASE CallbackSets
    BY <1>5 DEF CallbackSets, Flag
  <1>6. CASE ClientChecks
    BY <1>6 DEF ClientChecks
  <1>7. CASE ClientSends
    BY <1>7 DEF ClientSends
  <1>8. CASE ClientReturns
    BY <1>8 DEF ClientReturns
  <1>9. CASE RegisterInterrupt
    BY <1>9 DEF RegisterInterrupt
  <1>10. CASE ReadPin
    BY <1>10 DEF ReadPin, Level
  <1>11. CASE SetFlag
    BY <1>11 DEF SetFlag, Flag
  <1>12. CASE CheckFlag
    BY <1>12 DEF CheckFlag
  <1>13. CASE SpiInit
    BY <1>13 DEF SpiInit
  <1>14. CASE GoIdle
    BY <1>14 DEF GoIdle
  <1>15. CASE Cmd8Answered
    BY <1>15 DEF Cmd8Answered, ReturnError
  <1>16. CASE Cmd8Missed
    BY <1>16 DEF Cmd8Missed, ReturnError
  <1>17. CASE CheckPattern
    BY <1>17 DEF CheckPattern, ReturnError
  <1>18. CASE AnnounceAppCommand
    BY <1>18 DEF AnnounceAppCommand
  <1>19. CASE CardReady
    BY <1>19 DEF CardReady
  <1>20. CASE CardBusy
    BY <1>20 DEF CardBusy
  <1>21. CASE ReadOcr
    BY <1>21 DEF ReadOcr
  <1>22. CASE SendCmd58
    BY <1>22 DEF SendCmd58
  <1> QED
    BY <1>1, <1>2, <1>3, <1>4, <1>5, <1>6, <1>7, <1>8, <1>9, <1>10, <1>11, <1>12, <1>13, <1>14, <1>15, <1>16, <1>17, <1>18, <1>19, <1>20, <1>21, <1>22
       DEF Next, InitStep, Detect, Handshake, Callback, ClientStep

\* The types of the other variables.
ValuesOK ==
  /\ faults \in FaultSets /\ kind \in Kinds /\ card \in {"off", "idle", "ready"}
  /\ response \in {"none", "r7", "ocr"}
  /\ callback \in Levels /\ sd_detect_flag \in {"SD_REMOVED", "SD_DETECT"}
  /\ pc \in {"idle", "register", "readpin", "setflag", "checkflag", "spi", "reset",
             "cmd0", "cmd8", "r7", "cmd55", "acmd41", "cmd58", "ocr"}
  /\ pin \in Levels /\ time_count \in 0 .. MaxTries
  /\ status \in {"SD_UNINITIALIZED_E", "SD_INITIALIZING_E", "SD_ENABLED_E", "SD_FAILED_E"}
  /\ type_ \in {"none", "SD2", "SDHC"} /\ result \in {"none", "ok", "error"}
  /\ client \in {"idle", "checked", "sent"}

\* A step keeps them.
LEMMA ValuesStep ==
  ASSUME ValuesOK, Next
  PROVE  ValuesOK'
  <1> USE MaxTriesAssumption DEF ValuesOK, Levels, cardVars, detectVars, initVars
  <1>1. UNCHANGED faults
    BY DEF Next
  <1>2. CASE Start
    BY <1>1, <1>2 DEF Start
  <1>3. CASE Reset
    BY <1>1, <1>3 DEF Reset, Booted
  <1>4. CASE Swap
    BY <1>1, <1>4 DEF Swap
  <1>5. CASE CallbackReads
    BY <1>1, <1>5 DEF CallbackReads, Level
  <1>6. CASE CallbackSets
    BY <1>1, <1>6 DEF CallbackSets, Flag
  <1>7. CASE ClientChecks
    BY <1>1, <1>7 DEF ClientChecks
  <1>8. CASE ClientSends
    BY <1>1, <1>8 DEF ClientSends
  <1>9. CASE ClientReturns
    BY <1>1, <1>9 DEF ClientReturns
  <1>10. CASE RegisterInterrupt
    BY <1>1, <1>10 DEF RegisterInterrupt
  <1>11. CASE ReadPin
    BY <1>1, <1>11 DEF ReadPin, Level
  <1>12. CASE SetFlag
    BY <1>1, <1>12 DEF SetFlag, Flag
  <1>13. CASE CheckFlag
    BY <1>1, <1>13 DEF CheckFlag
  <1>14. CASE SpiInit
    BY <1>1, <1>14 DEF SpiInit
  <1>15. CASE GoIdle
    BY <1>1, <1>15 DEF GoIdle
  <1>16. CASE Cmd8Answered
    BY <1>1, <1>16 DEF Cmd8Answered, ReturnError
  <1>17. CASE Cmd8Missed
    BY <1>1, <1>17 DEF Cmd8Missed, ReturnError
  <1>18. CASE CheckPattern
    BY <1>1, <1>18 DEF CheckPattern, ReturnError
  <1>19. CASE AnnounceAppCommand
    BY <1>1, <1>19 DEF AnnounceAppCommand
  <1>20. CASE CardReady
    BY <1>1, <1>20 DEF CardReady
  <1>21. CASE CardBusy
    BY <1>1, <1>21 DEF CardBusy
  <1>22. CASE ReadOcr
    BY <1>1, <1>22 DEF ReadOcr
  <1>23. CASE SendCmd58
    BY <1>1, <1>23 DEF SendCmd58
  <1> QED
    BY <1>1, <1>2, <1>3, <1>4, <1>5, <1>6, <1>7, <1>8, <1>9, <1>10, <1>11, <1>12, <1>13, <1>14, <1>15, <1>16, <1>17, <1>18, <1>19, <1>20, <1>21, <1>22, <1>23
       DEF Next, InitStep, Detect, Handshake, Callback, ClientStep

\* Types hold initially and after every step.
LEMMA TypeInvariant ==
  /\ Init => TypeOK
  /\ TypeOK /\ [Next]_vars => TypeOK'
  <1>1. TypeOK <=> FlagsOK /\ ValuesOK
    BY DEF TypeOK, FlagsOK, ValuesOK
  <1>2. TypeOK' <=> FlagsOK' /\ ValuesOK'
    BY DEF TypeOK, FlagsOK, ValuesOK
  <1>3. Init => FlagsOK /\ ValuesOK
    <2> SUFFICES ASSUME Init PROVE FlagsOK /\ ValuesOK
      OBVIOUS
    <2>1. FlagsOK
      BY DEF Init, Booted, FlagsOK
    <2>2. time_count \in 0 .. MaxTries
      BY MaxTriesAssumption DEF Init, Booted
    <2>3. ValuesOK
      BY <2>2 DEF Init, Booted, ValuesOK, Levels
    <2> QED
      BY <2>1, <2>3
  <1>4. TypeOK /\ UNCHANGED vars => TypeOK'
    BY DEF TypeOK, vars, cardVars, detectVars, initVars
  <1>5. TypeOK /\ Next => FlagsOK' /\ ValuesOK'
    BY <1>1, FlagsStep, ValuesStep
  <1> QED
    BY <1>1, <1>2, <1>3, <1>4, <1>5

\* The steps outside the handshake leave the card to it, unless it is swapped.
LEMMA OutsideReport ==
  ASSUME ReportInv, UNCHANGED faults, Start \/ Reset \/ Swap \/ Callback \/ ClientStep \/ Detect
  PROVE  HandshakeInv'
  <1> USE DEF ReportInv, HandshakeInv, Handshaking, Answered, cardVars, initVars
  <1>1. CASE Start \/ Reset
    BY <1>1 DEF Start, Reset, Booted
  <1>2. CASE Swap
    BY <1>2 DEF Swap
  <1>3. CASE Callback \/ ClientStep
    BY <1>3 DEF Callback, CallbackReads, CallbackSets, ClientStep, ClientChecks, ClientSends,
       ClientReturns
  <1>4. CASE Detect
    BY <1>4 DEF Detect, RegisterInterrupt, ReadPin, SetFlag, CheckFlag, SpiInit
  <1> QED
    BY <1>1, <1>2, <1>3, <1>4

\* The handshake, command by command.
LEMMA HandshakeReport ==
  ASSUME ReportInv, UNCHANGED faults, Handshake
  PROVE  HandshakeInv'
  <1> USE DEF ReportInv, HandshakeInv, Handshaking, Answered, cardVars
  <1>1. CASE GoIdle
    BY <1>1 DEF GoIdle
  <1>2. CASE Cmd8Answered
    BY <1>2 DEF Cmd8Answered, ReturnError
  <1>3. CASE Cmd8Missed
    BY <1>3 DEF Cmd8Missed, ReturnError
  <1>4. CASE CheckPattern
    BY <1>4 DEF CheckPattern, ReturnError
  <1>5. CASE AnnounceAppCommand
    BY <1>5 DEF AnnounceAppCommand
  <1>6. CASE CardReady
    BY <1>6 DEF CardReady
  <1>7. CASE CardBusy
    BY <1>7 DEF CardBusy
  <1>8. CASE SendCmd58
    BY <1>8 DEF SendCmd58
  <1>9. CASE ReadOcr
    BY <1>9 DEF ReadOcr
  <1> QED
    BY <1>1, <1>2, <1>3, <1>4, <1>5, <1>6, <1>7, <1>8, <1>9 DEF Handshake

\* An enabled card that was not taken out has finished its initialization and is
\* one that answers CMD8, whatever was lost, whatever another task sent meanwhile
\* and however often sdcard_init() was called.
THEOREM CardIsAsReportedHolds == Spec => []CardIsAsReported
  <1>1. Init => ReportInv
    BY TypeInvariant DEF Init, Booted, ReportInv, HandshakeInv, Handshaking, Answered
  <1>2. ReportInv /\ [Next]_vars => ReportInv'
    <2>1. ReportInv /\ UNCHANGED vars => HandshakeInv'
      BY DEF ReportInv, HandshakeInv, vars, cardVars, initVars
    <2>2. ReportInv /\ Next => HandshakeInv'
      BY OutsideReport, HandshakeReport DEF Next, InitStep
    <2> QED
      BY <2>1, <2>2, TypeInvariant DEF ReportInv
  <1>3. ReportInv => CardIsAsReported
    BY DEF ReportInv, HandshakeInv, CardIsAsReported, EnabledIsReady
  <1> QED
    BY <1>1, <1>2, <1>3, PTL DEF Spec

-----------------------------------------------------------------------------
\* Before the first registration nothing has touched the flag.  After it a
\* callback that has read the pin and was not overtaken by an edge has read what
\* the pin still shows, and the flag is that or what sd_card_detect_init() read.
DetectInv ==
  /\ ~interrupts =>
       /\ ~edge /\ callback = "none" /\ sd_detect_flag = "SD_REMOVED" /\ pin = "none"
       /\ pc \in {"idle", "register", "reset"}
  /\ interrupts /\ ~edge /\ callback # "none" => callback = Level
  /\ interrupts /\ ~edge /\ callback = "none" /\ pc # "setflag" =>
       sd_detect_flag \in {Flag(Level), Flag(pin)}

\* The pin, the callback and sd_card_detect_init() race for the flag.
LEMMA NextDetectInv ==
  ASSUME TypeOK, DetectInv, [Next]_vars
  PROVE  DetectInv'
  <1> USE DEF DetectInv, Level, Flag
  <1>1. CASE UNCHANGED vars
    BY <1>1 DEF vars, cardVars, detectVars, initVars
  <1>2. CASE Start
    BY <1>2 DEF Start, cardVars, detectVars
  <1>3. CASE Reset
    BY <1>3 DEF Reset, Booted
  <1>4. CASE Swap
    BY <1>4 DEF Swap, initVars, TypeOK
  <1>5. CASE CallbackReads
    BY <1>5 DEF CallbackReads, cardVars, initVars
  <1>6. CASE CallbackSets
    BY <1>6 DEF CallbackSets, cardVars, initVars
  <1>7. CASE ClientStep
    BY <1>7 DEF ClientStep, ClientChecks, ClientSends, ClientReturns, cardVars, detectVars, initVars
  <1>8. CASE RegisterInterrupt
    BY <1>8 DEF RegisterInterrupt, cardVars
  <1>9. CASE ReadPin
    BY <1>9 DEF ReadPin, cardVars, detectVars
  <1>10. CASE SetFlag
    BY <1>10 DEF SetFlag, cardVars
  <1>11. CASE CheckFlag \/ SpiInit
    BY <1>11 DEF CheckFlag, SpiInit, cardVars, detectVars
  <1>12. CASE Handshake
    <2>1. UNCHANGED <<inserted, detectVars, pin>> /\ pc # "setflag" /\ pc' # "setflag"
      BY <1>12 DEF Handshake, GoIdle, Cmd8Answered, Cmd8Missed, CheckPattern, AnnounceAppCommand,
         CardReady, CardBusy, SendCmd58, ReadOcr, ReturnError, cardVars
    <2>2. interrupts
      BY <1>12 DEF Handshake, GoIdle, Cmd8Answered, Cmd8Missed, CheckPattern, AnnounceAppCommand,
         CardReady, CardBusy, SendCmd58, ReadOcr
    <2> QED
      BY <2>1, <2>2 DEF detectVars
  <1> QED
    BY <1>1, <1>2, <1>3, <1>4, <1>5, <1>6, <1>7, <1>8, <1>9, <1>10, <1>11, <1>12
    DEF Next, InitStep, Detect, Callback

\* Once no interrupt is on its way, a flag that disagrees with the pin is the one
\* sd_card_detect_init() has written over a callback: the callback itself never
\* leaves a stale flag, however often the card comes and goes.
THEOREM StaleFlagIsFromInitHolds == Spec => []StaleFlagIsFromInit
  <1> DEFINE Inv == TypeOK /\ DetectInv
  <1>1. Init => Inv
    BY TypeInvariant DEF Init, Booted, DetectInv
  <1>2. Inv /\ [Next]_vars => Inv'
    BY TypeInvariant, NextDetectInv
  <1>3. Inv => StaleFlagIsFromInit
    BY DEF DetectInv, StaleFlagIsFromInit, Settled
  <1> QED
    BY <1>1, <1>2, <1>3, PTL DEF Spec

=============================================================================
