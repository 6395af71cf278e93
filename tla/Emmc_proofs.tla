----------------------------- MODULE Emmc_proofs -----------------------------
(***************************************************************************)
(* Proofs about the SD card driver, for any number of attempts, retries    *)
(* and faults and for any reads.                                           *)
(***************************************************************************)
EXTENDS Emmc, TLAPS

-----------------------------------------------------------------------------
(***************************************************************************)
(* The inductive invariant.                                                *)
(***************************************************************************)

\* The interrupt flags and the state of the controller that each wait of the
\* driver can meet.
PhaseInv ==
    /\ app => wait = "cmd" /\ stage \in AppSteps
    /\ wait # "none" => stage \in CommandSteps
    /\ hw = "asked" => wait = "cmd" /\ intFlags = {}
    /\ wait = "none" => intFlags = {} /\ hw \in {"quiet", "inhibited"}
    /\ hw = "inhibited" => wait = "none" /\ stage = "clock"
    /\ wait = "cmd" =>
          /\ intFlags \subseteq Errors \cup {"cmd"}
          /\ hw = "busy" => intFlags = {"cmd"} /\ (IsData \/ IsBusy)
          /\ hw = "quiet" /\ intFlags = {"cmd"} => ~IsData /\ ~IsBusy
    /\ wait = "data" =>
          /\ IsData
          /\ intFlags \subseteq Errors \cup {"ready"}
          /\ hw = "busy" => intFlags \subseteq {"ready"}
          /\ hw = "quiet" => "ready" \notin intFlags
    /\ wait = "done" =>
          /\ IsData \/ IsBusy
          /\ intFlags \subseteq Errors \cup {"done"}
          /\ hw = "busy" => intFlags = {}
          /\ "done" \in intFlags => intFlags \in {{"done"}, {"done", "dataTimeout"}}

\* The driver took the capacity of the card from its OCR.
CapacityKnown == dev.sdhc = (card.kind = "v2hc")

\* What a step of the reset, or a read, finds the card and the driver in.
Before ==
    /\ stage \in {"ifcond", "iocond", "ocr", "sdhc"} => card.state = "idle" /\ card.rca = 0
    /\ stage = "sdhc" => dev.rca = 0
    /\ stage \in {"clock", "cid"} => card.state = "ready" /\ CapacityKnown
    /\ stage = "rca" => card.state = "ident" /\ CapacityKnown
    /\ stage = "select" => card.state = "stby" /\ card.rca = dev.rca /\ CapacityKnown
    /\ stage \in {"blocklen", "scr"} =>
          card.state = "tran" /\ card.rca = dev.rca /\ CapacityKnown
    /\ ReadyAgrees

\* What the commands that change the card leave it in.
After ==
    /\ stage = "idle" => card.state = "idle" /\ card.rca = 0
    /\ stage = "sdhc" => /\ card.state = IF resp.powered THEN "ready" ELSE "idle"
                         /\ card.rca = 0 /\ dev.rca = 0
                         /\ resp.ccs = (card.kind = "v2hc")
    /\ stage = "cid" => card.state = "ident" /\ CapacityKnown
    /\ stage = "rca" => card.state = "stby" /\ card.rca = resp.rca /\ CapacityKnown
    /\ stage = "select" => card.state = "tran" /\ card.rca = dev.rca /\ CapacityKnown

\* The card has not carried out the command of this step yet, or the command
\* does not change it.
Untouched ==
    wait = "none" \/ hw = "asked" \/ app \/ stage \notin {"idle", "sdhc", "cid", "rca", "select"}

\* The card and what the driver knows of it go through the reset together.
CardInv ==
    /\ Untouched => Before
    /\ ~Untouched /\ (wait = "cmd" => intFlags = {"cmd"}) => After
    /\ app => bus.arg = dev.rca /\ (intFlags = {"cmd"} => dev.rca = card.rca)
    /\ stage = "ocr" /\ wait = "cmd" /\ ~app => dev.rca = 0
    /\ stage = "select" /\ hw = "asked" => bus.arg = dev.rca

\* The first sector of the read is one that an argument of the card's unit
\* can name: a card of standard capacity is addressed in bytes, in 32 bits.
InReach == card.kind = "v2hc" \/ req[1] * SectorBytes < ArgumentSpace

\* The first n sectors of the read.
Sectors(n) == [i \in 1..n |-> req[1] + i - 1]

\* While card and controller are at work the buffer holds the sectors that
\* have arrived, and the card is at the next one.
DataInv ==
    /\ outcome # "none" => stage = "ready"
    /\ outcome = "ok" /\ InReach => buf = Sectors(req[2])
    /\ stage = "read" => dev.blocks = req[2]
    /\ stage = "read" /\ hw = "asked" => bus.arg = Argument
    /\ stage = "read" /\ hw = "busy" /\ InReach =>
          /\ wait = "cmd" => bus.arg = req[1]
          /\ wait = "data" => /\ Len(buf) < req[2]
                              /\ buf = Sectors(Len(buf))
                              /\ bus.arg = req[1] + Len(buf)
    /\ stage = "read" /\ wait = "done" /\ (hw = "busy" \/ "done" \in intFlags) /\ InReach =>
          buf = Sectors(req[2])

\* Card and controller have given up the command.
Lost == wait # "none" /\ hw = "quiet" /\ "done" \notin intFlags

\* The failures of a read that need no fault: the card was cut off, or the
\* read asks for more than a transfer can have.
Excused == card.state = "data" \/ req[2] > MaxBlocks

\* Every failed try of a read met a fault or a card that was cut off, and a
\* reset without a fault meets no failure but that of CMD55.
FaultInv ==
    /\ faults + budget <= FaultBudget
    /\ stage # "failed" => tries.init < MaxAttempts
    /\ stage = "read" => tries.data < MaxRetries
    /\ stage = "read" => faults >= tries.data \/ Excused
    /\ stage = "read" /\ Lost => faults > tries.data \/ Excused
    /\ outcome = "failed" => faults >= MaxRetries \/ Excused
    /\ faults = 0 /\ stage # "read" /\ Lost =>
          \/ wait = "cmd" /\ intFlags = {"cmd"}
          \/ stage \in {"ifcond", "iocond"} /\ intFlags = {"cmdTimeout"}
          \/ stage = "ocr" /\ dev.rca # 0
    /\ faults = 0 /\ stage \in {"rca", "select"} /\ wait # "none" /\ hw # "asked" => resp.good

EInv == EmmcTypeOK /\ PhaseInv /\ CardInv /\ DataInv /\ FaultInv
-----------------------------------------------------------------------------
(***************************************************************************)
(* Each step keeps it.                                                     *)
(***************************************************************************)

LEMMA ConstantTypes ==
    /\ MaxAttempts \in Nat \ {0} /\ OcrTries \in Nat \ {0}
    /\ MaxRetries \in Nat \ {0} /\ SectorBytes \in Nat \ {0}
    /\ ArgumentSpace \in Nat \ {0} /\ MaxBlocks \in Nat \ {0} /\ FaultBudget \in Nat
BY EmmcAssumption

LEMMA RequestTypes ==
    ASSUME NEW r \in Requests
    PROVE  r[1] \in Nat /\ r[2] \in Nat \ {0}
BY EmmcAssumption

LEMMA RcaTypes == \A r \in Rcas \cup {0} : r \in Nat
BY EmmcAssumption

LEMMA FaultSum ==
    \A a, b \in Nat : a + b <= FaultBudget => a \in 0..FaultBudget /\ b \in 0..FaultBudget
BY ConstantTypes

TriesType == [init : 0..MaxAttempts, ocr : 0..OcrTries - 1, data : 0..MaxRetries]

LEMMA NextAttempt ==
    ASSUME NEW t \in TriesType, t.init < MaxAttempts
    PROVE  [t EXCEPT !.init = @ + 1, !.ocr = 0] \in TriesType
<1>1. [t EXCEPT !.init = @ + 1] \in TriesType
  BY ConstantTypes DEF TriesType
<1>2. \A u \in TriesType : [u EXCEPT !.ocr = 0] \in TriesType
  BY ConstantTypes DEF TriesType
<1>3. [[t EXCEPT !.init = @ + 1] EXCEPT !.ocr = 0] \in TriesType
  BY <1>1, <1>2, Zenon
<1>4. [t EXCEPT !.init = @ + 1, !.ocr = 0] = [[t EXCEPT !.init = @ + 1] EXCEPT !.ocr = 0]
  OBVIOUS
<1>. QED BY <1>3, <1>4, Zenon

LEMMA InitEInv == EmmcInit => EInv
<1> SUFFICES ASSUME EmmcInit PROVE EInv
  OBVIOUS
<1> USE DEF EmmcInit
<1>1. EmmcTypeOK
  <2>1. app \in BOOLEAN /\ v2 \in BOOLEAN
    BY Zenon
  <2>2. /\ resp \in [good : BOOLEAN, powered : BOOLEAN, ccs : BOOLEAN, rca : Rcas \cup {0}]
        /\ dev \in [rca : Rcas \cup {0}, sdhc : BOOLEAN, lastError : {"none", "timeout", "other"},
                    blockSize : {0, 8, SectorBytes}, blocks : Nat]
    BY DEF NoResponse
  <2>3. card \in [kind : CardKinds, rca : Rcas \cup {0}, powered : BOOLEAN,
                  state : {"idle", "ready", "ident", "stby", "tran", "data"}]
    OBVIOUS
  <2>4. tries \in [init : 0..MaxAttempts, ocr : 0..OcrTries - 1, data : 0..MaxRetries]
    BY ConstantTypes
  <2>. QED BY <2>1, <2>2, <2>3, <2>4, ConstantTypes DEF EmmcTypeOK, Steps
<1>2. PhaseInv
  BY DEF PhaseInv
<1>3. CardInv
  BY DEF CardInv, Untouched, Before, ReadyAgrees
<1>4. DataInv
  BY DEF DataInv
<1>5. FaultInv
  BY ConstantTypes DEF FaultInv, Lost
<1>. QED BY <1>1, <1>2, <1>3, <1>4, <1>5 DEF EInv

\* Nothing is on the bus.
BusIdle == wait = "none" /\ hw = "quiet" /\ intFlags = {} /\ app = FALSE

DevType ==
    [rca : Rcas \cup {0}, sdhc : BOOLEAN, lastError : {"none", "timeout", "other"},
     blockSize : {0, 8, SectorBytes}, blocks : Nat]

\* What the driver keeps of the card has its type.
DeviceOK == v2 \in BOOLEAN /\ dev \in DevType

\* The part of the invariant that is left between two commands.
RestInv ==
    /\ Before
    /\ outcome # "none" => stage = "ready"
    /\ outcome = "ok" /\ InReach => buf = Sectors(req[2])
    /\ outcome = "failed" => faults >= MaxRetries \/ Excused
    /\ stage # "failed" => tries.init < MaxAttempts
    /\ stage = "read" => /\ dev.blocks = req[2]
                         /\ tries.data < MaxRetries
                         /\ faults >= tries.data \/ Excused
    /\ faults + budget <= FaultBudget

LEMMA SameReach ==
    ASSUME card'.kind = card.kind, req' = req
    PROVE  InReach' <=> InReach
BY DEF InReach

LEMMA IdleInv == BusIdle /\ EmmcTypeOK /\ RestInv => EInv
<1> SUFFICES ASSUME BusIdle, EmmcTypeOK, RestInv PROVE EInv
  OBVIOUS
<1>1. PhaseInv
  BY DEF PhaseInv, BusIdle
<1>2. CardInv
  BY DEF CardInv, Untouched, BusIdle, RestInv
<1>3. DataInv
  BY DEF DataInv, BusIdle, RestInv, Excused
<1>4. FaultInv
  BY DEF FaultInv, Lost, Excused, BusIdle, RestInv
<1>. QED BY <1>1, <1>2, <1>3, <1>4 DEF EInv

\* A failed emmc_card_reset leaves nothing behind but the counters.
LEMMA AttemptFailsStep ==
    ASSUME EInv, AttemptFails, stage \notin {"ready", "read", "failed"},
           BusIdle', DeviceOK', outcome' = outcome, UNCHANGED <<bus, resp, card, req, buf>>,
           faults' \in Nat, budget' \in Nat, faults' + budget' <= FaultBudget
    PROVE  EInv'
<1>1. /\ tries \in [init : 0..MaxAttempts, ocr : 0..OcrTries - 1, data : 0..MaxRetries]
      /\ tries.init < MaxAttempts /\ outcome = "none"
  BY DEF EInv, EmmcTypeOK, FaultInv, DataInv
<1>2. /\ stage' \in {"reset", "failed"}
      /\ stage' # "failed" => tries'.init < MaxAttempts
      /\ tries' \in [init : 0..MaxAttempts, ocr : 0..OcrTries - 1, data : 0..MaxRetries]
  <2>1. tries' = [tries EXCEPT !.init = @ + 1, !.ocr = 0]
    BY DEF AttemptFails
  <2>2. tries' \in TriesType
    BY <1>1, <2>1, NextAttempt, Zenon DEF TriesType
  <2>3. tries'.init = tries.init + 1
    BY <1>1, <2>1
  <2>. QED BY <1>1, <2>2, <2>3 DEF AttemptFails, TriesType
<1>3. EmmcTypeOK'
  <2>1. app' \in BOOLEAN
    BY Zenon DEF BusIdle
  <2>2. faults' \in 0..FaultBudget /\ budget' \in 0..FaultBudget
    BY FaultSum, Zenon
  <2>. QED BY <1>2, <2>1, <2>2 DEF EInv, EmmcTypeOK, Steps, BusIdle, DeviceOK, DevType
<1>4. RestInv'
  BY <1>1, <1>2 DEF RestInv, Before, ReadyAgrees
<1>. QED BY <1>3, <1>4, IdleInv, PTL

\* A command that failed: the next step, another try or the end of the
\* attempt.
LEMMA FailedStep ==
    ASSUME EInv, Lost \/ (wait = "none" /\ TooLarge), NEW STATE d, d \in DevType, d.rca = dev.rca,
           d.sdhc = dev.sdhc, d.blockSize = dev.blockSize, d.blocks = dev.blocks,
           Failed({}, d), UNCHANGED <<bus, hw, resp, card, req, buf, faults, budget>>
    PROVE  EInv'
<1>1. /\ EmmcTypeOK /\ stage \in CommandSteps /\ tries \in TriesType
      /\ faults \in Nat /\ budget \in Nat /\ faults + budget <= FaultBudget
      /\ stage # "failed" => tries.init < MaxAttempts
  BY ConstantTypes DEF EInv, Lost, TooLarge, PhaseInv, FaultInv, EmmcTypeOK, TriesType, CommandSteps,
     ReadSteps
<1>2. BusIdle'
  <2>1. hw = "quiet"
    BY DEF EInv, PhaseInv, Lost, TooLarge
  <2>. QED BY <2>1 DEF Failed, BusIdle
<1>3. DeviceOK'
  <2>1. v2' \in BOOLEAN
    BY <1>1, Zenon DEF EmmcTypeOK, Failed
  <2>. QED BY <2>1 DEF Failed, DeviceOK
<1>4. outcome = "none"
  BY <1>1 DEF EInv, DataInv, CommandSteps, ReadSteps
<1>5. CASE AttemptFails /\ stage # "read"
  <2>1. outcome' = outcome
    BY <1>5 DEF Failed
  <2>2. stage \notin {"ready", "read", "failed"}
    BY <1>1, <1>5 DEF CommandSteps, ReadSteps
  <2>. QED BY <1>1, <1>2, <1>3, <1>5, <2>1, <2>2, AttemptFailsStep
<1>6. ASSUME stage' \in Steps, tries' \in TriesType, outcome' \in {"none", "failed"}, RestInv'
      PROVE  EInv'
  <2>1. app' \in BOOLEAN
    BY <1>2, Zenon DEF BusIdle
  <2>2. EmmcTypeOK'
    BY <1>1, <1>2, <1>3, <1>6, <2>1 DEF EmmcTypeOK, BusIdle, DeviceOK, DevType, TriesType
  <2>. QED BY <1>2, <1>6, <2>2, IdleInv, PTL
<1>7. CASE stage \in {"ifcond", "iocond", "ocr"} /\ ~AttemptFails
  <2>1. /\ stage' \in {"iocond", "ocr"} /\ outcome' = outcome
        /\ \/ tries' = tries
           \/ tries.ocr + 1 < OcrTries /\ tries' = [tries EXCEPT !.ocr = @ + 1]
    <3>1. CASE stage = "ifcond"
      BY <3>1 DEF Failed, Goto
    <3>2. CASE stage = "iocond"
      BY <1>7, <3>2 DEF Failed, Goto
    <3>3. CASE stage = "ocr"
      BY <1>7, <3>3 DEF Failed
    <3>. QED BY <1>7, <3>1, <3>2, <3>3
  <2>2. tries' \in TriesType /\ tries'.init = tries.init
    BY <1>1, <2>1, ConstantTypes DEF TriesType
  <2>3. card.state = "idle" /\ card.rca = 0
    BY <1>7 DEF EInv, CardInv, Untouched, Before
  <2>4. RestInv'
    BY <1>1, <1>4, <1>7, <2>1, <2>2, <2>3 DEF RestInv, Before, ReadyAgrees
  <2>. QED BY <1>4, <1>6, <2>1, <2>2, <2>4 DEF Steps, CommandSteps
<1>8. CASE stage = "read"
  <2>1. /\ tries' = [tries EXCEPT !.data = DataTries]
        /\ stage' = IF DataTries < MaxRetries THEN "read" ELSE "ready"
        /\ outcome' = IF DataTries >= MaxRetries THEN "failed" ELSE outcome
        /\ dev' = d
    BY <1>8 DEF Failed
  <2>2. /\ tries.data < MaxRetries
        /\ faults > tries.data \/ Excused
        /\ dev.blocks = req[2] /\ ReadyAgrees
    BY <1>8 DEF EInv, FaultInv, DataInv, CardInv, Untouched, Before, TooLarge, Excused
  <2>3. /\ tries' \in TriesType /\ tries'.init = tries.init /\ tries'.data = tries.data + 1
        /\ tries.data \in Nat
    BY <1>1, <2>1, <2>2, ConstantTypes DEF TriesType, DataTries
  <2>4. Before'
    BY <1>8, <2>1, <2>2 DEF Before, ReadyAgrees, CapacityKnown
  <2>5. RestInv'
    BY <1>1, <1>4, <1>8, <2>1, <2>2, <2>3, <2>4, ConstantTypes DEF RestInv, DataTries, Excused
  <2>. QED BY <1>4, <1>6, <2>1, <2>3, <2>5 DEF Steps, CommandSteps, ReadSteps
<1>. QED BY <1>1, <1>5, <1>7, <1>8 DEF Failed, CommandSteps, ReadSteps

LEMMA RefuseStep ==
    ASSUME EInv, Refuse
    PROVE  EInv'
<1>1. wait = "none" /\ TooLarge /\ intFlags = {} /\ dev \in DevType
  BY DEF EInv, EmmcTypeOK, PhaseInv, Refuse, DevType
<1>2. Failed({}, dev) /\ UNCHANGED <<bus, hw, resp, card, req, buf, faults, budget>>
  BY <1>1 DEF Refuse
<1>. QED BY <1>1, <1>2, FailedStep

\* The card has carried out the command and the controller is done with it.
Answered ==
    /\ wait # "none" /\ hw = "quiet" /\ app = FALSE
    /\ wait = "cmd" => intFlags = {"cmd"}

\* A command that succeeded: the next step finds the card as it expects it.
LEMMA SucceededStep ==
    ASSUME EInv, Answered, stage = "read" /\ InReach => buf = Sectors(req[2]),
           Succeeded(resp, {}, dev), UNCHANGED <<bus, hw, resp, card, req, buf, faults, budget>>
    PROVE  EInv'
<1>1. /\ EmmcTypeOK /\ stage \in CommandSteps /\ tries \in TriesType
      /\ faults \in Nat /\ budget \in Nat /\ faults + budget <= FaultBudget
      /\ stage # "failed" => tries.init < MaxAttempts
  BY ConstantTypes DEF EInv, Answered, PhaseInv, FaultInv, EmmcTypeOK, TriesType
<1>2. BusIdle'
  BY DEF Succeeded, BusIdle, Answered
<1>3. DeviceOK'
  <2>1. v2' \in BOOLEAN
    <3>1. resp.good \in BOOLEAN /\ v2 \in BOOLEAN
      BY <1>1 DEF EmmcTypeOK
    <3>. QED BY <3>1, Zenon DEF Succeeded
  <2>2. dev \in DevType
    BY <1>1 DEF EmmcTypeOK, DevType
  <2>3. resp.ccs \in BOOLEAN /\ resp.rca \in Rcas \cup {0}
    BY <1>1 DEF EmmcTypeOK
  <2>4. [dev EXCEPT !.sdhc = resp.ccs] \in DevType
    BY <2>2, <2>3 DEF DevType
  <2>5. [dev EXCEPT !.rca = resp.rca] \in DevType
    BY <2>2, <2>3 DEF DevType
  <2>6. [dev EXCEPT !.blockSize = SectorBytes] \in DevType
    BY <2>2 DEF DevType
  <2>7. dev' \in DevType
    BY <2>2, <2>4, <2>5, <2>6, Zenon DEF Succeeded, DeviceAfter
  <2>. QED BY <2>1, <2>7 DEF DeviceOK
<1>4. outcome = "none"
  BY <1>1 DEF EInv, DataInv, CommandSteps, ReadSteps
<1>5. stage \in {"idle", "sdhc", "cid", "rca", "select"} => After
  BY DEF EInv, CardInv, Untouched, Answered
<1>6. stage \notin {"idle", "sdhc", "cid", "rca", "select"} => Before
  BY DEF EInv, CardInv, Untouched
<1>7. CASE AttemptFails /\ stage \in {"rca", "select"}
  <2>1. outcome' = outcome
    BY <1>7 DEF Succeeded
  <2>. QED BY <1>1, <1>2, <1>3, <1>7, <2>1, AttemptFailsStep
<1>8. ASSUME NEW s \in Steps \ {"failed", "read"}, Goto(s), Before',
             outcome' \in {"none", "ok"}, outcome' = "ok" => stage = "read" /\ s = "ready"
      PROVE  EInv'
  <2>1. stage' = s /\ tries' = tries /\ stage' # "failed" /\ stage' # "read" /\ stage' \in Steps
    BY <1>8 DEF Goto
  <2>2. app' \in BOOLEAN
    BY <1>2, Zenon DEF BusIdle
  <2>3. EmmcTypeOK'
    BY <1>1, <1>2, <1>3, <1>8, <2>1, <2>2 DEF EmmcTypeOK, BusIdle, DeviceOK, DevType, TriesType
  <2>4. stage # "failed"
    BY <1>1 DEF CommandSteps, ReadSteps
  <2>5. RestInv'
    BY <1>1, <1>8, <2>1, <2>4, SameReach DEF RestInv, Sectors
  <2>. QED BY <1>2, <2>3, <2>5, IdleInv, PTL
<1>9. dev \in DevType
  BY <1>1 DEF EmmcTypeOK, DevType
<1>10. CASE stage \in {"idle", "ifcond", "iocond"}
  <2>1. PICK s \in {"ifcond", "iocond", "ocr"} : Goto(s) /\ outcome' = outcome
    BY <1>10 DEF Succeeded
  <2>2. Before'
    BY <1>5, <1>6, <1>10, <2>1 DEF Before, After, ReadyAgrees, Goto
  <2>. QED BY <1>4, <1>8, <2>1, <2>2 DEF Steps, CommandSteps
<1>11. CASE stage = "ocr"
  <2>1. Goto("sdhc") /\ outcome' = outcome /\ dev' = dev
    BY <1>11 DEF Succeeded, DeviceAfter
  <2>2. wait = "cmd" /\ dev.rca = 0
    BY <1>1, <1>11 DEF EInv, PhaseInv, CardInv, Answered, IsData, IsBusy, EmmcTypeOK
  <2>3. Before'
    BY <1>6, <1>11, <2>1, <2>2 DEF Before, ReadyAgrees, Goto
  <2>. QED BY <1>4, <1>8, <2>1, <2>3 DEF Steps, CommandSteps
<1>12. CASE stage = "sdhc" /\ resp.powered
  <2>1. Goto("clock") /\ outcome' = outcome /\ dev' = [dev EXCEPT !.sdhc = resp.ccs]
    BY <1>12 DEF Succeeded, DeviceAfter
  <2>2. dev'.sdhc = resp.ccs
    BY <1>9, <2>1 DEF DevType
  <2>3. CapacityKnown' /\ card.state = "ready"
    BY <1>5, <1>12, <2>2, Zenon DEF After, CapacityKnown
  <2>4. Before'
    BY <2>1, <2>3 DEF Before, ReadyAgrees, Goto
  <2>. QED BY <1>4, <1>8, <2>1, <2>4 DEF Steps, CommandSteps
<1>13. CASE stage = "sdhc" /\ ~resp.powered
  <2>1. Goto("sdhc") /\ outcome' = outcome /\ dev' = dev
    BY <1>13 DEF Succeeded, DeviceAfter
  <2>2. card.state = "idle" /\ card.rca = 0 /\ dev.rca = 0
    BY <1>5, <1>13 DEF After
  <2>3. Before'
    BY <2>1, <2>2 DEF Before, ReadyAgrees, Goto
  <2>. QED BY <1>4, <1>8, <2>1, <2>3 DEF Steps, CommandSteps
<1>14. CASE stage = "cid"
  <2>1. Goto("rca") /\ outcome' = outcome /\ dev' = dev
    BY <1>14 DEF Succeeded, DeviceAfter
  <2>2. card.state = "ident" /\ CapacityKnown'
    BY <1>5, <1>14, <2>1 DEF After, CapacityKnown
  <2>3. Before'
    BY <2>1, <2>2 DEF Before, ReadyAgrees, Goto
  <2>. QED BY <1>4, <1>8, <2>1, <2>3 DEF Steps, CommandSteps
<1>15. CASE stage = "rca" /\ ~AttemptFails
  <2>1. Goto("select") /\ outcome' = outcome /\ dev' = [dev EXCEPT !.rca = resp.rca]
    BY <1>15 DEF Succeeded, DeviceAfter
  <2>2. dev'.rca = resp.rca /\ dev'.sdhc = dev.sdhc
    BY <1>9, <2>1 DEF DevType
  <2>3. card.state = "stby" /\ card.rca = dev'.rca /\ CapacityKnown'
    BY <1>5, <1>15, <2>2 DEF After, CapacityKnown
  <2>4. Before'
    BY <2>1, <2>3 DEF Before, ReadyAgrees, Goto
  <2>. QED BY <1>4, <1>8, <2>1, <2>4 DEF Steps, CommandSteps
<1>16. CASE stage = "blocklen" \/ (stage = "select" /\ ~AttemptFails)
  <2>1. PICK s \in {"blocklen", "scr"} : Goto(s) /\ outcome' = outcome /\ dev' = dev
    BY <1>16 DEF Succeeded, DeviceAfter
  <2>2. card.state = "tran" /\ card.rca = dev.rca /\ CapacityKnown'
    BY <1>5, <1>6, <1>16, <2>1 DEF After, Before, CapacityKnown
  <2>3. Before'
    BY <2>1, <2>2 DEF Before, ReadyAgrees, Goto
  <2>. QED BY <1>4, <1>8, <2>1, <2>3 DEF Steps, CommandSteps
<1>17. CASE stage \in {"scr", "read"}
  <2>1. /\ Goto("ready") /\ outcome' = IF stage = "read" THEN "ok" ELSE outcome
        /\ dev' = IF stage = "scr" THEN [dev EXCEPT !.blockSize = SectorBytes] ELSE dev
    BY <1>17 DEF Succeeded, DeviceAfter
  <2>2. /\ card.state \in {"tran", "data"} /\ card.rca = dev.rca /\ CapacityKnown
        /\ stage = "read" => dev.blockSize = SectorBytes
    BY <1>6, <1>17 DEF Before, ReadyAgrees, CapacityKnown
  <2>3. dev'.rca = dev.rca /\ dev'.sdhc = dev.sdhc /\ dev'.blockSize = SectorBytes
    BY <1>9, <1>17, <2>1, <2>2 DEF DevType
  <2>4. CapacityKnown'
    BY <2>2, <2>3 DEF CapacityKnown
  <2>5. Before'
    BY <2>1, <2>2, <2>3, <2>4 DEF Before, ReadyAgrees, Goto, CapacityKnown
  <2>. QED BY <1>4, <1>8, <2>1, <2>5 DEF Steps
<1>18. CASE stage = "sdhc"
  BY <1>12, <1>13, <1>18, Zenon
<1>19. CASE stage \in {"rca", "select", "blocklen"}
  BY <1>7, <1>15, <1>16, <1>19
<1>20. \/ stage \in {"idle", "ifcond", "iocond"} \/ stage = "ocr" \/ stage = "sdhc"
       \/ stage = "cid" \/ stage \in {"rca", "select", "blocklen"} \/ stage \in {"scr", "read"}
  BY <1>1 DEF CommandSteps, ReadSteps
<1>. QED BY <1>10, <1>11, <1>14, <1>17, <1>18, <1>19, <1>20, Zenon

LEMMA LastErrorType == \A f : LastError(f) \in {"none", "timeout", "other"}
BY DEF LastError

LEMMA CollectStep ==
    ASSUME EInv, Collect
    PROVE  EInv'
<1>1. /\ EmmcTypeOK /\ wait = "cmd" /\ stage \in CommandSteps /\ dev \in DevType
      /\ intFlags \cap (Errors \cup {"cmd"}) = intFlags
      /\ intFlags \ (intFlags \cap (Errors \cup {"cmd"})) = {}
  BY DEF EInv, PhaseInv, EmmcTypeOK, Collect, DevType
<1>2. UNCHANGED <<resp, card, req, faults, budget>>
  BY DEF Collect
<1>3. CASE intFlags = {} /\ hw = "quiet" /\ Failed(intFlags, dev) /\ UNCHANGED <<bus, hw, buf>>
  <2>1. Lost
    BY <1>1, <1>3 DEF Lost
  <2>2. Failed({}, dev) /\ UNCHANGED <<bus, hw, resp, card, req, buf, faults, budget>>
    BY <1>2, <1>3
  <2>. QED BY <1>1, <2>1, <2>2, FailedStep
<1>4. CASE /\ intFlags # {} /\ intFlags # {"cmd"}
           /\ Failed({}, [dev EXCEPT !.lastError = LastError(intFlags)])
           /\ UNCHANGED <<bus, hw, buf>>
  <2>1. Lost
    BY <1>1, <1>4 DEF Lost, EInv, PhaseInv, EmmcTypeOK, Errors
  <2> DEFINE d == [dev EXCEPT !.lastError = LastError(intFlags)]
  <2>2. /\ d \in DevType /\ d.rca = dev.rca /\ d.sdhc = dev.sdhc
        /\ d.blockSize = dev.blockSize /\ d.blocks = dev.blocks
    BY <1>1, LastErrorType DEF DevType
  <2>3. Failed({}, d) /\ UNCHANGED <<bus, hw, resp, card, req, buf, faults, budget>>
    BY <1>2, <1>4
  <2> HIDE DEF d
  <2>. QED BY <1>1, <2>1, <2>2, <2>3, FailedStep
<1>5. CASE /\ intFlags = {"cmd"} /\ app
           /\ app' = FALSE /\ hw' = "asked"
           /\ bus' = [bus EXCEPT !.arg = OcrArgument]
           /\ intFlags' = {}
           /\ UNCHANGED <<stage, wait, tries, dev, v2, buf, outcome>>
  <2>1. stage \in AppSteps /\ stage \notin {"read", "select", "rca"}
    BY <1>5 DEF EInv, PhaseInv, AppSteps
  <2>2. bus' \in [arg : Nat, left : Int]
    <3>1. OcrArgument \in Nat
      BY DEF OcrArgument
    <3>. QED BY <1>1, <1>5, <3>1 DEF EmmcTypeOK
  <2>3. app' \in BOOLEAN
    BY <1>5, Zenon
  <2>4. EmmcTypeOK'
    BY <1>1, <1>2, <1>5, <2>2, <2>3 DEF EmmcTypeOK
  <2>5. PhaseInv'
    BY <1>1, <1>5 DEF PhaseInv
  <2>6. Before'
    BY <1>2, <1>5 DEF EInv, CardInv, Untouched, Before, CapacityKnown, ReadyAgrees
  <2>7. stage = "ocr" => dev.rca = 0
    BY <1>5 DEF EInv, CardInv, Untouched, Before
  <2>8. CardInv'
    BY <1>5, <2>1, <2>6, <2>7 DEF CardInv, Untouched
  <2>9. DataInv'
    BY <1>2, <1>5, <2>1, SameReach DEF EInv, DataInv, Sectors
  <2>10. FaultInv'
    BY <1>2, <1>5, <2>1 DEF EInv, FaultInv, Lost, Excused
  <2>. QED BY <2>4, <2>5, <2>8, <2>9, <2>10 DEF EInv
<1>6. CASE /\ intFlags = {"cmd"} /\ IsData
           /\ wait' = "data" /\ buf' = <<>> /\ intFlags' = {}
           /\ UNCHANGED <<stage, app, tries, dev, v2, bus, hw, outcome>>
  <2>1. stage \in {"scr", "read"} /\ ~app /\ hw = "busy"
    BY <1>1, <1>6 DEF EInv, PhaseInv, IsData, EmmcTypeOK
  <2>2. EmmcTypeOK'
    BY <1>1, <1>2, <1>6 DEF EmmcTypeOK
  <2>3. PhaseInv'
    BY <1>1, <1>6, <2>1 DEF PhaseInv, IsData
  <2>4. CardInv'
    BY <1>1, <1>2, <1>6, <2>1 DEF EInv, CardInv, Untouched, Before, CapacityKnown, ReadyAgrees
  <2>5. req[1] \in Nat /\ req[2] \in Nat \ {0}
    BY <1>1, RequestTypes DEF EmmcTypeOK
  <2>6. <<>> = [i \in 1..0 |-> req[1] + i - 1] /\ Len(<<>>) = 0
    OBVIOUS
  <2>7. DataInv'
    BY <1>1, <1>2, <1>6, <2>1, <2>5, <2>6, SameReach DEF EInv, DataInv, Sectors
  <2>8. FaultInv'
    BY <1>1, <1>2, <1>6, <2>1 DEF EInv, FaultInv, Lost, Excused
  <2>. QED BY <2>2, <2>3, <2>4, <2>7, <2>8 DEF EInv
<1>7. CASE /\ intFlags = {"cmd"} /\ IsBusy
           /\ wait' = "done" /\ intFlags' = {}
           /\ UNCHANGED <<stage, app, tries, dev, v2, bus, hw, buf, outcome>>
  <2>1. stage = "select" /\ ~app /\ hw = "busy"
    BY <1>1, <1>7 DEF EInv, PhaseInv, IsBusy, EmmcTypeOK
  <2>2. EmmcTypeOK'
    BY <1>1, <1>2, <1>7 DEF EmmcTypeOK
  <2>3. PhaseInv'
    BY <1>1, <1>7, <2>1 DEF PhaseInv, IsBusy
  <2>4. CardInv'
    BY <1>1, <1>2, <1>7, <2>1 DEF EInv, CardInv, Untouched, After, CapacityKnown
  <2>5. DataInv'
    BY <1>1, <1>2, <1>7, <2>1, SameReach DEF EInv, DataInv, Sectors
  <2>6. FaultInv'
    BY <1>1, <1>2, <1>7, <2>1 DEF EInv, FaultInv, Lost, Excused
  <2>. QED BY <2>2, <2>3, <2>4, <2>5, <2>6 DEF EInv
<1>8. CASE /\ intFlags = {"cmd"} /\ ~app /\ ~IsData /\ ~IsBusy
           /\ Succeeded(resp, {}, dev) /\ UNCHANGED <<bus, hw, buf>>
  <2>1. hw = "quiet"
    BY <1>1, <1>8 DEF EInv, PhaseInv, EmmcTypeOK
  <2>2. app = FALSE
    BY <1>1, <1>8, Zenon DEF EmmcTypeOK
  <2>3. Answered /\ stage # "read"
    BY <1>1, <1>8, <2>1, <2>2 DEF Answered, IsData
  <2>4. UNCHANGED <<bus, hw, resp, card, req, buf, faults, budget>>
    BY <1>2, <1>8
  <2>. QED BY <1>8, <2>3, <2>4, SucceededStep
<1>. QED BY <1>1, <1>3, <1>4, <1>5, <1>6, <1>7, <1>8, Zenon DEF Collect

LEMMA ResetHostStep ==
    ASSUME EInv, ResetHost
    PROVE  EInv'
<1>1. /\ EmmcTypeOK /\ stage = "reset" /\ wait = "none" /\ dev \in DevType /\ BusIdle
      /\ faults \in Nat /\ budget \in 0..FaultBudget /\ outcome = "none"
      /\ tries.init < MaxAttempts
      /\ UNCHANGED <<wait, app, bus, resp, v2, card, req, buf, outcome>>
  <2>1. wait = "none" /\ stage = "reset"
    BY DEF ResetHost
  <2>2. app = FALSE
    BY <2>1 DEF EInv, PhaseInv, EmmcTypeOK
  <2>3. hw = "quiet"
    BY <2>1 DEF EInv, PhaseInv
  <2>. QED BY <2>1, <2>2, <2>3 DEF EInv, EmmcTypeOK, PhaseInv, DataInv, FaultInv, ResetHost, BusIdle,
                                  DevType
<1>2. CASE /\ intFlags' = {} /\ hw' = "quiet" /\ stage' = "idle"
           /\ dev' = [dev EXCEPT !.blocks = 0, !.blockSize = 0]
           /\ faults' = 0
           /\ UNCHANGED <<tries, budget>>
  <2>1. dev' \in DevType
    BY <1>1, <1>2 DEF DevType
  <2>2. BusIdle'
    BY <1>1, <1>2 DEF BusIdle
  <2>3. EmmcTypeOK'
    BY <1>1, <1>2, <2>1, ConstantTypes DEF EmmcTypeOK, DevType, Steps, CommandSteps
  <2>4. RestInv'
    BY <1>1, <1>2, ConstantTypes DEF RestInv, Before, ReadyAgrees
  <2>. QED BY <2>2, <2>3, <2>4, IdleInv, PTL
<1>3. CASE /\ budget > 0 /\ budget' = budget - 1 /\ faults' = 1
           /\ AttemptFails
           /\ UNCHANGED <<intFlags, hw, dev>>
  <2>1. BusIdle'
    BY <1>1, <1>3 DEF BusIdle
  <2>2. DeviceOK'
    BY <1>1, <1>3 DEF DeviceOK, EmmcTypeOK
  <2>3. faults' \in Nat /\ budget' \in Nat /\ faults' + budget' <= FaultBudget
    BY <1>1, <1>3, ConstantTypes
  <2>. QED BY <1>1, <1>3, <2>1, <2>2, <2>3, AttemptFailsStep
<1>. QED BY <1>2, <1>3 DEF ResetHost

LEMMA SwitchClockStep ==
    ASSUME EInv, SwitchClock
    PROVE  EInv'
<1>1. /\ stage = "clock" /\ hw = "quiet" /\ stage' = "cid" /\ wait = "none" /\ app = FALSE
      /\ EmmcTypeOK
      /\ UNCHANGED <<wait, app, bus, hw, intFlags, resp, dev, v2, tries, card, req, buf,
                     outcome, faults, budget>>
  BY DEF EInv, PhaseInv, EmmcTypeOK, SwitchClock, CommandSteps, ReadSteps
<1>2. BusIdle'
  BY <1>1 DEF BusIdle, EInv, PhaseInv
<1>3. EmmcTypeOK'
  BY <1>1 DEF EmmcTypeOK, Steps, CommandSteps
<1>4. Before'
  BY <1>1 DEF EInv, CardInv, Untouched, Before, CapacityKnown, ReadyAgrees
<1>5. RestInv'
  BY <1>1, <1>4 DEF EInv, DataInv, FaultInv, RestInv
<1>. QED BY <1>2, <1>3, <1>5, IdleInv, PTL

LEMMA ReadStep ==
    ASSUME EInv, Read
    PROVE  EInv'
<1>1. /\ stage = "ready" /\ stage' = "read" /\ wait = "none" /\ app = FALSE /\ EmmcTypeOK
      /\ outcome' = "none" /\ faults' = 0 /\ req' \in Requests
      /\ tries' = [tries EXCEPT !.data = 0] /\ dev' = [dev EXCEPT !.blocks = req'[2]]
      /\ UNCHANGED <<wait, app, bus, hw, intFlags, resp, v2, card, buf, budget>>
  BY DEF EInv, PhaseInv, EmmcTypeOK, Read, CommandSteps, ReadSteps
<1>2. BusIdle'
  BY <1>1 DEF BusIdle, EInv, PhaseInv
<1>3. /\ dev \in DevType /\ req'[2] \in Nat /\ tries \in TriesType
      /\ budget \in 0..FaultBudget /\ tries.init < MaxAttempts
  BY <1>1, RequestTypes DEF EInv, FaultInv, EmmcTypeOK, DevType, TriesType
<1>4. dev' \in DevType /\ tries' \in TriesType
  BY <1>1, <1>3, ConstantTypes DEF DevType, TriesType
<1>5. /\ dev'.blocks = req'[2] /\ dev'.rca = dev.rca /\ dev'.sdhc = dev.sdhc
      /\ dev'.blockSize = dev.blockSize
  BY <1>1, <1>3 DEF DevType
<1>5a. tries'.data = 0 /\ tries'.init = tries.init
  BY <1>1, <1>3 DEF TriesType
<1>6. EmmcTypeOK'
  BY <1>1, <1>4, ConstantTypes DEF EmmcTypeOK, DevType, TriesType, Steps, CommandSteps, ReadSteps
<1>7. Before'
  BY <1>1, <1>5 DEF EInv, CardInv, Untouched, Before, CapacityKnown, ReadyAgrees
<1>8. RestInv'
  BY <1>1, <1>3, <1>5, <1>5a, <1>7, ConstantTypes DEF RestInv
<1>. QED BY <1>2, <1>6, <1>8, IdleInv, PTL

LEMMA ResetCommandFailsStep ==
    ASSUME EInv, ResetCommandFails
    PROVE  EInv'
<1>1. /\ EmmcTypeOK /\ wait = "cmd" /\ stage \in {"ifcond", "iocond"} /\ dev \in DevType
      /\ intFlags \cap (Errors \cup {"cmd"}) = intFlags /\ intFlags' = {}
      /\ intFlags # {"cmd"} /\ (intFlags = {} => hw = "quiet")
      /\ wait' = "none" /\ app' = FALSE
      /\ UNCHANGED <<bus, hw, resp, card, req, buf, outcome>>
  BY DEF EInv, PhaseInv, EmmcTypeOK, ResetCommandFails, DevType
<1>2. BusIdle'
  <2>1. hw = "quiet"
    BY <1>1 DEF EInv, PhaseInv, EmmcTypeOK
  <2>. QED BY <1>1, <2>1 DEF BusIdle
<1>3. DeviceOK'
  <2>1. v2' \in BOOLEAN
    BY <1>1, Zenon DEF ResetCommandFails, EmmcTypeOK
  <2>2. \E e : dev' = [dev EXCEPT !.lastError = e] /\ e = "timeout"
    BY DEF ResetCommandFails
  <2>3. dev' \in DevType
    BY <1>1, <2>2 DEF DevType
  <2>. QED BY <2>1, <2>3 DEF DeviceOK
<1>4. /\ faults \in Nat /\ budget \in Nat /\ faults + budget <= FaultBudget
      /\ budget > 0 /\ budget' = budget - 1 /\ faults' = faults + 1
      /\ tries \in TriesType /\ tries.init < MaxAttempts /\ outcome = "none"
  <2>1. budget > 0 /\ budget' = budget - 1 /\ faults' = faults + 1
    BY Zenon DEF ResetCommandFails, Fault
  <2>. QED BY <1>1, <2>1, ConstantTypes DEF EInv, FaultInv, DataInv, EmmcTypeOK, TriesType
<1>5. faults' \in Nat /\ budget' \in Nat /\ faults' + budget' <= FaultBudget
  BY <1>4, ConstantTypes
<1>6. CASE stage = "iocond"
  <2>1. AttemptFails
    BY <1>6 DEF ResetCommandFails
  <2>. QED BY <1>1, <1>2, <1>3, <1>5, <2>1, AttemptFailsStep
<1>7. CASE stage = "ifcond"
  <2>1. stage' = "iocond" /\ tries' = tries
    BY <1>7 DEF ResetCommandFails, Goto
  <2>2. faults' \in 0..FaultBudget /\ budget' \in 0..FaultBudget
    BY <1>5, FaultSum, Zenon
  <2>3. app' \in BOOLEAN
    BY <1>1, Zenon
  <2>4. EmmcTypeOK'
    BY <1>1, <1>3, <2>1, <2>2, <2>3 DEF EmmcTypeOK, DeviceOK, DevType, Steps, CommandSteps
  <2>5. card.state = "idle" /\ card.rca = 0
    BY <1>7 DEF EInv, CardInv, Untouched, Before
  <2>6. Before'
    BY <1>1, <2>1, <2>5 DEF Before, ReadyAgrees
  <2>7. RestInv'
    BY <1>1, <1>4, <1>5, <2>1, <2>6 DEF RestInv
  <2>. QED BY <1>2, <2>4, <2>7, IdleInv, PTL
<1>. QED BY <1>1, <1>6, <1>7

LEMMA ArgumentType == EmmcTypeOK => Argument \in Nat
<1> SUFFICES ASSUME EmmcTypeOK PROVE Argument \in Nat
  OBVIOUS
<1>1. dev.rca \in Nat
  <2>1. dev.rca \in Rcas \cup {0}
    BY DEF EmmcTypeOK
  <2>. QED BY <2>1, RcaTypes
<1>2. req[1] \in Nat
  BY RequestTypes DEF EmmcTypeOK
<1>3. \A x \in Nat : x % ArgumentSpace \in Nat
  BY ConstantTypes
<1>4. \A x, y \in Nat : x * y \in Nat
  OBVIOUS
<1>5. (req[1] * SectorBytes) % ArgumentSpace \in Nat
  BY <1>2, <1>3, <1>4, ConstantTypes, Zenon
<1>. QED BY <1>1, <1>2, <1>5 DEF Argument

LEMMA IssueStep ==
    ASSUME EInv, Issue
    PROVE  EInv'
<1>1. /\ EmmcTypeOK /\ wait = "none" /\ stage \in CommandSteps /\ dev \in DevType
      /\ wait' = "cmd" /\ hw' = "asked" /\ intFlags = {}
      /\ UNCHANGED <<stage, intFlags, resp, v2, tries, card, req, buf, outcome, faults, budget>>
  BY DEF EInv, PhaseInv, EmmcTypeOK, Issue, DevType
<1>2. app' = (stage \in AppSteps)
  BY DEF Issue
<1>3. app' \in BOOLEAN /\ (app' <=> stage \in AppSteps)
  <2>1. (stage \in AppSteps) \in BOOLEAN
    OBVIOUS
  <2>. QED BY <1>2, <2>1, Zenon
<1>4. /\ dev' \in DevType /\ dev'.rca = dev.rca /\ dev'.sdhc = dev.sdhc
      /\ stage # "scr" => dev' = dev
  BY <1>1 DEF Issue, DevType
<1>5. bus' = [arg |-> IF stage \in AppSteps THEN dev.rca ELSE Argument, left |-> 0]
  BY DEF Issue
<1>6. bus' \in [arg : Nat, left : Int]
  <2>1. dev.rca \in Nat
    <3>1. dev.rca \in Rcas \cup {0}
      BY <1>1 DEF DevType
    <3>. QED BY <3>1, RcaTypes
  <2>. QED BY <1>1, <1>5, <2>1, ArgumentType
<1>7. EmmcTypeOK'
  BY <1>1, <1>3, <1>4, <1>6 DEF EmmcTypeOK, DevType
<1>8. PhaseInv'
  BY <1>1, <1>3 DEF PhaseInv
<1>9. Before
  BY <1>1 DEF EInv, CardInv, Untouched
<1>10. Before'
  <2>1. CapacityKnown => CapacityKnown'
    BY <1>1, <1>4 DEF CapacityKnown
  <2>2. ReadyAgrees'
    BY <1>1, <1>4, <1>9 DEF Before, ReadyAgrees
  <2>. QED BY <1>1, <1>4, <1>9, <2>1, <2>2 DEF Before
<1>11. CardInv'
  <2>1. app' => bus'.arg = dev'.rca
    BY <1>3, <1>4, <1>5
  <2>2. stage = "select" => bus'.arg = dev'.rca
    BY <1>4, <1>5 DEF AppSteps, Argument
  <2>3. stage = "ocr" => app'
    BY <1>3 DEF AppSteps
  <2>. QED BY <1>1, <1>10, <2>1, <2>2, <2>3 DEF CardInv, Untouched
<1>12. DataInv'
  <2>1. stage = "read" => bus'.arg = Argument /\ Argument' = Argument /\ dev' = dev
    BY <1>1, <1>4, <1>5 DEF AppSteps, Argument
  <2>. QED BY <1>1, <2>1, SameReach DEF EInv, DataInv, Sectors
<1>13. FaultInv'
  BY <1>1 DEF EInv, FaultInv, Lost, Excused
<1>. QED BY <1>7, <1>8, <1>11, <1>12, <1>13 DEF EInv

LEMMA FinishStep ==
    ASSUME EInv, Finish
    PROVE  EInv'
<1>1. /\ EmmcTypeOK /\ wait = "done" /\ dev \in DevType
      /\ intFlags \subseteq Errors \cup {"done"}
      /\ intFlags \ (Errors \cup {"done"}) = {}
      /\ UNCHANGED <<bus, hw, resp, card, req, buf, faults, budget>>
  BY DEF EInv, PhaseInv, EmmcTypeOK, Finish, DevType
<1>2. CASE TransferOk(intFlags)
  <2>1. "done" \in intFlags
    BY <1>2 DEF TransferOk
  <2>2. hw = "quiet"
    BY <1>1, <2>1 DEF EInv, PhaseInv, EmmcTypeOK
  <2>3. app = FALSE
    BY <1>1 DEF EInv, PhaseInv, EmmcTypeOK
  <2>4. Answered
    BY <1>1, <2>2, <2>3 DEF Answered
  <2>5. stage = "read" /\ InReach => buf = Sectors(req[2])
    BY <1>1, <2>1 DEF EInv, DataInv
  <2>6. Succeeded(resp, {}, dev)
    BY <1>1, <1>2 DEF Finish
  <2>. QED BY <1>1, <2>4, <2>5, <2>6, SucceededStep
<1>3. CASE ~TransferOk(intFlags)
  <2>1. "done" \notin intFlags
    <3>1. SUFFICES ASSUME "done" \in intFlags PROVE FALSE
      OBVIOUS
    <3>2. intFlags \in {{"done"}, {"done", "dataTimeout"}}
      BY <1>1, <3>1 DEF EInv, PhaseInv
    <3>3. intFlags \cap (Errors \cup {"done"}) = intFlags
      BY <1>1
    <3>. QED BY <1>3, <3>2, <3>3 DEF TransferOk
  <2>2. hw = "quiet"
    BY <1>1, <2>1 DEF EInv, PhaseInv, EmmcTypeOK, Finish
  <2>3. Lost
    BY <1>1, <2>1, <2>2 DEF Lost
  <2> DEFINE d == [dev EXCEPT !.lastError = LastError(intFlags)]
  <2>4. /\ d \in DevType /\ d.rca = dev.rca /\ d.sdhc = dev.sdhc
        /\ d.blockSize = dev.blockSize /\ d.blocks = dev.blocks
    BY <1>1, LastErrorType DEF DevType
  <2>5. Failed({}, d)
    BY <1>1, <1>3 DEF Finish
  <2> HIDE DEF d
  <2>. QED BY <1>1, <2>3, <2>4, <2>5, FailedStep
<1>. QED BY <1>2, <1>3

LEMMA DrainStep ==
    ASSUME EInv, Drain
    PROVE  EInv'
<1>1. /\ EmmcTypeOK /\ wait = "data" /\ dev \in DevType /\ ~app /\ stage \in {"scr", "read"}
      /\ intFlags \subseteq Errors \cup {"ready"} /\ hw \in {"busy", "quiet"}
      /\ intFlags' = intFlags \ {"ready"} /\ intFlags' \subseteq Errors
      /\ UNCHANGED <<stage, app, resp, v2, tries, card, req, outcome, faults, budget>>
  BY DEF EInv, PhaseInv, EmmcTypeOK, Drain, DevType, IsData
<1>2. "done" \notin intFlags /\ "done" \notin intFlags' /\ outcome = "none"
  BY <1>1 DEF Errors, EInv, DataInv
<1>3. Before /\ stage \in CommandSteps
  BY <1>1 DEF EInv, CardInv, Untouched, CommandSteps, ReadSteps
<1>4. CASE intFlags \cap Errors # {}
  <2>1. /\ dev' = [dev EXCEPT !.lastError = LastError(intFlags)] /\ wait' = "done"
        /\ buf' = buf /\ bus' = bus /\ hw' = hw /\ hw = "quiet"
    BY <1>1, <1>4 DEF Drain, EInv, PhaseInv, Errors
  <2>2. /\ dev' \in DevType /\ dev'.rca = dev.rca /\ dev'.sdhc = dev.sdhc
        /\ dev'.blockSize = dev.blockSize /\ dev'.blocks = dev.blocks
    BY <1>1, <2>1, LastErrorType DEF DevType
  <2>3. EmmcTypeOK'
    BY <1>1, <2>1, <2>2 DEF EmmcTypeOK, DevType
  <2>4. PhaseInv'
    BY <1>1, <1>2, <1>3, <2>1 DEF PhaseInv, IsData
  <2>5. Before'
    BY <1>1, <1>3, <2>2 DEF Before, ReadyAgrees, CapacityKnown
  <2>6. CardInv'
    BY <1>1, <2>1, <2>5 DEF CardInv, Untouched
  <2>7. DataInv'
    BY <1>1, <1>2, <2>1, <2>2, SameReach DEF EInv, DataInv, Sectors
  <2>8. FaultInv'
    BY <1>1, <1>2, <2>1 DEF EInv, FaultInv, Lost, Excused
  <2>. QED BY <2>3, <2>4, <2>6, <2>7, <2>8 DEF EInv
<1>5. CASE intFlags \cap Errors = {}
  <2>1. /\ buf' = Append(buf, IF "ready" \in intFlags THEN bus.arg ELSE Garbage)
        /\ bus' = [bus EXCEPT !.arg = @ + 1, !.left = @ - 1]
        /\ wait' = IF Len(buf) + 1 = dev.blocks THEN "done" ELSE "data"
        /\ dev' = dev /\ hw' = IF "ready" \in intFlags THEN "busy" ELSE hw
        /\ intFlags' = {}
    BY <1>1, <1>5 DEF Drain
  <2>2. /\ "ready" \in intFlags => hw = "busy"
        /\ "ready" \notin intFlags => hw = "quiet"
        /\ hw' = hw
    BY <1>1, <1>5, <2>1 DEF EInv, PhaseInv, Drain
  <2>3. bus.arg \in Nat /\ bus.left \in Int /\ bus'.arg = bus.arg + 1 /\ bus'.left = bus.left - 1
    BY <1>1, <2>1 DEF EmmcTypeOK
  <2>4. bus' \in [arg : Nat, left : Int]
    <3>1. bus' = [arg |-> bus'.arg, left |-> bus'.left]
      BY <1>1, <2>1 DEF EmmcTypeOK
    <3>. QED BY <2>3, <3>1
  <2>5. buf' \in Seq(Int)
    BY <1>1, <2>1, <2>3 DEF EmmcTypeOK, Garbage
  <2>6. EmmcTypeOK'
    BY <1>1, <2>1, <2>4, <2>5 DEF EmmcTypeOK
  <2>7. PhaseInv'
    BY <1>1, <1>3, <2>1, <2>2 DEF PhaseInv, IsData
  <2>8. CardInv'
    BY <1>1, <1>3, <2>1 DEF CardInv, Untouched, Before, ReadyAgrees, CapacityKnown
  <2>9. ASSUME stage = "read", hw = "busy", InReach
        PROVE  /\ Len(buf') = Len(buf) + 1 /\ Len(buf) + 1 <= req[2] /\ Len(buf) \in Nat
               /\ buf' = Sectors(Len(buf) + 1) /\ bus'.arg = req[1] + (Len(buf) + 1)
    <3>1. /\ Len(buf) < req[2] /\ buf = Sectors(Len(buf)) /\ bus.arg = req[1] + Len(buf)
      BY <1>1, <2>9 DEF EInv, DataInv
    <3>2. req[1] \in Nat /\ req[2] \in Nat /\ Len(buf) \in Nat /\ buf \in Seq(Int)
      BY <1>1, RequestTypes DEF EmmcTypeOK
    <3>3. buf' = Append(buf, req[1] + Len(buf))
      BY <2>1, <2>2, <2>9, <3>1
    <3>4. /\ buf' \in Seq(Int) /\ Len(buf') = Len(buf) + 1
          /\ \A i \in 1..Len(buf) : buf'[i] = buf[i]
          /\ buf'[Len(buf) + 1] = req[1] + Len(buf)
      BY <3>2, <3>3
    <3>5. \A i \in 1..Len(buf) : buf[i] = req[1] + i - 1
      BY <3>1 DEF Sectors
    <3>6. \A i \in 1..Len(buf) + 1 : buf'[i] = req[1] + i - 1
      <4>1. \A i \in 1..Len(buf) + 1 : i \in 1..Len(buf) \/ i = Len(buf) + 1
        BY <3>2
      <4>2. req[1] + Len(buf) = req[1] + (Len(buf) + 1) - 1
        BY <3>2
      <4>. QED BY <3>4, <3>5, <4>1, <4>2, Zenon
    <3>7. buf' = [i \in 1..Len(buf) + 1 |-> buf'[i]]
      BY <3>4
    <3>8. buf' = Sectors(Len(buf) + 1)
      BY <3>6, <3>7 DEF Sectors
    <3>9. Len(buf) + 1 <= req[2]
      BY <3>1, <3>2
    <3>10. bus'.arg = req[1] + (Len(buf) + 1)
      BY <2>3, <3>1, <3>2
    <3>. QED BY <3>2, <3>4, <3>8, <3>9, <3>10, Zenon
  <2>10. DataInv'
    <3>1. stage = "read" => dev.blocks = req[2]
      BY DEF EInv, DataInv
    <3>2. ASSUME stage = "read", hw = "busy", InReach, wait' = "data"
          PROVE  Len(buf') < req[2] /\ buf' = Sectors(Len(buf')) /\ bus'.arg = req[1] + Len(buf')
      <4>1. Len(buf) + 1 # req[2] /\ req[2] \in Nat
        BY <1>1, <2>1, <3>1, <3>2, RequestTypes DEF EmmcTypeOK
      <4>. QED BY <2>9, <3>2, <4>1
    <3>3. ASSUME stage = "read", hw = "busy", InReach, wait' = "done"
          PROVE  buf' = Sectors(req[2])
      <4>1. Len(buf) + 1 = req[2]
        BY <2>1, <3>1, <3>3
      <4>. QED BY <2>9, <3>3, <4>1
    <3>. QED BY <1>1, <1>2, <2>1, <2>2, <3>1, <3>2, <3>3, SameReach DEF DataInv, Sectors
  <2>11. FaultInv'
    BY <1>1, <1>2, <2>1, <2>2 DEF EInv, FaultInv, Lost, Excused
  <2>. QED BY <2>6, <2>7, <2>8, <2>10, <2>11 DEF EInv
<1>. QED BY <1>4, <1>5

CardType ==
    [kind : CardKinds, rca : Rcas \cup {0}, powered : BOOLEAN,
     state : {"idle", "ready", "ident", "stby", "tran", "data"}]

\* The card is as it was, or waits for the end of a read that was cut off.
Spoilt(c, d) ==
    /\ d \in CardType
    /\ \/ d = c
       \/ /\ stage = "read" /\ d.state = "data"
          /\ d.kind = c.kind /\ d.rca = c.rca

LEMMA CutOffCard == EmmcTypeOK => \A d \in CutOff : Spoilt(card, d)
<1> SUFFICES ASSUME EmmcTypeOK, NEW d \in CutOff PROVE Spoilt(card, d)
  OBVIOUS
<1>1. card \in CardType
  BY DEF EmmcTypeOK, CardType
<1>2. d = card \/ (stage = "read" /\ d = [card EXCEPT !.state = "data"])
  BY DEF CutOff
<1>. QED BY <1>1, <1>2 DEF Spoilt, CardType

\* A fault: the controller gives up, whatever it reports of it, and the card
\* may be spoilt.
LEMMA FaultStep ==
    ASSUME EInv, wait # "none", hw # "quiet", Fault, hw' = "quiet", card' \in CardType,
           Spoilt(card, card') \/ (wait = "cmd" /\ ~Untouched'),
           intFlags' \subseteq Errors \cup {"cmd"}, intFlags' # {"cmd"},
           wait \in {"data", "done"} => intFlags' \subseteq Errors,
           UNCHANGED <<stage, wait, app, bus, resp, dev, v2, tries, req, buf, outcome>>,
           Untouched' \/ wait = "cmd" \/ (After /\ ~Untouched)
    PROVE  EInv'
<1>1. /\ EmmcTypeOK /\ stage \in CommandSteps /\ outcome = "none"
      /\ "done" \notin intFlags' /\ "ready" \notin intFlags'
  BY DEF EInv, PhaseInv, DataInv, CommandSteps, ReadSteps, Errors
<1>2. /\ faults \in Nat /\ budget \in Nat /\ faults + budget <= FaultBudget
      /\ budget > 0 /\ budget' = budget - 1 /\ faults' = faults + 1
  <2>1. budget > 0 /\ budget' = budget - 1 /\ faults' = faults + 1
    BY Zenon DEF Fault
  <2>. QED BY <1>1, <2>1, ConstantTypes DEF EInv, FaultInv, EmmcTypeOK
<1>3. /\ faults' \in 0..FaultBudget /\ budget' \in 0..FaultBudget
      /\ faults' + budget' <= FaultBudget
  BY <1>2, ConstantTypes
<1>4. /\ Untouched' => Spoilt(card, card')
      /\ wait # "cmd" => Spoilt(card, card')
  OBVIOUS
<1>5. EmmcTypeOK'
  BY <1>1, <1>3 DEF EmmcTypeOK, CardType
<1>6. PhaseInv'
  BY <1>1 DEF EInv, PhaseInv, IsData, IsBusy
<1>7. CardInv'
  <2>1. Untouched' => Before'
    <3>1. SUFFICES ASSUME Untouched' PROVE Before'
      OBVIOUS
    <3>2. Untouched /\ Before
      BY <3>1 DEF EInv, CardInv, Untouched
    <3>3. card'.kind = card.kind /\ card'.rca = card.rca
      BY <1>4, <3>1 DEF Spoilt
    <3>5. card'.state = card.state \/ (stage = "read" /\ card'.state = "data")
      BY <1>4, <3>1 DEF Spoilt
    <3>6. CapacityKnown => CapacityKnown'
      BY <3>3 DEF CapacityKnown
    <3>7. ReadyAgrees'
      BY <3>2, <3>3, <3>5 DEF Before, ReadyAgrees
    <3>. QED BY <3>2, <3>3, <3>5, <3>6, <3>7 DEF Before
  <2>2. ~Untouched' /\ (wait' = "cmd" => intFlags' = {"cmd"}) => After'
    <3>1. SUFFICES ASSUME ~Untouched', wait # "cmd" PROVE After'
      OBVIOUS
    <3>2. After /\ ~Untouched
      BY <3>1
    <3>3. card' = card
      BY <1>4, <3>1, <3>2 DEF Spoilt, Untouched
    <3>. QED BY <3>2, <3>3 DEF After, CapacityKnown
  <2>3. app => card' = card
    BY <1>4 DEF Spoilt, EInv, PhaseInv, AppSteps, Untouched
  <2>. QED BY <2>1, <2>2, <2>3 DEF EInv, CardInv
<1>8. DataInv'
  BY <1>1, SameReach DEF EInv, DataInv, Sectors
<1>9. FaultInv'
  <2>1. stage = "read" /\ Excused => Excused'
    BY <1>4 DEF Spoilt, Untouched, Excused
  <2>2. stage = "read" => faults' > tries.data \/ Excused'
    <3>1. stage = "read" => faults >= tries.data \/ Excused
      BY DEF EInv, FaultInv
    <3>2. tries.data \in Nat
      BY <1>1, ConstantTypes DEF EmmcTypeOK
    <3>. QED BY <1>2, <2>1, <3>1, <3>2
  <2>3. stage = "read" => faults' >= tries.data \/ Excused'
    <3>1. tries.data \in Nat
      BY <1>1, ConstantTypes DEF EmmcTypeOK
    <3>. QED BY <1>2, <2>2, <3>1
  <2>4. faults' # 0
    BY <1>2
  <2>. QED BY <1>1, <1>3, <2>2, <2>3, <2>4 DEF EInv, FaultInv, Excused
<1>. QED BY <1>5, <1>6, <1>7, <1>8, <1>9 DEF EInv

LEMMA DataReadyStep ==
    ASSUME EInv, DataReady
    PROVE  EInv'
<1>1. /\ EmmcTypeOK /\ wait = "data" /\ hw = "busy" /\ intFlags = {} /\ ~app
      /\ stage \in {"scr", "read"}
      /\ UNCHANGED <<stage, wait, app, bus, resp, dev, v2, tries, req, buf, outcome>>
  BY DEF EInv, PhaseInv, DataReady, IsData
<1>2. CASE intFlags' = intFlags \cup {"ready"} /\ NoFault /\ UNCHANGED <<hw, card>>
  <2>1. intFlags' = {"ready"} /\ hw' = hw /\ card' = card /\ faults' = faults /\ budget' = budget
    BY <1>1, <1>2 DEF NoFault
  <2>2. EmmcTypeOK'
    BY <1>1, <2>1 DEF EmmcTypeOK
  <2>3. PhaseInv'
    BY <1>1, <2>1 DEF EInv, PhaseInv, IsData
  <2>4. CardInv'
    BY <1>1, <2>1 DEF EInv, CardInv, Untouched, Before, ReadyAgrees, CapacityKnown
  <2>5. DataInv'
    BY <1>1, <2>1, SameReach DEF EInv, DataInv, Sectors
  <2>6. FaultInv'
    BY <1>1, <2>1 DEF EInv, FaultInv, Lost, Excused
  <2>. QED BY <2>2, <2>3, <2>4, <2>5, <2>6 DEF EInv
<1>3. CASE /\ Fault /\ hw' = "quiet" /\ card' \in CutOff
           /\ \E f \in {{"otherError"}, {"dataTimeout"}, {}} : intFlags' = intFlags \cup f
  <2>1. intFlags' \subseteq Errors /\ intFlags' # {"cmd"}
    BY <1>1, <1>3 DEF Errors
  <2>2. Spoilt(card, card') /\ card' \in CardType
    BY <1>1, <1>3, CutOffCard DEF Spoilt
  <2>3. Untouched'
    BY <1>1 DEF Untouched
  <2>. QED BY <1>1, <1>3, <2>1, <2>2, <2>3, FaultStep
<1>. QED BY <1>2, <1>3 DEF DataReady

LEMMA TransferDoneStep ==
    ASSUME EInv, TransferDone
    PROVE  EInv'
<1>1. /\ EmmcTypeOK /\ wait = "done" /\ hw = "busy" /\ intFlags = {} /\ ~app /\ hw' = "quiet"
      /\ stage \in {"scr", "read", "select"}
      /\ UNCHANGED <<stage, wait, app, bus, resp, dev, v2, tries, req, buf, outcome>>
  BY DEF EInv, PhaseInv, TransferDone, IsData, IsBusy
<1>2. ~Untouched => After
  BY <1>1 DEF EInv, CardInv
<1>3. Untouched' <=> Untouched
  BY <1>1 DEF Untouched
<1>4. ASSUME intFlags' \in {{"done"}, {"done", "dataTimeout"}}, card' = card,
             NoFault \/ Fault
      PROVE  EInv'
  <2>1. /\ faults' \in 0..FaultBudget /\ budget' \in 0..FaultBudget
        /\ faults' + budget' <= FaultBudget /\ faults' >= faults
        /\ faults \in Nat /\ faults' \in Nat
    <3>1. faults \in Nat /\ budget \in Nat /\ faults + budget <= FaultBudget
      BY <1>1, ConstantTypes DEF EInv, FaultInv, EmmcTypeOK
    <3>2. CASE NoFault
      <4>1. faults' = faults /\ budget' = budget
        BY <3>2 DEF NoFault
      <4>. QED BY <3>1, <4>1, ConstantTypes
    <3>3. CASE Fault
      <4>1. budget > 0 /\ budget' = budget - 1 /\ faults' = faults + 1
        BY <3>3, Zenon DEF Fault
      <4>. QED BY <3>1, <4>1, ConstantTypes
    <3>. QED BY <1>4, <3>2, <3>3
  <2>2. EmmcTypeOK'
    <3>1. intFlags' \subseteq Errors \cup {"cmd", "ready", "done"} /\ hw' \in {"quiet", "asked", "busy"}
      BY <1>1, <1>4 DEF Errors
    <3>2. UNCHANGED <<stage, wait, app, bus, resp, dev, v2, tries, req, buf, outcome, card>>
      BY <1>1, <1>4, Zenon
    <3>3. faults' \in 0..FaultBudget /\ budget' \in 0..FaultBudget
      BY <2>1, Zenon
    <3>. QED BY <1>1, <3>1, <3>2, <3>3, SMTT(30) DEF EmmcTypeOK
  <2>3. PhaseInv'
    BY <1>1, <1>4 DEF EInv, PhaseInv, IsData, IsBusy, Errors
  <2>4. CardInv'
    BY <1>1, <1>2, <1>3, <1>4
    DEF EInv, CardInv, Untouched, Before, After, ReadyAgrees, CapacityKnown
  <2>5. DataInv'
    BY <1>1, <1>4, SameReach DEF EInv, DataInv, Sectors
  <2>6. tries.data \in Nat
    BY <1>1, ConstantTypes DEF EmmcTypeOK
  <2>7. "done" \in intFlags'
    BY <1>4
  <2>8. outcome = "none"
    BY <1>1 DEF EInv, DataInv
  <2>9. FaultInv'
    <3>1. faults' = 0 => faults = 0
      BY <2>1
    <3>2. \A n \in Nat : faults >= n => faults' >= n
      BY <2>1
    <3>. QED BY <1>1, <1>4, <2>1, <2>6, <2>7, <2>8, <3>1, <3>2 DEF EInv, FaultInv, Lost, Excused
  <2>. QED BY <2>2, <2>3, <2>4, <2>5, <2>9 DEF EInv
<1>5. CASE intFlags' = intFlags \cup {"done"} /\ NoFault /\ UNCHANGED card
  BY <1>1, <1>4, <1>5
<1>6. CASE Fault /\ UNCHANGED card /\ intFlags' = intFlags \cup {"done", "dataTimeout"}
  BY <1>1, <1>4, <1>6
<1>7. CASE /\ Fault /\ card' \in CutOff
           /\ \E f \in {{"dataTimeout"}, {"otherError"}, {}} : intFlags' = intFlags \cup f
  <2>1. intFlags' \subseteq Errors /\ intFlags' # {"cmd"}
    BY <1>1, <1>7 DEF Errors
  <2>2. Spoilt(card, card') /\ card' \in CardType
    BY <1>1, <1>7, CutOffCard DEF Spoilt
  <2>. QED BY <1>1, <1>2, <1>3, <1>7, <2>1, <2>2, FaultStep
<1>. QED BY <1>5, <1>6, <1>7 DEF TransferDone

\* The bus is held, or released again, while the clock is set.
LEMMA HeldBusStep ==
    ASSUME EInv, stage = "clock", wait = "none", hw' \in {"quiet", "inhibited"},
           NoFault \/ Fault,
           UNCHANGED <<stage, wait, app, bus, intFlags, resp, dev, v2, tries, card, req, buf, outcome>>
    PROVE  EInv'
<1>1. EmmcTypeOK /\ app = FALSE /\ outcome = "none" /\ Before
  BY DEF EInv, EmmcTypeOK, PhaseInv, DataInv, CardInv, Untouched
<1>2. /\ faults \in Nat /\ budget \in Nat /\ faults + budget <= FaultBudget
      /\ faults' \in Nat /\ budget' \in Nat /\ faults' + budget' <= FaultBudget
  <2>1. faults \in Nat /\ budget \in Nat /\ faults + budget <= FaultBudget
    BY <1>1, ConstantTypes DEF EInv, FaultInv, EmmcTypeOK
  <2>2. CASE NoFault
    BY <2>1, <2>2 DEF NoFault
  <2>3. CASE Fault
    <3>1. budget > 0 /\ budget' = budget - 1 /\ faults' = faults + 1
      BY <2>3, Zenon DEF Fault
    <3>. QED BY <2>1, <3>1, ConstantTypes
  <2>. QED BY <2>2, <2>3
<1>3. faults' \in 0..FaultBudget /\ budget' \in 0..FaultBudget
  BY <1>2, FaultSum, Zenon
<1>4. EmmcTypeOK'
  BY <1>1, <1>3 DEF EmmcTypeOK
<1>5. PhaseInv'
  BY <1>1 DEF EInv, PhaseInv, IsData, IsBusy
<1>6. CardInv'
  BY <1>1 DEF CardInv, Untouched, Before, ReadyAgrees, CapacityKnown
<1>7. DataInv'
  BY <1>1 DEF DataInv
<1>8. FaultInv'
  BY <1>1, <1>2 DEF EInv, FaultInv, Lost
<1>. QED BY <1>4, <1>5, <1>6, <1>7, <1>8 DEF EInv

LEMMA InhibitStep ==
    ASSUME EInv, Inhibit
    PROVE  EInv'
<1>1. stage = "clock" /\ wait = "none" /\ hw' = "inhibited"
  BY DEF EInv, PhaseInv, Inhibit, CommandSteps, ReadSteps
<1>2. /\ Fault
      /\ UNCHANGED <<stage, wait, app, bus, intFlags, resp, dev, v2, tries, card, req, buf, outcome>>
  BY DEF Inhibit
<1>. QED BY <1>1, <1>2, HeldBusStep

LEMMA ReleaseStep ==
    ASSUME EInv, Release
    PROVE  EInv'
<1>1. stage = "clock" /\ wait = "none" /\ hw' = "quiet"
  BY DEF EInv, PhaseInv, Release
<1>2. /\ NoFault
      /\ UNCHANGED <<stage, wait, app, bus, intFlags, resp, dev, v2, tries, card, req, buf, outcome>>
  BY DEF Release, NoFault
<1>. QED BY <1>1, <1>2, HeldBusStep

LEMMA PowerUpStep ==
    ASSUME EInv, PowerUp
    PROVE  EInv'
<1>1. /\ EmmcTypeOK /\ stage = "sdhc" /\ card' = [card EXCEPT !.powered = TRUE]
      /\ UNCHANGED <<stage, wait, app, bus, hw, intFlags, resp, dev, v2, tries, req, buf,
                     outcome, faults, budget>>
  BY DEF EInv, PowerUp
<1>2. card' \in CardType
  BY <1>1 DEF EmmcTypeOK, CardType
<1>3. card'.kind = card.kind /\ card'.rca = card.rca /\ card'.state = card.state
  BY <1>1 DEF EmmcTypeOK
<1>4. EmmcTypeOK'
  BY <1>1, <1>2 DEF EmmcTypeOK, CardType
<1>5. PhaseInv'
  BY <1>1 DEF EInv, PhaseInv, IsData, IsBusy
<1>6. CardInv'
  BY <1>1, <1>3 DEF EInv, CardInv, Untouched, Before, After, ReadyAgrees, CapacityKnown
<1>7. DataInv'
  BY <1>1, SameReach DEF EInv, DataInv, Sectors
<1>8. FaultInv'
  BY <1>1, <1>3 DEF EInv, FaultInv, Lost, Excused
<1>. QED BY <1>4, <1>5, <1>6, <1>7, <1>8 DEF EInv

\* What the card does with each command.
LEMMA CardAfterFacts ==
    ASSUME EmmcTypeOK, NEW r \in Rcas
    PROVE  /\ CardAfter(r) \in CardType
           /\ CardAfter(r).kind = card.kind
           /\ app \/ stage \notin {"idle", "sdhc", "cid", "rca", "select"} => CardAfter(r) = card
           /\ ~app /\ stage = "idle" => CardAfter(r).state = "idle" /\ CardAfter(r).rca = 0
           /\ ~app /\ stage = "sdhc" =>
                 /\ CardAfter(r).rca = card.rca
                 /\ PowersUp => CardAfter(r).state = "ready"
                 /\ ~PowersUp => CardAfter(r).state = card.state
           /\ ~app /\ stage = "cid" => CardAfter(r).state = "ident"
           /\ ~app /\ stage = "rca" => CardAfter(r).state = "stby" /\ CardAfter(r).rca = r
           /\ ~app /\ stage = "select" =>
                 CardAfter(r).state = "tran" /\ CardAfter(r).rca = card.rca
<1>1. card \in CardType
  BY DEF EmmcTypeOK, CardType
<1>2. PowersUp => stage = "sdhc"
  BY DEF PowersUp
<1>3. CASE app \/ stage \notin {"idle", "sdhc", "cid", "rca", "select"}
  <2>1. CardAfter(r) = card
    BY <1>2, <1>3 DEF CardAfter
  <2>. QED BY <1>1, <1>3, <2>1 DEF CardType
<1>4. CASE ~app /\ stage = "idle"
  <2>1. CardAfter(r) = [card EXCEPT !.state = "idle", !.rca = 0, !.powered = FALSE]
    <3>1. ~PowersUp /\ stage \notin {"cid", "rca", "select"}
      BY <1>2, <1>4
    <3>. QED BY <1>4, <3>1, Zenon DEF CardAfter
  <2>2. /\ CardAfter(r).kind = card.kind
        /\ CardAfter(r).state = "idle" /\ CardAfter(r).rca = 0
    BY <1>1, <2>1 DEF CardType
  <2>3. \A c \in CardType : [c EXCEPT !.state = "idle", !.rca = 0] \in CardType
    BY DEF CardType
  <2>4. \A c \in CardType : [c EXCEPT !.powered = FALSE] \in CardType
    BY DEF CardType
  <2>5. CardAfter(r) = [[card EXCEPT !.state = "idle", !.rca = 0] EXCEPT !.powered = FALSE]
    BY <2>1
  <2>6. CardAfter(r) \in CardType
    BY <1>1, <2>3, <2>4, <2>5, Zenon
  <2>. QED BY <1>4, <2>2, <2>6
<1>5. CASE ~app /\ stage = "sdhc" /\ PowersUp
  <2>1. CardAfter(r) = [card EXCEPT !.state = "ready"]
    BY <1>5 DEF CardAfter
  <2>. QED BY <1>1, <1>5, <2>1 DEF CardType
<1>6. CASE ~app /\ stage = "sdhc" /\ ~PowersUp
  <2>1. CardAfter(r) = card
    BY <1>6 DEF CardAfter
  <2>. QED BY <1>1, <1>6, <2>1 DEF CardType
<1>7. CASE ~app /\ stage = "cid"
  <2>1. CardAfter(r) = [card EXCEPT !.state = "ident"]
    BY <1>2, <1>7 DEF CardAfter
  <2>. QED BY <1>1, <1>7, <2>1 DEF CardType
<1>8. CASE ~app /\ stage = "rca"
  <2>1. CardAfter(r) = [card EXCEPT !.state = "stby", !.rca = r]
    BY <1>2, <1>8 DEF CardAfter
  <2>. QED BY <1>1, <1>8, <2>1 DEF CardType
<1>9. CASE ~app /\ stage = "select"
  <2>1. CardAfter(r) = [card EXCEPT !.state = "tran"]
    BY <1>2, <1>9 DEF CardAfter
  <2>. QED BY <1>1, <1>9, <2>1 DEF CardType
<1>. QED BY <1>3, <1>4, <1>5, <1>6, <1>7, <1>8, <1>9

LEMMA DivFacts ==
    /\ \A x \in Nat : x \div SectorBytes \in Nat
    /\ \A x \in Nat : (x * SectorBytes) \div SectorBytes = x
    /\ \A x \in Nat : x < ArgumentSpace => x % ArgumentSpace = x
    /\ \A x \in Nat : x * SectorBytes \in Nat
<1>1. SectorBytes \in Nat /\ SectorBytes > 0 /\ ArgumentSpace \in Nat /\ ArgumentSpace > 0
  BY ConstantTypes
<1>2. \A x \in Nat : x \div SectorBytes \in Nat
  BY <1>1
<1>3. \A x \in Nat : (x * SectorBytes) \div SectorBytes = x
  BY <1>1
<1>4. \A x \in Nat : x < ArgumentSpace => x % ArgumentSpace = x
  BY <1>1
<1>5. \A x \in Nat : x * SectorBytes \in Nat
  BY <1>1
<1>. QED BY <1>2, <1>3, <1>4, <1>5

LEMMA AnswerStep ==
    ASSUME EInv, Answer
    PROVE  EInv'
<1>1. /\ EmmcTypeOK /\ wait = "cmd" /\ hw = "asked" /\ intFlags = {} /\ stage \in CommandSteps
      /\ UNCHANGED <<stage, wait, app, dev, v2, tries, req, buf, outcome>>
      /\ app => stage \in AppSteps
  BY DEF EInv, PhaseInv, Answer
<1>2. Before /\ outcome = "none"
  BY <1>1 DEF EInv, CardInv, DataInv, Untouched, CommandSteps, ReadSteps
<1>3. /\ app => bus.arg = dev.rca
      /\ stage = "select" => bus.arg = dev.rca
      /\ stage = "ocr" /\ ~app => dev.rca = 0
  BY <1>1 DEF EInv, CardInv
<1>4. hw' # "asked" => (~Untouched' <=> ~app /\ stage \in {"idle", "sdhc", "cid", "rca", "select"})
  BY <1>1 DEF Untouched
<1>5. ASSUME NEW r \in Rcas, card' = CardAfter(r), hw' # "asked",
             resp' = Response(r) \/ resp' = [Response(r) EXCEPT !.good = FALSE]
      PROVE  /\ card' \in CardType /\ card'.kind = card.kind
             /\ resp' \in [good : BOOLEAN, powered : BOOLEAN, ccs : BOOLEAN, rca : Rcas \cup {0}]
             /\ Untouched' => card' = card /\ Before'
             /\ ~Untouched' => After'
  <2>1. /\ card' \in CardType /\ card'.kind = card.kind
        /\ Untouched' => card' = card
    BY <1>1, <1>4, <1>5, CardAfterFacts
  <2>2. Untouched' => Before'
    BY <1>1, <1>2, <2>1 DEF Before, ReadyAgrees, CapacityKnown
  <2>3. PowersUp \in BOOLEAN /\ (card.kind = "v2hc") \in BOOLEAN
    BY DEF PowersUp
  <2>4. Response(r) \in [good : BOOLEAN, powered : BOOLEAN, ccs : BOOLEAN, rca : Rcas \cup {0}]
    BY <2>3 DEF Response
  <2>5. resp' \in [good : BOOLEAN, powered : BOOLEAN, ccs : BOOLEAN, rca : Rcas \cup {0}]
    BY <1>5, <2>4
  <2>6. resp'.powered = PowersUp /\ resp'.ccs = (card.kind = "v2hc") /\ resp'.rca = r
    BY <1>5 DEF Response
  <2>7. ~Untouched' => After'
    <3>1. SUFFICES ASSUME ~app, stage \in {"idle", "sdhc", "cid", "rca", "select"} PROVE After'
      BY <1>4, <1>5
    <3>2. CapacityKnown => CapacityKnown'
      BY <1>1, <2>1 DEF CapacityKnown
    <3>3. CASE stage = "idle"
      BY <1>1, <1>5, <3>1, <3>3, CardAfterFacts DEF After
    <3>4. CASE stage = "sdhc"
      <4>1. resp'.ccs = (card'.kind = "v2hc")
        BY <2>1, <2>6, Zenon
      <4>2. card'.state = IF PowersUp THEN "ready" ELSE "idle"
        BY <1>1, <1>2, <1>5, <3>1, <3>4, CardAfterFacts DEF Before
      <4>3. card'.rca = 0 /\ dev'.rca = 0
        BY <1>1, <1>2, <1>5, <3>1, <3>4, CardAfterFacts DEF Before
      <4>4. card'.state = IF resp'.powered THEN "ready" ELSE "idle"
        BY <2>6, <4>2, Zenon
      <4>. QED BY <1>1, <3>4, <4>1, <4>3, <4>4, Zenon DEF After
    <3>5. CASE stage \in {"cid", "rca", "select"}
      BY <1>1, <1>2, <1>5, <2>6, <3>1, <3>2, <3>5, CardAfterFacts DEF After, Before
    <3>. QED BY <3>1, <3>3, <3>4, <3>5
  <2>. QED BY <2>1, <2>2, <2>5, <2>7
<1>6. ASSUME NEW r \in Rcas, Legal, card' = CardAfter(r), resp' = Response(r),
             intFlags' = intFlags \cup {"cmd"}, hw' = IF IsData \/ IsBusy THEN "busy" ELSE "quiet",
             bus' = IF IsData THEN [arg |-> Addressed, left |-> dev.blocks] ELSE bus, NoFault
      PROVE  EInv'
  <2>1. resp'.good = TRUE
    BY <1>6 DEF Response
  <2>2. /\ hw' # "asked" /\ intFlags' = {"cmd"} /\ faults' = faults /\ budget' = budget
        /\ hw' \in {"busy", "quiet"} /\ (hw' = "busy" <=> IsData \/ IsBusy)
    BY <1>1, <1>6 DEF NoFault
  <2>3. /\ card' \in CardType /\ card'.kind = card.kind
        /\ resp' \in [good : BOOLEAN, powered : BOOLEAN, ccs : BOOLEAN, rca : Rcas \cup {0}]
        /\ Untouched' => card' = card /\ Before'
        /\ ~Untouched' => After'
    BY <1>5, <1>6, <2>2
  <2>4. bus.arg \in Nat /\ bus \in [arg : Nat, left : Int] /\ dev.blocks \in Nat
    BY <1>1 DEF EmmcTypeOK
  <2>5. bus' \in [arg : Nat, left : Int]
    <3>1. Addressed \in Nat
      BY <2>4, DivFacts DEF Addressed
    <3>2. [arg |-> Addressed, left |-> dev.blocks] \in [arg : Nat, left : Int]
      BY <2>4, <3>1
    <3>. QED BY <1>6, <2>4, <3>2, Zenon
  <2>6. EmmcTypeOK'
    BY <1>1, <2>2, <2>3, <2>5 DEF EmmcTypeOK, CardType
  <2>7. PhaseInv'
    BY <1>1, <2>2 DEF EInv, PhaseInv, IsData, IsBusy
  <2>8. CardInv'
    <3>1. app => bus'.arg = dev.rca /\ dev.rca = card.rca /\ card' = card
      <4>1. SUFFICES ASSUME app PROVE bus' = bus /\ bus.arg = card.rca /\ card' = card
        BY <1>3
      <4>2. bus' = bus
        BY <1>6, <4>1 DEF IsData
      <4>3. card' = card
        BY <1>4, <2>2, <2>3, <4>1
      <4>. QED BY <1>6, <4>1, <4>2, <4>3 DEF Legal
    <3>. QED BY <1>1, <1>3, <2>2, <2>3, <3>1 DEF CardInv
  <2>9. DataInv'
    <3>1. ASSUME stage = "read", InReach PROVE bus'.arg = req[1]
      <4>1. IsData /\ bus.arg = Argument /\ dev.sdhc = (card.kind = "v2hc")
        BY <1>1, <1>2, <3>1 DEF IsData, AppSteps, EInv, DataInv, Before, ReadyAgrees
      <4>2. bus'.arg = Addressed
        BY <1>6, <4>1
      <4>3. req[1] \in Nat
        BY <1>1, RequestTypes DEF EmmcTypeOK
      <4>4. CASE card.kind = "v2hc"
        <5>1. dev.sdhc = TRUE
          BY <4>1, <4>4
        <5>. QED BY <3>1, <4>1, <4>2, <4>4, <5>1 DEF Addressed, Argument
      <4>5. CASE card.kind # "v2hc"
        <5>1. dev.sdhc = FALSE
          BY <4>1, <4>5
        <5>2. Argument = (req[1] * SectorBytes) % ArgumentSpace
          BY <3>1, <5>1 DEF Argument
        <5>3. req[1] * SectorBytes < ArgumentSpace
          BY <3>1, <4>5 DEF InReach
        <5>4. Argument = req[1] * SectorBytes
          BY <4>3, <5>2, <5>3, DivFacts
        <5>5. Addressed = (req[1] * SectorBytes) \div SectorBytes
          BY <4>1, <4>5, <5>4 DEF Addressed
        <5>. QED BY <4>2, <4>3, <5>5, DivFacts, Zenon
      <4>. QED BY <4>4, <4>5
    <3>2. stage = "read" => dev.blocks = req[2]
      BY DEF EInv, DataInv
    <3>3. InReach' <=> InReach
      BY <1>1, <2>3, SameReach
    <3>. QED BY <1>1, <1>2, <2>2, <3>1, <3>2, <3>3 DEF DataInv
  <2>10. FaultInv'
    <3>1. stage = "read" => IsData /\ card' = card
      BY <1>1, <1>4, <2>2, <2>3 DEF IsData, AppSteps
    <3>. QED BY <1>1, <1>2, <2>1, <2>2, <2>3, <3>1 DEF EInv, FaultInv, Lost, Excused
  <2>. QED BY <2>6, <2>7, <2>8, <2>9, <2>10 DEF EInv
<1>7. CASE /\ ~Legal
           /\ intFlags' = intFlags \cup {"cmdTimeout"} /\ hw' = "quiet"
           /\ NoFault /\ UNCHANGED <<card, resp, bus>>
  <2>1. intFlags' = {"cmdTimeout"} /\ faults' = faults /\ budget' = budget
    BY <1>1, <1>7 DEF NoFault
  <2>2. stage = "read" => card.state = "data"
    BY <1>1, <1>2, <1>7 DEF Legal, AppSteps, Before, ReadyAgrees
  <2>3. stage \in {"ifcond", "iocond", "read"} \/ (stage = "ocr" /\ dev.rca # 0)
    <3>1. CASE app
      BY <1>1, <1>2, <1>3, <1>7, <3>1 DEF Legal, AppSteps, Before
    <3>2. CASE ~app
      BY <1>1, <1>2, <1>3, <1>7, <3>2 DEF Legal, CommandSteps, ReadSteps, Before
    <3>. QED BY <3>1, <3>2
  <2>4. EmmcTypeOK'
    BY <1>1, <1>7, <2>1 DEF EmmcTypeOK, Errors
  <2>5. PhaseInv'
    BY <1>1, <1>7, <2>1 DEF EInv, PhaseInv, IsData, IsBusy, Errors
  <2>6. Before'
    BY <1>1, <1>2, <1>7 DEF Before, ReadyAgrees, CapacityKnown
  <2>7. CardInv'
    BY <1>1, <1>3, <1>7, <2>1, <2>6 DEF CardInv
  <2>8. DataInv'
    BY <1>1, <1>2, <1>7, <2>1 DEF EInv, DataInv
  <2>9. FaultInv'
    BY <1>1, <1>2, <1>7, <2>1, <2>2, <2>3 DEF EInv, FaultInv, Lost, Excused
  <2>. QED BY <2>4, <2>5, <2>7, <2>8, <2>9 DEF EInv
<1>8. ASSUME NEW r \in Rcas, NEW f \in {{"cmdTimeout"}, {"cmd", "otherError"}, {}}, Fault,
             card' \in CutOff \cup (IF Legal THEN {CardAfter(r)} ELSE {}),
             intFlags' = intFlags \cup f, hw' = "quiet", UNCHANGED <<resp, bus>>
      PROVE  EInv'
  <2>1. intFlags' \subseteq Errors \cup {"cmd"} /\ intFlags' # {"cmd"}
    BY <1>1, <1>8 DEF Errors
  <2>2. card' \in CutOff \/ card' = CardAfter(r)
    BY <1>8
  <2>3. card \in CardType
    BY <1>1 DEF EmmcTypeOK, CardType
  <2>4. card' \in CardType /\ (Spoilt(card, card') \/ ~Untouched')
    <3>1. CASE card' \in CutOff
      BY <1>1, <3>1, CutOffCard DEF Spoilt
    <3>2. CASE card' = CardAfter(r)
      BY <1>1, <1>4, <1>8, <2>3, <3>2, CardAfterFacts DEF Spoilt
    <3>. QED BY <2>2, <3>1, <3>2
  <2>. QED BY <1>1, <1>8, <2>1, <2>4, FaultStep
<1>9. ASSUME NEW r \in Rcas, Fault, Legal, stage \in {"ifcond", "rca", "select"}, ~app,
             intFlags' = intFlags \cup {"cmd"}, hw' = IF IsBusy THEN "busy" ELSE "quiet",
             card' = CardAfter(r), resp' = [Response(r) EXCEPT !.good = FALSE], UNCHANGED bus
      PROVE  EInv'
  <2>1. /\ hw' # "asked" /\ intFlags' = {"cmd"} /\ ~IsData
        /\ hw' \in {"busy", "quiet"} /\ (hw' = "busy" <=> IsBusy)
    BY <1>1, <1>9 DEF IsData
  <2>2. /\ card' \in CardType /\ card'.kind = card.kind
        /\ resp' \in [good : BOOLEAN, powered : BOOLEAN, ccs : BOOLEAN, rca : Rcas \cup {0}]
        /\ Untouched' => card' = card /\ Before'
        /\ ~Untouched' => After'
    BY <1>5, <1>9, <2>1
  <2>3. /\ faults \in Nat /\ budget \in Nat /\ faults + budget <= FaultBudget
        /\ budget > 0 /\ budget' = budget - 1 /\ faults' = faults + 1
    <3>1. budget > 0 /\ budget' = budget - 1 /\ faults' = faults + 1
      BY <1>9, Zenon DEF Fault
    <3>. QED BY <1>1, <3>1, ConstantTypes DEF EInv, FaultInv, EmmcTypeOK
  <2>4. /\ faults' \in 0..FaultBudget /\ budget' \in 0..FaultBudget
        /\ faults' + budget' <= FaultBudget /\ faults' # 0
    BY <2>3, ConstantTypes
  <2>5. EmmcTypeOK'
    BY <1>1, <1>9, <2>1, <2>2, <2>4 DEF EmmcTypeOK, CardType
  <2>6. PhaseInv'
    BY <1>1, <2>1 DEF EInv, PhaseInv, IsData, IsBusy
  <2>7. CardInv'
    BY <1>1, <1>9, <2>1, <2>2 DEF CardInv
  <2>8. DataInv'
    BY <1>1, <1>2, <1>9, <2>1 DEF EInv, DataInv
  <2>9. FaultInv'
    BY <1>1, <1>2, <1>9, <2>1, <2>4 DEF EInv, FaultInv, Lost
  <2>. QED BY <2>5, <2>6, <2>7, <2>8, <2>9 DEF EInv
<1>. QED BY <1>6, <1>7, <1>8, <1>9 DEF Answer

LEMMA NextEInv == EInv /\ [EmmcNext]_emmcVars => EInv'
<1> SUFFICES ASSUME EInv, [EmmcNext]_emmcVars PROVE EInv'
  OBVIOUS
<1>1. CASE Driver
  BY <1>1, ResetHostStep, SwitchClockStep, IssueStep, RefuseStep, CollectStep,
     ResetCommandFailsStep, DrainStep, FinishStep DEF Driver
<1>2. CASE Hardware
  BY <1>2, AnswerStep, DataReadyStep, TransferDoneStep DEF Hardware
<1>3. CASE PowerUp
  BY <1>3, PowerUpStep
<1>4. CASE Read
  BY <1>4, ReadStep
<1>4a. CASE Inhibit \/ Release
  BY <1>4a, InhibitStep, ReleaseStep
<1>5. CASE UNCHANGED emmcVars
  <2>1. EmmcTypeOK'
    BY <1>5 DEF EInv, EmmcTypeOK, emmcVars
  <2>2. PhaseInv'
    BY <1>5 DEF EInv, PhaseInv, IsData, IsBusy, emmcVars
  <2>3. CardInv'
    BY <1>5 DEF EInv, CardInv, Untouched, Before, After, CapacityKnown, ReadyAgrees, emmcVars
  <2>4. DataInv'
    BY <1>5 DEF EInv, DataInv, InReach, Sectors, Argument, emmcVars
  <2>5. FaultInv'
    BY <1>5 DEF EInv, FaultInv, Lost, Excused, emmcVars
  <2>. QED BY <2>1, <2>2, <2>3, <2>4, <2>5 DEF EInv
<1>. QED BY <1>1, <1>2, <1>3, <1>4, <1>4a, <1>5 DEF EmmcNext

LEMMA AlwaysEInv == EmmcSpec => []EInv
BY InitEInv, NextEInv, PTL DEF EmmcSpec
-----------------------------------------------------------------------------
(***************************************************************************)
(* What follows from it.                                                   *)
(***************************************************************************)

\* However often emmc_init had to start again and whichever faults it met,
\* once it has returned TRUE the card is selected under the address that the
\* driver uses, both count in the same unit, and the block size is that of a
\* sector.
THEOREM DriverCorrect == EmmcSpec => []DriverAgrees
<1>1. EInv => DriverAgrees
  <2> SUFFICES ASSUME EInv PROVE DriverAgrees
    OBVIOUS
  <2>1. stage \in {"ready", "read"} => Before
    BY DEF EInv, CardInv, Untouched
  <2>2. ReadyAgrees
    BY <2>1 DEF Before, ReadyAgrees
  <2>. QED BY <2>2 DEF EInv, DriverAgrees
<1>. QED BY <1>1, AlwaysEInv, PTL

\* emmc_read answers truly, with any number of faults, as long as the first
\* sector is one that the argument of the command can name.
THEOREM ReadsAnswerTruly == EmmcSpec => [](InReach => ReadAnswersTruly)
<1>1. EInv => (InReach => ReadAnswersTruly)
  BY DEF EInv, DataInv, FaultInv, Excused, Sectors, ReadAnswersTruly
<1>. QED BY <1>1, AlwaysEInv, PTL

\* The commands that end an attempt when they fail, or succeed with a bad
\* content.
LEMMA FailedAttempt ==
    ASSUME EInv, Lost, NEW STATE d, Failed({}, d), tries' # tries, stage # "read",
           stage = "iocond" /\ intFlags = {"cmdTimeout"} => ~Unusable(d),
           wait = "cmd" => intFlags # {"cmd"}
    PROVE  \/ faults > 0 \/ (stage = "ocr" /\ dev.rca # 0)
<1>1. faults \in Nat
  BY DEF EInv, EmmcTypeOK
<1>2. SUFFICES ASSUME faults = 0, ~(stage = "ocr" /\ dev.rca # 0) PROVE FALSE
  BY <1>1
<1>3. stage \in {"ifcond", "iocond"} /\ intFlags = {"cmdTimeout"}
  BY <1>2 DEF EInv, FaultInv
<1>. QED BY <1>3 DEF Failed, Goto

\* An attempt that ends although its command succeeded: the content of the
\* answer was bad.
LEMMA BadContent ==
    ASSUME EInv, wait # "none", hw # "asked", Succeeded(resp, {}, dev), tries' # tries
    PROVE  faults > 0
<1>1. faults \in Nat
  BY DEF EInv, EmmcTypeOK
<1>2. stage \in CommandSteps
  BY DEF EInv, PhaseInv
<1>3. stage \in {"rca", "select"} /\ ~resp.good
  BY <1>2 DEF Succeeded, Goto, CommandSteps, ReadSteps
<1>. QED BY <1>1, <1>3 DEF EInv, FaultInv

\* Failing to the same end: a read leaves the attempts of emmc_init alone.
LEMMA ReadKeepsAttempts ==
    ASSUME EmmcTypeOK, stage = "read", NEW STATE d, Failed({}, d)
    PROVE  tries'.init = tries.init
<1>1. tries' = [tries EXCEPT !.data = DataTries]
  BY DEF Failed
<1>. QED BY <1>1 DEF EmmcTypeOK

\* An attempt of emmc_init in which card and controller made no fault fails
\* only while reading the OCR, with a relative address that an earlier
\* attempt has left in the driver.
THEOREM CleanResetIsStale == EmmcSpec => CleanResetFailsOnlyStale
<1> DEFINE Stale == faults' > 0 \/ (stage = "ocr" /\ dev.rca # 0)
<1>1. ASSUME EInv, [EmmcNext]_emmcVars, tries'.init > tries.init
      PROVE  Stale
  <2>1. /\ EmmcTypeOK /\ faults \in Nat /\ tries' # tries
        /\ tries.init \in Nat /\ tries'.init # tries.init
    BY <1>1 DEF EInv, EmmcTypeOK
  <2>2. CASE ResetHost
    BY <2>1, <2>2 DEF ResetHost
  <2>3. CASE ResetCommandFails
    BY <2>1, <2>3 DEF ResetCommandFails, Fault
  <2>4. CASE Collect
    <3>1. /\ wait = "cmd" /\ faults' = faults
          /\ intFlags \cap (Errors \cup {"cmd"}) = intFlags
          /\ intFlags \ (intFlags \cap (Errors \cup {"cmd"})) = {}
      BY <1>1, <2>4 DEF EInv, PhaseInv, Collect
    <3>2. \/ intFlags = {} /\ hw = "quiet" /\ Failed({}, dev)
          \/ /\ intFlags # {} /\ intFlags # {"cmd"}
             /\ Failed({}, [dev EXCEPT !.lastError = LastError(intFlags)])
          \/ intFlags = {"cmd"} /\ Succeeded(resp, {}, dev)
      BY <2>1, <2>4, <3>1 DEF Collect
    <3>3. CASE intFlags = {} /\ hw = "quiet" /\ Failed({}, dev)
      <4>1. Lost /\ stage # "read"
        BY <2>1, <3>1, <3>3, ReadKeepsAttempts DEF Lost
      <4>. QED BY <1>1, <2>1, <3>1, <3>3, <4>1, FailedAttempt
    <3>4. CASE /\ intFlags # {} /\ intFlags # {"cmd"}
               /\ Failed({}, [dev EXCEPT !.lastError = LastError(intFlags)])
      <4> DEFINE d == [dev EXCEPT !.lastError = LastError(intFlags)]
      <4>1. d.lastError = LastError(intFlags)
        BY <2>1 DEF EmmcTypeOK
      <4>2. intFlags = {"cmdTimeout"} => ~Unusable(d)
        BY <4>1 DEF LastError, Unusable
      <4>3. Failed({}, d)
        BY <3>4
      <4> HIDE DEF d
      <4>4. stage # "read"
        BY <2>1, <4>3, ReadKeepsAttempts
      <4>5. Lost
        BY <1>1, <3>1, <3>4 DEF Lost, EInv, PhaseInv, EmmcTypeOK, Errors
      <4>. QED BY <1>1, <2>1, <3>1, <3>4, <4>2, <4>3, <4>4, <4>5, FailedAttempt
    <3>5. CASE intFlags = {"cmd"} /\ Succeeded(resp, {}, dev)
      <4>1. hw # "asked"
        BY <1>1, <3>5 DEF EInv, PhaseInv
      <4>. QED BY <1>1, <2>1, <3>1, <3>5, <4>1, BadContent
    <3>. QED BY <3>2, <3>3, <3>4, <3>5
  <2>5. CASE Finish
    <3>1. /\ wait = "done" /\ faults' = faults
          /\ intFlags \ (Errors \cup {"done"}) = {} /\ hw # "asked"
          /\ "done" \in intFlags \/ intFlags \cap Errors # {} \/ hw = "quiet"
      BY <1>1, <2>5 DEF EInv, PhaseInv, Finish
    <3>2. CASE TransferOk(intFlags) /\ Succeeded(resp, {}, dev)
      BY <1>1, <2>1, <3>1, <3>2, BadContent
    <3>3. CASE /\ ~TransferOk(intFlags)
               /\ Failed({}, [dev EXCEPT !.lastError = LastError(intFlags)])
      <4> DEFINE d == [dev EXCEPT !.lastError = LastError(intFlags)]
      <4>1. Failed({}, d)
        BY <3>3
      <4> HIDE DEF d
      <4>2. stage # "read"
        BY <2>1, <4>1, ReadKeepsAttempts
      <4>3. "done" \notin intFlags
        BY <1>1, <3>1, <3>3 DEF EInv, PhaseInv, TransferOk, Errors
      <4>4. Lost
        BY <1>1, <2>1, <3>1, <4>3 DEF Lost, EInv, PhaseInv, EmmcTypeOK
      <4>5. stage # "iocond"
        BY <1>1, <3>1 DEF EInv, PhaseInv, IsData, IsBusy
      <4>. QED BY <1>1, <2>1, <3>1, <4>1, <4>2, <4>4, <4>5, FailedAttempt
    <3>. QED BY <2>5, <3>1, <3>2, <3>3 DEF Finish
  <2>6. CASE Read
    BY <2>1, <2>6 DEF Read, EmmcTypeOK
  <2>7. CASE Refuse
    <3>1. stage = "read" /\ Failed({}, dev)
      BY <1>1, <2>7 DEF EInv, PhaseInv, Refuse, TooLarge
    <3>. QED BY <2>1, <3>1, ReadKeepsAttempts
  <2>8. CASE Inhibit \/ Release
    BY <2>1, <2>8 DEF Inhibit, Release
  <2>. QED
    BY <1>1, <2>1, <2>2, <2>3, <2>4, <2>5, <2>6, <2>7, <2>8 DEF EmmcNext, Driver, Hardware, SwitchClock,
       Issue, Drain, Answer, DataReady, TransferDone, PowerUp, emmcVars
<1>2. EInv /\ [EmmcNext]_emmcVars => [tries'.init > tries.init => Stale]_emmcVars
  BY <1>1
<1>. QED BY <1>2, AlwaysEInv, PTL DEF EmmcSpec, CleanResetFailsOnlyStale
=============================================================================
