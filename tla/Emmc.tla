-------------------------------- MODULE Emmc --------------------------------
(***************************************************************************)
(* The SD card driver (emmc.c): the reset sequence with its retries, and   *)
(* reads, against a controller and a card that lose, corrupt or refuse     *)
(* commands.                                                               *)
(*                                                                         *)
(* A command is three steps: the driver writes the command register        *)
(* (Issue), card and controller react (Answer), the driver sees interrupt  *)
(* flags or gives up waiting (Collect).  Data and busy phases follow the   *)
(* same pattern (DataReady and Drain, TransferDone and Finish).  A wait of *)
(* the driver ends by its own timeout only when the controller has gone    *)
(* quiet: the controller's timers are shorter than the driver's, so no     *)
(* answer comes after a software timeout.                                  *)
(*                                                                         *)
(* Card and controller are external, modelled from the SD specification as *)
(* far as the driver can tell.  last_success, last_command_value and the   *)
(* version of the SCR are written and never read, and left out.            *)
(***************************************************************************)
EXTENDS Integers, Sequences, FiniteSets

CONSTANTS
    MaxAttempts,   \* attempts of emmc_init: 10 in the code
    OcrTries,      \* attempts of check_ocr: 5
    MaxRetries,    \* retries of do_data_command: 3
    SectorBytes,   \* 512
    ArgumentSpace, \* values of an argument register: 2^32
    MaxBlocks,     \* the blocks a transfer may have: 0xFFFF
    Rcas,          \* relative addresses a card may publish
    Requests,      \* the reads: pairs of a sector and a number of sectors
    FaultBudget    \* bound: faults of card and controller in a behaviour

ASSUME EmmcAssumption ==
    /\ {MaxAttempts, OcrTries, MaxRetries, SectorBytes, ArgumentSpace, MaxBlocks} \subseteq Nat \ {0}
    /\ FaultBudget \in Nat
    /\ Rcas \subseteq Nat \ {0}
    /\ Requests \subseteq Nat \X (Nat \ {0})

VARIABLES
    stage,    \* the call of emmc_card_reset, or of a read, that is under way
    wait,     \* what the driver waits for on the bus
    app,      \* the command on the bus is CMD55, sent before an app command
    bus,      \* the argument of the command and the data the card still owes
    hw,       \* the controller: "asked" or "busy", it will react; "quiet", it will not;
              \* "inhibited", EMMC->status has CMD_INHIBIT or DAT_INHIBIT
    intFlags, \* EMMC->int_flags
    resp,     \* EMMC->response
    dev,      \* device: rca, sdhc, last_error, block_size, transfer_blocks
    v2,       \* v2_card
    tries,    \* attempts of emmc_init, tries of check_ocr, retries of a read
    card,     \* external: the card
    req,      \* the read under way or the last one
    buf,      \* device.buffer: the sectors copied out of the data port
    outcome,  \* what emmc_read returned last
    faults,   \* history: faults in this attempt or read
    budget    \* faults that are left

emmcVars == <<stage, wait, app, bus, hw, intFlags, resp, dev, v2, tries, card, req, buf,
              outcome, faults, budget>>

CardKinds == {"v1", "v2sc", "v2hc"}
AppSteps == {"ocr", "sdhc", "scr"}
ReadSteps == {"read"}
CommandSteps == {"idle", "ifcond", "iocond", "ocr", "sdhc", "cid", "rca", "select",
                 "blocklen", "scr"} \cup ReadSteps
Steps == CommandSteps \cup {"reset", "clock", "ready", "failed"}
Errors == {"cmdTimeout", "dataTimeout", "otherError"}
Garbage == -1
NoResponse == [good |-> FALSE, powered |-> FALSE, ccs |-> FALSE, rca |-> 0]

(* is_data and the response type RT48Busy of the command table. *)
IsData == ~app /\ stage \in {"scr", "read"}
IsBusy == ~app /\ stage = "select"

(* The error class set_last_error keeps of the flags: bit 16, another, none. *)
LastError(f) == IF "cmdTimeout" \in f THEN "timeout"
                ELSE IF f \cap Errors # {} THEN "other" ELSE "none"
-----------------------------------------------------------------------------
EmmcInit ==
    /\ stage = "reset" /\ wait = "none" /\ app = FALSE /\ hw = "quiet"
    /\ bus = [arg |-> 0, left |-> 0]
    /\ intFlags = {} /\ resp = NoResponse
    /\ dev = [rca |-> 0, sdhc |-> FALSE, lastError |-> "none", blockSize |-> 0, blocks |-> 0]
    /\ v2 = FALSE
    /\ tries = [init |-> 0, ocr |-> 0, data |-> 0]
    /\ \E k \in CardKinds : card = [kind |-> k, state |-> "idle", rca |-> 0, powered |-> FALSE]
    /\ req \in Requests /\ buf = <<>> /\ outcome = "none"
    /\ faults = 0 /\ budget = FaultBudget

Fault == budget > 0 /\ budget' = budget - 1 /\ faults' = faults + 1
NoFault == UNCHANGED <<budget, faults>>

\* Mutant: a failed attempt is not counted.
AttemptFailsUncounted ==
    stage' = (IF tries.init < MaxAttempts THEN "reset" ELSE "failed") /\ UNCHANGED tries

(* A failed emmc_card_reset: emmc_init tries again, or the kernel stops. *)
AttemptFails ==
    /\ tries' = [tries EXCEPT !.init = @ + 1, !.ocr = 0]
    /\ stage' = IF tries.init + 1 < MaxAttempts THEN "reset" ELSE "failed"

(***************************************************************************)
(* The beginning of emmc_card_reset: the host controller is reset, the     *)
(* clock set up, the flags cleared.  device.rca and device.sdhc keep what  *)
(* an earlier attempt left.  Either wait for the hardware may time out.    *)
(***************************************************************************)
ResetHost ==
    /\ stage = "reset" /\ wait = "none"
    /\ \/ /\ intFlags' = {} /\ hw' = "quiet" /\ stage' = "idle"
          /\ dev' = [dev EXCEPT !.blocks = 0, !.blockSize = 0]
          /\ faults' = 0
          /\ UNCHANGED <<tries, budget>>
       \/ /\ budget > 0 /\ budget' = budget - 1 /\ faults' = 1
          /\ AttemptFails
          /\ UNCHANGED <<intFlags, hw, dev>>
    /\ UNCHANGED <<wait, app, bus, resp, v2, card, req, buf, outcome>>

(* switch_clock_rate, once the controller inhibits neither commands nor    *)
(* data: base_clock is 0 and the divider is masked away again, so the      *)
(* clock is stopped and started with the divider it had.                   *)
SwitchClock ==
    /\ stage = "clock" /\ hw = "quiet" /\ stage' = "cid"
    /\ UNCHANGED <<wait, app, bus, hw, intFlags, resp, dev, v2, tries, card, req, buf,
                   outcome, faults, budget>>

(* The argument of the command of a step. *)
Argument ==
    CASE stage = "select" -> dev.rca
      [] stage = "read" -> IF dev.sdhc THEN req[1] ELSE (req[1] * SectorBytes) % ArgumentSpace
      [] OTHER -> 0

(* What ACMD41 announces: nothing, the voltage, or also high capacity. *)
OcrArgument == CASE stage = "sdhc" /\ v2 -> 2 [] stage = "sdhc" /\ ~v2 -> 1 [] OTHER -> 0

(* Only a read may ask for more blocks than a transfer can have.           *)
TooLarge == stage = "read" /\ dev.blocks > MaxBlocks

(* emmc_issue_command up to the write of cmd_xfer_mode; an app command is  *)
(* announced by CMD55 with the relative address the driver knows.          *)
Issue ==
    /\ stage \in CommandSteps /\ wait = "none" /\ ~TooLarge
    /\ app' = (stage \in AppSteps)
    /\ bus' = [arg |-> IF stage \in AppSteps THEN dev.rca ELSE Argument, left |-> 0]
    /\ dev' = IF stage = "scr" THEN [dev EXCEPT !.blockSize = 8, !.blocks = 1] ELSE dev
    /\ wait' = "cmd" /\ hw' = "asked"
    /\ UNCHANGED <<stage, intFlags, resp, v2, tries, card, req, buf, outcome, faults, budget>>
-----------------------------------------------------------------------------
(***************************************************************************)
(* What emmc_card_reset and do_data_command do with the result of a        *)
(* command.  err is device.last_error at that moment, f the flags that are *)
(* left.                                                                   *)
(***************************************************************************)
Goto(s) == stage' = s /\ UNCHANGED tries

\* Mutant: the block size stays that of the SCR.
DeviceAfterKeepsScrSize(r, d) ==
    CASE stage = "sdhc" /\ r.powered -> [d EXCEPT !.sdhc = r.ccs]
      [] stage = "rca" -> [d EXCEPT !.rca = r.rca]
      [] OTHER -> d

DeviceAfter(r, d) ==
    CASE stage = "sdhc" /\ r.powered -> [d EXCEPT !.sdhc = r.ccs]
      [] stage = "rca" -> [d EXCEPT !.rca = r.rca]
      [] stage = "scr" -> [d EXCEPT !.blockSize = SectorBytes]
      [] OTHER -> d

Succeeded(r, f, d) ==
    /\ wait' = "none" /\ app' = FALSE
    /\ v2' = IF stage = "ifcond" THEN r.good ELSE v2
    /\ outcome' = IF stage = "read" THEN "ok" ELSE outcome
    /\ dev' = DeviceAfter(r, d)
    /\ intFlags' = IF stage = "scr" THEN {} ELSE f
    /\ CASE stage = "idle" -> Goto("ifcond")
         [] stage = "ifcond" -> Goto("iocond")
         [] stage = "iocond" -> Goto("ocr")
         [] stage = "ocr" -> Goto("sdhc")
         [] stage = "sdhc" -> Goto(IF r.powered THEN "clock" ELSE "sdhc")
         [] stage = "cid" -> Goto("rca")
         [] stage = "rca" -> IF r.good THEN Goto("select") ELSE AttemptFails
         [] stage = "select" -> IF r.good THEN Goto(IF dev.sdhc THEN "scr" ELSE "blocklen")
                                ELSE AttemptFails
         [] stage = "blocklen" -> Goto("scr")
         [] stage \in {"scr", "read"} -> Goto("ready")

(* The loop of do_data_command: one more failed try. *)
DataTries == tries.data + 1

\* Mutant: a card that does not know CMD5 is refused.
UnusableOnTimeout(d) == d.lastError # "none"

(* check_usable_card: which failures of CMD5 mean that the card is no use. *)
Unusable(d) == d.lastError = "other"

Failed(f, d) ==
    /\ wait' = "none" /\ app' = FALSE
    /\ dev' = d
    /\ v2' = IF stage = "ifcond" THEN FALSE ELSE v2
    /\ intFlags' = IF stage \in {"ifcond", "iocond"} /\ d.lastError = "timeout"
                   THEN f \ {"cmdTimeout"} ELSE f
    /\ outcome' = IF stage = "read" /\ DataTries >= MaxRetries THEN "failed" ELSE outcome
    /\ CASE stage = "ifcond" -> Goto("iocond")
         [] stage = "iocond" -> IF Unusable(d) THEN AttemptFails ELSE Goto("ocr")
         [] stage = "ocr" -> IF tries.ocr + 1 < OcrTries
                             THEN /\ tries' = [tries EXCEPT !.ocr = @ + 1]
                                  /\ UNCHANGED stage
                             ELSE AttemptFails
         [] stage = "read" -> /\ tries' = [tries EXCEPT !.data = DataTries]
                              /\ stage' = IF DataTries < MaxRetries THEN "read" ELSE "ready"
         [] OTHER -> AttemptFails

(* emmc_issue_command refuses a transfer of too many blocks, in every try. *)
Refuse ==
    /\ wait = "none" /\ TooLarge
    /\ Failed(intFlags, dev)
    /\ UNCHANGED <<bus, hw, resp, card, req, buf, faults, budget>>

(***************************************************************************)
(* emmc_issue_command once command flags are set or the wait has timed     *)
(* out.  A software timeout leaves last_error as it was.                   *)
(***************************************************************************)
Collect ==
    /\ wait = "cmd"
    /\ LET seen == intFlags \cap (Errors \cup {"cmd"})
           left == intFlags \ seen IN
       \/ /\ seen = {} /\ hw = "quiet"
          /\ Failed(intFlags, dev)
          /\ UNCHANGED <<bus, hw, buf>>
       \/ /\ seen # {} /\ seen # {"cmd"}
          /\ Failed(left, [dev EXCEPT !.lastError = LastError(seen)])
          /\ UNCHANGED <<bus, hw, buf>>
       \/ /\ seen = {"cmd"} /\ app
          /\ app' = FALSE /\ hw' = "asked"
          /\ bus' = [bus EXCEPT !.arg = OcrArgument]
          /\ intFlags' = left
          /\ UNCHANGED <<stage, wait, tries, dev, v2, buf, outcome>>
       \/ /\ seen = {"cmd"} /\ IsData
          /\ wait' = "data" /\ buf' = <<>> /\ intFlags' = left
          /\ UNCHANGED <<stage, app, tries, dev, v2, bus, hw, outcome>>
       \/ /\ seen = {"cmd"} /\ IsBusy
          /\ wait' = "done" /\ intFlags' = left
          /\ UNCHANGED <<stage, app, tries, dev, v2, bus, hw, buf, outcome>>
       \/ /\ seen = {"cmd"} /\ ~app /\ ~IsData /\ ~IsBusy
          /\ Succeeded(resp, left, dev)
          /\ UNCHANGED <<bus, hw, buf>>
    /\ UNCHANGED <<resp, card, req, faults, budget>>

(* check_v2_card and check_usable_card after a command timeout: the reset  *)
(* of the command line may time out as well.                               *)
ResetCommandFails ==
    /\ wait = "cmd" /\ stage \in {"ifcond", "iocond"} /\ Fault
    /\ LET seen == intFlags \cap (Errors \cup {"cmd"})
           err  == IF seen = {} THEN dev.lastError ELSE LastError(seen) IN
       /\ seen # {"cmd"} /\ (seen = {} => hw = "quiet") /\ err = "timeout"
       /\ intFlags' = intFlags \ seen /\ dev' = [dev EXCEPT !.lastError = err]
    /\ wait' = "none" /\ app' = FALSE
    /\ IF stage = "ifcond" THEN v2' = FALSE /\ Goto("iocond") ELSE AttemptFails /\ UNCHANGED v2
    /\ UNCHANGED <<bus, hw, resp, card, req, buf, outcome>>

(***************************************************************************)
(* One block of do_data_transfer.  Errors end the loop, and the caller     *)
(* does not look at the result; a timeout is not noticed and reads the     *)
(* data port all the same.                                                 *)
(***************************************************************************)
Drain ==
    /\ wait = "data"
    /\ "ready" \in intFlags \/ intFlags \cap Errors # {} \/ hw = "quiet"
    /\ intFlags' = intFlags \ {"ready"}
    /\ IF intFlags \cap Errors # {}
       THEN /\ dev' = [dev EXCEPT !.lastError = LastError(intFlags)]
            /\ wait' = "done"
            /\ UNCHANGED <<buf, bus>>
       ELSE /\ buf' = Append(buf, IF "ready" \in intFlags THEN bus.arg ELSE Garbage)
            /\ bus' = [bus EXCEPT !.arg = @ + 1, !.left = @ - 1]
            /\ wait' = IF Len(buf) + 1 = dev.blocks THEN "done" ELSE "data"
            /\ UNCHANGED dev
    /\ hw' = IF "ready" \in intFlags /\ intFlags \cap Errors = {} THEN "busy" ELSE hw
    /\ UNCHANGED <<stage, app, resp, v2, tries, card, req, outcome, faults, budget>>

\* Mutant: the absence of errors is taken for success.
TransferOkWithoutDone(f) == f \cap Errors = {}

(* The end of emmc_issue_command for data and busy commands: transfer      *)
(* complete, also together with a data timeout, is success.                *)
TransferOk(f) == f \cap (Errors \cup {"done"}) \in {{"done"}, {"done", "dataTimeout"}}

Finish ==
    /\ wait = "done"
    /\ "done" \in intFlags \/ intFlags \cap Errors # {} \/ hw = "quiet"
    /\ LET left == intFlags \ (Errors \cup {"done"}) IN
       IF TransferOk(intFlags)
       THEN Succeeded(resp, left, dev)
       ELSE Failed(left, [dev EXCEPT !.lastError = LastError(intFlags)])
    /\ UNCHANGED <<bus, hw, resp, card, req, buf, faults, budget>>
-----------------------------------------------------------------------------
(* emmc_seek_sector and emmc_read of whole sectors. *)
Read ==
    /\ stage = "ready"
    /\ req' \in Requests
    /\ stage' = "read" /\ outcome' = "none" /\ faults' = 0
    /\ tries' = [tries EXCEPT !.data = 0]
    /\ dev' = [dev EXCEPT !.blocks = req'[2]]
    /\ UNCHANGED <<wait, app, bus, hw, intFlags, resp, v2, card, buf, budget>>
-----------------------------------------------------------------------------
(***************************************************************************)
(* External: what the card does with the command on the bus.  Reaction is  *)
(* the card afterwards and its response; NoReaction is no response.        *)
(***************************************************************************)
Legal ==
    IF app THEN card.state \notin {"ready", "ident"} /\ bus.arg = card.rca
    ELSE CASE stage = "idle" -> TRUE
           [] stage = "ifcond" -> card.state = "idle" /\ card.kind # "v1"
           [] stage = "iocond" -> FALSE
           [] stage \in {"ocr", "sdhc"} -> card.state = "idle"
           [] stage = "cid" -> card.state = "ready"
           [] stage = "rca" -> card.state = "ident"
           [] stage = "select" -> card.state = "stby" /\ bus.arg = card.rca
           [] stage \in {"blocklen", "scr", "read"} -> card.state = "tran"

(* A card of high capacity stays busy towards a host that does not         *)
(* announce support for it.                                                *)
PowersUp == /\ stage = "sdhc" /\ ~app /\ card.powered
            /\ card.kind = "v2hc" => bus.arg = 2

CardAfter(rca) ==
    IF app THEN card
    ELSE CASE stage = "idle" -> [card EXCEPT !.state = "idle", !.rca = 0, !.powered = FALSE]
           [] PowersUp -> [card EXCEPT !.state = "ready"]
           [] stage = "cid" -> [card EXCEPT !.state = "ident"]
           [] stage = "rca" -> [card EXCEPT !.state = "stby", !.rca = rca]
           [] stage = "select" -> [card EXCEPT !.state = "tran"]
           [] OTHER -> card

Response(rca) == [good |-> TRUE, powered |-> PowersUp, ccs |-> card.kind = "v2hc", rca |-> rca]

(* External: a card whose transfer of several blocks was cut off may wait  *)
(* for a stop command, which the driver never sends.                       *)
CutOff == IF stage = "read" /\ dev.blocks > 1
          THEN {card, [card EXCEPT !.state = "data"]} ELSE {card}

(* The sector the card takes the argument for. *)
Addressed == IF card.kind = "v2hc" THEN bus.arg ELSE bus.arg \div SectorBytes

(* External: the answer to a command: as specified, none, or a fault: the  *)
(* response is lost or corrupt, the content is bad, the controller is dead.*)
Answer ==
    /\ wait = "cmd" /\ hw = "asked"
    /\ \/ \E r \in Rcas :
            /\ Legal
            /\ card' = CardAfter(r) /\ resp' = Response(r) /\ intFlags' = intFlags \cup {"cmd"}
            /\ hw' = IF IsData \/ IsBusy THEN "busy" ELSE "quiet"
            /\ bus' = IF IsData THEN [arg |-> Addressed, left |-> dev.blocks] ELSE bus
            /\ NoFault
       \/ /\ ~Legal
          /\ intFlags' = intFlags \cup {"cmdTimeout"} /\ hw' = "quiet"
          /\ NoFault /\ UNCHANGED <<card, resp, bus>>
       \/ \E r \in Rcas, f \in {{"cmdTimeout"}, {"cmd", "otherError"}, {}} :
            /\ Fault
            /\ card' \in CutOff \cup (IF Legal THEN {CardAfter(r)} ELSE {})
            /\ intFlags' = intFlags \cup f /\ hw' = "quiet"
            /\ UNCHANGED <<resp, bus>>
       \/ /\ Fault /\ Legal /\ stage \in {"ifcond", "rca", "select"} /\ ~app
          /\ intFlags' = intFlags \cup {"cmd"} /\ hw' = IF IsBusy THEN "busy" ELSE "quiet"
          /\ \E r \in Rcas : /\ card' = CardAfter(r)
                             /\ resp' = [Response(r) EXCEPT !.good = FALSE]
          /\ UNCHANGED bus
    /\ UNCHANGED <<stage, wait, app, dev, v2, tries, req, buf, outcome>>

(* External: a block arrives, fails, or never comes. *)
DataReady ==
    /\ wait = "data" /\ hw = "busy" /\ "ready" \notin intFlags /\ bus.left > 0
    /\ \/ intFlags' = intFlags \cup {"ready"} /\ NoFault /\ UNCHANGED <<hw, card>>
       \/ /\ Fault /\ hw' = "quiet" /\ card' \in CutOff
          /\ \E f \in {{"otherError"}, {"dataTimeout"}, {}} : intFlags' = intFlags \cup f
    /\ UNCHANGED <<stage, wait, app, bus, resp, dev, v2, tries, req, buf, outcome>>

(* External: the end of the transfer or of the busy time. *)
TransferDone ==
    /\ wait = "done" /\ hw = "busy" /\ bus.left = 0 /\ "done" \notin intFlags
    /\ hw' = "quiet"
    /\ \/ intFlags' = intFlags \cup {"done"} /\ NoFault /\ UNCHANGED card
       \/ /\ Fault /\ UNCHANGED card /\ intFlags' = intFlags \cup {"done", "dataTimeout"}
       \/ /\ Fault /\ card' \in CutOff
          /\ \E f \in {{"dataTimeout"}, {"otherError"}, {}} : intFlags' = intFlags \cup f
    /\ UNCHANGED <<stage, wait, app, bus, resp, dev, v2, tries, req, buf, outcome>>

(* External: the card finishes its power-up. *)
PowerUp ==
    /\ ~card.powered /\ stage = "sdhc"
    /\ card' = [card EXCEPT !.powered = TRUE]
    /\ UNCHANGED <<stage, wait, app, bus, hw, intFlags, resp, dev, v2, tries, req, buf,
                   outcome, faults, budget>>

(* External: a card that holds the data line, or a command line that is    *)
(* stuck, keeps the controller from taking commands, for as long as it     *)
(* likes.                                                                  *)
Inhibit ==
    /\ stage = "clock" /\ hw = "quiet" /\ Fault
    /\ hw' = "inhibited"
    /\ UNCHANGED <<stage, wait, app, bus, intFlags, resp, dev, v2, tries, card, req, buf, outcome>>

Release ==
    /\ hw = "inhibited" /\ hw' = "quiet"
    /\ UNCHANGED <<stage, wait, app, bus, intFlags, resp, dev, v2, tries, card, req, buf,
                   outcome, faults, budget>>
-----------------------------------------------------------------------------
Driver ==
    \/ ResetHost \/ SwitchClock \/ Issue \/ Refuse \/ Collect \/ ResetCommandFails
    \/ Drain \/ Finish
Hardware == Answer \/ DataReady \/ TransferDone
EmmcNext == Driver \/ Hardware \/ PowerUp \/ Inhibit \/ Release \/ Read

(* The driver polls and the controller reacts to a command in finite time. *)
(* A card need not become ready or release the bus, and nobody has to read.*)
EmmcFairness == WF_emmcVars(Driver) /\ WF_emmcVars(Hardware)
EmmcSpec == EmmcInit /\ [][EmmcNext]_emmcVars /\ EmmcFairness
-----------------------------------------------------------------------------
EmmcTypeOK ==
    /\ stage \in Steps /\ wait \in {"none", "cmd", "data", "done"} /\ app \in BOOLEAN
    /\ hw \in {"asked", "busy", "quiet", "inhibited"} /\ intFlags \subseteq Errors \cup {"cmd", "ready", "done"}
    /\ bus \in [arg : Nat, left : Int]
    /\ resp \in [good : BOOLEAN, powered : BOOLEAN, ccs : BOOLEAN, rca : Rcas \cup {0}]
    /\ dev \in [rca : Rcas \cup {0}, sdhc : BOOLEAN, lastError : {"none", "timeout", "other"},
                blockSize : {0, 8, SectorBytes}, blocks : Nat]
    /\ v2 \in BOOLEAN /\ req \in Requests /\ outcome \in {"none", "ok", "failed"}
    /\ tries \in [init : 0..MaxAttempts, ocr : 0..OcrTries - 1, data : 0..MaxRetries]
    /\ card \in [kind : CardKinds, rca : Rcas \cup {0}, powered : BOOLEAN,
                 state : {"idle", "ready", "ident", "stby", "tran", "data"}]
    /\ buf \in Seq(Int) /\ faults \in 0..FaultBudget /\ budget \in 0..FaultBudget

(* When emmc_init has returned TRUE, whatever was retried before, driver   *)
(* and card agree: the card is selected under the address the driver uses, *)
(* sectors are addressed in the card's unit, and the block size is that of *)
(* a sector again and not that of the SCR.                                 *)
ReadyAgrees ==
    stage \in {"ready", "read"} =>
        /\ card.state \in {"tran", "data"} /\ card.rca = dev.rca
        /\ dev.sdhc = (card.kind = "v2hc")
        /\ dev.blockSize = SectorBytes

(* Driver, controller and card stay within their states, and driver and    *)
(* card agree whenever a read may begin.                                   *)
DriverAgrees == EmmcTypeOK /\ ReadyAgrees

(* What emmc_read answers is true, although do_data_transfer's failures    *)
(* and the timeouts of its waits are ignored.  On success the buffer holds *)
(* the sectors asked for, all of them and in order.  A read that asks for  *)
(* no more than a transfer can have is given up only after a fault in      *)
(* every one of its tries, unless a transfer of several blocks was cut     *)
(* off, in this read or an earlier one: the driver sends no stop command,  *)
(* and the card answers nothing.                                           *)
ReadAnswersTruly ==
    /\ outcome = "ok" => buf = [i \in 1..req[2] |-> req[1] + i - 1]
    /\ outcome = "failed" =>
          faults >= MaxRetries \/ card.state = "data" \/ req[2] > MaxBlocks

(* A reset in which card and controller make no fault fails only while     *)
(* reading the OCR, with a relative address from an earlier attempt.       *)
CleanResetFailsOnlyStale ==
    [][tries'.init > tries.init => faults' > 0 \/ (stage = "ocr" /\ dev.rca # 0)]_emmcVars

(* Two loops without a bound keep emmc_init from returning:                *)
(* check_sdhc_support's, for a card that never becomes ready or that has   *)
(* high capacity and is not told of support for it, and                    *)
(* switch_clock_rate's, for a bus that is never released.                  *)
HangsInInit ==
    \/ stage = "sdhc" /\ (~card.powered \/ (card.kind = "v2hc" /\ ~v2))
    \/ stage = "clock" /\ hw = "inhibited"

(* No other loop of the driver does, whatever is lost, corrupt or late:    *)
(* once a command is on the bus, emmc_init returns or stays in one of      *)
(* these two, and every read returns.                                      *)
DriverReturns ==
    /\ (wait # "none") ~> (stage \in {"ready", "failed"} \/ []HangsInInit)
    /\ (stage = "read") ~> (stage = "ready")
=============================================================================
