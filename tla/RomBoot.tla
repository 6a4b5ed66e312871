------------------------------- MODULE RomBoot -------------------------------
(***************************************************************************)
(* The MCU boot ROM: rom_start reads the reset reason and runs one of four  *)
(* boot flows, which report their progress in the MCI flow status register  *)
(* (a checkpoint in its low half, milestones in its high half).  A flow is  *)
(* a sequence of status writes and calls; a call that fails ends the flow,  *)
(* and rom_start spins whatever the flow returned.  The MCU runs against    *)
(* the OTP controller, the Caliptra mailbox and Caliptra itself, may trap   *)
(* at any step, and may be reset or power cycled between any two steps.     *)
(***************************************************************************)
EXTENDS Integers, Sequences

CONSTANTS OTP_TIMEOUT,     \* timeout_cycles of Otp::wait_for_idle (10000)
          READY_TIMEOUT,   \* timeout of wait_caliptra_ready (100000)
          MaxResets        \* bound on the resets of a behaviour

ASSUME BootAssumption ==
    /\ OTP_TIMEOUT \in Nat \ {0}
    /\ READY_TIMEOUT \in Nat \ {0}
    /\ MaxResets \in Nat

VARIABLES
    \* --- hardware
    reason,      \* RESET_REASON register, the set of its bits
    flowStatus,  \* FW_FLOW_STATUS register, the set of its bits
    dev,         \* the other registers and devices the ROM deals with
    \* --- the ROM
    state,       \* "reset", "running", "spin" or "fatal"
    flow,        \* what is left of the boot flow
    tmo,         \* poll count of the wait in progress
    failed,      \* ghost: a call of the flow returned an error
    handler,     \* a fatal error handler is installed
    code,        \* argument of fatal_error_raw
    \* --- ghosts
    seen,        \* waits that have ended well since power-on
    resets

ghosts == <<failed, seen, resets>>
vars   == <<reason, flowStatus, dev, state, flow, tmo, handler, code, ghosts>>

ResetBits == {"WARM_RESET", "FW_BOOT_UPD_RESET", "FW_HITLESS_UPD_RESET"}

\* The milestones the flows report, and their codes.
BootMilestones ==
    [ROM_STARTED |-> 1, CPTRA_BOOT_GO_ASSERTED |-> 2, CPTRA_FUSES_WRITTEN |-> 4,
     COLD_BOOT_FLOW_COMPLETE |-> 32, WARM_RESET_FLOW_COMPLETE |-> 64,
     FIRMWARE_BOOT_FLOW_COMPLETE |-> 128]

Milestones == DOMAIN BootMilestones

\* The checkpoints the flows report, and their codes.
ROM_INITIALIZATION_BASE == 1
CALIPTRA_SETUP_BASE     == 193
FIRMWARE_LOADING_BASE   == 257
BOOT_FLOW_BASE          == 385

McuRomBootStatus ==
    [McuMemoryMapInitialized          |-> ROM_INITIALIZATION_BASE + 1,
     StrapsLoaded                     |-> ROM_INITIALIZATION_BASE + 2,
     McuRegistersInitialized          |-> ROM_INITIALIZATION_BASE + 3,
     CaliptraBootGoAsserted           |-> CALIPTRA_SETUP_BASE,
     FusesPopulatedToCaliptra         |-> CALIPTRA_SETUP_BASE + 4,
     CaliptraReadyForMailbox          |-> CALIPTRA_SETUP_BASE + 11,
     DeviceOwnershipTransferFlashRead |-> CALIPTRA_SETUP_BASE + 12,
     DeviceOwnershipTransferStarted   |-> CALIPTRA_SETUP_BASE + 13,
     DeviceOwnershipDeriveStableKey   |-> CALIPTRA_SETUP_BASE + 14,
     DeviceOwnershipBurnFuses         |-> CALIPTRA_SETUP_BASE + 15,
     DeviceOwnershipDetermineOwner    |-> CALIPTRA_SETUP_BASE + 16,
     DeviceOwnershipTransferComplete  |-> CALIPTRA_SETUP_BASE + 17,
     FirmwareValidationComplete       |-> FIRMWARE_LOADING_BASE + 5,
     ColdBootFlowStarted              |-> BOOT_FLOW_BASE,
     ColdBootFlowComplete             |-> BOOT_FLOW_BASE + 1,
     WarmResetFlowStarted             |-> BOOT_FLOW_BASE + 2,
     WarmResetFlowComplete            |-> BOOT_FLOW_BASE + 3,
     FirmwareBootFlowStarted          |-> BOOT_FLOW_BASE + 4,
     FirmwareBootFlowComplete         |-> BOOT_FLOW_BASE + 5,
     HitlessUpdateFlowStarted         |-> BOOT_FLOW_BASE + 6,
     HitlessUpdateFlowComplete        |-> BOOT_FLOW_BASE + 7]

Checkpoints == DOMAIN McuRomBootStatus

\* A register value is the set of its bits.
Half   == 0..15
Word   == 0..31
Bits(n) == {b \in Half : (n \div (2 ^ b)) % 2 = 1}

\* The codes fit into their half of the register; no two checkpoints share
\* one, and a milestone is one bit, its own.
ASSUME StatusCodes ==
    /\ \A c, d \in Checkpoints : Bits(McuRomBootStatus[c]) = Bits(McuRomBootStatus[d]) => c = d
    /\ \A c \in Checkpoints : McuRomBootStatus[c] \in 1..(2 ^ 16 - 1)
    /\ \A c \in Checkpoints : Bits(McuRomBootStatus[c]) # {}
    /\ \A m \in Milestones : \E b \in Half : Bits(BootMilestones[m]) = {b}
    /\ \A m, k \in Milestones : Bits(BootMilestones[m]) = Bits(BootMilestones[k]) => m = k

FlowCalls == {"stub", "i3c_init", "otp_init", "caliptra_boot_go", "wait_caliptra_ready"}

Codes == {"none", "BOOT_INVALID_RESET_REASON", "GENERIC_EXCEPTION"}

----------------------------------------------------------------------------
\* The flows.

Ck(c)   == <<"checkpoint", c>>
Ms(m)   == <<"milestone", m>>
Call(f) == <<"call", f>>

\* determine_owner is a stub that always answers NoOwner.
determine_owner == "NoOwner"

DeviceOwnershipTransfer ==
    <<Ck("DeviceOwnershipTransferStarted"), Call("stub"),
      Ck("DeviceOwnershipTransferFlashRead"), Call("stub"),
      Ck("DeviceOwnershipDetermineOwner")>>
    \o (IF determine_owner = "TransferPending"
        THEN <<Call("stub"), Ck("DeviceOwnershipDeriveStableKey"),
               Call("stub"), Ck("DeviceOwnershipBurnFuses"), Call("stub")>>
        ELSE <<>>)
    \o <<Ck("DeviceOwnershipTransferComplete")>>

\* Mutant: the milestone of boot go is set before Caliptra is configured.
ColdBoot_milestone_first ==
    <<Ck("ColdBootFlowStarted"), Ms("ROM_STARTED"), Call("stub"), Call("i3c_init"),
      Call("otp_init"), Ms("CPTRA_BOOT_GO_ASSERTED"), Call("caliptra_boot_go"),
      Ms("CPTRA_FUSES_WRITTEN"), Ms("COLD_BOOT_FLOW_COMPLETE")>>

ColdBoot ==
    <<Ck("ColdBootFlowStarted"), Ms("ROM_STARTED"),
      Call("stub"), Ck("McuMemoryMapInitialized"),
      Call("stub"), Ck("StrapsLoaded"),
      Call("i3c_init"), Call("otp_init"), Ck("McuRegistersInitialized"),
      Call("caliptra_boot_go"), Ms("CPTRA_BOOT_GO_ASSERTED"), Ck("CaliptraBootGoAsserted"),
      Call("stub"), Ms("CPTRA_FUSES_WRITTEN"), Ck("FusesPopulatedToCaliptra"),
      Call("wait_caliptra_ready"), Ck("CaliptraReadyForMailbox")>>
    \o DeviceOwnershipTransfer
    \o <<Ck("DeviceOwnershipTransferComplete"), Call("stub"),
         Ms("COLD_BOOT_FLOW_COMPLETE"), Ck("ColdBootFlowComplete")>>

WarmBoot ==
    <<Ck("WarmResetFlowStarted"), Call("stub"), Call("stub"), Call("stub"),
      Ms("WARM_RESET_FLOW_COMPLETE"), Ck("WarmResetFlowComplete")>>

FwBoot ==
    <<Ck("FirmwareBootFlowStarted"), Call("stub"), Ck("FirmwareValidationComplete"),
      Ms("FIRMWARE_BOOT_FLOW_COMPLETE"), Ck("FirmwareBootFlowComplete")>>

FwHitlessUpdate ==
    <<Ck("HitlessUpdateFlowStarted"), Call("stub"), Call("stub"), Call("stub"),
      Ck("HitlessUpdateFlowComplete")>>

Flows == {ColdBoot, WarmBoot, FwBoot, FwHitlessUpdate}

reset_reason_enum(bits) ==
    CASE bits = {} -> "ColdBoot"
      [] bits = {"WARM_RESET"} -> "WarmReset"
      [] bits = {"FW_BOOT_UPD_RESET"} -> "FirmwareBootReset"
      [] bits = {"FW_HITLESS_UPD_RESET"} -> "FirmwareHitlessUpdate"
      [] OTHER -> "Invalid"

McuResetReason == {"ColdBoot", "WarmReset", "FirmwareBootReset", "FirmwareHitlessUpdate",
                   "Invalid"}

is_cold_reset(bits)              == reset_reason_enum(bits) = "ColdBoot"
is_warm_reset(bits)              == reset_reason_enum(bits) = "WarmReset"
is_fw_boot_update_reset(bits)    == reset_reason_enum(bits) = "FirmwareBootReset"
is_fw_hitless_update_reset(bits) == reset_reason_enum(bits) = "FirmwareHitlessUpdate"

\* The switch of rom_start; <<>> when no flow is run.
FlowFor(r) ==
    CASE r = "ColdBoot" -> ColdBoot
      [] r = "WarmReset" -> WarmBoot
      [] r = "FirmwareBootReset" -> FwBoot
      [] r = "FirmwareHitlessUpdate" -> FwHitlessUpdate
      [] OTHER -> <<>>

----------------------------------------------------------------------------
\* fatal and wdt2 are the MCI registers FW_ERROR_FATAL and
\* WDT_TIMER2_TIMEOUT_PERIOD_0.
Devices == [otpIdle : BOOLEAN, mboxBusy : BOOLEAN, i3cEnabled : BOOLEAN,
            caliptra : {"held", "booting", "ready"}, fatal : Codes, wdt2 : Codes]

PowerOnDevices ==
    [otpIdle |-> FALSE, mboxBusy |-> FALSE, i3cEnabled |-> FALSE,
     caliptra |-> "held", fatal |-> "none", wdt2 |-> "none"]

Init ==
    /\ reason = {} /\ flowStatus = {}
    /\ dev = PowerOnDevices
    /\ state = "reset" /\ flow = <<>> /\ tmo = 0 /\ code = "none"
    /\ handler = FALSE
    /\ failed = FALSE /\ seen = {} /\ resets = 0

TypeOK ==
    /\ reason \subseteq ResetBits
    /\ flowStatus \subseteq Word
    /\ dev \in Devices
    /\ state \in {"reset", "running", "spin", "fatal"}
    /\ \E f \in Flows : \E i \in 1..(Len(f) + 1) : flow = SubSeq(f, i, Len(f))
    /\ tmo \in 0..OTP_TIMEOUT \/ tmo \in 0..READY_TIMEOUT
    /\ handler \in BOOLEAN
    /\ code \in Codes
    /\ failed \in BOOLEAN
    /\ seen \subseteq {"otp_idle", "mbox_not_busy"}
    /\ resets \in 0..MaxResets

----------------------------------------------------------------------------
\* The flow status register.

\* value << 16, and value >> 16 of a word.
Shl16(v) == {b + 16 : b \in v}
Shr16(v) == {b \in Half : b + 16 \in v}

flow_milestone  == Shr16(flowStatus)
flow_checkpoint == flowStatus \cap Half

set_flow_status(v) == flowStatus' = v

\* Mutant: the milestones are not shifted back.
set_flow_checkpoint_unshifted(c) ==
    set_flow_status(flow_milestone \cup Bits(McuRomBootStatus[c]))

\* Both read the register, put one half together with their argument and write
\* all of it back.
set_flow_checkpoint(c) ==
    set_flow_status(Shl16(flow_milestone) \cup Bits(McuRomBootStatus[c]))

set_flow_milestone(m) ==
    set_flow_status(Shl16(Bits(BootMilestones[m])) \cup flowStatus)

\* What a reader of the register finds in it.
milestones  == {m \in Milestones : Bits(BootMilestones[m]) \subseteq flow_milestone}
Reported(c) == flow_checkpoint = Bits(McuRomBootStatus[c])

----------------------------------------------------------------------------
\* Fatal errors.

REG_FW_ERROR_FATAL == 12
REG_WDT_TIMER2_TIMEOUT_PERIOD_0 == 32

\* RomFatalErrorHandler writes to MCI_BASE + 0x20.
HANDLER_FATAL_OFFSET == 32

WriteMci(off, v) ==
    CASE off = REG_FW_ERROR_FATAL -> [dev EXCEPT !.fatal = v]
      [] off = REG_WDT_TIMER2_TIMEOUT_PERIOD_0 -> [dev EXCEPT !.wdt2 = v]

set_fatal_error_handler == handler' = TRUE

\* The handler records the error and leaves the emulator, or spins.
RomFatalErrorHandler(c) ==
    /\ dev' = WriteMci(HANDLER_FATAL_OFFSET, c)
    /\ state' = "fatal"

\* Without a handler the ROM itself records the error.
fatal_error_raw(c) ==
    /\ code' = c
    /\ IF handler THEN RomFatalErrorHandler(c)
       ELSE dev' = WriteMci(REG_FW_ERROR_FATAL, c) /\ state' = "fatal"

exception_handler == fatal_error_raw("GENERIC_EXCEPTION")

\* start.S sets the trap vector first, so a trap may come before main has
\* installed the handler.
Trap ==
    /\ state # "fatal"
    /\ exception_handler
    /\ UNCHANGED <<reason, flowStatus, flow, tmo, handler, ghosts>>

----------------------------------------------------------------------------
\* The ROM.

\* main installs the fatal error handler before it calls rom_start.
main ==
    /\ state = "reset" /\ ~handler
    /\ set_fatal_error_handler
    /\ UNCHANGED <<reason, flowStatus, dev, state, flow, tmo, code, ghosts>>

\* First milestone, then the flow for the reset reason.
rom_start ==
    /\ state = "reset" /\ handler
    /\ set_flow_milestone("ROM_STARTED")
    /\ flow' = FlowFor(reset_reason_enum(reason))
    /\ IF flow' = <<>>
       THEN fatal_error_raw("BOOT_INVALID_RESET_REASON")
       ELSE state' = "running" /\ UNCHANGED <<code, dev>>
    /\ UNCHANGED <<reason, tmo, handler, ghosts>>

At(kind)  == state = "running" /\ flow # <<>> /\ flow[1][1] = kind
AtCall(f) == At("call") /\ flow[1][2] = f

WriteStatus ==
    /\ \/ At("checkpoint") /\ set_flow_checkpoint(flow[1][2])
       \/ At("milestone") /\ set_flow_milestone(flow[1][2])
    /\ flow' = Tail(flow)
    /\ UNCHANGED <<reason, dev, state, tmo, handler, code, ghosts>>

caliptra_boot_go ==
    dev' = [dev EXCEPT !.caliptra = IF @ = "held" THEN "booting" ELSE @]

\* Calls that always succeed: the stubs do nothing, I3c::init clears the
\* FIFOs and enables the controller, caliptra_boot_go lets Caliptra run.
CallSucceeds ==
    /\ \/ AtCall("stub") /\ UNCHANGED dev
       \/ AtCall("i3c_init") /\ dev' = [dev EXCEPT !.i3cEnabled = TRUE]
       \/ AtCall("caliptra_boot_go") /\ caliptra_boot_go
    /\ flow' = Tail(flow)
    /\ UNCHANGED <<reason, flowStatus, state, tmo, handler, code, ghosts>>

WaitMet(f, mark) ==
    /\ AtCall(f)
    /\ seen' = seen \cup {mark}
    /\ flow' = Tail(flow) /\ tmo' = 0
    /\ UNCHANGED <<reason, flowStatus, dev, state, handler, code, failed, resets>>

\* Mutants: the caller goes on after the error; the turns are not counted; the
\* count goes past 0.
WaitNotMet_error_ignored(f, limit) ==
    /\ AtCall(f)
    /\ flow' = Tail(flow) /\ tmo' = 0 /\ failed' = TRUE
    /\ UNCHANGED <<reason, flowStatus, dev, state, handler, code, seen, resets>>

WaitNotMet_uncounted(f, limit) == AtCall(f) /\ limit > 0 /\ UNCHANGED vars

WaitNotMet_past_zero(f, limit) ==
    /\ AtCall(f) /\ limit > 0
    /\ tmo' = tmo - 1
    /\ UNCHANGED <<reason, flowStatus, dev, state, flow, handler, code, ghosts>>

\* One more turn of a bounded wait; it gives up when the count reaches 0, and
\* the error ends the flow.
WaitNotMet(f, limit) ==
    /\ AtCall(f)
    /\ tmo' = (IF tmo = 0 THEN limit ELSE tmo) - 1
    /\ IF tmo' = 0
       THEN flow' = <<>> /\ failed' = TRUE
       ELSE UNCHANGED <<flow, failed>>
    /\ UNCHANGED <<reason, flowStatus, dev, state, handler, code, seen, resets>>

OtpInit ==
    \/ dev.otpIdle /\ WaitMet("otp_init", "otp_idle")
    \/ ~dev.otpIdle /\ WaitNotMet("otp_init", OTP_TIMEOUT)

is_mailbox_busy == dev.mboxBusy

wait_caliptra_ready ==
    \/ ~is_mailbox_busy /\ WaitMet("wait_caliptra_ready", "mbox_not_busy")
    \/ is_mailbox_busy /\ WaitNotMet("wait_caliptra_ready", READY_TIMEOUT)

\* The flow has returned, with or without an error: rom_start spins.
FlowReturns ==
    /\ state = "running" /\ flow = <<>>
    /\ state' = "spin"
    /\ UNCHANGED <<reason, flowStatus, dev, flow, tmo, handler, code, ghosts>>

----------------------------------------------------------------------------
\* What ends a boot: a loop that never ends, in rom_start or in the fatal
\* error handler.
Spin == state \in {"spin", "fatal"} /\ UNCHANGED vars

\* Surroundings (external).

\* OTP becomes idle sooner or later or never; other users keep the mailbox
\* busy for a while or for good; Caliptra boots in its own time.
DeviceStep ==
    /\ \/ ~dev.otpIdle /\ dev' = [dev EXCEPT !.otpIdle = TRUE]
       \/ dev.caliptra # "held" /\ dev' = [dev EXCEPT !.mboxBusy = ~@]
       \/ dev.caliptra = "booting" /\ dev' = [dev EXCEPT !.caliptra = "ready"]
    /\ UNCHANGED <<reason, flowStatus, state, flow, tmo, handler, code, ghosts>>

\* A reset restarts the MCU wherever it is.  Without a reason bit it is a
\* power cycle; otherwise MCI, the peripherals and Caliptra keep their state.
Reset(bits) ==
    /\ resets < MaxResets /\ resets' = resets + 1
    /\ reason' = bits
    /\ state' = "reset" /\ flow' = <<>> /\ tmo' = 0 /\ failed' = FALSE /\ code' = "none"
    /\ handler' = FALSE
    /\ IF bits = {}
       THEN flowStatus' = {} /\ dev' = PowerOnDevices /\ seen' = {}
       ELSE UNCHANGED <<flowStatus, dev, seen>>

----------------------------------------------------------------------------

RomStep ==
    \/ main \/ rom_start \/ WriteStatus
    \/ CallSucceeds \/ OtpInit \/ wait_caliptra_ready
    \/ FlowReturns

Environment ==
    \/ DeviceStep
    \/ Trap
    \/ \E bits \in SUBSET ResetBits : Reset(bits)

Next == RomStep \/ Spin \/ Environment

\* The processor runs whatever it is waiting for; nothing else is promised.
Spec == Init /\ [][Next]_vars /\ WF_vars(RomStep)

----------------------------------------------------------------------------
\* Properties.

\* Milestones accumulate from power-on: no checkpoint or milestone write, flow
\* or reset of the MCU takes one back, although each writes the whole of the
\* register that the two halves share.
MilestonesNeverLost ==
    [][flow_milestone \subseteq flow_milestone' \/ (reason' = {} /\ resets' # resets)]_vars

\* What the status register says of boot go, of the MCU's own registers and of
\* the cold boot as a whole has been done in hardware since power-on, across
\* resets at any point of any flow.  Nothing is said of the fuses (the step
\* behind CPTRA_FUSES_WRITTEN is a stub, and only comes after boot go), of
\* CaliptraReadyForMailbox (see ReadyForMailboxMeansReady) and of the
\* checkpoints of the other flows, which do nothing but report.
ProgressTruthful ==
    /\ "CPTRA_BOOT_GO_ASSERTED" \in milestones => dev.caliptra # "held"
    /\ "CPTRA_FUSES_WRITTEN" \in milestones => "CPTRA_BOOT_GO_ASSERTED" \in milestones
    /\ Reported("McuRegistersInitialized") => dev.i3cEnabled /\ "otp_idle" \in seen
    /\ "COLD_BOOT_FLOW_COMPLETE" \in milestones =>
           /\ dev.i3cEnabled
           /\ seen = {"otp_idle", "mbox_not_busy"}
           /\ {"ROM_STARTED", "CPTRA_FUSES_WRITTEN"} \subseteq milestones

\* Once a call of a flow has failed, the flow reports no further progress
\* until the next reset.
FailedFlowStops ==
    [][failed /\ failed' => UNCHANGED flowStatus]_vars

\* Every boot comes to an end, even if the OTP controller never becomes idle
\* and the mailbox stays busy: its waits are bounded.
EveryBootEnds == (state \in {"reset", "running"}) ~> (state \in {"spin", "fatal"})

\* "Wait for Caliptra to become ready for mailbox commands": the checkpoint
\* CaliptraReadyForMailbox is reported only when Caliptra is ready.
ReadyForMailboxMeansReady ==
    Reported("CaliptraReadyForMailbox") => dev.caliptra = "ready"

\* "Set fatal error in MCI": a ROM that died of a fatal error has left its
\* code in FW_ERROR_FATAL.
FatalErrorRecorded ==
    state = "fatal" => dev.fatal = code
=============================================================================
