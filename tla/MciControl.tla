------------------------------ MODULE MciControl ------------------------------
(***************************************************************************)
(* The operations of class Mci with a life after the call: the notification *)
(* interrupt that asks for a reset of the MCU, and watchdog timer 1.  Both  *)
(* are driven by registers that hardware changes between the driver's       *)
(* accesses: notifications arrive, the timer counts and expires.            *)
(*                                                                         *)
(* handle_interrupt runs in an interrupt: the operation it interrupts       *)
(* stands still, the hardware does not.                                     *)
(***************************************************************************)
EXTENDS Integers, FiniteSets

CONSTANTS OtherNotifs,  \* notifications other than the reset request
          Periods,      \* timeouts callers pass to configure_wdt
          MaxTicks      \* bound: where the count of the timer stops

ASSUME MciAssumption ==
    /\ "reset_req" \notin OtherNotifs
    /\ Periods \subseteq 1..MaxTicks
    /\ MaxTicks \in Nat \ {0}

VARIABLES
    notif,        \* NOTIF0_INTERNAL_INTR_R: the bits that are set
    resetRequest, \* RESET_REQUEST
    handler,      \* step of handle_interrupt
    current,      \* value read by its modify_reg
    wanted,       \* ghost: Caliptra has asked for a reset since the last one
    dropped,      \* ghost: notifications cleared that nobody looked at
    period0,      \* WDT_TIMER1_TIMEOUT_PERIOD_0
    period1,      \* WDT_TIMER1_TIMEOUT_PERIOD_1
    enabled,      \* WDT_TIMER1_EN
    count,        \* count of timer 1
    expired,      \* timer 1 has expired
    wdtPc,        \* writes configure_wdt has made; 0: not in progress
    asked,        \* its argument
    age,          \* ghost: ticks since it was called
    fresh,        \* ghost: the timer was off then, and nothing else turned it on
    written       \* the write-only registers that have been set

notifVars == <<notif, resetRequest, handler, current, wanted, dropped>>
wdtVars   == <<period0, period1, enabled, count, expired, wdtPc, asked, age, fresh>>
mciVars   == <<notifVars, wdtVars, written>>

Notifs == OtherNotifs \cup {"reset_req"}

MciTypeOK ==
    /\ notif \subseteq Notifs /\ current \subseteq Notifs /\ dropped \subseteq Notifs
    /\ handler \in {"idle", "modify", "clear", "request"}
    /\ {resetRequest, wanted, enabled, expired, fresh} \subseteq BOOLEAN
    /\ {period0, period1, count, age, asked} \subseteq 0..MaxTicks
    /\ wdtPc \in 0..6
    /\ written \subseteq {"MCU_NMI_VECTOR", "SS_CONFIG_DONE"}

MciInit ==
    /\ notif = {} /\ resetRequest = FALSE /\ handler = "idle" /\ current = {}
    /\ wanted = FALSE /\ dropped = {}
    /\ period0 = 0 /\ period1 \in 0..1 /\ enabled = FALSE /\ count = 0 /\ expired = FALSE
    /\ wdtPc = 0 /\ asked = 0 /\ age = 0 /\ fresh = FALSE
    /\ written = {}

----------------------------------------------------------------------------
\* handle_interrupt.  A bit of the notification register written as 1 is
\* cleared (external), so the read-modify-write clears every bit it reads.

HandlerReads ==
    /\ handler = "idle" /\ notif # {}
    /\ handler' = IF "reset_req" \in notif THEN "modify" ELSE "idle"
    /\ UNCHANGED <<notif, resetRequest, current, wanted, dropped, wdtVars, written>>

ModifyReads ==
    /\ handler = "modify"
    /\ current' = notif /\ handler' = "clear"
    /\ UNCHANGED <<notif, resetRequest, wanted, dropped, wdtVars, written>>

\* (current & ~mask) | mask
ModifyWrites ==
    /\ handler = "clear"
    /\ LET bits == (current \ {"reset_req"}) \cup {"reset_req"} IN
       /\ notif' = notif \ bits
       /\ dropped' = dropped \cup ((notif \cap bits) \ {"reset_req"})
    /\ handler' = "request" /\ current' = {}
    /\ UNCHANGED <<resetRequest, wanted, wdtVars, written>>

\* Mutant: modify_reg is called with a value that leaves the bit clear.
RequestReset_forgotten ==
    /\ handler = "request"
    /\ handler' = "idle"
    /\ UNCHANGED <<notif, resetRequest, current, wanted, dropped, wdtVars, written>>

RequestReset ==
    /\ handler = "request"
    /\ resetRequest' = TRUE /\ handler' = "idle"
    /\ UNCHANGED <<notif, current, wanted, dropped, wdtVars, written>>

trigger_warm_reset ==
    /\ handler = "idle"
    /\ resetRequest' = TRUE
    /\ UNCHANGED <<notif, handler, current, wanted, dropped, wdtVars, written>>

\* Through the trigger register software raises notifications itself.
write_notif0_intr_trig_r(bits) ==
    /\ handler = "idle"
    /\ notif' = notif \cup bits
    /\ UNCHANGED <<resetRequest, handler, current, wanted, dropped, wdtVars, written>>

----------------------------------------------------------------------------
\* The watchdog.

configure_wdt(p) ==
    /\ handler = "idle" /\ wdtPc = 0
    /\ wdtPc' = 1 /\ asked' = p /\ age' = 0 /\ fresh' = (~enabled /\ ~expired)
    /\ period0' = p
    /\ UNCHANGED <<notifVars, period1, enabled, count, expired, written>>

\* Mutant: the timer is enabled before it is restarted.
ConfigureStep_enable_first ==
    /\ handler = "idle" /\ wdtPc > 0
    /\ period1' = IF wdtPc = 1 THEN 0 ELSE period1
    /\ count'   = IF wdtPc = 5 THEN 0 ELSE count
    /\ enabled' = (enabled \/ wdtPc = 4)
    /\ wdtPc' = (wdtPc + 1) % 6
    /\ UNCHANGED <<notifVars, period0, expired, asked, age, fresh, written>>

\* The second to sixth write: upper half of the period, the two halves of
\* timer 2 (which is never enabled), Timer1Restart, Timer1En.
ConfigureStep ==
    /\ handler = "idle" /\ wdtPc > 0
    /\ period1' = IF wdtPc = 1 THEN 0 ELSE period1
    /\ count'   = IF wdtPc = 4 THEN 0 ELSE count
    /\ enabled' = (enabled \/ wdtPc = 5)
    /\ wdtPc' = (wdtPc + 1) % 6
    /\ UNCHANGED <<notifVars, period0, expired, asked, age, fresh, written>>

disable_wdt ==
    /\ handler = "idle" /\ wdtPc = 0
    /\ enabled' = FALSE
    /\ UNCHANGED <<notifVars, period0, period1, count, expired, wdtPc, asked, age, fresh, written>>

write_wdt_timer1_en ==
    /\ handler = "idle" /\ wdtPc = 0
    /\ enabled' = TRUE /\ fresh' = FALSE
    /\ UNCHANGED <<notifVars, period0, period1, count, expired, wdtPc, asked, age, written>>

\* One write, nothing here reads it.
SetRegister(r) ==
    /\ handler = "idle" /\ wdtPc = 0
    /\ written' = written \cup {r}
    /\ UNCHANGED <<notifVars, wdtVars>>
set_nmi_vector     == SetRegister("MCU_NMI_VECTOR")
set_ss_config_done == SetRegister("SS_CONFIG_DONE")

----------------------------------------------------------------------------
\* Hardware (external).

Notify(n) ==
    /\ notif' = notif \cup {n}
    /\ wanted' = (wanted \/ n = "reset_req")
    /\ UNCHANGED <<resetRequest, handler, current, dropped, wdtVars, written>>

\* The period of the timer: the two halves are one 64-bit number.
Period == period0 + MaxTicks * period1

Tick ==
    /\ ~expired
    /\ enabled => count < MaxTicks
    /\ count' = IF enabled THEN count + 1 ELSE count
    /\ age' = IF age < MaxTicks THEN age + 1 ELSE age
    /\ expired' = (enabled /\ count' >= Period)
    /\ UNCHANGED <<notifVars, period0, period1, enabled, wdtPc, asked, fresh, written>>

\* The requested reset, or the one that follows from the watchdog.
McuReset ==
    /\ resetRequest \/ expired
    /\ notif' = {} /\ resetRequest' = FALSE /\ handler' = "idle" /\ current' = {}
    /\ wanted' = FALSE /\ dropped' = {}
    /\ enabled' = FALSE /\ count' = 0 /\ expired' = FALSE
    /\ wdtPc' = 0 /\ asked' = 0 /\ age' = 0 /\ fresh' = FALSE
    /\ written' = {}
    /\ UNCHANGED <<period0, period1>>

MciNext ==
    \/ HandlerReads \/ ModifyReads \/ ModifyWrites \/ RequestReset
    \/ trigger_warm_reset
    \/ \E bits \in SUBSET OtherNotifs : write_notif0_intr_trig_r(bits)
    \/ \E p \in Periods : configure_wdt(p)
    \/ ConfigureStep \/ disable_wdt \/ write_wdt_timer1_en
    \/ set_nmi_vector \/ set_ss_config_done
    \/ \E n \in Notifs : Notify(n)
    \/ Tick \/ McuReset

MciSpec == MciInit /\ [][MciNext]_mciVars

----------------------------------------------------------------------------
\* Properties.

\* A reset Caliptra asks for is never lost, at whatever step of the handler the
\* notification arrives; and the other notifications that the handler's
\* read-modify-write clears unseen go down with the reset it is about to
\* request, never without one.
ResetRequestNotLost ==
    /\ wanted => "reset_req" \in notif \/ handler = "request" \/ resetRequest
    /\ dropped # {} => handler = "request" \/ resetRequest

\* Configured while it is off, watchdog timer 1 expires when its period has
\* passed and not before, whatever an earlier run has left in its count and in
\* the upper half of its period.  (Configured while it runs it can expire at
\* once: the old count meets the new period before the restart is written.)
WatchdogOnTime ==
    fresh => /\ expired => age >= asked
             /\ enabled /\ wdtPc = 0 /\ ~expired => count < asked
=============================================================================
