------------------------------ MODULE AxiUsers ------------------------------
(***************************************************************************)
(* The AXI users of the two MCU mailboxes: configure_mcu_mbox_axi_users     *)
(* writes and locks one register per configured user and returns what it    *)
(* configured; verify_mcu_mbox_axi_users compares that record with the      *)
(* registers, one access at a time.  Other agents on the bus may write any  *)
(* register that is neither locked nor frozen by SS_CONFIG_DONE_STICKY, at  *)
(* any moment, and the MCU may be reset between any two accesses.           *)
(*                                                                         *)
(* Both functions treat mailbox 0 and then mailbox 1 with the same loop     *)
(* body, so the slots of the two are numbered through.  No boot flow calls  *)
(* them yet: the caller may call them, and set the sticky bit, in any order.*)
(***************************************************************************)
EXTENDS Integers

CONSTANTS MCU_MBOX_USERS,       \* slots the ROM uses per mailbox (5)
          MBOX_AXI_USER_COUNT,  \* slots Mci knows per mailbox (8)
          Users,                \* AXI users the straps name
          Strangers             \* AXI users other agents write

ASSUME AxiAssumption ==
    /\ MCU_MBOX_USERS \in Nat
    /\ MBOX_AXI_USER_COUNT \in Nat
    /\ MCU_MBOX_USERS <= MBOX_AXI_USER_COUNT
    /\ Users \subseteq Nat \ {0}
    /\ Strangers \subseteq Nat

VARIABLES
    user,       \* MBOXn_VALID_AXI_USER registers
    lock,       \* MBOXn_AXI_USER_LOCK registers
    sticky,     \* SS_CONFIG_DONE_STICKY
    op,         \* the function in progress: "idle", "configure" or "verify"
    k,          \* slot its loops have come to
    half,       \* part of the loop body: "user" or "lock"
    straps,     \* arguments of configure_mcu_mbox_axi_users
    config,     \* the McuMboxAxiUserConfig
    have,       \* configure has returned config
    ret,        \* result of the last verification
    disturbed,  \* ghost: the slots were not free, or another agent wrote one,
                \* since config was begun
    frozen      \* ghost: the sticky bit was set when the verification began

regs      == <<user, lock, sticky>>
loop      == <<op, k, half>>
axiGhosts == <<disturbed, frozen>>
axiVars   == <<regs, loop, straps, config, have, ret, axiGhosts>>

NumSlots == 2 * MCU_MBOX_USERS
Slots    == 0..(NumSlots - 1)

\* 0 in the straps means no user; so it can stand for nullopt in a config.
Straps  == [Slots -> Users \cup {0}]
Configs == [users : Straps, locks : [Slots -> BOOLEAN]]
NoConfig == [users |-> [s \in Slots |-> 0], locks |-> [s \in Slots |-> FALSE]]

AxiTypeOK ==
    /\ user \in [Slots -> Users \cup Strangers \cup {0}]
    /\ lock \in [Slots -> BOOLEAN]
    /\ sticky \in BOOLEAN
    /\ op \in {"idle", "configure", "verify"}
    /\ k \in 0..NumSlots
    /\ half \in {"user", "lock"}
    /\ straps \in Straps
    /\ config \in Configs
    /\ have \in BOOLEAN
    /\ ret \in {"none", "OK", "MBOX_INVALID_RESPONSE"}
    /\ disturbed \in BOOLEAN
    /\ frozen \in BOOLEAN

AxiInit ==
    /\ user = [s \in Slots |-> 0] /\ lock = [s \in Slots |-> FALSE] /\ sticky = FALSE
    /\ op = "idle" /\ k = 0 /\ half = "user"
    /\ straps = [s \in Slots |-> 0] /\ config = NoConfig /\ have = FALSE
    /\ ret = "none" /\ disturbed = FALSE /\ frozen = FALSE

----------------------------------------------------------------------------
\* Access to the registers.  Mci drops writes beyond its table and reads
\* nullopt there, which the callers replace by 0 and false.

\* Mutant: the last slot of a mailbox is refused.
InTable_one_short(s) ==
    (IF s < MCU_MBOX_USERS THEN s ELSE s - MCU_MBOX_USERS) + 1 < MBOX_AXI_USER_COUNT

InTable(s) ==
    (IF s < MCU_MBOX_USERS THEN s ELSE s - MCU_MBOX_USERS) < MBOX_AXI_USER_COUNT

Writable(s) == ~lock[s] /\ ~sticky

write_valid_axi_user(s, v) ==
    IF InTable(s) /\ Writable(s) THEN [user EXCEPT ![s] = v] ELSE user

lock_axi_user(s) ==
    IF InTable(s) /\ Writable(s) THEN [lock EXCEPT ![s] = TRUE] ELSE lock

read_valid_axi_user(s) == IF InTable(s) THEN user[s] ELSE 0

read_axi_user_lock(s) == InTable(s) /\ lock[s]

----------------------------------------------------------------------------
\* configure_mcu_mbox_axi_users

Configure(s) ==
    /\ op = "idle"
    /\ op' = "configure" /\ k' = 0 /\ half' = "user"
    /\ straps' = s /\ config' = NoConfig /\ have' = FALSE /\ ret' = "none"
    /\ disturbed' = (sticky \/ \E t \in Slots : lock[t])
    /\ UNCHANGED <<regs, frozen>>

ConfigureUser ==
    /\ op = "configure" /\ half = "user" /\ k < NumSlots
    /\ IF straps[k] = 0
       THEN k' = k + 1 /\ UNCHANGED <<user, half, config>>
       ELSE /\ config' = [users |-> [config.users EXCEPT ![k] = straps[k]],
                           locks |-> [config.locks EXCEPT ![k] = TRUE]]
            /\ user' = write_valid_axi_user(k, straps[k])
            /\ half' = "lock" /\ UNCHANGED k
    /\ UNCHANGED <<lock, sticky, op, straps, have, ret, axiGhosts>>

\* Mutant: the loop counter is incremented twice.
ConfigureLock_advances_twice ==
    /\ op = "configure" /\ half = "lock"
    /\ lock' = lock_axi_user(k)
    /\ half' = "user" /\ k' = k + 2
    /\ UNCHANGED <<user, sticky, op, straps, config, have, ret, axiGhosts>>

ConfigureLock ==
    /\ op = "configure" /\ half = "lock"
    /\ lock' = lock_axi_user(k)
    /\ half' = "user" /\ k' = k + 1
    /\ UNCHANGED <<user, sticky, op, straps, config, have, ret, axiGhosts>>

ConfigureDone ==
    /\ op = "configure" /\ half = "user" /\ k = NumSlots
    /\ op' = "idle" /\ have' = TRUE
    /\ UNCHANGED <<regs, k, half, straps, config, ret, axiGhosts>>

----------------------------------------------------------------------------
\* verify_mcu_mbox_axi_users

Verify ==
    /\ op = "idle" /\ have
    /\ op' = "verify" /\ k' = 0 /\ half' = "user"
    /\ ret' = "none" /\ frozen' = sticky
    /\ UNCHANGED <<regs, straps, config, have, disturbed>>

VerifyReturns(r) == op' = "idle" /\ ret' = r /\ UNCHANGED <<k, half>>

\* Mutant: only the locks are compared.
VerifyUser_unchecked ==
    /\ op = "verify" /\ half = "user" /\ k < NumSlots
    /\ half' = "lock"
    /\ UNCHANGED <<regs, op, k, straps, config, have, ret, axiGhosts>>

VerifyUser ==
    /\ op = "verify" /\ half = "user" /\ k < NumSlots
    /\ IF config.users[k] # 0 /\ config.users[k] # read_valid_axi_user(k)
       THEN VerifyReturns("MBOX_INVALID_RESPONSE")
       ELSE half' = "lock" /\ UNCHANGED <<op, k, ret>>
    /\ UNCHANGED <<regs, straps, config, have, axiGhosts>>

\* Mutant: a slot that should be free may be locked.
VerifyLock_configured_only ==
    /\ op = "verify" /\ half = "lock"
    /\ IF config.locks[k] /\ ~read_axi_user_lock(k)
       THEN VerifyReturns("MBOX_INVALID_RESPONSE")
       ELSE k' = k + 1 /\ half' = "user" /\ UNCHANGED <<op, ret>>
    /\ UNCHANGED <<regs, straps, config, have, axiGhosts>>

VerifyLock ==
    /\ op = "verify" /\ half = "lock"
    /\ IF config.locks[k] # read_axi_user_lock(k)
       THEN VerifyReturns("MBOX_INVALID_RESPONSE")
       ELSE k' = k + 1 /\ half' = "user" /\ UNCHANGED <<op, ret>>
    /\ UNCHANGED <<regs, straps, config, have, axiGhosts>>

VerifyDone ==
    /\ op = "verify" /\ half = "user" /\ k = NumSlots
    /\ VerifyReturns("OK")
    /\ UNCHANGED <<regs, straps, config, have, axiGhosts>>

----------------------------------------------------------------------------

set_ss_config_done_sticky ==
    /\ op = "idle"
    /\ sticky' = TRUE
    /\ UNCHANGED <<user, lock, loop, straps, config, have, ret, axiGhosts>>

\* Another agent writes a register that is still open (external).
OtherAgent(s) ==
    /\ Writable(s)
    /\ \/ \E v \in Strangers : user' = [user EXCEPT ![s] = v] /\ UNCHANGED lock
       \/ lock' = [lock EXCEPT ![s] = TRUE] /\ UNCHANGED user
    /\ disturbed' = TRUE
    /\ UNCHANGED <<sticky, loop, straps, config, have, ret, frozen>>

\* A reset of the MCU forgets config and keeps the registers of MCI; a power
\* cycle clears them (external).
AxiReset(cold) ==
    /\ IF cold
       THEN /\ user' = [s \in Slots |-> 0] /\ lock' = [s \in Slots |-> FALSE]
            /\ sticky' = FALSE
       ELSE UNCHANGED regs
    /\ op' = "idle" /\ k' = 0 /\ half' = "user"
    /\ config' = NoConfig /\ have' = FALSE /\ ret' = "none"
    /\ UNCHANGED <<straps, axiGhosts>>

AxiNext ==
    \/ \E s \in Straps : Configure(s)
    \/ ConfigureUser \/ ConfigureLock \/ ConfigureDone
    \/ Verify \/ VerifyUser \/ VerifyLock \/ VerifyDone
    \/ set_ss_config_done_sticky
    \/ \E s \in Slots : OtherAgent(s)
    \/ \E cold \in BOOLEAN : AxiReset(cold)

AxiSpec == AxiInit /\ [][AxiNext]_axiVars

----------------------------------------------------------------------------
\* Properties.

Configured(s) == config.users[s] # 0

\* A verification that returns Ok speaks for the future too: every configured
\* user is in its register and locked there, at whatever moment another agent
\* wrote, between write and lock or between the two reads of the verification
\* (which looks at the user before it looks at the lock).
VerifiedUsersInForce ==
    ret = "OK" => \A s \in Slots : Configured(s) =>
                      user[s] = config.users[s] /\ lock[s]

\* Verified after SS_CONFIG_DONE_STICKY was set, as McuMboxAxiUserConfig is
\* meant to be used, the locks are exactly the configured ones: nobody has
\* claimed a slot the ROM left free.
VerifiedLocksExact ==
    ret = "OK" /\ frozen => \A s \in Slots : lock[s] = config.locks[s]

\* No false alarm: a verification fails only if a slot was taken before the
\* configuration began or another agent interfered.
FailureHasCause ==
    ret = "MBOX_INVALID_RESPONSE" => disturbed
=============================================================================
