---------------------------- MODULE CaliptraSetup ----------------------------
(***************************************************************************)
(* Class Soc: the registers through which the ROM prepares Caliptra.        *)
(* set_axi_users programs and locks the bus users, populate_fuses hands     *)
(* over what the OTP holds, fuse_write_done closes the fuses for good, and  *)
(* wait_for_firmware_ready waits for Caliptra's answer.  Each is a sequence *)
(* of single register accesses, addressed as base + offset in one table, so *)
(* an index nobody checks reaches another register.  Between two accesses   *)
(* another agent may write a user register that is still open, Caliptra may *)
(* make progress or fail, and the MCU or the whole subsystem may be reset.  *)
(*                                                                         *)
(* No boot flow calls these operations yet: the caller may call them in any *)
(* order, with any arguments.                                               *)
(***************************************************************************)
EXTENDS Integers, Sequences

CONSTANTS AxiConfigs,       \* values of the argument of set_axi_users
          SocStrangers,     \* AXI users other agents write
          Contested,        \* the user registers they write
          WdtIndices,       \* indices callers pass to set_cptra_wdt_cfg, unchecked
          WdtValues,        \* values they pass with it
          UserIndices,      \* indices callers pass to the setters of mailbox users
          Direct,           \* registers whose setters callers use directly
          OtpSvn,           \* the SVN word in the OTP
          MaxDisturbances   \* bound: such writes, and those of other agents, per power cycle

NumUsers == 5
UserSlots == 0..(NumUsers - 1)

\* std::nullopt: the slot has no user.  User 0 is a user like any other.
nullopt == -1

ASSUME SocAssumption ==
    /\ AxiConfigs \subseteq [mbox_users : [UserSlots -> Nat \cup {nullopt}],
                             fuse_user : Nat, trng_user : Nat, dma_user : Nat]
    /\ SocStrangers \subseteq Nat /\ Contested \subseteq Nat
    /\ WdtIndices \subseteq Nat /\ WdtValues \subseteq Nat
    /\ UserIndices \subseteq Nat /\ Direct \subseteq Nat
    /\ OtpSvn \in Nat \ {0}
    /\ MaxDisturbances \in Nat

\* The register offsets of class Soc.
FW_EXEC_CTRL     == 4
FW_FATAL         == 8
WDT_CFG(i)       == 12 + 4 * i
MBOX_VALID(i)    == 32 + 4 * i
MBOX_LOCK(i)     == 52 + 4 * i
FUSE_VALID       == 72
FUSE_LOCK        == 76
TRNG_VALID       == 80
TRNG_LOCK        == 84
DMA_USER         == 88
FUSE_WR_DONE     == 92
PQC_KEY_TYPE     == 320
FMC_SVN          == 324
UDS_BASE(i)      == 512 + 4 * i
STRAP_GENERIC(i) == 520 + 4 * i

FW_READY == 4

UserRegs  == {MBOX_VALID(i) : i \in UserSlots} \cup {FUSE_VALID, TRNG_VALID}
LockOf(r) == IF r <= MBOX_VALID(4) THEN r + 20 ELSE r + 4
LockRegs  == {LockOf(r) : r \in UserRegs}
FuseRegs  == {PQC_KEY_TYPE, FMC_SVN} \cup {UDS_BASE(i) : i \in 0..1}
                 \cup {STRAP_GENERIC(i) : i \in 0..1}
SocRegs   == UserRegs \cup LockRegs \cup FuseRegs \cup {WDT_CFG(i) : i \in 0..4}
                 \cup {FW_EXEC_CTRL, FW_FATAL, DMA_USER, FUSE_WR_DONE}

VARIABLES
    soc,          \* the registers
    call,         \* the operation in progress
    todo,         \* the register writes it has still to make, <<offset, value>>
    axi,          \* argument of the last set_axi_users
    sealed,       \* ghost: it has returned, in this boot or an earlier one
    taint,        \* ghost: user registers it found locked, or another agent
                  \* took before it had locked them
    disturbances  \* writes of other agents and direct calls of setters so far

socVars == <<soc, call, todo, axi, sealed, taint, disturbances>>

Calls == {"none", "set_axi_users", "populate_fuses", "read_svn", "write",
          "poll_ready", "poll_fatal", "halted"}

NoUsers == [mbox_users |-> [i \in UserSlots |-> nullopt],
            fuse_user |-> 0, trng_user |-> 0, dma_user |-> 0]

SocTypeOK ==
    /\ soc \in [SocRegs -> Nat]
    /\ call \in Calls
    /\ todo \in Seq(Nat \X Nat)
    /\ axi \in AxiConfigs \cup {NoUsers}
    /\ sealed \in BOOLEAN /\ taint \subseteq UserRegs
    /\ disturbances \in 0..MaxDisturbances
    /\ call \in {"none", "read_svn", "poll_ready", "poll_fatal", "halted"} => todo = <<>>

SocInit ==
    /\ soc = [r \in SocRegs |-> 0]
    /\ call = "none" /\ todo = <<>> /\ axi = NoUsers
    /\ sealed = FALSE /\ taint = {} /\ disturbances = 0

----------------------------------------------------------------------------
\* A write as the hardware takes it (external): a locked user register and a
\* lock that is set keep their values, FUSE_WR_DONE freezes the fuses, and what
\* lies outside the table is none of these registers.
SocFrozen(r) ==
    \/ r \in UserRegs /\ soc[LockOf(r)] # 0
    \/ r \in LockRegs /\ soc[r] # 0
    \/ r \in FuseRegs \cup {FUSE_WR_DONE} /\ soc[FUSE_WR_DONE] # 0

write_reg(r, v) ==
    soc' = IF r \notin SocRegs \/ SocFrozen(r) THEN soc ELSE [soc EXCEPT ![r] = v]

\* The setters stop in fatal_error when the index is beyond the table.
Begin(name, writes) == call = "none" /\ call' = name /\ todo' = writes

\* One more write outside set_axi_users.
Meddle == disturbances < MaxDisturbances /\ disturbances' = disturbances + 1

set_cptra_wdt_cfg(i, v) ==
    /\ Begin("write", <<<<WDT_CFG(i), v>>>>)
    /\ Meddle
    /\ UNCHANGED <<soc, axi, sealed, taint>>

set_cptra_mbox_valid_axi_user(i, v) ==
    /\ IF i >= NumUsers THEN Begin("halted", <<>>)
                        ELSE Begin("write", <<<<MBOX_VALID(i), v>>>>)
    /\ Meddle
    /\ UNCHANGED <<soc, axi, sealed, taint>>

set_cptra_mbox_axi_user_lock(i, v) ==
    /\ IF i >= NumUsers THEN Begin("halted", <<>>)
                        ELSE Begin("write", <<<<MBOX_LOCK(i), v>>>>)
    /\ Meddle
    /\ UNCHANGED <<soc, axi, sealed, taint>>

\* The setters of the fuse, TRNG and DMA users and of their locks.
SingleRegs == {FUSE_VALID, FUSE_LOCK, TRNG_VALID, TRNG_LOCK, DMA_USER}

SetSingle(r, v) ==
    /\ Begin("write", <<<<r, v>>>>)
    /\ Meddle
    /\ UNCHANGED <<soc, axi, sealed, taint>>

\* The writes of set_axi_users(u), in order.
MboxUserWrites(u, i) ==
    IF u.mbox_users[i] = nullopt THEN <<>>
    ELSE <<<<MBOX_VALID(i), u.mbox_users[i]>>, <<MBOX_LOCK(i), 1>>>>

\* Mutant: a register is locked before it is written.
AxiUserWrites_lock_first(u) ==
    MboxUserWrites(u, 0) \o MboxUserWrites(u, 1) \o MboxUserWrites(u, 2)
        \o MboxUserWrites(u, 3) \o MboxUserWrites(u, 4)
        \o << <<FUSE_LOCK, 1>>, <<FUSE_VALID, u.fuse_user>>,
              <<TRNG_VALID, u.trng_user>>, <<TRNG_LOCK, 1>>,
              <<DMA_USER, u.dma_user>> >>

AxiUserWrites(u) ==
    MboxUserWrites(u, 0) \o MboxUserWrites(u, 1) \o MboxUserWrites(u, 2)
        \o MboxUserWrites(u, 3) \o MboxUserWrites(u, 4)
        \o << <<FUSE_VALID, u.fuse_user>>, <<FUSE_LOCK, 1>>,
              <<TRNG_VALID, u.trng_user>>, <<TRNG_LOCK, 1>>,
              <<DMA_USER, u.dma_user>> >>

set_axi_users(u) ==
    /\ Begin("set_axi_users", AxiUserWrites(u))
    /\ axi' = u /\ sealed' = FALSE
    /\ taint' = {r \in UserRegs : soc[LockOf(r)] # 0}
    /\ UNCHANGED <<soc, disturbances>>

MLDSA_CALIPTRA_VALUE             == 1
OTP_DAI_IDLE_BIT_OFFSET          == 22
OTP_DIRECT_ACCESS_CMD_REG_OFFSET == 96

\* UDS base 0, the idle bit of the DAI shifted by 16, its command register and
\* the key type.
FuseWrites == << <<UDS_BASE(0), 0>>, <<UDS_BASE(1), 0>>,
                 <<STRAP_GENERIC(0), OTP_DAI_IDLE_BIT_OFFSET * 65536>>,
                 <<STRAP_GENERIC(1), OTP_DIRECT_ACCESS_CMD_REG_OFFSET>>,
                 <<PQC_KEY_TYPE, MLDSA_CALIPTRA_VALUE>> >>

populate_fuses ==
    /\ Begin("populate_fuses", FuseWrites)
    /\ UNCHANGED <<soc, axi, sealed, taint, disturbances>>

fuse_write_done ==
    /\ Begin("write", <<<<FUSE_WR_DONE, 1>>>>)
    /\ UNCHANGED <<soc, axi, sealed, taint, disturbances>>

\* A user that set_axi_users gets into its register is its own again.
Write ==
    /\ todo # <<>>
    /\ write_reg(todo[1][1], todo[1][2])
    /\ todo' = Tail(todo)
    /\ taint' = IF call = "set_axi_users" /\ ~SocFrozen(todo[1][1])
                THEN taint \ {todo[1][1]} ELSE taint
    /\ UNCHANGED <<call, axi, sealed, disturbances>>

\* The last write has been made: the operation returns, except that
\* populate_fuses goes on to read the SVN.
Written ==
    /\ todo = <<>> /\ call \in {"set_axi_users", "populate_fuses", "write"}
    /\ call' = IF call = "populate_fuses" THEN "read_svn" ELSE "none"
    /\ sealed' = (sealed \/ call = "set_axi_users")
    /\ UNCHANGED <<soc, todo, axi, taint, disturbances>>

\* otp.read_word(0) fails or returns the word; a failure is passed over.
ReadSvn ==
    /\ call = "read_svn"
    /\ \/ call' = "write" /\ todo' = <<<<FMC_SVN, OtpSvn>>>>
       \/ call' = "none" /\ UNCHANGED todo
    /\ UNCHANGED <<soc, axi, sealed, taint, disturbances>>

----------------------------------------------------------------------------
\* wait_for_firmware_ready

wait_for_firmware_ready ==
    /\ Begin("poll_ready", <<>>)
    /\ UNCHANGED <<soc, axi, sealed, taint, disturbances>>

fw_ready == (soc[FW_EXEC_CTRL] \div FW_READY) % 2 = 1

cptra_fw_fatal_error == soc[FW_FATAL] # 0

PollReady ==
    /\ call = "poll_ready"
    /\ call' = IF fw_ready THEN "none" ELSE "poll_fatal"
    /\ UNCHANGED <<soc, todo, axi, sealed, taint, disturbances>>

\* Mutant: a fatal error of Caliptra is not looked for.
PollFatal_ignored ==
    /\ call = "poll_fatal"
    /\ call' = "poll_ready"
    /\ UNCHANGED <<soc, todo, axi, sealed, taint, disturbances>>

PollFatal ==
    /\ call = "poll_fatal"
    /\ call' = IF cptra_fw_fatal_error THEN "halted" ELSE "poll_ready"
    /\ UNCHANGED <<soc, todo, axi, sealed, taint, disturbances>>

----------------------------------------------------------------------------
\* The world outside the ROM (external).

\* Another agent takes an open user register or its lock.
Disturb(r, v) ==
    /\ ~SocFrozen(r)
    /\ write_reg(r, v)
    /\ taint' = taint \cup {q \in UserRegs : r \in {q, LockOf(q)}}
    /\ Meddle
    /\ UNCHANGED <<call, todo, axi, sealed>>

\* Once it has its fuses, Caliptra makes firmware ready or fails.
CaliptraStep ==
    /\ soc[FUSE_WR_DONE] # 0
    /\ \/ soc' = [soc EXCEPT ![FW_EXEC_CTRL] = FW_READY]
       \/ soc' = [soc EXCEPT ![FW_FATAL] = 1]
    /\ UNCHANGED <<call, todo, axi, sealed, taint, disturbances>>

\* A reset of the MCU forgets the call; a cold reset clears the registers too.
SocReset(cold) ==
    /\ call' = "none" /\ todo' = <<>>
    /\ IF cold
       THEN /\ soc' = [r \in SocRegs |-> 0] /\ axi' = NoUsers /\ sealed' = FALSE
            /\ taint' = {} /\ disturbances' = 0
       ELSE UNCHANGED <<soc, axi, sealed, taint, disturbances>>

SocCall ==
    \/ \E i \in WdtIndices, v \in WdtValues : set_cptra_wdt_cfg(i, v)
    \/ \E i \in UserIndices, v \in SocStrangers :
          set_cptra_mbox_valid_axi_user(i, v) \/ set_cptra_mbox_axi_user_lock(i, v)
    \/ \E r \in SingleRegs \cap Direct, v \in SocStrangers : SetSingle(r, v)
    \/ \E u \in AxiConfigs : set_axi_users(u)
    \/ populate_fuses
    \/ fuse_write_done
    \/ wait_for_firmware_ready

SocStep == Write \/ Written \/ ReadSvn \/ PollReady \/ PollFatal

SocNext ==
    \/ SocCall
    \/ SocStep
    \/ \E r \in UserRegs \cap Contested :
          Disturb(LockOf(r), 1) \/ \E v \in SocStrangers : Disturb(r, v)
    \/ CaliptraStep
    \/ \E cold \in BOOLEAN : SocReset(cold)

\* The MCU goes on executing; nothing is assumed of Caliptra or other agents.
SocSpec == SocInit /\ [][SocNext]_socVars /\ WF_socVars(SocStep)

----------------------------------------------------------------------------
\* Properties.

SealedAs(r, v) == soc[LockOf(r)] # 0 /\ (r \in taint \/ soc[r] = v)

\* Whatever comes after a set_axi_users that has returned - watchdog settings
\* with any index, direct calls of the setters, other agents, a warm reset -
\* every mailbox slot it was given a user for, the fuse user and the TRNG user
\* are locked, and hold that user unless the register was locked before the call
\* or another agent took it before the call had locked it.  The DMA user, which
\* has no lock, is not covered.
UsersSealed ==
    sealed =>
        /\ \A i \in UserSlots : axi.mbox_users[i] # nullopt =>
              SealedAs(MBOX_VALID(i), axi.mbox_users[i])
        /\ SealedAs(FUSE_VALID, axi.fuse_user)
        /\ SealedAs(TRNG_VALID, axi.trng_user)

\* The wait has no bound of its own: it ends, by returning or in fatal_error,
\* as soon as Caliptra has said either word.
FirmwareWaitEnds ==
    (call \in {"poll_ready", "poll_fatal"} /\ (fw_ready \/ cptra_fw_fatal_error))
        ~> (call \notin {"poll_ready", "poll_fatal"})
=============================================================================
