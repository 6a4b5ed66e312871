--------------------------- MODULE AxiUsersProofs ---------------------------
(***************************************************************************)
(* Proofs about AxiUsers, for any number of slots, users and other agents.  *)
(*                                                                         *)
(* That a verified configuration stays in force is not inductive: whether a *)
(* register may change after it was compared depends on what the            *)
(* configuration did to its lock before, and on the sticky bit.  IndInv     *)
(* carries these facts slot by slot through the two loops.                  *)
(***************************************************************************)
EXTENDS AxiUsers, TLAPS

\* Slots that the configuration, or the verification, has dealt with.
Done(s)   == have \/ (op = "configure" /\ s < k)
Passed(s) == ret = "OK" \/ (op = "verify" /\ s < k)

\* Where the functions are, and what config holds then.
Control ==
    /\ ret # "none" => have /\ op = "idle"
    /\ op = "verify" => have
    /\ have => op # "configure"
    /\ op # "idle" /\ half = "lock" => k < NumSlots
    /\ op = "configure" /\ half = "lock" => Configured(k)
    /\ op = "configure" => \A s \in Slots :
           s > k \/ (s = k /\ half = "user") => ~Configured(s)
    /\ \A s \in Slots : config.locks[s] = Configured(s)

\* A configured slot is closed to others once the configuration is past it.
Secured == \A s \in Slots : Done(s) /\ Configured(s) => lock[s] \/ sticky

\* What the verification has compared is still so.
Checked ==
    /\ \A s \in Slots : Passed(s) /\ Configured(s) => user[s] = config.users[s] /\ lock[s]
    /\ op = "verify" /\ half = "lock" /\ Configured(k) => user[k] = config.users[k]

\* Under the sticky bit that includes the locks of free slots.
Exact ==
    frozen /\ (op = "verify" \/ ret = "OK") =>
        sticky /\ \A s \in Slots : Passed(s) => lock[s] = config.locks[s]

\* Without interference the registers are as config says.
Clean ==
    ~disturbed =>
        /\ ret # "MBOX_INVALID_RESPONSE"
        /\ \A s \in Slots : Done(s) =>
               lock[s] = config.locks[s] /\ (Configured(s) => user[s] = config.users[s])
        /\ op = "configure" => ~sticky /\ \A s \in Slots : s >= k => ~lock[s]
        /\ op = "configure" /\ half = "lock" => user[k] = config.users[k]

IndInv == AxiTypeOK /\ Control /\ Secured /\ Checked /\ Exact /\ Clean

----------------------------------------------------------------------------

\* Every slot the ROM uses is in the tables of Mci (MCU_MBOX_USERS is at most
\* MBOX_AXI_USER_COUNT), so no write of configure_mcu_mbox_axi_users is lost to
\* the bounds checks.
LEMMA SlotsInTable == \A s \in Slots : InTable(s)
  BY AxiAssumption DEF Slots, NumSlots, InTable

\* Slots are numbers; a loop that is not at its end is at a slot.
LEMMA SlotNumbers ==
    /\ NumSlots \in Nat
    /\ \A s \in Slots : s \in Nat /\ s < NumSlots
    /\ \A j \in 0..NumSlots : j < NumSlots => j \in Slots
  BY AxiAssumption DEF Slots, NumSlots

\* The config of a ROM that has configured nothing is well formed.
LEMMA NoConfigType == NoConfig \in Configs /\ \A s \in Slots : NoConfig.users[s] = 0
  BY DEF NoConfig, Configs, Straps

\* The beginning of a configuration preserves the invariant: it forgets the last config.
LEMMA ConfigureStep == ASSUME NEW s \in Straps, IndInv, Configure(s) PROVE IndInv'
<1>1. AxiTypeOK'
  <2>1. disturbed' \in BOOLEAN /\ k' \in 0..NumSlots
    BY SlotNumbers DEF Configure
  <2>2. QED BY <2>1, NoConfigType DEF IndInv, AxiTypeOK, Configure, regs
<1>2. Control'
  BY DEF Control, Configured, Configure, NoConfig
<1>3. Secured'
  BY DEF Secured, Configured, Configure, NoConfig
<1>4. Checked'
  BY DEF Checked, Configured, Configure, NoConfig
<1>5. Exact'
  BY DEF Exact, Configure
<1>6. Clean'
  BY DEF IndInv, AxiTypeOK, Clean, Configured, Configure, NoConfig, regs
<1>7. QED BY <1>1, <1>2, <1>3, <1>4, <1>5, <1>6 DEF IndInv

\* Writing a user of the configuration preserves the invariant.
LEMMA ConfigureUserStep == ASSUME IndInv, ConfigureUser PROVE IndInv'
<1>1. /\ k \in Slots /\ k \in Nat /\ op = "configure" /\ half = "user" /\ ~have
      /\ UNCHANGED <<lock, sticky, op, straps, have, ret, disturbed, frozen>>
  BY SlotNumbers DEF IndInv, AxiTypeOK, Control, ConfigureUser, axiGhosts
<1>2. ret = "none"
  BY <1>1 DEF IndInv, Control
<1>3. CASE straps[k] = 0
  <2>1. k' = k + 1 /\ UNCHANGED <<user, half, config>>
    BY <1>3 DEF ConfigureUser
  <2>2. k + 1 \in 0..NumSlots
    BY <1>1, SlotNumbers
  <2>3. AxiTypeOK'
    BY <1>1, <2>1, <2>2 DEF IndInv, AxiTypeOK
  <2>4. Control'
    BY <1>1, <1>2, <2>1, SlotNumbers DEF IndInv, Control, Configured
  <2>5. Secured' /\ Checked' /\ Exact'
    BY <1>1, <1>2, <2>1, SlotNumbers
    DEF IndInv, Control, Secured, Checked, Exact, Done, Passed, Configured
  <2>6. Clean'
    BY <1>1, <1>2, <2>1, SlotNumbers DEF IndInv, AxiTypeOK, Control, Clean, Done, Configured
  <2>7. QED BY <2>3, <2>4, <2>5, <2>6 DEF IndInv
<1>4. CASE straps[k] # 0
  <2>1. k' = k /\ half' = "lock" /\ user' = write_valid_axi_user(k, straps[k])
    BY <1>4 DEF ConfigureUser
  <2>2. /\ config'.users = [config.users EXCEPT ![k] = straps[k]]
        /\ config'.locks = [config.locks EXCEPT ![k] = TRUE]
        /\ config' = [users |-> config'.users, locks |-> config'.locks]
    BY <1>4 DEF ConfigureUser
  <2>3. /\ config.users \in [Slots -> Users \cup {0}] /\ config.locks \in [Slots -> BOOLEAN]
        /\ straps[k] \in Users \cup {0}
    BY <1>1 DEF IndInv, AxiTypeOK, Configs, Straps
  <2>4. /\ config'.users \in [Slots -> Users \cup {0}] /\ config'.locks \in [Slots -> BOOLEAN]
    BY <1>1, <2>2, <2>3
  <2>5. config' \in Configs
    BY <2>2, <2>4 DEF Configs, Straps
  <2>6. /\ straps[k] # 0 /\ config'.locks[k] = TRUE /\ config'.users[k] = straps[k]
        /\ \A s \in Slots \ {k} : /\ config'.users[s] = config.users[s]
                                /\ config'.locks[s] = config.locks[s]
    BY <1>1, <1>4, <2>2, <2>3
  <2>7. AxiTypeOK'
    BY <1>1, <2>1, <2>5 DEF IndInv, AxiTypeOK, Straps, write_valid_axi_user
  <2>8. \A s \in Slots : config'.locks[s] = (config'.users[s] # 0)
    BY <2>6 DEF IndInv, Control, Configured
  <2>9. Control'
    <3>1. \A s \in Slots : s > k => config'.users[s] = 0
      BY <1>1, <2>6, SlotNumbers DEF IndInv, Control, Configured
    <3>2. k' < NumSlots /\ config'.users[k'] # 0
      BY <1>1, <2>1, <2>6, SlotNumbers
    <3>3. QED BY <1>1, <1>2, <2>1, <2>8, <3>1, <3>2 DEF Control, Configured
  <2>10. Secured' /\ Checked' /\ Exact'
    BY <1>1, <1>2, <2>1, <2>6, SlotNumbers
    DEF IndInv, Secured, Checked, Exact, Done, Passed, Configured
  <2>11. ~disturbed => user'[k] = straps[k] /\ \A s \in Slots \ {k} : user'[s] = user[s]
    BY <1>1, <2>1, SlotsInTable
    DEF IndInv, AxiTypeOK, Clean, write_valid_axi_user, Writable
  <2>12. Clean'
    BY <1>1, <1>2, <2>1, <2>6, <2>11, SlotNumbers DEF IndInv, Clean, Done, Configured
  <2>13. QED BY <2>7, <2>9, <2>10, <2>12 DEF IndInv
<1>5. QED BY <1>3, <1>4

\* Locking a user preserves the invariant: from here on Secured covers the slot.
LEMMA ConfigureLockStep == ASSUME IndInv, ConfigureLock PROVE IndInv'
<1>1. AxiTypeOK'
  BY SlotNumbers DEF IndInv, AxiTypeOK, Control, ConfigureLock, lock_axi_user, axiGhosts
<1>2. Control'
  BY SlotNumbers DEF IndInv, AxiTypeOK, Control, Configured, ConfigureLock
<1>3. Secured'
  BY SlotsInTable, SlotNumbers
  DEF IndInv, AxiTypeOK, Secured, Done, Configured, ConfigureLock, lock_axi_user, Writable
<1>4. Checked'
  BY DEF IndInv, Checked, Passed, Configured, ConfigureLock, lock_axi_user
<1>5. Exact'
  BY DEF IndInv, Exact, Passed, ConfigureLock, lock_axi_user, Writable, axiGhosts
<1>6. Clean'
  <2>1. /\ k \in Slots /\ k \in Nat /\ k' = k + 1
        /\ op = "configure" /\ half = "lock" /\ half' = "user" /\ ~have
    BY SlotNumbers DEF IndInv, AxiTypeOK, Control, ConfigureLock
  <2>2. UNCHANGED <<user, sticky, op, straps, config, have, ret, disturbed, frozen>>
    BY DEF ConfigureLock, axiGhosts
  <2>3. ~disturbed => lock'[k] = TRUE /\ \A s \in Slots \ {k} : lock'[s] = lock[s]
    BY <2>1, SlotsInTable DEF IndInv, AxiTypeOK, Clean, ConfigureLock, lock_axi_user, Writable
  <2>4. Configured(k) /\ config.locks[k] = TRUE
    BY <2>1 DEF IndInv, Control, ConfigureLock
  <2>5. \A s \in Slots : /\ Done(s)' => Done(s) \/ s = k
                         /\ s >= k + 1 => s \in Slots \ {k} /\ s >= k
    BY <2>1, <2>2, SlotNumbers DEF Done
  <2>6. QED
    BY <2>1, <2>2, <2>3, <2>4, <2>5 DEF IndInv, Clean, Configured
<1>7. QED BY <1>1, <1>2, <1>3, <1>4, <1>5, <1>6 DEF IndInv

\* The return of the configuration preserves the invariant.
LEMMA ConfigureDoneStep == ASSUME IndInv, ConfigureDone PROVE IndInv'
<1>1. AxiTypeOK'
  BY SlotsInTable, SlotNumbers DEF IndInv, AxiTypeOK, ConfigureDone, regs, loop, axiGhosts
<1>2. Control'
  BY DEF IndInv, Control, Configured, ConfigureDone
<1>3. Secured'
  BY SlotNumbers DEF IndInv, Secured, Done, Configured, ConfigureDone, regs
<1>4. Checked'
  BY DEF IndInv, Checked, Passed, Configured, ConfigureDone, regs
<1>5. Exact'
  BY DEF IndInv, Exact, Passed, ConfigureDone, regs, axiGhosts
<1>6. Clean'
  BY SlotNumbers DEF IndInv, Clean, Done, Configured, ConfigureDone, regs, axiGhosts
<1>7. QED BY <1>1, <1>2, <1>3, <1>4, <1>5, <1>6 DEF IndInv

\* The beginning of a verification preserves the invariant.
LEMMA VerifyStep == ASSUME IndInv, Verify PROVE IndInv'
<1>1. AxiTypeOK'
  BY SlotsInTable, SlotNumbers DEF IndInv, AxiTypeOK, Verify, regs, loop, axiGhosts
<1>2. Control'
  BY DEF IndInv, Control, Configured, Verify
<1>3. Secured'
  BY DEF IndInv, Secured, Done, Configured, Verify, regs
<1>4. Checked'
  BY SlotNumbers DEF Checked, Passed, Verify
<1>5. Exact'
  BY SlotNumbers DEF Exact, Passed, Verify, regs
<1>6. Clean'
  BY DEF IndInv, Clean, Done, Configured, Verify, regs
<1>7. QED BY <1>1, <1>2, <1>3, <1>4, <1>5, <1>6 DEF IndInv

\* Comparing a user preserves the invariant.
LEMMA VerifyUserStep == ASSUME IndInv, VerifyUser PROVE IndInv'
<1>1. AxiTypeOK'
  BY DEF IndInv, AxiTypeOK, VerifyUser, VerifyReturns, regs, axiGhosts
<1>2. Control'
  BY DEF IndInv, Control, Configured, VerifyUser, VerifyReturns
<1>3. Secured'
  BY DEF IndInv, Secured, Done, Configured, VerifyUser, VerifyReturns, regs
<1>4. Checked'
  BY DEF IndInv, Checked, Passed, Configured, VerifyUser, VerifyReturns, read_valid_axi_user, regs
<1>5. Exact'
  BY DEF IndInv, Exact, Passed, VerifyUser, VerifyReturns, regs, axiGhosts
<1>6. Clean'
  BY SlotsInTable, SlotNumbers
  DEF IndInv, AxiTypeOK, Control, Clean, Done, Configured, VerifyUser, read_valid_axi_user, regs, axiGhosts
<1>7. QED BY <1>1, <1>2, <1>3, <1>4, <1>5, <1>6 DEF IndInv

\* Comparing a lock preserves the invariant: the slot has passed.
LEMMA VerifyLockStep == ASSUME IndInv, VerifyLock PROVE IndInv'
<1>1. AxiTypeOK'
  BY SlotNumbers DEF IndInv, AxiTypeOK, Control, VerifyLock, VerifyReturns, regs, axiGhosts
<1>2. Control'
  BY DEF IndInv, Control, Configured, VerifyLock, VerifyReturns
<1>3. Secured'
  BY DEF IndInv, Secured, Done, Configured, VerifyLock, VerifyReturns, regs
<1>4. Checked'
  BY SlotNumbers
  DEF IndInv, AxiTypeOK, Control, Checked, Passed, Configured, VerifyLock, VerifyReturns,
      read_axi_user_lock, regs
<1>5. Exact'
  BY SlotsInTable, SlotNumbers
  DEF IndInv, AxiTypeOK, Exact, Passed, VerifyLock, VerifyReturns, read_axi_user_lock, regs, axiGhosts
<1>6. Clean'
  BY SlotsInTable, SlotNumbers
  DEF IndInv, AxiTypeOK, Control, Clean, Done, Configured, VerifyLock, read_axi_user_lock, regs, axiGhosts
<1>7. QED BY <1>1, <1>2, <1>3, <1>4, <1>5, <1>6 DEF IndInv

\* The return of the verification preserves the invariant.
LEMMA VerifyDoneStep == ASSUME IndInv, VerifyDone PROVE IndInv'
<1>1. AxiTypeOK'
  BY DEF IndInv, AxiTypeOK, VerifyDone, VerifyReturns, regs, axiGhosts
<1>2. Control'
  BY DEF IndInv, Control, Configured, VerifyDone, VerifyReturns
<1>3. Secured'
  BY DEF IndInv, Secured, Done, Configured, VerifyDone, VerifyReturns, regs
<1>4. Checked'
  BY SlotNumbers DEF IndInv, Checked, Passed, Configured, VerifyDone, VerifyReturns, regs
<1>5. Exact'
  BY SlotNumbers DEF IndInv, Exact, Passed, VerifyDone, regs, axiGhosts
<1>6. Clean'
  BY DEF IndInv, Clean, Done, Configured, VerifyDone, VerifyReturns, regs, axiGhosts
<1>7. QED BY <1>1, <1>2, <1>3, <1>4, <1>5, <1>6 DEF IndInv

\* Setting the sticky bit preserves the invariant: it closes registers and opens none.
LEMMA StickyStep == ASSUME IndInv, set_ss_config_done_sticky PROVE IndInv'
<1>1. AxiTypeOK'
  BY DEF IndInv, AxiTypeOK, set_ss_config_done_sticky, loop, axiGhosts
<1>2. Control'
  BY DEF IndInv, Control, Configured, set_ss_config_done_sticky, loop
<1>3. Secured'
  BY DEF Secured, set_ss_config_done_sticky
<1>4. Checked'
  BY DEF IndInv, Checked, Passed, Configured, set_ss_config_done_sticky, loop
<1>5. Exact'
  BY DEF IndInv, Exact, Passed, set_ss_config_done_sticky, loop, axiGhosts
<1>6. Clean'
  BY DEF IndInv, Clean, Done, Configured, set_ss_config_done_sticky, loop, axiGhosts
<1>7. QED BY <1>1, <1>2, <1>3, <1>4, <1>5, <1>6 DEF IndInv

\* A write by another agent preserves the invariant: it cannot reach a secured slot.
LEMMA OtherAgentStep == ASSUME NEW s \in Slots, IndInv, OtherAgent(s) PROVE IndInv'
<1>1. AxiTypeOK'
  BY SlotsInTable, SlotNumbers DEF IndInv, AxiTypeOK, OtherAgent, Writable, regs, loop, axiGhosts
<1>2. Control'
  BY DEF IndInv, Control, Configured, OtherAgent, loop
<1>3. Secured'
  BY DEF IndInv, AxiTypeOK, Secured, Done, Configured, OtherAgent, loop
<1>4. Checked'
  BY SlotNumbers
  DEF IndInv, AxiTypeOK, Control, Secured, Checked, Done, Passed, Configured, OtherAgent, Writable, loop
<1>5. Exact'
  BY DEF IndInv, Exact, OtherAgent, Writable, loop
<1>6. Clean'
  BY DEF Clean, OtherAgent
<1>7. QED BY <1>1, <1>2, <1>3, <1>4, <1>5, <1>6 DEF IndInv

\* A reset preserves the invariant: the configuration is forgotten.
LEMMA ResetStep == ASSUME NEW cold \in BOOLEAN, IndInv, AxiReset(cold) PROVE IndInv'
<1>1. AxiTypeOK'
  <2>1. user' \in [Slots -> Users \cup Strangers \cup {0}] /\ lock' \in [Slots -> BOOLEAN]
    BY DEF IndInv, AxiTypeOK, AxiReset, regs
  <2>2. sticky' \in BOOLEAN
    BY Zenon DEF IndInv, AxiTypeOK, AxiReset, regs
  <2>3. k' \in 0..NumSlots
    BY SlotNumbers DEF AxiReset
  <2>4. QED BY <2>1, <2>2, <2>3, NoConfigType DEF IndInv, AxiTypeOK, AxiReset, axiGhosts
<1>2. Control'
  BY DEF Control, Configured, AxiReset, NoConfig
<1>3. Secured'
  BY DEF Secured, Configured, AxiReset, NoConfig
<1>4. Checked'
  BY DEF Checked, Configured, AxiReset, NoConfig
<1>5. Exact'
  BY DEF Exact, AxiReset
<1>6. Clean'
  BY DEF Clean, Done, AxiReset
<1>7. QED BY <1>1, <1>2, <1>3, <1>4, <1>5, <1>6 DEF IndInv

\* A step that changes no variable preserves the invariant.
LEMMA StutterStep == ASSUME IndInv, UNCHANGED axiVars PROVE IndInv'
  BY DEF IndInv, AxiTypeOK, Control, Secured, Checked, Exact, Clean, Done, Passed, Configured,
         axiVars, regs, loop, axiGhosts

\* The invariant holds when the MCU comes out of power-on.
LEMMA InitStep == ASSUME AxiInit PROVE IndInv
<1>1. AxiTypeOK
  <2>1. k \in 0..NumSlots
    BY SlotNumbers DEF AxiInit
  <2>2. straps \in Straps
    BY DEF AxiInit, Straps
  <2>3. QED BY <2>1, <2>2, NoConfigType DEF AxiInit, AxiTypeOK
<1>2. Control /\ Secured /\ Checked /\ Exact /\ Clean
  BY NoConfigType DEF AxiInit, Control, Secured, Checked, Exact, Clean, Done, Passed, Configured,
                      NoConfig
<1>3. QED BY <1>1, <1>2 DEF IndInv

\* The invariant holds in every reachable state, whatever the other agents
\* write between the register accesses of the ROM.
THEOREM AxiInvariant == AxiSpec => []IndInv
<1>1. AxiInit => IndInv
  BY InitStep
<1>2. IndInv /\ [AxiNext]_axiVars => IndInv'
  <2>1. SUFFICES ASSUME IndInv, [AxiNext]_axiVars PROVE IndInv'
    OBVIOUS
  <2>2. CASE \E s \in Straps : Configure(s)
    BY <2>1, <2>2, ConfigureStep
  <2>3. CASE ConfigureUser \/ ConfigureLock \/ ConfigureDone
    BY <2>1, <2>3, ConfigureUserStep, ConfigureLockStep, ConfigureDoneStep
  <2>4. CASE Verify \/ VerifyUser \/ VerifyLock \/ VerifyDone
    BY <2>1, <2>4, VerifyStep, VerifyUserStep, VerifyLockStep, VerifyDoneStep
  <2>5. CASE set_ss_config_done_sticky
    BY <2>1, <2>5, StickyStep
  <2>6. CASE \E s \in Slots : OtherAgent(s)
    BY <2>1, <2>6, OtherAgentStep
  <2>7. CASE \E cold \in BOOLEAN : AxiReset(cold)
    BY <2>1, <2>7, ResetStep
  <2>8. CASE UNCHANGED axiVars
    BY <2>1, <2>8, StutterStep
  <2>9. QED
    BY <2>1, <2>2, <2>3, <2>4, <2>5, <2>6, <2>7, <2>8 DEF AxiNext
<1>3. QED BY <1>1, <1>2, PTL DEF AxiSpec

\* Registers, configuration and loop counters keep their types for any number
\* of slots: in particular no loop runs past the slots of the second mailbox.
THEOREM AxiTypes == AxiSpec => []AxiTypeOK
<1>1. IndInv => AxiTypeOK
  BY DEF IndInv
<1>2. QED BY <1>1, AxiInvariant, PTL

\* A configured user that verify_mcu_mbox_axi_users has accepted is in its
\* register and locked, and stays so, for any number of slots and agents.
THEOREM VerifiedUsers == AxiSpec => []VerifiedUsersInForce
<1>1. IndInv => VerifiedUsersInForce
  BY DEF IndInv, Checked, Passed, VerifiedUsersInForce
<1>2. QED BY <1>1, AxiInvariant, PTL

\* After SS_CONFIG_DONE_STICKY an accepted configuration is exact about the
\* locks of all slots.
THEOREM VerifiedLocks == AxiSpec => []VerifiedLocksExact
<1>1. IndInv => VerifiedLocksExact
  BY DEF IndInv, Exact, Passed, VerifiedLocksExact
<1>2. QED BY <1>1, AxiInvariant, PTL

\* verify_mcu_mbox_axi_users rejects no configuration of its own ROM unless
\* somebody interfered.
THEOREM NoFalseAlarm == AxiSpec => []FailureHasCause
<1>1. IndInv => FailureHasCause
  BY DEF IndInv, Clean, FailureHasCause
<1>2. QED BY <1>1, AxiInvariant, PTL
=============================================================================
