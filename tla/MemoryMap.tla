------------------------------ MODULE MemoryMap ------------------------------
(***************************************************************************)
(* Where the drivers reach into the address space: the base address RomEnv  *)
(* gives each driver, and the driver's registers as offset and number of    *)
(* words, which for an array is the bound its accessors check the index     *)
(* against.  Soc, which RomEnv does not hold, is placed at soc_offset; the  *)
(* array behind set_cptra_wdt_cfg has no bound (CaliptraSetup) and counts   *)
(* as one word.  Nobody accesses the vendor key hash and the runtime SVN    *)
(* yet: their lengths are those of the fuses (12 words, 128 bits).          *)
(***************************************************************************)
EXTENDS Integers

g_mcu_memory_map ==
    [lc   |-> 7 * 16^7 + 1024,
     otp  |-> 7 * 16^7,
     i3c  |-> 2 * 16^7 + 4 * 16^3,
     soc  |-> 3 * 16^7 + 3 * 16^4,
     mci  |-> 2 * 16^7 + 16^6,
     mbox |-> 3 * 16^7 + 2 * 16^4]

Devices == DOMAIN g_mcu_memory_map

One(off) == <<off, 1>>

MciRegisters ==
    [SECURITY_STATE |-> One(0), CPTRA_BOOT_GO |-> One(4), FW_FLOW_STATUS |-> One(8),
     FW_ERROR_FATAL |-> One(12), HW_FLOW_STATUS |-> One(16), MCU_NMI_VECTOR |-> One(20),
     WDT_TIMER1_TIMEOUT_PERIOD |-> <<24, 2>>, WDT_TIMER2_TIMEOUT_PERIOD |-> <<32, 2>>,
     WDT_TIMER1_CTRL |-> One(40), WDT_TIMER1_EN |-> One(44),
     RESET_REASON |-> One(48), RESET_REQUEST |-> One(52),
     SS_CONFIG_DONE_STICKY |-> One(56), SS_CONFIG_DONE |-> One(60),
     PROD_DEBUG_UNLOCK_PK_HASH |-> <<64, 12>>,
     MBOX0_VALID_AXI_USER |-> <<128, 8>>, MBOX0_AXI_USER_LOCK |-> <<160, 8>>,
     MBOX1_VALID_AXI_USER |-> <<192, 8>>, MBOX1_AXI_USER_LOCK |-> <<224, 8>>,
     NOTIF0_INTR_TRIG_R |-> One(256), NOTIF0_INTERNAL_INTR_R |-> One(260),
     GENERIC_INPUT_WIRES |-> <<1024, 2>>]

OtpRegisters ==
    [STATUS |-> One(0), ERR_CODE |-> One(4), DIRECT_ACCESS_CMD |-> One(8),
     DIRECT_ACCESS_ADDR |-> One(12), DIRECT_ACCESS_WDATA |-> <<16, 2>>,
     DIRECT_ACCESS_RDATA |-> <<24, 2>>, CHECK_TRIGGER |-> One(32), CHECK_PENDING |-> One(36),
     INTEGRITY_CHECK |-> One(40), CONSISTENCY_CHECK |-> One(44)]

I3cRegisters ==
    [CTRL |-> One(0), STATUS |-> One(4), DYNAMIC_ADDR |-> One(8), TX_FIFO |-> One(16),
     RX_FIFO |-> One(20), TX_FIFO_STATUS |-> One(24), RX_FIFO_STATUS |-> One(28),
     INTR_STATUS |-> One(32), INTR_ENABLE |-> One(36)]

LcRegisters ==
    [STATE |-> One(0), STATUS |-> One(4), TRANSITION_CMD |-> One(8),
     TRANSITION_TOKEN |-> <<16, 4>>]

SocRegisters ==
    [FLOW_STATUS |-> One(0), FW_EXEC_CTRL |-> One(4), FW_ERROR_FATAL |-> One(8),
     WDT_CFG |-> One(12), MBOX_VALID_AXI_USER |-> <<32, 5>>, MBOX_AXI_USER_LOCK |-> <<52, 5>>,
     FUSE_VALID_AXI_USER |-> One(72), FUSE_AXI_USER_LOCK |-> One(76),
     TRNG_VALID_AXI_USER |-> One(80), TRNG_AXI_USER_LOCK |-> One(84),
     DMA_AXI_USER |-> One(88), FUSE_WR_DONE |-> One(92), VENDOR_PK_HASH |-> <<256, 12>>,
     PQC_KEY_TYPE |-> One(320), FMC_KEY_MANIFEST_SVN |-> One(324), RUNTIME_SVN |-> <<328, 4>>,
     UDS_SEED_BASE_ADDR |-> <<512, 2>>, STRAP_GENERIC |-> One(520)]

MboxRegisters ==
    [LOCK |-> One(0), CMD |-> One(4), DLEN |-> One(8), DATAIN |-> One(12),
     DATAOUT |-> One(16), STATUS |-> One(20), EXECUTE |-> One(24)]

Registers ==
    [mci |-> MciRegisters, otp |-> OtpRegisters, i3c |-> I3cRegisters, lc |-> LcRegisters,
     soc |-> SocRegisters, mbox |-> MboxRegisters]

\* The word addresses the accessors of a register can reach.
WordsOf(d, r) ==
    LET reg == Registers[d][r]
    IN  {g_mcu_memory_map[d] + reg[1] + 4 * i : i \in 0..(reg[2] - 1)}

----------------------------------------------------------------------------
\* Properties.

\* No index an accessor lets through reaches a word of another register, of
\* the same device or of another one: not at the end of an array, and not
\* where the OTP controller's window meets the lifecycle controller's.
RegistersDisjoint ==
    \A d, e \in Devices : \A r \in DOMAIN Registers[d], q \in DOMAIN Registers[e] :
        WordsOf(d, r) \cap WordsOf(e, q) # {} => d = e /\ r = q
=============================================================================
