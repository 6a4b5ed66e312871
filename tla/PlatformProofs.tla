--------------------------- MODULE PlatformProofs ---------------------------
(***************************************************************************)
(* Proofs about the peripheral drivers and the routines they share, for     *)
(* every value of the constants: notifications and watchdog of MCI, the     *)
(* bounds of flash accesses, the views of the lifecycle state, checksums,   *)
(* hexadecimal output and CRC-8.  At the end, that the composition of       *)
(* MCPlatform keeps what its components promise.                            *)
(***************************************************************************)
EXTENDS MCPlatform, RoutineProofs, FiniteSetTheorems, TLAPS

----------------------------------------------------------------------------
\* The reset request of MCI.

\* A reset Caliptra asks for stays pending, in the register, in the handler or
\* as a request, and no notification is dropped unless a reset follows.
\* ResetRequestNotLost is inductive as it stands.
THEOREM ResetNotLost == MciSpec => []ResetRequestNotLost
<1>1. MciInit => ResetRequestNotLost
  BY DEF MciInit, ResetRequestNotLost
<1>2. ResetRequestNotLost /\ [MciNext]_mciVars => ResetRequestNotLost'
  <2> SUFFICES ASSUME ResetRequestNotLost, [MciNext]_mciVars
               PROVE  ResetRequestNotLost'
    OBVIOUS
  <2> USE DEF ResetRequestNotLost
  <2>1. CASE HandlerReads
    BY <2>1 DEF HandlerReads
  <2>2. CASE ModifyReads
    BY <2>2 DEF ModifyReads
  <2>3. CASE ModifyWrites
    BY <2>3 DEF ModifyWrites
  <2>4. CASE RequestReset
    BY <2>4 DEF RequestReset
  <2>5. CASE trigger_warm_reset
    BY <2>5 DEF trigger_warm_reset
  <2>6. ASSUME NEW bits, write_notif0_intr_trig_r(bits) PROVE ResetRequestNotLost'
    BY <2>6 DEF write_notif0_intr_trig_r
  <2>7. CASE UNCHANGED notifVars
    BY <2>7 DEF notifVars
  <2>8. ASSUME NEW n, Notify(n) PROVE ResetRequestNotLost'
    BY <2>8 DEF Notify
  <2>9. CASE McuReset
    BY <2>9 DEF McuReset
  <2>10. (ConfigureStep \/ disable_wdt \/ write_wdt_timer1_en \/ set_nmi_vector
            \/ set_ss_config_done \/ Tick) => UNCHANGED notifVars
    BY DEF ConfigureStep, disable_wdt, write_wdt_timer1_en, set_nmi_vector,
           set_ss_config_done, SetRegister, Tick
  <2>11. ASSUME NEW p, configure_wdt(p) PROVE UNCHANGED notifVars
    BY <2>11 DEF configure_wdt
  <2>12. UNCHANGED mciVars => UNCHANGED notifVars
    BY DEF mciVars
  <2> QED BY <2>1, <2>2, <2>3, <2>4, <2>5, <2>6, <2>7, <2>8, <2>9, <2>10, <2>11, <2>12
          DEF MciNext
<1> QED BY <1>1, <1>2, PTL DEF MciSpec

----------------------------------------------------------------------------
\* The watchdog.

WdtTypeOK ==
    /\ period0 \in 0..MaxTicks /\ period1 \in 0..MaxTicks
    /\ count \in 0..MaxTicks /\ age \in 0..MaxTicks /\ asked \in 0..MaxTicks
    /\ wdtPc \in 0..5

\* While a fresh configuration is being written the timer is off; once it runs
\* its period is the one asked for and its count is not ahead of the time that
\* has passed since the call.
WdtInv ==
    /\ WdtTypeOK
    /\ fresh => asked > 0
    /\ fresh /\ wdtPc > 0 =>
         /\ ~enabled /\ ~expired /\ period0 = asked
         /\ wdtPc > 1 => period1 = 0
         /\ wdtPc > 4 => count = 0
    /\ fresh /\ wdtPc = 0 /\ enabled => period0 = asked /\ period1 = 0 /\ count <= age
    /\ WatchdogOnTime

\* The timer is off at first.
LEMMA WdtInit == MciInit => WdtInv
BY MciAssumption DEF MciInit, WdtInv, WdtTypeOK, WatchdogOnTime

\* A step of configure_wdt: off until the last write, which comes after the
\* count was cleared.
LEMMA ConfigureKeeps == WdtInv /\ ConfigureStep => WdtInv'
<1> SUFFICES ASSUME WdtInv, ConfigureStep PROVE WdtInv'
  OBVIOUS
<1>1. /\ wdtPc \in 1..5
      /\ wdtPc' = (wdtPc + 1) % 6
      /\ UNCHANGED <<period0, expired, asked, age, fresh>>
  BY DEF ConfigureStep, WdtInv, WdtTypeOK
<1>2. wdtPc' = IF wdtPc = 5 THEN 0 ELSE wdtPc + 1
  BY <1>1
<1>3. WdtTypeOK'
  BY <1>1, <1>2, MciAssumption DEF ConfigureStep, WdtInv, WdtTypeOK
<1>4. /\ enabled' <=> enabled \/ wdtPc = 5
      /\ period1' = (IF wdtPc = 1 THEN 0 ELSE period1)
      /\ count' = (IF wdtPc = 4 THEN 0 ELSE count)
  BY DEF ConfigureStep
<1> QED BY <1>1, <1>2, <1>3, <1>4 DEF WdtInv, WdtTypeOK, WatchdogOnTime

\* A tick: count and age advance together, and the period is what was asked.
LEMMA TickKeeps == WdtInv /\ Tick => WdtInv'
<1> SUFFICES ASSUME WdtInv, Tick PROVE WdtInv'
  OBVIOUS
<1>1. MaxTicks \in Nat /\ MaxTicks * 0 = 0
  BY MciAssumption
<1>2. UNCHANGED <<period0, period1, enabled, wdtPc, asked, fresh>> /\ ~expired
  BY DEF Tick
<1>3. CASE ~enabled
  <2>1. ~expired' /\ count' = count /\ age' = (IF age < MaxTicks THEN age + 1 ELSE age)
    BY <1>3 DEF Tick
  <2> QED BY <1>1, <1>2, <1>3, <2>1 DEF WdtInv, WdtTypeOK, WatchdogOnTime
<1>4. CASE enabled
  <2>1. count' = count + 1 /\ count < MaxTicks /\ age' = (IF age < MaxTicks THEN age + 1 ELSE age)
    BY <1>4 DEF Tick
  <2>2. period1 = 0 => Period = period0
    BY <1>1 DEF Period, WdtInv, WdtTypeOK
  <2>3. expired' <=> count' >= Period
    BY <1>4 DEF Tick
  <2>4. WdtTypeOK'
    BY <1>1, <1>2, <2>1, <2>3 DEF WdtInv, WdtTypeOK
  <2>5. fresh /\ wdtPc = 0 => count' <= age' /\ (expired' <=> count' >= asked)
    BY <1>1, <1>4, <2>1, <2>2, <2>3 DEF WdtInv, WdtTypeOK
  <2> QED BY <1>1, <1>2, <1>4, <2>1, <2>4, <2>5 DEF WdtInv, WdtTypeOK, WatchdogOnTime
<1> QED BY <1>3, <1>4

\* Every other step leaves the timer alone or starts afresh.
LEMMA WdtInductive == WdtInv /\ [MciNext]_mciVars => WdtInv'
<1> SUFFICES ASSUME WdtInv, [MciNext]_mciVars PROVE WdtInv'
  OBVIOUS
<1> USE DEF WdtInv, WdtTypeOK, WatchdogOnTime
<1>1. CASE UNCHANGED wdtVars
  BY <1>1 DEF wdtVars
<1>2. (HandlerReads \/ ModifyReads \/ ModifyWrites \/ RequestReset
         \/ trigger_warm_reset \/ set_nmi_vector \/ set_ss_config_done) => UNCHANGED wdtVars
  BY DEF HandlerReads, ModifyReads, ModifyWrites, RequestReset, trigger_warm_reset,
         set_nmi_vector, set_ss_config_done, SetRegister
<1>3. ASSUME NEW bits, write_notif0_intr_trig_r(bits) PROVE UNCHANGED wdtVars
  BY <1>3 DEF write_notif0_intr_trig_r
<1>4. ASSUME NEW n, Notify(n) PROVE UNCHANGED wdtVars
  BY <1>4 DEF Notify
<1>5. ASSUME NEW p \in Periods, configure_wdt(p) PROVE WdtInv'
  <2>1. p \in 1..MaxTicks /\ MaxTicks \in Nat
    BY MciAssumption
  <2>2. /\ wdtPc' = 1 /\ asked' = p /\ age' = 0 /\ period0' = p
        /\ UNCHANGED <<period1, enabled, count, expired>>
        /\ fresh' <=> ~enabled /\ ~expired
    BY <1>5 DEF configure_wdt
  <2> QED BY <2>1, <2>2
<1>6. CASE disable_wdt
  BY <1>6 DEF disable_wdt
<1>7. CASE write_wdt_timer1_en
  BY <1>7 DEF write_wdt_timer1_en
<1>8. CASE McuReset
  BY <1>8, MciAssumption DEF McuReset
<1>9. UNCHANGED mciVars => UNCHANGED wdtVars
  BY DEF mciVars
<1> QED BY <1>1, <1>2, <1>3, <1>4, <1>5, <1>6, <1>7, <1>8, <1>9, ConfigureKeeps, TickKeeps
        DEF MciNext

\* Configured while it is off, timer 1 expires when its period has passed and
\* not before, for any period and whatever an earlier run left in the count
\* and in the upper half of the period.
THEOREM WatchdogIsOnTime == MciSpec => []WatchdogOnTime
<1>1. WdtInv => WatchdogOnTime
  BY DEF WdtInv
<1> QED BY <1>1, WdtInit, WdtInductive, PTL DEF MciSpec

----------------------------------------------------------------------------
\* Flash accesses.

\* A sum that stays below 2^32 is not changed by the reduction.
LEMMA AddSmall ==
    ASSUME NEW a \in Nat, NEW b \in Nat, a + b < AddressSpace
    PROVE  Add32(a, b) = a + b
<1>1. AddressSpace \in Nat \ {0} /\ a + b \in 0..(AddressSpace - 1)
  BY FlashAssumption
<1> QED BY <1>1 DEF Add32

\* Subtraction wraps below 0.
LEMMA OffsetOf ==
    ASSUME NEW a \in Offsets
    PROVE  to_flash_offset(a) = IF a >= base_address THEN a - base_address
                                ELSE a - base_address + AddressSpace
<1>1. /\ AddressSpace \in Nat \ {0} /\ base_address \in Nat /\ base_address < AddressSpace
      /\ a \in Nat /\ a < AddressSpace
  BY FlashAssumption DEF Offsets
<1>2. CASE a >= base_address
  <2>1. a - base_address \in 0..(AddressSpace - 1)
    BY <1>1, <1>2
  <2> QED BY <1>1, <1>2, <2>1 DEF to_flash_offset
<1>3. CASE a < base_address
  <2>1. a - base_address + AddressSpace \in 0..(AddressSpace - 1)
    BY <1>1, <1>3
  <2> QED BY <1>1, <1>3, <2>1 DEF to_flash_offset
<1> QED BY <1>1, <1>2, <1>3

\* Wherever a region lies that ends below 2^32, contains agrees with
\* to_flash_offset.
LEMMA ContainsRight ==
    ASSUME base_address + FlashSize < AddressSpace, NEW a \in Offsets
    PROVE  ContainsAgrees(a)
<1>1. /\ AddressSpace \in Nat \ {0} /\ base_address \in Nat /\ FlashSize \in Nat
      /\ base_address < AddressSpace /\ a \in Nat
  BY FlashAssumption DEF Offsets
<1>2. Add32(base_address, FlashSize) = base_address + FlashSize
  BY <1>1, AddSmall
<1> QED BY <1>1, <1>2, OffsetOf DEF contains, ContainsAgrees

----------------------------------------------------------------------------
\* The lifecycle state.

\* The predicates of Lifecycle and its controller state agree for every value
\* of the state register, defined or not.
THEOREM LifecycleViews == \A raw \in Nat : ViewsAgree(raw)
<1> SUFFICES ASSUME NEW raw \in Nat PROVE ViewsAgree(raw)
  OBVIOUS
<1>1. raw % 32 \in 0..31
  OBVIOUS
<1>2. \A i \in 1..13 : StateTable[i] \in TestUnlockedStates \cup TestLockedStates \cup SingleStates
  BY DEF StateTable, TestUnlockedStates, TestLockedStates, SingleStates
<1>3. /\ raw % 32 \in 0..12 => state(raw) \in TestUnlockedStates \cup TestLockedStates \cup SingleStates
      /\ raw % 32 \in 13..31 => state(raw) = "Invalid"
  BY <1>1, <1>2 DEF state
<1>4. (state(raw) = "Invalid") <=> raw % 32 \in 13..31
  BY <1>1, <1>3 DEF TestUnlockedStates, TestLockedStates, SingleStates
<1>5. current_state(raw) = IF state(raw) \in TestUnlockedStates THEN "TestUnlocked"
                           ELSE IF state(raw) \in TestLockedStates THEN "TestLocked"
                           ELSE IF state(raw) = "Raw" THEN "RawState"
                           ELSE state(raw)
  BY <1>1, <1>3 DEF current_state, TestUnlockedStates, TestLockedStates, SingleStates
<1> QED BY <1>1, <1>3, <1>4, <1>5
        DEF ViewsAgree, is_manufacturing, is_production, is_rma, is_dev, is_debug_locked,
            TestUnlockedStates, TestLockedStates, SingleStates

----------------------------------------------------------------------------
\* Checksums and hexadecimal output.

\* Sender and receiver of a mailbox message negate the sum alike, and the
\* receiver accepts exactly the checksum that closes the sum.
THEOREM ChecksumCloses ==
    \A sum, word \in 0..(WordMod - 1) : NegationsAgree(sum) /\ AcceptsClosedSums(sum, word)
BY WordAssumption DEF NegationsAgree, AcceptsClosedSums, verify_checksum, Wrap, Complement, Subtract

\* Every byte can be read back from the two digits printed for it.
THEOREM HexIsRight == \A x \in Byte : HexReadsBack(x)
<1> SUFFICES ASSUME NEW x \in 0..255 PROVE HexReadsBack(x)
  BY DEF Byte
<1>1. PICK q \in 0..15, r \in 0..15 : q = x \div 16 /\ r = x % 16
  OBVIOUS
<1>2. x = q * 16 + r
  BY <1>1
<1>3. \A c \in 0..15 : HexDigit(c) \in (48..57 \cup 65..70) /\ DigitValue(HexDigit(c)) = c
  BY DEF HexDigit, DigitValue
<1>4. HexByte(x)[1] = HexDigit(x \div 16) /\ HexByte(x)[2] = HexDigit(x % 16)
  BY DEF HexByte
<1> QED BY <1>1, <1>2, <1>3, <1>4 DEF HexReadsBack
----------------------------------------------------------------------------
\* The CRC.

Odd(S) == Cardinality(S) % 2 = 1

\* One element more or less.
LEMMA OddAdd ==
    ASSUME NEW S, IsFiniteSet(S), NEW T, NEW x, T = S \/ T = S \cup {x}, x \notin S
    PROVE  IsFiniteSet(T) /\ (Odd(T) <=> ~(x \in T <=> Odd(S)))
<1>1. Cardinality(S) \in Nat
  BY FS_CardinalityType
<1>2. CASE T = S
  BY <1>2 DEF Odd
<1>3. CASE T = S \cup {x}
  <2>1. IsFiniteSet(T) /\ Cardinality(T) = Cardinality(S) + 1 /\ x \in T
    BY <1>3, FS_AddElement
  <2>2. (Cardinality(S) + 1) % 2 = 1 <=> Cardinality(S) % 2 # 1
    BY <1>1
  <2> QED BY <2>1, <2>2 DEF Odd
<1> QED BY <1>2, <1>3

\* The bits of a product by the polynomial, and by the generator.
Odd3(p, k) == k \in p <=> (k - 1 \in p <=> k - 2 \in p)
Odd4(p, k) == ~(Odd3(p, k) <=> k - 8 \in p)

LEMMA ProductBits ==
    ASSUME NEW p \in SUBSET Int, NEW k \in Int
    PROVE  /\ k \in clmul(p, POLYNOMIAL) <=> k \in 0..31 /\ Odd3(p, k)
           /\ k \in clmul(p, Generator) <=> k \in 0..31 /\ Odd4(p, k)
<1> DEFINE S1 == p \cap {k}
           S2 == p \cap {k, k - 1}
           S3 == p \cap {k, k - 1, k - 2}
           S4 == p \cap {k, k - 1, k - 2, k - 8}
<1>1. IsFiniteSet({}) /\ ~Odd({})
  BY FS_EmptySet DEF Odd
<1>2. IsFiniteSet(S1) /\ (Odd(S1) <=> (k \in p))
  <2>1. S1 = {} \/ S1 = {} \cup {k}
    OBVIOUS
  <2>2. IsFiniteSet(S1) /\ (Odd(S1) <=> ~(k \in S1 <=> Odd({})))
    BY <1>1, <2>1, OddAdd, Zenon
  <2> QED BY <1>1, <2>2
<1>3. IsFiniteSet(S2) /\ (Odd(S2) <=> ~(k - 1 \in p <=> Odd(S1)))
  <2>1. (S2 = S1 \/ S2 = S1 \cup {k - 1}) /\ k - 1 \notin S1 /\ (k - 1 \in S2 <=> k - 1 \in p)
    OBVIOUS
  <2> HIDE DEF S1, S2
  <2> QED BY <1>2, <2>1, OddAdd
<1>4. IsFiniteSet(S3) /\ (Odd(S3) <=> ~(k - 2 \in p <=> Odd(S2)))
  <2>1. (S3 = S2 \/ S3 = S2 \cup {k - 2}) /\ k - 2 \notin S2 /\ (k - 2 \in S3 <=> k - 2 \in p)
    OBVIOUS
  <2> HIDE DEF S2, S3
  <2> QED BY <1>3, <2>1, OddAdd
<1>5. Odd(S4) <=> ~(k - 8 \in p <=> Odd(S3))
  <2>1. (S4 = S3 \/ S4 = S3 \cup {k - 8}) /\ k - 8 \notin S3 /\ (k - 8 \in S4 <=> k - 8 \in p)
    OBVIOUS
  <2> HIDE DEF S3, S4
  <2> QED BY <1>4, <2>1, OddAdd
<1>6. /\ {i \in p : k - i \in POLYNOMIAL} = S3
      /\ {i \in p : k - i \in Generator} = S4
  <2>1. ASSUME NEW i \in p
        PROVE  /\ k - i \in POLYNOMIAL <=> i \in {k, k - 1, k - 2}
               /\ k - i \in Generator <=> i \in {k, k - 1, k - 2, k - 8}
    BY DEF POLYNOMIAL, Generator
  <2> QED BY <2>1
<1>7. /\ k \in clmul(p, POLYNOMIAL) <=> k \in 0..31 /\ Odd(S3)
      /\ k \in clmul(p, Generator) <=> k \in 0..31 /\ Odd(S4)
  <2> HIDE DEF S3, S4
  <2> QED BY <1>6 DEF clmul, Odd
<1> HIDE DEF S1, S2, S3, S4
<1> QED BY <1>2, <1>3, <1>4, <1>5, <1>7 DEF Odd3, Odd4

\* Sums and shifts, bit by bit.
LEMMA XorBits ==
    ASSUME NEW a \in SUBSET Int, NEW b \in SUBSET Int, NEW k \in Int
    PROVE  k \in xor(a, b) <=> ~(k \in a <=> k \in b)
BY DEF xor

LEMMA ShlBits ==
    ASSUME NEW a \in SUBSET Int, NEW n \in Int, NEW k \in Int
    PROVE  k \in shl(a, n) <=> k - n \in a
<1>1. ASSUME NEW i \in a PROVE k = i + n <=> i = k - n
  OBVIOUS
<1> QED BY <1>1 DEF shl

LEMMA ShrBits ==
    ASSUME NEW a \in SUBSET Int, NEW n \in Int, NEW k \in Int
    PROVE  k \in shr(a, n) <=> k >= 0 /\ k + n \in a
<1>1. ASSUME NEW i \in a, i >= n PROVE k = i - n <=> i = k + n
  OBVIOUS
<1>2. k + n >= n <=> k >= 0
  OBVIOUS
<1> QED BY <1>1, <1>2 DEF shr

\* Two registers with the same bits.
LEMMA SameBits ==
    ASSUME NEW a \in SUBSET Int, NEW b \in SUBSET Int, \A k \in Int : k \in a <=> k \in b
    PROVE  a = b
OBVIOUS

\* One turn of the loop of the host, bit by bit.
LEMMA ShiftBits ==
    ASSUME NEW c \in CrcByte
    PROVE  /\ HostShift(c) \in CrcByte
           /\ \A k \in Int : k \in HostShift(c) <=>
                 k \in 0..7 /\ ~(k - 1 \in c <=> (7 \in c /\ k \in {0, 1, 2}))
<1> DEFINE f == IF 7 \in c THEN POLYNOMIAL ELSE {}
           sh == shl(c, 1) \cap (0..7)
<1>1. c \in SUBSET Int /\ f \in SUBSET (0..7) /\ sh \in SUBSET (0..7)
  BY DEF CrcByte, POLYNOMIAL
<1>2. \A k \in Int : k \in sh <=> k \in 0..7 /\ k - 1 \in c
  <2> TAKE k \in Int
  <2>1. k \in shl(c, 1) <=> k - 1 \in c
    BY <1>1, ShlBits
  <2> QED BY <2>1
<1>3. \A k \in Int : k \in f <=> 7 \in c /\ k \in {0, 1, 2}
  BY DEF POLYNOMIAL
<1>4. HostShift(c) = xor(sh, f)
  BY DEF HostShift
<1> HIDE DEF sh, f
<1>5. \A k \in Int : k \in xor(sh, f) <=> ~(k \in sh <=> k \in f)
  BY <1>1, XorBits
<1>6. xor(sh, f) \in CrcByte
  BY <1>1 DEF xor, CrcByte
<1>7. ASSUME NEW k \in Int
      PROVE  k \in xor(sh, f) <=>
                k \in 0..7 /\ ~(k - 1 \in c <=> (7 \in c /\ k \in {0, 1, 2}))
  <2>1. k \in {0, 1, 2} => k \in 0..7
    OBVIOUS
  <2> QED BY <1>2, <1>3, <1>5, <2>1
<1> QED BY <1>4, <1>6, <1>7

\* The quotient after one more turn: times x, plus 1 if a bit was shifted out.
NextQuotient(q, c) == shl(q, 1) \cup (IF 7 \in c THEN {0} ELSE {})

LEMMA TurnDivides ==
    ASSUME NEW x \in CrcByte, NEW c \in CrcByte, NEW n \in 0..7, NEW q \in SUBSET (0..(n - 1)),
           xor(shl(x, n), c) = clmul(q, Generator)
    PROVE  /\ NextQuotient(q, c) \in SUBSET (0..n)
           /\ xor(shl(x, n + 1), HostShift(c)) = clmul(NextQuotient(q, c), Generator)
<1> DEFINE r == NextQuotient(q, c)
           h == HostShift(c)
<1>1. q \in SUBSET Int /\ x \in SUBSET Int /\ c \in SUBSET Int /\ h \in SUBSET Int
  BY ShiftBits DEF CrcByte
<1>2. r \in SUBSET (0..n)
  BY DEF NextQuotient, shl
<1>3. \A k \in Int : k \in r <=> k - 1 \in q \/ (k = 0 /\ 7 \in c)
  <2> TAKE k \in Int
  <2>1. k \in shl(q, 1) <=> k - 1 \in q
    BY <1>1, ShlBits
  <2> QED BY <2>1 DEF NextQuotient
<1>4. \A k \in Int : k \in h <=> k \in 0..7 /\ ~(k - 1 \in c <=> (7 \in c /\ k \in {0, 1, 2}))
  BY ShiftBits
<1>5. /\ shl(x, n) \in SUBSET Int /\ shl(x, n + 1) \in SUBSET Int
      /\ xor(shl(x, n + 1), h) \in SUBSET Int /\ clmul(r, Generator) \in SUBSET Int
  BY <1>1 DEF shl, xor, clmul
<1> HIDE DEF r, h
<1>6. ASSUME NEW k \in Int
      PROVE  k \in xor(shl(x, n + 1), h) <=> k \in clmul(r, Generator)
  <2>1. k \in xor(shl(x, n + 1), h) <=> ~(k - (n + 1) \in x <=> k \in h)
    BY <1>1, <1>5, XorBits, ShlBits
  <2>2. k \in clmul(r, Generator) <=> k \in 0..31 /\ Odd4(r, k)
    BY <1>2, ProductBits
  <2>3. k - 1 \in clmul(q, Generator) <=> ~((k - 1) - n \in x <=> k - 1 \in c)
    BY <1>1, <1>5, XorBits, ShlBits
  <2>4. k - 1 \in clmul(q, Generator) <=> k - 1 \in 0..31 /\ Odd4(q, k - 1)
    BY <1>1, ProductBits
  <2>5. Odd4(r, k) <=> ~(Odd4(q, k - 1) <=> (7 \in c /\ k \in {0, 1, 2, 8}))
    <3>1. /\ k \in r <=> k - 1 \in q \/ (k = 0 /\ 7 \in c)
          /\ k - 1 \in r <=> k - 2 \in q \/ (k = 1 /\ 7 \in c)
          /\ k - 2 \in r <=> k - 3 \in q \/ (k = 2 /\ 7 \in c)
          /\ k - 8 \in r <=> k - 9 \in q \/ (k = 8 /\ 7 \in c)
      <4>1. (k - 1) - 1 = k - 2 /\ (k - 2) - 1 = k - 3 /\ (k - 8) - 1 = k - 9
        OBVIOUS
      <4> QED BY <1>3, <4>1
    <3>2. Odd4(q, k - 1) <=>
             ~((k - 1 \in q <=> (k - 2 \in q <=> k - 3 \in q)) <=> k - 9 \in q)
      <4>1. (k - 1) - 1 = k - 2 /\ (k - 1) - 2 = k - 3 /\ (k - 1) - 8 = k - 9
        OBVIOUS
      <4> QED BY <4>1 DEF Odd3, Odd4
    <3>3. \A i \in Int : i < 0 => i \notin q
      OBVIOUS
    <3>4. /\ k = 0 => k - 1 \notin q
          /\ k = 1 => k - 2 \notin q
          /\ k = 2 => k - 3 \notin q
          /\ k = 8 => k - 9 \notin q
      BY <3>3
    <3> QED BY <3>1, <3>2, <3>4 DEF Odd3, Odd4
  <2>6. k <= 0 => ~Odd4(q, k - 1)
    BY DEF Odd3, Odd4
  <2>7. (k - 1) - n = k - (n + 1)
    OBVIOUS
  <2>8. k - (n + 1) \in x => k \in 1..15
    BY DEF CrcByte
  <2>9. /\ k - 1 \in c => k \in 1..8
        /\ k = 8 => (k - 1 \in c <=> 7 \in c)
    BY DEF CrcByte
  <2>10. k \in h <=> k \in 0..7 /\ ~(k - 1 \in c <=> (7 \in c /\ k \in {0, 1, 2}))
    BY <1>4
  <2> QED BY <2>1, <2>2, <2>3, <2>4, <2>5, <2>6, <2>7, <2>8, <2>9, <2>10
<1>7. xor(shl(x, n + 1), h) = clmul(r, Generator)
  BY <1>5, <1>6, SameBits
<1> QED BY <1>2, <1>7 DEF r, h

\* What the target computes when poly has a register of its own.
Top(x)       == shr(clmul(x, POLYNOMIAL), 8)
Remainder(x) == xor(clmul(x, POLYNOMIAL), clmul(Top(x), POLYNOMIAL)) \cap (0..7)

LEMMA TargetDivides ==
    ASSUME NEW x \in CrcByte
    PROVE  /\ Remainder(x) \in CrcByte /\ xor(x, Top(x)) \in CrcByte
           /\ xor(shl(x, 8), Remainder(x)) = clmul(xor(x, Top(x)), Generator)
<1> DEFINE a == clmul(x, POLYNOMIAL)
           t == Top(x)
           b == clmul(t, POLYNOMIAL)
           r == Remainder(x)
           q == xor(x, t)
<1>1. x \in SUBSET Int /\ a \in SUBSET Int /\ b \in SUBSET Int /\ r \in CrcByte
  BY DEF CrcByte, clmul, Remainder
<1>2. \A k \in Int : k \in a <=> k \in 0..31 /\ Odd3(x, k)
  BY <1>1, ProductBits
<1>3. \A k \in Int : k \in t <=> k >= 0 /\ k + 8 \in a
  <2>1. t = shr(a, 8)
    BY DEF Top
  <2> HIDE DEF a, t
  <2> QED BY <1>1, <2>1, ShrBits
<1>4. t \in SUBSET {0, 1}
  <2>1. t \in SUBSET Int
    <3>1. t = shr(a, 8)
      BY DEF Top
    <3> HIDE DEF a, t
    <3> QED BY <1>1, <3>1 DEF shr
  <2>2. ASSUME NEW k \in Int, k \in t PROVE k \in {0, 1}
    <3>1. k >= 0 /\ Odd3(x, k + 8)
      BY <1>2, <1>3, <2>2
    <3>2. k + 8 \in x \/ (k + 8) - 1 \in x \/ (k + 8) - 2 \in x
      BY <3>1 DEF Odd3
    <3> QED BY <3>1, <3>2 DEF CrcByte
  <2> HIDE DEF t
  <2> QED BY <2>1, <2>2
<1>5. \A k \in Int : k \in b <=> k \in 0..31 /\ Odd3(t, k)
  <2>1. t \in SUBSET Int
    BY <1>4
  <2> HIDE DEF t
  <2> QED BY <2>1, ProductBits
<1>6. q \in CrcByte /\ q \in SUBSET Int /\ t \in SUBSET Int
  <2> HIDE DEF t
  <2> QED BY <1>4 DEF CrcByte, xor
<1>7. \A k \in Int : k \in r <=> k \in 0..7 /\ ~(k \in a <=> k \in b)
  <2>1. r = xor(a, b) \cap (0..7)
    BY DEF Remainder
  <2> HIDE DEF a, b, r
  <2> QED BY <1>1, <2>1, XorBits
<1>8. \A k \in Int : k \in q <=> ~(k \in x <=> k \in t)
  <2> HIDE DEF t
  <2> QED BY <1>1, <1>6, XorBits
<1> HIDE DEF a, b, t, r, q
<1>9. /\ shl(x, 8) \in SUBSET Int /\ r \in SUBSET Int
      /\ xor(shl(x, 8), r) \in SUBSET Int /\ clmul(q, Generator) \in SUBSET Int
  <2>1. shl(x, 8) \in SUBSET Int /\ r \in SUBSET Int
    BY <1>1 DEF shl, CrcByte
  <2>2. clmul(q, Generator) \in SUBSET Int
    BY DEF clmul
  <2> QED BY <2>1, <2>2 DEF xor
<1>10. ASSUME NEW k \in Int
       PROVE  k \in xor(shl(x, 8), r) <=> k \in clmul(q, Generator)
  <2>1. k \in xor(shl(x, 8), r) <=> ~(k - 8 \in x <=> k \in r)
    BY <1>1, <1>9, XorBits, ShlBits
  <2>2. k \in clmul(q, Generator) <=> k \in 0..31 /\ Odd4(q, k)
    BY <1>6, ProductBits
  <2>3. Odd3(q, k) <=> ~(Odd3(x, k) <=> Odd3(t, k))
    BY <1>8 DEF Odd3
  <2>4. Odd4(q, k) <=> ~(Odd3(q, k) <=> ~(k - 8 \in x <=> k - 8 \in t))
    BY <1>8 DEF Odd4
  <2>5. k - 8 \in t <=> k >= 8 /\ k \in a
    <3>1. (k - 8) + 8 = k
      OBVIOUS
    <3> QED BY <1>3, <3>1
  <2>6. k - 8 \in x => k \in 8..15
    BY DEF CrcByte
  <2>7. Odd3(t, k) => k \in 0..3
    BY <1>4 DEF Odd3
  <2>8. Odd3(x, k) => k \in 0..9
    BY DEF Odd3, CrcByte
  <2>9. /\ k \in a <=> k \in 0..31 /\ Odd3(x, k)
        /\ k \in b <=> k \in 0..31 /\ Odd3(t, k)
        /\ k \in r <=> k \in 0..7 /\ ~(k \in a <=> k \in b)
    BY <1>2, <1>5, <1>7
  <2> QED BY <2>1, <2>2, <2>3, <2>4, <2>5, <2>6, <2>7, <2>8, <2>9
<1>11. xor(shl(x, 8), r) = clmul(q, Generator)
  BY <1>9, <1>10, SameBits
<1> QED BY <1>1, <1>6, <1>11 DEF r, q, t

\* A remainder is unique: two multiples of the generator that agree from bit 8
\* on are the same.
LEMMA OneRemainder ==
    ASSUME NEW x \in CrcByte, NEW c \in CrcByte, NEW e \in CrcByte,
           NEW q \in CrcByte, NEW r \in CrcByte,
           xor(shl(x, 8), c) = clmul(q, Generator),
           xor(shl(x, 8), e) = clmul(r, Generator)
    PROVE  c = e
<1>1. /\ x \in SUBSET Int /\ c \in SUBSET Int /\ e \in SUBSET Int /\ shl(x, 8) \in SUBSET Int
      /\ q \in SUBSET Int /\ r \in SUBSET Int
  BY DEF CrcByte, shl
<1>2. ASSUME NEW k \in Int
      PROVE  /\ (k \in 0..31 /\ Odd4(q, k)) <=> ~(k - 8 \in x <=> k \in c)
             /\ (k \in 0..31 /\ Odd4(r, k)) <=> ~(k - 8 \in x <=> k \in e)
  <2>1. /\ k \in clmul(q, Generator) <=> k \in 0..31 /\ Odd4(q, k)
        /\ k \in clmul(r, Generator) <=> k \in 0..31 /\ Odd4(r, k)
    BY <1>1, ProductBits
  <2>2. /\ k \in xor(shl(x, 8), c) <=> ~(k - 8 \in x <=> k \in c)
        /\ k \in xor(shl(x, 8), e) <=> ~(k - 8 \in x <=> k \in e)
    BY <1>1, XorBits, ShlBits
  <2> QED BY <2>1, <2>2
<1>3. ASSUME NEW k \in 8..15 PROVE Odd4(q, k) <=> Odd4(r, k)
  <2>1. k \in Int /\ k \notin c /\ k \notin e /\ k \in 0..31
    BY DEF CrcByte
  <2> QED BY <1>2, <2>1
<1>4. ASSUME NEW k \in 10..15 PROVE k - 8 \in q <=> k - 8 \in r
  <2>1. /\ k \notin q /\ k - 1 \notin q /\ k - 2 \notin q
        /\ k \notin r /\ k - 1 \notin r /\ k - 2 \notin r
    BY DEF CrcByte
  <2> QED BY <1>3, <2>1 DEF Odd3, Odd4
<1>5. ASSUME NEW i \in 2..7 PROVE i \in q <=> i \in r
  <2>1. i + 8 \in 10..15 /\ (i + 8) - 8 = i
    OBVIOUS
  <2> QED BY <1>4, <2>1
<1>6. 8 \notin q /\ 9 \notin q /\ 8 \notin r /\ 9 \notin r
  BY DEF CrcByte
<1>7. 1 \in q <=> 1 \in r
  <2>1. Odd4(q, 9) <=> Odd4(r, 9)
    BY <1>3
  <2>2. 9 - 1 = 8 /\ 9 - 2 = 7 /\ 9 - 8 = 1
    OBVIOUS
  <2> QED BY <1>5, <1>6, <2>1, <2>2 DEF Odd3, Odd4
<1>8. 0 \in q <=> 0 \in r
  <2>1. Odd4(q, 8) <=> Odd4(r, 8)
    BY <1>3
  <2>2. 8 - 1 = 7 /\ 8 - 2 = 6 /\ 8 - 8 = 0
    OBVIOUS
  <2> QED BY <1>5, <1>6, <2>1, <2>2 DEF Odd3, Odd4
<1>9. q = r
  <2>1. ASSUME NEW i \in 0..7 PROVE i \in q <=> i \in r
    <3>1. i = 0 \/ i = 1 \/ i \in 2..7
      OBVIOUS
    <3> QED BY <1>5, <1>7, <1>8, <3>1
  <2> QED BY <2>1 DEF CrcByte
<1>10. \A k \in Int : k \in c <=> k \in e
  BY <1>2, <1>9
<1> QED BY <1>1, <1>10, SameBits

\* After n turns the register of the host is the remainder of the input times
\* x^n, and that of the target is the remainder of the whole.
CrcInv ==
    /\ CrcTypeOK
    /\ \E q \in SUBSET (0..(turn - 1)) : xor(shl(input, turn), hostCrc) = clmul(q, Generator)
    /\ poly = "none" => targetCrc = Remainder(input)

LEMMA CrcInvRight == CrcInv => CrcRight
<1> SUFFICES ASSUME CrcInv, turn = 8 PROVE CrcRight
  BY DEF CrcRight
<1>1. PICK q \in SUBSET (0..7) : xor(shl(input, 8), hostCrc) = clmul(q, Generator)
  BY DEF CrcInv
<1>2. input \in CrcByte /\ hostCrc \in CrcByte /\ q \in CrcByte
  BY DEF CrcInv, CrcTypeOK, CrcByte
<1>3. Remainder(input) = hostCrc
  BY <1>1, <1>2, TargetDivides, OneRemainder
<1> QED BY <1>1, <1>2, <1>3 DEF CrcInv, CrcRight, Multiples

\* An empty message.
LEMMA CrcInitInv == CrcInit => CrcInv
<1> SUFFICES ASSUME CrcInit PROVE CrcInv
  OBVIOUS
<1>1. {} \in CrcByte /\ {} \in SUBSET Int /\ {} \in SUBSET (0..(turn - 1))
  BY DEF CrcByte
<1>2. clmul({}, Generator) = {} /\ clmul({}, POLYNOMIAL) = {}
  BY <1>1, ProductBits DEF Odd3, Odd4, clmul
<1>3. shr({}, 8) = {} /\ shl({}, 8) = {} /\ xor({}, {}) = {}
  BY DEF shr, shl, xor
<1>4. Remainder({}) = {}
  BY <1>2, <1>3 DEF Remainder, Top
<1>5. xor(shl(input, turn), hostCrc) = clmul({}, Generator)
  BY <1>2, <1>3 DEF CrcInit
<1> QED BY <1>1, <1>4, <1>5 DEF CrcInit, CrcInv, CrcTypeOK

\* A turn of the host's loop.
LEMMA TurnKeeps == CrcInv /\ HostTurn => CrcInv'
<1> SUFFICES ASSUME CrcInv, HostTurn PROVE CrcInv'
  OBVIOUS
<1>1. /\ turn \in 0..7 /\ turn' = turn + 1 /\ hostCrc' = HostShift(hostCrc)
      /\ input' = input /\ targetCrc' = targetCrc /\ poly' = poly
      /\ input \in CrcByte /\ hostCrc \in CrcByte
  BY DEF HostTurn, CrcInv, CrcTypeOK
<1>2. PICK q \in SUBSET (0..(turn - 1)) : xor(shl(input, turn), hostCrc) = clmul(q, Generator)
  BY DEF CrcInv
<1> DEFINE r == NextQuotient(q, hostCrc)
<1>3. r \in SUBSET (0..turn) /\ xor(shl(input, turn + 1), HostShift(hostCrc)) = clmul(r, Generator)
  BY <1>1, <1>2, TurnDivides
<1>4. r \in SUBSET (0..(turn' - 1)) /\ xor(shl(input, turn)', hostCrc') = clmul(r, Generator)
  BY <1>1, <1>3
<1>5. CrcTypeOK'
  BY <1>1, ShiftBits DEF CrcInv, CrcTypeOK
<1> HIDE DEF r
<1> QED BY <1>1, <1>4, <1>5 DEF CrcInv

\* A call: both start from the same value.
LEMMA CallKeeps == ASSUME NEW data \in Data PROVE CrcInv /\ crc8(data) => CrcInv'
<1> SUFFICES ASSUME CrcInv, crc8(data) PROVE CrcInv'
  OBVIOUS
<1> DEFINE x == xor(hostCrc, data)
<1>1. data \in CrcByte /\ hostCrc \in CrcByte /\ targetCrc \in CrcByte
  BY DataAssumption DEF CrcInv, CrcTypeOK
<1>2. x \in CrcByte /\ xor(targetCrc, data) \in CrcByte
  BY <1>1 DEF xor, CrcByte
<1>3. poly = "none" => targetCrc = hostCrc
  BY CrcInvRight DEF crc8, CrcRight
<1>4. poly = "none" => TargetStep(x) = Remainder(x)
  BY DEF TargetStep, Remainder, Top
<1>5. \A y : TargetStep(y) \in CrcByte
  BY DEF TargetStep, CrcByte
<1>6. /\ turn' = 0 /\ input' = x /\ hostCrc' = x /\ poly' = poly
      /\ targetCrc' = TargetStep(xor(targetCrc, data))
  BY DEF crc8
<1> HIDE DEF x
<1>7. CrcTypeOK'
  BY <1>2, <1>5, <1>6 DEF CrcInv, CrcTypeOK
<1>8. xor(shl(x, 0), x) = clmul({}, Generator) /\ {} \in SUBSET (0..(turn' - 1))
  <2>1. {} \in SUBSET Int /\ x \in SUBSET Int
    BY <1>2 DEF CrcByte
  <2>2. clmul({}, Generator) = {}
    BY <2>1, ProductBits DEF Odd3, Odd4, clmul
  <2>3. shl(x, 0) = x
    BY <2>1 DEF shl
  <2> QED BY <2>2, <2>3 DEF xor
<1>9. poly' = "none" => targetCrc' = Remainder(input')
  BY <1>3, <1>4, <1>6 DEF x
<1> QED BY <1>6, <1>7, <1>8, <1>9 DEF CrcInv

\* Nothing else changes the registers.
LEMMA CrcInvariant == CrcSpec => []CrcInv
<1>1. CrcInv /\ [CrcNext]_crcVars => CrcInv'
  <2> SUFFICES ASSUME CrcInv, [CrcNext]_crcVars PROVE CrcInv'
    OBVIOUS
  <2>1. CASE UNCHANGED crcVars
    BY <2>1 DEF crcVars, CrcInv, CrcTypeOK
  <2> QED BY <2>1, TurnKeeps, CallKeeps DEF CrcNext
<1> QED BY <1>1, CrcInitInv, PTL DEF CrcSpec

\* Both implementations of crc8 compute the remainder of the message times x^8
\* modulo x^8 + x^2 + x + 1, whatever the bytes; the target only if poly has a
\* register of its own.
THEOREM CrcIsRight == CrcSpec => []CrcRight
BY CrcInvariant, CrcInvRight, PTL

----------------------------------------------------------------------------
\* Types.

\* Flags, apart from the numbers.
MciFlags ==
    /\ resetRequest \in BOOLEAN /\ wanted \in BOOLEAN
    /\ enabled \in BOOLEAN /\ expired \in BOOLEAN /\ fresh \in BOOLEAN

MciSets ==
    /\ notif \subseteq Notifs /\ current \subseteq Notifs /\ dropped \subseteq Notifs
    /\ handler \in {"idle", "modify", "clear", "request"}
    /\ written \subseteq {"MCU_NMI_VECTOR", "SS_CONFIG_DONE"}

\* Flags stay flags.
LEMMA MciFlagsKept == MciFlags /\ [MciNext]_mciVars => MciFlags'
<1> SUFFICES ASSUME MciFlags, [MciNext]_mciVars PROVE MciFlags'
  OBVIOUS
<1> USE DEF MciFlags, wdtVars, notifVars
<1>1. CASE HandlerReads \/ ModifyReads \/ ModifyWrites \/ RequestReset \/ trigger_warm_reset
  BY <1>1, Zenon DEF HandlerReads, ModifyReads, ModifyWrites, RequestReset, trigger_warm_reset
<1>2. ASSUME NEW bits, write_notif0_intr_trig_r(bits) PROVE MciFlags'
  BY <1>2, Zenon DEF write_notif0_intr_trig_r
<1>3. ASSUME NEW p, configure_wdt(p) PROVE MciFlags'
  BY <1>3, Zenon DEF configure_wdt
<1>4. CASE ConfigureStep \/ disable_wdt \/ write_wdt_timer1_en
  BY <1>4, Zenon DEF ConfigureStep, disable_wdt, write_wdt_timer1_en
<1>5. CASE set_nmi_vector \/ set_ss_config_done
  BY <1>5, Zenon DEF set_nmi_vector, set_ss_config_done, SetRegister
<1>6. ASSUME NEW n, Notify(n) PROVE MciFlags'
  BY <1>6, Zenon DEF Notify
<1>7. CASE Tick
  BY <1>7, Zenon DEF Tick
<1>8. CASE McuReset
  BY <1>8, Zenon DEF McuReset
<1>9. CASE UNCHANGED mciVars
  BY <1>9, Zenon DEF mciVars
<1> QED BY <1>1, <1>2, <1>3, <1>4, <1>5, <1>6, <1>7, <1>8, <1>9 DEF MciNext

\* Only notifications that exist are raised, read and cleared.
LEMMA MciSetsKept == MciSets /\ [MciNext]_mciVars => MciSets'
<1> SUFFICES ASSUME MciSets, [MciNext]_mciVars PROVE MciSets'
  OBVIOUS
<1> USE DEF MciSets, notifVars
<1>1. CASE HandlerReads \/ ModifyReads \/ ModifyWrites \/ RequestReset \/ trigger_warm_reset
  BY <1>1 DEF HandlerReads, ModifyReads, ModifyWrites, RequestReset, trigger_warm_reset
<1>2. ASSUME NEW bits \in SUBSET OtherNotifs, write_notif0_intr_trig_r(bits) PROVE MciSets'
  BY <1>2 DEF write_notif0_intr_trig_r, Notifs
<1>3. ASSUME NEW p, configure_wdt(p) PROVE MciSets'
  BY <1>3 DEF configure_wdt
<1>4. CASE ConfigureStep \/ disable_wdt \/ write_wdt_timer1_en \/ Tick
  BY <1>4 DEF ConfigureStep, disable_wdt, write_wdt_timer1_en, Tick
<1>5. CASE set_nmi_vector \/ set_ss_config_done
  BY <1>5 DEF set_nmi_vector, set_ss_config_done, SetRegister
<1>6. ASSUME NEW n \in Notifs, Notify(n) PROVE MciSets'
  BY <1>6 DEF Notify
<1>7. CASE McuReset
  BY <1>7 DEF McuReset
<1>8. CASE UNCHANGED mciVars
  BY <1>8 DEF mciVars
<1> QED BY <1>1, <1>2, <1>3, <1>4, <1>5, <1>6, <1>7, <1>8 DEF MciNext

\* Registers, handler and timer of MCI keep their types, for any notifications
\* and periods; the numbers are part of WdtInv.
THEOREM MciTypes == MciSpec => []MciTypeOK
<1>1. MciInit => MciFlags /\ MciSets
  BY DEF MciInit, MciFlags, MciSets
<1>2. MciFlags /\ MciSets /\ WdtInv => MciTypeOK
  <2> SUFFICES ASSUME MciFlags, MciSets, WdtInv PROVE MciTypeOK
    OBVIOUS
  <2>1. {resetRequest, wanted, enabled, expired, fresh} \subseteq BOOLEAN
    BY Zenon DEF MciFlags
  <2>2. {period0, period1, count, age, asked} \subseteq 0..MaxTicks /\ wdtPc \in 0..6
    BY DEF WdtInv, WdtTypeOK
  <2> QED BY <2>1, <2>2 DEF MciTypeOK, MciSets
<1> QED BY <1>1, <1>2, WdtInit, WdtInductive, MciFlagsKept, MciSetsKept, PTL DEF MciSpec

\* An access of FlashMemory keeps to addresses of 32 bits and to the results
\* it documents, also when the interface reads less than asked for.
THEOREM FlashTypes == FlashSpec => []FlashTypeOK
<1> USE DEF FlashTypeOK
<1>1. FlashInit => FlashTypeOK
  BY FlashAssumption DEF FlashInit, Offsets
<1>2. FlashTypeOK /\ [FlashNext]_flashVars => FlashTypeOK'
  <2> SUFFICES ASSUME FlashTypeOK, [FlashNext]_flashVars PROVE FlashTypeOK'
    OBVIOUS
  <2>1. ASSUME NEW name \in {"read_word", "read"}, NEW o \in Offsets,
               NEW n \in Lengths \cup {0, 4}, Access(name, o, n)
        PROVE  FlashTypeOK'
    <3>1. Add32(base_address, o) \in Offsets
      BY FlashAssumption DEF Add32, Offsets
    <3> QED BY <2>1, <3>1 DEF Access
  <2>2. ASSUME NEW o \in Offsets, NEW n \in Lengths, read_word(o) \/ flash_read(o, n)
        PROVE  FlashTypeOK'
    BY <2>1, <2>2 DEF read_word, flash_read
  <2>3. CASE HilFails
    BY <2>3 DEF HilFails
  <2>4. ASSUME NEW n \in Lengths \cup 0..4, HilReads(n) PROVE FlashTypeOK'
    <3>1. n \in Nat
      BY FlashAssumption
    <3> QED BY <2>4, <3>1 DEF HilReads
  <2>5. CASE UNCHANGED flashVars
    BY <2>5 DEF flashVars
  <2> QED BY <2>2, <2>3, <2>4, <2>5 DEF FlashNext
<1> QED BY <1>1, <1>2, PTL DEF FlashSpec

\* No index a caller passes makes write_transition_token write outside the
\* token, for any tokens, indices and register values.
THEOREM LifecycleTypes == LcSpec => []LcTypeOK
<1> USE DEF LcTypeOK, TRANSITION_TOKEN_COUNT
<1>1. LcInit => LcTypeOK
  BY LifecycleAssumption DEF LcInit
<1>2. LcTypeOK /\ [LcNext]_lcVars => LcTypeOK'
  <2> SUFFICES ASSUME LcTypeOK, [LcNext]_lcVars PROVE LcTypeOK'
    OBVIOUS
  <2>1. ASSUME NEW i \in TokenIndices, NEW v \in TokenWords, write_transition_token(i, v)
        PROVE  LcTypeOK'
    BY <2>1, LifecycleAssumption DEF write_transition_token
  <2>2. ASSUME NEW target \in Encodings, request_transition(target) PROVE LcTypeOK'
    BY <2>2 DEF request_transition
  <2>3. ASSUME NEW raw \in RawStates, LifecycleMoves(raw) PROVE LcTypeOK'
    BY <2>3, LifecycleAssumption DEF LifecycleMoves
  <2>4. CASE UNCHANGED lcVars
    BY <2>4 DEF lcVars
  <2> QED BY <2>1, <2>2, <2>3, <2>4 DEF LcNext
<1> QED BY <1>1, <1>2, PTL DEF LcSpec

----------------------------------------------------------------------------
\* The composition the run checks: a step of it is a step of one component and
\* leaves the others alone.

LEMMA PlatformSteps ==
    [PlatformNext]_platformVars =>
        /\ [I3cNext]_i3cVars /\ [MciNext]_mciVars /\ [FlashNext]_flashVars
        /\ [DelayNext]_delayVars /\ [LibcNext]_libcVars /\ [StartNext]_startVars
        /\ [CrcNext]_crcVars /\ [LcNext]_lcVars
<1>1. CASE UNCHANGED platformVars
  BY <1>1 DEF platformVars
<1>2. CASE PlatformNext
  BY <1>2 DEF PlatformNext, Rest, On, At
<1> QED BY <1>1, <1>2

\* Types of the whole platform, for every value of its constants.
THEOREM PlatformTypes == PlatformSpec => []PlatformTypeOK
<1>1. PlatformInit => /\ I3cInit /\ MciInit /\ FlashInit /\ DelayInit /\ LibcInit
                      /\ StartInit /\ CrcInit /\ LcInit
  BY DEF PlatformInit
<1>2. /\ I3cInv => I3cTypeOK
      /\ DelayInv => DelayTypeOK
      /\ LibcInv => LibcTypeOK
      /\ StartInv => StartTypeOK
      /\ CrcInv => CrcTypeOK
  BY DEF I3cInv, DelayInv, LibcInv, StartInv, CrcInv
<1>3. (I3cTypeOK /\ MciTypeOK /\ FlashTypeOK /\ DelayTypeOK /\ LibcTypeOK /\ StartTypeOK
         /\ CrcTypeOK /\ LcTypeOK) => PlatformTypeOK
  BY DEF PlatformTypeOK
<1>4. PlatformSpec => PlatformInit /\ [][PlatformNext]_platformVars
  BY PTL DEF PlatformSpec
<1>5. PlatformSpec => []I3cTypeOK /\ []DelayTypeOK
  BY <1>1, <1>2, <1>4, PlatformSteps, I3cInvariant, DelayInvariant, PTL
<1>6. PlatformSpec => []LibcTypeOK /\ []StartTypeOK
  BY <1>1, <1>2, <1>4, PlatformSteps, LibcInvariant, StartInvariant, PTL DEF LibcSpec, StartSpec
<1>7. PlatformSpec => []MciTypeOK /\ []FlashTypeOK
  BY <1>1, <1>4, PlatformSteps, MciTypes, FlashTypes, PTL DEF MciSpec, FlashSpec
<1>8. PlatformSpec => []CrcTypeOK /\ []LcTypeOK
  BY <1>1, <1>2, <1>4, PlatformSteps, CrcInvariant, LifecycleTypes, PTL DEF CrcSpec, LcSpec
<1> QED BY <1>3, <1>5, <1>6, <1>7, <1>8, PTL

\* No component loses a promise by running beside the others: each invariant
\* the composition is checked for holds for every value of the constants.
THEOREM PlatformPromises ==
    PlatformSpec => [](/\ TransfersFaithful /\ LibcRight /\ ImageInPlace
                       /\ ResetRequestNotLost /\ WatchdogOnTime /\ CrcRight)
<1>1. PlatformInit => I3cInit /\ MciInit /\ LibcInit /\ StartInit /\ CrcInit
  BY DEF PlatformInit
<1>2. PlatformSpec => PlatformInit /\ [][PlatformNext]_platformVars
  BY PTL DEF PlatformSpec
<1>3. PlatformSpec => []TransfersFaithful
  BY <1>1, <1>2, PlatformSteps, I3cInvariant, I3cFaithful, PTL
<1>4. PlatformSpec => []LibcRight /\ []ImageInPlace
  BY <1>1, <1>2, PlatformSteps, LibcIsRight, ImageIsInPlace, PTL DEF LibcSpec, StartSpec
<1>5. PlatformSpec => []ResetRequestNotLost /\ []WatchdogOnTime
  BY <1>1, <1>2, PlatformSteps, ResetNotLost, WatchdogIsOnTime, PTL DEF MciSpec
<1>6. PlatformSpec => []CrcRight
  BY <1>1, <1>2, PlatformSteps, CrcIsRight, PTL DEF CrcSpec
<1> QED BY <1>3, <1>4, <1>5, <1>6, PTL
=============================================================================
