----------------------------- MODULE MCPlatform -----------------------------
(***************************************************************************)
(* Small instances of the peripheral drivers and support routines.  They    *)
(* share no state and the MCU calls one at a time, so a behaviour is about  *)
(* one of them, named by unit, and the others stand still: what is checked  *)
(* is each module's own specification.                                      *)
(***************************************************************************)
EXTENDS I3c, MciControl, FlashMemory, Delay, Libc, StartUp, Crc8, Lifecycle,
        Support, MemoryMap

VARIABLE unit

Units == {"i3c", "mci", "flash", "delay", "libc", "startup", "crc8", "lifecycle"}

\* The initial states of the idle units are fixed, not to be multiplied.
Idle == /\ unit # "mci"       => period1 = 0
        /\ unit # "delay"     => cycle = 0
        /\ unit # "startup"   => layout = [text |-> 8, data |-> 0, bss |-> 0]
        /\ unit # "crc8"      => poly = "none"
        /\ unit # "lifecycle" => rawState = 0

PlatformInit ==
    /\ unit \in Units
    /\ I3cInit /\ MciInit /\ FlashInit /\ DelayInit /\ LibcInit /\ StartInit /\ CrcInit
    /\ LcInit
    /\ Idle

At(u) == unit = u /\ UNCHANGED unit
On(u, v) == IF unit = u THEN TRUE ELSE UNCHANGED v

Rest ==
    /\ On("i3c", i3cVars) /\ On("mci", mciVars) /\ On("flash", flashVars)
    /\ On("delay", delayVars) /\ On("libc", libcVars) /\ On("startup", startVars)
    /\ On("crc8", crcVars) /\ On("lifecycle", lcVars)

PlatformNext ==
    /\ \/ At("i3c") /\ I3cNext
       \/ At("mci") /\ MciNext
       \/ At("flash") /\ FlashNext
       \/ At("delay") /\ DelayNext
       \/ At("libc") /\ LibcNext
       \/ At("startup") /\ StartNext
       \/ At("crc8") /\ CrcNext
       \/ At("lifecycle") /\ LcNext
    /\ Rest

platformVars == <<unit, i3cVars, mciVars, flashVars, delayVars, libcVars, startVars,
                  crcVars, lcVars>>

PlatformSpec ==
    /\ PlatformInit /\ [][PlatformNext]_platformVars
    /\ SF_i3cVars(At("i3c") /\ I3cTransfer /\ Rest)
    /\ WF_i3cVars(At("i3c") /\ HandlerClears /\ Rest)
    /\ WF_i3cVars(At("i3c") /\ PeerTakes /\ Rest)
    /\ WF_i3cVars(At("i3c") /\ PeerSends /\ Rest)
    /\ WF_delayVars(At("delay") /\ DelayStep /\ Rest)

----------------------------------------------------------------------------

\* The type invariants of the modules.
PlatformTypeOK ==
    /\ I3cTypeOK /\ MciTypeOK /\ FlashTypeOK /\ DelayTypeOK /\ LibcTypeOK /\ StartTypeOK
    /\ CrcTypeOK /\ LcTypeOK

\* Facts about operators, for every input of the instance.

\* Every value of the low byte of the state register.
ASSUME LifecycleViewsAgree == \A raw \in 0..255 : ViewsAgree(raw)

\* Commands and payloads of bytes 0, 1 and 7, in words of three bits.
ASSUME ChecksumsClose ==
    LET bytes == {0, 1, 7}
        cmds  == [1..4 -> {0, 7}]
        loads == [1..3 -> bytes] \cup {<<>>}
    IN  /\ \A c \in cmds, p \in loads : verify_checksum(SumOf(c \o p), calc_checksum(c, p))
        /\ \A a, e \in 0..(WordMod - 1) : AcceptsClosedSums(a, e) /\ NegationsAgree(a)

\* Every byte, and the order of the bytes of a word: 0x0F A1 30 FF.
ASSUME HexRight ==
    /\ \A x \in Byte : HexReadsBack(x)
    /\ HexWord(<<255, 48, 161, 15>>) = <<48, 70, 65, 49, 51, 48, 70, 70>>

ASSUME RegionRight == \A a \in Offsets : ContainsAgrees(a)

ASSUME TablesRight == CodesDistinct /\ RegistersDisjoint

\* The waits without a timeout end: I3C transfers with a peer that responds,
\* and delays.
WaitsEnd == TransferEnds /\ DelayEnds
=============================================================================
