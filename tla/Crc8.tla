-------------------------------- MODULE Crc8 --------------------------------
(***************************************************************************)
(* The two implementations of platform_crc8, run over the same bytes: the   *)
(* bit loop of the host and the carry-less multiplications of the target.   *)
(* The reference is polynomial division by x^8 + x^2 + x + 1.  A register   *)
(* is the set of its bits that are 1, which is also the polynomial it       *)
(* stands for.                                                              *)
(*                                                                         *)
(* The outputs of the target's asm statement are not marked early-clobber:  *)
(* the compiler may give a or tmp the register of poly, which the last      *)
(* instruction still reads.  Which it does is chosen once, as by a build.   *)
(***************************************************************************)
EXTENDS Integers, FiniteSets

CONSTANT Data   \* bytes of the message

CrcByte == SUBSET (0..7)

ASSUME DataAssumption == Data \subseteq CrcByte

VARIABLES
    hostCrc, targetCrc,
    turn,     \* turns the loop of the host has made; 8: it has returned
    input,    \* ghost: crc ^ data of the last call
    poly      \* output that shares the register of poly: "none", "a" or "tmp"

crcVars == <<hostCrc, targetCrc, turn, input, poly>>

CrcTypeOK ==
    /\ hostCrc \in CrcByte /\ targetCrc \in CrcByte /\ input \in CrcByte
    /\ turn \in 0..8
    /\ poly \in {"none", "a", "tmp"}

CrcInit ==
    /\ hostCrc = {} /\ targetCrc = {} /\ input = {} /\ turn = 8
    /\ poly \in {"none", "a", "tmp"}

----------------------------------------------------------------------------

POLYNOMIAL == {0, 1, 2}   \* 0x07

xor(a, b) == (a \ b) \cup (b \ a)
shl(a, n) == {i + n : i \in a}
shr(a, n) == {i - n : i \in {j \in a : j >= n}}

\* Mutant: the polynomial is added whatever the bit shifted out.
HostShift_unconditional(c) == xor(shl(c, 1) \cap (0..7), POLYNOMIAL)

\* One turn of the loop.
HostShift(c) ==
    xor(shl(c, 1) \cap (0..7), IF 7 \in c THEN POLYNOMIAL ELSE {})

HostTurn ==
    /\ turn < 8
    /\ hostCrc' = HostShift(hostCrc) /\ turn' = turn + 1
    /\ UNCHANGED <<targetCrc, input, poly>>

\* The carry-less product of two registers (instruction clmul): a bit is set
\* when an odd number of pairs of bits adds up to it.
clmul(p, q) == {k \in 0..31 : Cardinality({i \in p : k - i \in q}) % 2 = 1}

TargetStep(x) ==
    LET a      == clmul(x, POLYNOMIAL)
        tmp    == shr(a, 8)
        factor == CASE poly = "none" -> POLYNOMIAL [] poly = "a" -> a [] poly = "tmp" -> tmp
    IN  xor(a, clmul(tmp, factor)) \cap (0..7)

\* The call of both; the target has no loop.
crc8(data) ==
    /\ turn = 8 /\ turn' = 0
    /\ input' = xor(hostCrc, data) /\ hostCrc' = xor(hostCrc, data)
    /\ targetCrc' = TargetStep(xor(targetCrc, data))
    /\ UNCHANGED poly

CrcNext == HostTurn \/ \E data \in Data : crc8(data)

CrcSpec == CrcInit /\ [][CrcNext]_crcVars

----------------------------------------------------------------------------
\* Properties.

\* x^8 + x^2 + x + 1, and its multiples of degree below 16.
Generator == POLYNOMIAL \cup {8}
Multiples == {clmul(q, Generator) : q \in CrcByte}

\* After every byte of every message the CRC is the remainder of the input,
\* times x^8, and the target computes the same as the host (if the compiler
\* keeps poly in a register of its own).
CrcRight ==
    turn = 8 =>
        /\ xor(shl(input, 8), hostCrc) \in Multiples
        /\ poly = "none" => targetCrc = hostCrc
=============================================================================
