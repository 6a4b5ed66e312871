------------------------------- MODULE Support -------------------------------
(***************************************************************************)
(* Pure routines the drivers share: the mailbox checksum in its two forms   *)
(* (calc_checksum for requests, verify_checksum for responses), hexadecimal *)
(* output, and the error codes.  Words are numbers below WordMod (2^32); a  *)
(* command or a word to print is given by its four bytes, lowest first.     *)
(***************************************************************************)
EXTENDS Integers, Sequences

CONSTANT WordMod    \* 2^32

ASSUME WordAssumption == WordMod \in Nat /\ WordMod > 1

Byte == 0..255

----------------------------------------------------------------------------
\* The checksum.

\* Unsigned words: operands are words, the result is reduced once.
Wrap(n)       == IF n >= WordMod THEN n - WordMod ELSE n
Subtract(a, b) == IF a >= b THEN a - b ELSE a - b + WordMod
Complement(a) == WordMod - 1 - a

\* The running sum after the bytes of a sequence.
SumOf(bytes) ==
    LET sum[n \in Nat] == IF n = 0 THEN 0 ELSE (sum[n - 1] + bytes[n]) % WordMod
    IN  sum[Len(bytes)]

calc_checksum(cmd, payload) == Wrap(Complement(SumOf(cmd \o payload)) + 1)

\* checksum_ is the sum over the words read, expected_checksum_ the first word.
verify_checksum(checksum, expected_checksum) ==
    Subtract(0, checksum) = expected_checksum

----------------------------------------------------------------------------
\* Hexadecimal output, as character codes.

HexDigit(c) == IF c < 10 THEN 48 + c ELSE 65 + c - 10

HexByte(x) == <<HexDigit(x \div 16), HexDigit(x % 16)>>

HexBytes(data) ==
    [i \in 1..(2 * Len(data)) |-> HexByte(data[(i + 1) \div 2])[2 - (i % 2)]]

\* The highest byte first.
HexWord(value) == HexBytes(<<value[4], value[3], value[2], value[1]>>)

----------------------------------------------------------------------------
\* Error codes.

McuError ==
    [SUCCESS |-> 0,
     GENERIC_EXCEPTION |-> 1, INVALID_PARAMETER |-> 2, TIMEOUT |-> 3, NOT_SUPPORTED |-> 4,
     LC_INVALID_STATE |-> 256, LC_TRANSITION_FAILED |-> 257,
     OTP_READ_ERROR |-> 512, OTP_WRITE_ERROR |-> 513, OTP_LOCKED |-> 514,
     FLASH_READ_ERROR |-> 768, FLASH_WRITE_ERROR |-> 769, FLASH_ERASE_ERROR |-> 770,
     FLASH_INVALID_ADDRESS |-> 771,
     IMAGE_INVALID_SIGNATURE |-> 1024, IMAGE_INVALID_MANIFEST |-> 1025,
     IMAGE_VERIFICATION_FAILED |-> 1026,
     MBOX_LOCK_FAILED |-> 1280, MBOX_TIMEOUT |-> 1281, MBOX_CMD_FAILED |-> 1282,
     MBOX_INVALID_RESPONSE |-> 1283,
     I3C_INIT_FAILED |-> 1536, I3C_TRANSFER_FAILED |-> 1537,
     BOOT_FAILED |-> 1792, BOOT_INVALID_RESET_REASON |-> 1793]

----------------------------------------------------------------------------
\* Properties.

\* The value a hexadecimal digit stands for.
DigitValue(d) == IF d \in 48..57 THEN d - 48 ELSE d - 55

\* A byte can be read back from the two characters printed for it, and they
\* are digits (HexBytes::print_to).
HexReadsBack(x) ==
    LET h == HexByte(x) IN
    /\ h[1] \in 48..57 \cup 65..70 /\ h[2] \in 48..57 \cup 65..70
    /\ DigitValue(h[1]) * 16 + DigitValue(h[2]) = x

\* verify_checksum accepts exactly the words that close the sum to a multiple
\* of the word size, 0 included.
AcceptsClosedSums(sum, expected) ==
    verify_checksum(sum, expected) <=> sum + expected \in {0, WordMod}

\* The two negations, ~s + 1 when sending and 0 - s when receiving, agree.
NegationsAgree(sum) == Wrap(Complement(sum) + 1) = Subtract(0, sum)

\* No two errors share a code, and 0 stays the absence of one.
CodesDistinct ==
    \A e, f \in DOMAIN McuError : McuError[e] = McuError[f] => e = f
=============================================================================
