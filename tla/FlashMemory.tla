----------------------------- MODULE FlashMemory -----------------------------
(***************************************************************************)
(* Class FlashMemory: a region of flash behind the FlashHil interface.      *)
(* Addresses, offsets and lengths are unsigned numbers below AddressSpace   *)
(* (2^32), so the sums in the bounds checks wrap.  FlashHil is an interface *)
(* (external): it fails, reads less than asked for, or reads it all.        *)
(***************************************************************************)
EXTENDS Integers

CONSTANTS AddressSpace,  \* 2^32
          base_address,  \* base_address_
          FlashSize,     \* size_
          Lengths        \* lengths callers pass to read

ASSUME FlashAssumption ==
    /\ AddressSpace \in Nat \ {0}
    /\ base_address \in 0..(AddressSpace - 1)
    /\ FlashSize \in 0..(AddressSpace - 1)
    /\ base_address + FlashSize <= AddressSpace
    /\ Lengths \subseteq 0..(AddressSpace - 1)

VARIABLES
    flashOp,     \* "none", "read_word" or "read": waiting for the HIL
    flashOff,    \* offset argument
    flashLen,    \* length argument; 4 for read_word
    hilAddr,     \* address passed to the HIL
    flashRet,    \* result of the last call
    filled       \* bytes of the caller's buffer or of the word that were read

flashVars == <<flashOp, flashOff, flashLen, hilAddr, flashRet, filled>>

Offsets == 0..(AddressSpace - 1)

FlashTypeOK ==
    /\ flashOp \in {"none", "read_word", "read"}
    /\ flashOff \in Offsets
    /\ flashLen \in Lengths \cup {0, 4}
    /\ hilAddr \in Offsets
    /\ flashRet \in {"none", "OK", "FLASH_INVALID_ADDRESS", "HIL_ERROR"}
    /\ filled \in Nat

FlashInit ==
    /\ flashOp = "none" /\ flashOff = 0 /\ flashLen = 0 /\ hilAddr = 0
    /\ flashRet = "none" /\ filled = 0

----------------------------------------------------------------------------

Add32(a, b) == (a + b) % AddressSpace

contains(address) ==
    address >= base_address /\ address < Add32(base_address, FlashSize)

to_flash_offset(address) == (address - base_address) % AddressSpace

Access(name, offset, len) ==
    /\ flashOp = "none"
    /\ flashOff' = offset /\ flashLen' = len /\ filled' = 0
    /\ IF Add32(offset, len) > FlashSize
       THEN flashRet' = "FLASH_INVALID_ADDRESS" /\ UNCHANGED <<flashOp, hilAddr>>
       ELSE /\ flashOp' = name /\ flashRet' = "none"
            /\ hilAddr' = Add32(base_address, offset)

read_word(offset) == Access("read_word", offset, 4)

flash_read(offset, len) == Access("read", offset, len)

HilFails ==
    /\ flashOp # "none"
    /\ flashOp' = "none" /\ flashRet' = "HIL_ERROR"
    /\ UNCHANGED <<flashOff, flashLen, hilAddr, filled>>

\* read returns the count it got; read_word does not look at it and returns a
\* word of four bytes, whose rest is whatever the stack held.
HilReads(n) ==
    /\ flashOp # "none" /\ n <= flashLen
    /\ flashOp' = "none" /\ flashRet' = "OK" /\ filled' = n
    /\ UNCHANGED <<flashOff, flashLen, hilAddr>>

FlashNext ==
    \/ \E o \in Offsets, n \in Lengths : read_word(o) \/ flash_read(o, n)
    \/ HilFails
    \/ \E n \in Lengths \cup 0..4 : HilReads(n)

FlashSpec == FlashInit /\ [][FlashNext]_flashVars

----------------------------------------------------------------------------
\* Properties.

\* "Memory-mapped flash region", with FLASH_INVALID_ADDRESS for what lies
\* outside: every byte the HIL is asked for lies in the region.  False, because
\* the sum of the bounds check wraps for an offset near 2^32.
ReadsInsideRegion ==
    flashOp # "none" => /\ base_address <= hilAddr
                        /\ hilAddr + flashLen <= base_address + FlashSize

\* contains accepts an address exactly when it translates to an offset in the
\* region (a region that ends at 2^32, whose end wraps to 0, contains none).
ContainsAgrees(a) == contains(a) <=> to_flash_offset(a) < FlashSize
=============================================================================
