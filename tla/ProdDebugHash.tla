---------------------------- MODULE ProdDebugHash ----------------------------
(***************************************************************************)
(* verify_prod_debug_unlock_pk_hash compares the hash registers of MCI, word*)
(* by word, with the OTP.  An OTP read may fail; the registers can be       *)
(* written by other agents until SS_CONFIG_DONE_STICKY freezes them, also   *)
(* between two words.  A mismatch is accumulated and only reported at the   *)
(* end.                                                                     *)
(*                                                                         *)
(* In the code ExpectedLen is 96 and PK_HASH_REG_COUNT is 12, so the length *)
(* check always fails and what comes after it never runs.                   *)
(***************************************************************************)
EXTENDS Integers

CONSTANTS NumHashes,          \* hashes in the OTP (8)
          WordsPerHash,       \* words of a hash (12)
          ExpectedLen,        \* length the verification expects (96)
          PK_HASH_REG_COUNT,  \* registers Mci knows (12)
          HashWords,          \* values of a word
          OtpHash             \* the words in the OTP, by byte address

HashBase(h) == 124 + h * 4 * WordsPerHash
HashAddresses == {HashBase(h) + 4 * w : h \in 0..(NumHashes - 1), w \in 0..(WordsPerHash - 1)}

ASSUME HashAssumption ==
    /\ NumHashes \in Nat \ {0} /\ WordsPerHash \in Nat \ {0}
    /\ ExpectedLen = NumHashes * WordsPerHash /\ PK_HASH_REG_COUNT \in Nat
    /\ 0 \in HashWords
    /\ OtpHash \in [HashAddresses -> HashWords]

VARIABLES
    hashReg,      \* PROD_DEBUG_UNLOCK_PK_HASH registers of MCI
    hashSticky,   \* SS_CONFIG_DONE_STICKY
    hashPc,       \* "idle", "length", "otp" or "reg": what is read next
    hashIdx,      \* hash_idx
    wordIdx,      \* word_idx
    expected,     \* expected_result.value()
    mismatch,     \* mismatch
    hashRet,      \* result of the last verification
    hashFrozen,   \* ghost: the sticky bit was set when it began
    otpFailed     \* ghost: an OTP read of it failed

hashVars == <<hashReg, hashSticky, hashPc, hashIdx, wordIdx, expected, mismatch,
              hashRet, hashFrozen, otpFailed>>

HashRegs == 0..(PK_HASH_REG_COUNT - 1)
\* The word of the OTP a register stands for.
OtpWord(r) == OtpHash[HashBase(r \div WordsPerHash) + 4 * (r % WordsPerHash)]
Compared == 0..(NumHashes * WordsPerHash - 1)

HashTypeOK ==
    /\ hashReg \in [HashRegs -> HashWords]
    /\ hashPc \in {"idle", "length", "otp", "reg"}
    /\ hashIdx \in 0..NumHashes /\ wordIdx \in 0..(WordsPerHash - 1)
    /\ expected \in HashWords
    /\ {hashSticky, mismatch, hashFrozen, otpFailed} \subseteq BOOLEAN
    /\ hashRet \in {"none", "OK", "OTP_READ_ERROR"}

HashInit ==
    /\ hashReg = [r \in HashRegs |-> 0]
    /\ hashSticky = FALSE /\ hashPc = "idle" /\ hashIdx = 0 /\ wordIdx = 0
    /\ expected = 0 /\ mismatch = FALSE /\ hashRet = "none"
    /\ hashFrozen = FALSE /\ otpFailed = FALSE

----------------------------------------------------------------------------

read_prod_debug_unlock_pk_hash(index) == IF index \in HashRegs THEN hashReg[index] ELSE 0

verify_prod_debug_unlock_pk_hash ==
    /\ hashPc = "idle"
    /\ hashPc' = "length" /\ hashIdx' = 0 /\ wordIdx' = 0 /\ mismatch' = FALSE
    /\ hashRet' = "none" /\ hashFrozen' = hashSticky /\ otpFailed' = FALSE
    /\ UNCHANGED <<hashReg, hashSticky, expected>>

HashReturns(r) == hashPc' = "idle" /\ hashRet' = r

prod_debug_unlock_pk_hash_len == PK_HASH_REG_COUNT

CheckLength ==
    /\ hashPc = "length"
    /\ IF prod_debug_unlock_pk_hash_len # ExpectedLen THEN HashReturns("OTP_READ_ERROR")
       ELSE hashPc' = "otp" /\ UNCHANGED hashRet
    /\ UNCHANGED <<hashReg, hashSticky, hashIdx, wordIdx, expected, mismatch,
                   hashFrozen, otpFailed>>

\* Head of the loops: the next word of the OTP, or the verdict.
ReadOtpWord ==
    /\ hashPc = "otp" /\ hashIdx < NumHashes
    /\ \/ /\ expected' = OtpHash[HashBase(hashIdx) + 4 * wordIdx]
          /\ hashPc' = "reg" /\ UNCHANGED <<hashRet, otpFailed>>
       \/ /\ HashReturns("OTP_READ_ERROR") /\ otpFailed' = TRUE /\ UNCHANGED expected
    /\ UNCHANGED <<hashReg, hashSticky, hashIdx, wordIdx, mismatch, hashFrozen>>

\* Mutant: the loop over the words of a hash goes one too far.
NextHashWord_too_far ==
    IF wordIdx < WordsPerHash THEN wordIdx' = wordIdx + 1 /\ UNCHANGED hashIdx
    ELSE wordIdx' = 0 /\ hashIdx' = hashIdx + 1

NextHashWord ==
    IF wordIdx + 1 < WordsPerHash THEN wordIdx' = wordIdx + 1 /\ UNCHANGED hashIdx
    ELSE wordIdx' = 0 /\ hashIdx' = hashIdx + 1

CompareWord ==
    /\ hashPc = "reg"
    /\ mismatch' = (mismatch \/
          expected # read_prod_debug_unlock_pk_hash(hashIdx * WordsPerHash + wordIdx))
    /\ hashPc' = "otp" /\ NextHashWord
    /\ UNCHANGED <<hashReg, hashSticky, expected, hashRet, hashFrozen, otpFailed>>

Verdict ==
    /\ hashPc = "otp" /\ hashIdx = NumHashes
    /\ HashReturns(IF mismatch THEN "OTP_READ_ERROR" ELSE "OK")
    /\ UNCHANGED <<hashReg, hashSticky, hashIdx, wordIdx, expected, mismatch,
                   hashFrozen, otpFailed>>

----------------------------------------------------------------------------
\* Other agents fill in the registers and set the sticky bit (external).
WriteHashReg(r, w) ==
    /\ ~hashSticky
    /\ hashReg' = [hashReg EXCEPT ![r] = w]
    /\ UNCHANGED <<hashSticky, hashPc, hashIdx, wordIdx, expected, mismatch,
                   hashRet, hashFrozen, otpFailed>>

FreezeHash ==
    /\ hashSticky' = TRUE
    /\ UNCHANGED <<hashReg, hashPc, hashIdx, wordIdx, expected, mismatch,
                   hashRet, hashFrozen, otpFailed>>

HashNext ==
    \/ verify_prod_debug_unlock_pk_hash \/ CheckLength
    \/ ReadOtpWord \/ CompareWord \/ Verdict
    \/ \E r \in HashRegs, w \in HashWords : WriteHashReg(r, w)
    \/ FreezeHash

HashSpec == HashInit /\ [][HashNext]_hashVars

----------------------------------------------------------------------------
\* Properties.

\* What a verification begun under SS_CONFIG_DONE_STICKY says of the registers
\* is right both ways, for as long as they stay frozen: Ok means that every word
\* of the OTP has a register that holds it, an error that an OTP read failed or
\* that one word differs, a register that does not exist reading 0.  With the
\* lengths of the code this is false: the verdict is an error whatever the
\* registers hold.
HashVerdictRight ==
    hashFrozen =>
        /\ hashRet = "OK" => \A r \in Compared : r \in HashRegs /\ hashReg[r] = OtpWord(r)
        /\ hashRet = "OTP_READ_ERROR" =>
              \/ otpFailed
              \/ \E r \in Compared : read_prod_debug_unlock_pk_hash(r) # OtpWord(r)
=============================================================================
