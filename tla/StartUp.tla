------------------------------- MODULE StartUp -------------------------------
(***************************************************************************)
(* The start-up code of the ROM, instruction loop by instruction loop:      *)
(* zero .bss, copy .data from ROM to SRAM, call main.  The sections lie as  *)
(* rom.ld places them; their sizes are in bytes and need not be multiples   *)
(* of the word the loops move.  SRAM is below 2^31, so the signed compare   *)
(* of bge is the unsigned one.                                              *)
(***************************************************************************)
EXTENDS Integers

CONSTANTS TextSizes,  \* sizes of .text, from which ROM_DATA_START follows
          DataSizes,  \* sizes of .data
          BssSizes    \* sizes of .bss

ASSUME StartUpAssumption ==
    TextSizes \subseteq Nat /\ DataSizes \subseteq Nat /\ BssSizes \subseteq Nat

VARIABLES
    layout,   \* sizes of the sections of this build
    sram,     \* bytes of SRAM, by offset
    startPc,  \* "zero_bss", "copy_data" or "main"
    t0, t1    \* registers of the loops

startVars == <<layout, sram, startPc, t0, t1>>

Align(a, n) == ((a + n - 1) \div n) * n

\* Symbols of the linker script.  The load address of .data is aligned to its
\* section; ROM_DATA_START is not.
ROM_DATA_START == layout.text
LOADADDR       == Align(layout.text, 4)
DATA_START     == 0
DATA_END       == layout.data
BSS_START      == Align(DATA_END, 4)
BSS_END        == BSS_START + layout.bss
STACK_ORIGIN   == Align(BSS_END, 16)

\* The image in ROM: byte a of .data as the linker stored it, and other bytes.
RomByte(a) == IF a - LOADADDR \in 0..(layout.data - 1)
              THEN <<"data", a - LOADADDR>> ELSE <<"other", 0>>
Zero == <<"zero", 0>>
Junk == <<"junk", 0>>

SramBytes == {Zero, Junk, <<"other", 0>>} \cup ({"data"} \X Nat)

StartTypeOK ==
    /\ layout \in [text : TextSizes, data : DataSizes, bss : BssSizes]
    /\ DOMAIN sram = 0..(STACK_ORIGIN + 3)
    /\ \A a \in DOMAIN sram : sram[a] \in SramBytes
    /\ startPc \in {"zero_bss", "copy_data", "main"}
    /\ t0 \in Nat /\ t1 \in Nat

StartInit ==
    /\ layout \in [text : TextSizes, data : DataSizes, bss : BssSizes]
    /\ sram = [a \in 0..(STACK_ORIGIN + 3) |-> Junk]
    /\ startPc = "zero_bss" /\ t0 = BSS_START /\ t1 = 0

----------------------------------------------------------------------------

\* sw: four bytes at a.
StoreWord(a, word) ==
    sram' = [b \in DOMAIN sram |-> IF b \in a..(a + 3) THEN word[b - a] ELSE sram[b]]

ZeroWord ==
    /\ startPc = "zero_bss" /\ t0 < BSS_END
    /\ StoreWord(t0, [i \in 0..3 |-> Zero])
    /\ t0' = t0 + 4
    /\ UNCHANGED <<layout, startPc, t1>>

ZeroDone ==
    /\ startPc = "zero_bss" /\ t0 >= BSS_END
    /\ startPc' = "copy_data" /\ t0' = ROM_DATA_START /\ t1' = DATA_START
    /\ UNCHANGED <<layout, sram>>

CopyWord ==
    /\ startPc = "copy_data" /\ t1 < DATA_END
    /\ StoreWord(t1, [i \in 0..3 |-> RomByte(t0 + i)])
    /\ t0' = t0 + 4 /\ t1' = t1 + 4
    /\ UNCHANGED <<layout, startPc>>

\* Mutant: the compare is off by one word.
CopyDone_early ==
    /\ startPc = "copy_data" /\ t1 + 4 >= DATA_END
    /\ startPc' = "main"
    /\ UNCHANGED <<layout, sram, t0, t1>>

CopyDone ==
    /\ startPc = "copy_data" /\ t1 >= DATA_END
    /\ startPc' = "main"
    /\ UNCHANGED <<layout, sram, t0, t1>>

\* main has written SRAM as it likes when the next reset comes; a build keeps
\* its layout.
StartReset ==
    /\ sram' = [a \in DOMAIN sram |-> Junk]
    /\ startPc' = "zero_bss" /\ t0' = BSS_START /\ t1' = 0
    /\ UNCHANGED layout

StartNext == ZeroWord \/ ZeroDone \/ CopyWord \/ CopyDone \/ StartReset

StartSpec == StartInit /\ [][StartNext]_startVars

----------------------------------------------------------------------------
\* Properties.

\* When main is called its image is in place to the last byte, .data copied
\* and .bss zero, although the loops move whole words and run past the ends of
\* sections that are not; what they write past them is padding, never the
\* section next to it or the stack.  This needs .text to end on a word: else
\* ROM_DATA_START is not where the linker has put .data.
ImageInPlace ==
    startPc = "main" =>
        /\ layout.text % 4 = 0 =>
              \A a \in DATA_START..(DATA_END - 1) : sram[a] = <<"data", a - DATA_START>>
        /\ \A a \in BSS_START..(BSS_END - 1) : sram[a] = Zero
        /\ \A a \in DOMAIN sram : a >= STACK_ORIGIN => sram[a] = Junk
=============================================================================
