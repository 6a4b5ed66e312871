-------------------------------- MODULE Libc --------------------------------
(***************************************************************************)
(* The C library routines of the ROM: memset, memcpy, memmove, memcmp and   *)
(* strlen as the byte loops they are.  Callers keep the rules of the C      *)
(* library: ranges lie in memory, memcpy's do not overlap, and strings are  *)
(* terminated.                                                              *)
(***************************************************************************)
EXTENDS Integers

CONSTANTS RamSize,  \* bytes of memory
          Chars,    \* values of a byte
          MaxCount  \* bound: bytes per call

ASSUME LibcAssumption ==
    /\ RamSize \in Nat \ {0} /\ MaxCount \in Nat
    /\ Chars \subseteq Int /\ 0 \in Chars

VARIABLES
    ram,        \* memory
    routine,    \* the routine in progress or last called
    active,     \* it is in progress
    d, s,       \* pointers d and s of the loop (l and r, or str, where it compares)
    left,       \* count
    result,     \* value returned: of memcmp, or len of strlen
    before,     \* ghost: memory when it was called
    args        \* its arguments

libcVars == <<ram, routine, active, d, s, left, result, before, args>>

Addrs == 0..(RamSize - 1)

LibcTypeOK ==
    /\ ram \in [Addrs -> Chars] /\ before \in [Addrs -> Chars]
    /\ routine \in {"none", "memset", "memcpy", "memmove", "memcmp", "strlen"}
    /\ active \in BOOLEAN
    /\ d \in 0..RamSize /\ s \in 0..RamSize
    /\ left \in 0..MaxCount
    /\ result \in -1..RamSize
    /\ args \in [dest : Addrs, src : Addrs, ch : Chars, count : 0..MaxCount]

LibcInit ==
    /\ ram = [a \in Addrs |-> 0] /\ before = ram
    /\ routine = "none" /\ active = FALSE /\ d = 0 /\ s = 0 /\ left = 0 /\ result = 0
    /\ args = [dest |-> 0, src |-> 0, ch |-> 0, count |-> 0]

----------------------------------------------------------------------------

Fits(a, n) == a + n <= RamSize

Enter(name, dest, src, ch, n, d0, s0) ==
    /\ ~active
    /\ routine' = name /\ active' = TRUE
    /\ args' = [dest |-> dest, src |-> src, ch |-> ch, count |-> n]
    /\ d' = d0 /\ s' = s0 /\ left' = n /\ result' = 0
    /\ before' = ram /\ UNCHANGED ram

memset(dest, ch, n) == Fits(dest, n) /\ Enter("memset", dest, 0, ch, n, dest, 0)

memcpy(dest, src, n) ==
    /\ Fits(dest, n) /\ Fits(src, n)
    /\ dest + n <= src \/ src + n <= dest
    /\ Enter("memcpy", dest, src, 0, n, dest, src)

\* Mutant: the copy always goes upwards.
Downwards_never(dest, src) == FALSE

Downwards(dest, src) == dest >= src

memmove(dest, src, n) ==
    /\ Fits(dest, n) /\ Fits(src, n)
    /\ IF Downwards(dest, src)
       THEN Enter("memmove", dest, src, 0, n, dest + n, src + n)
       ELSE Enter("memmove", dest, src, 0, n, dest, src)

memcmp(lhs, rhs, n) ==
    /\ Fits(lhs, n) /\ Fits(rhs, n)
    /\ Enter("memcmp", lhs, rhs, 0, n, lhs, rhs)

strlen(str) ==
    /\ \E a \in Addrs : a >= str /\ ram[a] = 0
    /\ Enter("strlen", str, str, 0, 0, str, str)

StepUp(v) ==
    /\ ram' = [ram EXCEPT ![d] = v]
    /\ d' = d + 1 /\ s' = IF routine = "memset" THEN s ELSE s + 1
    /\ left' = left - 1

StepDown ==
    /\ ram' = [ram EXCEPT ![d - 1] = ram[s - 1]]
    /\ d' = d - 1 /\ s' = s - 1 /\ left' = left - 1

CopyByte ==
    /\ active /\ routine \in {"memset", "memcpy", "memmove"} /\ left > 0
    /\ CASE routine = "memset" -> StepUp(args.ch)
         [] routine = "memmove" /\ Downwards(args.dest, args.src) -> StepDown
         [] OTHER -> StepUp(ram[s])
    /\ UNCHANGED <<routine, active, result, before, args>>

CompareByte ==
    /\ active /\ routine = "memcmp" /\ left > 0
    /\ IF ram[d] # ram[s]
       THEN /\ result' = (IF ram[d] < ram[s] THEN -1 ELSE 1) /\ active' = FALSE
            /\ UNCHANGED <<d, s>>
       ELSE d' = d + 1 /\ s' = s + 1 /\ UNCHANGED <<result, active>>
    /\ left' = left - 1
    /\ UNCHANGED <<ram, routine, before, args>>

CountChar ==
    /\ active /\ routine = "strlen"
    /\ s' = s + 1
    /\ IF ram[s] # 0 THEN result' = result + 1 /\ UNCHANGED active
                     ELSE active' = FALSE /\ UNCHANGED result
    /\ UNCHANGED <<ram, routine, d, left, before, args>>

Return ==
    /\ active /\ routine # "strlen" /\ left = 0
    /\ active' = FALSE
    /\ UNCHANGED <<ram, routine, d, s, left, result, before, args>>

LibcNext ==
    \/ \E dest \in Addrs, n \in 0..MaxCount :
          \/ \E ch \in Chars : memset(dest, ch, n)
          \/ \E src \in Addrs : memcpy(dest, src, n) \/ memmove(dest, src, n)
                                    \/ memcmp(dest, src, n)
    \/ \E str \in Addrs : strlen(str)
    \/ CopyByte \/ CompareByte \/ CountChar \/ Return

LibcSpec == LibcInit /\ [][LibcNext]_libcVars

----------------------------------------------------------------------------
\* Properties.

Returned(name) == ~active /\ routine = name

Dest == args.dest..(args.dest + args.count - 1)

\* What a routine leaves behind is what the C library promises, computed from
\* the memory at the call: memmove copies overlapping ranges as if through a
\* buffer of its own, memcmp decides by the first byte that differs, strlen
\* stops at the first zero, and nothing outside the destination changes.
LibcRight ==
    /\ Returned("memset") =>
          ram = [a \in Addrs |-> IF a \in Dest THEN args.ch ELSE before[a]]
    /\ Returned("memcpy") \/ Returned("memmove") =>
          ram = [a \in Addrs |-> IF a \in Dest THEN before[args.src + (a - args.dest)]
                                               ELSE before[a]]
    /\ Returned("memcmp") =>
          LET differs(i) == ram[args.dest + i] # ram[args.src + i] IN
          IF \E i \in 0..(args.count - 1) : differs(i)
          THEN \E i \in 0..(args.count - 1) :
                  /\ differs(i) /\ \A j \in 0..(i - 1) : ~differs(j)
                  /\ result = IF ram[args.dest + i] < ram[args.src + i] THEN -1 ELSE 1
          ELSE result = 0
    /\ Returned("strlen") =>
          /\ ram[args.src + result] = 0
          /\ \A i \in 0..(result - 1) : ram[args.src + i] # 0
    /\ routine \in {"memcmp", "strlen"} => ram = before
=============================================================================
