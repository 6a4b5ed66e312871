------------------------------ MODULE Bitflags ------------------------------
(***************************************************************************)
(* The class template Bitflags: flags kept in an unsigned integer of        *)
(* FlagBits bits, with the set operations as bitwise ones.  Operands        *)
(* narrower than int are promoted, so ~ yields a negative number that the   *)
(* constructor converts back.                                               *)
(***************************************************************************)
EXTENDS Integers, Bitwise

CONSTANT FlagBits   \* width of T: 8, 16, 32 or 64

ASSUME FlagAssumption == FlagBits \in Nat \ {0}

Flags == 0..(2^FlagBits - 1)

\* The conversion to T of an int, possibly negative.
Convert(n) == n % (2^FlagBits)

is_empty(a) == a = 0
is_all(a)   == a = Convert(-1)
flags_contains(a, b) == (a & b) = b

flags_or(a, b)  == Convert(a | b)
flags_and(a, b) == Convert(a & b)
flags_xor(a, b) == Convert(a ^^ b)
flags_not(a)    == Convert(-a - 1)

flags_set(a, b)    == a | b
flags_unset(a, b)  == a & flags_not(b)
flags_toggle(a, b) == a ^^ b

----------------------------------------------------------------------------
\* Properties.

SetOf(a) == {i \in 0..(FlagBits - 1) : (a \div 2^i) % 2 = 1}

\* Every operation on the integer is the operation on the set of flags that
\* its name promises.
FlagsAreSets ==
    \A a, b \in Flags :
        /\ is_empty(a) <=> SetOf(a) = {}
        /\ is_all(a) <=> SetOf(a) = 0..(FlagBits - 1)
        /\ flags_contains(a, b) <=> SetOf(b) \subseteq SetOf(a)
        /\ SetOf(flags_or(a, b)) = SetOf(a) \cup SetOf(b) /\ flags_set(a, b) = flags_or(a, b)
        /\ SetOf(flags_and(a, b)) = SetOf(a) \cap SetOf(b)
        /\ SetOf(flags_not(a)) = (0..(FlagBits - 1)) \ SetOf(a)
        /\ SetOf(flags_unset(a, b)) = SetOf(a) \ SetOf(b)
        /\ SetOf(flags_xor(a, b)) = (SetOf(a) \ SetOf(b)) \cup (SetOf(b) \ SetOf(a))
        /\ flags_toggle(a, b) = flags_xor(a, b)
=============================================================================
