--------------------------------- MODULE Words ---------------------------------
(***************************************************************************)
(* The functions on words of libaan/byte.hh and libaan/bit_vector.hh, of a *)
(* value and an offset.  A word is the set of the positions of its 1-bits. *)
(* The functions for 64 bits are made of those for 32.                     *)
(***************************************************************************)
EXTENDS Integers, FiniteSetsExt

CONSTANT Half  \* 32

ASSUME HalfAssumption == Half \in Nat \ {0}

VARIABLES
  value, offset,
  too_far   \* what 1ULL << 64 gives, which is undefined

wvars == <<value, offset, too_far>>

-----------------------------------------------------------------------------
Bits(w) == 0 .. w - 1
Wide == 2 * Half

\* An undefined shift may give 0, or the value itself when only the lower bits
\* of the width are looked at.
WordsInit ==
  /\ value \in SUBSET Bits(Wide) /\ offset \in Bits(Wide)
  /\ too_far \in {{}, {0}}

Not(x) == Bits(Wide) \ x
Shifted(x, n) == {b + n : b \in x} \cap Bits(Wide)
Upper(x) == {b - Half : b \in x \ Bits(Half)}
Lower(x) == x \cap Bits(Half)

\* __builtin_clz and __builtin_ctz, of half a word, which must not be 0.
Clz(x) == (Half - 1) - Max(x)
Ctz(x) == Min(x)

\* 32 bits.
CountLeading0(x)  == IF x = {} THEN Half ELSE Clz(x)
CountTrailing0(x) == IF x = {} THEN Half ELSE Ctz(x)
CountLeading1(x)  == CountLeading0(Bits(Half) \ x)
CountTrailing1(x) == CountTrailing0(Bits(Half) \ x)

\* 64 bits.
WideLeading0(x) ==
  IF x = {} THEN Wide
  ELSE IF Upper(x) = {} THEN Half + Clz(Lower(x)) ELSE 0

WideTrailing0(x) ==
  IF x = {} THEN Wide
  ELSE IF Lower(x) = {} THEN Half + Ctz(Upper(x)) ELSE Ctz(Lower(x))

WideLeading1(x) ==
  LET msb == CountLeading0(Upper(Not(x)))
      lsb == CountLeading0(Lower(Not(x)))
  IN  IF x = {} THEN 0 ELSE IF msb = Half THEN Half + lsb ELSE msb

WideTrailing1(x) ==
  LET msb == CountTrailing0(Upper(Not(x)))
      lsb == CountTrailing0(Lower(Not(x)))
  IN  IF x = {} THEN 0 ELSE IF lsb = Half THEN Half + msb ELSE lsb

\* 1ULL << n
OneShifted(n) == IF n < Wide THEN {n} ELSE too_far

\* x - 1: the lowest 1-bit and what is under it change; 0 becomes ~0.
MinusOne(x) ==
  IF x = {} THEN Bits(Wide) ELSE (x \ {Min(x)}) \cup Bits(Min(x))

\* (1ULL << (n + 1)) - 1
LowOnes(n) == MinusOne(OneShifted(n + 1))

\* 0xffffffffffffffff << (63 - n)
HighOnes(n) == Shifted(Bits(Wide), (Wide - 1) - n)

\* Mutated form: the offset of the last bit has no case of its own.
ClearAnyway(x, n) == x \cap Not(LowOnes(n))

ClearLsbToMsb(x, n) == IF n = Wide - 1 THEN {} ELSE x \cap Not(LowOnes(n))
ClearMsbToLsb(x, n) == IF n = Wide - 1 THEN {} ELSE x \cap Not(HighOnes(n))
SetLsbToMsb(x, n) == IF n = Wide - 1 THEN Bits(Wide) ELSE x \cup LowOnes(n)
SetMsbToLsb(x, n) == IF n = Wide - 1 THEN Bits(Wide) ELSE x \cup HighOnes(n)

-----------------------------------------------------------------------------
(* Properties.                                                             *)

\* Every variable has its type.
WordsTypeOK ==
  value \subseteq Bits(Wide) /\ offset \in Bits(Wide) /\ too_far \in {{}, {0}}

\* Reference: how many bits at the upper or lower end of w bits are not in x.
LeadingOut(x, w)  == Max({n \in 0 .. w : x \cap (w - n .. w - 1) = {}})
TrailingOut(x, w) == Max({n \in 0 .. w : x \cap Bits(n) = {}})

\* The counts are right for words of both widths, the borders between halves and
\* the values 0 and ~0 included.  Nothing is said of the leading zeros of 64 bits
\* with a 1-bit in the upper half: the code returns 0 for all of them, which is
\* the number only when that is the first bit.
CountsAreExact ==
  /\ CountLeading0(Lower(value)) = LeadingOut(Lower(value), Half)
  /\ CountTrailing0(Lower(value)) = TrailingOut(Lower(value), Half)
  /\ CountLeading1(Lower(value)) = LeadingOut(Bits(Half) \ value, Half)
  /\ CountTrailing1(Lower(value)) = TrailingOut(Bits(Half) \ value, Half)
  /\ Upper(value) = {} => WideLeading0(value) = LeadingOut(value, Wide)
  /\ WideTrailing0(value) = TrailingOut(value, Wide)
  /\ WideLeading1(value) = LeadingOut(Not(value), Wide)
  /\ WideTrailing1(value) = TrailingOut(Not(value), Wide)

\* An offset names the last bit that is cleared or set, counted from the end
\* where it begins; all others stay.  An offset of 63 needs no shift by 64.
MasksAreExact ==
  LET low == 0 .. offset
      high == (Wide - 1) - offset .. Wide - 1
  IN  /\ ClearLsbToMsb(value, offset) = value \ low
      /\ ClearMsbToLsb(value, offset) = value \ high
      /\ SetLsbToMsb(value, offset) = value \cup low
      /\ SetMsbToLsb(value, offset) = value \cup high

\* The functions on words agree with sets of positions for every value, 0 and ~0
\* included, and every offset, without a shift by 64; but for count_leading_0() of
\* 64-bit words above 2^32 - 1.
WordsAreExact == CountsAreExact /\ MasksAreExact
=============================================================================
