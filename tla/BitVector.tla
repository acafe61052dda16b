------------------------------- MODULE BitVector -------------------------------
(***************************************************************************)
(* bit_vector, which owns its words, and mapped_bit_vector, which uses the *)
(* caller's (libaan/bit_vector.hh).  A word is a set of positions.         *)
(***************************************************************************)
EXTENDS Integers

CONSTANTS WordBits,  \* 64
          BitCounts  \* sizes asked for, in bits

ASSUME BitAssumption == WordBits \in Nat \ {0} /\ BitCounts \subseteq Nat

VARIABLES
  owner_kind, \* "own" or "mapped"
  asked_bits, \* how many bits the vector was made for
  buff,       \* the words
  other,      \* another mapped vector of the same size
  pointer,    \* "words", or "wild" when mapped_data was overwritten
  expected,   \* history: the bits that are to be set, by what was asked for last
  missed      \* history: those for which that was a mapped vector's set_all()

bvars == <<owner_kind, asked_bits, buff, other, pointer, expected, missed>>

-----------------------------------------------------------------------------
u64_from_bitcount(n) ==
  IF n % WordBits = 0 THEN n \div WordBits ELSE n \div WordBits + 1

\* Mutated form: the mask of the index is one bit short.
NarrowWordIdx(bit) == <<bit \div WordBits, bit % (WordBits - 1)>>

\* The word and the bit in it.
word_idx(bit) == <<bit \div WordBits, bit % WordBits>>

Ones == 0 .. WordBits - 1
BitsTotal == {WordBits * i + b : i \in DOMAIN buff, b \in Ones}

BitInit ==
  /\ owner_kind \in {"own", "mapped"} /\ asked_bits \in BitCounts
  /\ buff = [i \in 0 .. u64_from_bitcount(asked_bits) - 1 |-> {}]
  /\ other \in [DOMAIN buff -> {{}, {0}, Ones}]
  /\ pointer = "words" /\ expected = {} /\ missed = {}

SetBit(bit) ==
  /\ pointer = "words"
  /\ buff' = [buff EXCEPT ![word_idx(bit)[1]] = @ \cup {word_idx(bit)[2]}]
  /\ expected' = expected \cup {bit} /\ missed' = missed \ {bit}
  /\ UNCHANGED <<owner_kind, asked_bits, other, pointer>>

UnsetBit(bit) ==
  /\ pointer = "words"
  /\ buff' = [buff EXCEPT ![word_idx(bit)[1]] = @ \ {word_idx(bit)[2]}]
  /\ expected' = expected \ {bit} /\ missed' = missed \ {bit}
  /\ UNCHANGED <<owner_kind, asked_bits, other, pointer>>

\* For a vector whose pointer is not wild.
get(bit) == word_idx(bit)[2] \in buff[word_idx(bit)[1]]

AllOrNone(on) == IF on THEN BitsTotal ELSE {}

\* bit_vector::set_all
SetAll(on) ==
  /\ owner_kind = "own"
  /\ buff' = [i \in DOMAIN buff |-> IF on THEN Ones ELSE {}]
  /\ expected' = AllOrNone(on)
  /\ UNCHANGED <<owner_kind, asked_bits, other, pointer, missed>>

\* mapped_bit_vector::set_all writes over the pointer (&mapped_data), as many
\* bytes as there are in the words, and not over the words it points to.  What
\* lies behind pointer and size, when there are more words, is not modelled.
MappedSetAll(on) ==
  /\ owner_kind = "mapped"
  /\ pointer' = IF DOMAIN buff = {} THEN pointer ELSE "wild"
  /\ expected' = AllOrNone(on) /\ missed' = BitsTotal
  /\ UNCHANGED <<owner_kind, asked_bits, buff, other>>

\* mapped_bit_vector::map names the words again, and their size.
MapAgain ==
  /\ owner_kind = "mapped" /\ pointer' = "words"
  /\ UNCHANGED <<owner_kind, asked_bits, buff, other, expected, missed>>

SetInOther == {bit \in BitsTotal : word_idx(bit)[2] \in other[word_idx(bit)[1]]}

\* operator|= of mapped vectors
OrOther ==
  /\ owner_kind = "mapped" /\ pointer = "words"
  /\ buff' = [i \in DOMAIN buff |-> buff[i] \cup other[i]]
  /\ expected' = expected \cup SetInOther /\ missed' = missed \ SetInOther
  /\ UNCHANGED <<owner_kind, asked_bits, other, pointer>>

BitNext ==
  \/ \E bit \in BitsTotal : SetBit(bit) \/ UnsetBit(bit)
  \/ \E on \in BOOLEAN : SetAll(on) \/ MappedSetAll(on)
  \/ MapAgain \/ OrOther

BitSpec == BitInit /\ [][BitNext]_bvars

-----------------------------------------------------------------------------
(* Properties.                                                             *)

\* Every variable has its type.
BitTypeOK ==
  /\ owner_kind \in {"own", "mapped"} /\ asked_bits \in Nat
  /\ buff \in [0 .. u64_from_bitcount(asked_bits) - 1 -> SUBSET Ones]
  /\ other \in [0 .. u64_from_bitcount(asked_bits) - 1 -> SUBSET Ones]
  /\ pointer \in {"words", "wild"}
  /\ expected \subseteq BitsTotal /\ missed \subseteq BitsTotal

\* Every bit the vector was made for has a place, and whatever was set and unset,
\* over word borders, all at once or from another vector, get() says of each bit
\* what was asked for last.  Nothing is said of the bits that set_all() of a mapped
\* vector was to change and nothing since: that leaves the words as they are.
\* Until map() is called again such a vector cannot be read at all.
BitsAreKept ==
  /\ 0 .. asked_bits - 1 \subseteq BitsTotal
  /\ pointer = "words" => \A bit \in BitsTotal \ missed : get(bit) <=> bit \in expected
=============================================================================
