----------------------------- MODULE SuffixArray -----------------------------
(***************************************************************************)
(* Suffix arrays of libaan/string.cc: the one std::sort makes with strcmp, *)
(* and the DC3 construction.  A text is a sequence of the values 1 .. 255  *)
(* its bytes have for strcmp; offsets and ranks count from 0, as the       *)
(* code's do.                                                              *)
(***************************************************************************)
EXTENDS Integers, Sequences, FiniteSets

\* The byte at an offset; a C string ends with 0.
Byte(text, i) == IF i < Len(text) THEN text[i + 1] ELSE 0

\* What a char holds on the platforms where it has a sign.
Char(byte) == IF byte < 128 THEN byte ELSE byte - 256

Offsets(text) == 0 .. Len(text) - 1

\* std::strcmp(text + i, text + j) < 0
Before(text, i, j) ==
  \E k \in 0 .. Len(text) :
    /\ Byte(text, i + k) < Byte(text, j + k)
    /\ \A m \in 0 .. k - 1 : Byte(text, i + m) = Byte(text, j + m)

\* Suffixes differ in length, so there is one order std::sort can end with.
SortedSuffixes(text) ==
  [r \in 1 .. Len(text) |->
     CHOOSE i \in Offsets(text) :
       Cardinality({j \in Offsets(text) : Before(text, j, i)}) = r - 1]

-----------------------------------------------------------------------------
(* DC3.  Arrays of offsets and of names are sequences here; names start    *)
(* with 1, and all arrays are followed by zeros.                           *)

Array == Seq(Nat)

\* radixPass: the elements of list in the order of their keys, stable.
RadixPass(list, keys) ==
  LET places  == 1 .. Len(list)
      key(j)  == Byte(keys, list[j])
      rank(i) == Cardinality({j \in places : key(j) < key(i) \/ (key(j) = key(i) /\ j <= i)})
  IN  [r \in places |-> list[CHOOSE i \in places : rank(i) = r]]

\* Numbers of positions that are 0, 1, and 1 or 2 mod 3; for n % 3 = 1 there
\* is a dummy position 1 mod 3.
n0(n)  == (n + 2) \div 3
n1(n)  == (n + 1) \div 3
n02(n) == n0(n) + n \div 3

\* source + d
From(source, d) == SubSeq(source, d + 1, Len(source))

\* Step 1: the sample positions (1 or 2 mod 3) in the order of their triples.
SortedSample(source) ==
  LET positions == [j \in 1 .. n02(Len(source)) |-> (j - 1) + (j - 1) \div 2 + 1]
  IN  RadixPass(RadixPass(RadixPass(positions, From(source, 2)), From(source, 1)), source)

\* Mutated form: the third byte is left out.
Pair(source, i) == <<Byte(source, i), Byte(source, i + 1)>>

Triple(source, i) == <<Byte(source, i), Byte(source, i + 1), Byte(source, i + 2)>>

\* Where a sample position stands in s12: 1 mod 3 in the left half.
Slot(i, n) == IF i % 3 = 1 THEN i \div 3 ELSE i \div 3 + n0(n)

\* s12: the names of the triples; equal triples share one.
Names(source, sorted) ==
  LET name(r) == 1 + Cardinality({q \in 2 .. r :
                   Triple(source, sorted[q]) # Triple(source, sorted[q - 1])})
  IN  [q \in 1 .. Len(sorted) |->
         name(CHOOSE r \in 1 .. Len(sorted) : Slot(sorted[r], Len(source)) = q - 1)]

\* Step 2: the positions 0 mod 3, sorted by their first byte, stably from SA12.
SortedRest(source, SA12) ==
  LET left   == {i \in 1 .. Len(SA12) : SA12[i] < n0(Len(source))}
      nth(p) == CHOOSE i \in left : Cardinality({j \in left : j <= i}) = p
  IN  RadixPass([p \in 1 .. Cardinality(left) |-> 3 * SA12[nth(p)]], source)

\* s12 in the end: the ranks of the sample suffixes.
Ranks(SA12) == [i \in 1 .. Len(SA12) |-> CHOOSE r \in 1 .. Len(SA12) : SA12[r] = i - 1]

\* leq, for pairs and for triples
Leq(a, b) ==
  \E k \in DOMAIN a :
    /\ \A m \in 1 .. k - 1 : a[m] = b[m]
    /\ a[k] < b[k] \/ (k = Len(a) /\ a[k] = b[k])

\* get_offset_12()
Offset12(i, n) == IF i < n0(n) THEN i * 3 + 1 ELSE (i - n0(n)) * 3 + 2

\* Is the sample suffix i smaller than the suffix at o0, which is 0 mod 3?
SampleFirst(source, s12, i, o0) ==
  LET h   == n0(Len(source))
      o12 == Offset12(i, Len(source))
  IN  IF i < h
      THEN Leq(<<Byte(source, o12), Byte(s12, i + h)>>,
               <<Byte(source, o0), Byte(s12, o0 \div 3)>>)
      ELSE Leq(<<Byte(source, o12), Byte(source, o12 + 1), Byte(s12, i - h + 1)>>,
               <<Byte(source, o0), Byte(source, o0 + 1), Byte(s12, o0 \div 3 + h)>>)

\* Is the next suffix that of SA12?  Not compared once SA0 or SA12 is used up; but
\* that SA12 is, as for n = 1, from the start, is not looked at before the first turn.
SampleNext(source, SA0, SA12, s12, p, t, k) ==
  \/ p = n0(Len(source))
  \/ /\ t < n02(Len(source)) \/ k = 0
     /\ SampleFirst(source, s12, Byte(SA12, t), Byte(SA0, p))

\* How many of SA0 and of SA12 are used up after k turns.
Turns(source, SA0, SA12, s12) ==
  LET n == Len(source)
      turn[k \in 0 .. n] ==
        IF k = 0 THEN <<0, n0(n) - n1(n)>>
        ELSE LET was == turn[k - 1]
             IN  IF SampleNext(source, SA0, SA12, s12, was[1], was[2], k - 1)
                 THEN <<was[1], was[2] + 1>>
                 ELSE <<was[1] + 1, was[2]>>
  IN  turn

\* Step 3: merge SA0 and SA12.
Merge(source, SA0, SA12, s12) ==
  LET n     == Len(source)
      turns == Turns(source, SA0, SA12, s12)
  IN  [r \in 1 .. n |->
         LET p == turns[r - 1][1]
             t == turns[r - 1][2]
         IN  IF SampleNext(source, SA0, SA12, s12, p, t, r - 1)
             THEN Offset12(Byte(SA12, t), n)
             ELSE Byte(SA0, p)]

\* suffixArray(source, SA, n, K): of the text or, in the recursion, of names
\* that are not yet unique.
Dc3[source \in Array] ==
  LET named  == Names(source, SortedSample(source))
      places == 1 .. Len(named)
      unique == \A q, r \in places : named[q] = named[r] => q = r
      SA12   == IF unique
                THEN [r \in places |-> (CHOOSE q \in places : named[q] = r) - 1]
                ELSE Dc3[named]
  IN  Merge(source, SortedRest(source, SA12), SA12, Ranks(SA12))

\* sarr_dc3::create().  A negative char is no index for radixPass's counters.
Dc3Defined(text) == \A i \in DOMAIN text : Char(text[i]) >= 0
=============================================================================
