-------------------------- MODULE SuffixSearchProofs --------------------------
(***************************************************************************)
(* The searches, for all texts and patterns: each engine returns every     *)
(* occurrence of the pattern once, leaves its array only for a pattern     *)
(* below all suffixes, and in int never leaves it.  What the binary search *)
(* rests on is proved on the way: in the order of the suffixes, those a    *)
(* pattern is at are neighbours.                                           *)
(***************************************************************************)
EXTENDS SuffixSearch, SuffixArrayProofs

-----------------------------------------------------------------------------
(* The pattern among the suffixes.                                         *)

\* The pattern p is at offset i of t, is below the suffix there, or above it.
Here(t, p, i)  == \A k \in 0 .. Len(p) - 1 : Byte(p, k) = Byte(t, i + k)
Below(t, p, i) == Less(SuffixBytes(p, 0), SuffixBytes(t, i), Len(p))
Above(t, p, i) == Less(SuffixBytes(t, i), SuffixBytes(p, 0), Len(p))

\* Bytes 1 .. 255 are a text without zeros.
LEMMA BytesAreZeroFree == Seq(1 .. 255) \subseteq ZeroFree
<1>1. 1 .. 255 \subseteq Nat \ {0}
  OBVIOUS
<1>2. ASSUME NEW t \in Seq(1 .. 255) PROVE t \in Seq(Nat \ {0})
  BY <1>1, SeqMonotonic, Zenon
<1> QED
  BY <1>2 DEF ZeroFree

\* The bytes the comparison of a pattern with a suffix looks at.
LEMMA PatternBytes ==
  ASSUME NEW t \in ZeroFree, NEW p \in ZeroFree, NEW i \in Nat
  PROVE  /\ Len(p) \in Nat
         /\ SuffixBytes(p, 0) \in [Nat -> Nat] /\ SuffixBytes(t, i) \in [Nat -> Nat]
         /\ \A k \in 0 .. Len(p) - 1 : SuffixBytes(p, 0)[k] = Byte(p, k) /\ SuffixBytes(t, i)[k] = Byte(t, i + k)
<1>1. Len(p) \in Nat
  OBVIOUS
<1>2. /\ SuffixBytes(p, 0) \in [Nat -> Nat] /\ \A k \in Nat : SuffixBytes(p, 0)[k] = Byte(p, 0 + k)
      /\ SuffixBytes(t, i) \in [Nat -> Nat] /\ \A k \in Nat : SuffixBytes(t, i)[k] = Byte(t, i + k)
  BY BytesAreTyped
<1>3. \A k \in 0 .. Len(p) - 1 : k \in Nat /\ 0 + k = k
  BY <1>1
<1> QED
  BY <1>1, <1>2, <1>3, Zenon

\* It is exactly one of the three.
LEMMA OneOfThree ==
  ASSUME NEW t \in ZeroFree, NEW p \in ZeroFree, NEW i \in Nat
  PROVE  /\ Here(t, p, i) \/ Below(t, p, i) \/ Above(t, p, i)
         /\ ~(Here(t, p, i) /\ Below(t, p, i)) /\ ~(Here(t, p, i) /\ Above(t, p, i))
         /\ ~(Below(t, p, i) /\ Above(t, p, i))
<1> DEFINE f == SuffixBytes(p, 0)
           g == SuffixBytes(t, i)
<1>1. /\ Len(p) \in Nat /\ f \in [Nat -> Nat] /\ g \in [Nat -> Nat]
      /\ \A k \in 0 .. Len(p) - 1 : f[k] = Byte(p, k) /\ g[k] = Byte(t, i + k)
  BY PatternBytes
<1>2. Here(t, p, i) <=> \A k \in 0 .. Len(p) - 1 : f[k] = g[k]
  BY <1>1, Zenon DEF Here
<1>3. (Below(t, p, i) <=> Less(f, g, Len(p))) /\ (Above(t, p, i) <=> Less(g, f, Len(p)))
  BY DEF Below, Above
<1> HIDE DEF f, g
<1>4. (\E k \in 0 .. Len(p) - 1 : f[k] # g[k]) => Less(f, g, Len(p)) \/ Less(g, f, Len(p))
  BY <1>1, LessIsTotal
<1>5. Less(f, g, Len(p)) => ~Less(g, f, Len(p)) /\ \E k \in 0 .. Len(p) - 1 : f[k] # g[k]
  BY <1>1, LessIsStrict
<1>6. Less(g, f, Len(p)) => \E k \in 0 .. Len(p) - 1 : g[k] # f[k]
  BY <1>1, LessIsStrict
<1> QED
  BY <1>2, <1>3, <1>4, <1>5, <1>6, Zenon

\* In the order of the suffixes, those the pattern is above come first and those
\* it is below come last.
LEMMA AboveBefore ==
  ASSUME NEW t \in ZeroFree, NEW p \in ZeroFree,
         NEW i \in Offsets(t), NEW j \in Offsets(t), Before(t, i, j)
  PROVE  /\ Below(t, p, i) => Below(t, p, j)
         /\ Above(t, p, j) => Above(t, p, i)
<1> DEFINE f == SuffixBytes(p, 0)
           g == SuffixBytes(t, i)
           h == SuffixBytes(t, j)
<1>1. i \in Nat /\ j \in Nat /\ Len(t) + 1 \in Nat
  BY DEF Offsets
<1>2. Len(p) \in Nat /\ f \in [Nat -> Nat] /\ g \in [Nat -> Nat] /\ h \in [Nat -> Nat]
  BY <1>1, PatternBytes
<1>3. Less(g, h, Len(t) + 1)
  BY <1>1, BeforeIsLess
<1>4. /\ Below(t, p, i) <=> Less(f, g, Len(p))
      /\ Below(t, p, j) <=> Less(f, h, Len(p))
      /\ Above(t, p, i) <=> Less(g, f, Len(p))
      /\ Above(t, p, j) <=> Less(h, f, Len(p))
  BY DEF Below, Above
<1> HIDE DEF f, g, h
<1>5. \A P, Q \in Nat : /\ Less(f, g, P) /\ Less(g, h, Q) => Less(f, h, P)
                        /\ Less(g, h, Q) /\ Less(h, f, P) => Less(g, f, P)
  BY <1>2, LessIsTransitive
<1>6. /\ Less(f, g, Len(p)) => Less(f, h, Len(p))
      /\ Less(h, f, Len(p)) => Less(g, f, Len(p))
  BY <1>1, <1>2, <1>3, <1>5, Zenon
<1> QED
  BY <1>4, <1>6

\* A pattern ends where its text does, or earlier.
LEMMA HereFits ==
  ASSUME NEW t \in ZeroFree, NEW p \in ZeroFree, NEW i \in Nat,
         p # <<>>, Here(t, p, i)
  PROVE  i + Len(p) <= Len(t)
<1>1. Len(p) \in Nat /\ Len(t) \in Nat /\ Len(p) > 0
  OBVIOUS
<1>2. Len(p) - 1 \in 0 .. Len(p) - 1 /\ Len(p) - 1 \in Nat /\ i + (Len(p) - 1) \in Nat
  BY <1>1
<1>3. Byte(p, Len(p) - 1) = Byte(t, i + (Len(p) - 1))
  BY <1>2 DEF Here
<1>4. Byte(p, Len(p) - 1) # 0
  <2>1. Byte(p, Len(p) - 1) = 0 <=> Len(p) - 1 >= Len(p)
    BY <1>2, BytesOfText
  <2> QED
    BY <1>1, <2>1
<1>5. Byte(t, i + (Len(p) - 1)) = 0 <=> i + (Len(p) - 1) >= Len(t)
  BY <1>2, BytesOfText
<1>6. ~(i + (Len(p) - 1) >= Len(t))
  BY <1>3, <1>4, <1>5, Zenon
<1> QED
  BY <1>1, <1>6

-----------------------------------------------------------------------------
(* Results.                                                                *)

\* The sequence s lists the members of S, each once.
Returns(s, S) ==
  /\ s \in Seq(Nat)
  /\ \A v \in Nat : v \in S <=> \E m \in 1 .. Len(s) : s[m] = v
  /\ \A a, b \in 1 .. Len(s) : a # b => s[a] # s[b]

\* The empty result.
LEMMA NothingListed == Returns(<<>>, {})
BY DEF Returns

\* A result that gets one more offset.
LEMMA ListOneMore ==
  ASSUME NEW s, NEW S, NEW v \in Nat, Returns(s, S), v \notin S
  PROVE  Returns(Append(s, v), S \cup {v})
<1> DEFINE z == Append(s, v)
<1>1. /\ s \in Seq(Nat) /\ Len(s) \in Nat
      /\ \A w \in Nat : w \in S <=> \E m \in 1 .. Len(s) : s[m] = w
      /\ \A a, b \in 1 .. Len(s) : a # b => s[a] # s[b]
  BY DEF Returns
<1>2. /\ z \in Seq(Nat) /\ Len(z) = Len(s) + 1 /\ z[Len(s) + 1] = v
      /\ \A m \in 1 .. Len(s) : z[m] = s[m]
  BY <1>1
<1>3. \A m \in 1 .. Len(s) : s[m] \in Nat /\ s[m] # v
  <2>1. \A m \in 1 .. Len(s) : s[m] \in Nat
    BY <1>1, ElementOfSeq
  <2> QED
    BY <1>1, <2>1
<1>4. 1 .. Len(z) = (1 .. Len(s)) \cup {Len(s) + 1} /\ Len(s) + 1 \notin 1 .. Len(s)
  BY <1>1, <1>2
<1> HIDE DEF z
<1>5. ASSUME NEW w \in Nat PROVE w \in S \cup {v} <=> \E m \in 1 .. Len(z) : z[m] = w
  BY <1>1, <1>2, <1>4, Zenon
<1>6. ASSUME NEW a \in 1 .. Len(z), NEW b \in 1 .. Len(z), a # b PROVE z[a] # z[b]
  BY <1>1, <1>2, <1>3, <1>4, <1>6, Zenon
<1> QED
  BY <1>2, <1>5, <1>6 DEF Returns, z

-----------------------------------------------------------------------------
(* The pattern among the ranks.                                            *)

\* The binary search has left the ranks lo to hi: the pattern is above the ones
\* before them and below the ones behind.
Narrowed(t, p, array, lo, hi) ==
  \A r \in 0 .. Len(t) - 1 : /\ r < lo => Above(t, p, array[r + 1])
                             /\ r > hi => Below(t, p, array[r + 1])

\* The suffixes of the ranks lo to hi, and that the pattern is at each.
RanksFromTo(array, lo, hi) == {array[r + 1] : r \in lo .. hi}
HereFromTo(t, p, array, lo, hi) == \A r \in lo .. hi : Here(t, p, array[r + 1])

\* Ranks have different suffixes, in their order.
LEMMA RanksAreOrdered ==
  ASSUME NEW t \in ZeroFree, NEW array, IsSuffixArray(t, array),
         NEW q \in 0 .. Len(t) - 1, NEW r \in 0 .. Len(t) - 1
  PROVE  /\ array[q + 1] \in Offsets(t) /\ array[q + 1] \in Nat
         /\ q < r => Before(t, array[q + 1], array[r + 1])
         /\ q # r => array[q + 1] # array[r + 1]
<1>1. /\ Len(t) \in Nat /\ q \in Nat /\ r \in Nat
      /\ q + 1 \in 1 .. Len(t) /\ r + 1 \in 1 .. Len(t)
  OBVIOUS
<1>2. /\ array[q + 1] \in Offsets(t) /\ array[r + 1] \in Offsets(t)
      /\ q + 1 < r + 1 => Before(t, array[q + 1], array[r + 1])
      /\ r + 1 < q + 1 => Before(t, array[r + 1], array[q + 1])
  BY <1>1 DEF IsSuffixArray
<1>3. ASSUME NEW i \in Offsets(t) PROVE ~Before(t, i, i)
  BY BeforeIsStrict, OffsetsArePositions
<1>4. /\ q < r => Before(t, array[q + 1], array[r + 1])
      /\ r < q => Before(t, array[r + 1], array[q + 1])
  BY <1>1, <1>2
<1>5. q # r => q < r \/ r < q
  BY <1>1
<1>6. array[q + 1] \in Nat
  BY <1>2 DEF Offsets
<1> QED
  BY <1>2, <1>3, <1>4, <1>5, <1>6, Zenon

\* What a turn of the search learns of the middle holds of all ranks on its side.
LEMMA TurnNarrows ==
  ASSUME NEW t \in ZeroFree, NEW p \in ZeroFree, NEW array, IsSuffixArray(t, array),
         NEW lo \in Int, NEW hi \in Int, Narrowed(t, p, array, lo, hi),
         NEW m \in 0 .. Len(t) - 1
  PROVE  /\ Below(t, p, array[m + 1]) => Narrowed(t, p, array, lo, m - 1)
         /\ Above(t, p, array[m + 1]) => Narrowed(t, p, array, m + 1, hi)
<1>1. ASSUME NEW r \in 0 .. Len(t) - 1
      PROVE  /\ r < lo => Above(t, p, array[r + 1])
             /\ r > hi => Below(t, p, array[r + 1])
             /\ m < r /\ Below(t, p, array[m + 1]) => Below(t, p, array[r + 1])
             /\ r < m /\ Above(t, p, array[m + 1]) => Above(t, p, array[r + 1])
  <2>1. /\ array[m + 1] \in Offsets(t) /\ array[r + 1] \in Offsets(t)
        /\ m < r => Before(t, array[m + 1], array[r + 1])
        /\ r < m => Before(t, array[r + 1], array[m + 1])
    BY RanksAreOrdered
  <2>2. \A i, j \in Offsets(t) : Before(t, i, j) =>
           /\ Below(t, p, i) => Below(t, p, j)
           /\ Above(t, p, j) => Above(t, p, i)
    BY AboveBefore
  <2>3. /\ r < lo => Above(t, p, array[r + 1])
        /\ r > hi => Below(t, p, array[r + 1])
    BY DEF Narrowed
  <2> QED
    BY <2>1, <2>2, <2>3, Zenon
<1>2. \A r \in 0 .. Len(t) - 1 : (r > m - 1 => r = m \/ m < r) /\ (r < m + 1 => r = m \/ r < m)
  OBVIOUS
<1> QED
  BY <1>1, <1>2, Zenon DEF Narrowed

\* When no rank is left, the pattern is nowhere.
LEMMA NoRankLeft ==
  ASSUME NEW t \in ZeroFree, NEW p \in ZeroFree, NEW array, IsSuffixArray(t, array),
         NEW lo \in Int, NEW hi \in Int, Narrowed(t, p, array, lo, hi), lo > hi
  PROVE  \A i \in Offsets(t) : ~Here(t, p, i)
<1> SUFFICES ASSUME NEW i \in Offsets(t) PROVE ~Here(t, p, i)
  OBVIOUS
<1>1. i \in Nat /\ \E s \in 1 .. Len(t) : array[s] = i
  BY DEF IsSuffixArray, Offsets
<1>2. PICK s \in 1 .. Len(t) : array[s] = i
  BY <1>1
<1>3. s - 1 \in 0 .. Len(t) - 1 /\ (s - 1) + 1 = s /\ (s - 1 < lo \/ s - 1 > hi)
  OBVIOUS
<1>4. Above(t, p, array[(s - 1) + 1]) \/ Below(t, p, array[(s - 1) + 1])
  BY <1>3, Zenon DEF Narrowed
<1>5. Above(t, p, i) \/ Below(t, p, i)
  BY <1>2, <1>3, <1>4
<1> QED
  BY <1>1, <1>5, OneOfThree

\* Ranks next to each other that the pattern is at, with none before or behind,
\* are all there are.
LEMMA NeighboursAreAll ==
  ASSUME NEW t \in ZeroFree, NEW p \in ZeroFree, NEW array, IsSuffixArray(t, array),
         NEW lo \in 0 .. Len(t) - 1, NEW hi \in lo .. Len(t) - 1,
         HereFromTo(t, p, array, lo, hi),
         lo = 0 \/ ~Here(t, p, array[(lo - 1) + 1]),
         hi = Len(t) - 1 \/ ~Here(t, p, array[(hi + 1) + 1])
  PROVE  {i \in Offsets(t) : Here(t, p, i)} = RanksFromTo(array, lo, hi)
<1>1. /\ Len(t) \in Nat /\ lo \in Nat /\ hi \in Nat /\ lo <= hi /\ hi < Len(t)
      /\ lo \in lo .. hi /\ hi \in lo .. hi /\ lo .. hi \subseteq 0 .. Len(t) - 1
      /\ hi \in 0 .. Len(t) - 1
  OBVIOUS
<1>2. ASSUME NEW r \in 0 .. Len(t) - 1
      PROVE  /\ array[r + 1] \in Offsets(t)
             /\ Here(t, p, array[r + 1]) \/ Below(t, p, array[r + 1]) \/ Above(t, p, array[r + 1])
             /\ ~(Here(t, p, array[r + 1]) /\ Below(t, p, array[r + 1]))
             /\ ~(Here(t, p, array[r + 1]) /\ Above(t, p, array[r + 1]))
  <2>1. array[r + 1] \in Offsets(t) /\ array[r + 1] \in Nat
    BY RanksAreOrdered
  <2> QED
    BY <2>1, OneOfThree
<1>3. \A i, j \in Offsets(t) : Before(t, i, j) =>
         /\ Below(t, p, i) => Below(t, p, j)
         /\ Above(t, p, j) => Above(t, p, i)
  BY AboveBefore
<1>4. \A q, r \in 0 .. Len(t) - 1 : q < r =>
         /\ Below(t, p, array[q + 1]) => Below(t, p, array[r + 1])
         /\ Above(t, p, array[r + 1]) => Above(t, p, array[q + 1])
  <2>1. \A q, r \in 0 .. Len(t) - 1 : q < r => Before(t, array[q + 1], array[r + 1])
    BY RanksAreOrdered
  <2> QED
    BY <1>2, <1>3, <2>1, Zenon
<1>5. /\ Here(t, p, array[lo + 1]) /\ Here(t, p, array[hi + 1])
      /\ ~Below(t, p, array[lo + 1]) /\ ~Above(t, p, array[hi + 1])
  BY <1>1, <1>2, Zenon DEF HereFromTo
<1>6. ASSUME NEW r \in 0 .. Len(t) - 1, r < lo PROVE ~Here(t, p, array[r + 1])
  <2>1. lo - 1 \in 0 .. Len(t) - 1 /\ lo - 1 < lo /\ (r = lo - 1 \/ r < lo - 1) /\ lo # 0
    BY <1>1, <1>6
  <2>2. ~Here(t, p, array[(lo - 1) + 1]) /\ ~Below(t, p, array[(lo - 1) + 1])
    BY <1>1, <1>4, <1>5, <2>1, Zenon
  <2>3. Above(t, p, array[(lo - 1) + 1])
    BY <1>2, <2>1, <2>2, Zenon
  <2>4. Above(t, p, array[r + 1])
    BY <1>4, <2>1, <2>3, Zenon
  <2> QED
    BY <1>2, <2>4, Zenon
<1>7. ASSUME NEW r \in 0 .. Len(t) - 1, hi < r PROVE ~Here(t, p, array[r + 1])
  <2>1. hi + 1 \in 0 .. Len(t) - 1 /\ hi < hi + 1 /\ (r = hi + 1 \/ hi + 1 < r) /\ hi # Len(t) - 1
    BY <1>1, <1>7
  <2>2. ~Here(t, p, array[(hi + 1) + 1]) /\ ~Above(t, p, array[(hi + 1) + 1])
    BY <1>1, <1>4, <1>5, <2>1, Zenon
  <2>3. Below(t, p, array[(hi + 1) + 1])
    BY <1>2, <2>1, <2>2, Zenon
  <2>4. Below(t, p, array[r + 1])
    BY <1>4, <2>1, <2>3, Zenon
  <2> QED
    BY <1>2, <2>4, Zenon
<1>8. ASSUME NEW i \in Offsets(t), Here(t, p, i) PROVE i \in RanksFromTo(array, lo, hi)
  <2>1. PICK s \in 1 .. Len(t) : array[s] = i
    BY DEF IsSuffixArray
  <2>2. s - 1 \in 0 .. Len(t) - 1 /\ (s - 1) + 1 = s
        /\ (s - 1 < lo \/ hi < s - 1 \/ s - 1 \in lo .. hi)
    BY <1>1
  <2>3. Here(t, p, array[(s - 1) + 1])
    BY <1>8, <2>1, <2>2
  <2>4. s - 1 \in lo .. hi
    BY <1>6, <1>7, <2>2, <2>3, Zenon
  <2>5. i = array[(s - 1) + 1]
    BY <2>1, <2>2
  <2> QED
    BY <2>4, <2>5, Zenon DEF RanksFromTo
<1>9. ASSUME NEW i \in RanksFromTo(array, lo, hi) PROVE i \in Offsets(t) /\ Here(t, p, i)
  <2>1. PICK r \in lo .. hi : i = array[r + 1]
    BY <1>9, Zenon DEF RanksFromTo
  <2> QED
    BY <1>1, <1>2, <2>1, Zenon DEF HereFromTo
<1> QED
  BY <1>8, <1>9

\* One rank more at either end.
LEMMA OneRankMore ==
  ASSUME NEW t \in ZeroFree, NEW array, IsSuffixArray(t, array),
         NEW lo \in 0 .. Len(t) - 1, NEW hi \in lo .. Len(t) - 1,
         NEW s, Returns(s, RanksFromTo(array, lo, hi))
  PROVE  /\ hi + 1 < Len(t) =>
              Returns(Append(s, array[(hi + 1) + 1]), RanksFromTo(array, lo, hi + 1))
         /\ lo > 0 =>
              Returns(Append(s, array[(lo - 1) + 1]), RanksFromTo(array, lo - 1, hi))
<1>1. ASSUME NEW r \in 0 .. Len(t) - 1, r \notin lo .. hi
      PROVE  Returns(Append(s, array[r + 1]), RanksFromTo(array, lo, hi) \cup {array[r + 1]})
  <2>1. \A q \in lo .. hi : q \in 0 .. Len(t) - 1 /\ q # r
    BY <1>1
  <2>2. array[r + 1] \in Nat /\ \A q \in lo .. hi : array[q + 1] # array[r + 1]
    BY <2>1, RanksAreOrdered
  <2>3. array[r + 1] \notin RanksFromTo(array, lo, hi)
    BY <2>2, Zenon DEF RanksFromTo
  <2> QED
    BY <2>2, <2>3, ListOneMore
<1>2. ASSUME hi + 1 < Len(t)
      PROVE  Returns(Append(s, array[(hi + 1) + 1]), RanksFromTo(array, lo, hi + 1))
  <2>1. hi + 1 \in 0 .. Len(t) - 1 /\ hi + 1 \notin lo .. hi /\ lo .. (hi + 1) = (lo .. hi) \cup {hi + 1}
    BY <1>2
  <2>2. RanksFromTo(array, lo, hi + 1) = RanksFromTo(array, lo, hi) \cup {array[(hi + 1) + 1]}
    BY <2>1, Zenon DEF RanksFromTo
  <2> QED
    BY <1>1, <2>1, <2>2, Zenon
<1>3. ASSUME lo > 0
      PROVE  Returns(Append(s, array[(lo - 1) + 1]), RanksFromTo(array, lo - 1, hi))
  <2>1. lo - 1 \in 0 .. Len(t) - 1 /\ lo - 1 \notin lo .. hi /\ (lo - 1) .. hi = (lo .. hi) \cup {lo - 1}
    BY <1>3
  <2>2. RanksFromTo(array, lo - 1, hi) = RanksFromTo(array, lo, hi) \cup {array[(lo - 1) + 1]}
    BY <2>1, Zenon DEF RanksFromTo
  <2> QED
    BY <1>1, <2>1, <2>2, Zenon
<1> QED
  BY <1>2, <1>3

-----------------------------------------------------------------------------
(* The searches.                                                           *)

\* No char is negative for DC3; and one byte, of which it has no suffix array.
Undefined == engine = "dc3" /\ ~Dc3Defined(text)
OneByte   == engine = "dc3" /\ n = 1

\* Types; and nothing is searched before the array is built.
TypesHere ==
  /\ engine \in Engines /\ text \in Texts /\ text \in ZeroFree /\ pat \in ZeroFree
  /\ pc \in {"new", "ready", "find", "probe", "after", "before", "done", "wild"}
  /\ left \in Nat /\ right \in -1 .. SizeModulus - 1 /\ mid \in Nat /\ idx \in Nat
  /\ pc = "new" => pat = <<>> /\ sa = <<>>

\* The array an engine searches, once it is built.
ArrayInv ==
  pc # "new" /\ engine # "stl" =>
    IF Undefined THEN pc = "wild" /\ sa = <<>>
    ELSE IF OneByte THEN sa = <<1>> ELSE IsSuffixArray(text, sa)

\* The scan has listed what lies before left.
FindInv ==
  pc = "find" =>
    /\ engine = "stl" /\ pat # <<>> /\ left <= n
    /\ Returns(matches, {i \in 0 .. left - 1 : Here(text, pat, i)})

\* The binary search has narrowed the ranks; or right fell from 0, in an engine
\* that counts in size_t, for a pattern below all suffixes.
ProbeInv ==
  pc = "probe" =>
    /\ engine # "stl" /\ pat # <<>> /\ Len(pat) <= n /\ matches = <<>> /\ left \in 0 .. n
    /\ IF OneByte THEN right = 0
       ELSE \/ right \in -1 .. n - 1 /\ Narrowed(text, pat, sa, left, right)
            \/ /\ engine \in SizeEngines /\ left = 0 /\ right = SizeModulus - 1
               /\ Narrowed(text, pat, sa, 0, -1)

\* Behind the middle, the neighbours so far are listed.
AfterInv ==
  pc = "after" =>
    /\ engine # "stl" /\ ~OneByte /\ pat # <<>>
    /\ mid \in 0 .. n - 1 /\ idx \in mid .. n - 1
    /\ HereFromTo(text, pat, sa, mid, idx)
    /\ Returns(matches, RanksFromTo(sa, mid, idx))

\* Before it too; behind it none is left.
BeforeInv ==
  pc = "before" =>
    /\ engine # "stl" /\ ~OneByte /\ pat # <<>> /\ idx \in 0 .. n - 1
    /\ \E last \in idx .. n - 1 :
         /\ last = n - 1 \/ ~Here(text, pat, sa[(last + 1) + 1])
         /\ HereFromTo(text, pat, sa, idx, last)
         /\ Returns(matches, RanksFromTo(sa, idx, last))

\* The result lists the occurrences.
DoneInv ==
  pc = "done" /\ ~OneByte =>
    Returns(matches, {i \in Offsets(text) : pat # <<>> /\ Here(text, pat, i)})

\* Behaviour is undefined only where it must be.
WildInv ==
  pc = "wild" =>
    Undefined \/ (engine \in SizeEngines /\ \A i \in Offsets(text) : Below(text, pat, i))

\* What holds between any two steps of a search.
SearchInv ==
  TypesHere /\ ArrayInv /\ FindInv /\ ProbeInv /\ AfterInv /\ BeforeInv /\ DoneInv /\ WildInv

\* The model's words for where the pattern is.
LEMMA PatternAtOffset ==
  ASSUME text \in ZeroFree, pat \in ZeroFree, NEW i \in Nat
  PROVE  /\ Occurs(i) <=> Here(text, pat, i)
         /\ PatternBelow(i) <=> Below(text, pat, i)
<1>1. Occurs(i) <=> Here(text, pat, i)
  BY DEF Occurs, Differ, Here
<1>2. /\ Len(pat) \in Nat
      /\ \A k \in 0 .. Len(pat) - 1 : /\ SuffixBytes(pat, 0)[k] = Byte(pat, k)
                                      /\ SuffixBytes(text, i)[k] = Byte(text, i + k)
  BY PatternBytes
<1>3. ASSUME NEW k \in 0 .. Len(pat) - 1
      PROVE  (\A m \in Differ(i) : k <= m) <=> \A m \in 0 .. k - 1 : Byte(pat, m) = Byte(text, i + m)
  <2>1. \A m \in 0 .. Len(pat) - 1 : m \in 0 .. k - 1 <=> ~(k <= m)
    BY <1>2
  <2>2. 0 .. k - 1 \subseteq 0 .. Len(pat) - 1
    BY <1>2
  <2> QED
    BY <2>1, <2>2, Zenon DEF Differ
<1>4. ASSUME NEW k \in 0 .. Len(pat) - 1, Byte(pat, k) < Byte(text, i + k) PROVE k \in Differ(i)
  <2>1. Byte(pat, k) \in Nat /\ Byte(text, i + k) \in Nat
    <3>1. k \in Nat /\ i + k \in Nat
      BY <1>2
    <3> QED
      BY <3>1, BytesOfText
  <2>2. Byte(pat, k) # Byte(text, i + k)
    BY <1>4, <2>1
  <2> QED
    BY <2>2 DEF Differ
<1>5. PatternBelow(i) <=>
        \E k \in 0 .. Len(pat) - 1 : /\ Byte(pat, k) < Byte(text, i + k)
                                     /\ \A m \in 0 .. k - 1 : Byte(pat, m) = Byte(text, i + m)
  <2>1. \A k \in Differ(i) : k \in 0 .. Len(pat) - 1
    BY DEF Differ
  <2> QED
    BY <1>3, <1>4, <2>1, Zenon DEF PatternBelow
<1>6. Below(text, pat, i) <=>
        \E k \in 0 .. Len(pat) - 1 : /\ Byte(pat, k) < Byte(text, i + k)
                                     /\ \A m \in 0 .. k - 1 : Byte(pat, m) = Byte(text, i + m)
  <2>1. \A k \in 0 .. Len(pat) - 1 : 0 .. k - 1 \subseteq 0 .. Len(pat) - 1
    BY <1>2
  <2> QED
    BY <1>2, <2>1, Zenon DEF Below, Less
<1> QED
  BY <1>1, <1>5, <1>6, Zenon

\* What a search knows of its text and its array.
LEMMA Searched ==
  ASSUME SearchInv
  PROVE  /\ text \in ZeroFree /\ pat \in ZeroFree /\ n \in Nat /\ n = Len(text)
         /\ 3 * n + 3 < SizeModulus /\ SizeModulus \in Nat
         /\ pc \notin {"new", "wild"} /\ engine # "stl" =>
              IF OneByte THEN sa = <<1>> ELSE IsSuffixArray(text, sa)
<1>1. text \in Texts /\ text \in ZeroFree /\ pat \in ZeroFree
  BY DEF SearchInv, TypesHere
<1>2. n \in Nat /\ n = Len(text)
  BY <1>1 DEF n
<1>3. SizeModulus \in Nat /\ 3 * n + 3 < SizeModulus
  BY <1>1, SearchAssumption DEF SearchAssumption, n
<1>4. pc \notin {"new", "wild"} /\ engine # "stl" =>
              IF OneByte THEN sa = <<1>> ELSE IsSuffixArray(text, sa)
  BY Zenon DEF SearchInv, ArrayInv
<1> QED
  BY <1>1, <1>2, <1>3, <1>4

\* The array of a search stays.
LEMMA ArrayStays ==
  ASSUME ArrayInv, UNCHANGED <<engine, text, sa>>, pc \notin {"new", "wild"}
  PROVE  ArrayInv' /\ n' = n /\ (OneByte <=> OneByte')
<1>1. n' = n
  BY DEF n
<1>2. (OneByte <=> OneByte') /\ (Undefined <=> Undefined')
  BY <1>1 DEF OneByte, Undefined
<1>3. ArrayInv'
  BY <1>1, <1>2, Zenon DEF ArrayInv
<1> QED
  BY <1>1, <1>2, <1>3

\* The constructor.
LEMMA BuildStep ==
  ASSUME SearchInv, Build
  PROVE  SearchInv'
<1>0. text \in Texts /\ text \in ZeroFree /\ n = Len(text)
  BY DEF SearchInv, TypesHere, n
<1>1. /\ pc = "new" /\ engine' = engine /\ text' = text /\ pat' = pat /\ left' = left
      /\ right' = right /\ mid' = mid /\ idx' = idx /\ matches' = matches
      /\ pat = <<>> /\ sa = <<>> /\ engine \in Engines
  BY DEF Build, SearchInv, TypesHere
<1>2. \/ engine = "stl" /\ pc' = "ready"
      \/ engine = "dc3" /\ Dc3Defined(text) /\ pc' = "ready" /\ sa' = Dc3[text]
      \/ engine = "dc3" /\ ~Dc3Defined(text) /\ pc' = "wild" /\ sa' = sa
      \/ engine # "stl" /\ engine # "dc3" /\ pc' = "ready" /\ sa' = SortedSuffixes(text)
  <2>1. CASE engine = "stl" /\ engine # "dc3"
    BY <2>1, Zenon DEF Build
  <2>2. CASE engine = "dc3" /\ engine # "stl"
    BY <2>2, Zenon DEF Build
  <2>3. CASE engine # "stl" /\ engine # "dc3"
    BY <2>3, Zenon DEF Build
  <2>4. "stl" # "dc3"
    OBVIOUS
  <2> QED
    BY <2>1, <2>2, <2>3, <2>4, Zenon
<1>3. pc' \in {"ready", "wild"}
  BY <1>2
<1>4. TypesHere'
  BY <1>1, <1>3 DEF SearchInv, TypesHere
<1>5. n' = n /\ (OneByte' <=> OneByte) /\ (Undefined' <=> Undefined)
  BY <1>1 DEF n, OneByte, Undefined
<1>6. IsSuffixArray(text, SortedSuffixes(text))
  BY <1>0, SortedIsSuffixArray
<1>7. ASSUME engine = "dc3", Dc3Defined(text), sa' = Dc3[text]
      PROVE  IF OneByte THEN sa' = <<1>> ELSE IsSuffixArray(text, sa')
  <2>1. sa' = IF n = 1 THEN <<1>> ELSE SortedSuffixes(text)
    BY <1>0, <1>7, Dc3Sorts, Zenon
  <2> QED
    BY <1>6, <1>7, <2>1, Zenon DEF OneByte
<1>8. ArrayInv'
  <2>1. CASE engine = "stl"
    BY <1>1, <2>1, Zenon DEF ArrayInv
  <2>2. CASE engine = "dc3" /\ Dc3Defined(text) /\ sa' = Dc3[text]
    BY <1>1, <1>5, <1>7, <2>2, Zenon DEF ArrayInv, Undefined
  <2>3. CASE engine = "dc3" /\ ~Dc3Defined(text) /\ pc' = "wild" /\ sa' = sa
    BY <1>1, <1>5, <2>3, Zenon DEF ArrayInv, Undefined
  <2>4. CASE engine # "stl" /\ engine # "dc3" /\ sa' = SortedSuffixes(text)
    BY <1>1, <1>5, <1>6, <2>4, Zenon DEF ArrayInv, Undefined, OneByte
  <2> QED
    BY <1>2, <2>1, <2>2, <2>3, <2>4, Zenon
<1>9. WildInv'
  <2>1. pc' = "wild" => Undefined
    BY <1>2 DEF Undefined
  <2> QED
    BY <1>5, <2>1, Zenon DEF WildInv
<1>10. FindInv' /\ ProbeInv' /\ AfterInv' /\ BeforeInv' /\ DoneInv'
  <2>1. pc' # "find" /\ pc' # "probe" /\ pc' # "after" /\ pc' # "before" /\ pc' # "done"
    BY <1>3
  <2> QED
    BY <2>1, Zenon DEF FindInv, ProbeInv, AfterInv, BeforeInv, DoneInv
<1> QED
  BY <1>4, <1>8, <1>9, <1>10 DEF SearchInv

\* search(), up to its loop.
LEMMA SearchStep ==
  ASSUME SearchInv, NEW p \in Patterns, Search(p)
  PROVE  SearchInv'
<1>1. /\ text \in ZeroFree /\ n \in Nat /\ n = Len(text)
      /\ 3 * n + 3 < SizeModulus /\ SizeModulus \in Nat
  BY Searched
<1>2. p \in ZeroFree
  BY SearchAssumption, BytesAreZeroFree DEF SearchAssumption
<1>3. /\ pc \in {"ready", "done"} /\ pat' = p /\ matches' = <<>> /\ mid' = 0 /\ idx' = 0
      /\ left' = 0 /\ engine' = engine /\ text' = text /\ sa' = sa
  BY DEF Search
<1>4. ArrayInv' /\ n' = n /\ (OneByte <=> OneByte')
  BY <1>3, ArrayStays DEF SearchInv
<1>5. \/ Refused(p) /\ pc' = "done" /\ right' = 0
      \/ ~Refused(p) /\ engine = "stl" /\ pc' = "find" /\ right' = 0
      \/ ~Refused(p) /\ engine # "stl" /\ pc' = "probe" /\ right' = n - 1
  BY DEF Search, LastRank
<1>6. TypesHere'
  BY <1>1, <1>2, <1>3, <1>5 DEF SearchInv, TypesHere
<1>7. CASE Refused(p) /\ pc' = "done"
  <2>1. ASSUME NEW i \in Offsets(text), p # <<>>, Here(text, p, i) PROVE FALSE
    <3>1. i \in Nat /\ i + Len(p) <= Len(text) /\ Len(p) \in Nat
      BY <1>1, <1>2, <2>1, HereFits DEF Offsets
    <3>2. engine # "stl" /\ Len(p) > n
      BY <1>7, <2>1 DEF Refused
    <3> QED
      BY <1>1, <3>1, <3>2
  <2>2. {i \in Offsets(text) : p # <<>> /\ Here(text, p, i)} = {}
    BY <2>1
  <2>3. DoneInv'
    BY <1>3, <2>2, NothingListed, Zenon DEF DoneInv
  <2>4. pc' # "find" /\ pc' # "probe" /\ pc' # "after" /\ pc' # "before" /\ pc' # "wild"
    BY <1>7
  <2>5. FindInv' /\ ProbeInv' /\ AfterInv' /\ BeforeInv' /\ WildInv'
    BY <2>4, Zenon DEF FindInv, ProbeInv, AfterInv, BeforeInv, WildInv
  <2> QED
    BY <1>4, <1>6, <2>3, <2>5 DEF SearchInv
<1>8. CASE ~Refused(p) /\ engine = "stl" /\ pc' = "find"
  <2>1. {i \in 0 .. 0 - 1 : Here(text, p, i)} = {}
    OBVIOUS
  <2>2. 0 <= n /\ p # <<>>
    BY <1>1, <1>8 DEF Refused
  <2>3. FindInv'
    BY <1>3, <1>4, <1>8, <2>1, <2>2, NothingListed, Zenon DEF FindInv
  <2>4. pc' # "done" /\ pc' # "probe" /\ pc' # "after" /\ pc' # "before" /\ pc' # "wild"
    BY <1>8
  <2>5. DoneInv' /\ ProbeInv' /\ AfterInv' /\ BeforeInv' /\ WildInv'
    BY <2>4, Zenon DEF DoneInv, ProbeInv, AfterInv, BeforeInv, WildInv
  <2> QED
    BY <1>4, <1>6, <2>3, <2>5 DEF SearchInv
<1>9. CASE ~Refused(p) /\ engine # "stl" /\ pc' = "probe" /\ right' = n - 1
  <2>1. Narrowed(text, p, sa, 0, n - 1) /\ n - 1 \in -1 .. n - 1 /\ 0 \in 0 .. n
    BY <1>1 DEF Narrowed
  <2>2. p # <<>> /\ Len(p) <= n
    BY <1>1, <1>2, <1>9 DEF Refused
  <2>3. OneByte => n - 1 = 0
    BY DEF OneByte
  <2>4. ProbeInv'
    BY <1>3, <1>4, <1>9, <2>1, <2>2, <2>3, Zenon DEF ProbeInv
  <2>5. pc' # "done" /\ pc' # "find" /\ pc' # "after" /\ pc' # "before" /\ pc' # "wild"
    BY <1>9
  <2>6. DoneInv' /\ FindInv' /\ AfterInv' /\ BeforeInv' /\ WildInv'
    BY <2>5, Zenon DEF DoneInv, FindInv, AfterInv, BeforeInv, WildInv
  <2> QED
    BY <1>4, <1>6, <2>4, <2>6 DEF SearchInv
<1> QED
  BY <1>5, <1>7, <1>8, <1>9

\* The scan.
LEMMA StlFindStep ==
  ASSUME SearchInv, StlFind
  PROVE  SearchInv'
<1>1. text \in ZeroFree /\ pat \in ZeroFree /\ n \in Nat /\ n = Len(text)
  BY Searched
<1>2. /\ pc = "find" /\ pc' = pc /\ pat' = pat /\ right' = right /\ mid' = mid /\ idx' = idx
      /\ engine' = engine /\ text' = text /\ sa' = sa
  BY DEF StlFind
<1>3. /\ engine = "stl" /\ pat # <<>> /\ left \in Nat /\ left <= n
      /\ Returns(matches, {i \in 0 .. left - 1 : Here(text, pat, i)})
  BY <1>2 DEF SearchInv, FindInv, TypesHere
<1>4. PICK i \in left .. n : /\ Occurs(i) /\ \A j \in left .. i - 1 : ~Occurs(j)
                             /\ matches' = Append(matches, i) /\ left' = i + 1
  BY DEF StlFind
<1>5. i \in Nat /\ \A j \in left .. i - 1 : j \in Nat
  BY <1>3
<1>6. Here(text, pat, i) /\ \A j \in left .. i - 1 : ~Here(text, pat, j)
  BY <1>1, <1>4, <1>5, PatternAtOffset
<1>7. i + 1 <= n /\ i + 1 \in Nat
  <2>1. i + Len(pat) <= Len(text) /\ Len(pat) \in Nat /\ Len(pat) > 0
    BY <1>1, <1>3, <1>5, <1>6, HereFits
  <2> QED
    BY <1>1, <1>5, <2>1
<1>8. {j \in 0 .. (i + 1) - 1 : Here(text, pat, j)}
        = {j \in 0 .. left - 1 : Here(text, pat, j)} \cup {i}
  <2>1. \A j : j \in 0 .. (i + 1) - 1 <=> j \in 0 .. left - 1 \/ j \in left .. i - 1 \/ j = i
    BY <1>3, <1>4
  <2> QED
    BY <1>6, <2>1, Zenon
<1>9. i \notin {j \in 0 .. left - 1 : Here(text, pat, j)}
  BY <1>3, <1>4
<1>10. Returns(matches', {j \in 0 .. (i + 1) - 1 : Here(text, pat, j)})
  BY <1>3, <1>4, <1>5, <1>8, <1>9, ListOneMore
<1>11. ArrayInv' /\ n' = n /\ (OneByte <=> OneByte')
  BY <1>2, ArrayStays DEF SearchInv
<1>12. FindInv'
  BY <1>2, <1>3, <1>4, <1>7, <1>10, <1>11, Zenon DEF FindInv
<1>13. TypesHere'
  BY <1>2, <1>4, <1>7 DEF SearchInv, TypesHere
<1>14. DoneInv' /\ ProbeInv' /\ AfterInv' /\ BeforeInv' /\ WildInv'
  <2>1. pc' # "done" /\ pc' # "probe" /\ pc' # "after" /\ pc' # "before" /\ pc' # "wild"
    BY <1>2
  <2> QED
    BY <2>1, Zenon DEF DoneInv, ProbeInv, AfterInv, BeforeInv, WildInv
<1> QED
  BY <1>11, <1>12, <1>13, <1>14 DEF SearchInv

\* The scan has found the last occurrence.
LEMMA StlExhaustedStep ==
  ASSUME SearchInv, StlExhausted
  PROVE  SearchInv'
<1>1. text \in ZeroFree /\ pat \in ZeroFree /\ n \in Nat /\ n = Len(text)
  BY Searched
<1>2. /\ pc = "find" /\ pc' = "done" /\ UNCHANGED <<engine, text, sa, pat, left, right, mid, idx, matches>>
      /\ \A i \in left .. n : ~Occurs(i)
  BY DEF StlExhausted
<1>3. /\ engine = "stl" /\ pat # <<>> /\ left \in Nat /\ left <= n
      /\ Returns(matches, {i \in 0 .. left - 1 : Here(text, pat, i)})
  BY <1>2 DEF SearchInv, FindInv, TypesHere
<1>4. \A i \in left .. n : ~Here(text, pat, i)
  <2>1. \A i \in left .. n : i \in Nat
    BY <1>3
  <2> QED
    BY <1>1, <1>2, <2>1, PatternAtOffset
<1>5. {i \in Offsets(text) : pat # <<>> /\ Here(text, pat, i)}
        = {i \in 0 .. left - 1 : Here(text, pat, i)}
  <2>1. \A i : /\ i \in Offsets(text) => i \in 0 .. left - 1 \/ i \in left .. n
               /\ i \in 0 .. left - 1 => i \in Offsets(text)
    BY <1>1, <1>3 DEF Offsets
  <2> QED
    BY <1>3, <1>4, <2>1, Zenon
<1>6. ArrayInv' /\ n' = n /\ (OneByte <=> OneByte')
  BY <1>2, ArrayStays DEF SearchInv
<1>7. DoneInv'
  BY <1>2, <1>3, <1>5, Zenon DEF DoneInv
<1>8. TypesHere'
  BY <1>2 DEF SearchInv, TypesHere
<1>9. FindInv' /\ ProbeInv' /\ AfterInv' /\ BeforeInv' /\ WildInv'
  <2>1. pc' # "find" /\ pc' # "probe" /\ pc' # "after" /\ pc' # "before" /\ pc' # "wild"
    BY <1>2
  <2> QED
    BY <2>1, Zenon DEF FindInv, ProbeInv, AfterInv, BeforeInv, WildInv
<1> QED
  BY <1>6, <1>7, <1>8, <1>9 DEF SearchInv

\* The middle lies between the bounds.
LEMMA MiddleBetween ==
  ASSUME left \in Int, right \in Int, left <= right
  PROVE  Middle \in left .. right
BY DEF Middle

\* The numbers of one turn: while right has not wrapped, the middle is a rank.
LEMMA MiddleIsRank ==
  ASSUME SearchInv, pc = "probe", left <= right, right <= n - 1
  PROVE  Middle \in left .. right /\ Middle \in 0 .. n - 1
<1>1. left \in Nat /\ right \in Int /\ n \in Nat
  BY Searched DEF SearchInv, TypesHere
<1>2. Middle \in left .. right
  BY <1>1, MiddleBetween
<1> QED
  BY <1>1, <1>2

\* A turn of the binary search.
LEMMA ProbeStep ==
  ASSUME SearchInv, Probe
  PROVE  SearchInv'
<1>1. /\ text \in ZeroFree /\ pat \in ZeroFree /\ n \in Nat /\ n = Len(text)
      /\ 3 * n + 3 < SizeModulus /\ SizeModulus \in Nat
  BY Searched
<1>2. /\ pc = "probe" /\ left <= right /\ mid' = Middle
      /\ engine' = engine /\ text' = text /\ sa' = sa /\ pat' = pat
  BY DEF Probe
<1>3. /\ engine # "stl" /\ pat # <<>> /\ Len(pat) <= n /\ matches = <<>> /\ left \in 0 .. n
      /\ IF OneByte THEN right = 0
         ELSE \/ right \in -1 .. n - 1 /\ Narrowed(text, pat, sa, left, right)
              \/ /\ engine \in SizeEngines /\ left = 0 /\ right = SizeModulus - 1
                 /\ Narrowed(text, pat, sa, 0, -1)
  BY <1>2, Zenon DEF SearchInv, ProbeInv
<1>4. ArrayInv' /\ n' = n /\ (OneByte <=> OneByte')
  BY <1>2, ArrayStays DEF SearchInv
<1>5. IF OneByte THEN sa = <<1>> ELSE IsSuffixArray(text, sa)
  <2>1. pc \notin {"new", "wild"}
    BY <1>2
  <2> QED
    BY <1>3, <2>1, Searched, Zenon
<1>6. left \in Nat /\ right \in -1 .. SizeModulus - 1 /\ idx \in Nat /\ engine \in Engines /\ text \in Texts
  BY DEF SearchInv, TypesHere
<1>7. \/ mid' >= n /\ pc' = "wild" /\ UNCHANGED <<left, right, idx, matches>>
      \/ /\ ~(mid' >= n) /\ Occurs(Suffix(mid'))
         /\ matches' = <<Suffix(mid')>> /\ idx' = mid' /\ pc' = "after" /\ UNCHANGED <<left, right>>
      \/ /\ ~(mid' >= n) /\ PatternBelow(Suffix(mid'))
         /\ right' = BelowMiddle(mid') /\ UNCHANGED <<left, pc, idx, matches>>
      \/ /\ ~(mid' >= n) /\ ~Occurs(Suffix(mid')) /\ ~PatternBelow(Suffix(mid'))
         /\ left' = AboveMiddle(mid') /\ UNCHANGED <<right, pc, idx, matches>>
  BY Zenon DEF Probe
\* right has wrapped.
<1>8. CASE ~OneByte /\ right = SizeModulus - 1 /\ left = 0 /\ engine \in SizeEngines
           /\ Narrowed(text, pat, sa, 0, -1)
  <2>1. Middle >= n /\ Middle \in Nat
    BY <1>1, <1>8 DEF Middle
  <2>2. pc' = "wild" /\ UNCHANGED <<left, right, idx, matches>>
    BY <1>2, <1>7, <2>1
  <2>3. ASSUME NEW i \in Offsets(text) PROVE Below(text, pat, i)
    <3>1. PICK r \in 1 .. Len(text) : sa[r] = i
      BY <1>5, <1>8 DEF IsSuffixArray
    <3>2. r - 1 \in 0 .. Len(text) - 1 /\ (r - 1) + 1 = r /\ r - 1 > -1
      BY <1>1
    <3>3. Below(text, pat, sa[(r - 1) + 1])
      BY <1>8, <3>2, Zenon DEF Narrowed
    <3> QED
      BY <3>1, <3>2, <3>3
  <2>4. WildInv'
    BY <1>2, <1>8, <2>3, Zenon DEF WildInv
  <2>5. TypesHere'
    BY <1>2, <1>6, <2>1, <2>2 DEF SearchInv, TypesHere
  <2>6. DoneInv' /\ FindInv' /\ ProbeInv' /\ AfterInv' /\ BeforeInv'
    <3>1. pc' # "done" /\ pc' # "find" /\ pc' # "probe" /\ pc' # "after" /\ pc' # "before"
      BY <2>2
    <3> QED
      BY <3>1, Zenon DEF DoneInv, FindInv, ProbeInv, AfterInv, BeforeInv
  <2> QED
    BY <1>4, <2>4, <2>5, <2>6 DEF SearchInv
\* The pattern is above what DC3 makes of one byte: offset 1 is the text's end.
<1>9. CASE OneByte /\ right = 0
  <2>1. left = 0 /\ n = 1 /\ Len(pat) = 1
    <3>1. Len(pat) \in Nat /\ Len(pat) # 0 /\ Len(pat) <= n
      <4>1. pat # <<>> /\ Len(pat) <= n
        BY <1>3
      <4> QED
        BY <1>1, <4>1
    <3>2. n = 1
      BY <1>9 DEF OneByte
    <3>3. left = 0
      BY <1>2, <1>6, <1>9
    <3>4. \A x \in Nat : x # 0 /\ x <= 1 => x = 1
      OBVIOUS
    <3>5. Len(pat) = 1
      BY <3>1, <3>2, <3>4, Zenon
    <3> QED
      BY <3>2, <3>3, <3>5
  <2>2. mid' = 0
    BY <1>2, <1>9, <2>1 DEF Middle
  <2>3. Suffix(mid') = 1
    BY <1>5, <1>9, <2>2 DEF Suffix
  <2>4. ~Occurs(1) /\ ~PatternBelow(1)
    <3>1. Byte(text, 1 + 0) = 0
      BY <1>1, <2>1 DEF Byte
    <3>2. Byte(pat, 0) \in Nat /\ Byte(pat, 0) # 0
      <4>1. Byte(pat, 0) \in Nat /\ (Byte(pat, 0) = 0 <=> 0 >= Len(pat))
        BY <1>1, BytesOfText
      <4> QED
        BY <2>1, <4>1
    <3>3. 0 .. Len(pat) - 1 = {0}
      BY <2>1
    <3>4. Differ(1) = {0}
      BY <3>1, <3>2, <3>3 DEF Differ
    <3>5. ~Occurs(1)
      BY <3>4 DEF Occurs
    <3>6. ~(Byte(pat, 0) < Byte(text, 1 + 0))
      BY <3>1, <3>2
    <3>7. ~PatternBelow(1)
      BY <3>4, <3>6, Zenon DEF PatternBelow
    <3> QED
      BY <3>5, <3>7
  <2>5. ~(mid' >= n)
    BY <2>1, <2>2
  <2>6. left' = 1 /\ UNCHANGED <<right, pc, idx, matches>>
    BY <1>7, <2>2, <2>3, <2>4, <2>5 DEF AboveMiddle
  <2>7. 1 \in 0 .. n
    BY <2>1
  <2>8. ProbeInv'
    BY <1>2, <1>3, <1>4, <1>9, <2>6, <2>7, Zenon DEF ProbeInv
  <2>9. TypesHere'
    BY <1>2, <1>6, <2>2, <2>6 DEF SearchInv, TypesHere
  <2>10. DoneInv' /\ FindInv' /\ AfterInv' /\ BeforeInv' /\ WildInv'
    <3>1. pc' # "done" /\ pc' # "find" /\ pc' # "after" /\ pc' # "before" /\ pc' # "wild"
      BY <1>2, <2>6
    <3> QED
      BY <3>1, Zenon DEF DoneInv, FindInv, AfterInv, BeforeInv, WildInv
  <2> QED
    BY <1>4, <2>8, <2>9, <2>10 DEF SearchInv
\* The bounds are ranks.
<1>10. CASE ~OneByte /\ right \in -1 .. n - 1 /\ Narrowed(text, pat, sa, left, right)
  <2>1. right <= n - 1
    BY <1>1, <1>10
  <2>2. /\ mid' \in left .. right /\ mid' \in 0 .. n - 1 /\ mid' \in Nat /\ ~(mid' >= n)
    BY <1>1, <1>2, <2>1, MiddleIsRank
  <2>3. PICK m \in 0 .. n - 1 : mid' = m
    BY <2>2
  <2>4. IsSuffixArray(text, sa)
    BY <1>5, <1>10
  <2>5. Suffix(m) = sa[m + 1] /\ sa[m + 1] \in Nat
    BY <1>1, <2>4, RanksAreOrdered DEF Suffix
  <2>6. /\ Occurs(Suffix(m)) <=> Here(text, pat, sa[m + 1])
        /\ PatternBelow(Suffix(m)) <=> Below(text, pat, sa[m + 1])
    BY <1>1, <2>5, PatternAtOffset
  <2>7. Here(text, pat, sa[m + 1]) \/ Below(text, pat, sa[m + 1]) \/ Above(text, pat, sa[m + 1])
    BY <1>1, <2>5, OneOfThree
  <2>8. m \in Nat /\ m \in left .. right /\ left \in Int /\ right \in Int /\ m < n
    BY <1>1, <1>6, <2>2, <2>3
  <2>9. /\ Below(text, pat, sa[m + 1]) => Narrowed(text, pat, sa, left, m - 1)
        /\ Above(text, pat, sa[m + 1]) => Narrowed(text, pat, sa, m + 1, right)
    BY <1>1, <1>10, <2>4, <2>8, TurnNarrows
  <2>10. CASE Occurs(Suffix(m)) /\ matches' = <<Suffix(m)>> /\ idx' = m /\ pc' = "after"
              /\ UNCHANGED <<left, right>>
    <3>1. m .. m = {m} /\ m \in m .. n - 1
      BY <2>8
    <3>2. HereFromTo(text, pat, sa, m, m)
      BY <2>6, <2>10, <3>1, Zenon DEF HereFromTo
    <3>3. RanksFromTo(sa, m, m) = {sa[m + 1]}
      BY <3>1, Zenon DEF RanksFromTo
    <3>4. Returns(<<sa[m + 1]>>, {sa[m + 1]})
      BY <2>5 DEF Returns
    <3>5. Returns(matches', RanksFromTo(sa, m, m))
      BY <2>5, <2>10, <3>3, <3>4
    <3>6. AfterInv'
      BY <1>2, <1>3, <1>4, <1>10, <2>3, <2>10, <3>1, <3>2, <3>5, Zenon DEF AfterInv
    <3>7. TypesHere'
      BY <1>2, <1>6, <2>3, <2>8, <2>10 DEF SearchInv, TypesHere
    <3>8. DoneInv' /\ FindInv' /\ ProbeInv' /\ BeforeInv' /\ WildInv'
      <4>1. pc' # "done" /\ pc' # "find" /\ pc' # "probe" /\ pc' # "before" /\ pc' # "wild"
        BY <2>10
      <4> QED
        BY <4>1, Zenon DEF DoneInv, FindInv, ProbeInv, BeforeInv, WildInv
    <3> QED
      BY <1>4, <3>6, <3>7, <3>8 DEF SearchInv
  <2>11. CASE PatternBelow(Suffix(m)) /\ right' = BelowMiddle(m)
              /\ UNCHANGED <<left, pc, idx, matches>>
    <3>1. Narrowed(text, pat, sa, left, m - 1)
      BY <2>6, <2>9, <2>11
    <3>2. ASSUME m = 0, engine \in SizeEngines
          PROVE  ProbeInv' /\ right' \in -1 .. SizeModulus - 1
      <4>1. right' = SizeModulus - 1 /\ left = 0 /\ m - 1 = -1
        <5>1. BelowMiddle(0) = SizeModulus - 1
          <6>1. SizeModulus > 0 /\ SizeModulus \in Nat
            BY <1>1
          <6>2. \A x \in Nat : x > 0 => (0 - 1) % x = x - 1
            OBVIOUS
          <6> QED
            BY <3>2, <6>1, <6>2 DEF BelowMiddle
        <5> QED
          BY <1>1, <1>6, <2>8, <2>11, <3>2, <5>1
      <4>2. Narrowed(text, pat, sa, 0, -1)
        BY <3>1, <4>1
      <4>3. ProbeInv'
        BY <1>2, <1>3, <1>4, <1>10, <2>11, <3>2, <4>1, <4>2, Zenon DEF ProbeInv
      <4>4. SizeModulus - 1 \in -1 .. SizeModulus - 1
        BY <1>1
      <4> QED
        BY <4>1, <4>3, <4>4
    <3>3. ASSUME ~(m = 0 /\ engine \in SizeEngines)
          PROVE  ProbeInv' /\ right' \in -1 .. SizeModulus - 1
      <4>1. right' = m - 1
        <5>1. CASE engine \in SizeEngines
          <6>1. m - 1 \in 0 .. SizeModulus - 1
            BY <1>1, <2>8, <3>3, <5>1
          <6>2. (m - 1) % SizeModulus = m - 1
            <7>1. \A x, y \in Nat : y > 0 /\ x < y => x % y = x
              OBVIOUS
            <7>2. m - 1 \in Nat /\ SizeModulus \in Nat /\ SizeModulus > 0 /\ m - 1 < SizeModulus
              BY <1>1, <6>1
            <7> QED
              BY <7>1, <7>2
          <6> QED
            BY <2>11, <5>1, <6>2 DEF BelowMiddle
        <5>2. CASE engine \notin SizeEngines
          BY <2>11, <5>2 DEF BelowMiddle
        <5> QED
          BY <5>1, <5>2
      <4>2. m - 1 \in -1 .. n - 1 /\ m - 1 \in -1 .. SizeModulus - 1
        BY <1>1, <2>8
      <4>3. ProbeInv'
        BY <1>2, <1>3, <1>4, <1>10, <2>11, <3>1, <4>1, <4>2, Zenon DEF ProbeInv
      <4> QED
        BY <4>1, <4>2, <4>3
    <3>4. ProbeInv' /\ right' \in -1 .. SizeModulus - 1
      BY <3>2, <3>3
    <3>5. TypesHere'
      BY <1>2, <1>6, <2>3, <2>8, <2>11, <3>4 DEF SearchInv, TypesHere
    <3>6. DoneInv' /\ FindInv' /\ AfterInv' /\ BeforeInv' /\ WildInv'
      <4>1. pc' # "done" /\ pc' # "find" /\ pc' # "after" /\ pc' # "before" /\ pc' # "wild"
        BY <1>2, <2>11
      <4> QED
        BY <4>1, Zenon DEF DoneInv, FindInv, AfterInv, BeforeInv, WildInv
    <3> QED
      BY <1>4, <3>4, <3>5, <3>6 DEF SearchInv
  <2>12. CASE ~Occurs(Suffix(m)) /\ ~PatternBelow(Suffix(m)) /\ left' = AboveMiddle(m)
              /\ UNCHANGED <<right, pc, idx, matches>>
    <3>1. Narrowed(text, pat, sa, m + 1, right)
      BY <2>6, <2>7, <2>9, <2>12
    <3>2. left' = m + 1 /\ m + 1 \in 0 .. n /\ m + 1 \in Nat
      BY <1>1, <2>8, <2>12 DEF AboveMiddle
    <3>3. ProbeInv'
      BY <1>2, <1>3, <1>4, <1>10, <2>12, <3>1, <3>2, Zenon DEF ProbeInv
    <3>4. TypesHere'
      BY <1>2, <1>6, <2>3, <2>8, <2>12, <3>2 DEF SearchInv, TypesHere
    <3>5. DoneInv' /\ FindInv' /\ AfterInv' /\ BeforeInv' /\ WildInv'
      <4>1. pc' # "done" /\ pc' # "find" /\ pc' # "after" /\ pc' # "before" /\ pc' # "wild"
        BY <1>2, <2>12
      <4> QED
        BY <4>1, Zenon DEF DoneInv, FindInv, AfterInv, BeforeInv, WildInv
    <3> QED
      BY <1>4, <3>3, <3>4, <3>5 DEF SearchInv
  <2> QED
    BY <1>7, <2>2, <2>3, <2>10, <2>11, <2>12, Zenon
<1> QED
  BY <1>3, <1>8, <1>9, <1>10, Zenon

\* The search ends without a match.
LEMMA NotFoundStep ==
  ASSUME SearchInv, NotFound
  PROVE  SearchInv'
<1>1. /\ text \in ZeroFree /\ pat \in ZeroFree /\ n \in Nat /\ n = Len(text)
      /\ 3 * n + 3 < SizeModulus /\ SizeModulus \in Nat
  BY Searched
<1>2. /\ pc = "probe" /\ left > right /\ pc' = "done"
      /\ UNCHANGED <<engine, text, sa, pat, left, right, mid, idx, matches>>
  BY DEF NotFound
<1>3. /\ engine # "stl" /\ pat # <<>> /\ matches = <<>> /\ left \in 0 .. n
      /\ IF OneByte THEN right = 0
         ELSE \/ right \in -1 .. n - 1 /\ Narrowed(text, pat, sa, left, right)
              \/ left = 0 /\ right = SizeModulus - 1
  BY <1>2, Zenon DEF SearchInv, ProbeInv
<1>4. ArrayInv' /\ n' = n /\ (OneByte <=> OneByte')
  BY <1>2, ArrayStays DEF SearchInv
<1>5. DoneInv'
  <2>1. CASE OneByte
    BY <1>4, <2>1, Zenon DEF DoneInv
  <2>2. CASE ~OneByte
    <3>1. right # SizeModulus - 1 \/ left # 0
      BY <1>1, <1>2
    <3>2. right \in -1 .. n - 1 /\ Narrowed(text, pat, sa, left, right)
      BY <1>3, <2>2, <3>1, Zenon
    <3>3. IsSuffixArray(text, sa)
      <4>1. pc \notin {"new", "wild"}
        BY <1>2
      <4> QED
        BY <1>3, <2>2, <4>1, Searched, Zenon
    <3>4. left \in Int /\ right \in Int
      BY <1>1, <1>3, <3>2
    <3>5. \A i \in Offsets(text) : ~Here(text, pat, i)
      BY <1>1, <1>2, <3>2, <3>3, <3>4, NoRankLeft
    <3>6. {i \in Offsets(text) : pat # <<>> /\ Here(text, pat, i)} = {}
      BY <3>5
    <3> QED
      BY <1>2, <1>3, <3>6, NothingListed, Zenon DEF DoneInv
  <2> QED
    BY <2>1, <2>2
<1>6. TypesHere'
  BY <1>2 DEF SearchInv, TypesHere
<1>7. FindInv' /\ ProbeInv' /\ AfterInv' /\ BeforeInv' /\ WildInv'
  <2>1. pc' # "find" /\ pc' # "probe" /\ pc' # "after" /\ pc' # "before" /\ pc' # "wild"
    BY <1>2
  <2> QED
    BY <2>1, Zenon DEF FindInv, ProbeInv, AfterInv, BeforeInv, WildInv
<1> QED
  BY <1>4, <1>5, <1>6, <1>7 DEF SearchInv

\* The neighbours behind the middle.
LEMMA CollectAfterStep ==
  ASSUME SearchInv, CollectAfter
  PROVE  SearchInv'
<1>1. text \in ZeroFree /\ pat \in ZeroFree /\ n \in Nat /\ n = Len(text)
  BY Searched
<1>2. /\ pc = "after" /\ UNCHANGED <<engine, text, sa, pat, left, right, mid>>
      /\ \/ /\ Matching(idx + 1) /\ matches' = Append(matches, Suffix(idx + 1))
            /\ idx' = idx + 1 /\ pc' = pc
         \/ ~Matching(idx + 1) /\ pc' = "before" /\ idx' = mid /\ matches' = matches
  BY Zenon DEF CollectAfter
<1>3. /\ engine # "stl" /\ ~OneByte /\ pat # <<>>
      /\ mid \in 0 .. n - 1 /\ idx \in mid .. n - 1
      /\ HereFromTo(text, pat, sa, mid, idx)
      /\ Returns(matches, RanksFromTo(sa, mid, idx))
  BY <1>2 DEF SearchInv, AfterInv
<1>4. ArrayInv' /\ n' = n /\ (OneByte <=> OneByte')
  BY <1>2, ArrayStays DEF SearchInv
<1>5. IsSuffixArray(text, sa)
  <2>1. pc \notin {"new", "wild"}
    BY <1>2
  <2> QED
    BY <1>3, <2>1, Searched, Zenon
<1>6. idx \in Nat /\ mid \in Nat /\ idx + 1 \in Nat /\ idx <= n - 1 /\ mid <= idx
  BY <1>1, <1>3
<1>7. ASSUME idx + 1 < n
      PROVE  Matching(idx + 1) <=> Here(text, pat, sa[(idx + 1) + 1])
  <2>1. idx + 1 \in 0 .. Len(text) - 1
    BY <1>1, <1>6, <1>7
  <2>2. sa[(idx + 1) + 1] \in Nat
    BY <1>1, <1>5, <2>1, RanksAreOrdered
  <2>3. Occurs(sa[(idx + 1) + 1]) <=> Here(text, pat, sa[(idx + 1) + 1])
    BY <1>1, <2>2, PatternAtOffset
  <2> QED
    BY <1>7, <2>3, Zenon DEF Matching, Suffix
<1>8. CASE Matching(idx + 1) /\ matches' = Append(matches, Suffix(idx + 1)) /\ idx' = idx + 1 /\ pc' = pc
  <2>1. idx + 1 < n
    BY <1>8 DEF Matching
  <2>2. Here(text, pat, sa[(idx + 1) + 1])
    BY <1>7, <1>8, <2>1
  <2>3. idx + 1 \in mid .. n - 1 /\ mid .. (idx + 1) = (mid .. idx) \cup {idx + 1}
    BY <1>1, <1>6, <2>1
  <2>4. HereFromTo(text, pat, sa, mid, idx + 1)
    BY <1>3, <2>2, <2>3, Zenon DEF HereFromTo
  <2>5. Returns(matches', RanksFromTo(sa, mid, idx + 1))
    <3>1. Returns(Append(matches, sa[(idx + 1) + 1]), RanksFromTo(sa, mid, idx + 1))
      BY <1>1, <1>3, <1>5, <2>1, OneRankMore
    <3> QED
      BY <1>8, <3>1, Zenon DEF Suffix
  <2>6. AfterInv'
    BY <1>2, <1>3, <1>4, <1>8, <2>3, <2>4, <2>5, Zenon DEF AfterInv
  <2>7. TypesHere'
    BY <1>2, <1>6, <1>8 DEF SearchInv, TypesHere
  <2>8. DoneInv' /\ FindInv' /\ ProbeInv' /\ BeforeInv' /\ WildInv'
    <3>1. pc' # "done" /\ pc' # "find" /\ pc' # "probe" /\ pc' # "before" /\ pc' # "wild"
      BY <1>2, <1>8
    <3> QED
      BY <3>1, Zenon DEF DoneInv, FindInv, ProbeInv, BeforeInv, WildInv
  <2> QED
    BY <1>4, <2>6, <2>7, <2>8 DEF SearchInv
<1>9. CASE ~Matching(idx + 1) /\ pc' = "before" /\ idx' = mid /\ matches' = matches
  <2>1. idx = n - 1 \/ ~Here(text, pat, sa[(idx + 1) + 1])
    <3>1. idx = n - 1 \/ idx + 1 < n
      BY <1>1, <1>6
    <3> QED
      BY <1>7, <1>9, <3>1
  <2>2. BeforeInv'
    BY <1>2, <1>3, <1>4, <1>9, <2>1, Zenon DEF BeforeInv
  <2>3. TypesHere'
    BY <1>2, <1>6, <1>9 DEF SearchInv, TypesHere
  <2>4. DoneInv' /\ FindInv' /\ ProbeInv' /\ AfterInv' /\ WildInv'
    <3>1. pc' # "done" /\ pc' # "find" /\ pc' # "probe" /\ pc' # "after" /\ pc' # "wild"
      BY <1>9
    <3> QED
      BY <3>1, Zenon DEF DoneInv, FindInv, ProbeInv, AfterInv, WildInv
  <2> QED
    BY <1>4, <2>2, <2>3, <2>4 DEF SearchInv
<1> QED
  BY <1>2, <1>8, <1>9

\* The neighbours before it.
LEMMA CollectBeforeStep ==
  ASSUME SearchInv, CollectBefore
  PROVE  SearchInv'
<1>1. text \in ZeroFree /\ pat \in ZeroFree /\ n \in Nat /\ n = Len(text)
  BY Searched
<1>2. /\ pc = "before" /\ UNCHANGED <<engine, text, sa, pat, left, right, mid>>
      /\ \/ /\ idx > 0 /\ Matching(idx - 1) /\ matches' = Append(matches, Suffix(idx - 1))
            /\ idx' = idx - 1 /\ pc' = pc
         \/ ~(idx > 0 /\ Matching(idx - 1)) /\ pc' = "done" /\ idx' = idx /\ matches' = matches
  BY Zenon DEF CollectBefore
<1>3. engine # "stl" /\ ~OneByte /\ pat # <<>> /\ idx \in 0 .. n - 1
  BY <1>2 DEF SearchInv, BeforeInv
<1>4. PICK last \in idx .. n - 1 :
        /\ last = n - 1 \/ ~Here(text, pat, sa[(last + 1) + 1])
        /\ HereFromTo(text, pat, sa, idx, last)
        /\ Returns(matches, RanksFromTo(sa, idx, last))
  BY <1>2, Zenon DEF SearchInv, BeforeInv
<1>5. ArrayInv' /\ n' = n /\ (OneByte <=> OneByte')
  BY <1>2, ArrayStays DEF SearchInv
<1>6. IsSuffixArray(text, sa)
  <2>1. pc \notin {"new", "wild"}
    BY <1>2
  <2> QED
    BY <1>3, <2>1, Searched, Zenon
<1>7. idx \in Nat /\ idx <= n - 1 /\ idx <= last /\ last \in Nat /\ last <= n - 1
  BY <1>1, <1>3, <1>4
<1>8. ASSUME idx > 0
      PROVE  Matching(idx - 1) <=> Here(text, pat, sa[(idx - 1) + 1])
  <2>1. idx - 1 \in 0 .. Len(text) - 1 /\ idx - 1 < n
    BY <1>1, <1>7, <1>8
  <2>2. sa[(idx - 1) + 1] \in Nat
    BY <1>1, <1>6, <2>1, RanksAreOrdered
  <2>3. Occurs(sa[(idx - 1) + 1]) <=> Here(text, pat, sa[(idx - 1) + 1])
    BY <1>1, <2>2, PatternAtOffset
  <2> QED
    BY <2>1, <2>3, Zenon DEF Matching, Suffix
<1>9. CASE idx > 0 /\ Matching(idx - 1) /\ matches' = Append(matches, Suffix(idx - 1))
           /\ idx' = idx - 1 /\ pc' = pc
  <2>1. Here(text, pat, sa[(idx - 1) + 1])
    BY <1>8, <1>9
  <2>2. /\ idx - 1 \in 0 .. n - 1 /\ idx - 1 \in Nat /\ last \in idx - 1 .. n - 1
        /\ (idx - 1) .. last = (idx .. last) \cup {idx - 1}
    BY <1>1, <1>7, <1>9
  <2>3. HereFromTo(text, pat, sa, idx - 1, last)
    BY <1>4, <2>1, <2>2, Zenon DEF HereFromTo
  <2>4. Returns(matches', RanksFromTo(sa, idx - 1, last))
    <3>1. Returns(Append(matches, sa[(idx - 1) + 1]), RanksFromTo(sa, idx - 1, last))
      BY <1>1, <1>3, <1>4, <1>6, <1>9, OneRankMore
    <3> QED
      BY <1>9, <3>1, Zenon DEF Suffix
  <2>5. BeforeInv'
    BY <1>2, <1>3, <1>4, <1>5, <1>9, <2>2, <2>3, <2>4, Zenon DEF BeforeInv
  <2>6. TypesHere'
    BY <1>2, <1>9, <2>2 DEF SearchInv, TypesHere
  <2>7. DoneInv' /\ FindInv' /\ ProbeInv' /\ AfterInv' /\ WildInv'
    <3>1. pc' # "done" /\ pc' # "find" /\ pc' # "probe" /\ pc' # "after" /\ pc' # "wild"
      BY <1>2, <1>9
    <3> QED
      BY <3>1, Zenon DEF DoneInv, FindInv, ProbeInv, AfterInv, WildInv
  <2> QED
    BY <1>5, <2>5, <2>6, <2>7 DEF SearchInv
<1>10. CASE ~(idx > 0 /\ Matching(idx - 1)) /\ pc' = "done" /\ idx' = idx /\ matches' = matches
  <2>1. idx = 0 \/ ~Here(text, pat, sa[(idx - 1) + 1])
    <3>1. idx = 0 \/ idx > 0
      BY <1>7
    <3> QED
      BY <1>8, <1>10, <3>1
  <2>2. {i \in Offsets(text) : Here(text, pat, i)} = RanksFromTo(sa, idx, last)
    BY <1>1, <1>3, <1>4, <1>6, <2>1, NeighboursAreAll
  <2>3. {i \in Offsets(text) : pat # <<>> /\ Here(text, pat, i)}
          = {i \in Offsets(text) : Here(text, pat, i)}
    BY <1>3
  <2>4. DoneInv'
    BY <1>2, <1>4, <1>10, <2>2, <2>3, Zenon DEF DoneInv
  <2>5. TypesHere'
    BY <1>2, <1>7, <1>10 DEF SearchInv, TypesHere
  <2>6. BeforeInv' /\ FindInv' /\ ProbeInv' /\ AfterInv' /\ WildInv'
    <3>1. pc' # "before" /\ pc' # "find" /\ pc' # "probe" /\ pc' # "after" /\ pc' # "wild"
      BY <1>10
    <3> QED
      BY <3>1, Zenon DEF BeforeInv, FindInv, ProbeInv, AfterInv, WildInv
  <2> QED
    BY <1>5, <2>4, <2>5, <2>6 DEF SearchInv
<1> QED
  BY <1>2, <1>9, <1>10

\* The invariant holds of a searcher that is being built,
LEMMA SearchStarts == ASSUME Init PROVE SearchInv
<1>1. /\ engine \in Engines /\ text \in Texts /\ pc = "new" /\ sa = <<>> /\ pat = <<>>
      /\ left = 0 /\ right = 0 /\ mid = 0 /\ idx = 0
  BY DEF Init
<1>2. text \in ZeroFree /\ 0 \in -1 .. SizeModulus - 1
  <2>1. 3 * Len(text) + 3 < SizeModulus /\ SizeModulus \in Nat /\ text \in ZeroFree
    BY <1>1, SearchAssumption, BytesAreZeroFree DEF SearchAssumption
  <2>2. Len(text) \in Nat
    BY <2>1
  <2> QED
    BY <2>1, <2>2
<1>3. TypesHere
  BY <1>1, <1>2 DEF TypesHere, ZeroFree
<1> QED
  BY <1>1, <1>3 DEF SearchInv, ArrayInv, FindInv, ProbeInv, AfterInv, BeforeInv, DoneInv, WildInv

\* every step keeps it,
LEMMA SearchSteps ==
  ASSUME SearchInv, [Next]_vars
  PROVE  SearchInv'
<1>1. CASE UNCHANGED vars
  BY <1>1 DEF vars, SearchInv, TypesHere, ArrayInv, FindInv, ProbeInv, AfterInv, BeforeInv,
              DoneInv, WildInv, n, OneByte, Undefined
<1>2. ASSUME NEW p \in Patterns, Search(p) PROVE SearchInv'
  BY <1>2, SearchStep
<1> QED
  BY <1>1, <1>2, BuildStep, StlFindStep, StlExhaustedStep, ProbeStep, NotFoundStep,
     CollectAfterStep, CollectBeforeStep DEF Next, Continue

\* The array and the result list offsets.
ListsOffsets == sa \in Seq(Nat) /\ matches \in Seq(Nat)

LEMMA ListsStart == ASSUME Init PROVE ListsOffsets
  BY EmptySeq DEF Init, ListsOffsets

LEMMA SuffixIsOffset ==
  ASSUME SearchInv, engine # "stl", pc \notin {"new", "wild"}, NEW r \in 0 .. n - 1
  PROVE  Suffix(r) \in Nat
<1>1. IF OneByte THEN sa = <<1>> ELSE IsSuffixArray(text, sa)
  BY Searched
<1>2. n \in Nat /\ n = Len(text) /\ Offsets(text) \subseteq Nat
  BY Searched DEF Offsets
<1>3. CASE OneByte
  <2>1. n = 1 /\ sa = <<1>>
    BY <1>1, <1>3 DEF OneByte
  <2>2. r = 0
    BY <2>1
  <2> QED
    BY <2>1, <2>2 DEF Suffix
<1>4. CASE ~OneByte
  <2>1. sa \in [1 .. n -> Offsets(text)]
    BY <1>1, <1>2, <1>4 DEF IsSuffixArray
  <2>2. r + 1 \in 1 .. n
    BY <1>2
  <2> QED
    BY <1>2, <2>1, <2>2 DEF Suffix
<1> QED
  BY <1>3, <1>4

LEMMA ListsStep ==
  ASSUME SearchInv, ListsOffsets, [Next]_vars
  PROVE  ListsOffsets'
<1>0. SearchInv' /\ sa \in Seq(Nat) /\ matches \in Seq(Nat)
  BY SearchSteps DEF ListsOffsets
<1>1. CASE Build
  <2>1. UNCHANGED <<engine, text, matches>>
    BY <1>1 DEF Build
  <2>2. CASE engine = "stl"
    <3>1. sa' = sa
      BY <1>1, <2>2, Zenon DEF Build
    <3> QED
      BY <1>0, <2>1, <3>1 DEF ListsOffsets
  <2>3. CASE engine # "stl" /\ pc' # "new"
    <3>1. IF Undefined' THEN sa' = <<>>
          ELSE IF OneByte' THEN sa' = <<1>> ELSE IsSuffixArray(text', sa')
      BY <1>0, <2>1, <2>3, Zenon DEF SearchInv, ArrayInv
    <3>2. sa' = <<>> \/ sa' = <<1>> \/ IsSuffixArray(text', sa')
      BY <3>1, Zenon
    <3>3. IsSuffixArray(text', sa') => sa' \in Seq(Nat)
      <4> SUFFICES ASSUME IsSuffixArray(text, sa') PROVE sa' \in Seq(Nat)
        BY <2>1
      <4>1. n \in Nat /\ n = Len(text) /\ Offsets(text) \subseteq Nat
        BY Searched DEF Offsets
      <4>2. sa' \in [1 .. n -> Nat]
        BY <4>1 DEF IsSuffixArray
      <4> QED
        BY <4>1, <4>2
    <3>4. <<>> \in Seq(Nat) /\ <<1>> \in Seq(Nat)
      OBVIOUS
    <3>5. sa' \in Seq(Nat)
      BY <3>2, <3>3, <3>4, Zenon
    <3>6. matches' \in Seq(Nat)
      BY <1>0, <2>1
    <3> QED
      BY <3>5, <3>6, Zenon DEF ListsOffsets
  <2>4. pc' # "new"
    <3>1. pc' = "ready" \/ pc' = "wild"
      BY <1>1, Zenon DEF Build
    <3> QED
      BY <3>1
  <2> QED
    BY <2>2, <2>3, <2>4
<1>2. CASE StlFind
  <2>1. PICK i \in left .. n : matches' = Append(matches, i) /\ sa' = sa
    BY <1>2 DEF StlFind
  <2>2. left \in Nat
    BY DEF SearchInv, TypesHere
  <2> QED
    BY <1>0, <2>1, <2>2 DEF ListsOffsets
<1>3. CASE Probe
  <2>1. sa' = sa /\ (matches' = matches \/ (mid' < n /\ matches' = <<Suffix(mid')>>))
    <3>1. CASE mid' >= n
      BY <1>3, <3>1 DEF Probe
    <3>2. CASE ~(mid' >= n)
      <4>1. mid' \in Nat /\ n \in Nat
        BY <1>0, Searched DEF SearchInv, TypesHere
      <4> QED
        BY <1>3, <3>2, <4>1 DEF Probe
    <3> QED
      BY <3>1, <3>2
  <2>2. engine # "stl" /\ pc = "probe" /\ mid' \in Nat /\ n \in Nat
    BY <1>0, <1>3, Searched DEF Probe, SearchInv, ProbeInv, TypesHere
  <2>3. mid' < n => Suffix(mid') \in Nat
    BY <2>2, SuffixIsOffset
  <2>4. mid' < n => <<Suffix(mid')>> \in Seq(Nat)
    <3> SUFFICES ASSUME mid' < n PROVE <<Suffix(mid')>> \in Seq(Nat)
      OBVIOUS
    <3>1. ASSUME NEW o \in Nat PROVE <<o>> \in Seq(Nat)
      OBVIOUS
    <3> QED
      BY <2>3, <3>1
  <2>5. matches' \in Seq(Nat)
    BY <1>0, <2>1, <2>4, Zenon
  <2> QED
    BY <1>0, <2>1, <2>5, Zenon DEF ListsOffsets
<1>4. ASSUME CollectAfter \/ CollectBefore PROVE ListsOffsets'
  <2>1. engine # "stl" /\ pc \notin {"new", "wild"} /\ idx \in Nat /\ n \in Nat
    BY <1>4, Searched DEF CollectAfter, CollectBefore, SearchInv, AfterInv, BeforeInv, TypesHere
  <2>2. sa' = sa /\ \/ matches' = matches
                    \/ \E r \in 0 .. n - 1 : matches' = Append(matches, Suffix(r))
    <3>1. CASE CollectAfter
      <4>1. CASE Matching(idx + 1)
        BY <2>1, <3>1, <4>1 DEF CollectAfter, Matching
      <4>2. CASE ~Matching(idx + 1)
        BY <3>1, <4>2 DEF CollectAfter
      <4> QED
        BY <4>1, <4>2
    <3>2. CASE CollectBefore
      <4>1. CASE idx > 0 /\ Matching(idx - 1)
        BY <2>1, <3>2, <4>1 DEF CollectBefore, Matching
      <4>2. CASE ~(idx > 0 /\ Matching(idx - 1))
        BY <3>2, <4>2 DEF CollectBefore
      <4> QED
        BY <4>1, <4>2
    <3> QED
      BY <1>4, <3>1, <3>2
  <2>3. \A r \in 0 .. n - 1 : Suffix(r) \in Nat
    BY <2>1, SuffixIsOffset
  <2>4. ASSUME NEW o \in Nat PROVE Append(matches, o) \in Seq(Nat)
    BY <1>0
  <2>5. matches' \in Seq(Nat)
    BY <1>0, <2>2, <2>3, <2>4, Zenon
  <2> QED
    BY <1>0, <2>2, <2>5, Zenon DEF ListsOffsets
<1>5. CASE StlExhausted \/ NotFound \/ UNCHANGED vars
  BY <1>0, <1>5 DEF StlExhausted, NotFound, vars, ListsOffsets
<1>6. ASSUME NEW p \in Patterns, Search(p) PROVE ListsOffsets'
  BY <1>0, <1>6, EmptySeq DEF Search, ListsOffsets
<1> QED
  BY <1>1, <1>2, <1>3, <1>4, <1>5, <1>6 DEF Next, Continue

\* What the invariant says of the properties.
LEMMA SearchInvGives ==
  ASSUME SearchInv, ListsOffsets
  PROVE  TypeOK /\ FindsAllOccurrences /\ WildOnlyBelowAll /\ Dc3SortsSuffixes
<1>1. text \in ZeroFree /\ pat \in ZeroFree /\ n \in Nat /\ n = Len(text)
  BY Searched
<1>2. \A i \in Offsets(text) : i \in Nat
  BY <1>1 DEF Offsets
<1>3. TypeOK
  <2>1. pc = "new" \/ engine = "stl" \/ Len(sa) = n \/ (pc = "wild" /\ sa = <<>>)
    <3>1. ASSUME IsSuffixArray(text, sa) PROVE Len(sa) = n
      <4>1. sa \in [1 .. Len(text) -> Offsets(text)]
        BY <3>1 DEF IsSuffixArray
      <4> QED
        BY <1>1, <4>1
    <3>2. OneByte /\ sa = <<1>> => Len(sa) = n
      BY DEF OneByte
    <3> QED
      BY <3>1, <3>2, Zenon DEF SearchInv, ArrayInv
  <2>2. pat \in Seq(Nat \ {0})
    BY <1>1 DEF ZeroFree
  <2> QED
    BY <2>1, <2>2 DEF SearchInv, TypesHere, ListsOffsets, TypeOK
<1>4. FindsAllOccurrences
  <2> SUFFICES ASSUME pc = "done", ~OneByte
               PROVE  /\ \A i \in Offsets(text) :
                           (pat # <<>> /\ Occurs(i)) <=> \E m \in DOMAIN matches : matches[m] = i
                      /\ \A a, b \in DOMAIN matches : a # b => matches[a] # matches[b]
    BY DEF FindsAllOccurrences, OneByte
  <2>1. Returns(matches, {i \in Offsets(text) : pat # <<>> /\ Here(text, pat, i)})
    BY Zenon DEF SearchInv, DoneInv
  <2>2. DOMAIN matches = 1 .. Len(matches)
    BY <2>1 DEF Returns
  <2>3. \A i \in Offsets(text) : Occurs(i) <=> Here(text, pat, i)
    BY <1>1, <1>2, PatternAtOffset
  <2> QED
    BY <1>2, <2>1, <2>2, <2>3, Zenon DEF Returns
<1>5. WildOnlyBelowAll
  <2>1. \A i \in Offsets(text) : PatternBelow(i) <=> Below(text, pat, i)
    BY <1>1, <1>2, PatternAtOffset
  <2> QED
    BY <2>1, Zenon DEF SearchInv, WildInv, WildOnlyBelowAll, Undefined
<1>6. Dc3SortsSuffixes
  <2> SUFFICES ASSUME engine = "dc3", pc = "ready"
               PROVE  sa = IF n = 1 THEN <<1>> ELSE SortedSuffixes(text)
    BY DEF Dc3SortsSuffixes
  <2>1. IF OneByte THEN sa = <<1>> ELSE IsSuffixArray(text, sa)
    <3>1. pc \notin {"new", "wild"} /\ engine # "stl"
      OBVIOUS
    <3> QED
      BY <3>1, Searched
  <2>2. IsSuffixArray(text, SortedSuffixes(text))
    BY <1>1, SortedIsSuffixArray
  <2>3. IsSuffixArray(text, sa) => sa = SortedSuffixes(text)
    BY <1>1, <2>2, OneSuffixArray
  <2> QED
    BY <2>1, <2>3, Zenon DEF OneByte
<1> QED
  BY <1>3, <1>4, <1>5, <1>6

\* so it holds always.
LEMMA SearchKeepsInv == Spec => [](SearchInv /\ ListsOffsets)
<1>1. Init => SearchInv /\ ListsOffsets
  BY SearchStarts, ListsStart
<1>2. SearchInv /\ ListsOffsets /\ [Next]_vars => (SearchInv /\ ListsOffsets)'
  BY SearchSteps, ListsStep
<1> QED
  BY <1>1, <1>2, PTL DEF Spec

\* Every variable keeps its type, and the array has a rank for each offset of the
\* text (string.cc, the constructors and search() of all four engines).
THEOREM SearchesAreTyped == Spec => []TypeOK
<1>1. SearchInv /\ ListsOffsets => TypeOK
  BY SearchInvGives
<1> QED
  BY <1>1, SearchKeepsInv, PTL

\* DC3, with its recursion on names and its merge, makes the array that std::sort
\* makes with strcmp, for every text but those of one byte (string.cc, suffixArray).
THEOREM Dc3BuildsSorted == Spec => []Dc3SortsSuffixes
<1>1. SearchInv /\ ListsOffsets => Dc3SortsSuffixes
  BY SearchInvGives
<1> QED
  BY <1>1, SearchKeepsInv, PTL

\* search() returns each occurrence of any pattern in any text, and none twice, in
\* all four engines and whatever was searched before (string.hh: "all indices in
\* input_text where pattern can be found").
THEOREM SearchesFindAll == Spec => []FindsAllOccurrences
<1>1. SearchInv /\ ListsOffsets => FindsAllOccurrences
  BY SearchInvGives
<1> QED
  BY <1>1, SearchKeepsInv, PTL

\* A search leaves its array only in an engine that counts in size_t and for a
\* pattern below every suffix; DC3's constructor is undefined only for a text with
\* a negative char (string.cc, right = mid - 1 of sarr_cx11 and sarr_dc3).
THEOREM SearchesAreDefined == Spec => []WildOnlyBelowAll
<1>1. SearchInv /\ ListsOffsets => WildOnlyBelowAll
  BY SearchInvGives
<1> QED
  BY <1>1, SearchKeepsInv, PTL

-----------------------------------------------------------------------------
(* The bounds of sarr_c, which need no more than the length of the text.   *)

\* In int, right may go down to -1 and left up to n, and nothing wraps: while
\* left <= right the middle is a rank.
BoundsInv ==
  engine = "c" =>
    /\ pc # "wild"
    /\ pc = "probe" => left \in 0 .. n /\ right \in -1 .. n - 1

Inv == text \in Texts /\ BoundsInv

\* A text has a length.
LEMMA LengthIsNat == ASSUME text \in Texts PROVE n \in Nat
BY SearchAssumption DEF n, SearchAssumption

\* A turn of the binary search keeps the bounds.
LEMMA ProbeKeepsBounds ==
  ASSUME Inv, Probe, engine = "c"
  PROVE  pc' # "wild" /\ (pc' = "probe" => left' \in 0 .. n /\ right' \in -1 .. n - 1)
<1>1. n \in Nat
  BY LengthIsNat DEF Inv
<1>2. left \in 0 .. n /\ right \in -1 .. n - 1 /\ left <= right
  BY DEF Inv, BoundsInv, Probe
<1>3. mid' = Middle /\ Middle \in left .. right
  BY <1>1, <1>2, MiddleBetween DEF Probe
<1>4. mid' \in 0 .. n - 1
  BY <1>1, <1>2, <1>3
<1>5. pc' = "after" \/ (pc' = "probe" /\ right' = mid' - 1 /\ left' = left)
                   \/ (pc' = "probe" /\ left' = mid' + 1 /\ right' = right)
  BY <1>1, <1>4 DEF Probe, BelowMiddle, AboveMiddle, SizeEngines
<1> QED
  BY <1>1, <1>2, <1>4, <1>5

\* The engine in int never reads outside its suffix array: the last rank, the
\* first one and the empty interval are all met inside (string.cc, sarr_c).
THEOREM IntSearchIsSafe == Spec => []IntSearchStaysInside
<1>1. Init => Inv
  BY DEF Init, Inv, BoundsInv
<1>2. Inv /\ [Next]_vars => Inv'
  <2> SUFFICES ASSUME Inv, [Next]_vars PROVE Inv'
    OBVIOUS
  <2> n \in Nat
    BY LengthIsNat DEF Inv
  <2> USE DEF Inv, BoundsInv
  <2>1. CASE Build
    BY <2>1 DEF Build
  <2>2. ASSUME NEW p \in Patterns, Search(p) PROVE Inv'
    BY <2>2 DEF Search, LastRank, n
  <2>3. CASE StlFind
    BY <2>3 DEF StlFind, n
  <2>4. CASE StlExhausted
    BY <2>4 DEF StlExhausted
  <2>5. CASE Probe
    <3>1. text' = text /\ engine' = engine /\ n' = n
      BY <2>5 DEF Probe, n
    <3> QED
      BY <2>5, <3>1, ProbeKeepsBounds
  <2>6. CASE NotFound
    BY <2>6 DEF NotFound
  <2>7. CASE CollectAfter
    BY <2>7 DEF CollectAfter
  <2>8. CASE CollectBefore
    BY <2>8 DEF CollectBefore
  <2>9. CASE UNCHANGED vars
    BY <2>9 DEF vars, n
  <2> QED
    BY <2>1, <2>2, <2>3, <2>4, <2>5, <2>6, <2>7, <2>8, <2>9 DEF Next, Continue
<1>3. Inv => IntSearchStaysInside
  BY DEF Inv, BoundsInv, IntSearchStaysInside
<1> QED
  BY <1>1, <1>2, <1>3, PTL DEF Spec
=============================================================================
