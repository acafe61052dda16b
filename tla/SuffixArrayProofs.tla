--------------------------- MODULE SuffixArrayProofs ---------------------------
(***************************************************************************)
(* Suffix arrays, for all texts: strcmp orders the suffixes totally, so    *)
(* there is one array they are sorted in, and the DC3 construction makes   *)
(* it, but for a text of one byte.                                         *)
(***************************************************************************)
EXTENDS SuffixArray, FiniteSetTheorems, SequenceTheorems, WellFoundedInduction, TLAPS

-----------------------------------------------------------------------------
\* A set of numbers has a smallest one; so what holds of no smallest number holds
\* of none.
LEMMA Smallest ==
  ASSUME NEW S \in SUBSET Nat, S # {}
  PROVE  \E m \in S : \A y \in S : m <= y
<1>1. PICK m \in S : \A y \in S : <<y, m>> \notin OpToRel(<, Nat)
  BY NatLessThanWellFounded, WFMin, Zenon
<1>2. \A y \in S : ~(y < m)
  BY <1>1 DEF OpToRel
<1> QED
  BY <1>2

-----------------------------------------------------------------------------
(* Recursion.                                                              *)

\* F looks only at what its argument gives for elements of less measure m.
LooksBelow(S, V, m, F) ==
  \A g, h \in [S -> V], x \in S :
    (\A y \in S : m[y] < m[x] => g[y] = h[y]) => F[g][x] = F[h][x]

\* h is what F makes of it, as far as measure k.
FixedTo(S, m, F, h, k) == \A x \in S : m[x] < k => F[h][x] = h[x]

\* Two such functions are one, as far as both go.
LEMMA FixedIsOne ==
  ASSUME NEW S, NEW V, NEW m \in [S -> Nat], NEW F, LooksBelow(S, V, m, F),
         NEW g \in [S -> V], NEW h \in [S -> V], NEW a \in Nat, NEW b \in Nat,
         FixedTo(S, m, F, g, a), FixedTo(S, m, F, h, b)
  PROVE  \A x \in S : m[x] < a /\ m[x] < b => g[x] = h[x]
<1> DEFINE Bad == {x \in S : m[x] < a /\ m[x] < b /\ g[x] # h[x]}
<1>1. SUFFICES ASSUME Bad # {} PROVE FALSE
  OBVIOUS
<1>2. {m[x] : x \in Bad} \in SUBSET Nat /\ {m[x] : x \in Bad} # {}
  BY <1>1
<1>3. PICK k \in {m[x] : x \in Bad} : \A y \in {m[x] : x \in Bad} : k <= y
  <2> HIDE DEF Bad
  <2> QED
    BY <1>2, Smallest
<1>4. PICK x \in Bad : m[x] = k
  BY <1>3
<1>5. ASSUME NEW y \in S, m[y] < m[x] PROVE g[y] = h[y]
  <2>1. m[x] \in Nat /\ m[y] \in Nat /\ m[x] < a /\ m[x] < b
    BY <1>4
  <2>2. m[y] < a /\ m[y] < b
    BY <1>5, <2>1
  <2>3. y \notin Bad
    BY <1>3, <1>4, <1>5, <2>1
  <2> QED
    BY <2>2, <2>3
<1>6. F[g][x] = F[h][x]
  BY <1>5 DEF LooksBelow
<1>7. F[g][x] = g[x] /\ F[h][x] = h[x]
  BY DEF FixedTo
<1> QED
  BY <1>6, <1>7

\* F is the body of a definition by recursion on the measure m.
ByRecursion(S, V, m, F) ==
  /\ m \in [S -> Nat] /\ F \in [[S -> V] -> [S -> V]]
  /\ LooksBelow(S, V, m, F) /\ [S -> V] # {}

Defined(S, V, F) == \E f \in [S -> V] : F[f] = f

\* A definition by recursion on the measure defines a function.
LEMMA Recursion ==
  ASSUME NEW S, NEW V, NEW m, NEW F, ByRecursion(S, V, m, F)
  PROVE  Defined(S, V, F)
<1>0. /\ m \in [S -> Nat] /\ F \in [[S -> V] -> [S -> V]]
      /\ LooksBelow(S, V, m, F) /\ [S -> V] # {}
  BY DEF ByRecursion
<1> USE <1>0
<1> DEFINE Bad == {k \in Nat : \A h \in [S -> V] : ~FixedTo(S, m, F, h, k)}
<1>1. Bad = {}
  <2>1. SUFFICES ASSUME Bad # {} PROVE FALSE
    OBVIOUS
  <2>2. PICK k \in Bad : \A l \in Bad : k <= l
    <3>1. Bad \in SUBSET Nat
      OBVIOUS
    <3> HIDE DEF Bad
    <3> QED
      BY <2>1, <3>1, Smallest
  <2>3. k # 0
    <3>1. PICK h \in [S -> V] : TRUE
      OBVIOUS
    <3>2. FixedTo(S, m, F, h, 0)
      BY DEF FixedTo
    <3> QED
      BY <3>2
  <2>4. k - 1 \in Nat /\ k - 1 < k
    BY <2>3
  <2>5. PICK h \in [S -> V] : FixedTo(S, m, F, h, k - 1)
    BY <2>2, <2>4
  <2>6. F[h] \in [S -> V]
    OBVIOUS
  <2>7. ASSUME NEW x \in S, m[x] < k PROVE F[F[h]][x] = F[h][x]
    <3>1. ASSUME NEW y \in S, m[y] < m[x] PROVE F[h][y] = h[y]
      <4>1. m[x] \in Nat /\ m[y] \in Nat /\ k \in Nat
        OBVIOUS
      <4>2. m[y] < k - 1
        BY <2>7, <3>1, <4>1
      <4> QED
        BY <2>5, <4>2 DEF FixedTo
    <3> QED
      BY <2>6, <3>1 DEF LooksBelow
  <2>8. FixedTo(S, m, F, F[h], k)
    BY <2>7 DEF FixedTo
  <2> QED
    BY <2>6, <2>8
<1>2. \A k \in Nat : \E h \in [S -> V] : FixedTo(S, m, F, h, k)
  BY <1>1
<1> HIDE DEF Bad
<1> DEFINE to(k) == CHOOSE h \in [S -> V] : FixedTo(S, m, F, h, k)
           f == [x \in S |-> to(m[x] + 1)[x]]
<1>3. ASSUME NEW k \in Nat PROVE to(k) \in [S -> V] /\ FixedTo(S, m, F, to(k), k)
  BY <1>2
<1> HIDE DEF to
<1>4. \A x \in S : m[x] \in Nat /\ m[x] + 1 \in Nat
  OBVIOUS
<1>5. f \in [S -> V]
  BY <1>3, <1>4
<1>6. ASSUME NEW x \in S PROVE F[f][x] = f[x]
  <2>1. to(m[x] + 1) \in [S -> V] /\ FixedTo(S, m, F, to(m[x] + 1), m[x] + 1)
    BY <1>3, <1>4
  <2>2. ASSUME NEW y \in S, m[y] < m[x] PROVE f[y] = to(m[x] + 1)[y]
    <3>1. to(m[y] + 1) \in [S -> V] /\ FixedTo(S, m, F, to(m[y] + 1), m[y] + 1)
      BY <1>3, <1>4
    <3>2. m[y] < m[y] + 1 /\ m[y] < m[x] + 1
      BY <1>4, <2>2
    <3>3. to(m[y] + 1)[y] = to(m[x] + 1)[y]
      BY <1>4, <2>1, <3>1, <3>2, FixedIsOne
    <3> QED
      BY <3>3
  <2>3. F[f][x] = F[to(m[x] + 1)][x]
    <3> HIDE DEF f
    <3> QED
      BY <1>5, <2>1, <2>2 DEF LooksBelow
  <2>4. m[x] < m[x] + 1
    BY <1>4
  <2>5. F[to(m[x] + 1)][x] = to(m[x] + 1)[x]
    BY <2>1, <2>4 DEF FixedTo
  <2> QED
    BY <2>3, <2>5
<1>7. F[f] \in [S -> V]
  BY <1>5
<1>8. F[f] = f
  <2> HIDE DEF f
  <2> QED
    BY <1>5, <1>6, <1>7
<1> QED
  BY <1>5, <1>8 DEF Defined

-----------------------------------------------------------------------------
(* Places in an order.                                                     *)

\* The pairs of L order D: of two elements, one is before the other.
Orders(L, D) ==
  /\ \A i, j \in D : <<i, j>> \in L \/ <<j, i>> \in L
  /\ \A i, j \in D : <<i, j>> \in L /\ <<j, i>> \in L => i = j
  /\ \A i, j, k \in D : <<i, j>> \in L /\ <<j, k>> \in L => <<i, k>> \in L

\* The place of an element in that order, from 1.
Place(L, D) == [i \in D |-> Cardinality({j \in D : <<j, i>> \in L})]

\* Each place has one element, and places grow with the order.
LEMMA Places ==
  ASSUME NEW D, IsFiniteSet(D), NEW L, Orders(L, D)
  PROVE  /\ Place(L, D) \in Bijection(D, 1 .. Cardinality(D))
         /\ \A i, j \in D : <<i, j>> \in L <=> Place(L, D)[i] <= Place(L, D)[j]
<1> DEFINE upto(i) == {j \in D : <<j, i>> \in L}
<1>1. ASSUME NEW i \in D PROVE <<i, i>> \in L
  BY DEF Orders
<1>2. ASSUME NEW i \in D
      PROVE  /\ IsFiniteSet(upto(i)) /\ Cardinality(upto(i)) \in 1 .. Cardinality(D)
             /\ Place(L, D)[i] = Cardinality(upto(i))
  <2>1. upto(i) \in SUBSET D /\ i \in upto(i)
    BY <1>1
  <2>2. Place(L, D)[i] = Cardinality(upto(i))
    BY DEF Place
  <2> HIDE DEF upto
  <2>3. IsFiniteSet(upto(i)) /\ Cardinality(upto(i)) <= Cardinality(D)
    BY <2>1, FS_Subset
  <2>4. Cardinality(upto(i)) # 0
    BY <2>1, <2>3, FS_EmptySet
  <2>5. Cardinality(upto(i)) \in Nat /\ Cardinality(D) \in Nat
    BY <2>3, FS_CardinalityType
  <2> QED
    BY <2>2, <2>3, <2>4, <2>5
<1>3. ASSUME NEW i \in D, NEW j \in D, <<i, j>> \in L, i # j
      PROVE  Cardinality(upto(i)) < Cardinality(upto(j))
  <2>1. upto(i) \in SUBSET upto(j)
    BY <1>3 DEF Orders
  <2>2. j \in upto(j) /\ j \notin upto(i)
    BY <1>1, <1>3 DEF Orders
  <2>3. /\ IsFiniteSet(upto(j)) /\ Cardinality(upto(i)) \in 1 .. Cardinality(D)
        /\ Cardinality(upto(j)) \in 1 .. Cardinality(D)
    BY <1>2
  <2> HIDE DEF upto
  <2>4. Cardinality(upto(i)) <= Cardinality(upto(j)) /\ Cardinality(upto(i)) # Cardinality(upto(j))
    BY <2>1, <2>2, <2>3, FS_Subset
  <2>5. Cardinality(D) \in Nat
    BY FS_CardinalityType
  <2> QED
    BY <2>3, <2>4, <2>5
<1> HIDE DEF upto
<1>4. Cardinality(D) \in Nat
  BY FS_CardinalityType
<1>5. ASSUME NEW i \in D, NEW j \in D
      PROVE  <<i, j>> \in L <=> Place(L, D)[i] <= Place(L, D)[j]
  <2>1. /\ Place(L, D)[i] = Cardinality(upto(i)) /\ Cardinality(upto(i)) \in Nat
        /\ Place(L, D)[j] = Cardinality(upto(j)) /\ Cardinality(upto(j)) \in Nat
    BY <1>2, <1>4
  <2>2. CASE i = j
    BY <1>1, <2>1, <2>2
  <2>3. CASE i # j
    <3>1. <<i, j>> \in L => Cardinality(upto(i)) < Cardinality(upto(j))
      BY <1>3, <2>3
    <3>2. <<j, i>> \in L => Cardinality(upto(j)) < Cardinality(upto(i))
      BY <1>3, <2>3
    <3>3. <<i, j>> \in L \/ <<j, i>> \in L
      BY DEF Orders
    <3> QED
      BY <2>1, <3>1, <3>2, <3>3
  <2> QED
    BY <2>2, <2>3
<1>6. Place(L, D) \in [D -> 1 .. Cardinality(D)]
  <2>1. Place(L, D) = [i \in D |-> Cardinality(upto(i))]
    BY DEF Place, upto
  <2> QED
    BY <1>2, <2>1
<1>7. ASSUME NEW i \in D, NEW j \in D, Place(L, D)[i] = Place(L, D)[j] PROVE i = j
  <2>1. Place(L, D)[i] \in Nat /\ Place(L, D)[j] \in Nat
    BY <1>4, <1>6
  <2>2. <<i, j>> \in L /\ <<j, i>> \in L
    BY <1>5, <1>7, <2>1
  <2> QED
    BY <2>2 DEF Orders
<1>8. Place(L, D) \in Injection(D, 1 .. Cardinality(D))
  BY <1>6, <1>7 DEF Injection, IsInjective
<1>9. IsFiniteSet(1 .. Cardinality(D)) /\ Cardinality(1 .. Cardinality(D)) = Cardinality(D)
  BY <1>4, FS_Interval
<1>10. Place(L, D) \in Surjection(D, 1 .. Cardinality(D))
  BY <1>8, <1>9, FS_Injection
<1> QED
  BY <1>5, <1>8, <1>10 DEF Bijection

\* The element at a place.
LEMMA AtPlace ==
  ASSUME NEW D, IsFiniteSet(D), NEW L, Orders(L, D),
         NEW e, e = [r \in 1 .. Cardinality(D) |-> CHOOSE i \in D : Place(L, D)[i] = r]
  PROVE  /\ e \in Bijection(1 .. Cardinality(D), D)
         /\ \A r \in 1 .. Cardinality(D) : Place(L, D)[e[r]] = r
         /\ \A q, r \in 1 .. Cardinality(D) : q <= r => <<e[q], e[r]>> \in L
<1> DEFINE C == 1 .. Cardinality(D)
           f == Place(L, D)
<1>1. f \in Bijection(D, C) /\ \A i, j \in D : <<i, j>> \in L <=> f[i] <= f[j]
  BY Places
<1> HIDE DEF f, C
<1>2. /\ f \in [D -> C] /\ \A i, j \in D : f[i] = f[j] => i = j
      /\ \A r \in C : \E i \in D : f[i] = r
  BY <1>1, Zenon DEF Bijection, Injection, IsInjective, Surjection
<1>3. e = [r \in C |-> CHOOSE i \in D : f[i] = r]
  BY DEF f, C
<1>4. ASSUME NEW r \in C PROVE e[r] \in D /\ f[e[r]] = r
  <2>1. e[r] = CHOOSE i \in D : f[i] = r
    BY <1>3, Zenon
  <2> QED
    BY <1>2, <2>1, Zenon
<1>5. e \in [C -> D]
  BY <1>3, <1>4, Zenon
<1>6. \A i \in D : f[i] \in C /\ e[f[i]] = i
  BY <1>2, <1>4, Zenon
<1>7. \A q, r \in C : e[q] = e[r] => q = r
  BY <1>4, Zenon
<1>8. e \in Injection(C, D)
  BY <1>5, <1>7, Zenon DEF Injection, IsInjective
<1>9. e \in Surjection(C, D)
  BY <1>5, <1>6, Zenon DEF Surjection
<1>10. ASSUME NEW q \in C, NEW r \in C, q <= r PROVE <<e[q], e[r]>> \in L
  <2>1. e[q] \in D /\ e[r] \in D /\ f[e[q]] <= f[e[r]]
    BY <1>4, <1>10
  <2> QED
    BY <1>1, <2>1, Zenon
<1> QED
  BY <1>4, <1>8, <1>9, <1>10 DEF C, f, Bijection
-----------------------------------------------------------------------------
(* The order of strcmp and strncmp.                                        *)

\* The first place where two strings differ is among the first P, and f is less
\* there.
Less(f, g, P) ==
  \E k \in 0 .. P - 1 : f[k] < g[k] /\ \A m \in 0 .. k - 1 : f[m] = g[m]

\* Of two strings that differ, one is less: at the first place where they do.
LEMMA LessIsTotal ==
  ASSUME NEW f \in [Nat -> Nat], NEW g \in [Nat -> Nat], NEW P \in Nat,
         \E k \in 0 .. P - 1 : f[k] # g[k]
  PROVE  Less(f, g, P) \/ Less(g, f, P)
<1> DEFINE Differ == {k \in 0 .. P - 1 : f[k] # g[k]}
<1>1. Differ \in SUBSET Nat /\ Differ # {}
  OBVIOUS
<1>2. PICK k \in Differ : \A m \in Differ : k <= m
  <2> HIDE DEF Differ
  <2> QED
    BY <1>1, Smallest
<1>3. k \in 0 .. P - 1 /\ f[k] # g[k] /\ \A m \in 0 .. k - 1 : f[m] = g[m]
  BY <1>2
<1>4. f[k] < g[k] \/ g[k] < f[k]
  BY <1>3
<1>5. \A m \in 0 .. k - 1 : g[m] = f[m]
  BY <1>3
<1> HIDE DEF Differ
<1> QED
  BY <1>3, <1>4, <1>5 DEF Less

\* Of two strings, only one is less, however far each comparison goes.
LEMMA LessIsStrict ==
  ASSUME NEW f \in [Nat -> Nat], NEW g \in [Nat -> Nat], NEW P \in Nat, NEW Q \in Nat,
         Less(f, g, P)
  PROVE  ~Less(g, f, Q) /\ \E k \in 0 .. P - 1 : f[k] # g[k]
<1>1. PICK k \in 0 .. P - 1 : f[k] < g[k] /\ \A m \in 0 .. k - 1 : f[m] = g[m]
  BY DEF Less
<1>2. ASSUME NEW l \in 0 .. Q - 1, g[l] < f[l], \A m \in 0 .. l - 1 : g[m] = f[m] PROVE FALSE
  <2>1. CASE l < k
    BY <1>1, <1>2, <2>1
  <2>2. CASE l = k
    BY <1>1, <1>2, <2>2
  <2>3. CASE l > k
    BY <1>1, <1>2, <2>3
  <2> QED
    BY <2>1, <2>2, <2>3
<1>3. f[k] # g[k]
  BY <1>1
<1> QED
  BY <1>2, <1>3 DEF Less

\* What is less than a lesser string is less, by the shorter comparison of the two.
LEMMA LessIsTransitive ==
  ASSUME NEW f \in [Nat -> Nat], NEW g \in [Nat -> Nat], NEW h \in [Nat -> Nat],
         NEW P \in Nat, NEW Q \in Nat, Less(f, g, P), Less(g, h, Q)
  PROVE  Less(f, h, P) /\ Less(f, h, Q)
<1>1. PICK a \in 0 .. P - 1 : f[a] < g[a] /\ \A m \in 0 .. a - 1 : f[m] = g[m]
  BY DEF Less
<1>2. PICK b \in 0 .. Q - 1 : g[b] < h[b] /\ \A m \in 0 .. b - 1 : g[m] = h[m]
  BY DEF Less
<1>3. PICK c \in Nat : c <= a /\ c <= b /\ (c = a \/ c = b)
  <2>1. CASE a <= b
    <3>1. a \in Nat /\ a <= a
      OBVIOUS
    <3> QED
      BY <2>1, <3>1
  <2>2. CASE b <= a
    <3>1. b \in Nat /\ b <= b
      OBVIOUS
    <3> QED
      BY <2>2, <3>1
  <2> QED
    BY <2>1, <2>2
<1>4. f[c] < h[c]
  <2>1. CASE a < b
    BY <1>1, <1>2, <1>3, <2>1
  <2>2. CASE a = b
    BY <1>1, <1>2, <1>3, <2>2
  <2>3. CASE b < a
    BY <1>1, <1>2, <1>3, <2>3
  <2> QED
    BY <2>1, <2>2, <2>3
<1>5. \A m \in 0 .. c - 1 : f[m] = h[m]
  BY <1>1, <1>2, <1>3
<1>6. c \in 0 .. P - 1 /\ c \in 0 .. Q - 1
  BY <1>3
<1> QED
  BY <1>4, <1>5, <1>6 DEF Less

-----------------------------------------------------------------------------
(* The order of suffixes.                                                  *)

\* Texts, of bytes or of names.
ZeroFree == Seq(Nat \ {0})

\* The bytes from offset i on, without end.
SuffixBytes(t, i) == [k \in Nat |-> Byte(t, i + k)]

\* A C string's bytes are 0 behind its end, and nowhere else.
LEMMA BytesOfText ==
  ASSUME NEW t \in ZeroFree, NEW i \in Nat
  PROVE  Byte(t, i) \in Nat /\ (Byte(t, i) = 0 <=> i >= Len(t))
<1>0. Len(t) \in Nat
  BY DEF ZeroFree
<1>1. CASE i < Len(t)
  <2>1. i + 1 \in 1 .. Len(t)
    BY <1>0, <1>1
  <2>2. t[i + 1] \in Nat \ {0}
    BY <2>1, ElementOfSeq DEF ZeroFree
  <2>3. Byte(t, i) = t[i + 1]
    BY <1>1 DEF Byte
  <2> QED
    BY <1>0, <1>1, <2>2, <2>3
<1>2. CASE ~(i < Len(t))
  <2>1. Byte(t, i) = 0
    BY <1>2 DEF Byte
  <2> QED
    BY <1>0, <1>2, <2>1
<1> QED
  BY <1>1, <1>2

\* The bytes of a suffix are numbers, and 0 from the end of the text on.
LEMMA BytesAreTyped ==
  ASSUME NEW t \in ZeroFree, NEW i \in Nat
  PROVE  /\ SuffixBytes(t, i) \in [Nat -> Nat]
         /\ \A k \in Nat : SuffixBytes(t, i)[k] = Byte(t, i + k)
         /\ \A k \in Nat : SuffixBytes(t, i)[k] = 0 <=> i + k >= Len(t)
<1>1. \A k \in Nat : i + k \in Nat
  OBVIOUS
<1>2. \A k \in Nat : Byte(t, i + k) \in Nat /\ (Byte(t, i + k) = 0 <=> i + k >= Len(t))
  BY <1>1, BytesOfText
<1> QED
  BY <1>2 DEF SuffixBytes

\* strcmp compares suffixes by their bytes.
LEMMA BeforeIsLess ==
  ASSUME NEW t \in ZeroFree, NEW i \in Nat, NEW j \in Nat
  PROVE  Before(t, i, j) <=> Less(SuffixBytes(t, i), SuffixBytes(t, j), Len(t) + 1)
<1>1. 0 .. (Len(t) + 1) - 1 = 0 .. Len(t)
  <2>1. Len(t) \in Nat
    OBVIOUS
  <2> QED
    BY <2>1
<1>2. ASSUME NEW k \in 0 .. Len(t)
      PROVE  /\ SuffixBytes(t, i)[k] = Byte(t, i + k)
             /\ SuffixBytes(t, j)[k] = Byte(t, j + k)
             /\ \A m \in 0 .. k - 1 : /\ SuffixBytes(t, i)[m] = Byte(t, i + m)
                                      /\ SuffixBytes(t, j)[m] = Byte(t, j + m)
  <2>1. k \in Nat /\ \A m \in 0 .. k - 1 : m \in Nat
    OBVIOUS
  <2> QED
    BY <2>1, Zenon DEF SuffixBytes
<1>3. ASSUME Before(t, i, j) PROVE Less(SuffixBytes(t, i), SuffixBytes(t, j), Len(t) + 1)
  <2>1. PICK k \in 0 .. Len(t) : /\ Byte(t, i + k) < Byte(t, j + k)
                                /\ \A m \in 0 .. k - 1 : Byte(t, i + m) = Byte(t, j + m)
    BY <1>3, Zenon DEF Before
  <2>2. /\ SuffixBytes(t, i)[k] < SuffixBytes(t, j)[k]
        /\ \A m \in 0 .. k - 1 : SuffixBytes(t, i)[m] = SuffixBytes(t, j)[m]
    BY <1>2, <2>1, Zenon
  <2> QED
    BY <1>1, <2>2, Zenon DEF Less
<1>4. ASSUME Less(SuffixBytes(t, i), SuffixBytes(t, j), Len(t) + 1) PROVE Before(t, i, j)
  <2>1. PICK k \in 0 .. Len(t) :
          /\ SuffixBytes(t, i)[k] < SuffixBytes(t, j)[k]
          /\ \A m \in 0 .. k - 1 : SuffixBytes(t, i)[m] = SuffixBytes(t, j)[m]
    BY <1>1, <1>4, Zenon DEF Less
  <2>2. /\ Byte(t, i + k) < Byte(t, j + k)
        /\ \A m \in 0 .. k - 1 : Byte(t, i + m) = Byte(t, j + m)
    BY <1>2, <2>1, Zenon
  <2> QED
    BY <2>2, Zenon DEF Before
<1> QED
  BY <1>3, <1>4

\* Suffixes differ, since one ends first; the empty one is one of them.
LEMMA BeforeIsTotal ==
  ASSUME NEW t \in ZeroFree, NEW i \in 0 .. Len(t), NEW j \in 0 .. Len(t), i # j
  PROVE  Before(t, i, j) \/ Before(t, j, i)
<1>1. Len(t) \in Nat /\ Len(t) + 1 \in Nat
  BY DEF ZeroFree
<1>2. i \in Nat /\ i <= Len(t) /\ j \in Nat /\ j <= Len(t)
  BY <1>1
<1>3. /\ SuffixBytes(t, i) \in [Nat -> Nat] /\ SuffixBytes(t, j) \in [Nat -> Nat]
      /\ \A k \in Nat : SuffixBytes(t, i)[k] = 0 <=> i + k >= Len(t)
      /\ \A k \in Nat : SuffixBytes(t, j)[k] = 0 <=> j + k >= Len(t)
  BY <1>2, BytesAreTyped
<1>4. PICK k \in Nat : k <= Len(t) /\ ~(i + k >= Len(t) <=> j + k >= Len(t))
  <2>1. CASE i < j
    <3>1. Len(t) - j \in Nat /\ Len(t) - j <= Len(t) /\ ~(i + (Len(t) - j) >= Len(t))
          /\ j + (Len(t) - j) >= Len(t)
      BY <1>1, <1>2, <2>1
    <3> QED
      BY <3>1
  <2>2. CASE j < i
    <3>1. Len(t) - i \in Nat /\ Len(t) - i <= Len(t) /\ ~(j + (Len(t) - i) >= Len(t))
          /\ i + (Len(t) - i) >= Len(t)
      BY <1>1, <1>2, <2>2
    <3> QED
      BY <3>1
  <2> QED
    BY <1>2, <2>1, <2>2
<1>5. SuffixBytes(t, i)[k] # SuffixBytes(t, j)[k] /\ k \in 0 .. (Len(t) + 1) - 1
  <2>1. /\ SuffixBytes(t, i)[k] = 0 <=> i + k >= Len(t)
        /\ SuffixBytes(t, j)[k] = 0 <=> j + k >= Len(t)
    BY <1>3
  <2>2. SuffixBytes(t, i)[k] # SuffixBytes(t, j)[k]
    BY <1>4, <2>1, Zenon
  <2> QED
    BY <1>1, <1>4, <2>2
<1>6. Less(SuffixBytes(t, i), SuffixBytes(t, j), Len(t) + 1) \/ Less(SuffixBytes(t, j), SuffixBytes(t, i), Len(t) + 1)
  BY <1>1, <1>3, <1>5, LessIsTotal
<1> QED
  BY <1>2, <1>6, BeforeIsLess

\* No two suffixes come before each other, nor one before itself.
LEMMA BeforeIsStrict ==
  ASSUME NEW t \in ZeroFree, NEW i \in Nat, NEW j \in Nat, Before(t, i, j)
  PROVE  ~Before(t, j, i) /\ i # j
<1>1. Len(t) + 1 \in Nat
  BY DEF ZeroFree
<1>2. SuffixBytes(t, i) \in [Nat -> Nat] /\ SuffixBytes(t, j) \in [Nat -> Nat]
  BY BytesAreTyped
<1> QED
  BY <1>1, <1>2, BeforeIsLess, LessIsStrict

\* The order of the suffixes is transitive.
LEMMA BeforeIsTransitive ==
  ASSUME NEW t \in ZeroFree, NEW i \in Nat, NEW j \in Nat, NEW l \in Nat,
         Before(t, i, j), Before(t, j, l)
  PROVE  Before(t, i, l)
<1>1. Len(t) + 1 \in Nat
  BY DEF ZeroFree
<1>2. /\ SuffixBytes(t, i) \in [Nat -> Nat] /\ SuffixBytes(t, j) \in [Nat -> Nat]
      /\ SuffixBytes(t, l) \in [Nat -> Nat]
  BY BytesAreTyped
<1> QED
  <2>1. /\ Less(SuffixBytes(t, i), SuffixBytes(t, j), Len(t) + 1)
        /\ Less(SuffixBytes(t, j), SuffixBytes(t, l), Len(t) + 1)
    BY BeforeIsLess
  <2>2. \A f, g, h \in [Nat -> Nat], P \in Nat :
          Less(f, g, P) /\ Less(g, h, P) => Less(f, h, P)
    BY LessIsTransitive
  <2>3. Less(SuffixBytes(t, i), SuffixBytes(t, l), Len(t) + 1)
    BY <1>1, <1>2, <2>1, <2>2, Zenon
  <2> QED
    BY <2>3, BeforeIsLess

\* Offsets are positions of the text.
LEMMA OffsetsArePositions ==
  ASSUME NEW t \in ZeroFree
  PROVE  Len(t) \in Nat /\ \A i \in Offsets(t) : i \in Nat /\ i \in 0 .. Len(t) /\ i < Len(t)
BY DEF ZeroFree, Offsets

\* How many suffixes come before one is its rank: no two have the same, so each
\* rank has its suffix.
Rank(t) == [i \in Offsets(t) |-> Cardinality({j \in Offsets(t) : Before(t, j, i)})]

\* A text has as many offsets as bytes.
LEMMA OffsetsFinite ==
  ASSUME NEW t \in ZeroFree
  PROVE  IsFiniteSet(Offsets(t)) /\ Cardinality(Offsets(t)) = Len(t)
<1>1. Len(t) \in Nat
  BY OffsetsArePositions
<1>2. IsFiniteSet(0 .. Len(t) - 1) /\ Cardinality(0 .. Len(t) - 1) = Len(t)
  <2>1. 0 \in Int /\ Len(t) - 1 \in Int
    BY <1>1
  <2>2. /\ IsFiniteSet(0 .. Len(t) - 1)
        /\ Cardinality(0 .. Len(t) - 1) = IF 0 > Len(t) - 1 THEN 0 ELSE Len(t) - 1 - 0 + 1
    BY <2>1, FS_Interval
  <2> QED
    BY <1>1, <2>2
<1> QED
  BY <1>2 DEF Offsets

\* The later of two suffixes has the higher rank.
LEMMA RanksGrow ==
  ASSUME NEW t \in ZeroFree, NEW i \in Offsets(t), NEW j \in Offsets(t), Before(t, i, j)
  PROVE  Rank(t)[i] \in Nat /\ Rank(t)[j] \in Nat /\ Rank(t)[i] < Rank(t)[j]
<1> DEFINE A == {l \in Offsets(t) : Before(t, l, i)}
           B == {l \in Offsets(t) : Before(t, l, j)}
<1>1. A \in SUBSET B /\ i \in B /\ i \notin A
  BY OffsetsArePositions, BeforeIsStrict, BeforeIsTransitive
<1>2. IsFiniteSet(B)
  BY OffsetsFinite, FS_Subset
<1>3. IsFiniteSet(A) /\ Cardinality(A) <= Cardinality(B) /\ Cardinality(A) # Cardinality(B)
  <2> HIDE DEF A, B
  <2> QED
    BY <1>1, <1>2, FS_Subset
<1>4. Cardinality(A) \in Nat /\ Cardinality(B) \in Nat
  BY <1>2, <1>3, FS_CardinalityType
<1>5. Rank(t)[i] = Cardinality(A) /\ Rank(t)[j] = Cardinality(B)
  BY DEF Rank
<1> HIDE DEF A, B
<1> QED
  BY <1>3, <1>4, <1>5

\* Ranks count as offsets do, from 0.
LEMMA RanksInOffsets ==
  ASSUME NEW t \in ZeroFree, NEW i \in Offsets(t)
  PROVE  Rank(t)[i] \in Offsets(t)
<1> DEFINE A == {l \in Offsets(t) : Before(t, l, i)}
<1>1. A \in SUBSET Offsets(t) /\ i \notin A
  BY OffsetsArePositions, BeforeIsStrict
<1> HIDE DEF A
<1>2. IsFiniteSet(A) /\ Cardinality(A) <= Len(t) /\ Cardinality(A) # Len(t)
  BY <1>1, OffsetsFinite, FS_Subset
<1>3. Cardinality(A) \in Nat /\ Len(t) \in Nat
  BY <1>2, FS_CardinalityType
<1>4. Cardinality(A) \in 0 .. Len(t) - 1
  BY <1>2, <1>3
<1> QED
  BY <1>4 DEF Rank, A, Offsets

\* Each rank is the rank of one suffix.
LEMMA EachRankOnce ==
  ASSUME NEW t \in ZeroFree
  PROVE  Rank(t) \in Bijection(Offsets(t), Offsets(t))
<1>1. Rank(t) \in [Offsets(t) -> Offsets(t)]
  BY RanksInOffsets DEF Rank
<1>2. ASSUME NEW i \in Offsets(t), NEW j \in Offsets(t), Rank(t)[i] = Rank(t)[j] PROVE i = j
  BY <1>2, OffsetsArePositions, RanksGrow, BeforeIsTotal
<1>3. Rank(t) \in Injection(Offsets(t), Offsets(t))
  BY <1>1, <1>2 DEF Injection, IsInjective
<1>4. Rank(t) \in Surjection(Offsets(t), Offsets(t))
  BY <1>3, OffsetsFinite, FS_Injection
<1> QED
  BY <1>3, <1>4 DEF Bijection

\* What a suffix array is: each offset is in it, in the order of the suffixes.
IsSuffixArray(t, array) ==
  /\ array \in [1 .. Len(t) -> Offsets(t)]
  /\ \A i \in Offsets(t) : \E r \in 1 .. Len(t) : array[r] = i
  /\ \A q, r \in 1 .. Len(t) : q < r => Before(t, array[q], array[r])

\* strcmp orders the suffixes of a text totally, so there is an array that
\* std::sort ends with, and it holds every offset in the order of its suffix
\* (string.cc, the constructors of sarr_cx11 and sarr_c).
THEOREM SortedIsSuffixArray ==
  ASSUME NEW t \in ZeroFree
  PROVE  IsSuffixArray(t, SortedSuffixes(t))
<1> DEFINE array == SortedSuffixes(t)
<1>0. Len(t) \in Nat
  BY OffsetsArePositions
<1>1. ASSUME NEW r \in 1 .. Len(t) PROVE array[r] \in Offsets(t) /\ Rank(t)[array[r]] = r - 1
  <2>1. r - 1 \in Offsets(t)
    BY DEF Offsets
  <2>2. \E i \in Offsets(t) : Rank(t)[i] = r - 1
    BY <2>1, EachRankOnce DEF Bijection, Surjection
  <2>3. array[r] = CHOOSE i \in Offsets(t) : Rank(t)[i] = r - 1
    BY DEF SortedSuffixes, Rank
  <2> QED
    BY <2>2, <2>3, Zenon
<1>2. array \in [1 .. Len(t) -> Offsets(t)]
  BY <1>1 DEF SortedSuffixes
<1> HIDE DEF array
<1>3. ASSUME NEW i \in Offsets(t) PROVE \E r \in 1 .. Len(t) : array[r] = i
  <2>1. Rank(t)[i] + 1 \in 1 .. Len(t) /\ (Rank(t)[i] + 1) - 1 = Rank(t)[i]
    BY RanksInOffsets DEF Offsets
  <2>2. array[Rank(t)[i] + 1] \in Offsets(t) /\ Rank(t)[array[Rank(t)[i] + 1]] = Rank(t)[i]
    BY <1>1, <2>1
  <2>3. array[Rank(t)[i] + 1] = i
    BY <2>2, EachRankOnce DEF Bijection, Injection, IsInjective
  <2> QED
    BY <2>1, <2>3
<1>4. ASSUME NEW q \in 1 .. Len(t), NEW r \in 1 .. Len(t), q < r
      PROVE  Before(t, array[q], array[r])
  <2>1. /\ array[q] \in Offsets(t) /\ Rank(t)[array[q]] = q - 1
        /\ array[r] \in Offsets(t) /\ Rank(t)[array[r]] = r - 1
    BY <1>1
  <2>2. array[q] # array[r]
    BY <1>4, <2>1
  <2>3. ~Before(t, array[r], array[q])
    BY <1>4, <2>1, RanksGrow
  <2> QED
    BY <2>1, <2>2, <2>3, OffsetsArePositions, BeforeIsTotal
<1> QED
  BY <1>2, <1>3, <1>4 DEF IsSuffixArray, array

-----------------------------------------------------------------------------
(* Sorting by keys.                                                        *)

\* A function on 1 .. k is a sequence of k elements.
LEMMA IsSequence ==
  ASSUME NEW V, NEW k \in Nat, NEW f \in [1 .. k -> V]
  PROVE  f \in Seq(V) /\ Len(f) = k
<1>1. f \in Seq(V)
  BY SeqDef
<1>2. Len(f) \in Nat /\ DOMAIN f = 1 .. Len(f)
  BY <1>1, LenProperties
<1>3. DOMAIN f = 1 .. k
  OBVIOUS
<1>4. \A l \in Nat : 1 .. k = 1 .. l => k = l
  <2>1. ASSUME NEW l \in Nat, 1 .. k = 1 .. l PROVE k = l
    <3>1. (k \in 1 .. k <=> k \in 1 .. l) /\ (l \in 1 .. k <=> l \in 1 .. l)
      BY <2>1
    <3> QED
      BY <3>1
  <2> QED
    BY <2>1
<1> QED
  BY <1>1, <1>2, <1>3, <1>4

\* What an array holds is a number, also behind its end.
LEMMA BytesOfArray ==
  ASSUME NEW a \in Array, NEW i \in Nat
  PROVE  /\ Byte(a, i) \in Nat /\ Len(a) \in Nat /\ DOMAIN a = 1 .. Len(a)
         /\ i < Len(a) => Byte(a, i) = a[i + 1]
         /\ i >= Len(a) => Byte(a, i) = 0
<1>1. Len(a) \in Nat /\ DOMAIN a = 1 .. Len(a) /\ a \in [1 .. Len(a) -> Nat]
  BY DEF Array
<1>2. i < Len(a) => i + 1 \in 1 .. Len(a)
  BY <1>1
<1>3. i < Len(a) => a[i + 1] \in Nat
  BY <1>1, <1>2
<1> QED
  BY <1>1, <1>3 DEF Byte

\* Each element of S is at one place of the array.
Lists(a, S) ==
  /\ a \in Array
  /\ \A r \in 1 .. Len(a) : a[r] \in S
  /\ \A i \in S : \E r \in 1 .. Len(a) : a[r] = i
  /\ \A q, r \in 1 .. Len(a) : a[q] = a[r] => q = r

\* Each two of its elements are a pair of W, in the order they have there.
InOrder(a, W) == \A q, r \in 1 .. Len(a) : q < r => <<a[q], a[r]>> \in W

\* Pairs in the order of their keys, and for equal keys in W.
ByKey(S, keys, W) ==
  {w \in S \X S : \/ Byte(keys, w[1]) < Byte(keys, w[2])
                  \/ Byte(keys, w[1]) = Byte(keys, w[2]) /\ w \in W}

\* A pass moves the elements: by their keys, and for equal keys as they were.
LEMMA PassMoves ==
  ASSUME NEW list \in Array, NEW keys \in Array
  PROVE  \E e \in Bijection(1 .. Len(list), 1 .. Len(list)) :
           /\ RadixPass(list, keys) = [r \in 1 .. Len(list) |-> list[e[r]]]
           /\ \A q, r \in 1 .. Len(list) : q <= r =>
                \/ Byte(keys, list[e[q]]) < Byte(keys, list[e[r]])
                \/ Byte(keys, list[e[q]]) = Byte(keys, list[e[r]]) /\ e[q] <= e[r]
<1> DEFINE D == 1 .. Len(list)
           key(j) == Byte(keys, list[j])
           L == {w \in D \X D : key(w[1]) < key(w[2]) \/ (key(w[1]) = key(w[2]) /\ w[1] <= w[2])}
           e == [r \in 1 .. Cardinality(D) |-> CHOOSE i \in D : Place(L, D)[i] = r]
<1>1. Len(list) \in Nat /\ DOMAIN list = D /\ \A i \in D : list[i] \in Nat
  BY DEF Array
<1>2. \A i \in D : key(i) \in Nat
  BY <1>1, BytesOfArray
<1>3. IsFiniteSet(D) /\ Cardinality(D) = Len(list)
  BY <1>1, FS_Interval
<1>4. \A i, j \in D : <<i, j>> \in L <=> key(i) < key(j) \/ (key(i) = key(j) /\ i <= j)
  OBVIOUS
<1>5. \A i \in D : i \in Nat
  BY <1>1
<1>6. Orders(L, D)
  <2> HIDE DEF L, D, key
  <2>1. ASSUME NEW i \in D, NEW j \in D PROVE <<i, j>> \in L \/ <<j, i>> \in L
    <3>1. key(i) \in Nat /\ key(j) \in Nat /\ i \in Nat /\ j \in Nat
      BY <1>2, <1>5
    <3>2. \/ key(i) < key(j) \/ key(j) < key(i)
          \/ key(i) = key(j) /\ (i <= j \/ j <= i)
      BY <3>1
    <3> QED
      BY <1>4, <3>2, Zenon
  <2>2. \A i, j \in D : <<i, j>> \in L /\ <<j, i>> \in L => i = j
    BY <1>2, <1>4, <1>5
  <2>3. \A i, j, k \in D : <<i, j>> \in L /\ <<j, k>> \in L => <<i, k>> \in L
    BY <1>2, <1>4, <1>5
  <2> QED
    BY <2>1, <2>2, <2>3 DEF Orders
<1>7. \A i \in D : Place(L, D)[i] = Cardinality({j \in D : key(j) < key(i) \/ (key(j) = key(i) /\ j <= i)})
  <2>1. ASSUME NEW i \in D
        PROVE  {j \in D : <<j, i>> \in L} = {j \in D : key(j) < key(i) \/ (key(j) = key(i) /\ j <= i)}
    <3> HIDE DEF L, D, key
    <3> QED
      BY <1>4
  <2>2. \A i \in D : Place(L, D)[i] = Cardinality({j \in D : <<j, i>> \in L})
    BY DEF Place
  <2> QED
    BY <2>1, <2>2, Zenon
<1>8. RadixPass(list, keys) =
        [r \in D |-> list[CHOOSE i \in D : Cardinality({j \in D : key(j) < key(i) \/ (key(j) = key(i) /\ j <= i)}) = r]]
  BY DEF RadixPass
<1>9. \A r \in D : e[r] = CHOOSE i \in D : Place(L, D)[i] = r
  BY <1>3
<1>10. /\ e \in Bijection(1 .. Cardinality(D), D)
       /\ \A q, r \in 1 .. Cardinality(D) : q <= r => <<e[q], e[r]>> \in L
  <2> HIDE DEF L, D
  <2> QED
    BY <1>3, <1>6, AtPlace
<1>11. 1 .. Cardinality(D) = D
  BY <1>3
<1>12. \A r \in D : e[r] = CHOOSE i \in D : Cardinality({j \in D : key(j) < key(i) \/ (key(j) = key(i) /\ j <= i)}) = r
  <2> HIDE DEF L, D, key, e
  <2>1. ASSUME NEW r \in D
        PROVE  (CHOOSE i \in D : Place(L, D)[i] = r) =
                 CHOOSE i \in D : Cardinality({j \in D : key(j) < key(i) \/ (key(j) = key(i) /\ j <= i)}) = r
    <3>1. \A i : (i \in D /\ Place(L, D)[i] = r) <=>
                 (i \in D /\ Cardinality({j \in D : key(j) < key(i) \/ (key(j) = key(i) /\ j <= i)}) = r)
      BY <1>7, Zenon
    <3> QED
      BY <3>1, Zenon
  <2> QED
    BY <1>9, <2>1, Zenon
<1>13. RadixPass(list, keys) = [r \in D |-> list[e[r]]]
  <2> HIDE DEF L, D, key, e
  <2> QED
    BY <1>8, <1>12, Zenon
<1>14. \A q, r \in D : q <= r => key(e[q]) < key(e[r]) \/ (key(e[q]) = key(e[r]) /\ e[q] <= e[r])
  <2>1. e \in [D -> D]
    BY <1>10, <1>11 DEF Bijection, Injection
  <2> HIDE DEF L, D, key, e
  <2> QED
    BY <1>4, <1>10, <1>11, <2>1
<1>15. e \in Bijection(D, D)
  BY <1>10, <1>11, Zenon
<1> HIDE DEF e
<1> QED
  BY <1>13, <1>14, <1>15, Zenon

\* radixPass sorts stably: what it puts out is what it read, in the order of the
\* keys, and elements with the same key keep the order W they were in.
LEMMA RadixPassSorts ==
  ASSUME NEW S \in SUBSET Nat, NEW list, Lists(list, S), NEW keys \in Array,
         NEW W, InOrder(list, W)
  PROVE  /\ Lists(RadixPass(list, keys), S) /\ Len(RadixPass(list, keys)) = Len(list)
         /\ InOrder(RadixPass(list, keys), ByKey(S, keys, W))
<1> DEFINE D == 1 .. Len(list)
           out == RadixPass(list, keys)
<1>1. list \in Array /\ Len(list) \in Nat
  BY DEF Lists, Array
<1>2. PICK e \in Bijection(D, D) :
           /\ out = [r \in D |-> list[e[r]]]
           /\ \A q, r \in D : q <= r =>
                \/ Byte(keys, list[e[q]]) < Byte(keys, list[e[r]])
                \/ Byte(keys, list[e[q]]) = Byte(keys, list[e[r]]) /\ e[q] <= e[r]
  BY <1>1, PassMoves
<1>3. /\ \A r \in D : e[r] \in D
      /\ \A q, r \in D : e[q] = e[r] => q = r
      /\ \A i \in D : \E r \in D : e[r] = i
  BY DEF Bijection, Injection, IsInjective, Surjection
<1>4. /\ \A r \in D : list[r] \in S
      /\ \A i \in S : \E r \in D : list[r] = i
      /\ \A q, r \in D : list[q] = list[r] => q = r
  BY DEF Lists
<1> HIDE DEF D, out
<1>5. out \in [D -> Nat] /\ \A r \in D : out[r] = list[e[r]] /\ out[r] \in S
  BY <1>2, <1>3, <1>4
<1>6. Len(out) = Len(list) /\ out \in Array
  <2>1. out \in [1 .. Len(list) -> Nat]
    BY <1>5 DEF D
  <2> QED
    BY <1>1, <2>1, IsSequence DEF Array
<1>7. \A i \in S : \E r \in D : out[r] = i
  BY <1>3, <1>4, <1>5
<1>8. \A q, r \in D : out[q] = out[r] => q = r
  BY <1>3, <1>4, <1>5
<1>9. ASSUME NEW q \in D, NEW r \in D, q < r PROVE <<out[q], out[r]>> \in ByKey(S, keys, W)
  <2>1. out[q] = list[e[q]] /\ out[r] = list[e[r]] /\ out[q] \in S /\ out[r] \in S
    BY <1>5
  <2>2. q <= r /\ q # r /\ e[q] \in D /\ e[r] \in D
    BY <1>1, <1>3, <1>9 DEF D
  <2>3. e[q] # e[r]
    BY <1>3, <2>2
  <2>4. \/ Byte(keys, out[q]) < Byte(keys, out[r])
        \/ Byte(keys, out[q]) = Byte(keys, out[r]) /\ e[q] <= e[r]
    BY <1>2, <2>1, <2>2
  <2>5. e[q] <= e[r] => e[q] < e[r]
    BY <1>1, <2>2, <2>3 DEF D
  <2>6. e[q] < e[r] => <<list[e[q]], list[e[r]]>> \in W
    BY <2>2 DEF InOrder, D
  <2>7. \/ Byte(keys, out[q]) < Byte(keys, out[r])
        \/ Byte(keys, out[q]) = Byte(keys, out[r]) /\ <<out[q], out[r]>> \in W
    BY <2>1, <2>4, <2>5, <2>6, Zenon
  <2>8. /\ <<out[q], out[r]>> \in S \X S
        /\ <<out[q], out[r]>>[1] = out[q] /\ <<out[q], out[r]>>[2] = out[r]
    BY <2>1
  <2> QED
    BY <2>7, <2>8, Zenon DEF ByKey
<1> QED
  BY <1>5, <1>6, <1>7, <1>8, <1>9 DEF Lists, InOrder, D, out

-----------------------------------------------------------------------------
(* The sample positions.                                                   *)

\* The sample positions of n bytes, with the dummy if there is one.
Sample(n) == {i \in 1 .. n : i % 3 # 0 /\ (i < n \/ n % 3 = 1)}

\* How many positions of each kind there are, by what n is mod 3.
LEMMA SampleSizes ==
  ASSUME NEW n \in Nat
  PROVE  /\ n0(n) \in Nat /\ n1(n) \in Nat /\ n02(n) \in Nat
         /\ \E a \in Nat :
              \/ n = 3 * a /\ n0(n) = a /\ n1(n) = a /\ n02(n) = 2 * a /\ n % 3 = 0
              \/ n = 3 * a + 1 /\ n0(n) = a + 1 /\ n1(n) = a /\ n02(n) = 2 * a + 1 /\ n % 3 = 1
              \/ n = 3 * a + 2 /\ n0(n) = a + 1 /\ n1(n) = a + 1 /\ n02(n) = 2 * a + 1 /\ n % 3 = 2
<1>1. n \div 3 \in Nat /\ (n % 3 = 0 \/ n % 3 = 1 \/ n % 3 = 2)
  OBVIOUS
<1>6. n = 3 * (n \div 3) + (n % 3)
  OBVIOUS
<1>2. \A a \in Nat : /\ (3 * a) \div 3 = a /\ (3 * a + 1) \div 3 = a /\ (3 * a + 2) \div 3 = a
                     /\ (3 * a + 3) \div 3 = a + 1 /\ (3 * a + 4) \div 3 = a + 1
  OBVIOUS
<1> DEFINE a == n \div 3
<1>3. CASE n % 3 = 0
  <2>1. n = 3 * a /\ n + 1 = 3 * a + 1 /\ n + 2 = 3 * a + 2
    BY <1>1, <1>6, <1>3
  <2> HIDE DEF a
  <2>2. a \in Nat
    BY <1>1 DEF a
  <2>3. n0(n) = a /\ n1(n) = a /\ n \div 3 = a
    BY <1>2, <2>1, <2>2 DEF n0, n1
  <2> QED
    BY <1>3, <2>1, <2>2, <2>3 DEF n02
<1>4. CASE n % 3 = 1
  <2>1. n = 3 * a + 1 /\ n + 1 = 3 * a + 2 /\ n + 2 = 3 * a + 3
    BY <1>1, <1>6, <1>4
  <2> HIDE DEF a
  <2>2. a \in Nat
    BY <1>1 DEF a
  <2>3. n0(n) = a + 1 /\ n1(n) = a /\ n \div 3 = a
    BY <1>2, <2>1, <2>2 DEF n0, n1
  <2> QED
    BY <1>4, <2>1, <2>2, <2>3 DEF n02
<1>5. CASE n % 3 = 2
  <2>1. n = 3 * a + 2 /\ n + 1 = 3 * a + 3 /\ n + 2 = 3 * a + 4
    BY <1>1, <1>6, <1>5
  <2> HIDE DEF a
  <2>2. a \in Nat
    BY <1>1 DEF a
  <2>3. n0(n) = a + 1 /\ n1(n) = a + 1 /\ n \div 3 = a
    BY <1>2, <2>1, <2>2 DEF n0, n1
  <2> QED
    BY <1>5, <2>1, <2>2, <2>3 DEF n02
<1> QED
  BY <1>1, <1>3, <1>4, <1>5

\* A position is 0, 1 or 2 mod 3.
LEMMA Thirds ==
  ASSUME NEW i \in Nat
  PROVE  \E b \in Nat : /\ i \div 3 = b
                        /\ \/ i = 3 * b /\ i % 3 = 0
                           \/ i = 3 * b + 1 /\ i % 3 = 1
                           \/ i = 3 * b + 2 /\ i % 3 = 2
<1>1. i \div 3 \in Nat /\ (i % 3 = 0 \/ i % 3 = 1 \/ i % 3 = 2)
  OBVIOUS
<1>2. i = 3 * (i \div 3) + (i % 3)
  OBVIOUS
<1> QED
  BY <1>1, <1>2

\* And three times a number, and 0, 1 or 2 more, divide back.
LEMMA ThirdsOf ==
  ASSUME NEW b \in Nat
  PROVE  /\ (3 * b) % 3 = 0 /\ (3 * b) \div 3 = b
         /\ (3 * b + 1) % 3 = 1 /\ (3 * b + 1) \div 3 = b
         /\ (3 * b + 2) % 3 = 2 /\ (3 * b + 2) \div 3 = b
OBVIOUS

\* Slots and sample positions are each other's, Slot() and Offset12() the ways.
LEMMA SlotOfSample ==
  ASSUME NEW n \in Nat, NEW i \in Sample(n)
  PROVE  Slot(i, n) \in 0 .. n02(n) - 1 /\ Offset12(Slot(i, n), n) = i
<1>1. i \in Nat /\ i >= 1 /\ i <= n /\ i % 3 # 0 /\ (i < n \/ n % 3 = 1)
  BY DEF Sample
<1>2. PICK b \in Nat : /\ i \div 3 = b
                       /\ \/ i = 3 * b + 1 /\ i % 3 = 1
                          \/ i = 3 * b + 2 /\ i % 3 = 2
  BY <1>1, Thirds
<1>3. PICK a \in Nat :
              \/ n = 3 * a /\ n0(n) = a /\ n1(n) = a /\ n02(n) = 2 * a /\ n % 3 = 0
              \/ n = 3 * a + 1 /\ n0(n) = a + 1 /\ n1(n) = a /\ n02(n) = 2 * a + 1 /\ n % 3 = 1
              \/ n = 3 * a + 2 /\ n0(n) = a + 1 /\ n1(n) = a + 1 /\ n02(n) = 2 * a + 1 /\ n % 3 = 2
  BY SampleSizes
<1>4. CASE i = 3 * b + 1 /\ i % 3 = 1
  <2>1. Slot(i, n) = b
    BY <1>2, <1>4 DEF Slot
  <2>2. b < n0(n)
    BY <1>1, <1>3, <1>4
  <2>3. b < n02(n)
    BY <1>1, <1>3, <1>4
  <2> QED
    BY <1>3, <1>4, <2>1, <2>2, <2>3 DEF Offset12
<1>5. CASE i = 3 * b + 2 /\ i % 3 = 2
  <2>1. Slot(i, n) = b + n0(n)
    BY <1>2, <1>5 DEF Slot
  <2>2. b + n0(n) < n02(n) /\ ~(b + n0(n) < n0(n)) /\ n0(n) \in Nat
    BY <1>1, <1>3, <1>5
  <2>3. (b + n0(n)) - n0(n) = b
    BY <2>2
  <2> QED
    BY <1>3, <1>5, <2>1, <2>2, <2>3 DEF Offset12
<1> QED
  BY <1>2, <1>4, <1>5

\* The other way: each slot is a sample position's, its own.
LEMMA SampleOfSlot ==
  ASSUME NEW n \in Nat, NEW x \in 0 .. n02(n) - 1
  PROVE  Offset12(x, n) \in Sample(n) /\ Slot(Offset12(x, n), n) = x
<1>1. PICK a \in Nat :
              \/ n = 3 * a /\ n0(n) = a /\ n1(n) = a /\ n02(n) = 2 * a /\ n % 3 = 0
              \/ n = 3 * a + 1 /\ n0(n) = a + 1 /\ n1(n) = a /\ n02(n) = 2 * a + 1 /\ n % 3 = 1
              \/ n = 3 * a + 2 /\ n0(n) = a + 1 /\ n1(n) = a + 1 /\ n02(n) = 2 * a + 1 /\ n % 3 = 2
  BY SampleSizes
<1>2. CASE x < n0(n)
  <2>1. x \in Nat /\ Offset12(x, n) = 3 * x + 1
    BY <1>1, <1>2 DEF Offset12
  <2>2. (3 * x + 1) % 3 = 1 /\ (3 * x + 1) \div 3 = x
    BY <2>1, ThirdsOf
  <2>3. 3 * x + 1 \in 1 .. n /\ (3 * x + 1 < n \/ n % 3 = 1)
    BY <1>1, <1>2, <2>1
  <2> QED
    BY <2>1, <2>2, <2>3 DEF Sample, Slot
<1>3. CASE ~(x < n0(n))
  <2>1. PICK b \in Nat : b = x - n0(n)
    BY <1>1, <1>3
  <2>2. Offset12(x, n) = 3 * b + 2 /\ x = b + n0(n)
    BY <1>1, <1>3, <2>1 DEF Offset12
  <2>3. (3 * b + 2) % 3 = 2 /\ (3 * b + 2) \div 3 = b
    BY ThirdsOf
  <2>4. 3 * b + 2 \in 1 .. n /\ 3 * b + 2 < n
    BY <1>1, <1>3, <2>1
  <2> QED
    BY <2>2, <2>3, <2>4 DEF Sample, Slot
<1> QED
  BY <1>2, <1>3

\* source + d reads d bytes on.
LEMMA FromReadsOn ==
  ASSUME NEW source \in Array, NEW d \in Nat
  PROVE  /\ From(source, d) \in Array
         /\ \A i \in Nat : Byte(From(source, d), i) = Byte(source, i + d)
<1>1. Len(source) \in Nat /\ source \in [1 .. Len(source) -> Nat]
  BY DEF Array
<1>2. \A i \in d + 1 .. Len(source) : i \in 1 .. Len(source)
  BY <1>1
<1>3. d + 1 \in Int /\ Len(source) \in Int
  BY <1>1
<1>4. /\ From(source, d) \in Seq(Nat)
      /\ Len(From(source, d)) = IF d + 1 <= Len(source) THEN Len(source) - (d + 1) + 1 ELSE 0
      /\ \A i \in 1 .. Len(source) - (d + 1) + 1 : From(source, d)[i] = source[(d + 1) + i - 1]
  BY <1>1, <1>2, <1>3, SubSeqProperties DEF From
<1>5. PICK L \in Nat : L = Len(source)
  BY <1>1
<1>6. PICK l : /\ l = Len(From(source, d))
               /\ l = IF d + 1 <= L THEN L - (d + 1) + 1 ELSE 0
  BY <1>4, <1>5
<1>7. ASSUME NEW i \in Nat PROVE Byte(From(source, d), i) = Byte(source, i + d)
  <2>1. CASE i + d < L
    <3>1. d + 1 <= L
      BY <2>1
    <3>2. i < l /\ i + 1 \in 1 .. L - (d + 1) + 1
      BY <1>6, <2>1, <3>1
    <3>3. (d + 1) + (i + 1) - 1 = (i + d) + 1
      OBVIOUS
    <3>4. From(source, d)[i + 1] = source[(d + 1) + (i + 1) - 1]
      BY <1>4, <1>5, <3>2, Zenon
    <3>5. Byte(From(source, d), i) = From(source, d)[i + 1] /\ Byte(source, i + d) = source[(i + d) + 1]
      BY <1>5, <1>6, <2>1, <3>2, Zenon DEF Byte
    <3> QED
      BY <3>3, <3>4, <3>5, Zenon
  <2>2. CASE ~(i + d < L)
    <3>1. ~(i < l)
      BY <1>6, <2>2
    <3> QED
      BY <1>5, <1>6, <2>2, <3>1, Zenon DEF Byte
  <2> QED
    BY <2>1, <2>2
<1> QED
  BY <1>4, <1>7 DEF Array

\* Step 0 lists the sample positions.
LEMMA PositionsListSample ==
  ASSUME NEW n \in Nat,
         NEW positions, positions = [j \in 1 .. n02(n) |-> (j - 1) + (j - 1) \div 2 + 1]
  PROVE  Lists(positions, Sample(n)) /\ Len(positions) = n02(n)
<1>1. PICK a \in Nat :
              \/ n = 3 * a /\ n0(n) = a /\ n1(n) = a /\ n02(n) = 2 * a /\ n % 3 = 0
              \/ n = 3 * a + 1 /\ n0(n) = a + 1 /\ n1(n) = a /\ n02(n) = 2 * a + 1 /\ n % 3 = 1
              \/ n = 3 * a + 2 /\ n0(n) = a + 1 /\ n1(n) = a + 1 /\ n02(n) = 2 * a + 1 /\ n % 3 = 2
  BY SampleSizes
<1>2. n02(n) \in Nat
  BY SampleSizes
<1>3. ASSUME NEW j \in 1 .. n02(n)
      PROVE  /\ \E m \in Nat : \/ j = 2 * m + 1 /\ positions[j] = 3 * m + 1 /\ positions[j] % 3 = 1
                               \/ j = 2 * m + 2 /\ positions[j] = 3 * m + 2 /\ positions[j] % 3 = 2
             /\ positions[j] \in Nat
  <2>1. PICK m \in Nat : j = 2 * m + 1 \/ j = 2 * m + 2
    <3>1. (j - 1) \div 2 \in Nat /\ ((j - 1) % 2 = 0 \/ (j - 1) % 2 = 1)
      BY <1>2
    <3>2. j - 1 = 2 * ((j - 1) \div 2) + ((j - 1) % 2)
      BY <1>2
    <3> QED
      BY <1>2, <3>1, <3>2
  <2>2. (2 * m) \div 2 = m /\ (2 * m + 1) \div 2 = m
    OBVIOUS
  <2>3. positions[j] = (j - 1) + (j - 1) \div 2 + 1
    OBVIOUS
  <2>4. CASE j = 2 * m + 1
    <3>1. j - 1 = 2 * m
      BY <2>4
    <3>2. (j - 1) \div 2 = m
      BY <2>2, <3>1, Zenon
    <3>3. positions[j] = (2 * m) + m + 1
      BY <2>3, <3>1, <3>2, Zenon
    <3>4. positions[j] = 3 * m + 1
      BY <3>3
    <3> QED
      BY <2>4, <3>4, ThirdsOf
  <2>5. CASE j = 2 * m + 2
    <3>1. j - 1 = 2 * m + 1
      BY <2>5
    <3>2. (j - 1) \div 2 = m
      BY <2>2, <3>1, Zenon
    <3>3. positions[j] = (2 * m + 1) + m + 1
      BY <2>3, <3>1, <3>2, Zenon
    <3>4. positions[j] = 3 * m + 2
      BY <3>3
    <3> QED
      BY <2>5, <3>4, ThirdsOf
  <2> QED
    BY <2>1, <2>4, <2>5
<1>4. positions \in Array /\ Len(positions) = n02(n)
  <2>1. positions \in [1 .. n02(n) -> Nat]
    BY <1>3
  <2> QED
    BY <1>2, <2>1, IsSequence DEF Array
<1>5. ASSUME NEW j \in 1 .. n02(n) PROVE positions[j] \in Sample(n)
  <2>1. PICK m \in Nat : \/ j = 2 * m + 1 /\ positions[j] = 3 * m + 1 /\ positions[j] % 3 = 1
                         \/ j = 2 * m + 2 /\ positions[j] = 3 * m + 2 /\ positions[j] % 3 = 2
    BY <1>3
  <2>2. /\ positions[j] \in 1 .. n /\ positions[j] % 3 # 0
        /\ positions[j] < n \/ n % 3 = 1
    BY <1>1, <2>1
  <2> QED
    BY <2>2 DEF Sample
<1>6. ASSUME NEW i \in Sample(n) PROVE \E j \in 1 .. n02(n) : positions[j] = i
  <2>1. i \in Nat /\ i >= 1 /\ i <= n /\ i % 3 # 0 /\ (i < n \/ n % 3 = 1)
    BY DEF Sample
  <2>2. PICK b \in Nat : i = 3 * b + 1 \/ i = 3 * b + 2
    BY <2>1, Thirds
  <2>3. (2 * b) \div 2 = b /\ (2 * b + 1) \div 2 = b
    OBVIOUS
  <2>4. CASE i = 3 * b + 1
    <3>1. 2 * b + 1 \in 1 .. n02(n)
      BY <1>1, <2>1, <2>4
    <3>2. positions[2 * b + 1] = (2 * b + 1 - 1) + (2 * b + 1 - 1) \div 2 + 1
      BY <3>1
    <3>3. 2 * b + 1 - 1 = 2 * b
      OBVIOUS
    <3>4. (2 * b + 1 - 1) \div 2 = b
      BY <2>3, <3>3, Zenon
    <3>5. positions[2 * b + 1] = 2 * b + b + 1
      BY <3>2, <3>3, <3>4
    <3> QED
      BY <2>4, <3>1, <3>5
  <2>5. CASE i = 3 * b + 2
    <3>1. 2 * b + 2 \in 1 .. n02(n)
      BY <1>1, <2>1, <2>5
    <3>2. positions[2 * b + 2] = (2 * b + 2 - 1) + (2 * b + 2 - 1) \div 2 + 1
      BY <3>1
    <3>3. 2 * b + 2 - 1 = 2 * b + 1
      OBVIOUS
    <3>4. (2 * b + 2 - 1) \div 2 = b
      BY <2>3, <3>3, Zenon
    <3>5. positions[2 * b + 2] = (2 * b + 1) + b + 1
      BY <3>2, <3>3, <3>4
    <3> QED
      BY <2>5, <3>1, <3>5
  <2> QED
    BY <2>2, <2>4, <2>5
<1>7. ASSUME NEW q \in 1 .. n02(n), NEW r \in 1 .. n02(n), positions[q] = positions[r] PROVE q = r
  <2>1. PICK m \in Nat : \/ q = 2 * m + 1 /\ positions[q] = 3 * m + 1
                         \/ q = 2 * m + 2 /\ positions[q] = 3 * m + 2
    BY <1>3
  <2>2. PICK l \in Nat : \/ r = 2 * l + 1 /\ positions[r] = 3 * l + 1
                         \/ r = 2 * l + 2 /\ positions[r] = 3 * l + 2
    BY <1>3
  <2> QED
    BY <1>7, <2>1, <2>2
<1> QED
  BY <1>4, <1>5, <1>6, <1>7 DEF Lists

\* The triple at i is less than the one at j.
TripleLess(source, i, j) ==
  \/ Byte(source, i) < Byte(source, j)
  \/ /\ Byte(source, i) = Byte(source, j)
     /\ \/ Byte(source, i + 1) < Byte(source, j + 1)
        \/ Byte(source, i + 1) = Byte(source, j + 1) /\ Byte(source, i + 2) < Byte(source, j + 2)

\* Of two triples one is less, or they are equal.
LEMMA TriplesCompare ==
  ASSUME NEW source \in Array, NEW i \in Nat, NEW j \in Nat
  PROVE  /\ TripleLess(source, i, j) \/ TripleLess(source, j, i) \/ Triple(source, i) = Triple(source, j)
         /\ Triple(source, i) = Triple(source, j) => ~TripleLess(source, i, j) /\ ~TripleLess(source, j, i)
         /\ ~(TripleLess(source, i, j) /\ TripleLess(source, j, i))
<1> DEFINE B(k) == Byte(source, k)
<1>1. /\ B(i) \in Nat /\ B(i + 1) \in Nat /\ B(i + 2) \in Nat
      /\ B(j) \in Nat /\ B(j + 1) \in Nat /\ B(j + 2) \in Nat
  <2>1. \A k \in Nat : Byte(source, k) \in Nat /\ k + 1 \in Nat /\ k + 2 \in Nat
    BY BytesOfArray
  <2> QED
    BY <2>1, Zenon
<1>2. Triple(source, i) = Triple(source, j) <=> B(i) = B(j) /\ B(i + 1) = B(j + 1) /\ B(i + 2) = B(j + 2)
  BY DEF Triple
<1>3. /\ TripleLess(source, i, j) <=>
           B(i) < B(j) \/ (B(i) = B(j) /\ (B(i + 1) < B(j + 1) \/ (B(i + 1) = B(j + 1) /\ B(i + 2) < B(j + 2))))
      /\ TripleLess(source, j, i) <=>
           B(j) < B(i) \/ (B(j) = B(i) /\ (B(j + 1) < B(i + 1) \/ (B(j + 1) = B(i + 1) /\ B(j + 2) < B(i + 2))))
  BY Zenon DEF TripleLess
<1> HIDE DEF B
<1> QED
  BY <1>1, <1>2, <1>3

\* Only the triples count.
LEMMA TriplesOnly ==
  ASSUME NEW source, NEW i, NEW j, NEW k, Triple(source, i) = Triple(source, j)
  PROVE  /\ TripleLess(source, i, k) <=> TripleLess(source, j, k)
         /\ TripleLess(source, k, i) <=> TripleLess(source, k, j)
<1>1. /\ Byte(source, i) = Byte(source, j) /\ Byte(source, i + 1) = Byte(source, j + 1)
      /\ Byte(source, i + 2) = Byte(source, j + 2)
  BY DEF Triple
<1> QED
  BY <1>1, Zenon DEF TripleLess

\* The first k triples of c do not fall.
TriplesSorted(source, c, k) ==
  \A q, r \in 1 .. k : q < r => ~TripleLess(source, c[r], c[q])

\* After three passes the sample positions are in the order of their triples.
LEMMA SampleIsSorted ==
  ASSUME NEW source \in Array, NEW c, c = SortedSample(source), NEW n, n = Len(source)
  PROVE  /\ n \in Nat /\ Lists(c, Sample(n)) /\ Len(c) = n02(n)
         /\ TriplesSorted(source, c, n02(n))
<1> DEFINE S == Sample(n)
           positions == [j \in 1 .. n02(n) |-> (j - 1) + (j - 1) \div 2 + 1]
           W0 == S \X S
           a  == RadixPass(positions, From(source, 2))
           W1 == ByKey(S, From(source, 2), W0)
           b  == RadixPass(a, From(source, 1))
           W2 == ByKey(S, From(source, 1), W1)
           W3 == ByKey(S, source, W2)
<1>1. n \in Nat
  BY DEF Array
<1>2. S \in SUBSET Nat
  BY <1>1 DEF Sample
<1>3. Lists(positions, S) /\ Len(positions) = n02(n)
  BY <1>1, PositionsListSample
<1>4. /\ From(source, 1) \in Array /\ From(source, 2) \in Array
      /\ \A i \in Nat : /\ Byte(From(source, 1), i) = Byte(source, i + 1)
                        /\ Byte(From(source, 2), i) = Byte(source, i + 2)
  BY FromReadsOn
<1>5. InOrder(positions, W0)
  <2> HIDE DEF S, positions
  <2>1. \A r \in 1 .. Len(positions) : positions[r] \in S
    BY <1>3, Zenon DEF Lists
  <2> QED
    BY <2>1 DEF InOrder
<1>6. c = RadixPass(b, source)
  BY DEF SortedSample
<1> HIDE DEF S, positions, W0
<1>7. Lists(a, S) /\ Len(a) = n02(n) /\ InOrder(a, W1)
  BY <1>2, <1>3, <1>4, <1>5, RadixPassSorts
<1> HIDE DEF a, W1
<1>8. Lists(b, S) /\ Len(b) = n02(n) /\ InOrder(b, W2)
  BY <1>2, <1>4, <1>7, RadixPassSorts
<1> HIDE DEF b, W2
<1>9. Lists(c, S) /\ Len(c) = n02(n) /\ InOrder(c, W3)
  BY <1>2, <1>6, <1>8, RadixPassSorts
<1> HIDE DEF W3
<1>10. ASSUME NEW i \in S, NEW j \in S, <<i, j>> \in W3 PROVE ~TripleLess(source, j, i)
  <2> DEFINE B(k) == Byte(source, k)
  <2>1. i \in Nat /\ j \in Nat
    BY <1>2
  <2>2. B(i) < B(j) \/ (B(i) = B(j) /\ <<i, j>> \in W2)
    BY <1>10 DEF W3, ByKey
  <2>3. <<i, j>> \in W2 => B(i + 1) < B(j + 1) \/ (B(i + 1) = B(j + 1) /\ <<i, j>> \in W1)
    <3>1. <<i, j>> \in W2 => \/ Byte(From(source, 1), i) < Byte(From(source, 1), j)
                             \/ Byte(From(source, 1), i) = Byte(From(source, 1), j) /\ <<i, j>> \in W1
      BY DEF W2, ByKey
    <3> QED
      BY <1>4, <2>1, <3>1, Zenon
  <2>4. <<i, j>> \in W1 => B(i + 2) < B(j + 2) \/ B(i + 2) = B(j + 2)
    <3>1. <<i, j>> \in W1 => \/ Byte(From(source, 2), i) < Byte(From(source, 2), j)
                             \/ Byte(From(source, 2), i) = Byte(From(source, 2), j)
      BY DEF W1, ByKey
    <3> QED
      BY <1>4, <2>1, <3>1, Zenon
  <2>5. /\ B(i) \in Nat /\ B(i + 1) \in Nat /\ B(i + 2) \in Nat
        /\ B(j) \in Nat /\ B(j + 1) \in Nat /\ B(j + 2) \in Nat
    <3>1. \A k \in Nat : Byte(source, k) \in Nat /\ k + 1 \in Nat /\ k + 2 \in Nat
      BY BytesOfArray
    <3> QED
      BY <2>1, <3>1, Zenon
  <2>6. TripleLess(source, j, i) <=>
           B(j) < B(i) \/ (B(j) = B(i) /\ (B(j + 1) < B(i + 1) \/ (B(j + 1) = B(i + 1) /\ B(j + 2) < B(i + 2))))
    BY Zenon DEF TripleLess
  <2> HIDE DEF B
  <2> QED
    BY <2>2, <2>3, <2>4, <2>5, <2>6
<1>11. ASSUME NEW q \in 1 .. n02(n), NEW r \in 1 .. n02(n), q < r PROVE ~TripleLess(source, c[r], c[q])
  <2>1. c[q] \in S /\ c[r] \in S
    BY <1>9 DEF Lists
  <2>2. <<c[q], c[r]>> \in W3
    BY <1>9, <1>11 DEF InOrder
  <2> QED
    BY <1>10, <2>1, <2>2
<1> QED
  BY <1>1, <1>9, <1>11 DEF S, TriplesSorted

\* The places up to r where the next triple differs from the one before it.
Changes(source, c, r) == {q \in 2 .. r : Triple(source, c[q]) # Triple(source, c[q - 1])}

\* Names count the changes, so they are the same for equal triples and grow
\* otherwise.
LEMMA NamesGrow ==
  ASSUME NEW source \in Array, NEW k \in Nat, NEW c \in [1 .. k -> Nat],
         NEW x \in 1 .. k, NEW y \in 1 .. k, TriplesSorted(source, c, k), x < y
  PROVE  /\ Cardinality(Changes(source, c, x)) <= Cardinality(Changes(source, c, y))
         /\ Cardinality(Changes(source, c, x)) = Cardinality(Changes(source, c, y))
              <=> Triple(source, c[x]) = Triple(source, c[y])
         /\ IsFiniteSet(Changes(source, c, y))
         /\ Cardinality(Changes(source, c, x)) \in Nat /\ Cardinality(Changes(source, c, y)) \in Nat
<1> DEFINE X == Changes(source, c, x)
           Y == Changes(source, c, y)
           T(r) == Triple(source, c[r])
<1>1. X \in SUBSET Y
  BY DEF Changes
<1>2. Y \in SUBSET (2 .. y) /\ IsFiniteSet(2 .. y)
  BY FS_Interval DEF Changes
<1>3. \A r \in Nat : /\ r \in Y <=> r \in 2 .. y /\ T(r) # T(r - 1)
                     /\ r \in X <=> r \in 2 .. x /\ T(r) # T(r - 1)
  BY DEF Changes
<1>4. /\ IsFiniteSet(Y) /\ IsFiniteSet(X) /\ Cardinality(X) <= Cardinality(Y)
      /\ Cardinality(X) = Cardinality(Y) <=> X = Y
      /\ Cardinality(X) \in Nat /\ Cardinality(Y) \in Nat
  <2> HIDE DEF X, Y
  <2>1. IsFiniteSet(Y)
    BY <1>2, FS_Subset
  <2>2. IsFiniteSet(X) /\ Cardinality(X) <= Cardinality(Y) /\ (Cardinality(Y) = Cardinality(X) => Y = X)
    BY <1>1, <2>1, FS_Subset
  <2> QED
    BY <2>1, <2>2, FS_CardinalityType
<1>5. \A q, r \in 1 .. k : q < r => ~TripleLess(source, c[r], c[q])
  BY DEF TriplesSorted
<1> HIDE DEF X, Y, T
<1>6. ASSUME X = Y PROVE T(x) = T(y)
  <2> DEFINE Bad == {r \in x .. y : T(r) # T(x)}
  <2>1. SUFFICES ASSUME Bad # {} PROVE FALSE
    <3>1. y \in x .. y
      OBVIOUS
    <3> QED
      BY <3>1
  <2>2. Bad \in SUBSET Nat
    OBVIOUS
  <2>3. PICK r \in Bad : \A s \in Bad : r <= s
    <3> HIDE DEF Bad
    <3> QED
      BY <2>1, <2>2, Smallest
  <2>4. r \in x .. y /\ T(r) # T(x) /\ r # x
    OBVIOUS
  <2>5. r - 1 \in x .. y /\ r - 1 < r
    BY <2>4
  <2>6. T(r - 1) = T(x)
    BY <2>3, <2>5
  <2>7. r \in Nat /\ r \in 2 .. y /\ r \notin 2 .. x
    BY <2>4
  <2>8. r \in Y /\ r \notin X
    BY <1>3, <2>4, <2>6, <2>7
  <2> QED
    BY <1>6, <2>8
<1>7. ASSUME T(x) = T(y) PROVE X = Y
  <2>1. ASSUME NEW r \in x .. y PROVE T(r) = T(x)
    <3>1. c[r] \in Nat /\ c[x] \in Nat /\ c[y] \in Nat /\ r \in 1 .. k
      OBVIOUS
    <3>2. CASE r = x
      BY <3>2
    <3>3. CASE r = y
      BY <1>7, <3>3
    <3>4. CASE r # x /\ r # y
      <4>1. x < r /\ r < y
        BY <3>4
      <4>2. ~TripleLess(source, c[r], c[x]) /\ ~TripleLess(source, c[y], c[r])
        BY <1>5, <3>1, <4>1
      <4>3. TripleLess(source, c[x], c[r]) <=> TripleLess(source, c[y], c[r])
        BY <1>7, TriplesOnly DEF T
      <4>4. Triple(source, c[x]) = Triple(source, c[r])
        BY <3>1, <4>2, <4>3, TriplesCompare
      <4> QED
        BY <4>4 DEF T
    <3> QED
      BY <3>2, <3>3, <3>4
  <2>2. ASSUME NEW r \in Y PROVE r \in X
    <3>1. r \in 2 .. y /\ r \in Nat
      BY <1>2
    <3>2. T(r) # T(r - 1)
      BY <1>3, <3>1
    <3>3. CASE r <= x
      BY <1>3, <3>1, <3>2, <3>3
    <3>4. CASE ~(r <= x)
      <4>1. r \in x .. y /\ r - 1 \in x .. y
        BY <3>1, <3>4
      <4> QED
        BY <2>1, <3>2, <4>1
    <3> QED
      BY <3>3, <3>4
  <2> QED
    BY <1>1, <2>2
<1>8. T(x) = T(y) <=> Triple(source, c[x]) = Triple(source, c[y])
  BY DEF T
<1> QED
  BY <1>4, <1>6, <1>7, <1>8 DEF X, Y

\* The name of the sample position at i, in s12.
NameAt(named, n, i) == Byte(named, Slot(i, n))

\* Every sample position has a name, and names are in the order of the triples.
LEMMA NamesOfSample ==
  ASSUME NEW source \in Array, NEW n, n = Len(source),
         NEW named, named = Names(source, SortedSample(source))
  PROVE  /\ named \in [1 .. n02(n) -> 1 .. n02(n)] /\ Len(named) = n02(n)
         /\ \A i \in Sample(n) : NameAt(named, n, i) \in 1 .. n02(n)
         /\ \A i, j \in Sample(n) :
              NameAt(named, n, i) < NameAt(named, n, j) <=> TripleLess(source, i, j)
<1> DEFINE c == SortedSample(source)
           m == n02(n)
           name(r) == 1 + Cardinality(Changes(source, c, r))
           at(q) == CHOOSE r \in 1 .. Len(c) : Slot(c[r], Len(source)) = q - 1
<1>1. /\ n \in Nat /\ Lists(c, Sample(n)) /\ Len(c) = m /\ m \in Nat
      /\ TriplesSorted(source, c, m)
  BY SampleIsSorted, SampleSizes
<1>2. named = [q \in 1 .. Len(c) |-> name(at(q))]
  BY DEF Names, Changes
<1>3. /\ \A r \in 1 .. m : c[r] \in Sample(n) /\ c[r] \in Nat
      /\ \A i \in Sample(n) : \E r \in 1 .. m : c[r] = i
      /\ c \in [1 .. m -> Nat]
  BY <1>1, LenProperties DEF Lists, Array
<1> HIDE DEF c
<1>4. ASSUME NEW q \in 1 .. m PROVE at(q) \in 1 .. m /\ c[at(q)] = Offset12(q - 1, n)
  <2>1. q - 1 \in 0 .. n02(n) - 1
    BY <1>1
  <2>2. Offset12(q - 1, n) \in Sample(n) /\ Slot(Offset12(q - 1, n), n) = q - 1
    BY <1>1, <2>1, SampleOfSlot
  <2>3. PICK r \in 1 .. m : c[r] = Offset12(q - 1, n)
    BY <1>3, <2>2
  <2>4. r \in 1 .. Len(c) /\ Slot(c[r], Len(source)) = q - 1
    BY <1>1, <2>2, <2>3
  <2>5. at(q) \in 1 .. Len(c) /\ Slot(c[at(q)], Len(source)) = q - 1
    BY <2>4, Zenon
  <2> HIDE DEF at
  <2>6. at(q) \in 1 .. m /\ Slot(c[at(q)], n) = q - 1
    BY <1>1, <2>5
  <2>7. c[at(q)] \in Sample(n)
    BY <1>3, <2>6
  <2>8. Offset12(Slot(c[at(q)], n), n) = c[at(q)]
    BY <1>1, <2>7, SlotOfSample
  <2> QED
    BY <2>6, <2>8
<1> HIDE DEF at
<1>5. ASSUME NEW r \in 1 .. m
      PROVE  name(r) \in 1 .. m /\ Cardinality(Changes(source, c, r)) \in Nat
  <2>1. Changes(source, c, r) \in SUBSET (2 .. r)
    BY DEF Changes
  <2>2. IsFiniteSet(2 .. r) /\ Cardinality(2 .. r) = IF 2 > r THEN 0 ELSE r - 2 + 1
    BY <1>1, FS_Interval
  <2>3. Cardinality(Changes(source, c, r)) <= Cardinality(2 .. r) /\ Cardinality(Changes(source, c, r)) \in Nat
    BY <2>1, <2>2, FS_Subset, FS_CardinalityType
  <2> QED
    BY <1>1, <2>2, <2>3
<1>6. named = [q \in 1 .. m |-> name(at(q))]
  BY <1>1, <1>2
<1> HIDE DEF name
<1>7. named \in [1 .. m -> 1 .. m]
  BY <1>4, <1>5, <1>6
<1>8. Len(named) = m
  BY <1>1, <1>7, IsSequence
<1>9. ASSUME NEW i \in Sample(n)
      PROVE  \E r \in 1 .. m : c[r] = i /\ NameAt(named, n, i) = name(r)
  <2>1. Slot(i, n) \in 0 .. m - 1 /\ Offset12(Slot(i, n), n) = i
    BY <1>1, SlotOfSample
  <2>2. PICK x \in 0 .. m - 1 : x = Slot(i, n)
    BY <2>1
  <2>3. x + 1 \in 1 .. m /\ x < m /\ (x + 1) - 1 = x
    BY <1>1
  <2>4. at(x + 1) \in 1 .. m /\ c[at(x + 1)] = Offset12(x, n)
    BY <1>4, <2>3
  <2>5. NameAt(named, n, i) = named[x + 1]
    BY <1>8, <2>2, <2>3 DEF NameAt, Byte
  <2>6. named[x + 1] = name(at(x + 1))
    BY <1>6, <2>3
  <2> QED
    BY <2>1, <2>2, <2>4, <2>5, <2>6
<1>10. ASSUME NEW i \in Sample(n), NEW j \in Sample(n)
       PROVE  NameAt(named, n, i) < NameAt(named, n, j) <=> TripleLess(source, i, j)
  <2>1. PICK r \in 1 .. m : c[r] = i /\ NameAt(named, n, i) = name(r)
    BY <1>9
  <2>2. PICK s \in 1 .. m : c[s] = j /\ NameAt(named, n, j) = name(s)
    BY <1>9
  <2>3. i \in Nat /\ j \in Nat /\ name(r) \in Nat /\ name(s) \in Nat
    <3>1. name(r) \in 1 .. m /\ name(s) \in 1 .. m
      BY <1>5
    <3>2. i \in Nat /\ j \in Nat
      BY <1>3, <2>1, <2>2
    <3> QED
      BY <1>1, <3>1, <3>2
  <2>4. /\ TripleLess(source, i, j) \/ TripleLess(source, j, i) \/ Triple(source, i) = Triple(source, j)
        /\ Triple(source, i) = Triple(source, j) => ~TripleLess(source, i, j) /\ ~TripleLess(source, j, i)
    BY <2>3, TriplesCompare
  <2>5. \A x, y \in 1 .. m : x < y =>
          /\ name(x) <= name(y)
          /\ name(x) = name(y) <=> Triple(source, c[x]) = Triple(source, c[y])
    <3>1. \A k \in Nat : \A d \in [1 .. k -> Nat] : \A x, y \in 1 .. k :
            TriplesSorted(source, d, k) /\ x < y => Cardinality(Changes(source, d, x)) <= Cardinality(Changes(source, d, y))
      BY NamesGrow
    <3> DEFINE agree(d, x, y) ==
                 Cardinality(Changes(source, d, x)) = Cardinality(Changes(source, d, y))
                   <=> Triple(source, d[x]) = Triple(source, d[y])
    <3>2. \A k \in Nat : \A d \in [1 .. k -> Nat] : \A x, y \in 1 .. k :
            TriplesSorted(source, d, k) /\ x < y => agree(d, x, y)
      BY NamesGrow
    <3> HIDE DEF agree
    <3>6. \A x, y \in 1 .. m : x < y => agree(c, x, y)
      BY <1>1, <1>3, <3>2, Zenon
    <3>3. \A x, y \in 1 .. m : x < y =>
              Cardinality(Changes(source, c, x)) <= Cardinality(Changes(source, c, y))
      BY <1>1, <1>3, <3>1, Zenon
    <3>5. \A x, y \in 1 .. m : x < y =>
              (Cardinality(Changes(source, c, x)) = Cardinality(Changes(source, c, y))
                   <=> Triple(source, c[x]) = Triple(source, c[y]))
      BY <3>6 DEF agree
    <3>4. \A x \in 1 .. m : Cardinality(Changes(source, c, x)) \in Nat
      BY <1>5
    <3> QED
      <4> DEFINE C(x) == Cardinality(Changes(source, c, x))
      <4>1. \A x \in 1 .. m : name(x) = 1 + C(x)
        BY DEF name
      <4>2. \A x \in 1 .. m : C(x) \in Nat
        BY <3>4
      <4>3. \A x, y \in 1 .. m : x < y => C(x) <= C(y)
        BY <3>3
      <4>4. \A x, y \in 1 .. m : x < y => (C(x) = C(y) <=> Triple(source, c[x]) = Triple(source, c[y]))
        BY <3>5
      <4> HIDE DEF C
      <4> QED
        <5> SUFFICES ASSUME NEW x \in 1 .. m, NEW y \in 1 .. m, x < y
                     PROVE  /\ name(x) <= name(y)
                            /\ name(x) = name(y) <=> Triple(source, c[x]) = Triple(source, c[y])
          OBVIOUS
        <5>1. name(x) <= name(y) /\ (name(x) = name(y) <=> C(x) = C(y))
          BY <4>1, <4>2, <4>3
        <5>2. C(x) = C(y) <=> Triple(source, c[x]) = Triple(source, c[y])
          BY <4>4
        <5> QED
          BY <5>1, <5>2
  <2>6. CASE r < s
    <3>1. ~TripleLess(source, j, i)
      BY <1>1, <2>1, <2>2, <2>6 DEF TriplesSorted
    <3>2. name(r) <= name(s) /\ (name(r) = name(s) <=> Triple(source, i) = Triple(source, j))
      BY <2>1, <2>2, <2>5, <2>6
    <3>3. name(r) < name(s) <=> ~(name(r) = name(s))
      BY <2>3, <3>2
    <3> QED
      BY <2>1, <2>2, <2>4, <3>1, <3>2, <3>3
  <2>7. CASE r = s
    <3>1. i = j /\ ~(name(r) < name(s))
      BY <2>1, <2>2, <2>3, <2>7
    <3> QED
      BY <2>1, <2>2, <2>4, <3>1
  <2>8. CASE s < r
    <3>1. ~TripleLess(source, i, j)
      BY <1>1, <2>1, <2>2, <2>8 DEF TriplesSorted
    <3>2. name(s) <= name(r)
      BY <2>5, <2>8
    <3>3. ~(name(r) < name(s))
      BY <2>3, <3>2
    <3> QED
      BY <2>1, <2>2, <3>1, <3>3
  <2>9. r < s \/ r = s \/ s < r
    BY <1>1
  <2> QED
    BY <2>6, <2>7, <2>8, <2>9
<1>11. ASSUME NEW i \in Sample(n) PROVE NameAt(named, n, i) \in 1 .. m
  BY <1>5, <1>9
<1> QED
  BY <1>7, <1>8, <1>10, <1>11

-----------------------------------------------------------------------------
(* The order of the names.                                                 *)

\* The positions the names speak of: those of the sample, and the end of the
\* text when it lies 2 mod 3, where s12 has its first zero.
Reach(n) == {i \in 1 .. n : i % 3 # 0}

\* Three positions on in the text are one slot on in s12.
LEMMA SlotMoves ==
  ASSUME NEW n \in Nat, NEW i \in Nat, NEW m \in Nat
  PROVE  Slot(i + 3 * m, n) = Slot(i, n) + m /\ (i + 3 * m) % 3 = i % 3 /\ Slot(i, n) \in Nat
<1>1. PICK b \in Nat : /\ i \div 3 = b
                       /\ \/ i = 3 * b /\ i % 3 = 0
                          \/ i = 3 * b + 1 /\ i % 3 = 1
                          \/ i = 3 * b + 2 /\ i % 3 = 2
  BY Thirds
<1>2. n0(n) \in Nat
  BY SampleSizes
<1>3. b + m \in Nat /\ 3 * (b + m) = 3 * b + 3 * m
  OBVIOUS
<1>4. /\ (3 * (b + m)) % 3 = 0 /\ (3 * (b + m)) \div 3 = b + m
      /\ (3 * (b + m) + 1) % 3 = 1 /\ (3 * (b + m) + 1) \div 3 = b + m
      /\ (3 * (b + m) + 2) % 3 = 2 /\ (3 * (b + m) + 2) \div 3 = b + m
  BY <1>3, ThirdsOf
<1>5. CASE i = 3 * b /\ i % 3 = 0
  <2>1. i + 3 * m = 3 * (b + m)
    BY <1>3, <1>5
  <2>2. (i + 3 * m) % 3 = 0 /\ (i + 3 * m) \div 3 = b + m
    BY <1>4, <2>1, Zenon
  <2> QED
    BY <1>1, <1>2, <1>5, <2>2 DEF Slot
<1>6. CASE i = 3 * b + 1 /\ i % 3 = 1
  <2>1. i + 3 * m = 3 * (b + m) + 1
    BY <1>3, <1>6
  <2>2. (i + 3 * m) % 3 = 1 /\ (i + 3 * m) \div 3 = b + m
    BY <1>4, <2>1, Zenon
  <2> QED
    BY <1>1, <1>2, <1>6, <2>2 DEF Slot
<1>7. CASE i = 3 * b + 2 /\ i % 3 = 2
  <2>1. i + 3 * m = 3 * (b + m) + 2
    BY <1>3, <1>7
  <2>2. (i + 3 * m) % 3 = 2 /\ (i + 3 * m) \div 3 = b + m
    BY <1>4, <2>1, Zenon
  <2> QED
    BY <1>1, <1>2, <1>7, <2>2 DEF Slot
<1> QED
  BY <1>1, <1>5, <1>6, <1>7

\* A position within reach is in the sample or is the end of the text.
LEMMA ReachOrEnd ==
  ASSUME NEW n \in Nat, NEW i \in Reach(n), i \notin Sample(n)
  PROVE  i = n /\ n % 3 = 2 /\ Slot(i, n) = n02(n)
<1>1. i \in Nat /\ i <= n /\ i % 3 # 0 /\ i >= 1
  BY DEF Reach
<1>2. i = n /\ n % 3 # 1
  BY <1>1 DEF Sample
<1>3. n % 3 = 2
  BY <1>1, <1>2, Thirds
<1>4. Slot(i, n) = n \div 3 + n0(n)
  BY <1>2, <1>3 DEF Slot
<1>5. n0(n) \in Nat /\ n \div 3 \in Nat
  BY SampleSizes, Thirds
<1>6. n02(n) = n0(n) + n \div 3
  BY DEF n02
<1> HIDE DEF n0
<1> QED
  BY <1>2, <1>3, <1>4, <1>5, <1>6

\* The end included, names are in the order of the triples.
LEMMA NamesOnReach ==
  ASSUME NEW source \in ZeroFree, NEW n, n = Len(source),
         NEW named, named = Names(source, SortedSample(source)),
         NEW i \in Reach(n), NEW j \in Reach(n)
  PROVE  /\ NameAt(named, n, i) \in Nat /\ NameAt(named, n, j) \in Nat
         /\ NameAt(named, n, i) < NameAt(named, n, j) <=> TripleLess(source, i, j)
<1>1. source \in Array /\ n \in Nat
  BY DEF ZeroFree, Array
<1>2. /\ named \in [1 .. n02(n) -> 1 .. n02(n)] /\ Len(named) = n02(n) /\ n02(n) \in Nat
      /\ \A x \in Sample(n) : NameAt(named, n, x) \in 1 .. n02(n)
  BY <1>1, NamesOfSample, SampleSizes
<1>3. \A x, y \in Sample(n) : NameAt(named, n, x) < NameAt(named, n, y) <=> TripleLess(source, x, y)
  BY <1>1, NamesOfSample
<1>4. ASSUME NEW x \in Reach(n), x \notin Sample(n)
      PROVE  NameAt(named, n, x) = 0 /\ x = n /\ Byte(source, x) = 0
  <2>1. x = n /\ Slot(x, n) = n02(n)
    BY <1>1, <1>4, ReachOrEnd
  <2>2. Byte(source, n) = 0
    BY <1>1, BytesOfText
  <2>3. Byte(named, n02(n)) = 0
    BY <1>2 DEF Byte
  <2> QED
    BY <2>1, <2>2, <2>3 DEF NameAt
<1>5. ASSUME NEW x \in Sample(n), NEW y \in Reach(n), y \notin Sample(n)
      PROVE  Byte(source, x) \in Nat /\ Byte(source, x) # 0
  <2>1. y = n /\ n % 3 = 2
    BY <1>1, <1>5, ReachOrEnd
  <2>2. x < n /\ x \in Nat
    BY <1>1, <2>1 DEF Sample
  <2> QED
    BY <1>1, <2>2, BytesOfText
<1>6. CASE i \in Sample(n) /\ j \in Sample(n)
  BY <1>2, <1>3, <1>6
<1>7. CASE i \in Sample(n) /\ j \notin Sample(n)
  <2>1. NameAt(named, n, j) = 0 /\ Byte(source, j) = 0 /\ NameAt(named, n, i) \in 1 .. n02(n)
    BY <1>2, <1>4, <1>7
  <2>2. Byte(source, i) \in Nat /\ Byte(source, i) # 0
    BY <1>5, <1>7
  <2>3. ~TripleLess(source, i, j)
    BY <2>1, <2>2 DEF TripleLess
  <2>4. ~(NameAt(named, n, i) < NameAt(named, n, j)) /\ NameAt(named, n, i) \in Nat
    BY <1>2, <2>1
  <2> QED
    BY <2>1, <2>3, <2>4
<1>8. CASE i \notin Sample(n) /\ j \in Sample(n)
  <2>1. NameAt(named, n, i) = 0 /\ Byte(source, i) = 0 /\ NameAt(named, n, j) \in 1 .. n02(n)
    BY <1>2, <1>4, <1>8
  <2>2. Byte(source, j) \in Nat /\ Byte(source, j) # 0
    BY <1>5, <1>8
  <2>3. TripleLess(source, i, j)
    BY <2>1, <2>2 DEF TripleLess
  <2>4. NameAt(named, n, i) < NameAt(named, n, j) /\ NameAt(named, n, j) \in Nat
    BY <1>2, <2>1
  <2> QED
    BY <2>1, <2>3, <2>4
<1>9. CASE i \notin Sample(n) /\ j \notin Sample(n)
  <2>1. NameAt(named, n, i) = 0 /\ NameAt(named, n, j) = 0 /\ i = n /\ j = n
    BY <1>4, <1>9
  <2>2. ~TripleLess(source, n, n)
    BY <1>1, TriplesCompare
  <2> QED
    BY <2>1, <2>2
<1> QED
  BY <1>6, <1>7, <1>8, <1>9

\* Names differ as the triples do.
LEMMA NamesTellTriples ==
  ASSUME NEW source \in ZeroFree, NEW n, n = Len(source),
         NEW named, named = Names(source, SortedSample(source)),
         NEW i \in Reach(n), NEW j \in Reach(n)
  PROVE  NameAt(named, n, i) = NameAt(named, n, j) <=> Triple(source, i) = Triple(source, j)
<1>1. /\ NameAt(named, n, i) \in Nat /\ NameAt(named, n, j) \in Nat
      /\ NameAt(named, n, i) < NameAt(named, n, j) <=> TripleLess(source, i, j)
      /\ NameAt(named, n, j) < NameAt(named, n, i) <=> TripleLess(source, j, i)
  BY NamesOnReach
<1>2. source \in Array /\ i \in Nat /\ j \in Nat
  BY DEF ZeroFree, Array, Reach
<1>3. /\ TripleLess(source, i, j) \/ TripleLess(source, j, i) \/ Triple(source, i) = Triple(source, j)
      /\ Triple(source, i) = Triple(source, j) => ~TripleLess(source, i, j) /\ ~TripleLess(source, j, i)
  BY <1>2, TriplesCompare
<1>4. NameAt(named, n, i) = NameAt(named, n, j)
        <=> ~(NameAt(named, n, i) < NameAt(named, n, j)) /\ ~(NameAt(named, n, j) < NameAt(named, n, i))
  BY <1>1
<1> QED
  BY <1>1, <1>3, <1>4, Zenon

\* The names are a text themselves.
LEMMA NamesAreText ==
  ASSUME NEW source \in Array, NEW n, n = Len(source),
         NEW named, named = Names(source, SortedSample(source))
  PROVE  named \in ZeroFree /\ Len(named) = n02(n) /\ n02(n) \in Nat
<1>1. named \in [1 .. n02(n) -> 1 .. n02(n)] /\ Len(named) = n02(n) /\ n02(n) \in Nat
  <2>1. n \in Nat
    BY DEF Array
  <2>2. named \in [1 .. n02(n) -> 1 .. n02(n)] /\ Len(named) = n02(n)
    BY <2>1, NamesOfSample
  <2> QED
    BY <2>1, <2>2, SampleSizes
<1>2. named \in [1 .. n02(n) -> Nat \ {0}]
  BY <1>1
<1> QED
  BY <1>1, <1>2, IsSequence DEF ZeroFree

\* A sample suffix before another one is before it in the text of the names, too.
LEMMA NamesKeepOrder ==
  ASSUME NEW source \in ZeroFree, NEW n, n = Len(source),
         NEW named, named = Names(source, SortedSample(source)),
         NEW i \in Sample(n), NEW j \in Sample(n), Before(source, i, j)
  PROVE  Before(named, Slot(i, n), Slot(j, n))
<1>1. /\ source \in Array /\ n \in Nat /\ i \in Nat /\ j \in Nat /\ i >= 1 /\ j >= 1
      /\ i % 3 # 0 /\ j % 3 # 0
  BY DEF ZeroFree, Array, Sample
<1>2. PICK k \in 0 .. n : /\ Byte(source, i + k) < Byte(source, j + k)
                          /\ \A m \in 0 .. k - 1 : Byte(source, i + m) = Byte(source, j + m)
  BY DEF Before
<1>3. PICK b \in Nat : k = 3 * b \/ k = 3 * b + 1 \/ k = 3 * b + 2
  <2>1. k \in Nat
    BY <1>1
  <2> QED
    BY <2>1, Thirds
<1>12. \A m \in Nat : /\ Slot(i + 3 * m, n) = Slot(i, n) + m /\ (i + 3 * m) % 3 = i % 3
                      /\ Slot(j + 3 * m, n) = Slot(j, n) + m /\ (j + 3 * m) % 3 = j % 3
  <2>1. n \in Nat /\ i \in Nat /\ j \in Nat
    BY <1>1
  <2>2. ASSUME NEW m \in Nat PROVE Slot(i + 3 * m, n) = Slot(i, n) + m /\ (i + 3 * m) % 3 = i % 3
    BY <2>1, SlotMoves
  <2>3. ASSUME NEW m \in Nat PROVE Slot(j + 3 * m, n) = Slot(j, n) + m /\ (j + 3 * m) % 3 = j % 3
    BY <2>1, SlotMoves
  <2> QED
    BY <2>2, <2>3
<1> DEFINE x == i + 3 * b
           y == j + 3 * b
<1>4. /\ named \in ZeroFree /\ Len(named) = n02(n) /\ n02(n) \in Nat
      /\ Slot(i, n) \in Nat /\ Slot(j, n) \in Nat
  BY <1>1, NamesAreText, SlotMoves
<1>5. j + k < n
  <2>1. Byte(source, j + k) \in Nat /\ Byte(source, i + k) \in Nat /\ (Byte(source, j + k) = 0 <=> j + k >= n)
    BY <1>1, BytesOfText
  <2> QED
    BY <1>1, <1>2, <2>1
<1>6. i + k <= n
  <2>1. CASE k = 0
    BY <1>1, <2>1 DEF Sample
  <2>2. CASE k # 0
    <3>1. Byte(source, i + (k - 1)) = Byte(source, j + (k - 1)) /\ i + (k - 1) \in Nat /\ j + (k - 1) \in Nat
      BY <1>1, <1>2, <2>2
    <3>2. Byte(source, j + (k - 1)) # 0
      BY <1>1, <1>5, <3>1, BytesOfText
    <3>3. i + (k - 1) < n
      BY <1>1, <3>1, <3>2, BytesOfText
    <3> QED
      BY <1>1, <3>3
  <2> QED
    BY <2>1, <2>2
<1>7. ASSUME NEW m \in Nat, m <= b
      PROVE  /\ i + 3 * m \in Reach(n) /\ j + 3 * m \in Reach(n)
             /\ NameAt(named, n, i + 3 * m) = Byte(named, Slot(i, n) + m)
             /\ NameAt(named, n, j + 3 * m) = Byte(named, Slot(j, n) + m)
  <2>1. 3 * m <= k
    BY <1>3, <1>7
  <2>2. i + 3 * m \in 1 .. n /\ j + 3 * m \in 1 .. n
    BY <1>1, <1>5, <1>6, <2>1
  <2>3. Slot(i + 3 * m, n) = Slot(i, n) + m /\ (i + 3 * m) % 3 = i % 3
    BY <1>12
  <2>4. Slot(j + 3 * m, n) = Slot(j, n) + m /\ (j + 3 * m) % 3 = j % 3
    BY <1>12
  <2> QED
    BY <1>1, <2>2, <2>3, <2>4, Zenon DEF Reach, NameAt
<1>8. ASSUME NEW m \in 0 .. b - 1
      PROVE  Byte(named, Slot(i, n) + m) = Byte(named, Slot(j, n) + m)
  <2>1. m \in Nat /\ m <= b /\ 3 * m \in 0 .. k - 1 /\ 3 * m + 1 \in 0 .. k - 1 /\ 3 * m + 2 \in 0 .. k - 1
    BY <1>3
  <2>2. /\ Byte(source, i + 3 * m) = Byte(source, j + 3 * m)
        /\ Byte(source, i + (3 * m + 1)) = Byte(source, j + (3 * m + 1))
        /\ Byte(source, i + (3 * m + 2)) = Byte(source, j + (3 * m + 2))
    BY <1>2, <2>1
  <2>3. /\ i + (3 * m + 1) = i + 3 * m + 1 /\ i + (3 * m + 2) = i + 3 * m + 2
        /\ j + (3 * m + 1) = j + 3 * m + 1 /\ j + (3 * m + 2) = j + 3 * m + 2
    BY <1>1, <2>1
  <2>4. Triple(source, i + 3 * m) = Triple(source, j + 3 * m)
    BY <2>2, <2>3 DEF Triple
  <2>5. NameAt(named, n, i + 3 * m) = NameAt(named, n, j + 3 * m)
    BY <1>7, <2>1, <2>4, NamesTellTriples
  <2> QED
    BY <1>7, <2>1, <2>5
<1>9. TripleLess(source, x, y)
  <2>1. x \in Nat /\ y \in Nat /\ i + (3 * b + 1) = x + 1 /\ i + (3 * b + 2) = x + 2
        /\ j + (3 * b + 1) = y + 1 /\ j + (3 * b + 2) = y + 2
    BY <1>1, <1>3
  <2>2. \A m \in 0 .. k - 1 : Byte(source, i + m) = Byte(source, j + m)
    BY <1>2
  <2> HIDE DEF x, y
  <2>3. CASE k = 3 * b
    BY <1>2, <2>3 DEF TripleLess, x, y
  <2>4. CASE k = 3 * b + 1
    <3>1. 3 * b \in 0 .. k - 1
      BY <1>3, <2>4
    <3>2. Byte(source, x) = Byte(source, y)
      BY <2>2, <3>1 DEF x, y
    <3>3. Byte(source, x + 1) < Byte(source, y + 1)
      BY <1>2, <2>1, <2>4
    <3> QED
      BY <3>2, <3>3 DEF TripleLess
  <2>5. CASE k = 3 * b + 2
    <3>1. 3 * b \in 0 .. k - 1 /\ 3 * b + 1 \in 0 .. k - 1
      BY <1>3, <2>5
    <3>2. Byte(source, x) = Byte(source, y)
      BY <2>2, <3>1 DEF x, y
    <3>4. Byte(source, x + 1) = Byte(source, y + 1)
      BY <2>1, <2>2, <3>1
    <3>3. Byte(source, x + 2) < Byte(source, y + 2)
      BY <1>2, <2>1, <2>5
    <3> QED
      BY <3>2, <3>3, <3>4 DEF TripleLess
  <2> QED
    BY <1>3, <2>3, <2>4, <2>5
<1>10. Byte(named, Slot(i, n) + b) < Byte(named, Slot(j, n) + b)
  BY <1>3, <1>7, <1>9, NamesOnReach
<1>11. b \in 0 .. Len(named)
  <2>1. Slot(j, n) + b \in Nat
    BY <1>3, <1>4
  <2>2. Slot(i, n) + b \in Nat
    BY <1>3, <1>4
  <2>3. Byte(named, Slot(j, n) + b) \in Nat /\ Byte(named, Slot(i, n) + b) \in Nat
    BY <1>4, <2>1, <2>2, BytesOfText
  <2>4. Byte(named, Slot(j, n) + b) # 0
    BY <1>10, <2>3
  <2>5. Slot(j, n) + b < Len(named)
    BY <1>4, <2>1, <2>4, BytesOfText
  <2> QED
    BY <1>3, <1>4, <2>5
<1> HIDE DEF x, y
<1> QED
  BY <1>8, <1>10, <1>11 DEF Before

\* And only then: sorting the names' suffixes sorts the sample suffixes.
LEMMA NamesOrder ==
  ASSUME NEW source \in ZeroFree, NEW n, n = Len(source),
         NEW named, named = Names(source, SortedSample(source)),
         NEW i \in Sample(n), NEW j \in Sample(n)
  PROVE  Before(source, i, j) <=> Before(named, Slot(i, n), Slot(j, n))
<1>1. /\ source \in Array /\ n \in Nat /\ i \in 0 .. n /\ j \in 0 .. n
  BY DEF ZeroFree, Array, Sample
<1>2. named \in ZeroFree /\ Slot(i, n) \in Nat /\ Slot(j, n) \in Nat
  <2>1. named \in ZeroFree
    BY <1>1, NamesAreText
  <2>2. i \in Nat /\ j \in Nat /\ 0 \in Nat
    BY <1>1
  <2>3. Slot(i, n) \in Nat
    BY <1>1, <2>2, SlotMoves
  <2>4. Slot(j, n) \in Nat
    BY <1>1, <2>2, SlotMoves
  <2> QED
    BY <2>1, <2>3, <2>4
<1>3. ASSUME Before(named, Slot(i, n), Slot(j, n)) PROVE Before(source, i, j)
  <2>1. ~Before(named, Slot(j, n), Slot(i, n)) /\ Slot(i, n) # Slot(j, n)
    BY <1>2, <1>3, BeforeIsStrict
  <2>2. i # j
    BY <2>1
  <2>3. ~Before(source, j, i)
    BY <2>1, NamesKeepOrder
  <2> QED
    BY <1>1, <2>2, <2>3, BeforeIsTotal
<1> QED
  BY <1>3, NamesKeepOrder

-----------------------------------------------------------------------------
(* Suffix arrays and ranks.                                                *)

\* Offsets in the order of their suffixes are a suffix array: none is missing.
LEMMA OrderIsSuffixArray ==
  ASSUME NEW t \in ZeroFree, NEW a \in [1 .. Len(t) -> Offsets(t)],
         \A q, r \in 1 .. Len(t) : q < r => Before(t, a[q], a[r])
  PROVE  IsSuffixArray(t, a)
<1>1. Len(t) \in Nat /\ \A i \in Offsets(t) : i \in Nat
  BY OffsetsArePositions
<1>2. \A q, r \in 1 .. Len(t) : q < r => a[q] # a[r]
  BY <1>1, BeforeIsStrict
<1>3. \A q, r \in 1 .. Len(t) : a[q] = a[r] => q = r
  BY <1>1, <1>2
<1>4. /\ IsFiniteSet(1 .. Len(t)) /\ Cardinality(1 .. Len(t)) = Len(t)
      /\ IsFiniteSet(Offsets(t)) /\ Cardinality(Offsets(t)) = Len(t)
  <2>1. 1 \in Int /\ Len(t) \in Int
    BY <1>1
  <2>2. IsFiniteSet(1 .. Len(t)) /\ Cardinality(1 .. Len(t)) = IF 1 > Len(t) THEN 0 ELSE Len(t) - 1 + 1
    BY <2>1, FS_Interval
  <2>3. Cardinality(1 .. Len(t)) = Len(t)
    BY <1>1, <2>2
  <2> QED
    BY <2>2, <2>3, OffsetsFinite
<1>5. \A i \in Offsets(t) : \E r \in 1 .. Len(t) : a[r] = i
  <2>1. a \in Injection(1 .. Len(t), Offsets(t))
    BY <1>3 DEF Injection, IsInjective
  <2>2. a \in Surjection(1 .. Len(t), Offsets(t))
    BY <1>4, <2>1, FS_Injection
  <2> QED
    BY <2>2 DEF Surjection
<1> QED
  BY <1>5 DEF IsSuffixArray

\* A text has one suffix array.
LEMMA OneSuffixArray ==
  ASSUME NEW t \in ZeroFree, NEW a, NEW b, IsSuffixArray(t, a), IsSuffixArray(t, b)
  PROVE  a = b
<1> DEFINE D == 1 .. Len(t)
           Bad == {r \in D : a[r] # b[r]}
<1>1. Len(t) \in Nat /\ \A i \in Offsets(t) : i \in Nat
  BY OffsetsArePositions
<1>2. a \in [D -> Offsets(t)] /\ b \in [D -> Offsets(t)]
  BY DEF IsSuffixArray
<1>3. SUFFICES ASSUME Bad # {} PROVE FALSE
  <2>1. CASE Bad = {}
    <3>1. \A r \in D : a[r] = b[r]
      BY <2>1
    <3> HIDE DEF D
    <3> QED
      BY <1>2, <3>1
  <2> QED
    BY <2>1
<1>4. PICK r \in Bad : \A y \in Bad : r <= y
  <2>1. Bad \in SUBSET Nat
    BY <1>1
  <2> QED
    BY <1>3, <2>1, Smallest
<1>5. r \in D /\ a[r] # b[r] /\ \A q \in D : q < r => a[q] = b[q]
  <2>1. r \in D /\ a[r] # b[r]
    BY <1>4
  <2>2. ASSUME NEW q \in D, q < r, a[q] # b[q] PROVE FALSE
    <3>1. q \in Bad
      BY <2>2
    <3>2. r <= q
      BY <1>4, <3>1
    <3> QED
      BY <1>1, <2>1, <2>2, <3>2
  <2> QED
    BY <2>1, <2>2
<1>6. ASSUME NEW c, NEW d, IsSuffixArray(t, c), IsSuffixArray(t, d),
             \A q \in D : q < r => c[q] = d[q], c[r] # d[r]
      PROVE  Before(t, d[r], c[r])
  <2>1. c \in [D -> Offsets(t)] /\ d \in [D -> Offsets(t)]
    BY <1>6 DEF IsSuffixArray
  <2>2. PICK x \in D : d[x] = c[r]
    BY <1>5, <1>6, <2>1 DEF IsSuffixArray
  <2>3. x # r
    BY <1>6, <2>2
  <2>4. ~(x < r)
    <3>1. ASSUME x < r PROVE FALSE
      <4>1. c[x] = c[r]
        BY <1>6, <2>2, <3>1
      <4>2. Before(t, c[x], c[r])
        BY <1>5, <1>6, <2>2, <3>1 DEF IsSuffixArray
      <4>3. c[x] \in Nat /\ c[r] \in Nat
        BY <1>1, <1>5, <2>1, <2>2
      <4> QED
        BY <4>1, <4>2, <4>3, BeforeIsStrict
    <3> QED
      BY <3>1
  <2>5. r < x
    BY <1>1, <1>5, <2>2, <2>3, <2>4
  <2>6. Before(t, d[r], d[x])
    BY <1>5, <1>6, <2>2, <2>5 DEF IsSuffixArray
  <2> QED
    BY <2>2, <2>6
<1>7. Before(t, b[r], a[r])
  BY <1>5, <1>6
<1>8. Before(t, a[r], b[r])
  BY <1>5, <1>6
<1>9. a[r] \in Nat /\ b[r] \in Nat
  BY <1>1, <1>2, <1>5
<1> QED
  BY <1>7, <1>8, <1>9, BeforeIsStrict

\* No name is given twice.
Unique(named) == \A q, r \in 1 .. Len(named) : named[q] = named[r] => q = r

\* SA12 as names that are unique give it.
InNameOrder(named) == [r \in 1 .. Len(named) |-> (CHOOSE q \in 1 .. Len(named) : named[q] = r) - 1]

\* Names that are unique are ranks: they give the suffix array of the names.
LEMMA UniqueNames ==
  ASSUME NEW source \in Array, NEW named, named = Names(source, SortedSample(source)),
         Unique(named)
  PROVE  IsSuffixArray(named, InNameOrder(named))
<1> DEFINE m == n02(Len(source))
           places == 1 .. Len(named)
           SA12 == InNameOrder(named)
           at(r) == CHOOSE q \in places : named[q] = r
<1>1. Len(source) \in Nat
  BY DEF Array
<1>2. named \in [1 .. m -> 1 .. m] /\ Len(named) = m
  BY <1>1, NamesOfSample
<1>3. m \in Nat /\ named \in ZeroFree
  BY <1>1, NamesAreText DEF m
<1> HIDE DEF m
<1>4. IsFiniteSet(1 .. m)
  BY <1>3, FS_Interval
<1>5. \A r \in 1 .. m : \E q \in 1 .. m : named[q] = r
  <2>1. named \in Injection(1 .. m, 1 .. m)
    BY <1>2 DEF Injection, IsInjective, Unique
  <2>2. named \in Surjection(1 .. m, 1 .. m)
    BY <1>4, <2>1, FS_Injection
  <2> QED
    BY <2>2 DEF Surjection
<1>6. ASSUME NEW r \in 1 .. m PROVE at(r) \in 1 .. m /\ named[at(r)] = r
  <2>1. \E q \in places : named[q] = r
    BY <1>2, <1>5
  <2>2. at(r) \in places /\ named[at(r)] = r
    BY <2>1, Zenon
  <2> QED
    BY <1>2, <2>2
<1>7. SA12 = [r \in 1 .. m |-> at(r) - 1]
  BY <1>2 DEF InNameOrder
<1> HIDE DEF at, SA12
<1>8. SA12 \in [1 .. Len(named) -> Offsets(named)]
  <2>1. \A r \in 1 .. m : at(r) - 1 \in 0 .. m - 1
    BY <1>3, <1>6
  <2> QED
    BY <1>2, <1>7, <2>1 DEF Offsets
<1>9. ASSUME NEW r \in 1 .. m PROVE Byte(named, SA12[r]) = r /\ SA12[r] \in Nat
  <2>1. PICK q \in 1 .. m : q = at(r) /\ named[q] = r
    BY <1>6
  <2>2. SA12[r] = q - 1 /\ q - 1 \in Nat /\ q - 1 < m /\ (q - 1) + 1 = q
    BY <1>3, <1>7, <2>1
  <2> QED
    BY <1>2, <2>1, <2>2 DEF Byte
<1>10. ASSUME NEW q \in 1 .. m, NEW r \in 1 .. m, q < r PROVE Before(named, SA12[q], SA12[r])
  <2>1. Byte(named, SA12[q]) < Byte(named, SA12[r])
    <3>1. Byte(named, SA12[q]) = q /\ Byte(named, SA12[r]) = r
      BY <1>9
    <3> QED
      BY <1>10, <3>1
  <2>2. SA12[q] + 0 = SA12[q] /\ SA12[r] + 0 = SA12[r] /\ 0 \in 0 .. Len(named) /\ 0 .. 0 - 1 = {}
    <3>1. SA12[q] \in Nat /\ SA12[r] \in Nat /\ Len(named) \in Nat
      BY <1>2, <1>3, <1>9
    <3> QED
      BY <3>1
  <2>3. Byte(named, SA12[q] + 0) < Byte(named, SA12[r] + 0)
    BY <2>1, <2>2, Zenon
  <2> QED
    BY <2>2, <2>3 DEF Before
<1> HIDE DEF m
<1>11. IsSuffixArray(named, SA12)
  BY <1>2, <1>3, <1>8, <1>10, OrderIsSuffixArray
<1> QED
  BY <1>11 DEF SA12

\* Ranks() of a suffix array: where each offset stands in it, 0 behind the text.
LEMMA RanksOfArray ==
  ASSUME NEW t \in ZeroFree, NEW a, IsSuffixArray(t, a), NEW s, s = Ranks(a)
  PROVE  /\ Len(a) = Len(t) /\ a \in Array /\ s \in Array /\ Len(s) = Len(t)
         /\ \A i \in Offsets(t) : Byte(s, i) \in 1 .. Len(t) /\ a[Byte(s, i)] = i
         /\ \A i \in Nat : i >= Len(t) => Byte(s, i) = 0
<1> DEFINE at(i) == CHOOSE r \in 1 .. Len(a) : a[r] = i - 1
<1>1. PICK L \in Nat : L = Len(t)
  BY OffsetsArePositions
<1>2. /\ a \in [1 .. L -> 0 .. L - 1]
      /\ \A i \in 0 .. L - 1 : \E r \in 1 .. L : a[r] = i
  BY <1>1 DEF IsSuffixArray, Offsets
<1>3. Len(a) = L /\ a \in Array
  <2>1. a \in [1 .. L -> Nat]
    BY <1>1, <1>2
  <2> QED
    BY <1>1, <2>1, IsSequence DEF Array
<1>4. s = [i \in 1 .. L |-> at(i)]
  BY <1>3 DEF Ranks
<1>5. ASSUME NEW i \in 1 .. L PROVE at(i) \in 1 .. L /\ a[at(i)] = i - 1
  <2>1. i - 1 \in 0 .. L - 1
    BY <1>1
  <2>2. \E r \in 1 .. Len(a) : a[r] = i - 1
    BY <1>2, <1>3, <2>1
  <2>3. at(i) \in 1 .. Len(a) /\ a[at(i)] = i - 1
    BY <2>2, Zenon
  <2> QED
    BY <1>3, <2>3
<1> HIDE DEF at
<1>6. s \in Array /\ Len(s) = L
  <2>1. s \in [1 .. L -> Nat]
    BY <1>1, <1>4, <1>5
  <2> QED
    BY <1>1, <2>1, IsSequence DEF Array
<1>7. ASSUME NEW i \in 0 .. L - 1 PROVE Byte(s, i) \in 1 .. L /\ a[Byte(s, i)] = i
  <2>1. i + 1 \in 1 .. L /\ i < L /\ (i + 1) - 1 = i
    BY <1>1
  <2>2. Byte(s, i) = at(i + 1)
    BY <1>4, <1>6, <2>1 DEF Byte
  <2> QED
    BY <1>5, <2>1, <2>2
<1>8. ASSUME NEW i \in Nat, i >= L PROVE Byte(s, i) = 0
  BY <1>1, <1>6, <1>8 DEF Byte
<1>9. Offsets(t) = 0 .. L - 1
  BY <1>1 DEF Offsets
<1> QED
  BY <1>1, <1>3, <1>6, <1>7, <1>8, <1>9

\* Ranks are in the order of the suffixes.
LEMMA RanksOrder ==
  ASSUME NEW t \in ZeroFree, NEW a, IsSuffixArray(t, a), NEW s, s = Ranks(a),
         NEW i \in Offsets(t), NEW j \in Offsets(t)
  PROVE  Byte(s, i) < Byte(s, j) <=> Before(t, i, j)
<1>1. PICK L \in Nat : L = Len(t)
  BY OffsetsArePositions
<1>2. PICK q \in 1 .. L : q = Byte(s, i) /\ a[q] = i
  BY <1>1, RanksOfArray
<1>3. PICK r \in 1 .. L : r = Byte(s, j) /\ a[r] = j
  BY <1>1, RanksOfArray
<1>4. \A x, y \in 1 .. L : x < y => Before(t, a[x], a[y])
  BY <1>1 DEF IsSuffixArray
<1>5. i \in Nat /\ j \in Nat
  BY OffsetsArePositions
<1>6. CASE q < r
  <2>1. Before(t, i, j)
    BY <1>2, <1>3, <1>4, <1>6
  <2> QED
    BY <1>2, <1>3, <1>6, <2>1
<1>7. CASE q = r
  <2>1. ~Before(t, i, j)
    BY <1>2, <1>3, <1>5, <1>7, BeforeIsStrict
  <2>2. ~(q < r)
    BY <1>1, <1>7
  <2> QED
    BY <1>2, <1>3, <2>1, <2>2
<1>8. CASE r < q
  <2>1. Before(t, j, i)
    BY <1>2, <1>3, <1>4, <1>8
  <2>2. ~Before(t, i, j)
    BY <1>5, <2>1, BeforeIsStrict
  <2>3. ~(q < r)
    BY <1>1, <1>8
  <2> QED
    BY <1>2, <1>3, <2>2, <2>3
<1> QED
  BY <1>1, <1>6, <1>7, <1>8

\* No suffix is before the empty one.
LEMMA NothingBeforeEnd ==
  ASSUME NEW t \in ZeroFree, NEW i \in Nat
  PROVE  ~Before(t, i, Len(t))
<1>1. PICK L \in Nat : L = Len(t)
  BY OffsetsArePositions
<1>2. SUFFICES ASSUME Before(t, i, L) PROVE FALSE
  BY <1>1
<1>3. PICK k \in 0 .. L : Byte(t, i + k) < Byte(t, L + k)
  BY <1>1, <1>2 DEF Before
<1>4. L + k \in Nat /\ i + k \in Nat /\ L + k >= L
  BY <1>1
<1>5. Byte(t, L + k) = 0 /\ Byte(t, i + k) \in Nat
  BY <1>1, <1>4, BytesOfText
<1> QED
  BY <1>3, <1>5

\* A suffix that is not empty is behind the empty one.
LEMMA EndIsFirst ==
  ASSUME NEW t \in ZeroFree, NEW i \in Nat, i < Len(t)
  PROVE  Before(t, Len(t), i)
<1>1. PICK L \in Nat : L = Len(t)
  BY OffsetsArePositions
<1>2. i \in 0 .. L /\ L \in 0 .. L /\ i # L
  BY <1>1
<1>3. ~Before(t, i, L)
  BY <1>1, NothingBeforeEnd
<1> QED
  BY <1>1, <1>2, <1>3, BeforeIsTotal

\* The ranks s12 ends with order all suffixes within reach.
LEMMA RanksOnReach ==
  ASSUME NEW source \in ZeroFree, NEW n, n = Len(source),
         NEW SA12, IsSuffixArray(Names(source, SortedSample(source)), SA12),
         NEW s12, s12 = Ranks(SA12),
         NEW i \in Reach(n), NEW j \in Reach(n)
  PROVE  /\ NameAt(s12, n, i) \in Nat /\ NameAt(s12, n, j) \in Nat
         /\ NameAt(s12, n, i) < NameAt(s12, n, j) <=> Before(source, i, j)
<1> DEFINE named == Names(source, SortedSample(source))
<1>1. source \in Array /\ n \in Nat
  BY DEF ZeroFree, Array
<1>2. named \in ZeroFree /\ Len(named) = n02(n) /\ n02(n) \in Nat
  BY <1>1, NamesAreText
<1>3. \A x, y \in Sample(n) : Before(source, x, y) <=> Before(named, Slot(x, n), Slot(y, n))
  BY NamesOrder
<1> HIDE DEF named
<1>4. IsSuffixArray(named, SA12)
  BY DEF named
<1>5. ASSUME NEW x \in Sample(n) PROVE Slot(x, n) \in Offsets(named)
  BY <1>1, <1>2, SlotOfSample DEF Offsets
<1>6. ASSUME NEW x \in Sample(n) PROVE NameAt(s12, n, x) \in Nat /\ 0 < NameAt(s12, n, x)
  <2>1. Byte(s12, Slot(x, n)) \in 1 .. Len(named)
    BY <1>2, <1>4, <1>5, RanksOfArray
  <2> QED
    BY <2>1 DEF NameAt
<1>7. ASSUME NEW x \in Reach(n), x \notin Sample(n)
      PROVE  NameAt(s12, n, x) = 0 /\ x = n /\ n % 3 = 2
  <2>1. x = n /\ n % 3 = 2 /\ Slot(x, n) = n02(n)
    BY <1>1, <1>7, ReachOrEnd
  <2>2. Byte(s12, n02(n)) = 0
    BY <1>2, <1>4, RanksOfArray
  <2> QED
    BY <2>1, <2>2 DEF NameAt
<1>8. ASSUME NEW x \in Sample(n), n % 3 = 2
      PROVE  Before(source, n, x) /\ ~Before(source, x, n)
  <2>1. x < n /\ x \in Nat
    BY <1>1, <1>8 DEF Sample
  <2> QED
    BY <1>1, <2>1, EndIsFirst, NothingBeforeEnd
<1>9. CASE i \in Sample(n) /\ j \in Sample(n)
  <2>1. Byte(s12, Slot(i, n)) < Byte(s12, Slot(j, n)) <=> Before(named, Slot(i, n), Slot(j, n))
    BY <1>2, <1>4, <1>5, <1>9, RanksOrder
  <2>2. NameAt(s12, n, i) \in Nat /\ NameAt(s12, n, j) \in Nat
    BY <1>6, <1>9
  <2> QED
    BY <1>3, <1>9, <2>1, <2>2, Zenon DEF NameAt
<1>10. CASE i \in Sample(n) /\ j \notin Sample(n)
  <2>1. NameAt(s12, n, j) = 0 /\ j = n /\ ~Before(source, i, n)
    BY <1>7, <1>8, <1>10
  <2>2. NameAt(s12, n, i) \in Nat /\ NameAt(s12, n, j) \in Nat /\ ~(NameAt(s12, n, i) < NameAt(s12, n, j))
    BY <1>6, <1>10, <2>1
  <2> QED
    BY <2>1, <2>2
<1>11. CASE i \notin Sample(n) /\ j \in Sample(n)
  <2>1. NameAt(s12, n, i) = 0 /\ i = n /\ Before(source, n, j)
    BY <1>7, <1>8, <1>11
  <2>2. NameAt(s12, n, i) \in Nat /\ NameAt(s12, n, j) \in Nat /\ NameAt(s12, n, i) < NameAt(s12, n, j)
    BY <1>6, <1>11, <2>1
  <2> QED
    BY <2>1, <2>2
<1>12. CASE i \notin Sample(n) /\ j \notin Sample(n)
  <2>1. NameAt(s12, n, i) = 0 /\ NameAt(s12, n, j) = 0 /\ i = n /\ j = n
    BY <1>7, <1>12
  <2>2. ~Before(source, n, n)
    BY <1>1, NothingBeforeEnd
  <2> QED
    BY <2>1, <2>2
<1> QED
  BY <1>9, <1>10, <1>11, <1>12

\* strcmp looks at one byte and goes on.
LEMMA BeforeUnrolls ==
  ASSUME NEW t \in ZeroFree, NEW i \in Nat, NEW j \in Nat
  PROVE  Before(t, i, j) <=> \/ Byte(t, i) < Byte(t, j)
                             \/ Byte(t, i) = Byte(t, j) /\ Before(t, i + 1, j + 1)
<1>1. PICK L \in Nat : L = Len(t)
  BY OffsetsArePositions
<1>2. ASSUME Byte(t, i) < Byte(t, j) PROVE Before(t, i, j)
  <2>1. i + 0 = i /\ j + 0 = j /\ 0 \in 0 .. L /\ 0 .. 0 - 1 = {}
    BY <1>1
  <2>2. Byte(t, i + 0) < Byte(t, j + 0)
    BY <1>2, <2>1, Zenon
  <2> QED
    BY <1>1, <2>1, <2>2 DEF Before
<1>3. ASSUME Byte(t, i) = Byte(t, j), Before(t, i + 1, j + 1) PROVE Before(t, i, j)
  <2>1. PICK k \in 0 .. L : /\ Byte(t, (i + 1) + k) < Byte(t, (j + 1) + k)
                            /\ \A m \in 0 .. k - 1 : Byte(t, (i + 1) + m) = Byte(t, (j + 1) + m)
    BY <1>1, <1>3, Zenon DEF Before
  <2>2. /\ (i + 1) + k = i + (k + 1) /\ (j + 1) + k = j + (k + 1)
        /\ i + (k + 1) \in Nat /\ j + (k + 1) \in Nat
    BY <1>1
  <2>3. Byte(t, i + (k + 1)) < Byte(t, j + (k + 1))
    BY <2>1, <2>2
  <2>4. Byte(t, i + (k + 1)) \in Nat /\ Byte(t, j + (k + 1)) \in Nat
    BY <2>2, BytesOfText
  <2>5. Byte(t, j + (k + 1)) # 0
    BY <2>3, <2>4
  <2>6. j + (k + 1) < L
    BY <1>1, <2>2, <2>5, BytesOfText
  <2>7. k + 1 \in 0 .. L
    BY <1>1, <2>6
  <2>8. ASSUME NEW m \in 0 .. (k + 1) - 1 PROVE Byte(t, i + m) = Byte(t, j + m)
    <3>1. CASE m = 0
      <4>1. i + m = i /\ j + m = j
        BY <3>1
      <4> QED
        BY <1>3, <4>1, Zenon
    <3>2. CASE m # 0
      <4>1. m - 1 \in 0 .. k - 1 /\ (i + 1) + (m - 1) = i + m /\ (j + 1) + (m - 1) = j + m
        BY <1>1, <3>2
      <4>2. Byte(t, (i + 1) + (m - 1)) = Byte(t, (j + 1) + (m - 1))
        BY <2>1, <4>1
      <4> QED
        BY <4>1, <4>2
    <3> QED
      BY <3>1, <3>2
  <2> QED
    BY <1>1, <2>3, <2>7, <2>8 DEF Before
<1>4. ASSUME Before(t, i, j), ~(Byte(t, i) < Byte(t, j))
      PROVE  Byte(t, i) = Byte(t, j) /\ Before(t, i + 1, j + 1)
  <2>1. PICK k \in 0 .. L : /\ Byte(t, i + k) < Byte(t, j + k)
                            /\ \A m \in 0 .. k - 1 : Byte(t, i + m) = Byte(t, j + m)
    BY <1>1, <1>4, Zenon DEF Before
  <2>2. i + 0 = i /\ j + 0 = j
    OBVIOUS
  <2>3. k # 0
    BY <1>4, <2>1, <2>2
  <2>4. 0 \in 0 .. k - 1
    BY <1>1, <2>3
  <2>5. Byte(t, i) = Byte(t, j)
    BY <2>1, <2>2, <2>4
  <2>6. k - 1 \in 0 .. L /\ (i + 1) + (k - 1) = i + k /\ (j + 1) + (k - 1) = j + k
    BY <1>1, <2>3
  <2>7. ASSUME NEW m \in 0 .. (k - 1) - 1 PROVE Byte(t, (i + 1) + m) = Byte(t, (j + 1) + m)
    <3>1. m + 1 \in 0 .. k - 1 /\ (i + 1) + m = i + (m + 1) /\ (j + 1) + m = j + (m + 1)
      BY <1>1
    <3>2. Byte(t, i + (m + 1)) = Byte(t, j + (m + 1))
      BY <2>1, <3>1
    <3> QED
      BY <3>1, <3>2
  <2>8. Byte(t, (i + 1) + (k - 1)) < Byte(t, (j + 1) + (k - 1))
    BY <2>1, <2>6
  <2>9. Before(t, i + 1, j + 1)
    BY <1>1, <2>6, <2>7, <2>8 DEF Before
  <2> QED
    BY <2>5, <2>9
<1> QED
  BY <1>2, <1>3, <1>4

-----------------------------------------------------------------------------
(* Step 3's comparison.                                                    *)

\* leq() of pairs is the lexicographic order.
LEMMA LeqOfPairs ==
  ASSUME NEW a1 \in Nat, NEW a2 \in Nat, NEW b1 \in Nat, NEW b2 \in Nat
  PROVE  Leq(<<a1, a2>>, <<b1, b2>>) <=> a1 < b1 \/ (a1 = b1 /\ a2 <= b2)
<1> DEFINE a == <<a1, a2>>
           b == <<b1, b2>>
           at(k) == /\ \A m \in 1 .. k - 1 : a[m] = b[m]
                    /\ a[k] < b[k] \/ (k = Len(a) /\ a[k] = b[k])
<1>1. Leq(a, b) <=> at(1) \/ at(2)
  <2>1. Leq(a, b) <=> \E k \in {1, 2} : at(k)
    BY DEF Leq
  <2> HIDE DEF at
  <2> QED
    BY <2>1
<1>2. at(1) <=> a1 < b1
  OBVIOUS
<1>3. at(2) <=> a1 = b1 /\ a2 <= b2
  <2>1. 1 .. 2 - 1 = {1} /\ a[1] = a1 /\ a[2] = a2 /\ b[1] = b1 /\ b[2] = b2 /\ Len(a) = 2
    OBVIOUS
  <2>2. at(2) <=> a1 = b1 /\ (a2 < b2 \/ a2 = b2)
    BY <2>1, Zenon
  <2> QED
    BY <2>2
<1> QED
  BY <1>1, <1>2, <1>3

\* And so it is of triples.
LEMMA LeqOfTriples ==
  ASSUME NEW a1 \in Nat, NEW a2 \in Nat, NEW a3 \in Nat, NEW b1 \in Nat, NEW b2 \in Nat, NEW b3 \in Nat
  PROVE  Leq(<<a1, a2, a3>>, <<b1, b2, b3>>) <=>
           a1 < b1 \/ (a1 = b1 /\ (a2 < b2 \/ (a2 = b2 /\ a3 <= b3)))
<1> DEFINE a == <<a1, a2, a3>>
           b == <<b1, b2, b3>>
           at(k) == /\ \A m \in 1 .. k - 1 : a[m] = b[m]
                    /\ a[k] < b[k] \/ (k = Len(a) /\ a[k] = b[k])
<1>1. Leq(a, b) <=> at(1) \/ at(2) \/ at(3)
  <2>1. Leq(a, b) <=> \E k \in {1, 2, 3} : at(k)
    BY DEF Leq
  <2> HIDE DEF at
  <2> QED
    BY <2>1
<1>0. /\ a[1] = a1 /\ a[2] = a2 /\ a[3] = a3 /\ b[1] = b1 /\ b[2] = b2 /\ b[3] = b3 /\ Len(a) = 3
  OBVIOUS
<1>2. at(1) <=> a1 < b1
  BY <1>0
<1>3. at(2) <=> a1 = b1 /\ a2 < b2
  <2>1. 1 .. 2 - 1 = {1} /\ 2 # 3
    OBVIOUS
  <2> QED
    BY <1>0, <2>1, Zenon
<1>4. at(3) <=> a1 = b1 /\ a2 = b2 /\ a3 <= b3
  <2>1. 1 .. 3 - 1 = {1, 2}
    OBVIOUS
  <2>2. at(3) <=> a1 = b1 /\ a2 = b2 /\ (a3 < b3 \/ a3 = b3)
    BY <1>0, <2>1, Zenon
  <2> QED
    BY <2>2
<1> HIDE DEF at
<1> QED
  BY <1>1, <1>2, <1>3, <1>4

\* The positions that are not of the sample: 0 mod 3.
RestOf(n) == {x \in 0 .. n - 1 : x % 3 = 0}

\* Step 3 compares right: at most two bytes, then the ranks, which are within reach.
LEMMA SampleFirstCompares ==
  ASSUME NEW source \in ZeroFree, NEW n, n = Len(source),
         NEW SA12, IsSuffixArray(Names(source, SortedSample(source)), SA12),
         NEW s12, s12 = Ranks(SA12),
         NEW i \in 0 .. n02(n) - 1, Offset12(i, n) < n, NEW o0 \in RestOf(n)
  PROVE  SampleFirst(source, s12, i, o0) <=> Before(source, Offset12(i, n), o0)
<1>1. n \in Nat /\ source \in Array
  BY DEF ZeroFree, Array
<1>2. n0(n) \in Nat /\ n02(n) \in Nat
  BY <1>1, SampleSizes
<1>3. PICK b \in Nat : o0 = 3 * b /\ o0 \div 3 = b /\ o0 \in Nat /\ o0 < n
  <2>1. o0 \in Nat /\ o0 < n /\ o0 % 3 = 0
    BY <1>1 DEF RestOf
  <2> QED
    BY <2>1, Thirds
<1>4. PICK o12 \in Sample(n) : o12 = Offset12(i, n) /\ o12 \in Nat /\ o12 < n
  <2>1. Offset12(i, n) \in Sample(n)
    BY <1>1, SampleOfSlot
  <2> QED
    BY <2>1 DEF Sample
<1>5. SUFFICES SampleFirst(source, s12, i, o0) <=> Before(source, o12, o0)
  BY <1>4
<1> DEFINE B(x) == Byte(source, x)
           R(x) == NameAt(s12, n, x)
<1>6. \A x \in Nat : B(x) \in Nat /\ (B(x) = 0 <=> x >= n)
  BY <1>1, BytesOfText
<1>7. ASSUME NEW x \in Reach(n), NEW y \in Reach(n), x # y
      PROVE  R(x) \in Nat /\ R(y) \in Nat /\ (R(x) <= R(y) <=> Before(source, x, y))
  <2>1. /\ R(x) \in Nat /\ R(y) \in Nat
        /\ R(x) < R(y) <=> Before(source, x, y)
        /\ R(y) < R(x) <=> Before(source, y, x)
    BY RanksOnReach
  <2>2. x \in 0 .. n /\ y \in 0 .. n /\ x \in Nat /\ y \in Nat
    BY <1>1 DEF Reach
  <2>3. Before(source, x, y) \/ Before(source, y, x)
    BY <1>7, <2>2, BeforeIsTotal
  <2>4. Before(source, x, y) => ~Before(source, y, x)
    BY <2>2, BeforeIsStrict
  <2> QED
    BY <2>1, <2>3, <2>4
<1>8. ASSUME NEW x \in Nat, NEW y \in Nat
      PROVE  Before(source, x, y) <=> B(x) < B(y) \/ (B(x) = B(y) /\ Before(source, x + 1, y + 1))
  BY BeforeUnrolls
<1> HIDE DEF B, R
<1>9. CASE i < n0(n)
  <2>1. o12 = 3 * i + 1 /\ i \in Nat
    BY <1>2, <1>4, <1>9 DEF Offset12
  <2>2. o12 + 1 = 3 * i + 2 /\ o0 + 1 = 3 * b + 1
    BY <1>3, <2>1
  <2>3. /\ (o12 + 1) % 3 = 2 /\ (o12 + 1) \div 3 = i
        /\ (o0 + 1) % 3 = 1 /\ (o0 + 1) \div 3 = b
    <3>1. /\ (3 * i + 2) % 3 = 2 /\ (3 * i + 2) \div 3 = i
          /\ (3 * b + 1) % 3 = 1 /\ (3 * b + 1) \div 3 = b
      BY <1>3, <2>1, ThirdsOf
    <3> QED
      BY <2>2, <3>1, Zenon
  <2>4. Slot(o12 + 1, n) = i + n0(n) /\ Slot(o0 + 1, n) = b
    BY <2>3 DEF Slot
  <2>5. o12 + 1 \in Reach(n) /\ o0 + 1 \in Reach(n) /\ o12 + 1 # o0 + 1
    <3>1. o12 + 1 \in 1 .. n /\ o0 + 1 \in 1 .. n /\ o12 + 1 # o0 + 1
      BY <1>1, <1>3, <1>4, <2>1
    <3> QED
      BY <2>3, <3>1 DEF Reach
  <2>6. R(o12 + 1) = Byte(s12, i + n0(n)) /\ R(o0 + 1) = Byte(s12, o0 \div 3)
    BY <1>3, <2>4 DEF R, NameAt
  <2>7. SampleFirst(source, s12, i, o0) <=> Leq(<<B(o12), R(o12 + 1)>>, <<B(o0), R(o0 + 1)>>)
    BY <1>4, <1>9, <2>6 DEF SampleFirst, B
  <2>8. R(o12 + 1) \in Nat /\ R(o0 + 1) \in Nat /\ (R(o12 + 1) <= R(o0 + 1) <=> Before(source, o12 + 1, o0 + 1))
    BY <1>7, <2>5
  <2>9. B(o12) \in Nat /\ B(o0) \in Nat
    BY <1>3, <1>4, <1>6
  <2>10. SampleFirst(source, s12, i, o0) <=> B(o12) < B(o0) \/ (B(o12) = B(o0) /\ R(o12 + 1) <= R(o0 + 1))
    BY <2>7, <2>8, <2>9, LeqOfPairs
  <2>11. Before(source, o12, o0) <=> B(o12) < B(o0) \/ (B(o12) = B(o0) /\ Before(source, o12 + 1, o0 + 1))
    BY <1>3, <1>4, <1>8
  <2> QED
    BY <2>8, <2>10, <2>11, Zenon
<1>10. CASE ~(i < n0(n))
  <2>1. PICK c \in Nat : i = c + n0(n) /\ i - n0(n) = c /\ i - n0(n) + 1 = c + 1
    <3>1. i \in Nat /\ i >= n0(n)
      BY <1>2, <1>10
    <3>2. i - n0(n) \in Nat /\ i = (i - n0(n)) + n0(n)
      BY <1>2, <3>1
    <3> QED
      BY <3>2
  <2>2. o12 = 3 * c + 2
    BY <1>4, <1>10, <2>1 DEF Offset12
  <2>3. o12 + 2 = 3 * (c + 1) + 1 /\ o0 + 2 = 3 * b + 2 /\ c + 1 \in Nat
    BY <1>3, <2>1, <2>2
  <2>4. /\ (o12 + 2) % 3 = 1 /\ (o12 + 2) \div 3 = c + 1
        /\ (o0 + 2) % 3 = 2 /\ (o0 + 2) \div 3 = b
    <3>1. /\ (3 * (c + 1) + 1) % 3 = 1 /\ (3 * (c + 1) + 1) \div 3 = c + 1
          /\ (3 * b + 2) % 3 = 2 /\ (3 * b + 2) \div 3 = b
      BY <1>3, <2>3, ThirdsOf
    <3> QED
      BY <2>3, <3>1, Zenon
  <2>5. Slot(o12 + 2, n) = c + 1 /\ Slot(o0 + 2, n) = b + n0(n)
    BY <2>4 DEF Slot
  <2>6. R(o12 + 2) = Byte(s12, i - n0(n) + 1) /\ R(o0 + 2) = Byte(s12, o0 \div 3 + n0(n))
    BY <1>3, <2>1, <2>5 DEF R, NameAt
  <2>7. SampleFirst(source, s12, i, o0) <=>
          Leq(<<B(o12), B(o12 + 1), R(o12 + 2)>>, <<B(o0), B(o0 + 1), R(o0 + 2)>>)
    BY <1>4, <1>10, <2>6 DEF SampleFirst, B
  <2>8. /\ B(o12) \in Nat /\ B(o0) \in Nat /\ B(o12 + 1) \in Nat /\ B(o0 + 1) \in Nat
        /\ B(o12 + 1) = 0 <=> o12 + 1 >= n
        /\ B(o0 + 1) = 0 <=> o0 + 1 >= n
    <3>1. o12 \in Nat /\ o0 \in Nat /\ o12 + 1 \in Nat /\ o0 + 1 \in Nat
      BY <1>3, <1>4
    <3> QED
      BY <1>6, <3>1, Zenon
  <2>9. R(o12 + 2) \in Nat /\ R(o0 + 2) \in Nat
    <3>1. s12 \in Array
      <4>1. Names(source, SortedSample(source)) \in ZeroFree
        BY <1>1, NamesAreText
      <4> QED
        BY <4>1, RanksOfArray
    <3>2. c + 1 \in Nat /\ b + n0(n) \in Nat
      BY <1>2, <1>3, <2>1
    <3> QED
      BY <2>5, <3>1, <3>2, BytesOfArray DEF R, NameAt
  <2>10. SampleFirst(source, s12, i, o0) <=>
           \/ B(o12) < B(o0)
           \/ /\ B(o12) = B(o0)
              /\ \/ B(o12 + 1) < B(o0 + 1)
                 \/ B(o12 + 1) = B(o0 + 1) /\ R(o12 + 2) <= R(o0 + 2)
    BY <2>7, <2>8, <2>9, LeqOfTriples
  <2>11. Before(source, o12, o0) <=>
           \/ B(o12) < B(o0)
           \/ /\ B(o12) = B(o0)
              /\ \/ B(o12 + 1) < B(o0 + 1)
                 \/ B(o12 + 1) = B(o0 + 1) /\ Before(source, o12 + 2, o0 + 2)
    <3>1. Before(source, o12, o0) <=> B(o12) < B(o0) \/ (B(o12) = B(o0) /\ Before(source, o12 + 1, o0 + 1))
      BY <1>3, <1>4, <1>8
    <3>2. o12 + 1 \in Nat /\ o0 + 1 \in Nat /\ (o12 + 1) + 1 = o12 + 2 /\ (o0 + 1) + 1 = o0 + 2
      BY <1>3, <1>4
    <3>3. Before(source, o12 + 1, o0 + 1) <=>
            B(o12 + 1) < B(o0 + 1) \/ (B(o12 + 1) = B(o0 + 1) /\ Before(source, (o12 + 1) + 1, (o0 + 1) + 1))
      BY <1>8, <3>2
    <3> QED
      BY <3>1, <3>2, <3>3, Zenon
  <2>12. ASSUME B(o12 + 1) = B(o0 + 1)
         PROVE  R(o12 + 2) <= R(o0 + 2) <=> Before(source, o12 + 2, o0 + 2)
    <3>1. o12 # o0
      BY <1>3, <2>1, <2>2
    <3>2. o12 + 1 < n /\ o0 + 1 < n
      BY <1>1, <1>3, <1>4, <2>8, <2>12, <3>1
    <3>3. o12 + 2 \in 1 .. n /\ o0 + 2 \in 1 .. n /\ o12 + 2 # o0 + 2
      BY <1>1, <1>3, <1>4, <3>1, <3>2
    <3>4. o12 + 2 \in Reach(n) /\ o0 + 2 \in Reach(n)
      BY <2>4, <3>3 DEF Reach
    <3> QED
      BY <1>7, <3>3, <3>4
  <2> QED
    BY <2>10, <2>11, <2>12, Zenon
<1> QED
  BY <1>9, <1>10

-----------------------------------------------------------------------------
(* Step 2: the positions that are left.                                    *)

\* The first, the second ... element of a finite set of numbers.
LEMMA InCountingOrder ==
  ASSUME NEW S \in SUBSET Nat, IsFiniteSet(S),
         NEW e, e = [r \in 1 .. Cardinality(S) |-> CHOOSE i \in S : Cardinality({j \in S : j <= i}) = r]
  PROVE  /\ Cardinality(S) \in Nat /\ e \in Bijection(1 .. Cardinality(S), S)
         /\ \A p, q \in 1 .. Cardinality(S) : p < q => e[p] < e[q]
<1> DEFINE L == {w \in S \X S : w[1] <= w[2]}
           K == 1 .. Cardinality(S)
           d == [r \in 1 .. Cardinality(S) |-> CHOOSE i \in S : Place(L, S)[i] = r]
<1>1. Cardinality(S) \in Nat
  BY FS_CardinalityType
<1>3. \A i, j \in S : <<i, j>> \in L <=> i <= j
  OBVIOUS
<1> HIDE DEF L, K
<1>4. Orders(L, S)
  <2>1. ASSUME NEW i \in S, NEW j \in S PROVE <<i, j>> \in L \/ <<j, i>> \in L
    <3>1. i <= j \/ j <= i
      OBVIOUS
    <3> QED
      BY <1>3, <3>1, Zenon
  <2>2. \A i, j \in S : <<i, j>> \in L /\ <<j, i>> \in L => i = j
    BY <1>3
  <2>3. \A i, j, k \in S : <<i, j>> \in L /\ <<j, k>> \in L => <<i, k>> \in L
    BY <1>3
  <2> QED
    BY <2>1, <2>2, <2>3 DEF Orders
<1>5. \A i \in S : Place(L, S)[i] = Cardinality({j \in S : j <= i})
  <2>1. ASSUME NEW i \in S PROVE {j \in S : <<j, i>> \in L} = {j \in S : j <= i}
    BY <1>3
  <2>2. \A i \in S : Place(L, S)[i] = Cardinality({j \in S : <<j, i>> \in L})
    BY DEF Place
  <2> QED
    BY <2>1, <2>2, Zenon
<1>6. /\ d \in Bijection(1 .. Cardinality(S), S)
      /\ \A q, r \in 1 .. Cardinality(S) : q <= r => <<d[q], d[r]>> \in L
  BY <1>4, AtPlace
<1>7. d = e
  <2> DEFINE f(p) == CHOOSE i \in S : Place(L, S)[i] = p
             g(p) == CHOOSE i \in S : Cardinality({j \in S : j <= i}) = p
  <2>1. ASSUME NEW p PROVE f(p) = g(p)
    <3>1. \A i : (i \in S /\ Place(L, S)[i] = p) <=> (i \in S /\ Cardinality({j \in S : j <= i}) = p)
      BY <1>5, Zenon
    <3> QED
      BY <3>1, Zenon
  <2>2. d = [p \in K |-> f(p)] /\ e = [p \in K |-> g(p)]
    BY DEF K
  <2> HIDE DEF f, g, d
  <2> QED
    BY <2>1, <2>2
<1> HIDE DEF d
<1>8. /\ e \in Bijection(K, S)
      /\ \A q, r \in K : q <= r => <<e[q], e[r]>> \in L
  BY <1>6, <1>7, Zenon DEF K
<1>9. /\ \A r \in K : e[r] \in S
      /\ \A r, s \in K : e[r] = e[s] => r = s
  BY <1>8 DEF Bijection, Injection, IsInjective
<1>11. ASSUME NEW p \in K, NEW q \in K, p < q PROVE e[p] < e[q]
  <2>2. p \in Nat /\ q \in Nat
    BY <1>1 DEF K
  <2>3. p <= q /\ p # q
    BY <1>11, <2>2
  <2>4. <<e[p], e[q]>> \in L
    BY <1>8, <2>3
  <2>5. e[p] \in S /\ e[q] \in S /\ e[p] # e[q]
    BY <1>9, <2>3
  <2>6. e[p] <= e[q] /\ e[p] \in Nat /\ e[q] \in Nat
    BY <1>3, <2>4, <2>5
  <2>7. \A x, y \in Nat : x <= y /\ x # y => x < y
    OBVIOUS
  <2> QED
    BY <2>5, <2>6, <2>7, Zenon
<1> QED
  BY <1>1, <1>8, <1>11 DEF K

\* What step 2 sorts: three times the entries of SA12 for the left half, as they come.
LEMMA RestList ==
  ASSUME NEW source \in Array, NEW SA12 \in Array,
         NEW left, left = {i \in 1 .. Len(SA12) : SA12[i] < n0(Len(source))}
  PROVE  /\ Cardinality(left) \in Nat
         /\ \E e \in Bijection(1 .. Cardinality(left), left) :
              /\ \A p, q \in 1 .. Cardinality(left) : p < q => e[p] < e[q]
              /\ SortedRest(source, SA12) = RadixPass([p \in 1 .. Cardinality(left) |-> 3 * SA12[e[p]]], source)
<1> DEFINE K == 1 .. Cardinality(left)
           nth(p) == CHOOSE i \in left : Cardinality({j \in left : j <= i}) = p
           e == [p \in K |-> nth(p)]
<1>1. Len(SA12) \in Nat /\ left \in SUBSET (1 .. Len(SA12))
  BY DEF Array
<1>2. IsFiniteSet(left) /\ left \in SUBSET Nat
  <2>1. IsFiniteSet(1 .. Len(SA12))
    BY <1>1, FS_Interval
  <2> QED
    BY <1>1, <2>1, FS_Subset
<1>3. SortedRest(source, SA12) = RadixPass([p \in K |-> 3 * SA12[nth(p)]], source)
  BY DEF SortedRest
<1>4. /\ Cardinality(left) \in Nat /\ e \in Bijection(K, left)
      /\ \A p, q \in K : p < q => e[p] < e[q]
  BY <1>2, InCountingOrder
<1>5. [p \in K |-> 3 * SA12[nth(p)]] = [p \in K |-> 3 * SA12[e[p]]]
  <2>1. \A p \in K : e[p] = nth(p)
    OBVIOUS
  <2> HIDE DEF e, nth
  <2> QED
    BY <2>1, Zenon
<1> HIDE DEF e, nth
<1> QED
  BY <1>3, <1>4, <1>5

\* Whatever SA12 is, SA0 is an array.
LEMMA RestIsArray ==
  ASSUME NEW source \in Array, NEW SA12 \in Array
  PROVE  SortedRest(source, SA12) \in Array
<1> DEFINE left == {i \in 1 .. Len(SA12) : SA12[i] < n0(Len(source))}
           c == Cardinality(left)
<1>1. PICK e \in Bijection(1 .. c, left) :
        SortedRest(source, SA12) = RadixPass([p \in 1 .. c |-> 3 * SA12[e[p]]], source)
  BY RestList
<1>2. c \in Nat
  BY RestList
<1>3. SA12 \in [1 .. Len(SA12) -> Nat] /\ Len(SA12) \in Nat
  BY DEF Array
<1>4. \A p \in 1 .. c : e[p] \in 1 .. Len(SA12)
  BY DEF Bijection, Injection
<1> HIDE DEF left, c
<1> DEFINE list == [p \in 1 .. c |-> 3 * SA12[e[p]]]
<1>5. list \in Array /\ Len(list) \in Nat
  <2>1. \A p \in 1 .. c : 3 * SA12[e[p]] \in Nat
    BY <1>3, <1>4
  <2>2. list \in [1 .. c -> Nat]
    BY <2>1
  <2> HIDE DEF list
  <2> QED
    BY <1>2, <2>2, IsSequence DEF Array
<1> HIDE DEF list
<1>6. PICK d \in Bijection(1 .. Len(list), 1 .. Len(list)) : RadixPass(list, source) = [r \in 1 .. Len(list) |-> list[d[r]]]
  BY <1>5, PassMoves
<1>7. \A r \in 1 .. Len(list) : d[r] \in 1 .. Len(list)
  BY DEF Bijection, Injection
<1>8. \A r \in 1 .. Len(list) : list[r] \in Nat
  BY <1>5 DEF Array
<1>9. RadixPass(list, source) \in [1 .. Len(list) -> Nat]
  BY <1>6, <1>7, <1>8
<1>10. RadixPass(list, source) \in Array
  BY <1>5, <1>9, IsSequence DEF Array
<1> QED
  BY <1>1, <1>10 DEF list

\* A list of a set is as long as the set is large.
LEMMA ListsSize ==
  ASSUME NEW S, NEW a, Lists(a, S)
  PROVE  IsFiniteSet(S) /\ Cardinality(S) = Len(a)
<1>1. Len(a) \in Nat /\ DOMAIN a = 1 .. Len(a) /\ a = [r \in DOMAIN a |-> a[r]]
  BY DEF Lists, Array
<1>2. a \in Bijection(1 .. Len(a), S)
  BY <1>1 DEF Lists, Bijection, Injection, IsInjective, Surjection
<1>3. ExistsBijection(1 .. Len(a), S)
  BY <1>2 DEF ExistsBijection
<1>4. IsFiniteSet(1 .. Len(a)) /\ Cardinality(1 .. Len(a)) = Len(a)
  BY <1>1, FS_Interval
<1> QED
  BY <1>3, <1>4, FS_Bijection

\* There are n0 positions 0 mod 3.
LEMMA RestSize ==
  ASSUME NEW n \in Nat
  PROVE  /\ IsFiniteSet(RestOf(n)) /\ Cardinality(RestOf(n)) = n0(n)
         /\ \A x \in 0 .. n0(n) - 1 : 3 * x \in RestOf(n)
         /\ \A z \in RestOf(n) : \E x \in 0 .. n0(n) - 1 : z = 3 * x
<1>1. PICK a \in Nat :
              \/ n = 3 * a /\ n0(n) = a
              \/ n = 3 * a + 1 /\ n0(n) = a + 1
              \/ n = 3 * a + 2 /\ n0(n) = a + 1
  BY SampleSizes
<1>2. PICK h \in Nat : h = n0(n)
  BY SampleSizes
<1>3. ASSUME NEW x \in 0 .. h - 1 PROVE 3 * x \in RestOf(n)
  <2>1. x \in Nat /\ 3 * x \in 0 .. n - 1
    BY <1>1, <1>2
  <2>2. (3 * x) % 3 = 0
    BY <2>1, ThirdsOf
  <2> QED
    BY <2>1, <2>2 DEF RestOf
<1>4. ASSUME NEW z \in RestOf(n) PROVE \E x \in 0 .. h - 1 : z = 3 * x
  <2>1. z \in Nat /\ z < n /\ z % 3 = 0
    BY DEF RestOf
  <2>2. PICK b \in Nat : z = 3 * b
    BY <2>1, Thirds
  <2>3. b \in 0 .. h - 1
    BY <1>1, <1>2, <2>1, <2>2
  <2> QED
    BY <2>2, <2>3
<1> DEFINE l == [p \in 1 .. h |-> 3 * (p - 1)]
<1>5. l \in Array /\ Len(l) = h
  <2>1. \A p \in 1 .. h : 3 * (p - 1) \in Nat
    BY <1>2
  <2>2. l \in [1 .. h -> Nat]
    BY <2>1
  <2> HIDE DEF l
  <2> QED
    BY <2>2, IsSequence DEF Array
<1>6. Lists(l, RestOf(n))
  <2>1. ASSUME NEW p \in 1 .. h PROVE l[p] \in RestOf(n)
    <3>1. p - 1 \in 0 .. h - 1
      BY <1>2
    <3> QED
      BY <1>3, <3>1
  <2>2. ASSUME NEW z \in RestOf(n) PROVE \E p \in 1 .. h : l[p] = z
    <3>1. PICK x \in 0 .. h - 1 : z = 3 * x
      BY <1>4
    <3>2. x + 1 \in 1 .. h /\ (x + 1) - 1 = x
      BY <1>2
    <3>3. l[x + 1] = 3 * x
      BY <3>2
    <3> QED
      BY <3>1, <3>2, <3>3
  <2>3. ASSUME NEW p \in 1 .. h, NEW q \in 1 .. h, l[p] = l[q] PROVE p = q
    <3>1. 3 * (p - 1) = 3 * (q - 1)
      BY <2>3
    <3> QED
      BY <1>2, <3>1
  <2> HIDE DEF l
  <2> QED
    BY <1>5, <2>1, <2>2, <2>3 DEF Lists
<1>7. IsFiniteSet(RestOf(n)) /\ Cardinality(RestOf(n)) = h
  BY <1>5, <1>6, ListsSize
<1> QED
  BY <1>2, <1>3, <1>4, <1>7

\* Step 2 sorts the suffixes at the positions 0 mod 3.
LEMMA RestIsSorted ==
  ASSUME NEW source \in ZeroFree, NEW n, n = Len(source),
         NEW SA12, IsSuffixArray(Names(source, SortedSample(source)), SA12),
         NEW SA0, SA0 = SortedRest(source, SA12)
  PROVE  /\ Lists(SA0, RestOf(n)) /\ Len(SA0) = n0(n)
         /\ \A p, q \in 1 .. n0(n) : p < q => Before(source, SA0[p], SA0[q])
<1> DEFINE named == Names(source, SortedSample(source))
           left == {i \in 1 .. Len(SA12) : SA12[i] < n0(n)}
           c == Cardinality(left)
           Z == RestOf(n)
           W == {w \in Nat \X Nat : Before(source, w[1] + 1, w[2] + 1)}
<1>1. source \in Array /\ n \in Nat
  BY DEF ZeroFree, Array
<1>2. n0(n) \in Nat /\ n02(n) \in Nat /\ n0(n) <= n02(n)
  <2>1. n0(n) \in Nat /\ n02(n) \in Nat
    BY <1>1, SampleSizes
  <2>2. n \div 3 \in Nat /\ n02(n) = n0(n) + n \div 3
    BY <1>1, Thirds DEF n02
  <2> HIDE DEF n0, n02
  <2> QED
    BY <2>1, <2>2
<1>3. named \in ZeroFree /\ Len(named) = n02(n)
  BY <1>1, NamesAreText
<1>4. \A x, y \in Sample(n) : Before(source, x, y) <=> Before(named, Slot(x, n), Slot(y, n))
  BY NamesOrder
<1> HIDE DEF named
<1>5. IsSuffixArray(named, SA12)
  BY DEF named
<1>6. SA12 \in Array /\ Len(SA12) = n02(n)
  BY <1>3, <1>5, RanksOfArray
<1>7. /\ SA12 \in [1 .. n02(n) -> 0 .. n02(n) - 1]
      /\ \A x \in 0 .. n02(n) - 1 : \E r \in 1 .. n02(n) : SA12[r] = x
      /\ \A q, r \in 1 .. n02(n) : q < r => Before(named, SA12[q], SA12[r])
  BY <1>3, <1>5 DEF IsSuffixArray, Offsets
<1>8. PICK e \in Bijection(1 .. c, left) :
        /\ \A p, q \in 1 .. c : p < q => e[p] < e[q]
        /\ SA0 = RadixPass([p \in 1 .. c |-> 3 * SA12[e[p]]], source)
  BY <1>1, <1>6, RestList
<1>9. c \in Nat
  BY <1>1, <1>6, RestList
<1>10. /\ \A p \in 1 .. c : e[p] \in left
       /\ \A i \in left : \E p \in 1 .. c : e[p] = i
       /\ \A p, q \in 1 .. c : e[p] = e[q] => p = q
  BY DEF Bijection, Injection, IsInjective, Surjection
<1>11. left = {i \in 1 .. n02(n) : SA12[i] < n0(n)}
  BY <1>6
<1> HIDE DEF left, c
<1> DEFINE at(p) == SA12[e[p]]
           list == [p \in 1 .. c |-> 3 * at(p)]
<1>12. ASSUME NEW p \in 1 .. c PROVE e[p] \in 1 .. n02(n) /\ at(p) \in 0 .. n0(n) - 1
  <2>1. e[p] \in 1 .. n02(n) /\ SA12[e[p]] < n0(n)
    BY <1>10, <1>11
  <2>2. SA12[e[p]] \in 0 .. n02(n) - 1
    BY <1>7, <2>1
  <2> QED
    BY <1>2, <2>1, <2>2
<1>13. SA0 = RadixPass(list, source)
  BY <1>8
<1> HIDE DEF at
<1>14. list \in Array /\ Len(list) = c
  <2>1. \A p \in 1 .. c : 3 * at(p) \in Nat
    BY <1>2, <1>12
  <2>2. list \in [1 .. c -> Nat]
    BY <2>1
  <2> HIDE DEF list
  <2> QED
    BY <1>9, <2>2, IsSequence DEF Array
<1>15. \A p \in 1 .. c : list[p] = 3 * at(p)
  OBVIOUS
<1> HIDE DEF list
<1>16. ASSUME NEW p \in 1 .. c, NEW q \in 1 .. c, p < q
       PROVE  at(p) # at(q) /\ <<list[p], list[q]>> \in W
  <2>1. e[p] < e[q] /\ e[p] \in 1 .. n02(n) /\ e[q] \in 1 .. n02(n)
    BY <1>8, <1>12, <1>16
  <2>2. Before(named, at(p), at(q))
    BY <1>7, <2>1 DEF at
  <2>3. PICK x \in 0 .. n0(n) - 1 : x = at(p)
    BY <1>12
  <2>4. PICK y \in 0 .. n0(n) - 1 : y = at(q)
    BY <1>12
  <2>5. /\ x \in Nat /\ x < n0(n) /\ x \in 0 .. n02(n) - 1 /\ 3 * x \in Nat
        /\ y \in Nat /\ y < n0(n) /\ y \in 0 .. n02(n) - 1 /\ 3 * y \in Nat
    BY <1>2
  <2>6. Offset12(x, n) = 3 * x + 1 /\ Offset12(y, n) = 3 * y + 1
    BY <2>5 DEF Offset12
  <2>7. /\ Offset12(x, n) \in Sample(n) /\ Slot(Offset12(x, n), n) = x
        /\ Offset12(y, n) \in Sample(n) /\ Slot(Offset12(y, n), n) = y
    BY <1>1, <2>5, SampleOfSlot
  <2>8. Before(source, 3 * x + 1, 3 * y + 1)
    BY <1>4, <2>2, <2>3, <2>4, <2>6, <2>7
  <2>9. x # y
    BY <1>3, <2>2, <2>3, <2>4, <2>5, BeforeIsStrict
  <2>10. list[p] = 3 * x /\ list[q] = 3 * y
    BY <1>15, <2>3, <2>4
  <2> QED
    BY <2>3, <2>4, <2>5, <2>8, <2>9, <2>10
<1>17. Lists(list, Z)
  <2>1. ASSUME NEW p \in 1 .. c PROVE list[p] \in Z
    <3>1. list[p] = 3 * at(p) /\ at(p) \in 0 .. n0(n) - 1
      BY <1>12, <1>15
    <3> QED
      BY <1>1, <3>1, RestSize
  <2>2. ASSUME NEW z \in Z PROVE \E p \in 1 .. c : list[p] = z
    <3>1. PICK x \in 0 .. n0(n) - 1 : z = 3 * x
      BY <1>1, RestSize
    <3>2. x \in 0 .. n02(n) - 1 /\ x < n0(n)
      BY <1>2
    <3>3. PICK r \in 1 .. n02(n) : SA12[r] = x
      BY <1>7, <3>2
    <3>4. r \in left
      BY <1>11, <3>2, <3>3
    <3>5. PICK p \in 1 .. c : e[p] = r
      BY <1>10, <3>4
    <3>6. list[p] = z
      BY <1>15, <3>1, <3>3, <3>5 DEF at
    <3> QED
      BY <3>6
  <2>3. ASSUME NEW p \in 1 .. c, NEW q \in 1 .. c, list[p] = list[q] PROVE p = q
    <3>1. 3 * at(p) = 3 * at(q) /\ at(p) \in Nat /\ at(q) \in Nat
      <4>1. list[p] = 3 * at(p) /\ list[q] = 3 * at(q)
        BY <1>15
      <4>2. at(p) \in Nat /\ at(q) \in Nat
        BY <1>2, <1>12
      <4> QED
        BY <2>3, <4>1, <4>2
    <3>2. at(p) = at(q)
      BY <3>1
    <3>3. ~(p < q) /\ ~(q < p)
      BY <1>16, <3>2
    <3> QED
      BY <1>9, <3>3
  <2> QED
    BY <1>14, <2>1, <2>2, <2>3 DEF Lists
<1>18. InOrder(list, W)
  BY <1>14, <1>16 DEF InOrder
<1>19. Z \in SUBSET Nat /\ \A z \in Z : z < n
  BY <1>1 DEF RestOf
<1> HIDE DEF Z, W
<1>20. /\ Lists(SA0, Z) /\ InOrder(SA0, ByKey(Z, source, W))
  BY <1>1, <1>13, <1>17, <1>18, <1>19, RadixPassSorts
<1>21. Len(SA0) = n0(n)
  BY <1>1, <1>20, ListsSize, RestSize DEF Z
<1>22. ASSUME NEW p \in 1 .. n0(n), NEW q \in 1 .. n0(n), p < q PROVE Before(source, SA0[p], SA0[q])
  <2>1. <<SA0[p], SA0[q]>> \in ByKey(Z, source, W) /\ SA0[p] \in Z /\ SA0[q] \in Z
    BY <1>20, <1>21, <1>22 DEF InOrder, Lists
  <2>2. PICK x \in Nat : x = SA0[p]
    BY <1>19, <2>1
  <2>3. PICK y \in Nat : y = SA0[q]
    BY <1>19, <2>1
  <2>4. \/ Byte(source, x) < Byte(source, y)
        \/ Byte(source, x) = Byte(source, y) /\ <<x, y>> \in W
    BY <2>1, <2>2, <2>3 DEF ByKey
  <2>5. <<x, y>> \in W => Before(source, x + 1, y + 1)
    BY DEF W
  <2> QED
    BY <2>2, <2>3, <2>4, <2>5, BeforeUnrolls
<1> QED
  BY <1>20, <1>21, <1>22 DEF Z

-----------------------------------------------------------------------------
(* Step 3: the merge.                                                      *)

\* f starts with start, and G makes each next value from the one before.
Steps(f, N, start, G) == f = [k \in 0 .. N |-> IF k = 0 THEN start ELSE G[<<f[k - 1], k - 1>>]]

\* A sequence of values, each made of the one before, is there.
LEMMA StepByStep ==
  ASSUME NEW N \in Nat, NEW V, NEW start \in V, NEW G \in [V \X Nat -> V]
  PROVE  \E f \in [0 .. N -> V] : Steps(f, N, start, G)
<1> DEFINE S == 0 .. N
           m == [k \in S |-> k]
           step(g, k) == IF k = 0 THEN start ELSE G[<<g[k - 1], k - 1>>]
           F == [g \in [S -> V] |-> [k \in S |-> step(g, k)]]
<1>1. m \in [S -> Nat]
  OBVIOUS
<1>2. ASSUME NEW g \in [S -> V], NEW k \in S PROVE step(g, k) \in V
  <2>1. CASE k = 0
    BY <2>1
  <2>2. CASE k # 0
    <3>1. k - 1 \in S /\ k - 1 \in Nat
      BY <2>2
    <3>2. <<g[k - 1], k - 1>> \in V \X Nat
      BY <3>1
    <3> QED
      BY <2>2, <3>2
  <2> QED
    BY <2>1, <2>2
<1>3. F \in [[S -> V] -> [S -> V]]
  <2> HIDE DEF step, S
  <2> QED
    BY <1>2
<1>4. LooksBelow(S, V, m, F)
  <2> SUFFICES ASSUME NEW g \in [S -> V], NEW h \in [S -> V], NEW x \in S,
                      \A y \in S : m[y] < m[x] => g[y] = h[y]
               PROVE  F[g][x] = F[h][x]
    BY DEF LooksBelow
  <2>1. F[g][x] = step(g, x) /\ F[h][x] = step(h, x)
    OBVIOUS
  <2>2. CASE x = 0
    BY <2>1, <2>2
  <2>3. CASE x # 0
    <3>1. x - 1 \in S /\ x - 1 < x
      BY <2>3
    <3>2. m[x - 1] = x - 1 /\ m[x] = x
      BY <3>1
    <3>3. g[x - 1] = h[x - 1]
      BY <3>1, <3>2
    <3> QED
      BY <2>1, <2>3, <3>3
  <2> QED
    BY <2>2, <2>3
<1>5. [S -> V] # {}
  <2>1. [k \in S |-> start] \in [S -> V]
    OBVIOUS
  <2> QED
    BY <2>1
<1> HIDE DEF m, F
<1>6. PICK f \in [S -> V] : F[f] = f
  <2> HIDE DEF S, step
  <2> QED
    <3>1. ByRecursion(S, V, m, F)
      BY <1>1, <1>3, <1>4, <1>5 DEF ByRecursion
    <3>2. Defined(S, V, F)
      BY <3>1, Recursion
    <3> QED
      BY <3>2 DEF Defined
<1>7. f = [k \in S |-> step(f, k)]
  BY <1>6 DEF F
<1> QED
  BY <1>7 DEF Steps

\* How long SA0 and SA12 are together, the dummy left out.
LEMMA Halves ==
  ASSUME NEW n \in Nat
  PROVE  /\ n0(n) - n1(n) \in Nat /\ n0(n) + n02(n) - (n0(n) - n1(n)) = n
         /\ n # 1 => n0(n) - n1(n) < n02(n) \/ n = 0
         /\ n > 1 => n02(n) < n
         /\ n0(n) - n1(n) = (IF n % 3 = 1 THEN 1 ELSE 0)
<1>1. PICK a \in Nat :
              \/ n = 3 * a /\ n0(n) = a /\ n1(n) = a /\ n02(n) = 2 * a /\ n % 3 = 0
              \/ n = 3 * a + 1 /\ n0(n) = a + 1 /\ n1(n) = a /\ n02(n) = 2 * a + 1 /\ n % 3 = 1
              \/ n = 3 * a + 2 /\ n0(n) = a + 1 /\ n1(n) = a + 1 /\ n02(n) = 2 * a + 1 /\ n % 3 = 2
  BY SampleSizes
<1>2. PICK z \in Nat : z = n0(n)
  BY <1>1
<1>3. PICK o \in Nat : o = n1(n)
  BY <1>1
<1>4. PICK m \in Nat : m = n02(n)
  BY <1>1
<1>5. \/ n = 3 * a /\ z = a /\ o = a /\ m = 2 * a /\ n % 3 = 0
      \/ n = 3 * a + 1 /\ z = a + 1 /\ o = a /\ m = 2 * a + 1 /\ n % 3 = 1
      \/ n = 3 * a + 2 /\ z = a + 1 /\ o = a + 1 /\ m = 2 * a + 1 /\ n % 3 = 2
  BY <1>1, <1>2, <1>3, <1>4
<1>6. z - o \in Nat /\ z + m - (z - o) = n /\ z - o = (IF n % 3 = 1 THEN 1 ELSE 0)
  BY <1>5
<1>7. (n # 1 => z - o < m \/ n = 0) /\ (n > 1 => m < n)
  BY <1>5
<1> QED
  BY <1>2, <1>3, <1>4, <1>6, <1>7

\* What a turn of the merge does to the counts of SA0 and SA12.
Turn(source, SA0, SA12, s12, was, k) ==
  IF SampleNext(source, SA0, SA12, s12, was[1], was[2], k)
  THEN <<was[1], was[2] + 1>>
  ELSE <<was[1] + 1, was[2]>>

\* Before the first turn only the dummy is used up.
AtStart(T, n) == T[0] = <<0, n0(n) - n1(n)>>

EachTurn(T, source, SA0, SA12, s12, n) ==
  \A k \in 0 .. n - 1 : T[k + 1] = Turn(source, SA0, SA12, s12, T[k], k)

\* The counts Turns() gives start with the dummy left out and go on turn by turn.
LEMMA TurnByTurn ==
  ASSUME NEW source \in Array, NEW SA0, NEW SA12, NEW s12, NEW n, n = Len(source),
         NEW T, T = Turns(source, SA0, SA12, s12)
  PROVE  /\ T \in [0 .. n -> Nat \X Nat] /\ n \in Nat
         /\ AtStart(T, n)
         /\ EachTurn(T, source, SA0, SA12, s12, n)
<1> DEFINE V == Nat \X Nat
           start == <<0, n0(n) - n1(n)>>
           step(was, k) == Turn(source, SA0, SA12, s12, was, k)
           G == [w \in V \X Nat |-> step(w[1], w[2])]
           Made(f) == f = [k \in 0 .. n |-> IF k = 0 THEN start ELSE step(f[k - 1], k - 1)]
           C == CHOOSE f : Made(f)
<1>1. n \in Nat
  BY DEF Array
<1>2. start \in V
  <2>1. n0(n) - n1(n) \in Nat
    BY <1>1, Halves
  <2> QED
    BY <2>1
<1>3. ASSUME NEW was \in V, NEW k \in Nat PROVE step(was, k) \in V
  BY DEF Turn
<1> HIDE DEF start, step
<1>4. G \in [V \X Nat -> V]
  <2>1. \A w \in V \X Nat : step(w[1], w[2]) \in V
    BY <1>3
  <2> HIDE DEF V
  <2> QED
    BY <2>1
<1>5. PICK f \in [0 .. n -> V] : Steps(f, n, start, G)
  <2> HIDE DEF G, V
  <2> QED
    BY <1>1, <1>2, <1>4, StepByStep
<1>6. ASSUME NEW k \in 0 .. n, k # 0 PROVE G[<<f[k - 1], k - 1>>] = step(f[k - 1], k - 1)
  <2>1. k - 1 \in 0 .. n /\ k - 1 \in Nat
    BY <1>1, <1>6
  <2>2. f[k - 1] \in V
    BY <2>1
  <2>3. PICK w \in V \X Nat : w = <<f[k - 1], k - 1>>
    BY <2>1, <2>2
  <2>4. G[w] = step(w[1], w[2]) /\ w[1] = f[k - 1] /\ w[2] = k - 1
    BY <2>3
  <2> HIDE DEF G, V
  <2> QED
    BY <2>3, <2>4
<1>7. Made(f)
  <2> HIDE DEF G, V
  <2>1. \A k \in 0 .. n : (IF k = 0 THEN start ELSE G[<<f[k - 1], k - 1>>])
                            = IF k = 0 THEN start ELSE step(f[k - 1], k - 1)
    BY <1>6, Zenon
  <2>2. [k \in 0 .. n |-> IF k = 0 THEN start ELSE G[<<f[k - 1], k - 1>>]]
          = [k \in 0 .. n |-> IF k = 0 THEN start ELSE step(f[k - 1], k - 1)]
    BY <2>1, Zenon
  <2> QED
    BY <1>5, <2>2, Zenon DEF Steps
<1>8. Made(C)
  BY <1>7, Zenon
<1>9. T = C
  BY DEF Turns, Turn, start, step
<1> HIDE DEF C
<1>10. T = [k \in 0 .. n |-> IF k = 0 THEN start ELSE step(T[k - 1], k - 1)]
  BY <1>8, <1>9, Zenon
<1>11. T[0] = start
  BY <1>1, <1>10
<1>12. ASSUME NEW k \in 0 .. n - 1 PROVE T[k + 1] = step(T[k], k)
  <2>1. k + 1 \in 0 .. n /\ k + 1 # 0 /\ (k + 1) - 1 = k
    BY <1>1
  <2> QED
    BY <1>10, <2>1
<1>13. ASSUME NEW k \in 0 .. n PROVE T[k] \in V
  <2> DEFINE Bad == {x \in 0 .. n : T[x] \notin V}
  <2>1. SUFFICES ASSUME Bad # {} PROVE FALSE
    OBVIOUS
  <2>2. PICK x \in Bad : \A y \in Bad : x <= y
    <3>1. Bad \in SUBSET Nat
      BY <1>1
    <3> QED
      BY <2>1, <3>1, Smallest
  <2>3. x # 0
    BY <1>2, <1>11, <2>2
  <2>4. x - 1 \in 0 .. n - 1 /\ x - 1 \in 0 .. n /\ (x - 1) + 1 = x /\ ~(x <= x - 1) /\ x - 1 \in Nat
    BY <1>1, <2>2, <2>3
  <2>5. T[x - 1] \in V
    BY <2>2, <2>4
  <2>6. T[x] = step(T[x - 1], x - 1)
    BY <1>12, <2>4
  <2>7. T[x] \in V
    BY <1>3, <2>4, <2>5, <2>6
  <2> QED
    BY <2>2, <2>7
<1>14. T \in [0 .. n -> V]
  <2> HIDE DEF V
  <2> QED
    BY <1>10, <1>13
<1> QED
  BY <1>1, <1>11, <1>12, <1>14 DEF start, step, AtStart, EachTurn

\* A turn takes the next suffix of SA12, or that of SA0.
LEMMA MergeTurn ==
  ASSUME NEW source \in Array, NEW SA0, NEW SA12, NEW s12, NEW n, n = Len(source),
         NEW T, T = Turns(source, SA0, SA12, s12),
         NEW k \in 0 .. n - 1, NEW p, NEW t, T[k] = <<p, t>>
  PROVE  T[k + 1] = IF SampleNext(source, SA0, SA12, s12, p, t, k) THEN <<p, t + 1>> ELSE <<p + 1, t>>
<1>1. T[k + 1] = Turn(source, SA0, SA12, s12, T[k], k)
  <2>1. EachTurn(T, source, SA0, SA12, s12, n)
    BY TurnByTurn
  <2> QED
    BY <2>1, Zenon DEF EachTurn
<1>2. T[k][1] = p /\ T[k][2] = t
  OBVIOUS
<1> QED
  BY <1>1, <1>2, Zenon DEF Turn

\* Whatever is merged, the result is an array as long as the text.
LEMMA MergeIsArray ==
  ASSUME NEW source \in Array, NEW SA0 \in Array, NEW SA12 \in Array, NEW s12, NEW n, n = Len(source)
  PROVE  /\ Merge(source, SA0, SA12, s12) \in [1 .. n -> Nat]
         /\ Merge(source, SA0, SA12, s12) \in Array
<1> DEFINE T == Turns(source, SA0, SA12, s12)
           X(r) == Offset12(Byte(SA12, T[r - 1][2]), n)
           Y(r) == Byte(SA0, T[r - 1][1])
           first(r) == SampleNext(source, SA0, SA12, s12, T[r - 1][1], T[r - 1][2], r - 1)
           M == [r \in 1 .. n |-> IF first(r) THEN X(r) ELSE Y(r)]
<1>1. T \in [0 .. n -> Nat \X Nat] /\ n \in Nat
  BY TurnByTurn
<1>2. Merge(source, SA0, SA12, s12) = M
  BY DEF Merge
<1> HIDE DEF T
<1>3. ASSUME NEW r \in 1 .. n PROVE X(r) \in Nat /\ Y(r) \in Nat
  <2>1. r - 1 \in 0 .. n
    BY <1>1
  <2>2. PICK p \in Nat, t \in Nat : T[r - 1] = <<p, t>>
    BY <1>1, <2>1
  <2>3. Byte(SA12, t) \in Nat /\ Byte(SA0, p) \in Nat
    BY BytesOfArray
  <2>4. n0(n) \in Nat
    BY <1>1, SampleSizes
  <2>5. \A i \in Nat : Offset12(i, n) \in Nat
    BY <2>4 DEF Offset12
  <2> QED
    BY <2>2, <2>3, <2>5
<1> HIDE DEF X, Y, first
<1>4. M \in [1 .. n -> Nat]
  BY <1>3
<1> HIDE DEF M
<1> QED
  BY <1>1, <1>2, <1>4, IsSequence DEF Array

\* The counts stay within SA0 and SA12, and a turn raises one of them.
LEMMA TurnsStay ==
  ASSUME NEW source \in Array, NEW SA0, NEW SA12, NEW s12, NEW n, n = Len(source), n # 1,
         NEW T, T = Turns(source, SA0, SA12, s12),
         NEW k \in 0 .. n
  PROVE  /\ T[k] \in Nat \X Nat
         /\ T[k][1] \in 0 .. n0(n) /\ T[k][2] \in n0(n) - n1(n) .. n02(n)
         /\ T[k][1] + T[k][2] = k + (n0(n) - n1(n))
<1> DEFINE z == n0(n) - n1(n)
           good(x) == /\ T[x][1] \in 0 .. n0(n) /\ T[x][2] \in z .. n02(n)
                      /\ T[x][1] + T[x][2] = x + z
           Bad == {x \in 0 .. n : ~good(x)}
<1>1. /\ T \in [0 .. n -> Nat \X Nat] /\ n \in Nat
      /\ T[0] = <<0, n0(n) - n1(n)>>
  <2> HIDE DEF z, good, Bad
  <2>1. T \in [0 .. n -> Nat \X Nat] /\ n \in Nat
    BY TurnByTurn
  <2>2. AtStart(T, n)
    BY TurnByTurn
  <2> QED
    BY <2>1, <2>2 DEF AtStart
<1>2. n0(n) \in Nat /\ n02(n) \in Nat
  BY <1>1, SampleSizes
<1>3. z \in Nat /\ n0(n) + n02(n) - z = n /\ (n # 1 => z < n02(n) \/ n = 0)
  BY <1>1, Halves
<1>4. T[0] = <<0, z>>
  BY <1>1
<1> HIDE DEF z
<1>5. SUFFICES ASSUME Bad # {} PROVE FALSE
  <2>1. CASE Bad = {}
    <3>1. good(k)
      BY <2>1
    <3> QED
      BY <1>1, <3>1 DEF z
  <2> QED
    BY <2>1
<1>6. PICK x \in Bad : \A y \in Bad : x <= y
  <2>1. Bad \in SUBSET Nat
    BY <1>1
  <2> HIDE DEF Bad
  <2> QED
    BY <1>5, <2>1, Smallest
<1>7. x # 0
  <2>1. ASSUME n = 0 PROVE z <= n02(n)
    BY <1>1, <1>2, <1>3, <2>1, SampleSizes DEF z
  <2>2. z <= n02(n)
    BY <1>2, <1>3, <2>1
  <2>3. good(0)
    BY <1>2, <1>3, <1>4, <2>2
  <2> QED
    BY <1>6, <2>3
<1>8. PICK y \in 0 .. n - 1 : x = y + 1 /\ y \in 0 .. n /\ y \in Nat
  <2>1. x \in 0 .. n
    BY <1>6
  <2>2. x - 1 \in 0 .. n - 1 /\ x = (x - 1) + 1 /\ x - 1 \in 0 .. n /\ x - 1 \in Nat
    BY <1>1, <1>7, <2>1
  <2> QED
    BY <2>2
<1>9. good(y)
  <2>1. ~(x <= y)
    BY <1>8
  <2> QED
    BY <1>6, <1>8, <2>1
<1>10. PICK p \in Nat, t \in Nat : T[y] = <<p, t>>
  BY <1>1, <1>8
<1>11. p \in 0 .. n0(n) /\ t \in z .. n02(n) /\ p + t = y + z
  BY <1>9, <1>10
<1>12. T[x] = IF SampleNext(source, SA0, SA12, s12, p, t, y) THEN <<p, t + 1>> ELSE <<p + 1, t>>
  <2>1. T[y + 1] = IF SampleNext(source, SA0, SA12, s12, p, t, y) THEN <<p, t + 1>> ELSE <<p + 1, t>>
    BY <1>8, <1>10, MergeTurn
  <2> QED
    BY <1>8, <2>1, Zenon
<1>13. CASE SampleNext(source, SA0, SA12, s12, p, t, y)
  <2>1. t < n02(n)
    <3>1. CASE p = n0(n)
      BY <1>1, <1>2, <1>3, <1>8, <1>11, <3>1
    <3>2. CASE p # n0(n)
      <4>1. t < n02(n) \/ y = 0
        BY <1>13, <3>2 DEF SampleNext
      <4>2. CASE y = 0
        <5>1. t = z /\ n # 0
          BY <1>1, <1>3, <1>4, <1>8, <1>10, <4>2
        <5> QED
          BY <1>3, <5>1
      <4> QED
        BY <4>1, <4>2
    <3> QED
      BY <3>1, <3>2
  <2>2. T[x] = <<p, t + 1>>
    BY <1>12, <1>13
  <2>3. T[x][1] = p /\ T[x][2] = t + 1
    BY <2>2
  <2>4. good(x)
    BY <1>2, <1>3, <1>8, <1>11, <2>1, <2>3
  <2> QED
    BY <1>6, <2>4
<1>14. CASE ~SampleNext(source, SA0, SA12, s12, p, t, y)
  <2>1. p # n0(n)
    BY <1>14 DEF SampleNext
  <2>2. T[x] = <<p + 1, t>>
    BY <1>12, <1>14
  <2>3. T[x][1] = p + 1 /\ T[x][2] = t
    BY <2>2
  <2>4. good(x)
    BY <1>2, <1>3, <1>8, <1>11, <2>1, <2>3
  <2> QED
    BY <1>6, <2>4
<1> QED
  BY <1>13, <1>14

\* No count falls.
LEMMA TurnsGoOn ==
  ASSUME NEW source \in Array, NEW SA0, NEW SA12, NEW s12, NEW n, n = Len(source),
         NEW T, T = Turns(source, SA0, SA12, s12),
         NEW j \in 0 .. n, NEW k \in 0 .. n, j <= k
  PROVE  T[j][1] <= T[k][1] /\ T[j][2] <= T[k][2]
<1> DEFINE below(x) == T[j][1] <= T[x][1] /\ T[j][2] <= T[x][2]
           Bad == {x \in 0 .. n : j <= x /\ ~below(x)}
<1>1. T \in [0 .. n -> Nat \X Nat] /\ n \in Nat
  BY TurnByTurn
<1>2. SUFFICES ASSUME Bad # {} PROVE FALSE
  OBVIOUS
<1>3. PICK x \in Bad : \A y \in Bad : x <= y
  <2>1. Bad \in SUBSET Nat
    BY <1>1
  <2> HIDE DEF Bad
  <2> QED
    BY <1>2, <2>1, Smallest
<1>4. PICK a \in Nat, b \in Nat : T[j] = <<a, b>>
  BY <1>1
<1>5. x # j
  <2>1. below(j)
    BY <1>4
  <2> QED
    BY <1>3, <2>1
<1>6. PICK y \in 0 .. n - 1 : x = y + 1 /\ y \in 0 .. n /\ j <= y
  <2>1. x \in 0 .. n /\ j <= x
    BY <1>3
  <2>2. x - 1 \in 0 .. n - 1 /\ x = (x - 1) + 1 /\ x - 1 \in 0 .. n /\ j <= x - 1
    BY <1>1, <1>5, <2>1
  <2> QED
    BY <2>2
<1>7. below(y)
  <2>1. ~(x <= y)
    BY <1>6
  <2> QED
    BY <1>3, <1>6, <2>1
<1>8. PICK p \in Nat, t \in Nat : T[y] = <<p, t>>
  BY <1>1, <1>6
<1>9. T[x] = <<p, t + 1>> \/ T[x] = <<p + 1, t>>
  <2>1. T[y + 1] = IF SampleNext(source, SA0, SA12, s12, p, t, y) THEN <<p, t + 1>> ELSE <<p + 1, t>>
    <3>1. EachTurn(T, source, SA0, SA12, s12, n)
      BY TurnByTurn
    <3>2. T[y + 1] = Turn(source, SA0, SA12, s12, T[y], y)
      BY <3>1, Zenon DEF EachTurn
    <3>3. T[y][1] = p /\ T[y][2] = t
      BY <1>8
    <3> QED
      BY <3>2, <3>3, Zenon DEF Turn
  <2> QED
    BY <1>6, <2>1, Zenon
<1>10. a <= p /\ b <= t
  BY <1>4, <1>7, <1>8
<1>11. below(x)
  BY <1>4, <1>9, <1>10
<1> QED
  BY <1>3, <1>11

\* The offset of the suffix that SA12 has at t, in a text of n bytes.
SuffixAt(SA12, n, t) == Offset12(Byte(SA12, t), n)

\* From the first that is no dummy on, SA12 lists sample suffixes in their order.
LEMMA SampleList ==
  ASSUME NEW source \in ZeroFree, NEW n, n = Len(source),
         NEW SA12, IsSuffixArray(Names(source, SortedSample(source)), SA12),
         NEW t \in n0(n) - n1(n) .. n02(n) - 1
  PROVE  /\ Byte(SA12, t) \in 0 .. n02(n) - 1
         /\ SuffixAt(SA12, n, t) \in Sample(n) /\ SuffixAt(SA12, n, t) \in Nat /\ SuffixAt(SA12, n, t) < n
         /\ \A u \in n0(n) - n1(n) .. n02(n) - 1 : t < u => Before(source, SuffixAt(SA12, n, t), SuffixAt(SA12, n, u))
<1> DEFINE named == Names(source, SortedSample(source))
           m == n02(n)
           z == n0(n) - n1(n)
           X(x) == SuffixAt(SA12, n, x)
<1>1. source \in Array /\ n \in Nat
  BY DEF ZeroFree, Array
<1>2. z \in Nat /\ m \in Nat /\ z = (IF n % 3 = 1 THEN 1 ELSE 0)
  BY <1>1, Halves, SampleSizes
<1>3. named \in ZeroFree /\ Len(named) = m
  BY <1>1, NamesAreText
<1>4. \A x, y \in Sample(n) : Before(source, x, y) <=> Before(named, Slot(x, n), Slot(y, n))
  BY NamesOrder
<1> HIDE DEF named
<1>5. IsSuffixArray(named, SA12)
  BY DEF named
<1>6. Len(SA12) = m
  BY <1>3, <1>5, RanksOfArray
<1>7. /\ SA12 \in [1 .. m -> 0 .. m - 1]
      /\ \A q, r \in 1 .. m : q < r => Before(named, SA12[q], SA12[r])
  BY <1>3, <1>5 DEF IsSuffixArray, Offsets
<1>8. t \in z .. m - 1
  OBVIOUS
<1>9. \A x \in 0 .. m - 1 : Offset12(x, n) \in Sample(n) /\ Slot(Offset12(x, n), n) = x
  BY <1>1, SampleOfSlot
<1> HIDE DEF m, z
<1>10. ASSUME NEW x \in 0 .. m - 1
       PROVE  /\ x + 1 \in 1 .. m /\ Byte(SA12, x) = SA12[x + 1] /\ SA12[x + 1] \in 0 .. m - 1
              /\ X(x) = Offset12(SA12[x + 1], n) /\ X(x) \in Sample(n)
  <2>1. x + 1 \in 1 .. m /\ x < m
    BY <1>2
  <2>2. Byte(SA12, x) = SA12[x + 1] /\ SA12[x + 1] \in 0 .. m - 1
    BY <1>6, <1>7, <2>1 DEF Byte
  <2> QED
    BY <1>9, <2>1, <2>2 DEF SuffixAt
<1> HIDE DEF X
<1>11. ASSUME NEW x \in 0 .. m - 1, NEW y \in 0 .. m - 1, x < y PROVE Before(source, X(x), X(y))
  <2>1. Before(named, SA12[x + 1], SA12[y + 1])
    <3>1. x + 1 \in 1 .. m /\ y + 1 \in 1 .. m /\ x + 1 < y + 1
      BY <1>2, <1>11
    <3> QED
      BY <1>7, <3>1
  <2>2. /\ X(x) \in Sample(n) /\ Slot(X(x), n) = SA12[x + 1]
        /\ X(y) \in Sample(n) /\ Slot(X(y), n) = SA12[y + 1]
    BY <1>9, <1>10
  <2> QED
    BY <1>4, <2>1, <2>2
<1>12. z .. m - 1 \in SUBSET (0 .. m - 1)
  BY <1>2
<1>13. \A x \in Sample(n) : x \in Nat /\ (x < n \/ (x = n /\ n % 3 = 1))
  BY <1>1 DEF Sample
<1>14. X(t) < n
  <2>1. X(t) \in Sample(n)
    BY <1>8, <1>10, <1>12
  <2>2. ASSUME X(t) = n, n % 3 = 1 PROVE FALSE
    <3>1. 0 \in 0 .. m - 1 /\ t \in 0 .. m - 1 /\ 0 < t
      BY <1>2, <1>8, <2>2
    <3>2. Before(source, X(0), n)
      BY <1>11, <2>2, <3>1
    <3>3. X(0) \in Nat
      BY <1>10, <1>13, <3>1
    <3> QED
      BY <1>1, <3>2, <3>3, NothingBeforeEnd
  <2> QED
    BY <1>13, <2>1, <2>2
<1>15. Byte(SA12, t) \in 0 .. m - 1 /\ X(t) \in Sample(n) /\ X(t) \in Nat
  BY <1>8, <1>10, <1>12, <1>13
<1>16. \A u \in z .. m - 1 : t < u => Before(source, X(t), X(u))
  BY <1>8, <1>11, <1>12
<1> QED
  BY <1>14, <1>15, <1>16 DEF m, z, X

\* SA0 lists the positions 0 mod 3 in the order of their suffixes.
LEMMA RestListed ==
  ASSUME NEW source \in ZeroFree, NEW n, n = Len(source),
         NEW SA12, IsSuffixArray(Names(source, SortedSample(source)), SA12),
         NEW SA0, SA0 = SortedRest(source, SA12),
         NEW p \in 0 .. n0(n) - 1
  PROVE  /\ Byte(SA0, p) \in RestOf(n) /\ Byte(SA0, p) \in Nat /\ Byte(SA0, p) < n
         /\ \A q \in 0 .. n0(n) - 1 : p < q => Before(source, Byte(SA0, p), Byte(SA0, q))
<1> DEFINE h == n0(n)
<1>1. source \in Array /\ n \in Nat
  BY DEF ZeroFree, Array
<1>2. h \in Nat
  BY <1>1, SampleSizes
<1>3. /\ Lists(SA0, RestOf(n)) /\ Len(SA0) = h
      /\ \A x, y \in 1 .. h : x < y => Before(source, SA0[x], SA0[y])
  BY RestIsSorted
<1>4. p \in 0 .. h - 1
  OBVIOUS
<1> HIDE DEF h
<1>5. ASSUME NEW x \in 0 .. h - 1
      PROVE  x + 1 \in 1 .. h /\ Byte(SA0, x) = SA0[x + 1] /\ SA0[x + 1] \in RestOf(n)
  <2>1. x + 1 \in 1 .. h /\ x < h
    BY <1>2
  <2> QED
    BY <1>3, <2>1 DEF Byte, Lists
<1>6. \A z \in RestOf(n) : z \in Nat /\ z < n
  BY <1>1 DEF RestOf
<1>7. ASSUME NEW q \in 0 .. h - 1, p < q PROVE Before(source, Byte(SA0, p), Byte(SA0, q))
  <2>1. p + 1 < q + 1
    BY <1>2, <1>4, <1>7
  <2> QED
    BY <1>3, <1>4, <1>5, <2>1
<1> QED
  BY <1>4, <1>5, <1>6, <1>7 DEF h

\* The merge takes the suffix strcmp would, of the one SA12 and the one SA0 is at.
LEMMA MergeCompares ==
  ASSUME NEW source \in ZeroFree, NEW n, n = Len(source),
         NEW SA12, IsSuffixArray(Names(source, SortedSample(source)), SA12),
         NEW SA0, SA0 = SortedRest(source, SA12),
         NEW s12, s12 = Ranks(SA12),
         NEW t \in n0(n) - n1(n) .. n02(n) - 1, NEW p \in 0 .. n0(n) - 1
  PROVE  /\ SampleFirst(source, s12, Byte(SA12, t), Byte(SA0, p)) => Before(source, SuffixAt(SA12, n, t), Byte(SA0, p))
         /\ ~SampleFirst(source, s12, Byte(SA12, t), Byte(SA0, p)) => Before(source, Byte(SA0, p), SuffixAt(SA12, n, t))
<1>1. source \in Array /\ n \in Nat
  BY DEF ZeroFree, Array
<1>2. PICK i \in 0 .. n02(n) - 1 : i = Byte(SA12, t)
  BY SampleList
<1>3. PICK x \in Sample(n) : x = SuffixAt(SA12, n, t) /\ x \in Nat /\ x < n
  BY SampleList
<1>4. PICK y \in RestOf(n) : y = Byte(SA0, p) /\ y \in Nat /\ y < n
  BY RestListed
<1>5. x = Offset12(i, n)
  BY <1>2, <1>3 DEF SuffixAt
<1>6. SampleFirst(source, s12, i, y) <=> Before(source, x, y)
  BY <1>3, <1>5, SampleFirstCompares
<1>7. x # y
  BY DEF Sample, RestOf
<1>8. x \in 0 .. n /\ y \in 0 .. n
  BY <1>1, <1>3, <1>4
<1>9. Before(source, x, y) \/ Before(source, y, x)
  BY <1>1, <1>7, <1>8, BeforeIsTotal
<1> QED
  BY <1>2, <1>3, <1>4, <1>6, <1>9, Zenon

\* What TurnsStay says of a turn, as one word.
Within(c, n, k) ==
  /\ c \in Nat \X Nat
  /\ c[1] \in 0 .. n0(n) /\ c[2] \in n0(n) - n1(n) .. n02(n)
  /\ c[1] + c[2] = k + (n0(n) - n1(n))

\* All the counts stay within SA0 and SA12.
LEMMA AllTurnsStay ==
  ASSUME NEW source \in Array, NEW SA0, NEW SA12, NEW s12, NEW n, n = Len(source), n # 1,
         NEW T, T = Turns(source, SA0, SA12, s12)
  PROVE  \A k \in 0 .. n : Within(T[k], n, k)
<1>1. ASSUME NEW k \in 0 .. n PROVE Within(T[k], n, k)
  <2>1. T[k] \in Nat \X Nat
    BY TurnsStay
  <2>2. T[k][1] \in 0 .. n0(n) /\ T[k][2] \in n0(n) - n1(n) .. n02(n)
    BY TurnsStay
  <2>3. T[k][1] + T[k][2] = k + (n0(n) - n1(n))
    BY TurnsStay
  <2> QED
    BY <2>1, <2>2, <2>3, Zenon DEF Within
<1> QED
  BY <1>1

\* Step 3 merges right: from the suffix array of the names, the text's own.
LEMMA MergeSorts ==
  ASSUME NEW source \in ZeroFree, Len(source) # 1,
         NEW SA12, IsSuffixArray(Names(source, SortedSample(source)), SA12)
  PROVE  IsSuffixArray(source, Merge(source, SortedRest(source, SA12), SA12, Ranks(SA12)))
<1> DEFINE n == Len(source)
           SA0 == SortedRest(source, SA12)
           s12 == Ranks(SA12)
           h == n0(n)
           m == n02(n)
           z == n0(n) - n1(n)
           X(t) == SuffixAt(SA12, n, t)
           Y(p) == Byte(SA0, p)
           T == Turns(source, SA0, SA12, s12)
           P(k) == T[k][1]
           Q(k) == T[k][2]
           next(k) == SampleNext(source, SA0, SA12, s12, P(k), Q(k), k)
           M == Merge(source, SA0, SA12, s12)
<1>1. source \in Array /\ n \in Nat /\ n # 1
  BY DEF ZeroFree, Array
<1>2. h \in Nat /\ m \in Nat /\ z \in Nat /\ h + m - z = n /\ (z < m \/ n = 0)
  BY <1>1, Halves, SampleSizes
<1>3. /\ \A t \in z .. m - 1 : X(t) \in Nat /\ X(t) < n
      /\ \A t, u \in z .. m - 1 : t < u => Before(source, X(t), X(u))
  BY SampleList
<1>4. /\ \A p \in 0 .. h - 1 : Y(p) \in Nat /\ Y(p) < n
      /\ \A p, q \in 0 .. h - 1 : p < q => Before(source, Y(p), Y(q))
  BY RestListed
<1> DEFINE SF(t, p) == SampleFirst(source, s12, Byte(SA12, t), Y(p))
<1>5. ASSUME NEW t \in z .. m - 1, NEW p \in 0 .. h - 1
      PROVE  /\ SF(t, p) => Before(source, X(t), Y(p))
             /\ ~SF(t, p) => Before(source, Y(p), X(t))
  BY MergeCompares
<1>6. M = [r \in 1 .. n |-> IF next(r - 1) THEN X(Q(r - 1)) ELSE Y(P(r - 1))]
  BY DEF Merge, SuffixAt
<1>7. ASSUME NEW k \in 0 .. n
      PROVE  /\ T[k] \in Nat \X Nat /\ P(k) \in 0 .. h /\ Q(k) \in z .. m
             /\ P(k) + Q(k) = k + z
  <2> HIDE DEF M
  <2>1. \A x \in 0 .. n : Within(T[x], n, x)
    <3>1. n = Len(source) /\ T = Turns(source, SA0, SA12, s12)
      OBVIOUS
    <3>2. source \in Array /\ n # 1
      BY <1>1
    <3> HIDE DEF T, n, SA0, s12, h, m, z, P, Q
    <3> QED
      BY <3>1, <3>2, AllTurnsStay
  <2>2. Within(T[k], n, k)
    BY <2>1
  <2> QED
    BY <2>2, Zenon DEF Within
<1>8. ASSUME NEW j \in 0 .. n, NEW k \in 0 .. n, j <= k PROVE P(j) <= P(k) /\ Q(j) <= Q(k)
  <2> HIDE DEF M
  <2> QED
    BY <1>1, <1>8, TurnsGoOn
<1>9. ASSUME NEW k \in 0 .. n - 1
      PROVE  /\ next(k) => P(k + 1) = P(k) /\ Q(k + 1) = Q(k) + 1
             /\ ~next(k) => P(k + 1) = P(k) + 1 /\ Q(k + 1) = Q(k)
  <2>1. EachTurn(T, source, SA0, SA12, s12, n)
    BY <1>1, TurnByTurn
  <2>2. T[k + 1] = IF next(k) THEN <<P(k), Q(k) + 1>> ELSE <<P(k) + 1, Q(k)>>
    BY <2>1, Zenon DEF EachTurn, Turn
  <2> HIDE DEF next, M, T
  <2> QED
    BY <2>2
<1>10. ASSUME NEW k PROVE next(k) <=> P(k) = h \/ ((Q(k) < m \/ k = 0) /\ SF(Q(k), P(k)))
  BY DEF SampleNext
<1>11. Offsets(source) = 0 .. n - 1
  BY DEF Offsets
<1> HIDE DEF n, SA0, s12, h, m, z, X, Y, T, P, Q, next, M, SF
<1>12. ASSUME NEW k \in 0 .. n - 1, next(k)
       PROVE  Q(k) \in z .. m - 1 /\ (P(k) \in 0 .. h - 1 => Before(source, X(Q(k)), Y(P(k))))
  <2>1. k \in 0 .. n /\ k \in Nat /\ k < n
    BY <1>1
  <2>2. PICK p \in 0 .. h, q \in z .. m : p = P(k) /\ q = Q(k) /\ p + q = k + z
    BY <1>7, <2>1
  <2>3. q < m
    <3>1. CASE p = h
      BY <1>2, <2>1, <2>2, <3>1
    <3>2. CASE p # h
      <4>1. q < m \/ k = 0
        BY <1>10, <1>12, <2>2, <3>2
      <4>2. k = 0 => q = z
        BY <1>2, <2>2
      <4> QED
        BY <1>2, <2>1, <4>1, <4>2
    <3> QED
      BY <3>1, <3>2
  <2>4. q \in z .. m - 1
    BY <1>2, <2>3
  <2>5. ASSUME p \in 0 .. h - 1 PROVE Before(source, X(q), Y(p))
    <3>1. p # h
      BY <1>2, <2>5
    <3>2. SF(q, p)
      BY <1>10, <1>12, <2>2, <3>1
    <3> QED
      BY <1>5, <2>4, <2>5, <3>2
  <2> QED
    BY <2>2, <2>4, <2>5
<1>13. ASSUME NEW k \in 0 .. n - 1, ~next(k)
       PROVE  P(k) \in 0 .. h - 1 /\ (Q(k) \in z .. m - 1 => Before(source, Y(P(k)), X(Q(k))))
  <2>1. k \in 0 .. n
    BY <1>1
  <2>2. PICK p \in 0 .. h, q \in z .. m : p = P(k) /\ q = Q(k)
    BY <1>7, <2>1
  <2>3. p # h
    BY <1>10, <1>13, <2>2
  <2>4. p \in 0 .. h - 1
    BY <1>2, <2>3
  <2>5. ASSUME q \in z .. m - 1 PROVE Before(source, Y(p), X(q))
    <3>1. q < m
      BY <1>2, <2>5
    <3>2. ~SF(q, p)
      BY <1>10, <1>13, <2>2, <3>1
    <3> QED
      BY <1>5, <2>4, <2>5, <3>2
  <2> QED
    BY <2>2, <2>4, <2>5
<1>14. ASSUME NEW r \in 1 .. n
       PROVE  /\ r - 1 \in 0 .. n - 1 /\ r - 1 \in 0 .. n
              /\ next(r - 1) => M[r] = X(Q(r - 1))
              /\ ~next(r - 1) => M[r] = Y(P(r - 1))
  <2>1. r - 1 \in 0 .. n - 1 /\ r - 1 \in 0 .. n
    BY <1>1
  <2>2. M[r] = IF next(r - 1) THEN X(Q(r - 1)) ELSE Y(P(r - 1))
    BY <1>6
  <2> QED
    BY <2>1, <2>2
<1>15. ASSUME NEW r \in 1 .. n PROVE M[r] \in 0 .. n - 1
  <2>1. r - 1 \in 0 .. n - 1
    BY <1>14
  <2>2. CASE next(r - 1)
    <3>1. M[r] \in Nat /\ M[r] < n
      BY <1>3, <1>12, <1>14, <2>1, <2>2
    <3> QED
      BY <1>1, <3>1
  <2>3. CASE ~next(r - 1)
    <3>1. M[r] \in Nat /\ M[r] < n
      BY <1>4, <1>13, <1>14, <2>1, <2>3
    <3> QED
      BY <1>1, <3>1
  <2> QED
    BY <2>2, <2>3
<1>16. ASSUME NEW a \in Nat, NEW b \in Nat, NEW c \in Nat, Before(source, a, b), Before(source, b, c)
       PROVE  Before(source, a, c)
  BY <1>16, BeforeIsTransitive
<1>17. ASSUME NEW i \in 1 .. n, NEW j \in 1 .. n, i < j PROVE Before(source, M[i], M[j])
  <2>1. PICK k \in 0 .. n - 1 : k = i - 1 /\ k \in 0 .. n
    BY <1>14
  <2>2. PICK l \in 0 .. n - 1 : l = j - 1 /\ l \in 0 .. n
    BY <1>14
  <2>3. k + 1 <= l /\ k <= l /\ k + 1 \in 0 .. n
    BY <1>1, <1>17, <2>1, <2>2
  <2>4. PICK p \in 0 .. h, t \in z .. m : p = P(k) /\ t = Q(k)
    BY <1>7, <2>1
  <2>5. PICK q \in 0 .. h, u \in z .. m : q = P(l) /\ u = Q(l)
    BY <1>7, <2>2
  <2>6. p <= q /\ t <= u
    BY <1>8, <2>1, <2>2, <2>3, <2>4, <2>5
  <2>7. P(k + 1) <= q /\ Q(k + 1) <= u
    BY <1>8, <2>2, <2>3, <2>5
  <2>8. CASE next(k)
    <3>1. M[i] = X(t) /\ t \in z .. m - 1 /\ (p \in 0 .. h - 1 => Before(source, X(t), Y(p)))
      BY <1>12, <1>14, <2>1, <2>4, <2>8
    <3>2. t < u
      <4>1. t + 1 <= u
        BY <1>9, <2>4, <2>7, <2>8
      <4> QED
        BY <1>2, <4>1
    <3>3. CASE next(l)
      <4>1. M[j] = X(u) /\ u \in z .. m - 1
        BY <1>12, <1>14, <2>2, <2>5, <3>3
      <4> QED
        BY <1>3, <3>1, <3>2, <4>1
    <3>4. CASE ~next(l)
      <4>1. M[j] = Y(q) /\ q \in 0 .. h - 1
        BY <1>13, <1>14, <2>2, <2>5, <3>4
      <4>2. p \in 0 .. h - 1
        BY <1>2, <2>6, <4>1
      <4>3. Before(source, X(t), Y(p))
        BY <3>1, <4>2
      <4>4. X(t) \in Nat /\ Y(p) \in Nat /\ Y(q) \in Nat
        BY <1>3, <1>4, <3>1, <4>1, <4>2
      <4>5. p = q \/ p < q
        BY <1>2, <2>6
      <4>6. p < q => Before(source, Y(p), Y(q))
        BY <1>4, <4>1, <4>2
      <4>7. p < q => Before(source, X(t), Y(q))
        BY <1>16, <4>3, <4>4, <4>6
      <4> QED
        BY <3>1, <4>1, <4>3, <4>5, <4>7
    <3> QED
      BY <3>3, <3>4
  <2>9. CASE ~next(k)
    <3>1. M[i] = Y(p) /\ p \in 0 .. h - 1 /\ (t \in z .. m - 1 => Before(source, Y(p), X(t)))
      BY <1>13, <1>14, <2>1, <2>4, <2>9
    <3>2. p < q
      <4>1. p + 1 <= q
        BY <1>9, <2>4, <2>7, <2>9
      <4> QED
        BY <1>2, <4>1
    <3>3. CASE ~next(l)
      <4>1. M[j] = Y(q) /\ q \in 0 .. h - 1
        BY <1>13, <1>14, <2>2, <2>5, <3>3
      <4> QED
        BY <1>4, <3>1, <3>2, <4>1
    <3>4. CASE next(l)
      <4>1. M[j] = X(u) /\ u \in z .. m - 1
        BY <1>12, <1>14, <2>2, <2>5, <3>4
      <4>2. t \in z .. m - 1
        BY <1>2, <2>6, <4>1
      <4>3. Before(source, Y(p), X(t))
        BY <3>1, <4>2
      <4>4. Y(p) \in Nat /\ X(t) \in Nat /\ X(u) \in Nat
        BY <1>3, <1>4, <3>1, <4>1, <4>2
      <4>5. t = u \/ t < u
        BY <1>2, <2>6
      <4>6. t < u => Before(source, X(t), X(u))
        BY <1>3, <4>1, <4>2
      <4>7. t < u => Before(source, Y(p), X(u))
        BY <1>16, <4>3, <4>4, <4>6
      <4> QED
        BY <3>1, <4>1, <4>3, <4>5, <4>7
    <3> QED
      BY <3>3, <3>4
  <2> QED
    BY <2>8, <2>9
<1>18. M \in [1 .. n -> 0 .. n - 1]
  <2> DEFINE v(r) == IF next(r - 1) THEN X(Q(r - 1)) ELSE Y(P(r - 1))
  <2>1. M = [r \in 1 .. n |-> v(r)]
    BY <1>6
  <2> HIDE DEF v
  <2> QED
    BY <1>15, <2>1
<1>19. n = Len(source)
  BY DEF n
<1>20. IsSuffixArray(source, M)
  BY <1>11, <1>17, <1>18, <1>19, OrderIsSuffixArray
<1> QED
  BY <1>20 DEF M, SA0, s12

-----------------------------------------------------------------------------
(* The recursion.                                                          *)

\* The names of a text's sample positions.
NamesOf(source) == Names(source, SortedSample(source))

Merged(source, SA12) == Merge(source, SortedRest(source, SA12), SA12, Ranks(SA12))

\* The body of suffixArray(), with g for the call it makes of itself.
Dc3Body(g, source) ==
  Merged(source, IF Unique(NamesOf(source)) THEN InNameOrder(NamesOf(source)) ELSE g[NamesOf(source)])

\* If the recursion gives an array, the call gives one.
LEMMA BodyIsArray ==
  ASSUME NEW source \in Array, NEW g,
         ~Unique(NamesOf(source)) => g[NamesOf(source)] \in Array
  PROVE  Dc3Body(g, source) \in Array
<1> DEFINE named == NamesOf(source)
           SA12 == IF Unique(named) THEN InNameOrder(named) ELSE g[named]
<1>1. named \in ZeroFree /\ named \in Array
  <2>1. named \in ZeroFree
    BY NamesAreText DEF NamesOf
  <2> QED
    BY <2>1 DEF ZeroFree, Array
<1>2. ASSUME Unique(named) PROVE InNameOrder(named) \in Array
  <2>1. IsSuffixArray(named, InNameOrder(named))
    BY <1>2, UniqueNames DEF NamesOf
  <2> QED
    BY <1>1, <2>1, RanksOfArray
<1>3. SA12 \in Array
  BY <1>1, <1>2
<1>4. Dc3Body(g, source) = Merged(source, SA12)
  BY DEF Dc3Body
<1> HIDE DEF SA12
<1>5. SortedRest(source, SA12) \in Array
  BY <1>3, RestIsArray
<1>6. Merged(source, SA12) \in Array
  BY <1>3, <1>5, MergeIsArray DEF Merged
<1> QED
  BY <1>4, <1>6

\* Names that are not unique are fewer than the text's bytes, so the recursion ends.
LEMMA NamesAreFewer ==
  ASSUME NEW source \in Array, ~Unique(NamesOf(source))
  PROVE  /\ NamesOf(source) \in ZeroFree /\ NamesOf(source) \in Array
         /\ Len(NamesOf(source)) < Len(source) /\ Len(NamesOf(source)) > 1
<1> DEFINE named == NamesOf(source)
<1>0. PICK n \in Nat : n = Len(source)
  BY DEF Array
<1>1. named \in ZeroFree /\ Len(named) = n02(n) /\ n02(n) \in Nat
  BY <1>0, NamesAreText DEF NamesOf
<1>2. named \in Array
  BY <1>1 DEF ZeroFree, Array
<1>3. Len(named) > 1
  <2>1. PICK q \in 1 .. Len(named), r \in 1 .. Len(named) : q # r
    BY DEF Unique
  <2> HIDE DEF named
  <2> QED
    BY <1>1, <2>1
<1>4. n > 1
  <2> HIDE DEF named
  <2>1. PICK a \in Nat :
              \/ n = 3 * a /\ n02(n) = 2 * a
              \/ n = 3 * a + 1 /\ n02(n) = 2 * a + 1
              \/ n = 3 * a + 2 /\ n02(n) = 2 * a + 1
    BY SampleSizes
  <2> QED
    BY <1>1, <1>3, <2>1
<1>5. n02(n) < n
  BY <1>4, Halves
<1> QED
  BY <1>0, <1>1, <1>2, <1>3, <1>5

\* The recursion goes to shorter arrays, so it defines a function; it is what
\* its body makes of it.
LEMMA Dc3IsItsBody ==
  /\ Dc3 \in [Array -> Array]
  /\ \A source \in Array : Dc3[source] = Dc3Body(Dc3, source)
<1> DEFINE m == [s \in Array |-> Len(s)]
           V == [Array -> Array]
           F == [g \in V |-> [s \in Array |-> Dc3Body(g, s)]]
           Made(f) == f = [s \in Array |-> Dc3Body(f, s)]
           C == CHOOSE f : Made(f)
<1>1. m \in [Array -> Nat]
  BY DEF Array
<1>2. F \in [V -> V]
  <2>1. \A g \in V : \A s \in Array : Dc3Body(g, s) \in Array
    <3>1. ASSUME NEW g \in V, NEW s \in Array PROVE Dc3Body(g, s) \in Array
      <4>1. ~Unique(NamesOf(s)) => g[NamesOf(s)] \in Array
        BY NamesAreFewer
      <4> QED
        BY <4>1, BodyIsArray
    <3> QED
      BY <3>1
  <2>2. \A g \in V : [s \in Array |-> Dc3Body(g, s)] \in V
    BY <2>1
  <2> QED
    BY <2>2
<1>3. \A g \in V : \A s \in Array : F[g][s] = Dc3Body(g, s)
  OBVIOUS
<1>4. LooksBelow(Array, Array, m, F)
  <2>1. ASSUME NEW g \in V, NEW h \in V, NEW s \in Array, \A y \in Array : m[y] < m[s] => g[y] = h[y]
        PROVE  F[g][s] = F[h][s]
    <3>1. ~Unique(NamesOf(s)) => g[NamesOf(s)] = h[NamesOf(s)]
      <4>1. ASSUME ~Unique(NamesOf(s)) PROVE g[NamesOf(s)] = h[NamesOf(s)]
        <5>1. NamesOf(s) \in Array /\ Len(NamesOf(s)) < Len(s)
          BY <4>1, NamesAreFewer
        <5>2. m[NamesOf(s)] = Len(NamesOf(s)) /\ m[s] = Len(s)
          BY <5>1
        <5> QED
          BY <2>1, <5>1, <5>2
      <4> QED
        BY <4>1
    <3>2. Dc3Body(g, s) = Dc3Body(h, s)
      BY <3>1, Zenon DEF Dc3Body
    <3> QED
      BY <1>3, <3>2
  <2> HIDE DEF F, m
  <2> QED
    BY <2>1, Zenon DEF LooksBelow
<1>5. V # {}
  <2>1. [s \in Array |-> s] \in V
    OBVIOUS
  <2> QED
    BY <2>1
<1>6. ByRecursion(Array, Array, m, F)
  BY <1>1, <1>2, <1>4, <1>5, Zenon DEF ByRecursion
<1>7. PICK f \in V : F[f] = f
  <2> HIDE DEF F, m
  <2>1. Defined(Array, Array, F)
    BY <1>6, Recursion
  <2> QED
    BY <2>1 DEF Defined
<1>8. Made(f)
  BY <1>7
<1>9. Made(C)
  BY <1>8, Zenon
<1>10. Dc3 = C
  BY DEF Dc3, Dc3Body, Merged, Unique, InNameOrder, NamesOf
<1> HIDE DEF C
<1>11. Dc3 = [s \in Array |-> Dc3Body(Dc3, s)]
  BY <1>9, <1>10, Zenon
<1>12. ASSUME NEW s \in Array PROVE Dc3[s] = Dc3Body(Dc3, s)
  BY <1>11
<1>13. ASSUME NEW s \in Array PROVE Dc3[s] \in Array
  <2> DEFINE Bad == {x \in Array : Dc3[x] \notin Array}
             Sizes == {Len(x) : x \in Bad}
  <2>1. SUFFICES ASSUME Bad # {} PROVE FALSE
    OBVIOUS
  <2>2. Sizes \in SUBSET Nat /\ Sizes # {}
    <3>1. \A x \in Bad : Len(x) \in Nat
      BY DEF Array
    <3> QED
      BY <2>1, <3>1
  <2>3. PICK k \in Sizes : \A l \in Sizes : k <= l
    <3> HIDE DEF Sizes
    <3> QED
      BY <2>2, Smallest
  <2>4. PICK x \in Bad : Len(x) = k
    BY <2>3
  <2>5. ~Unique(NamesOf(x)) => Dc3[NamesOf(x)] \in Array
    <3>1. ASSUME ~Unique(NamesOf(x)) PROVE Dc3[NamesOf(x)] \in Array
      <4>1. PICK y \in Array : y = NamesOf(x) /\ Len(y) < Len(x) /\ Len(y) \in Nat
        <5>1. NamesOf(x) \in Array /\ Len(NamesOf(x)) < Len(x)
          BY <3>1, NamesAreFewer
        <5> QED
          BY <5>1 DEF Array
      <4>2. y \in Bad => k <= Len(y)
        BY <2>3
      <4>3. y \notin Bad
        BY <2>2, <2>4, <4>1, <4>2
      <4> QED
        BY <4>1, <4>3
    <3> QED
      BY <3>1
  <2>6. Dc3Body(Dc3, x) \in Array
    BY <2>5, BodyIsArray
  <2> QED
    BY <1>12, <2>6
<1> QED
  BY <1>11, <1>12, <1>13

\* DC3 sorts the suffixes of every text but those of one byte.
LEMMA Dc3IsSuffixArray ==
  ASSUME NEW t \in ZeroFree, Len(t) # 1
  PROVE  IsSuffixArray(t, Dc3[t])
<1> DEFINE Bad == {x \in ZeroFree : Len(x) # 1 /\ ~IsSuffixArray(x, Dc3[x])}
           Sizes == {Len(x) : x \in Bad}
<1>1. SUFFICES ASSUME Bad # {} PROVE FALSE
  OBVIOUS
<1>2. Sizes \in SUBSET Nat /\ Sizes # {}
  <2>1. \A x \in Bad : Len(x) \in Nat
    BY DEF ZeroFree
  <2> QED
    BY <1>1, <2>1
<1>3. PICK k \in Sizes : \A l \in Sizes : k <= l
  <2> HIDE DEF Sizes
  <2> QED
    BY <1>2, Smallest
<1>4. PICK x \in Bad : Len(x) = k
  BY <1>3
<1>5. x \in ZeroFree /\ x \in Array /\ Len(x) # 1 /\ Len(x) \in Nat
  BY DEF ZeroFree, Array
<1> DEFINE named == NamesOf(x)
           SA12 == IF Unique(named) THEN InNameOrder(named) ELSE Dc3[named]
<1>6. ASSUME ~Unique(named) PROVE IsSuffixArray(named, Dc3[named])
  <2>1. /\ named \in ZeroFree /\ Len(named) \in Nat /\ Len(named) # 1 /\ Len(named) < k
    <3>1. /\ named \in ZeroFree /\ Len(named) < Len(x) /\ Len(named) > 1
      BY <1>5, <1>6, NamesAreFewer
    <3> HIDE DEF named
    <3>2. Len(named) \in Nat
      BY <3>1 DEF ZeroFree
    <3>3. PICK l \in Nat : l = Len(named)
      BY <3>2
    <3>4. l < k /\ l > 1
      BY <1>4, <3>1, <3>3
    <3>5. l # 1
      BY <3>4
    <3> QED
      BY <3>1, <3>3, <3>4, <3>5
  <2> HIDE DEF named
  <2>2. named \in Bad => k <= Len(named)
    BY <1>3
  <2>3. named \notin Bad
    BY <1>4, <1>5, <2>1, <2>2
  <2> QED
    BY <2>1, <2>3
<1>7. ASSUME Unique(named) PROVE IsSuffixArray(named, InNameOrder(named))
  BY <1>5, <1>7, UniqueNames DEF NamesOf
<1>8. IsSuffixArray(named, SA12)
  BY <1>6, <1>7
<1>9. Dc3[x] = Merged(x, SA12)
  BY <1>5, Dc3IsItsBody DEF Dc3Body
<1> HIDE DEF SA12
<1>10. IsSuffixArray(x, Merged(x, SA12))
  BY <1>5, <1>8, MergeSorts DEF NamesOf, Merged
<1> QED
  BY <1>9, <1>10

\* For a text of one byte the merge takes the dummy: the array is <<1>>, which is
\* no offset of the text.
LEMMA Dc3OfOneByte ==
  ASSUME NEW t \in ZeroFree, Len(t) = 1
  PROVE  Dc3[t] = <<1>>
<1> DEFINE named == NamesOf(t)
           SA12 == InNameOrder(named)
           SA0 == SortedRest(t, SA12)
           s12 == Ranks(SA12)
           T == Turns(t, SA0, SA12, s12)
<1>1. t \in Array
  BY DEF ZeroFree, Array
<1>2. n0(1) = 1 /\ n1(1) = 0 /\ n02(1) = 1
  BY DEF n0, n1, n02
<1>3. named \in ZeroFree /\ Len(named) = 1
  BY <1>1, <1>2, NamesAreText DEF NamesOf
<1>4. Unique(named)
  BY <1>3 DEF Unique
<1>5. IsSuffixArray(named, SA12)
  BY <1>1, <1>4, UniqueNames DEF NamesOf
<1>6. Dc3[t] = Merged(t, SA12)
  BY <1>1, <1>4, Dc3IsItsBody DEF Dc3Body
<1>7. Len(SA12) = 1 /\ SA12 \in Array
  BY <1>3, <1>5, RanksOfArray
<1>8. Byte(SA12, 1) = 0
  BY <1>7 DEF Byte
<1>9. Lists(SA0, RestOf(1)) /\ Len(SA0) = 1
  <2>1. Len(t) = 1
    OBVIOUS
  <2>2. IsSuffixArray(Names(t, SortedSample(t)), SA12)
    BY <1>5 DEF NamesOf
  <2> HIDE DEF SA12
  <2> QED
    BY <1>2, <2>1, <2>2, RestIsSorted
<1>10. Byte(SA0, 0) = 0
  <2>1. Byte(SA0, 0) = SA0[1] /\ SA0[1] \in RestOf(1)
    BY <1>9 DEF Byte, Lists
  <2>2. RestOf(1) = {0}
    BY DEF RestOf
  <2> QED
    BY <2>1, <2>2
<1>11. AtStart(T, 1)
  <2>1. 1 = Len(t)
    OBVIOUS
  <2> QED
    BY <1>1, <2>1, TurnByTurn
<1>12. T[0] = <<0, 1>>
  BY <1>2, <1>11 DEF AtStart
<1>13. Offset12(0, 1) = 1
  BY <1>2 DEF Offset12
<1>14. SampleFirst(t, s12, 0, 0)
  <2> DEFINE a == <<Byte(t, 1), Byte(s12, 0 + 1)>>
             b == <<Byte(t, 0), Byte(s12, 0 \div 3)>>
  <2>1. Byte(t, 1) = 0 /\ Byte(t, 0) \in Nat /\ Byte(t, 0) # 0
    <3>1. 0 \in Nat /\ 1 \in Nat /\ 1 >= Len(t) /\ ~(0 >= Len(t))
      OBVIOUS
    <3> QED
      BY <3>1, BytesOfText, Zenon
  <2>2. a[1] < b[1] /\ DOMAIN a = 1 .. 2 /\ 1 .. 1 - 1 = {}
    BY <2>1
  <2> HIDE DEF a, b
  <2>3. Leq(a, b)
    BY <2>2 DEF Leq
  <2>4. n0(Len(t)) = 1 /\ Offset12(0, Len(t)) = 1 /\ 0 < 1
    BY <1>2, <1>13
  <2> QED
    BY <2>3, <2>4, Zenon DEF SampleFirst, a, b
<1>15. SampleNext(t, SA0, SA12, s12, 0, 1, 0)
  BY <1>8, <1>10, <1>14, Zenon DEF SampleNext
<1> DEFINE v(r) == IF SampleNext(t, SA0, SA12, s12, T[r - 1][1], T[r - 1][2], r - 1)
                   THEN Offset12(Byte(SA12, T[r - 1][2]), Len(t))
                   ELSE Byte(SA0, T[r - 1][1])
<1>16. Merged(t, SA12) = [r \in 1 .. Len(t) |-> v(r)]
  BY DEF Merged, Merge
<1>17. v(1) = 1
  <2>1. T[1 - 1] = <<0, 1>> /\ 1 - 1 = 0
    BY <1>12
  <2>2. T[1 - 1][1] = 0 /\ T[1 - 1][2] = 1
    BY <2>1
  <2>3. SampleNext(t, SA0, SA12, s12, T[1 - 1][1], T[1 - 1][2], 1 - 1)
    BY <1>15, <2>1, <2>2, Zenon
  <2>4. Offset12(Byte(SA12, T[1 - 1][2]), Len(t)) = 1
    BY <1>8, <1>13, <2>2, Zenon
  <2> QED
    BY <2>3, <2>4
<1> HIDE DEF v
<1>18. [r \in 1 .. Len(t) |-> v(r)] = <<1>>
  BY <1>17
<1> QED
  BY <1>6, <1>16, <1>18

\* DC3 makes the array std::sort and strcmp make, for every text of bytes but
\* those of one byte (string.cc, suffixArray).
THEOREM Dc3Sorts ==
  \A t \in ZeroFree : Dc3[t] = IF Len(t) = 1 THEN <<1>> ELSE SortedSuffixes(t)
<1>1. ASSUME NEW t \in ZeroFree, Len(t) # 1 PROVE Dc3[t] = SortedSuffixes(t)
  <2>1. IsSuffixArray(t, Dc3[t])
    BY <1>1, Dc3IsSuffixArray
  <2>2. IsSuffixArray(t, SortedSuffixes(t))
    BY SortedIsSuffixArray
  <2> QED
    BY <2>1, <2>2, OneSuffixArray
<1> QED
  BY <1>1, Dc3OfOneByte
===============================================================================
