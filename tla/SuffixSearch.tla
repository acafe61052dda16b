----------------------------- MODULE SuffixSearch -----------------------------
(***************************************************************************)
(* The four ways libaan/string.cc searches a text for all occurrences of a *)
(* pattern: stl_search_all, which scans, and sarr_cx11, sarr_c, sarr_dc3,  *)
(* which look up a suffix array.  A searcher is built once and asked for   *)
(* patterns, one after another.                                            *)
(***************************************************************************)
EXTENDS SuffixArray

CONSTANTS
  Engines,     \* subset of AllEngines: the searchers the text is given to
  Texts,       \* texts
  Patterns,    \* patterns
  SizeModulus  \* a size_t holds 0 .. SizeModulus - 1

AllEngines == {"stl", "cx11", "c", "dc3"}

\* sarr_c keeps its offsets in int, the two others in size_t.
SizeEngines == {"cx11", "dc3"}

ASSUME SearchAssumption ==
  /\ Engines \subseteq AllEngines
  /\ Texts \subseteq Seq(1 .. 255)
  /\ Patterns \subseteq Seq(1 .. 255)
  /\ SizeModulus \in Nat
  /\ \A t \in Texts : 3 * Len(t) + 3 < SizeModulus

VARIABLES
  engine, text,  \* which searcher, and of which text
  sa,            \* its suffix array
  pc,            \* "new", "ready", inside search(), or "wild": undefined behaviour
  pat,           \* the pattern asked for
  left, right,   \* bounds of the binary search; stl: left is where find() goes on
  mid, idx,      \* where the pattern was found, and how far its neighbours were taken
  matches        \* the result

vars == <<engine, text, sa, pc, pat, left, right, mid, idx, matches>>

n == Len(text)

-----------------------------------------------------------------------------
Init ==
  /\ engine \in Engines /\ text \in Texts
  /\ pc = "new" /\ sa = <<>>
  /\ pat = <<>> /\ left = 0 /\ right = 0 /\ mid = 0 /\ idx = 0 /\ matches = <<>>

\* The constructor.
Build ==
  /\ pc = "new"
  /\ CASE engine = "stl" -> pc' = "ready" /\ UNCHANGED sa
       [] engine = "dc3" -> IF Dc3Defined(text)
                            THEN pc' = "ready" /\ sa' = Dc3[text]
                            ELSE pc' = "wild" /\ UNCHANGED sa
       [] OTHER -> pc' = "ready" /\ sa' = SortedSuffixes(text)
  /\ UNCHANGED <<engine, text, pat, left, right, mid, idx, matches>>

\* The patterns that search() returns at once for; stl_search_all only refuses
\* the empty one.
Refused(p) == (engine # "stl" /\ Len(p) > n) \/ p = <<>>

\* Mutated form: the search starts behind the array.
BehindLastRank == n

LastRank == n - 1

\* search(p), up to its loop.
Search(p) ==
  /\ pc \in {"ready", "done"}
  /\ pat' = p /\ matches' = <<>>
  /\ mid' = 0 /\ idx' = 0 /\ left' = 0
  /\ IF Refused(p)
     THEN pc' = "done" /\ right' = 0
     ELSE /\ pc' = IF engine = "stl" THEN "find" ELSE "probe"
          /\ right' = IF engine = "stl" THEN 0 ELSE LastRank
  /\ UNCHANGED <<engine, text, sa>>

\* The suffix of a rank, which counts from 0.
Suffix(r) == sa[r + 1]

\* Where the pattern and the text at an offset first differ, if they do.
Differ(i) == {k \in 0 .. Len(pat) - 1 : Byte(pat, k) # Byte(text, i + k)}

Occurs(i) == Differ(i) = {}

\* std::strncmp(pattern, text + i, pattern_length) < 0
PatternBelow(i) ==
  \E k \in Differ(i) : /\ \A m \in Differ(i) : k <= m
                       /\ Byte(pat, k) < Byte(text, i + k)

\* txt.find(pattern, left): the first occurrence from there on.
StlFind ==
  /\ pc = "find"
  /\ \E i \in left .. n : 
       /\ Occurs(i) /\ \A j \in left .. i - 1 : ~Occurs(j)
       /\ matches' = Append(matches, i)
       /\ left' = i + 1
  /\ UNCHANGED <<engine, text, sa, pc, pat, right, mid, idx>>

StlExhausted ==
  /\ pc = "find"
  /\ \A i \in left .. n : ~Occurs(i)
  /\ pc' = "done"
  /\ UNCHANGED <<engine, text, sa, pat, left, right, mid, idx, matches>>

\* Mutated form: the middle is rounded up, behind the last rank in the end.
MiddleUp == left + (right - left) \div 2 + 1

Middle == left + (right - left) \div 2

\* right = mid - 1, in the engine's integer type.
BelowMiddle(m) == IF engine \in SizeEngines THEN (m - 1) % SizeModulus ELSE m - 1

\* Mutated form: the middle is kept in the upper half.
FromMiddle(m) == m

AboveMiddle(m) == m + 1

\* One turn of the binary search.
Probe ==
  /\ pc = "probe" /\ left <= right
  /\ mid' = Middle
  /\ IF mid' >= n
     THEN pc' = "wild" /\ UNCHANGED <<left, right, idx, matches>>
     ELSE \/ /\ Occurs(Suffix(mid'))
             /\ matches' = <<Suffix(mid')>> /\ idx' = mid' /\ pc' = "after"
             /\ UNCHANGED <<left, right>>
          \/ /\ PatternBelow(Suffix(mid'))
             /\ right' = BelowMiddle(mid')
             /\ UNCHANGED <<left, pc, idx, matches>>
          \/ /\ ~Occurs(Suffix(mid')) /\ ~PatternBelow(Suffix(mid'))
             /\ left' = AboveMiddle(mid')
             /\ UNCHANGED <<right, pc, idx, matches>>
  /\ UNCHANGED <<engine, text, sa, pat>>

NotFound ==
  /\ pc = "probe" /\ left > right
  /\ pc' = "done"
  /\ UNCHANGED <<engine, text, sa, pat, left, right, mid, idx, matches>>

\* Mutated form: the last suffix of the array is not looked at.
LastLeftOut(i) == i + 1 < n /\ Occurs(Suffix(i))

\* Whether the suffix of a rank is there and starts with the pattern.
Matching(i) == i < n /\ Occurs(Suffix(i))

\* The neighbours behind the middle.
CollectAfter ==
  /\ pc = "after"
  /\ IF Matching(idx + 1)
     THEN /\ matches' = Append(matches, Suffix(idx + 1)) /\ idx' = idx + 1
          /\ UNCHANGED pc
     ELSE pc' = "before" /\ idx' = mid /\ UNCHANGED matches
  /\ UNCHANGED <<engine, text, sa, pat, left, right, mid>>

\* The neighbours before it.
CollectBefore ==
  /\ pc = "before"
  /\ IF idx > 0 /\ Matching(idx - 1)
     THEN /\ matches' = Append(matches, Suffix(idx - 1)) /\ idx' = idx - 1
          /\ UNCHANGED pc
     ELSE pc' = "done" /\ UNCHANGED <<idx, matches>>
  /\ UNCHANGED <<engine, text, sa, pat, left, right, mid>>

Continue == StlFind \/ StlExhausted \/ Probe \/ NotFound \/ CollectAfter \/ CollectBefore

Next == Build \/ Continue \/ \E p \in Patterns : Search(p)

\* A call that was entered runs on.
Spec == Init /\ [][Next]_vars /\ WF_vars(Continue)

-----------------------------------------------------------------------------
(* Properties.                                                             *)

\* Every variable has its type; the array has a rank for each offset.
TypeOK ==
  /\ engine \in Engines /\ text \in Texts /\ pat \in Seq(Nat \ {0})
  /\ sa \in Seq(Nat) /\ matches \in Seq(Nat)
  /\ pc \in {"new", "ready", "find", "probe", "after", "before", "done", "wild"}
  /\ pc = "new" \/ engine = "stl" \/ Len(sa) = n \/ (pc = "wild" /\ sa = <<>>)
  /\ left \in Nat /\ right \in -1 .. SizeModulus - 1 /\ mid \in Nat /\ idx \in Nat

\* DC3, with its recursion on names and its merge, orders the suffixes as
\* strcmp does: the engines keep the same array.  Its comment requires two
\* bytes at least; of one byte it makes an array that names the text's end.
Dc3SortsSuffixes ==
  engine = "dc3" /\ pc = "ready" =>
    sa = IF n = 1 THEN <<1>> ELSE SortedSuffixes(text)

\* search() returns each occurrence of the pattern, and nothing twice, in all
\* engines and whatever was searched before (string.hh: "all indices in
\* input_text where pattern can be found"); DC3 with one byte is the exception.
FindsAllOccurrences ==
  pc = "done" /\ ~(engine = "dc3" /\ n = 1) =>
    /\ \A i \in Offsets(text) :
         (pat # <<>> /\ Occurs(i)) <=> \E m \in DOMAIN matches : matches[m] = i
    /\ \A a, b \in DOMAIN matches : a # b => matches[a] # matches[b]

\* A search leaves the array only in an engine that counts in size_t, and only
\* for a pattern below every suffix, where right falls from 0 to the largest
\* value; the constructor only if DC3 meets a negative char.
WildOnlyBelowAll ==
  pc = "wild" =>
    \/ engine = "dc3" /\ ~Dc3Defined(text)
    \/ engine \in SizeEngines /\ \A i \in Offsets(text) : PatternBelow(i)

\* The binary search of sarr_c, in int, never leaves its array.
IntSearchStaysInside == engine = "c" => pc # "wild"

\* Every search ends, unless its behaviour is undefined.
SearchReturns == pc \in {"find", "probe", "after", "before"} ~> pc \in {"done", "wild"}

\* A search for what is not in the text ends behind its loop with an empty
\* result (string.cc: "We reach here if return statement in loop is not
\* executed").
AbsentPatternGivesNothing ==
  pc \in {"done", "wild"} /\ (\A i \in Offsets(text) : ~Occurs(i)) =>
    pc = "done" /\ matches = <<>>
=============================================================================
