------------------------------ MODULE RandomText ------------------------------
(***************************************************************************)
(* libaan::read_random_ascii_set (libaan/crypto.cc) and ranf (crypto.hh):  *)
(* draw numbers between the smallest and the largest character of a set,   *)
(* keep those in the set, until the text is full.                          *)
(***************************************************************************)
EXTENDS Integers, Sequences, FiniteSetsExt

CONSTANTS Alphabet,   \* character codes
          TextLengths \* values of count

ASSUME AlphabetAssumption == Alphabet \subseteq 1 .. 127 /\ TextLengths \subseteq Nat

VARIABLES
  drawing,     \* whether a call is in its loop
  want, chars, \* count and set
  fill, bytes,
  fresh        \* history: places written in this call

tvars == <<drawing, want, chars, fill, bytes, fresh>>

-----------------------------------------------------------------------------
\* A real from [min, max), made a char, which cuts off its fraction.
Drawn(set) == IF Min(set) = Max(set) THEN set ELSE Min(set) .. Max(set) - 1

TextInit ==
  /\ drawing = FALSE /\ want = 0 /\ chars = {} /\ fill = 0 /\ fresh = {}
  /\ bytes \in {<<>>, <<0, 0>>}

\* bytes.resize(count), unless there is nothing to do, or to choose from.
CallRandomText(n, set) ==
  /\ ~drawing
  /\ want' = n /\ chars' = set /\ fill' = 0 /\ fresh' = {}
  /\ IF n = 0 \/ set = {}
     THEN UNCHANGED <<drawing, bytes>>
     ELSE /\ drawing' = TRUE
          /\ bytes' = [i \in 1 .. n |-> IF i <= Len(bytes) THEN bytes[i] ELSE 0]

\* Mutated form: the place moves on for every number, kept or not.
EachMoves(missing) == [1 .. missing -> Drawn(chars)]

\* What the numbers looked at may leave, in their order: those that are in the
\* set.  Any of them may be missing, unless all that can be drawn are in it.
Kept(missing) ==
  UNION {[1 .. k -> Drawn(chars) \cap chars] :
           k \in IF Drawn(chars) \subseteq chars THEN {missing} ELSE 0 .. missing}

\* As many numbers as are missing are looked at, of count * 2.
LookedAt == want - fill

DrawTurn ==
  /\ drawing
  /\ \E new \in Kept(LookedAt) :
       /\ fill' = fill + Len(new)
       /\ fresh' = fresh \cup fill + 1 .. fill'
       /\ bytes' = [i \in 1 .. Len(bytes) |->
                      IF i \in fill + 1 .. fill' THEN new[i - fill] ELSE bytes[i]]
  /\ drawing' = (fill' < want)
  /\ UNCHANGED <<want, chars>>

TextNext ==
  DrawTurn \/ \E n \in TextLengths, set \in SUBSET Alphabet : CallRandomText(n, set)

\* Numbers are random: one that is in the set comes in the end.
TextSpec == TextInit /\ [][TextNext]_tvars /\ WF_tvars(DrawTurn /\ fill' > fill)

-----------------------------------------------------------------------------
(* Properties.                                                             *)

\* Every variable has its type.
TextTypeOK ==
  /\ drawing \in BOOLEAN /\ want \in Nat /\ fill \in Nat /\ chars \subseteq Alphabet
  /\ bytes \in Seq(Nat) /\ fresh \subseteq Nat

\* A call that had something to do leaves no byte as it was: each is from the
\* set, though never its largest character, if it has more than one; and no
\* byte is written behind the end.
TextIsFromSet ==
  /\ fresh \subseteq 1 .. want
  /\ ~drawing /\ want > 0 /\ chars # {} =>
       /\ Len(bytes) = want /\ fresh = 1 .. want
       /\ \A i \in 1 .. want : bytes[i] \in chars /\ (bytes[i] = Max(chars) => chars = {bytes[i]})

\* However few of the numbers between its ends are in the set, the text is
\* filled: the smallest character is always among those drawn.
TextIsFilled == drawing ~> ~drawing
=============================================================================
