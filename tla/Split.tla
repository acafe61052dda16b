--------------------------------- MODULE Split ---------------------------------
(***************************************************************************)
(* The three ways libaan splits a string (libaan/string.cc): split2() of a *)
(* std::string by a string, split() of a view into a C string by a string, *)
(* and split() of a view by a char.  A delimiter that is a view may be the *)
(* beginning of a longer C string.  Offsets count from 0.                  *)
(***************************************************************************)
EXTENDS Integers, Sequences, FiniteSets

CONSTANTS SplitTexts, \* strings to split: as far as their final 0
          Delimiters  \* C strings to split by, or by a beginning of

ASSUME SplitAssumption ==
  /\ \A t \in SplitTexts : t \in Seq(Nat \ {0})
  /\ \A d \in Delimiters : d \in Seq(Nat \ {0})

VARIABLES
  splitting,   \* whether a call is in its loop
  kind,        \* "string", "view" or "char"
  memory, viewed, \* the C string, and how much of it the view has
  needle, delim,  \* the C string of the delimiter, and what the view has of it
  from, rest,  \* where the next search begins; len of the search for a char
  tokens       \* offsets and lengths

dvars == <<splitting, kind, memory, viewed, needle, delim, from, rest, tokens>>

-----------------------------------------------------------------------------
\* One call; the functions keep no state.  A std::string is seen as a whole, and
\* an empty delimiter gives no tokens.
SplitInit ==
  /\ kind \in {"string", "view", "char"}
  /\ memory \in SplitTexts /\ needle \in Delimiters
  /\ delim \in {SubSeq(needle, 1, l) : l \in 0 .. Len(needle)}
  /\ kind # "view" => delim = needle
  /\ viewed \in 0 .. Len(memory)
  /\ kind = "string" => viewed = Len(memory)
  /\ kind = "char" => Len(delim) = 1
  /\ splitting = (delim # <<>>)
  /\ from = 0 /\ rest = viewed /\ tokens = <<>>

\* std::string::find goes as far as the string, strstr as far as its 0, and
\* memchr as far as it is told.
SearchEnd == IF kind = "char" THEN from + rest ELSE Len(memory)

OccursAt(d, p) == p + Len(d) <= Len(memory) /\ SubSeq(memory, p + 1, p + Len(d)) = d

\* strstr looks for delim.s as far as that goes, whatever delim.l is.
Found == {p \in from .. SearchEnd - Len(needle) : OccursAt(needle, p)}

First == CHOOSE p \in Found : \A q \in Found : p <= q

\* What len loses with a token and its delimiter.
Passed == (First - from) + 1

WithToken(length) == IF length > 0 THEN Append(tokens, <<from, length>>) ELSE tokens

\* Mutated form: it is not looked at where the delimiter is.
Anywhere == FALSE

\* if(end > max)
Behind == kind = "view" /\ First > viewed

\* A delimiter behind the view ends the loop.
BehindView ==
  /\ splitting /\ Found # {} /\ Behind
  /\ splitting' = FALSE
  /\ UNCHANGED <<kind, memory, viewed, needle, delim, from, rest, tokens>>

NextToken ==
  /\ splitting /\ Found # {} /\ ~Behind
  /\ tokens' = WithToken(First - from)
  /\ from' = First + Len(delim)
  /\ rest' = IF kind = "char" THEN rest - Passed ELSE rest
  /\ UNCHANGED <<splitting, kind, memory, viewed, needle, delim>>

\* No delimiter is left; the last match may have ended behind the view.
LastToken ==
  /\ splitting /\ Found = {}
  /\ splitting' = FALSE
  /\ tokens' = WithToken(IF kind = "char" THEN rest ELSE viewed - from)
  /\ UNCHANGED <<kind, memory, viewed, needle, delim, from, rest>>

SplitNext == BehindView \/ NextToken \/ LastToken

SplitSpec == SplitInit /\ [][SplitNext]_dvars

-----------------------------------------------------------------------------
(* Properties.                                                             *)

\* Every variable has its type: no search begins behind the string's 0.
SplitTypeOK ==
  /\ splitting \in BOOLEAN /\ kind \in {"string", "view", "char"}
  /\ memory \in Seq(Nat \ {0}) /\ needle \in Seq(Nat \ {0}) /\ delim \in Seq(Nat \ {0})
  /\ viewed \in 0 .. Len(memory) /\ from \in 0 .. Len(memory) /\ rest \in 0 .. viewed
  /\ tokens \in Seq(Nat \X Nat)

\* Reference: a delimiter counts where it occurs inside the view, and does not
\* overlap one that counts before it.
CountsAt(p) ==
  LET counts[q \in 0 .. viewed] ==
        /\ q + Len(delim) <= viewed /\ OccursAt(delim, q)
        /\ \A r \in 0 .. q - 1 : r + Len(delim) > q => ~counts[r]
  IN  counts[p]

\* What is between two delimiters, or the ends, and is not empty.
Tokens ==
  LET ends == {p \in 0 .. viewed : p = viewed \/ CountsAt(p)}
      begins == {0} \cup {p + Len(delim) : p \in ends \ {viewed}}
  IN  {<<x[1], x[2] - x[1]>> : x \in
         {x \in begins \X ends : x[1] < x[2] /\ \A p \in ends : p < x[1] \/ p >= x[2]}}

\* The tokens are those of the reference, in order.
AllOf(given) ==
  /\ \A i, j \in DOMAIN tokens : i < j => tokens[i][1] < tokens[j][1]
  /\ given = Tokens

Given == {tokens[i] : i \in DOMAIN tokens}
Done == ~splitting /\ delim # <<>>

\* Not so of a delimiter that is the beginning of a longer C string: split() looks
\* for all of that string, and so finds fewer delimiters, or none.
WholeDelimiter == needle = delim

\* Splitting a std::string, or a view that goes to the end of its C string, or
\* any view by a char, gives what lies between the delimiters, no more, no less.
TokensAreFound ==
  Done /\ WholeDelimiter /\ (kind # "view" \/ viewed = Len(memory)) => AllOf(Given)

\* Splitting a view by a string looks for delimiters behind the view's end too.
\* What it may lose that way is its last token, or a part of that at the end.
OnlyLastIsCut ==
  Done /\ WholeDelimiter =>
    /\ \A t \in Tokens : t[1] + t[2] < viewed => t \in Given
    /\ \A t \in Given \ Tokens :
         \E u \in Tokens : u[1] = t[1] /\ t[2] < u[2] /\ u[1] + u[2] = viewed

\* No token reaches behind the view, whatever is found there, and whatever of the
\* delimiter was looked for.
InsideView == \A t \in Given : t[1] + t[2] <= viewed

\* Each of the three ways to split gives the tokens there are, if the delimiter is
\* a whole C string; of any other at least no token behind the view.
TokensAreRight == TokensAreFound /\ OnlyLastIsCut /\ InsideView
=============================================================================
