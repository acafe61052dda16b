----------------------------- MODULE TerminalProofs -----------------------------
(***************************************************************************)
(* The terminal, for any number of objects and whichever calls fail: raw   *)
(* mode ends as it began, and no resize is lost by terminal_size.          *)
(***************************************************************************)
EXTENDS RawMode, TerminalSize, SequenceTheorems, TLAPS

-----------------------------------------------------------------------------
(* Raw mode.                                                               *)

\* Only objects that exist say that they are in raw mode.
StateOfLiving == \A o \in Objects : state[o] => Exists(o)

\* While lifetimes nest, the first object keeps what the terminal was before.
FirstKeepsModes ==
  mishaps \cap {"disorder", "unrestored"} = {} =>
    IF alive = << >> THEN mode["ctty"] = "cooked" ELSE saved[alive[1]] \in {"cooked", "unset"}

\* No terminal has modes that never were any, until they are written.
NoGarbage ==
  "unsaved" \notin mishaps =>
    /\ \A t \in Terminals : mode[t] # "garbage"
    /\ \A o \in Objects : saved[o] # "garbage"

\* An object made while another has set raw mode has saved raw mode, if
\* anything.
SavedIsRaw ==
  mishaps \cap {"disorder", "unsaved"} = {} /\ stdin = "ctty" =>
    \A i, j \in DOMAIN alive :
      i < j /\ state[alive[i]] => saved[alive[j]] \in {"raw", "unset"}

RawInv == RawTypeOK /\ StateOfLiving /\ FirstKeepsModes /\ NoGarbage /\ SavedIsRaw /\ StaysRaw

\* A sequence without its i-th element.
LEMMA RemovedOne ==
  ASSUME NEW S, NEW s \in Seq(S), NEW i \in 1 .. Len(s)
  PROVE  /\ SeqExt!RemoveAt(s, i) \in Seq(S)
         /\ Len(SeqExt!RemoveAt(s, i)) = Len(s) - 1
         /\ \A j \in 1 .. Len(s) - 1 :
              SeqExt!RemoveAt(s, i)[j] = IF j < i THEN s[j] ELSE s[j + 1]
<1> DEFINE a == SubSeq(s, 1, i - 1)
           b == SubSeq(s, i + 1, Len(s))
<1>1. Len(s) \in Nat /\ i \in Int
  BY LenProperties
<1>2. /\ \A j \in 1 .. i - 1 : s[j] \in S
      /\ \A j \in i + 1 .. Len(s) : s[j] \in S
  BY <1>1, ElementOfSeq
<1>3. /\ a \in Seq(S) /\ Len(a) = i - 1
      /\ \A j \in 1 .. i - 1 : a[j] = s[j]
  BY <1>1, <1>2, SubSeqProperties
<1>4. b \in Seq(S) /\ Len(b) = Len(s) - i
  BY <1>1, <1>2, SubSeqProperties
<1>5. \A j \in 1 .. Len(s) - i : b[j] = s[j + i]
  BY <1>1, <1>2, SubSeqProperties
<1>6. SeqExt!RemoveAt(s, i) = a \o b
  BY DEF SeqExt!RemoveAt
<1> HIDE DEF a, b
<1>a. /\ a \o b \in Seq(S) /\ Len(a \o b) = Len(a) + Len(b)
      /\ \A j \in 1 .. Len(a) + Len(b) :
           (a \o b)[j] = IF j <= Len(a) THEN a[j] ELSE b[j - Len(a)]
  BY <1>3, <1>4, ConcatProperties
<1>b. Len(a) + Len(b) = Len(s) - 1
  BY <1>1, <1>3, <1>4
<1>7. /\ a \o b \in Seq(S) /\ Len(a \o b) = Len(s) - 1
      /\ \A j \in 1 .. Len(s) - 1 : (a \o b)[j] = IF j <= i - 1 THEN a[j] ELSE b[j - (i - 1)]
  BY <1>3, <1>a, <1>b
<1>8. ASSUME NEW j \in 1 .. Len(s) - 1
      PROVE  (a \o b)[j] = IF j < i THEN s[j] ELSE s[j + 1]
  <2>1. CASE j < i
    BY <1>1, <1>3, <1>7, <2>1
  <2>2. CASE ~ (j < i)
    <3>1. (a \o b)[j] = b[j - (i - 1)] /\ j - (i - 1) \in 1 .. Len(s) - i
      BY <1>1, <1>7, <2>2
    <3>2. b[j - (i - 1)] = s[(j - (i - 1)) + i]
      BY <1>5, <3>1
    <3> QED
      BY <1>1, <2>2, <3>1, <3>2
  <2> QED
    BY <2>1, <2>2
<1> QED
  BY <1>6, <1>7, <1>8

\* What leaves modes and objects alone, and does not set state, disturbs nothing.
LEMMA ModesLeft ==
  ASSUME RawInv, UNCHANGED <<stdin, mode, saved, alive, mishaps>>, RawTypeOK',
         \A o \in Objects : state'[o] => state[o]
  PROVE  RawInv'
<1>1. StateOfLiving' /\ StaysRaw'
  BY DEF RawInv, StateOfLiving, StaysRaw, Exists
<1>2. FirstKeepsModes' /\ NoGarbage'
  BY DEF RawInv, FirstKeepsModes, NoGarbage
<1>3. SavedIsRaw'
  <2>1. \A i \in DOMAIN alive : alive[i] \in Objects
    BY DEF RawInv, RawTypeOK
  <2> QED
    BY <2>1 DEF RawInv, SavedIsRaw
<1> QED
  BY <1>1, <1>2, <1>3 DEF RawInv

LEMMA ConstructKeeps ==
  ASSUME RawInv, NEW o \in Objects, Construct(o)
  PROVE  RawInv'
<1> DEFINE n == Len(alive)
<1>1. /\ alive \in Seq(Objects) /\ n \in Nat /\ DOMAIN alive = 1 .. n
      /\ \A i \in 1 .. n : alive[i] \in Objects /\ alive[i] # o
  BY DEF RawInv, RawTypeOK, Construct, Exists
<1>2. /\ alive' \in Seq(Objects) /\ DOMAIN alive' = 1 .. n + 1 /\ alive' # << >>
      /\ \A i \in 1 .. n : alive'[i] = alive[i]
      /\ alive'[n + 1] = o
  BY <1>1, AppendProperties, LenProperties DEF Construct
<1> HIDE DEF n
<1>3. PICK s \in SaveResults :
        /\ saved' = [saved EXCEPT ![o] = s]
        /\ \/ /\ s # "unset" /\ stdin # "none"
              /\ mode' = [mode EXCEPT ![stdin] = Raw(@)]
              /\ state' = [state EXCEPT ![o] = TRUE]
           \/ /\ state' = [state EXCEPT ![o] = FALSE]
              /\ UNCHANGED mode
  BY DEF Construct, Saved, NotSet
<1>4. s \in {mode["ctty"], "unset"} /\ s \in Modes \cup {"unset"}
  BY DEF SaveResults, RawInv, RawTypeOK, Terminals
<1>5. /\ stdin \in Terminals \cup {"none"} /\ mode \in [Terminals -> Modes]
      /\ saved \in [Objects -> Modes \cup {"unset"}] /\ state \in [Objects -> BOOLEAN]
      /\ UNCHANGED <<stdin, input, ended, pc, reader, mishaps>>
  BY DEF RawInv, RawTypeOK, Construct
<1>6. /\ mode' \in [Terminals -> Modes]
      /\ \A t \in Terminals : mode'[t] = mode[t] \/ mode'[t] = Raw(mode[t])
  BY <1>3, <1>5 DEF Raw, Modes
<1>7. RawTypeOK'
  <2>1. \A i, j \in DOMAIN alive' : alive'[i] = alive'[j] => i = j
    BY <1>1, <1>2 DEF RawInv, RawTypeOK
  <2>2. saved' \in [Objects -> Modes \cup {"unset"}] /\ state' \in [Objects -> BOOLEAN]
    BY <1>3, <1>4, <1>5
  <2> QED
    BY <1>2, <1>5, <1>6, <2>1, <2>2 DEF RawInv, RawTypeOK
<1>8. StateOfLiving'
  <2>1. Exists(o)'
    BY <1>1, <1>2 DEF Exists
  <2>2. ASSUME NEW x \in Objects \ {o}, state'[x] PROVE Exists(x)'
    <3>1. state[x]
      BY <1>3, <1>5, <2>2
    <3>2. PICK i \in 1 .. n : alive[i] = x
      BY <1>1, <3>1 DEF RawInv, StateOfLiving, Exists
    <3> QED
      BY <1>1, <1>2, <3>2 DEF Exists
  <2> QED
    BY <2>1, <2>2 DEF StateOfLiving
<1>9. FirstKeepsModes'
  <2> SUFFICES ASSUME mishaps \cap {"disorder", "unrestored"} = {}
               PROVE  saved'[alive'[1]] \in {"cooked", "unset"}
    BY <1>2, <1>5 DEF FirstKeepsModes
  <2>1. CASE alive = << >>
    <3>1. n = 0 /\ mode["ctty"] = "cooked"
      BY <2>1 DEF n, RawInv, FirstKeepsModes
    <3> QED
      BY <1>2, <1>3, <1>4, <1>5, <3>1
  <2>2. CASE alive # << >>
    <3>1. n > 0 /\ saved[alive[1]] \in {"cooked", "unset"}
      BY <1>1, <2>2 DEF n, RawInv, FirstKeepsModes
    <3>2. alive'[1] = alive[1] /\ alive[1] # o /\ alive[1] \in Objects
      BY <1>1, <1>2, <3>1
    <3> QED
      BY <1>3, <1>5, <3>1, <3>2
  <2> QED
    BY <2>1, <2>2
<1>10. NoGarbage'
  <2> SUFFICES ASSUME "unsaved" \notin mishaps
               PROVE  /\ \A t \in Terminals : mode'[t] # "garbage"
                      /\ \A x \in Objects : saved'[x] # "garbage"
    BY <1>5 DEF NoGarbage
  <2>1. \A t \in Terminals : mode[t] # "garbage"
    BY DEF RawInv, NoGarbage
  <2>2. \A x \in Objects : saved[x] # "garbage"
    BY DEF RawInv, NoGarbage
  <2>3. s # "garbage"
    BY <1>4, <2>1 DEF Terminals
  <2> QED
    BY <1>3, <1>5, <1>6, <2>1, <2>2, <2>3 DEF Raw
<1>11. StaysRaw'
  <2> SUFFICES ASSUME mishaps \cap {"disorder", "unsaved"} = {}, NEW x \in Objects, state'[x]
               PROVE  stdin # "none" /\ mode'[stdin] = "raw"
    BY <1>5 DEF StaysRaw
  <2>1. CASE x = o
    <3>1. stdin \in Terminals /\ mode' = [mode EXCEPT ![stdin] = Raw(@)]
      BY <1>3, <1>5, <2>1
    <3>2. mode[stdin] # "garbage"
      BY <3>1 DEF RawInv, NoGarbage
    <3> QED
      BY <1>5, <3>1, <3>2 DEF Raw, Terminals
  <2>2. CASE x # o
    <3>1. state[x]
      BY <1>3, <1>5, <2>2
    <3>2. stdin \in Terminals /\ mode[stdin] = "raw"
      BY <1>5, <3>1 DEF RawInv, StaysRaw
    <3> QED
      BY <1>6, <3>2 DEF Raw, Terminals
  <2> QED
    BY <2>1, <2>2
<1>12. SavedIsRaw'
  <2> SUFFICES ASSUME mishaps \cap {"disorder", "unsaved"} = {}, stdin = "ctty",
                      NEW i \in 1 .. n + 1, NEW j \in 1 .. n + 1, i < j, state'[alive'[i]]
               PROVE  saved'[alive'[j]] \in {"raw", "unset"}
    BY <1>2, <1>5 DEF SavedIsRaw
  <2>1. i \in 1 .. n /\ alive'[i] = alive[i] /\ alive[i] \in Objects /\ alive[i] # o
    BY <1>1, <1>2
  <2>2. state[alive[i]]
    BY <1>3, <1>5, <2>1
  <2>3. CASE j = n + 1
    <3>1. mode["ctty"] = "raw"
      BY <2>1, <2>2 DEF RawInv, StaysRaw
    <3> QED
      BY <1>2, <1>3, <1>4, <1>5, <2>3, <3>1
  <2>4. CASE j # n + 1
    <3>1. j \in 1 .. n /\ alive'[j] = alive[j] /\ alive[j] \in Objects /\ alive[j] # o
      BY <1>1, <1>2, <2>4
    <3>2. saved[alive[j]] \in {"raw", "unset"}
      BY <1>1, <2>1, <2>2, <3>1 DEF RawInv, SavedIsRaw
    <3> QED
      BY <1>3, <1>5, <3>1, <3>2
  <2> QED
    BY <2>3, <2>4
<1> QED
  BY <1>7, <1>8, <1>9, <1>10, <1>11, <1>12 DEF RawInv

\* The object a destructor is called for is the i-th of those alive, the last one
\* if lifetimes nest.
LEMMA DestroyKeeps ==
  ASSUME RawInv, NEW o \in Objects, Destroy(o)
  PROVE  RawInv'
<1> DEFINE n == Len(alive)
<1>1. /\ alive \in Seq(Objects) /\ n \in Nat /\ DOMAIN alive = 1 .. n
      /\ \A i \in 1 .. n : alive[i] \in Objects
      /\ \A i, j \in 1 .. n : alive[i] = alive[j] => i = j
  BY DEF RawInv, RawTypeOK
<1>2. PICK i \in 1 .. n : alive[i] = o /\ alive' = SeqExt!RemoveAt(alive, i)
  BY <1>1 DEF Destroy
<1>3. /\ alive' \in Seq(Objects) /\ DOMAIN alive' = 1 .. n - 1
      /\ \A j \in 1 .. n - 1 : alive'[j] = IF j < i THEN alive[j] ELSE alive[j + 1]
  BY <1>1, <1>2, RemovedOne, LenProperties
<1> HIDE DEF n
<1>4. \A j \in 1 .. n - 1 : alive'[j] \in Objects /\ alive'[j] # o
  BY <1>1, <1>2, <1>3
<1>5. /\ saved' = [saved EXCEPT ![o] = "unset"] /\ state' = [state EXCEPT ![o] = FALSE]
      /\ mishaps \subseteq mishaps'
      /\ UNCHANGED <<stdin, input, ended, pc, reader>>
  BY DEF Destroy
<1>6. \/ /\ \E m \in Restorable(o) : mode' = [mode EXCEPT !["ctty"] = m]
         /\ mishaps' = mishaps \cup Mishaps(o, TRUE)
      \/ /\ mishaps' = mishaps \cup Mishaps(o, FALSE)
         /\ UNCHANGED mode
  BY DEF Destroy
<1>7. /\ mode \in [Terminals -> Modes] /\ "ctty" \in Terminals /\ "tty2" \in Terminals
      /\ saved \in [Objects -> Modes \cup {"unset"}] /\ state \in [Objects -> BOOLEAN]
      /\ stdin \in {"ctty", "tty2", "none"}
  BY DEF RawInv, RawTypeOK, Terminals
<1>8. ASSUME "disorder" \notin mishaps'
      PROVE  i = n /\ \A j \in 1 .. n - 1 : alive'[j] = alive[j]
  <2>1. alive[n] = o
    BY <1>6, <1>8 DEF Mishaps, Youngest, n
  <2>2. i = n
    BY <1>1, <1>2, <2>1
  <2> QED
    BY <1>1, <1>3, <2>2
<1>9. ASSUME "unsaved" \notin mishaps', mode' # mode
      PROVE  saved[o] # "unset" /\ mode' = [mode EXCEPT !["ctty"] = saved[o]]
  BY <1>6, <1>9 DEF Mishaps, Restorable
<1>10. RawTypeOK'
  <2>1. mode' \in [Terminals -> Modes]
    BY <1>6, <1>7 DEF Restorable, Modes
  <2>2. saved' \in [Objects -> Modes \cup {"unset"}] /\ state' \in [Objects -> BOOLEAN]
    BY <1>5, <1>7
  <2>3. mishaps' \subseteq {"disorder", "unsaved", "unrestored"}
    BY <1>6 DEF Mishaps, RawInv, RawTypeOK
  <2>4. \A j, k \in DOMAIN alive' : alive'[j] = alive'[k] => j = k
    BY <1>1, <1>2, <1>3
  <2> QED
    BY <1>3, <1>5, <2>1, <2>2, <2>3, <2>4 DEF RawInv, RawTypeOK
<1>11. StateOfLiving'
  <2> SUFFICES ASSUME NEW x \in Objects, state'[x] PROVE Exists(x)'
    BY DEF StateOfLiving
  <2>1. x # o /\ state[x]
    BY <1>5, <1>7
  <2>2. PICK j \in 1 .. n : alive[j] = x
    BY <1>1, <2>1 DEF RawInv, StateOfLiving, Exists
  <2>3. j # i
    BY <1>2, <2>1, <2>2
  <2>4. CASE j < i
    BY <1>1, <1>3, <2>2, <2>4 DEF Exists
  <2>5. CASE j > i
    <3>1. j - 1 \in 1 .. n - 1 /\ alive'[j - 1] = alive[j]
      BY <1>1, <1>3, <2>5
    <3> QED
      BY <1>3, <2>2, <3>1 DEF Exists
  <2> QED
    BY <1>1, <2>3, <2>4, <2>5
<1>12. FirstKeepsModes'
  <2> SUFFICES ASSUME mishaps' \cap {"disorder", "unrestored"} = {}
               PROVE  IF alive' = << >> THEN mode'["ctty"] = "cooked"
                      ELSE saved'[alive'[1]] \in {"cooked", "unset"}
    BY DEF FirstKeepsModes
  <2>1. /\ n > 0 /\ alive # << >> /\ i = n
        /\ saved[alive[1]] \in {"cooked", "unset"}
    <3>1. i = n /\ mishaps \cap {"disorder", "unrestored"} = {}
      BY <1>5, <1>8
    <3>2. n > 0 /\ alive # << >>
      BY <1>1, <1>2 DEF n
    <3> QED
      BY <3>1, <3>2 DEF RawInv, FirstKeepsModes
  <2>2. CASE n = 1
    <3>1. alive[1] = o /\ saved[o] # "unset" /\ mishaps' = mishaps \cup Mishaps(o, TRUE)
      BY <1>2, <1>6, <2>1, <2>2 DEF Mishaps, n
    <3>2. mode'["ctty"] = saved[o]
      BY <1>6, <1>7, <2>2, <3>1 DEF Mishaps, Restorable, n
    <3>3. alive' = << >>
      BY <1>3, <2>2, EmptySeq, LenProperties
    <3> QED
      BY <2>1, <3>1, <3>2, <3>3
  <2>3. CASE n > 1
    <3>1. 1 \in 1 .. n - 1 /\ alive' # << >>
      BY <1>1, <1>3, <2>3, EmptySeq, LenProperties
    <3>2. alive'[1] = alive[1] /\ alive'[1] \in Objects /\ alive'[1] # o
      BY <1>4, <1>8, <3>1
    <3> QED
      BY <1>5, <1>7, <2>1, <3>1, <3>2
  <2> QED
    BY <1>1, <2>1, <2>2, <2>3
<1>13. NoGarbage'
  <2> SUFFICES ASSUME "unsaved" \notin mishaps'
               PROVE  /\ \A t \in Terminals : mode'[t] # "garbage"
                      /\ \A x \in Objects : saved'[x] # "garbage"
    BY DEF NoGarbage
  <2>1. /\ \A t \in Terminals : mode[t] # "garbage"
        /\ \A x \in Objects : saved[x] # "garbage"
    BY <1>5 DEF RawInv, NoGarbage
  <2>2. \A x \in Objects : saved'[x] # "garbage"
    BY <1>5, <1>7, <2>1
  <2>3. \A t \in Terminals : mode'[t] # "garbage"
    BY <1>7, <1>9, <2>1
  <2> QED
    BY <2>2, <2>3
<1>14. ASSUME mishaps' \cap {"disorder", "unsaved"} = {}, NEW x \in Objects, state'[x]
       PROVE  /\ stdin # "none" /\ mode'[stdin] = "raw"
  <2>1. x # o /\ state[x]
    BY <1>5, <1>7, <1>14
  <2>2. stdin # "none" /\ mode[stdin] = "raw"
    BY <1>5, <1>14, <2>1 DEF RawInv, StaysRaw
  <2>3. CASE mode' = mode
    BY <2>2, <2>3
  <2>4. CASE mode' # mode
    <3>1. saved[o] # "unset" /\ mode' = [mode EXCEPT !["ctty"] = saved[o]]
      BY <1>9, <1>14, <2>4
    <3>2. CASE stdin = "ctty"
      <4>1. PICK j \in 1 .. n : alive[j] = x
        BY <1>1, <2>1 DEF RawInv, StateOfLiving, Exists
      <4>2. i = n /\ j < i
        BY <1>1, <1>2, <1>8, <1>14, <2>1, <4>1
      <4>3. mishaps \cap {"disorder", "unsaved"} = {}
        BY <1>5, <1>14
      <4>4. saved[alive[i]] \in {"raw", "unset"}
        BY <1>1, <2>1, <3>2, <4>1, <4>2, <4>3 DEF RawInv, SavedIsRaw
      <4> QED
        BY <1>2, <1>7, <3>1, <3>2, <4>4
    <3>3. CASE stdin # "ctty"
      BY <1>7, <2>2, <3>1, <3>3
    <3> QED
      BY <3>2, <3>3
  <2> QED
    BY <2>3, <2>4
<1>15. StaysRaw'
  BY <1>5, <1>14 DEF StaysRaw
<1>16. SavedIsRaw'
  <2> SUFFICES ASSUME mishaps' \cap {"disorder", "unsaved"} = {}, stdin = "ctty",
                      NEW j \in 1 .. n - 1, NEW k \in 1 .. n - 1, j < k, state'[alive'[j]]
               PROVE  saved'[alive'[k]] \in {"raw", "unset"}
    BY <1>3, <1>5 DEF SavedIsRaw
  <2>1. /\ alive'[j] = alive[j] /\ alive'[k] = alive[k]
        /\ alive[j] \in Objects \ {o} /\ alive[k] \in Objects \ {o}
    BY <1>4, <1>8
  <2>2. state[alive[j]] /\ saved'[alive[k]] = saved[alive[k]]
    BY <1>5, <1>7, <2>1
  <2>3. j \in DOMAIN alive /\ k \in DOMAIN alive /\ mishaps \cap {"disorder", "unsaved"} = {}
    BY <1>1, <1>5
  <2> QED
    BY <2>1, <2>2, <2>3 DEF RawInv, SavedIsRaw
<1> QED
  BY <1>10, <1>11, <1>12, <1>13, <1>15, <1>16 DEF RawInv

\* Reading and waiting leave the modes alone; only a failed read gives up state.
LEMMA ReadingKeeps ==
  ASSUME RawInv, [RawCalls \/ RawEnvironment]_rvars,
         \A o \in Objects : ~ Construct(o) /\ ~ Destroy(o)
  PROVE  RawInv'
<1>1. UNCHANGED <<stdin, mode, saved, alive, mishaps>> /\ reader' \in Objects
  BY DEF RawInv, RawTypeOK, RawCalls, RawEnvironment, rvars, StartGetch, FinishGetch,
         StartWait, WaitEnds, WaitReady, FinishRead, Type, HangUp, OtherReads
<1>2. state' = state \/ state' = [state EXCEPT ![reader] = FALSE]
  BY DEF RawCalls, RawEnvironment, rvars, StartGetch, FinishGetch,
         StartWait, WaitEnds, WaitReady, FinishRead, Type, HangUp, OtherReads
<1>3. /\ input' \in 0 .. MaxInput /\ ended' \in BOOLEAN
      /\ pc' \in {"none", "getch", "select", "read"}
  <2>1. input \in 0 .. MaxInput /\ MaxInput \in Nat
    BY RawAssumption DEF RawAssumption, RawInv, RawTypeOK
  <2>2. \/ input' = input \/ (input' = input - 1 /\ input > 0)
        \/ (input' = input + 1 /\ input < MaxInput)
    BY DEF RawCalls, RawEnvironment, rvars, StartGetch, FinishGetch, HasChar,
           StartWait, WaitEnds, WaitReady, FinishRead, Type, HangUp, OtherReads
  <2>3. ended' \in BOOLEAN /\ pc' \in {"none", "getch", "select", "read"}
    BY DEF RawInv, RawTypeOK, RawCalls, RawEnvironment, rvars, StartGetch, FinishGetch,
           StartWait, WaitEnds, WaitReady, FinishRead, Type, HangUp, OtherReads
  <2> QED
    BY <2>1, <2>2, <2>3
<1>4. RawTypeOK' /\ \A o \in Objects : state'[o] => state[o]
  BY <1>1, <1>2, <1>3 DEF RawInv, RawTypeOK
<1> QED
  BY <1>1, <1>4, ModesLeft

LEMMA RawStarts == RawInit => RawInv
<1> SUFFICES ASSUME RawInit PROVE RawInv
  OBVIOUS
<1>1. RawTypeOK
  <2>1. alive \in Seq(Objects) /\ DOMAIN alive = {}
    <3>1. alive = << >> /\ alive \in Seq(Objects) /\ Len(alive) = 0
      BY EmptySeq DEF RawInit
    <3>2. DOMAIN alive = 1 .. Len(alive)
      BY <3>1, LenProperties
    <3> QED
      BY <3>1, <3>2
  <2>2. \A i, j \in DOMAIN alive : alive[i] = alive[j] => i = j
    BY <2>1
  <2>3. input \in 0 .. MaxInput
    BY RawAssumption DEF RawAssumption, RawInit
  <2>4. /\ mode \in [Terminals -> Modes]
        /\ saved \in [Objects -> Modes \cup {"unset"}] /\ state \in [Objects -> BOOLEAN]
    BY DEF RawInit, Modes
  <2> QED
    BY <2>1, <2>2, <2>3, <2>4 DEF RawInit, RawTypeOK
<1>2. StateOfLiving /\ StaysRaw
  BY DEF RawInit, StateOfLiving, StaysRaw
<1>3. FirstKeepsModes /\ NoGarbage /\ SavedIsRaw
  BY DEF RawInit, FirstKeepsModes, NoGarbage, SavedIsRaw, Terminals
<1> QED
  BY <1>1, <1>2, <1>3 DEF RawInv

LEMMA RawStep ==
  ASSUME RawInv, [RawCalls \/ RawEnvironment]_rvars
  PROVE  RawInv'
  BY ConstructKeeps, DestroyKeeps, ReadingKeeps

LEMMA RawInvHolds == RawSpec => []RawInv
  BY RawStarts, RawStep, PTL DEF RawSpec

\* When the last object is gone the controlling terminal has the modes from
\* before the first one, unless lifetimes crossed or a destructor could not
\* restore what its object had changed (the constructor and ~rawmode).
THEOREM ModesComeBack == RawSpec => []ModeRestored
<1>1. RawInv => ModeRestored
  BY DEF RawInv, FirstKeepsModes, ModeRestored
<1> QED
  BY <1>1, RawInvHolds, PTL

\* An object whose state says raw mode has it, also after objects nested in it
\* have gone (~rawmode writes back what its own constructor saved), as long as
\* lifetimes nest and every destructor that wrote modes had saved them.
THEOREM RawIsKept == RawSpec => []StaysRaw
<1>1. RawInv => StaysRaw
  BY DEF RawInv
<1> QED
  BY <1>1, RawInvHolds, PTL

-----------------------------------------------------------------------------
(* Terminal size.                                                          *)

\* Who has a descriptor, or is about to, has blocked the signal.
BlockedFirst ==
  \A w \in Watchers : spc[w] = "signalfd" \/ sigwinch_fd[w] = "open" => blocked

\* With one thread, one object at most is inside a call.
OneCall ==
  \A v, w \in Watchers : v = w \/ spc[v] \in {"out", "idle"} \/ spc[w] \in {"out", "idle"}

\* So nobody takes the signal away between poll() and read().
SignalSeen == \A w \in Watchers : spc[w] = "read" => pending

SizeInv == SizeTypeOK /\ BlockedFirst /\ OneCall /\ SignalSeen /\ SizeIsCurrent

USE DEF SizeTypeOK, BlockedFirst, OneCall, SignalSeen, SizeIsCurrent

LEMMA StartKeeps ==
  ASSUME SizeInv, NEW w \in Watchers, StartWatching(w) PROVE SizeInv'
<1>1. SizeTypeOK'
  BY DEF SizeInv, StartWatching, Blocked, None
<1>2. BlockedFirst'
  BY DEF SizeInv, StartWatching, Blocked
<1>3. SizeIsCurrent'
  BY DEF SizeInv, StartWatching
<1>4. OneCall'
  BY DEF SizeInv, StartWatching, AtRest
<1>5. SignalSeen'
  BY DEF SizeInv, StartWatching, AtRest
<1> QED
  BY <1>1, <1>2, <1>3, <1>4, <1>5 DEF SizeInv

LEMMA OpenKeeps ==
  ASSUME SizeInv, NEW w \in Watchers, OpenSignalFd(w) PROVE SizeInv'
<1>1. SizeTypeOK'
  BY DEF SizeInv, OpenSignalFd
<1>2. BlockedFirst'
  BY DEF SizeInv, OpenSignalFd
<1>3. SizeIsCurrent'
  BY DEF SizeInv, OpenSignalFd
<1>4. OneCall'
  BY DEF SizeInv, OpenSignalFd
<1>5. SignalSeen'
  BY DEF SizeInv, OpenSignalFd
<1> QED
  BY <1>1, <1>2, <1>3, <1>4, <1>5 DEF SizeInv

LEMMA UpdateKeeps ==
  ASSUME SizeInv, NEW w \in Watchers, Update(w) PROVE SizeInv'
<1>1. SizeTypeOK'
  <2>1. size' \in [Watchers -> Sizes \cup {None}]
    BY DEF SizeInv, Update
  <2>2. missed' \in [Watchers -> BOOLEAN]
    BY DEF SizeInv, Update
  <2> QED
    BY <2>1, <2>2 DEF SizeInv, Update
<1>2. BlockedFirst'
  BY DEF SizeInv, Update
<1>3. SizeIsCurrent'
  BY DEF SizeInv, Update
<1>4. OneCall'
  BY DEF SizeInv, Update
<1>5. SignalSeen'
  BY DEF SizeInv, Update
<1> QED
  BY <1>1, <1>2, <1>3, <1>4, <1>5 DEF SizeInv

LEMMA PollKeeps ==
  ASSUME SizeInv, NEW w \in Watchers, PollReady(w) PROVE SizeInv'
<1>1. SizeTypeOK'
  BY DEF SizeInv, PollReady
<1>2. BlockedFirst'
  BY DEF SizeInv, PollReady
<1>3. SizeIsCurrent'
  BY DEF SizeInv, PollReady
<1>4. OneCall'
  BY DEF SizeInv, PollReady, AtRest
<1>5. SignalSeen'
  BY DEF SizeInv, PollReady, AtRest
<1> QED
  BY <1>1, <1>2, <1>3, <1>4, <1>5 DEF SizeInv

\* A signal taken is another object's loss, which "missed" records.  A read()
\* that fails leaves the signal, which was there: PollReady saw it.
LEMMA TakeKeeps ==
  ASSUME SizeInv, NEW w \in Watchers, TakeSignal(w) PROVE SizeInv'
<1>1. SizeTypeOK'
  BY DEF SizeInv, TakeSignal, AfterSignal
<1>2. BlockedFirst'
  BY DEF SizeInv, TakeSignal, AfterSignal
<1>3. SizeIsCurrent'
  BY DEF SizeInv, TakeSignal, AfterSignal
<1>4. OneCall'
  BY DEF SizeInv, TakeSignal, AfterSignal
<1>5. SignalSeen'
  BY DEF SizeInv, TakeSignal, AfterSignal
<1> QED
  BY <1>1, <1>2, <1>3, <1>4, <1>5 DEF SizeInv

LEMMA StopKeeps ==
  ASSUME SizeInv, NEW w \in Watchers, StopWatching(w) PROVE SizeInv'
<1>1. SizeTypeOK'
  BY DEF SizeInv, StopWatching, Closed
<1>2. BlockedFirst'
  BY DEF SizeInv, StopWatching, Closed
<1>3. SizeIsCurrent'
  BY DEF SizeInv, StopWatching
<1>4. OneCall'
  BY DEF SizeInv, StopWatching, AtRest
<1>5. SignalSeen'
  BY DEF SizeInv, StopWatching, AtRest
<1> QED
  BY <1>1, <1>2, <1>3, <1>4, <1>5 DEF SizeInv

\* With the signal blocked, a resize leaves one to wait for all.
LEMMA ResizeKeeps == ASSUME SizeInv, Resize PROVE SizeInv'
<1>1. SizeTypeOK'
  BY DEF SizeInv, Resize
<1>2. BlockedFirst'
  BY DEF SizeInv, Resize
<1>3. SizeIsCurrent'
  BY DEF SizeInv, Resize
<1>4. OneCall'
  BY DEF SizeInv, Resize
<1>5. SignalSeen'
  BY DEF SizeInv, Resize
<1> QED
  BY <1>1, <1>2, <1>3, <1>4, <1>5 DEF SizeInv

LEMMA SizeStarts == SizeInit => SizeInv
<1> SUFFICES ASSUME SizeInit PROVE SizeInv
  OBVIOUS
<1>1. \A w \in Watchers : spc[w] = "out" /\ sigwinch_fd[w] = "none"
  BY DEF SizeInit
<1>2. SizeTypeOK
  BY DEF SizeInit
<1> QED
  BY <1>1, <1>2 DEF SizeInv

LEMMA SizeStep ==
  ASSUME SizeInv, [SizeCalls \/ Resize]_svars
  PROVE  SizeInv'
<1>1. ASSUME NEW w \in Watchers,
             \/ StartWatching(w) \/ OpenSignalFd(w) \/ Update(w)
             \/ PollReady(w) \/ TakeSignal(w) \/ StopWatching(w)
      PROVE  SizeInv'
  BY <1>1, StartKeeps, OpenKeeps, UpdateKeeps, PollKeeps, TakeKeeps, StopKeeps
<1>2. CASE Resize
  BY <1>2, ResizeKeeps
<1>3. CASE UNCHANGED svars
  BY <1>3 DEF SizeInv, svars
<1> QED
  BY <1>1, <1>2, <1>3 DEF SizeCalls

\* An object that has a descriptor, and was not robbed of a signal, knows the
\* size of the window or will be told: winsize_signal_handler() comes before the
\* first update_terminal_size(), and the signal is taken before the next one.
THEOREM NoResizeIsLost == SizeSpec => []SizeIsCurrent
<1>1. SizeInv => SizeIsCurrent
  BY DEF SizeInv
<1> QED
  BY <1>1, SizeStarts, SizeStep, PTL DEF SizeSpec
=================================================================================
