------------------------------- MODULE RawMode -------------------------------
(***************************************************************************)
(* class libaan::rawmode (libaan/terminal.cc): a constructor saves the     *)
(* modes of the controlling terminal and sets standard input to raw mode,  *)
(* the destructor writes back what was saved; getch() and                  *)
(* blocking_read_one() read standard input.  kbhit() asks select() and     *)
(* keeps nothing of the answer, so it is no step here.  class io is the    *)
(* same without the readers.  The program has one thread; its objects'     *)
(* lifetimes need not nest.                                                *)
(***************************************************************************)
EXTENDS Naturals, Sequences

SeqExt == INSTANCE SequencesExt

CONSTANTS
  Objects,   \* objects of the program
  MaxInput,  \* bound: characters that wait to be read
  Faults     \* subset of AllFaults

AllFaults == {"open", "attributes", "interrupt", "other_reader"}

ASSUME RawAssumption == MaxInput \in Nat /\ Faults \subseteq AllFaults

VARIABLES
  stdin,    \* what standard input is: "ctty", "tty2" or, no terminal, "none"
  mode,     \* the modes of the two terminals
  saved,    \* oldtermios of each object; "unset": never written
  state,    \* state of each object
  alive,    \* the objects that exist, in the order of their construction
  input,    \* how many characters wait
  ended,    \* whether standard input has ended
  pc,       \* where the program is: "none", or inside a call that reads
  reader,   \* the object whose getch() it is
  mishaps   \* history: what went wrong with the terminal's modes

rvars == <<stdin, mode, saved, state, alive, input, ended, pc, reader, mishaps>>

Terminals == {"ctty", "tty2"}
Modes     == {"cooked", "raw", "garbage"}

-----------------------------------------------------------------------------
RawInit ==
  /\ stdin \in Terminals \cup {"none"}
  /\ mode = [t \in Terminals |-> "cooked"]
  /\ saved = [o \in Objects |-> "unset"] /\ state = [o \in Objects |-> FALSE]
  /\ alive = <<>>
  /\ input = 0 /\ ended = FALSE
  /\ pc = "none" /\ reader \in Objects
  /\ mishaps = {}

Exists(o) == \E i \in DOMAIN alive : alive[i] = o
Youngest(o) == alive[Len(alive)] = o

\* save_termios(): what oldtermios is afterwards.
SaveResults ==
  {mode["ctty"]} \cup IF Faults \cap {"open", "attributes"} # {} THEN {"unset"} ELSE {}

\* The constructor changes flags of what tcgetattr found; nonsense stays nonsense.
Raw(m) == IF m = "garbage" THEN "garbage" ELSE "raw"

Saved(m) == m

\* Mutated form: state is set before the calls that may fail.
SetTooEarly == TRUE

\* state, unless tcsetattr has succeeded.
NotSet == FALSE

\* rawmode(): tcgetattr and tcsetattr on standard input may fail after the save.
Construct(o) ==
  /\ pc = "none" /\ ~Exists(o)
  /\ alive' = Append(alive, o)
  /\ \E s \in SaveResults :
       /\ saved' = [saved EXCEPT ![o] = Saved(s)]
       /\ \/ /\ s # "unset" /\ stdin # "none"
             /\ mode' = [mode EXCEPT ![stdin] = Raw(@)]
             /\ state' = [state EXCEPT ![o] = TRUE]
          \/ /\ s = "unset" \/ stdin = "none" \/ "attributes" \in Faults
             /\ state' = [state EXCEPT ![o] = NotSet]
             /\ UNCHANGED mode
  /\ UNCHANGED <<stdin, input, ended, pc, reader, mishaps>>

\* Mutated form: only an object in state TRUE restores.
IfInState(o) == IF state[o] THEN {saved[o]} ELSE {mode["ctty"]}

\* The modes restore_termios() may write: of an oldtermios never written, any.
Restorable(o) == IF saved[o] = "unset" THEN Modes ELSE {saved[o]}

\* The destructor's mishaps: an older object outlived by a younger one, modes
\* written that were never saved, and no saved modes written by the last object.
Mishaps(o, written) ==
     {x \in {"disorder"} : ~Youngest(o)}
  \cup {x \in {"unsaved"} : written /\ saved[o] = "unset"}
  \cup {x \in {"unrestored"} : Len(alive) = 1 /\ (~written \/ saved[o] = "unset")}

\* ~rawmode(), whether or not the constructor has saved or set anything.
Destroy(o) ==
  /\ pc = "none"
  /\ \E i \in DOMAIN alive : alive[i] = o /\ alive' = SeqExt!RemoveAt(alive, i)
  /\ \/ /\ \E m \in Restorable(o) : mode' = [mode EXCEPT !["ctty"] = m]
        /\ mishaps' = mishaps \cup Mishaps(o, TRUE)
     \/ /\ Faults \cap {"open", "attributes"} # {}
        /\ mishaps' = mishaps \cup Mishaps(o, FALSE)
        /\ UNCHANGED mode
  /\ saved' = [saved EXCEPT ![o] = "unset"] /\ state' = [state EXCEPT ![o] = FALSE]
  /\ UNCHANGED <<stdin, input, ended, pc, reader>>

-----------------------------------------------------------------------------
\* select() finds standard input ready: a character waits, or the end.
Ready == input > 0 \/ ended

StartGetch(o) ==
  /\ pc = "none" /\ Exists(o)
  /\ pc' = "getch" /\ reader' = o
  /\ UNCHANGED <<stdin, mode, saved, state, alive, input, ended, mishaps>>

\* Mutated form: what select() calls ready is a character.
ReadyIsChar == input > 0 \/ ended

HasChar == input > 0

\* read() returns one character; or none, at the end of input or interrupted,
\* and getch() gives up the object's state.
FinishGetch ==
  /\ pc = "getch"
  /\ \/ HasChar /\ input' = input - 1 /\ UNCHANGED state
     \/ /\ (~HasChar /\ ended) \/ "interrupt" \in Faults
        /\ state' = [state EXCEPT ![reader] = FALSE] /\ UNCHANGED input
  /\ pc' = "none"
  /\ UNCHANGED <<stdin, mode, saved, alive, ended, reader, mishaps>>

\* blocking_read_one(ms)
StartWait ==
  /\ pc = "none" /\ pc' = "select"
  /\ UNCHANGED <<stdin, mode, saved, state, alive, input, ended, reader, mishaps>>

\* The time is over, or select() was interrupted: (false, 0).
WaitEnds ==
  /\ pc = "select" /\ pc' = "none"
  /\ UNCHANGED <<stdin, mode, saved, state, alive, input, ended, reader, mishaps>>

WaitReady ==
  /\ pc = "select" /\ Ready
  /\ pc' = "read"
  /\ UNCHANGED <<stdin, mode, saved, state, alive, input, ended, reader, mishaps>>

FinishRead ==
  /\ pc = "read"
  /\ \/ HasChar /\ input' = input - 1
     \/ ((~HasChar /\ ended) \/ "interrupt" \in Faults) /\ UNCHANGED input
  /\ pc' = "none"
  /\ UNCHANGED <<stdin, mode, saved, state, alive, ended, reader, mishaps>>

\* The user types; standard input ends.
Type ==
  /\ input < MaxInput /\ ~ended /\ input' = input + 1
  /\ UNCHANGED <<stdin, mode, saved, state, alive, ended, pc, reader, mishaps>>

HangUp ==
  /\ ~ended /\ ended' = TRUE
  /\ UNCHANGED <<stdin, mode, saved, state, alive, input, pc, reader, mishaps>>

\* Another process reads the same terminal.
OtherReads ==
  /\ "other_reader" \in Faults
  /\ input > 0 /\ input' = input - 1
  /\ UNCHANGED <<stdin, mode, saved, state, alive, ended, pc, reader, mishaps>>

RawCalls ==
  \/ FinishGetch \/ StartWait \/ WaitEnds \/ WaitReady \/ FinishRead
  \/ \E o \in Objects : Construct(o) \/ Destroy(o) \/ StartGetch(o)

RawEnvironment == Type \/ HangUp \/ OtherReads

RawSpec == RawInit /\ [][RawCalls \/ RawEnvironment]_rvars

-----------------------------------------------------------------------------
(* Properties.                                                             *)

\* Every variable has its type, and no object exists twice.
RawTypeOK ==
  /\ stdin \in Terminals \cup {"none"}
  /\ mode \in [Terminals -> Modes]
  /\ saved \in [Objects -> Modes \cup {"unset"}] /\ state \in [Objects -> BOOLEAN]
  /\ alive \in Seq(Objects) /\ \A i, j \in DOMAIN alive : alive[i] = alive[j] => i = j
  /\ input \in 0 .. MaxInput /\ ended \in BOOLEAN
  /\ pc \in {"none", "getch", "select", "read"} /\ reader \in Objects
  /\ mishaps \subseteq {"disorder", "unsaved", "unrestored"}

\* When the last object is gone, the controlling terminal is as it was before
\* the first: whatever objects nested in it failed to save, set or restore.
\* Not so if lifetimes cross, or the last to go could not save or restore.
ModeRestored ==
  alive = <<>> /\ mishaps \cap {"disorder", "unrestored"} = {} => mode["ctty"] = "cooked"

\* An object that says it is in raw mode is, also when objects nested in it have
\* come and gone; unless one of them wrote modes it never saved.
StaysRaw ==
  mishaps \cap {"disorder", "unsaved"} = {} =>
    \A o \in Objects : state[o] => stdin # "none" /\ mode[stdin] = "raw"
=============================================================================
