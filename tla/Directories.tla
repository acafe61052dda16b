------------------------------ MODULE Directories ------------------------------
(***************************************************************************)
(* libaan::readdir and readdir2 (libaan/file.cc, file.hh): a callback is   *)
(* called for each entry of a directory, and may itself walk a directory.  *)
(* Neither function closes the stream it has opened.  opendir and          *)
(* readdir_r are external; all directories have the same entries.          *)
(***************************************************************************)
EXTENDS Naturals, Sequences

CONSTANTS
  Entries,     \* names in a directory
  Limit,       \* descriptors the program may have
  MaxDepth     \* bound: walks inside each other's callbacks

ASSUME DirectoryAssumption == Limit \in Nat /\ MaxDepth \in Nat

VARIABLES
  walks,       \* the calls that have not returned, the innermost last
  descriptors, \* how many are in use
  last         \* the call that returned last

lvars == <<walks, descriptors, last>>

-----------------------------------------------------------------------------
\* A call: the function, the entries its callback has had, whether it is in its
\* callback, and how it ended: "true", "false", or "open" as long as it runs.
\* cause: what made it end.
Walk(fun) ==
  [fun |-> fun, seen |-> {}, inside |-> FALSE, result |-> "open", cause |-> "none"]

WalkFunctions == {"readdir", "readdir2"}

\* All the calls there may be: the callback is called for an entry.
Walks ==
  {w \in [fun : WalkFunctions, seen : SUBSET Entries, inside : BOOLEAN,
          result : {"open", "true", "false"},
          cause : {"none", "refused", "exhausted", "error", "end", "stopped"}] :
     w.inside => w.seen # {}}

DirInit == walks = <<>> /\ descriptors = 0 /\ last = Walk("readdir")

Inner == walks[Len(walks)]
Outer == SubSeq(walks, 1, Len(walks) - 1)

\* A program that is in no call, or in the callback of the innermost one.
MayCall == walks # <<>> => Inner.inside

OpenDir(fun) ==
  /\ MayCall /\ Len(walks) < MaxDepth /\ descriptors < Limit
  /\ walks' = Append(walks, Walk(fun)) /\ descriptors' = descriptors + 1
  /\ UNCHANGED last

\* No descriptor is free, or the directory cannot be opened.
OpenDirFails(fun) ==
  /\ MayCall
  /\ \E cause \in {"refused"} \cup IF descriptors = Limit THEN {"exhausted"} ELSE {} :
       last' = [Walk(fun) EXCEPT !.result = "false", !.cause = cause]
  /\ UNCHANGED <<walks, descriptors>>

\* Mutated form: an error ends the loop like the end.
ErrorEnds == "true"

OnError == "false"

\* The stream stays open.
DirReturns(result, cause) ==
  /\ walks' = Outer /\ UNCHANGED descriptors
  /\ last' = [Inner EXCEPT !.result = result, !.cause = cause, !.inside = FALSE]

ReadEntry ==
  /\ walks # <<>> /\ ~Inner.inside
  /\ \E e \in Entries \ Inner.seen :
       walks' = Append(Outer, [Inner EXCEPT !.seen = @ \cup {e}, !.inside = TRUE])
  /\ UNCHANGED <<descriptors, last>>

ReadError == walks # <<>> /\ ~Inner.inside /\ DirReturns(OnError, "error")

EndOfStream ==
  walks # <<>> /\ ~Inner.inside /\ Inner.seen = Entries /\ DirReturns("true", "end")

\* The callback has returned; that of readdir2 may say that this is enough.
CallbackReturns ==
  /\ walks # <<>> /\ Inner.inside
  /\ \/ /\ walks' = Append(Outer, [Inner EXCEPT !.inside = FALSE])
        /\ UNCHANGED <<descriptors, last>>
     \/ Inner.fun = "readdir2" /\ DirReturns("true", "stopped")

DirStep == ReadEntry \/ EndOfStream \/ CallbackReturns

DirNext ==
  DirStep \/ ReadError \/ \E fun \in WalkFunctions : OpenDir(fun) \/ OpenDirFails(fun)

DirSpec == DirInit /\ [][DirNext]_lvars

-----------------------------------------------------------------------------
(* Properties.                                                             *)

\* Every variable has its type; the program never has more descriptors than it
\* may, and a callback runs only for an entry.
DirTypeOK == walks \in Seq(Walks) /\ last \in Walks /\ descriptors \in 0 .. Limit

\* True says that the callback has had every entry, or wanted no more, also when
\* it has walked other directories in between.
TrueMeansWalked ==
  last.result = "true" =>
    \/ last.seen = Entries
    \/ last.fun = "readdir2" /\ last.cause = "stopped" /\ last.seen # {}
===============================================================================
