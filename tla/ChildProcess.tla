----------------------------- MODULE ChildProcess -----------------------------
(***************************************************************************)
(* libaan/process.hh: sub_do() forks a child that ends with the result of  *)
(* a function, try_reap() asks the kernel whether a child has ended, and   *)
(* how.  The program has one thread; its children end at any time.         *)
(***************************************************************************)
EXTENDS Naturals, FiniteSets

CONSTANT Pids  \* process ids of children; the kernel uses them again

Any == "any"   \* pid <= 0 of try_reap(): any child

ASSUME ChildAssumption == Any \notin Pids

VARIABLES
  autoreap,  \* whether the program ignores SIGCHLD: the kernel keeps no statuses
  proc,      \* kernel: what each pid is: "free", "running", or "ended", not yet reaped
  fate,      \* how the last child of a pid ended: "success", "failure", "signal"; or "none"
  asked,     \* the pid try_reap() is inside of its loop for; or "none"
  answer,    \* what the last try_reap() returned: "running", "success", "failure"
  subject,   \* ... and for which pid
  known,     \* history: children the program was told of, and not yet that they ended
  discarded, \* history: pids whose status went to nobody
  told       \* history: subject was in known and not in discarded at that time

pvars == <<autoreap, proc, fate, asked, answer, subject, known, discarded, told>>

-----------------------------------------------------------------------------
ChildInit ==
  /\ autoreap \in BOOLEAN
  /\ proc = [p \in Pids |-> "free"] /\ fate = [p \in Pids |-> "none"]
  /\ asked = "none" /\ answer = "running" /\ subject = Any
  /\ known = {} /\ discarded = {} /\ told = FALSE

\* sub_do(): fork() gives the child a free pid, which the parent's function is
\* called with.
Fork(p) ==
  /\ asked = "none" /\ proc[p] = "free"
  /\ proc' = [proc EXCEPT ![p] = "running"] /\ fate' = [fate EXCEPT ![p] = "none"]
  /\ known' = known \cup {p} /\ discarded' = discarded \ {p}
  /\ told' = FALSE
  /\ UNCHANGED <<autoreap, asked, answer, subject>>

\* The child's function returns true or false, or the child is killed, by an
\* exception or from outside.
ChildEnds(p) ==
  /\ proc[p] = "running"
  /\ \E f \in {"success", "failure", "signal"} : fate' = [fate EXCEPT ![p] = f]
  /\ proc' = [proc EXCEPT ![p] = IF autoreap THEN "free" ELSE "ended"]
  /\ discarded' = IF autoreap THEN discarded \cup {p} ELSE discarded
  /\ UNCHANGED <<autoreap, asked, answer, subject, known, told>>

\* try_reap(t), for a pid, of a child or not, or for any child.
CallReap(t) ==
  /\ asked = "none" /\ asked' = t
  /\ UNCHANGED <<autoreap, proc, fate, answer, subject, known, discarded, told>>

\* The children that waitpid(asked, ..., WNOHANG) looks at.
Matching == {p \in Pids : (asked = p \/ asked = Any) /\ proc[p] # "free"}

Ended == {p \in Matching : proc[p] = "ended"}

Answer(a) ==
  /\ asked' = "none" /\ subject' = asked /\ answer' = a
  /\ told' = (asked \in known \ discarded)
  /\ known' = IF a = "running" THEN known ELSE known \ {asked}

\* waitpid returned 0: (false, false)
NoneEnded ==
  /\ asked # "none" /\ Matching # {} /\ Ended = {}
  /\ Answer("running")
  /\ UNCHANGED <<autoreap, proc, fate, discarded>>

\* waitpid returned -1, there is no such child: (true, false)
NoChild ==
  /\ asked # "none" /\ Matching = {}
  /\ Answer("failure")
  /\ UNCHANGED <<autoreap, proc, fate, discarded>>

\* WIFEXITED(status) ? WEXITSTATUS(status) == EXIT_SUCCESS : false
Verdict(p) == IF fate[p] = "success" THEN "success" ELSE "failure"

\* Mutated form: all that have ended are reaped.
AllReaped(p) == [q \in Pids |-> IF proc[q] = "ended" THEN "free" ELSE proc[q]]

Reaped(p) == [proc EXCEPT ![p] = "free"]

\* waitpid reaps the child asked for.
ReapAsked ==
  /\ asked \in Ended
  /\ proc' = Reaped(asked)
  /\ Answer(Verdict(asked))
  /\ UNCHANGED <<autoreap, fate, discarded>>

\* waitpid reaps some child; its pid is not the one given, and the loop goes on.
ReapOther(p) ==
  /\ asked = Any /\ p \in Ended
  /\ proc' = Reaped(p)
  /\ discarded' = discarded \cup {p}
  /\ UNCHANGED <<autoreap, fate, asked, answer, subject, known, told>>

ReapStep == NoneEnded \/ NoChild \/ ReapAsked \/ \E p \in Pids : ReapOther(p)

ChildCalls == \/ ReapStep \/ \E p \in Pids : Fork(p)
              \/ \E t \in Pids \cup {Any} : CallReap(t)

ChildEnvironment == \E p \in Pids : ChildEnds(p)

\* try_reap() never waits.
ChildSpec == ChildInit /\ [][ChildCalls \/ ChildEnvironment]_pvars /\ WF_pvars(ReapStep)

-----------------------------------------------------------------------------
(* Properties.                                                             *)

\* Every variable has its type.
ChildTypeOK ==
  /\ autoreap \in BOOLEAN
  /\ proc \in [Pids -> {"free", "running", "ended"}]
  /\ fate \in [Pids -> {"none", "success", "failure", "signal"}]
  /\ asked \in Pids \cup {Any, "none"} /\ subject \in Pids \cup {Any}
  /\ answer \in {"running", "success", "failure"}
  /\ known \subseteq Pids /\ discarded \subseteq Pids /\ told \in BOOLEAN

\* A child the program knows keeps its pid and its status until the program is
\* told; unless it ignores SIGCHLD or has asked for any child, which throws
\* statuses away.
StatusIsKept ==
  \A p \in known \ discarded : proc[p] # "free" /\ (proc[p] = "ended" <=> fate[p] # "none")

\* An answer that says how such a child ended is the truth about it, also when
\* pids are used again.  Nothing is said of the answer that it still runs, nor of
\* the second one for a child, which is always that it failed.
AnswerIsTrue ==
  told => /\ answer = "success" => fate[subject] = "success"
          /\ answer = "failure" => fate[subject] \in {"failure", "signal"}

\* How such a child ended reaches the caller who asks for it first.
StatusReachesCaller == StatusIsKept /\ AnswerIsTrue

\* Asking for any child reaps what has ended and then comes back.
ReapReturns == asked # "none" ~> asked = "none"
=============================================================================
