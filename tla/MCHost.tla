-------------------------------- MODULE MCHost --------------------------------
\* What libaan has for the terminal, the X server, child processes, streams and
\* directories, for TLC.  These modules share no state: a behaviour is one of a
\* program that uses one of them, and the others stay as they begin.
EXTENDS RawMode, TerminalSize, Clipboard, ChildProcess, Readall, Directories

VARIABLE used

HostInit ==
  /\ used \in {"rawmode", "terminal_size", "clipboard", "process", "readall", "directories"}
  /\ RawInit /\ (used # "rawmode" => stdin = "none" /\ reader = CHOOSE o \in Objects : TRUE)
  /\ SizeInit
  /\ ClipInit /\ (used # "clipboard" => owner = "none" /\ event = CHOOSE q \in Requests : TRUE)
  /\ ChildInit /\ (used # "process" => ~autoreap)
  /\ DirInit
  /\ ReadallInit /\ (used # "readall" => len = 0)

HostNext ==
  \/ /\ used = "rawmode" /\ (RawCalls \/ RawEnvironment)
     /\ UNCHANGED <<used, svars, cvars, pvars, fvars, lvars>>
  \/ /\ used = "terminal_size" /\ (SizeCalls \/ Resize)
     /\ UNCHANGED <<used, rvars, cvars, pvars, fvars, lvars>>
  \/ /\ used = "clipboard" /\ (ClipStep \/ ClipEnvironment)
     /\ UNCHANGED <<used, rvars, svars, pvars, fvars, lvars>>
  \/ /\ used = "process" /\ (ChildCalls \/ ChildEnvironment)
     /\ UNCHANGED <<used, rvars, svars, cvars, fvars, lvars>>
  \/ /\ used = "readall" /\ ReadallNext
     /\ UNCHANGED <<used, rvars, svars, cvars, pvars, lvars>>
  \/ /\ used = "directories" /\ DirNext
     /\ UNCHANGED <<used, rvars, svars, cvars, pvars, fvars>>

hostvars == <<used, rvars, svars, cvars, pvars, fvars, lvars>>

\* At most one of these is enabled, that of the module used: weak fairness of all
\* is weak fairness of each.
HostStep ==
  \/ used = "clipboard" /\ ClipStep /\ UNCHANGED <<used, rvars, svars, pvars, fvars, lvars>>
  \/ used = "process" /\ ReapStep /\ UNCHANGED <<used, rvars, svars, cvars, fvars, lvars>>
  \/ used = "readall" /\ ReadStep /\ UNCHANGED <<used, rvars, svars, cvars, pvars, lvars>>

HostSpec ==
  /\ HostInit /\ [][HostNext]_hostvars
  /\ WF_hostvars(HostStep) /\ WF_cvars(Expire)

-----------------------------------------------------------------------------
(* Properties.                                                             *)

\* Every variable of every part has its type: among them that no object and no
\* request is there twice, that input and what readall() may take never fall below
\* 0, that it never reads more than its buffer holds, and that a directory's
\* callback runs for an entry only.
HostTypeOK ==
  RawTypeOK /\ SizeTypeOK /\ ClipTypeOK /\ ChildTypeOK /\ ReadallTypeOK /\ DirTypeOK

\* Calls that wait come back: the clipboard's by its timeout, try_reap() when it
\* has seen the children there are, readall() when its stream is closed.
HostCallsReturn == QuietCallReturns /\ ReapReturns /\ ReadallReturns
===============================================================================
