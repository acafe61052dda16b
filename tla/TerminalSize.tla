----------------------------- MODULE TerminalSize -----------------------------
(***************************************************************************)
(* class libaan::terminal_size (libaan/terminal.cc): SIGWINCH is blocked,  *)
(* a signalfd tells of it, and size_changed() asks for the size anew.  The *)
(* kernel keeps at most one SIGWINCH, for the process: several objects     *)
(* share it.  The program has one thread, the user resizes at any time.    *)
(***************************************************************************)
EXTENDS Naturals

CONSTANTS
  Watchers,    \* objects of the program
  Sizes,       \* sizes of the window
  SizeFaults   \* subset of AllSizeFaults: calls that may fail

AllSizeFaults == {"block", "signalfd", "read", "ioctl"}

ASSUME SizeAssumption == SizeFaults \subseteq AllSizeFaults

VARIABLES
  window,      \* size of the window
  blocked,     \* whether the process has blocked SIGWINCH
  pending,     \* whether a SIGWINCH waits
  sigwinch_fd, \* of each object: "open" or "none" (-1)
  size,        \* of each object; None: 0 x 0
  spc,         \* where each object is: "out" of existence, "idle", or inside a call
  missed       \* history: others took signals this object has not seen, or ioctl failed

svars == <<window, blocked, pending, sigwinch_fd, size, spc, missed>>

None == "0x0"

-----------------------------------------------------------------------------
SizeInit ==
  /\ window \in Sizes
  /\ blocked = FALSE /\ pending = FALSE
  /\ sigwinch_fd = [w \in Watchers |-> "none"] /\ size = [w \in Watchers |-> None]
  /\ spc = [w \in Watchers |-> "out"]
  /\ missed = [w \in Watchers |-> FALSE]

\* No object is inside a call.
AtRest == \A w \in Watchers : spc[w] \in {"out", "idle"}

May(fault) == fault \in SizeFaults

\* The user resizes the window; a SIGWINCH that is not blocked is ignored.
Resize ==
  /\ \E s \in Sizes \ {window} : window' = s
  /\ pending' = (pending \/ blocked)
  /\ UNCHANGED <<blocked, sigwinch_fd, size, spc, missed>>

\* Mutated form: the signal set is made but not blocked.
LeftUnblocked == blocked

Blocked == TRUE

\* The constructor, up to sigprocmask in winsize_signal_handler().
StartWatching(w) ==
  /\ AtRest /\ spc[w] = "out"
  /\ size' = [size EXCEPT ![w] = None]
  /\ missed' = [missed EXCEPT ![w] = FALSE]
  /\ \/ blocked' = Blocked /\ spc' = [spc EXCEPT ![w] = "signalfd"]
     \/ May("block") /\ spc' = [spc EXCEPT ![w] = "update"] /\ UNCHANGED blocked
  /\ UNCHANGED <<window, pending, sigwinch_fd>>

\* signalfd(); what is tested afterwards is the result of sigprocmask.
OpenSignalFd(w) ==
  /\ spc[w] = "signalfd"
  /\ \/ sigwinch_fd' = [sigwinch_fd EXCEPT ![w] = "open"]
     \/ May("signalfd") /\ UNCHANGED sigwinch_fd
  /\ spc' = [spc EXCEPT ![w] = "update"]
  /\ UNCHANGED <<window, blocked, pending, size, missed>>

\* update_terminal_size(), in the constructor and in size_changed().
Update(w) ==
  /\ spc[w] = "update"
  /\ \/ size' = [size EXCEPT ![w] = window] /\ missed' = [missed EXCEPT ![w] = FALSE]
     \/ May("ioctl") /\ missed' = [missed EXCEPT ![w] = TRUE] /\ UNCHANGED size
  /\ spc' = [spc EXCEPT ![w] = "idle"]
  /\ UNCHANGED <<window, blocked, pending, sigwinch_fd>>

\* size_changed() finds the descriptor ready; poll() ignores a descriptor of -1.
\* When it is not ready, nothing changes.
PollReady(w) ==
  /\ AtRest /\ spc[w] = "idle"
  /\ sigwinch_fd[w] = "open" /\ pending
  /\ spc' = [spc EXCEPT ![w] = "read"]
  /\ UNCHANGED <<window, blocked, pending, sigwinch_fd, size, missed>>

AfterSignal == "update"

\* read() takes the signal from the process, and from its other objects.
TakeSignal(w) ==
  /\ spc[w] = "read"
  /\ \/ /\ pending' = FALSE /\ spc' = [spc EXCEPT ![w] = AfterSignal]
        /\ missed' = [v \in Watchers |-> missed[v] \/ (v # w /\ spc[v] # "out")]
     \/ /\ May("read") /\ spc' = [spc EXCEPT ![w] = "idle"]
        /\ UNCHANGED <<pending, missed>>
  /\ UNCHANGED <<window, blocked, sigwinch_fd, size>>

Closed == "none"

\* The destructor; SIGWINCH stays blocked.
StopWatching(w) ==
  /\ AtRest /\ spc[w] = "idle"
  /\ sigwinch_fd' = [sigwinch_fd EXCEPT ![w] = Closed]
  /\ spc' = [spc EXCEPT ![w] = "out"]
  /\ UNCHANGED <<window, blocked, pending, size, missed>>

SizeCalls ==
  \E w \in Watchers :
    \/ StartWatching(w) \/ OpenSignalFd(w) \/ Update(w)
    \/ PollReady(w) \/ TakeSignal(w) \/ StopWatching(w)

SizeSpec == SizeInit /\ [][SizeCalls \/ Resize]_svars

-----------------------------------------------------------------------------
(* Properties.                                                             *)

\* Every variable has its type; an object that does not exist has no descriptor.
SizeTypeOK ==
  /\ window \in Sizes /\ blocked \in BOOLEAN /\ pending \in BOOLEAN
  /\ sigwinch_fd \in [Watchers -> {"none", "open"}]
  /\ size \in [Watchers -> Sizes \cup {None}]
  /\ spc \in [Watchers -> {"out", "signalfd", "update", "idle", "read"}]
  /\ missed \in [Watchers -> BOOLEAN]
  /\ \A w \in Watchers : spc[w] \in {"out", "signalfd"} => sigwinch_fd[w] = "none"

\* Between calls an object knows the window's size, or a signal waits that will
\* tell it: no resize falls between the blocking of the signal, the first look
\* at the size, and a signal taken and the look that follows it.  Not so for an
\* object without descriptor, or if another object took the signal.
SizeIsCurrent ==
  \A w \in Watchers :
    spc[w] = "idle" /\ sigwinch_fd[w] = "open" /\ ~missed[w] =>
      size[w] = window \/ pending
===============================================================================
