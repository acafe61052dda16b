------------------------------ MODULE Clipboard ------------------------------
(***************************************************************************)
(* libaan::add_to_clipboard (libaan/x11.cc): own the X server's primary    *)
(* selection, wait for another client to ask for it, hand the string over  *)
(* once.  Clients ask, other clients take the selection, and clients leave *)
(* at any time.  Answers are only flushed: the error of one to a client    *)
(* that is gone comes back later, behind what the server sent before it.   *)
(***************************************************************************)
EXTENDS Naturals, Sequences, FiniteSets

CONSTANT Requestors  \* clients that paste

VARIABLES
  clip_pc,   \* where the call is; "killed": Xlib's error handler has ended the program
  owner,     \* who owns the selection: "none", "us", "other"
  mapped,    \* whether the window's MapNotify has come
  late,      \* whether try_for milliseconds have passed since then
  queue,     \* what the server has sent to the call: SelectionRequests and errors
  event,     \* the request in hand
  client,    \* what each requestor does: "idle", "waiting" for an answer, "gone"
  pastes,    \* how often the call has handed over the string
  returned   \* what the last call returned, or will once the display is closed

cvars == <<clip_pc, owner, mapped, late, queue, event, client, pastes, returned>>

Requests == [from : Requestors, target : {"string", "targets", "other"}]

\* BadWindow, for an answer to a client that is gone.
Errors == [from : Requestors, target : {"error"}]

\* Where in the queue the requests are, and the errors.
RequestsAt == {i \in DOMAIN queue : queue[i].target # "error"}
ErrorsAt   == {i \in DOMAIN queue : queue[i].target = "error"}

-----------------------------------------------------------------------------
ClipInit ==
  /\ clip_pc = "idle" /\ returned = "none"
  /\ owner \in {"none", "other"} /\ mapped = FALSE /\ late = FALSE
  /\ queue = <<>> /\ event \in Requests
  /\ client = [r \in Requestors |-> "idle"]
  /\ pastes = 0

\* The display does not open, or the window is made and mapped.
Call ==
  /\ clip_pc = "idle"
  /\ \/ returned' = "false" /\ UNCHANGED clip_pc
     \/ returned' = "none" /\ clip_pc' = "map"
  /\ mapped' = FALSE /\ late' = FALSE /\ pastes' = 0
  /\ UNCHANGED <<owner, queue, event, client>>

\* XNextEvent returns MapNotify, for which it waits as long as it takes.
Mapped ==
  /\ clip_pc = "map" /\ mapped
  /\ clip_pc' = "own"
  /\ UNCHANGED <<owner, mapped, late, queue, event, client, pastes, returned>>

\* XSetSelectionOwner, in every turn of the loop.
Own ==
  /\ clip_pc = "own"
  /\ owner' = "us"
  /\ clip_pc' = "check"
  /\ UNCHANGED <<mapped, late, queue, event, client, pastes, returned>>

\* Mutated form: all other requests go with it.
AllDropped(q) == <<>>

Remaining(q) == Tail(q)

\* What is done with a request; one for an unknown target is dropped.
Handling(target) ==
  CASE target = "string" -> "serve" [] target = "targets" -> "describe" [] OTHER -> "own"

\* XCheckTypedEvent finds a request that was sent before any error.
Take ==
  /\ clip_pc = "check" /\ 1 \in RequestsAt
  /\ event' = Head(queue) /\ queue' = Remaining(queue)
  /\ clip_pc' = Handling(event'.target)
  /\ UNCHANGED <<owner, mapped, late, client, pastes, returned>>

\* ... or none: the timer is read next, whatever comes in the meantime.  An error
\* may still be on its way, if nothing came behind it.
FindNothing ==
  /\ clip_pc = "check" /\ RequestsAt = {}
  /\ clip_pc' = "timer"
  /\ UNCHANGED <<owner, mapped, late, queue, event, client, pastes, returned>>

\* Xlib's error handler exits.
Exits == clip_pc' = "killed" /\ returned' = "none"

\* The connection's end: the queue and the selection go with it.
Disconnected ==
  /\ queue' = <<>>
  /\ owner' = IF owner = "us" THEN "none" ELSE owner

\* XCheckTypedEvent reads what the server has sent, and an error is there.
ErrorArrives ==
  /\ clip_pc = "check" /\ ErrorsAt # {}
  /\ Exits /\ Disconnected
  /\ UNCHANGED <<mapped, late, event, client, pastes>>

\* XDestroyWindow, and the return from the body.
Leave(result) == clip_pc' = "close" /\ returned' = result

\* Mutated form: what is still on its way is not waited for.
NothingRead == FALSE

\* XSync in XCloseDisplay, which waits for all that the server has to send.
ErrorComes == ErrorsAt # {}

\* The destructor of display.
CloseDisplay ==
  /\ clip_pc = "close"
  /\ \/ ErrorComes /\ Exits
     \/ ~ErrorComes /\ clip_pc' = "idle" /\ UNCHANGED returned
  /\ Disconnected
  /\ UNCHANGED <<mapped, late, event, client, pastes>>

\* Mutated form: the selection is taken again whenever the timer was read.
OwnAgain == "own"

\* After a millisecond the queue is looked at again.
PollAgain == "check"

\* Mutated form: the timer counts only as long as the selection is owned.
TimeIsUpIfOwned == late /\ owner = "us"

TimeIsUp == late

ReadTimer ==
  /\ clip_pc = "timer"
  /\ IF TimeIsUp
     THEN Leave("false")
     ELSE clip_pc' = PollAgain /\ UNCHANGED returned
  /\ UNCHANGED <<owner, mapped, late, queue, event, client, pastes>>

\* XChangeProperty, XSendEvent and XFlush: the server does so, or, when the
\* client's window is gone, sends an error.
Answered ==
  /\ client[event.from] # "gone"
  /\ client' = [client EXCEPT ![event.from] = "idle"]
  /\ UNCHANGED queue

Unanswered ==
  /\ client[event.from] = "gone"
  /\ queue' = Append(queue, [from |-> event.from, target |-> "error"])
  /\ UNCHANGED client

Describe ==
  /\ clip_pc = "describe" /\ (Answered \/ Unanswered)
  /\ clip_pc' = "own"
  /\ UNCHANGED <<owner, mapped, late, event, pastes, returned>>

Finish == Leave("true")

Serve ==
  /\ clip_pc = "serve"
  /\ \/ Answered /\ pastes' = pastes + 1
     \/ Unanswered /\ UNCHANGED pastes
  /\ Finish
  /\ UNCHANGED <<owner, mapped, late, event>>

-----------------------------------------------------------------------------
\* A window manager may map a window that was made to be an icon, or not.
ServerMaps ==
  /\ clip_pc = "map" /\ ~mapped /\ mapped' = TRUE
  /\ UNCHANGED <<clip_pc, owner, late, queue, event, client, pastes, returned>>

\* A client asks the owner of the selection; here, if that is us.
Ask(r) ==
  /\ client[r] = "idle" /\ owner = "us"
  /\ client' = [client EXCEPT ![r] = "waiting"]
  /\ \E q \in {q \in Requests : q.from = r} : queue' = Append(queue, q)
  /\ UNCHANGED <<clip_pc, owner, mapped, late, event, pastes, returned>>

\* A client dies before it has its answer.
Depart(r) ==
  /\ client[r] = "waiting" /\ client' = [client EXCEPT ![r] = "gone"]
  /\ UNCHANGED <<clip_pc, owner, mapped, late, queue, event, pastes, returned>>

\* A client no longer waits for an answer to a request that was dropped.
GiveUp(r) ==
  /\ client[r] = "waiting" /\ clip_pc # "killed"
  /\ \A i \in RequestsAt : queue[i].from # r
  /\ clip_pc \in {"describe", "serve"} => event.from # r
  /\ client' = [client EXCEPT ![r] = "idle"]
  /\ UNCHANGED <<clip_pc, owner, mapped, late, queue, event, pastes, returned>>

\* The user selects something in another window.
TakeOver ==
  /\ owner' = "other"
  /\ UNCHANGED <<clip_pc, mapped, late, queue, event, client, pastes, returned>>

Expire ==
  /\ clip_pc \in {"check", "timer"} /\ ~late /\ late' = TRUE
  /\ UNCHANGED <<clip_pc, owner, mapped, queue, event, client, pastes, returned>>

ClipStep ==
  \/ Mapped \/ Own \/ Take \/ FindNothing \/ ReadTimer \/ Describe \/ Serve
  \/ ErrorArrives \/ CloseDisplay

ClipEnvironment ==
  Call \/ ServerMaps \/ TakeOver \/ Expire \/ \E r \in Requestors : Ask(r) \/ Depart(r) \/ GiveUp(r)

\* A call that was entered runs on unless it waits, and time passes.
ClipFairness == WF_cvars(ClipStep) /\ WF_cvars(Expire)

ClipSpec == ClipInit /\ [][ClipStep \/ ClipEnvironment]_cvars /\ ClipFairness

-----------------------------------------------------------------------------
(* Properties.                                                             *)

\* Every variable has its type; a client waits for one answer at a time, and it is
\* its request or an error that is on the way, never both.
ClipTypeOK ==
  /\ clip_pc \in {"idle", "map", "own", "check", "timer", "describe", "serve", "close", "killed"}
  /\ owner \in {"none", "us", "other"} /\ mapped \in BOOLEAN /\ late \in BOOLEAN
  /\ queue \in Seq(Requests \cup Errors) /\ event \in Requests
  /\ \A i, j \in DOMAIN queue : queue[i].from = queue[j].from => i = j
  /\ client \in [Requestors -> {"idle", "waiting", "gone"}]
  /\ pastes \in Nat /\ returned \in {"none", "true", "false"}

\* The string is handed over once at most, nothing is done for clients after that,
\* and the result says whether it was: true is returned only when a client that
\* was there has it, false only when none has.  A program that ends without a
\* result, which it may do after the string was handed over, owes it to a client
\* that left before its answer came.
ResultTellsPaste ==
  /\ pastes <= 1
  /\ clip_pc \notin {"idle", "close", "killed"} => pastes = 0
  /\ clip_pc = "idle" => (pastes = 1 <=> returned = "true")
  /\ clip_pc = "killed" => \E r \in Requestors : client[r] = "gone"

\* Another client owns the selection, and no request is left from before.
Overtaken == clip_pc \in {"check", "timer"} /\ owner = "other" /\ RequestsAt = {}

\* What the user has selected since is not taken away again, although the loop
\* calls XSetSelectionOwner in each turn: all the call can do is time out, or be
\* ended by an error.  Not so when a request was waiting as the other client took
\* over.
NewerSelectionStands ==
  [][Overtaken =>
       \/ Overtaken'
       \/ clip_pc' = "close" /\ returned' = "false" /\ owner' = "other"
       \/ clip_pc' = "killed" /\ owner' = "other"]_cvars

\* Where a client's request is before it is answered.
Pending(r, target) ==
  \E i \in DOMAIN queue : queue[i] = [from |-> r, target |-> target]

\* A client that asks for a string or for the targets gets its answer, unless
\* the call ends: by a timer read after no request was seen, by handing the
\* string to another, or because a client is gone.
RequestsAreAnswered ==
  \A r \in Requestors, target \in {"string", "targets"} :
    Pending(r, target) ~> (client[r] # "waiting" \/ clip_pc \in {"idle", "killed"})

\* The timeout ends the call, if MapNotify comes and clients come to rest: the
\* timer is not read while there are requests.
QuietCallReturns ==
  clip_pc = "map" /\ mapped /\ <>[](RequestsAt = {}) ~> clip_pc \in {"idle", "killed"}
=============================================================================
