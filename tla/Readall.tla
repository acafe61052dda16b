-------------------------------- MODULE Readall --------------------------------
(***************************************************************************)
(* libaan::readall (libaan/fd.cc): read a descriptor until a buffer is     *)
(* full or the stream ends, whatever pieces read(2) gives.  A byte is the  *)
(* number of its place in the stream.                                      *)
(***************************************************************************)
EXTENDS Integers

CONSTANTS
  MaxInt,      \* largest int
  BufferSizes, \* values of len
  StreamBound  \* bound: bytes that are ever written to the stream

ASSUME ReadallAssumption ==
  MaxInt \in Nat /\ BufferSizes \subseteq Nat /\ StreamBound \in Nat

VARIABLES
  arrived, taken, \* bytes that the other end has written, and that were read
  closed,         \* whether the other end has closed the stream
  reading,        \* whether a call is in its loop
  len, nread, buff,
  base,           \* history: taken when the call began
  failed,         \* history: whether read(2) ended the call with an error
  count           \* what the last call returned

fvars == <<arrived, taken, closed, reading, len, nread, buff, base, failed, count>>

-----------------------------------------------------------------------------
\* return nread: the conversion of size_t to int.
ToInt(n) == ((n + MaxInt + 1) % (2 * (MaxInt + 1))) - (MaxInt + 1)

ReadallInit ==
  /\ arrived = 0 /\ taken = 0 /\ closed = FALSE
  /\ reading = FALSE /\ len = 0 /\ nread = 0 /\ buff = [k \in {} |-> 0]
  /\ base = 0 /\ failed = FALSE /\ count = 0

CallReadall(size) ==
  /\ ~reading /\ reading' = TRUE
  /\ len' = size /\ nread' = 0 /\ buff' = [k \in 0 .. size - 1 |-> -1]
  /\ base' = taken /\ failed' = FALSE
  /\ UNCHANGED <<arrived, taken, closed, count>>

\* Mutated forms: every piece goes to the start; one piece is enough.
AtStart(k, n) == k < n
OnePiece == TRUE

\* Where a piece of n bytes goes.
InPiece(k, n) == nread <= k /\ k < nread + n

\* while(nread < len)
Full == nread' >= len

\* read(2) gives n bytes, as many as there are or less.
ReadPiece(n) ==
  /\ reading
  /\ n <= arrived - taken /\ n <= len - nread /\ n <= MaxInt
  /\ buff' = [k \in 0 .. len - 1 |-> IF InPiece(k, n) THEN taken + (k - nread) ELSE buff[k]]
  /\ nread' = nread + n /\ taken' = taken + n
  /\ IF Full THEN reading' = FALSE /\ count' = ToInt(nread')
             ELSE UNCHANGED <<reading, count>>
  /\ UNCHANGED <<arrived, closed, len, base, failed>>

\* read(2) gives 0.
Ends == (closed /\ taken = arrived) \/ len = nread

ReadEnd ==
  /\ reading /\ Ends
  /\ reading' = FALSE /\ count' = ToInt(nread)
  /\ UNCHANGED <<arrived, taken, closed, len, nread, buff, base, failed>>

\* EINTR: on to the condition of the loop.
InterruptResumes ==
  IF nread < len THEN UNCHANGED <<reading, count>>
                 ELSE reading' = FALSE /\ count' = ToInt(nread)

ReadInterrupted ==
  /\ reading /\ InterruptResumes
  /\ UNCHANGED <<arrived, taken, closed, len, nread, buff, base, failed>>

\* Any other error: what was read before is lost to the caller.
ReadFails ==
  /\ reading /\ reading' = FALSE /\ count' = -1 /\ failed' = TRUE
  /\ UNCHANGED <<arrived, taken, closed, len, nread, buff, base>>

-----------------------------------------------------------------------------
\* The other end of the stream.
WriteMore ==
  /\ ~closed /\ arrived < StreamBound
  /\ arrived' = arrived + 1
  /\ UNCHANGED <<taken, closed, reading, len, nread, buff, base, failed, count>>

CloseStream ==
  /\ ~closed /\ closed' = TRUE
  /\ UNCHANGED <<arrived, taken, reading, len, nread, buff, base, failed, count>>

\* What a loop that is not disturbed does.
ReadStep == ReadEnd \/ \E n \in 1 .. StreamBound : ReadPiece(n)

ReadallNext ==
  \/ ReadStep \/ ReadInterrupted \/ ReadFails \/ WriteMore \/ CloseStream
  \/ \E size \in BufferSizes : CallReadall(size)

\* read(2) returns when there is something to return; signals come to an end.
ReadallSpec == ReadallInit /\ [][ReadallNext]_fvars /\ WF_fvars(ReadStep)

-----------------------------------------------------------------------------
(* Properties.                                                             *)

\* Every variable has its type; the buffer has the length that was asked for.
ReadallTypeOK ==
  /\ arrived \in Nat /\ taken \in 0 .. arrived /\ base \in 0 .. taken
  /\ len \in Nat /\ nread \in 0 .. len /\ buff \in [0 .. len - 1 -> Nat \cup {-1}]
  /\ closed \in BOOLEAN /\ reading \in BOOLEAN /\ failed \in BOOLEAN
  /\ count \in -(MaxInt + 1) .. MaxInt

\* Whatever pieces the bytes came in, signals and buffers that are longer than
\* the stream included, the first nread bytes of the buffer are those that
\* followed in the stream, and no other byte was taken from it.
BytesInOrder ==
  /\ taken = base + nread /\ nread <= len
  /\ \A k \in 0 .. nread - 1 : buff[k] = base + k

\* A call that returns less than it was asked for has seen the end.
ShortOnlyAtEnd ==
  ~reading /\ ~failed /\ nread < len => closed /\ taken = arrived

\* The caller can tell an error, and how much was read: as long as the buffer is
\* no longer than an int can say.
CountIsTrue ==
  ~reading /\ len <= MaxInt => count = IF failed THEN -1 ELSE nread

\* What readall() returns is enough to know what is in the buffer, and whether
\* there is more to come.
ResultTellsAll == ShortOnlyAtEnd /\ CountIsTrue

\* When the other end closes the stream the call comes back.
ReadallReturns == reading /\ closed ~> ~reading
=============================================================================
