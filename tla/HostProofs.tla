------------------------------ MODULE HostProofs ------------------------------
(***************************************************************************)
(* What libaan has for streams, child processes, the X server and          *)
(* directories: readall() delivers the stream in order and says how much,  *)
(* every status reaches the caller who asks for it, the clipboard's result *)
(* tells whether the string was handed over, and true means walked; for    *)
(* every size of int, buffer and stream, and any number of children,       *)
(* clients and directory entries.                                          *)
(***************************************************************************)
EXTENDS MCHost, TerminalProofs

-----------------------------------------------------------------------------
(* Streams.                                                                *)

\* What the steps need of the variables' types.
Counted ==
  /\ arrived \in Nat /\ taken \in Nat /\ base \in Nat /\ nread \in Nat /\ len \in Nat
  /\ reading \in BOOLEAN /\ failed \in BOOLEAN /\ closed \in BOOLEAN
  /\ reading => ~failed

RInv == Counted /\ BytesInOrder /\ ShortOnlyAtEnd /\ CountIsTrue

-----------------------------------------------------------------------------
\* The conversion to int keeps what an int can hold.
LEMMA IntKeeps ==
  ASSUME NEW n \in Nat, n <= MaxInt
  PROVE  ToInt(n) = n
<1> DEFINE a == n + MaxInt + 1
           b == 2 * (MaxInt + 1)
<1>1. MaxInt \in Nat BY ReadallAssumption DEF ReadallAssumption
<1>2. a \in Nat /\ b \in Nat /\ b > 0 /\ a < b BY <1>1
<1>3. \A x, y \in Nat : y > 0 /\ x < y => x % y = x OBVIOUS
<1>4. a % b = a
  <2> HIDE DEF a, b
  <2> QED BY <1>2, <1>3
<1>5. a - (MaxInt + 1) = n BY <1>1
<1> QED BY <1>4, <1>5 DEF ToInt

\* What readall() returns is an int, and its variables keep their types.
LEMMA IntIsInt ==
  ASSUME NEW n \in Nat
  PROVE  ToInt(n) \in -(MaxInt + 1) .. MaxInt
<1> DEFINE b == 2 * (MaxInt + 1)
           r == (n + MaxInt + 1) % b
<1>1. MaxInt \in Nat BY ReadallAssumption DEF ReadallAssumption
<1>2. r \in 0 .. b - 1
  <2>1. b \in Nat /\ b > 0 /\ n + MaxInt + 1 \in Nat BY <1>1
  <2>2. \A x, y \in Nat : y > 0 => x % y \in 0 .. y - 1 OBVIOUS
  <2> HIDE DEF b
  <2> QED BY <2>1, <2>2
<1> HIDE DEF r
<1>3. r - (MaxInt + 1) \in -(MaxInt + 1) .. MaxInt BY <1>1, <1>2
<1> QED BY <1>3 DEF ToInt, r

LEMMA ReadallTyped ==
  ASSUME ReadallTypeOK, [ReadallNext]_fvars
  PROVE  ReadallTypeOK'
<1>1. MaxInt \in Nat /\ BufferSizes \subseteq Nat
  BY ReadallAssumption DEF ReadallAssumption
<1>2. /\ arrived \in Nat /\ taken \in Nat /\ base \in Nat /\ len \in Nat /\ nread \in Nat
      /\ taken <= arrived /\ base <= taken /\ nread <= len
      /\ buff \in [0 .. len - 1 -> Nat \cup {-1}] /\ count \in -(MaxInt + 1) .. MaxInt
      /\ closed \in BOOLEAN /\ reading \in BOOLEAN /\ failed \in BOOLEAN
  BY DEF ReadallTypeOK
<1>3. ASSUME NEW n \in 1 .. StreamBound, ReadPiece(n) PROVE ReadallTypeOK'
  <2>1. n \in Nat /\ n <= arrived - taken /\ n <= len - nread
    BY <1>3, ReadallAssumption DEF ReadallAssumption, ReadPiece
  <2>2. /\ taken' \in Nat /\ taken' <= arrived /\ base <= taken'
        /\ nread' \in Nat /\ nread' <= len
        /\ UNCHANGED <<arrived, closed, len, base, failed>>
    BY <1>2, <1>3, <2>1 DEF ReadPiece
  <2>3. buff' \in [0 .. len - 1 -> Nat \cup {-1}]
    <3>1. ASSUME NEW k \in 0 .. len - 1
          PROVE  (IF InPiece(k, n) THEN taken + (k - nread) ELSE buff[k]) \in Nat \cup {-1}
      BY <1>2, <2>1 DEF InPiece
    <3> QED
      BY <1>3, <3>1 DEF ReadPiece
  <2>4. reading' \in BOOLEAN /\ count' \in -(MaxInt + 1) .. MaxInt
    <3>1. ToInt(nread') \in -(MaxInt + 1) .. MaxInt
      BY <2>2, IntIsInt
    <3> QED
      BY <1>2, <1>3, <3>1 DEF ReadPiece
  <2> QED
    BY <1>2, <2>2, <2>3, <2>4 DEF ReadallTypeOK
<1>4. ASSUME ReadEnd \/ ReadInterrupted \/ ReadFails PROVE ReadallTypeOK'
  <2>1. ToInt(nread) \in -(MaxInt + 1) .. MaxInt
    BY <1>2, IntIsInt
  <2>2. -1 \in -(MaxInt + 1) .. MaxInt
    BY <1>1
  <2> QED
    BY <1>2, <1>4, <2>1, <2>2
    DEF ReadallTypeOK, ReadEnd, ReadInterrupted, InterruptResumes, ReadFails
<1>5. ASSUME WriteMore \/ CloseStream \/ UNCHANGED fvars PROVE ReadallTypeOK'
  <2>1. /\ UNCHANGED <<taken, base, len, nread, buff, reading, failed, count>>
        /\ closed' \in BOOLEAN /\ (arrived' = arrived \/ arrived' = arrived + 1)
    BY <1>2, <1>5 DEF WriteMore, CloseStream, fvars
  <2>2. arrived' \in Nat /\ taken <= arrived'
    BY <1>2, <2>1
  <2> QED
    BY <1>2, <2>1, <2>2 DEF ReadallTypeOK
<1>6. ASSUME NEW want \in BufferSizes, CallReadall(want) PROVE ReadallTypeOK'
  <2>1. want \in Nat
    BY <1>1
  <2>2. buff' \in [0 .. want - 1 -> Nat \cup {-1}]
    BY <1>6 DEF CallReadall
  <2>3. /\ UNCHANGED <<arrived, taken, closed, count>> /\ base' = taken /\ len' = want
        /\ nread' = 0 /\ reading' = TRUE /\ failed' = FALSE
    BY <1>6 DEF CallReadall
  <2>4. base' \in 0 .. taken /\ nread' \in 0 .. want
    BY <1>2, <2>1, <2>3
  <2> QED
    BY <1>2, <2>1, <2>2, <2>3, <2>4 DEF ReadallTypeOK
<1> QED
  BY <1>3, <1>4, <1>5, <1>6 DEF ReadallNext, ReadStep

LEMMA ReadallTypesStart == ReadallInit => ReadallTypeOK
<1> SUFFICES ASSUME ReadallInit PROVE ReadallTypeOK OBVIOUS
<1>1. MaxInt \in Nat BY ReadallAssumption DEF ReadallAssumption
<1>2. 0 \in -(MaxInt + 1) .. MaxInt BY <1>1
<1>3. 0 .. len - 1 = {} BY DEF ReadallInit
<1>4. buff \in [{} -> Nat \cup {-1}] BY DEF ReadallInit
<1>5. buff \in [0 .. len - 1 -> Nat \cup {-1}] BY <1>3, <1>4, Zenon
<1>6. /\ arrived = 0 /\ taken = 0 /\ base = 0 /\ len = 0 /\ nread = 0 /\ count = 0
      /\ closed = FALSE /\ reading = FALSE /\ failed = FALSE
  BY DEF ReadallInit
<1>7. arrived \in Nat /\ taken \in 0 .. arrived /\ base \in 0 .. taken BY <1>6
<1>8. len \in Nat /\ nread \in 0 .. len /\ count \in -(MaxInt + 1) .. MaxInt
  BY <1>2, <1>6
<1>9. closed \in BOOLEAN /\ reading \in BOOLEAN /\ failed \in BOOLEAN BY <1>6
<1> QED BY <1>5, <1>7, <1>8, <1>9, Zenon DEF ReadallTypeOK

LEMMA ReadallStarts == ReadallInit => RInv
<1> SUFFICES ASSUME ReadallInit PROVE RInv OBVIOUS
<1>1. Counted BY DEF ReadallInit, Counted
<1>2. BytesInOrder BY DEF ReadallInit, BytesInOrder
<1>3. ShortOnlyAtEnd BY DEF ReadallInit, ShortOnlyAtEnd
<1>4. CountIsTrue BY DEF ReadallInit, CountIsTrue
<1> QED BY <1>1, <1>2, <1>3, <1>4 DEF RInv

\* A piece goes behind what is there.
LEMMA PieceFollows ==
  ASSUME RInv, NEW n \in 1 .. StreamBound, ReadPiece(n)
  PROVE  RInv'
<1>0. n \in Nat /\ n > 0 BY ReadallAssumption DEF ReadallAssumption
<1>1. Counted'
  <2>1. taken' \in Nat /\ nread' \in Nat BY <1>0 DEF RInv, Counted, ReadPiece
  <2>2. reading' \in BOOLEAN /\ (reading' => ~failed')
    BY DEF RInv, Counted, ReadPiece
  <2> QED BY <2>1, <2>2 DEF RInv, Counted, ReadPiece
<1>2. BytesInOrder'
  <2>1. taken' = base' + nread' /\ nread' <= len'
    BY <1>0 DEF RInv, Counted, BytesInOrder, ReadPiece
  <2>2. ASSUME NEW k \in 0 .. nread' - 1 PROVE buff'[k] = base' + k
    <3>1. k \in 0 .. len - 1 BY <1>0 DEF RInv, Counted, ReadPiece
    <3>2. CASE k < nread
      BY <1>0, <3>1, <3>2 DEF RInv, Counted, BytesInOrder, ReadPiece, InPiece
    <3>3. CASE nread <= k
      BY <1>0, <3>1, <3>3 DEF RInv, Counted, BytesInOrder, ReadPiece, InPiece
    <3> QED BY <3>1, <3>2, <3>3 DEF RInv, Counted
  <2> QED BY <2>1, <2>2 DEF BytesInOrder
<1>3. ShortOnlyAtEnd'
  <2>1. CASE Full
    <3>1. ~(nread' < len') BY <1>0, <2>1 DEF RInv, Counted, ReadPiece, Full
    <3> QED BY <3>1 DEF ShortOnlyAtEnd
  <2>2. CASE ~Full
    <3>1. reading' BY <2>2 DEF ReadPiece
    <3> QED BY <3>1 DEF ShortOnlyAtEnd
  <2> QED BY <2>1, <2>2
<1>4. CountIsTrue'
  <2> SUFFICES ASSUME ~reading', len <= MaxInt PROVE count' = nread'
    BY DEF RInv, Counted, ReadPiece, CountIsTrue
  <2>1. count' = ToInt(nread') BY DEF ReadPiece
  <2>2. MaxInt \in Nat BY ReadallAssumption DEF ReadallAssumption
  <2>3. nread' \in Nat /\ nread' <= MaxInt BY <1>0, <1>1, <1>2, <2>2 DEF Counted, BytesInOrder, ReadPiece
  <2> QED BY <2>1, <2>3, IntKeeps
<1> QED BY <1>1, <1>2, <1>3, <1>4 DEF RInv

\* A call that returns what it has: at the end, or interrupted with a full buffer.
LEMMA ReturnIsTrue ==
  ASSUME RInv, count' = ToInt(nread), ~failed,
         UNCHANGED <<len, nread, failed>>
  PROVE  CountIsTrue'
<1> SUFFICES ASSUME len <= MaxInt PROVE count' = nread
  BY DEF CountIsTrue
<1>1. MaxInt \in Nat BY ReadallAssumption DEF ReadallAssumption
<1>2. nread \in Nat /\ nread <= MaxInt BY <1>1 DEF RInv, Counted, BytesInOrder
<1> QED BY <1>2, IntKeeps

LEMMA EndIsSeen ==
  ASSUME RInv, ReadEnd
  PROVE  RInv'
<1>1. Counted' /\ BytesInOrder' BY DEF RInv, Counted, BytesInOrder, ReadEnd
<1>2. ShortOnlyAtEnd' BY DEF RInv, Counted, ShortOnlyAtEnd, ReadEnd, Ends
<1>3. CountIsTrue' BY ReturnIsTrue DEF ReadEnd, RInv, Counted
<1> QED BY <1>1, <1>2, <1>3 DEF RInv

LEMMA InterruptHarmless ==
  ASSUME RInv, ReadInterrupted
  PROVE  RInv'
<1>1. Counted' /\ BytesInOrder'
  BY DEF RInv, Counted, BytesInOrder, ReadInterrupted, InterruptResumes
<1>2. ShortOnlyAtEnd'
  BY DEF RInv, Counted, ShortOnlyAtEnd, ReadInterrupted, InterruptResumes
<1>3. CountIsTrue'
  <2>1. CASE nread < len
    BY <2>1 DEF RInv, Counted, CountIsTrue, ReadInterrupted, InterruptResumes
  <2>2. CASE ~(nread < len)
    BY <2>2, ReturnIsTrue DEF RInv, Counted, ReadInterrupted, InterruptResumes
  <2> QED BY <2>1, <2>2
<1> QED BY <1>1, <1>2, <1>3 DEF RInv

LEMMA StreamIsKept ==
  ASSUME RInv, [ReadallNext]_fvars
  PROVE  RInv'
<1>1. ASSUME NEW n \in 1 .. StreamBound, ReadPiece(n) PROVE RInv'
  BY <1>1, PieceFollows
<1>2. CASE ReadEnd BY <1>2, EndIsSeen
<1>3. CASE ReadInterrupted BY <1>3, InterruptHarmless
<1>4. CASE ReadFails
  <2>1. Counted' /\ BytesInOrder'
    BY <1>4 DEF RInv, Counted, BytesInOrder, ReadFails
  <2>2. ShortOnlyAtEnd' /\ CountIsTrue'
    BY <1>4 DEF ShortOnlyAtEnd, CountIsTrue, ReadFails
  <2> QED BY <2>1, <2>2 DEF RInv
<1>5. CASE WriteMore
  BY <1>5 DEF RInv, Counted, BytesInOrder, ShortOnlyAtEnd, CountIsTrue, WriteMore
<1>6. CASE CloseStream
  BY <1>6 DEF RInv, Counted, BytesInOrder, ShortOnlyAtEnd, CountIsTrue, CloseStream
<1>7. ASSUME NEW want \in BufferSizes, CallReadall(want) PROVE RInv'
  <2>1. want \in Nat BY ReadallAssumption DEF ReadallAssumption
  <2>2. Counted' BY <1>7, <2>1 DEF RInv, Counted, CallReadall
  <2>3. BytesInOrder' BY <1>7, <2>1 DEF RInv, Counted, BytesInOrder, CallReadall
  <2>4. ShortOnlyAtEnd' /\ CountIsTrue'
    BY <1>7 DEF ShortOnlyAtEnd, CountIsTrue, CallReadall
  <2> QED BY <2>2, <2>3, <2>4 DEF RInv
<1>8. CASE UNCHANGED fvars
  BY <1>8 DEF RInv, Counted, BytesInOrder, ShortOnlyAtEnd, CountIsTrue, fvars
<1> QED
  BY <1>1, <1>2, <1>3, <1>4, <1>5, <1>6, <1>7, <1>8 DEF ReadallNext, ReadStep

-----------------------------------------------------------------------------
LEMMA RInvHolds == ReadallSpec => []RInv
  BY ReadallStarts, StreamIsKept, PTL DEF ReadallSpec

\* The buffer holds the stream's bytes in order, whatever pieces they came in
\* (the loop of readall).
THEOREM PiecesAreJoined == ReadallSpec => []BytesInOrder
<1>1. RInv => BytesInOrder BY DEF RInv
<1> QED BY <1>1, RInvHolds, PTL

\* The result tells errors from lengths, while the buffer's length is an int
\* (the conversion in readall's return), and less than was asked for means the
\* end of the stream (readall's loop goes on after short reads and signals).
THEOREM ResultIsTrue == ReadallSpec => []ResultTellsAll
<1>1. RInv => ResultTellsAll BY DEF RInv, ResultTellsAll
<1> QED BY <1>1, RInvHolds, PTL

-----------------------------------------------------------------------------
(* Child processes.                                                        *)

\* Nobody runs under a pid whose child the program has just heard has ended.
AnswerStands == told /\ answer # "running" => subject \in Pids /\ proc[subject] # "running"

ChildInv == ChildTypeOK /\ StatusIsKept /\ AnswerIsTrue /\ AnswerStands

LEMMA ChildStarts == ChildInit => ChildInv
  BY DEF ChildInit, ChildInv, ChildTypeOK, StatusIsKept, AnswerIsTrue, AnswerStands

LEMMA ForkKeeps ==
  ASSUME ChildInv, NEW p \in Pids, Fork(p)
  PROVE  ChildInv'
<1>1. ChildTypeOK'
  BY DEF ChildInv, ChildTypeOK, Fork
<1>2. StatusIsKept'
  BY DEF ChildInv, ChildTypeOK, StatusIsKept, Fork
<1> QED
  BY <1>1, <1>2 DEF ChildInv, AnswerIsTrue, AnswerStands, Fork

LEMMA EndKeeps ==
  ASSUME ChildInv, NEW p \in Pids, ChildEnds(p)
  PROVE  ChildInv'
<1> PICK f \in {"success", "failure", "signal"} : fate' = [fate EXCEPT ![p] = f]
  BY DEF ChildEnds
<1>1. ChildTypeOK'
  BY DEF ChildInv, ChildTypeOK, ChildEnds
<1>2. StatusIsKept'
  BY DEF ChildInv, ChildTypeOK, StatusIsKept, ChildEnds
<1>3. AnswerIsTrue' /\ AnswerStands'
  BY DEF ChildInv, ChildTypeOK, AnswerIsTrue, AnswerStands, ChildEnds
<1> QED
  BY <1>1, <1>2, <1>3 DEF ChildInv

LEMMA AnswerKeeps ==
  ASSUME ChildInv, NoneEnded \/ NoChild \/ ReapAsked
  PROVE  ChildInv'
<1> USE DEF ChildInv, Answer
<1>1. CASE NoneEnded
  BY <1>1 DEF NoneEnded, ChildTypeOK, StatusIsKept, AnswerIsTrue, AnswerStands
<1>2. CASE NoChild
  <2>1. ~ told'
    BY <1>2, ChildAssumption DEF NoChild, Matching, ChildTypeOK, StatusIsKept, ChildAssumption
  <2>2. ChildTypeOK' /\ StatusIsKept'
    BY <1>2, <2>1 DEF NoChild, ChildTypeOK, StatusIsKept
  <2> QED
    BY <2>1, <2>2 DEF AnswerIsTrue, AnswerStands
<1>3. CASE ReapAsked
  <2>1. asked \in Pids /\ proc[asked] = "ended" /\ Verdict(asked) # "running"
    BY <1>3 DEF ReapAsked, Ended, Matching, Verdict
  <2>2. ChildTypeOK'
    BY <1>3, <2>1 DEF ReapAsked, Reaped, Verdict, ChildTypeOK
  <2>3. StatusIsKept'
    BY <1>3, <2>1 DEF ReapAsked, Reaped, ChildTypeOK, StatusIsKept
  <2>4. AnswerIsTrue' /\ AnswerStands'
    BY <1>3, <2>1
    DEF ReapAsked, Reaped, Verdict, ChildTypeOK, StatusIsKept, AnswerIsTrue, AnswerStands
  <2> QED
    BY <2>2, <2>3, <2>4
<1> QED
  BY <1>1, <1>2, <1>3

LEMMA ReapOtherKeeps ==
  ASSUME ChildInv, NEW p \in Pids, ReapOther(p)
  PROVE  ChildInv'
  BY DEF ChildInv, ReapOther, Reaped, Ended, Matching, ChildTypeOK, StatusIsKept, AnswerIsTrue,
         AnswerStands

LEMMA ChildStep ==
  ASSUME ChildInv, [ChildCalls \/ ChildEnvironment]_pvars
  PROVE  ChildInv'
<1>1. ASSUME NEW t \in Pids \cup {Any}, CallReap(t) PROVE ChildInv'
  BY <1>1 DEF ChildInv, CallReap, ChildTypeOK, StatusIsKept, AnswerIsTrue, AnswerStands
<1>2. CASE UNCHANGED pvars
  BY <1>2 DEF ChildInv, pvars, ChildTypeOK, StatusIsKept, AnswerIsTrue, AnswerStands
<1> QED
  BY <1>1, <1>2, ForkKeeps, EndKeeps, AnswerKeeps, ReapOtherKeeps
  DEF ChildCalls, ChildEnvironment, ReapStep

\* How a child ended is kept for the caller who asks for it first, and what
\* try_reap() tells it of that end is true, also when pids are used again; unless
\* the status was discarded, by asking for any child or by ignoring SIGCHLD.
THEOREM StatusesAreKept == ChildSpec => []StatusReachesCaller
<1>1. ChildInv => StatusReachesCaller
  BY DEF ChildInv, StatusReachesCaller
<1> QED
  BY <1>1, ChildStarts, ChildStep, PTL DEF ChildSpec

-----------------------------------------------------------------------------
(* Clipboard.                                                              *)

\* A client whose request waits, or is in hand, waits too or is gone; so it asks
\* for nothing else.  One that an error tells of is gone.
AskedOnce ==
  /\ \A i \in DOMAIN queue : client[queue[i].from] # "idle"
  /\ \A i \in DOMAIN queue : queue[i].target = "error" => client[queue[i].from] = "gone"
  /\ clip_pc \in {"describe", "serve"} =>
       client[event.from] # "idle" /\ \A i \in DOMAIN queue : queue[i].from # event.from

ClipInv == ClipTypeOK /\ AskedOnce

\* What the call's window sees, steps that leave the queue alone.
LEMMA QueueLeft ==
  ASSUME ClipInv, [ClipStep \/ ClipEnvironment]_cvars, queue' = queue
  PROVE  ClipInv'
<1> DEFINE Sorts ==
      /\ clip_pc \in {"idle", "map", "own", "check", "timer", "describe", "serve", "close",
                      "killed"}
      /\ owner \in {"none", "us", "other"} /\ mapped \in BOOLEAN /\ late \in BOOLEAN
      /\ event \in Requests /\ client \in [Requestors -> {"idle", "waiting", "gone"}]
      /\ pastes \in Nat /\ returned \in {"none", "true", "false"}
<1>a. /\ Sorts /\ AskedOnce /\ event.from \in Requestors
      /\ \A i \in DOMAIN queue : queue[i].from \in Requestors
  <2>1. \A i \in DOMAIN queue : queue[i] \in Requests \cup Errors
    BY LenProperties, ElementOfSeq DEF ClipInv, ClipTypeOK
  <2> QED
    BY <2>1 DEF ClipInv, ClipTypeOK, Requests, Errors
<1>b. ~ Take /\ \A r \in Requestors : ~ Ask(r)
  <2>1. ASSUME Take PROVE FALSE
    <3>0. DOMAIN queue = 1 .. Len(queue) /\ Len(queue) \in Nat
      BY LenProperties DEF ClipInv, ClipTypeOK
    <3>1. queue # << >>
      <4>1. 1 \in 1 .. Len(queue)
        BY <2>1, <3>0 DEF Take, RequestsAt
      <4>2. Len(queue) # 0
        BY <3>0, <4>1
      <4> QED
        BY <4>2, EmptySeq
    <3>2. Len(Tail(queue)) = Len(queue) - 1 /\ Len(queue) \in Nat
      BY <3>1, LenProperties, HeadTailProperties DEF ClipInv, ClipTypeOK
    <3> QED
      BY <2>1, <3>2 DEF Take, Remaining
  <2>2. ASSUME NEW r \in Requestors, Ask(r) PROVE FALSE
    <3>1. PICK q \in Requests : queue' = Append(queue, q)
      BY <2>2 DEF Ask
    <3>2. Len(queue') = Len(queue) + 1 /\ Len(queue) \in Nat
      BY <3>1, AppendProperties, LenProperties DEF ClipInv, ClipTypeOK
    <3> QED
      BY <3>2
  <2> QED
    BY <2>1, <2>2
<1>1. ASSUME NEW r \in Requestors, Depart(r) \/ GiveUp(r)
      PROVE  Sorts' /\ AskedOnce'
  <2>1. UNCHANGED <<clip_pc, owner, mapped, late, queue, event, pastes, returned>>
    BY <1>1 DEF Depart, GiveUp
  <2>2. \E s \in {"idle", "gone"} : client' = [client EXCEPT ![r] = s]
    BY <1>1 DEF Depart, GiveUp
  <2>3. Sorts'
    BY <1>a, <2>1, <2>2
  <2>4. CASE Depart(r)
    <3>1. client' = [client EXCEPT ![r] = "gone"]
      BY <2>4 DEF Depart
    <3> QED
      BY <1>a, <2>1, <2>3, <3>1 DEF AskedOnce
  <2>5. CASE GiveUp(r)
    <3>1. /\ client' = [client EXCEPT ![r] = "idle"] /\ client[r] = "waiting"
          /\ \A i \in DOMAIN queue : queue[i].target # "error" => queue[i].from # r
          /\ clip_pc \in {"describe", "serve"} => event.from # r
      BY <2>5 DEF GiveUp, RequestsAt
    <3>2. \A i \in DOMAIN queue : queue[i].from # r
      BY <1>a, <3>1 DEF AskedOnce
    <3> QED
      BY <1>a, <2>1, <2>3, <3>1, <3>2 DEF AskedOnce
  <2> QED
    BY <1>1, <2>4, <2>5
<1>2. ASSUME Describe \/ Serve
      PROVE  Sorts' /\ AskedOnce'
  <2>0. ~ Unanswered
    <3> SUFFICES ASSUME queue' = Append(queue, [from |-> event.from, target |-> "error"])
                 PROVE  FALSE
      BY DEF Unanswered
    <3>1. [from |-> event.from, target |-> "error"] \in Requests \cup Errors
      BY <1>a DEF Errors
    <3>2. Len(queue') = Len(queue) + 1 /\ Len(queue) \in Nat
      BY <3>1, AppendProperties, LenProperties DEF ClipInv, ClipTypeOK
    <3> QED
      BY <3>2
  <2>1. /\ client' = [client EXCEPT ![event.from] = "idle"]
        /\ clip_pc' \in {"own", "close"}
        /\ \A i \in DOMAIN queue : queue[i].from # event.from
    BY <1>a, <1>2, <2>0 DEF Describe, Serve, Answered, Finish, Leave, AskedOnce
  <2>2. Sorts'
    BY <1>a, <1>2, <2>1 DEF Describe, Serve, Finish, Leave
  <2> QED
    BY <1>a, <2>1, <2>2 DEF AskedOnce
<1>3. ASSUME \/ Mapped \/ Own \/ FindNothing \/ ReadTimer \/ ErrorArrives \/ CloseDisplay
             \/ Call \/ ServerMaps \/ TakeOver \/ Expire \/ UNCHANGED cvars
      PROVE  Sorts' /\ AskedOnce'
  <2>1. UNCHANGED <<event, client>>
        /\ (clip_pc' = clip_pc \/ clip_pc' \notin {"describe", "serve"})
    BY <1>3 DEF Mapped, Own, FindNothing, ReadTimer, PollAgain, Leave, ErrorArrives,
                CloseDisplay, Exits, Call, ServerMaps, TakeOver, Expire, cvars
  <2>2. Sorts'
    <3>1. CASE Mapped \/ Own \/ FindNothing \/ UNCHANGED cvars
      BY <1>a, <3>1 DEF Mapped, Own, FindNothing, cvars
    <3>2. CASE ReadTimer
      BY <1>a, <3>2 DEF ReadTimer, PollAgain, Leave
    <3>3. CASE ErrorArrives \/ CloseDisplay
      BY <1>a, <3>3 DEF ErrorArrives, CloseDisplay, Exits, Disconnected
    <3>4. CASE Call
      BY <1>a, <3>4 DEF Call
    <3>6. CASE ServerMaps
      BY <1>a, <3>6 DEF ServerMaps
    <3>5. CASE TakeOver \/ Expire
      BY <1>a, <3>5 DEF TakeOver, Expire
    <3> QED
      BY <1>3, <3>1, <3>2, <3>3, <3>4, <3>5, <3>6
  <2> QED
    BY <1>a, <2>1, <2>2 DEF AskedOnce
<1>4. Sorts' /\ AskedOnce'
  <2> HIDE DEF Sorts
  <2> QED
    BY <1>b, <1>1, <1>2, <1>3 DEF ClipStep, ClipEnvironment
<1> QED
  BY <1>4 DEF ClipInv, ClipTypeOK

LEMMA TakeKeepsClip ==
  ASSUME ClipInv, Take
  PROVE  ClipInv'
<1> DEFINE n == Len(queue)
<1>1. /\ queue \in Seq(Requests \cup Errors) /\ n \in Nat /\ DOMAIN queue = 1 .. n /\ n > 0
      /\ \A i \in 1 .. n : queue[i] \in Requests \cup Errors
  BY LenProperties, ElementOfSeq, EmptySeq DEF ClipInv, ClipTypeOK, Take, RequestsAt
<1>2. /\ event' = queue[1] /\ event' \in Requests /\ queue' = Tail(queue)
  BY <1>1 DEF Take, Remaining, RequestsAt, Errors
<1>3. /\ queue' \in Seq(Requests \cup Errors) /\ DOMAIN queue' = 1 .. n - 1
      /\ \A i \in 1 .. n - 1 : queue'[i] = queue[i + 1]
  BY <1>1, <1>2, HeadTailProperties, LenProperties
<1> HIDE DEF n
<1>4. \A i, j \in DOMAIN queue' : queue'[i].from = queue'[j].from => i = j
  <2> SUFFICES ASSUME NEW i \in 1 .. n - 1, NEW j \in 1 .. n - 1, queue'[i].from = queue'[j].from
               PROVE  i = j
    BY <1>3
  <2>1. i + 1 \in DOMAIN queue /\ j + 1 \in DOMAIN queue /\ queue[i + 1].from = queue[j + 1].from
    BY <1>1, <1>3
  <2>2. i + 1 = j + 1
    BY <2>1 DEF ClipInv, ClipTypeOK
  <2> QED
    BY <1>1, <2>2
<1>5. clip_pc' \in {"serve", "describe", "own"}
  <2>1. \A t : Handling(t) \in {"serve", "describe", "own"}
    BY Zenon DEF Handling
  <2> QED
    BY <2>1 DEF Take
<1>6. ClipTypeOK'
  BY <1>2, <1>3, <1>4, <1>5 DEF ClipInv, ClipTypeOK, Take
<1>7. client' = client /\ 1 \in DOMAIN queue
  BY <1>1 DEF Take
<1>8. client[event'.from] # "idle"
  BY <1>2, <1>7 DEF ClipInv, AskedOnce
<1>9. ASSUME NEW i \in 1 .. n - 1
      PROVE  /\ client[queue'[i].from] # "idle" /\ queue'[i].from # event'.from
             /\ queue'[i].target = "error" => client[queue'[i].from] = "gone"
  <2>1. queue'[i] = queue[i + 1] /\ i + 1 \in DOMAIN queue /\ i + 1 # 1
    BY <1>1, <1>3
  <2> QED
    BY <1>2, <1>7, <2>1 DEF ClipInv, ClipTypeOK, AskedOnce
<1>10. AskedOnce'
  BY <1>3, <1>7, <1>8, <1>9 DEF AskedOnce
<1> QED
  BY <1>6, <1>10 DEF ClipInv

LEMMA AskKeepsClip ==
  ASSUME ClipInv, NEW r \in Requestors, Ask(r)
  PROVE  ClipInv'
<1> DEFINE n == Len(queue)
<1>1. /\ queue \in Seq(Requests \cup Errors) /\ n \in Nat /\ DOMAIN queue = 1 .. n
      /\ \A i \in 1 .. n : queue[i] \in Requests \cup Errors
      /\ client \in [Requestors -> {"idle", "waiting", "gone"}]
  BY LenProperties, ElementOfSeq DEF ClipInv, ClipTypeOK
<1>2. PICK q \in Requests : q.from = r /\ queue' = Append(queue, q)
  BY DEF Ask
<1>3. /\ queue' \in Seq(Requests \cup Errors) /\ DOMAIN queue' = 1 .. n + 1
      /\ \A i \in 1 .. n : queue'[i] = queue[i]
      /\ queue'[n + 1] = q
  BY <1>1, <1>2, AppendProperties, LenProperties
<1> HIDE DEF n
<1>4. /\ client[r] = "idle" /\ client' = [client EXCEPT ![r] = "waiting"]
      /\ UNCHANGED <<clip_pc, owner, mapped, late, event, pastes, returned>>
  BY DEF Ask
<1>5. \A i \in 1 .. n : queue[i].from # r /\ queue[i].from \in Requestors
  BY <1>1, <1>4 DEF ClipInv, AskedOnce, Requests, Errors
<1>6. \A i, j \in DOMAIN queue' : queue'[i].from = queue'[j].from => i = j
  BY <1>1, <1>2, <1>3, <1>5 DEF ClipInv, ClipTypeOK
<1>7. ClipTypeOK'
  BY <1>1, <1>3, <1>4, <1>6 DEF ClipInv, ClipTypeOK
<1>8. \A i \in 1 .. n : client'[queue'[i].from] # "idle"
  BY <1>1, <1>3, <1>4, <1>5 DEF ClipInv, AskedOnce
<1>9. client'[queue'[n + 1].from] # "idle"
  BY <1>1, <1>2, <1>3, <1>4
<1>10. ASSUME clip_pc \in {"describe", "serve"}
       PROVE  /\ client'[event.from] # "idle"
              /\ \A i \in 1 .. n + 1 : queue'[i].from # event.from
  <2>1. event.from \in Requestors /\ event.from # r
    BY <1>4, <1>10 DEF ClipInv, ClipTypeOK, AskedOnce, Requests
  <2>2. \A i \in 1 .. n : queue[i].from # event.from
    BY <1>1, <1>10 DEF ClipInv, AskedOnce
  <2>3. client[event.from] # "idle"
    BY <1>10 DEF ClipInv, AskedOnce
  <2> QED
    BY <1>1, <1>2, <1>3, <1>4, <2>1, <2>2, <2>3
<1>11. \A i \in 1 .. n + 1 : client'[queue'[i].from] # "idle"
  BY <1>1, <1>8, <1>9
<1>13. ASSUME NEW i \in 1 .. n + 1, queue'[i].target = "error"
       PROVE  client'[queue'[i].from] = "gone"
  <2>1. queue'[n + 1].target # "error"
    BY <1>2, <1>3 DEF Requests
  <2>2. i \in 1 .. n /\ queue'[i] = queue[i]
    BY <1>1, <1>3, <1>13, <2>1
  <2> QED
    BY <1>1, <1>4, <1>5, <1>13, <2>2 DEF ClipInv, AskedOnce
<1>12. AskedOnce'
  BY <1>3, <1>4, <1>10, <1>11, <1>13 DEF AskedOnce
<1> QED
  BY <1>7, <1>12 DEF ClipInv

\* An answer that does not reach its client is followed by an error.
LEMMA ErrorSent ==
  ASSUME ClipInv, Describe \/ Serve, Unanswered
  PROVE  ClipInv'
<1> DEFINE n == Len(queue)
           e == [from |-> event.from, target |-> "error"]
<1>1. /\ queue \in Seq(Requests \cup Errors) /\ n \in Nat /\ DOMAIN queue = 1 .. n
      /\ event \in Requests /\ event.from \in Requestors
  BY LenProperties DEF ClipInv, ClipTypeOK, Requests
<1>2. e \in Requests \cup Errors /\ e.from = event.from /\ e.target = "error"
  BY <1>1 DEF Errors
<1>3. queue' = Append(queue, e) /\ client' = client /\ client[event.from] = "gone"
  BY DEF Unanswered
<1> HIDE DEF e
<1>4. /\ queue' \in Seq(Requests \cup Errors) /\ DOMAIN queue' = 1 .. n + 1
      /\ \A i \in 1 .. n : queue'[i] = queue[i]
      /\ queue'[n + 1] = e
  BY <1>1, <1>2, <1>3, AppendProperties, LenProperties
<1> HIDE DEF n
<1>5. \A i \in 1 .. n : queue[i].from # event.from
  BY <1>1 DEF ClipInv, AskedOnce, Describe, Serve
<1>6. \A i, j \in DOMAIN queue' : queue'[i].from = queue'[j].from => i = j
  <2> SUFFICES ASSUME NEW i \in 1 .. n + 1, NEW j \in 1 .. n + 1,
                      queue'[i].from = queue'[j].from
               PROVE  i = j
    BY <1>4
  <2>1. CASE i \in 1 .. n /\ j \in 1 .. n
    BY <1>1, <1>4, <2>1 DEF ClipInv, ClipTypeOK
  <2>2. CASE i = n + 1 \/ j = n + 1
    BY <1>1, <1>2, <1>4, <1>5, <2>2
  <2> QED
    BY <1>1, <2>1, <2>2
<1>7. /\ UNCHANGED <<owner, mapped, late, event>> /\ clip_pc' \in {"own", "close"}
      /\ pastes' \in Nat /\ returned' \in {"none", "true", "false"}
  BY DEF ClipInv, ClipTypeOK, Describe, Serve, Finish, Leave
<1>8. ClipTypeOK'
  BY <1>3, <1>4, <1>6, <1>7 DEF ClipInv, ClipTypeOK
<1>9. ASSUME NEW i \in 1 .. n + 1
      PROVE  /\ client'[queue'[i].from] # "idle"
             /\ queue'[i].target = "error" => client'[queue'[i].from] = "gone"
  <2>1. CASE i \in 1 .. n
    BY <1>1, <1>3, <1>4, <2>1 DEF ClipInv, AskedOnce
  <2>2. CASE i = n + 1
    BY <1>2, <1>3, <1>4, <2>2
  <2> QED
    BY <1>1, <2>1, <2>2
<1>10. AskedOnce'
  BY <1>4, <1>7, <1>9 DEF AskedOnce
<1> QED
  BY <1>8, <1>10 DEF ClipInv

LEMMA QueueEmptied ==
  ASSUME ClipInv, ErrorArrives \/ CloseDisplay
  PROVE  ClipInv'
<1>1. queue' = << >> /\ << >> \in Seq(Requests \cup Errors) /\ DOMAIN << >> = {}
  BY EmptySeq DEF ErrorArrives, CloseDisplay, Disconnected
<1>2. ClipTypeOK'
  BY <1>1 DEF ClipInv, ClipTypeOK, ErrorArrives, CloseDisplay, Exits, Disconnected
<1>3. clip_pc' \in {"idle", "killed"}
  BY DEF ErrorArrives, CloseDisplay, Exits
<1> QED
  BY <1>1, <1>2, <1>3 DEF ClipInv, AskedOnce

LEMMA ClipKeeps ==
  ASSUME ClipInv, [ClipStep \/ ClipEnvironment]_cvars
  PROVE  ClipInv'
<1>1. CASE queue' = queue
  BY <1>1, QueueLeft
<1>2. CASE Take
  BY <1>2, TakeKeepsClip
<1>3. ASSUME NEW r \in Requestors, Ask(r) PROVE ClipInv'
  BY <1>3, AskKeepsClip
<1>4. CASE ErrorArrives \/ CloseDisplay
  BY <1>4, QueueEmptied
<1>7. CASE Describe \/ Serve
  <2>1. Answered => queue' = queue
    BY DEF Answered
  <2>2. Answered \/ Unanswered
    BY <1>7 DEF Describe, Serve
  <2> QED
    BY <1>1, <1>7, <2>1, <2>2, ErrorSent
<1>5. CASE Mapped \/ Own \/ FindNothing \/ ReadTimer \/ UNCHANGED cvars
  BY <1>1, <1>5 DEF Mapped, Own, FindNothing, ReadTimer, cvars
<1>6. CASE Call \/ ServerMaps \/ TakeOver \/ Expire \/ \E r \in Requestors : Depart(r) \/ GiveUp(r)
  BY <1>1, <1>6 DEF Call, ServerMaps, TakeOver, Expire, Depart, GiveUp
<1> QED
  BY <1>2, <1>3, <1>4, <1>5, <1>6, <1>7 DEF ClipStep, ClipEnvironment

LEMMA ClipStarts == ClipInit => ClipInv
<1> SUFFICES ASSUME ClipInit PROVE ClipInv
  OBVIOUS
<1>1. queue \in Seq(Requests \cup Errors) /\ DOMAIN queue = {}
  BY EmptySeq DEF ClipInit
<1> QED
  BY <1>1 DEF ClipInit, ClipInv, ClipTypeOK, AskedOnce

LEMMA HandlingGoesOn ==
  ASSUME NEW target
  PROVE  Handling(target) \notin {"idle", "close", "killed"}
  BY Zenon DEF Handling

\* What the result will be is settled as the display is closed, but for an error
\* that is still on its way.
CloseTells ==
  clip_pc = "close" /\ ErrorsAt = {} => (pastes = 1 <=> returned = "true")

PasteInv == ResultTellsPaste /\ CloseTells

LEMMA PasteStarts == ClipInit => PasteInv
  BY DEF ClipInit, PasteInv, ResultTellsPaste, CloseTells

\* An error tells of a client that is gone.
LEMMA GoneClient ==
  ASSUME ClipInv, ErrorsAt # {}
  PROVE  \E r \in Requestors : client[r] = "gone"
<1>1. PICK i \in DOMAIN queue : queue[i].target = "error"
  BY DEF ErrorsAt
<1>2. queue[i] \in Requests \cup Errors
  BY <1>1, LenProperties, ElementOfSeq DEF ClipInv, ClipTypeOK
<1>3. queue[i].from \in Requestors
  BY <1>2 DEF Requests, Errors
<1> QED
  BY <1>1, <1>3 DEF ClipInv, AskedOnce

LEMMA PasteStep ==
  ASSUME ClipInv, PasteInv, [ClipStep \/ ClipEnvironment]_cvars
  PROVE  PasteInv'
<1> USE DEF PasteInv, ResultTellsPaste, CloseTells
<1>1. CASE ClipStep
  <2>1. CASE Take
    BY <2>1, HandlingGoesOn DEF Take
  <2>2. CASE Mapped \/ Own \/ FindNothing
    BY <2>2 DEF Mapped, Own, FindNothing
  <2>3. CASE ReadTimer
    BY <2>3 DEF ReadTimer, Leave, PollAgain
  <2>4. CASE Describe
    BY <2>4 DEF Describe
  <2>5. CASE Serve
    <3>1. pastes = 0 /\ clip_pc' = "close" /\ returned' = "true"
      BY <2>5 DEF Serve, Finish, Leave
    <3>2. CASE Answered /\ pastes' = pastes + 1
      BY <3>1, <3>2
    <3>3. CASE Unanswered /\ UNCHANGED pastes
      <4>1. ErrorsAt' # {}
        <5>1. [from |-> event.from, target |-> "error"] \in Requests \cup Errors
          BY DEF ClipInv, ClipTypeOK, Requests, Errors
        <5>2. /\ queue'[Len(queue) + 1].target = "error"
              /\ Len(queue) + 1 \in DOMAIN queue'
          BY <3>3, <5>1, AppendProperties, LenProperties DEF Unanswered, ClipInv, ClipTypeOK
        <5> QED
          BY <5>2 DEF ErrorsAt
      <4> QED
        BY <3>1, <3>3, <4>1
    <3> QED
      BY <2>5, <3>2, <3>3 DEF Serve
  <2>6. CASE ErrorArrives \/ (CloseDisplay /\ ErrorComes)
    <3>1. \E r \in Requestors : client[r] = "gone"
      BY <2>6, GoneClient DEF ErrorArrives, ErrorComes
    <3>2. UNCHANGED <<client, pastes>> /\ clip_pc' # "close" /\ clip_pc' # "idle"
      <4>1. CASE ErrorArrives
        BY <4>1 DEF ErrorArrives, Exits
      <4>2. CASE CloseDisplay /\ ErrorComes
        BY <4>2 DEF CloseDisplay, Exits
      <4> QED
        BY <2>6, <4>1, <4>2
    <3> QED
      BY <2>6, <3>1, <3>2 DEF ErrorArrives, CloseDisplay, Exits
  <2>7. CASE CloseDisplay /\ ~ErrorComes
    BY <2>7 DEF CloseDisplay, ErrorComes
  <2> QED
    BY <1>1, <2>1, <2>2, <2>3, <2>4, <2>5, <2>6, <2>7 DEF ClipStep
<1>2. CASE ClipEnvironment
  <2>1. CASE Call
    BY <2>1 DEF Call
  <2>2. CASE ServerMaps \/ TakeOver \/ Expire
    BY <2>2 DEF ServerMaps, TakeOver, Expire, ErrorsAt
  <2>3. ASSUME NEW r \in Requestors, Depart(r) \/ GiveUp(r) PROVE PasteInv'
    <3>1. UNCHANGED <<clip_pc, queue, pastes, returned>>
      BY <2>3 DEF Depart, GiveUp
    <3>2. ASSUME clip_pc = "killed" PROVE \E x \in Requestors : client'[x] = "gone"
      <4>1. client' = [client EXCEPT ![r] = "gone"]
        BY <2>3, <3>2 DEF Depart, GiveUp
      <4> QED
        BY <4>1 DEF ClipInv, ClipTypeOK
    <3> QED
      BY <3>1, <3>2 DEF ErrorsAt
  <2>4. ASSUME NEW r \in Requestors, Ask(r) PROVE PasteInv'
    <3>1. /\ UNCHANGED <<clip_pc, pastes, returned>> /\ client[r] = "idle"
          /\ client' = [client EXCEPT ![r] = "waiting"]
      BY <2>4 DEF Ask
    <3>2. ASSUME clip_pc = "killed" PROVE \E x \in Requestors : client'[x] = "gone"
      BY <3>1, <3>2 DEF ClipInv, ClipTypeOK
    <3>3. ErrorsAt' = {} => ErrorsAt = {}
      <4>1. PICK q \in Requests : queue' = Append(queue, q)
        BY <2>4 DEF Ask
      <4>2. /\ DOMAIN queue \subseteq DOMAIN queue'
            /\ \A i \in DOMAIN queue : queue'[i] = queue[i]
        BY <4>1, AppendProperties, LenProperties DEF ClipInv, ClipTypeOK
      <4> QED
        BY <4>2 DEF ErrorsAt
    <3> QED
      BY <3>1, <3>2, <3>3
  <2> QED
    BY <1>2, <2>1, <2>2, <2>3, <2>4 DEF ClipEnvironment
<1>3. CASE UNCHANGED cvars
  BY <1>3 DEF cvars, ErrorsAt
<1> QED
  BY <1>1, <1>2, <1>3

\* The call hands the string over once at most, and what it returns says whether a
\* client that was there has it (the loop that serves requests, its timer, and
\* errors that Xlib reads later, as late as in XCloseDisplay); the program ends
\* without a result only when a client has left.
THEOREM PasteIsTold == ClipSpec => []ResultTellsPaste
<1>1. ClipInit => ClipInv /\ PasteInv
  BY ClipStarts, PasteStarts
<1>2. ClipInv /\ PasteInv /\ [ClipStep \/ ClipEnvironment]_cvars => (ClipInv /\ PasteInv)'
  BY ClipKeeps, PasteStep
<1>3. PasteInv => ResultTellsPaste
  BY DEF PasteInv
<1> QED
  BY <1>1, <1>2, <1>3, PTL DEF ClipSpec

\* Once another client owns the selection and no request is left, the call only
\* runs into its timeout or into an error, although its loop claims the selection
\* in each turn.
THEOREM SelectionIsLeft == ClipSpec => NewerSelectionStands
<1>1. ASSUME Overtaken, [ClipStep \/ ClipEnvironment]_cvars
      PROVE  \/ Overtaken'
             \/ clip_pc' = "close" /\ returned' = "false" /\ owner' = "other"
             \/ clip_pc' = "killed" /\ owner' = "other"
  <2> USE <1>1 DEF Overtaken
  <2>1. CASE ClipStep
    <3>1. CASE FindNothing
      BY <3>1 DEF FindNothing, RequestsAt
    <3>2. CASE ReadTimer
      BY <3>2 DEF ReadTimer, Leave, PollAgain, RequestsAt
    <3>3. CASE ErrorArrives
      BY <3>3 DEF ErrorArrives, Exits, Disconnected
    <3> QED
      BY <2>1, <3>1, <3>2, <3>3 DEF ClipStep, Take, Mapped, Own, Describe, Serve, CloseDisplay
  <2>2. CASE ClipEnvironment
    BY <2>2 DEF ClipEnvironment, Call, ServerMaps, TakeOver, Expire, Ask, Depart, GiveUp,
                RequestsAt
  <2>3. CASE UNCHANGED cvars
    BY <2>3 DEF cvars, RequestsAt
  <2> QED
    BY <1>1, <2>1, <2>2, <2>3
<1>2. ClipSpec => [][ClipStep \/ ClipEnvironment]_cvars
  BY DEF ClipSpec
<1> QED
  BY <1>1, <1>2, PTL DEF NewerSelectionStands

-----------------------------------------------------------------------------
(* Directories.                                                            *)

DirInv == DirTypeOK /\ TrueMeansWalked

\* The innermost call, those around it, and a call put in its place.
LEMMA InnerAndOuter ==
  ASSUME walks \in Seq(Walks), walks # << >>
  PROVE  /\ Inner \in Walks /\ Outer \in Seq(Walks)
         /\ \A w \in Walks : Append(Outer, w) \in Seq(Walks)
<1>1. Len(walks) \in Nat /\ Len(walks) > 0
  BY EmptySeq, LenProperties
<1>2. \A i \in 1 .. Len(walks) - 1 : walks[i] \in Walks
  BY <1>1, ElementOfSeq
<1>3. Outer \in Seq(Walks)
  BY <1>1, <1>2, SubSeqProperties DEF Outer
<1> QED
  BY <1>1, <1>3, ElementOfSeq, AppendProperties DEF Inner

\* Before its callback is called and after it has returned.
LEMMA WalkUpdates ==
  ASSUME NEW w \in Walks
  PROVE  /\ [w EXCEPT !.inside = FALSE] \in Walks
         /\ \A e \in Entries : [w EXCEPT !.seen = @ \cup {e}, !.inside = TRUE] \in Walks
         /\ \A r \in {"true", "false"}, c \in {"error", "end", "stopped"} :
              [w EXCEPT !.result = r, !.cause = c, !.inside = FALSE] \in Walks
  BY DEF Walks

LEMMA ReturnKeeps ==
  ASSUME DirInv, walks # << >>, NEW result \in {"true", "false"},
         NEW cause \in {"error", "end", "stopped"}, DirReturns(result, cause),
         result = "true" =>
           \/ Inner.seen = Entries
           \/ Inner.fun = "readdir2" /\ cause = "stopped" /\ Inner.seen # {}
  PROVE  DirInv'
<1>1. Inner \in Walks /\ Outer \in Seq(Walks)
  BY InnerAndOuter DEF DirInv, DirTypeOK
<1>2. last' = [Inner EXCEPT !.result = result, !.cause = cause, !.inside = FALSE]
  BY DEF DirReturns
<1>3. last' \in Walks
  BY <1>1, <1>2, WalkUpdates
<1>4. last'.seen = Inner.seen /\ last'.fun = Inner.fun /\ last'.cause = cause /\ last'.result = result
  BY <1>1, <1>2 DEF Walks
<1> QED
  BY <1>1, <1>3, <1>4 DEF DirInv, DirTypeOK, DirReturns, TrueMeansWalked

LEMMA DirKeeps ==
  ASSUME DirInv, [DirNext]_lvars
  PROVE  DirInv'
<1>1. ASSUME NEW fun \in WalkFunctions, OpenDir(fun) PROVE DirInv'
  <2>1. Walk(fun) \in Walks
    BY DEF Walks, Walk
  <2>2. walks' \in Seq(Walks)
    BY <1>1, <2>1, AppendProperties DEF OpenDir, DirInv, DirTypeOK
  <2>3. descriptors' \in 0 .. Limit
    BY <1>1, DirectoryAssumption DEF DirectoryAssumption, OpenDir, DirInv, DirTypeOK
  <2> QED
    BY <1>1, <2>2, <2>3 DEF OpenDir, DirInv, DirTypeOK, TrueMeansWalked
<1>2. ASSUME NEW fun \in WalkFunctions, OpenDirFails(fun) PROVE DirInv'
  <2>1. PICK cause \in {"refused", "exhausted"} :
          last' = [Walk(fun) EXCEPT !.result = "false", !.cause = cause]
    BY <1>2 DEF OpenDirFails
  <2>2. last' \in Walks /\ last'.result = "false"
    BY <2>1 DEF Walks, Walk
  <2> QED
    BY <1>2, <2>2 DEF OpenDirFails, DirInv, DirTypeOK, TrueMeansWalked
<1>3. CASE ReadEntry
  <2>1. PICK e \in Entries :
          walks' = Append(Outer, [Inner EXCEPT !.seen = @ \cup {e}, !.inside = TRUE])
    BY <1>3 DEF ReadEntry
  <2>2. walks' \in Seq(Walks)
    BY <1>3, <2>1, InnerAndOuter, WalkUpdates DEF ReadEntry, DirInv, DirTypeOK
  <2> QED
    BY <1>3, <2>2 DEF ReadEntry, DirInv, DirTypeOK, TrueMeansWalked
<1>4. CASE ReadError
  BY <1>4, ReturnKeeps DEF ReadError, OnError
<1>5. CASE EndOfStream
  BY <1>5, ReturnKeeps DEF EndOfStream
<1>6. CASE CallbackReturns
  <2>1. Inner \in Walks /\ Inner.seen # {} /\ walks # << >>
    BY <1>6, InnerAndOuter DEF CallbackReturns, DirInv, DirTypeOK, Walks
  <2>2. CASE walks' = Append(Outer, [Inner EXCEPT !.inside = FALSE])
             /\ UNCHANGED <<descriptors, last>>
    BY <2>1, <2>2, InnerAndOuter, WalkUpdates DEF DirInv, DirTypeOK, TrueMeansWalked
  <2>3. CASE Inner.fun = "readdir2" /\ DirReturns("true", "stopped")
    BY <2>1, <2>3, ReturnKeeps
  <2> QED
    BY <1>6, <2>2, <2>3 DEF CallbackReturns
<1>7. CASE UNCHANGED lvars
  BY <1>7 DEF lvars, DirInv, DirTypeOK, TrueMeansWalked
<1> QED
  BY <1>1, <1>2, <1>3, <1>4, <1>5, <1>6, <1>7 DEF DirNext, DirStep

LEMMA DirStarts == DirInit => DirInv
<1>1. Walk("readdir") \in Walks
  BY DEF Walks, Walk, WalkFunctions
<1> QED
  BY <1>1, EmptySeq, DirectoryAssumption
  DEF DirectoryAssumption, DirInit, DirInv, DirTypeOK, TrueMeansWalked, Walk

\* A walk that returns true gave its callback every entry, or was stopped by it
\* (readdir, readdir2 and walks nested in their callbacks).
THEOREM TrueIsEarned == DirSpec => []TrueMeansWalked
<1>1. DirInit => DirInv
  BY DirStarts
<1>2. DirInv => TrueMeansWalked
  BY DEF DirInv
<1> QED
  BY <1>1, <1>2, DirKeeps, PTL DEF DirSpec

-----------------------------------------------------------------------------
(* A program that uses one of them.                                        *)

HostInv ==
  /\ RawInv /\ SizeInv /\ ClipInv /\ PasteInv /\ ChildInv
  /\ ReadallTypeOK /\ RInv /\ DirInv

LEMMA HostStarts == HostInit => HostInv
BY RawStarts, SizeStarts, ClipStarts, PasteStarts, ChildStarts, ReadallTypesStart,
   ReadallStarts, DirStarts
DEF HostInit, HostInv

\* A step of the program is one of the part it uses, and leaves the others.
LEMMA HostMoves ==
  ASSUME [HostNext]_hostvars
  PROVE  /\ [RawCalls \/ RawEnvironment]_rvars
         /\ [SizeCalls \/ Resize]_svars
         /\ [ClipStep \/ ClipEnvironment]_cvars
         /\ [ChildCalls \/ ChildEnvironment]_pvars
         /\ [ReadallNext]_fvars
         /\ [DirNext]_lvars
<1>1. CASE HostNext
  BY <1>1, Zenon DEF HostNext
<1>2. CASE UNCHANGED hostvars
  BY <1>2 DEF hostvars
<1> QED
  BY <1>1, <1>2

LEMMA HostInvHolds == HostSpec => []HostInv
<1>1. HostInv /\ [HostNext]_hostvars => HostInv'
  BY HostMoves, RawStep, SizeStep, ClipKeeps, PasteStep, ChildStep, ReadallTyped,
     StreamIsKept, DirKeeps
  DEF HostInv
<1> QED
  BY <1>1, HostStarts, PTL DEF HostSpec

\* Every variable of every part keeps its type, whichever part of libaan a program
\* uses: among them that no object and no request is there twice, that the input
\* never goes below zero, and that readall() never reads more than its buffer holds.
THEOREM HostTypesHold == HostSpec => []HostTypeOK
<1>1. HostInv => HostTypeOK
  BY DEF HostInv, HostTypeOK, RawInv, SizeInv, ClipInv, ChildInv, DirInv
<1> QED
  BY <1>1, HostInvHolds, PTL

\* A program that uses any one of the parts, as it is model-checked, is safe in
\* each of them: modes come back, the size is current, results and statuses tell
\* the truth, under the conditions each of these invariants states.
THEOREM HostIsSafe ==
  HostSpec => [](/\ ModeRestored /\ StaysRaw /\ SizeIsCurrent
                 /\ ResultTellsPaste /\ StatusReachesCaller
                 /\ BytesInOrder /\ ResultTellsAll /\ TrueMeansWalked)
<1>1. HostInv => ModeRestored /\ StaysRaw
  BY DEF HostInv, RawInv, FirstKeepsModes, ModeRestored
<1>2. HostInv => StatusReachesCaller
  BY DEF HostInv, ChildInv, StatusReachesCaller
<1>3. HostInv => BytesInOrder /\ ResultTellsAll /\ TrueMeansWalked
  BY DEF HostInv, RInv, ResultTellsAll, DirInv
<1>4. HostInv => SizeIsCurrent /\ ResultTellsPaste
  BY DEF HostInv, SizeInv, PasteInv
<1> QED
  BY <1>1, <1>2, <1>3, <1>4, HostInvHolds, PTL
===============================================================================
