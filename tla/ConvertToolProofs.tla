--------------------------- MODULE ConvertToolProofs ---------------------------
(***************************************************************************)
(* The converter, for any number of runs and restarts and all faults but a *)
(* file that does not open: a converted file is left alone, and conversion *)
(* loses no document unless output was cut short.                          *)
(***************************************************************************)
EXTENDS ConvertTool, CryptoFileProofs

\* What the runs are proved for: they take turns, and the file can be opened.
TakeTurns == Serialised /\ "open" \notin Faults

\* The user knows the password.
RightPassword == \A p, q \in Passwords : p = q

-----------------------------------------------------------------------------
(* Where a run is.                                                         *)

Steps  == {"start", "reading", "writing", "success", "failure", "unasked"}
Inside == {"reading", "writing"}

OneRun == \A g, h \in Handles : step[g] \in Inside /\ step[h] \in Inside => g = h

\* A run has read something that it would write back.
HasText(h) == step[h] = "reading" /\ pc[h] = "idle" /\ obj[h].iv # 0

\* Where a run is inside a call, and that its object is new when it starts.
InStep(h) ==
  /\ pc[h] \in {"parse", "contents"} => step[h] = "reading" /\ arg[h].op = "read_old"
  /\ pc[h] \in {"truncate", "header", "body"} => step[h] = "writing"
  /\ step[h] = "start" \/ pc[h] = "parse" => obj[h].iv = 0

\* No run that goes on to write has found the new format, and what is in the
\* file while it writes is its own.
OwnFile(h) ==
  /\ pc[h] \in {"contents", "truncate"} \/ HasText(h) => file.head.magic # "0020"
  /\ pc[h] = "header" => file = EmptyFile
  /\ pc[h] = "body" =>
       file = [head |-> Header("0020", obj[h].salt, obj[h].iv, obj[h].hmac, obj[h].timestamp),
               body |-> << >>]
  /\ pc[h] \in {"truncate", "header", "body"} => obj[h].enc = obj[h].hmac.body

TurnInv ==
  /\ TypeOK /\ AuthInv
  /\ step \in [Handles -> Steps] /\ origin \in Images
  /\ OneRun
  /\ \A h \in Handles : InStep(h) /\ OwnFile(h)

\* A step of one run.
RunStep(h) ==
  \/ NoPassword(h) \/ ConvertRead(h) \/ ConvertContinue(h) \/ ConvertWrite(h)
  \/ ConvertExit(h) \/ ConvertDies(h)

\* The steps of a run are calls of its object.
LEMMA RunSteps ==
  ASSUME TypeOK, NEW h \in Handles, RunStep(h)
  PROVE  Step(h) \/ UNCHANGED vars
<1>1. CASE ConvertRead(h)
  BY <1>1, ConverterAssumption DEF ConverterAssumption, ConvertRead, Step, StartCall
<1>2. CASE ConvertContinue(h) \/ ConvertDies(h)
  BY <1>2 DEF ConvertContinue, ConvertDies, Step
<1>3. CASE ConvertWrite(h)
  <2>1. arg[h].pw \in Passwords
    BY DEF TypeOK
  <2> QED
    BY <1>3, <2>1 DEF ConvertWrite, Step, StartCall
<1>4. CASE ConvertExit(h) \/ NoPassword(h)
  BY <1>4 DEF ConvertExit, NoPassword
<1> QED
  BY <1>1, <1>2, <1>3, <1>4 DEF RunStep

\* One run leaves the others where they are.
LEMMA RunFrame ==
  ASSUME TypeOK, AuthInv, step \in [Handles -> Steps], NEW h \in Handles, RunStep(h)
  PROVE  /\ TypeOK' /\ AuthInv' /\ sealed \subseteq sealed'
         /\ step' \in [Handles -> Steps]
         /\ \A g \in Handles \ {h} :
              /\ obj'[g] = obj[g] /\ pc'[g] = pc[g] /\ arg'[g] = arg[g] /\ last'[g] = last[g]
              /\ step'[g] = step[g]
<1>1. [Next]_vars
  BY RunSteps DEF Next, Step
<1>2. TypeOK' /\ AuthInv'
  BY <1>1, TypeStep, AuthStep
<1>3. /\ sealed \subseteq sealed'
      /\ \A g \in Handles \ {h} :
           obj'[g] = obj[g] /\ pc'[g] = pc[g] /\ arg'[g] = arg[g] /\ last'[g] = last[g]
  BY RunSteps, Frame DEF vars
<1>4. step' = step \/ \E s \in Steps : step' = [step EXCEPT ![h] = s]
  BY DEF RunStep, NoPassword, ConvertRead, ConvertContinue, ConvertWrite, ConvertExit, ConvertDies,
         MoveTo, Steps
<1> QED
  BY <1>2, <1>3, <1>4

\* Only a run inside the output of write() changes the file.
LEMMA FileChanges ==
  ASSUME NEW h \in Handles, RunStep(h), file' # file
  PROVE  pc[h] \in {"truncate", "header", "body"} /\ ConvertContinue(h)
<1>1. CASE ConvertContinue(h)
  BY <1>1 DEF ConvertContinue, Continue, ParseHeader, RejectContents, DecryptContents, Truncate,
              PutHeader, PutBody, OpenFails, OutputFails
<1>2. CASE ConvertRead(h)
  BY <1>2 DEF ConvertRead, StartRead, ReadNothing, ReadNothingFails
<1>3. CASE ConvertWrite(h)
  BY <1>3 DEF ConvertWrite, Prepare, RefuseWrite, vars
<1>4. CASE NoPassword(h) \/ ConvertExit(h) \/ ConvertDies(h)
  BY <1>4 DEF NoPassword, ConvertExit, ConvertDies, Crash, vars
<1> QED
  BY <1>1, <1>2, <1>3, <1>4 DEF RunStep

\* Runs take turns.
LEMMA OneRunStays ==
  ASSUME TakeTurns, TurnInv, NEW h \in Handles, RunStep(h)
  PROVE  OneRun'
<1>1. /\ step \in [Handles -> Steps] /\ OneRun
      /\ \A g \in Handles \ {h} : step'[g] = step[g]
  BY RunFrame DEF TurnInv
<1>2. CASE \A g \in Handles : step[g] \notin Inside
  BY <1>1, <1>2 DEF OneRun
<1>3. CASE step'[h] \in Inside => step[h] \in Inside
  BY <1>1, <1>3 DEF OneRun
<1>4. CASE ConvertRead(h)
  BY <1>2, <1>4 DEF ConvertRead, TakeTurns, Inside
<1>5. CASE ConvertContinue(h) \/ ConvertWrite(h)
  BY <1>1, <1>3, <1>5 DEF ConvertContinue, ConvertWrite, Inside
<1>6. CASE NoPassword(h) \/ ConvertExit(h) \/ ConvertDies(h)
  BY <1>1, <1>3, <1>6 DEF NoPassword, ConvertExit, ConvertDies, MoveTo, Inside
<1> QED
  BY <1>4, <1>5, <1>6 DEF RunStep

\* A run's own step keeps to where a run can be.
LEMMA OwnTurn ==
  ASSUME TakeTurns, TurnInv, NEW h \in Handles, RunStep(h)
  PROVE  InStep(h)' /\ OwnFile(h)'
<1>a. /\ obj \in [Handles -> Objects] /\ obj[h] \in Objects
      /\ pc \in [Handles -> Points]
      /\ arg = [g \in Handles |-> arg[g]] /\ last = [g \in Handles |-> last[g]]
      /\ step \in [Handles -> Steps]
      /\ InStep(h) /\ OwnFile(h)
  BY DEF TurnInv, TypeOK
<1>1. ASSUME NEW p \in Passwords, ConvertRead(h),
             \/ StartRead(h, "read_old", p) \/ ReadNothing(h, "read_old", p)
             \/ ReadNothingFails(h, "read_old", p)
      PROVE  InStep(h)' /\ OwnFile(h)'
  <2> DEFINE w == Wiped(obj[h])
             o(n) == [w EXCEPT !.length = n, !.salt = fresh + 1, !.iv = fresh + 1, !.dirty = TRUE]
  <2>1. step[h] = "start" /\ step'[h] = "reading" /\ file' = file
    BY <1>a, <1>1 DEF ConvertRead, MoveTo, StartRead, ReadNothing, ReadNothingFails
  <2>2. w \in Objects /\ w.iv = 0
    BY <1>a, <2>1, WipedType DEF InStep, Wiped, Objects
  <2> HIDE DEF w
  <2>3. \A n : [w EXCEPT !.length = n].iv = 0
    BY <2>2 DEF Objects
  <2>4. CASE StartRead(h, "read_old", p)
    <3>1. obj'[h].iv = 0
      BY <1>a, <2>3, <2>4 DEF StartRead, w
    <3>2. pc'[h] = "parse" /\ arg'[h].op = "read_old"
      BY <1>a, <2>4 DEF StartRead, Goto, Call
    <3> QED
      BY <2>1, <3>1, <3>2 DEF InStep, OwnFile, HasText
  <2>5. CASE ReadNothing(h, "read_old", p)
    <3>1. pc'[h] = "idle"
      BY <1>a, <2>5 DEF ReadNothing, Return
    <3>2. ~ (FileLength >= 4)
      BY <2>5 DEF ReadNothing, MeasuredLength, HasHeader, HeaderSize, TakeTurns
    <3>3. file.head.magic # "0020"
      <4>1. Len(file.body) \in Nat
        BY DEF TurnInv, TypeOK
      <4>2. ASSUME file.head.magic = "0020" PROVE HeadLength(file) = 8
        BY <4>2 DEF HeadLength
      <4> QED
        BY <3>2, <4>1, <4>2 DEF FileLength
    <3> QED
      BY <2>1, <3>1, <3>3 DEF InStep, OwnFile
  <2>6. CASE ReadNothingFails(h, "read_old", p)
    <3>1. obj'[h].iv = 0
      BY <1>a, <2>3, <2>6 DEF ReadNothingFails, w
    <3>2. pc'[h] = "idle"
      BY <1>a, <2>6 DEF ReadNothingFails, Return
    <3> QED
      BY <2>1, <3>1, <3>2 DEF InStep, OwnFile, HasText
  <2> QED
    BY <1>1, <2>4, <2>5, <2>6
<1>2. ASSUME ConvertContinue(h), ParseHeader(h)
      PROVE  InStep(h)' /\ OwnFile(h)'
  <2>1. /\ step'[h] = step[h] /\ file' = file /\ arg' = arg
        /\ pc[h] = "parse" /\ arg[h].op = "read_old" /\ obj[h].iv = 0
    BY <1>a, <1>2 DEF ConvertContinue, ParseHeader, InStep
  <2>2. CASE pc'[h] = "idle"
    <3>1. obj' = obj
      BY <1>a, <1>2, <2>2 DEF ParseHeader, Goto
    <3> QED
      BY <1>a, <2>1, <2>2, <3>1 DEF InStep, OwnFile, HasText
  <2>3. CASE pc'[h] # "idle"
    <3>1. pc'[h] = "contents" /\ file.head.magic = "0010"
      BY <1>a, <1>2, <2>1, <2>3 DEF ParseHeader, Goto, Return, Accepts
    <3> QED
      BY <1>a, <2>1, <3>1 DEF InStep, OwnFile, HasText
  <2> QED
    BY <2>2, <2>3
<1>3. ASSUME ConvertContinue(h), RejectContents(h) \/ DecryptContents(h)
      PROVE  InStep(h)' /\ OwnFile(h)'
  <2>1. /\ step'[h] = step[h] /\ file' = file
        /\ pc[h] = "contents" /\ pc'[h] = "idle"
    BY <1>a, <1>3 DEF ConvertContinue, RejectContents, DecryptContents, Return
  <2> QED
    BY <1>a, <2>1 DEF InStep, OwnFile
<1>4. ASSUME ConvertContinue(h), Truncate(h)
      PROVE  InStep(h)' /\ OwnFile(h)'
  <2>1. /\ step'[h] = step[h] /\ file' = EmptyFile /\ obj' = obj
        /\ pc[h] = "truncate" /\ pc'[h] = "header"
    BY <1>a, <1>4 DEF ConvertContinue, Truncate, Truncated, Goto
  <2> QED
    BY <1>a, <2>1 DEF InStep, OwnFile, HasText
<1>5. ASSUME ConvertContinue(h), PutHeader(h)
      PROVE  InStep(h)' /\ OwnFile(h)'
  <2> DEFINE head == Header("0020", obj[h].salt, obj[h].iv, obj[h].hmac, obj[h].timestamp)
  <2>1. /\ step'[h] = step[h] /\ file' = [file EXCEPT !.head = head] /\ obj' = obj
        /\ pc[h] = "header" /\ pc'[h] = "body"
    BY <1>a, <1>5 DEF ConvertContinue, PutHeader, Goto
  <2>2. file' = [head |-> head, body |-> << >>]
    <3>1. file = EmptyFile
      BY <1>a, <2>1 DEF OwnFile
    <3> HIDE DEF head
    <3> QED
      BY <2>1, <3>1 DEF EmptyFile
  <2> QED
    BY <1>a, <2>1, <2>2 DEF InStep, OwnFile, HasText
<1>6. ASSUME ConvertContinue(h), PutBody(h) \/ OpenFails(h) \/ OutputFails(h)
      PROVE  InStep(h)' /\ OwnFile(h)'
  <2>1. /\ step'[h] = step[h] /\ pc[h] \in {"truncate", "header", "body"} /\ pc'[h] = "idle"
    BY <1>a, <1>6
    DEF ConvertContinue, PutBody, OpenFails, OutputFails, WriteReturns, Return
  <2> QED
    BY <1>a, <2>1 DEF InStep, OwnFile, HasText
<1>7. ASSUME ConvertWrite(h), Prepare(h, arg[h].pw)
      PROVE  InStep(h)' /\ OwnFile(h)'
  <2>1. PICK x : obj' = [obj EXCEPT ![h] = [@ EXCEPT
                   !.iv = x.iv, !.timestamp = x.timestamp, !.enc = Cipher(x),
                   !.hmac = Mac(x.timestamp, Cipher(x), arg[h].pw)]]
    BY <1>7 DEF Prepare
  <2>2. obj'[h].enc = obj'[h].hmac.body
    BY <1>a, <2>1 DEF Objects, Mac
  <2>3. pc'[h] = "truncate" /\ file' = file /\ HasText(h)
    BY <1>a, <1>7 DEF ConvertWrite, Prepare, Ready, Goto, HasText
  <2>4. step'[h] = "writing"
    <3>1. pc' # pc
      BY <1>a, <2>3 DEF HasText
    <3> QED
      BY <1>a, <1>7, <3>1 DEF ConvertWrite, MoveTo, vars
  <2> QED
    BY <1>a, <2>2, <2>3, <2>4 DEF InStep, OwnFile, HasText
<1>12. CASE NoPassword(h)
  <2>1. /\ step[h] = "start" /\ step'[h] = "unasked" /\ pc[h] = "idle"
        /\ UNCHANGED vars
    BY <1>a, <1>12 DEF NoPassword, MoveTo, InStep, Points
  <2> QED
    BY <2>1 DEF InStep, OwnFile, HasText, vars
<1>8. ASSUME ConvertExit(h) \/ (ConvertWrite(h) /\ ~ Prepare(h, arg[h].pw))
      PROVE  InStep(h)' /\ OwnFile(h)'
  <2>1. pc'[h] = "idle" /\ step'[h] \in {"writing", "success", "failure"}
    BY <1>a, <1>8 DEF ConvertWrite, ConvertExit, RefuseWrite, Return, MoveTo, vars
  <2> QED
    BY <2>1 DEF InStep, OwnFile, HasText
<1>9. CASE ConvertDies(h)
  <2>1. pc'[h] = "idle" /\ step'[h] = "start" /\ obj'[h].iv = 0
    BY <1>a, <1>9 DEF ConvertDies, Crash, MoveTo, NewObject
  <2> QED
    BY <2>1 DEF InStep, OwnFile, HasText
<1>10. CASE ConvertRead(h)
  BY <1>1, <1>10 DEF ConvertRead
<1>11. CASE ConvertContinue(h)
  BY <1>2, <1>3, <1>4, <1>5, <1>6, <1>11 DEF ConvertContinue, Continue
<1> QED
  BY <1>7, <1>8, <1>9, <1>10, <1>11, <1>12 DEF RunStep

\* ... and takes nothing from a run elsewhere.
LEMMA OtherTurn ==
  ASSUME TakeTurns, TurnInv, NEW h \in Handles, RunStep(h), NEW g \in Handles \ {h}
  PROVE  InStep(g)' /\ OwnFile(g)'
<1>1. /\ obj'[g] = obj[g] /\ pc'[g] = pc[g] /\ arg'[g] = arg[g] /\ step'[g] = step[g]
      /\ InStep(g) /\ OwnFile(g) /\ InStep(h)
  BY RunFrame DEF TurnInv
<1>2. InStep(g)'
  BY <1>1 DEF InStep
<1>3. CASE file' = file
  BY <1>1, <1>2, <1>3 DEF OwnFile, HasText
<1>4. CASE file' # file
  <2>1. step[h] \in Inside
    BY <1>1, <1>4, FileChanges DEF InStep, Inside
  <2>2. step[g] \notin Inside
    BY <2>1 DEF TurnInv, OneRun
  <2>3. pc[g] \notin {"contents", "truncate", "header", "body"} /\ step[g] # "reading"
    BY <1>1, <2>2 DEF InStep, Inside
  <2> QED
    BY <1>1, <1>2, <2>3 DEF OwnFile, HasText
<1> QED
  BY <1>3, <1>4

LEMMA TurnStep ==
  ASSUME TakeTurns, TurnInv, [ConvertNext]_tvars
  PROVE  TurnInv'
<1>1. CASE UNCHANGED tvars
  <2>1. TypeOK' /\ AuthInv'
    BY <1>1, TypeStep, AuthStep DEF TurnInv, tvars
  <2> QED
    BY <1>1, <2>1 DEF TurnInv, tvars, vars, OneRun, InStep, OwnFile, HasText
<1>2. ASSUME NEW h \in Handles, RunStep(h), origin' = origin
      PROVE  TurnInv'
  <2>1. TypeOK' /\ AuthInv' /\ step' \in [Handles -> Steps]
    BY <1>2, RunFrame DEF TurnInv
  <2>2. \A g \in Handles : InStep(g)' /\ OwnFile(g)'
    BY <1>2, OwnTurn, OtherTurn
  <2>3. OneRun'
    BY <1>2, OneRunStays
  <2> QED
    BY <1>2, <2>1, <2>2, <2>3 DEF TurnInv
<1> QED
  BY <1>1, <1>2 DEF ConvertNext, RunStep

LEMMA TurnStarts == ConvertInit => TurnInv
<1> SUFFICES ASSUME ConvertInit PROVE TurnInv
  OBVIOUS
<1>1. TypeOK /\ AuthInv
  BY InitType, AuthInit DEF ConvertInit
<1>2. origin \in Images
  BY DocsAssumption DEF DocsAssumption, ConvertInit, FirstImages, Images
<1>3. step \in [Handles -> Steps] /\ OneRun
  BY DEF ConvertInit, Steps, OneRun, Inside
<1>4. ASSUME NEW h \in Handles PROVE InStep(h) /\ OwnFile(h)
  <2>1. pc[h] = "idle" /\ step[h] = "start" /\ obj[h].iv = 0
    BY DEF ConvertInit, Init, NewObject
  <2> QED
    BY <2>1 DEF InStep, OwnFile, HasText
<1> QED
  BY <1>1, <1>2, <1>3, <1>4 DEF TurnInv

LEMMA ConvertedStands ==
  ASSUME TakeTurns, TurnInv, NEW h \in Handles, RunStep(h), Converted
  PROVE  file' = file
<1> SUFFICES ASSUME file' # file PROVE FALSE
  OBVIOUS
<1>1. PICK y \in sealed : file = NewFile(y)
  BY DEF Converted
<1>2. file.head = NewHeader(y) /\ file.body = Cipher(y) /\ file.head.magic = "0020"
  BY <1>1 DEF NewFile, NewHeader, Header
<1>3. /\ pc[h] \in {"truncate", "header", "body"} /\ ConvertContinue(h)
      /\ OwnFile(h)
  BY FileChanges DEF TurnInv
<1>4. pc[h] = "body"
  BY <1>2, <1>3 DEF OwnFile, EmptyFile, NoHeader, Header
<1>5. obj[h].enc = << >> /\ file.body = << >>
  <2>1. file.head = Header("0020", obj[h].salt, obj[h].iv, obj[h].hmac, obj[h].timestamp)
    BY <1>3, <1>4 DEF OwnFile
  <2>2. obj[h].hmac = Mac(y.timestamp, Cipher(y), y.pw)
    BY <1>2, <2>1 DEF NewHeader, Header
  <2>3. obj[h].enc = Cipher(y)
    BY <1>3, <1>4, <2>2 DEF OwnFile, Mac
  <2>4. file.body = << >>
    BY <1>3, <1>4 DEF OwnFile
  <2> QED
    BY <1>2, <2>3, <2>4
<1>6. FileWith(<< >>) = file
  <2>1. Overlay(<< >>, << >>) = << >>
    BY OverlayNothing, EmptySeq
  <2>2. file = [head |-> file.head, body |-> file.body]
    BY DEF TurnInv, TypeOK
  <2> QED
    BY <1>5, <2>1, <2>2 DEF FileWith
<1>7. PutBody(h) \/ OutputFails(h)
  BY <1>3, <1>4 DEF ConvertContinue, Continue, ParseHeader, RejectContents, DecryptContents,
                    Truncate, PutHeader, OpenFails
<1>8. ~ \E n \in 0 .. Len(obj[h].enc) - 1 : TRUE
  BY <1>5, EmptySeq
<1> QED
  BY <1>4, <1>5, <1>6, <1>7, <1>8 DEF PutBody, OutputFails

\* Whatever passwords the runs are given, whatever texts there are, whichever run
\* dies and whatever fails but the opening of the file, none touches the file once
\* it is converted: a run finds the new format, and write() is refused because no
\* IV was read.  (A run that cannot open the file takes it for an empty one.)
THEOREM ConvertedStaysConverted ==
  ASSUME TakeTurns
  PROVE  ConvertSpec => ConvertedIsLeftAlone
<1>1. ASSUME TurnInv, [ConvertNext]_tvars, Converted
      PROVE  UNCHANGED file
  BY <1>1, ConvertedStands DEF ConvertNext, RunStep, tvars, vars
<1>2. TurnInv /\ [ConvertNext]_tvars => TurnInv'
  BY TurnStep
<1> QED
  BY <1>1, <1>2, TurnStarts, PTL DEF ConvertSpec, ConvertedIsLeftAlone

-----------------------------------------------------------------------------
(* Where the document is.                                                  *)

\* The run has the file's length, and then the salt and IV of what is in it.
HasOrigin(h) ==
  /\ pc[h] \in {"parse", "contents"} => obj[h].length = FileLength
  /\ pc[h] = "contents" => obj[h].salt = origin.salt /\ obj[h].iv = origin.iv
  /\ HasText(h) => obj[h].buf = origin.doc
  /\ pc[h] \in {"truncate", "header", "body"} =>
       \E x \in sealed : Holds(h, x) /\ x.doc = origin.doc /\ x.pw = origin.pw

\* A run that reports success, or is about to, has converted the file.
HasConverted(h) ==
  step[h] = "success" \/ (step[h] = "writing" /\ pc[h] = "idle" /\ last[h].err = "NO_ERROR")
  => Converted

KeepInv ==
  mishap \/ /\ InOutput \/ file = OldFile(origin) \/ Converted
            /\ \A h \in Handles : HasOrigin(h) /\ HasConverted(h)

\* The error codes that come back through a bool are all true.
LEMMA EveryResultIsTrue == ASSUME NEW err PROVE OldResult(err)
<1>1. CASE err = "NO_ERROR"
  BY <1>1 DEF OldResult
<1>2. CASE err # "NO_ERROR"
  <2>1. ErrorCode(err) \in {1, 2, 3}
    BY <1>2, Zenon DEF ErrorCode
  <2> QED
    BY <2>1 DEF OldResult
<1> QED
  BY <1>1, <1>2

\* A file that holds the document in either format is long enough for a header
\* of the old one.
LEMMA LongEnough ==
  ASSUME TypeOK, file = OldFile(origin) \/ Converted
  PROVE  HasHeader(FileLength, "read_old")
<1>1. Len(file.body) \in Nat
  BY DEF TypeOK
<1>2. CASE file = OldFile(origin)
  <2>1. HeadLength(file) = 4
    BY <1>2 DEF OldFile, OldHeader, Header, HeadLength
  <2> QED
    BY <1>1, <2>1 DEF FileLength, HasHeader, HeaderSize
<1>3. CASE Converted
  <2>1. HeadLength(file) = 8
    BY <1>3 DEF Converted, NewFile, NewHeader, Header, HeadLength
  <2> QED
    BY <1>1, <2>1 DEF FileLength, HasHeader, HeaderSize
<1> QED
  BY <1>2, <1>3

\* The whole text behind the header of the old format is the document's.
LEMMA WholeOldText ==
  ASSUME TurnInv, file = OldFile(origin)
  PROVE  ReadBody("read_old", FileLength - HeaderSize("read_old")) = Cipher(origin)
<1>1. origin \in Images /\ Cipher(origin) \in Seq(CipherBlocks)
  BY CipherType DEF TurnInv
<1>2. HeadLength(file) = 4 /\ file.body = Cipher(origin)
  BY DEF OldFile, OldHeader, Header, HeadLength
<1>3. Contents("read_old") = Cipher(origin)
  BY <1>2 DEF Contents
<1>4. /\ Len(Cipher(origin)) \in Nat
      /\ Cipher(origin) = [i \in 1 .. Len(Cipher(origin)) |-> Cipher(origin)[i]]
  BY <1>1
<1>5. FileLength - HeaderSize("read_old") = Len(Cipher(origin))
  BY <1>2, <1>4 DEF FileLength, HeaderSize
<1>6. ReadBody("read_old", Len(Cipher(origin))) =
        [i \in 1 .. Len(Cipher(origin)) |->
           IF i <= Len(Cipher(origin)) THEN Cipher(origin)[i] ELSE NoBlock]
  BY <1>3 DEF ReadBody
<1>7. \A i \in 1 .. Len(Cipher(origin)) : i <= Len(Cipher(origin))
  BY <1>4
<1> QED
  BY <1>4, <1>5, <1>6, <1>7

\* write() puts the document into the new format.
LEMMA OutputConverts ==
  ASSUME TurnInv, NEW h \in Handles, HasOrigin(h), PutBody(h), origin' = origin
  PROVE  Converted'
<1>1. /\ pc[h] = "body" /\ OwnFile(h) /\ file' = FileWith(obj[h].enc) /\ sealed' = sealed
  BY DEF TurnInv, PutBody
<1>2. PICK x \in sealed : Holds(h, x) /\ x.doc = origin.doc /\ x.pw = origin.pw
  BY <1>1 DEF HasOrigin
<1>3. obj[h].enc = Cipher(x)
  BY <1>1, <1>2 DEF OwnFile, Holds, Mac
<1>4. file.head = NewHeader(x) /\ file.body = << >>
  BY <1>1, <1>2 DEF OwnFile, Holds, NewHeader
<1>5. Overlay(Cipher(x), << >>) = Cipher(x)
  <2>1. x \in Images
    BY DEF TurnInv, TypeOK
  <2> QED
    BY <2>1, CipherType, OverlayNothing
<1>6. file.head.magic # "none"
  BY <1>4 DEF NewHeader, Header
<1>7. file' = NewFile(x)
  BY <1>1, <1>3, <1>4, <1>5, <1>6 DEF FileWith, NewFile
<1> QED
  BY <1>1, <1>2, <1>7 DEF Converted

\* Everything that KeepInv says of a step without mishap.
Kept ==
  /\ InOutput \/ file = OldFile(origin) \/ Converted
  /\ \A h \in Handles : HasOrigin(h) /\ HasConverted(h)

\* In the first case of an honest run: a file that is not in the new format, with
\* nobody in the middle of output, is the one the runs began with.
LEMMA FoundOldFile ==
  ASSUME TurnInv, Kept, NEW h \in Handles, step[h] \in Inside,
         pc[h] \notin {"header", "body"}, file.head.magic # "0020"
  PROVE  file = OldFile(origin)
<1>1. ~ InOutput
  <2>1. ASSUME NEW g \in Handles, pc[g] \in {"header", "body"} PROVE FALSE
    <3>1. step[g] \in Inside
      BY <2>1 DEF TurnInv, InStep, Inside
    <3>2. g = h
      BY <3>1 DEF TurnInv, OneRun
    <3> QED
      BY <2>1, <3>2
  <2> QED
    BY <2>1 DEF InOutput
<1>2. ~ Converted
  BY DEF Converted, NewFile, NewHeader, Header
<1> QED
  BY <1>1, <1>2 DEF Kept

\* Converted files stay, and prepared images are not forgotten.
LEMMA ConvertedLasts ==
  ASSUME TakeTurns, TurnInv, NEW h \in Handles, RunStep(h), origin' = origin, Converted
  PROVE  Converted'
<1>1. file' = file /\ sealed \subseteq sealed'
  BY ConvertedStands, RunFrame DEF TurnInv
<1> QED
  BY <1>1 DEF Converted

LEMMA DocumentStays ==
  ASSUME TakeTurns, TurnInv, Kept, NEW h \in Handles, RunStep(h), origin' = origin, ~ mishap'
  PROVE  (InOutput \/ file = OldFile(origin) \/ Converted)'
<1>a. /\ pc \in [Handles -> Points] /\ InStep(h) /\ HasOrigin(h)
      /\ \A g \in Handles \ {h} : pc'[g] = pc[g]
  BY RunFrame DEF TurnInv, TypeOK, Kept
<1>1. CASE pc[h] \in {"header", "body"}
  <2>1. step[h] = "writing"
    BY <1>a, <1>1 DEF InStep
  <2>2. CASE ConvertContinue(h)
    <3>1. ~ OutputFails(h)
      BY <2>2 DEF ConvertContinue
    <3>2. PutHeader(h) \/ PutBody(h)
      BY <1>1, <2>2, <3>1
      DEF ConvertContinue, Continue, ParseHeader, RejectContents, DecryptContents, Truncate,
          OpenFails
    <3>3. ASSUME PutHeader(h) PROVE InOutput'
      BY <1>a, <3>3 DEF PutHeader, Goto, InOutput
    <3>4. ASSUME PutBody(h) PROVE Converted'
      BY <1>a, <3>4, OutputConverts
    <3> QED
      BY <3>2, <3>3, <3>4
  <2>3. CASE ConvertDies(h)
    BY <1>1, <2>3 DEF ConvertDies
  <2>4. CASE NoPassword(h) \/ ConvertRead(h) \/ ConvertWrite(h) \/ ConvertExit(h)
    BY <1>1, <2>1, <2>4 DEF NoPassword, ConvertRead, ConvertWrite, ConvertExit
  <2> QED
    BY <2>2, <2>3, <2>4 DEF RunStep
<1>2. CASE pc[h] \notin {"header", "body"} /\ file' # file
  <2>1. pc[h] = "truncate" /\ ConvertContinue(h)
    BY <1>2, FileChanges
  <2>2. Truncate(h)
    BY <2>1, <1>2
    DEF ConvertContinue, Continue, ParseHeader, RejectContents, DecryptContents, PutHeader,
        PutBody, OpenFails, OutputFails
  <2>3. pc'[h] = "header"
    BY <1>a, <2>2 DEF Truncate, Goto
  <2> QED
    BY <2>3 DEF InOutput
<1>3. CASE pc[h] \notin {"header", "body"} /\ file' = file
  <2>1. CASE InOutput
    <3>1. PICK g \in Handles : pc[g] \in {"header", "body"}
      BY <2>1 DEF InOutput
    <3>2. pc'[g] = pc[g]
      BY <1>a, <1>3, <3>1
    <3> QED
      BY <3>1, <3>2 DEF InOutput
  <2>2. CASE file = OldFile(origin)
    <3>1. file' = OldFile(origin')
      BY <1>3, <2>2
    <3>2. OldFile(origin') = OldFile(origin)'
      BY DEF OldFile, OldHeader, Header, NoMac, Mac, Cipher, Block
    <3> QED
      BY <3>1, <3>2
  <2>3. CASE Converted
    BY <2>3, ConvertedLasts
  <2> QED
    BY <2>1, <2>2, <2>3 DEF Kept
<1> QED
  BY <1>1, <1>2, <1>3

\* A run without text to write can only be refused; one that has it had it from
\* the file.
LEMMA RunKeepsOrigin ==
  ASSUME TakeTurns, RightPassword, NoShortTexts, TurnInv, Kept,
         NEW h \in Handles, RunStep(h), origin' = origin, ~ mishap'
  PROVE  HasOrigin(h)'
<1>a. /\ obj \in [Handles -> Objects] /\ obj[h] \in Objects
      /\ pc \in [Handles -> Points]
      /\ arg = [g \in Handles |-> arg[g]] /\ last = [g \in Handles |-> last[g]]
      /\ step \in [Handles -> Steps] /\ sealed \subseteq Images /\ origin \in Images
      /\ InStep(h) /\ OwnFile(h) /\ HasOrigin(h)
  BY DEF TurnInv, TypeOK, Kept
<1>b. arg[h].pw = origin.pw
  BY DEF TurnInv, TypeOK, RightPassword, Images
<1>1. CASE ConvertRead(h)
  <2>1. \A g \in Handles : pc[g] \notin {"header", "body"}
    BY <1>1 DEF ConvertRead, TakeTurns, TurnInv, InStep
  <2>2. HasHeader(FileLength, "read_old")
    BY <2>1, LongEnough DEF TurnInv, Kept, InOutput
  <2>3. MeasuredLength = {FileLength}
    BY DEF MeasuredLength, TakeTurns
  <2>4. PICK p \in Passwords : StartRead(h, "read_old", p)
    BY <1>1, <2>2, <2>3 DEF ConvertRead, ReadNothing, ReadNothingFails
  <2> DEFINE w == Wiped(obj[h])
  <2>5. w \in Objects
    BY <1>a, WipedType
  <2> HIDE DEF w
  <2>6. obj'[h].length = FileLength
    <3>1. obj'[h] = [w EXCEPT !.length = FileLength]
      BY <1>a, <2>3, <2>4 DEF StartRead, w
    <3> QED
      BY <2>5, <3>1 DEF Objects
  <2>7. pc'[h] = "parse" /\ file' = file
    BY <1>a, <2>4 DEF StartRead, Goto
  <2>8. FileLength' = FileLength
    BY <2>7 DEF FileLength, HeadLength
  <2> QED
    BY <2>6, <2>7, <2>8 DEF HasOrigin, HasText
<1>2. ASSUME ConvertContinue(h), ParseHeader(h)
      PROVE  HasOrigin(h)'
  <2>1. /\ step'[h] = step[h] /\ file' = file /\ arg' = arg
        /\ pc[h] = "parse" /\ arg[h].op = "read_old" /\ obj[h].iv = 0 /\ step[h] = "reading"
    BY <1>a, <1>2 DEF ConvertContinue, ParseHeader, InStep
  <2>2. CASE pc'[h] = "idle"
    <3>1. obj' = obj
      BY <1>a, <1>2, <2>2 DEF ParseHeader, Goto
    <3> QED
      BY <2>1, <2>2, <3>1 DEF HasOrigin, HasText
  <2>3. CASE pc'[h] # "idle"
    <3>1. /\ pc'[h] = "contents" /\ file.head.magic = "0010"
          /\ obj'[h] = Parsed(obj[h], "read_old", file.head)
      BY <1>a, <1>2, <2>1, <2>3 DEF ParseHeader, Goto, Return, Accepts
    <3>2. file = OldFile(origin)
      BY <2>1, <3>1, FoundOldFile DEF Inside
    <3>3. file.head.salt = origin.salt /\ file.head.iv = origin.iv
      BY <3>2 DEF OldFile, OldHeader, Header
    <3>4. /\ obj'[h].salt = file.head.salt /\ obj'[h].iv = file.head.iv
          /\ obj'[h].length = obj[h].length
      BY <1>a, <3>1 DEF Parsed, Objects
    <3>5. FileLength' = FileLength
      BY <2>1 DEF FileLength, HeadLength
    <3>6. obj[h].length = FileLength
      BY <1>a, <2>1 DEF HasOrigin
    <3> QED
      BY <3>1, <3>3, <3>4, <3>5, <3>6 DEF HasOrigin, HasText
  <2> QED
    BY <2>2, <2>3
<1>3. ASSUME ConvertContinue(h), RejectContents(h) \/ DecryptContents(h)
      PROVE  HasOrigin(h)'
  <2>1. pc[h] = "contents" /\ pc'[h] = "idle" /\ arg[h].op = "read_old" /\ step[h] = "reading"
    BY <1>a, <1>3 DEF RejectContents, DecryptContents, Return, InStep
  <2>2. file = OldFile(origin)
    BY <1>a, <2>1, FoundOldFile DEF OwnFile, Inside
  <2> DEFINE body == ReadBody("read_old", obj[h].length - HeaderSize("read_old"))
  <2>3. body = Cipher(origin)
    BY <1>a, <2>1, <2>2, WholeOldText DEF HasOrigin
  <2>4. PICK r \in Decrypted(body, origin.pw, origin.salt, origin.iv) :
          obj' = [obj EXCEPT ![h] = [@ EXCEPT
                    !.enc = body, !.buf = r.doc, !.dirty = r.ok /\ arg[h].op = "read_old"]]
    <3>1. DecryptContents(h)
      BY <1>3, <2>1 DEF RejectContents
    <3>2. obj[h].salt = origin.salt /\ obj[h].iv = origin.iv
      BY <1>a, <2>1 DEF HasOrigin
    <3> QED
      BY <1>b, <2>1, <3>1, <3>2 DEF DecryptContents
  <2>5. r.doc = origin.doc
    <3>1. r = [ok |-> TRUE, doc |-> Recovered(origin.doc)]
      BY <1>a, <2>3, <2>4, DecryptedOfCipher
    <3>2. Recovered(origin.doc) = origin.doc
      BY <1>a DEF Recovered, NoShortTexts, Images
    <3> QED
      BY <3>1, <3>2
  <2>6. obj'[h].buf = r.doc
    <3> HIDE DEF body
    <3> QED
      BY <1>a, <2>4 DEF Objects
  <2> QED
    BY <2>1, <2>5, <2>6 DEF HasOrigin
<1>4. ASSUME ConvertContinue(h), Truncate(h) \/ PutHeader(h)
      PROVE  HasOrigin(h)'
  <2>1. /\ obj' = obj /\ sealed' = sealed
        /\ pc[h] \in {"truncate", "header"} /\ pc'[h] \in {"header", "body"}
    BY <1>a, <1>4 DEF Truncate, PutHeader, Goto
  <2>2. PICK x \in sealed : Holds(h, x) /\ x.doc = origin.doc /\ x.pw = origin.pw
    BY <1>a, <2>1 DEF HasOrigin
  <2>3. Holds(h, x)'
    BY <2>1, <2>2 DEF Holds
  <2> QED
    BY <2>1, <2>2, <2>3 DEF HasOrigin, HasText
<1>5. ASSUME ConvertContinue(h), PutBody(h) \/ OpenFails(h) \/ OutputFails(h)
      PROVE  HasOrigin(h)'
  <2>1. step'[h] = step[h] /\ pc[h] \in {"truncate", "header", "body"} /\ pc'[h] = "idle"
    BY <1>a, <1>5
    DEF ConvertContinue, PutBody, OpenFails, OutputFails, WriteReturns, Return
  <2> QED
    BY <1>a, <2>1 DEF HasOrigin, HasText, InStep
<1>6. CASE ConvertContinue(h)
  BY <1>2, <1>3, <1>4, <1>5, <1>6 DEF ConvertContinue, Continue
<1>7. ASSUME ConvertWrite(h), Prepare(h, arg[h].pw)
      PROVE  HasOrigin(h)'
  <2>1. PICK x \in sealed' :
          /\ x.doc = obj[h].buf /\ x.pw = arg[h].pw /\ x.salt = obj[h].salt
          /\ obj' = [obj EXCEPT ![h] = [@ EXCEPT
                       !.iv = x.iv, !.timestamp = x.timestamp, !.enc = Cipher(x),
                       !.hmac = Mac(x.timestamp, Cipher(x), x.pw)]]
    BY <1>7 DEF Prepare
  <2>2. HasText(h) /\ pc'[h] = "truncate"
    BY <1>a, <1>7 DEF ConvertWrite, Prepare, Ready, Goto, HasText
  <2>3. x.doc = origin.doc /\ x.pw = origin.pw
    BY <1>a, <1>b, <2>1, <2>2 DEF HasOrigin
  <2>4. obj'[h] = [obj[h] EXCEPT
                     !.iv = x.iv, !.timestamp = x.timestamp, !.enc = Cipher(x),
                     !.hmac = Mac(x.timestamp, Cipher(x), x.pw)]
    BY <1>a, <2>1
  <2>5. Holds(h, x)'
    BY <1>a, <2>1, <2>4 DEF Holds, Objects
  <2> QED
    BY <2>2, <2>3, <2>5 DEF HasOrigin, HasText
<1>8. CASE ConvertExit(h) \/ (ConvertWrite(h) /\ ~ Prepare(h, arg[h].pw))
  <2>1. pc'[h] = "idle" /\ step'[h] \in {"writing", "success", "failure"}
    BY <1>a, <1>8 DEF ConvertWrite, ConvertExit, RefuseWrite, Return, MoveTo, vars
  <2> QED
    BY <2>1 DEF HasOrigin, HasText
<1>9. CASE ConvertDies(h)
  <2>1. pc'[h] = "idle" /\ step'[h] = "start"
    BY <1>a, <1>9 DEF ConvertDies, Crash, MoveTo
  <2> QED
    BY <2>1 DEF HasOrigin, HasText
<1>10. CASE NoPassword(h)
  <2>1. pc'[h] = "idle" /\ step'[h] = "unasked"
    BY <1>a, <1>10 DEF NoPassword, MoveTo, InStep, Points, vars
  <2> QED
    BY <2>1 DEF HasOrigin, HasText
<1> QED
  BY <1>1, <1>6, <1>7, <1>8, <1>9, <1>10 DEF RunStep

LEMMA RunConverts ==
  ASSUME TakeTurns, TurnInv, Kept, NEW h \in Handles, RunStep(h), origin' = origin, ~ mishap'
  PROVE  HasConverted(h)'
<1>a. /\ pc \in [Handles -> Points] /\ last = [g \in Handles |-> last[g]]
      /\ step \in [Handles -> Steps]
      /\ InStep(h) /\ HasOrigin(h) /\ HasConverted(h)
  BY DEF TurnInv, TypeOK, Kept
<1>1. CASE ConvertRead(h)
  BY <1>a, <1>1 DEF ConvertRead, MoveTo, HasConverted
<1>2. CASE ConvertContinue(h)
  <2>1. step' = step /\ ~ OutputFails(h)
    BY <1>2 DEF ConvertContinue
  <2>2. CASE ParseHeader(h) \/ RejectContents(h) \/ DecryptContents(h)
    <3>1. step[h] = "reading"
      BY <1>a, <2>2 DEF ParseHeader, RejectContents, DecryptContents, InStep
    <3> QED
      BY <2>1, <3>1 DEF HasConverted
  <2>3. CASE Truncate(h) \/ PutHeader(h)
    <3>1. pc'[h] # "idle" /\ step[h] = "writing"
      BY <1>a, <2>3 DEF Truncate, PutHeader, Goto, InStep
    <3> QED
      BY <2>1, <3>1 DEF HasConverted
  <2>4. CASE PutBody(h)
    BY <1>a, <2>4, OutputConverts DEF HasConverted
  <2> QED
    BY <1>2, <2>1, <2>2, <2>3, <2>4 DEF ConvertContinue, Continue, OpenFails, TakeTurns
<1>3. CASE ConvertWrite(h)
  <2>1. /\ Prepare(h, arg[h].pw) \/ RefuseWrite(h, arg[h].pw)
        /\ step'[h] = "writing"
    BY <1>a, <1>3, EveryResultIsTrue DEF ConvertWrite, MoveTo
  <2>2. pc'[h] # "idle" \/ last'[h].err # "NO_ERROR"
    BY <1>a, <2>1 DEF Prepare, RefuseWrite, Goto, Return
  <2> QED
    BY <2>1, <2>2 DEF HasConverted
<1>4. CASE ConvertExit(h)
  <2>1. step[h] = "writing" /\ pc[h] = "idle"
    BY <1>4 DEF ConvertExit
  <2>2. step'[h] = IF last[h].err = "NO_ERROR" THEN "success" ELSE "failure"
    BY <1>a, <1>4 DEF ConvertExit, MoveTo
  <2>3. CASE last[h].err = "NO_ERROR"
    <3>1. Converted
      BY <1>a, <2>1, <2>3 DEF HasConverted
    <3> QED
      BY <3>1, ConvertedLasts DEF HasConverted
  <2>4. CASE last[h].err # "NO_ERROR"
    BY <2>2, <2>4 DEF HasConverted
  <2> QED
    BY <2>3, <2>4
<1>5. CASE ConvertDies(h) \/ NoPassword(h)
  BY <1>a, <1>5 DEF ConvertDies, NoPassword, MoveTo, HasConverted
<1> QED
  BY <1>1, <1>2, <1>3, <1>4, <1>5 DEF RunStep

\* Runs elsewhere keep what they have.
LEMMA OthersKeep ==
  ASSUME TakeTurns, TurnInv, Kept, NEW h \in Handles, RunStep(h), origin' = origin,
         NEW g \in Handles \ {h}
  PROVE  HasOrigin(g)' /\ HasConverted(g)'
<1>1. /\ obj'[g] = obj[g] /\ pc'[g] = pc[g] /\ last'[g] = last[g] /\ step'[g] = step[g]
      /\ sealed \subseteq sealed'
      /\ HasOrigin(g) /\ HasConverted(g) /\ InStep(g) /\ InStep(h)
  BY RunFrame DEF TurnInv, Kept
<1>2. HasConverted(g)'
  BY <1>1, ConvertedLasts DEF HasConverted
<1>3. pc[g] \in {"parse", "contents"} => FileLength' = FileLength
  <2>1. CASE file' = file
    BY <2>1 DEF FileLength, HeadLength
  <2>2. CASE file' # file
    <3>1. step[h] \in Inside
      BY <1>1, <2>2, FileChanges DEF InStep, Inside
    <3>2. step[g] \notin Inside
      BY <3>1 DEF TurnInv, OneRun
    <3> QED
      BY <1>1, <3>2 DEF InStep, Inside
  <2> QED
    BY <2>1, <2>2
<1>4. HasText(g)' => obj'[g].buf = origin'.doc
  BY <1>1 DEF HasText, HasOrigin
<1>5. ASSUME pc[g] \in {"truncate", "header", "body"}
      PROVE  \E x \in sealed' : Holds(g, x)' /\ x.doc = origin'.doc /\ x.pw = origin'.pw
  <2>1. PICK x \in sealed : Holds(g, x) /\ x.doc = origin.doc /\ x.pw = origin.pw
    BY <1>1, <1>5 DEF HasOrigin
  <2>2. Holds(g, x)'
    BY <1>1, <2>1 DEF Holds
  <2> QED
    BY <1>1, <2>1, <2>2
<1>6. HasOrigin(g)'
  BY <1>1, <1>3, <1>4, <1>5 DEF HasOrigin
<1> QED
  BY <1>2, <1>6

LEMMA KeepStep ==
  ASSUME TakeTurns, RightPassword, NoShortTexts, TurnInv, KeepInv, [ConvertNext]_tvars
  PROVE  KeepInv'
<1>1. CASE UNCHANGED tvars
  BY <1>1 DEF tvars, vars, KeepInv, InOutput, OldFile, Converted, HasOrigin, HasConverted, HasText,
              FileLength, HeadLength, Holds
<1>2. ASSUME NEW h \in Handles, RunStep(h), origin' = origin
      PROVE  KeepInv'
  <2> SUFFICES ASSUME ~ mishap' PROVE Kept'
    BY DEF KeepInv, Kept
  <2>1. ~ mishap
    BY <1>2
    DEF RunStep, NoPassword, ConvertRead, ConvertContinue, ConvertWrite, ConvertExit, ConvertDies
  <2>2. Kept
    BY <2>1 DEF KeepInv, Kept
  <2>3. ASSUME NEW g \in Handles PROVE HasOrigin(g)' /\ HasConverted(g)'
    <3>1. CASE g = h
      BY <1>2, <2>2, <3>1, RunKeepsOrigin, RunConverts
    <3>2. CASE g # h
      BY <1>2, <2>2, <3>2, OthersKeep
    <3> QED
      BY <3>1, <3>2
  <2> QED
    BY <1>2, <2>2, <2>3, DocumentStays DEF Kept
<1> QED
  BY <1>1, <1>2 DEF ConvertNext, RunStep

LEMMA KeepStarts == ConvertInit => KeepInv
<1> SUFFICES ASSUME ConvertInit PROVE Kept
  BY DEF KeepInv, Kept
<1>1. file = OldFile(origin)
  BY DEF ConvertInit
<1>2. ASSUME NEW h \in Handles PROVE HasOrigin(h) /\ HasConverted(h)
  <2>1. pc[h] = "idle" /\ step[h] = "start"
    BY DEF ConvertInit, Init
  <2> QED
    BY <2>1 DEF HasOrigin, HasConverted, HasText
<1> QED
  BY <1>1, <1>2 DEF Kept

LEMMA KeepHolds ==
  ASSUME TakeTurns, RightPassword, NoShortTexts
  PROVE  ConvertSpec => [](TurnInv /\ KeepInv)
<1>1. TurnInv /\ KeepInv /\ [ConvertNext]_tvars => (TurnInv /\ KeepInv)'
  BY TurnStep, KeepStep
<1>2. ConvertInit => TurnInv /\ KeepInv
  BY TurnStarts, KeepStarts
<1> QED
  BY <1>1, <1>2, PTL DEF ConvertSpec

\* With the right password, and texts that are not 1 to 15 bytes long, the
\* document can always be had from the file, after any number of runs, refused,
\* dead or on a file already converted, unless one was cut short in the output
\* of write().
THEOREM DocumentIsKept ==
  ASSUME TakeTurns, RightPassword, NoShortTexts
  PROVE  ConvertSpec => []ConversionKeepsDocument
<1>1. KeepInv => ConversionKeepsDocument
  BY DEF KeepInv, ConversionKeepsDocument
<1> QED
  BY <1>1, KeepHolds, PTL

\* A run that had a password and exits with success, then or earlier, has left the
\* document in the new format, although the errors of the reader are taken for
\* success.
THEOREM SuccessIsTrue ==
  ASSUME TakeTurns, RightPassword, NoShortTexts
  PROVE  ConvertSpec => []SuccessMeansConverted
<1>1. KeepInv => SuccessMeansConverted
  BY DEF KeepInv, HasConverted, SuccessMeansConverted, ExitsWithSuccess, HadPassword
<1> QED
  BY <1>1, KeepHolds, PTL
================================================================================
