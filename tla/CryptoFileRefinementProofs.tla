----------------------- MODULE CryptoFileRefinementProofs -----------------------
(***************************************************************************)
(* Callers that take turns, any number of them: every step of crypto_file  *)
(* is a step of SealedDocument or leaves its variables alone.              *)
(***************************************************************************)
EXTENDS CryptoFileRefinement, CryptoFileProofs

\* What the refinement holds for: one call at a time, of programs that may die
\* or find no random bytes, on a file of the current format, with texts that
\* come back from decryption.
OrderlyUse ==
  /\ Serialised /\ Faults \subseteq {"random", "crash"}
  /\ OldDocs = {} /\ NoShortTexts

-----------------------------------------------------------------------------
(* What a file amounts to.                                                 *)

LEMMA ContentOfNothing == Content(EmptyFile) = Register!Absent
  BY DEF Content, Register!Absent

LEMMA ContentOfSomething ==
  ASSUME NEW f, f # EmptyFile
  PROVE  Content(f) # Register!Absent
  BY DEF Content, Register!Absent

\* An image is named by the file it was written to.
LEMMA ImageNamed ==
  ASSUME NEW x \in Images
  PROVE  Named(NewFile(x)) = x
<1>1. /\ NewFile(x).body = Cipher(x)
      /\ NewFile(x).head.hmac.pw = x.pw /\ NewFile(x).head.salt = x.salt
      /\ NewFile(x).head.iv = x.iv /\ NewFile(x).head.timestamp = x.timestamp
  BY DEF NewFile, NewHeader, Header, Mac
<1>2. x = [doc |-> x.doc, pw |-> x.pw, salt |-> x.salt, iv |-> x.iv, timestamp |-> x.timestamp]
  BY DEF Images
<1>3. Cipher(x) \in Seq(CipherBlocks) /\ Len(Cipher(x)) = Blocks[x.doc]
      /\ \A i \in 1 .. Blocks[x.doc] : Cipher(x)[i] = Block(x, i)
  BY CipherType
<1>4. x.doc \in Docs /\ Blocks[x.doc] \in Nat /\ (Blocks[x.doc] = 0 <=> x.doc = Empty)
  BY DocsAssumption DEF DocsAssumption, Images
<1>5. (IF Cipher(x) = << >> THEN Empty ELSE Cipher(x)[1].doc) = x.doc
  <2>1. CASE Cipher(x) = << >>
    BY <1>3, <1>4, <2>1, EmptySeq
  <2>2. CASE Cipher(x) # << >>
    <3>1. Len(Cipher(x)) > 0
      BY <1>3, <2>2, EmptySeq
    <3>2. Cipher(x)[1] = Block(x, 1)
      BY <1>3, <1>4, <3>1
    <3> QED
      BY <2>2, <3>2 DEF Block
  <2> QED
    BY <2>1, <2>2
<1> QED
  BY <1>1, <1>2, <1>5 DEF Named

LEMMA ContentOfImage ==
  ASSUME NEW x \in Images
  PROVE  Content(NewFile(x)) = Register!Sealed(x.doc, x.pw)
<1>1. NewFile(x).head.magic = "0020" /\ NewFile(x) # EmptyFile
  BY DEF NewFile, NewHeader, Header, EmptyFile, NoHeader
<1> QED
  BY <1>1, ImageNamed DEF Content, Register!Sealed

\* A header without its ciphertext is nothing that read() accepts, unless there
\* is none to follow.
LEMMA ContentOfHeader ==
  ASSUME NEW x \in Images
  PROVE  Content([head |-> NewHeader(x), body |-> << >>]) \in
           {Register!Damaged, Register!Sealed(x.doc, x.pw)}
<1> DEFINE f == [head |-> NewHeader(x), body |-> << >>]
<1>1. f.head.magic = "0020" /\ f # EmptyFile /\ Named(f).pw = x.pw
  BY DEF NewHeader, Header, EmptyFile, NoHeader, Named, Mac
<1>2. CASE x.doc = Empty
  <2>1. Named(f).doc = x.doc
    BY <1>2 DEF Named
  <2> QED
    BY <1>1, <2>1 DEF Content, Register!Damaged, Register!Sealed
<1>3. CASE x.doc # Empty
  <2>1. SUFFICES ASSUME f = NewFile(Named(f)) PROVE FALSE
    BY <1>1 DEF Content, Register!Damaged
  <2>2. Cipher(Named(f)) = << >> /\ NewHeader(x) = NewHeader(Named(f))
    <3> HIDE DEF f
    <3> QED
      BY <2>1 DEF NewFile, f
  <2>3. Cipher(x) = Cipher(Named(f))
    BY <2>2 DEF NewHeader, Header, Mac
  <2>4. Len(Cipher(x)) = 0
    BY <2>2, <2>3, EmptySeq
  <2>5. Blocks[x.doc] # 0
    BY <1>3, DocsAssumption DEF DocsAssumption, Images
  <2> QED
    BY <2>4, <2>5, CipherType
<1> QED
  BY <1>2, <1>3

\* Behind a genuine header, only the ciphertext it was made for makes the file
\* a document.
LEMMA SealedFile ==
  ASSUME NEW f, NEW x \in Images, f = [head |-> NewHeader(x), body |-> f.body], NEW p
  PROVE  /\ f.body = Cipher(x) => f = NewFile(x)
         /\ (\E d \in Docs : Content(f) = Register!Sealed(d, p)) => f.body = Cipher(x) /\ x.pw = p
<1>1. f.body = Cipher(x) => f = NewFile(x)
  BY DEF NewFile
<1>2. ASSUME NEW d \in Docs, Content(f) = Register!Sealed(d, p)
      PROVE  f.body = Cipher(x) /\ x.pw = p
  <2>1. f = NewFile(Named(f)) /\ Named(f).pw = p
    BY <1>2 DEF Content, Register!Sealed
  <2>2. f.body = Cipher(Named(f)) /\ f.head = NewHeader(Named(f))
    BY <2>1 DEF NewFile
  <2>3. NewHeader(x) = NewHeader(Named(f))
    BY <2>2
  <2>4. Cipher(x) = Cipher(Named(f)) /\ x.pw = Named(f).pw
    BY <2>3 DEF NewHeader, Header, Mac
  <2> QED
    BY <2>1, <2>2, <2>4
<1> QED
  BY <1>1, <1>2
-----------------------------------------------------------------------------
(* Between the steps of a call.                                            *)

OneCaller == \A g, h \in Handles : pc[g] = "idle" \/ pc[h] = "idle" \/ g = h

FileIsNew == file = EmptyFile \/ file.head.magic = "0020"

Remembered == Writing \/ before = file

\* A reader has the file's length, and then what its header says.
InRead(h) ==
  /\ pc[h] \in {"parse", "contents"} => obj[h].length = FileLength
  /\ pc[h] = "contents" =>
       /\ file.head.magic = "0020" /\ arg[h].op = "read"
       /\ obj[h].salt = file.head.salt /\ obj[h].iv = file.head.iv
       /\ obj[h].hmac = file.head.hmac /\ obj[h].timestamp = file.head.timestamp

\* What a writer is about to put into the file.
ImageOf(h) ==
  [doc |-> obj[h].buf, pw |-> arg[h].pw, salt |-> obj[h].salt, iv |-> obj[h].iv,
   timestamp |-> obj[h].timestamp]

\* A writer puts one image into the file, and nobody else touches that.
InWrite(h) ==
  /\ pc[h] \in WritePoints =>
       /\ arg[h].op = "write" /\ obj[h].enc = Cipher(ImageOf(h))
       /\ obj[h].hmac = Mac(obj[h].timestamp, obj[h].enc, arg[h].pw)
  /\ pc[h] = "truncate" => file = before
  /\ pc[h] = "header" => file = EmptyFile
  /\ pc[h] = "body" => file = [head |-> NewHeader(ImageOf(h)), body |-> << >>]

OrderInv ==
  /\ TypeOK /\ AuthInv
  /\ OneCaller /\ FileIsNew /\ Remembered
  /\ \A h \in Handles : InRead(h) /\ InWrite(h)

LEMMA ImageOfWriter ==
  ASSUME TypeOK, NEW h \in Handles
  PROVE  ImageOf(h) \in Images
  BY DEF TypeOK, Objects, ImageOf, Images

LEMMA LengthMeasured ==
  ASSUME OrderlyUse
  PROVE  MeasuredLength = {FileLength}
  BY DEF OrderlyUse, MeasuredLength

\* Nobody else is inside a call while a handle's call begins or goes on.
LEMMA OthersWait ==
  ASSUME OrderlyUse, OrderInv, NEW h \in Handles, Step(h), ~ Crash(h)
  PROVE  \A g \in Handles \ {h} : pc[g] = "idle"
<1>1. CASE Continue(h)
  <2>1. pc[h] # "idle"
    BY <1>1 DEF Continue, ParseHeader, RejectContents, DecryptContents, Truncate, PutHeader,
                PutBody, OpenFails, OutputFails
  <2> QED
    BY <2>1 DEF OrderInv, OneCaller
<1>2. CASE StartCall(h) \/ UseObject(h)
  BY <1>2 DEF StartCall, StartRead, ReadNothing, ReadNothingFails, Prepare, RefuseWrite,
              UseObject, SetDirty, Edit, Ready, OrderlyUse
<1> QED
  BY <1>1, <1>2 DEF Step

LEMMA CallBegins ==
  ASSUME OrderlyUse, OrderInv, NEW h \in Handles, Ready(h)
  PROVE  ~ Writing /\ before = file
  BY DEF OrderlyUse, OrderInv, Ready, Writing, WritePoints, Remembered

\* A step of a handle, seen by the others.
LEMMA OrderKeptByOthers ==
  ASSUME OrderlyUse, OrderInv, NEW h \in Handles, Step(h), Remember
  PROVE  OneCaller' /\ \A g \in Handles \ {h} : InRead(g)' /\ InWrite(g)'
<1>a. \A g \in Handles \ {h} :
        obj'[g] = obj[g] /\ pc'[g] = pc[g] /\ arg'[g] = arg[g] /\ InRead(g) /\ InWrite(g)
  BY Frame DEF OrderInv
<1>1. CASE Crash(h)
  <2>1. pc'[h] = "idle" /\ file' = file
    BY <1>1 DEF Crash, OrderInv, TypeOK
  <2>2. OneCaller'
    BY <1>a, <2>1 DEF OrderInv, OneCaller
  <2>3. FileLength' = FileLength
    BY <2>1 DEF FileLength, HeadLength
  <2>4. ASSUME NEW g \in Handles \ {h} PROVE InRead(g)' /\ InWrite(g)'
    <3>1. InRead(g)'
      BY <1>a, <2>1, <2>3 DEF InRead
    <3>2. ImageOf(g)' = ImageOf(g)
      BY <1>a DEF ImageOf
    <3>3. pc'[g] = "truncate" => before' = before
      BY <1>a DEF Remember, Writing, WritePoints
    <3> QED
      BY <1>a, <2>1, <3>1, <3>2, <3>3 DEF InWrite
  <2> QED
    BY <2>2, <2>4
<1>2. CASE ~ Crash(h)
  <2>1. \A g \in Handles \ {h} : pc'[g] = "idle"
    BY <1>a, <1>2, OthersWait
  <2> QED
    BY <2>1 DEF OneCaller, InRead, InWrite, WritePoints
<1> QED
  BY <1>1, <1>2

\* ... and by itself.
LEMMA OrderKept ==
  ASSUME OrderlyUse, OrderInv, NEW h \in Handles, Step(h), Remember
  PROVE  FileIsNew' /\ InRead(h)' /\ InWrite(h)'
<1>a. /\ obj \in [Handles -> Objects] /\ obj[h] \in Objects /\ pc \in [Handles -> Points]
      /\ arg = [g \in Handles |-> arg[g]] /\ last = [g \in Handles |-> last[g]]
      /\ file = [head |-> file.head, body |-> file.body]
      /\ arg[h].op \in {"none", "read", "read_old", "write"} /\ arg[h].pw \in Passwords
      /\ FileIsNew /\ InRead(h) /\ InWrite(h)
  BY DEF OrderInv, TypeOK
<1>b. pc'[h] \in WritePoints => Writing'
  BY DEF Writing
<1>c. pc'[h] \in WritePoints => before' = before
  BY <1>b DEF Remember
<1>1. ASSUME NEW p \in Passwords, NEW op \in ReadOps, StartRead(h, op, p)
      PROVE  FileIsNew' /\ InRead(h)' /\ InWrite(h)'
  <2>1. file' = file /\ pc'[h] = "parse" /\ obj'[h].length = FileLength
    BY <1>a, <1>1, LengthMeasured DEF StartRead, Goto, Wiped, Objects
  <2>2. FileLength' = FileLength
    BY <2>1 DEF FileLength, HeadLength
  <2> QED
    BY <1>a, <2>1, <2>2 DEF FileIsNew, InRead, InWrite, WritePoints
<1>2. ASSUME file' = file, pc'[h] = "idle"
      PROVE  FileIsNew' /\ InRead(h)' /\ InWrite(h)'
  BY <1>a, <1>2 DEF FileIsNew, InRead, InWrite, WritePoints
<1>3. ASSUME NEW p \in Passwords, Prepare(h, p)
      PROVE  FileIsNew' /\ InRead(h)' /\ InWrite(h)'
  <2>1. file' = file /\ pc'[h] = "truncate" /\ arg'[h] = Call("write", p)
    BY <1>a, <1>3 DEF Prepare, Goto
  <2>2. before = file
    BY <1>3, CallBegins DEF Prepare
  <2>3. PICK x \in sealed' :
          /\ x = [doc |-> obj[h].buf, pw |-> p, salt |-> obj[h].salt, iv |-> x.iv,
                  timestamp |-> x.timestamp]
          /\ obj' = [obj EXCEPT ![h] = [@ EXCEPT
                       !.iv = x.iv, !.timestamp = x.timestamp, !.enc = Cipher(x),
                       !.hmac = Mac(x.timestamp, Cipher(x), p)]]
    BY <1>3 DEF Prepare
  <2>4. obj'[h] = [obj[h] EXCEPT
                     !.iv = x.iv, !.timestamp = x.timestamp, !.enc = Cipher(x),
                     !.hmac = Mac(x.timestamp, Cipher(x), p)]
    BY <1>a, <2>3
  <2>5. /\ obj'[h].iv = x.iv /\ obj'[h].timestamp = x.timestamp
        /\ obj'[h].enc = Cipher(x) /\ obj'[h].hmac = Mac(x.timestamp, Cipher(x), p)
        /\ obj'[h].buf = obj[h].buf /\ obj'[h].salt = obj[h].salt
    BY <1>a, <2>4 DEF Objects
  <2>6. ImageOf(h)' = x
    BY <2>1, <2>3, <2>5 DEF ImageOf, Call
  <2> QED
    BY <1>a, <1>c, <2>1, <2>2, <2>5, <2>6 DEF FileIsNew, InRead, InWrite, WritePoints, Call
<1>4. CASE StartCall(h)
  <2>1. ASSUME NEW p \in Passwords, NEW op \in ReadOps,
               ReadNothing(h, op, p) \/ ReadNothingFails(h, op, p) \/ RefuseWrite(h, p)
        PROVE  file' = file /\ pc'[h] = "idle"
    BY <1>a, <2>1 DEF ReadNothing, ReadNothingFails, RefuseWrite, Return
  <2>2. ASSUME NEW p \in Passwords, RefuseWrite(h, p)
        PROVE  file' = file /\ pc'[h] = "idle"
    BY <1>a, <2>2 DEF RefuseWrite, Return
  <2> QED
    BY <1>1, <1>2, <1>3, <1>4, <2>1, <2>2 DEF StartCall
<1>5. CASE UseObject(h)
  <2>1. file' = file /\ pc'[h] = "idle"
    BY <1>5 DEF UseObject, SetDirty, Edit, Ready
  <2> QED
    BY <1>2, <2>1
<1>6. CASE Crash(h) \/ RejectContents(h) \/ DecryptContents(h)
  <2>1. file' = file /\ pc'[h] = "idle"
    BY <1>a, <1>6 DEF Crash, RejectContents, DecryptContents, Return
  <2> QED
    BY <1>2, <2>1
<1>7. CASE ParseHeader(h)
  <2>1. file' = file /\ arg' = arg /\ pc[h] = "parse"
    BY <1>7 DEF ParseHeader
  <2>2. CASE ~ Accepts(arg[h].op, file.head.magic)
    <3>1. pc'[h] = "idle"
      BY <1>a, <1>7, <2>2 DEF ParseHeader, Return
    <3> QED
      BY <1>2, <2>1, <3>1
  <2>3. CASE Accepts(arg[h].op, file.head.magic)
    <3>1. file.head.magic = "0020" /\ arg[h].op = "read"
      <4>1. file.head.magic # "0010"
        BY <1>a DEF FileIsNew, EmptyFile, NoHeader, Header
      <4>2. arg[h].op \in {"read", "read_old"}
        BY <2>1 DEF OrderInv, TypeOK
      <4> QED
        BY <2>3, <4>1, <4>2 DEF Accepts
    <3>2. obj'[h] = Parsed(obj[h], "read", file.head) /\ pc'[h] = "contents"
      BY <1>a, <1>7, <2>3, <3>1 DEF ParseHeader, Goto
    <3>3. /\ obj'[h].salt = file.head.salt /\ obj'[h].iv = file.head.iv
          /\ obj'[h].hmac = file.head.hmac /\ obj'[h].timestamp = file.head.timestamp
          /\ obj'[h].length = obj[h].length
      BY <1>a, <3>2 DEF Parsed, Objects
    <3>4. FileLength' = FileLength
      BY <2>1 DEF FileLength, HeadLength
    <3> QED
      BY <1>a, <2>1, <3>1, <3>2, <3>3, <3>4 DEF FileIsNew, InRead, InWrite, WritePoints
  <2> QED
    BY <2>2, <2>3
<1>8. CASE Truncate(h)
  <2>1. /\ file' = EmptyFile /\ obj' = obj /\ arg' = arg
        /\ pc[h] = "truncate" /\ pc'[h] = "header"
    BY <1>a, <1>8 DEF Truncate, Truncated, Goto
  <2>2. ImageOf(h)' = ImageOf(h)
    BY <2>1 DEF ImageOf
  <2> QED
    BY <1>a, <2>1, <2>2 DEF FileIsNew, InRead, InWrite, WritePoints
<1>9. CASE PutHeader(h)
  <2>1. /\ file' = [file EXCEPT !.head = Header("0020", obj[h].salt, obj[h].iv, obj[h].hmac,
                                                 obj[h].timestamp)]
        /\ obj' = obj /\ arg' = arg /\ pc[h] = "header" /\ pc'[h] = "body"
    BY <1>a, <1>9 DEF PutHeader, Goto
  <2>2. ImageOf(h)' = ImageOf(h)
    BY <2>1 DEF ImageOf
  <2>3. NewHeader(ImageOf(h)) = Header("0020", obj[h].salt, obj[h].iv, obj[h].hmac,
                                       obj[h].timestamp)
    BY <1>a, <2>1 DEF InWrite, WritePoints, ImageOf, NewHeader
  <2>4. file' = [head |-> NewHeader(ImageOf(h)), body |-> << >>]
    BY <1>a, <2>1, <2>3 DEF InWrite, EmptyFile
  <2>5. file'.head.magic = "0020"
    BY <2>4 DEF NewHeader, Header
  <2> QED
    BY <1>a, <2>1, <2>2, <2>4, <2>5 DEF FileIsNew, InRead, InWrite, WritePoints
<1>10. CASE PutBody(h)
  <2>1. pc'[h] = "idle" /\ pc[h] = "body" /\ file' = FileWith(obj[h].enc)
    BY <1>a, <1>10 DEF PutBody, WriteReturns, Return
  <2>2. file.head.magic = "0020"
    BY <1>a, <2>1 DEF InWrite, NewHeader, Header
  <2>3. file'.head.magic = "0020"
    BY <2>1, <2>2 DEF FileWith
  <2> QED
    BY <2>1, <2>3 DEF FileIsNew, InRead, InWrite, WritePoints
<1>11. ~ OpenFails(h) /\ ~ OutputFails(h)
  BY DEF OrderlyUse, OpenFails, OutputFails
<1> QED
  BY <1>4, <1>5, <1>6, <1>7, <1>8, <1>9, <1>10, <1>11 DEF Step, Continue

LEMMA OrderStarts == ASSUME OrderlyUse PROVE RefInit => OrderInv
<1> SUFFICES ASSUME RefInit PROVE OrderInv
  OBVIOUS
<1>1. TypeOK /\ AuthInv
  BY InitType, AuthInit DEF RefInit
<1>2. FileIsNew
  BY DEF RefInit, Init, OrderlyUse, FirstImages, FileIsNew, NewFile, NewHeader, Header
<1>3. \A h \in Handles : pc[h] = "idle"
  BY DEF RefInit, Init
<1> QED
  BY <1>1, <1>2, <1>3
  DEF OrderInv, RefInit, OneCaller, Remembered, InRead, InWrite, WritePoints

LEMMA OrderStep ==
  ASSUME OrderlyUse, OrderInv, [RefNext]_rvars
  PROVE  OrderInv'
<1>1. CASE UNCHANGED rvars
  <2>1. TypeOK' /\ AuthInv'
    BY <1>1, TypeStep, AuthStep DEF OrderInv, rvars
  <2> QED
    BY <1>1, <2>1
    DEF rvars, vars, OrderInv, OneCaller, FileIsNew, Remembered, Writing, InRead, InWrite,
        ImageOf, FileLength, HeadLength
<1>2. CASE RefNext
  <2>1. PICK h \in Handles : Step(h)
    BY <1>2 DEF RefNext, Next, Step
  <2>2. TypeOK' /\ AuthInv'
    BY <1>2, TypeStep, AuthStep DEF OrderInv, RefNext
  <2>3. Remember /\ Remembered'
    BY <1>2 DEF RefNext, Remember, Remembered
  <2> QED
    BY <2>1, <2>2, <2>3, OrderKeptByOthers, OrderKept DEF OrderInv
<1> QED
  BY <1>1, <1>2
-----------------------------------------------------------------------------
(* Steps of the register.                                                  *)

\* A step of one handle changes what the register has of that handle.
LEMMA SeenOfOne ==
  ASSUME OrderInv, NEW h \in Handles, Step(h)
  PROVE  /\ Texts' = [Texts EXCEPT ![h] = obj'[h].buf]
         /\ Phases' = [Phases EXCEPT ![h] = IF pc'[h] = "idle" THEN Register!Outside ELSE arg'[h]]
         /\ last'[h] = last[h] => Reports' = Reports
<1>1. \A g \in Handles \ {h} :
        obj'[g] = obj[g] /\ pc'[g] = pc[g] /\ arg'[g] = arg[g] /\ last'[g] = last[g]
  BY Frame DEF OrderInv
<1>2. Texts' = [Texts EXCEPT ![h] = obj'[h].buf]
  BY <1>1 DEF Texts
<1>3. Phases' = [Phases EXCEPT ![h] = IF pc'[h] = "idle" THEN Register!Outside ELSE arg'[h]]
  BY <1>1 DEF Phases, Register!Outside
<1>4. last'[h] = last[h] => Reports' = Reports
  BY <1>1 DEF Reports
<1> QED
  BY <1>2, <1>3, <1>4

LEMMA Reported ==
  ASSUME OrderInv, NEW h \in Handles, NEW op, NEW err, NEW ok, ok = (err = "NO_ERROR"),
         last' = [last EXCEPT ![h] = [op |-> op, err |-> err]]
  PROVE  Register!Report(h, op, ok)
<1>1. last'[h] = [op |-> op, err |-> err] /\ \A g \in Handles \ {h} : last'[g] = last[g]
  BY DEF OrderInv, TypeOK
<1>2. last'[h].op = op /\ last'[h].err = err
  BY <1>1
<1>3. Reports' = [Reports EXCEPT ![h] = [op |-> last'[h].op, ok |-> last'[h].err = "NO_ERROR"]]
  BY <1>1 DEF Reports
<1> QED
  BY <1>2, <1>3 DEF Register!Report

\* What a register's handle is.
LEMMA Seen ==
  ASSUME NEW h \in Handles
  PROVE  /\ Texts[h] = obj[h].buf
         /\ Phases[h] = IF pc[h] = "idle" THEN Register!Outside ELSE arg[h]
  BY DEF Texts, Phases, Register!Outside

\* The document stays until a writer's call ends.
LEMMA HeldKept ==
  ASSUME OrderlyUse, OrderInv, NEW h \in Handles, Step(h), Remember,
         pc'[h] \in WritePoints \/ (file' = file /\ pc[h] \notin WritePoints)
  PROVE  Held' = Held
<1>1. \A g \in Handles \ {h} : pc'[g] = pc[g]
  BY Frame DEF OrderInv
<1>2. CASE Writing'
  <2>1. Held' = Content(before)
    BY <1>2 DEF Held, Remember
  <2>2. Writing \/ before = file
    BY DEF OrderInv, Remembered
  <2> QED
    BY <2>1, <2>2 DEF Held
<1>3. CASE ~ Writing'
  <2>1. ~ Writing /\ file' = file
    BY <1>1, <1>3 DEF Writing
  <2> QED
    BY <1>3, <2>1 DEF Held
<1> QED
  BY <1>2, <1>3

\* A call that may begin finds nobody inside of one.
LEMMA TurnComes ==
  ASSUME OrderlyUse, OrderInv, NEW h \in Handles, Ready(h)
  PROVE  /\ Register!Turn(h) /\ Held = Content(file) /\ pc[h] = "idle"
         /\ pc[h] \notin WritePoints
<1>1. \A g \in Handles : pc[g] = "idle"
  BY DEF OrderlyUse, Ready
<1>2. \A g \in Handles : Phases[g] = Register!Outside
  BY <1>1, Seen
<1> QED
  BY <1>1, <1>2, CallBegins DEF Register!Turn, Held, WritePoints

\* Without a header there is no file, as writers leave none shorter behind.
LEMMA NothingThere ==
  ASSUME OrderlyUse, OrderInv, NEW op \in ReadOps
  PROVE  HasHeader(FileLength, op) <=> file # EmptyFile
<1>1. CASE file = EmptyFile
  <2>1. FileLength = 0
    BY <1>1, EmptySeq DEF FileLength, HeadLength, EmptyFile, NoHeader, Header
  <2> QED
    BY <1>1, <2>1 DEF HasHeader, HeaderSize
<1>2. CASE file # EmptyFile
  <2>1. HeadLength(file) = 8
    BY <1>2 DEF OrderInv, FileIsNew, HeadLength
  <2>2. Len(file.body) \in Nat
    BY LenProperties DEF OrderInv, TypeOK
  <2> QED
    BY <1>2, <2>1, <2>2 DEF HasHeader, HeaderSize, FileLength
<1> QED
  BY <1>1, <1>2

LEMMA ReadingBegins ==
  ASSUME OrderlyUse, OrderInv, NEW h \in Handles, Remember,
         NEW op \in ReadOps, NEW p \in Passwords, StartRead(h, op, p)
  PROVE  Register!StartRead(h, op, p)
<1>a. Step(h)
  BY DEF Step, StartCall
<1>b. obj \in [Handles -> Objects] /\ pc \in [Handles -> Points] /\ arg = [g \in Handles |-> arg[g]]
  BY DEF OrderInv, TypeOK
<1>1. /\ Ready(h) /\ HasHeader(FileLength, op) /\ file' = file
      /\ obj'[h].buf = Zeroed[obj[h].buf]
      /\ pc'[h] = "parse" /\ arg'[h] = [op |-> op, pw |-> p] /\ last' = last
  BY <1>b, LengthMeasured DEF StartRead, Goto, Call, Wiped, Objects
<1>2. Register!Turn(h) /\ Held # Register!Absent
  BY <1>1, TurnComes, NothingThere, ContentOfSomething
<1>3. Held' = Held
  BY <1>1, <1>a, TurnComes, HeldKept
<1>4. Texts' = [Texts EXCEPT ![h] = Zeroed[Texts[h]]] /\ Reports' = Reports
  BY <1>1, <1>a, SeenOfOne, Seen
<1>5. Phases' = [Phases EXCEPT ![h] = Register!Inside(op, p)]
  BY <1>1, <1>a, SeenOfOne DEF Register!Inside
<1> QED
  BY <1>2, <1>3, <1>4, <1>5 DEF Register!StartRead

LEMMA NothingIsRead ==
  ASSUME OrderlyUse, OrderInv, NEW h \in Handles, Remember,
         NEW op \in ReadOps, NEW p \in Passwords,
         ReadNothing(h, op, p) \/ ReadNothingFails(h, op, p)
  PROVE  Register!ReadAbsent(h, IF op = "read" THEN "create" ELSE op)
<1> DEFINE o == IF op = "read" THEN "create" ELSE op
<1>a. Step(h)
  BY DEF Step, StartCall
<1>b. obj \in [Handles -> Objects] /\ pc \in [Handles -> Points] /\ arg = [g \in Handles |-> arg[g]]
  BY DEF OrderInv, TypeOK
<1>1. /\ Ready(h) /\ ~ HasHeader(FileLength, op) /\ file' = file
      /\ obj'[h].buf = Zeroed[obj[h].buf] /\ pc'[h] = "idle"
  <2>w. Wiped(obj[h]) \in Objects /\ Wiped(obj[h]).buf = Zeroed[obj[h].buf]
    BY <1>b, WipedType
  <2>1. CASE ReadNothing(h, op, p)
    <3>1. /\ Ready(h) /\ ~ HasHeader(FileLength, op) /\ file' = file /\ pc'[h] = "idle"
          /\ obj' = [obj EXCEPT ![h] = [Wiped(@) EXCEPT !.length = FileLength,
                       !.salt = fresh + 1, !.iv = fresh + 1, !.dirty = TRUE]]
      BY <1>b, <2>1, LengthMeasured DEF ReadNothing, Return
    <3> QED
      BY <1>b, <2>w, <3>1 DEF Objects
  <2>2. CASE ReadNothingFails(h, op, p)
    <3>1. /\ Ready(h) /\ ~ HasHeader(FileLength, op) /\ file' = file /\ pc'[h] = "idle"
          /\ obj' = [obj EXCEPT ![h] = [Wiped(@) EXCEPT !.length = FileLength]]
      BY <1>b, <2>2, LengthMeasured DEF ReadNothingFails, Return
    <3> QED
      BY <1>b, <2>w, <3>1 DEF Objects
  <2> QED
    BY <2>1, <2>2
<1>2. \E err \in Errors : last' = [last EXCEPT ![h] = [op |-> o, err |-> err]]
  BY DEF ReadNothing, ReadNothingFails, Return, Errors
<1>3. Register!Turn(h) /\ Held = Register!Absent
  BY <1>1, TurnComes, NothingThere, ContentOfNothing
<1>4. Held' = Held
  BY <1>1, <1>a, TurnComes, HeldKept
<1>5. Texts' = [Texts EXCEPT ![h] = Zeroed[Texts[h]]]
  BY <1>1, <1>a, SeenOfOne, Seen
<1>6. Phases' = Phases
  <2>1. Phases' = [Phases EXCEPT ![h] = Register!Outside] /\ Phases[h] = Register!Outside
    BY <1>1, <1>a, SeenOfOne, Seen DEF Ready
  <2> QED
    BY <2>1 DEF Phases
<1>7. \E ok \in BOOLEAN : Register!Report(h, o, ok)
  <2>1. PICK err \in Errors : last' = [last EXCEPT ![h] = [op |-> o, err |-> err]]
    BY <1>2
  <2>2. Register!Report(h, o, err = "NO_ERROR")
    BY <2>1, Reported
  <2>3. (err = "NO_ERROR") \in BOOLEAN
    OBVIOUS
  <2> QED
    BY <2>2, <2>3
<1> QED
  BY <1>3, <1>4, <1>5, <1>6, <1>7 DEF Register!ReadAbsent

LEMMA TextEdited ==
  ASSUME OrderlyUse, OrderInv, NEW h \in Handles, Remember, NEW d \in Docs, Edit(h, d)
  PROVE  Register!Edit(h, d)
<1>a. Step(h)
  BY DEF Step, UseObject
<1>1. /\ Ready(h) /\ file' = file /\ obj'[h].buf = d /\ pc' = pc
      /\ last' = [last EXCEPT ![h] = [op |-> "edit", err |-> "NO_ERROR"]]
  BY DEF Edit, OrderInv, TypeOK, Objects
<1>2. Register!Turn(h) /\ Held' = Held /\ pc[h] = "idle"
  BY <1>1, <1>a, TurnComes, HeldKept
<1>3. Texts' = [Texts EXCEPT ![h] = d]
  BY <1>1, <1>a, SeenOfOne
<1>4. Phases' = Phases
  BY DEF Edit, Phases
<1>5. Register!Report(h, "edit", TRUE)
  BY <1>1, Reported
<1> QED
  BY <1>2, <1>3, <1>4, <1>5 DEF Register!Edit

LEMMA WritingBegins ==
  ASSUME OrderlyUse, OrderInv, NEW h \in Handles, Remember, NEW p \in Passwords, Prepare(h, p)
  PROVE  Register!StartWrite(h, p)
<1>a. Step(h)
  BY DEF Step, StartCall
<1>b. obj \in [Handles -> Objects] /\ pc \in [Handles -> Points] /\ arg = [g \in Handles |-> arg[g]]
  BY DEF OrderInv, TypeOK
<1>1. /\ Ready(h) /\ pc'[h] = "truncate" /\ arg'[h] = [op |-> "write", pw |-> p] /\ last' = last
      /\ obj'[h].buf = obj[h].buf
  BY <1>b DEF Prepare, Goto, Call, Objects
<1>2. Register!Turn(h)
  BY <1>1, TurnComes
<1>3. Held' = Held
  BY <1>1, <1>a, HeldKept DEF WritePoints
<1>4. Texts' = Texts /\ Reports' = Reports
  <2>1. Texts' = [Texts EXCEPT ![h] = Texts[h]]
    BY <1>1, <1>a, SeenOfOne, Seen
  <2> QED
    BY <1>1, <1>a, <2>1, SeenOfOne DEF Texts
<1>5. Phases' = [Phases EXCEPT ![h] = Register!Inside("write", p)]
  BY <1>1, <1>a, SeenOfOne DEF Register!Inside
<1> QED
  BY <1>2, <1>3, <1>4, <1>5 DEF Register!StartWrite

LEMMA WritingRefused ==
  ASSUME OrderlyUse, OrderInv, NEW h \in Handles, Remember, NEW p \in Passwords, RefuseWrite(h, p)
  PROVE  Register!RefuseWrite(h)
<1>a. Step(h)
  BY DEF Step, StartCall
<1>1. /\ Ready(h) /\ file' = file /\ pc'[h] = "idle" /\ obj' = obj
      /\ last' = [last EXCEPT ![h] = [op |-> "write", err |-> "INTERNAL_CIPHER_ERROR"]]
  BY DEF RefuseWrite, Return, OrderInv, TypeOK
<1>2. Register!Turn(h) /\ Held' = Held /\ pc[h] = "idle"
  BY <1>1, <1>a, TurnComes, HeldKept
<1>3. Texts' = Texts
  BY <1>1 DEF Texts
<1>4. Phases' = Phases
  <2>1. Phases' = [Phases EXCEPT ![h] = Register!Outside] /\ Phases[h] = Register!Outside
    BY <1>1, <1>2, <1>a, SeenOfOne, Seen
  <2> QED
    BY <2>1 DEF Phases
<1>5. Register!Report(h, "write", FALSE)
  <2>1. FALSE = ("INTERNAL_CIPHER_ERROR" = "NO_ERROR")
    OBVIOUS
  <2> QED
    BY <1>1, <2>1, Reported
<1> QED
  BY <1>2, <1>3, <1>4, <1>5 DEF Register!RefuseWrite
\* Inside a call the document is that of the file, until a writer is there.
LEMMA HeldByReader ==
  ASSUME OrderInv, NEW h \in Handles, pc[h] \in {"parse", "contents"}
  PROVE  Held = Content(file) /\ pc[h] \notin WritePoints
<1>1. ~ Writing
  BY DEF OrderInv, OneCaller, Writing, WritePoints
<1> QED
  BY <1>1 DEF Held, WritePoints

LEMMA ReadingEnds ==
  ASSUME OrderlyUse, OrderInv, NEW h \in Handles, Step(h), Remember,
         pc[h] \in {"parse", "contents"}, pc'[h] = "idle", UNCHANGED <<file, arg>>,
         NEW err, last' = [last EXCEPT ![h] = [op |-> arg[h].op, err |-> err]],
         err = "NO_ERROR" <=>
           arg[h].op = "read" /\ \E d \in Docs : Content(file) = Register!Sealed(d, arg[h].pw),
         obj'[h].buf = IF err = "NO_ERROR" THEN Content(file).doc ELSE obj[h].buf
  PROVE  Register!EndRead(h)
<1>1. Phases[h] = arg[h] /\ Texts[h] = obj[h].buf
  BY Seen
<1>2. Held = Content(file) /\ Held' = Held
  BY HeldByReader, HeldKept
<1>3. arg[h].op \in {"read", "read_old"}
  BY DEF OrderInv, TypeOK
<1>4. Phases' = [Phases EXCEPT ![h] = Register!Outside]
  BY SeenOfOne
<1>5. Texts' = [Texts EXCEPT ![h] = obj'[h].buf]
  BY SeenOfOne
<1>6. CASE err = "NO_ERROR"
  <2>1. Phases[h].op = "read" /\ \E d \in Docs : Held = Register!Sealed(d, Phases[h].pw)
    BY <1>1, <1>2, <1>6
  <2>2. Texts' = [Texts EXCEPT ![h] = Held.doc]
    BY <1>2, <1>5, <1>6
  <2>3. TRUE = (err = "NO_ERROR")
    BY <1>6
  <2>4. Register!Report(h, Phases[h].op, TRUE)
    BY <1>1, <2>3, Reported
  <2> QED
    BY <1>1, <1>2, <1>3, <1>4, <2>1, <2>2, <2>4 DEF Register!EndRead, Register!Leave
<1>7. CASE err # "NO_ERROR"
  <2>1. ~ (Phases[h].op = "read" /\ \E d \in Docs : Held = Register!Sealed(d, Phases[h].pw))
    BY <1>1, <1>2, <1>7
  <2>2. Texts' = Texts
    <3>1. Texts' = [Texts EXCEPT ![h] = Texts[h]]
      BY <1>1, <1>5, <1>7
    <3> QED
      BY <3>1 DEF Texts
  <2>3. FALSE = (err = "NO_ERROR")
    BY <1>7
  <2>4. Register!Report(h, Phases[h].op, FALSE)
    BY <1>1, <2>3, Reported
  <2> QED
    BY <1>1, <1>2, <1>3, <1>4, <2>1, <2>2, <2>4 DEF Register!EndRead, Register!Leave
<1> QED
  BY <1>6, <1>7

\* A reader that turns the header down has found no document ...
LEMMA HeaderRefused ==
  ASSUME OrderlyUse, OrderInv, NEW h \in Handles, Remember,
         ParseHeader(h), ~ Accepts(arg[h].op, file.head.magic)
  PROVE  Register!EndRead(h)
<1>1. /\ pc[h] = "parse" /\ pc'[h] = "idle" /\ UNCHANGED <<file, arg, obj>>
      /\ last' = [last EXCEPT ![h] = [op |-> arg[h].op, err |-> "NO_HEADER_IN_FILE"]]
  BY DEF ParseHeader, Return, OrderInv, TypeOK
<1>2. arg[h].op = "read" => ~ \E d \in Docs : Content(file) = Register!Sealed(d, arg[h].pw)
  <2> SUFFICES ASSUME arg[h].op = "read"
               PROVE  ~ \E d \in Docs : Content(file) = Register!Sealed(d, arg[h].pw)
    OBVIOUS
  <2>1. file = EmptyFile
    BY DEF Accepts, OrderInv, FileIsNew
  <2>2. Content(file).kind = "absent"
    BY <2>1, ContentOfNothing DEF Register!Absent
  <2>3. \A d \in Docs : Register!Sealed(d, arg[h].pw).kind = "sealed"
    BY DEF Register!Sealed
  <2> QED
    BY <2>2, <2>3
<1>3. Step(h)
  BY DEF Step, Continue
<1> QED
  BY <1>1, <1>2, <1>3, ReadingEnds

\* What a reader takes from behind a genuine header is all there is.
LEMMA AllIsRead ==
  ASSUME OrderInv, NEW h \in Handles, pc[h] = "contents"
  PROVE  /\ ReadBody("read", obj[h].length - HeaderSize("read")) = file.body
         /\ \E x \in sealed :
              /\ file = [head |-> NewHeader(x), body |-> file.body] /\ Holds(h, x)
<1>1. /\ file.head.magic = "0020" /\ obj[h].length = FileLength
      /\ obj[h].salt = file.head.salt /\ obj[h].iv = file.head.iv
      /\ obj[h].hmac = file.head.hmac /\ obj[h].timestamp = file.head.timestamp
  BY DEF OrderInv, InRead
<1>2. file = [head |-> file.head, body |-> file.body] /\ file.body \in Seq(CipherBlocks)
  BY DEF OrderInv, TypeOK
<1>3. obj[h].length - HeaderSize("read") = Len(file.body)
  <2>1. FileLength = 8 + Len(file.body) /\ HeaderSize("read") = 8 /\ Len(file.body) \in Nat
    BY <1>1, <1>2, LenProperties DEF FileLength, HeadLength, HeaderSize
  <2> QED
    BY <1>1, <2>1
<1>4. Contents("read") = file.body
  BY DEF Contents
<1>5. ReadBody("read", Len(file.body)) = file.body
  BY <1>2, <1>4 DEF ReadBody
<1>6. PICK x \in sealed : file.head = NewHeader(x)
  BY <1>1 DEF OrderInv, AuthInv, HeaderSealed
<1>7. Holds(h, x)
  BY <1>1, <1>6 DEF Holds, NewHeader, Header
<1> QED
  BY <1>2, <1>3, <1>5, <1>6, <1>7

\* ... and so has one that turns the contents down ...
LEMMA ContentsRefused ==
  ASSUME OrderlyUse, OrderInv, NEW h \in Handles, Remember, RejectContents(h)
  PROVE  Register!EndRead(h)
<1>1. /\ pc[h] = "contents" /\ arg[h].op = "read" /\ pc'[h] = "idle" /\ UNCHANGED <<file, arg>>
      /\ last' = [last EXCEPT ![h] = [op |-> arg[h].op, err |-> "INTERNAL_CIPHER_ERROR"]]
      /\ obj'[h].buf = obj[h].buf
      /\ ~ MacVerifies(obj[h], ReadBody("read", obj[h].length - HeaderSize("read")), arg[h].pw)
  BY DEF RejectContents, Return, OrderInv, TypeOK, Objects
<1>2. PICK x \in sealed : file = [head |-> NewHeader(x), body |-> file.body] /\ Holds(h, x)
  BY <1>1, AllIsRead
<1>3. ~ MacVerifies(obj[h], file.body, arg[h].pw)
  BY <1>1, AllIsRead
<1>4. ~ (file.body = Cipher(x) /\ x.pw = arg[h].pw)
  BY <1>2, <1>3 DEF Holds, MacVerifies
<1>5. x \in Images
  BY DEF OrderInv, TypeOK
<1>6. ~ \E d \in Docs : Content(file) = Register!Sealed(d, arg[h].pw)
  BY <1>2, <1>4, <1>5, SealedFile
<1>7. Step(h)
  BY DEF Step, Continue
<1> QED
  BY <1>1, <1>6, <1>7, ReadingEnds

\* ... while one that decrypts them returns the document.
LEMMA ContentsDecrypted ==
  ASSUME OrderlyUse, OrderInv, NEW h \in Handles, Remember, DecryptContents(h)
  PROVE  Register!EndRead(h)
<1>1. pc[h] = "contents" /\ arg[h].op = "read"
  BY DEF DecryptContents, OrderInv, InRead
<1>2. PICK x \in sealed : file = [head |-> NewHeader(x), body |-> file.body] /\ Holds(h, x)
  BY <1>1, AllIsRead
<1>3. x \in Images
  BY DEF OrderInv, TypeOK
<1>4. MacVerifies(obj[h], file.body, arg[h].pw)
  BY <1>1, AllIsRead DEF DecryptContents
<1>5. file.body = Cipher(x) /\ x.pw = arg[h].pw /\ obj[h].salt = x.salt /\ obj[h].iv = x.iv
  BY <1>2, <1>4 DEF Holds, MacVerifies, Mac
<1>6. PICK r \in Decrypted(Cipher(x), x.pw, x.salt, x.iv) :
        /\ obj' = [obj EXCEPT ![h] = [@ EXCEPT
                     !.enc = Cipher(x), !.buf = r.doc, !.dirty = r.ok /\ arg[h].op = "read_old"]]
        /\ Return(h, "read", IF r.ok THEN "NO_ERROR" ELSE "INTERNAL_CIPHER_ERROR")
  BY <1>1, <1>5, AllIsRead DEF DecryptContents
<1>7. r.ok = TRUE /\ r.doc = x.doc
  <2>1. r = [ok |-> TRUE, doc |-> Recovered(x.doc)]
    BY <1>3, <1>6, DecryptedOfCipher
  <2>2. Recovered(x.doc) = x.doc
    BY <1>3 DEF OrderlyUse, NoShortTexts, Recovered, Images
  <2> QED
    BY <2>1, <2>2
<1>8. obj'[h].buf = x.doc
  <2>1. obj \in [Handles -> Objects]
    BY DEF OrderInv, TypeOK
  <2> QED
    BY <1>6, <1>7, <2>1 DEF Objects
<1>9. /\ pc'[h] = "idle" /\ UNCHANGED <<file, arg>>
      /\ last' = [last EXCEPT ![h] = [op |-> arg[h].op, err |-> "NO_ERROR"]]
  BY <1>1, <1>6, <1>7 DEF DecryptContents, Return, OrderInv, TypeOK
<1>10. Content(file) = Register!Sealed(x.doc, arg[h].pw) /\ x.doc \in Docs
  <2>1. file = NewFile(x)
    BY <1>2, <1>3, <1>5, SealedFile
  <2> QED
    BY <1>3, <1>5, <2>1, ContentOfImage DEF Images
<1>11. Content(file).doc = x.doc
  BY <1>10 DEF Register!Sealed
<1>12. Step(h)
  BY DEF Step, Continue
<1>13. obj'[h].buf = IF "NO_ERROR" = "NO_ERROR" THEN Content(file).doc ELSE obj[h].buf
  BY <1>8, <1>11
<1> QED
  BY <1>1, <1>9, <1>10, <1>12, <1>13, ReadingEnds

\* The whole image is in the file when a writer returns.
LEMMA WritingEnds ==
  ASSUME OrderlyUse, OrderInv, NEW h \in Handles, Remember, PutBody(h)
  PROVE  Register!EndWrite(h)
<1>a. Step(h)
  BY DEF Step, Continue
<1>b. obj \in [Handles -> Objects] /\ pc \in [Handles -> Points]
  BY DEF OrderInv, TypeOK
<1>1. /\ pc[h] = "body" /\ pc'[h] = "idle" /\ file' = FileWith(obj[h].enc)
      /\ last' = [last EXCEPT ![h] = [op |-> "write", err |-> "NO_ERROR"]]
      /\ obj'[h].buf = obj[h].buf
  BY <1>b DEF PutBody, WriteReturns, Return, Objects
<1>2. /\ arg[h].op = "write" /\ obj[h].enc = Cipher(ImageOf(h))
      /\ file = [head |-> NewHeader(ImageOf(h)), body |-> << >>]
  BY <1>1 DEF OrderInv, InWrite, WritePoints
<1>3. ImageOf(h) \in Images
  BY ImageOfWriter DEF OrderInv
<1>4. file' = NewFile(ImageOf(h))
  <2>1. file.head.magic = "0020" /\ file.head = NewHeader(ImageOf(h)) /\ file.body = << >>
    BY <1>2 DEF NewHeader, Header
  <2>2. Overlay(Cipher(ImageOf(h)), << >>) = Cipher(ImageOf(h))
    BY <1>3, CipherType, OverlayNothing
  <2> QED
    BY <1>1, <1>2, <2>1, <2>2 DEF FileWith, NewFile
<1>5. Phases[h] = arg[h] /\ Texts[h] = obj[h].buf
  BY <1>1, Seen
<1>6. Held' = Register!Sealed(Texts[h], Phases[h].pw)
  <2>1. \A g \in Handles \ {h} : pc'[g] = "idle"
    <3>1. ~ Crash(h)
      BY <1>1 DEF PutBody, WriteReturns, Return, Crash, None, OrderInv, TypeOK
    <3> QED
      BY <1>a, <3>1, OthersWait, Frame DEF OrderInv
  <2>2. ~ Writing'
    BY <1>1, <2>1 DEF Writing, WritePoints
  <2>3. Held' = Content(file')
    BY <2>2 DEF Held
  <2>4. Content(file') = Register!Sealed(ImageOf(h).doc, ImageOf(h).pw)
    BY <1>3, <1>4, ContentOfImage
  <2> QED
    BY <1>5, <2>3, <2>4 DEF ImageOf
<1>7. Texts' = Texts
  <2>1. Texts' = [Texts EXCEPT ![h] = Texts[h]]
    BY <1>1, <1>a, <1>5, SeenOfOne
  <2> QED
    BY <2>1 DEF Texts
<1>8. Phases' = [Phases EXCEPT ![h] = Register!Outside]
  BY <1>1, <1>a, SeenOfOne
<1>9. Register!Report(h, "write", TRUE)
  <2>1. TRUE = ("NO_ERROR" = "NO_ERROR")
    OBVIOUS
  <2> QED
    BY <1>1, <2>1, Reported
<1> QED
  BY <1>2, <1>5, <1>6, <1>7, <1>8, <1>9 DEF Register!EndWrite, Register!Leave

\* A program that dies inside write() leaves the old document, the new one,
\* none, or a header that read() does not accept.
LEMMA ProgramDies ==
  ASSUME OrderlyUse, OrderInv, NEW h \in Handles, Remember, Crash(h)
  PROVE  Register!Crash(h)
<1>a. Step(h)
  BY DEF Step
<1>b. obj \in [Handles -> Objects] /\ pc \in [Handles -> Points]
  BY DEF OrderInv, TypeOK
<1>1. /\ file' = file /\ pc'[h] = "idle" /\ obj'[h].buf = Empty
      /\ last' = [last EXCEPT ![h] = [op |-> "none", err |-> "NO_ERROR"]]
  BY <1>b DEF Crash, NewObject, None
<1>2. Texts' = [Texts EXCEPT ![h] = Empty] /\ Phases' = [Phases EXCEPT ![h] = Register!Outside]
  BY <1>1, <1>a, SeenOfOne
<1>3. Register!Report(h, "none", TRUE)
  <2>1. TRUE = ("NO_ERROR" = "NO_ERROR")
    OBVIOUS
  <2> QED
    BY <1>1, <2>1, Reported
<1>4. CASE pc[h] \notin WritePoints
  <2>1. Held' = Held
    BY <1>1, <1>4, <1>a, HeldKept
  <2> QED
    BY <1>2, <1>3, <2>1 DEF Register!Crash, Register!Leave
<1>5. CASE pc[h] \in WritePoints
  <2>1. Phases[h] = arg[h] /\ Texts[h] = obj[h].buf /\ arg[h].op = "write" /\ InWrite(h)
    BY <1>5, Seen DEF WritePoints, OrderInv, InWrite
  <2>2. \A g \in Handles \ {h} : pc'[g] = "idle"
    BY <1>5, <1>a, Frame DEF OrderInv, OneCaller, WritePoints
  <2>3. Held' = Content(file)
    <3>1. ~ Writing'
      BY <1>1, <2>2 DEF Writing, WritePoints
    <3> QED
      BY <1>1, <3>1 DEF Held
  <2>4. Held = Content(before)
    BY <1>5 DEF Held, Writing
  <2>5. Content(file) \in {Held, Register!Absent, Register!Damaged,
                           Register!Sealed(Texts[h], Phases[h].pw)}
    <3>1. CASE pc[h] = "truncate"
      BY <2>1, <2>4, <3>1 DEF InWrite
    <3>2. CASE pc[h] = "header"
      BY <2>1, <3>2, ContentOfNothing DEF InWrite
    <3>3. CASE pc[h] = "body"
      <4>1. ImageOf(h) \in Images
        BY ImageOfWriter DEF OrderInv
      <4>2. file = [head |-> NewHeader(ImageOf(h)), body |-> << >>]
        BY <2>1, <3>3 DEF InWrite
      <4>3. Content(file) \in {Register!Damaged,
                               Register!Sealed(ImageOf(h).doc, ImageOf(h).pw)}
        BY <4>1, <4>2, ContentOfHeader
      <4> QED
        BY <2>1, <4>3 DEF ImageOf
    <3> QED
      BY <1>5, <3>1, <3>2, <3>3 DEF WritePoints
  <2> QED
    BY <1>2, <1>3, <2>1, <2>3, <2>5 DEF Register!Crash, Register!Leave
<1> QED
  BY <1>4, <1>5
LEMMA RegisterStarts == ASSUME OrderlyUse PROVE RefInit => Register!Init
<1> SUFFICES ASSUME RefInit PROVE Register!Init
  OBVIOUS
<1>1. /\ obj = [h \in Handles |-> NewObject] /\ pc = [h \in Handles |-> "idle"]
      /\ last = [h \in Handles |-> None]
  BY DEF RefInit, Init
<1>2. Texts = [h \in Handles |-> Empty]
  BY <1>1 DEF Texts, NewObject
<1>3. Phases = [h \in Handles |-> Register!Outside]
  BY <1>1 DEF Phases, Register!Outside
<1>4. Reports = [h \in Handles |-> [op |-> "none", ok |-> TRUE]]
  <2>1. \A h \in Handles : last[h].op = "none" /\ (last[h].err = "NO_ERROR") = TRUE
    BY <1>1 DEF None
  <2> QED
    BY <2>1 DEF Reports
<1>5. Held \in {Register!Absent} \cup {Register!Sealed(d, p) : d \in Docs, p \in Passwords}
  <2>1. Held = Content(file)
    BY <1>1 DEF RefInit, Held
  <2>2. CASE file = EmptyFile
    BY <2>1, <2>2, ContentOfNothing
  <2>3. CASE \E x \in FirstImages(NewDocs) : file = NewFile(x)
    <3>1. PICK x \in FirstImages(NewDocs) : file = NewFile(x)
      BY <2>3
    <3>2. x \in Images
      BY DocsAssumption DEF DocsAssumption, FirstImages, Images
    <3> QED
      BY <2>1, <3>1, <3>2, ContentOfImage DEF Images
  <2> QED
    BY <2>2, <2>3 DEF RefInit, Init, OrderlyUse, FirstImages
<1> QED
  BY <1>2, <1>3, <1>4, <1>5 DEF Register!Init

\* Steps inside a call, and set_dirty(), do not show.
LEMMA Unseen ==
  ASSUME OrderlyUse, OrderInv, NEW h \in Handles, Step(h), Remember,
         pc'[h] \in WritePoints \/ (file' = file /\ pc[h] \notin WritePoints),
         pc'[h] = "idle" <=> pc[h] = "idle",
         arg' = arg, last' = last, obj'[h].buf = obj[h].buf
  PROVE  UNCHANGED <<Held, Texts, Phases, Reports>>
<1>1. Held' = Held
  BY HeldKept
<1>2. Texts' = Texts
  <2>1. Texts' = [Texts EXCEPT ![h] = Texts[h]]
    BY SeenOfOne, Seen
  <2> QED
    BY <2>1 DEF Texts
<1>3. Phases' = Phases
  <2>1. Phases' = [Phases EXCEPT ![h] = Phases[h]]
    BY SeenOfOne, Seen
  <2> QED
    BY <2>1 DEF Phases
<1>4. Reports' = Reports
  BY SeenOfOne
<1> QED
  BY <1>1, <1>2, <1>3, <1>4

LEMMA RegisterStep ==
  ASSUME OrderlyUse, OrderInv, [RefNext]_rvars
  PROVE  Register!Next \/ UNCHANGED <<Held, Texts, Phases, Reports>>
<1>1. CASE UNCHANGED rvars
  BY <1>1 DEF rvars, vars, Held, Texts, Phases, Reports, Writing
<1>2. ASSUME NEW h \in Handles, Step(h), Remember
      PROVE  Register!Next \/ UNCHANGED <<Held, Texts, Phases, Reports>>
  <2>a. /\ obj \in [Handles -> Objects] /\ obj[h] \in Objects /\ pc \in [Handles -> Points]
        /\ last = [g \in Handles |-> last[g]]
    BY DEF OrderInv, TypeOK
  <2>1. CASE StartCall(h)
    <3>1. ReadOps \subseteq {"read", "read_old"}
      BY SettingAssumption DEF SettingAssumption
    <3>2. ASSUME NEW p \in Passwords, NEW op \in ReadOps,
                 StartRead(h, op, p) \/ ReadNothing(h, op, p) \/ ReadNothingFails(h, op, p)
          PROVE  Register!Next
      <4>1. CASE StartRead(h, op, p)
        BY <1>2, <3>1, <4>1, ReadingBegins DEF Register!Next
      <4>2. CASE ReadNothing(h, op, p) \/ ReadNothingFails(h, op, p)
        BY <1>2, <3>1, <4>2, NothingIsRead DEF Register!Next
      <4> QED
        BY <3>2, <4>1, <4>2
    <3>3. ASSUME NEW p \in Passwords, Prepare(h, p) \/ RefuseWrite(h, p)
          PROVE  Register!Next
      BY <1>2, <3>3, WritingBegins, WritingRefused DEF Register!Next
    <3> QED
      BY <2>1, <3>2, <3>3 DEF StartCall
  <2>2. CASE UseObject(h)
    <3>1. CASE SetDirty(h)
      <4>1. /\ file' = file /\ pc[h] = "idle" /\ pc' = pc /\ arg' = arg /\ last' = last
            /\ obj'[h].buf = obj[h].buf
        BY <2>a, <3>1 DEF SetDirty, Ready, Objects
      <4> QED
        BY <1>2, <4>1, Unseen DEF WritePoints
    <3>2. ASSUME NEW d \in Docs, Edit(h, d) PROVE Register!Next
      BY <1>2, <3>2, TextEdited DEF Register!Next
    <3> QED
      BY <2>2, <3>1, <3>2 DEF UseObject
  <2>3. CASE Crash(h)
    BY <1>2, <2>3, ProgramDies DEF Register!Next
  <2>4. CASE ParseHeader(h)
    <3>1. CASE Accepts(arg[h].op, file.head.magic)
      <4>1. /\ file' = file /\ pc[h] = "parse" /\ pc'[h] = "contents" /\ arg' = arg /\ last' = last
            /\ obj'[h] = Parsed(obj[h], arg[h].op, file.head)
        BY <2>a, <2>4, <3>1 DEF ParseHeader, Goto
      <4>2. obj'[h].buf = obj[h].buf
        BY <2>a, <4>1 DEF Parsed, Objects
      <4> QED
        BY <1>2, <4>1, <4>2, Unseen DEF WritePoints
    <3>2. CASE ~ Accepts(arg[h].op, file.head.magic)
      BY <1>2, <2>4, <3>2, HeaderRefused DEF Register!Next
    <3> QED
      BY <3>1, <3>2
  <2>5. CASE RejectContents(h) \/ DecryptContents(h)
    BY <1>2, <2>5, ContentsRefused, ContentsDecrypted DEF Register!Next
  <2>6. CASE Truncate(h) \/ PutHeader(h)
    <3>1. /\ pc[h] \in WritePoints /\ pc'[h] \in WritePoints /\ arg' = arg /\ last' = last
          /\ obj' = obj
      BY <2>a, <2>6 DEF Truncate, PutHeader, Goto, WritePoints
    <3> QED
      BY <1>2, <3>1, Unseen DEF WritePoints
  <2>7. CASE PutBody(h)
    BY <1>2, <2>7, WritingEnds DEF Register!Next
  <2>8. ~ OpenFails(h) /\ ~ OutputFails(h)
    BY DEF OrderlyUse, OpenFails, OutputFails
  <2> QED
    BY <1>2, <2>1, <2>2, <2>3, <2>4, <2>5, <2>6, <2>7, <2>8 DEF Step, Continue
<1> QED
  BY <1>1, <1>2 DEF RefNext, Next, Step

\* To programs that take turns crypto_file is a register of one document: no
\* number of them, no order of their calls, no refused call and no crash between
\* any two of its file accesses shows them a step that SealedDocument does not
\* take.
THEOREM RegisterIsImplemented ==
  ASSUME OrderlyUse
  PROVE  RefSpec => Register!Steps
<1>1. RefInit => OrderInv /\ Register!Init
  BY OrderStarts, RegisterStarts
<1>2. OrderInv /\ [RefNext]_rvars => OrderInv'
  BY OrderStep
<1>3. OrderInv /\ [RefNext]_rvars => [Register!Next]_<<Held, Texts, Phases, Reports>>
  BY RegisterStep
<1>4. RefSpec => RefInit /\ [][RefNext]_rvars
  BY PTL DEF RefSpec
<1> QED
  BY <1>1, <1>2, <1>3, <1>4, PTL DEF Register!Steps, Register!avars
=================================================================================
