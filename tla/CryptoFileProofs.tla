--------------------------- MODULE CryptoFileProofs ---------------------------
(***************************************************************************)
(* CryptoFile for every set of handles, passwords, plaintexts and faults:  *)
(* type correctness, freshness of the IVs, and that read() only accepts    *)
(* what one write() prepared.                                              *)
(***************************************************************************)
EXTENDS CryptoFile, SequenceTheorems, TLAPS

-----------------------------------------------------------------------------
(* Operators.                                                              *)

\* The ciphertext of an image is a sequence of as many blocks as its text
\* has.
LEMMA CipherType ==
  ASSUME NEW x \in Images
  PROVE  /\ Cipher(x) \in Seq(CipherBlocks)
         /\ Len(Cipher(x)) = Blocks[x.doc]
         /\ \A i \in 1 .. Blocks[x.doc] : Cipher(x)[i] = Block(x, i)
<1>1. Blocks[x.doc] \in Nat
  BY DocsAssumption DEF DocsAssumption, Images
<1>2. \A i \in 1 .. Blocks[x.doc] : Block(x, i) \in CipherBlocks
  BY <1>1 DEF Images, Block, CipherBlocks
<1>. QED
  BY <1>1, <1>2 DEF Cipher

\* No text is 1 to 15 bytes long: those come back empty (Recovered).
NoShortTexts == \A d \in Docs : Blocks[d] # 1

\* What a reader gets has the length it asked for, whatever the file held.
LEMMA ReadBodyType ==
  ASSUME file.body \in Seq(CipherBlocks), NEW op, NEW n \in Nat
  PROVE  /\ ReadBody(op, n) \in Seq(CipherBlocks)
         /\ Len(ReadBody(op, n)) = n
<1>1. NoBlock \in CipherBlocks
  BY DocsAssumption DEF DocsAssumption, NoBlock, CipherBlocks
<1>2. [i \in 1 .. 4 |-> NoBlock] \in Seq(CipherBlocks)
  BY <1>1
<1>3. Contents(op) \in Seq(CipherBlocks)
  BY <1>2, ConcatProperties DEF Contents
<1>4. \A i \in 1 .. n : (IF i <= Len(Contents(op)) THEN Contents(op)[i] ELSE NoBlock) \in CipherBlocks
  BY <1>1, <1>3
<1>. QED
  BY <1>4 DEF ReadBody

\* Overwriting leaves a sequence of blocks.
LEMMA OverlayType ==
  ASSUME NEW S, NEW new \in Seq(S), NEW old \in Seq(S)
  PROVE  Overlay(new, old) \in Seq(S)
<1>1. \A i \in Len(new) + 1 .. Len(old) : old[i] \in S
  BY ElementOfSeq, LenProperties
<1>2. SubSeq(old, Len(new) + 1, Len(old)) \in Seq(S)
  BY <1>1, SubSeqProperties, LenProperties
<1>. QED
  BY <1>2, ConcatProperties DEF Overlay

\* Nothing is left behind a text that is written into a file that was emptied.
LEMMA OverlayNothing ==
  ASSUME NEW S, NEW new \in Seq(S)
  PROVE  Overlay(new, << >>) = new
<1>1. Len(new) \in Nat /\ Len(<< >>) = 0
  BY LenProperties, EmptySeq
<1>2. SubSeq(<< >>, Len(new) + 1, Len(<< >>)) = << >>
  BY <1>1, SubSeqEmpty
<1> QED
  BY <1>2, ConcatEmptySeq DEF Overlay

LEMMA DecryptedType ==
  ASSUME NEW body, NEW pw, NEW salt, NEW iv, NEW r \in Decrypted(body, pw, salt, iv)
  PROVE  r.ok \in BOOLEAN /\ r.doc \in Docs
<1>. DEFINE Matches ==
       {d \in Docs : body = Cipher([doc |-> d, pw |-> pw, salt |-> salt, iv |-> iv])}
<1>1. \/ r \in {[ok |-> TRUE, doc |-> Empty]}
      \/ r \in {[ok |-> TRUE, doc |-> d] : d \in Matches}
      \/ r \in {[ok |-> ok, doc |-> Garbage] : ok \in BOOLEAN}
  BY DEF Decrypted
<1>2. Empty \in Docs /\ Garbage \in Docs /\ Matches \subseteq Docs
  BY DocsAssumption DEF DocsAssumption
<1>3. \E ok \in BOOLEAN, d \in Docs : r = [ok |-> ok, doc |-> d]
  <2>. HIDE DEF Matches
  <2>1. CASE r \in {[ok |-> TRUE, doc |-> Empty]}
    BY <2>1, <1>2
  <2>2. CASE r \in {[ok |-> TRUE, doc |-> d] : d \in Matches}
    BY <2>2, <1>2
  <2>3. CASE r \in {[ok |-> ok, doc |-> Garbage] : ok \in BOOLEAN}
    BY <2>3, <1>2
  <2>. QED
    BY <1>1, <2>1, <2>2, <2>3
<1>. QED
  BY <1>3

\* Wiping an object keeps its type and forgets its text.
LEMMA WipedType ==
  ASSUME NEW o \in Objects
  PROVE  Wiped(o) \in Objects /\ Wiped(o).buf = Zeroed[o.buf]
<1>1. NoBlock \in CipherBlocks
  BY DocsAssumption DEF DocsAssumption, NoBlock, CipherBlocks
<1>2. Len(o.enc) \in Nat
  BY DEF Objects
<1>3. [i \in 1 .. Len(o.enc) |-> NoBlock] \in Seq(CipherBlocks)
  BY <1>1, <1>2
<1>4. Zeroed[o.buf] \in Docs
  BY DocsAssumption DEF DocsAssumption, Objects
<1>. QED
  BY <1>3, <1>4 DEF Wiped, Objects

\* Assignments to data members keep the type of the object.
LEMMA ObjectUpdates ==
  ASSUME NEW o \in Objects
  PROVE  /\ \A b \in BOOLEAN : [o EXCEPT !.dirty = b] \in Objects
         /\ \A d \in Docs : [o EXCEPT !.buf = d] \in Objects
         /\ \A e \in Seq(CipherBlocks) : [o EXCEPT !.enc = e] \in Objects
         /\ \A e \in Seq(CipherBlocks), d \in Docs, b \in BOOLEAN :
              [o EXCEPT !.enc = e, !.buf = d, !.dirty = b] \in Objects
         /\ \A s, v, t \in Nat, m \in Macs :
              [o EXCEPT !.salt = s, !.iv = v, !.hmac = m, !.timestamp = t] \in Objects
         /\ \A v, t \in Nat, e \in Seq(CipherBlocks), m \in Macs :
              [o EXCEPT !.iv = v, !.timestamp = t, !.enc = e, !.hmac = m] \in Objects
         /\ \A n, s, v \in Nat, b \in BOOLEAN :
              [o EXCEPT !.length = n, !.salt = s, !.iv = v, !.dirty = b] \in Objects
  BY DEF Objects

LEMMA ParsedType ==
  ASSUME NEW o \in Objects, NEW op, file.head \in Headers
  PROVE  /\ Parsed(o, op, file.head) \in Objects
         /\ Parsed(o, op, file.head).length = o.length
  BY DEF Parsed, Objects, Headers

LEMMA ConstantTypes ==
  /\ NoMac \in Macs /\ NewObject \in Objects
  /\ NoHeader \in Headers /\ HoleHeader \in Headers
  /\ EmptyFile \in [head : Headers, body : Seq(CipherBlocks)]
<1>1. << >> \in Seq(CipherBlocks)
  BY EmptySeq
<1>2. NoMac \in Macs
  BY <1>1 DEF NoMac, Mac, Macs
<1>. QED
  BY <1>1, <1>2, DocsAssumption
  DEF DocsAssumption, NewObject, Objects, NoHeader, HoleHeader, Header, Headers, EmptyFile

-----------------------------------------------------------------------------
(* Type correctness.                                                       *)

LEMMA InitType == Init => TypeOK
<1>. SUFFICES ASSUME Init PROVE TypeOK
  OBVIOUS
<1>1. FirstImages(OldDocs) \subseteq Images /\ FirstImages(NewDocs) \subseteq Images
  BY DocsAssumption DEF DocsAssumption, FirstImages, Images
<1>2. ASSUME NEW x \in Images
      PROVE  /\ OldFile(x) \in [head : Headers, body : Seq(CipherBlocks)]
             /\ NewFile(x) \in [head : Headers, body : Seq(CipherBlocks)]
  BY <1>2, CipherType, ConstantTypes
  DEF OldFile, NewFile, OldHeader, NewHeader, Header, Headers, Images, Mac, Macs
<1>3. /\ file \in [head : Headers, body : Seq(CipherBlocks)]
      /\ sealed \subseteq Images
  BY <1>1, <1>2, ConstantTypes DEF Init
<1>4. obj \in [Handles -> Objects]
  BY ConstantTypes DEF Init
<1>. QED
  BY <1>3, <1>4 DEF Init, TypeOK, Points, Errors, Call, None

\* The subtraction both readers make after they have seen the file is long
\* enough stays a natural number.
LEMMA ContentsLength ==
  ASSUME TypeOK, NEW h \in Handles, pc[h] \in {"parse", "contents"}
  PROVE  /\ arg[h].op \in {"read", "read_old"}
         /\ obj[h].length - HeaderSize(arg[h].op) \in Nat
  BY DEF TypeOK, Objects, HeaderSize

LEMMA TypeStep ==
  ASSUME TypeOK, [Next]_vars
  PROVE  TypeOK'
<1>1. CASE UNCHANGED vars
  BY <1>1 DEF vars, TypeOK
<1>. SUFFICES ASSUME NEW h \in Handles,
                     StartCall(h) \/ Continue(h) \/ UseObject(h) \/ Crash(h)
              PROVE  TypeOK'
  BY <1>1 DEF Next
<1>a. /\ obj[h] \in Objects
      /\ obj[h].salt \in Nat /\ obj[h].iv \in Nat /\ obj[h].timestamp \in Nat
      /\ obj[h].hmac \in Macs /\ obj[h].enc \in Seq(CipherBlocks) /\ obj[h].buf \in Docs
      /\ file.head.salt \in Nat /\ file.head.iv \in Nat
      /\ file.head.hmac \in Macs /\ file.head.timestamp \in Nat
      /\ fresh \in Nat
  BY DEF TypeOK, Objects, Headers
<1>. USE DEF TypeOK
<1>2. MeasuredLength \subseteq Nat
  <2>1. HeadLength(file) \in Nat
    BY DEF HeadLength
  <2>2. Len(file.body) \in Nat
    OBVIOUS
  <2>. QED
    BY <2>1, <2>2 DEF MeasuredLength, FileLength
<1>3. ASSUME NEW p \in Passwords, NEW op \in {"read", "read_old"},
             StartRead(h, op, p) \/ ReadNothing(h, op, p) \/ ReadNothingFails(h, op, p)
      PROVE  TypeOK'
  <2>. DEFINE w == Wiped(obj[h])
  <2>1. w \in Objects
    BY WipedType
  <2>2. CASE StartRead(h, op, p)
    <3>1. PICK n \in Nat : /\ HasHeader(n, op)
                           /\ obj' = [obj EXCEPT ![h] = [w EXCEPT !.length = n]]
      BY <1>2, <2>2 DEF StartRead
    <3>2. [w EXCEPT !.length = n] \in Objects /\ [w EXCEPT !.length = n].length = n
      BY <2>1 DEF Objects
    <3>. HIDE DEF w
    <3>. QED
      BY <2>2, <3>1, <3>2 DEF StartRead, Goto, Call, HasHeader, Points
  <2>3. CASE ReadNothing(h, op, p)
    <3>. DEFINE o(n) == [w EXCEPT !.length = n, !.salt = fresh + 1, !.iv = fresh + 1, !.dirty = TRUE]
    <3>1. PICK n \in Nat : obj' = [obj EXCEPT ![h] = o(n)]
      BY <1>2, <2>3 DEF ReadNothing
    <3>2. o(n) \in Objects
      <4>1. \A k, u, v \in Nat, b \in BOOLEAN :
               [w EXCEPT !.length = k, !.salt = u, !.iv = v, !.dirty = b] \in Objects
        BY <2>1, ObjectUpdates
      <4>2. fresh + 1 \in Nat /\ n \in Nat
        BY <1>a, <3>1
      <4>. HIDE DEF w
      <4>. QED
        BY <4>1, <4>2
    <3>. HIDE DEF w, o
    <3>. QED
      BY <2>3, <3>1, <3>2 DEF ReadNothing, Return, Call, Points, Errors
  <2>4. CASE ReadNothingFails(h, op, p)
    <3>1. PICK n \in Nat : obj' = [obj EXCEPT ![h] = [w EXCEPT !.length = n]]
      BY <1>2, <2>4 DEF ReadNothingFails
    <3>2. [w EXCEPT !.length = n] \in Objects
      BY <2>1 DEF Objects
    <3>. HIDE DEF w
    <3>. QED
      BY <2>4, <3>1, <3>2 DEF ReadNothingFails, Return, Call, Points, Errors
  <2>. QED
    BY <1>3, <2>2, <2>3, <2>4
<1>4. ASSUME NEW p \in Passwords, Prepare(h, p)
      PROVE  TypeOK'
  <2>. DEFINE x == [doc |-> obj[h].buf, pw |-> p, salt |-> obj[h].salt,
                    iv |-> NewIv(h), timestamp |-> fresh + 1]
              o == [obj[h] EXCEPT !.iv = x.iv, !.timestamp = x.timestamp, !.enc = Cipher(x),
                                  !.hmac = Mac(x.timestamp, Cipher(x), p)]
  <2>1. x \in Images
    BY DEF Images, Objects, NewIv
  <2>2. Cipher(x) \in Seq(CipherBlocks)
    BY <2>1, CipherType
  <2>3. o \in Objects
    <3>1. x.iv \in Nat /\ x.timestamp \in Nat
      BY <2>1 DEF Images
    <3>2. Mac(x.timestamp, Cipher(x), p) \in Macs
      BY <2>2, <3>1 DEF Mac, Macs
    <3>. HIDE DEF x
    <3>. QED
      BY <1>a, <2>2, <3>1, <3>2, ObjectUpdates
  <2>4. sealed' = sealed \cup {x} /\ obj' = [obj EXCEPT ![h] = o]
    BY <1>4 DEF Prepare
  <2>. HIDE DEF x, o
  <2>. QED
    BY <1>4, <2>1, <2>3, <2>4 DEF Prepare, Goto, Call, Points
<1>5. ASSUME NEW p \in Passwords, RefuseWrite(h, p)
      PROVE  TypeOK'
  BY <1>5 DEF RefuseWrite, Return, Call, Points, Errors
<1>6. CASE ParseHeader(h)
  <2>. DEFINE op == arg[h].op
              o  == Parsed(obj[h], op, file.head)
  <2>1. o \in Objects /\ o.length = obj[h].length
    BY <1>a, ParsedType
  <2>2. CASE obj' = [obj EXCEPT ![h] = o] /\ Goto(h, "contents")
    <3>1. pc[h] = "parse" /\ arg' = arg /\ file' = file /\ fresh' = fresh /\ sealed' = sealed
      BY <1>6 DEF ParseHeader
    <3>. HIDE DEF o
    <3>. QED
      BY <3>1, <2>1, <2>2 DEF Goto, Points
  <2>3. CASE Return(h, op, "NO_HEADER_IN_FILE") /\ UNCHANGED obj
    BY <1>6, <2>3 DEF ParseHeader, Return, Points, Errors
  <2>. QED
    BY <1>6, <2>2, <2>3 DEF ParseHeader
<1>7. CASE RejectContents(h)
  <2>. DEFINE body == ReadBody("read", obj[h].length - HeaderSize("read"))
              o    == [obj[h] EXCEPT !.enc = body]
  <2>1. body \in Seq(CipherBlocks)
    BY <1>7, ContentsLength, ReadBodyType DEF RejectContents
  <2>2. o \in Objects
    BY <1>a, <2>1, ObjectUpdates
  <2>3. obj' = [obj EXCEPT ![h] = o]
    BY <1>7 DEF RejectContents
  <2>4. /\ Return(h, "read", "INTERNAL_CIPHER_ERROR")
        /\ arg' = arg /\ file' = file /\ fresh' = fresh /\ sealed' = sealed
    BY <1>7 DEF RejectContents
  <2>. HIDE DEF o
  <2>. QED
    BY <2>2, <2>3, <2>4 DEF Return, Points, Errors
<1>8. CASE DecryptContents(h)
  <2>. DEFINE op   == arg[h].op
              body == ReadBody(op, obj[h].length - HeaderSize(op))
              o(r) == [obj[h] EXCEPT !.enc = body, !.buf = r.doc, !.dirty = r.ok /\ op = "read_old"]
  <2>1. body \in Seq(CipherBlocks) /\ op \in {"read", "read_old"}
    BY <1>8, ContentsLength, ReadBodyType DEF DecryptContents
  <2>2. PICK r \in Decrypted(body, arg[h].pw, obj[h].salt, obj[h].iv) :
          /\ obj' = [obj EXCEPT ![h] = o(r)]
          /\ Return(h, op, IF r.ok THEN "NO_ERROR" ELSE "INTERNAL_CIPHER_ERROR")
    BY <1>8 DEF DecryptContents
  <2>3. o(r) \in Objects
    <3>1. r.doc \in Docs
      BY DecryptedType
    <3>2. (r.ok /\ op = "read_old") \in BOOLEAN
      OBVIOUS
    <3>. QED
      BY <1>a, <2>1, <3>1, <3>2, ObjectUpdates
  <2>. HIDE DEF o
  <2>. QED
    BY <1>8, <2>1, <2>2, <2>3 DEF DecryptContents, Return, Points, Errors
<1>9. CASE Truncate(h)
  BY <1>9, ConstantTypes DEF Truncate, Truncated, Goto, Points
<1>10. CASE PutHeader(h)
  <2>1. Header("0020", obj[h].salt, obj[h].iv, obj[h].hmac, obj[h].timestamp) \in Headers
    BY DEF Objects, Header, Headers
  <2>. QED
    BY <1>10, <2>1 DEF PutHeader, Goto, Points
<1>11. ASSUME NEW blocks \in Seq(CipherBlocks)
       PROVE  FileWith(blocks) \in [head : Headers, body : Seq(CipherBlocks)]
  BY OverlayType, ConstantTypes DEF FileWith
<1>12. ASSUME WriteReturns(h)
       PROVE  /\ obj' \in [Handles -> Objects]
              /\ \A g \in Handles : obj'[g].length = obj[g].length
              /\ pc' = [pc EXCEPT ![h] = "idle"]
              /\ last' \in [Handles -> [op : {"none", "read", "read_old", "create", "edit", "write"}, err : Errors]]
  <2>1. [obj[h] EXCEPT !.dirty = FALSE] \in Objects
    BY <1>a, ObjectUpdates
  <2>2. [obj[h] EXCEPT !.dirty = FALSE].length = obj[h].length
    BY <1>a DEF Objects
  <2>. DEFINE o == [obj[h] EXCEPT !.dirty = FALSE]
  <2>3. obj' = [obj EXCEPT ![h] = o]
    BY <1>12 DEF WriteReturns
  <2>. HIDE DEF o
  <2>. QED
    BY <1>12, <2>1, <2>2, <2>3 DEF WriteReturns, Return, Errors, o
<1>13. CASE PutBody(h)
  <2>1. obj[h].enc \in Seq(CipherBlocks)
    BY DEF Objects
  <2>. QED
    BY <1>11, <1>12, <1>13, <2>1 DEF PutBody, Points
<1>14. CASE OpenFails(h)
  BY <1>12, <1>14 DEF OpenFails, Points
<1>15. CASE OutputFails(h)
  <2>1. ASSUME NEW n \in 0 .. Len(obj[h].enc) - 1
        PROVE  SubSeq(obj[h].enc, 1, n) \in Seq(CipherBlocks)
    <3>1. obj[h].enc \in Seq(CipherBlocks)
      BY DEF Objects
    <3>2. \A i \in 1 .. n : obj[h].enc[i] \in CipherBlocks
      BY <3>1, LenProperties, ElementOfSeq
    <3>. QED
      BY <3>2, SubSeqProperties
  <2>2. file' \in [head : Headers, body : Seq(CipherBlocks)]
    <3>1. CASE file' = file
      BY <3>1
    <3>2. CASE \E n \in 0 .. Len(obj[h].enc) - 1 : file' = FileWith(SubSeq(obj[h].enc, 1, n))
      <4>1. PICK n \in 0 .. Len(obj[h].enc) - 1 : file' = FileWith(SubSeq(obj[h].enc, 1, n))
        BY <3>2
      <4>2. FileWith(SubSeq(obj[h].enc, 1, n)) \in [head : Headers, body : Seq(CipherBlocks)]
        BY <1>11, <2>1, <4>1
      <4>. QED
        BY <4>1, <4>2
    <3>. QED
      BY <1>15, <3>1, <3>2 DEF OutputFails
  <2>. QED
    BY <1>12, <1>15, <2>2 DEF OutputFails, Points
<1>16. CASE SetDirty(h)
  <2>1. [obj[h] EXCEPT !.dirty = TRUE] \in Objects
    BY <1>a, ObjectUpdates
  <2>. QED
    BY <1>16, <2>1 DEF SetDirty
<1>17. ASSUME NEW d \in Docs, Edit(h, d)
       PROVE  TypeOK'
  <2>1. [obj[h] EXCEPT !.buf = d] \in Objects
    BY <1>a, <1>17, ObjectUpdates
  <2>. QED
    BY <1>17, <2>1 DEF Edit, Errors
<1>18. CASE Crash(h)
  BY <1>18, ConstantTypes DEF Crash, None, Points, Errors
<1>. QED
  BY <1>3, <1>4, <1>5, <1>6, <1>7, <1>8, <1>9, <1>10, <1>13, <1>14, <1>15, <1>16, <1>17, <1>18,
     SettingAssumption
  DEF StartCall, Continue, UseObject, SettingAssumption

\* For every number of handles, set of passwords and plaintexts, and every
\* combination of faults, all variables keep their types and neither reader's
\* size_t subtraction wraps.
THEOREM TypeCorrect == Spec => []TypeOK
  BY InitType, TypeStep, PTL DEF Spec

-----------------------------------------------------------------------------
(* Steps of one handle.                                                    *)

Step(h) == StartCall(h) \/ Continue(h) \/ UseObject(h) \/ Crash(h)

\* A handle's step leaves the others alone and forgets no image.
LEMMA Frame ==
  ASSUME TypeOK, NEW h \in Handles, Step(h)
  PROVE  /\ \A g \in Handles \ {h} :
              obj'[g] = obj[g] /\ pc'[g] = pc[g] /\ arg'[g] = arg[g] /\ last'[g] = last[g]
         /\ sealed \subseteq sealed'
<1>. USE DEF TypeOK
<1>1. ASSUME NEW p \in Passwords, NEW op,
             StartRead(h, op, p) \/ ReadNothing(h, op, p) \/ ReadNothingFails(h, op, p)
      PROVE  /\ \A g \in Handles \ {h} :
                  obj'[g] = obj[g] /\ pc'[g] = pc[g] /\ arg'[g] = arg[g] /\ last'[g] = last[g]
             /\ sealed \subseteq sealed'
  BY <1>1 DEF StartRead, ReadNothing, ReadNothingFails, Return, Goto
<1>2. ASSUME NEW p \in Passwords, Prepare(h, p) \/ RefuseWrite(h, p)
      PROVE  /\ \A g \in Handles \ {h} :
                  obj'[g] = obj[g] /\ pc'[g] = pc[g] /\ arg'[g] = arg[g] /\ last'[g] = last[g]
             /\ sealed \subseteq sealed'
  BY <1>2 DEF Prepare, RefuseWrite, Return, Goto
<1>3. ASSUME ParseHeader(h) \/ RejectContents(h) \/ DecryptContents(h)
      PROVE  /\ \A g \in Handles \ {h} :
                  obj'[g] = obj[g] /\ pc'[g] = pc[g] /\ arg'[g] = arg[g] /\ last'[g] = last[g]
             /\ sealed \subseteq sealed'
  BY <1>3 DEF ParseHeader, RejectContents, DecryptContents, Return, Goto
<1>4. ASSUME Truncate(h) \/ PutHeader(h) \/ PutBody(h) \/ OpenFails(h) \/ OutputFails(h)
      PROVE  /\ \A g \in Handles \ {h} :
                  obj'[g] = obj[g] /\ pc'[g] = pc[g] /\ arg'[g] = arg[g] /\ last'[g] = last[g]
             /\ sealed \subseteq sealed'
  BY <1>4 DEF Truncate, PutHeader, PutBody, OpenFails, OutputFails, WriteReturns, Return, Goto
<1>5. ASSUME UseObject(h) \/ Crash(h)
      PROVE  /\ \A g \in Handles \ {h} :
                  obj'[g] = obj[g] /\ pc'[g] = pc[g] /\ arg'[g] = arg[g] /\ last'[g] = last[g]
             /\ sealed \subseteq sealed'
  BY <1>5 DEF UseObject, SetDirty, Edit, Crash
<1>. QED
  BY <1>1, <1>2, <1>3, <1>4, <1>5 DEF Step, StartCall, Continue

-----------------------------------------------------------------------------
(* IVs.                                                                    *)

\* Every IV in use was drawn.
IvsDrawn == \A x \in sealed : x.iv <= fresh

LEMMA IvStep ==
  ASSUME TypeOK, IvsDrawn, IvNeverReused, [Next]_vars
  PROVE  IvsDrawn' /\ IvNeverReused'
<1>. USE DEF TypeOK, IvsDrawn, IvNeverReused
<1>1. ASSUME NEW h \in Handles, NEW p \in Passwords, Prepare(h, p)
      PROVE  IvsDrawn' /\ IvNeverReused'
  <2>1. PICK x : sealed' = sealed \cup {x} /\ x.iv = fresh + 1 /\ fresh' = fresh + 1
    BY <1>1 DEF Prepare, NewIv
  <2>2. \A y \in sealed : y.iv \in Nat /\ y.iv < fresh + 1
    BY DEF Images
  <2>. QED
    BY <2>1, <2>2
<1>2. ASSUME sealed' = sealed, fresh' = fresh \/ fresh' = fresh + 1
      PROVE  IvsDrawn' /\ IvNeverReused'
  BY <1>2 DEF Images
<1>3. ASSUME NEW h \in Handles, Step(h), \A p \in Passwords : ~ Prepare(h, p)
      PROVE  sealed' = sealed /\ (fresh' = fresh \/ fresh' = fresh + 1)
  BY <1>3
  DEF Step, StartCall, Continue, UseObject, StartRead, ReadNothing, ReadNothingFails, RefuseWrite,
      ParseHeader, RejectContents, DecryptContents, Truncate, PutHeader, PutBody, OpenFails,
      OutputFails, SetDirty, Edit, Crash
<1>4. CASE UNCHANGED vars
  BY <1>2, <1>4 DEF vars
<1>. QED
  BY <1>1, <1>2, <1>3, <1>4 DEF Next, Step

\* However calls, faults and crashes interleave, no two prepared images share
\* an IV.
THEOREM IvsAreFresh == Spec => []IvNeverReused
<1>1. Init => IvsDrawn /\ IvNeverReused
  BY DEF Init, IvsDrawn, IvNeverReused, FirstImages
<1>. QED
  BY <1>1, InitType, TypeStep, IvStep, PTL DEF Spec
-----------------------------------------------------------------------------
(* What read() accepts.                                                    *)

\* The object holds an image's salt, IV, timestamp and HMAC.
Holds(h, x) ==
  /\ obj[h].salt = x.salt /\ obj[h].iv = x.iv /\ obj[h].timestamp = x.timestamp
  /\ obj[h].hmac = Mac(x.timestamp, Cipher(x), x.pw)

\* A header of the current format in the file is that of a prepared image ...
HeaderSealed ==
  file.head.magic = "0020" => \E x \in sealed : file.head = NewHeader(x)

\* ... and so is one that a handle has parsed, or is about to write.
HandleSealed(h) ==
  (pc[h] = "contents" /\ arg[h].op = "read") \/ pc[h] \in {"truncate", "header", "body"}
  => \E x \in sealed : Holds(h, x)

Zeros == {Zeroed[d] : d \in Docs}

\* Inside a reader the text is wiped until it is decrypted.
TextWiped(h) == pc[h] \in {"parse", "contents"} => obj[h].buf \in Zeros

\* ReadIsAuthentic and FailedReadLeavesNoText for one handle.
Authentic(h) ==
  last[h] = [op |-> "read", err |-> "NO_ERROR"] /\ pc[h] = "idle" =>
    \E x \in sealed :
      /\ x.pw = arg[h].pw
      /\ obj[h].salt = x.salt /\ obj[h].iv = x.iv
      /\ obj[h].timestamp = x.timestamp
      /\ obj[h].buf = Recovered(x.doc)

NoText(h) ==
  last[h].op \in {"read", "create"} /\ last[h].err # "NO_ERROR" /\ pc[h] = "idle"
  => obj[h].buf \in Zeros

HandleInv(h) == HandleSealed(h) /\ TextWiped(h) /\ Authentic(h) /\ NoText(h)

AuthInv == HeaderSealed /\ \A h \in Handles : HandleInv(h)

\* An image's own ciphertext, key and IV give its text back, or nothing when
\* it is one block long.
LEMMA DecryptedOfCipher ==
  ASSUME NEW x \in Images, NEW r \in Decrypted(Cipher(x), x.pw, x.salt, x.iv)
  PROVE  r = [ok |-> TRUE, doc |-> Recovered(x.doc)]
<1>. DEFINE y(d) == [doc |-> d, pw |-> x.pw, salt |-> x.salt, iv |-> x.iv]
            Matches == {d \in Docs : Cipher(x) = Cipher(y(d))}
<1>1. x.doc \in Docs /\ Blocks[x.doc] \in Nat
  BY DocsAssumption DEF DocsAssumption, Images
<1>2. Len(Cipher(x)) = Blocks[x.doc]
  BY CipherType
<1>3. CASE Blocks[x.doc] <= 1
  <2>1. Recovered(x.doc) = Empty
    BY <1>1, <1>3, DocsAssumption DEF DocsAssumption, Recovered
  <2>. QED
    BY <1>2, <1>3, <2>1 DEF Decrypted
<1>4. CASE Blocks[x.doc] > 1
  <2>1. x.doc \in Matches
    <3>1. Cipher(y(x.doc)) = Cipher(x)
      BY DEF Cipher, Block
    <3>. QED
      BY <1>1, <3>1
  <2>2. ASSUME NEW d \in Matches
        PROVE  d = x.doc
    <3>1. Blocks[d] \in Nat
      BY DocsAssumption DEF DocsAssumption
    <3>2. Cipher(x)[1] = Block(x, 1)
      BY <1>1, <1>4, CipherType
    <3>3. Len(Cipher(y(d))) = Blocks[d]
      BY <3>1 DEF Cipher
    <3>4. Blocks[d] = Blocks[x.doc]
      BY <1>2, <3>3
    <3>5. Cipher(y(d))[1] = Block(y(d), 1)
      BY <1>1, <1>4, <3>4 DEF Cipher
    <3>6. Block(y(d), 1).doc = d /\ Block(x, 1).doc = x.doc
      BY DEF Block
    <3>. QED
      BY <3>2, <3>5, <3>6
  <2>3. r \in {[ok |-> TRUE, doc |-> d] : d \in Matches}
    <3>1. ~ (Len(Cipher(x)) <= 1)
      BY <1>1, <1>2, <1>4
    <3>. QED
      BY <2>1, <3>1 DEF Decrypted
  <2>4. Recovered(x.doc) = x.doc
    BY <1>4 DEF Recovered
  <2>. HIDE DEF Matches
  <2>. QED
    BY <2>2, <2>3, <2>4
<1>. QED
  BY <1>1, <1>3, <1>4

\* What another handle does takes nothing away from a handle.
LEMMA OtherHandle ==
  ASSUME NEW g, HandleInv(g), sealed \subseteq sealed',
         obj'[g] = obj[g], pc'[g] = pc[g], arg'[g] = arg[g], last'[g] = last[g]
  PROVE  HandleInv(g)'
  BY DEF HandleInv, HandleSealed, TextWiped, Authentic, NoText, Holds

LEMMA HeaderStep ==
  ASSUME TypeOK, AuthInv, NEW h \in Handles, Step(h)
  PROVE  HeaderSealed'
<1>. USE DEF HeaderSealed
<1>1. HeaderSealed /\ sealed \subseteq sealed'
  BY Frame DEF AuthInv
<1>2. CASE file' = file
  BY <1>1, <1>2
<1>3. CASE file' = EmptyFile
  BY <1>3 DEF EmptyFile, NoHeader, Header
<1>4. CASE PutHeader(h)
  <2>1. PICK x \in sealed : Holds(h, x)
    BY <1>4 DEF PutHeader, AuthInv, HandleInv, HandleSealed
  <2>2. file'.head = NewHeader(x)
    BY <1>4, <2>1 DEF PutHeader, Holds, NewHeader, TypeOK
  <2>. QED
    BY <1>1, <2>1, <2>2
<1>5. ASSUME NEW blocks, file' = FileWith(blocks)
      PROVE  HeaderSealed'
  BY <1>1, <1>5 DEF FileWith, HoleHeader, Header
<1>6. \/ file' = file \/ file' = EmptyFile \/ PutHeader(h)
      \/ \E blocks : file' = FileWith(blocks)
  BY DEF Step, StartCall, Continue, UseObject, StartRead, ReadNothing, ReadNothingFails, Prepare,
         RefuseWrite, ParseHeader, RejectContents, DecryptContents, Truncate, Truncated, PutBody,
         OpenFails, OutputFails, SetDirty, Edit, Crash
<1>. QED
  BY <1>2, <1>3, <1>4, <1>5, <1>6

LEMMA OwnStep ==
  ASSUME TypeOK, AuthInv, NEW h \in Handles, Step(h)
  PROVE  HandleInv(h)'
<1>. USE DEF HandleInv
<1>a. HandleInv(h) /\ HeaderSealed /\ sealed \subseteq sealed'
  BY Frame DEF AuthInv
<1>b. /\ obj \in [Handles -> Objects] /\ obj[h] \in Objects
      /\ pc \in [Handles -> Points]
      /\ arg = [g \in Handles |-> arg[g]] /\ last = [g \in Handles |-> last[g]]
      /\ sealed \subseteq Images
  BY DEF TypeOK
<1>1. ASSUME NEW p \in Passwords, NEW op \in {"read", "read_old"},
             StartRead(h, op, p) \/ ReadNothing(h, op, p) \/ ReadNothingFails(h, op, p)
      PROVE  HandleInv(h)'
  <2>1. obj'[h].buf \in Zeros
    <3>. DEFINE w == Wiped(obj[h])
                o(n) == [w EXCEPT !.length = n, !.salt = fresh + 1, !.iv = fresh + 1, !.dirty = TRUE]
    <3>1. w \in Objects /\ w.buf = Zeroed[obj[h].buf] /\ obj[h].buf \in Docs
      BY <1>b, WipedType DEF Objects
    <3>2. \/ \E n \in MeasuredLength : obj' = [obj EXCEPT ![h] = [w EXCEPT !.length = n]]
          \/ \E n \in MeasuredLength : obj' = [obj EXCEPT ![h] = o(n)]
      BY <1>1 DEF StartRead, ReadNothing, ReadNothingFails
    <3>. HIDE DEF w
    <3>3. \A n : [w EXCEPT !.length = n].buf = w.buf /\ o(n).buf = w.buf
      BY <3>1 DEF Objects
    <3>. HIDE DEF o
    <3>4. obj'[h].buf = w.buf
      <4>1. \/ \E n : obj'[h] = [w EXCEPT !.length = n]
            \/ \E n : obj'[h] = o(n)
        BY <1>b, <3>2
      <4>. QED
        BY <3>3, <4>1
    <3>. QED
      BY <3>1, <3>4 DEF Zeros
  <2>2. \/ pc'[h] = "parse"
        \/ /\ pc'[h] = "idle"
           /\ last'[h].op # "read"
    <3>1. \/ Goto(h, "parse")
          \/ \E o \in {"create", "read_old"}, err \in Errors : Return(h, o, err)
      BY <1>1 DEF StartRead, ReadNothing, ReadNothingFails, Errors
    <3>. QED
      BY <1>b, <3>1 DEF Goto, Return
  <2>. QED
    BY <2>1, <2>2 DEF HandleSealed, TextWiped, Authentic, NoText, Zeros
<1>2. ASSUME NEW p \in Passwords, Prepare(h, p)
      PROVE  HandleInv(h)'
  <2>1. PICK x : /\ x.pw = p /\ x.salt = obj[h].salt /\ x \in sealed'
                 /\ obj' = [obj EXCEPT ![h] = [@ EXCEPT
                              !.iv = x.iv, !.timestamp = x.timestamp, !.enc = Cipher(x),
                              !.hmac = Mac(x.timestamp, Cipher(x), p)]]
    BY <1>2 DEF Prepare
  <2>2. Holds(h, x)'
    BY <1>b, <2>1 DEF Holds, Objects
  <2>3. pc'[h] = "truncate"
    BY <1>2, <1>b DEF Prepare, Goto
  <2>. QED
    BY <2>1, <2>2, <2>3 DEF HandleSealed, TextWiped, Authentic, NoText
<1>3. ASSUME NEW p \in Passwords, RefuseWrite(h, p)
      PROVE  HandleInv(h)'
  BY <1>3, <1>b DEF RefuseWrite, Return, HandleSealed, TextWiped, Authentic, NoText
<1>4. CASE ParseHeader(h)
  <2>1. CASE pc'[h] = "idle"
    BY <2>1, <1>4, <1>a, <1>b
    DEF ParseHeader, Return, Goto, HandleSealed, TextWiped, Authentic, NoText
  <2>2. CASE pc'[h] # "idle"
    <3>1. /\ pc'[h] = "contents" /\ arg'[h] = arg[h] /\ pc[h] = "parse"
          /\ obj'[h] = Parsed(obj[h], arg[h].op, file.head)
          /\ Accepts(arg[h].op, file.head.magic)
          /\ sealed' = sealed
      BY <2>2, <1>4, <1>b DEF ParseHeader, Return, Goto
    <3>2. obj'[h].buf = obj[h].buf
      BY <1>b, <3>1 DEF Parsed, Objects
    <3>3. ASSUME arg[h].op = "read"
          PROVE  \E x \in sealed : Holds(h, x)'
      <4>1. PICK x \in sealed : file.head = NewHeader(x)
        BY <1>a, <3>1, <3>3 DEF HeaderSealed, Accepts
      <4>2. Holds(h, x)'
        BY <1>b, <3>1, <3>3, <4>1 DEF Holds, Parsed, NewHeader, Header, Objects
      <4>. QED
        BY <4>2
    <3>. QED
      BY <1>a, <3>1, <3>2, <3>3 DEF HandleSealed, TextWiped, Authentic, NoText, Zeros
  <2>. QED
    BY <2>1, <2>2
<1>5. CASE RejectContents(h)
  <2>1. obj'[h].buf = obj[h].buf /\ pc[h] = "contents" /\ pc'[h] = "idle"
    BY <1>5, <1>b DEF RejectContents, Return, Objects
  <2>2. last'[h] = [op |-> "read", err |-> "INTERNAL_CIPHER_ERROR"]
    BY <1>5, <1>b DEF RejectContents, Return
  <2>. QED
    BY <1>a, <2>1, <2>2 DEF HandleSealed, TextWiped, Authentic, NoText, Zeros
<1>6. CASE DecryptContents(h)
  <2>. DEFINE op   == arg[h].op
              body == ReadBody(op, obj[h].length - HeaderSize(op))
  <2>1. PICK r \in Decrypted(body, arg[h].pw, obj[h].salt, obj[h].iv) :
          /\ obj' = [obj EXCEPT ![h] = [@ EXCEPT
                       !.enc = body, !.buf = r.doc, !.dirty = r.ok /\ op = "read_old"]]
          /\ Return(h, op, IF r.ok THEN "NO_ERROR" ELSE "INTERNAL_CIPHER_ERROR")
    BY <1>6 DEF DecryptContents
  <2>2. pc[h] = "contents" /\ arg' = arg /\ sealed' = sealed
    BY <1>6 DEF DecryptContents
  <2>3. pc'[h] = "idle" /\ last'[h].op = op
    BY <1>b, <2>1 DEF Return
  <2>4. CASE op = "read"
    <3>1. PICK x \in sealed : Holds(h, x)
      BY <1>a, <2>2, <2>4 DEF HandleSealed
    <3>2. obj[h].hmac = Mac(obj[h].timestamp, body, arg[h].pw)
      BY <1>6, <2>4 DEF DecryptContents, MacVerifies
    <3>3. body = Cipher(x) /\ arg[h].pw = x.pw
      <4>. HIDE DEF body
      <4>. QED
        BY <3>1, <3>2 DEF Holds, Mac
    <3>4. r = [ok |-> TRUE, doc |-> Recovered(x.doc)]
      <4>. HIDE DEF body
      <4>1. r \in Decrypted(Cipher(x), x.pw, x.salt, x.iv)
        BY <2>1, <3>1, <3>3 DEF Holds
      <4>. QED
        BY <1>b, <4>1, DecryptedOfCipher
    <3>5. /\ obj'[h].salt = obj[h].salt /\ obj'[h].iv = obj[h].iv
          /\ obj'[h].timestamp = obj[h].timestamp /\ obj'[h].buf = r.doc
      <4>. HIDE DEF body
      <4>. QED
        BY <1>b, <2>1 DEF Objects
    <3>6. Authentic(h)'
      BY <2>2, <3>1, <3>3, <3>4, <3>5 DEF Authentic, Holds
    <3>7. NoText(h)'
      BY <1>b, <2>1, <3>4 DEF NoText, Return
    <3>. QED
      BY <2>3, <3>6, <3>7 DEF HandleSealed, TextWiped
  <2>5. CASE op = "read_old"
    BY <2>3, <2>5 DEF HandleSealed, TextWiped, Authentic, NoText
  <2>. QED
    BY <2>2, <2>4, <2>5 DEF TypeOK
<1>7. CASE Truncate(h) \/ PutHeader(h)
  <2>1. /\ obj' = obj /\ sealed' = sealed
        /\ pc[h] \in {"truncate", "header"} /\ pc'[h] \in {"header", "body"}
    BY <1>7, <1>b DEF Truncate, PutHeader, Goto
  <2>. QED
    BY <1>a, <2>1 DEF HandleSealed, TextWiped, Authentic, NoText, Holds
<1>8. ASSUME WriteReturns(h)
      PROVE  HandleInv(h)'
  BY <1>8, <1>b DEF WriteReturns, Return, HandleSealed, TextWiped, Authentic, NoText
<1>9. CASE PutBody(h) \/ OpenFails(h) \/ OutputFails(h)
  BY <1>8, <1>9 DEF PutBody, OpenFails, OutputFails
<1>10. CASE SetDirty(h)
  <2>1. /\ obj'[h].buf = obj[h].buf /\ obj'[h].salt = obj[h].salt /\ obj'[h].iv = obj[h].iv
        /\ obj'[h].timestamp = obj[h].timestamp /\ obj'[h].hmac = obj[h].hmac
    BY <1>10, <1>b DEF SetDirty, Objects
  <2>2. pc' = pc /\ arg' = arg /\ last' = last /\ sealed' = sealed
    BY <1>10 DEF SetDirty
  <2>. QED
    BY <1>a, <2>1, <2>2 DEF HandleSealed, TextWiped, Authentic, NoText, Holds, Zeros
<1>11. ASSUME NEW d \in Docs, Edit(h, d)
       PROVE  HandleInv(h)'
  BY <1>11, <1>b DEF Edit, Ready, HandleSealed, TextWiped, Authentic, NoText
<1>12. CASE Crash(h)
  BY <1>12, <1>b DEF Crash, None, HandleSealed, TextWiped, Authentic, NoText
<1>. QED
  BY <1>1, <1>2, <1>3, <1>4, <1>5, <1>6, <1>7, <1>9, <1>10, <1>11, <1>12, SettingAssumption
  DEF Step, StartCall, Continue, UseObject, SettingAssumption

LEMMA AuthInit == Init => AuthInv
<1>. SUFFICES ASSUME Init PROVE AuthInv
  OBVIOUS
<1>1. HeaderSealed
  <2>1. file.head.magic # "0020" \/ \E x \in sealed : file = NewFile(x)
    BY DEF Init, EmptyFile, NoHeader, OldFile, OldHeader, Header
  <2>. QED
    BY <2>1 DEF HeaderSealed, NewFile
<1>2. ASSUME NEW h \in Handles
      PROVE  HandleInv(h)
  BY <1>2 DEF Init, None, HandleInv, HandleSealed, TextWiped, Authentic, NoText
<1>. QED
  BY <1>1, <1>2 DEF AuthInv

LEMMA AuthStep ==
  ASSUME TypeOK, AuthInv, [Next]_vars
  PROVE  AuthInv'
<1>1. CASE UNCHANGED vars
  BY <1>1 DEF vars, AuthInv, HeaderSealed, HandleInv, HandleSealed, TextWiped, Authentic, NoText, Holds
<1>2. ASSUME NEW h \in Handles, Step(h)
      PROVE  AuthInv'
  <2>1. ASSUME NEW g \in Handles \ {h}
        PROVE  HandleInv(g)'
    BY <1>2, <2>1, Frame, OtherHandle DEF AuthInv
  <2>. QED
    BY <1>2, <2>1, HeaderStep, OwnStep DEF AuthInv
<1>. QED
  BY <1>1, <1>2 DEF Next, Step

\* Under every interleaving of readers and writers of one file, whatever they
\* are interrupted by, a read() that succeeds returns what one write() under
\* the same password wrote.
THEOREM ReadsAreAuthentic == Spec => []ReadIsAuthentic
<1>1. AuthInv => ReadIsAuthentic
  BY DEF AuthInv, HandleInv, Authentic, ReadIsAuthentic
<1>. QED
  BY <1>1, InitType, TypeStep, AuthInit, AuthStep, PTL DEF Spec

\* A read() that fails leaves no text of an earlier one behind, and none of
\* the decryption either: an integrity check that passed makes it succeed.
THEOREM FailedReadsAreWiped == Spec => []FailedReadLeavesNoText
<1>1. AuthInv => FailedReadLeavesNoText
  BY DEF AuthInv, HandleInv, NoText, Zeros, FailedReadLeavesNoText
<1>. QED
  BY <1>1, InitType, TypeStep, AuthInit, AuthStep, PTL DEF Spec
=============================================================================
