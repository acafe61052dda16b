------------------------------ MODULE CryptoFile ------------------------------
(***************************************************************************)
(* class libaan::crypto_file (libaan/crypto_file.hh, .cc): one encrypted   *)
(* document in one file, rewritten as a whole by write() and loaded as a   *)
(* whole by read().  Handles are crypto_file objects of different          *)
(* processes on the same file name; nothing in the class locks the file,   *)
(* so their calls interleave between any two accesses to it.               *)
(*                                                                         *)
(* Sizes are counted in cipher blocks of 16 bytes.  Encryption and HMAC    *)
(* are symbolic: a cipher block names the document, key, IV and position   *)
(* it was made from, an HMAC names everything it was computed over.        *)
(***************************************************************************)
EXTENDS Integers, Sequences

CONSTANTS
  Handles,      \* crypto_file objects, one per process
  Passwords,
  Docs,         \* plaintexts a decrypted_buffer may hold
  Empty,        \* the empty plaintext
  Garbage,      \* what decryption with a wrong key or IV leaves behind
  Blocks,       \* ciphertext length of each plaintext, in blocks
  Zeroed,       \* the plaintext of the same length with every byte 0
  OldDocs,      \* plaintexts the file may hold at first in the old format 0010
  NewDocs,      \* plaintexts it may hold at first in the current format 0020
  ReadOps,      \* readers in use: "read", "read_old" (the latter by converters)
  Serialised,   \* TRUE: one call at a time;  FALSE: calls interleave
  Faults,       \* which of AllFaults the environment may inject
  MaxFresh      \* bound on the random draws (salts and IVs) of a behaviour

AllFaults == {"random", "open", "write", "crash"}

ASSUME DocsAssumption ==
  /\ Empty \in Docs /\ Garbage \in Docs /\ OldDocs \subseteq Docs /\ NewDocs \subseteq Docs
  /\ Blocks \in [Docs -> Nat]
  /\ \A d \in Docs : Blocks[d] = 0 <=> d = Empty
  /\ Zeroed \in [Docs -> Docs]
  /\ \A d \in Docs : Blocks[Zeroed[d]] = Blocks[d]

ASSUME SettingAssumption ==
  /\ Serialised \in BOOLEAN
  /\ ReadOps \subseteq {"read", "read_old"}
  /\ Faults \subseteq AllFaults
  /\ MaxFresh \in Nat

VARIABLES
  file,    \* what the file holds: [head, body]
  obj,     \* the data members of each handle's object
  pc,      \* where each handle is inside a call, "idle" between calls
  arg,     \* the operation a handle last called and its password
  last,    \* what the last finished operation of each handle reported
  fresh,   \* random draws so far; also the clock that timestamps writes
  sealed   \* history: every image write() ever prepared

vars == <<file, obj, pc, arg, last, fresh, sealed>>

-----------------------------------------------------------------------------
(* Data: images, headers, ciphertext.                                      *)

\* Mutated form: the size of the current header for both formats.
HeaderSizeAlways128(op) == 8

HeaderSize(op) == IF op = "read_old" THEN 4 ELSE 8   \* 64 and 128 bytes

Images == [doc : Docs, pw : Passwords, salt : Nat, iv : Nat, timestamp : Nat]

Block(x, i) == [doc |-> x.doc, pw |-> x.pw, salt |-> x.salt, iv |-> x.iv, i |-> i]
NoBlock     == [doc |-> Empty, pw |-> "none", salt |-> 0, iv |-> 0, i |-> 0]
CipherBlocks ==
  [doc : Docs, pw : Passwords \cup {"none"}, salt : Nat, iv : Nat, i : Nat]

\* camellia_256::encrypt: the empty plaintext has the empty ciphertext.
Cipher(x) == [i \in 1 .. Blocks[x.doc] |-> Block(x, i)]

\* Mutated form for testing the properties: an HMAC of the timestamp alone.
MacWithoutBody(timestamp, body, pw) == [timestamp |-> timestamp, body |-> << >>, pw |-> pw]

\* hash::sha1_hmac over timestamp + encrypted_file; salt and IV are outside.
Mac(timestamp, body, pw) == [timestamp |-> timestamp, body |-> body, pw |-> pw]
NoMac == Mac(0, << >>, "none")

Header(magic, salt, iv, hmac, timestamp) ==
  [magic |-> magic, salt |-> salt, iv |-> iv, hmac |-> hmac, timestamp |-> timestamp]

NewHeader(x)  == Header("0020", x.salt, x.iv, Mac(x.timestamp, Cipher(x), x.pw), x.timestamp)
OldHeader(x)  == Header("0010", x.salt, x.iv, NoMac, 0)
NoHeader      == Header("none", 0, 0, NoMac, 0)   \* the file ends before it
HoleHeader    == Header("hole", 0, 0, NoMac, 0)   \* the zeros of a file hole

EmptyFile   == [head |-> NoHeader, body |-> << >>]
OldFile(x)  == [head |-> OldHeader(x), body |-> Cipher(x)]
NewFile(x)  == [head |-> NewHeader(x), body |-> Cipher(x)]

\* What an earlier program left in the file.
FirstImages(docs) ==
  {[doc |-> d, pw |-> p, salt |-> 1, iv |-> 1, timestamp |-> 1] : d \in docs, p \in Passwords}

HeadLength(f) ==
  CASE f.head.magic = "none" -> 0
    [] f.head.magic = "0010" -> 4
    [] OTHER                 -> 8

FileLength == HeadLength(file) + Len(file.body)

\* What the reader of format op finds after the header: a reader of the old
\* format takes the second half of a 128 byte header for contents.
Contents(op) ==
  IF op = "read_old" /\ HeadLength(file) = 8
  THEN [i \in 1 .. 4 |-> NoBlock] \o file.body
  ELSE file.body

\* fp.read into a zero-filled buffer of n blocks, from a file that may have
\* become shorter since its length was taken.
ReadBody(op, n) ==
  [i \in 1 .. n |-> IF i <= Len(Contents(op)) THEN Contents(op)[i] ELSE NoBlock]

\* fp.write over what another writer left: a longer old tail stays.
Overlay(new, old) ==
  new \o SubSeq(old, Len(new) + 1, Len(old))

\* camellia_256::do_decrypt gives up on a ciphertext of one block (the EVP
\* layer holds the last block back) and reports an empty plaintext.
Recovered(d) == IF Blocks[d] = 1 THEN Empty ELSE d

\* camellia_256::decrypt: the possible results [ok, doc].
Decrypted(body, pw, salt, iv) ==
  LET Matches == {d \in Docs : body = Cipher([doc |-> d, pw |-> pw, salt |-> salt, iv |-> iv])}
  IN  IF Len(body) <= 1
      THEN {[ok |-> TRUE, doc |-> Empty]}
      ELSE IF Matches # {}
      THEN {[ok |-> TRUE, doc |-> d] : d \in Matches}
      ELSE {[ok |-> ok, doc |-> Garbage] : ok \in BOOLEAN}  \* padding may fit by chance

-----------------------------------------------------------------------------
(* The object and its calls.                                               *)

NewObject ==
  [salt |-> 0, iv |-> 0, hmac |-> NoMac, timestamp |-> 0,   \* 0: never set
   enc |-> << >>, buf |-> Empty, dirty |-> FALSE, length |-> 0]

None == [op |-> "none", err |-> "NO_ERROR"]
Call(op, p) == [op |-> op, pw |-> p]

Ready(h) ==
  /\ pc[h] = "idle"
  /\ Serialised => \A g \in Handles : pc[g] = "idle"

Return(h, op, err) ==
  /\ pc' = [pc EXCEPT ![h] = "idle"]
  /\ last' = [last EXCEPT ![h] = [op |-> op, err |-> err]]

Goto(h, label) ==
  /\ pc' = [pc EXCEPT ![h] = label]
  /\ UNCHANGED last

\* Mutated form: clear_buffers() forgets decrypted_buffer.
WipedButText(o) ==
  [o EXCEPT !.enc = [i \in 1 .. Len(o.enc) |-> NoBlock], !.dirty = FALSE]

\* clear_buffers(): every byte 0, lengths kept.
Wiped(o) ==
  [o EXCEPT !.buf = Zeroed[o.buf],
            !.enc = [i \in 1 .. Len(o.enc) |-> NoBlock],
            !.dirty = FALSE]

\* Mutated form: the header size of the old format for both.
HasOldHeader(n, op) == n >= HeaderSize("read_old")

HasHeader(n, op) == n >= HeaderSize(op)

\* get_file_length is 0 too when the file cannot be opened.
MeasuredLength ==
  {FileLength} \cup (IF "open" \in Faults THEN {0} ELSE {})

Init ==
  /\ \/ file = EmptyFile /\ sealed = {}
     \/ \E x \in FirstImages(OldDocs) : file = OldFile(x) /\ sealed = {}
     \/ \E x \in FirstImages(NewDocs) : file = NewFile(x) /\ sealed = {x}
  /\ obj = [h \in Handles |-> NewObject]
  /\ pc = [h \in Handles |-> "idle"]
  /\ \E p \in Passwords : arg = [h \in Handles |-> Call("none", p)]
  /\ last = [h \in Handles |-> None]
  /\ fresh = 1

\* read() or read_and_parse_old_version_0010() on a file long enough to hold
\* a header: buffers wiped, length taken, contents still to be read.
StartRead(h, op, p) ==
  /\ Ready(h)
  /\ \E n \in MeasuredLength :
       /\ HasHeader(n, op)
       /\ obj' = [obj EXCEPT ![h] = [Wiped(@) EXCEPT !.length = n]]
  /\ arg' = [arg EXCEPT ![h] = Call(op, p)]
  /\ Goto(h, "parse")
  /\ UNCHANGED <<file, fresh, sealed>>

\* The same calls on a missing, unreadable or shorter file: new salt and IV,
\* the whole call ends here.  The buffer keeps its wiped old length.
ReadNothing(h, op, p) ==
  /\ Ready(h)
  /\ fresh < MaxFresh
  /\ \E n \in MeasuredLength :
       /\ ~ HasHeader(n, op)
       /\ obj' = [obj EXCEPT ![h] = [Wiped(@) EXCEPT
                     !.length = n, !.salt = fresh + 1, !.iv = fresh + 1, !.dirty = TRUE]]
  /\ fresh' = fresh + 1
  /\ arg' = [arg EXCEPT ![h] = Call(op, p)]
  /\ Return(h, IF op = "read" THEN "create" ELSE op, "NO_ERROR")
  /\ UNCHANGED <<file, sealed>>

\* ... and when no random bytes can be read for them.
ReadNothingFails(h, op, p) ==
  /\ Ready(h)
  /\ "random" \in Faults
  /\ \E n \in MeasuredLength :
       /\ ~ HasHeader(n, op)
       /\ obj' = [obj EXCEPT ![h] = [Wiped(@) EXCEPT !.length = n]]
  /\ arg' = [arg EXCEPT ![h] = Call(op, p)]
  /\ Return(h, IF op = "read" THEN "create" ELSE op, "INTERNAL_CIPHER_ERROR")
  /\ UNCHANGED <<file, fresh, sealed>>

\* Mutated form: the version number is not looked at.
AcceptsAnyVersion(op, magic) == magic \in {"0010", "0020"}

Accepts(op, magic) == magic = IF op = "read" THEN "0020" ELSE "0010"

\* What parse_header and parse_header_old_version_0010 take from a header.
Parsed(o, op, head) ==
  IF op = "read"
  THEN [o EXCEPT !.salt = head.salt, !.iv = head.iv, !.hmac = head.hmac,
                 !.timestamp = head.timestamp]
  ELSE [o EXCEPT !.salt = head.salt, !.iv = head.iv]

\* The header is read and parsed.
ParseHeader(h) ==
  LET op == arg[h].op
  IN  /\ pc[h] = "parse"
      /\ IF Accepts(op, file.head.magic)
         THEN /\ obj' = [obj EXCEPT ![h] = Parsed(@, op, file.head)]
              /\ Goto(h, "contents")
         ELSE /\ Return(h, op, "NO_HEADER_IN_FILE")
              /\ UNCHANGED obj
      /\ UNCHANGED <<file, arg, fresh, sealed>>

MacVerifies(o, body, p) == o.hmac = Mac(o.timestamp, body, p)

\* read(): the contents fail the integrity check; nothing is decrypted.
RejectContents(h) ==
  LET body == ReadBody("read", obj[h].length - HeaderSize("read"))
  IN  /\ pc[h] = "contents" /\ arg[h].op = "read"
      /\ ~ MacVerifies(obj[h], body, arg[h].pw)
      /\ obj' = [obj EXCEPT ![h].enc = body]
      /\ Return(h, "read", "INTERNAL_CIPHER_ERROR")
      /\ UNCHANGED <<file, arg, fresh, sealed>>

\* Both readers: decrypt what was read.  Only the old format goes on without
\* an integrity check, sets dirty, and may see the cipher fail.
DecryptContents(h) ==
  LET op   == arg[h].op
      body == ReadBody(op, obj[h].length - HeaderSize(op))
  IN  /\ pc[h] = "contents"
      /\ op = "read" => MacVerifies(obj[h], body, arg[h].pw)
      /\ \E r \in Decrypted(body, arg[h].pw, obj[h].salt, obj[h].iv) :
           /\ obj' = [obj EXCEPT ![h] = [@ EXCEPT
                        !.enc = body, !.buf = r.doc, !.dirty = r.ok /\ op = "read_old"]]
           /\ Return(h, op, IF r.ok THEN "NO_ERROR" ELSE "INTERNAL_CIPHER_ERROR")
      /\ UNCHANGED <<file, arg, fresh, sealed>>

\* The application changes the text behind get_decrypted_buffer().
Edit(h, d) ==
  /\ Ready(h)
  /\ obj' = [obj EXCEPT ![h].buf = d]
  /\ last' = [last EXCEPT ![h] = [op |-> "edit", err |-> "NO_ERROR"]]
  /\ UNCHANGED <<file, pc, arg, fresh, sealed>>

SetDirty(h) ==
  /\ Ready(h)
  /\ obj' = [obj EXCEPT ![h].dirty = TRUE]
  /\ UNCHANGED <<file, pc, arg, last, fresh, sealed>>

\* Mutated form: new_random_iv() is not called.
SameIv(h) == obj[h].iv

NewIv(h) == fresh + 1

\* write(): new IV, encrypt, timestamp, HMAC, header, all in memory.
Prepare(h, p) ==
  LET x == [doc |-> obj[h].buf, pw |-> p, salt |-> obj[h].salt,
            iv |-> NewIv(h), timestamp |-> fresh + 1]
  IN  /\ Ready(h)
      /\ obj[h].iv # 0
      /\ fresh < MaxFresh
      /\ fresh' = fresh + 1
      /\ sealed' = sealed \cup {x}
      /\ obj' = [obj EXCEPT ![h] = [@ EXCEPT
                   !.iv = x.iv, !.timestamp = x.timestamp, !.enc = Cipher(x),
                   !.hmac = Mac(x.timestamp, Cipher(x), p)]]
      /\ arg' = [arg EXCEPT ![h] = Call("write", p)]
      /\ Goto(h, "truncate")
      /\ UNCHANGED file

\* write() without a successful or at least parsed read before it, or without
\* random bytes for the IV: refused before the file is touched.
RefuseWrite(h, p) ==
  /\ Ready(h)
  /\ obj[h].iv = 0 \/ "random" \in Faults
  /\ arg' = [arg EXCEPT ![h] = Call("write", p)]
  /\ Return(h, "write", "INTERNAL_CIPHER_ERROR")
  /\ UNCHANGED <<file, obj, fresh, sealed>>

\* The last thing write() does, whatever became of its output.
WriteReturns(h) ==
  /\ obj' = [obj EXCEPT ![h].dirty = FALSE]
  /\ Return(h, "write", "NO_ERROR")

\* Mutated form: opened without trunc.
NotTruncated == file

Truncated == EmptyFile

\* std::ofstream with trunc.
Truncate(h) ==
  /\ pc[h] = "truncate"
  /\ file' = Truncated
  /\ Goto(h, "header")
  /\ UNCHANGED <<obj, arg, fresh, sealed>>

PutHeader(h) ==
  LET o == obj[h]
  IN  /\ pc[h] = "header"
      /\ file' = [file EXCEPT !.head = Header("0020", o.salt, o.iv, o.hmac, o.timestamp)]
      /\ Goto(h, "body")
      /\ UNCHANGED <<obj, arg, fresh, sealed>>

\* The first n blocks of encrypted_file reach the file behind the header.
FileWith(blocks) ==
  [head |-> IF file.head.magic = "none" /\ blocks # << >> THEN HoleHeader ELSE file.head,
   body |-> Overlay(blocks, file.body)]

PutBody(h) ==
  /\ pc[h] = "body"
  /\ file' = FileWith(obj[h].enc)
  /\ WriteReturns(h)
  /\ UNCHANGED <<arg, fresh, sealed>>

\* The file cannot be opened for writing, or the device takes no more: the
\* stream goes bad, later output is dropped, and write() does not look.
OpenFails(h) ==
  /\ "open" \in Faults
  /\ pc[h] = "truncate"
  /\ WriteReturns(h)
  /\ UNCHANGED <<file, arg, fresh, sealed>>

OutputFails(h) ==
  /\ "write" \in Faults
  /\ \/ pc[h] = "header" /\ UNCHANGED file
     \/ /\ pc[h] = "body"
        /\ \E n \in 0 .. Len(obj[h].enc) - 1 : file' = FileWith(SubSeq(obj[h].enc, 1, n))
  /\ WriteReturns(h)
  /\ UNCHANGED <<arg, fresh, sealed>>

\* The process dies wherever it is; a new one starts with a new object.
Crash(h) ==
  /\ "crash" \in Faults
  /\ obj' = [obj EXCEPT ![h] = NewObject]
  /\ pc' = [pc EXCEPT ![h] = "idle"]
  /\ last' = [last EXCEPT ![h] = None]
  /\ UNCHANGED <<file, arg, fresh, sealed>>

StartCall(h) ==
  \/ \E p \in Passwords, op \in ReadOps :
       StartRead(h, op, p) \/ ReadNothing(h, op, p) \/ ReadNothingFails(h, op, p)
  \/ \E p \in Passwords : Prepare(h, p) \/ RefuseWrite(h, p)

Continue(h) ==
  \/ ParseHeader(h) \/ RejectContents(h) \/ DecryptContents(h)
  \/ Truncate(h) \/ PutHeader(h) \/ PutBody(h)
  \/ OpenFails(h) \/ OutputFails(h)

UseObject(h) == SetDirty(h) \/ \E d \in Docs : Edit(h, d)

Next == \E h \in Handles : StartCall(h) \/ Continue(h) \/ UseObject(h) \/ Crash(h)

Spec == Init /\ [][Next]_vars

-----------------------------------------------------------------------------
(* Properties.                                                             *)

Points == {"idle", "parse", "contents", "truncate", "header", "body"}
Errors == {"NO_ERROR", "NO_HEADER_IN_FILE", "INTERNAL_CIPHER_ERROR"}
Macs   == [timestamp : Nat, body : Seq(CipherBlocks), pw : Passwords \cup {"none"}]
Headers ==
  [magic : {"0020", "0010", "none", "hole"}, salt : Nat, iv : Nat, hmac : Macs, timestamp : Nat]
Objects ==
  [salt : Nat, iv : Nat, hmac : Macs, timestamp : Nat, enc : Seq(CipherBlocks),
   buf : Docs, dirty : BOOLEAN, length : Nat]

\* Every variable has its type, and total_file_length - HEADER_SIZE, a size_t
\* subtraction in both readers, never wraps.
TypeOK ==
  /\ file \in [head : Headers, body : Seq(CipherBlocks)]
  /\ obj \in [Handles -> Objects]
  /\ pc \in [Handles -> Points]
  /\ arg \in [Handles -> [op : {"none", "read", "read_old", "write"}, pw : Passwords]]
  /\ last \in [Handles -> [op : {"none", "read", "read_old", "create", "edit", "write"}, err : Errors]]
  /\ fresh \in Nat
  /\ sealed \subseteq Images
  /\ \A h \in Handles :
       pc[h] \in {"parse", "contents"} =>
         /\ arg[h].op \in {"read", "read_old"}
         /\ obj[h].length >= HeaderSize(arg[h].op)

\* A handle whose read() just succeeded on a file with a header holds the
\* salt, IV, timestamp and text of ONE write() under its password: no
\* interleaving with other writers, torn output or crash makes read() accept
\* a file put together from several writes or cut short.
ReadIsAuthentic ==
  \A h \in Handles :
    last[h] = [op |-> "read", err |-> "NO_ERROR"] /\ pc[h] = "idle" =>
      \E x \in sealed :
        /\ x.pw = arg[h].pw
        /\ obj[h].salt = x.salt /\ obj[h].iv = x.iv
        /\ obj[h].timestamp = x.timestamp
        /\ obj[h].buf = Recovered(x.doc)

\* Two prepared writes never share an IV, over all handles, read() calls in
\* between, failed writes and crashes (crypto_file.hh: "get new iv").
IvNeverReused ==
  \A x, y \in sealed : x.iv = y.iv => x = y

\* A read() that reports an error leaves nothing of an earlier text in the
\* object, wherever in the call it gave up.
FailedReadLeavesNoText ==
  \A h \in Handles :
    /\ last[h].op \in {"read", "create"} /\ last[h].err # "NO_ERROR" /\ pc[h] = "idle"
    => obj[h].buf \in {Zeroed[d] : d \in Docs}

-----------------------------------------------------------------------------
(* What the comments and the test promise and the code does not keep.      *)

Done(h, op) == pc[h] = "idle" /\ last[h] = [op |-> op, err |-> "NO_ERROR"]

\* "plain == Decrypt(Encrypt(plain))" (crypto_file_test.cc): a successful
\* read() returns the text that was written.  Texts of 1 to 15 bytes come
\* back empty.
RoundTrip ==
  \A h \in Handles :
    Done(h, "read") => \E x \in sealed : x.iv = obj[h].iv /\ x.doc = obj[h].buf

\* "write header and all blocks to file" (crypto_file.hh, write): a write()
\* that reports success has done so.  With one handle on the file.
SuccessMeansWritten ==
  \A h \in Handles :
    Done(h, "write") =>
      /\ file.head = Header("0020", obj[h].salt, obj[h].iv, obj[h].hmac, obj[h].timestamp)
      /\ file.body = obj[h].enc
=============================================================================
