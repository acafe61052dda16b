-------------------------- MODULE CryptoFileRefinement --------------------------
(***************************************************************************)
(* Callers that take turns (one process at a time works on the file, as in *)
(* test/standalone/crypto_file_test.cc): CryptoFile implements             *)
(* SealedDocument.  The history variable "before" remembers what the file  *)
(* held when the write() in progress began.                                *)
(***************************************************************************)
EXTENDS CryptoFile

VARIABLE before
rvars == <<vars, before>>

WritePoints == {"truncate", "header", "body"}
Writing == \E h \in Handles : pc[h] \in WritePoints

Remember == before' = IF Writing' THEN before ELSE file'

RefInit == Init /\ before = file
RefNext == Next /\ Remember

\* The calls are sequential code without waits: one that was entered runs on.
RefSpec ==
  /\ RefInit /\ [][RefNext]_rvars
  /\ \A h \in Handles : WF_rvars(Continue(h) /\ Remember)

-----------------------------------------------------------------------------
\* The image that a file's header and first block speak of.
Named(f) ==
  [doc |-> IF f.body = << >> THEN Empty ELSE f.body[1].doc, pw |-> f.head.hmac.pw,
   salt |-> f.head.salt, iv |-> f.head.iv, timestamp |-> f.head.timestamp]

\* The document a file amounts to.
Content(f) ==
  IF f = EmptyFile THEN [kind |-> "absent", doc |-> Empty, pw |-> "none"]
  ELSE IF f.head.magic = "0020" /\ f = NewFile(Named(f))
  THEN [kind |-> "sealed", doc |-> Named(f).doc, pw |-> Named(f).pw]
  ELSE [kind |-> "damaged", doc |-> Empty, pw |-> "none"]

\* The register's variables.  The document of a write() in progress counts when
\* the call ends.
Held    == Content(IF Writing THEN before ELSE file)
Texts   == [h \in Handles |-> obj[h].buf]
Phases  == [h \in Handles |-> IF pc[h] = "idle" THEN [op |-> "none", pw |-> "none"] ELSE arg[h]]
Reports == [h \in Handles |-> [op |-> last[h].op, ok |-> last[h].err = "NO_ERROR"]]

Register == INSTANCE SealedDocument WITH
  content <- Held, text <- Texts, phase <- Phases, last <- Reports

\* While callers take turns and plaintexts are not 1 to 15 bytes long, every
\* step of the code is a step of the register: read() after write() returns
\* what was written, a refused or failed call changes nothing, a crash inside
\* write() leaves the old, the new, no or a rejected document, and a call that
\* was entered returns.
ImplementsRegister == Register!Spec

\* A write() whose image is ready brings it to the file before any other call
\* begins, and then reports success: the last image prepared becomes what the
\* file holds, unless the process dies.
WriteReachesFile ==
  \A h \in Handles :
    (pc[h] = "truncate") ~>
      \/ last[h] = None
      \/ /\ last[h] = [op |-> "write", err |-> "NO_ERROR"]
         /\ Content(file) = [kind |-> "sealed", doc |-> obj[h].buf, pw |-> arg[h].pw]
=============================================================================
