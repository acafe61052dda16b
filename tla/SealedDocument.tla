---------------------------- MODULE SealedDocument ----------------------------
(***************************************************************************)
(* What crypto_file promises to programs that take turns on one file: a    *)
(* register holding one document under one password.  write() replaces the *)
(* document as a whole, read() returns it whole or reports an error, and   *)
(* only a crash inside write() may leave anything but the old or the new   *)
(* document: nothing, or something that read() will reject.                *)
(***************************************************************************)
CONSTANTS Handles, Passwords, Docs, Empty, Zeroed

VARIABLES
  content,  \* what the file amounts to
  text,     \* the decrypted text each handle holds
  phase,    \* the call each handle is inside of
  last      \* what its last operation reported

avars == <<content, text, phase, last>>

Absent       == [kind |-> "absent", doc |-> Empty, pw |-> "none"]
Damaged      == [kind |-> "damaged", doc |-> Empty, pw |-> "none"]
Sealed(d, p) == [kind |-> "sealed", doc |-> d, pw |-> p]

Outside      == [op |-> "none", pw |-> "none"]
Inside(op, p) == [op |-> op, pw |-> p]

Report(h, op, ok) == last' = [last EXCEPT ![h] = [op |-> op, ok |-> ok]]
Turn(h) == \A g \in Handles : phase[g] = Outside
Leave(h) == phase' = [phase EXCEPT ![h] = Outside]

Init ==
  /\ content \in {Absent} \cup {Sealed(d, p) : d \in Docs, p \in Passwords}
  /\ text = [h \in Handles |-> Empty]
  /\ phase = [h \in Handles |-> Outside]
  /\ last = [h \in Handles |-> [op |-> "none", ok |-> TRUE]]

\* A reader of either format forgets the text it held ...
StartRead(h, op, p) ==
  /\ Turn(h) /\ content # Absent
  /\ text' = [text EXCEPT ![h] = Zeroed[@]]
  /\ phase' = [phase EXCEPT ![h] = Inside(op, p)]
  /\ UNCHANGED <<content, last>>

\* ... and returns with the document, or with an error and no text.
EndRead(h) ==
  LET found == phase[h].op = "read" /\ \E d \in Docs : content = Sealed(d, phase[h].pw)
  IN  /\ phase[h].op \in {"read", "read_old"}
      /\ text' = IF found THEN [text EXCEPT ![h] = content.doc] ELSE text
      /\ Report(h, phase[h].op, found)
      /\ Leave(h)
      /\ UNCHANGED content

\* Nothing there: a new document begins, unless no salt can be drawn for it.
ReadAbsent(h, op) ==
  /\ Turn(h) /\ content = Absent
  /\ text' = [text EXCEPT ![h] = Zeroed[@]]
  /\ \E ok \in BOOLEAN : Report(h, op, ok)
  /\ UNCHANGED <<content, phase>>

Edit(h, d) ==
  /\ Turn(h)
  /\ text' = [text EXCEPT ![h] = d]
  /\ Report(h, "edit", TRUE)
  /\ UNCHANGED <<content, phase>>

StartWrite(h, p) ==
  /\ Turn(h)
  /\ phase' = [phase EXCEPT ![h] = Inside("write", p)]
  /\ UNCHANGED <<content, text, last>>

EndWrite(h) ==
  /\ phase[h].op = "write"
  /\ content' = Sealed(text[h], phase[h].pw)
  /\ Report(h, "write", TRUE)
  /\ Leave(h)
  /\ UNCHANGED text

RefuseWrite(h) ==
  /\ Turn(h)
  /\ Report(h, "write", FALSE)
  /\ UNCHANGED <<content, text, phase>>

Crash(h) ==
  /\ content' \in {content} \cup
       (IF phase[h].op = "write"
        THEN {Absent, Damaged, Sealed(text[h], phase[h].pw)} ELSE {})
  /\ text' = [text EXCEPT ![h] = Empty]
  /\ Leave(h)
  /\ Report(h, "none", TRUE)

Next ==
  \E h \in Handles :
    \/ \E p \in Passwords, op \in {"read", "read_old"} : StartRead(h, op, p)
    \/ EndRead(h) \/ EndWrite(h) \/ RefuseWrite(h) \/ Crash(h)
    \/ \E op \in {"create", "read_old"} : ReadAbsent(h, op)
    \/ \E d \in Docs : Edit(h, d)
    \/ \E p \in Passwords : StartWrite(h, p)

\* A call that was entered returns.
Fairness == \A h \in Handles : WF_avars(EndRead(h) \/ EndWrite(h))

\* What the register may do.
Steps == Init /\ [][Next]_avars

Spec == Steps /\ Fairness
=============================================================================
