----------------------------- MODULE ConvertTool -----------------------------
(***************************************************************************)
(* util/convert_crypto_file_0010to0020.cc: each handle is a run of the     *)
(* converter, which reads a file of the old format with                    *)
(* read_and_parse_old_version_0010() and writes it back with write().      *)
(***************************************************************************)
EXTENDS CryptoFile

ASSUME ConverterAssumption == "read_old" \in ReadOps

VARIABLES
  step,    \* where each run is: "start", "reading", "writing", or how it ended:
           \* "failure", "success", or "unasked", with success but no password
  origin,  \* history: the image in the file before the first run
  mishap   \* history: output was cut short, by an error or the end of a run

tvars == <<vars, step, origin, mishap>>

\* The error codes of crypto_file::error_type, which
\* read_and_parse_old_version_0010() returns through a bool.
ErrorCode(err) ==
  CASE err = "NO_ERROR" -> 0 [] err = "NO_HEADER_IN_FILE" -> 1
    [] err = "CIPHER_ERROR_FILE_LENGTH" -> 2 [] OTHER -> 3

OldResult(err) == err = "NO_ERROR" \/ ErrorCode(err) # 0

MoveTo(h, s) == step' = [step EXCEPT ![h] = s]

ConvertInit ==
  /\ Init
  /\ step = [h \in Handles |-> "start"]
  /\ \E x \in FirstImages(OldDocs) : file = OldFile(x) /\ origin = x
  /\ mishap = FALSE

\* password_from_stdin has none: convert() returns false, main() ignores it.
NoPassword(h) ==
  /\ step[h] = "start"
  /\ MoveTo(h, "unasked")
  /\ UNCHANGED <<vars, mishap>>

ConvertRead(h) ==
  /\ step[h] = "start"
  /\ Serialised => \A g \in Handles : step[g] \notin {"reading", "writing"}
  /\ \E p \in Passwords :
       \/ StartRead(h, "read_old", p)
       \/ ReadNothing(h, "read_old", p)
       \/ ReadNothingFails(h, "read_old", p)
  /\ MoveTo(h, "reading")
  /\ UNCHANGED mishap

ConvertWrite(h) ==
  /\ step[h] = "reading" /\ pc[h] = "idle"
  /\ IF OldResult(last[h].err)
     THEN /\ Prepare(h, arg[h].pw) \/ RefuseWrite(h, arg[h].pw)
          /\ MoveTo(h, "writing")
     ELSE MoveTo(h, "success") /\ UNCHANGED vars   \* main() ignores it
  /\ UNCHANGED mishap

ConvertExit(h) ==
  /\ step[h] = "writing" /\ pc[h] = "idle"
  /\ MoveTo(h, IF last[h].err = "NO_ERROR" THEN "success" ELSE "failure")
  /\ UNCHANGED <<vars, mishap>>

ConvertContinue(h) ==
  /\ Continue(h)
  /\ mishap' = (mishap \/ OutputFails(h))
  /\ UNCHANGED step

\* The run dies; the user may start another.
ConvertDies(h) ==
  /\ Crash(h)
  /\ MoveTo(h, "start")
  /\ mishap' = (mishap \/ pc[h] \in {"header", "body"})

ConvertNext ==
  /\ \E h \in Handles :
       \/ NoPassword(h) \/ ConvertRead(h) \/ ConvertContinue(h) \/ ConvertWrite(h)
       \/ ConvertExit(h) \/ ConvertDies(h)
  /\ UNCHANGED origin

ConvertSpec == ConvertInit /\ [][ConvertNext]_tvars

-----------------------------------------------------------------------------
Converted == \E x \in sealed : x.doc = origin.doc /\ x.pw = origin.pw /\ file = NewFile(x)

InOutput == \E h \in Handles : pc[h] \in {"header", "body"}

\* Unless output was cut short, the document that was in the file can be had
\* from it, in one format or the other, whatever runs went before: refused
\* ones, ones that died, ones on a file already converted.
ConversionKeepsDocument == mishap \/ InOutput \/ file = OldFile(origin) \/ Converted

ExitsWithSuccess(h) == step[h] \in {"success", "unasked"}
HadPassword(h) == step[h] # "unasked"

\* A run that exits with success has left the document in the new format: if it
\* had a password, for without one it exits with success and converts nothing.
SuccessMeansConverted ==
  \A h \in Handles :
    ExitsWithSuccess(h) /\ HadPassword(h) => mishap \/ InOutput \/ Converted

\* Once converted, the file is never touched by another run, as long as it can
\* be opened: one that cannot be is taken for an empty one, and written.
ConvertedIsLeftAlone == [][Converted => UNCHANGED file]_tvars
=============================================================================
