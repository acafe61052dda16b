----------------------------- MODULE CipherStream -----------------------------
(***************************************************************************)
(* class libaan::camellia_256 (libaan/crypto.cc): encrypt() hands a text   *)
(* to the EVP layer in pieces of 100 bytes, which are no multiple of the   *)
(* cipher's blocks of 16, and writes what comes back into one string that  *)
(* was sized beforehand; decrypt() undoes it in one piece.  Only lengths   *)
(* and offsets are modelled.  The EVP layer is external.                   *)
(***************************************************************************)
EXTENDS Integers

CONSTANTS
  MaxInt,          \* largest int
  Lengths,         \* lengths of the texts given to encrypt()
  ForeignLengths   \* ... and of the strings given to decrypt() that are not its output

\* do_decrypt() casts the length of the ciphertext to int.
ASSUME LengthsAssumption ==
  /\ MaxInt \in Nat
  /\ Lengths \subseteq Nat /\ \A n \in Lengths : n + 16 <= MaxInt
  /\ ForeignLengths \subseteq 0 .. MaxInt

VARIABLES
  cipher_pc,        \* where the object is inside a call, "idle" between calls
  plain, cipher,    \* lengths of the strings plain and cipher
  source,           \* history: length of the text that cipher encrypts; -1: of none
  input_offset, ol, write_this_turn,
  held,             \* bytes the EVP context keeps back for the next call
  room,             \* length to which the output string was sized
  reach,            \* history: how far the EVP layer has written into it
  returned          \* what the last call returned

cipher_vars == <<cipher_pc, plain, cipher, source, input_offset, ol, write_this_turn, held,
                 room, reach, returned>>

-----------------------------------------------------------------------------
BLOCK_SIZE == 16
BytesPerLoop(n) == IF 100 <= n THEN 100 ELSE n

\* Mutated form: the last piece is taken for a full one.
FullPieceLeft(offset, n) ==
  IF offset + BytesPerLoop(n) > n THEN n - (offset + BytesPerLoop(n)) ELSE BytesPerLoop(n)

\* write_this_turn after a turn.
NextTurn(offset, n) ==
  IF offset + BytesPerLoop(n) > n THEN n - offset ELSE BytesPerLoop(n)

\* EVP_EncryptUpdate: whole blocks go out, the rest is kept.
Whole(n) == n - (n % BLOCK_SIZE)

\* Mutated form: no room for the padding.
CipherBufferUnpadded(n) == n

\* cipher.resize and plain.resize before the work is done.
CipherBuffer(n) == n + BLOCK_SIZE
PlainBuffer(n)  == n + BLOCK_SIZE + 1

Farthest(n) == IF n > reach THEN n ELSE reach

Return(r) == cipher_pc' = "idle" /\ returned' = r

CipherInit ==
  /\ cipher_pc = "idle" /\ returned = "none"
  /\ plain = 0 /\ cipher = 0 /\ source = -1
  /\ input_offset = 0 /\ ol = 0 /\ write_this_turn = 0
  /\ held = 0 /\ room = 0 /\ reach = 0

\* No IV was set, or no key could be derived: the strings stay as they are.
Refuse ==
  /\ cipher_pc = "idle"
  /\ Return("false")
  /\ UNCHANGED <<plain, cipher, source, input_offset, ol, write_this_turn, held, room, reach>>

\* encrypt() of a text of n bytes, up to the loop in do_encrypt().
StartEncrypt(n) ==
  /\ cipher_pc = "idle"
  /\ plain' = n /\ source' = n
  /\ input_offset' = 0 /\ ol' = 0 /\ held' = 0 /\ reach' = 0
  /\ IF n = 0
     THEN /\ cipher' = 0
          /\ write_this_turn' = 0
          /\ Return("true")
     ELSE /\ cipher' = CipherBuffer(n)
          /\ write_this_turn' = BytesPerLoop(n)
          /\ cipher_pc' = "update"
          /\ UNCHANGED returned
  /\ room' = cipher'

\* Mutated form: what a turn has written is not added up.
LastWritten(written) == written

Advanced(written) == ol + written

\* One turn of the loop.
EncryptUpdate ==
  LET written == Whole(held + write_this_turn)
      offset  == input_offset + write_this_turn
  IN  /\ cipher_pc = "update"
      /\ reach' = Farthest(ol + written)
      /\ ol' = Advanced(written)
      /\ held' = (held + write_this_turn) % BLOCK_SIZE
      /\ input_offset' = offset
      /\ write_this_turn' = NextTurn(offset, plain)
      /\ cipher_pc' = IF offset >= plain THEN "final" ELSE "update"
      /\ UNCHANGED <<plain, cipher, source, room, returned>>

\* EVP_EncryptFinal pads the last block.
EncryptFinal ==
  /\ cipher_pc = "final"
  /\ reach' = Farthest(ol + BLOCK_SIZE)
  /\ ol' = Advanced(BLOCK_SIZE)
  /\ held' = 0
  /\ cipher' = ol'
  /\ Return("true")
  /\ UNCHANGED <<plain, source, input_offset, write_this_turn, room>>

\* decrypt() of what encrypt() returned, or of some other string.
StartDecrypt ==
  /\ cipher_pc = "idle"
  /\ \/ source >= 0 /\ UNCHANGED <<cipher, source>>
     \/ cipher' \in ForeignLengths /\ source' = -1
  /\ input_offset' = 0 /\ ol' = 0 /\ held' = 0 /\ reach' = 0
  /\ write_this_turn' = 0
  /\ IF cipher' = 0
     THEN plain' = 0 /\ Return("true")
     ELSE plain' = PlainBuffer(cipher') /\ cipher_pc' = "decrypt" /\ UNCHANGED returned
  /\ room' = plain'

\* EVP_DecryptUpdate puts out all whole blocks, then takes the last one back
\* when the input ends with it.
DecryptOutput == IF cipher % BLOCK_SIZE = 0 THEN cipher - BLOCK_SIZE ELSE Whole(cipher)

\* do_decrypt() takes an empty output for "no cipher data".
DecryptUpdate ==
  /\ cipher_pc = "decrypt"
  /\ reach' = Farthest(Whole(cipher))
  /\ ol' = DecryptOutput
  /\ held' = cipher - DecryptOutput
  /\ IF ol' = 0
     THEN plain' = 0 /\ Return("true")
     ELSE cipher_pc' = "decrypt_final" /\ UNCHANGED <<plain, returned>>
  /\ UNCHANGED <<cipher, source, input_offset, write_this_turn, room>>

\* The number of padding bytes in the block held back.
Padding == IF source >= 0 THEN {BLOCK_SIZE - (source % BLOCK_SIZE)} ELSE 1 .. BLOCK_SIZE

DecryptFinal ==
  /\ cipher_pc = "decrypt_final"
  /\ held = BLOCK_SIZE
  /\ \E k \in Padding :
       /\ ol' = Advanced(BLOCK_SIZE - k)
       /\ reach' = Farthest(ol + BLOCK_SIZE - k)
  /\ plain' = ol'
  /\ held' = 0
  /\ Return("true")
  /\ UNCHANGED <<cipher, source, input_offset, write_this_turn, room>>

\* A string that does not end with a block, or with padding.
DecryptFinalFails ==
  /\ cipher_pc = "decrypt_final"
  /\ held # BLOCK_SIZE \/ source < 0
  /\ Return("false")
  /\ UNCHANGED <<plain, cipher, source, input_offset, ol, write_this_turn, held, room, reach>>

\* Any other failure of the EVP layer: the output string stays as sized.
EvpFails ==
  /\ cipher_pc \in {"update", "final", "decrypt"}
  /\ Return("false")
  /\ source' = -1
  /\ UNCHANGED <<plain, cipher, input_offset, ol, write_this_turn, held, room, reach>>

CipherContinue ==
  \/ EncryptUpdate \/ EncryptFinal \/ DecryptUpdate \/ DecryptFinal \/ DecryptFinalFails

CipherNext == Refuse \/ StartDecrypt \/ EvpFails \/ CipherContinue \/ \E n \in Lengths : StartEncrypt(n)

\* A call that was entered runs on.
CipherSpec == CipherInit /\ [][CipherNext]_cipher_vars /\ WF_cipher_vars(CipherContinue)

-----------------------------------------------------------------------------
(* Properties.                                                             *)

\* Every variable has its type; no subtraction of size_t or int went below 0.
CipherTypeOK ==
  /\ cipher_pc \in {"idle", "update", "final", "decrypt", "decrypt_final"}
  /\ plain \in Nat /\ cipher \in Nat /\ source \in Nat \cup {-1}
  /\ input_offset \in Nat /\ ol \in Nat /\ write_this_turn \in Nat
  /\ held \in 0 .. BLOCK_SIZE + BLOCK_SIZE - 1 /\ room \in Nat /\ reach \in Nat
  /\ returned \in {"none", "true", "false"}

\* No turn of the loop reads behind the end of the text, and the test for it
\* (crypto.cc: "Fatal Error(input_offset > plain_in.length())") never fires.
ReadsWithinText ==
  /\ cipher_pc = "update" => input_offset + write_this_turn <= plain
  /\ cipher_pc = "final" => input_offset = plain

\* Nothing is written behind the end of a string sized before the loop: the
\* offsets that add up over the pieces never come too far.
WritesWithinBuffer == reach <= room

\* Pieces of 100 bytes, blocks of 16 and what is held back between two calls
\* never lead outside the two strings.
StaysInStrings == ReadsWithinText /\ WritesWithinBuffer

\* An encryption that ends well holds all of the text: whole blocks, with at
\* least one byte of padding.
CipherComplete ==
  cipher_pc = "idle" /\ source > 0 => cipher = Whole(source) + BLOCK_SIZE

\* decrypt() of encrypt()'s output has the length of the text again; but a
\* text of less than one block comes back empty.
SameLength ==
  cipher_pc = "idle" /\ source >= 0 =>
    plain = source \/ (plain = 0 /\ source < BLOCK_SIZE)

\* No byte of the text is lost on the way to the ciphertext and back.
LengthsAreRight == CipherComplete /\ SameLength

\* Every call comes to its end.
CallsReturn == cipher_pc # "idle" ~> cipher_pc = "idle"
=============================================================================
