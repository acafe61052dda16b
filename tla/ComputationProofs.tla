--------------------------- MODULE ComputationProofs ---------------------------
(***************************************************************************)
(* What libaan computes in memory: keys of any length, HMACs of any        *)
(* pieces, texts from any set, tokens of any string, words and bit vectors *)
(* of any width.                                                           *)
(***************************************************************************)
EXTENDS MCComputations, SuffixSearchProofs

-----------------------------------------------------------------------------
(* Cipher streams: the pieces of 100 bytes and the blocks of 16 never come *)
(* apart, for texts of every length.                                       *)

\* In the loop: what was read is what was put out and what is held, and at
\* least one more byte is to be read.
InLoop ==
  /\ source = plain /\ cipher = plain + BLOCK_SIZE /\ room = cipher /\ reach <= plain
  /\ ol = Whole(input_offset) /\ held = input_offset % BLOCK_SIZE

LoopInv ==
  /\ cipher_pc = "update" => /\ InLoop
                      /\ write_this_turn > 0 /\ input_offset + write_this_turn <= plain
  /\ cipher_pc = "final" => InLoop /\ input_offset = plain /\ plain > 0

\* Outside encrypt(): the ciphertext belongs to its source.
OwnCipher ==
  cipher_pc \in {"idle", "decrypt", "decrypt_final"} /\ source >= 0 =>
    cipher = IF source = 0 THEN 0 ELSE Whole(source) + BLOCK_SIZE

DecryptInv ==
  /\ cipher_pc \in {"decrypt", "decrypt_final"} =>
       cipher > 0 /\ plain = PlainBuffer(cipher) /\ room = plain /\ reach <= cipher
  /\ cipher_pc = "decrypt_final" =>
       ol = DecryptOutput /\ ol > 0 /\ ol <= cipher /\ held = cipher - ol

CipherInv ==
  CipherTypeOK /\ LoopInv /\ OwnCipher /\ DecryptInv /\ WritesWithinBuffer /\ SameLength

-----------------------------------------------------------------------------
\* Whole blocks of k bytes are at most k bytes, and fewer than 16 are left.
LEMMA WholeBlocks ==
  ASSUME NEW k \in Nat
  PROVE  /\ Whole(k) \in Nat /\ Whole(k) <= k /\ k < Whole(k) + BLOCK_SIZE
         /\ Whole(k) % BLOCK_SIZE = 0 /\ k % BLOCK_SIZE = k - Whole(k)
         /\ k % BLOCK_SIZE \in 0 .. BLOCK_SIZE - 1
  BY DEF Whole, BLOCK_SIZE

\* A context that held the rest of o bytes and takes m more puts out the
\* whole blocks that o + m bytes have and o bytes had not.
LEMMA PiecesAddUp ==
  ASSUME NEW o \in Nat, NEW m \in Nat
  PROVE  /\ Whole(o) + Whole((o % BLOCK_SIZE) + m) = Whole(o + m)
         /\ ((o % BLOCK_SIZE) + m) % BLOCK_SIZE = (o + m) % BLOCK_SIZE
  BY DEF Whole, BLOCK_SIZE

\* The next piece ends within the text, and is empty only at its end.
LEMMA NextTurnFits ==
  ASSUME NEW k \in Nat, NEW start \in 0 .. k
  PROVE  /\ NextTurn(start, k) \in Nat /\ start + NextTurn(start, k) <= k
         /\ start < k => NextTurn(start, k) > 0
  BY DEF NextTurn, BytesPerLoop

LEMMA CipherStarts == CipherInit => CipherInv
  BY DEF CipherInit, CipherInv, CipherTypeOK, LoopInv, OwnCipher, DecryptInv, WritesWithinBuffer, SameLength, BLOCK_SIZE

LEMMA CipherSteps ==
  ASSUME CipherInv, [CipherNext]_cipher_vars
  PROVE  CipherInv'
<1>. USE DEF CipherInv, LoopInv, InLoop, OwnCipher, DecryptInv, WritesWithinBuffer, SameLength
<1>a. Lengths \subseteq Nat /\ ForeignLengths \subseteq Nat
  BY LengthsAssumption DEF LengthsAssumption
<1>1. CASE UNCHANGED cipher_vars
  BY <1>1 DEF cipher_vars, CipherTypeOK, DecryptOutput
<1>2. CASE Refuse
  BY <1>2 DEF Refuse, Return, CipherTypeOK
<1>3. ASSUME NEW k \in Lengths, StartEncrypt(k)
      PROVE  CipherInv'
  <2>1. k \in Nat
    BY <1>a
  <2>2. CASE k = 0
    BY <1>3, <2>2 DEF StartEncrypt, Return, CipherTypeOK, BLOCK_SIZE
  <2>3. CASE k > 0
    <3>1. Whole(0) = 0 /\ 0 % BLOCK_SIZE = 0
      BY DEF Whole, BLOCK_SIZE
    <3>2. BytesPerLoop(k) \in 1 .. k
      BY <2>1, <2>3 DEF BytesPerLoop
    <3>. QED
      BY <1>3, <2>1, <2>3, <3>1, <3>2 DEF StartEncrypt, CipherBuffer, CipherTypeOK, BLOCK_SIZE
  <2>. QED
    BY <2>1, <2>2, <2>3
<1>4. CASE EncryptUpdate
  <2>. DEFINE start == input_offset + write_this_turn
  <2>1. start \in 0 .. plain /\ start > 0 /\ plain \in Nat
    BY <1>4 DEF EncryptUpdate, CipherTypeOK
  <2>2. /\ ol' = Whole(start) /\ held' = start % BLOCK_SIZE
        /\ reach' = Farthest(Whole(start))
    <3>1. /\ ol = Whole(input_offset) /\ held = input_offset % BLOCK_SIZE
          /\ input_offset \in Nat /\ write_this_turn \in Nat
      BY <1>4 DEF EncryptUpdate, CipherTypeOK
    <3>2. /\ Whole(input_offset) + Whole(held + write_this_turn) = Whole(start)
          /\ (held + write_this_turn) % BLOCK_SIZE = start % BLOCK_SIZE
      BY <3>1, PiecesAddUp
    <3>. QED
      BY <1>4, <3>1, <3>2 DEF EncryptUpdate, Advanced
  <2>3. reach' <= plain /\ reach' \in Nat
    <3>1. Whole(start) \in Nat /\ Whole(start) <= plain
      BY <2>1, WholeBlocks
    <3>2. reach \in Nat /\ reach <= plain
      BY <1>4 DEF EncryptUpdate, CipherTypeOK
    <3>. QED
      BY <2>2, <3>1, <3>2 DEF Farthest
  <2>4. /\ input_offset' = start /\ write_this_turn' = NextTurn(start, plain)
        /\ cipher_pc' = IF start >= plain THEN "final" ELSE "update"
        /\ UNCHANGED <<plain, cipher, source, room, returned>>
    BY <1>4 DEF EncryptUpdate
  <2>5. InLoop'
    BY <1>4, <2>2, <2>3, <2>4 DEF EncryptUpdate
  <2>. HIDE DEF start
  <2>6. LoopInv' /\ reach' <= room'
    <3>1. room = plain + BLOCK_SIZE
      BY <1>4 DEF EncryptUpdate
    <3>2. /\ start + NextTurn(start, plain) <= plain
          /\ start < plain => NextTurn(start, plain) > 0
      BY <2>1, NextTurnFits
    <3>. QED
      BY <2>1, <2>3, <2>4, <2>5, <3>1, <3>2 DEF BLOCK_SIZE
  <2>7. CipherTypeOK'
    BY <2>1, <2>2, <2>3, <2>4, NextTurnFits, WholeBlocks DEF CipherTypeOK, BLOCK_SIZE
  <2>. QED
    BY <2>4, <2>6, <2>7
<1>5. CASE EncryptFinal
  <2>1. /\ ol' = Whole(plain) + BLOCK_SIZE /\ reach' = Farthest(Whole(plain) + BLOCK_SIZE)
        /\ cipher' = ol' /\ source = plain /\ plain \in Nat /\ plain > 0
        /\ room = plain + BLOCK_SIZE /\ reach <= plain
    BY <1>5 DEF EncryptFinal, Advanced, CipherTypeOK
  <2>2. Whole(plain) \in Nat /\ Whole(plain) <= plain
    BY <2>1, WholeBlocks
  <2>3. CipherTypeOK' /\ reach' <= room'
    BY <1>5, <2>1, <2>2 DEF EncryptFinal, Return, Farthest, CipherTypeOK, BLOCK_SIZE
  <2>. QED
    BY <1>5, <2>1, <2>2, <2>3 DEF EncryptFinal, Return
<1>6. CASE StartDecrypt
  <2>1. cipher' \in Nat /\ source' \in Nat \cup {-1}
    BY <1>6, <1>a DEF StartDecrypt, CipherTypeOK
  <2>2. CipherTypeOK'
    BY <1>6, <2>1 DEF StartDecrypt, Return, PlainBuffer, CipherTypeOK, BLOCK_SIZE
  <2>3. cipher_pc = "idle" /\ cipher_pc' \in {"idle", "decrypt"}
    BY <1>6 DEF StartDecrypt, Return
  <2>4. OwnCipher'
    BY <1>6, <2>3 DEF StartDecrypt
  <2>5. DecryptInv' /\ WritesWithinBuffer'
    BY <1>6, <2>1, <2>3 DEF StartDecrypt, PlainBuffer, Return, BLOCK_SIZE
  <2>6. SameLength'
    <3>1. ASSUME cipher_pc' = "idle"
          PROVE  cipher' = 0 /\ plain' = 0
      BY <1>6, <3>1 DEF StartDecrypt, Return
    <3>2. ASSUME cipher' = 0, source' >= 0
          PROVE  source' = 0
      BY <2>1, <2>3, <2>4, <3>2, WholeBlocks DEF BLOCK_SIZE
    <3>. QED
      BY <3>1, <3>2 DEF BLOCK_SIZE
  <2>. QED
    BY <2>2, <2>3, <2>4, <2>5, <2>6
<1>b. ASSUME cipher_pc \in {"decrypt", "decrypt_final"}
      PROVE  /\ DecryptOutput \in Nat /\ DecryptOutput <= cipher
             /\ cipher - DecryptOutput \in 1 .. BLOCK_SIZE
             /\ source >= 0 => DecryptOutput = Whole(source) /\ cipher = Whole(source) + BLOCK_SIZE
  <2>1. cipher \in Nat /\ cipher > 0 /\ source \in Nat \cup {-1}
    BY <1>b DEF CipherTypeOK
  <2>2. source >= 0 => cipher = Whole(source) + BLOCK_SIZE
    BY <1>b, <2>1
  <2>. QED
    BY <2>1, <2>2 DEF DecryptOutput, Whole, BLOCK_SIZE
<1>7. CASE DecryptUpdate
  <2>1. /\ cipher_pc = "decrypt" /\ ol' = DecryptOutput /\ held' = cipher - DecryptOutput
        /\ reach' = Farthest(Whole(cipher))
        /\ UNCHANGED <<cipher, source, input_offset, write_this_turn, room>>
    BY <1>7 DEF DecryptUpdate
  <2>2. reach' \in Nat /\ reach' <= cipher
    BY <2>1, WholeBlocks DEF Farthest, CipherTypeOK
  <2>3. CipherTypeOK'
    BY <1>7, <1>b, <2>1, <2>2 DEF DecryptUpdate, Return, CipherTypeOK, BLOCK_SIZE
  <2>4. /\ \/ ol' = 0 /\ cipher_pc' = "idle" /\ plain' = 0
           \/ ol' # 0 /\ cipher_pc' = "decrypt_final" /\ plain' = plain
    BY <1>7 DEF DecryptUpdate, Return
  <2>5. SameLength'
    <3>1. ASSUME source >= 0, DecryptOutput = 0
          PROVE  source < BLOCK_SIZE
      BY <1>b, <2>1, <3>1, WholeBlocks DEF CipherTypeOK, BLOCK_SIZE
    <3>. QED
      BY <2>1, <2>4, <3>1
  <2>6. DecryptInv' /\ reach' <= room'
    BY <1>b, <2>1, <2>2, <2>4 DEF DecryptOutput, PlainBuffer, CipherTypeOK, BLOCK_SIZE
  <2>. QED
    BY <2>1, <2>3, <2>4, <2>5, <2>6
<1>8. CASE DecryptFinal
  <2>1. PICK k \in Padding : ol' = ol + BLOCK_SIZE - k /\ reach' = Farthest(ol + BLOCK_SIZE - k)
    BY <1>8 DEF DecryptFinal, Advanced, CipherTypeOK, Padding, BLOCK_SIZE
  <2>2. k \in 1 .. BLOCK_SIZE
    BY DEF Padding, CipherTypeOK, BLOCK_SIZE
  <2>3. /\ cipher_pc = "decrypt_final" /\ cipher_pc' = "idle" /\ plain' = ol' /\ held' = 0
        /\ UNCHANGED <<cipher, source, input_offset, write_this_turn, room>>
    BY <1>8 DEF DecryptFinal, Return
  <2>4. ol' \in Nat /\ reach' \in Nat /\ reach' <= room'
    BY <2>1, <2>2, <2>3 DEF Farthest, PlainBuffer, CipherTypeOK, BLOCK_SIZE
  <2>5. CipherTypeOK'
    BY <1>8, <2>3, <2>4 DEF DecryptFinal, Return, CipherTypeOK, BLOCK_SIZE
  <2>6. SameLength'
    BY <1>b, <2>1, <2>3 DEF Padding, Whole, CipherTypeOK, BLOCK_SIZE
  <2>. QED
    BY <2>3, <2>4, <2>5, <2>6
<1>9. CASE DecryptFinalFails
  <2>1. cipher_pc = "decrypt_final" /\ cipher_pc' = "idle" /\ UNCHANGED <<plain, cipher, source, room, reach>>
    BY <1>9 DEF DecryptFinalFails, Return
  <2>2. source < 0
    BY <1>9, <1>b DEF DecryptFinalFails, CipherTypeOK, BLOCK_SIZE
  <2>3. CipherTypeOK'
    BY <1>9 DEF DecryptFinalFails, Return, CipherTypeOK
  <2>. QED
    BY <2>1, <2>2, <2>3 DEF CipherTypeOK
<1>10. CASE EvpFails
  BY <1>10 DEF EvpFails, Return, CipherTypeOK
<1>. QED
  BY <1>1, <1>2, <1>3, <1>4, <1>5, <1>6, <1>7, <1>8, <1>9, <1>10 DEF CipherNext, CipherContinue

LEMMA CipherInvHolds == CipherSpec => []CipherInv
  BY CipherStarts, CipherSteps, PTL DEF CipherSpec

\* What the invariant says of the properties.
LEMMA CipherInvGives ==
  ASSUME CipherInv
  PROVE  StaysInStrings /\ LengthsAreRight
<1>1. ReadsWithinText /\ WritesWithinBuffer
  BY DEF CipherInv, LoopInv, ReadsWithinText
<1>2. LengthsAreRight
  BY DEF CipherInv, OwnCipher, CipherComplete, CipherTypeOK, LengthsAreRight
<1>. QED
  BY <1>1, <1>2 DEF StaysInStrings

\* For texts of every length: no piece is read from behind the text's end, and
\* nothing is written behind the end of the output string (the loop of
\* do_encrypt and both calls of do_decrypt), ...
THEOREM NoOverrun == CipherSpec => []StaysInStrings
<1>1. CipherInv => StaysInStrings
  BY CipherInvGives
<1>. QED
  BY <1>1, CipherInvHolds, PTL

\* ... and decrypting gives the length back, except to texts of 1 to 15 bytes.
THEOREM LengthsReturn == CipherSpec => []LengthsAreRight
<1>1. CipherInv => LengthsAreRight
  BY CipherInvGives
<1>. QED
  BY <1>1, CipherInvHolds, PTL

-----------------------------------------------------------------------------
(* Keys: what pbkdf2() makes of any iteration count and length.            *)

KTypes ==
  /\ kd_pc \in {"idle", "block", "chain"}
  /\ ic \in Nat /\ key_length \in Nat /\ block \in Nat /\ turn \in Nat
  /\ block > 0 \/ kd_pc = "idle"
  /\ kd_pc = "chain" => turn > 0 /\ turn <= ic + 1

\* Bytes of the key that are written before the block in hand.
Written == IF block <= FullBlocks + 1 THEN Offset ELSE key_length

KeyPart(k) ==
  [j \in 0 .. k - 1 |->
     [block |-> (j \div PrfLength) + 1, rounds |-> 1 .. ic + 1, byte |-> j % PrfLength]]

\* The block in hand is one of those the key has.
BlockInKey ==
  /\ kd_pc = "chain" => MoreBlocks
  /\ kd_pc = "block" => block <= FullBlocks + 1 \/ (block = FullBlocks + 2 /\ Rest # 0)

KeySoFar == kd_pc # "idle" /\ ~unnoticed => key = KeyPart(Written)

\* Inside the loop the XOR holds each round so far once, unless an HMAC failed.
ChainIsWhole ==
  kd_pc = "chain" /\ ~unnoticed => out = 1 .. turn - 1 /\ ulast = turn

KInv == KTypes /\ BlockInKey /\ ChainIsWhole /\ KeySoFar /\ KeyIsComplete

-----------------------------------------------------------------------------
\* A byte of block b is found there again by division.
LEMMA PlaceOfByte ==
  ASSUME NEW L \in Nat, L > 0, NEW b \in Nat, NEW j \in Nat,
         b * L <= j, j < b * L + L
  PROVE  j \div L = b /\ j % L = j - b * L
<1> DEFINE q == j \div L
           r == j % L
<1>1. q \in Int /\ r \in Int /\ j = L * q + r /\ 0 <= r /\ r < L OBVIOUS
<1>2. q <= b
  <2> SUFFICES ASSUME q >= b + 1 PROVE FALSE BY <1>1
  <2>1. L * q >= L * (b + 1) BY <1>1
  <2> QED BY <1>1, <2>1
<1>3. q >= b
  <2> SUFFICES ASSUME q <= b - 1 PROVE FALSE BY <1>1
  <2>1. L * q <= L * (b - 1) BY <1>1
  <2> QED BY <1>1, <2>1
<1> QED BY <1>1, <1>2, <1>3

\* The whole blocks and the rest make up the key.
LEMMA BlocksMakeKey ==
  ASSUME key_length \in Nat
  PROVE  /\ FullBlocks \in Nat /\ Rest \in Nat /\ Rest < PrfLength
         /\ key_length = FullBlocks * PrfLength + Rest
  BY KeyAssumption DEF KeyAssumption, FullBlocks, Rest

\* One round more: its output goes into the XOR, where it was not before.
LEMMA RoundGoesIn ==
  ASSUME NEW t \in Nat, t > 0
  PROVE  Xored(1 .. t - 1, t) = 1 .. t
<1>1. t \notin 1 .. t - 1 OBVIOUS
<1>2. Xored(1 .. t - 1, t) = (1 .. t - 1) \cup {t} BY <1>1 DEF Xored
<1>3. (1 .. t - 1) \cup {t} = 1 .. t OBVIOUS
<1> QED BY <1>2, <1>3

LEMMA KeyStarts ==
  ASSUME KeyInit
  PROVE  KInv
<1>1. KTypes BY DEF KeyInit, KTypes
<1>2. BlockInKey /\ ChainIsWhole /\ KeySoFar /\ KeyIsComplete
  BY DEF KeyInit, BlockInKey, ChainIsWhole, KeySoFar, KeyIsComplete, Succeeded
<1> QED BY <1>1, <1>2 DEF KInv

LEMMA DeriveStarts ==
  ASSUME KInv, NEW c \in Counts, NEW k \in KeyLengths, Derive(c, k)
  PROVE  KInv'
<1>1. c \in Nat /\ k \in Nat BY KeyAssumption DEF KeyAssumption
<1>2. kd_pc' # "chain" /\ kd_pc' \in {"idle", "block"} BY DEF Derive
<1>3. KTypes' BY <1>1, <1>2 DEF Derive, KTypes
<1>4. FullBlocks' \in Nat
  BY <1>1, KeyAssumption DEF KeyAssumption, FullBlocks, Derive
<1>0. block' = 1 BY DEF Derive
<1>5. BlockInKey'
  <2>1. block' <= FullBlocks' + 1 BY <1>0, <1>4 DEF FullBlocks
  <2> QED BY <1>2, <2>1 DEF BlockInKey
<1>6. ChainIsWhole' BY <1>2 DEF ChainIsWhole
<1>7. KeySoFar'
  <2>1. Offset' = 0 BY KeyAssumption DEF KeyAssumption, Offset, Derive
  <2>2. block' <= FullBlocks' + 1 BY <1>0, <1>4 DEF FullBlocks
  <2>3. Written' = 0 BY <2>1, <2>2 DEF Written
  <2>4. key' = KeyPart(Written)' BY <2>3 DEF KeyPart, Derive
  <2> QED BY <2>4 DEF KeySoFar
<1>8. KeyIsComplete' BY DEF KeyIsComplete, Succeeded, Derive
<1> QED BY <1>3, <1>5, <1>6, <1>7, <1>8 DEF KInv

LEMMA BlockStarts ==
  ASSUME KInv, StartBlock
  PROVE  KInv'
<1>1. KTypes' BY DEF KInv, KTypes, StartBlock
<1>2. BlockInKey' BY DEF StartBlock, BlockInKey, MoreBlocks, FullBlocks, Rest
<1>3. ChainIsWhole' BY DEF StartBlock, ChainIsWhole
<1>4. KeySoFar'
  BY DEF KInv, StartBlock, KeySoFar, KeyPart, Written, FullBlocks, Offset
<1>5. KeyIsComplete' BY DEF StartBlock, KeyIsComplete, Succeeded
<1> QED BY <1>1, <1>2, <1>3, <1>4, <1>5 DEF KInv

LEMMA ChainGoesOn ==
  ASSUME KInv, Chain
  PROVE  KInv'
<1>1. KTypes' BY DEF KInv, KTypes, Chain
<1>2. BlockInKey' BY DEF KInv, Chain, BlockInKey, MoreBlocks, FullBlocks, Rest
<1>3. ChainIsWhole'
  <2> SUFFICES ASSUME ~unnoticed' PROVE out' = 1 .. turn' - 1 /\ ulast' = turn'
    BY DEF ChainIsWhole
  <2>1. ~unnoticed /\ ulast' = (IF ulast = 0 THEN 0 ELSE ulast + 1) BY DEF Chain
  <2>2. out = 1 .. turn - 1 /\ ulast = turn /\ turn \in Nat /\ turn > 0
    BY <2>1 DEF KInv, KTypes, ChainIsWhole, Chain
  <2>3. out' = 1 .. turn BY <2>2, RoundGoesIn DEF Chain
  <2> QED BY <2>1, <2>2, <2>3 DEF Chain
<1>4. KeySoFar'
  BY DEF KInv, Chain, KeySoFar, KeyPart, Written, FullBlocks, Offset
<1>5. KeyIsComplete' BY DEF Chain, KeyIsComplete, Succeeded
<1> QED BY <1>1, <1>2, <1>3, <1>4, <1>5 DEF KInv

\* A block or a rest goes behind what is written, with all rounds in every byte.
LEMMA BlockIsWritten ==
  ASSUME KInv, LastXor, ~unnoticed
  PROVE  key' = KeyPart(Written)'
<1>1. /\ block \in Nat /\ block > 0 /\ ic \in Nat /\ key_length \in Nat
      /\ turn = ic + 1 /\ MoreBlocks
  BY DEF KInv, KTypes, BlockInKey, LastXor
<1>2. PrfLength \in Nat /\ PrfLength > 0 BY KeyAssumption DEF KeyAssumption
<1>3. /\ FullBlocks \in Nat /\ Rest \in Nat /\ Rest < PrfLength
      /\ key_length = FullBlocks * PrfLength + Rest
  BY <1>1, BlocksMakeKey
<1>4. out' = 1 .. ic + 1
  <2>1. out = 1 .. turn - 1 /\ ulast = turn BY DEF KInv, ChainIsWhole, LastXor
  <2> QED BY <1>1, <2>1, RoundGoesIn DEF LastXor
<1>5. Offset \in Nat BY <1>1, <1>2 DEF Offset
<1>5a. Offset = (block - 1) * PrfLength BY DEF Offset
<1>6. Written = Offset BY <1>1, <1>3 DEF Written, MoreBlocks
<1>7. BlockBytes \in Nat /\ BlockBytes <= PrfLength BY <1>2, <1>3 DEF BlockBytes
<1>8. Written' = Offset + BlockBytes
  <2>1. FullBlocks' = FullBlocks /\ block' = block + 1 /\ key_length' = key_length
    BY DEF LastXor, FullBlocks
  <2>2. CASE block <= FullBlocks
    <3>1. Offset' = block * PrfLength BY <1>1, <2>1 DEF Offset
    <3>2. block * PrfLength = (block - 1) * PrfLength + PrfLength BY <1>1, <1>2
    <3> QED BY <1>1, <1>3, <1>5a, <2>1, <2>2, <3>1, <3>2 DEF Written, BlockBytes
  <2>3. CASE block = FullBlocks + 1
    <3>1. (block - 1) * PrfLength = FullBlocks * PrfLength BY <1>1, <1>3, <2>3
    <3> QED BY <1>1, <1>3, <1>5a, <2>1, <2>3, <3>1 DEF Written, BlockBytes
  <2> QED BY <1>1, <2>2, <2>3 DEF MoreBlocks
<1>9. key = KeyPart(Offset) BY <1>6 DEF KInv, KeySoFar, LastXor
<1>10. DOMAIN key = 0 .. Offset - 1 BY <1>9 DEF KeyPart
<1>11. DOMAIN key \cup (Offset .. Offset + BlockBytes - 1) = 0 .. (Offset + BlockBytes) - 1
  BY <1>5, <1>7, <1>10
<1>12. key' = [j \in 0 .. (Offset + BlockBytes) - 1 |->
                 IF j < Offset THEN key[j]
                 ELSE [block |-> block, rounds |-> 1 .. ic + 1, byte |-> j - Offset]]
  BY <1>4, <1>11 DEF LastXor
<1>13. ASSUME NEW j \in 0 .. (Offset + BlockBytes) - 1
       PROVE  key'[j] = [block |-> (j \div PrfLength) + 1, rounds |-> 1 .. ic + 1,
                         byte |-> j % PrfLength]
  <2>1. CASE j < Offset
    <3>1. j \in 0 .. Offset - 1 BY <1>5, <2>1
    <3>2. key'[j] = key[j] BY <1>12, <2>1
    <3> QED BY <1>9, <3>1, <3>2 DEF KeyPart
  <2>2. CASE ~(j < Offset)
    <3>1. j \in Nat /\ Offset <= j /\ j < Offset + PrfLength
      BY <1>2, <1>5, <1>7, <2>2
    <3>2. block - 1 \in Nat BY <1>1
    <3>3. j \div PrfLength = block - 1 /\ j % PrfLength = j - Offset
      BY <1>2, <1>5a, <3>1, <3>2, PlaceOfByte
    <3> QED BY <1>1, <1>12, <2>2, <3>3
  <2> QED BY <2>1, <2>2
<1>14. KeyPart(Written)' = [j \in 0 .. (Offset + BlockBytes) - 1 |->
         [block |-> (j \div PrfLength) + 1, rounds |-> 1 .. ic + 1, byte |-> j % PrfLength]]
  <2>1. ic' = ic BY DEF LastXor
  <2> QED BY <1>8, <2>1, Zenon DEF KeyPart
<1> QED BY <1>12, <1>13, <1>14

LEMMA BlockEnds ==
  ASSUME KInv, LastXor
  PROVE  KInv'
<1>1. KTypes' BY DEF KInv, KTypes, LastXor
<1>2. BlockInKey'
  <2>1. MoreBlocks BY DEF KInv, BlockInKey, LastXor
  <2>2. FullBlocks' = FullBlocks /\ Rest' = Rest /\ block' = block + 1 /\ kd_pc' = "block"
    BY DEF LastXor, FullBlocks, Rest
  <2>3. FullBlocks \in Nat /\ block \in Nat
    BY BlocksMakeKey DEF KInv, KTypes
  <2> QED BY <2>1, <2>2, <2>3 DEF BlockInKey, MoreBlocks
<1>3. ChainIsWhole' /\ KeyIsComplete'
  BY DEF LastXor, ChainIsWhole, KeyIsComplete, Succeeded
<1>4. KeySoFar' BY BlockIsWritten DEF KeySoFar, LastXor
<1> QED BY <1>1, <1>2, <1>3, <1>4 DEF KInv

LEMMA ReturnIsComplete ==
  ASSUME KInv, KeyReturns
  PROVE  KInv'
<1>1. KTypes' BY DEF KInv, KTypes, KeyReturns
<1>2. BlockInKey' /\ ChainIsWhole' /\ KeySoFar'
  BY DEF KeyReturns, BlockInKey, ChainIsWhole, KeySoFar
<1>3. KeyIsComplete'
  <2> SUFFICES ASSUME ~unnoticed PROVE key' = KeyOfRounds(ic + 1)'
    BY DEF KeyReturns, KeyIsComplete, Succeeded
  <2>1. key = KeyPart(Written) BY DEF KInv, KeySoFar, KeyReturns
  <2>2. /\ FullBlocks \in Nat /\ Rest \in Nat /\ block \in Nat /\ key_length \in Nat
        /\ key_length = FullBlocks * PrfLength + Rest
    BY BlocksMakeKey DEF KInv, KTypes
  <2>3. Written = key_length
    <3>1. CASE block = FullBlocks + 1 /\ Rest = 0
      <4>1. Offset = FullBlocks * PrfLength BY <2>2, <3>1 DEF Offset
      <4> QED BY <2>2, <3>1, <4>1 DEF Written
    <3>2. CASE block = FullBlocks + 2
      BY <2>2, <3>2 DEF Written
    <3> QED BY <2>2, <3>1, <3>2 DEF KInv, BlockInKey, KeyReturns, MoreBlocks
  <2> QED BY <2>1, <2>3 DEF KeyPart, KeyOfRounds, KeyReturns
<1> QED BY <1>1, <1>2, <1>3 DEF KInv

LEMMA KeyStutters ==
  ASSUME KInv, UNCHANGED kvars
  PROVE  KInv'
<1>1. KTypes' /\ BlockInKey'
  BY DEF KInv, kvars, KTypes, BlockInKey, MoreBlocks, FullBlocks, Rest
<1>2. ChainIsWhole' BY DEF KInv, kvars, ChainIsWhole
<1>3. KeySoFar' BY DEF KInv, kvars, KeySoFar, KeyPart, Written, FullBlocks, Offset
<1>4. KeyIsComplete' BY DEF KInv, kvars, KeyIsComplete, Succeeded, KeyOfRounds
<1> QED BY <1>1, <1>2, <1>3, <1>4 DEF KInv

\* What is written to the key has its type.
LEMMA KeyBytesTyped ==
  ASSUME KInv, KeyTypeOK, LastXor
  PROVE  KeyTypeOK'
<1> DEFINE ByteOfKey == [block : Nat, rounds : SUBSET Nat, byte : Nat]
<1>1. block \in Nat \ {0} /\ out \subseteq Nat /\ ulast \in Nat /\ turn \in Nat
  BY DEF KInv, KTypes, KeyTypeOK, LastXor
<1>2. Offset \in Nat
  <2>1. block - 1 \in Nat /\ PrfLength \in Nat
    BY <1>1, KeyAssumption DEF KeyAssumption
  <2> QED
    BY <2>1 DEF Offset
<1>3. BlockBytes \in Nat
  <2>1. Rest \in Nat
    BY BlocksMakeKey DEF KeyTypeOK
  <2> QED
    BY <2>1, KeyAssumption DEF KeyAssumption, BlockBytes
<1>4. out' \in SUBSET Nat
  BY <1>1 DEF LastXor, Xored
<1>5. DOMAIN key \in SUBSET Nat /\ \A j \in DOMAIN key : key[j] \in ByteOfKey
  BY DEF KeyTypeOK
<1> DEFINE D == DOMAIN key \cup (Offset .. Offset + BlockBytes - 1)
           byte_at(j) == IF j < Offset THEN key[j]
                         ELSE [block |-> block, rounds |-> out', byte |-> j - Offset]
<1>6. key' = [j \in D |-> byte_at(j)]
  BY DEF LastXor
<1>7. D \in SUBSET Nat
  BY <1>2, <1>3, <1>5
<1>8. ASSUME NEW j \in D PROVE byte_at(j) \in ByteOfKey
  <2>1. CASE j < Offset
    <3>1. j \in DOMAIN key
      BY <1>2, <1>3, <1>7, <2>1
    <3> QED
      BY <1>5, <2>1, <3>1
  <2>2. CASE ~(j < Offset)
    <3>1. j - Offset \in Nat
      BY <1>2, <1>7, <2>2
    <3> QED
      BY <1>1, <1>4, <2>2, <3>1
  <2> QED
    BY <2>1, <2>2
<1>9. DOMAIN key' = D /\ key' \in [D -> ByteOfKey]
  <2> HIDE DEF D, byte_at, ByteOfKey
  <2> QED
    BY <1>6, <1>8
<1>10. /\ kd_pc' = "block" /\ block' \in Nat /\ turn' \in Nat
       /\ UNCHANGED <<ic, key_length, ulast, derived, unnoticed>>
  BY <1>1 DEF LastXor
<1> HIDE DEF D
<1> QED
  BY <1>4, <1>7, <1>9, <1>10 DEF KeyTypeOK

LEMMA KeyTyped ==
  ASSUME KInv, KeyTypeOK, [KeyNext]_kvars
  PROVE  KeyTypeOK'
<1>1. ASSUME NEW c \in Counts, NEW k \in KeyLengths, Derive(c, k) PROVE KeyTypeOK'
  <2>1. c \in Nat /\ k \in Nat
    BY KeyAssumption DEF KeyAssumption
  <2>2. /\ ic' = c /\ key_length' = k /\ block' = 1 /\ turn' = 0 /\ out' = {}
        /\ ulast' = 0 /\ key' = [j \in {} |-> 0] /\ unnoticed' = FALSE
        /\ derived' \in {"none", "false"} /\ kd_pc' \in {"idle", "block"}
    BY <1>1 DEF Derive
  <2>3. DOMAIN key' = {}
    BY <2>2
  <2> QED
    BY <2>1, <2>2, <2>3 DEF KeyTypeOK
<1>2. CASE StartBlock
  <2>1. kd_pc' = "chain" /\ turn' = 1 /\ out' = {} /\ ulast' \in {0, 1}
    BY <1>2 DEF StartBlock
  <2>2. unnoticed' \in BOOLEAN
    BY <1>2, Zenon DEF StartBlock, KeyTypeOK
  <2> QED
    BY <1>2, <2>1, <2>2 DEF StartBlock, KeyTypeOK
<1>3. CASE Chain
  <2>1. out' \subseteq Nat
    BY <1>3 DEF Chain, KeyTypeOK, Xored
  <2>2. unnoticed' \in BOOLEAN
    BY <1>3, Zenon DEF Chain, KeyTypeOK
  <2>3. turn' \in Nat /\ ulast' \in Nat
    BY <1>3 DEF Chain, KeyTypeOK
  <2> QED
    BY <1>3, <2>1, <2>2, <2>3 DEF Chain, KeyTypeOK
<1>4. CASE LastXor
  BY <1>4, KeyBytesTyped
<1>5. CASE KeyReturns
  BY <1>5 DEF KeyReturns, KeyTypeOK
<1>6. CASE UNCHANGED kvars
  BY <1>6 DEF kvars, KeyTypeOK
<1> QED
  BY <1>1, <1>2, <1>3, <1>4, <1>5, <1>6 DEF KeyNext, KeyStep

LEMMA KeyTypesStart == KeyInit => KeyTypeOK
<1> SUFFICES ASSUME KeyInit PROVE KeyTypeOK
  OBVIOUS
<1>1. key = [j \in {} |-> 0] /\ DOMAIN key = {}
  BY DEF KeyInit
<1> QED
  BY <1>1 DEF KeyInit, KeyTypeOK

-----------------------------------------------------------------------------
LEMMA KInvHolds == KeySpec => []KInv
<1>1. KeyInit => KInv BY KeyStarts
<1>2. KInv /\ [KeyNext]_kvars => KInv'
  BY DeriveStarts, BlockStarts, ChainGoesOn, BlockEnds, ReturnIsComplete, KeyStutters
     DEF KeyNext, KeyStep
<1> QED BY <1>1, <1>2, PTL DEF KeySpec

\* Every byte of a key comes from its block, with every round once (pbkdf2 and
\* pkcs5_F): for every iteration count, length of key and length of the HMAC.
THEOREM KeysAreComplete == KeySpec => []KeyIsComplete
<1>1. KInv => KeyIsComplete BY DEF KInv
<1> QED BY <1>1, KInvHolds, PTL

-----------------------------------------------------------------------------
(* HMACs, whose objects share strings.                                     *)

\* An object that works never said false.
HmacInv ==
  /\ hmac_state \in [Hmacs -> {"none", "true", "false"}] /\ refused \in [Hmacs -> BOOLEAN]
  /\ refers_to \in [Hmacs -> Outputs] /\ DOMAIN strings = Outputs
  /\ \A o \in Hmacs : hmac_state[o] = "true" => ~refused[o]

LEMMA HmacStep ==
  ASSUME HmacInv, [HmacNext]_hvars
  PROVE  HmacInv'
<1>1. ASSUME NEW o \in Hmacs, NEW s \in Outputs, ConstructHmac(o, s) PROVE HmacInv'
  <2>1. PICK works \in {"true", "false"} :
          /\ hmac_state' = [hmac_state EXCEPT ![o] = works]
          /\ refused' = [refused EXCEPT ![o] = works = "false"]
    BY <1>1 DEF ConstructHmac
  <2>2. (works = "false") \in BOOLEAN /\ (works = "true" => ~(works = "false"))
    OBVIOUS
  <2>3. refused' \in [Hmacs -> BOOLEAN] /\ refused'[o] = (works = "false")
    BY <2>1, <2>2 DEF HmacInv
  <2>4. \A p \in Hmacs : p # o => refused'[p] = refused[p] /\ hmac_state'[p] = hmac_state[p]
    BY <2>1 DEF HmacInv
  <2>5. hmac_state' \in [Hmacs -> {"none", "true", "false"}] /\ hmac_state'[o] = works
    BY <2>1 DEF HmacInv
  <2>6. refers_to' \in [Hmacs -> Outputs] /\ DOMAIN strings' = Outputs
    BY <1>1 DEF HmacInv, ConstructHmac
  <2>7. hmac_state'[o] = "true" => ~refused'[o]
    BY <2>2, <2>3, <2>5, Zenon
  <2>8. \A p \in Hmacs : hmac_state'[p] = "true" => ~refused'[p]
    BY <2>4, <2>7, Zenon DEF HmacInv
  <2> QED
    BY <2>3, <2>5, <2>6, <2>8, Zenon DEF HmacInv
<1>2. ASSUME NEW o \in Hmacs, NEW piece \in {"a", "b"}, UpdateHmac(o, piece) PROVE HmacInv'
  BY <1>2 DEF HmacInv, UpdateHmac, Failed
<1>3. ASSUME NEW o \in Hmacs, DestroyHmac(o) PROVE HmacInv'
  BY <1>3 DEF HmacInv, DestroyHmac
<1>4. ASSUME NEW s \in Outputs, CallerWrites(s) PROVE HmacInv'
  BY <1>4 DEF HmacInv, CallerWrites
<1>5. CASE UNCHANGED hvars
  BY <1>5 DEF HmacInv, hvars
<1> QED
  BY <1>1, <1>2, <1>3, <1>4, <1>5 DEF HmacNext

\* Strings hold what objects and callers put there.
LEMMA HmacTyped ==
  ASSUME HmacInv, HmacTypeOK, [HmacNext]_hvars
  PROVE  HmacTypeOK'
<1>1. /\ hmac_state' \in [Hmacs -> {"none", "true", "false"}]
      /\ refused' \in [Hmacs -> BOOLEAN] /\ refers_to' \in [Hmacs -> Outputs]
  BY HmacStep, Zenon DEF HmacInv
<1>2. {Empty, Callers, Sized, Zeros} \subseteq Seq(Marks) /\ <<>> \in Seq(Marks)
  BY DEF Empty, Callers, Sized, Zeros, Marks
<1>3. ASSUME NEW o \in Hmacs PROVE Digest(offered[o]) \in Seq(Marks)
  <2>1. offered[o] \in Seq(Marks) /\ <<"digest">> \in Seq(Marks)
    BY DEF HmacTypeOK, Marks
  <2> QED
    BY <2>1 DEF Digest
<1>4. offered \in [Hmacs -> Seq(Marks)] /\ strings \in [Outputs -> Seq(Marks)]
  BY DEF HmacTypeOK
<1>5. offered' \in [Hmacs -> Seq(Marks)] /\ strings' \in [Outputs -> Seq(Marks)]
  <2>1. ASSUME NEW o \in Hmacs, NEW s \in Outputs, ConstructHmac(o, s)
        PROVE  offered' \in [Hmacs -> Seq(Marks)] /\ strings' \in [Outputs -> Seq(Marks)]
    BY <1>2, <1>4, <2>1, Zenon DEF ConstructHmac
  <2>2. ASSUME NEW o \in Hmacs, NEW piece \in {"a", "b"}, UpdateHmac(o, piece)
        PROVE  offered' \in [Hmacs -> Seq(Marks)] /\ strings' \in [Outputs -> Seq(Marks)]
    <3>1. piece \in Marks
      BY DEF Marks
    <3>2. Append(offered[o], piece) \in Seq(Marks)
      BY <1>4, <3>1
    <3> QED
      BY <1>4, <2>2, <3>2 DEF UpdateHmac
  <2>3. ASSUME NEW o \in Hmacs, DestroyHmac(o)
        PROVE  offered' \in [Hmacs -> Seq(Marks)] /\ strings' \in [Outputs -> Seq(Marks)]
    <3>1. PICK t \in Left(o) : strings' = [strings EXCEPT ![refers_to[o]] = t]
      BY <2>3 DEF DestroyHmac
    <3>2. t \in Seq(Marks)
      BY <1>2, <1>3, <3>1 DEF Left, Final
    <3> QED
      BY <1>4, <2>3, <3>1, <3>2 DEF DestroyHmac
  <2>4. ASSUME NEW s \in Outputs, CallerWrites(s)
        PROVE  offered' \in [Hmacs -> Seq(Marks)] /\ strings' \in [Outputs -> Seq(Marks)]
    BY <1>2, <1>4, <2>4 DEF CallerWrites
  <2>5. CASE UNCHANGED hvars
    BY <1>4, <2>5 DEF hvars
  <2> QED
    BY <2>1, <2>2, <2>3, <2>4, <2>5 DEF HmacNext
<1> QED
  BY <1>1, <1>5 DEF HmacTypeOK

LEMMA HmacTypesStart == HmacInit => HmacTypeOK
<1> SUFFICES ASSUME HmacInit PROVE HmacTypeOK
  OBVIOUS
<1>1. {Empty, Callers} \subseteq Seq(Marks) /\ <<>> \in Seq(Marks)
  BY DEF Empty, Callers, Marks
<1> QED
  BY <1>1 DEF HmacInit, HmacTypeOK

\* A step that ends an object leaves its HMAC, zeros or nothing.
LEMMA EndLeaves ==
  ASSUME HmacInv, [HmacNext]_hvars, NEW o \in Hmacs, Destroyed(o)
  PROVE  LET t == strings'[refers_to[o]]
         IN  \/ t = Empty
             \/ ~refused[o] /\ t = Digest(offered[o])
             \/ ~refused[o] /\ t = Zeros /\ strings[refers_to[o]] = Empty
<1>1. DestroyHmac(o)
  <2>1. ASSUME NEW p \in Hmacs, NEW s \in Outputs, ConstructHmac(p, s) PROVE FALSE
    BY <2>1 DEF HmacInv, ConstructHmac, Destroyed
  <2>2. ASSUME NEW p \in Hmacs, NEW piece \in {"a", "b"}, UpdateHmac(p, piece) PROVE FALSE
    BY <2>2 DEF HmacInv, UpdateHmac, Failed, Destroyed
  <2>3. ASSUME NEW p \in Hmacs, DestroyHmac(p) PROVE p = o
    BY <2>3 DEF HmacInv, DestroyHmac, Destroyed
  <2>4. ASSUME NEW s \in Outputs, CallerWrites(s) PROVE FALSE
    BY <2>4 DEF CallerWrites, Destroyed
  <2>5. ~UNCHANGED hvars
    BY DEF hvars, Destroyed
  <2> QED
    BY <2>1, <2>2, <2>3, <2>4, <2>5 DEF HmacNext
<1>2. PICK t \in Left(o) : strings' = [strings EXCEPT ![refers_to[o]] = t]
  BY <1>1 DEF DestroyHmac
<1>3. strings'[refers_to[o]] = t
  BY <1>2 DEF HmacInv
<1>4. CASE t = Empty
  BY <1>3, <1>4
<1>5. CASE hmac_state[o] = "true" /\ t = Final(o)
  <2>1. ~refused[o]
    BY <1>5 DEF HmacInv
  <2> QED
    BY <1>3, <1>5, <2>1 DEF Final
<1> QED
  BY <1>2, <1>4, <1>5 DEF Left

LEMMA HmacStarts == HmacInit => HmacInv
BY DEF HmacInit, HmacInv

LEMMA HmacInvHolds == HmacSpec => []HmacInv
BY HmacStarts, HmacStep, PTL DEF HmacSpec

\* An object leaves in its string the HMAC of all pieces it was offered, zeros in a
\* string that was empty, or nothing: no HMAC of some of them, whatever fails and
\* however objects share strings (the class hmac of crypto.hh).
THEOREM HmacsAreWhole == HmacSpec => AllOrNothing
<1>1. HmacInv /\ [HmacNext]_hvars =>
        [\A o \in Hmacs : Destroyed(o) =>
           LET t == strings'[refers_to[o]]
           IN  \/ t = Empty
               \/ ~refused[o] /\ t = Digest(offered[o])
               \/ ~refused[o] /\ t = Zeros /\ strings[refers_to[o]] = Empty]_hvars
  BY EndLeaves
<1> QED
  BY <1>1, HmacInvHolds, PTL DEF HmacSpec, AllOrNothing

-----------------------------------------------------------------------------
(* Bit vectors.                                                            *)

\* Each place in each word says of its bit what was asked for last.
WordsAgree ==
  \A i \in DOMAIN buff, b \in Ones :
    WordBits * i + b \in missed \/ (b \in buff[i] <=> WordBits * i + b \in expected)

BitsInv == BitTypeOK /\ WordsAgree

\* A bit's word and its place there, by division.
LEMMA PlaceOfBit ==
  ASSUME NEW i \in Nat, NEW b \in Ones
  PROVE  word_idx(WordBits * i + b) = <<i, b>>
<1>1. WordBits \in Nat /\ WordBits > 0 /\ b \in Nat /\ b < WordBits
  BY BitAssumption DEF BitAssumption, Ones
<1> DEFINE j == WordBits * i + b
<1>2. /\ j \in Nat /\ i * WordBits <= j /\ j < i * WordBits + WordBits
      /\ j - i * WordBits = b
  <2>1. i * WordBits = WordBits * i /\ WordBits * i \in Nat
    BY <1>1
  <2> QED
    BY <1>1, <2>1
<1>3. j \div WordBits = i /\ j % WordBits = b
  <2> HIDE DEF j
  <2> QED
    BY <1>1, <1>2, PlaceOfByte
<1> QED
  BY <1>3 DEF word_idx

\* There are words enough for what was asked for.
LEMMA WordsSuffice ==
  ASSUME asked_bits \in Nat, NEW bit \in 0 .. asked_bits - 1
  PROVE  \E i \in 0 .. u64_from_bitcount(asked_bits) - 1, b \in Ones : bit = WordBits * i + b
<1> DEFINE i == bit \div WordBits
           b == bit % WordBits
           q == asked_bits \div WordBits
           r == asked_bits % WordBits
<1>1. WordBits \in Nat /\ WordBits > 0
  BY BitAssumption DEF BitAssumption
<1>2. i \in Nat /\ b \in Nat /\ b < WordBits /\ bit = WordBits * i + b
  BY <1>1
<1>3. q \in Nat /\ r \in Nat /\ r < WordBits /\ asked_bits = WordBits * q + r
  BY <1>1
<1>4. u64_from_bitcount(asked_bits) = IF r = 0 THEN q ELSE q + 1
  BY DEF u64_from_bitcount
<1> HIDE DEF i, b, q, r
<1>5. i <= q
  <2> SUFFICES ASSUME i >= q + 1 PROVE FALSE
    BY <1>2, <1>3
  <2>1. WordBits * i >= WordBits * (q + 1) /\ WordBits * (q + 1) = WordBits * q + WordBits
    BY <1>1, <1>2, <1>3
  <2>2. WordBits * i \in Nat /\ WordBits * q \in Nat
    BY <1>1, <1>2, <1>3
  <2> QED
    BY <1>1, <1>2, <1>3, <2>1, <2>2
<1>6. r = 0 => i # q
  <2> SUFFICES ASSUME r = 0, i = q PROVE FALSE
    OBVIOUS
  <2>1. bit = WordBits * q + b /\ asked_bits = WordBits * q /\ WordBits * q \in Nat
    BY <1>1, <1>2, <1>3
  <2> QED
    BY <1>2, <2>1
<1>7. i \in 0 .. u64_from_bitcount(asked_bits) - 1
  BY <1>2, <1>3, <1>4, <1>5, <1>6
<1>8. b \in Ones
  BY <1>1, <1>2 DEF Ones
<1> QED
  BY <1>2, <1>7, <1>8

\* The bits that words agree on are those get() finds.
LEMMA AgreeingWordsAreKept ==
  ASSUME BitsInv
  PROVE  BitsAreKept
<1>1. 0 .. asked_bits - 1 \subseteq BitsTotal
  BY WordsSuffice DEF BitsInv, BitTypeOK, BitsTotal
<1>2. ASSUME NEW bit \in BitsTotal \ missed PROVE get(bit) <=> bit \in expected
  <2>1. PICK i \in DOMAIN buff, b \in Ones : bit = WordBits * i + b
    BY DEF BitsTotal
  <2>2. i \in Nat
    BY DEF BitsInv, BitTypeOK
  <2>3. word_idx(bit) = <<i, b>>
    BY <2>1, <2>2, PlaceOfBit
  <2> QED
    BY <2>1, <2>3 DEF get, BitsInv, WordsAgree
<1> QED
  BY <1>1, <1>2 DEF BitsAreKept

LEMMA BitStep ==
  ASSUME BitsInv, [BitNext]_bvars
  PROVE  BitsInv'
<1> DEFINE words == u64_from_bitcount(asked_bits)
           Agrees(i, b) == \/ WordBits * i + b \in missed
                           \/ b \in buff[i] <=> WordBits * i + b \in expected
<1>0. /\ DOMAIN buff = 0 .. words - 1 /\ buff \in [0 .. words - 1 -> SUBSET Ones]
      /\ other \in [0 .. words - 1 -> SUBSET Ones]
      /\ expected \subseteq BitsTotal /\ missed \subseteq BitsTotal
      /\ \A i \in DOMAIN buff, b \in Ones : Agrees(i, b)
      /\ \A i \in DOMAIN buff : i \in Nat
  BY DEF BitsInv, BitTypeOK, WordsAgree
<1>1. ASSUME NEW i \in DOMAIN buff, NEW b \in Ones, NEW k \in DOMAIN buff, NEW c \in Ones,
             WordBits * i + b = WordBits * k + c
      PROVE  i = k /\ b = c
  <2>1. <<i, b>> = <<k, c>>
    BY <1>0, <1>1, PlaceOfBit
  <2> QED
    BY <2>1
\* What a step must leave behind it.
<1>2. ASSUME buff' \in [0 .. words - 1 -> SUBSET Ones],
             expected' \subseteq BitsTotal, missed' \subseteq BitsTotal,
             pointer' \in {"words", "wild"}, UNCHANGED <<owner_kind, asked_bits, other>>,
             \A i \in DOMAIN buff, b \in Ones : Agrees(i, b)'
      PROVE  BitsInv'
  <2>1. DOMAIN buff' = DOMAIN buff /\ BitsTotal' = BitsTotal /\ words' = words
    BY <1>0, <1>2 DEF BitsTotal, u64_from_bitcount
  <2>2. WordsAgree'
    BY <1>2, <2>1 DEF WordsAgree
  <2>3. BitTypeOK'
    BY <1>0, <1>2, <2>1 DEF BitsInv, BitTypeOK
  <2> QED
    BY <2>2, <2>3 DEF BitsInv
<1>3. ASSUME NEW bit \in BitsTotal, SetBit(bit) \/ UnsetBit(bit) PROVE BitsInv'
  <2>1. PICK i \in DOMAIN buff, b \in Ones : bit = WordBits * i + b
    BY DEF BitsTotal
  <2>2. word_idx(bit) = <<i, b>>
    BY <1>0, <2>1, PlaceOfBit
  <2>3. /\ UNCHANGED <<owner_kind, asked_bits, other>> /\ pointer' = "words"
        /\ missed' = missed \ {bit}
    BY <1>3 DEF SetBit, UnsetBit
  <2>4. \/ buff' = [buff EXCEPT ![i] = @ \cup {b}] /\ expected' = expected \cup {bit}
        \/ buff' = [buff EXCEPT ![i] = @ \ {b}] /\ expected' = expected \ {bit}
    BY <1>3, <2>2 DEF SetBit, UnsetBit
  <2>5. ASSUME NEW k \in DOMAIN buff, NEW c \in Ones PROVE Agrees(k, c)'
    <3>1. CASE k = i /\ c = b
      BY <1>0, <2>1, <2>3, <2>4, <3>1
    <3>2. CASE ~ (k = i /\ c = b)
      <4>1. WordBits * k + c # bit
        BY <1>1, <2>1, <3>2
      <4>2. c \in buff'[k] <=> c \in buff[k]
        BY <1>0, <2>4, <3>2
      <4>3. Agrees(k, c)
        BY <1>0
      <4> QED
        BY <2>3, <2>4, <4>1, <4>2, <4>3
    <3> QED
      BY <3>1, <3>2
  <2>6. buff' \in [0 .. words - 1 -> SUBSET Ones]
    BY <1>0, <2>4
  <2>7. expected' \subseteq BitsTotal /\ missed' \subseteq BitsTotal
    BY <1>0, <2>3, <2>4
  <2> HIDE DEF Agrees
  <2> QED
    BY <1>2, <2>3, <2>5, <2>6, <2>7
<1>4. ASSUME NEW on \in BOOLEAN, SetAll(on) PROVE BitsInv'
  <2>1. /\ buff' = [i \in DOMAIN buff |-> IF on THEN Ones ELSE {}]
        /\ expected' = IF on THEN BitsTotal ELSE {}
        /\ UNCHANGED <<owner_kind, asked_bits, other, pointer, missed>>
    BY <1>4 DEF SetAll, AllOrNone
  <2>2. ASSUME NEW k \in DOMAIN buff, NEW c \in Ones PROVE WordBits * k + c \in BitsTotal
    BY DEF BitsTotal
  <2>3. \A k \in DOMAIN buff, c \in Ones : Agrees(k, c)'
    BY <1>0, <2>1, <2>2
  <2>4. buff' \in [0 .. words - 1 -> SUBSET Ones] /\ expected' \subseteq BitsTotal
    BY <1>0, <2>1
  <2>5. pointer' \in {"words", "wild"}
    BY <2>1 DEF BitsInv, BitTypeOK
  <2> HIDE DEF Agrees
  <2> QED
    BY <1>0, <1>2, <2>1, <2>3, <2>4, <2>5
<1>5. ASSUME NEW on \in BOOLEAN, MappedSetAll(on) PROVE BitsInv'
  <2>1. /\ missed' = BitsTotal /\ expected' \subseteq BitsTotal
        /\ UNCHANGED <<owner_kind, asked_bits, buff, other>>
        /\ pointer' = "wild" \/ pointer' = pointer
    BY <1>5 DEF MappedSetAll, AllOrNone
  <2>2. \A k \in DOMAIN buff, c \in Ones : Agrees(k, c)'
    BY <2>1 DEF BitsTotal
  <2>3. pointer' \in {"words", "wild"}
    BY <2>1 DEF BitsInv, BitTypeOK
  <2> HIDE DEF Agrees
  <2> QED
    BY <1>0, <1>2, <2>1, <2>2, <2>3
<1>6. CASE OrOther
  <2>1. /\ buff' = [i \in DOMAIN buff |-> buff[i] \cup other[i]]
        /\ expected' = expected \cup SetInOther /\ missed' = missed \ SetInOther
        /\ UNCHANGED <<owner_kind, asked_bits, other, pointer>>
    BY <1>6 DEF OrOther
  <2>2. ASSUME NEW k \in DOMAIN buff, NEW c \in Ones PROVE Agrees(k, c)'
    <3>1. WordBits * k + c \in BitsTotal
      BY DEF BitsTotal
    <3>2. word_idx(WordBits * k + c) = <<k, c>>
      BY <1>0, PlaceOfBit
    <3>3. WordBits * k + c \in SetInOther <=> c \in other[k]
      BY <3>1, <3>2 DEF SetInOther
    <3>4. Agrees(k, c)
      BY <1>0
    <3>5. c \in buff'[k] <=> c \in buff[k] \/ c \in other[k]
      BY <2>1
    <3> QED
      BY <2>1, <3>3, <3>4, <3>5
  <2>3. buff' \in [0 .. words - 1 -> SUBSET Ones]
    BY <1>0, <2>1
  <2>4. expected' \subseteq BitsTotal /\ missed' \subseteq BitsTotal
    BY <1>0, <2>1 DEF SetInOther
  <2>5. pointer' \in {"words", "wild"}
    BY <2>1 DEF BitsInv, BitTypeOK
  <2> HIDE DEF Agrees
  <2> QED
    BY <1>2, <2>1, <2>2, <2>3, <2>4, <2>5
<1>7. CASE MapAgain \/ UNCHANGED bvars
  <2>1. /\ UNCHANGED <<owner_kind, asked_bits, buff, other, expected, missed>>
        /\ pointer' = "words" \/ pointer' = pointer
    BY <1>7 DEF MapAgain, bvars
  <2>2. \A k \in DOMAIN buff, c \in Ones : Agrees(k, c)'
    BY <1>0, <2>1
  <2>3. pointer' \in {"words", "wild"}
    BY <2>1 DEF BitsInv, BitTypeOK
  <2> HIDE DEF Agrees
  <2> QED
    BY <1>0, <1>2, <2>1, <2>2, <2>3
<1> QED
  BY <1>3, <1>4, <1>5, <1>6, <1>7 DEF BitNext

LEMMA BitsStart == BitInit => BitsInv
<1> SUFFICES ASSUME BitInit PROVE BitsInv
  OBVIOUS
<1>1. 0 \in Ones /\ asked_bits \in Nat
  BY BitAssumption DEF BitAssumption, Ones, BitInit
<1>2. buff \in [0 .. u64_from_bitcount(asked_bits) - 1 -> SUBSET Ones]
  BY DEF BitInit
<1>3. other \in [0 .. u64_from_bitcount(asked_bits) - 1 -> SUBSET Ones]
  BY <1>1 DEF BitInit
<1> QED
  BY <1>1, <1>2, <1>3 DEF BitInit, BitsInv, BitTypeOK, WordsAgree

\* Every bit a vector was made for has a place, and get() says of each what was
\* asked for last by set, unset, operator|= and the set_all() of a vector that owns
\* its words, for words of any width and vectors of any size.  Not so of bits that
\* the set_all() of a mapped vector was to change last.
THEOREM BitsStay == BitSpec => []BitsAreKept
<1> QED
  BY BitsStart, BitStep, AgreeingWordsAreKept, PTL DEF BitSpec

-----------------------------------------------------------------------------
(* Words, as sets of positions.                                            *)

\* Max and Min of sets that have one.
LEMMA MaxIsOne ==
  ASSUME NEW S \in SUBSET Int, NEW m \in S, \A y \in S : y <= m
  PROVE  Max(S) = m
<1>1. \A y \in S : m >= y
  OBVIOUS
<1>2. Max(S) \in S /\ \A y \in S : Max(S) >= y
  BY <1>1, Zenon DEF Max
<1>3. Max(S) \in Int /\ Max(S) >= m /\ m >= Max(S)
  BY <1>1, <1>2
<1> QED
  BY <1>3

LEMMA MinIsOne ==
  ASSUME NEW S \in SUBSET Int, NEW m \in S, \A y \in S : m <= y
  PROVE  Min(S) = m
<1>1. Min(S) \in S /\ \A y \in S : Min(S) <= y
  BY Zenon DEF Min
<1>2. Min(S) \in Int /\ Min(S) <= m /\ m <= Min(S)
  BY <1>1
<1> QED
  BY <1>2

LEMMA MinIsThere ==
  ASSUME NEW S \in SUBSET Nat, S # {}
  PROVE  Min(S) \in S /\ \A y \in S : Min(S) <= y
<1>1. PICK m \in S : \A y \in S : m <= y
  BY Smallest
<1> QED
  BY <1>1, MinIsOne

LEMMA MaxIsThere ==
  ASSUME NEW w \in Nat, NEW S \in SUBSET (0 .. w), S # {}
  PROVE  Max(S) \in S /\ \A y \in S : y <= Max(S)
<1> DEFINE Distances == {d \in 0 .. w : w - d \in S}
<1>1. Distances \in SUBSET Nat
  OBVIOUS
<1>2. Distances # {}
  <2>1. PICK x \in S : TRUE
    OBVIOUS
  <2>2. w - x \in 0 .. w /\ w - (w - x) = x
    OBVIOUS
  <2> QED
    BY <2>2
<1>3. PICK m \in Distances : \A d \in Distances : m <= d
  BY <1>1, <1>2, Smallest
<1>4. ASSUME NEW y \in S PROVE y <= w - m
  <2>1. w - y \in Distances
    <3>1. w - y \in 0 .. w /\ w - (w - y) = y
      OBVIOUS
    <3> QED
      BY <3>1
  <2>2. m <= w - y
    BY <1>3, <2>1
  <2> QED
    BY <2>2
<1>5. Max(S) = w - m
  BY <1>4, MaxIsOne
<1> QED
  BY <1>4, <1>5

\* The highest and the lowest bit of a word.
LEMMA EndsAreThere ==
  ASSUME NEW w \in Nat, NEW x \in SUBSET Bits(w), x # {}
  PROVE  /\ Max(x) \in x /\ Max(x) \in 0 .. w - 1 /\ \A y \in x : y <= Max(x)
         /\ Min(x) \in x /\ Min(x) \in 0 .. w - 1 /\ \A y \in x : Min(x) <= y
<1>1. x \in SUBSET (0 .. w) /\ x \in SUBSET Nat /\ x \subseteq 0 .. w - 1
  BY DEF Bits
<1>2. Max(x) \in x /\ \A y \in x : y <= Max(x)
  BY <1>1, MaxIsThere
<1>3. Min(x) \in x /\ \A y \in x : Min(x) <= y
  BY <1>1, MinIsThere
<1> QED
  BY <1>1, <1>2, <1>3

\* The reference counts up to the highest or the lowest position.
LEMMA LeadingIsAboveMax ==
  ASSUME NEW w \in Nat, NEW x \in SUBSET Bits(w)
  PROVE  LeadingOut(x, w) = IF x = {} THEN w ELSE (w - 1) - Max(x)
<1> DEFINE Out == {k \in 0 .. w : x \cap (w - k .. w - 1) = {}}
<1>0. Out \in SUBSET Int /\ LeadingOut(x, w) = Max(Out)
  BY DEF LeadingOut
<1>1. CASE x = {}
  <2>1. w \in Out /\ \A k \in Out : k <= w
    BY <1>1
  <2> HIDE DEF Out
  <2> QED
    BY <1>0, <1>1, <2>1, MaxIsOne
<1>2. CASE x # {}
  <2>1. Max(x) \in x /\ Max(x) \in 0 .. w - 1 /\ \A y \in x : y <= Max(x)
    BY <1>2, EndsAreThere
  <2>2. x \subseteq 0 .. w - 1
    BY DEF Bits
  <2>3. (w - 1) - Max(x) \in Out
    BY <2>1, <2>2
  <2>4. ASSUME NEW k \in Out PROVE k <= (w - 1) - Max(x)
    BY <2>1, <2>2
  <2> HIDE DEF Out
  <2> QED
    BY <1>0, <1>2, <2>3, <2>4, MaxIsOne
<1> QED
  BY <1>1, <1>2

LEMMA TrailingIsMin ==
  ASSUME NEW w \in Nat, NEW x \in SUBSET Bits(w)
  PROVE  TrailingOut(x, w) = IF x = {} THEN w ELSE Min(x)
<1> DEFINE Out == {k \in 0 .. w : x \cap Bits(k) = {}}
<1>0. Out \in SUBSET Int /\ TrailingOut(x, w) = Max(Out)
  BY DEF TrailingOut
<1>1. CASE x = {}
  <2>1. w \in Out /\ \A k \in Out : k <= w
    BY <1>1
  <2> HIDE DEF Out
  <2> QED
    BY <1>0, <1>1, <2>1, MaxIsOne
<1>2. CASE x # {}
  <2>1. Min(x) \in x /\ Min(x) \in 0 .. w - 1 /\ \A y \in x : Min(x) <= y
    BY <1>2, EndsAreThere
  <2>2. x \subseteq 0 .. w - 1
    BY DEF Bits
  <2>3. Min(x) \in Out
    BY <2>1, <2>2 DEF Bits
  <2>4. ASSUME NEW k \in Out PROVE k <= Min(x)
    BY <2>1, <2>2 DEF Bits
  <2> HIDE DEF Out
  <2> QED
    BY <1>0, <1>2, <2>3, <2>4, MaxIsOne
<1> QED
  BY <1>1, <1>2

LEMMA HalfCounts ==
  ASSUME NEW x \in SUBSET Bits(Half)
  PROVE  /\ CountLeading0(x) = LeadingOut(x, Half) /\ CountTrailing0(x) = TrailingOut(x, Half)
         /\ CountLeading0(x) \in 0 .. Half /\ CountTrailing0(x) \in 0 .. Half
         /\ CountLeading0(x) = Half <=> x = {}
         /\ CountTrailing0(x) = Half <=> x = {}
<1>1. Half \in Nat
  BY HalfAssumption DEF HalfAssumption
<1>2. x # {} => Max(x) \in 0 .. Half - 1 /\ Min(x) \in 0 .. Half - 1
  BY <1>1, EndsAreThere
<1>3. /\ LeadingOut(x, Half) = IF x = {} THEN Half ELSE (Half - 1) - Max(x)
      /\ TrailingOut(x, Half) = IF x = {} THEN Half ELSE Min(x)
  BY <1>1, LeadingIsAboveMax, TrailingIsMin
<1> QED
  BY <1>1, <1>2, <1>3 DEF CountLeading0, CountTrailing0, Clz, Ctz

\* The bits of a wide word are those of its halves.
LEMMA HalvesOfWord ==
  ASSUME NEW x \in SUBSET Bits(Wide)
  PROVE  /\ Half \in Nat /\ Half > 0 /\ Wide = Half + Half
         /\ Upper(x) \in SUBSET Bits(Half) /\ Lower(x) \in SUBSET Bits(Half)
         /\ \A b \in Int : b \in Upper(x) <=> b >= 0 /\ b + Half \in x
         /\ \A b \in Int : b \in Lower(x) <=> b < Half /\ b \in x
         /\ x = {} <=> Upper(x) = {} /\ Lower(x) = {}
<1>1. Half \in Nat /\ Half > 0 /\ Wide = Half + Half
  BY HalfAssumption DEF HalfAssumption, Wide
<1>2. x \subseteq 0 .. Wide - 1
  BY DEF Bits
<1>3. \A b \in Int : b \in Lower(x) <=> b < Half /\ b \in x
  BY <1>1, <1>2 DEF Lower, Bits
<1>4. ASSUME NEW b \in Int PROVE b \in Upper(x) <=> b >= 0 /\ b + Half \in x
  <2>1. ASSUME b \in Upper(x) PROVE b >= 0 /\ b + Half \in x
    <3>1. PICK c \in x \ Bits(Half) : b = c - Half
      BY <2>1 DEF Upper
    <3>2. c >= Half /\ b + Half = c
      BY <1>1, <1>2, <3>1 DEF Bits
    <3> QED
      BY <1>1, <3>2
  <2>2. ASSUME b >= 0, b + Half \in x PROVE b \in Upper(x)
    <3>1. b + Half \in x \ Bits(Half) /\ (b + Half) - Half = b
      BY <1>1, <2>2 DEF Bits
    <3> QED
      BY <3>1 DEF Upper
  <2> QED
    BY <2>1, <2>2
<1>5. Upper(x) \subseteq Int
  BY <1>1, <1>2 DEF Upper
<1>6. Upper(x) \in SUBSET Bits(Half)
  BY <1>1, <1>2, <1>4, <1>5 DEF Bits
<1>7. Lower(x) \in SUBSET Bits(Half)
  BY DEF Lower
<1>8. ASSUME NEW b \in x PROVE Upper(x) # {} \/ Lower(x) # {}
  <2>1. b \in Int /\ b >= 0 /\ b - Half \in Int /\ (b - Half) + Half = b
    BY <1>1, <1>2
  <2>2. CASE b < Half
    BY <1>3, <2>1, <2>2
  <2>3. CASE b >= Half
    BY <1>1, <1>4, <2>1, <2>3
  <2> QED
    BY <1>1, <2>1, <2>2, <2>3
<1>9. Upper({}) = {} /\ Lower({}) = {}
  BY DEF Upper, Lower
<1> QED
  BY <1>1, <1>3, <1>4, <1>6, <1>7, <1>8, <1>9

\* What the halves say of the whole.
LEMMA HalvesCount ==
  ASSUME NEW x \in SUBSET Bits(Wide)
  PROVE  /\ LeadingOut(x, Wide) = IF Upper(x) = {} THEN Half + CountLeading0(Lower(x))
                                  ELSE CountLeading0(Upper(x))
         /\ TrailingOut(x, Wide) = IF Lower(x) = {} THEN Half + CountTrailing0(Upper(x))
                                   ELSE CountTrailing0(Lower(x))
<1>1. Half \in Nat /\ Half > 0 /\ Wide = Half + Half /\ Wide \in Nat
  BY HalfAssumption DEF HalfAssumption, Wide
<1>2. /\ Upper(x) \in SUBSET Bits(Half) /\ Lower(x) \in SUBSET Bits(Half)
      /\ x = {} <=> Upper(x) = {} /\ Lower(x) = {}
  BY HalvesOfWord
<1>3. x \subseteq Int /\ \A b \in x : b \in 0 .. Wide - 1
  BY DEF Bits
<1>4. LeadingOut(x, Wide) = IF x = {} THEN Wide ELSE (Wide - 1) - Max(x)
  BY <1>1, LeadingIsAboveMax
<1>5. TrailingOut(x, Wide) = IF x = {} THEN Wide ELSE Min(x)
  BY <1>1, TrailingIsMin
<1>6. ASSUME Upper(x) # {} PROVE Max(x) = Half + Max(Upper(x)) /\ Max(Upper(x)) \in Int
  <2>1. /\ Max(Upper(x)) \in Upper(x) /\ Max(Upper(x)) \in 0 .. Half - 1
        /\ \A y \in Upper(x) : y <= Max(Upper(x))
    BY <1>1, <1>2, <1>6, EndsAreThere
  <2>2. Half + Max(Upper(x)) \in x
    <3>1. Max(Upper(x)) + Half \in x
      BY <2>1, HalvesOfWord
    <3> QED
      BY <1>1, <2>1, <3>1
  <2>3. ASSUME NEW y \in x PROVE y <= Half + Max(Upper(x))
    <3>1. y - Half \in Int /\ (y - Half) + Half = y
      BY <1>1, <1>3
    <3>2. y - Half >= 0 => y - Half \in Upper(x)
      BY <3>1, HalvesOfWord
    <3>3. y - Half >= 0 => y - Half <= Max(Upper(x))
      BY <2>1, <3>2
    <3> QED
      BY <1>1, <1>3, <2>1, <3>3
  <2>4. Max(x) = Half + Max(Upper(x))
    BY <1>3, <2>2, <2>3, MaxIsOne
  <2> QED
    BY <2>1, <2>4
<1>7. ASSUME Upper(x) = {}, x # {} PROVE x = Lower(x)
  <2>1. ASSUME NEW b \in x PROVE b \in Lower(x)
    <3>1. b \in Int /\ b - Half \in Int /\ (b - Half) + Half = b
      BY <1>1, <1>3
    <3>2. ~(b - Half >= 0)
      BY <1>7, <3>1, HalvesOfWord
    <3>3. b < Half
      BY <1>1, <3>1, <3>2
    <3> QED
      BY <3>1, <3>3, HalvesOfWord
  <2> QED
    BY <2>1 DEF Lower
<1>8. ASSUME Lower(x) # {} PROVE Min(x) = Min(Lower(x))
  <2>1. /\ Min(Lower(x)) \in Lower(x) /\ Min(Lower(x)) \in 0 .. Half - 1
        /\ \A y \in Lower(x) : Min(Lower(x)) <= y
    BY <1>1, <1>2, <1>8, EndsAreThere
  <2>2. ASSUME NEW y \in x PROVE Min(Lower(x)) <= y
    <3>1. y < Half => y \in Lower(x)
      BY <1>3, HalvesOfWord
    <3> QED
      BY <1>1, <1>3, <2>1, <3>1
  <2>3. Min(Lower(x)) \in x
    BY <2>1 DEF Lower
  <2> QED
    BY <1>3, <2>2, <2>3, MinIsOne
<1>9. ASSUME Lower(x) = {}, x # {}
      PROVE  Min(x) = Half + Min(Upper(x)) /\ Min(Upper(x)) \in Int
  <2>1. /\ Min(Upper(x)) \in Upper(x) /\ Min(Upper(x)) \in 0 .. Half - 1
        /\ \A y \in Upper(x) : Min(Upper(x)) <= y
    BY <1>1, <1>2, <1>9, EndsAreThere
  <2>2. Half + Min(Upper(x)) \in x
    <3>1. Min(Upper(x)) + Half \in x
      BY <2>1, HalvesOfWord
    <3> QED
      BY <1>1, <2>1, <3>1
  <2>3. ASSUME NEW y \in x PROVE Half + Min(Upper(x)) <= y
    <3>1. y - Half \in Int /\ (y - Half) + Half = y
      BY <1>1, <1>3
    <3>2. ~(y < Half)
      BY <1>3, <1>9, HalvesOfWord
    <3>3. y - Half \in Upper(x)
      <4>1. y - Half >= 0
        BY <1>1, <1>3, <3>2
      <4> QED
        BY <3>1, <4>1, HalvesOfWord
    <3>4. Min(Upper(x)) <= y - Half
      BY <2>1, <3>3
    <3> QED
      BY <1>1, <1>3, <2>1, <3>4
  <2>4. Min(x) = Half + Min(Upper(x))
    BY <1>3, <2>2, <2>3, MinIsOne
  <2> QED
    BY <2>1, <2>4
<1>10. Lower(x) # {} => Max(Lower(x)) \in Int
  BY <1>1, <1>2, EndsAreThere
<1>11. LeadingOut(x, Wide) = IF Upper(x) = {} THEN Half + CountLeading0(Lower(x))
                             ELSE CountLeading0(Upper(x))
  <2>1. CASE Upper(x) # {}
    BY <1>1, <1>2, <1>4, <1>6, <2>1 DEF CountLeading0, Clz
  <2>2. CASE Upper(x) = {} /\ x # {}
    BY <1>1, <1>2, <1>4, <1>7, <1>10, <2>2 DEF CountLeading0, Clz
  <2>3. CASE x = {}
    BY <1>1, <1>2, <1>4, <2>3 DEF CountLeading0
  <2> QED
    BY <1>2, <2>1, <2>2, <2>3
<1>12. TrailingOut(x, Wide) = IF Lower(x) = {} THEN Half + CountTrailing0(Upper(x))
                              ELSE CountTrailing0(Lower(x))
  <2>1. CASE Lower(x) # {}
    BY <1>1, <1>2, <1>5, <1>8, <2>1 DEF CountTrailing0, Ctz
  <2>2. CASE Lower(x) = {} /\ x # {}
    BY <1>1, <1>2, <1>5, <1>9, <2>2 DEF CountTrailing0, Ctz
  <2>3. CASE x = {}
    BY <1>1, <1>2, <1>5, <2>3 DEF CountTrailing0
  <2> QED
    BY <1>2, <2>1, <2>2, <2>3
<1> QED
  BY <1>11, <1>12

LEMMA CountsHold ==
  ASSUME value \in SUBSET Bits(Wide)
  PROVE  CountsAreExact
<1>1. Half \in Nat /\ Half > 0 /\ Wide = Half + Half /\ Wide \in Nat
  BY HalfAssumption DEF HalfAssumption, Wide
<1>2. Lower(value) \in SUBSET Bits(Half) /\ Bits(Half) \ value \in SUBSET Bits(Half)
  BY DEF Lower
<1>3. Bits(Half) \ Lower(value) = Bits(Half) \ value
  BY DEF Lower
<1>4. /\ CountLeading0(Lower(value)) = LeadingOut(Lower(value), Half)
      /\ CountTrailing0(Lower(value)) = TrailingOut(Lower(value), Half)
  BY <1>2, HalfCounts
<1>5. /\ CountLeading1(Lower(value)) = LeadingOut(Bits(Half) \ value, Half)
      /\ CountTrailing1(Lower(value)) = TrailingOut(Bits(Half) \ value, Half)
  BY <1>2, <1>3, HalfCounts DEF CountLeading1, CountTrailing1
<1>6. ASSUME NEW x \in SUBSET Bits(Wide)
      PROVE  /\ Upper(x) \in SUBSET Bits(Half) /\ Lower(x) \in SUBSET Bits(Half)
             /\ x = {} <=> Upper(x) = {} /\ Lower(x) = {}
             /\ LeadingOut(x, Wide) = IF Upper(x) = {} THEN Half + CountLeading0(Lower(x))
                                      ELSE CountLeading0(Upper(x))
             /\ TrailingOut(x, Wide) = IF Lower(x) = {} THEN Half + CountTrailing0(Upper(x))
                                       ELSE CountTrailing0(Lower(x))
  BY HalvesOfWord, HalvesCount
<1>7. Upper(value) = {} => WideLeading0(value) = LeadingOut(value, Wide)
  <2>1. CASE value = {}
    <3>1. LeadingOut(value, Wide) = Wide
      BY <1>1, <2>1, LeadingIsAboveMax
    <3> QED
      BY <2>1, <3>1 DEF WideLeading0
  <2>2. CASE value # {}
    BY <1>6, <2>2 DEF WideLeading0, CountLeading0
  <2> QED
    BY <2>1, <2>2
<1>8. WideTrailing0(value) = TrailingOut(value, Wide)
  <2>1. CASE value = {}
    <3>1. TrailingOut(value, Wide) = Wide
      BY <1>1, <2>1, TrailingIsMin
    <3> QED
      BY <2>1, <3>1 DEF WideTrailing0
  <2>2. CASE value # {}
    BY <1>6, <2>2 DEF WideTrailing0, CountTrailing0
  <2> QED
    BY <2>1, <2>2
<1>9. Not(value) \in SUBSET Bits(Wide)
  BY DEF Not
<1>10. /\ CountLeading0(Upper(Not(value))) = Half <=> Upper(Not(value)) = {}
       /\ CountTrailing0(Lower(Not(value))) = Half <=> Lower(Not(value)) = {}
  BY <1>6, <1>9, HalfCounts
<1>11. value = {} => /\ LeadingOut(Not(value), Wide) = 0
                     /\ TrailingOut(Not(value), Wide) = 0
  <2> SUFFICES ASSUME value = {} PROVE /\ LeadingOut(Not(value), Wide) = 0
                                       /\ TrailingOut(Not(value), Wide) = 0
    OBVIOUS
  <2>0. Not(value) = 0 .. Wide - 1 /\ Not(value) \in SUBSET Int
    BY DEF Not, Bits
  <2>1. /\ 0 \in Not(value) /\ Wide - 1 \in Not(value)
        /\ \A y \in Not(value) : 0 <= y /\ y <= Wide - 1
    BY <1>1, <2>0
  <2>2. Max(Not(value)) = Wide - 1
    BY <2>0, <2>1, MaxIsOne
  <2>3. Min(Not(value)) = 0
    BY <2>0, <2>1, MinIsOne
  <2> QED
    BY <1>1, <1>9, <2>1, <2>2, <2>3, LeadingIsAboveMax, TrailingIsMin
<1>12. WideLeading1(value) = LeadingOut(Not(value), Wide)
  BY <1>6, <1>9, <1>10, <1>11 DEF WideLeading1
<1>13. WideTrailing1(value) = TrailingOut(Not(value), Wide)
  BY <1>6, <1>9, <1>10, <1>11 DEF WideTrailing1
<1> QED
  BY <1>4, <1>5, <1>7, <1>8, <1>12, <1>13 DEF CountsAreExact

\* A mask of which the border is no shift too far.
LEMMA MasksHold ==
  ASSUME value \in SUBSET Bits(Wide), offset \in Bits(Wide)
  PROVE  MasksAreExact
<1>1. Wide \in Nat /\ offset \in 0 .. Wide - 1 /\ value \subseteq 0 .. Wide - 1
  BY HalfAssumption DEF HalfAssumption, Wide, Bits
<1>2. ASSUME offset # Wide - 1 PROVE LowOnes(offset) = 0 .. offset
  <2>1. OneShifted(offset + 1) = {offset + 1}
    BY <1>1, <1>2 DEF OneShifted
  <2>2. Min({offset + 1}) = offset + 1
    BY <1>1, MinIsOne
  <2>3. MinusOne({offset + 1}) = Bits(offset + 1)
    BY <2>2 DEF MinusOne
  <2>4. Bits(offset + 1) = 0 .. offset
    BY <1>1 DEF Bits
  <2> QED
    BY <2>1, <2>3, <2>4 DEF LowOnes
<1>3. HighOnes(offset) = (Wide - 1) - offset .. Wide - 1
  <2>1. ASSUME NEW b \in HighOnes(offset) PROVE b \in (Wide - 1) - offset .. Wide - 1
    BY <1>1 DEF HighOnes, Shifted, Bits
  <2>2. ASSUME NEW b \in (Wide - 1) - offset .. Wide - 1 PROVE b \in HighOnes(offset)
    <3>1. b - ((Wide - 1) - offset) \in Bits(Wide) /\ b \in Bits(Wide)
      BY <1>1 DEF Bits
    <3>2. b = (b - ((Wide - 1) - offset)) + ((Wide - 1) - offset)
      BY <1>1
    <3> QED
      BY <3>1, <3>2 DEF HighOnes, Shifted
  <2> QED
    BY <2>1, <2>2
<1>4. offset = Wide - 1 => /\ 0 .. offset = Bits(Wide)
                           /\ (Wide - 1) - offset .. Wide - 1 = Bits(Wide)
  BY <1>1 DEF Bits
<1>5. /\ ClearLsbToMsb(value, offset) = value \ (0 .. offset)
      /\ ClearMsbToLsb(value, offset) = value \ ((Wide - 1) - offset .. Wide - 1)
  BY <1>2, <1>3, <1>4 DEF ClearLsbToMsb, ClearMsbToLsb, Not
<1>6. /\ SetLsbToMsb(value, offset) = value \cup (0 .. offset)
      /\ SetMsbToLsb(value, offset) = value \cup ((Wide - 1) - offset .. Wide - 1)
  BY <1>2, <1>3, <1>4 DEF SetLsbToMsb, SetMsbToLsb
<1> QED
  BY <1>5, <1>6 DEF MasksAreExact

\* The functions on words count and mask as sets of positions do, for every width,
\* value and offset, whatever a shift too far gives: but for the leading zeros of
\* the double width, which are right only if the upper half is 0.
THEOREM WordFunctionsAreExact == WordsInit => WordsAreExact
<1> SUFFICES ASSUME WordsInit PROVE WordsAreExact
  OBVIOUS
<1> QED
  BY CountsHold, MasksHold DEF WordsInit, WordsAreExact

-----------------------------------------------------------------------------
(* Texts of random characters.                                             *)

\* What is written: one of the set, and its largest only where it has no other.
Fitting == {c \in chars : c = Max(chars) => chars = {c}}

\* The places before fill hold characters that fit; those behind are untouched.
FillInv ==
  /\ drawing \in BOOLEAN /\ chars \subseteq Alphabet /\ want \in Nat /\ fill \in Nat
  /\ drawing => chars # {} /\ want > 0 /\ fill < want
  /\ drawing \/ (want > 0 /\ chars # {}) =>
       /\ fill <= want /\ Len(bytes) = want /\ fresh = 1 .. fill
       /\ \A i \in 1 .. fill : bytes[i] \in Fitting
  /\ ~drawing /\ want > 0 /\ chars # {} => fill = want
  /\ ~drawing /\ (want = 0 \/ chars = {}) => fresh = {}

\* Characters that are drawn and kept fit, and there is one.
LEMMA KeptFit ==
  ASSUME chars \subseteq Alphabet, chars # {}
  PROVE  Drawn(chars) \cap chars \subseteq Fitting
<1>1. chars \in SUBSET Nat /\ chars \in SUBSET (0 .. 127)
  BY AlphabetAssumption DEF AlphabetAssumption
<1>2. Min(chars) \in chars /\ \A y \in chars : Min(chars) <= y
  BY <1>1, MinIsThere
<1>3. Max(chars) \in chars /\ \A y \in chars : y <= Max(chars)
  BY <1>1, MaxIsThere
<1>4. CASE Min(chars) = Max(chars)
  <2>1. ASSUME NEW y \in chars PROVE y = Max(chars)
    <3>1. y \in Nat /\ Max(chars) \in Nat /\ Max(chars) <= y /\ y <= Max(chars)
      BY <1>1, <1>2, <1>3, <1>4
    <3> QED
      BY <3>1
  <2> QED
    BY <1>3, <2>1 DEF Fitting
<1>5. CASE Min(chars) # Max(chars)
  <2>1. ASSUME NEW c \in Drawn(chars) \cap chars PROVE c # Max(chars)
    <3>1. c \in Min(chars) .. Max(chars) - 1
      BY <1>5 DEF Drawn
    <3> QED
      BY <1>1, <1>2, <1>3, <3>1
  <2> QED
    BY <2>1 DEF Fitting
<1> QED
  BY <1>4, <1>5

\* A call takes as many bytes as it was asked for.
LEMMA CallFills ==
  ASSUME FillInv, NEW k \in TextLengths, NEW set \in SUBSET Alphabet, CallRandomText(k, set)
  PROVE  FillInv'
<1>1. k \in Nat /\ fill' = 0 /\ fresh' = {} /\ want' = k /\ chars' = set /\ ~drawing
  BY AlphabetAssumption DEF AlphabetAssumption, CallRandomText
<1>2. CASE k = 0 \/ set = {}
  BY <1>1, <1>2 DEF FillInv, CallRandomText
<1>3. CASE k # 0 /\ set # {}
  <2>1. drawing' = TRUE /\ bytes' = [i \in 1 .. k |-> IF i <= Len(bytes) THEN bytes[i] ELSE 0]
    BY <1>3 DEF CallRandomText
  <2>2. Len(bytes') = k
    BY <1>1, <2>1
  <2> QED
    BY <1>1, <1>3, <2>1, <2>2 DEF FillInv
<1> QED
  BY <1>2, <1>3

\* A turn writes what it keeps behind what was written.
LEMMA TurnFills ==
  ASSUME FillInv, DrawTurn
  PROVE  FillInv'
<1>1. /\ drawing /\ chars \subseteq Alphabet /\ chars # {} /\ want \in Nat /\ fill \in Nat
      /\ want > 0 /\ fill < want
      /\ Len(bytes) = want /\ fresh = 1 .. fill /\ \A i \in 1 .. fill : bytes[i] \in Fitting
  BY DEF FillInv, DrawTurn
<1>2. PICK new \in Kept(LookedAt) :
        /\ fill' = fill + Len(new) /\ fresh' = fresh \cup fill + 1 .. fill'
        /\ bytes' = [i \in 1 .. Len(bytes) |->
                       IF i \in fill + 1 .. fill' THEN new[i - fill] ELSE bytes[i]]
  BY DEF DrawTurn
<1>3. PICK k \in 0 .. want - fill : new \in [1 .. k -> Drawn(chars) \cap chars]
  BY <1>1 DEF Kept, LookedAt
<1>4. Len(new) = k
  BY <1>3
<1>5. fill' = fill + k /\ fill' \in Nat /\ fill' <= want /\ fresh' = 1 .. fill'
  BY <1>1, <1>2, <1>3, <1>4
<1>6. bytes' = [i \in 1 .. want |->
                  IF i \in fill + 1 .. fill' THEN new[i - fill] ELSE bytes[i]]
  BY <1>1, <1>2
<1>7. Len(bytes') = want
  BY <1>1, <1>6
<1>8. ASSUME NEW i \in 1 .. fill' PROVE bytes'[i] \in Fitting
  <2>1. CASE i \in 1 .. fill
    BY <1>1, <1>5, <1>6, <2>1
  <2>2. CASE i \in fill + 1 .. fill'
    <3>1. i - fill \in 1 .. k
      BY <1>1, <1>3, <1>5, <2>2
    <3>2. new[i - fill] \in Fitting
      BY <1>1, <1>3, <3>1, KeptFit
    <3> QED
      BY <1>1, <1>5, <1>6, <2>2, <3>2
  <2> QED
    BY <1>1, <1>5, <2>1, <2>2
<1>9. chars' = chars /\ want' = want /\ Fitting' = Fitting /\ drawing' = (fill' < want)
  BY DEF DrawTurn, Fitting
<1>10. drawing' \in BOOLEAN /\ (drawing' <=> fill' < want) /\ (~drawing' => fill' = want)
  <2>1. (fill' < want) \in BOOLEAN /\ (~(fill' < want) => fill' = want)
    BY <1>1, <1>5
  <2> QED
    BY <1>9, <2>1, Zenon
<1> HIDE DEF Fitting
<1> QED
  BY <1>1, <1>5, <1>7, <1>8, <1>9, <1>10 DEF FillInv

LEMMA FillStarts == TextInit => FillInv
<1> SUFFICES ASSUME TextInit PROVE FillInv
  OBVIOUS
<1>1. drawing \in BOOLEAN /\ ~drawing
  BY Zenon DEF TextInit
<1> QED
  BY <1>1 DEF TextInit, FillInv

LEMMA FillStep ==
  ASSUME FillInv, [TextNext]_tvars
  PROVE  FillInv'
<1>1. FillInv /\ UNCHANGED tvars => FillInv'
  BY DEF FillInv, tvars, Fitting
<1> QED
  BY <1>1, CallFills, TurnFills DEF TextNext

\* Bytes are numbers, and so are places.
LEMMA TextTyped ==
  ASSUME FillInv, TextTypeOK, [TextNext]_tvars
  PROVE  TextTypeOK'
<1>1. drawing' \in BOOLEAN /\ want' \in Nat /\ fill' \in Nat /\ chars' \subseteq Alphabet
  BY FillStep, Zenon DEF FillInv
<1>2. bytes \in Seq(Nat) /\ fresh \subseteq Nat
  BY DEF TextTypeOK
<1>3. ASSUME NEW k \in TextLengths, NEW set \in SUBSET Alphabet, CallRandomText(k, set)
      PROVE  bytes' \in Seq(Nat) /\ fresh' \subseteq Nat
  <2>1. k \in Nat /\ fresh' = {}
    BY <1>3, AlphabetAssumption DEF AlphabetAssumption, CallRandomText
  <2>2. \A i \in 1 .. k : (IF i <= Len(bytes) THEN bytes[i] ELSE 0) \in Nat
    BY <1>2, <2>1
  <2>3. [i \in 1 .. k |-> IF i <= Len(bytes) THEN bytes[i] ELSE 0] \in Seq(Nat)
    BY <2>1, <2>2
  <2> QED
    BY <1>2, <1>3, <2>1, <2>3 DEF CallRandomText
<1>4. ASSUME DrawTurn PROVE bytes' \in Seq(Nat) /\ fresh' \subseteq Nat
  <2>1. PICK new \in Kept(LookedAt) :
          /\ fill' = fill + Len(new) /\ fresh' = fresh \cup fill + 1 .. fill'
          /\ bytes' = [i \in 1 .. Len(bytes) |->
                         IF i \in fill + 1 .. fill' THEN new[i - fill] ELSE bytes[i]]
    BY <1>4 DEF DrawTurn
  <2>2. fill \in Nat /\ want \in Nat /\ fill < want /\ chars \subseteq Nat
    BY <1>4, AlphabetAssumption DEF AlphabetAssumption, DrawTurn, FillInv
  <2>3. PICK k \in 0 .. want - fill : new \in [1 .. k -> Drawn(chars) \cap chars]
    BY <2>1, <2>2 DEF Kept, LookedAt
  <2>4. Len(new) = k
    BY <2>3
  <2>5. fresh' \subseteq Nat
    <3>1. fill' \in Nat
      BY <1>1, Zenon
    <3>2. fill + 1 .. fill' \subseteq Nat
      BY <2>2, <3>1
    <3> QED
      BY <1>2, <2>1, <3>2, Zenon
  <2>6. ASSUME NEW i \in 1 .. Len(bytes)
        PROVE  (IF i \in fill + 1 .. fill' THEN new[i - fill] ELSE bytes[i]) \in Nat
    <3>1. ASSUME i \in fill + 1 .. fill' PROVE new[i - fill] \in Nat
      <4>1. i - fill \in 1 .. k
        BY <2>1, <2>2, <2>3, <2>4, <3>1
      <4>2. new[i - fill] \in chars
        BY <2>3, <4>1
      <4> QED
        BY <2>2, <4>2
    <3>2. bytes[i] \in Nat
      BY <1>2
    <3> QED
      BY <3>1, <3>2
  <2>7. Len(bytes) \in Nat
    BY <1>2
  <2>8. bytes' \in Seq(Nat)
    BY <2>1, <2>6, <2>7
  <2> QED
    BY <2>5, <2>8
<1>5. ASSUME UNCHANGED tvars PROVE bytes' \in Seq(Nat) /\ fresh' \subseteq Nat
  BY <1>2, <1>5 DEF tvars
<1> QED
  BY <1>1, <1>3, <1>4, <1>5 DEF TextNext, TextTypeOK

LEMMA TextTypesStart == TextInit => TextTypeOK
<1> SUFFICES ASSUME TextInit PROVE TextTypeOK
  OBVIOUS
<1>1. drawing \in BOOLEAN
  BY Zenon DEF TextInit
<1>2. <<>> \in Seq(Nat) /\ <<0, 0>> \in Seq(Nat)
  OBVIOUS
<1>3. bytes \in Seq(Nat)
  BY <1>2, Zenon DEF TextInit
<1> QED
  BY <1>1, <1>3 DEF TextInit, TextTypeOK

LEMMA FillGives == FillInv => TextIsFromSet
BY DEF FillInv, TextIsFromSet, Fitting

LEMMA FillInvHolds == TextSpec => []FillInv
BY FillStarts, FillStep, PTL DEF TextSpec

\* A text of random characters has the length asked for and only characters of the
\* set, for every set and every way the numbers fall (read_random_ascii_set of
\* crypto.cc).
THEOREM TextsFit == TextSpec => []TextIsFromSet
BY FillGives, FillInvHolds, PTL

-----------------------------------------------------------------------------
(* Splitting.                                                              *)

\* Of the places S where a delimiter of length L occurs in a view of length w, C
\* are those that count.
Greedy(C, S, L, w) ==
  /\ C \in SUBSET (0 .. w)
  /\ \A q \in 0 .. w : q \in C <=> /\ q + L <= w /\ q \in S
                                   /\ \A r \in 0 .. q - 1 : r + L > q => r \notin C

\* There are such places: whether one counts is decided by those before it.
LEMMA PlacesThatCount ==
  ASSUME NEW S \in SUBSET Nat, NEW L \in Nat, NEW w \in Nat
  PROVE  \E C : Greedy(C, S, L, w)
<1> DEFINE Good(C, k) ==
      /\ C \in SUBSET (0 .. k - 1)
      /\ \A q \in 0 .. k - 1 : q \in C <=> /\ q + L <= w /\ q \in S
                                           /\ \A r \in 0 .. q - 1 : r + L > q => r \notin C
    Bad == {k \in Nat : ~\E C : Good(C, k)}
<1>1. Bad = {}
  <2> SUFFICES ASSUME Bad # {} PROVE FALSE
    OBVIOUS
  <2>1. PICK k \in Bad : \A y \in Bad : k <= y
    <3> HIDE DEF Good
    <3>1. Bad \in SUBSET Nat
      OBVIOUS
    <3> HIDE DEF Bad
    <3> QED
      BY <3>1, Smallest
  <2>2. k \in Nat /\ ~\E C : Good(C, k)
    OBVIOUS
  <2>3. k # 0
    <3> SUFFICES ASSUME k = 0 PROVE FALSE
      OBVIOUS
    <3>1. 0 .. k - 1 = {}
      OBVIOUS
    <3>2. Good({}, k)
      BY <3>1
    <3> HIDE DEF Good
    <3> QED
      BY <2>2, <3>2
  <2>4. k - 1 \in Nat /\ k - 1 \notin Bad
    BY <2>1, <2>2, <2>3
  <2>5. PICK C : Good(C, k - 1)
    BY <2>4
  <2>6. C \in SUBSET (0 .. (k - 1) - 1)
        /\ \A q \in 0 .. (k - 1) - 1 : q \in C <=> /\ q + L <= w /\ q \in S
                                   /\ \A r \in 0 .. q - 1 : r + L > q => r \notin C
    BY <2>5
  <2>7. CASE (k - 1) + L <= w /\ k - 1 \in S /\ \A r \in 0 .. (k - 1) - 1 : r + L > k - 1 => r \notin C
    <3>1. Good(C \cup {k - 1}, k)
      BY <2>2, <2>3, <2>6, <2>7
    <3> QED
      BY <2>2, <3>1
  <2>8. CASE ~((k - 1) + L <= w /\ k - 1 \in S /\ \A r \in 0 .. (k - 1) - 1 : r + L > k - 1 => r \notin C)
    <3>1. Good(C, k)
      BY <2>2, <2>3, <2>6, <2>8
    <3> QED
      BY <2>2, <3>1
  <2> QED
    BY <2>7, <2>8
<1>2. w + 1 \in Nat /\ (w + 1) - 1 = w
  OBVIOUS
<1>3. PICK C : Good(C, w + 1)
  BY <1>1, <1>2
<1>4. Greedy(C, S, L, w)
  BY <1>2, <1>3 DEF Greedy
<1> QED
  BY <1>4

Occurrences == {p \in 0 .. Len(memory) : OccursAt(delim, p)}
Counted == {p \in 0 .. viewed : CountsAt(p)}

\* What the reference counts.
LEMMA ReferenceCounts ==
  ASSUME memory \in Seq(Nat), delim \in Seq(Nat), viewed \in 0 .. Len(memory)
  PROVE  Greedy(Counted, Occurrences, Len(delim), viewed)
<1> DEFINE Decides(f) ==
      f = [q \in 0 .. viewed |->
             /\ q + Len(delim) <= viewed /\ OccursAt(delim, q)
             /\ \A r \in 0 .. q - 1 : r + Len(delim) > q => ~f[r]]
    F == CHOOSE f : Decides(f)
<1>1. viewed \in Nat /\ Len(delim) \in Nat /\ Occurrences \in SUBSET Nat
  BY DEF Occurrences
<1>2. PICK C : Greedy(C, Occurrences, Len(delim), viewed)
  BY <1>1, PlacesThatCount
<1>3. \A q \in 0 .. viewed : q \in Occurrences <=> OccursAt(delim, q)
  BY DEF Occurrences
<1>4. Decides([q \in 0 .. viewed |-> q \in C])
  <2> DEFINE g == [q \in 0 .. viewed |-> q \in C]
  <2>1. ASSUME NEW q \in 0 .. viewed
        PROVE  q \in C <=> /\ q + Len(delim) <= viewed /\ OccursAt(delim, q)
                           /\ \A r \in 0 .. q - 1 : r + Len(delim) > q => ~g[r]
    <3>1. \A r \in 0 .. q - 1 : r \in 0 .. viewed
      BY <1>1
    <3>2. \A r \in 0 .. q - 1 : g[r] = (r \in C)
      BY <3>1
    <3>3. q \in C <=> /\ q + Len(delim) <= viewed /\ q \in Occurrences
                      /\ \A r \in 0 .. q - 1 : r + Len(delim) > q => r \notin C
      BY <1>2, Zenon DEF Greedy
    <3> QED
      BY <1>3, <3>2, <3>3, Zenon
  <2> DEFINE B(q) == /\ q + Len(delim) <= viewed /\ OccursAt(delim, q)
                     /\ \A r \in 0 .. q - 1 : r + Len(delim) > q => ~g[r]
  <2>2. \A q \in 0 .. viewed : (q \in C) = B(q)
    <3>1. \A q : B(q) \in BOOLEAN
      BY Zenon
    <3>2. \A q \in 0 .. viewed : q \in C <=> B(q)
      BY <2>1, Zenon
    <3> HIDE DEF B, g
    <3> QED
      BY <3>1, <3>2, SMT
  <2>3. g = [q \in 0 .. viewed |-> B(q)]
    <3> HIDE DEF B
    <3> QED
      BY <2>2, SMT
  <2> QED
    BY <2>3
<1>5. Decides(F)
  BY <1>4, Zenon
<1>6. F = [q \in 0 .. viewed |->
             /\ q + Len(delim) <= viewed /\ OccursAt(delim, q)
             /\ \A r \in 0 .. q - 1 : r + Len(delim) > q => ~F[r]]
  BY <1>5
<1>7. \A p : CountsAt(p) <=> F[p]
  BY DEF CountsAt
<1> HIDE DEF F
<1>8. ASSUME NEW q \in 0 .. viewed
      PROVE  q \in Counted <=> /\ q + Len(delim) <= viewed /\ q \in Occurrences
                               /\ \A r \in 0 .. q - 1 : r + Len(delim) > q => r \notin Counted
  <2>1. F[q] = (/\ q + Len(delim) <= viewed /\ OccursAt(delim, q)
                /\ \A r \in 0 .. q - 1 : r + Len(delim) > q => ~F[r])
    BY <1>6, Zenon
  <2>2. \A r \in 0 .. q - 1 : r \in 0 .. viewed
    BY <1>1
  <2>3. \A r \in 0 .. viewed : r \in Counted <=> F[r]
    BY <1>7, Zenon DEF Counted
  <2> QED
    BY <1>3, <2>1, <2>2, <2>3, Zenon
<1>9. Counted \in SUBSET (0 .. viewed)
  BY DEF Counted
<1> QED
  BY <1>8, <1>9 DEF Greedy


\* A step looks at the same reference: the string, its view and the delimiter stay.
LEMMA SameReference ==
  ASSUME UNCHANGED <<memory, delim, viewed>>
  PROVE  Counted' = Counted
BY SMT DEF Counted, CountsAt, OccursAt

\* The token of w characters from b to e, where C are the delimiters that count.
Between(C, L, w, b, e) ==
  /\ b < e
  /\ b = 0 \/ \E q \in C : b = q + L
  /\ e \in C \cup {w}
  /\ \A p \in C \cup {w} : p < b \/ p >= e

TokensIn(C, L, w) == {t \in Nat \X Nat : Between(C, L, w, t[1], t[1] + t[2])}

\* f is where the search for the next delimiter begins, after one that counts.
Reached(C, L, w, f) ==
  /\ f \in 0 .. w
  /\ f = 0 \/ \E q \in C : f = q + L
  /\ \A r \in C : r < f => r + L <= f

\* p is the first place of S from f on.
Soonest(S, f, p) == p \in S /\ f <= p /\ \A q \in S : f <= q => p <= q

\* The first delimiter from there counts, and none that begins before it ends.
LEMMA NextCounts ==
  ASSUME NEW S, NEW L \in Nat \ {0}, NEW w \in Nat, NEW C, Greedy(C, S, L, w),
         NEW f \in Nat, Reached(C, L, w, f),
         NEW p \in Nat, Soonest(S, f, p), p + L <= w
  PROVE  /\ p \in C
         /\ Reached(C, L, w, p + L)
         /\ \A e \in C : e < p + L => e < f \/ e = p
<1>0. p \in S /\ f <= p /\ \A q \in S : f <= q => p <= q
  BY DEF Soonest
<1>1. C \in SUBSET (0 .. w) /\ \A q \in 0 .. w : q \in C <=>
        /\ q + L <= w /\ q \in S /\ \A r \in 0 .. q - 1 : r + L > q => r \notin C
  BY DEF Greedy
<1>2. \A r \in C : r < f => r + L <= f
  BY DEF Reached
<1>3. \A r \in 0 .. p - 1 : r + L > p => r \notin C
  <2> SUFFICES ASSUME NEW r \in 0 .. p - 1, r + L > p, r \in C PROVE FALSE
    OBVIOUS
  <2>1. r \in S
    BY <1>1
  <2>2. ~(r < f)
    BY <1>0, <1>2
  <2> QED
    BY <1>0, <2>1, <2>2
<1>4. p \in C
  BY <1>0, <1>1, <1>3
<1>5. ASSUME NEW e \in C, e < p + L
      PROVE  e < f \/ e = p
  <2>1. e \in Nat /\ e \in S
    BY <1>1
  <2>2. ~(e > p)
    <3> SUFFICES ASSUME e > p PROVE FALSE
      OBVIOUS
    <3>1. p \in 0 .. e - 1 /\ p + L > e
      BY <1>5, <2>1
    <3> QED
      BY <1>1, <1>4, <1>5, <3>1
  <2> QED
    BY <1>0, <2>1, <2>2
<1>6. \A r \in C : r < p + L => r + L <= p + L
  BY <1>0, <1>1, <1>2, <1>5
<1> QED
  BY <1>0, <1>1, <1>2, <1>4, <1>5, <1>6 DEF Reached

\* The token that ends at the next delimiter, or at the end, begins there.
LEMMA OneToken ==
  ASSUME NEW S, NEW L \in Nat \ {0}, NEW w \in Nat, NEW C, Greedy(C, S, L, w),
         NEW f \in Nat, Reached(C, L, w, f),
         NEW e \in C \cup {w}, f <= e, \A p \in C \cup {w} : p < f \/ p >= e,
         NEW b \in Nat
  PROVE  Between(C, L, w, b, e) <=> b = f /\ f < e
<1>1. C \in SUBSET (0 .. w) /\ \A q \in 0 .. w : q \in C <=>
        /\ q + L <= w /\ q \in S /\ \A r \in 0 .. q - 1 : r + L > q => r \notin C
  BY DEF Greedy
<1>2. (f = 0 \/ \E q \in C : f = q + L) /\ \A r \in C : r < f => r + L <= f
  BY DEF Reached
<1>3. ASSUME b = f, f < e PROVE Between(C, L, w, b, e)
  BY <1>2, <1>3 DEF Between
<1>4. ASSUME Between(C, L, w, b, e) PROVE b = f /\ f < e
  <2>1. /\ b < e
        /\ b = 0 \/ \E q \in C : b = q + L
        /\ \A p \in C \cup {w} : p < b \/ p >= e
    BY <1>4 DEF Between
  <2>2. e \in Nat
    BY <1>1
  <2>3. ~(b < f)
    <3> SUFFICES ASSUME b < f PROVE FALSE
      OBVIOUS
    <3>1. PICK q \in C : f = q + L
      BY <1>2
    <3>2. q \in Nat /\ q < b
      BY <1>1, <2>1, <2>2, <3>1
    <3>3. PICK r \in C : b = r + L
      BY <2>1, <3>2
    <3>4. r \in 0 .. q - 1 /\ r + L > q
      BY <1>1, <3>1, <3>2, <3>3
    <3> QED
      BY <1>1, <3>2, <3>3, <3>4
  <2>4. ~(b > f)
    <3> SUFFICES ASSUME b > f PROVE FALSE
      OBVIOUS
    <3>1. PICK r \in C : b = r + L
      BY <2>1
    <3>2. r \in Nat /\ r < e
      BY <1>1, <2>1, <2>2, <3>1
    <3>3. r < f
      BY <2>2, <3>2
    <3> QED
      BY <1>2, <3>1, <3>2, <3>3
  <2> QED
    BY <2>1, <2>3, <2>4
<1> QED
  BY <1>3, <1>4

\* The tokens that end before f.
TokensBefore(C, L, w, f) == {t \in TokensIn(C, L, w) : t[1] + t[2] < f}

\* s names the tokens of G, in order.
Tells(s, G) ==
  /\ s \in Seq(Nat \X Nat)
  /\ {s[i] : i \in DOMAIN s} = G
  /\ \A i, j \in DOMAIN s : i < j => s[i][1] < s[j][1]

LEMMA OneMoreIsTold ==
  ASSUME NEW s, NEW G, Tells(s, G), NEW t \in Nat \X Nat, \A u \in G : u[1] < t[1]
  PROVE  Tells(Append(s, t), G \cup {t})
<1>1. s \in Seq(Nat \X Nat) /\ Len(s) \in Nat /\ DOMAIN s = 1 .. Len(s)
  BY DEF Tells
<1> DEFINE a == Append(s, t)
<1>2. /\ a \in Seq(Nat \X Nat) /\ DOMAIN a = 1 .. Len(s) + 1
      /\ a[Len(s) + 1] = t
      /\ \A i \in 1 .. Len(s) : a[i] = s[i]
  BY <1>1
<1>0. \A i : i \in DOMAIN a <=> i \in 1 .. Len(s) \/ i = Len(s) + 1
  <2>1. \A i : i \in 1 .. Len(s) + 1 <=> i \in 1 .. Len(s) \/ i = Len(s) + 1
    BY <1>1
  <2> QED
    BY <1>2, <2>1, Zenon
<1> HIDE DEF a
<1>3. \A i \in DOMAIN s : s[i] \in G
  BY DEF Tells
<1>4. {a[i] : i \in DOMAIN a} = G \cup {t}
  <2>1. ASSUME NEW i \in DOMAIN a PROVE a[i] \in G \cup {t}
    BY <1>0, <1>1, <1>2, <1>3, Zenon
  <2>2. \A u \in G : \E i \in DOMAIN s : u = s[i]
    BY DEF Tells
  <2>3. ASSUME NEW u \in G \cup {t} PROVE \E i \in DOMAIN a : u = a[i]
    <3>1. CASE u = t
      <4>1. Len(s) + 1 \in DOMAIN a
        BY <1>0
      <4> QED
        BY <1>2, <3>1, <4>1
    <3>2. CASE u \in G
      <4>1. PICK i \in DOMAIN s : u = s[i]
        BY <2>2, <3>2
      <4>2. i \in 1 .. Len(s)
        BY <1>1
      <4> QED
        BY <1>0, <1>2, <4>1, <4>2
    <3> QED
      BY <3>1, <3>2
  <2> QED
    BY <2>1, <2>3
<1>5. ASSUME NEW i \in DOMAIN a, NEW j \in DOMAIN a, i < j
      PROVE  a[i][1] < a[j][1]
  <2>1. i \in 1 .. Len(s) /\ a[i] = s[i]
    <3>1. i \in 1 .. Len(s) \/ i = Len(s) + 1
      BY <1>0
    <3>2. j \in 1 .. Len(s) \/ j = Len(s) + 1
      BY <1>0
    <3>3. i \in 1 .. Len(s)
      BY <1>1, <1>5, <3>1, <3>2
    <3> QED
      BY <1>2, <3>3
  <2>2. CASE j \in 1 .. Len(s)
    BY <1>1, <1>2, <1>5, <2>1, <2>2 DEF Tells
  <2>3. CASE j = Len(s) + 1
    BY <1>1, <1>2, <1>3, <2>1, <2>3
  <2> QED
    BY <1>0, <2>2, <2>3
<1>6. a \in Seq(Nat \X Nat)
  BY <1>2
<1>7. Tells(a, G \cup {t})
  BY <1>4, <1>5, <1>6 DEF Tells
<1> QED
  BY <1>7 DEF a

\* With the token from f to e, if it is not empty, all tokens before e are told,
\* and e itself when nothing else ends before g.
LEMMA TokenIsTold ==
  ASSUME NEW S, NEW L \in Nat \ {0}, NEW w \in Nat, NEW C, Greedy(C, S, L, w),
         NEW f \in Nat, Reached(C, L, w, f),
         NEW e \in C \cup {w}, f <= e, \A p \in C \cup {w} : p < f \/ p >= e,
         NEW g \in Nat, e < g, \A p \in C \cup {w} : p < g => p < f \/ p = e,
         NEW s, Tells(s, TokensBefore(C, L, w, f))
  PROVE  Tells(IF e - f > 0 THEN Append(s, <<f, e - f>>) ELSE s, TokensBefore(C, L, w, g))
<1>1. C \in SUBSET (0 .. w) /\ e \in Nat
  BY DEF Greedy
<1>2. \A b \in Nat : Between(C, L, w, b, e) <=> b = f /\ f < e
  BY OneToken
<1>3. ASSUME NEW t \in Nat \X Nat
      PROVE  t \in TokensBefore(C, L, w, g) <=>
               t \in TokensBefore(C, L, w, f) \/ (t = <<f, e - f>> /\ f < e)
  <2>1. PICK b \in Nat, l \in Nat : t = <<b, l>>
    OBVIOUS
  <2>2. t[1] = b /\ t[2] = l
    BY <2>1
  <2>3. t \in TokensBefore(C, L, w, g) <=> Between(C, L, w, b, b + l) /\ b + l < g
    BY <2>2 DEF TokensBefore, TokensIn
  <2>4. t \in TokensBefore(C, L, w, f) <=> Between(C, L, w, b, b + l) /\ b + l < f
    BY <2>2 DEF TokensBefore, TokensIn
  <2>5. Between(C, L, w, b, b + l) => b + l \in C \cup {w}
    BY DEF Between
  <2>6. f <= g
    BY <1>1
  <2>7. CASE b + l = e
    <3>1. Between(C, L, w, b, b + l) <=> b = f /\ f < e
      BY <1>2, <2>7
    <3>2. ~(b + l < f)
      BY <1>1, <2>7
    <3>3. t = <<f, e - f>> <=> b = f
      BY <1>1, <2>1, <2>7
    <3> QED
      BY <2>3, <2>4, <2>7, <3>1, <3>2, <3>3
  <2>8. CASE b + l # e
    <3>1. t # <<f, e - f>>
      BY <1>1, <2>1, <2>8
    <3>2. b + l \in C \cup {w} => (b + l < g <=> b + l < f)
      BY <1>1, <2>6, <2>8
    <3> QED
      BY <2>3, <2>4, <2>5, <3>1, <3>2
  <2> QED
    BY <2>7, <2>8
<1>4. \A u \in TokensBefore(C, L, w, f) : u \in Nat \X Nat /\ u[1] < f
  BY DEF TokensBefore, TokensIn
<1>5. \A u \in TokensBefore(C, L, w, g) : u \in Nat \X Nat
  BY DEF TokensBefore, TokensIn
<1>6. CASE f < e
  <2>1. <<f, e - f>> \in Nat \X Nat
    BY <1>1, <1>6
  <2>2. TokensBefore(C, L, w, g) = TokensBefore(C, L, w, f) \cup {<<f, e - f>>}
    BY <1>3, <1>4, <1>5, <1>6, <2>1, Zenon
  <2>3. Tells(Append(s, <<f, e - f>>), TokensBefore(C, L, w, f) \cup {<<f, e - f>>})
    BY <1>4, <2>1, OneMoreIsTold
  <2>4. e - f > 0
    BY <1>1, <1>6
  <2> QED
    BY <2>2, <2>3, <2>4
<1>7. CASE ~(f < e)
  <2>1. TokensBefore(C, L, w, g) = TokensBefore(C, L, w, f)
    BY <1>3, <1>4, <1>5, <1>7, Zenon
  <2>2. ~(e - f > 0)
    BY <1>1, <1>7
  <2> QED
    BY <2>1, <2>2
<1> QED
  BY <1>6, <1>7

\* A view by a string: the delimiters are looked for behind its end, so its last
\* token may be lost, or end too soon.
Cut(C, L, w, s) ==
  LET given == {s[i] : i \in DOMAIN s}
      all == TokensIn(C, L, w)
  IN  /\ \A t \in all : t[1] + t[2] < w => t \in given
      /\ \A t \in given \ all : \E u \in all : u[1] = t[1] /\ t[2] < u[2] /\ u[1] + u[2] = w

\* What holds of every call, whatever its delimiter is part of.
SplitShape ==
  /\ SplitTypeOK /\ InsideView
  /\ Len(delim) <= Len(needle) /\ (splitting => delim # <<>>)
  /\ kind = "string" => viewed = Len(memory)
  /\ kind = "char" => Len(delim) = 1 /\ from <= viewed /\ rest = viewed - from
  /\ kind # "view" => WholeDelimiter

LEMMA ShapeBegins == SplitInit => SplitShape
<1> SUFFICES ASSUME SplitInit PROVE SplitShape
  OBVIOUS
<1>1. memory \in Seq(Nat \ {0}) /\ needle \in Seq(Nat \ {0})
  BY SplitAssumption DEF SplitInit, SplitAssumption
<1>2. PICK l \in 0 .. Len(needle) : delim = SubSeq(needle, 1, l)
  BY DEF SplitInit
<1>3. delim \in Seq(Nat \ {0}) /\ Len(delim) = l /\ l <= Len(needle)
  BY <1>1, <1>2
<1>4. viewed \in 0 .. Len(memory) /\ Len(memory) \in Nat
  BY <1>1 DEF SplitInit
<1>5. from = 0 /\ rest = viewed /\ tokens = <<>>
  BY DEF SplitInit
<1>6. splitting \in BOOLEAN /\ (splitting => delim # <<>>)
  BY DEF SplitInit
<1>7. SplitTypeOK
  <2>1. kind \in {"string", "view", "char"}
    BY DEF SplitInit
  <2>2. from \in 0 .. Len(memory) /\ rest \in 0 .. viewed
    BY <1>4, <1>5
  <2>3. tokens \in Seq(Nat \X Nat)
    BY <1>5
  <2> QED
    BY <1>1, <1>3, <1>4, <1>6, <2>1, <2>2, <2>3 DEF SplitTypeOK
<1>8. InsideView
  BY <1>5 DEF InsideView, Given
<1>9. /\ kind = "string" => viewed = Len(memory)
      /\ kind = "char" => Len(delim) = 1
      /\ kind # "view" => WholeDelimiter
  BY DEF SplitInit, WholeDelimiter
<1>10. from <= viewed /\ rest = viewed - from
  BY <1>4, <1>5
<1> QED
  BY <1>3, <1>6, <1>7, <1>8, <1>9, <1>10 DEF SplitShape

\* Where the C string of the delimiter is found.
LEMMA PlaceFound ==
  ASSUME SplitShape, Found # {}
  PROVE  /\ First \in Nat /\ from <= First
         /\ First + Len(delim) <= Len(memory)
         /\ kind = "char" => First + 1 <= viewed
<1>1. /\ from \in Nat /\ rest \in Nat /\ Len(memory) \in Nat /\ Len(needle) \in Nat
      /\ Len(delim) \in Nat /\ Len(delim) <= Len(needle)
      /\ viewed \in Nat /\ viewed <= Len(memory)
      /\ kind = "char" => Len(needle) = 1 /\ from + rest = viewed
  BY DEF SplitShape, SplitTypeOK, WholeDelimiter
<1>2. SearchEnd \in Nat /\ SearchEnd <= Len(memory) /\ (kind = "char" => SearchEnd = viewed)
  BY <1>1 DEF SearchEnd
<1>3. \A q \in Found : q \in Nat /\ from <= q /\ q + Len(needle) <= SearchEnd
  BY <1>1, <1>2 DEF Found
<1>4. First \in Found
  <2>1. Found \in SUBSET Nat
    BY <1>3
  <2>2. \E m \in Found : \A y \in Found : m <= y
    BY <2>1, Smallest
  <2> QED
    BY <2>2, Zenon DEF First
<1>5. First \in Nat /\ from <= First /\ First + Len(needle) <= SearchEnd
  BY <1>3, <1>4
<1>6. First + Len(delim) <= Len(memory)
  BY <1>1, <1>2, <1>5
<1>7. kind = "char" => First + 1 <= viewed
  BY <1>1, <1>2, <1>5
<1> QED
  BY <1>5, <1>6, <1>7

\* A token of the view, or none, joins the others.
LEMMA TokenJoins ==
  ASSUME SplitShape, NEW x \in Int, from + x <= viewed
  PROVE  /\ WithToken(x) \in Seq(Nat \X Nat)
         /\ \A i \in DOMAIN WithToken(x) : WithToken(x)[i][1] + WithToken(x)[i][2] <= viewed
<1>1. tokens \in Seq(Nat \X Nat) /\ from \in Nat
  BY DEF SplitShape, SplitTypeOK
<1>2. \A i \in DOMAIN tokens : tokens[i][1] + tokens[i][2] <= viewed
  BY DEF SplitShape, InsideView, Given
<1>3. CASE x > 0
  <2> DEFINE t == <<from, x>>
             a == Append(tokens, t)
  <2>1. t \in Nat \X Nat /\ t[1] + t[2] <= viewed
    BY <1>1, <1>3
  <2>2. WithToken(x) = a
    BY <1>3 DEF WithToken
  <2> HIDE DEF t
  <2>3. /\ a \in Seq(Nat \X Nat) /\ Len(tokens) \in Nat
        /\ \A i \in DOMAIN a : (i \in DOMAIN tokens /\ a[i] = tokens[i]) \/ a[i] = t
    BY <1>1, <2>1
  <2> HIDE DEF a
  <2> QED
    BY <1>2, <2>1, <2>2, <2>3
<1>4. CASE ~(x > 0)
  <2>1. WithToken(x) = tokens
    BY <1>4 DEF WithToken
  <2> QED
    BY <1>1, <1>2, <2>1
<1> QED
  BY <1>3, <1>4

LEMMA ShapeStep == SplitShape /\ [SplitNext]_dvars => SplitShape'
<1> SUFFICES ASSUME SplitShape, [SplitNext]_dvars PROVE SplitShape'
  OBVIOUS
<1>0. UNCHANGED <<kind, memory, viewed, needle, delim>>
  BY DEF SplitNext, BehindView, NextToken, LastToken, dvars
<1>1. /\ from \in Nat /\ rest \in Nat /\ viewed \in Nat /\ Len(memory) \in Nat
      /\ from <= Len(memory) /\ rest <= viewed /\ viewed <= Len(memory)
      /\ Len(delim) \in Nat
      /\ kind \in {"string", "view", "char"}
      /\ kind = "string" => viewed = Len(memory)
      /\ kind = "char" => Len(delim) = 1 /\ from <= viewed /\ rest = viewed - from
  BY DEF SplitShape, SplitTypeOK
\* What a step must leave behind it.
<1>2. ASSUME splitting' \in BOOLEAN, splitting' => splitting,
             from' \in 0 .. Len(memory), rest' \in 0 .. viewed,
             kind = "char" => from' <= viewed /\ rest' = viewed - from',
             tokens' \in Seq(Nat \X Nat),
             \A i \in DOMAIN tokens' : tokens'[i][1] + tokens'[i][2] <= viewed
      PROVE  SplitShape'
  <2>1. SplitTypeOK'
    BY <1>0, <1>2 DEF SplitShape, SplitTypeOK
  <2>2. InsideView'
    BY <1>0, <1>2 DEF InsideView, Given
  <2>3. Len(delim') <= Len(needle') /\ (splitting' => delim' # <<>>)
    BY <1>0, <1>2 DEF SplitShape
  <2>4. /\ kind' = "string" => viewed' = Len(memory')
        /\ kind' # "view" => WholeDelimiter'
    BY <1>0 DEF SplitShape, WholeDelimiter
  <2>5. kind' = "char" => Len(delim') = 1 /\ from' <= viewed' /\ rest' = viewed' - from'
    BY <1>0, <1>1, <1>2
  <2> QED
    BY <2>1, <2>2, <2>3, <2>4, <2>5 DEF SplitShape
<1>3. CASE BehindView \/ UNCHANGED dvars
  <2>1. UNCHANGED <<from, rest, tokens>> /\ (splitting' = splitting \/ splitting' = FALSE)
    BY <1>3 DEF BehindView, dvars
  <2>2. tokens \in Seq(Nat \X Nat) /\ splitting \in BOOLEAN
        /\ \A i \in DOMAIN tokens : tokens[i][1] + tokens[i][2] <= viewed
    BY DEF SplitShape, SplitTypeOK, InsideView, Given
  <2>3. splitting' \in BOOLEAN /\ (splitting' => splitting)
    <3>1. splitting' \in BOOLEAN
      BY <2>1, <2>2
    <3>2. splitting' => splitting
      BY <2>1, Zenon
    <3> QED
      BY <3>1, <3>2, Zenon
  <2>4. from' \in 0 .. Len(memory) /\ rest' \in 0 .. viewed
    BY <1>1, <2>1
  <2>5. kind = "char" => from' <= viewed /\ rest' = viewed - from'
    BY <1>1, <2>1
  <2>6. /\ tokens' \in Seq(Nat \X Nat)
        /\ \A i \in DOMAIN tokens' : tokens'[i][1] + tokens'[i][2] <= viewed
    BY <2>1, <2>2
  <2> QED
    BY <1>2, <2>3, <2>4, <2>5, <2>6, Zenon
<1>4. CASE NextToken
  <2> DEFINE p == First
  <2>1. /\ splitting' = splitting /\ Found # {} /\ ~Behind
        /\ tokens' = WithToken(p - from) /\ from' = p + Len(delim)
        /\ rest' = IF kind = "char" THEN rest - ((p - from) + 1) ELSE rest
    BY <1>4 DEF NextToken, Passed
  <2>2. /\ p \in Nat /\ from <= p /\ p + Len(delim) <= Len(memory)
        /\ kind = "char" => p + 1 <= viewed
    BY <2>1, PlaceFound
  <2>3. ~Behind => (kind = "view" => ~(p > viewed))
    BY DEF Behind
  <2> HIDE DEF p
  <2>4. p - from \in Int /\ from + (p - from) <= viewed
    BY <1>1, <2>1, <2>2, <2>3
  <2>5. /\ tokens' \in Seq(Nat \X Nat)
        /\ \A i \in DOMAIN tokens' : tokens'[i][1] + tokens'[i][2] <= viewed
    BY <2>1, <2>4, TokenJoins
  <2>6. from' \in 0 .. Len(memory)
    BY <1>1, <2>1, <2>2
  <2>7. kind = "char" => from' <= viewed /\ rest' = viewed - from'
    <3> SUFFICES ASSUME kind = "char" PROVE from' <= viewed /\ rest' = viewed - from'
      OBVIOUS
    <3>1. /\ Len(delim) = 1 /\ rest = viewed - from /\ p + 1 <= viewed
          /\ from' = p + Len(delim) /\ rest' = rest - ((p - from) + 1)
      BY <1>1, <2>1, <2>2, Zenon
    <3> QED
      BY <1>1, <2>2, <3>1
  <2>8. rest' \in 0 .. viewed
    BY <1>1, <2>1, <2>6, <2>7
  <2>9. splitting' \in BOOLEAN /\ (splitting' => splitting)
    BY <2>1 DEF SplitShape, SplitTypeOK
  <2> QED
    BY <1>2, <2>5, <2>6, <2>7, <2>8, <2>9, Zenon
<1>5. CASE LastToken
  <2> DEFINE x == IF kind = "char" THEN rest ELSE viewed - from
  <2>1. splitting' = FALSE /\ tokens' = WithToken(x) /\ UNCHANGED <<from, rest>>
    BY <1>5 DEF LastToken
  <2>2. x \in Int /\ from + x <= viewed
    BY <1>1
  <2> HIDE DEF x
  <2>3. /\ tokens' \in Seq(Nat \X Nat)
        /\ \A i \in DOMAIN tokens' : tokens'[i][1] + tokens'[i][2] <= viewed
    BY <2>1, <2>2, TokenJoins
  <2>4. splitting' \in BOOLEAN /\ (splitting' => splitting)
    BY <2>1
  <2>5. from' \in 0 .. Len(memory) /\ rest' \in 0 .. viewed
    BY <1>1, <2>1
  <2>6. kind = "char" => from' <= viewed /\ rest' = viewed - from'
    BY <1>1, <2>1
  <2> QED
    BY <1>2, <2>3, <2>4, <2>5, <2>6, Zenon
<1> QED
  BY <1>3, <1>4, <1>5 DEF SplitNext

\* What a call has told so far, if its delimiter is a whole C string.
ToldInv ==
  LET L == Len(delim)
      told == TokensBefore(Counted, L, viewed, from)
      lookedBehind == kind = "view" /\ viewed < Len(memory) /\ Cut(Counted, L, viewed, tokens)
  IN  /\ kind \in {"string", "view", "char"}
      /\ memory \in Seq(Nat) /\ delim \in Seq(Nat)
      /\ viewed \in 0 .. Len(memory)
      /\ kind = "string" => viewed = Len(memory)
      /\ kind = "char" => L = 1
      /\ from \in Nat
      /\ splitting => /\ delim # <<>>
                      /\ from <= viewed =>
                           /\ Reached(Counted, L, viewed, from)
                           /\ Tells(tokens, told)
                           /\ kind = "char" => rest = viewed - from
                      /\ from > viewed => lookedBehind
      /\ ~splitting /\ delim # <<>> =>
           Tells(tokens, TokensIn(Counted, L, viewed)) \/ lookedBehind

\* The tokens of the reference.
LEMMA ReferenceTokens ==
  ASSUME memory \in Seq(Nat), delim \in Seq(Nat), delim # <<>>, viewed \in 0 .. Len(memory)
  PROVE  Tokens = TokensIn(Counted, Len(delim), viewed)
<1> DEFINE L == Len(delim)
<1>1. viewed \in Nat /\ L \in Nat \ {0}
  BY EmptySeq
<1>2. Greedy(Counted, Occurrences, L, viewed)
  BY ReferenceCounts
<1>3. Counted \in SUBSET Nat /\ \A q \in Counted : q + L <= viewed
  BY <1>1, <1>2 DEF Greedy
<1> DEFINE ends == {p \in 0 .. viewed : p = viewed \/ CountsAt(p)}
           begins == {0} \cup {p + L : p \in ends \ {viewed}}
<1>4. ends = Counted \cup {viewed}
  BY <1>1 DEF Counted
<1>5. begins = {0} \cup {p + L : p \in Counted}
  <2>1. ends \ {viewed} = Counted
    BY <1>1, <1>3, <1>4
  <2> QED
    BY <2>1
<1>6. Tokens = {<<x[1], x[2] - x[1]>> : x \in
         {x \in begins \X ends : x[1] < x[2] /\ \A p \in ends : p < x[1] \/ p >= x[2]}}
  BY DEF Tokens
<1>7. begins \in SUBSET Nat /\ ends \in SUBSET Nat
  BY <1>1, <1>3, <1>4, <1>5
<1> HIDE DEF L, ends, begins
<1>8. ASSUME NEW b \in begins, NEW e \in ends
      PROVE  Between(Counted, L, viewed, b, e) <=> b < e /\ \A p \in ends : p < b \/ p >= e
  BY <1>4, <1>5 DEF Between
<1>9. ASSUME NEW b, NEW e, Between(Counted, L, viewed, b, e)
      PROVE  b \in begins /\ e \in ends /\ b < e
  BY <1>4, <1>5, <1>9 DEF Between
<1>10. ASSUME NEW t \in Tokens PROVE t \in TokensIn(Counted, L, viewed)
  <2>1. PICK x \in begins \X ends : /\ x[1] < x[2] /\ \A p \in ends : p < x[1] \/ p >= x[2]
                                    /\ t = <<x[1], x[2] - x[1]>>
    BY <1>6
  <2>2. PICK b \in begins, e \in ends : x = <<b, e>>
    OBVIOUS
  <2>3. Between(Counted, L, viewed, b, e)
    BY <1>8, <2>1, <2>2
  <2>4. b \in Nat /\ e \in Nat /\ b < e /\ t = <<b, e - b>> /\ b + (e - b) = e /\ e - b \in Nat
    BY <1>7, <2>1, <2>2
  <2> QED
    BY <2>3, <2>4 DEF TokensIn
<1>11. ASSUME NEW t \in TokensIn(Counted, L, viewed) PROVE t \in Tokens
  <2>1. t \in Nat \X Nat /\ Between(Counted, L, viewed, t[1], t[1] + t[2])
    BY DEF TokensIn
  <2>2. PICK b \in Nat, l \in Nat : t = <<b, l>>
    BY <2>1
  <2>3. Between(Counted, L, viewed, b, b + l)
    BY <2>1, <2>2
  <2>4. b \in begins /\ b + l \in ends /\ b < b + l /\ \A p \in ends : p < b \/ p >= b + l
    BY <1>8, <1>9, <2>3
  <2>5. t = <<b, (b + l) - b>>
    BY <2>2
  <2> DEFINE x == <<b, b + l>>
  <2>6. x \in begins \X ends /\ x[1] = b /\ x[2] = b + l
    BY <2>4
  <2> QED
    BY <1>6, <2>4, <2>5, <2>6
<1> QED
  BY <1>10, <1>11 DEF L

\* What the invariant is for.
LEMMA ToldIsRight == ToldInv => TokensAreFound /\ OnlyLastIsCut
<1> SUFFICES ASSUME ToldInv, Done PROVE TokensAreFound /\ OnlyLastIsCut
  BY DEF TokensAreFound, OnlyLastIsCut
<1> DEFINE all == TokensIn(Counted, Len(delim), viewed)
<1>1. /\ memory \in Seq(Nat) /\ delim \in Seq(Nat) /\ delim # <<>>
      /\ viewed \in 0 .. Len(memory)
      /\ \/ Tells(tokens, all)
         \/ kind = "view" /\ viewed < Len(memory) /\ Cut(Counted, Len(delim), viewed, tokens)
  BY DEF ToldInv, Done
<1>2. Tokens = all
  BY <1>1, ReferenceTokens
<1>3. CASE Tells(tokens, all)
  <2>1. Given = Tokens /\ \A i, j \in DOMAIN tokens : i < j => tokens[i][1] < tokens[j][1]
    BY <1>2, <1>3 DEF Tells, Given
  <2> HIDE DEF all
  <2> QED
    BY <2>1, Zenon DEF TokensAreFound, OnlyLastIsCut, AllOf
<1>4. CASE kind = "view" /\ viewed < Len(memory) /\ Cut(Counted, Len(delim), viewed, tokens)
  <2>1. viewed # Len(memory)
    BY <1>1, <1>4
  <2>2. /\ \A t \in Tokens : t[1] + t[2] < viewed => t \in Given
        /\ \A t \in Given \ Tokens :
             \E u \in Tokens : u[1] = t[1] /\ t[2] < u[2] /\ u[1] + u[2] = viewed
    BY <1>2, <1>4, Zenon DEF Cut, Given
  <2> QED
    BY <1>4, <2>1, <2>2 DEF TokensAreFound, OnlyLastIsCut
<1> QED
  BY <1>1, <1>3, <1>4

LEMMA ToldBegins == SplitInit => ToldInv
<1> SUFFICES ASSUME SplitInit PROVE ToldInv
  OBVIOUS
<1> DEFINE L == Len(delim)
<1>1. memory \in Seq(Nat \ {0}) /\ delim \in Seq(Nat \ {0})
  BY ShapeBegins DEF SplitShape, SplitTypeOK
<1>2. memory \in Seq(Nat) /\ delim \in Seq(Nat)
  BY <1>1
<1>3. /\ kind \in {"string", "view", "char"} /\ viewed \in 0 .. Len(memory)
      /\ kind = "string" => viewed = Len(memory)
      /\ kind = "char" => L = 1
      /\ splitting = (delim # <<>>) /\ from = 0 /\ rest = viewed /\ tokens = <<>>
  BY DEF SplitInit
<1>4. viewed \in Nat /\ Len(memory) \in Nat /\ L \in Nat
  BY <1>2, <1>3
<1>5. Counted \in SUBSET (0 .. viewed)
  BY DEF Counted
<1>6. Reached(Counted, L, viewed, from)
  BY <1>3, <1>4, <1>5 DEF Reached
<1>7. TokensBefore(Counted, L, viewed, from) = {}
  BY <1>3 DEF TokensBefore, TokensIn
<1>8. Tells(tokens, TokensBefore(Counted, L, viewed, from))
  BY <1>3, <1>7 DEF Tells
<1> HIDE DEF L
<1>9. rest = viewed - from /\ ~(from > viewed) /\ from \in Nat
  BY <1>3, <1>4
<1> QED
  BY <1>2, <1>3, <1>6, <1>8, <1>9 DEF ToldInv, L

\* How far a search goes.
LEMMA SearchedPart ==
  ASSUME ToldInv, splitting
  PROVE  /\ memory \in Seq(Nat) /\ delim \in Seq(Nat) /\ delim # <<>>
         /\ viewed \in 0 .. Len(memory)
         /\ from \in Nat /\ viewed \in Nat /\ Len(memory) \in Nat /\ Len(delim) \in Nat \ {0}
         /\ SearchEnd \in Nat /\ viewed <= SearchEnd /\ SearchEnd <= Len(memory)
         /\ kind # "view" => SearchEnd = viewed
         /\ Greedy(Counted, Occurrences, Len(delim), viewed)
<1>1. /\ memory \in Seq(Nat) /\ delim \in Seq(Nat) /\ delim # <<>>
      /\ viewed \in 0 .. Len(memory) /\ from \in Nat
      /\ kind \in {"string", "view", "char"}
      /\ kind = "string" => viewed = Len(memory)
      /\ from <= viewed /\ kind = "char" => rest = viewed - from
      /\ from > viewed => kind = "view"
  BY DEF ToldInv
<1>2. Len(memory) \in Nat /\ Len(delim) \in Nat \ {0}
  BY <1>1, EmptySeq
<1>3. viewed \in Nat
  BY <1>1, <1>2
<1>4. CASE kind = "char"
  BY <1>1, <1>2, <1>3, <1>4, ReferenceCounts DEF SearchEnd
<1>5. CASE kind # "char"
  BY <1>1, <1>2, <1>3, <1>5, ReferenceCounts DEF SearchEnd
<1> QED
  BY <1>4, <1>5

\* What the search finds, of what there is.
LEMMA FirstFound ==
  ASSUME ToldInv, WholeDelimiter, splitting
  PROVE  /\ \A q \in Occurrences : from <= q /\ q + Len(delim) <= SearchEnd => q \in Found
         /\ Found # {} =>
              /\ First \in Nat /\ First \in Occurrences
              /\ from <= First /\ First + Len(delim) <= SearchEnd
              /\ \A q \in Occurrences : from <= q => First <= q
<1> DEFINE L == Len(delim)
<1>1. /\ from \in Nat /\ L \in Nat \ {0} /\ SearchEnd \in Nat
      /\ SearchEnd <= Len(memory) /\ Len(memory) \in Nat
  BY SearchedPart
<1>2. \A q : q \in Found <=> q \in from .. SearchEnd - L /\ OccursAt(delim, q)
  BY DEF Found, WholeDelimiter
<1>3. \A q : q \in Occurrences <=> q \in 0 .. Len(memory) /\ OccursAt(delim, q)
  BY DEF Occurrences
<1> HIDE DEF L
<1>4. \A q : q \in from .. SearchEnd - L <=> q \in Nat /\ from <= q /\ q + L <= SearchEnd
  BY <1>1
<1>5. \A q \in Occurrences : q \in Nat /\ (from <= q /\ q + L <= SearchEnd => q \in Found)
  BY <1>1, <1>2, <1>3, <1>4
<1>6. ASSUME Found # {}
      PROVE  /\ First \in Nat /\ First \in Occurrences
             /\ from <= First /\ First + L <= SearchEnd
             /\ \A q \in Occurrences : from <= q => First <= q
  <2>1. Found \in SUBSET Nat
    BY <1>2, <1>4
  <2>2. \E m \in Found : \A y \in Found : m <= y
    BY <1>6, <2>1, Smallest
  <2>3. First \in Found /\ \A y \in Found : First <= y
    BY <2>2, Zenon DEF First
  <2>4. First \in Nat /\ from <= First /\ First + L <= SearchEnd /\ OccursAt(delim, First)
    BY <1>2, <1>4, <2>3
  <2>5. First \in Occurrences
    BY <1>1, <1>3, <2>4
  <2>6. ASSUME NEW q \in Occurrences, from <= q PROVE First <= q
    BY <1>1, <1>5, <2>3, <2>4, <2>6
  <2> QED
    BY <2>4, <2>5, <2>6
<1> QED
  BY <1>5, <1>6 DEF L

\* When no delimiter that counts is left, only the last token may be lost.
LEMMA LastIsLeft ==
  ASSUME NEW S, NEW L \in Nat \ {0}, NEW w \in Nat, NEW C, Greedy(C, S, L, w),
         NEW f \in Nat, Reached(C, L, w, f), f <= w, \A q \in C : q < f,
         NEW s, Tells(s, TokensBefore(C, L, w, f)), NEW e \in f .. w
  PROVE  /\ Cut(C, L, w, s)
         /\ f < e => Cut(C, L, w, Append(s, <<f, e - f>>))
         /\ Tells(IF w - f > 0 THEN Append(s, <<f, w - f>>) ELSE s, TokensIn(C, L, w))
<1> DEFINE all == TokensIn(C, L, w)
           before == TokensBefore(C, L, w, f)
<1>1. C \in SUBSET Nat
  BY DEF Greedy
<1>2. \A t \in all : /\ t \in Nat \X Nat /\ t[1] \in Nat /\ t[2] \in Nat
                     /\ t[1] + t[2] \in C \cup {w}
  BY DEF TokensIn, Between
<1>3. \A t \in all : t[1] + t[2] < w => t \in before
  BY <1>1, <1>2 DEF TokensBefore
<1>4. \A t \in before : t \in all /\ t \in Nat \X Nat /\ t[1] < f
  BY <1>2 DEF TokensBefore
<1>5. {s[i] : i \in DOMAIN s} = before
  BY DEF Tells
<1>6. \A p \in C \cup {w} : p < f \/ p >= w
  BY <1>1
<1>7. Cut(C, L, w, s)
  <2> HIDE DEF before, all
  <2> QED
    BY <1>3, <1>4, <1>5, Zenon DEF Cut, all
<1>8. ASSUME f < e PROVE Cut(C, L, w, Append(s, <<f, e - f>>))
  <2> DEFINE t == <<f, e - f>>
             u == <<f, w - f>>
             a == Append(s, t)
  <2>1. e \in Nat /\ t \in Nat \X Nat /\ u \in Nat \X Nat /\ f < w
    BY <1>8
  <2>2. Tells(a, before \cup {t})
    BY <1>4, <2>1, OneMoreIsTold
  <2>3. {a[i] : i \in DOMAIN a} = before \cup {t}
    BY <2>2 DEF Tells
  <2>4. Between(C, L, w, f, w)
    BY <1>6, <2>1, OneToken
  <2>5. u \in all
    <3>1. u[1] = f /\ u[1] + u[2] = w
      BY <2>1
    <3> QED
      BY <2>1, <2>4, <3>1, Zenon DEF TokensIn
  <2>6. t \notin all => u[1] = t[1] /\ t[2] < u[2] /\ u[1] + u[2] = w
    <3>1. CASE e = w
      BY <2>5, <3>1
    <3>2. CASE e # w
      BY <2>1, <3>2
    <3> QED
      BY <3>1, <3>2
  <2> HIDE DEF all, before, t, u, a
  <2>7. Cut(C, L, w, a)
    BY <1>3, <1>4, <2>3, <2>5, <2>6, Zenon DEF Cut, all
  <2> QED
    BY <2>7 DEF a, t
<1>9. Tells(IF w - f > 0 THEN Append(s, <<f, w - f>>) ELSE s, all)
  <2>1. TokensBefore(C, L, w, w + 1) = all
    BY <1>1, <1>2 DEF TokensBefore
  <2>2. \A p \in C \cup {w} : p < w + 1 => p < f \/ p = w
    BY <1>1
  <2>3. w \in C \cup {w} /\ w + 1 \in Nat /\ w < w + 1
    OBVIOUS
  <2> HIDE DEF all
  <2>4. Tells(IF w - f > 0 THEN Append(s, <<f, w - f>>) ELSE s, TokensBefore(C, L, w, w + 1))
    BY <1>6, <2>2, <2>3, TokenIsTold
  <2> QED
    BY <2>1, <2>4
<1> QED
  BY <1>7, <1>8, <1>9

LEMMA ToldStep == ToldInv /\ WholeDelimiter /\ [SplitNext]_dvars => ToldInv'
<1> SUFFICES ASSUME ToldInv, WholeDelimiter, [SplitNext]_dvars PROVE ToldInv'
  OBVIOUS
<1> DEFINE L == Len(delim)
           before == TokensBefore(Counted, L, viewed, from)
<1>1. CASE UNCHANGED dvars
  <2>1. Counted' = Counted
    BY <1>1, SameReference DEF dvars
  <2> QED
    BY <1>1, <2>1 DEF ToldInv, dvars
<1>2. CASE SplitNext
  <2>1. splitting /\ UNCHANGED <<kind, memory, viewed, delim>>
    BY <1>2 DEF SplitNext, BehindView, NextToken, LastToken
  <2>2. Counted' = Counted
    BY <2>1, SameReference
  <2>3. /\ kind \in {"string", "view", "char"}
        /\ kind = "string" => viewed = Len(memory)
        /\ kind = "char" => L = 1
        /\ from <= viewed => /\ Reached(Counted, L, viewed, from)
                             /\ Tells(tokens, before)
                             /\ kind = "char" => rest = viewed - from
        /\ from > viewed => /\ kind = "view" /\ viewed < Len(memory)
                            /\ Cut(Counted, L, viewed, tokens)
    BY <2>1 DEF ToldInv
  <2>4. /\ memory \in Seq(Nat) /\ delim \in Seq(Nat) /\ delim # <<>>
        /\ viewed \in 0 .. Len(memory)
        /\ from \in Nat /\ viewed \in Nat /\ Len(memory) \in Nat /\ L \in Nat \ {0}
        /\ SearchEnd \in Nat /\ viewed <= SearchEnd /\ SearchEnd <= Len(memory)
        /\ kind # "view" => SearchEnd = viewed
        /\ Greedy(Counted, Occurrences, L, viewed)
    BY <2>1, SearchedPart
  <2>5. \A q \in Counted : q \in Nat /\ q \in Occurrences /\ q + L <= viewed
    BY <2>4 DEF Greedy
  <2>6. /\ \A q \in Occurrences : from <= q /\ q + L <= SearchEnd => q \in Found
        /\ Found # {} => /\ First \in Nat /\ First \in Occurrences
                         /\ from <= First /\ First + L <= SearchEnd
                         /\ \A q \in Occurrences : from <= q => First <= q
    BY <2>1, FirstFound
  <2>7. ASSUME from <= viewed, \A q \in Counted : q < from, NEW e \in from .. viewed
        PROVE  /\ Cut(Counted, L, viewed, tokens)
               /\ from < e => Cut(Counted, L, viewed, Append(tokens, <<from, e - from>>))
               /\ Tells(IF viewed - from > 0 THEN Append(tokens, <<from, viewed - from>>) ELSE tokens,
                        TokensIn(Counted, L, viewed))
    <3> HIDE DEF L
    <3> QED
      BY <2>3, <2>4, <2>7, LastIsLeft DEF before
  <2>8. /\ kind' = kind /\ memory' = memory /\ viewed' = viewed /\ delim' = delim
        /\ Len(delim)' = L
    BY <2>1
  <2>9. ASSUME ~splitting', from' \in Nat,
               \/ Tells(tokens', TokensIn(Counted, L, viewed))
               \/ kind = "view" /\ viewed < Len(memory) /\ Cut(Counted, L, viewed, tokens')
        PROVE  ToldInv'
    BY <2>2, <2>3, <2>4, <2>8, <2>9 DEF ToldInv
  <2> HIDE DEF L, before
  <2> DEFINE p == First
  <2>13. ASSUME Found # {}
         PROVE  /\ p \in Nat /\ p \in Occurrences /\ from <= p /\ p + L <= SearchEnd
                /\ \A q \in Counted : q < from \/ q >= p
    <3>1. /\ p \in Nat /\ p \in Occurrences /\ from <= p /\ p + L <= SearchEnd
          /\ \A q \in Occurrences : from <= q => p <= q
      BY <2>6, <2>13, Zenon
    <3> HIDE DEF p
    <3> QED
      BY <2>4, <2>5, <3>1
  <2>14. Found # {} => p \in Occurrences /\ \A q \in Occurrences : from <= q => p <= q
    BY <2>6, Zenon
  <2> HIDE DEF p
  <2>10. CASE BehindView
    <3>1. ~splitting' /\ from' = from /\ tokens' = tokens /\ Found # {}
          /\ kind = "view" /\ p > viewed
      BY <2>10 DEF BehindView, Behind, p
    <3>2. viewed < Len(memory)
      BY <2>4, <2>13, <3>1
    <3>3. Cut(Counted, L, viewed, tokens)
      <4>1. CASE from > viewed
        BY <2>3, <4>1
      <4>2. CASE from <= viewed
        <5>1. \A q \in Counted : q < from
          BY <2>4, <2>5, <2>13, <3>1
        <5>2. from \in from .. viewed
          BY <2>4, <4>2
        <5> QED
          BY <2>7, <4>2, <5>1, <5>2
      <4> QED
        BY <2>4, <4>1, <4>2
    <3> QED
      BY <2>4, <2>9, <3>1, <3>2, <3>3
  <2>11. CASE NextToken
    <3> DEFINE told == IF p - from > 0 THEN Append(tokens, <<from, p - from>>) ELSE tokens
    <3>1. /\ splitting' /\ Found # {} /\ tokens' = told /\ from' = p + L
          /\ rest' = IF kind = "char" THEN rest - Passed ELSE rest
          /\ kind = "view" => p <= viewed
      <4>1. p \in Nat
        BY <2>13, <2>11 DEF NextToken
      <4> QED
        BY <2>1, <2>4, <2>11, <4>1 DEF NextToken, Behind, WithToken, L, p
    <3> HIDE DEF told
    <3>5. Found # {} /\ (kind = "view" => p <= viewed)
      BY <3>1
    <3>6. /\ p \in Nat /\ p \in Occurrences /\ from <= p /\ p + L <= SearchEnd
          /\ \A q \in Counted : q < from \/ q >= p
          /\ \A q \in Occurrences : from <= q => p <= q
      BY <2>13, <2>14, <3>5
    <3>2. p \in Nat /\ p + L \in Nat /\ from <= p /\ p <= viewed /\ from <= viewed
      BY <2>4, <3>5, <3>6
    <3>3. CASE p + L <= viewed
      <4>1. /\ p \in Counted
            /\ Reached(Counted, L, viewed, p + L)
            /\ \A e \in Counted : e < p + L => e < from \/ e = p
        <5>1. Soonest(Occurrences, from, p)
          BY <3>6 DEF Soonest
        <5>2. /\ L \in Nat \ {0} /\ viewed \in Nat /\ from \in Nat /\ p \in Nat
              /\ Greedy(Counted, Occurrences, L, viewed) /\ Reached(Counted, L, viewed, from)
              /\ p + L <= viewed
          BY <2>3, <2>4, <3>2, <3>3
        <5> QED
          BY <5>1, <5>2, NextCounts, Zenon
      <4>2. \A q \in Counted \cup {viewed} : q < p + L => q < from \/ q = p
        BY <2>4, <3>2, <3>3, <4>1
      <4>3. \A q \in Counted \cup {viewed} : q < from \/ q >= p
        BY <2>4, <2>5, <3>2, <3>3, <4>1
      <4>4. p < p + L
        BY <2>4, <3>2
      <4>5. Tells(told, TokensBefore(Counted, L, viewed, p + L))
        <5> QED
          BY <2>3, <2>4, <3>2, <4>1, <4>2, <4>3, <4>4, TokenIsTold DEF before, told
      <4>6. kind = "char" => rest' = viewed - (p + L)
        <5>1. kind = "char" => rest' = (viewed - from) - ((p - from) + 1)
          BY <2>3, <3>1, <3>2, Zenon DEF Passed, p
        <5> QED
          BY <2>3, <2>4, <3>2, <5>1
      <4>7. ~(p + L > viewed)
        BY <2>4, <3>2, <3>3
      <4> QED
        BY <2>2, <2>3, <2>4, <2>8, <3>1, <3>2, <4>1, <4>5, <4>6, <4>7 DEF ToldInv, L
    <3>4. CASE p + L > viewed
      <4>1. kind = "view" /\ viewed < Len(memory)
        BY <2>4, <2>13, <3>1, <3>2, <3>4
      <4>2. \A q \in Counted : q < from
        BY <2>4, <2>5, <3>2, <3>4, <3>6
      <4>3. p \in from .. viewed
        BY <2>4, <3>2
      <4>4. Cut(Counted, L, viewed, told)
        <5>1. /\ Cut(Counted, L, viewed, tokens)
              /\ from < p => Cut(Counted, L, viewed, Append(tokens, <<from, p - from>>))
          <6> QED
            BY <2>7, <3>2, <4>2, <4>3
        <5>2. p - from > 0 <=> from < p
          BY <2>4, <3>2
        <5> QED
          BY <5>1, <5>2 DEF told
      <4>5. ~(p + L <= viewed)
        BY <2>4, <3>2, <3>4
      <4> QED
        BY <2>2, <2>3, <2>4, <2>8, <3>1, <3>2, <3>4, <4>1, <4>4, <4>5 DEF ToldInv, L
    <3> QED
      BY <2>4, <3>2, <3>3, <3>4
  <2>12. CASE LastToken
    <3>1. /\ ~splitting' /\ Found = {} /\ from' = from
          /\ tokens' = WithToken(IF kind = "char" THEN rest ELSE viewed - from)
      BY <2>12 DEF LastToken
    <3>2. CASE from > viewed
      <4>1. tokens' = tokens
        BY <2>3, <2>4, <3>1, <3>2 DEF WithToken
      <4> QED
        BY <2>3, <2>4, <2>9, <3>1, <3>2, <4>1
    <3>3. CASE from <= viewed
      <4>1. tokens' = IF viewed - from > 0 THEN Append(tokens, <<from, viewed - from>>) ELSE tokens
        BY <2>3, <3>1, <3>3, Zenon DEF WithToken
      <4>2. \A q \in Counted : q < from
        BY <2>4, <2>5, <2>6, <3>1
      <4>3. viewed \in from .. viewed
        BY <2>4, <3>3
      <4>4. Tells(tokens', TokensIn(Counted, L, viewed))
        <5> QED
          BY <2>7, <3>3, <4>1, <4>2, <4>3
      <4> QED
        BY <2>4, <2>9, <3>1, <4>4
    <3> QED
      BY <2>4, <3>2, <3>3
  <2> QED
    BY <1>2, <2>10, <2>11, <2>12 DEF SplitNext
<1> QED
  BY <1>1, <1>2

\* All of it.
SplitInv == SplitShape /\ (WholeDelimiter => ToldInv)

LEMMA SplitInvBegins == SplitInit => SplitInv
BY ShapeBegins, ToldBegins DEF SplitInv

LEMMA SplitInvStep == SplitInv /\ [SplitNext]_dvars => SplitInv'
<1> SUFFICES ASSUME SplitInv, [SplitNext]_dvars PROVE SplitInv'
  OBVIOUS
<1>1. WholeDelimiter' = WholeDelimiter
  BY DEF SplitNext, BehindView, NextToken, LastToken, dvars, WholeDelimiter
<1> QED
  BY <1>1, ShapeStep, ToldStep DEF SplitInv

LEMMA SplitInvTells == SplitInv => TokensAreRight
<1> SUFFICES ASSUME SplitInv PROVE TokensAreRight
  OBVIOUS
<1>1. CASE WholeDelimiter
  BY <1>1, ToldIsRight DEF SplitInv, SplitShape, TokensAreRight
<1>2. CASE ~WholeDelimiter
  BY <1>2 DEF SplitInv, SplitShape, TokensAreRight, TokensAreFound, OnlyLastIsCut
<1> QED
  BY <1>1, <1>2

\* Each of the three ways to split a string by a whole C string gives, in order,
\* the tokens between the delimiters that count; of a view by a string at most the
\* last one is lost or cut (split2() and the two split()).  By the beginning of a
\* longer C string, split() gives at least no token that leaves the view.
THEOREM TokensAreThere == SplitSpec => []TokensAreRight
<1>1. SplitSpec => []SplitInv
  BY SplitInvBegins, SplitInvStep, PTL DEF SplitSpec
<1> QED
  BY <1>1, SplitInvTells, PTL

-----------------------------------------------------------------------------
(* A program that uses one of them.                                        *)

ComputationsInv ==
  /\ CipherInv /\ KInv /\ KeyTypeOK /\ HmacInv /\ HmacTypeOK /\ FillInv /\ TextTypeOK
  /\ SearchInv /\ ListsOffsets /\ SplitInv /\ WordsInit /\ BitsInv

LEMMA KeySteps ==
  ASSUME KInv, [KeyNext]_kvars
  PROVE  KInv'
BY DeriveStarts, BlockStarts, ChainGoesOn, BlockEnds, ReturnIsComplete, KeyStutters
   DEF KeyNext, KeyStep

\* A step of the program is one of the part it uses, and leaves the others.
LEMMA ComputationMoves ==
  ASSUME [ComputationsNext]_computed
  PROVE  /\ [CipherNext]_cipher_vars /\ [KeyNext]_kvars /\ [HmacNext]_hvars
         /\ [TextNext]_tvars /\ [Next]_vars /\ [SplitNext]_dvars /\ [BitNext]_bvars
         /\ UNCHANGED wvars
<1>1. CASE ComputationsNext
  BY <1>1, Zenon DEF ComputationsNext
<1>2. CASE UNCHANGED computed
  BY <1>2 DEF computed
<1> QED
  BY <1>1, <1>2

LEMMA ComputationsStart == ComputationsInit => ComputationsInv
<1>1. ComputationsInit =>
        CipherInit /\ KeyInit /\ HmacInit /\ TextInit /\ Init /\ SplitInit /\ WordsInit
        /\ BitInit
  BY Zenon DEF ComputationsInit
<1> QED
  BY <1>1, CipherStarts, KeyStarts, KeyTypesStart, HmacStarts, HmacTypesStart, FillStarts,
     TextTypesStart, SearchStarts, ListsStart, SplitInvBegins, BitsStart
  DEF ComputationsInv

LEMMA ComputationsInvHolds == ComputationsSpec => []ComputationsInv
<1>1. ComputationsInv /\ [ComputationsNext]_computed => ComputationsInv'
  <2>1. WordsInit /\ UNCHANGED wvars => WordsInit'
    BY DEF WordsInit, wvars
  <2> QED
    BY <2>1, ComputationMoves, CipherSteps, KeySteps, KeyTyped, HmacStep, HmacTyped, FillStep,
       TextTyped, SearchSteps, ListsStep, SplitInvStep, BitStep
    DEF ComputationsInv
<1> QED
  BY <1>1, ComputationsStart, PTL DEF ComputationsSpec

\* Every variable of every part keeps its type, whichever part of libaan a program
\* uses: no number that counts bytes falls below 0, no search for a delimiter begins
\* behind the string's 0, and bits are kept in the words a vector has.
THEOREM ComputationsTypesHold == ComputationsSpec => []ComputationsTypeOK
<1>1. ComputationsInv => CipherTypeOK /\ KeyTypeOK /\ HmacTypeOK /\ TextTypeOK
  BY DEF ComputationsInv, CipherInv
<1>2. ComputationsInv => TypeOK
  BY SearchInvGives DEF ComputationsInv
<1>3. ComputationsInv => SplitTypeOK
  BY DEF ComputationsInv, SplitInv, SplitShape
<1>4. ComputationsInv => WordsTypeOK
  BY DEF ComputationsInv, WordsInit, WordsTypeOK
<1>5. ComputationsInv => BitTypeOK
  BY DEF ComputationsInv, BitsInv
<1>6. ComputationsInv => ComputationsTypeOK
  BY <1>1, <1>2, <1>3, <1>4, <1>5, Zenon DEF ComputationsTypeOK
<1> QED
  BY <1>6, ComputationsInvHolds, PTL

\* A program that uses any one of the parts, as it is model-checked, is safe in
\* all of them, each as far as its property says: nothing is read or written behind
\* a string and lengths are right; a key is complete when no HMAC failed; texts fit
\* their set; DC3 sorts, searches find all, and the binary searches over size_t alone
\* leave the array, for a pattern below all suffixes; strings are split where they
\* should be by a whole C string; word functions are exact, but for the leading zeros
\* of 64 bits with one in the upper half; and bits are kept, but for those that
\* set_all() of a mapped vector was to change.
THEOREM ComputationsAreSafe ==
  ComputationsSpec =>
    [](/\ StaysInStrings /\ LengthsAreRight /\ KeyIsComplete /\ TextIsFromSet
       /\ Dc3SortsSuffixes /\ FindsAllOccurrences /\ WildOnlyBelowAll
       /\ IntSearchStaysInside /\ TokensAreRight /\ WordsAreExact /\ BitsAreKept)
<1>1. ComputationsInv => StaysInStrings /\ LengthsAreRight
  BY CipherInvGives DEF ComputationsInv
<1>2. ComputationsInv => KeyIsComplete /\ TextIsFromSet
  BY FillGives DEF ComputationsInv, KInv
<1>3. ComputationsInv => Dc3SortsSuffixes /\ FindsAllOccurrences /\ WildOnlyBelowAll
  BY SearchInvGives DEF ComputationsInv
<1>4. WildOnlyBelowAll => IntSearchStaysInside
  BY DEF WildOnlyBelowAll, IntSearchStaysInside, SizeEngines
<1>5. ComputationsInv => WordsAreExact
  BY CountsHold, MasksHold DEF ComputationsInv, WordsInit, WordsAreExact
<1>6. ComputationsInv => BitsAreKept
  BY AgreeingWordsAreKept DEF ComputationsInv
<1>7. ComputationsInv => TokensAreRight
  BY SplitInvTells DEF ComputationsInv
<1> QED
  BY <1>1, <1>2, <1>3, <1>4, <1>5, <1>6, <1>7, ComputationsInvHolds, PTL
================================================================================
