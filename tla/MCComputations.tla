---------------------------- MODULE MCComputations ----------------------------
\* What libaan computes in memory: ciphers, HMACs, keys, random texts, searches,
\* splitting and bits, for TLC.  These modules share no state: a behaviour is one
\* of a program that uses one of them, and the others stay as they begin.
EXTENDS CipherStream, KeyDerivation, HmacObject, RandomText, SuffixSearch, Split, Words, BitVector

CONSTANTS MaxText, MaxPattern, MaxSplit

VARIABLE used

Strings(letters, max) == UNION {[1 .. k -> letters] : k \in 0 .. max}

\* Lengths around the ends of blocks (16), pieces (100) and their common
\* multiples (400).
MCLengths == 0 .. 130 \cup 190 .. 210 \cup 290 .. 305 \cup 395 .. 420
MCForeignLengths == 0 .. 50

\* Texts of the letters a, b, c, and of a byte above 127.
MCTexts ==
  Strings({98, 99}, MaxText) \cup Strings({97, 98, 99}, 4) \cup Strings({98, 200}, 2)
MCPatterns == Strings({97, 98, 99}, MaxPattern) \cup {<<200>>, <<99, 98, 99>>, <<98, 98, 98>>}

MCSplitTexts == Strings({98, 99}, MaxSplit)
MCDelimiters == Strings({98, 99}, 2)

-----------------------------------------------------------------------------
\* Modules with many initial states have one where they are not used.
Used(name) == used = name

ComputationsInit ==
  /\ used \in {"cipher", "key", "hmac", "random", "search", "split", "word", "bits"}
  /\ CipherInit /\ KeyInit
  /\ Used("hmac") \/ (strings = [s \in Outputs |-> Empty])
  /\ HmacInit
  /\ Used("random") \/ (bytes = <<>>)
  /\ TextInit
  /\ Used("search") \/ (engine = "stl" /\ text = <<>>)
  /\ Init
  /\ Used("split") \/ (kind = "string" /\ memory = <<>> /\ needle = <<>>)
  /\ SplitInit
  /\ Used("word") \/ (value = {} /\ offset = 0 /\ too_far = {})
  /\ WordsInit
  /\ Used("bits") \/ (owner_kind = "own" /\ asked_bits = 0)
  /\ BitInit

ComputationsNext ==
  \/ /\ Used("cipher") /\ CipherNext
     /\ UNCHANGED <<used, kvars, hvars, tvars, vars, dvars, wvars, bvars>>
  \/ /\ Used("key") /\ KeyNext
     /\ UNCHANGED <<used, cipher_vars, hvars, tvars, vars, dvars, wvars, bvars>>
  \/ /\ Used("hmac") /\ HmacNext
     /\ UNCHANGED <<used, cipher_vars, kvars, tvars, vars, dvars, wvars, bvars>>
  \/ /\ Used("random") /\ TextNext
     /\ UNCHANGED <<used, cipher_vars, kvars, hvars, vars, dvars, wvars, bvars>>
  \/ /\ Used("search") /\ Next
     /\ UNCHANGED <<used, cipher_vars, kvars, hvars, tvars, dvars, wvars, bvars>>
  \/ /\ Used("split") /\ SplitNext
     /\ UNCHANGED <<used, cipher_vars, kvars, hvars, tvars, vars, wvars, bvars>>
  \/ /\ Used("bits") /\ BitNext
     /\ UNCHANGED <<used, cipher_vars, kvars, hvars, tvars, vars, dvars, wvars>>

computed == <<used, cipher_vars, kvars, hvars, tvars, vars, dvars, wvars, bvars>>

\* The fair actions of the other modules are not enabled.
ComputationsSpec ==
  /\ ComputationsInit /\ [][ComputationsNext]_computed
  /\ WF_cipher_vars(CipherContinue) /\ WF_vars(Continue) /\ WF_tvars(DrawTurn /\ fill' > fill)

-----------------------------------------------------------------------------
(* Properties.                                                             *)

\* Every variable of every part has its type: no number that counts bytes fell
\* below 0, no search for a delimiter begins behind the string's 0, and no bit is
\* kept in a word the vector has not.
ComputationsTypeOK ==
  /\ CipherTypeOK /\ KeyTypeOK /\ HmacTypeOK /\ TextTypeOK
  /\ TypeOK /\ SplitTypeOK /\ WordsTypeOK /\ BitTypeOK

\* The loops of the cipher, of the searches and of the random texts end, whatever
\* the lengths, the patterns and the set of characters.
ComputationsReturn == CallsReturn /\ SearchReturns /\ TextIsFilled

===============================================================================
