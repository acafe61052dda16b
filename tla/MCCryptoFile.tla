---------------------------- MODULE MCCryptoFile ----------------------------
(* Values of CryptoFile's constants for TLC: plaintexts by ciphertext       *)
(* length, and sets of faults.                                              *)
EXTENDS CryptoFile, TLC

CONSTANTS noText, shortText, longText, shortZeros, longZeros, h1, h2, pwA, pwB

\* Garbage and the zeroed long text are the same plaintext.
MCDocs == {noText, shortText, longText, shortZeros, longZeros}

\* 0, 1 and 2 ciphertext blocks: empty, 1 to 15 bytes, 16 to 31 bytes.
MCBlocks ==
  [d \in MCDocs |->
     CASE d = noText                    -> 0
       [] d \in {shortText, shortZeros} -> 1
       [] OTHER                         -> 2]

MCZeroed ==
  [d \in MCDocs |->
     CASE d = noText                     -> noText
       [] d \in {shortText, shortZeros} -> shortZeros
       [] OTHER                         -> longZeros]

\* Without the one-block plaintexts.
MCFewDocs   == {noText, longText, longZeros}
MCFewBlocks == [d \in MCFewDocs |-> MCBlocks[d]]
MCFewZeroed == [d \in MCFewDocs |-> MCZeroed[d]]
MCOneDoc == {longText}

\* Handles are interchangeable: Init and Next treat all of them alike.
MCHandleSymmetry == Permutations({h1, h2})

\* So are passwords, and nothing compares them but for equality.
MCPasswordSymmetry == Permutations({pwA, pwB})
=============================================================================
