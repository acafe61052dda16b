----------------------------- MODULE KeyDerivation -----------------------------
(***************************************************************************)
(* libaan::pbkdf2 and pkcs5_F (libaan/crypto.cc): a key is made of blocks, *)
(* a block is the XOR of a chain of HMAC outputs.  Outputs are symbolic:   *)
(* the one of round r is the number r, 0 is memory that was never written, *)
(* and a XOR is the set of rounds that went into it an odd number of times.*)
(***************************************************************************)
EXTENDS Naturals

CONSTANTS
  PrfLength,   \* PRF_OUTPUT_LENGTH, 20
  MaxBlocks,   \* 2^32 - 1 of them at most
  Counts,      \* values of iteration_count
  KeyLengths   \* values of derived_key_length

ASSUME KeyAssumption ==
  /\ PrfLength \in Nat \ {0} /\ MaxBlocks \in Nat
  /\ Counts \subseteq Nat /\ KeyLengths \subseteq Nat

VARIABLES
  kd_pc,      \* "idle", "block" in the loop of pbkdf2, "chain" in that of pkcs5_F
  ic, key_length,
  block,      \* i of pbkdf2
  turn,       \* i of pkcs5_F
  out, ulast,
  key,        \* what was written to derived_key: for each byte, block, rounds and place
  derived,    \* what the last call returned
  unnoticed   \* history: whether an HMAC failed in it

kvars == <<kd_pc, ic, key_length, block, turn, out, ulast, key, derived, unnoticed>>

-----------------------------------------------------------------------------
\* l and r of pbkdf2.
FullBlocks == key_length \div PrfLength
Rest == key_length % PrfLength

KeyInit ==
  /\ kd_pc = "idle" /\ ic = 0 /\ key_length = 0 /\ block = 0 /\ turn = 0
  /\ out = {} /\ ulast = 0 /\ key = [j \in {} |-> 0]
  /\ derived = "none" /\ unnoticed = FALSE

Derive(c, n) ==
  /\ kd_pc = "idle"
  /\ ic' = c /\ key_length' = n /\ block' = 1 /\ turn' = 0
  /\ out' = {} /\ ulast' = 0 /\ key' = [j \in {} |-> 0] /\ unnoticed' = FALSE
  /\ IF n > MaxBlocks * PrfLength
     THEN derived' = "false" /\ UNCHANGED kd_pc
     ELSE derived' = "none" /\ kd_pc' = "block"

\* Mutated form: nothing is done for a rest of less than a block.
FullOnly == block <= FullBlocks

\* for(i = 1; i <= l; i++), and once more if(r).
MoreBlocks == block <= FullBlocks \/ (block = FullBlocks + 1 /\ Rest # 0)

\* pkcs5_initial_prf; one that fails prints a line and leaves ulast unset.
StartBlock ==
  /\ kd_pc = "block" /\ MoreBlocks
  /\ kd_pc' = "chain" /\ turn' = 1 /\ out' = {}
  /\ \/ ulast' = 1 /\ UNCHANGED unnoticed
     \/ ulast' = 0 /\ unnoticed' = TRUE
  /\ UNCHANGED <<ic, key_length, block, key, derived>>

Xored(set, round) == IF round \in set THEN set \ {round} ELSE set \cup {round}

\* while (i++ <= ic): XOR, and the next output, of the one before, or none.
Chain ==
  /\ kd_pc = "chain" /\ turn <= ic
  /\ turn' = turn + 1
  /\ out' = Xored(out, ulast)
  /\ \/ ulast' = (IF ulast = 0 THEN 0 ELSE ulast + 1) /\ UNCHANGED unnoticed
     \/ ulast' = ulast /\ unnoticed' = TRUE
  /\ UNCHANGED <<kd_pc, ic, key_length, block, key, derived>>

\* A full block goes to the key in place, a rest by way of final.
BlockBytes == IF block <= FullBlocks THEN PrfLength ELSE Rest

Offset == (block - 1) * PrfLength

\* The XOR behind the loop, and on to the next block.
LastXor ==
  /\ kd_pc = "chain" /\ turn > ic
  /\ turn' = turn + 1
  /\ out' = Xored(out, ulast)
  /\ key' = [j \in DOMAIN key \cup (Offset .. Offset + BlockBytes - 1) |->
               IF j < Offset THEN key[j]
               ELSE [block |-> block, rounds |-> out', byte |-> j - Offset]]
  /\ block' = block + 1 /\ kd_pc' = "block"
  /\ UNCHANGED <<ic, key_length, ulast, derived, unnoticed>>

KeyReturns ==
  /\ kd_pc = "block" /\ ~MoreBlocks
  /\ kd_pc' = "idle" /\ derived' = "true"
  /\ UNCHANGED <<ic, key_length, block, turn, out, ulast, key, unnoticed>>

KeyStep == StartBlock \/ Chain \/ LastXor \/ KeyReturns

KeyNext == KeyStep \/ \E c \in Counts, n \in KeyLengths : Derive(c, n)

KeySpec == KeyInit /\ [][KeyNext]_kvars

-----------------------------------------------------------------------------
(* Properties.                                                             *)

\* Every variable has its type.
KeyTypeOK ==
  /\ kd_pc \in {"idle", "block", "chain"} /\ derived \in {"none", "true", "false"}
  /\ ic \in Nat /\ key_length \in Nat /\ block \in Nat /\ turn \in Nat /\ ulast \in Nat
  /\ out \subseteq Nat /\ unnoticed \in BOOLEAN
  /\ key \in [DOMAIN key -> [block : Nat, rounds : SUBSET Nat, byte : Nat]]
  /\ DOMAIN key \subseteq Nat

\* The key whose blocks are the XOR of the first n outputs, byte by byte.
KeyOfRounds(n) ==
  [j \in 0 .. key_length - 1 |->
     [block |-> (j \div PrfLength) + 1, rounds |-> 1 .. n, byte |-> j % PrfLength]]

Succeeded == kd_pc = "idle" /\ derived = "true" /\ ~unnoticed

\* Every byte of the key is written once, none behind its end, each from its own
\* block and with all rounds of its chain, which are one more than were asked for.
KeyIsComplete == Succeeded => key = KeyOfRounds(ic + 1)

\* crypto.hh: "This is an implementation of the PKCS#5 PBKDF2 PRF", where the
\* XOR goes over as many rounds as the count says.
Pkcs5Function == Succeeded /\ ic > 0 => key = KeyOfRounds(ic)
=============================================================================
