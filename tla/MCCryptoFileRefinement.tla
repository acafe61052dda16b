------------------------ MODULE MCCryptoFileRefinement ------------------------
(* CryptoFileRefinement with the plaintexts of MCCryptoFile that have no     *)
(* one-block ciphertext.                                                     *)
EXTENDS CryptoFileRefinement, MCCryptoFile
=============================================================================
