----------------------------- MODULE MCConvertTool -----------------------------
(* Runs of the converter on the plaintexts of MCCryptoFile. *)
EXTENDS ConvertTool, MCCryptoFile
=============================================================================
