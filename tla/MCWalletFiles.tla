--------------------------- MODULE MCWalletFiles ----------------------------
(***************************************************************************)
(* Small instances of WalletFiles for TLC.                                 *)
(***************************************************************************)
EXTENDS WalletFiles
=============================================================================
