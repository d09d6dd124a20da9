------------------------------- MODULE MCWalIo -------------------------------
(***************************************************************************)
(* A small instance of WalIo.                                              *)
(***************************************************************************)
EXTENDS WalIo
===============================================================================
