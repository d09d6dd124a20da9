----------------------------- MODULE MCBodyStore -----------------------------
(***************************************************************************)
(* Small instances of BodyStore: one body, one shard key, one write id.    *)
(***************************************************************************)
EXTENDS BodyStore
===============================================================================
