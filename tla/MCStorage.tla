----------------------------- MODULE MCStorage -----------------------------
(* Small instances of StorageTransaction for TLC.                          *)
EXTENDS StorageTransaction, TLC
===========================================================================
