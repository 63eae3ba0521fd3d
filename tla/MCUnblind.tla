----------------------------- MODULE MCUnblind -----------------------------
(* TLC instances of UnblindTransaction.  Destinations are strings and      *)
(* every kind of record has its own.                                       *)
EXTENDS UnblindTransaction, TLC

MCPairPaths == {"r1", "r2"}
MCPaths == {"r1", "r2", "f1", "f2", "b1", "b2", "p1", "p2"}
MCRecordPaths == [freeze |-> {"f1"}, task_block |-> {"b1"}, projection |-> {"p1", "p2"}]

(* The type invariant is asserted on every state.                          *)
Typed == Assert(TypeOK, "TypeOK")
=============================================================================
