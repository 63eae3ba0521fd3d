---------------------------- MODULE MCArtifacts ----------------------------
(* Instances of ArtifactPublication for TLC.                               *)
EXTENDS ArtifactPublication, TLC

Sym == Permutations(Writers)

(* The type invariant is asserted on every state.                          *)
Typed == Assert(TypeOK, "TypeOK")
=============================================================================
