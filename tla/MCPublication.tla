--------------------------- MODULE MCPublication ---------------------------
(* The instance of BoundPublication for TLC: one transaction against all   *)
(* the peers, or two transactions of which nobody disturbs either.         *)
EXTENDS BoundPublication, TLC

First == CHOOSE p \in Procs : TRUE
Coming == {p \in Procs : pc[p] = "idle"}
MCInit ==
    /\ Init
    /\ \/ Coming = {First} /\ idle = Peers
       \/ Coming = Procs /\ idle = {} /\ sources = None
MCSpec == MCInit /\ [][Next]_vars /\ \A p \in Procs : WF_vars(Step(p))

(* The processes differ only in name: First is the first to begin.         *)
InOrder == \A p \in Procs \ {First} :
    pc[p] = "idle" /\ pc'[p] # "idle" => pc[First] # "idle"

(* The type invariant is asserted on every state.                          *)
Typed == Assert(TypeOK, "TypeOK")
=============================================================================
