------------------------------ MODULE MCPrefix ------------------------------
(* An instance of PrefixLoop with three authorities: tight caps and a deadline
   that is reached and passed; a simulator with caps of its own; and enough
   time and tools for a trigger at the fourth tool call.  The sealed prefixes of
   a fourth one, which has both actors, are wired wrong in every way. *)
EXTENDS CandidateReading, TLC

Cap(tokens, calls, turns, percall) ==
    [tokens |-> tokens, calls |-> calls, turns |-> turns, percall |-> percall]
Tight == [caps |-> [primary_subject |-> Cap(2, 2, 2, 1), user_simulator |-> Cap(0, 0, 0, 0)],
          tools |-> 1, wall |-> 1, simulator |-> FALSE]
Talking == [caps |-> [primary_subject |-> Cap(3, 3, 1, 2), user_simulator |-> Cap(1, 1, 1, 2)],
            tools |-> 2, wall |-> 1, simulator |-> TRUE]
Roomy == [caps |-> [primary_subject |-> Cap(9, 9, 9, 9), user_simulator |-> Cap(0, 0, 0, 0)],
          tools |-> 5, wall |-> 9, simulator |-> FALSE]
Brief == [caps |-> [primary_subject |-> Cap(2, 2, 2, 1), user_simulator |-> Cap(1, 1, 1, 1)],
          tools |-> 1, wall |-> 1, simulator |-> TRUE]
MCSampled == {Brief}
MCAuthorities == {Tight, Talking, Roomy, Brief}
Bounds(n, calls, tokens, time) ==
    [rows |-> n, calls |-> calls, tokens |-> tokens, time |-> time]
MCBound == Tight :> Bounds(2, 2, 2, 2) @@ Talking :> Bounds(2, 1, 2, 2)
           @@ Roomy :> Bounds(2, 3, 1, 0) @@ Brief :> Bounds(2, 1, 1, 0)

MCInit == Init /\ wire = Straight
MCNext == (Next /\ UNCHANGED wire) \/ CrossWire
MCSpec == MCInit /\ [][MCNext]_<<vars, wire>>

(* The type invariant is asserted on every state.                          *)
Typed == Assert(TypeOK, "TypeOK")
=============================================================================
