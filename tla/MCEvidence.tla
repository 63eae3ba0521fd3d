----------------------------- MODULE MCEvidence -----------------------------
(* The instances for TLC of three protocols over files that several          *)
(* processes share: the sealing of the prefix index, the baseline launcher     *)
(* and the execution journal.  They share no state, so one is at work in each  *)
(* behaviour: sealing with two controllers and three callers in two processes, *)
(* the launcher with the actors of one crew, or the journal.                  *)
EXTENDS PrefixSealing, BaselineCapture, ExecutionJournal, TLC

CONSTANTS w1, w2, c1, c2, c3, p1, p2, a1
MCProcessOf == c1 :> p1 @@ c2 :> p1 @@ c3 :> p2
Sym == Permutations({w1, w2}) \cup Permutations({c1, c2})

VARIABLE at    \* the protocol at work

(* The worktree is edited and the edit undone while one launcher works,       *)
(* edited while an auditor does too, and left alone while launchers disturb     *)
(* each other.                                                                  *)
Crew == {a \in Actors : actor[a].pc # "off"}
MCInit ==
  /\ Init /\ BInit /\ JInit
  /\ at \in {"sealing", "baseline", "journal"}
  /\ at = "baseline" <=> Crew # {}
  /\ edits = IF Crew = {} THEN 0 ELSE IF Cardinality(Crew) = 1 THEN MaxEdits
             ELSE IF Cardinality(Crew \cap Launchers) = 1 THEN 1 ELSE 0

MCNext ==
  \/ at = "sealing" /\ Next /\ UNCHANGED <<at, bvars, jvars>>
  \/ at = "baseline" /\ BNext /\ UNCHANGED <<at, vars, jvars>>
  \/ at = "journal" /\ JNext /\ UNCHANGED <<at, vars, bvars>>
MCSpec == MCInit /\ [][MCNext]_<<at, vars, bvars, jvars>>

(* The type invariants are asserted on every state.                           *)
Typed == Assert(TypeOK /\ BTypeOK /\ JTypeOK, "TypeOK")
=============================================================================
