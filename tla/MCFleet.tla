------------------------------- MODULE MCFleet -------------------------------
(* The instances for TLC of two controllers of child processes: the fleet of  *)
(* a prefix's workers and the pool of test workers.  They share no state, so  *)
(* one is at work in each behaviour.                                          *)
EXTENDS EnvironmentFleet, TestPool, TLC

(* A helper two modules import, one of which nothing is known to depend on,   *)
(* and a change that is structural.                                           *)
MCImporters == [helper |-> {"core"}, core |-> {}, orphan |-> {}, config |-> {"core"}]
MCConsumers == [helper |-> {}, core |-> {"t1"}, orphan |-> {}, config |-> {"t3"}]

VARIABLE at    \* the controller at work

MCInit ==
  /\ Init /\ TInit
  /\ at \in {"fleet", "pool"}
  /\ at = "pool" => \A i \in Workers : left[i] = 0
  /\ at = "fleet" => stubborn = {}
MCNext ==
  \/ at = "fleet" /\ Next /\ UNCHANGED <<at, tvars>>
  \/ at = "pool" /\ TNext /\ UNCHANGED <<at, vars>>

(* Each controller is one thread whose waits all have a limit; nothing is     *)
(* assumed of the children.                                                   *)
MCSpec ==
  /\ MCInit /\ [][MCNext]_<<at, vars, tvars>>
  /\ WF_<<at, vars, tvars>>(at = "fleet" /\ Controller /\ UNCHANGED <<at, tvars>>)
  /\ WF_<<at, vars, tvars>>(at = "pool" /\ Supervise /\ UNCHANGED <<at, vars>>)

(* Whatever the children do, their controllers come to an end: the fleet is   *)
(* closed, and every test request is answered or fails.                       *)
ControllersEnd ==
  /\ at = "fleet" ~> pc = "closed"
  /\ (at = "pool" /\ supervisor # "idle") ~> supervisor = "idle"

(* The type invariants are asserted on every state.                           *)
Typed == Assert(TypeOK /\ TTypeOK, "TypeOK")
==============================================================================
