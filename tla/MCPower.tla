------------------------------ MODULE MCPower ------------------------------
(* The instances for TLC of what decides that a study runs, and of what it *)
(* runs from.  PowerLedger: the commands of one process, or those of two   *)
(* that interleave.  ProviderAuthority: two tasks on two lanes, and what   *)
(* may be wrong with their documents.  They share no state, so one is at   *)
(* work in each behaviour.                                                 *)
EXTENDS PowerLedger, ProviderAuthority, TLC

(* Bound of the ledger two processes share.                                *)
MCInterleaved == 5

(* A sound study: t1 is planned on l0, t2 on l1; a task that talks to a user   *)
(* has a simulator on its lane.                                                *)
Owned(roles, owners) == roles \X owners
MCNames ==
    Owned(LaneAssets \cup {"lane"}, {"l0", "l1"})
    \cup Owned((TaskAssets \ {"isolation_qualification"}) \cup {"row", "entry", "branches"}, TaskIds)
    \cup Owned(StudyAssets, {"s"}) \cup Owned({"synthetic_execution_program"}, {"b1", "b2"})
    \cup {<<"isolation_qualification", "q">>, <<"tokenizer", "x">>, <<"note", "x">>}
    \cup Owned({"source_revision"}, {"a", "b", "c"})

Single(role, owner) == {RefTo(<<role, owner>>)}
MCSources == Single("source_revision", "a")
TaskOn(o) == IF o \in {"l0", "b1"} THEN "t1" ELSE "t2"
LaneFor(o) == IF o \in {"t1", "b1"} THEN "l0" ELSE "l1"
Number(lane) == IF lane = "l0" THEN 0 ELSE 1
CallDoc(role, o, caps) ==
    [kind |-> role, seeded |-> "call-seed-v1", tokenizer |-> {Tokenizer}, prompt |-> Single("prompt_template", o),
     schema |-> Single("tool_schema", o), sources |-> MCSources, grammar |-> o,
     total |-> caps.total, percall |-> caps.percall]
MCCaps == [total |-> [tokens |-> 2, calls |-> 2, turns |-> 2], percall |-> [tokens |-> 1, turns |-> 1]]
ProgramDoc(task, o) ==
    [kind |-> "synthetic_execution_program", task |-> task, trigger |-> "verifier_feedback",
     schema |-> Single("tool_schema", LaneFor(task)), evidence |-> Single("synthetic_request", task),
     calls |-> <<{"grep"}, {}>>, adverse |-> {}, observed |-> {1}, failing |-> {},
     indices |-> <<0, 1>>, times |-> <<0, 3>>, inject |-> [stage |-> "none", at |-> 0]]
TaskDoc(role, o) == [kind |-> role, task |-> o, benchmark |-> o, sources |-> MCSources]

LaneDoc(o, talking) ==
    LET talks == TaskOn(o) \in talking IN
    [kind |-> "lane", ordinal |-> Number(o), id |-> o,
     prefix |-> [tokens |-> 1, calls |-> 2], branch |-> [tokens |-> 2, calls |-> 1],
     simulated |-> IF talks THEN MCCaps ELSE NoCaps,
     subject |-> Single("subject_contract", o),
     simulator |-> IF talks THEN Single("simulator_contract", o) ELSE {},
     parser |-> Single("tool_parser_contract", o), meter |-> Single("meter_contract", o)]
RowDoc(o) ==
    [kind |-> "row", task |-> o, lane |-> Number(LaneFor(o)), ranks |-> [k \in 1..4 |-> Number(LaneFor(o))],
     input |-> Single("task_input", o), environment |-> Single("environment_contract", o),
     grader |-> Single("grader_contract", o), verifier |-> Single("verifier_contract", o),
     isolation |-> Single("isolation_contract", o)]
BranchesDoc(o) ==
    LET program == Single("synthetic_execution_program", IF o = "t1" THEN "b1" ELSE "b2") IN
    [task |-> o, branch0 |-> program, branch1 |-> program, branch2 |-> program, branch3 |-> program]

MCSound(talking, confirm) == [n \in MCNames |->
    LET role == n[1]  o == n[2] IN
    CASE role \in {"subject_contract", "simulator_contract"} -> CallDoc(role, o, MCCaps)
      [] role = "tool_parser_contract" ->
           [kind |-> role, schema |-> Single("tool_schema", o), sources |-> MCSources, grammar |-> o]
      [] role = "meter_contract" ->
           [kind |-> role, clock |-> Single("clock_source", o), watchdog |-> Single("watchdog_source", o),
            zero |-> ~confirm, sources |-> MCSources]
      [] role = "tool_schema" -> [kind |-> role, tools |-> {"grep"}]
      [] role = "lane" -> LaneDoc(o, talking)
      [] role = "row" -> RowDoc(o)
      [] role = "entry" -> [task |-> o, benchmark |-> o]
      [] role = "branches" -> BranchesDoc(o)
      [] role = "task_input" ->
           [kind |-> role, task |-> o, benchmark |-> o, talks |-> o \in talking, actors |-> <<"subject", "subject">>,
            payload |-> Single("deep_authority_asset", o), program |-> Single("synthetic_execution_program", o)]
      [] role \in {"environment_contract", "grader_contract", "verifier_contract"} -> TaskDoc(role, o)
      [] role = "isolation_contract" ->
           [kind |-> role, task |-> o, benchmark |-> o, sources |-> MCSources, distinct |-> TRUE,
            qualification |-> Single("isolation_qualification", o)]
      [] role = "synthetic_execution_program" -> ProgramDoc(IF o \in TaskIds THEN o ELSE TaskOn(o), o)
      [] role = "task_registry" -> [kind |-> role, tasks |-> <<"t1", "t2">>]
      [] role = "provider_lane_plan" -> [kind |-> role, lanes |-> <<"l0", "l1">>, rows |-> <<"t1", "t2">>]
      [] role = "branch_program_registry" -> [kind |-> role, tasks |-> <<"t1", "t2">>]
      [] role = "roster" ->
           [kind |-> role, tasks |-> <<"t1", "t2">>,
            roster |-> IF confirm THEN "eligible_confirmation" ELSE "synthetic_fixture"]
      [] role = "assignment_program" ->
           [kind |-> role, mode |-> IF confirm THEN "confirmation_lineage_matching" ELSE "synthetic_derangement",
            algorithm |-> IF confirm THEN "exact_constrained_min_cost_v1" ELSE "synthetic_cyclic_offset_v1",
            backend |-> IF confirm THEN "receipt" ELSE "null", normalizer |-> MCSources,
            digest |-> One(MCSources).sha, tokenizerDigest |-> Tokenizer.sha, runtime |-> "controller"]
      [] OTHER -> [kind |-> role]]

(* What may be wrong with a field.  Another owner's document of the role, a      *)
(* document of another kind, bytes of another document under its path, a role or *)
(* a media type that is not the document's, a path outside the copied tree.      *)
Twin == [l0 |-> "l1", l1 |-> "l0", t1 |-> "t2", t2 |-> "t1", b1 |-> "b2", b2 |-> "b1", s |-> "x",
         a |-> "b"]
RefChanges(f, refs) ==
    IF refs = {} THEN [spare |-> Single("simulator_contract", "l0")]
    ELSE LET ref == One(refs)
             common == [sibling |-> Single(ref.role, Twin[ref.path[2]]),
                        decoy |-> {[ref EXCEPT !.path = <<"note", "x">>, !.sha = <<"note", "x">>]},
                        alias |-> {[ref EXCEPT !.sha = <<"note", "x">>]},
                        role |-> {[ref EXCEPT !.role = "grade_evidence"]},
                        media |-> {[ref EXCEPT !.media = "text"]},
                        outside |-> {[ref EXCEPT !.path = <<"outside", ref.role, ref.path[2]>>]},
                        none |-> {}]
         IN  IF f = "sources" THEN common @@ [stranger |-> Single("source_revision", "c"),
                                              both |-> refs \cup Single("source_revision", "b")]
             ELSE common
ValueChanges(n, f, old) ==
    CASE f = "kind" -> IF n[1] = "provider_lane_plan"
                       THEN [other |-> "note", first |-> "provider_lane_plan_v1"] ELSE [other |-> "note"]
      [] f \in {"total"} -> [more |-> [old EXCEPT !.tokens = 9], fewer |-> [old EXCEPT !.calls = 1]]
      [] f = "percall" -> [more |-> [old EXCEPT !.turns = 9]]
      [] f \in {"prefix", "branch"} -> [more |-> [old EXCEPT !.tokens = 9, !.calls = 9]]
      [] f = "simulated" -> [more |-> [old EXCEPT !.total.turns = 9], spare |-> [old EXCEPT !.percall.turns = 3]]
      [] f \in {"ordinal"} -> [other |-> 2]
      [] f = "lane" -> [other |-> 2, sibling |-> 1 - old]
      [] f = "ranks" -> [other |-> <<0, 0, 0, 2>>, short |-> <<0, 0, 0>>]
      [] f = "id" -> [sibling |-> Twin[old]]
      [] f = "task" -> [sibling |-> Twin[old], other |-> "unknown"]
      [] f \in {"talks", "zero", "distinct"} -> [other |-> ~old]
      [] f = "tools" -> [none |-> {}, other |-> {"cat"}]
      [] f = "calls" -> [other |-> <<{"rm"}, {}>>]
      [] f = "indices" -> [gap |-> <<0, 2>>]
      [] f = "times" -> [back |-> <<3, 0>>]
      [] f = "inject" -> [far |-> [stage |-> "provider", at |-> 5], sound |-> [stage |-> "provider", at |-> 1],
                          tool |-> [stage |-> "tool", at |-> 1], silent |-> [stage |-> "tool", at |-> 2]]
      [] f = "actors" -> [short |-> <<"subject">>]
      [] f = "tasks" /\ n[1] = "task_registry" -> [short |-> <<"t1">>, double |-> <<"t1", "t1">>]
      [] f \in {"tasks", "rows"} -> [short |-> <<"t1">>, swapped |-> <<"t2", "t1">>, double |-> <<"t1", "t1">>]
      [] f = "lanes" -> [short |-> <<"l0">>, swapped |-> <<"l1", "l0">>]
      [] f \in {"grammar", "seeded", "benchmark", "roster", "mode", "algorithm", "backend", "runtime"} ->
           [other |-> "another"]
      [] f \in {"digest", "tokenizerDigest"} -> [other |-> <<"note", "x">>]
      [] OTHER -> <<>>
MCChanges(n, f, old) == IF f \in RefFields THEN RefChanges(f, old) ELSE ValueChanges(n, f, old)

VARIABLE at    \* what is at work

NoDossier == [docs |-> <<>>, fault |-> NoFault, eligible |-> FALSE]

MCInit ==
    /\ at \in {"power", "authority"}
    /\ Init /\ \E p \in Procs : pc[p] = "idle"
    /\ at = "authority" => \A p \in Procs : pc[p] = "idle"
    /\ IF at = "authority" THEN AInit
       ELSE /\ dossier = NoDossier /\ disk = <<>> /\ manifest = "none" /\ schedule = NoSchedule
            /\ loading = Idle /\ granted = NoGrant /\ meddled = "never"

\* A study that is refused, or an authority that is, or is handed out, is the end.
Answered == manifest = "refused" \/ loading.stage = "refused" \/ granted # NoGrant

MCNext ==
    \/ at = "power" /\ Next /\ UNCHANGED <<at, avars>>
    \/ at = "authority" /\ ANext /\ UNCHANGED <<at, vars>>
    \/ at = "authority" /\ Answered /\ UNCHANGED <<at, vars, avars>>
MCSpec == MCInit /\ [][MCNext]_<<at, vars, avars>>

MCBound == (Len(ledger) <= MCInterleaved \/ Alone) /\ Assert(ATypeOK, "ATypeOK")
Sym == Permutations(Procs)
=============================================================================
