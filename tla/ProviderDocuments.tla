-------------------------- MODULE ProviderDocuments --------------------------
(***************************************************************************)
(* The documents a study is executed from, and how they are validated      *)
(* (resampling_null/provider_contracts.py, provider_contract_assets.py,    *)
(* the programs of prefix_contracts.py, the registry and the assignment    *)
(* program of preflight.py, branch_program_authority.py).                  *)
(*                                                                         *)
(* A document is a record.  Its "kind" stands for its record kind, version *)
(* and closed shape; a field of RefFields is a set of references (empty    *)
(* where the field is null); any other field is a value.  A reference      *)
(* names a role, a path, a digest and a media type; the digest is the name *)
(* of a content, <<kind, owner>>, and the byte count goes with it.  The    *)
(* rows of the plan and of the registries are documents under kinds that   *)
(* no file has.  Two tasks, each planned on a lane of its own.             *)
(***************************************************************************)
EXTENDS Integers, Sequences, FiniteSets, FiniteSetsExt

TaskIds == {"t1", "t2"}
Precedes(t, u) == t = "t1" /\ u = "t2"
HomeLane == [t1 |-> "l0", t2 |-> "l1"]

RefFields == {"tokenizer", "prompt", "schema", "sources", "clock", "watchdog", "qualification",
              "payload", "program", "evidence", "subject", "simulator", "parser", "meter", "input",
              "environment", "grader", "verifier", "isolation", "normalizer",
              "branch0", "branch1", "branch2", "branch3"}
LaneAssets == {"subject_contract", "simulator_contract", "tool_parser_contract", "meter_contract",
               "prompt_template", "tool_schema", "clock_source", "watchdog_source"}
TaskAssets == {"task_input", "environment_contract", "grader_contract", "verifier_contract",
               "isolation_contract", "isolation_qualification", "synthetic_execution_program",
               "deep_authority_asset", "synthetic_request"}
StudyAssets == {"task_registry", "roster", "assignment_program", "provider_lane_plan",
                "branch_program_registry", "tokenizer"}
AssetRoles == LaneAssets \cup TaskAssets \cup StudyAssets \cup {"source_revision"}
MediaOf(role) == IF role = "source_revision" THEN "octets" ELSE "json"

\* The two isolation qualifications say the same, in files of their own.
ContentAt(path) == IF path[1] = "isolation_qualification" THEN <<path[1], "q">> ELSE path
RefTo(path) == [role |-> path[1], path |-> path, sha |-> ContentAt(path), media |-> MediaOf(path[1])]
OfStudy(role) == RefTo(<<role, "s">>)

-----------------------------------------------------------------------------
(* References and what they reach.                                         *)

\* The file of a plan or a registry holds its rows.
PartsOf(docs, sha) ==
    LET d == docs[sha] IN
    CASE d.kind = "provider_lane_plan" ->
           {<<"lane", d.lanes[i]>> : i \in DOMAIN d.lanes} \cup {<<"row", d.rows[i]>> : i \in DOMAIN d.rows}
      [] d.kind = "branch_program_registry" -> {<<"branches", d.tasks[i]>> : i \in DOMAIN d.tasks}
      [] OTHER -> {sha}
WalkArtifactRefs(docs, parts) == UNION {UNION {docs[p][f] : f \in DOMAIN docs[p] \cap RefFields} : p \in parts}
Nested(docs, ref) == IF ref.media = "json" THEN WalkArtifactRefs(docs, PartsOf(docs, ref.sha)) ELSE {}

\* The longest chain is plan, task input, program, schema.
OneMore(docs, refs) == refs \cup UNION {Nested(docs, ref) : ref \in refs}
ClosureOf(docs, refs) == OneMore(docs, OneMore(docs, OneMore(docs, refs)))

\* decode_contract_ref: exactly one reference, with this role and its media type.
DecodesContractRef(refs, role) == \E ref \in refs : refs = {ref} /\ ref.role = role /\ ref.media = MediaOf(role)
One(refs) == CHOOSE ref \in refs : TRUE
Target(docs, refs) == docs[One(refs).sha]

\* _verify_registered_authority_graph
RegisteredGraph(docs, refs) ==
    \A ref \in ClosureOf(docs, refs) : ref.role \in AssetRoles /\ ref.media = MediaOf(ref.role)

\* _validate_source_revisions, and the single source of an implementation.
FromManifest(refs, revisions) ==
    refs # {} /\ \A ref \in refs : DecodesContractRef({ref}, "source_revision") /\ ref \in revisions
OneSource(refs, revisions) == FromManifest(refs, revisions) /\ Cardinality(refs) = 1

-----------------------------------------------------------------------------
(* Contracts.                                                              *)

CallContract(docs, refs, role, tokenizer, revisions) ==
    /\ DecodesContractRef(refs, role)
    /\ LET d == Target(docs, refs) IN
       /\ d.kind = role /\ d.seeded = "call-seed-v1"
       /\ d.tokenizer = {tokenizer} /\ DecodesContractRef(d.tokenizer, "tokenizer")
       /\ DecodesContractRef(d.prompt, "prompt_template")
       /\ DecodesContractRef(d.schema, "tool_schema")
       /\ d.percall.tokens <= d.total.tokens /\ d.percall.turns <= d.total.turns
       /\ OneSource(d.sources, revisions)

ParserContract(docs, refs, revisions) ==
    /\ DecodesContractRef(refs, "tool_parser_contract")
    /\ LET d == Target(docs, refs) IN
       /\ d.kind = "tool_parser_contract"
       /\ DecodesContractRef(d.schema, "tool_schema")
       /\ OneSource(d.sources, revisions)

MeterContract(docs, refs, revisions) ==
    /\ DecodesContractRef(refs, "meter_contract")
    /\ LET d == Target(docs, refs) IN
       /\ d.kind = "meter_contract"
       /\ DecodesContractRef(d.clock, "clock_source") /\ DecodesContractRef(d.watchdog, "watchdog_source")
       /\ OneSource(d.sources, revisions)

TaskContract(docs, refs, role, task, benchmark, revisions) ==
    /\ DecodesContractRef(refs, role)
    /\ LET d == Target(docs, refs) IN
       /\ d.kind = role /\ d.task = task /\ d.benchmark = benchmark
       /\ IF role = "isolation_contract"
          THEN /\ d.distinct /\ FromManifest(d.sources, revisions)
               /\ DecodesContractRef(d.qualification, "isolation_qualification")
          ELSE OneSource(d.sources, revisions)

-----------------------------------------------------------------------------
(* Execution programs and task inputs.                                     *)

\* The call that a failure is injected into must be one of the transcript
\* whose completion, or whose tool observation, is the failure.
InjectionFits(program) ==
    LET call == program.inject.at IN
    CASE program.inject.stage = "provider" -> call \in DOMAIN program.calls \cap program.adverse
      [] program.inject.stage = "tool" ->
           /\ call \in DOMAIN program.calls /\ program.calls[call] # {}
           /\ call \in program.observed \cap program.failing
      [] OTHER -> TRUE

Increasing(s) == \A i, j \in DOMAIN s : i <= j => s[i] <= s[j]
ProgramDecodes(program) ==
    /\ program.kind = "synthetic_execution_program"
    /\ DecodesContractRef(program.evidence, "synthetic_request")
    /\ DecodesContractRef(program.schema, "tool_schema")
    /\ \A i \in DOMAIN program.indices : program.indices[i] = i - 1
    /\ Increasing(program.times)
    /\ InjectionFits(program)

BoundProgram(docs, refs, task) ==
    /\ DecodesContractRef(refs, "synthetic_execution_program")
    /\ ProgramDecodes(Target(docs, refs)) /\ Target(docs, refs).task = task

LoadsToolSchema(schema) == schema.kind = "tool_schema"
ToolsFit(program, schema) ==
    /\ LoadsToolSchema(schema)
    /\ program.trigger # "no_intervention_opportunity" => schema.tools # {}
    /\ \A i \in DOMAIN program.calls : program.calls[i] \subseteq schema.tools

ActorRoles(actors, length) == actors # <<>> => Len(actors) = length

TaskInput(docs, refs, task, benchmark, needsProgram) ==
    /\ DecodesContractRef(refs, "task_input")
    /\ LET d == Target(docs, refs) IN
       /\ d.kind = "task_input" /\ d.task = task /\ d.benchmark = benchmark
       /\ RegisteredGraph(docs, d.payload)
       /\ IF d.program = {} THEN ~needsProgram
          ELSE LET program == Target(docs, d.program) IN
               /\ BoundProgram(docs, d.program, task)
               /\ RegisteredGraph(docs, d.program)
               /\ ToolsFit(program, Target(docs, program.schema))
               /\ ActorRoles(d.actors, Len(program.calls))

-----------------------------------------------------------------------------
(* The registry of tasks, the assignment program, the branch programs.     *)

Entries(docs) ==
    LET registry == docs[<<"task_registry", "s">>] IN
    [i \in DOMAIN registry.tasks |-> docs[<<"entry", registry.tasks[i]>>]]
Registered(docs) == {Entries(docs)[i].task : i \in DOMAIN Entries(docs)}
BenchmarkOf(docs, task) ==
    LET i == CHOOSE i \in DOMAIN Entries(docs) : Entries(docs)[i].task = task IN Entries(docs)[i].benchmark
TaskRegistry(docs) ==
    /\ docs[<<"task_registry", "s">>].kind = "task_registry"
    /\ Entries(docs) # <<>>
    /\ \A i, j \in DOMAIN Entries(docs) : Entries(docs)[i].task = Entries(docs)[j].task => i = j

AssignmentProgram(d) ==
    /\ d.kind = "assignment_program"
    /\ <<d.mode, d.algorithm>> \in {<<"synthetic_derangement", "synthetic_cyclic_offset_v1">>,
                                    <<"confirmation_lineage_matching", "exact_constrained_min_cost_v1">>}
    /\ Cardinality(d.normalizer) = 1 /\ d.digest = One(d.normalizer).sha
    /\ (d.backend = "null") = (d.mode = "synthetic_derangement")

BranchFields == <<"branch0", "branch1", "branch2", "branch3">>
BranchRows(docs) ==
    LET registry == docs[<<"branch_program_registry", "s">>] IN
    [i \in DOMAIN registry.tasks |-> docs[<<"branches", registry.tasks[i]>>]]
BranchProgramRegistry(docs) ==
    /\ docs[<<"branch_program_registry", "s">>].kind = "branch_program_registry"
    /\ BranchRows(docs) # <<>>
    /\ \A i \in DOMAIN BranchRows(docs) : \A n \in 1..4 :
          DecodesContractRef(BranchRows(docs)[i][BranchFields[n]], "synthetic_execution_program")
    /\ \A i, j \in DOMAIN BranchRows(docs) :
          i < j => Precedes(BranchRows(docs)[i].task, BranchRows(docs)[j].task)

-----------------------------------------------------------------------------
(* The provider lane plan.                                                 *)

NoCaps == [total |-> [tokens |-> 0, calls |-> 0, turns |-> 0], percall |-> [tokens |-> 0, turns |-> 0]]
CapsOf(contract) == [total |-> contract.total, percall |-> contract.percall]
AllPositive(caps) ==
    /\ \A f \in DOMAIN caps.total : caps.total[f] > 0
    /\ \A f \in DOMAIN caps.percall : caps.percall[f] > 0

\* The lane's own caps, its subject and its parser say the same.
SubjectBinds(lane, subject, parser) ==
    /\ \A f \in {"tokens", "calls"} : Max({lane.prefix[f], lane.branch[f]}) = subject.total[f]
    /\ parser.grammar = subject.grammar /\ parser.schema = subject.schema
SimulatorBindsLoosely(lane, simulator, parser) ==
    lane.simulated = CapsOf(simulator) /\ AllPositive(lane.simulated) /\ parser.grammar = simulator.grammar
SimulatorBinds(lane, simulator, parser) ==
    /\ lane.simulated = CapsOf(simulator) /\ AllPositive(lane.simulated)
    /\ parser.grammar = simulator.grammar /\ parser.schema = simulator.schema

Lane(docs, plan, i) == docs[<<"lane", plan.lanes[i]>>]
DecodesLane(docs, plan, i, tokenizer, revisions, zeroCost) ==
    LET lane == Lane(docs, plan, i) IN
    /\ lane.kind = "lane" /\ lane.ordinal = i - 1
    /\ CallContract(docs, lane.subject, "subject_contract", tokenizer, revisions)
    /\ lane.simulator # {} => CallContract(docs, lane.simulator, "simulator_contract", tokenizer, revisions)
    /\ ParserContract(docs, lane.parser, revisions)
    /\ MeterContract(docs, lane.meter, revisions)
    /\ zeroCost => Target(docs, lane.meter).zero
    /\ SubjectBinds(lane, Target(docs, lane.subject), Target(docs, lane.parser))
    /\ IF lane.simulator = {} THEN lane.simulated = NoCaps
       ELSE SimulatorBinds(lane, Target(docs, lane.simulator), Target(docs, lane.parser))

TaskRow(docs, plan, i) == docs[<<"row", plan.rows[i]>>]
OrdinalsOf(row) == {row.lane} \cup {row.ranks[k] : k \in DOMAIN row.ranks}
DecodesTaskLane(docs, plan, i, revisions, needsProgram) ==
    LET row == TaskRow(docs, plan, i) IN
    /\ row.kind = "row" /\ Len(row.ranks) = 4
    /\ \A ordinal \in OrdinalsOf(row) : ordinal < Len(plan.lanes)
    /\ row.task \in Registered(docs)
    /\ TaskInput(docs, row.input, row.task, BenchmarkOf(docs, row.task), needsProgram)
    /\ \A kind \in {"environment", "grader", "verifier", "isolation"} :
          TaskContract(docs, row[kind], kind \o "_contract", row.task, BenchmarkOf(docs, row.task), revisions)

\* _validate_simulator_assignments
SimulatorsAssigned(docs, plan) ==
    \A i \in DOMAIN plan.lanes :
       LET assigned == {k \in DOMAIN plan.rows : i - 1 \in OrdinalsOf(TaskRow(docs, plan, k))}
           talks == {Target(docs, TaskRow(docs, plan, k).input).talks : k \in assigned}
       IN  IF Lane(docs, plan, i).simulator = {} THEN talks \in {{}, {FALSE}} ELSE talks = {TRUE}

PlanOf(docs) == docs[<<"provider_lane_plan", "s">>]
LanesValid(docs, tokenizer, revisions, zeroCost) ==
    LET plan == PlanOf(docs) IN
    /\ plan.kind = "provider_lane_plan" /\ plan.lanes # <<>>
    /\ \A i \in DOMAIN plan.lanes : DecodesLane(docs, plan, i, tokenizer, revisions, zeroCost)
    /\ \A i, j \in DOMAIN plan.lanes : Lane(docs, plan, i).id = Lane(docs, plan, j).id => i = j
RowsValid(docs, revisions, needsProgram) ==
    LET plan == PlanOf(docs) IN
    /\ \A i \in DOMAIN plan.rows : DecodesTaskLane(docs, plan, i, revisions, needsProgram)
    /\ \A i, j \in DOMAIN plan.rows :
          i < j => Precedes(TaskRow(docs, plan, i).task, TaskRow(docs, plan, j).task)
    /\ {TaskRow(docs, plan, i).task : i \in DOMAIN plan.rows} = Registered(docs)
    /\ SimulatorsAssigned(docs, plan)
=============================================================================
