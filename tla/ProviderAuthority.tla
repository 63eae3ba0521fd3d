-------------------------- MODULE ProviderAuthority --------------------------
(***************************************************************************)
(* From the sources of a study to the authority of one task's execution:   *)
(* artifacts.seal_study_manifest copies the sources and everything they    *)
(* refer to into the run root; schedule.seal_prefix_schedule binds tasks   *)
(* to lanes and slots; execution_authority loads one task's contracts      *)
(* from the sealed ancestry, with readers that bind each reference to a    *)
(* path and an inode (authority_refs, scientific_records); and             *)
(* branch_program_authority resolves the four branch programs of a task.   *)
(*                                                                         *)
(* The sources of a study are sound but for one fault at most, and one     *)
(* thing may happen to the files of a sound study once they are copied.    *)
(* The manifest and the schedule are files whose fields are the variables  *)
(* of that name.  The power final names one of three authorities, and a    *)
(* tier selects any part of a roster; the ledger it stands on, the lease   *)
(* and the publication are modelled elsewhere.                             *)
(***************************************************************************)
EXTENDS ProviderDocuments

CONSTANTS
    Sound(_, _),       \* the documents of a sound study: who talks, confirmation
    Changes(_, _, _)   \* what may be wrong with a field of a document, by tag

VARIABLES
    dossier,   \* the sources: their documents, the fault, eligibility supplied
    disk,      \* the run root: path -> [sha, ino]
    manifest,  \* none, refused, sealed
    schedule,  \* status, authority, study, tasks
    loading,   \* the loader: stage, task, the schedule it read, references bound
    granted,   \* what was handed out: kind, task, refs, everything bound for it
    meddled    \* where the loader was when a file of the run root was touched

avars == <<dossier, disk, manifest, schedule, loading, granted, meddled>>

NoFault == [at |-> <<"none", "none">>, field |-> "none", how |-> "none"]
NoSchedule == [status |-> "none", authority |-> "none", study |-> "none", tasks |-> <<>>]
Idle == [stage |-> "idle", task |-> "none", schedule |-> NoSchedule, bound |-> {}]
NoGrant == [kind |-> "none", task |-> "none", refs |-> {}, bound |-> {}]

Docs == dossier.docs
PlanFile == <<"provider_lane_plan", "s">>
BranchFile == <<"branch_program_registry", "s">>
ManifestFile == <<"study_manifest", "s">>
ScheduleFile == <<"prefix_schedule", "s">>
Revisions == {RefTo(<<"source_revision", o>>) : o \in {"a", "b"}}
Tokenizer == OfStudy("tokenizer")

\* What the sources of a study reach.
PlanClosure(docs) ==
    IF docs[PlanFile].kind # "provider_lane_plan" THEN {}
    ELSE ClosureOf(docs, WalkArtifactRefs(docs, PartsOf(docs, PlanFile)))
BranchClosure(docs) == ClosureOf(docs, WalkArtifactRefs(docs, PartsOf(docs, BranchFile)))
FixedCopies == {OfStudy(role) : role \in StudyAssets} \cup Revisions
Reached(docs) == PlanClosure(docs) \cup BranchClosure(docs)
InUse(docs) ==
    {ref.sha : ref \in FixedCopies \cup Reached(docs)} \cup PartsOf(docs, PlanFile) \cup PartsOf(docs, BranchFile)
    \cup {<<"entry", task>> : task \in TaskIds}

AInit ==
    /\ \E talking \in {{}, {"t1"}}, confirm \in BOOLEAN :
          LET docs == Sound(talking, confirm)
              Dossier(d, fault) == [docs |-> d, fault |-> fault, eligible |-> confirm] IN
          \/ dossier = Dossier(docs, NoFault)
          \/ \E n \in InUse(docs) : \E f \in DOMAIN docs[n] :
                LET change == Changes(n, f, docs[n][f]) IN
                \E how \in DOMAIN change :
                   dossier = Dossier([docs EXCEPT ![n][f] = change[how]], [at |-> n, field |-> f, how |-> how])
          \/ \E ref \in Reached(docs) \ FixedCopies :
                dossier = Dossier(docs, [at |-> ref.path, field |-> "file", how |-> "edited"])
          \/ dossier = [Dossier(docs, [NoFault EXCEPT !.field = "eligible"]) EXCEPT !.eligible = ~confirm]
    /\ disk = <<>> /\ manifest = "none" /\ schedule = NoSchedule
    /\ loading = Idle /\ granted = NoGrant /\ meddled = "never"

-----------------------------------------------------------------------------
(* Sealing the manifest.                                                   *)

\* The file beside the plan that a reference names has the bytes it says.
SourceHolds(ref) ==
    /\ ref.path[1] = "outside" \/ ref.sha = ContentAt(ref.path)
    /\ dossier.fault.field = "file" => ref.path # dossier.fault.at

AllCopies == FixedCopies \cup Reached(Docs)

\* A copy keeps its relative path; two references never share one.
CopiesPlanned ==
    /\ Cardinality({ref.path : ref \in AllCopies}) = Cardinality(AllCopies)
    /\ \A ref \in AllCopies \ FixedCopies : SourceHolds(ref)
Staged == [path \in {ref.path : ref \in AllCopies} |->
              [sha |-> (CHOOSE ref \in AllCopies : ref.path = path).sha, ino |-> path]]

\* AuthorityRefReader: copied namespace, bytes as digested, one reference for
\* a path and one for an inode, those bound before included.
Binding(ref, files) == [ref |-> ref, ino |-> files[ref.path].ino]
Binds(refs, files, bound) ==
    /\ \A ref \in refs : /\ ref.path[1] # "outside"
                         /\ ref.path \in DOMAIN files /\ files[ref.path].sha = ref.sha
    /\ LET all == bound \cup {Binding(ref, files) : ref \in refs} IN
       Cardinality({b.ref.path : b \in all}) = Cardinality(all) /\ Cardinality({b.ino : b \in all}) = Cardinality(all)

\* _validate_branch_program_authority, in a staging root of its own.
BranchAuthority ==
    /\ TaskRegistry(Docs)
    /\ {BranchRows(Docs)[i].task : i \in DOMAIN BranchRows(Docs)} = Registered(Docs)
    /\ Binds(BranchClosure(Docs), Staged, {})
    /\ \A i \in DOMAIN BranchRows(Docs) : \A n \in 1..4 :
          BoundProgram(Docs, BranchRows(Docs)[i][BranchFields[n]], BranchRows(Docs)[i].task)

ExecutionAuthority ==
    LET roster == Docs[<<"roster", "s">>]
        assignment == Docs[<<"assignment_program", "s">>] IN
    IF roster.kind # "roster" \/ ~AssignmentProgram(assignment) THEN "unknown"
    ELSE CASE <<roster.roster, assignment.mode>> = <<"synthetic_fixture", "synthetic_derangement">> ->
                "synthetic_validation"
           [] <<roster.roster, assignment.mode>> = <<"eligible_confirmation", "confirmation_lineage_matching">> ->
                "confirmation"
           [] OTHER -> "unknown"
ZeroCost(authority) == authority \in {"synthetic_validation", "implementation_verification"}

\* A plan of version 2 is validated before it is published, though not for
\* the programs that an execution will need.
PlanAuthority ==
    /\ ExecutionAuthority # "unknown"
    /\ dossier.eligible = (ExecutionAuthority = "confirmation")
    /\ Binds(PlanClosure(Docs), Staged, {})
    /\ LanesValid(Docs, Tokenizer, Revisions, ZeroCost(ExecutionAuthority))
    /\ RowsValid(Docs, Revisions, FALSE)

ManifestSealable ==
    /\ BranchProgramRegistry(Docs)
    /\ CopiesPlanned
    /\ BranchAuthority
    /\ Docs[PlanFile].kind = "provider_lane_plan" => PlanAuthority

SealStudyManifest ==
    /\ manifest = "none"
    /\ IF ManifestSealable
       THEN /\ manifest' = "sealed"
            /\ disk' = [path \in DOMAIN Staged \cup {ManifestFile} |->
                           IF path = ManifestFile THEN [sha |-> path, ino |-> path] ELSE Staged[path]]
       ELSE manifest' = "refused" /\ UNCHANGED disk
    /\ UNCHANGED <<dossier, schedule, loading, granted, meddled>>

-----------------------------------------------------------------------------
(* Sealing the schedule.                                                   *)

Held(path) == path \in DOMAIN disk /\ disk[path].sha = ContentAt(path)

\* require_schedulable_power_final: the authority of the final fits the roster.
Roster == Docs[<<"roster", "s">>]
RosterFits(authority) ==
    /\ Roster.kind = "roster" /\ Roster.tasks # <<>>
    /\ \A i, j \in DOMAIN Roster.tasks : i < j => Precedes(Roster.tasks[i], Roster.tasks[j])
    /\ Roster.roster = IF ZeroCost(authority) THEN "synthetic_fixture" ELSE "eligible_confirmation"
    /\ dossier.eligible = ~ZeroCost(authority)
SelectedTaskIds(authority) ==
    LET all == {Roster.tasks[i] : i \in DOMAIN Roster.tasks} IN
    IF ZeroCost(authority) THEN {all} ELSE SUBSET all \ {{}}

\* The checks of prepare() under the lease.
ScheduleSealable(authority) ==
    LET assignment == Docs[<<"assignment_program", "s">>] IN
    /\ \A path \in {ManifestFile, PlanFile, Tokenizer.path, <<"roster", "s">>,
                    <<"task_registry", "s">>, <<"assignment_program", "s">>} : Held(path)
    /\ RosterFits(authority)
    /\ TaskRegistry(Docs)
    /\ AssignmentProgram(assignment) /\ assignment.runtime = "controller"
    /\ Held(One(assignment.normalizer).path) /\ assignment.normalizer \subseteq Revisions
    /\ assignment.tokenizerDigest = Tokenizer.sha
    /\ assignment.mode = IF ZeroCost(authority) THEN "synthetic_derangement"
                         ELSE "confirmation_lineage_matching"
    /\ Docs[PlanFile].kind = "provider_lane_plan" /\ Binds(PlanClosure(Docs), disk, {})
    /\ LanesValid(Docs, Tokenizer, Revisions, ZeroCost(authority))
    /\ RowsValid(Docs, Revisions, FALSE)

PlanRow(task) == LET plan == PlanOf(Docs)
                 IN  TaskRow(Docs, plan, CHOOSE i \in DOMAIN plan.rows : TaskRow(Docs, plan, i).task = task)
PlanLane(task) == Lane(Docs, PlanOf(Docs), PlanRow(task).lane + 1)

\* The keyed order of the four slots, which is not the order of their ordinals.
ScheduledTask(task) ==
    [benchmark |-> BenchmarkOf(Docs, task), lane |-> PlanLane(task).id,
     slots |-> [o \in 1..4 |-> LET rank == (o + 1) % 4
                               IN  [rank |-> rank, lane |-> PlanRow(task).ranks[rank + 1]]]]

WriteSchedule(authority, selected) ==
    /\ schedule' = [status |-> "sealed", authority |-> authority, study |-> "study",
                    tasks |-> [task \in selected |-> ScheduledTask(task)]]
    /\ disk' = [path \in DOMAIN disk \cup {ScheduleFile} |->
                   IF path = ScheduleFile THEN [sha |-> path, ino |-> path] ELSE disk[path]]
SealPrefixSchedule ==
    /\ manifest = "sealed" /\ schedule = NoSchedule
    /\ \E authority \in {"synthetic_validation", "implementation_verification", "roster_bound_selection"} :
          \/ /\ ScheduleSealable(authority)
             /\ \E selected \in SelectedTaskIds(authority) :
                   selected \subseteq Registered(Docs) /\ WriteSchedule(authority, selected)
          \/ /\ ~ScheduleSealable(authority)
                \/ \E selected \in SelectedTaskIds(authority) : ~(selected \subseteq Registered(Docs))
             /\ schedule' = [NoSchedule EXCEPT !.status = "refused", !.authority = authority]
             /\ UNCHANGED disk
    /\ UNCHANGED <<dossier, manifest, loading, granted, meddled>>

-----------------------------------------------------------------------------
(* What may happen to the files of a sound study.                          *)

LoseFile == \E path \in DOMAIN disk : disk' = [p \in DOMAIN disk \ {path} |-> disk[p]] /\ UNCHANGED schedule
EditFile ==
    \E path \in DOMAIN disk : disk' = [disk EXCEPT ![path].sha = <<"note", "x">>] /\ UNCHANGED schedule
LinkFile ==
    \E path, other \in DOMAIN disk :
       /\ path # other /\ disk[path].sha = disk[other].sha
       /\ disk' = [disk EXCEPT ![path].ino = disk[other].ino] /\ UNCHANGED schedule

\* The schedule that the caller names was sealed for something else.
OtherSchedule ==
    /\ schedule.status = "sealed" /\ UNCHANGED disk
    /\ \/ schedule' = [schedule EXCEPT !.study = "another"]
       \/ schedule' = [schedule EXCEPT !.authority = "roster_bound_selection"]
       \/ \E task \in DOMAIN schedule.tasks :
             \/ schedule' = [schedule EXCEPT !.tasks[task].benchmark = "another"]
             \/ schedule' = [schedule EXCEPT !.tasks[task].lane = "another"]
             \/ \E o \in 1..4 : schedule' = [schedule EXCEPT !.tasks[task].slots[o].lane = 1 - @]
Meddle ==
    /\ dossier.fault = NoFault /\ manifest = "sealed" /\ granted = NoGrant
    /\ meddled = "never" /\ meddled' = loading.stage
    /\ LoseFile \/ EditFile \/ LinkFile \/ OtherSchedule
    /\ UNCHANGED <<dossier, manifest, loading, granted>>

-----------------------------------------------------------------------------
(* Loading the authority of one task.                                      *)

Refuse == loading' = [loading EXCEPT !.stage = "refused"]

\* One part of the loading: read the references, then check what they say.
Load(from, to, refs, valid) ==
    /\ loading.stage = from
    /\ LET new == refs \ {b.ref : b \in loading.bound} IN
       IF Binds(new, disk, loading.bound) /\ valid
       THEN loading' = [loading EXCEPT !.stage = to,
                           !.bound = @ \cup {Binding(ref, disk) : ref \in new}]
       ELSE Refuse
    /\ UNCHANGED <<dossier, disk, manifest, schedule, granted, meddled>>

\* load_scientific_parent: the schedule and the manifest have readers of their own.
LoadsParent(path) == Held(path)
DecodedSchedule(task) == loading.schedule.tasks[task]
OpenSchedule(task) ==
    /\ loading = Idle /\ granted = NoGrant /\ schedule.status = "sealed"
    /\ loading' = [Idle EXCEPT !.task = task, !.schedule = schedule,
                      !.stage = IF /\ LoadsParent(ScheduleFile) /\ LoadsParent(ManifestFile)
                                   /\ schedule.study = "study" /\ task \in DOMAIN schedule.tasks
                                THEN "registry" ELSE "refused"]
    /\ UNCHANGED <<dossier, disk, manifest, schedule, granted, meddled>>

ReadRegistry ==
    Load("registry", "plan", {OfStudy("task_registry")},
         /\ TaskRegistry(Docs)
         /\ \A task \in DOMAIN loading.schedule.tasks :
               /\ task \in Registered(Docs)
               /\ DecodedSchedule(task).benchmark = BenchmarkOf(Docs, task))

ManifestRevisions == ClosureOf(Docs, Revisions)
ReadPlan ==
    Load("plan", "lanes", {Tokenizer, OfStudy("provider_lane_plan")} \cup ManifestRevisions,
         ZeroCost(loading.schedule.authority) /\ Docs[PlanFile].kind = "provider_lane_plan")

PartsUnder(kind) == {p \in PartsOf(Docs, PlanFile) : p[1] = kind}
ReadLanes ==
    Load("lanes", "rows", ClosureOf(Docs, WalkArtifactRefs(Docs, PartsUnder("lane"))),
         LanesValid(Docs, Tokenizer, Revisions, TRUE))
ReadRows ==
    Load("rows", "project", ClosureOf(Docs, WalkArtifactRefs(Docs, PartsUnder("row"))),
         RowsValid(Docs, Revisions, TRUE))

\* _project_task_authority
Descriptors(row, lane) ==
    LET Of(purpose, refs) == [purpose |-> purpose, source |-> One(Target(Docs, refs).sources)] IN
    {Of(p, lane.subject) : p \in {"subject", "request_renderer"}}
    \cup (IF lane.simulator = {} THEN {} ELSE {Of("simulator", lane.simulator)})
    \cup {Of("response_parser", lane.parser)}
    \cup {Of(p, lane.meter) : p \in {"meter", "provider_event_codec", "settlement_codec"}}
    \cup {Of(p, row.environment) : p \in {"environment", "tokenizer"}}
    \cup {Of("grader", row.grader), Of("verifier", row.verifier)}
SlotsMatch(scheduled, row) == \A o \in 1..4 : scheduled.slots[o].lane = row.ranks[scheduled.slots[o].rank + 1]
Projects(scheduled, row, lane) ==
    /\ scheduled.lane = lane.id
    /\ SlotsMatch(scheduled, row)
    /\ Target(Docs, row.input).talks => lane.simulator # {}
    /\ Target(Docs, Target(Docs, row.input).program).schema = Target(Docs, lane.parser).schema
    /\ \A d \in Descriptors(row, lane) : d.source \in Revisions

OwnRefs(row, lane) ==
    UNION {row[f] : f \in DOMAIN row \cap RefFields} \cup UNION {lane[f] : f \in DOMAIN lane \cap RefFields}
    \cup Target(Docs, row.input).program
ProjectTaskAuthority ==
    /\ loading.stage = "project"
    /\ LET task == loading.task IN
       IF Projects(DecodedSchedule(task), PlanRow(task), PlanLane(task))
       THEN /\ granted' = [kind |-> "prefix", task |-> task, refs |-> OwnRefs(PlanRow(task), PlanLane(task)),
                           bound |-> loading.bound]
            /\ loading' = Idle
       ELSE Refuse /\ UNCHANGED granted
    /\ UNCHANGED <<dossier, disk, manifest, schedule, meddled>>

-----------------------------------------------------------------------------
(* Resolving the branch programs of one task.                              *)

\* The work orders follow the slots of the schedule or another order of them;
\* the trigger is the one the prefix was sealed with.
ResolveBranchProgramRefs(task) ==
    /\ loading = Idle /\ granted = NoGrant /\ manifest = "sealed"
    /\ \E trigger \in {"verifier_feedback", "no_intervention_opportunity"}, inOrder \in BOOLEAN :
       LET rows == {i \in DOMAIN BranchRows(Docs) : BranchRows(Docs)[i].task = task}
           refs == UNION {BranchRows(Docs)[i][BranchFields[n]] : i \in rows, n \in 1..4}
           read == {OfStudy("branch_program_registry")} \cup BranchClosure(Docs) IN
       IF /\ LoadsParent(ManifestFile)
          /\ Binds(read, disk, {})
          /\ rows # {} /\ inOrder
          /\ \A ref \in refs : /\ BoundProgram(Docs, {ref}, task)
                               /\ Docs[ref.sha].trigger = trigger
       THEN granted' = [kind |-> "branch", task |-> task, refs |-> refs,
                           bound |-> {Binding(ref, disk) : ref \in read}]
            /\ UNCHANGED loading
       ELSE /\ loading' = [Idle EXCEPT !.stage = "refused", !.task = "branch"]
            /\ UNCHANGED granted
    /\ UNCHANGED <<dossier, disk, manifest, schedule, meddled>>

ANext ==
    \/ SealStudyManifest \/ SealPrefixSchedule \/ Meddle
    \/ \E task \in TaskIds : OpenSchedule(task) \/ ResolveBranchProgramRefs(task)
    \/ ReadRegistry \/ ReadPlan \/ ReadLanes \/ ReadRows \/ ProjectTaskAuthority
ASpec == AInit /\ [][ANext]_avars

-----------------------------------------------------------------------------
(* Properties.                                                             *)

ATypeOK ==
    /\ DOMAIN dossier = {"docs", "fault", "eligible"}
    /\ \A path \in DOMAIN disk : DOMAIN disk[path] = {"sha", "ino"}
    /\ manifest \in {"none", "refused", "sealed"} /\ schedule.status \in {"none", "refused", "sealed"}
    /\ loading.stage \in {"idle", "registry", "plan", "lanes", "rows", "project", "refused"}
    /\ granted.kind \in {"none", "prefix", "branch"}

\* A fault that an authority may be handed out in spite of: a document that two
\* owners may share is another owner's; the content of an asset that the loader
\* only digests; a payload or a task of the roster left out; a second source
\* where several may be named;
\* what only the projection of another task would refuse; what a branch program
\* calls, which is not compared with the schema it names before it is handed out.
Shareable == {"prompt", "clock", "watchdog", "qualification", "payload", "evidence", "meter", "sources"}
OnlyDigested == {"prompt_template", "clock_source", "watchdog_source", "isolation_qualification",
                 "deep_authority_asset", "synthetic_request", "tokenizer", "source_revision"}
Harmless(fault, grant) ==
    \/ fault.how = "sibling" /\ fault.field \in Shareable
    \/ fault.how = "decoy" /\ fault.field \in Shareable \ {"meter", "sources"}
    \/ fault.how = "none" /\ fault.field = "payload"
    \/ fault.how = "both" /\ fault.at[1] = "isolation_contract"
    \/ fault.how = "short" /\ fault.at[1] = "roster"
    \/ fault.field = "kind" /\ fault.at[1] \in OnlyDigested
    \/ fault.field \in {"lane", "schema"} /\ fault.at[2] \in TaskIds \ {grant.task}
    \/ fault.field \in {"calls", "schema"} /\ grant.kind = "branch"

\* The documents that one kind of authority does not rest on.
BranchOwner == [t1 |-> "b1", t2 |-> "b2"]
OfBranches(at) == at[1] \in {"branches", "branch_program_registry"} \/ at[2] \in {"b1", "b2"}
Apart(at, kind) == OfBranches(at) = (kind = "prefix")

\* What was touched before the loader began is there for it to see.
Seen == meddled \in {"never", "idle"}
ScheduleIsOwn ==
    LET scheduled == schedule.tasks[granted.task] IN
    /\ schedule.study = "study" /\ ZeroCost(schedule.authority)
    /\ \A task \in DOMAIN schedule.tasks : schedule.tasks[task].benchmark = BenchmarkOf(Docs, task)
    /\ scheduled.lane = PlanLane(granted.task).id /\ SlotsMatch(scheduled, PlanRow(granted.task))

(* An execution is authorised by its own study: whichever one field of the   *)
(* manifest, the registries, the plan, a contract or a program is wrong, an    *)
(* authority that is handed out does not rest on it and names documents of its *)
(* own task and lane alone; it rests on files that are as they were sealed,    *)
(* each under one reference, and on a schedule of this study that agrees with  *)
(* its plan; and a sound study nobody touched is never refused, but for a      *)
(* decision that does not fit its assignment or a task that was not selected   *)
(* (load_prefix_execution_authority, resolve_branch_program_refs).             *)
AuthorityDecides ==
    /\ granted.kind # "none" =>
          /\ \/ dossier.fault = NoFault
             \/ Harmless(dossier.fault, granted)
             \/ Apart(dossier.fault.at, granted.kind)
          /\ \A ref \in granted.refs :
                /\ Docs[ref.sha].kind = ref.role
                /\ \/ ref.path[2] \in {granted.task, HomeLane[granted.task], BranchOwner[granted.task]}
                   \/ ref.role = "meter_contract"
          /\ Seen =>
                /\ \A b \in granted.bound : Held(b.ref.path)
                /\ Cardinality({disk[b.ref.path].ino : b \in granted.bound}) = Cardinality(granted.bound)
                /\ granted.kind = "prefix" => ScheduleIsOwn
    /\ dossier.fault = NoFault /\ meddled = "never" =>
          /\ manifest # "refused"
          /\ schedule.status = "refused" => dossier.eligible = ZeroCost(schedule.authority)
          /\ loading.stage = "refused" =>
                \/ loading.task = "branch" \/ dossier.eligible
                \/ loading.task \notin DOMAIN loading.schedule.tasks
=============================================================================
