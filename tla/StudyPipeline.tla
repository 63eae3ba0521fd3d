--------------------------- MODULE StudyPipeline ----------------------------
(***************************************************************************)
(* The commands of the resampling-null pipeline on one run root            *)
(* (resampling_null/cli.py and the stages it calls): study seal, power,    *)
(* schedule seal, synthetic prefixes, assignment seal, packets build and   *)
(* audit, analysis freeze, synthetic branches, project, analyze, artifacts *)
(* seal.  Every command names its inputs and its output, so records of two *)
(* attempts can meet: an operator may remove a record and run its stage    *)
(* again, or publish under a second name.                                  *)
(*                                                                         *)
(* Commands run one at a time and publish atomically: their transactions   *)
(* are StorageTransaction, UnblindTransaction and BoundPublication.  Only  *)
(* the branch stage can stop part of the way through its blocks.  A task   *)
(* that triggers has no packets (build refuses it), so blocks are those of *)
(* untriggered tasks; BranchBlock has the triggered ones.                  *)
(***************************************************************************)
EXTENDS StudyGraph, TLC

CONSTANTS
    Roster,        \* sequence of task rows: task, lineage, stratum, slots
    Studies,       \* the manifests that may be sealed: study, key
    Outcomes,      \* what the prefixes of a roster may find
    Configs,       \* analysis configurations
    MaxSpare,      \* bound: records published under another name than "main"
    MaxRemovals,   \* bound: stages whose records are removed
    MaxIrregular   \* bound: the two together

VARIABLES
    contents,      \* the distinct documents written so far; a digest is an index
    files,         \* what is at each path: a digest, or 0
    accepted,      \* storage receipts: the accepted schedule and ledger
    tainted,       \* the outcome taint of the run root
    spares, removals

vars == <<contents, files, accepted, tainted, spares, removals>>

Tasks == {Roster[i].task : i \in DOMAIN Roster}

Path(kind, task, copy) == [kind |-> kind, task |-> task, copy |-> copy]

Copies == {"main", "alt", "raw"}

\* The manifest and the power final are under one name each: sealing the
\* artifact root looks for the manifest by name.  The root's name is fixed.
Paths ==
    {Path(k, 0, "main") : k \in {"manifest", "power", "root"}}
        \cup {Path(k, 0, c) : k \in Kinds \ {"manifest", "power", "block"}, c \in Copies}
        \cup {Path("block", t, c) : t \in Tasks, c \in {"main", "alt"}}

None == [path |-> Path("none", 0, "main"), sha |-> 0]

TypeOK ==
    /\ \A i \in DOMAIN contents : contents[i].kind \in Kinds \cup {"root"}
    /\ files \in [Paths -> 0..Len(contents)]
    /\ DOMAIN accepted = {"schedule", "ledger"}
    /\ tainted \in BOOLEAN
    /\ spares \in 0..MaxSpare /\ removals \in 0..MaxRemovals

Init ==
    /\ contents = <<>>
    /\ files = [p \in Paths |-> 0]
    /\ accepted = [k \in {"schedule", "ledger"} |-> None]
    /\ tainted = FALSE
    /\ spares = 0 /\ removals = 0

Present == Documents(files, contents)

\* What a command can be given for a kind: a file that holds such a record,
\* whatever its name.
Given(kind) ==
    {Found(p, files[p], contents) :
        p \in {q \in Paths : files[q] # 0 /\ contents[files[q]].kind = kind}}

\* The document a reference resolves to; a dangling reference has none.
Behind(ref) == IF Resolves(ref, files) THEN {Found(ref.path, ref.sha, contents)} ELSE {}

(***************************************************************************)
(* Publishing.                                                             *)
(***************************************************************************)

\* Equal documents have equal bytes, hence one digest.
Digest(doc, table) ==
    IF doc \in Range(table) THEN CHOOSE i \in DOMAIN table : table[i] = doc
    ELSE Len(table) + 1

Interned(doc, table) == IF doc \in Range(table) THEN table ELSE Append(table, doc)

Protected == {"freeze", "block", "projection"}

\* write_record: a valid record, not after outcomes were seen, under the one
\* manifest, and never over an existing file.
Writable(doc, path) ==
    /\ RecordValid(doc)
    /\ doc.kind \in Protected => ~tainted
    /\ Cardinality(OfKind(Present, "manifest")) = 1
    /\ \A m \in OfKind(Present, "manifest") : doc.study = m.doc.study
    /\ files[path] = 0

Written(doc, path) ==
    /\ contents' = Interned(doc, contents)
    /\ files' = [files EXCEPT ![path] = Digest(doc, contents)]

\* A root that is sealed ends the study.
Sealed == files[Path("root", 0, "main")] # 0

\* Names other than "main" are counted.
Counted(copy) ==
    /\ ~Sealed
    /\ copy # "main" => spares < MaxSpare /\ spares + removals < MaxIrregular
    /\ spares' = IF copy = "main" THEN spares ELSE spares + 1

\* The output of a command: its main name, or within the bound another.
OutName(kind, path) ==
    /\ path.kind = kind /\ path \in Paths /\ files[path] = 0
    /\ Counted(path.copy)

Publish(doc, path) ==
    /\ OutName(doc.kind, path)
    /\ Writable(doc, path)
    /\ Written(doc, path)

\* A storage transaction publishes its record and the receipt of it.
Accept(doc, path) ==
    /\ accepted[doc.kind] = None
    /\ RecordValid(doc)
    /\ OutName(doc.kind, path)
    /\ Written(doc, path)
    /\ accepted' = [accepted EXCEPT ![doc.kind] =
                        [path |-> path, sha |-> Digest(doc, contents)]]

(***************************************************************************)
(* From the manifest to the prefix index.                                  *)
(***************************************************************************)

\* The manifest is the first scientific record.
SealManifest(study) ==
    LET doc == [kind |-> "manifest", study |-> study.study, key |-> study.key,
                roster |-> Tasks, program |-> [sha |-> "program"], assets |-> "assets"]
        path == Path("manifest", 0, "main")
    IN  /\ Present = {}
        /\ files[path] = 0
        /\ Written(doc, path)
        /\ UNCHANGED <<accepted, tainted, spares, removals>>

\* The power chain and its final (PowerLedger), here one record.
FinalizePower(manifest) ==
    /\ OfKind(Present, "power") = {}
    /\ Publish([kind |-> "power", study |-> manifest.doc.study,
                manifest |-> RefOf(manifest), roster |-> manifest.doc.roster],
               Path("power", 0, "main"))
    /\ UNCHANGED <<accepted, tainted, removals>>

\* require_schedulable_power_final: the power records of the graph are those
\* the final declares, and descend from the manifest.
Schedulable(manifest, power) ==
    /\ OfKind(Present, "root") = {}
    /\ OfKind(Present, "power") = {power}
    /\ power.doc.manifest = RefOf(manifest)
    /\ power.doc.study = manifest.doc.study

\* The schedule is drawn from the manifest's committed seed: one value.  It
\* is the storage transaction "prefix", accepted once in a run root.
SealSchedule(manifest, power, path) ==
    /\ Schedulable(manifest, power)
    /\ Accept([kind |-> "schedule", study |-> manifest.doc.study,
               manifest |-> RefOf(manifest), power |-> RefOf(power), rows |-> Roster],
              path)
    /\ UNCHANGED <<tainted, removals>>

\* Every task's prefix is run and the index of their receipts sealed.  What a
\* prefix finds depends on wall-clock limits too, so a second run may differ.
RunPrefixes(schedule, outcome, path) ==
    LET rows == schedule.doc.rows
        receipt(row) == [task |-> row.task, schedule |-> schedule.sha,
                         verifierSchedule |-> schedule.sha,
                         success |-> row.task \in outcome.successes,
                         triggered |-> row.task \in outcome.triggers,
                         features |-> [findings |-> row.task, tokens |-> row.lineage],
                         source |-> [findings |-> row.task, tokens |-> row.lineage]]
    IN  /\ \E m \in Given("manifest") : schedule.doc.manifest = RefOf(m)
        /\ Publish([kind |-> "prefix", study |-> schedule.doc.study,
                    schedule |-> RefOf(schedule),
                    receipts |-> [i \in DOMAIN rows |-> receipt(rows[i])]], path)
        /\ UNCHANGED <<accepted, tainted, removals>>

(***************************************************************************)
(* Assignment.                                                             *)
(***************************************************************************)

LaterKinds == {"ledger", "candidate", "sealed", "block", "projection", "freeze",
               "unblind", "analysis", "root"}

ViewOf(manifest, schedule, prefix) ==
    PrefixView(manifest.doc.study, schedule.sha, schedule.doc.rows, prefix.doc.receipts)

ContextOf(manifest, schedule, key) ==
    KeyContext(key, manifest.doc.study, manifest.sha, schedule.sha)

\* The ledger a schedule, a prefix index and a key give.
LedgerOf(manifest, schedule, prefix, context, view) ==
    [kind |-> "ledger", study |-> manifest.doc.study, key |-> manifest.doc.key,
     program |-> manifest.doc.program, manifest |-> RefOf(manifest),
     schedule |-> RefOf(schedule), prefix |-> RefOf(prefix)]
        @@ Assigned(context, manifest.doc.program.sha, schedule.doc.rows, view, prefix.sha)

\* The storage receipt of a kind binds this very record: its path, its bytes
\* and, through the intent it commits, the records it was made from.
OfRecord(kind, record) == accepted[kind] = RefOf(record)

NoLaterRecord == \A d \in Present : d.doc.kind \notin LaterKinds

\* The prefix index covers the schedule, in its order and from its bytes.
Covers(prefix, schedule) ==
    /\ TasksOf(prefix.doc.receipts) = TasksOf(schedule.doc.rows)
    /\ \A i \in DOMAIN schedule.doc.rows :
            ViewBindable(schedule.doc.rows[i], prefix.doc.receipts[i], schedule.sha)

\* The schedule and the prefix index are of one manifest and one study.
AssignmentAuthority(manifest, schedule, prefix) ==
    /\ schedule.doc.manifest = RefOf(manifest)
    /\ prefix.doc.schedule = RefOf(schedule)
    /\ schedule.doc.study = manifest.doc.study
    /\ prefix.doc.study = manifest.doc.study

\* The assignment is refused once a later record is in the graph, for a
\* schedule that storage did not accept, under a key the manifest did not
\* commit to, or when a stratum has no derangement.
SealAssignment(manifest, schedule, prefix, key, path) ==
    LET context == ContextOf(manifest, schedule, key)
        view == ViewOf(manifest, schedule, prefix)
    IN  /\ AssignmentAuthority(manifest, schedule, prefix)
        /\ OfRecord("schedule", schedule)
        /\ NoLaterRecord
        /\ \E p \in Behind(schedule.doc.power) : Schedulable(manifest, p)
        /\ Covers(prefix, schedule)
        /\ key = manifest.doc.key
        /\ Assignable(context, view)
        /\ Accept(LedgerOf(manifest, schedule, prefix, context, view), path)
        /\ UNCHANGED <<tainted, removals>>

(***************************************************************************)
(* Packets.                                                                *)
(***************************************************************************)

\* The ledger is the accepted one and verifies, with its parents, to the
\* documents its references name.
LedgerOfRecord(ledger) ==
    /\ OfRecord("ledger", ledger)
    /\ \E s \in Behind(ledger.doc.schedule), p \in Behind(ledger.doc.prefix) :
            /\ \E m \in Behind(ledger.doc.manifest) : s.doc.manifest = RefOf(m)
            /\ p.doc.schedule = RefOf(s)
            /\ PublicVerified(ledger.doc, s.doc.rows, p.doc)

\* One entry for every task of the prefix index: a marker, for a pair of
\* packets cannot be built from the verifier artifact the command hands over.
BuildPackets(ledger, prefix, path) ==
    LET receipts == prefix.doc.receipts
        entry(r) == [task |-> r.task, prefix |-> prefix.sha, form |-> "marker"]
    IN  /\ ledger.doc.prefix = RefOf(prefix)
        /\ LedgerOfRecord(ledger)
        /\ \A i \in DOMAIN receipts : ~receipts[i].triggered
        /\ \E m \in Behind(ledger.doc.manifest) :
            Publish([kind |-> "candidate", study |-> ledger.doc.study,
                     ledger |-> RefOf(ledger), prefix |-> RefOf(prefix),
                     assets |-> m.doc.assets,
                     entries |-> [i \in DOMAIN receipts |-> entry(receipts[i])]], path)
        /\ UNCHANGED <<accepted, tainted, removals>>

\* The audit rebuilds the candidate from its parents before it is sealed.
AuditPackets(candidate, ledger, prefix, path) ==
    LET entries == candidate.doc.entries
    IN  /\ ledger.doc.prefix = RefOf(prefix)
        /\ LedgerOfRecord(ledger)
        /\ candidate.doc.ledger = RefOf(ledger)
        /\ candidate.doc.prefix = RefOf(prefix)
        /\ \E m \in Behind(ledger.doc.manifest) : candidate.doc.assets = m.doc.assets
        /\ \E s \in Behind(ledger.doc.schedule) :
                TasksOf(entries) = TasksOf(s.doc.rows)
        /\ \A i \in DOMAIN entries :
                /\ entries[i].form = "marker" /\ entries[i].prefix = prefix.sha
                /\ ~prefix.doc.receipts[i].triggered
                /\ ledger.doc.assignments[i].donor = NoDonor
        /\ Publish([kind |-> "sealed", study |-> candidate.doc.study,
                    ledger |-> RefOf(ledger), prefix |-> RefOf(prefix),
                    assets |-> candidate.doc.assets,
                    candidate |-> RefOf(candidate)], path)
        /\ UNCHANGED <<accepted, tainted, removals>>

(***************************************************************************)
(* Freeze, branches and projection.                                        *)
(***************************************************************************)

\* The analysis inputs are copied into the run root and bound to the sealed
\* packet index, through which the manifest is found.
Freeze(sealed, config, path) ==
    /\ \E l \in Behind(sealed.doc.ledger) : Behind(l.doc.manifest) # {}
    /\ Publish([kind |-> "freeze", study |-> sealed.doc.study,
                sealed |-> RefOf(sealed), config |-> config], path)
    /\ UNCHANGED <<accepted, tainted, removals>>

\* The names the packet index's ledger gave the slots of a task.
CapabilitiesOf(sealed, task) ==
    {l.doc.allocations[i].capabilities :
        l \in {b \in Behind(sealed.doc.ledger) :
                    /\ b.doc.prefix = sealed.doc.prefix
                    /\ \E c \in Behind(sealed.doc.candidate) :
                            /\ c.doc.ledger = sealed.doc.ledger
                            /\ c.doc.prefix = sealed.doc.prefix
                            /\ TasksOf(c.doc.entries) = TasksOf(b.doc.assignments)},
        i \in {j \in DOMAIN Roster : Roster[j].task = task}}

\* The block of an untriggered task: its four slots copy the prefix grade.
BlockOf(parents, i) ==
    LET receipt == parents.prefix.doc.receipts[i]
    IN  [k \in ParentKinds("block") |-> RefOf(parents[k])]
            @@ [kind |-> "block", study |-> parents.schedule.doc.study,
                task |-> receipt.task, success |-> receipt.success,
                triggered |-> FALSE,
                outcomes |-> [o \in Ordinals |-> receipt.success],
                capabilities |-> CHOOSE c \in CapabilitiesOf(parents.sealed, receipt.task) :
                                    TRUE]

\* The ancestry of a block is checked on its parents alone, found through
\* their references: the names they have do not matter.
BlockAncestry(block, parents) ==
    \E c \in Behind(parents.sealed.doc.candidate), m \in Behind(parents.schedule.doc.manifest) :
        AncestryHeld({parents[k] : k \in DOMAIN parents} \cup {c, m}
            \cup {[path |-> Path("block", block.task, "pending"), sha |-> 0, doc |-> block]})

\* All tasks are admitted, their names must be free; then one block is
\* written after the other, and a kill leaves the first few.
Branches(parents, copy, upto) ==
    LET rows == parents.schedule.doc.rows
        block(i) == BlockOf(parents, i)
        name(i) == Path("block", rows[i].task, copy)
        table == FoldLeft(LAMBDA t, i : Interned(block(i), t), contents,
                          [i \in 1..upto |-> i])
    IN  /\ parents.prefix.doc.schedule = RefOf(parents.schedule)
        /\ \A i \in DOMAIN rows : /\ ~parents.prefix.doc.receipts[i].triggered
                                  /\ CapabilitiesOf(parents.sealed, rows[i].task) # {}
                                  /\ files[name(i)] = 0
        /\ Counted(copy)
        /\ \A i \in 1..upto : /\ Writable(block(i), name(i))
                              /\ BlockAncestry(block(i), parents)
        /\ contents' = table
        /\ files' = [p \in Paths |->
                        IF \E i \in 1..upto : p = name(i)
                        THEN Digest(block(CHOOSE i \in 1..upto : p = name(i)), table)
                        ELSE files[p]]
        /\ UNCHANGED <<accepted, tainted, removals>>

\* The blocks under one prefix are projected in the order of the schedule, in
\* a graph that is valid and holds no projection yet.
Project(schedule, freeze, copy, path) ==
    LET rows == schedule.doc.rows
        blocks == {b \in OfKind(Present, "block") : b.path.copy = copy}
        of(i) == CHOOSE b \in blocks : b.doc.task = rows[i].task
    IN  /\ {b.doc.task : b \in blocks} = Range(TasksOf(rows))
        /\ OfKind(Present, "projection") = {}
        /\ GraphValid(Present)
        /\ freeze.doc.study = schedule.doc.study
        /\ Publish([kind |-> "projection", study |-> schedule.doc.study,
                    schedule |-> RefOf(schedule), freeze |-> RefOf(freeze),
                    blocks |-> [i \in DOMAIN rows |-> RefOf(of(i))],
                    rows |-> [i \in DOMAIN rows |-> ProjectedRow(rows[i], of(i).doc)]],
                   path)
        /\ UNCHANGED <<accepted, tainted, removals>>

(***************************************************************************)
(* Unblinding, analysis and the artifact root.                             *)
(***************************************************************************)

\* The rows with the arms of the ledger in place of the slots.
ClearRows(projection, ledger) ==
    LET armOf(i, slot) == ledger.assignments[i].slotArms[
            CHOOSE o \in Ordinals : ledger.assignments[i].slotArms[o][1] = slot][2]
    IN  [i \in DOMAIN projection.rows |->
            [task |-> projection.rows[i].task,
             arms |-> [o \in Ordinals |->
                <<armOf(i, projection.rows[i].slots[o][1]), projection.rows[i].slots[o][2]>>]]]

\* What is compared before the clear ledger is read: the graph without it,
\* the current inputs against the frozen ones, and the public ancestry.
Unblindable(projection, ledger, freeze, sealed, schedule, prefix, config) ==
    /\ projection.doc.freeze = RefOf(freeze)
    /\ sealed.doc.ledger = RefOf(ledger)
    /\ OfKind(Present, "unblind") = {}
    /\ OfKind(Present, "ledger") = {ledger}
    /\ GraphValid(Present \ {ledger})
    /\ freeze.doc.config = config
    /\ freeze.doc.sealed = RefOf(sealed)
    /\ prefix.doc.schedule = RefOf(schedule)
    /\ ~tainted

\* The rest is checked once the root is tainted: a refusal then leaves only
\* the taint.  Receipt and analysis are published together.
Analyze(projection, ledger, freeze, sealed, config, key, out, receiptOut) ==
    \E s \in Behind(projection.doc.schedule), p \in Behind(sealed.doc.prefix) :
    \E m \in Behind(s.doc.manifest) :
        LET unblind == [kind |-> "unblind", study |-> ledger.doc.study,
                        projection |-> RefOf(projection), ledger |-> RefOf(ledger),
                        freeze |-> RefOf(freeze), count |-> Len(projection.doc.rows)]
            table == Interned(unblind, contents)
            receipt == [path |-> receiptOut, sha |-> Digest(unblind, contents)]
            analysis == [kind |-> "analysis", study |-> m.doc.study,
                         freeze |-> RefOf(freeze), projection |-> RefOf(projection),
                         unblind |-> receipt, config |-> freeze.doc.config,
                         count |-> Len(projection.doc.rows),
                         result |-> [config |-> config,
                                     rows |-> ClearRows(projection.doc, ledger.doc)]]
            clear == /\ GraphValid(Present)
                     /\ ledger.doc.manifest = RefOf(m)
                     /\ ledger.doc.schedule = RefOf(s)
                     /\ ledger.doc.prefix = RefOf(p)
        IN  /\ Unblindable(projection, ledger, freeze, sealed, s, p, config)
            /\ key = m.doc.key
            /\ files[receiptOut] = 0 /\ receiptOut.kind = "unblind"
            /\ OutName("analysis", out)
            /\ tainted' = TRUE
            /\ IF clear
               THEN /\ Cardinality(OfKind(Present, "manifest")) = 1
                    /\ contents' = Interned(analysis, table)
                    /\ files' = [files EXCEPT ![receiptOut] = receipt.sha,
                                              ![out] = Digest(analysis, table)]
               ELSE UNCHANGED <<contents, files>>
            /\ UNCHANGED <<accepted, removals>>

\* The root seals the closure of everything present, once.
SealRoot(manifest) ==
    LET path == Path("root", 0, "main")
        doc == [kind |-> "root", study |-> manifest.doc.study,
                entries |-> Closure(Present)]
    IN  /\ ClosureValid(Present, files)
        /\ Writable(doc, path)
        /\ Written(doc, path)
        /\ UNCHANGED <<accepted, tainted, spares, removals>>

(***************************************************************************)
(* The operator.                                                           *)
(***************************************************************************)

\* The records a stage published under one name are removed: the one record,
\* or the directory of the blocks.
RemoveRecords(kind, copy) ==
    LET removed == {p \in Paths : p.kind = kind /\ p.copy = copy /\ files[p] # 0}
    IN  /\ ~Sealed
        /\ removals < MaxRemovals /\ spares + removals < MaxIrregular
        /\ removed # {}
        /\ files' = [p \in Paths |-> IF p \in removed THEN 0 ELSE files[p]]
        /\ removals' = removals + 1
        /\ UNCHANGED <<contents, accepted, tainted, spares>>

Outs(kind) == {p \in Paths : p.kind = kind}

BranchParents ==
    [schedule : Given("schedule"), prefix : Given("prefix"), ledger : Given("ledger"),
     sealed : Given("sealed"), freeze : Given("freeze")]

Next ==
    \/ \E study \in Studies : SealManifest(study)
    \/ \E m \in Given("manifest") : FinalizePower(m)
    \/ \E m \in Given("manifest"), w \in Given("power"), out \in Outs("schedule") :
         SealSchedule(m, w, out)
    \/ \E s \in Given("schedule"), x \in Outcomes, out \in Outs("prefix") :
         RunPrefixes(s, x, out)
    \/ \E s \in Given("schedule"), p \in Given("prefix"), out \in Outs("ledger"),
          study \in Studies :
         \E m \in Behind(s.doc.manifest) : SealAssignment(m, s, p, study.key, out)
    \/ \E l \in Given("ledger"), p \in Given("prefix"), out \in Outs("candidate") :
         BuildPackets(l, p, out)
    \/ \E c \in Given("candidate"), l \in Given("ledger"), p \in Given("prefix"),
          out \in Outs("sealed") : AuditPackets(c, l, p, out)
    \/ \E q \in Given("sealed"), config \in Configs, out \in Outs("freeze") :
         Freeze(q, config, out)
    \/ \E parents \in BranchParents, copy \in {"main", "alt"}, upto \in 1..Len(Roster) :
         Branches(parents, copy, upto)
    \/ \E s \in Given("schedule"), f \in Given("freeze"), copy \in {"main", "alt"},
          out \in Outs("projection") : Project(s, f, copy, out)
    \/ \E q \in Given("projection"), l \in Given("ledger"), f \in Given("freeze"),
          k \in Given("sealed"), config \in Configs, study \in Studies,
          out \in Outs("analysis") :
         Analyze(q, l, f, k, config, study.key, out, Path("unblind", 0, "main"))
    \/ \E m \in Given("manifest") : SealRoot(m)
    \/ \E kind \in Kinds, copy \in Copies : RemoveRecords(kind, copy)

Spec == Init /\ [][Next]_vars

(***************************************************************************)
(* Properties.                                                             *)
(***************************************************************************)

\* Everything a document was made from, through the references it carries.
Ancestors(doc) ==
    LET up(docs) == docs \cup {contents[r.sha] : r \in UNION {RefsOf(d) : d \in docs}}
        RECURSIVE close(_)
        close(docs) == IF up(docs) = docs THEN docs ELSE close(up(docs))
    IN  close({doc})

\* The result of the accepted ledger and the prefix index it was made for.
ResultOf(config) ==
    LET ledger == contents[accepted["ledger"].sha]
        prefix == contents[ledger.prefix.sha]
    IN  [config |-> config,
         rows |-> [i \in DOMAIN prefix.receipts |->
            [task |-> prefix.receipts[i].task,
             arms |-> [o \in Ordinals |-> <<ledger.assignments[i].slotArms[o][2],
                                           prefix.receipts[i].success>>]]]]

\* When a root verifies, its analysis has one history: whatever was removed,
\* run again or published under a second name on the way, the records it was
\* made from are one of each kind (one block a task), the result is what the
\* accepted ledger and its prefix index give, and every block was made under
\* the analysis configuration the result was computed with.
\* (artifacts.py: validate_scientific_graph, verify_artifact_root)
ResultIsOneStudy ==
    \A root \in Given("root") :
        RootVerifies(root, files, contents) =>
            \A a \in OfKind(Present, "analysis") :
                LET history == Ancestors(a.doc)
                IN  /\ \A d, e \in history :
                        d.kind = e.kind /\ d.kind # "block" => d = e
                    /\ \A d, e \in history :
                        d.kind = "block" /\ e.kind = "block" /\ d.task = e.task => d = e
                    /\ \A d \in history : d.kind = "freeze" => d.config = a.doc.result.config
                    /\ a.doc.result = ResultOf(a.doc.config)

\* Whatever ledger is accepted, the two verifiers rebuild it: the public one
\* from the schedule, the prefix index and the ledger alone, the other from
\* the master key as well.
\* (assignment_verification.py: verify_synthetic_assignment_graph,
\* require_assignment_reconstruction)
LedgersReconstruct ==
    [][accepted'["ledger"] # accepted["ledger"] =>
        LET ledger == contents'[accepted'["ledger"].sha]
            schedule == contents'[ledger.schedule.sha]
            prefix == contents'[ledger.prefix.sha]
            manifest == contents'[ledger.manifest.sha]
        IN  /\ PublicVerified(ledger, schedule.rows, prefix)
            /\ KeyedVerified(ledger, manifest.key, ledger.key, manifest.study,
                             schedule.rows, prefix)]_vars

=============================================================================
