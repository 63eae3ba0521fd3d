----------------------------- MODULE StudyGraph -----------------------------
(***************************************************************************)
(* The graph of scientific records of a run root and what the program asks *)
(* of it (resampling_null/artifacts.py): the validation of the documents   *)
(* present, with their kinds, coverage, references and recomputed rows,    *)
(* and the closure an artifact root seals.  Pure: StudyPipeline calls it.  *)
(*                                                                         *)
(* A document is a record whose fields are named for what they hold: a     *)
(* field named for a kind is the reference to the parent of that kind.  A  *)
(* reference is a path and a digest; digests are indices in a table of     *)
(* distinct contents, so equal documents have equal digests.  A path names *)
(* its kind (and its task, for a block) and one of three names: "main" and *)
(* "alt" end in .json, "raw" does not, so that it resolves but is not one  *)
(* of the documents of the graph.  Layout, schemas and the chain of power  *)
(* reports (PowerLedger) are left out: power is its final.                 *)
(***************************************************************************)
EXTENDS StudyAssignment

Kinds == {"manifest", "power", "schedule", "prefix", "ledger", "candidate",
          "sealed", "freeze", "block", "projection", "unblind", "analysis"}

Singletons == Kinds \ {"power", "candidate", "sealed", "block"}

\* The parents a kind refers to, each in the field of the parent's name.
ParentKinds(kind) ==
    CASE kind = "power"      -> {"manifest"}
      [] kind = "schedule"   -> {"manifest", "power"}
      [] kind = "prefix"     -> {"schedule"}
      [] kind = "ledger"     -> {"manifest", "schedule", "prefix"}
      [] kind = "candidate"  -> {"ledger", "prefix"}
      [] kind = "sealed"     -> {"ledger", "prefix", "candidate"}
      [] kind = "freeze"     -> {"sealed"}
      [] kind = "block"      -> {"schedule", "prefix", "ledger", "sealed", "freeze"}
      [] kind = "projection" -> {"schedule", "freeze"}
      [] kind = "unblind"    -> {"projection", "ledger", "freeze"}
      [] kind = "analysis"   -> {"freeze", "projection", "unblind"}
      [] OTHER               -> {}

\* A mutant of the next definition: the freeze of a block is not compared.
UnfrozenParents(kind) ==
    IF kind = "block" THEN ParentKinds(kind) \ {"freeze"}
    ELSE IF kind = "power" THEN {}
    ELSE IF kind = "schedule" THEN {"manifest"} ELSE ParentKinds(kind)

\* Those among them the graph check compares: the final of the power chain
\* is bound to its manifest and to the schedule elsewhere.
CheckedParents(kind) ==
    IF kind = "power" THEN {}
    ELSE IF kind = "schedule" THEN {"manifest"} ELSE ParentKinds(kind)

Json(path) == path.copy # "raw"

\* A document of the graph: where it is, its digest and what it says.
Found(path, sha, contents) == [path |-> path, sha |-> sha, doc |-> contents[sha]]

RefOf(found) == [path |-> found.path, sha |-> found.sha]

\* The documents of the run root: the files with a .json name.
Documents(files, contents) ==
    {Found(p, files[p], contents) : p \in {q \in DOMAIN files : files[q] # 0 /\ Json(q)}}

OfKind(documents, kind) == {d \in documents : d.doc.kind = kind}

\* Every reference of a document: its parents and, of a projection, its blocks.
RefsOf(doc) ==
    {doc[k] : k \in ParentKinds(doc.kind)}
        \cup (IF doc.kind = "projection" THEN Range(doc.blocks) ELSE {})

\* A reference resolves when its path holds the bytes it was made from.
Resolves(ref, files) == files[ref.path] = ref.sha

TasksOf(rows) == [i \in DOMAIN rows |-> rows[i].task]

(***************************************************************************)
(* What a record has to satisfy by itself, before it is written.           *)
(***************************************************************************)

Distinct(seq) == Cardinality(Range(seq)) = Len(seq)

ScheduleValid(doc) ==
    /\ Distinct(TasksOf(doc.rows))
    /\ \A i \in DOMAIN doc.rows : Distinct(doc.rows[i].slots)

PrefixValid(doc) ==
    /\ Distinct(TasksOf(doc.receipts))
    /\ \A i \in DOMAIN doc.receipts :
            /\ doc.receipts[i].schedule = doc.schedule.sha
            /\ doc.receipts[i].verifierSchedule = doc.schedule.sha

\* One row of a ledger: every arm once, one slot order, and the donor of the
\* receipt, of another task and lineage, with the cost of its candidate.
LedgerRowValid(assignment, allocation, receipt, view) ==
    LET slots == [o \in Ordinals |-> assignment.slotArms[o][1]]
        donor == assignment.donor
        open == receipt.candidates
    IN  /\ Distinct(slots)
        /\ {assignment.slotArms[o][2] : o \in Ordinals} = {"NONE", "REAL", "RESAMPLE", "SHAM"}
        /\ allocation.slots = slots
        /\ [o \in Ordinals |-> allocation.capabilities[o][1]] = slots
        /\ receipt.kind = donor.kind /\ receipt.view = view
        /\ donor.kind = "matched" =>
                /\ donor.task # assignment.task /\ donor.lineage # assignment.lineage
                /\ receipt.donor = donor.task /\ receipt.donorLineage = donor.lineage
                /\ receipt.lineage = assignment.lineage
                /\ Distinct([c \in DOMAIN open |-> open[c].donor])
                /\ \E c \in DOMAIN open : /\ open[c].donor = donor.task
                                          /\ open[c].lineage = donor.lineage
                                          /\ open[c].cost = receipt.cost

\* One proof for every stratum with a triggered task, and no other.
ProofsListed(doc) ==
    LET matched == {r \in Range(doc.receipts) : r.kind = "matched"}
    IN  /\ Len(doc.proofs) = Cardinality({r.stratum : r \in matched})
        /\ \A r \in matched : r.proof \in Range(doc.proofs)

LedgerValid(doc) ==
    /\ Distinct(TasksOf(doc.assignments))
    /\ TasksOf(doc.allocations) = TasksOf(doc.assignments)
    /\ TasksOf(doc.receipts) = TasksOf(doc.assignments)
    /\ \A i \in DOMAIN doc.assignments :
            LedgerRowValid(doc.assignments[i], doc.allocations[i], doc.receipts[i], doc.view)
    /\ ProofsListed(doc)

\* The block of an untriggered task: four copies of the prefix outcome.
CopiedBlockValid(doc) ==
    /\ Distinct([o \in Ordinals |-> doc.capabilities[o][2]])
    /\ \A o \in Ordinals : doc.outcomes[o] = doc.success

ProjectionValid(doc) ==
    /\ Distinct([i \in DOMAIN doc.blocks |-> doc.blocks[i].path])
    /\ Distinct(TasksOf(doc.rows))
    /\ Len(doc.blocks) = Len(doc.rows)

\* The root lists a path once and not itself.
RootValid(doc) ==
    /\ \A e, f \in doc.entries : e.path = f.path => e = f
    /\ \A e \in doc.entries : e.path.kind # "root"

RecordValid(doc) ==
    CASE doc.kind = "schedule"  -> ScheduleValid(doc)
      [] doc.kind = "prefix"    -> PrefixValid(doc)
      [] doc.kind = "ledger"    -> LedgerValid(doc)
      [] doc.kind = "candidate" -> Distinct(TasksOf(doc.entries))
      [] doc.kind = "block"     -> CopiedBlockValid(doc)
      [] doc.kind = "projection" -> ProjectionValid(doc)
      [] doc.kind = "root"      -> RootValid(doc)
      [] OTHER                  -> TRUE

(***************************************************************************)
(* The parts of the graph check.                                           *)
(***************************************************************************)

\* A kind that must be unique is, and the packet index has both its stages.
KindIdentities(documents) ==
    /\ \A k \in Singletons : Cardinality(OfKind(documents, k)) <= 1
    /\ Cardinality(OfKind(documents, "candidate")) <= 1
    /\ Cardinality(OfKind(documents, "candidate")) = Cardinality(OfKind(documents, "sealed"))

\* The schedule covers the manifest's roster, and the blocks do too.
RosterCovered(documents) ==
    /\ \A s \in OfKind(documents, "schedule") :
            \E m \in OfKind(documents, "manifest") :
                Range(TasksOf(s.doc.rows)) = m.doc.roster
    /\ LET blocks == OfKind(documents, "block")
       IN  blocks # {} =>
            /\ \A b, c \in blocks : b # c => b.doc.task # c.doc.task
            /\ \E m \in OfKind(documents, "manifest") :
                    /\ OfKind(documents, "schedule") # {}
                    /\ {b.doc.task : b \in blocks} = m.doc.roster

\* Every reference to a parent that is present is to that document.
EdgesHold(documents) ==
    \A c \in documents, p \in documents :
        p.doc.kind \in CheckedParents(c.doc.kind) => c.doc[p.doc.kind] = RefOf(p)

\* What a record repeats of the manifest is the manifest's.
ManifestHeld(documents) ==
    \A m \in OfKind(documents, "manifest"), d \in documents :
        CASE d.doc.kind = "ledger" -> /\ d.doc.program = m.doc.program
                                      /\ d.doc.key = m.doc.key
          [] d.doc.kind \in {"candidate", "sealed"} -> d.doc.assets = m.doc.assets
          [] d.doc.kind = "power" -> d.doc.roster = m.doc.roster
          [] OTHER -> TRUE

\* The rows of a prefix index and of a ledger name the digests of the
\* schedule and the prefix index they were computed from.
DigestsHeld(documents) ==
    \A d \in documents, p \in documents :
        CASE d.doc.kind = "prefix" /\ p.doc.kind = "schedule" ->
                \A i \in DOMAIN d.doc.receipts :
                    /\ d.doc.receipts[i].schedule = p.sha
                    /\ d.doc.receipts[i].verifierSchedule = p.sha
          [] d.doc.kind = "ledger" /\ p.doc.kind \in {"schedule", "prefix"} ->
                \A i \in DOMAIN d.doc.assignments :
                    d.doc.assignments[i][p.doc.kind] = p.sha
          [] d.doc.kind = "candidate" /\ p.doc.kind = "prefix" ->
                \A i \in DOMAIN d.doc.entries : d.doc.entries[i].prefix = p.sha
          [] d.doc.kind = "sealed" /\ p.doc.kind = "candidate" ->
                /\ d.doc.ledger = p.doc.ledger /\ d.doc.prefix = p.doc.prefix
                /\ d.doc.assets = p.doc.assets
          [] OTHER -> TRUE

\* Prefix rows and ledger rows follow the schedule, and a ledger row agrees
\* with the schedule's lineages and slots.
LedgerFollows(schedule, ledger) ==
    LET tasks == TasksOf(schedule.rows)
        spec(task) == schedule.rows[CHOOSE i \in DOMAIN tasks : tasks[i] = task]
    IN  /\ TasksOf(ledger.assignments) = tasks
        /\ TasksOf(ledger.allocations) = tasks
        /\ TasksOf(ledger.receipts) = tasks
        /\ \A i \in DOMAIN tasks :
            LET row == ledger.assignments[i]
                names == ledger.allocations[i].capabilities
            IN  /\ row.lineage = spec(tasks[i]).lineage
                /\ row.donor.kind = "matched" =>
                        /\ row.donor.task \in Range(tasks)
                        /\ row.donor.lineage = spec(row.donor.task).lineage
                /\ \A o \in Ordinals : /\ row.slotArms[o][1] = spec(tasks[i]).slots[o]
                                       /\ names[o][1] = spec(tasks[i]).slots[o]
                /\ Cardinality({names[o][2] : o \in Ordinals}) = Cardinality(Ordinals)

\* A task is matched, and has a pair of packets, exactly when it triggered.
MatchedIffTriggered(prefix, ledger) ==
    \A i \in DOMAIN prefix.receipts :
        (ledger.assignments[i].donor.kind = "matched") = prefix.receipts[i].triggered

PacketsFollow(prefix, candidate) ==
    \A i \in DOMAIN candidate.entries :
        \E r \in Range(prefix.receipts) :
            /\ r.task = candidate.entries[i].task
            /\ (candidate.entries[i].form = "pair") = r.triggered

\* A ledger beside its schedule cannot be checked without the prefix index:
\* the lookup of its rows raises.
CoverageHeld(documents) ==
    LET one(k) == {d.doc : d \in OfKind(documents, k)}
    IN  /\ \A s \in one("schedule") :
            /\ \A p \in one("prefix") : TasksOf(p.receipts) = TasksOf(s.rows)
            /\ \A l \in one("ledger") :
                    /\ LedgerFollows(s, l)
                    /\ \E p \in one("prefix") : MatchedIffTriggered(p, l)
        /\ \A c \in one("candidate") :
            /\ \A p \in one("prefix") : PacketsFollow(p, c)
            /\ \A l \in one("ledger") :
                    Range(TasksOf(c.entries)) = Range(TasksOf(l.assignments))

\* A block against the rows of its task: what the prefix found and the names
\* the ledger gave the slots; an untriggered task copies the prefix grade.
ChainHeld(block, schedule, prefix, ledger) ==
    \E i \in DOMAIN schedule.rows :
        /\ schedule.rows[i].task = block.task
        /\ prefix.receipts[i].task = block.task
        /\ block.success = prefix.receipts[i].success
        /\ block.triggered = prefix.receipts[i].triggered
        /\ block.capabilities = ledger.allocations[i].capabilities
        /\ ~block.triggered => \A o \in Ordinals : block.outcomes[o] = block.success

BlocksHeld(documents) ==
    \A b \in OfKind(documents, "block"), s \in OfKind(documents, "schedule"),
       p \in OfKind(documents, "prefix"), l \in OfKind(documents, "ledger") :
            ChainHeld(b.doc, s.doc, p.doc, l.doc)

\* The row of a projection is a function of the schedule's row and the block:
\* outcomes by slot, the arms unknown.
ProjectedRow(row, block) ==
    [task |-> row.task, lineage |-> row.lineage, success |-> block.success,
     triggered |-> block.triggered,
     slots |-> [o \in Ordinals |-> <<row.slots[o], block.outcomes[o]>>]]

ProjectionHeld(documents) ==
    \A q \in OfKind(documents, "projection"), s \in OfKind(documents, "schedule") :
        LET blocks == OfKind(documents, "block")
            rows == s.doc.rows
        IN  /\ {b.doc.task : b \in blocks} = Range(TasksOf(rows))
            /\ Len(q.doc.blocks) = Len(rows) /\ Len(q.doc.rows) = Len(rows)
            /\ \A i \in DOMAIN rows : \E b \in blocks :
                    /\ b.doc.task = rows[i].task
                    /\ q.doc.blocks[i] = RefOf(b)
                    /\ q.doc.rows[i] = ProjectedRow(rows[i], b.doc)

\* The blocks a projection names are all there are.
BlocksProjected(documents) ==
    \A q \in OfKind(documents, "projection") :
        {r.path : r \in Range(q.doc.blocks)} = {b.path : b \in OfKind(documents, "block")}

\* Unblinding and analysis repeat the projection's count and the freeze's
\* configuration.
ResultHeld(documents) ==
    LET of(k) == OfKind(documents, k)
    IN  /\ \A q \in of("projection"), d \in of("unblind") \cup of("analysis") :
                d.doc.count = Len(q.doc.rows)
        /\ \A f \in of("freeze"), a \in of("analysis") : a.doc.config = f.doc.config

AncestryHeld(documents) ==
    /\ EdgesHold(documents)
    /\ ManifestHeld(documents)
    /\ DigestsHeld(documents)
    /\ CoverageHeld(documents)
    /\ BlocksHeld(documents)
    /\ ProjectionHeld(documents)
    /\ BlocksProjected(documents)
    /\ ResultHeld(documents)

\* validate_scientific_graph: whatever is present fits together.  An artifact
\* root among the documents is refused.
GraphValid(documents) ==
    /\ documents # {}
    /\ OfKind(documents, "root") = {}
    /\ KindIdentities(documents)
    /\ RosterCovered(documents)
    /\ AncestryHeld(documents)

(***************************************************************************)
(* The artifact root.                                                      *)
(***************************************************************************)

\* The closure: every document and everything a document refers to.
Closure(documents) ==
    {RefOf(d) : d \in documents} \cup UNION {RefsOf(d.doc) : d \in documents}

\* Every kind is present, the graph is valid, all records are of the
\* manifest's study and every reference resolves.
ClosureValid(documents, files) ==
    /\ {d.doc.kind : d \in documents} = Kinds
    /\ GraphValid(documents)
    /\ \A d, m \in documents : m.doc.kind = "manifest" => d.doc.study = m.doc.study
    /\ \A r \in UNION {RefsOf(d.doc) : d \in documents} : Resolves(r, files)

\* verify_artifact_root: the closure of what is there now is the sealed one.
RootVerifies(root, files, contents) ==
    LET rest == {d \in Documents(files, contents) : d.path # root.path}
    IN  /\ ClosureValid(rest, files)
        /\ root.doc.entries = Closure(rest)
        /\ \A m \in OfKind(rest, "manifest") : root.doc.study = m.doc.study

=============================================================================
