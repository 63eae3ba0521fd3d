---------------------------- MODULE FoundationData ----------------------------
(***************************************************************************)
(* What the foundation stage computes from the governed sources: the       *)
(* conversion of trace rows, the split, the quarantines, the rendered      *)
(* records, the selection, the shard and the receipts (preparation.py,     *)
(* data.py, records.py, contamination.py and the two converters), and, at  *)
(* the end, the separately written validator that accepts or refuses them  *)
(* (authorization.py).                                                     *)
(*                                                                         *)
(* A row is its number; Row tells what the code reads from it.  A digest   *)
(* is the content it is the digest of, so two digests are equal exactly    *)
(* when the contents are.  Record ids are ordered as the rows are: in the  *)
(* code they are digests and the order is arbitrary but fixed.             *)
(***************************************************************************)
EXTENDS Integers, FiniteSets, Sequences, SequencesExt, FiniteSetsExt

CONSTANTS
    Row,        \* row -> [lane, repo, task, resolved, size, ok]
    Bucket,     \* canonical repository key -> 0 .. 99
    Families,   \* evaluation families whose identities are required
    Ceiling,    \* token ceiling of the stage
    None

ASSUME CeilingAssumption == Ceiling \in Nat \ {0}
ASSUME RowAssumption ==
    /\ IsFiniteSet(DOMAIN Row)
    /\ \A i \in DOMAIN Row : i \in Nat /\ Row[i].size \in Nat \ {0}
ASSUME FamiliesAssumption == IsFiniteSet(Families)
ASSUME NoneAssumption == None \notin {"eval", "leak"}

Stages == {"100k", "500k"}
Lanes(stage) == IF stage = "100k" THEN {"openhands"} ELSE {"openhands", "ost"}
MultiLane(stage) == Cardinality(Lanes(stage)) > 1

\* The sources one stage may read, in the order in which it reads them.
LanePaths(lane) == << <<"trace", lane>>, <<"report", lane>> >>
EvalPaths == [k \in 1 .. Cardinality(Families) |-> <<"eval", SetToSeq(Families)[k]>>]
SourceOrder(stage) ==
    LanePaths("openhands") \o (IF MultiLane(stage) THEN LanePaths("ost") ELSE <<>>) \o EvalPaths
Sources(stage) == Range(SourceOrder(stage))

-----------------------------------------------------------------------------
(* Conversion of one lane.                                                 *)

\* _validate_trace_boundaries and parse_verified_trace_stream: one bad row
\* refuses the stream.
TracesParse(rows) == rows # {} /\ \A i \in rows : Row[i].ok
\* The same for the digest-only lane, one line at a time.
OstTracesParse(rows) == rows # {} /\ \A i \in rows : Row[i].ok

\* The adapter's report is identified with the rows it was written about.
AdapterCounts(report) ==
    [valid |-> Cardinality(report),
     steps |-> SumSet({Row[i].size * 100 + i : i \in report}),
     resolved |-> Cardinality({i \in report : Row[i].resolved})]

\* The counts observed by the conversion.
ObservedCounts(rows) ==
    [valid |-> Cardinality(rows),
     steps |-> SumSet({Row[i].size * 100 + i : i \in rows}),
     resolved |-> Cardinality({i \in rows : Row[i].resolved})]

\* _count_reconciliation.
Reconciled(rows, report) == ObservedCounts(rows) = AdapterCounts(report)
OstReconciled(rows, report) == ObservedCounts(rows) = AdapterCounts(report)

\* build_conversion_report: the digest of the traces is the adapter's, the
\* commit is that of the checkout at this moment.
ConversionReport(lane, rows, report, commit) ==
    [lane |-> lane, examples |-> rows, traces |-> report,
     counts |-> ObservedCounts(rows), commit |-> commit]

\* build_hash_manifest.
HashManifest(rows, report) == [examples |-> rows, report |-> report]

\* The four files of a conversion.
Bundle(lane, rows, report, commit) ==
    LET r == ConversionReport(lane, rows, report, commit)
    IN  [examples |-> rows, report |-> r, manifest |-> HashManifest(rows, r)]

\* _conversion_bundle and _ost_conversion_bundle refuse what does not reconcile.
BundleOK(lane, rows, report) ==
    IF lane = "ost" THEN OstTracesParse(rows) /\ OstReconciled(rows, report)
    ELSE TracesParse(rows) /\ Reconciled(rows, report)

-----------------------------------------------------------------------------
(* Repositories, splits and quarantines.                                   *)

\* The digest-only lane knows a repository by its digest only.
CanonicalRepo(i) == <<IF Row[i].lane = "ost" THEN "digest" ELSE "name", Row[i].repo>>
\* canonicalize_repo of the leakage registry: a digest stays, a name is hashed.
RepoDigest(key) == <<"digest", key[2]>>

SplitOf(key) ==
    IF Bucket[key] < 80 THEN "train" ELSE IF Bucket[key] < 90 THEN "validation" ELSE "held_out"

\* A faulty quarantine, for mutation: names only, whatever the lanes.
EvalNames(identities, multi) == {<<"name", e.repo>> : e \in identities}

\* _eval_overlap_quarantine.
EvalQuarantine(identities, multi) ==
    {<<"name", e.repo>> : e \in identities}
    \cup (IF multi THEN {<<"digest", e.repo>> : e \in identities} ELSE {})

\* _split_assignments, for one example: evaluation overlap first.
Assignment(i, evalKeys, leak) ==
    [split |-> SplitOf(CanonicalRepo(i)),
     quarantine |-> IF CanonicalRepo(i) \in evalKeys THEN "eval"
                    ELSE IF RepoDigest(CanonicalRepo(i)) \in leak THEN "leak" ELSE None]

Assignments(rows, identities, leak, multi) ==
    [i \in rows |-> Assignment(i, EvalQuarantine(identities, multi), leak)]

\* _build_split_receipt.
SplitSets(split) ==
    [s \in {"train", "validation", "held_out"} |->
        {CanonicalRepo(i) : i \in {j \in DOMAIN split : split[j].split = s}}]
SplitReceipt(split) == [assignments |-> split, sets |-> SplitSets(split)]

\* _build_leakage_receipt.
LeakReceipt(leak, split) ==
    [registry |-> leak,
     counts |-> [lane \in {"openhands", "ost"} |->
        Cardinality({i \in DOMAIN split :
            Row[i].lane = lane /\ split[i].quarantine = "leak"})]]

-----------------------------------------------------------------------------
(* Records.                                                                *)

\* tokenizer.encode under a version of the tokenizer: every version counts
\* differently.
Tokens(i, tokenizer) == Row[i].size * tokenizer

\* render_foundation_record and the recount of _render_records.
Rendered(i, assignment, tokenizer, hashes) ==
    [id |-> i, split |-> assignment.split, quarantine |-> assignment.quarantine,
     tokens |-> Tokens(i, tokenizer), hashes |-> hashes]

\* dedup_fingerprint: the identity fields, not the source.
Fingerprint(i) == <<CanonicalRepo(i), Row[i].task>>

\* deduplicate_examples keeps the first of each fingerprint.
FirstOfKind(rows) ==
    {i \in rows : \A j \in rows : Fingerprint(j) = Fingerprint(i) => i <= j}

\* The order of the lanes is also the order of the rows (openhands first).
RenderedRecords(rows, split, tokenizer, hashes) ==
    {Rendered(i, split[i], tokenizer, hashes) : i \in FirstOfKind(rows)}

TokenTotal(records) == FoldSet(LAMBDA r, n : n + r.tokens, 0, records)

Trainable(records) == {r \in records : r.split = "train" /\ r.quarantine = None}
Anchor(records, label) ==
    CHOOSE r \in records : Row[r.id].resolved = label
        /\ \A s \in records : Row[s.id].resolved = label => r.id <= s.id
HasAnchors(records) ==
    \A label \in BOOLEAN : \E r \in records : Row[r.id].resolved = label
Anchors(records) == {Anchor(records, TRUE), Anchor(records, FALSE)}

\* select_complete_records: both anchors, then whatever still fits, in order.
\* There is one such set.
SelectionOK(records) ==
    HasAnchors(Trainable(records)) /\ TokenTotal(Anchors(Trainable(records))) <= Ceiling
Selections(records) ==
    LET train == Trainable(records)
        anchors == Anchors(train)
        Fits(chosen, r) == TokenTotal(anchors \cup {s \in chosen : s.id < r.id}) + r.tokens <= Ceiling
    IN  {chosen \in SUBSET train :
            /\ anchors \subseteq chosen
            /\ \A r \in train \ anchors : r \in chosen <=> Fits(chosen, r)}

\* contamination_findings: any shared dimension, repository names as written.
Findings(records, identities) ==
    UNION {{<<r.id, e>> : e \in {f \in identities :
            CanonicalRepo(r.id) = <<"name", f.repo>> \/ Row[r.id].task = f.task}} : r \in records}

\* build_contamination_receipt: every family has an identity and none is shared.
ContaminationReceipt(records, identities) ==
    [training |-> Cardinality(records), evaluation |-> identities,
     complete |-> \A f \in Families : \E e \in identities : e.family = f,
     findings |-> Findings(records, identities)]
Disjoint(receipt) == receipt.complete /\ receipt.findings = {}

\* build_diversity_inventory.
Inventory(records) ==
    [count |-> Cardinality(records), tokens |-> TokenTotal(records),
     repos |-> {CanonicalRepo(r.id) : r \in records},
     resolved |-> Cardinality({r \in records : Row[r.id].resolved})]

\* build_content_addressed_shard: the records in the order of their ids.
ShardOf(records) ==
    [k \in 1 .. Cardinality(records) |->
        CHOOSE r \in records : Cardinality({s \in records : s.id < r.id}) = k - 1]
ShardManifest(records) ==
    [digest |-> ShardOf(records), count |-> Cardinality(records), ceiling |-> Ceiling,
     inventory |-> Inventory(records)]

\* The selection receipt.
SelectionReceipt(records, candidates) ==
    [ids |-> {r.id : r \in records}, candidates |-> candidates,
     tokens |-> TokenTotal(records),
     resolved |-> Cardinality({r \in records : Row[r.id].resolved})]

\* The digests every record of a run carries.
ReceiptHashes(bundles, license, tokenizer, leakReceipt) ==
    [reports |-> [l \in DOMAIN bundles |-> bundles[l].report],
     manifests |-> [l \in DOMAIN bundles |-> bundles[l].manifest],
     license |-> license, tokenizer |-> tokenizer, leak |-> leakReceipt]

-----------------------------------------------------------------------------
(* The validator (authorization.py).  h is the set of artifacts held open, *)
(* tokenizer the loaded tokenizer, leak the registry of the checkout now.  *)

IdentitiesOf(evals) == UNION {evals[f] : f \in Families}

\* The manifest describes this stage and this tokenizer, and its digests are
\* those of the held receipts and generated artifacts.
ManifestCoherent(scope, h) ==
    /\ h.manifest.stage = scope.stage
    /\ h.manifest.tokenizer = scope.tokenizer
ReceiptsBound(h) == h.manifest.receipts = h.receipts
GeneratedBound(scope, h) ==
    /\ h.manifest.conversion = h.conversion /\ h.manifest.evals = h.evals
    /\ DOMAIN h.conversion = Lanes(scope.stage) /\ DOMAIN h.evals = Families

\* Every generated source has its digest in the list the records carry.
HashesCoherent(scope, h) ==
    LET hashes == h.manifest.hashes IN
    /\ hashes.license = h.receipts.license /\ hashes.tokenizer = scope.tokenizer
    /\ \A l \in Lanes(scope.stage) :
         /\ hashes.reports[l] = h.conversion[l].report
         /\ hashes.manifests[l] = h.conversion[l].manifest
    /\ MultiLane(scope.stage) => hashes.leak = h.receipts.leak

\* Each record is of a lane of the stage, in the train split, carries the
\* digests, and occurs once.
RecordsCoherent(scope, h) ==
    /\ \A r \in Range(h.shard) :
         /\ Row[r.id].lane \in Lanes(scope.stage)
         /\ r.hashes = h.manifest.hashes /\ r.split = "train"
    /\ Cardinality({r.id : r \in Range(h.shard)}) = Len(h.shard)

Recount(h, tokenizer) == FoldSet(LAMBDA r, n : n + Tokens(r.id, tokenizer), 0, Range(h.shard))

\* Shard, shard manifest and preparation manifest agree, under the ceiling.
ShardCoherent(scope, h, tokenizer) ==
    /\ h.manifest.shard = h.shard
    /\ h.shardManifest.digest = h.shard /\ h.shardManifest.count = Len(h.shard)
    /\ h.shardManifest.inventory = Inventory(Range(h.shard))
    /\ h.shardManifest.ceiling = Ceiling
    /\ Inventory(Range(h.shard)).tokens <= Ceiling
    /\ Recount(h, tokenizer) <= Ceiling

LicenseCoherent(h) == h.receipts.license = "local research"

\* A faulty check, for mutation: the receipt is trusted.
LeakTrusted(scope, h, leak) == MultiLane(scope.stage) => h.receipts.leak # None

\* The leakage receipt is the committed registry of this moment.
LeakCoherent(scope, h, leak) == MultiLane(scope.stage) => h.receipts.leak.registry = leak

PresenceCoherent(h) == h.receipts.presence.before = h.receipts.presence.after
IntegrityCoherent(scope, h) ==
    LET i == h.receipts.integrity IN
    /\ i.before = i.after /\ DOMAIN i.before = Sources(scope.stage)
    /\ i.tokenizer = h.manifest.tokenizer

\* Examples, report and hash manifest of a lane describe each other, and the
\* report is about the traces that were read.
ExamplesCoherent(lane, h) ==
    LET c == h.conversion[lane] IN
    c.examples # {} /\ \A i \in c.examples : Row[i].ok /\ Row[i].lane = lane
ReportCoherent(lane, h) ==
    LET c == h.conversion[lane] IN
    /\ c.report.lane = lane /\ c.report.examples = c.examples
    /\ c.report.counts = ObservedCounts(c.examples)
    /\ c.report.counts = AdapterCounts(c.report.traces)
    /\ c.report.traces = h.receipts.integrity.before[<<"trace", lane>>]
HashManifestCoherent(lane, h) ==
    h.conversion[lane].manifest = HashManifest(h.conversion[lane].examples, h.conversion[lane].report)

LaneCountsCoherent(scope, h) ==
    MultiLane(scope.stage) =>
        h.manifest.counts = [l \in Lanes(scope.stage) |->
            [converted |-> Cardinality(h.conversion[l].examples),
             selected |-> Cardinality({r \in Range(h.shard) : Row[r.id].lane = l})]]

\* The evaluation keys, from the held identity indexes.
HeldEvalKeys(scope, h) ==
    {<<"name", e.repo>> : e \in IdentitiesOf(h.evals)}
    \cup (IF MultiLane(scope.stage)
          THEN {RepoDigest(<<"name", e.repo>>) : e \in IdentitiesOf(h.evals)} ELSE {})

ContaminationCoherent(h) ==
    /\ h.receipts.contamination = ContaminationReceipt(Range(h.shard), IdentitiesOf(h.evals))
    /\ Disjoint(h.receipts.contamination)
DiversityCoherent(h) == h.receipts.diversity = Inventory(Range(h.shard))
SelectionCoherent(h, tokenizer) ==
    LET s == h.receipts.selection IN
    /\ s.ids = {r.id : r \in Range(h.shard)} /\ s.candidates >= Len(h.shard)
    /\ s.tokens = Recount(h, tokenizer)
    /\ s.resolved = Cardinality({r \in Range(h.shard) : Row[r.id].resolved})

\* Every assignment is recomputed from the example, the evaluation identities
\* and the leakage receipt.
SplitCoherent(scope, h) ==
    LET rows == UNION {h.conversion[l].examples : l \in Lanes(scope.stage)}
        keys == HeldEvalKeys(scope, h)
        leak == IF MultiLane(scope.stage) THEN h.receipts.leak.registry ELSE {}
        a == h.receipts.split.assignments
    IN  /\ DOMAIN a = rows
        /\ \A i \in rows :
             /\ a[i].split = SplitOf(CanonicalRepo(i))
             /\ a[i].quarantine = IF CanonicalRepo(i) \in keys THEN "eval"
                                  ELSE IF RepoDigest(CanonicalRepo(i)) \in leak THEN "leak"
                                  ELSE None
        /\ h.receipts.split.sets = SplitSets(a)
LeakCountsCoherent(scope, h) ==
    MultiLane(scope.stage) =>
        h.receipts.leak.counts =
            LeakReceipt({}, h.receipts.split.assignments).counts

\* Each record joins an assignment of the train split outside every quarantine
\* and is the rendering of its example.
JoinCoherent(scope, h, tokenizer) ==
    \A r \in Range(h.shard) :
        /\ r.id \in DOMAIN h.receipts.split.assignments
        /\ h.receipts.split.assignments[r.id].split = "train"
        /\ h.receipts.split.assignments[r.id].quarantine = None
        /\ r = Rendered(r.id, h.receipts.split.assignments[r.id], tokenizer, h.manifest.hashes)

\* _validate_preparation_coherence.
Coherent(scope, h, tokenizer, leak) ==
    /\ ManifestCoherent(scope, h) /\ ReceiptsBound(h) /\ GeneratedBound(scope, h)
    /\ HashesCoherent(scope, h) /\ RecordsCoherent(scope, h)
    /\ ShardCoherent(scope, h, tokenizer)
    /\ LicenseCoherent(h) /\ LeakCoherent(scope, h, leak)
    /\ PresenceCoherent(h) /\ IntegrityCoherent(scope, h)
    /\ \A l \in Lanes(scope.stage) :
         ExamplesCoherent(l, h) /\ ReportCoherent(l, h) /\ HashManifestCoherent(l, h)
    /\ LaneCountsCoherent(scope, h) /\ ContaminationCoherent(h) /\ DiversityCoherent(h)
    /\ SelectionCoherent(h, tokenizer) /\ SplitCoherent(scope, h)
    /\ LeakCountsCoherent(scope, h) /\ JoinCoherent(scope, h, tokenizer)
===============================================================================
