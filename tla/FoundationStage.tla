---------------------------- MODULE FoundationStage ----------------------------
(***************************************************************************)
(* Preparing one foundation stage and authorizing it (preparation.py,      *)
(* authorization.py).  prepare_stage reads the governed sources one after  *)
(* the other, plans everything in memory, publishes the artifacts one      *)
(* after the other, and asks a separately written validator whether what   *)
(* is on disk is coherent; an operator reads the candidate and approves    *)
(* its digest; every training run verifies the approved scope again.       *)
(* Meanwhile anybody may change the sources, the leakage registry, the     *)
(* tokenizer snapshot or the checkout, and the process may be killed.      *)
(*                                                                         *)
(* One bound publication is one step here: ArtifactPublication models it.  *)
(* The digest of a scope is its number in operator.scopes.                 *)
(***************************************************************************)
EXTENDS FoundationData

CONSTANTS
    Stage,          \* the stage of this instance
    Initial,        \* path -> content of the governed sources
    NewRows,        \* rows that may be appended to the traces
    NewIdentities,  \* evaluation identities that may appear
    NewLeaks,       \* repository digests that may enter the leakage registry
    MaxEdits, MaxPrepares   \* bounds

\* A row is of the lane of the trace file that holds it.
ASSUME SourcesAssumption ==
    /\ Stage \in Stages /\ DOMAIN Initial = Sources(Stage) /\ NewRows \subseteq DOMAIN Row
    /\ \A l \in Lanes(Stage) : Initial[<<"trace", l>>] \subseteq {i \in DOMAIN Row : Row[i].lane = l}

VARIABLES
    world,      \* sources, their metadata, registry, licence, tokenizer, checkout
    disk,       \* the stage's output directory
    prep,       \* the preparation process
    operator,   \* every scope so far, and the ones the operator read and approved
    verdict,    \* the validator's last answer, and whether anything changed before it
    used        \* edits and preparations so far

stageVars == <<world, disk, prep, operator, verdict, used>>

NoPreparation == [pc |-> "idle"]
NoVerdict == [by |-> None, ok |-> TRUE, changed |-> TRUE]

StageInit ==
    /\ world = [data |-> Initial, meta |-> 0, leak |-> {}, broken |-> {},
                tokenizer |-> 1, commit |-> 1, dirty |-> FALSE]
    /\ disk = [conversion |-> [l \in Lanes(Stage) |-> None],
               evals |-> [f \in Families |-> None], shards |-> {}, damaged |-> {},
               receipts |-> None, manifest |-> None, candidate |-> None, final |-> None]
    /\ prep = NoPreparation
    /\ operator = [scopes |-> <<>>, read |-> None, approved |-> {}, changed |-> TRUE]
    /\ verdict = NoVerdict
    /\ used = [edits |-> 0, prepares |-> 0]

-----------------------------------------------------------------------------
(* The surroundings.                                                       *)

\* Somebody changes something: whoever is at work has been disturbed.
Disturb ==
    /\ prep' = IF prep.pc = "idle" THEN prep ELSE [prep EXCEPT !.disturbed = TRUE]
    /\ operator' = [operator EXCEPT !.changed = TRUE]
    /\ UNCHANGED verdict

Edit ==
    /\ used.edits < MaxEdits
    /\ used' = [used EXCEPT !.edits = @ + 1]
    /\ Disturb

\* A row is appended to a trace file, with or without a new adapter report.
AppendTrace(i, reported) ==
    /\ Edit /\ Row[i].lane \in Lanes(Stage)
    /\ i \notin world.data[<<"trace", Row[i].lane>>]
    /\ LET t == world.data[<<"trace", Row[i].lane>>] \cup {i} IN
       world' = [world EXCEPT !.meta = @ + 1, !.data[<<"trace", Row[i].lane>>] = t,
                    !.data[<<"report", Row[i].lane>>] = IF reported THEN t ELSE @]
    /\ UNCHANGED disk

AppendIdentity(e) ==
    /\ Edit /\ e \notin world.data[<<"eval", e.family>>]
    /\ world' = [world EXCEPT !.meta = @ + 1, !.data[<<"eval", e.family>>] = @ \cup {e}]
    /\ UNCHANGED disk

\* Registry, suite policy and licence are committed files: editing one dirties the checkout.
EditRegistry(d) ==
    /\ Edit /\ d \notin world.leak
    /\ world' = [world EXCEPT !.leak = @ \cup {d}, !.dirty = TRUE]
    /\ UNCHANGED disk
EditPolicy(file) ==
    /\ Edit /\ file \notin world.broken
    /\ world' = [world EXCEPT !.broken = @ \cup {file}, !.dirty = TRUE]
    /\ UNCHANGED disk
Commit ==
    /\ world.dirty /\ Disturb
    /\ world' = [world EXCEPT !.commit = @ + 1, !.dirty = FALSE]
    /\ UNCHANGED <<disk, used>>

ChangeTokenizer ==
    /\ Edit /\ world' = [world EXCEPT !.tokenizer = 3 - @]
    /\ UNCHANGED disk

DamageShard(s) ==
    /\ Edit /\ s \in disk.shards \ disk.damaged
    /\ disk' = [disk EXCEPT !.damaged = @ \cup {s}]
    /\ UNCHANGED world

-----------------------------------------------------------------------------
(* prepare_stage.                                                          *)

\* The process stops with an error, or is killed; the files stay.
Stop == prep' = NoPreparation /\ UNCHANGED <<world, disk, operator, verdict, used>>
Kill == prep.pc # "idle" /\ Stop

Goto(pc) == prep' = [prep EXCEPT !.pc = pc]
Rest == UNCHANGED <<world, disk, operator, verdict, used>>

\* An artifact was published: what was approved before may be gone.
Republished ==
    /\ operator' = [operator EXCEPT !.changed = @ \/ disk' # disk]
    /\ UNCHANGED <<world, verdict, used>>

\* load_suite_policy and validate_suite_policy: the committed policy, as is.
SuitePolicyValid == "suite" \notin world.broken
\* The committed licence receipt has the one accepted posture.
License == IF "license" \in world.broken THEN "other" ELSE "local research"
\* _load_leakage_registry_pair: the digests of the committed registry.
LeakageRegistry == IF MultiLane(Stage) THEN world.leak ELSE {}
\* _all_ten_metadata_snapshot: sizes and times of every governed family.
AllTenMetadata == world.meta
\* verify_pinned_snapshot: which snapshot the directory holds.
PinnedSnapshot == world.tokenizer
\* open_authorized_payload: the bytes of a source through a verified handle.
AuthorizedPayload(path) == world.data[path]

\* The request, the output paths, the suite policy and the all-ten metadata,
\* taken twice.
Begin(dry) ==
    /\ prep.pc = "idle" /\ used.prepares < MaxPrepares
    /\ prep' = IF ~SuitePolicyValid THEN NoPreparation
               ELSE [pc |-> "policy", dry |-> dry, disturbed |-> FALSE, meta |-> AllTenMetadata,
                     leak |-> {}, license |-> None, tokenizer |-> None, seen |-> <<>>,
                     plan |-> None, source |-> 1, lane |-> 1]
    /\ used' = [used EXCEPT !.prepares = @ + 1]
    /\ UNCHANGED <<world, disk, operator, verdict>>

\* The committed licence receipts and, for several lanes, the registry pair.
ReadPolicy ==
    /\ prep.pc = "policy"
    /\ IF License # "local research" THEN Stop
       ELSE /\ prep' = [prep EXCEPT !.pc = "tokenizer", !.license = License,
                                    !.leak = LeakageRegistry]
            /\ Rest

VerifyTokenizer ==
    /\ prep.pc = "tokenizer"
    /\ prep' = [prep EXCEPT !.pc = "load", !.tokenizer = PinnedSnapshot]
    /\ Rest
\* What was loaded is what was verified before and after.
LoadTokenizer ==
    /\ prep.pc = "load"
    /\ IF PinnedSnapshot # prep.tokenizer THEN Stop ELSE Goto("source") /\ Rest

\* _read_authorized_value of the next source, with the checks made on it.
SourceOK(path, content) ==
    CASE path[1] = "trace" -> IF path[2] = "ost" THEN OstTracesParse(content) ELSE TracesParse(content)
      [] path[1] = "report" -> content = prep.seen[prep.source - 1]
      [] OTHER -> content # {}
ReadSource ==
    /\ prep.pc = "source"
    /\ LET path == SourceOrder(Stage)[prep.source]
           content == AuthorizedPayload(path)
       IN  IF ~SourceOK(path, content) THEN Stop
           ELSE /\ prep' = [prep EXCEPT !.seen = Append(@, content), !.source = @ + 1,
                       !.pc = IF prep.source = Len(SourceOrder(Stage)) THEN "plan" ELSE "source"]
                /\ Rest

\* What was read from a path.
Seen(path) == prep.seen[CHOOSE k \in DOMAIN SourceOrder(Stage) : SourceOrder(Stage)[k] = path]
SeenIdentities == UNION {Seen(<<"eval", f>>) : f \in Families}
SeenRows == UNION {Seen(<<"trace", l>>) : l \in Lanes(Stage)}
PlannedBundles ==
    [l \in Lanes(Stage) |-> Bundle(l, Seen(<<"trace", l>>), Seen(<<"report", l>>), world.commit)]
PlannedSplit == Assignments(SeenRows, SeenIdentities, prep.leak, MultiLane(Stage))
PlannedHashes(bundles, split) ==
    ReceiptHashes(bundles, prep.license, prep.tokenizer,
                  IF MultiLane(Stage) THEN LeakReceipt(prep.leak, split) ELSE None)
LaneCounts(bundles, selected) ==
    [l \in Lanes(Stage) |->
        [converted |-> Cardinality(bundles[l].examples),
         selected |-> Cardinality({r \in selected : Row[r.id].lane = l})]]

\* Conversion, split, quarantines, rendering, selection and contamination, all
\* in memory, and the tokenizer verified once more.
Plan ==
    /\ prep.pc = "plan"
    /\ LET bundles == PlannedBundles
           split == PlannedSplit
           hashes == PlannedHashes(bundles, split)
           records == RenderedRecords(SeenRows, split, prep.tokenizer, hashes)
       IN  IF \/ \E l \in Lanes(Stage) :
                    ~BundleOK(l, Seen(<<"trace", l>>), Seen(<<"report", l>>))
              \/ ~SelectionOK(records)
              \/ PinnedSnapshot # prep.tokenizer
           THEN Stop
           ELSE \E selected \in Selections(records) :
                   IF ~Disjoint(ContaminationReceipt(selected, SeenIdentities)) THEN Stop
                   ELSE /\ prep' = [prep EXCEPT !.pc = IF prep.dry THEN "dry" ELSE "convert",
                              !.plan = [bundles |-> bundles, split |-> split, hashes |-> hashes,
                                        candidates |-> Cardinality(records), selected |-> selected]]
                        /\ Rest

\* source_after_snapshot and the all-ten metadata, compared with the first.
SourcesUnchanged ==
    /\ \A k \in DOMAIN SourceOrder(Stage) : AuthorizedPayload(SourceOrder(Stage)[k]) = prep.seen[k]
    /\ AllTenMetadata = prep.meta

\* A dry run compares the sources and returns.
DryRun == prep.pc = "dry" /\ Stop

LaneAt(k) == <<"openhands", "ost">>[k]

\* The lane's conversion, published unless it is already there; the first
\* lane's converter writes its report again, with the commit of now.
PublishConversion ==
    /\ prep.pc = "convert"
    /\ LET lane == LaneAt(prep.lane)
           planned == prep.plan.bundles[lane]
           written == IF disk.conversion[lane] = planned \/ lane = "ost" THEN planned
                      ELSE Bundle(lane, Seen(<<"trace", lane>>), Seen(<<"report", lane>>), world.commit)
           last == prep.lane = Cardinality(Lanes(Stage))
       IN  /\ disk' = [disk EXCEPT !.conversion[lane] = written]
           /\ prep' = IF written # planned THEN NoPreparation
                      ELSE [prep EXCEPT !.lane = IF last THEN @ ELSE @ + 1,
                                        !.pc = IF last THEN "evals" ELSE "convert"]
           /\ Republished

\* The identity indexes are built from the sources again; they must lead to
\* the planned receipt.
PublishEvalIndex ==
    /\ prep.pc = "evals"
    /\ LET evals == [f \in Families |-> AuthorizedPayload(<<"eval", f>>)] IN
       /\ disk' = [disk EXCEPT !.evals = evals]
       /\ IF ContaminationReceipt(prep.plan.selected, IdentitiesOf(evals))
                # ContaminationReceipt(prep.plan.selected, SeenIdentities)
          THEN prep' = NoPreparation ELSE Goto("shard")
       /\ Republished

\* The shard's name is its digest: publishing one never touches another, and
\* publishing it again repairs it.
PublishShard ==
    /\ prep.pc = "shard"
    /\ disk' = [disk EXCEPT !.shards = @ \cup {ShardOf(prep.plan.selected)},
                            !.damaged = @ \ {ShardOf(prep.plan.selected)}]
    /\ Goto("check") /\ Republished

CheckSources ==
    /\ prep.pc = "check"
    /\ IF SourcesUnchanged THEN Goto("manifest") /\ Rest ELSE Stop

Receipts ==
    LET p == prep.plan
        before == [path \in Sources(Stage) |-> Seen(path)]
    IN  [license |-> prep.license,
         presence |-> [before |-> prep.meta, after |-> prep.meta],
         integrity |-> [before |-> before, after |-> before, tokenizer |-> prep.tokenizer],
         split |-> SplitReceipt(p.split),
         contamination |-> ContaminationReceipt(p.selected, SeenIdentities),
         diversity |-> Inventory(p.selected),
         selection |-> SelectionReceipt(p.selected, p.candidates),
         leak |-> IF MultiLane(Stage) THEN LeakReceipt(prep.leak, p.split) ELSE None]
Manifest ==
    [stage |-> Stage, tokenizer |-> prep.tokenizer, hashes |-> prep.plan.hashes,
     counts |-> LaneCounts(prep.plan.bundles, prep.plan.selected),
     conversion |-> disk.conversion, evals |-> disk.evals, receipts |-> Receipts,
     shard |-> ShardOf(prep.plan.selected)]

\* One publication, the manifest first: a kill leaves it with older receipts.
PublishManifest ==
    /\ prep.pc = "manifest"
    /\ disk' = [disk EXCEPT !.manifest = Manifest]
    /\ Goto("receipts") /\ Republished
PublishReceipts ==
    /\ prep.pc = "receipts"
    /\ disk' = [disk EXCEPT !.receipts = Receipts]
    /\ Goto("candidate") /\ Republished

-----------------------------------------------------------------------------
(* Authorization.                                                          *)

\* _hold_artifacts: everything the scope binds, or nothing.
CanHold(shard) ==
    /\ None \notin {disk.receipts, disk.manifest}
    /\ shard \in disk.shards \ disk.damaged
Held(shard) ==
    [conversion |-> disk.conversion, evals |-> disk.evals, receipts |-> disk.receipts,
     manifest |-> disk.manifest, shard |-> shard, shardManifest |-> ShardManifest(ToSet(shard))]
Scope(shard) ==
    [stage |-> Stage, tokenizer |-> PinnedSnapshot, commit |-> world.commit,
     artifacts |-> Held(shard)]

\* authorization_scope_digest.
Known(scope) ==
    IF scope \in ToSet(operator.scopes) THEN operator.scopes ELSE Append(operator.scopes, scope)
DigestIn(scopes, scope) == CHOOSE n \in DOMAIN scopes : scopes[n] = scope
ScopeOf(digest) == operator.scopes[digest]

\* build_authorization_candidate: a clean checkout, the snapshot verified, the
\* artifacts held and found coherent under the tokenizer loaded at the start.
BuildCandidate ==
    /\ prep.pc = "candidate"
    /\ prep' = NoPreparation
    /\ LET shard == ShardOf(prep.plan.selected) IN
       IF world.dirty \/ ~CanHold(shard) THEN UNCHANGED <<disk, operator, verdict>>
       ELSE LET ok == Coherent(Scope(shard), Held(shard), prep.tokenizer, world.leak) IN
            /\ verdict' = [by |-> "candidate", ok |-> ok, changed |-> prep.disturbed]
            /\ operator' = IF ok THEN [operator EXCEPT !.changed = FALSE, !.scopes = Known(Scope(shard))]
                           ELSE operator
            /\ disk' = IF ok THEN [disk EXCEPT !.candidate = DigestIn(operator'.scopes, Scope(shard))]
                       ELSE disk
    /\ UNCHANGED <<world, used>>

\* The operator reads a candidate, and later types its digest.
ReadCandidate ==
    /\ disk.candidate # None /\ operator.read # disk.candidate
    /\ operator' = [operator EXCEPT !.read = disk.candidate]
    /\ UNCHANGED <<world, disk, prep, verdict, used>>

\* finalize_authorization: only the candidate that was read.
Finalize ==
    /\ disk.candidate # None /\ operator.read = disk.candidate
    /\ disk.final # disk.candidate
    /\ disk' = [disk EXCEPT !.final = disk.candidate]
    /\ operator' = [operator EXCEPT !.approved = @ \cup {disk.candidate}]
    /\ UNCHANGED <<world, prep, verdict, used>>

\* _assert_exact_scope: this checkout, clean, and this tokenizer.
ExactScope(scope) ==
    ~world.dirty /\ scope.commit = world.commit /\ scope.tokenizer = PinnedSnapshot

\* verify_foundation_authorization: the bound artifacts, unchanged, and found
\* coherent under a tokenizer and a registry read now.
Verified(scope) ==
    /\ ExactScope(scope)
    /\ CanHold(scope.artifacts.shard)
    /\ Held(scope.artifacts.shard) = scope.artifacts
    /\ Coherent(scope, Held(scope.artifacts.shard), PinnedSnapshot, world.leak)

\* The records a run may use, with their digests.
Membership(scope) == ToSet(scope.artifacts.shard)

StageNext ==
    \/ \E i \in NewRows, reported \in BOOLEAN : AppendTrace(i, reported)
    \/ \E e \in NewIdentities : AppendIdentity(e)
    \/ \E d \in NewLeaks : EditRegistry(d)
    \/ \E file \in {"license", "suite"} : EditPolicy(file)
    \/ Commit \/ ChangeTokenizer
    \/ \E s \in disk.shards : DamageShard(s)
    \/ Kill \/ \E dry \in BOOLEAN : Begin(dry)
    \/ ReadPolicy \/ VerifyTokenizer \/ LoadTokenizer \/ ReadSource \/ Plan \/ DryRun
    \/ PublishConversion \/ PublishEvalIndex \/ PublishShard \/ CheckSources
    \/ PublishManifest \/ PublishReceipts \/ BuildCandidate
    \/ ReadCandidate \/ Finalize
===============================================================================
