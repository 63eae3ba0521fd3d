--------------------------- MODULE CandidateReading ---------------------------
(***************************************************************************)
(* How the prefix index reads the evidence graph of a sealed prefix        *)
(* (resampling_null/prefix_index.py with the record classes of evidence.py *)
(* and prefix_contracts.py): it follows the references from the candidate, *)
(* decodes every record, demands exactly one of each kind and compares     *)
(* what one record says with what the others and the sealed program say.   *)
(* The last reader is the assignment, which reads the verifier features.   *)
(*                                                                         *)
(* The replay of the outcome is PrefixReplay's; the authority leaves of    *)
(* the sealed program (its requests, answers and results) are reached over *)
(* the schedule, not over the candidate, and are not in this graph.        *)
(***************************************************************************)
EXTENDS PrefixCandidate

Digests == {"schedule_digest", "intent_digest", "contract_digest", "response_digest",
            "attempt_digest", "event_digest"}
Candidate == Ref("own", "prefix_candidate_receipt", 0)
The(rec, field) == rec.refs[field][1]

-----------------------------------------------------------------------------
(* Decoding one record.                                                    *)

\* _controller_ref and _authority_ref, for every reference of a closed record.
HasRoles(rec, roles) ==
    /\ DOMAIN rec.refs = DOMAIN roles \cup (DOMAIN rec.refs \cap Digests)
    /\ \A f \in DOMAIN roles : \A ref \in Items(rec.refs[f]) : ref.role = roles[f]

ContractRole(role) == IF role = "primary_subject" THEN "subject_contract" ELSE "simulator_contract"
LoadsIntent(rec) ==
    HasRoles(rec, [request |-> "provider_request", input |-> "input_token_ids",
                   contract |-> ContractRole(rec.role)])

\* What a status says about the response, and the response about its tokens.
AttemptClosed(rec) ==
    LET answered == rec.refs.response # <<>> IN
    /\ answered = (rec.refs.output # <<>>)
    /\ ~answered => rec.tokens = 0
    /\ rec.status \in {"completed", "timeout_late_response", "refusal", "malformed_response"}
         => answered
    /\ rec.status = "timeout_no_response" => ~answered
LoadsAttempt(rec) ==
    /\ HasRoles(rec, [intent |-> "provider_dispatch_intent", request |-> "provider_request",
                      input |-> "input_token_ids", contract |-> ContractRole(rec.role),
                      response |-> "provider_response", output |-> "output_token_ids",
                      event |-> "provider_event"])
    /\ AttemptClosed(rec)

\* An attempt repeats the identity and the inputs of its intent.
Answers(attempt, intent, intentRef) ==
    /\ The(attempt, "intent") = intentRef
    /\ attempt.role = intent.role /\ attempt.index = intent.index /\ attempt.seed = intent.seed
    /\ \A f \in {"request", "input", "contract"} : attempt.refs[f] = intent.refs[f]

\* The copies in a ledger are those its writer had in hand.
CopyOf(g, ledger, role, i) == g[Ref(ledger.owner, role, i)]
Intents(g, ledger) ==
    [i \in DOMAIN g[ledger].refs.intents |-> CopyOf(g, ledger, "provider_dispatch_intent", i)]
Attempts(g, ledger) ==
    [i \in DOMAIN g[ledger].refs.attempts |-> CopyOf(g, ledger, "provider_attempt", i)]

\* One attempt for each intent, in order, each with an event of its own.
LedgerClosed(intents, refs, made) ==
    /\ \A i, j \in DOMAIN made : i # j =>
          refs.intents[i] # refs.intents[j] /\ The(made[i], "event") # The(made[j], "event")
    /\ \A i \in DOMAIN made :
          /\ intents[i].index = Cardinality({j \in 1 .. i - 1 : intents[j].role = intents[i].role})
          /\ Answers(made[i], intents[i], refs.intents[i])
LoadsLedger(g, ledger) ==
    LET refs == g[ledger].refs IN
    /\ HasRoles(g[ledger], [intents |-> "provider_dispatch_intent",
                            attempts |-> "provider_attempt"])
    /\ Len(refs.intents) = Len(refs.attempts)
    /\ \A i, j \in DOMAIN refs.attempts : i # j => refs.attempts[i] # refs.attempts[j]
    /\ \A i \in DOMAIN refs.attempts :
          LoadsIntent(Intents(g, ledger)[i]) /\ LoadsAttempt(Attempts(g, ledger)[i])
    /\ LedgerClosed(Intents(g, ledger), refs, Attempts(g, ledger))

\* One settlement for each attempt, and none twice.
CostClosed(refs) ==
    /\ Len(refs.attempts) = Len(refs.settlements)
    /\ \A f \in DOMAIN refs : \A i, j \in DOMAIN refs[f] : i # j => refs[f][i] # refs[f][j]
LoadsCost(rec) ==
    /\ HasRoles(rec, [attempts |-> "provider_attempt", settlements |-> "provider_settlement"])
    /\ CostClosed(rec.refs)

\* No call twice, and only the last boundary may end the episode.
BoundariesClosed(crossed) ==
    /\ \A i, j \in DOMAIN crossed : i # j => crossed[i].call # crossed[j].call
    /\ \A i \in DOMAIN crossed : /\ crossed[i].failure # "none" => crossed[i].terminal
                                /\ crossed[i].terminal => i = Len(crossed)
LoadsBoundaries(rec) ==
    /\ HasRoles(rec, [tool_calls |-> "tool_call", tool_results |-> "tool_result"])
    /\ BoundariesClosed(rec.rows)

\* Whom an attestation of each kind names as its authority.
StatelessAuthority(kind) == IF kind = "subject" THEN "subject_contract" ELSE "simulator_contract"
LoadsStateless(rec) == HasRoles(rec, [authority |-> StatelessAuthority(rec.kind)])
LoadsSourced(rec) == HasRoles(rec, [authority |-> "source_revision"])

AncestryRoles == [schedule |-> "resampling_prefix_schedule", task |-> "selected_task",
                  task_input |-> "task_input", environment_contract |-> "environment_contract",
                  isolation_contract |-> "isolation_contract", visible |-> "visible_context",
                  tokens |-> "token_ids", env |-> "environment_snapshot"]

\* The two queues exclude each other; a failure ends the episode.
RestorableState(rec) ==
    /\ rec.branch = <<>> \/ rec.remainder = <<>>
    /\ rec.terminal => rec.branch = <<>>
    /\ rec.failure # "none" => rec.terminal
    /\ rec.remainder # <<>> => rec.terminal /\ rec.failure # "none"

InitialClosed(rec) == RestorableState(rec) /\ rec.failure = "none" /\ rec.live # rec.fresh
LoadsInitial(rec) == HasRoles(rec, AncestryRoles) /\ InitialClosed(rec)

RestoreClosed(rec) == RestorableState(rec) /\ rec.purpose \in {"grade", "verify"}
LoadsRestore(rec) ==
    HasRoles(rec, AncestryRoles @@ [snapshot |-> "composite_snapshot"]) /\ RestoreClosed(rec)

\* The envelope: an attestation of the simulator exactly when it was used.
SnapshotClosed(rec) ==
    /\ RestorableState(rec)
    /\ (rec.refs.simulator_attestation = <<>>) =
          (rec.counters.calls["user_simulator"] = 0 /\ rec.counters.tokens["user_simulator"] = 0)
LoadsSnapshot(rec) ==
    /\ HasRoles(rec, AncestryRoles @@
          [study |-> "study_manifest", initial |-> "initial_restore_qualification",
           boundaries |-> "tool_boundary_ledger", ledger |-> "provider_attempt_ledger",
           subject_attestation |-> "subject_stateless_attestation",
           simulator_attestation |-> "simulator_stateless_attestation",
           runtime |-> "runtime_attestation", container |-> "container_attestation",
           source_revision |-> "source_revision"])
    /\ SnapshotClosed(rec)

\* The outer receipt: its outcome is one of those that exist, and the verifier
\* speaks of the receipt's own snapshot.
ReceiptClosed(rec) ==
    /\ rec.branch = <<>> \/ rec.remainder = <<>>
    /\ rec.trigger # NoTrigger => rec.failure = "none" /\ rec.remainder = <<>>
    /\ rec.trigger = NoTrigger => rec.branch = <<>>
    /\ rec.remainder # <<>> => rec.failure # "none"
    /\ rec.refs.verified_snapshot = rec.refs.snapshot
LoadsCandidate(rec) ==
    /\ HasRoles(rec, [visible |-> "visible_context", tokens |-> "token_ids",
          snapshot |-> "composite_snapshot", verified_snapshot |-> "composite_snapshot",
          grade_evidence |-> "grade_evidence", grade_receipt |-> "grade_evidence_receipt",
          verifier_evidence |-> "verifier_evidence", feature |-> "verifier_feature",
          verifier_receipt |-> "verifier_evidence_receipt", ledger |-> "provider_attempt_ledger",
          boundaries |-> "tool_boundary_ledger", cost |-> "provider_cost_closure"])
    /\ ReceiptClosed(rec)

LoadsGradeReceipt(rec) ==
    HasRoles(rec, [grade_restore |-> "grade_restore_receipt", grade_evidence |-> "grade_evidence"])
LoadsVerifierReceipt(rec) ==
    HasRoles(rec, [verifier_restore |-> "verifier_restore_receipt",
                   verifier_evidence |-> "verifier_evidence"])

-----------------------------------------------------------------------------
(* Following the references.                                               *)

Walked(rec) == UNION {Items(rec.refs[f]) : f \in DOMAIN rec.refs \ Digests}
Followed(g, S) == S \cup UNION {Walked(g[x]) : x \in S \cap DOMAIN g}

\* Everything the candidate leads to: candidate, receipts, restores, snapshot,
\* ledgers, attempts, what was exchanged.
Reached(g) ==
    Followed(g, Followed(g, Followed(g, Followed(g, Followed(g, Followed(g, {Candidate}))))))
OfRole(reach, role) == {x \in reach : x.role = role}

\* Each reached record is decoded by the loader of its role.
Loads(g, x) ==
    CASE x.role = "prefix_candidate_receipt" -> LoadsCandidate(g[x])
      [] x.role = "composite_snapshot" -> LoadsSnapshot(g[x])
      [] x.role = "initial_restore_qualification" -> LoadsInitial(g[x])
      [] x.role \in {"grade_restore_receipt", "verifier_restore_receipt"} -> LoadsRestore(g[x])
      [] x.role = "grade_evidence_receipt" -> LoadsGradeReceipt(g[x])
      [] x.role = "verifier_evidence_receipt" -> LoadsVerifierReceipt(g[x])
      [] x.role = "provider_dispatch_intent" -> LoadsIntent(g[x])
      [] x.role = "provider_attempt" -> LoadsAttempt(g[x])
      [] x.role = "provider_attempt_ledger" -> LoadsLedger(g, x)
      [] x.role = "provider_cost_closure" -> LoadsCost(g[x])
      [] x.role = "tool_boundary_ledger" -> LoadsBoundaries(g[x])
      [] x.role \in {"subject_stateless_attestation", "simulator_stateless_attestation"} ->
            LoadsStateless(g[x])
      [] x.role \in {"runtime_attestation", "container_attestation"} -> LoadsSourced(g[x])
      [] OTHER -> TRUE

\* _single: of each of these there is exactly one.
Singles == {"composite_snapshot", "initial_restore_qualification", "grade_restore_receipt",
            "verifier_restore_receipt", "grade_evidence_receipt", "verifier_evidence_receipt",
            "provider_attempt_ledger", "provider_cost_closure", "tool_boundary_ledger"}
Graphed(g, reach) ==
    /\ g[Candidate].task = "own"
    /\ The(g[Candidate], "schedule_digest") = Study("resampling_prefix_schedule")
    /\ \A x \in reach \cap DOMAIN g : Loads(g, x)
    /\ \A role \in Singles : Cardinality(OfRole(reach, role)) = 1
Single(g, reach, role) == g[CHOOSE x \in OfRole(reach, role) : TRUE]

-----------------------------------------------------------------------------
(* Ancestry and restores.                                                  *)

\* The manifest lists more than one revision of the sources.
SourceRevisions == {Ref("study", "source_revision", n) : n \in {0, 1}}

\* What record rec says it comes from is what the authority of the task says.
FromAuthority(rec) ==
    /\ The(rec, "schedule") = Study("resampling_prefix_schedule")
    /\ The(rec, "task_input") = Ref("own", "task_input", 0)
    /\ The(rec, "environment_contract") = Study("environment_contract")
    /\ The(rec, "isolation_contract") = Study("isolation_contract")

SnapshotAncestry(c, snapshot) ==
    /\ The(snapshot, "study") = Study("study_manifest")
    /\ FromAuthority(snapshot)
    /\ The(snapshot, "source_revision") \in SourceRevisions
    /\ The(snapshot, "task") = Ref(c.task, "selected_task", 0)

\* What is left is what the caps grant less what was used, and never more
\* was used than granted.
QuotasFit(snapshot) ==
    LET used2 == snapshot.counters
        turns == used.turns["user_simulator"]
    IN /\ used2.calls["primary_subject"] <= Caps("primary_subject").calls
       /\ used2.tools <= auth.tools
       /\ auth.simulator => /\ turns <= used2.calls["user_simulator"]
                            /\ used2.calls["user_simulator"] <= Caps("user_simulator").calls
                            /\ turns <= Caps("user_simulator").turns
       /\ snapshot.remaining =
            [tokens |-> [r \in Roles |-> Less(Caps(r).tokens, used2.tokens[r])],
             calls |-> [r \in Roles |-> Less(Caps(r).calls, used2.calls[r])],
             tools |-> Less(auth.tools, used2.tools), wall |-> Less(auth.wall, used2.elapsed),
             turns |-> Less(Caps("user_simulator").turns, turns)]

\* The receipt repeats the snapshot it names.
ReceiptRepeats(c, snapshot) ==
    /\ snapshot.terminal = (c.trigger = NoTrigger)
    /\ \A f \in {"visible", "tokens", "boundaries", "ledger"} : c.refs[f] = snapshot.refs[f]
    /\ c.branch = snapshot.branch /\ c.remainder = snapshot.remainder
    /\ c.counters = snapshot.counters /\ c.failure = snapshot.failure

\* Which tool left a mutation behind, and whether one ever did.
MutationFits(boundaries, state, cumulative) ==
    /\ state.mutation = (boundaries # <<>> /\ boundaries[Len(boundaries)].mutation)
    /\ cumulative = \E i \in DOMAIN boundaries : boundaries[i].mutation

SameOutcome(rec, state) ==
    /\ rec.branch = state.branch /\ rec.remainder = state.remainder
    /\ rec.terminal = state.terminal /\ rec.failure = state.failure

\* Four workers took part, each in a directory of its own.
Isolated(initial, grade, verify) ==
    Cardinality({initial.live, initial.fresh, grade.restored, verify.restored}) = 4

\* A worker's snapshot: of the task's program, with the context and its tokens.
StateFits(rec, state) ==
    /\ state.task = "own"
    /\ The(rec, "visible") = Ref(state.task, "visible_context", state.visible)
    /\ The(rec, "tokens") = Ref(state.task, "token_ids", state.visible)
    /\ SameOutcome(rec, state)

InitialFits(initial, snapshot) ==
    /\ FromAuthority(initial) /\ The(initial, "task") = The(snapshot, "task")
    /\ StateFits(initial, StateIn(The(initial, "env")))
    /\ ~StateIn(The(initial, "env")).mutation

\* The grade and the verifier's finding were made on a restore of this snapshot.
ExecutedOn(c, grade, verifier, reach) ==
    /\ The(grade, "grade_restore") \in OfRole(reach, "grade_restore_receipt")
    /\ The(verifier, "verifier_restore") \in OfRole(reach, "verifier_restore_receipt")
    /\ The(grade, "grade_evidence") = The(c, "grade_evidence")
    /\ The(verifier, "verifier_evidence") = The(c, "verifier_evidence")

\* A faulty comparison, for mutation: the restored context is not compared.
RestoreFitsState(restore, purpose, c, snapshot) ==
    /\ restore.purpose = purpose
    /\ FromAuthority(restore) /\ The(restore, "task") = The(snapshot, "task")
    /\ The(restore, "snapshot") = The(c, "snapshot")
    /\ restore.refs.env = snapshot.refs.env
    /\ SameOutcome(restore, snapshot)

RestoreFits(restore, purpose, c, snapshot) ==
    /\ restore.purpose = purpose
    /\ FromAuthority(restore) /\ The(restore, "task") = The(snapshot, "task")
    /\ The(restore, "snapshot") = The(c, "snapshot")
    /\ restore.refs.env = snapshot.refs.env
    /\ restore.refs.visible = c.refs.visible /\ restore.refs.tokens = c.refs.tokens
    /\ SameOutcome(restore, snapshot)

AncestryAndRestores(g, reach, c) ==
    LET snapshot == Single(g, reach, "composite_snapshot")
        state == StateIn(The(snapshot, "env"))
        initial == Single(g, reach, "initial_restore_qualification")
        grade == Single(g, reach, "grade_restore_receipt")
        verify == Single(g, reach, "verifier_restore_receipt")
        ledger == Single(g, reach, "tool_boundary_ledger")
    IN /\ SnapshotAncestry(c, snapshot)
       /\ QuotasFit(snapshot) /\ ReceiptRepeats(c, snapshot)
       /\ MutationFits(ledger.rows, state, snapshot.cumulative)
       /\ StateFits(snapshot, state)
       /\ InitialFits(initial, snapshot)
       /\ ExecutedOn(c, Single(g, reach, "grade_evidence_receipt"),
                     Single(g, reach, "verifier_evidence_receipt"), reach)
       /\ RestoreFits(grade, "grade", c, snapshot)
       /\ RestoreFits(verify, "verify", c, snapshot)
       /\ Isolated(initial, grade, verify)

-----------------------------------------------------------------------------
(* Execution records against the ledger and the sealed program.            *)

\* The row of the program an intent is for: there may be none.
RowsFor(intent) ==
    {i \in 1 .. Len(attempts) : attempts[i].role = intent.role /\ Index(i) = intent.index}
ProgramRow(intent) == TranscriptRow("own", CHOOSE i \in RowsFor(intent) : TRUE)

IntentAgrees(intent, row) ==
    /\ intent.seed = row.seed
    /\ The(intent, "contract") = row.contract
    /\ The(intent, "request") = row.request /\ The(intent, "input") = row.input

\* The attempt repeats the row; its output tokens are not among what is compared.
AttemptAgrees(attempt, intent, intentRef, row) ==
    /\ The(attempt, "intent") = intentRef
    /\ \A f \in {"request", "input", "contract"} : attempt.refs[f] = intent.refs[f]
    /\ attempt.role = row.role /\ attempt.index = row.index /\ attempt.seed = row.seed
    /\ attempt.status = row.status /\ attempt.tokens = row.tokens
    /\ attempt.refs.response = row.response

EventAgrees(event, attempt, intentRef, row) ==
    /\ event.role = attempt.role /\ event.index = attempt.index /\ event.seed = attempt.seed
    /\ event.status = attempt.status
    /\ The(event, "intent_digest") = intentRef
    /\ event.refs.contract_digest = attempt.refs.contract
    /\ event.refs.response_digest = attempt.refs.response
    /\ event.observed = row.observed

\* A faulty comparison, for mutation: the settlement is not tied to its attempt.
SettlementIsFor(settlement, attempt, attemptRef, intentRef) ==
    /\ settlement.role = attempt.role /\ settlement.index = attempt.index
    /\ settlement.seed = attempt.seed
    /\ The(settlement, "intent_digest") = intentRef
    /\ settlement.refs.event_digest = attempt.refs.event

SettlementAgrees(settlement, attempt, attemptRef, intentRef) ==
    /\ settlement.role = attempt.role /\ settlement.index = attempt.index
    /\ settlement.seed = attempt.seed
    /\ The(settlement, "intent_digest") = intentRef
    /\ The(settlement, "attempt_digest") = attemptRef
    /\ settlement.refs.event_digest = attempt.refs.event

\* The four records of one call: ledger rows, program row, event, settlement.
CallAgrees(g, intentRef, attemptRef, settlementRef, intent, attempt) ==
    /\ RowsFor(intent) # {}
    /\ IntentAgrees(intent, ProgramRow(intent))
    /\ AttemptAgrees(attempt, intent, intentRef, ProgramRow(intent))
    /\ EventAgrees(g[The(attempt, "event")], attempt, intentRef, ProgramRow(intent))
    /\ SettlementAgrees(g[settlementRef], attempt, attemptRef, intentRef)

\* Exactly the ledger's records are reached, and the cost closes over them.
CoverageFits(g, reach, refs, intents, made, cost) ==
    /\ OfRole(reach, "provider_dispatch_intent") = Items(refs.intents)
    /\ OfRole(reach, "provider_attempt") = Items(refs.attempts)
    /\ \A i \in DOMAIN made : g[refs.intents[i]] = intents[i] /\ g[refs.attempts[i]] = made[i]
    /\ OfRole(reach, "provider_event") = {The(made[i], "event") : i \in DOMAIN made}
    /\ OfRole(reach, "provider_settlement") = Items(cost.refs.settlements)
    /\ cost.refs.attempts = refs.attempts

\* A tool call and its result are those of the program's call of that number.
ToolsAgree(ledger) ==
    \A i \in DOMAIN ledger.rows :
       /\ ledger.refs.tool_calls[i] = Ref("own", "tool_call", ledger.rows[i].call)
       /\ ledger.refs.tool_results[i] = Ref("own", "tool_result", ledger.rows[i].call)
       /\ ledger.rows[i] = bounds[i]

Monotone(s) == \A i, j \in DOMAIN s : i <= j => s[i] <= s[j]
Total(made, role) ==
    FoldLeft(+, 0, [i \in DOMAIN made |-> IF made[i].role = role THEN made[i].tokens ELSE 0])

\* Counters, seeds and clocks of the receipt against the decoded records.
CountersFit(c, intents, made, ledger) ==
    /\ [i \in DOMAIN made |-> <<made[i].role, made[i].index>>] =
          [i \in 1 .. Len(attempts) |-> <<attempts[i].role, Index(i)>>]
    /\ Monotone([i \in DOMAIN made |-> made[i].elapsed])
    /\ Monotone([i \in DOMAIN ledger.rows |-> ledger.rows[i].at])
    /\ \A r \in Roles : /\ c.counters.calls[r] = Cardinality({i \in DOMAIN made : made[i].role = r})
                        /\ c.counters.tokens[r] = Total(made, r)
    /\ c.counters.tools = Len(ledger.rows)
    /\ c.seeds = [i \in DOMAIN intents |-> intents[i].seed]
    /\ c.counters.elapsed = Now

ExecutionAgreesFor(g, reach, c, ledgerRef) ==
    LET refs == g[ledgerRef].refs
        intents == Intents(g, ledgerRef)
        made == Attempts(g, ledgerRef)
        cost == Single(g, reach, "provider_cost_closure")
    IN /\ CoverageFits(g, reach, refs, intents, made, cost)
       /\ \A i \in DOMAIN made :
             CallAgrees(g, refs.intents[i], refs.attempts[i], cost.refs.settlements[i],
                        intents[i], made[i])
       /\ ToolsAgree(Single(g, reach, "tool_boundary_ledger"))
       /\ CountersFit(c, intents, made, Single(g, reach, "tool_boundary_ledger"))
ExecutionAgrees(g, reach, c) ==
    ExecutionAgreesFor(g, reach, c, CHOOSE x \in OfRole(reach, "provider_attempt_ledger") : TRUE)

-----------------------------------------------------------------------------
(* Attestations.                                                           *)

\* At most one of each, of the task's program, under the authority it names.
AttestedBy(g, reach, role, authority) ==
    \E x \in OfRole(reach, role) :
       /\ OfRole(reach, role) = {x}
       /\ g[x].program = "own" /\ The(g[x], "authority") = authority
AttestationsFit(g, reach) ==
    /\ AttestedBy(g, reach, "subject_stateless_attestation", Study("subject_contract"))
    /\ IF auth.simulator
         THEN AttestedBy(g, reach, "simulator_stateless_attestation", Study("simulator_contract"))
         ELSE OfRole(reach, "simulator_stateless_attestation") = {}
    /\ AttestedBy(g, reach, "runtime_attestation", Study("source_revision"))
    /\ AttestedBy(g, reach, "container_attestation", Study("source_revision"))

-----------------------------------------------------------------------------
(* The sealed program itself: what the run consumed, as the program's own  *)
(* loader demands it.                                                      *)

RowClosed(i) ==
    LET a == attempts[i] IN
    /\ ~a.response => a.tokens = 0 /\ ~a.turn
    /\ a.role = "user_simulator" => a.calls = <<>>
ObservationClosed(b) == b.failure # "none" => b.terminal

\* Clock labels are unique and times do not fall; no tool is observed twice.
ProgramClosed ==
    /\ \A i \in 1 .. Len(attempts) : RowClosed(i)
    /\ \A i \in 1 .. Len(bounds) : ObservationClosed(bounds[i])
    /\ \A k, l \in 2 .. Len(trace) : k # l => trace[k].label # trace[l].label
    /\ Monotone([k \in DOMAIN trace |-> trace[k].t])
    /\ \A i, j \in 1 .. Len(bounds) : i # j => bounds[i].call # bounds[j].call

\* What the parser and the raw event say of a row is what the row says.
LeavesAgree ==
    \A i \in 1 .. Len(attempts) :
       LET a == attempts[i] IN
       /\ a.status \in {"completed", "refusal"} => a.response /\ a.turn
       /\ a.status = "malformed_response" => a.response /\ ~a.turn
       /\ trace[AfterClock(i) - 1].label = <<"before", a.role, Index(i)>>

-----------------------------------------------------------------------------
(* The readers.                                                            *)

\* seal_prefix_index, for one candidate: _load_candidate_graph, then
\* _validate_candidate.
ReadByIndex(g, reach) ==
    /\ Graphed(g, reach)
    /\ AncestryAndRestores(g, reach, g[Candidate])
    /\ ExecutionAgrees(g, reach, g[Candidate])
    /\ AttestationsFit(g, reach)

\* The assignment reads the features and what they were derived from.
ReadByAssignment(g, c) ==
    LET feature == g[The(c, "feature")] IN
    /\ feature.task = c.task
    /\ The(feature, "source") = Ref(c.task, "verifier_source", 0)
    /\ The(feature, "report") = Ref(c.task, "verifier_report", 0)

Accepted(g) == ReadByIndex(g, Reached(g)) /\ ReadByAssignment(g, g[Candidate])

-----------------------------------------------------------------------------
(* Fields whose content no reader compares with anything: the tokens of an
   answer, and which of the manifest's revisions a snapshot was taken under. *)
Uncompared == {"output", "source_revision"}

\* The evidence of a sealed prefix is accepted as it was written; and if one
\* reference, in any record, names a like artifact of another call, of another
\* worker or of another task instead, some reader refuses the prefix.
CrossWiringRefused ==
    pc = "frozen" /\ auth \in Sampled =>
        IF wire = Straight THEN Accepted(Graph) /\ ProgramClosed /\ LeavesAgree
                           ELSE Accepted(Graph) => wire.field \in Uncompared

\* Safety.  The readers of a prefix (replay, reload, and the readers of each
\* record) accept all that the loop seals, and nothing that is wired otherwise
\* (prefix_index.py, evidence.py, synthetic_prefix_loop.py).
ReadersAreExact == SealedIsAccepted /\ CrossWiringRefused
=============================================================================
