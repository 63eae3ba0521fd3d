-------------------------- MODULE PrefixCandidate --------------------------
(***************************************************************************)
(* The evidence graph of a sealed prefix, as the controller writes it      *)
(* (resampling_null/synthetic_prefix_loop.py, records of evidence.py and   *)
(* prefix_contracts.py).  PrefixLoop keeps only which artifacts exist; here*)
(* each has the references and the state it holds.                         *)
(*                                                                         *)
(* An artifact is named by whose it is, its role and its content: two      *)
(* artifacts of a role with the same content are one file.  owner is       *)
(* "own", "twin" (the same run of another task of the schedule) or "study".*)
(* A digest is written as the name it is the digest of.  Seeds are fixed   *)
(* by role and index; byte counts and descriptors' texts are left out.     *)
(*                                                                         *)
(* wire is a fault in the writer: one reference, in one record, that names *)
(* another artifact than it should.  What names that record names it as it *)
(* was written, since names are digests.                                   *)
(***************************************************************************)
EXTENDS PrefixLoop

CONSTANT Sampled   \* the authorities whose sealed prefixes are wired wrong
VARIABLE wire

Ref(o, role, n) == [owner |-> o, role |-> role, n |-> n]
Study(role) == Ref("study", role, 0)
Straight == [at |-> Study("none"), field |-> "none", i |-> 0, to |-> Study("none")]
Some(cond, ref) == IF cond THEN <<ref>> ELSE <<>>
Items(s) == {s[i] : i \in DOMAIN s}

-----------------------------------------------------------------------------
(* The sealed program of the run, as the controller found it.              *)

Index(i) == Cardinality({j \in 1 .. i - 1 : attempts[j].role = attempts[i].role})
Contract(role) ==
    Study(IF role = "primary_subject" THEN "subject_contract" ELSE "simulator_contract")

\* derive_call_seed, for the task's prefix seed.
SeedOf(o, role, index) == <<o, role, index>>

\* The clock read after an attempt.
AfterClock(i) ==
    LET label == <<"after", attempts[i].role, Index(i)>>
    IN (CHOOSE k \in 2 .. Len(trace) : trace[k].label = label)
ReadAt(k) == trace[k].t

\* A row of the provider transcript, with the digests of what was exchanged.
TranscriptRow(o, i) ==
    [role |-> attempts[i].role, index |-> Index(i), status |-> attempts[i].status,
     seed |-> SeedOf(o, attempts[i].role, Index(i)), tokens |-> attempts[i].tokens,
     contract |-> Contract(attempts[i].role), observed |-> ReadAt(AfterClock(i)),
     request |-> Ref(o, "provider_request", i), input |-> Ref(o, "input_token_ids", i),
     response |-> Some(attempts[i].response, Ref(o, "provider_response", i))]

\* The visible context grows with each turn the worker took and each result.
LastShown == attempts # <<>> /\ (out.failure = "none" \/ AfterClock(Len(attempts)) < Len(trace))
Shown == Len(attempts) + Len(bounds) - (IF attempts = <<>> \/ LastShown THEN 0 ELSE 1)
\* The worker's snapshot, by its content: nothing happened, or all did.
EnvNow == IF Shown = 0 /\ out.failure = "none" THEN 0 ELSE 1 + Shown
StateIn(env) ==
    IF env.n = 0
      THEN [task |-> env.owner, visible |-> 0, branch |-> <<>>, remainder |-> <<>>,
            terminal |-> rows = 0, failure |-> "none", mutation |-> FALSE]
      ELSE [task |-> env.owner, visible |-> Shown, branch |-> worker.pending,
            remainder |-> worker.remainder, terminal |-> worker.terminal,
            failure |-> worker.failure, mutation |-> worker.mutation]

-----------------------------------------------------------------------------
(* The records.  refs holds every reference as a sequence: one, none or    *)
(* many.                                                                   *)

Ancestry(o) ==
    [schedule |-> <<Study("resampling_prefix_schedule")>>, task |-> <<Ref(o, "selected_task", 0)>>,
     task_input |-> <<Ref(o, "task_input", 0)>>,
     environment_contract |-> <<Study("environment_contract")>>,
     isolation_contract |-> <<Study("isolation_contract")>>]
Context(o, n) == [visible |-> <<Ref(o, "visible_context", n)>>, tokens |-> <<Ref(o, "token_ids", n)>>]
Outcome4(s) == [branch |-> s.branch, remainder |-> s.remainder,
                terminal |-> s.terminal, failure |-> s.failure]

IntentOf(o, i) ==
    LET row == TranscriptRow(o, i) IN
    [refs |-> [request |-> <<row.request>>, input |-> <<row.input>>, contract |-> <<row.contract>>],
     role |-> row.role, index |-> row.index, seed |-> row.seed, deadline |-> Deadline]

AttemptOf(o, i) ==
    LET row == TranscriptRow(o, i) IN
    [refs |-> [intent |-> <<Ref(o, "provider_dispatch_intent", i)>>, request |-> <<row.request>>,
               input |-> <<row.input>>, contract |-> <<row.contract>>, response |-> row.response,
               output |-> Some(attempts[i].response, Ref(o, "output_token_ids", i)),
               event |-> <<Ref(o, "provider_event", i)>>],
     role |-> row.role, index |-> row.index, seed |-> row.seed, status |-> row.status,
     tokens |-> row.tokens, elapsed |-> row.observed]

EventOf(o, i) ==
    LET row == TranscriptRow(o, i) IN
    [refs |-> [intent_digest |-> <<Ref(o, "provider_dispatch_intent", i)>>,
               contract_digest |-> <<row.contract>>, response_digest |-> row.response],
     role |-> row.role, index |-> row.index, seed |-> row.seed, status |-> row.status,
     observed |-> row.observed]

SettlementOf(o, i) ==
    LET row == TranscriptRow(o, i) IN
    [refs |-> [intent_digest |-> <<Ref(o, "provider_dispatch_intent", i)>>,
               attempt_digest |-> <<Ref(o, "provider_attempt", i)>>,
               event_digest |-> <<Ref(o, "provider_event", i)>>],
     role |-> row.role, index |-> row.index, seed |-> row.seed]

EachAttempt(o, role) == [i \in 1 .. Len(attempts) |-> Ref(o, role, i)]

\* The ledger repeats every intent and attempt beside its reference; the
\* copies are the records in the controller's hands (Intents and Attempts).
LedgerOf(o) == [refs |-> [intents |-> EachAttempt(o, "provider_dispatch_intent"),
                          attempts |-> EachAttempt(o, "provider_attempt")]]
CostOf(o) == [refs |-> [attempts |-> EachAttempt(o, "provider_attempt"),
                        settlements |-> EachAttempt(o, "provider_settlement")]]
BoundariesOf(o) ==
    [refs |-> [tool_calls |-> [i \in 1 .. Len(bounds) |-> Ref(o, "tool_call", bounds[i].call)],
               tool_results |-> [i \in 1 .. Len(bounds) |-> Ref(o, "tool_result", bounds[i].call)]],
     rows |-> bounds]

AttestationOf(o, kind, authority) ==
    [refs |-> [authority |-> <<authority>>], kind |-> kind, program |-> o]

\* Two of the fleet's four workers took part.
InitialOf(o) ==
    [refs |-> Ancestry(o) @@ Context(o, 0) @@ [env |-> <<Ref(o, "environment_snapshot", 0)>>],
     live |-> <<o, 0>>, fresh |-> <<o, 1>>] @@ Outcome4(StateIn(Ref(o, "environment_snapshot", 0)))

Counters == [calls |-> used.calls, tokens |-> used.tokens, tools |-> used.tools, elapsed |-> Now]
Less(cap, n) == IF cap > n THEN cap - n ELSE 0
\* What the caps leave after the run.
Remaining ==
    [tokens |-> [r \in Roles |-> Less(Caps(r).tokens, used.tokens[r])],
     calls |-> [r \in Roles |-> Less(Caps(r).calls, used.calls[r])],
     tools |-> Less(auth.tools, used.tools), wall |-> Less(auth.wall, Now),
     turns |-> Less(Caps("user_simulator").turns, used.turns["user_simulator"])]

SnapshotOf(o) ==
    [refs |-> Ancestry(o) @@ Context(o, Shown) @@
        [study |-> <<Study("study_manifest")>>, initial |-> <<Ref(o, "initial_restore_qualification", 0)>>,
         env |-> <<Ref(o, "environment_snapshot", EnvNow)>>,
         boundaries |-> <<Ref(o, "tool_boundary_ledger", 0)>>,
         ledger |-> <<Ref(o, "provider_attempt_ledger", 0)>>,
         subject_attestation |-> <<Ref(o, "subject_stateless_attestation", 0)>>,
         simulator_attestation |-> Some(auth.simulator, Ref(o, "simulator_stateless_attestation", 0)),
         runtime |-> <<Ref(o, "runtime_attestation", 0)>>,
         container |-> <<Ref(o, "container_attestation", 0)>>,
         source_revision |-> <<Study("source_revision")>>],
     counters |-> Counters, remaining |-> Remaining, cumulative |-> used.mutated]
    @@ Outcome4(StateIn(Ref(o, "environment_snapshot", EnvNow)))

\* _restore_exact_snapshot, in the third or the fourth worker.
RestoreOf(o, purpose) ==
    [refs |-> Ancestry(o) @@ Context(o, Shown) @@
        [snapshot |-> <<Ref(o, "composite_snapshot", 0)>>,
         env |-> <<Ref(o, "environment_snapshot", EnvNow)>>],
     purpose |-> purpose, restored |-> <<o, IF purpose = "grade" THEN 2 ELSE 3>>]
    @@ Outcome4(StateIn(Ref(o, "environment_snapshot", EnvNow)))

GradeReceiptOf(o) == [refs |-> [grade_restore |-> <<Ref(o, "grade_restore_receipt", 0)>>,
                                grade_evidence |-> <<Ref(o, "grade_evidence", 0)>>]]
VerifierReceiptOf(o) == [refs |-> [verifier_restore |-> <<Ref(o, "verifier_restore_receipt", 0)>>,
                                   verifier_evidence |-> <<Ref(o, "verifier_evidence", 0)>>]]
FeatureOf(o) == [refs |-> [source |-> <<Ref(o, "verifier_source", 0)>>,
                           report |-> <<Ref(o, "verifier_report", 0)>>], task |-> o]

CandidateOf(o) ==
    [refs |-> Context(o, Shown) @@
        [schedule_digest |-> <<Study("resampling_prefix_schedule")>>,
         snapshot |-> <<Ref(o, "composite_snapshot", 0)>>,
         grade_evidence |-> <<Ref(o, "grade_evidence", 0)>>,
         grade_receipt |-> <<Ref(o, "grade_evidence_receipt", 0)>>,
         verified_snapshot |-> <<Ref(o, "composite_snapshot", 0)>>,
         verifier_evidence |-> <<Ref(o, "verifier_evidence", 0)>>,
         feature |-> <<Ref(o, "verifier_feature", 0)>>,
         verifier_receipt |-> <<Ref(o, "verifier_evidence_receipt", 0)>>,
         ledger |-> <<Ref(o, "provider_attempt_ledger", 0)>>,
         boundaries |-> <<Ref(o, "tool_boundary_ledger", 0)>>,
         cost |-> <<Ref(o, "provider_cost_closure", 0)>>],
     task |-> o, counters |-> Counters, trigger |-> out.trigger, failure |-> out.failure,
     branch |-> out.branch, remainder |-> out.remainder,
     seeds |-> [i \in 1 .. Len(attempts) |-> SeedOf(o, attempts[i].role, Index(i))]]

-----------------------------------------------------------------------------
(* Everything one run wrote that refers to something.                      *)

Once(o) ==
    Ref(o, "prefix_candidate_receipt", 0) :> CandidateOf(o) @@
    Ref(o, "composite_snapshot", 0) :> SnapshotOf(o) @@
    Ref(o, "initial_restore_qualification", 0) :> InitialOf(o) @@
    Ref(o, "grade_restore_receipt", 0) :> RestoreOf(o, "grade") @@
    Ref(o, "verifier_restore_receipt", 0) :> RestoreOf(o, "verify") @@
    Ref(o, "grade_evidence_receipt", 0) :> GradeReceiptOf(o) @@
    Ref(o, "verifier_evidence_receipt", 0) :> VerifierReceiptOf(o) @@
    Ref(o, "verifier_feature", 0) :> FeatureOf(o) @@
    Ref(o, "provider_attempt_ledger", 0) :> LedgerOf(o) @@
    Ref(o, "provider_cost_closure", 0) :> CostOf(o) @@
    Ref(o, "tool_boundary_ledger", 0) :> BoundariesOf(o) @@
    Ref(o, "subject_stateless_attestation", 0) :>
        AttestationOf(o, "subject", Study("subject_contract")) @@
    [x \in Items(Some(auth.simulator, Ref(o, "simulator_stateless_attestation", 0))) |->
        AttestationOf(o, "simulator", Study("simulator_contract"))] @@
    Ref(o, "runtime_attestation", 0) :> AttestationOf(o, "runtime", Study("source_revision")) @@
    Ref(o, "container_attestation", 0) :> AttestationOf(o, "container", Study("source_revision"))
PerAttempt(o, role) == {Ref(o, role, i) : i \in 1 .. Len(attempts)}
Written(o) ==
    Once(o) @@ [x \in PerAttempt(o, "provider_dispatch_intent") |-> IntentOf(o, x.n)]
            @@ [x \in PerAttempt(o, "provider_attempt") |-> AttemptOf(o, x.n)]
            @@ [x \in PerAttempt(o, "provider_event") |-> EventOf(o, x.n)]
            @@ [x \in PerAttempt(o, "provider_settlement") |-> SettlementOf(o, x.n)]

RefsIn(g, S) ==
    UNION {UNION {Items(g[x].refs[f]) : f \in DOMAIN g[x].refs} : x \in S}

\* The graph the readers find: the run's own artifacts, one of them wired
\* wrong, beside those of the other task.
Wired(g) == IF wire = Straight THEN g
            ELSE [g EXCEPT ![wire.at].refs[wire.field][wire.i] = wire.to]
Graph == Wired(Written("own") @@ Written("twin"))

\* Roles whose artifacts have one form.
LookAlike == {{"grade_restore_receipt", "verifier_restore_receipt"},
              {"grade_evidence", "verifier_evidence"}, {"visible_context", "token_ids"},
              {"provider_request", "provider_response"}, {"input_token_ids", "output_token_ids"},
              {"subject_contract", "simulator_contract"}, {"verifier_source", "verifier_report"}}
\* What a writer could name instead of ref: anything of its form that either
\* run refers to, or another of the study's assets of that role.
Mistakable(named, ref) ==
    {x \in named : x.role = ref.role \/ {x.role, ref.role} \in LookAlike}
    \cup (IF ref.owner = "study" THEN {Ref("study", ref.role, 1)} ELSE {})

\* A writer's mistake in a sealed prefix, before it is read.
CrossWireIn(own, named) ==
    \E at \in DOMAIN own : \E field \in DOMAIN own[at].refs :
       \E i \in DOMAIN own[at].refs[field] : \E to \in Mistakable(named, own[at].refs[field][i]) :
          /\ to # own[at].refs[field][i]
          /\ wire' = [at |-> at, field |-> field, i |-> i, to |-> to]
Named(g) == RefsIn(g, DOMAIN g)
CrossWire ==
    /\ pc = "frozen" /\ auth \in Sampled /\ wire = Straight
    /\ CrossWireIn(Written("own"), Named(Written("own") @@ Written("twin")))
    /\ UNCHANGED vars
=============================================================================
