--------------------------- MODULE ReviewCampaign ---------------------------
(***************************************************************************)
(* The adversarial review of a study (adversarial_review/): `run` loads a  *)
(* campaign's specification, checks the declared inputs against the bytes  *)
(* under the campaign's root, asks one reviewer after the other, in the    *)
(* order of their names, verifies every finding against the root, and lets *)
(* the editor, the falsification chair and the disposition work on the     *)
(* sealed reports.  It then writes six artifacts, one after the other.     *)
(*                                                                         *)
(* The files may be edited while reviewers work, the process may be killed *)
(* at any point, and the operator may run the campaign again, with         *)
(* overrides of findings he read or with receipts that discharge them.     *)
(***************************************************************************)
EXTENDS Naturals, Sequences, FiniteSets, SequencesExt

CONSTANTS
    Roles,        \* the stage-one reviewers, numbered in the order of their names
    Group,        \* each role's conflict group
    Needs,        \* each role's required input slots
    Files,        \* files under the campaign's root
    SlotOf,       \* the slot a file is declared for
    Optional,     \* files declared optional
    PeerIn,       \* the reviewer whose name is in a file's path, or NoRole
    Versions,     \* contents of a file
    Receipts,     \* the receipt index: identifier to digest
    Sources,      \* registered external sources
    Supported,    \* the declared claims, and whether evidence supports them
    Stages,       \* the stages run here, of the two
    Answers,      \* what each reviewer may answer
    NoRole, NoFile,
    MaxRuns, MaxChanges    \* bounds: runs of the campaign, edits of its files

\* A proposal lists finitely many findings.
ASSUME AnswersAssumption ==
    \A r \in Roles : \A answer \in Answers[r] : IsFiniteSet(DOMAIN answer.findings)

VARIABLES
    tree,      \* the version of each file, or NoFile
    spec,      \* the specification: stage, source, roles, declared versions, overrides, discharges
    transcripts,  \* the sealed transcript of each reviewer, which a replay reads
    step,      \* idle, reviewing, writing
    reports,   \* the reports of the current run, by role
    heard,     \* history: what each reviewer answered, and the tree it was verified in
    began,     \* history: the tree when the current run began
    results,   \* history: the result of each run that was decided
    written,   \* for each artifact the run it is of, 0 when absent, MaxRuns + 1 when torn
    status,    \* exit status of the last run: none, 0, 1, 2
    launches, changes

rvars == <<tree, spec, transcripts, step, reports, heard, began, results, written, status,
           launches, changes>>

Artifacts == <<"campaign", "findings", "claim-matrix", "falsification", "disposition", "report">>
PreLaunch == "stage_1_pre_launch"
PreSubmission == "stage_2_pre_submission"
Quorum == 3                                                \* MAJOR_QUORUM
Severities == <<"blocker", "major", "minor", "speculation">>
Rank(severity) == CHOOSE i \in 1 .. 4 : Severities[i] = severity

-----------------------------------------------------------------------------
(* Inputs.                                                                 *)

RequiredSlots(roles) == UNION {Needs[r] : r \in roles}

Declared(inputs) == {f \in Files : inputs[f] # NoFile}

\* preflight: every required slot is declared, and every declared file has
\* the declared bytes or is optional and absent.
Preflight(roles, inputs) ==
    /\ RequiredSlots(roles) \subseteq {SlotOf[f] : f \in Declared(inputs)}
    /\ \A f \in Declared(inputs) :
          tree[f] = inputs[f] \/ (tree[f] = NoFile /\ f \in Optional)

-----------------------------------------------------------------------------
(* Verification of a finding.                                              *)

\* verify_evidence: files are read from the root as it is now, declared or not.
\* A command has only to be stated.
Holds(ref) ==
    CASE ref.kind = "span"     -> tree[ref.at] # NoFile /\ ref.says \in {NoFile, tree[ref.at]}
      [] ref.kind = "artifact" -> tree[ref.at] # NoFile /\ ref.says = tree[ref.at]
      [] ref.kind = "receipt"  -> ref.at \in DOMAIN Receipts /\ ref.says \in {NoFile, Receipts[ref.at]}
      [] ref.kind = "external" -> ref.at \in Sources
      [] ref.kind = "command"  -> TRUE

\* verify_finding: the references that fail, and what the severity lacks.
Failures(f) ==
    {ref \in f.evidence : ~Holds(ref)}
      \cup (IF f.severity # "speculation" /\ f.evidence = {}
            THEN {[kind |-> "unevidenced"]} ELSE {})
      \cup (IF f.severity # "speculation" /\ ~f.refutable
            THEN {[kind |-> "irrefutable"]} ELSE {})

\* apply_outcome: an inadmissible finding becomes speculation, with its old
\* severity and the failures in its statement.  A record's digest is the record.
Recorded(f, role) ==
    [by |-> role, id |-> f.id, severity |-> IF Failures(f) = {} THEN f.severity ELSE "speculation",
     was |-> f.severity, failures |-> Failures(f), evidence |-> f.evidence, claims |-> f.claims,
     refutable |-> f.refutable, measured |-> f.measured]

\* duplicate_finding_ids.
DuplicateIds(findings) ==
    \E i, j \in DOMAIN findings : i # j /\ findings[i].id = findings[j].id

\* A prompt names its role, so two roles never have one prompt.
Prompt(role) == role

\* The report of a parsed proposal.
Report(role, answer) ==
    [findings |-> {Recorded(answer.findings[i], role) : i \in DOMAIN answer.findings},
     depends |-> answer.depends, prompt |-> Prompt(role)]

Findings(sealed) == UNION {sealed[r].findings : r \in DOMAIN sealed}
Admissible(findings) == {f \in findings : f.severity # "speculation"}

-----------------------------------------------------------------------------
(* Independence: detect_conflicts.                                         *)

SharedContext(sealed) ==
    LET With(p) == {r \in DOMAIN sealed : sealed[r].prompt = p}
    IN  {[kind |-> "shared_context", roles |-> With(p),
          blocking |-> Cardinality({Group[r] : r \in With(p)}) = 1] :
            p \in {sealed[r].prompt : r \in {s \in DOMAIN sealed :
                                                Cardinality(With(sealed[s].prompt)) > 1}}}

DeclaredDependencies(sealed) ==
    {[kind |-> "declared_dependency", roles |-> {pair[1], pair[2]}, blocking |-> TRUE] :
        pair \in {p \in (DOMAIN sealed) \X Roles : p[2] # p[1] /\ p[2] \in sealed[p[1]].depends}}

\* A reference whose path names a peer.
CrossCitations(sealed) ==
    {[kind |-> "cross_role_citation", roles |-> {cite[1].by, cite[2]}, blocking |-> TRUE] :
        cite \in {c \in Findings(sealed) \X Roles :
                    /\ c[2] # c[1].by
                    /\ \E ref \in c[1].evidence :
                          ref.kind \in {"span", "artifact"} /\ PeerIn[ref.at] = c[2]}}

Conflicts(sealed) ==
    SharedContext(sealed) \cup DeclaredDependencies(sealed) \cup CrossCitations(sealed)

-----------------------------------------------------------------------------
(* The editor: synthesize.                                                 *)

\* Severity, then claims attacked, then evidence, then an arbitrary fixed order.
Before(f, g) ==
    \/ Rank(f.severity) < Rank(g.severity)
    \/ /\ Rank(f.severity) = Rank(g.severity)
       /\ \/ Cardinality(f.claims) > Cardinality(g.claims)
          \/ /\ Cardinality(f.claims) = Cardinality(g.claims)
             /\ Cardinality(f.evidence) > Cardinality(g.evidence)
InOrder(findings) == SetToSortSeq(findings, Before)

\* The only admissible attack on a claim, or the only one of its severity.
Attacks(findings, c) ==
    {f \in Admissible(findings) : c \in f.claims \/ (f.claims = {} /\ c = NoFile)}
Minority(findings) ==
    {f \in Admissible(findings) :
        \E c \in DOMAIN Supported \cup {NoFile} \cup f.claims :
           LET group == Attacks(findings, c) IN
           /\ f \in group
           /\ \/ group = {f}
              \/ /\ Cardinality({g.by : g \in group}) > 1
                 /\ \A g \in group \ {f} : g.severity # f.severity}

OfSeverity(findings, severity) == {f \in findings : f.severity = severity}

\* sufficient_rejection_set, as a set: all blockers, or the first majors of a quorum.
Sufficient(findings) ==
    LET blockers == OfSeverity(findings, "blocker")
        majors == OfSeverity(findings, "major")
    IN  IF blockers # {} THEN blockers
        ELSE IF Cardinality(majors) >= Quorum
             THEN {f \in majors : \E i \in 1 .. Quorum : InOrder(majors)[i] = f} ELSE {}

Matrix(findings) ==
    [c \in DOMAIN Supported |->
        [attacks |-> {f \in Admissible(findings) : c \in f.claims}, unsupported |-> ~Supported[c]]]

Synthesis(findings) ==
    [ordered |-> InOrder(findings), rejection |-> Sufficient(findings),
     minority |-> Minority(findings), matrix |-> Matrix(findings),
     dissent |-> OfSeverity(findings, "speculation"),
     orphans |-> UNION {f.claims : f \in findings} \ DOMAIN Supported]

-----------------------------------------------------------------------------
(* The chair and the disposition.                                          *)

\* convert: before there are results, a finding about them is deferred.
Deferred(f, stage) == stage = PreLaunch /\ f.measured
Items(findings, stage) ==
    {[finding |-> f,
      disposition |-> IF Deferred(f, stage) THEN "deferred_post_results"
                      ELSE IF f.severity = "blocker" THEN "blocking" ELSE "non_blocking_tracked"] :
        f \in Admissible(findings)}

\* validate_overrides: each of a recorded item, and none twice.
OverridesFit(overrides, items) ==
    /\ \A i \in DOMAIN overrides : \E item \in items : item.finding = overrides[i]
    /\ \A i, j \in DOMAIN overrides : overrides[i] = overrides[j] => i = j

\* A discharge is by a receipt's name; nothing looks the receipt up.
Discharged(f) == f \in DOMAIN spec.discharged /\ spec.discharged[f] # ""
\* A faulty discharge, for mutation: it needs no receipt.
SettledByMention(f) == f \in Range(spec.overrides) \/ f \in DOMAIN spec.discharged
Settled(f) == f \in Range(spec.overrides) \/ Discharged(f)

Blocking(items) == {i.finding : i \in {j \in items : j.disposition = "blocking" /\ ~Settled(j.finding)}}
StandingMajors(items) ==
    {i.finding : i \in {j \in items : j.finding.severity = "major" /\ ~Settled(j.finding)}}

Verdict(conflicts, items) ==
    CASE \E c \in conflicts : c.blocking -> "launch_blocked_by_conflict"
      [] Blocking(items) # {} \/ Cardinality(StandingMajors(items)) >= Quorum -> "launch_blocked"
      [] OTHER -> "no_blocking_findings"

\* decide, sealed with everything it depends on.
Disposition(sealed, items) ==
    [stage |-> spec.stage, verdict |-> Verdict(Conflicts(sealed), items),
     inputs |-> spec.inputs, overridden |-> Range(spec.overrides),
     blocking |-> IF Blocking(items) = {} /\ Cardinality(StandingMajors(items)) >= Quorum
                  THEN CHOOSE S \in SUBSET StandingMajors(items) : Cardinality(S) = Quorum
                  ELSE Blocking(items)]

Result(sealed) ==
    [reports |-> sealed, heard |-> heard, began |-> began, spec |-> spec,
     synthesis |-> Synthesis(Findings(sealed)), conflicts |-> Conflicts(sealed),
     items |-> Items(Findings(sealed), spec.stage),
     disposition |-> Disposition(sealed, Items(Findings(sealed), spec.stage))]

-----------------------------------------------------------------------------
(* One run.                                                                *)

Nothing == [r \in {} |-> 0]

\* The process ends with an exit status; whatever it wrote stays.
Exit(code) ==
    /\ step' = "idle" /\ status' = code
    /\ reports' = Nothing /\ heard' = Nothing /\ began' = Nothing
GoOn(next) == step' = next /\ UNCHANGED <<status, reports, heard, began>>

\* (Bound: a campaign of live reviewers is run once.)
RInit ==
    /\ tree \in [Files -> Versions]
    /\ spec \in [stage : Stages, live : BOOLEAN, roles : {Roles}, inputs : {tree},
                 overrides : {<<>>}, discharged : {Nothing}]
    /\ transcripts \in [Roles -> UNION {Answers[r] : r \in Roles}]
    /\ \A r \in Roles : transcripts[r] \in Answers[r]
    /\ step = "idle" /\ reports = Nothing /\ heard = Nothing /\ began = Nothing /\ results = <<>>
    /\ written = [i \in 1 .. Len(Artifacts) |-> 0] /\ status = 3
    /\ launches = (IF spec.live THEN MaxRuns - 1 ELSE 0) /\ changes = 0

\* run: the inputs are checked once, before any reviewer.
LaunchCampaign ==
    /\ step = "idle" /\ launches < MaxRuns
    /\ launches' = launches + 1
    /\ IF Preflight(spec.roles, spec.inputs) 
       THEN /\ step' = "reviewing" /\ status' = 3 /\ began' = tree
            /\ UNCHANGED <<reports, heard>>
       ELSE Exit(2)
    /\ UNCHANGED <<tree, spec, transcripts, results, written, changes>>

Waiting == spec.roles \ DOMAIN reports

\* The next reviewer answers: within the contract, outside of it (a missing or
\* foreign transcript, no JSON, another role, an identifier twice) or never in time,
\* which is an error nobody catches.
Review ==
    /\ step = "reviewing"
    /\ \E role \in {r \in Waiting : \A s \in Waiting : r <= s} :
       \/ \E answer \in IF spec.live THEN Answers[role] ELSE {transcripts[role]} :
             IF DuplicateIds(answer.findings) THEN Exit(2)
             ELSE /\ reports' = [r \in DOMAIN reports \cup {role} |->
                                   IF r = role THEN Report(role, answer) ELSE reports[r]]
                  /\ heard' = [r \in DOMAIN heard \cup {role} |->
                                 IF r = role THEN [answer |-> answer, tree |-> tree] ELSE heard[r]]
                  /\ UNCHANGED <<step, status, began>>
       \/ \E code \in {1, 2} : Exit(code)
    /\ UNCHANGED <<tree, spec, transcripts, results, written, launches, changes>>

\* The editor, the chair and the disposition.
DecideCampaign ==
    /\ step = "reviewing" /\ Waiting = {}
    /\ IF OverridesFit(spec.overrides, Items(Findings(reports), spec.stage))
       THEN results' = Append(results, Result(reports)) /\ GoOn("writing")
       ELSE Exit(2) /\ UNCHANGED results
    /\ UNCHANGED <<tree, spec, transcripts, written, launches, changes>>

\* write_campaign and the report: in this order, each file overwritten.
Unwritten == {i \in DOMAIN written : written[i] # Len(results)}
WriteArtifact ==
    /\ step = "writing"
    /\ LET i == CHOOSE i \in Unwritten : \A j \in Unwritten : i <= j IN
       /\ written' = [written EXCEPT ![i] = Len(results)]
       /\ IF Unwritten # {i} THEN GoOn("writing")
          ELSE Exit(IF Last(results).disposition.verdict = "no_blocking_findings" THEN 0 ELSE 1)
    /\ UNCHANGED <<tree, spec, transcripts, results, launches, changes>>

\* Killed, in the middle of a file when it writes.
KillCampaign ==
    /\ step # "idle" /\ Exit(1)
    /\ IF step = "writing"
       THEN LET i == CHOOSE i \in Unwritten : \A j \in Unwritten : i <= j
            IN  written' = [written EXCEPT ![i] = MaxRuns + 1]
       ELSE UNCHANGED written
    /\ UNCHANGED <<tree, spec, transcripts, results, launches, changes>>

\* Somebody edits or removes a file under the root (while the artifacts are
\* written nobody reads it, and the first run declares the files as they are).
EditInput ==
    /\ step # "writing" /\ launches > 0 /\ changes < MaxChanges /\ changes' = changes + 1
    /\ \E f \in Files, v \in Versions \cup {NoFile} :
          v # tree[f] /\ tree' = [tree EXCEPT ![f] = v]
    /\ UNCHANGED <<spec, transcripts, step, reports, heard, began, results, written, status,
                   launches>>

\* The operator has read findings.json: he declares the files as they are and
\* overrides or discharges what he read.
Readable == IF written[2] \in DOMAIN results THEN Findings(results[written[2]].reports) ELSE {}
ReviseSpec ==
    /\ step = "idle" /\ launches \in 1 .. MaxRuns - 1 /\ spec.overrides = <<>>
    /\ spec.discharged = Nothing
    /\ \/ \E overrides \in {<<f, f>> : f \in Readable}
                              \cup {SetToSeq(S) : S \in {T \in SUBSET Readable : Cardinality(T) <= 2}} :
             spec' = [spec EXCEPT !.inputs = tree, !.overrides = overrides]
       \/ \E f \in Readable, receipt \in {"", "receipt"} :
             spec' = [spec EXCEPT !.inputs = tree, !.discharged = [g \in {f} |-> receipt]]
    /\ UNCHANGED <<tree, transcripts, step, reports, heard, began, results, written, status,
                   launches, changes>>

RNext ==
    \/ LaunchCampaign \/ Review \/ DecideCampaign \/ WriteArtifact \/ KillCampaign
    \/ EditInput \/ ReviseSpec

RSpec == RInit /\ [][RNext]_rvars

-----------------------------------------------------------------------------
\* Every variable has its type.
RTypeOK ==
    /\ tree \in [Files -> Versions \cup {NoFile}]
    /\ step \in {"idle", "reviewing", "writing"}
    /\ DOMAIN reports \subseteq Roles /\ DOMAIN heard = DOMAIN reports
    /\ Len(results) <= launches /\ launches <= MaxRuns /\ changes <= MaxChanges
    /\ written \in [1 .. Len(Artifacts) -> 0 .. MaxRuns + 1] /\ status \in 0 .. 3

\* A reviewer's blocker with evidence that was there and a condition that
\* would refute it.
Grounded(f, at) ==
    /\ f.severity = "blocker" /\ f.refutable /\ f.evidence # {}
    /\ \A ref \in f.evidence :
          ref.kind = "command" \/ (/\ ref.kind \in {"span", "artifact"}
                                   /\ at[ref.at] # NoFile /\ at[ref.at] = ref.says)

\* A recorded finding that somebody answered for, by its digest.
AnsweredFor(f, r) ==
    \/ \E i \in DOMAIN r.spec.overrides : r.spec.overrides[i] = f
    \/ f \in DOMAIN r.spec.discharged /\ r.spec.discharged[f] # ""

\* What a pass rests on: the inputs were the declared ones when the review
\* began, every reviewer answered, none leaned on a peer, no quorum of majors
\* stands, and every blocker a reviewer could ground is in the record under its
\* own severity and is answered for, or waits for results.
Earned(r) ==
    /\ \A f \in Declared(r.spec.inputs) : r.began[f] \in {r.spec.inputs[f], NoFile}
    /\ DOMAIN r.heard = r.spec.roles
    /\ \A a \in r.spec.roles :
          LET said == r.heard[a].answer.findings IN
          /\ r.heard[a].answer.depends \cap Roles \subseteq {a}
          /\ \A i \in DOMAIN said : Grounded(said[i], r.heard[a].tree) =>
                \E f \in Findings(r.reports) :
                   /\ f.by = a /\ f.id = said[i].id /\ f.severity = "blocker"
                   /\ AnsweredFor(f, r) \/ (r.spec.stage = PreLaunch /\ said[i].measured)
    /\ Cardinality({f \in Findings(r.reports) : f.severity = "major" /\ ~AnsweredFor(f, r)}) < Quorum

\* A status of 0, on which a pipeline goes on, means that all artifacts are of
\* the last run and that its verdict was earned; a disposition that says so was
\* earned even if a later run was killed while it wrote.  No blocker is left
\* then in the rejection that the editor argues for beside it.
PassIsEarned ==
    /\ \A k \in DOMAIN results : results[k].disposition.verdict = "no_blocking_findings" =>
          /\ Earned(results[k])
          /\ \A f \in results[k].synthesis.rejection : f.severity = "blocker" =>
                AnsweredFor(f, results[k]) \/ Deferred(f, results[k].spec.stage)
    /\ status = 0 => \A i \in DOMAIN written :
          written[i] = Len(results) /\ Last(results).disposition.verdict = "no_blocking_findings"
=============================================================================
