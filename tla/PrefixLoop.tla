----------------------------- MODULE PrefixLoop -----------------------------
(***************************************************************************)
(* One prefix of a task (resampling_null/synthetic_prefix_loop.py) and the *)
(* environment worker it drives (synthetic_environment.py).  The           *)
(* controller asks a provider for the next turn, hands the turn to the     *)
(* worker, runs the tools the turn asks for one by one, and stops at a     *)
(* failure, a cap, the end of the episode or the point where the study     *)
(* branches.  It then freezes the worker's state, has it graded and        *)
(* verified in two fresh workers and writes a candidate receipt, which is  *)
(* read back with everything it refers to.  The controller may be killed   *)
(* between any two steps; what it wrote stays.                             *)
(*                                                                         *)
(* The sealed program (the provider's answers, the tools' results and the  *)
(* clock reads) is not fixed in advance: an answer is chosen when it is    *)
(* used, so one behaviour stands for one program.  A comparison with the   *)
(* program that fails ends the run (Abandon).  Contents of messages are    *)
(* left out; call identifiers are numbers.  The epoch is 0.                *)
(***************************************************************************)
EXTENDS Naturals, Sequences, FiniteSets, PrefixReplay

CONSTANTS
    Authorities,   \* sealed caps: [caps, tools, wall, simulator]
    Bound          \* for each authority, bounds: rows of the transcript, tool
                   \* calls of a turn, tokens of a response, largest clock read

ASSUME AuthoritiesAssumption ==
    \A a \in Authorities : a.tools \in Nat /\ a.wall \in Nat /\ a.simulator \in BOOLEAN
ASSUME BoundsAssumption ==
    Bound \in [Authorities -> [rows : Nat, calls : Nat, tokens : Nat, time : Nat]]

VARIABLES
    auth,      \* the authority of the run
    rows,      \* length of the program's transcript
    pc,        \* where the controller stands
    worker,    \* the live worker's state
    used,      \* controller: calls, tokens, turns of each role; tools
    out,       \* controller: trigger, failure, branch queue, remainder
    queue,     \* tool calls of the present turn still to run
    pend,      \* the provider's answer not yet recorded
    attempts,  \* the provider ledger, in PrefixReplay's form
    bounds,    \* the tool boundary ledger
    trace,     \* the clock reads
    stored,    \* artifacts in the controller store
    invoked,   \* history: rows for which the provider was called
    receipt    \* the frozen receipt

vars == <<auth, rows, pc, worker, used, out, queue, pend, attempts, bounds,
          trace, stored, invoked, receipt>>

MaxRows == Bound[auth].rows
MaxCalls == Bound[auth].calls
MaxTokens == Bound[auth].tokens
MaxTime == Bound[auth].time

None == [kind |-> "none"]
Now == trace[Len(trace)].t
Deadline == auth.wall
Row == Len(attempts) + 1
Role == worker.role
Caps(role) == auth.caps[role]
Goto(label) == pc' = label
ReadClock(label, t) == t >= Now /\ trace' = Append(trace, [label |-> label, t |-> t])
Store(kinds, n) == stored' = stored \cup {<<k, n>> : k \in kinds}

NextCall == 1 + Len(FlattenSeq([i \in 1 .. Len(attempts) |-> attempts[i].calls]))

Init ==
    /\ auth \in Authorities
    /\ rows \in 0 .. MaxRows
    /\ pc = "closed"
    /\ worker = None /\ pend = None /\ receipt = None
    /\ used = [calls |-> [r \in Roles |-> 0], tokens |-> [r \in Roles |-> 0],
               turns |-> [r \in Roles |-> 0], tools |-> 0, mutated |-> FALSE]
    /\ out = [trigger |-> NoTrigger, failure |-> "none", branch |-> <<>>, remainder |-> <<>>]
    /\ queue = <<>> /\ attempts = <<>> /\ bounds = <<>>
    /\ trace = <<[label |-> "prefix_epoch", t |-> 0]>>
    /\ stored = {} /\ invoked = {}

-----------------------------------------------------------------------------
(* The worker.                                                             *)

\* start: the first actor comes from the task; an empty transcript is over.
Started(role) ==
    [kind |-> "worker", pending |-> <<>>, terminal |-> rows = 0, failure |-> "none",
     mutation |-> FALSE, eligible |-> FALSE, remainder |-> <<>>, role |-> role]

\* append_assistant_turn and append_simulator_turn.
Appended(calls, last, role) ==
    [worker EXCEPT !.pending = calls, !.terminal = @ \/ (last /\ calls = <<>>), !.role = role]

\* execute_tool: the head of the queue, with the result the program gives.
Executed(b) ==
    [worker EXCEPT !.pending = Tail(@), !.mutation = b.mutation, !.eligible = b.eligible,
                   !.terminal = b.terminal, !.failure = b.failure]

\* A faulty terminate, for mutation: the queue stays pending.
TerminatedPending(w, failure, rest) ==
    [w EXCEPT !.remainder = rest, !.terminal = TRUE, !.failure = failure]

\* terminate: the queue is given up, what was not run is remembered.
Terminated(w, failure, rest) ==
    [w EXCEPT !.pending = <<>>, !.remainder = rest, !.terminal = TRUE, !.failure = failure]

\* The controller's terminate: the worker, which stands at w, and its mirror.
Terminate(w, failure, rest) ==
    /\ worker' = Terminated(w, failure, rest)
    /\ out' = [out EXCEPT !.failure = failure, !.remainder = rest]
    /\ Goto("finish")

-----------------------------------------------------------------------------
(* The loop.                                                               *)

\* _open_prefix_loop: sources checked, two workers qualified against each
\* other, the initial restore recorded.
OpenLoop ==
    /\ pc = "closed"
    /\ \E role \in Roles : worker' = Started(role)
    /\ Store({"task", "env0", "visible", "tokens", "initial"}, 0)
    /\ Goto("head")
    /\ UNCHANGED <<auth, rows, used, out, queue, pend, attempts, bounds, trace,
                   invoked, receipt>>

\* The head of the loop sees the worker stopped.
StopAtHead ==
    /\ pc = "head" /\ (worker.failure # "none" \/ worker.terminal)
    /\ out' = [out EXCEPT !.failure = worker.failure]
    /\ Goto("finish")
    /\ UNCHANGED <<auth, rows, worker, used, queue, pend, attempts, bounds, trace,
                   stored, invoked, receipt>>

\* A live worker without a row left, or with an actor nobody sealed.
StuckAtHead ==
    /\ pc = "head" /\ worker.failure = "none" /\ ~worker.terminal
    /\ Len(attempts) >= rows \/ (Role = "user_simulator" /\ ~auth.simulator)
    /\ Goto("raised")
    /\ UNCHANGED <<auth, rows, worker, used, out, queue, pend, attempts, bounds, trace,
                   stored, invoked, receipt>>

\* _pre_provider_action_failure: wall, tokens, calls, turns, in this order.
PreDispatchFailure(now) ==
    CASE now >= Deadline -> "timeout"
      [] now < Deadline /\ used.tokens[Role] >= Caps(Role).tokens -> "token_cap"
      [] now < Deadline /\ used.tokens[Role] < Caps(Role).tokens
           /\ used.calls[Role] >= Caps(Role).calls -> "model_call_cap"
      [] OTHER -> IF used.turns[Role] >= Caps(Role).turns THEN "turn_cap" ELSE "none"

\* The head of the loop: what forbids the next call is decided before it.
HeadOfLoop ==
    /\ pc = "head" /\ worker.failure = "none" /\ ~worker.terminal
    /\ Len(attempts) < rows /\ (Role = "user_simulator" => auth.simulator)
    /\ \E t \in 0 .. MaxTime :
          /\ ReadClock(<<"before", Role, used.calls[Role]>>, t)
          /\ \/ PreDispatchFailure(t) # "none" /\ Terminate(worker, PreDispatchFailure(t), <<>>)
             \/ PreDispatchFailure(t) = "none" /\ Goto("dispatch") /\ UNCHANGED <<worker, out>>
    /\ UNCHANGED <<auth, rows, used, queue, pend, attempts, bounds, stored, invoked, receipt>>

\* Request, input tokens and intent are written before the call.
Dispatch ==
    /\ pc = "dispatch"
    /\ Store({"request", "input", "intent"}, Row)
    /\ used' = [used EXCEPT !.calls[Role] = @ + 1]
    /\ Goto("invoke")
    /\ UNCHANGED <<auth, rows, worker, out, queue, pend, attempts, bounds, trace,
                   invoked, receipt>>

\* _derive_provider_status: response, transport and parser; "refused" is a
\* combination the table does not list.
Status(response, transport, parser, late) ==
    LET parsed == parser # "not_applicable" IN
    CASE late /\ response /\ parsed /\ transport # "timeout_no_response" -> "timeout_late_response"
      [] late /\ ~response /\ ~parsed /\ transport # "response" -> "timeout_no_response"
      [] ~late /\ response = parsed /\ transport \in {"provider_error", "infrastructure_error"}
           -> transport
      [] ~late /\ response /\ parser = "turn" /\ transport = "response" -> "completed"
      [] ~late /\ response /\ parser = "refusal" /\ transport = "response" -> "refusal"
      [] ~late /\ response /\ parser = "malformed" /\ transport = "response" -> "malformed_response"
      [] OTHER -> "refused"

Transports == {"response", "provider_error", "infrastructure_error", "timeout_no_response"}
Parsers == {"turn", "refusal", "malformed", "not_applicable"}
NewCalls(n) == [i \in 1 .. n |-> NextCall + i - 1]

\* The provider's answer to the call of this row, as it was validated.
Answered(status, response, turn, n, tokens, last) ==
    [kind |-> "answer", role |-> Role, status |-> status, turn |-> turn, calls |-> NewCalls(n),
     tokens |-> tokens, last |-> last, response |-> response]

\* The provider is called; its answer is validated against the controller's
\* own clock, tokens and parser before anything is done with it.
Invoke ==
    /\ pc = "invoke"
    /\ invoked' = invoked \cup {Row}
    /\ \E t \in 0 .. MaxTime, response \in BOOLEAN, transport \in Transports, parser \in Parsers :
          LET status == Status(response, transport, parser, t > Deadline)
              turn == parser \in {"turn", "refusal"}
          IN /\ ReadClock(<<"after", Role, used.calls[Role] - 1>>, t)
             /\ status # "refused"
             /\ \E tokens \in IF response THEN 1 .. MaxTokens ELSE {0},
                   n \in IF turn /\ Role = "primary_subject" THEN 0 .. MaxCalls ELSE {0},
                   last \in IF parser = "turn" THEN BOOLEAN ELSE {FALSE} :
                  pend' = Answered(status, response, turn, n, tokens, last)
    /\ Goto("record")
    /\ UNCHANGED <<auth, rows, worker, used, out, queue, attempts, bounds, stored, receipt>>

\* _failure_for_status, the controller's own table.
StatusFailure(status) ==
    [completed |-> "none", timeout_no_response |-> "timeout", timeout_late_response |-> "timeout",
     refusal |-> "refusal", malformed_response |-> "malformed_action",
     provider_error |-> "model", infrastructure_error |-> "infrastructure"][status]

Attempt == [role |-> pend.role, status |-> pend.status, turn |-> pend.turn,
            calls |-> pend.calls, tokens |-> pend.tokens, last |-> pend.last,
            response |-> pend.response]

\* A faulty check, for mutation: only the aggregate is compared.
OverspentTotal == used.tokens[Role] + pend.tokens > Caps(Role).tokens

\* Both the aggregate and the single call are capped; equality is allowed.
Overspent ==
    \/ used.tokens[Role] + pend.tokens > Caps(Role).tokens
    \/ pend.tokens > Caps(Role).percall

\* The evidence of the call is written and counted; then a failure, a late or
\* an overspent answer ends the prefix, and a turn goes to the worker.
Record ==
    /\ pc = "record"
    /\ Store({"event", "attempt", "settlement"}
             \cup (IF pend.response THEN {"response", "output"} ELSE {}), Row)
    /\ attempts' = Append(attempts, Attempt)
    /\ used' = [used EXCEPT !.tokens[Role] = @ + pend.tokens,
                            !.turns[Role] = IF pend.turn THEN @ + 1 ELSE @]
    /\ pend' = None
    /\ \/ /\ StatusFailure(pend.status) # "none"
          /\ Terminate(worker, StatusFailure(pend.status), pend.calls) /\ UNCHANGED queue
       \/ /\ StatusFailure(pend.status) = "none" /\ Now > Deadline
          /\ Terminate(worker, "timeout", pend.calls) /\ UNCHANGED queue
       \/ /\ StatusFailure(pend.status) = "none" /\ Now <= Deadline /\ Overspent
          /\ Terminate(worker, "token_cap", pend.calls) /\ UNCHANGED queue
       \/ /\ StatusFailure(pend.status) = "none" /\ Now <= Deadline /\ ~Overspent
          /\ \E role \in Roles : worker' = Appended(pend.calls, pend.last, role)
          /\ queue' = pend.calls
          /\ Goto(IF pend.calls = <<>> THEN "head" ELSE "tool")
          /\ UNCHANGED out
    /\ UNCHANGED <<auth, rows, bounds, trace, invoked, receipt>>

\* What stops a queued tool: the deadline, the tokens, the tool cap.
BeforeToolFailure(t) ==
    CASE t >= Deadline -> "timeout"
      [] t < Deadline /\ used.tokens["primary_subject"] > Caps("primary_subject").tokens
           -> "token_cap"
      [] OTHER -> IF used.tools >= auth.tools THEN "tool_cap" ELSE "none"

\* A faulty end, for mutation: the call the cap stopped is forgotten.
BeforeToolForgets ==
    /\ pc = "tool"
    /\ \E t \in 0 .. MaxTime :
          LET early == BeforeToolFailure(t)
          IN /\ ReadClock(<<"before_tool", Head(queue)>>, t)
             /\ \/ early # "none" /\ Terminate(worker, early, Tail(queue))
                \/ early = "none" /\ Goto("run") /\ UNCHANGED <<worker, out>>
    /\ UNCHANGED <<auth, rows, used, queue, pend, attempts, bounds, stored, invoked, receipt>>

\* Before a tool: a failure gives up this call and the ones behind it.
BeforeTool ==
    /\ pc = "tool"
    /\ \E t \in 0 .. MaxTime :
          LET early == BeforeToolFailure(t)
          IN /\ ReadClock(<<"before_tool", Head(queue)>>, t)
             /\ \/ early # "none" /\ Terminate(worker, early, queue)
                \/ early = "none" /\ Goto("run") /\ UNCHANGED <<worker, out>>
    /\ UNCHANGED <<auth, rows, used, queue, pend, attempts, bounds, stored, invoked, receipt>>

\* What stops the prefix after a tool that did not end the episode.
AfterToolFailure(t) ==
    CASE t > Deadline -> "timeout"
      [] OTHER -> IF used.tokens["primary_subject"] > Caps("primary_subject").tokens
                  THEN "token_cap" ELSE "none"

\* The tool runs; the call counts, its boundary is written down, and the
\* worker's flags decide: failure, end, deadline, trigger, or the next call.
RunTool ==
    /\ pc = "run"
    /\ \E t \in 0 .. MaxTime, mutation, eligible, terminal \in BOOLEAN,
          failure \in {"none", "infrastructure"} :
          LET call == Head(queue)
              rest == Tail(queue)
              b == [call |-> call, mutation |-> mutation, eligible |-> eligible,
                    terminal |-> terminal, failure |-> failure, at |-> t]
              done == used.tools + 1
              mutated == used.mutated \/ mutation
              opens == mutated /\ eligible
          IN /\ failure # "none" => terminal
             /\ ReadClock(<<"after_tool", call>>, t)
             /\ bounds' = Append(bounds, b)
             /\ used' = [used EXCEPT !.tools = done, !.mutated = mutated]
             /\ Store({"tool_call", "tool_result"}, call)
             /\ queue' = rest
             /\ \/ /\ failure # "none"
                   /\ Terminate(Executed(b), failure, rest)
                \/ /\ failure = "none" /\ terminal
                   /\ worker' = Executed(b)
                   /\ Goto(IF rest = <<>> THEN "finish" ELSE "raised")
                   /\ UNCHANGED out
                \/ /\ ~terminal /\ AfterToolFailure(t) # "none"
                   /\ Terminate(Executed(b), AfterToolFailure(t), rest)
                \/ /\ ~terminal /\ AfterToolFailure(t) = "none" /\ (opens \/ done = 4)
                   /\ worker' = Executed(b)
                   /\ out' = [out EXCEPT !.branch = rest,
                                !.trigger = IF opens THEN "first_eligible_mutation"
                                                     ELSE "fourth_tool_call"]
                   /\ Goto("finish")
                \/ /\ ~terminal /\ AfterToolFailure(t) = "none" /\ ~opens /\ done # 4
                   /\ worker' = Executed(b)
                   /\ Goto(IF rest = <<>> THEN "head" ELSE "tool")
                   /\ UNCHANGED out
    /\ UNCHANGED <<auth, rows, pend, attempts, invoked, receipt>>

\* The end of _run_prefix_loop: the program is used up and the worker agrees
\* with the controller's mirror; then the three ledgers are written.
Finish ==
    /\ pc = "finish"
    /\ \/ /\ \/ Len(attempts) # rows
             \/ (out.trigger = NoTrigger) # worker.terminal
             \/ worker.failure # out.failure
             \/ worker.remainder # out.remainder
             \/ worker.pending # out.branch
          /\ Goto("raised") /\ UNCHANGED stored
       \/ /\ Len(attempts) = rows
          /\ (out.trigger = NoTrigger) = worker.terminal
          /\ worker.failure = out.failure
          /\ worker.remainder = out.remainder
          /\ worker.pending = out.branch
          /\ Store({"attempts", "boundaries", "cost"}, 0)
          /\ Goto("opened")
    /\ UNCHANGED <<auth, rows, worker, used, out, queue, pend, attempts, bounds, trace,
                   invoked, receipt>>

-----------------------------------------------------------------------------
(* The candidate.                                                          *)

\* CompositeSnapshotEnvelope: an authorised simulator must have been used,
\* and the outcomes that exclude each other do.
EnvelopeAccepted ==
    /\ auth.simulator = (used.calls["user_simulator"] > 0 \/ used.tokens["user_simulator"] > 0)
    /\ worker.terminal => worker.pending = <<>>
    /\ out.failure # "none" => worker.terminal
    /\ out.remainder # <<>> => worker.terminal /\ out.failure # "none"

\* The worker's state and the attestations are written, then the snapshot.
Freeze ==
    /\ pc = "opened"
    /\ LET parts == {"env", "visible1", "tokens1", "subject_att", "runtime", "container"}
                    \cup (IF auth.simulator THEN {"simulator_att"} ELSE {})
       IN \/ EnvelopeAccepted /\ Store(parts \cup {"snapshot"}, 0) /\ Goto("grade")
          \/ ~EnvelopeAccepted /\ Store(parts, 0) /\ Goto("raised")
    /\ UNCHANGED <<auth, rows, worker, used, out, queue, pend, attempts, bounds, trace,
                   invoked, receipt>>

\* A fresh worker restores the snapshot, grades it and is found unchanged.
Grade ==
    /\ pc = "grade"
    /\ Store({"grade_restore", "grade_evidence", "grade_receipt"}, 0)
    /\ Goto("verify")
    /\ UNCHANGED <<auth, rows, worker, used, out, queue, pend, attempts, bounds, trace,
                   invoked, receipt>>

\* Another one verifies it; the features the assignment needs are written.
VerifySnapshot ==
    /\ pc = "verify"
    /\ Store({"verifier_restore", "verifier_evidence", "verifier_receipt",
              "source", "report", "feature"}, 0)
    /\ Goto("seal")
    /\ UNCHANGED <<auth, rows, worker, used, out, queue, pend, attempts, bounds, trace,
                   invoked, receipt>>

\* _scientific_y0_grade: a prefix that failed before its branch counts zero.
Y0(success) == IF out.trigger = NoTrigger /\ out.failure # "none" THEN 0 ELSE success

Seal ==
    /\ pc = "seal"
    /\ \E success \in 0 .. 1 :
          receipt' = [kind |-> "receipt", trigger |-> out.trigger, failure |-> out.failure,
                      branch |-> out.branch, remainder |-> out.remainder,
                      terminal |-> worker.terminal, calls |-> used.calls,
                      tokens |-> used.tokens, tools |-> used.tools, elapsed |-> Now,
                      edge |-> worker.mutation, cumulative |-> used.mutated,
                      success |-> Y0(success)]
    /\ Store({"candidate"}, 0)
    /\ Goto("reload")
    /\ UNCHANGED <<auth, rows, worker, used, out, queue, pend, attempts, bounds, trace, invoked>>

\* The attempt ledger names the evidence of every attempt, and the response
\* and its tokens where there was one.
AttemptRefs ==
    ({"intent", "attempt", "request", "input", "event"} \X (1 .. Len(attempts)))
    \cup ({"response", "output"} \X {i \in 1 .. Len(attempts) : attempts[i].response})

\* _controller_nested_refs: what a stored artifact refers to.
RefersTo(x) ==
    LET whole(kinds) == kinds \X {0}
        each(kinds, S) == kinds \X S
    IN CASE x = <<"candidate", 0>> ->
              whole({"snapshot", "visible1", "tokens1", "grade_receipt", "grade_evidence",
                     "verifier_receipt", "verifier_evidence", "feature", "attempts",
                     "boundaries", "cost"})
         [] x = <<"feature", 0>> -> whole({"source", "report"})
         [] x = <<"grade_receipt", 0>> -> whole({"grade_restore", "grade_evidence"})
         [] x = <<"verifier_receipt", 0>> -> whole({"verifier_restore", "verifier_evidence"})
         [] x \in whole({"grade_restore", "verifier_restore"}) ->
              whole({"task", "snapshot", "env", "visible1", "tokens1"})
         [] x = <<"snapshot", 0>> ->
              whole({"task", "initial", "env", "visible1", "tokens1", "boundaries", "attempts",
                     "subject_att", "runtime", "container"}
                    \cup (IF auth.simulator THEN {"simulator_att"} ELSE {}))
         [] x = <<"initial", 0>> -> whole({"task", "env0", "visible", "tokens"})
         [] x = <<"attempts", 0>> -> AttemptRefs
         [] x = <<"boundaries", 0>> ->
              each({"tool_call", "tool_result"}, {bounds[i].call : i \in 1 .. Len(bounds)})
         [] x = <<"cost", 0>> -> each({"attempt", "settlement"}, 1 .. Len(attempts))
         [] OTHER -> {}
Follow(S) == S \cup UNION {RefersTo(x) : x \in S}
Reachable == Follow(Follow(Follow(Follow({<<"candidate", 0>>}))))

\* _fresh_reload_candidate_graph: everything the candidate refers to is
\* there, and everything this run wrote is referred to.
Reload ==
    /\ pc = "reload"
    /\ Goto(IF Reachable = stored THEN "frozen" ELSE "raised")
    /\ UNCHANGED <<auth, rows, worker, used, out, queue, pend, attempts, bounds, trace,
                   stored, invoked, receipt>>

-----------------------------------------------------------------------------
Stopped == pc \in {"raised", "frozen"}

\* A comparison with the sealed program, a restore or a write fails, the
\* provider's answer is not one the status table lists, or the controller is
\* killed between two steps: nothing more is written.
Abandon ==
    /\ ~Stopped /\ Goto("raised")
    /\ UNCHANGED <<auth, rows, worker, used, out, queue, pend, attempts, bounds, trace,
                   stored, invoked, receipt>>

Next ==
    \/ OpenLoop \/ StopAtHead \/ StuckAtHead \/ HeadOfLoop \/ Dispatch \/ Invoke \/ Record
    \/ BeforeTool \/ RunTool \/ Finish \/ Freeze \/ Grade \/ VerifySnapshot \/ Seal \/ Reload
    \/ Abandon

Spec == Init /\ [][Next]_vars

-----------------------------------------------------------------------------
Requested == FlattenSeq([i \in 1 .. Len(attempts) |-> attempts[i].calls])
Ran == [i \in 1 .. Len(bounds) |-> bounds[i].call]

\* Counters, ledgers and the worker have the shapes the code gives them.
TypeOK ==
    /\ auth \in Authorities /\ rows \in 0 .. MaxRows
    /\ pc \in {"closed", "head", "dispatch", "invoke", "record", "tool", "run", "finish",
               "opened", "grade", "verify", "seal", "reload", "raised", "frozen"}
    /\ worker = None \/ worker.role \in Roles
    /\ \A r \in Roles : used.calls[r] \in 0 .. rows /\ used.turns[r] \in 0 .. rows
    /\ Len(attempts) <= rows /\ used.tools = Len(bounds)
    /\ out.trigger \in {NoTrigger, "first_eligible_mutation", "fourth_tool_call"}
    /\ pc = "record" => pend # None
    /\ pend # None => Row \in invoked

\* Whatever happens, a provider that was called (and may have billed the
\* call) left its dispatch intent in the store first.
DispatchIsRecorded == \A i \in invoked : <<"intent", i>> \in stored

\* Every tool call a provider asked for is accounted for exactly once and in
\* order: it ran, or waits for the branch, or was given up with the prefix.
CallsAccounted ==
    pc \in {"opened", "grade", "verify", "seal", "reload", "frozen"} =>
        Requested = Ran \o out.branch \o out.remainder

\* The controller keeps its own copy of the worker's outcome.  When the loop
\* ends, on any of its paths, the two agree: the three comparisons that
\* follow the loop never refuse a run.
MirrorAgrees ==
    pc = "finish" => /\ worker.failure = out.failure
                     /\ worker.remainder = out.remainder
                     /\ worker.pending = out.branch
                     /\ worker.terminal = (out.trigger = NoTrigger)

\* A turn that ends the episode and still asks for tools.
EndsWithCalls == \E i \in 1 .. Len(attempts) : attempts[i].last /\ attempts[i].calls # <<>>

\* The index, which derives the outcome once more from the ledgers alone, and
\* walks the program as if nobody had run it, accepts every prefix the
\* controller froze (but for a turn that ends the episode and asks for tools:
\* the controller runs them, the index does not).
ReplayAccepts ==
    receipt # None /\ ~EndsWithCalls =>
        /\ IndexAccepts(receipt, auth, attempts, bounds, trace)
        /\ OccurrenceReplay(auth, attempts, bounds, trace)

\* Reading the candidate back finds all that was written and nothing else.
ReloadAccepts == pc = "reload" => Reachable = stored

\* What a provider was paid for and asked for is on record: no dispatch without
\* its intent, every requested tool call in one place, and the two copies of
\* the outcome equal.
Accounted == DispatchIsRecorded /\ CallsAccounted /\ MirrorAgrees

\* A prefix the loop seals is accepted by the index's replay and by the fresh
\* reload of its candidate.
SealedIsAccepted == ReplayAccepts /\ ReloadAccepts
=============================================================================
