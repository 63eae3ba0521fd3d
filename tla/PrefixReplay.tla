---------------------------- MODULE PrefixReplay ----------------------------
(***************************************************************************)
(* How the prefix index judges a prefix it did not run                     *)
(* (resampling_null/prefix_index.py and evidence.py): it walks the         *)
(* recorded provider attempts, tool boundaries and clock reads once more   *)
(* and derives the outcome by itself.  Pure operators, no state.           *)
(*                                                                         *)
(* An attempt is [role, status, turn, calls, tokens, last]: turn says      *)
(* whether the response parsed, calls are the tool calls it asks for, last *)
(* that its finish reason is "terminal".  A boundary is one executed tool: *)
(* [call, mutation, eligible, terminal, failure, at].  A clock read is     *)
(* [label, t].  An authority auth gives caps[role] = [tokens, calls,       *)
(* turns, percall] (the smaller of the lane's and the contract's),         *)
(* tools, wall and simulator.                                              *)
(***************************************************************************)
EXTENDS Naturals, Sequences, SequencesExt, TLC

NoTrigger == "no_intervention_opportunity"
Roles == {"primary_subject", "user_simulator"}

\* ProviderAttemptStatus and the failure each one stands for.
FailureOf(status) ==
    CASE status = "completed" -> "none"
      [] status \in {"timeout_no_response", "timeout_late_response"} -> "timeout"
      [] status = "refusal" -> "refusal"
      [] status = "malformed_response" -> "malformed_action"
      [] status = "provider_error" -> "model"
      [] status = "infrastructure_error" -> "infrastructure"

\* _pretool_failure: the deadline before the cap, both inclusive.
PretoolFailure(before, deadline, done, cap) ==
    CASE before >= deadline -> "timeout"
      [] before < deadline /\ done >= cap -> "tool_cap"
      [] OTHER -> "none"

Outcome(terminal, failure, trigger, remainder, branch) ==
    [stopped |-> TRUE, terminal |-> terminal, failure |-> failure,
     trigger |-> trigger, remainder |-> remainder, branch |-> branch]

\* _completed_tool_transition: what a completed tool call leads to; rest is
\* the queue behind it.  A clean end with a queue behind it is refused before.
ToolTransition(b, deadline, overshoot, mutated, done, rest) ==
    CASE b.failure # "none" -> Outcome(TRUE, b.failure, NoTrigger, rest, <<>>)
      [] b.failure = "none" /\ b.terminal -> Outcome(TRUE, "none", NoTrigger, <<>>, <<>>)
      [] ~b.terminal /\ b.at > deadline -> Outcome(TRUE, "timeout", NoTrigger, rest, <<>>)
      [] ~b.terminal /\ b.at <= deadline /\ overshoot ->
            Outcome(TRUE, "token_cap", NoTrigger, rest, <<>>)
      [] OTHER ->
            IF mutated /\ b.eligible
              THEN Outcome(FALSE, "none", "first_eligible_mutation", <<>>, rest)
            ELSE IF done = 4
              THEN Outcome(FALSE, "none", "fourth_tool_call", <<>>, rest)
            ELSE [Outcome(FALSE, "none", NoTrigger, <<>>, <<>>) EXCEPT !.stopped = FALSE]

-----------------------------------------------------------------------------
(* The walk.  Its state has the clock reads consumed, the calls, tokens,   *)
(* turns of each role, the tools done, what was mutated and the outcome;   *)
(* ok is FALSE from the first check that raises.                           *)

ReplayInit(empty) ==
    Outcome(empty, "none", NoTrigger, <<>>, <<>>) @@
    [clock |-> 1, tools |-> 0, mutated |-> FALSE, ok |-> TRUE, row |-> 0,
     calls |-> [r \in Roles |-> 0], tokens |-> [r \in Roles |-> 0],
     turns |-> [r \in Roles |-> 0]]

\* _ClockTraceReplay.consume: the next read has the label and is not earlier.
Consumes(trace, i, label) ==
    i + 1 <= Len(trace) /\ trace[i + 1].label = label /\ trace[i + 1].t >= trace[i].t

Exhausted(s, auth, role, before, deadline) ==
    \/ before >= deadline
    \/ s.tokens[role] >= auth.caps[role].tokens
    \/ s.calls[role] >= auth.caps[role].calls
    \/ s.turns[role] >= auth.caps[role].turns

\* One queued tool call of a row.
ReplayTool(s, auth, trace, bounds, deadline, queue, i) ==
    LET call == queue[i]
        rest == SubSeq(queue, i + 1, Len(queue))
        before == trace[s.clock + 1].t
        early == PretoolFailure(before, deadline, s.tools, auth.tools)
        b == bounds[s.tools + 1]
        over == s.tokens["primary_subject"] > auth.caps["primary_subject"].tokens
        mutated == s.mutated \/ b.mutation
        out == ToolTransition(b, deadline, over, mutated, s.tools + 1, rest)
    IN IF s.stopped \/ ~s.ok THEN s
       ELSE IF ~Consumes(trace, s.clock, <<"before_tool", call>>) THEN [s EXCEPT !.ok = FALSE]
       ELSE IF early # "none"
         THEN Outcome(TRUE, early, NoTrigger, SubSeq(queue, i, Len(queue)), <<>>) @@
              [s EXCEPT !.clock = @ + 1]
       ELSE IF \/ s.tools + 1 > Len(bounds)
               \/ ~Consumes(trace, s.clock + 1, <<"after_tool", call>>)
         THEN [s EXCEPT !.ok = FALSE]
       ELSE out @@ [s EXCEPT !.clock = @ + 2, !.tools = @ + 1, !.mutated = mutated,
                             !.ok = /\ b.call = call /\ b.at = trace[s.clock + 2].t
                                    /\ b.terminal /\ b.failure = "none" => rest = <<>>]

\* One provider row: the allowance before it, its status, then its tools.
ReplayRow(s, a, auth, trace, bounds) ==
    LET deadline == trace[1].t + auth.wall
        caps == auth.caps[a.role]
        before == trace[s.clock + 1].t
        completion == trace[s.clock + 2].t
        t == [s EXCEPT !.clock = @ + 2, !.row = @ + 1, !.calls[a.role] = @ + 1,
                       !.tokens[a.role] = @ + a.tokens,
                       !.turns[a.role] = IF a.turn THEN @ + 1 ELSE @]
        failure == IF FailureOf(a.status) # "none" THEN FailureOf(a.status)
                   ELSE IF completion > deadline THEN "timeout"
                   ELSE IF a.tokens > caps.percall \/ t.tokens[a.role] > caps.tokens
                     THEN "token_cap" ELSE "none"
    IN IF ~s.ok THEN s
       ELSE IF \/ s.stopped
               \/ ~Consumes(trace, s.clock, <<"before", a.role, s.calls[a.role]>>)
               \/ ~Consumes(trace, s.clock + 1, <<"after", a.role, s.calls[a.role]>>)
               \/ Exhausted(s, auth, a.role, before, deadline)
               \/ a.role = "user_simulator" /\ ~auth.simulator
         THEN [s EXCEPT !.ok = FALSE]
       ELSE IF failure # "none"
         THEN Outcome(TRUE, failure, NoTrigger, a.calls, <<>>) @@ t
       ELSE IF a.last
         THEN Outcome(TRUE, "none", NoTrigger, <<>>, <<>>) @@ [t EXCEPT !.ok = a.calls = <<>>]
       ELSE IF a.role = "user_simulator" THEN t
       ELSE FoldLeft(LAMBDA u, i : ReplayTool(u, auth, trace, bounds, deadline, a.calls, i),
                     t, [i \in 1 .. Len(a.calls) |-> i])

\* _assert_exact_execution_replay: the walk ends, and what is recorded is used up.
Replay(auth, attempts, bounds, trace) ==
    LET s == FoldLeft(LAMBDA u, a : ReplayRow(u, a, auth, trace, bounds),
                      [ReplayInit(attempts = <<>>) EXCEPT !.stopped = FALSE], attempts)
    IN [s EXCEPT !.ok = @ /\ s.clock = Len(trace) /\ s.tools = Len(bounds)]

\* _assert_program_occurrence_replay: a program of the manifest that nobody
\* ran must reach an end of its own.
OccurrenceReplay(auth, attempts, bounds, trace) ==
    LET s == Replay(auth, attempts, bounds, trace)
    IN s.ok /\ (attempts = <<>> \/ s.stopped)

-----------------------------------------------------------------------------
(* The receipt r of a prefix against the walk.                             *)

SumTokens(attempts, role) ==
    FoldLeft(LAMBDA n, a : IF a.role = role THEN n + a.tokens ELSE n, 0, attempts)
CountRole(attempts, role) == Len(SelectSeq(attempts, LAMBDA a : a.role = role))
CountTurns(attempts, role) == Len(SelectSeq(attempts, LAMBDA a : a.role = role /\ a.turn))

\* _assert_execution_semantics: the counters are those of the evidence.
CountersAgree(r, attempts, bounds, trace) ==
    /\ \A role \in Roles : /\ r.calls[role] = CountRole(attempts, role)
                           /\ r.tokens[role] = SumTokens(attempts, role)
    /\ r.tools = Len(bounds)
    /\ r.elapsed = trace[Len(trace)].t - trace[1].t

\* _assert_mutation_semantics: the last edge and the whole history.
MutationAgrees(r, bounds) ==
    /\ r.edge = (bounds # <<>> /\ bounds[Len(bounds)].mutation)
    /\ r.cumulative = \E i \in 1 .. Len(bounds) : bounds[i].mutation

\* FrozenPrefixReceipt: which outcomes exclude each other.
ReceiptConsistent(r) ==
    /\ r.branch = <<>> \/ r.remainder = <<>>
    /\ r.trigger # NoTrigger => r.failure = "none"
    /\ r.trigger = NoTrigger => r.branch = <<>>
    /\ r.remainder # <<>> => r.trigger = NoTrigger /\ r.failure # "none"
    /\ r.trigger = NoTrigger /\ r.failure # "none" => r.success = 0

\* validate_snapshot_bytes: the caps that no prefix may exceed.
CapsKept(r, auth, attempts) ==
    /\ r.terminal = (r.trigger = NoTrigger)
    /\ \A role \in Roles : r.calls[role] <= auth.caps[role].calls
    /\ r.tools <= auth.tools
    /\ CountTurns(attempts, "user_simulator") <= auth.caps["user_simulator"].turns

\* _validate_candidate.
IndexAccepts(r, auth, attempts, bounds, trace) ==
    LET s == Replay(auth, attempts, bounds, trace)
    IN /\ s.ok
       /\ r.trigger = s.trigger /\ r.failure = s.failure
       /\ r.branch = s.branch /\ r.remainder = s.remainder
       /\ r.terminal = s.terminal
       /\ CountersAgree(r, attempts, bounds, trace)
       /\ MutationAgrees(r, bounds)
       /\ ReceiptConsistent(r)
       /\ CapsKept(r, auth, attempts)
=============================================================================
