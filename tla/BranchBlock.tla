----------------------------- MODULE BranchBlock -----------------------------
(***************************************************************************)
(* The branch stage (resampling_null/branch_controller.py, branch_records  *)
(* .py, synthetic_branch_loop.py, packet_capabilities.py and the stage of  *)
(* cli.py).  Every task is admitted before anything runs.  A task that was *)
(* never triggered closes by copying its frozen result to all its slots.   *)
(* A triggered task has one work order per slot; each order is executed by *)
(* an isolated worker that is shown its packet, if its slot has one, on    *)
(* its first call only, and stops at the frozen caps.  The receipts of the *)
(* slots are sealed as an attempt before any of them is graded.  An        *)
(* attempt cut short by an outage allows one rerun of the same orders; if  *)
(* the rerun is cut short too, every slot closes as an adverse zero.       *)
(***************************************************************************)
EXTENDS Naturals, Sequences, FiniteSets

CONSTANTS
    NTasks,     \* the tasks of the schedule, in its order
    Slots,      \* the slots of a block (the code has four)
    Arms,       \* as many arms as slots
    Guided,     \* the arms with a packet (REAL and SHAM)
    ModelCap,   \* branch_caps.model_calls
    TokenCap,   \* branch_caps.generated_tokens
    ToolCap,    \* branch_caps.tool_calls
    Pendings,   \* bound: how many calls a frozen prefix may leave pending
    MaxRuns     \* bound: slot executions begun

ASSUME ArmsAssumption ==
    /\ IsFiniteSet(Slots) /\ IsFiniteSet(Arms) /\ Cardinality(Arms) = Cardinality(Slots)
    /\ Guided \subseteq Arms /\ Guided # {}
ASSUME CapsAssumption ==
    /\ NTasks \in Nat \ {0}
    /\ {ModelCap, TokenCap, ToolCap} \subseteq Nat \ {0}
    /\ Pendings \subseteq Nat /\ MaxRuns \in Nat

VARIABLES
    facts,     \* what the sealed records say of each task
    stage,     \* admit, run or failed
    admitted,  \* tasks whose authority was resolved
    act,       \* the slot execution under way, or Idle
    begun,     \* slot executions begun
    tried,     \* slots executed since the last attempt was sealed
    receipts,  \* terminal receipts the workers returned
    attempts,  \* sealed attempts
    outages,   \* outage receipts
    reruns,    \* attempts for which a rerun was authorised
    graded,    \* execution receipts of graded or failed slots
    copied,    \* tasks closed without a branch
    built,     \* task blocks that were constructed
    published, \* task blocks that were written
    refused    \* task blocks that were constructed and not written

vars == <<facts, stage, admitted, act, begun, tried, receipts, attempts, outages, reruns,
          graded, copied, built, published, refused>>
ctl == <<facts, stage, admitted>>
closing == <<attempts, outages, reruns, graded, copied, built, published, refused>>

Tasks == 1 .. NTasks
Idle == [step |-> "idle"]
Failures == {"none", "model", "token_cap", "tool_cap", "timeout"}

Facts == [triggered : BOOLEAN,   \* the frozen prefix's trigger
          packet : BOOLEAN,      \* the sealed packet index has a pair for the task
          ordered : BOOLEAN,     \* slots and grants are in the same order
          programs : BOOLEAN,    \* a registered program for every slot
          pending : Pendings,
          arm : {f \in [Slots -> Arms] : \A s, r \in Slots : f[s] = f[r] => s = r}]

Init ==
    /\ facts \in [Tasks -> Facts] /\ stage = "admit" /\ admitted = {}
    /\ act = Idle /\ begun = 0 /\ tried = {} /\ receipts = {} /\ attempts = {} /\ outages = {}
    /\ reruns = {} /\ graded = {} /\ copied = {} /\ built = {} /\ published = {} /\ refused = {}

-----------------------------------------------------------------------------
(* Admission, a barrier for the whole run.                                 *)

\* _resolve, TaskPacketCapabilities: the slots of the guided arms have
\* guidance, when the task has a packet pair at all.
Granted(t) == {s \in Slots : facts[t].packet /\ facts[t].arm[s] \in Guided}

\* prepare_no_intervention_slots
PreparesUntriggered(t) == ~facts[t].triggered /\ ~facts[t].packet /\ facts[t].ordered

\* prepare_opaque_work_orders
PreparesTriggered(t) == facts[t].triggered /\ facts[t].packet /\ facts[t].ordered

\* reconcile_branch_program_refs, resolve_branch_program_refs
ProgramsResolve(t) == facts[t].programs

Admissible(t) == PreparesUntriggered(t) \/ (PreparesTriggered(t) /\ ProgramsResolve(t))

\* One task of the loop that admits; one that is refused ends the command.
Admit(t) ==
    /\ stage = "admit" /\ t \notin admitted
    /\ IF Admissible(t)
       THEN /\ admitted' = admitted \cup {t}
            /\ stage' = IF admitted' = Tasks THEN "run" ELSE "admit"
       ELSE stage' = "failed" /\ UNCHANGED admitted
    /\ UNCHANGED <<facts, act, begun, tried, receipts, closing>>

\* The tasks are taken in the order of the schedule.
Closed(t) == t \in copied \/ \E b \in built : b.task = t
Turn(t) == stage = "run" /\ act = Idle /\ t \in admitted /\ \A u \in 1 .. t - 1 : Closed(u)

\* A task that was not triggered: its frozen result in every slot.
CopyY0(t) ==
    /\ Turn(t) /\ t \notin copied /\ PreparesUntriggered(t)
    /\ copied' = copied \cup {t}
    /\ UNCHANGED <<ctl, act, begun, tried, receipts, attempts, outages, reruns, graded, built,
                   published, refused>>

-----------------------------------------------------------------------------
(* run_opaque_slot: one execution of one work order.                       *)

Attempts(t) == {a \in attempts : a.task = t}

\* Slots are executed for the first attempt until it is sealed, and again
\* when a rerun of it was authorised.
Executes(t) ==
    Attempts(t) = {} \/ (Cardinality(Attempts(t)) = 1 /\ Attempts(t) \subseteq reruns)

\* The capability, the spawned worker and the restored snapshot.
StartSlot(t, s) ==
    /\ Turn(t) /\ begun < MaxRuns /\ facts[t].triggered /\ Executes(t)
    /\ s \notin tried
    /\ begun' = begun + 1 /\ tried' = tried \cup {s}
    /\ act' = [step |-> "drain", task |-> t, slot |-> s, run |-> begun + 1,
               calls |-> 0, tokens |-> 0, tools |-> 0, todo |-> facts[t].pending,
               shown |-> {}, over |-> FALSE, failure |-> "none"]
    /\ UNCHANGED <<ctl, receipts, closing>>

\* A restore, an exchange or an end of the worker may fail at any step, and
\* whatever the transcript does not foresee is refused: the slot has no receipt.
SlotRaises ==
    /\ act # Idle /\ act' = Idle
    /\ UNCHANGED <<ctl, begun, tried, receipts, closing>>

\* The worker runs one tool: the observation says whether the episode is over.
ToolRun(from) ==
    \E over \in BOOLEAN, failure \in {"none", "model"} :
        act' = [from EXCEPT !.todo = @ - 1, !.tools = @ + 1,
                            !.over = over, !.failure = failure]

\* The calls the frozen prefix left pending come first, under the tool cap.
DrainPending ==
    /\ act.step = "drain" /\ act.todo > 0
    /\ IF act.tools >= ToolCap THEN act' = Idle ELSE ToolRun(act)
    /\ UNCHANGED <<ctl, begun, tried, receipts, closing>>

Drained ==
    /\ act.step = "drain" /\ act.todo = 0
    /\ act' = [act EXCEPT !.step = "head"]
    /\ UNCHANGED <<ctl, begun, tried, receipts, closing>>

\* handle.terminate: the calls that did not run are the remainder.
Stopped(failure) == [act EXCEPT !.step = "end", !.todo = 0, !.over = TRUE, !.failure = failure]

\* Another call is allowed.
WithinCaps == act.tokens < TokenCap /\ act.calls < ModelCap

\* The head of the loop.
StopAtHead ==
    /\ act.step = "head"
    /\ \/ act.over /\ act' = [act EXCEPT !.step = "end"]
       \/ ~act.over /\ act' = Stopped("timeout")
       \/ ~act.over /\ ~WithinCaps /\ act' = Stopped("token_cap")
    /\ UNCHANGED <<ctl, begun, tried, receipts, closing>>

\* render_branch_request: the packet is a field of its own, on the first call.
PacketShown == act.slot \in Granted(act.task) /\ act.calls = 0

\* One call of the subject and its turn: tokens and tools, or the end.
Call ==
    /\ act.step = "head" /\ ~act.over /\ WithinCaps
    /\ \E tools \in 0 .. ToolCap + 1, over \in BOOLEAN :
          /\ over => tools = 0
          /\ act' = [act EXCEPT !.step = "tools", !.calls = @ + 1, !.tokens = @ + 1,
                                !.todo = tools, !.over = over,
                                !.shown = IF PacketShown THEN @ \cup {act.calls} ELSE @]
    /\ UNCHANGED <<ctl, begun, tried, receipts, closing>>

\* A faulty cap, for mutation: the cap binds between turns only.
RunToolsUncapped ==
    /\ act.step = "tools" /\ act.todo > 0 /\ ToolRun(act)
    /\ UNCHANGED <<ctl, begun, tried, receipts, closing>>

\* The tools of the turn, one at a time; the end of the episode ends them.
RunTools ==
    /\ act.step = "tools" /\ act.todo > 0
    /\ \/ act.tools >= ToolCap /\ act' = Stopped("tool_cap")
       \/ /\ act.tools < ToolCap
          /\ \E over \in BOOLEAN, failure \in {"none", "model"} :
                act' = [act EXCEPT !.todo = IF over THEN 0 ELSE @ - 1, !.tools = @ + 1,
                                   !.over = over, !.failure = failure]
    /\ UNCHANGED <<ctl, begun, tried, receipts, closing>>

TurnDone ==
    /\ act.step = "tools" /\ act.todo = 0
    /\ act' = [act EXCEPT !.step = "head"]
    /\ UNCHANGED <<ctl, begun, tried, receipts, closing>>

\* UnscoredSlotReceipt, after the fleet is closed and the snapshot is stored.
CloseSlot ==
    /\ act.step = "end"
    /\ receipts' = receipts \cup {[kind |-> "unscored", task |-> act.task, slot |-> act.slot,
                                   run |-> act.run, shown |-> act.shown]}
    /\ act' = Idle
    /\ UNCHANGED <<ctl, begun, tried, closing>>

-----------------------------------------------------------------------------
(* Attempts, outages and reruns.                                           *)

\* A receipt belongs to the work orders of t by capability and slot.
Belongs(r, t) == r.task = t /\ r.slot \in Slots

\* AttemptReceipt.complete
Complete(a) == Cardinality(a.receipts) = Cardinality(Slots)

\* seal_unscored_attempt: the receipts of the executions since the last
\* attempt, each slot at most once.
SealAttempt(t) ==
    /\ Turn(t) /\ facts[t].triggered /\ Executes(t)
    /\ LET from == {a.from : a \in Attempts(t)}
           new  == {r \in receipts : Belongs(r, t) /\ \A k \in from : r.run >= k}
       IN /\ \A r, q \in new : r.slot = q.slot => r = q
          /\ attempts' = attempts \cup {[task |-> t, index |-> Cardinality(Attempts(t)),
                                         receipts |-> new, from |-> begun + 1]}
    /\ tried' = {}
    /\ UNCHANGED <<ctl, act, begun, receipts, outages, reruns, graded, copied, built, published,
                   refused>>

\* OutageReceipt: it embeds an incomplete first attempt.
DeclareOutage(a) ==
    /\ Turn(a.task) /\ ~Complete(a) /\ \A o \in outages : o.first # a
    /\ outages' = outages \cup {[task |-> a.task, first |-> a]}
    /\ UNCHANGED <<ctl, act, begun, tried, receipts, attempts, reruns, graded, copied, built, published,
                   refused>>

\* A faulty authority, for mutation: it does not ask whether the attempt is complete.
MayRerunAny(a, o) == a.index = 0

\* authorize_full_block_rerun; an outage whose provider event is not in the
\* store is refused and changes nothing.
MayRerun(a, o) == a.index = 0 /\ ~Complete(a) /\ o.first = a /\ o.task = a.task

AuthorizeRerun(a) ==
    /\ Turn(a.task) /\ a \notin reruns
    /\ \E o \in outages \cup {[task |-> a.task, first |-> <<>>]} : MayRerun(a, o)
    /\ reruns' = reruns \cup {a}
    /\ UNCHANGED <<ctl, act, begun, tried, receipts, attempts, outages, graded, copied, built, published,
                   refused>>

-----------------------------------------------------------------------------
(* Execution receipts.                                                     *)

\* terminal_receipt_digest: over the receipt and a tag for its kind.
TerminalDigest(r) == <<r.kind, r>>

\* canonical_digest, of the receipt alone.
CanonicalDigest(r) == <<r>>

\* grade_opaque_slot, in a fresh worker; the receipt's attempt was sealed and complete.
Grade(r) ==
    /\ Turn(r.task)
    /\ \E a \in attempts : Complete(a) /\ r \in a.receipts
    /\ graded' = graded \cup {[source |-> TerminalDigest(r), kind |-> "graded_unscored",
                               task |-> r.task, slot |-> r.slot]}
    /\ UNCHANGED <<ctl, act, begun, tried, receipts, attempts, outages, reruns, copied, built, published,
                   refused>>

\* FailedSlotReceipt
FailedSlot(t, s, a) == [kind |-> "failed", task |-> t, slot |-> s, attempt |-> a]

\* A faulty finaliser, for mutation: it looks at the first attempt only.
MayFinalizeFirst(a, b, o) ==
    a.task = b.task /\ a.index = 0 /\ b.index = 1 /\ ~Complete(a) /\ o.first = a

\* The checks of finalize_failed_second_attempt.
MayFinalize(a, b, o) ==
    /\ a.task = b.task /\ a.index = 0 /\ b.index = 1
    /\ ~Complete(a) /\ ~Complete(b) /\ o.first = a

\* Every slot an adverse zero, nothing graded.
FinalizeFailed(a, b) ==
    /\ Turn(a.task)
    /\ \E o \in outages : MayFinalize(a, b, o)
    /\ graded' = graded \cup {[source |-> TerminalDigest(FailedSlot(a.task, s, b)),
                               kind |-> "failed_second_attempt",
                               task |-> a.task, slot |-> s] : s \in Slots}
    /\ UNCHANGED <<ctl, act, begun, tried, receipts, attempts, outages, reruns, copied, built, published,
                   refused>>

-----------------------------------------------------------------------------
(* Task blocks.                                                            *)

FailedSecond(b) == Len(b.attempts) = 2 /\ b.selected = 2 /\ \A i \in 1 .. 2 : ~Complete(b.attempts[i])

\* A faulty descent, for mutation: an outcome needs only to be of its slot.
DescendsBySlot(b) == \A s \in Slots : b.executions[s].slot = b.terminals[s].slot

\* Every outcome names the terminal receipt at its own position.
Descends(b) ==
    \A s \in Slots : /\ b.executions[s].source = TerminalDigest(b.terminals[s])
                     /\ b.executions[s].slot = b.terminals[s].slot

\* The block of a failed second attempt.
FailedArm(b) ==
    \A s \in Slots : /\ b.terminals[s].kind = "failed"
                     /\ b.executions[s].kind = "failed_second_attempt"
                     /\ b.terminals[s].attempt = b.attempts[2]
                     /\ b.outage # <<>> /\ b.outage.first = b.attempts[1]

\* The block of a complete selected attempt.
GradedArm(b) ==
    /\ Complete(b.attempts[b.selected])
    /\ {b.terminals[s] : s \in Slots} = b.attempts[b.selected].receipts
    /\ \A s \in Slots : b.executions[s].kind = "graded_unscored"

\* seal_task_block and TaskBlock.__post_init__
Constructs(b) ==
    /\ \A s \in Slots : b.terminals[s].task = b.task /\ b.terminals[s].slot = s
    /\ b.selected <= Len(b.attempts)
    /\ \A i \in 1 .. Len(b.attempts) : b.attempts[i].task = b.task /\ b.attempts[i].index = i - 1
    /\ IF FailedSecond(b) THEN FailedArm(b) ELSE GradedArm(b)
    /\ Descends(b)

\* The task-block arm of _validate_semantics, with which write_record begins.
RecordAccepts(b) ==
    /\ \A s \in Slots : b.executions[s].source = CanonicalDigest(b.terminals[s])
    /\ IF Len(b.attempts) = 1
       THEN b.selected = 1 /\ b.outage = <<>>
       ELSE b.selected = 2 /\ b.outage # <<>> /\ b.outage.first = b.attempts[1]
                           /\ ~Complete(b.attempts[1])

\* The arguments come from whatever receipts there are; what is constructed
\* is then written, or refused.
SealBlock(t, b) ==
    /\ Turn(t) /\ ~Closed(t) /\ b.task = t /\ Constructs(b)
    /\ built' = built \cup {b}
    /\ IF RecordAccepts(b)
       THEN published' = published \cup {b} /\ UNCHANGED refused
       ELSE refused' = refused \cup {b} /\ UNCHANGED published
    /\ UNCHANGED <<ctl, act, begun, tried, receipts, attempts, outages, reruns, graded, copied>>

\* The blocks a caller may ask for: any attempts of the task, for each slot
\* any closed receipt of it and any execution receipt of that slot in the run.
Candidates(t) ==
    LET closed == {r \in receipts : r.task = t}
                     \cup {FailedSlot(t, s, a) : s \in Slots, a \in Attempts(t)}
        InSlots(set) == {f \in [Slots -> set] : \A s \in Slots : f[s].slot = s}
    IN {[task |-> t, attempts |-> as, selected |-> k, terminals |-> ts, executions |-> es,
         outage |-> o] :
           as \in {<<a>> : a \in Attempts(t)} \cup {<<a, b>> : a, b \in Attempts(t)},
           k \in 1 .. 2, ts \in InSlots(closed), es \in InSlots(graded),
           o \in {q \in outages : q.task = t} \cup {<<>>}}

Next ==
    \/ \E t \in Tasks : Admit(t) \/ CopyY0(t) \/ SealAttempt(t)
    \/ \E t \in Tasks, s \in Slots : StartSlot(t, s)
    \/ act # Idle /\ (SlotRaises \/ DrainPending \/ Drained \/ StopAtHead \/ Call \/ RunTools
                        \/ TurnDone \/ CloseSlot)
    \/ \E a \in attempts : DeclareOutage(a) \/ AuthorizeRerun(a)
    \/ \E r \in receipts : Grade(r)
    \/ \E a, b \in attempts : FinalizeFailed(a, b)
    \/ \E t \in Tasks : Turn(t) /\ ~Closed(t) /\ \E b \in Candidates(t) : SealBlock(t, b)

Spec == Init /\ [][Next]_vars

-----------------------------------------------------------------------------
(* Properties.                                                             *)

TypeOK ==
    /\ stage \in {"admit", "run", "failed"} /\ admitted \subseteq Tasks /\ copied \subseteq Tasks
    /\ begun \in 0 .. MaxRuns /\ tried \subseteq Slots
    /\ act # Idle => /\ act.calls \in 0 .. ModelCap /\ act.tokens \in 0 .. TokenCap
                     /\ act.failure \in Failures /\ act.task \in admitted
    /\ \A r \in receipts : r.task \in admitted /\ r.run \in 1 .. begun
    /\ \A a \in attempts : a.index \in {0, 1} /\ a.receipts \subseteq receipts
    /\ {o.first : o \in outages} \cup reruns \subseteq attempts
    /\ published \cup refused = built

\* A packet is one treatment: a slot whose arm has one sees it on its first
\* call after the pending ones and never again, any other slot never, however
\* often the block is run (_run_subject_loop).
PacketOnce ==
    \A r \in receipts \cup ({act} \ {Idle}) :
        r.shown \subseteq (IF facts[r.task].arm[r.slot] \in Guided THEN {0} ELSE {})

\* The calls a slot ran, the drained pending ones included, stay within the
\* tool cap, and a slot that blames a cap has used all of it.
StopsAtCaps ==
    act.step = "end" => /\ act.tools <= ToolCap
                        /\ act.failure = "tool_cap" => act.tools = ToolCap
                        /\ act.failure = "token_cap" => act.tokens >= TokenCap \/ act.calls >= ModelCap

\* What a worker may do in a slot: show its packet once and spend its caps.
SlotContract == PacketOnce /\ StopsAtCaps

\* An outage closes an attempt for good: once a rerun of it was authorised
\* none of its receipts has been or is ever graded (the design's rule that the
\* decision to rerun comes before any endpoint is readable).
SupersededNeverGraded ==
    \A a \in reruns : \A r \in a.receipts, g \in graded : g.source # TerminalDigest(r)

\* Adverse zeros stand only where the first attempt and its rerun were both cut
\* short, and then no slot of that task has a graded outcome beside them.
AdverseOnlyTwice ==
    \A g \in graded : g.kind = "failed_second_attempt" =>
        /\ Cardinality(Attempts(g.task)) = 2 /\ \A a \in Attempts(g.task) : ~Complete(a)
        /\ \A h \in graded : h.task = g.task => h.kind = g.kind

\* What an outage leaves: no outcome of the superseded attempt, and zeros only
\* after two.
OutageIsFinal == SupersededNeverGraded /\ AdverseOnlyTwice

\* Every outcome of a constructed block was produced, for its own task and its
\* own slot, by the one attempt the block selects.
BlockIsOneAttempt ==
    \A b \in built : \E a \in Attempts(b.task) : \A s \in Slots :
        \/ \E r \in a.receipts :
              r.task = b.task /\ r.slot = s /\ b.executions[s].source = TerminalDigest(r)
        \/ b.executions[s].source = TerminalDigest(FailedSlot(b.task, s, a))

\* What seal_task_block says of itself ("Publish the one schema-valid task
\* block for a triggered task"): a block it could construct is published.
SealPublishes == refused = {}
=============================================================================
