----------------------------- MODULE StageProofs -----------------------------
(***************************************************************************)
(* Proofs about the stages in which a study's work is done: the branch     *)
(* stage (BranchBlock) with the packets that it shows (PacketPair), and    *)
(* the foundation stage (FoundationTraining).                              *)
(*                                                                         *)
(* Branch, for any number of tasks, any slots and arms, any caps and any   *)
(* number of executions.  The outcomes of a block are kept apart by three  *)
(* facts that the stage never checks in one place: a task has at most two  *)
(* attempts, a receipt belongs to one of them only, because the executions *)
(* of a second attempt are younger than the first seal, and only an        *)
(* incomplete first attempt is ever run again.                             *)
(*                                                                         *)
(* Foundation, for any rows, families, sampler orders, edits, preparations *)
(* and runs.  A run keeps the scope that was approved and that the         *)
(* validator accepted; what the validator recomputes from the scope alone  *)
(* certifies every record in it, however the shard was selected.  The      *)
(* checkout only moves on, so that the approved one, when clean, still has *)
(* the registry that the quarantine was made with.  A shard that the       *)
(* validator accepted stays under the token ceiling as a whole, so that no *)
(* window of it is ever skipped, in any order: the progress of a run is    *)
(* then a whole number of windows from the start of its order, and what it *)
(* writes, and what a resumption reads, is that progress.                  *)
(* The preparation and the validator compute the same things from          *)
(* different places, the one from what it read and the other from what is  *)
(* on disk: while nothing is disturbed, what was read is what there is,    *)
(* what is planned follows from it, and what is on disk is what was        *)
(* planned, whatever an earlier preparation left there.                    *)
(*                                                                         *)
(* Packets, for any findings, texts, policies and capabilities.  What the  *)
(* audit recomputes makes a candidate sound, whatever it finds on disk; a  *)
(* grant and a read only carry a sound candidate's packets on.             *)
(***************************************************************************)
EXTENDS BranchBlock, FoundationTraining, PacketPair,
        FiniteSetTheorems, SequenceTheorems, WellFoundedInduction, TLAPS

-----------------------------------------------------------------------------
(* The inductive invariant.                                                *)

Steps == {"drain", "head", "tools", "end"}

ReceiptSet == [kind : {"unscored"}, task : Tasks, slot : Slots, run : Nat, shown : SUBSET {0}]
AttemptSet == [task : Tasks, index : {0, 1}, receipts : SUBSET ReceiptSet, from : Nat]
ActSet == [step : Steps, task : Tasks, slot : Slots, run : Nat, calls : Nat, tokens : Nat,
           tools : Nat, todo : Nat, shown : SUBSET {0}, over : BOOLEAN, failure : Failures]

TypeInv ==
    /\ facts \in [Tasks -> Facts]
    /\ stage \in {"admit", "run", "failed"} /\ admitted \subseteq Tasks /\ copied \subseteq Tasks
    /\ begun \in Nat /\ begun <= MaxRuns /\ tried \subseteq Slots
    /\ act \in ActSet \cup {Idle}
    /\ receipts \subseteq ReceiptSet /\ attempts \subseteq AttemptSet

\* The packet a record shows is the one its slot's arm was given.
ShownToGuided(r) == r.shown # {} => facts[r.task].arm[r.slot] \in Guided

\* The execution under way has shown and spent what it may.
SlotInv ==
    act # Idle =>
        /\ act.task \in admitted /\ 1 <= act.run /\ act.run <= begun /\ ShownToGuided(act)
        /\ act.calls <= ModelCap /\ act.tokens <= TokenCap /\ act.tools <= ToolCap
        /\ act.failure = "tool_cap" => act.tools = ToolCap
        /\ act.failure = "token_cap" => ~WithinCaps

ReceiptInv ==
    \A r \in receipts : r.task \in admitted /\ 1 <= r.run /\ r.run <= begun /\ ShownToGuided(r)

\* An attempt holds receipts of its task from before it was sealed.
AttemptInv ==
    \A a \in attempts : /\ a.receipts \subseteq receipts /\ a.from <= begun + 1
                        /\ \A r \in a.receipts : r.task = a.task /\ r.run < a.from

\* A task has a first attempt and perhaps a second.
OrderInv ==
    /\ IsFiniteSet(attempts)
    /\ \A a, b \in attempts : a.task = b.task /\ a.index = b.index => a = b
    /\ \A b \in attempts : b.index = 1 => \E a \in attempts : a.task = b.task /\ a.index = 0

\* No receipt is in two attempts.
DisjointInv == \A a, b \in attempts : \A r \in a.receipts : r \in b.receipts => a = b

\* Outages and reruns are of attempts, and only a first one that was cut short
\* is run again.
RerunInv ==
    /\ \A o \in outages : o.first \in attempts
    /\ \A a \in reruns : a \in attempts /\ ~Complete(a)

\* A grade is of a receipt of a complete attempt.
GradeOf(g) ==
    /\ g.kind = "graded_unscored"
    /\ \E a \in attempts : \E r \in a.receipts :
          Complete(a) /\ g.task = r.task /\ g.source = TerminalDigest(r)

\* An adverse zero is of a task whose two attempts were both cut short.
ZeroOf(g) ==
    /\ g.kind = "failed_second_attempt"
    /\ \E a, b \in attempts, s \in Slots :
          /\ a.task = g.task /\ b.task = g.task /\ a.index = 0 /\ b.index = 1
          /\ ~Complete(a) /\ ~Complete(b)
          /\ g.source = TerminalDigest(FailedSlot(g.task, s, b))

GradedInv == \A g \in graded : GradeOf(g) \/ ZeroOf(g)

BlockInv == BlockIsOneAttempt /\ published \cup refused = built

IInv ==
    /\ TypeInv /\ SlotInv /\ ReceiptInv /\ AttemptInv /\ OrderInv /\ DisjointInv /\ RerunInv
    /\ GradedInv /\ BlockInv

-----------------------------------------------------------------------------
(* The initial states.                                                     *)

LEMMA InitIInv == Init => IInv
<1> SUFFICES ASSUME Init PROVE IInv
  OBVIOUS
<1>1. TypeInv
  BY CapsAssumption DEF Init, TypeInv
<1>2. SlotInv /\ ReceiptInv /\ AttemptInv /\ DisjointInv /\ RerunInv /\ GradedInv
  BY DEF Init, SlotInv, ReceiptInv, AttemptInv, DisjointInv, RerunInv, GradedInv
<1>3. OrderInv
  BY FS_EmptySet DEF Init, OrderInv
<1>4. BlockInv
  BY DEF Init, BlockInv, BlockIsOneAttempt
<1> QED
  BY <1>1, <1>2, <1>3, <1>4 DEF IInv

-----------------------------------------------------------------------------
(* The execution of a slot.                                                *)

\* What disturbs only the execution under way.
LEMMA Executing ==
    ASSUME IInv, UNCHANGED <<ctl, receipts, closing>>, tried' \subseteq Slots,
           begun' \in Nat, begun <= begun', begun' <= MaxRuns,
           act' \in ActSet \cup {Idle}, SlotInv'
    PROVE  IInv'
<1> USE DEF ctl, closing
<1>1. TypeInv'
  BY DEF IInv, TypeInv
<1>2. ReceiptInv'
  <2> SUFFICES ASSUME NEW r \in receipts PROVE (r.task \in admitted /\ 1 <= r.run /\ r.run <= begun /\ ShownToGuided(r))'
    BY DEF ReceiptInv
  <2>1. r.task \in admitted /\ 1 <= r.run /\ r.run <= begun /\ ShownToGuided(r)
    BY DEF IInv, ReceiptInv
  <2>2. r.run \in Nat /\ begun \in Nat
    BY DEF IInv, TypeInv, ReceiptSet
  <2> QED
    BY <2>1, <2>2 DEF ShownToGuided
<1>3. AttemptInv'
  <2> SUFFICES ASSUME NEW a \in attempts PROVE (a.receipts \subseteq receipts /\ a.from <= begun + 1 /\ \A r \in a.receipts : r.task = a.task /\ r.run < a.from)'
    BY DEF AttemptInv
  <2>1. a.receipts \subseteq receipts /\ a.from <= begun + 1 /\ \A r \in a.receipts : r.task = a.task /\ r.run < a.from
    BY DEF IInv, AttemptInv
  <2>2. a.from \in Nat /\ begun \in Nat
    BY DEF IInv, TypeInv, AttemptSet
  <2> QED
    BY <2>1, <2>2
<1>4. OrderInv' /\ DisjointInv' /\ RerunInv'
  BY DEF IInv, OrderInv, DisjointInv, RerunInv, Complete
<1>5. GradedInv'
  BY DEF IInv, GradedInv, GradeOf, ZeroOf
<1>6. BlockInv'
  BY DEF IInv, BlockInv, BlockIsOneAttempt, Attempts
<1> QED
  BY <1>1, <1>2, <1>3, <1>4, <1>5, <1>6 DEF IInv

\* The fields of the execution under way.
LEMMA ActFields ==
    ASSUME IInv, act # Idle
    PROVE  /\ act \in ActSet
           /\ act.step \in Steps /\ act.task \in Tasks /\ act.slot \in Slots /\ act.run \in Nat
           /\ act.calls \in Nat /\ act.tokens \in Nat /\ act.tools \in Nat /\ act.todo \in Nat
           /\ act.shown \subseteq {0} /\ act.over \in BOOLEAN /\ act.failure \in Failures
<1>1. act \in ActSet
  BY DEF IInv, TypeInv
<1> QED
  BY <1>1 DEF ActSet

\* A step of the execution that leaves it in order.
LEMMA Acting ==
    ASSUME IInv, act # Idle, UNCHANGED <<ctl, begun, tried, receipts, closing>>,
           act' \in ActSet \cup {Idle},
           act' # Idle =>
               /\ act'.task = act.task /\ act'.slot = act.slot /\ act'.run = act.run
               /\ ShownToGuided(act')
               /\ act'.calls <= ModelCap /\ act'.tokens <= TokenCap /\ act'.tools <= ToolCap
               /\ act'.failure = "tool_cap" => act'.tools = ToolCap
               /\ act'.failure = "token_cap" => ~WithinCaps'
    PROVE  IInv'
<1> USE DEF ctl
<1>1. SlotInv'
  <2> SUFFICES ASSUME act' # Idle PROVE SlotInv'
    BY DEF SlotInv
  <2>1. act.task \in admitted /\ 1 <= act.run /\ act.run <= begun
    BY DEF IInv, SlotInv
  <2>2. ShownToGuided(act)'
    BY DEF ShownToGuided
  <2> QED
    BY <2>1, <2>2 DEF SlotInv
<1>2. begun \in Nat /\ begun <= MaxRuns /\ tried \subseteq Slots
  BY DEF IInv, TypeInv
<1> QED
  BY <1>1, <1>2, Executing

LEMMA SlotRaisesInv == ASSUME IInv, act # Idle, SlotRaises PROVE IInv'
BY Acting DEF SlotRaises

LEMMA DrainPendingInv == ASSUME IInv, act # Idle, DrainPending PROVE IInv'
<1> USE CapsAssumption
<1>1. UNCHANGED <<ctl, begun, tried, receipts, closing>>
  BY DEF DrainPending
<1>2. CASE act' = Idle
  BY <1>1, <1>2, Acting
<1>3. ASSUME act.tools < ToolCap, NEW over \in BOOLEAN, NEW failure \in {"none", "model"}, act.todo > 0,
             act' = [act EXCEPT !.todo = @ - 1, !.tools = @ + 1, !.over = over, !.failure = failure]
      PROVE  IInv'
  <2>1. act.calls <= ModelCap /\ act.tokens <= TokenCap /\ ShownToGuided(act)
    BY DEF IInv, SlotInv
  <2>2. act.todo - 1 \in Nat /\ act.tools + 1 \in Nat /\ act.tools + 1 <= ToolCap
    BY <1>3, ActFields
  <2>3. act' \in ActSet
    BY <1>3, <2>2, ActFields DEF ActSet, Failures
  <2>4. ShownToGuided(act')
    BY <1>1, <1>3, <2>1, ActFields DEF ShownToGuided, ActSet, ctl
  <2>5. /\ act'.task = act.task /\ act'.slot = act.slot /\ act'.run = act.run
        /\ act'.calls = act.calls /\ act'.tokens = act.tokens /\ act'.tools = act.tools + 1
        /\ act'.failure \in {"none", "model"}
    BY <1>3, ActFields DEF ActSet
  <2> QED
    BY <1>1, <2>1, <2>2, <2>3, <2>4, <2>5, Acting
<1>4. \/ act' = Idle
      \/ \E over \in BOOLEAN, failure \in {"none", "model"} :
            /\ act.todo > 0 /\ act.tools < ToolCap
            /\ act' = [act EXCEPT !.todo = @ - 1, !.tools = @ + 1, !.over = over, !.failure = failure]
  <2>1. ToolCap \in Nat /\ act.tools \in Nat
    BY ActFields
  <2>2. CASE act.tools >= ToolCap
    BY <2>2 DEF DrainPending
  <2>3. CASE ~(act.tools >= ToolCap)
    <3>1. ToolRun(act) /\ act.todo > 0
      BY <2>3 DEF DrainPending
    <3>2. act.tools < ToolCap
      BY <2>1, <2>3
    <3>3. PICK over \in BOOLEAN, failure \in {"none", "model"} :
              act' = [act EXCEPT !.todo = @ - 1, !.tools = @ + 1, !.over = over, !.failure = failure]
      BY <3>1 DEF ToolRun
    <3> QED
      BY <3>1, <3>2, <3>3
  <2> QED
    BY <2>2, <2>3
<1> QED
  BY <1>2, <1>3, <1>4

\* A step of the execution that only moves it on.
LEMMA Moving ==
    ASSUME IInv, act # Idle, UNCHANGED <<ctl, begun, tried, receipts, closing>>,
           NEW step \in Steps, act' = [act EXCEPT !.step = step]
    PROVE  IInv'
<1>1. act' \in ActSet
  BY ActFields DEF ActSet
<1>2. /\ act'.task = act.task /\ act'.slot = act.slot /\ act'.run = act.run
      /\ act'.calls = act.calls /\ act'.tokens = act.tokens /\ act'.tools = act.tools
      /\ act'.failure = act.failure /\ act'.shown = act.shown
  BY ActFields DEF ActSet
<1>3. ShownToGuided(act')
  BY <1>2 DEF IInv, SlotInv, ShownToGuided, ctl
<1> QED
  BY <1>1, <1>2, <1>3, Acting DEF IInv, SlotInv, WithinCaps

LEMMA StoppedInv ==
    ASSUME IInv, act # Idle, UNCHANGED <<ctl, begun, tried, receipts, closing>>,
           NEW failure \in {"timeout", "token_cap", "tool_cap"}, act' = Stopped(failure),
           failure = "token_cap" => ~WithinCaps, failure = "tool_cap" => act.tools >= ToolCap
    PROVE  IInv'
<1>1. act' \in ActSet
  BY ActFields DEF ActSet, Stopped, Steps, Failures
<1>2. /\ act'.task = act.task /\ act'.slot = act.slot /\ act'.run = act.run
      /\ act'.calls = act.calls /\ act'.tokens = act.tokens /\ act'.tools = act.tools
      /\ act'.failure = failure /\ act'.shown = act.shown
  BY ActFields DEF ActSet, Stopped
<1>3. ShownToGuided(act')
  BY <1>2 DEF IInv, SlotInv, ShownToGuided, ctl
<1>4. act.tools <= ToolCap /\ act.calls <= ModelCap /\ act.tokens <= TokenCap
  BY DEF IInv, SlotInv
<1>5. failure = "tool_cap" => act.tools = ToolCap
  BY <1>4, ActFields, CapsAssumption
<1> QED
  BY <1>1, <1>2, <1>3, <1>4, <1>5, Acting DEF WithinCaps

LEMMA DrainedInv == ASSUME IInv, act # Idle, Drained PROVE IInv'
BY Moving DEF Drained, Steps

LEMMA TurnDoneInv == ASSUME IInv, act # Idle, TurnDone PROVE IInv'
BY Moving DEF TurnDone, Steps

LEMMA StopAtHeadInv == ASSUME IInv, act # Idle, StopAtHead PROVE IInv'
BY Moving, StoppedInv DEF StopAtHead, Steps

LEMMA RunToolsInv == ASSUME IInv, act # Idle, RunTools PROVE IInv'
<1> USE CapsAssumption
<1>1. UNCHANGED <<ctl, begun, tried, receipts, closing>>
  BY DEF RunTools
<1>2. CASE act.tools >= ToolCap /\ act' = Stopped("tool_cap")
  BY <1>1, <1>2, StoppedInv
<1>3. ASSUME act.tools < ToolCap, act.todo > 0,
             NEW over \in BOOLEAN, NEW failure \in {"none", "model"}, NEW todo \in Nat,
             act' = [act EXCEPT !.todo = todo, !.tools = @ + 1, !.over = over, !.failure = failure]
      PROVE  IInv'
  <2>1. act.calls <= ModelCap /\ act.tokens <= TokenCap /\ ShownToGuided(act)
    BY DEF IInv, SlotInv
  <2>2. act.tools + 1 \in Nat /\ act.tools + 1 <= ToolCap
    BY <1>3, ActFields
  <2>3. act' \in ActSet
    BY <1>3, <2>2, ActFields DEF ActSet, Failures
  <2>4. ShownToGuided(act')
    BY <1>1, <1>3, <2>1, ActFields DEF ShownToGuided, ActSet, ctl
  <2>5. /\ act'.task = act.task /\ act'.slot = act.slot /\ act'.run = act.run
        /\ act'.calls = act.calls /\ act'.tokens = act.tokens /\ act'.tools = act.tools + 1
        /\ act'.failure \in {"none", "model"}
    BY <1>3, ActFields DEF ActSet
  <2> QED
    BY <1>1, <2>1, <2>2, <2>3, <2>4, <2>5, Acting
<1>4. ASSUME act.tools < ToolCap, act.todo > 0, NEW over \in BOOLEAN, NEW failure \in {"none", "model"},
             act' = [act EXCEPT !.todo = IF over THEN 0 ELSE @ - 1, !.tools = @ + 1,
                                !.over = over, !.failure = failure]
      PROVE  IInv'
  <2> DEFINE todo == IF over THEN 0 ELSE act.todo - 1
  <2>1. todo \in Nat
    BY <1>4, ActFields
  <2>2. act' = [act EXCEPT !.todo = todo, !.tools = @ + 1, !.over = over, !.failure = failure]
    BY <1>4
  <2> QED
    BY <1>3, <1>4, <2>1, <2>2
<1>5. \/ act.tools >= ToolCap /\ act' = Stopped("tool_cap")
      \/ /\ act.tools < ToolCap /\ act.todo > 0
         /\ \E over \in BOOLEAN, failure \in {"none", "model"} :
               act' = [act EXCEPT !.todo = IF over THEN 0 ELSE @ - 1, !.tools = @ + 1,
                                  !.over = over, !.failure = failure]
  BY DEF RunTools
<1> QED
  BY <1>2, <1>4, <1>5

\* The packet goes out with the first call after the pending ones, to a
\* guided slot.
LEMMA CallInv == ASSUME IInv, act # Idle, Call PROVE IInv'
<1> USE CapsAssumption
<1>1. UNCHANGED <<ctl, begun, tried, receipts, closing>> /\ act.tokens < TokenCap /\ act.calls < ModelCap
  BY DEF Call, WithinCaps
<1>2. PICK tools \in 0 .. ToolCap + 1, over \in BOOLEAN :
          act' = [act EXCEPT !.step = "tools", !.calls = @ + 1, !.tokens = @ + 1,
                             !.todo = tools, !.over = over,
                             !.shown = IF PacketShown THEN @ \cup {act.calls} ELSE @]
  BY DEF Call
<1> DEFINE shown == IF PacketShown THEN act.shown \cup {act.calls} ELSE act.shown
<1>3. shown \subseteq {0} /\ (shown # {} => facts[act.task].arm[act.slot] \in Guided)
  BY ActFields DEF IInv, SlotInv, ShownToGuided, PacketShown, Granted
<1>4. act.calls <= ModelCap /\ act.tokens <= TokenCap /\ act.tools <= ToolCap
      /\ (act.failure = "tool_cap" => act.tools = ToolCap)
      /\ (act.failure = "token_cap" => ~WithinCaps)
  BY DEF IInv, SlotInv
<1>5. /\ act.calls + 1 \in Nat /\ act.calls + 1 <= ModelCap
      /\ act.tokens + 1 \in Nat /\ act.tokens + 1 <= TokenCap /\ tools \in Nat
  BY <1>1, ActFields
<1> HIDE DEF shown
<1>6. act' = [act EXCEPT !.step = "tools", !.calls = @ + 1, !.tokens = @ + 1,
                         !.todo = tools, !.over = over, !.shown = shown]
  BY <1>2 DEF shown
<1>7. act' \in ActSet
  BY <1>3, <1>5, <1>6, ActFields DEF ActSet, Steps
<1>8. /\ act'.task = act.task /\ act'.slot = act.slot /\ act'.run = act.run
      /\ act'.calls = act.calls + 1 /\ act'.tokens = act.tokens + 1 /\ act'.tools = act.tools
      /\ act'.failure = act.failure /\ act'.shown = shown
  BY <1>6, ActFields DEF ActSet
<1>9. ShownToGuided(act') /\ act.failure # "token_cap"
  BY <1>1, <1>3, <1>4, <1>8 DEF ShownToGuided, ctl, WithinCaps
<1> QED
  BY <1>1, <1>4, <1>5, <1>7, <1>8, <1>9, Acting

LEMMA StartSlotInv == ASSUME IInv, NEW t \in Tasks, NEW s \in Slots, StartSlot(t, s) PROVE IInv'
<1> USE CapsAssumption
<1>1. /\ act = Idle /\ t \in admitted /\ begun < MaxRuns /\ begun' = begun + 1 /\ tried' = tried \cup {s}
      /\ UNCHANGED <<ctl, receipts, closing>>
  BY DEF StartSlot, Turn
<1>2. begun \in Nat /\ tried \subseteq Slots
  BY DEF IInv, TypeInv
<1>3. facts[t].pending \in Nat
  <2>1. facts[t] \in Facts
    BY DEF IInv, TypeInv
  <2> QED
    BY <2>1 DEF Facts
<1> DEFINE new == [step |-> "drain", task |-> t, slot |-> s, run |-> begun + 1,
                   calls |-> 0, tokens |-> 0, tools |-> 0, todo |-> facts[t].pending,
                   shown |-> {}, over |-> FALSE, failure |-> "none"]
<1>4. act' = new
  BY DEF StartSlot
<1>5. new \in ActSet
  BY <1>2, <1>3 DEF ActSet, Steps, Failures
<1>6. SlotInv'
  BY <1>1, <1>2, <1>4 DEF SlotInv, ShownToGuided, ctl
<1> HIDE DEF new
<1> QED
  BY <1>1, <1>2, <1>4, <1>5, <1>6, Executing

\* The receipt of a slot is new: its execution is the last one begun.
LEMMA CloseSlotInv == ASSUME IInv, act # Idle, CloseSlot PROVE IInv'
<1> DEFINE new == [kind |-> "unscored", task |-> act.task, slot |-> act.slot,
                   run |-> act.run, shown |-> act.shown]
<1>1. /\ receipts' = receipts \cup {new} /\ act' = Idle
      /\ UNCHANGED <<ctl, begun, tried, closing>>
  BY DEF CloseSlot
<1>2. new \in ReceiptSet
  BY ActFields DEF ReceiptSet
<1>3. new.task \in admitted /\ 1 <= new.run /\ new.run <= begun /\ ShownToGuided(new)
  BY DEF IInv, SlotInv, ShownToGuided
<1> HIDE DEF new
<1> USE DEF ctl, closing
<1>4. TypeInv'
  BY <1>1, <1>2 DEF IInv, TypeInv
<1>5. SlotInv'
  BY <1>1 DEF SlotInv
<1>6. ReceiptInv'
  <2> SUFFICES ASSUME NEW r \in receipts \cup {new}
               PROVE  (r.task \in admitted /\ 1 <= r.run /\ r.run <= begun /\ ShownToGuided(r))'
    BY <1>1 DEF ReceiptInv
  <2>1. r.task \in admitted /\ 1 <= r.run /\ r.run <= begun /\ ShownToGuided(r)
    BY <1>3 DEF IInv, ReceiptInv
  <2> QED
    BY <1>1, <2>1 DEF ShownToGuided
<1>7. AttemptInv'
  BY <1>1 DEF IInv, AttemptInv
<1>8. OrderInv' /\ DisjointInv' /\ RerunInv'
  BY <1>1 DEF IInv, OrderInv, DisjointInv, RerunInv, Complete
<1>9. GradedInv'
  BY <1>1 DEF IInv, GradedInv, GradeOf, ZeroOf
<1>10. BlockInv'
  BY <1>1 DEF IInv, BlockInv, BlockIsOneAttempt, Attempts
<1> QED
  BY <1>4, <1>5, <1>6, <1>7, <1>8, <1>9, <1>10 DEF IInv

-----------------------------------------------------------------------------
(* Admission, and what only reads the attempts.                            *)

\* What leaves executions, receipts and attempts alone.
LEMMA Closing ==
    ASSUME IInv, UNCHANGED <<facts, act, begun, tried, receipts, attempts>>,
           stage' \in {"admit", "run", "failed"}, admitted' \subseteq Tasks,
           admitted \subseteq admitted', copied' \subseteq Tasks,
           RerunInv', GradedInv', BlockInv'
    PROVE  IInv'
<1>1. TypeInv'
  BY DEF IInv, TypeInv
<1>2. SlotInv'
  BY DEF IInv, SlotInv, ShownToGuided, WithinCaps
<1>3. ReceiptInv'
  BY DEF IInv, ReceiptInv, ShownToGuided
<1>4. AttemptInv'
  BY DEF IInv, AttemptInv
<1>5. OrderInv' /\ DisjointInv'
  BY DEF IInv, OrderInv, DisjointInv
<1> QED
  BY <1>1, <1>2, <1>3, <1>4, <1>5 DEF IInv

LEMMA SameReruns == ASSUME IInv, UNCHANGED <<attempts, outages, reruns>> PROVE RerunInv'
BY DEF IInv, RerunInv, Complete

LEMMA SameGrades == ASSUME IInv, UNCHANGED <<attempts, graded>> PROVE GradedInv'
BY DEF IInv, GradedInv, GradeOf, ZeroOf

LEMMA SameBlocks == ASSUME IInv, UNCHANGED <<attempts, built, published, refused>> PROVE BlockInv'
BY DEF IInv, BlockInv, BlockIsOneAttempt, Attempts

LEMMA AdmitInv == ASSUME IInv, NEW t \in Tasks, Admit(t) PROVE IInv'
<1>1. /\ UNCHANGED <<facts, act, begun, tried, receipts, attempts, outages, reruns, graded, copied, built,
                     published, refused>>
      /\ admitted' \in {admitted, admitted \cup {t}} /\ stage' \in {"admit", "run", "failed"}
  BY DEF Admit, closing
<1> QED
  BY <1>1, Closing, SameReruns, SameGrades, SameBlocks DEF IInv, TypeInv

LEMMA CopyY0Inv == ASSUME IInv, NEW t \in Tasks, CopyY0(t) PROVE IInv'
<1>1. /\ UNCHANGED <<ctl, act, begun, tried, receipts, attempts, outages, reruns, graded, built,
                     published, refused>>
      /\ copied' = copied \cup {t}
  BY DEF CopyY0
<1> QED
  BY <1>1, Closing, SameReruns, SameGrades, SameBlocks DEF IInv, TypeInv, ctl

LEMMA DeclareOutageInv == ASSUME IInv, NEW a \in attempts, DeclareOutage(a) PROVE IInv'
<1>1. /\ UNCHANGED <<ctl, act, begun, tried, receipts, attempts, reruns, graded, copied, built,
                     published, refused>>
      /\ outages' = outages \cup {[task |-> a.task, first |-> a]}
  BY DEF DeclareOutage
<1>2. RerunInv'
  BY <1>1 DEF IInv, RerunInv, Complete
<1> QED
  BY <1>1, <1>2, Closing, SameGrades, SameBlocks DEF IInv, TypeInv, ctl

LEMMA AuthorizeRerunInv == ASSUME IInv, NEW a \in attempts, AuthorizeRerun(a) PROVE IInv'
<1>1. /\ UNCHANGED <<ctl, act, begun, tried, receipts, attempts, outages, graded, copied, built,
                     published, refused>>
      /\ reruns' = reruns \cup {a} /\ ~Complete(a)
  BY DEF AuthorizeRerun, MayRerun
<1>2. RerunInv'
  BY <1>1 DEF IInv, RerunInv, Complete
<1> QED
  BY <1>1, <1>2, Closing, SameGrades, SameBlocks DEF IInv, TypeInv, ctl

-----------------------------------------------------------------------------
(* Grades and zeros.                                                       *)

LEMMA GradeInv == ASSUME IInv, NEW r \in receipts, Grade(r) PROVE IInv'
<1> DEFINE new == [source |-> TerminalDigest(r), kind |-> "graded_unscored",
                   task |-> r.task, slot |-> r.slot]
<1>1. /\ UNCHANGED <<ctl, act, begun, tried, receipts, attempts, outages, reruns, copied, built, published,
                     refused>>
      /\ graded' = graded \cup {new}
  BY DEF Grade
<1>2. GradeOf(new)
  <2>1. PICK a \in attempts : Complete(a) /\ r \in a.receipts
    BY DEF Grade
  <2>2. new.kind = "graded_unscored" /\ new.task = r.task /\ new.source = TerminalDigest(r)
    OBVIOUS
  <2> HIDE DEF new
  <2> QED
    BY <2>1, <2>2 DEF GradeOf
<1> HIDE DEF new
<1>3. GradedInv'
  <2> SUFFICES ASSUME NEW g \in graded \cup {new} PROVE GradeOf(g)' \/ ZeroOf(g)'
    BY <1>1 DEF GradedInv
  <2>1. GradeOf(g) \/ ZeroOf(g)
    BY <1>2 DEF IInv, GradedInv
  <2> QED
    BY <1>1, <2>1 DEF GradeOf, ZeroOf
<1> QED
  BY <1>1, <1>3, Closing, SameReruns, SameBlocks DEF IInv, TypeInv, ctl

LEMMA FinalizeFailedInv ==
    ASSUME IInv, NEW a \in attempts, NEW b \in attempts, FinalizeFailed(a, b) PROVE IInv'
<1> DEFINE zero(s) == [source |-> TerminalDigest(FailedSlot(a.task, s, b)),
                       kind |-> "failed_second_attempt", task |-> a.task, slot |-> s]
<1>1. /\ UNCHANGED <<ctl, act, begun, tried, receipts, attempts, outages, reruns, copied, built, published,
                     refused>>
      /\ graded' = graded \cup {zero(s) : s \in Slots}
      /\ a.task = b.task /\ a.index = 0 /\ b.index = 1 /\ ~Complete(a) /\ ~Complete(b)
  BY DEF FinalizeFailed, MayFinalize
<1>2. ASSUME NEW s \in Slots PROVE ZeroOf(zero(s))
  <2>1. /\ zero(s).kind = "failed_second_attempt" /\ zero(s).task = a.task
        /\ zero(s).source = TerminalDigest(FailedSlot(zero(s).task, s, b))
    OBVIOUS
  <2> HIDE DEF zero
  <2> QED
    BY <1>1, <2>1 DEF ZeroOf
<1> HIDE DEF zero
<1>3. GradedInv'
  <2> SUFFICES ASSUME NEW g \in graded \cup {zero(s) : s \in Slots} PROVE GradeOf(g)' \/ ZeroOf(g)'
    BY <1>1 DEF GradedInv
  <2>1. GradeOf(g) \/ ZeroOf(g)
    BY <1>2 DEF IInv, GradedInv
  <2> QED
    BY <1>1, <2>1 DEF GradeOf, ZeroOf
<1> QED
  BY <1>1, <1>3, Closing, SameReruns, SameBlocks DEF IInv, TypeInv, ctl

-----------------------------------------------------------------------------
(* Attempts and blocks.                                                    *)

\* Slots are executed for a task that has no attempt yet, or the one that may
\* be run again.
LEMMA Executed ==
    ASSUME IInv, NEW t \in Tasks, Executes(t)
    PROVE  \/ Attempts(t) = {} /\ Cardinality(Attempts(t)) = 0
           \/ \E x \in attempts : Attempts(t) = {x} /\ x.index = 0 /\ Cardinality(Attempts(t)) = 1
<1>1. IsFiniteSet(Attempts(t))
  BY FS_Subset DEF IInv, OrderInv, Attempts
<1>2. CASE Attempts(t) = {}
  BY <1>2, FS_EmptySet
<1>3. CASE Cardinality(Attempts(t)) = 1
  <2>1. PICK x : Attempts(t) = {x}
    BY <1>1, <1>3, FS_Singleton
  <2>2. x \in attempts /\ x.task = t
    BY <2>1 DEF Attempts
  <2>3. x.index \in {0, 1}
    BY <2>2 DEF IInv, TypeInv, AttemptSet
  <2>4. x.index # 1
    <3> SUFFICES ASSUME x.index = 1 PROVE FALSE
      OBVIOUS
    <3>1. PICK y \in attempts : y.task = t /\ y.index = 0
      BY <2>2 DEF IInv, OrderInv
    <3> QED
      BY <2>1, <3>1 DEF Attempts
  <2> QED
    BY <1>3, <2>1, <2>2, <2>3, <2>4
<1> QED
  BY <1>2, <1>3 DEF Executes

\* An attempt takes the receipts that no earlier attempt of its task can hold.
LEMMA SealAttemptInv == ASSUME IInv, NEW t \in Tasks, SealAttempt(t) PROVE IInv'
<1> DEFINE from == {a.from : a \in Attempts(t)}
           own  == {r \in receipts : Belongs(r, t) /\ \A k \in from : r.run >= k}
           new  == [task |-> t, index |-> Cardinality(Attempts(t)), receipts |-> own, from |-> begun + 1]
<1>1. /\ attempts' = attempts \cup {new} /\ tried' = {} /\ Executes(t) /\ act = Idle
      /\ UNCHANGED <<ctl, act, begun, receipts, outages, reruns, graded, copied, built, published, refused>>
  BY DEF SealAttempt, Turn
<1>2. begun \in Nat /\ receipts \subseteq ReceiptSet /\ attempts \subseteq AttemptSet
  BY DEF IInv, TypeInv
<1>3. own \subseteq receipts /\ \A r \in own : r.task = t
  BY DEF Belongs
<1>4. \A r \in own : \A b \in attempts : b.task = t => r.run >= b.from
  BY DEF Attempts
<1> HIDE DEF own
<1>5. /\ new.task = t /\ new.index = Cardinality(Attempts(t)) /\ new.receipts = own
      /\ new.from = begun + 1
  OBVIOUS
<1>6. new \in AttemptSet
  BY <1>1, <1>2, <1>3, Executed DEF AttemptSet
<1> HIDE DEF new
<1> USE DEF ctl, closing
<1>7. TypeInv'
  BY <1>1, <1>6 DEF IInv, TypeInv
<1>8. SlotInv' /\ ReceiptInv'
  BY <1>1 DEF IInv, SlotInv, ReceiptInv, ShownToGuided
<1>9. AttemptInv'
  <2> SUFFICES ASSUME NEW a \in attempts \cup {new}
               PROVE  /\ a.receipts \subseteq receipts /\ a.from <= begun + 1
                      /\ \A r \in a.receipts : r.task = a.task /\ r.run < a.from
    BY <1>1 DEF AttemptInv
  <2>1. CASE a \in attempts
    BY <2>1 DEF IInv, AttemptInv
  <2>2. \A r \in own : r.run \in Nat /\ r.run <= begun
    BY <1>2, <1>3 DEF IInv, ReceiptInv, ReceiptSet
  <2>3. CASE a = new
    BY <1>2, <1>3, <1>5, <2>2, <2>3
  <2> QED
    BY <2>1, <2>3
<1>10. OrderInv'
  <2>1. IsFiniteSet(attempts')
    BY <1>1, FS_AddElement DEF IInv, OrderInv
  <2>2. \A a \in attempts : ~(a.task = t /\ a.index = new.index)
    BY <1>1, <1>5, Executed DEF Attempts
  <2>3. \A a, b \in attempts' : a.task = b.task /\ a.index = b.index => a = b
    BY <1>1, <1>5, <2>2 DEF IInv, OrderInv
  <2>4. new.index = 1 => \E a \in attempts : a.task = t /\ a.index = 0
    BY <1>1, <1>5, Executed DEF Attempts
  <2>5. \A b \in attempts' : b.index = 1 => \E a \in attempts' : a.task = b.task /\ a.index = 0
    BY <1>1, <1>5, <2>4 DEF IInv, OrderInv
  <2> QED
    BY <2>1, <2>3, <2>5 DEF OrderInv
<1>11. DisjointInv'
  <2>1. ASSUME NEW b \in attempts, NEW r \in own, r \in b.receipts PROVE FALSE
    <3>1. r.task = b.task /\ r.run < b.from
      BY <2>1 DEF IInv, AttemptInv
    <3>2. r.run >= b.from
      BY <1>3, <1>4, <3>1
    <3>3. r.run \in Nat /\ b.from \in Nat
      BY <1>2, <1>3 DEF ReceiptSet, AttemptSet
    <3> QED
      BY <3>1, <3>2, <3>3
  <2> QED
    BY <1>1, <1>5, <2>1 DEF IInv, DisjointInv
<1>12. RerunInv'
  BY <1>1 DEF IInv, RerunInv, Complete
<1>13. GradedInv'
  BY <1>1 DEF IInv, GradedInv, GradeOf, ZeroOf
<1>14. BlockInv'
  BY <1>1 DEF IInv, BlockInv, BlockIsOneAttempt, Attempts
<1> QED
  BY <1>7, <1>8, <1>9, <1>10, <1>11, <1>12, <1>13, <1>14 DEF IInv

\* A block of one task whose outcomes are all of one attempt of it.
OfOneAttempt(b) ==
    \E a \in Attempts(b.task) : \A s \in Slots :
        \/ \E r \in a.receipts :
              r.task = b.task /\ r.slot = s /\ b.executions[s].source = TerminalDigest(r)
        \/ b.executions[s].source = TerminalDigest(FailedSlot(b.task, s, a))

LEMMA ConstructsOne ==
    ASSUME IInv, NEW t \in Tasks, NEW b \in Candidates(t), Constructs(b)
    PROVE  OfOneAttempt(b)
<1> DEFINE closed == {r \in receipts : r.task = t}
                        \cup {FailedSlot(t, s, a) : s \in Slots, a \in Attempts(t)}
<1>1. /\ b.task = t /\ b.selected \in 1 .. 2
      /\ b.attempts \in {<<a>> : a \in Attempts(t)} \cup {<<a, c>> : a, c \in Attempts(t)}
      /\ \A s \in Slots : b.terminals[s] \in closed
  BY DEF Candidates
<1>2. \A k \in 1 .. 2 : k <= Len(b.attempts) => b.attempts[k] \in Attempts(t)
  BY <1>1
<1>3. /\ \A s \in Slots : b.terminals[s].task = b.task /\ b.terminals[s].slot = s
      /\ \A s \in Slots : b.executions[s].source = TerminalDigest(b.terminals[s])
      /\ b.selected <= Len(b.attempts)
  BY DEF Constructs, Descends
<1>4. CASE FailedArm(b) /\ Len(b.attempts) = 2
  <2>1. b.attempts[2] \in Attempts(t)
    BY <1>2, <1>4
  <2>2. ASSUME NEW s \in Slots PROVE b.terminals[s] = FailedSlot(t, s, b.attempts[2])
    <3>1. b.terminals[s].kind = "failed" /\ b.terminals[s].attempt = b.attempts[2] /\ b.terminals[s].slot = s
      BY <1>3, <1>4 DEF FailedArm
    <3>2. b.terminals[s] \notin receipts
      BY <3>1 DEF IInv, TypeInv, ReceiptSet
    <3>3. PICK q \in Slots, a \in Attempts(t) : b.terminals[s] = FailedSlot(t, q, a)
      BY <1>1, <3>2
    <3> QED
      BY <3>1, <3>3 DEF FailedSlot
  <2> QED
    BY <1>1, <1>3, <2>1, <2>2 DEF OfOneAttempt
<1>5. CASE GradedArm(b)
  <2> DEFINE a == b.attempts[b.selected]
  <2>1. a \in Attempts(t)
    BY <1>1, <1>2, <1>3
  <2>2. \A s \in Slots : b.terminals[s] \in a.receipts
    BY <1>5 DEF GradedArm
  <2> HIDE DEF a
  <2> QED
    BY <1>1, <1>3, <2>1, <2>2 DEF OfOneAttempt
<1> QED
  BY <1>4, <1>5 DEF Constructs, FailedSecond

LEMMA SealBlockInv ==
    ASSUME IInv, NEW t \in Tasks, NEW b \in Candidates(t), SealBlock(t, b) PROVE IInv'
<1>1. /\ UNCHANGED <<ctl, act, begun, tried, receipts, attempts, outages, reruns, graded, copied>>
      /\ built' = built \cup {b} /\ Constructs(b)
      /\ published' \cup refused' = published \cup refused \cup {b}
  BY DEF SealBlock
<1>2. OfOneAttempt(b)
  BY <1>1, ConstructsOne
<1>3. BlockInv'
  BY <1>1, <1>2 DEF IInv, BlockInv, BlockIsOneAttempt, OfOneAttempt, Attempts
<1> QED
  BY <1>1, <1>3, Closing, SameReruns, SameGrades DEF IInv, TypeInv, ctl

-----------------------------------------------------------------------------
(* The invariant.                                                          *)

LEMMA Stuttering == ASSUME IInv, UNCHANGED vars PROVE IInv'
<1>1. UNCHANGED <<facts, stage, admitted, act, begun, tried, receipts, attempts, outages, reruns,
                  graded, copied, built, published, refused>>
  BY DEF vars
<1> QED
  BY <1>1, Closing, SameReruns, SameGrades, SameBlocks DEF IInv, TypeInv

LEMMA NextIInv == ASSUME IInv, [Next]_vars PROVE IInv'
<1>1. ASSUME NEW t \in Tasks, Admit(t) \/ CopyY0(t) \/ SealAttempt(t) PROVE IInv'
  BY <1>1, AdmitInv, CopyY0Inv, SealAttemptInv
<1>2. ASSUME NEW t \in Tasks, NEW s \in Slots, StartSlot(t, s) PROVE IInv'
  BY <1>2, StartSlotInv
<1>3. ASSUME act # Idle, SlotRaises \/ DrainPending \/ Drained \/ StopAtHead \/ Call \/ RunTools
                           \/ TurnDone \/ CloseSlot
      PROVE  IInv'
  BY <1>3, SlotRaisesInv, DrainPendingInv, DrainedInv, StopAtHeadInv, CallInv, RunToolsInv,
     TurnDoneInv, CloseSlotInv
<1>4. ASSUME NEW a \in attempts, DeclareOutage(a) \/ AuthorizeRerun(a) PROVE IInv'
  BY <1>4, DeclareOutageInv, AuthorizeRerunInv
<1>5. ASSUME NEW r \in receipts, Grade(r) PROVE IInv'
  BY <1>5, GradeInv
<1>6. ASSUME NEW a \in attempts, NEW b \in attempts, FinalizeFailed(a, b) PROVE IInv'
  BY <1>6, FinalizeFailedInv
<1>7. ASSUME NEW t \in Tasks, NEW b \in Candidates(t), SealBlock(t, b) PROVE IInv'
  BY <1>7, SealBlockInv
<1> QED
  BY <1>1, <1>2, <1>3, <1>4, <1>5, <1>6, <1>7, Stuttering DEF Next

\* In every reachable state of the branch stage the invariant holds.
THEOREM Invariant == Spec => []IInv
<1>1. Init => IInv
  BY InitIInv
<1>2. IInv /\ [Next]_vars => IInv'
  BY NextIInv
<1> QED
  BY <1>1, <1>2, PTL DEF Spec

-----------------------------------------------------------------------------
(* What follows.                                                           *)

\* Every counter, receipt and attempt keeps its type: whatever ran belongs to
\* an admitted task (the barrier of cli.py), and an attempt holds receipts that
\* the workers returned.
THEOREM TypeCorrect == Spec => []TypeOK
<1>1. IInv => TypeOK
  <2> SUFFICES ASSUME IInv PROVE TypeOK
    OBVIOUS
  <2>1. stage \in {"admit", "run", "failed"} /\ admitted \subseteq Tasks /\ copied \subseteq Tasks
        /\ tried \subseteq Slots
    BY DEF IInv, TypeInv
  <2>2. begun \in 0 .. MaxRuns
    BY CapsAssumption DEF IInv, TypeInv
  <2>3. act # Idle => /\ act.calls \in 0 .. ModelCap /\ act.tokens \in 0 .. TokenCap
                      /\ act.failure \in Failures /\ act.task \in admitted
    BY ActFields, CapsAssumption DEF IInv, SlotInv
  <2>4. \A r \in receipts : r.task \in admitted /\ r.run \in 1 .. begun
    <3> TAKE r \in receipts
    <3>1. r.task \in admitted /\ 1 <= r.run /\ r.run <= begun
      BY DEF IInv, ReceiptInv
    <3>2. r.run \in Nat /\ begun \in Nat
      BY DEF IInv, TypeInv, ReceiptSet
    <3> QED
      BY <3>1, <3>2
  <2>5. \A a \in attempts : a.index \in {0, 1} /\ a.receipts \subseteq receipts
    BY DEF IInv, TypeInv, AttemptInv, AttemptSet
  <2>6. {o.first : o \in outages} \cup reruns \subseteq attempts /\ published \cup refused = built
    BY DEF IInv, RerunInv, BlockInv
  <2> QED
    BY <2>1, <2>2, <2>3, <2>4, <2>5, <2>6 DEF TypeOK
<1> QED
  BY <1>1, Invariant, PTL

\* However often a block is run, a guided slot is shown its packet on its
\* first call only and any other slot never, and a slot stays within its caps
\* (run_opaque_slot).
THEOREM SlotsKeepContract == Spec => []SlotContract
<1>1. IInv => PacketOnce
  <2> SUFFICES ASSUME IInv, NEW r \in receipts \cup ({act} \ {Idle})
               PROVE  r.shown \subseteq (IF facts[r.task].arm[r.slot] \in Guided THEN {0} ELSE {})
    BY DEF PacketOnce
  <2>1. ShownToGuided(r)
    BY DEF IInv, ReceiptInv, SlotInv
  <2>2. r.shown \subseteq {0}
    BY ActFields DEF IInv, TypeInv, ReceiptSet
  <2> QED
    BY <2>1, <2>2 DEF ShownToGuided
<1>2. IInv => StopsAtCaps
  <2> SUFFICES ASSUME IInv, act.step = "end" PROVE StopsAtCaps
    BY DEF StopsAtCaps
  <2>1. act # Idle
    BY DEF Idle
  <2>2. act.tools <= ToolCap /\ (act.failure = "tool_cap" => act.tools = ToolCap)
        /\ (act.failure = "token_cap" => ~WithinCaps)
    BY <2>1 DEF IInv, SlotInv
  <2>3. ~WithinCaps => act.tokens >= TokenCap \/ act.calls >= ModelCap
    BY <2>1, ActFields, CapsAssumption DEF WithinCaps
  <2> QED
    BY <2>2, <2>3 DEF StopsAtCaps
<1> QED
  BY <1>1, <1>2, Invariant, PTL DEF SlotContract

\* The decision to run a block again is final: no outcome of the superseded
\* attempt is or becomes readable, and zeros stand only after two outages, with
\* no grade beside them (authorize_full_block_rerun, grade_opaque_slot,
\* finalize_failed_second_attempt).
THEOREM OutagesAreFinal == Spec => []OutageIsFinal
<1>1. IInv => SupersededNeverGraded
  <2> SUFFICES ASSUME IInv, NEW a \in reruns, NEW r \in a.receipts, NEW g \in graded,
                      g.source = TerminalDigest(r)
               PROVE  FALSE
    BY DEF SupersededNeverGraded
  <2>1. a \in attempts /\ ~Complete(a)
    BY DEF IInv, RerunInv
  <2>2. r.kind = "unscored"
    BY <2>1 DEF IInv, TypeInv, AttemptSet, ReceiptSet
  <2>3. CASE GradeOf(g)
    <3>1. PICK b \in attempts : \E q \in b.receipts : Complete(b) /\ g.source = TerminalDigest(q)
      BY <2>3 DEF GradeOf
    <3>2. r \in b.receipts /\ Complete(b)
      BY <3>1 DEF TerminalDigest
    <3> QED
      BY <2>1, <3>2 DEF IInv, DisjointInv
  <2>4. CASE ZeroOf(g)
    BY <2>2, <2>4 DEF ZeroOf, TerminalDigest, FailedSlot
  <2> QED
    BY <2>3, <2>4 DEF IInv, GradedInv
<1>2. IInv => AdverseOnlyTwice
  <2> SUFFICES ASSUME IInv, NEW g \in graded, g.kind = "failed_second_attempt"
               PROVE  /\ Cardinality(Attempts(g.task)) = 2
                      /\ \A a \in Attempts(g.task) : ~Complete(a)
                      /\ \A h \in graded : h.task = g.task => h.kind = g.kind
    BY DEF AdverseOnlyTwice
  <2>1. PICK a \in attempts, b \in attempts :
            /\ a.task = g.task /\ b.task = g.task /\ a.index = 0 /\ b.index = 1
            /\ ~Complete(a) /\ ~Complete(b)
    BY DEF IInv, GradedInv, GradeOf, ZeroOf
  <2>2. Attempts(g.task) = {a, b}
    <3>1. \A c \in attempts : c.task = g.task => c = a \/ c = b
      BY <2>1 DEF IInv, TypeInv, OrderInv, AttemptSet
    <3> QED
      BY <2>1, <3>1 DEF Attempts
  <2>3. Cardinality({a, b}) = 2
    <3>1. Cardinality({a}) = 1 /\ IsFiniteSet({a})
      BY FS_Singleton
    <3>2. b \notin {a}
      BY <2>1
    <3>3. Cardinality({a} \cup {b}) = Cardinality({a}) + 1
      BY <3>1, <3>2, FS_AddElement
    <3>4. {a} \cup {b} = {a, b}
      OBVIOUS
    <3> QED
      BY <3>1, <3>3, <3>4
  <2>4. ASSUME NEW h \in graded, h.task = g.task PROVE h.kind = g.kind
    <3>1. CASE GradeOf(h)
      <4>1. PICK c \in attempts : \E r \in c.receipts : Complete(c) /\ h.task = r.task
        BY <3>1 DEF GradeOf
      <4>2. c.task = g.task
        BY <2>4, <4>1 DEF IInv, AttemptInv
      <4> QED
        BY <2>1, <2>2, <4>1, <4>2 DEF Attempts
    <3>2. CASE ZeroOf(h)
      BY <3>2 DEF ZeroOf
    <3> QED
      BY <3>1, <3>2 DEF IInv, GradedInv
  <2> QED
    BY <2>1, <2>2, <2>3, <2>4
<1> QED
  BY <1>1, <1>2, Invariant, PTL DEF OutageIsFinal

\* All the outcomes of a constructed block come from the one attempt that it
\* selects (seal_task_block).
THEOREM BlocksAreOneAttempt == Spec => []BlockIsOneAttempt
<1>1. IInv => BlockIsOneAttempt
  BY DEF IInv, BlockInv
<1> QED
  BY <1>1, Invariant, PTL

-----------------------------------------------------------------------------
(* Sums.  g is the running total of the weights w over the subsets of S, as  *)
(* the folds of the model compute it: one chosen element after another.      *)
Adds(g, w, S) ==
    /\ g \in [SUBSET S -> Nat] /\ g[{}] = 0
    /\ \A s \in SUBSET S : s # {} => LET x == CHOOSE x \in s : TRUE IN g[s] = g[s \ {x}] + w[x]

LEMMA LeastOf ==
  ASSUME NEW T \in SUBSET Nat, T # {}
  PROVE  \E x \in T : \A y \in T : x <= y
  <1> DEFINE R == {ss \in Nat \X Nat : ss[1] < ss[2]}
  <1>1. IsWellFoundedOn(R, Nat)
    BY NatLessThanWellFounded DEF OpToRel
  <1>2. \A x, y \in Nat : x < y => <<x, y>> \in R
    OBVIOUS
  <1> HIDE DEF R
  <1>3. PICK u \in T : \A v \in T : ~ (<<v, u>> \in R)
    BY <1>1, WFMin
  <1>4. ASSUME NEW y \in T PROVE u <= y
    <2>1. u \in Nat /\ y \in Nat /\ ~ (y < u)
      BY <1>2, <1>3
    <2>2. QED
      BY <2>1
  <1>5. QED
    BY <1>4

\* Of sets of subsets of a finite set, one has no smaller beside it.
LEMMA SmallestOf ==
  ASSUME NEW S, IsFiniteSet(S), NEW T \in SUBSET (SUBSET S), T # {}
  PROVE  \E s \in T : IsFiniteSet(s) /\ \A x \in s : s \ {x} \notin T
  <1> DEFINE C == {Cardinality(s) : s \in T}
  <1>1. \A s \in T : IsFiniteSet(s) /\ Cardinality(s) \in Nat
    BY FS_Subset, FS_CardinalityType
  <1>2. C \in SUBSET Nat /\ C # {}
    BY <1>1
  <1> HIDE DEF C
  <1>3. PICK c \in C : \A d \in C : c <= d
    BY <1>2, LeastOf
  <1>4. PICK s \in T : c = Cardinality(s)
    BY <1>3 DEF C
  <1>5. ASSUME NEW x \in s, s \ {x} \in T PROVE FALSE
    <2>1. Cardinality(s \ {x}) = Cardinality(s) - 1
      BY <1>1, <1>5, FS_RemoveElement
    <2>2. Cardinality(s \ {x}) \in C
      BY <1>5 DEF C
    <2>3. QED
      BY <1>1, <1>3, <1>4, <2>1, <2>2
  <1>6. QED
    BY <1>1, <1>4, <1>5

LEMMA SumExists ==
  ASSUME NEW S, IsFiniteSet(S), NEW w \in [S -> Nat]
  PROVE  \E g : Adds(g, w, S)
  <1> DEFINE Pick(s) == CHOOSE x \in s : TRUE
             D(n) == {s \in SUBSET S : Cardinality(s) <= n}
             Good(g, n) == /\ g \in [D(n) -> Nat] /\ g[{}] = 0
                           /\ \A s \in D(n) : s # {} => g[s] = g[s \ {Pick(s)}] + w[Pick(s)]
             Bad == {n \in Nat : ~ \E g : Good(g, n)}
  <1>1. \A s \in SUBSET S : IsFiniteSet(s) /\ Cardinality(s) \in Nat
    BY FS_Subset, FS_CardinalityType
  <1>2. \A s \in SUBSET S : s # {} => Pick(s) \in s
    OBVIOUS
  <1>3. \A s \in SUBSET S : s # {} =>
           /\ s \ {Pick(s)} \in SUBSET S /\ Cardinality(s \ {Pick(s)}) = Cardinality(s) - 1
           /\ w[Pick(s)] \in Nat
    BY <1>1, <1>2, FS_RemoveElement
  <1>4. {} \in SUBSET S /\ Cardinality({}) = 0 /\ \A s \in SUBSET S : Cardinality(s) = 0 => s = {}
    BY <1>1, FS_EmptySet
  <1> HIDE DEF Pick
  <1>5. 0 \notin Bad
    <2> DEFINE g == [s \in D(0) |-> 0]
    <2>1. \A s \in D(0) : s = {}
      BY <1>1, <1>4
    <2>2. Good(g, 0)
      BY <1>4, <2>1
    <2>3. QED
      BY <2>2
  <1>6. ASSUME NEW n \in Nat, n \notin Bad PROVE n + 1 \notin Bad
    <2>1. PICK g : Good(g, n)
      BY <1>6
    <2> DEFINE h == [s \in D(n + 1) |-> IF s \in D(n) THEN g[s] ELSE g[s \ {Pick(s)}] + w[Pick(s)]]
    <2>2. \A s \in D(n) : s \in D(n + 1)
      BY <1>1
    <2>3. \A s \in D(n + 1) : s # {} => s \ {Pick(s)} \in D(n)
      BY <1>1, <1>3
    <2>4. {} \in D(n)
      BY <1>4
    <2>5. \A s \in D(n) : g[s] \in Nat
      BY <2>1
    <2>6. h \in [D(n + 1) -> Nat]
      <3>1. ASSUME NEW s \in D(n + 1) PROVE h[s] \in Nat
        <4>1. CASE s \in D(n)
          BY <2>5, <4>1
        <4>2. CASE s \notin D(n)
          <5>1. s # {}
            BY <2>4, <4>2
          <5>2. g[s \ {Pick(s)}] \in Nat /\ w[Pick(s)] \in Nat
            BY <1>3, <2>3, <2>5, <5>1
          <5>3. QED
            BY <4>2, <5>2
        <4>3. QED
          BY <4>1, <4>2
      <3>2. QED
        BY <3>1
    <2>7. h[{}] = 0
      BY <2>1, <2>2, <2>4
    <2>8. ASSUME NEW s \in D(n + 1), s # {} PROVE h[s] = h[s \ {Pick(s)}] + w[Pick(s)]
      <3>1. s \ {Pick(s)} \in D(n)
        BY <2>3, <2>8
      <3>2. h[s \ {Pick(s)}] = g[s \ {Pick(s)}]
        BY <2>2, <3>1
      <3>3. h[s] = g[s \ {Pick(s)}] + w[Pick(s)]
        BY <2>1, <2>8
      <3>4. QED
        BY <3>2, <3>3
    <2>9. Good(h, n + 1)
      BY <2>6, <2>7, <2>8
    <2>10. QED
      BY <2>9
  <1>7. Bad = {}
    <2>1. SUFFICES ASSUME Bad # {} PROVE FALSE
      OBVIOUS
    <2>2. Bad \in SUBSET Nat
      OBVIOUS
    <2>3. PICK m \in Bad : \A k \in Bad : m <= k
      BY <2>1, <2>2, LeastOf
    <2> HIDE DEF Bad
    <2>4. m \in Nat /\ m # 0
      BY <1>5, <2>2, <2>3
    <2>5. m - 1 \in Nat /\ m - 1 \notin Bad
      BY <2>3, <2>4
    <2>6. QED
      BY <1>6, <2>3, <2>4, <2>5
  <1>8. PICK g : Good(g, Cardinality(S))
    BY <1>1, <1>7
  <1>9. D(Cardinality(S)) = SUBSET S
    BY FS_Subset
  <1>10. /\ g \in [SUBSET S -> Nat] /\ g[{}] = 0
         /\ \A s \in SUBSET S : s # {} => g[s] = g[s \ {Pick(s)}] + w[Pick(s)]
    BY <1>8, <1>9
  <1>11. \A s \in SUBSET S : s # {} => LET x == CHOOSE x \in s : TRUE IN g[s] = g[s \ {x}] + w[x]
    BY <1>10 DEF Pick
  <1>12. QED
    BY <1>10, <1>11 DEF Adds

\* Whichever element is taken last.
LEMMA AnyOrder ==
  ASSUME NEW S, IsFiniteSet(S), NEW w \in [S -> Nat], NEW g, Adds(g, w, S)
  PROVE  \A s \in SUBSET S : \A x \in s : g[s] = g[s \ {x}] + w[x]
  <1> DEFINE T == {s \in SUBSET S : ~ \A x \in s : g[s] = g[s \ {x}] + w[x]}
  <1>1. SUFFICES ASSUME T # {} PROVE FALSE
    OBVIOUS
  <1>2. PICK s \in T : \A x \in s : s \ {x} \notin T
    <2>1. T \in SUBSET (SUBSET S)
      OBVIOUS
    <2> HIDE DEF T
    <2>2. QED
      BY <1>1, <2>1, SmallestOf
  <1>3. PICK x \in s : g[s] # g[s \ {x}] + w[x]
    BY <1>2
  <1> DEFINE p == CHOOSE y \in s : TRUE
  <1>4. p \in s
    BY <1>3
  <1>5. g[s] = g[s \ {p}] + w[p]
    BY <1>3 DEF Adds
  <1> HIDE DEF p
  <1>6. p # x
    BY <1>3, <1>5
  <1>7. g[s \ {p}] = g[(s \ {p}) \ {x}] + w[x]
    <2>1. s \ {p} \in SUBSET S /\ s \ {p} \notin T /\ x \in s \ {p}
      BY <1>2, <1>3, <1>4, <1>6
    <2>2. QED
      BY <2>1
  <1>8. g[s \ {x}] = g[(s \ {x}) \ {p}] + w[p]
    <2>1. s \ {x} \in SUBSET S /\ s \ {x} \notin T /\ p \in s \ {x}
      BY <1>2, <1>3, <1>4, <1>6
    <2>2. QED
      BY <2>1
  <1>9. (s \ {p}) \ {x} = (s \ {x}) \ {p} /\ (s \ {p}) \ {x} \in SUBSET S
    BY <1>2
  <1>10. g[(s \ {p}) \ {x}] \in Nat /\ w[x] \in Nat /\ w[p] \in Nat
    BY <1>2, <1>3, <1>4, <1>9 DEF Adds
  <1>11. g[(s \ {p}) \ {x}] = g[(s \ {x}) \ {p}]
    BY <1>9
  <1>12. g[s] = g[s \ {x}] + w[x]
    <2>1. g[s] = (g[(s \ {p}) \ {x}] + w[x]) + w[p]
      BY <1>5, <1>7
    <2>2. g[s \ {x}] + w[x] = (g[(s \ {p}) \ {x}] + w[p]) + w[x]
      BY <1>8, <1>11
    <2>3. QED
      BY <1>10, <2>1, <2>2
  <1>13. QED
    BY <1>3, <1>12

\* Disjoint parts add up.
LEMMA PartsAddUp ==
  ASSUME NEW S, IsFiniteSet(S), NEW w \in [S -> Nat], NEW g, Adds(g, w, S),
         NEW A \in SUBSET S, NEW B \in SUBSET S, A \cap B = {}
  PROVE  g[A \cup B] = g[A] + g[B]
  <1> DEFINE T == {b \in SUBSET B : g[A \cup b] # g[A] + g[b]}
  <1>1. SUFFICES ASSUME T # {} PROVE FALSE
    OBVIOUS
  <1>2. PICK b \in T : \A x \in b : b \ {x} \notin T
    <2>1. T \in SUBSET (SUBSET S)
      OBVIOUS
    <2> HIDE DEF T
    <2>2. QED
      BY <1>1, <2>1, SmallestOf
  <1>3. \A s \in SUBSET S : g[s] \in Nat
    BY DEF Adds
  <1>4. b # {}
    <2>1. SUFFICES ASSUME b = {} PROVE FALSE
      OBVIOUS
    <2>2. A \cup b = A /\ g[b] = 0 /\ g[A] \in Nat
      BY <1>3, <2>1 DEF Adds
    <2>3. g[A \cup b] = g[A] + g[b]
      BY <2>2
    <2>4. QED
      BY <1>2, <2>3
  <1>5. PICK x \in b : TRUE
    BY <1>4
  <1>6. g[b] = g[b \ {x}] + w[x]
    BY <1>2, AnyOrder
  <1>7. g[A \cup b] = g[(A \cup b) \ {x}] + w[x]
    <2>1. A \cup b \in SUBSET S /\ x \in A \cup b
      BY <1>2
    <2>2. QED
      BY <2>1, AnyOrder
  <1>8. (A \cup b) \ {x} = A \cup (b \ {x})
    BY <1>2
  <1>9. g[A \cup (b \ {x})] = g[A] + g[b \ {x}]
    BY <1>2
  <1>10. w[x] \in Nat /\ g[b \ {x}] \in Nat /\ g[A] \in Nat
    BY <1>2, <1>3
  <1>11. g[A \cup b] = g[A] + g[b]
    <2>1. g[A \cup b] = (g[A] + g[b \ {x}]) + w[x]
      BY <1>7, <1>8, <1>9
    <2>2. g[A] + g[b] = g[A] + (g[b \ {x}] + w[x])
      BY <1>6
    <2>3. QED
      BY <1>10, <2>1, <2>2
  <1>12. QED
    BY <1>2, <1>11

\* The same weights under other names.
LEMMA RenamedSum ==
  ASSUME NEW S, IsFiniteSet(S), NEW w \in [S -> Nat], NEW g, Adds(g, w, S),
         NEW U, IsFiniteSet(U), NEW v \in [U -> Nat], NEW h, Adds(h, v, U),
         NEW f \in [S -> U], \A x, y \in S : f[x] = f[y] => x = y,
         \A x \in S : w[x] = v[f[x]], NEW A \in SUBSET S
  PROVE  g[A] = h[{f[x] : x \in A}]
  <1> DEFINE Im(a) == {f[x] : x \in a}
             T == {a \in SUBSET S : g[a] # h[Im(a)]}
  <1>1. SUFFICES ASSUME T # {} PROVE FALSE
    OBVIOUS
  <1>2. PICK a \in T : \A x \in a : a \ {x} \notin T
    <2>1. T \in SUBSET (SUBSET S)
      OBVIOUS
    <2> HIDE DEF T
    <2>2. QED
      BY <1>1, <2>1, SmallestOf
  <1>3. a # {}
    <2>1. SUFFICES ASSUME a = {} PROVE FALSE
      OBVIOUS
    <2>2. Im(a) = {}
      BY <2>1
    <2>3. QED
      BY <1>2, <2>1, <2>2 DEF Adds
  <1>4. PICK x \in a : TRUE
    BY <1>3
  <1>5. g[a] = g[a \ {x}] + w[x]
    BY <1>2, AnyOrder
  <1>6. h[Im(a)] = h[Im(a) \ {f[x]}] + v[f[x]]
    <2>1. Im(a) \in SUBSET U /\ f[x] \in Im(a)
      BY <1>2
    <2>2. QED
      BY <2>1, AnyOrder
  <1>7. Im(a) \ {f[x]} = Im(a \ {x})
    BY <1>2
  <1>8. g[a \ {x}] = h[Im(a \ {x})]
    BY <1>2
  <1>9. QED
    BY <1>2, <1>5, <1>6, <1>7, <1>8

\* A part weighs no more than the whole.
LEMMA PartIsLess ==
  ASSUME NEW S, IsFiniteSet(S), NEW w \in [S -> Nat], NEW g, Adds(g, w, S), NEW A \in SUBSET S
  PROVE  g[A] \in Nat /\ g[S] \in Nat /\ g[A] <= g[S]
  <1> DEFINE B == S \ A
  <1>1. A \cup B = S /\ B \in SUBSET S /\ A \cap B = {}
    OBVIOUS
  <1> HIDE DEF B
  <1>2. g[A \cup B] = g[A] + g[B]
    BY <1>1, PartsAddUp
  <1>3. g[A] \in Nat /\ g[B] \in Nat
    BY <1>1 DEF Adds
  <1>4. g[S] = g[A] + g[B]
    BY <1>1, <1>2
  <1>5. QED
    BY <1>3, <1>4

\* The recursive function of a fold is such a running total.
LEMMA FoldAdds ==
  ASSUME NEW S, IsFiniteSet(S), NEW w \in [S -> Nat], NEW h,
         h = [s \in SUBSET S |-> IF s = {} THEN 0
                ELSE LET x == CHOOSE x \in s : TRUE IN h[s \ {x}] + w[x]]
  PROVE  Adds(h, w, S)
  <1> DEFINE T == {s \in SUBSET S : h[s] \notin Nat}
             Pick(s) == CHOOSE x \in s : TRUE
  <1>1. h[{}] = 0 /\ \A s \in SUBSET S : s # {} => h[s] = h[s \ {Pick(s)}] + w[Pick(s)]
    OBVIOUS
  <1>2. \A s \in SUBSET S : s # {} => Pick(s) \in s
    OBVIOUS
  <1> HIDE DEF Pick
  <1>3. T = {}
    <2>1. SUFFICES ASSUME T # {} PROVE FALSE
      OBVIOUS
    <2>2. T \in SUBSET (SUBSET S)
      OBVIOUS
    <2> HIDE DEF T
    <2>3. PICK s \in T : \A x \in s : s \ {x} \notin T
      BY <2>1, <2>2, SmallestOf
    <2>4. s \in SUBSET S /\ h[s] \notin Nat
      BY <2>3 DEF T
    <2>5. s # {}
      BY <1>1, <2>4
    <2>6. Pick(s) \in s /\ s \ {Pick(s)} \notin T /\ s \ {Pick(s)} \in SUBSET S
      BY <1>2, <2>3, <2>4, <2>5
    <2>7. h[s \ {Pick(s)}] \in Nat /\ w[Pick(s)] \in Nat
      BY <2>4, <2>6 DEF T
    <2>8. h[s] = h[s \ {Pick(s)}] + w[Pick(s)]
      BY <1>1, <2>4, <2>5
    <2>9. QED
      BY <2>4, <2>7, <2>8
  <1>4. \A s \in SUBSET S : h[s] \in Nat
    BY <1>3
  <1>5. DOMAIN h = SUBSET S /\ h = [s \in SUBSET S |-> h[s]]
    OBVIOUS
  <1>6. h \in [SUBSET S -> Nat]
    BY ONLY <1>4, <1>5
  <1>7. QED
    BY <1>1, <1>6 DEF Adds, Pick

\* The tokens of a window and of a set of records, as such sums.
LEMMA WindowIsSum ==
  ASSUME NEW seq, IsFiniteSet(DOMAIN seq), \A i \in DOMAIN seq : seq[i].tokens \in Nat
  PROVE  \E g : Adds(g, [i \in DOMAIN seq |-> seq[i].tokens], DOMAIN seq) /\ WindowTokens(seq) = g[DOMAIN seq]
  <1> DEFINE D == DOMAIN seq
             w == [i \in D |-> seq[i].tokens]
             Body(h) == [s \in SUBSET D |-> IF s = {} THEN 0
                           ELSE LET x == CHOOSE x \in s : TRUE IN h[s \ {x}] + seq[x].tokens]
             Sums(h) == [s \in SUBSET D |-> IF s = {} THEN 0
                           ELSE LET x == CHOOSE x \in s : TRUE IN h[s \ {x}] + w[x]]
             h == CHOOSE h : h = Body(h)
  <1>1. w \in [D -> Nat]
    OBVIOUS
  <1>2. PICK g : Adds(g, w, D)
    BY <1>1, SumExists
  <1>3. \A f : Body(f) = Sums(f)
    OBVIOUS
  <1>4. g = Sums(g)
    <2>1. g \in [SUBSET D -> Nat]
      BY <1>2 DEF Adds
    <2>2. ASSUME NEW s \in SUBSET D PROVE g[s] = Sums(g)[s]
      BY <1>2 DEF Adds
    <2>3. QED
      BY <2>1, <2>2
  <1>5. WindowTokens(seq) = h[D]
    BY DEF WindowTokens, FoldSeq, FoldFunction, FoldFunctionOnSet, MapThenFoldSet
  <1>6. h = Body(h)
    <2>1. g = Body(g)
      BY <1>3, <1>4
    <2>2. QED
      BY <2>1
  <1>7. h = Sums(h)
    BY <1>3, <1>6
  <1> HIDE DEF h
  <1>8. Adds(h, w, D)
    BY <1>1, <1>7, FoldAdds
  <1>9. QED
    BY <1>5, <1>8

LEMMA TotalIsSum ==
  ASSUME NEW R, IsFiniteSet(R), \A r \in R : r.tokens \in Nat
  PROVE  \E g : Adds(g, [r \in R |-> r.tokens], R) /\ TokenTotal(R) = g[R]
  <1> DEFINE w == [r \in R |-> r.tokens]
             Body(h) == [s \in SUBSET R |-> IF s = {} THEN 0
                           ELSE LET x == CHOOSE x \in s : TRUE IN h[s \ {x}] + x.tokens]
             Sums(h) == [s \in SUBSET R |-> IF s = {} THEN 0
                           ELSE LET x == CHOOSE x \in s : TRUE IN h[s \ {x}] + w[x]]
             h == CHOOSE h : h = Body(h)
  <1>1. w \in [R -> Nat]
    OBVIOUS
  <1>2. PICK g : Adds(g, w, R)
    BY <1>1, SumExists
  <1>3. \A f : Body(f) = Sums(f)
    OBVIOUS
  <1>4. g = Sums(g)
    <2>1. g \in [SUBSET R -> Nat]
      BY <1>2 DEF Adds
    <2>2. ASSUME NEW s \in SUBSET R PROVE g[s] = Sums(g)[s]
      BY <1>2 DEF Adds
    <2>3. QED
      BY <2>1, <2>2
  <1>5. TokenTotal(R) = h[R]
    BY DEF TokenTotal, FoldSet, MapThenFoldSet
  <1>6. h = Body(h)
    <2>1. g = Body(g)
      BY <1>3, <1>4
    <2>2. QED
      BY <2>1
  <1>7. h = Sums(h)
    BY <1>3, <1>6
  <1> HIDE DEF h
  <1>8. Adds(h, w, R)
    BY <1>1, <1>7, FoldAdds
  <1>9. QED
    BY <1>5, <1>8

Weighs(g, w, S) == IsFiniteSet(S) /\ w \in [S -> Nat] /\ Adds(g, w, S)

\* f gives the elements of S other names, those of I, and the weights go along.
Relabels(f, w, S, v, I) ==
    /\ \A x, y \in S : f[x] = f[y] => x = y
    /\ \A x \in S : w[x] = v[f[x]]
    /\ I = {f[x] : x \in S}
Splits(A, B, C) == A \cap B = {} /\ A \cup B = C

LEMMA RenamedTotal ==
  ASSUME NEW S, NEW w, NEW g, Weighs(g, w, S), NEW U, NEW v, NEW h, Weighs(h, v, U),
         NEW I \in SUBSET U, NEW f, Relabels(f, w, S, v, I)
  PROVE  g[S] = h[I]
  <1> DEFINE f0 == [x \in S |-> f[x]]
  <1>1. IsFiniteSet(S) /\ w \in [S -> Nat] /\ Adds(g, w, S) /\ IsFiniteSet(U) /\ v \in [U -> Nat] /\ Adds(h, v, U)
    BY DEF Weighs
  <1>2. /\ f0 \in [S -> U] /\ \A x, y \in S : f0[x] = f0[y] => x = y
        /\ \A x \in S : w[x] = v[f0[x]]
        /\ I = {f0[x] : x \in S}
    BY DEF Relabels
  <1>3. S \in SUBSET S
    OBVIOUS
  <1> HIDE DEF f0
  <1>4. g[S] = h[{f0[x] : x \in S}]
    BY <1>1, <1>2, <1>3, RenamedSum
  <1>5. QED
    BY <1>2, <1>4

LEMMA SplitTotal ==
  ASSUME NEW S, NEW w, NEW g, Weighs(g, w, S), NEW A \in SUBSET S, NEW B \in SUBSET S, NEW C, Splits(A, B, C)
  PROVE  g[C] = g[A] + g[B] /\ g[A] \in Nat /\ g[B] \in Nat
  <1>1. IsFiniteSet(S) /\ w \in [S -> Nat] /\ Adds(g, w, S) /\ A \cap B = {} /\ A \cup B = C
    BY DEF Weighs, Splits
  <1>2. g[A \cup B] = g[A] + g[B]
    BY <1>1, PartsAddUp
  <1>3. g[A] \in Nat /\ g[B] \in Nat
    BY <1>1, PartIsLess
  <1>4. QED
    BY <1>1, <1>2, <1>3

LEMMA TotalIsMost ==
  ASSUME NEW S, NEW w, NEW g, Weighs(g, w, S), NEW A \in SUBSET S
  PROVE  g[A] \in Nat /\ g[S] \in Nat /\ g[A] <= g[S]
  <1>1. IsFiniteSet(S) /\ w \in [S -> Nat] /\ Adds(g, w, S)
    BY DEF Weighs
  <1>2. QED
    BY <1>1, PartIsLess

\* Two parts of B, numbered anew, and B as a part of R.
LEMMA TotalsAddUp ==
  ASSUME NEW F, NEW wf, NEW gf, Weighs(gf, wf, F),
         NEW N, NEW wn, NEW gn, Weighs(gn, wn, N),
         NEW B, NEW wb, NEW gb, Weighs(gb, wb, B),
         NEW R, NEW wr, NEW gr, Weighs(gr, wr, R),
         NEW F1 \in SUBSET B, NEW first, Relabels(first, wf, F, wb, F1),
         NEW N1 \in SUBSET B, NEW next, Relabels(next, wn, N, wb, N1), Splits(F1, N1, B),
         NEW B1 \in SUBSET R, NEW both, Relabels(both, wb, B, wr, B1)
  PROVE  /\ gf[F] \in Nat /\ gn[N] \in Nat /\ gr[R] \in Nat
         /\ gb[B] = gf[F] + gn[N] /\ gb[B] <= gr[R]
  <1>1. gf[F] = gb[F1]
    BY RenamedTotal
  <1>2. gn[N] = gb[N1]
    BY RenamedTotal
  <1>3. gb[B] = gr[B1]
    BY RenamedTotal
  <1>4. gb[B] = gb[F1] + gb[N1] /\ gb[F1] \in Nat /\ gb[N1] \in Nat
    BY SplitTotal
  <1>5. gr[B1] <= gr[R] /\ gr[R] \in Nat
    BY TotalIsMost
  <1>6. QED
    BY <1>1, <1>2, <1>3, <1>4, <1>5

\* What the first m records of an order weigh, the next a records, and both.
LEMMA TokensAddUp ==
  ASSUME NEW n \in Nat, NEW X, NEW shard \in [1 .. n -> X],
         \A i, j \in 1 .. n : shard[i] = shard[j] => i = j,
         \A i \in 1 .. n : shard[i].tokens \in Nat,
         NEW order \in [1 .. n -> 1 .. n], \A i, j \in 1 .. n : order[i] = order[j] => i = j,
         NEW m \in Nat, NEW a \in Nat, m + a <= n
  PROVE  LET First(k) == [i \in 1 .. k |-> shard[order[i]]]
             Following == [i \in 1 .. a |-> shard[order[m + i]]]
         IN  /\ WindowTokens(First(m)) \in Nat /\ WindowTokens(Following) \in Nat
             /\ WindowTokens(First(m + a)) = WindowTokens(First(m)) + WindowTokens(Following)
             /\ WindowTokens(First(m + a)) <= TokenTotal(ToSet(shard))
             /\ TokenTotal(ToSet(shard)) \in Nat
  <1> DEFINE F == 1 .. m
             N == 1 .. a
             B == 1 .. m + a
             R == ToSet(shard)
             first == [i \in F |-> shard[order[i]]]
             both == [i \in B |-> shard[order[i]]]
             next == [i \in N |-> shard[order[m + i]]]
             wf == [i \in F |-> first[i].tokens]
             wn == [i \in N |-> next[i].tokens]
             wb == [i \in B |-> both[i].tokens]
             wr == [r \in R |-> r.tokens]
             later == [i \in N |-> m + i]
             same == [i \in F |-> i]
             N1 == m + 1 .. m + a
             B1 == {both[i] : i \in B}
  <1>1. \A k \in Nat : IsFiniteSet(1 .. k)
    BY FS_Interval
  <1>2. IsFiniteSet(F) /\ IsFiniteSet(N) /\ IsFiniteSet(B) /\ IsFiniteSet(1 .. n)
    BY <1>1
  <1>3. R = {shard[i] : i \in 1 .. n}
    BY DEF ToSet
  <1>4. IsFiniteSet(R)
    <2>1. shard \in Surjection(1 .. n, R)
      BY <1>3 DEF Surjection
    <2>2. QED
      BY <1>2, <2>1, FS_Surjection
  <1>5. /\ F \subseteq B /\ \A i \in B : i \in 1 .. n /\ order[i] \in 1 .. n
        /\ \A i \in N : m + i \in B
        /\ N1 \subseteq B /\ Splits(F, N1, B)
    BY DEF Splits
  <1>6. N1 = {later[i] : i \in N}
    <2>1. ASSUME NEW j \in N1 PROVE j \in {later[i] : i \in N}
      <3>1. j - m \in N /\ j = m + (j - m)
        OBVIOUS
      <3>2. QED
        BY <3>1
    <2>2. ASSUME NEW i \in N PROVE later[i] \in N1
      OBVIOUS
    <2> HIDE DEF N1, N, later
    <2>3. QED
      BY <2>1, <2>2
  <1>7. F = {same[i] : i \in F}
    OBVIOUS
  <1>8. /\ \A i, j \in F : same[i] = same[j] => i = j
        /\ \A i, j \in N : later[i] = later[j] => i = j
        /\ \A i \in F : first[i] = both[same[i]]
        /\ \A i \in N : next[i] = both[later[i]]
    BY <1>5
  <1>9. /\ \A i \in B : both[i] \in R
        /\ \A i, j \in B : both[i] = both[j] => i = j
        /\ \A r \in R : r.tokens \in Nat
    BY <1>3, <1>5
  <1>10. /\ \A i \in F : first[i].tokens \in Nat
         /\ \A i \in N : next[i].tokens \in Nat
         /\ \A i \in B : both[i].tokens \in Nat
    BY <1>5
  <1>11. DOMAIN first = F /\ DOMAIN next = N /\ DOMAIN both = B
    OBVIOUS
  <1>12. (\A i \in F : same[i] \in B) /\ (\A i \in N : later[i] \in B)
    BY <1>5
  <1> HIDE DEF F, N, B, R, first, both, next, N1
  <1>13. /\ wf \in [F -> Nat] /\ wn \in [N -> Nat] /\ wb \in [B -> Nat] /\ wr \in [R -> Nat]
    BY <1>9, <1>10
  <1>14. /\ \A i \in F : wf[i] = wb[same[i]]
         /\ \A i \in N : wn[i] = wb[later[i]]
         /\ \A i \in B : wb[i] = wr[both[i]]
    <2> HIDE DEF same, later
    <2>1. QED
      BY <1>8, <1>9, <1>12
  <1>15. \E g : Adds(g, wf, F) /\ WindowTokens(first) = g[F]
    BY <1>2, <1>10, <1>11, WindowIsSum
  <1>16. \E g : Adds(g, wn, N) /\ WindowTokens(next) = g[N]
    BY <1>2, <1>10, <1>11, WindowIsSum
  <1>17. \E g : Adds(g, wb, B) /\ WindowTokens(both) = g[B]
    BY <1>2, <1>10, <1>11, WindowIsSum
  <1>18. \E g : Adds(g, wr, R) /\ TokenTotal(R) = g[R]
    BY <1>4, <1>9, TotalIsSum
  <1> HIDE DEF wf, wn, wb, wr, same, later
  <1>19. /\ Relabels(same, wf, F, wb, F) /\ Relabels(later, wn, N, wb, N1) /\ Relabels(both, wb, B, wr, B1)
    BY <1>6, <1>7, <1>8, <1>9, <1>14 DEF Relabels
  <1>20. PICK gf : Weighs(gf, wf, F) /\ WindowTokens(first) = gf[F]
    BY <1>2, <1>13, <1>15 DEF Weighs
  <1>21. PICK gn : Weighs(gn, wn, N) /\ WindowTokens(next) = gn[N]
    BY <1>2, <1>13, <1>16 DEF Weighs
  <1>22. PICK gb : Weighs(gb, wb, B) /\ WindowTokens(both) = gb[B]
    BY <1>2, <1>13, <1>17 DEF Weighs
  <1>23. PICK gr : Weighs(gr, wr, R) /\ TokenTotal(R) = gr[R]
    BY <1>4, <1>13, <1>18 DEF Weighs
  <1>24. F \in SUBSET B /\ N1 \in SUBSET B /\ B1 \in SUBSET R
    BY <1>5, <1>9
  <1> HIDE DEF B1
  <1>25. /\ gf[F] \in Nat /\ gn[N] \in Nat /\ gr[R] \in Nat
         /\ gb[B] = gf[F] + gn[N] /\ gb[B] <= gr[R]
    BY <1>5, <1>19, <1>20, <1>21, <1>22, <1>23, <1>24, TotalsAddUp
  <1>26. /\ WindowTokens(first) \in Nat /\ WindowTokens(next) \in Nat
         /\ WindowTokens(both) = WindowTokens(first) + WindowTokens(next)
         /\ WindowTokens(both) <= TokenTotal(R) /\ TokenTotal(R) \in Nat
    BY <1>20, <1>21, <1>22, <1>23, <1>25
  <1>27. QED
    BY <1>26 DEF first, both, next, R, F, N, B

LEMMA NothingWeighs ==
  ASSUME NEW seq, DOMAIN seq = {}
  PROVE  WindowTokens(seq) = 0
  <1>1. IsFiniteSet({})
    BY FS_EmptySet
  <1>2. PICK g : Adds(g, [i \in DOMAIN seq |-> seq[i].tokens], DOMAIN seq) /\ WindowTokens(seq) = g[DOMAIN seq]
    BY <1>1, WindowIsSum
  <1>3. QED
    BY <1>2 DEF Adds

-----------------------------------------------------------------------------
(* Records in the order of their ids: every one has a place of its own.      *)
LEMMA ShardIsAll ==
  ASSUME NEW records, IsFiniteSet(records), \A r \in records : r.id \in Nat,
         \A r, s \in records : r.id = s.id => r = s
  PROVE  /\ Cardinality(records) \in Nat
         /\ \A k \in 1 .. Cardinality(records) : ShardOf(records)[k] \in records
         /\ \A j, k \in 1 .. Cardinality(records) : ShardOf(records)[j] = ShardOf(records)[k] => j = k
         /\ ToSet(ShardOf(records)) = records
  <1> DEFINE Below(r) == {s \in records : s.id < r.id}
             n == Cardinality(records)
             rank == [r \in records |-> Cardinality(Below(r))]
  <1>1. n \in Nat /\ \A r \in records : IsFiniteSet(Below(r)) /\ Cardinality(Below(r)) \in Nat
    BY FS_Subset, FS_CardinalityType
  <1>2. ASSUME NEW r \in records PROVE Cardinality(Below(r)) \in 0 .. n - 1
    <2>1. r \notin Below(r) /\ Below(r) \in SUBSET records
      OBVIOUS
    <2>2. Cardinality(Below(r)) <= n /\ Cardinality(Below(r)) # n
      BY <2>1, FS_Subset
    <2>3. QED
      BY <1>1, <2>2
  <1>3. ASSUME NEW r \in records, NEW s \in records, r.id < s.id
        PROVE  Cardinality(Below(r)) < Cardinality(Below(s))
    <2>1. Below(r) \in SUBSET Below(s)
      BY <1>3
    <2>2. r \in Below(s) /\ r \notin Below(r)
      BY <1>3
    <2>3. Cardinality(Below(r)) <= Cardinality(Below(s)) /\ Cardinality(Below(r)) # Cardinality(Below(s))
      BY <1>1, <2>1, <2>2, FS_Subset
    <2>4. QED
      BY <1>1, <2>3
  <1>4. ASSUME NEW r \in records, NEW s \in records, Cardinality(Below(r)) = Cardinality(Below(s))
        PROVE  r = s
    <2> DEFINE c(q) == Cardinality(Below(q))
    <2>1. ~ (r.id < s.id) /\ ~ (s.id < r.id)
      <3>1. c(r) \in Nat /\ c(s) \in Nat /\ c(r) = c(s)
        BY <1>1, <1>4
      <3>2. (r.id < s.id => c(r) < c(s)) /\ (s.id < r.id => c(s) < c(r))
        BY <1>3
      <3> HIDE DEF c
      <3>3. QED
        BY <3>1, <3>2
    <2>2. r.id = s.id
      BY <2>1
    <2>3. QED
      BY <2>2
  <1>5. rank \in Injection(records, 0 .. n - 1)
    <2>1. rank \in [records -> 0 .. n - 1]
      BY <1>2
    <2>2. \A r, s \in records : rank[r] = rank[s] => r = s
      BY <1>4
    <2>3. QED
      BY <2>1, <2>2 DEF Injection, IsInjective
  <1>6. IsFiniteSet(0 .. n - 1) /\ Cardinality(0 .. n - 1) = n
    BY <1>1, FS_Interval
  <1>7. rank \in Surjection(records, 0 .. n - 1)
    BY <1>5, <1>6, FS_Injection
  <1>8. \A k \in 1 .. n : \E r \in records : Cardinality(Below(r)) = k - 1
    <2> SUFFICES ASSUME NEW k \in 1 .. n PROVE \E r \in records : Cardinality(Below(r)) = k - 1
      OBVIOUS
    <2>1. k - 1 \in 0 .. n - 1
      BY <1>1
    <2>2. QED
      BY <1>7, <2>1 DEF Surjection
  <1> DEFINE shard == ShardOf(records)
  <1>9. \A k \in 1 .. n : shard[k] \in records /\ Cardinality(Below(shard[k])) = k - 1
    BY <1>8 DEF ShardOf
  <1>10. DOMAIN shard = 1 .. n
    BY DEF ShardOf
  <1> HIDE DEF shard, Below, n
  <1>11. \A j, k \in 1 .. n : shard[j] = shard[k] => j = k
    <2> SUFFICES ASSUME NEW j \in 1 .. n, NEW k \in 1 .. n, shard[j] = shard[k] PROVE j = k
      OBVIOUS
    <2>1. j - 1 = k - 1
      BY <1>9
    <2>2. QED
      BY <1>1, <2>1
  <1>12. ASSUME NEW r \in records PROVE \E k \in 1 .. n : shard[k] = r
    <2>1. Cardinality(Below(r)) \in 0 .. n - 1
      BY <1>2
    <2>2. Cardinality(Below(r)) + 1 \in 1 .. n /\ (Cardinality(Below(r)) + 1) - 1 = Cardinality(Below(r))
      BY <1>1, <2>1
    <2>3. shard[Cardinality(Below(r)) + 1] = r
      BY <1>4, <1>9, <2>2
    <2>4. QED
      BY <2>2, <2>3
  <1>13. ToSet(shard) = records
    BY <1>9, <1>10, <1>12 DEF ToSet
  <1>14. QED
    BY <1>1, <1>9, <1>11, <1>13 DEF shard, n

-----------------------------------------------------------------------------
(* What the validator's word is worth.                                     *)

\* A shard of different records of rows, at most one of each row.
Legal(s) ==
    /\ s \in Seq(ToSet(s)) /\ Len(s) <= Cardinality(DOMAIN Row)
    /\ \A i, j \in DOMAIN s : s[i] = s[j] => i = j
    /\ \A r \in ToSet(s) : r.id \in DOMAIN Row

\* What a run relies on of every record of its scope.
Certified(scope) ==
    \A r \in ToSet(scope.artifacts.shard) :
        /\ r.split = "train" /\ Bucket[CanonicalRepo(r.id)] < 80
        /\ \A e \in IdentitiesOf(scope.artifacts.evals) :
              /\ e.task # Row[r.id].task
              /\ RepoDigest(<<"name", e.repo>>) # RepoDigest(CanonicalRepo(r.id))
        /\ MultiLane(scope.stage) =>
              RepoDigest(CanonicalRepo(r.id)) \notin scope.artifacts.receipts.leak.registry

LEMMA LanesAre ==
  ASSUME NEW s
  PROVE  /\ "openhands" \in Lanes(s) /\ Lanes(s) \subseteq {"openhands", "ost"}
         /\ "ost" \in Lanes(s) => MultiLane(s)
  <1>1. CASE s = "100k"
    BY <1>1 DEF Lanes
  <1>2. CASE s # "100k"
    <2>1. Lanes(s) = {"openhands", "ost"}
      BY <1>2 DEF Lanes
    <2>2. Cardinality({"openhands", "ost"}) = 2
      <3>1. /\ IsFiniteSet({"openhands"}) /\ Cardinality({"openhands"}) = 1
        BY FS_Singleton
      <3>2. Cardinality({"openhands"} \cup {"ost"}) = 2
        BY <3>1, FS_AddElement
      <3>3. {"openhands"} \cup {"ost"} = {"openhands", "ost"}
        OBVIOUS
      <3>4. QED
        BY <3>2, <3>3
    <2>3. QED
      BY <2>1, <2>2 DEF MultiLane
  <1>3. QED
    BY <1>1, <1>2

\* Whatever tokenizer and registry the validator was given.
LEMMA CoherentCertifies ==
  ASSUME NEW scope, NEW tokenizer, NEW leak, Coherent(scope, scope.artifacts, tokenizer, leak)
  PROVE  Certified(scope)
  <1> DEFINE h == scope.artifacts
             a == h.receipts.split.assignments
             keys == HeldEvalKeys(scope, h)
  <1>1. SUFFICES ASSUME NEW r \in ToSet(h.shard)
                 PROVE  /\ r.split = "train" /\ Bucket[CanonicalRepo(r.id)] < 80
                        /\ \A e \in IdentitiesOf(h.evals) :
                              /\ e.task # Row[r.id].task
                              /\ RepoDigest(<<"name", e.repo>>) # RepoDigest(CanonicalRepo(r.id))
                        /\ MultiLane(scope.stage) =>
                              RepoDigest(CanonicalRepo(r.id)) \notin h.receipts.leak.registry
    BY DEF Certified
  <1>2. Range(h.shard) = ToSet(h.shard)
    BY DEF Range, ToSet
  <1>3. r.split = "train" /\ Row[r.id].lane \in Lanes(scope.stage)
    BY <1>1, <1>2 DEF Coherent, RecordsCoherent
  <1>4. /\ r.id \in DOMAIN a /\ a[r.id].split = "train" /\ a[r.id].quarantine = None
    BY <1>1, <1>2 DEF Coherent, JoinCoherent
  <1>5. /\ a[r.id].split = SplitOf(CanonicalRepo(r.id))
        /\ a[r.id].quarantine = IF CanonicalRepo(r.id) \in keys THEN "eval"
                                ELSE IF RepoDigest(CanonicalRepo(r.id))
                                          \in IF MultiLane(scope.stage) THEN h.receipts.leak.registry ELSE {}
                                THEN "leak" ELSE None
    BY <1>4 DEF Coherent, SplitCoherent
  <1>6. Bucket[CanonicalRepo(r.id)] < 80
    BY <1>4, <1>5 DEF SplitOf
  <1>7. /\ CanonicalRepo(r.id) \notin keys
        /\ MultiLane(scope.stage) =>
              RepoDigest(CanonicalRepo(r.id)) \notin h.receipts.leak.registry
    BY <1>4, <1>5, NoneAssumption
  <1>8. ASSUME NEW e \in IdentitiesOf(h.evals)
        PROVE  /\ e.task # Row[r.id].task
               /\ RepoDigest(<<"name", e.repo>>) # RepoDigest(CanonicalRepo(r.id))
    <2>1. Findings(ToSet(h.shard), IdentitiesOf(h.evals)) = {}
      BY <1>2 DEF Coherent, ContaminationCoherent, Disjoint, ContaminationReceipt
    <2>2. ~(CanonicalRepo(r.id) = <<"name", e.repo>> \/ Row[r.id].task = e.task)
      <3>1. SUFFICES ASSUME CanonicalRepo(r.id) = <<"name", e.repo>> \/ Row[r.id].task = e.task
                     PROVE  FALSE
        OBVIOUS
      <3>2. <<r.id, e>> \in Findings(ToSet(h.shard), IdentitiesOf(h.evals))
        BY <1>1, <1>8, <3>1 DEF Findings
      <3>3. QED
        BY <2>1, <3>2
    <2>3. CASE Row[r.id].lane = "ost"
      <3>1. CanonicalRepo(r.id) = <<"digest", Row[r.id].repo>>
        BY <2>3 DEF CanonicalRepo
      <3>2. MultiLane(scope.stage)
        BY <1>3, <2>3, LanesAre
      <3>3. RepoDigest(<<"name", e.repo>>) \in keys
        BY <1>8, <3>2 DEF HeldEvalKeys
      <3>4. QED
        BY <1>7, <2>2, <3>1, <3>3 DEF RepoDigest
    <2>4. CASE Row[r.id].lane # "ost"
      <3>1. CanonicalRepo(r.id) = <<"name", Row[r.id].repo>>
        BY <2>4 DEF CanonicalRepo
      <3>2. QED
        BY <2>2, <3>1 DEF RepoDigest
    <2>5. QED
      BY <2>3, <2>4
  <1>9. QED
    BY <1>3, <1>6, <1>7, <1>8

-----------------------------------------------------------------------------
(* What is selected and where it comes from.                               *)

LEMMA SourcesAre ==
  /\ SourceOrder(Stage) \in Seq(ToSet(SourceOrder(Stage))) /\ Len(SourceOrder(Stage)) >= 1
  /\ \A l \in Lanes(Stage) : \E k \in DOMAIN SourceOrder(Stage) : SourceOrder(Stage)[k] = <<"trace", l>>
  <1> DEFINE U == ToSet(LanePaths("openhands")) \cup ToSet(LanePaths("ost")) \cup ToSet(EvalPaths)
             first == LanePaths("openhands")
             second == IF MultiLane(Stage) THEN LanePaths("ost") ELSE <<>>
  <1>1. Cardinality(Families) \in Nat
    BY FamiliesAssumption, FS_CardinalityType
  <1>2. EvalPaths \in Seq(U)
    <2>1. EvalPaths \in [1 .. Cardinality(Families) -> U]
      BY DEF EvalPaths, ToSet
    <2>2. QED
      BY <1>1, <2>1
  <1>3. /\ first \in Seq(U) /\ Len(first) = 2 /\ first[1] = <<"trace", "openhands">>
        /\ second \in Seq(U)
        /\ MultiLane(Stage) => Len(second) = 2 /\ second[1] = <<"trace", "ost">>
    <2>1. ASSUME NEW l \in {"openhands", "ost"}
          PROVE  LanePaths(l) \in Seq(U) /\ Len(LanePaths(l)) = 2 /\ LanePaths(l)[1] = <<"trace", l>>
      <3>1. LanePaths(l) = << <<"trace", l>>, <<"report", l>> >>
        BY DEF LanePaths
      <3>2. LanePaths(l) \in Seq(ToSet(LanePaths(l))) /\ Len(LanePaths(l)) = 2
            /\ LanePaths(l)[1] = <<"trace", l>>
        BY <3>1 DEF ToSet
      <3>3. ToSet(LanePaths(l)) \subseteq U
        BY <2>1
      <3>4. QED
        BY <3>2, <3>3
    <2>2. <<>> \in Seq(U)
      OBVIOUS
    <2>3. QED
      BY <2>1, <2>2
  <1>4. SourceOrder(Stage) = (first \o second) \o EvalPaths
    BY DEF SourceOrder
  <1> HIDE DEF first, second, U
  <1>5. /\ first \o second \in Seq(U) /\ Len(first \o second) >= 2
        /\ (first \o second)[1] = <<"trace", "openhands">>
        /\ MultiLane(Stage) => Len(first \o second) = 4 /\ (first \o second)[3] = <<"trace", "ost">>
    <2>1. /\ first \in Seq(U) /\ second \in Seq(U)
      BY <1>3
    <2>2. Len(second) \in Nat
      BY <2>1, LenProperties
    <2>3. /\ first \o second \in Seq(U) /\ Len(first \o second) = Len(first) + Len(second)
          /\ \A i \in 1 .. Len(first) + Len(second) :
                (first \o second)[i] = IF i <= Len(first) THEN first[i] ELSE second[i - Len(first)]
      BY ONLY <2>1, ConcatProperties, Zenon
    <2>4. QED
      BY <1>3, <2>2, <2>3
  <1>6. /\ SourceOrder(Stage) \in Seq(U) /\ Len(SourceOrder(Stage)) >= 2
        /\ SourceOrder(Stage)[1] = <<"trace", "openhands">>
        /\ MultiLane(Stage) => Len(SourceOrder(Stage)) >= 4 /\ SourceOrder(Stage)[3] = <<"trace", "ost">>
    BY <1>2, <1>4, <1>5
  <1>7. SourceOrder(Stage) \in Seq(ToSet(SourceOrder(Stage)))
    BY <1>6 DEF ToSet
  <1>8. ASSUME NEW l \in Lanes(Stage)
        PROVE  \E k \in DOMAIN SourceOrder(Stage) : SourceOrder(Stage)[k] = <<"trace", l>>
    <2>1. CASE l = "openhands"
      <3>1. 1 \in DOMAIN SourceOrder(Stage)
        BY <1>6
      <3>2. QED
        BY <1>6, <2>1, <3>1
    <2>2. CASE l = "ost"
      <3>1. MultiLane(Stage)
        BY <1>8, <2>2, LanesAre
      <3>2. 3 \in DOMAIN SourceOrder(Stage)
        BY <1>6, <3>1
      <3>3. QED
        BY <1>6, <2>2, <3>1, <3>2
    <2>3. QED
      BY <1>8, <2>1, <2>2, LanesAre
  <1>9. QED
    BY <1>6, <1>7, <1>8

LEMMA SeqOfItself ==
  ASSUME NEW S, NEW s \in Seq(S)
  PROVE  s \in Seq(ToSet(s))
  BY DEF ToSet

LEMMA SelectedIsLegal ==
  ASSUME NEW rows \in SUBSET DOMAIN Row, NEW split, NEW tokenizer, NEW hashes,
         NEW selected \in Selections(RenderedRecords(rows, split, tokenizer, hashes))
  PROVE  Legal(ShardOf(selected))
  <1> DEFINE records == RenderedRecords(rows, split, tokenizer, hashes)
             kept == FirstOfKind(rows)
             f == [i \in kept |-> Rendered(i, split[i], tokenizer, hashes)]
  <1>1. kept \in SUBSET DOMAIN Row
    BY DEF FirstOfKind
  <1>2. IsFiniteSet(DOMAIN Row) /\ Cardinality(DOMAIN Row) \in Nat
    BY RowAssumption, FS_CardinalityType
  <1>3. /\ IsFiniteSet(kept) /\ Cardinality(kept) <= Cardinality(DOMAIN Row)
    BY <1>1, <1>2, FS_Subset
  <1>4. f \in Surjection(kept, records)
    BY DEF RenderedRecords, Surjection
  <1>5. IsFiniteSet(records) /\ Cardinality(records) <= Cardinality(kept)
    BY <1>3, <1>4, FS_Surjection
  <1>6. selected \in SUBSET records
    BY DEF Selections, Trainable
  <1>7. IsFiniteSet(selected) /\ Cardinality(selected) <= Cardinality(records)
    BY <1>5, <1>6, FS_Subset
  <1>8. /\ Cardinality(selected) \in Nat /\ Cardinality(selected) <= Cardinality(DOMAIN Row)
    <2>1. /\ Cardinality(selected) \in Nat /\ Cardinality(records) \in Nat /\ Cardinality(kept) \in Nat
      BY <1>3, <1>5, <1>7, FS_CardinalityType
    <2>2. QED
      BY <1>2, <1>3, <1>5, <1>7, <2>1
  <1>9. /\ DOMAIN ShardOf(selected) = 1 .. Cardinality(selected)
        /\ ShardOf(selected) \in [1 .. Cardinality(selected) -> ToSet(ShardOf(selected))]
    BY DEF ShardOf, ToSet
  <1>10. \A r \in records : r.id \in kept
    BY DEF RenderedRecords, Rendered
  <1>11. \A r, s \in records : r.id = s.id => r = s
    BY DEF RenderedRecords, Rendered
  <1>12. /\ \A r \in selected : r.id \in Nat /\ r.id \in DOMAIN Row
         /\ \A r, s \in selected : r.id = s.id => r = s
    BY <1>1, <1>6, <1>10, <1>11, RowAssumption
  <1>13. /\ \A j, k \in DOMAIN ShardOf(selected) : ShardOf(selected)[j] = ShardOf(selected)[k] => j = k
         /\ ToSet(ShardOf(selected)) = selected
    <2>1. IsFiniteSet(selected) /\ (\A r \in selected : r.id \in Nat)
          /\ \A r, s \in selected : r.id = s.id => r = s
      BY <1>7, <1>12
    <2>2. QED
      BY <1>9, <2>1, ShardIsAll
  <1>14. QED
    BY <1>8, <1>9, <1>12, <1>13 DEF Legal

-----------------------------------------------------------------------------
(* The invariant of the stage.                                             *)

\* The governed traces hold rows, and the checkout only moves on.
SourceInv ==
    /\ DOMAIN world = {"data", "meta", "leak", "broken", "tokenizer", "commit", "dirty"}
    /\ world.commit \in Nat /\ world.tokenizer \in 1 .. 2
    /\ \A l \in Lanes(Stage) :
          <<"trace", l>> \in DOMAIN world.data /\ world.data[<<"trace", l>>] \subseteq DOMAIN Row

Publishing == {"convert", "evals", "shard", "check", "manifest", "receipts", "candidate"}

\* What the preparation has read is what some source held, and what it
\* publishes was selected from that.
PrepInv ==
    prep.pc # "idle" =>
      /\ DOMAIN prep = {"pc", "dry", "disturbed", "meta", "leak", "license", "tokenizer", "seen",
                        "plan", "source", "lane"}
      /\ prep.pc \in {"policy", "tokenizer", "load"} => prep.seen = <<>> /\ prep.source = 1
      /\ prep.pc = "source" =>
            /\ prep.source \in DOMAIN SourceOrder(Stage)
            /\ prep.seen \in Seq(ToSet(prep.seen)) /\ Len(prep.seen) = prep.source - 1
      /\ prep.pc = "plan" =>
            /\ DOMAIN prep.seen = DOMAIN SourceOrder(Stage)
      /\ prep.pc \in {"source", "plan"} =>
            \A k \in DOMAIN prep.seen, l \in Lanes(Stage) :
               SourceOrder(Stage)[k] = <<"trace", l>> => prep.seen[k] \subseteq DOMAIN Row
      /\ prep.pc \in Publishing => Legal(ShardOf(prep.plan.selected))

DiskFields == {"conversion", "evals", "shards", "damaged", "receipts", "manifest", "candidate", "final"}

\* Every digest on disk is that of a scope, and the final one was approved.
DiskInv ==
    /\ DOMAIN disk = DiskFields
    /\ \A s \in disk.shards : Legal(s)
    /\ disk.candidate # None => disk.candidate \in DOMAIN operator.scopes
    /\ disk.final # None => disk.final \in DOMAIN operator.scopes \cap operator.approved

OperatorInv ==
    /\ DOMAIN operator = {"scopes", "read", "approved", "changed"}
    /\ operator.scopes \in Seq(ToSet(operator.scopes))
    /\ \A n \in DOMAIN operator.scopes : ScopeOf(n).commit \in Nat /\ ScopeOf(n).commit <= world.commit

StageInv == SourceInv /\ PrepInv /\ DiskInv /\ OperatorInv

Seeds == {q.seed : q \in Requests}
RunFields ==
    {"pc", "scope", "lr", "seed", "from", "shard", "sampler", "cursor", "step", "tokens", "weights",
     "window", "at", "best", "rows", "reason", "status", "prune", "back", "last"}
Backs == {"idle", "window", "end"}

\* A run's scope is an approved one that the validator accepted.
RunInv ==
    run.pc # "idle" =>
      /\ DOMAIN run = RunFields
      /\ run.scope \in DOMAIN operator.scopes \cap operator.approved
      /\ Legal(ScopeOf(run.scope).artifacts.shard) /\ Certified(ScopeOf(run.scope))
      /\ run.seed \in Seeds /\ run.sampler \in Nat /\ run.cursor \in Nat /\ run.back \in Backs
      /\ run.pc # "load" => run.shard = ScopeOf(run.scope).artifacts.shard
      /\ run.pc = "micro" =>
            /\ \A k \in 1 .. Accumulation : run.window[k] \in ToSet(run.shard)
            /\ run.tokens + WindowTokens(run.window) <= Ceiling

\* While the checkout is the approved one and clean, its registry is the one
\* that the quarantine was made with.
RegistryInv ==
    (/\ run.pc # "idle" /\ MultiLane(ScopeOf(run.scope).stage)
     /\ world.commit = ScopeOf(run.scope).commit /\ ~world.dirty)
    => world.leak = ScopeOf(run.scope).artifacts.receipts.leak.registry

FilesInv == \A s \in DOMAIN files : files[s].seed \in Seeds /\ files[s].cursor \in Nat

TrainInv == RunInv /\ RegistryInv /\ FilesInv

-----------------------------------------------------------------------------
(* The surroundings.                                                       *)

\* What a step of the stage may do to a run beside it.
ScopesGrow ==
    /\ \A n \in DOMAIN operator.scopes : n \in DOMAIN operator'.scopes /\ operator'.scopes[n] = operator.scopes[n]
    /\ operator.approved \subseteq operator'.approved
CheckoutMoves ==
    \/ world'.dirty
    \/ world'.commit \in Nat /\ world'.commit > world.commit
    \/ world'.leak = world.leak /\ world'.commit = world.commit /\ (world'.dirty <=> world.dirty)

LEMMA RunUndisturbed ==
  ASSUME StageInv, TrainInv, ScopesGrow, CheckoutMoves, UNCHANGED trainVars
  PROVE  TrainInv'
  <1>1. run' = run /\ files' = files
    BY DEF trainVars
  <1>2. FilesInv'
    BY <1>1 DEF TrainInv, FilesInv
  <1>3. CASE run.pc = "idle"
    BY <1>1, <1>2, <1>3 DEF TrainInv, RunInv, RegistryInv
  <1>4. CASE run.pc # "idle"
    <2>1. run.scope \in DOMAIN operator.scopes /\ run.scope \in operator.approved
      BY <1>4 DEF TrainInv, RunInv
    <2>2. /\ run.scope \in DOMAIN operator'.scopes /\ run.scope \in operator'.approved
          /\ operator'.scopes[run.scope] = operator.scopes[run.scope]
      BY <2>1 DEF ScopesGrow
    <2>3. ScopeOf(run.scope)' = ScopeOf(run.scope)
      BY <1>1, <2>2 DEF ScopeOf
    <2>4. RunInv'
      BY <1>1, <1>4, <2>2, <2>3 DEF TrainInv, RunInv, Legal, Certified, Seeds, Backs
    <2>5. RegistryInv'
      <3>1. SUFFICES ASSUME MultiLane(ScopeOf(run.scope).stage), ~world'.dirty,
                            world'.commit = ScopeOf(run.scope).commit
                     PROVE  world'.leak = ScopeOf(run.scope).artifacts.receipts.leak.registry
        BY <1>1, <2>3 DEF RegistryInv, MultiLane
      <3>2. ScopeOf(run.scope).commit \in Nat /\ ScopeOf(run.scope).commit <= world.commit
            /\ world.commit \in Nat
        BY <2>1 DEF StageInv, OperatorInv, SourceInv
      <3>3. ~(world'.commit > world.commit)
        BY <3>1, <3>2
      <3>4. /\ world'.leak = world.leak /\ world'.commit = world.commit /\ ~world.dirty
        BY <3>1, <3>3 DEF CheckoutMoves
      <3>5. QED
        BY <1>4, <3>1, <3>4 DEF TrainInv, RegistryInv
    <2>6. QED
      BY <1>2, <2>4, <2>5 DEF TrainInv
  <1>5. QED
    BY <1>3, <1>4

\* A change that leaves the checkout's registry alone, or dirties it.
LEMMA EditKeeps ==
  ASSUME StageInv, TrainInv, Edit, DOMAIN world' = DOMAIN world, world'.commit = world.commit,
         world'.tokenizer \in 1 .. 2,
         world'.dirty \/ (world'.leak = world.leak /\ (world'.dirty <=> world.dirty)),
         \A l \in Lanes(Stage) : /\ <<"trace", l>> \in DOMAIN world'.data
                                 /\ world'.data[<<"trace", l>>] \subseteq DOMAIN Row,
         DOMAIN disk' = DOMAIN disk, disk'.shards = disk.shards, disk'.candidate = disk.candidate,
         disk'.final = disk.final, UNCHANGED trainVars
  PROVE  StageInv' /\ TrainInv'
  <1>1. /\ operator'.scopes = operator.scopes /\ operator'.approved = operator.approved
        /\ DOMAIN operator' = DOMAIN operator
    BY DEF Edit, Disturb, StageInv, OperatorInv
  <1>2. \A n : ScopeOf(n)' = operator.scopes[n] /\ ScopeOf(n) = operator.scopes[n]
    BY <1>1 DEF ScopeOf
  <1>3. SourceInv'
    BY DEF StageInv, SourceInv
  <1>4. PrepInv'
    <2>1. CASE prep.pc = "idle"
      BY <2>1 DEF Edit, Disturb, PrepInv
    <2>2. CASE prep.pc # "idle"
      <3>1. /\ DOMAIN prep' = DOMAIN prep /\ \A x \in DOMAIN prep : x # "disturbed" => prep'[x] = prep[x]
        BY <2>2 DEF Edit, Disturb, StageInv, PrepInv
      <3>2. QED
        BY <2>2, <3>1 DEF StageInv, PrepInv, Publishing, Legal
    <2>3. QED
      BY <2>1, <2>2
  <1>5. DiskInv'
    BY <1>1 DEF StageInv, DiskInv, DiskFields, Legal
  <1>6. OperatorInv'
    BY <1>1, <1>2 DEF StageInv, OperatorInv
  <1>7. ScopesGrow /\ CheckoutMoves
    BY <1>1 DEF ScopesGrow, CheckoutMoves
  <1>8. QED
    BY <1>3, <1>4, <1>5, <1>6, <1>7, RunUndisturbed DEF StageInv

LEMMA SurroundingsKeep ==
  ASSUME StageInv, TrainInv, UNCHANGED trainVars,
         \/ \E i \in NewRows, reported \in BOOLEAN : AppendTrace(i, reported)
         \/ \E e \in NewIdentities : AppendIdentity(e)
         \/ \E d \in NewLeaks : EditRegistry(d)
         \/ \E file \in {"license", "suite"} : EditPolicy(file)
         \/ ChangeTokenizer
         \/ \E s \in disk.shards : DamageShard(s)
  PROVE  StageInv' /\ TrainInv'
  <1> USE DEF StageInv, SourceInv, DiskInv, DiskFields
  <1>1. ASSUME NEW i \in NewRows, NEW reported \in BOOLEAN, AppendTrace(i, reported)
        PROVE  StageInv' /\ TrainInv'
    <2>1. /\ Edit /\ disk' = disk /\ DOMAIN world' = DOMAIN world /\ world'.commit = world.commit
          /\ world'.tokenizer \in 1 .. 2
          /\ world'.leak = world.leak /\ world'.dirty = world.dirty
      BY <1>1 DEF AppendTrace
    <2> DEFINE t == world.data[<<"trace", Row[i].lane>>] \cup {i}
    <2>3. ASSUME NEW l \in Lanes(Stage)
          PROVE  /\ <<"trace", l>> \in DOMAIN world'.data
                 /\ world'.data[<<"trace", l>>] \subseteq DOMAIN Row
      <3>1. i \in DOMAIN Row /\ Row[i].lane \in Lanes(Stage)
        BY <1>1, SourcesAssumption DEF AppendTrace
      <3>2. world'.data = [world.data EXCEPT ![<<"trace", Row[i].lane>>] = t,
                              ![<<"report", Row[i].lane>>] = IF reported THEN t ELSE @]
        BY <1>1 DEF AppendTrace
      <3> HIDE DEF t
      <3>3. /\ DOMAIN world'.data = DOMAIN world.data
            /\ world'.data[<<"trace", l>>] \in {t, world.data[<<"trace", l>>]}
            /\ world'.data[<<"trace", l>>] = t => l = Row[i].lane \/ t = world.data[<<"trace", l>>]
        BY <3>2, <2>3
      <3>4. QED
        BY <2>3, <3>1, <3>3 DEF t
    <2>4. QED
      BY <2>1, <2>3, EditKeeps
  <1>2. ASSUME NEW e \in NewIdentities, AppendIdentity(e)
        PROVE  StageInv' /\ TrainInv'
    <2>1. /\ Edit /\ disk' = disk /\ DOMAIN world' = DOMAIN world /\ world'.commit = world.commit
          /\ world'.tokenizer \in 1 .. 2
          /\ world'.leak = world.leak /\ world'.dirty = world.dirty
      BY <1>2 DEF AppendIdentity
    <2>2. /\ DOMAIN world'.data = DOMAIN world.data
          /\ \A l : <<"trace", l>> \in DOMAIN world.data =>
                 world'.data[<<"trace", l>>] = world.data[<<"trace", l>>]
      BY <1>2 DEF AppendIdentity
    <2>3. QED
      BY <2>1, <2>2, EditKeeps
  <1>3. ASSUME NEW d \in NewLeaks, EditRegistry(d)
        PROVE  StageInv' /\ TrainInv'
    <2>1. /\ Edit /\ disk' = disk /\ DOMAIN world' = DOMAIN world /\ world'.commit = world.commit
          /\ world'.tokenizer \in 1 .. 2
          /\ world'.dirty /\ world'.data = world.data
      BY <1>3 DEF EditRegistry
    <2>2. QED
      BY <2>1, EditKeeps
  <1>4. ASSUME NEW file \in {"license", "suite"}, EditPolicy(file)
        PROVE  StageInv' /\ TrainInv'
    <2>1. /\ Edit /\ disk' = disk /\ DOMAIN world' = DOMAIN world /\ world'.commit = world.commit
          /\ world'.tokenizer \in 1 .. 2
          /\ world'.dirty /\ world'.data = world.data
      BY <1>4 DEF EditPolicy
    <2>2. QED
      BY <2>1, EditKeeps
  <1>5. ASSUME ChangeTokenizer
        PROVE  StageInv' /\ TrainInv'
    <2>1. /\ Edit /\ disk' = disk /\ DOMAIN world' = DOMAIN world /\ world'.commit = world.commit
          /\ world'.tokenizer \in 1 .. 2
          /\ world'.leak = world.leak /\ world'.dirty = world.dirty /\ world'.data = world.data
      BY <1>5 DEF ChangeTokenizer
    <2>2. QED
      BY <2>1, EditKeeps
  <1>6. ASSUME NEW s \in disk.shards, DamageShard(s)
        PROVE  StageInv' /\ TrainInv'
    <2>1. /\ Edit /\ world' = world /\ DOMAIN disk' = DOMAIN disk /\ disk'.shards = disk.shards
          /\ disk'.candidate = disk.candidate /\ disk'.final = disk.final /\ world'.tokenizer \in 1 .. 2
      BY <1>6 DEF DamageShard
    <2>2. QED
      BY <2>1, EditKeeps
  <1>7. QED
    BY <1>1, <1>2, <1>3, <1>4, <1>5, <1>6

LEMMA CommitKeeps ==
  ASSUME StageInv, TrainInv, UNCHANGED trainVars, Commit
  PROVE  StageInv' /\ TrainInv'
  <1>1. /\ operator'.scopes = operator.scopes /\ operator'.approved = operator.approved
        /\ DOMAIN operator' = DOMAIN operator /\ disk' = disk
        /\ DOMAIN world' = DOMAIN world /\ world'.commit = world.commit + 1 /\ world'.data = world.data
        /\ world'.tokenizer = world.tokenizer
    BY DEF Commit, Disturb, StageInv, OperatorInv, SourceInv
  <1>2. \A n : ScopeOf(n)' = operator.scopes[n] /\ ScopeOf(n) = operator.scopes[n]
    BY <1>1 DEF ScopeOf
  <1>3. SourceInv'
    BY <1>1 DEF StageInv, SourceInv
  <1>4. PrepInv'
    <2>1. CASE prep.pc = "idle"
      BY <2>1 DEF Commit, Disturb, PrepInv
    <2>2. CASE prep.pc # "idle"
      <3>1. /\ DOMAIN prep' = DOMAIN prep /\ \A x \in DOMAIN prep : x # "disturbed" => prep'[x] = prep[x]
        BY <2>2 DEF Commit, Disturb, StageInv, PrepInv
      <3>2. QED
        BY <2>2, <3>1 DEF StageInv, PrepInv, Publishing, Legal
    <2>3. QED
      BY <2>1, <2>2
  <1>5. DiskInv'
    BY <1>1 DEF StageInv, DiskInv, DiskFields, Legal
  <1>6. OperatorInv'
    BY <1>1, <1>2 DEF StageInv, OperatorInv, SourceInv
  <1>7. ScopesGrow /\ CheckoutMoves
    BY <1>1 DEF ScopesGrow, CheckoutMoves, StageInv, SourceInv
  <1>8. QED
    BY <1>3, <1>4, <1>5, <1>6, <1>7, RunUndisturbed DEF StageInv

-----------------------------------------------------------------------------
(* The preparation.                                                        *)

\* A step of the preparation that leaves the digests on disk alone.
LEMMA PreparationKeeps ==
  ASSUME StageInv, TrainInv, PrepInv', UNCHANGED <<world, trainVars>>,
         DOMAIN disk' = DOMAIN disk, \A s \in disk'.shards : s \in disk.shards \/ Legal(s),
         disk'.candidate = disk.candidate, disk'.final = disk.final,
         DOMAIN operator' = DOMAIN operator, operator'.scopes = operator.scopes,
         operator'.approved = operator.approved
  PROVE  StageInv' /\ TrainInv'
  <1>1. \A n : ScopeOf(n)' = operator.scopes[n] /\ ScopeOf(n) = operator.scopes[n]
    BY DEF ScopeOf
  <1>2. SourceInv'
    BY DEF StageInv, SourceInv
  <1>3. DiskInv'
    BY DEF StageInv, DiskInv, DiskFields, Legal
  <1>4. OperatorInv'
    BY <1>1 DEF StageInv, OperatorInv
  <1>5. ScopesGrow /\ CheckoutMoves
    BY DEF ScopesGrow, CheckoutMoves
  <1>6. QED
    BY <1>2, <1>3, <1>4, <1>5, RunUndisturbed DEF StageInv

LEMMA StopKeeps ==
  ASSUME StageInv, TrainInv, UNCHANGED trainVars, Stop
  PROVE  StageInv' /\ TrainInv'
  <1>1. PrepInv'
    BY DEF Stop, PrepInv, NoPreparation
  <1>2. QED
    BY <1>1, PreparationKeeps DEF Stop

\* A step within the preparation: the artifacts, if any, are no digests.
LEMMA StepKeeps ==
  ASSUME StageInv, TrainInv, UNCHANGED <<world, trainVars>>, PrepInv',
         disk' = disk \/ \E f \in {"conversion", "evals", "receipts", "manifest"} :
                           \A x \in DOMAIN disk : DOMAIN disk' = DOMAIN disk /\ (x # f => disk'[x] = disk[x]),
         operator' = operator \/ Republished
  PROVE  StageInv' /\ TrainInv'
  <1>1. DOMAIN disk' = DOMAIN disk /\ disk'.shards = disk.shards
        /\ disk'.candidate = disk.candidate /\ disk'.final = disk.final
    BY DEF StageInv, DiskInv, DiskFields
  <1>2. /\ DOMAIN operator' = DOMAIN operator /\ operator'.scopes = operator.scopes
        /\ operator'.approved = operator.approved
    BY DEF Republished, StageInv, OperatorInv
  <1>3. QED
    BY <1>1, <1>2, PreparationKeeps

LEMMA BeginKeeps ==
  ASSUME StageInv, TrainInv, UNCHANGED trainVars, NEW dry \in BOOLEAN, Begin(dry)
  PROVE  StageInv' /\ TrainInv'
  <1>1. PrepInv'
    BY DEF Begin, PrepInv, NoPreparation, Publishing
  <1>2. QED
    BY <1>1, StepKeeps DEF Begin

LEMMA ReadingKeeps ==
  ASSUME StageInv, TrainInv, UNCHANGED trainVars,
         ReadPolicy \/ VerifyTokenizer \/ LoadTokenizer \/ ReadSource
  PROVE  StageInv' /\ TrainInv'
  <1>1. SUFFICES ASSUME ~Stop PROVE StageInv' /\ TrainInv'
    BY StopKeeps
  <1>2. Rest
    BY <1>1 DEF ReadPolicy, VerifyTokenizer, LoadTokenizer, ReadSource
  <1>3. CASE ReadPolicy \/ VerifyTokenizer
    <2>1. PrepInv'
      BY <1>1, <1>3 DEF ReadPolicy, VerifyTokenizer, StageInv, PrepInv, Publishing
    <2>2. QED
      BY <1>2, <2>1, StepKeeps DEF Rest
  <1>4. CASE LoadTokenizer
    <2>1. /\ prep' = [prep EXCEPT !.pc = "source"] /\ prep.pc = "load"
      BY <1>1, <1>4 DEF LoadTokenizer, Goto
    <2>2. /\ prep'.pc = "source" /\ prep'.seen = prep.seen /\ prep'.source = prep.source
          /\ DOMAIN prep' = DOMAIN prep /\ prep.seen = <<>> /\ prep.source = 1
      BY <2>1 DEF StageInv, PrepInv
    <2>3. /\ 1 \in DOMAIN SourceOrder(Stage) /\ DOMAIN <<>> = {} /\ Len(<<>>) = 0
          /\ <<>> \in Seq(ToSet(<<>>))
      BY SourcesAre
    <2>4. PrepInv'
      <3>1. /\ prep'.source \in DOMAIN SourceOrder(Stage) /\ DOMAIN prep'.seen = {}
            /\ prep'.seen \in Seq(ToSet(prep'.seen)) /\ Len(prep'.seen) = prep'.source - 1
        BY <2>2, <2>3
      <3>2. prep.pc # "idle" /\ prep'.pc = "source" /\ DOMAIN prep' = DOMAIN prep
        BY <2>1, <2>2
      <3>3. QED
        BY <3>1, <3>2 DEF StageInv, PrepInv, Publishing
    <2>5. QED
      BY <1>2, <2>4, StepKeeps DEF Rest
  <1>5. CASE ReadSource
    <2> DEFINE path == SourceOrder(Stage)[prep.source]
               content == world.data[path]
               n == Len(SourceOrder(Stage))
    <2>1. /\ prep.pc = "source"
          /\ prep' = [prep EXCEPT !.seen = Append(@, content), !.source = @ + 1,
                         !.pc = IF prep.source = n THEN "plan" ELSE "source"]
      BY <1>1, <1>5 DEF ReadSource, AuthorizedPayload
    <2> HIDE DEF content
    <2>2. /\ prep.source \in DOMAIN SourceOrder(Stage) /\ n \in Nat
          /\ DOMAIN SourceOrder(Stage) = 1 .. n
          /\ prep.seen \in Seq(ToSet(prep.seen)) /\ Len(prep.seen) = prep.source - 1
      BY <2>1, SourcesAre DEF StageInv, PrepInv
    <2>3. /\ prep'.seen = Append(prep.seen, content) /\ prep'.source = prep.source + 1
          /\ prep'.pc = (IF prep.source = n THEN "plan" ELSE "source") /\ DOMAIN prep' = DOMAIN prep
      BY <2>1 DEF StageInv, PrepInv
    <2>4. /\ DOMAIN prep'.seen = 1 .. prep.source /\ Len(prep'.seen) = prep.source
          /\ \A k \in 1 .. prep.source - 1 : prep'.seen[k] = prep.seen[k] /\ k \in DOMAIN prep.seen
          /\ prep'.seen[prep.source] = content
      BY <2>2, <2>3
    <2>5. prep'.seen \in Seq(ToSet(prep'.seen))
      <3>1. prep'.seen \in Seq(ToSet(prep.seen) \cup {content})
        BY <2>2, <2>3
      <3>2. QED
        BY <3>1, SeqOfItself
    <2>6. ASSUME NEW k \in DOMAIN prep'.seen, NEW l \in Lanes(Stage),
                 SourceOrder(Stage)[k] = <<"trace", l>>
          PROVE  prep'.seen[k] \subseteq DOMAIN Row
      <3>1. CASE k = prep.source
        BY <2>4, <2>6, <3>1 DEF content, StageInv, SourceInv
      <3>2. CASE k # prep.source
        BY <2>1, <2>2, <2>4, <2>6, <3>2 DEF StageInv, PrepInv
      <3>3. QED
        BY <3>1, <3>2
    <2>7. ASSUME prep.source = n
          PROVE  PrepInv'
      BY <2>1, <2>2, <2>3, <2>4, <2>6, <2>7 DEF StageInv, PrepInv, Publishing
    <2>8. ASSUME prep.source # n
          PROVE  PrepInv'
      <3>1. prep'.source \in DOMAIN SourceOrder(Stage) /\ Len(prep'.seen) = prep'.source - 1
        BY <2>2, <2>3, <2>4, <2>8
      <3>2. QED
        BY <2>1, <2>3, <2>5, <2>6, <2>8, <3>1 DEF StageInv, PrepInv, Publishing
    <2>9. PrepInv'
      BY <2>7, <2>8
    <2>10. QED
      BY <1>2, <2>9, StepKeeps DEF Rest
  <1>6. QED
    BY <1>3, <1>4, <1>5

LEMMA PlanKeeps ==
  ASSUME StageInv, TrainInv, UNCHANGED trainVars, Plan
  PROVE  StageInv' /\ TrainInv'
  <1> DEFINE records == RenderedRecords(SeenRows, PlannedSplit, prep.tokenizer,
                                        PlannedHashes(PlannedBundles, PlannedSplit))
  <1>1. SUFFICES ASSUME ~Stop PROVE StageInv' /\ TrainInv'
    BY StopKeeps
  <1>2. PICK selected \in Selections(records) :
          /\ prep' = [prep EXCEPT !.pc = IF prep.dry THEN "dry" ELSE "convert",
                         !.plan = [bundles |-> PlannedBundles, split |-> PlannedSplit,
                                   hashes |-> PlannedHashes(PlannedBundles, PlannedSplit),
                                   candidates |-> Cardinality(records), selected |-> selected]]
          /\ Rest
    BY <1>1 DEF Plan
  <1>3. prep.pc = "plan"
    BY DEF Plan
  <1>4. SeenRows \in SUBSET DOMAIN Row
    <2>1. ASSUME NEW l \in Lanes(Stage)
          PROVE  Seen(<<"trace", l>>) \subseteq DOMAIN Row
      <3> DEFINE k == CHOOSE k \in DOMAIN SourceOrder(Stage) : SourceOrder(Stage)[k] = <<"trace", l>>
      <3>1. k \in DOMAIN SourceOrder(Stage) /\ SourceOrder(Stage)[k] = <<"trace", l>>
        BY <2>1, SourcesAre
      <3>2. QED
        BY <1>3, <2>1, <3>1 DEF Seen, StageInv, PrepInv
    <2>2. QED
      BY <2>1 DEF SeenRows
  <1>5. Legal(ShardOf(selected))
    BY <1>4, SelectedIsLegal
  <1>6. /\ DOMAIN prep' = DOMAIN prep /\ prep'.pc \in {"dry", "convert"}
        /\ prep'.plan.selected = selected
    BY <1>2, <1>3 DEF StageInv, PrepInv
  <1>7. PrepInv'
    BY <1>3, <1>5, <1>6 DEF StageInv, PrepInv, Publishing, Legal
  <1>8. QED
    BY <1>2, <1>7, StepKeeps DEF Rest

\* The plan stays while it is published.
LEMMA GoingOn ==
  ASSUME StageInv, prep.pc \in Publishing, NEW next \in Publishing, DOMAIN prep' = DOMAIN prep,
         prep'.pc = next, prep'.plan = prep.plan
  PROVE  PrepInv'
  BY DEF StageInv, PrepInv, Publishing, Legal

LEMMA PublishingKeeps ==
  ASSUME StageInv, TrainInv, UNCHANGED trainVars,
         PublishConversion \/ PublishEvalIndex \/ PublishShard \/ CheckSources
           \/ PublishManifest \/ PublishReceipts
  PROVE  StageInv' /\ TrainInv'
  <1>1. prep.pc \in Publishing /\ DOMAIN prep = DOMAIN prep /\ prep.pc # "idle"
    BY DEF PublishConversion, PublishEvalIndex, PublishShard, CheckSources, PublishManifest,
           PublishReceipts, Publishing
  <1>2. /\ "pc" \in DOMAIN prep /\ "lane" \in DOMAIN prep /\ DOMAIN disk = DiskFields
    BY <1>1 DEF StageInv, PrepInv, DiskInv
  <1>3. NoPreparation.pc = "idle"
    BY DEF NoPreparation
  <1>4. CASE PublishConversion
    <2>1. prep' = NoPreparation
          \/ (DOMAIN prep' = DOMAIN prep /\ prep'.pc \in {"evals", "convert"} /\ prep'.plan = prep.plan)
      BY <1>2, <1>4 DEF PublishConversion
    <2>2. PrepInv'
      BY <1>1, <1>3, <2>1, GoingOn DEF PrepInv, Publishing
    <2>3. DOMAIN disk' = DOMAIN disk /\ \A x \in DOMAIN disk : x # "conversion" => disk'[x] = disk[x]
      BY <1>2, <1>4 DEF PublishConversion
    <2>4. QED
      BY <1>4, <2>2, <2>3, StepKeeps DEF PublishConversion, Republished
  <1>5. CASE PublishEvalIndex
    <2>0. prep' = NoPreparation \/ Goto("shard")
      BY <1>5 DEF PublishEvalIndex
    <2>1. prep' = NoPreparation
          \/ (DOMAIN prep' = DOMAIN prep /\ prep'.pc = "shard" /\ prep'.plan = prep.plan)
      <3>1. CASE Goto("shard")
        BY <1>2, <3>1 DEF Goto
      <3>2. QED
        BY <2>0, <3>1
    <2>2. PrepInv'
      BY <1>1, <1>3, <2>1, GoingOn DEF PrepInv, Publishing
    <2>3. DOMAIN disk' = DOMAIN disk /\ \A x \in DOMAIN disk : x # "evals" => disk'[x] = disk[x]
      BY <1>2, <1>5 DEF PublishEvalIndex
    <2>4. QED
      BY <1>5, <2>2, <2>3, StepKeeps DEF PublishEvalIndex, Republished
  <1>6. CASE PublishShard
    <2>1. DOMAIN prep' = DOMAIN prep /\ prep'.pc = "check" /\ prep'.plan = prep.plan
      BY <1>2, <1>6 DEF PublishShard, Goto
    <2>2. PrepInv'
      BY <1>1, <2>1, GoingOn DEF Publishing
    <2>3. Legal(ShardOf(prep.plan.selected))
      BY <1>1 DEF StageInv, PrepInv
    <2>4. /\ DOMAIN disk' = DOMAIN disk /\ disk'.candidate = disk.candidate /\ disk'.final = disk.final
          /\ disk'.shards = disk.shards \cup {ShardOf(prep.plan.selected)}
      BY <1>2, <1>6 DEF PublishShard, DiskFields
    <2>5. /\ DOMAIN operator' = DOMAIN operator /\ operator'.scopes = operator.scopes
          /\ operator'.approved = operator.approved /\ world' = world
      BY <1>6 DEF PublishShard, Republished, StageInv, OperatorInv
    <2>6. QED
      BY <2>2, <2>3, <2>4, <2>5, PreparationKeeps
  <1>7. CASE CheckSources
    <2>1. CASE Stop
      BY <2>1, StopKeeps
    <2>2. CASE Goto("manifest") /\ Rest
      <3>1. DOMAIN prep' = DOMAIN prep /\ prep'.pc = "manifest" /\ prep'.plan = prep.plan
        BY <1>2, <2>2 DEF Goto
      <3>2. PrepInv'
        BY <1>1, <3>1, GoingOn DEF Publishing
      <3>3. QED
        BY <2>2, <3>2, StepKeeps DEF Rest
    <2>3. QED
      BY <1>7, <2>1, <2>2 DEF CheckSources
  <1>8. CASE PublishManifest
    <2>1. DOMAIN prep' = DOMAIN prep /\ prep'.pc = "receipts" /\ prep'.plan = prep.plan
      BY <1>2, <1>8 DEF PublishManifest, Goto
    <2>2. PrepInv'
      BY <1>1, <2>1, GoingOn DEF Publishing
    <2>3. DOMAIN disk' = DOMAIN disk /\ \A x \in DOMAIN disk : x # "manifest" => disk'[x] = disk[x]
      BY <1>2, <1>8 DEF PublishManifest
    <2>4. QED
      BY <1>8, <2>2, <2>3, StepKeeps DEF PublishManifest, Republished
  <1>9. CASE PublishReceipts
    <2>1. DOMAIN prep' = DOMAIN prep /\ prep'.pc = "candidate" /\ prep'.plan = prep.plan
      BY <1>2, <1>9 DEF PublishReceipts, Goto
    <2>2. PrepInv'
      BY <1>1, <2>1, GoingOn DEF Publishing
    <2>3. DOMAIN disk' = DOMAIN disk /\ \A x \in DOMAIN disk : x # "receipts" => disk'[x] = disk[x]
      BY <1>2, <1>9 DEF PublishReceipts
    <2>4. QED
      BY <1>9, <2>2, <2>3, StepKeeps DEF PublishReceipts, Republished
  <1>10. QED
    BY <1>4, <1>5, <1>6, <1>7, <1>8, <1>9

-----------------------------------------------------------------------------
(* Authorization.                                                          *)

LEMMA KnownGrows ==
  ASSUME NEW scope, operator.scopes \in Seq(ToSet(operator.scopes))
  PROVE  /\ Known(scope) \in Seq(ToSet(Known(scope))) /\ DigestIn(Known(scope), scope) \in DOMAIN Known(scope)
         /\ \A n \in DOMAIN operator.scopes : n \in DOMAIN Known(scope) /\ Known(scope)[n] = operator.scopes[n]
         /\ \A n \in DOMAIN Known(scope) : n \in DOMAIN operator.scopes \/ Known(scope)[n] = scope
  <1>1. CASE scope \in ToSet(operator.scopes)
    <2>1. Known(scope) = operator.scopes
      BY <1>1 DEF Known
    <2>2. \E n \in DOMAIN operator.scopes : operator.scopes[n] = scope
      BY <1>1 DEF ToSet
    <2>3. QED
      BY <2>1, <2>2 DEF DigestIn
  <1>2. CASE scope \notin ToSet(operator.scopes)
    <2> DEFINE m == Len(operator.scopes)
    <2>1. Known(scope) = Append(operator.scopes, scope)
      BY <1>2 DEF Known
    <2>2. m \in Nat /\ DOMAIN operator.scopes = 1 .. m
      OBVIOUS
    <2>3. /\ DOMAIN Known(scope) = 1 .. (m + 1) /\ Known(scope)[m + 1] = scope
          /\ \A n \in 1 .. m : Known(scope)[n] = operator.scopes[n]
      BY <2>1
    <2>4. Known(scope) \in Seq(ToSet(operator.scopes) \cup {scope})
      BY <2>1
    <2>5. Known(scope) \in Seq(ToSet(Known(scope)))
      BY <2>4, SeqOfItself
    <2>6. \E n \in DOMAIN Known(scope) : Known(scope)[n] = scope
      BY <2>2, <2>3
    <2>7. DigestIn(Known(scope), scope) \in DOMAIN Known(scope)
      BY <2>6 DEF DigestIn
    <2>8. QED
      BY <2>2, <2>3, <2>5, <2>7
  <1>3. QED
    BY <1>1, <1>2

LEMMA BuildCandidateKeeps ==
  ASSUME StageInv, TrainInv, UNCHANGED trainVars, BuildCandidate
  PROVE  StageInv' /\ TrainInv'
  <1> DEFINE shard == ShardOf(prep.plan.selected)
             scope == Scope(shard)
  <1>1. PrepInv'
    BY DEF BuildCandidate, PrepInv, NoPreparation
  <1>2. CASE UNCHANGED <<disk, operator>>
    BY <1>1, <1>2, PreparationKeeps DEF BuildCandidate
  <1>3. CASE ~UNCHANGED <<disk, operator>>
    <2>1. /\ operator' = [operator EXCEPT !.changed = FALSE, !.scopes = Known(scope)]
          /\ disk' = [disk EXCEPT !.candidate = DigestIn(operator'.scopes, scope)]
          /\ world' = world
      BY <1>3 DEF BuildCandidate
    <2>2. /\ operator'.scopes = Known(scope) /\ operator'.approved = operator.approved
          /\ DOMAIN operator' = DOMAIN operator
          /\ disk'.shards = disk.shards /\ disk'.final = disk.final /\ DOMAIN disk' = DOMAIN disk
      BY <2>1 DEF StageInv, OperatorInv, DiskInv, DiskFields
    <2>3. disk'.candidate = DigestIn(Known(scope), scope)
      BY <2>1, <2>2 DEF StageInv, DiskInv, DiskFields
    <2>4. /\ Known(scope) \in Seq(ToSet(Known(scope))) /\ DigestIn(Known(scope), scope) \in DOMAIN Known(scope)
          /\ \A n \in DOMAIN operator.scopes : n \in DOMAIN Known(scope) /\ Known(scope)[n] = operator.scopes[n]
          /\ \A n \in DOMAIN Known(scope) : n \in DOMAIN operator.scopes \/ Known(scope)[n] = scope
      BY KnownGrows DEF StageInv, OperatorInv
    <2>5. \A n : ScopeOf(n)' = Known(scope)[n] /\ ScopeOf(n) = operator.scopes[n]
      BY <2>2 DEF ScopeOf
    <2>6. scope.commit = world.commit
      BY DEF Scope
    <2>7. SourceInv'
      BY <2>1 DEF StageInv, SourceInv
    <2>8. DiskInv'
      BY <2>2, <2>3, <2>4 DEF StageInv, DiskInv, Legal
    <2>9. OperatorInv'
      <3>1. \A n \in DOMAIN Known(scope) :
               Known(scope)[n].commit \in Nat /\ Known(scope)[n].commit <= world.commit
        BY <2>4, <2>5, <2>6 DEF StageInv, OperatorInv, SourceInv
      <3>2. QED
        BY <2>1, <2>2, <2>4, <2>5, <3>1 DEF StageInv, OperatorInv
    <2>10. ScopesGrow /\ CheckoutMoves
      BY <2>1, <2>2, <2>4 DEF ScopesGrow, CheckoutMoves
    <2>11. QED
      BY <1>1, <2>7, <2>8, <2>9, <2>10, RunUndisturbed DEF StageInv
  <1>4. QED
    BY <1>2, <1>3

\* Reading and approving a digest.
LEMMA ApprovingKeeps ==
  ASSUME StageInv, TrainInv, UNCHANGED trainVars, ReadCandidate \/ Finalize
  PROVE  StageInv' /\ TrainInv'
  <1>1. /\ world' = world /\ prep' = prep /\ DOMAIN disk' = DOMAIN disk /\ disk'.shards = disk.shards
        /\ disk'.candidate = disk.candidate /\ DOMAIN operator' = DOMAIN operator
        /\ operator'.scopes = operator.scopes /\ operator.approved \subseteq operator'.approved
    BY DEF ReadCandidate, Finalize, StageInv, DiskInv, DiskFields, OperatorInv
  <1>2. disk'.final = disk.final \/ (disk'.final = disk.candidate /\ disk.candidate # None
                                     /\ disk.candidate \in operator'.approved)
    BY DEF ReadCandidate, Finalize, StageInv, DiskInv, DiskFields, OperatorInv
  <1>3. \A n : ScopeOf(n)' = ScopeOf(n)
    BY <1>1 DEF ScopeOf
  <1>4. SourceInv' /\ PrepInv'
    BY <1>1 DEF StageInv, SourceInv, PrepInv, Legal
  <1>5. DiskInv'
    BY <1>1, <1>2 DEF StageInv, DiskInv, Legal
  <1>6. OperatorInv'
    BY <1>1, <1>3 DEF StageInv, OperatorInv
  <1>7. ScopesGrow /\ CheckoutMoves
    BY <1>1 DEF ScopesGrow, CheckoutMoves
  <1>8. QED
    BY <1>4, <1>5, <1>6, <1>7, RunUndisturbed DEF StageInv

LEMMA StageKeeps ==
  ASSUME StageInv, TrainInv, UNCHANGED trainVars, StageNext
  PROVE  StageInv' /\ TrainInv'
  BY SurroundingsKeep, CommitKeeps, StopKeeps, BeginKeeps, ReadingKeeps, PlanKeeps, PublishingKeeps,
     BuildCandidateKeeps, ApprovingKeeps DEF StageNext, Kill, DryRun

-----------------------------------------------------------------------------
(* The training process.                                                   *)

LEMMA StageStays ==
  ASSUME StageInv, UNCHANGED <<world, disk, prep, operator>>
  PROVE  StageInv' /\ \A n : ScopeOf(n)' = ScopeOf(n)
  <1>1. \A n : ScopeOf(n)' = ScopeOf(n)
    BY DEF ScopeOf
  <1>2. SourceInv' /\ PrepInv' /\ DiskInv' /\ OperatorInv'
    BY <1>1 DEF StageInv, SourceInv, PrepInv, DiskInv, OperatorInv, Legal
  <1>3. QED
    BY <1>1, <1>2 DEF StageInv

LEMMA IdleKeeps ==
  ASSUME StageInv, TrainInv, UNCHANGED <<world, disk, prep, operator, files>>, run' = NoRun
  PROVE  StageInv' /\ TrainInv'
  <1>1. run'.pc = "idle"
    BY DEF NoRun
  <1>2. QED
    BY <1>1, StageStays DEF TrainInv, RunInv, RegistryInv, FilesInv

\* A step of a run under its scope.
LEMMA RunKeeps ==
  ASSUME StageInv, TrainInv, UNCHANGED <<world, disk, prep, operator>>, FilesInv', run.pc # "idle",
         DOMAIN run' = RunFields, run'.scope = run.scope, run'.seed \in Seeds,
         run'.sampler \in Nat, run'.cursor \in Nat, run'.back \in Backs,
         run'.pc # "load" => run'.shard = ScopeOf(run.scope).artifacts.shard,
         run'.pc = "micro" =>
            /\ \A k \in 1 .. Accumulation : run'.window[k] \in ToSet(run'.shard)
            /\ run'.tokens + WindowTokens(run'.window) <= Ceiling
  PROVE  StageInv' /\ TrainInv'
  <1>1. StageInv' /\ \A n : ScopeOf(n)' = ScopeOf(n)
    BY StageStays
  <1>2. ScopeOf(run.scope)' = ScopeOf(run.scope)
    BY DEF ScopeOf
  <1>3. RunInv'
    BY <1>2 DEF TrainInv, RunInv, Legal, Certified, Seeds, Backs
  <1>4. RegistryInv'
    BY <1>2 DEF TrainInv, RegistryInv, MultiLane
  <1>5. QED
    BY <1>1, <1>3, <1>4 DEF TrainInv

LEMMA PreflightKeeps ==
  ASSUME StageInv, TrainInv, NEW request \in Requests, NEW from, Preflight(request, from)
  PROVE  StageInv' /\ TrainInv'
  <1>1. CASE run' = NoRun
    BY <1>1, IdleKeeps DEF Preflight
  <1>2. CASE run' # NoRun
    <2> DEFINE scope == ScopeOf(disk.final)
    <2>1. /\ Verified(scope)
          /\ DOMAIN run' = RunFields /\ run'.pc = "load" /\ run'.scope = disk.final
          /\ run'.seed = request.seed /\ run'.sampler = 0 /\ run'.cursor = 0 /\ run'.back = "idle"
          /\ UNCHANGED <<world, disk, prep, operator, files>>
      BY <1>2 DEF Preflight, RunFields
    <2>2. disk.final \in DOMAIN operator.scopes /\ disk.final \in operator.approved
      BY DEF Preflight, StageInv, DiskInv
    <2>3. /\ Coherent(scope, scope.artifacts, PinnedSnapshot, world.leak)
          /\ scope.artifacts.shard \in disk.shards
      BY <2>1 DEF Verified, CanHold
    <2>4. Certified(scope) /\ Legal(scope.artifacts.shard)
      BY <2>3, CoherentCertifies DEF StageInv, DiskInv
    <2>5. ScopeOf(run.scope)' = scope
      BY <2>1 DEF ScopeOf
    <2>6. RunInv'
      BY <2>1, <2>2, <2>4, <2>5 DEF RunInv, Seeds, Backs, Legal, Certified
    <2>7. RegistryInv'
      <3>1. MultiLane(scope.stage) => scope.artifacts.receipts.leak.registry = world.leak
        BY <2>3 DEF Coherent, LeakCoherent
      <3>2. QED
        BY <2>1, <2>5, <3>1 DEF RegistryInv, MultiLane
    <2>8. FilesInv'
      BY <2>1 DEF TrainInv, FilesInv, Seeds
    <2>9. QED
      BY <2>1, <2>6, <2>7, <2>8, StageStays DEF TrainInv
  <1>3. QED
    BY <1>1, <1>2

LEMMA LoadKeeps ==
  ASSUME StageInv, TrainInv, Load
  PROVE  StageInv' /\ TrainInv'
  <1>1. CASE run' = NoRun
    BY <1>1, IdleKeeps DEF Load, stageVars
  <1>2. CASE run' # NoRun
    <2> DEFINE shard == ScopeOf(run.scope).artifacts.shard
               c == files[run.from]
    <2>1. /\ run.pc = "load" /\ files' = files /\ UNCHANGED <<world, disk, prep, operator>>
          /\ run.from # None => run.from \in DOMAIN files
          /\ run' = IF run.from # None
                 THEN [run EXCEPT !.pc = "window", !.shard = shard, !.sampler = c.cursor, !.cursor = c.cursor,
                         !.step = c.step, !.tokens = c.tokens, !.weights = c.weights,
                         !.seed = c.seed, !.best = c.best, !.rows = output.rows]
                 ELSE [run EXCEPT !.pc = "window", !.shard = shard]
      BY <1>2 DEF Load, stageVars
    <2>2. /\ DOMAIN run = RunFields /\ run.seed \in Seeds /\ run.sampler \in Nat /\ run.cursor \in Nat
          /\ run.back \in Backs
      BY <2>1 DEF TrainInv, RunInv
    <2>3. /\ DOMAIN run' = RunFields /\ run'.pc = "window" /\ run'.shard = shard /\ run'.scope = run.scope
          /\ run'.back = run.back
      BY <2>1, <2>2 DEF RunFields
    <2>4. run'.seed \in Seeds /\ run'.sampler \in Nat /\ run'.cursor \in Nat
      <3>1. CASE run.from # None
        BY <2>1, <2>2, <3>1 DEF RunFields, TrainInv, FilesInv
      <3>2. CASE run.from = None
        BY <2>1, <2>2, <3>2 DEF RunFields
      <3>3. QED
        BY <3>1, <3>2
    <2>5. FilesInv'
      BY <2>1 DEF TrainInv, FilesInv, Seeds
    <2>6. QED
      BY <2>1, <2>2, <2>3, <2>4, <2>5, RunKeeps
  <1>3. QED
    BY <1>1, <1>2

LEMMA NextWindowKeeps ==
  ASSUME StageInv, TrainInv, NextWindow
  PROVE  StageInv' /\ TrainInv'
  <1> DEFINE n == Len(run.shard)
             w == WindowAt(run.shard, run.seed, run.sampler)
  <1>1. /\ run.pc = "window" /\ DOMAIN run = RunFields /\ run.seed \in Seeds
        /\ run.sampler \in Nat /\ run.cursor \in Nat
        /\ run.shard = ScopeOf(run.scope).artifacts.shard /\ Legal(run.shard) /\ run.back \in Backs
    BY DEF NextWindow, TrainInv, RunInv
  <1>2. UNCHANGED <<world, disk, prep, operator, files>>
    BY DEF NextWindow, stageVars
  <1>3. FilesInv'
    BY <1>2 DEF TrainInv, FilesInv, Seeds
  <1>4. Accumulation \in Nat \ {0}
    BY AccumulationAssumption
  <1>5. CASE run' = [run EXCEPT !.pc = "file", !.back = "end"]
    BY <1>1, <1>2, <1>3, <1>5, RunKeeps DEF RunFields, Backs
  <1>6. CASE run' = [run EXCEPT !.sampler = @ + Accumulation]
    BY <1>1, <1>2, <1>3, <1>4, <1>6, RunKeeps DEF RunFields
  <1>7. CASE /\ ~(run.sampler + Accumulation > n) /\ run.tokens + WindowTokens(w) <= Ceiling
             /\ run' = [run EXCEPT !.sampler = @ + Accumulation, !.window = w, !.pc = "micro"]
    <2>1. /\ n \in 0 .. Cardinality(DOMAIN Row) /\ DOMAIN run.shard = 1 .. n
      <3>1. IsFiniteSet(DOMAIN Row)
        BY RowAssumption
      <3>2. Cardinality(DOMAIN Row) \in Nat
        BY <3>1, FS_CardinalityType
      <3>3. QED
        BY <1>1, <3>2 DEF Legal
    <2>2. Order(run.seed, n) \in [1 .. n -> 1 .. n]
      <3>1. PICK q \in Requests : q.seed = run.seed
        BY <1>1 DEF Seeds
      <3>2. Order(q.seed, n) \in [1 .. n -> 1 .. n]
        BY <2>1, OrderAssumption
      <3>3. QED
        BY <3>1, <3>2
    <2>3. ASSUME NEW k \in 1 .. Accumulation
          PROVE  w[k] \in ToSet(run.shard)
      <3>1. run.sampler + k \in 1 .. n
        BY <1>1, <1>4, <1>7, <2>1
      <3>2. Order(run.seed, n)[run.sampler + k] \in DOMAIN run.shard
        BY <2>1, <2>2, <3>1
      <3>3. w[k] = run.shard[Order(run.seed, n)[run.sampler + k]]
        BY DEF WindowAt
      <3>4. QED
        BY <3>2, <3>3 DEF ToSet
    <2> HIDE DEF w
    <2>4. /\ DOMAIN run' = RunFields /\ run'.pc = "micro" /\ run'.scope = run.scope /\ run'.seed = run.seed
          /\ run'.sampler \in Nat /\ run'.cursor = run.cursor /\ run'.shard = run.shard
          /\ run'.window = w /\ run'.tokens = run.tokens /\ run'.back = run.back
      BY <1>1, <1>4, <1>7 DEF RunFields
    <2>5. QED
      BY <1>1, <1>2, <1>3, <1>7, <2>3, <2>4, RunKeeps
  <1>8. QED
    BY <1>5, <1>6, <1>7 DEF NextWindow

LEMMA MicrobatchKeeps ==
  ASSUME StageInv, TrainInv, Microbatch
  PROVE  StageInv' /\ TrainInv'
  <1>1. /\ run.pc = "micro" /\ DOMAIN run = RunFields /\ run.seed \in Seeds
        /\ run.sampler \in Nat /\ run.cursor \in Nat
        /\ run.shard = ScopeOf(run.scope).artifacts.shard /\ run.back \in Backs
        /\ \A k \in 1 .. Accumulation : run.window[k] \in ToSet(run.shard)
        /\ run.tokens + WindowTokens(run.window) <= Ceiling
    BY DEF Microbatch, TrainInv, RunInv
  <1>2. UNCHANGED <<world, disk, prep, operator, files>>
    BY DEF Microbatch, stageVars
  <1>3. FilesInv'
    BY <1>2 DEF TrainInv, FilesInv, Seeds
  <1>4. CASE run' = [run EXCEPT !.pc = "raised"]
    BY <1>1, <1>2, <1>3, <1>4, RunKeeps DEF RunFields
  <1>5. CASE run' = [run EXCEPT !.at = @ + 1]
    <2>1. /\ DOMAIN run' = RunFields /\ run'.pc = run.pc /\ run'.scope = run.scope /\ run'.seed = run.seed
          /\ run'.sampler = run.sampler /\ run'.cursor = run.cursor /\ run'.shard = run.shard
          /\ run'.window = run.window /\ run'.tokens = run.tokens /\ run'.back = run.back
      BY <1>1, <1>5 DEF RunFields
    <2>2. QED
      BY <1>1, <1>2, <1>3, <2>1, RunKeeps
  <1>6. CASE run' = [run EXCEPT !.at = 0, !.pc = "boundary", !.step = @ + 1,
                           !.tokens = @ + WindowTokens(run.window), !.cursor = run.sampler,
                           !.weights = Append(@, [lr |-> run.lr,
                               ids |-> [k \in 1 .. Accumulation |-> run.window[k].id]])]
    <2>1. /\ DOMAIN run' = RunFields /\ run'.pc = "boundary" /\ run'.scope = run.scope /\ run'.seed = run.seed
          /\ run'.sampler = run.sampler /\ run'.cursor = run.sampler /\ run'.shard = run.shard
          /\ run'.back = run.back
      BY <1>1, <1>6 DEF RunFields
    <2>2. QED
      BY <1>1, <1>2, <1>3, <2>1, RunKeeps
  <1>7. QED
    BY <1>4, <1>5, <1>6 DEF Microbatch

\* The rest of a run moves between the windows and the files.
LEMMA BetweenKeeps ==
  ASSUME StageInv, TrainInv, FilesInv', run.pc \notin {"idle", "load"}, UNCHANGED <<world, disk, prep, operator>>,
         DOMAIN run' = DOMAIN run, run'.pc # "micro", run'.back \in Backs,
         \A x \in {"scope", "seed", "sampler", "cursor", "shard"} : run'[x] = run[x]
  PROVE  StageInv' /\ TrainInv'
  <1>1. /\ DOMAIN run = RunFields /\ run.seed \in Seeds /\ run.sampler \in Nat /\ run.cursor \in Nat
        /\ run.shard = ScopeOf(run.scope).artifacts.shard
    BY DEF TrainInv, RunInv
  <1>2. /\ run'.scope = run.scope /\ run'.seed = run.seed /\ run'.sampler = run.sampler
        /\ run'.cursor = run.cursor /\ run'.shard = run.shard
    OBVIOUS
  <1>3. QED
    BY <1>1, <1>2, RunKeeps

LEMMA FileKeeps ==
  ASSUME StageInv, TrainInv, SaveFile \/ SaveIndex \/ Prune \/ WriteRows
  PROVE  StageInv' /\ TrainInv'
  <1>1. /\ run.pc \in {"file", "index", "prune"} /\ UNCHANGED <<world, disk, prep, operator>>
    BY DEF SaveFile, SaveIndex, Prune, WriteRows, stageVars
  <1>2. /\ DOMAIN run = RunFields /\ run.seed \in Seeds /\ run.cursor \in Nat /\ run.back \in Backs
    BY <1>1 DEF TrainInv, RunInv
  <1>3. CASE SaveFile
    <2>1. /\ files' = Write(Checkpoint(run.cursor)) /\ run' = [run EXCEPT !.pc = "index"]
      BY <1>3 DEF SaveFile
    <2>2. ASSUME NEW s \in DOMAIN files'
          PROVE  files'[s].seed \in Seeds /\ files'[s].cursor \in Nat
      <3>1. files'[s] = Checkpoint(run.cursor) \/ (s \in DOMAIN files /\ files'[s] = files[s])
        BY <2>1, <2>2 DEF Write
      <3>2. QED
        BY <1>2, <3>1 DEF Checkpoint, TrainInv, FilesInv
    <2>3. FilesInv'
      BY <2>2 DEF FilesInv, Seeds
    <2>4. QED
      BY <1>1, <1>2, <2>1, <2>3, BetweenKeeps DEF RunFields
  <1>4. CASE SaveIndex
    <2>1. /\ files' = files /\ DOMAIN run' = DOMAIN run /\ run'.pc = "prune" /\ run'.back = run.back
          /\ \A x \in {"scope", "seed", "sampler", "cursor", "shard"} : run'[x] = run[x]
      BY <1>2, <1>4 DEF SaveIndex, RunFields
    <2>2. FilesInv'
      BY <2>1 DEF TrainInv, FilesInv, Seeds
    <2>3. QED
      BY <1>1, <1>2, <2>1, <2>2, BetweenKeeps DEF Backs
  <1>5. CASE Prune
    <2> DEFINE s == Min(run.prune)
    <2>1. /\ run.pc = "prune" /\ files' = [t \in DOMAIN files \ {s} |-> files[t]]
          /\ run' = [run EXCEPT !.prune = @ \ {s}]
      BY <1>5 DEF Prune
    <2> HIDE DEF s
    <2>2. FilesInv'
      BY <2>1 DEF TrainInv, FilesInv, Seeds
    <2>3. QED
      BY <1>1, <1>2, <2>1, <2>2, BetweenKeeps DEF RunFields
  <1>6. CASE WriteRows
    <2>1. /\ files' = files /\ DOMAIN run' = DOMAIN run /\ run'.pc = run.back /\ run'.back = run.back
          /\ \A x \in {"scope", "seed", "sampler", "cursor", "shard"} : run'[x] = run[x]
      BY <1>2, <1>6 DEF WriteRows, RunFields
    <2>2. FilesInv'
      BY <2>1 DEF TrainInv, FilesInv, Seeds
    <2>3. QED
      BY <1>1, <1>2, <2>1, <2>2, BetweenKeeps DEF Backs
  <1>7. QED
    BY <1>3, <1>4, <1>5, <1>6

LEMMA EndingKeeps ==
  ASSUME StageInv, TrainInv,
         \/ \E loss \in Losses, decision \in {"continue", "paused", "failed"}, due \in BOOLEAN :
               Boundary(loss, decision, due)
         \/ Finish \/ Raise \/ Raised \/ KillRun
  PROVE  StageInv' /\ TrainInv'
  <1>1. /\ UNCHANGED <<world, disk, prep, operator, files>>
    BY DEF Boundary, Finish, Raise, Raised, KillRun, stageVars
  <1>2. FilesInv'
    BY <1>1 DEF TrainInv, FilesInv, Seeds
  <1>3. CASE run' = NoRun
    BY <1>1, <1>3, IdleKeeps
  <1>4. ASSUME NEW loss \in Losses, NEW decision \in {"continue", "paused", "failed"},
               NEW due \in BOOLEAN, Boundary(loss, decision, due)
        PROVE  StageInv' /\ TrainInv'
    <2>1. run.pc = "boundary" /\ DOMAIN run = RunFields
      BY <1>4 DEF Boundary, TrainInv, RunInv
    <2>2. /\ DOMAIN run' = DOMAIN run /\ run'.pc \in {"file", "window"} /\ run'.back \in Backs
          /\ \A x \in {"scope", "seed", "sampler", "cursor", "shard"} : run'[x] = run[x]
      BY <1>4, <2>1 DEF Boundary, RunFields, Backs
    <2>3. QED
      BY <1>1, <1>2, <2>1, <2>2, BetweenKeeps DEF Backs
  <1>5. CASE Raise
    <2>1. run.pc \notin {"idle", "load"} /\ DOMAIN run = RunFields /\ run.back \in Backs
      BY <1>5 DEF Raise, TrainInv, RunInv
    <2>2. /\ DOMAIN run' = DOMAIN run /\ run'.pc = "raised" /\ run'.back = run.back
          /\ \A x \in {"scope", "seed", "sampler", "cursor", "shard"} : run'[x] = run[x]
      BY <1>5, <2>1 DEF Raise, RunFields
    <2>3. QED
      BY <1>1, <1>2, <2>1, <2>2, BetweenKeeps DEF Backs
  <1>6. CASE Raised /\ run' # NoRun
    <2>1. run.pc = "raised" /\ DOMAIN run = RunFields
      BY <1>6 DEF Raised, TrainInv, RunInv
    <2>2. /\ DOMAIN run' = DOMAIN run /\ run'.pc = "file" /\ run'.back = "end"
          /\ \A x \in {"scope", "seed", "sampler", "cursor", "shard"} : run'[x] = run[x]
      BY <1>6, <2>1 DEF Raised, RunFields
    <2>3. QED
      BY <1>1, <1>2, <2>1, <2>2, BetweenKeeps DEF Backs
  <1>7. QED
    BY <1>3, <1>4, <1>5, <1>6 DEF Finish, KillRun

-----------------------------------------------------------------------------
(* Every step.                                                             *)

LEMMA FoundationStart == FoundationInit => StageInv /\ TrainInv
  <1> SUFFICES ASSUME FoundationInit PROVE StageInv /\ TrainInv
    OBVIOUS
  <1>1. /\ world.commit = 1 /\ world.tokenizer = 1 /\ world.data = Initial
        /\ DOMAIN world = {"data", "meta", "leak", "broken", "tokenizer", "commit", "dirty"}
    BY DEF FoundationInit, StageInit
  <1>2. \A l \in Lanes(Stage) : <<"trace", l>> \in DOMAIN Initial
    BY SourcesAre, SourcesAssumption DEF Sources, Range
  <1>3. SourceInv
    BY <1>1, <1>2, SourcesAssumption DEF SourceInv
  <1>4. PrepInv
    BY DEF FoundationInit, StageInit, PrepInv, NoPreparation
  <1>5. DiskInv
    BY DEF FoundationInit, StageInit, DiskInv, DiskFields
  <1>6. OperatorInv
    <2>1. operator.scopes = <<>> /\ DOMAIN operator = {"scopes", "read", "approved", "changed"}
      BY DEF FoundationInit, StageInit
    <2>2. QED
      BY <2>1 DEF OperatorInv
  <1>7. TrainInv
    BY DEF FoundationInit, NoRun, TrainInv, RunInv, RegistryInv, FilesInv
  <1>8. QED
    BY <1>3, <1>4, <1>5, <1>6, <1>7 DEF StageInv

LEMMA FoundationStep == StageInv /\ TrainInv /\ [FoundationNext]_foundationVars => (StageInv /\ TrainInv)'
  <1> SUFFICES ASSUME StageInv, TrainInv, [FoundationNext]_foundationVars PROVE StageInv' /\ TrainInv'
    OBVIOUS
  <1>1. CASE StageNext /\ UNCHANGED trainVars
    BY <1>1, StageKeeps
  <1>2. CASE Train
    BY <1>2, PreflightKeeps, LoadKeeps, NextWindowKeeps, MicrobatchKeeps, FileKeeps, EndingKeeps DEF Train
  <1>3. CASE UNCHANGED foundationVars
    <2>1. UNCHANGED <<world, disk, prep, operator, run, files>>
      BY <1>3 DEF foundationVars, stageVars, trainVars
    <2>2. ScopesGrow /\ CheckoutMoves
      BY <2>1 DEF ScopesGrow, CheckoutMoves
    <2>3. UNCHANGED trainVars
      BY <1>3 DEF foundationVars
    <2>4. QED
      BY <2>1, <2>2, <2>3, StageStays, RunUndisturbed
  <1>4. QED
    BY <1>1, <1>2, <1>3 DEF FoundationNext

LEMMA FoundationHolds == StageInv /\ TrainInv => TrainedIsAuthorized
  <1> SUFFICES ASSUME StageInv, TrainInv, run.pc = "micro" PROVE TrainedIsAuthorized
    BY DEF TrainedIsAuthorized
  <1> DEFINE scope == ScopeOf(run.scope)
  <1>1. /\ run.scope \in operator.approved /\ Certified(scope)
        /\ \A k \in 1 .. Accumulation : run.window[k] \in ToSet(scope.artifacts.shard)
        /\ run.tokens + WindowTokens(run.window) <= Ceiling
    BY DEF TrainInv, RunInv
  <1>2. (MultiLane(scope.stage) /\ world.commit = scope.commit /\ ~world.dirty)
           => world.leak = scope.artifacts.receipts.leak.registry
    BY DEF TrainInv, RegistryInv
  <1>3. QED
    BY <1>1, <1>2 DEF TrainedIsAuthorized, Certified

(* A record on which weights are trained was authorized: it is of a scope    *)
(* that the operator approved, in the train split, disjoint from that        *)
(* scope's evaluations and, while the checkout is still the approved one,    *)
(* from its leakage registry; and the run stays under the token ceiling      *)
(* (verify_foundation_authorization, runner, dataset).  For any rows,        *)
(* families, orders, edits of sources, registry, tokenizer and checkout,     *)
(* kills and resumptions.                                                    *)
THEOREM TrainingIsAuthorized == FoundationSpec => []TrainedIsAuthorized
  BY FoundationStart, FoundationStep, FoundationHolds, PTL DEF FoundationSpec

-----------------------------------------------------------------------------
(* Checkpoints: what a run has trained is a beginning of its schedule.       *)

\* A shard that stays under the ceiling as a whole.
Sized(shard) ==
    /\ Legal(shard) /\ \A r \in ToSet(shard) : r.tokens \in Nat
    /\ TokenTotal(ToSet(shard)) <= Ceiling

\* The first m records in the order of a seed.
Taken(shard, seed, m) == [k \in 1 .. m |-> shard[Order(seed, Len(shard))[k]]]

\* The progress c, of a run or of a checkpoint: complete windows, none skipped.
Exact(shard, c, lr) ==
    /\ c.seed \in Seeds /\ c.step \in Nat /\ c.best \in Nat
    /\ c.cursor = c.step * Accumulation /\ c.cursor <= Len(shard)
    /\ c.weights = Schedule(shard, c.seed, lr, c.step)
    /\ c.tokens = WindowTokens(Taken(shard, c.seed, c.cursor))

ShardIn(n) == operator.scopes[n].artifacts.shard

FilesExact ==
    \A s \in DOMAIN files :
        /\ s \in Nat /\ files[s].step = s
        /\ files[s].bindings.scope \in DOMAIN operator.scopes
        /\ Exact(ShardIn(files[s].bindings.scope), files[s], files[s].lr)

\* Where the sampler is ahead of the progress, and where it is not.
SamplerInv ==
    /\ (\/ run.pc \in {"load", "window", "boundary"}
        \/ run.pc \in {"file", "index", "prune"} /\ run.back = "window") => run.sampler = run.cursor
    /\ run.pc = "micro" =>
          /\ run.sampler = run.cursor + Accumulation /\ run.sampler <= Len(ShardIn(run.scope))
          /\ run.window = WindowAt(ShardIn(run.scope), run.seed, run.cursor)

RunExact ==
    run.pc # "idle" => Sized(ShardIn(run.scope)) /\ Exact(ShardIn(run.scope), run, run.lr) /\ SamplerInv

\* The index has one record of a step, and none of a file about to be unlinked.
IndexExact ==
    /\ \A r \in index : r.step \in DOMAIN files /\ r.value \in Nat
    /\ \A r, s \in index : r.step = s.step => r = s
    /\ run.pc = "index" => run.step \in DOMAIN files
    /\ run.pc = "prune" => run.prune \subseteq Nat /\ \A r \in index : r.step \notin run.prune

ExactInv == FilesExact /\ RunExact /\ IndexExact

LEMMA CoherentSizes ==
  ASSUME NEW scope, NEW tokenizer \in Nat, NEW leak, Coherent(scope, scope.artifacts, tokenizer, leak),
         Legal(scope.artifacts.shard)
  PROVE  Sized(scope.artifacts.shard)
  <1> DEFINE h == scope.artifacts
  <1>1. Range(h.shard) = ToSet(h.shard)
    BY DEF Range, ToSet
  <1>2. ASSUME NEW r \in ToSet(h.shard) PROVE r.tokens \in Nat
    <2>1. r.tokens = Tokens(r.id, tokenizer)
      BY <1>1, <1>2 DEF Coherent, JoinCoherent, Rendered
    <2>2. Row[r.id].size \in Nat
      BY <1>2, RowAssumption DEF Legal
    <2>3. QED
      BY <2>1, <2>2 DEF Tokens
  <1>3. TokenTotal(ToSet(h.shard)) <= Ceiling
    BY <1>1 DEF Coherent, ShardCoherent, Inventory
  <1>4. QED
    BY <1>2, <1>3 DEF Sized

LEMMA OrderIs ==
  ASSUME NEW seed \in Seeds, NEW shard, Legal(shard)
  PROVE  /\ Len(shard) \in Nat /\ DOMAIN shard = 1 .. Len(shard)
         /\ Order(seed, Len(shard)) \in [1 .. Len(shard) -> 1 .. Len(shard)]
         /\ \A i, j \in 1 .. Len(shard) :
               Order(seed, Len(shard))[i] = Order(seed, Len(shard))[j] => i = j
  <1>1. Len(shard) \in Nat /\ DOMAIN shard = 1 .. Len(shard)
    BY DEF Legal
  <1>2. Cardinality(DOMAIN Row) \in Nat
    BY RowAssumption, FS_CardinalityType
  <1>3. Len(shard) \in 0 .. Cardinality(DOMAIN Row)
    BY <1>1, <1>2 DEF Legal
  <1>4. PICK q \in Requests : q.seed = seed
    BY DEF Seeds
  <1>5. Order(q.seed, Len(shard)) \in [1 .. Len(shard) -> 1 .. Len(shard)] /\ IsInjective(Order(q.seed, Len(shard)))
    BY <1>3, OrderAssumption
  <1>6. QED
    BY <1>1, <1>4, <1>5 DEF IsInjective

\* A window after the first m records: its tokens add up, and it always fits.
LEMMA WindowFits ==
  ASSUME NEW seed \in Seeds, NEW shard, Sized(shard), NEW m \in Nat, m + Accumulation <= Len(shard)
  PROVE  /\ WindowTokens(Taken(shard, seed, m)) + WindowTokens(WindowAt(shard, seed, m))
               = WindowTokens(Taken(shard, seed, m + Accumulation))
         /\ WindowTokens(Taken(shard, seed, m)) + WindowTokens(WindowAt(shard, seed, m)) <= Ceiling
  <1> DEFINE n == Len(shard)
             order == Order(seed, n)
             first == [i \in 1 .. m |-> shard[order[i]]]
             both == [i \in 1 .. m + Accumulation |-> shard[order[i]]]
             next == [i \in 1 .. Accumulation |-> shard[order[m + i]]]
  <1>1. /\ n \in Nat /\ DOMAIN shard = 1 .. n /\ order \in [1 .. n -> 1 .. n]
        /\ \A i, j \in 1 .. n : order[i] = order[j] => i = j
    BY OrderIs DEF Sized
  <1>2. shard \in [1 .. n -> ToSet(shard)] /\ \A i, j \in 1 .. n : shard[i] = shard[j] => i = j
    BY <1>1 DEF Sized, Legal
  <1>3. \A i \in 1 .. n : shard[i].tokens \in Nat
    BY <1>2 DEF Sized
  <1>4. Accumulation \in Nat
    BY AccumulationAssumption
  <1>5. /\ Taken(shard, seed, m) = first /\ Taken(shard, seed, m + Accumulation) = both
        /\ WindowAt(shard, seed, m) = next
    BY DEF Taken, WindowAt
  <1>6. m + Accumulation <= n
    OBVIOUS
  <1> HIDE DEF n, order
  <1>7. /\ WindowTokens(first) \in Nat /\ WindowTokens(next) \in Nat
        /\ WindowTokens(both) = WindowTokens(first) + WindowTokens(next)
        /\ WindowTokens(both) <= TokenTotal(ToSet(shard)) /\ TokenTotal(ToSet(shard)) \in Nat
    BY <1>1, <1>2, <1>3, <1>4, <1>6, TokensAddUp
  <1> HIDE DEF first, next, both
  <1>8. Ceiling \in Nat /\ TokenTotal(ToSet(shard)) <= Ceiling
    BY CeilingAssumption DEF Sized
  <1>9. QED
    BY <1>5, <1>7, <1>8

\* What training a window appends to the weights.
Trained(lr, window) == [lr |-> lr, ids |-> [k \in 1 .. Accumulation |-> window[k].id]]

LEMMA ScheduleGrows ==
  ASSUME NEW shard, NEW seed, NEW lr, NEW step \in Nat
  PROVE  Append(Schedule(shard, seed, lr, step), Trained(lr, WindowAt(shard, seed, step * Accumulation)))
            = Schedule(shard, seed, lr, step + 1)
  <1> DEFINE Entry(s) == [lr |-> lr, ids |-> [k \in 1 .. Accumulation |->
                             WindowAt(shard, seed, (s - 1) * Accumulation)[k].id]]
             old == Schedule(shard, seed, lr, step)
             X == {Entry(s) : s \in 1 .. step + 1}
  <1>1. (step + 1) - 1 = step
    OBVIOUS
  <1>2. Trained(lr, WindowAt(shard, seed, step * Accumulation)) = Entry(step + 1)
    BY <1>1 DEF Trained
  <1>3. old = [s \in 1 .. step |-> Entry(s)] /\ Schedule(shard, seed, lr, step + 1) = [s \in 1 .. step + 1 |-> Entry(s)]
    BY DEF Schedule
  <1> HIDE DEF Entry
  <1>4. old \in Seq(X) /\ Len(old) = step
    BY <1>3
  <1> HIDE DEF old, X
  <1>5. Append(old, Entry(step + 1)) = [s \in 1 .. step + 1 |-> Entry(s)]
    <2>1. /\ DOMAIN Append(old, Entry(step + 1)) = 1 .. step + 1
          /\ \A s \in 1 .. step + 1 : Append(old, Entry(step + 1))[s] = IF s <= step THEN old[s] ELSE Entry(step + 1)
          /\ Append(old, Entry(step + 1)) = [s \in 1 .. step + 1 |-> Append(old, Entry(step + 1))[s]]
      BY <1>4
    <2>2. \A s \in 1 .. step + 1 : Append(old, Entry(step + 1))[s] = Entry(s)
      BY <1>3, <2>1
    <2>3. QED
      BY <2>1, <2>2
  <1>6. QED
    BY <1>2, <1>3, <1>5 DEF old


LEMMA StageGrows ==
  ASSUME StageInv, StageNext
  PROVE  \A n \in DOMAIN operator.scopes : n \in DOMAIN operator'.scopes /\ operator'.scopes[n] = operator.scopes[n]
  <1> DEFINE Same == operator'.scopes = operator.scopes
             Grows == \A n \in DOMAIN operator.scopes :
                          n \in DOMAIN operator'.scopes /\ operator'.scopes[n] = operator.scopes[n]
  <1> USE DEF StageInv, OperatorInv
  <1>1. ASSUME Edit \/ Commit PROVE Same
    BY <1>1 DEF Edit, Commit, Disturb
  <1>2. ASSUME operator' = operator \/ Republished \/ ReadCandidate \/ Finalize PROVE Same
    BY <1>2 DEF Republished, ReadCandidate, Finalize
  <1>3. ASSUME BuildCandidate PROVE Grows
    <2> DEFINE scope == Scope(ShardOf(prep.plan.selected))
    <2>1. operator' = operator \/ operator' = [operator EXCEPT !.changed = FALSE, !.scopes = Known(scope)]
      BY <1>3 DEF BuildCandidate
    <2>2. operator' = operator \/ operator'.scopes = Known(scope)
      BY <2>1
    <2> HIDE DEF scope
    <2>3. QED
      BY <2>2, KnownGrows
  <1>4. CASE \/ \E i \in NewRows, reported \in BOOLEAN : AppendTrace(i, reported)
             \/ \E e \in NewIdentities : AppendIdentity(e)
             \/ \E d \in NewLeaks : EditRegistry(d)
             \/ \E file \in {"license", "suite"} : EditPolicy(file)
             \/ Commit \/ ChangeTokenizer
             \/ \E s \in disk.shards : DamageShard(s)
    BY <1>1, <1>4 DEF AppendTrace, AppendIdentity, EditRegistry, EditPolicy, ChangeTokenizer, DamageShard
  <1>5. CASE Kill \/ (\E dry \in BOOLEAN : Begin(dry)) \/ ReadPolicy \/ VerifyTokenizer \/ LoadTokenizer
             \/ ReadSource \/ Plan \/ DryRun \/ CheckSources
    <2>1. operator' = operator
      BY <1>5 DEF Kill, Stop, Begin, ReadPolicy, VerifyTokenizer, LoadTokenizer, ReadSource, Plan, DryRun,
                  CheckSources, Rest
    <2>2. QED
      BY <1>2, <2>1
  <1>6. CASE PublishConversion \/ PublishEvalIndex \/ PublishShard \/ PublishManifest \/ PublishReceipts
    <2>1. Republished
      BY <1>6 DEF PublishConversion, PublishEvalIndex, PublishShard, PublishManifest, PublishReceipts
    <2>2. QED
      BY <1>2, <2>1
  <1>7. QED
    BY <1>2, <1>3, <1>4, <1>5, <1>6 DEF StageNext

\* What happens beside a run leaves its shard, and its files, as they are.
LEMMA ExactUndisturbed ==
  ASSUME StageInv, TrainInv, ExactInv, UNCHANGED trainVars,
         \A n \in DOMAIN operator.scopes : n \in DOMAIN operator'.scopes /\ operator'.scopes[n] = operator.scopes[n]
  PROVE  ExactInv'
  <1>1. run' = run /\ files' = files /\ index' = index
    BY DEF trainVars
  <1>2. \A n \in DOMAIN operator.scopes : ShardIn(n)' = ShardIn(n)
    BY DEF ShardIn
  <1>3. FilesExact'
    <2> SUFFICES ASSUME NEW s \in DOMAIN files
                 PROVE  /\ s \in Nat /\ files[s].step = s
                        /\ files[s].bindings.scope \in DOMAIN operator'.scopes
                        /\ Exact(operator'.scopes[files[s].bindings.scope].artifacts.shard, files[s], files[s].lr)
      BY <1>1 DEF FilesExact, ShardIn
    <2>1. /\ s \in Nat /\ files[s].step = s /\ files[s].bindings.scope \in DOMAIN operator.scopes
          /\ Exact(operator.scopes[files[s].bindings.scope].artifacts.shard, files[s], files[s].lr)
      BY DEF ExactInv, FilesExact, ShardIn
    <2>2. QED
      BY <2>1
  <1>4. RunExact'
    <2>1. CASE run.pc = "idle"
      BY <1>1, <2>1 DEF RunExact
    <2>2. CASE run.pc # "idle"
      <3>1. run.scope \in DOMAIN operator.scopes
        BY <2>2 DEF TrainInv, RunInv
      <3>2. operator'.scopes[run.scope].artifacts.shard = operator.scopes[run.scope].artifacts.shard
        BY <3>1
      <3>3. QED
        BY <1>1, <2>2, <3>2 DEF ExactInv, RunExact, ShardIn, SamplerInv
    <2>3. QED
      BY <2>1, <2>2
  <1>5. IndexExact'
    BY <1>1 DEF ExactInv, IndexExact
  <1>6. QED
    BY <1>3, <1>4, <1>5 DEF ExactInv


\* The same progress elsewhere.
LEMMA SameProgress ==
  ASSUME NEW shard, NEW c, NEW lr, Exact(shard, c, lr), NEW d, d.seed = c.seed, d.step = c.step,
         d.cursor = c.cursor, d.tokens = c.tokens, d.weights = c.weights, d.best \in Nat
  PROVE  Exact(shard, d, lr)
  BY DEF Exact

LEMMA FilesStay ==
  ASSUME ExactInv, UNCHANGED <<operator, files>>
  PROVE  FilesExact' /\ \A n : ShardIn(n)' = ShardIn(n)
  BY DEF ExactInv, FilesExact, ShardIn

LEMMA IdleExact ==
  ASSUME ExactInv, UNCHANGED <<operator, files, index>>, run' = NoRun
  PROVE  ExactInv'
  <1>1. run'.pc = "idle"
    BY DEF NoRun
  <1>2. IndexExact'
    BY <1>1 DEF ExactInv, IndexExact
  <1>3. QED
    BY <1>1, <1>2, FilesStay DEF ExactInv, RunExact

\* A step of a run that trains nothing and touches no file.
LEMMA MovesExact ==
  ASSUME ExactInv, run.pc # "idle", UNCHANGED <<operator, files>>, run'.scope = run.scope, run'.lr = run.lr,
         run'.seed = run.seed, run'.step = run.step, run'.cursor = run.cursor, run'.tokens = run.tokens,
         run'.weights = run.weights, run'.best \in Nat, SamplerInv', IndexExact'
  PROVE  ExactInv'
  <1>1. Sized(ShardIn(run.scope)) /\ Exact(ShardIn(run.scope), run, run.lr)
    BY DEF ExactInv, RunExact
  <1>2. Exact(ShardIn(run.scope), run', run.lr)
    BY <1>1, SameProgress
  <1>3. FilesExact' /\ ShardIn(run.scope)' = ShardIn(run.scope)
    BY FilesStay DEF ShardIn
  <1>4. RunExact'
    BY <1>1, <1>2, <1>3 DEF RunExact
  <1>5. QED
    BY <1>3, <1>4 DEF ExactInv

LEMMA PreflightExact ==
  ASSUME StageInv, TrainInv, ExactInv, NEW request \in Requests, NEW from, Preflight(request, from)
  PROVE  ExactInv'
  <1>1. CASE run' = NoRun
    BY <1>1, IdleExact DEF Preflight
  <1>2. CASE run' # NoRun
    <2> DEFINE scope == ScopeOf(disk.final)
               shard == scope.artifacts.shard
    <2>1. /\ Verified(scope) /\ run'.pc = "load" /\ run'.scope = disk.final /\ run'.lr = request.lr
          /\ run'.seed = request.seed /\ run'.sampler = 0 /\ run'.cursor = 0 /\ run'.step = 0
          /\ run'.tokens = 0 /\ run'.weights = <<>> /\ run'.best = Unmeasured
          /\ UNCHANGED <<operator, files, index>>
      BY <1>2 DEF Preflight
    <2>2. /\ Coherent(scope, scope.artifacts, PinnedSnapshot, world.leak) /\ Legal(shard)
          /\ PinnedSnapshot \in Nat
      BY <2>1 DEF Verified, CanHold, StageInv, DiskInv, SourceInv, PinnedSnapshot
    <2>3. Sized(shard)
      BY <2>2, CoherentSizes
    <2>4. Len(shard) \in Nat /\ Accumulation \in Nat
      BY <2>2, AccumulationAssumption DEF Legal
    <2> HIDE DEF shard
    <2>5. WindowTokens(Taken(shard, request.seed, 0)) = 0
      <3>1. DOMAIN Taken(shard, request.seed, 0) = {}
        BY DEF Taken
      <3>2. QED
        BY <3>1, NothingWeighs
    <2>6. Schedule(shard, request.seed, request.lr, 0) = <<>>
      BY DEF Schedule
    <2>7. Exact(shard, run', run'.lr)
      BY <2>1, <2>4, <2>5, <2>6 DEF Exact, Seeds, Unmeasured
    <2>8. FilesExact' /\ ShardIn(run.scope)' = shard
      BY <2>1, FilesStay DEF ShardIn, shard, ScopeOf
    <2>9. RunExact'
      BY <2>1, <2>3, <2>7, <2>8 DEF RunExact, SamplerInv
    <2>10. IndexExact'
      BY <2>1 DEF ExactInv, IndexExact
    <2>11. QED
      BY <2>8, <2>9, <2>10 DEF ExactInv
  <1>3. QED
    BY <1>1, <1>2

LEMMA LoadExact ==
  ASSUME StageInv, TrainInv, ExactInv, Load
  PROVE  ExactInv'
  <1>1. UNCHANGED <<operator, files, index>>
    BY DEF Load, stageVars
  <1>2. CASE run' = NoRun
    BY <1>1, <1>2, IdleExact
  <1>3. CASE run' # NoRun
    <2> DEFINE c == files[run.from]
               shard == ShardIn(run.scope)
    <2>1. /\ run.pc = "load" /\ DOMAIN run = RunFields
          /\ run.from # None => run.from \in DOMAIN files /\ Loadable(run, c)
          /\ run' = IF run.from # None
                 THEN [run EXCEPT !.pc = "window", !.shard = ScopeOf(run.scope).artifacts.shard,
                         !.sampler = c.cursor, !.cursor = c.cursor,
                         !.step = c.step, !.tokens = c.tokens, !.weights = c.weights,
                         !.seed = c.seed, !.best = c.best, !.rows = output.rows]
                 ELSE [run EXCEPT !.pc = "window", !.shard = ScopeOf(run.scope).artifacts.shard]
      BY <1>3 DEF Load, TrainInv, RunInv
    <2>2. Sized(shard) /\ Exact(shard, run, run.lr) /\ SamplerInv
      BY <2>1 DEF ExactInv, RunExact
    <2>3. run'.pc = "window" /\ run'.scope = run.scope /\ run'.lr = run.lr
      BY <2>1 DEF RunFields
    <2>4. Exact(shard, run', run.lr) /\ run'.sampler = run'.cursor
      <3>1. CASE run.from # None
        <4>1. /\ run'.seed = c.seed /\ run'.step = c.step /\ run'.cursor = c.cursor /\ run'.sampler = c.cursor
              /\ run'.tokens = c.tokens /\ run'.weights = c.weights /\ run'.best = c.best
          BY <2>1, <3>1 DEF RunFields
        <4>2. c.bindings.scope = run.scope /\ c.lr = run.lr
          BY <2>1, <3>1 DEF Loadable, Bindings
        <4>3. Exact(shard, c, run.lr)
          BY <2>1, <3>1, <4>2 DEF ExactInv, FilesExact
        <4>4. c.best \in Nat
          BY <4>3 DEF Exact
        <4>5. QED
          BY <4>1, <4>3, <4>4, SameProgress
      <3>2. CASE run.from = None
        <4>1. /\ run'.seed = run.seed /\ run'.step = run.step /\ run'.cursor = run.cursor
              /\ run'.sampler = run.sampler
              /\ run'.tokens = run.tokens /\ run'.weights = run.weights /\ run'.best = run.best
          BY <2>1, <3>2 DEF RunFields
        <4>2. run.best \in Nat /\ run.sampler = run.cursor
          BY <2>1, <2>2 DEF Exact, SamplerInv
        <4>3. QED
          BY <2>2, <4>1, <4>2, SameProgress
      <3>3. QED
        BY <3>1, <3>2
    <2>5. FilesExact' /\ ShardIn(run.scope)' = shard
      BY <1>1, <2>3, FilesStay DEF ShardIn
    <2>6. RunExact'
      BY <2>2, <2>3, <2>4, <2>5 DEF RunExact, SamplerInv
    <2>7. IndexExact'
      BY <1>1, <2>3 DEF ExactInv, IndexExact
    <2>8. QED
      BY <2>5, <2>6, <2>7 DEF ExactInv
  <1>4. QED
    BY <1>2, <1>3


\* What is the same of a run that is under way.
LEMMA RunIs ==
  ASSUME TrainInv, ExactInv, run.pc \notin {"idle", "load"}
  PROVE  /\ DOMAIN run = RunFields /\ run.shard = ShardIn(run.scope)
         /\ run.scope \in DOMAIN operator.scopes
         /\ Sized(run.shard) /\ Exact(run.shard, run, run.lr) /\ SamplerInv /\ run.seed \in Seeds
         /\ run.step \in Nat /\ run.cursor \in Nat /\ run.best \in Nat
  <1>1. /\ DOMAIN run = RunFields /\ run.shard = ShardIn(run.scope) /\ run.scope \in DOMAIN operator.scopes
        /\ run.seed \in Seeds /\ run.cursor \in Nat
    BY DEF TrainInv, RunInv, ShardIn, ScopeOf
  <1>2. Sized(run.shard) /\ Exact(run.shard, run, run.lr) /\ SamplerInv
    BY <1>1 DEF ExactInv, RunExact
  <1>3. run.step \in Nat /\ run.best \in Nat
    BY <1>2 DEF Exact
  <1>4. QED
    BY <1>1, <1>2, <1>3

\* No complete window is skipped: a shard under the ceiling never reaches it.
LEMMA NextWindowExact ==
  ASSUME StageInv, TrainInv, ExactInv, NextWindow
  PROVE  ExactInv'
  <1> DEFINE shard == run.shard
             w == WindowAt(shard, run.seed, run.sampler)
  <1>1. run.pc = "window" /\ UNCHANGED <<operator, files, index>>
    BY DEF NextWindow, stageVars
  <1>2. /\ DOMAIN run = RunFields /\ shard = ShardIn(run.scope) /\ Sized(shard) /\ Exact(shard, run, run.lr)
        /\ run.sampler = run.cursor /\ run.seed \in Seeds /\ run.cursor \in Nat /\ run.best \in Nat
    BY <1>1, RunIs DEF SamplerInv
  <1>3. Accumulation \in Nat \ {0} /\ Len(shard) \in Nat
    BY <1>2, AccumulationAssumption DEF Sized, Legal
  <1> HIDE DEF w
  <1>4. CASE run.sampler + Accumulation > Len(shard)
    <2>1. run' = [run EXCEPT !.pc = "file", !.back = "end"]
      BY <1>4 DEF NextWindow
    <2>2. /\ run'.scope = run.scope /\ run'.lr = run.lr /\ run'.seed = run.seed /\ run'.step = run.step
          /\ run'.cursor = run.cursor /\ run'.tokens = run.tokens /\ run'.weights = run.weights
          /\ run'.best = run.best /\ run'.pc = "file" /\ run'.back = "end"
      BY <1>2, <2>1 DEF RunFields
    <2>3. SamplerInv' /\ IndexExact'
      BY <1>1, <2>2 DEF SamplerInv, ExactInv, IndexExact
    <2>4. QED
      BY <1>1, <1>2, <2>2, <2>3, MovesExact
  <1>5. CASE ~(run.sampler + Accumulation > Len(shard))
    <2>1. run.cursor + Accumulation <= Len(shard)
      BY <1>2, <1>3, <1>5
    <2>2. WindowTokens(Taken(shard, run.seed, run.cursor)) + WindowTokens(WindowAt(shard, run.seed, run.cursor)) <= Ceiling
      BY <1>2, <1>3, <2>1, WindowFits
    <2>3. run.tokens + WindowTokens(w) <= Ceiling
      BY <1>2, <2>2 DEF Exact, w
    <2>4. run' = [run EXCEPT !.sampler = @ + Accumulation, !.window = w, !.pc = "micro"]
      BY <1>5, <2>3 DEF NextWindow, w
    <2>5. /\ run'.scope = run.scope /\ run'.lr = run.lr /\ run'.seed = run.seed /\ run'.step = run.step
          /\ run'.cursor = run.cursor /\ run'.tokens = run.tokens /\ run'.weights = run.weights
          /\ run'.best = run.best /\ run'.pc = "micro" /\ run'.sampler = run.cursor + Accumulation
          /\ run'.window = w
      BY <1>2, <2>4 DEF RunFields
    <2>6. ShardIn(run.scope)' = shard
      BY <1>1, <1>2, <2>5 DEF ShardIn
    <2>7. SamplerInv'
      BY <1>2, <2>1, <2>5, <2>6 DEF SamplerInv, w
    <2>8. IndexExact'
      BY <1>1, <2>5 DEF ExactInv, IndexExact
    <2>9. QED
      BY <1>1, <1>2, <2>5, <2>7, <2>8, MovesExact
  <1>6. QED
    BY <1>4, <1>5

LEMMA MicrobatchExact ==
  ASSUME StageInv, TrainInv, ExactInv, Microbatch
  PROVE  ExactInv'
  <1> DEFINE shard == run.shard
  <1>1. run.pc = "micro" /\ UNCHANGED <<operator, files, index>>
    BY DEF Microbatch, stageVars
  <1>2. /\ DOMAIN run = RunFields /\ shard = ShardIn(run.scope) /\ Sized(shard) /\ Exact(shard, run, run.lr)
        /\ run.sampler = run.cursor + Accumulation /\ run.sampler <= Len(shard)
        /\ run.window = WindowAt(shard, run.seed, run.cursor)
        /\ run.seed \in Seeds /\ run.cursor \in Nat /\ run.step \in Nat /\ run.best \in Nat
    BY <1>1, RunIs DEF SamplerInv
  <1>3. Accumulation \in Nat \ {0} /\ Len(shard) \in Nat
    BY <1>2, AccumulationAssumption DEF Sized, Legal
  <1>4. CASE run' = [run EXCEPT !.pc = "raised"] \/ run' = [run EXCEPT !.at = @ + 1]
    <2>1. /\ run'.scope = run.scope /\ run'.lr = run.lr /\ run'.seed = run.seed /\ run'.step = run.step
          /\ run'.cursor = run.cursor /\ run'.tokens = run.tokens /\ run'.weights = run.weights
          /\ run'.best = run.best /\ run'.pc \in {"raised", "micro"} /\ run'.sampler = run.sampler
          /\ run'.window = run.window
      BY <1>1, <1>2, <1>4 DEF RunFields
    <2>2. ShardIn(run.scope)' = shard
      BY <1>1, <1>2, <2>1 DEF ShardIn
    <2>3. SamplerInv'
      <3>1. /\ run'.sampler = run'.cursor + Accumulation /\ run'.sampler <= Len(shard)
            /\ run'.window = WindowAt(shard, run'.seed, run'.cursor)
        BY <1>2, <2>1
      <3>2. run'.pc \notin {"load", "window", "boundary", "file", "index", "prune"}
        BY <2>1
      <3> DEFINE there == ShardIn(run.scope)
      <3>3. /\ run'.sampler = run'.cursor + Accumulation /\ run'.sampler <= Len(there')
            /\ run'.window = WindowAt(there', run'.seed, run'.cursor)
        BY <2>2, <3>1
      <3> HIDE DEF there, shard
      <3>4. QED
        BY <3>2, <3>3 DEF SamplerInv, there
    <2>4. IndexExact'
      BY <1>1, <2>1 DEF ExactInv, IndexExact
    <2>5. QED
      BY <1>1, <1>2, <2>1, <2>3, <2>4, MovesExact
  <1>5. CASE run' = [run EXCEPT !.at = 0, !.pc = "boundary", !.step = @ + 1,
                           !.tokens = @ + WindowTokens(run.window), !.cursor = run.sampler,
                           !.weights = Append(@, [lr |-> run.lr,
                               ids |-> [k \in 1 .. Accumulation |-> run.window[k].id]])]
    <2> DEFINE entry == Trained(run.lr, run.window)
               taken == run.tokens + WindowTokens(run.window)
    <2>1. /\ run'.scope = run.scope /\ run'.lr = run.lr /\ run'.seed = run.seed /\ run'.step = run.step + 1
          /\ run'.cursor = run.sampler /\ run'.tokens = taken /\ run'.weights = Append(run.weights, entry)
          /\ run'.best = run.best /\ run'.pc = "boundary" /\ run'.sampler = run.sampler
      BY <1>2, <1>5 DEF RunFields, Trained
    <2>2. /\ run.cursor = run.step * Accumulation /\ run.weights = Schedule(shard, run.seed, run.lr, run.step)
          /\ run.tokens = WindowTokens(Taken(shard, run.seed, run.cursor))
      BY <1>2 DEF Exact
    <2>3. run.window = WindowAt(shard, run.seed, run.step * Accumulation)
      BY <1>2, <2>2
    <2>4. Append(run.weights, entry) = Schedule(shard, run.seed, run.lr, run.step + 1)
      <3>1. Append(Schedule(shard, run.seed, run.lr, run.step),
                   Trained(run.lr, WindowAt(shard, run.seed, run.step * Accumulation)))
               = Schedule(shard, run.seed, run.lr, run.step + 1)
        BY <1>2, ScheduleGrows
      <3>2. QED
        BY <2>2, <2>3, <3>1
    <2>5. taken = WindowTokens(Taken(shard, run.seed, run.cursor + Accumulation))
      BY <1>2, <1>3, <2>2, WindowFits
    <2>6. (run.step + 1) * Accumulation = run.step * Accumulation + Accumulation
      <3>1. \A a, b \in Nat : (a + 1) * b = a * b + b
        OBVIOUS
      <3>2. QED
        BY <1>2, <1>3, <3>1
    <2> HIDE DEF entry, taken
    <2>7. Exact(shard, run', run.lr)
      BY <1>2, <1>3, <2>1, <2>2, <2>4, <2>5, <2>6 DEF Exact
    <2>8. FilesExact' /\ ShardIn(run.scope)' = shard
      <3>1. FilesExact'
        BY <1>1, FilesStay
      <3>2. QED
        BY <1>1, <1>2, <2>1, <3>1 DEF ShardIn
    <2>9. SamplerInv' /\ IndexExact'
      BY <1>1, <2>1 DEF SamplerInv, ExactInv, IndexExact
    <2>10. RunExact'
      BY <1>2, <2>1, <2>7, <2>8, <2>9 DEF RunExact
    <2>11. QED
      BY <2>8, <2>9, <2>10 DEF ExactInv
  <1>6. QED
    BY <1>4, <1>5 DEF Microbatch

LEMMA BoundaryExact ==
  ASSUME StageInv, TrainInv, ExactInv,
         NEW loss \in Losses, NEW decision \in {"continue", "paused", "failed"}, NEW due \in BOOLEAN,
         Boundary(loss, decision, due)
  PROVE  ExactInv'
  <1> DEFINE rows == IF loss # Infinite THEN run.rows + 1 ELSE run.rows
             best == IF loss # Infinite /\ loss < run.best THEN loss ELSE run.best
             r == [run EXCEPT !.window = <<>>, !.rows = rows, !.best = best]
  <1>1. run.pc = "boundary" /\ UNCHANGED <<operator, files, index>>
    BY DEF Boundary, stageVars
  <1>2. /\ DOMAIN run = RunFields /\ run.sampler = run.cursor /\ run.best \in Nat
    BY <1>1, RunIs DEF SamplerInv
  <1>3. best \in Nat
    BY <1>2, LossesAssumption
  <1>4. \/ run' = [r EXCEPT !.status = decision, !.reason = decision, !.pc = "file", !.back = "end"]
        \/ run' = [r EXCEPT !.pc = IF due THEN "file" ELSE "window", !.back = "window"]
    BY <1>2 DEF Boundary, RunFields
  <1> HIDE DEF rows, best
  <1>5. /\ run'.scope = run.scope /\ run'.lr = run.lr /\ run'.seed = run.seed /\ run'.step = run.step
        /\ run'.cursor = run.cursor /\ run'.tokens = run.tokens /\ run'.weights = run.weights
        /\ run'.best = best /\ run'.pc \in {"file", "window"} /\ run'.sampler = run.sampler
    BY <1>2, <1>4 DEF RunFields
  <1>6. SamplerInv' /\ IndexExact'
    BY <1>1, <1>2, <1>5 DEF SamplerInv, ExactInv, IndexExact
  <1>7. QED
    BY <1>1, <1>3, <1>5, <1>6, MovesExact


\* What a file is written from is the progress, wherever the sampler is.
LEMMA SaveFileExact ==
  ASSUME StageInv, TrainInv, ExactInv, SaveFile
  PROVE  ExactInv'
  <1> DEFINE c == Checkpoint(run.cursor)
  <1>1. /\ run.pc = "file" /\ UNCHANGED <<operator, index>> /\ files' = Write(c)
        /\ run' = [run EXCEPT !.pc = "index"]
    BY DEF SaveFile, stageVars
  <1>2. /\ DOMAIN run = RunFields /\ run.shard = ShardIn(run.scope) /\ run.scope \in DOMAIN operator.scopes
        /\ Sized(run.shard) /\ Exact(run.shard, run, run.lr) /\ SamplerInv /\ run.step \in Nat /\ run.best \in Nat
    BY <1>1, RunIs
  <1>3. /\ run'.scope = run.scope /\ run'.lr = run.lr /\ run'.seed = run.seed /\ run'.step = run.step
        /\ run'.cursor = run.cursor /\ run'.tokens = run.tokens /\ run'.weights = run.weights
        /\ run'.best = run.best /\ run'.pc = "index" /\ run'.sampler = run.sampler /\ run'.back = run.back
    BY <1>1, <1>2 DEF RunFields
  <1>4. /\ c.bindings.scope = run.scope /\ c.lr = run.lr /\ c.seed = run.seed /\ c.step = run.step
        /\ c.cursor = run.cursor /\ c.tokens = run.tokens /\ c.weights = run.weights /\ c.best = run.best
    BY DEF Checkpoint, Bindings
  <1> HIDE DEF c
  <1>5. Exact(run.shard, c, c.lr) /\ Exact(run.shard, run', run.lr)
    BY <1>2, <1>3, <1>4, SameProgress
  <1>6. /\ DOMAIN files' = DOMAIN files \cup {run.step} /\ files'[run.step] = c
        /\ \A s \in DOMAIN files' : s # run.step => s \in DOMAIN files /\ files'[s] = files[s]
    BY <1>1 DEF Write
  <1>7. \A n : ShardIn(n)' = ShardIn(n)
    BY <1>1 DEF ShardIn
  <1>8. FilesExact'
    <2>1. ASSUME NEW s \in DOMAIN files'
          PROVE  /\ s \in Nat /\ files'[s].step = s
                 /\ files'[s].bindings.scope \in DOMAIN operator.scopes
                 /\ Exact(ShardIn(files'[s].bindings.scope), files'[s], files'[s].lr)
      <3>1. CASE s = run.step
        BY <1>2, <1>4, <1>5, <1>6, <3>1
      <3>2. CASE s # run.step
        BY <1>6, <3>2 DEF ExactInv, FilesExact
      <3>3. QED
        BY <3>1, <3>2
    <2>2. QED
      BY <1>1, <2>1 DEF FilesExact, ShardIn
  <1>9. RunExact'
    <2>1. ShardIn(run.scope)' = run.shard
      BY <1>1, <1>2, <1>3 DEF ShardIn
    <2>2. SamplerInv'
      BY <1>1, <1>2, <1>3 DEF SamplerInv
    <2>3. QED
      BY <1>2, <1>3, <1>5, <2>1, <2>2 DEF RunExact
  <1>10. IndexExact'
    <2>1. /\ \A r \in index : r.step \in DOMAIN files /\ r.value \in Nat
          /\ \A r, s \in index : r.step = s.step => r = s
      BY DEF ExactInv, IndexExact
    <2>2. QED
      BY <1>1, <1>3, <1>6, <2>1 DEF IndexExact
  <1>11. QED
    BY <1>8, <1>9, <1>10 DEF ExactInv

\* There is a best record: the earliest of those with the least value.
LEMMA BestIs ==
  ASSUME NEW records, records # {}, \A r \in records : r.step \in Nat /\ r.value \in Nat
  PROVE  Best(records) \in records
  <1> DEFINE values == {r.value : r \in records}
  <1>1. values \in SUBSET Nat /\ values # {}
    OBVIOUS
  <1> HIDE DEF values
  <1>2. PICK v \in values : \A w \in values : v <= w
    BY <1>1, LeastOf
  <1> DEFINE steps == {r.step : r \in {q \in records : q.value = v}}
  <1>3. \A r \in records : v <= r.value
    BY <1>2 DEF values
  <1>4. steps \in SUBSET Nat /\ steps # {}
    BY <1>2 DEF values
  <1> HIDE DEF steps
  <1>5. PICK t \in steps : \A u \in steps : t <= u
    BY <1>4, LeastOf
  <1>6. PICK b \in records : b.value = v /\ b.step = t
    BY <1>5 DEF steps
  <1>7. \A s \in records : s.value = v => t <= s.step
    BY <1>5 DEF steps
  <1>8. v \in Nat
    BY <1>6
  <1>9. \A s \in records : b.value < s.value \/ (b.value = s.value /\ b.step <= s.step)
    <2> SUFFICES ASSUME NEW s \in records PROVE b.value < s.value \/ (b.value = s.value /\ b.step <= s.step)
      OBVIOUS
    <2>1. s.value \in Nat /\ v <= s.value /\ (s.value = v => t <= s.step)
      BY <1>3, <1>7
    <2>2. v < s.value \/ v = s.value
      BY <1>8, <2>1
    <2>3. QED
      BY <1>6, <2>1, <2>2
  <1>10. QED
    BY <1>6, <1>9 DEF Best

\* The index keeps some of its records, and the files of the others may go.
LEMMA SaveIndexExact ==
  ASSUME StageInv, TrainInv, ExactInv, SaveIndex
  PROVE  ExactInv'
  <1> DEFINE records == Records(run.step, run.best)
             kept == Retained(records)
             gone == {r.step : r \in records \ kept}
  <1>1. /\ run.pc = "index" /\ UNCHANGED <<operator, files>> /\ index' = kept
        /\ run' = [run EXCEPT !.pc = "prune", !.prune = gone]
    BY DEF SaveIndex, stageVars
  <1>2. /\ DOMAIN run = RunFields /\ SamplerInv /\ run.step \in Nat /\ run.best \in Nat
    BY <1>1, RunIs
  <1>3. /\ run.step \in DOMAIN files /\ \A r \in index : r.step \in DOMAIN files /\ r.value \in Nat
        /\ \A r, s \in index : r.step = s.step => r = s
        /\ DOMAIN files \subseteq Nat
    BY <1>1 DEF ExactInv, IndexExact, FilesExact
  <1>4. /\ \A r \in records : r.step \in DOMAIN files /\ r.step \in Nat /\ r.value \in Nat
        /\ \A r, s \in records : r.step = s.step => r = s
        /\ records # {}
    <2> DEFINE new == [step |-> run.step, value |-> run.best]
    <2>1. new.step = run.step /\ new.value = run.best
      OBVIOUS
    <2>2. records = {r \in index : r.step # run.step} \cup {new}
      BY DEF Records
    <2> HIDE DEF new, records
    <2>3. QED
      BY <1>2, <1>3, <2>1, <2>2
  <1> HIDE DEF records
  <1>5. kept \subseteq records
    BY <1>4, BestIs DEF Retained
  <1> HIDE DEF kept
  <1>6. gone \subseteq Nat /\ \A r \in kept : r.step \notin gone
    BY <1>4, <1>5
  <1> HIDE DEF gone
  <1>7. /\ run'.scope = run.scope /\ run'.lr = run.lr /\ run'.seed = run.seed /\ run'.step = run.step
        /\ run'.cursor = run.cursor /\ run'.tokens = run.tokens /\ run'.weights = run.weights
        /\ run'.best = run.best /\ run'.pc = "prune" /\ run'.sampler = run.sampler /\ run'.back = run.back
        /\ run'.prune = gone
    BY <1>1, <1>2 DEF RunFields
  <1>8. SamplerInv'
    BY <1>1, <1>2, <1>7 DEF SamplerInv
  <1>9. IndexExact'
    BY <1>1, <1>4, <1>5, <1>6, <1>7 DEF IndexExact
  <1>10. QED
    BY <1>1, <1>2, <1>7, <1>8, <1>9, MovesExact

\* A file that goes is in no record.
LEMMA PruneExact ==
  ASSUME StageInv, TrainInv, ExactInv, Prune
  PROVE  ExactInv'
  <1> DEFINE s == Min(run.prune)
  <1>1. /\ run.pc = "prune" /\ run.prune # {} /\ UNCHANGED <<operator, index>>
        /\ files' = [t \in DOMAIN files \ {s} |-> files[t]]
        /\ run' = [run EXCEPT !.prune = @ \ {s}]
    BY DEF Prune, stageVars
  <1>2. /\ DOMAIN run = RunFields /\ run.shard = ShardIn(run.scope) /\ Sized(run.shard)
        /\ Exact(run.shard, run, run.lr) /\ SamplerInv /\ run.best \in Nat
    BY <1>1, RunIs
  <1>3. /\ run.prune \subseteq Nat /\ \A r \in index : r.step \notin run.prune
        /\ \A r \in index : r.step \in DOMAIN files /\ r.value \in Nat
        /\ \A r, q \in index : r.step = q.step => r = q
    BY <1>1 DEF ExactInv, IndexExact
  <1>4. s \in run.prune
    <2>1. PICK x \in run.prune : \A y \in run.prune : x <= y
      BY <1>1, <1>3, LeastOf
    <2>2. QED
      BY <2>1 DEF Min
  <1> HIDE DEF s
  <1>5. /\ run'.scope = run.scope /\ run'.lr = run.lr /\ run'.seed = run.seed /\ run'.step = run.step
        /\ run'.cursor = run.cursor /\ run'.tokens = run.tokens /\ run'.weights = run.weights
        /\ run'.best = run.best /\ run'.pc = "prune" /\ run'.sampler = run.sampler /\ run'.back = run.back
        /\ run'.prune = run.prune \ {s}
    BY <1>1, <1>2 DEF RunFields
  <1>6. FilesExact'
    BY <1>1 DEF ExactInv, FilesExact, ShardIn
  <1>7. RunExact'
    <2>1. ShardIn(run.scope)' = run.shard
      BY <1>1, <1>2, <1>5 DEF ShardIn
    <2>2. SamplerInv'
      BY <1>1, <1>2, <1>5 DEF SamplerInv
    <2>3. Exact(run.shard, run', run.lr)
      BY <1>2, <1>5, SameProgress
    <2>4. QED
      BY <1>2, <1>5, <2>1, <2>2, <2>3 DEF RunExact
  <1>8. IndexExact'
    <2>1. \A r \in index : r.step \in DOMAIN files'
      BY <1>1, <1>3, <1>4
    <2>2. QED
      BY <1>1, <1>3, <1>5, <2>1 DEF IndexExact
  <1>9. QED
    BY <1>6, <1>7, <1>8 DEF ExactInv

LEMMA WriteRowsExact ==
  ASSUME StageInv, TrainInv, ExactInv, WriteRows
  PROVE  ExactInv'
  <1>1. /\ run.pc = "prune" /\ UNCHANGED <<operator, files, index>>
        /\ run' = [run EXCEPT !.pc = run.back, !.last = run.step]
    BY DEF WriteRows, stageVars
  <1>2. /\ DOMAIN run = RunFields /\ SamplerInv /\ run.best \in Nat /\ run.back \in Backs
    BY <1>1, RunIs DEF TrainInv, RunInv
  <1>3. /\ run'.scope = run.scope /\ run'.lr = run.lr /\ run'.seed = run.seed /\ run'.step = run.step
        /\ run'.cursor = run.cursor /\ run'.tokens = run.tokens /\ run'.weights = run.weights
        /\ run'.best = run.best /\ run'.pc = run.back /\ run'.sampler = run.sampler /\ run'.back = run.back
    BY <1>1, <1>2 DEF RunFields
  <1>4. SamplerInv' /\ IndexExact'
    BY <1>1, <1>2, <1>3 DEF SamplerInv, Backs, ExactInv, IndexExact
  <1>5. QED
    BY <1>1, <1>2, <1>3, <1>4, MovesExact

LEMMA EndingExact ==
  ASSUME StageInv, TrainInv, ExactInv, Finish \/ Raise \/ Raised \/ KillRun
  PROVE  ExactInv'
  <1>1. UNCHANGED <<operator, files, index>> /\ run.pc # "idle"
    BY DEF Finish, Raise, Raised, KillRun, stageVars
  <1>2. CASE run' = NoRun
    BY <1>1, <1>2, IdleExact
  <1>3. CASE run' # NoRun
    <2>1. /\ run.pc \in {"window", "micro", "boundary", "index", "prune", "raised"}
          /\ \/ run' = [run EXCEPT !.pc = "raised"]
             \/ run' = [run EXCEPT !.pc = "file", !.back = "end", !.status = "failed"]
      BY <1>3 DEF Finish, Raise, Raised, KillRun
    <2>2. DOMAIN run = RunFields /\ run.best \in Nat
      BY <2>1, RunIs
    <2>3. run'.pc = "raised" \/ (run'.pc = "file" /\ run'.back = "end")
      BY <2>1, <2>2 DEF RunFields
    <2>4. /\ run'.scope = run.scope /\ run'.lr = run.lr /\ run'.seed = run.seed /\ run'.step = run.step
          /\ run'.cursor = run.cursor /\ run'.tokens = run.tokens /\ run'.weights = run.weights
          /\ run'.best = run.best
      BY <2>1, <2>2 DEF RunFields
    <2>5. SamplerInv' /\ IndexExact'
      BY <1>1, <2>3 DEF SamplerInv, ExactInv, IndexExact
    <2>6. QED
      BY <1>1, <2>2, <2>4, <2>5, MovesExact
  <1>4. QED
    BY <1>2, <1>3


LEMMA ExactStart == FoundationInit => ExactInv
  <1> SUFFICES ASSUME FoundationInit PROVE ExactInv
    OBVIOUS
  <1>1. DOMAIN files = {} /\ index = {} /\ run.pc = "idle"
    BY DEF FoundationInit, NoRun
  <1>2. QED
    BY <1>1 DEF ExactInv, FilesExact, RunExact, IndexExact

LEMMA ExactStep == StageInv /\ TrainInv /\ ExactInv /\ [FoundationNext]_foundationVars => ExactInv'
  <1> SUFFICES ASSUME StageInv, TrainInv, ExactInv, [FoundationNext]_foundationVars PROVE ExactInv'
    OBVIOUS
  <1>1. CASE StageNext /\ UNCHANGED trainVars
    BY <1>1, StageGrows, ExactUndisturbed
  <1>2. CASE Train
    <2>1. ASSUME NEW request \in Requests, NEW from, Preflight(request, from) PROVE ExactInv'
      BY <2>1, PreflightExact
    <2>2. ASSUME NEW loss \in Losses, NEW decision \in {"continue", "paused", "failed"}, NEW due \in BOOLEAN,
                 Boundary(loss, decision, due)
          PROVE  ExactInv'
      BY <2>2, BoundaryExact
    <2>3. CASE Load \/ NextWindow \/ Microbatch
      BY <2>3, LoadExact, NextWindowExact, MicrobatchExact
    <2>4. CASE SaveFile \/ SaveIndex \/ Prune \/ WriteRows
      BY <2>4, SaveFileExact, SaveIndexExact, PruneExact, WriteRowsExact
    <2>5. CASE Finish \/ Raise \/ Raised \/ KillRun
      BY <2>5, EndingExact
    <2>6. QED
      BY <1>2, <2>1, <2>2, <2>3, <2>4, <2>5 DEF Train
  <1>3. CASE UNCHANGED foundationVars
    BY <1>3, ExactUndisturbed DEF foundationVars, stageVars
  <1>4. QED
    BY <1>1, <1>2, <1>3 DEF FoundationNext

LEMMA ExactHolds == ExactInv => CheckpointsExact
  <1> SUFFICES ASSUME ExactInv PROVE CheckpointsExact
    OBVIOUS
  <1>1. ASSUME NEW s \in DOMAIN files
        PROVE  LET c == files[s]
                   shard == ScopeOf(c.bindings.scope).artifacts.shard
               IN  /\ c.weights = Schedule(shard, c.seed, c.lr, c.step)
                   /\ c.tokens = FoldSeq(LAMBDA r, n : n + r.tokens, 0,
                          [k \in 1 .. c.step * Accumulation |-> shard[Order(c.seed, Len(shard))[k]]])
    <2> DEFINE c == files[s]
               shard == ShardIn(c.bindings.scope)
    <2>1. Exact(shard, c, c.lr)
      BY DEF ExactInv, FilesExact
    <2>2. /\ c.weights = Schedule(shard, c.seed, c.lr, c.step)
          /\ c.tokens = WindowTokens(Taken(shard, c.seed, c.step * Accumulation))
      BY <2>1 DEF Exact
    <2>3. QED
      BY <2>2 DEF ShardIn, ScopeOf, WindowTokens, Taken
  <1>2. \A r \in index : r.step \in DOMAIN files
    BY DEF ExactInv, IndexExact
  <1>3. QED
    BY <1>1, <1>2 DEF CheckpointsExact

(* What is in a checkpoint was trained: its weights are exactly the first    *)
(* windows of the order of its seed over the shard of the scope it is bound  *)
(* to, its tokens are theirs, and index.json names only files that exist     *)
(* (DeterministicSampler, run_foundation_training, CheckpointManager).  For  *)
(* any rows, orders, accumulations, losses, retentions, edits, pauses,       *)
(* failures, kills and resumptions from any checkpoint file.                 *)
THEOREM CheckpointsAreExact == FoundationSpec => []CheckpointsExact
  <1> DEFINE Inv == StageInv /\ TrainInv /\ ExactInv
  <1>1. FoundationInit => Inv
    BY FoundationStart, ExactStart
  <1>2. Inv /\ [FoundationNext]_foundationVars => Inv'
    BY FoundationStep, ExactStep
  <1>3. Inv => CheckpointsExact
    BY ExactHolds
  <1> HIDE DEF Inv
  <1>4. QED
    BY <1>1, <1>2, <1>3, PTL DEF FoundationSpec

-----------------------------------------------------------------------------
(* Preparation and validation: sums over what was selected.                  *)

LEMMA TotalWith ==
  ASSUME NEW R, IsFiniteSet(R), \A q \in R : q.tokens \in Nat, NEW r \in R
  PROVE  TokenTotal(R) = TokenTotal(R \ {r}) + r.tokens /\ TokenTotal(R \ {r}) \in Nat
  <1> DEFINE A == R \ {r}
             w == [q \in R |-> q.tokens]
             v == [q \in A |-> q.tokens]
             same == [q \in A |-> q]
  <1>1. IsFiniteSet(A) /\ A \in SUBSET R /\ A \in SUBSET A /\ R \in SUBSET R /\ \A q \in A : q.tokens \in Nat
    BY FS_Subset
  <1>2. PICK g : Adds(g, w, R) /\ TokenTotal(R) = g[R]
    BY TotalIsSum
  <1>3. PICK h : Adds(h, v, A) /\ TokenTotal(A) = h[A]
    BY <1>1, TotalIsSum
  <1>4. w \in [R -> Nat] /\ v \in [A -> Nat] /\ w[r] = r.tokens
    OBVIOUS
  <1>5. Relabels(same, v, A, w, A)
    BY DEF Relabels
  <1>6. Weighs(g, w, R) /\ Weighs(h, v, A)
    BY <1>1, <1>2, <1>3, <1>4 DEF Weighs
  <1> HIDE DEF w, v, same
  <1>7. h[A] = g[A]
    BY <1>1, <1>5, <1>6, RenamedTotal
  <1>8. g[R] = g[A] + w[r]
    BY <1>1, <1>2, <1>4, AnyOrder
  <1>9. g[A] \in Nat
    BY <1>1, <1>6, TotalIsMost
  <1>10. QED
    BY <1>2, <1>3, <1>4, <1>7, <1>8, <1>9

\* Counting again what every record counted.
LEMMA RecountIsTotal ==
  ASSUME NEW h, NEW tokenizer, IsFiniteSet(Range(h.shard)),
         \A r \in Range(h.shard) : r.tokens \in Nat /\ r.tokens = Tokens(r.id, tokenizer)
  PROVE  Recount(h, tokenizer) = TokenTotal(Range(h.shard))
  <1> DEFINE R == Range(h.shard)
             w == [r \in R |-> r.tokens]
             Body(f) == [s \in SUBSET R |-> IF s = {} THEN 0
                           ELSE LET x == CHOOSE x \in s : TRUE IN f[s \ {x}] + Tokens(x.id, tokenizer)]
             Sums(f) == [s \in SUBSET R |-> IF s = {} THEN 0
                           ELSE LET x == CHOOSE x \in s : TRUE IN f[s \ {x}] + w[x]]
             k == CHOOSE f : f = Body(f)
  <1>1. w \in [R -> Nat]
    OBVIOUS
  <1>2. PICK g : Adds(g, w, R) /\ TokenTotal(R) = g[R]
    BY TotalIsSum
  <1>3. \A f : Body(f) = Sums(f)
    OBVIOUS
  <1>4. g = Sums(g)
    <2>1. g \in [SUBSET R -> Nat]
      BY <1>2 DEF Adds
    <2>2. ASSUME NEW s \in SUBSET R PROVE g[s] = Sums(g)[s]
      BY <1>2 DEF Adds
    <2>3. QED
      BY <2>1, <2>2
  <1>5. Recount(h, tokenizer) = k[R]
    BY DEF Recount, FoldSet, MapThenFoldSet
  <1>6. k = Body(k)
    <2>1. g = Body(g)
      BY <1>3, <1>4
    <2>2. QED
      BY <2>1
  <1>7. Adds(k, w, R)
    <2>1. k = Sums(k)
      BY <1>3, <1>6
    <2> HIDE DEF k
    <2>2. QED
      BY <1>1, <2>1, FoldAdds
  <1> DEFINE same == [r \in R |-> r]
  <1>8. Relabels(same, w, R, w, R) /\ R \in SUBSET R
    BY DEF Relabels
  <1>9. Weighs(g, w, R) /\ Weighs(k, w, R)
    BY <1>1, <1>2, <1>7 DEF Weighs
  <1> HIDE DEF k, w, same
  <1>10. g[R] = k[R]
    BY <1>8, <1>9, RenamedTotal
  <1>11. QED
    BY <1>2, <1>5, <1>10

\* Both anchors, then what still fits: the last one taken fitted.
LEMMA SelectionFits ==
  ASSUME NEW records, IsFiniteSet(records), \A r \in records : r.tokens \in Nat /\ r.id \in Nat,
         \A r, s \in records : r.id = s.id => r = s,
         SelectionOK(records), NEW chosen \in Selections(records)
  PROVE  /\ chosen \subseteq Trainable(records) /\ IsFiniteSet(chosen)
         /\ TokenTotal(chosen) <= Ceiling
  <1> DEFINE train == Trainable(records)
             anchors == Anchors(train)
             Earlier(r) == anchors \cup {s \in chosen : s.id < r.id}
             Later(r) == {s \in chosen : s.id > r.id}
             rest == chosen \ anchors
  <1>1. /\ chosen \subseteq train /\ anchors \subseteq chosen
        /\ \A r \in train \ anchors : r \in chosen <=> TokenTotal(Earlier(r)) + r.tokens <= Ceiling
    BY DEF Selections
  <1>2. train \subseteq records
    BY DEF Trainable
  <1>3. IsFiniteSet(chosen)
    BY <1>1, <1>2, FS_Subset
  <1>4. \A r \in chosen : r.tokens \in Nat /\ r.id \in Nat
    BY <1>1, <1>2
  <1>5. TokenTotal(anchors) <= Ceiling
    BY DEF SelectionOK
  <1> HIDE DEF train, anchors
  <1>6. CASE rest = {}
    <2>1. chosen = anchors
      BY <1>1, <1>6
    <2>2. QED
      BY <1>1, <1>3, <1>5, <2>1 DEF train
  <1>7. CASE rest # {}
    <2> DEFINE counts == {Cardinality(Later(r)) : r \in rest}
    <2>1. \A r \in chosen : IsFiniteSet(Later(r)) /\ Cardinality(Later(r)) \in Nat
      BY <1>3, FS_Subset, FS_CardinalityType
    <2>2. counts \in SUBSET Nat /\ counts # {}
      BY <1>7, <2>1
    <2> HIDE DEF counts
    <2>3. PICK c \in counts : \A d \in counts : c <= d
      BY <2>2, LeastOf
    <2>4. PICK r \in rest : c = Cardinality(Later(r))
      BY <2>3 DEF counts
    <2>5. ASSUME NEW s \in rest, s.id > r.id PROVE FALSE
      <3>1. Later(s) \in SUBSET Later(r) /\ s \in Later(r) /\ s \notin Later(s)
        BY <1>4, <2>5
      <3>2. Cardinality(Later(s)) <= Cardinality(Later(r)) /\ Cardinality(Later(s)) # Cardinality(Later(r))
        BY <2>1, <3>1, FS_Subset
      <3>3. Cardinality(Later(s)) \in counts
        BY <2>5 DEF counts
      <3> DEFINE a == Cardinality(Later(s))
                 b == Cardinality(Later(r))
      <3>4. a \in Nat /\ b \in Nat /\ b <= a /\ a <= b /\ a # b
        BY <2>1, <2>3, <2>4, <3>2, <3>3
      <3> HIDE DEF a, b
      <3>5. QED
        BY <3>4
    <2>6. chosen \ {r} = Earlier(r)
      <3>1. ASSUME NEW s \in chosen, s # r PROVE s \in Earlier(r)
        <4>1. s.id # r.id /\ s.id \in Nat /\ r.id \in Nat
          BY <1>1, <1>2, <1>4, <3>1
        <4>2. s \in rest => ~(s.id > r.id)
          BY <2>5
        <4>3. s \in rest => s.id < r.id
          BY <4>1, <4>2
        <4>4. QED
          BY <3>1, <4>3
      <3>2. r \notin Earlier(r) /\ Earlier(r) \subseteq chosen
        BY <1>1, <1>4
      <3>3. QED
        BY <3>1, <3>2
    <2>7. TokenTotal(Earlier(r)) + r.tokens <= Ceiling
      BY <1>1
    <2>8. TokenTotal(chosen) = TokenTotal(chosen \ {r}) + r.tokens
      BY <1>3, <1>4, TotalWith
    <2>9. QED
      BY <1>1, <1>3, <2>6, <2>7, <2>8 DEF train
  <1>8. QED
    BY <1>6, <1>7

\* One selection among the records of some rows, and what is known of it.
Selects(rows, split, tokenizer, hashes, chosen) ==
    LET records == RenderedRecords(rows, split, tokenizer, hashes) IN
    /\ rows \in SUBSET DOMAIN Row /\ tokenizer \in Nat
    /\ SelectionOK(records) /\ chosen \in Selections(records)
ChosenAre(rows, split, tokenizer, hashes, chosen) ==
    LET records == RenderedRecords(rows, split, tokenizer, hashes) IN
    /\ IsFiniteSet(chosen) /\ Cardinality(chosen) \in Nat /\ Cardinality(records) \in Nat
    /\ Cardinality(chosen) <= Cardinality(records) /\ TokenTotal(chosen) <= Ceiling
    /\ \A r \in chosen : /\ r.id \in rows /\ r = Rendered(r.id, split[r.id], tokenizer, hashes)
                         /\ r.tokens \in Nat /\ r.tokens = Tokens(r.id, tokenizer)
                         /\ r.split = "train" /\ r.quarantine = None
    /\ Cardinality({r.id : r \in chosen}) = Cardinality(chosen)
    /\ ToSet(ShardOf(chosen)) = chosen /\ Len(ShardOf(chosen)) = Cardinality(chosen)

LEMMA SelectedIs ==
  ASSUME NEW rows, NEW split, NEW tokenizer, NEW hashes, NEW chosen,
         Selects(rows, split, tokenizer, hashes, chosen)
  PROVE  ChosenAre(rows, split, tokenizer, hashes, chosen)
  <1> DEFINE records == RenderedRecords(rows, split, tokenizer, hashes)
  <1>0. /\ rows \in SUBSET DOMAIN Row /\ tokenizer \in Nat
        /\ SelectionOK(records) /\ chosen \in Selections(records)
        /\ records = RenderedRecords(rows, split, tokenizer, hashes)
    BY DEF Selects
  <1> HIDE DEF records
  <1> DEFINE kept == FirstOfKind(rows)
             f == [i \in kept |-> Rendered(i, split[i], tokenizer, hashes)]
  <1>1. kept \in SUBSET DOMAIN Row /\ kept \subseteq rows
    BY <1>0 DEF FirstOfKind
  <1>2. IsFiniteSet(DOMAIN Row) /\ \A i \in DOMAIN Row : i \in Nat /\ Row[i].size \in Nat
    BY RowAssumption
  <1>3. IsFiniteSet(kept)
    BY <1>1, <1>2, FS_Subset
  <1>4. f \in Surjection(kept, records)
    BY <1>0 DEF RenderedRecords, Surjection
  <1>5. IsFiniteSet(records)
    BY <1>3, <1>4, FS_Surjection
  <1>6. \A r \in records : /\ r.id \in kept /\ r = Rendered(r.id, split[r.id], tokenizer, hashes)
                           /\ r.tokens = Tokens(r.id, tokenizer)
    BY <1>0 DEF RenderedRecords, Rendered
  <1>7. \A r, s \in records : r.id = s.id => r = s
    BY <1>6
  <1> HIDE DEF kept, f
  <1>8. \A r \in records : r.tokens \in Nat /\ r.id \in Nat /\ r.id \in rows
    BY <1>0, <1>1, <1>2, <1>6 DEF Tokens
  <1>9. /\ chosen \subseteq Trainable(records) /\ IsFiniteSet(chosen) /\ TokenTotal(chosen) <= Ceiling
    BY <1>0, <1>5, <1>7, <1>8, SelectionFits
  <1>10. chosen \in SUBSET records /\ \A r \in chosen : r.split = "train" /\ r.quarantine = None
    BY <1>9 DEF Trainable
  <1>11. Cardinality(chosen) \in Nat /\ Cardinality(records) \in Nat /\ Cardinality(chosen) <= Cardinality(records)
    BY <1>5, <1>9, <1>10, FS_Subset, FS_CardinalityType
  <1>12. Cardinality({r.id : r \in chosen}) = Cardinality(chosen)
    <2> DEFINE ids == {r.id : r \in chosen}
               g == [r \in chosen |-> r.id]
    <2>1. g \in Surjection(chosen, ids) /\ g \in Injection(chosen, ids)
      <3>1. g \in [chosen -> ids] /\ \A x \in ids : \E r \in chosen : g[r] = x
        OBVIOUS
      <3>2. \A r, s \in chosen : g[r] = g[s] => r = s
        BY <1>7, <1>10
      <3>3. QED
        BY <3>1, <3>2 DEF Injection, Surjection, IsInjective
    <2> HIDE DEF ids, g
    <2>2. Cardinality(chosen) = Cardinality(ids)
      BY <1>9, <2>1, FS_Surjection
    <2>3. QED
      BY <2>2 DEF ids
  <1>13. ToSet(ShardOf(chosen)) = chosen
    <2>1. (\A r \in chosen : r.id \in Nat) /\ \A r, s \in chosen : r.id = s.id => r = s
      BY <1>7, <1>8, <1>10
    <2>2. QED
      BY <1>9, <2>1, ShardIsAll
  <1>14. Len(ShardOf(chosen)) = Cardinality(chosen)
    BY <1>11 DEF ShardOf
  <1>15. QED
    BY <1>6, <1>8, <1>9, <1>10, <1>11, <1>12, <1>13, <1>14 DEF ChosenAre, records

\* The report of a lane is read just after its traces.
LEMMA ReportsFollow ==
  /\ \A l \in Lanes(Stage) : \E k \in DOMAIN SourceOrder(Stage) : SourceOrder(Stage)[k] = <<"report", l>>
  /\ \A l \in Lanes(Stage), k \in DOMAIN SourceOrder(Stage) :
        SourceOrder(Stage)[k] = <<"report", l>> =>
            k - 1 \in DOMAIN SourceOrder(Stage) /\ SourceOrder(Stage)[k - 1] = <<"trace", l>>
  <1> DEFINE order == SourceOrder(Stage)
             m == Cardinality(Families)
             Eval(k) == <<"eval", SetToSeq(Families)[k]>>
             U == {"trace", "report"} \X {"openhands", "ost"} \cup {Eval(k) : k \in 1 .. m}
  <1>1. m \in Nat
    BY FamiliesAssumption, FS_CardinalityType
  <1>2. EvalPaths \in Seq(U) /\ Len(EvalPaths) = m /\ \A k \in 1 .. m : EvalPaths[k] = Eval(k)
    <2>1. EvalPaths \in [1 .. m -> U] /\ \A k \in 1 .. m : EvalPaths[k] = Eval(k)
      BY DEF EvalPaths
    <2> HIDE DEF m, U
    <2>2. QED
      BY <1>1, <2>1
  <1>3. \A k : Eval(k)[1] = "eval"
    OBVIOUS
  <1> DEFINE first == << <<"trace", "openhands">>, <<"report", "openhands">> >>
             second == << <<"trace", "ost">>, <<"report", "ost">> >>
  <1>4. first \in Seq(U) /\ second \in Seq(U) /\ first \o second \in Seq(U)
        /\ Len(first) = 2 /\ Len(first \o second) = 4
        /\ (first \o second)[1] = <<"trace", "openhands">> /\ (first \o second)[2] = <<"report", "openhands">>
        /\ (first \o second)[3] = <<"trace", "ost">> /\ (first \o second)[4] = <<"report", "ost">>
        /\ first[1] = <<"trace", "openhands">> /\ first[2] = <<"report", "openhands">>
    OBVIOUS
  <1> DEFINE prefix == IF MultiLane(Stage) THEN first \o second ELSE first
             n == Len(prefix)
  <1>5. order = prefix \o EvalPaths
    <2>1. first \o <<>> = first
      OBVIOUS
    <2>2. QED
      BY <2>1 DEF SourceOrder, LanePaths
  <1>6. prefix \in Seq(U) /\ n = (IF MultiLane(Stage) THEN 4 ELSE 2)
    BY <1>4
  <1>7. /\ prefix[1] = <<"trace", "openhands">> /\ prefix[2] = <<"report", "openhands">>
        /\ MultiLane(Stage) => prefix[3] = <<"trace", "ost">> /\ prefix[4] = <<"report", "ost">>
    BY <1>4
  <1> HIDE DEF prefix, U, m, Eval
  <1>8. /\ DOMAIN order = 1 .. (n + m)
        /\ \A k \in 1 .. (n + m) : order[k] = IF k <= n THEN prefix[k] ELSE EvalPaths[k - n]
    <2> DEFINE all == prefix \o EvalPaths
    <2>1. prefix \in Seq(U) /\ EvalPaths \in Seq(U)
      BY <1>2, <1>6
    <2>2. /\ all \in Seq(U) /\ Len(all) = Len(prefix) + Len(EvalPaths)
          /\ \A i \in 1 .. Len(prefix) + Len(EvalPaths) :
                all[i] = IF i <= Len(prefix) THEN prefix[i] ELSE EvalPaths[i - Len(prefix)]
      BY ONLY <2>1, ConcatProperties, Zenon
    <2> HIDE DEF all
    <2>3. DOMAIN all = 1 .. Len(all)
      BY <2>2
    <2>4. order = all
      BY <1>5 DEF all
    <2> HIDE DEF order
    <2>5. QED
      BY <1>2, <2>2, <2>3, <2>4
  <1> HIDE DEF order, n
  <1>9. \A k \in DOMAIN order : k > n => order[k][1] = "eval"
    <2> SUFFICES ASSUME NEW k \in DOMAIN order, k > n PROVE order[k][1] = "eval"
      OBVIOUS
    <2>1. k - n \in 1 .. m /\ order[k] = EvalPaths[k - n]
      BY <1>1, <1>6, <1>8
    <2>2. QED
      BY <1>2, <1>3, <2>1
  <1>10. ASSUME NEW l \in Lanes(Stage)
         PROVE  \E k \in DOMAIN order : order[k] = <<"report", l>>
    <2>1. CASE l = "openhands"
      <3>1. 2 \in DOMAIN order /\ order[2] = prefix[2]
        BY <1>1, <1>6, <1>8
      <3>2. QED
        BY <1>7, <2>1, <3>1
    <2>2. CASE l = "ost"
      <3>1. MultiLane(Stage)
        BY <1>10, <2>2, LanesAre
      <3>2. 4 \in DOMAIN order /\ order[4] = prefix[4]
        BY <1>1, <1>6, <1>8, <3>1
      <3>3. QED
        BY <1>7, <2>2, <3>1, <3>2
    <2>3. QED
      BY <1>10, <2>1, <2>2, LanesAre
  <1>11. ASSUME NEW l \in Lanes(Stage), NEW k \in DOMAIN order, order[k] = <<"report", l>>
         PROVE  k - 1 \in DOMAIN order /\ order[k - 1] = <<"trace", l>>
    <2>1. order[k][1] = "report" /\ order[k][2] = l
      BY <1>11
    <2>2. k <= n /\ k \in 1 .. n /\ n \in {2, 4} /\ order[k] = prefix[k]
      BY <1>1, <1>6, <1>8, <1>9, <2>1
    <2>3. k = 1 \/ k = 2 \/ (MultiLane(Stage) /\ (k = 3 \/ k = 4))
      BY <1>6, <2>2
    <2>4. CASE k = 2
      BY <1>1, <1>6, <1>7, <1>8, <2>1, <2>2, <2>4
    <2>5. CASE k = 4 /\ MultiLane(Stage)
      BY <1>1, <1>6, <1>7, <1>8, <2>1, <2>2, <2>5
    <2>6. k # 1 /\ ~(MultiLane(Stage) /\ k = 3)
      BY <1>7, <2>1, <2>2
    <2>7. QED
      BY <2>3, <2>4, <2>5, <2>6
  <1>12. QED
    BY <1>10, <1>11 DEF order

-----------------------------------------------------------------------------
(* What a preparation knows when it asks the validator.                      *)

\* Every row of a governed trace is of the lane of that trace.
RowsInv == \A l \in Lanes(Stage) : \A i \in world.data[<<"trace", l>>] : Row[i].lane = l

PlannedRecords ==
    RenderedRecords(SeenRows, PlannedSplit, prep.tokenizer, PlannedHashes(PlannedBundles, PlannedSplit))

\* The plan is what follows from what was read.
Planned ==
    LET p == prep.plan IN
    /\ p.bundles = PlannedBundles /\ p.split = PlannedSplit
    /\ p.hashes = PlannedHashes(PlannedBundles, PlannedSplit)
    /\ p.candidates = Cardinality(PlannedRecords)
    /\ SelectionOK(PlannedRecords) /\ p.selected \in Selections(PlannedRecords)
    /\ \A l \in Lanes(Stage) : BundleOK(l, Seen(<<"trace", l>>), Seen(<<"report", l>>))
    /\ Disjoint(ContaminationReceipt(p.selected, SeenIdentities))

\* What was read while nobody disturbed the preparation is still what there is.
Current ==
    /\ prep.pc # "policy" => prep.license = "local research" /\ prep.leak = LeakageRegistry
    /\ prep.pc \notin {"policy", "tokenizer"} => prep.tokenizer = world.tokenizer
    /\ \A k \in DOMAIN prep.seen : prep.seen[k] = world.data[SourceOrder(Stage)[k]]
    /\ \A k \in DOMAIN prep.seen, l \in Lanes(Stage) :
          SourceOrder(Stage)[k] = <<"report", l>> =>
              world.data[<<"report", l>>] = world.data[<<"trace", l>>]
    /\ prep.pc \in {"plan", "dry"} \cup Publishing => DOMAIN prep.seen = DOMAIN SourceOrder(Stage)
    /\ prep.pc \in Publishing => Planned

CurrentInv == prep.pc # "idle" /\ ~prep.disturbed => Current

\* What has been published so far is what was planned.
PublishedInv ==
    /\ DOMAIN disk.conversion = Lanes(Stage)
    /\ prep.pc # "idle" => prep.lane \in {1, 2} /\ (prep.lane = 2 => MultiLane(Stage))
    /\ prep.pc \in {"policy", "tokenizer", "load", "source", "plan"} => prep.lane = 1
    /\ prep.pc = "convert" /\ prep.lane = 2 =>
          disk.conversion["openhands"] = prep.plan.bundles["openhands"]
    /\ prep.pc \in Publishing \ {"convert"} =>
          \A l \in Lanes(Stage) : disk.conversion[l] = prep.plan.bundles[l]
    /\ prep.pc \in Publishing \ {"convert", "evals"} =>
          DOMAIN disk.evals = Families /\ IdentitiesOf(disk.evals) = SeenIdentities
    /\ prep.pc \in {"receipts", "candidate"} => disk.manifest = Manifest
    /\ prep.pc = "candidate" => disk.receipts = Receipts

\* A candidate that nothing has changed since would be verified now.
CandidateInv == ~operator.changed => Verified(ScopeOf(disk.candidate))

AcceptInv == RowsInv /\ CurrentInv /\ PublishedInv /\ CandidateInv /\ AcceptedUnlessChanged

\* The traces and the reports that an undisturbed preparation has read.
LEMMA SeenIs ==
  ASSUME StageInv, RowsInv, Current, prep.pc \in Publishing
  PROVE  \A l \in Lanes(Stage) :
            /\ Seen(<<"trace", l>>) \subseteq DOMAIN Row /\ \A i \in Seen(<<"trace", l>>) : Row[i].lane = l
            /\ Seen(<<"report", l>>) = Seen(<<"trace", l>>)
            /\ <<"trace", l>> \in Sources(Stage)
  <1> SUFFICES ASSUME NEW l \in Lanes(Stage)
               PROVE  /\ Seen(<<"trace", l>>) \subseteq DOMAIN Row
                      /\ \A i \in Seen(<<"trace", l>>) : Row[i].lane = l
                      /\ Seen(<<"report", l>>) = Seen(<<"trace", l>>)
                      /\ <<"trace", l>> \in Sources(Stage)
    OBVIOUS
  <1> DEFINE order == SourceOrder(Stage)
  <1>1. DOMAIN prep.seen = DOMAIN order /\ \A k \in DOMAIN order : prep.seen[k] = world.data[order[k]]
    BY DEF Current
  <1>2. PICK j \in DOMAIN order : order[j] = <<"trace", l>>
    BY SourcesAre
  <1>3. PICK k \in DOMAIN order : order[k] = <<"report", l>>
    BY ReportsFollow
  <1>4. Seen(<<"trace", l>>) = world.data[<<"trace", l>>]
    BY <1>1, <1>2 DEF Seen
  <1>5. Seen(<<"report", l>>) = world.data[<<"report", l>>]
    BY <1>1, <1>3 DEF Seen
  <1>6. world.data[<<"report", l>>] = world.data[<<"trace", l>>]
    BY <1>1, <1>3 DEF Current
  <1>7. <<"trace", l>> \in Sources(Stage)
    BY <1>2 DEF Sources, Range
  <1>8. QED
    BY <1>4, <1>5, <1>6, <1>7 DEF RowsInv, StageInv, SourceInv

\* The two programs agree: what an undisturbed preparation has published, the
\* validator accepts.
LEMMA PublishedIsCoherent ==
  ASSUME StageInv, AcceptInv, prep.pc = "candidate", ~prep.disturbed
  PROVE  LET shard == ShardOf(prep.plan.selected)
         IN  Coherent(Scope(shard), Held(shard), prep.tokenizer, world.leak)
  <1> DEFINE p == prep.plan
             R == p.selected
             shard == ShardOf(R)
             h == Held(shard)
             scope == Scope(shard)
             multi == MultiLane(Stage)
             leak == LeakReceipt(prep.leak, p.split)
  <1>1. /\ Current /\ Planned /\ prep.pc \in Publishing /\ prep.pc \in Publishing \ {"convert"}
        /\ prep.pc \in Publishing \ {"convert", "evals"}
    BY DEF AcceptInv, CurrentInv, Current, Publishing
  <1>2. /\ prep.license = "local research" /\ prep.leak = LeakageRegistry /\ prep.tokenizer = world.tokenizer
        /\ prep.tokenizer \in Nat
    <2>1. prep.pc # "policy" /\ prep.pc \notin {"policy", "tokenizer"}
      OBVIOUS
    <2>2. prep.license = "local research" /\ prep.leak = LeakageRegistry
      BY <1>1, <2>1 DEF Current
    <2>3. prep.tokenizer = world.tokenizer
      BY <1>1, <2>1 DEF Current
    <2>4. world.tokenizer \in Nat
      BY DEF StageInv, SourceInv
    <2>5. QED
      BY <2>2, <2>3, <2>4
  <1>3. \A l \in Lanes(Stage) :
            /\ Seen(<<"trace", l>>) \subseteq DOMAIN Row /\ \A i \in Seen(<<"trace", l>>) : Row[i].lane = l
            /\ Seen(<<"report", l>>) = Seen(<<"trace", l>>) /\ <<"trace", l>> \in Sources(Stage)
    BY <1>1, SeenIs DEF AcceptInv
  <1>4. /\ disk.manifest = Manifest /\ disk.receipts = Receipts
        /\ DOMAIN disk.conversion = Lanes(Stage) /\ DOMAIN disk.evals = Families
        /\ IdentitiesOf(disk.evals) = SeenIdentities
        /\ \A l \in Lanes(Stage) : disk.conversion[l] = p.bundles[l]
    BY <1>1 DEF AcceptInv, PublishedInv
  <1>5. /\ p.bundles = PlannedBundles /\ p.split = PlannedSplit
        /\ p.hashes = PlannedHashes(p.bundles, p.split) /\ p.candidates = Cardinality(PlannedRecords)
        /\ SelectionOK(PlannedRecords) /\ R \in Selections(PlannedRecords)
        /\ PlannedRecords = RenderedRecords(SeenRows, p.split, prep.tokenizer, p.hashes)
        /\ \A l \in Lanes(Stage) : BundleOK(l, Seen(<<"trace", l>>), Seen(<<"report", l>>))
        /\ Disjoint(ContaminationReceipt(R, SeenIdentities))
    BY <1>1 DEF Planned, PlannedRecords
  <1>6. SeenRows \in SUBSET DOMAIN Row /\ \A i \in SeenRows : Row[i].lane \in Lanes(Stage)
    BY <1>3 DEF SeenRows
  <1>7. /\ IsFiniteSet(R) /\ Cardinality(R) \in Nat /\ Cardinality(R) <= p.candidates /\ p.candidates \in Nat
        /\ TokenTotal(R) <= Ceiling
        /\ \A r \in R : /\ r.id \in SeenRows /\ r = Rendered(r.id, p.split[r.id], prep.tokenizer, p.hashes)
                        /\ r.tokens \in Nat /\ r.tokens = Tokens(r.id, prep.tokenizer)
                        /\ r.split = "train" /\ r.quarantine = None
        /\ Cardinality({r.id : r \in R}) = Cardinality(R)
        /\ ToSet(shard) = R /\ Len(shard) = Cardinality(R)
    <2> DEFINE rows == SeenRows
               records == PlannedRecords
               tokenizer == prep.tokenizer
               split == p.split
               hashes == p.hashes
    <2>1. records = RenderedRecords(rows, split, tokenizer, hashes) /\ p.candidates = Cardinality(records)
      BY <1>5
    <2>2. Selects(rows, split, tokenizer, hashes, R)
      BY <1>2, <1>5, <1>6 DEF Selects
    <2> HIDE DEF rows, records, tokenizer, split, hashes, R
    <2>3. ChosenAre(rows, split, tokenizer, hashes, R)
      BY <2>2, SelectedIs
    <2>4. /\ IsFiniteSet(R) /\ Cardinality(R) \in Nat /\ Cardinality(records) \in Nat
          /\ Cardinality(R) <= Cardinality(records)
          /\ TokenTotal(R) <= Ceiling
          /\ \A r \in R : /\ r.id \in rows /\ r = Rendered(r.id, split[r.id], tokenizer, hashes)
                          /\ r.tokens \in Nat /\ r.tokens = Tokens(r.id, tokenizer)
                          /\ r.split = "train" /\ r.quarantine = None
          /\ Cardinality({r.id : r \in R}) = Cardinality(R)
          /\ ToSet(ShardOf(R)) = R /\ Len(ShardOf(R)) = Cardinality(R)
      BY <2>1, <2>3 DEF ChosenAre
    <2>5. QED
      BY <2>1, <2>4 DEF rows, records, tokenizer, split, hashes
  <1>8. /\ h.conversion = disk.conversion /\ h.evals = disk.evals /\ h.receipts = disk.receipts
        /\ h.manifest = disk.manifest /\ h.shard = shard /\ h.shardManifest = ShardManifest(ToSet(shard))
    BY DEF Held
  <1>9. scope.stage = Stage /\ scope.tokenizer = world.tokenizer
    BY DEF Scope, PinnedSnapshot
  <1>10. /\ h.manifest.stage = Stage /\ h.manifest.tokenizer = prep.tokenizer /\ h.manifest.hashes = p.hashes
         /\ h.manifest.counts = LaneCounts(p.bundles, R) /\ h.manifest.conversion = disk.conversion
         /\ h.manifest.evals = disk.evals /\ h.manifest.receipts = Receipts /\ h.manifest.shard = shard
    BY <1>4, <1>8 DEF Manifest
  <1>11. /\ h.receipts.license = prep.license /\ h.receipts.presence.before = h.receipts.presence.after
         /\ h.receipts.integrity.before = h.receipts.integrity.after
         /\ h.receipts.integrity.before = [path \in Sources(Stage) |-> Seen(path)]
         /\ h.receipts.integrity.tokenizer = prep.tokenizer /\ h.receipts.split = SplitReceipt(p.split)
         /\ h.receipts.contamination = ContaminationReceipt(R, SeenIdentities)
         /\ h.receipts.diversity = Inventory(R) /\ h.receipts.selection = SelectionReceipt(R, p.candidates)
         /\ h.receipts.leak = (IF multi THEN leak ELSE None)
    BY <1>4, <1>8 DEF Receipts
  <1>12. Range(h.shard) = R
    BY <1>7, <1>8 DEF Range, ToSet
  <1>13. \A l \in Lanes(Stage) :
            /\ h.conversion[l] = p.bundles[l]
            /\ h.conversion[l].examples = Seen(<<"trace", l>>)
            /\ h.conversion[l].report = ConversionReport(l, Seen(<<"trace", l>>), Seen(<<"report", l>>), world.commit)
            /\ h.conversion[l].manifest = HashManifest(h.conversion[l].examples, h.conversion[l].report)
    <2> SUFFICES ASSUME NEW l \in Lanes(Stage)
                 PROVE  /\ h.conversion[l] = p.bundles[l]
                        /\ h.conversion[l].examples = Seen(<<"trace", l>>)
                        /\ h.conversion[l].report = ConversionReport(l, Seen(<<"trace", l>>), Seen(<<"report", l>>), world.commit)
                        /\ h.conversion[l].manifest = HashManifest(h.conversion[l].examples, h.conversion[l].report)
      OBVIOUS
    <2> DEFINE c == h.conversion[l]
               rows == Seen(<<"trace", l>>)
               read == Seen(<<"report", l>>)
    <2>1. c = p.bundles[l]
      BY <1>4, <1>8
    <2>2. c = Bundle(l, rows, read, world.commit)
      <3> DEFINE planned == PlannedBundles
      <3>1. planned[l] = Bundle(l, rows, read, world.commit)
        BY DEF PlannedBundles
      <3>2. p.bundles = planned
        BY <1>5
      <3> HIDE DEF planned
      <3>3. QED
        BY <2>1, <3>1, <3>2
    <2> HIDE DEF c, rows, read
    <2>3. /\ c.examples = rows /\ c.report = ConversionReport(l, rows, read, world.commit)
          /\ c.manifest = HashManifest(rows, c.report)
      BY <2>2 DEF Bundle
    <2>4. QED
      BY <2>1, <2>3 DEF c, rows, read
  <1>14. h.receipts = Receipts
    BY <1>4, <1>8
  <1> HIDE DEF h, scope, shard, R, p, leak
  <1>15. ManifestCoherent(scope, h) /\ ReceiptsBound(h) /\ GeneratedBound(scope, h)
    BY <1>2, <1>4, <1>8, <1>9, <1>10, <1>14 DEF ManifestCoherent, ReceiptsBound, GeneratedBound
  <1>16. HashesCoherent(scope, h)
    <2>1. /\ p.hashes.reports = [l \in DOMAIN p.bundles |-> p.bundles[l].report]
          /\ p.hashes.manifests = [l \in DOMAIN p.bundles |-> p.bundles[l].manifest]
          /\ p.hashes.license = prep.license /\ p.hashes.tokenizer = prep.tokenizer
          /\ p.hashes.leak = (IF multi THEN leak ELSE None)
      BY <1>5 DEF PlannedHashes, ReceiptHashes, leak
    <2>2. DOMAIN p.bundles = Lanes(Stage)
      BY <1>5 DEF PlannedBundles
    <2>3. h.manifest.hashes = p.hashes /\ scope.stage = Stage /\ scope.tokenizer = prep.tokenizer
      BY <1>2, <1>9, <1>10
    <2>4. p.hashes.license = h.receipts.license
      BY <1>11, <2>1
    <2>5. ASSUME NEW l \in Lanes(Stage)
          PROVE  p.hashes.reports[l] = h.conversion[l].report /\ p.hashes.manifests[l] = h.conversion[l].manifest
      <3> DEFINE bundles == p.bundles
                 hashes == p.hashes
                 conversion == h.conversion
      <3>1. hashes.reports = [k \in DOMAIN bundles |-> bundles[k].report]
        BY <2>1
      <3>2. hashes.manifests = [k \in DOMAIN bundles |-> bundles[k].manifest]
        BY <2>1
      <3>3. l \in DOMAIN bundles
        BY <2>2
      <3>4. conversion[l] = bundles[l]
        BY <1>13
      <3> HIDE DEF bundles, hashes, conversion
      <3>5. hashes.reports[l] = bundles[l].report /\ hashes.manifests[l] = bundles[l].manifest
        BY <3>1, <3>2, <3>3
      <3>6. QED
        BY <3>4, <3>5 DEF bundles, hashes, conversion
    <2>6. multi => p.hashes.leak = h.receipts.leak
      BY <1>11, <2>1
    <2>7. QED
      BY <2>1, <2>3, <2>4, <2>5, <2>6 DEF HashesCoherent
  <1>17. RecordsCoherent(scope, h)
    <2>1. \A r \in R : r.hashes = p.hashes
      BY <1>7 DEF Rendered
    <2>2. QED
      BY <1>6, <1>7, <1>8, <1>9, <1>10, <1>12, <2>1 DEF RecordsCoherent
  <1>18. Recount(h, prep.tokenizer) = TokenTotal(R)
    <2>1. \A r \in Range(h.shard) : r.tokens \in Nat /\ r.tokens = Tokens(r.id, prep.tokenizer)
      BY <1>7, <1>12
    <2>2. IsFiniteSet(Range(h.shard))
      BY <1>7, <1>12
    <2>3. QED
      BY <1>12, <2>1, <2>2, RecountIsTotal
  <1>19. ShardCoherent(scope, h, prep.tokenizer)
    <2>1. /\ h.shardManifest.digest = shard /\ h.shardManifest.count = Cardinality(R)
          /\ h.shardManifest.inventory = Inventory(R) /\ h.shardManifest.ceiling = Ceiling
      BY <1>7, <1>8 DEF ShardManifest, shard
    <2>2. Inventory(R).tokens = TokenTotal(R)
      BY DEF Inventory
    <2>3. QED
      BY <1>7, <1>8, <1>10, <1>12, <1>18, <2>1, <2>2 DEF ShardCoherent
  <1>20. LicenseCoherent(h) /\ PresenceCoherent(h)
    BY <1>2, <1>11 DEF LicenseCoherent, PresenceCoherent
  <1>21. LeakCoherent(scope, h, world.leak)
    <2>1. multi => prep.leak = world.leak
      BY <1>2 DEF LeakageRegistry
    <2>2. leak.registry = prep.leak
      BY DEF LeakReceipt, leak
    <2>3. multi => h.receipts.leak.registry = prep.leak
      BY <1>11, <2>2
    <2>4. QED
      BY <1>9, <2>1, <2>3 DEF LeakCoherent
  <1>22. IntegrityCoherent(scope, h)
    BY <1>9, <1>10, <1>11 DEF IntegrityCoherent
  <1>23. ASSUME NEW l \in Lanes(Stage)
         PROVE  ExamplesCoherent(l, h) /\ ReportCoherent(l, h) /\ HashManifestCoherent(l, h)
    <2> DEFINE rows == Seen(<<"trace", l>>)
               c == h.conversion[l]
    <2>1. /\ c.report.lane = l /\ c.report.examples = rows /\ c.report.traces = rows
          /\ c.report.counts = ObservedCounts(rows)
      <3>1. c.report = ConversionReport(l, rows, rows, world.commit)
        BY <1>3, <1>13
      <3> HIDE DEF c, rows
      <3>2. QED
        BY <3>1 DEF ConversionReport
    <2>2. rows # {} /\ (\A i \in rows : Row[i].ok) /\ ObservedCounts(rows) = AdapterCounts(rows)
      BY <1>3, <1>5 DEF BundleOK, OstTracesParse, TracesParse, Reconciled, OstReconciled
    <2>3. h.receipts.integrity.before[<<"trace", l>>] = rows
      BY <1>3, <1>11
    <2>4. ExamplesCoherent(l, h)
      BY <1>3, <1>13, <2>2 DEF ExamplesCoherent
    <2>5. ReportCoherent(l, h)
      BY <1>13, <2>1, <2>2, <2>3 DEF ReportCoherent
    <2>6. HashManifestCoherent(l, h)
      BY <1>13 DEF HashManifestCoherent
    <2>7. QED
      BY <2>4, <2>5, <2>6
  <1>24. LaneCountsCoherent(scope, h)
    <2>1. \A l \in Lanes(Stage) : p.bundles[l].examples = h.conversion[l].examples
      BY <1>13
    <2>2. QED
      BY <1>9, <1>10, <1>12, <2>1 DEF LaneCountsCoherent, LaneCounts
  <1>25. ContaminationCoherent(h) /\ DiversityCoherent(h)
    BY <1>4, <1>5, <1>8, <1>11, <1>12 DEF ContaminationCoherent, DiversityCoherent
  <1>26. SelectionCoherent(h, prep.tokenizer)
    <2>1. /\ h.receipts.selection.ids = {r.id : r \in R} /\ h.receipts.selection.candidates = p.candidates
          /\ h.receipts.selection.tokens = TokenTotal(R)
          /\ h.receipts.selection.resolved = Cardinality({r \in R : Row[r.id].resolved})
      BY <1>11 DEF SelectionReceipt
    <2>3. QED
      BY <1>7, <1>8, <1>12, <1>18, <2>1 DEF SelectionCoherent
  <1>27. /\ h.receipts.split.assignments = p.split /\ h.receipts.split.sets = SplitSets(p.split)
    BY <1>11 DEF SplitReceipt
  <1>28. SplitCoherent(scope, h)
    <2> DEFINE keys == HeldEvalKeys(scope, h)
               rows == UNION {h.conversion[l].examples : l \in Lanes(Stage)}
    <2>1. rows = SeenRows
      BY <1>13 DEF SeenRows
    <2>2. keys = EvalQuarantine(SeenIdentities, multi)
      BY <1>4, <1>8, <1>9 DEF HeldEvalKeys, EvalQuarantine, RepoDigest
    <2>3. p.split = [i \in SeenRows |-> Assignment(i, EvalQuarantine(SeenIdentities, multi), prep.leak)]
      BY <1>5 DEF PlannedSplit, Assignments
    <2>4. prep.leak = IF multi THEN h.receipts.leak.registry ELSE {}
      <3>1. leak.registry = prep.leak
        BY DEF LeakReceipt, leak
      <3>2. multi => h.receipts.leak.registry = prep.leak
        BY <1>11, <3>1
      <3>3. ~multi => prep.leak = {}
        BY <1>2 DEF LeakageRegistry
      <3>4. QED
        BY <3>2, <3>3
    <2> HIDE DEF keys, rows
    <2>5. \A i \in SeenRows : /\ p.split[i].split = SplitOf(CanonicalRepo(i))
                              /\ p.split[i].quarantine = IF CanonicalRepo(i) \in keys THEN "eval"
                                     ELSE IF RepoDigest(CanonicalRepo(i)) \in prep.leak THEN "leak" ELSE None
      BY <2>2, <2>3 DEF Assignment
    <2>6. DOMAIN p.split = SeenRows
      BY <2>3
    <2>7. QED
      BY <1>9, <1>27, <2>1, <2>4, <2>5, <2>6 DEF SplitCoherent, keys, rows
  <1>29. LeakCountsCoherent(scope, h)
    BY <1>9, <1>11, <1>27 DEF LeakCountsCoherent, LeakReceipt, leak
  <1>30. JoinCoherent(scope, h, prep.tokenizer)
    <2>1. DOMAIN p.split = SeenRows
      BY <1>5 DEF PlannedSplit, Assignments
    <2>2. \A r \in R : p.split[r.id].split = r.split /\ p.split[r.id].quarantine = r.quarantine
      BY <1>7 DEF Rendered
    <2>3. QED
      BY <1>7, <1>10, <1>12, <1>27, <2>1, <2>2 DEF JoinCoherent
  <1>31. Coherent(scope, h, prep.tokenizer, world.leak)
    BY <1>9, <1>15, <1>16, <1>17, <1>19, <1>20, <1>21, <1>22, <1>23, <1>24, <1>25, <1>26, <1>28, <1>29, <1>30
       DEF Coherent
  <1>32. QED
    BY <1>31 DEF scope, h, shard, R, p

-----------------------------------------------------------------------------
(* Keeping that up.                                                          *)

\* What a preparation is made of, but for where it is.
SamePlan ==
    /\ prep'.seen = prep.seen /\ prep'.leak = prep.leak /\ prep'.license = prep.license
    /\ prep'.tokenizer = prep.tokenizer /\ prep'.meta = prep.meta /\ prep'.plan = prep.plan

LEMMA SameSeen ==
  ASSUME prep'.seen = prep.seen
  PROVE  /\ \A path : Seen(path)' = Seen(path)
         /\ SeenIdentities' = SeenIdentities /\ SeenRows' = SeenRows
  BY DEF Seen, SeenIdentities, SeenRows

LEMMA SameReceipts ==
  ASSUME SamePlan
  PROVE  Receipts' = Receipts
  <1>1. (\A path : Seen(path)' = Seen(path)) /\ SeenIdentities' = SeenIdentities
    BY SameSeen DEF SamePlan
  <1>2. /\ prep'.license = prep.license /\ prep'.meta = prep.meta /\ prep'.tokenizer = prep.tokenizer
        /\ prep'.plan = prep.plan /\ prep'.leak = prep.leak
    BY DEF SamePlan
  <1> DEFINE before == [path \in Sources(Stage) |-> Seen(path)]
  <1>3. before' = before
    BY <1>1
  <1> HIDE DEF before
  <1>4. /\ Receipts = [license |-> prep.license,
                       presence |-> [before |-> prep.meta, after |-> prep.meta],
                       integrity |-> [before |-> before, after |-> before, tokenizer |-> prep.tokenizer],
                       split |-> SplitReceipt(prep.plan.split),
                       contamination |-> ContaminationReceipt(prep.plan.selected, SeenIdentities),
                       diversity |-> Inventory(prep.plan.selected),
                       selection |-> SelectionReceipt(prep.plan.selected, prep.plan.candidates),
                       leak |-> IF MultiLane(Stage) THEN LeakReceipt(prep.leak, prep.plan.split) ELSE None]
    BY DEF Receipts, before
  <1>5. Receipts' = [license |-> prep'.license,
                     presence |-> [before |-> prep'.meta, after |-> prep'.meta],
                     integrity |-> [before |-> before', after |-> before', tokenizer |-> prep'.tokenizer],
                     split |-> SplitReceipt(prep'.plan.split),
                     contamination |-> ContaminationReceipt(prep'.plan.selected, SeenIdentities'),
                     diversity |-> Inventory(prep'.plan.selected),
                     selection |-> SelectionReceipt(prep'.plan.selected, prep'.plan.candidates),
                     leak |-> IF MultiLane(Stage) THEN LeakReceipt(prep'.leak, prep'.plan.split) ELSE None]
    BY DEF Receipts, before
  <1>6. QED
    BY <1>1, <1>2, <1>3, <1>4, <1>5

LEMMA SameManifest ==
  ASSUME SamePlan, disk'.conversion = disk.conversion, disk'.evals = disk.evals
  PROVE  Manifest' = Manifest
  <1>1. Receipts' = Receipts
    BY SameReceipts
  <1>2. prep'.tokenizer = prep.tokenizer /\ prep'.plan = prep.plan
    BY DEF SamePlan
  <1>3. QED
    BY <1>1, <1>2 DEF Manifest, LaneCounts

LEMMA SamePlanned ==
  ASSUME SamePlan, world'.commit = world.commit, Planned
  PROVE  Planned'
  <1>1. /\ \A path : Seen(path)' = Seen(path)
        /\ SeenIdentities' = SeenIdentities /\ SeenRows' = SeenRows
    BY SameSeen DEF SamePlan
  <1>2. /\ prep'.leak = prep.leak /\ prep'.license = prep.license /\ prep'.tokenizer = prep.tokenizer
        /\ prep'.plan = prep.plan
    BY DEF SamePlan
  <1>3. PlannedBundles' = PlannedBundles
    BY <1>1 DEF PlannedBundles
  <1>4. PlannedSplit' = PlannedSplit
    BY <1>1, <1>2 DEF PlannedSplit
  <1> DEFINE hashes == PlannedHashes(PlannedBundles, PlannedSplit)
  <1>5. hashes' = hashes
    BY <1>2, <1>3, <1>4 DEF PlannedHashes
  <1> HIDE DEF hashes
  <1>6. PlannedRecords' = PlannedRecords
    BY <1>1, <1>2, <1>4, <1>5 DEF PlannedRecords, hashes
  <1>7. QED
    BY <1>1, <1>2, <1>3, <1>4, <1>5, <1>6 DEF Planned, hashes

\* The same preparation, over the same artifacts.
LEMMA SamePublished ==
  ASSUME PublishedInv, SamePlan, prep'.pc = prep.pc, prep'.lane = prep.lane,
         disk'.conversion = disk.conversion, disk'.evals = disk.evals,
         disk'.manifest = disk.manifest, disk'.receipts = disk.receipts
  PROVE  PublishedInv'
  <1>1. Receipts' = Receipts /\ Manifest' = Manifest /\ SeenIdentities' = SeenIdentities
    BY SameReceipts, SameManifest, SameSeen DEF SamePlan
  <1>2. prep'.plan = prep.plan
    BY DEF SamePlan
  <1>3. Publishing' = Publishing
    BY DEF Publishing
  <1>4. QED
    BY <1>1, <1>2 DEF PublishedInv, Publishing

\* The answer of the validator depends on the world and on what is on disk.
LEMMA SameVerified ==
  ASSUME NEW n, UNCHANGED world, operator'.scopes = operator.scopes,
         disk'.conversion = disk.conversion, disk'.evals = disk.evals,
         disk'.manifest = disk.manifest, disk'.receipts = disk.receipts,
         disk'.shards = disk.shards, disk'.damaged = disk.damaged
  PROVE  Verified(ScopeOf(n))' = Verified(ScopeOf(n))
  <1>1. ScopeOf(n)' = ScopeOf(n)
    BY DEF ScopeOf
  <1> DEFINE scope == ScopeOf(n)
  <1>2. scope' = scope
    BY <1>1
  <1> HIDE DEF scope
  <1>3. Held(scope.artifacts.shard)' = Held(scope.artifacts.shard)
    BY <1>2 DEF Held
  <1>4. CanHold(scope.artifacts.shard)' = CanHold(scope.artifacts.shard)
    BY <1>2 DEF CanHold
  <1>5. PinnedSnapshot' = PinnedSnapshot /\ ExactScope(scope)' = ExactScope(scope)
    BY <1>2 DEF PinnedSnapshot, ExactScope
  <1>6. Verified(scope)' = Verified(scope)
    BY <1>2, <1>3, <1>4, <1>5 DEF Verified
  <1>7. QED
    BY <1>6 DEF scope

\* A preparation that stops leaves nothing to know.
LEMMA StoppedKnows ==
  ASSUME prep' = NoPreparation, PublishedInv, disk'.conversion = disk.conversion
  PROVE  CurrentInv' /\ PublishedInv'
  <1>1. prep'.pc = "idle"
    BY DEF NoPreparation
  <1>2. QED
    BY <1>1 DEF CurrentInv, PublishedInv, Publishing

\* Only the preparation moves.
LEMMA OnlyPrep ==
  ASSUME AcceptInv, UNCHANGED <<world, disk, operator, verdict>>, CurrentInv', PublishedInv'
  PROVE  AcceptInv'
  <1>1. Verified(ScopeOf(disk.candidate))' = Verified(ScopeOf(disk.candidate))
    <2>1. ASSUME NEW n PROVE Verified(ScopeOf(n))' = Verified(ScopeOf(n))
      BY SameVerified
    <2>2. disk'.candidate = disk.candidate
      OBVIOUS
    <2>3. QED
      BY <2>1, <2>2
  <1>2. QED
    BY <1>1 DEF AcceptInv, RowsInv, CandidateInv, AcceptedUnlessChanged

\* The preparation publishes something.
LEMMA PrepWrites ==
  ASSUME StageInv, AcceptInv, Republished, CurrentInv', PublishedInv'
  PROVE  AcceptInv'
  <1>1. /\ world' = world /\ verdict' = verdict /\ operator'.scopes = operator.scopes
        /\ (operator'.changed <=> operator.changed \/ disk' # disk)
    BY DEF Republished, StageInv, OperatorInv
  <1>2. CandidateInv'
    <2>1. CASE operator'.changed
      BY <2>1 DEF CandidateInv
    <2>2. CASE ~operator'.changed
      <3>1. disk' = disk /\ ~operator.changed
        BY <1>1, <2>2
      <3>2. Verified(ScopeOf(disk.candidate))
        BY <3>1 DEF AcceptInv, CandidateInv
      <3>3. ASSUME NEW n PROVE Verified(ScopeOf(n))' = Verified(ScopeOf(n))
        BY <1>1, <3>1, SameVerified
      <3>4. QED
        BY <3>1, <3>2, <3>3 DEF CandidateInv
    <2>3. QED
      BY <2>1, <2>2
  <1>3. QED
    BY <1>1, <1>2 DEF AcceptInv, RowsInv, AcceptedUnlessChanged

\* A change disturbs whoever prepares, and is remembered.
LEMMA DisturbAccept ==
  ASSUME StageInv, AcceptInv, Disturb, RowsInv',
         disk'.conversion = disk.conversion, disk'.evals = disk.evals,
         disk'.manifest = disk.manifest, disk'.receipts = disk.receipts
  PROVE  AcceptInv'
  <1>1. operator'.changed /\ verdict' = verdict
    BY DEF Disturb, StageInv, OperatorInv
  <1>2. CurrentInv' /\ PublishedInv'
    <2>1. CASE prep.pc = "idle"
      <3>1. prep' = prep
        BY <2>1 DEF Disturb
      <3>2. QED
        BY <2>1, <3>1 DEF CurrentInv, PublishedInv, AcceptInv, Publishing
    <2>2. CASE prep.pc # "idle"
      <3>1. /\ prep'.disturbed /\ \A x \in DOMAIN prep : x # "disturbed" => prep'[x] = prep[x]
            /\ DOMAIN prep = {"pc", "dry", "disturbed", "meta", "leak", "license", "tokenizer", "seen",
                              "plan", "source", "lane"}
        BY <2>2 DEF Disturb, StageInv, PrepInv
      <3>2. SamePlan /\ prep'.pc = prep.pc /\ prep'.lane = prep.lane
        BY <3>1 DEF SamePlan
      <3>3. PublishedInv'
        BY <3>2, SamePublished DEF AcceptInv
      <3>4. QED
        BY <3>1, <3>3 DEF CurrentInv
    <2>3. QED
      BY <2>1, <2>2
  <1>3. QED
    BY <1>1, <1>2 DEF AcceptInv, CandidateInv, AcceptedUnlessChanged

LEMMA SurroundingsAccept ==
  ASSUME StageInv, AcceptInv,
         \/ \E i \in NewRows, reported \in BOOLEAN : AppendTrace(i, reported)
         \/ \E e \in NewIdentities : AppendIdentity(e)
         \/ \E d \in NewLeaks : EditRegistry(d)
         \/ \E file \in {"license", "suite"} : EditPolicy(file)
         \/ ChangeTokenizer \/ Commit
         \/ \E s \in disk.shards : DamageShard(s)
  PROVE  AcceptInv'
  <1>0. /\ DOMAIN world = {"data", "meta", "leak", "broken", "tokenizer", "commit", "dirty"}
        /\ \A l \in Lanes(Stage) : <<"trace", l>> \in DOMAIN world.data
        /\ DOMAIN disk = DiskFields
        /\ \A l \in Lanes(Stage) : \A i \in world.data[<<"trace", l>>] : Row[i].lane = l
    BY DEF StageInv, SourceInv, DiskInv, AcceptInv, RowsInv
  <1>1. ASSUME NEW i \in NewRows, NEW reported \in BOOLEAN, AppendTrace(i, reported)
        PROVE  AcceptInv'
    <2> DEFINE t == world.data[<<"trace", Row[i].lane>>] \cup {i}
    <2>1. Disturb /\ disk' = disk
      BY <1>1 DEF AppendTrace, Edit
    <2>2. ASSUME NEW l \in Lanes(Stage), NEW j \in world'.data[<<"trace", l>>]
          PROVE  Row[j].lane = l
      <3>1. world'.data = [world.data EXCEPT ![<<"trace", Row[i].lane>>] = t,
                              ![<<"report", Row[i].lane>>] = IF reported THEN t ELSE @]
        BY <1>0, <1>1 DEF AppendTrace
      <3> HIDE DEF t
      <3>2. /\ world'.data[<<"trace", l>>] \in {t, world.data[<<"trace", l>>]}
            /\ world'.data[<<"trace", l>>] = t => l = Row[i].lane \/ t = world.data[<<"trace", l>>]
        BY <1>0, <3>1
      <3>3. CASE j \in world.data[<<"trace", l>>]
        BY <1>0, <3>3
      <3>4. CASE j \notin world.data[<<"trace", l>>]
        <4>1. l = Row[i].lane /\ j \in t
          BY <2>2, <3>2, <3>4
        <4>2. j = i
          BY <3>4, <4>1 DEF t
        <4>3. QED
          BY <4>1, <4>2
      <3>5. QED
        BY <3>3, <3>4
    <2>3. RowsInv'
      BY <2>2 DEF RowsInv
    <2>4. QED
      BY <2>1, <2>3, DisturbAccept
  <1>2. ASSUME NEW e \in NewIdentities, AppendIdentity(e)
        PROVE  AcceptInv'
    <2>1. Disturb /\ disk' = disk
      BY <1>2 DEF AppendIdentity, Edit
    <2>2. \A l \in Lanes(Stage) : world'.data[<<"trace", l>>] = world.data[<<"trace", l>>]
      <3>1. \A l : <<"trace", l>> \in DOMAIN world.data =>
                 world'.data[<<"trace", l>>] = world.data[<<"trace", l>>]
        BY <1>0, <1>2 DEF AppendIdentity
      <3>2. QED
        BY <1>0, <3>1
    <2>3. RowsInv'
      BY <1>0, <2>2 DEF RowsInv
    <2>4. QED
      BY <2>1, <2>3, DisturbAccept
  <1>3. ASSUME world'.data = world.data, disk' = disk, Disturb
        PROVE  AcceptInv'
    <2>1. RowsInv'
      BY <1>0, <1>3 DEF RowsInv
    <2>2. QED
      BY <1>3, <2>1, DisturbAccept
  <1>4. ASSUME NEW d \in NewLeaks, EditRegistry(d)
        PROVE  AcceptInv'
    BY <1>0, <1>3, <1>4 DEF EditRegistry, Edit
  <1>5. ASSUME NEW file \in {"license", "suite"}, EditPolicy(file)
        PROVE  AcceptInv'
    BY <1>0, <1>3, <1>5 DEF EditPolicy, Edit
  <1>6. CASE ChangeTokenizer
    BY <1>0, <1>3, <1>6 DEF ChangeTokenizer, Edit
  <1>7. CASE Commit
    BY <1>0, <1>3, <1>7 DEF Commit
  <1>8. ASSUME NEW s \in disk.shards, DamageShard(s)
        PROVE  AcceptInv'
    <2>1. world' = world /\ Disturb
      BY <1>8 DEF DamageShard, Edit
    <2>2. /\ disk'.conversion = disk.conversion /\ disk'.evals = disk.evals
          /\ disk'.manifest = disk.manifest /\ disk'.receipts = disk.receipts
      BY <1>0, <1>8 DEF DamageShard, DiskFields
    <2>3. RowsInv'
      BY <1>0, <2>1 DEF RowsInv
    <2>4. QED
      BY <2>1, <2>2, <2>3, DisturbAccept
  <1>9. QED
    BY <1>1, <1>2, <1>4, <1>5, <1>6, <1>7, <1>8

-----------------------------------------------------------------------------
(* The preparation.                                                          *)

LEMMA StopAccept ==
  ASSUME AcceptInv, Stop
  PROVE  AcceptInv'
  <1>1. /\ prep' = NoPreparation /\ UNCHANGED <<world, disk, operator, verdict>>
    BY DEF Stop
  <1>2. CurrentInv' /\ PublishedInv'
    BY <1>1, StoppedKnows DEF AcceptInv
  <1>3. QED
    BY <1>1, <1>2, OnlyPrep

LEMMA BeginAccept ==
  ASSUME StageInv, AcceptInv, NEW dry \in BOOLEAN, Begin(dry)
  PROVE  AcceptInv'
  <1>1. UNCHANGED <<world, disk, operator, verdict>>
    BY DEF Begin
  <1>2. CurrentInv' /\ PublishedInv'
    <2>1. CASE prep' = NoPreparation
      BY <1>1, <2>1, StoppedKnows DEF AcceptInv
    <2>2. CASE prep' # NoPreparation
      <3>1. /\ prep'.pc = "policy" /\ prep'.lane = 1 /\ prep'.seen = <<>>
        BY <2>2 DEF Begin
      <3>2. DOMAIN prep'.seen = {}
        BY <3>1
      <3>3. Current'
        BY <3>1, <3>2 DEF Current, Publishing
      <3>4. PublishedInv'
        BY <1>1, <3>1 DEF AcceptInv, PublishedInv, Publishing
      <3>5. QED
        BY <3>3, <3>4 DEF CurrentInv
    <2>3. QED
      BY <2>1, <2>2
  <1>3. QED
    BY <1>1, <1>2, OnlyPrep

\* On the way to the plan, what was read so far is current.
LEMMA ReadingAccept ==
  ASSUME StageInv, AcceptInv, ReadPolicy \/ VerifyTokenizer \/ LoadTokenizer
  PROVE  AcceptInv'
  <1>1. SUFFICES ASSUME ~Stop PROVE AcceptInv'
    BY StopAccept
  <1>2. UNCHANGED <<world, disk, operator, verdict>> /\ prep.pc \in {"policy", "tokenizer", "load"}
    BY <1>1 DEF ReadPolicy, VerifyTokenizer, LoadTokenizer, Rest
  <1>3. /\ DOMAIN prep = {"pc", "dry", "disturbed", "meta", "leak", "license", "tokenizer", "seen",
                          "plan", "source", "lane"}
        /\ prep.seen = <<>>
    BY <1>2 DEF StageInv, PrepInv
  <1>4. /\ prep'.seen = <<>> /\ prep'.lane = prep.lane /\ prep'.disturbed = prep.disturbed
        /\ prep'.pc \in {"tokenizer", "load", "source"}
    BY <1>1, <1>2, <1>3 DEF ReadPolicy, VerifyTokenizer, LoadTokenizer, Goto
  <1>5. DOMAIN prep'.seen = {}
    BY <1>4
  <1>6. PublishedInv'
    BY <1>2, <1>4 DEF AcceptInv, PublishedInv, Publishing
  <1>7. CurrentInv'
    <2>1. SUFFICES ASSUME ~prep.disturbed PROVE Current'
      BY <1>4 DEF CurrentInv
    <2>2. Current
      BY <1>2, <2>1 DEF AcceptInv, CurrentInv
    <2>3. prep'.license = "local research" /\ prep'.leak = LeakageRegistry'
      <3>1. LeakageRegistry' = LeakageRegistry
        BY <1>2 DEF LeakageRegistry
      <3>2. CASE ReadPolicy
        BY <1>1, <1>3, <3>1, <3>2 DEF ReadPolicy
      <3>3. CASE VerifyTokenizer \/ LoadTokenizer
        <4>1. prep.pc # "policy" /\ prep'.license = prep.license /\ prep'.leak = prep.leak
          BY <1>1, <1>3, <3>3 DEF VerifyTokenizer, LoadTokenizer, Goto
        <4>2. QED
          BY <2>2, <3>1, <4>1 DEF Current
      <3>4. QED
        BY <3>2, <3>3
    <2>4. prep'.pc \notin {"policy", "tokenizer"} => prep'.tokenizer = world'.tokenizer
      <3>1. CASE ReadPolicy
        BY <1>1, <1>3, <3>1 DEF ReadPolicy
      <3>2. CASE VerifyTokenizer
        BY <1>1, <1>2, <1>3, <3>2 DEF VerifyTokenizer, PinnedSnapshot
      <3>3. CASE LoadTokenizer
        BY <1>1, <1>2, <1>3, <3>3 DEF LoadTokenizer, Goto, PinnedSnapshot
      <3>4. QED
        BY <3>1, <3>2, <3>3
    <2>5. QED
      BY <1>4, <1>5, <2>3, <2>4 DEF Current, Publishing
  <1>8. QED
    BY <1>2, <1>6, <1>7, OnlyPrep

LEMMA ReadSourceAccept ==
  ASSUME StageInv, AcceptInv, ReadSource
  PROVE  AcceptInv'
  <1>1. SUFFICES ASSUME ~Stop PROVE AcceptInv'
    BY StopAccept
  <1> DEFINE order == SourceOrder(Stage)
             path == order[prep.source]
             content == world.data[path]
             n == Len(order)
  <1>2. /\ prep.pc = "source" /\ UNCHANGED <<world, disk, operator, verdict>> /\ SourceOK(path, content)
        /\ prep' = [prep EXCEPT !.seen = Append(@, content), !.source = @ + 1,
                       !.pc = IF prep.source = n THEN "plan" ELSE "source"]
    BY <1>1 DEF ReadSource, AuthorizedPayload, Rest
  <1>3. /\ DOMAIN prep = {"pc", "dry", "disturbed", "meta", "leak", "license", "tokenizer", "seen",
                          "plan", "source", "lane"}
        /\ prep.source \in DOMAIN order /\ n \in Nat /\ DOMAIN order = 1 .. n
        /\ prep.seen \in Seq(ToSet(prep.seen)) /\ Len(prep.seen) = prep.source - 1
    BY <1>2, SourcesAre DEF StageInv, PrepInv
  <1>4. /\ path[1] = "report" => content = prep.seen[prep.source - 1]
        /\ prep.lane = 1
    BY <1>2 DEF SourceOK, AcceptInv, PublishedInv
  <1> HIDE DEF content, path, n, order
  <1>5. /\ prep'.seen = Append(prep.seen, content) /\ prep'.lane = prep.lane
        /\ prep'.pc = (IF prep.source = n THEN "plan" ELSE "source")
        /\ prep'.license = prep.license /\ prep'.leak = prep.leak /\ prep'.tokenizer = prep.tokenizer
        /\ prep'.disturbed = prep.disturbed
    BY <1>2, <1>3
  <1>6. PublishedInv'
    <2>1. prep'.pc \in {"plan", "source"} /\ prep'.pc # "idle" /\ prep'.lane = 1
      BY <1>4, <1>5
    <2>2. DOMAIN disk'.conversion = Lanes(Stage)
      BY <1>2 DEF AcceptInv, PublishedInv
    <2>3. QED
      BY <2>1, <2>2 DEF PublishedInv, Publishing
  <1>7. CurrentInv'
    <2>1. SUFFICES ASSUME ~prep.disturbed PROVE Current'
      BY <1>5 DEF CurrentInv
    <2>2. /\ Current
          /\ prep.license = "local research" /\ prep.leak = LeakageRegistry /\ prep.tokenizer = world.tokenizer
      <3>1. Current
        BY <1>2, <2>1 DEF AcceptInv, CurrentInv
      <3>2. prep.pc # "policy" /\ prep.pc \notin {"policy", "tokenizer"}
        BY <1>2
      <3>3. prep.license = "local research" /\ prep.leak = LeakageRegistry
        BY <3>1, <3>2 DEF Current
      <3>4. prep.tokenizer = world.tokenizer
        BY <3>1, <3>2 DEF Current
      <3>5. QED
        BY <3>1, <3>3, <3>4
    <2>3. LeakageRegistry' = LeakageRegistry
      BY <1>2 DEF LeakageRegistry
    <2>4. /\ \A k \in DOMAIN prep.seen : prep.seen[k] = world.data[order[k]]
          /\ \A k \in DOMAIN prep.seen, l \in Lanes(Stage) :
                order[k] = <<"report", l>> => world.data[<<"report", l>>] = world.data[<<"trace", l>>]
      BY <2>2 DEF Current, order
    <2>5. /\ DOMAIN prep'.seen = 1 .. prep.source /\ DOMAIN prep.seen = 1 .. prep.source - 1
          /\ \A k \in 1 .. prep.source - 1 : prep'.seen[k] = prep.seen[k]
          /\ prep'.seen[prep.source] = content /\ prep.source \in 1 .. n
      BY <1>3, <1>5
    <2>6. ASSUME NEW k \in DOMAIN prep'.seen PROVE prep'.seen[k] = world'.data[order[k]]
      <3>1. CASE k = prep.source
        BY <1>2, <2>5, <3>1 DEF content, path
      <3>2. CASE k # prep.source
        <4>1. k \in 1 .. prep.source - 1
          BY <2>5, <3>2
        <4>2. QED
          BY <1>2, <2>4, <2>5, <4>1
      <3>3. QED
        BY <3>1, <3>2
    <2>7. ASSUME NEW k \in DOMAIN prep'.seen, NEW l \in Lanes(Stage), order[k] = <<"report", l>>
          PROVE  world'.data[<<"report", l>>] = world'.data[<<"trace", l>>]
      <3>1. CASE k = prep.source
        <4>1. prep.source - 1 \in DOMAIN order /\ order[prep.source - 1] = <<"trace", l>>
          BY <1>3, <2>7, <3>1, ReportsFollow DEF order
        <4>2. prep.source - 1 \in DOMAIN prep.seen
          BY <1>3, <2>5, <4>1
        <4>3. prep.seen[prep.source - 1] = world.data[<<"trace", l>>]
          BY <2>4, <4>1, <4>2
        <4>4. path = <<"report", l>> /\ path[1] = "report"
          BY <2>7, <3>1 DEF path
        <4>5. content = prep.seen[prep.source - 1]
          BY <1>4, <4>4
        <4>6. content = world.data[<<"report", l>>]
          BY <4>4 DEF content
        <4>7. QED
          BY <1>2, <4>3, <4>5, <4>6
      <3>2. CASE k # prep.source
        <4>1. k \in DOMAIN prep.seen
          BY <2>5, <3>2
        <4>2. QED
          BY <1>2, <2>4, <2>7, <4>1
      <3>3. QED
        BY <3>1, <3>2
    <2>8. prep'.pc \in {"plan", "dry"} \cup Publishing => DOMAIN prep'.seen = DOMAIN order
      <3>1. prep'.pc \in {"plan", "dry"} \cup Publishing => prep.source = n
        BY <1>5 DEF Publishing
      <3>2. QED
        BY <1>3, <2>5, <3>1
    <2>9. prep'.license = "local research" /\ prep'.leak = LeakageRegistry' /\ prep'.tokenizer = world'.tokenizer
      BY <1>2, <1>5, <2>2, <2>3
    <2>10. prep'.pc \notin Publishing
      BY <1>5 DEF Publishing
    <2>11. QED
      BY <2>6, <2>7, <2>8, <2>9, <2>10 DEF Current, order
  <1>8. QED
    BY <1>2, <1>6, <1>7, OnlyPrep

\* The plan is made from what was read.
LEMMA PlanAccept ==
  ASSUME StageInv, AcceptInv, Plan
  PROVE  AcceptInv'
  <1> DEFINE hashes == PlannedHashes(PlannedBundles, PlannedSplit)
             records == PlannedRecords
  <1>1. SUFFICES ASSUME ~Stop PROVE AcceptInv'
    BY StopAccept
  <1>2. PICK selected \in Selections(records) :
          /\ prep' = [prep EXCEPT !.pc = IF prep.dry THEN "dry" ELSE "convert",
                         !.plan = [bundles |-> PlannedBundles, split |-> PlannedSplit, hashes |-> hashes,
                                   candidates |-> Cardinality(records), selected |-> selected]]
          /\ Rest /\ Disjoint(ContaminationReceipt(selected, SeenIdentities))
    BY <1>1 DEF Plan, PlannedRecords
  <1>3. /\ prep.pc = "plan" /\ SelectionOK(records)
        /\ \A l \in Lanes(Stage) : BundleOK(l, Seen(<<"trace", l>>), Seen(<<"report", l>>))
    BY <1>1 DEF Plan, PlannedRecords
  <1>4. /\ DOMAIN prep = {"pc", "dry", "disturbed", "meta", "leak", "license", "tokenizer", "seen",
                          "plan", "source", "lane"}
        /\ UNCHANGED <<world, disk, operator, verdict>> /\ prep.lane = 1
    BY <1>2, <1>3 DEF StageInv, PrepInv, Rest, AcceptInv, PublishedInv
  <1> DEFINE plan == [bundles |-> PlannedBundles, split |-> PlannedSplit, hashes |-> hashes,
                      candidates |-> Cardinality(records), selected |-> selected]
             bundles == PlannedBundles
             split == PlannedSplit
  <1>5. /\ plan.bundles = bundles /\ plan.split = split /\ plan.hashes = hashes
        /\ plan.candidates = Cardinality(records) /\ plan.selected = selected
    OBVIOUS
  <1>6. prep' = [prep EXCEPT !.pc = IF prep.dry THEN "dry" ELSE "convert", !.plan = plan]
    BY <1>2
  <1> HIDE DEF plan, hashes, records, bundles, split
  <1>7. /\ prep'.plan = plan /\ prep'.lane = 1 /\ prep'.pc \in {"dry", "convert"}
        /\ prep'.seen = prep.seen /\ prep'.license = prep.license /\ prep'.leak = prep.leak
        /\ prep'.tokenizer = prep.tokenizer /\ prep'.disturbed = prep.disturbed
    BY <1>4, <1>6
  <1>8. PublishedInv'
    BY <1>4, <1>7 DEF AcceptInv, PublishedInv, Publishing
  <1>9. CurrentInv'
    <2>1. SUFFICES ASSUME ~prep.disturbed PROVE Current'
      BY <1>7 DEF CurrentInv
    <2>2. Current
      BY <1>3, <2>1 DEF AcceptInv, CurrentInv
    <2>3. /\ prep.license = "local research" /\ prep.leak = LeakageRegistry
          /\ DOMAIN prep.seen = DOMAIN SourceOrder(Stage)
      BY <1>3, <2>2 DEF Current
    <2>4. prep.tokenizer = world.tokenizer
      <3>1. prep.pc \notin {"policy", "tokenizer"}
        BY <1>3
      <3>2. QED
        BY <2>2, <3>1 DEF Current
    <2>5. LeakageRegistry' = LeakageRegistry
      BY <1>4 DEF LeakageRegistry
    <2>6. /\ \A path : Seen(path)' = Seen(path)
          /\ SeenIdentities' = SeenIdentities /\ SeenRows' = SeenRows
      BY <1>7, SameSeen
    <2>7. bundles' = bundles
      BY <1>4, <2>6 DEF PlannedBundles, bundles
    <2>8. split' = split
      BY <1>7, <2>6 DEF PlannedSplit, split
    <2>9. hashes' = hashes
      BY <1>7, <2>7, <2>8 DEF PlannedHashes, hashes, bundles, split
    <2>10. records' = records
      BY <1>7, <2>6, <2>8, <2>9 DEF PlannedRecords, records, hashes, bundles, split
    <2>11. /\ plan.bundles = bundles' /\ plan.split = split' /\ plan.hashes = hashes'
           /\ plan.candidates = Cardinality(records') /\ plan.selected = selected
      BY <1>5, <2>7, <2>8, <2>9, <2>10
    <2>12. /\ SelectionOK(records') /\ selected \in Selections(records')
      BY <1>2, <1>3, <2>10
    <2>13. /\ \A l \in Lanes(Stage) : BundleOK(l, Seen(<<"trace", l>>)', Seen(<<"report", l>>)')
           /\ Disjoint(ContaminationReceipt(selected, SeenIdentities'))
      BY <1>2, <1>3, <2>6
    <2>14. Planned'
      BY <1>7, <2>11, <2>12, <2>13 DEF Planned, hashes, records, bundles, split
    <2>15. /\ \A k \in DOMAIN prep'.seen : prep'.seen[k] = world'.data[SourceOrder(Stage)[k]]
           /\ \A k \in DOMAIN prep'.seen, l \in Lanes(Stage) :
                 SourceOrder(Stage)[k] = <<"report", l>> =>
                     world'.data[<<"report", l>>] = world'.data[<<"trace", l>>]
      <3>1. /\ \A k \in DOMAIN prep.seen : prep.seen[k] = world.data[SourceOrder(Stage)[k]]
            /\ \A k \in DOMAIN prep.seen, l \in Lanes(Stage) :
                  SourceOrder(Stage)[k] = <<"report", l>> =>
                      world.data[<<"report", l>>] = world.data[<<"trace", l>>]
        BY <2>2 DEF Current
      <3>2. prep'.seen = prep.seen /\ world' = world
        BY <1>4, <1>7
      <3>3. QED
        BY <3>1, <3>2
    <2>16. /\ prep'.license = "local research" /\ prep'.leak = LeakageRegistry'
           /\ prep'.tokenizer = world'.tokenizer /\ DOMAIN prep'.seen = DOMAIN SourceOrder(Stage)
      BY <1>4, <1>7, <2>3, <2>4, <2>5
    <2>17. QED
      BY <2>14, <2>15, <2>16 DEF Current
  <1>10. QED
    BY <1>4, <1>8, <1>9, OnlyPrep

\* What is current stays so while the plan is published.
LEMMA PublishingIsCurrent ==
  ASSUME AcceptInv, UNCHANGED world, SamePlan, prep.pc \in Publishing, NEW next \in Publishing,
         prep'.pc = next, prep'.disturbed = prep.disturbed
  PROVE  CurrentInv'
  <1>1. SUFFICES ASSUME ~prep.disturbed PROVE Current'
    BY DEF CurrentInv
  <1>2. /\ prep.pc \notin {"idle", "policy", "tokenizer"} /\ prep'.pc \notin {"policy", "tokenizer"}
        /\ prep.pc # "policy" /\ prep.pc # "idle"
    BY DEF Publishing
  <1>3. Current
    BY <1>1, <1>2 DEF AcceptInv, CurrentInv
  <1>4. /\ prep.license = "local research" /\ prep.leak = LeakageRegistry /\ prep.tokenizer = world.tokenizer
        /\ DOMAIN prep.seen = DOMAIN SourceOrder(Stage) /\ Planned
    <2>1. prep.license = "local research" /\ prep.leak = LeakageRegistry
      BY <1>2, <1>3 DEF Current
    <2>2. prep.tokenizer = world.tokenizer
      BY <1>2, <1>3 DEF Current
    <2>3. DOMAIN prep.seen = DOMAIN SourceOrder(Stage) /\ Planned
      BY <1>3 DEF Current
    <2>4. QED
      BY <2>1, <2>2, <2>3
  <1>5. /\ \A k \in DOMAIN prep.seen : prep.seen[k] = world.data[SourceOrder(Stage)[k]]
        /\ \A k \in DOMAIN prep.seen, l \in Lanes(Stage) :
              SourceOrder(Stage)[k] = <<"report", l>> =>
                  world.data[<<"report", l>>] = world.data[<<"trace", l>>]
    BY <1>3 DEF Current
  <1>6. LeakageRegistry' = LeakageRegistry
    BY DEF LeakageRegistry
  <1>7. Planned'
    BY <1>4, SamePlanned
  <1>8. /\ prep'.seen = prep.seen /\ world' = world /\ prep'.license = prep.license
        /\ prep'.leak = prep.leak /\ prep'.tokenizer = prep.tokenizer
    BY DEF SamePlan
  <1>9. /\ prep'.license = "local research" /\ prep'.leak = LeakageRegistry' /\ prep'.tokenizer = world'.tokenizer
        /\ DOMAIN prep'.seen = DOMAIN SourceOrder(Stage)
    BY <1>4, <1>6, <1>8
  <1>10. /\ \A k \in DOMAIN prep'.seen : prep'.seen[k] = world'.data[SourceOrder(Stage)[k]]
         /\ \A k \in DOMAIN prep'.seen, l \in Lanes(Stage) :
               SourceOrder(Stage)[k] = <<"report", l>> =>
                   world'.data[<<"report", l>>] = world'.data[<<"trace", l>>]
    BY <1>5, <1>8
  <1>11. QED
    BY <1>7, <1>9, <1>10 DEF Current

\* The next artifact: only the preparation's place moves.
LEMMA GotoIs ==
  ASSUME StageInv, prep.pc # "idle", NEW next, Goto(next)
  PROVE  SamePlan /\ prep'.pc = next /\ prep'.lane = prep.lane /\ prep'.disturbed = prep.disturbed
  <1>1. DOMAIN prep = {"pc", "dry", "disturbed", "meta", "leak", "license", "tokenizer", "seen",
                       "plan", "source", "lane"}
    BY DEF StageInv, PrepInv
  <1>2. QED
    BY <1>1 DEF Goto, SamePlan

\* One lane is the first, two are both.
LEMMA LastLane ==
  /\ ~MultiLane(Stage) => Lanes(Stage) = {"openhands"} /\ Cardinality(Lanes(Stage)) = 1
  /\ MultiLane(Stage) => Lanes(Stage) = {"openhands", "ost"} /\ Cardinality(Lanes(Stage)) = 2
  <1>1. Cardinality({"openhands"}) = 1 /\ IsFiniteSet({"openhands"})
    BY FS_Singleton
  <1>2. Cardinality({"openhands", "ost"}) = 2
    <2>1. Cardinality({"openhands"} \cup {"ost"}) = 2
      BY <1>1, FS_AddElement
    <2>2. {"openhands"} \cup {"ost"} = {"openhands", "ost"}
      OBVIOUS
    <2>3. QED
      BY <2>1, <2>2
  <1>3. CASE Stage = "100k"
    <2>1. Lanes(Stage) = {"openhands"}
      BY <1>3 DEF Lanes
    <2>2. QED
      BY <1>1, <2>1 DEF MultiLane
  <1>4. CASE Stage # "100k"
    <2>1. Lanes(Stage) = {"openhands", "ost"}
      BY <1>4 DEF Lanes
    <2>2. QED
      BY <1>2, <2>1 DEF MultiLane
  <1>5. QED
    BY <1>3, <1>4

LEMMA PublishConversionAccept ==
  ASSUME StageInv, AcceptInv, PublishConversion
  PROVE  AcceptInv'
  <1> DEFINE lane == LaneAt(prep.lane)
             planned == prep.plan.bundles[lane]
             last == prep.lane = Cardinality(Lanes(Stage))
  <1>1. PICK written :
          /\ disk' = [disk EXCEPT !.conversion[lane] = written]
          /\ prep' = IF written # planned THEN NoPreparation
                     ELSE [prep EXCEPT !.lane = IF last THEN @ ELSE @ + 1,
                                       !.pc = IF last THEN "evals" ELSE "convert"]
    BY DEF PublishConversion
  <1>2. prep.pc = "convert" /\ Republished /\ world' = world
    BY DEF PublishConversion, Republished
  <1>3. /\ DOMAIN prep = {"pc", "dry", "disturbed", "meta", "leak", "license", "tokenizer", "seen",
                          "plan", "source", "lane"}
        /\ DOMAIN disk = DiskFields /\ DOMAIN disk.conversion = Lanes(Stage)
        /\ prep.lane \in {1, 2} /\ (prep.lane = 2 => MultiLane(Stage))
        /\ prep.lane = 2 => disk.conversion["openhands"] = prep.plan.bundles["openhands"]
    BY <1>2 DEF StageInv, PrepInv, DiskInv, AcceptInv, PublishedInv
  <1>4. (prep.lane = 1 => lane = "openhands") /\ (prep.lane = 2 => lane = "ost")
    BY DEF LaneAt
  <1>5. last <=> (prep.lane = 2 \/ ~MultiLane(Stage))
    BY <1>3, LastLane
  <1> HIDE DEF lane, planned, last
  <1>6. disk'.conversion = [disk.conversion EXCEPT ![lane] = written]
    BY <1>1, <1>3 DEF DiskFields
  <1>7. DOMAIN disk'.conversion = Lanes(Stage)
    BY <1>3, <1>6
  <1>8. CASE written # planned
    <2>1. prep' = NoPreparation /\ prep'.pc = "idle"
      BY <1>1, <1>8 DEF NoPreparation
    <2>2. CurrentInv' /\ PublishedInv'
      BY <1>7, <2>1 DEF CurrentInv, PublishedInv, Publishing
    <2>3. QED
      BY <1>2, <2>2, PrepWrites
  <1>9. CASE written = planned
    <2>1. /\ SamePlan /\ prep'.disturbed = prep.disturbed
          /\ prep'.lane = (IF last THEN prep.lane ELSE prep.lane + 1)
          /\ prep'.pc = (IF last THEN "evals" ELSE "convert")
      BY <1>1, <1>3, <1>9 DEF SamePlan
    <2>2. CurrentInv'
      <3>1. prep'.pc \in Publishing /\ prep.pc \in Publishing
        BY <1>2, <2>1 DEF Publishing
      <3>2. QED
        BY <1>2, <2>1, <3>1, PublishingIsCurrent
    <2>3. prep'.plan.bundles = prep.plan.bundles
      BY <2>1 DEF SamePlan
    <2>4. CASE ~last
      <3>1. prep.lane = 1 /\ MultiLane(Stage) /\ lane = "openhands" /\ lane \in Lanes(Stage)
        BY <1>3, <1>4, <1>5, <2>4, LastLane
      <3>2. disk'.conversion["openhands"] = prep'.plan.bundles["openhands"]
        BY <1>3, <1>6, <1>9, <2>3, <3>1 DEF planned
      <3>3. prep'.lane = 2 /\ prep'.pc = "convert"
        BY <2>1, <2>4, <3>1
      <3>4. PublishedInv'
        BY <1>7, <3>1, <3>2, <3>3 DEF PublishedInv, Publishing
      <3>5. QED
        BY <1>2, <2>2, <3>4, PrepWrites
    <2>5. CASE last
      <3>1. prep'.lane = prep.lane /\ prep'.pc = "evals"
        BY <2>1, <2>5
      <3>2. ASSUME NEW l \in Lanes(Stage)
            PROVE  disk'.conversion[l] = prep'.plan.bundles[l]
        <4>1. CASE l = lane
          BY <1>3, <1>6, <1>9, <2>3, <4>1 DEF planned
        <4>2. CASE l # lane
          <5>1. prep.lane = 2 /\ l = "openhands"
            BY <1>3, <1>4, <1>5, <2>5, <4>2, LastLane
          <5>2. QED
            BY <1>3, <1>6, <2>3, <4>2, <5>1
        <4>3. QED
          BY <4>1, <4>2
      <3>3. PublishedInv'
        BY <1>3, <1>7, <3>1, <3>2 DEF PublishedInv, Publishing
      <3>4. QED
        BY <1>2, <2>2, <3>3, PrepWrites
    <2>6. QED
      BY <2>4, <2>5
  <1>10. QED
    BY <1>8, <1>9

LEMMA PublishEvalIndexAccept ==
  ASSUME StageInv, AcceptInv, PublishEvalIndex
  PROVE  AcceptInv'
  <1> DEFINE evals == [f \in Families |-> AuthorizedPayload(<<"eval", f>>)]
             found == ContaminationReceipt(prep.plan.selected, IdentitiesOf(evals))
             expected == ContaminationReceipt(prep.plan.selected, SeenIdentities)
  <1>1. /\ prep.pc = "evals" /\ disk' = [disk EXCEPT !.evals = evals] /\ Republished
        /\ IF found # expected THEN prep' = NoPreparation ELSE Goto("shard")
    BY DEF PublishEvalIndex
  <1>2. found.evaluation = IdentitiesOf(evals) /\ expected.evaluation = SeenIdentities
    BY DEF ContaminationReceipt
  <1>3. DOMAIN evals = Families
    OBVIOUS
  <1> HIDE DEF evals, found, expected
  <1>4. disk'.evals = evals /\ disk'.conversion = disk.conversion
    BY <1>1 DEF StageInv, DiskInv, DiskFields
  <1>5. CASE found # expected
    <2>1. CurrentInv' /\ PublishedInv'
      BY <1>1, <1>4, <1>5, StoppedKnows DEF AcceptInv
    <2>2. QED
      BY <1>1, <2>1, PrepWrites
  <1>6. CASE found = expected
    <2>1. SamePlan /\ prep'.pc = "shard" /\ prep'.lane = prep.lane /\ prep'.disturbed = prep.disturbed
      <3>1. Goto("shard") /\ prep.pc # "idle"
        BY <1>1, <1>6
      <3>2. QED
        BY <3>1, GotoIs
    <2>2. CurrentInv'
      <3>1. prep.pc \in Publishing /\ prep'.pc \in Publishing /\ world' = world
        BY <1>1, <2>1 DEF Publishing, Republished
      <3>2. QED
        BY <2>1, <3>1, PublishingIsCurrent
    <2>3. SeenIdentities' = SeenIdentities /\ prep'.plan = prep.plan
      BY <2>1, SameSeen DEF SamePlan
    <2>4. DOMAIN disk'.evals = Families /\ IdentitiesOf(disk'.evals) = SeenIdentities'
      BY <1>2, <1>3, <1>4, <1>6, <2>3
    <2>5. /\ DOMAIN disk.conversion = Lanes(Stage) /\ prep.lane \in {1, 2} /\ (prep.lane = 2 => MultiLane(Stage))
          /\ \A l \in Lanes(Stage) : disk.conversion[l] = prep.plan.bundles[l]
      BY <1>1 DEF AcceptInv, PublishedInv, Publishing
    <2>6. PublishedInv'
      BY <1>4, <2>1, <2>3, <2>4, <2>5 DEF PublishedInv, Publishing
    <2>7. QED
      BY <1>1, <2>2, <2>6, PrepWrites
  <1>7. QED
    BY <1>5, <1>6

\* The shard, the manifest and the receipts, once every index is published.
LEMMA LastArtifacts ==
  ASSUME StageInv, AcceptInv, PublishShard \/ PublishManifest \/ PublishReceipts \/ (CheckSources /\ ~Stop)
  PROVE  AcceptInv'
  <1>1. /\ world' = world /\ prep.pc \in {"shard", "check", "manifest", "receipts"}
        /\ prep.pc \in Publishing \ {"convert"} /\ prep.pc \in Publishing \ {"convert", "evals"}
    BY DEF PublishShard, PublishManifest, PublishReceipts, CheckSources, Republished, Rest, Publishing
  <1>2. DOMAIN disk = DiskFields
    BY DEF StageInv, DiskInv
  <1>3. /\ DOMAIN disk.conversion = Lanes(Stage) /\ prep.lane \in {1, 2} /\ (prep.lane = 2 => MultiLane(Stage))
        /\ \A l \in Lanes(Stage) : disk.conversion[l] = prep.plan.bundles[l]
        /\ DOMAIN disk.evals = Families /\ IdentitiesOf(disk.evals) = SeenIdentities
        /\ prep.pc = "receipts" => disk.manifest = Manifest
    BY <1>1 DEF AcceptInv, PublishedInv
  <1>4. ASSUME NEW next \in {"check", "manifest", "receipts", "candidate"}, Goto(next),
               disk'.conversion = disk.conversion, disk'.evals = disk.evals,
               next \in {"receipts", "candidate"} => disk'.manifest = Manifest,
               next = "candidate" => disk'.receipts = Receipts
        PROVE  CurrentInv' /\ PublishedInv'
    <2>1. SamePlan /\ prep'.pc = next /\ prep'.lane = prep.lane /\ prep'.disturbed = prep.disturbed
      <3>1. prep.pc # "idle"
        BY <1>1
      <3>2. QED
        BY <1>4, <3>1, GotoIs
    <2>2. CurrentInv'
      <3>1. prep.pc \in Publishing /\ next \in Publishing
        BY <1>1 DEF Publishing
      <3>2. QED
        BY <1>1, <2>1, <3>1, PublishingIsCurrent
    <2>3. SeenIdentities' = SeenIdentities /\ prep'.plan = prep.plan
      BY <2>1, SameSeen DEF SamePlan
    <2>4. Manifest' = Manifest /\ Receipts' = Receipts
      BY <1>4, <2>1, SameManifest, SameReceipts
    <2>5. PublishedInv'
      BY <1>3, <1>4, <2>1, <2>3, <2>4 DEF PublishedInv, Publishing
    <2>6. QED
      BY <2>2, <2>5
  <1>5. CASE PublishShard
    <2>1. disk'.conversion = disk.conversion /\ disk'.evals = disk.evals /\ Goto("check") /\ Republished
      BY <1>2, <1>5 DEF PublishShard, DiskFields
    <2>2. CurrentInv' /\ PublishedInv'
      BY <1>4, <2>1
    <2>3. QED
      BY <2>1, <2>2, PrepWrites
  <1>6. CASE CheckSources /\ ~Stop
    <2>1. Goto("manifest") /\ UNCHANGED <<world, disk, operator, verdict>>
      BY <1>6 DEF CheckSources, Rest
    <2>2. CurrentInv' /\ PublishedInv'
      BY <1>4, <2>1
    <2>3. QED
      BY <2>1, <2>2, OnlyPrep
  <1>7. CASE PublishManifest
    <2>1. /\ disk'.conversion = disk.conversion /\ disk'.evals = disk.evals /\ disk'.manifest = Manifest
          /\ Goto("receipts") /\ Republished
      BY <1>2, <1>7 DEF PublishManifest, DiskFields
    <2>2. CurrentInv' /\ PublishedInv'
      BY <1>4, <2>1
    <2>3. QED
      BY <2>1, <2>2, PrepWrites
  <1>8. CASE PublishReceipts
    <2>1. /\ disk'.conversion = disk.conversion /\ disk'.evals = disk.evals /\ disk'.manifest = disk.manifest
          /\ disk'.receipts = Receipts /\ Goto("candidate") /\ Republished /\ prep.pc = "receipts"
      BY <1>2, <1>8 DEF PublishReceipts, DiskFields
    <2>2. CurrentInv' /\ PublishedInv'
      BY <1>3, <1>4, <2>1
    <2>3. QED
      BY <2>1, <2>2, PrepWrites
  <1>9. QED
    BY <1>5, <1>6, <1>7, <1>8

-----------------------------------------------------------------------------
(* The validator's answers.                                                  *)

\* The digest of a scope leads to it.
LEMMA KnownIs ==
  ASSUME NEW scope, operator.scopes \in Seq(ToSet(operator.scopes))
  PROVE  Known(scope)[DigestIn(Known(scope), scope)] = scope
  <1>1. \E n \in DOMAIN Known(scope) : Known(scope)[n] = scope
    <2>1. CASE scope \in ToSet(operator.scopes)
      BY <2>1 DEF Known, ToSet
    <2>2. CASE scope \notin ToSet(operator.scopes)
      <3>1. Known(scope) = Append(operator.scopes, scope)
        BY <2>2 DEF Known
      <3>2. Len(operator.scopes) + 1 \in DOMAIN Known(scope) /\ Known(scope)[Len(operator.scopes) + 1] = scope
        BY <3>1
      <3>3. QED
        BY <3>2
    <2>3. QED
      BY <2>1, <2>2
  <1>2. QED
    BY <1>1 DEF DigestIn

LEMMA BuildCandidateAccept ==
  ASSUME StageInv, AcceptInv, BuildCandidate
  PROVE  AcceptInv'
  <1> DEFINE shard == ShardOf(prep.plan.selected)
             scope == Scope(shard)
             held == Held(shard)
             ok == Coherent(scope, held, prep.tokenizer, world.leak)
  <1>1. /\ prep.pc = "candidate" /\ prep' = NoPreparation /\ world' = world
        /\ DOMAIN disk = DiskFields /\ DOMAIN operator = {"scopes", "read", "approved", "changed"}
        /\ operator.scopes \in Seq(ToSet(operator.scopes))
    BY DEF BuildCandidate, StageInv, DiskInv, OperatorInv
  <1>2. CASE world.dirty \/ ~CanHold(shard)
    <2>1. UNCHANGED <<disk, operator, verdict>>
      BY <1>2 DEF BuildCandidate
    <2>2. CurrentInv' /\ PublishedInv'
      BY <1>1, <2>1, StoppedKnows DEF AcceptInv
    <2>3. QED
      BY <1>1, <2>1, <2>2, OnlyPrep
  <1>3. CASE ~world.dirty /\ CanHold(shard)
    <2>1. /\ verdict' = [by |-> "candidate", ok |-> ok, changed |-> prep.disturbed]
          /\ operator' = IF ok THEN [operator EXCEPT !.changed = FALSE, !.scopes = Known(scope)] ELSE operator
          /\ disk' = IF ok THEN [disk EXCEPT !.candidate = DigestIn(operator'.scopes, scope)] ELSE disk
      BY <1>3 DEF BuildCandidate
    <2>2. ~prep.disturbed => ok
      BY <1>1, PublishedIsCoherent
    <2>3. (ok => Coherent(scope, held, prep.tokenizer, world.leak)) /\ scope = Scope(shard) /\ held = Held(shard)
      OBVIOUS
    <2> HIDE DEF ok, scope, held, shard
    <2>4. AcceptedUnlessChanged'
      BY <2>1, <2>2 DEF AcceptedUnlessChanged
    <2>5. RowsInv'
      BY <1>1 DEF AcceptInv, RowsInv
    <2>6. CASE ~ok
      <3>1. disk' = disk /\ operator' = operator
        BY <2>1, <2>6
      <3>2. CurrentInv' /\ PublishedInv'
        BY <1>1, <3>1, StoppedKnows DEF AcceptInv
      <3>3. ASSUME NEW n PROVE Verified(ScopeOf(n))' = Verified(ScopeOf(n))
        BY <1>1, <3>1, SameVerified
      <3>4. CandidateInv'
        BY <3>1, <3>3 DEF AcceptInv, CandidateInv
      <3>5. QED
        BY <2>4, <2>5, <3>2, <3>4 DEF AcceptInv
    <2>7. CASE ok
      <3>1. /\ disk'.conversion = disk.conversion /\ disk'.evals = disk.evals
            /\ disk'.manifest = disk.manifest /\ disk'.receipts = disk.receipts
            /\ disk'.shards = disk.shards /\ disk'.damaged = disk.damaged
            /\ operator'.scopes = Known(scope) /\ disk'.candidate = DigestIn(Known(scope), scope)
        BY <1>1, <2>1, <2>7 DEF DiskFields
      <3>2. CurrentInv' /\ PublishedInv'
        BY <1>1, <3>1, StoppedKnows DEF AcceptInv
      <3>3. ScopeOf(disk.candidate)' = scope
        BY <1>1, <3>1, KnownIs DEF ScopeOf
      <3>4. /\ scope.tokenizer = world.tokenizer /\ scope.commit = world.commit /\ scope.artifacts = held
            /\ held.shard = shard /\ held.manifest = disk.manifest
        BY <2>3 DEF Scope, Held, PinnedSnapshot
      <3>5. prep.tokenizer = world.tokenizer
        <4>1. held.manifest.tokenizer = scope.tokenizer
          BY <2>3, <2>7 DEF Coherent, ManifestCoherent
        <4>2. disk.manifest = Manifest
          BY <1>1 DEF AcceptInv, PublishedInv
        <4>3. Manifest.tokenizer = prep.tokenizer
          BY DEF Manifest
        <4>4. QED
          BY <3>4, <4>1, <4>2, <4>3
      <3>6. Coherent(scope, held, world'.tokenizer, world'.leak)
        BY <1>1, <2>3, <2>7, <3>5
      <3>7. PICK sc, s, h : sc = scope /\ s = shard /\ h = held
        OBVIOUS
      <3>8. CandidateInv'
        <4>1. CanHold(s)' = CanHold(s) /\ Held(s)' = Held(s)
          BY <3>1 DEF CanHold, Held
        <4>2. CanHold(s)' /\ Held(s)' = h
          BY <1>3, <2>3, <3>7, <4>1
        <4>3. /\ sc.tokenizer = world.tokenizer /\ sc.commit = world.commit
              /\ sc.artifacts = h /\ h.shard = s /\ sc.artifacts.shard = s
          BY <3>4, <3>7
        <4>4. ExactScope(sc)'
          BY <1>1, <1>3, <4>3 DEF ExactScope, PinnedSnapshot
        <4>5. Coherent(sc, h, PinnedSnapshot', world'.leak)
          BY <3>6, <3>7 DEF PinnedSnapshot
        <4>6. Verified(sc)'
          BY <4>2, <4>3, <4>4, <4>5 DEF Verified
        <4>7. Verified(ScopeOf(disk.candidate))'
          <5>1. ScopeOf(disk.candidate)' = sc
            BY <3>3, <3>7
          <5>2. QED
            BY <4>2, <4>3, <4>4, <4>5, <5>1 DEF Verified, ExactScope
        <4>8. QED
          BY <4>7 DEF CandidateInv
      <3>9. QED
        BY <2>4, <2>5, <3>2, <3>8 DEF AcceptInv
    <2>8. QED
      BY <2>6, <2>7
  <1>4. QED
    BY <1>2, <1>3

\* Reading and approving a digest touches nothing the validator looks at.
LEMMA ApprovingAccepts ==
  ASSUME StageInv, AcceptInv, ReadCandidate \/ Finalize
  PROVE  AcceptInv'
  <1>1. /\ world' = world /\ prep' = prep /\ verdict' = verdict /\ operator'.scopes = operator.scopes
        /\ operator'.changed = operator.changed /\ disk'.candidate = disk.candidate
        /\ disk'.conversion = disk.conversion /\ disk'.evals = disk.evals
        /\ disk'.manifest = disk.manifest /\ disk'.receipts = disk.receipts
        /\ disk'.shards = disk.shards /\ disk'.damaged = disk.damaged
    BY DEF ReadCandidate, Finalize, StageInv, OperatorInv, DiskInv, DiskFields
  <1>2. SamePlan
    BY <1>1 DEF SamePlan
  <1>3. PublishedInv'
    BY <1>1, <1>2, SamePublished DEF AcceptInv
  <1>4. CurrentInv'
    <2>1. CASE prep.pc = "idle"
      BY <1>1, <2>1 DEF CurrentInv
    <2>2. CASE prep.pc \in Publishing
      BY <1>1, <1>2, <2>2, PublishingIsCurrent
    <2>3. CASE prep.pc \notin Publishing
      BY <1>1, <2>3 DEF AcceptInv, CurrentInv, Current, LeakageRegistry, Publishing
    <2>4. QED
      BY <2>1, <2>2, <2>3
  <1>5. ASSUME NEW n PROVE Verified(ScopeOf(n))' = Verified(ScopeOf(n))
    BY <1>1, SameVerified
  <1>6. RowsInv' /\ CandidateInv' /\ AcceptedUnlessChanged'
    BY <1>1, <1>5 DEF AcceptInv, RowsInv, CandidateInv, AcceptedUnlessChanged
  <1>7. QED
    BY <1>3, <1>4, <1>6 DEF AcceptInv

LEMMA StageAccept ==
  ASSUME StageInv, AcceptInv, StageNext
  PROVE  AcceptInv'
  <1>1. CASE CheckSources
    BY <1>1, LastArtifacts, StopAccept
  <1>2. CASE ~CheckSources
    BY <1>2, SurroundingsAccept, StopAccept, BeginAccept, ReadingAccept, ReadSourceAccept, PlanAccept,
       PublishConversionAccept, PublishEvalIndexAccept, LastArtifacts, BuildCandidateAccept, ApprovingAccepts
       DEF StageNext, Kill, DryRun
  <1>3. QED
    BY <1>1, <1>2

\* The stage as it is; only the answer may be another.
LEMMA StageUntouched ==
  ASSUME AcceptInv, UNCHANGED <<world, disk, prep, operator>>, AcceptedUnlessChanged'
  PROVE  AcceptInv'
  <1>1. SamePlan
    BY DEF SamePlan
  <1>2. PublishedInv'
    BY <1>1, SamePublished DEF AcceptInv
  <1>3. CurrentInv'
    <2>1. CASE prep.pc = "idle"
      BY <2>1 DEF CurrentInv
    <2>2. CASE prep.pc \in Publishing
      BY <1>1, <2>2, PublishingIsCurrent
    <2>3. CASE prep.pc \notin Publishing
      BY <2>3 DEF AcceptInv, CurrentInv, Current, LeakageRegistry, Publishing
    <2>4. QED
      BY <2>1, <2>2, <2>3
  <1>4. ASSUME NEW n PROVE Verified(ScopeOf(n))' = Verified(ScopeOf(n))
    BY SameVerified
  <1>5. RowsInv' /\ CandidateInv'
    BY <1>4 DEF AcceptInv, RowsInv, CandidateInv
  <1>6. QED
    BY <1>2, <1>3, <1>5 DEF AcceptInv

LEMMA PreflightAccept ==
  ASSUME AcceptInv, NEW request \in Requests, NEW from, Preflight(request, from)
  PROVE  AcceptInv'
  <1> DEFINE answer == Verified(ScopeOf(disk.final))
  <1>1. /\ verdict' = [by |-> "verify", ok |-> answer,
                       changed |-> operator.changed \/ disk.final # disk.candidate]
        /\ UNCHANGED <<world, disk, prep, operator>>
    BY DEF Preflight
  <1>2. ~operator.changed /\ disk.final = disk.candidate => answer
    BY DEF AcceptInv, CandidateInv
  <1> HIDE DEF answer
  <1>3. AcceptedUnlessChanged'
    BY <1>1, <1>2 DEF AcceptedUnlessChanged
  <1>4. QED
    BY <1>1, <1>3, StageUntouched

LEMMA AcceptStart == FoundationInit => AcceptInv
  <1> SUFFICES ASSUME FoundationInit PROVE AcceptInv
    OBVIOUS
  <1>1. /\ world.data = Initial /\ prep.pc = "idle" /\ operator.changed /\ verdict.changed
        /\ DOMAIN disk.conversion = Lanes(Stage)
    BY DEF FoundationInit, StageInit, NoPreparation, NoVerdict
  <1>2. RowsInv
    BY <1>1, SourcesAssumption DEF RowsInv
  <1>3. QED
    BY <1>1, <1>2 DEF AcceptInv, CurrentInv, PublishedInv, Publishing, CandidateInv, AcceptedUnlessChanged

LEMMA AcceptStep == StageInv /\ AcceptInv /\ [FoundationNext]_foundationVars => AcceptInv'
  <1> SUFFICES ASSUME StageInv, AcceptInv, [FoundationNext]_foundationVars PROVE AcceptInv'
    OBVIOUS
  <1>1. CASE StageNext /\ UNCHANGED trainVars
    BY <1>1, StageAccept
  <1>2. ASSUME NEW request \in Requests, NEW from, Preflight(request, from) PROVE AcceptInv'
    BY <1>2, PreflightAccept
  <1>3. CASE UNCHANGED stageVars
    <2>1. UNCHANGED <<world, disk, prep, operator>> /\ verdict' = verdict
      BY <1>3 DEF stageVars
    <2>2. AcceptedUnlessChanged'
      BY <2>1 DEF AcceptInv, AcceptedUnlessChanged
    <2>3. QED
      BY <2>1, <2>2, StageUntouched
  <1>4. CASE Train
    BY <1>2, <1>3, <1>4
       DEF Train, Load, NextWindow, Microbatch, Boundary, SaveFile, SaveIndex, Prune, WriteRows, Finish,
           Raise, Raised, KillRun
  <1>5. CASE UNCHANGED foundationVars
    BY <1>3, <1>5 DEF foundationVars
  <1>6. QED
    BY <1>1, <1>4, <1>5 DEF FoundationNext

(* The preparation and the separately written validator agree: what an       *)
(* undisturbed preparation publishes, over whatever a killed or refused one  *)
(* left behind, becomes a candidate, and a run under an approved stage that  *)
(* nothing has changed since is authorized (prepare_stage,                   *)
(* build_authorization_candidate, verify_foundation_authorization).  For any *)
(* rows, families, ceilings, edits, kills and approvals.                     *)
THEOREM PreparedIsAccepted == FoundationSpec => []AcceptedUnlessChanged
  <1> DEFINE Inv == StageInv /\ TrainInv /\ AcceptInv
  <1>1. FoundationInit => Inv
    BY FoundationStart, AcceptStart
  <1>2. Inv /\ [FoundationNext]_foundationVars => Inv'
    BY FoundationStep, AcceptStep
  <1>3. Inv => AcceptedUnlessChanged
    BY DEF AcceptInv
  <1> HIDE DEF Inv
  <1>4. QED
    BY <1>1, <1>2, <1>3, PTL DEF FoundationSpec

-----------------------------------------------------------------------------
(* Packets: what a pair says.  A set of numbers up to a bound has a greatest *)
(* element; so as much of a finding is kept as fits.                         *)
LEMMA GreatestOf ==
  ASSUME NEW T, NEW N \in Nat, T \subseteq 0 .. N, T # {}
  PROVE  \E x \in T : \A y \in T : y <= x
  <1> DEFINE U == {N - y : y \in T}
  <1> DEFINE R == {ss \in Nat \X Nat : ss[1] < ss[2]}
  <1>1. U \subseteq Nat
    <2> SUFFICES ASSUME NEW y \in T PROVE N - y \in Nat
      OBVIOUS
    <2>1. y \in 0 .. N
      OBVIOUS
    <2>2. QED
      BY <2>1
  <1>2. U # {}
    OBVIOUS
  <1>3. IsWellFoundedOn(R, Nat)
    BY NatLessThanWellFounded DEF OpToRel
  <1>4. \A x, y \in Nat : x < y => <<x, y>> \in R
    OBVIOUS
  <1> HIDE DEF R, U
  <1>5. PICK u \in U : \A v \in U : ~ (<<v, u>> \in R)
    BY <1>1, <1>2, <1>3, WFMin
  <1>6. PICK x \in T : u = N - x
    BY <1>5 DEF U
  <1>7. \A y \in T : y <= x
    <2> SUFFICES ASSUME NEW y \in T PROVE y <= x
      OBVIOUS
    <2>1. N - y \in U /\ y \in 0 .. N /\ x \in 0 .. N
      BY DEF U
    <2>2. ~ (N - y < N - x)
      BY <1>1, <1>4, <1>5, <1>6, <2>1
    <2>3. QED
      BY <2>1, <2>2
  <1>8. QED
    BY <1>7

LEMMA KeptFits ==
  ASSUME NEW atoms, NEW N \in Nat, DOMAIN atoms = 1 .. N, NEW budget, Kept(atoms, budget) > 0
  PROVE  Kept(atoms, budget) \in DOMAIN atoms
  <1> DEFINE T == Fitting(atoms, budget)
  <1>1. T \subseteq 0 .. N /\ T # {} /\ T \subseteq {0} \cup DOMAIN atoms
    BY DEF Fitting
  <1> HIDE DEF T
  <1>2. \E x \in T : \A y \in T : y <= x
    BY <1>1, GreatestOf
  <1>3. Kept(atoms, budget) \in T
    BY <1>2 DEF Kept, T
  <1>4. Kept(atoms, budget) \in {0} \cup DOMAIN atoms
    BY <1>1, <1>3
  <1>5. Kept(atoms, budget) # 0
    <2>1. ASSUME Kept(atoms, budget) = 0 PROVE 0 > 0
      BY <2>1
    <2>2. ~ (0 > 0)
      OBVIOUS
    <2>3. QED
      BY <2>1, <2>2
  <1>6. QED
    BY <1>4, <1>5

LEMMA RewrittenAs ==
  ASSUME NEW f, NEW d, NEW alias
  PROVE  /\ Rewritten(f, d, alias).id = f.id /\ Rewritten(f, d, alias).severity = f.severity
         /\ DOMAIN Rewritten(f, d, alias).atoms = DOMAIN d.atoms
  BY DEF Rewritten

FocalFindings == reports.focal.findings
DonorFindings == reports.donor.findings

LEMMA FindingsAre ==
  ASSUME reports \in Reports
  PROVE  /\ Len(FocalFindings) \in Nat /\ DOMAIN FocalFindings = 1 .. Len(FocalFindings)
         /\ Len(DonorFindings) \in Nat /\ DOMAIN DonorFindings = 1 .. Len(DonorFindings)
         /\ \A i \in 1 .. Len(FocalFindings) : \E N \in Nat : DOMAIN FocalFindings[i].atoms = 1 .. N
         /\ \A i \in 1 .. Len(DonorFindings) : \E N \in Nat : DOMAIN DonorFindings[i].atoms = 1 .. N
  <1>1. \A who \in {"focal", "donor"} : LET findings == reports[who].findings
        IN  /\ Len(findings) \in Nat /\ DOMAIN findings = 1 .. Len(findings)
            /\ \A i \in 1 .. Len(findings) : \E N \in Nat : DOMAIN findings[i].atoms = 1 .. N
    BY ReportsAssumption
  <1>2. QED
    BY <1>1 DEF FocalFindings, DonorFindings

\* A packet of n rows that names no donor.
Nameless(p) ==
    \A id \in DonorIdentities(SubSeq(reports.donor.findings, 1, Len(p.rows))) :
        ~Occurs(id, TextOf(p.rows, p.padding))

\* What an audit has made sure of, about the packets of a candidate.
Sound(entry) ==
    /\ Applicable(entry.pair.real.rows) /\ Disguised(entry.pair.sham.rows)
    /\ Alike(entry.pair.real, entry.pair.sham)
    /\ Nameless(entry.pair.real) /\ Nameless(entry.pair.sham)

\* The pair that the findings and a renaming of them give.
LEMMA PairIsSound ==
  ASSUME reports \in Reports, policy \in Policies, NEW alias,
         Renames(alias, FocalFindings, DonorFindings),
         Buildable(FocalFindings, DonorFindings, alias),
         NEW pair, pair = Pair(FocalFindings, DonorFindings, alias)
  PROVE  /\ Applicable(pair.real.rows) /\ Disguised(pair.sham.rows)
         /\ Alike(pair.real, pair.sham) /\ Nameless(pair.real) /\ Nameless(pair.sham)
  <1> DEFINE F == FocalFindings
             D == DonorFindings
             n == Together(F, D)
             S == RewrittenAll(F, D, alias, n)
             rows == Rows(F, D, alias)
             real == pair.real.rows
             sham == pair.sham.rows
  <1>1. n \in Nat /\ n <= Len(F) /\ n <= Len(D)
    <2>1. policy.findings \in Nat
      BY PoliciesAssumption
    <2>2. Len(F) \in Nat /\ Len(D) \in Nat
      BY FindingsAre
    <2> HIDE DEF F, D
    <2>3. QED
      BY <2>1, <2>2 DEF Together, Least
  <1>2. /\ \A i \in 1 .. n : \E N \in Nat : DOMAIN F[i].atoms = 1 .. N
        /\ \A i \in 1 .. n : \E N \in Nat : DOMAIN D[i].atoms = 1 .. N
    <2>1. \A i \in 1 .. n : i \in 1 .. Len(F) /\ i \in 1 .. Len(D)
      BY <1>1, FindingsAre
    <2>2. QED
      BY <2>1, FindingsAre
  <1>3. pair.real = Padded(rows.real, Padding(rows.real, Target(rows)))
        /\ pair.sham = Padded(rows.sham, Padding(rows.sham, Target(rows)))
    BY DEF Pair
  <1>4. real = Bounded(F, n) /\ sham = Bounded(S, n)
    BY <1>3 DEF Padded, Rows
  <1>5. NothingDropped(F, n) /\ NothingDropped(S, n)
    BY DEF Buildable
  <1>6. Size(pair.real) = Size(pair.sham)
        /\ \A id \in DonorIdentities(SubSeq(D, 1, n)), packet \in {pair.real, pair.sham} :
               ~Occurs(id, TextOf(packet.rows, packet.padding))
    BY DEF Buildable
  <1> HIDE DEF rows
  <1>7. /\ DOMAIN real = 1 .. n /\ DOMAIN sham = 1 .. n
        /\ \A i \in 1 .. n : real[i] = RowOf(F[i], Kept(F[i].atoms, Budget(n)))
        /\ \A i \in 1 .. n : sham[i] = RowOf(S[i], Kept(S[i].atoms, Budget(n)))
    BY <1>4 DEF Bounded
  <1>8. Len(real) = n /\ Len(sham) = n
    BY <1>1, <1>4, <1>7, LenProperties
  <1>9. \A i \in 1 .. n : S[i] = Rewritten(F[i], D[i], alias)
    BY DEF RewrittenAll
  <1> HIDE DEF S, real, sham
  <1>10. Applicable(real)
    <2> SUFFICES ASSUME NEW i \in 1 .. n
                 PROVE  \E m \in DOMAIN F[i].atoms : real[i] = RowOf(F[i], m)
      BY <1>7 DEF Applicable, FocalFindings
    <2>1. PICK N \in Nat : DOMAIN F[i].atoms = 1 .. N
      BY <1>2
    <2>2. Kept(F[i].atoms, Budget(n)) > 0
      BY <1>5 DEF NothingDropped
    <2>3. Kept(F[i].atoms, Budget(n)) \in DOMAIN F[i].atoms
      BY <2>1, <2>2, KeptFits
    <2>4. QED
      BY <1>7, <2>3
  <1>11. Disguised(sham)
    <2>1. /\ alias \in [Identifiers(D) -> Identifiers(F)]
          /\ \A a, b \in DOMAIN alias : alias[a].kind = a.kind /\ (alias[a] = alias[b] => a = b)
      BY DEF Renames
    <2>2. ASSUME NEW i \in 1 .. n
          PROVE  \E m \in DOMAIN D[i].atoms : sham[i] = RowOf(Rewritten(F[i], D[i], alias), m)
      <3>1. DOMAIN S[i].atoms = DOMAIN D[i].atoms
        BY <1>9, RewrittenAs
      <3>2. PICK N \in Nat : DOMAIN D[i].atoms = 1 .. N
        BY <1>2
      <3>3. Kept(S[i].atoms, Budget(n)) > 0
        BY <1>5 DEF NothingDropped
      <3>4. Kept(S[i].atoms, Budget(n)) \in DOMAIN D[i].atoms
        BY <3>1, <3>2, <3>3, KeptFits
      <3>5. QED
        BY <1>7, <1>9, <3>4
    <2>3. QED
      BY <1>7, <2>1, <2>2 DEF Disguised, FocalFindings, DonorFindings
  <1>12. Alike(pair.real, pair.sham)
    <2>1. \A i \in 1 .. n : real[i].id = F[i].id /\ real[i].severity = F[i].severity
      BY <1>7 DEF RowOf
    <2>2. \A i \in 1 .. n : sham[i].id = S[i].id /\ sham[i].severity = S[i].severity
      BY <1>7 DEF RowOf
    <2>3. \A i \in 1 .. n : S[i].id = F[i].id /\ S[i].severity = F[i].severity
      BY <1>9, RewrittenAs
    <2>4. \A i \in 1 .. n : real[i].id = sham[i].id /\ real[i].severity = sham[i].severity
      BY <2>1, <2>2, <2>3
    <2>5. QED
      BY <1>6, <1>7, <2>4 DEF Alike, real, sham
  <1>13. Nameless(pair.real) /\ Nameless(pair.sham)
    BY <1>6, <1>8 DEF Nameless, DonorFindings, real, sham
  <1>14. QED
    BY <1>10, <1>11, <1>12, <1>13 DEF real, sham

\* So an audited candidate is sound.
LEMMA AuditedIsSound ==
  ASSUME reports \in Reports, policy \in Policies, NEW entry, Reproduced(entry)
  PROVE  Sound(entry)
  <1> DEFINE docs == entry.docs
  <1>1. Rederives(docs) /\ Buildable(docs.focal.findings, docs.donor.findings, docs.map.alias)
    BY DEF Reproduced, Rebuilds
  <1>2. /\ PairOf(docs).real = entry.pair.real
        /\ PairOf(docs).sham = entry.pair.sham
    BY DEF Reproduced
  <1>3. docs.focal.findings = FocalFindings /\ docs.donor.findings = DonorFindings
    BY <1>1 DEF Rederives, Normalized, FocalFindings, DonorFindings
  <1>4. Renames(docs.map.alias, FocalFindings, DonorFindings)
    BY <1>1, <1>3 DEF Rederives
  <1>5. Buildable(FocalFindings, DonorFindings, docs.map.alias)
    BY <1>1, <1>3
  <1>6. PairOf(docs) = Pair(FocalFindings, DonorFindings, docs.map.alias)
    BY <1>3 DEF PairOf
  <1> HIDE DEF docs
  <1>7. QED
    BY <1>2, <1>4, <1>5, <1>6, PairIsSound DEF Sound

LEMMA SoundStays ==
  ASSUME NEW entry, Sound(entry), UNCHANGED reports
  PROVE  Sound(entry)'
  <1>1. (Applicable(entry.pair.real.rows) /\ Disguised(entry.pair.sham.rows))'
    BY DEF Sound, Applicable, Disguised
  <1>2. (Nameless(entry.pair.real) /\ Nameless(entry.pair.sham))'
    BY DEF Sound, Nameless
  <1>3. Alike(entry.pair.real, entry.pair.sham)'
    BY DEF Sound
  <1>4. QED
    BY <1>1, <1>2, <1>3 DEF Sound

\* What the readers hold: sound indexes, grants of them by arm, and packets by
\* such a grant.
IndexInv == packetIndex # NoFile => Sound(packetIndex.entry)

GrantInv ==
    issued # NoFile =>
        /\ Sound(issued.from.entry)
        /\ \A g \in Guides : issued.of[g] = GrantOf(issued.from.entry, g)

ShownTo(r) ==
    /\ Sound(r.from.entry)
    /\ \/ ArmOf[r.by] = "REAL" /\ r.packet = r.from.entry.pair.real
       \/ ArmOf[r.by] = "SHAM" /\ r.packet = r.from.entry.pair.sham

PacketInv ==
    /\ reports \in Reports /\ policy \in Policies
    /\ IndexInv /\ GrantInv /\ \A r \in seen : ShownTo(r)

LEMMA PacketStart == PInit => PacketInv
  BY DEF PInit, PacketInv, IndexInv, GrantInv, ShownTo

LEMMA ShownStays ==
  ASSUME NEW r, ShownTo(r), UNCHANGED reports
  PROVE  ShownTo(r)'
  <1>1. Sound(r.from.entry)'
    BY SoundStays DEF ShownTo
  <1>2. QED
    BY <1>1 DEF ShownTo

LEMMA IndexStays ==
  ASSUME IndexInv, UNCHANGED <<reports, packetIndex>>
  PROVE  IndexInv'
  <1> SUFFICES ASSUME packetIndex # NoFile PROVE Sound(packetIndex.entry)'
    BY DEF IndexInv
  <1> DEFINE entry == packetIndex.entry
  <1>1. PICK e : e = packetIndex.entry
    OBVIOUS
  <1>2. Sound(e)'
    BY <1>1, SoundStays DEF IndexInv
  <1>3. QED
    BY <1>1, <1>2 DEF IndexInv

LEMMA GrantStays ==
  ASSUME GrantInv, UNCHANGED <<reports, issued>>
  PROVE  GrantInv'
  <1> SUFFICES ASSUME issued # NoFile
               PROVE  /\ Sound(issued.from.entry)'
                      /\ (\A g \in Guides : issued.of[g] = GrantOf(issued.from.entry, g))'
    BY DEF GrantInv
  <1>1. PICK e : e = issued.from.entry
    OBVIOUS
  <1>2. Sound(e)'
    BY <1>1, SoundStays DEF GrantInv
  <1>3. QED
    BY <1>1, <1>2 DEF GrantInv

\* Only an audit names an index; a grant is of the index and by arm; a worker
\* reads what its grant names.
LEMMA AuditKeeps ==
  ASSUME PacketInv, Audit
  PROVE  PacketInv'
  <1> DEFINE entry == shelf["candidate"]
  <1>1. Reproduced(entry) /\ packetIndex' = [kind |-> "sealed", entry |-> entry]
        /\ UNCHANGED <<reports, policy, issued, seen>>
    BY DEF Audit
  <1>2. PICK e : e = entry
    OBVIOUS
  <1>3. Sound(e)'
    BY <1>1, <1>2, AuditedIsSound, SoundStays DEF PacketInv
  <1>4. IndexInv'
    <2>1. packetIndex'.entry = e
      BY <1>1, <1>2
    <2>2. QED
      BY <1>3, <2>1 DEF IndexInv
  <1>5. GrantInv'
    BY <1>1, GrantStays DEF PacketInv
  <1>6. \A r \in seen : ShownTo(r)'
    BY <1>1, ShownStays DEF PacketInv
  <1>7. QED
    BY <1>1, <1>4, <1>5, <1>6 DEF PacketInv

LEMMA ResolveKeeps ==
  ASSUME PacketInv, Resolve
  PROVE  PacketInv'
  <1>1. /\ packetIndex # NoFile
        /\ issued' = [kind |-> "grants", from |-> packetIndex,
                      of |-> [g \in Guides |-> GrantOf(packetIndex.entry, g)]]
        /\ UNCHANGED <<reports, policy, packetIndex, seen>>
    BY DEF Resolve
  <1>2. PICK held : held = packetIndex
    OBVIOUS
  <1>3. Sound(held.entry)'
    BY <1>1, <1>2, SoundStays DEF PacketInv, IndexInv
  <1>4. GrantInv'
    <2>1. issued'.from = held /\ \A g \in Guides : issued'.of[g] = GrantOf(held.entry, g)
      BY <1>1, <1>2
    <2>2. QED
      BY <1>3, <2>1 DEF GrantInv
  <1>5. IndexInv'
    BY <1>1, IndexStays DEF PacketInv
  <1>6. \A r \in seen : ShownTo(r)'
    BY <1>1, ShownStays DEF PacketInv
  <1>7. QED
    BY <1>1, <1>4, <1>5, <1>6 DEF PacketInv

LEMMA GrantIs ==
  ASSUME NEW entry, NEW g, GrantOf(entry, g) # NoFile
  PROVE  \/ ArmOf[g] = "REAL" /\ GrantOf(entry, g).bytes = entry.pair.real
         \/ ArmOf[g] = "SHAM" /\ GrantOf(entry, g).bytes = entry.pair.sham
  BY DEF GrantOf, Ref

LEMMA ReadKeeps ==
  ASSUME PacketInv, NEW g \in Guides, NEW ref, Read(g, ref)
  PROVE  PacketInv'
  <1> DEFINE new == [by |-> g, packet |-> ref.bytes, from |-> issued.from]
  <1>1. /\ issued # NoFile /\ ref = issued.of[g] /\ ref # NoFile /\ seen' = seen \cup {new}
        /\ UNCHANGED <<reports, policy, packetIndex, issued>>
    BY DEF Read, Readable
  <1>2. PICK r : r = new
    OBVIOUS
  <1>3. r.by = g /\ r.packet = ref.bytes /\ r.from = issued.from
    BY <1>2
  <1>4. Sound(r.from.entry) /\ ref = GrantOf(r.from.entry, g)
    BY <1>1, <1>3 DEF PacketInv, GrantInv
  <1>5. \/ ArmOf[g] = "REAL" /\ ref.bytes = r.from.entry.pair.real
        \/ ArmOf[g] = "SHAM" /\ ref.bytes = r.from.entry.pair.sham
    BY <1>1, <1>4, GrantIs
  <1>6. ShownTo(r)
    BY <1>3, <1>4, <1>5 DEF ShownTo
  <1>7. \A q \in seen' : ShownTo(q)'
    <2>1. \A q \in seen \cup {r} : ShownTo(q)
      BY <1>6 DEF PacketInv
    <2>2. seen' = seen \cup {r}
      BY <1>1, <1>2
    <2>3. QED
      BY <1>1, <2>1, <2>2, ShownStays
  <1>8. IndexInv' /\ GrantInv'
    BY <1>1, IndexStays, GrantStays DEF PacketInv
  <1>9. QED
    BY <1>1, <1>7, <1>8 DEF PacketInv

LEMMA PacketsUndisturbed ==
  ASSUME PacketInv, UNCHANGED <<reports, policy, packetIndex, issued, seen>>
  PROVE  PacketInv'
  <1>1. \A r \in seen : ShownTo(r)'
    BY ShownStays DEF PacketInv
  <1>2. IndexInv' /\ GrantInv'
    BY IndexStays, GrantStays DEF PacketInv
  <1>3. QED
    BY <1>1, <1>2 DEF PacketInv

LEMMA PacketStep == PacketInv /\ [PNext]_pvars => PacketInv'
  <1> SUFFICES ASSUME PacketInv, [PNext]_pvars PROVE PacketInv'
    OBVIOUS
  <1> DEFINE Stays == UNCHANGED <<reports, policy, packetIndex, issued, seen>>
  <1>1. ASSUME NEW place \in Places, StartBuild(place) PROVE Stays
    BY <1>1 DEF StartBuild
  <1>2. ASSUME NEW name, NEW task, NEW next, Normalize(name, task, next) PROVE Stays
    BY <1>2 DEF Normalize
  <1>3. ASSUME NEW alias, WriteMap(alias) PROVE Stays
    BY <1>3 DEF WriteMap
  <1>4. CASE WriteSham \/ BuildPair \/ WriteCandidate
    BY <1>4, PacketsUndisturbed DEF WriteSham, BuildPair, WriteCandidate
  <1>5. ASSUME NEW arm, NEW next, WritePacket(arm, next) PROVE Stays
    BY <1>5 DEF WritePacket
  <1>6. CASE WriteShamAgain \/ Abandon
    BY <1>6, PacketsUndisturbed DEF WriteShamAgain, Abandon
  <1>7. ASSUME NEW name \in Names, Interfere(name) PROVE Stays
    BY <1>7 DEF Interfere
  <1>8. CASE UNCHANGED pvars
    BY <1>8, PacketsUndisturbed DEF pvars
  <1>9. QED
    BY <1>1, <1>2, <1>3, <1>4, <1>5, <1>6, <1>7, <1>8, PacketsUndisturbed,
       AuditKeeps, ResolveKeeps, ReadKeeps DEF PNext

LEMMA PacketHolds == PacketInv => GuidanceIsFair
  <1> SUFFICES ASSUME PacketInv, NEW r \in seen
               PROVE  /\ \/ ArmOf[r.by] = "REAL" /\ Applicable(r.packet.rows)
                         \/ ArmOf[r.by] = "SHAM" /\ Disguised(r.packet.rows)
                      /\ Nameless(r.packet)
                      /\ \A q \in seen : q.from = r.from => Alike(q.packet, r.packet)
    BY DEF GuidanceIsFair, Nameless
  <1>1. ShownTo(r)
    BY DEF PacketInv
  <1>2. /\ \/ ArmOf[r.by] = "REAL" /\ Applicable(r.packet.rows)
           \/ ArmOf[r.by] = "SHAM" /\ Disguised(r.packet.rows)
        /\ Nameless(r.packet)
    BY <1>1 DEF ShownTo, Sound
  <1>3. ASSUME NEW q \in seen, q.from = r.from PROVE Alike(q.packet, r.packet)
    <2>1. ShownTo(q)
      BY DEF PacketInv
    <2> DEFINE pair == r.from.entry.pair
    <2>2. r.packet \in {pair.real, pair.sham} /\ q.packet \in {pair.real, pair.sham}
      BY <1>1, <1>3, <2>1 DEF ShownTo
    <2>3. Alike(pair.real, pair.sham)
      BY <1>1 DEF ShownTo, Sound
    <2> HIDE DEF pair
    <2>4. Alike(pair.sham, pair.real) /\ Alike(pair.real, pair.real) /\ Alike(pair.sham, pair.sham)
      BY <2>3 DEF Alike
    <2>5. QED
      BY <2>2, <2>3, <2>4
  <1>4. QED
    BY <1>2, <1>3

(* A worker that reads a packet is in a guided slot and reads that of its    *)
(* own arm: the first findings of its task for REAL, the donor's under a     *)
(* renaming for SHAM, in neither an identity of the donor; and the workers   *)
(* of one sealed index cannot tell their arms from sizes or severities       *)
(* (packets.py, packet_capabilities.py).  For any findings, texts, policies, *)
(* slots and capabilities, any kills and any acts of another writer.         *)
THEOREM PacketsAreFair == PSpec => []GuidanceIsFair
  BY PacketStart, PacketStep, PacketHolds, PTL DEF PSpec
=============================================================================
