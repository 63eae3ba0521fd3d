-------------------------- MODULE StudyAssignment --------------------------
(***************************************************************************)
(* The synthetic branch assignment of a study (resampling_null/            *)
(* assignment.py, branch_assignment.py) and its two verifiers              *)
(* (assignment_verification.py): pure functions from a schedule, a prefix  *)
(* index and a master key to a ledger, and from a ledger to a verdict.     *)
(* The pipeline that calls them is StudyPipeline.                          *)
(*                                                                         *)
(* A digest is the value it commits to, a matching proof stands for the    *)
(* content-addressed blob that holds it, and HMAC is a constant operator.  *)
(***************************************************************************)
EXTENDS Integers, Sequences, FiniteSets, SequencesExt, FiniteSetsExt, Functions

CONSTANTS
    Word,          \* the range of the words a keyed stream yields (2^64)
    Hmac(_, _)     \* the word of a key and a message, in 0..Word-1

ASSUME WordAssumption == Word \in Nat /\ Word > 12

Ordinals == 1..4

(***************************************************************************)
(* Keys and draws.                                                         *)
(***************************************************************************)

\* One purpose-bound subkey of the master key: bound to the study, the
\* manifest and the schedule.
Subkey(context, purpose) == [context EXCEPT !.purpose = purpose]

KeyContext(master, study, manifest, schedule) ==
    [master |-> master, study |-> study, manifest |-> manifest,
     schedule |-> schedule, purpose |-> "none"]

\* A draw below upper without modulo bias: words at or above the greatest
\* multiple of upper are rejected and the counter moves on.
UniformBelow(key, message, upper) ==
    LET limit    == Word - (Word % upper)
        word(c)  == Hmac(key, <<message, c>>)
        counter  == CHOOSE c \in 0..Word :
                        /\ word(c) < limit
                        /\ \A d \in 0..(c - 1) : word(d) >= limit
    IN  [value |-> word(counter) % upper, counter |-> counter]

\* The frozen table: every order of two null slots, one REAL and one SHAM.
AllocationTable ==
    LET N == "NO_PACKET"  R == "REAL"  S == "SHAM" IN
    << <<N,N,R,S>>, <<N,N,S,R>>, <<N,R,N,S>>, <<N,R,S,N>>,
       <<N,S,N,R>>, <<N,S,R,N>>, <<R,N,N,S>>, <<R,N,S,N>>,
       <<R,S,N,N>>, <<S,N,N,R>>, <<S,N,R,N>>, <<S,R,N,N>> >>

\* The two null slots are told apart by the orientation bit, in slot order.
DrawnArms(index, orientation) ==
    LET row   == AllocationTable[index + 1]
        nulls == IF orientation = 0 THEN <<"NONE", "RESAMPLE">>
                                    ELSE <<"RESAMPLE", "NONE">>
        rank(o) == Cardinality({p \in 1..o : row[p] = "NO_PACKET"})
    IN  [o \in Ordinals |->
            IF row[o] = "NO_PACKET" THEN nulls[rank(o)] ELSE row[o]]

\* The opaque name a slot is known by after assignment.
SlotCapability(context, prefix, task, slot, arm) ==
    [key |-> Subkey(context, "capability"), prefix |-> prefix,
     task |-> task, slot |-> slot, arm |-> arm]

(***************************************************************************)
(* The public view the matching is computed from.                          *)
(***************************************************************************)

\* One task as the matching sees it: the schedule's row joined with the
\* frozen prefix receipt; the verifier's features must recompute.
PrefixTaskView(row, receipt) ==
    [task |-> row.task, lineage |-> row.lineage, stratum |-> row.stratum,
     triggered |-> receipt.triggered,
     findings |-> receipt.features.findings, tokens |-> receipt.features.tokens]

ViewBindable(row, receipt, scheduleDigest) ==
    /\ receipt.task = row.task
    /\ receipt.schedule = scheduleDigest
    /\ receipt.verifierSchedule = scheduleDigest
    /\ receipt.features = receipt.source

PrefixView(study, scheduleDigest, rows, receipts) ==
    [study |-> study, schedule |-> scheduleDigest,
     tasks |-> [i \in DOMAIN rows |-> PrefixTaskView(rows[i], receipts[i])]]

Triggered(view) == {view.tasks[i] : i \in {j \in DOMAIN view.tasks :
                                             view.tasks[j].triggered}}

Strata(view) == {v.stratum : v \in Triggered(view)}

InStratum(view, stratum) == {v \in Triggered(view) : v.stratum = stratum}

\* The strata in the order their proofs are published.
StrataInOrder(view) == SetToSortSeq(Strata(view), <)

(***************************************************************************)
(* The solver of one stratum.                                              *)
(***************************************************************************)

\* The tasks of a stratum by id, and in the order the donor key gives them.
CanonicalOrder(tasks) == SetToSortSeq(tasks, LAMBDA a, b : a.task < b.task)

OrderWord(donorKey, viewDigest, stratum, task) ==
    Hmac(donorKey, <<"synthetic-order-v1", viewDigest, stratum, task>>)

KeyedOrder(tasks, donorKey, viewDigest, stratum) ==
    SetToSortSeq({[task |-> v.task, lineage |-> v.lineage,
                   word |-> OrderWord(donorKey, viewDigest, stratum, v.task)] : v \in tasks},
                 LAMBDA a, b : a.word < b.word \/ (a.word = b.word /\ a.task < b.task))

\* Every task takes the task offset places further round the cycle as donor.
DonorAt(cycle, offset) ==
    [i \in DOMAIN cycle |-> ((i - 1 + offset) % Len(cycle)) + 1]

\* A mutant of the next definition: two tasks may be each other's donors.
LineageFailure(cycle, offset) ==
    IF \E i \in DOMAIN cycle : cycle[i].lineage = cycle[DonorAt(cycle, offset)[i]].lineage
    THEN "same_lineage" ELSE "none"

\* The first failure of an offset, in canonical order of the focal tasks; a
\* shared lineage is tried before a reciprocal pair.
OffsetFailure(cycle, offset) ==
    LET donor == DonorAt(cycle, offset)
        canonical == SetToSortSeq(DOMAIN cycle,
                        LAMBDA i, j : cycle[i].task < cycle[j].task)
        sameLineage(i) == cycle[i].lineage = cycle[donor[i]].lineage
        reciprocal(i) == donor[donor[i]] = i
        failing == {k \in DOMAIN canonical :
                        sameLineage(canonical[k]) \/ reciprocal(canonical[k])}
    IN  IF failing = {} THEN "none"
        ELSE IF sameLineage(canonical[Min(failing)]) THEN "same_lineage"
        ELSE "reciprocal_two_cycle"

ValidOffsets(cycle) ==
    {k \in 1..(Len(cycle) - 1) : OffsetFailure(cycle, k) = "none"}

\* A stratum has an assignment when it spans three lineages and one of the
\* cyclic offsets is free of failures.
Solvable(tasks, donorKey, viewDigest, stratum) ==
    /\ Cardinality({v.lineage : v \in tasks}) >= 3
    /\ ValidOffsets(KeyedOrder(tasks, donorKey, viewDigest, stratum)) # {}

\* What a stratum publishes of a cycle: the donors at an offset and every
\* trial up to it.
CycleProof(cycle, offset, canonical, donor, viewDigest, program, stratum) ==
    LET at(v) == CHOOSE i \in DOMAIN cycle : cycle[i].task = v.task
    IN  [view |-> viewDigest, program |-> program, stratum |-> stratum,
         focal |-> [i \in DOMAIN canonical |-> canonical[i].task],
         cycle |-> [i \in DOMAIN cycle |->
                        [task |-> cycle[i].task, word |-> cycle[i].word]],
         donors |-> [i \in DOMAIN canonical |->
                        <<canonical[i].task, cycle[donor[at(canonical[i])]].task>>],
         trials |-> [k \in 1..offset |->
                        [offset |-> k, failure |-> OffsetFailure(cycle, k)]],
         offset |-> offset]

\* The proof of a stratum: the first valid offset of its keyed order.
SolveCycle(cycle, tasks, viewDigest, program, stratum) ==
    LET offset == Min(ValidOffsets(cycle))
    IN  CycleProof(cycle, offset, CanonicalOrder(tasks), DonorAt(cycle, offset),
                   viewDigest, program, stratum)

SolveStratum(tasks, donorKey, viewDigest, program, stratum) ==
    SolveCycle(KeyedOrder(tasks, donorKey, viewDigest, stratum), tasks,
               viewDigest, program, stratum)

\* The candidates of a focal task: the tasks of its stratum of another
\* lineage, with the distance of their reports, in the order of their ties.
Candidates(focal, tasks, donorKey) ==
    LET gap(a, b) == IF a > b THEN a - b ELSE b - a
        tie(d) == Hmac(donorKey, <<"donor-tie-v1", focal.task, d.task>>)
        donors == SetToSortSeq({d \in tasks : d.lineage # focal.lineage},
                    LAMBDA a, b : tie(a) < tie(b) \/ (tie(a) = tie(b) /\ a.task < b.task))
    IN  [i \in DOMAIN donors |->
            [donor |-> donors[i].task, lineage |-> donors[i].lineage,
             cost |-> <<0, gap(focal.findings, donors[i].findings),
                           gap(focal.tokens, donors[i].tokens)>>,
             tie |-> tie(donors[i])]]

(***************************************************************************)
(* The ledger of a schedule and a prefix index under a key.                *)
(***************************************************************************)

NoDonor == [kind |-> "not_applicable_no_trigger", task |-> 0, lineage |-> 0]

\* One task's arms: the frozen table at a drawn index, the null pair
\* oriented by a drawn bit, and a capability for every slot.
AllocationRows(context, row, prefix, donor, treatment, bit, arms) ==
    [assignment |->
        [task |-> row.task, lineage |-> row.lineage, donor |-> donor,
         slotArms |-> [o \in Ordinals |-> <<row.slots[o], arms[o]>>],
         schedule |-> context.schedule, prefix |-> prefix],
     allocation |->
        [task |-> row.task, slots |-> row.slots,
         index |-> treatment.value, rejections |-> treatment.counter,
         orientation |-> bit.value, orientationRejections |-> bit.counter,
         capabilities |->
            [o \in Ordinals |->
                <<row.slots[o], SlotCapability(context, prefix, row.task,
                                               row.slots[o], arms[o])>>]]]

DrawnAllocation(context, row, prefix, donor, treatment, bit) ==
    AllocationRows(context, row, prefix, donor, treatment, bit,
                   DrawnArms(treatment.value, bit.value))

AllocateTask(context, row, prefix, donor) ==
    DrawnAllocation(context, row, prefix, donor,
        UniformBelow(Subkey(context, "allocation"), <<"allocation-v1", row.task>>, 12),
        UniformBelow(Subkey(context, "orientation"), <<"orientation-v1", row.task>>, 2))

\* The proof of every stratum, in order.
ProofsOf(strata, view, donorKey, program) ==
    [i \in DOMAIN strata |->
        SolveStratum(InStratum(view, strata[i]), donorKey, view, program, strata[i])]

ProofFor(v, proofs) == proofs[CHOOSE i \in DOMAIN proofs : proofs[i].stratum = v.stratum]

\* The donor of a task by the proof of its stratum.
DonorIn(view, task, pairs) ==
    CHOOSE d \in Triggered(view) :
        \E i \in DOMAIN pairs : pairs[i] = <<task, d.task>>

DonorOf(v, view, proofs) ==
    IF v.triggered THEN DonorIn(view, v.task, ProofFor(v, proofs).donors) ELSE v

MatchedReceipt(v, donor, view, proof, open) ==
    [kind |-> "matched", task |-> v.task, lineage |-> v.lineage,
     donor |-> donor.task, donorLineage |-> donor.lineage,
     stratum |-> v.stratum, view |-> view, candidates |-> open,
     cost |-> open[CHOOSE i \in DOMAIN open : open[i].donor = donor.task].cost,
     proof |-> proof]

\* A task's donor receipt.
DonorReceipt(v, donor, view, donorKey, proofs) ==
    IF ~v.triggered
    THEN [kind |-> "not_applicable_no_trigger", task |-> v.task, view |-> view]
    ELSE MatchedReceipt(v, donor, view, ProofFor(v, proofs),
                        Candidates(v, InStratum(view, v.stratum), donorKey))

DonorRow(v, donor) ==
    IF v.triggered
    THEN [kind |-> "matched", task |-> donor.task, lineage |-> donor.lineage]
    ELSE NoDonor

\* What the assignment of a view publishes under its proofs: for every
\* scheduled task its assignment, its allocation and its donor receipt.
Published(context, rows, view, prefix, proofs) ==
    LET donor(i) == DonorOf(view.tasks[i], view, proofs)
        allocated(i) == AllocateTask(context, rows[i], prefix,
                                     DonorRow(view.tasks[i], donor(i)))
    IN  [view |-> view, proofs |-> proofs,
         assignments |-> [i \in DOMAIN rows |-> allocated(i).assignment],
         allocations |-> [i \in DOMAIN rows |-> allocated(i).allocation],
         receipts |-> [i \in DOMAIN rows |->
            DonorReceipt(view.tasks[i], donor(i), view, Subkey(context, "donor"), proofs)]]

Assigned(context, program, rows, view, prefix) ==
    Published(context, rows, view, prefix,
              ProofsOf(StrataInOrder(view), view, Subkey(context, "donor"), program))

\* The assignment is refused when a stratum has no solution or a triggered
\* task no candidate of another lineage.
Assignable(context, view) ==
    \A s \in Strata(view) :
        Solvable(InStratum(view, s), Subkey(context, "donor"), view, s)

(***************************************************************************)
(* Verification without the key: everything that can be recomputed from    *)
(* the schedule, the prefix index and the ledger itself.  Written from the *)
(* verifier's own loops, not from the solver's definitions.                *)
(***************************************************************************)

\* The four arms the drawn index and orientation of an allocation stand for.
ReconstructArms(allocation) ==
    LET row   == AllocationTable[allocation.index + 1]
        nulls == SetToSortSeq({o \in Ordinals : row[o] = "NO_PACKET"}, <)
        first == IF allocation.orientation = 0 THEN "NONE" ELSE "RESAMPLE"
        other == IF allocation.orientation = 0 THEN "RESAMPLE" ELSE "NONE"
    IN  [o \in Ordinals |->
            IF row[o] # "NO_PACKET" THEN row[o]
            ELSE IF o = nulls[1] THEN first ELSE other]

\* The donor relation a cycle of task ids and an offset stand for.
CyclicMapping(ids, offset) ==
    [t \in {ids[i] : i \in DOMAIN ids} |->
        LET i == CHOOSE j \in DOMAIN ids : ids[j] = t
        IN  ids[((i - 1 + offset) % Len(ids)) + 1]]

\* Trials are recomputed over the focal ids in the proof's order.
TrialFailure(focal, mapping, lineage) ==
    LET same(t) == lineage[t] = lineage[mapping[t]]
        back(t) == mapping[mapping[t]] = t
        failing == {i \in DOMAIN focal : same(focal[i]) \/ back(focal[i])}
    IN  IF failing = {} THEN "none"
        ELSE IF same(focal[Min(failing)]) THEN "same_lineage"
        ELSE "reciprocal_two_cycle"

\* The grammar of one proof: its focal ids sorted, a donor row for each, as
\* many trials as the offset it selected.
ProofGrammar(proof) ==
    /\ proof.focal # <<>>
    /\ \A i, j \in DOMAIN proof.focal : i < j => proof.focal[i] < proof.focal[j]
    /\ Len(proof.donors) = Len(proof.focal)
    /\ \A i \in DOMAIN proof.focal : proof.donors[i][1] = proof.focal[i]
    /\ proof.offset >= 1
    /\ Len(proof.trials) = proof.offset

\* The donors are a permutation of the focal tasks over lineages, no task its
\* own donor and no pair donors of each other.
ProofFeasible(proof, lineage) ==
    LET focal == Range(proof.focal)
        donor == [t \in focal |->
                    (CHOOSE i \in DOMAIN proof.donors : proof.donors[i][1] = t)]
        to(t) == proof.donors[donor[t]][2]
    IN  /\ {to(t) : t \in focal} = focal
        /\ \A t \in focal : /\ to(t) # t
                            /\ lineage[t] # lineage[to(t)]
                            /\ to(to(t)) # t

\* The donors follow the selected offset round the cycle, and every trial
\* records what that offset gives.
ProofReplays(proof, lineage) ==
    LET ids == [i \in DOMAIN proof.cycle |-> proof.cycle[i].task]
    IN  /\ Len(ids) = Len(proof.focal) /\ Range(ids) = Range(proof.focal)
        /\ \A i \in DOMAIN proof.donors :
                proof.donors[i][2] = CyclicMapping(ids, proof.offset)[proof.donors[i][1]]
        /\ \A k \in DOMAIN proof.trials :
                proof.trials[k] =
                    [offset |-> k,
                     failure |-> TrialFailure(proof.focal, CyclicMapping(ids, k), lineage)]

\* The donor of a focal task by the proofs.
MappedDonor(proof, task) ==
    proof.donors[CHOOSE i \in DOMAIN proof.donors : proof.donors[i][1] = task][2]

\* One row of the ledger against its schedule row: the arms are those of the
\* published draws and the capabilities are named slot by slot.
RowAgrees(ledger, i, rows) ==
    LET row == rows[i]
        assignment == ledger.assignments[i]
        allocation == ledger.allocations[i]
    IN  /\ allocation.slots = row.slots
        /\ assignment.lineage = row.lineage
        /\ assignment.schedule = ledger.schedule.sha
        /\ assignment.prefix = ledger.prefix.sha
        /\ allocation.index \in 0..11 /\ allocation.orientation \in 0..1
        /\ assignment.slotArms =
                [o \in Ordinals |-> <<row.slots[o], ReconstructArms(allocation)[o]>>]
        /\ \A o \in Ordinals : allocation.capabilities[o][1] = row.slots[o]

\* A triggered task: receipt, assignment and proof name one donor, and the
\* candidates are exactly the other lineages of the proof's stratum.
MatchedAgrees(ledger, i, rows, lineage, proof) ==
    LET task == rows[i].task
        receipt == ledger.receipts[i]
        donor == MappedDonor(proof, task)
        expected == {t \in Range(proof.focal) : t # task /\ lineage[t] # lineage[task]}
        listed == receipt.candidates
    IN  /\ receipt.kind = "matched"
        /\ receipt.donor = donor
        /\ receipt.lineage = lineage[task]
        /\ receipt.donorLineage = lineage[donor]
        /\ receipt.view = ledger.view
        /\ receipt.stratum = proof.stratum
        /\ receipt.proof = proof
        /\ ledger.assignments[i].donor =
                [kind |-> "matched", task |-> donor, lineage |-> lineage[donor]]
        /\ Len(listed) = Cardinality(expected)
        /\ {listed[c].donor : c \in DOMAIN listed} = expected
        /\ \A c \in DOMAIN listed : /\ listed[c].lineage = lineage[listed[c].donor]
                                    /\ listed[c].cost[1] = 0
        /\ \E c \in DOMAIN listed : /\ listed[c].donor = donor
                                    /\ receipt.cost = listed[c].cost

UnmatchedAgrees(ledger, i, rows) ==
    /\ ledger.receipts[i] = [kind |-> "not_applicable_no_trigger",
                             task |-> rows[i].task, view |-> ledger.view]
    /\ ledger.assignments[i].donor = NoDonor

\* verify_synthetic_assignment_graph on the documents the ledger's references
\* resolve to.
PublicVerified(ledger, rows, prefix) ==
    LET receipts == prefix.receipts
        lineage == [t \in {rows[i].task : i \in DOMAIN rows} |->
                        rows[CHOOSE i \in DOMAIN rows : rows[i].task = t].lineage]
        order(seq) == [i \in DOMAIN seq |-> seq[i].task]
        proofs == Range(ledger.proofs)
        focal == UNION {Range(p.focal) : p \in proofs}
        triggered == {receipts[i].task : i \in {j \in DOMAIN receipts : receipts[j].triggered}}
        names == {ledger.allocations[i].capabilities[o][2] :
                        i \in DOMAIN ledger.allocations, o \in Ordinals}
    IN  /\ prefix.schedule = ledger.schedule
        /\ order(receipts) = order(rows)
        /\ order(ledger.assignments) = order(rows)
        /\ order(ledger.allocations) = order(rows)
        /\ order(ledger.receipts) = order(rows)
        /\ Cardinality(proofs) = Len(ledger.proofs)
        /\ \A p \in proofs :
                /\ p.view = ledger.view /\ p.program = ledger.program.sha
                /\ ProofGrammar(p) /\ ProofFeasible(p, lineage) /\ ProofReplays(p, lineage)
        /\ \A p, q \in proofs : p # q => Range(p.focal) \cap Range(q.focal) = {}
        /\ focal = triggered
        /\ \A i \in DOMAIN rows : RowAgrees(ledger, i, rows)
        /\ Cardinality(names) = 4 * Len(rows)
        /\ \A i \in DOMAIN rows :
                IF rows[i].task \in focal
                THEN \E p \in proofs : /\ rows[i].task \in Range(p.focal)
                                       /\ MatchedAgrees(ledger, i, rows, lineage, p)
                ELSE UnmatchedAgrees(ledger, i, rows)

(***************************************************************************)
(* The typed records (types.py): what the constructors refuse.             *)
(***************************************************************************)

TypedView(view) ==
    /\ view.tasks # <<>>
    /\ IsInjective([i \in DOMAIN view.tasks |-> view.tasks[i].task])

\* A task's draws: its four slots, and a capability of its own for each of
\* them in their order.
TypedAllocation(allocation) ==
    /\ Len(allocation.slots) = 4 /\ IsInjective(allocation.slots)
    /\ allocation.index \in 0..11 /\ allocation.orientation \in 0..1
    /\ allocation.rejections \in Nat /\ allocation.orientationRejections \in Nat
    /\ [o \in Ordinals |-> allocation.capabilities[o][1]] = allocation.slots
    /\ IsInjective([o \in Ordinals |-> allocation.capabilities[o][2]])

TypedCandidate(candidate) ==
    Len(candidate.cost) = 3 /\ Range(candidate.cost) \subseteq Nat

\* A receipt: an unmatched task has nothing to say, a matched one chose, from
\* distinct candidates, a task of another lineage at that candidate's cost.
TypedReceipt(receipt) ==
    \/ receipt.kind = "not_applicable_no_trigger"
    \/ /\ receipt.kind = "matched"
       /\ receipt.task # receipt.donor /\ receipt.lineage # receipt.donorLineage
       /\ \A c \in Range(receipt.candidates) : TypedCandidate(c)
       /\ IsInjective([i \in DOMAIN receipt.candidates |-> receipt.candidates[i].donor])
       /\ \E c \in Range(receipt.candidates) :
            c.donor = receipt.donor /\ c.cost = receipt.cost

\* An assignment: a donor of another task and lineage or none, and every arm
\* at exactly one slot.
TypedAssignment(assignment) ==
    /\ \/ /\ assignment.donor.kind = "matched"
          /\ assignment.donor.task # assignment.task
          /\ assignment.donor.lineage # assignment.lineage
       \/ assignment.donor = NoDonor
    /\ Len(assignment.slotArms) = 4
    /\ IsInjective([o \in Ordinals |-> assignment.slotArms[o][1]])
    /\ {assignment.slotArms[o][2] : o \in Ordinals} = {"NONE", "RESAMPLE", "REAL", "SHAM"}

\* The ledger: its three arrays name the tasks in one order, its proofs are
\* distinct.
TypedLedger(ledger) ==
    LET order(seq) == [i \in DOMAIN seq |-> seq[i].task] IN
    /\ ledger.assignments # <<>>
    /\ order(ledger.allocations) = order(ledger.assignments)
    /\ order(ledger.receipts) = order(ledger.assignments)
    /\ IsInjective(ledger.proofs)
    /\ \A a \in Range(ledger.assignments) : TypedAssignment(a)
    /\ \A a \in Range(ledger.allocations) : TypedAllocation(a)
    /\ \A r \in Range(ledger.receipts) : TypedReceipt(r)

(***************************************************************************)
(* Verification with the key: every decision is derived again and compared.*)
(***************************************************************************)

\* The view the ledger committed to is that of the schedule and the prefixes.
ViewRebuilt(ledger, rows, prefix, view) ==
    /\ \A i \in DOMAIN rows :
            ViewBindable(rows[i], prefix.receipts[i], ledger.schedule.sha)
    /\ TypedView(view)
    /\ ledger.view = view

\* Every stratum is solved again, and gives the proof that was published.
ProofsRebuilt(ledger, context, view, again) ==
    /\ Assignable(context, view)
    /\ ledger.proofs = again.proofs

\* So are all rows.
RowsRebuilt(ledger, again) ==
    \A field \in {"assignments", "allocations", "receipts"} :
        ledger[field] = again[field]

\* The ledger of a study under a key is the assigner's, row by row, and is
\* handed out as typed records.
KeyedVerified(ledger, master, committed, study, rows, prefix) ==
    LET context == KeyContext(master, study, ledger.manifest.sha, ledger.schedule.sha)
        view == PrefixView(study, ledger.schedule.sha, rows, prefix.receipts)
        again == Assigned(context, ledger.program.sha, rows, view, ledger.prefix.sha)
    IN  /\ PublicVerified(ledger, rows, prefix)
        /\ ViewRebuilt(ledger, rows, prefix, view)
        /\ master = committed
        /\ ProofsRebuilt(ledger, context, view, again)
        /\ RowsRebuilt(ledger, again)
        /\ TypedLedger(ledger)

=============================================================================
