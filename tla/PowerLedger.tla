----------------------------- MODULE PowerLedger -----------------------------
(***************************************************************************)
(* The power-analysis ledger of one authority (power.py, the power part of *)
(* artifacts.py, timing_no_go.py).  Processes append immutable reports:    *)
(* screens, shards, a selection, a validation, and a final that closes the *)
(* authority.  Every operation scans the run root, works for a long time,  *)
(* and writes one report; only screens and the timing no-go hold a lock.   *)
(* A report is referenced by its position in the ledger (the code names it *)
(* by path and digest; reports are never changed).  Statistics are left to *)
(* chance: a Gaussian validation passes or fails.  A refused call leaves   *)
(* nothing behind, so the checks are guards.                               *)
(***************************************************************************)
EXTENDS Naturals, Sequences, FiniteSets

CONSTANTS
    Procs,        \* processes that run a power command
    Authority,    \* decision authority of the run root
    ShardCounts,  \* shard counts a screen may freeze
    MaxGen,       \* bound: largest generation
    MaxReports,   \* bound: reports ever written
    None

ASSUME AuthorityAssumption ==
    Authority \in {"synthetic_validation", "implementation_verification"}
ASSUME BoundsAssumption ==
    ShardCounts \subseteq Nat \ {0} /\ MaxGen \in Nat /\ MaxReports \in Nat
ASSUME NoneAssumption == None \notin Procs

VARIABLES
    ledger,   \* the reports, in the order they appeared
    markers,  \* screens with a whole timing-verification marker
    nogo,     \* timing-admission/task8-timing-no-go.json
    lock,     \* holder of .pneuma-power-screen.lock
    pc,       \* where each process stands
    pending   \* the report its call is about to write

vars == <<ledger, markers, nogo, lock, pc, pending>>

Gaussian == "gaussian_approximation"
Fallback == "full_multiplier_fallback"
Phases == {Gaussian, Fallback}
Stages == {"screen", "shard", "selection", "validation", "final"}

(* parents are positions; chain is what a final selects; passed is the     *)
(* verdict of a validation.                                                *)
Report ==
    [stage : Stages, phase : Phases, gen : Nat, count : Nat, shard : Nat,
     parents : Seq(Nat), chain : Seq(Nat), passed : BOOLEAN]
Labels ==
    {"idle", "screen", "write", "mark", "nogo", "write_nogo", "raised", "absent"}

Init ==
    /\ ledger = <<>>
    /\ markers = {}
    /\ nogo = "none"
    /\ lock = None
    /\ pc \in [Procs -> {"idle", "absent"}]  \* a command may never be given
    /\ pending = [p \in Procs |-> None]

-----------------------------------------------------------------------------
(* Reading the ledger.                                                     *)

Refs == DOMAIN ledger
At(stage) == {i \in Refs : ledger[i].stage = stage}
InAttempt(stage, phase, gen) ==
    {i \in At(stage) : ledger[i].phase = phase /\ ledger[i].gen = gen}
Attempts == {i \in Refs : ledger[i].stage # "final"}

(* _power_attempt_order: every Gaussian attempt precedes the fallbacks.    *)
Later(i, j) ==
    \/ ledger[i].phase = Fallback /\ ledger[j].phase = Gaussian
    \/ ledger[i].phase = ledger[j].phase /\ ledger[i].gen > ledger[j].gen

(* A faulty scan, for mutation: raw files are skipped.                     *)
ScannableAlways == TRUE

(* _scientific_documents refuses a run root with a raw resampling_* file:  *)
(* a whole timing no-go closes it to every power command.                  *)
Scannable == nogo # "whole"

(* _assert_power_write_open.                                               *)
WriteOpen(stage, phase, gen, shard) ==
    /\ Scannable
    /\ At("final") = {}
    /\ \A i \in InAttempt(stage, phase, gen) : ledger[i].shard # shard

(* A faulty generation check, for mutation: generations may be skipped.    *)
SkippedGeneration(phase, gen) == InAttempt("screen", phase, gen) = {}

ScreensOf(phase) == {i \in At("screen") : ledger[i].phase = phase}

(* A new screen is the next generation of its phase.                       *)
NextGeneration(phase, gen) ==
    IF ScreensOf(phase) = {} THEN gen = 0
    ELSE \E i \in ScreensOf(phase) :
             /\ gen = ledger[i].gen + 1
             /\ \A j \in ScreensOf(phase) : ledger[j].gen <= ledger[i].gen

(* _current_failed_gaussian_validation, over the whole ledger: the Gaussian*)
(* validation of the largest generation, if it failed.                     *)
GaussianValidations == {i \in At("validation") : ledger[i].phase = Gaussian}
CurrentFailure(t) ==
    /\ t \in GaussianValidations
    /\ \A i \in GaussianValidations : ledger[i].gen <= ledger[t].gen
    /\ ~ledger[t].passed

(* A faulty merge check, for mutation: the shard set may have gaps.        *)
AnyShards(s, shards) ==
    /\ s \in At("screen") /\ s \in markers
    /\ DOMAIN shards = 1 .. ledger[s].count
    /\ \A k \in DOMAIN shards :
           shards[k] \in At("shard") /\ ledger[shards[k]].parents = <<s>>

(* _complete_shards with _validate_screen_timing_admission: one shard per  *)
(* index of the frozen topology, in order, all of this admitted screen.    *)
CompleteShards(s, shards) ==
    /\ s \in At("screen") /\ s \in markers
    /\ DOMAIN shards = 1 .. ledger[s].count
    /\ \A k \in DOMAIN shards :
           /\ shards[k] \in At("shard")
           /\ ledger[shards[k]].shard = k - 1
           /\ ledger[shards[k]].parents = <<s>>

ShardTuples(s) == [1 .. ledger[s].count -> At("shard")]

-----------------------------------------------------------------------------
(* What the validators accept.                                             *)

(* _validate_power_attempt_topology: the terminal Gaussian validation.     *)
FallbackTriggered(s) ==
    /\ Len(ledger[s].parents) = 1
    /\ CurrentFailure(ledger[s].parents[1])

(* The shards of an attempt are a zero-based prefix without gaps, each of  *)
(* the attempt's only screen.                                              *)
ShardPrefix(s, shards) ==
    /\ {ledger[i].shard : i \in shards} = 0 .. Cardinality(shards) - 1
    /\ \A i \in shards : ledger[i].parents = <<s>>
    /\ Cardinality(shards) <= ledger[s].count

(* Downstream stages parent exactly the complete shard set, in order.      *)
Downstream(s, shards, selections, validations) ==
    LET order == [k \in 1 .. Cardinality(shards) |->
                     CHOOSE i \in shards : ledger[i].shard = k - 1]
        whole == <<s>> \o order
    IN  /\ Cardinality(shards) = ledger[s].count
        /\ IF ledger[s].phase = Gaussian
           THEN /\ validations # {} => selections # {}
                /\ \A i \in selections : ledger[i].parents = whole
                /\ \A i \in validations, j \in selections :
                       ledger[i].parents = whole \o <<j>>
           ELSE /\ selections = {}
                /\ \A i \in validations :
                       /\ ledger[i].parents = ledger[s].parents \o whole
                       /\ \A t \in {ledger[i].parents[1]} : CurrentFailure(t)

AttemptValid(phase, gen) ==
    LET screens == InAttempt("screen", phase, gen)
        shards == InAttempt("shard", phase, gen)
        selections == InAttempt("selection", phase, gen)
        validations == InAttempt("validation", phase, gen)
    IN  screens \cup shards \cup selections \cup validations # {} =>
            /\ Cardinality(screens) = 1
            /\ Cardinality(selections) <= 1 /\ Cardinality(validations) <= 1
            /\ \A s \in screens :
                  /\ phase = Fallback => FallbackTriggered(s)
                  /\ phase = Gaussian => ledger[s].parents = <<>>
                  /\ ShardPrefix(s, shards)
                  /\ selections \cup validations # {} =>
                         Downstream(s, shards, selections, validations)

TopologyValid == \A phase \in Phases, gen \in 0 .. MaxGen : AttemptValid(phase, gen)

(* _is_terminal_power_validation.                                          *)
TerminalValidation(i) ==
    /\ ledger[i].stage = "validation"
    /\ ledger[i].phase = Fallback \/ ledger[i].passed

(* _validate_power_transitions: only a failed Gaussian validation may be   *)
(* followed, and only by the fallback.                                     *)
TransitionsValid ==
    \A v \in At("validation"), i \in Attempts : Later(i, v) =>
        ~TerminalValidation(v) /\ ledger[i].phase = Fallback

(* A faulty discovery, for mutation: superseded validations are accepted.  *)
FinalizableUnordered ==
    Scannable /\ At("final") = {} /\ Attempts # {} /\ TopologyValid

(* _authority_attempt_refs: what a finalizer accepts as the whole ledger.  *)
Finalizable ==
    Scannable /\ At("final") = {} /\ Attempts # {} /\ TopologyValid /\ TransitionsValid

(* _tier_decision of an authority that selects no tier.                    *)
TierDecision ==
    IF Authority = "implementation_verification"
    THEN "IMPLEMENTATION_VERIFICATION_ONLY" ELSE "CONDITIONAL_ONLY"

(* The parents of a final are every attempt.                               *)
ParentsAll(f) == {ledger[f].parents[k] : k \in DOMAIN ledger[f].parents} = Attempts

(* The selected chain is one attempt, the latest, with all its shards; no  *)
(* earlier validation is terminal.                                         *)
SelectsTerminal(f) ==
    LET chain == {ledger[f].chain[k] : k \in DOMAIN ledger[f].chain}
    IN  /\ \A i \in chain : ledger[i].phase = ledger[f].phase /\ ledger[i].gen = ledger[f].gen
        /\ \A i \in InAttempt("shard", ledger[f].phase, ledger[f].gen) : i \in chain
        /\ \A i \in Attempts : ~Later(i, f)
        /\ \A i \in Attempts : Later(f, i) => ~TerminalValidation(i)

(* The verdict a Gaussian completed chain must carry, as the validator     *)
(* computes it for an authority without a tier.                            *)
VerdictAccepted(f) == ledger[f].phase = Gaussian => TierDecision = "CONDITIONAL_ONLY"

(* _validate_power_identities of a closed ledger.                          *)
FinalValid(f) ==
    /\ TopologyValid /\ TransitionsValid
    /\ At("final") = {f}
    /\ ParentsAll(f) /\ SelectsTerminal(f) /\ VerdictAccepted(f)

-----------------------------------------------------------------------------
(* Operations.                                                             *)

Unlocked(p) == IF lock = p THEN None ELSE lock

Work(p, r) ==
    /\ Len(ledger) < MaxReports
    /\ pending' = [pending EXCEPT ![p] = r]
    /\ pc' = [pc EXCEPT ![p] = "write"]
    /\ UNCHANGED <<ledger, markers, nogo, lock>>

Draft(stage, like, shard, parents) ==
    [stage |-> stage, phase |-> like.phase, gen |-> like.gen, count |-> like.count,
     shard |-> shard, parents |-> parents, chain |-> <<>>, passed |-> FALSE]

(* _power_screen_lock and _timing_publication_lock share one flock.        *)
Lock(p, label) ==
    /\ pc[p] = "idle"
    /\ lock = None
    /\ lock' = p
    /\ pc' = [pc EXCEPT ![p] = label]
    /\ UNCHANGED <<ledger, markers, nogo, pending>>

(* Gaussian screens forbid a trigger, fallback screens require it.         *)
TriggerAllowed(phase, trigger) ==
    IF phase = Gaussian THEN trigger = <<>>
    ELSE Len(trigger) = 1 /\ CurrentFailure(trigger[1])

(* screen_power_grid, up to its write: the checks and the timing probe.    *)
Screen(p, phase, gen, count, trigger) ==
    /\ pc[p] = "screen"
    /\ WriteOpen("screen", phase, gen, 0)
    /\ NextGeneration(phase, gen)
    /\ TriggerAllowed(phase, trigger)
    /\ Work(p, Draft("screen", [phase |-> phase, gen |-> gen, count |-> count], 0, trigger))

(* simulate_power_shard.                                                   *)
Shard(p, s, index) ==
    /\ pc[p] = "idle"
    /\ s \in At("screen")
    /\ WriteOpen("shard", ledger[s].phase, ledger[s].gen, index)
    /\ s \in markers
    /\ index < ledger[s].count
    /\ Work(p, Draft("shard", ledger[s], index, <<s>>))

(* select_validation_cells.                                                *)
Select(p, s, shards) ==
    /\ pc[p] = "idle"
    /\ CompleteShards(s, shards)
    /\ WriteOpen("selection", Gaussian, ledger[s].gen, 0)
    /\ ledger[s].phase = Gaussian
    /\ Work(p, Draft("selection", ledger[s], 0, <<s>> \o shards))

(* validate_gaussian_approximation; the numbers decide whether it passes.  *)
Validate(p, s, shards, selection, passed) ==
    /\ pc[p] = "idle"
    /\ CompleteShards(s, shards)
    /\ WriteOpen("validation", Gaussian, ledger[s].gen, 0)
    /\ selection \in At("selection")
    /\ ledger[selection].parents = <<s>> \o shards
    /\ Work(p, [Draft("validation", ledger[s], 0, <<s>> \o shards \o <<selection>>)
                  EXCEPT !.passed = passed])

(* validate_full_multiplier_fallback.                                      *)
ValidateFallback(p, s, shards) ==
    /\ pc[p] = "idle"
    /\ CompleteShards(s, shards)
    /\ WriteOpen("validation", Fallback, ledger[s].gen, 0)
    /\ ledger[s].phase = Fallback
    /\ LET t == ledger[ledger[s].parents[1]]
       IN  t.stage = "validation" /\ t.phase = Gaussian /\ ~t.passed
    /\ Work(p, Draft("validation", ledger[s], 0, ledger[s].parents \o <<s>> \o shards))

(* _authority_attempt_refs lists all it discovered: without a final, every *)
(* report is an attempt.                                                   *)
AllAttempts == [i \in Refs |-> i]

(* The final report of a chain.                                            *)
Final(s, chain) ==
    [Draft("final", ledger[s], 0, AllAttempts) EXCEPT !.chain = chain]

(* _finalize_completed_chain: the selection and the validation are any     *)
(* reports of their stage in the ledger.                                   *)
FinalizeGaussian(p, s, shards, selection, v) ==
    /\ pc[p] = "idle"
    /\ CompleteShards(s, shards)
    /\ selection \in At("selection")
    /\ v \in GaussianValidations /\ ledger[v].passed
    /\ Finalizable
    /\ Work(p, [Final(s, <<s>> \o shards \o <<selection, v>>) EXCEPT !.phase = Gaussian])

(* _finalize_full_multiplier_chain.                                        *)
FinalizeFallback(p, s, shards, v) ==
    /\ pc[p] = "idle"
    /\ CompleteShards(s, shards)
    /\ ledger[s].phase = Fallback
    /\ v \in At("validation") /\ ledger[v].phase = Fallback
    /\ Finalizable
    /\ Work(p, Final(s, <<s>> \o shards \o <<v>>))

(* The arguments finalize_synthetic_validation_failed accepts: all the     *)
(* discovered attempts and one of them.                                    *)
FailedArmAccepts(terminal) ==
    Authority = "synthetic_validation" /\ Finalizable /\ terminal \in Attempts

(* finalize_synthetic_validation_failed reads an undefined name after its  *)
(* checks: the call raises NameError and writes nothing.                   *)
FinalizeFailed(p, terminal) ==
    /\ pc[p] = "idle"
    /\ FailedArmAccepts(terminal)
    /\ pc' = [pc EXCEPT ![p] = "raised"]
    /\ UNCHANGED <<ledger, markers, nogo, lock, pending>>

(* write_record publishes the report; a screen keeps the lock.             *)
Write(p) ==
    /\ pc[p] = "write"
    /\ ledger' = Append(ledger, pending[p])
    /\ IF pending[p].stage = "screen"
         THEN pc' = [pc EXCEPT ![p] = "mark"] /\ UNCHANGED pending
         ELSE pc' = [pc EXCEPT ![p] = "idle"] /\ pending' = [pending EXCEPT ![p] = None]
    /\ UNCHANGED <<markers, nogo, lock>>

(* _write_timing_verification, then the lock is released.                  *)
Mark(p) ==
    /\ pc[p] = "mark"
    /\ markers' = markers \cup {i \in Refs : ledger[i] = pending[p]}
    /\ pc' = [pc EXCEPT ![p] = "idle"]
    /\ pending' = [pending EXCEPT ![p] = None]
    /\ lock' = Unlocked(p)
    /\ UNCHANGED <<ledger, nogo>>

(* create_timing_no_go: no descendant may exist; the record is created     *)
(* exclusively and written in place.                                       *)
CreateNoGo(p) ==
    /\ pc[p] = "nogo"
    /\ ledger = <<>> /\ nogo = "none"
    /\ nogo' = "torn"
    /\ pc' = [pc EXCEPT ![p] = "write_nogo"]
    /\ UNCHANGED <<ledger, markers, lock, pending>>

WriteNoGo(p) ==
    /\ pc[p] = "write_nogo"
    /\ nogo' = "whole"
    /\ pc' = [pc EXCEPT ![p] = "idle"]
    /\ lock' = Unlocked(p)
    /\ UNCHANGED <<ledger, markers, pending>>

(* The call raises or its process is killed: what is written stays, except *)
(* that an exception unlinks a half-written no-go.                         *)
Abandon(p) ==
    /\ pc[p] \notin {"idle", "absent"}
    /\ nogo' \in IF pc[p] = "write_nogo" THEN {"none", "torn"} ELSE {nogo}
    /\ pc' = [pc EXCEPT ![p] = "idle"]
    /\ pending' = [pending EXCEPT ![p] = None]
    /\ lock' = Unlocked(p)
    /\ UNCHANGED <<ledger, markers>>

(* The commands that take a screen and its shards.                         *)
OnShards(p, s, shards) ==
    \/ Select(p, s, shards)
    \/ \E j \in At("selection"), passed \in BOOLEAN : Validate(p, s, shards, j, passed)
    \/ ValidateFallback(p, s, shards)
    \/ \E j \in At("selection"), v \in At("validation") :
           FinalizeGaussian(p, s, shards, j, v)
    \/ \E v \in At("validation") : FinalizeFallback(p, s, shards, v)

Triggers == {<<>>} \cup {<<i>> : i \in At("validation")}

Next ==
    \E p \in Procs :
        \/ \E label \in {"screen", "nogo"} : Lock(p, label)
        \/ \E phase \in Phases, gen \in 0 .. MaxGen, n \in ShardCounts, t \in Triggers :
               Screen(p, phase, gen, n, t)
        \/ \E s \in At("screen") : \E index \in 0 .. ledger[s].count - 1 :
               Shard(p, s, index)
        \/ \E s \in At("screen") : \E shards \in ShardTuples(s) : OnShards(p, s, shards)
        \/ \E t \in Attempts : FinalizeFailed(p, t)
        \/ Write(p) \/ Mark(p)
        \/ CreateNoGo(p) \/ WriteNoGo(p)
        \/ Abandon(p)

Spec == Init /\ [][Next]_vars

-----------------------------------------------------------------------------
(* Properties.                                                             *)

(* The ledger holds well-formed reports, and each command a pending one.   *)
TypeOK ==
    /\ ledger \in Seq(Report)
    /\ markers \subseteq Refs
    /\ nogo \in {"none", "torn", "whole"}
    /\ lock \in Procs \cup {None}
    /\ pc \in [Procs -> Labels]
    /\ pending \in [Procs -> Report \cup {None}]

(* However screens interleave, crash and retry, each (phase, generation)   *)
(* has one screen and the generations of a phase have no gap: the scan and *)
(* the write of screen_power_grid share the lock.                          *)
OneScreenPerAttempt ==
    \A i, j \in At("screen") : ledger[i].phase = ledger[j].phase =>
        /\ ledger[i].gen = ledger[j].gen => i = j
        /\ \A g \in 0 .. ledger[i].gen : InAttempt("screen", ledger[i].phase, g) # {}

(* A whole timing no-go and a power report never share a run root: the     *)
(* no-go claims that no screen exists, and every scan refuses it.          *)
NoGoExcludesPower == nogo = "whole" => ledger = <<>>

(* Every selection and validation stands on exactly one shard per index of *)
(* one screen whose timing admission was completed.                        *)
WholeChains ==
    \A i \in At("selection") \cup At("validation") :
        LET parents == {ledger[i].parents[k] : k \in DOMAIN ledger[i].parents}
            shards == parents \cap At("shard")
        IN  \E s \in parents \cap markers :
                /\ ledger[i].phase = ledger[s].phase /\ ledger[i].gen = ledger[s].gen
                /\ \A j \in shards : ledger[j].parents = <<s>>
                /\ \A index \in 0 .. ledger[s].count - 1 :
                      \E j \in shards : ledger[j].shard = index
                /\ Cardinality(shards) = ledger[s].count

(* The commands are given one at a time.                                   *)
Alone == \E p \in Procs : \A q \in Procs \ {p} : pc[q] = "absent"

(* When the commands are given one at a time, a final is the last report   *)
(* of its authority, there is one, and its ancestry is the whole ledger.   *)
FinalCloses ==
    Alone => \A f \in At("final") : f = Len(ledger) /\ At("final") = {f} /\ ParentsAll(f)

(* The reports a final selects are of one attempt.                         *)
Matched(f) ==
    \A k \in DOMAIN ledger[f].chain :
        /\ ledger[ledger[f].chain[k]].phase = ledger[f].phase
        /\ ledger[ledger[f].chain[k]].gen = ledger[f].gen

(* One process at a time, a synthetic final that selects the reports of    *)
(* one attempt passes the validator that schedules and release run.        *)
MatchedFinalValid == Alone => \A f \in At("final") : Matched(f) => FinalValid(f)

(* A final is terminal and stands up to its validator.                     *)
FinalStands == FinalCloses /\ MatchedFinalValid
=============================================================================
