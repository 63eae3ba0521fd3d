-------------------------- MODULE FoundationTraining --------------------------
(***************************************************************************)
(* Training under an approved stage (runner.py, dataset.py, optimizer.py,  *)
(* checkpoints.py, run_manifest.py).  A run verifies the authorization,    *)
(* allocates, reads the shard again, and trains complete accumulation      *)
(* windows; it acts only at the boundary after a window.  It may raise or  *)
(* be killed anywhere, and be resumed from any checkpoint file.            *)
(*                                                                         *)
(* Weights are the sequence of windows that were trained into them, each   *)
(* with the learning rate; a loss is one of two values.                    *)
(***************************************************************************)
EXTENDS FoundationStage

CONSTANTS
    Requests,       \* [seed, lr] of the runs an operator may start
    Order(_, _),    \* Order(seed, n): the sampler's permutation of 1 .. n
    Accumulation, KeepLast,
    Losses,         \* losses a window may have, none below 0, Infinite among them
    Infinite,
    MaxTrainings         \* bound

ASSUME AccumulationAssumption == Accumulation \in Nat \ {0} /\ KeepLast \in Nat \ {0}
ASSUME LossesAssumption == Losses \subseteq Nat
\* A shard holds at most one record of each row.
ASSUME OrderAssumption ==
    \A q \in Requests : \A n \in 0 .. Cardinality(DOMAIN Row) :
        Order(q.seed, n) \in [1 .. n -> 1 .. n] /\ IsInjective(Order(q.seed, n))

VARIABLES
    run,        \* the training process
    files,      \* optimizer step -> checkpoint, for the files that exist
    index,      \* the records of index.json: [step, value]
    output,     \* the run root: the manifest's status and the rows file
    runs        \* runs so far

trainVars == <<run, files, index, output, runs>>
foundationVars == <<stageVars, trainVars>>

NoRun == [pc |-> "idle"]
Unmeasured == 1000

FoundationInit ==
    /\ StageInit
    /\ run = NoRun /\ files = <<>> /\ index = {}
    /\ output = [status |-> None, reason |-> None, rows |-> 0, last |-> None]
    /\ runs = 0

-----------------------------------------------------------------------------
(* Starting.                                                               *)

\* preflight_foundation_run; from is the checkpoint to resume from, or None.
Preflight(request, from) ==
    /\ run.pc = "idle" /\ runs < MaxTrainings /\ disk.final # None
    /\ runs' = runs + 1
    /\ verdict' = [by |-> "verify", ok |-> Verified(ScopeOf(disk.final)),
                   changed |-> operator.changed \/ disk.final # disk.candidate]
    /\ run' = IF ~Verified(ScopeOf(disk.final)) THEN NoRun
              ELSE [pc |-> "load", scope |-> disk.final, lr |-> request.lr, seed |-> request.seed,
                    from |-> from, shard |-> <<>>, sampler |-> 0, cursor |-> 0, step |-> 0, tokens |-> 0,
                    weights |-> <<>>, window |-> <<>>, at |-> 0, best |-> Unmeasured, rows |-> 0,
                    reason |-> None, status |-> "completed", prune |-> {},
                    back |-> "idle", last |-> from]
    /\ UNCHANGED <<world, disk, prep, operator, used, files, index, output>>

\* _resume_bindings.
Bindings(r) == [scope |-> r.scope, lr |-> r.lr]

\* CheckpointManager.load: every binding equal.
Loadable(r, c) == c.bindings = Bindings(r) /\ c.lr = r.lr

\* CheckpointManager.load and FoundationShardDataset: the checkpoint's progress
\* replaces the request's seed, and the shard file is checked against its name.
Load ==
    /\ run.pc = "load"
    /\ LET shard == ScopeOf(run.scope).artifacts.shard
           resumed == run.from # None
       IN
       IF \/ resumed /\ (run.from \notin DOMAIN files \/ ~Loadable(run, files[run.from]))
          \/ shard \in disk.damaged
       THEN run' = NoRun /\ UNCHANGED output
       ELSE LET c == files[run.from] IN
            /\ run' = IF resumed
                 THEN [run EXCEPT !.pc = "window", !.shard = shard, !.sampler = c.cursor, !.cursor = c.cursor,
                         !.step = c.step, !.tokens = c.tokens, !.weights = c.weights,
                         !.seed = c.seed, !.best = c.best, !.rows = output.rows]
                 ELSE [run EXCEPT !.pc = "window", !.shard = shard]
            /\ output' = [output EXCEPT !.status = "running", !.reason = None]
    /\ UNCHANGED <<stageVars, files, index, runs>>

-----------------------------------------------------------------------------
(* Windows.                                                                *)

WindowAt(shard, seed, cursor) ==
    [k \in 1 .. Accumulation |-> shard[Order(seed, Len(shard))[cursor + k]]]
WindowTokens(window) == FoldSeq(LAMBDA r, n : n + r.tokens, 0, window)

\* DeterministicSampler.iter_windows: the cursor passes every complete window,
\* and one that would cross the ceiling is skipped.
NextWindow ==
    /\ run.pc = "window"
    /\ IF run.sampler + Accumulation > Len(run.shard)
       THEN run' = [run EXCEPT !.pc = "file", !.back = "end"]
       ELSE LET w == WindowAt(run.shard, run.seed, run.sampler) IN
            run' = IF run.tokens + WindowTokens(w) <= Ceiling
                   THEN [run EXCEPT !.sampler = @ + Accumulation, !.window = w, !.pc = "micro"]
                   ELSE [run EXCEPT !.sampler = @ + Accumulation]
    /\ UNCHANGED <<stageVars, files, index, output, runs>>

\* apply_verified_authorization: an exact member of the authorized shard.
Applies(r) == r \in Membership(ScopeOf(run.scope)) /\ Row[r.id].lane \in Lanes(ScopeOf(run.scope).stage)

\* One microbatch; the last one of the window makes the optimizer's step, and
\* the progress follows: only then does it take over the sampler's cursor.
Microbatch ==
    /\ run.pc = "micro"
    /\ IF ~Applies(run.window[run.at + 1])
       THEN run' = [run EXCEPT !.pc = "raised"]
       ELSE run' = IF run.at + 1 < Accumulation THEN [run EXCEPT !.at = @ + 1]
                   ELSE [run EXCEPT !.at = 0, !.pc = "boundary", !.step = @ + 1,
                           !.tokens = @ + WindowTokens(run.window), !.cursor = run.sampler,
                           !.weights = Append(@, [lr |-> run.lr,
                               ids |-> [k \in 1 .. Accumulation |-> run.window[k].id]])]
    /\ UNCHANGED <<stageVars, files, index, output, runs>>

\* The boundary: the loss and the resource guard's decision.  A loss that is
\* not finite fails the run; every other failure and pause is the guard's or
\* the operator's.  A save may be due.
Boundary(loss, decision, due) ==
    /\ run.pc = "boundary"
    /\ loss = Infinite => decision = "failed"
    /\ due => decision = "continue"
    /\ LET finite == loss # Infinite
           r == [run EXCEPT !.window = <<>>, !.rows = IF finite THEN @ + 1 ELSE @,
                            !.best = IF finite /\ loss < @ THEN loss ELSE @]
       IN  run' = IF decision # "continue"
                  THEN [r EXCEPT !.status = decision, !.reason = decision, !.pc = "file", !.back = "end"]
                  ELSE [r EXCEPT !.pc = IF due THEN "file" ELSE "window", !.back = "window"]
    /\ UNCHANGED <<stageVars, files, index, output, runs>>

-----------------------------------------------------------------------------
(* CheckpointManager.save, and what surrounds it.                          *)

Checkpoint(cursor) ==
    [bindings |-> Bindings(run), lr |-> run.lr, seed |-> run.seed, cursor |-> cursor,
     step |-> run.step, tokens |-> run.tokens, weights |-> run.weights, best |-> run.best]
Write(checkpoint) == [s \in DOMAIN files \cup {run.step} |->
                        IF s = run.step THEN checkpoint ELSE files[s]]

\* A faulty save, for mutation: the sampler's cursor instead of the progress.
SaveFileAhead ==
    /\ run.pc = "file" /\ files' = Write(Checkpoint(run.sampler))
    /\ run' = [run EXCEPT !.pc = "index"]
    /\ UNCHANGED <<stageVars, index, output, runs>>

\* The checkpoint replaces a file of the same step.
SaveFile ==
    /\ run.pc = "file" /\ files' = Write(Checkpoint(run.cursor))
    /\ run' = [run EXCEPT !.pc = "index"]
    /\ UNCHANGED <<stageVars, index, output, runs>>

Records(step, value) == {r \in index : r.step # step} \cup {[step |-> step, value |-> value]}
Best(records) ==
    CHOOSE r \in records : \A s \in records :
        r.value < s.value \/ (r.value = s.value /\ r.step <= s.step)
\* The last KeepLast of the index, and the best.
Retained(records) ==
    {r \in records : Cardinality({s \in records : s.step > r.step}) < KeepLast}
    \cup {Best(records)}

\* The pruned index is published before a file is unlinked.
SaveIndex ==
    /\ run.pc = "index"
    /\ LET records == Records(run.step, run.best) IN
       /\ index' = Retained(records)
       /\ run' = [run EXCEPT !.pc = "prune", !.prune = {r.step : r \in records \ Retained(records)}]
    /\ UNCHANGED <<stageVars, files, output, runs>>

Prune ==
    /\ run.pc = "prune" /\ run.prune # {}
    /\ LET s == Min(run.prune) IN
       /\ files' = [t \in DOMAIN files \ {s} |-> files[t]]
       /\ run' = [run EXCEPT !.prune = @ \ {s}]
    /\ UNCHANGED <<stageVars, index, output, runs>>

\* The rows of every window are written after the checkpoint.
WriteRows ==
    /\ run.pc = "prune" /\ run.prune = {}
    /\ output' = [output EXCEPT !.rows = run.rows]
    /\ run' = [run EXCEPT !.pc = run.back, !.last = run.step]
    /\ UNCHANGED <<stageVars, files, index, runs>>

\* The final manifest, with the reason.
Finish ==
    /\ run.pc = "end"
    /\ output' = [output EXCEPT !.status = run.status, !.reason = run.reason, !.last = run.last]
    /\ run' = NoRun
    /\ UNCHANGED <<stageVars, files, index, runs>>

\* Anything may raise inside the loop: a checkpoint is tried and refused while
\* gradients are pending (assert_safe_boundary), then rows and a failed manifest are written.
Raise ==
    /\ run.pc \in {"window", "micro", "boundary", "index", "prune"}
    /\ run' = [run EXCEPT !.pc = "raised"]
    /\ UNCHANGED <<stageVars, files, index, output, runs>>
Raised ==
    /\ run.pc = "raised"
    /\ IF run.at = 0
       THEN run' = [run EXCEPT !.pc = "file", !.back = "end", !.status = "failed"] /\ UNCHANGED output
       ELSE /\ run' = NoRun
            /\ output' = [output EXCEPT !.rows = run.rows, !.status = "failed", !.reason = None,
                                        !.last = run.last]
    /\ UNCHANGED <<stageVars, files, index, runs>>

KillRun ==
    /\ run.pc # "idle" /\ run' = NoRun
    /\ UNCHANGED <<stageVars, files, index, output, runs>>

Train ==
    \/ \E request \in Requests, from \in DOMAIN files \cup {None} : Preflight(request, from)
    \/ Load \/ NextWindow \/ Microbatch
    \/ \E loss \in Losses, decision \in {"continue", "paused", "failed"}, due \in BOOLEAN :
           Boundary(loss, decision, due)
    \/ SaveFile \/ SaveIndex \/ Prune \/ WriteRows \/ Finish \/ Raise \/ Raised \/ KillRun

FoundationNext == (StageNext /\ UNCHANGED trainVars) \/ Train

FoundationSpec == FoundationInit /\ [][FoundationNext]_foundationVars

-----------------------------------------------------------------------------
(* Properties.                                                             *)

FoundationTypeOK ==
    /\ prep.pc \in {"idle", "policy", "tokenizer", "load", "source", "plan", "dry", "convert",
                    "evals", "shard", "check", "manifest", "receipts", "candidate"}
    /\ run.pc \in {"idle", "load", "window", "micro", "boundary", "file", "index", "prune", "end", "raised"}
    /\ disk.damaged \subseteq disk.shards /\ world.tokenizer \in 1 .. 2
    /\ \A s \in DOMAIN files : s = files[s].step
    /\ run.pc # "idle" => run.cursor <= Len(ScopeOf(run.scope).artifacts.shard)

\* The preparation and the validator are written separately: whatever one
\* undisturbed preparation publishes, over whatever a killed or refused one
\* left behind, the validator accepts, and an approved stage that nothing has
\* changed since is accepted by every later verification.
AcceptedUnlessChanged == verdict.changed \/ verdict.ok

\* What a run is trained on: a record of a scope the operator read and
\* approved, of the train split, of no evaluation repository of that scope
\* under either spelling, in a stage of several lanes of no repository in the
\* registry of the approved checkout, and never more tokens than the ceiling.
TrainedIsAuthorized ==
    run.pc = "micro" =>
        /\ run.scope \in operator.approved
        /\ \A k \in 1 .. Accumulation :
             LET r == run.window[k]
                 repo == RepoDigest(CanonicalRepo(r.id))
             IN  /\ r \in ToSet(ScopeOf(run.scope).artifacts.shard)
                 /\ r.split = "train" /\ Bucket[CanonicalRepo(r.id)] < 80
                 /\ \A e \in IdentitiesOf(ScopeOf(run.scope).artifacts.evals) :
                        e.task # Row[r.id].task /\ RepoDigest(<<"name", e.repo>>) # repo
                 /\ (/\ MultiLane(ScopeOf(run.scope).stage)
                      /\ world.commit = ScopeOf(run.scope).commit /\ ~world.dirty) => repo \notin world.leak
        /\ run.tokens + WindowTokens(run.window) <= Ceiling

\* The windows the deterministic schedule trains first.
Schedule(shard, seed, lr, steps) ==
    [s \in 1 .. steps |->
        [lr |-> lr, ids |-> [k \in 1 .. Accumulation |->
            WindowAt(shard, seed, (s - 1) * Accumulation)[k].id]]]

\* Whatever runs, resumptions, failures and kills came before: the weights in
\* a checkpoint are exactly the first windows of the schedule of the scope,
\* seed and learning rate it is bound to, its progress is that of those
\* windows, and the index names only files that exist.
CheckpointsExact ==
    /\ \A s \in DOMAIN files :
         LET c == files[s]
             shard == ScopeOf(c.bindings.scope).artifacts.shard
         IN  /\ c.weights = Schedule(shard, c.seed, c.lr, c.step)
             /\ c.tokens = FoldSeq(LAMBDA r, n : n + r.tokens, 0,
                    [k \in 1 .. c.step * Accumulation |-> shard[Order(c.seed, Len(shard))[k]]])
    /\ \A r \in index : r.step \in DOMAIN files
===============================================================================
