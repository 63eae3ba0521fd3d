# A verification development for pneuma-lab

pneuma-lab is a Python laboratory for controlled experiments with language-model
agents. What its core code protects is not throughput but *evidence*: a scientific
file counts only if a fixed, ordered and crash-safe protocol put it on disk. This
directory holds TLA+ models of those protocols, the TLC configurations that check
them on small instances, and TLAPS proofs of the most important results for every
value of the constants.

Paths below are relative to `src/pneuma_lab/` of the repository unless they say
otherwise. `PROJECT.json` lists, for each definition that models code, the file and
lines it stands for, each hazard at its line with the properties that watch it, and
for each property a plausible bug of the code that would break it.

## 1. Inventory

### 1.1 The parts that carry state

The *resampling-null study* (`resampling_null/`) has most of the protocols. Its
processes are command-line calls and scripts; they share one **run root**, a
directory tree, and nothing else. There is no server: every interaction is a file
created, linked, renamed or locked in the run root, and a process can be killed
between any two system calls. Inside one call the loops drive forked workers over
pipes. The other stateful parts are the foundation training runtime, the adversarial
review, the test daemon and two research tools.

| Component | State it keeps | Operations | Hard behaviour |
|---|---|---|---|
| storage transaction (`storage.py`, called from `schedule.py`, `branch_assignment.py`) | per transaction: a lock file, an intent, commit proofs, abort records and a fixed receipt; the scientific file; a lease object in the process | claim, begin, end, publish (intent, install, commit, receipt), recover, release | kill between install and commit or inside a write in place; lease that expires mid-way; retry that finds somebody else's intent |
| Task-6 blinding (`task6_state.py`, `blinding.py`, `write_record` of `artifacts.py`) | outcome-taint marker, paired-publication journal, two staging files, the two result files, a lock | write a protected record, project blinded outcomes, unblind, publish the pair, recover, abort | the secret may be read once; two files must appear as one; checks made without the lock |
| power ledger (`power.py`, `timing_no_go.py`, power validators of `artifacts.py`) | immutable reports (screen, shard, selection, validation, final), timing markers, the timing no-go, a lock for screens | screen, shard, merge, validate, four finalizers, no-go | hours between a check and the write it allows; long sequences of generations; writer and validator that encode the rules twice |
| run-root publication (`publication.py`, `publication_rollback.py`, `publication_quarantine.py`) | lease, directory, temporaries, published links, quarantine names, the descriptors a transaction holds | enter, directory, publish, commit, roll back, close | writers that ignore the lease and act between any two calls of a rollback |
| artifact bundles (`../foundation/artifacts.py`) | published files, backups, descriptors of a reader | bind, replace, verify, commit, roll back, read a set | kill between two renames; a reader that takes files while they are replaced |
| prefix loop, candidate, prefix index (`synthetic_prefix_loop.py`, `prefix_contracts.py`, `prefix_index.py`) | ledgers of calls, clocks and tools, the worker's mirror of them; the candidate's records; the index and its content-addressed store | run one prefix, seal it, replay it, read it back, seal the index | three independent tellings of the same spending; records that name one another |
| worker fleet (`synthetic_environment.py`) and test pool (`testd/`) | pipes, child processes, workspaces | ask, answer, time out, reap, clear | late answers, hung and dead children, cleanup under a live process |
| branch stage (`synthetic_branch_loop.py`, `branch_controller.py`) | work orders, attempts, receipts, task blocks | admit, run a slot, seal an attempt, authorize a rerun, grade, close adversely | outcomes of two attempts of one task; caps shared by calls and tools |
| provider authority (`seal_study_manifest` of `artifacts.py`, `schedule.py`, `provider_contract_assets.py`, `provider_contracts.py`, `execution_authority.py`, `branch_program_authority.py`, `authority_refs.py`) | some fifteen kinds of sealed document; bindings of a reader from references to paths and inodes | seal the manifest and its closure, seal the schedule, load the authority of one task, resolve its branch programs | documents that name one another, sealed once and read file by file much later |
| packets (`packets.py`, `packet_capabilities.py`) | derived documents, two packets, candidate and sealed index, the grants of the slots | normalize, rename, rewrite, pair, audit, resolve, read | built, audited and read by different commands; names that survive a rewriting; another writer between them |
| study (`assignment.py`, `packets.py`, `analysis`, `freeze`, artifact root) | the records of one study and their ancestry | every command of `cli.py` from the manifest to the root | a stage removed and run again; a record under a second name |
| foundation runtime (`foundation/`) | prepared data, approval, checkpoints | prepare, authorize, approve, train, checkpoint, resume | sources that change between a check and its use; resume after a kill |
| adversarial review (`adversarial_review/`) | transcripts, findings, a disposition | preflight, review, edit, chair, override, discharge | evidence verified at another time than it was read; partial writes; reruns |
| research tools (`scripts/research/`: baseline capture, execution journal) | two snapshots and a capability; a journal with archived segments | snapshot, grant; append, migrate | launchers side by side; a kill between two files of a migration |
| cloud execution, placebo study, gauge, nervous system, psyche, brain, voice, converters, adapters, statistics, evals, schemas | see section 6 | | not modelled |

How they interact: a study seals its manifest and all that its plan refers to through
the run-root publication, and every loop loads its task's authority from that ancestry;
`schedule.py` and then `branch_assignment.py` publish through the storage
transaction, and the second may run only under the accepted receipt of the first;
the prefix loop writes candidates that the prefix index reads back and seals;
assignment, packets and the branch stage consume that index; power reports, freezes
and task blocks are written through `write_record`, which publishes through
`foundation/artifacts.py`; blinding reads the records and writes the pair that ends
the study.

### 1.2 What makes each part correct

* Storage: a receipt is backed by a durable commit of exactly those bytes; an intent
  is committed or aborted, never both; nothing accepted is withdrawn; assignments
  follow a schedule.
* Blinding: the secret outcomes are read at most once in the life of a run root; the
  two results appear together or not at all; a kill leaves nothing that the next
  recovery cannot clear; one projection.
* Power: one screen per phase and generation; a no-go excludes a power report; a
  selection is made over exactly the shards of its screen; a final closes the ledger
  and passes the independent validator.
* Publication: a foreign writer's file is never destroyed; nothing changed by
  others is committed; whatever a rollback leaves behind is reported; an undisturbed
  rollback leaves nothing.
* Artifact bundles: no committed content is lost; a set that a reader accepts was on
  disk at one instant.
* Prefix: everything spent was recorded first; worker and controller agree; the index
  accepts what the loop seals and refuses a record wired to another call.
* Workers: an answer is taken only for its own question; no live worker's workspace
  is cleared; every child left behind is reported.
* Branch: a packet is shown once and only to its arm; caps bind; a superseded attempt
  is never graded; a block mixes no attempts.
* Packets: a worker reads its own arm's packet, disguised if it is the donor's, and
  cannot tell the arm from its size, its severities or a name.
* Foundation: what the preparer publishes the validator accepts; training sees only
  approved records; a resumed run equals an uninterrupted one.
* Provider authority: an execution is authorised by documents of its own study, task and
  lane, unchanged since they were sealed; a sound study is not refused.
* Study: an artifact root that verifies holds one study; an accepted assignment ledger
  is rebuilt by both verifiers.
* Review: a pass is earned: every blocking finding was verified, discharged or
  overridden in this campaign.
* Tools: a capability is granted on evidence of one's own, taken on one unchanged tree; an
  event that was appended is in the journal or its archive.

## 2. Modules

| Module | Contents | Proofs |
|---|---|---|
| `StorageTransaction` | the two storage transactions of one run root | `StorageProofs` |
| `ResultOfRecord` | abstract: what blinding promises about secret and results | |
| `UnblindTransaction` | the Task-6 controller that implements it | `ReleaseProofs` |
| `PowerLedger` | the ledger of one decision authority | `PowerProofs` |
| `BoundPublication` | publication, commit and rollback of several files | `PublicationProofs` |
| `ArtifactPublication` | bundles of files replaced in place, and their readers | `ArtifactProofs` |
| `PrefixLoop` | one prefix from its first provider call to its sealed candidate | |
| `PrefixReplay` | how the index recomputes that prefix from its records | |
| `PrefixCandidate`, `CandidateReading` | the evidence graph of a candidate; how the index and the assignment read it | |
| `PrefixSealing` | the content-addressed store and the sealing of the index | `EvidenceProofs` |
| `EnvironmentFleet` | the workers of a prefix | `FleetProofs` |
| `TestPool` | the test daemon's forked children | `FleetProofs` |
| `BranchBlock` | admission, slots, attempts, outages, blocks | `StageProofs` |
| `PacketPair` | the packets of a task: rewriting, pairing, audit, grants, reads | `StageProofs` |
| `ProviderDocuments` | what the provider documents say and how they bind each other (pure) | |
| `ProviderAuthority` | sealing of manifest and schedule, the authority loader, the branch programs | |
| `StudyAssignment` | assignment ledger and its two verifiers (pure) | |
| `StudyGraph` | record graph and artifact root (pure) | |
| `StudyPipeline` | every command of a study on one run root | |
| `FoundationData` | what a training stage computes from its sources (pure) | |
| `FoundationStage` | preparation, candidate, approval, verification | |
| `FoundationTraining` | training, checkpoints, resumption | `StageProofs` |
| `ReviewCampaign` | one adversarial review with its reruns | `ReleaseProofs` |
| `BaselineCapture`, `ExecutionJournal` | the two research tools | `EvidenceProofs` |
| `MC*` | instances for TLC; those that hold several protocols run one per behaviour | |

`ProviderAuthority` extends `ProviderDocuments`; `StudyPipeline` uses `StudyGraph` and `StudyAssignment`; `CandidateReading` extends
`PrefixCandidate`, which extends `PrefixLoop`, which uses `PrefixReplay`;
`FoundationTraining` extends `FoundationStage`, which extends `FoundationData`.

Some definitions are marked as faulty, "for mutation". They are not part of any
next-state relation: each is a plausible bug in one mapped definition, put in its
place to confirm that a property notices it.

### StorageTransaction

`lock`, `science`, `intent`, `commits`, `torn`, `aborts` and `receipt` are the
files of the run root; `pc`, `lease`, `lstate`, `phase`, `out` and `work` are the
lease object and the local variables of the call a process is in. `Claim` is
`claim_local_test_storage`; `Enter` the beginning of the publishing call, with the
choice between publication and recovery; `Prepare` and `End` the preparation and the
end observation; `CheckWindow` the lease check before the writes;
`ReplaceUncommittedIntent`, `FinishAbortRecord` and `UnlinkIntent` the replacement of
an abandoned intent; `CreateIntent` to `FinishReceipt` the publication; `Recover` and
`FinishRecover` the finalization of an earlier commit; `Fail` an exception anywhere;
`Tick` the passing of the lease's time; `Exit` the end of a process, `Crash` its kill.

A file's bytes are their digest, and an intent carries an id that stands for the
digest of its unique, timestamped bytes. `_exclusive_write` creates and then writes
*in place*, so it is two steps with a torn file in between. Sixty seconds are three
phases: fresh, closing, expired.

### UnblindTransaction and ResultOfRecord

`files` is the scientific namespace; `journal`, `temp` and `taint` are the controller
state on disk; `lock` the Task-6 flock. Record writers take no lock, as in the code:
`CheckRecord` is the check and `PublishRecord` the write of `write_record`. Projection
and unblinding take the lock (`AcquireLock`), recover whatever was left (`Recover`,
`Sweep`), taint and read (`StageUnblind`), run the analysis callback (`Analyse`),
write the journal, stage both files (`Prepare`, `WriteTemp`, `BindTemp`) and link them
(`Install`, `Linked`). `Fail` leads to the synchronous abort, `Crash` releases the lock
and forgets the call.

`ResultOfRecord` is what a reader of the study may rely on: it is blinded, then
exposed (the secret was read), then published, each step taken at most once and never
undone. The study counts as published as soon as both results are in place: the
refinement says that no recovery withdraws them then, even while the journal is still
there.

### PowerLedger

`ledger` is the sequence of reports in the order they appeared, `markers` the screens
whose timing marker was written, `nogo` the no-go record. A command is a check
(`Screen`, `Shard`, `OnShards`, `FinalizeFailed`) that leaves the report it will write
in `pending`, and a `Write`. Between the two lies the simulation, so other commands act
there (`scripts/run_p0_shards.sh`: "so they may run concurrently"). Screens and the
no-go hold a lock. `Abandon` is a refusal, an exception or a kill. The numerics are a
pass or a failure chosen freely; the two scans of a screen's check are one step,
because the lock keeps other screens and the no-go out and the rest of what they read
is immutable. Callers choose distinct output paths. Incomplete shards and the
roster-bound authority, for which the code has no finalizer, are left out.

### BoundPublication

One directory level stands for a path of several. `entry` maps directory objects to
the files under their names, `sources` says which directory object the name stands
for; `temp`, `qtemp`, `quar` and `qdir` are the private names of a transaction. A
transaction opens and binds the directory, creates, writes and links each file, and
verifies at commit; a rollback moves every published name to a quarantine name before
it decides whose file that is, and then does the same with the directory. `Peer` is
one act of a writer that ignores the lease: it replaces, links, edits or moves back a
published file, or renames the directory away and makes another in its place. Peers do
not know the random names. An exception from outside (a keyboard interrupt) between a
system call and the assignment that records it is not modelled; a failing call and a
kill are.

### ArtifactPublication

A writer moves the present file to a backup name, writes a temporary and renames it
over the name; it verifies all names and commits, or restores the backups through a
second binding. A reader opens every file of a set, reads, and then compares the
signatures of its descriptors with what the names mean. A rename changes the ctime and
so the signature. The chain of directory handles is one fact: whether the path still
resolves to the bound directory.

### PrefixLoop, PrefixReplay, PrefixCandidate, CandidateReading, PrefixSealing

The sealed program is not fixed in advance: a provider's answer, a tool's result and a
clock reading are chosen when they are used, so one behaviour stands for one program.
`ledger`-like variables of the controller and of the worker grow separately; `Accounted`
compares them (its part `MirrorAgrees` the two tellings). `PrefixReplay` is the index's own derivation of the
outcome. `PrefixCandidate` gives each artifact its references; `wire` redirects one
reference of one record to another artifact (same role, look-alike role, sibling of the
study), and `CandidateReading` is the sequence of checks that must notice. An artifact
is named by owner, role and index, so equal contents of different calls count as
different; a digest printed beside a reference moves with it. `PrefixSealing` has
writers of the content-addressed store, callers of the index in several processes, and
one foreign writer that moves the index away.

### EnvironmentFleet and TestPool

One controller, children with pipes. A child may answer late, hang, exit on its own or
ignore the polite signal; every system call of the controller may fail. `left`
over-approximates roots of an earlier, killed controller; `Foreign` puts another
directory under a root's name. In the pool a message is one write and a fingerprint is
the version of the sources it was taken of.

### BranchBlock

`facts` fixes, per task, whether it triggered and the arm of each slot. `act` is the
execution of one work order, `receipts` and `attempts` what is on disk. A run is one
call of the stage, and `begun` counts executions, so that what belongs to which attempt
is decidable from a receipt's `run`.

### PacketPair

One task and its donor. A text is a sequence of pieces, so that a name can be spelled
out by two atoms; a finding is its identifier, component, code, severity and atoms, and
an atom is a literal or an identifier of a kind. `reports` is what the two verifiers
found and `policy` the manifest's. `shelf` holds the files: four derived documents, two
packets under the names that the slots' capabilities give, the candidate and the sealed
index; a reference is a name with the bytes it digests. `job` is a build between two of
its writes. `packetIndex` is the index that later commands are given, `issued` the
grants resolved last and `seen` who read what. `Interfere` is another writer, who may
also turn a candidate's packet references round. The functions are modelled as the
library calls they are: the command that strings them together passes another document
(section 4).

### ProviderDocuments and ProviderAuthority

A document is a record with the fields that some check compares; a reference is role,
path, digest and media type, and a digest names the document with that content.
`Sound` gives the documents of a sound study and `Changes` what may be wrong with a
field: another owner's document, one of another kind, other bytes under the path, a
wrong role or media type, a path outside the copied tree, a value off by one.
`dossier` is one study's sources with one such fault or none, `disk` maps each path of
the run root to its content and inode, so a lost, edited or linked file is a change of
`disk` (`Meddle`, once, between any two steps). `SealStudyManifest` and
`SealPrefixSchedule` are the two sealings; `OpenSchedule` to `ProjectTaskAuthority` are
the stages of one loading, `bound` the bindings its reader holds; `granted` is what was
handed out. The keyed order of a task's slots is one fixed permutation that is not the
identity. Numeric types and texts of single fields, and the secrets behind commitments,
are left out.

### StudyAssignment, StudyGraph, StudyPipeline

HMAC is a constant operator, a digest the value it commits to. `StudyAssignment` has
the offsets, the solver of a stratum, both verifiers and what the typed records of
the verified ledger refuse; `StudyGraph` the validation of
every record kind, of its edges, coverage and recomputed rows, and of the artifact
root. Commands of `StudyPipeline` are atomic (their transactions are the modules
above). What is checked is the *order and identity* of stages: a record may be removed
and its stage run again, or be published under a second name, and then nothing that
verifies may mix two studies. Power is one final record; single fields have no schema;
roles and media types of references are left out.

### FoundationData, FoundationStage, FoundationTraining

Rows carry what the code reads of them: lane, repository, task, size, whether they
parse. `FoundationData` is the whole preparation as a function (conversion, split,
quarantines, selection, shard, receipts) together with the independently written
validator. The stage reads its sources one after the other and publishes one file after
the other while sources, registry, tokenizer and checkout change. Weights are the
sequence of windows trained into them, a loss is one of two values, and `Infinite`
stands for a non-finite one.

### ReviewCampaign, BaselineCapture, ExecutionJournal

A review asks its roles one after the other, verifies their findings against the files,
and writes six artifacts. Reviewers answer from a small set; a digest of an artifact is
the artifact. In the baseline capture a digest is the content, a nonce names launcher
and run. In the journal the file operations of a migration are separate steps;
a manifest record also carries how much of the archive comes before its segment, so that
"the segments concatenate to the archive" is said place by place.

## 3. What is checked

| Run | Instance | States | Shows |
|---|---|---|---|
| `storage` | 2 processes, 2 paths, 1 digest, 2 intents | 131,903 | records stay consistent whatever is killed (`AcceptedIsCommitted`, `TerminalExclusive`, `AssignmentFollowsSchedule`), none is withdrawn (`RecordsArePermanent`), a claimed lock comes back (`LockReleased`) |
| `unblind` | 2 controllers, 8 destinations | 129,303 | `NoOrphanStaging`; the secret read once and one projection (`OnceEach`); the refinement of `ResultOfRecord`; `LockReleased` |
| `power` | ledger: 2 interleaved commands up to 5 reports, 1 command up to 8; authority: 2 tasks on 2 lanes, one wrong field or one touched file | 177,928 | `OneScreenPerAttempt`, `NoGoExcludesPower`, `WholeChains`, `FinalStands`; an execution is authorised by its own documents (`AuthorityDecides`) |
| `publication` | 1 transaction of 2 files against 2 acts of peers, or 2 undisturbed transactions | 688,233 | `PeerPreserved`, `CommittedIsWhole`, `RollbackAccounts`, `TransactionEnds` |
| `artifacts` | 2 writers one after the other, 2 names, 1 reader, 1 move of the directory | 1,990,542 | `ReadIsSnapshot`, `ContentKept` |
| `prefix` | 4 authorities, one wiring fault per sealed prefix of the fourth | 346,028 | `Accounted`; the readers accept what is sealed and refuse what is wired otherwise (`ReadersAreExact`) |
| `evidence` | sealing: 2 writers, 3 callers in 2 processes; baseline: 2 launchers, 1 auditor; journal: 4 events over 2 days | 747,543 | `RefsResolve`, `CommittedIsIndex`, `GrantIsEarned`, `JournalKept` |
| `fleet` | 3 workers, 2 operations; 3 tests, 2 requests | 703,643 | `AnswersMatch`, `CleanupIsHonest`, `PoolFailsClosed`, `ControllersEnd` |
| `branch` | blocks: 2 tasks, 2 slots, 2 arms, caps of 2; packets: 8 pairs of reports, 3 slots, 2 builds, 1 interference | 381,980 | `SlotContract`, `OutageIsFinal`, `BlockIsOneAttempt`, `GuidanceIsFair` |
| `branch_seal_publishes` | the same | violation | section 4 |
| `foundation` | 9 rows of 2 lanes, 2 preparations, 2 runs, 1 edit | 66,856 | `AcceptedUnlessChanged`, `TrainedIsAuthorized`, `CheckpointsExact` |
| `study` | pipeline: 4 tasks of 3 lineages, 5 outcomes; review: 3 roles, 2 files | 575,999 | `ResultIsOneStudy`, `LedgersReconstruct`, `PassIsEarned` |

Type invariants are asserted on every state (`CONSTRAINT Typed`) or, for `storage` and
`power`, proved; most of the asserted ones are proved as well.

### Bounds, and why they are enough

* Two processes where processes race: all conflicts are between a holder and one other
  process (check-then-act, kill-then-retry). A third would add only repetition; where a
  theorem exists it says so for any number.
* Storage: two intents allow an abort and a replacement in one behaviour.
* Unblinding: a call can be repeated without limit; the taint bounds the reads. Every
  kind of record has destinations of its own (see disagreement 9 of section 4).
* Power (`MCInterleaved` 5, `MaxReports` 8, `MaxGen` 1): five reports suffice for a
  screen, two shards, a selection and one concurrent report; eight for a failed
  Gaussian chain, a whole fallback chain and its final.
* Provider authority (`MCPower` runs it beside the ledger, one protocol per behaviour):
  two tasks and two lanes, so that each document has a twin to be confused with; every
  field of every document that is used is wrong once, in each way `Changes` gives; both
  kinds of study, with and without a simulator; one fault or one touch, because two
  faults that only together mislead would need two wrong sealings. `Harmless` names the
  faults that the code tolerates, each with its reason.
* Publication: two acts of peers are one before and one after the move to quarantine of
  a name, or one of them on the directory; `InOrder` fixes which of two interchangeable
  processes begins.
* Artifacts: two writers let the second find the first's leftovers; `Overlap` is FALSE
  because overlapping writers do lose content (nobody takes a lock) and the code relies
  on one writer at a time. The theorem about readers does not need it.
* Prefix: the authorities are one where every cap and the deadline are reached
  (`Tight`), one with a simulator (`Talking`), one where the trigger at the fourth tool
  call is reached (`Roomy`) and a short one with both actors whose sealed prefixes are
  wired wrong (`Brief`). `Bound` gives, per authority, the number of rows, calls, tokens
  and time that are tried.
* Evidence: crews are every combination of actors in which somebody can be disturbed;
  edits 2 for one actor, 1 with an auditor, 0 with two launchers (they disturb each
  other). Journal: `MaxEvents` 4, `MaxDays` 2, `ShardSizes` {1, 2}, `MaxMigrations` 3,
  `MaxFaults` 2, enough for a torn migration, its retry and an event between them.
* Fleet: three workers are one pending, one failing, one done; one suffix for a foreign
  directory. Pool: three tests in two classes, one source edit.
* Branch: caps of 2 are reached by a call that asks for more tools than are left
  (`Pendings` {1, 3}); `MaxRuns` 3 allows two executions of one slot and one of another.
* Packets (`MaxBuilds` 2, `MaxDisturbances` 1, `PadStates` 5): the second build meets
  what the first left, in the same or the other order of the packets; one act of another
  writer between any two steps. The reports of `MCReports` are one per outcome: evidence
  that is shorter, as long or longer than the other's, that is cut, that cannot be made
  to fit, that collides, that spells the donor's name across two literals, and that is
  reported twice. Five explored paddings reach the sizes that these reports need.
* Foundation (`MaxEdits` 1, `MaxPrepares` 2, `MaxTrainings` 2, `KeepLast` 1,
  `Accumulation` 2): `Budget` and `Commuting` in `MCFoundation` choose which of these
  are combined, with the reason beside each.
* Study (`MaxSpare`, `MaxRemovals`, `MaxIrregular` 1): one removal or one second name is
  what every mixed study needs first. Of the two keys one has a derangement as its first
  offset and one has none. Review: `MaxRuns` 2 (one when a live reviewer is used),
  `MaxChanges` 1; edits not while artifacts are written.

Deadlock is checked for storage, unblinding and power; in the other runs each bounded
protocol ends and the system then has nothing left to do. State spaces are cut only by
the constraints named above.

### Fairness

Fairness is weak fairness of a process's own next step and nothing else. The storage
lock is taken without waiting (`LOCK_NB`), so a call never depends on another process; a
Task-6 controller waits only for the lock, and `AcquireLock` is *not* assumed fair; a
publication waits for nobody once it holds the lease; the two controllers of `fleet`
are single threads whose waits all have a deadline, and nothing is assumed of their
children. Storage adds weak fairness of `Exit`, because a lease that was claimed and
never begun gives its lock back only when its process ends. Kills are never assumed to
happen nor not to happen.

## 4. Disagreements between the code and what it says

One is kept as a run whose single property states a sentence of the repository and is
violated by what the code does: `branch_seal_publishes`. "Publish the one schema-valid
task block for a triggered task" (`branch_controller.py:761`), yet every such block is
refused by the record writer, which recomputes the terminal digest without the tag of
its kind (`artifacts.py:725`).

While modelling we met further states that a reader of the code or its documentation
would not expect. They are noted here and not kept as runs. (File names without a
directory are in `resampling_null/`.)

Storage, blinding, power, publication:

* A kill inside the in-place write of a receipt leaves a torn receipt; the committed
  transaction can then never be finalized (`storage.py:924`).
* `storage.py:254`: a "one-use" lease can be presented again after its lock was
  released, and the recovery then writes the receipt without the lock (`ReceiptInv` of
  the proof is what keeps this harmless).
* A protected record checked before the unblind read can be created after it, because
  `write_record` holds no lock (`artifacts.py:1083`, `:1099`).
* `blinding.py:316`: "publication failure removes every target written in this call"; a
  failure after the second link raises, yet the abort completes the pair.
* A task block aimed at the analysis destination can overwrite half of the pair.
* `artifacts.py:1077`: "without overwrite"; the second of two writers that both saw a
  destination absent replaces the first record.
* `power.py:1281`: a shard checked before the final was sealed is appended after it.
  `FinalStands` is therefore about one command at a time.
* `power.py:1288`: another Gaussian generation is admitted after a fallback screen, and
  the validator refuses the ledger from then on.
* `power.py:1508`: a kill between the screen and its timing marker leaves a generation
  recorded and never admitted; no selection can stand on it (`WholeChains`).
* `power.py:1932`: the finalizer accepts a selection and a validation of another
  generation than the screen it is given. `FinalStands` is about finals of one attempt.
* `power.py:1810` and `artifacts.py:4078`: the finalizer of the implementation
  verification authority writes a final that the validator refuses.
* `power.py:2046`: the failed arm passes its checks and then raises `NameError`.
* The sealing of a manifest validates only plans of version 2 and does not ask for the
  execution program of a task (`artifacts.py:1896`), so a sealed study may be refused
  by its schedule or its loader; other plan kinds are sealed unvalidated.
* `PrefixExecutionAuthority` is annotated for `synthetic_validation` only
  (`execution_authority.py:38`); its loader accepts `implementation_verification` too.
* The loader digests the prompt, clock, watchdog, qualification and payload assets it
  authorises and does not decode them; the branch programs are handed out without the
  comparison with their tool schema that a prefix program gets.
* `publication_rollback.py:464`: a peer's file in a directory that the transaction made
  is carried off with the directory to its quarantine name. It is not destroyed, but a
  residual in it is reported under the old path.
* `publication.py:656`: `__exit__` rolls back whenever the body raised, also when
  `commit` had already returned.
* `../foundation/artifacts.py`: `write_bytes` says "Atomically publish bytes"; between
  the backup rename and the replacement the name is missing.

Prefix, branch, packets:

* A turn refused by a cap or the clock before its dispatch leaves its transcript row
  unconsumed, so the run raises (`synthetic_prefix_loop.py:1886`) instead of recording
  the failure that `docs/superpowers/plans/2026-07-28-resampling-null-core.md:3644`
  names.
* `evidence.py:718` refuses a candidate whose authorized simulator was never called.
* A turn that says "terminal" and asks for tools is run by the loop and refused by
  `prefix_index.py:1160`.
* `authorize_full_block_rerun` says "Re-issue … once" (`branch_controller.py:501`);
  nothing records that it was done, and an attempt of index 1 may be sealed from
  receipts of attempt 0. `BlockIsOneAttempt` holds all the same.
* `synthetic_branch_loop.py:31` names a four-way equality "the attempt sealer later
  checks"; it is not compared there. A worker's cap on calls is recorded as a token cap.
* A branch stage that is killed leaves a part of its blocks, and a retry refuses them.
* `cli.py:573` builds packet pairs from `verifier_artifact_ref`, but the normalizer
  (`packets.py:1065`) demands another document, so `packets build` raises for every
  triggered task; `packets.py:1772` and `artifacts.py:2845` disagree on the reference.
* The public verifier accepts a ledger whose offset is not the first valid one.
* `verify_artifact_root` does not recompute the analysis result; with a schedule and a
  ledger but no prefix index document the graph check raises `KeyError`
  (`artifacts.py:2993`).

Foundation, review, test pool, tools:

* Retention prunes a just-saved checkpoint of a lower step
  (`../foundation/checkpoints.py:445`); an error between the optimizer step and the
  progress update (`../foundation/runner.py:1005`) leaves the two apart until the run
  is resumed.
* A review's evidence is verified against whatever is in the root at that time although
  `../adversarial_review/validation.py:5` says "resolved against the pinned inputs"; a
  discharge's receipt is not looked up in the receipt index; the conflict about a shared
  context cannot fire because every prompt names its role; a reviewer's timeout is not
  caught; raising a deferred major to a deferred blocker can unblock.
* The pool's parent never compares the node ids of a result with its request; the
  fingerprint is taken before the tests run; a child that ignores SIGTERM is left.
* `scripts/research/execution_journal.py:119`: an append does not look at the journal
  again before it replaces it; a migration that finds the journal changed leaves its
  archive installed, and `check` and `migrate` refuse until it is repaired.
* `scripts/research/capture_baseline.py`: a launcher's `active` is never reset, and an
  audit can accept receipts of two sessions. A launcher and an auditor of its receipts
  collect under one nonce and one file name (`:2350`, `:2355`), so either may be granted
  on the other's independent collection; `MintedOnOneTree` speaks of the grantee's own
  collection only where nobody else holds the same two receipts.

## 5. What is proved

Proofs are for any number of processes, paths, files, tasks, workers and generations;
the bounds (`MaxIntents`, `MaxGen`, `MaxReports`, `MaxOps`, `MaxRuns` …) are arbitrary
naturals. Each module rests only on the named assumptions of the module it extends:
that model values are distinct, that bounds are naturals, that sets whose size is
counted are finite. There is one lemma per action, and one step per conjunct the action
can disturb; frame lemmas say what a component's steps leave alone. Every inductive
invariant was checked by TLC before it was proved.

**Storage** (`StorageProofs`; `ValuesAssumption`). `AcceptedIsCommitted` is not
inductive by itself: that a receipt being completed matches a stored commit depends on
what the call carries in `work` and on nobody else replacing the intent meanwhile.
`IInv` adds: a call that is not recovering holds its transaction's lock (`LeaseInv`);
ids name intents uniquely and an id not yet on disk is used nowhere (`IdInv`,
`FreshInv`); at each program point, which files exist and agree with `work` (`WorkInv`,
`StageInv`); a stored proof is the proof of the present intent, with its science
installed and no abort record, and a whole receipt embeds both (`CommitInv`,
`ReceiptInv`); an assignment call in progress has seen its schedule accepted
(`SealInv`). `RecordsPermanent` and `QuarantineHolds` are action properties.

**Power** (`PowerProofs`; `AuthorityAssumption`, `BoundsAssumption`, `NoneAssumption`).
What a command knows between its check and its write: the holder of the lock is alone
(`LockInv`), the generation of a pending screen is still the next one (`ScreenInv`), a
pending report was checked against the no-go (`NoGoInv`). `ChainsAreWhole` adds
`SoundInv`: every report in the ledger or pending is of an admitted generation, a
screen's parents are its trigger, a judged report stands on its shards (counted by a
bijection between indices and shards). `FinalsStand` adds `OpenInv`: a single command
writes what it checked against this very ledger, a final leaves the attempts as they
were judged, and one that selects an attempt selects all of its shards. It holds for
the synthetic authority only, since the validator refuses every final of the
implementation authority (section 4).

**Publication** (`PublicationProofs`; `Disjoint`, `Finite`). Only the holder of the
lease steps, and a target being rolled back has one quarantine name, others none
(`LocalInv`); a transaction that has not begun left no trace (`TraceInv`); a peer's
file keeps a name (`PlacedInv`, hence the action property `PeersArePreserved`); a
verified name that nobody touched stays the transaction's own through all later ones
(`WholeInv`); every name is still to be rolled back or already reported (`ReportInv`);
without an act of a peer, files are only in the own directory or in quarantine with one
link, so nothing is reported unless a call failed (`AloneInv`, `CleanInv`).

**Artifact bundles** (`ArtifactProofs`; `NamesAssumption`, `WritersAssumption`). For
readers: once the last file was read, a held descriptor whose signature is fresh and
whose name means it now was under its name at that instant, since a rename ends its
freshness (`ReadInv`; this holds also where transactions overlap). For writers, without
overlap: at most one open transaction (`AloneInv`); each record says where the file
found under its name is (`Kept`); records behind a rollback are undone except those it
postponed (`UndoneInv`); verified records are under their names (`VerifyInv`); what was
committed last is what the writer found or is in another's backup (`OldInv`).

**Blinding** (`ReleaseProofs`; `PathsAssumption`, `ValuesAssumption`,
`JournalAssumption`). What is on journal, staging and pair is under the controller lock;
the taint is set once; nothing is published before the journal and the pair only at its
paths; the sweep list holds all staged files, and targets only of an incomplete pair.
`ControllerImplementsRecord` shows that initial states and steps map to those of
`ResultOfRecord` or stutter; it assumes that no protected record is aimed at a path of
the pair (section 4 says what happens otherwise).

**Review** (`ReleaseProofs`; `AnswersAssumption`: a proposal lists finitely many
findings). A sealed report repeats what its reviewer said, with the severity of every
blocker that was grounded when it was verified (`ReviewInv`: `began` and `heard` are
what the inputs and the tree were then, though both may have changed since). The
decision therefore earns what it claims (`DecisionEarns`): a blocker that is neither
settled nor deferred would stand among the blocking items, a dependency on a peer would
be a blocking conflict, and the majors counted are those that stand. Results are never
rewritten (`ResultInv`), and an artifact belongs to the last run once the writer has
passed it (`StatusInv`).

**Evidence files** (`EvidenceProofs`; the assumptions of `PrefixSealing` and
`BaselineActors`). Sealing: a file in the making belongs to its creator
(`MakingInv`), so a finished one is never truncated; a caller's own index and a foreign
one are told apart (`MineInv`, `ForeignInv`). Baseline: `GrantIsEarned` is not
inductive, because the launchers clear and write each other's files. `GrantInv` adds:
each validation step has established its part of the pair (`CheckedInv`); a launcher's
own receipts tell of its own processes (`OwnInv`); every receipt, on disk or in an
auditor's hands, is one that a launcher holds (`FileInv`, `OriginInv`), so that a nonce
identifies a receipt (`NonceIdentifies`) and the nonce of an independent collection the
pair it was made for (`PairIdentifies`); what is in the shared collection file is
somebody's collection (`ValidationInv`), and what was compared is the actor's own or
that of another holder of its pair (`MatchInv`). Only four steps bring receipts or
collections; the others follow from one frame lemma (`QuietKeeps`).

**Execution journal** (`EvidenceProofs`; `JournalBounds`). The files are always in one of
three relations (`FilesInv`): there is no archive; the live file continues the archive
(`Joined`); or a migration that stopped between two replacements left archived events
first in the live file (`Overlapped`). In the third the check refuses, because the first
live event does not follow the last archived one (`OverlapFails`), so an append never
starts from it; in the second it passes (`JoinedVerifies`), so the verification at the
end of an append never fails by itself. `AppendInv` says what the rollback relies on:
while an append runs, the live file is its copy with raced events behind it
(`CopyIsCurrent`), the old manifest's segments are intact, and the names it creates and
unlinks are not among them (`Planned`). That a payload cut into groups is the payload
again (`GroupedTiles`, `LaidExtends`) is proved without induction: an event lies in the
group with the greatest start that is not after it, and such a greatest number exists
because the numbers are well-founded (`GreatestExists`).

**Workers** (`FleetProofs`, two specifications). Fleet: while it serves, at most one
question is in the pipes and it is the one waited for; after a failure each worker is
pending, being cleaned or accounted for. Pool: the contents of pipes are kept apart by
request numbers and a child answers only what it accepted.

**Branch** (`StageProofs`; `ArmsAssumption`, `CapsAssumption`). Three facts that the
stage never checks in one place: a task has at most two attempts (`OrderInv`); a receipt
belongs to one of them only, because executions of the second are younger than the first
seal (`DisjointInv`); only an incomplete attempt is run again, so grades are of receipts
of complete attempts and zeros of tasks with two incomplete ones (`GradedInv`).

**Packets** (`StageProofs`; `ReportsAssumption`, `PoliciesAssumption`). `GuidanceIsFair`
speaks of what a worker read, three commands after the pair was built and whatever
happened to the files since. The inductive invariant follows the pair: an index that was
sealed is of a sound candidate (`IndexInv`), grants are of such an index and by arm
(`GrantInv`), a packet that was read is the one granted (`ShownTo`). Soundness does not
come from the build, whose files another writer may replace, but from the audit, which
computes the pair again (`AuditedIsSound`); and the pair that findings and a renaming
give is fair (`PairIsSound`), for which as much of a finding as fits must exist
(`KeptFits`: a bounded set of numbers has a greatest element).

**Foundation training** (`StageProofs`; `SourcesAssumption`, `RowAssumption`,
`FamiliesAssumption`, `NoneAssumption`; `OrderAssumption`: the sampler's order of at most
as many records as there are rows is a permutation of them, as `random.shuffle` gives one;
`LossesAssumption`: a loss is a natural number, standing for a cross entropy). `TrainedIsAuthorized` holds
of the window a run is in, long after the authorization was verified. What the validator
accepts certifies every record of the scope, since it recomputes split and quarantine
from the scope alone (`CoherentCertifies`; the selection is not trusted). A run keeps an
approved scope (`RunInv`), digests keep their meaning (`DiskInv`, `OperatorInv`), and the
registry of the approved checkout, while it is that checkout and clean, is the one the
quarantine was made with, because any edit of it dirties the checkout and a commit moves
on (`RegistryInv`). A shard has no more records than there are rows, since it was
selected from what the preparation read (`PrepInv`, `SelectedIsLegal`), so the sampler
stays inside it. The registry binds stages of several lanes only, and the property says
so: in the code the single-lane stage does not read it.

`CheckpointsExact` speaks of a file long after the run that wrote it, which may itself
have been resumed from another. Nothing in the loop compares the weights with the
schedule; what makes it true is that no window is ever skipped. A shard that the validator
accepted stays under the ceiling as a whole (`CoherentSizes`), its records differ and the
order is a permutation, so the windows taken and the next one weigh no more than the shard
(`WindowFits`): the sampler's branch for a window over the ceiling (`dataset.py:200`) is
never taken in an authorized run. So the progress is a whole number of windows (`Exact`),
the sampler is at it or one window ahead (`SamplerInv`), a file is written from the
progress (`FilesExact`), and a record of the index names a file that is there and not
about to be unlinked (`IndexExact`). That needs sums over any records: a fold adds up in
any order, over disjoint parts, and no part exceeds the whole (`AnyOrder`, `PartsAddUp`,
`PartIsLess`). Instead of by induction these are proved from a smallest counterexample,
which exists since the sizes of finite sets are well-founded (`SmallestOf`).

`AcceptedUnlessChanged` relates two programs that were written separately: the preparation,
which plans from what it has read, and the validator, which recomputes from what is on disk
and what the checkout says now. No step compares them. The invariant follows the
preparation: while nobody has disturbed it, what it read is what the sources hold and each
report is about the traces read just before it (`CurrentInv`, `ReportsFollow`), and the plan
follows from what was read (`Planned`); disturbed or not, what it has published so far is
what was planned, each artifact having replaced whatever a killed or refused preparation had
left under that name (`PublishedInv`). Then each of the validator's checks holds
(`PublishedIsCoherent`, one step per check): the greedy selection stays under the ceiling
because the last record that was taken fitted (`SelectionFits`), and the validator's recount
of the tokens is the sum of what each record counted (`RecountIsTotal`). A candidate that
nothing changed since its publication would be verified now (`CandidateInv`); a preparation
that republishes counts as a change exactly when the files differ. `SourcesAssumption` says
that a row is of the lane of the trace file that holds it, as it is in the code, where the
lane is that of the converter which read the file.

### Only model-checked

* Liveness (`LockReleased` twice, `TransactionEnds`, `ControllersEnd`): fairness is
  outside what the proof system handles.
* `Accounted`, `ReadersAreExact`: the first relates sums and filters over ledgers, the
  other the replay of a whole run; they need induction over sequences.
* `AuthorityDecides`: it compares a loader with every way in which the sound documents
  of one study may be wrong, which are given by the instance.
* `ResultIsOneStudy`, `LedgersReconstruct`: their modules use recursive operators.
* The violation run is a counterexample and needs no proof.

## 6. What is not modelled, and why

* Contents: canonical JSON, hashing, schema validation. A digest is a model value;
  collisions are not considered.
* Numerics: power approximations, bootstrap, estimators, statistics, random draws.
* Media failure: what was fsynced survives. A directory fsync that raises is a failing
  call.
* Command-line plumbing, rendering, data conversion, inference.
* Cloud execution (`cloud/`), the placebo study, gauge, nervous system, psyche, brain,
  voice, converters, adapters, statistics, evals, schemas: `PROJECT.json` gives the
  reason for each. Of these only cloud execution has protocols worth a model.

## 7. Plan

1. The placebo study and the statistics it shares with the power ledger.
