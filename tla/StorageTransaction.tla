------------------------ MODULE StorageTransaction ------------------------
(***************************************************************************)
(* The local-test storage transaction of resampling_null/storage.py: one   *)
(* scientific file (the prefix schedule or the assignment ledger) becomes  *)
(* authoritative through                                                   *)
(*                                                                         *)
(*   claim lock -> begin -> prepare -> end -> intent -> install science    *)
(*         -> commit proof -> fixed receipt (the acceptance marker)        *)
(*                                                                         *)
(* and a later call may only finish a transaction whose commit proof is    *)
(* already on disk.  Every caller is a process with its own lease object;  *)
(* processes share only the run root.  A process may be killed between any *)
(* two system calls, and any system call may raise.                        *)
(*                                                                         *)
(* Abstractions:                                                           *)
(*  - Bytes are named by their digest.  Two intents never have the same    *)
(*    bytes (they embed microsecond timestamps), so an intent carries an   *)
(*    id that stands for its SHA-256.                                      *)
(*  - _exclusive_write is open(O_EXCL), write, fsync: one step creates the *)
(*    file Torn, one step completes it.  A file that was fsynced survives. *)
(*    A directory fsync that raises after the file is complete is the      *)
(*    completing step followed by Fail, where that is the same state.      *)
(*  - The 60 second lease is one of three phases: "fresh" (at least        *)
(*    _MINIMUM_COMMIT_WINDOW_SECONDS left), "closing" and "expired".       *)
(*  - mkstemp names never collide and are never read again, so orphaned    *)
(*    temporary files are not part of the state.                           *)
(***************************************************************************)
EXTENDS Naturals, FiniteSets

CONSTANTS
  Procs,       \* the processes that call into the run root
  Paths,       \* scientific destinations below the run root
  Digests,     \* contents that a preparer may return
  Manifests,   \* study manifests a lease may be bound to
  None,        \* an absent file, a free lock, a missing value
  Torn,        \* a file that was created and not completely written
  MaxIntents   \* bound on the number of intents the model prepares

Txns == {"prefix", "assignment"}

LeaseStates ==
  {"claimed", "live", "end_observed", "committed_consumed", "aborted_consumed"}

Phases == {"fresh", "closing", "expired"}

\* What a lease is bound to: LocalTestStorageLease.__init__.
Lease == [txn : Txns, manifest : Manifests, schedule : Digests \cup {None}]

\* StorageTransactionIntent; id is the SHA-256 of its canonical bytes.
Intent == [id : Nat, lease : Lease, path : Paths, digest : Digests]

\* LocalTestStoragePublicationCommit.
Proof == [intent : Nat, lease : Lease, path : Paths, digest : Digests]

\* StoragePolicyReceipt: the embedded intent and commit proof.
Receipt == [intent : Intent, proof : Proof]

Science == [txn : Txns, digest : Digests]

ASSUME ValuesAssumption ==
  /\ MaxIntents \in Nat
  /\ None # Torn /\ "whole" \notin {None, Torn}
  /\ None \notin Procs \cup Digests
  /\ {None, Torn} \cap (Lease \cup Intent \cup Receipt \cup Science) = {}

VARIABLES
  \* the run root
  lock,     \* lock[t]: the process whose descriptor holds {t}.lock
  science,  \* science[x]: the scientific file at path x
  intent,   \* intent[t]: operational/storage-policy/intents/{t}.json
  commits,  \* complete proofs in registry/commits
  torn,     \* intent ids whose proof file in registry/commits is torn
  aborts,   \* aborts[i]: the abort record of intent i: None, Torn, "whole"
  receipt,  \* receipt[t]: operational/storage-policy/{t}.json
  nextId,   \* next unused intent id
  \* the processes
  pc, lease, lstate, phase, out, work

disk == <<science, intent, commits, torn, aborts, receipt, nextId>>
local == <<lease, lstate, phase, out, work>>
vars == <<lock, disk, pc, local>>

Ids == 0 .. MaxIntents

\* pc labels.  A label names the next step of _publish_local_test_scientific.
Writing == {"abort_record", "intent_record", "commit_record",
            "receipt_record", "recover_record"}
Uninstalled == {"prepare", "end", "window", "replace", "abort_record",
                "unlink", "intent", "intent_record", "install"}
Installed == {"commit", "commit_record", "receipt", "receipt_record"}
Recovering == {"recover", "recover_record"}
Running == Uninstalled \cup Installed \cup Recovering
Labels == Running \cup {"idle", "claimed", "over"}

Init ==
  /\ lock = [t \in Txns |-> None]
  /\ science = [x \in Paths |-> None]
  /\ intent = [t \in Txns |-> None]
  /\ commits = {}
  /\ torn = {}
  /\ aborts = [i \in Ids |-> None]
  /\ receipt = [t \in Txns |-> None]
  /\ nextId = 0
  /\ pc = [p \in Procs |-> "idle"]
  /\ lease = [p \in Procs |-> None]
  /\ lstate = [p \in Procs |-> "claimed"]
  /\ phase = [p \in Procs |-> "fresh"]
  /\ out = [p \in Procs |-> None]
  /\ work = [p \in Procs |-> None]

Goto(p, label) == pc' = [pc EXCEPT ![p] = label]

\* LocalTestStorageLease._release: idempotent, gives up the lock if held.
Unlocked(p) == [t \in Txns |-> IF lock[t] = p THEN None ELSE lock[t]]

\* LocalTestStorageLease._abort: a committed lease cannot abort.
Aborted(state) ==
  IF state = "committed_consumed" THEN state ELSE "aborted_consumed"

---------------------------------------------------------------------------
(* What the code reads from disk before it acts.                           *)

\* _require_prefix_publication: the prefix receipt binds this schedule and
\* the registry still stores the very proof the receipt embeds.
PrefixAccepted(manifest, schedule) ==
  \E r \in {receipt["prefix"]} \ {None, Torn} :
    /\ r.intent.digest = schedule
    /\ r.intent.lease.manifest = manifest
    /\ r.proof.intent = r.intent.id
    /\ r.proof.digest = schedule
    /\ r.proof.path = r.intent.path
    /\ r.proof.lease = r.intent.lease
    /\ r.proof \in commits
    /\ science[r.intent.path] # None
    /\ science[r.intent.path].digest = schedule

\* _matching_commit_proofs: raises when any proof file does not parse.
ProofsReadable == torn = {}
MatchingProofs(i) == {c \in commits : c.intent = i}

\* _validate_local_intent: the stored intent is of this lease and path.
ValidIntent(p, i) == i.lease = lease[p] /\ i.path = out[p]

---------------------------------------------------------------------------
(* The call.                                                               *)

\* claim_local_test_storage: bind a lease and take the flock, non-blocking.
Claim(p, t, m, s) ==
  /\ pc[p] = "idle"
  /\ lock[t] = None
  /\ (t = "prefix") <=> (s = None)
  /\ lock' = [lock EXCEPT ![t] = p]
  /\ lease' = [lease EXCEPT ![p] = [txn |-> t, manifest |-> m, schedule |-> s]]
  /\ lstate' = [lstate EXCEPT ![p] = "claimed"]
  /\ Goto(p, "claimed")
  /\ UNCHANGED <<disk, phase, out, work>>

\* Faulty variant: the schedule's receipt is not required.
SealableAlways(p) == TRUE

\* seal_branch_assignment refuses to publish before the schedule is accepted;
\* seal_prefix_schedule has no such precondition.
Sealable(p) ==
  lease[p].txn = "assignment"
    => PrefixAccepted(lease[p].manifest, lease[p].schedule)

\* Entry of _publish_local_test_scientific with a fresh or an already used
\* lease object.  An existing receipt raises FileExistsError and does not
\* release the lease.
Enter(p, x) ==
  /\ pc[p] \in {"claimed", "over"}
  /\ lease[p] # None
  /\ out' = [out EXCEPT ![p] = x]
  /\ \/ /\ Sealable(p)
        /\ receipt[lease[p].txn] = None
        /\ science[x] # None
        /\ Goto(p, "recover")
        /\ UNCHANGED <<lock, lstate, phase>>
     \/ /\ Sealable(p)
        /\ receipt[lease[p].txn] = None
        /\ science[x] = None
        /\ lstate[p] = "claimed"           \* lease._begin
        /\ lstate' = [lstate EXCEPT ![p] = "live"]
        /\ phase' = [phase EXCEPT ![p] = "fresh"]
        /\ Goto(p, "prepare")
        /\ UNCHANGED lock
     \/ /\ Sealable(p)
        /\ receipt[lease[p].txn] = None
        /\ science[x] = None
        /\ lstate[p] # "claimed"
        /\ lstate' = [lstate EXCEPT ![p] = Aborted(@)]
        /\ lock' = IF lstate[p] = "committed_consumed" THEN lock ELSE Unlocked(p)
        /\ Goto(p, "over")
        /\ UNCHANGED phase
     \/ /\ ~ Sealable(p) \/ receipt[lease[p].txn] # None
        /\ Goto(p, "over")
        /\ UNCHANGED <<lock, lstate, phase>>
  /\ UNCHANGED <<disk, lease, work>>

\* Time passes for a lease that has begun.
Tick(p) ==
  /\ pc[p] \in Uninstalled \cup {"commit"}
  /\ phase[p] # "expired"
  /\ phase' = [phase EXCEPT ![p] = IF @ = "fresh" THEN "closing" ELSE "expired"]
  /\ UNCHANGED <<lock, disk, pc, lease, lstate, out, work>>

\* prepare() and _prepare_same_directory.  The assignment preparer requires
\* that no ledger exists anywhere below the run root.
Prepare(p, d) ==
  /\ pc[p] = "prepare"
  /\ nextId < MaxIntents
  /\ lease[p].txn = "assignment"
       => {x \in Paths : science[x] # None /\ science[x].txn = "assignment"} = {}
  /\ work' = [work EXCEPT ![p] =
                [id |-> nextId, lease |-> lease[p], path |-> out[p], digest |-> d]]
  /\ nextId' = nextId + 1
  /\ Goto(p, "end")
  /\ UNCHANGED <<lock, science, intent, commits, torn, aborts, receipt,
                 lease, lstate, phase, out>>

\* LocalTestStorageLease._end.
End(p) ==
  /\ pc[p] = "end"
  /\ lstate[p] = "live"
  /\ phase[p] # "expired"
  /\ lstate' = [lstate EXCEPT ![p] = "end_observed"]
  /\ Goto(p, "window")
  /\ UNCHANGED <<lock, disk, lease, phase, out, work>>

\* The bounded publication window must still be open.
CheckWindow(p) ==
  /\ pc[p] = "window"
  /\ phase[p] = "fresh"
  /\ Goto(p, "replace")
  /\ UNCHANGED <<lock, disk, local>>

\* Faulty variant: any readable stale intent is aborted and replaced.
ReplaceAnyIntent(p) ==
  LET t == lease[p].txn  old == intent[t] IN
  /\ pc[p] = "replace"
  /\ \/ /\ old = None
        /\ Goto(p, "intent")
        /\ UNCHANGED aborts
     \/ /\ old \notin {None, Torn}
        /\ aborts' = [aborts EXCEPT ![old.id] = "whole"]
        /\ Goto(p, "unlink")
  /\ UNCHANGED <<lock, science, intent, commits, torn, receipt, nextId, local>>

\* _replace_uncommitted_intent, up to opening the abort record.  A stale
\* intent may go only if it is this lease's, its science is absent and no
\* proof was recorded for it.
ReplaceUncommittedIntent(p) ==
  LET t == lease[p].txn  old == intent[t] IN
  /\ pc[p] = "replace"
  /\ \/ /\ old = None
        /\ Goto(p, "intent")
        /\ UNCHANGED aborts
     \/ /\ old \notin {None, Torn}
        /\ science[out[p]] = None
        /\ ValidIntent(p, old)
        /\ ProofsReadable
        /\ MatchingProofs(old.id) = {}
        /\ \/ /\ aborts[old.id] = None
              /\ aborts' = [aborts EXCEPT ![old.id] = Torn]
              /\ Goto(p, "abort_record")
           \/ /\ aborts[old.id] = "whole"
              /\ Goto(p, "unlink")
              /\ UNCHANGED aborts
  /\ UNCHANGED <<lock, science, intent, commits, torn, receipt, nextId, local>>

FinishAbortRecord(p) ==
  /\ pc[p] = "abort_record"
  /\ aborts' = [aborts EXCEPT ![intent[lease[p].txn].id] = "whole"]
  /\ Goto(p, "unlink")
  /\ UNCHANGED <<lock, science, intent, commits, torn, receipt, nextId, local>>

UnlinkIntent(p) ==
  /\ pc[p] = "unlink"
  /\ intent' = [intent EXCEPT ![lease[p].txn] = None]
  /\ Goto(p, "intent")
  /\ UNCHANGED <<lock, science, commits, torn, aborts, receipt, nextId, local>>

\* _exclusive_write(intent_path, intent_bytes).
CreateIntent(p) ==
  /\ pc[p] = "intent"
  /\ intent[lease[p].txn] = None
  /\ intent' = [intent EXCEPT ![lease[p].txn] = Torn]
  /\ Goto(p, "intent_record")
  /\ UNCHANGED <<lock, science, commits, torn, aborts, receipt, nextId, local>>

FinishIntent(p) ==
  /\ pc[p] = "intent_record"
  /\ intent' = [intent EXCEPT ![lease[p].txn] = work[p]]
  /\ Goto(p, "install")
  /\ UNCHANGED <<lock, science, commits, torn, aborts, receipt, nextId, local>>

\* _install_no_replace: link(2) never replaces; an error after the link
\* takes the path of a call that installed nothing.
Install(p) ==
  /\ pc[p] = "install"
  /\ science[out[p]] = None
  /\ science' = [science EXCEPT ![out[p]] =
                   [txn |-> lease[p].txn, digest |-> work[p].digest]]
  /\ \/ /\ Goto(p, "commit")
        /\ UNCHANGED <<lock, lstate>>
     \/ /\ Goto(p, "over")
        /\ lock' = Unlocked(p)
        /\ lstate' = [lstate EXCEPT ![p] = "aborted_consumed"]
  /\ UNCHANGED <<intent, commits, torn, aborts, receipt, nextId,
                 lease, phase, out, work>>

\* LocalTestStorageLease._commit up to opening the proof file, whose name is
\* the digest of the intent's digest.
Commit(p) ==
  /\ pc[p] = "commit"
  /\ lstate[p] = "end_observed"
  /\ phase[p] # "expired"
  /\ science[work[p].path] # None
  /\ science[work[p].path].digest = work[p].digest
  /\ MatchingProofs(work[p].id) = {}
  /\ work[p].id \notin torn
  /\ torn' = torn \cup {work[p].id}
  /\ Goto(p, "commit_record")
  /\ UNCHANGED <<lock, science, intent, commits, aborts, receipt, nextId, local>>

ProofOf(i) == [intent |-> i.id, lease |-> i.lease, path |-> i.path,
               digest |-> i.digest]

\* Faulty variant: the lease is consumed although no proof was stored.
FinishCommitUnsaved(p) ==
  /\ pc[p] = "commit_record"
  /\ torn' = torn \ {work[p].id}
  /\ lstate' = [lstate EXCEPT ![p] = "committed_consumed"]
  /\ Goto(p, "receipt")
  /\ UNCHANGED <<lock, science, intent, commits, aborts, receipt, nextId,
                 lease, phase, out, work>>

\* The proof is complete.  If the fsync of its directory then raises, the
\* call ends with a stored proof and a lease that is not consumed.
FinishCommit(p) ==
  /\ pc[p] = "commit_record"
  /\ torn' = torn \ {work[p].id}
  /\ commits' = commits \cup {ProofOf(work[p])}
  /\ \/ /\ lstate' = [lstate EXCEPT ![p] = "committed_consumed"]
        /\ Goto(p, "receipt")
        /\ UNCHANGED lock
     \/ /\ lock' = Unlocked(p)
        /\ Goto(p, "over")
        /\ UNCHANGED lstate
  /\ UNCHANGED <<science, intent, aborts, receipt, nextId,
                 lease, phase, out, work>>

\* _exclusive_write(receipt_path, ...) in place at the fixed name.
CreateReceipt(p) ==
  /\ pc[p] = "receipt"
  /\ receipt[lease[p].txn] = None
  /\ receipt' = [receipt EXCEPT ![lease[p].txn] = Torn]
  /\ Goto(p, "receipt_record")
  /\ UNCHANGED <<lock, science, intent, commits, torn, aborts, nextId, local>>

FinishReceipt(p) ==
  /\ pc[p] = "receipt_record"
  /\ receipt' = [receipt EXCEPT ![lease[p].txn] =
                   [intent |-> work[p], proof |-> ProofOf(work[p])]]
  /\ lock' = Unlocked(p)
  /\ Goto(p, "over")
  /\ UNCHANGED <<science, intent, commits, torn, aborts, nextId, local>>

---------------------------------------------------------------------------
(* Recovery: _recover_committed_receipt.                                   *)

\* Faulty variant: recovery commits installed science that has no proof.
RecoverByCommitting(p) ==
  LET t == lease[p].txn  i == intent[t] IN
  /\ pc[p] = "recover"
  /\ i \notin {None, Torn}
  /\ science[out[p]].digest = i.digest
  /\ ValidIntent(p, i)
  /\ receipt[t] = None
  /\ commits' = commits \cup {ProofOf(i)}
  /\ receipt' = [receipt EXCEPT ![t] = Torn]
  /\ work' = [work EXCEPT ![p] = i]
  /\ Goto(p, "recover_record")
  /\ UNCHANGED <<lock, science, intent, torn, aborts, nextId,
                 lease, lstate, phase, out>>

\* Science, intent and exactly one proof must agree; nothing is committed.
Recover(p) ==
  LET t == lease[p].txn  i == intent[t] IN
  /\ pc[p] = "recover"
  /\ i \notin {None, Torn}
  /\ science[out[p]].digest = i.digest
  /\ ValidIntent(p, i)
  /\ ProofsReadable
  /\ \E c \in MatchingProofs(i.id) :
       /\ MatchingProofs(i.id) = {c}
       /\ c.lease = lease[p]
       /\ c.path = out[p]
       /\ c.digest = i.digest
  /\ receipt[t] = None
  /\ receipt' = [receipt EXCEPT ![t] = Torn]
  /\ work' = [work EXCEPT ![p] = i]
  /\ Goto(p, "recover_record")
  /\ UNCHANGED <<lock, science, intent, commits, torn, aborts, nextId,
                 lease, lstate, phase, out>>

\* The receipt is complete; lease._abort then refuses a committed lease.
FinishRecover(p) ==
  LET i == work[p] IN
  /\ pc[p] = "recover_record"
  /\ receipt' = [receipt EXCEPT ![lease[p].txn] =
                   [intent |-> i, proof |-> CHOOSE c \in MatchingProofs(i.id) : TRUE]]
  /\ lock' = Unlocked(p)
  /\ lstate' = [lstate EXCEPT ![p] = Aborted(@)]
  /\ Goto(p, "over")
  /\ UNCHANGED <<science, intent, commits, torn, aborts, nextId,
                 lease, phase, out, work>>

---------------------------------------------------------------------------
(* Failures.                                                               *)

\* Faulty variant: the receipt is removed although another call created it.
DropReceipt(p) ==
  /\ receipt' = IF pc[p] \in {"receipt", "recover", "receipt_record", "recover_record"}
                  THEN [receipt EXCEPT ![lease[p].txn] = None] ELSE receipt
  /\ UNCHANGED <<intent, aborts, torn>>

\* The file p was writing, removed by the handler of _exclusive_write.
DropTorn(p) ==
  /\ intent' = IF pc[p] = "intent_record"
                 THEN [intent EXCEPT ![lease[p].txn] = None] ELSE intent
  /\ aborts' = IF pc[p] = "abort_record"
                 THEN [aborts EXCEPT ![intent[lease[p].txn].id] = None] ELSE aborts
  /\ torn' = IF pc[p] = "commit_record" THEN torn \ {work[p].id} ELSE torn
  /\ receipt' = IF pc[p] \in {"receipt_record", "recover_record"}
                  THEN [receipt EXCEPT ![lease[p].txn] = None] ELSE receipt

\* Any check or system call of the running call raises: the handlers of
\* _publish_local_test_scientific abort a lease that installed nothing and
\* release one that did.
Fail(p) ==
  /\ pc[p] \in Running
  /\ DropTorn(p)
  /\ lock' = Unlocked(p)
  /\ lstate' = [lstate EXCEPT ![p] =
                  IF pc[p] \in Installed THEN @ ELSE Aborted(@)]
  /\ Goto(p, "over")
  /\ UNCHANGED <<science, commits, nextId, lease, phase, out, work>>

Forget(p) ==
  /\ lock' = Unlocked(p)
  /\ lease' = [lease EXCEPT ![p] = None]
  /\ lstate' = [lstate EXCEPT ![p] = "claimed"]
  /\ phase' = [phase EXCEPT ![p] = "fresh"]
  /\ out' = [out EXCEPT ![p] = None]
  /\ work' = [work EXCEPT ![p] = None]
  /\ Goto(p, "idle")
  /\ UNCHANGED disk

\* Faulty variant: a lease that never began survives its process.
ExitUnlessClaimed(p) ==
  pc[p] \in {"claimed", "over"} /\ lstate[p] # "claimed" /\ Forget(p)

\* The process ends after its call returned or raised: the kernel drops the
\* flock of a lease the call did not release.
Exit(p) == pc[p] \in {"claimed", "over"} /\ Forget(p)

\* The process is killed inside the call: files stay as they are.
Crash(p) == pc[p] \in Running /\ Forget(p)

Step(p) ==
  \/ \E x \in Paths : pc[p] = "claimed" /\ Enter(p, x)
  \/ \E d \in Digests : Prepare(p, d)
  \/ End(p) \/ CheckWindow(p)
  \/ ReplaceUncommittedIntent(p) \/ FinishAbortRecord(p) \/ UnlinkIntent(p)
  \/ CreateIntent(p) \/ FinishIntent(p) \/ Install(p)
  \/ Commit(p) \/ FinishCommit(p)
  \/ CreateReceipt(p) \/ FinishReceipt(p)
  \/ Recover(p) \/ FinishRecover(p)
  \/ Fail(p)

Next ==
  \E p \in Procs :
    \/ \E t \in Txns, m \in Manifests, s \in Digests \cup {None} : Claim(p, t, m, s)
    \/ Step(p)
    \/ \E x \in Paths : pc[p] = "over" /\ Enter(p, x)
    \/ Tick(p)
    \/ Exit(p)
    \/ Crash(p)

Spec == Init /\ [][Next]_vars

\* A call runs to its end and the process then exits: nothing in the call
\* waits for another process, the lock is taken with LOCK_NB.
FairSpec ==
  Spec /\ \A p \in Procs : WF_vars(Step(p)) /\ WF_vars(Exit(p))
---------------------------------------------------------------------------
(* Properties.                                                             *)

\* Every file of the run root and every process variable has its type.
TypeOK ==
  /\ lock \in [Txns -> Procs \cup {None}]
  /\ science \in [Paths -> Science \cup {None}]
  /\ intent \in [Txns -> Intent \cup {None, Torn}]
  /\ commits \subseteq Proof
  /\ torn \subseteq Nat
  /\ aborts \in [Ids -> {None, Torn, "whole"}]
  /\ receipt \in [Txns -> Receipt \cup {None, Torn}]
  /\ nextId \in Ids
  /\ pc \in [Procs -> Labels]
  /\ lease \in [Procs -> Lease \cup {None}]
  /\ lstate \in [Procs -> LeaseStates]
  /\ phase \in [Procs -> Phases]
  /\ out \in [Procs -> Paths \cup {None}]
  /\ work \in [Procs -> Intent \cup {None}]

\* A complete fixed receipt is backed by everything it claims, whichever of
\* the original call or a recovery wrote it and whatever crashed before: its
\* proof is stored, its intent is the one on disk, its science is installed.
AcceptedIsCommitted ==
  \A t \in Txns : receipt[t] \notin {None, Torn} =>
    LET r == receipt[t] IN
    /\ r.proof \in commits
    /\ r.proof = ProofOf(r.intent)
    /\ r.intent.lease.txn = t
    /\ intent[t] = r.intent
    /\ science[r.intent.path] = [txn |-> t, digest |-> r.intent.digest]

\* An intent ends at most one way: no intent has both an abort record and a
\* commit proof, so replacing a stale intent never discards a commit.
TerminalExclusive ==
  \A c \in commits : aborts[c.intent] # "whole"

\* A transaction is committed at most once, over any number of calls, leases,
\* destinations and crashes.
OneCommitPerTransaction ==
  \A c, d \in commits : c.lease.txn = d.lease.txn => c = d

\* Installed science stays attributable: the intent that announced its path
\* and digest is still the intent on disk.  So a transaction installs at most
\* one file, and the intent is immutable once science is installed.
ScienceHasIntent ==
  \A x \in Paths : science[x] # None =>
    LET i == intent[science[x].txn] IN
    i \notin {None, Torn} /\ i.path = x /\ i.digest = science[x].digest

\* Order of the study: an assignment ledger is committed only for a schedule
\* whose own transaction was accepted before.
AssignmentFollowsSchedule ==
  \A c \in commits : c.lease.txn = "assignment" =>
    PrefixAccepted(c.lease.manifest, c.lease.schedule)

\* Science whose installing call ended without a proof is quarantined for
\* good: no later call records a proof for it.
Quarantined(x) ==
  /\ science[x] # None
  /\ \A c \in commits : c.path # x
  /\ \A p \in Procs : pc[p] \in {"commit", "commit_record"} => out[p] # x

QuarantineIsPermanent ==
  [][\A x \in Paths : Quarantined(x) => Quarantined(x)']_vars

\* Complete receipts, installed science and stored proofs are permanent: no
\* handler, recovery or retry removes or rewrites one, not even the cleanup
\* of a call that lost the race for the receipt's name.
RecordsKept ==
  /\ \A t \in Txns : receipt[t] \notin {None, Torn} => receipt'[t] = receipt[t]
  /\ \A x \in Paths : science[x] # None => science'[x] = science[x]
  /\ commits \subseteq commits'

RecordsArePermanent == [][RecordsKept]_vars

\* No call keeps the transaction lock for ever, not even one that raises
\* before it could release its lease.
LockReleased ==
  \A t \in Txns, p \in Procs : lock[t] = p ~> lock[t] # p
===========================================================================
