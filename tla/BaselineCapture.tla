--------------------------- MODULE BaselineCapture ---------------------------
(***************************************************************************)
(* The G0 baseline launcher (scripts/research/capture_baseline.py): two     *)
(* full test runs of one clean worktree, an independent collection, and a    *)
(* live capability minted only when all evidence agrees.  Launchers and an    *)
(* auditor of the persisted receipts share the worktree, its managed uv       *)
(* environment and the directory build/research/baseline; the operator may    *)
(* edit the worktree, or undo the edit, between any two of their steps.       *)
(*                                                                         *)
(* A digest is the content it is taken of.  A nonce is <<launcher, run>>, or  *)
(* the pair of receipts an independent collection is bound to.  Timestamps,   *)
(* paths, argv and process ids are left out: they are fixed by the nonce.     *)
(***************************************************************************)
EXTENDS Integers, Sequences, FiniteSets

CONSTANTS Launchers, Official, Auditor, None,
          Crews,          \* sets of actors that take part together
          MaxEdits        \* edits of the worktree by the operator

ASSUME BaselineActors == Official \subseteq Launchers /\ Auditor \notin Launchers
                         /\ MaxEdits \in Nat

VARIABLES
  world,      \* the worktree: one value of each of the Aspects
  edits,      \* edits the operator has left
  files,      \* build/research/baseline: name -> content, None when absent
  actor,      \* launcher or auditor -> its local state
  registry    \* _ACTIVE_OFFICIAL_SESSIONS: official launcher -> [runs, capability]

bvars == <<world, edits, files, actor, registry>>


Runs == {1, 2}
Actors == Launchers \cup {Auditor}
RunFiles == {"nonce", "collection", "junit", "output", "journal", "receipt"}
Names == (RunFiles \X Runs) \cup {<<"validation", 0>>, <<"pair", 0>>}

(* HEAD and the tracked files, ignored files outside the managed trees, the  *)
(* launcher's own source, the .git marker, the uv executable, the managed     *)
(* environment and the baseline directory.                                   *)
Aspects ==
  [commit |-> {"c1", "c2"}, tracked |-> {"clean", "dirty"}, ignored |-> {"none", "poison"},
   launcher |-> {"imported", "changed"}, marker |-> {"m1", "m2", "unresolved", "foreign"},
   uv |-> {"u1", "u2", "rogue"},
   env |-> {"absent", "fresh", "altered", "linked", "escaped"},
   directory |-> {"safe", "linked"}]

(* The node IDs a collection of this worktree yields. *)
TestsOf(w) == <<w.commit, w.tracked>>

----------------------------------------------------------------------------
(* _capture_context.                                                        *)

(* The .git marker is a directory, or a file whose gitdir line resolves. *)
MarkerResolves(w) == w.marker # "unresolved"

(* Git, bound to that directory, reports it and this worktree as its own. *)
GitBinding(w) == MarkerResolves(w) /\ w.marker # "foreign"

(* No index flag hides a change and every tracked file hashes to HEAD's blob. *)
TrackedVerified(w) == w.tracked = "clean"

GitSnapshot(w) == GitBinding(w) /\ TrackedVerified(w) /\ w.ignored = "none"

(* The fixed configuration files are present and the launcher on disk is the *)
(* one imported.                                                             *)
ConfigFixed(w) == w.launcher = "imported"

UvToolValid(w) == w.uv # "rogue"

(* Every directory of a managed chain is real and inside the worktree. *)
SafeChain(w) == w.directory = "safe" /\ w.env # "linked"

(* The interpreter and the package it imports are the environment's and the  *)
(* worktree's, and no unapproved link leads out of the environment.          *)
RuntimeValid(w) == w.env # "escaped"
EnvironmentSound(w) == SafeChain(w) /\ RuntimeValid(w)

(* `uv run` fills the environment from the lock when it is empty. *)
Synced(w) == IF w.env = "absent" THEN [w EXCEPT !.env = "fresh"] ELSE w

Capturable(w) ==
  ConfigFixed(w) /\ GitSnapshot(w) /\ UvToolValid(w) /\ EnvironmentSound(w)

(* The launcher module that the pytest child loads as its plugin. *)
HookOf(w) == w.launcher

(* The digests that identify the worktree, its tools and its environment. *)
ContextOf(w) ==
  [commit |-> w.commit, source |-> TestsOf(w), config |-> HookOf(w),
   git |-> w.marker, uv |-> w.uv, env |-> Synced(w).env]

----------------------------------------------------------------------------
(* Receipts.                                                                *)

(* One run's receipt: what its evidence files held when they were read. *)
ReceiptOf(nonce, ctx, fs, i) ==
  [nonce |-> nonce, context |-> ctx, run |-> i,
   nonceFile |-> fs[<<"nonce", i>>], junit |-> fs[<<"junit", i>>],
   collection |-> fs[<<"collection", i>>], output |-> nonce]

JunitReadable(j) == j # None
(* Mutant: evidence of any process is taken. *)
AnyNonceReadable(c, nonce, w) == c # None /\ c.hook = HookOf(w)

CollectionReadable(c, nonce, w) ==
  c # None /\ c.nonce = nonce /\ c.hook = HookOf(w)

(* The checks of _run_one on the finished process. *)
RunEvidence(nonce, fs, i, w) ==
  LET junit == fs[<<"junit", i>>]
      collection == fs[<<"collection", i>>]
  IN /\ JunitReadable(junit) /\ junit.suite = nonce
     /\ CollectionReadable(collection, nonce, w)
     /\ collection.tests = junit.tests
     /\ junit.green

(* _validate_process_artifacts: receipt, output and journal files are the    *)
(* ones of these claims.                                                     *)
ProcessArtifacts(r, fs) ==
  /\ fs[<<"receipt", r.run>>] = r
  /\ fs[<<"output", r.run>>] = r.output
  /\ fs[<<"journal", r.run>>] = r

(* _validate_official_receipt against a freshly captured context. *)
ReceiptValid(r, ctx, fs, w) ==
  /\ r.context = ctx
  /\ fs[<<"nonce", r.run>>] = r.nonce /\ r.nonceFile = r.nonce
  /\ fs[<<"junit", r.run>>] = r.junit /\ r.junit.suite = r.nonce /\ r.junit.green
  /\ CollectionReadable(fs[<<"collection", r.run>>], r.nonce, w)
  /\ fs[<<"collection", r.run>>] = r.collection
  /\ r.collection.tests = r.junit.tests
  /\ ProcessArtifacts(r, fs)

(* Mutant: the collections of the two runs are not compared. *)
PairContextAgrees(first, second) == first.context = second.context

PairAgrees(first, second) ==
  /\ first.context = second.context
  /\ first.collection.hook = second.collection.hook
  /\ first.collection.tests = second.collection.tests

PairDistinct(first, second) ==
  first.nonce # second.nonce /\ first.junit # second.junit /\ first # second

(* The independent collection is bound to the pair by its nonce. *)
PairNonce(first, second) == <<first.nonce, second.nonce>>

ValidationAgrees(c, first, second, w) ==
  /\ CollectionReadable(c, PairNonce(first, second), w)
  /\ c.tests = first.collection.tests /\ c.hook = first.collection.hook

----------------------------------------------------------------------------
Start(a) == [pc |-> IF a = Auditor THEN "read" ELSE "check", run |-> 1, ctx |-> None,
             suite |-> None, receipts |-> <<>>]

Off == [Start(Auditor) EXCEPT !.pc = "off"]

BInit ==
  /\ world = [commit |-> "c1", tracked |-> "clean", ignored |-> "none",
              launcher |-> "imported", marker |-> "m1", uv |-> "u1",
              env |-> "absent", directory |-> "safe"]
  /\ edits \in 0 .. MaxEdits
  /\ files = [n \in Names |-> None]
  /\ \E crew \in Crews : actor = [a \in Actors |-> IF a \in crew THEN Start(a) ELSE Off]
  /\ registry = [a \in Official |-> None]

Resting == {"off", "accepted", "failed"}

At(a, pc) == actor[a].pc = pc
Goto(a, pc) == actor' = [actor EXCEPT ![a].pc = pc]
Nonce(a) == <<a, actor[a].run>>
Name(a, kind) == <<kind, actor[a].run>>

(* A check raises: the actor stops and its files stay where they are. *)
Reject(a) == Goto(a, "failed") /\ UNCHANGED <<edits, files, registry>>

(* An artifact is staged and renamed over the name. *)
WriteArtifact(n, content) == files' = [files EXCEPT ![n] = content]

(* A context capture after which the actor is in the local state next, when  *)
(* the context is the expected one.  Filling the environment is part of it.  *)
Captures(a, expected, next) ==
  IF ~Capturable(world)
  THEN Reject(a) /\ UNCHANGED world
  ELSE /\ world' = Synced(world)
       /\ IF ContextOf(world) # expected
          THEN Reject(a)
          ELSE actor' = [actor EXCEPT ![a] = next] /\ UNCHANGED <<edits, files, registry>>

Seen(a, pc) == [actor[a] EXCEPT !.pc = pc, !.ctx = ContextOf(world)]

----------------------------------------------------------------------------
(* One launcher.                                                            *)

CheckFresh(a) ==
  /\ At(a, "check")
  /\ Goto(a, IF world.env = "absent" /\ world.directory = "safe" THEN "clear" ELSE "failed")
  /\ UNCHANGED <<world, edits, files, registry>>

ClearArtifacts(a) ==
  /\ At(a, "clear")
  /\ files' = [n \in Names |-> None]
  /\ Goto(a, "initial")
  /\ UNCHANGED <<world, edits, registry>>

CaptureInitial(a) ==
  At(a, "initial") /\ Captures(a, ContextOf(world), Seen(a, "open"))

OpenSession(a) ==
  /\ At(a, "open")
  /\ registry' = IF a \in Official
                 THEN [registry EXCEPT ![a] = [runs |-> <<>>, capability |-> FALSE]]
                 ELSE registry
  /\ Goto(a, "nonce")
  /\ UNCHANGED <<world, edits, files>>

WriteNonce(a) ==
  /\ At(a, "nonce")
  /\ WriteArtifact(Name(a, "nonce"), Nonce(a))
  /\ Goto(a, "collect")
  /\ UNCHANGED <<world, edits, registry>>

(* The pytest child, in its hook after collection. *)
SuiteCollects(a) ==
  /\ At(a, "collect")
  /\ WriteArtifact(Name(a, "collection"),
       [nonce |-> Nonce(a), tests |-> TestsOf(world), hook |-> HookOf(world)])
  /\ actor' = [actor EXCEPT ![a].pc = "tests", ![a].suite = TestsOf(world)]
  /\ UNCHANGED <<world, edits, registry>>

(* The pytest child runs the tests it collected and ends.  A red suite has a *)
(* nonzero return code, and the launcher stops once the output is written.   *)
SuiteEnds(a, green) ==
  /\ At(a, "tests")
  /\ WriteArtifact(Name(a, "junit"),
       [suite |-> Nonce(a), green |-> green, tests |-> actor[a].suite])
  /\ Goto(a, IF green THEN "output" ELSE "red")
  /\ UNCHANGED <<world, edits, registry>>

WriteOutput(a) ==
  /\ actor[a].pc \in {"output", "red"}
  /\ WriteArtifact(Name(a, "output"), Nonce(a))
  /\ Goto(a, IF At(a, "output") THEN "evidence" ELSE "failed")
  /\ UNCHANGED <<world, edits, registry>>

ReadEvidence(a) ==
  /\ At(a, "evidence")
  /\ IF RunEvidence(Nonce(a), files, actor[a].run, world)
     THEN /\ actor' = [actor EXCEPT ![a].pc = "journal",
                ![a].receipts = Append(@, ReceiptOf(Nonce(a), actor[a].ctx, files,
                                                    actor[a].run))]
          /\ UNCHANGED <<edits, files, registry>>
     ELSE Reject(a)
  /\ UNCHANGED world

Receipt(a) == actor[a].receipts[actor[a].run]

WriteJournal(a) ==
  /\ At(a, "journal")
  /\ WriteArtifact(Name(a, "journal"), Receipt(a))
  /\ Goto(a, "receipt")
  /\ UNCHANGED <<world, edits, registry>>

WriteReceipt(a) ==
  /\ At(a, "receipt")
  /\ WriteArtifact(Name(a, "receipt"), Receipt(a))
  /\ registry' = IF a \in Official
                 THEN [registry EXCEPT ![a].runs = Append(@, Receipt(a))] ELSE registry
  /\ Goto(a, IF actor[a].run = 1 THEN "between" ELSE "final")
  /\ UNCHANGED <<world, edits>>

CaptureBetween(a) ==
  /\ At(a, "between")
  /\ Captures(a, actor[a].ctx, [actor[a] EXCEPT !.pc = "nonce", !.run = 2])

CaptureFinal(a) ==
  At(a, "final") /\ Captures(a, actor[a].ctx, [actor[a] EXCEPT !.pc = "owned"])

(* validate_baseline_pair: the two runs are the registered ones of this      *)
(* session, which has minted nothing yet.                                    *)
RunsOwned(a) ==
  /\ At(a, "owned")
  /\ Goto(a, IF a \in Official =>
                  registry[a].runs = actor[a].receipts /\ ~registry[a].capability
             THEN "context" ELSE "failed")
  /\ UNCHANGED <<world, edits, files, registry>>

(* The auditor takes two persisted receipts. *)
ReadReceipts(a) ==
  /\ a = Auditor /\ At(a, "read")
  /\ \A i \in Runs : files[<<"receipt", i>>] # None
  /\ actor' = [actor EXCEPT ![a].pc = "context",
                 ![a].receipts = <<files[<<"receipt", 1>>], files[<<"receipt", 2>>]>>]
  /\ UNCHANGED <<world, edits, files, registry>>

----------------------------------------------------------------------------
(* _validate_pair_receipts, the launcher's and the auditor's.                *)

First(a) == actor[a].receipts[1]
Second(a) == actor[a].receipts[2]

CaptureValidation(a) ==
  /\ At(a, "context")
  /\ Captures(a, ContextOf(world), Seen(a, "first"))

ValidateFirst(a) ==
  /\ At(a, "first")
  /\ Goto(a, IF ReceiptValid(First(a), actor[a].ctx, files, world) THEN "second" ELSE "failed")
  /\ UNCHANGED <<world, edits, files, registry>>

ValidateSecond(a) ==
  /\ At(a, "second")
  /\ Goto(a, IF /\ ReceiptValid(Second(a), actor[a].ctx, files, world)
                /\ PairAgrees(First(a), Second(a))
             THEN "unlink" ELSE "failed")
  /\ UNCHANGED <<world, edits, files, registry>>

UnlinkValidation(a) ==
  /\ At(a, "unlink")
  /\ files' = [files EXCEPT ![<<"validation", 0>>] = None]
  /\ Goto(a, "independent")
  /\ UNCHANGED <<world, edits, registry>>

IndependentCollection(a) ==
  /\ At(a, "independent")
  /\ WriteArtifact(<<"validation", 0>>,
       [nonce |-> PairNonce(First(a), Second(a)), tests |-> TestsOf(world),
        hook |-> HookOf(world)])
  /\ actor' = [actor EXCEPT ![a].pc = "compare", ![a].suite = TestsOf(world)]
  /\ UNCHANGED <<world, edits, registry>>

CompareCollection(a) ==
  /\ At(a, "compare")
  /\ Goto(a, IF ValidationAgrees(files[<<"validation", 0>>], First(a), Second(a), world)
             THEN "mint" ELSE "failed")
  /\ UNCHANGED <<world, edits, files, registry>>

(* The last capture must repeat the context of the validation; the live       *)
(* capability of an official session is minted with it.                       *)
Mint(a) ==
  /\ At(a, "mint")
  /\ Captures(a, actor[a].ctx, [actor[a] EXCEPT !.pc =
              CASE ~PairDistinct(First(a), Second(a)) -> "failed"
                [] a \in Official -> "capability"
                [] a = Auditor -> "accepted"
                [] OTHER -> "pair"])

RecordCapability(a) ==
  /\ At(a, "capability")
  /\ registry' = [registry EXCEPT ![a].capability = TRUE]
  /\ Goto(a, "pair")
  /\ UNCHANGED <<world, edits, files>>

WritePair(a) ==
  /\ At(a, "pair")
  /\ WriteArtifact(<<"pair", 0>>, [live |-> a \in Official, receipts |-> actor[a].receipts])
  /\ Goto(a, "accepted")
  /\ UNCHANGED <<world, edits, registry>>

(* require_live_g0_capability, with which the official launcher ends. *)
LiveCapability(a) ==
  /\ a \in Official /\ At(a, "accepted")
  /\ registry[a] # None /\ registry[a].capability /\ Len(registry[a].runs) = 2

----------------------------------------------------------------------------
(* The operator edits one aspect of the worktree, or undoes an edit. *)
Edit(field, value) ==
  /\ edits > 0 /\ \E a \in Actors : actor[a].pc \notin Resting
  /\ world[field] # value
  /\ world' = [world EXCEPT ![field] = value]
  /\ edits' = edits - 1
  /\ UNCHANGED <<files, actor, registry>>

BNext ==
  \/ \E a \in Launchers : CheckFresh(a)
  \/ \E a \in Launchers : ClearArtifacts(a)
  \/ \E a \in Launchers : CaptureInitial(a)
  \/ \E a \in Launchers : OpenSession(a)
  \/ \E a \in Launchers : WriteNonce(a)
  \/ \E a \in Launchers : SuiteCollects(a)
  \/ \E a \in Launchers, green \in BOOLEAN : SuiteEnds(a, green)
  \/ \E a \in Launchers : WriteOutput(a)
  \/ \E a \in Launchers : ReadEvidence(a)
  \/ \E a \in Launchers : WriteJournal(a)
  \/ \E a \in Launchers : WriteReceipt(a)
  \/ \E a \in Launchers : CaptureBetween(a)
  \/ \E a \in Launchers : CaptureFinal(a)
  \/ \E a \in Launchers : RunsOwned(a)
  \/ \E a \in Actors : ReadReceipts(a)
  \/ \E a \in Actors : CaptureValidation(a)
  \/ \E a \in Actors : ValidateFirst(a)
  \/ \E a \in Actors : ValidateSecond(a)
  \/ \E a \in Actors : UnlinkValidation(a)
  \/ \E a \in Actors : IndependentCollection(a)
  \/ \E a \in Actors : CompareCollection(a)
  \/ \E a \in Actors : Mint(a)
  \/ \E a \in Official : RecordCapability(a)
  \/ \E a \in Launchers : WritePair(a)
  \/ \E field \in DOMAIN Aspects : \E value \in Aspects[field] : Edit(field, value)

BSpec == BInit /\ [][BNext]_bvars

----------------------------------------------------------------------------
BTypeOK ==
  /\ DOMAIN world = DOMAIN Aspects /\ (\A f \in DOMAIN world : world[f] \in Aspects[f]) /\ edits \in 0 .. MaxEdits
  /\ DOMAIN files = Names
  /\ \A a \in Actors : actor[a].run \in Runs /\ Len(actor[a].receipts) <= 2
  /\ \A a \in Official : registry[a] = None \/ Len(registry[a].runs) <= 2

(* The pair a launcher holds a capability for, or an auditor accepted. *)
Granted == {a \in Official : LiveCapability(a)} \cup
           {a \in {Auditor} : At(a, "accepted")}

(* A live capability, and a pair record that claims one, rests only on        *)
(* evidence of the launcher's own two processes, although other launchers      *)
(* clear and write the same files: nonce, JUnit and collection of each run     *)
(* carry the nonce of the process this session started.  A pair the auditor     *)
(* accepts is of two runs each of whose evidence is of one process, and every   *)
(* run was green (_run_one, validate_baseline_pair).                           *)
EvidenceIsOwn ==
  \A a \in Granted : \A i \in Runs :
    LET r == actor[a].receipts[i]
    IN /\ r.nonceFile = r.nonce /\ r.junit.suite = r.nonce /\ r.collection.nonce = r.nonce
       /\ r.junit.green /\ r.run = i
       /\ a \in Official => r.nonce = <<a, i>>

(* Nobody else holds the very same two receipts.  An auditor may hold those  *)
(* of a launcher, and then both collect under one nonce and one name.          *)
Unshared(a) == \A b \in Actors \ {a} : actor[b].receipts # actor[a].receipts

(* Both runs of a granted pair ran the tests of the worktree it was granted    *)
(* on: an edit between two steps, even one undone before the next capture, is   *)
(* refused unless it was there at both runs and at the independent collection,   *)
(* which is the grantee's own unless somebody else holds the same pair           *)
(* (_run_baseline_pair_impl, _validate_pair_receipts).                          *)
MintedOnOneTree ==
  \A a \in Granted :
    LET ctx == actor[a].ctx
        tests == {actor[a].receipts[i].junit.tests : i \in Runs}
        collected == IF Unshared(a) THEN {actor[a].suite} ELSE {}
    IN /\ \A i \in Runs : actor[a].receipts[i].context = ctx
       /\ ctx.source \in tests \cup collected => tests = {ctx.source}

(* A granted capability or pair rests on evidence of its own, of one worktree.  *)
GrantIsEarned == EvidenceIsOwn /\ MintedOnOneTree
=============================================================================
