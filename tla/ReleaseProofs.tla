---------------------------- MODULE ReleaseProofs ----------------------------
(***************************************************************************)
(* Proofs about the two gates a study passes before its result is used:    *)
(* the Task-6 controller (UnblindTransaction), for any number of processes *)
(* and destinations, and the adversarial review (ReviewCampaign), for any  *)
(* reviewers, files, answers, edits and number of runs.                    *)
(*                                                                         *)
(* Controller.  All that touches the journal, the staging files and the    *)
(* pair is done by the holder of the controller lock, so that each step    *)
(* disturbs what is known of its own process only.  A run root is tainted  *)
(* once; the process that tainted it is the only one that ever gets to the *)
(* clear ledger and to the journal, and recovery by any later process only *)
(* takes away.                                                             *)
(*                                                                         *)
(* Review.  A sealed report keeps the severity of every finding that was   *)
(* grounded in the tree its reviewer was verified against; the decision is *)
(* taken from those reports alone, and an artifact is of the last run as   *)
(* soon as it is written.                                                  *)
(***************************************************************************)
EXTENDS UnblindTransaction, ReviewCampaign, SequenceTheorems, FiniteSetTheorems, TLAPS


\* The steps of an unblinding from the taint on, and up to the journal.
Opening == {"analyse", "journal", "write_journal"}
Tainted == Opening \cup Publishing
Unblinding == Tainted \cup {"recover", "sweep", "stage"}

\* Nothing of the pair was published yet.
NothingPublished == ~Present("receipt") /\ ~Present("analysis")

\* Process p is at a step that needs the controller lock.
Holding(p) == pc[p] \in Unblinding \cup {"seal"} \/ (pc[p] = "publish" /\ job[p].kind = "projection")

\* A process is where its call can bring it.
JobInv(p) ==
  /\ pc[p] # "idle" => job[p] \in Jobs
  /\ pc[p] \in Unblinding => job[p].op = "unblind"
  /\ pc[p] \in {"check", "publish", "seal"} => job[p].op = "record"
  /\ pc[p] = "check" => job[p].kind # "projection"
  /\ pc[p] = "seal" => job[p].kind = "projection"
  /\ pc[p] = "wait" => job[p].op = "unblind" \/ job[p].kind = "projection"

\* What recovery has still to unlink: all staging files that are there, and
\* targets only if the pair is incomplete.
SweepInv(p) ==
  pc[p] = "sweep" =>
    /\ journal \in Journal
    /\ \A i \in Staged : \E k \in 1 .. Len(todo[p]) : todo[p][k] = [kind |-> "temp", entry |-> i]
    /\ \A k \in 1 .. Len(todo[p]) : todo[p][k].kind = "target" => ~PairPublished

ProcInv(p) ==
  /\ JobInv(p)
  /\ Holding(p) => lock = p
  /\ pc[p] \in Tainted => taint
  /\ pc[p] = "analyse" => reads = 0
  /\ pc[p] \in Opening => NothingPublished
  /\ pc[p] \in Publishing => journal \in Journal
  /\ SweepInv(p)
  /\ pc[p] = "publish" /\ job[p].kind = "projection" => ~Present("projection")

\* Before the taint nothing was read or published.
BlindInv == ~taint => NothingPublished /\ reads = 0

\* The pair goes to the destinations named for it, and while there is a
\* journal, to those it names.
NamesInv ==
  /\ Occurs("receipt") \cup Occurs("analysis") \subseteq PairPaths
  /\ journal \in Journal =>
       /\ \A i \in Entries : journal.path[i] \in PairPaths
       /\ \A i \in Entries : Occurs(KindOf[i]) \subseteq {journal.path[i]}

SharedInv ==
  /\ TypeOK
  /\ NoOrphanStaging
  /\ reads <= 1
  /\ OneProjection
  /\ BlindInv
  /\ NamesInv

IInv == SharedInv /\ \A p \in Procs : ProcInv(p)

-----------------------------------------------------------------------------
(* What a step leaves alone.                                               *)

\* Nothing of the other processes' calls changes in a step of process p.
OthersStay(p) ==
  \A q \in Procs : q # p => pc'[q] = pc[q] /\ job'[q] = job[q] /\ todo'[q] = todo[q]

\* A step of the lock's holder: no other process is at a step under the lock.
LEMMA HolderFrame ==
  ASSUME IInv, NEW p \in Procs, NEW q \in Procs, q # p, lock = p,
         OthersStay(p), taint => taint'
  PROVE  ProcInv(q)'
  <1>1. ProcInv(q) /\ ~Holding(q)
    BY DEF IInv, ProcInv
  <1>2. pc'[q] = pc[q] /\ job'[q] = job[q] /\ todo'[q] = todo[q]
    BY DEF OthersStay
  <1>3. JobInv(q)' /\ ~Holding(q)'
    BY <1>1, <1>2 DEF ProcInv, JobInv, Holding
  <1>4. pc'[q] \notin Unblinding /\ ~(pc'[q] = "publish" /\ job'[q].kind = "projection")
    BY <1>3 DEF Holding
  <1>5. QED
    BY <1>3, <1>4 DEF ProcInv, SweepInv, Unblinding, Tainted, Opening

\* A step without the lock: of what the lock protects it can at most take a
\* record away.
LEMMA FreeFrame ==
  ASSUME IInv, NEW p \in Procs, NEW q \in Procs, q # p,
         OthersStay(p), UNCHANGED <<journal, temp, taint, reads>>,
         lock = q => lock' = q,
         \A k \in {"receipt", "analysis", "projection"} : Present(k)' => Present(k)
  PROVE  ProcInv(q)'
  <1>1. ProcInv(q)
    BY DEF IInv
  <1>2. pc'[q] = pc[q] /\ job'[q] = job[q] /\ todo'[q] = todo[q]
    BY DEF OthersStay
  <1>3. JobInv(q)' /\ (Holding(q)' => lock' = q)
    BY <1>1, <1>2 DEF ProcInv, JobInv, Holding
  <1>4. /\ NothingPublished => NothingPublished'
        /\ PairPublished' => PairPublished
    BY DEF NothingPublished, PairPublished
  <1>5. SweepInv(q)'
    BY <1>1, <1>2, <1>4 DEF ProcInv, SweepInv, Staged
  <1>6. QED
    BY <1>1, <1>2, <1>3, <1>4, <1>5 DEF ProcInv

\* The part of the invariant that all processes share is about the disk alone.
LEMMA SharedFrame ==
  ASSUME IInv, TypeOK', UNCHANGED <<disk, reads>>
  PROVE  SharedInv'
  BY DEF IInv, SharedInv, disk, NoOrphanStaging, OneProjection, BlindInv, NamesInv, NothingPublished,
         Present, Occurs

\* The types of what a step of process p reads and writes.
LEMMA Types ==
  ASSUME TypeOK
  PROVE  /\ files \in [Paths -> Kinds \cup {None}]
         /\ journal \in Journal \cup {None, Torn}
         /\ temp \in [Entries -> {None, Torn, "whole"}]
         /\ taint \in BOOLEAN
         /\ lock \in Procs \cup {None}
         /\ pc \in [Procs -> Labels]
         /\ job \in [Procs -> Jobs \cup {None}]
         /\ goal \in [Procs -> {"entry", "finish", "abort"}]
         /\ todo \in [Procs -> Seq([kind : {"target", "temp"}, entry : Entries])]
         /\ reads \in Nat
  BY DEF TypeOK

\* The step of process p that goes to another label.
LEMMA GotoIs ==
  ASSUME TypeOK, NEW p \in Procs, NEW label \in Labels, Goto(p, label)
  PROVE  /\ pc' \in [Procs -> Labels] /\ pc'[p] = label
         /\ \A q \in Procs : q # p => pc'[q] = pc[q]
  BY Types DEF Goto

\* The step that gives back the lock, if it is held.
LEMMA LeaveIs ==
  ASSUME IInv, NEW p \in Procs, NEW label \in Labels, Leave(p, label)
  PROVE  /\ pc' \in [Procs -> Labels] /\ pc'[p] = label
         /\ \A q \in Procs : q # p => pc'[q] = pc[q]
         /\ lock' \in Procs \cup {None}
         /\ \A q \in Procs : q # p /\ lock = q => lock' = q
  BY GotoIs, Types DEF Leave, Unlocked, IInv, SharedInv

\* A job record of an unblinding.
LEMMA UnblindJob ==
  ASSUME NEW j \in Jobs, j.op = "unblind"
  PROVE  j \in [op : {"unblind"}, pair : [Entries -> PairPaths], entry : Entries]
  BY DEF Jobs

LEMMA RecordJob ==
  ASSUME NEW j \in Jobs, j.op = "record"
  PROVE  /\ j.kind \in Protected /\ j.path \in RecordPaths[j.kind] /\ j.path \in Paths
  BY DEF Jobs

-----------------------------------------------------------------------------
(* Calls, ends of calls and failures: no file changes.                     *)

\* A step that changes no file keeps the invariant, if process p comes to a
\* label where nothing is asked of it, or to a later one of the same kind.
LEMMA QuietKeeps ==
  ASSUME IInv, NEW p \in Procs, TypeOK', OthersStay(p), UNCHANGED <<disk, reads>>,
         \A q \in Procs : q # p /\ lock = q => lock' = q,
         JobInv(p)',
         Holding(p)' => lock' = p,
         pc'[p] \in {"idle", "wait", "check", "returned", "raised", "recover", "stage", "seal"}
           \/ (pc'[p] = "publish" /\ ~(job'[p].kind = "projection" /\ Present("projection")))
  PROVE  IInv'
  <1>1. SharedInv'
    BY SharedFrame
  <1>2. \A k : Present(k)' <=> Present(k)
    BY DEF disk, Present
  <1>3. ASSUME NEW q \in Procs, q # p
        PROVE  ProcInv(q)'
    BY <1>2, <1>3, FreeFrame DEF disk
  <1>4. ProcInv(p)'
    BY <1>2 DEF ProcInv, SweepInv, Tainted, Opening, Publishing
  <1>5. QED
    BY <1>1, <1>3, <1>4 DEF IInv

\* A call that ends by itself.
LEMMA RaiseKeeps ==
  ASSUME IInv, NEW p \in Procs, pc[p] # "idle", NEW label \in {"returned", "raised"},
         Leave(p, label), UNCHANGED <<disk, job, goal, todo, reads>>
  PROVE  IInv'
  <1>0. TypeOK /\ ProcInv(p) /\ label \in Labels
    BY DEF IInv, SharedInv, Labels
  <1>1. /\ pc' \in [Procs -> Labels] /\ pc'[p] = label
        /\ \A q \in Procs : q # p => pc'[q] = pc[q]
        /\ lock' \in Procs \cup {None}
        /\ \A q \in Procs : q # p /\ lock = q => lock' = q
    BY <1>0, LeaveIs
  <1>2. TypeOK'
    BY <1>0, <1>1 DEF TypeOK, disk
  <1>3. JobInv(p)' /\ ~Holding(p)'
    BY <1>0, <1>1 DEF ProcInv, JobInv, Holding, Unblinding, Tainted, Opening, Publishing
  <1>4. QED
    BY <1>1, <1>2, <1>3, QuietKeeps DEF OthersStay

\* An exception inside the publication.
LEMMA AbortKeeps ==
  ASSUME IInv, NEW p \in Procs, pc[p] \in Publishing, Abort(p),
         UNCHANGED <<disk, lock, job, todo, reads>>
  PROVE  IInv'
  <1>0. TypeOK /\ ProcInv(p) /\ "recover" \in Labels
    BY DEF IInv, SharedInv, Labels, Locked
  <1>1. /\ pc' \in [Procs -> Labels] /\ pc'[p] = "recover"
        /\ \A q \in Procs : q # p => pc'[q] = pc[q]
        /\ goal' \in [Procs -> {"entry", "finish", "abort"}]
    BY <1>0, GotoIs, Types DEF Abort
  <1>2. TypeOK'
    BY <1>0, <1>1 DEF TypeOK, disk
  <1>3. JobInv(p)' /\ lock' = p
    BY <1>0, <1>1 DEF ProcInv, JobInv, Holding, Unblinding, Tainted, Opening, Publishing
  <1>4. QED
    BY <1>1, <1>2, <1>3, QuietKeeps DEF OthersStay

LEMMA FailKeeps == ASSUME IInv, NEW p \in Procs, Fail(p) PROVE IInv'
  <1>1. CASE pc[p] \in Publishing /\ Abort(p) /\ UNCHANGED lock
    BY <1>1, AbortKeeps DEF Fail
  <1>2. CASE pc[p] \in Locked \cup {"publish"} /\ Leave(p, "raised") /\ UNCHANGED goal
    BY <1>2, RaiseKeeps DEF Fail, Locked
  <1>3. QED
    BY <1>1, <1>2 DEF Fail

\* The caller takes the result, or the process is killed.
LEMMA ForgetKeeps == ASSUME IInv, NEW p \in Procs, Return(p) \/ Crash(p) PROVE IInv'
  <1>0. TypeOK /\ "idle" \in Labels /\ Forget(p)
    BY DEF IInv, SharedInv, Labels, Return, Crash
  <1>1. /\ pc' \in [Procs -> Labels] /\ pc'[p] = "idle"
        /\ \A q \in Procs : q # p => pc'[q] = pc[q]
        /\ lock' \in Procs \cup {None}
        /\ \A q \in Procs : q # p /\ lock = q => lock' = q
    BY <1>0, LeaveIs DEF Forget
  <1>2. <<>> \in Seq([kind : {"target", "temp"}, entry : Entries])
    OBVIOUS
  <1>3. /\ job' \in [Procs -> Jobs \cup {None}] /\ goal' \in [Procs -> {"entry", "finish", "abort"}]
        /\ todo' \in [Procs -> Seq([kind : {"target", "temp"}, entry : Entries])]
        /\ UNCHANGED <<disk, reads>>
        /\ \A q \in Procs : q # p => job'[q] = job[q] /\ todo'[q] = todo[q]
    BY <1>0, <1>2, Types DEF Forget
  <1>4. TypeOK'
    BY <1>0, <1>1, <1>3 DEF TypeOK, disk
  <1>5. JobInv(p)' /\ ~Holding(p)'
    BY <1>1 DEF JobInv, Holding, Unblinding, Tainted, Opening, Publishing
  <1>6. QED
    BY <1>1, <1>3, <1>4, <1>5, QuietKeeps DEF OthersStay

LEMMA CallKeeps == ASSUME IInv, NEW p \in Procs, NEW j \in Jobs, Call(p, j) PROVE IInv'
  <1>0. TypeOK /\ {"check", "wait"} \subseteq Labels
    BY DEF IInv, SharedInv, Labels
  <1> DEFINE label == IF j.op = "record" /\ j.kind # "projection" THEN "check" ELSE "wait"
  <1>1. /\ pc' \in [Procs -> Labels] /\ pc'[p] = label
        /\ \A q \in Procs : q # p => pc'[q] = pc[q]
    <2>1. label \in Labels /\ Goto(p, label)
      BY <1>0 DEF Call
    <2>2. QED
      BY <1>0, <2>1, GotoIs
  <1>2. /\ job' \in [Procs -> Jobs \cup {None}] /\ job'[p] = j
        /\ \A q \in Procs : q # p => job'[q] = job[q]
        /\ UNCHANGED <<disk, lock, goal, todo, reads>>
    BY <1>0, Types DEF Call
  <1>3. TypeOK'
    BY <1>0, <1>1, <1>2 DEF TypeOK, disk
  <1>4. j.op \in {"unblind", "record"}
    BY DEF Jobs
  <1>5. JobInv(p)' /\ ~Holding(p)'
    BY <1>1, <1>2, <1>4 DEF JobInv, Holding, Unblinding, Tainted, Opening, Publishing
  <1>6. QED
    BY <1>1, <1>2, <1>3, <1>5, QuietKeeps DEF OthersStay

LEMMA AcquireLockKeeps == ASSUME IInv, NEW p \in Procs, AcquireLock(p) PROVE IInv'
  <1>0. TypeOK /\ {"recover", "seal"} \subseteq Labels /\ ProcInv(p)
    BY DEF IInv, SharedInv, Labels, Locked
  <1>1. /\ pc' \in [Procs -> Labels]
        /\ pc'[p] = IF job[p].op = "unblind" THEN "recover" ELSE "seal"
        /\ \A q \in Procs : q # p => pc'[q] = pc[q]
    BY <1>0, GotoIs DEF AcquireLock
  <1>2. /\ lock = None /\ lock' = p /\ pc[p] = "wait"
        /\ goal' \in [Procs -> {"entry", "finish", "abort"}]
        /\ UNCHANGED <<disk, job, todo, reads>>
    BY <1>0, Types DEF AcquireLock
  <1>3. TypeOK'
    BY <1>0, <1>1, <1>2 DEF TypeOK, disk
  <1>4. job[p].op \in {"unblind", "record"}
    BY <1>0, <1>2 DEF ProcInv, JobInv, Jobs
  <1>5. JobInv(p)'
    BY <1>0, <1>1, <1>2, <1>4 DEF ProcInv, JobInv, Unblinding, Tainted, Opening, Publishing
  <1>6. None \notin Procs
    BY ValuesAssumption
  <1>7. QED
    BY <1>1, <1>2, <1>3, <1>5, <1>6, QuietKeeps DEF OthersStay

-----------------------------------------------------------------------------
(* Protected records.                                                      *)

LEMMA CheckRecordKeeps == ASSUME IInv, NEW p \in Procs, CheckRecord(p) PROVE IInv'
  <1>0. TypeOK /\ {"publish", "raised"} \subseteq Labels /\ ProcInv(p)
    BY DEF IInv, SharedInv, Labels
  <1>1. /\ pc' \in [Procs -> Labels] /\ pc'[p] \in {"publish", "raised"}
        /\ \A q \in Procs : q # p => pc'[q] = pc[q]
    BY <1>0, GotoIs DEF CheckRecord
  <1>2. pc[p] = "check" /\ UNCHANGED <<disk, lock, job, goal, todo, reads>>
    BY DEF CheckRecord
  <1>3. TypeOK'
    BY <1>0, <1>1, <1>2 DEF TypeOK, disk
  <1>4. JobInv(p)' /\ job[p].kind # "projection"
    BY <1>0, <1>1, <1>2 DEF ProcInv, JobInv, Unblinding, Tainted, Opening, Publishing
  <1>5. ~Holding(p)'
    BY <1>1, <1>2, <1>4 DEF Holding, Unblinding, Tainted, Opening, Publishing
  <1>6. QED
    BY <1>1, <1>2, <1>3, <1>4, <1>5, QuietKeeps DEF OthersStay

LEMMA CheckProjectionKeeps == ASSUME IInv, NEW p \in Procs, CheckProjection(p) PROVE IInv'
  <1>0. TypeOK /\ "publish" \in Labels /\ ProcInv(p)
    BY DEF IInv, SharedInv, Labels
  <1>1. pc[p] = "seal" /\ UNCHANGED <<disk, job, goal, todo, reads>>
    BY DEF CheckProjection
  <1>2. CASE ProjectionAllowed /\ Goto(p, "publish") /\ UNCHANGED lock
    <2>1. /\ pc' \in [Procs -> Labels] /\ pc'[p] = "publish"
          /\ \A q \in Procs : q # p => pc'[q] = pc[q]
      BY <1>0, <1>2, GotoIs
    <2>2. TypeOK'
      BY <1>0, <1>1, <1>2, <2>1 DEF TypeOK, disk
    <2>3. JobInv(p)' /\ lock' = p /\ ~Present("projection")
      BY <1>0, <1>1, <1>2, <2>1
      DEF ProcInv, JobInv, Holding, Unblinding, Tainted, Opening, Publishing, ProjectionAllowed
    <2>4. QED
      BY <1>1, <1>2, <2>1, <2>2, <2>3, QuietKeeps DEF OthersStay
  <1>3. CASE Leave(p, "raised")
    BY <1>1, <1>3, RaiseKeeps
  <1>4. QED
    BY <1>2, <1>3 DEF CheckProjection

\* A protected record is none of the pair; a projection is published by the
\* holder of the lock, who has seen that there is none.
LEMMA PublishRecordKeeps == ASSUME IInv, NEW p \in Procs, PublishRecord(p) PROVE IInv'
  <1> DEFINE x == job[p].path
             k == job[p].kind
  <1>0. TypeOK /\ "returned" \in Labels /\ ProcInv(p) /\ pc[p] = "publish"
    BY DEF IInv, SharedInv, Labels, PublishRecord
  <1>1. k \in Protected /\ x \in Paths
    BY <1>0, RecordJob DEF ProcInv, JobInv
  <1>2. /\ pc' \in [Procs -> Labels] /\ pc'[p] = "returned"
        /\ \A q \in Procs : q # p => pc'[q] = pc[q]
        /\ lock' \in Procs \cup {None}
        /\ \A q \in Procs : q # p /\ lock = q => lock' = q
    BY <1>0, LeaveIs DEF PublishRecord
  <1>3. files' = [files EXCEPT ![x] = k] /\ UNCHANGED <<journal, temp, taint, job, goal, todo, reads>>
    BY DEF PublishRecord
  <1> HIDE DEF x, k
  <1>4. /\ files' \in [Paths -> Kinds \cup {None}] /\ files'[x] = k
        /\ \A y \in Paths : y # x => files'[y] = files[y]
    BY <1>0, <1>1, <1>3, Types DEF Kinds
  <1>5. TypeOK'
    BY <1>0, <1>2, <1>3, <1>4 DEF TypeOK
  <1>6. \A r \in {"receipt", "analysis"} : (Occurs(r))' \subseteq Occurs(r) /\ (Present(r)' => Present(r))
    BY <1>1, <1>4 DEF Present, Occurs, Protected
  <1>7. k # "projection" =>
          (Occurs("projection"))' \subseteq Occurs("projection") /\ (Present("projection")' => Present("projection"))
    BY <1>4 DEF Present, Occurs
  <1>8. k = "projection" => lock = p /\ ~Present("projection")
    BY <1>0 DEF ProcInv, Holding, k
  <1>9. OneProjection'
    <2>1. CASE k # "projection"
      BY <1>7, <2>1 DEF IInv, SharedInv, OneProjection
    <2>2. CASE k = "projection"
      BY <1>4, <1>8, <2>2 DEF OneProjection, Occurs, Present
    <2>3. QED
      BY <2>1, <2>2
  <1>10. SharedInv'
    <2>1. NoOrphanStaging' /\ (reads <= 1)'
      BY <1>3 DEF IInv, SharedInv, NoOrphanStaging
    <2>2. BlindInv'
      BY <1>3, <1>6 DEF IInv, SharedInv, BlindInv, NothingPublished
    <2>3. NamesInv'
      <3>1. \A i \in Entries : KindOf[i] \in {"receipt", "analysis"}
        BY DEF Entries, KindOf
      <3>2. QED
        BY <1>3, <1>6, <3>1 DEF IInv, SharedInv, NamesInv
    <2>4. QED
      BY <1>5, <1>9, <2>1, <2>2, <2>3 DEF SharedInv
  <1>11. ASSUME NEW q \in Procs, q # p
         PROVE  ProcInv(q)'
    <2>1. OthersStay(p) /\ \A r \in {"receipt", "analysis"} : Present(r)' => Present(r)
      BY <1>2, <1>3, <1>6 DEF OthersStay
    <2>2. CASE k = "projection"
      BY <1>3, <1>8, <1>11, <2>1, <2>2, HolderFrame
    <2>3. CASE k # "projection"
      BY <1>2, <1>3, <1>7, <1>11, <2>1, <2>3, FreeFrame
    <2>4. QED
      BY <2>2, <2>3
  <1>12. ProcInv(p)'
    BY <1>0, <1>2, <1>3 DEF ProcInv, JobInv, SweepInv, Holding, Unblinding, Tainted, Opening, Publishing
  <1>13. QED
    BY <1>10, <1>11, <1>12 DEF IInv

-----------------------------------------------------------------------------
(* Recovery.                                                               *)

Unlinks == [kind : {"target", "temp"}, entry : Entries]

\* What one part of a list of files to unlink consists of.
LEMMA OrderedHas ==
  ASSUME NEW kind \in {"target", "temp"}, NEW S \in SUBSET Entries
  PROVE  /\ Ordered(kind, S) \in Seq(Unlinks)
         /\ \A k \in 1 .. Len(Ordered(kind, S)) : Ordered(kind, S)[k].kind = kind
         /\ \A i \in S : \E k \in 1 .. Len(Ordered(kind, S)) :
                           Ordered(kind, S)[k] = [kind |-> kind, entry |-> i]
  <1> DEFINE f1 == [kind |-> kind, entry |-> 1]
             f2 == [kind |-> kind, entry |-> 2]
  <1>1. f1 \in Unlinks /\ f2 \in Unlinks /\ f1.kind = kind /\ f2.kind = kind
    BY DEF Unlinks, Entries
  <1>2. S \subseteq {1, 2}
    BY DEF Entries
  <1>3. Ordered(kind, S) = (IF 1 \in S THEN <<f1>> ELSE <<>>) \o (IF 2 \in S THEN <<f2>> ELSE <<>>)
    BY DEF Ordered
  <1> HIDE DEF f1, f2
  <1>4. /\ <<>> \o <<>> = <<>> /\ <<f1>> \o <<>> = <<f1>> /\ <<>> \o <<f2>> = <<f2>>
    <2>1. <<>> \in Seq(Unlinks) /\ <<f1>> \in Seq(Unlinks) /\ <<f2>> \in Seq(Unlinks)
      BY <1>1
    <2>2. <<>> \o <<>> = <<>>
      BY <2>1
    <2>3. <<f1>> \o <<>> = <<f1>>
      BY <2>1
    <2>4. <<>> \o <<f2>> = <<f2>>
      BY <2>1
    <2>5. QED
      BY <2>2, <2>3, <2>4
  <1>5. CASE 1 \in S /\ 2 \in S
    <2>1. Ordered(kind, S) = <<f1>> \o <<f2>>
      BY <1>3, <1>5
    <2>2. /\ <<f1>> \in Seq(Unlinks) /\ Len(<<f1>>) = 1 /\ <<f1>>[1] = f1
          /\ <<f2>> \in Seq(Unlinks) /\ Len(<<f2>>) = 1 /\ <<f2>>[1] = f2
      BY <1>1
    <2> DEFINE both == <<f1>> \o <<f2>>
    <2>3. both \in Seq(Unlinks) /\ Len(both) = 2 /\ both[1] = f1 /\ both[2] = f2
      BY <2>2, ConcatProperties
    <2>4. 1 \in 1 .. 2 /\ 2 \in 1 .. 2 /\ \A k \in 1 .. 2 : k = 1 \/ k = 2
      OBVIOUS
    <2> HIDE DEF both
    <2>5. Ordered(kind, S) = both
      BY <2>1 DEF both
    <2>6. QED
      BY <1>1, <1>2, <2>3, <2>4, <2>5 DEF f1, f2
  <1>6. CASE 1 \in S /\ 2 \notin S
    <2>1. Ordered(kind, S) = <<f1>>
      BY <1>3, <1>4, <1>6
    <2>2. Len(<<f1>>) = 1 /\ <<f1>>[1] = f1 /\ \A k \in 1 .. 1 : k = 1
      OBVIOUS
    <2>3. <<f1>> \in Seq(Unlinks) /\ 1 \in 1 .. 1
      BY <1>1
    <2>4. QED
      BY <1>1, <1>2, <1>6, <2>1, <2>2, <2>3 DEF f1
  <1>7. CASE 1 \notin S /\ 2 \in S
    <2>1. Ordered(kind, S) = <<f2>>
      BY <1>3, <1>4, <1>7
    <2>2. Len(<<f2>>) = 1 /\ <<f2>>[1] = f2 /\ \A k \in 1 .. 1 : k = 1
      OBVIOUS
    <2>3. <<f2>> \in Seq(Unlinks) /\ 1 \in 1 .. 1
      BY <1>1
    <2>4. QED
      BY <1>1, <1>2, <1>7, <2>1, <2>2, <2>3 DEF f2
  <1>8. CASE 1 \notin S /\ 2 \notin S
    <2>1. Ordered(kind, S) = <<>> /\ S = {}
      BY <1>2, <1>3, <1>4, <1>8
    <2>2. Len(<<>>) = 0 /\ <<>> \in Seq(Unlinks) /\ \A k \in 1 .. 0 : FALSE
      OBVIOUS
    <2>3. QED
      BY <2>1, <2>2
  <1>9. QED
    BY <1>5, <1>6, <1>7, <1>8

\* What a list of files to unlink names: every staging file there is, and
\* targets only of an incomplete pair.
LEMMA SweepListHas ==
  /\ SweepList \in Seq(Unlinks)
  /\ \A i \in Staged : \E k \in 1 .. Len(SweepList) : SweepList[k] = [kind |-> "temp", entry |-> i]
  /\ \A k \in 1 .. Len(SweepList) : SweepList[k].kind = "target" => Targets # Entries
  <1> DEFINE s == Ordered("target", Targets)
             t == Ordered("temp", Staged)
  <1>1. /\ s \in Seq(Unlinks) /\ t \in Seq(Unlinks)
        /\ \A k \in 1 .. Len(t) : t[k].kind = "temp"
        /\ \A i \in Staged : \E k \in 1 .. Len(t) : t[k] = [kind |-> "temp", entry |-> i]
    <2>1. Targets \in SUBSET Entries /\ Staged \in SUBSET Entries
      BY DEF Targets, Staged
    <2>2. QED
      BY <2>1, OrderedHas
  <1>2. SweepList = t \/ (SweepList = s \o t /\ Targets # Entries)
    BY DEF SweepList
  <1> HIDE DEF s, t
  <1>3. CASE SweepList = t
    BY <1>1, <1>3
  <1>4. CASE SweepList = s \o t /\ Targets # Entries
    <2>1. s \o t \in Seq(Unlinks)
      BY <1>1
    <2>2. \A k \in 1 .. Len(t) : Len(s) + k \in 1 .. Len(s \o t) /\ (s \o t)[Len(s) + k] = t[k]
      BY <1>1
    <2>3. QED
      BY <1>1, <1>4, <2>1, <2>2
  <1>5. QED
    BY <1>2, <1>3, <1>4

\* The rest of a list.
LEMMA RestHas ==
  ASSUME NEW S, NEW s \in Seq(S), s # <<>>
  PROVE  /\ Tail(s) \in Seq(S) /\ Head(s) = s[1] /\ s[1] \in S
         /\ \A k \in 1 .. Len(s) : k # 1 => k - 1 \in 1 .. Len(Tail(s)) /\ Tail(s)[k - 1] = s[k]
         /\ \A k \in 1 .. Len(Tail(s)) : k + 1 \in 1 .. Len(s) /\ Tail(s)[k] = s[k + 1]
  OBVIOUS

\* The way out of a recovery.
LEMMA AfterRecoveryIs ==
  ASSUME IInv, NEW p \in Procs, AfterRecovery(p)
  PROVE  /\ pc' \in [Procs -> Labels] /\ pc'[p] \in {"stage", "returned", "raised"}
         /\ \A q \in Procs : q # p => pc'[q] = pc[q]
         /\ lock' \in Procs \cup {None}
         /\ \A q \in Procs : q # p /\ lock = q => lock' = q
         /\ pc'[p] = "stage" => lock' = lock
  <1>0. TypeOK /\ {"stage", "returned", "raised"} \subseteq Labels
    BY DEF IInv, SharedInv, Labels, Locked
  <1>1. goal[p] \in {"entry", "finish", "abort"} /\ lock \in Procs \cup {None}
    BY <1>0, Types
  <1>2. CASE goal[p] = "entry"
    <2>1. Goto(p, "stage") /\ lock' = lock
      BY <1>2 DEF AfterRecovery
    <2>2. QED
      BY <1>0, <1>1, <2>1, GotoIs
  <1>3. CASE goal[p] = "finish"
    <2>1. Leave(p, "returned")
      BY <1>3 DEF AfterRecovery
    <2>2. QED
      BY <1>0, <2>1, LeaveIs
  <1>4. CASE goal[p] = "abort"
    <2>1. Leave(p, "raised")
      BY <1>4 DEF AfterRecovery
    <2>2. QED
      BY <1>0, <2>1, LeaveIs
  <1>5. QED
    BY <1>1, <1>2, <1>3, <1>4

\* If the pair is published, both destinations of the journal are taken.
LEMMA PublishedIsTargets ==
  ASSUME IInv, journal \in Journal, PairPublished
  PROVE  Targets = Entries
  <1>0. KindOf[1] = "receipt" /\ KindOf[2] = "analysis" /\ Entries = {1, 2}
    BY DEF KindOf, Entries
  <1>1. \A i \in Entries : Occurs(KindOf[i]) \subseteq {journal.path[i]}
    BY DEF IInv, SharedInv, NamesInv
  <1>2. \A i \in Entries : files[journal.path[i]] = KindOf[i]
    BY <1>0, <1>1 DEF PairPublished, Present, Occurs
  <1>3. None \notin {"receipt", "analysis"}
    BY ValuesAssumption DEF Kinds, Singletons
  <1>4. QED
    BY <1>0, <1>2, <1>3 DEF Targets

LEMMA RecoverKeeps == ASSUME IInv, NEW p \in Procs, Recover(p) PROVE IInv'
  <1>0. /\ TypeOK /\ ProcInv(p) /\ "sweep" \in Labels /\ pc[p] = "recover"
        /\ UNCHANGED <<disk, job, goal, reads>>
    BY DEF IInv, SharedInv, Labels, Locked, Recover
  <1>1. CASE AfterRecovery(p) /\ UNCHANGED todo
    <2>1. /\ pc' \in [Procs -> Labels] /\ pc'[p] \in {"stage", "returned", "raised"}
          /\ \A q \in Procs : q # p => pc'[q] = pc[q]
          /\ lock' \in Procs \cup {None}
          /\ \A q \in Procs : q # p /\ lock = q => lock' = q
          /\ pc'[p] = "stage" => lock' = lock
      BY <1>1, AfterRecoveryIs
    <2>2. TypeOK'
      BY <1>0, <1>1, <2>1 DEF TypeOK, disk
    <2>3. JobInv(p)' /\ (Holding(p)' => lock' = p)
      BY <1>0, <2>1 DEF ProcInv, JobInv, Holding, Unblinding, Tainted, Opening, Publishing
    <2>4. QED
      BY <1>0, <1>1, <2>1, <2>2, <2>3, QuietKeeps DEF OthersStay
  <1>2. CASE Leave(p, "raised") /\ UNCHANGED todo
    BY <1>0, <1>2, RaiseKeeps
  <1>3. CASE /\ journal \notin {None, Torn} /\ todo' = [todo EXCEPT ![p] = SweepList]
             /\ Goto(p, "sweep") /\ UNCHANGED lock
    <2>1. /\ pc' \in [Procs -> Labels] /\ pc'[p] = "sweep"
          /\ \A q \in Procs : q # p => pc'[q] = pc[q]
      BY <1>0, <1>3, GotoIs
    <2>2. /\ todo' \in [Procs -> Seq([kind : {"target", "temp"}, entry : Entries])]
          /\ todo'[p] = SweepList /\ \A q \in Procs : q # p => todo'[q] = todo[q]
      BY <1>0, <1>3, SweepListHas, Types DEF Unlinks
    <2>3. TypeOK'
      BY <1>0, <1>3, <2>1, <2>2 DEF TypeOK, disk
    <2>4. journal \in Journal /\ lock = p
      BY <1>0, <1>3, Types DEF ProcInv, Holding, Unblinding
    <2>5. SharedInv'
      BY <1>0, <2>3, SharedFrame
    <2>6. ASSUME NEW q \in Procs, q # p
          PROVE  ProcInv(q)'
      BY <1>0, <2>1, <2>2, <2>4, <2>6, HolderFrame DEF OthersStay, disk
    <2>7. SweepInv(p)'
      <3>1. /\ UNCHANGED <<journal, files, temp>> /\ Staged' = Staged
            /\ PairPublished' <=> PairPublished
        BY <1>0 DEF disk, Staged, PairPublished, Present
      <3>2. \A i \in Staged : \E k \in 1 .. Len(SweepList) :
              SweepList[k] = [kind |-> "temp", entry |-> i]
        BY SweepListHas
      <3>3. \A k \in 1 .. Len(SweepList) : SweepList[k].kind = "target" => ~PairPublished
        BY <2>4, SweepListHas, PublishedIsTargets
      <3>4. QED
        BY <2>2, <2>4, <3>1, <3>2, <3>3 DEF SweepInv
    <2>8. ProcInv(p)'
      BY <1>0, <1>3, <2>1, <2>4, <2>7
      DEF ProcInv, JobInv, Unblinding, Tainted, Opening, Publishing
    <2>9. QED
      BY <2>5, <2>6, <2>8 DEF IInv
  <1>4. QED
    BY <1>1, <1>2, <1>3 DEF Recover

\* Taking records away keeps what the processes share.
LEMMA FewerKeeps ==
  ASSUME IInv, TypeOK', NoOrphanStaging', UNCHANGED <<taint, reads>>,
         journal' = journal \/ journal' = None,
         \A k \in {"receipt", "analysis", "projection"} : (Occurs(k))' \subseteq Occurs(k)
  PROVE  SharedInv'
  <1>1. \A k \in {"receipt", "analysis"} : Present(k)' => Present(k)
    BY DEF Present, Occurs
  <1>2. OneProjection'
    BY DEF IInv, SharedInv, OneProjection
  <1>3. BlindInv'
    BY <1>1 DEF IInv, SharedInv, BlindInv, NothingPublished
  <1>4. NamesInv'
    <2>1. \A i \in Entries : KindOf[i] \in {"receipt", "analysis"}
      BY DEF Entries, KindOf
    <2>2. QED
      BY <2>1, JournalAssumption DEF IInv, SharedInv, NamesInv
  <1>5. QED
    BY <1>2, <1>3, <1>4 DEF IInv, SharedInv

LEMMA SweepKeeps == ASSUME IInv, NEW p \in Procs, Sweep(p) PROVE IInv'
  <1>0. /\ TypeOK /\ ProcInv(p) /\ pc[p] = "sweep" /\ journal \in Journal /\ lock = p
        /\ UNCHANGED <<taint, job, goal, reads>> /\ NoOrphanStaging
        /\ todo[p] \in Seq(Unlinks)
    BY Types DEF IInv, SharedInv, Sweep, ProcInv, SweepInv, Holding, Unblinding, Unlinks
  <1>1. CASE /\ todo[p] # <<>>
             /\ files' = IF Head(todo[p]).kind = "target"
                         THEN [files EXCEPT ![journal.path[Head(todo[p]).entry]] = None]
                         ELSE files
             /\ temp' = IF Head(todo[p]).kind = "temp"
                        THEN [temp EXCEPT ![Head(todo[p]).entry] = None]
                        ELSE temp
             /\ todo' = [todo EXCEPT ![p] = Tail(todo[p])]
             /\ UNCHANGED <<journal, lock, pc>>
    <2> DEFINE s == todo[p]
               f == Head(todo[p])
    <2>1. /\ Tail(s) \in Seq(Unlinks) /\ f = s[1] /\ f \in Unlinks
          /\ \A k \in 1 .. Len(s) : k # 1 => k - 1 \in 1 .. Len(Tail(s)) /\ Tail(s)[k - 1] = s[k]
          /\ \A k \in 1 .. Len(Tail(s)) : k + 1 \in 1 .. Len(s) /\ Tail(s)[k] = s[k + 1]
      BY <1>0, <1>1, RestHas
    <2>2. /\ todo' \in [Procs -> Seq([kind : {"target", "temp"}, entry : Entries])]
          /\ todo'[p] = Tail(s) /\ \A q \in Procs : q # p => todo'[q] = todo[q]
      BY <1>0, <1>1, <2>1, Types DEF Unlinks
    <2>3. /\ \A k \in 1 .. Len(s) : s[k].kind = "target" => ~PairPublished
          /\ \A i \in Staged : \E k \in 1 .. Len(s) : s[k] = [kind |-> "temp", entry |-> i]
      BY <1>0 DEF ProcInv, SweepInv
    <2>4. f.kind \in {"target", "temp"} /\ f.entry \in Entries
      BY <2>1 DEF Unlinks
    <2>5. /\ files' = files \/ files' = [files EXCEPT ![journal.path[f.entry]] = None]
          /\ temp' = IF f.kind = "temp" THEN [temp EXCEPT ![f.entry] = None] ELSE temp
          /\ UNCHANGED <<journal, lock, pc>>
      BY <1>1
    <2> HIDE DEF s, f
    <2>6. journal.path[f.entry] \in Paths
      BY <1>0, <2>4 DEF Journal
    <2>7. /\ files' \in [Paths -> Kinds \cup {None}]
          /\ \A x \in Paths : files'[x] = files[x] \/ files'[x] = None
      BY <1>0, <2>5, <2>6, Types
    <2>8. temp' \in [Entries -> {None, Torn, "whole"}]
      BY <1>0, <2>4, <2>5, Types
    <2>9. TypeOK'
      BY <1>0, <2>2, <2>5, <2>7, <2>8 DEF TypeOK
    <2>10. \A k \in {"receipt", "analysis", "projection"} :
             (Occurs(k))' \subseteq Occurs(k) /\ (Present(k)' => Present(k))
      <3>1. None \notin {"receipt", "analysis", "projection"}
        BY ValuesAssumption DEF Kinds, Singletons
      <3>2. QED
        BY <2>7, <3>1 DEF Occurs, Present
    <2>11. SharedInv'
      <3>1. NoOrphanStaging'
        BY <1>0, <2>5, JournalAssumption DEF NoOrphanStaging
      <3>2. QED
        BY <1>0, <2>5, <2>9, <2>10, <3>1, FewerKeeps
    <2>12. ASSUME NEW q \in Procs, q # p
           PROVE  ProcInv(q)'
      BY <1>0, <2>2, <2>5, <2>12, HolderFrame DEF OthersStay
    <2>13. SweepInv(p)'
      <3>1. PairPublished' => PairPublished
        BY <2>10 DEF PairPublished
      <3>2. \A k \in 1 .. Len(Tail(s)) : Tail(s)[k].kind = "target" => ~PairPublished'
        BY <2>1, <2>3, <3>1
      <3>3. ASSUME NEW i \in Staged'
            PROVE  \E k \in 1 .. Len(Tail(s)) : Tail(s)[k] = [kind |-> "temp", entry |-> i]
        <4>1. i \in Staged /\ ~(f.kind = "temp" /\ f.entry = i)
          BY <1>0, <2>4, <2>5, <3>3, Types DEF Staged
        <4>2. PICK k \in 1 .. Len(s) : s[k] = [kind |-> "temp", entry |-> i]
          BY <2>3, <4>1
        <4>3. k # 1
          BY <2>1, <4>1, <4>2
        <4>4. k - 1 \in 1 .. Len(Tail(s)) /\ Tail(s)[k - 1] = [kind |-> "temp", entry |-> i]
          BY <2>1, <4>2, <4>3
        <4>5. QED
          BY <4>4
      <3>4. QED
        BY <1>0, <2>2, <2>5, <3>2, <3>3 DEF SweepInv
    <2>14. ProcInv(p)'
      BY <1>0, <2>5, <2>13 DEF ProcInv, JobInv, Holding, Tainted, Opening, Publishing
    <2>15. QED
      BY <2>11, <2>12, <2>14 DEF IInv
  <1>2. CASE todo[p] = <<>> /\ journal' = None /\ AfterRecovery(p) /\ UNCHANGED <<files, temp, todo>>
    <2>1. /\ pc' \in [Procs -> Labels] /\ pc'[p] \in {"stage", "returned", "raised"}
          /\ \A q \in Procs : q # p => pc'[q] = pc[q]
          /\ lock' \in Procs \cup {None}
          /\ pc'[p] = "stage" => lock' = lock
      BY <1>2, AfterRecoveryIs
    <2>2. TypeOK'
      BY <1>0, <1>2, <2>1 DEF TypeOK
    <2>3. \A i \in Entries : temp[i] = None
      <3>1. Len(todo[p]) = 0 /\ \A k \in 1 .. 0 : FALSE
        BY <1>2
      <3>2. Staged = {}
        BY <1>0, <3>1 DEF ProcInv, SweepInv
      <3>3. QED
        BY <3>2 DEF Staged
    <2>4. SharedInv'
      <3>1. NoOrphanStaging'
        BY <1>2, <2>3 DEF NoOrphanStaging
      <3>2. \A k : (Occurs(k))' = Occurs(k)
        BY <1>2 DEF Occurs
      <3>3. QED
        BY <1>0, <1>2, <2>2, <3>1, <3>2, FewerKeeps
    <2>5. ASSUME NEW q \in Procs, q # p
          PROVE  ProcInv(q)'
      BY <1>0, <1>2, <2>1, <2>5, HolderFrame DEF OthersStay
    <2>6. ProcInv(p)'
      BY <1>0, <1>2, <2>1
      DEF ProcInv, JobInv, SweepInv, Holding, Unblinding, Tainted, Opening, Publishing
    <2>7. QED
      BY <2>4, <2>5, <2>6 DEF IInv
  <1>3. QED
    BY <1>1, <1>2 DEF Sweep

-----------------------------------------------------------------------------
(* Unblinding.                                                             *)

\* A step of process p inside its unblinding, which needs the lock.
LEMMA HolderKeeps ==
  ASSUME IInv, NEW p \in Procs, pc[p] \in Unblinding, OthersStay(p), taint => taint',
         SharedInv', ProcInv(p)'
  PROVE  IInv'
  <1>1. lock = p
    BY DEF IInv, ProcInv, Holding
  <1>2. QED
    BY <1>1, HolderFrame DEF IInv

LEMMA StageUnblindKeeps == ASSUME IInv, NEW p \in Procs, StageUnblind(p) PROVE IInv'
  <1>0. /\ TypeOK /\ SharedInv /\ ProcInv(p) /\ "analyse" \in Labels /\ pc[p] = "stage"
        /\ UNCHANGED <<files, journal, temp, job, goal, todo, reads>>
    BY DEF IInv, SharedInv, Labels, Locked, StageUnblind
  <1>1. CASE ~taint /\ taint' = TRUE /\ Goto(p, "analyse") /\ UNCHANGED lock
    <2>1. /\ pc' \in [Procs -> Labels] /\ pc'[p] = "analyse"
          /\ \A q \in Procs : q # p => pc'[q] = pc[q]
      BY <1>0, <1>1, GotoIs
    <2>2. TypeOK'
      BY <1>0, <1>1, <2>1 DEF TypeOK
    <2>3. SharedInv'
      BY <1>0, <1>1, <2>2
      DEF SharedInv, NoOrphanStaging, OneProjection, BlindInv, NamesInv, Occurs
    <2>4. NothingPublished' /\ reads' = 0
      BY <1>0, <1>1 DEF SharedInv, BlindInv, NothingPublished, Present
    <2>5. ProcInv(p)'
      BY <1>0, <1>1, <2>1, <2>4
      DEF ProcInv, JobInv, SweepInv, Holding, Unblinding, Tainted, Opening, Publishing
    <2>6. QED
      BY <1>0, <1>1, <2>1, <2>3, <2>5, HolderKeeps DEF OthersStay, Unblinding
  <1>2. CASE UNCHANGED taint /\ Leave(p, "raised")
    BY <1>0, <1>2, RaiseKeeps DEF disk
  <1>3. QED
    BY <1>1, <1>2 DEF StageUnblind

LEMMA AnalyseKeeps == ASSUME IInv, NEW p \in Procs, Analyse(p) PROVE IInv'
  <1>0. /\ TypeOK /\ SharedInv /\ ProcInv(p) /\ "journal" \in Labels /\ pc[p] = "analyse"
        /\ UNCHANGED <<disk, job, goal, todo>>
    BY DEF IInv, SharedInv, Labels, Locked, Analyse
  <1>1. CASE reads' = reads + 1 /\ Goto(p, "journal") /\ UNCHANGED lock
    <2>1. /\ pc' \in [Procs -> Labels] /\ pc'[p] = "journal"
          /\ \A q \in Procs : q # p => pc'[q] = pc[q]
      BY <1>0, <1>1, GotoIs
    <2>2. reads' = 1 /\ taint
      BY <1>0, <1>1 DEF ProcInv, Tainted, Opening
    <2>3. TypeOK'
      <3>1. UNCHANGED <<files, journal, temp, taint, lock, job, goal, todo>> /\ reads' \in Nat
        BY <1>0, <1>1, <2>2 DEF disk
      <3>2. QED
        BY <1>0, <2>1, <3>1 DEF TypeOK
    <2>4. SharedInv'
      BY <1>0, <1>1, <2>2, <2>3
      DEF SharedInv, NoOrphanStaging, OneProjection, BlindInv, NamesInv, Occurs, disk
    <2>5. NothingPublished'
      BY <1>0 DEF ProcInv, Opening, NothingPublished, Present, disk
    <2>6. ProcInv(p)'
      BY <1>0, <1>1, <2>1, <2>2, <2>5
      DEF ProcInv, JobInv, SweepInv, Holding, Unblinding, Tainted, Opening, Publishing, disk
    <2>7. QED
      BY <1>0, <1>1, <2>1, <2>4, <2>6, HolderKeeps DEF OthersStay, Unblinding, Tainted, Opening, disk
  <1>2. CASE UNCHANGED reads /\ Leave(p, "raised")
    BY <1>0, <1>2, RaiseKeeps
  <1>3. QED
    BY <1>1, <1>2 DEF Analyse

LEMMA CreateJournalKeeps == ASSUME IInv, NEW p \in Procs, CreateJournal(p) PROVE IInv'
  <1>0. /\ TypeOK /\ SharedInv /\ ProcInv(p) /\ "write_journal" \in Labels /\ pc[p] = "journal"
        /\ UNCHANGED <<files, temp, taint, job, goal, todo, reads>>
    BY DEF IInv, SharedInv, Labels, Locked, CreateJournal
  <1>1. CASE journal' = Torn /\ Goto(p, "write_journal") /\ UNCHANGED lock
    <2>1. /\ pc' \in [Procs -> Labels] /\ pc'[p] = "write_journal"
          /\ \A q \in Procs : q # p => pc'[q] = pc[q]
      BY <1>0, <1>1, GotoIs
    <2>2. TypeOK'
      BY <1>0, <1>1, <2>1 DEF TypeOK
    <2>3. Torn # None /\ Torn \notin Journal
      BY ValuesAssumption, JournalAssumption
    <2>4. SharedInv'
      BY <1>0, <1>1, <2>2, <2>3
      DEF SharedInv, NoOrphanStaging, OneProjection, BlindInv, NothingPublished, NamesInv, Occurs, Present
    <2>5. NothingPublished'
      BY <1>0 DEF ProcInv, Opening, NothingPublished, Present
    <2>6. ProcInv(p)'
      BY <1>0, <1>1, <2>1, <2>5
      DEF ProcInv, JobInv, SweepInv, Holding, Unblinding, Tainted, Opening, Publishing
    <2>7. QED
      BY <1>0, <1>1, <2>1, <2>4, <2>6, HolderKeeps DEF OthersStay, Unblinding, Tainted, Opening
  <1>2. CASE UNCHANGED journal /\ Leave(p, "raised")
    BY <1>0, <1>2, RaiseKeeps DEF disk
  <1>3. QED
    BY <1>1, <1>2 DEF CreateJournal

LEMMA FinishJournalKeeps == ASSUME IInv, NEW p \in Procs, FinishJournal(p) PROVE IInv'
  <1>0. /\ TypeOK /\ SharedInv /\ ProcInv(p) /\ "prepare" \in Labels /\ pc[p] = "write_journal"
        /\ UNCHANGED <<files, temp, taint, lock, goal, todo, reads>>
    BY DEF IInv, SharedInv, Labels, Publishing, FinishJournal
  <1>1. /\ pc' \in [Procs -> Labels] /\ pc'[p] = "prepare"
        /\ \A q \in Procs : q # p => pc'[q] = pc[q]
    BY <1>0, GotoIs DEF FinishJournal
  <1>2. job[p] \in Jobs /\ job[p].op = "unblind" /\ NothingPublished /\ taint
    BY <1>0 DEF ProcInv, JobInv, Unblinding, Tainted, Opening
  <1>3. job[p] \in [op : {"unblind"}, pair : [Entries -> PairPaths], entry : Entries]
    BY <1>2, UnblindJob
  <1>4. /\ journal' = [path |-> job[p].pair, bound |-> [i \in Entries |-> FALSE]]
        /\ job' = [job EXCEPT ![p].entry = 1]
    BY DEF FinishJournal
  <1>5. journal' \in Journal /\ \A i \in Entries : journal'.path[i] \in PairPaths
    BY <1>3, <1>4, PathsAssumption DEF Journal
  <1>6. job' \in [Procs -> Jobs \cup {None}] /\ job'[p] \in Jobs /\ job'[p].op = "unblind"
        /\ \A q \in Procs : q # p => job'[q] = job[q]
    <2>1. [job[p] EXCEPT !.entry = 1] \in [op : {"unblind"}, pair : [Entries -> PairPaths], entry : Entries]
      BY <1>3 DEF Entries
    <2>2. [job[p] EXCEPT !.entry = 1] \in Jobs /\ [job[p] EXCEPT !.entry = 1].op = "unblind"
      BY <2>1 DEF Jobs
    <2>3. job' = [job EXCEPT ![p] = [job[p] EXCEPT !.entry = 1]]
      BY <1>4
    <2>4. QED
      BY <1>0, <2>2, <2>3, Types
  <1>7. TypeOK'
    BY <1>0, <1>1, <1>5, <1>6 DEF TypeOK
  <1>8. SharedInv'
    <2>1. journal' # None
      BY <1>5, JournalAssumption
    <2>2. \A i \in Entries : (Occurs(KindOf[i]))' = {}
      BY <1>0, <1>2 DEF NothingPublished, Present, Occurs, KindOf, Entries
    <2>3. NamesInv'
      BY <1>0, <1>5, <2>2 DEF SharedInv, NamesInv, Occurs
    <2>4. QED
      BY <1>0, <1>2, <1>7, <2>1, <2>3
      DEF SharedInv, NoOrphanStaging, OneProjection, BlindInv, Occurs
  <1>9. ProcInv(p)'
    BY <1>0, <1>1, <1>2, <1>5, <1>6
    DEF ProcInv, JobInv, SweepInv, Holding, Unblinding, Tainted, Opening, Publishing
  <1>10. QED
    BY <1>0, <1>1, <1>6, <1>8, <1>9, HolderKeeps DEF OthersStay, Unblinding, Tainted, Opening

-----------------------------------------------------------------------------
(* The publication of the pair.                                            *)

\* A step of the publication that changes no record: its journal stays one
\* and names the same destinations.
LEMMA PublishingKeeps ==
  ASSUME IInv, NEW p \in Procs, pc[p] \in Publishing, TypeOK', OthersStay(p),
         pc'[p] \in Publishing \cup {"recover"}, job'[p] \in Jobs, job'[p].op = "unblind",
         journal' \in Journal, journal'.path = journal.path,
         UNCHANGED <<files, taint, lock, reads>>
  PROVE  IInv'
  <1>0. /\ SharedInv /\ ProcInv(p) /\ journal \in Journal /\ taint /\ lock = p
    BY DEF IInv, ProcInv, Tainted, Holding, Unblinding
  <1>1. \A k : (Occurs(k))' = Occurs(k) /\ (Present(k)' <=> Present(k))
    BY DEF Occurs, Present
  <1>2. SharedInv'
    <2>1. NoOrphanStaging'
      BY JournalAssumption DEF NoOrphanStaging
    <2>2. NamesInv'
      BY <1>0, <1>1 DEF SharedInv, NamesInv
    <2>3. OneProjection' /\ BlindInv' /\ (reads <= 1)'
      BY <1>0, <1>1 DEF SharedInv, OneProjection, BlindInv, NothingPublished
    <2>4. QED
      BY <2>1, <2>2, <2>3 DEF SharedInv
  <1>3. ProcInv(p)'
    BY <1>0 DEF ProcInv, JobInv, SweepInv, Holding, Unblinding, Tainted, Opening, Publishing
  <1>4. QED
    BY <1>2, <1>3, HolderKeeps DEF Unblinding, Tainted

\* What a step of the publication works on.
LEMMA PublishingHas ==
  ASSUME IInv, NEW p \in Procs, pc[p] \in Publishing
  PROVE  /\ TypeOK /\ ProcInv(p) /\ Publishing \subseteq Labels /\ "recover" \in Labels
         /\ journal \in Journal /\ Entry(p) \in Entries
         /\ job[p] \in Jobs /\ job[p].op = "unblind"
         /\ \A e \in Entries : /\ [job EXCEPT ![p].entry = e] \in [Procs -> Jobs \cup {None}]
                               /\ [job EXCEPT ![p].entry = e][p] \in Jobs
                               /\ [job EXCEPT ![p].entry = e][p].op = "unblind"
                               /\ \A q \in Procs : q # p => [job EXCEPT ![p].entry = e][q] = job[q]
  <1>0. TypeOK /\ ProcInv(p) /\ Publishing \subseteq Labels /\ "recover" \in Labels
    BY DEF IInv, SharedInv, Labels, Locked
  <1>1. journal \in Journal /\ job[p] \in Jobs /\ job[p].op = "unblind"
    BY <1>0 DEF ProcInv, JobInv, Unblinding, Tainted, Publishing
  <1>2. job[p] \in [op : {"unblind"}, pair : [Entries -> PairPaths], entry : Entries]
    BY <1>1, UnblindJob
  <1>3. Entry(p) \in Entries
    BY <1>2 DEF Entry
  <1>4. ASSUME NEW e \in Entries
        PROVE  /\ [job EXCEPT ![p].entry = e] \in [Procs -> Jobs \cup {None}]
               /\ [job EXCEPT ![p].entry = e][p] \in Jobs
               /\ [job EXCEPT ![p].entry = e][p].op = "unblind"
               /\ \A q \in Procs : q # p => [job EXCEPT ![p].entry = e][q] = job[q]
    <2>1. [job[p] EXCEPT !.entry = e] \in [op : {"unblind"}, pair : [Entries -> PairPaths], entry : Entries]
      BY <1>2
    <2>2. [job[p] EXCEPT !.entry = e] \in Jobs /\ [job[p] EXCEPT !.entry = e].op = "unblind"
      BY <2>1 DEF Jobs
    <2>3. [job EXCEPT ![p].entry = e] = [job EXCEPT ![p] = [job[p] EXCEPT !.entry = e]]
      OBVIOUS
    <2>4. QED
      BY <1>0, <2>2, <2>3, Types
  <1>5. QED
    BY <1>0, <1>1, <1>3, <1>4

LEMMA PrepareKeeps == ASSUME IInv, NEW p \in Procs, Prepare(p) PROVE IInv'
  <1>0. /\ pc[p] \in Publishing /\ UNCHANGED <<files, journal, taint, lock, job, todo, reads>>
    BY DEF Prepare, Publishing
  <1>1. /\ TypeOK /\ ProcInv(p) /\ "write_temp" \in Labels /\ journal \in Journal
        /\ Entry(p) \in Entries /\ job[p] \in Jobs /\ job[p].op = "unblind"
    BY <1>0, PublishingHas DEF Publishing
  <1>2. CASE temp' = [temp EXCEPT ![Entry(p)] = Torn] /\ Goto(p, "write_temp") /\ UNCHANGED goal
    <2>1. /\ pc' \in [Procs -> Labels] /\ pc'[p] = "write_temp"
          /\ \A q \in Procs : q # p => pc'[q] = pc[q]
      BY <1>1, <1>2, GotoIs
    <2>2. temp' \in [Entries -> {None, Torn, "whole"}]
      BY <1>1, <1>2, Types
    <2>3. TypeOK'
      BY <1>0, <1>1, <1>2, <2>1, <2>2 DEF TypeOK
    <2>4. QED
      BY <1>0, <1>1, <2>1, <2>3, PublishingKeeps DEF OthersStay, Publishing
  <1>3. CASE UNCHANGED temp /\ Abort(p)
    BY <1>0, <1>3, AbortKeeps DEF disk
  <1>4. QED
    BY <1>2, <1>3 DEF Prepare

LEMMA WriteTempKeeps == ASSUME IInv, NEW p \in Procs, WriteTemp(p) PROVE IInv'
  <1>0. /\ pc[p] \in Publishing /\ UNCHANGED <<files, journal, taint, lock, job, goal, todo, reads>>
    BY DEF WriteTemp, Publishing
  <1>1. /\ TypeOK /\ ProcInv(p) /\ "bind" \in Labels /\ journal \in Journal
        /\ Entry(p) \in Entries /\ job[p] \in Jobs /\ job[p].op = "unblind"
    BY <1>0, PublishingHas DEF Publishing
  <1>2. /\ pc' \in [Procs -> Labels] /\ pc'[p] = "bind"
        /\ \A q \in Procs : q # p => pc'[q] = pc[q]
    BY <1>1, GotoIs DEF WriteTemp
  <1>3. temp' \in [Entries -> {None, Torn, "whole"}]
    BY <1>1, Types DEF WriteTemp
  <1>4. TypeOK'
    BY <1>0, <1>1, <1>2, <1>3 DEF TypeOK
  <1>5. QED
    BY <1>0, <1>1, <1>2, <1>4, PublishingKeeps DEF OthersStay, Publishing

LEMMA BindTempKeeps == ASSUME IInv, NEW p \in Procs, BindTemp(p) PROVE IInv'
  <1>0. /\ pc[p] \in Publishing /\ UNCHANGED <<files, temp, taint, lock, goal, todo, reads>>
    BY DEF BindTemp, Publishing
  <1>1. /\ TypeOK /\ ProcInv(p) /\ {"prepare", "install"} \subseteq Labels /\ journal \in Journal
        /\ Entry(p) \in Entries
    BY <1>0, PublishingHas DEF Publishing
  <1>2. /\ pc' \in [Procs -> Labels] /\ pc'[p] \in {"prepare", "install"}
        /\ \A q \in Procs : q # p => pc'[q] = pc[q]
    BY <1>1, GotoIs DEF BindTemp
  <1>3. journal' \in Journal /\ journal'.path = journal.path
    <2>1. journal' = [journal EXCEPT !.bound = [journal.bound EXCEPT ![Entry(p)] = TRUE]]
      BY DEF BindTemp
    <2>2. [journal.bound EXCEPT ![Entry(p)] = TRUE] \in [Entries -> BOOLEAN]
      BY <1>1 DEF Journal
    <2>3. QED
      BY <1>1, <2>1, <2>2 DEF Journal
  <1>4. /\ job' \in [Procs -> Jobs \cup {None}] /\ job'[p] \in Jobs /\ job'[p].op = "unblind"
        /\ \A q \in Procs : q # p => job'[q] = job[q]
    <2>1. (IF Entry(p) = 1 THEN 2 ELSE 1) \in Entries
      BY DEF Entries
    <2>2. job' = [job EXCEPT ![p].entry = IF Entry(p) = 1 THEN 2 ELSE 1]
      BY DEF BindTemp
    <2>3. QED
      BY <1>0, <2>1, <2>2, PublishingHas
  <1>5. TypeOK'
    BY <1>0, <1>1, <1>2, <1>3, <1>4 DEF TypeOK
  <1>6. QED
    BY <1>0, <1>2, <1>3, <1>4, <1>5, PublishingKeeps DEF OthersStay, Publishing

\* The link adds one record of the pair, at the destination its journal names.
LEMMA InstallKeeps == ASSUME IInv, NEW p \in Procs, Install(p) PROVE IInv'
  <1>0. /\ pc[p] \in Publishing /\ UNCHANGED <<journal, temp, taint, lock, job, todo, reads>>
    BY DEF Install, Publishing
  <1>1. /\ TypeOK /\ SharedInv /\ ProcInv(p) /\ "linked" \in Labels /\ journal \in Journal
        /\ Entry(p) \in Entries /\ job[p] \in Jobs /\ job[p].op = "unblind"
    BY <1>0, PublishingHas DEF Publishing, IInv
  <1>2. CASE /\ files' = [files EXCEPT ![journal.path[Entry(p)]] = KindOf[Entry(p)]]
             /\ Goto(p, "linked") /\ UNCHANGED goal
    <2>1. /\ pc' \in [Procs -> Labels] /\ pc'[p] = "linked"
          /\ \A q \in Procs : q # p => pc'[q] = pc[q]
      BY <1>1, <1>2, GotoIs
    <2>2. /\ journal.path[Entry(p)] \in PairPaths
          /\ KindOf[Entry(p)] \in {"receipt", "analysis"}
          /\ \A i \in Entries : KindOf[i] = KindOf[Entry(p)] => i = Entry(p)
      BY <1>1 DEF SharedInv, NamesInv, KindOf, Entries
    <2>3. PICK x \in PairPaths, k \in {"receipt", "analysis"} :
            x = journal.path[Entry(p)] /\ k = KindOf[Entry(p)]
      BY <2>2
    <2>4. x \in Paths /\ \A i \in Entries : KindOf[i] = k => i = Entry(p)
      BY <2>2, <2>3, PathsAssumption
    <2>5. /\ files' \in [Paths -> Kinds \cup {None}] /\ files'[x] = k
          /\ \A y \in Paths : y # x => files'[y] = files[y]
      BY <1>1, <1>2, <2>3, <2>4, Types DEF Kinds, Singletons
    <2>6. TypeOK'
      BY <1>0, <1>1, <1>2, <2>1, <2>5 DEF TypeOK
    <2>7. \A h : h # k => (Occurs(h))' \subseteq Occurs(h)
      BY <2>5 DEF Occurs
    <2>8. (Occurs(k))' \subseteq Occurs(k) \cup {x}
      BY <2>5 DEF Occurs
    <2>9. taint /\ lock = p
      BY <1>0, <1>1 DEF ProcInv, Tainted, Holding, Unblinding
    <2>10. NamesInv'
      <3>1. (Occurs("receipt"))' \cup (Occurs("analysis"))' \subseteq PairPaths
        BY <1>1, <2>7, <2>8 DEF SharedInv, NamesInv
      <3>2. ASSUME NEW i \in Entries
            PROVE  (Occurs(KindOf[i]))' \subseteq {journal.path[i]}
        <4>1. CASE KindOf[i] = k
          BY <1>1, <2>3, <2>4, <2>8, <4>1 DEF SharedInv, NamesInv
        <4>2. CASE KindOf[i] # k
          BY <1>1, <2>7, <4>2 DEF SharedInv, NamesInv
        <4>3. QED
          BY <4>1, <4>2
      <3>3. \A i \in Entries : journal.path[i] \in PairPaths
        BY <1>1 DEF SharedInv, NamesInv
      <3>4. QED
        BY <1>0, <3>1, <3>2, <3>3 DEF NamesInv
    <2>11. OneProjection'
      BY <1>1, <2>7 DEF SharedInv, OneProjection
    <2>12. SharedInv'
      BY <1>0, <1>1, <2>6, <2>9, <2>10, <2>11 DEF SharedInv, NoOrphanStaging, BlindInv
    <2>13. ProcInv(p)'
      BY <1>0, <1>1, <2>1, <2>9
      DEF ProcInv, JobInv, SweepInv, Holding, Unblinding, Tainted, Opening, Publishing
    <2>14. QED
      BY <1>0, <2>1, <2>9, <2>12, <2>13, HolderKeeps DEF OthersStay, Unblinding, Tainted
  <1>3. CASE UNCHANGED files /\ Abort(p)
    BY <1>0, <1>3, AbortKeeps DEF disk
  <1>4. QED
    BY <1>2, <1>3 DEF Install

LEMMA LinkedKeeps == ASSUME IInv, NEW p \in Procs, Linked(p) PROVE IInv'
  <1>0. /\ pc[p] \in Publishing /\ UNCHANGED <<disk, lock, todo, reads>>
    BY DEF Linked, Publishing
  <1>1. /\ TypeOK /\ ProcInv(p) /\ {"install", "recover"} \subseteq Labels /\ journal \in Journal
        /\ Entry(p) \in Entries /\ job[p] \in Jobs /\ job[p].op = "unblind"
    BY <1>0, PublishingHas DEF Publishing
  <1>2. CASE Abort(p) /\ UNCHANGED job
    BY <1>0, <1>2, AbortKeeps
  <1>3. CASE job' = [job EXCEPT ![p].entry = 2] /\ Goto(p, "install") /\ UNCHANGED goal
    <2>1. /\ pc' \in [Procs -> Labels] /\ pc'[p] = "install"
          /\ \A q \in Procs : q # p => pc'[q] = pc[q]
      BY <1>1, <1>3, GotoIs
    <2>2. /\ job' \in [Procs -> Jobs \cup {None}] /\ job'[p] \in Jobs /\ job'[p].op = "unblind"
          /\ \A q \in Procs : q # p => job'[q] = job[q]
      <3>1. 2 \in Entries
        BY DEF Entries
      <3>2. QED
        BY <1>0, <1>3, <3>1, PublishingHas
    <2>3. TypeOK'
      BY <1>0, <1>1, <1>3, <2>1, <2>2 DEF TypeOK, disk
    <2>4. QED
      BY <1>0, <1>1, <2>1, <2>2, <2>3, PublishingKeeps DEF OthersStay, Publishing, disk
  <1>4. CASE Goto(p, "recover") /\ goal' = [goal EXCEPT ![p] = "finish"] /\ UNCHANGED job
    <2>1. /\ pc' \in [Procs -> Labels] /\ pc'[p] = "recover"
          /\ \A q \in Procs : q # p => pc'[q] = pc[q]
      BY <1>1, <1>4, GotoIs
    <2>2. goal' \in [Procs -> {"entry", "finish", "abort"}]
      BY <1>1, <1>4, Types
    <2>3. TypeOK'
      BY <1>0, <1>1, <1>4, <2>1, <2>2 DEF TypeOK, disk
    <2>4. QED
      BY <1>0, <1>1, <1>4, <2>1, <2>3, PublishingKeeps DEF OthersStay, disk
  <1>5. QED
    BY <1>2, <1>3, <1>4 DEF Linked

-----------------------------------------------------------------------------
(* All steps.                                                              *)

LEMMA InitInv == Init => IInv
  <1> SUFFICES ASSUME Init PROVE IInv
    OBVIOUS
  <1>1. <<>> \in Seq([kind : {"target", "temp"}, entry : Entries])
    OBVIOUS
  <1>2. TypeOK
    BY <1>1 DEF Init, TypeOK, Labels
  <1>3. \A k \in {"receipt", "analysis", "projection"} : Occurs(k) = {} /\ ~Present(k)
    BY ValuesAssumption DEF Init, Occurs, Present, Kinds, Protected, Singletons
  <1>4. NamesInv
    BY <1>3, JournalAssumption DEF Init, NamesInv
  <1>5. NoOrphanStaging /\ OneProjection /\ BlindInv /\ reads <= 1
    BY <1>3 DEF Init, NoOrphanStaging, OneProjection, BlindInv, NothingPublished
  <1>6. \A p \in Procs : pc[p] = "idle"
    BY DEF Init
  <1>7. \A p \in Procs : ProcInv(p)
    BY <1>6 DEF ProcInv, JobInv, SweepInv, Holding, Unblinding, Tainted, Opening, Publishing
  <1>8. QED
    BY <1>2, <1>4, <1>5, <1>7 DEF IInv, SharedInv

LEMMA StepKeeps == ASSUME IInv, NEW p \in Procs, Step(p) PROVE IInv'
  BY CheckRecordKeeps, CheckProjectionKeeps, PublishRecordKeeps, RecoverKeeps, SweepKeeps,
     StageUnblindKeeps, AnalyseKeeps, CreateJournalKeeps, FinishJournalKeeps, PrepareKeeps,
     WriteTempKeeps, BindTempKeeps, InstallKeeps, LinkedKeeps
  DEF Step

LEMMA StutterKeeps == IInv /\ UNCHANGED vars => IInv'
  <1> SUFFICES ASSUME IInv, UNCHANGED vars PROVE IInv'
    OBVIOUS
  <1>1. UNCHANGED <<files, journal, temp, taint, lock, pc, job, goal, todo, reads>>
    BY DEF vars, disk
  <1>2. TypeOK'
    BY <1>1 DEF IInv, SharedInv, TypeOK
  <1>3. SharedInv'
    BY <1>1, <1>2, SharedFrame DEF disk
  <1>4. \A k : Present(k)' <=> Present(k)
    BY <1>1 DEF Present
  <1>5. ASSUME NEW p \in Procs
        PROVE  ProcInv(p)'
    BY <1>1, <1>4 DEF IInv, ProcInv, JobInv, SweepInv, Holding, NothingPublished, PairPublished, Staged
  <1>6. QED
    BY <1>3, <1>5 DEF IInv

LEMMA NextKeeps == IInv /\ [Next]_vars => IInv'
  <1> SUFFICES ASSUME IInv, [Next]_vars PROVE IInv'
    OBVIOUS
  <1>1. ASSUME NEW p \in Procs, NEW j \in Jobs, Call(p, j) PROVE IInv'
    BY <1>1, CallKeeps
  <1>2. ASSUME NEW p \in Procs, AcquireLock(p) PROVE IInv'
    BY <1>2, AcquireLockKeeps
  <1>3. ASSUME NEW p \in Procs, Step(p) PROVE IInv'
    BY <1>3, StepKeeps
  <1>4. ASSUME NEW p \in Procs, Fail(p) PROVE IInv'
    BY <1>4, FailKeeps
  <1>5. ASSUME NEW p \in Procs, Return(p) \/ Crash(p) PROVE IInv'
    BY <1>5, ForgetKeeps
  <1>6. CASE UNCHANGED vars
    BY <1>6, StutterKeeps
  <1>7. QED
    BY <1>1, <1>2, <1>3, <1>4, <1>5, <1>6 DEF Next

-----------------------------------------------------------------------------
(* The theorems.                                                           *)

\* The files and the controllers' variables always have their types.
THEOREM TypeCorrect == Spec => []TypeOK
  <1>1. IInv => TypeOK
    BY DEF IInv, SharedInv
  <1>2. QED
    BY InitInv, NextKeeps, <1>1, PTL DEF Spec

\* recover_paired_publication leaves no staging file behind its journal, in
\* whatever process it runs and wherever the one before it was killed.
THEOREM NeverOrphanStaging == Spec => []NoOrphanStaging
  <1>1. IInv => NoOrphanStaging
    BY DEF IInv, SharedInv
  <1>2. QED
    BY InitInv, NextKeeps, <1>1, PTL DEF Spec

\* The clear ledger is opened once, and one blinded projection is published,
\* by any number of processes that are killed and retried at will.
THEOREM AlwaysOnceEach == Spec => []OnceEach
  <1>1. IInv => OnceEach
    BY DEF IInv, SharedInv, OnceEach, ClearReadOnce
  <1>2. QED
    BY InitInv, NextKeeps, <1>1, PTL DEF Spec

-----------------------------------------------------------------------------
(* The controller implements the promise of ResultOfRecord.  Records are   *)
(* installed by os.replace, so this needs that no protected record is      *)
(* aimed at a destination of the pair.                                     *)

Disjoint == \A k \in Protected : RecordPaths[k] \cap PairPaths = {}

\* The steps that change records, and the one that sets the taint.
LEMMA OtherStepsKeepFiles ==
  ASSUME NEW p \in Procs,
         \/ \E j \in Jobs : Call(p, j)
         \/ AcquireLock(p) \/ Fail(p) \/ Return(p) \/ Crash(p)
         \/ CheckRecord(p) \/ CheckProjection(p) \/ Recover(p) \/ Analyse(p)
         \/ CreateJournal(p) \/ FinishJournal(p) \/ Prepare(p) \/ WriteTemp(p)
         \/ BindTemp(p) \/ Linked(p)
  PROVE  UNCHANGED <<files, taint>>
  <1>1. CASE (\E j \in Jobs : Call(p, j)) \/ AcquireLock(p) \/ Fail(p) \/ Return(p) \/ Crash(p)
    BY <1>1 DEF Call, AcquireLock, Fail, Return, Crash, Forget, disk
  <1>2. CASE CheckRecord(p) \/ CheckProjection(p) \/ Recover(p) \/ Analyse(p)
    BY <1>2 DEF CheckRecord, CheckProjection, Recover, Analyse, disk
  <1>3. CASE CreateJournal(p) \/ FinishJournal(p) \/ Prepare(p) \/ WriteTemp(p)
    BY <1>3 DEF CreateJournal, FinishJournal, Prepare, WriteTemp
  <1>4. CASE BindTemp(p) \/ Linked(p)
    BY <1>4 DEF BindTemp, Linked, disk
  <1>5. QED
    BY <1>1, <1>2, <1>3, <1>4

\* What the readers of a run root see of one step.
VisibleStep ==
  \/ UNCHANGED <<files, taint>>
  \/ ~taint /\ ~Present("receipt") /\ taint' = TRUE /\ files' = files
  \/ taint' = taint /\ (PairPublished => PairPublished')

\* A step that touches neither record of a published pair keeps the pair.
LEMMA PairStays ==
  ASSUME IInv, PairPublished,
         \A x \in Paths : files[x] \in {"receipt", "analysis"} => files'[x] = files[x]
  PROVE  PairPublished'
  BY DEF PairPublished, Present

LEMMA StepsAreVisible ==
  ASSUME Disjoint, IInv, [Next]_vars
  PROVE  VisibleStep
  <1>0. SharedInv /\ TypeOK /\ files \in [Paths -> Kinds \cup {None}]
    BY Types DEF IInv, SharedInv
  <1>1. ASSUME NEW p \in Procs, PublishRecord(p)
        PROVE  VisibleStep
    <2>1. job[p].kind \in Protected /\ job[p].path \in RecordPaths[job[p].kind]
      BY <1>1, RecordJob DEF IInv, ProcInv, JobInv, PublishRecord
    <2>2. job[p].path \notin PairPaths
      BY <2>1 DEF Disjoint
    <2>3. \A x \in Paths : files[x] \in {"receipt", "analysis"} => x \in PairPaths
      BY <1>0 DEF SharedInv, NamesInv, Occurs
    <2>4. \A x \in Paths : files[x] \in {"receipt", "analysis"} => files'[x] = files[x]
      BY <1>0, <1>1, <2>2, <2>3 DEF PublishRecord
    <2>5. taint' = taint
      BY <1>1 DEF PublishRecord
    <2>6. QED
      BY <2>4, <2>5, PairStays DEF VisibleStep
  <1>2. ASSUME NEW p \in Procs, Sweep(p)
        PROVE  VisibleStep
    <2>1. ProcInv(p) /\ pc[p] = "sweep" /\ taint' = taint
      BY <1>2 DEF IInv, Sweep
    <2>2. \A k \in 1 .. Len(todo[p]) : todo[p][k].kind = "target" => ~PairPublished
      BY <2>1 DEF ProcInv, SweepInv
    <2>3. ASSUME PairPublished
          PROVE  files' = files
      <3>1. CASE todo[p] = <<>>
        BY <1>2, <3>1 DEF Sweep
      <3>2. CASE todo[p] # <<>>
        <4>1. todo[p] \in Seq(Unlinks)
          BY <1>0, Types DEF Unlinks
        <4>2. 1 \in 1 .. Len(todo[p]) /\ Head(todo[p]) = todo[p][1]
          BY <3>2, <4>1
        <4>3. Head(todo[p]).kind # "target"
          BY <2>2, <2>3, <4>2
        <4>4. QED
          BY <1>2, <3>2, <4>3 DEF Sweep
      <3>3. QED
        BY <3>1, <3>2
    <2>4. QED
      BY <2>1, <2>3, PairStays DEF VisibleStep
  <1>3. ASSUME NEW p \in Procs, Install(p)
        PROVE  VisibleStep
    <2>1. \A x \in Paths : files[x] \in {"receipt", "analysis"} => files'[x] = files[x]
      <3>1. None \notin {"receipt", "analysis"}
        BY ValuesAssumption DEF Kinds, Singletons
      <3>2. QED
        BY <1>0, <1>3, <3>1 DEF Install
    <2>2. taint' = taint
      BY <1>3 DEF Install
    <2>3. QED
      BY <2>1, <2>2, PairStays DEF VisibleStep
  <1>4. ASSUME NEW p \in Procs, StageUnblind(p)
        PROVE  VisibleStep
    BY <1>4 DEF StageUnblind, Unblindable, VisibleStep
  <1>5. CASE UNCHANGED vars
    BY <1>5 DEF vars, disk, VisibleStep
  <1>6. ASSUME NEW p \in Procs,
               \/ \E j \in Jobs : Call(p, j)
               \/ AcquireLock(p) \/ Fail(p) \/ Return(p) \/ Crash(p)
               \/ CheckRecord(p) \/ CheckProjection(p) \/ Recover(p) \/ Analyse(p)
               \/ CreateJournal(p) \/ FinishJournal(p) \/ Prepare(p) \/ WriteTemp(p)
               \/ BindTemp(p) \/ Linked(p)
        PROVE  VisibleStep
    BY <1>6, OtherStepsKeepFiles DEF VisibleStep
  <1>7. QED
    BY <1>1, <1>2, <1>3, <1>4, <1>5, <1>6 DEF Next, Step

\* Every step of the controller is a step of the promise, or none.
LEMMA StepRefines == IInv /\ VisibleStep => [Record!Next]_Study
  <1> SUFFICES ASSUME IInv, VisibleStep PROVE [Record!Next]_Study
    OBVIOUS
  <1>0. /\ taint \in BOOLEAN /\ ~taint => ~PairPublished
    BY Types DEF IInv, SharedInv, BlindInv, NothingPublished, PairPublished
  <1>1. CASE UNCHANGED <<files, taint>>
    BY <1>1 DEF Study, PairPublished, Present
  <1>2. CASE ~taint /\ ~Present("receipt") /\ taint' = TRUE /\ files' = files
    <2>1. ~PairPublished'
      BY <1>2 DEF PairPublished, Present
    <2>2. Study = "blinded" /\ Study' = "exposed"
      BY <1>2, <2>1 DEF Study
    <2>3. QED
      BY <2>2 DEF Record!Next, Record!Expose
  <1>3. CASE taint' = taint /\ (PairPublished => PairPublished')
    <2>1. CASE ~taint
      BY <1>3, <2>1 DEF Study
    <2>2. CASE taint /\ PairPublished
      BY <1>3, <2>2 DEF Study
    <2>3. CASE taint /\ ~PairPublished
      BY <1>3, <2>3 DEF Study, Record!Next, Record!Publish
    <2>4. QED
      BY <2>1, <2>2, <2>3
  <1>4. QED
    BY <1>1, <1>2, <1>3 DEF VisibleStep

\* unblind_task6 keeps the promise of the result of record: blinded, then
\* exposed, then, once and for good, published - over every interleaving of
\* recovery, retry and crash.
THEOREM ControllerImplementsRecord ==
  ASSUME Disjoint
  PROVE  Spec => ImplementsResultOfRecord
  <1>1. Init => Record!Init
    BY DEF Init, Record!Init, Study
  <1>2. IInv /\ [Next]_vars => [Record!Next]_Study
    BY StepsAreVisible, StepRefines
  <1>3. QED
    BY InitInv, NextKeeps, <1>1, <1>2, PTL DEF Spec, ImplementsResultOfRecord, Record!Spec

-----------------------------------------------------------------------------
(* The invariant of the review.                                            *)

\* What a sealed report says of the answer it was made from.
Reported(report, said, role) ==
    /\ report.depends = said.answer.depends
    /\ \A f \in report.findings : f.by = role
    /\ \A i \in DOMAIN said.answer.findings :
         \E f \in report.findings :
            /\ f.by = role /\ f.id = said.answer.findings[i].id
            /\ f.measured = said.answer.findings[i].measured
            /\ Grounded(said.answer.findings[i], said.tree) => f.severity = "blocker"

\* While the reviewers answer.
ReviewInv ==
    step = "reviewing" =>
      /\ DOMAIN reports = DOMAIN heard /\ DOMAIN reports \subseteq spec.roles
      /\ \A r \in DOMAIN reports : Reported(reports[r], heard[r], r)
      /\ IsFiniteSet(Findings(reports))
      /\ \A f \in Declared(spec.inputs) : began[f] \in {spec.inputs[f], NoFile}

AnswerInv ==
    /\ "roles" \in DOMAIN spec /\ spec.roles \subseteq Roles
    /\ \A r \in Roles : transcripts[r] \in Answers[r]
    /\ step = "idle" => reports = Nothing /\ heard = Nothing

Earns(r) ==
    r.disposition.verdict = "no_blocking_findings" =>
      /\ Earned(r)
      /\ \A f \in r.synthesis.rejection : f.severity = "blocker" =>
            AnsweredFor(f, r) \/ Deferred(f, r.spec.stage)
ResultInv == results \in Seq(Range(results)) /\ \A k \in DOMAIN results : Earns(results[k])

StatusInv ==
    /\ written = [i \in 1 .. Len(Artifacts) |-> written[i]]
    /\ status = 0 =>
         /\ step = "idle"
         /\ \A i \in DOMAIN written : written[i] = Len(results)
         /\ Last(results).disposition.verdict = "no_blocking_findings"

PassInv == ReviewInv /\ AnswerInv /\ ResultInv /\ StatusInv

-----------------------------------------------------------------------------
(* Findings.                                                               *)

LEMMA GroundedIsAdmitted ==
  ASSUME NEW f, Grounded(f, tree)
  PROVE  Failures(f) = {}
  <1>1. f.severity # "speculation" /\ f.evidence # {} /\ f.refutable
    BY DEF Grounded
  <1>2. \A ref \in f.evidence : Holds(ref)
    BY DEF Grounded, Holds
  <1>3. QED
    BY <1>1, <1>2 DEF Failures

LEMMA ReportReports ==
  ASSUME NEW role, NEW answer
  PROVE  Reported(Report(role, answer), [answer |-> answer, tree |-> tree], role)
  <1> DEFINE report == Report(role, answer)
  <1>1. report.depends = answer.depends
        /\ report.findings = {Recorded(answer.findings[i], role) : i \in DOMAIN answer.findings}
    BY DEF Report
  <1>2. \A f \in report.findings : f.by = role
    BY <1>1 DEF Recorded
  <1>3. ASSUME NEW i \in DOMAIN answer.findings
        PROVE  LET f == Recorded(answer.findings[i], role)
               IN  /\ f \in report.findings /\ f.by = role /\ f.id = answer.findings[i].id
                   /\ f.measured = answer.findings[i].measured
                   /\ Grounded(answer.findings[i], tree) => f.severity = "blocker"
    <2>1. Grounded(answer.findings[i], tree) =>
            Failures(answer.findings[i]) = {} /\ answer.findings[i].severity = "blocker"
      BY GroundedIsAdmitted DEF Grounded
    <2>2. QED
      BY <1>1, <2>1 DEF Recorded
  <1>4. QED
    BY <1>1, <1>2, <1>3 DEF Reported

LEMMA ReportFinite ==
  ASSUME NEW role, NEW answer, IsFiniteSet(DOMAIN answer.findings)
  PROVE  IsFiniteSet(Report(role, answer).findings)
  <1> DEFINE S == DOMAIN answer.findings
             T == {Recorded(answer.findings[i], role) : i \in S}
             g == [i \in S |-> Recorded(answer.findings[i], role)]
  <1>1. g \in Surjection(S, T)
    BY DEF Surjection
  <1>2. IsFiniteSet(T)
    BY <1>1, FS_Surjection
  <1>3. QED
    BY <1>2 DEF Report

-----------------------------------------------------------------------------
(* The decision.                                                           *)

LEMMA VerdictMeans ==
  ASSUME NEW conflicts, NEW items, Verdict(conflicts, items) = "no_blocking_findings"
  PROVE  /\ \A c \in conflicts : ~c.blocking
         /\ Blocking(items) = {} /\ ~(Cardinality(StandingMajors(items)) >= Quorum)
  BY DEF Verdict

LEMMA DecisionEarns ==
  ASSUME PassInv, step = "reviewing", Waiting = {}
  PROVE  Earns(Result(reports))
  <1> DEFINE r == Result(reports)
             findings == Findings(reports)
             items == Items(findings, spec.stage)
  <1>1. /\ r.reports = reports /\ r.heard = heard /\ r.began = began /\ r.spec = spec
        /\ r.synthesis.rejection = Sufficient(findings)
        /\ r.disposition.verdict = Verdict(Conflicts(reports), items)
    BY DEF Result, Disposition, Synthesis
  <1> HIDE DEF r
  <1>2. SUFFICES ASSUME Verdict(Conflicts(reports), items) = "no_blocking_findings"
                 PROVE  /\ Earned(r)
                        /\ \A f \in Sufficient(findings) : f.severity = "blocker" =>
                              AnsweredFor(f, r) \/ Deferred(f, spec.stage)
    BY <1>1 DEF Earns, r
  <1>3. /\ \A c \in Conflicts(reports) : ~c.blocking
        /\ Blocking(items) = {} /\ ~(Cardinality(StandingMajors(items)) >= Quorum)
    BY <1>2, VerdictMeans
  <1>4. DOMAIN reports = spec.roles /\ DOMAIN heard = spec.roles
    BY DEF PassInv, ReviewInv, Waiting
  <1>5. \A f : AnsweredFor(f, r) <=> Settled(f)
    BY <1>1 DEF AnsweredFor, Settled, Discharged, Range
  <1>6. \A f \in findings : f.severity = "blocker" => Settled(f) \/ Deferred(f, spec.stage)
    <2>1. SUFFICES ASSUME NEW f \in findings, f.severity = "blocker",
                          ~Deferred(f, spec.stage), ~Settled(f)
                   PROVE  FALSE
      OBVIOUS
    <2>2. [finding |-> f, disposition |-> "blocking"] \in items
      BY <2>1 DEF Items, Admissible
    <2>3. f \in Blocking(items)
      BY <2>1, <2>2 DEF Blocking
    <2>4. QED
      BY <1>3, <2>3
  <1>7. \A f \in Sufficient(findings) : f \in findings
    BY DEF Sufficient, OfSeverity
  <1>8. ASSUME NEW a \in spec.roles
        PROVE  heard[a].answer.depends \cap Roles \subseteq {a}
    <2>1. SUFFICES ASSUME NEW b \in Roles, b \in heard[a].answer.depends, b # a PROVE FALSE
      OBVIOUS
    <2>2. b \in reports[a].depends
      BY <1>4, <2>1 DEF PassInv, ReviewInv, Reported
    <2>3. PICK pair \in {p \in (DOMAIN reports) \X Roles :
                            p[2] # p[1] /\ p[2] \in reports[p[1]].depends} : pair = <<a, b>>
      BY <1>4, <2>1, <2>2
    <2>4. [kind |-> "declared_dependency", roles |-> {pair[1], pair[2]}, blocking |-> TRUE]
             \in DeclaredDependencies(reports)
      BY <2>3 DEF DeclaredDependencies
    <2>5. PICK c \in DeclaredDependencies(reports) : c.blocking
      BY <2>4
    <2>6. QED
      BY <1>3, <2>5 DEF Conflicts
  <1>9. ASSUME NEW a \in spec.roles, NEW i \in DOMAIN heard[a].answer.findings,
               Grounded(heard[a].answer.findings[i], heard[a].tree)
        PROVE  \E f \in findings :
                  /\ f.by = a /\ f.id = heard[a].answer.findings[i].id /\ f.severity = "blocker"
                  /\ AnsweredFor(f, r) \/ (spec.stage = PreLaunch /\ heard[a].answer.findings[i].measured)
    <2>1. PICK f \in reports[a].findings :
            /\ f.by = a /\ f.id = heard[a].answer.findings[i].id
            /\ f.measured = heard[a].answer.findings[i].measured
            /\ f.severity = "blocker"
      BY <1>4, <1>9 DEF PassInv, ReviewInv, Reported
    <2>2. f \in findings
      BY <1>4, <2>1 DEF Findings
    <2>3. QED
      BY <1>5, <1>6, <2>1, <2>2 DEF Deferred
  <1>10. Cardinality({f \in findings : f.severity = "major" /\ ~AnsweredFor(f, r)}) < Quorum
    <2>1. StandingMajors(items) = {f \in findings : f.severity = "major" /\ ~AnsweredFor(f, r)}
      <3>1. ASSUME NEW f \in StandingMajors(items)
            PROVE  f \in findings /\ f.severity = "major" /\ ~AnsweredFor(f, r)
        BY <1>5, <3>1 DEF StandingMajors, Items, Admissible
      <3>2. ASSUME NEW f \in findings, f.severity = "major", ~AnsweredFor(f, r)
            PROVE  f \in StandingMajors(items)
        <4>1. \E item \in items : item.finding = f
          <5>1. f \in Admissible(findings)
            BY <3>2 DEF Admissible
          <5>2. CASE Deferred(f, spec.stage)
            <6>1. [finding |-> f, disposition |-> "deferred_post_results"] \in items
              BY <5>1, <5>2 DEF Items
            <6>2. QED
              BY <6>1
          <5>3. CASE ~Deferred(f, spec.stage)
            <6>1. [finding |-> f, disposition |-> "non_blocking_tracked"] \in items
              BY <3>2, <5>1, <5>3 DEF Items
            <6>2. QED
              BY <6>1
          <5>4. QED
            BY <5>2, <5>3
        <4>2. QED
          BY <1>5, <3>2, <4>1 DEF StandingMajors
      <3>3. QED
        BY <3>1, <3>2
    <2>2. IsFiniteSet(findings)
      BY DEF PassInv, ReviewInv
    <2>3. Cardinality(StandingMajors(items)) \in Nat
      BY <2>1, <2>2, FS_Subset, FS_CardinalityType
    <2>4. QED
      BY <1>3, <2>1, <2>3 DEF Quorum
  <1>11. Earned(r)
    BY <1>1, <1>4, <1>8, <1>9, <1>10 DEF Earned, PassInv, ReviewInv
  <1>12. QED
    BY <1>5, <1>6, <1>7, <1>11

-----------------------------------------------------------------------------
(* Every step.                                                             *)

LEMMA PassInit == RInit => PassInv
  <1> SUFFICES ASSUME RInit PROVE PassInv
    OBVIOUS
  <1>1. ReviewInv /\ AnswerInv
    BY DEF RInit, ReviewInv, AnswerInv
  <1>2. ResultInv
    BY DEF RInit, ResultInv, Range
  <1>3. StatusInv
    BY DEF RInit, StatusInv
  <1>4. QED
    BY <1>1, <1>2, <1>3 DEF PassInv

\* What an exit or a step outside the review leaves.
LEMMA ExitKeeps ==
  ASSUME PassInv, NEW code \in 1 .. 3, Exit(code), UNCHANGED <<spec, transcripts, results>>,
         written' = [i \in 1 .. Len(Artifacts) |-> written'[i]]
  PROVE  PassInv'
  BY DEF PassInv, ReviewInv, AnswerInv, ResultInv, StatusInv, Exit

LEMMA LaunchKeeps ==
  ASSUME PassInv, LaunchCampaign
  PROVE  PassInv'
  <1>1. CASE Exit(2)
    BY <1>1, ExitKeeps DEF LaunchCampaign, PassInv, StatusInv
  <1>2. CASE /\ Preflight(spec.roles, spec.inputs) /\ step' = "reviewing" /\ status' = 3
             /\ began' = tree /\ UNCHANGED <<reports, heard>>
    <2>1. reports = Nothing /\ heard = Nothing /\ Findings(Nothing) = {} /\ DOMAIN Nothing = {}
      BY DEF LaunchCampaign, PassInv, AnswerInv, Nothing, Findings
    <2>2. Findings(reports') = {} /\ DOMAIN reports' = {} /\ DOMAIN heard' = {}
      BY <1>2, <2>1
    <2>3. \A f \in Declared(spec.inputs) : tree[f] \in {spec.inputs[f], NoFile}
      BY <1>2 DEF Preflight
    <2>4. Findings(reports)' = Findings(reports')
      BY DEF Findings
    <2>5. ReviewInv'
      BY <1>2, <2>2, <2>3, <2>4, FS_EmptySet DEF LaunchCampaign, ReviewInv, Declared
    <2>6. AnswerInv' /\ ResultInv' /\ StatusInv'
      BY <1>2 DEF LaunchCampaign, PassInv, AnswerInv, ResultInv, StatusInv
    <2>7. QED
      BY <2>5, <2>6 DEF PassInv
  <1>3. QED
    BY <1>1, <1>2 DEF LaunchCampaign

LEMMA ReviewKeeps ==
  ASSUME PassInv, Review
  PROVE  PassInv'
  <1>1. PICK role \in Waiting :
          \/ \E answer \in IF spec.live THEN Answers[role] ELSE {transcripts[role]} :
               IF DuplicateIds(answer.findings) THEN Exit(2)
               ELSE /\ reports' = [r \in DOMAIN reports \cup {role} |->
                                     IF r = role THEN Report(role, answer) ELSE reports[r]]
                    /\ heard' = [r \in DOMAIN heard \cup {role} |->
                                   IF r = role THEN [answer |-> answer, tree |-> tree] ELSE heard[r]]
                    /\ UNCHANGED <<step, status, began>>
          \/ \E code \in {1, 2} : Exit(code)
    BY DEF Review
  <1>2. /\ step = "reviewing" /\ UNCHANGED <<spec, transcripts, results, written>>
        /\ written = [i \in 1 .. Len(Artifacts) |-> written[i]]
    BY DEF Review, PassInv, StatusInv
  <1>3. CASE \E code \in {1, 2} : Exit(code)
    BY <1>2, <1>3, ExitKeeps
  <1>4. ASSUME NEW answer \in Answers[role],
               reports' = [r \in DOMAIN reports \cup {role} |->
                             IF r = role THEN Report(role, answer) ELSE reports[r]],
               heard' = [r \in DOMAIN heard \cup {role} |->
                           IF r = role THEN [answer |-> answer, tree |-> tree] ELSE heard[r]],
               UNCHANGED <<step, status, began>>
        PROVE  PassInv'
    <2>1. role \in spec.roles /\ role \in Roles /\ role \notin DOMAIN reports
      BY DEF Waiting, PassInv, AnswerInv
    <2>2. /\ DOMAIN reports' = DOMAIN reports \cup {role}
          /\ DOMAIN heard' = DOMAIN heard \cup {role}
          /\ reports'[role] = Report(role, answer)
          /\ heard'[role] = [answer |-> answer, tree |-> tree]
          /\ \A r \in DOMAIN reports : reports'[r] = reports[r]
          /\ \A r \in DOMAIN heard : r # role => heard'[r] = heard[r]
      BY <1>4, <2>1
    <2>3. /\ DOMAIN reports = DOMAIN heard /\ DOMAIN reports \subseteq spec.roles
          /\ \A r \in DOMAIN reports : Reported(reports[r], heard[r], r)
          /\ IsFiniteSet(Findings(reports))
      BY <1>2 DEF PassInv, ReviewInv
    <2>4. \A r \in DOMAIN reports' : Reported(reports'[r], heard'[r], r)
      BY <2>1, <2>2, <2>3, ReportReports
    <2>5. IsFiniteSet(Findings(reports'))
      <3>1. Findings(reports') = Findings(reports) \cup Report(role, answer).findings
        BY <2>1, <2>2 DEF Findings
      <3>2. IsFiniteSet(Report(role, answer).findings)
        BY <1>4, <2>1, AnswersAssumption, ReportFinite
      <3>3. QED
        BY <2>3, <3>1, <3>2, FS_Union
    <2>6. ReviewInv'
      <3>1. Findings(reports)' = Findings(reports')
        BY DEF Findings
      <3>2. \A r \in DOMAIN reports' : Reported(reports[r], heard[r], r)'
        BY <2>4 DEF Reported, Grounded
      <3>3. DOMAIN reports' = DOMAIN heard' /\ DOMAIN reports' \subseteq spec.roles
        BY <2>1, <2>2, <2>3
      <3>4. \A f \in Declared(spec.inputs) : began[f] \in {spec.inputs[f], NoFile}
        BY <1>2 DEF PassInv, ReviewInv
      <3>5. QED
        BY <1>2, <1>4, <2>5, <3>1, <3>2, <3>3, <3>4 DEF ReviewInv, Declared
    <2>7. AnswerInv' /\ ResultInv' /\ StatusInv'
      BY <1>2, <1>4 DEF PassInv, AnswerInv, ResultInv, StatusInv
    <2>8. QED
      BY <2>6, <2>7 DEF PassInv
  <1>5. role \in Roles
    BY DEF Waiting, PassInv, AnswerInv
  <1>6. \A answer \in IF spec.live THEN Answers[role] ELSE {transcripts[role]} : answer \in Answers[role]
    BY <1>5 DEF PassInv, AnswerInv
  <1>7. CASE Exit(2)
    BY <1>3, <1>7
  <1>8. QED
    BY <1>1, <1>3, <1>4, <1>6, <1>7

LEMMA DecideKeeps ==
  ASSUME PassInv, DecideCampaign
  PROVE  PassInv'
  <1>1. UNCHANGED <<spec, transcripts, written>> /\ step = "reviewing"
        /\ written = [i \in 1 .. Len(Artifacts) |-> written[i]]
    BY DEF DecideCampaign, PassInv, StatusInv
  <1>2. CASE Exit(2) /\ UNCHANGED results
    BY <1>1, <1>2, ExitKeeps
  <1>3. CASE results' = Append(results, Result(reports)) /\ GoOn("writing")
    <2>1. Earns(Result(reports))
      BY DecisionEarns DEF DecideCampaign
    <2>2. results \in Seq(Range(results)) /\ \A k \in DOMAIN results : Earns(results[k])
      BY DEF PassInv, ResultInv
    <2>3. ResultInv'
      <3> DEFINE r == Result(reports)
                 S == Range(results) \cup {r}
      <3> HIDE DEF r
      <3>1. results \in Seq(S)
        BY <2>2
      <3>2. /\ Len(results') = Len(results) + 1 /\ results'[Len(results')] = r
            /\ \A k \in 1 .. Len(results) : results'[k] = results[k]
            /\ results' \in Seq(S) /\ Len(results) \in Nat
        BY <1>3, <3>1 DEF r
      <3>3. \A k \in 1 .. Len(results') : results'[k] \in Range(results')
        BY <3>2 DEF Range
      <3>4. results' \in Seq(Range(results'))
        BY <3>2, <3>3
      <3>5. \A k \in DOMAIN results' : Earns(results'[k])
        BY <2>1, <2>2, <3>1, <3>2 DEF r
      <3>6. \A k \in DOMAIN results' : Earns(results[k])'
        BY <3>5 DEF Earns, Earned, Declared, AnsweredFor, Findings, Grounded, Deferred
      <3>7. QED
        BY <3>4, <3>6 DEF ResultInv, Range
    <2>4. ReviewInv' /\ AnswerInv' /\ StatusInv'
      BY <1>1, <1>3 DEF GoOn, PassInv, ReviewInv, AnswerInv, StatusInv
    <2>5. QED
      BY <2>3, <2>4 DEF PassInv
  <1>4. QED
    BY <1>2, <1>3 DEF DecideCampaign

LEMMA WriteKeeps ==
  ASSUME PassInv, WriteArtifact
  PROVE  PassInv'
  <1>1. PICK i :
          /\ written' = [written EXCEPT ![i] = Len(results)]
          /\ IF Unwritten # {i} THEN GoOn("writing")
             ELSE Exit(IF Last(results).disposition.verdict = "no_blocking_findings" THEN 0 ELSE 1)
    BY DEF WriteArtifact
  <1>2. UNCHANGED <<spec, transcripts, results>> /\ step = "writing"
    BY DEF WriteArtifact
  <1>3. written' = [j \in 1 .. Len(Artifacts) |-> written'[j]]
    BY <1>1 DEF PassInv, StatusInv
  <1>4. CASE Unwritten # {i}
    BY <1>1, <1>2, <1>3, <1>4 DEF GoOn, PassInv, ReviewInv, AnswerInv, ResultInv, StatusInv
  <1>5. CASE Unwritten = {i}
    <2>1. \A j \in DOMAIN written : written'[j] = Len(results)
      BY <1>1, <1>5 DEF Unwritten, PassInv, StatusInv
    <2>2. DOMAIN written' = DOMAIN written
      BY <1>1
    <2>3. StatusInv'
      BY <1>1, <1>2, <1>3, <1>5, <2>1, <2>2 DEF Exit, StatusInv
    <2>4. ReviewInv' /\ AnswerInv' /\ ResultInv'
      BY <1>1, <1>2, <1>5 DEF Exit, PassInv, ReviewInv, AnswerInv, ResultInv
    <2>5. QED
      BY <2>3, <2>4 DEF PassInv
  <1>6. QED
    BY <1>4, <1>5

LEMMA KillKeeps ==
  ASSUME PassInv, KillCampaign
  PROVE  PassInv'
  <1>1. written' = [i \in 1 .. Len(Artifacts) |-> written'[i]]
    BY DEF KillCampaign, PassInv, StatusInv
  <1>2. QED
    BY <1>1, ExitKeeps DEF KillCampaign

LEMMA EditKeeps ==
  ASSUME PassInv, EditInput
  PROVE  PassInv'
  <1>1. UNCHANGED <<spec, transcripts, step, reports, heard, began, results, written, status>>
    BY DEF EditInput
  <1>2. ReviewInv'
    BY <1>1 DEF PassInv, ReviewInv, Reported, Grounded, Findings, Declared
  <1>3. QED
    BY <1>1, <1>2 DEF PassInv, AnswerInv, ResultInv, StatusInv

LEMMA ReviseKeeps ==
  ASSUME PassInv, ReviseSpec
  PROVE  PassInv'
  <1>1. /\ step = "idle"
        /\ UNCHANGED <<transcripts, step, reports, heard, began, results, written, status>>
    BY DEF ReviseSpec
  <1>2. "roles" \in DOMAIN spec' /\ spec'.roles = spec.roles
    BY DEF ReviseSpec, PassInv, AnswerInv
  <1>3. QED
    BY <1>1, <1>2 DEF PassInv, ReviewInv, AnswerInv, ResultInv, StatusInv

LEMMA PassStep == PassInv /\ [RNext]_rvars => PassInv'
  <1> SUFFICES ASSUME PassInv, [RNext]_rvars PROVE PassInv'
    OBVIOUS
  <1>1. CASE UNCHANGED rvars
    BY <1>1 DEF rvars, PassInv, ReviewInv, AnswerInv, ResultInv, StatusInv
  <1>2. QED
    BY <1>1, LaunchKeeps, ReviewKeeps, DecideKeeps, WriteKeeps, KillKeeps, EditKeeps, ReviseKeeps
    DEF RNext

LEMMA PassHolds == PassInv => PassIsEarned
  BY DEF PassInv, ResultInv, Earns, StatusInv, PassIsEarned

(* A passing disposition was earned, and an exit status of 0 means that all  *)
(* six artifacts are of the run that passed (run_campaign, decide,            *)
(* write_campaign), for any reviewers, files, answers, edits and number of    *)
(* runs.                                                                     *)
THEOREM PassIsAlwaysEarned == RSpec => []PassIsEarned
  BY PassInit, PassStep, PassHolds, PTL DEF RSpec
=============================================================================
