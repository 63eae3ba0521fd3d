------------------------- MODULE UnblindTransaction -------------------------
(***************************************************************************)
(* The Task-6 controller of the resampling study (task6_state.py,          *)
(* blinding.py, and write_record of artifacts.py).  Processes of one run   *)
(* root write protected records (the analysis freeze and the task blocks,  *)
(* without a lock), seal the blinded projection, and unblind: the last two *)
(* hold the controller's flock.  Unblinding marks the run as               *)
(* outcome-tainted, opens the clear ledger, and publishes the unblind      *)
(* receipt and the analysis as a pair through a journal, two private       *)
(* staging files and two hard links.  A process may be killed between any  *)
(* two steps; what it wrote stays and its lock is released.                *)
(***************************************************************************)
EXTENDS Naturals, Sequences

CONSTANTS
    Procs,        \* controller processes
    Paths,        \* record destinations below the run root
    PairPaths,    \* the ones named for the receipt and the analysis
    RecordPaths,  \* for each protected kind, the ones named for its records
    None, Torn


(* Record kinds that are refused once the run is tainted, and those of     *)
(* which validate_scientific_graph accepts one at most.                    *)
Protected == {"freeze", "task_block", "projection"}
Singletons == {"freeze", "projection", "receipt", "analysis"}
Kinds == Protected \cup Singletons

ASSUME PathsAssumption ==
    PairPaths \subseteq Paths /\ RecordPaths \in [Protected -> SUBSET Paths]
ASSUME ValuesAssumption ==
    None # Torn /\ None \notin Procs \cup Kinds /\ "whole" \notin {None, Torn}

VARIABLES
    files,    \* scientific namespace: the kind of record at each destination
    journal,  \* paired-publication.json: None, Torn, or the paths and bound identities
    temp,     \* the pair's private staging files: None, Torn or "whole"
    taint,    \* outcome-tainted.json exists
    lock,     \* holder of the controller's flock
    pc,       \* where each process stands
    job,      \* its call: the operation and its destinations
    goal,     \* why it runs recover_paired_publication
    todo,     \* the files that recovery still has to unlink
    reads     \* history: how often the clear ledger was opened

disk == <<files, journal, temp, taint>>
vars == <<disk, lock, pc, job, goal, todo, reads>>

Publishing == {"prepare", "write_temp", "bind", "install", "linked"}
Locked == {"recover", "sweep", "stage", "analyse", "journal", "write_journal",
           "seal"}
Labels == Publishing \cup Locked \cup
          {"idle", "wait", "check", "publish", "returned", "raised"}

(* The pair: entry 1 is the receipt, entry 2 the analysis.                 *)
Entries == 1 .. 2
KindOf == <<"receipt", "analysis">>
Journal == [path : [Entries -> Paths], bound : [Entries -> BOOLEAN]]
ASSUME JournalAssumption == None \notin Journal /\ Torn \notin Journal

Jobs ==
    [op : {"unblind"}, pair : [Entries -> PairPaths], entry : Entries]
    \cup {j \in [op : {"record"}, kind : Protected, path : Paths] :
              j.path \in RecordPaths[j.kind]}

Init ==
    /\ files = [x \in Paths |-> None]
    /\ journal = None
    /\ temp = [i \in Entries |-> None]
    /\ taint = FALSE
    /\ lock = None
    /\ pc = [p \in Procs |-> "idle"]
    /\ job = [p \in Procs |-> None]
    /\ goal = [p \in Procs |-> "entry"]
    /\ todo = [p \in Procs |-> <<>>]
    /\ reads = 0

Goto(p, label) == pc' = [pc EXCEPT ![p] = label]
Unlocked(p) == IF lock = p THEN None ELSE lock
(* A faulty context manager, for mutation: an exception keeps the lock.    *)
LeaveUnlessRaised(p, label) ==
    Goto(p, label) /\ lock' = IF label = "raised" THEN lock ELSE Unlocked(p)

(* The call returns to its caller: the context manager drops the lock.     *)
Leave(p, label) == Goto(p, label) /\ lock' = Unlocked(p)
Present(kind) == \E x \in Paths : files[x] = kind
Occurs(kind) == {x \in Paths : files[x] = kind}

(* validate_scientific_graph and validate_preunblind_graph: no singleton   *)
(* kind occurs twice.                                                      *)
GraphValid == \A k \in Singletons : \A x, y \in Occurs(k) : x = y

Call(p, j) ==
    /\ pc[p] = "idle"
    /\ j.op = "unblind" => j.entry = 1
    /\ job' = [job EXCEPT ![p] = j]
    /\ Goto(p, IF j.op = "record" /\ j.kind # "projection" THEN "check" ELSE "wait")
    /\ UNCHANGED <<disk, lock, goal, todo, reads>>

(* task6_controller_lock: a blocking flock.                                *)
AcquireLock(p) ==
    /\ pc[p] = "wait"
    /\ lock = None
    /\ lock' = p
    /\ Goto(p, IF job[p].op = "unblind" THEN "recover" ELSE "seal")
    /\ goal' = [goal EXCEPT ![p] = "entry"]
    /\ UNCHANGED <<disk, job, todo, reads>>

-----------------------------------------------------------------------------
(* Protected records.                                                      *)

(* write_record refuses a protected kind in a tainted run and an existing  *)
(* destination; a task block needs the freeze it descends from.            *)
Writable(kind, x) ==
    /\ ~taint
    /\ files[x] = None
    /\ kind = "task_block" => Present("freeze")

CheckRecord(p) ==
    /\ pc[p] = "check"
    /\ Goto(p, IF Writable(job[p].kind, job[p].path) THEN "publish" ELSE "raised")
    /\ UNCHANGED <<disk, lock, job, goal, todo, reads>>

(* A faulty check, for mutation: the singleton scan is dropped.            *)
ProjectionAllowedAgain ==
    GraphValid /\ Present("freeze") /\ Present("task_block")

(* The checks of seal_blinded_projection: the projection is a run-wide     *)
(* singleton, the graph is valid and its parents exist.                    *)
ProjectionAllowed ==
    ~Present("projection") /\ GraphValid /\ Present("freeze") /\ Present("task_block")

CheckProjection(p) ==
    /\ pc[p] = "seal"
    /\ IF ProjectionAllowed /\ Writable("projection", job[p].path)
         THEN Goto(p, "publish") /\ UNCHANGED lock
         ELSE Leave(p, "raised")
    /\ UNCHANGED <<disk, job, goal, todo, reads>>

(* write_atomic_json installs by os.replace: whatever appeared at the      *)
(* destination since the check is replaced.                                *)
PublishRecord(p) ==
    /\ pc[p] = "publish"
    /\ files' = [files EXCEPT ![job[p].path] = job[p].kind]
    /\ Leave(p, "returned")
    /\ UNCHANGED <<journal, temp, taint, job, goal, todo, reads>>

-----------------------------------------------------------------------------
(* Recovery of a paired publication.                                       *)

Targets == {i \in Entries : files[journal.path[i]] # None}
Staged == {i \in Entries : temp[i] # None}

(* _owned: the name carries the journaled inode with the journaled bytes.  *)
OwnedTarget(i) == journal.bound[i] /\ files[journal.path[i]] = KindOf[i]
OwnedTemp(i) == journal.bound[i] => temp[i] = "whole"

Ordered(kind, S) ==
    (IF 1 \in S THEN <<[kind |-> kind, entry |-> 1]>> ELSE <<>>) \o
    (IF 2 \in S THEN <<[kind |-> kind, entry |-> 2]>> ELSE <<>>)

(* A faulty recovery, for mutation: a complete pair is erased as well.     *)
SweepEverything == Ordered("target", Targets) \o Ordered("temp", Staged)

(* A complete pair only loses its staging files; a partial one is erased.  *)
SweepList ==
    IF Targets = Entries
    THEN Ordered("temp", Staged)
    ELSE Ordered("target", Targets) \o Ordered("temp", Staged)

AfterRecovery(p) ==
    CASE goal[p] = "entry"  -> Goto(p, "stage") /\ UNCHANGED lock
      [] goal[p] = "finish" -> Leave(p, "returned")
      [] goal[p] = "abort"  -> Leave(p, "raised")

Recover(p) ==
    /\ pc[p] = "recover"
    /\ \/ journal = None /\ AfterRecovery(p) /\ UNCHANGED todo
       \/ journal = Torn /\ Leave(p, "raised") /\ UNCHANGED todo
       \/ /\ journal \notin {None, Torn}
          /\ \/ \E i \in Targets : ~OwnedTarget(i)
             \/ \E i \in Staged : ~OwnedTemp(i)
          /\ Leave(p, "raised")
          /\ UNCHANGED todo
       \/ /\ journal \notin {None, Torn}
          /\ \A i \in Targets : OwnedTarget(i)
          /\ \A i \in Staged : OwnedTemp(i)
          /\ todo' = [todo EXCEPT ![p] = SweepList]
          /\ Goto(p, "sweep")
          /\ UNCHANGED lock
    /\ UNCHANGED <<disk, job, goal, reads>>

(* A faulty recovery, for mutation: the journal is dropped before the      *)
(* files it names.                                                         *)
SweepJournalFirst(p) ==
    /\ pc[p] = "sweep"
    /\ journal' = None
    /\ AfterRecovery(p)
    /\ UNCHANGED <<files, temp, todo, taint, job, goal, reads>>

(* One _unlink_fsynced; the journal goes last.                             *)
Sweep(p) ==
    /\ pc[p] = "sweep"
    /\ IF todo[p] # <<>>
         THEN LET f == Head(todo[p])
              IN  /\ files' = IF f.kind = "target"
                              THEN [files EXCEPT ![journal.path[f.entry]] = None]
                              ELSE files
                  /\ temp' = IF f.kind = "temp"
                             THEN [temp EXCEPT ![f.entry] = None]
                             ELSE temp
                  /\ todo' = [todo EXCEPT ![p] = Tail(todo[p])]
                  /\ UNCHANGED <<journal, lock, pc>>
         ELSE /\ journal' = None
              /\ AfterRecovery(p)
              /\ UNCHANGED <<files, temp, todo>>
    /\ UNCHANGED <<taint, job, goal, reads>>

-----------------------------------------------------------------------------
(* Unblinding.                                                             *)

(* The checks up to the permit: no receipt yet, both destinations free and *)
(* different, a valid graph with the projection the permit names.          *)
Unblindable(p) ==
    /\ ~Present("receipt")
    /\ \A i \in Entries : files[job[p].pair[i]] = None
    /\ job[p].pair[1] # job[p].pair[2]
    /\ GraphValid
    /\ Present("projection")

(* A faulty stage, for mutation: an existing marker is accepted.           *)
StageUnblindAgain(p) ==
    /\ pc[p] = "stage"
    /\ IF Unblindable(p)
         THEN taint' = TRUE /\ Goto(p, "analyse") /\ UNCHANGED lock
         ELSE UNCHANGED taint /\ Leave(p, "raised")
    /\ UNCHANGED <<files, journal, temp, job, goal, todo, reads>>

(* mark_outcome_tainted creates the marker exclusively, before the ledger  *)
(* is opened.                                                              *)
StageUnblind(p) ==
    /\ pc[p] = "stage"
    /\ IF Unblindable(p) /\ ~taint
         THEN taint' = TRUE /\ Goto(p, "analyse") /\ UNCHANGED lock
         ELSE UNCHANGED taint /\ Leave(p, "raised")
    /\ UNCHANGED <<files, journal, temp, job, goal, todo, reads>>

(* The full graph is validated, the clear ledger is parsed and the         *)
(* analysis is built in memory.                                            *)
Analyse(p) ==
    /\ pc[p] = "analyse"
    /\ IF GraphValid
         THEN reads' = reads + 1 /\ Goto(p, "journal") /\ UNCHANGED lock
         ELSE UNCHANGED reads /\ Leave(p, "raised")
    /\ UNCHANGED <<disk, job, goal, todo>>

(* begin_paired_publication writes the journal in place.                   *)
CreateJournal(p) ==
    /\ pc[p] = "journal"
    /\ IF journal = None /\ \A i \in Entries : files[job[p].pair[i]] = None
         THEN /\ journal' = Torn
              /\ Goto(p, "write_journal")
              /\ UNCHANGED lock
         ELSE UNCHANGED journal /\ Leave(p, "raised")
    /\ UNCHANGED <<files, temp, taint, job, goal, todo, reads>>

FinishJournal(p) ==
    /\ pc[p] = "write_journal"
    /\ journal' = [path |-> job[p].pair, bound |-> [i \in Entries |-> FALSE]]
    /\ job' = [job EXCEPT ![p].entry = 1]
    /\ Goto(p, "prepare")
    /\ UNCHANGED <<files, temp, taint, lock, goal, todo, reads>>

(* An exception inside the publication is answered by recovery.            *)
Abort(p) == Goto(p, "recover") /\ goal' = [goal EXCEPT ![p] = "abort"]

Entry(p) == job[p].entry

(* prepare_paired_publication_entry: create the staging file, write it,    *)
(* and replace the journal by one that names its inode.                    *)
Prepare(p) ==
    /\ pc[p] = "prepare"
    /\ IF files[journal.path[Entry(p)]] = None /\ temp[Entry(p)] = None
         THEN /\ temp' = [temp EXCEPT ![Entry(p)] = Torn]
              /\ Goto(p, "write_temp")
              /\ UNCHANGED goal
         ELSE UNCHANGED temp /\ Abort(p)
    /\ UNCHANGED <<files, journal, taint, lock, job, todo, reads>>

WriteTemp(p) ==
    /\ pc[p] = "write_temp"
    /\ temp' = [temp EXCEPT ![Entry(p)] = "whole"]
    /\ Goto(p, "bind")
    /\ UNCHANGED <<files, journal, taint, lock, job, goal, todo, reads>>

BindTemp(p) ==
    /\ pc[p] = "bind"
    /\ journal' = [journal EXCEPT !.bound[Entry(p)] = TRUE]
    /\ job' = [job EXCEPT ![p].entry = IF Entry(p) = 1 THEN 2 ELSE 1]
    /\ Goto(p, IF Entry(p) = 1 THEN "prepare" ELSE "install")
    /\ UNCHANGED <<files, temp, taint, lock, goal, todo, reads>>

(* install_paired_publication_entry: os.link never replaces a target.      *)
Install(p) ==
    /\ pc[p] = "install"
    /\ IF /\ journal.bound[Entry(p)] /\ temp[Entry(p)] = "whole"
          /\ files[journal.path[Entry(p)]] = None
         THEN /\ files' = [files EXCEPT ![journal.path[Entry(p)]] = KindOf[Entry(p)]]
              /\ Goto(p, "linked")
              /\ UNCHANGED goal
         ELSE UNCHANGED files /\ Abort(p)
    /\ UNCHANGED <<journal, temp, taint, lock, job, todo, reads>>

(* After the link: fsync of the directory and the second ownership check.  *)
Linked(p) ==
    /\ pc[p] = "linked"
    /\ IF ~OwnedTarget(Entry(p))
         THEN Abort(p) /\ UNCHANGED job
         ELSE IF Entry(p) = 1
         THEN job' = [job EXCEPT ![p].entry = 2] /\ Goto(p, "install") /\ UNCHANGED goal
         ELSE Goto(p, "recover") /\ goal' = [goal EXCEPT ![p] = "finish"] /\ UNCHANGED job
    /\ UNCHANGED <<disk, lock, todo, reads>>

-----------------------------------------------------------------------------
(* Failures.                                                               *)

(* An I/O error or a failed validation: inside the publication it leads to *)
(* the synchronous abort, elsewhere out of the call.                       *)
Fail(p) ==
    /\ \/ pc[p] \in Publishing /\ Abort(p) /\ UNCHANGED lock
       \/ pc[p] \in Locked \cup {"publish"} /\ Leave(p, "raised") /\ UNCHANGED goal
    /\ UNCHANGED <<disk, job, todo, reads>>

Forget(p) ==
    /\ Leave(p, "idle")
    /\ job' = [job EXCEPT ![p] = None]
    /\ goal' = [goal EXCEPT ![p] = "entry"]
    /\ todo' = [todo EXCEPT ![p] = <<>>]
    /\ UNCHANGED <<disk, reads>>

Return(p) == pc[p] \in {"returned", "raised"} /\ Forget(p)

(* The process is killed; the kernel releases its flock.                   *)
Crash(p) == pc[p] \notin {"idle", "returned", "raised"} /\ Forget(p)

Step(p) ==
    \/ CheckRecord(p) \/ CheckProjection(p) \/ PublishRecord(p)
    \/ Recover(p) \/ Sweep(p)
    \/ StageUnblind(p) \/ Analyse(p)
    \/ CreateJournal(p) \/ FinishJournal(p)
    \/ Prepare(p) \/ WriteTemp(p) \/ BindTemp(p)
    \/ Install(p) \/ Linked(p)

Next ==
    \E p \in Procs :
        \/ \E j \in Jobs : Call(p, j)
        \/ AcquireLock(p)
        \/ Step(p)
        \/ Fail(p)
        \/ Return(p)
        \/ Crash(p)

Spec == Init /\ [][Next]_vars

(* A process that is scheduled keeps taking the next step of its call.     *)
FairSpec == Spec /\ \A p \in Procs : WF_vars(Step(p))

-----------------------------------------------------------------------------
(* Properties.                                                             *)

(* The run root's files and the controllers' variables have their types.   *)
TypeOK ==
    /\ files \in [Paths -> Kinds \cup {None}]
    /\ journal \in Journal \cup {None, Torn}
    /\ temp \in [Entries -> {None, Torn, "whole"}]
    /\ taint \in BOOLEAN
    /\ lock \in Procs \cup {None}
    /\ pc \in [Procs -> Labels]
    /\ job \in [Procs -> Jobs \cup {None}]
    /\ goal \in [Procs -> {"entry", "finish", "abort"}]
    /\ todo \in [Procs -> Seq([kind : {"target", "temp"}, entry : Entries])]
    /\ reads \in Nat

(* A journaled transaction that is over leaves no private staging file     *)
(* behind: recovery unlinks them all before it unlinks the journal.        *)
NoOrphanStaging == journal = None => \A i \in Entries : temp[i] = None

(* The clear ledger is opened once in the life of a run root, over all     *)
(* processes, crashes and retries: the taint marker is exclusive and set   *)
(* before the first decode.                                                *)
ClearReadOnce == reads <= 1

(* seal_blinded_projection publishes one projection: its scan of the run   *)
(* root and its write share the controller lock.                           *)
OneProjection == \A x, y \in Occurs("projection") : x = y

(* What the program does at most once in the life of a run root, over all  *)
(* processes, crashes and retries: open the clear ledger, and publish the  *)
(* blinded projection.                                                     *)
OnceEach == ClearReadOnce /\ OneProjection

(* The study as its readers see it.                                        *)
PairPublished == Present("receipt") /\ Present("analysis")
Study == IF ~taint THEN "blinded" ELSE IF PairPublished THEN "published" ELSE "exposed"
Record == INSTANCE ResultOfRecord WITH study <- Study

(* The detailed controller implements the promise: blinded, then exposed,  *)
(* then, once and for good, published.                                     *)
ImplementsResultOfRecord == Record!Spec

(* A call that took the controller lock gives it back.                     *)
LockReleased == \A p \in Procs : lock = p ~> lock # p
=============================================================================
