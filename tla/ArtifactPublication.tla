------------------------- MODULE ArtifactPublication -------------------------
(***************************************************************************)
(* Bundles of files replaced in place (foundation/artifacts.py).  A writer *)
(* binds the output directory, then for each file moves the present one to *)
(* a backup name, writes a temporary and renames it over the name.  It     *)
(* verifies everything and commits, or puts the backups back.  A reader    *)
(* holds a descriptor of every file of a set while it reads them and then  *)
(* shows that the names still mean those descriptors.  Nobody takes a      *)
(* lock; the directory may be renamed away and back by its operator, any   *)
(* call may fail, and a writer may be killed between two calls.            *)
(*                                                                         *)
(* Abstractions: a file is named by the transaction that wrote it; a       *)
(* rename changes its ctime, and so its signature.  The chain              *)
(* of directory handles, mounts and protected roots is one fact, whether   *)
(* the path resolves to the bound directory.  Temporary names are random   *)
(* and read by nobody.                                                     *)
(***************************************************************************)
EXTENDS Naturals, Sequences, FiniteSets

CONSTANTS
    Writers,    \* publication transactions, each of a process of its own
    Base,       \* who wrote the files that exist beforehand
    NumNames,   \* the bundle's files are 1 .. NumNames
    MaxMoves,   \* bound: renames of the directory
    Overlap,    \* whether transactions on one bundle may be open at once
    None

ASSUME NamesAssumption == 
    NumNames \in Nat \ {0} /\ MaxMoves \in Nat /\ Overlap \in BOOLEAN
ASSUME WritersAssumption == Base \notin Writers /\ None \notin Writers \cup {Base}

VARIABLES
    files,    \* the file each name of the bundle stands for
    backup,   \* writer -> name -> file under its backup name
    home,     \* the path resolves to the bound directory
    moves,    \* renames of the directory so far
    pc,       \* where each writer stands
    rec,      \* _published: the records of a transaction, in order
    held,     \* identity a writer saw before it moved the target
    at,       \* index of the record a writer verifies, cleans or rolls back
    pend,     \* records whose rollback failed
    rpc,      \* the reader: its phase and the name it is at
    hold,     \* the reader's descriptors
    fresh,    \* the ones that still have the signature it took
    snap,     \* history: the names when the reader had read the last file
    record,   \* history: the files of the last commit
    before    \* history: the names when a writer bound

readerVars == <<rpc, hold, fresh, snap>>
vars == <<files, backup, home, moves, pc, rec, held, at, pend,
          readerVars, record, before>>

Names == 1 .. NumNames
File == (Writers \cup {Base}) \X Names
Record == [name : Names, backed : BOOLEAN, published : BOOLEAN]
Ended == {"committed", "raised", "incomplete", "dead"}
Phases == {"idle", "open", "read", "again", "stat", "accepted"}

Goto(w, label) == pc' = [pc EXCEPT ![w] = label]
Last(w) == Len(rec[w])
Flipped(r, field) ==
    IF field = "backed" THEN [r EXCEPT !.backed = ~r.backed]
                        ELSE [r EXCEPT !.published = ~r.published]
Mark(w, i, field) == rec' = [rec EXCEPT ![w][i] = Flipped(@, field)]
Renamed(f) ==
    /\ fresh' = {n \in fresh : hold[n] # f}
    /\ UNCHANGED <<rpc, hold, snap>>

\* _verify_authorized_location: the chain of directories from the anchor is the
\* bound one, on one mount, and below no protected root.
Located == home

\* The process leaves the transaction and its locals are gone.
End(w, label) ==
    /\ Goto(w, label)
    /\ rec' = [rec EXCEPT ![w] = <<>>]
    /\ held' = [held EXCEPT ![w] = None]
    /\ at' = [at EXCEPT ![w] = 0]
    /\ pend' = [pend EXCEPT ![w] = {}]
    /\ before' = [before EXCEPT ![w] = [n \in Names |-> None]]

Init ==
    /\ files \in [Names -> {None}] \cup {[n \in Names |-> <<Base, n>>]}
    /\ backup = [w \in Writers |-> [n \in Names |-> None]]
    /\ home = TRUE /\ moves = 0
    /\ pc = [w \in Writers |-> "idle"]
    /\ rec = [w \in Writers |-> <<>>]
    /\ held = [w \in Writers |-> None]
    /\ at = [w \in Writers |-> 0]
    /\ pend = [w \in Writers |-> {}]
    /\ rpc = <<"idle", 1>>
    /\ hold = [n \in Names |-> None]
    /\ fresh = {}
    /\ snap = [n \in Names |-> None]
    /\ record = files
    /\ before = [w \in Writers |-> [n \in Names |-> None]]

-----------------------------------------------------------------------------
(* The transaction.                                                        *)

\* bind: open and remember every directory on the path; the location must be
\* the authorized one.
Bind(w) ==
    /\ pc[w] = "idle" /\ Located
    /\ Overlap \/ \A v \in Writers : pc[v] \in Ended \cup {"idle"}
    /\ Goto(w, "open")
    /\ before' = [before EXCEPT ![w] = files]
    /\ UNCHANGED <<files, backup, home, moves, rec, held, at, pend,
                   readerVars, record>>

\* An exception in the body or in the final verification: the caller's
\* context manager rolls back, from the last record to the first.
Raise(w) ==
    /\ Goto(w, "rollback")
    /\ at' = [at EXCEPT ![w] = Last(w)]

\* write_bytes of a name not yet written: a new record, then the target is
\* opened for its identity if it exists.
Begin(w, n) ==
    /\ pc[w] = "open" /\ Located
    /\ \A i \in 1 .. Last(w) : rec[w][i].name # n
    /\ rec' = [rec EXCEPT ![w] = Append(@, [name |-> n, backed |-> FALSE, published |-> FALSE])]
    /\ held' = [held EXCEPT ![w] = files[n]]
    /\ Goto(w, IF files[n] = None THEN "replace" ELSE "backup")
    /\ UNCHANGED <<files, backup, home, moves, at, pend, readerVars,
                   record, before>>

Current(w) == rec[w][Last(w)].name

\* _backup_existing_target: rename, then compare the identity of what was moved.
Backup(w) ==
    LET n == Current(w) IN
    /\ pc[w] = "backup"
    /\ \/ /\ files[n] = None
          /\ Raise(w) /\ UNCHANGED <<files, backup, rec, readerVars>>
       \/ /\ files[n] # None
          /\ files' = [files EXCEPT ![n] = None]
          /\ backup' = [backup EXCEPT ![w][n] = files[n]]
          /\ Renamed(files[n])
          /\ Mark(w, Last(w), "backed")
          /\ IF Located /\ files[n] = held[w]
               THEN Goto(w, "replace") /\ UNCHANGED at
               ELSE Raise(w)
    /\ UNCHANGED <<home, moves, held, pend, record, before>>

\* The temporary was written and synced; os.replace in the directory the path
\* resolves to now.
Replace(w) ==
    LET n == Current(w) IN
    /\ pc[w] = "replace" /\ Located
    /\ files' = [files EXCEPT ![n] = <<w, n>>]
    /\ Renamed(<<w, n>>)
    /\ Mark(w, Last(w), "published")
    /\ Goto(w, "digest")
    /\ UNCHANGED <<backup, home, moves, held, at, pend, record, before>>

\* The published name is read back.
Digest(w) ==
    /\ pc[w] = "digest"
    /\ \/ Located /\ files[Current(w)] = <<w, Current(w)>> /\ Goto(w, "open") /\ UNCHANGED at
       \/ files[Current(w)] # <<w, Current(w)>> /\ Raise(w)
    /\ UNCHANGED <<files, backup, home, moves, rec, held, pend, readerVars,
                   record, before>>

\* The body ended: commit verifies the location and then each record.
BeginCommit(w) ==
    /\ pc[w] = "open" /\ Located /\ rec[w] # <<>>
    /\ Goto(w, "verify")
    /\ at' = [at EXCEPT ![w] = 1]
    /\ UNCHANGED <<files, backup, home, moves, rec, held, pend, readerVars,
                   record, before>>

\* A faulty order, for mutation: the backups go before the verification.
VerifyCleaning(w) ==
    LET n == rec[w][at[w]].name IN
    /\ pc[w] = "verify" /\ at[w] <= Last(w)
    /\ files[n] = <<w, n>> /\ at' = [at EXCEPT ![w] = @ + 1]
    /\ backup' = [backup EXCEPT ![w][n] = None]
    /\ UNCHANGED <<files, home, moves, pc, rec, held, pend, readerVars,
                   record, before>>

\* One record: the bytes under its name are read again.
Verify(w) ==
    LET n == rec[w][at[w]].name IN
    /\ pc[w] = "verify" /\ at[w] <= Last(w)
    /\ \/ Located /\ files[n] = <<w, n>> /\ at' = [at EXCEPT ![w] = @ + 1] /\ UNCHANGED pc
       \/ files[n] # <<w, n>> /\ Raise(w)
    /\ UNCHANGED <<files, backup, home, moves, rec, held, pend, readerVars,
                   record, before>>

\* The last check of the location is the commit point.
Commit(w) ==
    /\ pc[w] = "verify" /\ at[w] > Last(w) /\ Located
    /\ record' = [n \in Names |->
                    IF \E i \in 1 .. Last(w) : rec[w][i].name = n THEN <<w, n>> ELSE record[n]]
    /\ Goto(w, "cleanup")
    /\ at' = [at EXCEPT ![w] = 1]
    /\ UNCHANGED <<files, backup, home, moves, rec, held, pend, readerVars,
                   before>>

\* _postcommit_cleanup: a backup that cannot be removed stays.
Cleanup(w) ==
    /\ pc[w] = "cleanup"
    /\ \/ /\ at[w] <= Last(w)
          /\ \/ backup' = [backup EXCEPT ![w][rec[w][at[w]].name] = None]
             \/ UNCHANGED backup
          /\ at' = [at EXCEPT ![w] = @ + 1]
          /\ UNCHANGED <<pc, rec, held, pend, before>>
       \/ at[w] > Last(w) /\ End(w, "committed") /\ UNCHANGED backup
    /\ UNCHANGED <<files, home, moves, readerVars, record>>

\* Any call of the body or of the verification may raise.
Fail(w) ==
    /\ pc[w] \in {"open", "backup", "replace", "digest", "verify"}
    /\ Raise(w)
    /\ UNCHANGED <<files, backup, home, moves, rec, held, pend, readerVars,
                   record, before>>

-----------------------------------------------------------------------------
(* Rollback.  Names are used as they are: whoever's file a name stands for *)
(* is unlinked, and the backup is renamed over it.                         *)

\* The next record, from the last to the first; then the failed ones again.
Down(w) == at' = [at EXCEPT ![w] = @ - 1]

\* A call of _rollback_record fails: the record is left for later.
Postpone(w) ==
    /\ pc[w] = "rollback" /\ at[w] > 0
    /\ pend' = [pend EXCEPT ![w] = @ \cup {at[w]}]
    /\ Down(w)
    /\ UNCHANGED <<files, backup, home, moves, pc, rec, held, readerVars,
                   record, before>>

\* The record at[w] in a first rollback or in the one after a new binding.
Undoing(w) == pc[w] \in {"rollback", "retry"} /\ at[w] > 0

\* A faulty rollback, for mutation: a missing target counts as not published.
UndoPublishedOnly(w) ==
    LET n == rec[w][at[w]].name IN
    /\ Undoing(w) /\ rec[w][at[w]].published
    /\ files' = [files EXCEPT ![n] = None]
    /\ rec' = [rec EXCEPT ![w][at[w]] = [@ EXCEPT !.published = FALSE, !.backed = FALSE]]
    /\ UNCHANGED <<backup, home, moves, pc, held, at, pend, readerVars,
                   record, before>>

\* _unlink of a published name; a first rollback refuses a missing one.
UndoPublished(w) ==
    LET n == rec[w][at[w]].name IN
    /\ Undoing(w) /\ rec[w][at[w]].published
    /\ pc[w] = "retry" \/ files[n] # None
    /\ files' = [files EXCEPT ![n] = None]
    /\ Mark(w, at[w], "published")
    /\ UNCHANGED <<backup, home, moves, pc, held, at, pend, readerVars,
                   record, before>>

\* _rename of the backup over its name.
Restore(w) ==
    LET n == rec[w][at[w]].name IN
    /\ Undoing(w) /\ ~rec[w][at[w]].published /\ rec[w][at[w]].backed
    /\ files' = [files EXCEPT ![n] = backup[w][n]]
    /\ backup' = [backup EXCEPT ![w][n] = None]
    /\ Renamed(backup[w][n])
    /\ Mark(w, at[w], "backed")
    /\ UNCHANGED <<home, moves, pc, held, at, pend, record, before>>

\* The record is undone; a retry only visits the postponed ones.
Undone(w) ==
    /\ Undoing(w)
    /\ \/ ~rec[w][at[w]].published /\ ~rec[w][at[w]].backed
       \/ pc[w] = "retry" /\ at[w] \notin pend[w]
    /\ Down(w)
    /\ UNCHANGED <<files, backup, home, moves, pc, rec, held, pend, readerVars,
                   record, before>>

\* The first rollback is over: done, or bind again where the directory is now.
Rebind(w) ==
    /\ pc[w] = "rollback" /\ at[w] = 0
    /\ \/ pend[w] = {} /\ End(w, "raised")
       \/ /\ pend[w] # {} /\ Located
          /\ Goto(w, "retry") /\ at' = [at EXCEPT ![w] = Last(w)]
          /\ UNCHANGED <<rec, held, pend, before>>
    /\ UNCHANGED <<files, backup, home, moves, readerVars, record>>

\* The second binding commits: it published nothing and checks the location.
Rebound(w) ==
    /\ pc[w] = "retry" /\ at[w] = 0 /\ Located
    /\ End(w, "raised")
    /\ UNCHANGED <<files, backup, home, moves, readerVars, record>>

\* A failure of the second binding is raised as an incomplete rollback.
GiveUp(w) ==
    /\ pc[w] = "retry" \/ (pc[w] = "rollback" /\ at[w] = 0 /\ pend[w] # {})
    /\ End(w, "incomplete")
    /\ UNCHANGED <<files, backup, home, moves, readerVars, record>>

\* The writer is killed.
Crash(w) ==
    /\ pc[w] \notin Ended \cup {"idle"}
    /\ End(w, "dead")
    /\ UNCHANGED <<files, backup, home, moves, readerVars, record>>

-----------------------------------------------------------------------------
(* The reader, read_bytes_set.                                             *)

Linked(f) == (\E n \in Names : files[n] = f) \/ \E w \in Writers, n \in Names : backup[w][n] = f
writerVars == <<files, backup, home, moves, pc, rec, held, at, pend,
                record, before>>

\* A faulty signature, for mutation: the inode without its change time.
SameInode(n) == Linked(hold[n])

\* _bound_read_signature of a held descriptor is what it was.
SameSignature(n) == Linked(hold[n]) /\ n \in fresh

\* The next name of the phase, or the next phase.
Forward(phase) ==
    rpc' = IF rpc[2] < NumNames THEN <<rpc[1], rpc[2] + 1>> ELSE <<phase, 1>>

ReadSet ==
    /\ rpc[1] = "idle" /\ Located
    /\ rpc' = <<"open", 1>>
    /\ UNCHANGED <<hold, fresh, snap, writerVars>>

OpenTarget ==
    LET n == rpc[2] IN
    /\ rpc[1] = "open" /\ Located /\ files[n] # None
    /\ hold' = [hold EXCEPT ![n] = files[n]]
    /\ Forward("read")
    /\ UNCHANGED <<fresh, snap, writerVars>>

ReadTarget ==
    LET n == rpc[2] IN
    /\ rpc[1] = "read" /\ Linked(hold[n])
    /\ fresh' = fresh \cup {n}
    /\ snap' = IF n = NumNames THEN files ELSE snap
    /\ Forward("again")
    /\ UNCHANGED <<hold, writerVars>>

Reread ==
    /\ rpc[1] = "again" /\ SameSignature(rpc[2])
    /\ rpc[2] = NumNames => Located
    /\ Forward("stat")
    /\ UNCHANGED <<hold, fresh, snap, writerVars>>

StatTarget ==
    /\ rpc[1] = "stat" /\ files[rpc[2]] = hold[rpc[2]] /\ SameSignature(rpc[2])
    /\ rpc[2] = NumNames => Located
    /\ Forward("accepted")
    /\ UNCHANGED <<hold, fresh, snap, writerVars>>

\* The set is returned, or an exception ends the read at any point.
CloseHandles ==
    /\ rpc[1] # "idle"
    /\ rpc' = <<"idle", 1>>
    /\ hold' = [n \in Names |-> None]
    /\ fresh' = {}
    /\ snap' = [n \in Names |-> None]
    /\ UNCHANGED writerVars

\* The operator renames the directory away, or back.
MoveDirectory ==
    /\ moves < MaxMoves
    /\ home' = ~home /\ moves' = moves + 1
    /\ UNCHANGED <<files, backup, pc, rec, held, at, pend, readerVars,
                   record, before>>

-----------------------------------------------------------------------------
Step(w) ==
    \/ \E n \in Names : Begin(w, n)
    \/ Backup(w) \/ Replace(w) \/ Digest(w)
    \/ BeginCommit(w) \/ Verify(w) \/ Commit(w) \/ Cleanup(w) \/ Fail(w)
    \/ Postpone(w) \/ UndoPublished(w) \/ Restore(w) \/ Undone(w)
    \/ Rebind(w) \/ Rebound(w) \/ GiveUp(w)

Read == ReadSet \/ OpenTarget \/ ReadTarget \/ Reread \/ StatTarget \/ CloseHandles

Next ==
    \/ \E w \in Writers : Bind(w) \/ Step(w) \/ Crash(w)
    \/ Read
    \/ MoveDirectory

Spec == Init /\ [][Next]_vars

-----------------------------------------------------------------------------
(* Properties.                                                             *)

\* The files, and what the reader and the operator see of them.
FileType ==
    /\ files \in [Names -> File \cup {None}]
    /\ backup \in [Writers -> [Names -> File \cup {None}]]
    /\ home \in BOOLEAN /\ moves \in 0 .. MaxMoves
    /\ rpc \in Phases \X Names
    /\ hold \in [Names -> File \cup {None}] /\ fresh \subseteq Names
    /\ snap \in [Names -> File \cup {None}] /\ record \in [Names -> File \cup {None}]
    /\ before \in [Writers -> [Names -> File \cup {None}]]

\* Where the writers stand.
LocalType ==
    /\ pc \in [Writers -> Ended \cup {"idle", "open", "backup", "replace", "digest",
                                      "verify", "cleanup", "rollback", "retry"}]
    /\ rec \in [Writers -> Seq(Record)]
    /\ at \in [Writers -> Nat] /\ pend \in [Writers -> SUBSET Nat]
    /\ \A w \in Writers : at[w] \in 0 .. Len(rec[w]) + 1 /\ pend[w] \subseteq 1 .. Len(rec[w])
    /\ held \in [Writers -> File \cup {None}]

\* Names, descriptors and records have their types.
TypeOK == FileType /\ LocalType

\* "Read direct-child artifacts as one handle-bound coherent set": whatever
\* the writers did meanwhile, all files of an accepted set were under their
\* names at one instant, although they were opened and read one by one.
ReadIsSnapshot == rpc[1] = "accepted" => hold = snap

\* As long as transactions do not overlap, what was committed last is under its
\* name or under a backup name, through failures, kills and later transactions.
NothingLost ==
    ~Overlap => \A n \in Names : record[n] # None =>
        files[n] = record[n] \/ \E w \in Writers : backup[w][n] = record[n]

\* A transaction that raises without reporting an incomplete rollback has put
\* back every name, also through a second binding, if it ran alone.
RollbackRestores ==
    [][\A w \in Writers :
          pc[w] # "raised" /\ pc'[w] = "raised" /\ ~Overlap => files' = before[w]]_vars

\* Content is kept through failures, kills and rollbacks: what was committed
\* stays on disk, and a rollback that reports nothing restored everything.
ContentKept == []NothingLost /\ RollbackRestores
=============================================================================
