-------------------------- MODULE BoundPublication --------------------------
(* Multi-file publication into a run root (resampling_null/publication.py, *)
(* publication_rollback.py and publication_quarantine.py).                 *)
(*                                                                         *)
(* A transaction publishes each target of one subdirectory ("sources")     *)
(* through a temporary file and a hard link, verifies all of them and      *)
(* commits.  If anything raises it rolls back: temporaries, then published *)
(* names, then the directory it made.  A name is rolled back by moving it  *)
(* to a quarantine name, looking at what was moved, and removing it when   *)
(* it is the transaction's own or moving it back when it is not.           *)
(*                                                                         *)
(* Transactions exclude each other with a flock.  Peers do not take it:    *)
(* they replace, link, edit and remove files under the published names and *)
(* replace the directory, but do not know the random temporary and         *)
(* quarantine names.  Every call may fail and a process may be killed.     *)
EXTENDS Sequences, FiniteSets, Integers

CONSTANTS
    Procs,      \* transactions, each of a process of its own
    Peers,      \* acts of writers that do not take the lease
    Targets,    \* names published in the directory
    Base,       \* the directory when it exists beforehand
    None

Unknown == "unknown"    \* a directory that was made and not yet reopened

File == (Procs \cup Peers) \X Targets
Temporary == [target : Targets, known : BOOLEAN]

ASSUME Disjoint ==
    /\ Procs \cap Peers = {}
    /\ {Base, None, Unknown} \cap (Procs \cup Peers \cup Targets) = {}
    /\ Base # None /\ Unknown \notin {Base, None}
    /\ None \notin File \cup Temporary

ASSUME Finite == IsFiniteSet(Procs) /\ IsFiniteSet(Peers) /\ IsFiniteSet(Targets)

VARIABLES
    lock,       \* holder of the root's flock
    lease,      \* the lease file exists
    sources,    \* directory object the name "sources" stands for
    entry,      \* directory object -> target -> file
    temp,       \* transaction -> target its temporary name holds
    qtemp,      \* ... its temporary-quarantine name holds
    quar,       \* transaction -> target -> file under the quarantine name
    qdir,       \* transaction -> directory under its quarantine name
    aliased,    \* files with a further link outside the directory
    edited,     \* files whose bytes were changed in place
    pc,
    bound,      \* directory object of the held descriptor
    made,       \* directory the transaction believes it made
    tmp,        \* _temporaries: [target, known] or None
    owned,      \* _owned: the published targets, in order
    checked,    \* number of owned names verified by commit
    held,       \* file or directory the rollback holds open
    left,       \* residuals collected by the rollback
    idle,       \* history: peer acts not used yet
    placed,     \* history: peer files no peer removed
    touched,    \* history: <<p, t>> acted on after p verified t
    back,       \* history: files a peer moved back under their name
    faults      \* history: transactions with a failed call in their rollback

names == <<sources, entry, temp, qtemp, quar, qdir, aliased, edited>>
locals == <<bound, made, tmp, owned, checked, held, left>>
history == <<idle, placed, touched, back, faults>>
vars == <<lock, lease, names, pc, locals, history>>

Dirs == Procs \cup Peers \cup {Base}

Publishing == {"body", "open_dir", "write", "link", "unlink", "verify"}
RollingBack == {"rb_temp", "rb_open", "rb_move", "rb_resolve", "rb_unlink",
                "rb_dir", "rb_dir_move", "rb_dir_resolve", "rb_rmdir"}
Active == Publishing \cup RollingBack \cup {"committed", "close"}
Ended == {"returned", "raised", "incomplete", "dead"}
Labels == {"idle"} \cup Active \cup Ended

\* What PublicationRollbackError can name.
Residual ==
    [kind : {"target", "quarantine", "temp", "temp_quarantine", "unlocated"}, of : Targets]
    \cup [kind : {"dir", "dir_quarantine", "unlocated"}, of : {"sources"}]

Init ==
    /\ lock = None /\ lease = FALSE
    /\ sources \in {None, Base}
    /\ entry = [d \in Dirs |-> [t \in Targets |-> None]]
    /\ temp = [p \in Procs |-> None] /\ qtemp = [p \in Procs |-> None]
    /\ quar = [p \in Procs |-> [t \in Targets |-> None]]
    /\ qdir = [p \in Procs |-> None]
    /\ aliased = {} /\ edited = {}
    /\ pc \in [Procs -> {"idle", "dead"}]  \* dead: it never begins one
    /\ bound = [p \in Procs |-> None] /\ made = [p \in Procs |-> None]
    /\ tmp = [p \in Procs |-> None]
    /\ owned = [p \in Procs |-> <<>>]
    /\ checked = [p \in Procs |-> 0]
    /\ held = [p \in Procs |-> None]
    /\ left = [p \in Procs |-> {}]
    /\ idle \in SUBSET Peers /\ placed = {} /\ touched = {} /\ back = {} /\ faults = {}

---------------------------------------------------------------------------
Goto(p, label) == pc' = [pc EXCEPT ![p] = label]
Leave(p, residuals) == left' = [left EXCEPT ![p] = @ \cup residuals]
At(kind, t) == [kind |-> kind, of |-> t]
Here(p, t) == entry[bound[p]][t]
SetEntry(p, t, f) == entry' = [entry EXCEPT ![bound[p]][t] = f]

\* st_nlink of a file, which stands under no target name but its own.
Links(f) ==
    Cardinality({d \in Dirs : entry[d][f[2]] = f})
    + Cardinality({q \in Procs : quar[q][f[2]] = f})
    + Cardinality({q \in Procs : f = <<q, temp[q]>>})
    + Cardinality({q \in Procs : f = <<q, qtemp[q]>>})
    + Cardinality({f} \cap aliased)

---------------------------------------------------------------------------
(* Publication.                                                            *)

\* __enter__: the flock of the root, not waited for, and the lease file.
Enter(p) ==
    /\ pc[p] = "idle" /\ lock = None
    /\ lock' = p /\ lease' = TRUE
    /\ Goto(p, "body")
    /\ UNCHANGED <<names, locals, history>>

\* _open_directory: the directory is opened, or made and then reopened.
OpenDirectory(p) ==
    /\ pc[p] = "body" /\ bound[p] = None
    /\ \/ /\ sources # None
          /\ bound' = [bound EXCEPT ![p] = sources]
          /\ UNCHANGED <<sources, made, pc>>
       \/ /\ sources = None
          /\ sources' = p
          /\ made' = [made EXCEPT ![p] = Unknown]
          /\ Goto(p, "open_dir")
          /\ UNCHANGED bound
    /\ UNCHANGED <<lock, lease, entry, temp, qtemp, quar, qdir, aliased, edited,
                   tmp, owned, checked, held, left, history>>

\* The reopened directory, whichever it is, is recorded as the one made.
BindDirectory(p) ==
    /\ pc[p] = "open_dir" /\ sources # None
    /\ bound' = [bound EXCEPT ![p] = sources]
    /\ made' = [made EXCEPT ![p] = sources]
    /\ Goto(p, "body")
    /\ UNCHANGED <<lock, lease, names, tmp, owned, checked, held, left, history>>

\* publish_bytes up to the creation of the temporary file.
CreateTemporary(p, t) ==
    /\ pc[p] = "body" /\ bound[p] # None
    /\ \A i \in DOMAIN owned[p] : owned[p][i] # t
    /\ temp' = [temp EXCEPT ![p] = t]
    /\ tmp' = [tmp EXCEPT ![p] = [target |-> t, known |-> FALSE]]
    /\ Goto(p, "write")
    /\ UNCHANGED <<lock, lease, sources, entry, qtemp, quar, qdir, aliased, edited,
                   bound, made, owned, checked, held, left, history>>

\* Its identity is recorded and its bytes are written; the write may fail
\* afterwards, which is a Fail from "link".
WriteTemporary(p) ==
    /\ pc[p] = "write"
    /\ tmp' = [tmp EXCEPT ![p].known = TRUE]
    /\ Goto(p, "link")
    /\ UNCHANGED <<lock, lease, names, bound, made, owned, checked, held, left, history>>

\* os.link never replaces: with the name taken it raises (Fail).
Link(p) ==
    LET t == tmp[p].target IN
    /\ pc[p] = "link" /\ Here(p, t) = None
    /\ SetEntry(p, t, <<p, t>>)
    /\ owned' = [owned EXCEPT ![p] = Append(@, t)]
    /\ Goto(p, "unlink")
    /\ UNCHANGED <<lock, lease, sources, temp, qtemp, quar, qdir, aliased, edited,
                   bound, made, tmp, checked, held, left, history>>

UnlinkTemporary(p) ==
    /\ pc[p] = "unlink"
    /\ temp' = [temp EXCEPT ![p] = None]
    /\ tmp' = [tmp EXCEPT ![p] = None]
    /\ Goto(p, "body")
    /\ UNCHANGED <<lock, lease, sources, entry, qtemp, quar, qdir, aliased, edited,
                   bound, made, owned, checked, held, left, history>>

\* commit: first the identity of the directory ...
BeginCommit(p) ==
    /\ pc[p] = "body" /\ owned[p] # <<>>
    /\ sources = bound[p]
    /\ Goto(p, "verify")
    /\ UNCHANGED <<lock, lease, names, locals, history>>

\* Faulty variant: the bytes are not compared.
NameUnmoved(p, t) == Here(p, t) = <<p, t>> /\ Links(<<p, t>>) = 1

\* _verify_owned_name.
NameVerified(p, t) ==
    /\ Here(p, t) = <<p, t>>
    /\ <<p, t>> \notin edited
    /\ Links(<<p, t>>) = 1

\* ... then the names one after another, and then the commit itself.
Verify(p) ==
    /\ pc[p] = "verify"
    /\ \/ /\ checked[p] < Len(owned[p])
          /\ NameVerified(p, owned[p][checked[p] + 1])
          /\ checked' = [checked EXCEPT ![p] = @ + 1]
          /\ UNCHANGED pc
       \/ /\ checked[p] = Len(owned[p])
          /\ Goto(p, "committed")
          /\ UNCHANGED checked
    /\ UNCHANGED <<lock, lease, names, bound, made, tmp, owned, held, left, history>>

\* A call or a check raises, or the body of the with-statement does:
\* __exit__ starts the rollback.
Fail(p) ==
    /\ pc[p] \in Publishing
    /\ made' \in {made} \cup
         {[made EXCEPT ![p] = sources] : n \in {n \in {p} : pc[p] = "open_dir" /\ sources # None}}
    /\ Goto(p, "rb_temp")
    /\ UNCHANGED <<lock, lease, names, bound, tmp, owned, checked, held, left, history>>

---------------------------------------------------------------------------
(* Rollback.  A step that reports a residual because a call failed marks   *)
(* the transaction in faults.                                              *)

Faulted(p) == faults' = faults \cup {p}
Pop(p) ==
    /\ owned' = [owned EXCEPT ![p] = SubSeq(@, 1, Len(@) - 1)]
    /\ held' = [held EXCEPT ![p] = None]
    /\ Goto(p, "rb_open")
Current(p) == owned[p][Len(owned[p])]

\* Faulty variant: a temporary that cannot be unlinked is not reported.
RollbackTemporaryQuietly(p) ==
    /\ pc[p] = "rb_temp"
    /\ \/ temp' = [temp EXCEPT ![p] = None] /\ UNCHANGED <<qtemp, left, faults>>
       \/ UNCHANGED <<temp, qtemp, left>> /\ Faulted(p)
    /\ Goto(p, "rb_open")
    /\ UNCHANGED <<lock, lease, sources, entry, quar, qdir, aliased, edited,
                   bound, made, tmp, owned, checked, held, idle, placed, touched, back>>

\* _rollback_temporary: no peer knows the name, so it holds the own file.  The
\* move or the unlink may be denied; a failed fsync reports what is gone.
RollbackTemporary(p) ==
    /\ pc[p] = "rb_temp"
    /\ \/ tmp[p] = None /\ UNCHANGED <<temp, qtemp, left, faults>>
       \/ /\ tmp[p] # None /\ ~tmp[p].known
          /\ Leave(p, {At("temp", tmp[p].target)})
          /\ Faulted(p) /\ UNCHANGED <<temp, qtemp>>
       \/ /\ tmp[p] # None /\ tmp[p].known
          /\ temp' = [temp EXCEPT ![p] = None]
          /\ UNCHANGED <<qtemp, left, faults>>
       \/ /\ tmp[p] # None /\ tmp[p].known
          /\ Leave(p, {At("temp", tmp[p].target)})
          /\ Faulted(p) /\ UNCHANGED <<temp, qtemp>>
       \/ /\ tmp[p] # None /\ tmp[p].known
          /\ temp' = [temp EXCEPT ![p] = None]
          /\ qtemp' \in {qtemp, [qtemp EXCEPT ![p] = temp[p]]}
          /\ Leave(p, {At("temp_quarantine", tmp[p].target)})
          /\ Faulted(p)
    /\ Goto(p, "rb_open")
    /\ UNCHANGED <<lock, lease, sources, entry, quar, qdir, aliased, edited,
                   bound, made, tmp, owned, checked, held, idle, placed, touched, back>>

\* quarantine_source opens the name: a missing one is nothing to roll back.
RollbackOpen(p) ==
    /\ pc[p] = "rb_open"
    /\ \/ /\ owned[p] = <<>>
          /\ Goto(p, "rb_dir")
          /\ UNCHANGED <<owned, held, left, faults>>
       \/ /\ owned[p] # <<>> /\ Here(p, Current(p)) = None
          /\ Pop(p) /\ UNCHANGED <<left, faults>>
       \/ /\ owned[p] # <<>> /\ Here(p, Current(p)) # None
          /\ held' = [held EXCEPT ![p] = Here(p, Current(p))]
          /\ Goto(p, "rb_move")
          /\ UNCHANGED <<owned, left, faults>>
       \/ /\ owned[p] # <<>>
          /\ Leave(p, {At("target", Current(p))})
          /\ Pop(p) /\ Faulted(p)
    /\ UNCHANGED <<lock, lease, names, bound, made, tmp, checked, idle, placed, touched, back>>

\* _move_source_to_quarantine moves whatever the name now stands for.
RollbackMove(p) ==
    LET t == Current(p) IN
    /\ pc[p] = "rb_move"
    /\ \/ /\ Here(p, t) # None
          /\ quar' = [quar EXCEPT ![p][t] = Here(p, t)]
          /\ SetEntry(p, t, None)
          /\ Goto(p, "rb_resolve")
          /\ UNCHANGED <<owned, held, left, faults>>
       \/ /\ Leave(p, {At("target", t)})
          /\ Pop(p) /\ Faulted(p)
          /\ UNCHANGED <<entry, quar>>
    /\ UNCHANGED <<lock, lease, sources, temp, qtemp, qdir, aliased, edited,
                   bound, made, tmp, checked, idle, placed, touched, back>>

\* restore_quarantine, without replacement; if the name is taken again the
\* file stays in quarantine and its quarantine name is reported.
PutBack(p, t, residuals) ==
    /\ Here(p, t) = None
    /\ SetEntry(p, t, quar[p][t])
    /\ quar' = [quar EXCEPT ![p][t] = None]
    /\ Leave(p, residuals)
StayQuarantined(p, t, residuals) ==
    /\ Leave(p, {At("quarantine", t)} \cup (residuals \ {At("target", t)}))
    /\ Faulted(p)
    /\ UNCHANGED <<entry, quar>>
Restore(p, t, residuals) ==
    \/ PutBack(p, t, residuals) /\ UNCHANGED faults
    \/ StayQuarantined(p, t, residuals)

\* Faulty variant: whatever was moved is taken for the own file.
ResolveUnseen(p) ==
    /\ pc[p] = "rb_resolve"
    /\ Goto(p, "rb_unlink")
    /\ UNCHANGED <<lock, lease, names, locals, history>>

\* The published bytes, with no further link.
Removable(f) == f \notin edited /\ Links(f) = 1

\* The rest of quarantine_source and _rollback_owned: the file in quarantine
\* is compared with the one held and with the one published.
Resolve(p) ==
    LET t == Current(p)
        mine == <<p, t>>
        moved == quar[p][t] IN
    /\ pc[p] = "rb_resolve"
    /\ \/ /\ moved = mine /\ mine \notin edited /\ Links(mine) = 1
          /\ Goto(p, "rb_unlink")
          /\ UNCHANGED <<entry, quar, owned, held, left, faults>>
       \/ /\ moved = mine /\ ~Removable(mine)
          /\ Restore(p, t, {At("target", t)}) /\ Pop(p)
       \/ /\ moved # mine /\ moved = held[p]
          /\ Restore(p, t, {}) /\ Pop(p)
       \/ /\ moved # mine /\ moved # held[p]
          /\ Restore(p, t, IF held[p] = mine /\ Links(mine) > 0
                           THEN {At("unlocated", t)} ELSE {})
          /\ Pop(p)
       \/ /\ \/ PutBack(p, t, {At("target", t)}) /\ Faulted(p)
             \/ StayQuarantined(p, t, {})
          /\ Pop(p)                                 \* a failed inspection
    /\ UNCHANGED <<lock, lease, sources, temp, qtemp, qdir, aliased, edited,
                   bound, made, tmp, checked, idle, placed, touched, back>>

\* The unlink, which may be denied, or be followed by a failed fsync.
RollbackUnlink(p) ==
    LET t == Current(p) IN
    /\ pc[p] = "rb_unlink"
    /\ \/ /\ quar' = [quar EXCEPT ![p][t] = None]
          /\ UNCHANGED <<left, faults>>
       \/ /\ quar' \in {quar, [quar EXCEPT ![p][t] = None]}
          /\ Leave(p, {At("quarantine", t)}) /\ Faulted(p)
    /\ Pop(p)
    /\ UNCHANGED <<lock, lease, sources, entry, temp, qtemp, qdir, aliased, edited,
                   bound, made, tmp, checked, idle, placed, touched, back>>

\* _rollback_directory, with the same steps.
RollbackDirectory(p) ==
    /\ pc[p] = "rb_dir"
    /\ \/ /\ made[p] = None \/ (made[p] # Unknown /\ sources = None)
          /\ Goto(p, "close")
          /\ UNCHANGED <<held, left, faults>>
       \/ /\ made[p] # None
          /\ Leave(p, {At("dir", "sources")})
          /\ Goto(p, "close") /\ Faulted(p)
          /\ UNCHANGED held
       \/ /\ made[p] \notin {None, Unknown} /\ sources # None
          /\ held' = [held EXCEPT ![p] = sources]
          /\ Goto(p, "rb_dir_move")
          /\ UNCHANGED <<left, faults>>
    /\ UNCHANGED <<lock, lease, names, bound, made, tmp, owned, checked,
                   idle, placed, touched, back>>

MoveDirectory(p) ==
    /\ pc[p] = "rb_dir_move"
    /\ \/ /\ sources # None
          /\ qdir' = [qdir EXCEPT ![p] = sources]
          /\ sources' = None
          /\ Goto(p, "rb_dir_resolve")
          /\ UNCHANGED <<left, faults>>
       \/ /\ Leave(p, {At("dir", "sources")})
          /\ Goto(p, "close") /\ Faulted(p)
          /\ UNCHANGED <<sources, qdir>>
    /\ UNCHANGED <<lock, lease, entry, temp, qtemp, quar, aliased, edited,
                   bound, made, tmp, owned, checked, held, idle, placed, touched, back>>

ResolveDirectory(p) ==
    LET lost == IF qdir[p] = held[p] THEN {At("dir", "sources")}
                ELSE IF held[p] = made[p] THEN {At("unlocated", "sources")} ELSE {} IN
    /\ pc[p] = "rb_dir_resolve"
    /\ \/ /\ qdir[p] = made[p]
          /\ Goto(p, "rb_rmdir")
          /\ UNCHANGED <<sources, qdir, left, faults>>
       \/ /\ qdir[p] # made[p] /\ sources = None
          /\ sources' = qdir[p]
          /\ qdir' = [qdir EXCEPT ![p] = None]
          /\ Leave(p, lost)
          /\ Goto(p, "close") /\ UNCHANGED faults
       \/ /\ qdir[p] # made[p]
          /\ Leave(p, {At("dir_quarantine", "sources")} \cup (lost \ {At("dir", "sources")}))
          /\ Goto(p, "close") /\ Faulted(p)
          /\ UNCHANGED <<sources, qdir>>
       \/ /\ sources = None                         \* a failed inspection
          /\ sources' = qdir[p]
          /\ qdir' = [qdir EXCEPT ![p] = None]
          /\ Leave(p, {At("dir", "sources")})
          /\ Goto(p, "close") /\ Faulted(p)
    /\ UNCHANGED <<lock, lease, entry, temp, qtemp, quar, aliased, edited,
                   bound, made, tmp, owned, checked, held, idle, placed, touched, back>>

Empty(d) ==
    /\ \A t \in Targets : entry[d][t] = None
    /\ \A q \in Procs : bound[q] = d =>
         temp[q] = None /\ qtemp[q] = None /\ \A t \in Targets : quar[q][t] = None

\* rmdir: a directory that is not empty stays in quarantine.
RemoveDirectory(p) ==
    /\ pc[p] = "rb_rmdir"
    /\ \/ /\ Empty(qdir[p])
          /\ qdir' = [qdir EXCEPT ![p] = None]
          /\ UNCHANGED <<left, faults>>
       \/ /\ ~Empty(qdir[p])
          /\ Leave(p, {At("dir_quarantine", "sources")})
          /\ UNCHANGED <<qdir, faults>>
       \/ /\ Empty(qdir[p])
          /\ qdir' \in {qdir, [qdir EXCEPT ![p] = None]}
          /\ Leave(p, {At("dir_quarantine", "sources")}) /\ Faulted(p)
    /\ Goto(p, "close")
    /\ UNCHANGED <<lock, lease, sources, entry, temp, qtemp, quar, aliased, edited,
                   bound, made, tmp, owned, checked, held, idle, placed, touched, back>>

\* The object is gone; bound still says where its names are.
Forget(p) ==
    /\ made' = [made EXCEPT ![p] = None]
    /\ tmp' = [tmp EXCEPT ![p] = None]
    /\ owned' = [owned EXCEPT ![p] = <<>>]
    /\ checked' = [checked EXCEPT ![p] = 0]
    /\ held' = [held EXCEPT ![p] = None]
    /\ left' = [left EXCEPT ![p] = {}]
    /\ UNCHANGED bound

\* Faulty variant: an incomplete rollback keeps the locks.
CloseUnlessIncomplete(p) ==
    /\ pc[p] \in {"committed", "close"}
    /\ lock' = IF left[p] = {} THEN None ELSE lock
    /\ lease' \in BOOLEAN
    /\ Goto(p, IF pc[p] = "committed" THEN "returned"
               ELSE IF left[p] = {} THEN "raised" ELSE "incomplete")
    /\ IF pc[p] = "committed" THEN UNCHANGED locals ELSE Forget(p)
    /\ UNCHANGED <<names, history>>

\* _close: the lease file is removed, or not if that fails, and the locks are
\* released; then the call returns or raises.
Close(p) ==
    /\ pc[p] \in {"committed", "close"}
    /\ lock' = None /\ lease' \in BOOLEAN
    /\ Goto(p, IF pc[p] = "committed" THEN "returned"
               ELSE IF left[p] = {} THEN "raised" ELSE "incomplete")
    /\ IF pc[p] = "committed" THEN UNCHANGED locals ELSE Forget(p)
    /\ UNCHANGED <<names, history>>

\* The process is killed; the kernel drops its flock, every name stays.
Crash(p) ==
    /\ pc[p] \in Active
    /\ lock' = None
    /\ Goto(p, "dead")
    /\ Forget(p)
    /\ UNCHANGED <<lease, names, history>>

---------------------------------------------------------------------------
(* Peers.                                                                  *)

Committing == {"verify", "committed", "returned"}
Verified(p) == {owned[p][i] : i \in {i \in 1 .. checked[p] : pc[p] \in Committing}}
Act(x) == x \in idle /\ sources # None /\ idle' = idle \ {x}
Touch(t) == touched' = touched \cup {<<p, t>> : p \in {q \in Procs : t \in Verified(q)}}

\* os.replace of the target by the peer's own file.
PeerPut(x, t) ==
    /\ Act(x) /\ Touch(t)
    /\ entry' = [entry EXCEPT ![sources][t] = <<x, t>>]
    /\ placed' = (placed \ {entry[sources][t]}) \cup {<<x, t>>}
    /\ UNCHANGED <<lock, lease, sources, temp, qtemp, quar, qdir, aliased, edited,
                   pc, locals, back, faults>>

\* A hard link to the target, or the target renamed away.
PeerLink(x, t) ==
    /\ Act(x) /\ Touch(t)
    /\ entry[sources][t] \notin aliased \cup {None}
    /\ aliased' = aliased \cup {entry[sources][t]}
    /\ entry' \in {entry, [entry EXCEPT ![sources][t] = None]}
    /\ UNCHANGED <<lock, lease, sources, temp, qtemp, quar, qdir, edited,
                   pc, locals, placed, back, faults>>

\* The other link renamed over the target.
PeerReturn(x, f) ==
    /\ Act(x) /\ Touch(f[2])
    /\ f \in aliased /\ entry[sources][f[2]] # f
    /\ aliased' = aliased \ {f}
    /\ entry' = [entry EXCEPT ![sources][f[2]] = f]
    /\ placed' = placed \ {entry[sources][f[2]]}
    /\ back' = back \cup {f}
    /\ UNCHANGED <<lock, lease, sources, temp, qtemp, quar, qdir, edited,
                   pc, locals, faults>>

\* A write through the target name.
PeerEdit(x, t) ==
    /\ Act(x) /\ Touch(t)
    /\ entry[sources][t] \notin edited \cup {None}
    /\ edited' = edited \cup {entry[sources][t]}
    /\ UNCHANGED <<lock, lease, sources, entry, temp, qtemp, quar, qdir, aliased,
                   pc, locals, placed, back, faults>>

\* The directory renamed away and another made in its place.
PeerSwap(x) ==
    /\ Act(x)
    /\ sources' = x
    /\ touched' = touched \cup
         {<<p, t>> : p \in {q \in Procs : pc[q] \in Committing}, t \in Targets}
    /\ UNCHANGED <<lock, lease, entry, temp, qtemp, quar, qdir, aliased, edited,
                   pc, locals, placed, back, faults>>

Peer(x) ==
    \/ \E t \in Targets : PeerPut(x, t) \/ PeerLink(x, t) \/ PeerEdit(x, t)
    \/ \E f \in aliased : PeerReturn(x, f)
    \/ PeerSwap(x)

---------------------------------------------------------------------------
Step(p) ==
    \/ OpenDirectory(p) \/ BindDirectory(p)
    \/ \E t \in Targets : CreateTemporary(p, t)
    \/ WriteTemporary(p) \/ Link(p) \/ UnlinkTemporary(p)
    \/ BeginCommit(p) \/ Verify(p) \/ Fail(p)
    \/ RollbackTemporary(p) \/ RollbackOpen(p) \/ RollbackMove(p)
    \/ Resolve(p) \/ RollbackUnlink(p)
    \/ RollbackDirectory(p) \/ MoveDirectory(p) \/ ResolveDirectory(p)
    \/ RemoveDirectory(p) \/ Close(p)

Next ==
    \/ \E p \in Procs : Enter(p) \/ Step(p) \/ Crash(p)
    \/ \E x \in Peers : Peer(x)

Spec == Init /\ [][Next]_vars

\* A transaction waits for nobody once it holds the lease.
FairSpec == Spec /\ \A p \in Procs : WF_vars(Step(p))

---------------------------------------------------------------------------
(* Properties.                                                             *)

\* Every name and every variable of a transaction has its type.
TypeOK ==
    /\ lock \in Procs \cup {None} /\ lease \in BOOLEAN
    /\ sources \in Dirs \cup {None}
    /\ entry \in [Dirs -> [Targets -> File \cup {None}]]
    /\ temp \in [Procs -> Targets \cup {None}]
    /\ qtemp \in [Procs -> Targets \cup {None}]
    /\ quar \in [Procs -> [Targets -> File \cup {None}]]
    /\ qdir \in [Procs -> Dirs \cup {None}]
    /\ aliased \subseteq File /\ edited \subseteq File
    /\ pc \in [Procs -> Labels]
    /\ bound \in [Procs -> Dirs \cup {None}]
    /\ made \in [Procs -> Dirs \cup {None, Unknown}]
    /\ tmp \in [Procs -> Temporary \cup {None}]
    /\ owned \in [Procs -> Seq(Targets)] /\ checked \in [Procs -> Nat]
    /\ held \in [Procs -> File \cup Dirs \cup {None}]
    /\ left \in [Procs -> SUBSET Residual]
    /\ idle \subseteq Peers /\ placed \subseteq File
    /\ touched \subseteq Procs \X Targets /\ back \subseteq File /\ faults \subseteq Procs

\* A file a peer put under a published name is never destroyed by a
\* transaction, whichever step of a publication or a rollback it fell into:
\* it keeps a name until a peer replaces it.
PeerPreserved == \A f \in placed : Links(f) > 0

\* Whatever was changed before commit verified it is refused: in a committed
\* publication every name that no peer touched after its verification is the
\* transaction's own file with its own bytes, and stays so under the failures
\* and rollbacks of later transactions.
CommittedIsWhole ==
    \A p \in Procs : pc[p] \in {"committed", "returned"} =>
        \A i \in DOMAIN owned[p] :
            <<p, owned[p][i]>> \notin touched =>
                /\ sources = bound[p]
                /\ Here(p, owned[p][i]) = <<p, owned[p][i]>>
                /\ <<p, owned[p][i]>> \notin edited

Survivors(p) ==
    {At("temp", temp[p]) : n \in {n \in {1} : temp[p] # None}}
    \cup {At("temp_quarantine", qtemp[p]) : n \in {n \in {1} : qtemp[p] # None}}
    \cup {At("quarantine", t) : t \in {t \in Targets : quar[p][t] # None}}
    \cup {At("target", t) : t \in {t \in Targets :
              bound[p] # None /\ Here(p, t) = <<p, t>> /\ <<p, t>> \notin back}}

\* What a rollback could not remove it reports: no temporary, quarantined or
\* published name of the transaction survives unreported.
SurvivorsReported ==
    \A p \in Procs : pc[p] = "close" => Survivors(p) \subseteq left[p]

\* If no call of the rollback fails and no peer interferes, the rollback is
\* complete, from wherever the publication stopped.
UndisturbedRollbackIsClean ==
    \A p \in Procs : pc[p] = "close" /\ left[p] # {} => p \in faults \/ idle # Peers

\* The report of a rollback is exact in both directions: all that is left is in
\* it, and when nothing interfered nothing is left.
RollbackAccounts == SurvivorsReported /\ UndisturbedRollbackIsClean

\* A transaction that entered ends, and the lease is free again.
TransactionEnds == \A p \in Procs : lock = p ~> lock # p
=============================================================================
