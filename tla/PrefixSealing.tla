---------------------------- MODULE PrefixSealing ----------------------------
(***************************************************************************)
(* The files of the prefix phase: controllers that write content-addressed *)
(* artifacts into one run root (resampling_null/controller_artifacts.py)   *)
(* and callers that seal the prefix index over them (prefix_index.py).     *)
(*                                                                         *)
(* A controller creates the file of a content exclusively, writes it,      *)
(* syncs it and reads it back; a controller that finds the file there      *)
(* reuses it if its bytes are whole.  A caller of the index reserves its   *)
(* process, locks the run root, reads every candidate, creates the index   *)
(* exclusively, verifies it and releases lock and reservation.  A release  *)
(* that cannot be told done or undone stops the process for good.          *)
(*                                                                         *)
(* Processes may be killed at any point; every system call may fail; one   *)
(* that respects no lock may move the index away once.                     *)
(***************************************************************************)
EXTENDS Naturals, FiniteSets

CONSTANTS
    Contents,      \* the contents the candidates consist of
    Writers,       \* controllers
    Callers,       \* callers of seal_prefix_index
    Processes,     \* the processes the callers run in
    ProcessOf,     \* the process of each caller
    NoOne          \* no process, no caller

ASSUME ContentsAssumption == Contents # {}
ASSUME ProcessOfAssumption == ProcessOf \in [Callers -> Processes]
ASSUME NoOneAssumption == NoOne \notin Callers \cup Writers

VARIABLES
    file,       \* each content's file: absent, torn or whole, and its creator
    write,      \* each controller: the step it is at and the content it writes
    refs,       \* contents for which some controller returned a reference
    withdrawn,  \* history: contents whose creator removed the file after a reuse
    index,      \* the index file: absent, torn or whole, and its creator
    lock,       \* the caller that holds the lock of the run root
    reserved,   \* each process: the reservation is taken
    seal,       \* each caller: the step of its transaction
    unread,     \* each caller: candidates still to read
    committed,  \* callers whose transaction holds a verified publication
    moved       \* bound: the foreign move of the index happened

vars == <<file, write, refs, withdrawn, index, lock, reserved, seal, unread, committed, moved>>

storeVars == <<file, write, refs, withdrawn>>
sealVars == <<index, lock, reserved, seal, unread, committed, moved>>

Absent == [state |-> "absent", by |-> NoOne]
File(state, by) == [state |-> state, by |-> by]

Init ==
    /\ file = [c \in Contents |-> Absent]
    /\ write = [w \in Writers |-> [pc |-> "idle", content |-> CHOOSE c \in Contents : TRUE]]
    /\ refs = {} /\ withdrawn = {}
    /\ index = Absent /\ lock = NoOne
    /\ reserved = [p \in Processes |-> FALSE]
    /\ seal = [c \in Callers |-> "idle"]
    /\ unread = [c \in Callers |-> {}]
    /\ committed = {} /\ moved = FALSE

-----------------------------------------------------------------------------
(* ControllerArtifactStore.write.                                          *)

WriteAt(w, pc) == write' = [write EXCEPT ![w].pc = pc]

\* The exclusive create: the file is ours, or there is one already.
WriteOpen(w, c) ==
    /\ write[w].pc = "idle"
    /\ \/ /\ file[c].state = "absent"
          /\ file' = [file EXCEPT ![c] = File("torn", w)]
          /\ write' = [write EXCEPT ![w] = [pc |-> "bytes", content |-> c]]
       \/ /\ file[c].state # "absent"
          /\ write' = [write EXCEPT ![w] = [pc |-> "reuse", content |-> c]]
          /\ UNCHANGED file
    /\ UNCHANGED <<refs, withdrawn, sealVars>>

\* A faulty reuse, for mutation: the name alone is trusted.
ReuseByName(w) ==
    LET c == write[w].content IN
    /\ write[w].pc = "reuse"
    /\ refs' = refs \cup {c} /\ WriteAt(w, "idle")
    /\ UNCHANGED <<file, withdrawn, sealVars>>

\* An existing file is reused only with exactly our bytes in it.
Reuse(w) ==
    LET c == write[w].content IN
    /\ write[w].pc = "reuse"
    /\ \/ file[c].state = "whole" /\ refs' = refs \cup {c} /\ WriteAt(w, "idle")
       \/ file[c].state # "whole" /\ WriteAt(w, "idle") /\ UNCHANGED refs
    /\ UNCHANGED <<file, withdrawn, sealVars>>

\* All bytes are written.
WriteBytes(w) ==
    LET c == write[w].content IN
    /\ write[w].pc = "bytes"
    /\ file' = [file EXCEPT ![c].state = "whole"]
    /\ WriteAt(w, "sync")
    /\ UNCHANGED <<refs, withdrawn, sealVars>>

\* File and directory are synced, the file is opened again and compared.
WriteVerified(w) ==
    LET c == write[w].content IN
    /\ write[w].pc = "sync"
    /\ refs' = refs \cup {c} /\ WriteAt(w, "idle")
    /\ UNCHANGED <<file, withdrawn, sealVars>>

\* Anything that fails after the create removes the file again; the removal
\* may fail as well and leaves the file as it is.
WriteAborted(w) ==
    LET c == write[w].content IN
    /\ write[w].pc \in {"bytes", "sync"}
    /\ WriteAt(w, "idle")
    /\ \/ /\ file' = [file EXCEPT ![c] = Absent]
          /\ withdrawn' = IF c \in refs THEN withdrawn \cup {c} ELSE withdrawn
       \/ UNCHANGED <<file, withdrawn>>
    /\ UNCHANGED <<refs, sealVars>>

\* The controller is killed: a file in the making stays behind torn.
WriterKilled(w) ==
    /\ write[w].pc # "idle" /\ WriteAt(w, "idle")
    /\ UNCHANGED <<file, refs, withdrawn, sealVars>>

-----------------------------------------------------------------------------
(* seal_prefix_index.                                                      *)

SealAt(c, pc) == seal' = [seal EXCEPT ![c] = pc]
Own(c) == index.by = c /\ index.state # "absent"

\* The reservation of the process, taken without waiting; then the root is opened.
Reserve(c) ==
    /\ seal[c] = "idle" /\ refs = Contents
    /\ ~reserved[ProcessOf[c]]
    /\ \/ reserved' = [reserved EXCEPT ![ProcessOf[c]] = TRUE] /\ SealAt(c, "lock")
       \/ SealAt(c, "failed") /\ UNCHANGED reserved
    /\ UNCHANGED <<storeVars, index, lock, unread, committed, moved>>

\* The reservation is taken, or the process stopped for good.
Refuse(c) ==
    /\ seal[c] = "idle" /\ reserved[ProcessOf[c]]
    /\ SealAt(c, "failed")
    /\ UNCHANGED <<storeVars, index, lock, reserved, unread, committed, moved>>

\* _acquire_root_transaction: without waiting.  When the call fails, or is
\* interrupted, who holds the lock is not known and the process stops.
Acquire(c) ==
    /\ seal[c] = "lock"
    /\ \/ /\ lock = NoOne /\ lock' = c
          /\ SealAt(c, "read") /\ unread' = [unread EXCEPT ![c] = Contents]
       \/ lock' \in {lock, IF lock = NoOne THEN c ELSE lock} /\ SealAt(c, "stopped")
          /\ UNCHANGED unread
    /\ UNCHANGED <<storeVars, index, reserved, committed, moved>>

\* ControllerArtifactResolver.resolve_bound: bytes and identity from one
\* descriptor; anything but the whole content ends the transaction.
ReadCandidate(c) ==
    /\ seal[c] = "read"
    /\ \E x \in unread[c] :
          \/ file[x].state = "whole" /\ unread' = [unread EXCEPT ![c] = @ \ {x}] /\ UNCHANGED seal
          \/ SealAt(c, "release") /\ UNCHANGED unread
    /\ UNCHANGED <<storeVars, index, lock, reserved, committed, moved>>

\* A faulty publication, for mutation: an index that is there is truncated.
CreateOver(c) ==
    /\ seal[c] = "read" /\ unread[c] = {}
    /\ index' = File("torn", c) /\ SealAt(c, "bytes")
    /\ UNCHANGED <<storeVars, lock, reserved, unread, committed, moved>>

\* _publish_once: the exclusive create.
CreateIndex(c) ==
    /\ seal[c] = "read" /\ unread[c] = {}
    /\ \/ index.state = "absent" /\ index' = File("torn", c) /\ SealAt(c, "bytes")
       \/ index.state # "absent" /\ SealAt(c, "release") /\ UNCHANGED index
    /\ UNCHANGED <<storeVars, lock, reserved, unread, committed, moved>>

\* The bytes are written and synced; the name must still be ours.
WriteIndex(c) ==
    /\ seal[c] = "bytes"
    /\ \/ Own(c) /\ index' = File("whole", c) /\ SealAt(c, "verify")
       \/ SealAt(c, "rollback") /\ UNCHANGED index
    /\ UNCHANGED <<storeVars, lock, reserved, unread, committed, moved>>

\* _verify_published: reopened by name, identity and bytes compared.  From
\* here on the publication is the transaction's and is not taken back.
VerifyPublished(c) ==
    /\ seal[c] = "verify"
    /\ \/ Own(c) /\ index.state = "whole" /\ committed' = committed \cup {c}
          /\ SealAt(c, "release")
       \/ SealAt(c, "rollback") /\ UNCHANGED committed
    /\ UNCHANGED <<storeVars, index, lock, reserved, unread, moved>>

\* _rollback_owned_publication: only a name that is still ours is removed; the
\* removal goes through a quarantine name and may fail.
Rollback(c) ==
    /\ seal[c] = "rollback" /\ SealAt(c, "release")
    /\ index' \in {index} \cup (IF Own(c) THEN {Absent} ELSE {})
    /\ UNCHANGED <<storeVars, lock, reserved, unread, committed, moved>>

\* A faulty release, for mutation: an unclean one takes the index back.
ReleaseUndoes(c) ==
    /\ seal[c] = "release"
    /\ \/ /\ lock' = NoOne /\ reserved' = [reserved EXCEPT ![ProcessOf[c]] = FALSE]
          /\ SealAt(c, IF c \in committed THEN "returned" ELSE "failed") /\ UNCHANGED index
       \/ /\ SealAt(c, "stopped") /\ index' = IF Own(c) THEN Absent ELSE index
          /\ UNCHANGED <<lock, reserved>>
    /\ UNCHANGED <<storeVars, unread, committed, moved>>

\* _release_root_transaction: unlock, close, then the reservation; an
\* interruption in between stops the process, with or without the lock.
Release(c) ==
    /\ seal[c] = "release"
    /\ \/ /\ lock' = NoOne /\ reserved' = [reserved EXCEPT ![ProcessOf[c]] = FALSE]
          /\ SealAt(c, IF c \in committed THEN "returned" ELSE "failed")
       \/ lock' \in {lock, NoOne} /\ SealAt(c, "stopped") /\ UNCHANGED reserved
    /\ UNCHANGED <<storeVars, index, unread, committed, moved>>

\* A process ends or is killed: its locks and reservations go with it.
ProcessEnds(p) ==
    LET mine == {c \in Callers : ProcessOf[c] = p} IN
    /\ \E c \in mine : seal[c] # "idle"
    /\ seal' = [c \in Callers |-> IF c \in mine THEN "idle" ELSE seal[c]]
    /\ lock' = IF lock \in mine THEN NoOne ELSE lock
    /\ reserved' = [reserved EXCEPT ![p] = FALSE]
    /\ committed' = committed \ mine
    /\ UNCHANGED <<storeVars, index, unread, moved>>

\* A writer that takes no lock moves the index away or replaces it.
Foreign ==
    /\ ~moved /\ moved' = TRUE
    /\ index.state # "absent"
    /\ index' \in {Absent, File("whole", NoOne)}
    /\ UNCHANGED <<storeVars, lock, reserved, seal, unread, committed>>

-----------------------------------------------------------------------------
StoreNext(w) ==
    \/ \E c \in Contents : WriteOpen(w, c)
    \/ Reuse(w) \/ WriteBytes(w) \/ WriteVerified(w) \/ WriteAborted(w) \/ WriterKilled(w)
SealNext(c) ==
    \/ Reserve(c) \/ Refuse(c) \/ Acquire(c) \/ ReadCandidate(c) \/ CreateIndex(c)
    \/ WriteIndex(c) \/ VerifyPublished(c) \/ Rollback(c) \/ Release(c)
Next ==
    \/ \E w \in Writers : StoreNext(w)
    \/ \E c \in Callers : SealNext(c)
    \/ \E p \in Processes : ProcessEnds(p)
    \/ Foreign

Spec == Init /\ [][Next]_vars

-----------------------------------------------------------------------------
Files(S) == [state : {"absent", "torn", "whole"}, by : S]

\* Every variable has its type.
TypeOK ==
    /\ file \in [Contents -> Files(Writers \cup {NoOne})]
    /\ write \in [Writers -> [pc : {"idle", "bytes", "sync", "reuse"}, content : Contents]]
    /\ refs \subseteq Contents /\ withdrawn \subseteq Contents
    /\ index \in Files(Callers \cup {NoOne})
    /\ lock \in Callers \cup {NoOne}
    /\ reserved \in [Processes -> BOOLEAN]
    /\ seal \in [Callers -> {"idle", "lock", "read", "bytes", "verify", "rollback", "release",
                             "returned", "failed", "stopped"}]
    /\ unread \in [Callers -> SUBSET Contents]
    /\ committed \subseteq Callers /\ moved \in BOOLEAN

\* A reference some controller returned stays good: its file is there and
\* whole, whoever is killed or fails meanwhile.  The one exception is in the
\* code: a controller whose sync fails removes a file another one has already
\* reused.
RefsResolve == \A c \in refs \ withdrawn : file[c].state = "whole"

\* While nobody outside touches it, the index a transaction committed is the
\* one in the run root, whole, and the only one ever committed; and what a
\* foreign writer put in its place is never removed or taken for our own.
CommittedIsIndex ==
    [][/\ (~moved => \A c \in committed : Own(c) /\ index.state = "whole")'
       /\ index = File("whole", NoOne) => index' = index /\ committed' \subseteq committed]_vars
=============================================================================
