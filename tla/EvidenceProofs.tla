---------------------------- MODULE EvidenceProofs ---------------------------
(***************************************************************************)
(* Proofs about evidence that several processes keep in shared files: the   *)
(* files of the prefix phase (PrefixSealing), for any contents, controllers, *)
(* callers and processes, the receipts of the baseline launcher              *)
(* (BaselineCapture), for any launchers and any number of edits, and the     *)
(* execution journal (ExecutionJournal), for any number of events, days,     *)
(* migrations and faults and any shard sizes.                                *)
(*                                                                         *)
(* The store: the file a controller is making is known to be its own, since *)
(* only it was created while the name was free, so that nobody else can    *)
(* tear a file that a reference names.  The seal: only the holder of the   *)
(* lock is inside the transaction, and a caller that has written the index *)
(* finds its own identity in it or leaves it alone.                        *)
(*                                                                         *)
(* The receipts: every receipt, on disk or in hand, is one that a launcher   *)
(* made of its own process, so a nonce identifies a receipt and the nonce of  *)
(* an independent collection the two receipts it was made for; whoever finds  *)
(* that nonce in the shared collection file finds its own collection or that  *)
(* of another holder of the same pair.                                       *)
(*                                                                         *)
(* The journal: there is no archive, or the live file continues it, or a     *)
(* migration that stopped half-way left archived events in the live file,    *)
(* and then no check passes.  While a migration runs, its copy of the live   *)
(* file is what the file still holds, but for raced events.                  *)
(***************************************************************************)
EXTENDS PrefixSealing, BaselineCapture, ExecutionJournal,
        FiniteSetTheorems, SequenceTheorems, WellFoundedInduction, TLAPS


-----------------------------------------------------------------------------
(* The invariant of the store.                                             *)

StoreTypeOK ==
  /\ file \in [Contents -> Files(Writers \cup {NoOne})]
  /\ write \in [Writers -> [pc : {"idle", "bytes", "sync", "reuse"}, content : Contents]]
  /\ refs \subseteq Contents
  /\ withdrawn \subseteq Contents

\* A file in the making belongs to its controller and has just the bytes it
\* was given.
MakingInv ==
  \A w \in Writers :
    /\ write[w].pc = "bytes" => file[write[w].content] = File("torn", w)
    /\ write[w].pc = "sync" => file[write[w].content] = File("whole", w)

StoreInv == StoreTypeOK /\ MakingInv /\ RefsResolve

\* The records of the model.
LEMMA FileFields ==
  ASSUME NEW s, NEW b
  PROVE  File(s, b).state = s /\ File(s, b).by = b
  BY DEF File

LEMMA FileType ==
  ASSUME NEW S, NEW s \in {"absent", "torn", "whole"}, NEW b \in S
  PROVE  File(s, b) \in Files(S)
  BY DEF File, Files

LEMMA AbsentFields == Absent.state = "absent" /\ Absent.by = NoOne /\ Absent = File("absent", NoOne)
  BY DEF Absent, File

\* A step of controller w moves w alone: to step q, on content d.
Moves(w, q, d) == write' = [write EXCEPT ![w] = [pc |-> q, content |-> d]]

LEMMA WriteAtMoves ==
  ASSUME StoreTypeOK, NEW w \in Writers, NEW q, WriteAt(w, q)
  PROVE  Moves(w, q, write[w].content)
  <1>1. write[w] \in [pc : {"idle", "bytes", "sync", "reuse"}, content : Contents]
    BY DEF StoreTypeOK
  <1>2. [write[w] EXCEPT !.pc = q] = [pc |-> q, content |-> write[w].content]
    BY <1>1
  <1>3. write' = [write EXCEPT ![w] = [write[w] EXCEPT !.pc = q]]
    BY DEF WriteAt
  <1>4. QED
    BY <1>2, <1>3 DEF Moves

\* What holds of a controller's step holds of the whole store, if it changes
\* no more than the file of the content it works on, which it created.
LEMMA StoreStep ==
  ASSUME StoreInv, NEW w \in Writers, NEW q \in {"idle", "bytes", "sync", "reuse"},
         NEW d \in Contents, NEW f \in Files(Writers \cup {NoOne}),
         Moves(w, q, d), file' = [file EXCEPT ![d] = f],
         refs' \subseteq Contents, withdrawn' \subseteq Contents,
         f # file[d] => file[d].state = "absent" \/ (write[w].pc \in {"bytes", "sync"}
                                                       /\ write[w].content = d),
         q = "bytes" => f = File("torn", w),
         q = "sync" => f = File("whole", w),
         \A x \in refs' \ withdrawn' : x # d => x \in refs \ withdrawn,
         d \in refs' \ withdrawn' => f.state = "whole"
  PROVE  StoreInv'
  <1>0. /\ StoreTypeOK /\ file \in [Contents -> Files(Writers \cup {NoOne})]
        /\ write \in [Writers -> [pc : {"idle", "bytes", "sync", "reuse"}, content : Contents]]
    BY DEF StoreInv, StoreTypeOK
  <1>1. /\ write'[w].pc = q /\ write'[w].content = d
        /\ \A v \in Writers : v # w => write'[v] = write[v]
        /\ file'[d] = f /\ \A x \in Contents : x # d => file'[x] = file[x]
    BY <1>0 DEF Moves
  <1>2. StoreTypeOK'
    BY <1>0 DEF StoreTypeOK, Moves
  <1>3. MakingInv'
    <2>1. ASSUME NEW v \in Writers, v # w
          PROVE  /\ write'[v].pc = "bytes" => file'[write'[v].content] = File("torn", v)
                 /\ write'[v].pc = "sync" => file'[write'[v].content] = File("whole", v)
      <3>1. write'[v] = write[v] /\ write[v].content \in Contents
        BY <1>0, <1>1, <2>1
      <3>2. CASE write[v].content # d
        BY <1>1, <3>1, <3>2 DEF StoreInv, MakingInv
      <3>3. CASE write[v].content = d /\ write[v].pc \in {"bytes", "sync"}
        <4>1. file[d].by = v /\ file[d].state # "absent"
          BY <3>3, FileFields DEF StoreInv, MakingInv
        <4>2. write[w].pc \in {"bytes", "sync"} /\ write[w].content = d => file[d].by = w
          BY FileFields DEF StoreInv, MakingInv
        <4>3. f = file[d]
          BY <2>1, <4>1, <4>2
        <4>4. QED
          BY <1>1, <3>1, <3>3, <4>3 DEF StoreInv, MakingInv
      <3>4. QED
        BY <3>1, <3>2, <3>3
    <2>2. /\ write'[w].pc = "bytes" => file'[write'[w].content] = File("torn", w)
          /\ write'[w].pc = "sync" => file'[write'[w].content] = File("whole", w)
      BY <1>1
    <2>3. QED
      BY <2>1, <2>2 DEF MakingInv
  <1>4. RefsResolve'
    <2>1. ASSUME NEW x \in refs' \ withdrawn'
          PROVE  file'[x].state = "whole"
      <3>1. CASE x = d
        BY <1>1, <2>1, <3>1
      <3>2. CASE x # d
        BY <1>0, <1>1, <2>1, <3>2 DEF StoreInv, RefsResolve
      <3>3. QED
        BY <3>1, <3>2
    <2>2. QED
      BY <2>1 DEF RefsResolve
  <1>5. QED
    BY <1>2, <1>3, <1>4 DEF StoreInv

\* Every step of a controller keeps the invariant of the store.
LEMMA StoreNextKeeps ==
  ASSUME StoreInv, NEW w \in Writers, StoreNext(w)
  PROVE  StoreInv'
  <1> DEFINE d == write[w].content
  <1>0. /\ StoreTypeOK /\ d \in Contents /\ d = write[w].content
        /\ file \in [Contents -> Files(Writers \cup {NoOne})]
        /\ \A x \in Contents : file[x] \in Files(Writers \cup {NoOne})
                                 /\ [file EXCEPT ![x] = file[x]] = file
        /\ refs \subseteq Contents /\ withdrawn \subseteq Contents
    BY DEF StoreInv, StoreTypeOK
  <1>1. /\ File("torn", w) \in Files(Writers \cup {NoOne})
        /\ File("whole", w) \in Files(Writers \cup {NoOne})
        /\ Absent \in Files(Writers \cup {NoOne})
    BY FileType, AbsentFields
  <1>2. \A q : WriteAt(w, q) => Moves(w, q, d)
    BY <1>0, WriteAtMoves
  <1>3. \A x \in refs \ withdrawn : file[x].state = "whole"
    BY DEF StoreInv, RefsResolve
  <1> HIDE DEF d
  <1>4. ASSUME NEW c \in Contents, WriteOpen(w, c)
        PROVE  StoreInv'
    <2>1. CASE file[c].state = "absent" /\ file' = [file EXCEPT ![c] = File("torn", w)]
                 /\ write' = [write EXCEPT ![w] = [pc |-> "bytes", content |-> c]]
      <3>1. c \notin refs \ withdrawn
        BY <1>3, <2>1
      <3>2. UNCHANGED <<refs, withdrawn>> /\ Moves(w, "bytes", c)
        BY <1>4, <2>1 DEF WriteOpen, Moves
      <3>3. QED
        BY <1>0, <1>1, <2>1, <3>1, <3>2, StoreStep
    <2>2. CASE UNCHANGED file /\ write' = [write EXCEPT ![w] = [pc |-> "reuse", content |-> c]]
      <3>1. UNCHANGED <<refs, withdrawn>> /\ Moves(w, "reuse", c)
        BY <1>4, <2>2 DEF WriteOpen, Moves
      <3>2. file' = [file EXCEPT ![c] = file[c]] /\ file[c] \in Files(Writers \cup {NoOne})
        BY <1>0, <2>2
      <3>3. QED
        BY <1>0, <1>3, <3>1, <3>2, StoreStep
    <2>3. QED
      BY <1>4, <2>1, <2>2 DEF WriteOpen
  <1>5. CASE Reuse(w)
    <2>1. /\ Moves(w, "idle", d) /\ file' = [file EXCEPT ![d] = file[d]]
          /\ withdrawn' = withdrawn
          /\ refs' = refs \/ (refs' = refs \cup {d} /\ file[d].state = "whole")
      BY <1>0, <1>2, <1>5 DEF Reuse
    <2>2. /\ refs' \subseteq Contents /\ file[d] \in Files(Writers \cup {NoOne})
          /\ \A x \in refs' \ withdrawn' : x # d => x \in refs \ withdrawn
          /\ d \in refs' \ withdrawn' => file[d].state = "whole"
      BY <1>0, <1>3, <2>1
    <2>3. QED
      BY <1>0, <2>1, <2>2, StoreStep
  <1>6. CASE WriteBytes(w)
    <2>1. write[w].pc = "bytes" /\ file[d] = File("torn", w)
      BY <1>0, <1>6 DEF WriteBytes, StoreInv, MakingInv
    <2>2. [file[d] EXCEPT !.state = "whole"] = File("whole", w)
      BY <2>1 DEF File
    <2>3. file' = [file EXCEPT ![d] = [file[d] EXCEPT !.state = "whole"]]
      BY <1>0, <1>6 DEF WriteBytes
    <2>4. /\ Moves(w, "sync", d) /\ UNCHANGED <<refs, withdrawn>>
          /\ file' = [file EXCEPT ![d] = File("whole", w)]
      BY <1>2, <1>6, <2>2, <2>3 DEF WriteBytes
    <2>5. d \in refs' \ withdrawn' => File("whole", w).state = "whole"
      BY FileFields
    <2>6. QED
      BY <1>0, <1>1, <2>1, <2>4, <2>5, StoreStep
  <1>7. CASE WriteVerified(w)
    <2>1. file[d].state = "whole"
      BY <1>0, <1>7, FileFields DEF WriteVerified, StoreInv, MakingInv
    <2>2. /\ Moves(w, "idle", d) /\ file' = [file EXCEPT ![d] = file[d]]
          /\ withdrawn' = withdrawn /\ refs' = refs \cup {d}
      BY <1>0, <1>2, <1>7 DEF WriteVerified
    <2>3. /\ refs' \subseteq Contents /\ file[d] \in Files(Writers \cup {NoOne})
          /\ \A x \in refs' \ withdrawn' : x # d => x \in refs \ withdrawn
          /\ withdrawn' \subseteq Contents
      BY <1>0, <2>2
    <2>4. d \in refs' \ withdrawn' => file[d].state = "whole"
      BY <2>1
    <2>5. Moves(w, "idle", d) /\ file' = [file EXCEPT ![d] = file[d]] /\ refs' \subseteq Contents
      BY <1>0, <2>2
    <2>6. QED
      BY <1>0, <2>3, <2>4, <2>5, StoreStep
  <1>8. CASE WriteAborted(w)
    <2>1. /\ write[w].pc \in {"bytes", "sync"} /\ Moves(w, "idle", d) /\ refs' = refs
          /\ \/ /\ file' = [file EXCEPT ![d] = Absent]
                /\ withdrawn' = IF d \in refs THEN withdrawn \cup {d} ELSE withdrawn
             \/ UNCHANGED <<file, withdrawn>>
      BY <1>0, <1>2, <1>8 DEF WriteAborted
    <2>2. CASE /\ file' = [file EXCEPT ![d] = Absent]
               /\ withdrawn' = IF d \in refs THEN withdrawn \cup {d} ELSE withdrawn
      <3>1. withdrawn' \subseteq Contents /\ withdrawn \subseteq withdrawn' /\ d \notin refs' \ withdrawn'
        BY <1>0, <2>1, <2>2
      <3>2. QED
        BY <1>0, <1>1, <2>1, <2>2, <3>1, StoreStep
    <2>3. CASE UNCHANGED <<file, withdrawn>>
      <3>1. file' = [file EXCEPT ![d] = file[d]]
        BY <1>0, <2>3
      <3>2. QED
        BY <1>0, <1>3, <2>1, <2>3, <3>1, StoreStep
    <2>4. QED
      BY <2>1, <2>2, <2>3
  <1>9. CASE WriterKilled(w)
    <2>1. /\ Moves(w, "idle", d) /\ file' = [file EXCEPT ![d] = file[d]]
          /\ UNCHANGED <<refs, withdrawn>>
      BY <1>0, <1>2, <1>9 DEF WriterKilled
    <2>2. QED
      BY <1>0, <1>3, <2>1, StoreStep
  <1>10. QED
    BY <1>4, <1>5, <1>6, <1>7, <1>8, <1>9 DEF StoreNext

-----------------------------------------------------------------------------
(* The invariant of the seal.                                              *)

SealTypeOK ==
  /\ index \in Files(Callers \cup {NoOne})
  /\ lock \in Callers \cup {NoOne}
  /\ reserved \in [Processes -> BOOLEAN]
  /\ seal \in [Callers -> {"idle", "lock", "read", "bytes", "verify", "rollback", "release",
                           "returned", "failed", "stopped"}]
  /\ unread \in [Callers -> SUBSET Contents]
  /\ committed \subseteq Callers
  /\ moved \in BOOLEAN

\* The steps that are taken under the lock.
Locked == {"read", "bytes", "verify", "rollback", "release"}

\* Whoever is inside the transaction holds the lock of the run root.
LockInv == \A c \in Callers : seal[c] \in Locked => lock = c

\* A publication is committed when its transaction is over, but for the
\* release.
EndedInv == \A c \in committed : seal[c] \in {"release", "returned", "stopped"}

\* While nobody outside touches the index, a caller that has created it finds
\* it as it left it, and so does one that has committed it.
MineInv ==
  ~moved =>
    /\ \A c \in Callers :
         /\ seal[c] = "bytes" => index = File("torn", c)
         /\ seal[c] = "verify" => index = File("whole", c)
    /\ \A c \in committed : Own(c) /\ index.state = "whole"

\* An index that is nobody's was put there by someone outside.
ForeignInv == index.by = NoOne /\ index.state # "absent" => moved

SealInv == SealTypeOK /\ LockInv /\ EndedInv /\ MineInv /\ ForeignInv

\* What the property forbids a step to do.
ForeignKept == index = File("whole", NoOne) => index' = index /\ committed' \subseteq committed

\* Two callers are never inside the transaction at the same time.
LEMMA OneInside ==
  ASSUME SealInv, NEW c \in Callers, NEW d \in Callers, seal[c] \in Locked, seal[d] \in Locked
  PROVE  c = d
  BY DEF SealInv, LockInv

\* A caller inside its transaction that has not come to the release has
\* committed nothing.
LEMMA InsideNotCommitted ==
  ASSUME SealInv, NEW c \in Callers, seal[c] \in {"idle", "lock", "read", "bytes", "verify", "rollback"}
  PROVE  c \notin committed
  BY DEF SealInv, EndedInv

\* A step of caller c that leaves the index and what is committed alone.
LEMMA QuietStep ==
  ASSUME SealInv, NEW c \in Callers, NEW q,
         SealAt(c, q), SealTypeOK', UNCHANGED <<index, committed, moved>>,
         \A d \in Callers : d # c /\ seal[d] \in Locked => lock' = lock,
         q \in Locked => lock' = c,
         q \notin {"bytes", "verify"} \/ q = seal[c],
         c \in committed => q \in {"release", "returned", "stopped"}
  PROVE  SealInv' /\ ForeignKept
  <1>1. /\ seal'[c] = q /\ \A d \in Callers : d # c => seal'[d] = seal[d]
    BY DEF SealInv, SealTypeOK, SealAt
  <1>2. LockInv'
    BY <1>1 DEF SealInv, LockInv
  <1>3. EndedInv'
    BY <1>1 DEF SealInv, EndedInv, SealTypeOK
  <1>4. MineInv'
    BY <1>1 DEF SealInv, MineInv, Own
  <1>5. ForeignInv' /\ ForeignKept
    BY DEF SealInv, ForeignInv, ForeignKept
  <1>6. QED
    BY <1>2, <1>3, <1>4, <1>5 DEF SealInv

\* A step of the holder c of the lock that changes the index or commits it.
LEMMA HolderStep ==
  ASSUME SealInv, NEW c \in Callers, NEW q,
         seal[c] \in Locked \ {"release"}, q \in Locked,
         SealAt(c, q), SealTypeOK', UNCHANGED <<lock, moved>>,
         index' = index \/ index.state = "absent" \/ Own(c),
         index' # index => index' \in {File("torn", c), File("whole", c), Absent},
         committed' = committed \/ (committed' = committed \cup {c} /\ q = "release"
                                      /\ index' = index /\ Own(c) /\ index.state = "whole"),
         ~moved /\ q = "bytes" => index' = File("torn", c),
         ~moved /\ q = "verify" => index' = File("whole", c)
  PROVE  SealInv' /\ ForeignKept
  <1>0. c # NoOne /\ NoOne \notin Callers
    BY NoOneAssumption
  <1>1. /\ seal'[c] = q /\ \A d \in Callers : d # c => seal'[d] = seal[d]
    BY DEF SealInv, SealTypeOK, SealAt
  <1>2. c \notin committed
    BY InsideNotCommitted DEF Locked
  <1>3. \A d \in Callers : d # c => seal[d] \notin Locked
    BY OneInside
  <1>4. LockInv'
    BY <1>1 DEF SealInv, LockInv
  <1>5. EndedInv'
    BY <1>1, <1>2 DEF SealInv, EndedInv, SealTypeOK
  <1>6. ~moved => \A d \in committed : d # c /\ index' = index
    <2>1. ASSUME ~moved, NEW d \in committed
          PROVE  d # c /\ index' = index
      <3>1. d # c /\ Own(d)
        BY <1>2, <2>1 DEF SealInv, MineInv
      <3>2. QED
        BY <3>1 DEF Own
    <2>2. QED
      BY <2>1
  <1>7. MineInv'
    <2>1. ASSUME ~moved, NEW d \in Callers
          PROVE  /\ seal'[d] = "bytes" => index' = File("torn", d)
                 /\ seal'[d] = "verify" => index' = File("whole", d)
      BY <1>1, <1>3, <2>1 DEF Locked
    <2>2. ASSUME ~moved, NEW d \in committed'
          PROVE  index'.by = d /\ index'.state # "absent" /\ index'.state = "whole"
      BY <1>6, <2>2 DEF SealInv, MineInv, Own
    <2>3. QED
      BY <2>1, <2>2 DEF MineInv, Own
  <1>8. ForeignInv'
    BY <1>0, FileFields, AbsentFields DEF SealInv, ForeignInv
  <1>9. ForeignKept
    BY <1>0, FileFields DEF ForeignKept, Own
  <1>10. QED
    BY <1>4, <1>5, <1>7, <1>8, <1>9 DEF SealInv

\* Every step of a caller keeps the invariant of the seal, and what someone
\* outside put in the place of the index.
LEMMA SealNextKeeps ==
  ASSUME SealInv, NEW c \in Callers, SealNext(c)
  PROVE  SealInv' /\ ForeignKept
  <1>0. /\ SealTypeOK /\ seal \in [Callers -> {"idle", "lock", "read", "bytes", "verify", "rollback",
                                                "release", "returned", "failed", "stopped"}]
        /\ lock \in Callers \cup {NoOne} /\ ProcessOf[c] \in Processes
        /\ unread \in [Callers -> SUBSET Contents] /\ reserved \in [Processes -> BOOLEAN]
        /\ index \in Files(Callers \cup {NoOne}) /\ committed \subseteq Callers
    BY ProcessOfAssumption DEF SealInv, SealTypeOK
  <1>1. NoOne \notin Callers
    BY NoOneAssumption
  <1>2. /\ File("torn", c) \in Files(Callers \cup {NoOne})
        /\ File("whole", c) \in Files(Callers \cup {NoOne})
        /\ Absent \in Files(Callers \cup {NoOne})
    BY FileType, AbsentFields
  <1>3. ASSUME NEW d \in Callers, seal[d] \in Locked
        PROVE  lock = d
    BY <1>3 DEF SealInv, LockInv
  <1>4. seal[c] \in {"idle", "lock", "read", "bytes", "verify", "rollback"} => c \notin committed
    BY InsideNotCommitted
  <1>5. \A q \in {"idle", "lock", "read", "bytes", "verify", "rollback", "release", "returned",
                  "failed", "stopped"} :
          SealAt(c, q) => seal' \in [Callers -> {"idle", "lock", "read", "bytes", "verify", "rollback",
                                                 "release", "returned", "failed", "stopped"}]
    BY <1>0 DEF SealAt
  <1>6. CASE Reserve(c)
    <2>1. /\ seal[c] = "idle" /\ (SealAt(c, "lock") \/ SealAt(c, "failed"))
          /\ UNCHANGED <<index, lock, unread, committed, moved>>
          /\ reserved' \in [Processes -> BOOLEAN]
      BY <1>0, <1>6 DEF Reserve
    <2>2. SealTypeOK'
      BY <1>0, <1>5, <2>1 DEF SealTypeOK
    <2>3. CASE SealAt(c, "lock")
      BY <1>4, <2>1, <2>2, <2>3, QuietStep DEF Locked
    <2>4. CASE SealAt(c, "failed")
      BY <1>4, <2>1, <2>2, <2>4, QuietStep DEF Locked
    <2>5. QED
      BY <2>1, <2>3, <2>4
  <1>7. CASE Refuse(c)
    <2>1. /\ seal[c] = "idle" /\ SealAt(c, "failed")
          /\ UNCHANGED <<index, lock, reserved, unread, committed, moved>>
      BY <1>7 DEF Refuse
    <2>2. SealTypeOK'
      BY <1>0, <1>5, <2>1 DEF SealTypeOK
    <2>3. QED
      BY <1>4, <2>1, <2>2, QuietStep DEF Locked
  <1>8. CASE Acquire(c)
    <2>1. /\ seal[c] = "lock" /\ UNCHANGED <<index, reserved, committed, moved>>
          /\ lock' \in Callers \cup {NoOne} /\ unread' \in [Callers -> SUBSET Contents]
          /\ lock # NoOne => lock' = lock
          /\ SealAt(c, "stopped") \/ (SealAt(c, "read") /\ lock' = c)
      BY <1>0, <1>8 DEF Acquire
    <2>2. SealTypeOK'
      BY <1>0, <1>5, <2>1 DEF SealTypeOK
    <2>3. \A d \in Callers : d # c /\ seal[d] \in Locked => lock' = lock
      BY <1>1, <1>3, <2>1
    <2>4. QED
      BY <1>4, <2>1, <2>2, <2>3, QuietStep DEF Locked
  <1>9. CASE ReadCandidate(c)
    <2>1. /\ seal[c] = "read" /\ UNCHANGED <<index, lock, reserved, committed, moved>>
          /\ \E x \in unread[c] : \/ unread' = [unread EXCEPT ![c] = @ \ {x}] /\ UNCHANGED seal
                                  \/ SealAt(c, "release") /\ UNCHANGED unread
      BY <1>9 DEF ReadCandidate
    <2>2. /\ unread' \in [Callers -> SUBSET Contents]
          /\ seal' = seal \/ SealAt(c, "release")
      BY <1>0, <2>1
    <2>3. SealAt(c, "read") \/ SealAt(c, "release")
      BY <1>0, <2>1, <2>2 DEF SealAt
    <2>4. SealTypeOK'
      BY <1>0, <1>5, <2>1, <2>2, <2>3 DEF SealTypeOK
    <2>5. lock = c
      BY <1>3, <2>1 DEF Locked
    <2>6. QED
      BY <1>4, <2>1, <2>3, <2>4, <2>5, QuietStep DEF Locked
  <1>10. CASE CreateIndex(c)
    <2>1. seal[c] = "read" /\ UNCHANGED <<lock, reserved, unread, committed, moved>>
      BY <1>10 DEF CreateIndex
    <2>2. CASE index.state = "absent" /\ index' = File("torn", c) /\ SealAt(c, "bytes")
      <3>1. SealTypeOK'
        BY <1>0, <1>2, <1>5, <2>1, <2>2 DEF SealTypeOK
      <3>2. QED
        BY <2>1, <2>2, <3>1, HolderStep DEF Locked
    <2>3. CASE SealAt(c, "release") /\ UNCHANGED index
      <3>1. SealTypeOK'
        BY <1>0, <1>5, <2>1, <2>3 DEF SealTypeOK
      <3>2. lock = c
        BY <1>3, <2>1 DEF Locked
      <3>3. QED
        BY <1>4, <2>1, <2>3, <3>1, <3>2, QuietStep DEF Locked
    <2>4. QED
      BY <1>10, <2>2, <2>3 DEF CreateIndex
  <1>11. CASE WriteIndex(c)
    <2>1. /\ seal[c] = "bytes" /\ UNCHANGED <<lock, reserved, unread, committed, moved>>
          /\ \/ Own(c) /\ index' = File("whole", c) /\ SealAt(c, "verify")
             \/ SealAt(c, "rollback") /\ UNCHANGED index
      BY <1>11 DEF WriteIndex
    <2>2. SealTypeOK'
      BY <1>0, <1>2, <1>5, <2>1 DEF SealTypeOK
    <2>3. QED
      BY <2>1, <2>2, HolderStep DEF Locked
  <1>12. CASE VerifyPublished(c)
    <2>1. /\ seal[c] = "verify" /\ UNCHANGED <<index, lock, reserved, unread, moved>>
          /\ \/ Own(c) /\ index.state = "whole" /\ committed' = committed \cup {c}
                /\ SealAt(c, "release")
             \/ SealAt(c, "rollback") /\ UNCHANGED committed
      BY <1>12 DEF VerifyPublished
    <2>2. SealTypeOK'
      BY <1>0, <1>5, <2>1 DEF SealTypeOK
    <2>3. QED
      BY <2>1, <2>2, HolderStep DEF Locked
  <1>13. CASE Rollback(c)
    <2>1. /\ seal[c] = "rollback" /\ SealAt(c, "release")
          /\ UNCHANGED <<lock, reserved, unread, committed, moved>>
          /\ index' = index \/ (Own(c) /\ index' = Absent)
      BY <1>13 DEF Rollback
    <2>2. SealTypeOK'
      BY <1>0, <1>2, <1>5, <2>1 DEF SealTypeOK
    <2>3. QED
      BY <2>1, <2>2, HolderStep DEF Locked
  <1>14. CASE Release(c)
    <2>1. /\ seal[c] = "release" /\ UNCHANGED <<index, unread, committed, moved>>
          /\ lock' \in {lock, NoOne} /\ reserved' \in [Processes -> BOOLEAN]
          /\ \/ SealAt(c, "returned")
             \/ SealAt(c, "failed") /\ c \notin committed
             \/ SealAt(c, "stopped")
      BY <1>0, <1>14 DEF Release
    <2>2. SealTypeOK'
      BY <1>0, <1>5, <2>1 DEF SealTypeOK
    <2>3. \A d \in Callers : d # c => seal[d] \notin Locked
      BY <1>3, <2>1 DEF Locked
    <2>4. QED
      BY <2>1, <2>2, <2>3, QuietStep DEF Locked
  <1>15. QED
    BY <1>6, <1>7, <1>8, <1>9, <1>10, <1>11, <1>12, <1>13, <1>14 DEF SealNext

\* The end of a process takes with it what its callers had, and nothing of
\* the callers of other processes.
LEMMA ProcessEndsKeeps ==
  ASSUME SealInv, NEW p \in Processes, ProcessEnds(p)
  PROVE  SealInv' /\ ForeignKept
  <1> DEFINE mine == {c \in Callers : ProcessOf[c] = p}
  <1>0. SealTypeOK /\ NoOne \notin Callers
    BY NoOneAssumption DEF SealInv
  <1>1. /\ seal' = [c \in Callers |-> IF c \in mine THEN "idle" ELSE seal[c]]
        /\ lock' = IF lock \in mine THEN NoOne ELSE lock
        /\ reserved' = [reserved EXCEPT ![p] = FALSE]
        /\ committed' = committed \ mine
        /\ UNCHANGED <<index, unread, moved>>
        /\ mine \subseteq Callers
    BY DEF ProcessEnds
  <1> HIDE DEF mine
  <1>2. SealTypeOK'
    BY <1>0, <1>1 DEF SealTypeOK
  <1>3. LockInv'
    BY <1>1 DEF SealInv, LockInv, Locked
  <1>4. EndedInv'
    BY <1>0, <1>1 DEF SealInv, EndedInv, SealTypeOK
  <1>5. MineInv'
    BY <1>1 DEF SealInv, MineInv, Own
  <1>6. ForeignInv' /\ ForeignKept
    BY <1>1 DEF SealInv, ForeignInv, ForeignKept
  <1>7. QED
    BY <1>2, <1>3, <1>4, <1>5, <1>6 DEF SealInv

LEMMA ForeignStepKeeps ==
  ASSUME SealInv, Foreign
  PROVE  SealInv' /\ ForeignKept
  <1>1. /\ ~moved /\ moved' = TRUE /\ index.state # "absent"
        /\ index' \in {Absent, File("whole", NoOne)}
        /\ UNCHANGED <<lock, reserved, seal, unread, committed>>
    BY DEF Foreign
  <1>2. index' \in Files(Callers \cup {NoOne})
    BY <1>1, FileType, AbsentFields
  <1>3. SealTypeOK'
    BY <1>1, <1>2 DEF SealInv, SealTypeOK
  <1>4. LockInv' /\ EndedInv'
    BY <1>1 DEF SealInv, LockInv, EndedInv
  <1>5. MineInv' /\ ForeignInv'
    BY <1>1 DEF MineInv, ForeignInv
  <1>6. index # File("whole", NoOne)
    BY <1>1, FileFields DEF SealInv, ForeignInv
  <1>7. QED
    BY <1>3, <1>4, <1>5, <1>6 DEF SealInv, ForeignKept

LEMMA SealStutters ==
  ASSUME SealInv, UNCHANGED sealVars
  PROVE  SealInv' /\ ForeignKept
  <1>1. UNCHANGED <<index, lock, reserved, seal, unread, committed, moved>>
    BY DEF sealVars
  <1>2. SealTypeOK' /\ LockInv' /\ EndedInv'
    BY <1>1 DEF SealInv, SealTypeOK, LockInv, EndedInv
  <1>3. MineInv' /\ ForeignInv'
    BY <1>1 DEF SealInv, MineInv, ForeignInv, Own
  <1>4. QED
    BY <1>1, <1>2, <1>3 DEF SealInv, ForeignKept

LEMMA StoreStutters ==
  ASSUME StoreInv, UNCHANGED storeVars
  PROVE  StoreInv'
  BY DEF StoreInv, StoreTypeOK, MakingInv, RefsResolve, storeVars

-----------------------------------------------------------------------------
(* The two together.                                                       *)

IInv == StoreInv /\ SealInv

LEMMA InitInv == Init => IInv
  <1> SUFFICES ASSUME Init PROVE IInv
    OBVIOUS
  <1>1. \A S : NoOne \in S => Absent \in Files(S)
    BY FileType, AbsentFields
  <1>2. (CHOOSE c \in Contents : TRUE) \in Contents
    BY ContentsAssumption
  <1>3. StoreTypeOK
    BY <1>1, <1>2 DEF Init, StoreTypeOK
  <1>4. MakingInv /\ RefsResolve
    BY DEF Init, MakingInv, RefsResolve
  <1>5. SealTypeOK
    BY <1>1 DEF Init, SealTypeOK
  <1>6. LockInv /\ EndedInv /\ MineInv /\ ForeignInv
    BY AbsentFields DEF Init, LockInv, EndedInv, MineInv, ForeignInv, Locked
  <1>7. QED
    BY <1>3, <1>4, <1>5, <1>6 DEF IInv, StoreInv, SealInv

LEMMA NextKeeps == IInv /\ [Next]_vars => IInv' /\ ForeignKept
  <1> SUFFICES ASSUME StoreInv, SealInv, [Next]_vars PROVE IInv' /\ ForeignKept
    BY DEF IInv
  <1>1. ASSUME NEW w \in Writers, StoreNext(w) PROVE IInv' /\ ForeignKept
    <2>1. UNCHANGED sealVars
      BY <1>1 DEF StoreNext, WriteOpen, Reuse, WriteBytes, WriteVerified, WriteAborted, WriterKilled
    <2>2. QED
      BY <1>1, <2>1, StoreNextKeeps, SealStutters DEF IInv
  <1>2. ASSUME NEW c \in Callers, SealNext(c) PROVE IInv' /\ ForeignKept
    <2>1. UNCHANGED storeVars
      BY <1>2 DEF SealNext, Reserve, Refuse, Acquire, ReadCandidate, CreateIndex, WriteIndex,
                  VerifyPublished, Rollback, Release
    <2>2. QED
      BY <1>2, <2>1, SealNextKeeps, StoreStutters DEF IInv
  <1>3. ASSUME NEW p \in Processes, ProcessEnds(p) PROVE IInv' /\ ForeignKept
    <2>1. UNCHANGED storeVars
      BY <1>3 DEF ProcessEnds
    <2>2. QED
      BY <1>3, <2>1, ProcessEndsKeeps, StoreStutters DEF IInv
  <1>4. CASE Foreign
    <2>1. UNCHANGED storeVars
      BY <1>4 DEF Foreign
    <2>2. QED
      BY <1>4, <2>1, ForeignStepKeeps, StoreStutters DEF IInv
  <1>5. CASE UNCHANGED vars
    <2>1. UNCHANGED storeVars /\ UNCHANGED sealVars
      BY <1>5 DEF vars, storeVars, sealVars
    <2>2. QED
      BY <2>1, SealStutters, StoreStutters DEF IInv
  <1>6. QED
    BY <1>1, <1>2, <1>3, <1>4, <1>5 DEF Next

\* Every variable always has its type (ControllerArtifactStore.write and
\* seal_prefix_index in any number of controllers and callers).
THEOREM TypeCorrect == Spec => []TypeOK
  <1>1. IInv => TypeOK
    BY DEF IInv, StoreInv, SealInv, StoreTypeOK, SealTypeOK, TypeOK
  <1>2. QED
    BY InitInv, NextKeeps, <1>1, PTL DEF Spec

\* A reference ControllerArtifactStore.write returned resolves to whole bytes
\* from then on, whoever fails or is killed, unless a creator whose sync
\* failed removed the file after others reused it.
THEOREM RefsAlwaysResolve == Spec => []RefsResolve
  <1>1. IInv => RefsResolve
    BY DEF IInv, StoreInv
  <1>2. QED
    BY InitInv, NextKeeps, <1>1, PTL DEF Spec

\* The index a transaction of seal_prefix_index committed is the one in the
\* run root, and a foreign one is neither removed nor taken for our own.
THEOREM CommittedIsAlwaysIndex == Spec => CommittedIsIndex
  <1>1. IInv' => (~moved => \A c \in committed : Own(c) /\ index.state = "whole")'
    BY DEF IInv, SealInv, MineInv
  <1>2. IInv /\ [Next]_vars =>
          [/\ (~moved => \A c \in committed : Own(c) /\ index.state = "whole")'
           /\ index = File("whole", NoOne) => index' = index /\ committed' \subseteq committed]_vars
    BY <1>1, NextKeeps DEF ForeignKept
  <1>3. QED
    BY InitInv, NextKeeps, <1>2, PTL DEF Spec, CommittedIsIndex

-----------------------------------------------------------------------------
(* The invariant of the launchers and the auditor (BaselineCapture).        *)

Worlds ==
  [commit : Aspects.commit, tracked : Aspects.tracked, ignored : Aspects.ignored,
   launcher : Aspects.launcher, marker : Aspects.marker, uv : Aspects.uv,
   env : Aspects.env, directory : Aspects.directory]
Suites == {TestsOf(w) : w \in Worlds}
Hooks == {HookOf(w) : w \in Worlds}
Captured == {ContextOf(w) : w \in Worlds} \cup {None}
Nonces == Launchers \X Runs
Junits == [suite : Nonces, green : BOOLEAN, tests : Suites \cup {None}]
CollectionsOf(nonces) == [nonce : nonces, tests : Suites, hook : Hooks]
Collections == CollectionsOf(Nonces)
ReceiptSet ==
  [nonce : Nonces, context : Captured, run : Runs, nonceFile : Nonces \cup {None},
   junit : Junits, collection : Collections, output : Nonces]

Minting == {"mint", "capability", "pair", "accepted"}
AfterSecond == Minting \cup {"unlink", "independent", "compare"}
AfterFirst == AfterSecond \cup {"second"}
Validating == AfterFirst \cup {"context", "first"}
Past == Minting \cup {"compare", "failed"}
Running == {"nonce", "collect", "tests", "output", "red", "evidence"}
Early == {"check", "clear", "initial", "open"}
Stages == Early \cup Running \cup {"journal", "receipt", "between", "final", "owned"}
          \cup Validating \cup {"off", "read", "failed"}

Local == [pc : Stages, run : Runs, ctx : Captured, suite : Suites \cup {None},
          receipts : Seq(ReceiptSet)]

FilesOK ==
  /\ files = [n \in Names |-> files[n]]
  /\ \A i \in Runs :
       /\ files[<<"nonce", i>>] \in Nonces \cup {None}
       /\ files[<<"collection", i>>] \in Collections \cup {None}
       /\ files[<<"junit", i>>] \in Junits \cup {None}
       /\ files[<<"receipt", i>>] \in ReceiptSet \cup {None}

KindInv == world \in Worlds /\ actor \in [Actors -> Local] /\ FilesOK

\* How many receipts an actor has at each of its steps.
CountInv(a, s) ==
  IF a = Auditor
  THEN /\ s.pc \in Validating \cup {"off", "read", "failed"}
       /\ Len(s.receipts) = IF s.pc \in {"off", "read"} THEN 0 ELSE 2
  ELSE /\ s.pc # "read"
       /\ Len(s.receipts) <= 2
       /\ s.pc \in Early => s.run = 1 /\ Len(s.receipts) = 0
       /\ s.pc \in Running => Len(s.receipts) = s.run - 1
       /\ s.pc \in {"journal", "receipt"} => Len(s.receipts) = s.run
       /\ s.pc = "between" => Len(s.receipts) = 1
       /\ s.pc \in {"final", "owned"} \cup Validating => Len(s.receipts) = 2

\* What the validation has established of the receipts it passed.
Checked(r, ctx) ==
  r.context = ctx /\ r.nonceFile = r.nonce /\ r.collection.tests = r.junit.tests
CheckedInv(s) ==
  /\ s.pc \in AfterFirst => Checked(s.receipts[1], s.ctx)
  /\ s.pc \in AfterSecond =>
       Checked(s.receipts[2], s.ctx)
       /\ s.receipts[1].collection.tests = s.receipts[2].collection.tests

LocalInv(a, s) == CountInv(a, s) /\ CheckedInv(s)

\* A receipt tells of one process of one launcher.
Good(r, b, i) ==
  /\ r.nonce = <<b, i>> /\ r.run = i /\ r.junit.green
  /\ r.junit.suite = r.nonce /\ r.collection.nonce = r.nonce
OwnInv ==
  \A b \in Launchers : \A i \in 1 .. Len(actor[b].receipts) : Good(actor[b].receipts[i], b, i)

\* Every receipt, in a file or in hand, is one that a launcher holds.
HeldBy(r, i) ==
  \E b \in Launchers : i \in 1 .. Len(actor[b].receipts) /\ r = actor[b].receipts[i]
FileInv == \A i \in Runs : files[<<"receipt", i>>] # None => HeldBy(files[<<"receipt", i>>], i)
OriginInv ==
  \A a \in Actors : \A i \in 1 .. Len(actor[a].receipts) : HeldBy(actor[a].receipts[i], i)

\* The independent collection on disk is somebody's.
CollectedBy(c, b) ==
  /\ actor[b].pc \in Past /\ Len(actor[b].receipts) = 2
  /\ c.nonce = PairNonce(First(b), Second(b)) /\ c.tests = actor[b].suite
ValidationInv ==
  files[<<"validation", 0>>] # None => \E b \in Actors : CollectedBy(files[<<"validation", 0>>], b)

\* What was compared is the actor's own collection, or that of another holder
\* of the same pair.
Matched(a, s) ==
  \/ s.suite = s.receipts[1].collection.tests
  \/ \E b \in Actors \ {a} : actor[b].receipts = s.receipts
MatchInv == \A a \in Actors : actor[a].pc \in Minting => Matched(a, actor[a])

GrantInv ==
  /\ KindInv
  /\ \A a \in Actors : LocalInv(a, actor[a])
  /\ OwnInv /\ FileInv /\ OriginInv /\ ValidationInv /\ MatchInv

-----------------------------------------------------------------------------
(* One step of one actor.                                                  *)

LEMMA ActorMoves ==
  ASSUME KindInv, NEW a \in Actors, NEW s, actor' = [actor EXCEPT ![a] = s]
  PROVE  \A b \in Actors : actor'[b] = IF b = a THEN s ELSE actor[b]
  BY DEF KindInv

LEMMA StateOf ==
  ASSUME KindInv, NEW a \in Actors
  PROVE  /\ actor[a] \in Local /\ actor[a].pc \in Stages /\ actor[a].run \in Runs
         /\ actor[a].ctx \in Captured /\ actor[a].suite \in Suites \cup {None}
         /\ actor[a].receipts \in Seq(ReceiptSet)
  BY DEF KindInv, Local

\* A step that only moves the program counter.
Moved(a, p) == [actor[a] EXCEPT !.pc = p]

LEMMA GotoMoves ==
  ASSUME KindInv, NEW a \in Actors, NEW p \in Stages, Goto(a, p)
  PROVE  /\ actor' = [actor EXCEPT ![a] = Moved(a, p)]
         /\ Moved(a, p) \in Local /\ Moved(a, p).pc = p /\ Moved(a, p).run = actor[a].run
         /\ Moved(a, p).ctx = actor[a].ctx /\ Moved(a, p).suite = actor[a].suite
         /\ Moved(a, p).receipts = actor[a].receipts
  <1>1. actor[a] \in Local
    BY StateOf
  <1>2. /\ Moved(a, p) \in Local /\ Moved(a, p).pc = p /\ Moved(a, p).run = actor[a].run
        /\ Moved(a, p).ctx = actor[a].ctx /\ Moved(a, p).suite = actor[a].suite
        /\ Moved(a, p).receipts = actor[a].receipts
    BY <1>1 DEF Local, Moved
  <1>3. actor' = [actor EXCEPT ![a] = Moved(a, p)]
    BY DEF Goto, Moved
  <1>4. QED
    BY <1>2, <1>3

LEMMA FileWritten ==
  ASSUME FilesOK, NEW n \in Names, NEW c, WriteArtifact(n, c)
  PROVE  /\ files' = [m \in Names |-> files'[m]]
         /\ \A m \in Names : files'[m] = IF m = n THEN c ELSE files[m]
  BY DEF FilesOK, WriteArtifact

LEMMA RunNames ==
  ASSUME NEW i \in Runs, NEW k \in RunFiles
  PROVE  <<k, i>> \in Names
  BY DEF Names

LEMMA ValidationName == <<"validation", 0>> \in Names /\ <<"pair", 0>> \in Names
  BY DEF Names

\* What a step of an actor leaves as it was when it takes no receipts.
FilesKept ==
  /\ FilesOK'
  /\ \A i \in Runs : files'[<<"receipt", i>>] \in {None, files[<<"receipt", i>>]}
  /\ files'[<<"validation", 0>>] \in {None, files[<<"validation", 0>>]}

LEMMA SameFiles == ASSUME FilesOK, UNCHANGED files PROVE FilesKept
  BY DEF FilesOK, FilesKept

\* The receipts that are held stay held.
ReceiptsKept ==
  \A b \in Actors :
    /\ \A i \in 1 .. Len(actor[b].receipts) :
         i \in 1 .. Len(actor'[b].receipts) /\ actor'[b].receipts[i] = actor[b].receipts[i]
    /\ Len(actor[b].receipts) = 2 => actor'[b].receipts = actor[b].receipts

LEMMA HeldByKept ==
  ASSUME ReceiptsKept, NEW r, NEW i, HeldBy(r, i)
  PROVE  \E b \in Launchers : i \in 1 .. Len(actor'[b].receipts) /\ r = actor'[b].receipts[i]
  BY DEF ReceiptsKept, HeldBy, Actors

\* A step of one actor that takes no receipts.
LEMMA HandsKept ==
  ASSUME GrantInv, NEW a \in Actors, NEW s \in Local, actor' = [actor EXCEPT ![a] = s],
         s.receipts = actor[a].receipts, LocalInv(a, s),
         s.pc \in Minting => Matched(a, s),
         actor[a].pc \in Past => s.pc \in Past /\ s.suite = actor[a].suite,
         world' \in Worlds, FilesOK',
         \A i \in Runs : files'[<<"receipt", i>>] # None => HeldBy(files'[<<"receipt", i>>], i),
         \/ files'[<<"validation", 0>>] \in {None, files[<<"validation", 0>>]}
         \/ CollectedBy(files[<<"validation", 0>>], a)'
  PROVE  GrantInv'
  <1>1. \A b \in Actors : actor'[b] = IF b = a THEN s ELSE actor[b]
    BY ActorMoves DEF GrantInv
  <1>2. \A b \in Actors : actor'[b].receipts = actor[b].receipts
    BY <1>1
  <1>3. KindInv'
    BY <1>1 DEF GrantInv, KindInv
  <1>4. \A b \in Actors : LocalInv(b, actor'[b])
    BY <1>1 DEF GrantInv
  <1>5. OwnInv'
    BY <1>2 DEF GrantInv, OwnInv, Actors
  <1>6. ReceiptsKept
    BY <1>2 DEF ReceiptsKept
  <1>7. FileInv'
    <2>1. SUFFICES ASSUME NEW i \in Runs, files'[<<"receipt", i>>] # None
                   PROVE  \E b \in Launchers : i \in 1 .. Len(actor'[b].receipts)
                             /\ files'[<<"receipt", i>>] = actor'[b].receipts[i]
      BY DEF FileInv, HeldBy
    <2>2. QED
      BY <1>6, <2>1, HeldByKept
  <1>8. OriginInv'
    <2>1. SUFFICES ASSUME NEW b \in Actors, NEW i \in 1 .. Len(actor'[b].receipts)
                   PROVE  HeldBy(actor[b].receipts[i], i)
      BY <1>2, <1>6, HeldByKept DEF OriginInv, HeldBy
    <2>2. QED
      BY <1>2, <2>1 DEF GrantInv, OriginInv
  <1>9. ValidationInv'
    <2>1. SUFFICES ASSUME files'[<<"validation", 0>>] # None,
                          files'[<<"validation", 0>>] = files[<<"validation", 0>>]
                   PROVE  \E b \in Actors : CollectedBy(files[<<"validation", 0>>], b)'
      BY DEF ValidationInv
    <2>2. PICK b \in Actors : CollectedBy(files[<<"validation", 0>>], b)
      BY <2>1 DEF GrantInv, ValidationInv
    <2>3. actor'[b].pc \in Past /\ actor'[b].suite = actor[b].suite
      BY <1>1, <2>2 DEF CollectedBy
    <2>4. CollectedBy(files[<<"validation", 0>>], b)'
      BY <1>2, <2>1, <2>2, <2>3 DEF CollectedBy, First, Second
    <2>5. QED
      BY <2>4
  <1>10. MatchInv'
    <2>1. SUFFICES ASSUME NEW b \in Actors, actor'[b].pc \in Minting
                   PROVE  \/ actor'[b].suite = actor'[b].receipts[1].collection.tests
                          \/ \E c \in Actors \ {b} : actor'[c].receipts = actor'[b].receipts
      BY DEF MatchInv, Matched
    <2>2. CASE b = a
      BY <1>1, <1>2, <2>1, <2>2 DEF Matched
    <2>3. CASE b # a
      BY <1>1, <1>2, <2>1, <2>3 DEF GrantInv, MatchInv, Matched
    <2>4. QED
      BY <2>2, <2>3
  <1>11. QED
    BY <1>3, <1>4, <1>5, <1>7, <1>8, <1>9, <1>10 DEF GrantInv, LocalInv, CountInv, CheckedInv, Checked

LEMMA QuietKeeps ==
  ASSUME GrantInv, NEW a \in Actors, NEW s \in Local, actor' = [actor EXCEPT ![a] = s],
         s.receipts = actor[a].receipts, LocalInv(a, s),
         s.pc \in Minting => Matched(a, s),
         actor[a].pc \in Past => s.pc \in Past /\ s.suite = actor[a].suite,
         world' \in Worlds, FilesKept
  PROVE  GrantInv'
  <1>1. \A i \in Runs : files'[<<"receipt", i>>] # None => HeldBy(files'[<<"receipt", i>>], i)
    BY DEF FilesKept, GrantInv, FileInv
  <1>2. QED
    BY <1>1, HandsKept DEF FilesKept

-----------------------------------------------------------------------------
(* Steps that keep the receipts.                                           *)

LEMMA WriteKeeps ==
  ASSUME FilesOK, NEW k \in RunFiles \ {"receipt"}, NEW i \in Runs, NEW c,
         WriteArtifact(<<k, i>>, c),
         k = "nonce" => c \in Nonces, k = "collection" => c \in Collections,
         k = "junit" => c \in Junits
  PROVE  FilesKept
  <1>1. /\ files' = [m \in Names |-> files'[m]]
        /\ \A m \in Names : files'[m] = IF m = <<k, i>> THEN c ELSE files[m]
    BY RunNames, FileWritten
  <1>2. \A j \in Runs : \A q \in RunFiles :
          files'[<<q, j>>] = IF q = k /\ j = i THEN c ELSE files[<<q, j>>]
    BY <1>1, RunNames
  <1>3. files'[<<"validation", 0>>] = files[<<"validation", 0>>]
    BY <1>1, ValidationName DEF Runs
  <1>4. FilesOK'
    BY <1>1, <1>2 DEF FilesOK, RunFiles
  <1>5. \A j \in Runs : files'[<<"receipt", j>>] = files[<<"receipt", j>>]
    BY <1>2 DEF RunFiles
  <1>6. QED
    BY <1>3, <1>4, <1>5 DEF FilesKept

LEMMA WriteOther ==
  ASSUME FilesOK, NEW n \in {<<"validation", 0>>, <<"pair", 0>>}, NEW c,
         WriteArtifact(n, c)
  PROVE  /\ FilesOK' /\ \A i \in Runs : files'[<<"receipt", i>>] = files[<<"receipt", i>>]
         /\ files'[<<"validation", 0>>]
              = IF n = <<"validation", 0>> THEN c ELSE files[<<"validation", 0>>]
  <1>1. /\ files' = [m \in Names |-> files'[m]]
        /\ \A m \in Names : files'[m] = IF m = n THEN c ELSE files[m]
    BY ValidationName, FileWritten
  <1>2. \A j \in Runs : \A q \in RunFiles : files'[<<q, j>>] = files[<<q, j>>]
    BY <1>1, RunNames DEF Runs
  <1>3. FilesOK'
    BY <1>1, <1>2 DEF FilesOK, RunFiles
  <1>4. QED
    BY <1>1, <1>2, <1>3, ValidationName DEF RunFiles

LEMMA SyncedWorld ==
  ASSUME world \in Worlds
  PROVE  Synced(world) \in Worlds /\ ContextOf(world) \in Captured
         /\ TestsOf(world) \in Suites /\ HookOf(world) \in Hooks
  <1>1. Synced(world) \in Worlds
    BY DEF Synced, Worlds, Aspects
  <1>2. QED
    BY <1>1 DEF Captured, Suites, Hooks

LEMMA GotoKeeps ==
  ASSUME GrantInv, NEW a \in Actors, NEW p \in Stages, Goto(a, p),
         LocalInv(a, Moved(a, p)), p \in Minting => Matched(a, Moved(a, p)),
         actor[a].pc \in Past => p \in Past, world' \in Worlds, FilesKept
  PROVE  GrantInv'
  BY GotoMoves, QuietKeeps DEF GrantInv

LEMMA FailKeeps ==
  ASSUME GrantInv, NEW a \in Actors, Goto(a, "failed"), actor[a].pc \notin {"off", "read"},
         world' \in Worlds, FilesKept
  PROVE  GrantInv'
  <1>1. "failed" \in Stages /\ "failed" \notin Minting /\ "failed" \in Past
    BY DEF Stages, Minting, Past
  <1>2. LocalInv(a, actor[a])
    BY DEF GrantInv
  <1>3. LocalInv(a, Moved(a, "failed"))
    BY <1>1, <1>2, GotoMoves DEF GrantInv, LocalInv, CountInv, CheckedInv, Early, Running,
       Validating, AfterFirst, AfterSecond, Minting
  <1>4. QED
    BY <1>1, <1>3, GotoKeeps

LEMMA RejectKeeps ==
  ASSUME GrantInv, NEW a \in Actors, Reject(a), actor[a].pc \notin {"off", "read"},
         world' \in Worlds
  PROVE  GrantInv'
  BY FailKeeps, SameFiles DEF Reject, GrantInv, KindInv

LEMMA CapturesKeep ==
  ASSUME GrantInv, NEW a \in Actors, NEW ctx, NEW s, Captures(a, ctx, s),
         actor[a].pc \notin {"off", "read"},
         ctx = ContextOf(world) =>
           /\ s \in Local /\ s.receipts = actor[a].receipts /\ LocalInv(a, s)
           /\ s.pc \in Minting => Matched(a, s)
           /\ actor[a].pc \in Past => s.pc \in Past /\ s.suite = actor[a].suite
  PROVE  GrantInv'
  <1>1. world \in Worlds /\ Synced(world) \in Worlds
    BY SyncedWorld DEF GrantInv, KindInv
  <1>2. CASE Reject(a) /\ world' \in {world, Synced(world)}
    BY <1>1, <1>2, RejectKeeps
  <1>3. CASE /\ ctx = ContextOf(world) /\ actor' = [actor EXCEPT ![a] = s]
             /\ UNCHANGED files /\ world' = Synced(world)
    <2>1. FilesKept
      BY <1>3, SameFiles DEF GrantInv, KindInv
    <2>2. QED
      BY <1>1, <1>3, <2>1, QuietKeeps
  <1>4. QED
    BY <1>2, <1>3 DEF Captures

\* The steps at which a launcher or the auditor only moves on.
LEMMA StepKeeps ==
  ASSUME GrantInv, NEW a \in Actors, NEW p \in Stages \ (Minting \cup {"off", "read"}),
         Goto(a, p), actor[a].pc \notin Past \cup {"off", "read"},
         CountInv(a, Moved(a, p)), CheckedInv(Moved(a, p)), world' \in Worlds, FilesKept
  PROVE  GrantInv'
  BY GotoKeeps DEF LocalInv

LEMMA LauncherState ==
  ASSUME GrantInv, NEW a \in Launchers
  PROVE  /\ a \in Actors /\ a # Auditor /\ actor[a] \in Local /\ LocalInv(a, actor[a])
         /\ world \in Worlds /\ FilesOK
  BY BaselineActors DEF GrantInv, Actors, KindInv

LEMMA CheckFreshKeeps ==
  ASSUME GrantInv, NEW a \in Launchers, CheckFresh(a)
  PROVE  GrantInv'
  <1>1. PICK p \in {"clear", "failed"} : Goto(a, p)
    BY DEF CheckFresh
  <1>2. p \in Stages \ (Minting \cup {"off", "read"})
    BY DEF Stages, Early, Running, Validating, AfterFirst, AfterSecond, Minting, Past
  <1>3. CountInv(a, Moved(a, p)) /\ CheckedInv(Moved(a, p))
    BY <1>1, <1>2, LauncherState, GotoMoves DEF GrantInv, CheckFresh, At, LocalInv, CountInv, CheckedInv, Stages, Early, Running, Validating, AfterFirst, AfterSecond, Minting, Past
  <1>4. FilesKept /\ world' \in Worlds
    BY LauncherState, SameFiles DEF CheckFresh
  <1>5. QED
    BY <1>1, <1>2, <1>3, <1>4, LauncherState, StepKeeps DEF CheckFresh, At, Past, Minting

LEMMA ClearArtifactsKeeps ==
  ASSUME GrantInv, NEW a \in Launchers, ClearArtifacts(a)
  PROVE  GrantInv'
  <1>1. "initial" \in Stages \ (Minting \cup {"off", "read"})
    BY DEF Stages, Early, Running, Validating, AfterFirst, AfterSecond, Minting, Past
  <1>2. CountInv(a, Moved(a, "initial")) /\ CheckedInv(Moved(a, "initial"))
    BY <1>1, LauncherState, GotoMoves DEF GrantInv, ClearArtifacts, At, LocalInv, CountInv,
       CheckedInv, Stages, Early, Running, Validating, AfterFirst, AfterSecond, Minting, Past
  <1>3. \A n \in Names : files'[n] = None
    BY DEF ClearArtifacts
  <1>4. FilesOK'
    BY <1>3, RunNames DEF FilesOK, ClearArtifacts, RunFiles
  <1>5. FilesKept
    BY <1>3, <1>4, RunNames, ValidationName DEF FilesKept, RunFiles
  <1>6. QED
    BY <1>1, <1>2, <1>5, LauncherState, StepKeeps DEF ClearArtifacts, At, Past, Minting

LEMMA CaptureInitialKeeps ==
  ASSUME GrantInv, NEW a \in Launchers, CaptureInitial(a)
  PROVE  GrantInv'
  <1> DEFINE s == Seen(a, "open")
  <1>1. /\ s \in Local /\ s.receipts = actor[a].receipts /\ s.pc = "open" /\ s.run = actor[a].run
    BY LauncherState, SyncedWorld DEF Seen, Local, Stages, Early, Running, Validating, AfterFirst, AfterSecond, Minting, Past
  <1>2. LocalInv(a, s)
    BY <1>1, LauncherState DEF CaptureInitial, At, LocalInv, CountInv, CheckedInv, Stages, Early, Running, Validating, AfterFirst, AfterSecond, Minting, Past
  <1>3. s.pc \notin Minting /\ actor[a].pc \notin Past
    BY <1>1 DEF CaptureInitial, At, Past, Minting
  <1>4. QED
    BY <1>1, <1>2, <1>3, LauncherState, CapturesKeep DEF CaptureInitial, At

LEMMA OpenSessionKeeps ==
  ASSUME GrantInv, NEW a \in Launchers, OpenSession(a)
  PROVE  GrantInv'
  <1>1. "nonce" \in Stages \ (Minting \cup {"off", "read"})
    BY DEF Stages, Early, Running, Validating, AfterFirst, AfterSecond, Minting, Past
  <1>2. CountInv(a, Moved(a, "nonce")) /\ CheckedInv(Moved(a, "nonce"))
    BY <1>1, LauncherState, GotoMoves DEF GrantInv, OpenSession, At, LocalInv, CountInv,
       CheckedInv, Stages, Early, Running, Validating, AfterFirst, AfterSecond, Minting, Past
  <1>3. FilesKept
    BY LauncherState, SameFiles DEF OpenSession
  <1>4. QED
    BY <1>1, <1>2, <1>3, LauncherState, StepKeeps DEF OpenSession, At, Past, Minting

LEMMA NonceOf == ASSUME GrantInv, NEW a \in Launchers PROVE Nonce(a) \in Nonces
  BY LauncherState DEF Nonce, Nonces, Local

LEMMA WriteNonceKeeps ==
  ASSUME GrantInv, NEW a \in Launchers, WriteNonce(a)
  PROVE  GrantInv'
  <1>1. "collect" \in Stages \ (Minting \cup {"off", "read"})
    BY DEF Stages, Early, Running, Validating, AfterFirst, AfterSecond, Minting, Past
  <1>2. CountInv(a, Moved(a, "collect")) /\ CheckedInv(Moved(a, "collect"))
    BY <1>1, LauncherState, GotoMoves DEF GrantInv, WriteNonce, At, LocalInv, CountInv,
       CheckedInv, Stages, Early, Running, Validating, AfterFirst, AfterSecond, Minting, Past
  <1>3. FilesKept
    BY LauncherState, StateOf, NonceOf, WriteKeeps DEF WriteNonce, Name, RunFiles, GrantInv
  <1>4. QED
    BY <1>1, <1>2, <1>3, LauncherState, StepKeeps DEF WriteNonce, At, Past, Minting

LEMMA SuiteCollectsKeeps ==
  ASSUME GrantInv, NEW a \in Launchers, SuiteCollects(a)
  PROVE  GrantInv'
  <1> DEFINE s == [actor[a] EXCEPT !.pc = "tests", !.suite = TestsOf(world)]
  <1>1. /\ s \in Local /\ s.receipts = actor[a].receipts /\ s.pc = "tests" /\ s.run = actor[a].run
    BY LauncherState, SyncedWorld DEF Local, Stages, Early, Running, Validating, AfterFirst, AfterSecond, Minting, Past
  <1>2. LocalInv(a, s)
    BY <1>1, LauncherState DEF SuiteCollects, At, LocalInv, CountInv, CheckedInv, Stages, Early, Running, Validating, AfterFirst, AfterSecond, Minting, Past
  <1>3. s.pc \notin Minting /\ actor[a].pc \notin Past
    BY <1>1 DEF SuiteCollects, At, Past, Minting
  <1>4. FilesKept
    <2>1. [nonce |-> Nonce(a), tests |-> TestsOf(world), hook |-> HookOf(world)] \in Collections
      BY LauncherState, NonceOf, SyncedWorld DEF Collections, CollectionsOf
    <2>2. "collection" \in RunFiles \ {"receipt"} /\ actor[a].run \in Runs
      BY LauncherState, StateOf DEF RunFiles, GrantInv
    <2>3. QED
      BY <2>1, <2>2, LauncherState, WriteKeeps DEF SuiteCollects, Name
  <1>5. actor' = [actor EXCEPT ![a] = s]
    BY DEF SuiteCollects
  <1>6. world' \in Worlds
    BY LauncherState DEF SuiteCollects
  <1>7. QED
    BY <1>1, <1>2, <1>3, <1>4, <1>5, <1>6, LauncherState, QuietKeeps

LEMMA SuiteEndsKeeps ==
  ASSUME GrantInv, NEW a \in Launchers, NEW green \in BOOLEAN, SuiteEnds(a, green)
  PROVE  GrantInv'
  <1>1. PICK p \in {"output", "red"} : Goto(a, p)
    BY DEF SuiteEnds
  <1>2. p \in Stages \ (Minting \cup {"off", "read"})
    BY DEF Stages, Early, Running, Validating, AfterFirst, AfterSecond, Minting, Past
  <1>3. CountInv(a, Moved(a, p)) /\ CheckedInv(Moved(a, p))
    BY <1>1, <1>2, LauncherState, GotoMoves DEF GrantInv, SuiteEnds, At, LocalInv, CountInv, CheckedInv, Stages, Early, Running, Validating, AfterFirst, AfterSecond, Minting, Past
  <1>4. FilesKept
    <2>1. [suite |-> Nonce(a), green |-> green, tests |-> actor[a].suite] \in Junits
      BY LauncherState, StateOf, NonceOf DEF Junits, GrantInv
    <2>2. QED
      BY <2>1, LauncherState, StateOf, WriteKeeps DEF SuiteEnds, Name, RunFiles, GrantInv
  <1>5. QED
    BY <1>1, <1>2, <1>3, <1>4, LauncherState, StepKeeps DEF SuiteEnds, At, Past, Minting

LEMMA WriteOutputKeeps ==
  ASSUME GrantInv, NEW a \in Launchers, WriteOutput(a)
  PROVE  GrantInv'
  <1>1. PICK p \in {"evidence", "failed"} : Goto(a, p)
    BY DEF WriteOutput
  <1>2. p \in Stages \ (Minting \cup {"off", "read"})
    BY DEF Stages, Early, Running, Validating, AfterFirst, AfterSecond, Minting, Past
  <1>3. CountInv(a, Moved(a, p)) /\ CheckedInv(Moved(a, p))
    BY <1>1, <1>2, LauncherState, GotoMoves DEF GrantInv, WriteOutput, At, LocalInv, CountInv, CheckedInv, Stages, Early, Running, Validating, AfterFirst, AfterSecond, Minting, Past
  <1>4. FilesKept
    BY LauncherState, StateOf, WriteKeeps DEF WriteOutput, Name, RunFiles, GrantInv
  <1>5. QED
    BY <1>1, <1>2, <1>3, <1>4, LauncherState, StepKeeps DEF WriteOutput, At, Past, Minting

LEMMA WriteJournalKeeps ==
  ASSUME GrantInv, NEW a \in Launchers, WriteJournal(a)
  PROVE  GrantInv'
  <1>1. "receipt" \in Stages \ (Minting \cup {"off", "read"})
    BY DEF Stages, Early, Running, Validating, AfterFirst, AfterSecond, Minting, Past
  <1>2. CountInv(a, Moved(a, "receipt")) /\ CheckedInv(Moved(a, "receipt"))
    BY <1>1, LauncherState, GotoMoves DEF GrantInv, WriteJournal, At, LocalInv, CountInv,
       CheckedInv, Stages, Early, Running, Validating, AfterFirst, AfterSecond, Minting, Past
  <1>3. FilesKept
    BY LauncherState, StateOf, WriteKeeps DEF WriteJournal, Name, RunFiles, GrantInv
  <1>4. QED
    BY <1>1, <1>2, <1>3, LauncherState, StepKeeps DEF WriteJournal, At, Past, Minting

LEMMA CaptureBetweenKeeps ==
  ASSUME GrantInv, NEW a \in Launchers, CaptureBetween(a)
  PROVE  GrantInv'
  <1> DEFINE s == [actor[a] EXCEPT !.pc = "nonce", !.run = 2]
  <1>1. /\ s \in Local /\ s.receipts = actor[a].receipts /\ s.pc = "nonce" /\ s.run = 2
    BY LauncherState DEF Local, Runs, Stages, Early, Running, Validating, AfterFirst, AfterSecond, Minting, Past
  <1>2. LocalInv(a, s)
    BY <1>1, LauncherState DEF CaptureBetween, At, LocalInv, CountInv, CheckedInv, Stages, Early, Running, Validating, AfterFirst, AfterSecond, Minting, Past
  <1>3. s.pc \notin Minting /\ actor[a].pc \notin Past
    BY <1>1 DEF CaptureBetween, At, Past, Minting
  <1>4. QED
    BY <1>1, <1>2, <1>3, LauncherState, CapturesKeep DEF CaptureBetween, At

LEMMA CaptureFinalKeeps ==
  ASSUME GrantInv, NEW a \in Launchers, CaptureFinal(a)
  PROVE  GrantInv'
  <1> DEFINE s == [actor[a] EXCEPT !.pc = "owned"]
  <1>1. /\ s \in Local /\ s.receipts = actor[a].receipts /\ s.pc = "owned" /\ s.run = actor[a].run
    BY LauncherState DEF Local, Stages, Early, Running, Validating, AfterFirst, AfterSecond, Minting, Past
  <1>2. LocalInv(a, s)
    BY <1>1, LauncherState DEF CaptureFinal, At, LocalInv, CountInv, CheckedInv, Stages, Early, Running, Validating, AfterFirst, AfterSecond, Minting, Past
  <1>3. s.pc \notin Minting /\ actor[a].pc \notin Past
    BY <1>1 DEF CaptureFinal, At, Past, Minting
  <1>4. QED
    BY <1>1, <1>2, <1>3, LauncherState, CapturesKeep DEF CaptureFinal, At

LEMMA RunsOwnedKeeps ==
  ASSUME GrantInv, NEW a \in Launchers, RunsOwned(a)
  PROVE  GrantInv'
  <1>1. PICK p \in {"context", "failed"} : Goto(a, p)
    BY DEF RunsOwned
  <1>2. p \in Stages \ (Minting \cup {"off", "read"})
    BY DEF Stages, Early, Running, Validating, AfterFirst, AfterSecond, Minting, Past
  <1>3. CountInv(a, Moved(a, p)) /\ CheckedInv(Moved(a, p))
    BY <1>1, <1>2, LauncherState, GotoMoves DEF GrantInv, RunsOwned, At, LocalInv, CountInv, CheckedInv, Stages, Early, Running, Validating, AfterFirst, AfterSecond, Minting, Past
  <1>4. FilesKept
    BY LauncherState, SameFiles DEF RunsOwned
  <1>5. QED
    BY <1>1, <1>2, <1>3, <1>4, LauncherState, StepKeeps DEF RunsOwned, At, Past, Minting

-----------------------------------------------------------------------------
(* The validation of a pair.                                               *)

LEMMA ActorState ==
  ASSUME GrantInv, NEW a \in Actors
  PROVE  /\ actor[a] \in Local /\ LocalInv(a, actor[a]) /\ world \in Worlds /\ FilesOK
  BY DEF GrantInv, KindInv

LEMMA CaptureValidationKeeps ==
  ASSUME GrantInv, NEW a \in Actors, CaptureValidation(a)
  PROVE  GrantInv'
  <1> DEFINE s == Seen(a, "first")
  <1>1. /\ s \in Local /\ s.receipts = actor[a].receipts /\ s.pc = "first" /\ s.run = actor[a].run
    BY ActorState, SyncedWorld DEF Seen, Local, Stages, Early, Running, Validating, AfterFirst, AfterSecond, Minting, Past
  <1>2. LocalInv(a, s)
    BY <1>1, ActorState DEF CaptureValidation, At, LocalInv, CountInv, CheckedInv, Stages, Early, Running, Validating, AfterFirst, AfterSecond, Minting, Past
  <1>3. s.pc \notin Minting /\ actor[a].pc \notin Past
    BY <1>1 DEF CaptureValidation, At, Past, Minting
  <1>4. QED
    BY <1>1, <1>2, <1>3, CapturesKeep DEF CaptureValidation, At

LEMMA ValidateFirstKeeps ==
  ASSUME GrantInv, NEW a \in Actors, ValidateFirst(a)
  PROVE  GrantInv'
  <1>1. PICK p \in {"second", "failed"} :
          Goto(a, p) /\ (p = "second" => Checked(actor[a].receipts[1], actor[a].ctx))
    BY DEF ValidateFirst, ReceiptValid, Checked, First
  <1>2. p \in Stages \ (Minting \cup {"off", "read"})
    BY DEF Stages, Early, Running, Validating, AfterFirst, AfterSecond, Minting, Past
  <1>3. CountInv(a, Moved(a, p)) /\ CheckedInv(Moved(a, p))
    BY <1>1, <1>2, ActorState, GotoMoves
    DEF GrantInv, ValidateFirst, At, LocalInv, CountInv, CheckedInv, Stages, Early, Running, Validating, AfterFirst, AfterSecond, Minting, Past
  <1>4. FilesKept
    BY ActorState, SameFiles DEF ValidateFirst
  <1>5. QED
    BY <1>1, <1>2, <1>3, <1>4, ActorState, StepKeeps DEF ValidateFirst, At, Past, Minting

LEMMA ValidateSecondKeeps ==
  ASSUME GrantInv, NEW a \in Actors, ValidateSecond(a)
  PROVE  GrantInv'
  <1>1. PICK p \in {"unlink", "failed"} :
          Goto(a, p) /\ (p = "unlink" =>
            /\ Checked(actor[a].receipts[2], actor[a].ctx)
            /\ actor[a].receipts[1].collection.tests = actor[a].receipts[2].collection.tests)
    BY DEF ValidateSecond, ReceiptValid, PairAgrees, Checked, First, Second
  <1>2. p \in Stages \ (Minting \cup {"off", "read"})
    BY DEF Stages, Early, Running, Validating, AfterFirst, AfterSecond, Minting, Past
  <1>3. CountInv(a, Moved(a, p)) /\ CheckedInv(Moved(a, p))
    BY <1>1, <1>2, ActorState, GotoMoves
    DEF GrantInv, ValidateSecond, At, LocalInv, CountInv, CheckedInv, Stages, Early, Running, Validating, AfterFirst, AfterSecond, Minting, Past
  <1>4. FilesKept
    BY ActorState, SameFiles DEF ValidateSecond
  <1>5. QED
    BY <1>1, <1>2, <1>3, <1>4, ActorState, StepKeeps DEF ValidateSecond, At, Past, Minting

LEMMA UnlinkValidationKeeps ==
  ASSUME GrantInv, NEW a \in Actors, UnlinkValidation(a)
  PROVE  GrantInv'
  <1>1. "independent" \in Stages \ (Minting \cup {"off", "read"})
    BY DEF Stages, Early, Running, Validating, AfterFirst, AfterSecond, Minting, Past
  <1>2. CountInv(a, Moved(a, "independent")) /\ CheckedInv(Moved(a, "independent"))
    BY <1>1, ActorState, GotoMoves
    DEF GrantInv, UnlinkValidation, At, LocalInv, CountInv, CheckedInv, Stages, Early, Running, Validating, AfterFirst, AfterSecond, Minting, Past
  <1>3. FilesKept
    <2>1. WriteArtifact(<<"validation", 0>>, None)
      BY DEF UnlinkValidation, WriteArtifact
    <2>2. QED
      BY <2>1, ActorState, WriteOther DEF FilesKept
  <1>4. QED
    BY <1>1, <1>2, <1>3, ActorState, StepKeeps DEF UnlinkValidation, At, Past, Minting

LEMMA IndependentCollectionKeeps ==
  ASSUME GrantInv, NEW a \in Actors, IndependentCollection(a)
  PROVE  GrantInv'
  <1> DEFINE s == [actor[a] EXCEPT !.pc = "compare", !.suite = TestsOf(world)]
             c == [nonce |-> PairNonce(First(a), Second(a)), tests |-> TestsOf(world),
                   hook |-> HookOf(world)]
  <1>1. /\ s \in Local /\ s.receipts = actor[a].receipts /\ s.pc = "compare"
        /\ s.run = actor[a].run /\ s.ctx = actor[a].ctx /\ s.suite = TestsOf(world)
    BY ActorState, SyncedWorld DEF Local, Stages, Early, Running, Validating, AfterFirst, AfterSecond, Minting, Past
  <1>2. LocalInv(a, s) /\ Len(s.receipts) = 2
    BY <1>1, ActorState DEF IndependentCollection, At, LocalInv, CountInv, CheckedInv, Stages, Early, Running, Validating, AfterFirst, AfterSecond, Minting, Past
  <1>3. s.pc \notin Minting /\ actor[a].pc \notin Past /\ s.pc \in Past
    BY <1>1 DEF IndependentCollection, At, Past, Minting
  <1>4. actor' = [actor EXCEPT ![a] = s]
    BY DEF IndependentCollection
  <1>5. /\ FilesOK' /\ \A i \in Runs : files'[<<"receipt", i>>] = files[<<"receipt", i>>]
        /\ files'[<<"validation", 0>>] = c
    BY ActorState, WriteOther DEF IndependentCollection
  <1>6. CollectedBy(files[<<"validation", 0>>], a)'
    <2>1. actor'[a] = s
      BY <1>4 DEF GrantInv, KindInv
    <2>2. c.nonce = PairNonce(First(a), Second(a)) /\ c.tests = TestsOf(world)
      OBVIOUS
    <2>3. PairNonce(First(a), Second(a)) = PairNonce(First(a), Second(a))'
      BY <1>1, <2>1 DEF PairNonce, First, Second
    <2>4. QED
      BY <1>1, <1>2, <1>3, <1>5, <2>1, <2>2, <2>3 DEF CollectedBy
  <1>7. \A i \in Runs : files'[<<"receipt", i>>] # None => HeldBy(files'[<<"receipt", i>>], i)
    BY <1>5 DEF GrantInv, FileInv
  <1>8. world' \in Worlds
    BY ActorState DEF IndependentCollection
  <1>9. QED
    BY <1>1, <1>2, <1>3, <1>4, <1>5, <1>6, <1>7, <1>8, HandsKept

\* A nonce identifies its receipt: two actors whose receipts carry the same
\* nonces hold the same receipts.
LEMMA NonceIdentifies ==
  ASSUME GrantInv, NEW a \in Actors, NEW b \in Actors, NEW i \in Runs,
         Len(actor[a].receipts) = 2, Len(actor[b].receipts) = 2,
         actor[a].receipts[i].nonce = actor[b].receipts[i].nonce
  PROVE  actor[a].receipts[i] = actor[b].receipts[i]
  <1>1. HeldBy(actor[a].receipts[i], i) /\ HeldBy(actor[b].receipts[i], i)
    BY DEF GrantInv, OriginInv, Runs
  <1>2. PICK k \in Launchers : i \in 1 .. Len(actor[k].receipts)
                               /\ actor[a].receipts[i] = actor[k].receipts[i]
    BY <1>1 DEF HeldBy
  <1>3. PICK l \in Launchers : i \in 1 .. Len(actor[l].receipts)
                               /\ actor[b].receipts[i] = actor[l].receipts[i]
    BY <1>1 DEF HeldBy
  <1>4. actor[k].receipts[i].nonce = <<k, i>> /\ actor[l].receipts[i].nonce = <<l, i>>
    BY <1>2, <1>3 DEF GrantInv, OwnInv, Good
  <1>5. k = l
    BY <1>2, <1>3, <1>4
  <1>6. QED
    BY <1>2, <1>3, <1>5

LEMMA PairIdentifies ==
  ASSUME GrantInv, NEW a \in Actors, NEW b \in Actors,
         Len(actor[a].receipts) = 2, Len(actor[b].receipts) = 2,
         PairNonce(First(a), Second(a)) = PairNonce(First(b), Second(b))
  PROVE  actor[a].receipts = actor[b].receipts
  <1>1. \A i \in Runs : actor[a].receipts[i] = actor[b].receipts[i]
    BY NonceIdentifies DEF PairNonce, First, Second, Runs
  <1>2. actor[a].receipts \in Seq(ReceiptSet) /\ actor[b].receipts \in Seq(ReceiptSet)
    BY StateOf DEF GrantInv
  <1>3. QED
    BY <1>1, <1>2 DEF Runs

LEMMA CompareCollectionKeeps ==
  ASSUME GrantInv, NEW a \in Actors, CompareCollection(a)
  PROVE  GrantInv'
  <1> DEFINE c == files[<<"validation", 0>>]
  <1>1. PICK p \in {"mint", "failed"} :
          Goto(a, p) /\ (p = "mint" => ValidationAgrees(c, First(a), Second(a), world))
    BY DEF CompareCollection
  <1>2. p \in Stages /\ p \in Past /\ p \notin {"off", "read"}
    BY DEF Stages, Early, Running, Validating, AfterFirst, AfterSecond, Minting, Past
  <1>3. Len(actor[a].receipts) = 2
    BY ActorState DEF CompareCollection, At, LocalInv, CountInv, Stages, Early, Running, Validating, AfterFirst, AfterSecond, Minting, Past
  <1>4. LocalInv(a, Moved(a, p))
    BY <1>1, <1>2, ActorState, GotoMoves
    DEF GrantInv, CompareCollection, At, LocalInv, CountInv, CheckedInv, Stages, Early, Running, Validating, AfterFirst, AfterSecond, Minting, Past
  <1>5. ASSUME p = "mint" PROVE Matched(a, Moved(a, p))
    <2>1. /\ c # None /\ c.nonce = PairNonce(First(a), Second(a))
          /\ c.tests = actor[a].receipts[1].collection.tests
      BY <1>1, <1>5 DEF ValidationAgrees, CollectionReadable, First
    <2>2. PICK b \in Actors : CollectedBy(c, b)
      BY <2>1 DEF GrantInv, ValidationInv
    <2>3. actor[a].receipts = actor[b].receipts
      BY <1>3, <2>1, <2>2, PairIdentifies DEF CollectedBy
    <2>4. Moved(a, p).suite = actor[a].suite /\ Moved(a, p).receipts = actor[a].receipts
      BY <1>1, <1>2, GotoMoves DEF GrantInv
    <2>5. QED
      BY <2>1, <2>2, <2>3, <2>4 DEF Matched, CollectedBy
  <1>6. FilesKept /\ world' \in Worlds
    BY ActorState, SameFiles DEF CompareCollection
  <1>7. "failed" \notin Minting
    BY DEF Minting
  <1>8. QED
    BY <1>1, <1>2, <1>4, <1>5, <1>6, <1>7, GotoKeeps

\* Past the comparison an actor keeps what it matched.
LEMMA MintingMoves ==
  ASSUME GrantInv, NEW a \in Actors, NEW p \in Minting \cup {"failed"}, Goto(a, p),
         actor[a].pc \in Minting, world' \in Worlds, FilesKept
  PROVE  GrantInv'
  <1>1. p \in Stages /\ p \in Past
    BY DEF Stages, Early, Running, Validating, AfterFirst, AfterSecond, Minting, Past
  <1>2. LocalInv(a, Moved(a, p))
    BY <1>1, ActorState, GotoMoves DEF GrantInv, LocalInv, CountInv, CheckedInv, Stages, Early, Running, Validating, AfterFirst, AfterSecond, Minting, Past
  <1>3. Matched(a, Moved(a, p))
    BY <1>1, GotoMoves DEF GrantInv, MatchInv, Matched
  <1>4. QED
    BY <1>1, <1>2, <1>3, GotoKeeps

LEMMA MintKeeps ==
  ASSUME GrantInv, NEW a \in Actors, Mint(a)
  PROVE  GrantInv'
  <1>1. actor[a].pc \in Minting /\ actor[a].pc \notin {"off", "read"}
    BY DEF Mint, At, Minting
  <1>2. PICK p \in Minting \cup {"failed"} : Captures(a, actor[a].ctx, Moved(a, p))
    BY DEF Mint, Moved, Minting
  <1>3. /\ Moved(a, p) \in Local /\ Moved(a, p).pc = p /\ Moved(a, p).receipts = actor[a].receipts
        /\ Moved(a, p).run = actor[a].run
        /\ Moved(a, p).suite = actor[a].suite /\ Moved(a, p).ctx = actor[a].ctx
    BY ActorState DEF Moved, Local, Stages, Early, Running, Validating, AfterFirst, AfterSecond, Minting, Past
  <1>4. LocalInv(a, Moved(a, p))
    BY <1>1, <1>3, ActorState DEF LocalInv, CountInv, CheckedInv, Stages, Early, Running, Validating, AfterFirst, AfterSecond, Minting, Past
  <1>5. Matched(a, Moved(a, p)) /\ p \in Past
    BY <1>1, <1>3 DEF GrantInv, MatchInv, Matched, Past
  <1>6. QED
    BY <1>1, <1>2, <1>3, <1>4, <1>5, CapturesKeep

LEMMA RecordCapabilityKeeps ==
  ASSUME GrantInv, NEW a \in Official, RecordCapability(a)
  PROVE  GrantInv'
  <1>1. a \in Actors
    BY BaselineActors DEF Actors
  <1>2. actor[a].pc \in Minting /\ "pair" \in Minting
    BY DEF RecordCapability, At, Minting
  <1>3. FilesKept /\ world' \in Worlds
    BY <1>1, ActorState, SameFiles DEF RecordCapability
  <1>4. QED
    BY <1>1, <1>2, <1>3, MintingMoves DEF RecordCapability

LEMMA WritePairKeeps ==
  ASSUME GrantInv, NEW a \in Launchers, WritePair(a)
  PROVE  GrantInv'
  <1>1. actor[a].pc \in Minting /\ "accepted" \in Minting
    BY DEF WritePair, At, Minting
  <1>2. FilesKept /\ world' \in Worlds
    BY LauncherState, WriteOther DEF WritePair, FilesKept
  <1>3. QED
    BY <1>1, <1>2, LauncherState, MintingMoves DEF WritePair

-----------------------------------------------------------------------------
(* Steps that bring receipts.                                              *)

LEMMA WriteReceiptKeeps ==
  ASSUME GrantInv, NEW a \in Launchers, WriteReceipt(a)
  PROVE  GrantInv'
  <1>1. PICK p \in {"between", "final"} :
          Goto(a, p) /\ (p = IF actor[a].run = 1 THEN "between" ELSE "final")
    BY DEF WriteReceipt
  <1>2. p \in Stages \ (Minting \cup {"off", "read"}) /\ actor[a].pc \notin Past
    BY DEF WriteReceipt, At, Stages, Early, Running, Validating, AfterFirst, AfterSecond, Minting, Past
  <1>3. actor[a].run \in Runs /\ Len(actor[a].receipts) = actor[a].run
    BY LauncherState, StateOf DEF GrantInv, WriteReceipt, At, LocalInv, CountInv
  <1>4. /\ actor' = [actor EXCEPT ![a] = Moved(a, p)] /\ Moved(a, p) \in Local
        /\ Moved(a, p).receipts = actor[a].receipts /\ Moved(a, p).pc = p
    BY <1>1, <1>2, LauncherState, GotoMoves DEF GrantInv
  <1>5. Receipt(a) \in ReceiptSet /\ HeldBy(Receipt(a), actor[a].run)
    BY <1>3, LauncherState, StateOf DEF GrantInv, Receipt, HeldBy, Runs
  <1>6. /\ files' = [m \in Names |-> files'[m]]
        /\ \A m \in Names :
             files'[m] = IF m = <<"receipt", actor[a].run>> THEN Receipt(a) ELSE files[m]
    BY <1>3, LauncherState, RunNames, FileWritten DEF WriteReceipt, Name, RunFiles
  <1>7. \A j \in Runs : \A q \in RunFiles :
          files'[<<q, j>>] = IF q = "receipt" /\ j = actor[a].run THEN Receipt(a)
                            ELSE files[<<q, j>>]
    BY <1>6, RunNames
  <1>8. files'[<<"validation", 0>>] = files[<<"validation", 0>>]
    BY <1>6, ValidationName
  <1>9. FilesOK'
    BY <1>5, <1>6, <1>7, LauncherState DEF FilesOK, RunFiles
  <1>10. \A i \in Runs : files'[<<"receipt", i>>] # None => HeldBy(files'[<<"receipt", i>>], i)
    BY <1>5, <1>7 DEF GrantInv, FileInv, RunFiles
  <1>11. world' \in Worlds
    BY LauncherState DEF WriteReceipt
  <1>12. LocalInv(a, Moved(a, p))
    <2>1. CheckedInv(Moved(a, p))
      BY <1>4 DEF CheckedInv, Stages, Early, Running, Validating, AfterFirst, AfterSecond, Minting, Past
    <2>2. Len(Moved(a, p).receipts) = IF p = "between" THEN 1 ELSE 2
      BY <1>1, <1>3, <1>4 DEF Runs
    <2>3. CountInv(a, Moved(a, p))
      BY <1>4, <2>2, LauncherState DEF CountInv, Stages, Early, Running, Validating, AfterFirst, AfterSecond, Minting, Past
    <2>4. QED
      BY <2>1, <2>3 DEF LocalInv
  <1>13. QED
    BY <1>2, <1>4, <1>8, <1>9, <1>10, <1>11, <1>12, LauncherState, HandsKept

\* A step by which one actor takes receipts.
LEMMA TakingKeeps ==
  ASSUME GrantInv, NEW a \in Actors, NEW s \in Local, actor' = [actor EXCEPT ![a] = s],
         LocalInv(a, s), s.pc \notin Minting, actor[a].pc \notin Past,
         Len(actor[a].receipts) < 2,
         \A i \in 1 .. Len(actor[a].receipts) :
           i \in 1 .. Len(s.receipts) /\ s.receipts[i] = actor[a].receipts[i],
         a \in Launchers => \A i \in 1 .. Len(s.receipts) : Good(s.receipts[i], a, i),
         a \notin Launchers => \A i \in 1 .. Len(s.receipts) : HeldBy(s.receipts[i], i),
         UNCHANGED <<files, world>>
  PROVE  GrantInv'
  <1>1. \A b \in Actors : actor'[b] = IF b = a THEN s ELSE actor[b]
    BY DEF GrantInv, KindInv
  <1>2. KindInv'
    BY <1>1 DEF GrantInv, KindInv, FilesOK
  <1>3. \A b \in Actors : LocalInv(b, actor'[b])
    BY <1>1 DEF GrantInv
  <1>4. OwnInv'
    <2>1. SUFFICES ASSUME NEW b \in Launchers, NEW i \in 1 .. Len(actor'[b].receipts)
                   PROVE  Good(actor'[b].receipts[i], b, i)
      BY DEF OwnInv, Good
    <2>2. CASE b = a
      BY <1>1, <2>1, <2>2
    <2>3. CASE b # a
      BY <1>1, <2>1, <2>3 DEF GrantInv, OwnInv, Actors
    <2>4. QED
      BY <2>2, <2>3
  <1>5. ReceiptsKept
    BY <1>1 DEF ReceiptsKept
  <1>6. FileInv'
    <2>1. SUFFICES ASSUME NEW i \in Runs, files[<<"receipt", i>>] # None
                   PROVE  \E b \in Launchers : i \in 1 .. Len(actor'[b].receipts)
                             /\ files[<<"receipt", i>>] = actor'[b].receipts[i]
      BY DEF FileInv, HeldBy
    <2>2. QED
      BY <1>5, <2>1, HeldByKept DEF GrantInv, FileInv
  <1>7. OriginInv'
    <2>1. SUFFICES ASSUME NEW b \in Actors, NEW i \in 1 .. Len(actor'[b].receipts)
                   PROVE  \E l \in Launchers : i \in 1 .. Len(actor'[l].receipts)
                             /\ actor'[b].receipts[i] = actor'[l].receipts[i]
      BY DEF OriginInv, HeldBy
    <2>2. CASE b \in Launchers
      BY <2>1, <2>2
    <2>3. CASE b \notin Launchers /\ b = a
      <3>1. HeldBy(actor'[b].receipts[i], i)
        BY <1>1, <2>1, <2>3
      <3>2. QED
        BY <1>5, <3>1, HeldByKept
    <2>4. CASE b \notin Launchers /\ b # a
      <3>1. HeldBy(actor'[b].receipts[i], i)
        BY <1>1, <2>1, <2>4 DEF GrantInv, OriginInv
      <3>2. QED
        BY <1>5, <3>1, HeldByKept
    <2>5. QED
      BY <2>2, <2>3, <2>4
  <1>8. ValidationInv'
    <2>1. SUFFICES ASSUME files[<<"validation", 0>>] # None
                   PROVE  \E b \in Actors : CollectedBy(files[<<"validation", 0>>], b)'
      BY DEF ValidationInv
    <2>2. PICK b \in Actors : CollectedBy(files[<<"validation", 0>>], b)
      BY <2>1 DEF GrantInv, ValidationInv
    <2>3. b # a
      BY <2>2 DEF CollectedBy
    <2>4. actor'[b] = actor[b]
      BY <1>1, <2>3
    <2>5. CollectedBy(files[<<"validation", 0>>], b)'
      BY <2>2, <2>4 DEF CollectedBy, First, Second
    <2>6. QED
      BY <2>5
  <1>9. MatchInv'
    <2>1. SUFFICES ASSUME NEW b \in Actors, actor'[b].pc \in Minting
                   PROVE  \/ actor'[b].suite = actor'[b].receipts[1].collection.tests
                          \/ \E c \in Actors \ {b} : actor'[c].receipts = actor'[b].receipts
      BY DEF MatchInv, Matched
    <2>2. b # a /\ actor'[b] = actor[b]
      BY <1>1, <2>1
    <2>3. Len(actor[b].receipts) = 2
      BY <2>1, <2>2, ActorState DEF LocalInv, CountInv, Validating, AfterFirst, AfterSecond, Minting
    <2>4. CASE actor[b].suite = actor[b].receipts[1].collection.tests
      BY <2>2, <2>4
    <2>5. CASE \E c \in Actors \ {b} : actor[c].receipts = actor[b].receipts
      <3>1. PICK c \in Actors \ {b} : actor[c].receipts = actor[b].receipts
        BY <2>5
      <3>2. c # a
        BY <2>3, <3>1
      <3>3. QED
        BY <1>1, <2>2, <3>1, <3>2
    <2>6. QED
      BY <2>1, <2>2, <2>4, <2>5 DEF GrantInv, MatchInv, Matched
  <1>10. QED
    BY <1>2, <1>3, <1>4, <1>6, <1>7, <1>8, <1>9 DEF GrantInv, LocalInv, CountInv, CheckedInv, Checked

LEMMA ReadReceiptsKeeps ==
  ASSUME GrantInv, NEW a \in Actors, ReadReceipts(a)
  PROVE  GrantInv'
  <1> DEFINE rs == <<files[<<"receipt", 1>>], files[<<"receipt", 2>>]>>
             s == [actor[a] EXCEPT !.pc = "context", !.receipts = rs]
  <1>1. a = Auditor /\ a \notin Launchers /\ actor[a].pc = "read"
    BY BaselineActors DEF ReadReceipts, At
  <1>2. \A i \in Runs : rs[i] \in ReceiptSet /\ HeldBy(rs[i], i)
    BY ActorState DEF ReadReceipts, GrantInv, FileInv, FilesOK, Runs
  <1>3. rs \in Seq(ReceiptSet) /\ Len(rs) = 2
    BY <1>2 DEF Runs
  <1>4. s \in Local /\ s.pc = "context" /\ s.receipts = rs
    BY <1>3, ActorState DEF Local, Stages, Early, Running, Validating, AfterFirst, AfterSecond, Minting, Past
  <1>5. LocalInv(a, s)
    BY <1>1, <1>3, <1>4 DEF LocalInv, CountInv, CheckedInv, Stages, Early, Running, Validating, AfterFirst, AfterSecond, Minting, Past
  <1>6. Len(actor[a].receipts) = 0
    BY <1>1, ActorState DEF LocalInv, CountInv
  <1>7. actor' = [actor EXCEPT ![a] = s] /\ UNCHANGED <<files, world>>
    BY DEF ReadReceipts
  <1>8. \A i \in 1 .. Len(s.receipts) : HeldBy(s.receipts[i], i)
    BY <1>2, <1>3, <1>4 DEF Runs
  <1>9. s.pc \notin Minting /\ actor[a].pc \notin Past
    BY <1>1, <1>4 DEF Minting, Past
  <1>10. \A i \in 1 .. Len(actor[a].receipts) :
           i \in 1 .. Len(s.receipts) /\ s.receipts[i] = actor[a].receipts[i]
    BY <1>6
  <1>11. Len(actor[a].receipts) < 2
    BY <1>6
  <1> HIDE DEF s, rs
  <1>12. QED
    BY <1>1, <1>4, <1>5, <1>7, <1>8, <1>9, <1>10, <1>11, TakingKeeps

LEMMA ReadEvidenceKeeps ==
  ASSUME GrantInv, NEW a \in Launchers, ReadEvidence(a)
  PROVE  GrantInv'
  <1> DEFINE i == actor[a].run
             r == ReceiptOf(Nonce(a), actor[a].ctx, files, i)
             s == [actor[a] EXCEPT !.pc = "journal", !.receipts = Append(@, r)]
  <1>1. /\ actor[a].pc = "evidence" /\ i \in Runs /\ Len(actor[a].receipts) = i - 1
        /\ actor[a].receipts \in Seq(ReceiptSet)
    BY LauncherState, StateOf DEF GrantInv, ReadEvidence, At, LocalInv, CountInv, Running
  <1>2. actor[a].pc \notin {"off", "read"} /\ actor[a].pc \notin Past /\ world' \in Worlds
    BY <1>1, LauncherState DEF Past, Minting, ReadEvidence
  <1>3. CASE Reject(a)
    BY <1>2, <1>3, LauncherState, RejectKeeps
  <1>4. CASE /\ RunEvidence(Nonce(a), files, i, world)
             /\ actor' = [actor EXCEPT ![a] = s] /\ UNCHANGED <<files, world>>
    <2>1. /\ files[<<"junit", i>>] \in Junits /\ files[<<"collection", i>>] \in Collections
          /\ files[<<"nonce", i>>] \in Nonces \cup {None}
      BY <1>1, <1>4, LauncherState DEF RunEvidence, JunitReadable, CollectionReadable, FilesOK
    <2>2. r \in ReceiptSet
      BY <1>1, <2>1, LauncherState, StateOf, NonceOf DEF GrantInv, ReceiptOf, ReceiptSet
    <2>3. Good(r, a, i)
      BY <1>4 DEF RunEvidence, CollectionReadable, ReceiptOf, Good, Nonce
    <2>4. /\ s \in Local /\ s.pc = "journal" /\ s.run = i
          /\ s.receipts = Append(actor[a].receipts, r)
      <3>1. Append(actor[a].receipts, r) \in Seq(ReceiptSet)
        BY <1>1, <2>2
      <3>2. "journal" \in Stages
        BY DEF Stages
      <3> HIDE DEF r
      <3>3. QED
        BY <3>1, <3>2, LauncherState DEF Local
    <2>5. /\ Len(s.receipts) = i /\ s.receipts[i] = r
          /\ \A j \in 1 .. Len(actor[a].receipts) : s.receipts[j] = actor[a].receipts[j]
      BY <1>1, <2>2, <2>4 DEF Runs
    <2>6. LocalInv(a, s)
      BY <1>1, <2>4, <2>5, LauncherState DEF LocalInv, CountInv, CheckedInv, Runs, Stages, Early, Running, Validating, AfterFirst, AfterSecond, Minting, Past
    <2>7. \A j \in 1 .. Len(s.receipts) : Good(s.receipts[j], a, j)
      BY <1>1, <2>3, <2>5 DEF GrantInv, OwnInv, Runs
    <2>8. s.pc \notin Minting /\ Len(actor[a].receipts) < 2
      BY <1>1, <2>4 DEF Minting, Runs
    <2>9. \A j \in 1 .. Len(actor[a].receipts) :
            j \in 1 .. Len(s.receipts) /\ s.receipts[j] = actor[a].receipts[j]
      BY <1>1, <2>5 DEF Runs
    <2>10. QED
      BY <1>2, <1>4, <2>4, <2>6, <2>7, <2>8, <2>9, LauncherState, TakingKeeps
  <1>5. QED
    BY <1>3, <1>4 DEF ReadEvidence

-----------------------------------------------------------------------------
(* The operator, the initial state, every step.                            *)

LEMMA EditKeeps ==
  ASSUME GrantInv, NEW field \in DOMAIN Aspects, NEW value \in Aspects[field], Edit(field, value)
  PROVE  GrantInv'
  <1>1. world' \in Worlds
    BY DEF GrantInv, KindInv, Edit, Worlds, Aspects
  <1>2. UNCHANGED <<actor, files>>
    BY DEF Edit
  <1>3. KindInv'
    BY <1>1, <1>2 DEF GrantInv, KindInv, FilesOK
  <1>4. QED
    BY <1>2, <1>3 DEF GrantInv, LocalInv, CountInv, CheckedInv, Checked, OwnInv, Good, FileInv,
       HeldBy, OriginInv, ValidationInv, CollectedBy, First, Second, MatchInv, Matched

LEMMA GrantInit == BInit => GrantInv
  <1> SUFFICES ASSUME BInit PROVE GrantInv
    OBVIOUS
  <1>1. \A a \in Actors : actor[a] \in {Start(a), Off}
    BY DEF BInit
  <1>2. \A a \in Actors :
          /\ actor[a] \in Local /\ actor[a].run = 1 /\ actor[a].receipts = <<>>
          /\ actor[a].pc \in {"off", IF a = Auditor THEN "read" ELSE "check"}
    <2>1. \A p \in {"off", "read", "check"} :
            [pc |-> p, run |-> 1, ctx |-> None, suite |-> None, receipts |-> <<>>] \in Local
      BY DEF Local, Runs, Captured, Stages, Early
    <2>2. Off = [pc |-> "off", run |-> 1, ctx |-> None, suite |-> None, receipts |-> <<>>]
      BY DEF Off, Start
    <2>3. QED
      BY <1>1, <2>1, <2>2 DEF Start
  <1>3. \A a \in Actors : LocalInv(a, actor[a]) /\ actor[a].pc \notin Minting
    BY <1>2 DEF LocalInv, CountInv, CheckedInv, Stages, Early, Running, Validating, AfterFirst, AfterSecond, Minting, Past
  <1>4. world \in Worlds
    BY DEF BInit, Worlds, Aspects
  <1>5. \A n \in Names : files[n] = None
    BY DEF BInit
  <1>6. FilesOK /\ FileInv /\ ValidationInv
    BY <1>5, RunNames, ValidationName DEF BInit, FilesOK, FileInv, ValidationInv, RunFiles
  <1>7. actor \in [Actors -> Local]
    BY <1>2 DEF BInit
  <1>8. OwnInv /\ OriginInv /\ MatchInv
    BY <1>2, <1>3 DEF OwnInv, OriginInv, MatchInv, Actors
  <1>9. QED
    BY <1>3, <1>4, <1>6, <1>7, <1>8 DEF GrantInv, KindInv

LEMMA GrantStep == GrantInv /\ [BNext]_bvars => GrantInv'
  <1> SUFFICES ASSUME GrantInv, [BNext]_bvars PROVE GrantInv'
    OBVIOUS
  <1>1. CASE UNCHANGED bvars
    <2>1. UNCHANGED <<world, files, actor>>
      BY <1>1 DEF bvars
    <2>2. FilesOK'
      BY <2>1 DEF GrantInv, KindInv, FilesOK
    <2>3. KindInv' /\ OwnInv'
      BY <2>1, <2>2 DEF GrantInv, KindInv, OwnInv, Good
    <2>4. FileInv' /\ OriginInv'
      BY <2>1 DEF GrantInv, FileInv, HeldBy, OriginInv
    <2>5. ValidationInv' /\ MatchInv'
      BY <2>1 DEF GrantInv, ValidationInv, CollectedBy, First, Second, MatchInv, Matched
    <2>6. QED
      BY <2>1, <2>3, <2>4, <2>5 DEF GrantInv, LocalInv, CountInv, CheckedInv, Checked
  <1>2. CASE BNext
    BY <1>2, CheckFreshKeeps, ClearArtifactsKeeps, CaptureInitialKeeps, OpenSessionKeeps,
       WriteNonceKeeps, SuiteCollectsKeeps, SuiteEndsKeeps, WriteOutputKeeps, ReadEvidenceKeeps,
       WriteJournalKeeps, WriteReceiptKeeps, CaptureBetweenKeeps, CaptureFinalKeeps,
       RunsOwnedKeeps, ReadReceiptsKeeps, CaptureValidationKeeps, ValidateFirstKeeps,
       ValidateSecondKeeps, UnlinkValidationKeeps, IndependentCollectionKeeps,
       CompareCollectionKeeps, MintKeeps, RecordCapabilityKeeps, WritePairKeeps, EditKeeps
    DEF BNext
  <1>3. QED
    BY <1>1, <1>2

LEMMA GrantEarned == GrantInv => GrantIsEarned
  <1> SUFFICES ASSUME GrantInv, NEW a \in Granted
               PROVE  /\ \A i \in Runs :
                           LET r == actor[a].receipts[i]
                           IN /\ r.nonceFile = r.nonce /\ r.junit.suite = r.nonce
                              /\ r.collection.nonce = r.nonce
                              /\ r.junit.green /\ r.run = i
                              /\ a \in Official => r.nonce = <<a, i>>
                      /\ \A i \in Runs : actor[a].receipts[i].context = actor[a].ctx
                      /\ \A i, j \in Runs :
                           actor[a].receipts[i].junit.tests = actor[a].receipts[j].junit.tests
                      /\ Unshared(a) => \A i \in Runs :
                           actor[a].receipts[i].junit.tests = actor[a].suite
    BY DEF GrantIsEarned, EvidenceIsOwn, MintedOnOneTree, Runs
  <1>1. a \in Actors /\ actor[a].pc = "accepted" /\ (a \in Official => a \in Launchers)
    BY BaselineActors DEF Granted, LiveCapability, At, Actors
  <1>2. Len(actor[a].receipts) = 2
    BY <1>1, ActorState DEF LocalInv, CountInv, Validating, AfterFirst, AfterSecond, Minting
  <1>3. /\ Checked(actor[a].receipts[1], actor[a].ctx) /\ Checked(actor[a].receipts[2], actor[a].ctx)
        /\ actor[a].receipts[1].collection.tests = actor[a].receipts[2].collection.tests
    BY <1>1, ActorState DEF LocalInv, CheckedInv, AfterFirst, AfterSecond, Minting
  <1>4. \A i \in Runs :
          /\ \E b \in Launchers : Good(actor[a].receipts[i], b, i)
          /\ a \in Official => Good(actor[a].receipts[i], a, i)
    BY <1>1, <1>2 DEF GrantInv, OriginInv, HeldBy, OwnInv, Runs
  <1>5. Unshared(a) => actor[a].suite = actor[a].receipts[1].collection.tests
    BY <1>1 DEF GrantInv, MatchInv, Matched, Unshared, Minting
  <1>6. QED
    BY <1>3, <1>4, <1>5 DEF Checked, Good, Runs

(* A capability or an accepted pair rests on evidence of its own processes,  *)
(* of one worktree, whoever else clears and writes the same files: _run_one,  *)
(* _validate_official_receipt, _validate_pair_receipts and                    *)
(* validate_baseline_pair, for any launchers and any number of edits.         *)
THEOREM GrantsAreEarned == BSpec => []GrantIsEarned
  BY GrantInit, GrantStep, GrantEarned, PTL DEF BSpec

----------------------------------------------------------------------------
(***************************************************************************)
(* The execution journal.                                                  *)
(***************************************************************************)
Events == [day : 1 .. MaxDays, seq : Nat, n : Nat]

(* e was published before f and has the lower ID. *)
Precedes(e, f) ==
  /\ e.n < f.n
  /\ e.day < f.day \/ (e.day = f.day /\ e.seq < f.seq)

Sorted(s) == \A i, j \in DOMAIN s : i < j => Precedes(s[i], s[j])
Chained(s) == \A i \in 1 .. Len(s) - 1 : Follows(IdOf(s[i]), IdOf(s[i + 1]))
Ordered(s) == s \in Seq(Events) /\ Sorted(s) /\ Chained(s)

LEMMA PrecedesTransitive ==
  ASSUME NEW e \in Events, NEW f \in Events, NEW g \in Events, Precedes(e, f), Precedes(f, g)
  PROVE  Precedes(e, g)
  BY DEF Precedes, Events

LEMMA ContiguousIs ==
  ASSUME NEW s \in Seq(Events)
  PROVE  Contiguous(IdsOf(s)) <=> s # <<>> /\ Chained(s)
<1>1. IdsOf(s) = [i \in 1 .. Len(s) |-> IdOf(s[i])] /\ Len(s) \in Nat
  BY DEF IdsOf
<1>2. Len(IdsOf(s)) = Len(s)
  BY <1>1
<1>3. IdsOf(s) = <<>> <=> s = <<>>
  BY <1>1, <1>2
<1>4. \A i \in 1 .. Len(s) - 1 : IdsOf(s)[i] = IdOf(s[i]) /\ IdsOf(s)[i + 1] = IdOf(s[i + 1])
  BY <1>1
<1>5. QED
  BY <1>2, <1>3, <1>4 DEF Contiguous, Chained

(* An event that follows the last one and was published after them all. *)
LEMMA AppendOrdered ==
  ASSUME NEW s, Ordered(s), NEW e \in Events,
         \A i \in DOMAIN s : s[i].n < e.n,
         s # <<>> => Follows(IdOf(s[Len(s)]), IdOf(e))
  PROVE  Ordered(Append(s, e))
<1>0. s \in Seq(Events) /\ Len(s) \in Nat /\ DOMAIN s = 1 .. Len(s)
  BY DEF Ordered
<1>1. /\ Append(s, e) \in Seq(Events) /\ Len(Append(s, e)) = Len(s) + 1
      /\ \A i \in 1 .. Len(s) : Append(s, e)[i] = s[i]
      /\ Append(s, e)[Len(s) + 1] = e
  BY <1>0
<1>2. DOMAIN Append(s, e) = 1 .. Len(s) + 1
  BY <1>1
<1>3. \A i \in 1 .. Len(s) : s[i] \in Events /\ Precedes(s[i], e)
  <2> SUFFICES ASSUME NEW i \in 1 .. Len(s) PROVE s[i] \in Events /\ Precedes(s[i], e)
    OBVIOUS
  <2>1. s[i] \in Events /\ s[Len(s)] \in Events /\ s # <<>> /\ Len(s) \in DOMAIN s
    BY <1>0
  <2>2. Precedes(s[Len(s)], e)
    BY <2>1 DEF Precedes, Follows, IdOf, Events
  <2>3. CASE i = Len(s)
    BY <2>1, <2>2, <2>3
  <2>4. CASE i # Len(s)
    <3>0. i < Len(s) /\ i \in DOMAIN s /\ Len(s) \in DOMAIN s
      <4>1. i \in Nat /\ i <= Len(s) /\ Len(s) \in Nat /\ 1 <= i
        BY <1>0
      <4>2. i < Len(s) /\ Len(s) \in 1 .. Len(s)
        BY <4>1, <2>4
      <4>3. QED
        BY <1>0, <4>2
    <3>1. Precedes(s[i], s[Len(s)])
      BY <3>0 DEF Ordered, Sorted
    <3>2. QED
      BY <2>1, <2>2, <3>1, PrecedesTransitive
  <2>5. QED
    BY <2>3, <2>4
<1>4. Sorted(Append(s, e))
  <2> SUFFICES ASSUME NEW i \in 1 .. Len(s) + 1, NEW j \in 1 .. Len(s) + 1, i < j
               PROVE  Precedes(Append(s, e)[i], Append(s, e)[j])
    BY <1>2 DEF Sorted
  <2>1. i \in 1 .. Len(s)
    BY <1>0
  <2>2. CASE j = Len(s) + 1
    BY <1>1, <1>3, <2>1, <2>2
  <2>3. CASE j \in 1 .. Len(s)
    BY <1>0, <1>1, <2>1, <2>3 DEF Ordered, Sorted
  <2>4. QED
    BY <1>0, <2>2, <2>3
<1>5. Chained(Append(s, e))
  <2> SUFFICES ASSUME NEW i \in 1 .. Len(s)
               PROVE  Follows(IdOf(Append(s, e)[i]), IdOf(Append(s, e)[i + 1]))
    BY <1>0, <1>1 DEF Chained
  <2>1. CASE i = Len(s)
    BY <1>0, <1>1, <2>1
  <2>2. CASE i \in 1 .. Len(s) - 1
    <3>1. Append(s, e)[i] = s[i] /\ Append(s, e)[i + 1] = s[i + 1]
      BY <1>0, <1>1, <2>2
    <3>2. QED
      BY <2>2, <3>1 DEF Ordered, Chained
  <2>3. i = Len(s) \/ i \in 1 .. Len(s) - 1
    <3>1. Len(s) \in Nat
      BY <1>0
    <3>2. QED
      BY <3>1
  <2>4. QED
    BY <2>1, <2>2, <2>3
<1>6. QED
  BY <1>1, <1>4, <1>5 DEF Ordered

LEMMA SubOrdered ==
  ASSUME NEW s, Ordered(s), NEW a \in 1 .. Len(s) + 1, NEW b \in 0 .. Len(s)
  PROVE  /\ Ordered(SubSeq(s, a, b))
         /\ Len(SubSeq(s, a, b)) = IF a <= b THEN b - a + 1 ELSE 0
         /\ \A i \in 1 .. b - a + 1 : SubSeq(s, a, b)[i] = s[a + i - 1]
<1> DEFINE t == SubSeq(s, a, b)
<1>0. s \in Seq(Events) /\ Len(s) \in Nat /\ DOMAIN s = 1 .. Len(s)
  BY DEF Ordered
<1>1. /\ t \in Seq(Events)
      /\ Len(t) = IF a <= b THEN b - a + 1 ELSE 0
      /\ \A i \in 1 .. b - a + 1 : t[i] = s[a + i - 1]
  <2>1. \A i \in a .. b : s[i] \in Events
    BY <1>0
  <2>2. QED
    BY <1>0, <2>1, SubSeqProperties
<1> HIDE DEF t
<1>2. DOMAIN t = 1 .. Len(t) /\ \A i \in DOMAIN t : i \in 1 .. b - a + 1 /\ a + i - 1 \in DOMAIN s
  BY <1>0, <1>1
<1>3. Sorted(t)
  <2> SUFFICES ASSUME NEW i \in DOMAIN t, NEW j \in DOMAIN t, i < j
               PROVE  Precedes(t[i], t[j])
    BY DEF Sorted
  <2>1. a + i - 1 < a + j - 1
    BY <1>0, <1>1, <1>2
  <2>2. QED
    BY <1>1, <1>2, <2>1 DEF Ordered, Sorted
<1>4. Chained(t)
  <2> SUFFICES ASSUME NEW i \in 1 .. Len(t) - 1
               PROVE  Follows(IdOf(t[i]), IdOf(t[i + 1]))
    BY DEF Chained
  <2>1. i \in DOMAIN t /\ i + 1 \in DOMAIN t
    BY <1>1, <1>2
  <2>2. t[i] = s[a + i - 1] /\ t[i + 1] = s[(a + i - 1) + 1] /\ a + i - 1 \in 1 .. Len(s) - 1
    <3>1. i \in Int /\ a + (i + 1) - 1 = (a + i - 1) + 1 /\ a \in Int
      BY <1>0
    <3>2. t[i] = s[a + i - 1] /\ t[i + 1] = s[a + (i + 1) - 1]
      BY <1>1, <1>2, <2>1
    <3>3. a + i - 1 \in 1 .. Len(s) /\ a + (i + 1) - 1 \in 1 .. Len(s)
      BY <1>0, <1>2, <2>1
    <3>4. QED
      BY <1>0, <3>1, <3>2, <3>3
  <2>3. QED
    BY <2>2 DEF Ordered, Chained
<1>5. QED
  BY <1>1, <1>3, <1>4 DEF Ordered, t

(* Both halves of an ordered concatenation. *)
LEMMA HalvesOrdered ==
  ASSUME NEW s \in Seq(Events), NEW t \in Seq(Events), Ordered(s \o t)
  PROVE  Ordered(s) /\ Ordered(t)
<1> DEFINE u == s \o t
<1>0. /\ Len(s) \in Nat /\ Len(t) \in Nat
      /\ u \in Seq(Events) /\ Len(u) = Len(s) + Len(t)
      /\ \A i \in 1 .. Len(s) + Len(t) : u[i] = IF i <= Len(s) THEN s[i] ELSE t[i - Len(s)]
  BY ConcatProperties
<1>1. Ordered(u)
  OBVIOUS
<1> HIDE DEF u
<1>2. Ordered(SubSeq(u, 1, Len(s))) /\ Ordered(SubSeq(u, Len(s) + 1, Len(u)))
  <2>1. 1 \in 1 .. Len(u) + 1 /\ Len(s) \in 0 .. Len(u) /\ Len(s) + 1 \in 1 .. Len(u) + 1 /\ Len(u) \in 0 .. Len(u)
    BY <1>0
  <2>2. QED
    BY <1>1, <2>1, SubOrdered
<1>3. /\ Len(SubSeq(u, 1, Len(s))) = Len(s) /\ SubSeq(u, 1, Len(s)) \in Seq(Events)
      /\ \A i \in 1 .. Len(s) : SubSeq(u, 1, Len(s))[i] = u[i]
  <2>1. 1 \in 1 .. Len(u) + 1 /\ Len(s) \in 0 .. Len(u)
    BY <1>0
  <2>2. /\ Len(SubSeq(u, 1, Len(s))) = IF 1 <= Len(s) THEN Len(s) - 1 + 1 ELSE 0
        /\ \A i \in 1 .. Len(s) - 1 + 1 : SubSeq(u, 1, Len(s))[i] = u[1 + i - 1]
    BY <1>1, <2>1, SubOrdered
  <2>3. SubSeq(u, 1, Len(s)) \in Seq(Events)
    BY <1>2 DEF Ordered
  <2>4. Len(SubSeq(u, 1, Len(s))) = Len(s)
    BY <1>0, <2>2
  <2>5. \A i \in 1 .. Len(s) : SubSeq(u, 1, Len(s))[i] = u[i]
    BY <1>0, <2>2
  <2>6. QED
    BY <2>3, <2>4, <2>5
<1>4. SubSeq(u, 1, Len(s)) = s
  <2> DEFINE v == SubSeq(u, 1, Len(s))
  <2>1. v \in Seq(Events) /\ Len(v) = Len(s) /\ \A i \in 1 .. Len(v) : v[i] = s[i]
    BY <1>0, <1>3
  <2> HIDE DEF v
  <2>2. v = s
    BY <2>1, SeqEqual
  <2>3. QED
    BY <2>2 DEF v
<1>5. SubSeq(u, Len(s) + 1, Len(u)) = t
  <2> DEFINE v == SubSeq(u, Len(s) + 1, Len(u))
  <2>1. Len(v) = Len(t) /\ v \in Seq(Events) /\ \A i \in 1 .. Len(t) : v[i] = u[Len(s) + i]
    <3>1. /\ Len(v) = IF Len(s) + 1 <= Len(u) THEN Len(u) - (Len(s) + 1) + 1 ELSE 0
          /\ \A i \in 1 .. Len(u) - (Len(s) + 1) + 1 : v[i] = u[Len(s) + 1 + i - 1]
      <4>1. Len(s) + 1 \in 1 .. Len(u) + 1 /\ Len(u) \in 0 .. Len(u)
        BY <1>0
      <4>2. QED
        BY <1>1, <4>1, SubOrdered
    <3> HIDE DEF v
    <3>2. Len(v) = Len(t) /\ \A i \in 1 .. Len(t) : v[i] = u[Len(s) + i]
      <4>1. Len(v) = Len(t)
        BY <1>0, <3>1
      <4>2. \A i \in 1 .. Len(t) : i \in 1 .. Len(u) - (Len(s) + 1) + 1 /\ Len(s) + 1 + i - 1 = Len(s) + i
        BY <1>0
      <4>3. \A i \in 1 .. Len(t) : v[i] = u[Len(s) + i]
        BY <3>1, <4>2
      <4>4. QED
        BY <4>1, <4>3
    <3>3. v \in Seq(Events)
      BY <1>2 DEF Ordered, v
    <3>4. QED
      BY <3>2, <3>3
  <2>2. \A i \in 1 .. Len(v) : v[i] = t[i]
    <3> SUFFICES ASSUME NEW i \in 1 .. Len(v) PROVE v[i] = t[i]
      OBVIOUS
    <3> HIDE DEF v
    <3>1. Len(s) + i \in 1 .. Len(s) + Len(t) /\ ~(Len(s) + i <= Len(s)) /\ Len(s) + i - Len(s) = i
      BY <1>0, <2>1
    <3>2. QED
      BY <1>0, <2>1, <3>1
  <2> HIDE DEF v
  <2>3. v = t
    BY <2>1, <2>2, SeqEqual
  <2>4. QED
    BY <2>3 DEF v
<1>6. QED
  BY <1>2, <1>4, <1>5
----------------------------------------------------------------------------
(* A set of numbers has a least element, and a bounded one a greatest.      *)
LEMMA LeastExists ==
  ASSUME NEW T, T \subseteq Nat, T # {}
  PROVE  \E x \in T : \A y \in T : x <= y
<1> DEFINE R == {ss \in Nat \X Nat : ss[1] < ss[2]}
<1>1. IsWellFoundedOn(R, Nat)
  BY NatLessThanWellFounded DEF OpToRel
<1>2. \A x, y \in Nat : x < y => <<x, y>> \in R
  OBVIOUS
<1> HIDE DEF R
<1>3. PICK x \in T : \A y \in T : ~ (<<y, x>> \in R)
  BY <1>1, WFMin
<1>4. \A y \in T : x <= y
  <2> SUFFICES ASSUME NEW y \in T PROVE x <= y
    OBVIOUS
  <2>1. x \in Nat /\ y \in Nat
    OBVIOUS
  <2>2. ~ (y < x)
    BY <1>2, <1>3, <2>1
  <2>3. QED
    BY <2>1, <2>2
<1>5. QED
  BY <1>4

LEMMA GreatestExists ==
  ASSUME NEW T, NEW N \in Nat, T \subseteq 1 .. N, T # {}
  PROVE  \E x \in T : \A y \in T : y <= x
<1> DEFINE U == {N - y : y \in T}
<1>1. U \subseteq Nat
  <2> SUFFICES ASSUME NEW y \in T PROVE N - y \in Nat
    OBVIOUS
  <2>1. y \in 1 .. N
    OBVIOUS
  <2>2. QED
    BY <2>1
<1>2. U # {}
  <2>1. PICK y \in T : TRUE
    OBVIOUS
  <2>2. N - y \in U
    OBVIOUS
  <2>3. QED
    BY <2>2
<1> HIDE DEF U
<1>3. PICK u \in U : \A v \in U : u <= v
  BY <1>1, <1>2, LeastExists
<1>4. PICK x \in T : u = N - x
  BY <1>3 DEF U
<1>5. \A y \in T : y <= x
  <2> SUFFICES ASSUME NEW y \in T PROVE y <= x
    OBVIOUS
  <2>1. N - y \in U /\ y \in 1 .. N /\ x \in 1 .. N
    BY DEF U
  <2>2. N - x <= N - y
    BY <1>3, <1>4, <2>1
  <2>3. QED
    BY <2>1, <2>2
<1>6. QED
  BY <1>5

----------------------------------------------------------------------------
Groups == [offset : Nat, events : Seq(Events)]
EndOf(group) == group.offset + Len(group.events)

(* The groups are the payload s, cut into pieces none of which is empty.    *)
Tiles(groups, s) ==
  /\ groups \in Seq(Groups) /\ groups # <<>>
  /\ \A g \in DOMAIN groups :
       /\ groups[g].events # <<>> /\ EndOf(groups[g]) <= Len(s)
       /\ groups[g].events = SubSeq(s, groups[g].offset + 1, EndOf(groups[g]))
       /\ EndOf(groups[g]) = IF g = Len(groups) THEN Len(s) ELSE groups[g + 1].offset
  /\ groups[1].offset = 0
  /\ \A g, h \in DOMAIN groups : g < h => EndOf(groups[g]) <= groups[h].offset
  /\ \A k \in DOMAIN s : \E g \in DOMAIN groups : groups[g].offset < k /\ k <= EndOf(groups[g])

LEMMA GroupedTiles ==
  ASSUME NEW s \in Seq(Events), s # <<>>, NEW size \in Nat \ {0}, NEW groups \in Grouped(s, size)
  PROVE  Tiles(groups, s)
<1>0. PICK starts \in StartsOf(s, size) : groups \in {CutAt(s, list) : list \in InOrder(starts)}
  BY DEF Grouped
<1>1. PICK list \in InOrder(starts) : groups = CutAt(s, list)
  BY <1>0
<1> DEFINE n == Cardinality(starts)
<1>2. Len(s) \in Nat /\ Len(s) >= 1 /\ DOMAIN s = 1 .. Len(s)
  BY EmptySeq
<1>3. starts \subseteq 1 .. Len(s) /\ 1 \in starts
  <2>1. starts \subseteq 1 .. Len(s)
    BY <1>2 DEF StartsOf
  <2>2. 1 \in {i \in DOMAIN s :
                 \/ i = 1
                 \/ s[i].day # s[i - 1].day
                 \/ /\ i - size \in starts
                    /\ \A j \in i - size + 1 .. i - 1 : j \notin starts}
    BY <1>2
  <2>3. QED
    BY <2>1, <2>2 DEF StartsOf
<1>4. n \in Nat
  <2>1. IsFiniteSet(starts)
    <3>1. IsFiniteSet(1 .. Len(s))
      BY <1>2, FS_Interval
    <3>2. QED
      BY <1>3, <3>1, FS_Subset
  <2>2. QED
    BY <2>1, FS_CardinalityType
<1>5. /\ list \in [1 .. n -> starts] /\ Range(list) = starts
      /\ \A g, h \in DOMAIN list : g < h => list[g] < list[h]
  BY DEF InOrder
<1> HIDE DEF n
<1>6. /\ DOMAIN list = 1 .. n /\ Len(list) = n
      /\ \A g \in 1 .. n : list[g] \in 1 .. Len(s)
      /\ \A a \in starts : \E g \in 1 .. n : list[g] = a
  <2>1. DOMAIN list = 1 .. n
    BY <1>5
  <2>2. Len(list) = n
    BY <1>4, <2>1
  <2>3. \A g \in 1 .. n : list[g] \in 1 .. Len(s)
    BY <1>3, <1>5
  <2>4. \A a \in starts : \E g \in 1 .. n : list[g] = a
    BY <1>5, <2>1 DEF Range
  <2>5. QED
    BY <2>1, <2>2, <2>3, <2>4
<1>7. n >= 1 /\ list[1] = 1
  <2>1. PICK g \in 1 .. n : list[g] = 1
    BY <1>3, <1>6
  <2>2. n >= 1 /\ 1 \in 1 .. n /\ g \in Nat
    BY <1>4
  <2>3. g = 1
    <3>1. SUFFICES ASSUME 1 < g PROVE FALSE
      BY <2>1, <2>2
    <3>2. list[1] < list[g] /\ list[1] \in 1 .. Len(s)
      BY <1>5, <1>6, <2>2, <3>1
    <3>3. QED
      BY <2>1, <3>2
  <2>4. QED
    BY <2>1, <2>2, <2>3
<1> DEFINE end(g) == IF g = n THEN Len(s) ELSE list[g + 1] - 1
<1>8. \A g \in 1 .. n : /\ end(g) \in Nat /\ list[g] <= end(g) /\ end(g) <= Len(s)
                        /\ g # n => g + 1 \in 1 .. n /\ end(g) = list[g + 1] - 1
  <2> SUFFICES ASSUME NEW g \in 1 .. n
               PROVE  /\ end(g) \in Nat /\ list[g] <= end(g) /\ end(g) <= Len(s)
                      /\ g # n => g + 1 \in 1 .. n /\ end(g) = list[g + 1] - 1
    OBVIOUS
  <2>0. list[g] \in 1 .. Len(s)
    BY <1>6
  <2>1. CASE g = n
    BY <1>2, <2>0, <2>1
  <2>2. CASE g # n
    <3>1. g + 1 \in 1 .. n /\ g < g + 1
      BY <1>4, <2>2
    <3>2. list[g] < list[g + 1] /\ list[g + 1] \in 1 .. Len(s)
      BY <1>5, <1>6, <3>1
    <3>3. QED
      BY <1>2, <2>0, <2>2, <3>1, <3>2
  <2>3. QED
    BY <2>1, <2>2
<1>9. groups = [g \in 1 .. n |-> [offset |-> list[g] - 1, events |-> SubSeq(s, list[g], end(g))]]
  BY <1>1, <1>6 DEF CutAt
<1> HIDE DEF end
<1>10. \A g \in 1 .. n : /\ groups[g].offset = list[g] - 1
                         /\ groups[g].events = SubSeq(s, list[g], end(g))
  BY <1>9
<1>11. \A g \in 1 .. n : /\ groups[g].events \in Seq(Events)
                         /\ Len(groups[g].events) = end(g) - list[g] + 1
                         /\ groups[g].offset \in Nat /\ groups[g].offset = list[g] - 1
                         /\ groups[g].events # <<>>
                         /\ groups[g] \in Groups
  <2> SUFFICES ASSUME NEW g \in 1 .. n
               PROVE  /\ groups[g].events \in Seq(Events)
                      /\ Len(groups[g].events) = end(g) - list[g] + 1
                      /\ groups[g].offset \in Nat /\ groups[g].offset = list[g] - 1
                      /\ groups[g].events # <<>>
                      /\ groups[g] \in Groups
    OBVIOUS
  <2>1. list[g] \in Nat /\ 1 <= list[g] /\ end(g) \in Nat /\ list[g] <= end(g) /\ end(g) <= Len(s)
    BY <1>6, <1>8
  <2>2. \A i \in list[g] .. end(g) : s[i] \in Events
    BY <1>2, <2>1
  <2>3. /\ SubSeq(s, list[g], end(g)) \in Seq(Events)
        /\ Len(SubSeq(s, list[g], end(g))) = IF list[g] <= end(g) THEN end(g) - list[g] + 1 ELSE 0
    BY <2>1, <2>2, SubSeqProperties
  <2>4. Len(SubSeq(s, list[g], end(g))) = end(g) - list[g] + 1
    BY <2>1, <2>3
  <2>5. SubSeq(s, list[g], end(g)) # <<>>
    <3>1. Len(SubSeq(s, list[g], end(g))) # 0
      BY <2>1, <2>4
    <3>2. QED
      BY <3>1, EmptySeq
  <2>6. list[g] - 1 \in Nat
    BY <2>1
  <2>7. groups[g].offset = list[g] - 1 /\ groups[g].events = SubSeq(s, list[g], end(g))
    BY <1>10
  <2>8. groups[g] \in Groups
    BY <1>9, <2>3, <2>6 DEF Groups
  <2>9. QED
    BY <2>3, <2>4, <2>5, <2>6, <2>7, <2>8
<1>12. \A g \in 1 .. n : EndOf(groups[g]) = end(g)
  <2> SUFFICES ASSUME NEW g \in 1 .. n PROVE EndOf(groups[g]) = end(g)
    OBVIOUS
  <2>1. list[g] \in Int /\ end(g) \in Int
    BY <1>6, <1>8
  <2>2. groups[g].offset = list[g] - 1 /\ Len(groups[g].events) = end(g) - list[g] + 1
    BY <1>11
  <2>3. (list[g] - 1) + (end(g) - list[g] + 1) = end(g)
    BY <2>1
  <2>4. QED
    BY <2>2, <2>3 DEF EndOf
<1>13. groups \in Seq(Groups) /\ Len(groups) = n /\ DOMAIN groups = 1 .. n
  BY <1>4, <1>9, <1>11
<1>14. \A g \in 1 .. n :
         /\ groups[g].events # <<>> /\ EndOf(groups[g]) <= Len(s)
         /\ groups[g].events = SubSeq(s, groups[g].offset + 1, EndOf(groups[g]))
         /\ EndOf(groups[g]) = IF g = n THEN Len(s) ELSE groups[g + 1].offset
  <2> SUFFICES ASSUME NEW g \in 1 .. n
               PROVE  /\ groups[g].events # <<>> /\ EndOf(groups[g]) <= Len(s)
                      /\ groups[g].events = SubSeq(s, groups[g].offset + 1, EndOf(groups[g]))
                      /\ EndOf(groups[g]) = IF g = n THEN Len(s) ELSE groups[g + 1].offset
    OBVIOUS
  <2>1. groups[g].offset + 1 = list[g]
    <3>1. list[g] \in Int
      BY <1>6
    <3>2. groups[g].offset = list[g] - 1
      BY <1>10
    <3>3. QED
      BY <3>1, <3>2
  <2>2. groups[g].events # <<>> /\ EndOf(groups[g]) <= Len(s)
    BY <1>8, <1>11, <1>12
  <2>3. groups[g].events = SubSeq(s, groups[g].offset + 1, EndOf(groups[g]))
    BY <1>10, <1>12, <2>1
  <2>4. EndOf(groups[g]) = IF g = n THEN Len(s) ELSE groups[g + 1].offset
    BY <1>8, <1>10, <1>12 DEF end
  <2>5. QED
    BY <2>2, <2>3, <2>4
<1>15. \A g, h \in 1 .. n : g < h => EndOf(groups[g]) <= groups[h].offset
  <2> SUFFICES ASSUME NEW g \in 1 .. n, NEW h \in 1 .. n, g < h
               PROVE  EndOf(groups[g]) <= groups[h].offset
    OBVIOUS
  <2>1. g # n /\ g + 1 \in 1 .. n /\ g + 1 <= h
    BY <1>4
  <2>2. list[g + 1] \in Int /\ list[h] \in Int
    BY <1>6, <2>1
  <2>3. list[g + 1] <= list[h]
    <3>1. CASE g + 1 = h
      BY <2>2, <3>1
    <3>2. CASE g + 1 < h
      BY <1>5, <1>6, <2>1, <2>2, <3>2
    <3>3. QED
      BY <2>1, <3>1, <3>2
  <2>4. EndOf(groups[g]) = list[g + 1] - 1 /\ groups[h].offset = list[h] - 1
    BY <1>8, <1>10, <1>12, <2>1
  <2>5. QED
    BY <2>2, <2>3, <2>4
<1>16. \A k \in DOMAIN s : \E g \in 1 .. n : groups[g].offset < k /\ k <= EndOf(groups[g])
  <2> SUFFICES ASSUME NEW k \in 1 .. Len(s)
               PROVE  \E g \in 1 .. n : groups[g].offset < k /\ k <= EndOf(groups[g])
    BY <1>2
  <2> DEFINE T == {g \in 1 .. n : list[g] <= k}
  <2>1. 1 \in T
    BY <1>4, <1>7
  <2>2. PICK g \in T : \A h \in T : h <= g
    BY <1>4, <2>1, GreatestExists
  <2>3. g \in 1 .. n /\ list[g] <= k /\ k \in Nat /\ list[g] \in Nat
    BY <1>6
  <2>4. k <= end(g)
    <3>1. CASE g = n
      BY <1>2, <3>1 DEF end
    <3>2. CASE g # n
      <4>1. g + 1 \in 1 .. n /\ g + 1 \notin T /\ end(g) = list[g + 1] - 1
        BY <1>4, <1>8, <2>2, <2>3, <3>2
      <4>2. list[g + 1] \in Nat /\ ~ (list[g + 1] <= k)
        BY <1>6, <4>1
      <4>3. QED
        BY <2>3, <4>1, <4>2
    <3>3. QED
      BY <3>1, <3>2
  <2>5. groups[g].offset < k
    <3>1. groups[g].offset = list[g] - 1
      BY <1>10
    <3>2. QED
      BY <2>3, <3>1
  <2>6. QED
    BY <1>12, <2>3, <2>4, <2>5
<1>17. groups[1].offset = 0 /\ groups # <<>>
  <2>1. 1 \in 1 .. n
    BY <1>4, <1>7
  <2>2. groups[1].offset = 0
    <3>1. groups[1].offset = list[1] - 1
      BY <1>10, <2>1
    <3>2. QED
      BY <1>7, <3>1
  <2>3. groups # <<>>
    BY <1>7, <1>13, EmptySeq
  <2>4. QED
    BY <2>2, <2>3
<1>18. QED
  BY <1>13, <1>14, <1>15, <1>16, <1>17 DEF Tiles
----------------------------------------------------------------------------
(* Pieces of payloads.                                                      *)
LEMMA Piece ==
  ASSUME NEW s \in Seq(Events), NEW a \in Nat, NEW b \in Nat, a <= b, b <= Len(s)
  PROVE  /\ SubSeq(s, a + 1, b) \in Seq(Events)
         /\ Len(SubSeq(s, a + 1, b)) = b - a
         /\ \A i \in 1 .. b - a : SubSeq(s, a + 1, b)[i] = s[a + i]
<1>1. \A i \in a + 1 .. b : s[i] \in Events
  <2> SUFFICES ASSUME NEW i \in a + 1 .. b PROVE s[i] \in Events
    OBVIOUS
  <2>1. i \in 1 .. Len(s)
    OBVIOUS
  <2>2. QED
    BY <2>1, ElementOfSeq
<1>2. a + 1 \in Int /\ b \in Int
  OBVIOUS
<1>3. /\ SubSeq(s, a + 1, b) \in Seq(Events)
      /\ Len(SubSeq(s, a + 1, b)) = IF a + 1 <= b THEN b - (a + 1) + 1 ELSE 0
      /\ \A i \in 1 .. b - (a + 1) + 1 : SubSeq(s, a + 1, b)[i] = s[a + 1 + i - 1]
  BY <1>1, <1>2, SubSeqProperties
<1>4. Len(SubSeq(s, a + 1, b)) = b - a
  BY <1>3
<1>5. \A i \in 1 .. b - a : SubSeq(s, a + 1, b)[i] = s[a + i]
  <2> SUFFICES ASSUME NEW i \in 1 .. b - a PROVE SubSeq(s, a + 1, b)[i] = s[a + i]
    OBVIOUS
  <2>1. i \in 1 .. b - (a + 1) + 1 /\ a + 1 + i - 1 = a + i
    OBVIOUS
  <2>2. QED
    BY <1>3, <2>1
<1>6. QED
  BY <1>3, <1>4, <1>5

LEMMA PieceOfFirst ==
  ASSUME NEW w \in Seq(Events), NEW s \in Seq(Events),
         NEW a \in Nat, NEW b \in Nat, a <= b, b <= Len(w)
  PROVE  SubSeq(w \o s, a + 1, b) = SubSeq(w, a + 1, b)
<1> DEFINE u == w \o s
           x == SubSeq(u, a + 1, b)
           y == SubSeq(w, a + 1, b)
<1>1. /\ u \in Seq(Events) /\ Len(u) = Len(w) + Len(s) /\ Len(w) \in Nat /\ Len(s) \in Nat
      /\ \A i \in 1 .. Len(w) + Len(s) : u[i] = IF i <= Len(w) THEN w[i] ELSE s[i - Len(w)]
  BY ConcatProperties
<1> HIDE DEF u
<1>2. /\ x \in Seq(Events) /\ Len(x) = b - a
      /\ \A i \in 1 .. b - a : x[i] = u[a + i]
  <2>1. b <= Len(u)
    BY <1>1
  <2>2. QED
    BY <1>1, <2>1, Piece
<1>3. /\ y \in Seq(Events) /\ Len(y) = b - a
      /\ \A i \in 1 .. b - a : y[i] = w[a + i]
  BY Piece
<1> HIDE DEF x, y
<1>4. \A i \in 1 .. b - a : x[i] = y[i]
  <2> SUFFICES ASSUME NEW i \in 1 .. b - a PROVE x[i] = y[i]
    OBVIOUS
  <2>1. a + i \in 1 .. Len(w) + Len(s) /\ a + i <= Len(w)
    BY <1>1
  <2>2. QED
    BY <1>1, <1>2, <1>3, <2>1
<1>5. x = y
  BY <1>2, <1>3, <1>4, SeqEqual
<1>6. QED
  BY <1>5 DEF x, y, u

LEMMA PieceOfSecond ==
  ASSUME NEW w \in Seq(Events), NEW s \in Seq(Events),
         NEW a \in Nat, NEW b \in Nat, a <= b, b <= Len(s)
  PROVE  SubSeq(w \o s, Len(w) + a + 1, Len(w) + b) = SubSeq(s, a + 1, b)
<1> DEFINE u == w \o s
           x == SubSeq(u, Len(w) + a + 1, Len(w) + b)
           y == SubSeq(s, a + 1, b)
<1>1. /\ u \in Seq(Events) /\ Len(u) = Len(w) + Len(s) /\ Len(w) \in Nat /\ Len(s) \in Nat
      /\ \A i \in 1 .. Len(w) + Len(s) : u[i] = IF i <= Len(w) THEN w[i] ELSE s[i - Len(w)]
  BY ConcatProperties
<1> HIDE DEF u
<1>2. /\ x \in Seq(Events) /\ Len(x) = b - a
      /\ \A i \in 1 .. b - a : x[i] = u[Len(w) + a + i]
  <2> DEFINE c == Len(w) + a
             d == Len(w) + b
  <2>1. c \in Nat /\ d \in Nat /\ c <= d /\ d <= Len(u) /\ d - c = b - a
    BY <1>1
  <2>2. x = SubSeq(u, c + 1, d)
    OBVIOUS
  <2> HIDE DEF c, d, x
  <2>3. /\ x \in Seq(Events) /\ Len(x) = d - c
        /\ \A i \in 1 .. d - c : x[i] = u[c + i]
    BY <1>1, <2>1, <2>2, Piece
  <2>4. /\ x \in Seq(Events) /\ Len(x) = b - a
        /\ \A i \in 1 .. b - a : x[i] = u[c + i]
    BY <2>1, <2>3
  <2>5. QED
    BY <2>4 DEF c
<1>3. /\ y \in Seq(Events) /\ Len(y) = b - a
      /\ \A i \in 1 .. b - a : y[i] = s[a + i]
  BY Piece
<1> HIDE DEF x, y
<1>4. \A i \in 1 .. b - a : x[i] = y[i]
  <2> SUFFICES ASSUME NEW i \in 1 .. b - a PROVE x[i] = y[i]
    OBVIOUS
  <2>1. /\ Len(w) + a + i \in 1 .. Len(w) + Len(s) /\ ~ (Len(w) + a + i <= Len(w))
        /\ Len(w) + a + i - Len(w) = a + i
    BY <1>1
  <2>2. PICK k \in 1 .. Len(w) + Len(s) : k = Len(w) + a + i
    BY <2>1
  <2>3. u[k] = s[a + i]
    <3>1. ~ (k <= Len(w)) /\ k - Len(w) = a + i
      BY <2>1, <2>2
    <3>2. u[k] = s[k - Len(w)]
      BY <1>1, <3>1
    <3>3. QED
      BY <3>1, <3>2
  <2>4. x[i] = u[k]
    BY <1>2, <2>2
  <2>5. QED
    BY <1>3, <2>3, <2>4
<1>5. x = y
  BY <1>2, <1>3, <1>4, SeqEqual
<1>6. QED
  BY <1>5 DEF x, y, u

----------------------------------------------------------------------------
SegmentNames == {Prologue} \cup (1 .. MaxDays) \X Nat \X Nat
Records == [path : SegmentNames, digest : Seq(Events), at : Nat]
Manifests == [segments : Seq(Records), whole : Seq(Events), last : Nat \X Nat, count : Nat]
Volumes == [index : Nat, events : Seq(Events)]

RecordEnd(record) == record.at + Len(record.digest)

(* Laid end to end, the digests of the records are the archive.             *)
Laid(records, whole) ==
  /\ \A i \in DOMAIN records :
       /\ RecordEnd(records[i]) <= Len(whole)
       /\ records[i].digest = SubSeq(whole, records[i].at + 1, RecordEnd(records[i]))
       /\ i = 1 => records[i].at = 0
       /\ RecordEnd(records[i]) = IF i = Len(records) THEN Len(whole) ELSE records[i + 1].at
  /\ \A k \in DOMAIN whole :
       \E i \in DOMAIN records : records[i].at < k /\ k <= RecordEnd(records[i])

(* A manifest that its own records bear out.                                *)
Archive(m) ==
  /\ m \in Manifests
  /\ m.segments # <<>> /\ m.whole # <<>>
  /\ Ordered(m.whole) /\ Laid(m.segments, m.whole)
  /\ m.count = Len(m.whole) /\ m.last = IdOf(m.whole[Len(m.whole)])

LEMMA NameIs ==
  ASSUME NEW s \in Seq(Events), s # <<>>
  PROVE  NameOf(s) \in (1 .. MaxDays) \X Nat \X Nat
<1>1. Len(s) \in Nat /\ Len(s) >= 1
  BY EmptySeq
<1>2. s[1] \in Events /\ s[Len(s)] \in Events
  BY <1>1, ElementOfSeq
<1>3. QED
  BY <1>2 DEF NameOf, Events

LEMMA RecordsAre ==
  ASSUME NEW s \in Seq(Events), NEW groups, Tiles(groups, s), NEW before \in Nat
  PROVE  /\ RecordsOf(groups, before) \in Seq(Records)
         /\ Len(RecordsOf(groups, before)) = Len(groups)
         /\ DOMAIN RecordsOf(groups, before) = 1 .. Len(groups)
         /\ Len(groups) \in Nat /\ Len(groups) >= 1 /\ DOMAIN groups = 1 .. Len(groups)
         /\ \A g \in 1 .. Len(groups) :
              /\ RecordsOf(groups, before)[g] \in Records
              /\ RecordsOf(groups, before)[g].path = NameOf(groups[g].events)
              /\ RecordsOf(groups, before)[g].digest = groups[g].events
              /\ RecordsOf(groups, before)[g].at = before + groups[g].offset
              /\ groups[g].events \in Seq(Events) /\ groups[g].offset \in Nat
              /\ EndOf(groups[g]) \in Nat /\ groups[g].offset <= EndOf(groups[g])
              /\ RecordEnd(RecordsOf(groups, before)[g]) = before + EndOf(groups[g])
<1> DEFINE R == RecordsOf(groups, before)
<1>1. groups \in Seq(Groups) /\ groups # <<>>
  BY DEF Tiles
<1>2. Len(groups) \in Nat /\ Len(groups) >= 1 /\ DOMAIN groups = 1 .. Len(groups)
  BY <1>1, EmptySeq
<1>3. \A g \in 1 .. Len(groups) :
        /\ groups[g].events \in Seq(Events) /\ groups[g].offset \in Nat
        /\ groups[g].events # <<>> /\ Len(groups[g].events) \in Nat
  <2> SUFFICES ASSUME NEW g \in 1 .. Len(groups)
               PROVE  /\ groups[g].events \in Seq(Events) /\ groups[g].offset \in Nat
                      /\ groups[g].events # <<>> /\ Len(groups[g].events) \in Nat
    OBVIOUS
  <2>1. groups[g] \in Groups
    BY <1>1, ElementOfSeq
  <2>2. groups[g].events \in Seq(Events) /\ groups[g].offset \in Nat
    BY <2>1 DEF Groups
  <2>3. groups[g].events # <<>>
    BY <1>2 DEF Tiles
  <2>4. QED
    BY <2>2, <2>3, LenProperties
<1>4. R = [g \in 1 .. Len(groups) |->
             [path |-> NameOf(groups[g].events), digest |-> groups[g].events,
              at |-> before + groups[g].offset]]
  BY <1>2 DEF RecordsOf, RecordOf
<1>5. \A g \in 1 .. Len(groups) :
        /\ R[g].path = NameOf(groups[g].events) /\ R[g].digest = groups[g].events
        /\ R[g].at = before + groups[g].offset
  BY <1>4
<1>6. \A g \in 1 .. Len(groups) : R[g] \in Records
  <2> SUFFICES ASSUME NEW g \in 1 .. Len(groups) PROVE R[g] \in Records
    OBVIOUS
  <2>1. NameOf(groups[g].events) \in SegmentNames /\ before + groups[g].offset \in Nat
    BY <1>3, NameIs DEF SegmentNames
  <2>2. QED
    BY <1>3, <1>4, <2>1 DEF Records
<1>7. R \in Seq(Records) /\ Len(R) = Len(groups) /\ DOMAIN R = 1 .. Len(groups)
  BY <1>2, <1>4, <1>6
<1> HIDE DEF R
<1>8. \A g \in 1 .. Len(groups) :
        /\ EndOf(groups[g]) \in Nat /\ groups[g].offset <= EndOf(groups[g])
        /\ RecordEnd(R[g]) = before + EndOf(groups[g])
  <2> SUFFICES ASSUME NEW g \in 1 .. Len(groups)
               PROVE  /\ EndOf(groups[g]) \in Nat /\ groups[g].offset <= EndOf(groups[g])
                      /\ RecordEnd(R[g]) = before + EndOf(groups[g])
    OBVIOUS
  <2>1. groups[g].offset \in Nat /\ Len(groups[g].events) \in Nat
    BY <1>3
  <2>2. RecordEnd(R[g]) = (before + groups[g].offset) + Len(groups[g].events)
    BY <1>5 DEF RecordEnd
  <2>3. QED
    BY <2>1, <2>2 DEF EndOf
<1>9. QED
  BY <1>2, <1>3, <1>5, <1>6, <1>7, <1>8 DEF R
(* New segments are laid behind those of the archive.                       *)
LEMMA LaidExtends ==
  ASSUME NEW records \in Seq(Records), records # <<>>, NEW whole \in Seq(Events),
         Laid(records, whole),
         NEW s \in Seq(Events), NEW groups, Tiles(groups, s)
  PROVE  /\ records \o RecordsOf(groups, Len(whole)) \in Seq(Records)
         /\ records \o RecordsOf(groups, Len(whole)) # <<>>
         /\ Laid(records \o RecordsOf(groups, Len(whole)), whole \o s)
<1> DEFINE w == Len(whole)
           n == Len(records)
           R == RecordsOf(groups, w)
           all == records \o R
           u == whole \o s
<1>1. /\ w \in Nat /\ n \in Nat /\ n >= 1 /\ Len(s) \in Nat
      /\ DOMAIN records = 1 .. n /\ DOMAIN s = 1 .. Len(s) /\ DOMAIN whole = 1 .. w
  BY EmptySeq
<1>2. /\ R \in Seq(Records) /\ Len(R) = Len(groups)
      /\ Len(groups) \in Nat /\ Len(groups) >= 1 /\ DOMAIN groups = 1 .. Len(groups)
      /\ \A g \in 1 .. Len(groups) :
           /\ R[g].digest = groups[g].events
           /\ R[g].at = w + groups[g].offset
           /\ groups[g].events \in Seq(Events) /\ groups[g].offset \in Nat
           /\ EndOf(groups[g]) \in Nat /\ groups[g].offset <= EndOf(groups[g])
           /\ RecordEnd(R[g]) = w + EndOf(groups[g])
  BY <1>1, RecordsAre
<1>3. /\ u \in Seq(Events) /\ Len(u) = w + Len(s) /\ DOMAIN u = 1 .. w + Len(s)
  BY ConcatProperties, LenProperties
<1> HIDE DEF R
<1>4. /\ all \in Seq(Records) /\ Len(all) = n + Len(groups)
      /\ DOMAIN all = 1 .. n + Len(groups)
      /\ \A i \in 1 .. n : i \in 1 .. n + Len(groups) /\ all[i] = records[i]
      /\ \A g \in 1 .. Len(groups) : n + g \in 1 .. n + Len(groups) /\ all[n + g] = R[g]
  <2>1. /\ all \in Seq(Records) /\ Len(all) = n + Len(R)
        /\ \A i \in 1 .. n + Len(R) : all[i] = IF i <= n THEN records[i] ELSE R[i - n]
    BY <1>2, ConcatProperties
  <2> HIDE DEF all, n
  <2>2. \A i \in 1 .. n : i \in 1 .. n + Len(groups) /\ all[i] = records[i]
    BY <1>1, <1>2, <2>1
  <2>3. \A g \in 1 .. Len(groups) : n + g \in 1 .. n + Len(groups) /\ all[n + g] = R[g]
    <3> SUFFICES ASSUME NEW g \in 1 .. Len(groups)
                 PROVE  n + g \in 1 .. n + Len(groups) /\ all[n + g] = R[g]
      OBVIOUS
    <3>1. n + g \in 1 .. n + Len(groups) /\ ~ (n + g <= n) /\ n + g - n = g
      BY <1>1, <1>2
    <3>2. all[n + g] = R[g]
      <4>1. PICK k \in 1 .. n + Len(R) : k = n + g
        BY <1>2, <3>1
      <4>2. all[k] = IF k <= n THEN records[k] ELSE R[k - n]
        BY <2>1
      <4>3. ~ (k <= n) /\ k - n = g
        <5>1. n \in Nat /\ g \in Nat /\ 1 <= g
          BY <1>1, <1>2
        <5>2. QED
          BY <4>1, <5>1
      <4>4. all[k] = R[g]
        BY <4>2, <4>3
      <4>5. QED
        BY <4>1, <4>4
    <3>3. QED
      BY <3>1, <3>2
  <2>4. QED
    BY <1>2, <2>1, <2>2, <2>3, LenProperties
<1>5. \A i \in 1 .. n :
        /\ records[i].at \in Nat /\ RecordEnd(records[i]) \in Nat
        /\ records[i].at <= RecordEnd(records[i]) /\ RecordEnd(records[i]) <= w
  <2> SUFFICES ASSUME NEW i \in 1 .. n
               PROVE  /\ records[i].at \in Nat /\ RecordEnd(records[i]) \in Nat
                      /\ records[i].at <= RecordEnd(records[i]) /\ RecordEnd(records[i]) <= w
    OBVIOUS
  <2>1. records[i] \in Records
    BY ElementOfSeq
  <2>2. records[i].at \in Nat /\ Len(records[i].digest) \in Nat
    BY <2>1 DEF Records
  <2>3. RecordEnd(records[i]) <= w
    BY <1>1 DEF Laid
  <2>4. QED
    BY <2>2, <2>3 DEF RecordEnd
<1> HIDE DEF w, n
<1>6. \A i \in 1 .. n :
        /\ RecordEnd(all[i]) <= w + Len(s)
        /\ all[i].digest = SubSeq(u, all[i].at + 1, RecordEnd(all[i]))
        /\ i = 1 => all[i].at = 0
        /\ RecordEnd(all[i]) = all[i + 1].at
  <2> SUFFICES ASSUME NEW i \in 1 .. n
               PROVE  /\ RecordEnd(records[i]) <= w + Len(s)
                      /\ records[i].digest = SubSeq(u, records[i].at + 1, RecordEnd(records[i]))
                      /\ i = 1 => records[i].at = 0
                      /\ RecordEnd(records[i]) = all[i + 1].at
    BY <1>4
  <2>1. RecordEnd(records[i]) <= w + Len(s)
    BY <1>1, <1>5
  <2>2. /\ records[i].digest = SubSeq(whole, records[i].at + 1, RecordEnd(records[i]))
        /\ i = 1 => records[i].at = 0
        /\ RecordEnd(records[i]) = IF i = n THEN w ELSE records[i + 1].at
    BY <1>1 DEF Laid, w, n
  <2>3. SubSeq(u, records[i].at + 1, RecordEnd(records[i]))
          = SubSeq(whole, records[i].at + 1, RecordEnd(records[i]))
    BY <1>5, PieceOfFirst DEF w
  <2>4. RecordEnd(records[i]) = all[i + 1].at
    <3>1. CASE i = n
      <4>1. 1 \in 1 .. Len(groups)
        BY <1>2
      <4>2. all[n + 1] = R[1] /\ R[1].at = w + groups[1].offset
        BY <1>2, <1>4, <4>1
      <4>3. all[n + 1].at = w
        BY <1>1, <4>2 DEF Tiles
      <4>4. QED
        BY <2>2, <3>1, <4>3
    <3>2. CASE i # n
      <4>1. i + 1 \in 1 .. n
        BY <1>1, <3>2
      <4>2. QED
        BY <1>4, <2>2, <3>2, <4>1
    <3>3. QED
      BY <3>1, <3>2
  <2>5. QED
    BY <2>1, <2>2, <2>3, <2>4
<1>7. \A g \in 1 .. Len(groups) :
        /\ RecordEnd(R[g]) <= w + Len(s)
        /\ R[g].digest = SubSeq(u, R[g].at + 1, RecordEnd(R[g]))
        /\ RecordEnd(R[g]) = IF g = Len(groups) THEN w + Len(s) ELSE all[n + g + 1].at
  <2> SUFFICES ASSUME NEW g \in 1 .. Len(groups)
               PROVE  /\ RecordEnd(R[g]) <= w + Len(s)
                      /\ R[g].digest = SubSeq(u, R[g].at + 1, RecordEnd(R[g]))
                      /\ RecordEnd(R[g]) = IF g = Len(groups) THEN w + Len(s) ELSE all[n + g + 1].at
    OBVIOUS
  <2>1. /\ R[g].digest = groups[g].events /\ R[g].at = w + groups[g].offset
        /\ groups[g].offset \in Nat /\ EndOf(groups[g]) \in Nat
        /\ groups[g].offset <= EndOf(groups[g]) /\ RecordEnd(R[g]) = w + EndOf(groups[g])
    BY <1>2
  <2>2. /\ EndOf(groups[g]) <= Len(s)
        /\ groups[g].events = SubSeq(s, groups[g].offset + 1, EndOf(groups[g]))
        /\ EndOf(groups[g]) = IF g = Len(groups) THEN Len(s) ELSE groups[g + 1].offset
    BY <1>2 DEF Tiles
  <2>3. R[g].digest = SubSeq(u, R[g].at + 1, RecordEnd(R[g]))
    <3>1. SubSeq(u, w + groups[g].offset + 1, w + EndOf(groups[g]))
            = SubSeq(s, groups[g].offset + 1, EndOf(groups[g]))
      BY <2>1, <2>2, PieceOfSecond DEF w
    <3>2. QED
      BY <2>1, <2>2, <3>1
  <2>4. RecordEnd(R[g]) <= w + Len(s)
    BY <1>1, <2>1, <2>2
  <2>5. RecordEnd(R[g]) = IF g = Len(groups) THEN w + Len(s) ELSE all[n + g + 1].at
    <3>1. CASE g = Len(groups)
      BY <2>1, <2>2, <3>1
    <3>2. CASE g # Len(groups)
      <4>1. g + 1 \in 1 .. Len(groups) /\ n + (g + 1) = n + g + 1
        BY <1>1, <1>2, <3>2
      <4>2. all[n + g + 1].at = w + groups[g + 1].offset
        BY <1>2, <1>4, <4>1
      <4>3. QED
        BY <2>1, <2>2, <3>2, <4>2
    <3>3. QED
      BY <3>1, <3>2
  <2>6. QED
    BY <2>3, <2>4, <2>5
<1> HIDE DEF all, u
<1>8. \A i \in 1 .. n + Len(groups) :
        /\ RecordEnd(all[i]) <= Len(u)
        /\ all[i].digest = SubSeq(u, all[i].at + 1, RecordEnd(all[i]))
        /\ i = 1 => all[i].at = 0
        /\ RecordEnd(all[i]) = IF i = Len(all) THEN Len(u) ELSE all[i + 1].at
  <2> SUFFICES ASSUME NEW i \in 1 .. n + Len(groups)
               PROVE  /\ RecordEnd(all[i]) <= Len(u)
                      /\ all[i].digest = SubSeq(u, all[i].at + 1, RecordEnd(all[i]))
                      /\ i = 1 => all[i].at = 0
                      /\ RecordEnd(all[i]) = IF i = Len(all) THEN Len(u) ELSE all[i + 1].at
    OBVIOUS
  <2>1. CASE i \in 1 .. n
    <3>1. i # Len(all)
      BY <1>1, <1>2, <1>4, <2>1
    <3>2. QED
      BY <1>3, <1>6, <2>1, <3>1
  <2>2. CASE i \notin 1 .. n
    <3>1. PICK g \in 1 .. Len(groups) : i = n + g
      <4>1. i - n \in 1 .. Len(groups) /\ i = n + (i - n)
        BY <1>1, <1>2, <2>2
      <4>2. QED
        BY <4>1
    <3>2. all[i] = R[g] /\ i # 1
      BY <1>1, <1>4, <3>1
    <3>3. g = Len(groups) <=> i = Len(all)
      <4>1. g \in Int /\ n \in Int /\ Len(groups) \in Int /\ Len(all) = n + Len(groups)
        BY <1>1, <1>2, <1>4
      <4>2. QED
        BY <3>1, <4>1
    <3>4. QED
      BY <1>3, <1>7, <3>1, <3>2, <3>3
  <2>3. QED
    BY <2>1, <2>2
<1>9. \A k \in 1 .. w + Len(s) :
        \E i \in 1 .. n + Len(groups) : all[i].at < k /\ k <= RecordEnd(all[i])
  <2> SUFFICES ASSUME NEW k \in 1 .. w + Len(s)
               PROVE  \E i \in 1 .. n + Len(groups) : all[i].at < k /\ k <= RecordEnd(all[i])
    OBVIOUS
  <2>1. CASE k <= w
    <3>1. k \in DOMAIN whole
      BY <1>1, <2>1
    <3>2. PICK i \in 1 .. n : records[i].at < k /\ k <= RecordEnd(records[i])
      BY <1>1, <3>1 DEF Laid
    <3>3. QED
      BY <1>4, <3>2
  <2>2. CASE ~ (k <= w)
    <3>1. k - w \in DOMAIN s /\ k - w \in Int
      BY <1>1, <2>2
    <3>2. PICK g \in 1 .. Len(groups) : groups[g].offset < k - w /\ k - w <= EndOf(groups[g])
      BY <1>2, <3>1 DEF Tiles
    <3>3. R[g].at < k /\ k <= RecordEnd(R[g])
      <4>1. /\ R[g].at = w + groups[g].offset /\ RecordEnd(R[g]) = w + EndOf(groups[g])
            /\ groups[g].offset \in Nat /\ EndOf(groups[g]) \in Nat
        BY <1>2
      <4>2. QED
        BY <1>1, <3>2, <4>1
    <3>4. n + g \in 1 .. n + Len(groups) /\ all[n + g] = R[g]
      BY <1>4
    <3>5. QED
      BY <3>3, <3>4
  <2>3. QED
    BY <2>1, <2>2
<1>10. Laid(all, u)
  BY <1>3, <1>4, <1>8, <1>9 DEF Laid
<1>11. all # <<>>
  BY <1>1, <1>2, <1>4
<1>12. QED
  BY <1>4, <1>10, <1>11 DEF all, u, R, w

(* The manifests a migration writes.                                        *)
LEMMA ManifestIsArchive ==
  ASSUME NEW records \in Seq(Records), records # <<>>, NEW whole,
         whole # <<>>, Ordered(whole), Laid(records, whole)
  PROVE  Archive(ManifestOf(records, whole))
<1>1. whole \in Seq(Events) /\ Len(whole) \in Nat /\ Len(whole) >= 1
  BY EmptySeq DEF Ordered
<1>2. whole[Len(whole)] \in Events
  BY <1>1, ElementOfSeq
<1>3. IdOf(whole[Len(whole)]) \in Nat \X Nat
  BY <1>2 DEF IdOf, Events
<1>4. ManifestOf(records, whole) \in Manifests
  BY <1>1, <1>3 DEF ManifestOf, Manifests
<1>5. QED
  BY <1>4 DEF Archive, ManifestOf

LEMMA FirstArchive ==
  ASSUME NEW s, Ordered(s), s # <<>>, NEW groups, Tiles(groups, s)
  PROVE  Archive(ManifestOf(<<PrologueRecord>> \o RecordsOf(groups, 0), s))
<1>1. s \in Seq(Events) /\ <<>> \in Seq(Events) /\ Len(<<>>) = 0 /\ <<>> \o s = s
  BY EmptySeq, ConcatEmptySeq DEF Ordered
<1> DEFINE P == <<PrologueRecord>>
<1>2. PrologueRecord \in Records
  BY <1>1 DEF PrologueRecord, Records, SegmentNames
<1>3. /\ P \in Seq(Records) /\ P # <<>> /\ Len(P) = 1 /\ DOMAIN P = 1 .. 1
      /\ P[1] = PrologueRecord
  BY <1>2
<1>4. RecordEnd(PrologueRecord) = 0 /\ PrologueRecord.at = 0 /\ PrologueRecord.digest = <<>>
  BY <1>1 DEF RecordEnd, PrologueRecord
<1>5. SubSeq(<<>>, 1, 0) = <<>>
  BY <1>1, SubSeqEmpty
<1> DEFINE none == <<>>
<1>6. none \in Seq(Events) /\ Len(none) = 0 /\ DOMAIN none = {} /\ SubSeq(none, 0 + 1, 0) = none
  BY <1>1, <1>5
<1> HIDE DEF P, none
<1>7. Laid(P, none)
  <2>1. \A i \in DOMAIN P :
          /\ RecordEnd(P[i]) <= Len(none)
          /\ P[i].digest = SubSeq(none, P[i].at + 1, RecordEnd(P[i]))
          /\ i = 1 => P[i].at = 0
          /\ RecordEnd(P[i]) = IF i = Len(P) THEN Len(none) ELSE P[i + 1].at
    <3> SUFFICES ASSUME NEW i \in DOMAIN P
                 PROVE  /\ RecordEnd(P[i]) <= Len(none)
                        /\ P[i].digest = SubSeq(none, P[i].at + 1, RecordEnd(P[i]))
                        /\ P[i].at = 0
                        /\ RecordEnd(P[i]) = IF i = Len(P) THEN Len(none) ELSE P[i + 1].at
      OBVIOUS
    <3>1. i = 1 /\ P[i] = PrologueRecord
      BY <1>3
    <3>2. P[i].at = 0 /\ RecordEnd(P[i]) = 0 /\ P[i].digest = none
      BY <1>4, <3>1 DEF none
    <3>3. i = Len(P)
      BY <1>3, <3>1
    <3>4. P[i].digest = SubSeq(none, P[i].at + 1, RecordEnd(P[i]))
      BY <1>6, <3>2
    <3>5. QED
      BY <1>6, <3>2, <3>3, <3>4
  <2>2. QED
    BY <1>6, <2>1 DEF Laid
<1>8. /\ P \o RecordsOf(groups, 0) \in Seq(Records) /\ P \o RecordsOf(groups, 0) # <<>>
      /\ Laid(P \o RecordsOf(groups, 0), none \o s)
  BY <1>1, <1>3, <1>6, <1>7, LaidExtends
<1>9. none \o s = s
  BY <1>1 DEF none
<1>10. Archive(ManifestOf(P \o RecordsOf(groups, 0), s))
  BY <1>8, <1>9, ManifestIsArchive
<1>11. QED
  BY <1>10 DEF P

LEMMA NextArchive ==
  ASSUME NEW m, Archive(m), NEW s \in Seq(Events), NEW groups, Tiles(groups, s),
         Ordered(m.whole \o s)
  PROVE  Archive(ManifestOf(m.segments \o RecordsOf(groups, m.count), m.whole \o s))
<1>1. /\ m.segments \in Seq(Records) /\ m.segments # <<>> /\ m.whole \in Seq(Events)
      /\ m.whole # <<>> /\ m.count = Len(m.whole) /\ Laid(m.segments, m.whole)
  BY DEF Archive, Manifests
<1>2. /\ m.segments \o RecordsOf(groups, m.count) \in Seq(Records)
      /\ m.segments \o RecordsOf(groups, m.count) # <<>>
      /\ Laid(m.segments \o RecordsOf(groups, m.count), m.whole \o s)
  BY <1>1, LaidExtends
<1>3. m.whole \o s # <<>>
  BY <1>1, ConcatEqualIffEmpty
<1>4. QED
  BY <1>2, <1>3, ManifestIsArchive
----------------------------------------------------------------------------
(* What `check` accepts.                                                    *)
Joined(m, l) == Ordered(m.whole \o l.events) /\ l.index = m.count
Overlapped(m, l) == l.events # <<>> /\ l.events[1] \in Range(m.whole)

LEMMA JoinedVerifies ==
  ASSUME NEW m, Archive(m), NEW l \in Volumes, Joined(m, l),
         NEW disk, SegmentsIntact(m, disk)
  PROVE  Verified(l, m, disk)
<1>1. /\ m.segments \in Seq(Records) /\ m.whole \in Seq(Events) /\ m.whole # <<>>
      /\ Ordered(m.whole) /\ Laid(m.segments, m.whole) /\ l.events \in Seq(Events)
      /\ m.count = Len(m.whole) /\ m.last = IdOf(m.whole[Len(m.whole)])
  BY DEF Archive, Manifests, Volumes
<1>2. m # NoManifest
  BY <1>1 DEF NoManifest
<1>3. \A i \in DOMAIN m.segments : PartsOf(m, disk)[i] = m.segments[i].digest
  BY DEF PartsOf, SegmentsIntact
<1>4. Reconstructs(m, PartsOf(m, disk))
  BY <1>1, <1>3 DEF Reconstructs, Laid, RecordEnd
<1>5. Contiguous(IdsOf(m.whole))
  BY <1>1, ContiguousIs DEF Ordered
<1>6. m.whole \o l.events \in Seq(Events) /\ m.whole \o l.events # <<>>
  BY <1>1, ConcatProperties, ConcatEqualIffEmpty
<1>7. Contiguous(IdsOf(m.whole \o l.events))
  BY <1>6, ContiguousIs DEF Joined, Ordered
<1>8. QED
  BY <1>1, <1>2, <1>4, <1>5, <1>7 DEF Verified

LEMMA OverlapFails ==
  ASSUME NEW m, Archive(m), NEW l \in Volumes, Overlapped(m, l), NEW disk
  PROVE  ~ Verified(l, m, disk)
<1> SUFFICES ASSUME Verified(l, m, disk) PROVE FALSE
  OBVIOUS
<1> DEFINE w == m.whole
           t == l.events
           u == w \o t
<1>1. /\ w \in Seq(Events) /\ w # <<>> /\ Ordered(w) /\ t \in Seq(Events) /\ t # <<>>
      /\ t[1] \in Range(w)
  BY DEF Archive, Manifests, Volumes, Overlapped
<1> HIDE DEF w, t
<1>2. /\ Len(w) \in Nat /\ Len(w) >= 1 /\ Len(t) \in Nat /\ Len(t) >= 1
      /\ DOMAIN w = 1 .. Len(w)
  BY <1>1, EmptySeq
<1>3. /\ u \in Seq(Events) /\ Len(u) = Len(w) + Len(t)
      /\ \A i \in 1 .. Len(w) + Len(t) : u[i] = IF i <= Len(w) THEN w[i] ELSE t[i - Len(w)]
  BY <1>1, ConcatProperties
<1>4. Chained(u)
  <2>1. Contiguous(IdsOf(u))
    BY DEF Verified, w, t
  <2>2. QED
    BY <1>3, <2>1, ContiguousIs
<1> HIDE DEF u
<1>5. Follows(IdOf(w[Len(w)]), IdOf(t[1]))
  <2>1. Len(w) \in 1 .. Len(u) - 1
    BY <1>2, <1>3
  <2>2. Follows(IdOf(u[Len(w)]), IdOf(u[Len(w) + 1]))
    BY <1>4, <2>1 DEF Chained
  <2>3. Len(w) \in 1 .. Len(w) + Len(t) /\ Len(w) <= Len(w)
    BY <1>2
  <2>4. u[Len(w)] = w[Len(w)]
    BY <1>3, <2>3
  <2>5. u[Len(w) + 1] = t[1]
    <3>1. PICK k \in 1 .. Len(w) + Len(t) : k = Len(w) + 1
      BY <1>2
    <3>2. ~ (k <= Len(w)) /\ k - Len(w) = 1
      BY <1>2, <3>1
    <3>3. QED
      BY <1>3, <3>1, <3>2
  <2>6. QED
    BY <2>2, <2>4, <2>5
<1>6. PICK k \in 1 .. Len(w) : w[k] = t[1]
  BY <1>1, <1>2 DEF Range
<1>7. w[k] \in Events /\ w[Len(w)] \in Events
  BY <1>1, <1>2, ElementOfSeq
<1>8. CASE k = Len(w)
  BY <1>5, <1>6, <1>7, <1>8 DEF Follows, IdOf, Events
<1>9. CASE k # Len(w)
  <2>1. k < Len(w) /\ k \in DOMAIN w /\ Len(w) \in DOMAIN w
    <3>1. k \in Nat /\ 1 <= k /\ k <= Len(w) /\ Len(w) \in Nat
      BY <1>2
    <3>2. k < Len(w)
      BY <1>9, <3>1
    <3>3. QED
      BY <1>2, <3>1, <3>2
  <2>2. Precedes(t[1], w[Len(w)])
    BY <1>1, <1>6, <2>1 DEF Ordered, Sorted
  <2>3. QED
    BY <1>5, <1>6, <1>7, <2>2 DEF Precedes, Follows, IdOf, Events
<1>10. QED
  BY <1>8, <1>9

----------------------------------------------------------------------------
(***************************************************************************)
(* The invariant of the journal.                                           *)
(***************************************************************************)
HistoryInv ==
  /\ published \in Seq(Events) /\ published # <<>> /\ Len(published) <= MaxEvents
  /\ \A i \in DOMAIN published : published[i].n = i
  /\ raced \subseteq Range(published)

(* There is no archive; or the live file continues it; or a half-done         *)
(* migration left the archived events in the live file too.                  *)
FilesInv ==
  /\ live \in Volumes /\ Ordered(live.events) /\ Range(live.events) \subseteq Range(published)
  /\ segments \in [DOMAIN segments -> Seq(Events)]
  /\ \/ manifest = NoManifest /\ live.index = 0 /\ live.events # <<>>
     \/ /\ Archive(manifest) /\ SegmentsIntact(manifest, segments)
        /\ Range(manifest.whole) \subseteq Range(published)
        /\ Joined(manifest, live) \/ Overlapped(manifest, live)
  /\ Range(published) \ raced \subseteq Range(live.events) \cup Range(manifest.whole)

SharedJInv == HistoryInv /\ FilesInv

IdleMigs == [pc : {"idle"}, runs : 0 .. MaxMigrations, faults : 0 .. MaxFaults]
CreateMigs ==
  [pc : {"publish", "recheck", "swap"}, runs : 0 .. MaxMigrations - 1, faults : 0 .. MaxFaults,
   live : Volumes, groups : Seq(Groups)]
AppendLabels == {"install", "manifest", "journal", "verify", "restoreManifest", "restoreJournal", "unlink"}
AppendMigs ==
  [pc : AppendLabels, runs : 0 .. MaxMigrations - 1, faults : 0 .. MaxFaults,
   live : Volumes, old : Manifests, groups : Seq(Groups), installed : Nat, new : Manifests,
   tail : Seq(Events), temps : SUBSET {"manifest", "journal"}]

(* The copy of a first migration, which is archived whole.                  *)
CreateInv ==
  /\ mig \in CreateMigs
  /\ Ordered(mig.live.events) /\ mig.live.events # <<>> /\ mig.live.index = 0
  /\ Range(mig.live.events) \subseteq Range(published)
  /\ Tiles(mig.groups, mig.live.events)
  /\ live.events # <<>> /\ live.events[1] = mig.live.events[1]
  /\ mig.pc = "publish" => manifest = NoManifest
  /\ mig.pc \in {"recheck", "swap"} =>
       manifest # NoManifest /\ manifest.whole = mig.live.events
  /\ mig.pc = "swap" => Range(live.events) \ raced \subseteq Range(mig.live.events)

(* What a later migration means to do: the archive it found, the one it        *)
(* leaves, and the live file cut in two.                                      *)
Planned(m) ==
  /\ Archive(m.old) /\ Archive(m.new) /\ Joined(m.old, m.live) /\ m.live.events # <<>>
  /\ m.new.whole \o m.tail = m.old.whole \o m.live.events
  /\ Range(m.old.whole) \subseteq Range(m.new.whole)
  /\ Range(m.new.whole) \subseteq Range(m.old.whole) \cup Range(m.live.events)
  /\ Range(m.tail) \subseteq Range(m.live.events)
  /\ Range(m.live.events) \subseteq Range(m.new.whole) \cup Range(m.tail)
  /\ m.live.events[1] \in Range(m.new.whole)
  /\ \A i \in DOMAIN m.new.segments :
       \/ m.new.segments[i] \in Range(m.old.segments)
       \/ \E g \in DOMAIN m.groups : /\ m.new.segments[i].path = NameOf(m.groups[g].events)
                                     /\ m.new.segments[i].digest = m.groups[g].events
  /\ \A g \in DOMAIN m.groups : NameOf(m.groups[g].events) \notin PathsOf(m.old.segments)

(* The live file is the copy, with raced events behind it.                  *)
CopyIsCurrent ==
  /\ Joined(mig.old, live)
  /\ live.events # <<>> /\ live.events[1] = mig.live.events[1]
  /\ Range(mig.live.events) \subseteq Range(live.events)
  /\ Range(live.events) \ raced \subseteq Range(mig.live.events)

Installed(m, disk) ==
  /\ m.installed <= Len(m.groups)
  /\ \A g \in 1 .. m.installed : /\ NameOf(m.groups[g].events) \in DOMAIN disk
                                 /\ disk[NameOf(m.groups[g].events)] = m.groups[g].events

AppendInv ==
  /\ mig \in AppendMigs
  /\ Planned(mig)
  /\ Range(mig.old.whole) \cup Range(mig.live.events) \subseteq Range(published)
  /\ SegmentsIntact(mig.old, segments) /\ Installed(mig, segments)
  /\ mig.pc \in {"manifest", "journal", "verify"} => mig.installed = Len(mig.groups)
  /\ mig.pc \in {"install", "manifest", "restoreJournal", "unlink"} => manifest = mig.old
  /\ mig.pc \in {"journal", "verify"} => manifest = mig.new
  /\ mig.pc = "restoreManifest" => manifest \in {mig.old, mig.new}
  /\ mig.pc \in AppendLabels \ {"verify", "unlink"} => CopyIsCurrent
  /\ mig.pc = "verify" => Joined(mig.new, live)

JInv == SharedJInv /\ (mig \in IdleMigs \/ CreateInv \/ AppendInv)
----------------------------------------------------------------------------
(* Ranges of payloads.                                                      *)
LEMMA RangeIs ==
  ASSUME NEW s \in Seq(Events)
  PROVE  /\ Range(s) \subseteq Events
         /\ \A i \in 1 .. Len(s) : s[i] \in Range(s)
         /\ \A e \in Range(s) : \E i \in 1 .. Len(s) : s[i] = e
<1>1. DOMAIN s = 1 .. Len(s) /\ \A i \in 1 .. Len(s) : s[i] \in Events
  BY LenProperties, ElementOfSeq
<1>2. QED
  BY <1>1 DEF Range

LEMMA AppendIs ==
  ASSUME NEW s \in Seq(Events), NEW e \in Events
  PROVE  /\ Append(s, e) \in Seq(Events) /\ Append(s, e) # <<>>
         /\ Len(Append(s, e)) = Len(s) + 1
         /\ \A i \in 1 .. Len(s) : Append(s, e)[i] = s[i]
         /\ Append(s, e)[Len(s) + 1] = e
         /\ Range(Append(s, e)) = Range(s) \cup {e}
<1>1. Len(s) \in Nat /\ DOMAIN s = 1 .. Len(s)
  OBVIOUS
<1>2. /\ Append(s, e) \in Seq(Events)
      /\ Len(Append(s, e)) = Len(s) + 1
      /\ \A i \in 1 .. Len(s) : Append(s, e)[i] = s[i]
      /\ Append(s, e)[Len(s) + 1] = e
  OBVIOUS
<1> DEFINE t == Append(s, e)
<1> HIDE DEF t
<1>3. /\ t \in Seq(Events) /\ Len(t) = Len(s) + 1
      /\ \A i \in 1 .. Len(s) : t[i] = s[i]
      /\ t[Len(s) + 1] = e
  BY <1>2 DEF t
<1>4. t # <<>>
  BY <1>1, <1>3, EmptySeq
<1>5. Range(t) = Range(s) \cup {e}
  <2>1. \A x \in Range(t) : x \in Range(s) \cup {e}
    <3> SUFFICES ASSUME NEW x \in Range(t) PROVE x \in Range(s) \cup {e}
      OBVIOUS
    <3>1. PICK i \in 1 .. Len(t) : t[i] = x
      BY <1>3, RangeIs
    <3>2. i = Len(s) + 1 \/ i \in 1 .. Len(s)
      BY <1>1, <1>3
    <3>3. QED
      BY <1>3, <3>1, <3>2, RangeIs
  <2>2. \A x \in Range(s) : x \in Range(t)
    <3> SUFFICES ASSUME NEW x \in Range(s) PROVE x \in Range(t)
      OBVIOUS
    <3>1. PICK i \in 1 .. Len(s) : s[i] = x
      BY RangeIs
    <3>2. i \in 1 .. Len(t)
      BY <1>1, <1>3
    <3>3. QED
      BY <1>3, <3>1, <3>2, RangeIs
  <2>3. e \in Range(t)
    <3>1. Len(s) + 1 \in 1 .. Len(t)
      BY <1>1, <1>3
    <3>2. QED
      BY <1>3, <3>1, RangeIs
  <2>4. QED
    BY <2>1, <2>2, <2>3
<1>6. QED
  BY <1>2, <1>4, <1>5 DEF t

LEMMA ConcatRange ==
  ASSUME NEW s \in Seq(Events), NEW t \in Seq(Events)
  PROVE  Range(s \o t) = Range(s) \cup Range(t)
<1> DEFINE u == s \o t
<1>1. /\ u \in Seq(Events) /\ Len(u) = Len(s) + Len(t) /\ Len(s) \in Nat /\ Len(t) \in Nat
      /\ \A i \in 1 .. Len(s) + Len(t) : u[i] = IF i <= Len(s) THEN s[i] ELSE t[i - Len(s)]
  BY ConcatProperties
<1> HIDE DEF u
<1>2. \A x \in Range(u) : x \in Range(s) \cup Range(t)
  <2> SUFFICES ASSUME NEW x \in Range(u) PROVE x \in Range(s) \cup Range(t)
    OBVIOUS
  <2>1. PICK i \in 1 .. Len(s) + Len(t) : u[i] = x
    BY <1>1, RangeIs
  <2>2. CASE i <= Len(s)
    <3>1. i \in 1 .. Len(s) /\ s[i] = x
      BY <1>1, <2>1, <2>2
    <3>2. QED
      BY <3>1, RangeIs
  <2>3. CASE ~ (i <= Len(s))
    <3>1. i - Len(s) \in 1 .. Len(t) /\ t[i - Len(s)] = x
      BY <1>1, <2>1, <2>3
    <3>2. QED
      BY <3>1, RangeIs
  <2>4. QED
    BY <2>2, <2>3
<1>3. \A x \in Range(s) : x \in Range(u)
  <2> SUFFICES ASSUME NEW x \in Range(s) PROVE x \in Range(u)
    OBVIOUS
  <2>1. PICK i \in 1 .. Len(s) : s[i] = x
    BY RangeIs
  <2>2. i \in 1 .. Len(u) /\ u[i] = x
    BY <1>1, <2>1
  <2>3. QED
    BY <1>1, <2>2, RangeIs
<1>4. \A x \in Range(t) : x \in Range(u)
  <2> SUFFICES ASSUME NEW x \in Range(t) PROVE x \in Range(u)
    OBVIOUS
  <2>1. PICK i \in 1 .. Len(t) : t[i] = x
    BY RangeIs
  <2>2. PICK k \in 1 .. Len(s) + Len(t) : k = Len(s) + i
    BY <1>1
  <2>3. ~ (k <= Len(s)) /\ k - Len(s) = i
    BY <1>1, <2>2
  <2>4. k \in 1 .. Len(u) /\ u[k] = x
    BY <1>1, <2>1, <2>3
  <2>5. QED
    BY <1>1, <2>4, RangeIs
<1>5. Range(u) = Range(s) \cup Range(t)
  BY <1>2, <1>3, <1>4
<1>6. QED
  BY <1>5 DEF u

LEMMA ConcatAppend ==
  ASSUME NEW s \in Seq(Events), NEW t \in Seq(Events), NEW e \in Events
  PROVE  s \o Append(t, e) = Append(s \o t, e)
<1>1. Append(t, e) = t \o <<e>> /\ <<e>> \in Seq(Events)
  OBVIOUS
<1>2. s \o t \in Seq(Events)
  BY ConcatProperties
<1>3. Append(s \o t, e) = (s \o t) \o <<e>>
  BY <1>2
<1>4. QED
  BY <1>1, <1>3, ConcatAssociative

(* An event that follows what w and t end with.                             *)
LEMMA FollowerOrdered ==
  ASSUME NEW w \in Seq(Events), NEW t \in Seq(Events), Ordered(w \o t), NEW e \in Events,
         \A f \in Range(w) \cup Range(t) : f.n < e.n,
         t # <<>> => Follows(IdOf(t[Len(t)]), IdOf(e)),
         t = <<>> /\ w # <<>> => Follows(IdOf(w[Len(w)]), IdOf(e))
  PROVE  Ordered(w \o Append(t, e))
<1> DEFINE u == w \o t
<1>1. /\ u \in Seq(Events) /\ Len(u) = Len(w) + Len(t) /\ Len(w) \in Nat /\ Len(t) \in Nat
      /\ \A i \in 1 .. Len(w) + Len(t) : u[i] = IF i <= Len(w) THEN w[i] ELSE t[i - Len(w)]
  BY ConcatProperties
<1>2. Ordered(u) /\ Range(u) = Range(w) \cup Range(t)
  BY ConcatRange
<1> HIDE DEF u
<1>3. \A i \in DOMAIN u : u[i].n < e.n
  <2> SUFFICES ASSUME NEW i \in DOMAIN u PROVE u[i].n < e.n
    OBVIOUS
  <2>1. i \in 1 .. Len(u)
    BY <1>1, LenProperties
  <2>2. u[i] \in Range(u)
    BY <1>1, <2>1, RangeIs
  <2>3. QED
    BY <1>2, <2>2
<1>4. u # <<>> => Follows(IdOf(u[Len(u)]), IdOf(e))
  <2> SUFFICES ASSUME u # <<>> PROVE Follows(IdOf(u[Len(u)]), IdOf(e))
    OBVIOUS
  <2>1. CASE t # <<>>
    <3>1. Len(t) >= 1
      BY <2>1, EmptySeq
    <3>2. PICK k \in 1 .. Len(w) + Len(t) : k = Len(u)
      BY <1>1, <3>1
    <3>3. ~ (k <= Len(w)) /\ k - Len(w) = Len(t)
      BY <1>1, <3>1, <3>2
    <3>4. u[Len(u)] = t[Len(t)]
      BY <1>1, <3>2, <3>3
    <3>5. QED
      BY <2>1, <3>4
  <2>2. CASE t = <<>>
    <3>1. u = w
      BY <2>2, ConcatEmptySeq DEF u
    <3>2. QED
      BY <2>2, <3>1
  <2>3. QED
    BY <2>1, <2>2
<1>5. Ordered(Append(u, e))
  BY <1>2, <1>3, <1>4, AppendOrdered
<1>6. QED
  BY <1>5, ConcatAppend DEF u

----------------------------------------------------------------------------
(* An event is appended.                                                    *)
LEMMA AppendEventIs ==
  ASSUME SharedJInv, AppendEvent
  PROVE  \E e \in Events :
           /\ published' = Append(published, e) /\ e.n = Len(published) + 1
           /\ live' = [live EXCEPT !.events = Append(@, e)]
           /\ raced' = IF mig.pc \in Overwrites THEN raced \cup {e} ELSE raced
           /\ live.events # <<>> => Follows(IdOf(live.events[Len(live.events)]), IdOf(e))
           /\ live.events = <<>> /\ manifest.whole # <<>> =>
                Follows(IdOf(manifest.whole[Len(manifest.whole)]), IdOf(e))
<1>1. PICK id \in {<<LastId[1], LastId[2] + 1>>} \cup {<<d, 1>> : d \in LastId[1] + 1 .. MaxDays} :
        LET e == [day |-> id[1], seq |-> id[2], n |-> Len(published) + 1]
        IN /\ published' = Append(published, e)
           /\ live' = [live EXCEPT !.events = Append(@, e)]
           /\ raced' = IF mig.pc \in Overwrites THEN raced \cup {e} ELSE raced
  BY DEF AppendEvent
<1> DEFINE e == [day |-> id[1], seq |-> id[2], n |-> Len(published) + 1]
<1>2. Len(published) \in Nat /\ live.events \in Seq(Events)
  BY DEF SharedJInv, HistoryInv, FilesInv, Volumes
<1>3. \E f \in Events : /\ LastId = IdOf(f)
                        /\ live.events # <<>> => f = live.events[Len(live.events)]
                        /\ live.events = <<>> => /\ f = manifest.whole[Len(manifest.whole)]
  <2>1. CASE live.events # <<>>
    <3>1. Len(live.events) \in 1 .. Len(live.events)
      BY <1>2, <2>1, EmptySeq
    <3>2. live.events[Len(live.events)] \in Events
      BY <1>2, <3>1, ElementOfSeq
    <3>3. LastId = IdOf(live.events[Len(live.events)])
      BY <2>1 DEF LastId, Last
    <3>4. QED
      BY <2>1, <3>2, <3>3
  <2>2. CASE live.events = <<>>
    <3>1. Archive(manifest)
      BY <2>2 DEF SharedJInv, FilesInv
    <3>2. /\ manifest.whole \in Seq(Events) /\ manifest.whole # <<>>
          /\ manifest.last = IdOf(manifest.whole[Len(manifest.whole)])
      BY <3>1 DEF Archive, Manifests
    <3>3. Len(manifest.whole) \in 1 .. Len(manifest.whole)
      BY <3>2, EmptySeq
    <3>4. manifest.whole[Len(manifest.whole)] \in Events
      BY <3>2, <3>3, ElementOfSeq
    <3>5. LastId = IdOf(manifest.whole[Len(manifest.whole)])
      BY <2>2, <3>2 DEF LastId
    <3>6. QED
      BY <2>2, <3>4, <3>5
  <2>3. QED
    BY <2>1, <2>2
<1>4. PICK f \in Events : /\ LastId = IdOf(f)
                          /\ live.events # <<>> => f = live.events[Len(live.events)]
                          /\ live.events = <<>> => /\ f = manifest.whole[Len(manifest.whole)]
  BY <1>3
<1>5. LastId[1] = f.day /\ LastId[2] = f.seq /\ f.day \in 1 .. MaxDays /\ f.seq \in Nat
  BY <1>4 DEF IdOf, Events
<1>6. id[1] \in 1 .. MaxDays /\ id[2] \in Nat /\ Follows(LastId, <<id[1], id[2]>>)
  <2>1. CASE id = <<LastId[1], LastId[2] + 1>>
    BY <1>5, <2>1 DEF Follows
  <2>2. CASE id \in {<<d, 1>> : d \in LastId[1] + 1 .. MaxDays}
    <3>1. PICK d \in LastId[1] + 1 .. MaxDays : id = <<d, 1>>
      BY <2>2
    <3>2. d \in 1 .. MaxDays /\ d > LastId[1]
      BY <1>5, JournalBounds
    <3>3. QED
      BY <3>1, <3>2 DEF Follows
  <2>3. QED
    BY <2>1, <2>2
<1>7. e \in Events /\ IdOf(e) = <<id[1], id[2]>> /\ e.n = Len(published) + 1
  BY <1>2, <1>6 DEF Events, IdOf
<1>8. Follows(IdOf(f), IdOf(e))
  BY <1>4, <1>6, <1>7
<1>9. /\ published' = Append(published, e)
      /\ live' = [live EXCEPT !.events = Append(@, e)]
      /\ raced' = IF mig.pc \in Overwrites THEN raced \cup {e} ELSE raced
  BY <1>1
<1> HIDE DEF e
<1>10. QED
  BY <1>4, <1>7, <1>8, <1>9

LEMMA AppendEventKeeps == ASSUME JInv, AppendEvent PROVE JInv'
<1>0. /\ SharedJInv /\ HistoryInv /\ FilesInv
      /\ manifest' = manifest /\ segments' = segments /\ mig' = mig
  BY DEF JInv, SharedJInv, AppendEvent
<1>1. PICK e \in Events :
        /\ published' = Append(published, e) /\ e.n = Len(published) + 1
        /\ live' = [live EXCEPT !.events = Append(@, e)]
        /\ raced' = IF mig.pc \in Overwrites THEN raced \cup {e} ELSE raced
        /\ live.events # <<>> => Follows(IdOf(live.events[Len(live.events)]), IdOf(e))
        /\ live.events = <<>> /\ manifest.whole # <<>> =>
             Follows(IdOf(manifest.whole[Len(manifest.whole)]), IdOf(e))
  BY <1>0, AppendEventIs
<1>2. /\ published \in Seq(Events) /\ Len(published) \in Nat /\ DOMAIN published = 1 .. Len(published)
      /\ \A i \in 1 .. Len(published) : published[i].n = i
      /\ raced \subseteq Range(published)
  BY <1>0 DEF HistoryInv
<1>3. /\ live.events \in Seq(Events) /\ live.index \in Nat /\ live = [index |-> live.index, events |-> live.events]
      /\ Range(live.events) \subseteq Range(published) /\ Ordered(live.events)
  BY <1>0 DEF FilesInv, Volumes
<1>4. /\ Append(published, e) \in Seq(Events) /\ Append(published, e) # <<>>
      /\ Len(Append(published, e)) = Len(published) + 1
      /\ \A i \in 1 .. Len(published) : Append(published, e)[i] = published[i]
      /\ Append(published, e)[Len(published) + 1] = e
      /\ Range(Append(published, e)) = Range(published) \cup {e}
  BY <1>2, AppendIs
<1> DEFINE events == Append(live.events, e)
<1>5. /\ events \in Seq(Events) /\ events # <<>>
      /\ \A i \in 1 .. Len(live.events) : events[i] = live.events[i]
      /\ Range(events) = Range(live.events) \cup {e}
  BY <1>3, AppendIs
<1>6. live' = [index |-> live.index, events |-> events] /\ live'.index = live.index /\ live'.events = events
  <2>1. live' = [live EXCEPT !.events = events]
    BY <1>1
  <2> HIDE DEF events
  <2>2. QED
    BY <1>3, <2>1
<1> HIDE DEF events
<1>7. HistoryInv'
  <2>1. published' \in Seq(Events) /\ published' # <<>>
    BY <1>1, <1>4
  <2>2. Len(published') <= MaxEvents
    <3>1. Len(published) < MaxEvents
      BY DEF AppendEvent
    <3>2. QED
      BY <1>1, <1>2, <1>4, <3>1, JournalBounds
  <2>3. \A i \in DOMAIN published' : published'[i].n = i
    <3> SUFFICES ASSUME NEW i \in DOMAIN published' PROVE published'[i].n = i
      OBVIOUS
    <3>1. i \in 1 .. Len(published) + 1
      BY <1>1, <1>4, LenProperties
    <3>2. i \in 1 .. Len(published) \/ i = Len(published) + 1
      BY <1>2, <3>1
    <3>3. QED
      BY <1>1, <1>2, <1>4, <3>2
  <2>4. raced' \subseteq Range(published')
    BY <1>1, <1>2, <1>4
  <2>5. QED
    BY <2>1, <2>2, <2>3, <2>4 DEF HistoryInv
<1>8. \A f \in Range(published) : f.n < e.n
  <2> SUFFICES ASSUME NEW f \in Range(published) PROVE f.n < e.n
    OBVIOUS
  <2>1. PICK i \in 1 .. Len(published) : published[i] = f
    BY <1>2, RangeIs
  <2>2. QED
    BY <1>1, <1>2, <2>1
<1>9. Ordered(events)
  <2>1. \A i \in DOMAIN live.events : live.events[i].n < e.n
    BY <1>3, <1>8 DEF Range
  <2>2. QED
    BY <1>1, <1>3, <2>1, AppendOrdered DEF events
<1>10. ASSUME NEW m, Archive(m), Range(m.whole) \subseteq Range(published), Joined(m, live),
              live.events = <<>> => m = manifest
       PROVE  Joined(m, live')
  <2>1. m.whole \in Seq(Events) /\ m.whole # <<>>
    BY <1>10 DEF Archive, Manifests
  <2>2. Ordered(m.whole \o events)
    <3>1. \A f \in Range(m.whole) \cup Range(live.events) : f.n < e.n
      BY <1>3, <1>8, <1>10
    <3>2. live.events = <<>> => Follows(IdOf(m.whole[Len(m.whole)]), IdOf(e))
      BY <1>1, <1>10, <2>1
    <3>3. Ordered(m.whole \o live.events)
      BY <1>10 DEF Joined
    <3>4. QED
      BY <1>1, <1>3, <2>1, <3>1, <3>2, <3>3, FollowerOrdered DEF events
  <2>3. QED
    BY <1>6, <1>10, <2>2 DEF Joined
<1>11. live.events # <<>> => live'.events # <<>> /\ live'.events[1] = live.events[1]
  <2> SUFFICES ASSUME live.events # <<>>
               PROVE  live'.events # <<>> /\ live'.events[1] = live.events[1]
    OBVIOUS
  <2>1. 1 \in 1 .. Len(live.events)
    BY <1>3, EmptySeq
  <2>2. QED
    BY <1>5, <1>6, <2>1
<1>12. FilesInv'
  <2>1. live' \in Volumes /\ Ordered(live'.events) /\ Range(live'.events) \subseteq Range(published')
    BY <1>1, <1>3, <1>4, <1>5, <1>6, <1>9 DEF Volumes
  <2>2. segments' \in [DOMAIN segments' -> Seq(Events)]
    BY <1>0 DEF FilesInv
  <2>3. \/ manifest' = NoManifest /\ live'.index = 0 /\ live'.events # <<>>
        \/ /\ Archive(manifest') /\ SegmentsIntact(manifest', segments')
           /\ Range(manifest'.whole) \subseteq Range(published')
           /\ Joined(manifest', live') \/ Overlapped(manifest', live')
    <3>1. CASE manifest = NoManifest /\ live.index = 0 /\ live.events # <<>>
      BY <1>0, <1>6, <1>11, <3>1
    <3>2. CASE /\ Archive(manifest) /\ SegmentsIntact(manifest, segments)
               /\ Range(manifest.whole) \subseteq Range(published)
               /\ Joined(manifest, live) \/ Overlapped(manifest, live)
      <4>1. CASE Joined(manifest, live)
        BY <1>0, <1>1, <1>4, <1>10, <3>2, <4>1
      <4>2. CASE Overlapped(manifest, live)
        BY <1>0, <1>1, <1>4, <1>11, <3>2, <4>2 DEF Overlapped
      <4>3. QED
        BY <3>2, <4>1, <4>2
    <3>3. QED
      BY <1>0, <3>1, <3>2 DEF FilesInv
  <2>4. Range(published') \ raced' \subseteq Range(live'.events) \cup Range(manifest'.whole)
    <3>1. Range(published) \ raced \subseteq Range(live.events) \cup Range(manifest.whole)
      BY <1>0 DEF FilesInv
    <3>2. raced \subseteq raced'
      BY <1>1
    <3>3. QED
      BY <1>0, <1>1, <1>4, <1>5, <1>6, <3>1, <3>2
  <2>5. QED
    BY <2>1, <2>2, <2>3, <2>4 DEF FilesInv
<1>13. CASE mig \in IdleMigs
  BY <1>0, <1>7, <1>12, <1>13 DEF JInv, SharedJInv
<1>14. CASE CreateInv
  <2>1. live'.events # <<>> /\ live'.events[1] = mig.live.events[1]
    BY <1>11, <1>14 DEF CreateInv
  <2>2. mig.pc = "swap" => Range(live'.events) \ raced' \subseteq Range(mig.live.events)
    BY <1>1, <1>5, <1>6, <1>14 DEF CreateInv, Overwrites
  <2>3. Range(mig.live.events) \subseteq Range(published')
    BY <1>1, <1>4, <1>14 DEF CreateInv
  <2>4. CreateInv'
    BY <1>0, <1>14, <2>1, <2>2, <2>3 DEF CreateInv
  <2>5. QED
    BY <1>7, <1>12, <2>4 DEF JInv, SharedJInv
<1>15. CASE AppendInv
  <2>1. Range(mig.old.whole) \cup Range(mig.live.events) \subseteq Range(published')
    BY <1>1, <1>4, <1>15 DEF AppendInv
  <2>2. mig.pc \in AppendLabels \ {"verify", "unlink"} => CopyIsCurrent'
    <3> SUFFICES ASSUME mig.pc \in AppendLabels \ {"verify", "unlink"} PROVE CopyIsCurrent'
      OBVIOUS
    <3>1. CopyIsCurrent
      BY <1>15 DEF AppendInv
    <3>2. Joined(mig.old, live')
      BY <1>10, <1>15, <3>1 DEF AppendInv, Planned, CopyIsCurrent
    <3>3. live'.events # <<>> /\ live'.events[1] = mig.live.events[1]
      BY <1>11, <3>1 DEF CopyIsCurrent
    <3>4. raced' = raced \cup {e}
      BY <1>1 DEF Overwrites, AppendLabels
    <3>5. /\ Range(mig.live.events) \subseteq Range(live'.events)
          /\ Range(live'.events) \ raced' \subseteq Range(mig.live.events)
      BY <1>5, <1>6, <3>1, <3>4 DEF CopyIsCurrent
    <3>6. QED
      BY <1>0, <3>2, <3>3, <3>5 DEF CopyIsCurrent
  <2>3. mig.pc = "verify" => Joined(mig.new, live')
    <3> SUFFICES ASSUME mig.pc = "verify" PROVE Joined(mig.new, live')
      OBVIOUS
    <3>1. Archive(mig.new) /\ Joined(mig.new, live) /\ manifest = mig.new
      BY <1>15 DEF AppendInv, Planned
    <3>2. Range(mig.new.whole) \subseteq Range(published)
      BY <1>15 DEF AppendInv, Planned
    <3>3. QED
      BY <1>10, <3>1, <3>2
  <2>4. AppendInv'
    BY <1>0, <1>15, <2>1, <2>2, <2>3 DEF AppendInv
  <2>5. QED
    BY <1>7, <1>12, <2>4 DEF JInv, SharedJInv
<1>16. QED
  BY <1>13, <1>14, <1>15 DEF JInv

----------------------------------------------------------------------------
(* The end of a migration.                                                  *)
LEMMA EndedIs ==
  ASSUME mig \in CreateMigs \cup AppendMigs
  PROVE  /\ Ended \in IdleMigs
         /\ mig.faults < MaxFaults => [Ended EXCEPT !.faults = @ + 1] \in IdleMigs
<1>1. mig.runs \in 0 .. MaxMigrations - 1 /\ mig.faults \in 0 .. MaxFaults
  BY DEF CreateMigs, AppendMigs
<1>2. mig.runs + 1 \in 0 .. MaxMigrations
  BY <1>1, JournalBounds
<1>3. mig.faults < MaxFaults => mig.faults + 1 \in 0 .. MaxFaults
  BY <1>1, JournalBounds
<1>4. QED
  BY <1>1, <1>2, <1>3 DEF Ended, IdleMigs

(* The phases tell which kind of migration runs.                            *)
LEMMA KindOf ==
  ASSUME JInv
  PROVE  /\ SharedJInv /\ HistoryInv /\ FilesInv
         /\ mig.pc = "idle" => mig \in IdleMigs
         /\ mig.pc \in {"publish", "recheck", "swap"} => CreateInv
         /\ mig.pc \in AppendLabels => AppendInv
         /\ mig.pc # "idle" => mig \in CreateMigs \cup AppendMigs
         /\ mig.pc \in {"idle", "publish", "recheck", "swap"} \cup AppendLabels
<1>1. mig \in IdleMigs => mig.pc = "idle"
  BY DEF IdleMigs
<1>2. CreateInv => mig \in CreateMigs /\ mig.pc \in {"publish", "recheck", "swap"}
  BY DEF CreateInv, CreateMigs
<1>3. AppendInv => mig \in AppendMigs /\ mig.pc \in AppendLabels
  BY DEF AppendInv, AppendMigs
<1>4. QED
  BY <1>1, <1>2, <1>3 DEF JInv, SharedJInv, AppendLabels

(* A step that leaves the files alone.                                      *)
LEMMA FilesStay ==
  ASSUME SharedJInv, UNCHANGED <<published, raced, live, manifest, segments>>
  PROVE  SharedJInv'
<1>1. HistoryInv'
  BY DEF SharedJInv, HistoryInv
<1>2. segments' \in [DOMAIN segments' -> Seq(Events)]
  BY DEF SharedJInv, FilesInv
<1>3. live' \in Volumes /\ Ordered(live'.events) /\ Range(live'.events) \subseteq Range(published')
  BY DEF SharedJInv, FilesInv
<1>4. Range(published') \ raced' \subseteq Range(live'.events) \cup Range(manifest'.whole)
  BY DEF SharedJInv, FilesInv
<1>5. \/ manifest' = NoManifest /\ live'.index = 0 /\ live'.events # <<>>
      \/ /\ Archive(manifest') /\ SegmentsIntact(manifest', segments')
         /\ Range(manifest'.whole) \subseteq Range(published')
         /\ Joined(manifest', live') \/ Overlapped(manifest', live')
  BY DEF SharedJInv, FilesInv
<1>6. QED
  <2>1. FilesInv'
    BY <1>2, <1>3, <1>4, <1>5 DEF FilesInv
  <2>2. QED
    BY <1>1, <2>1 DEF SharedJInv

LEMMA IntactKept ==
  ASSUME NEW m, NEW old, NEW new, SegmentsIntact(m, old),
         \A i \in DOMAIN m.segments :
           /\ m.segments[i].path \in DOMAIN new
           /\ new[m.segments[i].path] = old[m.segments[i].path]
  PROVE  SegmentsIntact(m, new)
  BY DEF SegmentsIntact

(* A step that changes the segment files, but none that the manifest lists.   *)
LEMMA SegmentsStay ==
  ASSUME SharedJInv, UNCHANGED <<published, raced, live, manifest>>,
         segments' \in [DOMAIN segments' -> Seq(Events)],
         manifest # NoManifest => SegmentsIntact(manifest, segments')
  PROVE  SharedJInv'
<1>1. HistoryInv'
  BY DEF SharedJInv, HistoryInv
<1>2. live' \in Volumes /\ Ordered(live'.events) /\ Range(live'.events) \subseteq Range(published')
  BY DEF SharedJInv, FilesInv
<1>3. Range(published') \ raced' \subseteq Range(live'.events) \cup Range(manifest'.whole)
  BY DEF SharedJInv, FilesInv
<1>4. \/ manifest' = NoManifest /\ live'.index = 0 /\ live'.events # <<>>
      \/ /\ Archive(manifest') /\ SegmentsIntact(manifest', segments')
         /\ Range(manifest'.whole) \subseteq Range(published')
         /\ Joined(manifest', live') \/ Overlapped(manifest', live')
  <2>1. \/ manifest = NoManifest /\ live.index = 0 /\ live.events # <<>>
        \/ /\ Archive(manifest) /\ manifest # NoManifest
           /\ Range(manifest.whole) \subseteq Range(published)
           /\ Joined(manifest, live) \/ Overlapped(manifest, live)
    BY DEF SharedJInv, FilesInv, Archive, NoManifest
  <2>2. manifest' = manifest /\ live' = live /\ published' = published
    OBVIOUS
  <2>3. QED
    BY <2>1, <2>2
<1>5. FilesInv'
  BY <1>2, <1>3, <1>4 DEF FilesInv
<1>6. QED
  BY <1>1, <1>5 DEF SharedJInv

----------------------------------------------------------------------------
(* The first migration.                                                     *)
LEMMA StartCreateKeeps == ASSUME JInv, StartCreate PROVE JInv'
<1>0. SharedJInv /\ HistoryInv /\ FilesInv /\ mig \in IdleMigs
  BY KindOf DEF StartCreate
<1>1. /\ mig.runs < MaxMigrations /\ manifest = NoManifest
      /\ Contiguous(IdsOf(live.events))
      /\ UNCHANGED <<published, raced, live, manifest, segments>>
  BY DEF StartCreate
<1>2. PICK size \in ShardSizes : \E groups \in Grouped(live.events, size) :
        mig' = [pc |-> "publish", runs |-> mig.runs, faults |-> mig.faults,
                live |-> live, groups |-> groups]
  BY DEF StartCreate
<1>3. PICK groups \in Grouped(live.events, size) :
        mig' = [pc |-> "publish", runs |-> mig.runs, faults |-> mig.faults,
                live |-> live, groups |-> groups]
  BY <1>2
<1>4. /\ live \in Volumes /\ live.events \in Seq(Events) /\ Ordered(live.events)
      /\ Range(live.events) \subseteq Range(published)
      /\ live.index = 0 /\ live.events # <<>>
  <2>1. ~ Archive(manifest)
    BY <1>1 DEF Archive, NoManifest
  <2>2. QED
    BY <1>0, <2>1 DEF FilesInv, Volumes
<1>5. Tiles(groups, live.events)
  BY <1>4, GroupedTiles, JournalBounds
<1>6. mig' \in CreateMigs
  <2>1. mig.runs \in 0 .. MaxMigrations - 1 /\ mig.faults \in 0 .. MaxFaults
    BY <1>0, <1>1, JournalBounds DEF IdleMigs
  <2>2. groups \in Seq(Groups)
    BY <1>5 DEF Tiles
  <2>3. QED
    BY <1>3, <1>4, <2>1, <2>2 DEF CreateMigs
<1>7. /\ mig'.pc = "publish" /\ mig'.live = live /\ mig'.groups = groups
  BY <1>3
<1>8. CreateInv'
  BY <1>1, <1>4, <1>5, <1>6, <1>7 DEF CreateInv
<1>9. QED
  BY <1>0, <1>1, <1>8, FilesStay DEF JInv

(* No two segments have the same name.                                      *)
LEMMA NamesDiffer ==
  ASSUME NEW s, Ordered(s), NEW groups, Tiles(groups, s),
         NEW g \in DOMAIN groups, NEW h \in DOMAIN groups, g < h
  PROVE  NameOf(groups[g].events) # NameOf(groups[h].events)
<1>0. s \in Seq(Events) /\ Len(s) \in Nat /\ DOMAIN s = 1 .. Len(s)
  BY DEF Ordered
<1>1. ASSUME NEW i \in DOMAIN groups
      PROVE  /\ groups[i].offset \in Nat /\ groups[i].offset + 1 \in 1 .. Len(s)
             /\ groups[i].offset < EndOf(groups[i]) /\ EndOf(groups[i]) \in Nat
             /\ groups[i].events[1] = s[groups[i].offset + 1]
  <2>1. groups \in Seq(Groups)
    BY DEF Tiles
  <2>2. groups[i] \in Groups
    BY <2>1, <1>1, LenProperties, ElementOfSeq
  <2>3. /\ groups[i].events # <<>> /\ EndOf(groups[i]) <= Len(s)
        /\ groups[i].events = SubSeq(s, groups[i].offset + 1, EndOf(groups[i]))
    BY <1>1 DEF Tiles
  <2>4. groups[i].offset \in Nat /\ groups[i].events \in Seq(Events)
    BY <2>2 DEF Groups
  <2>5. Len(groups[i].events) \in Nat /\ Len(groups[i].events) >= 1
    BY <2>3, <2>4, EmptySeq
  <2>6. groups[i].offset < EndOf(groups[i]) /\ EndOf(groups[i]) \in Nat
    BY <2>4, <2>5 DEF EndOf
  <2> DEFINE a == groups[i].offset
             b == EndOf(groups[i])
  <2>7. a \in Nat /\ b \in Nat /\ a <= b /\ b <= Len(s) /\ 1 \in 1 .. b - a
    BY <2>3, <2>4, <2>6
  <2> HIDE DEF a, b
  <2>8. SubSeq(s, a + 1, b)[1] = s[a + 1]
    BY <1>0, <2>7, Piece
  <2>9. groups[i].events[1] = s[groups[i].offset + 1]
    BY <2>3, <2>8 DEF a, b
  <2>10. QED
    BY <1>0, <2>3, <2>4, <2>6, <2>9
<1>2. EndOf(groups[g]) <= groups[h].offset
  BY DEF Tiles
<1>3. groups[g].offset + 1 < groups[h].offset + 1
  BY <1>1, <1>2
<1>4. Precedes(groups[g].events[1], groups[h].events[1])
  <2>1. Precedes(s[groups[g].offset + 1], s[groups[h].offset + 1])
    BY <1>0, <1>1, <1>3 DEF Ordered, Sorted
  <2>2. QED
    BY <1>1, <2>1
<1>5. groups[g].events[1] \in Events /\ groups[h].events[1] \in Events
  BY <1>0, <1>1, ElementOfSeq
<1>6. QED
  BY <1>4, <1>5 DEF Precedes, NameOf, Events

LEMMA PublishArchiveKeeps == ASSUME JInv, PublishArchive PROVE JInv'
<1>0. SharedJInv /\ HistoryInv /\ FilesInv /\ CreateInv
  BY KindOf DEF PublishArchive
<1> DEFINE s == mig.live.events
           groups == mig.groups
           R == RecordsOf(groups, 0)
           records == <<PrologueRecord>> \o R
<1>1. /\ segments' = [n \in PathsOf(records) |-> (CHOOSE r \in Range(records) : r.path = n).digest]
      /\ manifest' = ManifestOf(records, s)
      /\ mig' = [mig EXCEPT !.pc = "recheck"]
      /\ UNCHANGED <<published, raced, live>> /\ mig.pc = "publish"
  BY DEF PublishArchive
<1>2. /\ Ordered(s) /\ s # <<>> /\ Tiles(groups, s) /\ s \in Seq(Events)
      /\ Range(s) \subseteq Range(published)
      /\ live.events # <<>> /\ live.events[1] = s[1]
      /\ manifest = NoManifest
  BY <1>0, <1>1 DEF CreateInv, Ordered
<1> HIDE DEF s, groups
<1>3. Archive(ManifestOf(records, s))
  BY <1>2, FirstArchive
<1>4. /\ R \in Seq(Records) /\ Len(R) = Len(groups) /\ Len(groups) \in Nat
      /\ DOMAIN groups = 1 .. Len(groups)
      /\ \A g \in 1 .. Len(groups) :
           /\ R[g] \in Records /\ R[g].path = NameOf(groups[g].events)
           /\ R[g].path # Prologue
  <2>1. /\ R \in Seq(Records) /\ Len(R) = Len(groups) /\ Len(groups) \in Nat
        /\ DOMAIN groups = 1 .. Len(groups)
        /\ \A g \in 1 .. Len(groups) :
             /\ R[g] \in Records /\ R[g].path = NameOf(groups[g].events)
             /\ groups[g].events \in Seq(Events)
    <3>1. 0 \in Nat
      OBVIOUS
    <3>2. QED
      BY <1>2, <3>1, RecordsAre
  <2>2. \A g \in 1 .. Len(groups) : groups[g].events # <<>>
    BY <1>2, <2>1 DEF Tiles
  <2>3. \A g \in 1 .. Len(groups) : NameOf(groups[g].events) # Prologue
    <3> SUFFICES ASSUME NEW g \in 1 .. Len(groups) PROVE NameOf(groups[g].events) # Prologue
      OBVIOUS
    <3>1. NameOf(groups[g].events) \in (1 .. MaxDays) \X Nat \X Nat
      BY <2>1, <2>2, NameIs
    <3>2. QED
      BY <3>1 DEF Prologue
  <2>4. QED
    BY <2>1, <2>3
<1> HIDE DEF R
<1>5. /\ records \in Seq(Records) /\ Len(records) = Len(groups) + 1
      /\ DOMAIN records = 1 .. Len(groups) + 1
      /\ records[1] = PrologueRecord
      /\ \A i \in 2 .. Len(groups) + 1 : i - 1 \in 1 .. Len(groups) /\ records[i] = R[i - 1]
  <2>1. PrologueRecord \in Records
    BY EmptySeq DEF PrologueRecord, Records, SegmentNames
  <2>2. <<PrologueRecord>> \in Seq(Records) /\ Len(<<PrologueRecord>>) = 1
    BY <2>1
  <2>3. /\ records \in Seq(Records) /\ Len(records) = 1 + Len(R)
        /\ \A i \in 1 .. 1 + Len(R) :
             records[i] = IF i <= 1 THEN <<PrologueRecord>>[i] ELSE R[i - 1]
    BY <1>4, <2>2, ConcatProperties
  <2> HIDE DEF records
  <2>4. records[1] = PrologueRecord
    <3>1. 1 \in 1 .. 1 + Len(R)
      BY <1>4
    <3>2. QED
      BY <2>3, <3>1
  <2>5. \A i \in 2 .. Len(groups) + 1 : i - 1 \in 1 .. Len(groups) /\ records[i] = R[i - 1]
    <3> SUFFICES ASSUME NEW i \in 2 .. Len(groups) + 1
                 PROVE  i - 1 \in 1 .. Len(groups) /\ records[i] = R[i - 1]
      OBVIOUS
    <3>1. i \in 1 .. 1 + Len(R) /\ ~ (i <= 1) /\ i - 1 \in 1 .. Len(groups)
      BY <1>4
    <3>2. QED
      BY <2>3, <3>1
  <2>6. DOMAIN records = 1 .. Len(groups) + 1 /\ Len(records) = Len(groups) + 1
    BY <1>4, <2>3, LenProperties
  <2>7. QED
    BY <2>3, <2>4, <2>5, <2>6
<1> HIDE DEF records
<1>6. ASSUME NEW i \in 1 .. Len(groups) + 1, NEW j \in 1 .. Len(groups) + 1, i < j
      PROVE  records[i].path # records[j].path
  <2>1. j \in 2 .. Len(groups) + 1 /\ j - 1 \in 1 .. Len(groups)
    BY <1>4, <1>6
  <2>2. records[j] = R[j - 1] /\ R[j - 1].path = NameOf(groups[j - 1].events) /\ R[j - 1].path # Prologue
    BY <1>4, <1>5, <2>1
  <2>3. CASE i = 1
    BY <1>5, <2>2, <2>3 DEF PrologueRecord
  <2>4. CASE i # 1
    <3>1. i \in 2 .. Len(groups) + 1 /\ i - 1 \in 1 .. Len(groups) /\ i - 1 < j - 1
      BY <1>4, <1>6, <2>4
    <3>2. records[i] = R[i - 1] /\ R[i - 1].path = NameOf(groups[i - 1].events)
      BY <1>4, <1>5, <3>1
    <3>3. NameOf(groups[i - 1].events) # NameOf(groups[j - 1].events)
      BY <1>2, <1>4, <2>1, <3>1, NamesDiffer
    <3>4. QED
      BY <2>2, <3>2, <3>3
  <2>5. QED
    BY <2>3, <2>4
<1>7. ASSUME NEW i \in DOMAIN records
      PROVE  records[i].path \in DOMAIN segments' /\ segments'[records[i].path] = records[i].digest
  <2>1. records[i].path \in PathsOf(records)
    BY DEF PathsOf
  <2>2. records[i] \in Range(records)
    BY DEF Range
  <2> DEFINE c == CHOOSE r \in Range(records) : r.path = records[i].path
  <2>3. c \in Range(records) /\ c.path = records[i].path
    BY <2>2
  <2> HIDE DEF c
  <2>4. PICK j \in DOMAIN records : c = records[j]
    BY <2>3 DEF Range
  <2>5. i = j
    <3>1. i \in 1 .. Len(groups) + 1 /\ j \in 1 .. Len(groups) + 1
      BY <1>5
    <3>2. ~ (i < j) /\ ~ (j < i)
      BY <1>6, <2>3, <2>4, <3>1
    <3>3. QED
      BY <1>4, <3>1, <3>2
  <2>6. segments'[records[i].path] = c.digest
    BY <1>1, <2>1 DEF c
  <2>7. QED
    BY <1>1, <2>1, <2>4, <2>5, <2>6
<1>8. SegmentsIntact(manifest', segments')
  BY <1>1, <1>7 DEF SegmentsIntact, ManifestOf
<1>9. segments' \in [DOMAIN segments' -> Seq(Events)]
  <2>1. DOMAIN segments' = PathsOf(records) /\ segments' = [n \in DOMAIN segments' |-> segments'[n]]
    BY <1>1
  <2>2. \A n \in PathsOf(records) : segments'[n] \in Seq(Events)
    <3> SUFFICES ASSUME NEW n \in PathsOf(records) PROVE segments'[n] \in Seq(Events)
      OBVIOUS
    <3>1. PICK i \in DOMAIN records : n = records[i].path
      BY DEF PathsOf
    <3>2. records[i] \in Records
      BY <1>5, ElementOfSeq
    <3>3. QED
      BY <1>7, <3>1, <3>2 DEF Records
  <2>3. QED
    BY <2>1, <2>2
<1>10. manifest'.whole = s
  BY <1>1 DEF ManifestOf
<1>11. Overlapped(manifest', live)
  <2>1. s[1] \in Range(s)
    <3>1. 1 \in 1 .. Len(s)
      BY <1>2, EmptySeq
    <3>2. QED
      BY <1>2, <3>1, RangeIs
  <2>2. QED
    BY <1>2, <1>10, <2>1 DEF Overlapped
<1>12. FilesInv'
  <2>1. Range(published) \ raced \subseteq Range(live.events) \cup Range(manifest.whole)
    BY <1>0 DEF FilesInv
  <2>2. Range(manifest.whole) = {}
    BY <1>2 DEF NoManifest, Range
  <2>3. Range(published') \ raced' \subseteq Range(live'.events) \cup Range(manifest'.whole)
    BY <1>1, <2>1, <2>2
  <2>4. /\ Archive(manifest') /\ Range(manifest'.whole) \subseteq Range(published')
        /\ Overlapped(manifest', live')
    BY <1>1, <1>2, <1>3, <1>10, <1>11
  <2>5. live' \in Volumes /\ Ordered(live'.events) /\ Range(live'.events) \subseteq Range(published')
    BY <1>0, <1>1 DEF FilesInv
  <2>6. QED
    BY <1>8, <1>9, <2>3, <2>4, <2>5 DEF FilesInv
<1>13. HistoryInv'
  BY <1>0, <1>1 DEF HistoryInv
<1>14. CreateInv'
  <2>1. mig' \in CreateMigs /\ mig'.pc = "recheck" /\ mig'.live = mig.live /\ mig'.groups = mig.groups
    BY <1>0, <1>1 DEF CreateInv, CreateMigs
  <2>2. manifest' # NoManifest
    BY <1>2, <1>10 DEF NoManifest
  <2>3. manifest'.whole = mig'.live.events
    BY <1>10, <2>1 DEF s
  <2>4. QED
    BY <1>0, <1>1, <2>1, <2>2, <2>3 DEF CreateInv
<1>15. QED
  BY <1>12, <1>13, <1>14 DEF JInv, SharedJInv

LEMMA RecheckKeeps == ASSUME JInv, Recheck PROVE JInv'
<1>0. SharedJInv /\ CreateInv /\ mig \in CreateMigs
  BY KindOf DEF Recheck, CreateInv
<1>1. /\ mig' = IF live = mig.live THEN [mig EXCEPT !.pc = "swap"] ELSE Ended
      /\ UNCHANGED <<published, raced, live, manifest, segments>> /\ mig.pc = "recheck"
  BY DEF Recheck
<1>2. SharedJInv'
  BY <1>0, <1>1, FilesStay
<1>3. CASE live = mig.live
  <2>1. mig' \in CreateMigs /\ mig'.pc = "swap" /\ mig'.live = mig.live /\ mig'.groups = mig.groups
    BY <1>0, <1>1, <1>3 DEF CreateMigs
  <2>2. CreateInv'
    BY <1>0, <1>1, <1>3, <2>1 DEF CreateInv
  <2>3. QED
    BY <1>2, <2>2 DEF JInv
<1>4. CASE live # mig.live
  BY <1>0, <1>1, <1>2, <1>4, EndedIs DEF JInv
<1>5. QED
  BY <1>3, <1>4

LEMMA SwapCreatedKeeps == ASSUME JInv, SwapCreated PROVE JInv'
<1>0. SharedJInv /\ HistoryInv /\ FilesInv /\ CreateInv /\ mig \in CreateMigs
  BY KindOf DEF SwapCreated, CreateInv
<1>1. /\ live' = LiveOf(manifest, <<>>) /\ mig' = Ended
      /\ UNCHANGED <<published, raced, manifest, segments>> /\ mig.pc = "swap"
  BY DEF SwapCreated
<1>2. /\ manifest # NoManifest /\ manifest.whole = mig.live.events
      /\ Range(live.events) \ raced \subseteq Range(mig.live.events)
  BY <1>0, <1>1 DEF CreateInv
<1>3. /\ Archive(manifest) /\ SegmentsIntact(manifest, segments)
      /\ Range(manifest.whole) \subseteq Range(published)
  BY <1>0, <1>2 DEF FilesInv
<1>4. /\ manifest.whole \in Seq(Events) /\ Ordered(manifest.whole) /\ manifest.count \in Nat
  BY <1>3 DEF Archive, Manifests
<1>5. live'.events = <<>> /\ live'.index = manifest.count /\ live' \in Volumes
  BY <1>1, <1>4, EmptySeq DEF LiveOf, Volumes
<1>6. Ordered(live'.events) /\ Range(live'.events) = {}
  <2>1. <<>> \in Seq(Events) /\ Len(<<>>) = 0 /\ DOMAIN <<>> = {}
    BY EmptySeq
  <2>2. QED
    BY <1>5, <2>1 DEF Ordered, Sorted, Chained, Range
<1>7. Joined(manifest, live')
  BY <1>4, <1>5, ConcatEmptySeq DEF Joined
<1>8. Range(published) \ raced \subseteq Range(manifest.whole)
  BY <1>0, <1>2 DEF FilesInv
<1>9. FilesInv'
  <2>1. segments' \in [DOMAIN segments' -> Seq(Events)]
    BY <1>0, <1>1 DEF FilesInv
  <2>2. /\ Archive(manifest') /\ SegmentsIntact(manifest', segments')
        /\ Range(manifest'.whole) \subseteq Range(published') /\ Joined(manifest', live')
    BY <1>1, <1>3, <1>7
  <2>3. QED
    BY <1>1, <1>5, <1>6, <1>8, <2>1, <2>2 DEF FilesInv
<1>10. HistoryInv'
  BY <1>0, <1>1 DEF HistoryInv
<1>11. QED
  BY <1>0, <1>1, <1>9, <1>10, EndedIs DEF JInv, SharedJInv

----------------------------------------------------------------------------
(* Later migrations.                                                        *)
SamePlan(k, m) ==
  /\ k.live = m.live /\ k.old = m.old /\ k.new = m.new /\ k.tail = m.tail /\ k.groups = m.groups

LEMMA PlanStays ==
  ASSUME NEW k, NEW m, SamePlan(k, m), Planned(m)
  PROVE  Planned(k)
  BY DEF SamePlan, Planned

(* A step of the command that moves on and leaves the files alone.          *)
LEMMA MovesOn ==
  ASSUME SharedJInv, AppendInv, mig' \in AppendMigs, SamePlan(mig', mig),
         mig'.installed = mig.installed,
         UNCHANGED <<published, raced, live, manifest, segments>>,
         mig'.pc \in {"manifest", "journal", "verify"} => mig.installed = Len(mig.groups),
         mig'.pc \in {"install", "manifest", "restoreJournal", "unlink"} => manifest = mig.old,
         mig'.pc \in {"journal", "verify"} => manifest = mig.new,
         mig'.pc = "restoreManifest" => manifest \in {mig.old, mig.new},
         mig'.pc \in AppendLabels \ {"verify", "unlink"} => CopyIsCurrent,
         mig'.pc # "verify"
  PROVE  JInv'
<1>1. Planned(mig')
  BY PlanStays DEF AppendInv
<1>2. SegmentsIntact(mig'.old, segments') /\ Installed(mig', segments')
  BY DEF AppendInv, Installed, SamePlan
<1>3. mig'.pc \in AppendLabels \ {"verify", "unlink"} => CopyIsCurrent'
  BY DEF CopyIsCurrent, SamePlan, Joined
<1>4. AppendInv'
  BY <1>1, <1>2, <1>3 DEF AppendInv, SamePlan
<1>5. SharedJInv'
  BY FilesStay
<1>6. QED
  BY <1>4, <1>5 DEF JInv

LEMMA ConcatThree ==
  ASSUME NEW a \in Seq(Events), NEW b \in Seq(Events), NEW c \in Seq(Events)
  PROVE  (a \o b) \o c = a \o (b \o c) /\ a \o b \in Seq(Events)
  BY ConcatAssociative, ConcatProperties

LEMMA ConcatRecords ==
  ASSUME NEW a \in Seq(Records), NEW b \in Seq(Records)
  PROVE  /\ a \o b \in Seq(Records) /\ Len(a) \in Nat /\ Len(a \o b) = Len(a) + Len(b)
         /\ \A i \in 1 .. Len(a) + Len(b) : (a \o b)[i] = IF i <= Len(a) THEN a[i] ELSE b[i - Len(a)]
  BY ConcatProperties

LEMMA StartAppendKeeps == ASSUME JInv, StartAppend PROVE JInv'
<1>0. SharedJInv /\ HistoryInv /\ FilesInv /\ mig \in IdleMigs
  BY KindOf DEF StartAppend
<1>1. PICK size \in ShardSizes, cut \in 1 .. Len(live.events) :
        \E groups \in Grouped(SubSeq(live.events, 1, cut), size) :
          LET additions == RecordsOf(groups, manifest.count)
          IN /\ Follows(manifest.last, IdOf(live.events[1]))
             /\ PathsOf(additions) \cap PathsOf(manifest.segments) = {}
             /\ mig' = [pc |-> "install", runs |-> mig.runs, faults |-> mig.faults,
                        live |-> live, old |-> manifest, groups |-> groups, installed |-> 0,
                        new |-> ManifestOf(manifest.segments \o additions,
                                           manifest.whole \o SubSeq(live.events, 1, cut)),
                        tail |-> SubSeq(live.events, cut + 1, Len(live.events)), temps |-> {}]
  BY DEF StartAppend
<1> DEFINE s == SubSeq(live.events, 1, cut)
           tail == SubSeq(live.events, cut + 1, Len(live.events))
<1>2. PICK groups \in Grouped(s, size) :
        /\ PathsOf(RecordsOf(groups, manifest.count)) \cap PathsOf(manifest.segments) = {}
        /\ mig' = [pc |-> "install", runs |-> mig.runs, faults |-> mig.faults,
                   live |-> live, old |-> manifest, groups |-> groups, installed |-> 0,
                   new |-> ManifestOf(manifest.segments \o RecordsOf(groups, manifest.count),
                                      manifest.whole \o s),
                   tail |-> tail, temps |-> {}]
  BY <1>1
<1> DEFINE R == RecordsOf(groups, manifest.count)
           new == ManifestOf(manifest.segments \o R, manifest.whole \o s)
<1>3. /\ live \in Volumes /\ live.events \in Seq(Events) /\ Ordered(live.events)
      /\ Range(live.events) \subseteq Range(published) /\ Len(live.events) \in Nat
  BY <1>0 DEF FilesInv, Volumes
<1>4. /\ Archive(manifest) /\ SegmentsIntact(manifest, segments)
      /\ Range(manifest.whole) \subseteq Range(published) /\ Joined(manifest, live)
  <2>1. Verified(live, manifest, segments)
    BY DEF StartAppend
  <2>2. manifest # NoManifest
    BY <2>1 DEF Verified
  <2>3. ~ (Archive(manifest) /\ Overlapped(manifest, live))
    BY <1>3, <2>1, OverlapFails
  <2>4. QED
    BY <1>0, <2>2, <2>3 DEF FilesInv
<1>5. /\ manifest \in Manifests /\ manifest.segments \in Seq(Records) /\ manifest.segments # <<>>
      /\ manifest.whole \in Seq(Events) /\ manifest.count \in Nat /\ manifest.count = Len(manifest.whole)
  BY <1>4 DEF Archive, Manifests
<1>6. /\ s \in Seq(Events) /\ tail \in Seq(Events) /\ Len(s) = cut /\ s \o tail = live.events
      /\ cut \in Nat /\ cut >= 1
  <2>1. /\ 1 \in 1 .. Len(live.events) + 1 /\ cut \in 0 .. Len(live.events)
        /\ cut + 1 \in 1 .. Len(live.events) + 1 /\ Len(live.events) \in 0 .. Len(live.events)
        /\ cut \in 1 - 1 .. Len(live.events) /\ Len(live.events) \in cut .. Len(live.events)
        /\ cut >= 1 /\ cut \in Nat
    BY <1>3
  <2>2. Ordered(s) /\ Ordered(tail) /\ Len(s) = IF 1 <= cut THEN cut - 1 + 1 ELSE 0
    BY <1>3, <2>1, SubOrdered
  <2>3. s \o tail = SubSeq(live.events, 1, Len(live.events))
    BY <1>3, <2>1, ConcatAdjacentSubSeq
  <2>4. SubSeq(live.events, 1, Len(live.events)) = live.events
    BY <1>3, SubSeqFull
  <2>5. Len(s) = cut
    BY <2>1, <2>2
  <2>6. QED
    BY <2>1, <2>2, <2>3, <2>4, <2>5 DEF Ordered
<1> HIDE DEF s, tail
<1>7. s # <<>> /\ Tiles(groups, s)
  <2>1. s # <<>>
    BY <1>6, EmptySeq
  <2>2. size \in Nat \ {0}
    BY JournalBounds
  <2>3. QED
    BY <1>2, <1>6, <2>1, <2>2, GroupedTiles
<1>8. /\ (manifest.whole \o s) \o tail = manifest.whole \o live.events
      /\ manifest.whole \o s \in Seq(Events)
  <2> DEFINE w == manifest.whole
  <2>0. w \in Seq(Events)
    BY <1>5
  <2> HIDE DEF w
  <2>1. (w \o s) \o tail = w \o (s \o tail) /\ w \o s \in Seq(Events)
    BY <1>6, <2>0, ConcatThree
  <2>2. (manifest.whole \o s) \o tail = manifest.whole \o (s \o tail) /\ manifest.whole \o s \in Seq(Events)
    BY <2>1 DEF w
  <2>3. QED
    BY <1>6, <2>1, <2>2
<1>9. Ordered(manifest.whole \o s)
  <2>1. Ordered((manifest.whole \o s) \o tail)
    BY <1>4, <1>8 DEF Joined
  <2>2. QED
    BY <1>6, <1>8, <2>1, HalvesOrdered
<1>10. Archive(new)
  BY <1>4, <1>6, <1>7, <1>9, NextArchive
<1>11. /\ R \in Seq(Records) /\ Len(R) = Len(groups) /\ DOMAIN groups = 1 .. Len(groups)
       /\ Len(groups) \in Nat /\ DOMAIN R = 1 .. Len(groups)
       /\ \A g \in 1 .. Len(groups) :
            R[g].path = NameOf(groups[g].events) /\ R[g].digest = groups[g].events
  <2> DEFINE n == manifest.count
  <2>0. n \in Nat
    BY <1>5
  <2> HIDE DEF n, new
  <2>1. /\ RecordsOf(groups, n) \in Seq(Records) /\ Len(RecordsOf(groups, n)) = Len(groups)
        /\ DOMAIN groups = 1 .. Len(groups) /\ Len(groups) \in Nat
        /\ DOMAIN RecordsOf(groups, n) = 1 .. Len(groups)
        /\ \A g \in 1 .. Len(groups) : /\ RecordsOf(groups, n)[g].path = NameOf(groups[g].events)
                                       /\ RecordsOf(groups, n)[g].digest = groups[g].events
    BY <1>6, <1>7, <2>0, RecordsAre
  <2>2. QED
    BY <2>1 DEF n
<1> HIDE DEF R
<1>12. new.segments = manifest.segments \o R /\ new.whole = manifest.whole \o s /\ new \in Manifests
  BY <1>10 DEF ManifestOf, Archive
<1> HIDE DEF new
<1>13. \A i \in DOMAIN new.segments :
         \/ new.segments[i] \in Range(manifest.segments)
         \/ \E g \in DOMAIN groups : /\ new.segments[i].path = NameOf(groups[g].events)
                                     /\ new.segments[i].digest = groups[g].events
  <2> DEFINE all == manifest.segments \o R
             n == Len(manifest.segments)
  <2>1. /\ all \in Seq(Records) /\ Len(all) = n + Len(R) /\ n \in Nat
        /\ \A i \in 1 .. n + Len(R) : all[i] = IF i <= n THEN manifest.segments[i] ELSE R[i - n]
    <3> DEFINE a == manifest.segments
    <3>1. a \in Seq(Records)
      BY <1>5
    <3> HIDE DEF a
    <3>2. /\ a \o R \in Seq(Records) /\ Len(a) \in Nat /\ Len(a \o R) = Len(a) + Len(R)
          /\ \A i \in 1 .. Len(a) + Len(R) : (a \o R)[i] = IF i <= Len(a) THEN a[i] ELSE R[i - Len(a)]
      BY <1>11, <3>1, ConcatRecords
    <3>3. QED
      BY <3>2 DEF a
  <2>2. DOMAIN manifest.segments = 1 .. n
    BY <1>5, LenProperties
  <2> HIDE DEF all, n
  <2>3. SUFFICES ASSUME NEW i \in DOMAIN all
                 PROVE  \/ all[i] \in Range(manifest.segments)
                        \/ \E g \in DOMAIN groups : /\ all[i].path = NameOf(groups[g].events)
                                                    /\ all[i].digest = groups[g].events
    BY <1>12 DEF all
  <2>4. i \in 1 .. n + Len(R)
    BY <2>1, LenProperties
  <2>5. CASE i <= n
    <3>1. i \in 1 .. n /\ all[i] = manifest.segments[i]
      BY <2>1, <2>4, <2>5
    <3>2. QED
      BY <2>2, <3>1 DEF Range
  <2>6. CASE ~ (i <= n)
    <3>1. i - n \in 1 .. Len(groups) /\ all[i] = R[i - n]
      BY <1>11, <2>1, <2>4, <2>6
    <3>2. QED
      BY <1>11, <3>1
  <2>7. QED
    BY <2>5, <2>6
<1>14. \A g \in DOMAIN groups : NameOf(groups[g].events) \notin PathsOf(manifest.segments)
  <2> SUFFICES ASSUME NEW g \in DOMAIN groups
               PROVE  NameOf(groups[g].events) \notin PathsOf(manifest.segments)
    OBVIOUS
  <2>1. g \in DOMAIN R /\ R[g].path = NameOf(groups[g].events)
    BY <1>11
  <2>2. NameOf(groups[g].events) \in PathsOf(R)
    BY <2>1 DEF PathsOf
  <2>3. QED
    BY <1>2, <2>2 DEF R
<1>15. /\ live.events # <<>> /\ live.events[1] \in Range(new.whole)
  <2>1. 1 \in 1 .. Len(s) /\ Len(tail) \in Nat
    BY <1>6
  <2>2. live.events[1] = s[1] /\ Len(live.events) = Len(s) + Len(tail)
    <3>1. /\ Len(s \o tail) = Len(s) + Len(tail)
          /\ \A i \in 1 .. Len(s) + Len(tail) : (s \o tail)[i] = IF i <= Len(s) THEN s[i] ELSE tail[i - Len(s)]
      BY <1>6, ConcatProperties
    <3>2. 1 \in 1 .. Len(s) + Len(tail) /\ 1 <= Len(s)
      BY <1>6, <2>1
    <3>3. (s \o tail)[1] = s[1]
      BY <3>1, <3>2
    <3>4. QED
      BY <1>6, <3>1, <3>3
  <2>3. live.events[1] \in Range(s)
    BY <1>6, <2>1, <2>2, RangeIs
  <2>4. Range(new.whole) = Range(manifest.whole) \cup Range(s)
    BY <1>5, <1>6, <1>12, ConcatRange
  <2>5. live.events # <<>>
    BY <1>3, <1>6, <2>1, <2>2, EmptySeq
  <2>6. QED
    BY <2>3, <2>4, <2>5
<1>16. /\ Range(new.whole) = Range(manifest.whole) \cup Range(s)
       /\ Range(live.events) = Range(s) \cup Range(tail)
  BY <1>5, <1>6, <1>12, ConcatRange
<1>17. mig' = [pc |-> "install", runs |-> mig.runs, faults |-> mig.faults,
               live |-> live, old |-> manifest, groups |-> groups, installed |-> 0,
               new |-> new, tail |-> tail, temps |-> {}]
  BY <1>2 DEF new, R
<1>18. /\ mig'.pc = "install" /\ mig'.live = live /\ mig'.old = manifest /\ mig'.groups = groups
       /\ mig'.installed = 0 /\ mig'.new = new /\ mig'.tail = tail
  BY <1>17
<1>19. mig' \in AppendMigs
  <2>1. mig.runs \in 0 .. MaxMigrations - 1 /\ mig.faults \in 0 .. MaxFaults
    BY <1>0, JournalBounds DEF IdleMigs, StartAppend
  <2>2. groups \in Seq(Groups)
    BY <1>7 DEF Tiles
  <2>3. QED
    BY <1>3, <1>5, <1>6, <1>12, <1>17, <2>1, <2>2 DEF AppendMigs, AppendLabels
<1>20. Planned(mig')
  <2>1. new.whole \o tail = manifest.whole \o live.events
    BY <1>8, <1>12
  <2>2. QED
    BY <1>4, <1>10, <1>13, <1>14, <1>15, <1>16, <1>18, <2>1 DEF Planned
<1>21. UNCHANGED <<published, raced, live, manifest, segments>>
  BY DEF StartAppend
<1>22. CopyIsCurrent'
  BY <1>4, <1>15, <1>18, <1>21 DEF CopyIsCurrent, Joined
<1>23. Installed(mig', segments')
  BY <1>11, <1>18 DEF Installed
<1>24. AppendInv'
  <2>1. Range(mig'.old.whole) \cup Range(mig'.live.events) \subseteq Range(published')
    BY <1>3, <1>4, <1>18, <1>21
  <2>2. SegmentsIntact(mig'.old, segments')
    BY <1>4, <1>18, <1>21
  <2>3. QED
    BY <1>18, <1>19, <1>20, <1>21, <1>22, <1>23, <2>1, <2>2 DEF AppendInv
<1>25. QED
  BY <1>0, <1>21, <1>24, FilesStay DEF JInv

LEMMA InstallSegmentKeeps == ASSUME JInv, InstallSegment PROVE JInv'
<1>0. SharedJInv /\ HistoryInv /\ FilesInv /\ AppendInv /\ mig \in AppendMigs /\ mig.pc = "install"
  BY KindOf DEF InstallSegment, AppendInv, AppendLabels
<1>1. UNCHANGED <<published, raced, live, manifest>> /\ manifest = mig.old /\ CopyIsCurrent
  BY <1>0 DEF InstallSegment, AppendInv, AppendLabels
<1>2. CASE mig.installed = Len(mig.groups)
  <2>1. mig' = [mig EXCEPT !.pc = "manifest"] /\ UNCHANGED segments
    BY <1>2 DEF InstallSegment
  <2>2. /\ mig' \in AppendMigs /\ SamePlan(mig', mig) /\ mig'.installed = mig.installed
        /\ mig'.pc = "manifest"
    BY <1>0, <2>1 DEF AppendMigs, AppendLabels, SamePlan
  <2>3. QED
    BY <1>0, <1>1, <1>2, <2>1, <2>2, MovesOn
<1>3. CASE mig.installed # Len(mig.groups)
  <2> DEFINE group == mig.groups[mig.installed + 1].events
             name == NameOf(group)
  <2>1. CASE name \in DOMAIN segments
    <3>1. mig' = [mig EXCEPT !.pc = "restoreManifest"] /\ UNCHANGED segments
      BY <1>3, <2>1 DEF InstallSegment
    <3>2. /\ mig' \in AppendMigs /\ SamePlan(mig', mig) /\ mig'.installed = mig.installed
          /\ mig'.pc = "restoreManifest"
      BY <1>0, <3>1 DEF AppendMigs, AppendLabels, SamePlan
    <3>3. QED
      BY <1>0, <1>1, <3>1, <3>2, MovesOn
  <2>2. CASE name \notin DOMAIN segments
    <3>1. /\ segments' = [n \in DOMAIN segments \cup {name} |-> IF n = name THEN group ELSE segments[n]]
          /\ mig' = [mig EXCEPT !.installed = @ + 1]
      BY <1>3, <2>2 DEF InstallSegment
    <3>2. /\ mig.groups \in Seq(Groups) /\ Len(mig.groups) \in Nat /\ mig.installed \in Nat
          /\ mig.installed + 1 \in 1 .. Len(mig.groups)
          /\ DOMAIN mig.groups = 1 .. Len(mig.groups)
      <4>1. mig.groups \in Seq(Groups) /\ mig.installed \in Nat
        BY <1>0 DEF AppendMigs
      <4>2. Len(mig.groups) \in Nat /\ DOMAIN mig.groups = 1 .. Len(mig.groups)
        BY <4>1, LenProperties
      <4>3. mig.installed <= Len(mig.groups)
        BY <1>0 DEF AppendInv, Installed
      <4>4. QED
        BY <1>3, <4>1, <4>2, <4>3
    <3>3. group \in Seq(Events)
      <4>1. mig.groups[mig.installed + 1] \in Groups
        BY <3>2, ElementOfSeq
      <4>2. QED
        BY <4>1 DEF Groups
    <3>4. segments' \in [DOMAIN segments' -> Seq(Events)] /\ DOMAIN segments' = DOMAIN segments \cup {name}
      <4>1. \A n \in DOMAIN segments : segments[n] \in Seq(Events)
        BY <1>0 DEF FilesInv
      <4> HIDE DEF group, name
      <4>2. QED
        BY <3>1, <3>3, <4>1
    <3>5. segments'[name] = group /\ \A n \in DOMAIN segments : segments'[n] = segments[n]
      <4> HIDE DEF group, name
      <4>1. QED
        BY <2>2, <3>1
    <3>6. SegmentsIntact(mig.old, segments')
      <4>1. SegmentsIntact(mig.old, segments)
        BY <1>0 DEF AppendInv
      <4>2. \A i \in DOMAIN mig.old.segments :
              /\ mig.old.segments[i].path \in DOMAIN segments'
              /\ segments'[mig.old.segments[i].path] = segments[mig.old.segments[i].path]
        BY <3>4, <3>5, <4>1 DEF SegmentsIntact
      <4>3. QED
        BY <4>1, <4>2, IntactKept
    <3>7. SharedJInv'
      BY <1>0, <1>1, <3>4, <3>6, SegmentsStay
    <3>8. /\ mig' \in AppendMigs /\ SamePlan(mig', mig) /\ mig'.pc = "install"
          /\ mig'.installed = mig.installed + 1
      <4>1. mig' = [mig EXCEPT !.installed = mig.installed + 1] /\ mig.installed + 1 \in Nat
        BY <3>1, <3>2
      <4>2. mig' \in AppendMigs
        BY <1>0, <4>1 DEF AppendMigs
      <4>3. SamePlan(mig', mig) /\ mig'.pc = "install" /\ mig'.installed = mig.installed + 1
        BY <1>0, <4>1 DEF AppendMigs, SamePlan
      <4>4. QED
        BY <4>2, <4>3
    <3>9. Installed(mig', segments')
      <4>1. mig'.installed <= Len(mig'.groups)
        BY <3>2, <3>8 DEF SamePlan
      <4>2. ASSUME NEW g \in 1 .. mig.installed + 1
            PROVE  /\ NameOf(mig.groups[g].events) \in DOMAIN segments'
                   /\ segments'[NameOf(mig.groups[g].events)] = mig.groups[g].events
        <5>1. CASE g = mig.installed + 1
          BY <3>4, <3>5, <5>1
        <5>2. CASE g # mig.installed + 1
          <6>1. g \in 1 .. mig.installed
            BY <3>2, <5>2
          <6>2. /\ NameOf(mig.groups[g].events) \in DOMAIN segments
                /\ segments[NameOf(mig.groups[g].events)] = mig.groups[g].events
            BY <1>0, <6>1 DEF AppendInv, Installed
          <6>3. QED
            BY <3>4, <3>5, <6>2
        <5>3. QED
          BY <5>1, <5>2
      <4>3. QED
        BY <3>8, <4>1, <4>2 DEF Installed, SamePlan
    <3>10. Planned(mig')
      BY <1>0, <3>8, PlanStays DEF AppendInv
    <3>11. CopyIsCurrent'
      BY <1>1, <3>8 DEF CopyIsCurrent, SamePlan, Joined
    <3>12. AppendInv'
      <4>1. SegmentsIntact(mig'.old, segments')
        BY <3>6, <3>8 DEF SamePlan
      <4>2. Range(mig'.old.whole) \cup Range(mig'.live.events) \subseteq Range(published')
        BY <1>0, <1>1, <3>8 DEF SamePlan, AppendInv
      <4>3. manifest' = mig'.old
        BY <1>1, <3>8 DEF SamePlan
      <4>4. QED
        BY <3>8, <3>9, <3>10, <3>11, <4>1, <4>2, <4>3 DEF AppendInv
    <3>13. QED
      BY <3>7, <3>12 DEF JInv
  <2>3. QED
    BY <2>1, <2>2
<1>4. QED
  BY <1>2, <1>3

(* With every segment in place, the new manifest is borne out.               *)
LEMMA NewIntact ==
  ASSUME NEW m, NEW disk, Planned(m), SegmentsIntact(m.old, disk), Installed(m, disk),
         m.groups \in Seq(Groups), m.installed = Len(m.groups)
  PROVE  SegmentsIntact(m.new, disk)
<1> SUFFICES ASSUME NEW i \in DOMAIN m.new.segments
             PROVE  /\ m.new.segments[i].path \in DOMAIN disk
                    /\ disk[m.new.segments[i].path] = m.new.segments[i].digest
  BY DEF SegmentsIntact
<1>1. CASE m.new.segments[i] \in Range(m.old.segments)
  <2>1. PICK j \in DOMAIN m.old.segments : m.old.segments[j] = m.new.segments[i]
    BY <1>1 DEF Range
  <2>2. QED
    BY <2>1 DEF SegmentsIntact
<1>2. CASE \E g \in DOMAIN m.groups : /\ m.new.segments[i].path = NameOf(m.groups[g].events)
                                      /\ m.new.segments[i].digest = m.groups[g].events
  <2>1. PICK g \in DOMAIN m.groups : /\ m.new.segments[i].path = NameOf(m.groups[g].events)
                                     /\ m.new.segments[i].digest = m.groups[g].events
    BY <1>2
  <2>2. g \in 1 .. m.installed
    BY LenProperties
  <2>3. QED
    BY <2>1, <2>2 DEF Installed
<1>3. QED
  BY <1>1, <1>2 DEF Planned

LEMMA ReplaceManifestKeeps == ASSUME JInv, ReplaceManifest PROVE JInv'
<1>0. SharedJInv /\ HistoryInv /\ FilesInv /\ AppendInv /\ mig \in AppendMigs /\ mig.pc = "manifest"
  BY KindOf DEF ReplaceManifest, AppendInv, AppendLabels
<1>1. /\ UNCHANGED <<published, raced, live, segments>>
      /\ manifest' = mig.new /\ mig' = [mig EXCEPT !.pc = "journal"]
      /\ manifest = mig.old /\ CopyIsCurrent /\ Planned(mig)
      /\ mig.installed = Len(mig.groups)
  BY <1>0 DEF ReplaceManifest, AppendInv, AppendLabels
<1>2. /\ mig' \in AppendMigs /\ SamePlan(mig', mig) /\ mig'.installed = mig.installed
      /\ mig'.pc = "journal"
  BY <1>0, <1>1 DEF AppendMigs, AppendLabels, SamePlan
<1>3. SegmentsIntact(mig.new, segments)
  <2>1. mig.groups \in Seq(Groups)
    BY <1>0 DEF AppendMigs
  <2>2. QED
    BY <1>0, <1>1, <2>1, NewIntact DEF AppendInv
<1>4. Overlapped(mig.new, live)
  BY <1>1 DEF CopyIsCurrent, Planned, Overlapped
<1>5. Range(mig.new.whole) \subseteq Range(published) /\ Range(mig.old.whole) \subseteq Range(mig.new.whole)
  BY <1>0, <1>1 DEF AppendInv, Planned
<1>6. SharedJInv'
  <2>1. HistoryInv'
    BY <1>0, <1>1 DEF HistoryInv
  <2>2. segments' \in [DOMAIN segments' -> Seq(Events)]
    BY <1>0, <1>1 DEF FilesInv
  <2>3. /\ Archive(manifest') /\ SegmentsIntact(manifest', segments')
        /\ Range(manifest'.whole) \subseteq Range(published') /\ Overlapped(manifest', live')
    BY <1>1, <1>3, <1>4, <1>5 DEF Planned
  <2>4. Range(published') \ raced' \subseteq Range(live'.events) \cup Range(manifest'.whole)
    BY <1>0, <1>1, <1>5 DEF FilesInv
  <2>5. live' \in Volumes /\ Ordered(live'.events) /\ Range(live'.events) \subseteq Range(published')
    BY <1>0, <1>1 DEF FilesInv
  <2>6. FilesInv'
    BY <2>2, <2>3, <2>4, <2>5 DEF FilesInv
  <2>7. QED
    BY <2>1, <2>6 DEF SharedJInv
<1>7. AppendInv'
  <2>1. Planned(mig')
    BY <1>1, <1>2, PlanStays
  <2>2. SegmentsIntact(mig'.old, segments') /\ Installed(mig', segments')
    BY <1>0, <1>1, <1>2 DEF AppendInv, Installed, SamePlan
  <2>3. CopyIsCurrent'
    BY <1>1, <1>2 DEF CopyIsCurrent, SamePlan, Joined
  <2>4. QED
    BY <1>0, <1>1, <1>2, <2>1, <2>2, <2>3 DEF AppendInv, SamePlan
<1>8. QED
  BY <1>6, <1>7 DEF JInv

LEMMA ReplaceJournalKeeps == ASSUME JInv, ReplaceJournal PROVE JInv'
<1>0. SharedJInv /\ HistoryInv /\ FilesInv /\ AppendInv /\ mig \in AppendMigs /\ mig.pc = "journal"
  BY KindOf DEF ReplaceJournal, AppendInv, AppendLabels
<1>1. /\ UNCHANGED <<published, raced, manifest, segments>>
      /\ live' = LiveOf(mig.new, mig.tail) /\ mig' = [mig EXCEPT !.pc = "verify"]
      /\ manifest = mig.new /\ CopyIsCurrent /\ Planned(mig)
      /\ mig.installed = Len(mig.groups)
  BY <1>0 DEF ReplaceJournal, AppendInv, AppendLabels
<1>2. /\ mig' \in AppendMigs /\ SamePlan(mig', mig) /\ mig'.installed = mig.installed
      /\ mig'.pc = "verify"
  BY <1>0, <1>1 DEF AppendMigs, AppendLabels, SamePlan
<1>3. mig.tail \in Seq(Events) /\ mig.new \in Manifests
  BY <1>0 DEF AppendMigs
<1>4. live'.events = mig.tail /\ live'.index = mig.new.count /\ live' \in Volumes
  BY <1>1, <1>3 DEF LiveOf, Volumes, Manifests
<1>5. Joined(mig.new, live') /\ Ordered(live'.events)
  <2>1. Ordered(mig.new.whole \o mig.tail)
    BY <1>1 DEF Planned, Joined
  <2>2. mig.new.whole \in Seq(Events)
    BY <1>3 DEF Manifests
  <2>3. Ordered(mig.tail)
    BY <1>3, <2>1, <2>2, HalvesOrdered
  <2>4. QED
    BY <1>4, <2>1, <2>3 DEF Joined
<1>6. Range(live'.events) \subseteq Range(published')
  BY <1>0, <1>1, <1>4 DEF AppendInv, Planned
<1>7. SharedJInv'
  <2>1. HistoryInv'
    BY <1>0, <1>1 DEF HistoryInv
  <2>2. segments' \in [DOMAIN segments' -> Seq(Events)]
    BY <1>0, <1>1 DEF FilesInv
  <2>3. manifest # NoManifest
    BY <1>1 DEF NoManifest, Planned, Archive
  <2>4. /\ Archive(manifest') /\ SegmentsIntact(manifest', segments')
        /\ Range(manifest'.whole) \subseteq Range(published') /\ Joined(manifest', live')
    BY <1>0, <1>1, <1>5, <2>3 DEF FilesInv
  <2>5. Range(published') \ raced' \subseteq Range(live'.events) \cup Range(manifest'.whole)
    BY <1>0, <1>1, <1>4 DEF FilesInv, CopyIsCurrent, Planned
  <2>6. FilesInv'
    BY <1>4, <1>5, <1>6, <2>2, <2>4, <2>5 DEF FilesInv
  <2>7. QED
    BY <2>1, <2>6 DEF SharedJInv
<1>8. AppendInv'
  <2>1. Planned(mig')
    BY <1>1, <1>2, PlanStays
  <2>2. SegmentsIntact(mig'.old, segments') /\ Installed(mig', segments')
    BY <1>0, <1>1, <1>2 DEF AppendInv, Installed, SamePlan
  <2>3. Joined(mig'.new, live')
    BY <1>2, <1>5 DEF SamePlan
  <2>4. QED
    BY <1>0, <1>1, <1>2, <2>1, <2>2, <2>3 DEF AppendInv, SamePlan
<1>9. QED
  BY <1>7, <1>8 DEF JInv

LEMMA VerifyAppendedKeeps == ASSUME JInv, VerifyAppended PROVE JInv'
<1>0. SharedJInv /\ HistoryInv /\ FilesInv /\ AppendInv /\ mig \in AppendMigs /\ mig.pc = "verify"
  BY KindOf DEF VerifyAppended, AppendInv, AppendLabels
<1>1. /\ UNCHANGED <<published, raced, live, manifest, segments>>
      /\ manifest = mig.new /\ Joined(mig.new, live) /\ Planned(mig)
      /\ mig.installed = Len(mig.groups)
  BY <1>0 DEF VerifyAppended, AppendInv, AppendLabels
<1>2. Verified(live, manifest, segments)
  <2>1. Archive(manifest) /\ live \in Volumes
    BY <1>0, <1>1 DEF Planned, FilesInv
  <2>2. mig.groups \in Seq(Groups)
    BY <1>0 DEF AppendMigs
  <2>3. SegmentsIntact(manifest, segments)
    BY <1>0, <1>1, <2>2, NewIntact DEF AppendInv
  <2>4. QED
    BY <1>1, <2>1, <2>3, JoinedVerifies
<1>3. mig' = Ended
  BY <1>2 DEF VerifyAppended
<1>4. QED
  BY <1>0, <1>1, <1>3, EndedIs, FilesStay DEF JInv

(* A command that ends, with the files as they were or rightly changed.      *)
LEMMA RestoreManifestKeeps == ASSUME JInv, RestoreManifest PROVE JInv'
<1>0. /\ SharedJInv /\ HistoryInv /\ FilesInv /\ AppendInv /\ mig \in AppendMigs
      /\ mig.pc = "restoreManifest" /\ mig \in CreateMigs \cup AppendMigs
  BY KindOf DEF RestoreManifest, AppendInv, AppendLabels
<1>1. /\ UNCHANGED <<published, raced, live, segments>>
      /\ manifest \in {mig.old, mig.new} /\ CopyIsCurrent /\ Planned(mig)
      /\ SegmentsIntact(mig.old, segments)
      /\ Range(mig.old.whole) \cup Range(mig.live.events) \subseteq Range(published)
  BY <1>0 DEF RestoreManifest, AppendInv, AppendLabels
<1>2. CASE "manifest" \in mig.temps
  <2>1. mig' = Ended /\ UNCHANGED manifest
    BY <1>2 DEF RestoreManifest
  <2>2. QED
    BY <1>0, <1>1, <2>1, EndedIs, FilesStay DEF JInv
<1>3. CASE "manifest" \notin mig.temps
  <2>1. manifest' = mig.old /\ mig' = [mig EXCEPT !.pc = "restoreJournal"]
    BY <1>3 DEF RestoreManifest
  <2>2. /\ mig' \in AppendMigs /\ SamePlan(mig', mig) /\ mig'.installed = mig.installed
        /\ mig'.pc = "restoreJournal"
    BY <1>0, <2>1 DEF AppendMigs, AppendLabels, SamePlan
  <2>3. Range(manifest.whole) \subseteq Range(mig.old.whole) \cup Range(live.events)
    <3>1. Range(mig.new.whole) \subseteq Range(mig.old.whole) \cup Range(mig.live.events)
      BY <1>1 DEF Planned
    <3>2. Range(mig.live.events) \subseteq Range(live.events)
      BY <1>1 DEF CopyIsCurrent
    <3>3. QED
      BY <1>1, <3>1, <3>2
  <2>4. FilesInv'
    <3>1. segments' \in [DOMAIN segments' -> Seq(Events)]
      BY <1>0, <1>1 DEF FilesInv
    <3>2. /\ Archive(manifest') /\ SegmentsIntact(manifest', segments')
          /\ Range(manifest'.whole) \subseteq Range(published') /\ Joined(manifest', live')
      BY <1>1, <2>1 DEF Planned, CopyIsCurrent
    <3>3. Range(published') \ raced' \subseteq Range(live'.events) \cup Range(manifest'.whole)
      <4>1. Range(published) \ raced \subseteq Range(live.events) \cup Range(manifest.whole)
        BY <1>0 DEF FilesInv
      <4>2. QED
        BY <1>1, <2>1, <2>3, <4>1
    <3>4. live' \in Volumes /\ Ordered(live'.events) /\ Range(live'.events) \subseteq Range(published')
      BY <1>0, <1>1 DEF FilesInv
    <3>5. QED
      BY <3>1, <3>2, <3>3, <3>4 DEF FilesInv
  <2>5. HistoryInv'
    BY <1>0, <1>1 DEF HistoryInv
  <2>6. AppendInv'
    <3>1. Planned(mig')
      BY <1>1, <2>2, PlanStays
    <3>2. SegmentsIntact(mig'.old, segments') /\ Installed(mig', segments')
      BY <1>0, <1>1, <2>2 DEF AppendInv, Installed, SamePlan
    <3>3. CopyIsCurrent'
      BY <1>1, <2>2 DEF CopyIsCurrent, SamePlan, Joined
    <3>4. QED
      BY <1>0, <1>1, <2>1, <2>2, <3>1, <3>2, <3>3 DEF AppendInv, SamePlan
  <2>7. QED
    BY <2>4, <2>5, <2>6 DEF JInv, SharedJInv
<1>4. QED
  BY <1>2, <1>3

LEMMA RestoreJournalKeeps == ASSUME JInv, RestoreJournal PROVE JInv'
<1>0. /\ SharedJInv /\ HistoryInv /\ FilesInv /\ AppendInv /\ mig \in AppendMigs
      /\ mig.pc = "restoreJournal" /\ mig \in CreateMigs \cup AppendMigs
  BY KindOf DEF RestoreJournal, AppendInv, AppendLabels
<1>1. /\ UNCHANGED <<published, raced, manifest, segments>>
      /\ manifest = mig.old /\ CopyIsCurrent /\ Planned(mig)
      /\ SegmentsIntact(mig.old, segments)
      /\ Range(mig.old.whole) \cup Range(mig.live.events) \subseteq Range(published)
  BY <1>0 DEF RestoreJournal, AppendInv, AppendLabels
<1>2. CASE "journal" \in mig.temps
  <2>1. mig' = Ended /\ UNCHANGED live
    BY <1>2 DEF RestoreJournal
  <2>2. QED
    BY <1>0, <1>1, <2>1, EndedIs, FilesStay DEF JInv
<1>3. CASE "journal" \notin mig.temps
  <2>1. live' = mig.live /\ mig' = [mig EXCEPT !.pc = "unlink"]
    BY <1>3 DEF RestoreJournal
  <2>2. /\ mig' \in AppendMigs /\ SamePlan(mig', mig) /\ mig'.installed = mig.installed
        /\ mig'.pc = "unlink"
    BY <1>0, <2>1 DEF AppendMigs, AppendLabels, SamePlan
  <2>3. /\ Joined(mig.old, mig.live) /\ Archive(mig.old)
        /\ mig.live \in Volumes /\ mig.live.events \in Seq(Events) /\ mig.old.whole \in Seq(Events)
    BY <1>0, <1>1 DEF Planned, AppendMigs, Volumes, Manifests
  <2>4. Ordered(mig.live.events)
    BY <2>3, HalvesOrdered DEF Joined
  <2>5. FilesInv'
    <3>1. segments' \in [DOMAIN segments' -> Seq(Events)]
      BY <1>0, <1>1 DEF FilesInv
    <3>2. /\ Archive(manifest') /\ SegmentsIntact(manifest', segments')
          /\ Range(manifest'.whole) \subseteq Range(published') /\ Joined(manifest', live')
      BY <1>1, <2>1, <2>3
    <3>3. Range(published') \ raced' \subseteq Range(live'.events) \cup Range(manifest'.whole)
      <4>1. Range(published) \ raced \subseteq Range(live.events) \cup Range(manifest.whole)
        BY <1>0 DEF FilesInv
      <4>2. Range(live.events) \ raced \subseteq Range(mig.live.events)
        BY <1>1 DEF CopyIsCurrent
      <4>3. QED
        BY <1>1, <2>1, <4>1, <4>2
    <3>4. live' \in Volumes /\ Ordered(live'.events) /\ Range(live'.events) \subseteq Range(published')
      BY <1>1, <2>1, <2>3, <2>4
    <3>5. QED
      BY <3>1, <3>2, <3>3, <3>4 DEF FilesInv
  <2>6. HistoryInv'
    BY <1>0, <1>1 DEF HistoryInv
  <2>7. AppendInv'
    <3>1. Planned(mig')
      BY <1>1, <2>2, PlanStays
    <3>2. SegmentsIntact(mig'.old, segments') /\ Installed(mig', segments')
      BY <1>0, <1>1, <2>2 DEF AppendInv, Installed, SamePlan
    <3>3. QED
      BY <1>0, <1>1, <2>2, <3>1, <3>2 DEF AppendInv, SamePlan
  <2>8. QED
    BY <2>5, <2>6, <2>7 DEF JInv, SharedJInv
<1>4. QED
  BY <1>2, <1>3

(* The rollback unlinks only files that the old manifest does not list.      *)
LEMMA UnlinkInstalledKeeps == ASSUME JInv, UnlinkInstalled PROVE JInv'
<1>0. /\ SharedJInv /\ FilesInv /\ AppendInv /\ mig \in CreateMigs \cup AppendMigs
      /\ mig.pc = "unlink" /\ mig \in AppendMigs
  BY KindOf DEF UnlinkInstalled, AppendInv, AppendLabels
<1> DEFINE gone == {NameOf(mig.groups[i].events) : i \in 1 .. mig.installed}
<1>1. /\ UNCHANGED <<published, raced, live, manifest>> /\ mig' = Ended
      /\ segments' = [s \in DOMAIN segments \ gone |-> segments[s]]
      /\ manifest = mig.old /\ Planned(mig) /\ SegmentsIntact(mig.old, segments)
      /\ mig.installed <= Len(mig.groups) /\ mig.groups \in Seq(Groups) /\ mig.installed \in Nat
  BY <1>0 DEF UnlinkInstalled, AppendInv, AppendLabels, Installed, AppendMigs
<1>2. PathsOf(mig.old.segments) \cap gone = {}
  <2> SUFFICES ASSUME NEW i \in 1 .. mig.installed
               PROVE  NameOf(mig.groups[i].events) \notin PathsOf(mig.old.segments)
    OBVIOUS
  <2>1. DOMAIN mig.groups = 1 .. Len(mig.groups) /\ Len(mig.groups) \in Nat
    BY <1>1, LenProperties
  <2>2. i \in DOMAIN mig.groups
    BY <1>1, <2>1
  <2>3. QED
    BY <1>1, <2>2 DEF Planned
<1> HIDE DEF gone
<1>3. SegmentsIntact(manifest, segments')
  <2>1. \A i \in DOMAIN mig.old.segments :
          /\ mig.old.segments[i].path \in DOMAIN segments'
          /\ segments'[mig.old.segments[i].path] = segments[mig.old.segments[i].path]
    <3> SUFFICES ASSUME NEW i \in DOMAIN mig.old.segments
                 PROVE  mig.old.segments[i].path \in DOMAIN segments \ gone
      BY <1>1
    <3>1. mig.old.segments[i].path \in PathsOf(mig.old.segments)
      BY DEF PathsOf
    <3>2. mig.old.segments[i].path \in DOMAIN segments
      BY <1>1 DEF SegmentsIntact
    <3>3. QED
      BY <1>2, <3>1, <3>2
  <2>2. QED
    BY <1>1, <2>1, IntactKept
<1>4. segments' \in [DOMAIN segments' -> Seq(Events)]
  <2>1. \A s \in DOMAIN segments : segments[s] \in Seq(Events)
    BY <1>0 DEF FilesInv
  <2>2. QED
    BY <1>1, <2>1
<1>5. QED
  BY <1>0, <1>1, <1>3, <1>4, EndedIs, SegmentsStay DEF JInv

----------------------------------------------------------------------------
(* Faults.                                                                  *)

(* A segment torn by a fault has a name of its own.                          *)
LEMMA TornIs ==
  ASSUME SharedJInv, AppendInv, TornSegment
  PROVE  /\ segments' \in [DOMAIN segments' -> Seq(Events)]
         /\ \A m : SegmentsIntact(m, segments) => SegmentsIntact(m, segments')
         /\ Installed(mig, segments')
<1> DEFINE name == NameOf(mig.groups[mig.installed + 1].events)
<1>1. segments' = [s \in DOMAIN segments \cup {name} |-> IF s \in DOMAIN segments THEN segments[s] ELSE <<>>]
  BY DEF TornSegment
<1> HIDE DEF name
<1>2. \A s \in DOMAIN segments : segments[s] \in Seq(Events)
  BY DEF SharedJInv, FilesInv
<1>3. <<>> \in Seq(Events)
  BY EmptySeq
<1>4. segments' \in [DOMAIN segments' -> Seq(Events)]
  BY <1>1, <1>2, <1>3
<1>5. \A s \in DOMAIN segments : s \in DOMAIN segments' /\ segments'[s] = segments[s]
  BY <1>1
<1>6. ASSUME NEW m, SegmentsIntact(m, segments) PROVE SegmentsIntact(m, segments')
  BY <1>5, <1>6 DEF SegmentsIntact
<1>7. Installed(mig, segments')
  BY <1>5 DEF AppendInv, Installed
<1>8. QED
  BY <1>4, <1>6, <1>7

LEMMA FailCreateKeeps == ASSUME JInv, FailCreate PROVE JInv'
<1>1. PICK pc \in {"publish", "recheck", "swap"} : Fault(pc)
  BY DEF FailCreate
<1>2. mig.pc \in {"publish", "recheck", "swap"} /\ mig.faults < MaxFaults
      /\ UNCHANGED <<published, raced, live, manifest>>
  BY <1>1 DEF Fault
<1>3. UNCHANGED segments /\ mig' = [Ended EXCEPT !.faults = @ + 1]
  BY DEF FailCreate
<1>4. SharedJInv /\ mig \in CreateMigs \cup AppendMigs
  BY <1>2, KindOf
<1>5. QED
  BY <1>2, <1>3, <1>4, EndedIs, FilesStay DEF JInv

LEMMA FailInstallKeeps == ASSUME JInv, FailInstall PROVE JInv'
<1>1. /\ mig.pc = "install" /\ mig.faults < MaxFaults
      /\ UNCHANGED <<published, raced, live, manifest>>
      /\ TornSegment /\ mig' = [mig EXCEPT !.pc = "restoreManifest", !.faults = @ + 1]
  BY DEF FailInstall, Fault
<1>2. SharedJInv /\ AppendInv /\ mig \in AppendMigs
  BY <1>1, KindOf DEF AppendInv, AppendLabels
<1>3. manifest = mig.old /\ CopyIsCurrent /\ Planned(mig) /\ SegmentsIntact(mig.old, segments)
  BY <1>1, <1>2 DEF AppendInv, AppendLabels
<1>4. /\ mig' \in AppendMigs /\ SamePlan(mig', mig) /\ mig'.installed = mig.installed
      /\ mig'.pc = "restoreManifest"
  <2>1. mig.faults \in 0 .. MaxFaults /\ MaxFaults \in Nat
    BY <1>2, JournalBounds DEF AppendMigs
  <2>2. mig.faults + 1 \in 0 .. MaxFaults
    BY <1>1, <2>1
  <2>3. mig' = [mig EXCEPT !.pc = "restoreManifest", !.faults = mig.faults + 1]
    BY <1>1
  <2>4. mig' \in AppendMigs
    BY <1>2, <2>2, <2>3 DEF AppendMigs, AppendLabels
  <2>5. SamePlan(mig', mig) /\ mig'.installed = mig.installed /\ mig'.pc = "restoreManifest"
    BY <1>2, <2>3 DEF AppendMigs, SamePlan
  <2>6. QED
    BY <2>4, <2>5
<1>5. /\ segments' \in [DOMAIN segments' -> Seq(Events)]
      /\ SegmentsIntact(mig.old, segments') /\ Installed(mig, segments')
  BY <1>1, <1>2, <1>3, TornIs
<1>6. SharedJInv'
  BY <1>1, <1>2, <1>3, <1>5, SegmentsStay
<1>7. AppendInv'
  <2>1. Planned(mig')
    BY <1>3, <1>4, PlanStays
  <2>2. SegmentsIntact(mig'.old, segments') /\ Installed(mig', segments')
    BY <1>4, <1>5 DEF Installed, SamePlan
  <2>3. CopyIsCurrent'
    BY <1>1, <1>3, <1>4 DEF CopyIsCurrent, SamePlan, Joined
  <2>4. manifest' \in {mig'.old, mig'.new}
    BY <1>1, <1>3, <1>4 DEF SamePlan
  <2>5. Range(mig'.old.whole) \cup Range(mig'.live.events) \subseteq Range(published')
    BY <1>1, <1>2, <1>4 DEF AppendInv, SamePlan
  <2>6. QED
    BY <1>4, <2>1, <2>2, <2>3, <2>4, <2>5 DEF AppendInv
<1>8. QED
  BY <1>6, <1>7 DEF JInv

LEMMA FailReplaceKeeps == ASSUME JInv, FailReplace PROVE JInv'
<1>1. PICK pc \in {"manifest", "journal"} :
        /\ Fault(pc)
        /\ \E left \in {{}, {pc}} :
             mig' = [mig EXCEPT !.pc = "restoreManifest", !.temps = left, !.faults = @ + 1]
  BY DEF FailReplace
<1>2. PICK left \in {{}, {pc}} :
        mig' = [mig EXCEPT !.pc = "restoreManifest", !.temps = left, !.faults = @ + 1]
  BY <1>1
<1>3. /\ mig.pc \in {"manifest", "journal"} /\ mig.faults < MaxFaults
      /\ UNCHANGED <<published, raced, live, manifest, segments>>
  BY <1>1 DEF Fault, FailReplace
<1>4. SharedJInv /\ AppendInv /\ mig \in AppendMigs
  BY <1>3, KindOf DEF AppendInv, AppendLabels
<1>5. manifest \in {mig.old, mig.new} /\ CopyIsCurrent
  BY <1>3, <1>4 DEF AppendInv, AppendLabels
<1>6. /\ mig' \in AppendMigs /\ SamePlan(mig', mig) /\ mig'.installed = mig.installed
      /\ mig'.pc = "restoreManifest"
  <2>1. mig.faults \in 0 .. MaxFaults /\ MaxFaults \in Nat
    BY <1>4, JournalBounds DEF AppendMigs
  <2>2. mig.faults + 1 \in 0 .. MaxFaults /\ left \in SUBSET {"manifest", "journal"}
    BY <1>3, <2>1
  <2>3. mig' = [mig EXCEPT !.pc = "restoreManifest", !.temps = left, !.faults = mig.faults + 1]
    BY <1>2
  <2>4. mig' \in AppendMigs
    BY <1>4, <2>2, <2>3 DEF AppendMigs, AppendLabels
  <2>5. SamePlan(mig', mig) /\ mig'.installed = mig.installed /\ mig'.pc = "restoreManifest"
    BY <1>4, <2>3 DEF AppendMigs, SamePlan
  <2>6. QED
    BY <2>4, <2>5
<1>7. QED
  BY <1>3, <1>4, <1>5, <1>6, MovesOn

LEMMA KillKeeps == ASSUME JInv, Kill PROVE JInv'
<1>1. /\ mig.pc # "idle" /\ mig.faults < MaxFaults /\ mig' = [Ended EXCEPT !.faults = @ + 1]
      /\ UNCHANGED <<published, raced, live, manifest>>
      /\ (mig.pc = "install" /\ TornSegment) \/ UNCHANGED segments
  BY DEF Kill
<1>2. SharedJInv /\ FilesInv /\ mig \in CreateMigs \cup AppendMigs
  BY <1>1, KindOf
<1>3. CASE UNCHANGED segments
  BY <1>1, <1>2, <1>3, EndedIs, FilesStay DEF JInv
<1>4. CASE mig.pc = "install" /\ TornSegment
  <2>1. AppendInv /\ manifest = mig.old /\ SegmentsIntact(mig.old, segments)
    BY <1>4, KindOf DEF AppendInv, AppendLabels
  <2>2. segments' \in [DOMAIN segments' -> Seq(Events)] /\ SegmentsIntact(manifest, segments')
    BY <1>2, <1>4, <2>1, TornIs
  <2>3. SharedJInv'
    BY <1>1, <1>2, <2>2, SegmentsStay
  <2>4. QED
    BY <1>1, <1>2, <2>3, EndedIs DEF JInv
<1>5. QED
  BY <1>1, <1>3, <1>4

----------------------------------------------------------------------------
(***************************************************************************)
(* The theorems of the journal.                                            *)
(***************************************************************************)
LEMMA JournalStarts == ASSUME JInit PROVE JInv
<1> DEFINE e == [day |-> 1, seq |-> 1, n |-> 1]
<1>1. /\ published = <<e>> /\ raced = {} /\ live = [index |-> 0, events |-> <<e>>]
      /\ manifest = NoManifest /\ segments = <<>> /\ mig = Idle
  BY DEF JInit
<1>2. e \in Events /\ e.n = 1
  BY JournalBounds DEF Events
<1> HIDE DEF e
<1>3. <<e>> \in Seq(Events) /\ Len(<<e>>) = 1 /\ DOMAIN <<e>> = 1 .. 1 /\ <<e>>[1] = e /\ <<e>> # <<>>
  BY <1>2
<1>4. Ordered(<<e>>)
  <2>1. Sorted(<<e>>)
    BY <1>3 DEF Sorted
  <2>2. Chained(<<e>>)
    BY <1>3 DEF Chained
  <2>3. QED
    BY <1>3, <2>1, <2>2 DEF Ordered
<1>5. HistoryInv
  <2>1. 1 <= MaxEvents
    BY JournalBounds
  <2>2. \A i \in DOMAIN published : published[i].n = i
    BY <1>1, <1>2, <1>3
  <2>3. QED
    BY <1>1, <1>3, <2>1, <2>2 DEF HistoryInv
<1>6. FilesInv
  <2>1. live \in Volumes /\ live.events = published /\ live.index = 0
    BY <1>1, <1>3 DEF Volumes
  <2>2. segments \in [DOMAIN segments -> Seq(Events)]
    BY <1>1
  <2>3. QED
    BY <1>1, <1>3, <1>4, <2>1, <2>2 DEF FilesInv
<1>7. mig \in IdleMigs
  BY <1>1, JournalBounds DEF Idle, IdleMigs
<1>8. QED
  BY <1>5, <1>6, <1>7 DEF JInv, SharedJInv

LEMMA JournalSteps == ASSUME JInv, [JNext]_jvars PROVE JInv'
<1>1. CASE AppendEvent
  BY <1>1, AppendEventKeeps
<1>2. CASE StartCreate
  BY <1>2, StartCreateKeeps
<1>3. CASE PublishArchive
  BY <1>3, PublishArchiveKeeps
<1>4. CASE Recheck
  BY <1>4, RecheckKeeps
<1>5. CASE SwapCreated
  BY <1>5, SwapCreatedKeeps
<1>6. CASE StartAppend
  BY <1>6, StartAppendKeeps
<1>7. CASE InstallSegment
  BY <1>7, InstallSegmentKeeps
<1>8. CASE ReplaceManifest
  BY <1>8, ReplaceManifestKeeps
<1>9. CASE ReplaceJournal
  BY <1>9, ReplaceJournalKeeps
<1>10. CASE VerifyAppended
  BY <1>10, VerifyAppendedKeeps
<1>11. CASE RestoreManifest
  BY <1>11, RestoreManifestKeeps
<1>12. CASE RestoreJournal
  BY <1>12, RestoreJournalKeeps
<1>13. CASE UnlinkInstalled
  BY <1>13, UnlinkInstalledKeeps
<1>14. CASE FailCreate
  BY <1>14, FailCreateKeeps
<1>15. CASE FailInstall
  BY <1>15, FailInstallKeeps
<1>16. CASE FailReplace
  BY <1>16, FailReplaceKeeps
<1>17. CASE Kill
  BY <1>17, KillKeeps
<1>18. CASE UNCHANGED jvars
  <2>1. SharedJInv'
    BY <1>18, FilesStay DEF JInv, jvars
  <2>2. CASE mig \in IdleMigs
    BY <1>18, <2>1, <2>2 DEF JInv, jvars
  <2>3. CASE CreateInv
    <3>1. CreateInv'
      BY <1>18, <2>3 DEF CreateInv, jvars
    <3>2. QED
      BY <2>1, <3>1 DEF JInv
  <2>4. CASE AppendInv
    <3>1. CopyIsCurrent => CopyIsCurrent'
      BY <1>18 DEF CopyIsCurrent, Joined, jvars
    <3>2. AppendInv'
      BY <1>18, <2>4, <3>1 DEF AppendInv, jvars
    <3>3. QED
      BY <2>1, <3>2 DEF JInv
  <2>5. QED
    BY <2>2, <2>3, <2>4 DEF JInv
<1>19. QED
  BY <1>1, <1>2, <1>3, <1>4, <1>5, <1>6, <1>7, <1>8, <1>9, <1>10, <1>11, <1>12, <1>13, <1>14,
     <1>15, <1>16, <1>17, <1>18 DEF JNext

LEMMA JInvHolds == JSpec => []JInv
<1>1. JInit => JInv
  BY JournalStarts
<1>2. JInv /\ [JNext]_jvars => JInv'
  BY JournalSteps
<1>3. QED
  BY <1>1, <1>2, PTL DEF JSpec

LEMMA JInvTypes == ASSUME JInv PROVE JTypeOK
<1>1. SharedJInv /\ HistoryInv /\ FilesInv
  BY KindOf
<1>2. Len(published) <= MaxEvents /\ raced \subseteq Range(published)
  BY <1>1 DEF HistoryInv
<1>3. live.index \in Nat /\ Range(live.events) \subseteq Range(published)
  BY <1>1 DEF FilesInv, Volumes
<1>4. PathsOf(manifest.segments) \subseteq {Prologue} \cup (1 .. MaxDays) \X Nat \X Nat
  <2>1. CASE manifest = NoManifest
    BY <2>1 DEF NoManifest, PathsOf
  <2>2. CASE Archive(manifest)
    <3>1. manifest.segments \in Seq(Records)
      BY <2>2 DEF Archive, Manifests
    <3>2. \A i \in DOMAIN manifest.segments : manifest.segments[i] \in Records
      BY <3>1, ElementOfSeq, LenProperties
    <3>3. QED
      BY <3>2 DEF PathsOf, Records, SegmentNames
  <2>3. QED
    BY <1>1, <2>1, <2>2 DEF FilesInv
<1>5. mig.runs \in 0 .. MaxMigrations /\ mig.faults \in 0 .. MaxFaults
  <2>1. CASE mig \in IdleMigs
    BY <2>1 DEF IdleMigs
  <2>2. CASE mig \in CreateMigs \cup AppendMigs
    BY <2>2, JournalBounds DEF CreateMigs, AppendMigs
  <2>3. QED
    BY <2>1, <2>2 DEF JInv, CreateInv, AppendInv
<1>6. QED
  BY <1>2, <1>3, <1>4, <1>5 DEF JTypeOK

(* Every archived event lies in a segment that the manifest lists.            *)
LEMMA ArchivedIsFound ==
  ASSUME NEW m, Archive(m), SegmentsIntact(m, segments), NEW e \in Range(m.whole)
  PROVE  \E s \in PathsOf(m.segments) \cap DOMAIN segments : e \in Range(segments[s])
<1> DEFINE w == m.whole
<1>1. w \in Seq(Events) /\ Len(w) \in Nat /\ DOMAIN w = 1 .. Len(w) /\ Laid(m.segments, w)
      /\ m.segments \in Seq(Records)
  BY LenProperties DEF Archive, Manifests
<1>2. PICK k \in 1 .. Len(w) : w[k] = e
  BY <1>1, RangeIs
<1> HIDE DEF w
<1>3. PICK i \in DOMAIN m.segments : m.segments[i].at < k /\ k <= RecordEnd(m.segments[i])
  BY <1>1 DEF Laid
<1> DEFINE r == m.segments[i]
           a == r.at
           b == RecordEnd(r)
<1>4. r.digest = SubSeq(w, a + 1, b) /\ b <= Len(w)
  BY <1>1 DEF Laid
<1>5. a \in Nat /\ b \in Nat /\ r.digest \in Seq(Events)
  <2>1. r \in Records
    BY <1>1, ElementOfSeq, LenProperties
  <2> HIDE DEF r
  <2>2. r.at \in Nat /\ r.digest \in Seq(Events)
    BY <2>1 DEF Records
  <2>3. Len(r.digest) \in Nat
    BY <2>2, LenProperties
  <2>4. QED
    BY <2>2, <2>3 DEF RecordEnd
<1>6. segments[r.path] = r.digest /\ r.path \in PathsOf(m.segments) \cap DOMAIN segments
  BY DEF SegmentsIntact, PathsOf
<1>7. a < k /\ k <= b
  BY <1>3
<1> HIDE DEF r, a, b
<1>8. k - a \in 1 .. b - a /\ a <= b /\ a + (k - a) = k
  BY <1>5, <1>7
<1>9. /\ Len(SubSeq(w, a + 1, b)) = b - a
      /\ \A j \in 1 .. b - a : SubSeq(w, a + 1, b)[j] = w[a + j]
  BY <1>1, <1>4, <1>5, <1>8, Piece
<1>10. r.digest[k - a] = e /\ k - a \in 1 .. Len(r.digest)
  BY <1>2, <1>4, <1>8, <1>9
<1>11. e \in Range(r.digest)
  BY <1>5, <1>10, RangeIs
<1>12. QED
  BY <1>6, <1>11

LEMMA JInvKeepsEvents == ASSUME JInv PROVE EventsKept
<1>1. FilesInv
  BY KindOf
<1> SUFFICES ASSUME NEW e \in Range(published) \ raced PROVE e \in Found
  BY DEF EventsKept
<1>2. CASE e \in Range(live.events)
  BY <1>2 DEF Found
<1>3. CASE e \in Range(manifest.whole)
  <2>1. manifest # NoManifest
    <3>1. SUFFICES ASSUME manifest = NoManifest PROVE FALSE
      OBVIOUS
    <3>2. manifest.whole = <<>>
      BY <3>1 DEF NoManifest
    <3>3. QED
      BY <1>3, <3>2 DEF Range
  <2>2. Archive(manifest) /\ SegmentsIntact(manifest, segments)
    BY <1>1, <2>1 DEF FilesInv
  <2>3. PICK s \in PathsOf(manifest.segments) \cap DOMAIN segments : e \in Range(segments[s])
    BY <1>3, <2>2, ArchivedIsFound
  <2>4. QED
    BY <2>3 DEF Found
<1>4. QED
  BY <1>1, <1>2, <1>3 DEF FilesInv

LEMMA JInvChecksHistory == ASSUME JInv PROVE CheckedIsHistory
<1>1. FilesInv
  BY KindOf
<1> DEFINE history == manifest.whole \o live.events
<1> SUFFICES ASSUME Verified(live, manifest, segments)
             PROVE  /\ Range(published) \ raced \subseteq Range(history)
                    /\ Range(history) \subseteq Range(published)
                    /\ \A i, j \in DOMAIN history : i < j => history[i].n < history[j].n
                    /\ live.index = manifest.count
  BY DEF CheckedIsHistory
<1>2. /\ Archive(manifest) /\ Joined(manifest, live) /\ live \in Volumes
      /\ Range(manifest.whole) \subseteq Range(published)
      /\ Range(live.events) \subseteq Range(published)
  <2>1. manifest # NoManifest
    BY DEF Verified
  <2>2. ~ (Archive(manifest) /\ Overlapped(manifest, live))
    BY <1>1, OverlapFails DEF FilesInv
  <2>3. QED
    BY <1>1, <2>1, <2>2 DEF FilesInv
<1>3. manifest.whole \in Seq(Events) /\ live.events \in Seq(Events)
  BY <1>2 DEF Archive, Manifests, Volumes
<1>4. Range(history) = Range(manifest.whole) \cup Range(live.events)
  BY <1>3, ConcatRange
<1>5. Sorted(history) /\ live.index = manifest.count
  BY <1>2 DEF Joined, Ordered
<1> HIDE DEF history
<1>6. \A i, j \in DOMAIN history : i < j => history[i].n < history[j].n
  BY <1>5 DEF Sorted, Precedes
<1>7. Range(published) \ raced \subseteq Range(history)
  BY <1>1, <1>4 DEF FilesInv
<1>8. QED
  BY <1>2, <1>4, <1>5, <1>6, <1>7

(* The types of the journal, for every volume of events, shard size and number *)
(* of migrations and faults (execution_journal.py, ExecutionEvent).            *)
THEOREM JournalTypeCorrect == JSpec => []JTypeOK
<1>1. JInv => JTypeOK
  BY JInvTypes
<1>2. QED
  BY <1>1, JInvHolds, PTL

(* No migration, rollback, failure or kill loses an event that was not raced,   *)
(* and the check passes on nothing but the published history in order         *)
(* (execution_journal.py, migrate_journal, _append_journal_archive and        *)
(* verify_journal).                                                         *)
THEOREM JournalIsKept == JSpec => []JournalKept
<1>1. JInv => JournalKept
  BY JInvKeepsEvents, JInvChecksHistory DEF JournalKept
<1>2. QED
  BY <1>1, JInvHolds, PTL
=============================================================================
