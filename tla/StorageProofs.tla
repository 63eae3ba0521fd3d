--------------------------- MODULE StorageProofs ---------------------------
(***************************************************************************)
(* Proofs about StorageTransaction for any number of processes, paths,     *)
(* contents, manifests and intents.                                        *)
(*                                                                         *)
(* The inductive invariant rests on one idea: the flock makes the holder   *)
(* of a lease the only writer of its transaction's intent, and once an     *)
(* intent has a proof no holder may replace it, so a recovery that runs    *)
(* without the lock still finds the intent, the science and the proof it   *)
(* checked.                                                                *)
(***************************************************************************)
EXTENDS StorageTransaction, TLAPS

Whole(v) == v \notin {None, Torn}

\* Labels at which a call owns the lock of its transaction.
Holding == Uninstalled \cup Installed

\* Labels at which work[p] is this call's intent, not yet on disk.
Unwritten == {"end", "window", "replace", "abort_record", "unlink",
              "intent", "intent_record"}

\* Labels at which work[p] is the intent on disk.
Written == {"install"} \cup Installed \cup {"recover_record"}

\* Labels at which the science of work[p] is installed.
Placed == Installed \cup {"recover_record"}

\* Labels at which the proof of work[p] is stored.
Proved == {"receipt", "receipt_record", "recover_record"}

\* Labels at which p is writing the fixed receipt.
Finalizing == {"receipt_record", "recover_record"}

\* A call knows its lease and destination, and a lease that has not begun or
\* a call that is not recovering holds its transaction's lock.
LeaseInv ==
  \A p \in Procs :
    /\ pc[p] # "idle" => lease[p] \in Lease
    /\ pc[p] \in Running => out[p] \in Paths
    /\ pc[p] \in Holding => lock[lease[p].txn] = p /\ lstate[p] # "claimed"
    /\ pc[p] \in {"claimed", "over"} /\ lstate[p] = "claimed"
         => lock[lease[p].txn] = p

\* An intent on disk belongs to its transaction; ids name intents uniquely.
IdInv ==
  /\ \A t \in Txns : Whole(intent[t]) =>
       intent[t].lease.txn = t /\ intent[t].id < nextId
  /\ \A t, u \in Txns :
       Whole(intent[t]) /\ Whole(intent[u]) /\ intent[t].id = intent[u].id => t = u
  /\ \A i \in Ids : aborts[i] # None => i < nextId

\* What a running call carries.
WorkInv ==
  \A p \in Procs :
    pc[p] \in Unwritten \cup Written =>
      /\ work[p] \in Intent
      /\ work[p].lease = lease[p]
      /\ work[p].path = out[p]
      /\ work[p].id < nextId

\* The id of an intent that is not on disk yet is used nowhere else.
FreshInv ==
  /\ \A p \in Procs : pc[p] \in Unwritten =>
       /\ aborts[work[p].id] = None
       /\ \A t \in Txns : Whole(intent[t]) => intent[t].id # work[p].id
  /\ \A p, q \in Procs :
       pc[p] \in Unwritten /\ pc[q] \in Unwritten /\ work[p].id = work[q].id
         => p = q

\* What each label says of the files of the call's transaction.
StageInv ==
  \A p \in Procs :
    /\ pc[p] \in {"abort_record", "unlink"} =>
         /\ Whole(intent[lease[p].txn])
         /\ \A c \in commits : c.intent # intent[lease[p].txn].id
         /\ \A x \in Paths : science[x] # None => science[x].txn # lease[p].txn
    /\ pc[p] = "intent_record" => intent[lease[p].txn] = Torn
    /\ pc[p] \in Written => intent[lease[p].txn] = work[p]
    /\ pc[p] \in Written => aborts[work[p].id] = None
    /\ pc[p] \in Placed =>
         science[out[p]] = [txn |-> lease[p].txn, digest |-> work[p].digest]
    /\ pc[p] \in Proved => ProofOf(work[p]) \in commits

\* A stored proof is the proof of its transaction's present intent, whose
\* science is installed and which was never aborted.
CommitInv ==
  \A c \in commits :
    /\ Whole(intent[c.lease.txn])
    /\ c = ProofOf(intent[c.lease.txn])
    /\ science[c.path] = [txn |-> c.lease.txn, digest |-> c.digest]
    /\ aborts[c.intent] = None

\* A complete receipt embeds the present intent and its stored proof, and the
\* name of an incomplete one is in the hands of at most one call.
ReceiptInv ==
  /\ \A t \in Txns : Whole(receipt[t]) =>
       /\ receipt[t].intent = intent[t]
       /\ receipt[t].proof = ProofOf(intent[t])
       /\ receipt[t].proof \in commits
  /\ \A p \in Procs : pc[p] \in Finalizing => receipt[lease[p].txn] = Torn
  /\ \A p, q \in Procs :
       /\ pc[p] \in Finalizing
       /\ pc[q] \in Finalizing
       /\ lease[p].txn = lease[q].txn
       => p = q

\* A running assignment call has seen its schedule accepted.
SealInv ==
  \A p \in Procs :
    pc[p] \in Running /\ lease[p].txn = "assignment"
      => PrefixAccepted(lease[p].manifest, lease[p].schedule)

IInv ==
  /\ TypeOK
  /\ LeaseInv
  /\ IdInv
  /\ WorkInv
  /\ FreshInv
  /\ StageInv
  /\ CommitInv
  /\ ReceiptInv
  /\ SealInv
  /\ ScienceHasIntent
  /\ AssignmentFollowsSchedule

---------------------------------------------------------------------------
\* The initial state satisfies the invariant.
LEMMA InitInv == Init => IInv
  <1> USE ValuesAssumption
  <1> SUFFICES ASSUME Init PROVE IInv
    OBVIOUS
  <1>1. TypeOK
    BY DEF Init, TypeOK, Labels, LeaseStates, Phases, Ids, Txns
  <1>2. LeaseInv /\ WorkInv /\ FreshInv /\ StageInv /\ SealInv /\ ReceiptInv
    BY DEF Init, LeaseInv, WorkInv, FreshInv, StageInv, SealInv, ReceiptInv,
           Whole, Txns, Running, Holding, Unwritten, Written, Placed, Proved,
           Finalizing, Uninstalled, Installed, Recovering
  <1>3. IdInv /\ CommitInv /\ ScienceHasIntent /\ AssignmentFollowsSchedule
    BY DEF Init, IdInv, CommitInv, ScienceHasIntent, AssignmentFollowsSchedule,
           Whole, Txns
  <1> QED
    BY <1>1, <1>2, <1>3 DEF IInv

---------------------------------------------------------------------------
(* Consequences of the invariant that the steps use.                       *)

CallTyped ==
  \A p \in Procs :
    /\ pc[p] # "idle" => lease[p] \in Lease /\ lease[p].txn \in Txns
    /\ pc[p] \in Unwritten \cup Written =>
         /\ work[p] \in Intent
         /\ work[p].id \in Ids
         /\ work[p].digest \in Digests
         /\ out[p] \in Paths
         /\ [txn |-> lease[p].txn, digest |-> work[p].digest] \in Science
         /\ ProofOf(work[p]) \in Proof
         /\ [intent |-> work[p], proof |-> ProofOf(work[p])] \in Receipt

DiskTyped ==
  /\ \A t \in Txns : Whole(intent[t]) =>
       intent[t] \in Intent /\ intent[t].id \in Ids
  /\ \A c \in commits :
       c.lease.txn \in Txns /\ c.path \in Paths /\ c.intent \in Ids

Exclusive ==
  \A p, q \in Procs :
    pc[p] \in Holding /\ pc[q] \in Holding /\ lease[p].txn = lease[q].txn => p = q

Unproved ==
  \A p \in Procs :
    pc[p] \in {"abort_record", "unlink", "intent_record"} =>
      /\ \A c \in commits : c.lease.txn # lease[p].txn
      /\ \A c \in commits : Whole(intent[lease[p].txn]) => c.intent # intent[lease[p].txn].id
      /\ ~ Whole(receipt[lease[p].txn])

LEMMA CallFacts == ASSUME IInv PROVE CallTyped
  <1> USE ValuesAssumption DEF IInv, TypeOK
  <1> SUFFICES ASSUME NEW p \in Procs
               PROVE CallTyped!(p)
    BY DEF CallTyped
  <1>1. pc[p] # "idle" => lease[p] \in Lease /\ lease[p].txn \in Txns
    BY DEF LeaseInv, Lease
  <1>2. ASSUME pc[p] \in Unwritten \cup Written
        PROVE  /\ work[p] \in Intent
               /\ work[p].id \in Ids
               /\ work[p].digest \in Digests
               /\ out[p] \in Paths
    BY <1>2 DEF WorkInv, Intent, Ids
  <1>3. ASSUME pc[p] \in Unwritten \cup Written
        PROVE  lease[p] \in Lease /\ lease[p].txn \in Txns
    BY <1>1, <1>3 DEF Unwritten, Written, Installed
  <1>4. ASSUME pc[p] \in Unwritten \cup Written
        PROVE  /\ [txn |-> lease[p].txn, digest |-> work[p].digest] \in Science
               /\ ProofOf(work[p]) \in Proof
    BY <1>2, <1>3, <1>4 DEF Science, Proof, ProofOf, Intent
  <1> QED
    BY <1>1, <1>2, <1>3, <1>4 DEF Receipt

LEMMA DiskFacts == ASSUME IInv PROVE DiskTyped
  <1> USE ValuesAssumption DEF IInv, TypeOK
  <1>1. ASSUME NEW t \in Txns, Whole(intent[t])
        PROVE  intent[t] \in Intent /\ intent[t].id \in Ids
    <2>1. intent[t] \in Intent /\ intent[t].id < nextId
      BY <1>1 DEF Whole, IdInv
    <2> QED
      BY <2>1 DEF Ids, Intent
  <1>2. ASSUME NEW c \in commits
        PROVE  c.lease.txn \in Txns /\ c.path \in Paths /\ c.intent \in Ids
    <2>1. c.lease.txn \in Txns /\ c.path \in Paths
      BY DEF Proof, Lease
    <2>2. c = ProofOf(intent[c.lease.txn]) /\ Whole(intent[c.lease.txn])
      BY DEF CommitInv
    <2>3. c.intent = intent[c.lease.txn].id
      BY <2>2 DEF ProofOf
    <2> QED
      BY <1>1, <2>1, <2>2, <2>3
  <1> QED
    BY <1>1, <1>2 DEF DiskTyped

LEMMA HolderFacts == ASSUME IInv PROVE Exclusive /\ Unproved
  <1>1. Exclusive
    BY DEF IInv, LeaseInv, Exclusive
  <1>2. ASSUME NEW p \in Procs, pc[p] \in {"abort_record", "unlink", "intent_record"}
        PROVE  /\ \A c \in commits : c.lease.txn # lease[p].txn
               /\ \A c \in commits :
                    Whole(intent[lease[p].txn]) => c.intent # intent[lease[p].txn].id
               /\ ~ Whole(receipt[lease[p].txn])
    <2>1. lease[p].txn \in Txns
      BY <1>2, CallFacts DEF CallTyped
    <2>2. ASSUME NEW c \in commits PROVE c.lease.txn # lease[p].txn
      <3>1. Whole(intent[c.lease.txn]) /\ c.intent = intent[c.lease.txn].id
        <4>1. c = ProofOf(intent[c.lease.txn]) /\ Whole(intent[c.lease.txn])
          BY DEF IInv, CommitInv
        <4> QED
          BY <4>1 DEF ProofOf
      <3>2. CASE pc[p] = "intent_record"
        <4>1. intent[lease[p].txn] = Torn
          BY <3>2 DEF IInv, StageInv
        <4> QED
          BY <3>1, <4>1 DEF Whole
      <3>3. CASE pc[p] \in {"abort_record", "unlink"}
        <4>1. c.intent # intent[lease[p].txn].id
          BY <3>3 DEF IInv, StageInv
        <4> QED
          BY <3>1, <4>1
      <3> QED
        BY <1>2, <3>2, <3>3
    <2>3. ASSUME NEW c \in commits, Whole(intent[lease[p].txn])
          PROVE  c.intent # intent[lease[p].txn].id
      BY <1>2, <2>3 DEF IInv, StageInv, Whole
    <2>4. ASSUME Whole(receipt[lease[p].txn]) PROVE FALSE
      <3>1. ProofOf(intent[lease[p].txn]) \in commits
        BY <2>1, <2>4 DEF IInv, ReceiptInv
      <3>2. ProofOf(intent[lease[p].txn]).lease.txn # lease[p].txn
        BY <3>1, <2>2
      <3>3. ProofOf(intent[lease[p].txn]).intent = intent[lease[p].txn].id
        BY DEF ProofOf
      <3>4. Whole(intent[lease[p].txn])
        BY <2>1, <2>4, ValuesAssumption DEF IInv, TypeOK, ReceiptInv, Receipt, Whole
      <3> QED
        BY <3>1, <3>3, <3>4, <2>3
    <2> QED
      BY <2>2, <2>3, <2>4
  <1> QED
    BY <1>1, <1>2 DEF Unproved

LEMMA AcceptanceKept ==
  ASSUME IInv, RecordsKept, NEW m, NEW s, PrefixAccepted(m, s)
  PROVE  PrefixAccepted(m, s)'
  <1>1. PICK r \in {receipt["prefix"]} \ {None, Torn} :
          /\ r.intent.digest = s
          /\ r.intent.lease.manifest = m
          /\ r.proof.intent = r.intent.id
          /\ r.proof.digest = s
          /\ r.proof.path = r.intent.path
          /\ r.proof.lease = r.intent.lease
          /\ r.proof \in commits
          /\ science[r.intent.path] # None
          /\ science[r.intent.path].digest = s
    BY DEF PrefixAccepted
  <1>2. r = receipt'["prefix"] /\ r \in Receipt
    BY <1>1 DEF RecordsKept, IInv, TypeOK, Txns, Whole
  <1>3. r.intent.path \in Paths
    BY <1>2 DEF Receipt, Intent
  <1> QED
    BY <1>1, <1>2, <1>3 DEF RecordsKept, PrefixAccepted

\* What a step must leave alone for the stored proofs to stay valid.
ProofsKept ==
  /\ commits' = commits
  /\ \A c \in commits :
       /\ intent'[c.lease.txn] = intent[c.lease.txn]
       /\ science'[c.path] = science[c.path]
       /\ aborts'[c.intent] = aborts[c.intent]

LEMMA CommitKept == ASSUME CommitInv, ProofsKept PROVE CommitInv'
  <1> SUFFICES ASSUME NEW c \in commits
               PROVE  CommitInv!(c)'
    BY DEF CommitInv, ProofsKept
  <1> QED
    BY DEF CommitInv, ProofsKept, Whole, ProofOf

ScienceKept ==
  \A x \in Paths :
    /\ science'[x] = science[x]
    /\ science[x] # None => intent'[science[x].txn] = intent[science[x].txn]

LEMMA AttributionKept == ASSUME ScienceHasIntent, ScienceKept PROVE ScienceHasIntent'
  BY DEF ScienceHasIntent, ScienceKept

---------------------------------------------------------------------------
(* Every step preserves the invariant.                                     *)

\* Claim: a claim takes a free lock for an idle process.
LEMMA ClaimPreserves ==
  ASSUME IInv, NEW p \in Procs, NEW t \in Txns, NEW m \in Manifests,
         NEW s \in Digests \cup {None}, Claim(p, t, m, s)
  PROVE  IInv' /\ RecordsKept
  <1> USE ValuesAssumption
      DEF IInv, Claim, Goto, disk, local, Whole, TypeOK,
          CallTyped, DiskTyped, Exclusive, Unproved
  <1>a. CallTyped /\ DiskTyped
    BY CallFacts, DiskFacts
  <1>b. Exclusive
    BY HolderFacts
  <1>1. TypeOK'
    BY DEF Labels, LeaseStates, Lease
  <1>2. LeaseInv'
    BY DEF LeaseInv, Lease, LeaseStates, Running, Holding, Uninstalled,
           Installed, Recovering
  <1>3. IdInv' /\ CommitInv' /\ ScienceHasIntent' /\ RecordsKept
    BY DEF IdInv, CommitInv, ScienceHasIntent, RecordsKept
  <1>4. WorkInv'
    BY <1>a DEF WorkInv, Unwritten, Written, Installed
  <1>5. FreshInv'
    BY DEF FreshInv, Unwritten
  <1>6. StageInv'
    BY <1>a, <1>b DEF StageInv, WorkInv, Unwritten, Written, Installed, Placed,
           Proved
  <1>7. ReceiptInv'
    BY DEF ReceiptInv, Finalizing
  <1>8. SealInv' /\ AssignmentFollowsSchedule'
    BY <1>a, <1>3, AcceptanceKept DEF SealInv, AssignmentFollowsSchedule,
           WorkInv, Unwritten, Written, Running, Holding, Uninstalled,
           Installed, Recovering, ProofOf
  <1> QED
    BY <1>1, <1>2, <1>3, <1>4, <1>5, <1>6, <1>7, <1>8

\* Enter: entering a call reads the run root and writes nothing.
LEMMA EnterPreserves ==
  ASSUME IInv, NEW p \in Procs, NEW x \in Paths, Enter(p, x)
  PROVE  IInv' /\ RecordsKept
  <1> USE ValuesAssumption
      DEF IInv, Enter, Sealable, Unlocked, Aborted, Goto, disk, local, Whole,
          TypeOK,
          CallTyped, DiskTyped, Exclusive, Unproved
  <1>a. CallTyped /\ DiskTyped
    BY CallFacts, DiskFacts
  <1>b. Exclusive
    BY HolderFacts
  <1>1. TypeOK'
    BY DEF Labels, Running, Uninstalled, Installed, Recovering, LeaseStates,
           Phases
  <1>2. LeaseInv'
    BY DEF LeaseInv, Lease, LeaseStates, Running, Holding, Uninstalled,
           Installed, Recovering
  <1>3. IdInv' /\ CommitInv' /\ ScienceHasIntent' /\ RecordsKept
    BY DEF IdInv, CommitInv, ScienceHasIntent, RecordsKept
  <1>4. WorkInv'
    BY <1>a DEF WorkInv, Unwritten, Written, Installed
  <1>5. FreshInv'
    BY DEF FreshInv, Unwritten
  <1>6. StageInv'
    BY <1>a, <1>b DEF StageInv, WorkInv, Unwritten, Written, Installed, Placed,
           Proved
  <1>7. ReceiptInv'
    BY DEF ReceiptInv, Finalizing
  <1>8. SealInv' /\ AssignmentFollowsSchedule'
    BY <1>a, <1>3, AcceptanceKept DEF SealInv, AssignmentFollowsSchedule,
           WorkInv, Unwritten, Written, Running, Holding, Uninstalled,
           Installed, Recovering, ProofOf
  <1> QED
    BY <1>1, <1>2, <1>3, <1>4, <1>5, <1>6, <1>7, <1>8

\* Tick: time moves only the phase of a lease.
LEMMA TickPreserves ==
  ASSUME IInv, NEW p \in Procs, Tick(p)
  PROVE  IInv' /\ RecordsKept
  <1> USE ValuesAssumption
      DEF IInv, Tick, Goto, disk, local, Whole, TypeOK,
          CallTyped, DiskTyped, Exclusive, Unproved
  <1>a. CallTyped /\ DiskTyped
    BY CallFacts, DiskFacts
  <1>b. Exclusive
    BY HolderFacts
  <1>1. TypeOK'
    BY DEF Phases
  <1>2. LeaseInv'
    BY DEF LeaseInv, Lease, LeaseStates, Running, Holding, Uninstalled,
           Installed, Recovering
  <1>3. IdInv' /\ CommitInv' /\ ScienceHasIntent' /\ RecordsKept
    BY DEF IdInv, CommitInv, ScienceHasIntent, RecordsKept
  <1>4. WorkInv'
    BY <1>a DEF WorkInv, Unwritten, Written, Installed
  <1>5. FreshInv'
    BY DEF FreshInv, Unwritten
  <1>6. StageInv'
    BY <1>a, <1>b DEF StageInv, WorkInv, Unwritten, Written, Installed, Placed,
           Proved
  <1>7. ReceiptInv'
    BY DEF ReceiptInv, Finalizing
  <1>8. SealInv' /\ AssignmentFollowsSchedule'
    BY <1>a, <1>3, AcceptanceKept DEF SealInv, AssignmentFollowsSchedule,
           WorkInv, Unwritten, Written, Running, Holding, Uninstalled,
           Installed, Recovering, ProofOf
  <1> QED
    BY <1>1, <1>2, <1>3, <1>4, <1>5, <1>6, <1>7, <1>8

\* Prepare: preparing draws an id that nothing else uses.
LEMMA PreparePreserves ==
  ASSUME IInv, NEW p \in Procs, NEW d \in Digests, Prepare(p, d)
  PROVE  IInv' /\ RecordsKept
  <1> USE ValuesAssumption
      DEF IInv, Prepare, Goto, disk, local, Whole, TypeOK,
          CallTyped, DiskTyped, Exclusive, Unproved
  <1>a. CallTyped /\ DiskTyped
    BY CallFacts, DiskFacts
  <1>b. Exclusive
    BY HolderFacts
  <1>1. TypeOK'
    BY <1>a DEF Labels, Unwritten, Written, Running, Uninstalled, Installed,
           Recovering, LeaseInv, Ids, Intent
  <1>2. LeaseInv'
    BY DEF LeaseInv, Lease, LeaseStates, Running, Holding, Uninstalled,
           Installed, Recovering
  <1>3. IdInv'
    BY <1>a DEF IdInv, StageInv, FreshInv, WorkInv, Unwritten, Ids, Intent
  <1>4. WorkInv'
    <2>1. work'[p].lease = lease'[p] /\ work'[p].path = out'[p]
          /\ work'[p].id < nextId' /\ work'[p] \in Intent
      BY <1>a DEF LeaseInv, Running, Uninstalled, Ids, Intent
    <2>2. ASSUME NEW q \in Procs, q # p, pc[q] \in Unwritten \cup Written
          PROVE  work[q].id < nextId + 1
      BY <1>a, <2>2 DEF WorkInv, Ids, Intent
    <2> QED
      BY <2>1, <2>2 DEF WorkInv
  <1>5. FreshInv'
    BY <1>a DEF FreshInv, WorkInv, IdInv, StageInv, Unwritten, Written,
           Installed, Intent, Ids
  <1>6. StageInv'
    BY <1>a, <1>b DEF StageInv, WorkInv, Unwritten, Written, Installed, Placed,
           Proved
  <1>7. CommitInv' /\ ScienceHasIntent' /\ RecordsKept
    BY DEF CommitInv, ScienceHasIntent, RecordsKept
  <1>8. ReceiptInv'
    BY DEF ReceiptInv, Finalizing
  <1>9. SealInv' /\ AssignmentFollowsSchedule'
    BY <1>a, <1>7, AcceptanceKept DEF SealInv, AssignmentFollowsSchedule,
           WorkInv, Unwritten, Written, Running, Holding, Uninstalled,
           Installed, Recovering, ProofOf
  <1> QED
    BY <1>1, <1>2, <1>3, <1>4, <1>5, <1>6, <1>7, <1>8, <1>9

\* End: the end attestation changes only the lease state.
LEMMA EndPreserves ==
  ASSUME IInv, NEW p \in Procs, End(p)
  PROVE  IInv' /\ RecordsKept
  <1> USE ValuesAssumption
      DEF IInv, End, Goto, disk, local, Whole, TypeOK,
          CallTyped, DiskTyped, Exclusive, Unproved
  <1>a. CallTyped /\ DiskTyped
    BY CallFacts, DiskFacts
  <1>b. Exclusive
    BY HolderFacts
  <1>1. TypeOK'
    BY DEF Labels, Running, Uninstalled, Installed, Recovering, LeaseStates
  <1>2. LeaseInv'
    BY DEF LeaseInv, Lease, LeaseStates, Running, Holding, Uninstalled,
           Installed, Recovering
  <1>3. IdInv' /\ CommitInv' /\ ScienceHasIntent' /\ RecordsKept
    BY DEF IdInv, CommitInv, ScienceHasIntent, RecordsKept
  <1>4. WorkInv'
    BY <1>a DEF WorkInv, Unwritten, Written, Installed
  <1>5. FreshInv'
    BY DEF FreshInv, Unwritten
  <1>6. StageInv'
    BY <1>a, <1>b DEF StageInv, WorkInv, Unwritten, Written, Installed, Placed,
           Proved
  <1>7. ReceiptInv'
    BY DEF ReceiptInv, Finalizing
  <1>8. SealInv' /\ AssignmentFollowsSchedule'
    BY <1>a, <1>3, AcceptanceKept DEF SealInv, AssignmentFollowsSchedule,
           WorkInv, Unwritten, Written, Running, Holding, Uninstalled,
           Installed, Recovering, ProofOf
  <1> QED
    BY <1>1, <1>2, <1>3, <1>4, <1>5, <1>6, <1>7, <1>8

\* CheckWindow: the window check changes only the label.
LEMMA CheckWindowPreserves ==
  ASSUME IInv, NEW p \in Procs, CheckWindow(p)
  PROVE  IInv' /\ RecordsKept
  <1> USE ValuesAssumption
      DEF IInv, CheckWindow, Goto, disk, local, Whole, TypeOK,
          CallTyped, DiskTyped, Exclusive, Unproved
  <1>a. CallTyped /\ DiskTyped
    BY CallFacts, DiskFacts
  <1>b. Exclusive
    BY HolderFacts
  <1>1. TypeOK'
    BY DEF Labels, Running, Uninstalled, Installed, Recovering
  <1>2. LeaseInv'
    BY DEF LeaseInv, Lease, LeaseStates, Running, Holding, Uninstalled,
           Installed, Recovering
  <1>3. IdInv' /\ CommitInv' /\ ScienceHasIntent' /\ RecordsKept
    BY DEF IdInv, CommitInv, ScienceHasIntent, RecordsKept
  <1>4. WorkInv'
    BY <1>a DEF WorkInv, Unwritten, Written, Installed
  <1>5. FreshInv'
    BY DEF FreshInv, Unwritten
  <1>6. StageInv'
    BY <1>a, <1>b DEF StageInv, WorkInv, Unwritten, Written, Installed, Placed,
           Proved
  <1>7. ReceiptInv'
    BY DEF ReceiptInv, Finalizing
  <1>8. SealInv' /\ AssignmentFollowsSchedule'
    BY <1>a, <1>3, AcceptanceKept DEF SealInv, AssignmentFollowsSchedule,
           WorkInv, Unwritten, Written, Running, Holding, Uninstalled,
           Installed, Recovering, ProofOf
  <1> QED
    BY <1>1, <1>2, <1>3, <1>4, <1>5, <1>6, <1>7, <1>8

\* ReplaceUncommittedIntent: a stale intent is aborted only if it has no proof.
LEMMA ReplaceUncommittedIntentPreserves ==
  ASSUME IInv, NEW p \in Procs, ReplaceUncommittedIntent(p)
  PROVE  IInv' /\ RecordsKept
  <1> USE ValuesAssumption
      DEF IInv, ReplaceUncommittedIntent, ValidIntent, MatchingProofs, Goto,
          disk, local, Whole, TypeOK,
          CallTyped, DiskTyped, Exclusive, Unproved
  <1>a. CallTyped /\ DiskTyped
    BY CallFacts, DiskFacts
  <1>b. Exclusive
    BY HolderFacts
  <1>c. Unproved
    BY HolderFacts
  <1>1. TypeOK'
    <2>1. aborts' \in [Ids -> {None, Torn, "whole"}]
      BY <1>a
    <2>2. pc' \in [Procs -> Labels]
      BY DEF Labels, Running, Uninstalled
    <2> QED
      BY <2>1, <2>2
  <1>2. LeaseInv'
    BY DEF LeaseInv, Lease, LeaseStates, Running, Holding, Uninstalled,
           Installed, Recovering
  <1>3. IdInv'
    <2>1. CASE aborts' = aborts
      BY <2>1 DEF IdInv
    <2>2. CASE aborts' # aborts
      <3>1. intent[lease[p].txn].id \in Ids /\ intent[lease[p].txn].id < nextId
        BY <1>a, <2>2 DEF IdInv
      <3>2. \A i \in Ids : i # intent[lease[p].txn].id => aborts'[i] = aborts[i]
        BY <2>2
      <3> QED
        BY <3>1, <3>2 DEF IdInv
    <2> QED
      BY <2>1, <2>2
  <1>4. WorkInv'
    BY <1>a DEF WorkInv, Unwritten, Written, Installed
  <1>5. FreshInv'
    <2>1. CASE aborts' = aborts
      BY <2>1 DEF FreshInv, Unwritten
    <2>2. CASE aborts' # aborts
      <3>1. intent[lease[p].txn].id \in Ids /\ lease[p].txn \in Txns /\ Whole(intent[lease[p].txn])
        BY <1>a, <2>2 DEF IdInv
      <3>2. \A i \in Ids : i # intent[lease[p].txn].id => aborts'[i] = aborts[i]
        BY <2>2
      <3>3. ASSUME NEW q \in Procs, pc[q] \in Unwritten
            PROVE  aborts'[work[q].id] = None
        <4>1. work[q].id \in Ids
          BY <1>a, <3>3
        <4>2. aborts[work[q].id] = None /\ work[q].id # intent[lease[p].txn].id
          BY <3>1, <3>3 DEF FreshInv
        <4> QED
          BY <3>2, <4>1, <4>2
      <3>4. ASSUME NEW q \in Procs, pc'[q] \in Unwritten
            PROVE  pc[q] \in Unwritten
        <4>1. CASE q = p
          BY <4>1 DEF Unwritten
        <4>2. CASE q # p
          BY <3>4, <4>2, SMTT(30)
        <4> QED
          BY <4>1, <4>2
      <3> QED
        BY <3>3, <3>4 DEF FreshInv
    <2> QED
      BY <2>1, <2>2
  <1>6. StageInv'
    BY <1>a, <1>b, <1>c, SMTT(40) DEF StageInv, WorkInv, IdInv, FreshInv, CommitInv,
           ScienceHasIntent, Unwritten, Written, Running, Holding, Uninstalled,
           Installed, Recovering, Placed, Proved, ProofOf, Intent, Lease,
           Proof, Science
  <1>7. CommitInv'
    <2>1. ASSUME NEW c \in commits PROVE aborts'[c.intent] = aborts[c.intent]
      BY <1>a
    <2> QED
      BY <2>1, CommitKept DEF ProofsKept
  <1>8. ReceiptInv'
    BY DEF ReceiptInv, Finalizing
  <1>9. ScienceHasIntent' /\ RecordsKept
    BY DEF ScienceHasIntent, RecordsKept
  <1>10. SealInv' /\ AssignmentFollowsSchedule'
    BY <1>a, <1>9, AcceptanceKept DEF SealInv, AssignmentFollowsSchedule,
           WorkInv, Unwritten, Written, Running, Holding, Uninstalled,
           Installed, Recovering, ProofOf
  <1> QED
    BY <1>1, <1>2, <1>3, <1>4, <1>5, <1>6, <1>7, <1>8, <1>9, <1>10

\* FinishAbortRecord: completing an abort record touches no intent with a proof.
LEMMA FinishAbortRecordPreserves ==
  ASSUME IInv, NEW p \in Procs, FinishAbortRecord(p)
  PROVE  IInv' /\ RecordsKept
  <1> USE ValuesAssumption
      DEF IInv, FinishAbortRecord, Goto, disk, local, Whole, TypeOK,
          CallTyped, DiskTyped, Exclusive, Unproved
  <1>a. CallTyped /\ DiskTyped
    BY CallFacts, DiskFacts
  <1>b. Exclusive
    BY HolderFacts
  <1>c. Unproved
    BY HolderFacts
  <1>1. TypeOK'
    BY <1>a DEF StageInv, Labels, Running, Uninstalled, Installed, Recovering
  <1>2. LeaseInv'
    BY DEF LeaseInv, Lease, LeaseStates, Running, Holding, Uninstalled,
           Installed, Recovering
  <1>3. IdInv'
    <2>1. CASE aborts' = aborts
      BY <2>1 DEF IdInv
    <2>2. CASE aborts' # aborts
      <3>1. intent[lease[p].txn].id \in Ids /\ intent[lease[p].txn].id < nextId
        BY <1>a, <2>2 DEF IdInv, StageInv
      <3>2. \A i \in Ids : i # intent[lease[p].txn].id => aborts'[i] = aborts[i]
        BY <2>2
      <3> QED
        BY <3>1, <3>2 DEF IdInv
    <2> QED
      BY <2>1, <2>2
  <1>4. WorkInv'
    BY <1>a DEF WorkInv, Unwritten, Written, Installed
  <1>5. FreshInv'
    <2>1. CASE aborts' = aborts
      BY <2>1 DEF FreshInv, Unwritten
    <2>2. CASE aborts' # aborts
      <3>1. intent[lease[p].txn].id \in Ids /\ lease[p].txn \in Txns /\ Whole(intent[lease[p].txn])
        BY <1>a, <2>2 DEF IdInv, StageInv
      <3>2. \A i \in Ids : i # intent[lease[p].txn].id => aborts'[i] = aborts[i]
        BY <2>2
      <3>3. ASSUME NEW q \in Procs, pc[q] \in Unwritten
            PROVE  aborts'[work[q].id] = None
        <4>1. work[q].id \in Ids
          BY <1>a, <3>3
        <4>2. aborts[work[q].id] = None /\ work[q].id # intent[lease[p].txn].id
          BY <3>1, <3>3 DEF FreshInv
        <4> QED
          BY <3>2, <4>1, <4>2
      <3>4. \A q \in Procs : pc'[q] \in Unwritten => pc[q] \in Unwritten
        BY DEF Unwritten
      <3> QED
        BY <3>3, <3>4 DEF FreshInv
    <2> QED
      BY <2>1, <2>2
  <1>6. StageInv'
    <2>1. intent[lease[p].txn].id \in Ids /\ Whole(intent[lease[p].txn]) /\ lease[p].txn \in Txns
      BY <1>a DEF StageInv
    <2>2. ASSUME NEW q \in Procs, pc[q] \in Written PROVE aborts'[work[q].id] = None
      <3>1. work[q] = intent[lease[q].txn] /\ aborts[work[q].id] = None
            /\ lease[q].txn \in Txns /\ work[q].id \in Ids /\ Whole(work[q])
        BY <1>a, <2>2 DEF StageInv, Written, Installed
      <3>2. q # p /\ work[q].id # intent[lease[p].txn].id
        <4>1. q # p
          BY <2>2 DEF Written, Installed
        <4>2. CASE pc[q] = "recover_record"
          <5>1. ProofOf(work[q]) \in commits /\ ProofOf(work[q]).intent = work[q].id
            BY <4>2 DEF StageInv, Proved, ProofOf
          <5> QED
            BY <1>c, <2>1, <4>1, <5>1
        <4>3. CASE pc[q] # "recover_record"
          <5>1. lease[q].txn # lease[p].txn
            BY <1>b, <2>2, <4>1, <4>3 DEF Written, Holding, Uninstalled,
                   Installed
          <5> QED
            BY <2>1, <3>1, <4>1, <5>1 DEF IdInv
        <4> QED
          BY <4>2, <4>3
      <3> QED
        BY <2>1, <3>1, <3>2
    <2> QED
      BY <2>2 DEF StageInv, Unwritten, Written, Installed, Placed, Proved,
             ProofOf
  <1>7. CommitInv'
    <2>1. ASSUME NEW c \in commits PROVE aborts'[c.intent] = aborts[c.intent]
      <3>1. c.intent \in Ids
        BY <1>a
      <3>2. c.intent # intent[lease[p].txn].id
        BY DEF StageInv
      <3> QED
        BY <3>1, <3>2
    <2> QED
      BY <2>1, CommitKept DEF ProofsKept
  <1>8. ReceiptInv'
    BY DEF ReceiptInv, Finalizing
  <1>9. ScienceHasIntent' /\ RecordsKept
    BY DEF ScienceHasIntent, RecordsKept
  <1>10. SealInv' /\ AssignmentFollowsSchedule'
    BY <1>a, <1>9, AcceptanceKept DEF SealInv, AssignmentFollowsSchedule,
           WorkInv, Unwritten, Written, Running, Holding, Uninstalled,
           Installed, Recovering, ProofOf
  <1> QED
    BY <1>1, <1>2, <1>3, <1>4, <1>5, <1>6, <1>7, <1>8, <1>9, <1>10

\* UnlinkIntent: the intent removed has neither a proof nor science.
LEMMA UnlinkIntentPreserves ==
  ASSUME IInv, NEW p \in Procs, UnlinkIntent(p)
  PROVE  IInv' /\ RecordsKept
  <1> USE ValuesAssumption
      DEF IInv, UnlinkIntent, Goto, disk, local, Whole, TypeOK,
          CallTyped, DiskTyped, Exclusive, Unproved
  <1>a. CallTyped /\ DiskTyped
    BY CallFacts, DiskFacts
  <1>b. Exclusive
    BY HolderFacts
  <1>c. Unproved
    BY HolderFacts
  <1>1. TypeOK'
    BY DEF Labels, Running, Uninstalled, Installed, Recovering
  <1>2. LeaseInv'
    BY DEF LeaseInv, Lease, LeaseStates, Running, Holding, Uninstalled,
           Installed, Recovering
  <1>3. IdInv'
    BY <1>a DEF IdInv, StageInv, FreshInv, WorkInv, Unwritten, Ids, Intent
  <1>4. WorkInv'
    BY <1>a DEF WorkInv, Unwritten, Written, Installed
  <1>5. FreshInv'
    BY <1>a DEF FreshInv, WorkInv, IdInv, StageInv, Unwritten, Written,
           Installed, Intent, Ids
  <1>6. StageInv'
    BY <1>a, <1>b, <1>c DEF StageInv, WorkInv, IdInv, FreshInv, CommitInv,
           ScienceHasIntent, Unwritten, Written, Running, Holding, Uninstalled,
           Installed, Recovering, Placed, Proved, ProofOf, Intent, Lease,
           Proof, Science
  <1>7. CommitInv'
    <2>1. ASSUME NEW c \in commits PROVE intent'[c.lease.txn] = intent[c.lease.txn]
      <3>1. Whole(intent[c.lease.txn]) /\ c.lease.txn \in Txns
        BY <1>a DEF CommitInv
      <3> QED
        BY <1>c, <3>1
    <2> QED
      BY <2>1, CommitKept DEF ProofsKept
  <1>8. ReceiptInv'
    BY <1>a, <1>b, <1>c DEF ReceiptInv, StageInv, CommitInv, WorkInv, IdInv,
           Finalizing, Proved, Written, Installed, ProofOf, Intent, Receipt,
           Proof
  <1>9. ScienceHasIntent'
    <2>1. ASSUME NEW x \in Paths, science[x] # None
          PROVE  science[x].txn # lease[p].txn /\ science[x].txn \in Txns
      <3>1. science[x].txn \in Txns
        BY <2>1 DEF Science
      <3>2. science[x].txn # lease[p].txn
        BY <2>1 DEF StageInv
      <3> QED
        BY <3>1, <3>2
    <2> QED
      BY <2>1, AttributionKept DEF ScienceKept
  <1>10. RecordsKept
    BY DEF RecordsKept
  <1>11. SealInv' /\ AssignmentFollowsSchedule'
    BY <1>a, <1>10, AcceptanceKept DEF SealInv, AssignmentFollowsSchedule,
           WorkInv, Unwritten, Written, Running, Holding, Uninstalled,
           Installed, Recovering, ProofOf
  <1> QED
    BY <1>1, <1>2, <1>3, <1>4, <1>5, <1>6, <1>7, <1>8, <1>9, <1>10, <1>11

\* CreateIntent: a created intent takes the place of none.
LEMMA CreateIntentPreserves ==
  ASSUME IInv, NEW p \in Procs, CreateIntent(p)
  PROVE  IInv' /\ RecordsKept
  <1> USE ValuesAssumption
      DEF IInv, CreateIntent, Goto, disk, local, Whole, TypeOK,
          CallTyped, DiskTyped, Exclusive, Unproved
  <1>a. CallTyped /\ DiskTyped
    BY CallFacts, DiskFacts
  <1>b. Exclusive
    BY HolderFacts
  <1>c. Unproved
    BY HolderFacts
  <1>1. TypeOK'
    BY DEF Labels, Running, Uninstalled, Installed, Recovering
  <1>2. LeaseInv'
    BY DEF LeaseInv, Lease, LeaseStates, Running, Holding, Uninstalled,
           Installed, Recovering
  <1>3. IdInv'
    BY <1>a DEF IdInv, StageInv, FreshInv, WorkInv, Unwritten, Ids, Intent
  <1>4. WorkInv'
    BY <1>a DEF WorkInv, Unwritten, Written, Installed
  <1>5. FreshInv'
    BY <1>a DEF FreshInv, WorkInv, IdInv, StageInv, Unwritten, Written,
           Installed, Intent, Ids
  <1>6. StageInv'
    BY <1>a, <1>b, <1>c DEF StageInv, WorkInv, IdInv, FreshInv, CommitInv,
           ScienceHasIntent, Unwritten, Written, Running, Holding, Uninstalled,
           Installed, Recovering, Placed, Proved, ProofOf, Intent, Lease,
           Proof, Science
  <1>7. CommitInv'
    <2>1. ASSUME NEW c \in commits PROVE intent'[c.lease.txn] = intent[c.lease.txn]
      <3>1. Whole(intent[c.lease.txn]) /\ c.lease.txn \in Txns
        BY <1>a DEF CommitInv
      <3> QED
        BY <1>c, <3>1
    <2> QED
      BY <2>1, CommitKept DEF ProofsKept
  <1>8. ReceiptInv'
    <2>1. ASSUME NEW t \in Txns, Whole(receipt[t]) PROVE t # lease[p].txn
      <3>1. receipt[t] \in Receipt /\ receipt[t].intent = intent[t]
        BY <2>1 DEF ReceiptInv
      <3>2. intent[t] \in Intent
        BY <3>1 DEF Receipt
      <3> QED
        BY <3>2
    <2> QED
      BY <2>1 DEF ReceiptInv, Finalizing, ProofOf
  <1>9. ScienceHasIntent'
    <2>1. ASSUME NEW x \in Paths, science[x] # None
          PROVE  science[x].txn # lease[p].txn /\ science[x].txn \in Txns
      <3>1. science[x].txn \in Txns
        BY <2>1 DEF Science
      <3>2. science[x].txn # lease[p].txn
        BY <2>1, <3>1 DEF ScienceHasIntent
      <3> QED
        BY <3>1, <3>2
    <2> QED
      BY <2>1, AttributionKept DEF ScienceKept
  <1>10. RecordsKept
    BY DEF RecordsKept
  <1>11. SealInv' /\ AssignmentFollowsSchedule'
    BY <1>a, <1>10, AcceptanceKept DEF SealInv, AssignmentFollowsSchedule,
           WorkInv, Unwritten, Written, Running, Holding, Uninstalled,
           Installed, Recovering, ProofOf
  <1> QED
    BY <1>1, <1>2, <1>3, <1>4, <1>5, <1>6, <1>7, <1>8, <1>9, <1>10, <1>11

\* FinishIntent: the intent is complete; its id was fresh.
LEMMA FinishIntentPreserves ==
  ASSUME IInv, NEW p \in Procs, FinishIntent(p)
  PROVE  IInv' /\ RecordsKept
  <1> USE ValuesAssumption
      DEF IInv, FinishIntent, Goto, disk, local, Whole, TypeOK,
          CallTyped, DiskTyped, Exclusive, Unproved
  <1>a. CallTyped /\ DiskTyped
    BY CallFacts, DiskFacts
  <1>b. Exclusive
    BY HolderFacts
  <1>c. Unproved
    BY HolderFacts
  <1>1. TypeOK'
    BY <1>a DEF Unwritten, Labels, Running, Uninstalled, Installed, Recovering
  <1>2. LeaseInv'
    BY DEF LeaseInv, Lease, LeaseStates, Running, Holding, Uninstalled,
           Installed, Recovering
  <1>3. IdInv'
    BY <1>a DEF IdInv, StageInv, FreshInv, WorkInv, Unwritten, Ids, Intent
  <1>4. WorkInv'
    BY <1>a DEF WorkInv, Unwritten, Written, Installed
  <1>5. FreshInv'
    BY <1>a DEF FreshInv, WorkInv, IdInv, StageInv, Unwritten, Written,
           Installed, Intent, Ids
  <1>6. StageInv'
    BY <1>a, <1>b, <1>c DEF StageInv, WorkInv, IdInv, FreshInv, CommitInv,
           ScienceHasIntent, Unwritten, Written, Running, Holding, Uninstalled,
           Installed, Recovering, Placed, Proved, ProofOf, Intent, Lease,
           Proof, Science
  <1>7. CommitInv'
    <2>1. ASSUME NEW c \in commits PROVE intent'[c.lease.txn] = intent[c.lease.txn]
      <3>1. Whole(intent[c.lease.txn]) /\ c.lease.txn \in Txns
        BY <1>a DEF CommitInv
      <3> QED
        BY <1>c, <3>1
    <2> QED
      BY <2>1, CommitKept DEF ProofsKept
  <1>8. ReceiptInv'
    BY <1>a, <1>b, <1>c DEF ReceiptInv, StageInv, CommitInv, WorkInv, IdInv,
           Finalizing, Proved, Written, Installed, ProofOf, Intent, Receipt,
           Proof
  <1>9. ScienceHasIntent'
    <2>1. ASSUME NEW x \in Paths, science[x] # None
          PROVE  science[x].txn # lease[p].txn /\ science[x].txn \in Txns
      <3>1. science[x].txn \in Txns
        BY <2>1 DEF Science
      <3>2. science[x].txn # lease[p].txn
        <4>1. Whole(intent[science[x].txn])
          BY <2>1 DEF ScienceHasIntent
        <4>2. intent[lease[p].txn] = Torn
          BY DEF StageInv
        <4> QED
          BY <4>1, <4>2
      <3> QED
        BY <3>1, <3>2
    <2> QED
      BY <2>1, AttributionKept DEF ScienceKept
  <1>10. RecordsKept
    BY DEF RecordsKept
  <1>11. SealInv' /\ AssignmentFollowsSchedule'
    BY <1>a, <1>10, AcceptanceKept DEF SealInv, AssignmentFollowsSchedule,
           WorkInv, Unwritten, Written, Running, Holding, Uninstalled,
           Installed, Recovering, ProofOf
  <1> QED
    BY <1>1, <1>2, <1>3, <1>4, <1>5, <1>6, <1>7, <1>8, <1>9, <1>10, <1>11

\* Install: science is installed at a free path under the present intent.
LEMMA InstallPreserves ==
  ASSUME IInv, NEW p \in Procs, Install(p)
  PROVE  IInv' /\ RecordsKept
  <1> USE ValuesAssumption
      DEF IInv, Install, Unlocked, Goto, disk, local, Whole, TypeOK,
          CallTyped, DiskTyped, Exclusive, Unproved
  <1>a. CallTyped /\ DiskTyped
    BY CallFacts, DiskFacts
  <1>b. Exclusive
    BY HolderFacts
  <1>c. Unproved
    BY HolderFacts
  <1>1. TypeOK'
    <2>1. science' \in [Paths -> Science \cup {None}]
      BY <1>a DEF Written
    <2>2. lock' \in [Txns -> Procs \cup {None}] /\ lstate' \in [Procs -> LeaseStates]
          /\ pc' \in [Procs -> Labels]
      BY DEF Labels, Running, Installed, LeaseStates
    <2> QED
      BY <2>1, <2>2
  <1>2. LeaseInv'
    BY DEF LeaseInv, Lease, LeaseStates, Running, Holding, Uninstalled,
           Installed, Recovering
  <1>3. IdInv'
    BY DEF IdInv
  <1>4. WorkInv'
    BY <1>a DEF WorkInv, Unwritten, Written, Installed
  <1>5. FreshInv'
    BY DEF FreshInv, Unwritten
  <1>6. StageInv'
    BY <1>a, <1>b, <1>c DEF StageInv, WorkInv, IdInv, FreshInv, CommitInv,
           ScienceHasIntent, Unwritten, Written, Running, Holding, Uninstalled,
           Installed, Recovering, Placed, Proved, ProofOf, Intent, Lease,
           Proof, Science
  <1>7. CommitInv'
    <2>1. ASSUME NEW c \in commits PROVE science'[c.path] = science[c.path]
      <3>1. [txn |-> c.lease.txn, digest |-> c.digest] \in Science
        BY DEF Science, Proof, Lease
      <3>2. science[c.path] \in Science /\ c.path \in Paths
        BY <1>a, <3>1 DEF CommitInv
      <3> QED
        BY <3>2
    <2> QED
      BY <2>1, CommitKept DEF ProofsKept
  <1>8. ReceiptInv'
    BY DEF ReceiptInv, Finalizing
  <1>9. ScienceHasIntent'
    BY <1>a, <1>b DEF ScienceHasIntent, StageInv, WorkInv, Written, Placed,
           Installed, Intent, Science
  <1>10. RecordsKept
    BY <1>a DEF RecordsKept, ReceiptInv, Finalizing, WorkInv, Written,
           Unwritten, Installed
  <1>11. SealInv' /\ AssignmentFollowsSchedule'
    BY <1>a, <1>10, AcceptanceKept DEF SealInv, AssignmentFollowsSchedule,
           WorkInv, Unwritten, Written, Running, Holding, Uninstalled,
           Installed, Recovering, ProofOf
  <1> QED
    BY <1>1, <1>2, <1>3, <1>4, <1>5, <1>6, <1>7, <1>8, <1>9, <1>10, <1>11

\* Commit: opening the proof file changes only its torn name.
LEMMA CommitPreserves ==
  ASSUME IInv, NEW p \in Procs, Commit(p)
  PROVE  IInv' /\ RecordsKept
  <1> USE ValuesAssumption
      DEF IInv, Commit, Goto, disk, local, Whole, TypeOK,
          CallTyped, DiskTyped, Exclusive, Unproved
  <1>a. CallTyped /\ DiskTyped
    BY CallFacts, DiskFacts
  <1>b. Exclusive
    BY HolderFacts
  <1>1. TypeOK'
    <2>1. torn' \subseteq Nat
      <3>1. work[p].id \in Nat
        <4>1. work[p] \in Intent
          BY <1>a DEF Written, Installed
        <4> QED
          BY <4>1 DEF Intent
      <3> QED
        BY <3>1
    <2>2. pc' \in [Procs -> Labels]
      BY DEF Labels, Running, Installed
    <2> QED
      BY <2>1, <2>2
  <1>2. LeaseInv'
    BY DEF LeaseInv, Lease, LeaseStates, Running, Holding, Uninstalled,
           Installed, Recovering
  <1>3. IdInv' /\ CommitInv' /\ ScienceHasIntent' /\ RecordsKept
    BY DEF IdInv, CommitInv, ScienceHasIntent, RecordsKept
  <1>4. WorkInv'
    BY <1>a DEF WorkInv, Unwritten, Written, Installed
  <1>5. FreshInv'
    BY DEF FreshInv, Unwritten
  <1>6. StageInv'
    BY <1>a, <1>b DEF StageInv, WorkInv, Unwritten, Written, Installed, Placed,
           Proved
  <1>7. ReceiptInv'
    BY DEF ReceiptInv, Finalizing
  <1>8. SealInv' /\ AssignmentFollowsSchedule'
    BY <1>a, <1>3, AcceptanceKept DEF SealInv, AssignmentFollowsSchedule,
           WorkInv, Unwritten, Written, Running, Holding, Uninstalled,
           Installed, Recovering, ProofOf
  <1> QED
    BY <1>1, <1>2, <1>3, <1>4, <1>5, <1>6, <1>7, <1>8

\* FinishCommit: the proof binds the present intent and installed science.
LEMMA FinishCommitPreserves ==
  ASSUME IInv, NEW p \in Procs, FinishCommit(p)
  PROVE  IInv' /\ RecordsKept
  <1> USE ValuesAssumption
      DEF IInv, FinishCommit, Unlocked, Goto, disk, local, Whole, TypeOK,
          CallTyped, DiskTyped, Exclusive, Unproved
  <1>a. CallTyped /\ DiskTyped
    BY CallFacts, DiskFacts
  <1>b. Exclusive
    BY HolderFacts
  <1>c. Unproved
    BY HolderFacts
  <1>1. TypeOK'
    <2>1. commits' \subseteq Proof /\ torn' \subseteq Nat
      BY <1>a DEF Written, Installed
    <2>2. /\ lock' \in [Txns -> Procs \cup {None}]
          /\ lstate' \in [Procs -> LeaseStates]
          /\ pc' \in [Procs -> Labels]
      BY DEF Labels, Running, Installed, LeaseStates
    <2> QED
      BY <2>1, <2>2
  <1>2. LeaseInv'
    BY DEF LeaseInv, Lease, LeaseStates, Running, Holding, Uninstalled,
           Installed, Recovering
  <1>3. IdInv' /\ ScienceHasIntent'
    BY DEF IdInv, ScienceHasIntent
  <1>4. WorkInv'
    BY <1>a DEF WorkInv, Unwritten, Written, Installed
  <1>5. FreshInv'
    BY DEF FreshInv, Unwritten
  <1>6. StageInv'
    <2>1. work[p] = intent[lease[p].txn] /\ lease[p].txn \in Txns /\ Whole(work[p])
      BY <1>a DEF StageInv, Written, Installed
    <2>2. ASSUME NEW q \in Procs, pc[q] \in {"abort_record", "unlink"}
          PROVE  ProofOf(work[p]).intent # intent[lease[q].txn].id
      <3>1. lease[q].txn # lease[p].txn
        BY <1>b, <2>2 DEF Holding, Uninstalled, Installed
      <3>2. work[p].id # intent[lease[q].txn].id
        <4>1. lease[q].txn \in Txns /\ Whole(intent[lease[q].txn])
          BY <1>a, <2>2 DEF StageInv
        <4> QED
          BY <2>1, <3>1, <4>1 DEF IdInv
      <3> QED
        BY <3>2 DEF ProofOf
    <2>3. /\ pc'[p] \in {"receipt", "over"}
          /\ \A q \in Procs : q # p => pc'[q] = pc[q]
      OBVIOUS
    <2> QED
      BY <2>2, <2>3 DEF StageInv, Written, Installed, Placed, Proved
  <1>7. CommitInv'
    <2>1. ASSUME NEW c \in commits PROVE CommitInv!(c)'
      BY DEF CommitInv, ProofOf
    <2>2. CommitInv!(ProofOf(work[p]))'
      <3>1. /\ work[p] = intent[lease[p].txn]
            /\ work[p].lease = lease[p]
            /\ work[p].path = out[p]
            /\ Whole(work[p])
        BY <1>a DEF StageInv, WorkInv, Written, Installed
      <3>2. /\ aborts[work[p].id] = None
            /\ science[out[p]] = [txn |-> lease[p].txn, digest |-> work[p].digest]
        BY DEF StageInv, Written, Installed, Placed
      <3> QED
        BY <3>1, <3>2 DEF ProofOf
    <2> QED
      BY <2>1, <2>2 DEF CommitInv
  <1>8. ReceiptInv'
    <2>1. \A q \in Procs : pc'[q] \in Finalizing => pc[q] \in Finalizing
      BY DEF Finalizing
    <2>2. UNCHANGED <<receipt, intent, lease>> /\ commits \subseteq commits'
      BY SMTT(30)
    <2> QED
      BY <2>1, <2>2 DEF ReceiptInv, ProofOf
  <1>9. RecordsKept
    BY <1>a DEF RecordsKept, ReceiptInv, Finalizing, WorkInv, Written,
           Unwritten, Installed
  <1>10. SealInv' /\ AssignmentFollowsSchedule'
    BY <1>a, <1>9, AcceptanceKept DEF SealInv, AssignmentFollowsSchedule,
           WorkInv, Unwritten, Written, Running, Holding, Uninstalled,
           Installed, Recovering, ProofOf
  <1> QED
    BY <1>1, <1>2, <1>3, <1>4, <1>5, <1>6, <1>7, <1>8, <1>9, <1>10

\* CreateReceipt: the receipt's name is taken by one call.
LEMMA CreateReceiptPreserves ==
  ASSUME IInv, NEW p \in Procs, CreateReceipt(p)
  PROVE  IInv' /\ RecordsKept
  <1> USE ValuesAssumption
      DEF IInv, CreateReceipt, Goto, disk, local, Whole, TypeOK,
          CallTyped, DiskTyped, Exclusive, Unproved
  <1>a. CallTyped /\ DiskTyped
    BY CallFacts, DiskFacts
  <1>b. Exclusive
    BY HolderFacts
  <1>1. TypeOK'
    BY DEF Labels, Running, Uninstalled, Installed, Recovering
  <1>2. LeaseInv'
    BY DEF LeaseInv, Lease, LeaseStates, Running, Holding, Uninstalled,
           Installed, Recovering
  <1>3. IdInv' /\ CommitInv' /\ ScienceHasIntent'
    BY DEF IdInv, CommitInv, ScienceHasIntent
  <1>4. WorkInv'
    BY <1>a DEF WorkInv, Unwritten, Written, Installed
  <1>5. FreshInv'
    BY DEF FreshInv, Unwritten
  <1>6. StageInv'
    BY <1>a, <1>b DEF StageInv, WorkInv, Unwritten, Written, Installed, Placed,
           Proved
  <1>7. ReceiptInv'
    <2>1. lease[p].txn \in Txns
      BY <1>a
    <2>2. \A q \in Procs : pc[q] \in Finalizing => lease[q].txn # lease[p].txn
      BY ValuesAssumption DEF ReceiptInv
    <2>3. \A q \in Procs : pc'[q] \in Finalizing => q = p \/ pc[q] \in Finalizing
      OBVIOUS
    <2> QED
      BY <2>1, <2>2, <2>3 DEF ReceiptInv, ProofOf
  <1>8. RecordsKept
    BY <1>a DEF RecordsKept, ReceiptInv, Finalizing, WorkInv, Written,
           Unwritten, Installed
  <1>9. SealInv' /\ AssignmentFollowsSchedule'
    BY <1>a, <1>8, AcceptanceKept DEF SealInv, AssignmentFollowsSchedule,
           WorkInv, Unwritten, Written, Running, Holding, Uninstalled,
           Installed, Recovering, ProofOf
  <1> QED
    BY <1>1, <1>2, <1>3, <1>4, <1>5, <1>6, <1>7, <1>8, <1>9

\* FinishReceipt: the receipt embeds the present intent and its proof.
LEMMA FinishReceiptPreserves ==
  ASSUME IInv, NEW p \in Procs, FinishReceipt(p)
  PROVE  IInv' /\ RecordsKept
  <1> USE ValuesAssumption
      DEF IInv, FinishReceipt, Unlocked, Goto, disk, local, Whole, TypeOK,
          CallTyped, DiskTyped, Exclusive, Unproved
  <1>a. CallTyped /\ DiskTyped
    BY CallFacts, DiskFacts
  <1>b. Exclusive
    BY HolderFacts
  <1>1. TypeOK'
    BY <1>a DEF Written, Installed, Labels
  <1>2. LeaseInv'
    BY DEF LeaseInv, Lease, LeaseStates, Running, Holding, Uninstalled,
           Installed, Recovering
  <1>3. IdInv' /\ CommitInv' /\ ScienceHasIntent'
    BY DEF IdInv, CommitInv, ScienceHasIntent
  <1>4. WorkInv'
    BY <1>a DEF WorkInv, Unwritten, Written, Installed
  <1>5. FreshInv'
    BY DEF FreshInv, Unwritten
  <1>6. StageInv'
    <2>1. \A q \in Procs : q # p => pc'[q] = pc[q]
      OBVIOUS
    <2>2. UNCHANGED <<intent, commits, science, aborts, lease, out, work>>
      BY SMTT(30)
    <2> QED
      BY <2>1, <2>2 DEF StageInv, Written, Installed, Placed, Proved, ProofOf
  <1>7. ReceiptInv'
    <2>1. lease[p].txn \in Txns /\ work[p] = intent[lease[p].txn]
          /\ ProofOf(work[p]) \in commits
      BY <1>a DEF StageInv, Written, Installed, Proved
    <2>2. \A q \in Procs : pc'[q] \in Finalizing =>
            q # p /\ pc[q] \in Finalizing /\ lease[q].txn # lease[p].txn
      BY DEF ReceiptInv, Finalizing
    <2> QED
      BY <2>1, <2>2, SMTT(40) DEF ReceiptInv, ProofOf
  <1>8. RecordsKept
    BY <1>a DEF RecordsKept, ReceiptInv, Finalizing, WorkInv, Written,
           Unwritten, Installed
  <1>9. SealInv' /\ AssignmentFollowsSchedule'
    BY <1>a, <1>8, AcceptanceKept DEF SealInv, AssignmentFollowsSchedule,
           WorkInv, Unwritten, Written, Running, Holding, Uninstalled,
           Installed, Recovering, ProofOf
  <1> QED
    BY <1>1, <1>2, <1>3, <1>4, <1>5, <1>6, <1>7, <1>8, <1>9

\* Recover: a recovery finds the present intent proved and installed.
LEMMA RecoverPreserves ==
  ASSUME IInv, NEW p \in Procs, Recover(p)
  PROVE  IInv' /\ RecordsKept
  <1> USE ValuesAssumption
      DEF IInv, Recover, ValidIntent, MatchingProofs, Goto, disk, local,
          Whole, TypeOK,
          CallTyped, DiskTyped, Exclusive, Unproved
  <1>a. CallTyped /\ DiskTyped
    BY CallFacts, DiskFacts
  <1>b. Exclusive
    BY HolderFacts
  <1>c. Unproved
    BY HolderFacts
  <1>1. TypeOK'
    <2>1. intent[lease[p].txn] \in Intent
      BY <1>a
    <2> QED
      BY <2>1 DEF Labels, Running, Recovering
  <1>2. LeaseInv'
    BY DEF LeaseInv, Lease, LeaseStates, Running, Holding, Uninstalled,
           Installed, Recovering
  <1>3. IdInv' /\ CommitInv' /\ ScienceHasIntent'
    BY DEF IdInv, CommitInv, ScienceHasIntent
  <1>4. WorkInv'
    BY <1>a DEF WorkInv, Unwritten, Written, Installed, IdInv, Intent
  <1>5. FreshInv'
    BY <1>a DEF FreshInv, WorkInv, IdInv, StageInv, Unwritten, Written,
           Installed, Intent, Ids
  <1>6. StageInv'
    <2>1. PICK c \in commits : c.intent = intent[lease[p].txn].id /\ c.lease = lease[p]
      OBVIOUS
    <2>2. c = ProofOf(intent[lease[p].txn]) /\ aborts[c.intent] = None
          /\ science[c.path] = [txn |-> c.lease.txn, digest |-> c.digest]
      BY <2>1 DEF CommitInv
    <2>3. c.path = out[p] /\ c.digest = intent[lease[p].txn].digest
      BY <2>2 DEF ProofOf
    <2>4. ProofOf(work'[p]) \in commits /\ aborts[work'[p].id] = None
          /\ science[out[p]] = [txn |-> lease[p].txn, digest |-> work'[p].digest]
      BY <2>1, <2>2, <2>3
    <2>5. ASSUME NEW q \in Procs, q # p PROVE StageInv!(q)'
      BY <2>5 DEF StageInv, Written, Placed, Proved, Installed, ProofOf
    <2>6. StageInv!(p)'
      BY <2>4 DEF StageInv, Written, Placed, Proved, Installed, ProofOf
    <2> QED
      BY <2>5, <2>6 DEF StageInv
  <1>7. ReceiptInv'
    BY <1>a, <1>b, <1>c DEF ReceiptInv, StageInv, CommitInv, WorkInv, IdInv,
           Finalizing, Proved, Written, Installed, ProofOf, Intent, Receipt,
           Proof
  <1>8. RecordsKept
    BY <1>a DEF RecordsKept, ReceiptInv, Finalizing, WorkInv, Written,
           Unwritten, Installed
  <1>9. SealInv' /\ AssignmentFollowsSchedule'
    BY <1>a, <1>8, AcceptanceKept DEF SealInv, AssignmentFollowsSchedule,
           WorkInv, Unwritten, Written, Running, Holding, Uninstalled,
           Installed, Recovering, ProofOf
  <1> QED
    BY <1>1, <1>2, <1>3, <1>4, <1>5, <1>6, <1>7, <1>8, <1>9

\* FinishRecover: only one proof matches the recovered intent.
LEMMA FinishRecoverPreserves ==
  ASSUME IInv, NEW p \in Procs, FinishRecover(p)
  PROVE  IInv' /\ RecordsKept
  <1> USE ValuesAssumption
      DEF IInv, FinishRecover, Unlocked, Aborted, MatchingProofs, Goto, disk,
          local, Whole, TypeOK,
          CallTyped, DiskTyped, Exclusive, Unproved
  <1>a. CallTyped /\ DiskTyped
    BY CallFacts, DiskFacts
  <1>b. Exclusive
    BY HolderFacts
  <1>1. TypeOK'
    <2>1. MatchingProofs(work[p].id) # {}
      <3>1. ProofOf(work[p]) \in commits /\ ProofOf(work[p]).intent = work[p].id
        BY DEF StageInv, Proved, ProofOf
      <3> QED
        BY <3>1
    <2>2. (CHOOSE c \in MatchingProofs(work[p].id) : TRUE) \in Proof
      BY <2>1
    <2>3. receipt' \in [Txns -> Receipt \cup {None, Torn}]
      BY <1>a, <2>2 DEF Written, Receipt
    <2>4. lock' \in [Txns -> Procs \cup {None}] /\ lstate' \in [Procs -> LeaseStates]
          /\ pc' \in [Procs -> Labels]
      BY DEF Labels, LeaseStates
    <2> QED
      BY <2>3, <2>4
  <1>2. LeaseInv'
    BY DEF LeaseInv, Lease, LeaseStates, Running, Holding, Uninstalled,
           Installed, Recovering
  <1>3. IdInv' /\ CommitInv' /\ ScienceHasIntent'
    BY DEF IdInv, CommitInv, ScienceHasIntent
  <1>4. WorkInv'
    BY <1>a DEF WorkInv, Unwritten, Written, Installed
  <1>5. FreshInv'
    BY DEF FreshInv, Unwritten
  <1>6. StageInv'
    <2>1. \A q \in Procs : q # p => pc'[q] = pc[q]
      OBVIOUS
    <2>2. UNCHANGED <<intent, commits, science, aborts, lease, out, work>>
      BY SMTT(30)
    <2> QED
      BY <2>1, <2>2 DEF StageInv, Written, Installed, Placed, Proved, ProofOf
  <1>7. ReceiptInv'
    <2>1. lease[p].txn \in Txns /\ work[p] = intent[lease[p].txn] /\ Whole(work[p])
          /\ ProofOf(work[p]) \in commits /\ ProofOf(work[p]).intent = work[p].id
      BY <1>a DEF StageInv, Written, Proved, ProofOf
    <2>2. ASSUME NEW c \in commits, c.intent = work[p].id PROVE c = ProofOf(work[p])
      <3>1. c = ProofOf(intent[c.lease.txn]) /\ Whole(intent[c.lease.txn])
        BY DEF CommitInv
      <3>2. c.intent = intent[c.lease.txn].id
        BY <3>1 DEF ProofOf
      <3>3. c.lease.txn = lease[p].txn
        <4>1. c.lease.txn \in Txns
          BY <1>a
        <4>2. intent[c.lease.txn].id = intent[lease[p].txn].id
          BY <2>1, <2>2, <3>2
        <4> QED
          BY <2>1, <3>1, <4>1, <4>2 DEF IdInv
      <3> QED
        BY <3>1, <3>3, <2>1
    <2>3. (CHOOSE c \in MatchingProofs(work[p].id) : TRUE) = ProofOf(work[p])
      BY <2>1, <2>2
    <2>4. \A q \in Procs : pc'[q] \in Finalizing =>
            q # p /\ pc[q] \in Finalizing /\ lease[q].txn # lease[p].txn
      BY DEF ReceiptInv, Finalizing
    <2>5. receipt' = [receipt EXCEPT ![lease[p].txn] =
                        [intent |-> work[p], proof |-> ProofOf(work[p])]]
      BY <2>3
    <2> HIDE DEF FinishRecover
    <2>6. UNCHANGED <<intent, commits, lease>>
      BY DEF FinishRecover
    <2> QED
      BY <2>1, <2>4, <2>5, <2>6, SMTT(40) DEF ReceiptInv, ProofOf
  <1>8. RecordsKept
    BY <1>a DEF RecordsKept, ReceiptInv, Finalizing, WorkInv, Written,
           Unwritten, Installed
  <1>9. SealInv' /\ AssignmentFollowsSchedule'
    BY <1>a, <1>8, AcceptanceKept DEF SealInv, AssignmentFollowsSchedule,
           WorkInv, Unwritten, Written, Running, Holding, Uninstalled,
           Installed, Recovering, ProofOf
  <1> QED
    BY <1>1, <1>2, <1>3, <1>4, <1>5, <1>6, <1>7, <1>8, <1>9

\* Fail: a handler removes only the file the call was writing.
LEMMA FailPreserves ==
  ASSUME IInv, NEW p \in Procs, Fail(p)
  PROVE  IInv' /\ RecordsKept
  <1> USE ValuesAssumption
      DEF IInv, Fail, DropTorn, Unlocked, Aborted, Goto, disk, local, Whole,
          TypeOK,
          CallTyped, DiskTyped, Exclusive, Unproved
  <1>a. CallTyped /\ DiskTyped
    BY CallFacts, DiskFacts
  <1>b. Exclusive
    BY HolderFacts
  <1>c. Unproved
    BY HolderFacts
  <1>1. TypeOK'
    BY DEF Labels, LeaseStates
  <1>2. LeaseInv'
    BY DEF LeaseInv, Lease, LeaseStates, Running, Holding, Uninstalled,
           Installed, Recovering
  <1>3. IdInv'
    BY <1>a DEF IdInv, StageInv, FreshInv, WorkInv, Unwritten, Ids, Intent
  <1>4. WorkInv'
    BY <1>a DEF WorkInv, Unwritten, Written, Installed
  <1>5. FreshInv'
    BY <1>a DEF FreshInv, WorkInv, IdInv, StageInv, Unwritten, Written,
           Installed, Intent, Ids
  <1>6. StageInv'
    BY <1>a, <1>b, <1>c DEF StageInv, WorkInv, IdInv, FreshInv, CommitInv,
           ScienceHasIntent, Unwritten, Written, Running, Holding, Uninstalled,
           Installed, Recovering, Placed, Proved, ProofOf, Intent, Lease,
           Proof, Science
  <1>7. CommitInv'
    <2>1. ASSUME NEW c \in commits
          PROVE  intent'[c.lease.txn] = intent[c.lease.txn]
                 /\ aborts'[c.intent] = aborts[c.intent]
      <3>1. Whole(intent[c.lease.txn]) /\ c.lease.txn \in Txns /\ c.intent \in Ids
        BY <1>a DEF CommitInv
      <3>2. CASE pc[p] = "intent_record"
        BY <1>c, <3>1, <3>2
      <3>4. CASE pc[p] = "abort_record"
        <4>1. c.intent # intent[lease[p].txn].id
          BY <3>4 DEF StageInv
        <4> QED
          BY <3>1, <3>4, <4>1
      <3>3. CASE pc[p] \notin {"intent_record", "abort_record"}
        BY <3>3
      <3> QED
        BY <3>2, <3>3, <3>4
    <2> QED
      BY <2>1, CommitKept DEF ProofsKept
  <1>8. ReceiptInv'
    BY <1>a, <1>b, <1>c DEF ReceiptInv, StageInv, CommitInv, WorkInv, IdInv,
           Finalizing, Proved, Written, Installed, ProofOf, Intent, Receipt,
           Proof
  <1>9. ScienceHasIntent'
    <2>1. ASSUME NEW x \in Paths, science[x] # None
          PROVE  science[x].txn \in Txns
                 /\ (pc[p] = "intent_record" => science[x].txn # lease[p].txn)
      <3>1. science[x].txn \in Txns
        BY <2>1 DEF Science
      <3>2. pc[p] = "intent_record" => science[x].txn # lease[p].txn
        <4>1. Whole(intent[science[x].txn])
          BY <2>1 DEF ScienceHasIntent
        <4>2. pc[p] = "intent_record" => intent[lease[p].txn] = Torn
          BY DEF StageInv
        <4> QED
          BY <4>1, <4>2
      <3> QED
        BY <3>1, <3>2
    <2> QED
      BY <2>1, AttributionKept DEF ScienceKept
  <1>10. RecordsKept
    BY <1>a DEF RecordsKept, ReceiptInv, Finalizing, WorkInv, Written,
           Unwritten, Installed
  <1>11. SealInv' /\ AssignmentFollowsSchedule'
    BY <1>a, <1>10, AcceptanceKept DEF SealInv, AssignmentFollowsSchedule,
           WorkInv, Unwritten, Written, Running, Holding, Uninstalled,
           Installed, Recovering, ProofOf
  <1> QED
    BY <1>1, <1>2, <1>3, <1>4, <1>5, <1>6, <1>7, <1>8, <1>9, <1>10, <1>11

\* Forget: a process that ends or is killed leaves the disk alone.
LEMMA ForgetPreserves ==
  ASSUME IInv, NEW p \in Procs, Forget(p)
  PROVE  IInv' /\ RecordsKept
  <1> USE ValuesAssumption
      DEF IInv, Forget, Unlocked, Goto, disk, local, Whole, TypeOK,
          CallTyped, DiskTyped, Exclusive, Unproved
  <1>a. CallTyped /\ DiskTyped
    BY CallFacts, DiskFacts
  <1>b. Exclusive
    BY HolderFacts
  <1>1. TypeOK'
    BY DEF Labels, LeaseStates, Phases
  <1>2. LeaseInv'
    BY DEF LeaseInv, Lease, LeaseStates, Running, Holding, Uninstalled,
           Installed, Recovering
  <1>3. IdInv' /\ CommitInv' /\ ScienceHasIntent' /\ RecordsKept
    BY DEF IdInv, CommitInv, ScienceHasIntent, RecordsKept
  <1>4. WorkInv'
    BY <1>a DEF WorkInv, Unwritten, Written, Installed, IdInv, Intent
  <1>5. FreshInv'
    BY <1>a DEF FreshInv, WorkInv, IdInv, StageInv, Unwritten, Written,
           Installed, Intent, Ids
  <1>6. StageInv'
    BY <1>a, <1>b DEF StageInv, WorkInv, Unwritten, Written, Installed, Placed,
           Proved
  <1>7. ReceiptInv'
    BY DEF ReceiptInv, Finalizing
  <1>8. SealInv' /\ AssignmentFollowsSchedule'
    BY <1>a, <1>3, AcceptanceKept DEF SealInv, AssignmentFollowsSchedule,
           WorkInv, Unwritten, Written, Running, Holding, Uninstalled,
           Installed, Recovering, ProofOf
  <1> QED
    BY <1>1, <1>2, <1>3, <1>4, <1>5, <1>6, <1>7, <1>8

---------------------------------------------------------------------------
\* Every step of the specification preserves the invariant and keeps the
\* complete records.
LEMMA NextPreserves == ASSUME IInv, [Next]_vars PROVE IInv' /\ RecordsKept
  <1>1. CASE UNCHANGED vars
    BY <1>1 DEF vars, disk, local, IInv, TypeOK, LeaseInv, IdInv, WorkInv,
           FreshInv, StageInv, CommitInv, ReceiptInv, SealInv, Whole, ProofOf,
           ScienceHasIntent, AssignmentFollowsSchedule, PrefixAccepted, RecordsKept
  <1>2. ASSUME NEW p \in Procs, NEW t \in Txns, NEW m \in Manifests,
               NEW s \in Digests \cup {None}, Claim(p, t, m, s)
        PROVE  IInv' /\ RecordsKept
    BY <1>2, ClaimPreserves
  <1>3. ASSUME NEW p \in Procs, NEW x \in Paths, Enter(p, x)
        PROVE  IInv' /\ RecordsKept
    BY <1>3, EnterPreserves
  <1>4. ASSUME NEW p \in Procs, Step(p)
        PROVE  IInv' /\ RecordsKept
    BY <1>3, <1>4, PreparePreserves, EndPreserves, CheckWindowPreserves,
       ReplaceUncommittedIntentPreserves, FinishAbortRecordPreserves,
       UnlinkIntentPreserves, CreateIntentPreserves, FinishIntentPreserves,
       InstallPreserves, CommitPreserves, FinishCommitPreserves,
       CreateReceiptPreserves, FinishReceiptPreserves, RecoverPreserves,
       FinishRecoverPreserves, FailPreserves DEF Step
  <1>5. ASSUME NEW p \in Procs, Tick(p) \/ Exit(p) \/ Crash(p)
        PROVE  IInv' /\ RecordsKept
    BY <1>5, TickPreserves, ForgetPreserves DEF Exit, Crash
  <1> QED
    BY <1>1, <1>2, <1>3, <1>4, <1>5 DEF Next

\* The invariant holds in every reachable state.
THEOREM Invariant == Spec => []IInv
  BY InitInv, NextPreserves, PTL DEF Spec

\* Every file and every process variable keeps its type, for any constants.
THEOREM TypeCorrect == Spec => []TypeOK
  <1>1. IInv => TypeOK
    BY DEF IInv
  <1> QED
    BY <1>1, Invariant, PTL

\* storage.py's acceptance marker never lies: a complete receipt has its
\* stored proof, its intent and its installed science behind it.
THEOREM ReceiptsAreBacked == Spec => []AcceptedIsCommitted
  <1>1. IInv => AcceptedIsCommitted
    <2> SUFFICES ASSUME IInv, NEW t \in Txns, receipt[t] \notin {None, Torn}
                 PROVE  AcceptedIsCommitted!(t)!2
      BY DEF AcceptedIsCommitted
    <2>1. /\ receipt[t].intent = intent[t]
          /\ receipt[t].proof = ProofOf(intent[t])
          /\ receipt[t].proof \in commits
          /\ receipt[t] \in Receipt
      BY DEF IInv, TypeOK, ReceiptInv, Whole
    <2>2. intent[t].lease.txn = t
      BY <2>1, ValuesAssumption DEF IInv, IdInv, Whole, Receipt
    <2>3. science[receipt[t].proof.path] =
            [txn |-> receipt[t].proof.lease.txn, digest |-> receipt[t].proof.digest]
      BY <2>1 DEF IInv, CommitInv
    <2> QED
      BY <2>1, <2>2, <2>3 DEF ProofOf
  <1> QED
    BY <1>1, Invariant, PTL

\* _replace_uncommitted_intent never aborts an intent that was or will be
\* committed.
THEOREM NoAbortedCommit == Spec => []TerminalExclusive
  <1>1. IInv => TerminalExclusive
    <2> SUFFICES ASSUME IInv, NEW c \in commits PROVE aborts[c.intent] # "whole"
      BY DEF TerminalExclusive
    <2>1. aborts[c.intent] = None
      BY DEF IInv, CommitInv
    <2> QED
      BY <2>1, ValuesAssumption
  <1> QED
    BY <1>1, Invariant, PTL

\* A transaction is committed at most once.
THEOREM CommitsOnce == Spec => []OneCommitPerTransaction
  <1>1. IInv => OneCommitPerTransaction
    BY DEF IInv, CommitInv, OneCommitPerTransaction
  <1> QED
    BY <1>1, Invariant, PTL

\* The intent on disk announces every installed scientific file.
THEOREM ScienceIsAttributed == Spec => []ScienceHasIntent
  <1>1. IInv => ScienceHasIntent
    BY DEF IInv
  <1> QED
    BY <1>1, Invariant, PTL

\* An assignment ledger is committed only after its schedule was accepted.
THEOREM StudyOrder == Spec => []AssignmentFollowsSchedule
  <1>1. IInv => AssignmentFollowsSchedule
    BY DEF IInv
  <1> QED
    BY <1>1, Invariant, PTL

\* No step removes or rewrites a complete receipt, science or a proof.
THEOREM RecordsPermanent == Spec => RecordsArePermanent
  <1>1. IInv /\ [Next]_vars => [RecordsKept]_vars
    BY NextPreserves
  <1> QED
    BY <1>1, Invariant, PTL DEF Spec, RecordsArePermanent

\* A proof is added only by the last write of a commit, and a call comes to
\* commit only by installing science at a free path.
LEMMA NewProofs ==
  ASSUME IInv, NEW p \in Procs,
         \/ \E t \in Txns, m \in Manifests, s \in Digests \cup {None} :
              Claim(p, t, m, s)
         \/ \E x \in Paths : Enter(p, x)
         \/ Step(p) \/ Tick(p) \/ Exit(p) \/ Crash(p)
  PROVE  /\ \/ commits' = commits
            \/ pc[p] = "commit_record" /\ commits' = commits \cup {ProofOf(work[p])}
         /\ \A q \in Procs : pc'[q] \in {"commit", "commit_record"} =>
              /\ out'[q] = out[q]
              /\ \/ pc[q] \in {"commit", "commit_record"}
                 \/ pc[q] = "install" /\ science[out[q]] = None
  <1> DEFINE Goal ==
        /\ \/ commits' = commits
           \/ pc[p] = "commit_record" /\ commits' = commits \cup {ProofOf(work[p])}
        /\ \A q \in Procs : pc'[q] \in {"commit", "commit_record"} =>
             /\ out'[q] = out[q]
             /\ \/ pc[q] \in {"commit", "commit_record"}
                \/ pc[q] = "install" /\ science[out[q]] = None
  <1> SUFFICES Goal
    OBVIOUS
  <1> USE DEF IInv, TypeOK, Goto, local, disk
  <1>1. ASSUME NEW t, NEW m, NEW s, Claim(p, t, m, s) PROVE Goal
    BY <1>1 DEF Claim
  <1>2. ASSUME NEW x, Enter(p, x) PROVE Goal
    BY <1>2 DEF Enter
  <1>3. CASE Tick(p) \/ Exit(p) \/ Crash(p)
    BY <1>3 DEF Tick, Exit, Crash, Forget
  <1>4. ASSUME NEW d, Prepare(p, d) PROVE Goal
    BY <1>4 DEF Prepare
  <1>5. CASE End(p) \/ CheckWindow(p)
    BY <1>5 DEF End, CheckWindow
  <1>6. CASE ReplaceUncommittedIntent(p) \/ FinishAbortRecord(p) \/ UnlinkIntent(p)
    BY <1>6 DEF ReplaceUncommittedIntent, FinishAbortRecord, UnlinkIntent
  <1>7. CASE CreateIntent(p) \/ FinishIntent(p) \/ Install(p)
    BY <1>7 DEF CreateIntent, FinishIntent, Install
  <1>8. CASE Commit(p) \/ FinishCommit(p)
    BY <1>8 DEF Commit, FinishCommit
  <1>9. CASE CreateReceipt(p) \/ FinishReceipt(p)
    BY <1>9 DEF CreateReceipt, FinishReceipt
  <1>10. CASE Recover(p) \/ FinishRecover(p)
    BY <1>10 DEF Recover, FinishRecover
  <1>11. CASE Fail(p)
    BY <1>11 DEF Fail
  <1> HIDE DEF Goal, IInv, TypeOK, Goto, local, disk
  <1> QED
    BY <1>1, <1>2, <1>3, <1>4, <1>5, <1>6, <1>7, <1>8, <1>9, <1>10, <1>11
       DEF Step

\* Science whose installing call ended without a proof never gets one.
THEOREM QuarantineHolds == Spec => QuarantineIsPermanent
  <1>1. ASSUME IInv, [Next]_vars, NEW x \in Paths, Quarantined(x)
        PROVE  Quarantined(x)'
    <2>1. CASE UNCHANGED vars
      BY <1>1, <2>1 DEF vars, disk, local, Quarantined
    <2>2. CASE Next
      <3>1. science'[x] # None
        BY <1>1, NextPreserves DEF RecordsKept, Quarantined
      <3>2. PICK p \in Procs :
              \/ \E t \in Txns, m \in Manifests, s \in Digests \cup {None} :
                   Claim(p, t, m, s)
              \/ \E y \in Paths : Enter(p, y)
              \/ Step(p) \/ Tick(p) \/ Exit(p) \/ Crash(p)
        BY <2>2 DEF Next
      <3>3. /\ \/ commits' = commits
               \/ pc[p] = "commit_record" /\ commits' = commits \cup {ProofOf(work[p])}
            /\ \A q \in Procs : pc'[q] \in {"commit", "commit_record"} =>
                 /\ out'[q] = out[q]
                 /\ \/ pc[q] \in {"commit", "commit_record"}
                    \/ pc[q] = "install" /\ science[out[q]] = None
        BY <1>1, <3>2, NewProofs
      <3>4. \A q \in Procs : pc'[q] \in {"commit", "commit_record"} => out'[q] # x
        BY <1>1, <3>3 DEF Quarantined
      <3>5. ASSUME NEW c \in commits' PROVE c.path # x
        <4>1. CASE c \in commits
          BY <1>1, <4>1 DEF Quarantined
        <4>2. CASE c \notin commits
          <5>1. pc[p] = "commit_record" /\ c = ProofOf(work[p])
            BY <3>3, <4>2
          <5>2. work[p].path = out[p] /\ out[p] # x
            BY <1>1, <5>1 DEF IInv, WorkInv, Written, Installed, Quarantined
          <5> QED
            BY <5>1, <5>2 DEF ProofOf
        <4> QED
          BY <4>1, <4>2
      <3> QED
        BY <3>1, <3>4, <3>5 DEF Quarantined
    <2> QED
      BY <1>1, <2>1, <2>2
  <1>2. IInv /\ [Next]_vars =>
          [\A x \in Paths : Quarantined(x) => Quarantined(x)']_vars
    BY <1>1
  <1> QED
    BY <1>2, Invariant, PTL DEF Spec, QuarantineIsPermanent
===========================================================================
