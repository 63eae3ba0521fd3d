------------------------- MODULE PublicationProofs -------------------------
(***************************************************************************)
(* Proofs about run-root publication (BoundPublication), for any finite    *)
(* sets of transactions, peers and targets.                                *)
(*                                                                         *)
(* LocalInv says where a transaction may have a name at each of its steps: *)
(* a target being rolled back has one quarantine name, all others none.    *)
(* From it follow, each with an invariant of its own, that no peer's file  *)
(* is destroyed, that a commit vouches for what it published, and that the *)
(* report of a rollback is exact.                                          *)
(***************************************************************************)
EXTENDS BoundPublication, FiniteSetTheorems, SequenceTheorems, TLAPS

-----------------------------------------------------------------------------
(* The invariants.                                                         *)

\* Who works on the run root holds its flock.
LockInv == \A p \in Procs : pc[p] \in Active => lock = p

\* The published targets of a transaction, and the one it is rolling back.
Names(p) == {owned[p][i] : i \in 1 .. Len(owned[p])}
Resolving(p, t) == pc[p] \in {"rb_resolve", "rb_unlink"} /\ t = Current(p)

Distinct(s) == \A i, j \in 1 .. Len(s) : i # j => s[i] # s[j]

\* A file stays under the target name it was made for.
TargetInv ==
  /\ \A d \in Dirs, t \in Targets : entry[d][t] # None => entry[d][t][2] = t
  /\ \A q \in Procs, t \in Targets : quar[q][t] # None => quar[q][t][2] = t

\* The steps of a rollback after its temporary, and after its targets.
Removing == {"rb_open", "rb_move", "rb_resolve", "rb_unlink"}
Emptying == {"rb_dir", "rb_dir_move", "rb_dir_resolve", "rb_rmdir", "close"}

LocalInv(p) ==
  /\ pc[p] \in {"write", "link", "unlink"} => tmp[p] # None /\ bound[p] # None
  /\ pc[p] \in {"write", "link"} => tmp[p].target \notin Names(p)
  /\ owned[p] # <<>> => bound[p] # None
  /\ Distinct(owned[p])
  /\ pc[p] = "open_dir" => bound[p] = None /\ made[p] = Unknown
  /\ pc[p] \in {"rb_move", "rb_resolve", "rb_unlink"} => owned[p] # <<>>
  /\ pc[p] \in Emptying => owned[p] = <<>>
  /\ pc[p] \in {"rb_dir_move", "rb_dir_resolve", "rb_rmdir"} => made[p] \notin {None, Unknown}
  /\ pc[p] = "rb_dir_resolve" => qdir[p] # None
  /\ pc[p] = "rb_rmdir" => qdir[p] = made[p]
  /\ \A t \in Names(p) : quar[p][t] # None => Resolving(p, t)
  /\ pc[p] \in Publishing \cup {"rb_temp"} => \A t \in Targets : quar[p][t] = None
  /\ pc[p] = "rb_resolve" => quar[p][Current(p)] # None
  /\ pc[p] = "rb_unlink" => quar[p][Current(p)] = <<p, Current(p)>>

\* A transaction that has not begun has left no trace.
WaitInv(p) ==
  pc[p] = "idle" =>
    /\ made[p] = None /\ tmp[p] = None /\ owned[p] = <<>> /\ checked[p] = 0
    /\ left[p] = {} /\ bound[p] = None
    /\ temp[p] = None /\ qtemp[p] = None /\ qdir[p] = None
    /\ \A t \in Targets : quar[p][t] = None /\ entry[p][t] = None
    /\ sources # p
    /\ \A q \in Procs : bound[q] # p /\ qdir[q] # p

\* Without a directory to publish into it has no file either.
FreshInv(p) ==
  bound[p] = None => \A t \in Targets :
    /\ <<p, t>> \notin aliased
    /\ \A d \in Dirs : entry[d][t] # <<p, t>>
    /\ \A q \in Procs : quar[q][t] # <<p, t>>

BaseInv ==
  /\ TypeOK /\ LockInv /\ TargetInv
  /\ \A p \in Procs : LocalInv(p)

TraceInv == \A p \in Procs : WaitInv(p) /\ FreshInv(p)

\* A file placed by a peer has a name.
Named(f) ==
  \/ f \in aliased
  \/ \E d \in Dirs, t \in Targets : entry[d][t] = f
  \/ \E q \in Procs, t \in Targets : quar[q][t] = f
PlacedInv == placed \subseteq Peers \X Targets /\ \A f \in placed : Named(f)

\* What transaction p has verified stays as it is, and no transaction that
\* came later can reach it: it has neither made the directory nor published
\* under that name in it.
Kept(p, t) ==
  /\ sources = bound[p]
  /\ Here(p, t) = <<p, t>>
  /\ <<p, t>> \notin edited
  /\ \A q \in Procs \ {p} : pc[q] \in Active =>
       made[q] = None /\ (t \in Names(q) => bound[q] # bound[p])
WholeInv(p) ==
  /\ pc[p] \in Publishing \ {"verify"} => checked[p] = 0
  /\ pc[p] \in Committing =>
    /\ checked[p] <= Len(owned[p]) /\ bound[p] # None
    /\ pc[p] \in {"committed", "returned"} => checked[p] = Len(owned[p])
    /\ pc[p] = "verify" => sources = bound[p] \/ \A t \in Targets : <<p, t>> \in touched
    /\ \A i \in 1 .. checked[p] : <<p, owned[p][i]>> \notin touched => Kept(p, owned[p][i])

\* Every name is accounted for: it is still to be rolled back or reported.
TempReported(p) ==
  /\ pc[p] \in Publishing \cup {"rb_temp"} =>
       /\ temp[p] # None => tmp[p] # None /\ tmp[p].target = temp[p]
       /\ qtemp[p] = None
  /\ pc[p] \in Removing \cup Emptying =>
       /\ temp[p] # None => At("temp", temp[p]) \in left[p]
       /\ qtemp[p] # None => At("temp_quarantine", qtemp[p]) \in left[p]
QuarReported(p, t) ==
  quar[p][t] # None => Resolving(p, t) \/ At("quarantine", t) \in left[p]
NameReported(p, t) ==
  bound[p] # None /\ Here(p, t) = <<p, t>> /\ <<p, t>> \notin back =>
    \/ t \in Names(p) /\ ~Resolving(p, t)
    \/ At("target", t) \in left[p]
ReportInv(p) ==
  pc[p] \in Active =>
    /\ TempReported(p)
    /\ \A t \in Targets : QuarReported(p, t) /\ NameReported(p, t)

\* While no peer has acted, the files of an active transaction are in its own
\* directory or its own quarantine, and the directory it made is its own.
Before == Publishing \cup Removing \cup {"committed", "rb_temp", "rb_dir", "rb_dir_move"}
AloneInv(p) ==
  pc[p] \in Active =>
    /\ \A q \in Procs \ {p} : bound[q] # p
    /\ \A d \in Dirs, t \in Targets : entry[d][t] = <<p, t>> => d = bound[p]
    /\ \A q \in Procs, t \in Targets : quar[q][t] = <<p, t>> => q = p
    /\ pc[p] = "open_dir" => sources = p
    /\ made[p] \in {None, Unknown, p}
    /\ made[p] = p /\ pc[p] \in Before => sources = p
    /\ \A t \in Targets :
         /\ entry[p][t] # None => bound[p] = p /\ entry[p][t] = <<p, t>>
         /\ bound[p] = p /\ quar[p][t] # None => quar[p][t] = <<p, t>>

\* If no call of its rollback failed either, nothing is reported: every target
\* is under its name until it is moved, and only own things are moved.
CleanInv(p) ==
  pc[p] \in Active /\ p \notin faults =>
    /\ left[p] = {}
    /\ \A t \in Names(p) : Resolving(p, t) \/ Here(p, t) = <<p, t>>
    /\ pc[p] = "rb_resolve" => quar[p][Current(p)] = <<p, Current(p)>>
    /\ pc[p] = "rb_dir_resolve" => qdir[p] = p

UndisturbedInv ==
  idle = Peers =>
    /\ aliased = {} /\ edited = {} /\ back = {}
    /\ \A p \in Procs : AloneInv(p) /\ CleanInv(p)

IInv ==
  /\ BaseInv /\ TraceInv /\ PlacedInv
  /\ \A p \in Procs : WholeInv(p) /\ ReportInv(p)
  /\ UndisturbedInv

-----------------------------------------------------------------------------
(* Shapes: what the steps do to one transaction and to all others.         *)

LEMMA Shapes ==
  ASSUME TypeOK
  PROVE  /\ lock \in Procs \cup {None} /\ sources \in Dirs \cup {None}
         /\ entry \in [Dirs -> [Targets -> File \cup {None}]]
         /\ temp \in [Procs -> Targets \cup {None}]
         /\ qtemp \in [Procs -> Targets \cup {None}]
         /\ quar \in [Procs -> [Targets -> File \cup {None}]]
         /\ qdir \in [Procs -> Dirs \cup {None}]
         /\ pc \in [Procs -> Labels]
         /\ bound \in [Procs -> Dirs \cup {None}]
         /\ made \in [Procs -> Dirs \cup {None, Unknown}]
         /\ tmp \in [Procs -> Temporary \cup {None}]
         /\ held \in [Procs -> File \cup Dirs \cup {None}]
         /\ left \in [Procs -> SUBSET Residual]
  BY DEF TypeOK

LEMMA OwnedShape ==
  ASSUME TypeOK, NEW p \in Procs
  PROVE  /\ owned \in [Procs -> Seq(Targets)] /\ checked[p] \in Nat
         /\ owned[p] \in Seq(Targets) /\ Len(owned[p]) \in Nat
         /\ DOMAIN owned[p] = 1 .. Len(owned[p])
         /\ owned[p] # <<>> => Len(owned[p]) # 0 /\ Current(p) \in Names(p)
         /\ owned[p] = <<>> => Names(p) = {}
         /\ Names(p) \subseteq Targets
         /\ \A i \in 1 .. Len(owned[p]) : owned[p][i] \in Targets
  <1>1. owned \in [Procs -> Seq(Targets)] /\ checked[p] \in Nat
    BY DEF TypeOK
  <1>2. owned[p] \in Seq(Targets)
    BY <1>1
  <1>3. /\ Len(owned[p]) \in Nat /\ DOMAIN owned[p] = 1 .. Len(owned[p])
        /\ owned[p] # <<>> => Len(owned[p]) # 0
        /\ \A i \in 1 .. Len(owned[p]) : owned[p][i] \in Targets
        /\ owned[p] = <<>> => Len(owned[p]) = 0
    BY <1>2
  <1>4. QED
    BY <1>1, <1>2, <1>3 DEF Names, Current

\* A target published, and one rolled back.
LEMMA PushNames ==
  ASSUME NEW p \in Procs, owned \in [Procs -> Seq(Targets)], NEW t \in Targets,
         owned' = [owned EXCEPT ![p] = Append(owned[p], t)]
  PROVE  /\ owned' \in [Procs -> Seq(Targets)] /\ owned'[p] # <<>>
         /\ Names(p)' = Names(p) \cup {t}
         /\ Distinct(owned[p]) /\ t \notin Names(p) => Distinct(owned[p])'
  <1> DEFINE s == owned[p]
  <1>1. s \in Seq(Targets) /\ Len(s) \in Nat
    OBVIOUS
  <1>2. owned'[p] = Append(s, t)
    OBVIOUS
  <1>3. /\ Append(s, t) \in Seq(Targets) /\ Len(Append(s, t)) = Len(s) + 1
        /\ \A i \in 1 .. Len(s) : Append(s, t)[i] = s[i]
        /\ Append(s, t)[Len(s) + 1] = t
    BY <1>1
  <1>4. owned' \in [Procs -> Seq(Targets)] /\ owned'[p] # <<>>
    <2>1. Append(s, t) # <<>>
      BY <1>1, <1>3
    <2>2. QED
      BY <1>2, <1>3, <2>1
  <1> HIDE DEF s
  <1>5. \A x : x \in {Append(s, t)[i] : i \in 1 .. Len(s) + 1} <=> x \in {s[i] : i \in 1 .. Len(s)} \cup {t}
    <2>1. \A i : i \in 1 .. Len(s) + 1 <=> i \in 1 .. Len(s) \/ i = Len(s) + 1
      BY <1>1
    <2>2. QED
      BY <1>3, <2>1
  <1>6. Names(p)' = Names(p) \cup {t}
    BY <1>2, <1>3, <1>5 DEF Names, s
  <1>7. ASSUME Distinct(s), t \notin {s[i] : i \in 1 .. Len(s)} PROVE Distinct(Append(s, t))
    <2>1. \A i \in 1 .. Len(s) + 1 : i \in 1 .. Len(s) \/ i = Len(s) + 1
      BY <1>1
    <2>2. QED
      BY <1>3, <1>7, <2>1 DEF Distinct
  <1>8. Distinct(owned[p])' <=> Distinct(owned'[p])
    BY DEF Distinct
  <1>9. QED
    BY <1>2, <1>4, <1>6, <1>7, <1>8 DEF Names, s

LEMMA PopNames ==
  ASSUME TypeOK, NEW p \in Procs, owned[p] # <<>>, Distinct(owned[p]), Pop(p)
  PROVE  /\ owned' \in [Procs -> Seq(Targets)]
         /\ Names(p)' = Names(p) \ {Current(p)}
         /\ Distinct(owned[p])'
  <1> DEFINE s == owned[p]
             n == Len(s) - 1
             r == SubSeq(s, 1, n)
  <1>1. /\ owned \in [Procs -> Seq(Targets)] /\ s \in Seq(Targets) /\ Len(s) \in Nat /\ Len(s) # 0
        /\ \A i \in 1 .. Len(s) : s[i] \in Targets
    BY OwnedShape
  <1>2. owned' = [owned EXCEPT ![p] = r] /\ owned'[p] = r
    BY <1>1 DEF Pop
  <1>3. n \in Nat /\ Len(s) = n + 1 /\ \A i \in 1 .. n : s[i] \in Targets
    BY <1>1
  <1>4. /\ r \in Seq(Targets) /\ Len(r) = n
        /\ \A i \in 1 .. n : r[i] = s[i]
    <2>1. r \in Seq(Targets) /\ Len(r) = (IF 1 <= n THEN n - 1 + 1 ELSE 0)
          /\ \A i \in 1 .. n - 1 + 1 : r[i] = s[1 + i - 1]
      BY <1>3, SubSeqProperties
    <2>2. QED
      BY <1>3, <2>1
  <1>5. owned' \in [Procs -> Seq(Targets)]
    BY <1>1, <1>2, <1>4
  <1> HIDE DEF r, s, n
  <1>6. Names(p)' = {r[i] : i \in 1 .. n} /\ Names(p) = {s[i] : i \in 1 .. n + 1} /\ Current(p) = s[n + 1]
    BY <1>2, <1>3, <1>4 DEF Names, Current, s
  <1>7. \A i : i \in 1 .. n + 1 <=> i \in 1 .. n \/ i = n + 1
    BY <1>3
  <1>8. \A i \in 1 .. n : i \in 1 .. n + 1 /\ n + 1 \in 1 .. n + 1 /\ i # n + 1
    BY <1>3
  <1>9. \A i \in 1 .. n : s[i] # s[n + 1]
    BY <1>3, <1>8 DEF Distinct, s
  <1>10. {r[i] : i \in 1 .. n} = {s[i] : i \in 1 .. n + 1} \ {s[n + 1]}
    BY <1>4, <1>7, <1>9
  <1>11. Distinct(r)
    BY <1>3, <1>4, <1>8 DEF Distinct, s
  <1>12. Distinct(owned[p])' <=> Distinct(owned'[p])
    BY DEF Distinct
  <1>13. QED
    BY <1>2, <1>5, <1>6, <1>10, <1>11, <1>12

\* What a step of transaction p leaves to the others.
Alone(p) ==
  /\ \A q \in Procs \ {p} :
       /\ pc'[q] = pc[q] /\ bound'[q] = bound[q] /\ made'[q] = made[q] /\ tmp'[q] = tmp[q]
       /\ owned'[q] = owned[q] /\ checked'[q] = checked[q]
       /\ held'[q] = held[q] /\ left'[q] = left[q]
       /\ temp'[q] = temp[q] /\ qtemp'[q] = qtemp[q]
       /\ quar'[q] = quar[q] /\ qdir'[q] = qdir[q]
       /\ q \in faults' <=> q \in faults
  /\ faults \subseteq faults' /\ faults' \subseteq faults \cup {p}
  /\ lock' \in {lock, p, None}
  /\ UNCHANGED <<aliased, edited, idle, placed, touched, back>>

\* The outcomes of a resolution.
LEMMA ResolveShape ==
  ASSUME NEW p \in Procs, Resolve(p)
  PROVE  LET t == Current(p) IN
         /\ pc[p] = "rb_resolve"
         /\ UNCHANGED <<lock, lease, sources, temp, qtemp, qdir, aliased, edited,
                        bound, made, tmp, checked, idle, placed, touched, back>>
         /\ \/ /\ quar[p][t] = <<p, t>> /\ Goto(p, "rb_unlink")
               /\ UNCHANGED <<entry, quar, owned, held, left, faults>>
            \/ /\ Pop(p)
               /\ \E r \in SUBSET {At("target", t), At("unlocated", t)} :
                    /\ \/ PutBack(p, t, r)
                       \/ StayQuarantined(p, t, r)
                    /\ quar[p][t] = <<p, t>> => At("target", t) \in r \/ entry' = entry
               /\ \/ faults' = faults \cup {p}
                  \/ /\ faults' = faults
                     /\ \/ quar[p][t] = <<p, t>> /\ ~Removable(<<p, t>>)
                        \/ quar[p][t] # <<p, t>>
  <1> DEFINE t == Current(p)
             T == At("target", t)
             U == At("unlocated", t)
  <1>1. /\ pc[p] = "rb_resolve"
        /\ UNCHANGED <<lock, lease, sources, temp, qtemp, qdir, aliased, edited,
                       bound, made, tmp, checked, idle, placed, touched, back>>
    BY DEF Resolve
  <1>2. ASSUME NEW r, Restore(p, t, r)
        PROVE  \/ PutBack(p, t, r) /\ faults' = faults
               \/ StayQuarantined(p, t, r) /\ faults' = faults \cup {p}
    BY <1>2 DEF Restore, StayQuarantined, Faulted
  <1>3. CASE /\ quar[p][t] = <<p, t>> /\ Goto(p, "rb_unlink")
             /\ UNCHANGED <<entry, quar, owned, held, left, faults>>
    BY <1>1, <1>3
  <1>4. CASE quar[p][t] = <<p, t>> /\ ~Removable(<<p, t>>) /\ Restore(p, t, {T}) /\ Pop(p)
    <2>1. {T} \in SUBSET {T, U} /\ T \in {T}
      OBVIOUS
    <2>2. QED
      BY <1>1, <1>2, <1>4, <2>1
  <1>5. CASE quar[p][t] # <<p, t>> /\ Restore(p, t, {}) /\ Pop(p)
    <2>1. {} \in SUBSET {T, U}
      OBVIOUS
    <2>2. QED
      BY <1>1, <1>2, <1>5, <2>1
  <1>6. CASE quar[p][t] # <<p, t>> /\ Pop(p)
             /\ Restore(p, t, IF held[p] = <<p, t>> /\ Links(<<p, t>>) > 0 THEN {U} ELSE {})
    <2>1. {} \in SUBSET {T, U} /\ {U} \in SUBSET {T, U}
      OBVIOUS
    <2>2. Restore(p, t, {U}) \/ Restore(p, t, {})
      BY <1>6
    <2>3. QED
      BY <1>1, <1>2, <1>6, <2>1, <2>2
  <1>7. CASE PutBack(p, t, {T}) /\ Faulted(p) /\ Pop(p)
    <2>1. {T} \in SUBSET {T, U} /\ T \in {T}
      OBVIOUS
    <2>2. QED
      BY <1>1, <1>7, <2>1 DEF Faulted
  <1>8. CASE StayQuarantined(p, t, {}) /\ Pop(p)
    <2>1. {} \in SUBSET {T, U}
      OBVIOUS
    <2>2. entry' = entry /\ faults' = faults \cup {p}
      BY <1>8 DEF StayQuarantined, Faulted
    <2>3. QED
      BY <1>1, <1>8, <2>1, <2>2
  <1>9. QED
    BY <1>3, <1>4, <1>5, <1>6, <1>7, <1>8 DEF Resolve

LEMMA StepAlone ==
  ASSUME TypeOK, NEW p \in Procs, Enter(p) \/ Step(p) \/ Crash(p)
  PROVE  Alone(p)
  <1>0. /\ pc \in [Procs -> Labels] /\ bound \in [Procs -> Dirs \cup {None}]
        /\ made \in [Procs -> Dirs \cup {None, Unknown}]
        /\ tmp \in [Procs -> Temporary \cup {None}]
        /\ DOMAIN owned = Procs /\ DOMAIN checked = Procs
        /\ held \in [Procs -> File \cup Dirs \cup {None}] /\ left \in [Procs -> SUBSET Residual]
        /\ temp \in [Procs -> Targets \cup {None}] /\ qtemp \in [Procs -> Targets \cup {None}]
        /\ DOMAIN quar = Procs /\ qdir \in [Procs -> Dirs \cup {None}]
    BY DEF TypeOK
  <1>1. CASE Enter(p)
    BY <1>0, <1>1 DEF Enter, Goto, names, locals, history, Alone
  <1>2. CASE OpenDirectory(p)
    BY <1>0, <1>2 DEF OpenDirectory, Goto, history, Alone
  <1>3. CASE BindDirectory(p)
    BY <1>0, <1>3 DEF BindDirectory, Goto, names, history, Alone
  <1>4. ASSUME NEW t \in Targets, CreateTemporary(p, t) PROVE Alone(p)
    BY <1>0, <1>4 DEF Alone, CreateTemporary, Goto, history
  <1>5. CASE WriteTemporary(p)
    BY <1>0, <1>5 DEF WriteTemporary, Goto, names, history, Alone
  <1>6. CASE Link(p)
    BY <1>0, <1>6 DEF Link, Goto, Here, SetEntry, history, Alone
  <1>7. CASE UnlinkTemporary(p)
    BY <1>0, <1>7 DEF UnlinkTemporary, Goto, history, Alone
  <1>8. CASE BeginCommit(p)
    BY <1>0, <1>8 DEF BeginCommit, Goto, names, locals, history, Alone
  <1>9. CASE Verify(p)
    BY <1>0, <1>9 DEF Verify, Goto, names, history, Alone
  <1>10. CASE Fail(p)
    BY <1>0, <1>10 DEF Fail, Goto, names, history, Publishing, Alone
  <1>11. CASE RollbackTemporary(p)
    BY <1>0, <1>11 DEF RollbackTemporary, Goto, Leave, Faulted, Alone
  <1>12. CASE RollbackOpen(p)
    BY <1>0, <1>12 DEF RollbackOpen, Goto, Leave, Faulted, Pop, Here,
     names, Alone
  <1>13. CASE RollbackMove(p)
    BY <1>0, <1>13 DEF RollbackMove, Goto, Leave, Faulted, Pop, Here,
     SetEntry, Alone
  <1>14. CASE Resolve(p)
    <2> DEFINE t == Current(p)
    <2>1. UNCHANGED <<lock, lease, sources, temp, qtemp, qdir, aliased, edited,
                      bound, made, tmp, checked, idle, placed, touched, back>>
      BY <1>14, ResolveShape
    <2>2. CASE Goto(p, "rb_unlink") /\ UNCHANGED <<entry, quar, owned, held, left, faults>>
      BY <1>0, <2>1, <2>2 DEF Alone, Goto
    <2>3. ASSUME Pop(p), NEW r, PutBack(p, t, r), faults' \in {faults, faults \cup {p}} PROVE Alone(p)
      BY <1>0, <2>1, <2>3 DEF Alone, Goto, Pop, PutBack, Leave, SetEntry
    <2>4. ASSUME Pop(p), NEW r, StayQuarantined(p, t, r) PROVE Alone(p)
      BY <1>0, <2>1, <2>4 DEF Alone, Goto, Pop, StayQuarantined, Leave, Faulted
    <2>5. QED
      BY <1>14, <2>2, <2>3, <2>4, ResolveShape
  <1>15. CASE RollbackUnlink(p)
    BY <1>0, <1>15 DEF RollbackUnlink, Goto, Leave, Faulted, Pop, Alone
  <1>16. CASE RollbackDirectory(p)
    BY <1>0, <1>16 DEF RollbackDirectory, Goto, Leave, Faulted, names,
     Alone
  <1>17. CASE MoveDirectory(p)
    BY <1>0, <1>17 DEF MoveDirectory, Goto, Leave, Faulted, Alone
  <1>18. CASE ResolveDirectory(p)
    BY <1>0, <1>18 DEF ResolveDirectory, Goto, Leave, Faulted, Alone
  <1>19. CASE RemoveDirectory(p)
    BY <1>0, <1>19 DEF RemoveDirectory, Goto, Leave, Faulted, Alone
  <1>20. CASE Close(p)
    BY <1>0, <1>20 DEF Close, Goto, Forget, names, locals, history, Alone
  <1>21. CASE Crash(p)
    BY <1>0, <1>21 DEF Crash, Goto, Forget, names, history, Alone
  <1>22. QED
    BY <1>1, <1>2, <1>3, <1>4, <1>5, <1>6, <1>7, <1>8, <1>9, <1>10, <1>11, <1>12, <1>13, <1>14, <1>15, <1>16, <1>17, <1>18, <1>19, <1>20, <1>21 DEF Step
\* Everything but the sequence of published targets.
RestTyped ==
  /\ lock \in Procs \cup {None} /\ lease \in BOOLEAN
  /\ sources \in Dirs \cup {None}
  /\ entry \in [Dirs -> [Targets -> File \cup {None}]]
  /\ temp \in [Procs -> Targets \cup {None}]
  /\ qtemp \in [Procs -> Targets \cup {None}]
  /\ quar \in [Procs -> [Targets -> File \cup {None}]]
  /\ qdir \in [Procs -> Dirs \cup {None}]
  /\ aliased \subseteq File /\ edited \subseteq File
  /\ pc \in [Procs -> Labels]
  /\ bound \in [Procs -> Dirs \cup {None}]
  /\ made \in [Procs -> Dirs \cup {None, Unknown}]
  /\ tmp \in [Procs -> Temporary \cup {None}]
  /\ checked \in [Procs -> Nat]
  /\ held \in [Procs -> File \cup Dirs \cup {None}]
  /\ left \in [Procs -> SUBSET Residual]
  /\ idle \subseteq Peers /\ placed \subseteq File
  /\ touched \subseteq Procs \X Targets /\ back \subseteq File /\ faults \subseteq Procs

LEMMA TypeSplit ==
  /\ TypeOK <=> RestTyped /\ owned \in [Procs -> Seq(Targets)]
  /\ TypeOK' <=> RestTyped' /\ owned' \in [Procs -> Seq(Targets)]
  BY DEF TypeOK, RestTyped

LEMMA ResidualType ==
  /\ \A t \in Targets, k \in {"target", "quarantine", "temp", "temp_quarantine", "unlocated"} :
       At(k, t) \in Residual
  /\ \A k \in {"dir", "dir_quarantine", "unlocated"} : At(k, "sources") \in Residual
  BY DEF At, Residual

LEMMA LabelType ==
  {"idle", "body", "open_dir", "write", "link", "unlink", "verify", "rb_temp", "rb_open", "rb_move",
   "rb_resolve", "rb_unlink", "rb_dir", "rb_dir_move", "rb_dir_resolve", "rb_rmdir", "committed",
   "close", "returned", "raised", "incomplete", "dead"} \subseteq Labels
  BY DEF Labels, Active, Publishing, RollingBack, Ended

LEMMA GotoType ==
  ASSUME RestTyped, NEW p \in Procs, NEW l \in Labels, Goto(p, l)
  PROVE  pc' \in [Procs -> Labels]
  BY DEF RestTyped, Goto

LEMMA LeaveType ==
  ASSUME RestTyped, NEW p \in Procs, NEW r \in SUBSET Residual, Leave(p, r)
  PROVE  left' \in [Procs -> SUBSET Residual]
  BY DEF RestTyped, Leave

LEMMA PopType ==
  ASSUME RestTyped, NEW p \in Procs, Pop(p)
  PROVE  pc' \in [Procs -> Labels] /\ held' \in [Procs -> File \cup Dirs \cup {None}]
  <1>1. pc' \in [Procs -> Labels]
    BY GotoType, LabelType DEF Pop
  <1>2. QED
    BY <1>1 DEF Pop, RestTyped

\* A name of a directory, and a quarantine name.
LEMMA EntrySet ==
  ASSUME entry \in [Dirs -> [Targets -> File \cup {None}]], NEW p \in Procs, NEW t \in Targets,
         bound[p] \in Dirs, NEW f \in File \cup {None}, SetEntry(p, t, f)
  PROVE  /\ entry' \in [Dirs -> [Targets -> File \cup {None}]]
         /\ entry'[bound[p]][t] = f
         /\ \A d \in Dirs, u \in Targets : d # bound[p] \/ u # t => entry'[d][u] = entry[d][u]
  <1>1. entry' = [entry EXCEPT ![bound[p]] = [entry[bound[p]] EXCEPT ![t] = f]]
    BY DEF SetEntry
  <1>2. entry[bound[p]] \in [Targets -> File \cup {None}]
    OBVIOUS
  <1>3. [entry[bound[p]] EXCEPT ![t] = f] \in [Targets -> File \cup {None}]
    BY <1>2
  <1>4. QED
    BY <1>1, <1>2, <1>3

LEMMA QuarSet ==
  ASSUME quar \in [Procs -> [Targets -> File \cup {None}]], NEW p \in Procs, NEW t \in Targets,
         NEW f \in File \cup {None}, quar' = [quar EXCEPT ![p][t] = f]
  PROVE  /\ quar' \in [Procs -> [Targets -> File \cup {None}]]
         /\ quar'[p][t] = f
         /\ \A q \in Procs, u \in Targets : q # p \/ u # t => quar'[q][u] = quar[q][u]
  <1>1. quar' = [quar EXCEPT ![p] = [quar[p] EXCEPT ![t] = f]]
    OBVIOUS
  <1>2. quar[p] \in [Targets -> File \cup {None}]
    OBVIOUS
  <1>3. [quar[p] EXCEPT ![t] = f] \in [Targets -> File \cup {None}]
    BY <1>2
  <1>4. QED
    BY <1>1, <1>2, <1>3

LEMMA PutBackType ==
  ASSUME RestTyped, NEW p \in Procs, NEW t \in Targets, NEW r \in SUBSET Residual,
         bound[p] \in Dirs, PutBack(p, t, r)
  PROVE  /\ entry' \in [Dirs -> [Targets -> File \cup {None}]]
         /\ quar' \in [Procs -> [Targets -> File \cup {None}]]
         /\ left' \in [Procs -> SUBSET Residual]
  <1>1. left' \in [Procs -> SUBSET Residual]
    BY LeaveType DEF PutBack
  <1>2. quar[p][t] \in File \cup {None} /\ None \in File \cup {None}
    BY DEF RestTyped
  <1>3. QED
    BY <1>1, <1>2, EntrySet, QuarSet DEF PutBack, RestTyped

LEMMA StepTyped ==
  ASSUME TypeOK, NEW p \in Procs, LocalInv(p), Enter(p) \/ Step(p) \/ Crash(p)
  PROVE  RestTyped'
  <1>0. RestTyped /\ p \in Dirs
    BY TypeSplit DEF Dirs
  <1>a. /\ owned[p] # <<>> => Current(p) \in Targets /\ bound[p] \in Dirs
        /\ pc[p] \in {"write", "link", "unlink"} =>
             tmp[p] \in Temporary /\ tmp[p].target \in Targets /\ bound[p] \in Dirs
        /\ pc[p] \in {"rb_move", "rb_resolve", "rb_unlink"} => owned[p] # <<>>
        /\ tmp[p] # None => tmp[p].target \in Targets
    BY <1>0, OwnedShape DEF LocalInv, RestTyped, Temporary
  <1>1. CASE Enter(p)
    <2>1. pc' \in [Procs -> Labels]
      BY <1>0, <1>a, <1>1, GotoType, LabelType DEF Enter, names, locals,
       history, RestTyped
    <2>2. /\ lock' = p /\ lease' \in BOOLEAN
          /\ UNCHANGED <<sources, entry, temp, qtemp, quar, qdir, aliased, edited,
                         bound, made, tmp, checked, held, left>>
          /\ UNCHANGED <<idle, placed, touched, back, faults>>
      BY <1>1 DEF Enter, names, locals, history
    <2>3. QED
      BY <1>0, <2>1, <2>2 DEF RestTyped, Dirs
  <1>2. CASE OpenDirectory(p)
    <2>1. pc' \in [Procs -> Labels]
      BY <1>0, <1>a, <1>2, GotoType, LabelType DEF OpenDirectory, history,
       RestTyped
    <2>2. sources' \in Dirs \cup {None}
      BY <1>0, <1>a, <1>2 DEF OpenDirectory, Goto, history, RestTyped
    <2>3. bound' \in [Procs -> Dirs \cup {None}] /\ made' \in [Procs -> Dirs \cup {None, Unknown}]
      BY <1>0, <1>a, <1>2 DEF OpenDirectory, Goto, history, RestTyped
    <2>4. QED
      BY <1>0, <1>2, <2>1, <2>2, <2>3 DEF OpenDirectory, history, RestTyped
  <1>3. CASE BindDirectory(p)
    <2>1. pc' \in [Procs -> Labels]
      BY <1>0, <1>a, <1>3, GotoType, LabelType DEF BindDirectory, names,
       history, RestTyped
    <2>2. bound' \in [Procs -> Dirs \cup {None}] /\ made' \in [Procs -> Dirs \cup {None, Unknown}]
      BY <1>0, <1>a, <1>3 DEF BindDirectory, Goto, names, history,
       RestTyped
    <2>3. QED
      BY <1>0, <1>3, <2>1, <2>2 DEF BindDirectory, names, history,
       RestTyped
  <1>4. ASSUME NEW t \in Targets, CreateTemporary(p, t) PROVE RestTyped'
    <2>1. pc' \in [Procs -> Labels]
      BY <1>0, <1>a, <1>4, GotoType, LabelType DEF CreateTemporary,
       history, RestTyped
    <2>2. temp' \in [Procs -> Targets \cup {None}]
      BY <1>0, <1>a, <1>4 DEF CreateTemporary, Goto, history, RestTyped
    <2>3. tmp' \in [Procs -> Temporary \cup {None}]
      BY <1>0, <1>a, <1>4 DEF CreateTemporary, Goto, history, RestTyped,
       Temporary
    <2>4. QED
      BY <1>0, <1>4, <2>1, <2>2, <2>3 DEF CreateTemporary, history,
       RestTyped
  <1>5. CASE WriteTemporary(p)
    <2>1. pc' \in [Procs -> Labels]
      BY <1>0, <1>a, <1>5, GotoType, LabelType DEF WriteTemporary, names,
       history, RestTyped
    <2>2. tmp' \in [Procs -> Temporary \cup {None}]
      BY <1>0, <1>a, <1>5 DEF WriteTemporary, Goto, names, history,
       RestTyped, Temporary
    <2>3. QED
      BY <1>0, <1>5, <2>1, <2>2 DEF WriteTemporary, names, history,
       RestTyped
  <1>6. CASE Link(p)
    <2>1. pc' \in [Procs -> Labels]
      BY <1>0, <1>a, <1>6, GotoType, LabelType DEF Link, Here, SetEntry,
       history, RestTyped
    <2>2. entry' \in [Dirs -> [Targets -> File \cup {None}]]
      <3>1. tmp[p].target \in Targets /\ bound[p] \in Dirs /\ <<p, tmp[p].target>> \in File \cup {None}
        BY <1>a, <1>6 DEF Link, File
      <3>2. SetEntry(p, tmp[p].target, <<p, tmp[p].target>>)
        BY <1>6 DEF Link
      <3>3. QED
        BY <1>0, <3>1, <3>2, EntrySet DEF RestTyped
    <2>3. QED
      BY <1>0, <1>6, <2>1, <2>2 DEF Link, history, RestTyped
  <1>7. CASE UnlinkTemporary(p)
    <2>1. pc' \in [Procs -> Labels]
      BY <1>0, <1>a, <1>7, GotoType, LabelType DEF UnlinkTemporary,
       history, RestTyped
    <2>2. temp' \in [Procs -> Targets \cup {None}] /\ tmp' \in [Procs -> Temporary \cup {None}]
      BY <1>0, <1>a, <1>7 DEF UnlinkTemporary, Goto, history, RestTyped,
       Temporary
    <2>3. QED
      BY <1>0, <1>7, <2>1, <2>2 DEF UnlinkTemporary, history, RestTyped
  <1>8. CASE BeginCommit(p)
    <2>1. pc' \in [Procs -> Labels]
      BY <1>0, <1>a, <1>8, GotoType, LabelType DEF BeginCommit, names,
       locals, history, RestTyped
    <2>2. QED
      BY <1>0, <1>8, <2>1 DEF BeginCommit, names, locals, history,
       RestTyped
  <1>9. CASE Verify(p)
    <2>1. pc' \in [Procs -> Labels]
      BY <1>0, <1>a, <1>9, GotoType, LabelType DEF Verify, names, history,
       RestTyped
    <2>2. checked' \in [Procs -> Nat]
      <3>1. checked[p] \in Nat /\ checked[p] + 1 \in Nat
        BY <1>0 DEF RestTyped
      <3>2. checked' = checked \/ checked' = [checked EXCEPT ![p] = checked[p] + 1]
        BY <1>9 DEF Verify
      <3>3. QED
        BY <1>0, <3>1, <3>2 DEF RestTyped
    <2>3. QED
      BY <1>0, <1>9, <2>1, <2>2 DEF Verify, names, history, RestTyped
  <1>10. CASE Fail(p)
    <2>1. pc' \in [Procs -> Labels]
      BY <1>0, <1>a, <1>10, GotoType, LabelType DEF Fail, names, history,
       RestTyped
    <2>2. made' \in [Procs -> Dirs \cup {None, Unknown}]
      BY <1>0, <1>a, <1>10 DEF Fail, Goto, names, history, RestTyped
    <2>3. QED
      BY <1>0, <1>10, <2>1, <2>2 DEF Fail, names, history, RestTyped
  <1>11. CASE RollbackTemporary(p)
    <2>1. pc' \in [Procs -> Labels]
      BY <1>0, <1>a, <1>11, GotoType, LabelType DEF RollbackTemporary,
       Leave, Faulted, RestTyped
    <2>2. left' \in [Procs -> SUBSET Residual]
      BY <1>0, <1>a, <1>11, LeaveType, ResidualType DEF RollbackTemporary,
       Goto, Faulted, RestTyped
    <2>3. temp' \in [Procs -> Targets \cup {None}] /\ qtemp' \in [Procs -> Targets \cup {None}]
      BY <1>0, <1>a, <1>11 DEF RollbackTemporary, Goto, Leave, Faulted,
       RestTyped
    <2>4. faults' \subseteq Procs
      BY <1>0, <1>a, <1>11 DEF RollbackTemporary, Goto, Leave, Faulted,
       RestTyped
    <2>5. QED
      BY <1>0, <1>11, <2>1, <2>2, <2>3, <2>4 DEF RollbackTemporary,
       RestTyped
  <1>12. CASE RollbackOpen(p)
    <2>1. pc' \in [Procs -> Labels]
      BY <1>0, <1>a, <1>12, GotoType, LabelType, PopType DEF RollbackOpen,
       Leave, Faulted, Here, names, RestTyped
    <2>2. held' \in [Procs -> File \cup Dirs \cup {None}]
      <3>1. CASE Pop(p)
        BY <1>0, <3>1, PopType
      <3>2. CASE UNCHANGED held
        BY <1>0, <3>2 DEF RestTyped
      <3>3. CASE /\ owned[p] # <<>> /\ Here(p, Current(p)) # None
                 /\ held' = [held EXCEPT ![p] = Here(p, Current(p))]
        <4>1. Here(p, Current(p)) \in File
          BY <1>0, <1>a, <3>3 DEF Here, RestTyped
        <4>2. QED
          BY <1>0, <3>3, <4>1 DEF RestTyped
      <3>4. QED
        BY <1>12, <3>1, <3>2, <3>3 DEF RollbackOpen
    <2>3. left' \in [Procs -> SUBSET Residual]
      BY <1>0, <1>a, <1>12, LeaveType, ResidualType DEF RollbackOpen, Goto,
       Faulted, Pop, Here, names, RestTyped
    <2>4. faults' \subseteq Procs
      BY <1>0, <1>a, <1>12 DEF RollbackOpen, Goto, Leave, Faulted, Pop,
       Here, names, RestTyped
    <2>5. QED
      BY <1>0, <1>12, <2>1, <2>2, <2>3, <2>4 DEF RollbackOpen, Pop, names,
       RestTyped
  <1>13. CASE RollbackMove(p)
    <2>1. pc' \in [Procs -> Labels]
      BY <1>0, <1>a, <1>13, GotoType, LabelType, PopType DEF RollbackMove,
       Leave, Faulted, Here, SetEntry, RestTyped
    <2>2. held' \in [Procs -> File \cup Dirs \cup {None}]
      BY <1>0, <1>a, <1>13, PopType DEF RollbackMove, Goto, Leave, Faulted,
       Here, SetEntry, RestTyped
    <2>3. left' \in [Procs -> SUBSET Residual]
      BY <1>0, <1>a, <1>13, LeaveType, ResidualType DEF RollbackMove, Goto,
       Faulted, Pop, Here, SetEntry, RestTyped
    <2>4. faults' \subseteq Procs
      BY <1>0, <1>a, <1>13 DEF RollbackMove, Goto, Leave, Faulted, Pop,
       Here, SetEntry, RestTyped
    <2>5. entry' \in [Dirs -> [Targets -> File \cup {None}]] /\ quar' \in [Procs -> [Targets -> File \cup {None}]]
      <3>1. CASE UNCHANGED <<entry, quar>>
        BY <1>0, <3>1 DEF RestTyped
      <3>2. CASE /\ quar' = [quar EXCEPT ![p][Current(p)] = Here(p, Current(p))]
                 /\ SetEntry(p, Current(p), None)
        <4>1. /\ Here(p, Current(p)) \in File \cup {None} /\ None \in File \cup {None}
              /\ bound[p] \in Dirs /\ Current(p) \in Targets
          BY <1>0, <1>a, <1>13 DEF RollbackMove, Here, RestTyped
        <4>2. QED
          BY <1>0, <3>2, <4>1, EntrySet, QuarSet DEF RestTyped
      <3>3. QED
        BY <1>13, <3>1, <3>2 DEF RollbackMove
    <2>6. QED
      BY <1>0, <1>13, <2>1, <2>2, <2>3, <2>4, <2>5 DEF RollbackMove, Pop,
       RestTyped
  <1>14. CASE Resolve(p)
    <2> DEFINE t == Current(p)
    <2>1. /\ UNCHANGED <<lock, lease, sources, temp, qtemp, qdir, aliased, edited,
                         bound, made, tmp, checked, idle, placed, touched, back>>
          /\ t \in Targets /\ bound[p] \in Dirs
          /\ {At("target", t), At("unlocated", t), At("quarantine", t)} \subseteq Residual
      BY <1>a, <1>14, ResolveShape, ResidualType DEF LocalInv
    <2>2. CASE Goto(p, "rb_unlink") /\ UNCHANGED <<entry, quar, owned, held, left, faults>>
      <3>1. pc' \in [Procs -> Labels]
        BY <1>0, <2>2, GotoType, LabelType
      <3>2. QED
        BY <1>0, <2>1, <2>2, <3>1 DEF RestTyped
    <2>3. ASSUME Pop(p), NEW r \in SUBSET {At("target", t), At("unlocated", t)}, PutBack(p, t, r),
                 faults' = faults \/ faults' = faults \cup {p}
          PROVE  RestTyped'
      <3>1. r \in SUBSET Residual /\ faults' \subseteq Procs
        BY <1>0, <2>1, <2>3 DEF RestTyped
      <3>2. /\ pc' \in [Procs -> Labels] /\ held' \in [Procs -> File \cup Dirs \cup {None}]
            /\ entry' \in [Dirs -> [Targets -> File \cup {None}]]
            /\ quar' \in [Procs -> [Targets -> File \cup {None}]]
            /\ left' \in [Procs -> SUBSET Residual]
        BY <1>0, <2>1, <2>3, <3>1, PopType, PutBackType
      <3>3. QED
        BY <1>0, <2>1, <3>1, <3>2 DEF RestTyped
    <2>4. ASSUME Pop(p), NEW r \in SUBSET {At("target", t), At("unlocated", t)}, StayQuarantined(p, t, r)
          PROVE  RestTyped'
      <3>1. {At("quarantine", t)} \cup (r \ {At("target", t)}) \in SUBSET Residual
        BY <2>1
      <3>2. /\ pc' \in [Procs -> Labels] /\ held' \in [Procs -> File \cup Dirs \cup {None}]
            /\ left' \in [Procs -> SUBSET Residual]
        BY <1>0, <2>4, <3>1, PopType, LeaveType DEF StayQuarantined
      <3>3. QED
        BY <1>0, <2>1, <2>4, <3>2 DEF RestTyped, StayQuarantined, Faulted
    <2>5. QED
      BY <1>14, <2>2, <2>3, <2>4, ResolveShape
  <1>15. CASE RollbackUnlink(p)
    <2>1. pc' \in [Procs -> Labels] /\ held' \in [Procs -> File \cup Dirs \cup {None}]
      BY <1>0, <1>a, <1>15, GotoType, LabelType, PopType DEF
       RollbackUnlink, Leave, Faulted, RestTyped
    <2>2. left' \in [Procs -> SUBSET Residual]
      BY <1>0, <1>a, <1>15, LeaveType, ResidualType DEF RollbackUnlink,
       Goto, Faulted, Pop, RestTyped
    <2>3. faults' \subseteq Procs
      BY <1>0, <1>a, <1>15 DEF RollbackUnlink, Goto, Leave, Faulted, Pop,
       RestTyped
    <2>4. quar' \in [Procs -> [Targets -> File \cup {None}]]
      <3>1. Current(p) \in Targets /\ None \in File \cup {None}
        BY <1>a, <1>15 DEF RollbackUnlink
      <3>2. quar' = quar \/ quar' = [quar EXCEPT ![p][Current(p)] = None]
        BY <1>15 DEF RollbackUnlink
      <3>3. QED
        BY <1>0, <3>1, <3>2, QuarSet DEF RestTyped
    <2>5. QED
      BY <1>0, <1>15, <2>1, <2>2, <2>3, <2>4 DEF RollbackUnlink, Pop,
       RestTyped
  <1>16. CASE RollbackDirectory(p)
    <2>1. pc' \in [Procs -> Labels]
      BY <1>0, <1>a, <1>16, GotoType, LabelType DEF RollbackDirectory,
       Leave, Faulted, names, RestTyped
    <2>2. held' \in [Procs -> File \cup Dirs \cup {None}]
      <3>1. held \in [Procs -> File \cup Dirs \cup {None}] /\ sources \in Dirs \cup {None}
        BY <1>0 DEF RestTyped
      <3>2. held' = held \/ held' = [held EXCEPT ![p] = sources]
        BY <1>16 DEF RollbackDirectory
      <3>3. QED
        BY <3>1, <3>2
    <2>3. left' \in [Procs -> SUBSET Residual]
      BY <1>0, <1>a, <1>16, LeaveType, ResidualType DEF RollbackDirectory,
       Goto, Faulted, names, RestTyped
    <2>4. faults' \subseteq Procs
      BY <1>0, <1>a, <1>16 DEF RollbackDirectory, Goto, Leave, Faulted,
       names, RestTyped
    <2>5. QED
      BY <1>0, <1>16, <2>1, <2>2, <2>3, <2>4 DEF RollbackDirectory, names,
       RestTyped
  <1>17. CASE MoveDirectory(p)
    <2>1. pc' \in [Procs -> Labels]
      BY <1>0, <1>a, <1>17, GotoType, LabelType DEF MoveDirectory, Leave,
       Faulted, RestTyped
    <2>2. left' \in [Procs -> SUBSET Residual]
      BY <1>0, <1>a, <1>17, LeaveType, ResidualType DEF MoveDirectory,
       Goto, Faulted, RestTyped
    <2>3. faults' \subseteq Procs
      BY <1>0, <1>a, <1>17 DEF MoveDirectory, Goto, Leave, Faulted,
       RestTyped
    <2>4. sources' \in Dirs \cup {None} /\ qdir' \in [Procs -> Dirs \cup {None}]
      <3>1. None \in Dirs \cup {None}
        OBVIOUS
      <3>2. QED
        BY <1>0, <1>17, <3>1 DEF MoveDirectory, RestTyped
    <2>5. QED
      BY <1>0, <1>17, <2>1, <2>2, <2>3, <2>4 DEF MoveDirectory, RestTyped
  <1>18. CASE ResolveDirectory(p)
    <2>1. pc' \in [Procs -> Labels]
      BY <1>0, <1>a, <1>18, GotoType, LabelType DEF ResolveDirectory,
       Leave, Faulted, RestTyped
    <2>2. left' \in [Procs -> SUBSET Residual]
      BY <1>0, <1>a, <1>18, LeaveType, ResidualType DEF ResolveDirectory,
       Goto, Faulted, RestTyped
    <2>3. faults' \subseteq Procs
      BY <1>0, <1>a, <1>18 DEF ResolveDirectory, Goto, Leave, Faulted,
       RestTyped
    <2>4. sources' \in Dirs \cup {None} /\ qdir' \in [Procs -> Dirs \cup {None}]
      <3>1. \/ UNCHANGED <<sources, qdir>>
            \/ sources' = qdir[p] /\ qdir' = [qdir EXCEPT ![p] = None]
        BY <1>18 DEF ResolveDirectory
      <3>2. QED
        BY <1>0, <3>1 DEF RestTyped
    <2>5. QED
      BY <1>0, <1>18, <2>1, <2>2, <2>3, <2>4 DEF ResolveDirectory,
       RestTyped
  <1>19. CASE RemoveDirectory(p)
    <2>1. pc' \in [Procs -> Labels]
      BY <1>0, <1>a, <1>19, GotoType, LabelType DEF RemoveDirectory, Leave,
       Faulted, RestTyped
    <2>2. left' \in [Procs -> SUBSET Residual]
      BY <1>0, <1>a, <1>19, LeaveType, ResidualType DEF RemoveDirectory,
       Goto, Faulted, RestTyped
    <2>3. faults' \subseteq Procs
      BY <1>0, <1>a, <1>19 DEF RemoveDirectory, Goto, Leave, Faulted,
       RestTyped
    <2>4. qdir' \in [Procs -> Dirs \cup {None}]
      BY <1>0, <1>a, <1>19 DEF RemoveDirectory, Goto, Leave, Faulted,
       RestTyped
    <2>5. QED
      BY <1>0, <1>19, <2>1, <2>2, <2>3, <2>4 DEF RemoveDirectory, RestTyped
  <1>20. CASE Close(p)
    <2>1. pc' \in [Procs -> Labels]
      BY <1>0, <1>a, <1>20, GotoType, LabelType DEF Close, Forget, names,
       locals, history, RestTyped
    <2>2. made' \in [Procs -> Dirs \cup {None, Unknown}]
      <3>1. UNCHANGED <<made, tmp, checked>> \/ Forget(p)
        BY <1>20 DEF Close, locals
      <3>2. QED
        BY <1>0, <3>1 DEF Forget, RestTyped
    <2>3. tmp' \in [Procs -> Temporary \cup {None}]
      <3>1. UNCHANGED <<made, tmp, checked>> \/ Forget(p)
        BY <1>20 DEF Close, locals
      <3>2. QED
        BY <1>0, <3>1 DEF Forget, RestTyped
    <2>4. checked' \in [Procs -> Nat]
      <3>0. checked \in [Procs -> Nat] /\ 0 \in Nat
        BY <1>0 DEF RestTyped
      <3>1. checked' = checked \/ checked' = [checked EXCEPT ![p] = 0]
        BY <1>20 DEF Close, Forget, locals
      <3>2. QED
        BY <3>0, <3>1
    <2>5. held' \in [Procs -> File \cup Dirs \cup {None}] /\ left' \in [Procs -> SUBSET Residual]
      <3>1. UNCHANGED <<held, left>> \/ Forget(p)
        BY <1>20 DEF Close, locals
      <3>2. QED
        BY <1>0, <3>1 DEF Forget, RestTyped
    <2>6. QED
      BY <1>0, <1>20, <2>1, <2>2, <2>3, <2>4, <2>5 DEF Close, Forget,
       names, locals, history, RestTyped
  <1>21. CASE Crash(p)
    <2>1. pc' \in [Procs -> Labels]
      BY <1>0, <1>a, <1>21, GotoType, LabelType DEF Crash, Forget, names,
       history, RestTyped
    <2>2. made' \in [Procs -> Dirs \cup {None, Unknown}]
      <3>1. UNCHANGED <<made, tmp, checked>> \/ Forget(p)
        BY <1>21 DEF Crash, locals
      <3>2. QED
        BY <1>0, <3>1 DEF Forget, RestTyped
    <2>3. tmp' \in [Procs -> Temporary \cup {None}]
      <3>1. UNCHANGED <<made, tmp, checked>> \/ Forget(p)
        BY <1>21 DEF Crash, locals
      <3>2. QED
        BY <1>0, <3>1 DEF Forget, RestTyped
    <2>4. checked' \in [Procs -> Nat]
      <3>0. checked \in [Procs -> Nat] /\ 0 \in Nat
        BY <1>0 DEF RestTyped
      <3>1. checked' = checked \/ checked' = [checked EXCEPT ![p] = 0]
        BY <1>21 DEF Crash, Forget, locals
      <3>2. QED
        BY <3>0, <3>1
    <2>5. held' \in [Procs -> File \cup Dirs \cup {None}] /\ left' \in [Procs -> SUBSET Residual]
      <3>1. UNCHANGED <<held, left>> \/ Forget(p)
        BY <1>21 DEF Crash, locals
      <3>2. QED
        BY <1>0, <3>1 DEF Forget, RestTyped
    <2>6. QED
      BY <1>0, <1>21, <2>1, <2>2, <2>3, <2>4, <2>5 DEF Crash, Forget,
       names, history, RestTyped
  <1>22. QED
    BY <1>1, <1>2, <1>3, <1>4, <1>5, <1>6, <1>7, <1>8, <1>9, <1>10, <1>11, <1>12, <1>13, <1>14, <1>15, <1>16, <1>17, <1>18, <1>19, <1>20, <1>21 DEF Step

\* A peer's act is on the names alone.
LEMMA PeerShape ==
  ASSUME TypeOK, NEW x \in Peers, Peer(x)
  PROVE  /\ x \in idle /\ idle' = idle \ {x} /\ sources \in Dirs
         /\ UNCHANGED <<lock, lease, temp, qtemp, quar, qdir, pc, bound, made, tmp, owned,
                        checked, held, left, faults>>
         /\ touched \subseteq touched'
         /\ sources' = IF PeerSwap(x) THEN x ELSE sources
         /\ PeerSwap(x) => UNCHANGED <<entry, aliased, edited, placed, back>>
  <1>0. sources # None => sources \in Dirs
    BY DEF TypeOK
  <1>1. ASSUME NEW t \in Targets, PeerPut(x, t) \/ PeerLink(x, t) \/ PeerEdit(x, t) PROVE
            /\ Act(x) /\ Touch(t)
            /\ UNCHANGED <<lock, lease, sources, temp, qtemp, quar, qdir, pc, bound, made, tmp, owned,
                        checked, held, left, faults>>
    BY <1>1 DEF PeerPut, PeerLink, PeerEdit, locals
  <1>2. ASSUME NEW f \in aliased, PeerReturn(x, f) PROVE
            /\ Act(x) /\ Touch(f[2])
            /\ UNCHANGED <<lock, lease, sources, temp, qtemp, quar, qdir, pc, bound, made, tmp, owned,
                        checked, held, left, faults>>
    BY <1>2 DEF PeerReturn, locals
  <1>3. CASE PeerSwap(x)
    BY <1>0, <1>3 DEF PeerSwap, Act, locals
  <1>4. /\ Act(x) => x \in idle /\ idle' = idle \ {x} /\ sources \in Dirs
        /\ \A t : Touch(t) => touched \subseteq touched'
    BY <1>0 DEF Act, Touch
  <1>5. CASE ~PeerSwap(x)
    BY <1>1, <1>2, <1>4, <1>5 DEF Peer
  <1>6. QED
    BY <1>3, <1>5

LEMMA FileType ==
  /\ \A f \in File : f[2] \in Targets /\ f = <<f[1], f[2]>>
  /\ \A a \in Procs \cup Peers, t \in Targets : <<a, t>> \in File /\ <<a, t>>[2] = t /\ <<a, t>>[1] = a
  BY DEF File

\* A file put under a name of the directory.
LEMMA PeerSet ==
  ASSUME entry \in [Dirs -> [Targets -> File \cup {None}]], NEW d \in Dirs, NEW t \in Targets,
         NEW f \in File \cup {None}, entry' = [entry EXCEPT ![d][t] = f]
  PROVE  /\ entry' \in [Dirs -> [Targets -> File \cup {None}]]
         /\ entry'[d][t] = f
         /\ \A e \in Dirs, u \in Targets : e # d \/ u # t => entry'[e][u] = entry[e][u]
  <1>1. entry' = [entry EXCEPT ![d] = [entry[d] EXCEPT ![t] = f]]
    OBVIOUS
  <1>2. entry[d] \in [Targets -> File \cup {None}]
    OBVIOUS
  <1>3. [entry[d] EXCEPT ![t] = f] \in [Targets -> File \cup {None}]
    BY <1>2
  <1>4. QED
    BY <1>1, <1>2, <1>3

\* What the act does to the files: one name of the directory is set, if any.
LEMMA PeerFiles ==
  ASSUME TypeOK, NEW x \in Peers, Peer(x), ~PeerSwap(x)
  PROVE  \E t \in Targets, f \in File \cup {None} :
         /\ Touch(t)
         /\ entry' = entry \/ entry' = [entry EXCEPT ![sources][t] = f]
         /\ \/ f = <<x, t>> /\ UNCHANGED <<aliased, edited, back>>
               /\ entry' = [entry EXCEPT ![sources][t] = f]
               /\ placed' = (placed \ {entry[sources][t]}) \cup {f}
            \/ f = None /\ entry[sources][t] # None /\ UNCHANGED <<edited, placed, back>>
               /\ aliased' = aliased \cup {entry[sources][t]}
            \/ f \in aliased /\ f[2] = t /\ UNCHANGED edited
               /\ entry' = [entry EXCEPT ![sources][t] = f]
               /\ aliased' = aliased \ {f} /\ back' = back \cup {f}
               /\ placed' = placed \ {entry[sources][t]}
            \/ entry' = entry /\ entry[sources][t] # None /\ UNCHANGED <<aliased, placed, back>>
               /\ edited' = edited \cup {entry[sources][t]}
  <1>0. aliased \subseteq File
    BY DEF TypeOK
  <1>1. ASSUME NEW t \in Targets, PeerPut(x, t)
        PROVE  /\ <<x, t>> \in File \cup {None} /\ Touch(t) /\ UNCHANGED <<aliased, edited, back>>
               /\ entry' = [entry EXCEPT ![sources][t] = <<x, t>>]
               /\ placed' = (placed \ {entry[sources][t]}) \cup {<<x, t>>}
    BY <1>1, FileType DEF PeerPut
  <1>2. ASSUME NEW t \in Targets, PeerLink(x, t)
        PROVE  /\ Touch(t) /\ UNCHANGED <<edited, placed, back>> /\ entry[sources][t] # None
               /\ aliased' = aliased \cup {entry[sources][t]}
               /\ entry' = entry \/ entry' = [entry EXCEPT ![sources][t] = None]
    BY <1>2 DEF PeerLink
  <1>3. ASSUME NEW t \in Targets, PeerEdit(x, t)
        PROVE  /\ Touch(t) /\ UNCHANGED <<entry, aliased, placed, back>> /\ entry[sources][t] # None
               /\ edited' = edited \cup {entry[sources][t]}
    BY <1>3 DEF PeerEdit
  <1>4. ASSUME NEW f \in aliased, PeerReturn(x, f)
        PROVE  /\ f \in File \cup {None} /\ f[2] \in Targets /\ Touch(f[2]) /\ UNCHANGED edited
               /\ entry' = [entry EXCEPT ![sources][f[2]] = f]
               /\ aliased' = aliased \ {f} /\ back' = back \cup {f}
               /\ placed' = placed \ {entry[sources][f[2]]}
    BY <1>0, <1>4, FileType DEF PeerReturn
  <1>5. None \in File \cup {None}
    OBVIOUS
  <1>6. CASE \E t \in Targets : PeerPut(x, t)
    <2>1. PICK t \in Targets : PeerPut(x, t)
      BY <1>6
    <2>2. QED
      BY <1>1, <2>1
  <1>7. CASE \E t \in Targets : PeerLink(x, t)
    <2>1. PICK t \in Targets : PeerLink(x, t)
      BY <1>7
    <2>2. QED
      BY <1>2, <1>5, <2>1
  <1>8. CASE \E t \in Targets : PeerEdit(x, t)
    <2>1. PICK t \in Targets : PeerEdit(x, t)
      BY <1>8
    <2>2. QED
      BY <1>3, <1>5, <2>1
  <1>9. CASE \E f \in aliased : PeerReturn(x, f)
    <2>1. PICK f \in aliased : PeerReturn(x, f)
      BY <1>9
    <2>2. QED
      BY <1>4, <2>1
  <1>10. QED
    BY <1>6, <1>7, <1>8, <1>9 DEF Peer


LEMMA PeerTyped ==
  ASSUME TypeOK, NEW x \in Peers, Peer(x)
  PROVE  TypeOK'
  <1>0. /\ RestTyped /\ owned \in [Procs -> Seq(Targets)] /\ x \in Dirs
        /\ entry \in [Dirs -> [Targets -> File \cup {None}]]
        /\ aliased \subseteq File /\ edited \subseteq File /\ placed \subseteq File /\ back \subseteq File
        /\ touched \subseteq Procs \X Targets /\ sources \in Dirs \cup {None} /\ idle \subseteq Peers
    BY TypeSplit DEF Dirs, RestTyped
  <1>1. /\ owned' = owned /\ idle' \subseteq Peers /\ sources' \in Dirs \cup {None} /\ sources \in Dirs
        /\ UNCHANGED <<lock, lease, temp, qtemp, quar, qdir, pc, bound, made, tmp,
                       checked, held, left, faults>>
    BY <1>0, PeerShape
  <1>2. touched' \subseteq Procs \X Targets
    <2>1. ASSUME NEW t \in Targets, Touch(t) PROVE touched' \subseteq Procs \X Targets
      BY <1>0, <2>1 DEF Touch
    <2>2. CASE PeerSwap(x)
      BY <1>0, <2>2 DEF PeerSwap
    <2>3. CASE ~PeerSwap(x)
      BY <2>1, <2>3, PeerFiles
    <2>4. QED
      BY <2>2, <2>3
  <1>3. /\ entry' \in [Dirs -> [Targets -> File \cup {None}]]
        /\ aliased' \subseteq File /\ edited' \subseteq File /\ placed' \subseteq File /\ back' \subseteq File
    <2>1. CASE PeerSwap(x)
      BY <1>0, <2>1, PeerShape
    <2>2. CASE ~PeerSwap(x)
      <3>1. PICK t \in Targets, f \in File \cup {None} :
         /\ entry' = entry \/ entry' = [entry EXCEPT ![sources][t] = f]
         /\ \/ f = <<x, t>> /\ UNCHANGED <<aliased, edited, back>>
               /\ entry' = [entry EXCEPT ![sources][t] = f]
               /\ placed' = (placed \ {entry[sources][t]}) \cup {f}
            \/ f = None /\ entry[sources][t] # None /\ UNCHANGED <<edited, placed, back>>
               /\ aliased' = aliased \cup {entry[sources][t]}
            \/ f \in aliased /\ f[2] = t /\ UNCHANGED edited
               /\ entry' = [entry EXCEPT ![sources][t] = f]
               /\ aliased' = aliased \ {f} /\ back' = back \cup {f}
               /\ placed' = placed \ {entry[sources][t]}
            \/ entry' = entry /\ entry[sources][t] # None /\ UNCHANGED <<aliased, placed, back>>
               /\ edited' = edited \cup {entry[sources][t]}
        BY <2>2, PeerFiles
      <3>2. entry' \in [Dirs -> [Targets -> File \cup {None}]]
        BY <1>0, <1>1, <3>1, PeerSet
      <3>3. entry[sources][t] \in File \cup {None} /\ <<x, t>> \in File
        BY <1>0, <1>1, FileType
      <3>4. QED
        BY <1>0, <3>1, <3>2, <3>3
    <2>3. QED
      BY <2>1, <2>2
  <1>4. RestTyped'
    BY <1>0, <1>1, <1>2, <1>3 DEF RestTyped
  <1>5. QED
    BY <1>0, <1>1, <1>4, TypeSplit

-----------------------------------------------------------------------------
(* The base invariant.                                                     *)

LEMMA SameNames ==
  ASSUME NEW q, owned'[q] = owned[q]
  PROVE  /\ Names(q)' = Names(q) /\ Current(q)' = Current(q)
         /\ Distinct(owned[q])' <=> Distinct(owned[q])
         /\ pc'[q] = pc[q] => \A t : Resolving(q, t)' <=> Resolving(q, t)
  BY DEF Names, Current, Distinct, Resolving

LEMMA NoNames ==
  ASSUME NEW p \in Procs, owned \in [Procs -> Seq(Targets)], owned' = [owned EXCEPT ![p] = <<>>]
  PROVE  /\ owned' \in [Procs -> Seq(Targets)] /\ owned'[p] = <<>>
         /\ Names(p)' = {} /\ Distinct(owned[p])'
  <1>1. <<>> \in Seq(Targets) /\ Len(<<>>) = 0
    OBVIOUS
  <1>2. owned' \in [Procs -> Seq(Targets)] /\ owned'[p] = <<>>
    BY <1>1
  <1>3. QED
    BY <1>1, <1>2 DEF Names, Distinct

\* What becomes of the targets.
OwnedStep(p) ==
  \/ owned' = owned /\ Names(p)' = Names(p) /\ Current(p)' = Current(p)
  \/ /\ Link(p) /\ owned'[p] # <<>>
     /\ Names(p)' = Names(p) \cup {tmp[p].target}
  \/ /\ Pop(p) /\ owned[p] # <<>> /\ pc[p] \in Removing
     /\ Names(p)' = Names(p) \ {Current(p)}
  \/ owned'[p] = <<>> /\ Names(p)' = {} /\ pc'[p] \in Ended

LEMMA StepOwned ==
  ASSUME TypeOK, NEW p \in Procs, LocalInv(p), Enter(p) \/ Step(p) \/ Crash(p)
  PROVE  owned' \in [Procs -> Seq(Targets)] /\ Distinct(owned[p])' /\ OwnedStep(p)
  <1>0. /\ owned \in [Procs -> Seq(Targets)] /\ Distinct(owned[p])
        /\ pc \in [Procs -> Labels]
    BY TypeSplit, Shapes DEF LocalInv
  <1>1. CASE owned' = owned
    BY <1>0, <1>1, SameNames DEF OwnedStep
  <1>2. CASE Link(p)
    <2>1. /\ tmp[p].target \in Targets /\ tmp[p].target \notin Names(p)
          /\ owned' = [owned EXCEPT ![p] = Append(owned[p], tmp[p].target)]
      BY <1>2, Shapes DEF Link, LocalInv, Temporary
    <2>2. QED
      BY <1>0, <1>2, <2>1, PushNames DEF OwnedStep
  <1>3. CASE Pop(p) /\ owned[p] # <<>> /\ pc[p] \in Removing
    BY <1>0, <1>3, PopNames DEF OwnedStep
  <1>4. CASE owned' = [owned EXCEPT ![p] = <<>>] /\ pc'[p] \in Ended
    BY <1>0, <1>4, NoNames DEF OwnedStep
  <1>5. ASSUME Close(p) \/ Crash(p)
        PROVE owned' = owned \/ (owned' = [owned EXCEPT ![p] = <<>>] /\ pc'[p] \in Ended)
    BY <1>0, <1>5 DEF Close, Crash, Forget, locals, Goto, Ended
  <1>6. ASSUME RollbackOpen(p) \/ RollbackMove(p) \/ RollbackUnlink(p)
        PROVE owned' = owned \/ (Pop(p) /\ owned[p] # <<>> /\ pc[p] \in Removing)
    BY <1>6 DEF RollbackOpen, RollbackMove, RollbackUnlink, LocalInv, Removing
  <1>7. ASSUME Resolve(p)
        PROVE owned' = owned \/ (Pop(p) /\ owned[p] # <<>> /\ pc[p] \in Removing)
    BY <1>7, ResolveShape DEF LocalInv, Removing
  <1>8. Link(p) \/ Close(p) \/ Crash(p) \/ RollbackOpen(p) \/ RollbackMove(p) \/ RollbackUnlink(p)
          \/ Resolve(p) \/ owned' = owned
    BY DEF Step, Enter, OpenDirectory, BindDirectory, CreateTemporary, WriteTemporary, UnlinkTemporary,
       BeginCommit, Verify, Fail, RollbackTemporary, RollbackDirectory, MoveDirectory, ResolveDirectory,
       RemoveDirectory, locals
  <1>9. QED
    BY <1>1, <1>2, <1>3, <1>4, <1>5, <1>6, <1>7, <1>8

LEMMA AfterPop ==
  ASSUME TypeOK, NEW p \in Procs, LocalInv(p), Pop(p), owned[p] # <<>>, pc[p] \in Removing,
         bound' = bound, Names(p)' = Names(p) \ {Current(p)}, Distinct(owned[p])',
         quar' \in [Procs -> [Targets -> File \cup {None}]],
         \A t \in Targets : t # Current(p) => quar'[p][t] = quar[p][t]
  PROVE  LocalInv(p)'
  <1>1. pc'[p] = "rb_open" /\ bound[p] # None /\ Names(p) \subseteq Targets
    BY Shapes, OwnedShape DEF Pop, Goto, LocalInv
  <1>2. ASSUME NEW t \in Names(p)' PROVE quar'[p][t] = None
    <2>1. t \in Names(p) /\ t # Current(p) /\ t \in Targets
      BY <1>1, <1>2
    <2>2. ~Resolving(p, t)
      BY <2>1 DEF Resolving
    <2>3. QED
      BY <2>1, <2>2 DEF LocalInv
  <1>3. QED
    BY <1>1, <1>2 DEF LocalInv, Emptying, Publishing

\* The rest of LocalInv, which follows the steps of the transaction itself.
LEMMA LocalKept ==
  ASSUME TypeOK, NEW p \in Procs, LocalInv(p), WaitInv(p), Enter(p) \/ Step(p) \/ Crash(p)
  PROVE  LocalInv(p)'
  <1>0. /\ pc \in [Procs -> Labels] /\ bound \in [Procs -> Dirs \cup {None}]
        /\ made \in [Procs -> Dirs \cup {None, Unknown}]
        /\ tmp \in [Procs -> Temporary \cup {None}]
        /\ quar \in [Procs -> [Targets -> File \cup {None}]]
        /\ qdir \in [Procs -> Dirs \cup {None}] /\ sources \in Dirs \cup {None}
        /\ Names(p) \subseteq Targets
        /\ owned[p] # <<>> => Current(p) \in Names(p)
        /\ owned[p] = <<>> => Names(p) = {}
        /\ None \notin Dirs /\ Unknown \notin Dirs /\ None # Unknown
        /\ None \notin Temporary /\ None \notin File
        /\ \A t \in Targets : <<p, t>> \in File
    BY Shapes, OwnedShape, Disjoint, FileType DEF Dirs
  <1>a. owned' \in [Procs -> Seq(Targets)] /\ Distinct(owned[p])' /\ OwnedStep(p)
    BY StepOwned

  <1>1. CASE Enter(p)
    <2>1. /\ pc[p] = "idle" /\ pc'[p] = "body" /\ UNCHANGED <<bound, made, tmp, owned, quar, qdir>>
      BY <1>0, <1>1 DEF Enter, Goto, names, locals
    <2>2. QED
      BY <1>0, <1>a, <2>1, SameNames DEF LocalInv, WaitInv, Resolving, Emptying, Publishing
  <1>2. CASE OpenDirectory(p)
    BY <1>0, <1>a, <1>2, SameNames DEF OpenDirectory, Goto, history,
     LocalInv, Resolving, Emptying, Publishing
  <1>3. CASE BindDirectory(p)
    BY <1>0, <1>a, <1>3, SameNames DEF BindDirectory, Goto, names, history,
     LocalInv, Resolving, Emptying, Publishing
  <1>4. ASSUME NEW t \in Targets, CreateTemporary(p, t) PROVE LocalInv(p)'
    <2>1. t \in Targets /\ t \notin Names(p) /\ bound[p] # None /\ pc[p] = "body"
      BY <1>4, OwnedShape DEF CreateTemporary, Names
    <2>2. [target |-> t, known |-> FALSE] \in Temporary /\ [target |-> t, known |-> FALSE].target = t
      BY <2>1 DEF Temporary
    <2>3. pc'[p] = "write" /\ tmp'[p] # None /\ tmp'[p].target = t
      BY <1>0, <1>4, <2>2 DEF CreateTemporary, Goto
    <2>4. UNCHANGED <<owned, bound, quar, made, qdir>>
      BY <1>4 DEF CreateTemporary
    <2>5. QED
      BY <1>0, <1>a, <2>1, <2>3, <2>4, SameNames DEF LocalInv, Resolving, Emptying, Publishing
  <1>5. CASE WriteTemporary(p)
    <2>1. tmp[p] \in Temporary /\ pc[p] = "write" /\ pc'[p] = "link"
      BY <1>0, <1>5 DEF WriteTemporary, LocalInv, Goto
    <2>2. [tmp[p] EXCEPT !.known = TRUE] \in Temporary /\ [tmp[p] EXCEPT !.known = TRUE].target = tmp[p].target
      BY <2>1 DEF Temporary
    <2>3. tmp' = [tmp EXCEPT ![p] = [tmp[p] EXCEPT !.known = TRUE]]
      BY <1>5 DEF WriteTemporary
    <2>4. tmp'[p] # None /\ tmp'[p].target = tmp[p].target
      BY <1>0, <2>2, <2>3
    <2>5. UNCHANGED <<owned, bound, quar, made, qdir>>
      BY <1>5 DEF WriteTemporary, names
    <2>6. QED
      BY <1>0, <1>a, <2>1, <2>4, <2>5, SameNames DEF LocalInv, Resolving, Emptying, Publishing
  <1>6. CASE Link(p)
    <2>1. pc[p] = "link" /\ pc'[p] = "unlink" /\ UNCHANGED <<bound, quar, made, qdir, tmp>>
      BY <1>0, <1>6 DEF Link, Goto
    <2>2. Names(p)' = Names(p) \cup {tmp[p].target} /\ tmp[p].target \in Targets
      <3>1. owned' = [owned EXCEPT ![p] = Append(owned[p], tmp[p].target)] /\ tmp[p].target \in Targets
        BY <1>0, <1>6 DEF Link, LocalInv, Temporary
      <3>2. QED
        BY <3>1, PushNames, OwnedShape
    <2>3. \A t \in Targets : quar[p][t] = None
      BY <2>1 DEF LocalInv, Publishing
    <2>4. QED
      BY <1>0, <1>a, <2>1, <2>2, <2>3 DEF LocalInv, Emptying, Publishing
  <1>7. CASE UnlinkTemporary(p)
    BY <1>0, <1>a, <1>7, SameNames DEF UnlinkTemporary, Goto, history,
     LocalInv, Resolving, Emptying, Publishing
  <1>8. CASE BeginCommit(p)
    BY <1>0, <1>a, <1>8, SameNames DEF BeginCommit, Goto, names, locals,
     history, LocalInv, Resolving, Emptying, Publishing
  <1>9. CASE Verify(p)
    BY <1>0, <1>a, <1>9, SameNames DEF Verify, Goto, names, history,
     LocalInv, Resolving, Emptying, Publishing
  <1>10. CASE Fail(p)
    BY <1>0, <1>a, <1>10, SameNames DEF Fail, Goto, names, history,
     LocalInv, Resolving, Emptying, Publishing
  <1>11. CASE RollbackTemporary(p)
    BY <1>0, <1>a, <1>11, SameNames DEF RollbackTemporary, Goto, Leave,
     Faulted, LocalInv, Resolving, Emptying, Publishing
  <1>12. CASE RollbackOpen(p)
    <2>0. pc[p] = "rb_open" /\ UNCHANGED <<bound, quar, made, qdir, tmp>>
      BY <1>12 DEF RollbackOpen, names
    <2>1. CASE owned[p] = <<>> /\ Goto(p, "rb_dir") /\ owned' = owned
      BY <1>0, <1>a, <2>0, <2>1, SameNames DEF LocalInv, Emptying, Publishing, Goto, Resolving
    <2>2. CASE owned[p] # <<>> /\ Goto(p, "rb_move") /\ owned' = owned
      BY <1>0, <1>a, <2>0, <2>2, SameNames DEF LocalInv, Emptying, Publishing, Goto, Resolving
    <2>3. CASE owned[p] # <<>> /\ Pop(p)
      BY <1>0, <1>a, <2>0, <2>3, AfterPop, PopNames DEF Removing, LocalInv
    <2>4. QED
      BY <1>12, <2>1, <2>2, <2>3 DEF RollbackOpen
  <1>13. CASE RollbackMove(p)
    <2>0. pc[p] = "rb_move" /\ UNCHANGED <<bound, made, qdir, tmp>> /\ owned[p] # <<>>
      BY <1>13 DEF RollbackMove, LocalInv
    <2>1. CASE Pop(p) /\ quar' = quar
      BY <1>0, <1>a, <2>0, <2>1, AfterPop, PopNames DEF Removing, LocalInv
    <2>2. CASE /\ Goto(p, "rb_resolve") /\ owned' = owned /\ Here(p, Current(p)) # None
               /\ quar' = [quar EXCEPT ![p][Current(p)] = Here(p, Current(p))]
      <3>1. Here(p, Current(p)) \in File \cup {None} /\ Current(p) \in Targets
        BY <1>0, <2>0, Shapes DEF Here, LocalInv
      <3>2. quar'[p][Current(p)] # None /\ \A t \in Targets : t # Current(p) => quar'[p][t] = quar[p][t]
        BY <1>0, <2>2, <3>1, QuarSet
      <3>3. \A t \in Names(p) : t # Current(p) => quar[p][t] = None
        BY DEF LocalInv, Resolving
      <3>4. pc'[p] = "rb_resolve"
        BY <1>0, <2>2 DEF Goto
      <3>5. QED
        BY <1>0, <1>a, <2>0, <2>2, <3>2, <3>3, <3>4, SameNames DEF LocalInv, Emptying, Publishing, Resolving
    <2>3. QED
      BY <1>13, <2>1, <2>2 DEF RollbackMove
  <1>14. CASE Resolve(p)
    <2>0. /\ pc[p] = "rb_resolve" /\ UNCHANGED <<bound, made, qdir, tmp>> /\ owned[p] # <<>>
          /\ Current(p) \in Targets /\ pc[p] \in Removing
      BY <1>0, <1>14, ResolveShape DEF LocalInv, Removing
    <2>1. CASE /\ quar[p][Current(p)] = <<p, Current(p)>> /\ Goto(p, "rb_unlink")
               /\ UNCHANGED <<quar, owned>>
      <3>1. pc'[p] = "rb_unlink"
        BY <1>0, <2>1 DEF Goto
      <3>2. QED
        BY <1>0, <1>a, <2>0, <2>1, <3>1, SameNames DEF LocalInv, Emptying, Publishing, Resolving
    <2>2. ASSUME Pop(p), NEW r, PutBack(p, Current(p), r) PROVE LocalInv(p)'
      <3>1. quar' = [quar EXCEPT ![p][Current(p)] = None] /\ None \in File \cup {None}
        BY <2>2 DEF PutBack
      <3>2. /\ quar' \in [Procs -> [Targets -> File \cup {None}]]
            /\ \A t \in Targets : t # Current(p) => quar'[p][t] = quar[p][t]
        BY <1>0, <2>0, <3>1, QuarSet
      <3>3. QED
        BY <1>a, <2>0, <2>2, <3>2, AfterPop, PopNames DEF LocalInv
    <2>3. ASSUME Pop(p), NEW r, StayQuarantined(p, Current(p), r) PROVE LocalInv(p)'
      <3>1. quar' = quar
        BY <2>3 DEF StayQuarantined
      <3>2. QED
        BY <1>0, <1>a, <2>0, <2>3, <3>1, AfterPop, PopNames DEF LocalInv
    <2>4. QED
      BY <1>14, <2>1, <2>2, <2>3, ResolveShape
  <1>15. CASE RollbackUnlink(p)
    <2>0. /\ pc[p] = "rb_unlink" /\ UNCHANGED <<bound, made, qdir, tmp>> /\ owned[p] # <<>>
          /\ Current(p) \in Targets /\ pc[p] \in Removing /\ Pop(p)
      BY <1>0, <1>15 DEF RollbackUnlink, LocalInv, Removing
    <2>1. quar' = quar \/ quar' = [quar EXCEPT ![p][Current(p)] = None]
      BY <1>15 DEF RollbackUnlink
    <2>2. /\ quar' \in [Procs -> [Targets -> File \cup {None}]]
          /\ \A t \in Targets : t # Current(p) => quar'[p][t] = quar[p][t]
      <3>1. None \in File \cup {None}
        OBVIOUS
      <3>2. QED
        BY <1>0, <2>0, <2>1, <3>1, QuarSet
    <2>3. QED
      BY <1>a, <2>0, <2>2, AfterPop, PopNames DEF LocalInv
  <1>16. CASE RollbackDirectory(p)
    BY <1>0, <1>a, <1>16, SameNames DEF RollbackDirectory, Goto, Leave,
     Faulted, names, LocalInv, Resolving, Emptying, Publishing
  <1>17. CASE MoveDirectory(p)
    BY <1>0, <1>a, <1>17, SameNames DEF MoveDirectory, Goto, Leave,
     Faulted, LocalInv, Resolving, Emptying, Publishing
  <1>18. CASE ResolveDirectory(p)
    BY <1>0, <1>a, <1>18, SameNames DEF ResolveDirectory, Goto, Leave,
     Faulted, LocalInv, Resolving, Emptying, Publishing
  <1>19. CASE RemoveDirectory(p)
    BY <1>0, <1>a, <1>19, SameNames DEF RemoveDirectory, Goto, Leave,
     Faulted, LocalInv, Resolving, Emptying, Publishing
  <1>20. CASE Close(p)
    BY <1>0, <1>a, <1>20, SameNames DEF Close, Goto, Forget, names, locals,
     history, LocalInv, Resolving, Emptying, Publishing
  <1>21. CASE Crash(p)
    <2>1. pc'[p] = "dead" /\ owned'[p] = <<>> /\ Names(p)' = {}
      <3>1. owned' = [owned EXCEPT ![p] = <<>>] /\ pc'[p] = "dead"
        BY <1>0, <1>21 DEF Crash, Forget, Goto
      <3>2. QED
        BY <3>1, NoNames, OwnedShape
    <2>2. QED
      BY <1>a, <2>1 DEF LocalInv, Emptying, Publishing
  <1>22. QED
    BY <1>1, <1>2, <1>3, <1>4, <1>5, <1>6, <1>7, <1>8, <1>9, <1>10, <1>11, <1>12, <1>13, <1>14, <1>15, <1>16, <1>17, <1>18, <1>19, <1>20, <1>21 DEF Step

\* What becomes of the files: a step of a transaction moves at most the one
\* it works on.
EntryAt(p, t, f) ==
  /\ entry'[bound[p]][t] = f
  /\ \A d \in Dirs, u \in Targets : d # bound[p] \/ u # t => entry'[d][u] = entry[d][u]
QuarAt(p, t, f) ==
  /\ quar'[p][t] = f
  /\ \A q \in Procs, u \in Targets : q # p \/ u # t => quar'[q][u] = quar[q][u]
FilesStep(p) ==
  \/ UNCHANGED <<entry, quar>>
  \/ \E t \in Targets :
       /\ bound[p] \in Dirs
       /\ \/ /\ Link(p) /\ t = tmp[p].target /\ Here(p, t) = None
             /\ EntryAt(p, t, <<p, t>>) /\ UNCHANGED quar
          \/ /\ RollbackMove(p) /\ t = Current(p) /\ quar[p][t] = None
             /\ pc'[p] = "rb_resolve" /\ owned' = owned /\ faults' = faults
             /\ EntryAt(p, t, None) /\ QuarAt(p, t, Here(p, t))
          \/ /\ Resolve(p) /\ Pop(p) /\ t = Current(p) /\ Here(p, t) = None
             /\ EntryAt(p, t, quar[p][t]) /\ QuarAt(p, t, None)
          \/ /\ RollbackUnlink(p) /\ Pop(p) /\ t = Current(p) /\ quar[p][t] = <<p, t>>
             /\ UNCHANGED entry /\ QuarAt(p, t, None)

LEMMA StepFiles ==
  ASSUME TypeOK, NEW p \in Procs, LocalInv(p), Enter(p) \/ Step(p) \/ Crash(p)
  PROVE  FilesStep(p)
  <1>0. /\ entry \in [Dirs -> [Targets -> File \cup {None}]]
        /\ quar \in [Procs -> [Targets -> File \cup {None}]]
        /\ pc \in [Procs -> Labels] /\ None \in File \cup {None}
        /\ \A t \in Targets : <<p, t>> \in File \cup {None}
    BY Shapes, FileType
  <1>a. /\ owned[p] # <<>> => Current(p) \in Names(p) /\ Current(p) \in Targets /\ bound[p] \in Dirs
        /\ bound[p] # None => bound[p] \in Dirs
        /\ pc[p] \in {"rb_move", "rb_resolve", "rb_unlink"} => owned[p] # <<>>
    BY OwnedShape, Shapes DEF LocalInv
  <1>1. CASE Link(p)
    <2>1. PICK t \in Targets : t = tmp[p].target
      BY <1>1, Shapes DEF Link, LocalInv, Temporary
    <2>2. /\ bound[p] \in Dirs /\ Here(p, t) = None /\ SetEntry(p, t, <<p, t>>) /\ quar' = quar
      BY <1>1, <2>1, Shapes DEF Link, LocalInv
    <2>3. PICK f \in File \cup {None} : f = <<p, t>>
      BY <1>0
    <2>4. EntryAt(p, t, f)
      BY <1>0, <2>2, <2>3, EntrySet DEF EntryAt
    <2>5. QED
      BY <1>1, <2>1, <2>2, <2>3, <2>4 DEF FilesStep
  <1>2. CASE RollbackMove(p)
    <2>1. Current(p) \in Targets /\ bound[p] \in Dirs /\ pc[p] = "rb_move" /\ quar[p][Current(p)] = None
      BY <1>a, <1>2 DEF RollbackMove, LocalInv, Resolving
    <2>2. CASE UNCHANGED <<entry, quar>>
      BY <2>2 DEF FilesStep
    <2>3. CASE /\ quar' = [quar EXCEPT ![p][Current(p)] = Here(p, Current(p))]
               /\ SetEntry(p, Current(p), None) /\ Goto(p, "rb_resolve")
               /\ UNCHANGED <<owned, faults>>
      <3>1. Here(p, Current(p)) \in File \cup {None}
        BY <1>0, <2>1 DEF Here
      <3>2. EntryAt(p, Current(p), None) /\ QuarAt(p, Current(p), Here(p, Current(p)))
        BY <1>0, <2>1, <2>3, <3>1, EntrySet, QuarSet DEF EntryAt, QuarAt
      <3>3. pc'[p] = "rb_resolve"
        BY <1>0, <2>3 DEF Goto
      <3>4. QED
        BY <1>2, <2>1, <2>3, <3>2, <3>3 DEF FilesStep
    <2>4. QED
      BY <1>2, <2>2, <2>3 DEF RollbackMove
  <1>3. CASE Resolve(p)
    <2>1. Current(p) \in Targets /\ bound[p] \in Dirs
      BY <1>a, <1>3, ResolveShape
    <2>2. CASE UNCHANGED <<entry, quar>>
      BY <2>2 DEF FilesStep
    <2>3. ASSUME Pop(p), NEW r, PutBack(p, Current(p), r) PROVE FilesStep(p)
      <3>1. quar[p][Current(p)] \in File \cup {None} /\ Here(p, Current(p)) = None
        BY <1>0, <2>1, <2>3 DEF PutBack
      <3>2. EntryAt(p, Current(p), quar[p][Current(p)]) /\ QuarAt(p, Current(p), None)
        BY <1>0, <2>1, <2>3, <3>1, EntrySet, QuarSet DEF EntryAt, QuarAt, PutBack
      <3>3. QED
        BY <1>3, <2>1, <2>3, <3>1, <3>2 DEF FilesStep
    <2>4. ASSUME NEW r, StayQuarantined(p, Current(p), r) PROVE UNCHANGED <<entry, quar>>
      BY <2>4 DEF StayQuarantined
    <2>5. QED
      BY <1>3, <2>2, <2>3, <2>4, ResolveShape
  <1>4. CASE RollbackUnlink(p)
    <2>1. /\ Current(p) \in Targets /\ bound[p] \in Dirs /\ Pop(p) /\ entry' = entry
          /\ quar[p][Current(p)] = <<p, Current(p)>>
          /\ quar' = quar \/ quar' = [quar EXCEPT ![p][Current(p)] = None]
      BY <1>a, <1>4 DEF RollbackUnlink, LocalInv
    <2>2. CASE quar' = quar
      BY <2>1, <2>2 DEF FilesStep
    <2>3. CASE quar' = [quar EXCEPT ![p][Current(p)] = None]
      <3>1. QuarAt(p, Current(p), None)
        BY <1>0, <2>1, <2>3, QuarSet DEF QuarAt
      <3>2. QED
        BY <1>4, <2>1, <3>1 DEF FilesStep
    <2>4. QED
      BY <2>1, <2>2, <2>3
  <1>5. Link(p) \/ RollbackMove(p) \/ Resolve(p) \/ RollbackUnlink(p) \/ UNCHANGED <<entry, quar>>
    BY DEF Step, Enter, OpenDirectory, BindDirectory, CreateTemporary, WriteTemporary, UnlinkTemporary,
       BeginCommit, Verify, Fail, RollbackTemporary, RollbackOpen, RollbackDirectory, MoveDirectory,
       ResolveDirectory, RemoveDirectory, Close, Crash, names
  <1>6. QED
    BY <1>1, <1>2, <1>3, <1>4, <1>5 DEF FilesStep

\* What becomes of the directories.
LEMMA StepDirs ==
  ASSUME TypeOK, NEW p \in Procs, LocalInv(p), Enter(p) \/ Step(p) \/ Crash(p)
  PROVE  /\ sources' \in {sources, p, qdir[p], None}
         /\ qdir'[p] \in {qdir[p], sources, None}
         /\ bound'[p] = bound[p] \/ (bound[p] = None /\ bound'[p] = sources /\ sources # None
                                         /\ pc[p] \in Publishing)
  <1>0. /\ qdir \in [Procs -> Dirs \cup {None}] /\ bound \in [Procs -> Dirs \cup {None}]
        /\ pc[p] = "open_dir" => bound[p] = None
    BY Shapes DEF LocalInv
  <1>1. CASE OpenDirectory(p) \/ BindDirectory(p)
    BY <1>0, <1>1 DEF OpenDirectory, BindDirectory, Publishing, names
  <1>2. CASE MoveDirectory(p) \/ ResolveDirectory(p) \/ RemoveDirectory(p)
    BY <1>0, <1>2 DEF MoveDirectory, ResolveDirectory, RemoveDirectory
  <1>3. CASE Resolve(p)
    BY <1>3, ResolveShape
  <1>4. \/ OpenDirectory(p) \/ BindDirectory(p)
        \/ MoveDirectory(p) \/ ResolveDirectory(p) \/ RemoveDirectory(p) \/ Resolve(p)
        \/ UNCHANGED <<sources, qdir, bound>>
    BY DEF Step, Enter, CreateTemporary, WriteTemporary, Link, UnlinkTemporary,
       BeginCommit, Verify, Fail, RollbackTemporary, RollbackOpen, RollbackMove, RollbackUnlink,
       RollbackDirectory, Close, Crash, Forget, names, locals
  <1>5. QED
    BY <1>1, <1>2, <1>3, <1>4

\* Who holds the flock.
LEMMA StepLock ==
  ASSUME TypeOK, NEW p \in Procs, Enter(p) \/ Step(p) \/ Crash(p)
  PROVE  \/ lock' = lock /\ pc[p] \in Active /\ pc'[p] \in Active
         \/ Enter(p) /\ lock = None /\ lock' = p
         \/ lock' = None /\ pc[p] \in Active /\ pc'[p] \in Ended
  <1>0. pc \in [Procs -> Labels]
    BY Shapes
  <1>1. CASE Enter(p)
    BY <1>1 DEF Enter
  <1>2. CASE Resolve(p)
    BY <1>0, <1>2, ResolveShape DEF Pop, Goto, Active, RollingBack
  <1>3. CASE Close(p) \/ Crash(p)
    BY <1>0, <1>3 DEF Close, Crash, Goto, Active, Ended
  <1>4. CASE \/ OpenDirectory(p) \/ BindDirectory(p) \/ (\E t \in Targets : CreateTemporary(p, t))
             \/ WriteTemporary(p) \/ Link(p) \/ UnlinkTemporary(p) \/ BeginCommit(p) \/ Verify(p) \/ Fail(p)
    BY <1>0, <1>4 DEF OpenDirectory, BindDirectory, CreateTemporary, WriteTemporary, Link, UnlinkTemporary,
       BeginCommit, Verify, Fail, Goto, Active, Publishing, RollingBack
  <1>5. CASE \/ RollbackTemporary(p) \/ RollbackOpen(p) \/ RollbackMove(p) \/ RollbackUnlink(p)
             \/ RollbackDirectory(p) \/ MoveDirectory(p) \/ ResolveDirectory(p) \/ RemoveDirectory(p)
    BY <1>0, <1>5 DEF RollbackTemporary, RollbackOpen, RollbackMove, RollbackUnlink, RollbackDirectory,
       MoveDirectory, ResolveDirectory, RemoveDirectory, Pop, Goto, Active, RollingBack
  <1>6. QED
    BY <1>1, <1>2, <1>3, <1>4, <1>5 DEF Step

LEMMA BaseKept ==
  ASSUME BaseInv, NEW p \in Procs, WaitInv(p), Enter(p) \/ Step(p) \/ Crash(p)
  PROVE  BaseInv'
  <1>0. TypeOK /\ LocalInv(p) /\ Alone(p)
    BY StepAlone DEF BaseInv
  <1>1. TypeOK'
    BY <1>0, StepTyped, StepOwned, TypeSplit
  <1>2. LockInv'
    <2>1. ASSUME NEW q \in Procs, pc'[q] \in Active PROVE lock' = q
      <3>1. CASE q = p
        <4>1. ~(pc'[p] \in Active /\ pc'[p] \in Ended)
          BY DEF Active, Ended, Publishing, RollingBack
        <4>2. QED
          BY <1>0, <2>1, <3>1, <4>1, StepLock DEF BaseInv, LockInv
      <3>2. CASE q # p
        <4>1. pc[q] \in Active /\ lock = q
          BY <1>0, <2>1, <3>2 DEF Alone, BaseInv, LockInv
        <4>2. pc[p] \notin Active /\ lock # None
          BY <3>2, <4>1, Disjoint DEF BaseInv, LockInv
        <4>3. QED
          BY <1>0, <4>2, StepLock
      <3>3. QED
        BY <3>1, <3>2
    <2>2. QED
      BY <2>1 DEF LockInv
  <1>3. TargetInv'
    <2>1. TargetInv /\ FilesStep(p)
      BY <1>0, StepFiles DEF BaseInv
    <2>2. \A t : <<p, t>>[2] = t
      OBVIOUS
    <2>3. CASE UNCHANGED <<entry, quar>>
      BY <2>1, <2>3 DEF TargetInv
    <2>4. CASE ~UNCHANGED <<entry, quar>>
      <3>1. PICK t \in Targets :
               /\ bound[p] \in Dirs
               /\ \/ EntryAt(p, t, <<p, t>>) /\ UNCHANGED quar
                  \/ EntryAt(p, t, None) /\ QuarAt(p, t, Here(p, t))
                  \/ EntryAt(p, t, quar[p][t]) /\ QuarAt(p, t, None)
                  \/ UNCHANGED entry /\ QuarAt(p, t, None)
        BY <2>1, <2>4 DEF FilesStep
      <3>2. QED
        BY <2>1, <2>2, <3>1 DEF TargetInv, EntryAt, QuarAt, Here
    <2>5. QED
      BY <2>3, <2>4
  <1>4. ASSUME NEW q \in Procs PROVE LocalInv(q)'
    <2>1. CASE q = p
      BY <1>0, <2>1, LocalKept
    <2>2. CASE q # p
      <3>1. LocalInv(q)
        BY DEF BaseInv
      <3>2. QED
        BY <1>0, <2>2, <3>1, SameNames DEF Alone, LocalInv
    <2>3. QED
      BY <2>1, <2>2
  <1>5. QED
    BY <1>1, <1>2, <1>3, <1>4 DEF BaseInv

LEMMA BaseKeptByPeer ==
  ASSUME BaseInv, NEW x \in Peers, Peer(x)
  PROVE  BaseInv'
  <1>0. /\ TypeOK /\ TypeOK' /\ sources \in Dirs
        /\ entry \in [Dirs -> [Targets -> File \cup {None}]]
        /\ UNCHANGED <<lock, quar, qdir, pc, bound, made, tmp, owned>>
    BY PeerTyped, PeerShape, Shapes DEF BaseInv
  <1>1. LockInv' /\ \A q \in Procs : LocalInv(q)'
    BY <1>0, SameNames DEF BaseInv, LockInv, LocalInv
  <1>2. TargetInv'
    <2>1. CASE entry' = entry
      BY <1>0, <2>1 DEF BaseInv, TargetInv
    <2>2. CASE entry' # entry
      <3>1. ~PeerSwap(x)
        BY <2>2, PeerShape, <1>0
      <3>2. PICK t \in Targets, f \in File \cup {None} :
              /\ entry' = [entry EXCEPT ![sources][t] = f]
              /\ f = <<x, t>> \/ f = None \/ f[2] = t
        BY <1>0, <2>2, <3>1, PeerFiles
      <3>3. f # None => f[2] = t
        BY <3>2
      <3>4. /\ entry'[sources][t] = f
            /\ \A e \in Dirs, u \in Targets : e # sources \/ u # t => entry'[e][u] = entry[e][u]
        BY <1>0, <3>2, PeerSet
      <3>5. QED
        BY <1>0, <3>3, <3>4 DEF BaseInv, TargetInv
    <2>3. QED
      BY <2>1, <2>2
  <1>3. QED
    BY <1>0, <1>1, <1>2 DEF BaseInv

-----------------------------------------------------------------------------
(* A transaction that has not begun, or has no directory, left no trace.   *)

LEMMA TraceKept ==
  ASSUME BaseInv, TraceInv, NEW p \in Procs, Enter(p) \/ Step(p) \/ Crash(p)
  PROVE  TraceInv'
  <1>0. /\ TypeOK /\ LocalInv(p) /\ Alone(p) /\ FilesStep(p) /\ OwnedStep(p)
        /\ bound \in [Procs -> Dirs \cup {None}] /\ None \notin Dirs
        /\ \A f \in Procs, g \in Procs, t \in Targets, u \in Targets : <<f, t>> = <<g, u>> => f = g
        /\ \A q \in Procs, t \in Targets : <<q, t>> # None
    BY StepAlone, StepFiles, StepOwned, Shapes, FileType, Disjoint DEF BaseInv, Dirs
  <1>1. /\ sources' \in {sources, p, qdir[p], None}
        /\ qdir'[p] \in {qdir[p], sources, None}
        /\ bound'[p] = bound[p] \/ (bound[p] = None /\ bound'[p] = sources /\ sources # None)
    BY <1>0, StepDirs
  <1>2. pc'[p] # "idle"
    BY <1>0, StepLock, Shapes DEF Active, Ended, Publishing, RollingBack, Enter, Goto
  <1>3. ASSUME NEW q \in Procs, q # p PROVE WaitInv(q)'
    <2>1. SUFFICES ASSUME pc'[q] = "idle" PROVE WaitInv(q)'
      BY DEF WaitInv
    <2>2. WaitInv(q) /\ pc[q] = "idle"
      BY <1>0, <1>3, <2>1 DEF TraceInv, Alone
    <2>3. \A t \in Targets : entry'[q][t] = entry[q][t]
      <3>1. q \in Dirs /\ bound[p] # q
        BY <2>2 DEF WaitInv, Dirs
      <3>2. QED
        BY <1>0, <3>1 DEF FilesStep, EntryAt
    <2>4. /\ sources' # q /\ \A r \in Procs : bound'[r] # q /\ qdir'[r] # q
      <3>1. q # None
        BY Disjoint
      <3>2. QED
        BY <1>0, <1>1, <1>3, <2>2, <3>1 DEF WaitInv, Alone
    <2>5. QED
      BY <1>0, <1>3, <2>2, <2>3, <2>4 DEF WaitInv, Alone
  <1>4. ASSUME NEW q \in Procs PROVE FreshInv(q)'
    <2>1. SUFFICES ASSUME bound'[q] = None PROVE FreshInv(q)'
      BY DEF FreshInv
    <2>2. bound[q] = None /\ FreshInv(q)
      BY <1>0, <1>1, <2>1 DEF TraceInv, Alone
    <2>3. CASE UNCHANGED <<entry, quar>>
      BY <1>0, <2>2, <2>3 DEF FreshInv, Alone
    <2>4. CASE ~UNCHANGED <<entry, quar>>
      <3>1. PICK t \in Targets :
               /\ bound[p] \in Dirs
               /\ \/ EntryAt(p, t, <<p, t>>) /\ UNCHANGED quar
                  \/ EntryAt(p, t, None) /\ QuarAt(p, t, Here(p, t))
                  \/ EntryAt(p, t, quar[p][t]) /\ QuarAt(p, t, None)
                  \/ UNCHANGED entry /\ QuarAt(p, t, None)
        BY <1>0, <2>4 DEF FilesStep
      <3>2. q # p
        BY <1>0, <2>2, <3>1
      <3>3. \A u \in Targets : /\ \A d \in Dirs : entry'[d][u] # <<q, u>>
                               /\ \A r \in Procs : quar'[r][u] # <<q, u>>
        <4>1. ASSUME NEW u \in Targets
              PROVE  /\ quar[p][t] = <<q, u>> => u = t
                     /\ Here(p, t) = <<q, u>> => u = t
          <5>1. <<q, u>>[2] = u
            OBVIOUS
          <5>2. QED
            BY <1>0, <3>1, <5>1 DEF BaseInv, TargetInv, Here
        <4>2. ASSUME NEW u \in Targets
              PROVE  /\ <<p, t>> # <<q, u>> /\ None # <<q, u>> /\ quar[p][t] # <<q, u>> /\ Here(p, t) # <<q, u>>
                     /\ \A d \in Dirs : entry[d][u] # <<q, u>>
                     /\ \A r \in Procs : quar[r][u] # <<q, u>>
          <5>1. /\ \A d \in Dirs : entry[d][u] # <<q, u>>
                /\ \A r \in Procs : quar[r][u] # <<q, u>>
            BY <2>2 DEF FreshInv
          <5>2. <<p, t>> # <<q, u>> /\ None # <<q, u>>
            BY <1>0, <3>2
          <5>3. quar[p][t] # <<q, u>>
            BY <5>1, <1>0, <4>1
          <5>4. Here(p, t) # <<q, u>>
            BY <3>1, <5>1, <4>1 DEF Here
          <5>5. QED
            BY <5>1, <5>2, <5>3, <5>4
        <4>3. QED
          BY <3>1, <4>2 DEF EntryAt, QuarAt
      <3>4. QED
        BY <1>0, <2>2, <3>3 DEF FreshInv, Alone
    <2>5. QED
      BY <2>3, <2>4
  <1>5. QED
    BY <1>2, <1>3, <1>4 DEF TraceInv, WaitInv

LEMMA TraceKeptByPeer ==
  ASSUME BaseInv, TraceInv, NEW x \in Peers, Peer(x)
  PROVE  TraceInv'
  <1>0. /\ TypeOK /\ sources \in Dirs
        /\ entry \in [Dirs -> [Targets -> File \cup {None}]]
        /\ UNCHANGED <<temp, qtemp, quar, qdir, pc, bound, made, tmp, owned, checked, held, left>>
        /\ sources' \in {sources, x} /\ x \notin Procs
        /\ \A q \in Procs, t \in Targets : <<q, t>> # None /\ \A u \in Targets : <<q, t>> # <<x, u>>
        /\ \A q \in Procs : q \in Dirs
    BY PeerShape, Shapes, FileType, Disjoint DEF BaseInv, Dirs
  <1>1. CASE PeerSwap(x)
    BY <1>0, <1>1, PeerShape DEF TraceInv, WaitInv, FreshInv
  <1>2. CASE ~PeerSwap(x)
    <2>1. PICK t \in Targets, f \in File \cup {None} :
              /\ entry' = entry \/ entry' = [entry EXCEPT ![sources][t] = f]
              /\ \/ f = <<x, t>> /\ aliased' = aliased
                 \/ f = None /\ aliased' = aliased \cup {entry[sources][t]} /\ entry[sources][t] # None
                 \/ f \in aliased /\ f[2] = t /\ aliased' = aliased \ {f}
                 \/ entry' = entry /\ aliased' = aliased
      BY <1>0, <1>2, PeerFiles
    <2>2. /\ entry' = entry \/ entry'[sources][t] = f
          /\ \A e \in Dirs, u \in Targets : e # sources \/ u # t => entry'[e][u] = entry[e][u]
      BY <1>0, <2>1, PeerSet
    <2>3. sources' = sources
      BY <1>2, PeerShape, <1>0
    <2>4. ASSUME NEW q \in Procs PROVE WaitInv(q)'
      BY <1>0, <2>2, <2>3 DEF TraceInv, WaitInv
    <2>5. ASSUME NEW q \in Procs, bound[q] = None, NEW u \in Targets
          PROVE  /\ <<q, u>> \notin aliased' /\ \A d \in Dirs : entry'[d][u] # <<q, u>>
      <3>1. /\ <<q, u>> \notin aliased /\ \A d \in Dirs : entry[d][u] # <<q, u>>
        BY <2>5 DEF TraceInv, FreshInv
      <3>2. <<q, u>> # entry[sources][t]
        <4>1. entry[sources][t] # None => entry[sources][t][2] = t
          BY <1>0 DEF BaseInv, TargetInv
        <4>2. <<q, u>>[2] = u
          OBVIOUS
        <4>3. QED
          BY <1>0, <3>1, <4>1, <4>2
      <3>3. entry' # entry => f # <<q, u>>
        BY <1>0, <2>1, <3>1
      <3>4. QED
        BY <1>0, <2>1, <2>2, <3>1, <3>2, <3>3
    <2>6. ASSUME NEW q \in Procs PROVE FreshInv(q)'
      BY <1>0, <2>5 DEF TraceInv, FreshInv
    <2>7. QED
      BY <2>4, <2>6 DEF TraceInv
  <1>3. QED
    BY <1>1, <1>2

-----------------------------------------------------------------------------
(* No peer's file is destroyed.                                            *)

LEMMA SumPositive ==
  ASSUME NEW a \in Nat, NEW b \in Nat, NEW c \in Nat, NEW d \in Nat, NEW e \in Nat,
         a # 0 \/ b # 0 \/ e # 0
  PROVE  a + b + c + d + e > 0
  OBVIOUS

LEMMA NamedHasLinks ==
  ASSUME TypeOK, TargetInv, NEW f, Named(f), f # None
  PROVE  Links(f) > 0
  <1> DEFINE A == {d \in Dirs : entry[d][f[2]] = f}
             B == {q \in Procs : quar[q][f[2]] = f}
             C == {q \in Procs : f = <<q, temp[q]>>}
             D == {q \in Procs : f = <<q, qtemp[q]>>}
             E == {f} \cap aliased
  <1>1. IsFiniteSet(Dirs)
    <2>1. IsFiniteSet(Procs \cup Peers)
      BY Finite, FS_Union
    <2>2. QED
      BY <2>1, FS_Union, FS_Singleton DEF Dirs
  <1>2. IsFiniteSet(A) /\ IsFiniteSet(B)
    <2>1. A \in SUBSET Dirs /\ B \in SUBSET Procs
      OBVIOUS
    <2>2. QED
      BY <1>1, <2>1, Finite, FS_Subset
  <1>3. IsFiniteSet(C) /\ IsFiniteSet(D)
    <2>1. C \in SUBSET Procs /\ D \in SUBSET Procs
      OBVIOUS
    <2>2. QED
      BY <2>1, Finite, FS_Subset
  <1>4. IsFiniteSet(E)
    <2>1. E \in SUBSET {f}
      OBVIOUS
    <2>2. QED
      BY <2>1, FS_Subset, FS_Singleton
  <1>5. A # {} \/ B # {} \/ E # {}
    <2>1. CASE f \in aliased
      BY <2>1
    <2>2. ASSUME NEW d \in Dirs, NEW t \in Targets, entry[d][t] = f PROVE A # {}
      <3>1. f[2] = t
        BY <2>2 DEF TargetInv
      <3>2. d \in A
        BY <2>2, <3>1
      <3>3. QED
        BY <3>2
    <2>3. ASSUME NEW q \in Procs, NEW t \in Targets, quar[q][t] = f PROVE B # {}
      <3>1. f[2] = t
        BY <2>3 DEF TargetInv
      <3>2. q \in B
        BY <2>3, <3>1
      <3>3. QED
        BY <3>2
    <2>4. QED
      BY <2>1, <2>2, <2>3 DEF Named
  <1>6. Links(f) = Cardinality(A) + Cardinality(B) + Cardinality(C) + Cardinality(D) + Cardinality(E)
    BY DEF Links
  <1> HIDE DEF A, B, C, D, E
  <1>7. /\ Cardinality(A) \in Nat /\ Cardinality(B) \in Nat /\ Cardinality(C) \in Nat
        /\ Cardinality(D) \in Nat /\ Cardinality(E) \in Nat
    BY <1>2, <1>3, <1>4, FS_CardinalityType
  <1>8. Cardinality(A) # 0 \/ Cardinality(B) # 0 \/ Cardinality(E) # 0
    BY <1>2, <1>4, <1>5, FS_EmptySet
  <1>9. Cardinality(A) + Cardinality(B) + Cardinality(C) + Cardinality(D) + Cardinality(E) > 0
    BY <1>7, <1>8, SumPositive
  <1>10. QED
    BY <1>6, <1>9

LEMMA PlacedKept ==
  ASSUME BaseInv, PlacedInv, NEW p \in Procs, Enter(p) \/ Step(p) \/ Crash(p)
  PROVE  PlacedInv'
  <1>0. /\ FilesStep(p) /\ placed' = placed /\ aliased' = aliased
        /\ bound \in [Procs -> Dirs \cup {None}]
    BY StepFiles, StepAlone, Shapes DEF BaseInv, Alone
  <1>1. ASSUME NEW f \in placed PROVE Named(f)'
    <2>1. Named(f) /\ f \in Peers \X Targets /\ f # None
      BY Disjoint, FileType DEF PlacedInv, File
    <2>2. \A t : f # <<p, t>>
      BY <2>1, Disjoint
    <2>3. CASE UNCHANGED <<entry, quar>>
      BY <1>0, <2>1, <2>3 DEF Named
    <2>4. CASE ~UNCHANGED <<entry, quar>>
      <3>1. PICK t \in Targets :
               /\ bound[p] \in Dirs
               /\ \/ Here(p, t) = None /\ EntryAt(p, t, <<p, t>>) /\ UNCHANGED quar
                  \/ quar[p][t] = None /\ EntryAt(p, t, None) /\ QuarAt(p, t, Here(p, t))
                  \/ Here(p, t) = None /\ EntryAt(p, t, quar[p][t]) /\ QuarAt(p, t, None)
                  \/ quar[p][t] = <<p, t>> /\ UNCHANGED entry /\ QuarAt(p, t, None)
        BY <1>0, <2>4 DEF FilesStep
      <3>2. CASE f \in aliased
        BY <1>0, <3>2 DEF Named
      <3>3. ASSUME NEW d \in Dirs, NEW u \in Targets, entry[d][u] = f PROVE Named(f)'
        <4>1. CASE entry'[d][u] = f
          BY <3>3, <4>1 DEF Named
        <4>2. CASE entry'[d][u] # f
          <5>1. d = bound[p] /\ u = t /\ Here(p, t) = f
            BY <3>1, <3>3, <4>2 DEF EntryAt, Here
          <5>2. quar'[p][t] = f
            BY <2>1, <3>1, <3>3, <4>2, <5>1 DEF QuarAt
          <5>3. QED
            BY <5>2 DEF Named
        <4>3. QED
          BY <4>1, <4>2
      <3>4. ASSUME NEW q \in Procs, NEW u \in Targets, quar[q][u] = f PROVE Named(f)'
        <4>1. CASE quar'[q][u] = f
          BY <3>4, <4>1 DEF Named
        <4>2. CASE quar'[q][u] # f
          <5>1. q = p /\ u = t /\ quar[p][t] = f
            BY <3>1, <3>4, <4>2 DEF QuarAt
          <5>2. entry'[bound[p]][t] = f
            BY <2>1, <2>2, <3>1, <3>4, <4>2, <5>1 DEF EntryAt
          <5>3. QED
            BY <3>1, <5>2 DEF Named
        <4>3. QED
          BY <4>1, <4>2
      <3>5. QED
        BY <2>1, <3>2, <3>3, <3>4 DEF Named
    <2>5. QED
      BY <2>3, <2>4
  <1>2. QED
    BY <1>0, <1>1 DEF PlacedInv

LEMMA PlacedKeptByPeer ==
  ASSUME BaseInv, PlacedInv, NEW x \in Peers, Peer(x)
  PROVE  PlacedInv'
  <1>0. /\ TypeOK /\ sources \in Dirs
        /\ entry \in [Dirs -> [Targets -> File \cup {None}]]
        /\ quar' = quar
    BY PeerShape, Shapes DEF BaseInv
  <1>1. CASE PeerSwap(x)
    BY <1>1, <1>0, PeerShape DEF PlacedInv, Named
  <1>2. CASE ~PeerSwap(x)
    <2>1. PICK t \in Targets, f \in File \cup {None} :
         /\ entry' = entry \/ entry' = [entry EXCEPT ![sources][t] = f]
         /\ \/ f = <<x, t>> /\ UNCHANGED aliased
               /\ entry' = [entry EXCEPT ![sources][t] = f]
               /\ placed' = (placed \ {entry[sources][t]}) \cup {f}
            \/ UNCHANGED placed
               /\ aliased' = aliased \cup {entry[sources][t]}
            \/ entry' = [entry EXCEPT ![sources][t] = f]
               /\ aliased' = aliased \ {f}
               /\ placed' = placed \ {entry[sources][t]}
            \/ entry' = entry /\ UNCHANGED <<aliased, placed>>
      BY <1>0, <1>2, PeerFiles
    <2>2. /\ entry' # entry => entry'[sources][t] = f
          /\ entry' = [entry EXCEPT ![sources][t] = f] => entry'[sources][t] = f
          /\ \A e \in Dirs, u \in Targets : e # sources \/ u # t => entry'[e][u] = entry[e][u]
      BY <1>0, <2>1, PeerSet
    <2>3. placed' \subseteq Peers \X Targets
      BY <2>1 DEF PlacedInv
    <2>4. ASSUME NEW g \in placed' PROVE Named(g)'
      <3>1. CASE g = f /\ entry'[sources][t] = f
        BY <1>0, <3>1 DEF Named
      <3>2. CASE ~(g = f /\ entry'[sources][t] = f)
        <4>1. g \in placed
          BY <2>1, <2>2, <2>4, <3>2
        <4>2. g = entry[sources][t] => entry' = entry \/ g \in aliased'
          BY <2>1, <2>2, <2>4, <3>2
        <4>3. CASE g \in aliased
          BY <2>1, <2>2, <3>2, <4>3 DEF Named
        <4>4. ASSUME NEW d \in Dirs, NEW u \in Targets, entry[d][u] = g PROVE Named(g)'
          BY <2>2, <4>2, <4>4 DEF Named
        <4>5. ASSUME NEW q \in Procs, NEW u \in Targets, quar[q][u] = g PROVE Named(g)'
          BY <1>0, <4>5 DEF Named
        <4>6. QED
          BY <4>1, <4>3, <4>4, <4>5 DEF PlacedInv, Named
      <3>3. QED
        BY <3>1, <3>2
    <2>5. QED
      BY <2>3, <2>4 DEF PlacedInv
  <1>3. QED
    BY <1>1, <1>2

-----------------------------------------------------------------------------
(* A commit vouches for what it published.                                 *)

\* A transaction that has made no directory leaves the one it found.
LEMMA StepMade ==
  ASSUME TypeOK, NEW p \in Procs, LocalInv(p), made[p] = None, sources # None,
         Enter(p) \/ Step(p) \/ Crash(p)
  PROVE  sources' = sources /\ made'[p] = None
  <1>0. made \in [Procs -> Dirs \cup {None, Unknown}] /\ None # Unknown
    BY Shapes, Disjoint
  <1>1. pc[p] \notin {"open_dir", "rb_dir_move", "rb_dir_resolve", "rb_rmdir"}
    BY <1>0 DEF LocalInv
  <1>2. CASE OpenDirectory(p) \/ Fail(p)
    BY <1>0, <1>1, <1>2 DEF OpenDirectory, Fail, names
  <1>3. CASE Close(p) \/ Crash(p)
    BY <1>0, <1>3 DEF Close, Crash, Forget, names, locals
  <1>4. CASE Resolve(p)
    BY <1>4, ResolveShape
  <1>5. ~BindDirectory(p) /\ ~MoveDirectory(p) /\ ~ResolveDirectory(p) /\ ~RemoveDirectory(p)
    BY <1>1 DEF BindDirectory, MoveDirectory, ResolveDirectory, RemoveDirectory
  <1>6. \/ OpenDirectory(p) \/ Fail(p) \/ Close(p) \/ Crash(p) \/ Resolve(p)
        \/ UNCHANGED <<sources, made>>
    BY <1>5 DEF Step, Enter, CreateTemporary, WriteTemporary, Link, UnlinkTemporary,
       BeginCommit, Verify, RollbackTemporary, RollbackOpen, RollbackMove, RollbackUnlink,
       RollbackDirectory, names, locals
  <1>7. QED
    BY <1>2, <1>3, <1>4, <1>6

LEMMA WholeSelf ==
  ASSUME BaseInv, NEW p \in Procs, WaitInv(p), WholeInv(p), Enter(p) \/ Step(p) \/ Crash(p)
  PROVE  WholeInv(p)'
  <1>0. /\ TypeOK /\ LocalInv(p) /\ LockInv /\ TypeOK'
        /\ pc \in [Procs -> Labels] /\ checked \in [Procs -> Nat] /\ checked[p] \in Nat
        /\ Len(owned[p]) \in Nat /\ bound \in [Procs -> Dirs \cup {None}]
        /\ \A i \in 1 .. Len(owned[p]) : owned[p][i] \in Targets
    BY Shapes, OwnedShape, BaseKept DEF BaseInv, TypeOK
  <1>1. CASE BeginCommit(p)
    <2>1. /\ pc[p] = "body" /\ pc'[p] = "verify" /\ owned[p] # <<>> /\ sources = bound[p]
          /\ UNCHANGED <<sources, bound, checked, owned>>
      BY <1>0, <1>1 DEF BeginCommit, Goto, names, locals
    <2>2. checked[p] = 0 /\ bound[p] # None
      BY <1>0, <2>1 DEF WholeInv, LocalInv, Publishing
    <2>3. QED
      BY <1>0, <2>1, <2>2 DEF WholeInv
  <1>2. CASE Verify(p)
    <2>1. /\ pc[p] = "verify" /\ lock = p
          /\ UNCHANGED <<lock, sources, entry, edited, bound, owned, touched>>
      BY <1>0, <1>2 DEF Verify, names, history, LockInv, Active, Publishing
    <2>2. /\ checked[p] <= Len(owned[p]) /\ bound[p] # None
          /\ sources = bound[p] \/ \A t \in Targets : <<p, t>> \in touched
          /\ \A i \in 1 .. checked[p] : <<p, owned[p][i]>> \notin touched => Kept(p, owned[p][i])
      BY <2>1 DEF WholeInv, Committing
    <2>3. \A q \in Procs \ {p} : pc'[q] = pc[q] /\ pc[q] \notin Active
      BY <1>0, <1>2, <2>1, StepAlone DEF Step, Alone, LockInv
    <2>5. CASE /\ checked[p] = Len(owned[p]) /\ Goto(p, "committed") /\ checked' = checked
      <3>1. pc'[p] = "committed"
        BY <1>0, <2>5 DEF Goto
      <3>2. ASSUME NEW i \in 1 .. checked[p], <<p, owned[p][i]>> \notin touched PROVE Kept(p, owned[p][i])'
        <4>1. owned[p][i] \in Targets
          BY <1>0, <2>5, <3>2
        <4>2. QED
          BY <2>1, <2>2, <2>3, <3>2, <4>1 DEF Kept, Here
      <3>3. QED
        BY <1>0, <2>1, <2>2, <2>5, <3>1, <3>2 DEF WholeInv, Committing, Publishing
    <2>6. CASE /\ checked[p] < Len(owned[p]) /\ NameVerified(p, owned[p][checked[p] + 1])
               /\ checked' = [checked EXCEPT ![p] = checked[p] + 1] /\ pc' = pc
      <3>1. checked'[p] = checked[p] + 1 /\ checked[p] + 1 \in 1 .. Len(owned[p])
        BY <1>0, <2>6
      <3>2. ASSUME NEW i \in 1 .. checked[p] + 1, <<p, owned[p][i]>> \notin touched PROVE Kept(p, owned[p][i])'
        <4>0. i \in 1 .. Len(owned[p]) /\ (i = checked[p] + 1 \/ i \in 1 .. checked[p])
          BY <1>0, <3>1
        <4>1. owned[p][i] \in Targets
          BY <1>0, <4>0
        <4>2. CASE i \in 1 .. checked[p]
          BY <2>1, <2>2, <2>3, <3>2, <4>1, <4>2 DEF Kept, Here
        <4>3. CASE i = checked[p] + 1
          BY <2>1, <2>2, <2>3, <2>6, <3>2, <4>1, <4>3 DEF NameVerified, Kept, Here
        <4>4. QED
          BY <4>0, <4>2, <4>3
      <3>3. checked'[p] <= Len(owned[p])
        BY <1>0, <3>1
      <3>4. QED
        BY <2>1, <2>2, <2>6, <3>1, <3>2, <3>3 DEF WholeInv, Publishing
    <2>7. QED
      BY <1>2, <2>5, <2>6 DEF Verify
  <1>3. CASE Close(p)
    <2>1. CASE pc[p] = "committed"
      <3>1. pc'[p] = "returned" /\ UNCHANGED <<sources, entry, edited, bound, owned, checked, made, touched>>
        BY <1>0, <1>3, <2>1 DEF Close, Goto, names, locals, history
      <3>2. \A q \in Procs \ {p} : pc'[q] = pc[q] /\ owned'[q] = owned[q]
        BY <1>0, <1>3, StepAlone DEF Step, Alone
      <3>3. \A t : Kept(p, t) => Kept(p, t)'
        BY <3>1, <3>2, SameNames DEF Kept, Here
      <3>4. QED
        BY <2>1, <3>1, <3>3 DEF WholeInv, Committing, Publishing
    <2>2. CASE pc[p] # "committed"
      <3>1. pc'[p] \in {"raised", "incomplete"}
        BY <1>0, <1>3, <2>2 DEF Close, Goto
      <3>2. QED
        BY <3>1 DEF WholeInv, Committing, Publishing
    <2>3. QED
      BY <2>1, <2>2
  <1>4. CASE Enter(p) \/ OpenDirectory(p) \/ BindDirectory(p) \/ (\E t \in Targets : CreateTemporary(p, t))
             \/ WriteTemporary(p) \/ Link(p) \/ UnlinkTemporary(p)
    <2>1. /\ pc[p] \in {"idle"} \cup (Publishing \ {"verify"}) /\ checked' = checked
          /\ pc'[p] \in Publishing \ {"verify"}
      BY <1>0, <1>4 DEF Enter, OpenDirectory, BindDirectory, CreateTemporary, WriteTemporary, Link,
         UnlinkTemporary, Goto, Publishing, locals
    <2>2. QED
      BY <2>1 DEF WholeInv, WaitInv, Committing, Publishing
  <1>5. CASE Fail(p) \/ RollbackTemporary(p) \/ RollbackOpen(p) \/ RollbackMove(p) \/ RollbackUnlink(p)
             \/ RollbackDirectory(p) \/ MoveDirectory(p) \/ ResolveDirectory(p) \/ RemoveDirectory(p)
             \/ Crash(p)
    <2>1. pc'[p] \in RollingBack \cup {"close", "dead"}
      BY <1>0, <1>5 DEF Fail, RollbackTemporary, RollbackOpen, RollbackMove, RollbackUnlink, RollbackDirectory,
         MoveDirectory, ResolveDirectory, RemoveDirectory, Crash, Pop, Goto, RollingBack
    <2>2. QED
      BY <2>1 DEF WholeInv, Committing, Publishing, RollingBack
  <1>6. CASE Resolve(p)
    <2>1. pc'[p] \in {"rb_unlink", "rb_open"}
      BY <1>0, <1>6, ResolveShape DEF Pop, Goto
    <2>2. QED
      BY <2>1 DEF WholeInv, Committing, Publishing
  <1>7. QED
    BY <1>1, <1>2, <1>3, <1>4, <1>5, <1>6 DEF Step

LEMMA WholeOther ==
  ASSUME BaseInv, NEW p \in Procs, WaitInv(p), Enter(p) \/ Step(p) \/ Crash(p),
         NEW q \in Procs, q # p, WholeInv(q)
  PROVE  WholeInv(q)'
  <1>0. /\ TypeOK /\ LocalInv(p) /\ LockInv /\ Alone(p) /\ FilesStep(p) /\ OwnedStep(p)
        /\ bound \in [Procs -> Dirs \cup {None}] /\ None \notin Procs
        /\ Len(owned[q]) \in Nat /\ checked[q] \in Nat
        /\ \A i \in 1 .. Len(owned[q]) : owned[q][i] \in Targets
        /\ owned[p] = <<>> => Names(p) = {}
        /\ owned[p] # <<>> => Current(p) \in Names(p)
        /\ \A t \in Targets : <<q, t>> # None
    BY StepAlone, StepFiles, StepOwned, Shapes, OwnedShape, FileType, Disjoint DEF BaseInv
  <1>1. /\ UNCHANGED <<edited, touched>> /\ pc'[q] = pc[q] /\ owned'[q] = owned[q]
        /\ bound'[q] = bound[q] /\ checked'[q] = checked[q]
        /\ Names(q)' = Names(q)
    BY <1>0, SameNames DEF Alone
  <1>2. pc[q] \notin Active
    <2>1. \/ lock = None \/ pc[p] \in Active
      BY <1>0, StepLock
    <2>2. QED
      BY <1>0, <2>1 DEF LockInv
  <1>3. ASSUME NEW t \in Targets, Kept(q, t), bound[q] # None PROVE Kept(q, t)'
    <2>1. sources # None /\ sources = bound[q] /\ Here(q, t) = <<q, t>> /\ <<q, t>> \notin edited
      BY <1>3 DEF Kept
    <2>2. made[p] = None /\ (t \in Names(p) => bound[p] # bound[q])
      <3>1. CASE Enter(p)
        BY <1>0, <3>1 DEF WaitInv, Enter
      <3>2. CASE pc[p] \in Active
        BY <1>0, <1>3, <3>2 DEF Kept
      <3>3. QED
        BY <1>0, <3>1, <3>2, StepLock
    <2>3. sources' = sources /\ made'[p] = None
      BY <1>0, <2>1, <2>2, StepMade
    <2>4. entry'[bound[q]][t] = <<q, t>>
      <3>1. CASE UNCHANGED <<entry, quar>>
        BY <2>1, <3>1 DEF Here
      <3>2. CASE ~UNCHANGED <<entry, quar>>
        <4>1. PICK u \in Targets :
               \/ Here(p, u) = None /\ EntryAt(p, u, <<p, u>>)
               \/ RollbackMove(p) /\ u = Current(p) /\ EntryAt(p, u, None)
               \/ Here(p, u) = None /\ EntryAt(p, u, quar[p][u])
               \/ UNCHANGED entry
          BY <1>0, <3>2 DEF FilesStep
        <4>2. RollbackMove(p) => Current(p) \in Names(p)
          BY <1>0 DEF RollbackMove, LocalInv
        <4>3. bound[q] \in Dirs
          BY <1>0, <1>3
        <4>4. QED
          BY <1>0, <2>1, <2>2, <4>1, <4>2, <4>3 DEF EntryAt, Here
      <3>3. QED
        BY <3>1, <3>2
    <2>5. ASSUME t \in Names(p)' PROVE bound'[p] # bound[q]
      <3>1. bound'[p] = bound[p] \/ (bound[p] = None /\ owned[p] = <<>>)
        BY <1>0, StepDirs DEF LocalInv
      <3>2. CASE t \in Names(p)
        BY <1>0, <2>2, <3>1, <3>2
      <3>3. CASE t \notin Names(p)
        <4>1. Link(p) /\ t = tmp[p].target
          BY <1>0, <2>5, <3>3 DEF OwnedStep
        <4>2. Here(p, t) = None /\ bound' = bound
          BY <4>1 DEF Link
        <4>3. QED
          BY <1>0, <2>1, <4>2 DEF Here
      <3>4. QED
        BY <3>2, <3>3
    <2>6. ASSUME NEW r \in Procs \ {q}, pc'[r] \in Active
          PROVE  made'[r] = None /\ (t \in Names(r)' => bound'[r] # bound[q])
      <3>1. CASE r = p
        BY <2>3, <2>5, <3>1
      <3>2. CASE r # p
        BY <1>0, <1>3, <2>6, <3>2, SameNames DEF Alone, Kept
      <3>3. QED
        BY <3>1, <3>2
    <2>7. QED
      BY <1>1, <2>1, <2>3, <2>4, <2>6 DEF Kept, Here
  <1>4. ASSUME pc[q] \in Committing PROVE pc[q] = "returned"
    BY <1>2, <1>4 DEF Committing, Active, Publishing
  <1>5. ASSUME pc[q] = "returned", NEW i \in 1 .. checked[q], <<q, owned[q][i]>> \notin touched
        PROVE  Kept(q, owned[q][i])'
    <2>1. bound[q] # None /\ checked[q] <= Len(owned[q]) /\ Kept(q, owned[q][i])
      BY <1>5 DEF WholeInv, Committing
    <2>2. PICK v \in Targets : v = owned[q][i] /\ v = owned'[q][i]
      BY <1>0, <1>1, <2>1
    <2>3. Kept(q, v)'
      BY <1>3, <2>1, <2>2
    <2>4. QED
      BY <2>2, <2>3 DEF Kept, Here
  <1>6. QED
    BY <1>1, <1>2, <1>4, <1>5 DEF WholeInv, Committing, Active

LEMMA WholeKeptByPeer ==
  ASSUME BaseInv, NEW x \in Peers, Peer(x), NEW q \in Procs, WholeInv(q)
  PROVE  WholeInv(q)'
  <1>0. /\ TypeOK /\ sources \in Dirs
        /\ entry \in [Dirs -> [Targets -> File \cup {None}]] /\ bound \in [Procs -> Dirs \cup {None}]
        /\ UNCHANGED <<pc, bound, made, owned, checked>> /\ touched \subseteq touched'
        /\ Len(owned[q]) \in Nat /\ checked[q] \in Nat
        /\ \A i \in 1 .. Len(owned[q]) : owned[q][i] \in Targets
        /\ \A r \in Procs : Names(r)' = Names(r)
    BY PeerShape, Shapes, OwnedShape, SameNames DEF BaseInv
  <1>1. CASE PeerSwap(x)
    <2>1. pc[q] \in Committing => \A t \in Targets : <<q, t>> \in touched'
      BY <1>1 DEF PeerSwap
    <2>2. ASSUME pc[q] \in Committing, NEW i \in 1 .. checked[q] PROVE <<q, owned[q][i]>> \in touched'
      <3>1. checked[q] <= Len(owned[q])
        BY <2>2 DEF WholeInv
      <3>2. QED
        BY <1>0, <2>1, <2>2, <3>1
    <2>3. QED
      BY <1>0, <2>1, <2>2 DEF WholeInv
  <1>2. CASE ~PeerSwap(x)
    <2>1. PICK t \in Targets, f \in File \cup {None} :
         /\ Touch(t)
         /\ entry' = entry \/ entry' = [entry EXCEPT ![sources][t] = f]
         /\ edited' = edited \/ (edited' = edited \cup {entry[sources][t]} /\ entry[sources][t] # None)
      BY <1>0, <1>2, PeerFiles
    <2>2. /\ \A e \in Dirs, u \in Targets : e # sources \/ u # t => entry'[e][u] = entry[e][u]
          /\ sources' = sources
      BY <1>0, <1>2, <2>1, PeerSet, PeerShape
    <2>3. entry[sources][t] # None => entry[sources][t][2] = t
      BY <1>0 DEF BaseInv, TargetInv
    <2>4. ASSUME bound[q] # None, NEW v \in Verified(q), v \in Targets, <<q, v>> \notin touched', Kept(q, v)
          PROVE  Kept(q, v)'
      <3>1. v # t
        BY <2>1, <2>4 DEF Touch
      <3>2. <<q, v>>[2] = v
        OBVIOUS
      <3>3. <<q, v>> \notin edited'
        BY <2>1, <2>3, <2>4, <3>1, <3>2 DEF Kept
      <3>4. entry'[bound[q]][v] = entry[bound[q]][v]
        BY <1>0, <2>2, <2>4, <3>1
      <3>5. QED
        BY <1>0, <2>2, <2>4, <3>3, <3>4 DEF Kept, Here
    <2>5. ASSUME pc[q] \in Committing, bound[q] # None, NEW i \in 1 .. checked[q], checked[q] <= Len(owned[q]),
                 <<q, owned[q][i]>> \notin touched', Kept(q, owned[q][i])
          PROVE  Kept(q, owned[q][i])'
      <3>1. PICK v \in Targets : v = owned[q][i] /\ v = owned'[q][i]
        BY <1>0, <2>5
      <3>2. v \in Verified(q)
        BY <2>5, <3>1 DEF Verified
      <3>3. Kept(q, v)'
        BY <2>4, <2>5, <3>1, <3>2
      <3>4. QED
        BY <3>1, <3>3 DEF Kept, Here
    <2>6. QED
      BY <1>0, <2>2, <2>5 DEF WholeInv
  <1>3. QED
    BY <1>1, <1>2

-----------------------------------------------------------------------------
(* The report of a rollback is complete.                                   *)

LEMMA LeaveAdds ==
  ASSUME NEW p \in Procs, left \in [Procs -> SUBSET Residual], NEW r, Leave(p, r)
  PROVE  left'[p] = left[p] \cup r
  BY DEF Leave

\* Temporaries.
LEMMA TempReports ==
  ASSUME TypeOK, NEW p \in Procs, LocalInv(p), WaitInv(p), ReportInv(p),
         Enter(p) \/ Step(p) \/ Crash(p), pc'[p] \in Active
  PROVE  TempReported(p)' /\ (pc[p] \in Active => left[p] \subseteq left'[p])
  <1>0. /\ pc \in [Procs -> Labels] /\ left \in [Procs -> SUBSET Residual]
        /\ temp \in [Procs -> Targets \cup {None}] /\ qtemp \in [Procs -> Targets \cup {None}]
        /\ tmp \in [Procs -> Temporary \cup {None}] /\ None \notin Temporary
    BY Shapes, Disjoint
  <1>a. pc[p] \in Active => TempReported(p)
    BY DEF ReportInv
  <1>1. CASE Enter(p)
    BY <1>0, <1>1 DEF Enter, Goto, names, locals, WaitInv, TempReported, Active, Publishing, Removing, Emptying
  <1>2. CASE OpenDirectory(p) \/ BindDirectory(p) \/ Link(p) \/ BeginCommit(p) \/ Verify(p) \/ Fail(p)
    BY <1>0, <1>a, <1>2 DEF OpenDirectory, BindDirectory, Link, BeginCommit, Verify, Fail, Goto, names, locals,
       TempReported, Active, Publishing, Removing, Emptying
  <1>3. CASE WriteTemporary(p)
    <2>1. /\ pc[p] = "write" /\ pc'[p] = "link" /\ UNCHANGED <<temp, qtemp, left>>
          /\ tmp' = [tmp EXCEPT ![p].known = TRUE]
      BY <1>0, <1>3 DEF WriteTemporary, Goto, names
    <2>2. tmp[p] \in Temporary
      BY <1>0, <2>1 DEF LocalInv
    <2>3. tmp'[p].target = tmp[p].target /\ tmp'[p] \in Temporary
      BY <1>0, <2>1, <2>2 DEF Temporary
    <2>4. tmp'[p] # None
      BY <1>0, <2>3
    <2>5. QED
      BY <1>a, <2>1, <2>3, <2>4 DEF TempReported, Active, Publishing, Removing, Emptying
  <1>4. CASE \E t \in Targets : CreateTemporary(p, t)
    <2>1. PICK t \in Targets : CreateTemporary(p, t)
      BY <1>4
    <2>2. /\ pc[p] = "body" /\ pc'[p] = "write" /\ UNCHANGED <<qtemp, left>>
          /\ temp'[p] = t /\ tmp'[p] = [target |-> t, known |-> FALSE]
      BY <1>0, <2>1 DEF CreateTemporary, Goto
    <2>3. [target |-> t, known |-> FALSE] \in Temporary /\ tmp'[p].target = t /\ qtemp[p] = None
      BY <1>a, <2>2 DEF Temporary, TempReported, Active, Publishing
    <2>4. tmp'[p] # None
      BY <1>0, <2>2, <2>3
    <2>5. QED
      BY <2>2, <2>3, <2>4 DEF TempReported, Active, Publishing, Removing, Emptying
  <1>5. CASE UnlinkTemporary(p)
    BY <1>0, <1>a, <1>5 DEF UnlinkTemporary, Goto, TempReported, Active, Publishing, Removing, Emptying
  <1>6. CASE RollbackTemporary(p)
    <2>1. /\ pc[p] = "rb_temp" /\ pc'[p] = "rb_open" /\ tmp' = tmp
      BY <1>0, <1>6 DEF RollbackTemporary, Goto
    <2>2. /\ temp[p] # None => tmp[p] # None /\ tmp[p].target = temp[p]
          /\ qtemp[p] = None
      BY <1>a, <2>1 DEF TempReported, Active, RollingBack
    <2>3. CASE tmp[p] = None /\ UNCHANGED <<temp, qtemp, left>>
      BY <2>1, <2>2, <2>3 DEF TempReported, Publishing, Removing, Emptying
    <2>4. CASE Leave(p, {At("temp", tmp[p].target)}) /\ UNCHANGED <<temp, qtemp>>
      <3>1. left'[p] = left[p] \cup {At("temp", tmp[p].target)}
        BY <1>0, <2>4, LeaveAdds
      <3>2. QED
        BY <2>1, <2>2, <2>4, <3>1 DEF TempReported, Publishing, Removing, Emptying
    <2>5. CASE temp' = [temp EXCEPT ![p] = None] /\ UNCHANGED <<qtemp, left>>
      BY <1>0, <2>1, <2>2, <2>5 DEF TempReported, Publishing, Removing, Emptying
    <2>6. CASE /\ tmp[p] # None /\ temp' = [temp EXCEPT ![p] = None]
               /\ qtemp' \in {qtemp, [qtemp EXCEPT ![p] = temp[p]]}
               /\ Leave(p, {At("temp_quarantine", tmp[p].target)})
      <3>1. left'[p] = left[p] \cup {At("temp_quarantine", tmp[p].target)}
        BY <1>0, <2>6, LeaveAdds
      <3>2. qtemp'[p] # None => qtemp'[p] = tmp[p].target
        BY <1>0, <2>2, <2>6
      <3>3. temp'[p] = None
        BY <1>0, <2>6
      <3>4. QED
        BY <2>1, <3>1, <3>2, <3>3 DEF TempReported, Publishing, Removing, Emptying
    <2>7. QED
      BY <1>6, <2>3, <2>4, <2>5, <2>6 DEF RollbackTemporary
  <1>7. ASSUME /\ pc[p] \in Removing \cup (Emptying \ {"close"}) /\ pc'[p] \in Removing \cup Emptying
               /\ UNCHANGED <<temp, qtemp>> /\ left[p] \subseteq left'[p]
        PROVE  TempReported(p)'
    <2>1. pc[p] \in Active /\ pc'[p] \notin Publishing \cup {"rb_temp"}
      BY <1>7 DEF Active, Publishing, RollingBack, Removing, Emptying
    <2>2. /\ temp[p] # None => At("temp", temp[p]) \in left[p]
          /\ qtemp[p] # None => At("temp_quarantine", qtemp[p]) \in left[p]
      BY <1>a, <1>7, <2>1 DEF TempReported
    <2>3. QED
      BY <1>7, <2>1, <2>2 DEF TempReported
  <1>8. CASE RollbackOpen(p) \/ RollbackMove(p) \/ RollbackUnlink(p)
    <2>1. /\ pc[p] \in Removing /\ pc'[p] \in Removing \cup Emptying /\ UNCHANGED <<temp, qtemp>>
      BY <1>0, <1>8 DEF RollbackOpen, RollbackMove, RollbackUnlink, Pop, Goto, names, Removing, Emptying
    <2>2. left[p] \subseteq left'[p]
      BY <1>0, <1>8, LeaveAdds DEF RollbackOpen, RollbackMove, RollbackUnlink
    <2>3. QED
      BY <1>7, <2>1, <2>2 DEF Removing, Emptying
  <1>9. CASE Resolve(p)
    <2>1. pc[p] = "rb_resolve" /\ pc'[p] \in Removing /\ UNCHANGED <<temp, qtemp>>
      BY <1>0, <1>9, ResolveShape DEF Pop, Goto, Removing
    <2>2. left[p] \subseteq left'[p]
      <3>1. ASSUME NEW r, PutBack(p, Current(p), r) \/ StayQuarantined(p, Current(p), r)
            PROVE  left[p] \subseteq left'[p]
        BY <1>0, <3>1 DEF PutBack, StayQuarantined, Leave
      <3>2. QED
        BY <1>9, <3>1, ResolveShape
    <2>3. QED
      BY <1>7, <2>1, <2>2 DEF Removing, Emptying
  <1>10. CASE RollbackDirectory(p) \/ MoveDirectory(p) \/ ResolveDirectory(p) \/ RemoveDirectory(p)
    <2>1. /\ pc[p] \in Emptying \ {"close"} /\ pc'[p] \in Emptying /\ UNCHANGED <<temp, qtemp>>
      BY <1>0, <1>10 DEF RollbackDirectory, MoveDirectory, ResolveDirectory, RemoveDirectory, Goto, names, Emptying
    <2>2. left[p] \subseteq left'[p]
      BY <1>0, <1>10 DEF RollbackDirectory, MoveDirectory, ResolveDirectory, RemoveDirectory, Leave
    <2>3. QED
      BY <1>7, <2>1, <2>2 DEF Removing, Emptying
  <1>11. ~Close(p) /\ ~Crash(p)
    BY <1>0 DEF Close, Crash, Goto, Active, Publishing, RollingBack
  <1>12. QED
    BY <1>1, <1>2, <1>3, <1>4, <1>5, <1>6, <1>8, <1>9, <1>10, <1>11 DEF Step

\* A target is put away only when nothing of it is left, or what is left is
\* reported.
PutAway(p, t) ==
  /\ quar'[p][t] # None => At("quarantine", t) \in left'[p]
  /\ entry'[bound[p]][t] = <<p, t>> /\ <<p, t>> \notin back => At("target", t) \in left'[p]

LEMMA PutAwayReports ==
  ASSUME TypeOK, NEW p \in Procs, LocalInv(p), ReportInv(p), Step(p), owned[p] # <<>>,
         pc[p] \in Removing, Pop(p), NEW t \in Targets, t = Current(p)
  PROVE  PutAway(p, t)
  <1>0. /\ left \in [Procs -> SUBSET Residual]
        /\ entry \in [Dirs -> [Targets -> File \cup {None}]]
        /\ quar \in [Procs -> [Targets -> File \cup {None}]]
        /\ bound[p] \in Dirs /\ bound[p] # None /\ t \in Names(p) /\ <<p, t>> # None
        /\ None \in File \cup {None} /\ pc \in [Procs -> Labels] /\ pc'[p] = "rb_open"
    <2>1. t \in Names(p) /\ bound[p] # None
      BY OwnedShape DEF LocalInv
    <2>2. pc \in [Procs -> Labels] /\ pc'[p] = "rb_open"
      BY Shapes DEF Pop, Goto
    <2>3. <<p, t>> \in File
      BY FileType
    <2>4. QED
      BY <2>1, <2>2, <2>3, Shapes, Disjoint
  <1>1. CASE RollbackOpen(p) \/ RollbackMove(p)
    <2>1. quar[p][t] = None
      BY <1>0, <1>1 DEF RollbackOpen, RollbackMove, LocalInv, Resolving
    <2>2. UNCHANGED <<entry, quar>> /\ (entry[bound[p]][t] = None \/ Leave(p, {At("target", t)}))
      BY <1>0, <1>1 DEF RollbackOpen, RollbackMove, Goto, Here, names
    <2>3. QED
      BY <1>0, <2>1, <2>2, LeaveAdds DEF PutAway
  <1>2. CASE Resolve(p) \/ RollbackUnlink(p)
    <2>1. Resolving(p, t) /\ pc[p] \in Active
      BY <1>2, ResolveShape DEF RollbackUnlink, Resolving, Active, RollingBack
    <2>2. Here(p, t) = <<p, t>> /\ <<p, t>> \notin back => At("target", t) \in left[p]
      BY <1>0, <2>1 DEF ReportInv, NameReported
    <2>3. CASE RollbackUnlink(p)
      <3>1. \/ quar' = [quar EXCEPT ![p][t] = None] /\ left' = left
            \/ quar' \in {quar, [quar EXCEPT ![p][t] = None]} /\ Leave(p, {At("quarantine", t)})
        BY <2>3 DEF RollbackUnlink
      <3>2. entry' = entry
        BY <2>3 DEF RollbackUnlink
      <3>3. quar' = [quar EXCEPT ![p][t] = None] => quar'[p][t] = None
        BY <1>0, QuarSet
      <3>4. QED
        BY <1>0, <2>2, <3>1, <3>2, <3>3, LeaveAdds DEF PutAway, Here
    <2>4. CASE Resolve(p)
      <3>1. PICK r \in SUBSET {At("target", t), At("unlocated", t)} :
              /\ PutBack(p, t, r) \/ StayQuarantined(p, t, r)
              /\ quar[p][t] = <<p, t>> => At("target", t) \in r \/ entry' = entry
        BY <1>0, <2>4, ResolveShape DEF Goto
      <3>2. CASE PutBack(p, t, r)
        <4>1. /\ quar' = [quar EXCEPT ![p][t] = None] /\ SetEntry(p, t, quar[p][t]) /\ Here(p, t) = None
              /\ left'[p] = left[p] \cup r
          BY <1>0, <3>2, LeaveAdds DEF PutBack
        <4>2. PICK f \in File \cup {None} : f = quar[p][t]
          BY <1>0
        <4>3. quar'[p][t] = None /\ entry'[bound[p]][t] = quar[p][t]
          BY <1>0, <4>1, <4>2, QuarSet, EntrySet
        <4>4. QED
          BY <1>0, <3>1, <4>1, <4>3 DEF PutAway, Here
      <3>3. CASE StayQuarantined(p, t, r)
        <4>1. /\ entry' = entry
              /\ left'[p] = left[p] \cup ({At("quarantine", t)} \cup (r \ {At("target", t)}))
          BY <1>0, <3>3, LeaveAdds DEF StayQuarantined
        <4>2. QED
          BY <2>2, <4>1 DEF PutAway, Here
      <3>4. QED
        BY <3>1, <3>2, <3>3
    <2>5. QED
      BY <1>2, <2>3, <2>4
  <1>3. RollbackOpen(p) \/ RollbackMove(p) \/ Resolve(p) \/ RollbackUnlink(p)
    <2>1. pc[p] \notin Publishing \cup Emptying \cup {"rb_temp", "committed"}
      BY DEF Publishing, Emptying, Removing
    <2>2. QED
      BY <2>1 DEF Publishing, Emptying, Step, OpenDirectory, BindDirectory, CreateTemporary, WriteTemporary, Link, UnlinkTemporary,
       BeginCommit, Verify, Fail, RollbackTemporary, RollbackDirectory, MoveDirectory, ResolveDirectory,
       RemoveDirectory, Close
  <1>4. QED
    BY <1>1, <1>2, <1>3

LEMMA ReportSelf ==
  ASSUME BaseInv, NEW p \in Procs, WaitInv(p), FreshInv(p), ReportInv(p),
         Enter(p) \/ Step(p) \/ Crash(p)
  PROVE  ReportInv(p)'
  <1> SUFFICES ASSUME pc'[p] \in Active, NEW t \in Targets
               PROVE  QuarReported(p, t)' /\ NameReported(p, t)'
    BY TempReports DEF ReportInv, BaseInv
  <1>0. /\ TypeOK /\ LocalInv(p) /\ pc \in [Procs -> Labels]
        /\ (pc[p] \in Active => left[p] \subseteq left'[p])
        /\ FilesStep(p) /\ OwnedStep(p) /\ back' = back
        /\ entry \in [Dirs -> [Targets -> File \cup {None}]]
        /\ bound \in [Procs -> Dirs \cup {None}] /\ None \notin Dirs
        /\ bound'[p] = bound[p] \/ (bound[p] = None /\ bound'[p] = sources /\ sources \in Dirs)
    BY TempReports, StepFiles, StepOwned, StepDirs, StepAlone, Shapes, Disjoint DEF BaseInv, Alone, Dirs
  <1>a. pc[p] \in Active => QuarReported(p, t) /\ NameReported(p, t)
    BY DEF ReportInv
  <1>1. CASE Enter(p)
    <2>1. UNCHANGED <<quar, bound>> /\ quar[p][t] = None /\ bound[p] = None
      BY <1>1 DEF Enter, WaitInv, names, locals
    <2>2. QED
      BY <1>0, <2>1 DEF QuarReported, NameReported
  <1>2. CASE Step(p) /\ Pop(p) /\ pc[p] \in Removing /\ owned[p] # <<>>
    <2>1. /\ pc'[p] = "rb_open" /\ pc[p] \in Active /\ bound'[p] = bound[p] /\ bound[p] # None
      BY <1>0, <1>2 DEF Pop, Goto, Removing, Active, RollingBack, LocalInv
    <2>2. Names(p)' = Names(p) \ {Current(p)}
      BY <1>0, <1>2, PopNames DEF LocalInv
    <2>3. CASE t = Current(p)
      <3>1. PutAway(p, t)
        BY <1>0, <1>2, <2>3, PutAwayReports
      <3>2. QED
        BY <1>0, <2>1, <3>1 DEF PutAway, QuarReported, NameReported, Here
    <2>4. CASE t # Current(p)
      <3>1. quar'[p][t] = quar[p][t] /\ entry'[bound[p]][t] = entry[bound[p]][t]
        <4>1. ~Link(p) /\ pc'[p] # "rb_resolve" /\ bound[p] \in Dirs
          BY <1>0, <1>2, <2>1 DEF Link, Removing
        <4>2. QED
          BY <1>0, <2>4, <4>1 DEF FilesStep, EntryAt, QuarAt
      <3>2. ~Resolving(p, t) /\ pc'[p] \notin {"rb_resolve", "rb_unlink"}
        BY <2>1, <2>4 DEF Resolving
      <3>3. QED
        BY <1>0, <1>a, <2>1, <2>2, <2>4, <3>1, <3>2 DEF QuarReported, NameReported, Here, Resolving
    <2>5. QED
      BY <2>3, <2>4
  <1>3. CASE Link(p)
    <2>1. /\ pc[p] = "link" /\ pc'[p] = "unlink" /\ UNCHANGED <<quar, bound, left>>
          /\ owned' = [owned EXCEPT ![p] = Append(owned[p], tmp[p].target)]
      BY <1>0, <1>3 DEF Link, Goto
    <2>2. tmp[p].target \in Targets /\ bound[p] \in Dirs
      BY <1>0, <2>1, Shapes DEF LocalInv, Temporary
    <2>3. Names(p)' = Names(p) \cup {tmp[p].target}
      BY <1>0, <2>1, <2>2, PushNames, OwnedShape
    <2>4. t # tmp[p].target => entry'[bound[p]][t] = entry[bound[p]][t]
      <3>1. PICK u \in Targets, f \in File \cup {None} : u = tmp[p].target /\ f = <<p, u>>
        BY <2>2, FileType
      <3>2. SetEntry(p, u, f)
        BY <1>3, <3>1 DEF Link
      <3>3. QED
        BY <1>0, <2>2, <3>1, <3>2, EntrySet
    <2>5. QED
      BY <1>0, <1>a, <2>1, <2>3, <2>4 DEF QuarReported, NameReported, Here, Resolving, Active, Publishing
  <1>4. CASE RollbackMove(p) /\ ~Pop(p)
    <2>1. /\ pc[p] = "rb_move" /\ pc'[p] = "rb_resolve" /\ UNCHANGED <<bound, owned, left>>
          /\ SetEntry(p, Current(p), None)
          /\ quar' = [quar EXCEPT ![p][Current(p)] = Here(p, Current(p))]
      BY <1>0, <1>4 DEF RollbackMove, Goto
    <2>2. Current(p) \in Targets /\ bound[p] \in Dirs /\ Here(p, Current(p)) \in File \cup {None}
      BY <1>0, <2>1, OwnedShape DEF LocalInv, Here
    <2>3. /\ t # Current(p) => quar'[p][t] = quar[p][t] /\ entry'[bound[p]][t] = entry[bound[p]][t]
          /\ t = Current(p) => entry'[bound[p]][t] = None
      BY <1>0, <2>1, <2>2, EntrySet, QuarSet, Shapes
    <2>4. <<p, t>> # None
      BY FileType, Disjoint
    <2>5. QED
      BY <1>0, <1>a, <2>1, <2>3, <2>4, SameNames DEF QuarReported, NameReported, Here, Resolving, Active, RollingBack
  <1>5. CASE Resolve(p) /\ ~Pop(p)
    <2>1. /\ pc[p] = "rb_resolve" /\ pc'[p] = "rb_unlink" /\ UNCHANGED <<entry, quar, bound, owned, left>>
      BY <1>0, <1>5, ResolveShape DEF Goto
    <2>2. QED
      BY <1>0, <1>a, <2>1, SameNames DEF QuarReported, NameReported, Here, Resolving, Active, RollingBack
  <1>6. ASSUME UNCHANGED <<entry, quar, owned>>, pc[p] \in Active,
               pc[p] \notin {"rb_resolve", "rb_unlink"}, pc'[p] \notin {"rb_resolve", "rb_unlink"}
        PROVE  QuarReported(p, t)' /\ NameReported(p, t)'
    <2>1. CASE bound'[p] = bound[p]
      BY <1>0, <1>a, <1>6, <2>1, SameNames DEF QuarReported, NameReported, Here, Resolving
    <2>2. CASE bound[p] = None /\ bound'[p] \in Dirs
      BY <1>0, <1>a, <1>6, <2>2, SameNames DEF QuarReported, NameReported, Here, Resolving, FreshInv
    <2>3. QED
      BY <1>0, <2>1, <2>2
  <1>7. CASE \/ OpenDirectory(p) \/ BindDirectory(p) \/ (\E u \in Targets : CreateTemporary(p, u))
             \/ WriteTemporary(p) \/ UnlinkTemporary(p) \/ BeginCommit(p) \/ Verify(p) \/ Fail(p)
             \/ RollbackTemporary(p) \/ RollbackDirectory(p) \/ MoveDirectory(p) \/ ResolveDirectory(p)
             \/ RemoveDirectory(p)
    <2>1. /\ UNCHANGED <<entry, quar, owned>> /\ pc[p] \in Active
          /\ pc[p] \notin {"rb_resolve", "rb_unlink"} /\ pc'[p] \notin {"rb_resolve", "rb_unlink"}
      BY <1>0, <1>7 DEF OpenDirectory, BindDirectory, CreateTemporary, WriteTemporary, UnlinkTemporary,
         BeginCommit, Verify, Fail, RollbackTemporary, RollbackDirectory, MoveDirectory, ResolveDirectory,
         RemoveDirectory, names, locals, Goto, Active, Publishing, RollingBack
    <2>2. QED
      BY <1>0, <1>6, <2>1
  <1>8. CASE RollbackOpen(p) /\ ~Pop(p)
    <2>1. /\ UNCHANGED <<entry, quar, owned>> /\ pc[p] = "rb_open" /\ pc'[p] \in {"rb_dir", "rb_move"}
      BY <1>0, <1>8 DEF RollbackOpen, Goto, names
    <2>2. QED
      BY <1>0, <1>6, <2>1 DEF Active, RollingBack
  <1>9. ASSUME Pop(p), RollbackOpen(p) \/ RollbackMove(p) \/ Resolve(p) \/ RollbackUnlink(p)
        PROVE  pc[p] \in Removing /\ owned[p] # <<>>
    <2>1. pc'[p] = "rb_open"
      BY <1>0, <1>9 DEF Pop, Goto
    <2>2. CASE RollbackOpen(p)
      BY <1>0, <2>1, <2>2 DEF RollbackOpen, Goto, Removing
    <2>3. CASE RollbackMove(p) \/ Resolve(p) \/ RollbackUnlink(p)
      BY <1>0, <2>3, ResolveShape DEF RollbackMove, RollbackUnlink, LocalInv, Removing
    <2>4. QED
      BY <1>9, <2>2, <2>3
  <1>10. RollbackUnlink(p) => Pop(p)
    BY DEF RollbackUnlink
  <1>11. ~Close(p) /\ ~Crash(p)
    BY <1>0 DEF Close, Crash, Goto, Active, Publishing, RollingBack
  <1>12. RollbackOpen(p) \/ RollbackMove(p) \/ Resolve(p) \/ RollbackUnlink(p) => Step(p)
    BY DEF Step
  <1>13. CASE RollbackOpen(p) \/ RollbackMove(p) \/ Resolve(p) \/ RollbackUnlink(p)
    BY <1>2, <1>4, <1>5, <1>8, <1>9, <1>10, <1>12, <1>13
  <1>14. QED
    BY <1>0, <1>1, <1>3, <1>7, <1>11, <1>13 DEF Step

LEMMA ReportByPeer ==
  ASSUME BaseInv, NEW x \in Peers, Peer(x), NEW p \in Procs, ReportInv(p)
  PROVE  ReportInv(p)'
  <1>0. /\ TypeOK /\ sources \in Dirs
        /\ entry \in [Dirs -> [Targets -> File \cup {None}]] /\ bound \in [Procs -> Dirs \cup {None}]
        /\ UNCHANGED <<temp, qtemp, quar, pc, bound, tmp, owned, left>>
        /\ Names(p)' = Names(p) /\ Current(p)' = Current(p)
    BY PeerShape, Shapes, SameNames DEF BaseInv
  <1>1. ASSUME NEW t \in Targets, bound[p] # None, entry'[bound[p]][t] = <<p, t>>, <<p, t>> \notin back'
        PROVE  entry[bound[p]][t] = <<p, t>> /\ <<p, t>> \notin back
    <2>1. CASE PeerSwap(x)
      BY <1>0, <1>1, <2>1, PeerShape
    <2>2. CASE ~PeerSwap(x)
      <3>1. PICK u \in Targets, f \in File \cup {None} :
               /\ entry' = entry \/ entry' = [entry EXCEPT ![sources][u] = f]
               /\ \/ f = <<x, u>> /\ UNCHANGED back
                  \/ f = None /\ UNCHANGED back
                  \/ back' = back \cup {f}
                  \/ entry' = entry /\ UNCHANGED back
        BY <1>0, <2>2, PeerFiles
      <3>2. x # p /\ <<p, t>> # None
        BY Disjoint, FileType
      <3>3. back \subseteq back'
        BY <3>1
      <3>4. CASE entry' = entry
        BY <1>1, <3>3, <3>4
      <3>5. CASE entry' = [entry EXCEPT ![sources][u] = f] /\ entry' # entry
        <4>1. f # <<p, t>>
          BY <1>1, <3>1, <3>2, <3>5
        <4>2. /\ entry'[sources][u] = f
              /\ \A e \in Dirs, v \in Targets : e # sources \/ v # u => entry'[e][v] = entry[e][v]
          BY <1>0, <3>5, PeerSet
        <4>3. QED
          BY <1>0, <1>1, <3>3, <4>1, <4>2
      <3>6. QED
        BY <3>1, <3>4, <3>5
    <2>3. QED
      BY <2>1, <2>2
  <1>2. QED
    BY <1>0, <1>1 DEF ReportInv, TempReported, QuarReported, NameReported, Here, Resolving

-----------------------------------------------------------------------------
(* An undisturbed rollback is complete.                                    *)

LEMMA AloneKept ==
  ASSUME BaseInv, NEW p \in Procs, WaitInv(p), FreshInv(p), AloneInv(p),
         Enter(p) \/ Step(p) \/ Crash(p)
  PROVE  AloneInv(p)'
  <1> SUFFICES ASSUME pc'[p] \in Active PROVE AloneInv(p)'
    BY DEF AloneInv
  <1>0. /\ TypeOK /\ LocalInv(p) /\ FilesStep(p) /\ Alone(p) /\ pc \in [Procs -> Labels]
        /\ entry \in [Dirs -> [Targets -> File \cup {None}]]
        /\ made \in [Procs -> Dirs \cup {None, Unknown}]
        /\ bound \in [Procs -> Dirs \cup {None}] /\ sources \in Dirs \cup {None}
        /\ None \notin Dirs /\ Unknown \notin Dirs /\ p \in Dirs
        /\ bound'[p] = bound[p] \/ (bound[p] = None /\ bound'[p] = sources /\ sources # None
                                         /\ pc[p] \in Publishing)
        /\ \A t \in Targets : <<p, t>> # None
    <2>1. \A t \in Targets : <<p, t>> \in File
      BY FileType
    <2>2. QED
      BY <2>1, StepFiles, StepAlone, StepDirs, Shapes, Disjoint DEF BaseInv, Dirs
  <1>1. ~Close(p) /\ ~Crash(p)
    BY <1>0 DEF Close, Crash, Goto, Active, Publishing, RollingBack
  <1>2. \A q \in Procs \ {p} : bound'[q] # p
    <2>1. pc[p] \in Active \/ pc[p] = "idle"
      BY <1>0, <1>1, StepLock DEF Enter
    <2>2. QED
      BY <1>0, <2>1 DEF Alone, AloneInv, WaitInv
  <1>3. pc[p] \in Active \/ (Enter(p) /\ pc[p] = "idle")
    BY <1>0, <1>1, StepLock DEF Enter
  <1>4. ASSUME NEW d \in Dirs, NEW t \in Targets, entry[d][t] = <<p, t>> PROVE d = bound[p]
    BY <1>3, <1>4 DEF AloneInv, WaitInv, FreshInv
  <1>5. ASSUME NEW q \in Procs, NEW t \in Targets, quar[q][t] = <<p, t>> PROVE q = p
    BY <1>3, <1>5 DEF AloneInv, WaitInv, FreshInv
  <1>6. ASSUME NEW t \in Targets
        PROVE  /\ entry[p][t] # None => bound[p] = p /\ entry[p][t] = <<p, t>>
               /\ bound[p] = p /\ quar[p][t] # None => quar[p][t] = <<p, t>>
    BY <1>3, <1>6 DEF AloneInv, WaitInv
  <1>7. ASSUME NEW t \in Targets, bound'[p] # bound[p]
        PROVE  (\A d \in Dirs : entry[d][t] # <<p, t>>) /\ quar[p][t] = None /\ entry[p][t] = None
    <2>1. \A d \in Dirs : entry[d][t] # <<p, t>>
      BY <1>0, <1>7 DEF FreshInv
    <2>2. quar[p][t] = None
      BY <1>0, <1>7 DEF LocalInv
    <2>3. QED
      BY <1>0, <1>6, <1>7, <2>1, <2>2
  <1>8. ASSUME NEW t \in Targets
        PROVE  /\ \A d \in Dirs : entry'[d][t] = <<p, t>> => d = bound'[p]
               /\ \A q \in Procs : quar'[q][t] = <<p, t>> => q = p
               /\ entry'[p][t] # None => bound'[p] = p /\ entry'[p][t] = <<p, t>>
               /\ bound'[p] = p /\ quar'[p][t] # None => quar'[p][t] = <<p, t>>
    <2>1. \A q \in Procs : quar'[q][t] = <<p, t>> => q = p
      BY <1>0, <1>5 DEF Alone
    <2>2. CASE UNCHANGED <<entry, quar>>
      <3>1. CASE bound'[p] = bound[p]
        BY <1>4, <1>6, <2>1, <2>2, <3>1
      <3>2. CASE bound'[p] # bound[p]
        BY <1>7, <2>1, <2>2, <3>2
      <3>3. QED
        BY <3>1, <3>2
    <2>3. CASE ~UNCHANGED <<entry, quar>>
      <3>1. PICK u \in Targets :
               /\ bound[p] \in Dirs
               /\ \/ EntryAt(p, u, <<p, u>>) /\ UNCHANGED quar
                  \/ EntryAt(p, u, None) /\ QuarAt(p, u, Here(p, u))
                  \/ EntryAt(p, u, quar[p][u]) /\ QuarAt(p, u, None)
                  \/ UNCHANGED entry /\ QuarAt(p, u, None)
        BY <1>0, <2>3 DEF FilesStep
      <3>2. bound'[p] = bound[p]
        BY <1>0, <3>1
      <3>3. CASE t # u
        <4>1. (\A d \in Dirs : entry'[d][t] = entry[d][t]) /\ quar'[p][t] = quar[p][t]
          BY <3>1, <3>3 DEF EntryAt, QuarAt
        <4>2. QED
          BY <1>0, <1>4, <1>6, <2>1, <3>2, <4>1
      <3>4. CASE t = u
        <4>1. \A d \in Dirs : entry'[d][t] = <<p, t>> => d = bound'[p]
          BY <1>4, <3>1, <3>2, <3>4 DEF EntryAt
        <4>2. entry'[p][t] # None => bound'[p] = p /\ entry'[p][t] = <<p, t>>
          BY <1>0, <1>6, <3>1, <3>2, <3>4 DEF EntryAt
        <4>3. bound'[p] = p /\ quar'[p][t] # None => quar'[p][t] = <<p, t>>
          BY <1>6, <3>1, <3>2, <3>4 DEF QuarAt, Here
        <4>4. QED
          BY <2>1, <4>1, <4>2, <4>3
      <3>5. QED
        BY <3>3, <3>4
    <2>4. QED
      BY <2>2, <2>3
  <1>9. CASE Enter(p)
    <2>1. pc'[p] = "body" /\ UNCHANGED made /\ made[p] = None
      BY <1>0, <1>9 DEF Enter, Goto, locals, WaitInv
    <2>2. QED
      BY <1>0, <1>2, <1>8, <2>1 DEF AloneInv
  <1>10. CASE Step(p) /\ pc[p] \in Active
    <2>0. /\ pc[p] = "open_dir" => sources = p
          /\ made[p] \in {None, Unknown, p}
          /\ made[p] = p /\ pc[p] \in Before => sources = p
      BY <1>10 DEF AloneInv
    <2>1. /\ pc'[p] = "open_dir" => sources' = p
          /\ made'[p] \in {None, Unknown, p}
          /\ made'[p] = p /\ pc'[p] \in Before => sources' = p
      <3>1. CASE OpenDirectory(p)
        BY <1>0, <2>0, <3>1 DEF OpenDirectory, Goto, Before, Publishing
      <3>2. CASE BindDirectory(p)
        BY <1>0, <2>0, <3>2 DEF BindDirectory, Goto, names
      <3>3. CASE Fail(p)
        BY <1>0, <2>0, <3>3 DEF Fail, Goto, names, Before
      <3>4. CASE Resolve(p)
        <4>1. pc'[p] # "open_dir" /\ pc[p] \in Before /\ UNCHANGED <<sources, made>>
          BY <1>0, <3>4, ResolveShape DEF Pop, Goto, Before, Removing
        <4>2. QED
          BY <2>0, <4>1
      <3>5. CASE \/ \E t \in Targets : CreateTemporary(p, t)
                 \/ WriteTemporary(p) \/ Link(p) \/ UnlinkTemporary(p) \/ BeginCommit(p) \/ Verify(p)
        <4>1. /\ pc'[p] \in {"body", "write", "link", "unlink", "verify", "committed"}
              /\ pc[p] \in {"body", "write", "link", "unlink", "verify"}
              /\ UNCHANGED <<sources, made>>
          <5>1. CASE \E t \in Targets : CreateTemporary(p, t)
            BY <1>0, <5>1 DEF CreateTemporary, Goto
          <5>2. CASE WriteTemporary(p) \/ Link(p) \/ UnlinkTemporary(p) \/ BeginCommit(p) \/ Verify(p)
            BY <1>0, <5>2 DEF WriteTemporary, Link, UnlinkTemporary, BeginCommit, Verify, Goto, names, locals
          <5>3. QED
            BY <3>5, <5>1, <5>2
        <4>2. QED
          BY <2>0, <4>1 DEF Before, Publishing
      <3>6. CASE RollbackTemporary(p) \/ RollbackOpen(p) \/ RollbackMove(p) \/ RollbackUnlink(p)
                 \/ RollbackDirectory(p)
        <4>1. /\ pc'[p] \in {"rb_open", "rb_move", "rb_resolve", "rb_dir", "rb_dir_move", "close"}
              /\ pc[p] \in {"rb_temp", "rb_open", "rb_move", "rb_unlink", "rb_dir"}
              /\ UNCHANGED <<sources, made>>
          BY <1>0, <3>6 DEF RollbackTemporary, RollbackOpen, RollbackMove, RollbackUnlink, RollbackDirectory,
             Pop, Goto, names
        <4>2. QED
          BY <2>0, <4>1 DEF Before, Removing
      <3>7. CASE MoveDirectory(p) \/ ResolveDirectory(p) \/ RemoveDirectory(p)
        <4>1. pc'[p] \in {"rb_dir_resolve", "rb_rmdir", "close"} /\ UNCHANGED made
          BY <1>0, <3>7 DEF MoveDirectory, ResolveDirectory, RemoveDirectory, Goto
        <4>2. QED
          BY <2>0, <4>1 DEF Before, Publishing, Removing
      <3>8. QED
        BY <1>1, <1>10, <3>1, <3>2, <3>3, <3>4, <3>5, <3>6, <3>7 DEF Step
    <2>2. QED
      BY <1>2, <1>8, <2>1 DEF AloneInv
  <1>11. QED
    BY <1>1, <1>3, <1>9, <1>10

\* A file that has only its quarantine name.
LEMMA OneLink ==
  ASSUME TypeOK, NEW p \in Procs, NEW t \in Targets, aliased = {}, quar[p][t] = <<p, t>>,
         \A d \in Dirs, u \in Targets : entry[d][u] # <<p, t>>,
         \A q \in Procs, u \in Targets : quar[q][u] = <<p, t>> => q = p /\ u = t,
         temp[p] # t, qtemp[p] # t
  PROVE  Links(<<p, t>>) = 1
  <1> DEFINE f == <<p, t>>
             A == {d \in Dirs : entry[d][f[2]] = f}
             B == {q \in Procs : quar[q][f[2]] = f}
             C == {q \in Procs : f = <<q, temp[q]>>}
             D == {q \in Procs : f = <<q, qtemp[q]>>}
             E == {f} \cap aliased
  <1>1. A = {} /\ C = {} /\ D = {} /\ E = {}
    OBVIOUS
  <1>2. B = {p}
    OBVIOUS
  <1>3. Links(f) = Cardinality(A) + Cardinality(B) + Cardinality(C) + Cardinality(D) + Cardinality(E)
    BY DEF Links
  <1> HIDE DEF A, B, C, D, E, f
  <1>4. /\ Cardinality(A) = 0 /\ Cardinality(C) = 0 /\ Cardinality(D) = 0 /\ Cardinality(E) = 0
        /\ Cardinality(B) = 1
    BY <1>1, <1>2, FS_EmptySet, FS_Singleton
  <1>5. QED
    BY <1>3, <1>4 DEF f

\* What a step leaves behind when no call failed and no peer interfered.
LEMMA NothingLeft ==
  ASSUME BaseInv, NEW p \in Procs, ReportInv(p), AloneInv(p), CleanInv(p), back = {}, aliased = {},
         edited = {}, Step(p), pc[p] \in Active, pc'[p] \in Active, p \notin faults'
  PROVE  left'[p] = {} /\ (pc[p] = "rb_resolve" => pc'[p] = "rb_unlink" /\ owned' = owned)
  <1>0. /\ TypeOK /\ LocalInv(p) /\ pc \in [Procs -> Labels] /\ left \in [Procs -> SUBSET Residual]
        /\ p \notin faults /\ left[p] = {}
        /\ bound \in [Procs -> Dirs \cup {None}] /\ None \notin Dirs /\ p \in Dirs
        /\ Names(p) \subseteq Targets
    BY StepAlone, Shapes, OwnedShape, Disjoint DEF BaseInv, CleanInv, Alone, Dirs
  <1>a. ~Faulted(p)
    BY DEF Faulted
  <1>b. /\ \A t \in Targets : quar[p][t] # None => Resolving(p, t)
        /\ \A t \in Targets : bound[p] # None /\ Here(p, t) = <<p, t>> => t \in Names(p) /\ ~Resolving(p, t)
        /\ pc[p] \in Removing \cup Emptying => temp[p] = None /\ qtemp[p] = None
    BY <1>0 DEF ReportInv, TempReported, QuarReported, NameReported
  <1>1. CASE Resolve(p)
    <2>1. PICK t \in Targets : t = Current(p) /\ t \in Names(p)
      BY <1>0, <1>1, ResolveShape, OwnedShape DEF LocalInv
    <2>2. pc[p] = "rb_resolve" /\ Resolving(p, t) /\ quar[p][t] = <<p, t>> /\ bound[p] # None
      BY <1>0, <1>1, <2>1, ResolveShape DEF CleanInv, Resolving, LocalInv
    <2>3. ASSUME NEW d \in Dirs, NEW u \in Targets PROVE entry[d][u] # <<p, t>>
      <3>1. <<p, t>>[2] = t /\ <<p, t>> # None
        BY FileType, Disjoint
      <3>2. CASE u # t
        BY <3>1, <3>2 DEF BaseInv, TargetInv
      <3>3. CASE u = t
        BY <1>b, <2>2, <3>3 DEF AloneInv, Here
      <3>4. QED
        BY <3>2, <3>3
    <2>4. ASSUME NEW q \in Procs, NEW u \in Targets, quar[q][u] = <<p, t>> PROVE q = p /\ u = t
      <3>1. <<p, t>>[2] = t /\ <<p, t>> # None
        BY FileType, Disjoint
      <3>2. u = t
        BY <2>4, <3>1 DEF BaseInv, TargetInv
      <3>3. QED
        BY <2>4, <3>2 DEF AloneInv
    <2>5. temp[p] # t /\ qtemp[p] # t
      BY <1>b, <2>2, Disjoint DEF Removing
    <2>6. Removable(<<p, t>>)
      BY <1>0, <2>2, <2>3, <2>4, <2>5, OneLink DEF Removable
    <2>7. UNCHANGED <<owned, left>> /\ Goto(p, "rb_unlink")
      BY <1>1, <2>1, <2>2, <2>6, ResolveShape
    <2>8. QED
      BY <1>0, <2>7 DEF Goto
  <1>2. CASE ResolveDirectory(p)
    <2>1. pc[p] = "rb_dir_resolve" /\ qdir[p] = p /\ made[p] = p
      BY <1>0, <1>2 DEF ResolveDirectory, CleanInv, AloneInv, LocalInv
    <2>2. QED
      BY <1>0, <1>a, <1>2, <2>1 DEF ResolveDirectory
  <1>3. CASE RemoveDirectory(p)
    <2>1. pc[p] = "rb_rmdir" /\ qdir[p] = p
      BY <1>0, <1>3 DEF RemoveDirectory, AloneInv, LocalInv
    <2>2. owned[p] = <<>> /\ Names(p) = {}
      BY <1>0, <2>1, OwnedShape DEF LocalInv, Emptying
    <2>3. \A t \in Targets : ~Resolving(p, t)
      BY <2>1 DEF Resolving
    <2>4. \A t \in Targets : entry[p][t] = None
      BY <1>0, <1>b, <2>2 DEF AloneInv, Here
    <2>5. temp[p] = None /\ qtemp[p] = None /\ \A t \in Targets : quar[p][t] = None
      BY <1>b, <2>1, <2>3 DEF Emptying
    <2>6. \A q \in Procs : bound[q] = p => q = p
      BY DEF AloneInv
    <2>7. Empty(qdir[p])
      BY <2>1, <2>4, <2>5, <2>6 DEF Empty
    <2>8. QED
      BY <1>0, <1>a, <1>3, <2>1, <2>7 DEF RemoveDirectory
  <1>4. CASE RollbackTemporary(p) \/ RollbackOpen(p) \/ RollbackMove(p) \/ RollbackUnlink(p)
             \/ RollbackDirectory(p) \/ MoveDirectory(p)
    BY <1>0, <1>a, <1>4 DEF RollbackTemporary, RollbackOpen, RollbackMove, RollbackUnlink,
       RollbackDirectory, MoveDirectory
  <1>5. CASE \/ OpenDirectory(p) \/ BindDirectory(p) \/ (\E t \in Targets : CreateTemporary(p, t))
             \/ WriteTemporary(p) \/ Link(p) \/ UnlinkTemporary(p) \/ BeginCommit(p) \/ Verify(p) \/ Fail(p)
    BY <1>0, <1>5 DEF OpenDirectory, BindDirectory, CreateTemporary, WriteTemporary, Link, UnlinkTemporary,
       BeginCommit, Verify, Fail, locals, Publishing
  <1>6. ~Close(p)
    BY <1>0 DEF Close, Goto, Active, Publishing, RollingBack
  <1>7. QED
    BY <1>1, <1>2, <1>3, <1>4, <1>5, <1>6 DEF Step

LEMMA CleanKept ==
  ASSUME BaseInv, NEW p \in Procs, WaitInv(p), ReportInv(p), AloneInv(p), CleanInv(p),
         back = {}, aliased = {}, edited = {}, Enter(p) \/ Step(p) \/ Crash(p)
  PROVE  CleanInv(p)'
  <1> SUFFICES ASSUME pc'[p] \in Active, p \notin faults' PROVE CleanInv(p)'
    BY DEF CleanInv
  <1>0. /\ TypeOK /\ LocalInv(p) /\ pc \in [Procs -> Labels] /\ FilesStep(p) /\ OwnedStep(p)
        /\ p \notin faults /\ Names(p) \subseteq Targets
        /\ bound \in [Procs -> Dirs \cup {None}] /\ None \notin Dirs
        /\ bound'[p] = bound[p] \/ bound[p] = None
        /\ entry \in [Dirs -> [Targets -> File \cup {None}]]
    BY StepAlone, StepFiles, StepOwned, StepDirs, Shapes, OwnedShape, Disjoint DEF BaseInv, Alone, Dirs
  <1>1. ~Close(p) /\ ~Crash(p)
    BY <1>0 DEF Close, Crash, Goto, Active, Publishing, RollingBack
  <1>2. CASE Enter(p)
    <2>1. /\ pc'[p] = "body" /\ UNCHANGED <<owned, left>> /\ owned[p] = <<>> /\ left[p] = {}
      BY <1>0, <1>2 DEF Enter, Goto, locals, WaitInv
    <2>2. Names(p)' = {}
      BY <1>0, <2>1, SameNames, OwnedShape
    <2>3. QED
      BY <2>1, <2>2 DEF CleanInv
  <1>3. CASE Step(p) /\ pc[p] \in Active
    <2>0. /\ left'[p] = {} /\ (pc[p] = "rb_resolve" => pc'[p] = "rb_unlink" /\ owned' = owned)
      BY <1>3, NothingLeft
    <2>a. \A t \in Names(p) : Resolving(p, t) \/ Here(p, t) = <<p, t>>
      BY <1>0, <1>3 DEF CleanInv
    <2>b. ~Faulted(p)
      BY DEF Faulted
    <2>c. owned[p] = <<>> => Names(p) = {}
      BY <1>0, OwnedShape
    <2>1. CASE RollbackMove(p)
      <3>1. PICK t \in Targets : t = Current(p) /\ t \in Names(p)
        BY <1>0, <2>1, OwnedShape DEF RollbackMove, LocalInv
      <3>2. Here(p, t) = <<p, t>> /\ bound[p] \in Dirs
        BY <1>0, <2>1, <2>a, <3>1 DEF RollbackMove, Resolving, LocalInv
      <3>3. /\ pc[p] = "rb_move" /\ pc'[p] = "rb_resolve" /\ UNCHANGED <<owned, bound>>
            /\ SetEntry(p, t, None) /\ quar' = [quar EXCEPT ![p][t] = <<p, t>>]
        BY <1>0, <2>1, <2>b, <3>1, <3>2 DEF RollbackMove, Goto
      <3>4. <<p, t>> \in File
        BY FileType
      <3>5. /\ quar'[p][t] = <<p, t>>
            /\ \A u \in Targets : u # t => entry'[bound[p]][u] = entry[bound[p]][u]
        BY <1>0, <3>2, <3>3, <3>4, EntrySet, QuarSet, Shapes
      <3>6. Names(p)' = Names(p) /\ Current(p)' = t
        BY <3>1, <3>3, SameNames
      <3>7. ASSUME NEW u \in Names(p) PROVE Resolving(p, u)' \/ entry'[bound'[p]][u] = <<p, u>>
        <4>1. CASE u = t
          BY <3>3, <3>6, <4>1 DEF Resolving
        <4>2. CASE u # t
          BY <1>0, <2>a, <3>3, <3>5, <4>2 DEF Resolving, Here
        <4>3. QED
          BY <4>1, <4>2
      <3>8. QED
        BY <2>0, <3>3, <3>5, <3>6, <3>7 DEF CleanInv, Here
    <2>2. CASE MoveDirectory(p)
      <3>1. pc[p] = "rb_dir_move" /\ Names(p) = {} /\ owned' = owned /\ sources = p
        BY <1>0, <1>3, <2>2, <2>c, Shapes DEF MoveDirectory, LocalInv, Emptying, AloneInv, Before
      <3>2. pc'[p] = "rb_dir_resolve" /\ qdir'[p] = p
        BY <1>0, <2>2, <2>b, <3>1, Shapes DEF MoveDirectory, Goto
      <3>3. QED
        BY <2>0, <3>1, <3>2, SameNames DEF CleanInv
    <2>3. ASSUME pc'[p] \notin {"rb_resolve", "rb_dir_resolve"},
                 \A t \in Names(p)' : Resolving(p, t)' \/ entry'[bound'[p]][t] = <<p, t>>
          PROVE  CleanInv(p)'
      BY <2>0, <2>3 DEF CleanInv, Here
    <2>4. CASE Resolve(p)
      <3>1. pc[p] = "rb_resolve" /\ pc'[p] = "rb_unlink" /\ UNCHANGED <<entry, owned, bound>>
        BY <1>0, <2>0, <2>4, ResolveShape DEF Pop, Goto
      <3>2. /\ Names(p)' = Names(p) /\ Current(p)' = Current(p)
        BY <3>1, SameNames
      <3>3. \A t \in Names(p) : Resolving(p, t)' \/ entry'[bound'[p]][t] = <<p, t>>
        BY <2>a, <3>1, <3>2 DEF Resolving, Here
      <3>4. QED
        BY <2>3, <3>1, <3>2, <3>3
    <2>5. CASE RollbackUnlink(p)
      <3>1. /\ pc[p] = "rb_unlink" /\ pc'[p] = "rb_open" /\ UNCHANGED <<entry, bound>>
            /\ Names(p)' = Names(p) \ {Current(p)}
        BY <1>0, <2>5, PopNames DEF RollbackUnlink, LocalInv, Pop, Goto
      <3>2. \A t \in Names(p)' : entry'[bound'[p]][t] = <<p, t>>
        BY <2>a, <3>1 DEF Resolving, Here
      <3>3. QED
        BY <2>3, <3>1, <3>2
    <2>6. CASE RollbackOpen(p)
      <3>1. /\ pc[p] = "rb_open" /\ pc'[p] \in {"rb_open", "rb_dir", "rb_move"} /\ UNCHANGED <<entry, bound>>
        BY <1>0, <2>6 DEF RollbackOpen, Pop, Goto, names
      <3>2. Names(p)' \subseteq Names(p)
        <4>1. CASE owned' = owned
          BY <4>1, SameNames
        <4>2. CASE owned[p] # <<>> /\ Pop(p)
          BY <1>0, <4>2, PopNames DEF LocalInv
        <4>3. QED
          BY <2>6, <4>1, <4>2 DEF RollbackOpen
      <3>3. \A t \in Names(p)' : entry'[bound'[p]][t] = <<p, t>>
        BY <2>a, <3>1, <3>2 DEF Resolving, Here
      <3>4. QED
        BY <2>3, <3>1, <3>3
    <2>7. CASE Link(p)
      <3>1. /\ pc[p] = "link" /\ pc'[p] = "unlink" /\ bound' = bound
            /\ owned' = [owned EXCEPT ![p] = Append(owned[p], tmp[p].target)]
        BY <1>0, <2>7 DEF Link, Goto
      <3>2. tmp[p].target \in Targets /\ bound[p] \in Dirs
        BY <1>0, <3>1, Shapes DEF LocalInv, Temporary
      <3>3. PICK t \in Targets, f \in File \cup {None} : t = tmp[p].target /\ f = <<p, t>>
        BY <3>2, FileType
      <3>4. SetEntry(p, t, f)
        BY <2>7, <3>3 DEF Link
      <3>5. /\ entry'[bound[p]][t] = <<p, t>>
            /\ \A u \in Targets : u # t => entry'[bound[p]][u] = entry[bound[p]][u]
        BY <1>0, <3>2, <3>3, <3>4, EntrySet
      <3>6. Names(p)' = Names(p) \cup {t}
        BY <1>0, <3>1, <3>2, <3>3, PushNames, OwnedShape
      <3>7. \A u \in Names(p)' : entry'[bound'[p]][u] = <<p, u>>
        BY <1>0, <2>a, <3>1, <3>5, <3>6 DEF Resolving, Here
      <3>8. QED
        BY <2>3, <3>1, <3>7
    <2>8. CASE \/ OpenDirectory(p) \/ BindDirectory(p) \/ (\E t \in Targets : CreateTemporary(p, t))
               \/ WriteTemporary(p) \/ UnlinkTemporary(p) \/ BeginCommit(p) \/ Verify(p) \/ Fail(p)
               \/ RollbackTemporary(p) \/ RollbackDirectory(p) \/ ResolveDirectory(p)
               \/ RemoveDirectory(p)
      <3>1. /\ UNCHANGED <<entry, owned>>
            /\ pc[p] \notin {"rb_resolve", "rb_unlink"} /\ pc'[p] \notin {"rb_resolve", "rb_dir_resolve"}
        BY <1>0, <2>8 DEF OpenDirectory, BindDirectory, CreateTemporary, WriteTemporary, UnlinkTemporary,
           BeginCommit, Verify, Fail, RollbackTemporary, RollbackDirectory, ResolveDirectory,
           RemoveDirectory, names, locals, Goto, Publishing
      <3>2. Names(p)' = Names(p)
        BY <3>1, SameNames
      <3>3. \A t \in Names(p) : entry'[bound'[p]][t] = <<p, t>>
        BY <1>0, <2>a, <2>c, <3>1 DEF Resolving, Here, LocalInv
      <3>4. QED
        BY <2>3, <3>1, <3>2, <3>3
    <2>9. QED
      BY <1>1, <1>3, <2>1, <2>2, <2>4, <2>5, <2>6, <2>7, <2>8 DEF Step
  <1>4. QED
    BY <1>0, <1>1, <1>2, <1>3, StepLock

-----------------------------------------------------------------------------
(* The theorems.                                                           *)

LEMMA InitHolds == Init => IInv
  <1> SUFFICES ASSUME Init PROVE IInv
    OBVIOUS
  <1>0. /\ \A p \in Procs : pc[p] \in {"idle", "dead"}
        /\ \A p \in Procs : owned[p] = <<>> /\ checked[p] = 0 /\ left[p] = {}
        /\ \A p \in Procs : bound[p] = None /\ made[p] = None /\ tmp[p] = None
        /\ \A p \in Procs : temp[p] = None /\ qtemp[p] = None /\ qdir[p] = None
        /\ \A p \in Procs, t \in Targets : quar[p][t] = None
        /\ \A d \in Dirs, t \in Targets : entry[d][t] = None
        /\ sources \in {None, Base} /\ aliased = {} /\ edited = {} /\ placed = {} /\ back = {}
    BY DEF Init
  <1>1. TypeOK
    <2>1. RestTyped
      <3>1. {"idle", "dead"} \subseteq Labels
        BY DEF Labels, Ended
      <3>2. pc \in [Procs -> Labels]
        BY <3>1 DEF Init
      <3>3. entry \in [Dirs -> [Targets -> File \cup {None}]] /\ quar \in [Procs -> [Targets -> File \cup {None}]]
        BY DEF Init
      <3>4. QED
        BY <3>2, <3>3 DEF Init, RestTyped, Dirs
    <2>2. owned \in [Procs -> Seq(Targets)]
      <3>1. <<>> \in Seq(Targets)
        OBVIOUS
      <3>2. QED
        BY <3>1 DEF Init
    <2>3. QED
      BY <2>1, <2>2, TypeSplit
  <1>2. \A p \in Procs : Names(p) = {} /\ pc[p] \notin Active /\ pc[p] \notin Committing
    <2>1. Len(<<>>) = 0
      OBVIOUS
    <2>2. {"idle", "dead"} \cap (Active \cup Committing) = {}
      BY DEF Active, Publishing, RollingBack, Committing
    <2>3. QED
      BY <1>0, <2>1, <2>2 DEF Names
  <1>3. BaseInv
    <2>1. ASSUME NEW p \in Procs PROVE LocalInv(p)
      <3>1. Distinct(owned[p])
        <4>1. Len(<<>>) = 0
          OBVIOUS
        <4>2. QED
          BY <1>0, <4>1 DEF Distinct
      <3>2. QED
        BY <1>0, <1>2, <3>1 DEF LocalInv, Publishing, Emptying
    <2>2. QED
      BY <1>0, <1>1, <1>2, <2>1 DEF BaseInv, LockInv, TargetInv
  <1>4. TraceInv
    <2>1. \A p \in Procs : sources # p /\ p # None
      BY <1>0, Disjoint
    <2>2. ASSUME NEW p \in Procs, NEW t \in Targets PROVE <<p, t>> # None /\ entry[p][t] = None
      <3>1. <<p, t>> \in File /\ p \in Dirs
        BY FileType DEF Dirs
      <3>2. QED
        BY <1>0, <3>1, Disjoint
    <2>3. ASSUME NEW p \in Procs PROVE WaitInv(p)
      BY <1>0, <2>1, <2>2 DEF WaitInv
    <2>4. ASSUME NEW p \in Procs PROVE FreshInv(p)
      BY <1>0, <2>2 DEF FreshInv
    <2>5. QED
      BY <2>3, <2>4 DEF TraceInv
  <1>5. PlacedInv
    BY <1>0 DEF PlacedInv
  <1>6. ASSUME NEW p \in Procs PROVE WholeInv(p) /\ ReportInv(p) /\ AloneInv(p) /\ CleanInv(p)
    BY <1>0, <1>2 DEF WholeInv, ReportInv, AloneInv, CleanInv
  <1>7. QED
    BY <1>0, <1>3, <1>4, <1>5, <1>6 DEF IInv, UndisturbedInv

LEMMA StepKeeps ==
  ASSUME IInv, NEW p \in Procs, Enter(p) \/ Step(p) \/ Crash(p)
  PROVE  IInv'
  <1>0. BaseInv /\ TypeOK /\ WaitInv(p) /\ FreshInv(p) /\ ReportInv(p) /\ Alone(p)
    BY StepAlone DEF IInv, BaseInv, TraceInv
  <1>1. BaseInv' /\ TraceInv' /\ PlacedInv'
    BY <1>0, BaseKept, TraceKept, PlacedKept DEF IInv
  <1>2. ASSUME NEW q \in Procs, q # p PROVE pc'[q] \notin Active
    <2>1. \/ lock = None \/ pc[p] \in Active
      BY <1>0, StepLock
    <2>2. lock = None => pc[p] \notin Active /\ pc[q] \notin Active
      BY Disjoint, <1>0 DEF BaseInv, LockInv
    <2>3. pc[q] \notin Active
      BY <1>0, <1>2, <2>1, <2>2 DEF BaseInv, LockInv
    <2>4. QED
      BY <1>0, <1>2, <2>3 DEF Alone
  <1>3. ASSUME NEW q \in Procs PROVE WholeInv(q)' /\ ReportInv(q)'
    <2>1. CASE q = p
      BY <1>0, <2>1, WholeSelf, ReportSelf DEF IInv
    <2>2. CASE q # p
      <3>1. WholeInv(q)'
        BY <1>0, <2>2, WholeOther DEF IInv
      <3>2. ReportInv(q)'
        BY <1>2, <2>2 DEF ReportInv
      <3>3. QED
        BY <3>1, <3>2
    <2>3. QED
      BY <2>1, <2>2
  <1>4. UndisturbedInv'
    <2>1. SUFFICES ASSUME idle' = Peers PROVE UndisturbedInv'
      BY DEF UndisturbedInv
    <2>2. aliased = {} /\ edited = {} /\ back = {} /\ \A q \in Procs : AloneInv(q) /\ CleanInv(q)
      BY <1>0, <2>1 DEF IInv, UndisturbedInv, Alone
    <2>3. aliased' = {} /\ edited' = {} /\ back' = {}
      BY <1>0, <2>2 DEF Alone
    <2>4. ASSUME NEW q \in Procs PROVE AloneInv(q)' /\ CleanInv(q)'
      <3>1. CASE q = p
        BY <1>0, <2>2, <3>1, AloneKept, CleanKept
      <3>2. CASE q # p
        BY <1>2, <3>2 DEF AloneInv, CleanInv
      <3>3. QED
        BY <3>1, <3>2
    <2>5. QED
      BY <2>3, <2>4 DEF UndisturbedInv
  <1>5. QED
    BY <1>1, <1>3, <1>4 DEF IInv

LEMMA PeerKeeps ==
  ASSUME IInv, NEW x \in Peers, Peer(x)
  PROVE  IInv'
  <1>0. BaseInv /\ TypeOK
    BY DEF IInv, BaseInv
  <1>1. BaseInv' /\ TraceInv' /\ PlacedInv'
    BY <1>0, BaseKeptByPeer, TraceKeptByPeer, PlacedKeptByPeer DEF IInv
  <1>2. ASSUME NEW q \in Procs PROVE WholeInv(q)' /\ ReportInv(q)'
    BY <1>0, WholeKeptByPeer, ReportByPeer DEF IInv
  <1>3. idle' # Peers
    BY <1>0, PeerShape
  <1>4. QED
    BY <1>1, <1>2, <1>3 DEF IInv, UndisturbedInv

\* A step of nobody.
LEMMA StutterKeeps ==
  ASSUME IInv, UNCHANGED vars
  PROVE  IInv'
  <1> USE DEF vars, names, locals, history
  <1>1. BaseInv'
    <2>1. TypeOK'
      BY TypeSplit DEF IInv, BaseInv, RestTyped
    <2>2. LockInv' /\ TargetInv'
      BY DEF IInv, BaseInv, LockInv, TargetInv
    <2>3. \A p \in Procs : LocalInv(p)'
      <3>1. ASSUME NEW p \in Procs PROVE LocalInv(p)'
        <4>1. LocalInv(p)
          BY DEF IInv, BaseInv
        <4>2. QED
          BY <4>1, SameNames DEF LocalInv
      <3>2. QED
        BY <3>1
    <2>4. QED
      BY <2>1, <2>2, <2>3 DEF BaseInv
  <1>2. TraceInv'
    BY DEF IInv, TraceInv, WaitInv, FreshInv
  <1>3. PlacedInv'
    BY DEF IInv, PlacedInv, Named
  <1>4. \A p \in Procs : WholeInv(p)'
    <2>1. ASSUME NEW p \in Procs PROVE WholeInv(p)'
      <3>1. WholeInv(p)
        BY DEF IInv
      <3>2. QED
        BY <3>1, SMTT(30) DEF WholeInv, Kept, Here, Names
    <2>2. QED
      BY <2>1
  <1>5. \A p \in Procs : ReportInv(p)'
    BY DEF IInv, ReportInv, TempReported, QuarReported, NameReported, Here, Names, Resolving, Current
  <1>6. UndisturbedInv'
    BY DEF IInv, UndisturbedInv, AloneInv, CleanInv, Here, Names, Resolving, Current
  <1>7. QED
    BY <1>1, <1>2, <1>3, <1>4, <1>5, <1>6 DEF IInv

\* The invariant holds in every behaviour.
THEOREM Invariance == Spec => []IInv
  <1>1. IInv /\ [Next]_vars => IInv'
    BY StepKeeps, PeerKeeps, StutterKeeps DEF Next
  <1>2. QED
    BY InitHolds, <1>1, PTL DEF Spec

\* Every name and every variable of a transaction has its type, whatever fails
\* and whoever else writes.
THEOREM TypeCorrect == Spec => []TypeOK
  <1>1. IInv => TypeOK
    BY DEF IInv, BaseInv
  <1>2. QED
    BY Invariance, <1>1, PTL

\* No step of a publication or of a rollback destroys a file that a peer put
\* under a published name: what the rollback moves away it puts back, keeps
\* in quarantine, or knows to be its own.
THEOREM PeersArePreserved == Spec => []PeerPreserved
  <1>1. ASSUME IInv PROVE PeerPreserved
    <2>1. TypeOK /\ TargetInv /\ PlacedInv
      BY <1>1 DEF IInv, BaseInv
    <2>2. \A f \in placed : Named(f) /\ f # None
      BY <2>1, Disjoint DEF PlacedInv, File
    <2>3. QED
      BY <2>1, <2>2, NamedHasLinks DEF PeerPreserved
  <1>2. QED
    BY Invariance, <1>1, PTL

\* A commit that returned vouches for every name it verified and no peer has
\* touched since, whatever later transactions do.
THEOREM CommitsAreWhole == Spec => []CommittedIsWhole
  <1>1. ASSUME IInv PROVE CommittedIsWhole
    <2>1. ASSUME NEW p \in Procs, pc[p] \in {"committed", "returned"}, NEW i \in DOMAIN owned[p],
                 <<p, owned[p][i]>> \notin touched
          PROVE  Kept(p, owned[p][i])
      <3>1. checked[p] = Len(owned[p]) /\ DOMAIN owned[p] = 1 .. Len(owned[p])
        BY <1>1, <2>1, OwnedShape DEF IInv, BaseInv, WholeInv, Committing
      <3>2. QED
        BY <1>1, <2>1, <3>1 DEF IInv, WholeInv, Committing
    <2>2. QED
      BY <2>1 DEF CommittedIsWhole, Kept
  <1>2. QED
    BY Invariance, <1>1, PTL

\* A rollback reports every name it leaves behind, and when neither a call
\* failed nor a peer interfered it leaves none.
THEOREM RollbackAlwaysAccounts == Spec => []RollbackAccounts
  <1>1. ASSUME IInv PROVE SurvivorsReported
    <2>1. ASSUME NEW p \in Procs, pc[p] = "close" PROVE Survivors(p) \subseteq left[p]
      <3>1. /\ TempReported(p) /\ pc[p] \in Emptying
            /\ \A t \in Targets : QuarReported(p, t) /\ NameReported(p, t)
            /\ Names(p) = {} /\ \A t : ~Resolving(p, t)
        BY <1>1, <2>1, OwnedShape DEF IInv, BaseInv, LocalInv, ReportInv, Active, Emptying, Resolving
      <3>2. /\ temp[p] # None => At("temp", temp[p]) \in left[p]
            /\ qtemp[p] # None => At("temp_quarantine", qtemp[p]) \in left[p]
        BY <3>1 DEF TempReported
      <3>3. \A t \in Targets : quar[p][t] # None => At("quarantine", t) \in left[p]
        BY <3>1 DEF QuarReported
      <3>4. \A t \in Targets : bound[p] # None /\ Here(p, t) = <<p, t>> /\ <<p, t>> \notin back
              => At("target", t) \in left[p]
        BY <3>1 DEF NameReported
      <3>5. QED
        BY <3>2, <3>3, <3>4 DEF Survivors
    <2>2. QED
      BY <2>1 DEF SurvivorsReported
  <1>2. ASSUME IInv PROVE UndisturbedRollbackIsClean
    BY <1>2 DEF IInv, UndisturbedInv, CleanInv, UndisturbedRollbackIsClean, Active
  <1>3. IInv => RollbackAccounts
    BY <1>1, <1>2 DEF RollbackAccounts
  <1>4. QED
    BY Invariance, <1>3, PTL
=============================================================================
