--------------------------- MODULE ArtifactProofs ---------------------------
(***************************************************************************)
(* Proofs about ArtifactPublication for any writers, any number of files   *)
(* and any renames of the directory: the types, the coherence of what a    *)
(* reader accepts, whether or not transactions overlap, and, where they do *)
(* not, that content survives and a rollback that reports nothing restores *)
(* every name.                                                             *)
(***************************************************************************)
EXTENDS ArtifactPublication, SequenceTheorems, TLAPS

-----------------------------------------------------------------------------
(* The reader.                                                             *)

After == {"again", "stat", "accepted"}

\* A descriptor is of a file; once the last one has been read, a name whose
\* descriptor still has its signature meant that file at that instant if it
\* means it now; a name that was compared did.
ReadInv ==
    /\ rpc[1] = "open" => \A n \in Names : n < rpc[2] => hold[n] # None
    /\ rpc[1] \in After \cup {"read"} => \A n \in Names : hold[n] # None
    /\ rpc[1] \in After => \A n \in fresh : files[n] = hold[n] => snap[n] = hold[n]
    /\ rpc[1] = "stat" => \A n \in Names : n < rpc[2] => snap[n] = hold[n]
    /\ ReadIsSnapshot

-----------------------------------------------------------------------------
(* The writers, one at a time.                                             *)

Active(w) == pc[w] \notin Ended \cup {"idle"}
Clean(w, i) == ~rec[w][i].published /\ ~rec[w][i].backed
Recorded(w, n) == \E i \in 1 .. Last(w) : rec[w][i].name = n

\* Only an open transaction has records, a writer at a file has a record of it,
\* and an index is at a record unless the pass is over.
StandInv ==
    \A w \in Writers :
        /\ pc[w] \in {"backup", "replace", "digest"} => Last(w) > 0
        /\ ~Active(w) => rec[w] = <<>>
        /\ pc[w] \in {"verify", "cleanup"} => at[w] > 0
        /\ pc[w] \in {"rollback", "retry"} => at[w] <= Last(w)

\* Transactions do not overlap.
AloneInv == \A v, w \in Writers : Active(v) /\ Active(w) => v = w

\* A name has one record, and a writer that has not begun has no backup.
RecordInv(w) ==
    /\ \A i, j \in 1 .. Last(w) : rec[w][i].name = rec[w][j].name => i = j
    /\ pc[w] = "idle" => backup[w] = [n \in Names |-> None]

\* Where the file that w found under the name of record i is, and what the name
\* means now.
Kept(w, i, n) ==
    /\ rec[w][i].published => files[n] = <<w, n>>
    /\ ~rec[w][i].published /\ rec[w][i].backed => files[n] = None
    /\ Clean(w, i) => files[n] = before[w][n]
    /\ rec[w][i].backed => backup[w][n] = before[w][n] /\ before[w][n] # None
    /\ ~rec[w][i].backed => backup[w][n] = None
    /\ rec[w][i].published /\ ~rec[w][i].backed => before[w][n] = None

\* Before its commit a writer can put back what it found.
KeptInv(w) ==
    /\ Active(w) /\ pc[w] # "cleanup" => \A i \in 1 .. Last(w) : Kept(w, i, rec[w][i].name)
    /\ Active(w) => \A n \in Names : ~Recorded(w, n) =>
           files[n] = before[w][n] /\ backup[w][n] = None

\* The record of the file at hand: not yet backed, or ready to be replaced.
CurrentInv(w) ==
    /\ pc[w] = "backup" => Clean(w, Last(w))
    /\ pc[w] = "replace" => ~rec[w][Last(w)].published /\ files[Current(w)] = None

\* The records behind a rollback are undone, except the postponed ones.
UndoneInv(w) ==
    \A i \in 1 .. Last(w) :
        /\ pc[w] = "rollback" /\ i > at[w] /\ i \notin pend[w] => Clean(w, i)
        /\ pc[w] = "retry" /\ (i > at[w] \/ i \notin pend[w]) => Clean(w, i)

\* A verified record is under its name.
VerifyInv(w) ==
    \A i \in 1 .. Last(w) :
        /\ pc[w] = "verify" /\ i < at[w] =>
               files[rec[w][i].name] = <<w, rec[w][i].name>>
        /\ pc[w] = "cleanup" =>
               /\ files[rec[w][i].name] = <<w, rec[w][i].name>>
               /\ record[rec[w][i].name] = <<w, rec[w][i].name>>

\* What was committed last is what the writer found, or in the backup of
\* another one.
Old(w, n) ==
    record[n] # None =>
        before[w][n] = record[n] \/ \E v \in Writers \ {w} : backup[v][n] = record[n]
OldInv(w) ==
    Active(w) => \A n \in Names : pc[w] # "cleanup" \/ ~Recorded(w, n) => Old(w, n)

WriterInv(w) ==
    /\ RecordInv(w) /\ KeptInv(w) /\ CurrentInv(w)
    /\ UndoneInv(w) /\ VerifyInv(w) /\ OldInv(w)

WriteInv == AloneInv /\ (\A w \in Writers : WriterInv(w)) /\ NothingLost

IInv == TypeOK /\ StandInv /\ ReadInv /\ (~Overlap => WriteInv)

-----------------------------------------------------------------------------
(* The types.                                                              *)

\* What is known of a record of a transaction.
LEMMA RecFacts ==
    ASSUME TypeOK, NEW w \in Writers, NEW i \in 1 .. Last(w)
    PROVE  /\ rec[w] \in Seq(Record) /\ Last(w) \in Nat /\ i \in DOMAIN rec[w]
           /\ rec[w][i] \in Record /\ rec[w][i].name \in Names
           /\ rec[w][i].backed \in BOOLEAN /\ rec[w][i].published \in BOOLEAN
<1>1. rec[w] \in Seq(Record) /\ Last(w) \in Nat
  BY DEF TypeOK, LocalType, Last
<1>2. i \in DOMAIN rec[w]
  BY <1>1 DEF Last
<1>3. rec[w][i] \in Record
  BY <1>1, <1>2
<1> QED
  BY <1>1, <1>2, <1>3 DEF Record

\* A mark changes one field of one record.
LEMMA Marked ==
    ASSUME TypeOK, NEW w \in Writers, NEW i \in 1 .. Last(w), NEW field \in {"backed", "published"},
           Mark(w, i, field)
    PROVE  /\ rec' \in [Writers -> Seq(Record)] /\ Len(rec'[w]) = Len(rec[w])
           /\ \A v \in Writers : v # w => rec'[v] = rec[v]
           /\ \A j \in 1 .. Last(w) :
                  rec'[w][j].name = rec[w][j].name /\ (j # i => rec'[w][j] = rec[w][j])
           /\ field = "backed" => /\ rec'[w][i].backed = ~rec[w][i].backed
                                  /\ rec'[w][i].published = rec[w][i].published
           /\ field = "published" => /\ rec'[w][i].published = ~rec[w][i].published
                                     /\ rec'[w][i].backed = rec[w][i].backed
<1> DEFINE r == rec[w][i]
           new == Flipped(r, field)
           s == [rec[w] EXCEPT ![i] = new]
<1>1. rec[w] \in Seq(Record) /\ Last(w) \in Nat /\ r \in Record /\ Last(w) = Len(rec[w])
  BY RecFacts DEF Last
<1>2. new \in Record /\ new.name = r.name
  BY <1>1 DEF Record, Flipped
<1>3. /\ field = "backed" => new.backed = ~r.backed /\ new.published = r.published
      /\ field = "published" => new.published = ~r.published /\ new.backed = r.backed
  BY <1>1 DEF Record, Flipped
<1>4. rec' = [rec EXCEPT ![w] = s]
  BY DEF Mark
<1> HIDE DEF new, r
<1>5. s \in Seq(Record) /\ Len(s) = Len(rec[w]) /\ s[i] = new
      /\ \A j \in 1 .. Last(w) : j # i => s[j] = rec[w][j]
  BY <1>1, <1>2
<1> HIDE DEF s
<1>6. rec \in [Writers -> Seq(Record)]
  BY DEF TypeOK, LocalType
<1>7. rec' \in [Writers -> Seq(Record)] /\ rec'[w] = s /\ \A v \in Writers : v # w => rec'[v] = rec[v]
  BY <1>4, <1>5, <1>6
<1> QED
  BY <1>2, <1>3, <1>5, <1>7 DEF r

\* The locals of a process that leaves are gone.
LEMMA Ending ==
    ASSUME TypeOK, NEW w \in Writers, NEW label \in Ended, End(w, label),
           UNCHANGED <<files, backup, home, moves, readerVars, record>>
    PROVE  TypeOK'
<1>1. <<>> \in Seq(Record) /\ Len(<<>>) = 0
  OBVIOUS
<1>2. rec' \in [Writers -> Seq(Record)] /\ at' \in [Writers -> Nat] /\ pend' \in [Writers -> SUBSET Nat]
  BY <1>1 DEF TypeOK, LocalType, End
<1>3. \A v \in Writers : at'[v] \in 0 .. Len(rec'[v]) + 1 /\ pend'[v] \subseteq 1 .. Len(rec'[v])
  BY <1>1 DEF TypeOK, LocalType, End
<1>4. /\ pc' \in [Writers -> Ended \cup {"idle", "open", "backup", "replace", "digest",
                                         "verify", "cleanup", "rollback", "retry"}]
      /\ held' \in [Writers -> File \cup {None}]
      /\ before' \in [Writers -> [Names -> File \cup {None}]]
  BY DEF TypeOK, LocalType, FileType, End, Goto
<1> QED
  BY <1>2, <1>3, <1>4 DEF TypeOK, LocalType, FileType, readerVars

\* The file that a writer makes.
LEMMA OwnFile == \A w \in Writers, n \in Names : <<w, n>> \in File
BY DEF File

\* An exception leaves for the rollback at the last record.
LEMMA Raising ==
    ASSUME TypeOK, NEW w \in Writers, Raise(w), UNCHANGED <<rec, pend, held>>
    PROVE  LocalType'
<1>1. Last(w) \in Nat /\ Last(w) = Len(rec[w])
  BY DEF TypeOK, LocalType, Last
<1>2. at' = [at EXCEPT ![w] = Last(w)] /\ pc' = [pc EXCEPT ![w] = "rollback"]
  BY DEF Raise, Goto
<1>3. at' \in [Writers -> Nat] /\ \A v \in Writers : at'[v] \in 0 .. Len(rec[v]) + 1
  BY <1>1, <1>2 DEF TypeOK, LocalType
<1> QED
  BY <1>2, <1>3 DEF TypeOK, LocalType

\* A step that moves the index of a writer, and perhaps postpones its record.
LEMMA Moving ==
    ASSUME TypeOK, NEW w \in Writers, UNCHANGED <<rec, held>>,
           NEW k \in 0 .. Len(rec[w]) + 1, at' = [at EXCEPT ![w] = k],
           NEW more \in SUBSET (1 .. Len(rec[w])), pend' = [pend EXCEPT ![w] = @ \cup more],
           NEW label \in {"open", "verify", "cleanup", "rollback", "retry"},
           pc' = [pc EXCEPT ![w] = label] \/ pc' = pc
    PROVE  LocalType'
<1>1. Len(rec[w]) \in Nat
  BY DEF TypeOK, LocalType
<1>2. at' \in [Writers -> Nat] /\ \A v \in Writers : at'[v] \in 0 .. Len(rec[v]) + 1
  BY <1>1 DEF TypeOK, LocalType
<1>3. pend' \in [Writers -> SUBSET Nat] /\ \A v \in Writers : pend'[v] \subseteq 1 .. Len(rec[v])
  <2>1. pend[w] \cup more \in SUBSET Nat /\ pend[w] \cup more \subseteq 1 .. Len(rec[w])
    <3>1. pend[w] \subseteq 1 .. Len(rec[w]) /\ more \subseteq 1 .. Len(rec[w])
      BY DEF TypeOK, LocalType
    <3>2. 1 .. Len(rec[w]) \subseteq Nat
      OBVIOUS
    <3> QED
      BY <3>1, <3>2, Zenon
  <2>2. pend \in [Writers -> SUBSET Nat] /\ \A v \in Writers : pend[v] \subseteq 1 .. Len(rec[v])
    BY DEF TypeOK, LocalType
  <2> DEFINE sum == pend[w] \cup more
  <2>3. pend' = [pend EXCEPT ![w] = sum]
    OBVIOUS
  <2> HIDE DEF sum
  <2> QED
    BY <2>1, <2>2, <2>3 DEF sum
<1> QED
  BY <1>2, <1>3 DEF TypeOK, LocalType

LEMMA BeginType ==
    ASSUME TypeOK, NEW w \in Writers, NEW n \in Names, Begin(w, n)
    PROVE  TypeOK'
<1> DEFINE r == [name |-> n, backed |-> FALSE, published |-> FALSE]
<1>1. r \in Record
  BY DEF Record
<1> HIDE DEF r
<1>2. /\ rec' \in [Writers -> Seq(Record)] /\ Len(rec'[w]) = Len(rec[w]) + 1 /\ Len(rec[w]) \in Nat
      /\ \A v \in Writers : v # w => rec'[v] = rec[v]
  <2>1. rec' = [rec EXCEPT ![w] = Append(@, r)]
    BY DEF Begin, r
  <2>2. rec[w] \in Seq(Record) /\ rec \in [Writers -> Seq(Record)]
    BY DEF TypeOK, LocalType
  <2>3. Append(rec[w], r) \in Seq(Record) /\ Len(Append(rec[w], r)) = Len(rec[w]) + 1 /\ Len(rec[w]) \in Nat
    BY <1>1, <2>2
  <2> QED
    BY <2>1, <2>2, <2>3
<1>3. \A v \in Writers : at[v] \in 0 .. Len(rec'[v]) + 1 /\ pend[v] \subseteq 1 .. Len(rec'[v])
  <2> SUFFICES ASSUME NEW v \in Writers
               PROVE  at[v] \in 0 .. Len(rec'[v]) + 1 /\ pend[v] \subseteq 1 .. Len(rec'[v])
    OBVIOUS
  <2>1. at[v] \in 0 .. Len(rec[v]) + 1 /\ pend[v] \subseteq 1 .. Len(rec[v])
    BY DEF TypeOK, LocalType
  <2>2. Len(rec'[v]) = Len(rec[v]) \/ Len(rec'[v]) = Len(rec[v]) + 1
    BY <1>2
  <2>3. Len(rec[v]) \in Nat
    BY DEF TypeOK, LocalType
  <2> QED
    BY <2>1, <2>2, <2>3
<1>4. /\ held' \in [Writers -> File \cup {None}]
      /\ pc' \in [Writers -> Ended \cup {"idle", "open", "backup", "replace", "digest",
                                        "verify", "cleanup", "rollback", "retry"}]
  <2>1. files[n] \in File \cup {None}
    BY DEF TypeOK, FileType
  <2> QED
    BY <2>1 DEF Begin, Goto, TypeOK, LocalType
<1>5. UNCHANGED <<files, backup, home, moves, at, pend, rpc, hold, fresh, snap, record, before>>
  BY DEF Begin, readerVars
<1>6. FileType'
  BY <1>5 DEF FileType, TypeOK
<1> QED
  BY <1>2, <1>3, <1>4, <1>5, <1>6 DEF TypeOK, LocalType

\* A step that changes the file of one name, and perhaps a backup.
LEMMA NewFile ==
    ASSUME TypeOK, NEW w \in Writers, NEW n \in Names,
           NEW f \in File \cup {None}, files' = [files EXCEPT ![n] = f],
           NEW g \in File \cup {None}, backup' = [backup EXCEPT ![w][n] = g] \/ backup' = backup,
           (\E h : Renamed(h)) \/ UNCHANGED readerVars,
           UNCHANGED <<home, moves, record, before>>
    PROVE  FileType'
<1>1. files' \in [Names -> File \cup {None}]
  BY DEF TypeOK, FileType
<1>2. backup' \in [Writers -> [Names -> File \cup {None}]]
  <2> DEFINE b == [backup[w] EXCEPT ![n] = g]
  <2>1. backup \in [Writers -> [Names -> File \cup {None}]]
    BY DEF TypeOK, FileType
  <2>2. b \in [Names -> File \cup {None}]
    BY <2>1
  <2>3. backup' = [backup EXCEPT ![w] = b] \/ backup' = backup
    OBVIOUS
  <2> HIDE DEF b
  <2> QED
    BY <2>1, <2>2, <2>3
<1>3. fresh' \subseteq Names /\ UNCHANGED <<rpc, hold, snap>>
  BY DEF Renamed, TypeOK, FileType, readerVars
<1> QED
  BY <1>1, <1>2, <1>3 DEF FileType, TypeOK

\* A step that marks a record.
LEMMA NewMark ==
    ASSUME TypeOK, NEW w \in Writers, NEW i \in 1 .. Last(w),
           NEW field \in {"backed", "published"}, Mark(w, i, field), UNCHANGED <<pend, held>>,
           NEW label \in {"replace", "digest"}, pc' = pc \/ (Goto(w, label) /\ UNCHANGED at) \/ Raise(w),
           pc' = pc => at' = at
    PROVE  LocalType'
<1>1. rec' \in [Writers -> Seq(Record)] /\ \A v \in Writers : Len(rec'[v]) = Len(rec[v])
  BY Marked
<1>2. Last(w) \in Nat /\ Last(w) = Len(rec[w])
  BY DEF TypeOK, LocalType, Last
<1>3. pc' \in [Writers -> Ended \cup {"idle", "open", "backup", "replace", "digest",
                                      "verify", "cleanup", "rollback", "retry"}]
  BY DEF TypeOK, LocalType, Raise, Goto
<1>4. at' = at \/ at' = [at EXCEPT ![w] = Len(rec[w])]
  BY <1>2 DEF Raise
<1>5. at' \in [Writers -> Nat] /\ \A v \in Writers : at'[v] \in 0 .. Len(rec[v]) + 1
  <2>1. at \in [Writers -> Nat] /\ \A v \in Writers : at[v] \in 0 .. Len(rec[v]) + 1
    BY DEF TypeOK, LocalType
  <2>2. Len(rec[w]) \in Nat
    BY <1>2
  <2> QED
    BY <1>4, <2>1, <2>2
<1> QED
  BY <1>1, <1>3, <1>5 DEF LocalType, TypeOK

\* Where the other writers stand is not touched by a step of one.
LEMMA Standing ==
    ASSUME TypeOK, StandInv, NEW w \in Writers,
           \A v \in Writers : v # w => pc'[v] = pc[v] /\ rec'[v] = rec[v] /\ at'[v] = at[v],
           /\ pc'[w] \in {"backup", "replace", "digest"} => Len(rec'[w]) > 0
           /\ pc'[w] \in Ended => rec'[w] = <<>>
           /\ pc'[w] \in {"verify", "cleanup"} => at'[w] > 0
           /\ pc'[w] \in {"rollback", "retry"} => at'[w] <= Len(rec'[w]),
           pc'[w] # "idle"
    PROVE  StandInv'
BY DEF StandInv, Active, Last

\* The type invariant and where the writers stand, through each step.
Grounded == TypeOK /\ StandInv

LEMMA BindTypes ==
    ASSUME Grounded, NEW w \in Writers, Bind(w)
    PROVE  Grounded'
<1>1. TypeOK'
  <2>1. UNCHANGED <<files, backup, home, moves, rec, held, at, pend, rpc, hold, fresh, snap, record>>
    BY DEF Bind, readerVars
  <2>2. /\ pc' = [pc EXCEPT ![w] = "open"]
        /\ before' = [before EXCEPT ![w] = files]
    BY DEF Bind, Goto
  <2>3. FileType'
    BY <2>1, <2>2 DEF Grounded, TypeOK, FileType
  <2>4. LocalType'
    BY <2>1, <2>2 DEF Grounded, TypeOK, LocalType
  <2> QED
    BY <2>3, <2>4 DEF TypeOK
<1>2. StandInv'
  BY Standing DEF Grounded, Bind, Goto, Ended, TypeOK, LocalType
<1> QED
  BY <1>1, <1>2 DEF Grounded

LEMMA BeginTypes ==
    ASSUME Grounded, NEW w \in Writers, NEW n \in Names, Begin(w, n)
    PROVE  Grounded'
<1> DEFINE r == [name |-> n, backed |-> FALSE, published |-> FALSE]
<1>1. TypeOK'
  BY BeginType DEF Grounded
<1>2. Len(rec'[w]) > 0 /\ \A v \in Writers : v # w => rec'[v] = rec[v]
  <2>1. rec \in [Writers -> Seq(Record)] /\ rec' = [rec EXCEPT ![w] = Append(@, r)]
    BY DEF Begin, Grounded, TypeOK, LocalType
  <2>2. rec[w] \in Seq(Record) /\ r \in Record
    BY <2>1 DEF Record
  <2> HIDE DEF r
  <2>3. Len(Append(rec[w], r)) = Len(rec[w]) + 1 /\ Len(rec[w]) \in Nat
    BY <2>2
  <2> QED
    BY <2>1, <2>3
<1>3. /\ pc'[w] \in {"backup", "replace"} /\ at' = at
      /\ \A v \in Writers : v # w => pc'[v] = pc[v]
  BY DEF Begin, Goto, Grounded, TypeOK, LocalType
<1>4. StandInv'
  BY <1>2, <1>3, Standing DEF Grounded, Ended
<1> QED
  BY <1>1, <1>4 DEF Grounded

\* The file at hand.
LEMMA CurrentFacts ==
    ASSUME TypeOK, NEW w \in Writers, Last(w) > 0
    PROVE  Last(w) \in 1 .. Last(w) /\ Current(w) \in Names /\ Last(w) \in Nat
<1>1. Last(w) \in Nat /\ Last(w) \in 1 .. Last(w)
  BY DEF TypeOK, LocalType, Last
<1> QED
  BY <1>1, RecFacts DEF Current

\* A step that marks a record keeps where the writers stand.
LEMMA MarkTypes ==
    ASSUME Grounded, FileType', NEW w \in Writers, NEW i \in 1 .. Last(w),
           NEW field \in {"backed", "published"}, Mark(w, i, field), UNCHANGED <<pend, held>>,
           NEW label \in {"replace", "digest"}, pc' = pc \/ (Goto(w, label) /\ UNCHANGED at) \/ Raise(w),
           pc' = pc => at' = at
    PROVE  Grounded'
<1>1. LocalType'
  BY NewMark DEF Grounded
<1>2. Len(rec'[w]) = Len(rec[w]) /\ \A v \in Writers : v # w => rec'[v] = rec[v]
  BY Marked DEF Grounded
<1>3. Last(w) \in Nat /\ Last(w) = Len(rec[w]) /\ Last(w) > 0
  BY DEF Grounded, TypeOK, LocalType, Last
<1>4. \A v \in Writers : v # w => pc'[v] = pc[v] /\ at'[v] = at[v]
  BY DEF Raise, Goto, Grounded, TypeOK, LocalType
<1>5. /\ pc'[w] \in {"rollback", "retry"} => at'[w] <= Len(rec'[w])
      /\ pc'[w] \in {"verify", "cleanup"} => at'[w] > 0
  BY <1>2, <1>3 DEF Raise, Goto, Grounded, TypeOK, LocalType, StandInv
<1>6. Active(w)
  BY <1>3 DEF Grounded, StandInv, Last
<1>7. pc'[w] # "idle" /\ pc'[w] \notin Ended
  BY <1>6 DEF Raise, Goto, Grounded, TypeOK, LocalType, Active, Ended
<1>8. StandInv'
  BY <1>2, <1>3, <1>4, <1>5, <1>7, Standing DEF Grounded
<1> QED
  BY <1>1, <1>8 DEF Grounded, TypeOK

\* A step that only moves the index keeps where the writers stand.
LEMMA MoveTypes ==
    ASSUME Grounded, FileType', NEW w \in Writers, UNCHANGED <<rec, held>>,
           NEW k \in 0 .. Len(rec[w]) + 1, at' = [at EXCEPT ![w] = k],
           NEW more \in SUBSET (1 .. Len(rec[w])), pend' = [pend EXCEPT ![w] = @ \cup more],
           NEW label \in {"open", "verify", "cleanup", "rollback", "retry"},
           pc' = [pc EXCEPT ![w] = label],
           label \in {"verify", "cleanup"} => k > 0,
           label \in {"rollback", "retry"} => k <= Len(rec[w])
    PROVE  Grounded'
<1>1. LocalType'
  BY Moving DEF Grounded
<1>2. StandInv'
  BY Standing DEF Grounded, Ended, TypeOK, LocalType
<1> QED
  BY <1>1, <1>2 DEF Grounded, TypeOK

\* The process leaves.
LEMMA EndTypes ==
    ASSUME Grounded, NEW w \in Writers, NEW label \in Ended, End(w, label),
           UNCHANGED <<files, backup, home, moves, readerVars, record>>
    PROVE  Grounded'
<1>1. TypeOK'
  BY Ending DEF Grounded
<1>2. StandInv'
  BY Standing DEF Grounded, End, Goto, TypeOK, LocalType, Ended
<1> QED
  BY <1>1, <1>2 DEF Grounded

\* A step that leaves the files alone and moves a writer without a postponement.
LEMMA GoTypes ==
    ASSUME Grounded, UNCHANGED <<files, backup, home, moves, readerVars, record, before>>,
           NEW w \in Writers, UNCHANGED <<rec, held, pend>>,
           NEW k \in 0 .. Len(rec[w]) + 1, at' = [at EXCEPT ![w] = k],
           NEW label \in {"open", "verify", "cleanup", "rollback", "retry"},
           pc' = [pc EXCEPT ![w] = label],
           label \in {"verify", "cleanup"} => k > 0,
           label \in {"rollback", "retry"} => k <= Len(rec[w])
    PROVE  Grounded'
<1>1. FileType'
  BY DEF Grounded, TypeOK, FileType, readerVars
<1>2. pend \in [Writers -> SUBSET Nat]
  BY DEF Grounded, TypeOK, LocalType
<1> DEFINE more == {}
<1>3. pend' = [pend EXCEPT ![w] = @ \cup more] /\ more \in SUBSET (1 .. Len(rec[w]))
  BY <1>2
<1> HIDE DEF more
<1> QED
  BY <1>1, <1>3, MoveTypes

\* An exception of the body or of the verification.
LEMMA RaiseTypes ==
    ASSUME Grounded, UNCHANGED <<files, backup, home, moves, readerVars, record, before>>,
           NEW w \in Writers, UNCHANGED <<rec, held, pend>>, Raise(w)
    PROVE  Grounded'
<1>1. Len(rec[w]) \in 0 .. Len(rec[w]) + 1 /\ Len(rec[w]) <= Len(rec[w])
  BY DEF Grounded, TypeOK, LocalType
<1>2. at' = [at EXCEPT ![w] = Len(rec[w])] /\ pc' = [pc EXCEPT ![w] = "rollback"]
  BY DEF Raise, Goto, Last
<1> QED
  BY <1>1, <1>2, GoTypes

LEMMA BackupTypes ==
    ASSUME Grounded, NEW w \in Writers, Backup(w)
    PROVE  Grounded'
<1> DEFINE n == Current(w)
<1>1. Last(w) \in 1 .. Last(w) /\ n \in Names
  BY CurrentFacts DEF Grounded, StandInv, Backup
<1> HIDE DEF n
<1>2. UNCHANGED <<home, moves, held, pend, record, before>>
  BY DEF Backup
<1>3. CASE Raise(w) /\ UNCHANGED <<files, backup, rec, readerVars>>
  BY <1>2, <1>3, RaiseTypes
<1>4. CASE /\ files' = [files EXCEPT ![n] = None] /\ backup' = [backup EXCEPT ![w][n] = files[n]]
           /\ Renamed(files[n]) /\ Mark(w, Last(w), "backed")
           /\ (Goto(w, "replace") /\ UNCHANGED at) \/ Raise(w)
  <2>1. files[n] \in File \cup {None} /\ None \in File \cup {None}
    BY <1>1 DEF Grounded, TypeOK, FileType
  <2>2. FileType'
    BY <1>1, <1>2, <1>4, <2>1, NewFile DEF Grounded
  <2>3. pc' # pc
    BY <1>4 DEF Goto, Raise, Backup, Grounded, TypeOK, LocalType
  <2> QED
    BY <1>1, <1>2, <1>4, <2>2, <2>3, MarkTypes
<1> QED
  BY <1>3, <1>4 DEF Backup, n

LEMMA ReplaceTypes ==
    ASSUME Grounded, NEW w \in Writers, Replace(w)
    PROVE  Grounded'
<1> DEFINE n == Current(w)
<1>1. Last(w) \in 1 .. Last(w) /\ n \in Names
  BY CurrentFacts DEF Grounded, StandInv, Replace
<1>2. <<w, n>> \in File \cup {None}
  BY <1>1, OwnFile
<1> HIDE DEF n
<1>3. /\ files' = [files EXCEPT ![n] = <<w, n>>] /\ Renamed(<<w, n>>)
      /\ Mark(w, Last(w), "published") /\ Goto(w, "digest")
      /\ UNCHANGED <<backup, home, moves, held, at, pend, record, before>>
  BY DEF Replace, n
<1>4. FileType'
  BY <1>1, <1>2, <1>3, NewFile DEF Grounded
<1>5. pc' # pc
  BY <1>3 DEF Goto, Replace, Grounded, TypeOK, LocalType
<1> QED
  BY <1>1, <1>3, <1>4, <1>5, MarkTypes

LEMMA UndoTypes ==
    ASSUME Grounded, NEW w \in Writers, UndoPublished(w) \/ Restore(w)
    PROVE  Grounded'
<1> DEFINE i == at[w]
           n == rec[w][i].name
<1>1. i \in 1 .. Last(w)
  BY DEF UndoPublished, Restore, Undoing, Grounded, StandInv, TypeOK, LocalType, Last
<1>2. n \in Names /\ backup[w][n] \in File \cup {None} /\ None \in File \cup {None}
  BY <1>1, RecFacts DEF Grounded, TypeOK, FileType
<1> HIDE DEF i, n
<1>3. UNCHANGED <<home, moves, pc, held, at, pend, record, before>>
  BY DEF UndoPublished, Restore
<1>4. CASE UndoPublished(w)
  <2>1. /\ files' = [files EXCEPT ![n] = None] /\ Mark(w, i, "published")
        /\ UNCHANGED <<backup, readerVars>>
    BY <1>4 DEF UndoPublished, i, n
  <2>2. FileType'
    BY <1>2, <1>3, <2>1, NewFile DEF Grounded
  <2> QED
    BY <1>1, <1>3, <2>1, <2>2, MarkTypes
<1>5. CASE Restore(w)
  <2>1. /\ files' = [files EXCEPT ![n] = backup[w][n]] /\ backup' = [backup EXCEPT ![w][n] = None]
        /\ Renamed(backup[w][n]) /\ Mark(w, i, "backed")
    BY <1>5 DEF Restore, i, n
  <2>2. FileType'
    BY <1>2, <1>3, <2>1, NewFile DEF Grounded
  <2> QED
    BY <1>1, <1>3, <2>1, <2>2, MarkTypes
<1> QED
  BY <1>4, <1>5

LEMMA CommitTypes ==
    ASSUME Grounded, NEW w \in Writers, Commit(w)
    PROVE  Grounded'
<1>1. /\ UNCHANGED <<files, backup, home, moves, rec, held, pend, rpc, hold, fresh, snap, before>>
      /\ at' = [at EXCEPT ![w] = 1] /\ pc' = [pc EXCEPT ![w] = "cleanup"]
  BY DEF Commit, Goto, readerVars
<1>2. record' \in [Names -> File \cup {None}]
  BY OwnFile DEF Commit, Grounded, TypeOK, FileType
<1>3. FileType'
  BY <1>1, <1>2 DEF FileType, Grounded, TypeOK
<1> DEFINE more == {}
<1>4. pend' = [pend EXCEPT ![w] = @ \cup more] /\ more \in SUBSET (1 .. Len(rec[w]))
  BY <1>1 DEF Grounded, TypeOK, LocalType
<1> HIDE DEF more
<1> DEFINE k == 1
<1>5. k \in 0 .. Len(rec[w]) + 1 /\ k > 0 /\ at' = [at EXCEPT ![w] = k]
  BY <1>1 DEF Grounded, TypeOK, LocalType
<1> HIDE DEF k
<1> QED
  BY <1>1, <1>3, <1>4, <1>5, MoveTypes

LEMMA CleanupTypes ==
    ASSUME Grounded, NEW w \in Writers, Cleanup(w)
    PROVE  Grounded'
<1> DEFINE n == rec[w][at[w]].name
<1>1. pc[w] = "cleanup" /\ UNCHANGED <<files, home, moves, readerVars, record>>
  BY DEF Cleanup
<1>2. CASE /\ at[w] <= Last(w)
           /\ backup' = [backup EXCEPT ![w][n] = None] \/ UNCHANGED backup
           /\ at' = [at EXCEPT ![w] = @ + 1] /\ UNCHANGED <<pc, rec, held, pend, before>>
  <2>1. at[w] \in 1 .. Last(w)
    BY <1>1, <1>2 DEF Grounded, StandInv, TypeOK, LocalType, Last
  <2>2. n \in Names /\ None \in File \cup {None}
    BY <2>1, RecFacts DEF Grounded
  <2> HIDE DEF n
  <2>3. files' = [files EXCEPT ![n] = files[n]] /\ files[n] \in File \cup {None}
    BY <1>1, <2>2 DEF Grounded, TypeOK, FileType
  <2>4. FileType'
    BY <1>1, <1>2, <2>2, <2>3, NewFile DEF Grounded
  <2> DEFINE more == {}
  <2>5. pend' = [pend EXCEPT ![w] = @ \cup more] /\ more \in SUBSET (1 .. Len(rec[w]))
    BY <1>2 DEF Grounded, TypeOK, LocalType
  <2> HIDE DEF more
  <2>6. at[w] + 1 \in 0 .. Len(rec[w]) + 1 /\ at[w] + 1 > 0
    BY <2>1 DEF Grounded, TypeOK, LocalType, Last
  <2>7. pc' = [pc EXCEPT ![w] = "cleanup"]
    BY <1>1, <1>2 DEF Grounded, TypeOK, LocalType
  <2> QED
    BY <1>2, <2>4, <2>5, <2>6, <2>7, MoveTypes
<1>3. CASE End(w, "committed") /\ UNCHANGED backup
  BY <1>1, <1>3, EndTypes DEF Ended
<1> QED
  BY <1>2, <1>3 DEF Cleanup

LEMMA PostponeTypes ==
    ASSUME Grounded, NEW w \in Writers, Postpone(w)
    PROVE  Grounded'
<1>1. /\ UNCHANGED <<files, backup, home, moves, pc, rec, held, readerVars, record, before>>
      /\ at' = [at EXCEPT ![w] = @ - 1] /\ at[w] > 0 /\ pc[w] = "rollback"
  BY DEF Postpone, Down
<1>2. at[w] \in 1 .. Len(rec[w])
  BY <1>1 DEF Grounded, TypeOK, LocalType, StandInv, Last
<1> DEFINE more == {at[w]}
           k == at[w] - 1
<1>3. pend' = [pend EXCEPT ![w] = @ \cup more] /\ more \in SUBSET (1 .. Len(rec[w]))
  BY <1>2 DEF Postpone
<1>4. k \in 0 .. Len(rec[w]) + 1 /\ k <= Len(rec[w]) /\ at' = [at EXCEPT ![w] = k]
  BY <1>1, <1>2 DEF Grounded, TypeOK, LocalType
<1>5. pc' = [pc EXCEPT ![w] = "rollback"] /\ FileType'
  BY <1>1 DEF Grounded, TypeOK, LocalType, FileType, readerVars
<1> HIDE DEF more, k
<1> QED
  BY <1>1, <1>3, <1>4, <1>5, MoveTypes

\* The steps that only move a writer.
LEMMA QuietTypes ==
    ASSUME Grounded, NEW w \in Writers,
           Digest(w) \/ BeginCommit(w) \/ Verify(w) \/ Fail(w) \/ Undone(w) \/ Rebind(w)
    PROVE  Grounded'
<1>1. at \in [Writers -> Nat] /\ Len(rec[w]) \in Nat /\ at[w] \in 0 .. Len(rec[w]) + 1
  BY DEF Grounded, TypeOK, LocalType
<1>2. pc = [pc EXCEPT ![w] = pc[w]] /\ at = [at EXCEPT ![w] = at[w]]
  BY DEF Grounded, TypeOK, LocalType
<1>3. CASE Digest(w)
  <2>1. CASE Goto(w, "open") /\ UNCHANGED at
    BY <1>1, <1>2, <1>3, <2>1, GoTypes DEF Digest, Goto
  <2>2. CASE Raise(w)
    BY <1>3, <2>2, RaiseTypes DEF Digest
  <2> QED
    BY <1>3, <2>1, <2>2 DEF Digest
<1>4. CASE BeginCommit(w)
  <2> DEFINE k == 1
  <2>1. k \in 0 .. Len(rec[w]) + 1 /\ k > 0
    BY <1>1
  <2>2. at' = [at EXCEPT ![w] = k] /\ pc' = [pc EXCEPT ![w] = "verify"]
    BY <1>4 DEF BeginCommit, Goto
  <2> HIDE DEF k
  <2> QED
    BY <1>4, <2>1, <2>2, GoTypes DEF BeginCommit
<1>5. CASE Verify(w)
  <2>1. CASE at' = [at EXCEPT ![w] = @ + 1] /\ UNCHANGED pc
    <3>0. at[w] <= Len(rec[w])
      BY <1>5 DEF Verify, Last
    <3>1. at[w] + 1 \in 0 .. Len(rec[w]) + 1 /\ at[w] + 1 > 0
      BY <1>1, <3>0
    <3>2. pc' = [pc EXCEPT ![w] = "verify"]
      BY <1>2, <1>5, <2>1 DEF Verify
    <3> QED
      BY <1>5, <2>1, <3>1, <3>2, GoTypes DEF Verify
  <2>2. CASE Raise(w)
    BY <1>5, <2>2, RaiseTypes DEF Verify
  <2> QED
    BY <1>5, <2>1, <2>2 DEF Verify
<1>6. CASE Fail(w)
  BY <1>6, RaiseTypes DEF Fail
<1>7. CASE Undone(w)
  <2>1. at[w] - 1 \in 0 .. Len(rec[w]) + 1 /\ at[w] - 1 <= Len(rec[w])
    BY <1>1, <1>7 DEF Undone, Undoing
  <2>2. \E label \in {"rollback", "retry"} : pc' = [pc EXCEPT ![w] = label]
    BY <1>2, <1>7 DEF Undone, Undoing
  <2> QED
    BY <1>7, <2>1, <2>2, GoTypes DEF Undone, Down
<1>8. CASE Rebind(w)
  <2>1. CASE End(w, "raised")
    BY <1>8, <2>1, EndTypes DEF Rebind, Ended
  <2>2. CASE Goto(w, "retry") /\ at' = [at EXCEPT ![w] = Last(w)] /\ UNCHANGED <<rec, held, pend, before>>
    <3>1. Last(w) \in 0 .. Len(rec[w]) + 1 /\ Last(w) <= Len(rec[w])
      BY <1>1 DEF Last
    <3> QED
      BY <1>8, <2>2, <3>1, GoTypes DEF Rebind, Goto
  <2> QED
    BY <1>8, <2>1, <2>2 DEF Rebind
<1> QED
  BY <1>3, <1>4, <1>5, <1>6, <1>7, <1>8

LEMMA ReadTypes ==
    ASSUME Grounded, Read
    PROVE  Grounded'
<1>1. UNCHANGED writerVars
  BY DEF Read, ReadSet, OpenTarget, ReadTarget, Reread, StatTarget, CloseHandles
<1>2. rpc \in Phases \X Names /\ rpc = <<rpc[1], rpc[2]>> /\ rpc[1] \in Phases /\ rpc[2] \in Names
      /\ 1 \in Names /\ (rpc[2] < NumNames => rpc[2] + 1 \in Names)
  BY NamesAssumption DEF Grounded, TypeOK, FileType, Names
<1>3. rpc' \in Phases \X Names
  <2>1. ASSUME NEW phase \in {"read", "again", "stat", "accepted"}, Forward(phase)
        PROVE  rpc' \in Phases \X Names
    BY <1>2, <2>1 DEF Forward, Phases
  <2> QED
    BY <1>2, <2>1 DEF Read, ReadSet, OpenTarget, ReadTarget, Reread, StatTarget, CloseHandles, Phases
<1>4. /\ hold' \in [Names -> File \cup {None}] /\ fresh' \subseteq Names
      /\ snap' \in [Names -> File \cup {None}]
  BY <1>2 DEF Read, ReadSet, OpenTarget, ReadTarget, Reread, StatTarget, CloseHandles, Grounded, TypeOK, FileType
<1>5. FileType'
  BY <1>1, <1>3, <1>4 DEF writerVars, Grounded, TypeOK, FileType
<1>6. LocalType' /\ StandInv'
  BY <1>1 DEF writerVars, Grounded, TypeOK, LocalType, StandInv, Active, Last
<1> QED
  BY <1>5, <1>6 DEF Grounded, TypeOK

LEMMA GroundedStep == Grounded /\ [Next]_vars => Grounded'
<1> SUFFICES ASSUME Grounded, [Next]_vars PROVE Grounded'
  OBVIOUS
<1>1. ASSUME NEW w \in Writers, Step(w) PROVE Grounded'
  <2>1. CASE Rebound(w) \/ GiveUp(w)
    BY <2>1, EndTypes DEF Rebound, GiveUp, Ended
  <2> QED
    BY <1>1, <2>1, BeginTypes, BackupTypes, ReplaceTypes, QuietTypes, CommitTypes, CleanupTypes,
       PostponeTypes, UndoTypes DEF Step
<1>2. ASSUME NEW w \in Writers, Crash(w) PROVE Grounded'
  BY <1>2, EndTypes DEF Crash, Ended
<1>3. CASE MoveDirectory
  <2>1. moves' \in 0 .. MaxMoves /\ home' \in BOOLEAN
    BY <1>3, NamesAssumption DEF MoveDirectory, Grounded, TypeOK, FileType
  <2>2. UNCHANGED <<files, backup, pc, rec, held, at, pend, rpc, hold, fresh, snap, record, before>>
    BY <1>3 DEF MoveDirectory, readerVars
  <2> QED
    BY <2>1, <2>2 DEF Grounded, TypeOK, FileType, LocalType, StandInv, Active, Last
<1>4. CASE UNCHANGED vars
  BY <1>4 DEF vars, readerVars, Grounded, TypeOK, FileType, LocalType, StandInv, Active, Last
<1> QED
  BY <1>1, <1>2, <1>3, <1>4, BindTypes, ReadTypes DEF Next

LEMMA GroundedInit == Init => Grounded
<1> SUFFICES ASSUME Init PROVE Grounded
  OBVIOUS
<1>1. files \in [Names -> File \cup {None}]
  BY DEF Init, File
<1>2. <<>> \in Seq(Record) /\ Len(<<>>) = 0 /\ 1 \in Names
  BY NamesAssumption DEF Names
<1>3. FileType
  BY <1>1, <1>2, NamesAssumption DEF Init, FileType, Phases
<1>4. LocalType
  BY <1>2 DEF Init, LocalType
<1>5. StandInv
  BY DEF Init, StandInv, Active, Ended
<1> QED
  BY <1>3, <1>4, <1>5 DEF Grounded, TypeOK

-----------------------------------------------------------------------------
(* What a reader accepts.                                                  *)

\* A step of a writer gives no held file a name without ending its signature.
LEMMA WriterReads ==
    ASSUME Grounded, ReadInv, UNCHANGED <<rpc, hold, snap>>, fresh' \subseteq fresh,
           \A n \in fresh' : hold[n] # None /\ files'[n] = hold[n] => files[n] = hold[n]
    PROVE  ReadInv'
BY DEF ReadInv, After, ReadIsSnapshot, Grounded, TypeOK, FileType

\* One name stands for another file, whose signature changes.
LEMMA RenameReads ==
    ASSUME Grounded, ReadInv, NEW n \in Names, NEW f, files' = [files EXCEPT ![n] = f],
           \/ Renamed(f)
           \/ f = None /\ fresh' \subseteq fresh /\ UNCHANGED <<rpc, hold, snap>>
    PROVE  ReadInv'
<1>1. fresh' \subseteq fresh /\ UNCHANGED <<rpc, hold, snap>>
  BY DEF Renamed
<1>2. ASSUME NEW m \in fresh', hold[m] # None, files'[m] = hold[m] PROVE files[m] = hold[m]
  <2>1. m \in Names
    BY <1>1 DEF Grounded, TypeOK, FileType
  <2>2. CASE m # n
    BY <1>2, <2>1, <2>2 DEF Grounded, TypeOK, FileType
  <2>3. CASE m = n
    <3>1. hold[m] = f
      BY <1>2, <2>1, <2>3 DEF Grounded, TypeOK, FileType
    <3> QED
      BY <1>2, <3>1 DEF Renamed
  <2> QED
    BY <2>2, <2>3
<1> QED
  BY <1>1, <1>2, WriterReads

\* A step of the reader itself.
LEMMA ReaderReads ==
    ASSUME Grounded, ReadInv, Read
    PROVE  ReadInv'
<1>1. /\ rpc = <<rpc[1], rpc[2]>> /\ rpc[1] \in Phases /\ rpc[2] \in 1 .. NumNames /\ NumNames \in Nat
      /\ UNCHANGED files
  BY NamesAssumption DEF Grounded, TypeOK, FileType, Names, Read, ReadSet, OpenTarget, ReadTarget,
     Reread, StatTarget, CloseHandles, writerVars
<1>2. ASSUME NEW phase, Forward(phase)
      PROVE  \/ rpc[2] < NumNames /\ rpc'[1] = rpc[1] /\ rpc'[2] = rpc[2] + 1
             \/ rpc[2] = NumNames /\ rpc'[1] = phase /\ rpc'[2] = 1
  BY <1>1, <1>2 DEF Forward
<1>3. CASE ReadSet \/ CloseHandles
  BY <1>3 DEF ReadSet, CloseHandles, ReadInv, After, ReadIsSnapshot, Names
<1>4. CASE OpenTarget
  <2>1. /\ \A m \in Names : m # rpc[2] => hold'[m] = hold[m]
        /\ hold'[rpc[2]] # None
    BY <1>1, <1>4 DEF OpenTarget, Grounded, TypeOK, FileType, Names
  <2>2. Forward("read") /\ rpc[1] = "open"
    BY <1>4 DEF OpenTarget
  <2>3. \A m \in Names : m < rpc[2] => hold[m] # None
    BY <2>2 DEF ReadInv
  <2>4. rpc'[1] = "open" => \A m \in Names : m < rpc'[2] => hold'[m] # None
    <3> SUFFICES ASSUME rpc'[1] = "open", NEW m \in Names, m < rpc'[2] PROVE hold'[m] # None
      OBVIOUS
    <3>1. rpc'[2] = rpc[2] + 1
      BY <1>2, <2>2
    <3>2. m \in Nat /\ (m < rpc[2] \/ m = rpc[2])
      BY <1>1, <3>1 DEF Names
    <3> QED
      BY <2>1, <2>3, <3>2
  <2>5. rpc'[1] = "read" => \A m \in Names : hold'[m] # None
    <3> SUFFICES ASSUME rpc'[1] = "read", NEW m \in Names PROVE hold'[m] # None
      OBVIOUS
    <3>1. rpc[2] = NumNames
      BY <1>2, <2>2
    <3>2. m \in Nat /\ (m < rpc[2] \/ m = rpc[2])
      BY <1>1, <3>1 DEF Names
    <3> QED
      BY <2>1, <2>3, <3>2
  <2>6. rpc'[1] \in {"open", "read"}
    BY <1>2, <2>2
  <2> QED
    BY <2>4, <2>5, <2>6 DEF ReadInv, After, ReadIsSnapshot
<1>5. CASE ReadTarget
  <2>1. Forward("again") /\ rpc[1] = "read" /\ UNCHANGED hold /\ \A m \in Names : hold[m] # None
    BY <1>5 DEF ReadTarget, ReadInv
  <2>2. rpc'[1] = "read" \/ (rpc'[1] = "again" /\ rpc[2] = NumNames)
    BY <1>2, <2>1
  <2>3. rpc'[1] = "again" => snap' = files
    BY <2>2, <1>5 DEF ReadTarget
  <2> QED
    BY <1>1, <2>1, <2>2, <2>3 DEF ReadInv, After, ReadIsSnapshot
<1>6. CASE Reread
  <2>1. Forward("stat") /\ rpc[1] = "again" /\ UNCHANGED <<hold, fresh, snap>>
    BY <1>6 DEF Reread
  <2>2. rpc'[1] = "again" \/ (rpc'[1] = "stat" /\ rpc'[2] = 1)
    BY <1>2, <2>1
  <2>3. \A m \in Names : ~(m < 1)
    BY DEF Names
  <2> QED
    BY <1>1, <2>1, <2>2, <2>3 DEF ReadInv, After, ReadIsSnapshot
<1>7. CASE StatTarget
  <2>1. Forward("accepted") /\ rpc[1] = "stat" /\ UNCHANGED <<hold, fresh, snap>>
    BY <1>7 DEF StatTarget
  <2>2. snap[rpc[2]] = hold[rpc[2]]
    BY <1>7, <2>1 DEF StatTarget, SameSignature, ReadInv, After
  <2>3. \A m \in Names : m < rpc[2] => snap[m] = hold[m]
    BY <2>1 DEF ReadInv
  <2>4. ASSUME rpc'[1] = "stat", NEW m \in Names, m < rpc'[2] PROVE snap[m] = hold[m]
    <3>1. rpc'[2] = rpc[2] + 1
      BY <1>2, <2>1, <2>4
    <3>2. m \in Nat /\ (m < rpc[2] \/ m = rpc[2])
      BY <1>1, <2>4, <3>1 DEF Names
    <3> QED
      BY <2>2, <2>3, <3>2
  <2>5. ASSUME rpc'[1] = "accepted" PROVE snap = hold
    <3>1. rpc[2] = NumNames
      BY <1>2, <2>1, <2>5
    <3>2. ASSUME NEW m \in Names PROVE snap[m] = hold[m]
      <4>1. m \in Nat /\ (m < rpc[2] \/ m = rpc[2])
        BY <1>1, <3>1 DEF Names
      <4> QED
        BY <2>2, <2>3, <4>1
    <3> QED
      BY <3>2 DEF Grounded, TypeOK, FileType
  <2>6. rpc'[1] \in {"stat", "accepted"}
    BY <1>2, <2>1
  <2> QED
    BY <1>1, <2>1, <2>4, <2>5, <2>6 DEF ReadInv, After, ReadIsSnapshot
<1> QED
  BY <1>3, <1>4, <1>5, <1>6, <1>7 DEF Read

LEMMA ReadStep == Grounded /\ ReadInv /\ [Next]_vars => ReadInv'
<1> SUFFICES ASSUME Grounded, ReadInv, [Next]_vars PROVE ReadInv'
  OBVIOUS
<1>1. CASE UNCHANGED <<files, readerVars>>
  BY <1>1 DEF ReadInv, After, ReadIsSnapshot, readerVars
<1>2. ASSUME NEW w \in Writers, Backup(w) PROVE ReadInv'
  <2>1. Current(w) \in Names
    BY <1>2, CurrentFacts DEF Grounded, StandInv, Backup
  <2>2. CASE /\ files' = [files EXCEPT ![Current(w)] = None]
             /\ Renamed(files[Current(w)])
    <3>1. fresh' \subseteq fresh /\ UNCHANGED <<rpc, hold, snap>>
      BY <2>2 DEF Renamed
    <3> QED
      BY <2>1, <2>2, <3>1, RenameReads
  <2>3. CASE UNCHANGED <<files, readerVars>>
    BY <1>1, <2>3
  <2> QED
    BY <1>2, <2>2, <2>3 DEF Backup
<1>3. ASSUME NEW w \in Writers, Replace(w) PROVE ReadInv'
  <2>1. Current(w) \in Names
    BY <1>3, CurrentFacts DEF Grounded, StandInv, Replace
  <2>2. files' = [files EXCEPT ![Current(w)] = <<w, Current(w)>>] /\ Renamed(<<w, Current(w)>>)
    BY <1>3 DEF Replace
  <2> QED
    BY <2>1, <2>2, RenameReads
<1>4. ASSUME NEW w \in Writers, UndoPublished(w) \/ Restore(w) PROVE ReadInv'
  <2> DEFINE n == rec[w][at[w]].name
  <2>1. at[w] \in 1 .. Last(w)
    BY <1>4 DEF UndoPublished, Restore, Undoing, Grounded, StandInv, TypeOK, LocalType, Last
  <2>2. n \in Names
    BY <2>1, RecFacts DEF Grounded
  <2>3. CASE UndoPublished(w)
    <3>1. files' = [files EXCEPT ![n] = None] /\ UNCHANGED readerVars
      BY <2>3 DEF UndoPublished
    <3> HIDE DEF n
    <3> QED
      BY <2>2, <3>1, RenameReads DEF readerVars
  <2>4. CASE Restore(w)
    <3>1. files' = [files EXCEPT ![n] = backup[w][n]] /\ Renamed(backup[w][n])
      BY <2>4 DEF Restore
    <3> HIDE DEF n
    <3> QED
      BY <2>2, <3>1, RenameReads
  <2> QED
    BY <1>4, <2>3, <2>4
<1>5. ASSUME NEW w \in Writers, Bind(w) \/ Crash(w) PROVE UNCHANGED <<files, readerVars>>
  BY <1>5 DEF Bind, Crash
<1>6. ASSUME NEW w \in Writers, Step(w)
      PROVE  Backup(w) \/ Replace(w) \/ UndoPublished(w) \/ Restore(w) \/ UNCHANGED <<files, readerVars>>
  BY <1>6 DEF Step, Begin, Digest, BeginCommit, Verify, Commit, Cleanup, Fail, Postpone, Undone,
     Rebind, Rebound, GiveUp
<1>7. MoveDirectory \/ UNCHANGED vars => UNCHANGED <<files, readerVars>>
  BY DEF MoveDirectory, vars
<1> QED
  BY <1>1, <1>2, <1>3, <1>4, <1>5, <1>6, <1>7, ReaderReads DEF Next

\* Whatever writers, failures and renames do meanwhile, whether transactions
\* overlap or not, the files of an accepted set were all under their names at
\* one instant (read_bytes_set).
THEOREM ReadsAreSnapshots == Spec => []ReadIsSnapshot
<1>1. Init => ReadInv
  BY DEF Init, ReadInv, After, ReadIsSnapshot
<1>2. Grounded /\ ReadInv /\ [Next]_vars => (Grounded /\ ReadInv)'
  BY GroundedStep, ReadStep
<1>3. ReadInv => ReadIsSnapshot
  BY DEF ReadInv
<1> QED
  BY <1>1, <1>2, <1>3, GroundedInit, PTL DEF Spec

-----------------------------------------------------------------------------
(* What the writers keep.                                                  *)

\* The others have ended or have not begun, and stay as they are.
LEMMA OneWriter ==
    ASSUME Grounded, Grounded', WriteInv, NEW w \in Writers,
           \A v \in Writers : v # w => ~Active(v),
           \A v \in Writers : v # w =>
               pc'[v] = pc[v] /\ rec'[v] = rec[v] /\ backup'[v] = backup[v],
           WriterInv(w)', NothingLost'
    PROVE  WriteInv'
<1>1. ASSUME NEW v \in Writers, v # w PROVE ~Active(v)' /\ WriterInv(v)'
  <2>1. ~Active(v)' /\ pc'[v] \notin {"backup", "replace", "digest", "verify", "cleanup", "rollback", "retry"}
    BY <1>1 DEF Active, Ended, Grounded, TypeOK, LocalType
  <2>2. rec'[v] = <<>> /\ Last(v)' = 0
    BY <1>1, <2>1 DEF Grounded, StandInv, Last
  <2>3. 1 .. Last(v)' = {}
    BY <2>2
  <2>4. RecordInv(v)'
    BY <1>1, <2>3 DEF RecordInv, WriteInv, WriterInv
  <2> QED
    BY <2>1, <2>3, <2>4 DEF WriterInv, KeptInv, CurrentInv, UndoneInv, VerifyInv, OldInv
<1>2. AloneInv'
  BY <1>1 DEF AloneInv
<1> QED
  BY <1>1, <1>2 DEF WriteInv

\* The others, when w acts.
LEMMA OnlyOne ==
    ASSUME WriteInv, NEW w \in Writers, Active(w)
    PROVE  (\A v \in Writers : v # w => ~Active(v)) /\ WriterInv(w) /\ NothingLost
BY DEF WriteInv, AloneInv

\* What was committed last is where the writer that is open can put it back.
LEMMA StillThere ==
    ASSUME Grounded', NEW w \in Writers, Active(w)', pc'[w] # "cleanup", KeptInv(w)', OldInv(w)'
    PROVE  NothingLost'
<1> SUFFICES ASSUME NEW n \in Names, record'[n] # None
             PROVE  files'[n] = record'[n] \/ \E v \in Writers : backup'[v][n] = record'[n]
  BY DEF NothingLost
<1>1. Old(w, n)'
  BY DEF OldInv
<1>2. CASE \E v \in Writers \ {w} : backup'[v][n] = record'[n]
  BY <1>2
<1>3. CASE before'[w][n] = record'[n]
  <2>1. CASE ~Recorded(w, n)'
    BY <1>3, <2>1 DEF KeptInv
  <2>2. CASE Recorded(w, n)'
    <3>1. PICK i \in 1 .. Last(w)' : rec'[w][i].name = n
      BY <2>2 DEF Recorded
    <3>2. Kept(w, i, n)'
      BY <3>1 DEF KeptInv
    <3> QED
      BY <1>3, <3>2 DEF Kept, Clean
  <2> QED
    BY <2>1, <2>2
<1> QED
  BY <1>1, <1>2, <1>3 DEF Old

\* A step that changes one record and what its name stands for.
LEMMA OneName ==
    ASSUME Grounded, NEW w \in Writers, WriterInv(w), Active(w), pc[w] # "cleanup", pc'[w] # "cleanup",
           pc'[w] # "idle", NEW i \in 1 .. Last(w), NEW n \in Names, n = rec[w][i].name,
           Last(w)' = Last(w),
           \A j \in 1 .. Last(w) : rec'[w][j].name = rec[w][j].name /\ (j # i => rec'[w][j] = rec[w][j]),
           \A m \in Names : m # n => files'[m] = files[m] /\ backup'[w][m] = backup[w][m],
           \A v \in Writers : v # w => backup'[v] = backup[v],
           UNCHANGED <<before, record>>, Kept(w, i, n)'
    PROVE  RecordInv(w)' /\ KeptInv(w)' /\ OldInv(w)'
<1>1. RecordInv(w)'
  BY DEF WriterInv, RecordInv
<1>2. ASSUME NEW j \in 1 .. Last(w), NEW m, m = rec[w][j].name PROVE Kept(w, j, m)'
  <2>1. CASE j = i
    BY <1>2, <2>1
  <2>2. CASE j # i
    <3>1. m # n /\ m \in Names
      BY <1>2, <2>2, RecFacts DEF WriterInv, RecordInv, Grounded
    <3>2. Kept(w, j, m)
      BY <1>2 DEF WriterInv, KeptInv
    <3>3. rec'[w][j] = rec[w][j]
      BY <2>2
    <3> QED
      BY <3>1, <3>2, <3>3 DEF Kept, Clean
  <2> QED
    BY <2>1, <2>2
<1>3. \A m \in Names : Recorded(w, m)' <=> Recorded(w, m)
  BY DEF Recorded
<1>4. Recorded(w, n)
  BY DEF Recorded
<1>5. \A m \in Names : ~Recorded(w, m) => files'[m] = before[w][m] /\ backup'[w][m] = None
  BY <1>4 DEF WriterInv, KeptInv
<1>6. \A j \in 1 .. Last(w)' : Kept(w, j, rec[w][j].name)' 
  <2> SUFFICES ASSUME NEW j \in 1 .. Last(w) PROVE Kept(w, j, rec[w][j].name)'
    OBVIOUS
  <2>1. PICK m : m = rec[w][j].name
    OBVIOUS
  <2>2. Kept(w, j, m)' /\ m = rec'[w][j].name
    BY <1>2, <2>1
  <2> QED
    BY <2>2
<1>7. KeptInv(w)'
  BY <1>3, <1>5, <1>6 DEF KeptInv
<1>8. OldInv(w)'
  BY DEF WriterInv, OldInv, Old
<1> QED
  BY <1>1, <1>7, <1>8

\* A step that leaves the files and the records of an open transaction alone.
LEMMA SameFiles ==
    ASSUME NEW w \in Writers, WriterInv(w), Active(w), pc[w] # "cleanup", pc'[w] # "cleanup",
           pc'[w] # "idle", UNCHANGED <<files, backup, rec, before, record>>
    PROVE  RecordInv(w)' /\ KeptInv(w)' /\ OldInv(w)'
<1>1. RecordInv(w)'
  BY DEF WriterInv, RecordInv, Last
<1>2. KeptInv(w)'
  BY DEF WriterInv, KeptInv, Kept, Clean, Recorded, Last
<1>3. OldInv(w)'
  BY DEF WriterInv, OldInv, Old, Recorded, Last
<1> QED
  BY <1>1, <1>2, <1>3

\* The frame of a step of w.
Apart(w) == \A v \in Writers : v # w => pc'[v] = pc[v] /\ rec'[v] = rec[v] /\ backup'[v] = backup[v]

\* A step of a transaction that stays open.
LEMMA OpenStep ==
    ASSUME Grounded, Grounded', WriteInv, NEW w \in Writers, Active(w), Apart(w),
           pc'[w] \notin Ended \cup {"idle", "cleanup"}, RecordInv(w)', KeptInv(w)', OldInv(w)',
           CurrentInv(w)', UndoneInv(w)', VerifyInv(w)'
    PROVE  WriteInv'
<1>1. Active(w)' /\ pc'[w] # "cleanup"
  BY DEF Active
<1>2. NothingLost' /\ WriterInv(w)'
  BY <1>1, StillThere DEF WriterInv
<1> QED
  BY <1>2, OnlyOne, OneWriter DEF Apart

\* An exception: nothing is behind the rollback yet.
LEMMA RaiseKeeps ==
    ASSUME Grounded, Grounded', WriteInv, NEW w \in Writers, Active(w), pc[w] # "cleanup", Raise(w),
           UNCHANGED <<files, backup, rec, before, record>>
    PROVE  WriteInv'
<1>1. pc' = [pc EXCEPT ![w] = "rollback"] /\ at' = [at EXCEPT ![w] = Last(w)]
  BY DEF Raise, Goto
<1>2. pc'[w] = "rollback" /\ Apart(w) /\ at'[w] = Last(w)
  BY <1>1 DEF Apart, Grounded, TypeOK, LocalType
<1>3. RecordInv(w)' /\ KeptInv(w)' /\ OldInv(w)'
  BY <1>2, OnlyOne, SameFiles
<1>4. CurrentInv(w)' /\ VerifyInv(w)'
  BY <1>2 DEF CurrentInv, VerifyInv
<1>5. UndoneInv(w)'
  <2>1. Last(w)' = Last(w) /\ Last(w) \in Nat
    BY DEF Last, Grounded, TypeOK, LocalType
  <2>2. \A i \in 1 .. Last(w) : ~(i > at'[w])
    BY <1>2, <2>1
  <2> QED
    BY <1>2, <2>1, <2>2 DEF UndoneInv
<1> QED
  BY <1>2, <1>3, <1>4, <1>5, OpenStep DEF Ended

LEMMA BindKeeps ==
    ASSUME Grounded, Grounded', WriteInv, ~Overlap, NEW w \in Writers, Bind(w)
    PROVE  WriteInv'
<1>1. /\ pc' = [pc EXCEPT ![w] = "open"] /\ before' = [before EXCEPT ![w] = files]
      /\ pc[w] = "idle" /\ \A v \in Writers : pc[v] \in Ended \cup {"idle"}
      /\ UNCHANGED <<files, backup, rec, record>>
  BY DEF Bind, Goto
<1>2. pc'[w] = "open" /\ Apart(w) /\ before'[w] = files
  BY <1>1 DEF Apart, Grounded, TypeOK, LocalType, FileType
<1>3. \A v \in Writers : ~Active(v)
  BY <1>1 DEF Active
<1>4. rec'[w] = <<>> /\ Last(w)' = 0 /\ 1 .. Last(w)' = {}
  BY <1>1, <1>3 DEF Grounded, StandInv, Last
<1>5. \A n \in Names : backup[w][n] = None
  BY <1>1 DEF WriteInv, WriterInv, RecordInv
<1>6. RecordInv(w)' /\ CurrentInv(w)' /\ UndoneInv(w)' /\ VerifyInv(w)'
  BY <1>2, <1>4 DEF RecordInv, CurrentInv, UndoneInv, VerifyInv
<1>7. KeptInv(w)'
  BY <1>1, <1>2, <1>4, <1>5 DEF KeptInv
<1>8. OldInv(w)'
  BY <1>1, <1>2, <1>5 DEF OldInv, Old, WriteInv, NothingLost
<1>9. NothingLost'
  BY <1>1 DEF WriteInv, NothingLost
<1>10. WriterInv(w)'
  BY <1>6, <1>7, <1>8 DEF WriterInv
<1> QED
  BY <1>2, <1>3, <1>9, <1>10, OneWriter DEF Apart

LEMMA BeginKeeps ==
    ASSUME Grounded, Grounded', WriteInv, NEW w \in Writers, NEW n \in Names, Begin(w, n)
    PROVE  WriteInv'
<1> DEFINE r == [name |-> n, backed |-> FALSE, published |-> FALSE]
<1>0. PICK k : k = Last(w) + 1
  OBVIOUS
<1>1. /\ pc[w] = "open" /\ \A i \in 1 .. Last(w) : rec[w][i].name # n
      /\ rec' = [rec EXCEPT ![w] = Append(@, r)]
      /\ pc' = [pc EXCEPT ![w] = IF files[n] = None THEN "replace" ELSE "backup"]
      /\ UNCHANGED <<files, backup, before, record>>
  BY DEF Begin, Goto
<1>2. Active(w)
  BY <1>1 DEF Active, Ended
<1>3. WriterInv(w)
  BY <1>2, OnlyOne
<1>4. /\ pc'[w] \in {"replace", "backup"} /\ Apart(w)
      /\ pc'[w] = "replace" => files[n] = None
  BY <1>1 DEF Apart, Grounded, TypeOK, LocalType
<1>5. /\ Last(w) \in Nat /\ Last(w)' = k /\ rec'[w][k] = r
      /\ \A i \in 1 .. Last(w) : rec'[w][i] = rec[w][i]
  <2>1. rec \in [Writers -> Seq(Record)] /\ rec[w] \in Seq(Record) /\ r \in Record
    BY DEF Grounded, TypeOK, LocalType, Record
  <2> HIDE DEF r
  <2>2. rec'[w] = Append(rec[w], r) /\ Last(w) = Len(rec[w])
    BY <1>1, <2>1 DEF Last
  <2> QED
    BY <1>0, <2>1, <2>2 DEF Last
<1>6. r.name = n /\ r.backed = FALSE /\ r.published = FALSE
  OBVIOUS
<1> HIDE DEF r
<1>7. \A i \in 1 .. k : i \in 1 .. Last(w) \/ i = k
  BY <1>0, <1>5
<1>8. RecordInv(w)'
  <2>1. ASSUME NEW i \in 1 .. k, NEW j \in 1 .. k, rec'[w][i].name = rec'[w][j].name PROVE i = j
    <3>1. \A l \in 1 .. Last(w) : rec'[w][l].name = rec[w][l].name /\ rec'[w][l].name # n
      BY <1>1, <1>5
    <3>2. rec'[w][k].name = n
      BY <1>5, <1>6
    <3>3. \A l, m \in 1 .. Last(w) : rec[w][l].name = rec[w][m].name => l = m
      BY <1>3 DEF WriterInv, RecordInv
    <3> QED
      BY <1>7, <2>1, <3>1, <3>2, <3>3
  <2> QED
    BY <1>4, <1>5, <2>1 DEF RecordInv
<1>9. \A m \in Names : ~Recorded(w, m)' => ~Recorded(w, m)
  <2> SUFFICES ASSUME NEW m \in Names, Recorded(w, m) PROVE Recorded(w, m)'
    OBVIOUS
  <2>1. PICK i \in 1 .. Last(w) : rec[w][i].name = m
    BY DEF Recorded
  <2>2. i \in 1 .. k /\ rec'[w][i].name = m
    BY <1>5, <1>0, <2>1
  <2> QED
    BY <1>5, <2>2 DEF Recorded
<1>10. ~Recorded(w, n)
  BY <1>1 DEF Recorded
<1>11. Kept(w, k, n)'
  <2>1. files[n] = before[w][n] /\ backup[w][n] = None
    BY <1>2, <1>3, <1>10 DEF WriterInv, KeptInv
  <2>2. rec'[w][k].backed = FALSE /\ rec'[w][k].published = FALSE
    BY <1>5, <1>6
  <2> QED
    BY <1>1, <2>1, <2>2 DEF Kept, Clean
<1>12. KeptInv(w)'
  <2>1. ASSUME NEW i \in 1 .. Last(w)' PROVE Kept(w, i, rec[w][i].name)'
    <3>1. CASE i = k
      <4>1. rec'[w][i].name = n
        BY <1>5, <1>6, <3>1
      <4> QED
        BY <1>11, <3>1, <4>1
    <3>2. CASE i \in 1 .. Last(w)
      <4>1. Kept(w, i, rec[w][i].name)
        BY <1>1, <1>2, <1>3, <3>2 DEF WriterInv, KeptInv
      <4> QED
        BY <1>1, <1>5, <3>2, <4>1 DEF Kept, Clean
    <3> QED
      BY <1>5, <1>7, <3>1, <3>2
  <2>2. \A m \in Names : ~Recorded(w, m)' => files[m] = before[w][m] /\ backup[w][m] = None
    BY <1>2, <1>3, <1>9 DEF WriterInv, KeptInv
  <2> QED
    BY <1>1, <2>1, <2>2 DEF KeptInv
<1>13. OldInv(w)'
  BY <1>1, <1>2, <1>3 DEF WriterInv, OldInv, Old
<1>14. CurrentInv(w)' /\ UndoneInv(w)' /\ VerifyInv(w)'
  BY <1>1, <1>4, <1>5, <1>6 DEF CurrentInv, Clean, Current, UndoneInv, VerifyInv
<1> QED
  BY <1>2, <1>4, <1>8, <1>12, <1>13, <1>14, OpenStep DEF Ended

LEMMA BackupKeeps ==
    ASSUME Grounded, Grounded', WriteInv, NEW w \in Writers, Backup(w)
    PROVE  WriteInv'
<1>0. PICK i, n : i = Last(w) /\ n = Current(w)
  OBVIOUS
<1>1. pc[w] = "backup" /\ Active(w)
  BY DEF Backup, Active, Ended
<1>2. i \in 1 .. Last(w) /\ n \in Names /\ n = rec[w][i].name /\ i \in Nat
  BY <1>0, <1>1, CurrentFacts DEF Grounded, StandInv, Current
<1>3. UNCHANGED <<before, record>>
  BY DEF Backup
<1>4. WriterInv(w)
  BY <1>1, OnlyOne
<1>5. CASE Raise(w) /\ UNCHANGED <<files, backup, rec>>
  BY <1>1, <1>3, <1>5, RaiseKeeps
<1>6. CASE /\ files[n] # None /\ files' = [files EXCEPT ![n] = None]
           /\ backup' = [backup EXCEPT ![w][n] = files[n]]
           /\ Mark(w, i, "backed") /\ (Goto(w, "replace") \/ Raise(w))
  <2>1. /\ Last(w)' = Last(w) /\ \A v \in Writers : v # w => rec'[v] = rec[v]
        /\ \A j \in 1 .. Last(w) :
                  rec'[w][j].name = rec[w][j].name /\ (j # i => rec'[w][j] = rec[w][j])
        /\ rec'[w][i].backed = ~rec[w][i].backed /\ rec'[w][i].published = rec[w][i].published
    BY <1>2, <1>6, Marked DEF Grounded, Last
  <2>2. /\ files'[n] = None /\ backup'[w][n] = files[n]
        /\ \A m \in Names : m # n => files'[m] = files[m] /\ backup'[w][m] = backup[w][m]
        /\ \A v \in Writers : v # w => backup'[v] = backup[v]
    BY <1>2, <1>6 DEF Grounded, TypeOK, FileType
  <2>3. pc'[w] \in {"replace", "rollback"} /\ \A v \in Writers : v # w => pc'[v] = pc[v]
    BY <1>6 DEF Goto, Raise, Grounded, TypeOK, LocalType
  <2>4. Clean(w, i) /\ Kept(w, i, n)
    BY <1>0, <1>1, <1>2, <1>4 DEF WriterInv, CurrentInv, KeptInv
  <2>5. Kept(w, i, n)'
    BY <1>3, <1>6, <2>1, <2>2, <2>4 DEF Kept, Clean
  <2>6. RecordInv(w)' /\ KeptInv(w)' /\ OldInv(w)'
    BY <1>1, <1>2, <1>3, <1>4, <2>1, <2>2, <2>3, <2>5, OneName
  <2>7. CurrentInv(w)'
    BY <1>0, <1>2, <2>1, <2>2, <2>3, <2>4 DEF CurrentInv, Clean, Current
  <2>8. UndoneInv(w)' /\ VerifyInv(w)'
    <3>1. pc'[w] = "rollback" => at'[w] = i
      BY <1>0, <1>6, <2>3 DEF Goto, Raise, Grounded, TypeOK, LocalType
    <3>2. \A j \in 1 .. Last(w) : ~(j > i)
      BY <1>0, <1>2
    <3> QED
      BY <2>1, <2>3, <3>1, <3>2 DEF UndoneInv, VerifyInv
  <2> QED
    BY <1>1, <2>1, <2>2, <2>3, <2>6, <2>7, <2>8, OpenStep DEF Apart, Ended
<1> QED
  BY <1>0, <1>5, <1>6 DEF Backup

LEMMA ReplaceKeeps ==
    ASSUME Grounded, Grounded', WriteInv, NEW w \in Writers, Replace(w)
    PROVE  WriteInv'
<1>0. PICK i, n : i = Last(w) /\ n = Current(w)
  OBVIOUS
<1>1. pc[w] = "replace" /\ Active(w)
  BY DEF Replace, Active, Ended
<1>2. i \in 1 .. Last(w) /\ n \in Names /\ n = rec[w][i].name /\ i \in Nat
  BY <1>0, <1>1, CurrentFacts DEF Grounded, StandInv, Current
<1>3. /\ files' = [files EXCEPT ![n] = <<w, n>>] /\ Mark(w, i, "published") /\ Goto(w, "digest")
      /\ UNCHANGED <<backup, before, record>>
  BY <1>0 DEF Replace
<1>4. WriterInv(w)
  BY <1>1, OnlyOne
<1>5. /\ Last(w)' = Last(w) /\ \A v \in Writers : v # w => rec'[v] = rec[v]
      /\ \A j \in 1 .. Last(w) :
                rec'[w][j].name = rec[w][j].name /\ (j # i => rec'[w][j] = rec[w][j])
      /\ rec'[w][i].published = ~rec[w][i].published /\ rec'[w][i].backed = rec[w][i].backed
  BY <1>2, <1>3, Marked DEF Grounded, Last
<1>6. files'[n] = <<w, n>> /\ \A m \in Names : m # n => files'[m] = files[m]
  BY <1>2, <1>3 DEF Grounded, TypeOK, FileType
<1>7. pc'[w] = "digest" /\ Apart(w)
  BY <1>3, <1>5 DEF Apart, Goto, Grounded, TypeOK, LocalType
<1>8. ~rec[w][i].published /\ files[n] = None /\ Kept(w, i, n)
  BY <1>0, <1>1, <1>2, <1>4 DEF WriterInv, CurrentInv, KeptInv
<1>9. Kept(w, i, n)'
  BY <1>3, <1>5, <1>6, <1>8 DEF Kept, Clean
<1>10. RecordInv(w)' /\ KeptInv(w)' /\ OldInv(w)'
  BY <1>1, <1>2, <1>3, <1>4, <1>5, <1>6, <1>7, <1>9, OneName
<1>11. CurrentInv(w)' /\ UndoneInv(w)' /\ VerifyInv(w)'
  BY <1>7 DEF CurrentInv, UndoneInv, VerifyInv
<1> QED
  BY <1>1, <1>7, <1>10, <1>11, OpenStep DEF Ended

\* A record is taken back: its name is cleared, or its backup is put back.
LEMMA UndoKeeps ==
    ASSUME Grounded, Grounded', WriteInv, NEW w \in Writers, UndoPublished(w) \/ Restore(w)
    PROVE  WriteInv'
<1>0. PICK i, n : i = at[w] /\ n = rec[w][i].name
  OBVIOUS
<1>1. pc[w] \in {"rollback", "retry"} /\ Active(w)
  BY DEF UndoPublished, Restore, Undoing, Active, Ended
<1>2. i \in 1 .. Last(w)
  BY <1>0 DEF UndoPublished, Restore, Undoing, Grounded, StandInv, TypeOK, LocalType, Last
<1>3. n \in Names
  BY <1>0, <1>2, RecFacts DEF Grounded
<1>4. UNCHANGED <<pc, at, pend, before, record>>
  BY DEF UndoPublished, Restore
<1>5. WriterInv(w)
  BY <1>1, OnlyOne
<1>6. Kept(w, i, n)
  BY <1>0, <1>1, <1>2, <1>5 DEF WriterInv, KeptInv
<1>7. ~Clean(w, i) /\ \E field \in {"backed", "published"} : Mark(w, i, field)
  BY <1>0 DEF UndoPublished, Restore, Clean
<1>8. /\ Last(w)' = Last(w) /\ \A v \in Writers : v # w => rec'[v] = rec[v]
      /\ \A j \in 1 .. Last(w) :
                rec'[w][j].name = rec[w][j].name /\ (j # i => rec'[w][j] = rec[w][j])
  BY <1>2, <1>7, Marked DEF Grounded, Last
<1>9. /\ Kept(w, i, n)'
      /\ \A m \in Names : m # n => files'[m] = files[m] /\ backup'[w][m] = backup[w][m]
      /\ \A v \in Writers : v # w => backup'[v] = backup[v]
  <2>1. CASE UndoPublished(w)
    <3>1. files' = [files EXCEPT ![n] = None] /\ UNCHANGED backup /\ Mark(w, i, "published")
          /\ rec[w][i].published
      BY <1>0, <2>1 DEF UndoPublished
    <3>2. rec'[w][i].published = ~rec[w][i].published /\ rec'[w][i].backed = rec[w][i].backed
      BY <1>2, <3>1, Marked DEF Grounded
    <3>3. files'[n] = None /\ \A m \in Names : m # n => files'[m] = files[m]
      BY <1>3, <3>1 DEF Grounded, TypeOK, FileType
    <3> QED
      BY <1>4, <1>6, <3>1, <3>2, <3>3 DEF Kept, Clean
  <2>2. CASE Restore(w)
    <3>1. /\ files' = [files EXCEPT ![n] = backup[w][n]] /\ backup' = [backup EXCEPT ![w][n] = None]
          /\ Mark(w, i, "backed") /\ ~rec[w][i].published /\ rec[w][i].backed
      BY <1>0, <2>2 DEF Restore
    <3>2. rec'[w][i].backed = ~rec[w][i].backed /\ rec'[w][i].published = rec[w][i].published
      BY <1>2, <3>1, Marked DEF Grounded
    <3>3. /\ files'[n] = backup[w][n] /\ backup'[w][n] = None
          /\ \A m \in Names : m # n => files'[m] = files[m] /\ backup'[w][m] = backup[w][m]
          /\ \A v \in Writers : v # w => backup'[v] = backup[v]
      BY <1>3, <3>1 DEF Grounded, TypeOK, FileType
    <3> QED
      BY <1>4, <1>6, <3>1, <3>2, <3>3 DEF Kept, Clean
  <2> QED
    BY <2>1, <2>2
<1>10. RecordInv(w)' /\ KeptInv(w)' /\ OldInv(w)'
  BY <1>0, <1>1, <1>2, <1>3, <1>4, <1>5, <1>8, <1>9, OneName
<1>11. UndoneInv(w)'
  <2>1. ASSUME NEW j \in 1 .. Last(w), Clean(w, j) PROVE Clean(w, j)'
    BY <1>7, <1>8, <2>1 DEF Clean
  <2> QED
    BY <1>4, <1>5, <1>8, <2>1 DEF WriterInv, UndoneInv
<1>12. CurrentInv(w)' /\ VerifyInv(w)'
  BY <1>1, <1>4 DEF CurrentInv, VerifyInv
<1> QED
  BY <1>1, <1>4, <1>8, <1>9, <1>10, <1>11, <1>12, OpenStep DEF Apart, Ended

\* The next record of a rollback, undone or postponed, or a second pass.
LEMMA DownKeeps ==
    ASSUME Grounded, Grounded', WriteInv, NEW w \in Writers, Postpone(w) \/ Undone(w)
    PROVE  WriteInv'
<1>1. /\ pc[w] \in {"rollback", "retry"} /\ Active(w) /\ at[w] > 0
      /\ UNCHANGED <<files, backup, rec, before, record, pc>> /\ at' = [at EXCEPT ![w] = @ - 1]
  BY DEF Postpone, Undone, Undoing, Down, Active, Ended
<1>2. WriterInv(w) /\ Apart(w)
  BY <1>1, OnlyOne DEF Apart
<1>3. RecordInv(w)' /\ KeptInv(w)' /\ OldInv(w)'
  BY <1>1, <1>2, SameFiles
<1>4. CurrentInv(w)' /\ VerifyInv(w)'
  BY <1>1 DEF CurrentInv, VerifyInv
<1>5. /\ at[w] \in Nat /\ at'[w] = at[w] - 1 /\ pend[w] \subseteq pend'[w]
      /\ at[w] \in 1 .. Last(w)
  BY <1>1 DEF Postpone, Undone, Grounded, TypeOK, LocalType, StandInv, Last
<1>6. Clean(w, at[w]) \/ (at[w] \in pend'[w] /\ pc[w] = "rollback")
  <2>1. CASE Postpone(w)
    BY <1>1, <2>1 DEF Postpone, Grounded, TypeOK, LocalType
  <2>2. CASE Undone(w)
    BY <1>1, <1>2, <1>5, <2>2 DEF Undone, WriterInv, UndoneInv, Clean
  <2> QED
    BY <2>1, <2>2
<1>7. UndoneInv(w)'
  <2>1. Last(w)' = Last(w) /\ Last(w) \in Nat
    BY <1>1 DEF Last, Grounded, TypeOK, LocalType
  <2>2. \A i \in 1 .. Last(w) : i > at'[w] => i > at[w] \/ i = at[w]
    BY <1>5, <2>1
  <2>3. \A i \in 1 .. Last(w) : Clean(w, i)' <=> Clean(w, i)
    BY <1>1 DEF Clean
  <2> QED
    BY <1>1, <1>2, <1>5, <1>6, <2>1, <2>2, <2>3 DEF WriterInv, UndoneInv
<1> QED
  BY <1>1, <1>2, <1>3, <1>4, <1>7, OpenStep DEF Ended

\* Steps that read: the file just published, the records of a commit, and the
\* second pass over the postponed records.
LEMMA QuietKeeps ==
    ASSUME Grounded, Grounded', WriteInv, NEW w \in Writers, NEW label \in {"open", "verify", "retry"},
           Active(w), pc[w] # "cleanup", pc' = [pc EXCEPT ![w] = label],
           UNCHANGED <<files, backup, rec, before, record>>, UndoneInv(w)', VerifyInv(w)'
    PROVE  WriteInv'
<1>1. pc'[w] = label /\ Apart(w)
  BY DEF Apart, Grounded, TypeOK, LocalType
<1>2. RecordInv(w)' /\ KeptInv(w)' /\ OldInv(w)'
  BY <1>1, OnlyOne, SameFiles
<1>3. CurrentInv(w)'
  BY <1>1 DEF CurrentInv
<1> QED
  BY <1>1, <1>2, <1>3, OpenStep DEF Ended

LEMMA ReadingKeeps ==
    ASSUME Grounded, Grounded', WriteInv, NEW w \in Writers,
           Digest(w) \/ BeginCommit(w) \/ Verify(w) \/ Fail(w)
    PROVE  WriteInv'
<1>1. /\ Active(w) /\ pc[w] # "cleanup" /\ UNCHANGED <<files, backup, rec, before, record>>
      /\ pc[w] \notin {"rollback", "retry"}
  BY DEF Digest, BeginCommit, Verify, Fail, Active, Ended
<1>2. CASE Raise(w)
  BY <1>1, <1>2, RaiseKeeps
<1>3. pc \in [Writers -> Ended \cup {"idle", "open", "backup", "replace", "digest",
                                     "verify", "cleanup", "rollback", "retry"}]
      /\ at \in [Writers -> Nat] /\ Last(w)' = Last(w) /\ Last(w) \in Nat
  BY <1>1 DEF Grounded, TypeOK, LocalType, Last
<1>4. CASE Digest(w) /\ Goto(w, "open")
  <2>1. pc'[w] = "open"
    BY <1>3, <1>4 DEF Goto
  <2> QED
    BY <1>1, <1>4, <2>1, QuietKeeps DEF Goto, UndoneInv, VerifyInv
<1>5. CASE BeginCommit(w)
  <2>1. pc'[w] = "verify" /\ at'[w] = 1
    BY <1>3, <1>5 DEF BeginCommit, Goto
  <2>2. \A i \in 1 .. Last(w) : ~(i < 1)
    BY <1>3
  <2>3. UndoneInv(w)' /\ VerifyInv(w)'
    BY <1>3, <2>1, <2>2 DEF UndoneInv, VerifyInv
  <2> QED
    BY <1>1, <1>5, <2>3, QuietKeeps DEF BeginCommit, Goto
<1>6. CASE Verify(w) /\ ~Raise(w)
  <2>1. /\ pc[w] = "verify" /\ at' = [at EXCEPT ![w] = @ + 1] /\ UNCHANGED pc
        /\ files[rec[w][at[w]].name] = <<w, rec[w][at[w]].name>>
    BY <1>6 DEF Verify
  <2>2. pc' = [pc EXCEPT ![w] = "verify"] /\ at'[w] = at[w] + 1 /\ at[w] \in Nat
    BY <1>3, <2>1
  <2>3. \A i \in 1 .. Last(w) : i < at'[w] => i < at[w] \/ i = at[w]
    BY <1>3, <2>2
  <2>4. WriterInv(w)
    BY <1>1, OnlyOne
  <2>5. UndoneInv(w)' /\ VerifyInv(w)'
    BY <1>1, <1>3, <2>1, <2>3, <2>4 DEF UndoneInv, VerifyInv, WriterInv
  <2> QED
    BY <1>1, <2>2, <2>5, QuietKeeps
<1> QED
  BY <1>2, <1>4, <1>5, <1>6 DEF Digest, BeginCommit, Verify, Fail

\* The commit point: every record is verified and becomes what was committed.
LEMMA CommitKeeps ==
    ASSUME Grounded, Grounded', WriteInv, NEW w \in Writers, Commit(w)
    PROVE  WriteInv'
<1>1. /\ pc[w] = "verify" /\ at[w] > Last(w) /\ UNCHANGED <<files, backup, rec, before>>
      /\ pc' = [pc EXCEPT ![w] = "cleanup"] /\ Active(w)
      /\ record' = [n \in Names |->
            IF \E i \in 1 .. Last(w) : rec[w][i].name = n THEN <<w, n>> ELSE record[n]]
  BY DEF Commit, Goto, Active, Ended
<1>2. pc'[w] = "cleanup" /\ Apart(w) /\ Active(w)' /\ Last(w)' = Last(w)
  BY <1>1 DEF Apart, Active, Ended, Grounded, TypeOK, LocalType, Last
<1>3. WriterInv(w) /\ NothingLost
  BY <1>1, OnlyOne
<1>4. \A i \in 1 .. Last(w) : i < at[w]
  BY <1>1 DEF Grounded, TypeOK, LocalType, Last
<1>5. ASSUME NEW i \in 1 .. Last(w)
      PROVE  files[rec[w][i].name] = <<w, rec[w][i].name>> /\ record'[rec[w][i].name] = <<w, rec[w][i].name>>
  <2>1. rec[w][i].name \in Names
    BY RecFacts DEF Grounded
  <2> QED
    BY <1>1, <1>3, <1>4, <2>1 DEF WriterInv, VerifyInv
<1>6. \A n \in Names : /\ Recorded(w, n)' <=> Recorded(w, n)
                       /\ ~Recorded(w, n) => record'[n] = record[n]
  BY <1>1, <1>2 DEF Recorded
<1>7. RecordInv(w)' /\ CurrentInv(w)' /\ UndoneInv(w)'
  BY <1>1, <1>2, <1>3 DEF WriterInv, RecordInv, CurrentInv, UndoneInv
<1>8. KeptInv(w)'
  BY <1>1, <1>2, <1>3, <1>6 DEF WriterInv, KeptInv
<1>9. VerifyInv(w)'
  BY <1>1, <1>2, <1>5 DEF VerifyInv
<1>10. OldInv(w)'
  BY <1>1, <1>2, <1>3, <1>6 DEF WriterInv, OldInv, Old
<1>11. NothingLost'
  <2> SUFFICES ASSUME NEW n \in Names, record'[n] # None
               PROVE  files[n] = record'[n] \/ \E v \in Writers : backup[v][n] = record'[n]
    BY <1>1 DEF NothingLost
  <2>1. CASE Recorded(w, n)
    BY <1>5, <2>1 DEF Recorded
  <2>2. CASE ~Recorded(w, n)
    <3>1. record'[n] = record[n]
      BY <1>6, <2>2
    <3>2. CASE Overlap
      BY <1>1, <1>3, <2>2, <3>1 DEF WriterInv, OldInv, Old, KeptInv
    <3>3. CASE ~Overlap
      BY <1>3, <3>1, <3>3 DEF NothingLost
    <3> QED
      BY <3>2, <3>3
  <2> QED
    BY <2>1, <2>2
<1>12. WriterInv(w)'
  BY <1>7, <1>8, <1>9, <1>10 DEF WriterInv
<1> QED
  BY <1>1, <1>2, <1>11, <1>12, OnlyOne, OneWriter DEF Apart

\* The process leaves and nothing else changes.
LEMMA EndKeeps ==
    ASSUME Grounded, Grounded', WriteInv, NEW w \in Writers, Active(w), NEW label \in Ended,
           End(w, label), UNCHANGED <<files, backup, record>>
    PROVE  WriteInv'
<1>1. pc'[w] = label /\ rec'[w] = <<>> /\ Apart(w)
  BY DEF End, Goto, Apart, Grounded, TypeOK, LocalType
<1>2. 1 .. Last(w)' = {}
  BY <1>1 DEF Last
<1>3. WriterInv(w)'
  BY <1>1, <1>2 DEF WriterInv, RecordInv, KeptInv, CurrentInv, UndoneInv, VerifyInv, OldInv, Active, Ended
<1>4. NothingLost'
  BY OnlyOne DEF NothingLost
<1> QED
  BY <1>1, <1>3, <1>4, OnlyOne, OneWriter DEF Apart

LEMMA CleanupKeeps ==
    ASSUME Grounded, Grounded', WriteInv, ~Overlap, NEW w \in Writers, Cleanup(w)
    PROVE  WriteInv'
<1>1. pc[w] = "cleanup" /\ UNCHANGED <<files, record>> /\ Active(w)
  BY DEF Cleanup, Active, Ended
<1>2. WriterInv(w) /\ NothingLost
  BY <1>1, OnlyOne
<1>3. CASE End(w, "committed") /\ UNCHANGED backup
  BY <1>1, <1>3, EndKeeps DEF Ended
<1>4. CASE /\ at[w] <= Last(w) /\ UNCHANGED <<pc, rec, before>>
           /\ backup' = [backup EXCEPT ![w][rec[w][at[w]].name] = None] \/ UNCHANGED backup
  <2>1. PICK i, n : i = at[w] /\ n = rec[w][i].name
    OBVIOUS
  <2>2. i \in 1 .. Last(w)
    BY <1>1, <1>4, <2>1 DEF Grounded, StandInv, TypeOK, LocalType, Last
  <2>3. n \in Names /\ files[n] = <<w, n>> /\ record[n] = <<w, n>> /\ Recorded(w, n)
    BY <1>1, <1>2, <2>1, <2>2, RecFacts DEF Grounded, WriterInv, VerifyInv, Recorded
  <2>4. /\ \A m \in Names : m # n => backup'[w][m] = backup[w][m]
        /\ \A v \in Writers : v # w => backup'[v] = backup[v]
    <3>1. backup \in [Writers -> [Names -> File \cup {None}]]
      BY DEF Grounded, TypeOK, FileType
    <3>2. backup' = [backup EXCEPT ![w][n] = None] \/ UNCHANGED backup
      BY <1>4, <2>1
    <3> QED
      BY <2>3, <3>1, <3>2
  <2>5. Last(w)' = Last(w) /\ Apart(w) /\ \A m \in Names : Recorded(w, m)' <=> Recorded(w, m)
    BY <1>4, <2>4 DEF Last, Apart, Recorded
  <2>6. RecordInv(w)' /\ CurrentInv(w)' /\ UndoneInv(w)' /\ VerifyInv(w)'
    BY <1>1, <1>2, <1>4, <2>5 DEF WriterInv, RecordInv, CurrentInv, UndoneInv, VerifyInv
  <2>7. KeptInv(w)'
    BY <1>1, <1>2, <1>4, <2>3, <2>4, <2>5 DEF WriterInv, KeptInv, Active
  <2>8. OldInv(w)'
    BY <1>1, <1>2, <1>4, <2>4, <2>5 DEF WriterInv, OldInv, Old, Active
  <2>9. NothingLost'
    BY <1>1, <1>2, <2>3, <2>4 DEF NothingLost
  <2>10. WriterInv(w)'
    BY <2>6, <2>7, <2>8 DEF WriterInv
  <2> QED
    BY <1>1, <2>5, <2>9, <2>10, OnlyOne, OneWriter DEF Apart
<1> QED
  BY <1>3, <1>4 DEF Cleanup

\* The first rollback is over, or the second.
LEMMA ClosingKeeps ==
    ASSUME Grounded, Grounded', WriteInv, NEW w \in Writers,
           Rebind(w) \/ Rebound(w) \/ GiveUp(w) \/ Crash(w)
    PROVE  WriteInv'
<1>1. Active(w) /\ UNCHANGED <<files, backup, record>>
  BY DEF Rebind, Rebound, GiveUp, Crash, Active, Ended
<1>2. CASE \E label \in Ended : End(w, label)
  BY <1>1, <1>2, EndKeeps
<1>3. CASE Rebind(w) /\ Goto(w, "retry") /\ at' = [at EXCEPT ![w] = Last(w)] /\ UNCHANGED <<rec, pend, before>>
  <2>1. /\ pc'[w] = "retry" /\ at'[w] = Last(w) /\ Last(w) \in Nat /\ Last(w)' = Last(w)
        /\ pc[w] = "rollback" /\ at[w] = 0
    BY <1>3 DEF Rebind, Goto, Grounded, TypeOK, LocalType, Last
  <2>2. \A i \in 1 .. Last(w) : i > at[w] /\ ~(i > at'[w])
    BY <2>1
  <2>3. \A i \in 1 .. Last(w) : Clean(w, i)' <=> Clean(w, i)
    BY <1>3 DEF Clean
  <2>4. UndoneInv(w)' /\ VerifyInv(w)'
    BY <1>1, <1>3, <2>1, <2>2, <2>3, OnlyOne DEF WriterInv, UndoneInv, VerifyInv
  <2> QED
    BY <1>1, <1>3, <2>1, <2>4, QuietKeeps DEF Goto
<1> QED
  BY <1>2, <1>3 DEF Rebind, Rebound, GiveUp, Crash, Ended

LEMMA WriteStep == Grounded /\ Grounded' /\ ~Overlap /\ WriteInv /\ [Next]_vars => WriteInv'
<1> SUFFICES ASSUME Grounded, Grounded', ~Overlap, WriteInv, [Next]_vars PROVE WriteInv'
  OBVIOUS
<1>1. ASSUME NEW w \in Writers, Step(w) PROVE WriteInv'
  BY <1>1, BeginKeeps, BackupKeeps, ReplaceKeeps, ReadingKeeps, CommitKeeps, CleanupKeeps, DownKeeps,
     UndoKeeps, ClosingKeeps DEF Step
<1>2. CASE Read \/ MoveDirectory \/ UNCHANGED vars
  <2>1. UNCHANGED <<files, backup, pc, rec, at, pend, before, record>>
    BY <1>2 DEF Read, ReadSet, OpenTarget, ReadTarget, Reread, StatTarget, CloseHandles, MoveDirectory,
       vars, writerVars
  <2>2. AloneInv' /\ NothingLost'
    BY <2>1 DEF WriteInv, AloneInv, NothingLost, Active
  <2>3. ASSUME NEW w \in Writers PROVE WriterInv(w)'
    <3>1. RecordInv(w)' /\ CurrentInv(w)' /\ UndoneInv(w)' /\ VerifyInv(w)'
      <4>1. RecordInv(w) /\ CurrentInv(w) /\ UndoneInv(w) /\ VerifyInv(w)
        BY DEF WriteInv, WriterInv
      <4>2. RecordInv(w)' /\ CurrentInv(w)'
        BY <2>1, <4>1 DEF RecordInv, CurrentInv, Clean, Last, Current
      <4>3. UndoneInv(w)' /\ VerifyInv(w)'
        BY <2>1, <4>1 DEF UndoneInv, VerifyInv, Clean, Last
      <4> QED
        BY <4>2, <4>3
    <3>2. KeptInv(w)'
      <4>1. KeptInv(w)
        BY DEF WriteInv, WriterInv
      <4> QED
        BY <2>1, <4>1 DEF KeptInv, Kept, Clean, Recorded, Last, Active
    <3>3. OldInv(w)'
      BY <2>1 DEF WriteInv, WriterInv, OldInv, Old, Recorded, Last, Active
    <3> QED
      BY <3>1, <3>2, <3>3 DEF WriterInv
  <2> QED
    BY <2>2, <2>3 DEF WriteInv
<1>3. ASSUME NEW w \in Writers, Bind(w) \/ Crash(w) PROVE WriteInv'
  BY <1>3, BindKeeps, ClosingKeeps
<1> QED
  BY <1>1, <1>2, <1>3 DEF Next

LEMMA WriteInit == Init => WriteInv
<1> SUFFICES ASSUME Init PROVE WriteInv
  OBVIOUS
<1>1. \A w \in Writers : pc[w] = "idle" /\ rec[w] = <<>> /\ ~Active(w) /\ backup[w] = [n \in Names |-> None]
  BY DEF Init, Active
<1>2. \A w \in Writers : 1 .. Last(w) = {}
  BY <1>1 DEF Last
<1>3. \A w \in Writers : WriterInv(w)
  BY <1>1, <1>2 DEF WriterInv, RecordInv, KeptInv, CurrentInv, UndoneInv, VerifyInv, OldInv
<1> QED
  BY <1>1, <1>3 DEF WriteInv, AloneInv, NothingLost, Init

\* A rollback that reports nothing has come past every record.
LEMMA RaisedRestores ==
    ASSUME Grounded, WriteInv, NEW w \in Writers, (Rebind(w) /\ pend[w] = {}) \/ Rebound(w)
    PROVE  files = before[w]
<1>1. /\ Active(w) /\ pc[w] # "cleanup" /\ at[w] = 0
      /\ (pc[w] = "rollback" /\ pend[w] = {}) \/ pc[w] = "retry"
  BY DEF Rebind, Rebound, Active, Ended
<1>2. WriterInv(w)
  BY <1>1, OnlyOne
<1>3. \A i \in 1 .. Last(w) : Clean(w, i)
  <2>1. \A i \in 1 .. Last(w) : i > at[w]
    BY <1>1 DEF Grounded, TypeOK, LocalType, Last
  <2> QED
    BY <1>1, <1>2, <2>1 DEF WriterInv, UndoneInv
<1>4. ASSUME NEW n \in Names PROVE files[n] = before[w][n]
  <2>1. CASE Recorded(w, n)
    <3>1. PICK i \in 1 .. Last(w) : rec[w][i].name = n
      BY <2>1 DEF Recorded
    <3> QED
      BY <1>1, <1>2, <1>3, <3>1 DEF WriterInv, KeptInv, Kept
  <2>2. CASE ~Recorded(w, n)
    BY <1>1, <1>2, <2>2 DEF WriterInv, KeptInv
  <2> QED
    BY <2>1, <2>2
<1> QED
  BY <1>4 DEF Grounded, TypeOK, FileType

\* Only the end of a rollback raises without a report.
LEMMA RaisesBy ==
    ASSUME Grounded, [Next]_vars, NEW w \in Writers, pc[w] # "raised", pc'[w] = "raised"
    PROVE  (Rebind(w) /\ pend[w] = {}) \/ Rebound(w)
<1>1. pc \in [Writers -> Ended \cup {"idle", "open", "backup", "replace", "digest",
                                     "verify", "cleanup", "rollback", "retry"}]
  BY DEF Grounded, TypeOK, LocalType
<1>2. ASSUME NEW v \in Writers, NEW label, label # "raised", pc' = [pc EXCEPT ![v] = label] PROVE FALSE
  BY <1>1, <1>2
<1>3. ASSUME UNCHANGED pc PROVE FALSE
  BY <1>3
<1>4. ASSUME NEW v \in Writers, Step(v) \/ Bind(v) \/ Crash(v),
             ~((Rebind(v) /\ pend[v] = {}) \/ Rebound(v))
      PROVE  FALSE
  <2>1. UNCHANGED pc \/ \E label : label # "raised" /\ pc' = [pc EXCEPT ![v] = label]
    <3>1. CASE Bind(v)
      BY <3>1 DEF Bind, Goto
    <3>2. CASE Crash(v)
      BY <3>2 DEF Crash, End, Goto
    <3>3. CASE \E n \in Names : Begin(v, n)
      <4>1. PICK n \in Names : Begin(v, n)
        BY <3>3
      <4>2. CASE files[n] = None
        BY <4>1, <4>2 DEF Begin, Goto
      <4>3. CASE files[n] # None
        BY <4>1, <4>3 DEF Begin, Goto
      <4> QED
        BY <4>2, <4>3
    <3>4. CASE Backup(v)
      <4>1. Goto(v, "replace") \/ Goto(v, "rollback")
        BY <3>4 DEF Backup, Raise
      <4> QED
        BY <4>1 DEF Goto
    <3>5. CASE Replace(v) \/ Digest(v) \/ BeginCommit(v) \/ Verify(v) \/ Commit(v) \/ Fail(v)
      <4>1. \/ UNCHANGED pc \/ Goto(v, "digest") \/ Goto(v, "open") \/ Goto(v, "rollback")
            \/ Goto(v, "verify") \/ Goto(v, "cleanup")
        BY <3>5 DEF Replace, Digest, BeginCommit, Verify, Commit, Fail, Raise
      <4> QED
        BY <4>1 DEF Goto
    <3>6. CASE Cleanup(v) \/ GiveUp(v) \/ Rebind(v)
      <4>1. UNCHANGED pc \/ Goto(v, "committed") \/ Goto(v, "incomplete") \/ Goto(v, "retry")
        BY <1>4, <3>6 DEF Cleanup, GiveUp, Rebind, End
      <4> QED
        BY <4>1 DEF Goto
    <3>7. CASE Postpone(v) \/ UndoPublished(v) \/ Restore(v) \/ Undone(v)
      BY <3>7 DEF Postpone, UndoPublished, Restore, Undone
    <3> QED
      BY <1>4, <3>1, <3>2, <3>3, <3>4, <3>5, <3>6, <3>7 DEF Step
  <2> QED
    BY <1>2, <1>3, <2>1
<1>5. Read \/ MoveDirectory \/ UNCHANGED vars => UNCHANGED pc
  BY DEF Read, ReadSet, OpenTarget, ReadTarget, Reread, StatTarget, CloseHandles, MoveDirectory,
     vars, writerVars
<1>6. PICK v \in Writers : (Rebind(v) /\ pend[v] = {}) \/ Rebound(v)
  BY <1>3, <1>4, <1>5 DEF Next
<1>7. pc' = [pc EXCEPT ![v] = "raised"]
  <2>1. CASE Rebind(v) /\ pend[v] = {}
    BY <2>1 DEF Rebind, End, Goto
  <2>2. CASE Rebound(v)
    BY <2>2 DEF Rebound, End, Goto
  <2> QED
    BY <1>6, <2>1, <2>2
<1>8. v = w
  BY <1>1, <1>7
<1> QED
  BY <1>6, <1>8

\* The invariant of the bundles holds in every reachable state.
THEOREM Invariant == Spec => []IInv
<1>1. Init => IInv
  BY GroundedInit, WriteInit DEF IInv, Grounded, Init, ReadInv, After, ReadIsSnapshot
<1>2. IInv /\ [Next]_vars => IInv'
  BY GroundedStep, ReadStep, WriteStep DEF IInv, Grounded
<1> QED
  BY <1>1, <1>2, PTL DEF Spec

\* Every file, descriptor and record keeps its type.
THEOREM TypeCorrect == Spec => []TypeOK
BY Invariant, PTL DEF IInv

\* Where transactions do not overlap, what was committed last stays on disk
\* through failures, kills and later transactions, and a rollback that reports
\* nothing has put back every name (AnchoredOutputTransaction).
THEOREM ContentIsKept == Spec => ContentKept
<1>1. IInv => NothingLost
  BY DEF IInv, WriteInv, NothingLost
<1>2. ASSUME IInv, [Next]_vars
      PROVE  [\A w \in Writers :
                 pc[w] # "raised" /\ pc'[w] = "raised" /\ ~Overlap => files' = before[w]]_vars
  <2> SUFFICES ASSUME NEW w \in Writers, pc[w] # "raised", pc'[w] = "raised", ~Overlap
               PROVE  files' = before[w]
    OBVIOUS
  <2>1. (Rebind(w) /\ pend[w] = {}) \/ Rebound(w)
    BY <1>2, RaisesBy DEF IInv, Grounded
  <2>2. UNCHANGED files
    BY <2>1 DEF Rebind, Rebound
  <2> QED
    BY <1>2, <2>1, <2>2, RaisedRestores DEF IInv, Grounded
<1> QED
  BY <1>1, <1>2, Invariant, PTL DEF Spec, ContentKept, RollbackRestores

=============================================================================
