----------------------------- MODULE PowerProofs -----------------------------
(***************************************************************************)
(* Proofs about PowerLedger for any set of processes, any shard counts and *)
(* any bounds: the types, the uniqueness and order of the screens, the     *)
(* exclusion between a timing no-go and the ledger, the wholeness of every *)
(* judged chain and, where finals are accepted, what a final closes.       *)
(***************************************************************************)
EXTENDS PowerLedger, SequenceTheorems, FiniteSetTheorems, TLAPS

(* A process inside the critical section of the screen lock.               *)
Holding(p) ==
    \/ pc[p] \in {"screen", "mark", "nogo", "write_nogo"}
    \/ pc[p] = "write" /\ pending[p].stage = "screen"

(* Mutual exclusion.                                                       *)
LockInv == \A p \in Procs : Holding(p) => lock = p

(* A process that writes or marks has a report.                            *)
WorkInv == \A p \in Procs : pc[p] \in {"write", "mark"} => pending[p] \in Report

(* What a pending write knows of the no-go: a screen was checked under the *)
(* lock, any other report has a screen before it.                          *)
NoGoInv ==
    /\ \A p \in Procs : pc[p] = "write" =>
           IF pending[p].stage = "screen" THEN nogo # "whole" ELSE ledger # <<>>
    /\ \A p \in Procs : pc[p] = "write_nogo" => ledger = <<>>
    /\ NoGoExcludesPower

(* The generation of a pending screen is still the next one.               *)
ScreenInv ==
    \A p \in Procs : pc[p] = "write" /\ pending[p].stage = "screen" =>
        NextGeneration(pending[p].phase, pending[p].gen)

IInv == TypeOK /\ LockInv /\ WorkInv /\ NoGoInv /\ ScreenInv /\ OneScreenPerAttempt

(* The initial state satisfies the invariant.                              *)
LEMMA InitInv == Init => IInv
BY NoneAssumption, EmptySeq DEF Init, IInv, TypeOK, LockInv, WorkInv, NoGoInv, ScreenInv,
      OneScreenPerAttempt, NoGoExcludesPower, Holding, Labels, Refs, At

(* Positions of a ledger are natural numbers and its entries are reports.  *)
LEMMA LedgerFacts ==
    ASSUME TypeOK
    PROVE  /\ Refs = 1 .. Len(ledger) /\ Len(ledger) \in Nat /\ Refs \subseteq Nat
           /\ \A i \in Refs : ledger[i] \in Report
BY LenProperties, ElementOfSeq DEF TypeOK, Refs

(* A draft is a report if its parts are.                                   *)
LEMMA DraftType ==
    ASSUME NEW stage \in Stages, NEW like, like.phase \in Phases, like.gen \in Nat,
           like.count \in Nat, NEW shard \in Nat, NEW parents \in Seq(Nat)
    PROVE  Draft(stage, like, shard, parents) \in Report
<1>1. <<>> \in Seq(Nat)
  BY EmptySeq
<1> QED BY <1>1 DEF Draft, Report

(* Only reports of the ledger take part in what the invariant says of it;  *)
(* a step that leaves it, the no-go and the lock discipline keeps them.    *)
LEMMA WorkPreserves ==
    ASSUME IInv, NEW p \in Procs, NEW r \in Report, Work(p, r),
           IF r.stage = "screen"
           THEN pc[p] = "screen" /\ Scannable /\ NextGeneration(r.phase, r.gen)
           ELSE ledger # <<>>
    PROVE  IInv'
<1>1. TypeOK'
  BY DEF IInv, TypeOK, Work, Labels, Refs
<1>2. LockInv'
  BY DEF IInv, TypeOK, LockInv, Holding, Work
<1>3. WorkInv'
  BY DEF IInv, TypeOK, WorkInv, Work
<1>4. NoGoInv'
  BY DEF IInv, TypeOK, NoGoInv, NoGoExcludesPower, Work, Scannable
<1>5. ScreenInv'
  <2> SUFFICES ASSUME NEW q \in Procs, pc'[q] = "write", pending'[q].stage = "screen"
               PROVE  NextGeneration(pending[q].phase, pending[q].gen)'
    BY DEF ScreenInv
  <2>1. \A x, y : NextGeneration(x, y) => NextGeneration(x, y)'
    BY DEF Work, NextGeneration, ScreensOf, At, Refs
  <2>2. CASE q = p
    BY <2>1, <2>2 DEF IInv, TypeOK, Work
  <2>3. CASE q # p
    BY <2>1, <2>3 DEF IInv, TypeOK, ScreenInv, Work
  <2> QED BY <2>2, <2>3
<1>6. OneScreenPerAttempt'
  BY DEF IInv, OneScreenPerAttempt, Work, At, InAttempt, Refs
<1> QED BY <1>1, <1>2, <1>3, <1>4, <1>5, <1>6 DEF IInv

(* A tuple of shards is a sequence of positions.                           *)
LEMMA TupleType ==
    ASSUME TypeOK, NEW s \in At("screen"), NEW shards \in ShardTuples(s)
    PROVE  /\ shards \in Seq(Nat) /\ <<s>> \in Seq(Nat) /\ s \in Nat
           /\ <<s>> \o shards \in Seq(Nat)
<1>1. s \in Refs /\ ledger[s].count \in Nat /\ At("shard") \subseteq Nat
  BY LedgerFacts DEF At, Report
<1>2. shards \in [1 .. ledger[s].count -> Nat]
  BY <1>1 DEF ShardTuples
<1>3. shards \in Seq(Nat)
  BY <1>1, <1>2
<1>4. s \in Nat /\ <<s>> \in Seq(Nat)
  BY <1>1, LedgerFacts
<1> QED BY <1>3, <1>4, ConcatProperties

(* screen_power_grid, up to its write.                                     *)
LEMMA ScreenPreserves ==
    ASSUME IInv, NEW p \in Procs, NEW phase \in Phases, NEW gen \in 0 .. MaxGen,
           NEW n \in ShardCounts, NEW t \in Triggers, Screen(p, phase, gen, n, t)
    PROVE  IInv'
<1> DEFINE r == Draft("screen", [phase |-> phase, gen |-> gen, count |-> n], 0, t)
<1>1. t \in Seq(Nat)
  <2>1. \A i \in At("validation") : i \in Nat
    BY LedgerFacts DEF IInv, At
  <2>2. CASE t = <<>>
    BY <2>2, EmptySeq
  <2>3. ASSUME NEW i \in At("validation"), t = <<i>>
        PROVE  t \in Seq(Nat)
    <3>1. i \in Nat
      BY <2>1
    <3> QED BY <2>3, <3>1
  <2> QED BY <2>2, <2>3 DEF Triggers
<1>2. gen \in Nat /\ n \in Nat
  BY BoundsAssumption
<1>3. r \in Report
  BY <1>1, <1>2, DraftType DEF Stages
<1>4. r.stage = "screen" /\ r.phase = phase /\ r.gen = gen
  BY DEF Draft
<1>5. Work(p, r) /\ pc[p] = "screen" /\ Scannable /\ NextGeneration(phase, gen)
  BY DEF Screen, WriteOpen
<1> HIDE DEF r
<1> QED BY <1>3, <1>4, <1>5, WorkPreserves

(* simulate_power_shard.                                                   *)
LEMMA ShardPreserves ==
    ASSUME IInv, NEW p \in Procs, NEW s \in At("screen"),
           NEW index \in 0 .. ledger[s].count - 1, Shard(p, s, index)
    PROVE  IInv'
<1> DEFINE r == Draft("shard", ledger[s], index, <<s>>)
<1>1. s \in Refs /\ s \in Nat /\ ledger[s] \in Report /\ ledger # <<>>
  BY LedgerFacts, EmptySeq DEF IInv, At, Refs
<1>2. index \in Nat /\ <<s>> \in Seq(Nat)
  BY <1>1 DEF Report
<1>3. r \in Report
  BY <1>1, <1>2, DraftType DEF Stages, Report
<1>4. r.stage = "shard"
  BY DEF Draft
<1>5. Work(p, r)
  BY DEF Shard
<1> HIDE DEF r
<1> QED BY <1>1, <1>3, <1>4, <1>5, WorkPreserves

(* The commands that take a screen and its shards.                         *)
LEMMA OnShardsPreserves ==
    ASSUME IInv, NEW p \in Procs, NEW s \in At("screen"), NEW shards \in ShardTuples(s),
           OnShards(p, s, shards)
    PROVE  IInv'
<1>1. s \in Refs /\ s \in Nat /\ ledger[s] \in Report /\ ledger # <<>>
  BY LedgerFacts, EmptySeq DEF IInv, At, Refs
<1>2. ledger[s].phase \in Phases /\ ledger[s].gen \in Nat /\ ledger[s].count \in Nat
      /\ ledger[s].parents \in Seq(Nat)
  BY <1>1 DEF Report
<1>3. shards \in Seq(Nat) /\ <<s>> \in Seq(Nat) /\ <<s>> \o shards \in Seq(Nat)
  BY TupleType DEF IInv
<1>4. \A r \in Report : r.stage # "screen" /\ Work(p, r) => IInv'
  BY <1>1, WorkPreserves
<1>5. \A i \in Refs : i \in Nat
  BY LedgerFacts DEF IInv
<1>6. At("selection") \subseteq Refs /\ At("validation") \subseteq Refs
  BY DEF At
<1>7. AllAttempts \in Seq(Nat)
  BY LedgerFacts DEF AllAttempts, IInv
<1>8. CASE Select(p, s, shards)
  <2> DEFINE r == Draft("selection", ledger[s], 0, <<s>> \o shards)
  <2>1. r \in Report
    BY <1>2, <1>3, DraftType DEF Stages
  <2>2. r.stage # "screen"
    BY DEF Draft
  <2>3. Work(p, r)
    BY <1>8 DEF Select
  <2> HIDE DEF r
  <2> QED BY <1>4, <2>1, <2>2, <2>3
<1>9. ASSUME NEW j \in At("selection"), NEW passed \in BOOLEAN,
             Validate(p, s, shards, j, passed)
      PROVE  IInv'
  <2> DEFINE d == Draft("validation", ledger[s], 0, <<s>> \o shards \o <<j>>)
  <2>1. <<j>> \in Seq(Nat)
    BY <1>5, <1>6
  <2>2. <<s>> \o shards \o <<j>> \in Seq(Nat)
    BY <1>3, <2>1, ConcatProperties
  <2>3. d \in Report
    BY <1>2, <2>2, DraftType DEF Stages
  <2>4. d.stage = "validation"
    BY DEF Draft
  <2>5. Work(p, [d EXCEPT !.passed = passed])
    BY <1>9 DEF Validate
  <2> HIDE DEF d
  <2>6. [d EXCEPT !.passed = passed] \in Report
    BY <2>3 DEF Report
  <2>7. [d EXCEPT !.passed = passed].stage = "validation"
    BY <2>3, <2>4 DEF Report
  <2> QED BY <1>4, <2>5, <2>6, <2>7
<1>10. CASE ValidateFallback(p, s, shards)
  <2> DEFINE r == Draft("validation", ledger[s], 0, ledger[s].parents \o <<s>> \o shards)
  <2>1. ledger[s].parents \o <<s>> \in Seq(Nat)
    BY <1>2, <1>3, ConcatProperties
  <2>2. ledger[s].parents \o <<s>> \o shards \in Seq(Nat)
    BY <1>3, <2>1, ConcatProperties
  <2>3. r \in Report
    BY <1>2, <2>2, DraftType DEF Stages
  <2>4. r.stage # "screen"
    BY DEF Draft
  <2>5. Work(p, r)
    BY <1>10 DEF ValidateFallback
  <2> HIDE DEF r
  <2> QED BY <1>4, <2>3, <2>4, <2>5
<1>11. ASSUME NEW chain \in Seq(Nat)
       PROVE  /\ Final(s, chain) \in Report /\ Final(s, chain).stage = "final"
              /\ [Final(s, chain) EXCEPT !.phase = Gaussian] \in Report
              /\ [Final(s, chain) EXCEPT !.phase = Gaussian].stage = "final"
  <2> DEFINE d == Draft("final", ledger[s], 0, AllAttempts)
  <2>1. d \in Report
    BY <1>2, <1>7, DraftType DEF Stages
  <2>2. d.stage = "final"
    BY DEF Draft
  <2>3. Final(s, chain) = [d EXCEPT !.chain = chain]
    BY DEF Final
  <2> HIDE DEF d
  <2>4. Final(s, chain) \in Report /\ Final(s, chain).stage = "final"
    BY <2>1, <2>2, <2>3 DEF Report
  <2> QED BY <2>4 DEF Report, Phases
<1>12. ASSUME NEW j \in At("selection"), NEW v \in At("validation"),
              FinalizeGaussian(p, s, shards, j, v)
       PROVE  IInv'
  <2> DEFINE chain == <<s>> \o shards \o <<j, v>>
  <2>1. <<j, v>> \in Seq(Nat)
    BY <1>5, <1>6
  <2>2. chain \in Seq(Nat)
    BY <1>3, <2>1, ConcatProperties
  <2>3. Work(p, [Final(s, chain) EXCEPT !.phase = Gaussian])
    BY <1>12 DEF FinalizeGaussian
  <2> HIDE DEF chain
  <2> QED BY <1>4, <1>11, <2>2, <2>3
<1>13. ASSUME NEW v \in At("validation"), FinalizeFallback(p, s, shards, v)
       PROVE  IInv'
  <2> DEFINE chain == <<s>> \o shards \o <<v>>
  <2>1. <<v>> \in Seq(Nat)
    BY <1>5, <1>6
  <2>2. chain \in Seq(Nat)
    BY <1>3, <2>1, ConcatProperties
  <2>3. Work(p, Final(s, chain))
    BY <1>13 DEF FinalizeFallback
  <2> HIDE DEF chain
  <2> QED BY <1>4, <1>11, <2>2, <2>3
<1> QED BY <1>8, <1>9, <1>10, <1>12, <1>13 DEF OnShards

(* A report that is not a screen changes nothing the screens are judged by.*)
LEMMA AppendOther ==
    ASSUME TypeOK, NEW r \in Report, r.stage # "screen", ledger' = Append(ledger, r)
    PROVE  /\ At("screen")' = At("screen")
           /\ \A i \in At("screen") : ledger'[i] = ledger[i]
<1>1. /\ Refs = 1 .. Len(ledger) /\ Refs' = 1 .. Len(ledger) + 1 /\ Len(ledger) \in Nat
      /\ ledger'[Len(ledger) + 1] = r
      /\ \A i \in 1 .. Len(ledger) : ledger'[i] = ledger[i]
  BY LedgerFacts, AppendProperties DEF TypeOK, Refs
<1> QED BY <1>1 DEF At

(* A screen that is appended is the only new one.                          *)
LEMMA AppendScreen ==
    ASSUME TypeOK, NEW r \in Report, r.stage = "screen", ledger' = Append(ledger, r)
    PROVE  /\ At("screen")' = At("screen") \cup {Len(ledger) + 1}
           /\ Len(ledger) + 1 \notin At("screen")
           /\ ledger'[Len(ledger) + 1] = r
           /\ \A i \in At("screen") : ledger'[i] = ledger[i]
<1>1. /\ Refs = 1 .. Len(ledger) /\ Refs' = 1 .. Len(ledger) + 1 /\ Len(ledger) \in Nat
      /\ ledger'[Len(ledger) + 1] = r
      /\ \A i \in 1 .. Len(ledger) : ledger'[i] = ledger[i]
  BY LedgerFacts, AppendProperties DEF TypeOK, Refs
<1> QED BY <1>1 DEF At

(* Publishing the next screen keeps the screens unique and without gaps:   *)
(* its generation exceeds every other of its phase by exactly one.         *)
LEMMA ScreensKept ==
    ASSUME TypeOK, OneScreenPerAttempt, NEW r \in Report, r.stage = "screen",
           NextGeneration(r.phase, r.gen), ledger' = Append(ledger, r)
    PROVE  OneScreenPerAttempt'
<1> DEFINE new == Len(ledger) + 1
<1>1. /\ At("screen")' = At("screen") \cup {new} /\ new \notin At("screen")
      /\ ledger'[new] = r /\ \A i \in At("screen") : ledger'[i] = ledger[i]
  BY AppendScreen
<1>2. \A i \in At("screen") : ledger[i].gen \in Nat
  BY LedgerFacts DEF At, Report
<1>3. r.gen \in Nat
  BY DEF Report
<1> HIDE DEF new
<1>4. \A i \in At("screen") : ledger[i].phase = r.phase => ledger[i].gen < r.gen
  BY <1>2, <1>3 DEF NextGeneration, ScreensOf
<1>5. \A g \in 0 .. r.gen : g # r.gen =>
          \E i \in At("screen") : ledger[i].phase = r.phase /\ ledger[i].gen = g
  <2> SUFFICES ASSUME NEW g \in 0 .. r.gen, g # r.gen
               PROVE  \E i \in At("screen") : ledger[i].phase = r.phase /\ ledger[i].gen = g
    OBVIOUS
  <2>1. ScreensOf(r.phase) # {}
    BY <1>3 DEF NextGeneration
  <2>2. PICK k \in ScreensOf(r.phase) : r.gen = ledger[k].gen + 1
    BY <2>1 DEF NextGeneration
  <2>3. k \in At("screen") /\ ledger[k].phase = r.phase
    BY DEF ScreensOf
  <2>4. g \in 0 .. ledger[k].gen
    BY <1>2, <1>3, <2>2, <2>3
  <2>5. InAttempt("screen", ledger[k].phase, g) # {}
    BY <2>3, <2>4 DEF OneScreenPerAttempt
  <2> QED BY <2>3, <2>5 DEF InAttempt
<1> DEFINE Has(x, g) == \E i \in At("screen")' : ledger'[i].phase = x /\ ledger'[i].gen = g
<1>6. \A i \in At("screen") : Has(ledger[i].phase, ledger[i].gen)
  BY <1>1
<1>7. Has(r.phase, r.gen)
  BY <1>1
<1>8. \A i \in At("screen") : \A g \in 0 .. ledger[i].gen : Has(ledger[i].phase, g)
  <2> SUFFICES ASSUME NEW i \in At("screen"), NEW g \in 0 .. ledger[i].gen
               PROVE  Has(ledger[i].phase, g)
    OBVIOUS
  <2>1. PICK k \in At("screen") : ledger[k].phase = ledger[i].phase /\ ledger[k].gen = g
    BY DEF OneScreenPerAttempt, InAttempt
  <2> QED BY <1>6, <2>1
<1>9. \A g \in 0 .. r.gen : Has(r.phase, g)
  <2> SUFFICES ASSUME NEW g \in 0 .. r.gen, g # r.gen
               PROVE  Has(r.phase, g)
    BY <1>7
  <2>1. PICK k \in At("screen") : ledger[k].phase = r.phase /\ ledger[k].gen = g
    BY <1>5
  <2> QED BY <1>6, <2>1
<1> HIDE DEF Has
<1>10. ASSUME NEW i \in At("screen")', NEW j \in At("screen")',
              ledger'[i].phase = ledger'[j].phase, ledger'[i].gen = ledger'[j].gen
       PROVE  i = j
  <2>1. CASE i \in At("screen") /\ j \in At("screen")
    BY <1>1, <1>10, <2>1 DEF OneScreenPerAttempt
  <2>2. ASSUME NEW k \in At("screen"), ledger'[k].phase = ledger'[new].phase
        PROVE  ledger'[k].gen # ledger'[new].gen
    <3>1. ledger'[k] = ledger[k] /\ ledger'[new] = r
      BY <1>1
    <3>2. ledger[k].gen < r.gen /\ ledger[k].gen \in Nat
      BY <1>2, <1>4, <2>2, <3>1
    <3> QED BY <1>3, <3>1, <3>2
  <2>3. CASE i = new \/ j = new
    BY <1>1, <1>10, <2>2, <2>3
  <2> QED BY <1>1, <2>1, <2>2, <2>3
<1>11. \A i \in At("screen")' : \A g \in 0 .. ledger'[i].gen : Has(ledger'[i].phase, g)
  BY <1>1, <1>8, <1>9
<1>12. \A i \in At("screen")' : \A g \in 0 .. ledger'[i].gen :
           InAttempt("screen", ledger[i].phase, g)' # {}
  <2> SUFFICES ASSUME NEW i \in At("screen")', NEW g \in 0 .. ledger'[i].gen
               PROVE  InAttempt("screen", ledger[i].phase, g)' # {}
    OBVIOUS
  <2>1. PICK k \in At("screen")' : ledger'[k].phase = ledger'[i].phase /\ ledger'[k].gen = g
    BY <1>11 DEF Has
  <2>2. k \in InAttempt("screen", ledger[i].phase, g)'
    BY <2>1 DEF InAttempt
  <2> QED BY <2>2
<1> QED BY <1>10, <1>12 DEF OneScreenPerAttempt

(* write_record.                                                           *)
LEMMA WritePreserves ==
    ASSUME IInv, NEW p \in Procs, Write(p)
    PROVE  IInv'
<1> DEFINE r == pending[p]
<1>1. r \in Report /\ ledger' = Append(ledger, r)
  BY DEF Write, IInv, WorkInv
<1>2. ledger' \in Seq(Report) /\ Len(ledger') = Len(ledger) + 1 /\ Len(ledger) \in Nat
      /\ DOMAIN ledger' = 1 .. Len(ledger) + 1
  BY <1>1, AppendProperties, LedgerFacts, LenProperties DEF IInv, TypeOK
<1>3. ledger' # <<>>
  BY <1>2
<1>4. TypeOK'
  <2>1. Refs \subseteq Refs'
    BY <1>2, LedgerFacts DEF IInv, Refs
  <2> QED BY <1>2, <2>1 DEF IInv, TypeOK, Write, Labels
<1>5. LockInv'
  BY DEF IInv, TypeOK, LockInv, Holding, Write
<1>6. WorkInv'
  BY DEF IInv, TypeOK, WorkInv, Write
<1>7. NoGoInv'
  <2>1. nogo # "whole"
    BY DEF Write, IInv, NoGoInv, NoGoExcludesPower
  <2>2. \A q \in Procs : pc[q] # "write_nogo"
    BY NoneAssumption DEF Write, IInv, NoGoInv, LockInv, Holding
  <2> QED BY <1>3, <2>1, <2>2 DEF IInv, TypeOK, NoGoInv, NoGoExcludesPower, Write
<1>8. CASE r.stage = "screen"
  <2>1. \A q \in Procs : ~(pc'[q] = "write" /\ pending'[q].stage = "screen")
    BY <1>8 DEF IInv, TypeOK, LockInv, Holding, Write
  <2>2. ScreenInv'
    BY <2>1 DEF ScreenInv
  <2>3. NextGeneration(r.phase, r.gen)
    BY <1>8 DEF Write, IInv, ScreenInv
  <2>4. OneScreenPerAttempt'
    BY <1>1, <1>8, <2>3, ScreensKept DEF IInv
  <2> QED BY <1>4, <1>5, <1>6, <1>7, <2>2, <2>4 DEF IInv
<1>9. CASE r.stage # "screen"
  <2>1. At("screen")' = At("screen") /\ \A i \in At("screen") : ledger'[i] = ledger[i]
    BY <1>1, <1>9, AppendOther DEF IInv
  <2>2. \A x, y : NextGeneration(x, y) => NextGeneration(x, y)'
    BY <2>1 DEF NextGeneration, ScreensOf
  <2>3. ScreenInv'
    <3> SUFFICES ASSUME NEW q \in Procs, pc'[q] = "write", pending'[q].stage = "screen"
                 PROVE  NextGeneration(pending[q].phase, pending[q].gen)'
      BY DEF ScreenInv
    <3>1. q # p /\ pc[q] = "write" /\ pending[q] = pending'[q]
      BY <1>9 DEF IInv, TypeOK, Write
    <3> QED BY <2>2, <3>1 DEF IInv, ScreenInv
  <2>4. OneScreenPerAttempt'
    BY <2>1 DEF IInv, OneScreenPerAttempt, InAttempt
  <2> QED BY <1>4, <1>5, <1>6, <1>7, <2>3, <2>4 DEF IInv
<1> QED BY <1>8, <1>9

(* A step that leaves the ledger and moves one process out of its work     *)
(* keeps the invariant: the lock, the marker and the no-go steps.          *)
LEMMA ReleasePreserves ==
    ASSUME IInv, NEW p \in Procs, UNCHANGED ledger, TypeOK',
           \A q \in Procs \ {p} : pc'[q] = pc[q] /\ pending'[q] = pending[q],
           pc'[p] \in {"idle", "screen", "nogo", "write_nogo", "raised"},
           pc'[p] \in {"screen", "nogo", "write_nogo"} => lock' = p,
           lock' = lock \/ lock \in {p, None},
           nogo' = "whole" => nogo = "whole" \/ pc[p] = "write_nogo",
           pc'[p] = "write_nogo" => ledger = <<>>
    PROVE  IInv'
<1>1. \A q \in Procs \ {p} : Holding(q)' <=> Holding(q)
  BY DEF Holding
<1>2. LockInv'
  <2>1. \A q \in Procs \ {p} : Holding(q) => lock = q /\ lock' = q
    BY NoneAssumption DEF IInv, LockInv
  <2>2. Holding(p)' => lock' = p
    BY DEF Holding
  <2> QED BY <1>1, <2>1, <2>2 DEF LockInv
<1>3. WorkInv'
  BY DEF IInv, WorkInv
<1>4. NoGoInv'
  <2>1. nogo' = "whole" => ledger = <<>>
    BY DEF IInv, NoGoInv, NoGoExcludesPower
  <2>2. ASSUME NEW q \in Procs, pc'[q] = "write", pending'[q].stage = "screen"
        PROVE  nogo' # "whole"
    <3>1. q # p /\ pc[q] = "write" /\ pending[q].stage = "screen"
      BY <2>2
    <3>2. nogo # "whole" /\ lock = q
      BY <3>1 DEF IInv, NoGoInv, LockInv, Holding
    <3>3. pc[p] # "write_nogo"
      BY <3>1, <3>2 DEF IInv, LockInv, Holding
    <3> QED BY <3>2, <3>3
  <2>3. ASSUME NEW q \in Procs, pc'[q] = "write", pending'[q].stage # "screen"
        PROVE  ledger # <<>>
    BY <2>3 DEF IInv, NoGoInv
  <2>4. \A q \in Procs : pc'[q] = "write_nogo" => ledger = <<>>
    BY DEF IInv, NoGoInv
  <2> QED BY <2>1, <2>2, <2>3, <2>4 DEF NoGoInv, NoGoExcludesPower
<1>5. ScreenInv'
  <2>1. \A x, y : NextGeneration(x, y) => NextGeneration(x, y)'
    BY DEF NextGeneration, ScreensOf, At, Refs
  <2> SUFFICES ASSUME NEW q \in Procs, pc'[q] = "write", pending'[q].stage = "screen"
               PROVE  NextGeneration(pending[q].phase, pending[q].gen)'
    BY DEF ScreenInv
  <2>2. q # p /\ pc[q] = "write" /\ pending[q] = pending'[q]
    OBVIOUS
  <2> QED BY <2>1, <2>2 DEF IInv, ScreenInv
<1>6. OneScreenPerAttempt'
  BY DEF IInv, OneScreenPerAttempt, InAttempt, At, Refs
<1> QED BY <1>2, <1>3, <1>4, <1>5, <1>6 DEF IInv

(* Every step keeps the invariant.                                         *)
LEMMA NextPreserves == IInv /\ [Next]_vars => IInv'
<1> SUFFICES ASSUME IInv, [Next]_vars PROVE IInv'
  OBVIOUS
<1> USE DEF Labels
<1>1. CASE UNCHANGED vars
  <2>1. TypeOK' /\ LockInv' /\ WorkInv' /\ NoGoInv'
    BY <1>1 DEF IInv, vars, TypeOK, Refs, LockInv, Holding, WorkInv, NoGoInv, NoGoExcludesPower
  <2>2. ScreenInv' /\ OneScreenPerAttempt'
    BY <1>1 DEF IInv, vars, ScreenInv, NextGeneration, ScreensOf, At, Refs,
                OneScreenPerAttempt, InAttempt
  <2> QED BY <2>1, <2>2 DEF IInv
<1>2. ASSUME NEW p \in Procs, NEW label \in {"screen", "nogo"}, Lock(p, label)
      PROVE  IInv'
  <2>1. TypeOK'
    BY <1>2 DEF IInv, TypeOK, Lock, Refs
  <2> QED BY <1>2, <2>1, ReleasePreserves DEF Lock, IInv, TypeOK
<1>3. ASSUME NEW p \in Procs, NEW t \in Attempts, FinalizeFailed(p, t)
      PROVE  IInv'
  <2>1. TypeOK'
    BY <1>3 DEF IInv, TypeOK, FinalizeFailed, Refs
  <2> QED BY <1>3, <2>1, ReleasePreserves DEF FinalizeFailed, IInv, TypeOK
<1>4. ASSUME NEW p \in Procs, Mark(p)
      PROVE  IInv'
  <2>1. TypeOK'
    BY <1>4 DEF IInv, TypeOK, Mark, Unlocked, Refs
  <2> QED BY <1>4, <2>1, ReleasePreserves DEF Mark, Unlocked, IInv, TypeOK
<1>5. ASSUME NEW p \in Procs, CreateNoGo(p)
      PROVE  IInv'
  <2>1. TypeOK'
    BY <1>5 DEF IInv, TypeOK, CreateNoGo, Refs
  <2>2. lock = p
    BY <1>5 DEF CreateNoGo, IInv, LockInv, Holding
  <2> QED BY <1>5, <2>1, <2>2, ReleasePreserves DEF CreateNoGo, IInv, TypeOK
<1>6. ASSUME NEW p \in Procs, WriteNoGo(p)
      PROVE  IInv'
  <2>1. TypeOK'
    BY <1>6 DEF IInv, TypeOK, WriteNoGo, Unlocked, Refs
  <2> QED BY <1>6, <2>1, ReleasePreserves DEF WriteNoGo, Unlocked, IInv, TypeOK
<1>7. ASSUME NEW p \in Procs, Abandon(p)
      PROVE  IInv'
  <2>1. nogo' \in {"none", "torn", "whole"} /\ (nogo' = "whole" => nogo = "whole")
    BY <1>7 DEF IInv, TypeOK, Abandon
  <2>2. TypeOK'
    BY <1>7, <2>1 DEF IInv, TypeOK, Abandon, Unlocked, Refs
  <2> QED BY <1>7, <2>1, <2>2, ReleasePreserves DEF Abandon, Unlocked, IInv, TypeOK
<1> QED
  BY <1>1, <1>2, <1>3, <1>4, <1>5, <1>6, <1>7, ScreenPreserves, ShardPreserves,
     OnShardsPreserves, WritePreserves DEF Next

(* The inductive invariant holds in every reachable state.                 *)
THEOREM Invariant == Spec => []IInv
BY InitInv, NextPreserves, PTL DEF Spec

(* The ledger, its markers and the pending reports keep their types.       *)
THEOREM TypeCorrect == Spec => []TypeOK
BY Invariant, PTL DEF IInv

(* Screens are unique per phase and generation and leave no gap, for any   *)
(* number of processes that race, crash and retry.                         *)
THEOREM ScreensAreUnique == Spec => []OneScreenPerAttempt
BY Invariant, PTL DEF IInv

(* A whole timing no-go and a power report never share a run root.         *)
THEOREM NoGoIsExclusive == Spec => []NoGoExcludesPower
BY Invariant, PTL DEF IInv, NoGoInv

-----------------------------------------------------------------------------
(* What the reports stand on.                                              *)

(* The parents of r are reports of the ledger, among them an admitted      *)
(* screen of its attempt with one shard for each index.                    *)
Stands(r) ==
    /\ Range(r.parents) \subseteq Refs
    /\ \E s \in Range(r.parents) \cap markers :
          /\ r.phase = ledger[s].phase /\ r.gen = ledger[s].gen
          /\ \A j \in Range(r.parents) \cap At("shard") : ledger[j].parents = <<s>>
          /\ \A index \in 0 .. ledger[s].count - 1 :
                \E j \in Range(r.parents) \cap At("shard") : ledger[j].shard = index
          /\ Cardinality(Range(r.parents) \cap At("shard")) = ledger[s].count

Judged == {"selection", "validation"}

(* What each report guarantees from its check on.                          *)
Sound(r) ==
    /\ r.gen <= MaxGen
    /\ r.stage = "screen" => r.parents \in Triggers
    /\ r.stage \in Judged => Stands(r)

(* Every report of the ledger, and every one about to be written, is sound.*)
SoundInv ==
    /\ \A i \in Refs : Sound(ledger[i])
    /\ \A p \in Procs : pc[p] = "write" => Sound(pending[p])

(* What a final report knows of the ledger it closes: it lists every       *)
(* attempt of a valid ledger, and selects a complete screen and a terminal *)
(* validation.                                                             *)
ClosesLedger(r) ==
    /\ r.parents = AllAttempts /\ TopologyValid /\ TransitionsValid
    /\ \E s \in At("screen"), v \in At("validation") : \E shards \in ShardTuples(s) :
          /\ CompleteShards(s, shards) /\ TerminalValidation(v)
          /\ s \in Range(r.chain) /\ v \in Range(r.chain) /\ Range(shards) \subseteq Range(r.chain)

(* A single command finds the ledger as it left it: what it is about to    *)
(* write was checked against this very ledger.                             *)
OpenInv ==
    Alone => \A p \in Procs : pc[p] = "write" =>
        At("final") = {} /\ (pending[p].stage = "final" => ClosesLedger(pending[p]))

CloseInv == SoundInv /\ OpenInv /\ FinalStands

(* The marker set and the positions only grow.                             *)
LEMMA SoundGrows ==
    ASSUME TypeOK, TypeOK', Refs \subseteq Refs', \A i \in Refs : ledger'[i] = ledger[i],
           markers \subseteq markers', NEW r \in Report, Sound(r)
    PROVE  Sound(r)'
<1>1. \A stage : At(stage) \subseteq At(stage)'
  BY DEF At
<1>2. r.stage = "screen" => r.parents \in Triggers'
  BY <1>1 DEF Sound, Triggers
<1>3. ASSUME Stands(r) PROVE Stands(r)'
  <2> DEFINE shards == Range(r.parents) \cap At("shard")
  <2>1. Range(r.parents) \cap At("shard")' = shards
    BY <1>3 DEF Stands, At
  <2>2. shards \subseteq Refs /\ Range(r.parents) \subseteq Refs
    BY <1>3 DEF Stands, At
  <2>3. PICK s \in Range(r.parents) \cap markers :
          /\ r.phase = ledger[s].phase /\ r.gen = ledger[s].gen
          /\ \A j \in shards : ledger[j].parents = <<s>>
          /\ \A index \in 0 .. ledger[s].count - 1 : \E j \in shards : ledger[j].shard = index
          /\ Cardinality(shards) = ledger[s].count
    BY <1>3 DEF Stands
  <2> HIDE DEF shards
  <2>4. s \in Range(r.parents) \cap markers' /\ ledger'[s] = ledger[s]
    BY <2>2, <2>3
  <2>5. \A j \in shards : ledger'[j] = ledger[j]
    BY <2>2
  <2>6. \A index \in 0 .. ledger'[s].count - 1 : \E j \in shards : ledger'[j].shard = index
    BY <2>3, <2>4, <2>5
  <2>7. /\ r.phase = ledger'[s].phase /\ r.gen = ledger'[s].gen
        /\ \A j \in shards : ledger'[j].parents = <<s>>
        /\ Cardinality(shards) = ledger'[s].count
    BY <2>3, <2>4, <2>5
  <2>8. /\ s \in Range(r.parents) \cap markers' /\ Range(r.parents) \subseteq Refs'
        /\ Range(r.parents) \cap At("shard")' = shards
    BY <2>1, <2>2, <2>4
  <2> QED
    BY <2>6, <2>7, <2>8 DEF Stands
<1> QED
  BY <1>2, <1>3 DEF Sound

(* A complete tuple of shards has one for each index.                      *)
LEMMA ShardsCounted ==
    ASSUME TypeOK, NEW s \in At("screen"), NEW shards \in ShardTuples(s), CompleteShards(s, shards)
    PROVE  /\ Range(shards) \subseteq At("shard")
           /\ \A j \in Range(shards) : ledger[j].parents = <<s>>
           /\ \A index \in 0 .. ledger[s].count - 1 : \E j \in Range(shards) : ledger[j].shard = index
           /\ Cardinality(Range(shards)) = ledger[s].count
<1>1. ledger[s].count \in Nat
  BY LedgerFacts DEF At, Report
<1> DEFINE n == ledger[s].count
<1>2. /\ shards \in [1 .. n -> At("shard")]
      /\ \A k \in 1 .. n : ledger[shards[k]].shard = k - 1 /\ ledger[shards[k]].parents = <<s>>
  BY DEF ShardTuples, CompleteShards
<1> HIDE DEF n
<1>3. Range(shards) = {shards[k] : k \in 1 .. n}
  BY <1>2 DEF Range
<1>4. \A index \in 0 .. n - 1 : \E j \in Range(shards) : ledger[j].shard = index
  <2> TAKE index \in 0 .. n - 1
  <2>1. index + 1 \in 1 .. n /\ (index + 1) - 1 = index
    BY <1>1 DEF n
  <2> QED
    BY <1>2, <1>3, <2>1
<1>5. \A k, m \in 1 .. n : shards[k] = shards[m] => k = m
  <2> TAKE k, m \in 1 .. n
  <2>1. shards[k] = shards[m] => k - 1 = m - 1
    BY <1>2
  <2> QED
    BY <1>1, <2>1 DEF n
<1>6. shards \in Bijection(1 .. n, Range(shards))
  BY <1>2, <1>3, <1>5 DEF Bijection, Injection, Surjection, IsInjective
<1>7. Cardinality(Range(shards)) = n
  BY <1>1, <1>6, FS_CountingElements DEF ExistsBijection, n
<1>8. Range(shards) \subseteq At("shard") /\ \A j \in Range(shards) : ledger[j].parents = <<s>>
  BY <1>2, <1>3
<1> QED
  BY <1>4, <1>7, <1>8 DEF n

(* A report over the complete shards of its own screen stands on them.     *)
LEMMA StandsOnShards ==
    ASSUME TypeOK, NEW s \in At("screen"), NEW shards \in ShardTuples(s), CompleteShards(s, shards),
           NEW r, NEW others, others \subseteq Refs \ At("shard"),
           Range(r.parents) = others \cup {s} \cup Range(shards),
           r.phase = ledger[s].phase, r.gen = ledger[s].gen
    PROVE  Stands(r)
<1>1. At("shard") \subseteq Refs /\ s \in Refs /\ s \notin At("shard") /\ s \in markers
  BY DEF At, CompleteShards
<1>2. Range(r.parents) \subseteq Refs /\ Range(r.parents) \cap At("shard") = Range(shards)
  BY <1>1, ShardsCounted
<1> QED
  BY <1>1, <1>2, ShardsCounted DEF Stands

(* What a concatenation is made of.                                        *)
LEMMA RangeOf ==
    ASSUME NEW a \in Seq(Nat), NEW b \in Seq(Nat)
    PROVE  a \o b \in Seq(Nat) /\ Range(a \o b) = Range(a) \cup Range(b)
BY RangeConcatenation, ConcatProperties

LEMMA RangeOfOne == \A x \in Nat : <<x>> \in Seq(Nat) /\ Range(<<x>>) = {x}
BY DEF Range

LEMMA RangeOfTwo == \A x, y \in Nat : <<x, y>> \in Seq(Nat) /\ Range(<<x, y>>) = {x, y}
BY DEF Range

(* A command has checked what it is about to write.                        *)
LEMMA WorkSound ==
    ASSUME IInv, IInv', SoundInv, NEW p \in Procs, NEW r \in Report, Sound(r), Work(p, r)
    PROVE  SoundInv'
<1>1. UNCHANGED <<ledger, markers>> /\ pending' = [pending EXCEPT ![p] = r]
      /\ pc' = [pc EXCEPT ![p] = "write"] /\ Refs' = Refs
  BY DEF Work, Refs
<1>2. \A x \in Report : Sound(x) => Sound(x)'
  BY <1>1, SoundGrows DEF IInv
<1>3. \A i \in Refs : Sound(ledger[i])'
  <2> TAKE i \in Refs
  <2>1. ledger[i] \in Report /\ Sound(ledger[i])
    BY LedgerFacts DEF IInv, SoundInv
  <2>2. PICK x \in Report : x = ledger[i] /\ x = ledger'[i]
    BY <1>1, <2>1
  <2> QED
    BY <1>2, <2>1, <2>2
<1>4. ASSUME NEW q \in Procs, pc'[q] = "write" PROVE Sound(pending[q])'
  <2>1. PICK x \in Report : x = pending'[q] /\ Sound(x)
    <3>1. CASE q = p
      BY <1>1, <3>1 DEF IInv, TypeOK
    <3>2. CASE q # p
      BY <1>1, <1>4, <3>2 DEF IInv, TypeOK, WorkInv, SoundInv
    <3> QED
      BY <3>1, <3>2
  <2> QED
    BY <1>2, <2>1
<1> QED
  BY <1>1, <1>3, <1>4 DEF SoundInv

(* Nothing new is about to be written, and the ledger stays.               *)
LEMMA IdleSound ==
    ASSUME IInv, IInv', SoundInv, UNCHANGED ledger, markers \subseteq markers',
           \A q \in Procs : pc'[q] = "write" => pc[q] = "write" /\ pending'[q] = pending[q]
    PROVE  SoundInv'
<1>1. Refs' = Refs
  BY DEF Refs
<1>2. \A x \in Report : Sound(x) => Sound(x)'
  BY <1>1, SoundGrows DEF IInv
<1>3. \A i \in Refs : Sound(ledger[i])'
  <2> TAKE i \in Refs
  <2>1. ledger[i] \in Report /\ Sound(ledger[i])
    BY LedgerFacts DEF IInv, SoundInv
  <2>2. PICK x \in Report : x = ledger[i] /\ x = ledger'[i]
    BY <2>1
  <2> QED
    BY <1>2, <2>1, <2>2
<1>4. ASSUME NEW q \in Procs, pc'[q] = "write" PROVE Sound(pending[q])'
  <2>1. PICK x \in Report : x = pending'[q] /\ Sound(x)
    BY <1>4 DEF IInv, WorkInv, SoundInv
  <2> QED
    BY <1>2, <2>1
<1> QED
  BY <1>1, <1>3, <1>4 DEF SoundInv

(* What an appended report leaves.                                         *)
LEMMA Appended ==
    ASSUME TypeOK, NEW r \in Report, ledger' = Append(ledger, r)
    PROVE  /\ Len(ledger) \in Nat /\ Refs = 1 .. Len(ledger)
           /\ Len(ledger') = Len(ledger) + 1 /\ Len(ledger') \notin Refs
           /\ Refs' = Refs \cup {Len(ledger')} /\ Refs \subseteq Refs'
           /\ \A i \in Refs : ledger'[i] = ledger[i]
           /\ ledger'[Len(ledger')] = r
BY LedgerFacts, AppendProperties DEF TypeOK, Refs

(* write_record puts a sound report into the ledger.                       *)
LEMMA WriteSound ==
    ASSUME IInv, IInv', SoundInv, NEW p \in Procs, Write(p)
    PROVE  SoundInv'
<1>1. PICK r \in Report : r = pending[p] /\ Sound(r)
  BY DEF IInv, WorkInv, SoundInv, Write
<1>2. ledger' = Append(ledger, r) /\ markers' = markers /\ pc[p] = "write"
  BY <1>1 DEF Write
<1>3. \A x \in Report : Sound(x) => Sound(x)'
  BY <1>1, <1>2, Appended, SoundGrows DEF IInv
<1>4. \A i \in Refs' : Sound(ledger[i])'
  <2> TAKE i \in Refs'
  <2>1. PICK x \in Report : x = ledger'[i] /\ Sound(x)
    <3>1. CASE i \in Refs
      BY <1>1, <1>2, <3>1, Appended, LedgerFacts DEF IInv, SoundInv
    <3>2. CASE i = Len(ledger')
      BY <1>1, <1>2, <3>2, Appended DEF IInv
    <3> QED
      BY <1>1, <1>2, <3>1, <3>2, Appended DEF IInv
  <2> QED
    BY <1>3, <2>1
<1>5. ASSUME NEW q \in Procs, pc'[q] = "write" PROVE Sound(pending[q])'
  <2>1. q # p /\ pc[q] = "write" /\ pending'[q] = pending[q]
    BY <1>5 DEF IInv, TypeOK, Write
  <2>2. PICK x \in Report : x = pending'[q] /\ Sound(x)
    BY <2>1 DEF IInv, WorkInv, SoundInv
  <2> QED
    BY <1>3, <2>2
<1> QED
  BY <1>4, <1>5 DEF SoundInv

-----------------------------------------------------------------------------
(* What the commands check.                                                *)

(* The report a command is about to write is sound, and the ledger is open.*)
Checked(p) ==
    \E r \in Report : /\ Work(p, r) /\ Sound(r) /\ At("final") = {}
                      /\ r.stage = "final" => ClosesLedger(r)

(* A screen of the ledger and its shards.                                  *)
LEMMA ScreenFacts ==
    ASSUME IInv, SoundInv, NEW s \in At("screen")
    PROVE  /\ s \in Refs /\ s \in Nat /\ ledger[s] \in Report /\ ledger[s].stage = "screen"
           /\ ledger[s].phase \in Phases /\ ledger[s].gen \in Nat /\ ledger[s].count \in Nat
           /\ ledger[s].parents \in Seq(Nat) /\ ledger[s].gen <= MaxGen
           /\ ledger[s].parents \in Triggers
           /\ <<s>> \in Seq(Nat) /\ Range(<<s>>) = {s}
           /\ \A shards \in ShardTuples(s) :
                 shards \in Seq(Nat) /\ Range(<<s>> \o shards) = {s} \cup Range(shards)
                 /\ <<s>> \o shards \in Seq(Nat)
<1>1. s \in Refs /\ s \in Nat /\ ledger[s] \in Report /\ ledger[s].stage = "screen"
  BY LedgerFacts DEF IInv, At
<1>2. ledger[s].gen <= MaxGen /\ ledger[s].parents \in Triggers
  BY <1>1 DEF SoundInv, Sound
<1>3. /\ ledger[s].phase \in Phases /\ ledger[s].gen \in Nat /\ ledger[s].count \in Nat
      /\ ledger[s].parents \in Seq(Nat)
  BY <1>1 DEF Report
<1>4. <<s>> \in Seq(Nat) /\ Range(<<s>>) = {s}
  BY <1>1, RangeOfOne
<1>5. ASSUME NEW shards \in ShardTuples(s)
      PROVE  shards \in Seq(Nat) /\ Range(<<s>> \o shards) = {s} \cup Range(shards)
             /\ <<s>> \o shards \in Seq(Nat)
  BY <1>4, TupleType, RangeOf DEF IInv
<1> QED
  BY <1>1, <1>2, <1>3, <1>4, <1>5

LEMMA ScreenChecked ==
    ASSUME IInv, SoundInv, NEW p \in Procs, NEW phase \in Phases, NEW gen \in 0 .. MaxGen,
           NEW n \in ShardCounts, NEW t \in Triggers, Screen(p, phase, gen, n, t)
    PROVE  Checked(p)
<1> DEFINE r == Draft("screen", [phase |-> phase, gen |-> gen, count |-> n], 0, t)
<1>1. t \in Seq(Nat)
  <2>1. \A i \in At("validation") : i \in Nat
    BY LedgerFacts DEF IInv, At
  <2> QED
    BY <2>1, EmptySeq, RangeOfOne DEF Triggers
<1>2. gen \in Nat /\ n \in Nat /\ gen <= MaxGen
  BY BoundsAssumption
<1>3. r \in Report
  BY <1>1, <1>2, DraftType DEF Stages
<1>4. r.stage = "screen" /\ r.gen = gen /\ r.parents = t
  BY DEF Draft
<1>5. Work(p, r) /\ At("final") = {}
  BY DEF Screen, WriteOpen
<1> HIDE DEF r
<1> QED
  BY <1>2, <1>3, <1>4, <1>5 DEF Checked, Sound, Judged

LEMMA ShardChecked ==
    ASSUME IInv, SoundInv, NEW p \in Procs, NEW s \in At("screen"),
           NEW index \in 0 .. ledger[s].count - 1, Shard(p, s, index)
    PROVE  Checked(p)
<1> DEFINE r == Draft("shard", ledger[s], index, <<s>>)
<1>1. index \in Nat
  BY ScreenFacts
<1>2. r \in Report
  BY <1>1, ScreenFacts, DraftType DEF Stages
<1>3. r.stage = "shard" /\ r.gen = ledger[s].gen
  BY DEF Draft
<1>4. Work(p, r) /\ At("final") = {}
  BY DEF Shard, WriteOpen
<1> HIDE DEF r
<1> QED
  BY <1>2, <1>3, <1>4, ScreenFacts DEF Checked, Sound, Judged

(* A judgement over the complete shards of its screen.                     *)
LEMMA JudgedChecked ==
    ASSUME IInv, SoundInv, NEW p \in Procs, NEW s \in At("screen"), NEW shards \in ShardTuples(s),
           CompleteShards(s, shards), NEW r \in Report, r.stage \in Judged,
           r.phase = ledger[s].phase, r.gen = ledger[s].gen,
           NEW others, others \subseteq Refs \ At("shard"),
           Range(r.parents) = others \cup {s} \cup Range(shards),
           Work(p, r), At("final") = {}
    PROVE  Checked(p)
<1>1. Stands(r)
  BY StandsOnShards DEF IInv
<1>2. Sound(r)
  BY <1>1, ScreenFacts DEF Sound, Judged
<1> QED
  BY <1>2 DEF Checked, Judged

LEMMA SelectChecked ==
    ASSUME IInv, SoundInv, NEW p \in Procs, NEW s \in At("screen"), NEW shards \in ShardTuples(s),
           Select(p, s, shards)
    PROVE  Checked(p)
<1> DEFINE r == Draft("selection", ledger[s], 0, <<s>> \o shards)
<1>1. r \in Report
  BY ScreenFacts, DraftType DEF Stages
<1>2. r.stage = "selection" /\ r.phase = ledger[s].phase /\ r.gen = ledger[s].gen
      /\ r.parents = <<s>> \o shards
  BY DEF Draft
<1>3. Work(p, r) /\ At("final") = {} /\ CompleteShards(s, shards)
  BY DEF Select, WriteOpen
<1> HIDE DEF r
<1>4. Range(r.parents) = {} \cup {s} \cup Range(shards)
  BY <1>2, ScreenFacts
<1> QED
  BY <1>1, <1>2, <1>3, <1>4, JudgedChecked DEF Judged

LEMMA ValidateChecked ==
    ASSUME IInv, SoundInv, NEW p \in Procs, NEW s \in At("screen"), NEW shards \in ShardTuples(s),
           NEW j \in At("selection"), NEW passed \in BOOLEAN, Validate(p, s, shards, j, passed)
    PROVE  Checked(p)
<1> DEFINE parents == <<s>> \o shards \o <<j>>
           d == Draft("validation", ledger[s], 0, parents)
           r == [d EXCEPT !.passed = passed]
<1>1. j \in Refs /\ j \in Nat /\ j \notin At("shard")
  BY LedgerFacts DEF IInv, At
<1>2. parents \in Seq(Nat) /\ Range(parents) = {j} \cup {s} \cup Range(shards)
  <2>1. PICK head \in Seq(Nat) : head = <<s>> \o shards /\ Range(head) = {s} \cup Range(shards)
    BY ScreenFacts
  <2>2. <<j>> \in Seq(Nat) /\ Range(<<j>>) = {j}
    BY <1>1, RangeOfOne
  <2>3. parents = head \o <<j>>
    BY <2>1
  <2> HIDE DEF parents
  <2>4. head \o <<j>> \in Seq(Nat) /\ Range(head \o <<j>>) = Range(head) \cup Range(<<j>>)
    BY <2>2, RangeOf
  <2> QED
    BY <2>1, <2>2, <2>3, <2>4
<1>3. d \in Report
  BY <1>2, ScreenFacts, DraftType DEF Stages
<1>4. d.stage = "validation" /\ d.phase = ledger[s].phase /\ d.gen = ledger[s].gen
      /\ d.parents = parents
  BY DEF Draft
<1>5. Work(p, r) /\ At("final") = {} /\ CompleteShards(s, shards)
  BY DEF Validate, WriteOpen
<1> HIDE DEF d
<1>6. r \in Report /\ r.stage = d.stage /\ r.phase = d.phase /\ r.gen = d.gen /\ r.parents = d.parents
  BY <1>3 DEF Report
<1> HIDE DEF r, parents
<1>7. {j} \subseteq Refs \ At("shard") /\ Range(r.parents) = {j} \cup {s} \cup Range(shards)
      /\ r.stage \in Judged /\ r.phase = ledger[s].phase /\ r.gen = ledger[s].gen
  BY <1>1, <1>2, <1>4, <1>6 DEF Judged
<1> QED
  BY <1>5, <1>6, <1>7, JudgedChecked

LEMMA ValidateFallbackChecked ==
    ASSUME IInv, SoundInv, NEW p \in Procs, NEW s \in At("screen"), NEW shards \in ShardTuples(s),
           ValidateFallback(p, s, shards)
    PROVE  Checked(p)
<1> DEFINE trigger == ledger[s].parents
           r == Draft("validation", ledger[s], 0, trigger \o <<s>> \o shards)
<1>1. trigger \in Seq(Nat) /\ Range(trigger) \subseteq Refs \ At("shard")
  <2>1. trigger \in Seq(Nat) /\ trigger \in Triggers
    BY ScreenFacts
  <2>2. \A i \in At("validation") : Range(<<i>>) \subseteq Refs \ At("shard")
    BY LedgerFacts, RangeOfOne DEF IInv, At
  <2>3. Range(<<>>) = {}
    BY DEF Range
  <2> QED
    BY <2>1, <2>2, <2>3 DEF Triggers
<1> HIDE DEF trigger
<1>2. /\ trigger \o <<s>> \o shards \in Seq(Nat)
      /\ Range(trigger \o <<s>> \o shards) = Range(trigger) \cup {s} \cup Range(shards)
  <2>1. trigger \o <<s>> \in Seq(Nat) /\ Range(trigger \o <<s>>) = Range(trigger) \cup {s}
    BY <1>1, ScreenFacts, RangeOf
  <2> DEFINE front == trigger \o <<s>>
  <2>2. front \in Seq(Nat) /\ Range(front) = Range(trigger) \cup {s} /\ shards \in Seq(Nat)
    BY <2>1, ScreenFacts
  <2> HIDE DEF front
  <2>3. front \o shards \in Seq(Nat) /\ Range(front \o shards) = Range(front) \cup Range(shards)
    BY <2>2, RangeOf
  <2> QED
    BY <2>2, <2>3 DEF front
<1>3. r \in Report
  BY <1>2, ScreenFacts, DraftType DEF Stages
<1>4. r.stage = "validation" /\ r.phase = ledger[s].phase /\ r.gen = ledger[s].gen
      /\ r.parents = trigger \o <<s>> \o shards
  BY DEF Draft
<1>5. Work(p, r) /\ At("final") = {} /\ CompleteShards(s, shards)
  BY DEF ValidateFallback, WriteOpen, trigger
<1> HIDE DEF r
<1> QED
  BY <1>1, <1>2, <1>3, <1>4, <1>5, JudgedChecked DEF Judged

(* The report of a finalizer.                                              *)
LEMMA FinalType ==
    ASSUME IInv, SoundInv, NEW s \in At("screen"), NEW chain \in Seq(Nat),
           NEW r, r = Final(s, chain) \/ r = [Final(s, chain) EXCEPT !.phase = Gaussian]
    PROVE  /\ r \in Report /\ r.stage = "final" /\ r.gen = ledger[s].gen
           /\ r.parents = AllAttempts /\ r.chain = chain
<1> DEFINE d == Draft("final", ledger[s], 0, AllAttempts)
<1>1. AllAttempts \in Seq(Nat)
  BY LedgerFacts DEF AllAttempts, IInv
<1>2. d \in Report
  BY <1>1, ScreenFacts, DraftType DEF Stages
<1>3. d.stage = "final" /\ d.gen = ledger[s].gen /\ d.parents = AllAttempts
  BY DEF Draft
<1>4. Final(s, chain) = [d EXCEPT !.chain = chain]
  BY DEF Final
<1> HIDE DEF d
<1>5. PICK f : f = Final(s, chain)
  OBVIOUS
<1>6. f \in Report /\ f.stage = "final" /\ f.gen = ledger[s].gen /\ f.parents = AllAttempts
      /\ f.chain = chain
  BY <1>2, <1>3, <1>4, <1>5 DEF Report
<1>7. CASE r = f
  BY <1>6, <1>7
<1>8. CASE r = [f EXCEPT !.phase = Gaussian]
  BY <1>6, <1>8 DEF Report, Phases
<1> QED
  BY <1>5, <1>7, <1>8

(* A final over a complete screen and a terminal validation.               *)
LEMMA FinalChecked ==
    ASSUME IInv, SoundInv, NEW p \in Procs, NEW s \in At("screen"), NEW shards \in ShardTuples(s),
           CompleteShards(s, shards), Finalizable, NEW v \in At("validation"), TerminalValidation(v),
           NEW r \in Report, r.stage = "final", r.gen = ledger[s].gen, r.parents = AllAttempts,
           s \in Range(r.chain), v \in Range(r.chain), Range(shards) \subseteq Range(r.chain),
           Work(p, r)
    PROVE  Checked(p)
<1>1. Sound(r)
  BY ScreenFacts DEF Sound, Judged
<1>2. ClosesLedger(r)
  BY DEF ClosesLedger, Finalizable
<1> QED
  BY <1>1, <1>2 DEF Checked, Finalizable

LEMMA FinalizeGaussianChecked ==
    ASSUME IInv, SoundInv, NEW p \in Procs, NEW s \in At("screen"), NEW shards \in ShardTuples(s),
           NEW j \in At("selection"), NEW v \in At("validation"), FinalizeGaussian(p, s, shards, j, v)
    PROVE  Checked(p)
<1> DEFINE head == <<s>> \o shards
           tail == <<j, v>>
           chain == head \o tail
           r == [Final(s, chain) EXCEPT !.phase = Gaussian]
<1>1. head \in Seq(Nat) /\ Range(head) = {s} \cup Range(shards)
  BY ScreenFacts
<1>2. tail \in Seq(Nat) /\ Range(tail) = {j, v}
  BY LedgerFacts, RangeOfTwo DEF IInv, At
<1>3. CompleteShards(s, shards) /\ Finalizable /\ Work(p, r)
  BY DEF FinalizeGaussian
<1>4. TerminalValidation(v)
  BY DEF FinalizeGaussian, TerminalValidation, GaussianValidations, At
<1> HIDE DEF head, tail
<1>5. chain \in Seq(Nat) /\ Range(chain) = {s} \cup Range(shards) \cup {j, v}
  BY <1>1, <1>2, RangeOf
<1> HIDE DEF chain
<1>6. /\ r \in Report /\ r.stage = "final" /\ r.gen = ledger[s].gen
      /\ r.parents = AllAttempts /\ r.chain = chain
  BY <1>5, FinalType
<1> HIDE DEF r
<1> QED
  BY <1>3, <1>4, <1>5, <1>6, FinalChecked

LEMMA FinalizeFallbackChecked ==
    ASSUME IInv, SoundInv, NEW p \in Procs, NEW s \in At("screen"), NEW shards \in ShardTuples(s),
           NEW v \in At("validation"), FinalizeFallback(p, s, shards, v)
    PROVE  Checked(p)
<1> DEFINE head == <<s>> \o shards
           tail == <<v>>
           chain == head \o tail
           r == Final(s, chain)
<1>1. head \in Seq(Nat) /\ Range(head) = {s} \cup Range(shards)
  BY ScreenFacts
<1>2. tail \in Seq(Nat) /\ Range(tail) = {v}
  BY LedgerFacts, RangeOfOne DEF IInv, At
<1>3. CompleteShards(s, shards) /\ Finalizable /\ Work(p, r)
  BY DEF FinalizeFallback
<1>4. TerminalValidation(v)
  BY DEF FinalizeFallback, TerminalValidation, At
<1> HIDE DEF head, tail
<1>5. chain \in Seq(Nat) /\ Range(chain) = {s} \cup Range(shards) \cup {v}
  BY <1>1, <1>2, RangeOf
<1> HIDE DEF chain
<1>6. /\ r \in Report /\ r.stage = "final" /\ r.gen = ledger[s].gen
      /\ r.parents = AllAttempts /\ r.chain = chain
  BY <1>5, FinalType
<1> HIDE DEF r
<1> QED
  BY <1>3, <1>4, <1>5, <1>6, FinalChecked

-----------------------------------------------------------------------------
(* The chains are whole.                                                   *)

(* A step that writes nothing and leaves what others are about to write.   *)
Passive ==
    /\ UNCHANGED ledger /\ markers \subseteq markers'
    /\ \A q \in Procs : pc'[q] = "write" => pc[q] = "write" /\ pending'[q] = pending[q]

(* What a step can be; a command that is never given stays so.             *)
LEMMA StepKinds ==
    ASSUME IInv, SoundInv, [Next]_vars
    PROVE  /\ Passive \/ \E p \in Procs : Checked(p) \/ Write(p)
           /\ \A q \in Procs : pc'[q] = "absent" => pc[q] = "absent"
<1> USE DEF IInv, TypeOK
<1>1. CASE UNCHANGED vars
  BY <1>1 DEF vars, Passive
<1>2. ASSUME NEW p \in Procs, Checked(p)
      PROVE  \A q \in Procs : pc'[q] = "absent" => pc[q] = "absent"
  BY <1>2 DEF Checked, Work
<1>3. ASSUME NEW p \in Procs, Write(p)
      PROVE  \A q \in Procs : pc'[q] = "absent" => pc[q] = "absent"
  BY <1>3 DEF Write
<1>4. ASSUME NEW p \in Procs, NEW label \in {"screen", "nogo"}, Lock(p, label)
      PROVE  Passive /\ \A q \in Procs : pc'[q] = "absent" => pc[q] = "absent"
  BY <1>4 DEF Lock, Passive
<1>5. ASSUME NEW p \in Procs, NEW t \in Attempts, FinalizeFailed(p, t)
      PROVE  Passive /\ \A q \in Procs : pc'[q] = "absent" => pc[q] = "absent"
  BY <1>5 DEF FinalizeFailed, Passive
<1>6. ASSUME NEW p \in Procs, Mark(p) \/ CreateNoGo(p) \/ WriteNoGo(p) \/ Abandon(p)
      PROVE  Passive /\ \A q \in Procs : pc'[q] = "absent" => pc[q] = "absent"
  BY <1>6 DEF Mark, CreateNoGo, WriteNoGo, Abandon, Passive
<1>7. ASSUME NEW p \in Procs, NEW s \in At("screen"), NEW shards \in ShardTuples(s), OnShards(p, s, shards)
      PROVE  Checked(p)
  BY <1>7, SelectChecked, ValidateChecked, ValidateFallbackChecked, FinalizeGaussianChecked,
     FinalizeFallbackChecked DEF OnShards
<1>8. ASSUME NEW p \in Procs, NEW phase \in Phases, NEW gen \in 0 .. MaxGen, NEW n \in ShardCounts,
             NEW t \in Triggers, Screen(p, phase, gen, n, t)
      PROVE  Checked(p)
  BY <1>8, ScreenChecked
<1>9. ASSUME NEW p \in Procs, NEW s \in At("screen"), NEW index \in 0 .. ledger[s].count - 1,
             Shard(p, s, index)
      PROVE  Checked(p)
  BY <1>9, ShardChecked
<1> HIDE DEF IInv, TypeOK
<1>10. CASE Next
  BY <1>2, <1>3, <1>4, <1>5, <1>6, <1>7, <1>8, <1>9, <1>10 DEF Next
<1> QED
  BY <1>1, <1>10

LEMMA SoundNext == ASSUME IInv, IInv', SoundInv, [Next]_vars PROVE SoundInv'
<1>1. CASE Passive
  BY <1>1, IdleSound DEF Passive
<1>2. ASSUME NEW p \in Procs, Checked(p) PROVE SoundInv'
  BY <1>2, WorkSound DEF Checked
<1>3. ASSUME NEW p \in Procs, Write(p) PROVE SoundInv'
  BY <1>3, WriteSound
<1> QED
  BY <1>1, <1>2, <1>3, StepKinds

LEMMA SoundInit == Init => SoundInv
BY DEF Init, SoundInv, Refs

(* Every report that is written, or about to be, was checked against       *)
(* reports that are on the ledger and do not change any more.              *)
THEOREM SoundReports == Spec => []SoundInv
<1>1. IInv /\ IInv' /\ SoundInv /\ [Next]_vars => SoundInv'
  BY SoundNext
<1> QED
  BY <1>1, SoundInit, Invariant, PTL DEF Spec

(* Every selection and validation of the ledger stands on exactly one      *)
(* shard per index of one screen that was admitted by its timing, however  *)
(* many commands add shards and attempts meanwhile (_complete_shards).     *)
THEOREM ChainsAreWhole == Spec => []WholeChains
<1>1. TypeOK /\ SoundInv => WholeChains
  <2> SUFFICES ASSUME TypeOK, SoundInv, NEW i \in At("selection") \cup At("validation")
               PROVE  LET parents == {ledger[i].parents[k] : k \in DOMAIN ledger[i].parents}
                          shards == parents \cap At("shard")
                      IN  \E s \in parents \cap markers :
                            /\ ledger[i].phase = ledger[s].phase /\ ledger[i].gen = ledger[s].gen
                            /\ \A j \in shards : ledger[j].parents = <<s>>
                            /\ \A index \in 0 .. ledger[s].count - 1 :
                                  \E j \in shards : ledger[j].shard = index
                            /\ Cardinality(shards) = ledger[s].count
    BY DEF WholeChains
  <2>1. Stands(ledger[i])
    BY DEF SoundInv, Sound, Judged, At
  <2>2. Range(ledger[i].parents) = {ledger[i].parents[k] : k \in DOMAIN ledger[i].parents}
    BY DEF Range
  <2> QED
    BY <2>1, <2>2 DEF Stands
<1> QED
  BY <1>1, SoundReports, TypeCorrect, PTL

-----------------------------------------------------------------------------
(* A final closes the ledger.                                              *)

(* What an appended final changes: nothing the attempts are judged by.     *)
LEMMA FinalAppended ==
    ASSUME TypeOK, NEW r \in Report, r.stage = "final", ledger' = Append(ledger, r)
    PROVE  /\ Len(ledger') \in Refs' /\ Len(ledger') \notin Refs
           /\ At("final")' = At("final") \cup {Len(ledger')} /\ ledger'[Len(ledger')] = r
           /\ Attempts' = Attempts
           /\ \A i \in Refs : ledger'[i] = ledger[i]
           /\ \A stage \in Stages \ {"final"} : At(stage)' = At(stage)
           /\ \A stage \in Stages \ {"final"} :
                 \A phase, gen : InAttempt(stage, phase, gen)' = InAttempt(stage, phase, gen)
<1>1. /\ Refs' = Refs \cup {Len(ledger')} /\ Len(ledger') \notin Refs
      /\ \A i \in Refs : ledger'[i] = ledger[i]
      /\ ledger'[Len(ledger')] = r
  BY Appended
<1>2. \A stage \in Stages \ {"final"} : At(stage)' = At(stage)
  BY <1>1 DEF At
<1>3. \A stage \in Stages \ {"final"} :
          \A phase, gen : InAttempt(stage, phase, gen)' = InAttempt(stage, phase, gen)
  <2> TAKE stage \in Stages \ {"final"}
  <2> TAKE phase, gen
  <2>1. At(stage)' = At(stage) /\ At(stage) \subseteq Refs
    BY <1>2 DEF At
  <2> QED
    BY <1>1, <2>1 DEF InAttempt
<1>4. At("final")' = At("final") \cup {Len(ledger')} /\ Attempts' = Attempts
  BY <1>1 DEF At, Attempts
<1> QED
  BY <1>1, <1>2, <1>3, <1>4

(* So the validators judge the attempts of the closed ledger as they did   *)
(* before.                                                                 *)
LEMMA SameAttempts ==
    ASSUME Attempts' = Attempts, \A i \in Refs : ledger'[i] = ledger[i],
           \A stage \in Stages \ {"final"} : At(stage)' = At(stage),
           \A stage \in Stages \ {"final"} :
               \A phase, gen : InAttempt(stage, phase, gen)' = InAttempt(stage, phase, gen),
           TopologyValid, TransitionsValid
    PROVE  TopologyValid' /\ TransitionsValid'
<1>1. /\ Attempts' = Attempts /\ Attempts \subseteq Refs
      /\ \A i \in Refs : ledger'[i] = ledger[i]
      /\ At("screen")' = At("screen") /\ At("shard")' = At("shard")
      /\ At("selection")' = At("selection") /\ At("validation")' = At("validation")
      /\ \A stage \in {"screen", "shard", "selection", "validation"} :
            At(stage) \subseteq Refs
            /\ \A phase, gen : InAttempt(stage, phase, gen)' = InAttempt(stage, phase, gen)
                               /\ InAttempt(stage, phase, gen) \subseteq Refs
  <2>1. Attempts \subseteq Refs
    BY DEF Attempts
  <2>2. \A stage : At(stage) \subseteq Refs /\ \A phase, gen : InAttempt(stage, phase, gen) \subseteq Refs
    BY DEF At, InAttempt
  <2>3. {"screen", "shard", "selection", "validation"} = Stages \ {"final"}
    BY DEF Stages
  <2> QED
    BY <2>1, <2>2, <2>3
<1>2. TransitionsValid'
  <2> SUFFICES ASSUME NEW v \in At("validation"), NEW i \in Attempts, Later(i, v)'
               PROVE  (~TerminalValidation(v) /\ ledger[i].phase = Fallback)'
    BY <1>1 DEF TransitionsValid
  <2>1. v \in Refs /\ i \in Refs /\ ledger'[v] = ledger[v] /\ ledger'[i] = ledger[i]
    BY <1>1
  <2>2. Later(i, v)
    BY <2>1 DEF Later
  <2>3. ~TerminalValidation(v) /\ ledger[i].phase = Fallback
    BY <2>2 DEF TransitionsValid
  <2> QED
    BY <2>1, <2>3 DEF TerminalValidation
<1>3. GaussianValidations' = GaussianValidations /\ GaussianValidations \subseteq Refs
  BY <1>1 DEF GaussianValidations
<1>4. \A t : CurrentFailure(t)' <=> CurrentFailure(t)
  BY <1>1, <1>3 DEF CurrentFailure
<1>5. ASSUME NEW phase \in Phases, NEW gen \in 0 .. MaxGen PROVE AttemptValid(phase, gen)'
  <2>1. PICK screens \in SUBSET Refs, shards \in SUBSET Refs, selections \in SUBSET Refs,
             validations \in SUBSET Refs :
          /\ screens = InAttempt("screen", phase, gen) /\ screens = InAttempt("screen", phase, gen)'
          /\ shards = InAttempt("shard", phase, gen) /\ shards = InAttempt("shard", phase, gen)'
          /\ selections = InAttempt("selection", phase, gen)
          /\ selections = InAttempt("selection", phase, gen)'
          /\ validations = InAttempt("validation", phase, gen)
          /\ validations = InAttempt("validation", phase, gen)'
    BY <1>1
  <2>2. AttemptValid(phase, gen)
    BY DEF TopologyValid
  <2>3. ASSUME NEW s \in screens, FallbackTriggered(s) PROVE FallbackTriggered(s)'
    <3>1. ledger'[s] = ledger[s]
      BY <1>1
    <3> QED
      BY <1>4, <2>3, <3>1 DEF FallbackTriggered
  <2>4. ASSUME NEW s \in screens, ShardPrefix(s, shards) PROVE ShardPrefix(s, shards)'
    <3>1. ledger'[s] = ledger[s] /\ \A i \in shards : ledger'[i] = ledger[i]
      BY <1>1
    <3>2. {ledger'[i].shard : i \in shards} = {ledger[i].shard : i \in shards}
      BY <3>1
    <3> QED
      BY <2>4, <3>1, <3>2 DEF ShardPrefix
  <2>5. ASSUME NEW s \in screens, Downstream(s, shards, selections, validations)
        PROVE  Downstream(s, shards, selections, validations)'
    <3>1. /\ ledger'[s] = ledger[s] /\ \A i \in shards : ledger'[i] = ledger[i]
          /\ \A i \in selections : ledger'[i] = ledger[i]
          /\ \A i \in validations : ledger'[i] = ledger[i]
      BY <1>1
    <3> DEFINE before(k) == CHOOSE i \in shards : ledger[i].shard = k - 1
               after(k) == CHOOSE i \in shards : ledger'[i].shard = k - 1
    <3>2. \A k : before(k) = after(k)
      <4> TAKE k
      <4>1. \A i : (i \in shards /\ ledger[i].shard = k - 1) <=> (i \in shards /\ ledger'[i].shard = k - 1)
        BY <3>1
      <4> QED
        BY <4>1, Zenon
    <3> HIDE DEF before, after
    <3>3. [k \in 1 .. Cardinality(shards) |-> after(k)] = [k \in 1 .. Cardinality(shards) |-> before(k)]
      BY <3>2
    <3> USE DEF before, after
    <3>4. PICK order : order = [k \in 1 .. Cardinality(shards) |->
                                  CHOOSE i \in shards : ledger[i].shard = k - 1]
      OBVIOUS
    <3>5. PICK whole : whole = <<s>> \o order
      OBVIOUS
    <3>6. /\ Cardinality(shards) = ledger[s].count
          /\ IF ledger[s].phase = Gaussian
             THEN /\ validations # {} => selections # {}
                  /\ \A i \in selections : ledger[i].parents = whole
                  /\ \A i \in validations, j \in selections : ledger[i].parents = whole \o <<j>>
             ELSE /\ selections = {}
                  /\ \A i \in validations :
                         /\ ledger[i].parents = ledger[s].parents \o whole
                         /\ CurrentFailure(ledger[i].parents[1])
      BY <2>5, <3>4, <3>5 DEF Downstream
    <3>7. /\ Cardinality(shards) = ledger'[s].count
          /\ IF ledger'[s].phase = Gaussian
             THEN /\ validations # {} => selections # {}
                  /\ \A i \in selections : ledger'[i].parents = whole
                  /\ \A i \in validations, j \in selections : ledger'[i].parents = whole \o <<j>>
             ELSE /\ selections = {}
                  /\ \A i \in validations :
                         /\ ledger'[i].parents = ledger'[s].parents \o whole
                         /\ \A t \in {ledger'[i].parents[1]} : CurrentFailure(t)'
      BY <1>4, <3>1, <3>6
    <3>8. whole = <<s>> \o [k \in 1 .. Cardinality(shards) |->
                              CHOOSE i \in shards : ledger'[i].shard = k - 1]
      BY <3>3, <3>4, <3>5
    <3> QED
      BY <3>7, <3>8 DEF Downstream
  <2>6. CASE screens \cup shards \cup selections \cup validations = {}
    BY <2>1, <2>6 DEF AttemptValid
  <2>7. CASE screens \cup shards \cup selections \cup validations # {}
    <3>1. /\ Cardinality(screens) = 1
          /\ Cardinality(selections) <= 1 /\ Cardinality(validations) <= 1
          /\ \A s \in screens :
                /\ phase = Fallback => FallbackTriggered(s)
                /\ phase = Gaussian => ledger[s].parents = <<>>
                /\ ShardPrefix(s, shards)
                /\ selections \cup validations # {} => Downstream(s, shards, selections, validations)
      BY <2>1, <2>2, <2>7 DEF AttemptValid
    <3>2. \A s \in screens :
                /\ phase = Fallback => FallbackTriggered(s)'
                /\ phase = Gaussian => ledger'[s].parents = <<>>
                /\ ShardPrefix(s, shards)'
                /\ selections \cup validations # {} => Downstream(s, shards, selections, validations)'
      BY <1>1, <2>3, <2>4, <2>5, <3>1
    <3> QED
      BY <2>1, <3>1, <3>2 DEF AttemptValid
  <2> QED
    BY <2>6, <2>7
<1> QED
  BY <1>2, <1>5 DEF TopologyValid

LEMMA FinalKeepsTopology ==
    ASSUME TypeOK, NEW r \in Report, r.stage = "final", ledger' = Append(ledger, r),
           TopologyValid, TransitionsValid
    PROVE  TopologyValid' /\ TransitionsValid'
BY FinalAppended, SameAttempts

LEMMA SameLedger ==
    ASSUME UNCHANGED ledger
    PROVE  /\ UNCHANGED <<Refs, Attempts, AllAttempts>>
           /\ \A stage : At(stage)' = At(stage)
           /\ \A stage, phase, gen : InAttempt(stage, phase, gen)' = InAttempt(stage, phase, gen)
           /\ TopologyValid /\ TransitionsValid => TopologyValid' /\ TransitionsValid'
<1>1. UNCHANGED <<Refs, Attempts, AllAttempts>> /\ \A stage : At(stage)' = At(stage)
  BY DEF Refs, Attempts, AllAttempts, At
<1>2. \A stage, phase, gen : InAttempt(stage, phase, gen)' = InAttempt(stage, phase, gen)
  BY <1>1 DEF InAttempt
<1> QED
  BY <1>1, <1>2, SameAttempts

(* The attempts of a ledger are in it, and generations are comparable.     *)
LEMMA AttemptFacts ==
    ASSUME TypeOK, NEW i \in Refs
    PROVE  ledger[i].phase \in Phases /\ ledger[i].gen \in Nat
BY LedgerFacts DEF Report

(* A final whose reports are of one attempt selects all its shards: there  *)
(* is one per index, and the selection has one per index.                  *)
LEMMA AllShardsSelected ==
    ASSUME TypeOK, SoundInv, TopologyValid, NEW s \in At("screen"), NEW shards \in ShardTuples(s),
           CompleteShards(s, shards),
           \A j \in Range(shards) : ledger[j].phase = ledger[s].phase /\ ledger[j].gen = ledger[s].gen
    PROVE  InAttempt("shard", ledger[s].phase, ledger[s].gen) \subseteq Range(shards)
<1> DEFINE own == InAttempt("shard", ledger[s].phase, ledger[s].gen)
           n == ledger[s].count
<1>1. s \in Refs /\ ledger[s].phase \in Phases /\ ledger[s].gen \in Nat /\ n \in Nat
  BY LedgerFacts DEF At, Report
<1>2. ledger[s].gen \in 0 .. MaxGen
  BY <1>1, BoundsAssumption DEF SoundInv, Sound
<1>3. s \in InAttempt("screen", ledger[s].phase, ledger[s].gen)
  BY DEF InAttempt
<1>4. ShardPrefix(s, own)
  BY <1>1, <1>2, <1>3 DEF TopologyValid, AttemptValid
<1>5. own \subseteq Refs /\ IsFiniteSet(own)
  <2>1. own \subseteq Refs
    BY DEF InAttempt, At
  <2>2. IsFiniteSet(Refs)
    BY LedgerFacts, FS_Interval
  <2> QED
    BY <2>1, <2>2, FS_Subset
<1>6. Cardinality(own) \in Nat
  BY <1>5, FS_CardinalityType
<1> DEFINE m == Cardinality(own)
           Index == [i \in own |-> ledger[i].shard]
<1>7. {ledger[i].shard : i \in own} = 0 .. m - 1 /\ m <= n
  BY <1>4 DEF ShardPrefix
<1>8. \A j \in Range(shards) : j \in own
  BY ShardsCounted DEF InAttempt
<1> HIDE DEF own, n
<1>9. Index \in Surjection(own, 0 .. m - 1)
  BY <1>7 DEF Surjection
<1>10. Cardinality(0 .. m - 1) = m
  BY <1>6, FS_Interval
<1>11. Index \in Injection(own, 0 .. m - 1)
  BY <1>5, <1>9, <1>10, FS_SurjSameCardinalityImpliesInj
<1>12. \A i, j \in own : ledger[i].shard = ledger[j].shard => i = j
  BY <1>11 DEF Injection, IsInjective
<1>13. ASSUME NEW i \in own PROVE i \in Range(shards)
  <2>1. ledger[i].shard \in 0 .. n - 1
    BY <1>1, <1>6, <1>7 DEF n
  <2>2. PICK j \in Range(shards) : ledger[j].shard = ledger[i].shard
    BY <2>1, ShardsCounted DEF n
  <2> QED
    BY <1>8, <1>12, <1>13, <2>2
<1> QED
  BY <1>13 DEF own

(* The closing final stands up to its validator.                           *)
LEMMA ClosedValid ==
    ASSUME TypeOK, SoundInv, At("final") = {}, Authority = "synthetic_validation",
           NEW r \in Report, r.stage = "final", ledger' = Append(ledger, r), ClosesLedger(r)
    PROVE  \A f \in At("final")' : /\ f = Len(ledger)' /\ At("final")' = {f} /\ ParentsAll(f)'
                                   /\ Matched(f)' => FinalValid(f)'
<1>1. PICK new :
        /\ new = Len(ledger') /\ new \notin Refs /\ At("final")' = {new} /\ ledger'[new] = r
        /\ Attempts' = Attempts /\ \A i \in Refs : ledger'[i] = ledger[i]
        /\ \A phase, gen : InAttempt("shard", phase, gen)' = InAttempt("shard", phase, gen)
  BY FinalAppended DEF Stages
<1>2. Attempts = Refs
  BY DEF Attempts, At
<1>3. ParentsAll(new)'
  <2>1. {r.parents[k] : k \in DOMAIN r.parents} = Refs
    BY DEF ClosesLedger, AllAttempts
  <2> QED
    BY <1>1, <1>2, <2>1 DEF ParentsAll
<1>4. TopologyValid' /\ TransitionsValid' /\ TopologyValid /\ TransitionsValid
  BY FinalKeepsTopology DEF ClosesLedger
<1>5. ASSUME Matched(new)' PROVE SelectsTerminal(new)'
  <2>1. PICK s \in At("screen"), v \in At("validation") : \E shards \in ShardTuples(s) :
          /\ CompleteShards(s, shards) /\ TerminalValidation(v)
          /\ s \in Range(r.chain) /\ v \in Range(r.chain) /\ Range(shards) \subseteq Range(r.chain)
    BY DEF ClosesLedger
  <2>2. PICK shards \in ShardTuples(s) :
          /\ CompleteShards(s, shards) /\ TerminalValidation(v)
          /\ s \in Range(r.chain) /\ v \in Range(r.chain) /\ Range(shards) \subseteq Range(r.chain)
    BY <2>1
  <2>3. \A i \in Range(r.chain) : ledger'[i].phase = r.phase /\ ledger'[i].gen = r.gen
    <3>1. ledger'[new] = r
      BY <1>1
    <3>2. \A k \in DOMAIN r.chain :
              ledger'[r.chain[k]].phase = r.phase /\ ledger'[r.chain[k]].gen = r.gen
      BY <3>1, <1>5 DEF Matched
    <3> QED
      BY <3>2 DEF Range
  <2>4. s \in Refs /\ v \in Refs /\ Range(shards) \subseteq Refs
    BY <2>2, ShardsCounted DEF At
  <2>5. /\ ledger[s].phase = r.phase /\ ledger[s].gen = r.gen
        /\ ledger[v].phase = r.phase /\ ledger[v].gen = r.gen
        /\ \A j \in Range(shards) : ledger[j].phase = r.phase /\ ledger[j].gen = r.gen
    BY <1>1, <2>2, <2>3, <2>4
  <2>6. InAttempt("shard", r.phase, r.gen) \subseteq Range(r.chain)
    BY <1>4, <2>2, <2>5, AllShardsSelected
  <2>7. \A i \in Refs : ~Later(i, new)'
    <3> SUFFICES ASSUME NEW i \in Refs, Later(i, new)' PROVE FALSE
      OBVIOUS
    <3>1. ledger'[i] = ledger[i]
      BY <1>1
    <3>2. Later(i, v)
      BY <1>1, <2>5, <3>1 DEF Later
    <3> QED
      BY <1>2, <1>4, <2>2, <3>2 DEF TransitionsValid
  <2>8. ASSUME NEW i \in Refs, Later(new, i)' PROVE ~TerminalValidation(i)'
    <3>1. ledger'[i] = ledger[i]
      BY <1>1
    <3>2. Later(v, i)
      BY <1>1, <2>5, <2>8, <3>1 DEF Later
    <3>3. TerminalValidation(i)' => TerminalValidation(i) /\ i \in At("validation")
      BY <3>1 DEF TerminalValidation, At
    <3> QED
      BY <1>2, <1>4, <2>4, <3>2, <3>3 DEF TransitionsValid
  <2>9. {r.chain[k] : k \in DOMAIN r.chain} = Range(r.chain)
    BY DEF Range
  <2>10. \A i \in Range(r.chain) :
            ledger'[i].phase = ledger'[new].phase /\ ledger'[i].gen = ledger'[new].gen
    BY <1>1, <2>3
  <2>11. \A i \in At("shard")' :
            ledger'[i].phase = ledger'[new].phase /\ ledger'[i].gen = ledger'[new].gen => i \in Range(r.chain)
    <3> SUFFICES ASSUME NEW i \in At("shard")', ledger'[i].phase = r.phase, ledger'[i].gen = r.gen
                 PROVE  i \in Range(r.chain)
      BY <1>1
    <3>1. i \in InAttempt("shard", r.phase, r.gen)'
      BY DEF InAttempt
    <3> QED
      BY <1>1, <2>6, <3>1
  <2>12. \A i \in Attempts' : ~Later(i, new)' /\ (Later(new, i)' => ~TerminalValidation(i)')
    BY <1>1, <1>2, <2>7, <2>8
  <2>13. {ledger'[new].chain[k] : k \in DOMAIN ledger'[new].chain} = Range(r.chain)
    BY <1>1, <2>9
  <2> QED
    BY <2>10, <2>11, <2>12, <2>13 DEF SelectsTerminal, InAttempt
<1>6. VerdictAccepted(new)'
  BY DEF VerdictAccepted, TierDecision
<1>7. Matched(new)' => FinalValid(new)'
  BY <1>1, <1>3, <1>4, <1>5, <1>6 DEF FinalValid
<1>8. new = Len(ledger)' /\ At("final")' = {new} /\ ParentsAll(new)'
  BY <1>1, <1>3
<1> QED
  BY <1>7, <1>8

(* What is checked by the only command is still so when it writes.         *)
LEMMA OpenNext ==
    ASSUME IInv, SoundInv, OpenInv, FinalStands, Authority = "synthetic_validation", [Next]_vars
    PROVE  (OpenInv /\ FinalStands)'
<1> SUFFICES ASSUME Alone' PROVE (OpenInv /\ FinalStands)'
  BY DEF OpenInv, FinalStands, FinalCloses, MatchedFinalValid
<1>1. PICK p \in Procs : \A q \in Procs \ {p} : pc'[q] = "absent"
  BY DEF Alone
<1>2. \A q \in Procs \ {p} : pc[q] = "absent"
  BY <1>1, StepKinds
<1>3. Alone
  BY <1>2 DEF Alone
<1>4. OpenInv' <=> (pc'[p] = "write" => At("final")' = {} /\ (pending'[p].stage = "final" => ClosesLedger(pending[p])'))
  BY <1>1 DEF OpenInv
<1>5. ASSUME UNCHANGED ledger PROVE FinalStands'
  <2>1. UNCHANGED <<Refs, At("final"), Attempts>>
    BY <1>5 DEF Refs, At, Attempts
  <2>2. FinalCloses'
    BY <1>3, <1>5, <2>1 DEF FinalStands, FinalCloses, ParentsAll
  <2>3. MatchedFinalValid'
    <3> SUFFICES ASSUME NEW f \in At("final"), Matched(f)' PROVE FinalValid(f)'
      BY <1>5, SameLedger DEF MatchedFinalValid
    <3>1. FinalValid(f)
      BY <1>3, <1>5 DEF FinalStands, MatchedFinalValid, Matched
    <3>2. TopologyValid' /\ TransitionsValid' /\ At("final")' = {f}
      BY <1>5, <3>1, SameLedger DEF FinalValid
    <3>3. ParentsAll(f)' /\ VerdictAccepted(f)'
      BY <1>5, <2>1, <3>1 DEF FinalValid, ParentsAll, VerdictAccepted, TierDecision
    <3>4. SelectsTerminal(f)'
      BY <1>5, <2>1, <3>1, SameLedger DEF FinalValid, SelectsTerminal, Later, TerminalValidation
    <3> QED
      BY <3>2, <3>3, <3>4 DEF FinalValid
  <2> QED
    BY <2>2, <2>3 DEF FinalStands
<1>6. ASSUME UNCHANGED ledger, markers \subseteq markers', NEW r, ClosesLedger(r) PROVE ClosesLedger(r)'
  <2>1. r.parents = AllAttempts' /\ TopologyValid' /\ TransitionsValid'
    BY <1>6, SameLedger DEF ClosesLedger
  <2>2. PICK s \in At("screen"), v \in At("validation") : \E shards \in ShardTuples(s) :
          /\ CompleteShards(s, shards) /\ TerminalValidation(v)
          /\ s \in Range(r.chain) /\ v \in Range(r.chain) /\ Range(shards) \subseteq Range(r.chain)
    BY <1>6 DEF ClosesLedger
  <2>3. PICK shards \in ShardTuples(s) :
          /\ CompleteShards(s, shards) /\ TerminalValidation(v)
          /\ s \in Range(r.chain) /\ v \in Range(r.chain) /\ Range(shards) \subseteq Range(r.chain)
    BY <2>2
  <2>4. /\ shards \in ShardTuples(s)' /\ CompleteShards(s, shards)' /\ TerminalValidation(v)'
        /\ s \in At("screen")' /\ v \in At("validation")'
    BY <1>6, <2>3, SameLedger DEF ShardTuples, CompleteShards, TerminalValidation
  <2> QED
    BY <2>1, <2>3, <2>4 DEF ClosesLedger
<1>7. CASE Passive
  <2>1. ASSUME pc'[p] = "write" PROVE At("final")' = {} /\ (pending'[p].stage = "final" => ClosesLedger(pending[p])')
    <3>1. pc[p] = "write" /\ pending'[p] = pending[p]
      BY <1>7, <2>1 DEF Passive
    <3>2. At("final") = {} /\ (pending[p].stage = "final" => ClosesLedger(pending[p]))
      BY <1>3, <3>1 DEF OpenInv
    <3>3. PICK r : r = pending[p] /\ r = pending'[p]
      BY <3>1
    <3>4. ClosesLedger(r) => ClosesLedger(r)'
      BY <1>6, <1>7 DEF Passive
    <3> QED
      BY <1>7, <3>2, <3>3, <3>4, SameLedger DEF Passive
  <2> QED
    BY <1>4, <1>5, <1>7, <2>1 DEF Passive
<1>8. ASSUME NEW q \in Procs, Checked(q) PROVE (OpenInv /\ FinalStands)'
  <2>1. PICK r \in Report : /\ Work(q, r) /\ At("final") = {}
                            /\ r.stage = "final" => ClosesLedger(r)
    BY <1>8 DEF Checked
  <2>2. UNCHANGED <<ledger, markers>> /\ pc'[q] = "write" /\ pending'[q] = r
    BY <2>1 DEF Work, IInv, TypeOK
  <2>3. q = p
    BY <1>1, <2>2
  <2>4. r.stage = "final" => ClosesLedger(r)'
    BY <1>6, <2>1, <2>2
  <2> QED
    BY <1>4, <1>5, <2>1, <2>2, <2>3, <2>4, SameLedger
<1>9. ASSUME NEW q \in Procs, Write(q) PROVE (OpenInv /\ FinalStands)'
  <2>1. pc[q] = "write" /\ pc'[q] \in {"mark", "idle"}
    BY <1>9 DEF Write, IInv, TypeOK
  <2>2. q = p
    BY <1>2, <2>1
  <2>3. PICK r \in Report : r = pending[p]
    BY <2>1, <2>2 DEF IInv, WorkInv
  <2>4. ledger' = Append(ledger, r) /\ At("final") = {} /\ (r.stage = "final" => ClosesLedger(r))
    BY <1>3, <1>9, <2>1, <2>2, <2>3 DEF Write, OpenInv
  <2>5. CASE r.stage = "final"
    <3>1. \A f \in At("final")' : /\ f = Len(ledger)' /\ At("final")' = {f} /\ ParentsAll(f)'
                                  /\ Matched(f)' => FinalValid(f)'
      BY <2>4, <2>5, ClosedValid DEF IInv
    <3> QED
      BY <1>4, <2>1, <2>2, <3>1 DEF FinalStands, FinalCloses, MatchedFinalValid
  <2>6. CASE r.stage # "final"
    <3>1. At("final")' = {}
      BY <2>4, <2>6, Appended DEF IInv, At
    <3> QED
      BY <1>4, <2>1, <2>2, <3>1 DEF FinalStands, FinalCloses, MatchedFinalValid
  <2> QED
    BY <2>5, <2>6
<1> QED
  BY <1>7, <1>8, <1>9, StepKinds

(* Given one command at a time, a final is the last report of its          *)
(* authority and lists the whole ledger, and one that selects the reports  *)
(* of a single attempt passes the independent validator. The authority is  *)
(* the synthetic one: the validator refuses every final of the other       *)
(* (power.py:1810 against artifacts.py:4078).                              *)
THEOREM FinalsStand ==
    ASSUME Authority = "synthetic_validation"
    PROVE  Spec => []FinalStands
<1>1. Init => OpenInv /\ FinalStands
  BY DEF Init, OpenInv, FinalStands, FinalCloses, MatchedFinalValid, At, Refs
<1>2. IInv /\ SoundInv /\ OpenInv /\ FinalStands /\ [Next]_vars => (OpenInv /\ FinalStands)'
  BY OpenNext
<1> QED
  BY <1>1, <1>2, Invariant, SoundReports, PTL DEF Spec
=============================================================================
