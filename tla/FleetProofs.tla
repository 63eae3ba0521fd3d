----------------------------- MODULE FleetProofs -----------------------------
(***************************************************************************)
(* Proofs about the two controllers of child processes: the fleet of a     *)
(* prefix's workers (EnvironmentFleet) for any number of workers, and the  *)
(* pool of test workers (TestPool) for any manifest and any number of      *)
(* requests.                                                               *)
(*                                                                         *)
(* The fleet: while it serves, at most one question is in the pipes, it is *)
(* the one the controller waits for, and nothing has been reaped or        *)
(* removed; once anything failed the controller never serves again, and    *)
(* each worker is still to be cleaned up, is being cleaned up, or is       *)
(* accounted for.                                                          *)
(***************************************************************************)
EXTENDS EnvironmentFleet, TestPool, FiniteSetTheorems, TLAPS

\* The steps before anything failed or was closed.
Serving == {"root", "popen", "start", "answer", "serve"}

\* The steps that clean up worker cur.
Cleaning == {"leave", "pipes", "poll", "wait", "wait again", "keep", "clear"}

\* Exactly the first k workers have a process.
FirstSpawned(k) == \A i \in Workers : proc[i] # "none" <=> i <= k

\* The workers start in order: the first two are spawned together and asked
\* one after the other, each further one is spawned and asked alone.
OrderInv ==
  /\ pc \in {"root", "popen"} =>
       /\ FirstSpawned(cur - 1)
       /\ started = IF cur <= 2 THEN {} ELSE 1 .. (cur - 1)
  /\ pc = "start" \/ (pc = "answer" /\ cur \notin started) =>
       /\ cur <= 2 => FirstSpawned(2)
       /\ cur > 2 => FirstSpawned(cur)
       /\ started = 1 .. (cur - 1)
  /\ pc = "serve" \/ (pc = "answer" /\ cur \in started) =>
       \E k \in 2 .. N : FirstSpawned(k) /\ started = 1 .. k

\* While the fleet serves nothing was reaped or removed, and a root belongs
\* to a process or to the one about to be spawned.
RootInv ==
  pc \in Serving =>
    /\ cleared = {}
    /\ reaped = {}
    /\ \A i \in Workers :
          root[i] # "none" => proc[i] # "none" \/ (pc = "popen" /\ cur = i)

\* While the fleet serves the pipes hold nothing but the question the
\* controller waits for, or its answer.
PipeInv ==
  /\ pc \in Serving =>
       \A i \in Workers :
          pc # "answer" \/ i # cur => asked[i] = <<>> /\ said[i] = <<>>
  /\ pc = "answer" =>
       \/ asked[cur] = <<Question>> /\ said[cur] = <<>>
       \/ asked[cur] = <<>> /\ said[cur] = <<Question>>

\* Worker i is still to be cleaned up, or is being cleaned up.
Pending(i) ==
  \/ \E k \in 1 .. Len(todo) : todo[k] = i
  \/ pc \in Cleaning /\ cur = i

\* Nothing of worker i is left that the error does not name.
Accounted(i) ==
  root[i] \in {"mine", "moved"} \/ (proc[i] # "none" /\ i \notin reaped) => i \in errors

\* What holds of the end of the fleet.
EndInv ==
  /\ \A i \in reaped \cup cleared : ~Running(i)
  /\ pc \notin Serving => \A i \in Workers : Pending(i) \/ Accounted(i)
  /\ pc = "keep" => cur \in errors
  /\ pc = "clear" => proc[cur] = "none" \/ cur \in reaped
  /\ pc = "closed" => todo = <<>>

IInv ==
  /\ TypeOK
  /\ OrderInv
  /\ RootInv
  /\ PipeInv
  /\ EndInv
  /\ AnswersMatch

-----------------------------------------------------------------------------
\* The live worker and its restored twin are always there.
LEMMA AtLeastTwo ==
  /\ N \in Nat /\ N >= 2 /\ 2 \in 2 .. N /\ 1 \in Workers /\ 2 \in Workers
  /\ \A i : i \in Workers <=> i \in Nat /\ 1 <= i /\ i <= N
  BY NAssumption DEF Workers

\* The first k workers are k.
LEMMA CountSpawned ==
  ASSUME NEW k \in 0 .. N, FirstSpawned(k)
  PROVE  Cardinality({i \in Workers : proc[i] # "none"}) = k
  <1>1. {i \in Workers : proc[i] # "none"} = 1 .. k
    BY NAssumption DEF FirstSpawned, Workers
  <1>2. 1 \in Int /\ k \in Int /\ k >= 0
    BY NAssumption
  <1>3. Cardinality(1 .. k) = IF 1 > k THEN 0 ELSE k - 1 + 1
    BY <1>2, FS_Interval
  <1>4. (IF 1 > k THEN 0 ELSE k - 1 + 1) = k
    BY <1>2
  <1>5. QED
    BY <1>1, <1>3, <1>4, Zenon

\* The list of the first k workers names each of them.
LEMMA FirstOnes ==
  ASSUME NEW k \in 0 .. N
  PROVE  /\ [j \in 1 .. k |-> j] \in Seq(Workers)
         /\ Len([j \in 1 .. k |-> j]) = k
         /\ \A i \in 1 .. k : [j \in 1 .. k |-> j][i] = i
  BY NAssumption DEF Workers

\* After CloseAll every worker with a process is on the list.
LEMMA CloseAllLists ==
  ASSUME IInv, pc \in {"start", "answer", "serve"}, CloseAll
  PROVE  /\ pc' = "next"
         /\ todo' \in Seq(Workers)
         /\ \A i \in Workers : proc[i] # "none" => \E j \in 1 .. Len(todo') : todo'[j] = i
  <1>1. PICK k \in 2 .. N : FirstSpawned(k)
    <2>1. CASE pc = "serve" \/ (pc = "answer" /\ cur \in started)
      BY <2>1 DEF IInv, OrderInv
    <2>2. CASE pc = "start" \/ (pc = "answer" /\ cur \notin started)
      <3>1. cur \in 1 .. N
        BY DEF IInv, TypeOK, Workers
      <3>2. (cur <= 2 => FirstSpawned(2)) /\ (cur > 2 => FirstSpawned(cur))
        BY <2>2 DEF IInv, OrderInv
      <3>3. CASE cur <= 2
        BY <3>2, <3>3, AtLeastTwo
      <3>4. CASE cur > 2
        BY <3>1, <3>2, <3>4, AtLeastTwo
      <3>5. QED
        BY <3>1, <3>3, <3>4
    <2>3. QED
      BY <2>1, <2>2
  <1>2. Cardinality({i \in Workers : proc[i] # "none"}) = k
    BY <1>1, CountSpawned
  <1>3. todo' = [j \in 1 .. k |-> j] /\ pc' = "next"
    BY <1>2 DEF CloseAll, Goto
  <1>4. k \in 0 .. N
    BY NAssumption
  <1>5. /\ todo' \in Seq(Workers)
        /\ Len(todo') = k
        /\ \A i \in 1 .. k : todo'[i] = i
    BY <1>3, <1>4, FirstOnes
  <1>6. \A i \in Workers : proc[i] # "none" => i \in 1 .. k
    BY <1>1 DEF FirstSpawned, Workers
  <1>7. QED
    BY <1>3, <1>5, <1>6

\* After Unwind(i) every worker up to i is on the list.
LEMMA UnwindLists ==
  ASSUME NEW i \in Workers, Unwind(i)
  PROVE  /\ pc' = "next"
         /\ errors' = errors \cup {i}
         /\ todo' \in Seq(Workers)
         /\ \A h \in 1 .. i : \E j \in 1 .. Len(todo') : todo'[j] = h
  <1> DEFINE before == [k \in 1 .. (i - 1) |-> k]
  <1>1. i - 1 \in 0 .. N /\ i \in Nat
    BY NAssumption DEF Workers
  <1>2. /\ before \in Seq(Workers)
        /\ Len(before) = i - 1
        /\ \A h \in 1 .. (i - 1) : before[h] = h
    BY <1>1, FirstOnes
  <1> HIDE DEF before
  <1>3. <<i>> \in Seq(Workers) /\ Len(<<i>>) = 1 /\ <<i>>[1] = i
    OBVIOUS
  <1>4. todo' = <<i>> \o before
    BY DEF Unwind, before
  <1>5. /\ todo' \in Seq(Workers)
        /\ Len(todo') = i
        /\ todo'[1] = i
        /\ \A h \in 1 .. (i - 1) : todo'[h + 1] = before[h]
    BY <1>1, <1>2, <1>3, <1>4
  <1>6. ASSUME NEW h \in 1 .. i
        PROVE  \E j \in 1 .. Len(todo') : todo'[j] = h
    <2>1. CASE h = i
      BY <2>1, <1>1, <1>5
    <2>2. CASE h # i
      <3>1. h \in 1 .. (i - 1) /\ h + 1 \in 1 .. Len(todo')
        BY <2>2, <1>1, <1>5
      <3>2. QED
        BY <3>1, <1>2, <1>5
    <2>3. QED
      BY <2>1, <2>2
  <1>7. QED
    BY <1>5, <1>6 DEF Unwind, Fault, Goto

\* The initial state satisfies the invariant.
LEMMA InitInv == Init => IInv
  <1> SUFFICES ASSUME Init PROVE IInv
    OBVIOUS
  <1>1. TypeOK
    BY NAssumption, SuffixesAssumption, MaxOpsAssumption DEF Init, TypeOK, Workers, Questions
  <1>2. OrderInv
    BY NAssumption DEF Init, OrderInv, FirstSpawned, Workers
  <1>3. RootInv /\ PipeInv /\ EndInv /\ AnswersMatch
    BY NAssumption DEF Init, RootInv, PipeInv, EndInv, AnswersMatch, Serving, Running, Workers
  <1>4. QED
    BY <1>1, <1>2, <1>3 DEF IInv

-----------------------------------------------------------------------------
\* A step that leaves serving, or stays out of it, has only the type and the
\* end to look after.
LEMMA NotServing ==
  ASSUME pc' \notin Serving
  PROVE  OrderInv' /\ RootInv' /\ PipeInv'
  BY DEF Serving, OrderInv, RootInv, PipeInv

\* When worker i cannot be set up, everything there is is on the list.
LEMMA UnwindEnds ==
  ASSUME IInv, pc \in {"root", "popen"}, Unwind(cur),
         \A i \in Workers : root'[i] # root[i] => i = cur,
         \A i \in Workers : proc'[i] # proc[i] => i = cur,
         UNCHANGED <<cleared, reaped, cur>>
  PROVE  EndInv'
  <1>0. cur \in Workers
    BY DEF IInv, TypeOK
  <1>1. /\ pc' = "next" /\ errors' = errors \cup {cur}
        /\ \A h \in 1 .. cur : \E j \in 1 .. Len(todo') : todo'[j] = h
    BY UnwindLists DEF IInv, TypeOK
  <1>2. cleared = {} /\ reaped = {}
    BY DEF IInv, RootInv, Serving
  <1>3. ASSUME NEW i \in Workers
        PROVE  Pending(i)' \/ Accounted(i)'
    <2>1. CASE i <= cur
      BY <2>1, <1>1, <1>0, AtLeastTwo DEF Pending
    <2>2. CASE ~(i <= cur)
      <3>1. FirstSpawned(cur - 1)
        BY DEF IInv, OrderInv
      <3>2. proc[i] = "none"
        BY <2>2, <3>1, <1>0, AtLeastTwo DEF FirstSpawned
      <3>3. i # cur
        BY <2>2, <1>0, AtLeastTwo
      <3>4. root[i] = "none"
        BY <3>2, <3>3 DEF IInv, RootInv, Serving
      <3>5. proc'[i] = "none" /\ root'[i] = "none"
        BY <3>2, <3>3, <3>4
      <3>6. QED
        BY <3>5 DEF Accounted
    <2>3. QED
      BY <2>1, <2>2
  <1>4. QED
    BY <1>1, <1>2, <1>3 DEF EndInv, Serving

\* When the fleet is closed, everything there is is on the list.
LEMMA CloseAllEnds ==
  ASSUME IInv, pc \in {"answer", "serve"}, CloseAll,
         UNCHANGED <<root, proc, cleared, reaped, cur>>
  PROVE  EndInv'
  <1>1. /\ pc' = "next"
        /\ \A i \in Workers : proc[i] # "none" => \E j \in 1 .. Len(todo') : todo'[j] = i
    BY CloseAllLists
  <1>2. /\ cleared = {} /\ reaped = {}
        /\ \A i \in Workers : root[i] # "none" => proc[i] # "none"
    BY DEF IInv, RootInv, Serving
  <1>3. ASSUME NEW i \in Workers
        PROVE  Pending(i)' \/ Accounted(i)'
    <2>1. CASE proc[i] # "none"
      BY <2>1, <1>1 DEF Pending
    <2>2. CASE proc[i] = "none"
      BY <2>2, <1>2 DEF Accounted
    <2>3. QED
      BY <2>1, <2>2
  <1>4. QED
    BY <1>1, <1>2, <1>3 DEF EndInv, Serving

\* Allocating a root keeps the invariant.
LEMMA AllocateRootKeeps == IInv /\ AllocateRoot => IInv'
  <1> SUFFICES ASSUME IInv, AllocateRoot PROVE IInv'
    OBVIOUS
  <1>1. AnswersMatch'
    BY DEF IInv, AllocateRoot, AnswersMatch
  <1>2. CASE root' = [root EXCEPT ![cur] = "mine"] /\ Goto("popen") /\ UNCHANGED <<todo, errors>>
    <2>1. TypeOK'
      BY <1>2 DEF IInv, TypeOK, AllocateRoot, Goto
    <2>2. OrderInv'
      BY <1>2 DEF IInv, OrderInv, AllocateRoot, Goto, FirstSpawned
    <2>3. RootInv'
      BY <1>2 DEF IInv, TypeOK, RootInv, AllocateRoot, Goto, Serving
    <2>4. PipeInv'
      BY <1>2 DEF IInv, PipeInv, AllocateRoot, Goto, Serving
    <2>5. EndInv'
      BY <1>2 DEF IInv, EndInv, AllocateRoot, Goto, Serving, Running
    <2>6. QED
      BY <1>1, <2>1, <2>2, <2>3, <2>4, <2>5 DEF IInv
  <1>3. CASE /\ root' \in {root, [root EXCEPT ![cur] = "mine"]}
             /\ Unwind(cur)
    <2>1. /\ pc' = "next" /\ errors' = errors \cup {cur} /\ todo' \in Seq(Workers)
      BY <1>3, UnwindLists DEF IInv, TypeOK
    <2>2. TypeOK'
      BY <1>3, <2>1 DEF IInv, TypeOK, AllocateRoot
    <2>3. EndInv'
      BY <1>3, UnwindEnds DEF AllocateRoot, IInv, TypeOK
    <2>4. QED
      BY <1>1, <2>1, <2>2, <2>3, NotServing DEF IInv, Serving
  <1>4. QED
    BY <1>2, <1>3 DEF AllocateRoot

\* Starting a worker's process keeps the invariant.
LEMMA SpawnKeeps == IInv /\ Spawn => IInv'
  <1> SUFFICES ASSUME IInv, Spawn PROVE IInv'
    OBVIOUS
  <1>1. AnswersMatch'
    BY DEF IInv, Spawn, AnswersMatch
  <1>2. CASE /\ proc' = [proc EXCEPT ![cur] = "alive"] /\ open' = open \cup {cur}
             /\ cur' = IF cur <= 2 THEN 3 - cur ELSE cur
             /\ Goto(IF cur = 1 THEN "root" ELSE "start") /\ UNCHANGED <<todo, errors>>
    <2>0. cur \in Workers /\ proc \in [Workers -> {"none", "alive", "hung", "exited", "failed"}]
      BY DEF IInv, TypeOK
    <2>1. TypeOK'
      <3>1. cur' \in Workers
        BY <1>2, <2>0, AtLeastTwo DEF Workers
      <3>2. QED
        BY <1>2, <3>1 DEF IInv, TypeOK, Spawn, Goto
    <2>2. OrderInv'
      <3>1. FirstSpawned(cur - 1) /\ started = (IF cur <= 2 THEN {} ELSE 1 .. (cur - 1))
        BY DEF IInv, OrderInv, Spawn
      <3>2. \A i \in Workers : proc'[i] # "none" <=> i <= cur
        BY <1>2, <2>0, <3>1, AtLeastTwo DEF FirstSpawned
      <3>3. CASE cur = 1
        <4>1. cur' = 2 /\ pc' = "root" /\ started' = {}
          BY <1>2, <3>1, <3>3 DEF Spawn, Goto
        <4>2. FirstSpawned(cur - 1)'
          BY <4>1, <3>2, <3>3 DEF FirstSpawned
        <4>3. QED
          BY <4>1, <4>2 DEF OrderInv
      <3>4. CASE cur = 2
        <4>1. cur' = 1 /\ pc' = "start" /\ started' = 1 .. (cur' - 1)
          BY <1>2, <3>1, <3>4 DEF Spawn, Goto
        <4>2. FirstSpawned(2)'
          BY <3>2, <3>4 DEF FirstSpawned
        <4>3. QED
          BY <4>1, <4>2 DEF OrderInv
      <3>5. CASE cur > 2
        <4>1. cur' = cur /\ pc' = "start" /\ started' = 1 .. (cur - 1)
          BY <1>2, <2>0, <3>1, <3>5, AtLeastTwo DEF Spawn, Goto
        <4>2. FirstSpawned(cur)'
          BY <3>2, <4>1 DEF FirstSpawned
        <4>3. QED
          BY <4>1, <4>2, <3>5, <2>0, AtLeastTwo DEF OrderInv
      <3>6. QED
        BY <2>0, <3>3, <3>4, <3>5, AtLeastTwo
    <2>3. RootInv'
      BY <1>2 DEF IInv, TypeOK, RootInv, Spawn, Goto, Serving
    <2>4. PipeInv'
      BY <1>2 DEF IInv, PipeInv, Spawn, Goto, Serving
    <2>5. EndInv'
      BY <1>2 DEF IInv, EndInv, RootInv, Spawn, Goto, Serving, Running
    <2>6. QED
      BY <1>1, <2>1, <2>2, <2>3, <2>4, <2>5 DEF IInv
  <1>3. CASE /\ proc' \in {proc, [proc EXCEPT ![cur] = "alive"]}
             /\ Unwind(cur) /\ UNCHANGED <<open, cur>>
    <2>1. /\ pc' = "next" /\ errors' = errors \cup {cur} /\ todo' \in Seq(Workers)
      BY <1>3, UnwindLists DEF IInv, TypeOK
    <2>2. TypeOK'
      BY <1>3, <2>1 DEF IInv, TypeOK, Spawn
    <2>3. EndInv'
      BY <1>3, UnwindEnds DEF Spawn, IInv, TypeOK
    <2>4. QED
      BY <1>1, <2>1, <2>2, <2>3, NotServing DEF IInv, Serving
  <1>4. QED
    BY <1>2, <1>3 DEF Spawn

\* Asking a worker for the first time keeps the invariant.
LEMMA AskStartKeeps == IInv /\ AskStart => IInv'
  <1> SUFFICES ASSUME IInv, AskStart PROVE IInv'
    OBVIOUS
  <1>0. /\ cur \in Workers /\ asked \in [Workers -> Seq(Questions)]
        /\ started = 1 .. (cur - 1)
        /\ \A i \in Workers : asked[i] = <<>> /\ said[i] = <<>>
    BY DEF IInv, TypeOK, OrderInv, PipeInv, AskStart, Serving
  <1>1. cur \notin started /\ Question = "start"
    BY <1>0, AtLeastTwo DEF Question
  <1>2. asked' = [asked EXCEPT ![cur] = <<"start">>]
    <2>1. Append(<<>>, "start") = <<"start">>
      OBVIOUS
    <2>2. asked' = [asked EXCEPT ![cur] = Append(asked[cur], "start")]
      BY DEF AskStart, Ask
    <2>3. QED
      BY <1>0, <2>1, <2>2
  <1>3. TypeOK'
    <2>1. <<"start">> \in Seq(Questions)
      BY DEF Questions
    <2>2. asked' \in [Workers -> Seq(Questions)]
      BY <1>0, <1>2, <2>1
    <2>3. QED
      BY <2>2 DEF IInv, TypeOK, AskStart, Goto
  <1>4. OrderInv'
    BY <1>1 DEF IInv, OrderInv, AskStart, Goto, FirstSpawned
  <1>5. RootInv' /\ EndInv' /\ AnswersMatch'
    BY DEF IInv, RootInv, EndInv, AnswersMatch, AskStart, Goto, Serving, Running
  <1>6. PipeInv'
    <2>1. Question' = "start"
      BY <1>1 DEF Question, AskStart
    <2>2. QED
      BY <1>0, <1>2, <2>1 DEF PipeInv, AskStart, Goto, Serving
  <1>7. QED
    BY <1>3, <1>4, <1>5, <1>6 DEF IInv

\* Asking for an operation keeps the invariant.
LEMMA AskOperationKeeps == IInv /\ AskOperation => IInv'
  <1> SUFFICES ASSUME IInv, AskOperation PROVE IInv'
    OBVIOUS
  <1>0. /\ asked \in [Workers -> Seq(Questions)] /\ started \subseteq Workers
        /\ \A i \in Workers : asked[i] = <<>> /\ said[i] = <<>>
    BY DEF IInv, TypeOK, PipeInv, AskOperation, Serving
  <1>1. cur' \in started /\ Question' = "work"
    BY DEF AskOperation, Question
  <1>2. cur' \in Workers /\ asked' = [asked EXCEPT ![cur'] = <<"work">>]
    <2>1. Append(<<>>, "work") = <<"work">>
      OBVIOUS
    <2>2. asked' = [asked EXCEPT ![cur'] = Append(asked[cur'], "work")]
      BY DEF AskOperation, Ask
    <2>3. QED
      BY <1>0, <1>1, <2>1, <2>2
  <1>3. TypeOK'
    <2>1. <<"work">> \in Seq(Questions)
      BY DEF Questions
    <2>2. asked' \in [Workers -> Seq(Questions)]
      BY <1>0, <1>2, <2>1
    <2>3. ops' \in 0 .. MaxOps
      BY MaxOpsAssumption DEF IInv, TypeOK, AskOperation
    <2>4. QED
      BY <1>2, <2>2, <2>3 DEF IInv, TypeOK, AskOperation, Goto
  <1>4. OrderInv'
    BY <1>1 DEF IInv, OrderInv, AskOperation, Goto, FirstSpawned
  <1>5. RootInv' /\ EndInv' /\ AnswersMatch'
    BY DEF IInv, RootInv, EndInv, AnswersMatch, AskOperation, Goto, Serving, Running
  <1>6. PipeInv'
    BY <1>0, <1>1, <1>2 DEF PipeInv, AskOperation, Goto, Serving
  <1>7. QED
    BY <1>3, <1>4, <1>5, <1>6 DEF IInv

\* Going on to a further worker keeps the invariant.
LEMMA SpawnAnotherKeeps == IInv /\ SpawnAnother => IInv'
  <1> SUFFICES ASSUME IInv, SpawnAnother PROVE IInv'
    OBVIOUS
  <1>1. PICK k \in 2 .. N : FirstSpawned(k) /\ started = 1 .. k
    BY DEF IInv, OrderInv, SpawnAnother
  <1>2. k \in 0 .. N /\ k \in Nat /\ k >= 2
    BY AtLeastTwo
  <1>3. cur' = k + 1
    BY <1>1, <1>2, CountSpawned DEF SpawnAnother
  <1>4. k + 1 \in Workers /\ ~(k + 1 <= 2)
    BY <1>1, <1>2, AtLeastTwo DEF FirstSpawned, SpawnAnother
  <1>5. TypeOK'
    BY <1>3, <1>4 DEF IInv, TypeOK, SpawnAnother, Goto
  <1>6. OrderInv'
    <2>1. cur' - 1 = k
      BY <1>2, <1>3
    <2>2. FirstSpawned(cur - 1)'
      BY <1>1, <2>1 DEF FirstSpawned, SpawnAnother
    <2>3. pc' = "root" /\ started' = 1 .. (cur' - 1)
      BY <1>1, <2>1 DEF SpawnAnother, Goto
    <2>4. QED
      BY <1>3, <1>4, <2>2, <2>3 DEF OrderInv
  <1>7. RootInv' /\ EndInv' /\ AnswersMatch'
    BY DEF IInv, RootInv, EndInv, AnswersMatch, SpawnAnother, Goto, Serving, Running
  <1>8. PipeInv'
    BY DEF IInv, PipeInv, SpawnAnother, Goto, Serving
  <1>9. QED
    BY <1>5, <1>6, <1>7, <1>8 DEF IInv

\* An answer that is taken is the answer to the question.
LEMMA TakeAnswerKeeps == IInv /\ TakeAnswer => IInv'
  <1> SUFFICES ASSUME IInv, TakeAnswer PROVE IInv'
    OBVIOUS
  <1>0. /\ cur \in Workers /\ said \in [Workers -> Seq(Questions)] /\ started \subseteq Workers
        /\ pc = "answer" /\ Len(said[cur]) = 1
    BY DEF IInv, TypeOK, TakeAnswer
  <1>1. said[cur] = <<Question>> /\ asked[cur] = <<>>
    <2>1. Len(<<>>) = 0
      OBVIOUS
    <2>2. QED
      BY <1>0, <2>1 DEF IInv, PipeInv
  <1>2. AnswersMatch'
    <2>1. Head(<<Question>>) = Question
      OBVIOUS
    <2>2. Head(said[cur]) = Question
      BY <1>1, <2>1
    <2>3. QED
      BY <2>2 DEF IInv, AnswersMatch, TakeAnswer
  <1>3. \A i \in Workers : asked'[i] = <<>> /\ said'[i] = <<>>
    BY <1>0, <1>1 DEF IInv, PipeInv, TakeAnswer, Serving
  <1>4. TypeOK'
    <2>1. <<>> \in Seq(Questions)
      OBVIOUS
    <2>2. said' \in [Workers -> Seq(Questions)]
      BY <1>0, <2>1 DEF TakeAnswer
    <2>3. cur' \in Workers /\ pc' \in {"start", "serve"}
      BY <1>0, AtLeastTwo DEF TakeAnswer, Goto
    <2>4. matched' \in BOOLEAN
      BY DEF TakeAnswer
    <2>5. QED
      BY <1>0, <2>2, <2>3, <2>4 DEF IInv, TypeOK, TakeAnswer
  <1>5. OrderInv'
    <2>1. CASE cur \notin started
      <3>1. /\ started = 1 .. (cur - 1)
            /\ cur <= 2 => FirstSpawned(2)
            /\ cur > 2 => FirstSpawned(cur)
        BY <1>0, <2>1 DEF IInv, OrderInv
      <3>2. started' = 1 .. cur
        BY <1>0, <3>1, AtLeastTwo DEF TakeAnswer
      <3>3. CASE cur = 1
        <4>1. cur' = 2 /\ pc' = "start" /\ started' = 1 .. (cur' - 1)
          BY <3>1, <3>2, <3>3 DEF TakeAnswer, Goto
        <4>2. FirstSpawned(2)'
          BY <3>1, <3>3 DEF TakeAnswer, FirstSpawned
        <4>3. QED
          BY <4>1, <4>2 DEF OrderInv
      <3>4. CASE cur # 1
        <4>1. pc' = "serve" /\ cur \in 2 .. N
          BY <1>0, <3>4, AtLeastTwo DEF TakeAnswer, Goto
        <4>2. FirstSpawned(cur)
          BY <3>1, <4>1, AtLeastTwo
        <4>3. \A i \in Workers : proc'[i] # "none" <=> i <= cur
          BY <4>2 DEF FirstSpawned, TakeAnswer
        <4>4. QED
          BY <4>1, <4>3, <3>2 DEF OrderInv, FirstSpawned
      <3>5. QED
        BY <3>3, <3>4
    <2>2. CASE cur \in started
      <3>1. PICK k \in 2 .. N : FirstSpawned(k) /\ started = 1 .. k
        BY <1>0, <2>2 DEF IInv, OrderInv
      <3>2. pc' = "serve" /\ started' = 1 .. k
        BY <2>2, <3>1, AtLeastTwo DEF TakeAnswer, Goto
      <3>3. \A i \in Workers : proc'[i] # "none" <=> i <= k
        BY <3>1 DEF FirstSpawned, TakeAnswer
      <3>4. QED
        BY <3>1, <3>2, <3>3 DEF OrderInv, FirstSpawned
    <2>3. QED
      BY <2>1, <2>2
  <1>6. pc' \in {"start", "serve"}
    BY DEF TakeAnswer, Goto
  <1>7. RootInv' /\ EndInv'
    BY <1>6 DEF IInv, RootInv, EndInv, TakeAnswer, Serving, Running
  <1>8. PipeInv'
    BY <1>3, <1>6 DEF PipeInv, Serving
  <1>9. QED
    BY <1>2, <1>4, <1>5, <1>7, <1>8 DEF IInv

\* The end of the fleet's service keeps the invariant.
LEMMA ServiceEndsKeeps == IInv /\ (AnswerFails \/ Finish) => IInv'
  <1> SUFFICES ASSUME IInv, AnswerFails \/ Finish PROVE IInv'
    OBVIOUS
  <1>1. pc \in {"answer", "serve"} /\ CloseAll
    BY DEF AnswerFails, Finish
  <1>2. pc' = "next" /\ todo' \in Seq(Workers)
    BY <1>1, CloseAllLists
  <1>3. EndInv'
    BY <1>1, CloseAllEnds DEF AnswerFails, Finish
  <1>4. TypeOK'
    BY <1>2 DEF IInv, TypeOK, AnswerFails, Finish, Fault
  <1>5. AnswersMatch'
    BY DEF IInv, AnswersMatch, AnswerFails, Finish
  <1>6. QED
    BY <1>2, <1>3, <1>4, <1>5, NotServing DEF IInv, Serving

\* Turning to the next worker keeps the invariant.
LEMMA CloseNextKeeps == IInv /\ CloseNext => IInv'
  <1> SUFFICES ASSUME IInv, CloseNext PROVE IInv'
    OBVIOUS
  <1>0. /\ todo \in Seq(Workers) /\ todo # <<>>
        /\ asked \in [Workers -> Seq(Questions)] /\ started \subseteq Workers
    BY DEF IInv, TypeOK, CloseNext
  <1>1. /\ Head(todo) = todo[1] /\ Head(todo) \in Workers
        /\ Tail(todo) \in Seq(Workers) /\ Len(todo) \in Nat
        /\ Len(Tail(todo)) = Len(todo) - 1
        /\ \A k \in 1 .. Len(Tail(todo)) : Tail(todo)[k] = todo[k + 1]
    BY <1>0
  <1>2. pc' \in {"leave", "pipes"} /\ cur' = Head(todo) /\ todo' = Tail(todo)
    BY DEF CloseNext, Goto
  <1>3. TypeOK'
    <2>1. asked' \in [Workers -> Seq(Questions)]
      <3>1. Append(asked[Head(todo)], "close") \in Seq(Questions)
        BY <1>0, <1>1 DEF Questions
      <3>2. QED
        BY <1>0, <1>1, <3>1 DEF CloseNext, Ask
    <2>2. QED
      BY <1>1, <1>2, <2>1 DEF IInv, TypeOK, CloseNext
  <1>4. EndInv'
    <2>1. ASSUME NEW i \in Workers
          PROVE  Pending(i)' \/ Accounted(i)'
      <3>1. CASE Accounted(i)
        BY <3>1 DEF Accounted, CloseNext
      <3>2. CASE \E k \in 1 .. Len(todo) : todo[k] = i
        <4>1. PICK k \in 1 .. Len(todo) : todo[k] = i
          BY <3>2
        <4>2. CASE k = 1
          BY <1>1, <1>2, <4>1, <4>2 DEF Pending, Cleaning
        <4>3. CASE k # 1
          <5>1. k - 1 \in 1 .. Len(todo') /\ todo'[k - 1] = i
            BY <1>1, <1>2, <4>1, <4>3
          <5>2. QED
            BY <5>1 DEF Pending
        <4>4. QED
          BY <4>2, <4>3
      <3>3. QED
        BY <3>1, <3>2 DEF IInv, EndInv, Pending, CloseNext, Serving, Cleaning
    <2>2. QED
      BY <1>2, <2>1 DEF IInv, EndInv, CloseNext, Running
  <1>5. AnswersMatch'
    BY DEF IInv, AnswersMatch, CloseNext
  <1>6. QED
    BY <1>2, <1>3, <1>4, <1>5, NotServing DEF IInv, Serving

\* Waiting for a last answer and closing the pipes keep the invariant.
LEMMA LeaveKeeps == IInv /\ (Leave \/ ClosePipes) => IInv'
  <1> SUFFICES ASSUME IInv, Leave \/ ClosePipes PROVE IInv'
    OBVIOUS
  <1>e. <<>> \in Seq(Questions)
    OBVIOUS
  <1>0. /\ cur \in Workers
        /\ asked \in [Workers -> Seq(Questions)] /\ said \in [Workers -> Seq(Questions)]
        /\ errors \subseteq Workers
    BY DEF IInv, TypeOK
  <1>p. pc \in {"leave", "pipes"}
    BY DEF Leave, ClosePipes
  <1>1. /\ pc' \in {"pipes", "clear", "poll"} /\ errors \subseteq errors'
        /\ pc' = "clear" => proc[cur] = "none"
        /\ UNCHANGED <<cur, todo, root, proc, reaped, cleared>>
    BY DEF Leave, ClosePipes, Goto, Fault
  <1>2. TypeOK'
    <2>1. asked' \in [Workers -> Seq(Questions)] /\ said' \in [Workers -> Seq(Questions)]
      BY <1>0, <1>e DEF Leave, ClosePipes
    <2>2. errors' \subseteq Workers
      BY <1>0 DEF Leave, ClosePipes, Fault
    <2>3. QED
      BY <1>1, <2>1, <2>2 DEF IInv, TypeOK, Leave, ClosePipes
  <1>3. EndInv'
    <2>1. ASSUME NEW i \in Workers
          PROVE  Pending(i)' \/ Accounted(i)'
      BY <1>0, <1>p, <1>1 DEF IInv, EndInv, Pending, Accounted, Serving, Cleaning
    <2>2. QED
      BY <1>1, <2>1 DEF IInv, EndInv, Running
  <1>4. AnswersMatch'
    BY DEF IInv, AnswersMatch, Leave, ClosePipes
  <1>5. QED
    BY <1>1, <1>2, <1>3, <1>4, NotServing DEF IInv, Serving

\* Reaping a process, by polling, waiting or killing, keeps the invariant: a
\* process that was reaped does not run, and only a reaped one, or none, lets
\* the root be removed.
LEMMA ReapKeeps == IInv /\ (Poll \/ Wait \/ WaitAgain) => IInv'
  <1> SUFFICES ASSUME IInv, Poll \/ Wait \/ WaitAgain PROVE IInv'
    OBVIOUS
  <1>0. /\ cur \in Workers /\ pc \in {"poll", "wait", "wait again"}
        /\ errors \subseteq Workers /\ reaped \subseteq Workers
        /\ proc \in [Workers -> {"none", "alive", "hung", "exited", "failed"}]
    BY DEF IInv, TypeOK, Poll, Wait, WaitAgain
  <1>1. /\ pc' \in {"wait", "wait again", "keep", "clear"}
        /\ errors' \in {errors, errors \cup {cur}}
        /\ reaped' \in {reaped, reaped \cup {cur}}
        /\ proc' \in {proc, [proc EXCEPT ![cur] = "failed"]}
        /\ pc' = "keep" => cur \in errors'
        /\ pc' = "clear" => cur \in reaped'
        /\ cur \in reaped' => cur \in reaped \/ (~Running(cur) /\ proc' = proc)
        /\ proc' # proc => Running(cur)
        /\ UNCHANGED <<cur, todo, root, cleared>>
    BY DEF Poll, Wait, WaitAgain, Goto, Fault
  <1>2. TypeOK'
    BY <1>0, <1>1 DEF IInv, TypeOK, Poll, Wait, WaitAgain
  <1>3. EndInv'
    <2>1. ASSUME NEW i \in Workers
          PROVE  Pending(i)' \/ Accounted(i)'
      BY <1>0, <1>1 DEF IInv, EndInv, Pending, Accounted, Serving, Cleaning
    <2>2. \A i \in reaped' \cup cleared' : ~Running(i)'
      BY <1>0, <1>1 DEF IInv, TypeOK, EndInv, Running
    <2>3. QED
      BY <1>1, <2>1, <2>2 DEF EndInv
  <1>4. AnswersMatch'
    BY DEF IInv, AnswersMatch, Poll, Wait, WaitAgain
  <1>5. QED
    BY <1>1, <1>2, <1>3, <1>4, NotServing DEF IInv, Serving

\* Keeping or removing a root keeps the invariant.
LEMMA RootKeeps == IInv /\ (KeepRoot \/ ClearRoot) => IInv'
  <1> SUFFICES ASSUME IInv, KeepRoot \/ ClearRoot PROVE IInv'
    OBVIOUS
  <1>0. /\ cur \in Workers /\ pc \in {"keep", "clear"}
        /\ errors \subseteq Workers /\ cleared \subseteq Workers
        /\ root \in [Workers -> {"none", "mine", "moved", "gone"}]
    BY DEF IInv, TypeOK, KeepRoot, ClearRoot
  <1>1. /\ pc' = "next"
        /\ errors' \in {errors, errors \cup {cur}}
        /\ cleared' \in {cleared, cleared \cup {cur}}
        /\ root' \in {root, [root EXCEPT ![cur] = "gone"]}
        /\ UNCHANGED <<cur, todo, proc, reaped>>
    BY DEF KeepRoot, ClearRoot, Goto, Fault
  <1>2. TypeOK'
    BY <1>0, <1>1 DEF IInv, TypeOK, KeepRoot, ClearRoot
  <1>3. EndInv'
    <2>1. Accounted(cur)'
      <3>1. CASE pc = "keep"
        BY <1>1, <3>1 DEF IInv, EndInv, Accounted
      <3>2. CASE pc = "clear"
        <4>1. proc[cur] = "none" \/ cur \in reaped
          BY <3>2 DEF IInv, EndInv
        <4>2. root'[cur] \in {"none", "gone"} \/ cur \in errors'
          BY <1>0, <3>2 DEF ClearRoot, KeepRoot, Fault
        <4>3. QED
          BY <1>1, <4>1, <4>2 DEF Accounted
      <3>3. QED
        BY <1>0, <3>1, <3>2
    <2>2. ASSUME NEW i \in Workers, i # cur
          PROVE  Pending(i)' \/ Accounted(i)'
      BY <1>0, <1>1, <2>2 DEF IInv, EndInv, Pending, Accounted, Serving, Cleaning
    <2>3. \A i \in reaped' \cup cleared' : ~Running(i)'
      <3>1. cleared' # cleared => proc[cur] = "none" \/ cur \in reaped
        BY DEF IInv, EndInv, KeepRoot, ClearRoot
      <3>2. QED
        BY <1>1, <3>1 DEF IInv, EndInv, Running
    <2>4. QED
      BY <1>1, <2>1, <2>2, <2>3 DEF EndInv
  <1>4. AnswersMatch'
    BY DEF IInv, AnswersMatch, KeepRoot, ClearRoot
  <1>5. QED
    BY <1>1, <1>2, <1>3, <1>4, NotServing DEF IInv, Serving

\* Reporting the end keeps the invariant.
LEMMA ClosedKeeps == IInv /\ Closed => IInv'
  <1> SUFFICES ASSUME IInv, Closed PROVE IInv'
    OBVIOUS
  <1>1. pc = "next" /\ pc' = "closed" /\ todo' = <<>> /\ todo = <<>>
    BY DEF Closed, Goto
  <1>2. TypeOK'
    BY <1>1 DEF IInv, TypeOK, Closed
  <1>3. EndInv'
    BY <1>1 DEF IInv, EndInv, Pending, Accounted, Closed, Serving, Cleaning, Running
  <1>4. AnswersMatch'
    BY DEF IInv, AnswersMatch, Closed
  <1>5. QED
    BY <1>1, <1>2, <1>3, <1>4, NotServing DEF IInv, Serving

\* What the workers and the others do keeps the invariant.
LEMMA ReplyKeeps == ASSUME IInv, NEW i \in Workers, Reply(i) PROVE IInv'
  <1>0. /\ asked \in [Workers -> Seq(Questions)] /\ said \in [Workers -> Seq(Questions)]
        /\ proc \in [Workers -> {"none", "alive", "hung", "exited", "failed"}]
        /\ cur \in Workers
    BY DEF IInv, TypeOK
  <1>1. /\ proc[i] = "alive" /\ asked[i] # <<>>
        /\ asked' = [asked EXCEPT ![i] = Tail(asked[i])]
        /\ said' = [said EXCEPT ![i] = Append(said[i], Head(asked[i]))]
        /\ proc' \in {proc, [proc EXCEPT ![i] = "exited"]}
        /\ UNCHANGED <<pc, cur, todo, ops, left, root, cleared, reaped, open, started, matched,
                       errors>>
    BY DEF Reply
  <1>2. /\ Tail(asked[i]) \in Seq(Questions) /\ Head(asked[i]) \in Questions
        /\ Append(said[i], Head(asked[i])) \in Seq(Questions)
    BY <1>0, <1>1
  <1>3. TypeOK'
    <2>1. asked' \in [Workers -> Seq(Questions)] /\ said' \in [Workers -> Seq(Questions)]
      BY <1>0, <1>1, <1>2
    <2>2. proc' \in [Workers -> {"none", "alive", "hung", "exited", "failed"}]
      BY <1>0, <1>1
    <2>3. QED
      BY <1>1, <2>1, <2>2 DEF IInv, TypeOK
  <1>4. \A j \in Workers : proc'[j] = "none" <=> proc[j] = "none"
    BY <1>0, <1>1
  <1>5. OrderInv'
    BY <1>1, <1>4 DEF IInv, OrderInv, FirstSpawned
  <1>6. RootInv' /\ AnswersMatch'
    BY <1>1, <1>4 DEF IInv, RootInv, AnswersMatch
  <1>7. PipeInv'
    <2>1. CASE pc \in Serving
      <3>1. pc = "answer" /\ i = cur /\ asked[cur] = <<Question>> /\ said[cur] = <<>>
        BY <1>1, <2>1 DEF IInv, PipeInv, Serving
      <3>2. /\ Tail(<<Question>>) = <<>> /\ Head(<<Question>>) = Question
            /\ Append(<<>>, Question) = <<Question>>
        OBVIOUS
      <3>3. asked'[cur] = <<>> /\ said'[cur] = <<Question>> /\ Question' = Question
        BY <1>0, <1>1, <3>1, <3>2 DEF Question
      <3>4. \A j \in Workers : j # cur => asked'[j] = asked[j] /\ said'[j] = said[j]
        BY <1>0, <1>1, <3>1
      <3>5. QED
        BY <1>1, <2>1, <3>1, <3>3, <3>4 DEF IInv, PipeInv
    <2>2. CASE pc \notin Serving
      BY <1>1, <2>2 DEF PipeInv, Serving
    <2>3. QED
      BY <2>1, <2>2
  <1>8. EndInv'
    <2>1. \A j \in Workers : (Pending(j)' <=> Pending(j)) /\ (Accounted(j)' <=> Accounted(j))
      BY <1>1, <1>4 DEF Pending, Accounted
    <2>2. \A j \in reaped' \cup cleared' : ~Running(j)'
      BY <1>0, <1>1 DEF IInv, TypeOK, EndInv, Running
    <2>3. QED
      BY <1>0, <1>1, <1>4, <2>1, <2>2 DEF IInv, EndInv
  <1>9. QED
    BY <1>3, <1>5, <1>6, <1>7, <1>8 DEF IInv

LEMMA WorkerStopsKeeps == ASSUME IInv, NEW i \in Workers, WorkerStops(i) PROVE IInv'
  <1>0. /\ proc \in [Workers -> {"none", "alive", "hung", "exited", "failed"}]
        /\ cur \in Workers
    BY DEF IInv, TypeOK
  <1>1. /\ proc[i] = "alive"
        /\ \E s \in {"hung", "failed", "exited"} : proc' = [proc EXCEPT ![i] = s]
        /\ UNCHANGED <<pc, cur, todo, ops, left, root, cleared, reaped, asked, said, open, started,
                       matched, errors>>
    BY DEF WorkerStops
  <1>2. \A j \in Workers : proc'[j] = "none" <=> proc[j] = "none"
    BY <1>0, <1>1
  <1>3. TypeOK'
    <2>1. proc' \in [Workers -> {"none", "alive", "hung", "exited", "failed"}]
      BY <1>0, <1>1
    <2>2. QED
      BY <1>1, <2>1 DEF IInv, TypeOK
  <1>4. OrderInv'
    BY <1>1, <1>2 DEF IInv, OrderInv, FirstSpawned
  <1>5. RootInv' /\ AnswersMatch' /\ PipeInv'
    BY <1>1, <1>2 DEF IInv, RootInv, AnswersMatch, PipeInv, Question
  <1>6. EndInv'
    <2>1. \A j \in Workers : (Pending(j)' <=> Pending(j)) /\ (Accounted(j)' <=> Accounted(j))
      BY <1>1, <1>2 DEF Pending, Accounted
    <2>2. \A j \in reaped' \cup cleared' : ~Running(j)'
      BY <1>0, <1>1 DEF IInv, TypeOK, EndInv, Running
    <2>3. QED
      BY <1>0, <1>1, <1>2, <2>1, <2>2 DEF IInv, EndInv
  <1>7. QED
    BY <1>3, <1>4, <1>5, <1>6 DEF IInv

LEMMA ForeignKeeps == ASSUME IInv, NEW i \in Workers, Foreign(i) PROVE IInv'
  <1>0. root \in [Workers -> {"none", "mine", "moved", "gone"}]
    BY DEF IInv, TypeOK
  <1>1. /\ root[i] = "mine" /\ root' = [root EXCEPT ![i] = "moved"]
        /\ UNCHANGED <<pc, cur, todo, ops, left, cleared, proc, reaped, asked, said, open, started,
                       matched, errors>>
    BY DEF Foreign
  <1>2. TypeOK'
    BY <1>0, <1>1 DEF IInv, TypeOK
  <1>3. OrderInv' /\ AnswersMatch' /\ PipeInv'
    BY <1>1 DEF IInv, OrderInv, FirstSpawned, AnswersMatch, PipeInv, Question
  <1>4. RootInv'
    BY <1>0, <1>1 DEF IInv, RootInv
  <1>5. EndInv'
    <2>1. \A j \in Workers : (Pending(j)' <=> Pending(j)) /\ (Accounted(j)' <=> Accounted(j))
      BY <1>0, <1>1 DEF Pending, Accounted
    <2>2. QED
      BY <1>1, <2>1 DEF IInv, EndInv, Running
  <1>6. QED
    BY <1>2, <1>3, <1>4, <1>5 DEF IInv

\* Every step of the fleet keeps the invariant.
LEMMA NextKeeps == IInv /\ [Next]_vars => IInv'
  <1> SUFFICES ASSUME IInv, [Next]_vars PROVE IInv'
    OBVIOUS
  <1>1. CASE AllocateRoot \/ Spawn
    BY <1>1, AllocateRootKeeps, SpawnKeeps
  <1>2. CASE AskStart \/ AskOperation \/ SpawnAnother
    BY <1>2, AskStartKeeps, AskOperationKeeps, SpawnAnotherKeeps
  <1>3. CASE TakeAnswer \/ AnswerFails \/ Finish
    BY <1>3, TakeAnswerKeeps, ServiceEndsKeeps
  <1>4. CASE CloseNext \/ Leave \/ ClosePipes
    BY <1>4, CloseNextKeeps, LeaveKeeps
  <1>5. CASE Poll \/ Wait \/ WaitAgain
    BY <1>5, ReapKeeps
  <1>6. CASE KeepRoot \/ ClearRoot \/ Closed
    BY <1>6, RootKeeps, ClosedKeeps
  <1>7. ASSUME NEW i \in Workers, Reply(i) \/ WorkerStops(i) \/ Foreign(i)
        PROVE  IInv'
    BY <1>7, ReplyKeeps, WorkerStopsKeeps, ForeignKeeps
  <1>8. CASE UNCHANGED vars
    <2>1. TypeOK' /\ AnswersMatch'
      BY <1>8 DEF vars, IInv, TypeOK, AnswersMatch
    <2>2. OrderInv'
      BY <1>8 DEF vars, IInv, OrderInv, FirstSpawned
    <2>3. RootInv' /\ PipeInv'
      BY <1>8 DEF vars, IInv, RootInv, PipeInv, Question
    <2>4. EndInv'
      <3>1. \A j \in Workers : (Pending(j)' <=> Pending(j)) /\ (Accounted(j)' <=> Accounted(j))
        BY <1>8 DEF vars, Pending, Accounted
      <3>2. QED
        BY <1>8, <3>1 DEF vars, IInv, EndInv, Running
    <2>5. QED
      BY <2>1, <2>2, <2>3, <2>4 DEF IInv
  <1>9. QED
    BY <1>1, <1>2, <1>3, <1>4, <1>5, <1>6, <1>7, <1>8 DEF Next, Controller

\* The end of cleaning up says that the cleanup was honest.
LEMMA InvIsHonest == IInv => CleanupIsHonest
  <1> SUFFICES ASSUME IInv PROVE CleanupIsHonest
    OBVIOUS
  <1>1. NoLiveRootCleared
    BY DEF IInv, EndInv, NoLiveRootCleared
  <1>2. LeftoversReported
    <2>1. ASSUME pc = "closed", NEW i \in Workers
          PROVE  Accounted(i)
      <3>1. todo = <<>>
        BY <2>1 DEF IInv, EndInv
      <3>2. Len(<<>>) = 0
        OBVIOUS
      <3>3. ~Pending(i)
        BY <2>1, <3>1, <3>2 DEF Pending, Cleaning
      <3>4. QED
        BY <2>1, <3>3 DEF IInv, EndInv, Serving
    <2>2. QED
      BY <2>1 DEF LeftoversReported, Accounted
  <1>3. QED
    BY <1>1, <1>2 DEF CleanupIsHonest

\* Whatever the workers do, an answer that is used answers the question that
\* was asked: a late answer is never taken for a new one.
THEOREM AnswersAlwaysMatch == Spec => []AnswersMatch
  <1>1. IInv => AnswersMatch
    BY DEF IInv
  <1>2. QED
    BY InitInv, NextKeeps, <1>1, PTL DEF Spec

\* No root is emptied under a worker that still runs, and whatever is left
\* when the fleet is closed is named in the error.
THEOREM CleanupIsAlwaysHonest == Spec => []CleanupIsHonest
  BY InitInv, NextKeeps, InvIsHonest, PTL DEF Spec

-----------------------------------------------------------------------------
(* The pool of test workers.  What is in a pipe is kept apart by the number *)
(* of its request: a pipe holds nothing before its child has answered, a    *)
(* child answers only what it accepted, and neither the request nor its     *)
(* fingerprint changes under an answer.                                     *)

\* Nothing exists of a request that was not made, and one is being served.
CurrentInv ==
  /\ supervisor # "idle" => current \in Requests
  /\ \A k \in Requests : k > current =>
       child[k] = "none" /\ reply[k] = None /\ outcome[k] = None

\* A pipe is empty until its child ends or answers; a child that got so far
\* has accepted its request, and what it answered is its result.
ReplyInv ==
  \A k \in Requests :
    /\ child[k] \in {"none", "forked", "fingerprinted", "ran"} => reply[k] = None
    /\ child[k] \in {"fingerprinted", "ran", "answered"} => Acceptable(k)
    /\ reply[k].kind \in {"none", "eof", "garbage", "result"}
    /\ reply[k].kind = "none" => reply[k] = None
    /\ reply[k].kind = "result" => reply[k] = Result(k) /\ Acceptable(k)

\* The supervisor reads only when there is something, and joins only the
\* child of a result.
ReadInv ==
  /\ supervisor = "receive" => reply[current] # None
  /\ supervisor = "join" => reply[current].kind = "result"

\* A result that was returned is its own child's.
OutcomeInv ==
  \A k \in Requests :
    /\ outcome[k].kind \in {"none", "error", "timeout", "result"}
    /\ outcome[k].kind = "result" =>
         outcome[k] = Result(k) /\ Acceptable(k) /\ child[k] = "exited"

PoolInv ==
  /\ TTypeOK
  /\ CurrentInv
  /\ ReplyInv
  /\ ReadInv
  /\ OutcomeInv
  /\ NoChildForgotten

\* A message without content.
LEMMA PlainMessage ==
  ASSUME NEW kind \in {"none", "eof", "garbage", "error", "timeout", "result"}
  PROVE  Message(kind) \in Messages /\ Message(kind).kind = kind
  BY MaxRequestsAssumption, MaxSourceEditsAssumption DEF Message, Messages

LEMMA PoolInitInv == TInit => PoolInv
  <1> SUFFICES ASSUME TInit PROVE PoolInv
    OBVIOUS
  <1>1. None \in Messages /\ None.kind = "none"
    BY PlainMessage DEF None
  <1>2. TTypeOK
    BY <1>1, MaxRequestsAssumption, MaxSourceEditsAssumption DEF TInit, TTypeOK, Children
  <1>3. CurrentInv /\ ReplyInv /\ ReadInv /\ OutcomeInv
    BY <1>1 DEF TInit, CurrentInv, ReplyInv, ReadInv, OutcomeInv
  <1>4. NoChildForgotten
    BY DEF TInit, NoChildForgotten, Gone
  <1>5. QED
    BY <1>2, <1>3, <1>4 DEF PoolInv

\* A request that is made, sent or not, keeps the invariant.
LEMMA RunRequestKeeps == PoolInv /\ RunRequest => PoolInv'
  <1> SUFFICES ASSUME PoolInv, RunRequest PROVE PoolInv'
    OBVIOUS
  <1> DEFINE n == current + 1
  <1>0. TTypeOK /\ supervisor = "idle" /\ current \in 0 .. MaxRequests /\ current' = n
    BY DEF PoolInv, TTypeOK, RunRequest
  <1>1. n \in Requests /\ ~(n <= current) /\ current < MaxRequests
    BY <1>0, MaxRequestsAssumption DEF RunRequest, Requests
  <1> HIDE DEF n
  <1>2. /\ child[n] = "none" /\ reply[n] = None /\ outcome[n] = None
        /\ \A k \in Requests : k < n <=> k <= current
    <2>1. n > current
      BY <1>0 DEF n
    <2>2. child[n] = "none" /\ reply[n] = None /\ outcome[n] = None
      BY <1>1, <2>1 DEF PoolInv, CurrentInv
    <2>3. \A k \in Requests : k < n <=> k <= current
      BY <1>0, MaxRequestsAssumption DEF n, Requests
    <2>4. QED
      BY <2>2, <2>3
  <1>3. None.kind = "none" /\ Message("error") \in Messages /\ Message("error").kind = "error"
    BY PlainMessage DEF None
  <1>4. /\ \A k \in Requests : k # n => request'[k] = request[k] /\ child'[k] = child[k]
                                         /\ outcome'[k] = outcome[k]
        /\ DOMAIN request' = Requests
        /\ child' \in [Requests -> Children] /\ child'[n] \in {"none", "forked", "killed"}
        /\ outcome'[n] \in {None, Message("error")} /\ outcome' \in [Requests -> Messages]
        /\ told \subseteq told' /\ told' \subseteq told \cup {n}
        /\ supervisor' \in {"poll", "idle"}
        /\ supervisor' = "idle" => child'[n] = "none" \/ n \in told'
        /\ UNCHANGED <<stubborn, reply, source, print>>
    <2>0. /\ DOMAIN request = Requests /\ child \in [Requests -> Children]
          /\ outcome \in [Requests -> Messages]
      BY <1>0 DEF TTypeOK
    <2>1. CASE /\ \E r : request' = [request EXCEPT ![n] = r]
               /\ supervisor' = "poll" /\ child' = [child EXCEPT ![n] = "forked"]
               /\ UNCHANGED <<outcome, told, stubborn, reply, source, print>>
      BY <2>0, <2>1, <1>1, <1>2 DEF Children
    <2>2. CASE /\ outcome' = [outcome EXCEPT ![n] = Message("error")]
               /\ \/ UNCHANGED <<child, told>>
                  \/ /\ told' = told \cup {n}
                     /\ \E end \in {"forked", "killed"} : child' = [child EXCEPT ![n] = end]
               /\ UNCHANGED <<supervisor, request, stubborn, reply, source, print>>
      <3>1. /\ outcome' \in [Requests -> Messages] /\ outcome'[n] = Message("error")
            /\ \A k \in Requests : k # n => outcome'[k] = outcome[k]
        BY <2>0, <2>2, <1>1, <1>3
      <3>2. /\ child' \in [Requests -> Children] /\ child'[n] \in {"none", "forked", "killed"}
            /\ \A k \in Requests : k # n => child'[k] = child[k]
            /\ child'[n] = "none" \/ n \in told'
            /\ told \subseteq told' /\ told' \subseteq told \cup {n}
        BY <2>0, <2>2, <1>1, <1>2 DEF Children
      <3>3. QED
        BY <2>0, <2>2, <3>1, <3>2, <1>0
    <2>3. QED
      BY <2>1, <2>2 DEF RunRequest, n
  <1>5. TTypeOK'
    <2>1. current' \in 0 .. MaxRequests
      BY <1>0, <1>1, MaxRequestsAssumption DEF Requests
    <2>2. QED
      BY <1>0, <1>1, <1>4, <2>1 DEF TTypeOK
  <1>6. CurrentInv'
    BY <1>0, <1>1, <1>2, <1>4 DEF PoolInv, CurrentInv, Requests
  <1>7. ReplyInv'
    <2>1. ASSUME NEW k \in Requests, k # n
          PROVE  (Acceptable(k)' <=> Acceptable(k)) /\ Result(k)' = Result(k)
      BY <1>4, <2>1 DEF Acceptable, Result, Selected
    <2>2. reply'[n] = None /\ child'[n] \in {"none", "forked", "killed"}
      BY <1>2, <1>4
    <2>3. QED
      BY <1>3, <1>4, <2>1, <2>2 DEF PoolInv, ReplyInv
  <1>8. ReadInv'
    BY <1>4 DEF ReadInv
  <1>9. OutcomeInv'
    <2>1. ASSUME NEW k \in Requests, k # n
          PROVE  (Acceptable(k)' <=> Acceptable(k)) /\ Result(k)' = Result(k)
      BY <1>4, <2>1 DEF Acceptable, Result, Selected
    <2>2. outcome'[n].kind \in {"none", "error"}
      BY <1>3, <1>4
    <2>3. QED
      BY <1>4, <2>1, <2>2 DEF PoolInv, OutcomeInv
  <1>10. NoChildForgotten'
    BY <1>0, <1>1, <1>2, <1>4 DEF PoolInv, NoChildForgotten, Gone
  <1>11. QED
    BY <1>5, <1>6, <1>7, <1>8, <1>9, <1>10 DEF PoolInv

\* A call that ends, with an error or with its child's result, keeps the
\* invariant: its child is gone or was told to stop.
LEMMA ConcludeKeeps ==
  ASSUME PoolInv, NEW what \in Messages, supervisor # "idle", Conclude(what),
         \/ what.kind \in {"error", "timeout"}
         \/ what = Result(current) /\ Acceptable(current) /\ child[current] = "exited",
         UNCHANGED <<current, request, stubborn, reply, source, print>>
  PROVE  PoolInv'
  <1>0. /\ TTypeOK /\ current \in Requests
        /\ child \in [Requests -> Children] /\ outcome \in [Requests -> Messages]
    BY DEF PoolInv, CurrentInv, TTypeOK
  <1>1. /\ supervisor' = "idle" /\ outcome' = [outcome EXCEPT ![current] = what]
        /\ told' \in {told, told \cup {current}}
        /\ child' \in {child, [child EXCEPT ![current] = "killed"]}
        /\ Gone(current) => child' = child
        /\ ~Gone(current) => current \in told'
    BY DEF Conclude, Terminated
  <1>2. /\ \A k \in Requests : child'[k] = child[k] \/ child'[k] = "killed"
        /\ \A k \in Requests : k # current => child'[k] = child[k] /\ outcome'[k] = outcome[k]
        /\ outcome'[current] = what
        /\ child[current] = "exited" => child'[current] = "exited"
    BY <1>0, <1>1 DEF Gone
  <1>3. \A k \in Requests : (Acceptable(k)' <=> Acceptable(k)) /\ Result(k)' = Result(k)
    BY DEF Acceptable, Result, Selected
  <1>4. TTypeOK'
    BY <1>0, <1>1 DEF TTypeOK, Children
  <1>5. CurrentInv'
    <2>1. ~(current > current)
      BY <1>0 DEF Requests
    <2>2. ASSUME NEW k \in Requests, k > current
          PROVE  child'[k] = "none" /\ reply'[k] = None /\ outcome'[k] = None
      BY <1>2, <2>1, <2>2 DEF PoolInv, CurrentInv
    <2>3. QED
      BY <1>1, <2>2 DEF CurrentInv
  <1>6. ReplyInv'
    BY <1>2, <1>3 DEF PoolInv, ReplyInv
  <1>7. ReadInv'
    BY <1>1 DEF ReadInv
  <1>8. OutcomeInv'
    <2>1. ASSUME NEW k \in Requests, k # current
          PROVE  /\ outcome'[k].kind \in {"none", "error", "timeout", "result"}
                 /\ outcome'[k].kind = "result" =>
                      outcome'[k] = Result(k)' /\ Acceptable(k)' /\ child'[k] = "exited"
      BY <1>2, <1>3, <2>1 DEF PoolInv, OutcomeInv
    <2>2. Result(current).kind = "result"
      BY DEF Result
    <2>3. /\ outcome'[current].kind \in {"none", "error", "timeout", "result"}
          /\ outcome'[current].kind = "result" =>
               outcome'[current] = Result(current)' /\ Acceptable(current)'
                 /\ child'[current] = "exited"
      BY <1>0, <1>2, <1>3, <2>2
    <2>4. QED
      BY <2>1, <2>3 DEF OutcomeInv
  <1>9. NoChildForgotten'
    <2>1. ASSUME NEW k \in Requests, ~Gone(k)'
          PROVE  k \in told'
      <3>1. CASE k = current
        BY <1>1, <1>2, <2>1, <3>1 DEF Gone
      <3>2. CASE k < current
        BY <1>1, <1>2, <2>1, <3>2 DEF Gone, PoolInv, NoChildForgotten
      <3>3. CASE k > current
        BY <1>2, <2>1, <3>3 DEF Gone, PoolInv, CurrentInv
      <3>4. k \in Int /\ current \in Int
        BY <1>0 DEF Requests
      <3>5. QED
        BY <3>1, <3>2, <3>3, <3>4
    <2>2. QED
      BY <2>1 DEF NoChildForgotten
  <1>10. QED
    BY <1>4, <1>5, <1>6, <1>7, <1>8, <1>9 DEF PoolInv

\* Every step of the supervisor keeps the invariant.
LEMMA SuperviseKeeps == PoolInv /\ Supervise => PoolInv'
  <1> SUFFICES ASSUME PoolInv, Supervise PROVE PoolInv'
    OBVIOUS
  <1>0. /\ Message("error") \in Messages /\ Message("error").kind = "error"
        /\ Message("timeout") \in Messages /\ Message("timeout").kind = "timeout"
    BY PlainMessage
  <1>1. CASE PollDeadline
    <2>1. supervisor # "idle" /\ Conclude(Message("timeout"))
      BY <1>1 DEF PollDeadline
    <2>2. QED
      BY <1>0, <1>1, <2>1, ConcludeKeeps DEF PollDeadline
  <1>2. CASE ReceiveReply /\ reply[current].kind \in {"eof", "garbage"}
    <2>1. supervisor # "idle" /\ Conclude(Message("error"))
      BY <1>2 DEF ReceiveReply
    <2>2. QED
      BY <1>0, <1>2, <2>1, ConcludeKeeps DEF ReceiveReply
  <1>3. CASE JoinChild /\ child[current] # "exited"
    <2>1. supervisor # "idle" /\ Conclude(Message("error"))
      BY <1>3 DEF JoinChild
    <2>2. QED
      BY <1>0, <1>3, <2>1, ConcludeKeeps DEF JoinChild
  <1>4. CASE JoinChild /\ child[current] = "exited"
    <2>1. supervisor = "join" /\ Conclude(reply[current])
      BY <1>4 DEF JoinChild
    <2>2. current \in Requests /\ reply[current] \in Messages
      BY <2>1 DEF PoolInv, CurrentInv, TTypeOK
    <2>3. reply[current] = Result(current) /\ Acceptable(current)
      BY <2>1, <2>2 DEF PoolInv, ReadInv, ReplyInv
    <2>4. QED
      BY <1>4, <2>1, <2>2, <2>3, ConcludeKeeps DEF JoinChild
  <1>5. CASE PollReady \/ (ReceiveReply /\ reply[current].kind \notin {"eof", "garbage"})
    <2>1. /\ supervisor \in {"poll", "receive"} /\ supervisor' \in {"receive", "join"}
          /\ supervisor' = "receive" => reply[current] # None
          /\ supervisor' = "join" => supervisor = "receive"
                                       /\ reply[current].kind \notin {"eof", "garbage"}
          /\ UNCHANGED <<current, request, child, stubborn, told, reply, outcome, source, print>>
      BY <1>5 DEF PollReady, ReceiveReply
    <2>2. TTypeOK' /\ CurrentInv'
      BY <2>1 DEF PoolInv, TTypeOK, CurrentInv
    <2>3. ReplyInv' /\ OutcomeInv'
      BY <2>1 DEF PoolInv, ReplyInv, OutcomeInv, Acceptable, Result, Selected
    <2>4. ReadInv'
      <3>1. current \in Requests
        BY <2>1 DEF PoolInv, CurrentInv
      <3>2. reply[current].kind \in {"none", "eof", "garbage", "result"}
        BY <3>1 DEF PoolInv, ReplyInv
      <3>3. reply[current].kind = "none" => reply[current] = None
        BY <3>1 DEF PoolInv, ReplyInv
      <3>4. QED
        BY <2>1, <3>2, <3>3 DEF PoolInv, ReadInv
    <2>5. NoChildForgotten'
      BY <2>1 DEF PoolInv, NoChildForgotten, Gone
    <2>6. QED
      BY <2>2, <2>3, <2>4, <2>5 DEF PoolInv
  <1>6. QED
    BY <1>1, <1>2, <1>3, <1>4, <1>5 DEF Supervise, ReceiveReply, JoinChild

\* A step of a child moves that child alone, from a state in which it is
\* there, and what it puts into its pipe is an end, garbage or its result.
ChildStep(k, c, r, p) ==
  /\ child' = [child EXCEPT ![k] = c]
  /\ reply' = [reply EXCEPT ![k] = r]
  /\ print' = [print EXCEPT ![k] = p]
  /\ UNCHANGED <<supervisor, current, request, stubborn, told, outcome, source>>

\* Such a step keeps the invariant: of the children and pipes of the other
\* requests nothing changes, and no result was returned of its own yet.
LEMMA ChildStepKeeps ==
  ASSUME PoolInv, NEW k \in Requests, ~Gone(k),
         NEW c \in Children, NEW r \in Messages, NEW p \in 0 .. MaxSourceEdits,
         ChildStep(k, c, r, p),
         c # "none",
         r # reply[k] =>
           /\ reply[k] = None
           /\ r.kind \in {"eof", "garbage"} \/ (r = Result(k) /\ Acceptable(k))
           /\ c \in {"failed", "answered"},
         p # print[k] => child[k] = "forked" /\ r = reply[k],
         c \in {"forked", "fingerprinted", "ran"} =>
           child[k] \in {"forked", "fingerprinted", "ran"},
         c \in {"fingerprinted", "ran", "answered"} => Acceptable(k),
         r.kind # "none" \/ r = reply[k]
  PROVE  PoolInv'
  <1>0. /\ TTypeOK /\ child \in [Requests -> Children] /\ reply \in [Requests -> Messages]
        /\ print \in [Requests -> 0 .. MaxSourceEdits] /\ reply[k] \in Messages
    BY DEF PoolInv, TTypeOK
  <1>1. /\ \A l \in Requests : l # k => child'[l] = child[l] /\ reply'[l] = reply[l]
                                         /\ print'[l] = print[l]
        /\ child'[k] = c /\ reply'[k] = r /\ print'[k] = p
        /\ UNCHANGED <<supervisor, current, request, stubborn, told, outcome, source>>
        /\ child[k] \notin {"none", "exited", "failed", "killed"}
    BY <1>0 DEF ChildStep, Gone
  <1>2. \A l \in Requests :
          /\ Acceptable(l)' <=> Acceptable(l)
          /\ l # k \/ p = print[k] => Result(l)' = Result(l)
    BY <1>1 DEF Acceptable, Result, Selected
  <1>3. p # print[k] => reply[k] = None
    BY DEF PoolInv, ReplyInv
  <1>4. TTypeOK'
    BY <1>0 DEF ChildStep, TTypeOK
  <1>5. CurrentInv'
    <2>1. ~(k > current)
      BY <1>1 DEF PoolInv, CurrentInv
    <2>2. QED
      BY <1>1, <2>1 DEF PoolInv, CurrentInv
  <1>6. ReplyInv'
    <2>1. ASSUME NEW l \in Requests, l # k
          PROVE  /\ child'[l] \in {"none", "forked", "fingerprinted", "ran"} => reply'[l] = None
                 /\ child'[l] \in {"fingerprinted", "ran", "answered"} => Acceptable(l)'
                 /\ reply'[l].kind \in {"none", "eof", "garbage", "result"}
                 /\ reply'[l].kind = "none" => reply'[l] = None
                 /\ reply'[l].kind = "result" => reply'[l] = Result(l)' /\ Acceptable(l)'
      BY <1>1, <1>2, <2>1 DEF PoolInv, ReplyInv
    <2>2. Result(k).kind = "result"
      BY DEF Result
    <2>3. None.kind = "none"
      BY PlainMessage DEF None
    <2>4. child'[k] \in {"none", "forked", "fingerprinted", "ran"} => reply'[k] = None
      BY <1>1 DEF PoolInv, ReplyInv
    <2>5. child'[k] \in {"fingerprinted", "ran", "answered"} => Acceptable(k)'
      BY <1>1, <1>2
    <2>6. /\ reply'[k].kind \in {"none", "eof", "garbage", "result"}
          /\ reply'[k].kind = "none" => reply'[k] = None
      BY <1>1, <2>2 DEF PoolInv, ReplyInv
    <2>7. reply'[k].kind = "result" => reply'[k] = Result(k)' /\ Acceptable(k)'
      <3>1. CASE r = reply[k]
        BY <1>1, <1>2, <1>3, <2>3, <3>1 DEF PoolInv, ReplyInv
      <3>2. CASE r # reply[k]
        <4>1. c \in {"failed", "answered"}
          BY <3>2
        <4>2. r.kind = "result" => r = Result(k) /\ Acceptable(k)
          BY <3>2
        <4>3. p = print[k]
          BY <3>2
        <4>4. QED
          BY <1>1, <1>2, <4>2, <4>3
      <3>3. QED
        BY <3>1, <3>2
    <2>8. QED
      BY <2>1, <2>4, <2>5, <2>6, <2>7 DEF ReplyInv
  <1>7. ReadInv'
    <2>1. None.kind = "none"
      BY PlainMessage DEF None
    <2>2. reply[k] # None => r = reply[k]
      OBVIOUS
    <2>4. \A l \in Requests : reply[l] # None => reply'[l] = reply[l]
      BY <1>1, <2>2
    <2>5. supervisor # "idle" => current \in Requests
      BY DEF PoolInv, CurrentInv
    <2>6. reply[current].kind = "result" => reply[current] # None
      BY <2>1
    <2>7. QED
      BY <1>1, <2>4, <2>5, <2>6 DEF PoolInv, ReadInv
  <1>8. OutcomeInv'
    BY <1>1, <1>2 DEF PoolInv, OutcomeInv
  <1>9. NoChildForgotten'
    BY <1>1 DEF PoolInv, NoChildForgotten, Gone
  <1>10. QED
    BY <1>4, <1>5, <1>6, <1>7, <1>8, <1>9 DEF PoolInv

\* Each step of a child is one.
LEMMA ChildKeeps ==
  ASSUME PoolInv, NEW k \in Requests,
         TakeFingerprint(k) \/ RunTests(k) \/ Answered(k) \/ ChildEnds(k)
  PROVE  PoolInv'
  <1>0. /\ TTypeOK /\ child \in [Requests -> Children] /\ reply \in [Requests -> Messages]
        /\ print \in [Requests -> 0 .. MaxSourceEdits] /\ source \in 0 .. MaxSourceEdits
    BY DEF PoolInv, TTypeOK
  <1>1. /\ reply[k] \in Messages /\ print[k] \in 0 .. MaxSourceEdits /\ child[k] \in Children
        /\ [reply EXCEPT ![k] = reply[k]] = reply /\ [print EXCEPT ![k] = print[k]] = print
        /\ [child EXCEPT ![k] = child[k]] = child
    BY <1>0
  <1>2. /\ Message("eof") \in Messages /\ Message("eof").kind = "eof"
        /\ Message("garbage") \in Messages /\ Message("garbage").kind = "garbage"
    BY PlainMessage
  <1>3. None.kind = "none"
    BY PlainMessage DEF None
  <1>4. reply[k].kind = "none" => reply[k] = None
    BY DEF PoolInv, ReplyInv
  <1>5. CASE TakeFingerprint(k) /\ Acceptable(k)
    <2>1. ChildStep(k, "fingerprinted", reply[k], source) /\ child[k] = "forked"
      BY <1>1, <1>5 DEF TakeFingerprint, ChildStep
    <2>2. ~Gone(k) /\ "fingerprinted" \in Children
      BY <2>1 DEF Gone, Children
    <2>3. QED
      BY <1>0, <1>1, <1>5, <2>1, <2>2, ChildStepKeeps
  <1>6. CASE TakeFingerprint(k) /\ ~Acceptable(k)
    <2>1. ChildStep(k, "failed", Message("eof"), print[k]) /\ child[k] = "forked"
      BY <1>1, <1>6 DEF TakeFingerprint, ChildStep
    <2>2. ~Gone(k) /\ "failed" \in Children
      BY <2>1 DEF Gone, Children
    <2>3. reply[k] = None
      BY <2>1 DEF PoolInv, ReplyInv
    <2>4. QED
      BY <1>1, <1>2, <2>1, <2>2, <2>3, ChildStepKeeps
  <1>7. CASE RunTests(k)
    <2>1. ChildStep(k, "ran", reply[k], print[k]) /\ child[k] = "fingerprinted"
      BY <1>1, <1>7 DEF RunTests, ChildStep
    <2>2. ~Gone(k) /\ "ran" \in Children
      BY <2>1 DEF Gone, Children
    <2>3. Acceptable(k)
      BY <2>1 DEF PoolInv, ReplyInv
    <2>4. QED
      BY <1>1, <2>1, <2>2, <2>3, ChildStepKeeps
  <1>8. CASE Answered(k)
    <2>1. child[k] = "ran"
      BY <1>8 DEF Answered
    <2>2. ~Gone(k) /\ "failed" \in Children /\ "answered" \in Children
      BY <2>1 DEF Gone, Children
    <2>3. Acceptable(k) /\ reply[k] = None
      BY <2>1 DEF PoolInv, ReplyInv
    <2>4. Result(k) \in Messages /\ Result(k).kind = "result"
      BY <1>1, <2>3 DEF Result, Messages, Acceptable, Requests
    <2>5. \/ ChildStep(k, "failed", reply[k], print[k])
          \/ ChildStep(k, "answered", Message("garbage"), print[k])
          \/ ChildStep(k, "answered", Result(k), print[k])
      BY <1>1, <1>8 DEF Answered, ChildStep
    <2>6. CASE ChildStep(k, "failed", reply[k], print[k])
      BY <1>1, <2>2, <2>6, ChildStepKeeps
    <2>7. CASE ChildStep(k, "answered", Message("garbage"), print[k])
      BY <1>1, <1>2, <2>2, <2>3, <2>7, ChildStepKeeps
    <2>8. CASE ChildStep(k, "answered", Result(k), print[k])
      BY <1>1, <2>2, <2>3, <2>4, <2>8, ChildStepKeeps
    <2>9. QED
      BY <2>5, <2>6, <2>7, <2>8
  <1>9. CASE ChildEnds(k)
    <2>1. ~Gone(k) /\ "failed" \in Children /\ "exited" \in Children
      BY <1>9 DEF ChildEnds, Children
    <2>2. \/ ChildStep(k, "exited", reply[k], print[k])
          \/ ChildStep(k, "failed", reply[k], print[k])
          \/ reply[k] = None /\ ChildStep(k, "failed", Message("eof"), print[k])
      BY <1>1, <1>9 DEF ChildEnds, ChildStep
    <2>3. CASE ChildStep(k, "exited", reply[k], print[k])
      BY <1>1, <2>1, <2>3, ChildStepKeeps
    <2>4. CASE ChildStep(k, "failed", reply[k], print[k])
      BY <1>1, <2>1, <2>4, ChildStepKeeps
    <2>5. CASE reply[k] = None /\ ChildStep(k, "failed", Message("eof"), print[k])
      BY <1>1, <1>2, <2>1, <2>5, ChildStepKeeps
    <2>6. QED
      BY <2>2, <2>3, <2>4, <2>5
  <1>10. QED
    BY <1>5, <1>6, <1>7, <1>8, <1>9

LEMMA EditSourceKeeps == PoolInv /\ EditSource => PoolInv'
  <1> SUFFICES ASSUME PoolInv, EditSource PROVE PoolInv'
    OBVIOUS
  <1>1. /\ UNCHANGED <<supervisor, current, request, child, stubborn, told, reply, outcome, print>>
        /\ source' \in 0 .. MaxSourceEdits
    BY MaxSourceEditsAssumption DEF EditSource, PoolInv, TTypeOK
  <1>2. TTypeOK'
    BY <1>1 DEF PoolInv, TTypeOK
  <1>3. CurrentInv' /\ ReadInv'
    BY <1>1 DEF PoolInv, CurrentInv, ReadInv
  <1>4. ReplyInv' /\ OutcomeInv'
    BY <1>1 DEF PoolInv, ReplyInv, OutcomeInv, Acceptable, Result, Selected
  <1>5. NoChildForgotten'
    BY <1>1 DEF PoolInv, NoChildForgotten, Gone
  <1>6. QED
    BY <1>2, <1>3, <1>4, <1>5 DEF PoolInv

LEMMA PoolNextKeeps == PoolInv /\ [TNext]_tvars => PoolInv'
  <1> SUFFICES ASSUME PoolInv, [TNext]_tvars PROVE PoolInv'
    OBVIOUS
  <1>1. CASE RunRequest
    BY <1>1, RunRequestKeeps
  <1>2. CASE Supervise
    BY <1>2, SuperviseKeeps
  <1>3. CASE EditSource
    BY <1>3, EditSourceKeeps
  <1>4. ASSUME NEW k \in Requests,
               TakeFingerprint(k) \/ RunTests(k) \/ Answered(k) \/ ChildEnds(k)
        PROVE  PoolInv'
    BY <1>4, ChildKeeps
  <1>5. CASE UNCHANGED tvars
    <2>1. TTypeOK'
      BY <1>5 DEF PoolInv, TTypeOK, tvars
    <2>2. CurrentInv' /\ ReadInv'
      BY <1>5 DEF PoolInv, CurrentInv, ReadInv, tvars
    <2>3. ReplyInv' /\ OutcomeInv'
      BY <1>5 DEF PoolInv, ReplyInv, OutcomeInv, Acceptable, Result, Selected, tvars
    <2>4. NoChildForgotten'
      BY <1>5 DEF PoolInv, NoChildForgotten, Gone, tvars
    <2>5. QED
      BY <2>1, <2>2, <2>3, <2>4 DEF PoolInv
  <1>6. QED
    BY <1>1, <1>2, <1>3, <1>4, <1>5 DEF TNext

\* What the pool returns is what it promises.
LEMMA PoolInvIsClosed == PoolInv => PoolFailsClosed
  <1> SUFFICES ASSUME PoolInv PROVE PoolFailsClosed
    OBVIOUS
  <1>1. ASSUME NEW k \in Requests, outcome[k].kind \notin {"none", "error", "timeout"}
        PROVE  /\ outcome[k].of = k /\ child[k] = "exited"
               /\ outcome[k].nodes = Selected(k) /\ Selected(k) # {} /\ Selected(k) \subseteq Micro
               /\ outcome[k].print = print[k]
    <2>1. outcome[k] = Result(k) /\ Acceptable(k) /\ child[k] = "exited"
      BY <1>1 DEF PoolInv, OutcomeInv
    <2>2. QED
      BY <2>1 DEF Result, Acceptable
  <1>2. QED
    BY <1>1 DEF PoolFailsClosed, AnswersItsRequest, PoolInv

\* Whatever a child does - late, hung, dead or stubborn - its request ends in
\* its own answer or in an error, and a child still there was told to stop.
THEOREM PoolAlwaysFailsClosed == TSpec => []PoolFailsClosed
  BY PoolInitInv, PoolNextKeeps, PoolInvIsClosed, PTL DEF TSpec
=============================================================================
