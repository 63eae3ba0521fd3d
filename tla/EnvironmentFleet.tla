-------------------------- MODULE EnvironmentFleet --------------------------
(***************************************************************************)
(* The workers of one prefix (resampling_null/synthetic_environment.py):   *)
(* each is a child process with a pipe pair and a writable root directory  *)
(* of its own.  The controller allocates the roots, starts the workers,    *)
(* exchanges one request and one answer at a time and at the end closes    *)
(* everything: it asks the worker to leave, closes the pipes, reaps the    *)
(* process (poll, terminate, wait, kill, wait) and only then removes the   *)
(* root.                                                                   *)
(*                                                                         *)
(* A worker may answer late, hang, exit on its own or ignore the polite    *)
(* signal; every system call of the controller may fail; somebody else may *)
(* put another directory under a root's name; roots of a controller that   *)
(* was killed earlier may still be there.                                  *)
(***************************************************************************)
EXTENDS Naturals, Sequences, FiniteSets

CONSTANTS
    N,          \* number of workers, in the order they are started: the live
                \* one, its restored twin, then one to grade and one to verify
    Suffixes,   \* number of names tried for a root (_ROOT_SUFFIX_ATTEMPTS)
    MaxOps      \* bound: operations after the workers have started

ASSUME NAssumption == N \in Nat \ {0, 1}
ASSUME SuffixesAssumption == Suffixes \in Nat \ {0}
ASSUME MaxOpsAssumption == MaxOps \in Nat

VARIABLES
    pc,       \* the controller's step
    cur,      \* the worker it is about
    todo,     \* workers still to be cleaned up
    ops,      \* operations made
    left,     \* each worker's root names taken by an earlier controller
    root,     \* each root: none, mine, moved (another directory has the name), gone
    cleared,  \* roots whose contents the controller removed
    proc,     \* each process: none, alive, hung, exited, failed
    reaped,   \* processes the controller has reaped
    asked,    \* requests in each worker's pipe
    said,     \* answers in each worker's pipe
    open,     \* workers whose pipes the controller holds
    started,  \* workers that answered start
    matched,  \* every answer taken outside of close was for its question
    errors    \* workers for which close reports an error

vars == <<pc, cur, todo, ops, left, root, cleared, proc, reaped, asked, said, open, started,
          matched, errors>>

Workers == 1 .. N
Questions == {"start", "work", "close"}
Running(i) == proc[i] \in {"alive", "hung"}
Goto(label) == pc' = label
Fault(i) == errors' = errors \cup {i}

Init ==
    /\ pc = "root" /\ cur = 1 /\ todo = <<>> /\ ops = 0
    /\ left \in [Workers -> 0 .. Suffixes]
    /\ root = [i \in Workers |-> "none"] /\ cleared = {}
    /\ proc = [i \in Workers |-> "none"] /\ reaped = {}
    /\ asked = [i \in Workers |-> <<>>] /\ said = [i \in Workers |-> <<>>]
    /\ open = {} /\ started = {} /\ matched = TRUE /\ errors = {}

-----------------------------------------------------------------------------
(* Starting.                                                               *)

\* A failure while worker i is set up: i is cleaned up first, then the
\* workers that are already the fleet's, in order.
Unwind(i) ==
    /\ todo' = <<i>> \o [k \in 1 .. i - 1 |-> k]
    /\ Fault(i) /\ Goto("next")

\* _allocate_root: the first free name; when none is left there is nothing to
\* clean up for this worker.
AllocateRoot ==
    /\ pc = "root"
    /\ \/ left[cur] < Suffixes /\ root' = [root EXCEPT ![cur] = "mine"]
          /\ Goto("popen") /\ UNCHANGED <<todo, errors>>
       \/ left[cur] < Suffixes /\ root' = [root EXCEPT ![cur] = "mine"] /\ Unwind(cur)
       \/ left[cur] = Suffixes /\ Unwind(cur) /\ UNCHANGED root
    /\ UNCHANGED <<cur, ops, left, cleared, proc, reaped, asked, said, open, started, matched>>

\* spawn: pipes and process.  It may fail before or after the process exists.
\* The first two are spawned together, the others when they are needed.
Spawn ==
    /\ pc = "popen"
    /\ \/ /\ proc' = [proc EXCEPT ![cur] = "alive"] /\ open' = open \cup {cur}
          /\ cur' = IF cur <= 2 THEN 3 - cur ELSE cur
          /\ Goto(IF cur = 1 THEN "root" ELSE "start") /\ UNCHANGED <<todo, errors>>
       \/ /\ proc' \in {proc, [proc EXCEPT ![cur] = "alive"]}
          /\ Unwind(cur) /\ UNCHANGED <<open, cur>>
    /\ UNCHANGED <<ops, left, root, cleared, reaped, asked, said, started, matched>>

-----------------------------------------------------------------------------
(* One exchange.                                                           *)

\* close of the whole fleet, after a failure or at the end.
CloseAll ==
    todo' = [k \in 1 .. Cardinality({i \in Workers : proc[i] # "none"}) |-> k] /\ Goto("next")

Ask(i, op) == asked' = [asked EXCEPT ![i] = Append(@, op)]

\* The first question to each worker.
AskStart ==
    /\ pc = "start"
    /\ Ask(cur, "start") /\ Goto("answer")
    /\ UNCHANGED <<cur, todo, ops, left, root, cleared, proc, reaped, said, open, started,
                   matched, errors>>

\* Any later operation, to any worker of the fleet.
AskOperation ==
    /\ pc = "serve" /\ ops < MaxOps
    /\ \E i \in started : cur' = i /\ Ask(i, "work")
    /\ ops' = ops + 1 /\ Goto("answer")
    /\ UNCHANGED <<todo, left, root, cleared, proc, reaped, said, open, started, matched, errors>>

\* A fresh worker, to grade or to verify the frozen state.
SpawnAnother ==
    /\ pc = "serve" /\ \E i \in Workers : proc[i] = "none"
    /\ cur' = 1 + Cardinality({i \in Workers : proc[i] # "none"}) /\ Goto("root")
    /\ UNCHANGED <<todo, ops, left, root, cleared, proc, reaped, asked, said, open, started,
                   matched, errors>>

Question == IF cur \in started THEN "work" ELSE "start"

\* exchange: exactly one frame, with a good answer.
TakeAnswer ==
    /\ pc = "answer" /\ Len(said[cur]) = 1
    /\ said' = [said EXCEPT ![cur] = <<>>]
    /\ matched' = (matched /\ Head(said[cur]) = Question)
    /\ started' = started \cup {cur}
    /\ IF cur = 1 /\ 2 \notin started THEN cur' = 2 /\ Goto("start")
       ELSE UNCHANGED cur /\ Goto("serve")
    /\ UNCHANGED <<todo, ops, left, root, cleared, proc, reaped, asked, open, errors>>

\* A faulty timeout, for mutation: the controller goes on with the next question.
AnswerSkipped ==
    /\ pc = "answer" /\ Goto("serve") /\ started' = started \cup {cur}
    /\ UNCHANGED <<cur, todo, ops, left, root, cleared, proc, reaped, asked, said, open,
                   matched, errors>>

\* No answer in time, end of file, a refusal or a mismatch: the fleet is
\* closed, no further question is asked but the one that closes.
AnswerFails ==
    /\ pc = "answer"
    /\ CloseAll /\ Fault(cur)
    /\ UNCHANGED <<cur, ops, left, root, cleared, proc, reaped, asked, said, open, started, matched>>

\* The prefix is done, or fails elsewhere.
Finish ==
    /\ pc = "serve" /\ CloseAll
    /\ UNCHANGED <<cur, ops, left, root, cleared, proc, reaped, asked, said, open, started,
                   matched, errors>>

-----------------------------------------------------------------------------
(* Closing, one worker after the other.                                    *)

\* The next worker; one that answered start is asked to leave.
CloseNext ==
    /\ pc = "next" /\ todo # <<>>
    /\ cur' = Head(todo) /\ todo' = Tail(todo)
    /\ \/ /\ Head(todo) \in started /\ Ask(Head(todo), "close") /\ Goto("leave")
       \/ /\ Head(todo) \notin started /\ Goto("pipes") /\ UNCHANGED asked
    /\ UNCHANGED <<ops, left, root, cleared, proc, reaped, said, open, started, matched, errors>>

\* An answer (even a late one to an earlier question) or the timeout.
Leave ==
    /\ pc = "leave" /\ Goto("pipes")
    /\ \/ Len(said[cur]) = 1 /\ said' = [said EXCEPT ![cur] = <<>>] /\ UNCHANGED errors
       \/ UNCHANGED said /\ Fault(cur)
    /\ UNCHANGED <<cur, todo, ops, left, root, cleared, proc, reaped, asked, open, started, matched>>

\* ipc.close.
ClosePipes ==
    /\ pc = "pipes" /\ open' = open \ {cur}
    /\ asked' = [asked EXCEPT ![cur] = <<>>] /\ said' = [said EXCEPT ![cur] = <<>>]
    /\ Goto(IF proc[cur] = "none" THEN "clear" ELSE "poll")
    /\ \/ UNCHANGED errors \/ Fault(cur)
    /\ UNCHANGED <<cur, todo, ops, left, root, cleared, proc, reaped, started, matched>>

\* _cleanup_process: an exited worker is reaped (a failure is reported); any
\* other is terminated.
Poll ==
    /\ pc = "poll"
    /\ \/ ~Running(cur) /\ reaped' = reaped \cup {cur} /\ Goto("clear")
          /\ (IF proc[cur] = "failed" THEN Fault(cur) ELSE UNCHANGED errors)
          /\ UNCHANGED proc
       \/ Running(cur) /\ Goto("wait") /\ UNCHANGED <<reaped, errors>>
          /\ proc' \in {proc, [proc EXCEPT ![cur] = "failed"]}
    /\ UNCHANGED <<cur, todo, ops, left, root, cleared, asked, said, open, started, matched>>

\* A faulty wait, for mutation: without a limit.
WaitForever ==
    /\ pc = "wait"
    /\ ~Running(cur) /\ reaped' = reaped \cup {cur} /\ Goto("clear")
    /\ UNCHANGED <<cur, todo, ops, left, root, cleared, proc, asked, said, open, started,
                   matched, errors>>

\* wait, bounded, then kill; if not even the state of the process can be
\* read, it is not reaped.
Wait ==
    /\ pc = "wait"
    /\ \/ ~Running(cur) /\ reaped' = reaped \cup {cur} /\ Goto("clear")
          /\ UNCHANGED <<proc, errors>>
       \/ Running(cur) /\ Goto("wait again") /\ UNCHANGED <<reaped, errors>>
          /\ proc' \in {proc, [proc EXCEPT ![cur] = "failed"]}
       \/ Goto("keep") /\ Fault(cur) /\ UNCHANGED <<proc, reaped>>
    /\ UNCHANGED <<cur, todo, ops, left, root, cleared, asked, said, open, started, matched>>

\* A faulty end, for mutation: the killed process is taken for reaped.
WaitTrusting ==
    /\ pc = "wait again" /\ reaped' = reaped \cup {cur} /\ Goto("clear")
    /\ UNCHANGED <<cur, todo, ops, left, root, cleared, proc, asked, said, open, started,
                   matched, errors>>

\* wait after kill, bounded: without a reap the root is kept.
WaitAgain ==
    /\ pc = "wait again"
    /\ \/ ~Running(cur) /\ reaped' = reaped \cup {cur} /\ Goto("clear") /\ UNCHANGED errors
       \/ Goto("keep") /\ Fault(cur) /\ UNCHANGED reaped
    /\ UNCHANGED <<cur, todo, ops, left, root, cleared, proc, asked, said, open, started, matched>>

\* _cleanup_owned_root with allow_removal false.
KeepRoot ==
    /\ pc = "keep" /\ Goto("next")
    /\ UNCHANGED <<cur, todo, ops, left, root, cleared, proc, reaped, asked, said, open, started,
                   matched, errors>>

\* _cleanup_owned_root: the contents go through the held descriptor, the name
\* is removed only if it still is ours; whatever fails is reported.
ClearRoot ==
    /\ pc = "clear" /\ Goto("next")
    /\ \/ root[cur] = "mine" /\ cleared' = cleared \cup {cur}
          /\ root' = [root EXCEPT ![cur] = "gone"] /\ UNCHANGED errors
       \/ root[cur] # "none" /\ Fault(cur) /\ cleared' \in {cleared, cleared \cup {cur}}
          /\ UNCHANGED root
       \/ root[cur] = "none" /\ UNCHANGED <<cleared, root, errors>>
    /\ UNCHANGED <<cur, todo, ops, left, proc, reaped, asked, said, open, started, matched>>

Closed ==
    /\ pc = "next" /\ todo = <<>> /\ Goto("closed")
    /\ UNCHANGED <<cur, todo, ops, left, root, cleared, proc, reaped, asked, said, open, started,
                   matched, errors>>

-----------------------------------------------------------------------------
(* The workers and the others.                                             *)

\* One request, one answer; close ends the worker.
Reply(i) ==
    /\ proc[i] = "alive" /\ asked[i] # <<>>
    /\ asked' = [asked EXCEPT ![i] = Tail(@)]
    /\ said' = [said EXCEPT ![i] = Append(@, Head(asked[i]))]
    /\ proc' = IF Head(asked[i]) = "close" THEN [proc EXCEPT ![i] = "exited"] ELSE proc
    /\ UNCHANGED <<pc, cur, todo, ops, left, root, cleared, reaped, open, started, matched, errors>>

\* A worker whose pipes are closed leaves; it may also hang or fail.
WorkerStops(i) ==
    /\ proc[i] = "alive"
    /\ proc' \in {[proc EXCEPT ![i] = s] :
                     s \in {"hung", "failed"} \cup (IF i \in open THEN {} ELSE {"exited"})}
    /\ UNCHANGED <<pc, cur, todo, ops, left, root, cleared, reaped, asked, said, open, started,
                   matched, errors>>

\* Another directory is put under the name of a root.
Foreign(i) ==
    /\ root[i] = "mine" /\ pc \in {"serve", "clear"}
    /\ root' = [root EXCEPT ![i] = "moved"]
    /\ UNCHANGED <<pc, cur, todo, ops, left, cleared, proc, reaped, asked, said, open, started,
                   matched, errors>>

-----------------------------------------------------------------------------
Controller ==
    \/ AllocateRoot \/ Spawn \/ AskStart \/ AskOperation \/ TakeAnswer \/ AnswerFails
    \/ SpawnAnother \/ Finish
    \/ CloseNext \/ Leave \/ ClosePipes \/ Poll \/ Wait \/ WaitAgain \/ KeepRoot \/ ClearRoot
    \/ Closed
Next == Controller \/ \E i \in Workers : Reply(i) \/ WorkerStops(i) \/ Foreign(i)

\* The controller is one thread whose waits all have a limit; nothing is
\* assumed of the workers.
Spec == Init /\ [][Next]_vars /\ WF_vars(Controller)

-----------------------------------------------------------------------------
\* Every variable has its type.
TypeOK ==
    /\ pc \in {"root", "popen", "start", "answer", "serve", "next", "leave", "pipes", "poll",
               "wait", "wait again", "keep", "clear", "closed"}
    /\ cur \in Workers /\ ops \in 0 .. MaxOps
    /\ todo \in Seq(Workers)
    /\ left \in [Workers -> 0 .. Suffixes]
    /\ root \in [Workers -> {"none", "mine", "moved", "gone"}]
    /\ proc \in [Workers -> {"none", "alive", "hung", "exited", "failed"}]
    /\ cleared \cup reaped \cup open \cup started \cup errors \subseteq Workers
    /\ matched \in BOOLEAN
    /\ asked \in [Workers -> Seq(Questions)] /\ said \in [Workers -> Seq(Questions)]

\* An answer the controller uses is the answer to the question it asked: a
\* worker that is late can never have an old answer taken for a new one.
AnswersMatch == matched

\* The contents of a root are removed only once its worker cannot write there
\* any more.
NoLiveRootCleared == \A i \in cleared : ~Running(i)

\* When the fleet is closed, everything still there (a root, a process that
\* runs or was never reaped) is named in the error.
LeftoversReported ==
    pc = "closed" => \A i \in Workers :
        (root[i] \in {"mine", "moved"} \/ (proc[i] # "none" /\ i \notin reaped)) => i \in errors

\* Closing is safe and complete: nothing a live worker uses is removed, and
\* nothing that could not be removed is forgotten.
CleanupIsHonest == NoLiveRootCleared /\ LeftoversReported

\* Whatever the workers do, the controller comes to an end.
FleetCloses == <>(pc = "closed")
=============================================================================
