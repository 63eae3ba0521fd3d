------------------------------ MODULE TestPool ------------------------------
(***************************************************************************)
(* The pool of sacrificial test workers (testd/): for every request the    *)
(* supervisor forks one child with a pipe of its own, sends the request,   *)
(* waits for an answer until a deadline and then for the child's exit.     *)
(* The child checks the request against the manifest, takes a fingerprint  *)
(* of the sources, runs the tests and answers once.  It may be late, hang, *)
(* ignore the signal that asks it to stop, or die; sources may change.     *)
(***************************************************************************)
EXTENDS Naturals, FiniteSets

CONSTANTS
    Micro, Forensic,   \* the manifest: nodes of the smoke tier, and the forensic ones
    SourcePaths,       \* paths that may change
    Structural,        \* those whose change may concern every test
    Importers,         \* for each path those that import it (transitive_edges)
    Consumers,         \* for each path the nodes that depend on it (dependencies)
    MaxRequests, MaxSourceEdits    \* bounds

ASSUME MaxRequestsAssumption == MaxRequests \in Nat
ASSUME MaxSourceEditsAssumption == MaxSourceEdits \in Nat

Requests == 1 .. MaxRequests

\* What a supervisor reads or returns; only a result has more than its kind.
Message(kind) == [kind |-> kind, of |-> 0, nodes |-> {}, print |-> 0]
None == Message("none")

VARIABLES
    supervisor,  \* idle, poll, receive, join
    current,     \* the number of the request
    request,     \* each request's command and nodes
    child,       \* each child: none, forked, fingerprinted, ran, answered, exited, failed, killed
    stubborn,    \* children that do not die from SIGTERM
    told,        \* children that were sent SIGTERM
    reply,       \* what is in each request's pipe: none, eof, garbage or a result (messages)
    outcome,     \* what the supervisor made of each request: none, error, timeout or a result
    source,      \* version of the sources
    print        \* the version each child's fingerprint is of

tvars == <<supervisor, current, request, child, stubborn, told, reply, outcome, source, print>>

-----------------------------------------------------------------------------
(* Selection.                                                              *)

\* _reachable: the path and what imports it, directly or not.
Reachable(path) ==
    LET within[n \in 0 .. Cardinality(SourcePaths)] ==
          IF n = 0 THEN {path} ELSE within[n - 1] \cup UNION {Importers[p] : p \in within[n - 1]}
    IN  within[Cardinality(SourcePaths)]

Dependents(path) == UNION {Consumers[p] : p \in Reachable(path)}

\* select: whatever is uncertain becomes the whole smoke tier.
Select(changed, failedBefore, forensic) ==
    CASE forensic -> Forensic
      [] failedBefore -> Micro
      [] changed = {} -> {}
      [] changed \cap Structural # {} \/ \E p \in changed : Dependents(p) = {} -> Micro
      [] OTHER -> UNION {Dependents(p) : p \in changed}

-----------------------------------------------------------------------------
(* The supervisor: LinuxPool.run.                                          *)

Gone(k) == child[k] \in {"none", "exited", "failed", "killed"}

\* terminate, then join for a second.
Terminated(k) ==
    /\ told' = IF Gone(k) THEN told ELSE told \cup {k}
    /\ child' \in IF Gone(k) \/ k \in stubborn THEN {child}
                  ELSE {child, [child EXCEPT ![k] = "killed"]}

\* The end of a call; finally, the pipe is closed and a child that is still
\* there is terminated.
Conclude(what) ==
    /\ supervisor' = "idle" /\ outcome' = [outcome EXCEPT ![current] = what]
    /\ Terminated(current)

TInit ==
    /\ supervisor = "idle" /\ current = 0 /\ source = 0
    /\ request = [k \in Requests |-> [command |-> "none", nodes |-> {}]]
    /\ child = [k \in Requests |-> "none"] /\ stubborn \in SUBSET Requests /\ told = {}
    /\ reply = [k \in Requests |-> None] /\ outcome = [k \in Requests |-> None]
    /\ print = [k \in Requests |-> 0]

\* A caller's request, for the nodes it selected; a pipe, a fork and the
\* request sent, unless one of them fails: a child that got no request will
\* find the pipe closed.
RunRequest ==
    /\ supervisor = "idle" /\ current < MaxRequests /\ current' = current + 1
    /\ \/ /\ \/ \E changed \in SUBSET SourcePaths, failedBefore, forensic \in BOOLEAN :
                   request' = [request EXCEPT ![current + 1] =
                                 [command |-> "run", nodes |-> Select(changed, failedBefore, forensic)]]
             \/ \E command \in {"smoke", "status"} :
                   request' = [request EXCEPT ![current + 1] = [command |-> command, nodes |-> {}]]
          /\ supervisor' = "poll" /\ child' = [child EXCEPT ![current + 1] = "forked"]
          /\ UNCHANGED <<outcome, told>>
       \/ /\ outcome' = [outcome EXCEPT ![current + 1] = Message("error")]
          /\ \/ UNCHANGED <<child, told>>
             \/ /\ told' = told \cup {current + 1}
                /\ \E end \in {"forked", "killed"} :
                      /\ current + 1 \in stubborn => end = "forked"
                      /\ child' = [child EXCEPT ![current + 1] = end]
          /\ UNCHANGED <<supervisor, request>>
    /\ UNCHANGED <<stubborn, reply, source, print>>

\* poll: there is something to read, or the deadline.
PollReady ==
    /\ supervisor = "poll" /\ reply[current] # None /\ supervisor' = "receive"
    /\ UNCHANGED <<current, request, child, stubborn, told, reply, outcome, source, print>>

PollDeadline ==
    /\ supervisor = "poll" /\ reply[current] = None
    /\ Conclude(Message("timeout"))
    /\ UNCHANGED <<current, request, stubborn, reply, source, print>>

\* receive_message: an end of file or a message outside the protocol is an error.
ReceiveReply ==
    /\ supervisor = "receive"
    /\ IF reply[current].kind \in {"eof", "garbage"}
       THEN Conclude(Message("error"))
       ELSE supervisor' = "join" /\ UNCHANGED <<outcome, told, child>>
    /\ UNCHANGED <<current, request, stubborn, reply, source, print>>

\* A faulty join, for mutation: any child that is gone will do.
JoinAnyExit ==
    /\ supervisor = "join"
    /\ IF Gone(current) THEN Conclude(reply[current]) ELSE Conclude(Message("error"))
    /\ UNCHANGED <<current, request, stubborn, reply, source, print>>

\* join for a second: the child must be gone, with status 0.
JoinChild ==
    /\ supervisor = "join"
    /\ IF child[current] = "exited" THEN Conclude(reply[current])
       ELSE Conclude(Message("error"))
    /\ UNCHANGED <<current, request, stubborn, reply, source, print>>

-----------------------------------------------------------------------------
(* The children.                                                           *)

\* build_args: only runs, of nodes of the manifest.
Selected(k) == IF request[k].command = "smoke" THEN Micro ELSE request[k].nodes
Acceptable(k) ==
    /\ request[k].command \in {"run", "smoke"}
    /\ Selected(k) # {} /\ Selected(k) \subseteq Micro

\* execute: a request that is not acceptable raises, and the pipe is closed.
TakeFingerprint(k) ==
    /\ child[k] = "forked"
    /\ IF Acceptable(k)
       THEN child' = [child EXCEPT ![k] = "fingerprinted"]
            /\ print' = [print EXCEPT ![k] = source] /\ UNCHANGED reply
       ELSE child' = [child EXCEPT ![k] = "failed"] /\ reply' = [reply EXCEPT ![k] = Message("eof")]
            /\ UNCHANGED print
    /\ UNCHANGED <<supervisor, current, request, stubborn, told, outcome, source>>

\* pytest reads the sources when it runs.
RunTests(k) ==
    /\ child[k] = "fingerprinted" /\ child' = [child EXCEPT ![k] = "ran"]
    /\ UNCHANGED <<supervisor, current, request, stubborn, told, reply, outcome, source, print>>

Result(k) == [kind |-> "result", of |-> k, nodes |-> Selected(k), print |-> print[k]]

\* The answer, if the supervisor still holds the pipe; what else a child's code
\* writes there is garbage.
Answered(k) ==
    /\ child[k] = "ran"
    /\ IF k = current /\ supervisor # "idle"
       THEN /\ reply' \in {[reply EXCEPT ![k] = r] :
                             r \in {Message("garbage"), Result(k)}}
            /\ child' = [child EXCEPT ![k] = "answered"]
       ELSE child' = [child EXCEPT ![k] = "failed"] /\ UNCHANGED reply
    /\ UNCHANGED <<supervisor, current, request, stubborn, told, outcome, source, print>>

\* The end: with status 0 after the answer, or by an error at any time.
ChildEnds(k) ==
    /\ ~Gone(k)
    /\ \/ child[k] = "answered" /\ child' = [child EXCEPT ![k] = "exited"] /\ UNCHANGED reply
       \/ /\ child' = [child EXCEPT ![k] = "failed"]
          /\ reply' = IF reply[k] = None THEN [reply EXCEPT ![k] = Message("eof")] ELSE reply
    /\ UNCHANGED <<supervisor, current, request, stubborn, told, outcome, source, print>>

EditSource ==
    /\ source < MaxSourceEdits /\ source' = source + 1
    /\ UNCHANGED <<supervisor, current, request, child, stubborn, told, reply, outcome, print>>

-----------------------------------------------------------------------------
Supervise == PollReady \/ PollDeadline \/ ReceiveReply \/ JoinChild
TNext ==
    \/ RunRequest \/ Supervise \/ EditSource
    \/ \E k \in Requests : TakeFingerprint(k) \/ RunTests(k) \/ Answered(k) \/ ChildEnds(k)

\* The supervisor is one thread whose waits all have a limit.
TSpec == TInit /\ [][TNext]_tvars /\ WF_tvars(Supervise)

-----------------------------------------------------------------------------
Messages == [kind : {"none", "eof", "garbage", "error", "timeout", "result"}, of : 0 .. MaxRequests,
             nodes : SUBSET Micro, print : 0 .. MaxSourceEdits]
Children == {"none", "forked", "fingerprinted", "ran", "answered", "exited", "failed", "killed"}

\* Every variable has its type.
TTypeOK ==
    /\ supervisor \in {"idle", "poll", "receive", "join"} /\ current \in 0 .. MaxRequests
    /\ DOMAIN request = Requests
    /\ child \in [Requests -> Children]
    /\ told \subseteq Requests /\ stubborn \subseteq Requests
    /\ reply \in [Requests -> Messages] /\ outcome \in [Requests -> Messages]
    /\ source \in 0 .. MaxSourceEdits /\ print \in [Requests -> 0 .. MaxSourceEdits]

\* A child outlives its request only if it ignored the signal or was too slow
\* for the second it was given.
NoChildForgotten ==
    \A k \in Requests : (k < current \/ supervisor = "idle") /\ ~Gone(k) => k \in told

\* A result handed to a caller is the answer of the child forked for that very
\* request, which had exited with status 0, for exactly the nodes requested, all
\* of the manifest.  A late answer is never one: not of this request after its
\* deadline, and not of the next.
AnswersItsRequest ==
    \A k \in Requests : outcome[k].kind \notin {"none", "error", "timeout"} =>
        /\ outcome[k].of = k /\ child[k] = "exited"
        /\ outcome[k].nodes = Selected(k) /\ Selected(k) # {} /\ Selected(k) \subseteq Micro
        /\ outcome[k].print = print[k]

\* Whatever a child does, its request ends in its answer or in an error, and a
\* child that is still there was told to stop.
PoolFailsClosed == AnswersItsRequest /\ NoChildForgotten
=============================================================================
