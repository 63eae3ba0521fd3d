------------------------------- MODULE MCStudy ------------------------------
(* The pipeline of a study, for TLC: four tasks of three lineages in one    *)
(* stratum, a key whose cycle is a derangement and one whose is not, and    *)
(* one record removed or published under a second name.  And the review of  *)
(* a study: three reviewers, two of one group, over two files.  They share  *)
(* no state, so one is at work in each behaviour.                           *)
EXTENDS StudyPipeline, ReviewCampaign

MCWord == 16

Row(task, lineage) ==
    [task |-> task, lineage |-> lineage, stratum |-> 1,
     slots |-> [o \in 1..4 |-> 10 * task + o]]

MCRoster == <<Row(1, 1), Row(2, 2), Row(3, 3), Row(4, 3)>>

MCStudies == {[study |-> "s1", key |-> "k1"], [study |-> "s2", key |-> "k2"]}

(* The keyed words.  k1 orders the tasks 1, 3, 2, 4 and its first offset is  *)
(* a derangement; k2 orders them 1, 2, 3, 4, where every offset pairs a      *)
(* lineage with itself or two tasks with each other.  The first draw of      *)
(* task 1 is a word that is rejected.                                        *)
MCHmac(key, message) ==
    LET place == IF key.master = "k1" THEN <<1, 3, 2, 4>> ELSE <<1, 2, 3, 4>>
    IN  CASE Len(message) = 4 -> place[message[4]]
          [] Len(message) = 3 -> (message[2] + 2 * message[3]) % 5
          [] OTHER -> IF message[1][2] = 1 /\ message[2] = 0 THEN 13
                      ELSE (5 * message[1][2] + message[2]) % 12

MCOutcomes ==
    {[triggers |-> {}, successes |-> {}], [triggers |-> {}, successes |-> {2}],
     [triggers |-> {1, 2, 3}, successes |-> {}], [triggers |-> {1, 2, 4}, successes |-> {2}],
     [triggers |-> {1, 2, 3, 4}, successes |-> {}]}

Symmetric == Permutations(Configs)

MCGroup == <<"inference", "inference", "integrity">>
MCNeeds == <<{"design"}, {"design", "manuscript"}, {"design"}>>
MCSlotOf == [design |-> "design", draft |-> "manuscript"]
MCPeerIn == [design |-> NoRole, draft |-> 2]
MCReceipts == [r1 |-> "v1"]
MCSupported == [c1 |-> TRUE, c2 |-> FALSE]

(* What the reviewers may say: blockers that can be grounded (one of them   *)
(* about results), majors, a minor one without a refutation, a blocker      *)
(* without evidence, a citation of a peer, a dependency on one.             *)
Cite(kind, where) == {[kind |-> kind, at |-> where, says |-> "v1"]}
MCFinding(id, severity, evidence, claims, refutable, measured) ==
    [id |-> id, severity |-> severity, evidence |-> evidence, claims |-> claims,
     refutable |-> refutable, measured |-> measured]
Answer(findings, depends) == [findings |-> findings, depends |-> depends]
RealBlocker(id) == MCFinding(id, "blocker", Cite("span", "design"), {"c1"}, TRUE, FALSE)
LaterBlocker == MCFinding(2, "blocker", Cite("artifact", "design"), {"c1", "c3"}, TRUE, TRUE)
Major(id) == MCFinding(id, "major", Cite("command", "make"), {"c1"}, TRUE, FALSE)
MinorOne == MCFinding(2, "minor", Cite("receipt", "r1"), {}, FALSE, FALSE)
PeerMajor == MCFinding(1, "major", Cite("span", "draft"), {"c2"}, TRUE, FALSE)
Doubt == MCFinding(1, "speculation", Cite("external", "s"), {}, TRUE, FALSE)
BareBlocker == MCFinding(2, "blocker", {}, {"c1"}, TRUE, FALSE)
MCAnswers ==
    <<{Answer(<<RealBlocker(1), LaterBlocker>>, {}), Answer(<<Major(1)>>, {})},
      {Answer(<<Major(1), Major(2)>>, {}), Answer(<<RealBlocker(1), MinorOne>>, {1}),
       Answer(<<Major(1), RealBlocker(1)>>, {})},
      {Answer(<<PeerMajor>>, {}), Answer(<<Doubt, BareBlocker>>, {})}>>

VARIABLE at    \* what is at work

Canned == [r \in Roles |-> CHOOSE answer \in Answers[r] : TRUE]

MCInit ==
    /\ Init /\ RInit /\ at \in {"study", "review"}
    /\ tree = [f \in Files |-> "v1"]
    /\ (at = "study" \/ spec.live) => transcripts = Canned
    /\ spec.stage = PreSubmission =>     \* the stage matters to results alone
          \E r \in Roles : \E i \in DOMAIN transcripts[r].findings : transcripts[r].findings[i].measured
    /\ at = "study" => ~spec.live /\ spec.stage = PreLaunch

MCNext ==
    \/ at = "study" /\ Next /\ UNCHANGED <<at, rvars>>
    \/ at = "review" /\ RNext /\ UNCHANGED <<at, vars>>
MCSpec == MCInit /\ [][MCNext]_<<at, vars, rvars>>

(* The type invariants are asserted on every state.                         *)
Typed == Assert(TypeOK /\ RTypeOK, "TypeOK")
=============================================================================
