----------------------------- MODULE MCFoundation -----------------------------
(* A small stage for FoundationTraining: nine rows of two lanes, one        *)
(* evaluation family, two kinds of runs.                                    *)
EXTENDS FoundationTraining

R(lane, repo, task, resolved, size) ==
    [lane |-> lane, repo |-> repo, task |-> task, resolved |-> resolved, size |-> size, ok |-> TRUE]

\* Rows 1-4 and 8 are of the named lane, 5-7 and 9 of the digest-only lane.
\* Row 2 repeats row 1; row 4's and row 6's repository is evaluated; row 8
\* does not parse.
MCRow ==
    << R("openhands", "a", 11, TRUE, 2), R("openhands", "a", 11, TRUE, 2),
       R("openhands", "b", 12, FALSE, 1), R("openhands", "e", 13, TRUE, 1),
       R("ost", "c", 14, FALSE, 1), R("ost", "e", 15, FALSE, 1), R("ost", "d", 16, TRUE, 2),
       [R("openhands", "a", 17, FALSE, 1) EXCEPT !.ok = FALSE],
       R("ost", "b", 19, TRUE, 9) >>
MCBucket == [key \in {"name", "digest"} \X {"a", "b", "c", "d", "e"} |->
                IF key = <<"digest", "b">> THEN 85 ELSE 10]
MCIdentity(repo, task) == [family |-> "swe", repo |-> repo, task |-> task]
MCInitial ==
    [path \in Sources(Stage) |->
        CASE path[2] = "openhands" -> {1, 2, 3, 4}
          [] path[2] = "ost" -> {5, 6, 7}
          [] OTHER -> {MCIdentity("e", 13)}]
MCNewIdentities == {MCIdentity("a", 20)}
MCNewLeaks == {<<"digest", "b">>}
MCRequests == {[seed |-> 1, lr |-> 1], [seed |-> 2, lr |-> 2]}
MCOrder(seed, n) == [k \in 1 .. n |-> IF seed = 1 THEN k ELSE n + 1 - k]

\* Two runs follow one undisturbed preparation, or the second one resumes
\* after the stage was prepared again at another commit; a run beside a
\* preparation is tried where nothing else was edited, and one kind of run
\* after two preparations and an edit.  Dry runs come first.
Budget ==
    /\ runs = 2 => used.edits + used.prepares = 1 \/ (world.commit = 2 /\ used.prepares = 2)
    /\ run.pc # "idle" => prep.pc = "idle" \/ used.edits = 0
    /\ prep.pc # "idle" => ~prep.dry \/ used.prepares = 1
    /\ run.pc # "idle" => world.broken = {}
    /\ run.pc # "idle" /\ used.edits + used.prepares = 3 => run.lr = 1

\* Once a run has loaded its shard it shares nothing with the stage: the
\* stage's steps commute with the rest of the run.  Before the first run they
\* are taken in every order; later, while a run allocates, and after a run that
\* was paused, for one preparation that nothing disturbs.
Paused == run.pc = "idle" /\ output.status = "paused" /\ DOMAIN files = {1}
Undisturbed ==
    /\ prep.pc # "idle" => UNCHANGED world
    /\ prep'.pc = "idle" => prep.pc \in {"idle", "candidate"}
Commuting ==
    \/ runs = 0 \/ UNCHANGED stageVars
    \/ (run.pc = "load" /\ UNCHANGED prep)
    \/ runs' # runs
    \/ (Paused /\ Undisturbed)

Typed == Assert(FoundationTypeOK, "FoundationTypeOK")
===============================================================================
