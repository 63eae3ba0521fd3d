------------------------------ MODULE MCBranch ------------------------------
(* The branch stage, for TLC: two tasks of two slots, one of them guided.  *)
(* And the packets of one task: three slots, one of them without a packet, *)
(* over what the two verifiers may have found.  They share no state, so    *)
(* one is at work in each behaviour.                                       *)
EXTENDS BranchBlock, PacketPair, TLC

Symmetric == Permutations(Slots)

(* Findings.  The task names a symbol f and a file g, its donor a symbol   *)
(* d e, which two literals spell out together, and a file h.               *)
Lit(text) == [kind |-> "literal", text |-> text]
Sym(text) == [kind |-> "symbol", text |-> text]
Fil(text) == [kind |-> "file", text |-> text]
Found(id, code, severity, atoms) ==
    [id |-> <<id>>, component |-> <<"c">>, code |-> <<code>>, severity |-> <<severity>>, atoms |-> atoms]
Own == Sym(<<"f">>)
Foreign == Sym(<<"d", "e">>)

MCFocalTask == <<"F">>
MCDonorTask == <<"D">>

Told(focal, donor) ==
    [focal |-> [task |-> MCFocalTask, findings |-> focal, count |-> Len(focal)],
     donor |-> [task |-> MCDonorTask, findings |-> donor, count |-> Len(donor)]]

One == <<Found("1", "k", "s", <<Lit(<<"w">>), Own>>)>>
Two == <<Found("1", "k", "s", <<Lit(<<"w", " ">>), Own, Lit(<<" ", "v">>)>>),
         Found("2", "k", "t", <<Fil(<<"g">>)>>)>>

(* Evidence that is shorter, as long, and longer than the task's, that is  *)
(* cut, that cannot be made to fit, that collides with the task's, that    *)
(* names the donor across two literals, and that is reported twice.        *)
MCReports ==
    {Told(One, <<Found("3", "k", "t", <<Lit(<<"x", " ">>), Foreign>>)>>),
     Told(One, <<Found("3", "m", "t", <<Foreign, Lit(<<" ", "d">>), Lit(<<"e">>)>>)>>),
     Told(One, <<Found("3", "k", "t", <<Lit(<<"w">>), Foreign>>)>>),
     Told(One, <<Found("3", "k", "t", <<Lit(<<"x", " ", "y", " ", "z">>), Foreign>>)>>),
     Told(Two, <<Found("3", "m", "t", <<Foreign, Lit(<<" ", "x">>)>>),
                 Found("4", "k", "t", <<Fil(<<"h">>), Lit(<<"x">>)>>)>>),
     Told(Two, <<Found("3", "m", "t", <<Fil(<<"h">>), Lit(<<" ", "x", " ", "y">>)>>)>>),
     Told(Two, <<Found("3", "k", "t", <<Foreign>>), Found("3", "k", "t", <<Fil(<<"h">>)>>)>>),
     Told(<<Found("1", "k", "s", <<Own, Lit(<<"d", "e">>)>>)>>, <<Found("3", "k", "t", <<Foreign>>)>>)}

MCPolicies == {[findings |-> 2, tokens |-> 2, units |-> {<<" ", ".">>, <<".">>}]}

MCArmOf == [g1 |-> "REAL", g2 |-> "SHAM", g3 |-> "NONE"]
MCPlaces == {[real |-> "g1", sham |-> "g2"], [real |-> "g2", sham |-> "g1"]}

VARIABLE working    \* what is at work

CannedReports == CHOOSE r \in Reports : TRUE
CannedFacts == CHOOSE f \in [Tasks -> Facts] : TRUE

MCInit ==
    \/ working = "block" /\ reports = CannedReports /\ Init /\ PInit
    \/ working = "packets" /\ facts = CannedFacts /\ Init /\ PInit

MCNext ==
    \/ working = "block" /\ Next /\ UNCHANGED <<working, pvars>>
    \/ working = "packets" /\ PNext /\ UNCHANGED <<working, vars>>
MCSpec == MCInit /\ [][MCNext]_<<working, vars, pvars>>

(* The type invariants are asserted on every state.                        *)
Typed == Assert(TypeOK /\ PTypeOK, "TypeOK")
=============================================================================
