----------------------------- MODULE MCPolicyMerge -----------------------------
EXTENDS PolicyMerge, TLC

CONSTANTS c1, c2, ciRun, v1Run, python

(* The first commit changes a binding's source and its tests, the second is *)
(* a dependency bump with as many files.                                    *)
MCDiff ==
    c1 :> [changed |-> 2, listed |-> 2, touches |-> {python, "test"},
           shown |-> {python, "test"}, same |-> {python}, bump |-> FALSE, ran |-> 2]
    @@ c2 :> [changed |-> 2, listed |-> 2, touches |-> {"manifest"}, shown |-> {"manifest"},
              same |-> {}, bump |-> TRUE, ran |-> 2]
MCCommit == {c1, c2}
MCWorkflow == {ciRun, v1Run}
MCBinding == {python}
MCCount == {2, 3}
=============================================================================
