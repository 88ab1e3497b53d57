----------------------------- MODULE MCWorkflow -----------------------------
EXTENDS Workflow

CONSTANTS c1, c2, v1, v2, v3

Cmds(a) == [n \in {"red", "target", "harness"} |->
              [expect |-> IF n = "red" THEN "fail" ELSE "pass", argv |-> IF n = "target" THEN a ELSE 1]]

MCTask ==
    [c \in Contracts |->
       [sensitive |-> TRUE, revision |-> IF c = c1 THEN 1 ELSE 2, max |-> 1, cmds |-> Cmds(1),
        classes |-> {"replay"}, nonGoals |-> TRUE, allowed |-> {"a", "l"}]]

MCChanges == [vb \in Versions \X Bases |-> IF vb[1] = v3 THEN {"b", "l"} ELSE IF vb = <<v2, "b2">> THEN {"a", "b"} ELSE {"a"}]

MCReviews(versions) ==
    [phase : {"spec"}, passed : BOOLEAN, digest : {c1}, revision : {1}, covered : {{"replay"}},
     counterexamples : {TRUE}, snap : {[base |-> "b1", digest |-> <<v1, c1>>]}]
    \cup
    [phase : {"implementation"}, passed : BOOLEAN, digest : {c1}, revision : {1}, covered : {{}},
     counterexamples : {FALSE}, snap : {[base |-> "b1", digest |-> <<v, c1>>] : v \in versions}]

MCStart == <<c1, v1, "b1">>

MCReviewPool == MCReviews({v1})

\* One command after the other on changing trees, with a report on trees in scope
\* and not, or two commands at a time.
MCBudgets == {[runners |-> {"r1"}, runs |-> 3, acts |-> 3, trees |-> {v1, v2}, reports |-> FALSE],
              [runners |-> {"r1"}, runs |-> 3, acts |-> 2, trees |-> {v1, v3}, reports |-> TRUE],
              [runners |-> {"r1"}, runs |-> 2, acts |-> 3, trees |-> {v1, v3}, reports |-> TRUE],
              [runners |-> {"r1", "r2"}, runs |-> 2, acts |-> 2, trees |-> {v1, v2}, reports |-> TRUE]}
=============================================================================
