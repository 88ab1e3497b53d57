----------------------- MODULE MCInstructionAuthority -----------------------
EXTENDS InstructionAuthority

E(p, g, b) == {[promoter |-> p, grant |-> g, bound |-> b]}
T(c, r, e) == [content |-> c, stage |-> "memory", req |-> r, endorse |-> e]

MCRegistry == [p \in Promoters |-> IF p = "p1" THEN 2 ELSE NoLevel]

MCTransforms ==
    {T("c2", NoLevel, {}), T("c2", 2, {}), T("c2", 2, E("p1", 2, TRUE)), T("c1", 1, E("p1", 1, FALSE)),
     T("c1", 3, E("p2", 3, TRUE))}
=============================================================================
