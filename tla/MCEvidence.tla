------------------------------ MODULE MCEvidence ------------------------------
(***************************************************************************)
(* Values for the constants of Evidence in TLC's run.                      *)
(***************************************************************************)
EXTENDS Evidence, TLC

\* A first attempt and a retry of what writes the evidence.
MCMaxAttempts == [k \in Kind |-> 2]

Positions(x, y, z) ==
    ("argumentation" :> x) @@ ("interaction" :> y) @@ ("factualReliability" :> z)

Found(minor, severe) ==
    ("none" :> 1) @@ ("minor" :> minor) @@ ("moderate" :> 0) @@ ("high" :> 0)
        @@ ("severe" :> severe)

OpinionOf(p, q, feedback) ==
    ("SIDE_A" :> [positions |-> p, feedback |-> feedback, found |-> Found(1, 0)])
    @@ ("SIDE_B" :> [positions |-> q, feedback |-> TRUE, found |-> Found(0, 1)])
    @@ ("overallReason" :> TRUE)

\* Scores 0, 1 and 24, whose sum 7.5 comes out as 7.499999999999999, and scores
\* around them; one position beyond the top; one empty feedback.
MCRoundsDown == {Positions(0, 1, 24)}
MCPositions == {Positions(0, 4, 96), Positions(900, 200, 97)}
MCOpinion ==
    {OpinionOf(p, q, TRUE) : p, q \in MCPositions}
        \cup {OpinionOf(Positions(0, 4, 96), Positions(0, 4, 96), FALSE)}

MCSymmetry == Permutations(Attempt) \cup Permutations(Id) \cup Permutations(Ref)
===============================================================================
