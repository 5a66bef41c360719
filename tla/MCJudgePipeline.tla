--------------------------- MODULE MCJudgePipeline ---------------------------
(***************************************************************************)
(* Values for the constants of JudgePipeline in TLC's runs.                *)
(***************************************************************************)
EXTENDS JudgePipeline, TLC

\* One attempt of everything, and a second one of the judgment, whose late result
\* is the one that could be settled twice.
MCOneAttempt == [k \in Kind |-> 1]
MCJudgeRetries == [k \in Kind |-> IF k = "JUDGE" THEN 2 ELSE 1]

MCRunSymmetry == Permutations(Run)
==============================================================================
