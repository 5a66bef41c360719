---------------------------- MODULE VerdictRules ----------------------------
(***************************************************************************)
(* The arithmetic of a judgment: from the positions the scoring model      *)
(* answers to scores of 0..100, from three scores to a total, from two     *)
(* totals to a winner, and from the violations found to the credit taken.  *)
(* debate-judge.service.ts, typesafe-debate-scorer.ts, openai-judge-llm.ts.*)
(***************************************************************************)
EXTENDS Integers

CONSTANT
    RoundsDown      \* scores whose weighted sum is an exact half in decimals
                    \* and just below it as a sum of doubles

Axis == {"argumentation", "interaction", "factualReliability"}
Side == {"SIDE_A", "SIDE_B"}
Severity == {"minor", "moderate", "high", "severe"}

MinScore == 0
MaxScore == 100
Score == MinScore..MaxScore
SideScores == [Axis -> Score]

-----------------------------------------------------------------------------
(* Scores *)

\* A position is a number of 0..4 between the five criteria of an axis, here in
\* hundredths; what lies outside is cut off.
Position == Int
Top == 400

Clamped(position) ==
    IF position < 0 THEN 0 ELSE IF position > Top THEN Top ELSE position

\* Math.round of the share of the way to the top, in percent: a point is four
\* hundredths of a position.
ToHundredScale(position) == MinScore + (Clamped(position) + 2) \div 4

ToSideScores(positions) == [x \in Axis |-> ToHundredScale(positions[x])]

\* Better on every axis, or as good.
AtLeast(s, r) == \A x \in Axis : s[x] >= r[x]

-----------------------------------------------------------------------------
(* Totals *)

\* SCORE_WEIGHTS, in tenths.
Weighted(s) ==
    4 * s["argumentation"] + 3 * s["interaction"] + 3 * s["factualReliability"]

\* Math.round of the weighted sum.  In doubles an exact half may come out a hair
\* below: 0, 1 and 24 make 7.499999999999999.
CalculateTotalScore(s) ==
    IF Weighted(s) % 10 = 5 /\ s \in RoundsDown
    THEN Weighted(s) \div 10
    ELSE (Weighted(s) + 5) \div 10

\* Mutation: the comparison the wrong way round.
DecideWinnerReversed(a, b) ==
    IF a = b THEN "DRAW" ELSE IF a < b THEN "SIDE_A" ELSE "SIDE_B"

DecideWinner(a, b) ==
    IF a = b THEN "DRAW" ELSE IF a > b THEN "SIDE_A" ELSE "SIDE_B"

-----------------------------------------------------------------------------
(* Violations *)

SocialCreditPenalty ==
    [x \in Severity |-> CASE x = "minor" -> 1
                          [] x = "moderate" -> 3
                          [] x = "high" -> 7
                          [] x = "severe" -> 15]

\* found: how many violations the model reported of each severity and of
\* "none", which toViolations leaves out.
ToViolations(found) == [x \in Severity |-> found[x]]

ToSocialCreditPenalty(violations) ==
    SocialCreditPenalty["minor"] * violations["minor"]
        + SocialCreditPenalty["moderate"] * violations["moderate"]
        + SocialCreditPenalty["high"] * violations["high"]
        + SocialCreditPenalty["severe"] * violations["severe"]
=============================================================================
