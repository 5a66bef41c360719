--------------------------- MODULE DebateLifecycle ---------------------------
(***************************************************************************)
(* What the backend promises about the row of one debate, whichever        *)
(* component writes it: the stages it goes through, why it ended, the      *)
(* judgment stored with it and the rewards paid for it.                    *)
(*                                                                         *)
(* Every action is one committed UPDATE of the row, with the side effects  *)
(* the code keeps in the same database transaction.  JudgePipeline and     *)
(* DebateChat are shown to implement this specification.                   *)
(***************************************************************************)
EXTENDS Naturals, TLAPS

VARIABLES
    debateStatus,   \* DebateStatus of the row
    endReason,      \* DebateEndReason of the row, "none" before the end
    judgment,       \* the stored DebateJudgmentResult: "none", "win" or "draw"
    rewards         \* how many times rewardWin was committed for this debate

vars == <<debateStatus, endReason, judgment, rewards>>

DebateStatus ==
    {"READY", "IN_PROGRESS", "DEBATE_FINALIZED", "JUDGING", "COMPLETED", "FAILED"}

DebateEndReason ==
    {"none", "ALL_TURNS_FINALIZED", "FORFEIT", "TOTAL_TIME_EXPIRED",
     "JUDGMENT_FAILED"}

\* Stages in which a judgment may still be stored or given up.
JudgeableStatuses == {"DEBATE_FINALIZED", "JUDGING"}

TypeOK ==
    /\ debateStatus \in DebateStatus
    /\ endReason \in DebateEndReason
    /\ judgment \in {"none", "win", "draw"}
    /\ rewards \in Nat

Init ==
    /\ debateStatus = "READY"
    /\ endReason = "none"
    /\ judgment = "none"
    /\ rewards = 0

Start ==
    /\ debateStatus = "READY"
    /\ debateStatus' = "IN_PROGRESS"
    /\ UNCHANGED <<endReason, judgment, rewards>>

\* Both sides spoke and every turn passed: the debate waits for its judgment.
FinishAllTurns ==
    /\ debateStatus = "IN_PROGRESS"
    /\ debateStatus' = "DEBATE_FINALIZED"
    /\ endReason' = "ALL_TURNS_FINALIZED"
    /\ UNCHANGED <<judgment, rewards>>

\* The debate ends without a judgment; the side that is owed the win, if there
\* is one, is rewarded in the same transaction.  A speaker who gives up before
\* anybody connected starts and ends the debate in one update.
EndWithoutJudgment ==
    /\ debateStatus \in {"READY", "IN_PROGRESS"}
    /\ debateStatus' = "FAILED"
    /\ \/ endReason' = "FORFEIT" /\ rewards' = rewards + 1
       \/ /\ debateStatus = "IN_PROGRESS"
          /\ endReason' = "TOTAL_TIME_EXPIRED"
          /\ rewards' \in {rewards, rewards + 1}
    /\ UNCHANGED judgment

StartJudging ==
    /\ debateStatus = "DEBATE_FINALIZED"
    /\ debateStatus' = "JUDGING"
    /\ UNCHANGED <<endReason, judgment, rewards>>

\* Judgment, stage and reward are committed together.
CompleteJudgment ==
    /\ debateStatus \in JudgeableStatuses
    /\ debateStatus' = "COMPLETED"
    /\ \/ judgment' = "win"  /\ rewards' = rewards + 1
       \/ judgment' = "draw" /\ rewards' = rewards
    /\ UNCHANGED endReason

FailJudgment ==
    /\ debateStatus \in JudgeableStatuses
    /\ debateStatus' = "FAILED"
    /\ endReason' = "JUDGMENT_FAILED"
    /\ UNCHANGED <<judgment, rewards>>

\* Only a debate that failed for want of a judgment comes back.
RestoreFinalized ==
    /\ debateStatus = "FAILED"
    /\ endReason = "JUDGMENT_FAILED"
    /\ debateStatus' = "DEBATE_FINALIZED"
    /\ endReason' = "ALL_TURNS_FINALIZED"
    /\ UNCHANGED <<judgment, rewards>>

Next ==
    \/ Start
    \/ FinishAllTurns
    \/ EndWithoutJudgment
    \/ StartJudging
    \/ CompleteJudgment
    \/ FailJudgment
    \/ RestoreFinalized

Spec == Init /\ [][Next]_vars

(***************************************************************************)
(* The bookkeeping of a debate: a judgment is stored exactly for the       *)
(* completed ones, and the reward has been paid exactly once for an end    *)
(* that names a winner and never for another (README: a reward is not paid *)
(* twice, however often the same task arrives).                            *)
(***************************************************************************)
SettledOnce ==
    /\ (judgment # "none") <=> (debateStatus = "COMPLETED")
    /\ judgment = "win" \/ endReason = "FORFEIT" => rewards = 1
    /\ judgment # "win" /\ endReason \notin {"FORFEIT", "TOTAL_TIME_EXPIRED"}
         => rewards = 0
    /\ rewards <= 1

-----------------------------------------------------------------------------
(* Proof *)

(***************************************************************************)
(* What is known of the row in each stage.  SettledOnce alone is not       *)
(* inductive: it does not say that a judgeable debate is still unpaid.     *)
(***************************************************************************)
StageInv ==
    /\ debateStatus \in {"READY", "IN_PROGRESS"} => endReason = "none"
    /\ debateStatus \in {"DEBATE_FINALIZED", "JUDGING", "COMPLETED"}
         => endReason = "ALL_TURNS_FINALIZED"
    /\ debateStatus = "FAILED"
         => endReason \in {"FORFEIT", "TOTAL_TIME_EXPIRED", "JUDGMENT_FAILED"}

(***************************************************************************)
(* The lifecycle pays and stores exactly once, whatever order its steps    *)
(* come in.                                                                *)
(***************************************************************************)
THEOREM LifecycleSettlesOnce == Spec => [](TypeOK /\ StageInv /\ SettledOnce)
<1>1. Init => TypeOK /\ StageInv /\ SettledOnce
  BY DEF Init, TypeOK, StageInv, SettledOnce, DebateStatus, DebateEndReason
<1>2. TypeOK /\ StageInv /\ SettledOnce /\ [Next]_vars
        => (TypeOK /\ StageInv /\ SettledOnce)'
  <2> SUFFICES ASSUME TypeOK, StageInv, SettledOnce, [Next]_vars
               PROVE  (TypeOK /\ StageInv /\ SettledOnce)'
    OBVIOUS
  <2> USE DEF TypeOK, StageInv, SettledOnce, DebateStatus, DebateEndReason,
              JudgeableStatuses
  <2>1. CASE Start
    BY <2>1 DEF Start
  <2>2. CASE FinishAllTurns
    BY <2>2 DEF FinishAllTurns
  <2>3. CASE EndWithoutJudgment
    BY <2>3 DEF EndWithoutJudgment
  <2>4. CASE StartJudging
    BY <2>4 DEF StartJudging
  <2>5. CASE CompleteJudgment
    BY <2>5 DEF CompleteJudgment
  <2>6. CASE FailJudgment
    BY <2>6 DEF FailJudgment
  <2>7. CASE RestoreFinalized
    BY <2>7 DEF RestoreFinalized
  <2>8. CASE UNCHANGED vars
    BY <2>8 DEF vars
  <2>9. QED
    BY <2>1, <2>2, <2>3, <2>4, <2>5, <2>6, <2>7, <2>8 DEF Next
<1>3. QED
  BY <1>1, <1>2, PTL DEF Spec
==============================================================================
