------------------------ MODULE JudgePipelineProofs ------------------------
(***************************************************************************)
(* Theorems about JudgePipeline, for every number of turns, components,    *)
(* runs and requests and every bound on faults and timeouts; where the     *)
(* code needs that nothing crashes or nobody retries, the theorem says so. *)
(***************************************************************************)
EXTENDS JudgePipeline, TLAPS

USE TurnsAssumption, IdsAssumption, LimitsAssumption

-----------------------------------------------------------------------------
(* What the helpers do to the tables *)

\* Scheduling keeps rows and jobs well typed.
LEMMA ScheduleType ==
    ASSUME TypeOK, NEW S, Schedule(S) \/ SchedulePartly(S)
    PROVE  /\ taskStatus' \in [Target -> JudgeTaskStatus]
           /\ job' \in [Target -> {"none", "queued", "active"}]
<1>1. CASE Schedule(S)
  BY <1>1 DEF TypeOK, Schedule, Created, Queued, JudgeTaskStatus
<1>2. CASE SchedulePartly(S)
  BY <1>2 DEF TypeOK, SchedulePartly, Created, Queued, JudgeTaskStatus
<1>3. QED
  BY <1>1, <1>2

\* What is scheduled are targets.
LEMMA Schedulable ==
    ASSUME TypeOK
    PROVE  /\ \A t \in Turn : {t} \subseteq Target
           /\ \A r \in Run : saved[r] \subseteq Target
           /\ {DebateId} \subseteq Target
           /\ Missing \subseteq Target
<1>1. Missing \subseteq Turn
  BY DEF TypeOK, Missing, Analyzable, Turn
<1>2. QED
  BY <1>1 DEF TypeOK, Target

\* A call that fails parts targets from their jobs.
LEMMA PartlyType ==
    ASSUME TypeOK, NEW S \in SUBSET Target, SchedulePartly(S)
    PROVE  parted' \subseteq Target
<1>1. PICK made \in SUBSET S :
         parted' = parted \cup {x \in made : Created(made)[x] = "PENDING" /\ job'[x] = "none"}
  BY DEF SchedulePartly
<1>2. QED
  BY <1>1 DEF TypeOK

\* A job that ends, or threw, keeps the jobs well typed.
LEMMA QueueType ==
    ASSUME TypeOK, NEW x \in Target, JobDone(x) \/ JobThrew(x)
    PROVE  /\ job' \in [Target -> {"none", "queued", "active"}]
           /\ attemptsMade' \in [Target -> Nat]
<1>1. JobDone(x) => /\ job' \in [Target -> {"none", "queued", "active"}]
                    /\ attemptsMade' \in [Target -> Nat]
  BY DEF TypeOK, JobDone
<1>2. QED
  BY <1>1 DEF TypeOK, JobThrew

\* So does the conditional UPDATE of settle().
LEMMA SettleType ==
    ASSUME TypeOK, NEW x, NEW r, NEW status \in JudgeTaskStatus,
           NEW owner \in Run \cup {None}, Settle(x, r, status, owner)
    PROVE  /\ taskStatus' \in [Target -> JudgeTaskStatus]
           /\ requestId' \in [Target -> Run \cup {None}]
BY DEF TypeOK, Settle

\* A failure counts at most one timeout, within the bound.
LEMMA FailedType ==
    ASSUME TypeOK, NEW r, Failed(r)
    PROVE  timeouts' \in 0..MaxTimeouts
BY DEF TypeOK, Failed

\* The end of a handler keeps the run well typed.
LEMMA HandlerEndsType ==
    ASSUME TypeOK, NEW r \in Run, NEW result \in {"ok", "error"},
           HandlerEnds(r, result)
    PROVE  /\ handler' \in [Run -> {"none", "model", "schedule", "ok", "error", "fatal"}]
           /\ held' \in [Run -> Target \cup {None}]
BY DEF TypeOK, HandlerEnds

-----------------------------------------------------------------------------
(* Types *)

\* A slot that is in use has a task.
SlotInv ==
    \A r \in Run : process[r] # "idle" \/ handler[r] # "none" => held[r] \in Target

\* Finalizing a turn keeps the chat's types.
LEMMA CommittedTypes ==
    ASSUME NEW t \in Turn, TypeOK, Committed(t)
    PROVE  /\ committed' \in 0..NumTurns
           /\ blank' \subseteq Turn
           /\ hook' \subseteq Turn
<1>1. committed' = t /\ blank \subseteq Turn /\ hook \subseteq Turn
  BY DEF Committed, TypeOK
<1>2. committed' \in 0..NumTurns
  BY <1>1, TurnsAssumption DEF Turn
<1>3. blank' \subseteq Turn
  <2>1. blank' = blank \/ blank' = blank \cup {t}
    BY DEF Committed
  <2>2. QED
    BY <1>1, <2>1
<1>4. hook' \subseteq Turn
  <2>1. hook' = hook \/ hook' = hook \cup {t}
    BY DEF Committed
  <2>2. QED
    BY <1>1, <2>1
<1>5. QED
  BY <1>2, <1>3, <1>4

\* Every step keeps the types, and the slot of a run that is in use.
LEMMA TypeStep ==
    ASSUME TypeOK, SlotInv, [Next]_vars
    PROVE  TypeOK'
<1> USE DEF debateVars, chatVars, rowVars, queueVars, runVars, boundVars
<1>1. CASE StartDebate
  BY <1>1 DEF StartDebate, TypeOK, L!Start, L!TypeOK, L!DebateStatus
<1>2. CASE ConfirmTurn
  <2>1. /\ committed' \in 0..NumTurns /\ blank' \subseteq Turn
        /\ hook' \subseteq Turn
    <3>1. committed + 1 \in Turn
      BY <1>2, TurnsAssumption DEF ConfirmTurn, TypeOK, Turn
    <3>2. QED
      BY <1>2, <3>1, CommittedTypes DEF ConfirmTurn
  <2>2. QED
    BY <1>2, <2>1 DEF ConfirmTurn, TypeOK, L!TypeOK
<1>3. CASE ConfirmLastTurn
  <2>1. /\ committed' \in 0..NumTurns /\ blank' \subseteq Turn
        /\ hook' \subseteq Turn
    <3>1. NumTurns \in Turn
      BY TurnsAssumption DEF Turn
    <3>2. QED
      BY <1>3, <3>1, CommittedTypes DEF ConfirmLastTurn
  <2>2. L!TypeOK'
    <3>1. CASE L!FinishAllTurns
      BY <3>1 DEF L!FinishAllTurns, TypeOK, L!TypeOK, L!DebateStatus, L!DebateEndReason
    <3>2. CASE L!EndWithoutJudgment /\ rewards' \in Nat
      BY <3>2 DEF L!EndWithoutJudgment, TypeOK, L!TypeOK, L!DebateStatus,
                  L!DebateEndReason
    <3>3. ~BothSpoke' => rewards' \in Nat
      BY <1>3 DEF ConfirmLastTurn, TypeOK, L!TypeOK, L!FinishAllTurns
    <3>4. QED
      BY <1>3, <3>1, <3>2, <3>3 DEF ConfirmLastTurn
  <2>3. pc' \in [Caller -> {"idle", "status", "counts", "fail", "create",
                            "judging", "restore", "reset"}]
    BY <1>3 DEF ConfirmLastTurn, TypeOK
  <2>4. QED
    BY <1>3, <2>1, <2>2, <2>3 DEF ConfirmLastTurn, TypeOK
<1>4. CASE Forfeit
  BY <1>4 DEF Forfeit, TypeOK, L!EndWithoutJudgment, L!TypeOK, L!DebateStatus,
              L!DebateEndReason
<1>5. ASSUME NEW t \in Turn, OnTurnFinalized(t) PROVE TypeOK'
  BY <1>5, ScheduleType DEF OnTurnFinalized, TypeOK, L!TypeOK
<1>6. ASSUME NEW t \in Turn, OnTurnFinalizedFails(t) PROVE TypeOK'
  <2>1. parted' \subseteq Target
    BY <1>6, PartlyType, Schedulable DEF OnTurnFinalizedFails
  <2>2. QED
    BY <1>6, <2>1, ScheduleType DEF OnTurnFinalizedFails, Fault, TypeOK, L!TypeOK
<1>7. ASSUME NEW x \in Target, SkipJob(x) PROVE TypeOK'
  BY <1>7, QueueType DEF SkipJob, TypeOK, L!TypeOK
<1>8. ASSUME NEW r \in Run, NEW x \in Target, Acquire(r, x) PROVE TypeOK'
  BY <1>8 DEF Acquire, TypeOK, L!TypeOK, JudgeTaskStatus
<1>9. ASSUME NEW r \in Run, HandlerFails(r) PROVE TypeOK'
  BY <1>9, HandlerEndsType DEF HandlerFails, TypeOK, L!TypeOK
<1>10. ASSUME NEW r \in Run, AnalyzerSaves(r) PROVE TypeOK'
  <2>1. PICK components \in SUBSET Component :
          /\ graph' = [graph EXCEPT ![held[r]] = components]
          /\ saved' = [saved EXCEPT ![r] = components]
          /\ IF components = {} THEN HandlerEnds(r, "ok")
             ELSE /\ handler' = [handler EXCEPT ![r] = "schedule"]
                  /\ UNCHANGED held
    BY <1>10 DEF AnalyzerSaves, Fresh
  <2>2. /\ handler' \in [Run -> {"none", "model", "schedule", "ok", "error", "fatal"}]
        /\ held' \in [Run -> Target \cup {None}]
    BY <2>1, HandlerEndsType DEF TypeOK
  <2>3. QED
    BY <1>10, <2>1, <2>2 DEF AnalyzerSaves, TypeOK, L!TypeOK
<1>11. ASSUME NEW r \in Run, AnalyzerSchedules(r) PROVE TypeOK'
  BY <1>11, ScheduleType, HandlerEndsType DEF AnalyzerSchedules, TypeOK, L!TypeOK
<1>12. ASSUME NEW r \in Run, AnalyzerSchedulingFails(r) PROVE TypeOK'
  <2>1. parted' \subseteq Target
    BY <1>12, PartlyType, Schedulable DEF AnalyzerSchedulingFails
  <2>2. QED
    BY <1>12, <2>1, ScheduleType, HandlerEndsType
       DEF AnalyzerSchedulingFails, Fault, TypeOK, L!TypeOK
<1>13. ASSUME NEW r \in Run, FactCheckerSaves(r) PROVE TypeOK'
  BY <1>13, HandlerEndsType DEF FactCheckerSaves, TypeOK, L!TypeOK
<1>14. ASSUME NEW r \in Run, JudgeSaves(r) PROVE TypeOK'
  BY <1>14, HandlerEndsType
     DEF JudgeSaves, TypeOK, L!TypeOK, L!CompleteJudgment, L!DebateStatus
<1>15. ASSUME NEW r \in Run, Complete(r) PROVE TypeOK'
  BY <1>15, SettleType DEF Complete, Notified, TypeOK, L!TypeOK, Caller,
                           JudgeTaskStatus
<1>16. ASSUME NEW r \in Run, Release(r) PROVE TypeOK'
  <2>1. held[r] \in Target
    BY <1>16 DEF Release, SlotInv
  <2>2. /\ job' \in [Target -> {"none", "queued", "active"}]
        /\ attemptsMade' \in [Target -> Nat]
    BY <1>16, <2>1, QueueType DEF Release
  <2>3. /\ taskStatus' \in [Target -> JudgeTaskStatus]
        /\ requestId' \in [Target -> Run \cup {None}]
    BY <1>16, SettleType DEF Release, JudgeTaskStatus
  <2>4. QED
    BY <1>16, <2>2, <2>3, FailedType DEF Release, TypeOK, L!TypeOK
<1>17. ASSUME NEW r \in Run, SettleFailed(r) PROVE TypeOK'
  <2>1. /\ taskStatus' \in [Target -> JudgeTaskStatus]
        /\ requestId' \in [Target -> Run \cup {None}]
    BY <1>17, SettleType DEF SettleFailed, JudgeTaskStatus
  <2>2. QED
    BY <1>17, <2>1, FailedType DEF SettleFailed, Notified, TypeOK, L!TypeOK, Caller
<1>18. ASSUME NEW r \in Run, FinishJob(r) PROVE TypeOK'
  <2>1. held[r] \in Target
    BY <1>18 DEF FinishJob, SlotInv
  <2>2. /\ job' \in [Target -> {"none", "queued", "active"}]
        /\ attemptsMade' \in [Target -> Nat]
    BY <1>18, <2>1, QueueType DEF FinishJob
  <2>3. QED
    BY <1>18, <2>2 DEF FinishJob, TypeOK, L!TypeOK
<1>19. ASSUME NEW x \in Target, JobFails(x) PROVE TypeOK'
  BY <1>19, QueueType DEF JobFails, Fault, TypeOK, L!TypeOK
<1>20. ASSUME NEW r \in Run, SettlementFails(r) PROVE TypeOK'
  <2>1. held[r] \in Target
    BY <1>20 DEF SettlementFails, SlotInv
  <2>2. /\ job' \in [Target -> {"none", "queued", "active"}]
        /\ attemptsMade' \in [Target -> Nat]
    BY <1>20, <2>1, QueueType DEF SettlementFails
  <2>3. QED
    BY <1>20, <2>2 DEF SettlementFails, Fault, TypeOK, L!TypeOK
<1>21. ASSUME NEW c \in Caller, ReadStatus(c) PROVE TypeOK'
  BY <1>21 DEF ReadStatus, Goto, TypeOK, L!TypeOK
<1>22. ASSUME NEW c \in Caller, ReadCounts(c) PROVE TypeOK'
  BY <1>22 DEF ReadCounts, Goto, TypeOK, L!TypeOK
<1>23. ASSUME NEW c \in Caller, FailJudgment(c) PROVE TypeOK'
  BY <1>23 DEF FailJudgment, Goto, TypeOK, L!TypeOK, L!FailJudgment,
               L!DebateStatus, L!DebateEndReason
<1>24. ASSUME NEW c \in Caller, ScheduleJudge(c) PROVE TypeOK'
  BY <1>24, ScheduleType DEF ScheduleJudge, Goto, TypeOK, L!TypeOK
<1>25. ASSUME NEW c \in Caller, StartJudging(c) PROVE TypeOK'
  BY <1>25 DEF StartJudging, Goto, TypeOK, L!TypeOK, L!StartJudging,
               L!DebateStatus
<1>26. ASSUME NEW c \in Caller, CallFails(c) PROVE TypeOK'
  <2>1. parted' \subseteq Target
    BY <1>26, PartlyType, Schedulable DEF CallFails, TypeOK
  <2>2. /\ taskStatus' \in [Target -> JudgeTaskStatus]
        /\ job' \in [Target -> {"none", "queued", "active"}]
    BY <1>26, ScheduleType DEF CallFails, TypeOK
  <2>3. QED
    BY <1>26, <2>1, <2>2 DEF CallFails, Fault, Goto, TypeOK, L!TypeOK
<1>27. ASSUME NEW c \in RestCaller, PostJudging(c) PROVE TypeOK'
  BY <1>27 DEF PostJudging, Request, Goto, TypeOK, L!TypeOK, Caller
<1>28. ASSUME NEW c \in RestCaller, PostJudge(c) PROVE TypeOK'
  BY <1>28, ScheduleType DEF PostJudge, Request, Goto, TypeOK, L!TypeOK, Caller
<1>29. ASSUME NEW c \in RestCaller, PostRetry(c) PROVE TypeOK'
  BY <1>29, ScheduleType DEF PostRetry, Request, Goto, TypeOK, L!TypeOK, Caller
<1>30. ASSUME NEW c \in RestCaller, ResumeFails(c) PROVE TypeOK'
  <2>1. parted' \subseteq Target
    BY <1>30, PartlyType, Schedulable DEF ResumeFails
  <2>2. QED
    BY <1>30, <2>1, ScheduleType DEF ResumeFails, Fault, TypeOK, L!TypeOK
<1>31. ASSUME NEW c \in Caller, RestoreFinalized(c) PROVE TypeOK'
  BY <1>31 DEF RestoreFinalized, Goto, TypeOK, L!TypeOK, L!RestoreFinalized,
               L!DebateStatus, L!DebateEndReason
<1>32. ASSUME NEW c \in Caller, ResetFailed(c) PROVE TypeOK'
  <2>1. FailedTasks \subseteq Target
    BY DEF FailedTasks, Target
  <2>2. parted' \subseteq Target
    BY <1>32, <2>1 DEF ResetFailed, TypeOK
  <2>3. QED
    BY <1>32, <2>2 DEF ResetFailed, ResetRows, Queued, Goto, TypeOK, L!TypeOK,
                       JudgeTaskStatus
<1>33. ASSUME NEW c \in Caller, ResetFails(c) PROVE TypeOK'
  <2>1. FailedTasks \subseteq Target
    BY DEF FailedTasks, Target
  <2>2. PICK added \in SUBSET FailedTasks :
          /\ job' = Queued(added)
          /\ parted' = (parted \ FailedTasks)
                        \cup {x \in FailedTasks : x \notin added \/ job[x] # "none"}
    BY <1>33 DEF ResetFails
  <2>3. parted' \subseteq Target
    BY <2>1, <2>2 DEF TypeOK
  <2>4. job' \in [Target -> {"none", "queued", "active"}]
    BY <2>2 DEF Queued, TypeOK
  <2>5. QED
    BY <1>33, <2>3, <2>4 DEF ResetFails, ResetRows, Fault, Goto, TypeOK, L!TypeOK,
                             JudgeTaskStatus
<1>34. CASE Crash
  BY <1>34 DEF Crash, Fault, TypeOK, L!TypeOK
<1>35. CASE BootRecovery
  BY <1>35 DEF BootRecovery, Reclaim, Queued, TypeOK, L!TypeOK, JudgeTaskStatus
<1>36. CASE BootRecoveryFails
  <2>1. /\ taskStatus' \in [Target -> JudgeTaskStatus]
        /\ requestId' \in [Target -> Run \cup {None}]
        /\ parted' \subseteq Target
    BY <1>36 DEF BootRecoveryFails, Reclaim, Orphans, TypeOK, JudgeTaskStatus
  <2>2. booting' = FALSE /\ UNCHANGED <<debateVars, chatVars, attempt, job, attemptsMade,
          graph, runVars, pc, boundVars>>
    BY <1>36 DEF BootRecoveryFails
  <2>3. QED
    BY <2>1, <2>2 DEF TypeOK, L!TypeOK
<1>37. CASE UNCHANGED vars
  BY <1>37 DEF vars, TypeOK, L!TypeOK
<1>38. QED
  BY <1>1, <1>2, <1>3, <1>4, <1>5, <1>6, <1>7, <1>8, <1>9, <1>10, <1>11, <1>12,
     <1>13, <1>14, <1>15, <1>16, <1>17, <1>18, <1>19, <1>20, <1>21, <1>22, <1>23,
     <1>24, <1>25, <1>26, <1>27, <1>28, <1>29, <1>30, <1>31, <1>32, <1>33, <1>34,
     <1>35, <1>36, <1>37
     DEF Next, ChatStep, TakeJob, HandlerStep, ProcessStep, CallStep, RestStep,
         FaultStep

-----------------------------------------------------------------------------
(* A waiting process() holds its row *)

\* No row is taken from the run it is PROCESSING for.
RowsKept ==
    \A x \in Target : taskStatus[x] = "PROCESSING" =>
        taskStatus'[x] = "PROCESSING" /\ requestId'[x] = requestId[x]

\* Scheduling touches the rows that were missing, and no other.
LEMMA ScheduleKeeps ==
    ASSUME TypeOK, NEW S, Schedule(S) \/ SchedulePartly(S)
    PROVE  \A x \in Target : taskStatus[x] # "ABSENT" => taskStatus'[x] = taskStatus[x]
BY DEF TypeOK, Schedule, SchedulePartly, Created

\* Steps that leave the slots alone and keep the rows.
LEMMA SlotsUntouched ==
    ASSUME SlotInv, HolderKeepsRow, RowsKept, UNCHANGED <<process, handler, held>>
    PROVE  SlotInv' /\ HolderKeepsRow'
<1>1. SlotInv'
  BY DEF SlotInv
<1>2. ASSUME NEW r \in Run, process[r] = "working"
      PROVE  taskStatus'[held[r]] = "PROCESSING" /\ requestId'[held[r]] = r
  BY <1>2 DEF SlotInv, HolderKeepsRow, RowsKept
<1>3. QED
  BY <1>1, <1>2 DEF HolderKeepsRow

\* A handler that ends leaves its process(), and every row, as they are.
LEMMA HandlerEndKeeps ==
    ASSUME TypeOK, SlotInv, HolderKeepsRow, RowsKept, NEW r \in Run,
           NEW result, HandlerEnds(r, result), handler[r] # "none",
           UNCHANGED process
    PROVE  SlotInv' /\ HolderKeepsRow'
<1>1. SlotInv'
  BY DEF SlotInv, HandlerEnds, TypeOK
<1>2. ASSUME NEW q \in Run, process[q] = "working"
      PROVE  taskStatus'[held'[q]] = "PROCESSING" /\ requestId'[held'[q]] = q
  BY <1>2 DEF SlotInv, HolderKeepsRow, RowsKept, HandlerEnds, TypeOK
<1>3. QED
  BY <1>1, <1>2 DEF HolderKeepsRow

\* The run that settles, and with it its own row, is the only one to change.
LEMMA SettleKeeps ==
    ASSUME TypeOK, SlotInv, HolderKeepsRow, NEW r \in Run, NEW status, NEW owner,
           \/ Settle(held[r], r, status, owner)
           \/ UNCHANGED <<taskStatus, requestId>>,
           process[r] = "working",
           process' \in {[process EXCEPT ![r] = "notify"],
                         [process EXCEPT ![r] = "idle"]},
           \A q \in Run \ {r} : handler'[q] = handler[q] /\ held'[q] = held[q],
           process'[r] # "idle" \/ handler'[r] # "none" => held'[r] = held[r]
    PROVE  SlotInv' /\ HolderKeepsRow'
<1>1. SlotInv'
  BY DEF SlotInv, TypeOK
<1>2. ASSUME NEW q \in Run, process'[q] = "working"
      PROVE  taskStatus'[held'[q]] = "PROCESSING" /\ requestId'[held'[q]] = q
  <2>1. q # r /\ process[q] = "working" /\ held'[q] = held[q]
    BY <1>2 DEF TypeOK
  <2>2. held[q] \in Target /\ taskStatus[held[q]] = "PROCESSING"
                           /\ requestId[held[q]] = q
    BY <2>1 DEF SlotInv, HolderKeepsRow
  <2>3. held[r] \in Target /\ requestId[held[r]] = r
    BY DEF SlotInv, HolderKeepsRow
  <2>4. held[q] # held[r]
    BY <2>1, <2>2, <2>3
  <2>5. QED
    BY <2>1, <2>2, <2>3, <2>4 DEF Settle, TypeOK
<1>3. QED
  BY <1>1, <1>2 DEF HolderKeepsRow

\* Every step leaves the row of a working run with that run.
LEMMA HolderStep ==
    ASSUME TypeOK, SlotInv, HolderKeepsRow, [Next]_vars
    PROVE  SlotInv' /\ HolderKeepsRow'
<1> DEFINE Goal == SlotInv' /\ HolderKeepsRow'
<1> USE DEF rowVars, runVars, queueVars
<1>1. CASE ChatStep
  BY <1>1, SlotsUntouched DEF ChatStep, StartDebate, ConfirmTurn, ConfirmLastTurn,
                              Forfeit, RowsKept
<1>2. ASSUME NEW t \in Turn, OnTurnFinalized(t) \/ OnTurnFinalizedFails(t)
      PROVE  Goal
  <2>1. RowsKept
    BY <1>2, ScheduleKeeps DEF OnTurnFinalized, OnTurnFinalizedFails, RowsKept
  <2>2. QED
    BY <1>2, <2>1, SlotsUntouched DEF OnTurnFinalized, OnTurnFinalizedFails
<1>3. ASSUME NEW x \in Target, SkipJob(x) \/ JobFails(x) PROVE Goal
  BY <1>3, SlotsUntouched DEF SkipJob, JobFails, RowsKept
<1>4. ASSUME NEW r \in Run, NEW x \in Target, Acquire(r, x) PROVE Goal
  <2>1. SlotInv'
    BY <1>4 DEF Acquire, SlotInv, TypeOK
  <2>2. ASSUME NEW q \in Run, process'[q] = "working"
        PROVE  taskStatus'[held'[q]] = "PROCESSING" /\ requestId'[held'[q]] = q
    <3>1. CASE q = r
      BY <1>4, <3>1 DEF Acquire, TypeOK
    <3>2. CASE q # r
      <4>1. process[q] = "working" /\ held'[q] = held[q]
        BY <1>4, <2>2, <3>2 DEF Acquire, TypeOK
      <4>2. held[q] \in Target /\ taskStatus[held[q]] = "PROCESSING"
                               /\ requestId[held[q]] = q
        BY <4>1 DEF SlotInv, HolderKeepsRow
      <4>3. held[q] # x
        BY <1>4, <4>2 DEF Acquire
      <4>4. QED
        BY <1>4, <4>1, <4>2, <4>3 DEF Acquire, TypeOK
    <3>3. QED
      BY <3>1, <3>2
  <2>3. QED
    BY <2>1, <2>2 DEF HolderKeepsRow
<1>5. ASSUME NEW r \in Run, HandlerFails(r) \/ FactCheckerSaves(r) \/ JudgeSaves(r)
      PROVE  Goal
  <2>1. RowsKept
    BY <1>5 DEF HandlerFails, FactCheckerSaves, JudgeSaves, RowsKept
  <2>2. QED
    BY <1>5, <2>1, HandlerEndKeeps DEF HandlerFails, FactCheckerSaves, JudgeSaves
<1>6. ASSUME NEW r \in Run, AnalyzerSaves(r) PROVE Goal
  <2>1. RowsKept
    BY <1>6 DEF AnalyzerSaves, RowsKept
  <2>2. handler[r] = "model" /\ held[r] \in Target /\ UNCHANGED process
    BY <1>6 DEF AnalyzerSaves, SlotInv
  <2>3. CASE HandlerEnds(r, "ok")
    BY <2>1, <2>2, <2>3, HandlerEndKeeps
  <2>4. CASE handler' = [handler EXCEPT ![r] = "schedule"] /\ UNCHANGED held
    <3>1. SlotInv'
      BY <2>2, <2>4 DEF SlotInv, TypeOK
    <3>2. HolderKeepsRow'
      BY <2>1, <2>2, <2>4 DEF HolderKeepsRow, RowsKept, SlotInv
    <3>3. QED
      BY <3>1, <3>2
  <2>5. QED
    BY <1>6, <2>3, <2>4 DEF AnalyzerSaves
<1>7. ASSUME NEW r \in Run, AnalyzerSchedules(r) \/ AnalyzerSchedulingFails(r)
      PROVE  Goal
  <2>1. RowsKept
    BY <1>7, ScheduleKeeps DEF AnalyzerSchedules, AnalyzerSchedulingFails, RowsKept
  <2>2. QED
    BY <1>7, <2>1, HandlerEndKeeps DEF AnalyzerSchedules, AnalyzerSchedulingFails
<1>8. ASSUME NEW r \in Run, Complete(r) PROVE Goal
  BY <1>8, SettleKeeps DEF Complete, TypeOK
<1>9. ASSUME NEW r \in Run, Release(r) PROVE Goal
  BY <1>9, SettleKeeps DEF Release, TypeOK
<1>10. ASSUME NEW r \in Run, SettleFailed(r) PROVE Goal
  BY <1>10, SettleKeeps DEF SettleFailed, TypeOK
<1>11. ASSUME NEW r \in Run, SettlementFails(r) PROVE Goal
  BY <1>11, SettleKeeps DEF SettlementFails, TypeOK
<1>12. ASSUME NEW r \in Run, FinishJob(r) PROVE Goal
  <2>1. SlotInv'
    BY <1>12 DEF FinishJob, SlotInv, TypeOK
  <2>2. HolderKeepsRow'
    BY <1>12 DEF FinishJob, HolderKeepsRow, TypeOK
  <2>3. QED
    BY <2>1, <2>2
<1>13. ASSUME NEW c \in Caller,
              \/ ReadStatus(c) \/ ReadCounts(c) \/ FailJudgment(c)
              \/ StartJudging(c) \/ RestoreFinalized(c)
       PROVE  Goal
  BY <1>13, SlotsUntouched DEF ReadStatus, ReadCounts, FailJudgment, StartJudging,
                               RestoreFinalized, RowsKept
<1>14. ASSUME NEW c \in Caller, ScheduleJudge(c) \/ CallFails(c) PROVE Goal
  <2>1. RowsKept
    BY <1>14, ScheduleKeeps DEF ScheduleJudge, CallFails, RowsKept
  <2>2. QED
    BY <1>14, <2>1, SlotsUntouched DEF ScheduleJudge, CallFails
<1>15. ASSUME NEW c \in Caller, ResetFailed(c) \/ ResetFails(c) PROVE Goal
  <2>1. RowsKept
    BY <1>15 DEF ResetFailed, ResetFails, ResetRows, FailedTasks, RowsKept
  <2>2. QED
    BY <1>15, <2>1, SlotsUntouched DEF ResetFailed, ResetFails
<1>16. ASSUME NEW c \in RestCaller, RestStep(c) PROVE Goal
  <2>1. RowsKept
    BY <1>16, ScheduleKeeps DEF RestStep, PostJudging, PostJudge, PostRetry,
                                ResumeFails, RowsKept
  <2>2. QED
    BY <1>16, <2>1, SlotsUntouched DEF RestStep, PostJudging, PostJudge, PostRetry,
                                       ResumeFails
<1>17. CASE Crash
  BY <1>17 DEF Crash, SlotInv, HolderKeepsRow
<1>18. CASE BootRecovery \/ BootRecoveryFails
  <2>1. PICK stale \in SUBSET Orphans : Reclaim(stale)
    BY <1>18 DEF BootRecovery, BootRecoveryFails
  <2>2. UNCHANGED <<process, handler, held>>
    BY <1>18 DEF BootRecovery, BootRecoveryFails
  <2>3. SlotInv'
    BY <2>2 DEF SlotInv
  <2>4. ASSUME NEW q \in Run, process[q] = "working"
        PROVE  taskStatus'[held[q]] = "PROCESSING" /\ requestId'[held[q]] = q
    <3>1. held[q] \in Target /\ held[q] \notin stale
      BY <2>1, <2>4 DEF Orphans, SlotInv
    <3>2. QED
      BY <2>1, <2>4, <3>1 DEF Reclaim, HolderKeepsRow
  <2>5. QED
    BY <2>2, <2>3, <2>4 DEF HolderKeepsRow
<1>19. CASE UNCHANGED vars
  BY <1>19, SlotsUntouched DEF vars, RowsKept
<1>20. QED
  BY <1>1, <1>2, <1>3, <1>4, <1>5, <1>6, <1>7, <1>8, <1>9, <1>10, <1>11, <1>12,
     <1>13, <1>14, <1>15, <1>16, <1>17, <1>18, <1>19
     DEF Next, TakeJob, HandlerStep, ProcessStep, CallStep, FaultStep

(***************************************************************************)
(* Types, and the invariant they need: slots in use have a task, and a     *)
(* process() that waits for its handler still holds its row.  The          *)
(* conditional UPDATEs of acquire, settle, resetFailed and reclaimStale    *)
(* keep every row with its run, with any number of runs, retries, crashes  *)
(* and timeouts.                                                           *)
(***************************************************************************)
THEOREM PipelineHolders == Spec => [](TypeOK /\ SlotInv /\ HolderKeepsRow)
<1>1. Init => TypeOK /\ SlotInv /\ HolderKeepsRow
  <2> SUFFICES ASSUME Init PROVE TypeOK /\ SlotInv /\ HolderKeepsRow
    OBVIOUS
  <2>1. L!TypeOK
    BY DEF Init, L!Init, L!TypeOK, L!DebateStatus, L!DebateEndReason
  <2>2. committed \in 0..NumTurns /\ requests \in 0..MaxRequests
        /\ timeouts \in 0..MaxTimeouts /\ faults \in 0..MaxFaults
    BY DEF Init
  <2>3. TypeOK
    BY <2>1, <2>2 DEF Init, TypeOK, JudgeTaskStatus
  <2>4. SlotInv /\ HolderKeepsRow
    BY DEF Init, SlotInv, HolderKeepsRow
  <2>5. QED
    BY <2>3, <2>4
<1>2. TypeOK /\ SlotInv /\ HolderKeepsRow /\ [Next]_vars
        => (TypeOK /\ SlotInv /\ HolderKeepsRow)'
  BY TypeStep, HolderStep
<1>3. QED
  BY <1>1, <1>2, PTL DEF Spec

-----------------------------------------------------------------------------
(* The pipeline implements the lifecycle of the debate row *)

\* Every step of the pipeline is a step of the lifecycle, or a stutter.
LEMMA LifecycleStep ==
    ASSUME [Next]_vars
    PROVE  [L!Next]_(L!vars)
<1> USE DEF debateVars, L!vars, L!Next
<1>1. CASE ChatStep
  BY <1>1 DEF ChatStep, StartDebate, ConfirmTurn, ConfirmLastTurn, Forfeit
<1>2. ASSUME NEW r \in Run, HandlerStep(r) PROVE [L!Next]_(L!vars)
  BY <1>2 DEF HandlerStep, HandlerFails, AnalyzerSaves, AnalyzerSchedules,
              FactCheckerSaves, JudgeSaves
<1>3. ASSUME NEW r \in Run, ProcessStep(r) PROVE UNCHANGED L!vars
  BY <1>3 DEF ProcessStep, Complete, Release, SettleFailed, FinishJob
<1>4. ASSUME NEW c \in Caller, CallStep(c) PROVE [L!Next]_(L!vars)
  BY <1>4 DEF CallStep, ReadStatus, ReadCounts, FailJudgment, ScheduleJudge,
              StartJudging, RestoreFinalized, ResetFailed
<1>5. ASSUME NEW c \in RestCaller, RestStep(c) PROVE UNCHANGED L!vars
  BY <1>5 DEF RestStep, PostJudging, PostJudge, PostRetry, ResumeFails
<1>6. CASE FaultStep
  BY <1>6 DEF FaultStep, OnTurnFinalizedFails, AnalyzerSchedulingFails,
              SettlementFails, JobFails, CallFails, ResetFails, Crash,
              BootRecoveryFails
<1>7. CASE BootRecovery
  BY <1>7 DEF BootRecovery
<1>8. ASSUME NEW x \in Target, TakeJob(x) PROVE UNCHANGED L!vars
  BY <1>8 DEF TakeJob, SkipJob, Acquire
<1>9. ASSUME NEW t \in Turn, OnTurnFinalized(t) PROVE UNCHANGED L!vars
  BY <1>9 DEF OnTurnFinalized
<1>10. CASE UNCHANGED vars
  BY <1>10 DEF vars
<1>11. QED
  BY <1>1, <1>2, <1>3, <1>4, <1>5, <1>6, <1>7, <1>8, <1>9, <1>10 DEF Next

(***************************************************************************)
(* The types of JudgePipeline: task rows, jobs, runs, handlers and the     *)
(* coroutines of the judge service.                                        *)
(***************************************************************************)
THEOREM PipelineTypes == Spec => []TypeOK
BY PipelineHolders, PTL

(***************************************************************************)
(* Every behaviour of the pipeline, faults and late handlers included, is  *)
(* a behaviour of DebateLifecycle.                                         *)
(***************************************************************************)
THEOREM PipelineImplementsLifecycle == Spec => LifecycleImplemented
<1>1. Init => L!Init
  BY DEF Init
<1>2. [Next]_vars => [L!Next]_(L!vars)
  BY LifecycleStep
<1>3. QED
  BY <1>1, <1>2, PTL DEF Spec, LifecycleImplemented, L!Spec

(***************************************************************************)
(* The stored judgment, the stage and the rewards of a debate agree at all *)
(* times: the reward is paid once, however often JUDGE runs.               *)
(***************************************************************************)
THEOREM PipelineSettlesOnce == Spec => []SettledOnce
<1>1. L!Spec => [](L!TypeOK /\ L!StageInv /\ L!SettledOnce)
  BY L!LifecycleSettlesOnce
<1>2. QED
  BY <1>1, PipelineImplementsLifecycle, PTL DEF SettledOnce, LifecycleImplemented

-----------------------------------------------------------------------------
(* Only a debate whose turns all passed gets a JUDGE task *)

Finished == endReason \in {"ALL_TURNS_FINALIZED", "JUDGMENT_FAILED"}

\* JudgeOnlyForFinished, and the same of the callers on their way to the task.
JudgeOrigin ==
    /\ JudgeOnlyForFinished
    /\ \A c \in Caller : pc[c] \in {"counts", "create"} => Finished

\* A debate once finished stays so: what follows is judged, failed or restored.
LEMMA FinishedStays ==
    ASSUME L!StageInv, Finished, [L!Next]_(L!vars)
    PROVE  Finished'
BY DEF L!StageInv, Finished, L!Next, L!vars, L!Start, L!FinishAllTurns,
       L!EndWithoutJudgment, L!StartJudging, L!CompleteJudgment, L!FailJudgment,
       L!RestoreFinalized

\* Turns and components are never the debate.
LEMMA OtherTargets ==
    ASSUME TypeOK, NEW S \in SUBSET (Turn \cup Component),
           Schedule(S) \/ SchedulePartly(S)
    PROVE  taskStatus'[DebateId] = taskStatus[DebateId]
<1>1. DebateId \in Target /\ DebateId \notin S
  BY DEF Target
<1>2. CASE Schedule(S)
  BY <1>1, <1>2 DEF Schedule, Created, TypeOK
<1>3. CASE SchedulePartly(S)
  BY <1>1, <1>3 DEF SchedulePartly, Created, TypeOK
<1>4. QED
  BY <1>2, <1>3

\* Every step keeps a JUDGE task, and a caller on its way to one, to
\* debates that were finished.
LEMMA JudgeOriginStep ==
    ASSUME TypeOK, SlotInv, HolderKeepsRow, L!StageInv, JudgeOrigin, [Next]_vars
    PROVE  JudgeOrigin'
<1>1. Finished => Finished'
  BY LifecycleStep, FinishedStays
<1>2. DebateId \in Target
  BY DEF Target
\* Most steps give the debate no row and send nobody towards one.
<1>3. SUFFICES
        ASSUME ~Finished,
               taskStatus[DebateId] = "ABSENT",
               \A c \in Caller : pc[c] \notin {"counts", "create"}
        PROVE  \/ Finished'
               \/ /\ taskStatus'[DebateId] = "ABSENT"
                  /\ \A c \in Caller : pc'[c] \notin {"counts", "create"}
  BY <1>1 DEF JudgeOrigin, JudgeOnlyForFinished, Finished
<1> DEFINE Still == /\ taskStatus'[DebateId] = "ABSENT"
                    /\ \A c \in Caller : pc'[c] \notin {"counts", "create"}
<1> USE DEF rowVars
<1>4. ~Judgeable
  BY <1>3 DEF L!StageInv, Judgeable, L!JudgeableStatuses, Finished
<1>5. CASE ChatStep
  BY <1>3, <1>5 DEF ChatStep, StartDebate, ConfirmTurn, ConfirmLastTurn, Forfeit,
                    TypeOK
<1>6. ASSUME NEW t \in Turn, OnTurnFinalized(t) \/ OnTurnFinalizedFails(t)
      PROVE  Still
  BY <1>3, <1>6, OtherTargets DEF OnTurnFinalized, OnTurnFinalizedFails
<1>7. ASSUME NEW x \in Target, SkipJob(x) \/ JobFails(x) PROVE Still
  BY <1>3, <1>7 DEF SkipJob, JobFails
<1>8. ASSUME NEW r \in Run, NEW x \in Target, Acquire(r, x) PROVE Still
  BY <1>2, <1>3, <1>8 DEF Acquire, TypeOK
<1>9. ASSUME NEW r \in Run, HandlerStep(r) \/ AnalyzerSchedulingFails(r) PROVE Still
  <2>1. saved[r] \in SUBSET (Turn \cup Component)
    BY DEF TypeOK
  <2>2. taskStatus'[DebateId] = taskStatus[DebateId]
    BY <1>9, <2>1, OtherTargets
       DEF HandlerStep, HandlerFails, AnalyzerSaves, AnalyzerSchedules,
           AnalyzerSchedulingFails, FactCheckerSaves, JudgeSaves
  <2>3. UNCHANGED pc
    BY <1>9 DEF HandlerStep, HandlerFails, AnalyzerSaves, AnalyzerSchedules,
           AnalyzerSchedulingFails, FactCheckerSaves, JudgeSaves
  <2>4. QED
    BY <1>3, <2>2, <2>3
<1>10. ASSUME NEW r \in Run, ProcessStep(r) PROVE Still
  <2>1. taskStatus'[DebateId] = "ABSENT"
    <3>1. ASSUME NEW x, NEW status, NEW owner, Settle(x, r, status, owner)
          PROVE  taskStatus'[DebateId] = "ABSENT"
      BY <1>2, <1>3, <3>1 DEF Settle, TypeOK
    <3>2. QED
      BY <1>3, <1>10, <3>1 DEF ProcessStep, Complete, Release, SettleFailed, FinishJob
  <2>2. \A c \in Caller : pc'[c] \notin {"counts", "create"}
    BY <1>3, <1>10 DEF ProcessStep, Complete, Release, SettleFailed, FinishJob,
                       Notified, TypeOK
  <2>3. QED
    BY <2>1, <2>2
<1>11. ASSUME NEW r \in Run, SettlementFails(r) PROVE Still
  BY <1>3, <1>11 DEF SettlementFails
<1>12. ASSUME NEW c \in Caller, CallStep(c) \/ CallFails(c) PROVE Still
  BY <1>2, <1>3, <1>4, <1>12
     DEF CallStep, ReadStatus, ReadCounts, FailJudgment, ScheduleJudge,
         StartJudging, RestoreFinalized, ResetFailed, CallFails, ResetRows,
         FailedTasks, Goto, TypeOK
<1>13. ASSUME NEW c \in Caller, ResetFails(c) PROVE Still
  BY <1>2, <1>3, <1>13 DEF ResetFails, ResetRows, FailedTasks, Goto, TypeOK
<1>14. ASSUME NEW c \in RestCaller, RestStep(c) PROVE Still
  <2>1. Missing \in SUBSET (Turn \cup Component)
    BY DEF Missing, Analyzable, Turn, TypeOK
  <2>2. taskStatus'[DebateId] = taskStatus[DebateId]
    BY <1>14, <2>1, OtherTargets
       DEF RestStep, PostJudging, PostJudge, PostRetry, ResumeFails
  <2>3. \A d \in Caller : pc'[d] \notin {"counts", "create"}
    BY <1>3, <1>14 DEF RestStep, PostJudging, PostJudge, PostRetry, ResumeFails,
                       Goto, TypeOK
  <2>4. QED
    BY <1>3, <2>2, <2>3
<1>15. CASE Crash
  BY <1>3, <1>15 DEF Crash
<1>16. CASE BootRecovery \/ BootRecoveryFails
  BY <1>2, <1>3, <1>16 DEF BootRecovery, BootRecoveryFails, Reclaim, Orphans
<1>17. CASE UNCHANGED vars
  BY <1>3, <1>17 DEF vars
<1>18. QED
  BY <1>5, <1>6, <1>7, <1>8, <1>9, <1>10, <1>11, <1>12, <1>13, <1>14, <1>15,
     <1>16, <1>17
     DEF Next, TakeJob, FaultStep

(***************************************************************************)
(* No request, retry or late analysis gives a running, forfeited or timed  *)
(* out debate a JUDGE task.                                                *)
(***************************************************************************)
THEOREM JudgeTaskOrigin == Spec => []JudgeOnlyForFinished
<1>1. Init => JudgeOrigin
  BY DEF Init, JudgeOrigin, JudgeOnlyForFinished, Target
<1>2. L!Spec => []L!StageInv
  BY L!LifecycleSettlesOnce, PTL
<1>3. TypeOK /\ SlotInv /\ HolderKeepsRow /\ L!StageInv /\ JudgeOrigin /\ [Next]_vars
        => JudgeOrigin'
  BY JudgeOriginStep
<1>4. JudgeOrigin => JudgeOnlyForFinished
  BY DEF JudgeOrigin
<1>5. QED
  BY <1>1, <1>2, <1>3, <1>4, PipelineHolders, PipelineImplementsLifecycle, PTL
     DEF Spec, LifecycleImplemented

-----------------------------------------------------------------------------
(* Attempts and jobs as long as nothing crashes *)

\* A row that waits has an attempt left; nothing was ever booted again.
BudgetInv ==
    /\ ~booting
    /\ AttemptBudget
    /\ \A x \in Target : taskStatus[x] \in {"ABSENT", "PENDING"} =>
                            attempt[x] < MaxAttemptsOf(x)

\* Every task has a budget of at least one attempt.
LEMMA MaxAttemptsType ==
    ASSUME NEW x
    PROVE  MaxAttemptsOf(x) \in Nat \ {0}
BY DEF MaxAttemptsOf, KindOf, Kind

\* Without faults the bound on faults allows none.
LEMMA NoFault ==
    ASSUME TypeOK, MaxFaults = 0
    PROVE  ~Fault
BY DEF TypeOK, Fault

\* Only a row that was missing waits after it was scheduled.
LEMMA ScheduleMakesPending ==
    ASSUME TypeOK, NEW S, Schedule(S)
    PROVE  \A x \in Target : taskStatus'[x] \in {"ABSENT", "PENDING"} =>
                              taskStatus[x] \in {"ABSENT", "PENDING"}
BY DEF TypeOK, Schedule, Created

\* Every step keeps the attempts within the budget.
LEMMA BudgetStep ==
    ASSUME MaxFaults = 0, TypeOK, SlotInv, HolderKeepsRow, BudgetInv, [Next]_vars
    PROVE  BudgetInv'
<1>1. ~Fault
  BY NoFault
<1>2. \A x : MaxAttemptsOf(x) \in Nat \ {0}
  BY MaxAttemptsType
\* Most steps leave the attempts alone and make no row wait that did not.
<1> DEFINE Kept == /\ UNCHANGED <<attempt, booting>>
                   /\ \A x \in Target : taskStatus'[x] \in {"ABSENT", "PENDING"} =>
                          taskStatus[x] \in {"ABSENT", "PENDING"}
<1>3. ASSUME Kept PROVE BudgetInv'
  BY <1>3 DEF BudgetInv, AttemptBudget
<1> USE DEF rowVars
<1>4. CASE ChatStep
  BY <1>4, <1>3 DEF ChatStep, StartDebate, ConfirmTurn, ConfirmLastTurn, Forfeit
<1>5. ASSUME NEW t \in Turn, OnTurnFinalized(t) PROVE BudgetInv'
  BY <1>5, <1>3, ScheduleMakesPending DEF OnTurnFinalized
<1>6. ASSUME NEW x \in Target, SkipJob(x) PROVE BudgetInv'
  BY <1>6, <1>3 DEF SkipJob
<1>7. ASSUME NEW r \in Run, NEW x \in Target, Acquire(r, x) PROVE BudgetInv'
  <2>1. attempt[x] \in Nat /\ attempt[x] < MaxAttemptsOf(x)
    BY <1>7 DEF Acquire, BudgetInv, TypeOK
  <2>2. AttemptBudget'
    BY <1>7, <1>2, <2>1 DEF Acquire, BudgetInv, AttemptBudget, TypeOK
  <2>3. \A y \in Target : taskStatus'[y] \in {"ABSENT", "PENDING"} =>
                            attempt'[y] < MaxAttemptsOf(y)
    BY <1>7 DEF Acquire, BudgetInv, TypeOK
  <2>4. QED
    BY <1>7, <2>2, <2>3 DEF Acquire, BudgetInv
<1>8. ASSUME NEW r \in Run, HandlerStep(r) PROVE BudgetInv'
  BY <1>8, <1>3, ScheduleMakesPending
     DEF HandlerStep, HandlerFails, AnalyzerSaves, AnalyzerSchedules,
         FactCheckerSaves, JudgeSaves
<1>9. ASSUME NEW r \in Run, Complete(r) \/ SettleFailed(r) \/ FinishJob(r)
      PROVE  BudgetInv'
  BY <1>9, <1>3 DEF Complete, SettleFailed, FinishJob, Settle, TypeOK
<1>10. ASSUME NEW r \in Run, Release(r) PROVE BudgetInv'
  <2>1. attempt[held[r]] < MaxAttemptsOf(held[r])
    BY <1>10 DEF Release, Retryable
  <2>2. /\ UNCHANGED <<attempt, booting>>
        /\ \A x \in Target \ {held[r]} : taskStatus'[x] = taskStatus[x]
    BY <1>10 DEF Release, Settle, TypeOK
  <2>3. QED
    BY <2>1, <2>2 DEF BudgetInv, AttemptBudget
<1>11. ASSUME NEW c \in Caller, CallStep(c), ~ResetFailed(c) PROVE BudgetInv'
  BY <1>11, <1>3, ScheduleMakesPending
     DEF CallStep, ReadStatus, ReadCounts, FailJudgment, ScheduleJudge,
         StartJudging, RestoreFinalized
<1>12. ASSUME NEW c \in Caller, ResetFailed(c) PROVE BudgetInv'
  BY <1>12, <1>2 DEF ResetFailed, ResetRows, BudgetInv, AttemptBudget, TypeOK
<1>13. ASSUME NEW c \in RestCaller, RestStep(c) PROVE BudgetInv'
  BY <1>13, <1>1, <1>3, ScheduleMakesPending
     DEF RestStep, PostJudging, PostJudge, PostRetry, ResumeFails
<1>14. CASE FaultStep
  BY <1>14, <1>1 DEF FaultStep, OnTurnFinalizedFails, AnalyzerSchedulingFails,
                     SettlementFails, JobFails, CallFails, ResetFails, Crash,
                     BootRecoveryFails, BudgetInv
<1>15. CASE BootRecovery
  BY <1>15 DEF BootRecovery, BudgetInv
<1>16. CASE UNCHANGED vars
  BY <1>16, <1>3 DEF vars
<1>17. QED
  BY <1>4, <1>5, <1>6, <1>7, <1>8, <1>9, <1>10, <1>11, <1>12, <1>13, <1>14,
     <1>15, <1>16
     DEF Next, TakeJob, ProcessStep

(***************************************************************************)
(* As long as no process crashes and no call is lost, no task is attempted *)
(* more often than its budget, retries through REST and late handlers      *)
(* included.  (A row reclaimed after a crash is attempted once more.)      *)
(***************************************************************************)
THEOREM AttemptsBounded ==
    ASSUME MaxFaults = 0
    PROVE  Spec => []AttemptBudget
<1>1. Init => BudgetInv
  BY MaxAttemptsType DEF Init, BudgetInv, AttemptBudget
<1>2. TypeOK /\ SlotInv /\ HolderKeepsRow /\ BudgetInv /\ [Next]_vars => BudgetInv'
  BY BudgetStep
<1>3. BudgetInv => AttemptBudget
  BY DEF BudgetInv
<1>4. QED
  BY <1>1, <1>2, <1>3, PipelineHolders, PTL DEF Spec

-----------------------------------------------------------------------------
(* Row and job agree while nothing crashes and nobody retries *)

\* The job a row of each status has, and how many of its calls have failed.
JobOfRow(x) ==
    /\ taskStatus[x] = "ABSENT" =>
         job[x] = "none" /\ attempt[x] = 0 /\ attemptsMade[x] = 0
    /\ taskStatus[x] = "PENDING" => job[x] = "queued" /\ attemptsMade[x] = attempt[x]
    /\ taskStatus[x] = "PROCESSING" =>
         job[x] = "active" /\ attemptsMade[x] + 1 = attempt[x]

QueueInv ==
    /\ ~booting
    /\ \A c \in Caller : pc[c] \notin {"restore", "reset"}
    /\ \A x \in Target : JobOfRow(x)
    /\ \A r \in Run : process[r] = "notify" =>
                        taskStatus[held[r]] \in {"COMPLETED", "FAILED"}

\* What only schedules rows keeps row and job together.
LEMMA ScheduleJobs ==
    ASSUME TypeOK, SlotInv, QueueInv, NEW S, Schedule(S),
           UNCHANGED <<attempt, attemptsMade, booting, process>>,
           \A r \in Run : process[r] = "notify" => held'[r] = held[r],
           \A c \in Caller : pc'[c] \notin {"restore", "reset"}
    PROVE  QueueInv'
<1>1. ASSUME NEW x \in Target PROVE JobOfRow(x)'
  BY DEF QueueInv, JobOfRow, Schedule, Created, Queued, TypeOK
<1>2. \A r \in Run : process[r] = "notify" =>
                      taskStatus'[held[r]] \in {"COMPLETED", "FAILED"}
  BY ScheduleKeeps DEF QueueInv, SlotInv
<1>3. QED
  BY <1>1, <1>2 DEF QueueInv

\* What leaves rows and jobs alone.
LEMMA JobsUntouched ==
    ASSUME SlotInv, QueueInv,
           UNCHANGED <<taskStatus, attempt, job, attemptsMade, booting, process>>,
           \A r \in Run : process[r] = "notify" => held'[r] = held[r],
           \A c \in Caller : pc'[c] \notin {"restore", "reset"}
    PROVE  QueueInv'
<1>1. ASSUME NEW x \in Target PROVE JobOfRow(x)'
  BY DEF QueueInv, JobOfRow
<1>2. QED
  BY <1>1 DEF QueueInv

\* Every step keeps a job for the rows that wait.
LEMMA QueueStep ==
    ASSUME MaxFaults = 0, "retry" \notin RestOps,
           TypeOK, SlotInv, HolderKeepsRow, QueueInv, [Next]_vars
    PROVE  QueueInv'
<1>1. ~Fault
  BY NoFault
<1>2. \A c \in Caller : pc[c] \notin {"restore", "reset"}
  BY DEF QueueInv
<1> USE DEF rowVars, queueVars, runVars
<1>3. CASE ChatStep
  BY <1>2, <1>3, JobsUntouched DEF ChatStep, StartDebate, ConfirmTurn,
                                   ConfirmLastTurn, Forfeit, TypeOK
<1>4. ASSUME NEW t \in Turn, OnTurnFinalized(t) PROVE QueueInv'
  BY <1>2, <1>4, ScheduleJobs DEF OnTurnFinalized
<1>5. ASSUME NEW x \in Target, SkipJob(x) PROVE QueueInv'
  <2>1. taskStatus[x] \in {"COMPLETED", "FAILED"}
    BY <1>5 DEF SkipJob, QueueInv, JobOfRow, TypeOK, JudgeTaskStatus
  <2>2. ASSUME NEW y \in Target PROVE JobOfRow(y)'
    BY <1>5, <2>1 DEF SkipJob, JobDone, QueueInv, JobOfRow, TypeOK
  <2>3. QED
    BY <1>5, <2>2 DEF SkipJob, QueueInv
<1>6. ASSUME NEW r \in Run, NEW x \in Target, Acquire(r, x) PROVE QueueInv'
  <2>1. ASSUME NEW y \in Target PROVE JobOfRow(y)'
    BY <1>6 DEF Acquire, QueueInv, JobOfRow, TypeOK
  <2>2. ASSUME NEW q \in Run, process'[q] = "notify"
        PROVE  taskStatus'[held'[q]] \in {"COMPLETED", "FAILED"}
    BY <1>6, <2>2 DEF Acquire, QueueInv, SlotInv, TypeOK
  <2>3. QED
    BY <1>6, <2>1, <2>2 DEF Acquire, QueueInv
<1>7. ASSUME NEW r \in Run,
             \/ HandlerFails(r) \/ AnalyzerSaves(r)
             \/ FactCheckerSaves(r) \/ JudgeSaves(r)
      PROVE  QueueInv'
  <2>1. \A q \in Run : process[q] = "notify" => held'[q] = held[q]
    BY <1>7 DEF HandlerFails, AnalyzerSaves, FactCheckerSaves, JudgeSaves,
                HandlerEnds, TypeOK
  <2>2. QED
    BY <1>2, <1>7, <2>1, JobsUntouched
       DEF HandlerFails, AnalyzerSaves, FactCheckerSaves, JudgeSaves
<1>8. ASSUME NEW r \in Run, AnalyzerSchedules(r) PROVE QueueInv'
  <2>1. \A q \in Run : process[q] = "notify" => held'[q] = held[q]
    BY <1>8 DEF AnalyzerSchedules, HandlerEnds, TypeOK
  <2>2. QED
    BY <1>2, <1>8, <2>1, ScheduleJobs DEF AnalyzerSchedules
\* The run that settles finds its row PROCESSING: the UPDATE takes effect.
<1>9. ASSUME NEW r \in Run, NEW status \in {"COMPLETED", "FAILED"},
             process[r] = "working", Settle(held[r], r, status, r),
             process' = [process EXCEPT ![r] = "notify"],
             \A c \in Caller : pc'[c] \notin {"restore", "reset"},
             UNCHANGED <<attempt, job, attemptsMade, booting, held>>
      PROVE  QueueInv'
  <2>1. held[r] \in Target /\ taskStatus[held[r]] = "PROCESSING"
                           /\ requestId[held[r]] = r
    BY <1>9 DEF SlotInv, HolderKeepsRow
  <2>2. taskStatus' = [taskStatus EXCEPT ![held[r]] = status]
    BY <1>9, <2>1 DEF Settle
  <2>3. ASSUME NEW y \in Target PROVE JobOfRow(y)'
    BY <1>9, <2>1, <2>2 DEF QueueInv, JobOfRow, TypeOK
  <2>4. ASSUME NEW q \in Run, process'[q] = "notify"
        PROVE  taskStatus'[held[q]] \in {"COMPLETED", "FAILED"}
    BY <1>9, <2>1, <2>2, <2>4 DEF QueueInv, SlotInv, TypeOK
  <2>5. QED
    BY <1>9, <2>3, <2>4 DEF QueueInv
<1>10. ASSUME NEW r \in Run, Complete(r) PROVE QueueInv'
  BY <1>2, <1>9, <1>10 DEF Complete, Notified, TypeOK
<1>11. ASSUME NEW r \in Run, SettleFailed(r) PROVE QueueInv'
  BY <1>2, <1>9, <1>11 DEF SettleFailed, Notified, TypeOK
<1>12. ASSUME NEW r \in Run, Release(r) PROVE QueueInv'
  <2>1. held[r] \in Target /\ taskStatus[held[r]] = "PROCESSING"
                           /\ requestId[held[r]] = r
    BY <1>12 DEF Release, SlotInv, HolderKeepsRow
  <2>2. taskStatus' = [taskStatus EXCEPT ![held[r]] = "PENDING"]
    BY <1>12, <2>1 DEF Release, Settle
  <2>3. attemptsMade[held[r]] + 1 = attempt[held[r]]
        /\ attempt[held[r]] < MaxAttemptsOf(held[r])
    BY <1>12, <2>1 DEF Release, Retryable, QueueInv, JobOfRow
  <2>4. /\ job' = [job EXCEPT ![held[r]] = "queued"]
        /\ attemptsMade' = [attemptsMade EXCEPT ![held[r]] = @ + 1]
    BY <1>12, <2>3 DEF Release, JobThrew
  <2>5. ASSUME NEW y \in Target PROVE JobOfRow(y)'
    BY <1>12, <2>1, <2>2, <2>3, <2>4 DEF Release, QueueInv, JobOfRow, TypeOK
  <2>6. ASSUME NEW q \in Run, process'[q] = "notify"
        PROVE  taskStatus'[held'[q]] \in {"COMPLETED", "FAILED"}
    BY <1>12, <2>1, <2>2, <2>6 DEF Release, QueueInv, SlotInv, TypeOK
  <2>7. QED
    BY <1>12, <2>5, <2>6 DEF Release, QueueInv
<1>13. ASSUME NEW r \in Run, FinishJob(r) PROVE QueueInv'
  <2>1. held[r] \in Target /\ taskStatus[held[r]] \in {"COMPLETED", "FAILED"}
    BY <1>13 DEF FinishJob, QueueInv, SlotInv
  <2>2. ASSUME NEW y \in Target PROVE JobOfRow(y)'
    BY <1>13, <2>1 DEF FinishJob, JobDone, QueueInv, JobOfRow, TypeOK
  <2>3. ASSUME NEW q \in Run, process'[q] = "notify"
        PROVE  taskStatus'[held'[q]] \in {"COMPLETED", "FAILED"}
    BY <1>13, <2>3 DEF FinishJob, QueueInv, TypeOK
  <2>4. QED
    BY <1>13, <2>2, <2>3 DEF FinishJob, QueueInv
<1>14. ASSUME NEW c \in Caller,
              ReadStatus(c) \/ ReadCounts(c) \/ FailJudgment(c) \/ StartJudging(c)
       PROVE  QueueInv'
  BY <1>2, <1>14, JobsUntouched
     DEF ReadStatus, ReadCounts, FailJudgment, StartJudging, Goto, TypeOK
<1>15. ASSUME NEW c \in Caller, ScheduleJudge(c) PROVE QueueInv'
  BY <1>2, <1>15, ScheduleJobs DEF ScheduleJudge, Goto, TypeOK
<1>16. ASSUME NEW c \in Caller, RestoreFinalized(c) \/ ResetFailed(c) PROVE FALSE
  BY <1>2, <1>16 DEF RestoreFinalized, ResetFailed
<1>17. ASSUME NEW c \in RestCaller, RestStep(c) PROVE QueueInv'
  <2>1. CASE PostJudging(c)
    BY <1>2, <2>1, JobsUntouched DEF PostJudging, Request, Goto, TypeOK
  <2>2. CASE PostJudge(c)
    BY <1>2, <2>2, ScheduleJobs DEF PostJudge, Request, Goto, TypeOK
  <2>3. QED
    BY <1>1, <1>17, <2>1, <2>2 DEF RestStep, PostRetry, Request, ResumeFails
<1>18. CASE FaultStep
  BY <1>1, <1>18 DEF FaultStep, OnTurnFinalizedFails, AnalyzerSchedulingFails,
                     SettlementFails, JobFails, CallFails, ResetFails, Crash,
                     BootRecoveryFails, QueueInv
<1>19. CASE BootRecovery
  BY <1>19 DEF BootRecovery, QueueInv
<1>20. CASE UNCHANGED vars
  BY <1>2, <1>20, JobsUntouched DEF vars
<1>21. QED
  BY <1>3, <1>4, <1>5, <1>6, <1>7, <1>8, <1>10, <1>11, <1>12, <1>13, <1>14, <1>15,
     <1>16, <1>17, <1>18, <1>19, <1>20
     DEF Next, TakeJob, HandlerStep, ProcessStep, CallStep

-----------------------------------------------------------------------------
(* Row and job through crashes, failing calls and retries *)

\* The job a busy run has is active, and nobody else has it.
HeldJobs ==
    /\ \A x \in Target : job[x] = "none" => attemptsMade[x] = 0
    /\ \A x \in Target : job[x] = "active" =>
                            \E r \in Run : process[r] # "idle" /\ held[r] = x
    /\ \A r \in Run : process[r] # "idle" => job[held[r]] = "active"
    /\ \A r, q \in Run : process[r] # "idle" /\ process[q] # "idle"
                         /\ held[r] = held[q] => r = q

\* As long as a row shares its job, no more calls of the job have failed than
\* attempts of the row have begun.
Shares(x) ==
    /\ taskStatus[x] = "ABSENT" => job[x] = "none"
    /\ taskStatus[x] = "PENDING" => job[x] = "queued"
    /\ taskStatus[x] \in {"PENDING", "PROCESSING"} => attemptsMade[x] <= attempt[x]

RunShares(r) ==
    /\ process[r] = "working" => attemptsMade[held[r]] < attempt[held[r]]
    /\ process[r] = "notify" => taskStatus[held[r]] \in {"COMPLETED", "FAILED"}

SharedInv ==
    /\ HeldJobs
    /\ \A x \in Target : x \notin parted => Shares(x)
    /\ \A r \in Run : held[r] \notin parted => RunShares(r)

\* What leaves the jobs alone, but for those it adds, and the busy runs.
LEMMA HeldUntouched ==
    ASSUME TypeOK, SlotInv, HeldJobs,
           UNCHANGED job \/ \E S : job' = Queued(S),
           UNCHANGED <<attemptsMade, process>>,
           \A r \in Run : process[r] # "idle" => held'[r] = held[r]
    PROVE  HeldJobs'
<1>1. \A x \in Target : /\ job'[x] = "none" => job[x] = "none"
                        /\ job'[x] = "active" <=> job[x] = "active"
  <2>1. CASE UNCHANGED job
    BY <2>1
  <2>2. CASE \E S : job' = Queued(S)
    BY <2>2 DEF Queued, TypeOK
  <2>3. QED
    BY <2>1, <2>2
<1>2. QED
  BY <1>1 DEF HeldJobs, SlotInv

\* A job that waits ends or is called again, without a run.
LEMMA HeldQueuedEnds ==
    ASSUME TypeOK, SlotInv, HeldJobs, NEW x \in Target, job[x] = "queued",
           JobDone(x) \/ JobThrew(x), UNCHANGED <<process, held>>
    PROVE  HeldJobs'
<1>1. /\ job'[x] \in {"none", "queued"}
      /\ job'[x] = "none" => attemptsMade'[x] = 0
      /\ \A y \in Target \ {x} : job'[y] = job[y] /\ attemptsMade'[y] = attemptsMade[y]
  BY DEF JobDone, JobThrew, TypeOK
<1>2. \A r \in Run : process[r] # "idle" => held[r] # x /\ held[r] \in Target
  BY DEF HeldJobs, SlotInv
<1>3. QED
  BY <1>1, <1>2 DEF HeldJobs

\* A run leaves its job.
LEMMA HeldRunLeaves ==
    ASSUME TypeOK, SlotInv, HeldJobs, NEW r \in Run, process[r] # "idle",
           JobDone(held[r]) \/ JobThrew(held[r]),
           process' = [process EXCEPT ![r] = "idle"],
           \A q \in Run \ {r} : held'[q] = held[q]
    PROVE  HeldJobs'
<1>1. PICK x \in Target : x = held[r]
  BY DEF SlotInv
<1>2. /\ job'[x] \in {"none", "queued"}
      /\ job'[x] = "none" => attemptsMade'[x] = 0
      /\ \A y \in Target \ {x} : job'[y] = job[y] /\ attemptsMade'[y] = attemptsMade[y]
  BY <1>1 DEF JobDone, JobThrew, TypeOK
<1>3. \A q \in Run : process'[q] # "idle" =>
         q # r /\ process[q] # "idle" /\ held'[q] = held[q] /\ held[q] # x /\ held[q] \in Target
  BY <1>1 DEF HeldJobs, SlotInv, TypeOK
<1>4. \A y \in Target : job'[y] = "none" => attemptsMade'[y] = 0
  BY <1>2 DEF HeldJobs
<1>5. ASSUME NEW y \in Target, job'[y] = "active"
      PROVE  \E q \in Run : process'[q] # "idle" /\ held'[q] = y
  <2>1. y # x /\ job[y] = "active"
    BY <1>2, <1>5
  <2>2. PICK q \in Run : process[q] # "idle" /\ held[q] = y
    BY <2>1 DEF HeldJobs
  <2>3. QED
    BY <1>1, <2>1, <2>2 DEF TypeOK
<1>6. QED
  BY <1>2, <1>3, <1>4, <1>5 DEF HeldJobs

\* Every step keeps the jobs of busy runs active.
LEMMA HeldJobsStep ==
    ASSUME TypeOK, SlotInv, HeldJobs, [Next]_vars
    PROVE  HeldJobs'
<1> USE DEF rowVars, queueVars, runVars
<1>1. CASE ChatStep
  BY <1>1, HeldUntouched DEF ChatStep, StartDebate, ConfirmTurn, ConfirmLastTurn, Forfeit
<1>2. ASSUME NEW t \in Turn, OnTurnFinalized(t) \/ OnTurnFinalizedFails(t) PROVE HeldJobs'
  BY <1>2, HeldUntouched DEF OnTurnFinalized, OnTurnFinalizedFails, Schedule, SchedulePartly
<1>3. ASSUME NEW x \in Target, SkipJob(x) \/ JobFails(x) PROVE HeldJobs'
  <2>1. /\ job[x] = "queued" /\ UNCHANGED <<process, held>>
        /\ JobDone(x) \/ JobThrew(x)
    BY <1>3 DEF SkipJob, JobFails
  <2>2. QED
    BY <2>1, HeldQueuedEnds
<1>4. ASSUME NEW r \in Run, NEW x \in Target, Acquire(r, x) PROVE HeldJobs'
  <2>1. /\ job[x] = "queued" /\ process[r] = "idle"
        /\ job' = [job EXCEPT ![x] = "active"] /\ held' = [held EXCEPT ![r] = x]
        /\ process' = [process EXCEPT ![r] = "working"] /\ UNCHANGED attemptsMade
    BY <1>4 DEF Acquire
  <2>2. \A q \in Run : process[q] # "idle" => held[q] # x /\ held[q] \in Target
    BY <2>1 DEF HeldJobs, SlotInv
  <2>3. \A q \in Run : q # r => process'[q] = process[q] /\ held'[q] = held[q]
    BY <2>1 DEF TypeOK
  <2>4. process'[r] = "working" /\ held'[r] = x /\ job'[x] = "active"
    BY <2>1 DEF TypeOK
  <2>5. \A y \in Target \ {x} : job'[y] = job[y]
    BY <2>1 DEF TypeOK
  <2>6. ASSUME NEW y \in Target, job'[y] = "active"
        PROVE  \E q \in Run : process'[q] # "idle" /\ held'[q] = y
    <3>1. CASE y = x
      BY <2>4, <3>1
    <3>2. CASE y # x
      <4>1. PICK q \in Run : process[q] # "idle" /\ held[q] = y
        BY <2>5, <2>6, <3>2 DEF HeldJobs
      <4>2. QED
        BY <2>1, <2>3, <4>1
    <3>3. QED
      BY <3>1, <3>2
  <2>7. \A y \in Target : job'[y] = "none" => attemptsMade'[y] = 0
    BY <2>1, <2>4, <2>5 DEF HeldJobs
  <2>8. \A q \in Run : process'[q] # "idle" => job'[held'[q]] = "active"
    BY <2>2, <2>3, <2>4, <2>5 DEF HeldJobs
  <2>9. \A q, p \in Run : process'[q] # "idle" /\ process'[p] # "idle"
                          /\ held'[q] = held'[p] => q = p
    BY <2>2, <2>3, <2>4 DEF HeldJobs
  <2>10. QED
    BY <2>6, <2>7, <2>8, <2>9 DEF HeldJobs
<1>5. ASSUME NEW r \in Run, HandlerStep(r) \/ AnalyzerSchedulingFails(r) PROVE HeldJobs'
  <2>1. \A q \in Run : process[q] # "idle" => held'[q] = held[q]
    BY <1>5 DEF HandlerStep, HandlerFails, AnalyzerSaves, AnalyzerSchedules,
                AnalyzerSchedulingFails, FactCheckerSaves, JudgeSaves, HandlerEnds, TypeOK
  <2>2. UNCHANGED job \/ \E S : job' = Queued(S)
    BY <1>5 DEF HandlerStep, HandlerFails, AnalyzerSaves, AnalyzerSchedules,
                AnalyzerSchedulingFails, FactCheckerSaves, JudgeSaves, Schedule,
                SchedulePartly
  <2>3. UNCHANGED <<attemptsMade, process>>
    BY <1>5 DEF HandlerStep, HandlerFails, AnalyzerSaves, AnalyzerSchedules,
                AnalyzerSchedulingFails, FactCheckerSaves, JudgeSaves
  <2>4. QED
    BY <2>1, <2>2, <2>3, HeldUntouched
<1>6. ASSUME NEW r \in Run, Complete(r) \/ SettleFailed(r) PROVE HeldJobs'
  <2>1. /\ process[r] = "working" /\ process' = [process EXCEPT ![r] = "notify"]
        /\ UNCHANGED <<job, attemptsMade, held>>
    BY <1>6 DEF Complete, SettleFailed
  <2>2. \A q \in Run : process'[q] # "idle" <=> process[q] # "idle"
    BY <2>1 DEF TypeOK
  <2>3. QED
    BY <2>1, <2>2 DEF HeldJobs
<1>7. ASSUME NEW r \in Run, Release(r) \/ FinishJob(r) \/ SettlementFails(r)
      PROVE  HeldJobs'
  <2>1. /\ process[r] # "idle" /\ process' = [process EXCEPT ![r] = "idle"]
        /\ JobDone(held[r]) \/ JobThrew(held[r])
    BY <1>7 DEF Release, FinishJob, SettlementFails
  <2>2. \A q \in Run \ {r} : held'[q] = held[q]
    BY <1>7 DEF Release, FinishJob, SettlementFails, TypeOK
  <2>3. QED
    BY <2>1, <2>2, HeldRunLeaves
<1>8. ASSUME NEW c \in Caller, CallStep(c) \/ CallFails(c) \/ ResetFails(c) PROVE HeldJobs'
  <2>1. UNCHANGED job \/ \E S : job' = Queued(S)
    BY <1>8 DEF CallStep, ReadStatus, ReadCounts, FailJudgment, ScheduleJudge,
                StartJudging, RestoreFinalized, ResetFailed, CallFails, ResetFails,
                Schedule, SchedulePartly
  <2>2. UNCHANGED <<attemptsMade, process, held>>
    BY <1>8 DEF CallStep, ReadStatus, ReadCounts, FailJudgment, ScheduleJudge,
                StartJudging, RestoreFinalized, ResetFailed, CallFails, ResetFails
  <2>3. QED
    BY <2>1, <2>2, HeldUntouched
<1>9. ASSUME NEW c \in RestCaller, RestStep(c) PROVE HeldJobs'
  <2>1. UNCHANGED job \/ \E S : job' = Queued(S)
    BY <1>9 DEF RestStep, PostJudging, PostJudge, PostRetry, ResumeFails, Schedule,
                SchedulePartly
  <2>2. UNCHANGED <<attemptsMade, process, held>>
    BY <1>9 DEF RestStep, PostJudging, PostJudge, PostRetry, ResumeFails
  <2>3. QED
    BY <2>1, <2>2, HeldUntouched
<1>10. CASE Crash
  <2>1. \A x \in Target : job'[x] \in {"none", "queued"}
    <3>1. PICK rerun \in SUBSET {x \in Target : job[x] = "active"} :
             job' = [x \in Target |-> IF x \in rerun THEN "queued"
                                      ELSE IF job[x] = "active" THEN "none" ELSE job[x]]
      BY <1>10 DEF Crash
    <3>2. QED
      BY <3>1 DEF TypeOK
  <2>2. QED
    BY <1>10, <2>1 DEF Crash, HeldJobs
<1>11. CASE BootRecovery \/ BootRecoveryFails
  BY <1>11, HeldUntouched DEF BootRecovery, BootRecoveryFails
<1>12. CASE UNCHANGED vars
  BY <1>12, HeldUntouched DEF vars
<1>13. QED
  BY <1>1, <1>2, <1>3, <1>4, <1>5, <1>6, <1>7, <1>8, <1>9, <1>10, <1>11, <1>12
     DEF Next, TakeJob, ProcessStep, FaultStep

\* What follows for a row, or a run, that the step leaves as it was.
LEMMA SharedFrom ==
    ASSUME SharedInv, HeldJobs', SlotInv,
           \A x \in Target : x \notin parted' =>
             \/ Shares(x)'
             \/ /\ x \notin parted
                /\ taskStatus'[x] = taskStatus[x] /\ attempt'[x] = attempt[x]
                /\ job'[x] = job[x] /\ attemptsMade'[x] = attemptsMade[x],
           \A r \in Run : held'[r] \notin parted' /\ process'[r] # "idle" =>
             \/ RunShares(r)'
             \/ /\ held[r] \notin parted
                /\ process'[r] = process[r] /\ held'[r] = held[r]
                /\ taskStatus'[held[r]] = taskStatus[held[r]]
                /\ attempt'[held[r]] = attempt[held[r]]
                /\ attemptsMade'[held[r]] = attemptsMade[held[r]]
    PROVE  SharedInv'
<1>1. ASSUME NEW x \in Target, x \notin parted' PROVE Shares(x)'
  BY <1>1 DEF SharedInv, Shares
<1>2. ASSUME NEW r \in Run, held'[r] \notin parted' PROVE RunShares(r)'
  BY <1>2 DEF SharedInv, RunShares
<1>3. QED
  BY <1>1, <1>2 DEF SharedInv

\* What leaves rows and jobs alone, and the tasks of busy runs.
LEMMA SharedUntouched ==
    ASSUME SlotInv, SharedInv, HeldJobs',
           UNCHANGED <<taskStatus, attempt, job, attemptsMade, parted, process>>,
           \A r \in Run : process[r] # "idle" => held'[r] = held[r]
    PROVE  SharedInv'
BY SharedFrom

\* What schedules tasks, the part of a call included that came before it failed.
LEMMA SharedScheduled ==
    ASSUME TypeOK, SlotInv, HolderKeepsRow, SharedInv, HeldJobs', NEW S,
           (Schedule(S) /\ UNCHANGED parted) \/ SchedulePartly(S),
           UNCHANGED <<attempt, attemptsMade, process>>,
           \A r \in Run : process[r] # "idle" => held'[r] = held[r]
    PROVE  SharedInv'
<1>1. PICK made \in SUBSET S, added \in SUBSET S :
         /\ taskStatus' = Created(made) /\ job' = Queued(added)
         /\ parted \subseteq parted'
         /\ \A x \in Target : x \notin parted' /\ taskStatus[x] = "ABSENT"
                               /\ taskStatus'[x] = "PENDING" => job'[x] # "none"
         /\ \A x \in added : Created(made)[x] = "PENDING"
  <2>1. CASE Schedule(S) /\ UNCHANGED parted
    <3>1. \A x \in Target : taskStatus[x] = "ABSENT" /\ taskStatus'[x] = "PENDING"
                              => job'[x] # "none"
      BY <2>1 DEF Schedule, Created, Queued, TypeOK
    <3>2. QED
      BY <2>1, <3>1 DEF Schedule
  <2>2. CASE SchedulePartly(S)
    <3>1. PICK made \in SUBSET S :
            /\ taskStatus' = Created(made)
            /\ \E added \in SUBSET made :
                  job' = Queued({x \in added : Created(made)[x] = "PENDING"})
            /\ parted' = parted \cup {x \in made : Created(made)[x] = "PENDING"
                                                   /\ job'[x] = "none"}
      BY <2>2 DEF SchedulePartly
    <3>2. \A x \in Target : taskStatus[x] = "ABSENT" /\ taskStatus'[x] = "PENDING"
                              => x \in made /\ Created(made)[x] = "PENDING"
      BY <3>1 DEF Created
    <3>3. \A x \in Target : x \notin parted' /\ taskStatus[x] = "ABSENT"
                              /\ taskStatus'[x] = "PENDING" => job'[x] # "none"
      BY <3>1, <3>2
    <3>4. QED
      BY <3>1, <3>3
  <2>3. QED
    BY <2>1, <2>2
<1>2. ASSUME NEW x \in Target, x \notin parted' PROVE Shares(x)'
  <2>1. x \notin parted /\ Shares(x) /\ attempt[x] \in Nat
    BY <1>1, <1>2 DEF SharedInv, TypeOK
  <2>2. CASE taskStatus[x] = "ABSENT"
    <3>1. job[x] = "none" /\ attemptsMade[x] = 0
      BY <2>1, <2>2 DEF Shares, SharedInv, HeldJobs
    <3>2. job'[x] \in {"none", "queued"}
      BY <1>1, <3>1 DEF Queued
    <3>3. taskStatus'[x] \in {"ABSENT", "PENDING"}
      BY <1>1, <2>2 DEF Created
    <3>4. taskStatus'[x] = "ABSENT" => job'[x] = "none"
      BY <1>1, <2>2, <3>1 DEF Queued, Created
    <3>5. QED
      BY <1>1, <1>2, <2>1, <2>2, <3>1, <3>2, <3>3, <3>4 DEF Shares
  <2>3. CASE taskStatus[x] # "ABSENT"
    <3>1. taskStatus'[x] = taskStatus[x]
      BY <1>1, <2>3 DEF Created
    <3>2. job[x] # "none" => job'[x] = job[x]
      BY <1>1 DEF Queued
    <3>3. QED
      BY <2>1, <2>3, <3>1, <3>2 DEF Shares
  <2>4. QED
    BY <2>2, <2>3
<1>3. ASSUME NEW r \in Run, held'[r] \notin parted', process'[r] # "idle"
      PROVE  RunShares(r)'
  <2>1. /\ held'[r] = held[r] /\ held[r] \in Target /\ held[r] \notin parted
        /\ process'[r] = process[r]
    BY <1>1, <1>3 DEF SlotInv
  <2>2. taskStatus[held[r]] # "ABSENT"
    BY <1>3, <2>1 DEF HolderKeepsRow, SharedInv, RunShares, TypeOK
  <2>3. taskStatus'[held[r]] = taskStatus[held[r]]
    BY <1>1, <2>1, <2>2 DEF Created
  <2>4. QED
    BY <2>1, <2>3 DEF SharedInv, RunShares
<1>4. QED
  BY <1>2, <1>3, SharedFrom

\* Failed rows are reset, and all or some of them queued.
LEMMA SharedReset ==
    ASSUME TypeOK, SlotInv, HolderKeepsRow, SharedInv, HeldJobs', ResetRows,
           NEW added \in SUBSET FailedTasks, job' = Queued(added),
           parted' = (parted \ FailedTasks)
                     \cup {x \in FailedTasks : x \notin added \/ job[x] # "none"},
           UNCHANGED <<attemptsMade, process, held>>
    PROVE  SharedInv'
<1>1. \A x \in Target : x \notin FailedTasks =>
         /\ taskStatus'[x] = taskStatus[x] /\ attempt'[x] = attempt[x]
         /\ job'[x] = job[x]
         /\ x \in parted' <=> x \in parted
  BY DEF ResetRows, Queued
<1>2. ASSUME NEW x \in Target, x \in FailedTasks, x \notin parted' PROVE Shares(x)'
  <2>1. x \in added /\ job[x] = "none" /\ attemptsMade[x] = 0
    BY <1>2 DEF SharedInv, HeldJobs
  <2>2. taskStatus'[x] = "PENDING" /\ attempt'[x] = 0 /\ job'[x] = "queued"
    BY <1>2, <2>1 DEF ResetRows, Queued
  <2>3. QED
    BY <2>1, <2>2 DEF Shares
<1>3. ASSUME NEW r \in Run, held'[r] \notin parted', process'[r] # "idle"
      PROVE  held[r] \in Target /\ held[r] \notin FailedTasks
  <2>1. held[r] \in Target /\ job[held[r]] = "active"
    BY <1>3 DEF SlotInv, SharedInv, HeldJobs
  <2>2. QED
    BY <1>3, <2>1
<1>4. QED
  BY <1>1, <1>2, <1>3, SharedFrom

\* Every step keeps row and job together, but for the rows it parts.
LEMMA SharedStep ==
    ASSUME TypeOK, SlotInv, HolderKeepsRow, SharedInv, [Next]_vars
    PROVE  SharedInv'
<1>1. HeldJobs'
  BY HeldJobsStep DEF SharedInv
<1> USE DEF rowVars, queueVars, runVars
<1>2. CASE ChatStep
  BY <1>1, <1>2, SharedUntouched
     DEF ChatStep, StartDebate, ConfirmTurn, ConfirmLastTurn, Forfeit
<1>3. ASSUME NEW t \in Turn, OnTurnFinalized(t) \/ OnTurnFinalizedFails(t) PROVE SharedInv'
  BY <1>1, <1>3, SharedScheduled DEF OnTurnFinalized, OnTurnFinalizedFails
<1>4. ASSUME NEW x \in Target, SkipJob(x) PROVE SharedInv'
  <2>1. /\ job[x] = "queued" /\ taskStatus[x] # "PENDING"
        /\ job'[x] = "none" /\ attemptsMade'[x] = 0
        /\ \A y \in Target : y # x => job'[y] = job[y] /\ attemptsMade'[y] = attemptsMade[y]
        /\ UNCHANGED <<taskStatus, attempt, parted, process, held>>
    BY <1>4 DEF SkipJob, JobDone, TypeOK
  <2>2. Shares(x)'
    BY <2>1 DEF Shares, TypeOK
  <2>3. \A r \in Run : process[r] # "idle" => held[r] # x /\ held[r] \in Target
    BY <2>1 DEF SharedInv, HeldJobs, SlotInv
  <2>4. QED
    BY <1>1, <2>1, <2>2, <2>3, SharedFrom
<1>5. ASSUME NEW x \in Target, JobFails(x) PROVE SharedInv'
  <2>1. /\ job[x] = "queued" /\ parted' = parted \cup {x}
        /\ \A y \in Target : y # x => job'[y] = job[y] /\ attemptsMade'[y] = attemptsMade[y]
        /\ UNCHANGED <<taskStatus, attempt, process, held>>
    BY <1>5 DEF JobFails, JobThrew, JobDone, TypeOK
  <2>2. \A r \in Run : process[r] # "idle" => held[r] # x /\ held[r] \in Target
    BY <2>1 DEF SharedInv, HeldJobs, SlotInv
  <2>3. QED
    BY <1>1, <2>1, <2>2, SharedFrom
<1>6. ASSUME NEW r \in Run, NEW x \in Target, Acquire(r, x) PROVE SharedInv'
  <2>1. /\ job[x] = "queued" /\ taskStatus[x] = "PENDING"
        /\ taskStatus'[x] = "PROCESSING" /\ attempt'[x] = attempt[x] + 1
        /\ attemptsMade'[x] = attemptsMade[x]
        /\ process'[r] = "working" /\ held'[r] = x
        /\ UNCHANGED <<attemptsMade, parted>>
    BY <1>6 DEF Acquire, TypeOK
  <2>2. \A y \in Target : y # x => /\ taskStatus'[y] = taskStatus[y]
                                   /\ attempt'[y] = attempt[y] /\ job'[y] = job[y]
    BY <1>6 DEF Acquire, TypeOK
  <2>3. \A q \in Run : q # r => process'[q] = process[q] /\ held'[q] = held[q]
    BY <1>6 DEF Acquire, TypeOK
  <2>4. \A q \in Run : process[q] # "idle" => held[q] # x /\ held[q] \in Target
    BY <2>1 DEF SharedInv, HeldJobs, SlotInv
  <2>5. x \notin parted => attemptsMade[x] <= attempt[x]
    BY <2>1 DEF SharedInv, Shares
  <2>6. attempt[x] \in Nat /\ attemptsMade[x] \in Nat
    BY DEF TypeOK
  <2>7. x \notin parted => Shares(x)' /\ RunShares(r)'
    BY <2>1, <2>5, <2>6 DEF Shares, RunShares
  <2>8. QED
    BY <1>1, <2>1, <2>2, <2>3, <2>4, <2>7, SharedFrom
<1>7. ASSUME NEW r \in Run,
             \/ HandlerFails(r) \/ AnalyzerSaves(r)
             \/ FactCheckerSaves(r) \/ JudgeSaves(r)
      PROVE  SharedInv'
  <2>1. \A q \in Run : process[q] # "idle" => held'[q] = held[q]
    BY <1>7 DEF HandlerFails, AnalyzerSaves, FactCheckerSaves, JudgeSaves,
                HandlerEnds, TypeOK
  <2>2. UNCHANGED <<taskStatus, attempt, job, attemptsMade, parted, process>>
    BY <1>7 DEF HandlerFails, AnalyzerSaves, FactCheckerSaves, JudgeSaves
  <2>3. QED
    BY <1>1, <2>1, <2>2, SharedUntouched
<1>8. ASSUME NEW r \in Run, AnalyzerSchedules(r) \/ AnalyzerSchedulingFails(r)
      PROVE  SharedInv'
  <2>1. \A q \in Run : process[q] # "idle" => held'[q] = held[q]
    BY <1>8 DEF AnalyzerSchedules, AnalyzerSchedulingFails, HandlerEnds, TypeOK
  <2>2. QED
    BY <1>1, <1>8, <2>1, SharedScheduled DEF AnalyzerSchedules, AnalyzerSchedulingFails
\* The run that settles finds its row PROCESSING: the UPDATE takes effect.
<1>9. ASSUME NEW r \in Run, Complete(r) \/ SettleFailed(r) PROVE SharedInv'
  <2>1. PICK x \in Target : x = held[r]
    BY <1>9 DEF Complete, SettleFailed, SlotInv
  <2>2. taskStatus[x] = "PROCESSING" /\ requestId[x] = r
    BY <1>9, <2>1 DEF Complete, SettleFailed, HolderKeepsRow
  <2>3. /\ taskStatus'[x] \in {"COMPLETED", "FAILED"}
        /\ \A y \in Target : y # x => taskStatus'[y] = taskStatus[y]
        /\ process'[r] = "notify" /\ \A q \in Run : q # r => process'[q] = process[q]
        /\ UNCHANGED <<attempt, job, attemptsMade, parted, held>>
    BY <1>9, <2>1, <2>2 DEF Complete, SettleFailed, Settle, TypeOK
  <2>4. Shares(x)' /\ RunShares(r)'
    BY <2>1, <2>3 DEF Shares, RunShares
  <2>5. \A q \in Run : process[q] # "idle" /\ q # r => held[q] # x /\ held[q] \in Target
    BY <1>9, <2>1 DEF SharedInv, HeldJobs, SlotInv, Complete, SettleFailed
  <2>6. QED
    BY <1>1, <2>3, <2>4, <2>5, SharedFrom
\* So does the one that releases it: its job has a call left, as the row has.
<1>10. ASSUME NEW r \in Run, Release(r) PROVE SharedInv'
  <2>1. PICK x \in Target : x = held[r]
    BY <1>10 DEF Release, SlotInv
  <2>2. /\ taskStatus[x] = "PROCESSING" /\ requestId[x] = r
        /\ attempt[x] < MaxAttemptsOf(x) /\ attempt[x] \in Nat /\ attemptsMade[x] \in Nat
        /\ MaxAttemptsOf(x) \in Nat
    BY <1>10, <2>1, MaxAttemptsType DEF Release, Retryable, HolderKeepsRow, TypeOK
  <2>3. /\ taskStatus'[x] = "PENDING"
        /\ \A y \in Target : y # x => taskStatus'[y] = taskStatus[y]
        /\ UNCHANGED <<attempt, parted>>
    BY <1>10, <2>1, <2>2 DEF Release, Settle, TypeOK
  <2>4. \A y \in Target : y # x => job'[y] = job[y] /\ attemptsMade'[y] = attemptsMade[y]
    BY <1>10, <2>1 DEF Release, JobThrew, JobDone, TypeOK
  <2>5. ASSUME x \notin parted
        PROVE  Shares(x)'
    <3>1. attemptsMade[x] < attempt[x]
      BY <1>10, <2>1, <2>5 DEF Release, SharedInv, RunShares
    <3>2. attemptsMade[x] + 1 < MaxAttemptsOf(x) /\ attemptsMade[x] + 1 <= attempt[x]
      BY <2>2, <3>1
    <3>3. job'[x] = "queued" /\ attemptsMade'[x] = attemptsMade[x] + 1
      BY <1>10, <2>1, <3>2 DEF Release, JobThrew, TypeOK
    <3>4. QED
      BY <2>3, <3>2, <3>3 DEF Shares
  <2>6. /\ process[r] # "idle" /\ process'[r] = "idle"
        /\ \A q \in Run : q # r => process'[q] = process[q] /\ held'[q] = held[q]
    BY <1>10 DEF Release, TypeOK
  <2>7. \A q \in Run : process[q] # "idle" /\ q # r => held[q] # x /\ held[q] \in Target
    BY <2>1, <2>6 DEF SharedInv, HeldJobs, SlotInv
  <2>8. QED
    BY <1>1, <2>3, <2>4, <2>5, <2>6, <2>7, SharedFrom
<1>11. ASSUME NEW r \in Run, FinishJob(r) \/ SettlementFails(r) PROVE SharedInv'
  <2>1. PICK x \in Target : x = held[r]
    BY <1>11 DEF FinishJob, SettlementFails, SlotInv
  <2>2. /\ process[r] # "idle" /\ process'[r] = "idle"
        /\ \A q \in Run : q # r => process'[q] = process[q] /\ held'[q] = held[q]
        /\ UNCHANGED <<taskStatus, attempt, parted>>
    BY <1>11 DEF FinishJob, SettlementFails, TypeOK
  <2>3. \A y \in Target : y # x => job'[y] = job[y] /\ attemptsMade'[y] = attemptsMade[y]
    BY <1>11, <2>1 DEF FinishJob, SettlementFails, JobThrew, JobDone, TypeOK
  <2>4. ASSUME x \notin parted
        PROVE  Shares(x)'
    <3>1. CASE FinishJob(r)
      <4>1. taskStatus[x] \in {"COMPLETED", "FAILED"}
        BY <2>1, <2>4, <3>1 DEF FinishJob, SharedInv, RunShares
      <4>2. QED
        BY <2>2, <4>1 DEF Shares
    <3>2. CASE SettlementFails(r)
      <4>1. taskStatus[x] = "PROCESSING" /\ attemptsMade[x] < attempt[x]
        BY <2>1, <2>4, <3>2 DEF SettlementFails, HolderKeepsRow, SharedInv, RunShares
      <4>2. attemptsMade'[x] \in {0, attemptsMade[x] + 1}
        BY <2>1, <3>2 DEF SettlementFails, JobThrew, JobDone, TypeOK
      <4>3. attempt[x] \in Nat /\ attemptsMade[x] \in Nat
        BY DEF TypeOK
      <4>4. QED
        BY <2>2, <4>1, <4>2, <4>3 DEF Shares
    <3>3. QED
      BY <1>11, <3>1, <3>2
  <2>5. \A q \in Run : process[q] # "idle" /\ q # r => held[q] # x /\ held[q] \in Target
    BY <2>1, <2>2 DEF SharedInv, HeldJobs, SlotInv
  <2>6. QED
    BY <1>1, <2>2, <2>3, <2>4, <2>5, SharedFrom
<1>12. ASSUME NEW c \in Caller,
              \/ ReadStatus(c) \/ ReadCounts(c) \/ FailJudgment(c) \/ StartJudging(c)
              \/ RestoreFinalized(c)
       PROVE  SharedInv'
  BY <1>1, <1>12, SharedUntouched
     DEF ReadStatus, ReadCounts, FailJudgment, StartJudging, RestoreFinalized
<1>13. ASSUME NEW c \in Caller, ScheduleJudge(c) \/ CallFails(c) PROVE SharedInv'
  <2>1. UNCHANGED <<attempt, attemptsMade, process, held>>
    BY <1>13 DEF ScheduleJudge, CallFails
  <2>2. \/ Schedule({DebateId}) /\ UNCHANGED parted
        \/ SchedulePartly({DebateId})
        \/ UNCHANGED <<taskStatus, job, parted>>
    BY <1>13 DEF ScheduleJudge, CallFails
  <2>3. QED
    BY <1>1, <2>1, <2>2, SharedScheduled, SharedUntouched
<1>14. ASSUME NEW c \in Caller, ResetFailed(c) PROVE SharedInv'
  <2>1. /\ ResetRows /\ job' = Queued(FailedTasks)
        /\ parted' = (parted \ FailedTasks)
                     \cup {x \in FailedTasks : x \notin FailedTasks \/ job[x] # "none"}
        /\ UNCHANGED <<attemptsMade, process, held>>
    BY <1>14 DEF ResetFailed
  <2>2. QED
    BY <1>1, <2>1, SharedReset
<1>15. ASSUME NEW c \in Caller, ResetFails(c) PROVE SharedInv'
  <2>1. PICK added \in SUBSET FailedTasks :
          /\ job' = Queued(added)
          /\ parted' = (parted \ FailedTasks)
                       \cup {x \in FailedTasks : x \notin added \/ job[x] # "none"}
    BY <1>15 DEF ResetFails
  <2>2. ResetRows /\ UNCHANGED <<attemptsMade, process, held>>
    BY <1>15 DEF ResetFails
  <2>3. QED
    BY <1>1, <2>1, <2>2, SharedReset
<1>16. ASSUME NEW c \in RestCaller, RestStep(c) PROVE SharedInv'
  <2>1. CASE PostJudging(c)
    BY <1>1, <2>1, SharedUntouched DEF PostJudging
  <2>2. CASE PostJudge(c) \/ PostRetry(c) \/ ResumeFails(c)
    <3>1. /\ (Schedule(Missing) /\ UNCHANGED parted) \/ SchedulePartly(Missing)
          /\ UNCHANGED <<attempt, attemptsMade, process, held>>
      BY <2>2 DEF PostJudge, PostRetry, ResumeFails
    <3>2. QED
      BY <1>1, <3>1, SharedScheduled
  <2>3. QED
    BY <1>16, <2>1, <2>2 DEF RestStep
<1>17. CASE Crash
  <2>1. /\ \A x \in Target : job[x] # "active" => job'[x] = job[x]
        /\ \A x \in Target : attemptsMade'[x] \in {0, attemptsMade[x]}
        /\ \A r \in Run : process'[r] = "idle"
        /\ UNCHANGED <<taskStatus, attempt, parted>>
    BY <1>17 DEF Crash, TypeOK
  <2>2. ASSUME NEW x \in Target, x \notin parted' PROVE Shares(x)'
    <3>1. Shares(x) /\ attempt[x] \in Nat /\ attemptsMade[x] \in Nat
      BY <2>1, <2>2 DEF SharedInv, TypeOK
    <3>2. QED
      BY <2>1, <3>1 DEF Shares
  <2>3. QED
    BY <1>1, <2>1, <2>2, SharedFrom
<1>18. CASE BootRecovery
  <2>1. PICK stale \in SUBSET Orphans : Reclaim(stale)
    BY <1>18 DEF BootRecovery
  <2>2. /\ \A x \in Target : /\ x \in stale => taskStatus'[x] = "PENDING"
                             /\ x \notin stale => taskStatus'[x] = taskStatus[x]
        /\ \A x \in stale : taskStatus[x] = "PROCESSING" /\ x \in Target
        /\ \A x \in stale : \A r \in Run : ~(process[r] = "working" /\ held[r] = x)
    BY <2>1 DEF Reclaim, Orphans
  <2>3. /\ job' = Queued({x \in Target : taskStatus'[x] = "PENDING"})
        /\ parted' = {x \in parted : job[x] # "none"}
        /\ UNCHANGED <<attempt, attemptsMade, process, held>>
    BY <1>18 DEF BootRecovery
  <2>4. ASSUME NEW x \in Target, x \notin parted' PROVE Shares(x)'
    <3>1. /\ job[x] = "none" => attemptsMade[x] = 0
          /\ x \notin parted => Shares(x)
          /\ attempt[x] \in Nat
      BY DEF SharedInv, HeldJobs, TypeOK
    <3>2. job[x] = "none" \/ x \notin parted
      BY <2>3, <2>4
    <3>3. taskStatus'[x] = "PENDING" => job[x] # "active"
      <4>1. ASSUME x \in stale, job[x] = "active"
            PROVE  FALSE
        <5>1. PICK r \in Run : process[r] # "idle" /\ held[r] = x
          BY <4>1 DEF SharedInv, HeldJobs
        <5>2. process[r] = "notify" /\ x \notin parted
          BY <2>2, <3>2, <4>1, <5>1 DEF TypeOK
        <5>3. QED
          BY <2>2, <4>1, <5>1, <5>2 DEF SharedInv, RunShares
      <4>2. QED
        BY <2>2, <3>1, <3>2, <4>1 DEF Shares
    <3>4. taskStatus'[x] = "PENDING" => job'[x] = "queued"
      BY <2>3, <3>3 DEF Queued, TypeOK
    <3>5. taskStatus'[x] # "PENDING" => job'[x] = job[x] /\ taskStatus'[x] = taskStatus[x]
      BY <2>2, <2>3 DEF Queued
    <3>6. taskStatus'[x] \in {"PENDING", "PROCESSING"} => attemptsMade[x] <= attempt[x]
      BY <2>2, <3>1, <3>2 DEF Shares
    <3>7. taskStatus'[x] = "ABSENT" => job'[x] = "none"
      BY <3>1, <3>2, <3>5 DEF Shares
    <3>8. QED
      BY <2>3, <3>4, <3>6, <3>7 DEF Shares
  <2>5. ASSUME NEW r \in Run, held'[r] \notin parted', process'[r] # "idle"
        PROVE  RunShares(r)'
    <3>1. held[r] \in Target /\ held[r] \notin parted
      BY <2>3, <2>5 DEF SlotInv, SharedInv, HeldJobs
    <3>2. held[r] \notin stale
      BY <2>2, <2>3, <2>5, <3>1 DEF SharedInv, RunShares, TypeOK
    <3>3. QED
      BY <2>2, <2>3, <3>1, <3>2 DEF SharedInv, RunShares
  <2>6. QED
    BY <1>1, <2>4, <2>5, SharedFrom
<1>19. CASE BootRecoveryFails
  <2>1. PICK stale \in SUBSET Orphans : Reclaim(stale) /\ parted' = parted \cup stale
    BY <1>19 DEF BootRecoveryFails
  <2>2. UNCHANGED <<attempt, job, attemptsMade, process, held>>
    BY <1>19 DEF BootRecoveryFails
  <2>3. \A x \in Target : x \notin stale => taskStatus'[x] = taskStatus[x]
    BY <2>1 DEF Reclaim
  <2>4. \A r \in Run : process[r] # "idle" => held[r] \in Target
    BY DEF SlotInv
  <2>5. QED
    BY <1>1, <2>1, <2>2, <2>3, <2>4, SharedFrom
<1>20. CASE UNCHANGED vars
  BY <1>1, <1>20, SharedUntouched DEF vars
<1>21. QED
  BY <1>2, <1>3, <1>4, <1>5, <1>6, <1>7, <1>8, <1>9, <1>10, <1>11, <1>12, <1>13,
     <1>14, <1>15, <1>16, <1>17, <1>18, <1>19, <1>20
     DEF Next, TakeJob, HandlerStep, ProcessStep, CallStep, FaultStep

(***************************************************************************)
(* A row that waits has its job, through crashes, failures, late handlers  *)
(* and retries: the calls BullMQ counts never run out before the attempts  *)
(* of the row, and a boot or a retry queues what it finds without a job.   *)
(* Only a row that a failed call, or a retry in the midst of the failed    *)
(* run's process(), has parted from its job may be stranded.               *)
(***************************************************************************)
THEOREM WaitingRowsQueued == Spec => []WaitingIsQueued
<1>1. Init => SharedInv
  BY DEF Init, SharedInv, HeldJobs, Shares, RunShares
<1>2. TypeOK /\ SlotInv /\ HolderKeepsRow /\ SharedInv /\ [Next]_vars => SharedInv'
  BY SharedStep
<1>3. SharedInv => WaitingIsQueued
  BY DEF SharedInv, Shares, WaitingIsQueued
<1>4. QED
  BY <1>1, <1>2, <1>3, PipelineHolders, PTL DEF Spec

-----------------------------------------------------------------------------
(* Who takes a finished debate further *)

\* What a run is known to do: it evaluates the condition while its process()
\* notifies, an analysis is the only one to schedule, and a JUDGE handler that
\* returned has left a debate that is settled.
RunKnows(r) ==
    /\ process[r] # "notify" => pc[r] = "idle"
    /\ handler[r] = "schedule" => held[r] \in Turn
    /\ process[r] = "working" /\ handler[r] = "ok" /\ held[r] = DebateId => ~Judgeable

\* A row is PROCESSING only as long as a run works on it.
RowsHaveRuns ==
    \A x \in Target : taskStatus[x] = "PROCESSING" =>
        \E r \in Run : process[r] = "working" /\ held[r] = x

RunsInv == RowsHaveRuns /\ \A r \in Run : RunKnows(r)

\* What is known of the debate once its JUDGE task has settled.
JudgeRowInv ==
    /\ taskStatus[DebateId] = "COMPLETED" => ~Judgeable
    /\ taskStatus[DebateId] = "FAILED" /\ Judgeable =>
         \E c \in Caller : pc[c] = "fail"

PursuitInv == FinishedIsPursued /\ JudgeRowInv

\* A debate that goes on has no JUDGE task, and nobody works on one.
LEMMA NoJudgeYet ==
    ASSUME SlotInv, HolderKeepsRow, L!StageInv, JudgeOrigin,
           debateStatus \in {"READY", "IN_PROGRESS"}
    PROVE  /\ taskStatus[DebateId] = "ABSENT"
           /\ \A r \in Run : process[r] = "working" => held[r] # DebateId
<1>1. ~Finished
  BY DEF L!StageInv, Finished
<1>2. taskStatus[DebateId] = "ABSENT"
  BY <1>1 DEF JudgeOrigin, JudgeOnlyForFinished, Finished
<1>3. QED
  BY <1>2 DEF HolderKeepsRow

\* A call of JudgeService moves alone.
LEMMA OneCallMoves ==
    ASSUME TypeOK, NEW c \in Caller, NEW step, Goto(c, step)
    PROVE  pc'[c] = step /\ \A d \in Caller : d # c => pc'[d] = pc[d]
BY DEF TypeOK, Goto

\* Steps that leave the runs alone.
LEMMA RunsUntouched ==
    ASSUME RunsInv, UNCHANGED <<process, handler, held>>,
           \A r \in Run : pc[r] = "idle" => pc'[r] = "idle",
           \A x \in Target : taskStatus'[x] = "PROCESSING" => taskStatus[x] = "PROCESSING",
           \/ Judgeable' => Judgeable
           \/ \A r \in Run : process[r] = "working" => held[r] # DebateId
    PROVE  RunsInv'
<1>1. RowsHaveRuns'
  BY DEF RunsInv, RowsHaveRuns
<1>2. ASSUME NEW r \in Run PROVE RunKnows(r)'
  BY DEF RunsInv, RunKnows
<1>3. QED
  BY <1>1, <1>2 DEF RunsInv

\* Steps of one run that leave it working, or free it of a row that is no
\* longer PROCESSING.
LEMMA RunMoves ==
    ASSUME RunsInv, NEW r \in Run, RunKnows(r)',
           \A q \in Run \ {r} :
             process'[q] = process[q] /\ handler'[q] = handler[q] /\ held'[q] = held[q]
             /\ pc'[q] = pc[q],
           \A x \in Target : taskStatus'[x] = "PROCESSING" =>
             \/ process'[r] = "working" /\ held'[r] = x
             \/ /\ taskStatus[x] = "PROCESSING"
                /\ ~(process[r] = "working" /\ held[r] = x),
           Judgeable' => Judgeable
    PROVE  RunsInv'
<1>1. ASSUME NEW x \in Target, taskStatus'[x] = "PROCESSING"
      PROVE  \E q \in Run : process'[q] = "working" /\ held'[q] = x
  <2>1. CASE process'[r] = "working" /\ held'[r] = x
    BY <2>1
  <2>2. CASE taskStatus[x] = "PROCESSING" /\ ~(process[r] = "working" /\ held[r] = x)
    <3>1. PICK q \in Run : process[q] = "working" /\ held[q] = x
      BY <2>2 DEF RunsInv, RowsHaveRuns
    <3>2. q # r
      BY <2>2, <3>1
    <3>3. QED
      BY <3>1, <3>2
  <2>3. QED
    BY <1>1, <2>1, <2>2
<1>2. ASSUME NEW q \in Run PROVE RunKnows(q)'
  <2>1. CASE q = r
    BY <2>1
  <2>2. CASE q # r
    BY <2>2 DEF RunsInv, RunKnows
  <2>3. QED
    BY <2>1, <2>2
<1>3. QED
  BY <1>1, <1>2 DEF RunsInv, RowsHaveRuns

\* Every step keeps a run for the rows that are PROCESSING.
LEMMA RunsStep ==
    ASSUME MaxFaults = 0, "retry" \notin RestOps,
           TypeOK, SlotInv, HolderKeepsRow, QueueInv, L!StageInv, JudgeOrigin,
           RunsInv, [Next]_vars
    PROVE  RunsInv'
<1>1. ~Fault
  BY NoFault
<1>2. \A c \in Caller : pc[c] \notin {"restore", "reset"}
  BY DEF QueueInv
<1>3. EndedHook \notin Run /\ \A c \in RestCaller : c \notin Run
  OBVIOUS
<1>4. ASSUME NEW S, Schedule(S)
      PROVE  \A x \in Target : taskStatus'[x] = "PROCESSING" =>
                                taskStatus[x] = "PROCESSING"
  BY <1>4 DEF Schedule, Created, TypeOK
<1> USE DEF rowVars, runVars, debateVars
<1>5. CASE ChatStep
  <2>1. debateStatus \in {"READY", "IN_PROGRESS"}
    BY <1>5 DEF ChatStep, StartDebate, ConfirmTurn, ConfirmLastTurn, Forfeit,
                L!Start, L!FinishAllTurns, L!EndWithoutJudgment
  <2>2. \A r \in Run : process[r] = "working" => held[r] # DebateId
    BY <2>1, NoJudgeYet
  <2>3. UNCHANGED <<process, handler, held, taskStatus>>
    BY <1>5 DEF ChatStep, StartDebate, ConfirmTurn, ConfirmLastTurn, Forfeit
  <2>4. UNCHANGED pc \/ pc' = [pc EXCEPT ![EndedHook] = "status"]
    BY <1>5 DEF ChatStep, StartDebate, ConfirmTurn, ConfirmLastTurn, Forfeit
  <2>5. \A r \in Run : pc'[r] = pc[r]
    BY <1>3, <2>4 DEF TypeOK, Caller
  <2>6. QED
    BY <2>2, <2>3, <2>5, RunsUntouched
<1>6. ASSUME NEW t \in Turn, OnTurnFinalized(t) PROVE RunsInv'
  BY <1>4, <1>6, RunsUntouched DEF OnTurnFinalized, Judgeable
<1>7. ASSUME NEW x \in Target, SkipJob(x) PROVE RunsInv'
  BY <1>7, RunsUntouched DEF SkipJob, Judgeable
<1>8. ASSUME NEW r \in Run, NEW x \in Target, Acquire(r, x) PROVE RunsInv'
  <2>1. /\ process'[r] = "working" /\ held'[r] = x
        /\ handler'[r] \in {"fatal", "model"}
    BY <1>8 DEF Acquire, TypeOK
  <2>2. RunKnows(r)'
    BY <1>8, <2>1 DEF Acquire, RunsInv, RunKnows
  <2>3. \A q \in Run \ {r} :
          process'[q] = process[q] /\ handler'[q] = handler[q] /\ held'[q] = held[q]
          /\ pc'[q] = pc[q]
    BY <1>8 DEF Acquire, TypeOK
  <2>4. \A y \in Target : taskStatus'[y] = "PROCESSING" =>
          y = x \/ taskStatus[y] = "PROCESSING"
    BY <1>8 DEF Acquire, TypeOK
  <2>5. process[r] = "idle" /\ (Judgeable' => Judgeable)
    BY <1>8 DEF Acquire, Judgeable
  <2>6. QED
    BY <2>1, <2>2, <2>3, <2>4, <2>5, RunMoves
\* A handler ends, or goes on, while its process() stays as it is.
<1>9. ASSUME NEW r \in Run, handler[r] # "none", RunKnows(r)',
             UNCHANGED <<process, pc>>,
             held'[r] = IF process[r] = "idle" THEN held'[r] ELSE held[r],
             \A q \in Run \ {r} : handler'[q] = handler[q] /\ held'[q] = held[q],
             \A x \in Target : taskStatus'[x] = "PROCESSING" =>
                                taskStatus[x] = "PROCESSING",
             Judgeable' => Judgeable
      PROVE  RunsInv'
  <2>1. process[r] = "working" => process'[r] = "working" /\ held'[r] = held[r]
    BY <1>9
  <2>2. QED
    BY <1>9, <2>1, RunMoves
<1>10. ASSUME NEW r \in Run, NEW result, HandlerEnds(r, result)
       PROVE  /\ held'[r] = IF process[r] = "idle" THEN held'[r] ELSE held[r]
              /\ handler'[r] \in {result, "none"}
              /\ \A q \in Run \ {r} : handler'[q] = handler[q] /\ held'[q] = held[q]
  BY <1>10 DEF HandlerEnds, TypeOK
<1>11. ASSUME NEW r \in Run, HandlerFails(r) PROVE RunsInv'
  <2>1. RunKnows(r)'
    BY <1>10, <1>11 DEF HandlerFails, RunsInv, RunKnows
  <2>2. QED
    BY <1>9, <1>10, <1>11, <2>1 DEF HandlerFails, Judgeable
<1>12. ASSUME NEW r \in Run, AnalyzerSaves(r) PROVE RunsInv'
  <2>1. held[r] \in Turn /\ held[r] # DebateId /\ handler[r] # "none"
    BY <1>12 DEF AnalyzerSaves
  <2>2. \/ HandlerEnds(r, "ok")
        \/ handler' = [handler EXCEPT ![r] = "schedule"] /\ UNCHANGED held
    BY <1>12 DEF AnalyzerSaves
  <2>3. UNCHANGED <<process, pc, taskStatus, debateStatus>>
    BY <1>12 DEF AnalyzerSaves
  <2>4. CASE HandlerEnds(r, "ok")
    <3>1. RunKnows(r)'
      BY <1>10, <2>1, <2>3, <2>4 DEF RunsInv, RunKnows
    <3>2. QED
      BY <1>9, <1>10, <2>1, <2>3, <2>4, <3>1 DEF Judgeable
  <2>5. CASE handler' = [handler EXCEPT ![r] = "schedule"] /\ UNCHANGED held
    <3>1. /\ handler'[r] = "schedule"
          /\ \A q \in Run \ {r} : handler'[q] = handler[q] /\ held'[q] = held[q]
      BY <2>5 DEF TypeOK
    <3>2. RunKnows(r)'
      BY <2>1, <2>3, <2>5, <3>1 DEF RunsInv, RunKnows
    <3>3. QED
      BY <1>9, <2>1, <2>3, <2>5, <3>1, <3>2 DEF Judgeable
  <2>6. QED
    BY <2>2, <2>4, <2>5
<1>13. ASSUME NEW r \in Run, AnalyzerSchedules(r) PROVE RunsInv'
  <2>1. held[r] \in Turn /\ held[r] # DebateId
    BY <1>13 DEF AnalyzerSchedules, RunsInv, RunKnows
  <2>2. RunKnows(r)'
    BY <1>10, <1>13, <2>1 DEF AnalyzerSchedules, RunsInv, RunKnows
  <2>3. QED
    BY <1>4, <1>9, <1>10, <1>13, <2>2 DEF AnalyzerSchedules, Judgeable
<1>14. ASSUME NEW r \in Run, FactCheckerSaves(r) PROVE RunsInv'
  <2>1. held[r] # DebateId
    BY <1>14 DEF FactCheckerSaves
  <2>2. RunKnows(r)'
    BY <1>10, <1>14, <2>1 DEF FactCheckerSaves, RunsInv, RunKnows
  <2>3. QED
    BY <1>9, <1>10, <1>14, <2>2 DEF FactCheckerSaves, Judgeable
<1>15. ASSUME NEW r \in Run, JudgeSaves(r) PROVE RunsInv'
  <2>1. ~Judgeable'
    BY <1>15 DEF JudgeSaves, Judgeable, L!CompleteJudgment, L!JudgeableStatuses
  <2>2. RunKnows(r)'
    BY <1>10, <1>15, <2>1 DEF JudgeSaves, RunsInv, RunKnows
  <2>3. QED
    BY <1>9, <1>10, <1>15, <2>1, <2>2 DEF JudgeSaves
\* A run that settles finds its row PROCESSING, and takes it out of that.
<1>16. ASSUME NEW r \in Run, NEW status \in {"COMPLETED", "FAILED", "PENDING"},
              NEW owner, process[r] = "working", Settle(held[r], r, status, owner),
              process'[r] # "working", process'[r] = "notify" \/ pc'[r] = "idle",
              handler'[r] = "none" \/ (handler'[r] = handler[r] /\ held'[r] = held[r]),
              \A q \in Run \ {r} :
                process'[q] = process[q] /\ handler'[q] = handler[q] /\ held'[q] = held[q]
                /\ pc'[q] = pc[q],
              Judgeable' => Judgeable
       PROVE  RunsInv'
  <2>1. held[r] \in Target /\ taskStatus[held[r]] = "PROCESSING"
                           /\ requestId[held[r]] = r
    BY <1>16 DEF SlotInv, HolderKeepsRow
  <2>2. taskStatus' = [taskStatus EXCEPT ![held[r]] = status]
    BY <1>16, <2>1 DEF Settle
  <2>3. \A x \in Target : taskStatus'[x] = "PROCESSING" =>
          taskStatus[x] = "PROCESSING" /\ held[r] # x
    BY <2>1, <2>2 DEF TypeOK
  <2>4. RunKnows(r)'
    BY <1>16 DEF RunsInv, RunKnows
  <2>5. QED
    BY <1>16, <2>3, <2>4, RunMoves
<1>17. ASSUME NEW r \in Run, Complete(r) PROVE RunsInv'
  <2>1. /\ process'[r] = "notify" /\ handler'[r] = "none"
        /\ \A q \in Run \ {r} :
             process'[q] = process[q] /\ handler'[q] = handler[q] /\ held'[q] = held[q]
             /\ pc'[q] = pc[q]
    BY <1>17 DEF Complete, TypeOK
  <2>2. QED
    BY <1>16, <1>17, <2>1 DEF Complete, Judgeable
<1>18. ASSUME NEW r \in Run, SettleFailed(r) PROVE RunsInv'
  <2>1. /\ process'[r] = "notify"
        /\ handler'[r] = "none" \/ (handler'[r] = handler[r] /\ held'[r] = held[r])
        /\ \A q \in Run \ {r} :
             process'[q] = process[q] /\ handler'[q] = handler[q] /\ held'[q] = held[q]
             /\ pc'[q] = pc[q]
    BY <1>18 DEF SettleFailed, TypeOK
  <2>2. QED
    BY <1>16, <1>18, <2>1 DEF SettleFailed, Judgeable
<1>19. ASSUME NEW r \in Run, Release(r) PROVE RunsInv'
  <2>1. /\ process'[r] = "idle"
        /\ handler'[r] = "none" \/ (handler'[r] = handler[r] /\ held'[r] = held[r])
        /\ \A q \in Run \ {r} :
             process'[q] = process[q] /\ handler'[q] = handler[q] /\ held'[q] = held[q]
             /\ pc'[q] = pc[q]
    BY <1>19 DEF Release, TypeOK
  <2>2. pc'[r] = "idle"
    BY <1>19 DEF Release, RunsInv, RunKnows
  <2>3. QED
    BY <1>16, <1>19, <2>1, <2>2 DEF Release, Judgeable
<1>20. ASSUME NEW r \in Run, FinishJob(r) PROVE RunsInv'
  <2>1. /\ process'[r] = "idle"
        /\ handler[r] = "none" \/ held'[r] = held[r]
        /\ \A q \in Run \ {r} :
             process'[q] = process[q] /\ held'[q] = held[q]
    BY <1>20 DEF FinishJob, TypeOK
  <2>2. RunKnows(r)'
    BY <1>20, <2>1 DEF FinishJob, RunsInv, RunKnows
  <2>3. QED
    BY <1>20, <2>1, <2>2, RunMoves DEF FinishJob, Judgeable
<1>21. ASSUME NEW c \in Caller,
              ReadStatus(c) \/ ReadCounts(c) \/ FailJudgment(c) \/ StartJudging(c)
              \/ ScheduleJudge(c)
       PROVE  RunsInv'
  <2>1. pc[c] # "idle" /\ \E step : Goto(c, step)
    BY <1>21 DEF ReadStatus, ReadCounts, FailJudgment, StartJudging, ScheduleJudge
  <2>2. \A r \in Run : pc[r] = "idle" => pc'[r] = "idle"
    BY <2>1, OneCallMoves DEF Caller
  <2>3. Judgeable' => Judgeable
    BY <1>21 DEF ReadStatus, ReadCounts, FailJudgment, StartJudging, ScheduleJudge,
                 Judgeable, L!FailJudgment, L!StartJudging, L!JudgeableStatuses
  <2>4. \A x \in Target : taskStatus'[x] = "PROCESSING" => taskStatus[x] = "PROCESSING"
    BY <1>4, <1>21 DEF ReadStatus, ReadCounts, FailJudgment, StartJudging,
                       ScheduleJudge
  <2>5. UNCHANGED <<process, handler, held>>
    BY <1>21 DEF ReadStatus, ReadCounts, FailJudgment, StartJudging, ScheduleJudge
  <2>6. QED
    BY <2>2, <2>3, <2>4, <2>5, RunsUntouched
<1>22. ASSUME NEW c \in Caller, RestoreFinalized(c) \/ ResetFailed(c) PROVE FALSE
  BY <1>2, <1>22 DEF RestoreFinalized, ResetFailed
<1>23. ASSUME NEW c \in RestCaller, RestStep(c) PROVE RunsInv'
  <2>1. PostJudging(c) \/ PostJudge(c)
    BY <1>1, <1>23 DEF RestStep, PostRetry, Request, ResumeFails
  <2>2. \A r \in Run : pc'[r] = pc[r]
    <3>1. Goto(c, "status") /\ c \in Caller
      BY <2>1 DEF PostJudging, PostJudge, Caller
    <3>2. QED
      BY <1>3, <3>1, OneCallMoves DEF Caller
  <2>3. \A x \in Target : taskStatus'[x] = "PROCESSING" => taskStatus[x] = "PROCESSING"
    BY <1>4, <2>1 DEF PostJudging, PostJudge
  <2>4. QED
    BY <2>1, <2>2, <2>3, RunsUntouched DEF PostJudging, PostJudge, Judgeable
<1>24. CASE FaultStep
  BY <1>1, <1>24 DEF FaultStep, OnTurnFinalizedFails, AnalyzerSchedulingFails,
                     SettlementFails, JobFails, CallFails, ResetFails, Crash,
                     BootRecoveryFails, QueueInv
<1>25. CASE BootRecovery
  BY <1>25 DEF BootRecovery, QueueInv
<1>26. CASE UNCHANGED vars
  BY <1>26, RunsUntouched DEF vars, Judgeable
<1>27. QED
  BY <1>5, <1>6, <1>7, <1>8, <1>11, <1>12, <1>13, <1>14, <1>15, <1>17, <1>18, <1>19,
     <1>20, <1>21, <1>22, <1>23, <1>24, <1>25, <1>26
     DEF Next, TakeJob, HandlerStep, ProcessStep, CallStep

\* Where no coroutine gives up the debate and no task is lost, somebody who
\* pursued it still does.
LEMMA StillPursued ==
    ASSUME PursuitInv, Judgeable' => Judgeable,
           \A c \in Caller : /\ Evaluates(c) => Evaluates(c)'
                             /\ pc[c] = "fail" => pc'[c] = "fail",
           \A x \in Target : WillSettle(x) => WillSettle(x)',
           \/ taskStatus'[DebateId] = taskStatus[DebateId]
           \/ taskStatus'[DebateId] \notin {"COMPLETED", "FAILED"}
    PROVE  PursuitInv'
<1>1. FinishedIsPursued'
  BY DEF PursuitInv, FinishedIsPursued
<1>2. JudgeRowInv'
  BY DEF PursuitInv, JudgeRowInv
<1>3. QED
  BY <1>1, <1>2 DEF PursuitInv

\* Scheduling adds tasks and loses none.
LEMMA ScheduleLosesNone ==
    ASSUME TypeOK, NEW S, Schedule(S)
    PROVE  /\ \A x \in Target : taskStatus[x] = "PENDING" /\ job[x] = "queued" =>
                                 taskStatus'[x] = "PENDING" /\ job'[x] = "queued"
           /\ \A x \in Target : \/ taskStatus'[x] = taskStatus[x]
                                \/ taskStatus'[x] = "PENDING"
<1>1. ASSUME NEW x \in Target, taskStatus[x] = "PENDING", job[x] = "queued"
      PROVE  taskStatus'[x] = "PENDING" /\ job'[x] = "queued"
  BY <1>1 DEF Schedule, Created, Queued
<1>2. ASSUME NEW x \in Target
      PROVE  taskStatus'[x] = taskStatus[x] \/ taskStatus'[x] = "PENDING"
  BY <1>2 DEF Schedule, Created
<1>3. QED
  BY <1>1, <1>2

\* Steps that settle no task, take none from a run at work or the queue, and
\* leave every call that evaluates where it is.
LEMMA NothingLost ==
    ASSUME PursuitInv, UNCHANGED process, Judgeable' => Judgeable,
           \A q \in Run : process[q] = "working" => held'[q] = held[q],
           \A c \in Caller : pc'[c] = pc[c] \/ ~Evaluates(c),
           \A x \in Target : taskStatus[x] = "PENDING" /\ job[x] = "queued" =>
                              taskStatus'[x] = "PENDING" /\ job'[x] = "queued",
           \A x \in Target : \/ taskStatus'[x] = taskStatus[x]
                             \/ taskStatus'[x] = "PENDING"
    PROVE  PursuitInv'
<1>1. ASSUME NEW x \in Target, WillSettle(x) PROVE WillSettle(x)'
  BY <1>1 DEF WillSettle
<1>2. \A c \in Caller : /\ Evaluates(c) => Evaluates(c)'
                        /\ pc[c] = "fail" => pc'[c] = "fail"
  BY DEF Evaluates
<1>3. DebateId \in Target
  BY DEF Target
<1>4. QED
  BY <1>1, <1>2, <1>3, StillPursued

\* A step after which the debate is settled, or a task or a call is left.
LEMMA LeavesSomebody ==
    ASSUME JudgeRowInv',
           \/ ~Judgeable'
           \/ \E c \in Caller : Evaluates(c)'
           \/ \E x \in Target : WillSettle(x)'
    PROVE  PursuitInv'
BY DEF PursuitInv, FinishedIsPursued

\* Every step leaves somebody to pursue a finished debate.
LEMMA PursuitStep ==
    ASSUME MaxFaults = 0, "retry" \notin RestOps,
           TypeOK, SlotInv, HolderKeepsRow, QueueInv, L!StageInv, JudgeOrigin,
           RunsInv, PursuitInv, [Next]_vars
    PROVE  PursuitInv'
<1>1. ~Fault
  BY NoFault
<1>2. \A c \in Caller : pc[c] \notin {"restore", "reset"}
  BY DEF QueueInv
<1>3. DebateId \in Target /\ EndedHook \in Caller /\ Run \subseteq Caller
  BY DEF Target, Caller
<1> USE DEF rowVars, runVars, debateVars, queueVars
<1>4. CASE ChatStep
  <2>1. debateStatus \in {"READY", "IN_PROGRESS"}
    BY <1>4 DEF ChatStep, StartDebate, ConfirmTurn, ConfirmLastTurn, Forfeit,
                L!Start, L!FinishAllTurns, L!EndWithoutJudgment
  <2>2. taskStatus'[DebateId] = "ABSENT"
    BY <1>4, <2>1, NoJudgeYet DEF ChatStep, StartDebate, ConfirmTurn,
                                  ConfirmLastTurn, Forfeit
  <2>3. \/ ~Judgeable'
        \/ pc' = [pc EXCEPT ![EndedHook] = "status"]
    BY <1>4, <2>1 DEF ChatStep, StartDebate, ConfirmTurn, ConfirmLastTurn, Forfeit,
                L!Start, L!FinishAllTurns, L!EndWithoutJudgment, Judgeable,
                L!JudgeableStatuses
  <2>4. pc' = [pc EXCEPT ![EndedHook] = "status"] => Evaluates(EndedHook)'
    BY <1>3 DEF Evaluates, TypeOK
  <2>5. QED
    BY <1>3, <2>2, <2>3, <2>4, LeavesSomebody DEF JudgeRowInv
<1>5. ASSUME NEW t \in Turn, OnTurnFinalized(t) PROVE PursuitInv'
  BY <1>5, ScheduleLosesNone, NothingLost DEF OnTurnFinalized, Judgeable
<1>6. ASSUME NEW x \in Target, SkipJob(x) PROVE PursuitInv'
  <2>1. \A y \in Target : y # x => job'[y] = job[y]
    BY <1>6 DEF SkipJob, JobDone, TypeOK
  <2>2. taskStatus[x] # "PENDING" /\ UNCHANGED taskStatus
    BY <1>6 DEF SkipJob
  <2>3. QED
    BY <1>6, <2>1, <2>2, NothingLost DEF SkipJob, Judgeable
<1>7. ASSUME NEW r \in Run, NEW x \in Target, Acquire(r, x) PROVE PursuitInv'
  <2>1. /\ process'[r] = "working" /\ held'[r] = x /\ process[r] = "idle"
        /\ \A q \in Run \ {r} : process'[q] = process[q] /\ held'[q] = held[q]
    BY <1>7 DEF Acquire, TypeOK
  <2>2. \A y \in Target \ {x} : taskStatus'[y] = taskStatus[y] /\ job'[y] = job[y]
    BY <1>7 DEF Acquire, TypeOK
  <2>3. taskStatus'[x] = "PROCESSING"
    BY <1>7 DEF Acquire, TypeOK
  <2>4. ASSUME NEW y \in Target, WillSettle(y) PROVE WillSettle(y)'
    <3>1. CASE y = x
      BY <2>1, <3>1 DEF WillSettle
    <3>2. CASE y # x
      BY <2>1, <2>2, <2>4, <3>2 DEF WillSettle
    <3>3. QED
      BY <3>1, <3>2
  <2>5. QED
    BY <1>3, <1>7, <2>2, <2>3, <2>4, StillPursued DEF Acquire, Judgeable, Evaluates
<1>8. ASSUME NEW r \in Run, NEW result, HandlerEnds(r, result)
      PROVE  \A q \in Run : process[q] = "working" => held'[q] = held[q]
  BY <1>8 DEF HandlerEnds, TypeOK
<1>9. ASSUME NEW r \in Run, HandlerFails(r) \/ FactCheckerSaves(r)
      PROVE  PursuitInv'
  BY <1>8, <1>9, NothingLost DEF HandlerFails, FactCheckerSaves, Judgeable
<1>10. ASSUME NEW r \in Run, AnalyzerSaves(r) PROVE PursuitInv'
  <2>1. HandlerEnds(r, "ok") \/ UNCHANGED held
    BY <1>10 DEF AnalyzerSaves
  <2>2. QED
    BY <1>8, <1>10, <2>1, NothingLost DEF AnalyzerSaves, Judgeable
<1>11. ASSUME NEW r \in Run, AnalyzerSchedules(r) PROVE PursuitInv'
  BY <1>8, <1>11, ScheduleLosesNone, NothingLost DEF AnalyzerSchedules, Judgeable
<1>12. ASSUME NEW r \in Run, JudgeSaves(r) PROVE PursuitInv'
  <2>1. ~Judgeable'
    BY <1>12 DEF JudgeSaves, Judgeable, L!CompleteJudgment, L!JudgeableStatuses
  <2>2. QED
    BY <2>1, LeavesSomebody DEF JudgeRowInv
\* What a run that settles its row does to it, and to nobody else's.
<1>13. ASSUME NEW r \in Run, NEW status \in JudgeTaskStatus, NEW owner,
              process[r] = "working", Settle(held[r], r, status, owner)
       PROVE  /\ held[r] \in Target
              /\ taskStatus' = [taskStatus EXCEPT ![held[r]] = status]
              /\ \A c \in Caller : c = r => pc[c] = "idle"
  BY <1>13 DEF Settle, SlotInv, HolderKeepsRow, RunsInv, RunKnows
<1>14. ASSUME NEW r \in Run, Complete(r) PROVE PursuitInv'
  <2>1. /\ held[r] \in Target
        /\ taskStatus' = [taskStatus EXCEPT ![held[r]] = "COMPLETED"]
        /\ pc[r] = "idle"
    BY <1>3, <1>13, <1>14 DEF Complete, JudgeTaskStatus
  <2>2. /\ pc'[r] = Notified(held[r], "COMPLETED")
        /\ \A c \in Caller : c # r => pc'[c] = pc[c]
    BY <1>3, <1>14 DEF Complete, TypeOK
  <2>3. Judgeable' <=> Judgeable
    BY <1>14 DEF Complete, Judgeable
  <2>4. CASE held[r] = DebateId
    <3>1. ~Judgeable'
      BY <1>14, <2>3, <2>4 DEF Complete, RunsInv, RunKnows
    <3>2. QED
      BY <3>1, LeavesSomebody DEF JudgeRowInv
  <2>5. CASE held[r] # DebateId
    <3>1. taskStatus'[DebateId] = taskStatus[DebateId]
      BY <1>3, <2>1, <2>5 DEF TypeOK
    <3>2. Evaluates(r)'
      BY <2>2, <2>5 DEF Notified, Evaluates
    <3>3. \A c \in Caller : pc[c] = "fail" => pc'[c] = "fail"
      BY <2>1, <2>2
    <3>4. JudgeRowInv'
      BY <2>3, <3>1, <3>3 DEF PursuitInv, JudgeRowInv
    <3>5. QED
      BY <1>3, <3>2, <3>4, LeavesSomebody
  <2>6. QED
    BY <2>4, <2>5
<1>15. ASSUME NEW r \in Run, SettleFailed(r) PROVE PursuitInv'
  <2>1. /\ held[r] \in Target
        /\ taskStatus' = [taskStatus EXCEPT ![held[r]] = "FAILED"]
        /\ pc[r] = "idle"
    BY <1>3, <1>13, <1>15 DEF SettleFailed, JudgeTaskStatus
  <2>2. /\ pc'[r] = Notified(held[r], "FAILED")
        /\ \A c \in Caller : c # r => pc'[c] = pc[c]
    BY <1>3, <1>15 DEF SettleFailed, TypeOK
  <2>3. Judgeable' <=> Judgeable
    BY <1>15 DEF SettleFailed, Judgeable
  <2>4. Evaluates(r)'
    BY <2>2 DEF Notified, Evaluates
  <2>5. JudgeRowInv'
    <3>1. CASE held[r] = DebateId
      <4>1. taskStatus'[DebateId] = "FAILED" /\ pc'[r] = "fail"
        BY <1>3, <2>1, <2>2, <3>1 DEF TypeOK, Notified
      <4>2. QED
        BY <1>3, <4>1 DEF JudgeRowInv
    <3>2. CASE held[r] # DebateId
      <4>1. taskStatus'[DebateId] = taskStatus[DebateId]
        BY <1>3, <2>1, <3>2 DEF TypeOK
      <4>2. \A c \in Caller : pc[c] = "fail" => pc'[c] = "fail"
        BY <2>1, <2>2
      <4>3. QED
        BY <2>3, <4>1, <4>2 DEF PursuitInv, JudgeRowInv
    <3>3. QED
      BY <3>1, <3>2
  <2>6. QED
    BY <1>3, <2>4, <2>5, LeavesSomebody
<1>16. ASSUME NEW r \in Run, Release(r) PROVE PursuitInv'
  <2>1. /\ held[r] \in Target
        /\ taskStatus' = [taskStatus EXCEPT ![held[r]] = "PENDING"]
    BY <1>13, <1>16 DEF Release, JudgeTaskStatus
  <2>2. taskStatus'[held[r]] = "PENDING"
    BY <2>1 DEF TypeOK
  <2>3. job'[held[r]] = "queued"
    BY <1>16, <2>1, <2>2, QueueStep DEF QueueInv, JobOfRow
  <2>4. \E x \in Target : WillSettle(x)'
    <3>1. PICK x \in Target : x = held[r]
      BY <2>1
    <3>2. WillSettle(x)'
      BY <2>2, <2>3, <3>1 DEF WillSettle
    <3>3. QED
      BY <3>2
  <2>5. /\ UNCHANGED pc /\ (Judgeable' <=> Judgeable)
        /\ \/ taskStatus'[DebateId] = taskStatus[DebateId]
           \/ taskStatus'[DebateId] = "PENDING"
    BY <1>3, <1>16, <2>1 DEF Release, Judgeable, TypeOK
  <2>6. JudgeRowInv'
    BY <2>5 DEF PursuitInv, JudgeRowInv
  <2>7. QED
    BY <2>4, <2>6, LeavesSomebody
<1>17. ASSUME NEW r \in Run, FinishJob(r) PROVE PursuitInv'
  <2>1. taskStatus[held[r]] # "PENDING"
    BY <1>17 DEF FinishJob, QueueInv
  <2>2. \A x \in Target : x # held[r] => job'[x] = job[x]
    BY <1>17 DEF FinishJob, JobDone, TypeOK
  <2>3. \A q \in Run : process[q] = "working" =>
                         process'[q] = "working" /\ held'[q] = held[q]
    BY <1>17 DEF FinishJob, TypeOK
  <2>4. ASSUME NEW x \in Target, WillSettle(x) PROVE WillSettle(x)'
    BY <1>17, <2>1, <2>2, <2>3, <2>4 DEF FinishJob, WillSettle
  <2>5. QED
    BY <1>17, <2>4, StillPursued DEF FinishJob, Judgeable, Evaluates
<1>18. ASSUME NEW c \in Caller, ReadStatus(c) PROVE PursuitInv'
  <2>1. /\ pc[c] = "status" /\ Goto(c, IF Judgeable THEN "counts" ELSE "idle")
        /\ (Judgeable' <=> Judgeable) /\ UNCHANGED taskStatus
    BY <1>18 DEF ReadStatus, Judgeable
  <2>2. \A d \in Caller : pc[d] = "fail" => pc'[d] = "fail"
    BY <2>1, OneCallMoves
  <2>3. JudgeRowInv'
    BY <2>1, <2>2 DEF PursuitInv, JudgeRowInv
  <2>4. Judgeable => Evaluates(c)'
    BY <2>1, OneCallMoves DEF Evaluates
  <2>5. QED
    BY <2>1, <2>3, <2>4, LeavesSomebody
\* A row that waits is in the queue, and one that is PROCESSING has a run.
<1>19. ASSUME NEW x \in Target, taskStatus[x] \in {"PENDING", "PROCESSING"}
       PROVE  WillSettle(x)
  BY <1>19 DEF WillSettle, QueueInv, JobOfRow, RunsInv, RowsHaveRuns
<1>20. ASSUME NEW c \in Caller, ReadCounts(c) PROVE PursuitInv'
  <2>1. PICK step : Goto(c, step) /\ step \in {"fail", "create", "idle"}
    BY <1>20 DEF ReadCounts
  <2>2. /\ pc[c] = "counts" /\ (Judgeable' <=> Judgeable)
        /\ UNCHANGED <<taskStatus, job, process, held>>
    BY <1>20 DEF ReadCounts, Judgeable
  <2>3. \A d \in Caller : pc[d] = "fail" => pc'[d] = "fail"
    BY <2>1, <2>2, OneCallMoves
  <2>4. JudgeRowInv'
    BY <2>2, <2>3 DEF PursuitInv, JudgeRowInv
  <2>5. CASE step # "idle"
    <3>1. Evaluates(c)'
      BY <2>1, <2>5, OneCallMoves DEF Evaluates
    <3>2. QED
      BY <2>4, <3>1, LeavesSomebody
  <2>6. CASE step = "idle"
    <3>1. pc'[c] = "idle"
      BY <2>1, <2>6, OneCallMoves
    <3>2. PICK x \in Target : taskStatus[x] \in {"PENDING", "PROCESSING"}
      <4>1. \A other \in {"fail", "create"} : ~Goto(c, other)
        BY <3>1, OneCallMoves
      <4>2. QED
        BY <1>20, <4>1 DEF ReadCounts, Target
    <3>3. WillSettle(x)'
      BY <1>19, <2>2, <3>2 DEF WillSettle
    <3>4. QED
      BY <2>4, <3>3, LeavesSomebody
  <2>7. QED
    BY <2>5, <2>6
<1>21. ASSUME NEW c \in Caller, FailJudgment(c) PROVE PursuitInv'
  <2>1. ~Judgeable'
    BY <1>21 DEF FailJudgment, Judgeable, L!FailJudgment, L!JudgeableStatuses
  <2>2. QED
    BY <2>1, LeavesSomebody DEF JudgeRowInv
\* Whoever schedules JUDGE finds it new, at work, or failed with somebody on
\* the way to close the debate.
<1>22. ASSUME NEW c \in Caller, ScheduleJudge(c) PROVE PursuitInv'
  <2>1. /\ pc[c] = "create" /\ Goto(c, "judging") /\ Schedule({DebateId})
        /\ (Judgeable' <=> Judgeable) /\ UNCHANGED <<process, held>>
    BY <1>22 DEF ScheduleJudge, Judgeable
  <2>2. \A d \in Caller : pc[d] = "fail" => pc'[d] = "fail"
    BY <2>1, OneCallMoves
  <2>3. /\ taskStatus[DebateId] = "ABSENT" => taskStatus'[DebateId] = "PENDING"
        /\ taskStatus[DebateId] # "ABSENT" =>
             taskStatus'[DebateId] = taskStatus[DebateId]
    BY <1>3, <2>1 DEF Schedule, Created
  <2>4. JudgeRowInv'
    BY <2>1, <2>2, <2>3 DEF PursuitInv, JudgeRowInv
  <2>5. CASE taskStatus[DebateId] \in {"COMPLETED", "FAILED"}
    <3>1. Judgeable => \E d \in Caller : pc'[d] = "fail"
      BY <2>2, <2>5 DEF PursuitInv, JudgeRowInv
    <3>2. QED
      BY <2>1, <2>4, <3>1, LeavesSomebody DEF Evaluates
  <2>6. CASE taskStatus[DebateId] \in {"ABSENT", "PENDING"}
    <3>1. taskStatus'[DebateId] = "PENDING"
      BY <2>3, <2>6
    <3>2. job'[DebateId] = "queued"
      BY <1>3, <3>1, QueueStep DEF QueueInv, JobOfRow
    <3>3. WillSettle(DebateId)'
      BY <3>1, <3>2 DEF WillSettle
    <3>4. QED
      BY <1>3, <2>4, <3>3, LeavesSomebody
  <2>7. CASE taskStatus[DebateId] = "PROCESSING"
    <3>1. WillSettle(DebateId)'
      BY <1>3, <2>1, <2>7 DEF WillSettle, RunsInv, RowsHaveRuns
    <3>2. QED
      BY <1>3, <2>4, <3>1, LeavesSomebody
  <2>8. QED
    BY <1>3, <2>5, <2>6, <2>7 DEF TypeOK, JudgeTaskStatus
<1>23. ASSUME NEW c \in Caller, StartJudging(c) PROVE PursuitInv'
  <2>1. pc[c] = "judging" /\ Goto(c, "idle")
    BY <1>23 DEF StartJudging
  <2>2. \A d \in Caller : pc'[d] = pc[d] \/ ~Evaluates(d)
    BY <2>1, OneCallMoves DEF Evaluates
  <2>3. Judgeable' => Judgeable
    BY <1>23 DEF StartJudging, Judgeable, L!StartJudging, L!JudgeableStatuses
  <2>4. QED
    BY <1>23, <2>2, <2>3, NothingLost DEF StartJudging
<1>24. ASSUME NEW c \in Caller, RestoreFinalized(c) \/ ResetFailed(c) PROVE FALSE
  BY <1>2, <1>24 DEF RestoreFinalized, ResetFailed
<1>25. ASSUME NEW c \in RestCaller, RestStep(c) PROVE PursuitInv'
  <2>1. PostJudging(c) \/ PostJudge(c)
    BY <1>1, <1>25 DEF RestStep, PostRetry, Request, ResumeFails
  <2>2. pc[c] = "idle" /\ Goto(c, "status") /\ c \in Caller
    BY <2>1 DEF PostJudging, PostJudge, Request, Caller
  <2>3. \A d \in Caller : pc'[d] = pc[d] \/ ~Evaluates(d)
    BY <2>2, OneCallMoves DEF Evaluates
  <2>4. UNCHANGED <<process, held>> /\ (Judgeable' => Judgeable)
    BY <2>1 DEF PostJudging, PostJudge, Judgeable
  <2>5. CASE PostJudging(c)
    BY <2>3, <2>4, <2>5, NothingLost DEF PostJudging
  <2>6. CASE PostJudge(c)
    BY <2>3, <2>4, <2>6, ScheduleLosesNone, NothingLost DEF PostJudge
  <2>7. QED
    BY <2>1, <2>5, <2>6
<1>26. CASE FaultStep
  BY <1>1, <1>26 DEF FaultStep, OnTurnFinalizedFails, AnalyzerSchedulingFails,
                     SettlementFails, JobFails, CallFails, ResetFails, Crash,
                     BootRecoveryFails, QueueInv
<1>27. CASE BootRecovery
  BY <1>27 DEF BootRecovery, QueueInv
<1>28. CASE UNCHANGED vars
  BY <1>28, NothingLost DEF vars, Judgeable
<1>29. QED
  BY <1>4, <1>5, <1>6, <1>7, <1>9, <1>10, <1>11, <1>12, <1>14, <1>15, <1>16, <1>17,
     <1>18, <1>20, <1>21, <1>22, <1>23, <1>24, <1>25, <1>26, <1>27, <1>28
     DEF Next, TakeJob, HandlerStep, ProcessStep, CallStep

(***************************************************************************)
(* As long as no process crashes, no call is lost and nobody retries, a    *)
(* finished debate always has a call that evaluates the start condition or *)
(* a task that will: with any number of turns, components, runs, timeouts  *)
(* and requests of /judging and /judge, no order of their steps leaves it  *)
(* to nobody.  (After a crash that is left to a user's request.)           *)
(***************************************************************************)
THEOREM FinishedHasAPursuer ==
    ASSUME MaxFaults = 0, "retry" \notin RestOps
    PROVE  Spec => []FinishedIsPursued
<1>1. Init => QueueInv
  BY DEF Init, QueueInv, JobOfRow
<1>2. Init => JudgeOrigin
  BY DEF Init, JudgeOrigin, JudgeOnlyForFinished, Target
<1>3. Init => RunsInv /\ PursuitInv
  <2> SUFFICES ASSUME Init PROVE RunsInv /\ PursuitInv
    OBVIOUS
  <2>1. ~Judgeable
    BY DEF Init, L!Init, Judgeable, L!JudgeableStatuses
  <2>2. RunsInv
    BY DEF Init, RunsInv, RowsHaveRuns, RunKnows, Caller
  <2>3. QED
    BY <2>1, <2>2 DEF PursuitInv, FinishedIsPursued, JudgeRowInv
<1>4. L!Spec => []L!StageInv
  BY L!LifecycleSettlesOnce, PTL
<1>5. TypeOK /\ SlotInv /\ HolderKeepsRow /\ QueueInv /\ [Next]_vars => QueueInv'
  BY QueueStep
<1>6. TypeOK /\ SlotInv /\ HolderKeepsRow /\ L!StageInv /\ JudgeOrigin /\ [Next]_vars
        => JudgeOrigin'
  BY JudgeOriginStep
<1>7. TypeOK /\ SlotInv /\ HolderKeepsRow /\ QueueInv /\ L!StageInv /\ JudgeOrigin
        /\ RunsInv /\ PursuitInv /\ [Next]_vars => RunsInv' /\ PursuitInv'
  BY RunsStep, PursuitStep
<1>8. PursuitInv => FinishedIsPursued
  BY DEF PursuitInv
<1>9. QED
  BY <1>1, <1>2, <1>3, <1>4, <1>5, <1>6, <1>7, <1>8, PipelineHolders,
     PipelineImplementsLifecycle, PTL DEF Spec, LifecycleImplemented
==============================================================================
