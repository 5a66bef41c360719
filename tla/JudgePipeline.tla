---------------------------- MODULE JudgePipeline ----------------------------
(***************************************************************************)
(* The judging pipeline of one debate: the task rows (JudgeTaskRepository),*)
(* the BullMQ queue that carries their ids, the worker that runs them      *)
(* (JudgeTaskWorker), the three handlers, and JudgeService, which decides  *)
(* when the judgment may start and restarts what failed.                   *)
(*                                                                         *)
(* API and worker are one Node process: everything below is a coroutine of *)
(* it, interleaved at its awaits.  A row is named by its target, since     *)
(* (kind, targetId) is unique: a turn for ANALYZER, a component for        *)
(* FACT_CHECK, the debate for JUDGE.                                       *)
(***************************************************************************)
EXTENDS Naturals, FiniteSets

CONSTANTS
    NumTurns,           \* turns of the debate, numbered by sequence
    Closing,            \* turns of the CLOSING phase: nothing is fact-checked
    Component,          \* ids replaceTurnGraph can give a component to check
    FactChecksPerTurn,  \* MAX_FACT_CHECKS_PER_TURN
    DebateId,
    Run,                \* executions of process() alive at once, one requestId each
    Concurrency,        \* workerConcurrency
    RestCaller,         \* REST requests alive at once
    EndedHook,          \* the background call of onDebateEnded
    None,
    MaxAttempts,        \* [kind -> JudgeConfig.maxAttempts]
    RestOps,            \* the REST operations users call
    LongCooldown,       \* the retry cooldown outlasts the process() that failed
    MaxRequests,        \* bound: REST requests of a behaviour
    MaxBlank,           \* bound: turns of a behaviour nobody writes anything in
    MaxTimeouts,        \* bound: handlers of a behaviour that outlive their timeout
    MaxFaults           \* bound: crashes, lost calls and errors of a behaviour

Kind == {"ANALYZER", "FACT_CHECK", "JUDGE"}
Turn == 1..NumTurns
Target == Turn \cup Component \cup {DebateId}
Caller == RestCaller \cup Run \cup {EndedHook}

ASSUME TurnsAssumption ==
    /\ NumTurns \in Nat \ {0}
    /\ Closing \subseteq Turn
ASSUME IdsAssumption ==
    /\ Turn \cap Component = {}
    /\ DebateId \notin Turn \cup Component
    /\ None \notin Target \cup Run
    /\ RestCaller \cap Run = {}
    /\ EndedHook \notin RestCaller \cup Run
ASSUME LimitsAssumption ==
    /\ MaxAttempts \in [Kind -> Nat \ {0}]
    /\ FactChecksPerTurn \in Nat
    /\ Concurrency \in Nat
    /\ RestOps \subseteq {"judging", "judge", "retry"}
    /\ LongCooldown \in BOOLEAN
    /\ MaxRequests \in Nat
    /\ MaxBlank \in Nat
    /\ MaxTimeouts \in Nat
    /\ MaxFaults \in Nat

VARIABLES
    debateStatus, endReason, judgment, rewards,     \* as in DebateLifecycle
    committed,      \* turns finalized so far
    blank,          \* finalized turns nobody wrote anything in
    hook,           \* turns whose onTurnFinalized is still running
    taskStatus,     \* [Target -> status of the row, "ABSENT" without one]
    attempt,        \* [Target -> attempt of the row]
    requestId,      \* [Target -> the run that acquired the row last, or None]
    job,            \* [Target -> "none", "queued" (or in backoff), "active"]
    attemptsMade,   \* [Target -> failed calls of the job so far]
    parted,         \* rows that lost their job, or share it no longer, for a
                    \* failed call or a retry that came too early
    graph,          \* [Turn -> its components that need a fact check]
    process,        \* [Run -> "idle", "working", "notify"]
    handler,        \* [Run -> "none", "model", "schedule", "ok", "error", "fatal"]
    held,           \* [Run -> its task, None for a free run]
    saved,          \* [Run -> components an ANALYZER handler must still schedule]
    pc,             \* [Caller -> step of JudgeService it is about to take]
    booting,        \* the boot recovery has not run yet
    requests,       \* REST requests made so far
    timeouts,       \* timeouts so far
    faults          \* faults suffered so far

debateVars == <<debateStatus, endReason, judgment, rewards>>
chatVars   == <<committed, blank, hook>>
rowVars    == <<taskStatus, attempt, requestId>>
queueVars  == <<job, attemptsMade, parted>>
runVars    == <<process, handler, held, saved>>
boundVars  == <<requests, timeouts, faults>>
vars == <<debateVars, chatVars, rowVars, queueVars, graph, runVars, pc,
          booting, boundVars>>

L == INSTANCE DebateLifecycle
       WITH debateStatus <- debateStatus, endReason <- endReason,
            judgment <- judgment, rewards <- rewards

JudgeTaskStatus == {"ABSENT", "PENDING", "PROCESSING", "COMPLETED", "FAILED"}

TypeOK ==
    /\ L!TypeOK
    /\ committed \in 0..NumTurns
    /\ blank \subseteq Turn
    /\ hook \subseteq Turn
    /\ taskStatus \in [Target -> JudgeTaskStatus]
    /\ attempt \in [Target -> Nat]
    /\ requestId \in [Target -> Run \cup {None}]
    /\ job \in [Target -> {"none", "queued", "active"}]
    /\ attemptsMade \in [Target -> Nat]
    /\ parted \subseteq Target
    /\ graph \in [Turn -> SUBSET Component]
    /\ process \in [Run -> {"idle", "working", "notify"}]
    /\ handler \in [Run -> {"none", "model", "schedule", "ok", "error", "fatal"}]
    /\ held \in [Run -> Target \cup {None}]
    /\ saved \in [Run -> SUBSET Component]
    /\ pc \in [Caller -> {"idle", "status", "counts", "fail", "create",
                          "judging", "restore", "reset"}]
    /\ booting \in BOOLEAN
    /\ requests \in 0..MaxRequests
    /\ timeouts \in 0..MaxTimeouts
    /\ faults \in 0..MaxFaults

Init ==
    /\ L!Init
    /\ committed = 0
    /\ blank = {}
    /\ hook = {}
    /\ taskStatus = [x \in Target |-> "ABSENT"]
    /\ attempt = [x \in Target |-> 0]
    /\ requestId = [x \in Target |-> None]
    /\ job = [x \in Target |-> "none"]
    /\ attemptsMade = [x \in Target |-> 0]
    /\ parted = {}
    /\ graph = [t \in Turn |-> {}]
    /\ process = [r \in Run |-> "idle"]
    /\ handler = [r \in Run |-> "none"]
    /\ held = [r \in Run |-> None]
    /\ saved = [r \in Run |-> {}]
    /\ pc = [c \in Caller |-> "idle"]
    /\ booting = FALSE
    /\ requests = 0
    /\ timeouts = 0
    /\ faults = 0

-----------------------------------------------------------------------------
(* Tasks and queue *)

KindOf(x) ==
    IF x \in Turn THEN "ANALYZER"
    ELSE IF x \in Component THEN "FACT_CHECK" ELSE "JUDGE"

\* Turns that get an analysis: finalized, and not blank.
Analyzable == (1..committed) \ blank

\* INSERT ... ON CONFLICT DO NOTHING for every target of S.
Created(S) ==
    [x \in Target |-> IF x \in S /\ taskStatus[x] = "ABSENT" THEN "PENDING"
                      ELSE taskStatus[x]]

\* queue.add with the row's id as jobId: ignored while such a job exists.
Queued(S) ==
    [x \in Target |-> IF x \in S /\ job[x] = "none" THEN "queued" ELSE job[x]]

\* JudgeTaskQueue.schedule for every target of S: the row, then the job of a
\* row that waits.
Schedule(S) ==
    /\ taskStatus' = Created(S)
    /\ job' = Queued({x \in S : Created(S)[x] = "PENDING"})

\* The same call failing on its way: some rows made, some of them queued.
SchedulePartly(S) ==
    \E made \in SUBSET S : \E added \in SUBSET made :
        /\ taskStatus' = Created(made)
        /\ job' = Queued({x \in added : Created(made)[x] = "PENDING"})
        /\ parted' = parted \cup {x \in made : Created(made)[x] = "PENDING"
                                               /\ job'[x] = "none"}

Fault == faults < MaxFaults /\ faults' = faults + 1

\* Mutation: every debate without a result may get one.
Unjudged == debateStatus # "COMPLETED"

\* The stages tryStartJudge, completeJudgment and failJudgment act in.
Judgeable == debateStatus \in L!JudgeableStatuses

-----------------------------------------------------------------------------
(* The debate chat, as the pipeline sees it *)

StartDebate ==
    /\ L!Start
    /\ UNCHANGED <<chatVars, rowVars, queueVars, graph, runVars, pc, booting,
                   boundVars>>

\* Turn t is finalized.  Its analysis is registered in the background, unless
\* the turn is blank.
Committed(t) ==
    /\ committed' = t
    /\ \/ hook' = hook \cup {t} /\ UNCHANGED blank
       \/ /\ Cardinality(blank) < MaxBlank
          /\ blank' = blank \cup {t}
          /\ UNCHANGED hook

\* Mutation: the last turn is committed like any other.
ConfirmTurnWithoutEnd ==
    /\ debateStatus = "IN_PROGRESS"
    /\ Committed(committed + 1)
    /\ UNCHANGED <<debateVars, rowVars, queueVars, graph, runVars, pc,
                   booting, boundVars>>

\* A turn that is not the last is committed.
ConfirmTurn ==
    LET t == committed + 1 IN
    /\ debateStatus = "IN_PROGRESS"
    /\ t < NumTurns
    /\ Committed(t)
    /\ UNCHANGED <<debateVars, rowVars, queueVars, graph, runVars, pc,
                   booting, boundVars>>

\* Side A speaks in the odd turns, side B in the even ones.
SideSpoke(parity) == \E t \in Turn \ blank : t % 2 = parity
BothSpoke == SideSpoke(0) /\ SideSpoke(1)

\* The last turn ends the debate.  onTurnFinalized and onDebateEnded are both
\* started in the background; nothing orders them.
ConfirmLastTurn ==
    /\ committed = NumTurns - 1
    /\ Committed(NumTurns)
    /\ \/ /\ BothSpoke'
          /\ L!FinishAllTurns
          /\ pc' = [pc EXCEPT ![EndedHook] = "status"]
       \/ /\ ~BothSpoke'
          /\ L!EndWithoutJudgment
          /\ endReason' = "TOTAL_TIME_EXPIRED"
          /\ rewards' = rewards + (IF (SideSpoke(0) \/ SideSpoke(1))' THEN 1 ELSE 0)
          /\ UNCHANGED pc
    /\ UNCHANGED <<rowVars, queueVars, graph, runVars, booting, boundVars>>

Forfeit ==
    /\ L!EndWithoutJudgment
    /\ endReason' = "FORFEIT"
    /\ UNCHANGED <<chatVars, rowVars, queueVars, graph, runVars, pc, booting,
                   boundVars>>

OnTurnFinalized(t) ==
    /\ t \in hook
    /\ hook' = hook \ {t}
    /\ Schedule({t})
    /\ UNCHANGED <<debateVars, committed, blank, attempt, requestId,
                   attemptsMade, parted, graph, runVars, pc, booting,
                   boundVars>>

\* The background call fails: inBackground only logs it.
OnTurnFinalizedFails(t) ==
    /\ t \in hook
    /\ Fault
    /\ hook' = hook \ {t}
    /\ SchedulePartly({t})
    /\ UNCHANGED <<debateVars, committed, blank, attempt, requestId,
                   attemptsMade, graph, runVars, pc, booting, requests,
                   timeouts>>

-----------------------------------------------------------------------------
(* The worker: process() *)

Busy == {r \in Run : process[r] # "idle"}
MaxAttemptsOf(x) == MaxAttempts[KindOf(x)]
Components == UNION {graph[t] : t \in Turn}

\* The job leaves the queue, completed or failed for good.
JobDone(x) ==
    /\ job' = [job EXCEPT ![x] = "none"]
    /\ attemptsMade' = [attemptsMade EXCEPT ![x] = 0]

\* Mutation: the job is given one call less than its row has attempts.
JobThrewEarly(x) ==
    IF attemptsMade[x] + 2 < MaxAttemptsOf(x)
    THEN /\ job' = [job EXCEPT ![x] = "queued"]
         /\ attemptsMade' = [attemptsMade EXCEPT ![x] = @ + 1]
    ELSE JobDone(x)

\* process() threw: BullMQ calls it again after the backoff, or gives up.
JobThrew(x) ==
    IF attemptsMade[x] + 1 < MaxAttemptsOf(x)
    THEN /\ job' = [job EXCEPT ![x] = "queued"]
         /\ attemptsMade' = [attemptsMade EXCEPT ![x] = @ + 1]
    ELSE JobDone(x)

\* The worker takes a job and acquires its row.  A FACT_CHECK handler stops at
\* once when its component is gone, without a retry.
Acquire(r, x) ==
    /\ job[x] = "queued"
    /\ process[r] = "idle" /\ handler[r] = "none"
    /\ Cardinality(Busy) < Concurrency
    /\ taskStatus[x] = "PENDING"
    /\ taskStatus' = [taskStatus EXCEPT ![x] = "PROCESSING"]
    /\ attempt' = [attempt EXCEPT ![x] = @ + 1]
    /\ requestId' = [requestId EXCEPT ![x] = r]
    /\ job' = [job EXCEPT ![x] = "active"]
    /\ process' = [process EXCEPT ![r] = "working"]
    /\ handler' = [handler EXCEPT ![r] =
                     IF x \in Component \ Components THEN "fatal" ELSE "model"]
    /\ held' = [held EXCEPT ![r] = x]
    /\ UNCHANGED <<debateVars, chatVars, attemptsMade, parted, graph, saved,
                   pc, booting, boundVars>>

\* Settled already, or held by another run: process() returns and the job ends.
SkipJob(x) ==
    /\ job[x] = "queued"
    /\ Cardinality(Busy) < Concurrency
    /\ taskStatus[x] # "PENDING"
    /\ JobDone(x)
    /\ UNCHANGED <<debateVars, chatVars, rowVars, graph, runVars, pc, parted,
                   booting, boundVars>>

\* The handler of r ends: its process waits for it, or has timed out before.
HandlerEnds(r, result) ==
    /\ handler' = [handler EXCEPT ![r] =
                     IF process[r] = "working" THEN result ELSE "none"]
    /\ held' = [held EXCEPT ![r] = IF process[r] = "idle" THEN None ELSE @]

\* The model fails or answers what the validators refuse, or a read or a
\* transaction fails.
HandlerFails(r) ==
    /\ handler[r] = "model"
    /\ HandlerEnds(r, "error")
    /\ UNCHANGED <<debateVars, chatVars, rowVars, queueVars, graph, process,
                   saved, pc, booting, boundVars>>

\* Ids no component has had: the database makes new ones for every analysis.
Fresh ==
    {c \in Component : /\ c \notin Components
                       /\ taskStatus[c] = "ABSENT"
                       /\ \A r \in Run : c \notin saved[r]}

\* replaceTurnGraph: the turn's graph of an earlier analysis is replaced whole.
\* Nothing checks that r still holds the row.
AnalyzerSaves(r) ==
    /\ handler[r] = "model" /\ held[r] \in Turn
    /\ \E components \in SUBSET Fresh :
         /\ Cardinality(components) <= FactChecksPerTurn
         /\ held[r] \in Closing => components = {}
         /\ graph' = [graph EXCEPT ![held[r]] = components]
         /\ saved' = [saved EXCEPT ![r] = components]
         /\ IF components = {} THEN HandlerEnds(r, "ok")
            ELSE /\ handler' = [handler EXCEPT ![r] = "schedule"]
                 /\ UNCHANGED held
    /\ UNCHANGED <<debateVars, chatVars, rowVars, queueVars, process, pc,
                   booting, boundVars>>

\* A FACT_CHECK task for every component just saved.
AnalyzerSchedules(r) ==
    /\ handler[r] = "schedule"
    /\ Schedule(saved[r])
    /\ saved' = [saved EXCEPT ![r] = {}]
    /\ HandlerEnds(r, "ok")
    /\ UNCHANGED <<debateVars, chatVars, attempt, requestId, attemptsMade,
                   parted, graph, process, pc, booting, boundVars>>

AnalyzerSchedulingFails(r) ==
    /\ handler[r] = "schedule"
    /\ Fault
    /\ SchedulePartly(saved[r])
    /\ saved' = [saved EXCEPT ![r] = {}]
    /\ HandlerEnds(r, "error")
    /\ UNCHANGED <<debateVars, chatVars, attempt, requestId, attemptsMade,
                   graph, process, pc, booting, requests, timeouts>>

FactCheckerSaves(r) ==
    /\ handler[r] = "model" /\ held[r] \in Component
    /\ HandlerEnds(r, "ok")
    /\ UNCHANGED <<debateVars, chatVars, rowVars, queueVars, graph, process,
                   saved, pc, booting, boundVars>>

\* Mutation: the result is stored without looking at the debate's stage.
JudgeSavesAlways(r) ==
    /\ handler[r] = "model" /\ held[r] = DebateId
    /\ debateStatus' = "COMPLETED" /\ UNCHANGED endReason
    /\ \/ judgment' = "win"  /\ rewards' = rewards + 1
       \/ judgment' = "draw" /\ UNCHANGED rewards
    /\ HandlerEnds(r, "ok")
    /\ UNCHANGED <<chatVars, rowVars, queueVars, graph, process, saved, pc,
                   booting, boundVars>>

\* completeJudgment commits, or finds the debate settled and changes nothing:
\* the handler returns normally in both cases.
JudgeSaves(r) ==
    /\ handler[r] = "model" /\ held[r] = DebateId
    /\ \/ L!CompleteJudgment
       \/ ~Judgeable /\ UNCHANGED debateVars
    /\ HandlerEnds(r, "ok")
    /\ UNCHANGED <<chatVars, rowVars, queueVars, graph, process, saved, pc,
                   booting, boundVars>>

\* The conditional UPDATE of settle(): only for the run that holds the row.
Settle(x, r, status, owner) ==
    IF taskStatus[x] = "PROCESSING" /\ requestId[x] = r
    THEN /\ taskStatus' = [taskStatus EXCEPT ![x] = status]
         /\ requestId' = [requestId EXCEPT ![x] = owner]
    ELSE UNCHANGED <<taskStatus, requestId>>

\* Mutation: only a settled analysis has the condition evaluated again.
NotifiedByAnalysis(x, outcome) ==
    IF x \in Turn THEN "status"
    ELSE IF x = DebateId /\ outcome = "FAILED" THEN "fail" ELSE "idle"

\* The step of JudgeService that onTaskSettled takes first.
Notified(x, outcome) ==
    IF x # DebateId THEN "status"
    ELSE IF outcome = "FAILED" THEN "fail" ELSE "idle"

Complete(r) ==
    LET x == held[r] IN
    /\ process[r] = "working" /\ handler[r] = "ok"
    /\ Settle(x, r, "COMPLETED", r)
    /\ process' = [process EXCEPT ![r] = "notify"]
    /\ handler' = [handler EXCEPT ![r] = "none"]
    /\ pc' = [pc EXCEPT ![r] = Notified(x, "COMPLETED")]
    /\ UNCHANGED <<debateVars, chatVars, attempt, queueVars, graph, held,
                   saved, booting, boundVars>>

\* What process() sees as a failure: the handler's, or the timeout's while the
\* handler goes on.
Running(r) == handler[r] \in {"model", "schedule"}
Failed(r) ==
    \/ handler[r] \in {"error", "fatal"} /\ UNCHANGED timeouts
    \/ Running(r) /\ timeouts < MaxTimeouts /\ timeouts' = timeouts + 1
\* Mutation: one attempt too many.
RetryableOnceMore(r) ==
    handler[r] # "fatal" /\ attempt[held[r]] <= MaxAttemptsOf(held[r])
Retryable(r) == handler[r] # "fatal" /\ attempt[held[r]] < MaxAttemptsOf(held[r])

\* A retryable failure: the row is released, and the exception reaches BullMQ.
Release(r) ==
    LET x == held[r] IN
    /\ process[r] = "working" /\ Failed(r) /\ Retryable(r)
    /\ Settle(x, r, "PENDING", None)
    /\ JobThrew(x)
    /\ process' = [process EXCEPT ![r] = "idle"]
    /\ handler' = [handler EXCEPT ![r] = IF Running(r) THEN @ ELSE "none"]
    /\ held' = [held EXCEPT ![r] = IF Running(r) THEN @ ELSE None]
    /\ UNCHANGED <<debateVars, chatVars, attempt, graph, saved, pc, parted,
                   booting, requests, faults>>

\* The last attempt, or a failure no retry can mend.
SettleFailed(r) ==
    LET x == held[r] IN
    /\ process[r] = "working" /\ Failed(r) /\ ~Retryable(r)
    /\ Settle(x, r, "FAILED", r)
    /\ process' = [process EXCEPT ![r] = "notify"]
    /\ handler' = [handler EXCEPT ![r] = IF Running(r) THEN @ ELSE "none"]
    /\ pc' = [pc EXCEPT ![r] = Notified(x, "FAILED")]
    /\ UNCHANGED <<debateVars, chatVars, attempt, queueVars, graph, held,
                   saved, booting, requests, faults>>

\* onTaskSettled returned: process() ends and BullMQ removes the job.
FinishJob(r) ==
    /\ process[r] = "notify" /\ pc[r] = "idle"
    /\ JobDone(held[r])
    /\ process' = [process EXCEPT ![r] = "idle"]
    /\ held' = [held EXCEPT ![r] = IF handler[r] = "none" THEN None ELSE @]
    /\ UNCHANGED <<debateVars, chatVars, rowVars, graph, handler, saved, pc,
                   parted, booting, boundVars>>

\* findById or acquire fails in the database before anything is changed: the
\* job is a call short of the attempts its row has left.
JobFails(x) ==
    /\ job[x] = "queued"
    /\ Fault
    /\ JobThrew(x)
    /\ parted' = parted \cup {x}
    /\ UNCHANGED <<debateVars, chatVars, rowVars, graph, runVars, pc, booting,
                   requests, timeouts>>

\* The database fails under settle(): process() throws with the row unchanged.
SettlementFails(r) ==
    /\ process[r] = "working"
    /\ Fault
    /\ JobThrew(held[r])
    /\ process' = [process EXCEPT ![r] = "idle"]
    /\ handler' = [handler EXCEPT ![r] = IF Running(r) THEN @ ELSE "none"]
    /\ held' = [held EXCEPT ![r] = IF Running(r) THEN @ ELSE None]
    /\ UNCHANGED <<debateVars, chatVars, rowVars, graph, saved, pc, parted,
                   booting, requests, timeouts>>

-----------------------------------------------------------------------------
(* JudgeService.tryStartJudge and failJudgment, one step per database call *)

Goto(c, step) == pc' = [pc EXCEPT ![c] = step]

ReadStatus(c) ==
    /\ pc[c] = "status"
    /\ Goto(c, IF Judgeable THEN "counts" ELSE "idle")
    /\ UNCHANGED <<debateVars, chatVars, rowVars, queueVars, graph, runVars,
                   booting, boundVars>>

\* countByKind: a failed analysis bars the judgment, a failed fact check does
\* not; whatever waits or runs is waited for.
ReadCounts(c) ==
    /\ pc[c] = "counts"
    /\ \/ /\ \E t \in Turn : taskStatus[t] = "FAILED"
          /\ Goto(c, "fail")
       \/ /\ \A t \in Turn : taskStatus[t] # "FAILED"
          /\ Goto(c, IF \E x \in Turn \cup Component :
                            taskStatus[x] \in {"PENDING", "PROCESSING"}
                     THEN "idle" ELSE "create")
    /\ UNCHANGED <<debateVars, chatVars, rowVars, queueVars, graph, runVars,
                   booting, boundVars>>

FailJudgment(c) ==
    /\ pc[c] = "fail"
    /\ \/ L!FailJudgment
       \/ ~Judgeable /\ UNCHANGED debateVars
    /\ Goto(c, "idle")
    /\ UNCHANGED <<chatVars, rowVars, queueVars, graph, runVars, booting,
                   boundVars>>

ScheduleJudge(c) ==
    /\ pc[c] = "create"
    /\ Schedule({DebateId})
    /\ Goto(c, "judging")
    /\ UNCHANGED <<debateVars, chatVars, attempt, requestId, attemptsMade,
                   parted, graph, runVars, booting, boundVars>>

StartJudging(c) ==
    /\ pc[c] = "judging"
    /\ \/ L!StartJudging
       \/ debateStatus # "DEBATE_FINALIZED" /\ UNCHANGED debateVars
    /\ Goto(c, "idle")
    /\ UNCHANGED <<chatVars, rowVars, queueVars, graph, runVars, booting,
                   boundVars>>

\* A call throws: the hook and the worker log it, REST answers an error.
CallFails(c) ==
    /\ pc[c] # "idle"
    /\ Fault
    /\ Goto(c, "idle")
    /\ \/ pc[c] = "create" /\ SchedulePartly({DebateId})
       \/ UNCHANGED <<taskStatus, job, parted>>
    /\ UNCHANGED <<debateVars, chatVars, attempt, requestId, attemptsMade,
                   graph, runVars, booting, requests, timeouts>>

-----------------------------------------------------------------------------
(* REST *)

Request(c, op) ==
    /\ c \in RestCaller /\ pc[c] = "idle"
    /\ op \in RestOps
    /\ requests < MaxRequests
    /\ requests' = requests + 1

\* Finalized turns without an analysis row: what resumeAnalyzers fills in.
Missing == {t \in Analyzable : taskStatus[t] = "ABSENT"}

\* Rows /judge/retry puts back.  Fact checks are not among them.
FailedTasks == {x \in Turn \cup {DebateId} : taskStatus[x] = "FAILED"}

PostJudging(c) ==
    /\ Request(c, "judging")
    /\ Goto(c, "status")
    /\ UNCHANGED <<debateVars, chatVars, rowVars, queueVars, graph, runVars,
                   booting, timeouts, faults>>

PostJudge(c) ==
    /\ Request(c, "judge")
    /\ judgment = "none"
    /\ Schedule(Missing)
    /\ Goto(c, "status")
    /\ UNCHANGED <<debateVars, chatVars, attempt, requestId, attemptsMade,
                   parted, graph, runVars, booting, timeouts, faults>>

\* The cooldown counts from the last failure.  With a long one, the process()
\* that failed a task has long returned when the retry is let through.
CooldownPassed ==
    LongCooldown => \A r \in Run : process[r] = "notify" => held[r] \notin FailedTasks

\* POST /judge/retry up to the cooldown.  A debate that ended without a
\* judgment is refused; a refusal by the cooldown has already filled in the
\* missing rows.
PostRetry(c) ==
    /\ Request(c, "retry")
    /\ judgment = "none"
    /\ debateStatus = "FAILED" => endReason = "JUDGMENT_FAILED"
    /\ Missing \cup FailedTasks # {}
    /\ Schedule(Missing)
    /\ \/ CooldownPassed /\ Goto(c, "restore")
       \/ FailedTasks # {} /\ UNCHANGED pc
    /\ UNCHANGED <<debateVars, chatVars, attempt, requestId, attemptsMade,
                   parted, graph, runVars, booting, timeouts, faults>>

\* resumeAnalyzers throws on its way.
ResumeFails(c) ==
    /\ c \in RestCaller /\ pc[c] = "idle"
    /\ RestOps \cap {"judge", "retry"} # {}
    /\ requests < MaxRequests /\ requests' = requests + 1
    /\ judgment = "none"
    /\ Fault
    /\ SchedulePartly(Missing)
    /\ UNCHANGED <<debateVars, chatVars, attempt, requestId, attemptsMade,
                   graph, runVars, pc, booting, timeouts>>

\* Mutation: a FAILED debate is restored whatever it failed for.
RestoreAnyFailed(c) ==
    /\ pc[c] = "restore"
    /\ IF debateStatus = "FAILED"
       THEN /\ debateStatus' = "DEBATE_FINALIZED"
            /\ endReason' = "ALL_TURNS_FINALIZED"
            /\ UNCHANGED <<judgment, rewards>>
       ELSE UNCHANGED debateVars
    /\ Goto(c, "reset")
    /\ UNCHANGED <<chatVars, rowVars, queueVars, graph, runVars, booting,
                   boundVars>>

RestoreFinalized(c) ==
    /\ pc[c] = "restore"
    /\ \/ L!RestoreFinalized
       \/ /\ ~(debateStatus = "FAILED" /\ endReason = "JUDGMENT_FAILED")
          /\ UNCHANGED debateVars
    /\ Goto(c, "reset")
    /\ UNCHANGED <<chatVars, rowVars, queueVars, graph, runVars, booting,
                   boundVars>>

\* resetFailed gives the rows a full budget.
ResetRows ==
    /\ taskStatus' = [x \in Target |->
                        IF x \in FailedTasks THEN "PENDING" ELSE taskStatus[x]]
    /\ attempt' = [x \in Target |-> IF x \in FailedTasks THEN 0 ELSE attempt[x]]
    /\ requestId' = [x \in Target |->
                        IF x \in FailedTasks THEN None ELSE requestId[x]]

\* The rows go back to the queue, where a job whose process() has not returned
\* keeps the new one out.
ResetFailed(c) ==
    /\ pc[c] = "reset"
    /\ ResetRows
    /\ job' = Queued(FailedTasks)
    /\ parted' = (parted \ FailedTasks) \cup {x \in FailedTasks : job[x] # "none"}
    /\ Goto(c, "status")
    /\ UNCHANGED <<debateVars, chatVars, attemptsMade, graph, runVars,
                   booting, boundVars>>

ResetFails(c) ==
    /\ pc[c] = "reset"
    /\ Fault
    /\ ResetRows
    /\ \E added \in SUBSET FailedTasks :
         /\ job' = Queued(added)
         /\ parted' = (parted \ FailedTasks)
                       \cup {x \in FailedTasks : x \notin added \/ job[x] # "none"}
    /\ Goto(c, "idle")
    /\ UNCHANGED <<debateVars, chatVars, attemptsMade, graph, runVars,
                   booting, requests, timeouts>>

-----------------------------------------------------------------------------
(* Crash and boot *)

\* Every coroutine dies.  The jobs that were active stall: BullMQ runs them
\* again, or gives them up when they stalled before.
Crash ==
    /\ Fault
    /\ hook' = {}
    /\ \E rerun \in SUBSET {x \in Target : job[x] = "active"} :
         job' = [x \in Target |-> IF x \in rerun THEN "queued"
                                  ELSE IF job[x] = "active" THEN "none" ELSE job[x]]
    /\ attemptsMade' = [x \in Target |-> IF job'[x] = "none" THEN 0
                                         ELSE attemptsMade[x]]
    /\ process' = [r \in Run |-> "idle"]
    /\ handler' = [r \in Run |-> "none"]
    /\ held' = [r \in Run |-> None]
    /\ saved' = [r \in Run |-> {}]
    /\ pc' = [c \in Caller |-> "idle"]
    /\ booting' = TRUE
    /\ UNCHANGED <<debateVars, committed, blank, rowVars, parted, graph,
                   requests, timeouts>>

\* Mutation: every PROCESSING row is taken for an orphan.
AllProcessing == {x \in Target : taskStatus[x] = "PROCESSING"}

\* PROCESSING rows no live run holds.
Orphans ==
    {x \in Target : /\ taskStatus[x] = "PROCESSING"
                    /\ \A r \in Run : ~(process[r] = "working" /\ held[r] = x)}

\* reclaimStale: the rows old enough are a part of the orphans; a live run is
\* bounded by its timeout, a third of the age asked for.
Reclaim(stale) ==
    /\ taskStatus' = [x \in Target |-> IF x \in stale THEN "PENDING"
                                       ELSE taskStatus[x]]
    /\ requestId' = [x \in Target |-> IF x \in stale THEN None ELSE requestId[x]]

\* Mutation: only what was reclaimed goes back to the queue.
BootRecoveryOfStale ==
    /\ booting
    /\ \E stale \in SUBSET Orphans : Reclaim(stale) /\ job' = Queued(stale)
    /\ parted' = {x \in parted : job[x] # "none"}
    /\ booting' = FALSE
    /\ UNCHANGED <<debateVars, chatVars, attempt, attemptsMade, graph,
                   runVars, pc, boundVars>>

\* onApplicationBootstrap, once after a start, with the worker already running.
BootRecovery ==
    /\ booting
    /\ \E stale \in SUBSET Orphans : Reclaim(stale)
    /\ job' = Queued({x \in Target : taskStatus'[x] = "PENDING"})
    /\ parted' = {x \in parted : job[x] # "none"}
    /\ booting' = FALSE
    /\ UNCHANGED <<debateVars, chatVars, attempt, attemptsMade, graph,
                   runVars, pc, boundVars>>

\* It fails half way and is only logged; at most once per crash.
BootRecoveryFails ==
    /\ booting
    /\ \E stale \in SUBSET Orphans :
         Reclaim(stale) /\ parted' = parted \cup stale
    /\ booting' = FALSE
    /\ UNCHANGED <<debateVars, chatVars, attempt, job, attemptsMade, graph,
                   runVars, pc, boundVars>>

-----------------------------------------------------------------------------
TakeJob(x) == SkipJob(x) \/ \E r \in Run : Acquire(r, x)

HandlerStep(r) ==
    \/ HandlerFails(r)
    \/ AnalyzerSaves(r)
    \/ AnalyzerSchedules(r)
    \/ FactCheckerSaves(r)
    \/ JudgeSaves(r)

ProcessStep(r) == Complete(r) \/ Release(r) \/ SettleFailed(r) \/ FinishJob(r)

CallStep(c) ==
    \/ ReadStatus(c)
    \/ ReadCounts(c)
    \/ FailJudgment(c)
    \/ ScheduleJudge(c)
    \/ StartJudging(c)
    \/ RestoreFinalized(c)
    \/ ResetFailed(c)

ChatStep == StartDebate \/ ConfirmTurn \/ ConfirmLastTurn \/ Forfeit

RestStep(c) == PostJudging(c) \/ PostJudge(c) \/ PostRetry(c) \/ ResumeFails(c)

FaultStep ==
    \/ \E t \in Turn : OnTurnFinalizedFails(t)
    \/ \E r \in Run : AnalyzerSchedulingFails(r) \/ SettlementFails(r)
    \/ \E x \in Target : JobFails(x)
    \/ \E c \in Caller : CallFails(c) \/ ResetFails(c)
    \/ Crash
    \/ BootRecoveryFails

Next ==
    \/ ChatStep
    \/ \E t \in Turn : OnTurnFinalized(t)
    \/ \E x \in Target : TakeJob(x)
    \/ \E r \in Run : HandlerStep(r) \/ ProcessStep(r)
    \/ \E c \in Caller : CallStep(c)
    \/ \E c \in RestCaller : RestStep(c)
    \/ BootRecovery
    \/ FaultStep

Spec == Init /\ [][Next]_vars

(***************************************************************************)
(* The event loop runs every coroutine whose await is over; BullMQ serves  *)
(* its jobs in order, so one that waits is not passed over for ever; a     *)
(* call to a model ends, by an answer or an error.  Users, and faults, owe *)
(* nothing.                                                                *)
(***************************************************************************)
Fairness ==
    /\ \A t \in Turn : WF_vars(OnTurnFinalized(t))
    /\ \A x \in Target : SF_vars(TakeJob(x))
    /\ \A r \in Run : WF_vars(HandlerStep(r)) /\ WF_vars(ProcessStep(r))
    /\ \A c \in Caller : WF_vars(CallStep(c))
    /\ WF_vars(BootRecovery)

FairSpec == Spec /\ Fairness

-----------------------------------------------------------------------------
(* Safety *)

(***************************************************************************)
(* A process() that waits for its handler, or is about to settle, holds    *)
(* its row: no reclaim, reset or other run takes it away meanwhile.  Since *)
(* a row has one holder, no task has two live attempts.                    *)
(***************************************************************************)
HolderKeepsRow ==
    \A r \in Run : process[r] = "working" =>
        taskStatus[held[r]] = "PROCESSING" /\ requestId[held[r]] = r

(***************************************************************************)
(* The debate row, its stored judgment and the rewards paid agree, across  *)
(* crashes, late handlers, repeated jobs and retries (completeJudgment and *)
(* failJudgment are conditional UPDATEs with their side effects inside).   *)
(***************************************************************************)
SettledOnce == L!SettledOnce

(***************************************************************************)
(* Seen through the debate row the pipeline is the lifecycle of            *)
(* DebateLifecycle: no late handler, failing task or retry moves a debate  *)
(* otherwise, or touches one that is COMPLETED or was forfeited.           *)
(***************************************************************************)
LifecycleImplemented == L!Spec

(***************************************************************************)
(* README: attempts are bounded by MaxAttempts, the first one included.    *)
(***************************************************************************)
AttemptBudget == \A x \in Target : attempt[x] <= MaxAttemptsOf(x)

(***************************************************************************)
(* A row that waits is in the queue, so somebody will run it, through      *)
(* failures, retries and crashes: the attempts BullMQ counts do not run    *)
(* out before those of the row, a boot and a /judge/retry put back what    *)
(* they find without a job.  It takes one of these to strand a row         *)
(* (parted): a call that fails between the row and its job, or before the  *)
(* row is acquired, or in the boot; and a retry that comes while the run   *)
(* that failed still notifies, whose jobId keeps the new job out           *)
(* (judge-task.worker.ts, schedule, enqueue and onApplicationBootstrap).   *)
(***************************************************************************)
WaitingIsQueued ==
    \A x \in Target \ parted : taskStatus[x] = "PENDING" => job[x] # "none"

(***************************************************************************)
(* A JUDGE task exists only for a debate whose turns all passed: never for *)
(* one that runs, was forfeited or ran out of time, whatever REST asks for *)
(* and whichever analyses go on after the end (tryStartJudge).             *)
(***************************************************************************)
JudgeOnlyForFinished ==
    taskStatus[DebateId] # "ABSENT" =>
        endReason \in {"ALL_TURNS_FINALIZED", "JUDGMENT_FAILED"}

\* A call of JudgeService that will start the judgment, wait for another task
\* to settle, or close the debate.
Evaluates(c) == pc[c] \in {"status", "counts", "fail", "create"}

\* A task that will settle, and have the condition evaluated then: it waits in
\* the queue, or a run has it.
WillSettle(x) ==
    \/ taskStatus[x] = "PENDING" /\ job[x] = "queued"
    \/ \E r \in Run : process[r] = "working" /\ held[r] = x

(***************************************************************************)
(* A finished debate is never forgotten: whichever of onDebateEnded and    *)
(* the tasks comes last to the start condition finds it met, sees a        *)
(* failure, or leaves a task behind that will come after it, down to the   *)
(* JUDGE task itself (judge.service.ts, tryStartJudge and onTaskSettled).  *)
(***************************************************************************)
FinishedIsPursued ==
    Judgeable => \/ \E c \in Caller : Evaluates(c)
                 \/ \E x \in Target : WillSettle(x)

(***************************************************************************)
(* README, start condition of JUDGE: the debate has ended, every analysis  *)
(* succeeded, and no analysis or fact check waits or runs.                 *)
(***************************************************************************)
JudgeStartsComplete ==
    [][taskStatus[DebateId] = "ABSENT" /\ taskStatus'[DebateId] # "ABSENT" =>
         /\ \A t \in Turn \ blank : taskStatus[t] = "COMPLETED"
         /\ \A x \in Component : taskStatus[x] \notin {"PENDING", "PROCESSING"}]_vars

-----------------------------------------------------------------------------
(* Liveness *)

(***************************************************************************)
(* A debate whose turns all passed is eventually judged, or closed as      *)
(* failed, whoever evaluates the condition last: onDebateEnded or the last *)
(* task to settle.                                                         *)
(***************************************************************************)
EndedDebateSettles ==
    debateStatus \in L!JudgeableStatuses ~> debateStatus \in {"COMPLETED", "FAILED"}
==============================================================================
