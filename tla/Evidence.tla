------------------------------- MODULE Evidence -------------------------------
(***************************************************************************)
(* The evidence a judgment rests on: the argument graph the ANALYZER       *)
(* attempts write turn by turn, the results of the FACT_CHECK attempts,    *)
(* and what a JUDGE attempt reads of both (ArgumentAnalyzerService,        *)
(* FactCheckerService, DebateJudgeService, JudgeResultRepository).         *)
(*                                                                         *)
(* An attempt is one call of a handler.  It outlives the worker's timeout: *)
(* runWithTimeout gives the task up, nothing stops the handler, and the    *)
(* retry of the task runs beside it.  Rows of debate_processing_task are   *)
(* reduced to their status here; JudgePipeline has the queue, the request  *)
(* ids, the REST calls and the evaluation of the start condition.          *)
(***************************************************************************)
EXTENDS Integers, FiniteSets, Sequences, VerdictRules

CONSTANTS
    NumTurns,           \* turns of the debate, none of them blank
    Closing,            \* turns of the CLOSING phase: nothing is fact-checked
    Id,                 \* component ids the database can hand out
    Ref,                \* refs (c1, c2...) the model gives its components
    FactChecksPerTurn,  \* MAX_FACT_CHECKS_PER_TURN
    Opinion,            \* replies of the judging models
    Attempt,            \* handlers alive at once
    DebateId,
    None,
    MaxAttempts,        \* [kind -> JudgeConfig.maxAttempts]
    MaxComponents,      \* bound: components of a reply
    MaxRelations,       \* bound: relations of a reply
    MaxFaults           \* bound: timeouts, crashes, late registrations

Kind == {"ANALYZER", "FACT_CHECK", "JUDGE"}
Turn == 1..NumTurns
Target == Turn \cup Id \cup {DebateId}

ASSUME EvidenceAssumption ==
    /\ NumTurns \in Nat
    /\ Closing \subseteq Turn
    /\ IsFiniteSet(Id)
    /\ (Turn \cup {0}) \cap Id = {}
    /\ Ref \cap Id = {}
    /\ DebateId \notin Turn \cup Id
    /\ None \notin Target /\ None \notin {"host", "opponent"}
    /\ FactChecksPerTurn \in Nat
    /\ MaxAttempts \in [Kind -> Nat]
    /\ MaxComponents \in Nat
    /\ MaxFaults \in Nat
    /\ \A o \in Opinion : \A x \in Side :
         /\ o[x].positions \in [Axis -> Position]
         /\ \A s \in Severity : o[x].found[s] \in Nat

VARIABLES
    basis,          \* turns and components no handler was at when the JUDGE
                    \* task was made
    forgotten,      \* flagged components a late attempt left without a task
    taskStatus,     \* [Target -> status of the row, "ABSENT" without one]
    attempt,        \* [Target -> attempts begun]
    turnOf,         \* [Id -> turn the component was inserted for, 0 if never]
    answer,         \* [Id -> which attempt of its turn inserted it]
    components,     \* ids of the rows of debate_argument_component
    needsFactCheck, \* ids of those with the flag
    relations,      \* rows of debate_argument_relation: <<from, to>>
    factChecks,     \* componentIds of the rows of debate_fact_check_result
    verdict,        \* the row of debate_judgment_result, or None
    task,           \* [Attempt -> its task, None for a free one]
    pc,             \* [Attempt -> the await it is at]
    late,           \* attempts whose task has been given up
    read,           \* [Attempt -> what it has read so far]
    previous,       \* [Attempt -> rows its replaceTurnGraph is about to delete]
    todo,           \* [Attempt -> components it still has to schedule]
    overrun,        \* targets an attempt of which was ever late
    faults          \* timeouts, crashes and late registrations so far

rowVars     == <<taskStatus, attempt>>
graphVars   == <<turnOf, answer, components, needsFactCheck, relations>>
attemptVars == <<task, pc, late, read, previous, todo>>
vars == <<basis, forgotten, rowVars, graphVars, factChecks, verdict,
          attemptVars, overrun, faults>>

Nothing == [components |-> {}, factChecks |-> {}, relations |-> {}]

\* A row of debate_judgment_result, with the winnerId of the debate.
Judgment == [scores   : [Side -> SideScores],
             total    : [Side -> Score],
             winnerId : {"host", "opponent", None},
             penalty  : [Side -> Nat]]

TypeOK ==
    /\ basis \subseteq Turn \cup Id
    /\ forgotten \subseteq Id
    /\ taskStatus \in [Target -> {"ABSENT", "PENDING", "PROCESSING",
                                  "COMPLETED", "FAILED"}]
    /\ attempt \in [Target -> Nat]
    /\ turnOf \in [Id -> Turn \cup {0}]
    /\ answer \in [Id -> Nat]
    /\ components \subseteq Id
    /\ needsFactCheck \subseteq Id
    /\ relations \subseteq Id \X Id
    /\ factChecks \subseteq components
    /\ verdict \in Judgment \cup {None}
    /\ task \in [Attempt -> Target \cup {None}]
    /\ pc \in [Attempt -> {"free", "model", "replace", "schedule", "save",
                           "factChecks", "relations", "ok"}]
    /\ late \subseteq Attempt
    /\ read \in [Attempt -> [components : SUBSET Id, factChecks : SUBSET Id,
                             relations : SUBSET (Id \X Id)]]
    /\ previous \in [Attempt -> SUBSET Id]
    /\ todo \in [Attempt -> SUBSET Id]
    /\ overrun \subseteq Target
    /\ faults \in 0..MaxFaults

Init ==
    /\ basis = {} /\ forgotten = {}
    /\ taskStatus = [x \in Target |-> "ABSENT"]
    /\ attempt = [x \in Target |-> 0]
    /\ turnOf = [c \in Id |-> 0]
    /\ answer = [c \in Id |-> 0]
    /\ components = {} /\ needsFactCheck = {} /\ relations = {}
    /\ factChecks = {}
    /\ verdict = None
    /\ task = [a \in Attempt |-> None]
    /\ pc = [a \in Attempt |-> "free"]
    /\ late = {}
    /\ read = [a \in Attempt |-> Nothing]
    /\ previous = [a \in Attempt |-> {}]
    /\ todo = [a \in Attempt |-> {}]
    /\ overrun = {}
    /\ faults = 0

KindOf(x) ==
    IF x \in Turn THEN "ANALYZER" ELSE IF x \in Id THEN "FACT_CHECK" ELSE "JUDGE"

-----------------------------------------------------------------------------
(* Tasks *)

\* The ANALYZER task of a final turn is made, in no order of the turns: in the
\* background of the turn's announcement (onTurnFinalized), which may fail, or
\* by a later /judge (resumeAnalyzers), the judgment under way or not.
RegisterAnalysis(t) ==
    /\ taskStatus[t] = "ABSENT"
    /\ \/ taskStatus[DebateId] = "ABSENT" /\ UNCHANGED faults
       \/ /\ taskStatus[DebateId] # "ABSENT"
          /\ faults < MaxFaults
          /\ faults' = faults + 1
    /\ taskStatus' = [taskStatus EXCEPT ![t] = "PENDING"]
    /\ UNCHANGED <<basis, forgotten, attempt, graphVars, factChecks, verdict,
                   attemptVars, overrun>>

Waiting == {"PENDING", "PROCESSING"}

\* Turns with a task and components, but for those a handler still works on.
Untouched ==
    {x \in Turn \cup Id : /\ x \in Turn => taskStatus[x] # "ABSENT"
                         /\ \A a \in Attempt : task[a] # x}

\* Mutation: checks are not waited for.
CreateJudgeTaskEarly ==
    /\ taskStatus[DebateId] = "ABSENT"
    /\ \A t \in Turn : taskStatus[t] \notin Waiting \cup {"FAILED"}
    /\ taskStatus' = [taskStatus EXCEPT ![DebateId] = "PENDING"]
    /\ basis' = Untouched
    /\ UNCHANGED <<forgotten, attempt, graphVars, factChecks, verdict,
                   attemptVars, overrun, faults>>

\* tryStartJudge, the debate being over: only tasks that exist are counted.  The
\* row is written at once: what happens between the counts and the row may as
\* well happen while the row waits.
CreateJudgeTask ==
    /\ taskStatus[DebateId] = "ABSENT"
    /\ \A t \in Turn : taskStatus[t] \notin Waiting \cup {"FAILED"}
    /\ \A c \in Id : taskStatus[c] \notin Waiting
    /\ taskStatus' = [taskStatus EXCEPT ![DebateId] = "PENDING"]
    /\ basis' = Untouched
    /\ UNCHANGED <<forgotten, attempt, graphVars, factChecks, verdict,
                   attemptVars, overrun, faults>>

\* A free attempt a takes the waiting task x and enters its handler at step.
Enter(a, x, step) ==
    /\ pc[a] = "free"
    /\ taskStatus[x] = "PENDING"
    /\ taskStatus' = [taskStatus EXCEPT ![x] = "PROCESSING"]
    /\ attempt' = [attempt EXCEPT ![x] = @ + 1]
    /\ task' = [task EXCEPT ![a] = x]
    /\ pc' = [pc EXCEPT ![a] = step]

At(a, kind, step) == pc[a] = step /\ KindOf(task[a]) = kind
Goto(a, step) == pc' = [pc EXCEPT ![a] = step]

\* The handler returns or throws.  process() settles the task, unless it gave
\* the attempt up before.
Leave(a, status) ==
    /\ pc' = [pc EXCEPT ![a] = "free"]
    /\ task' = [task EXCEPT ![a] = None]
    /\ read' = [read EXCEPT ![a] = Nothing]
    /\ previous' = [previous EXCEPT ![a] = {}]
    /\ todo' = [todo EXCEPT ![a] = {}]
    /\ late' = late \ {a}
    /\ forgotten' = IF a \in late THEN forgotten \cup todo[a] ELSE forgotten
    /\ taskStatus' = IF a \in late THEN taskStatus
                     ELSE [taskStatus EXCEPT ![task[a]] = status]

AfterFailure(x) ==
    IF attempt[x] < MaxAttempts[KindOf(x)] THEN "PENDING" ELSE "FAILED"

Fail(a) == Leave(a, AfterFailure(task[a]))

\* The handler throws where it calls a model, or for the reply it gets.  Without
\* the model's key no retry can help (NonRetryableTaskError).
ModelFails(a) ==
    /\ \E status \in {AfterFailure(task[a]), "FAILED"} : Leave(a, status)
    /\ UNCHANGED <<basis, attempt, graphVars, factChecks, verdict, overrun,
                   faults>>

AnalyzeFails(a) == At(a, "ANALYZER", "model") /\ ModelFails(a)
CheckFails(a)   == At(a, "FACT_CHECK", "model") /\ ModelFails(a)
JudgeFails(a)   == At(a, "JUDGE", "model") /\ ModelFails(a)

\* It throws where it calls the database: what is not committed is not there.
DatabaseFails(a) ==
    /\ pc[a] \in {"replace", "save", "factChecks", "relations"}
    /\ Fail(a)
    /\ UNCHANGED <<basis, attempt, graphVars, factChecks, verdict, overrun,
                   faults>>

AttemptSucceeds(a) ==
    /\ pc[a] = "ok"
    /\ Leave(a, "COMPLETED")
    /\ UNCHANGED <<basis, attempt, graphVars, factChecks, verdict, overrun,
                   faults>>

\* runWithTimeout: the task is released or failed; the handler goes on.
Timeout(a) ==
    LET x == task[a] IN
    /\ pc[a] # "free"
    /\ a \notin late
    /\ faults < MaxFaults
    /\ faults' = faults + 1
    /\ late' = late \cup {a}
    /\ overrun' = overrun \cup {x}
    /\ taskStatus' = [taskStatus EXCEPT ![x] = AfterFailure(x)]
    /\ UNCHANGED <<basis, forgotten, attempt, graphVars, factChecks, verdict,
                   task, pc, read, previous, todo>>

\* The process dies with its attempts and boots.  The boot makes those tasks
\* PENDING again that were acquired long enough ago.
Restart ==
    /\ faults < MaxFaults
    /\ faults' = faults + 1
    /\ \E stale \in SUBSET {x \in Target : taskStatus[x] = "PROCESSING"} :
         taskStatus' = [x \in Target |-> IF x \in stale THEN "PENDING"
                                         ELSE taskStatus[x]]
    /\ task' = [a \in Attempt |-> None]
    /\ pc' = [a \in Attempt |-> "free"]
    /\ late' = {}
    /\ forgotten' = forgotten \cup UNION {todo[a] : a \in late}
    /\ read' = [a \in Attempt |-> Nothing]
    /\ previous' = [a \in Attempt |-> {}]
    /\ todo' = [a \in Attempt |-> {}]
    /\ UNCHANGED <<basis, attempt, graphVars, factChecks, verdict, overrun>>

-----------------------------------------------------------------------------
(* ANALYZER *)

\* findComponentsBefore.
Before(t) == {c \in components : turnOf[c] < t}

\* The handler reads its turn, the debate and what earlier turns put forward.
BeginAnalysis(a, t) ==
    /\ Enter(a, t, "model")
    /\ read' = [read EXCEPT ![a].components = Before(t)]
    /\ UNCHANGED <<basis, forgotten, graphVars, factChecks, verdict, late,
                   previous, todo, overrun, faults>>

\* validateGraph.  known are the components of earlier turns, each under an
\* alias of its own, which is the id here.
ValidRefs(refs, known) ==
    \A i \in DOMAIN refs :
        refs[i] \notin known /\ \A j \in DOMAIN refs : refs[i] = refs[j] => i = j

RefsOf(refs) == {refs[i] : i \in DOMAIN refs}

\* Mutation: a relation may start wherever it may end.
ValidRelationBothWays(r, refs, known) ==
    /\ r[1] \in RefsOf(refs) \cup known
    /\ r[2] \in RefsOf(refs) \cup known
    /\ r[1] # r[2]

ValidRelation(r, refs, known) ==
    /\ r[1] \in RefsOf(refs)
    /\ r[2] \in RefsOf(refs) \cup known
    /\ r[1] # r[2]

\* limitFactChecks and skipFactChecks: which of the flagged components of a
\* reply of turn t keep the flag.
CheckedOf(t, flagged) ==
    IF t \in Closing THEN {}
    ELSE {i \in flagged : Cardinality({j \in flagged : j < i}) < FactChecksPerTurn}

\* Mutation: the new rows are added to the old ones.
BeginAdd(a) ==
    /\ At(a, "ANALYZER", "model")
    /\ previous' = [previous EXCEPT ![a] = {}]
    /\ Goto(a, "replace")
    /\ UNCHANGED <<basis, forgotten, rowVars, graphVars, factChecks, verdict,
                   task, late, read, todo, overrun, faults>>

\* The reply has come and passed.  The transaction of replaceTurnGraph begins
\* with reading the rows it will delete.
BeginReplace(a) ==
    /\ At(a, "ANALYZER", "model")
    /\ previous' = [previous EXCEPT ![a] = {c \in components : turnOf[c] = task[a]}]
    /\ Goto(a, "replace")
    /\ UNCHANGED <<basis, forgotten, rowVars, graphVars, factChecks, verdict,
                   task, late, read, todo, overrun, faults>>

\* The relations that touch no deleted component.
KeptRelations(old) == {r \in relations : r[1] \notin old /\ r[2] \notin old}

\* The rows that it writes for a reply of n components: component i has the ref
\* refs[i] and the row of id row[i], those in flagged ask for a check.  The
\* results of deleted components go with them (ON DELETE CASCADE); a relation
\* has no foreign key.
WriteGraph(a, n, refs, flagged, links, row) ==
    LET t == task[a]
        old == previous[a]
        new == {row[i] : i \in 1..n}
        idOf(x) == IF x \in read[a].components THEN x
                   ELSE row[CHOOSE i \in 1..n : refs[i] = x]
        checked == {row[i] : i \in CheckedOf(t, flagged)}
    IN
    /\ Cardinality(new) = n
    /\ turnOf' = [c \in Id |-> IF c \in new THEN t ELSE turnOf[c]]
    /\ answer' = [c \in Id |-> IF c \in new THEN attempt[t] ELSE answer[c]]
    /\ components' = (components \ old) \cup new
    /\ needsFactCheck' = (needsFactCheck \ old) \cup checked
    /\ relations' = KeptRelations(old) \cup {<<idOf(r[1]), idOf(r[2])>> : r \in links}
    /\ factChecks' = factChecks \ old
    /\ todo' = [todo EXCEPT ![a] = checked]
    /\ pc' = [pc EXCEPT ![a] = IF checked = {} THEN "ok" ELSE "schedule"]

\* Its rest, up to the commit: the turn's rows are replaced by the reply's.
Replace(a) ==
    LET known == read[a].components IN
    /\ At(a, "ANALYZER", "replace")
    /\ \E n \in 0..MaxComponents : \E refs \in [1..n -> Ref \cup known] :
         /\ ValidRefs(refs, known)
         /\ \E flagged \in SUBSET (1..n),
               links \in SUBSET {r \in (Ref \cup known) \X (Ref \cup known) :
                                   ValidRelation(r, refs, known)},
               row \in [1..n -> {c \in Id : turnOf[c] = 0}] :
             /\ Cardinality(links) <= MaxRelations
             /\ WriteGraph(a, n, refs, flagged, links, row)
    /\ UNCHANGED <<basis, forgotten, rowVars, verdict, task, late, read,
                   previous, overrun, faults>>

\* JudgeTaskQueue.schedule, component by component.
ScheduleFactCheck(a) ==
    /\ At(a, "ANALYZER", "schedule")
    /\ \E c \in todo[a] :
         /\ taskStatus' = [taskStatus EXCEPT ![c] = IF @ = "ABSENT" THEN "PENDING"
                                                    ELSE @]
         /\ todo' = [todo EXCEPT ![a] = @ \ {c}]
         /\ Goto(a, IF todo[a] = {c} THEN "ok" ELSE "schedule")
    /\ UNCHANGED <<basis, forgotten, attempt, graphVars, factChecks, verdict,
                   task, late, read, previous, overrun, faults>>

\* Mutation: a failure to schedule does not fail the analysis.
ScheduleFailsQuietly(a) ==
    /\ At(a, "ANALYZER", "schedule")
    /\ Leave(a, "COMPLETED")
    /\ UNCHANGED <<basis, attempt, graphVars, factChecks, verdict, overrun,
                   faults>>

\* It throws; the components not scheduled yet are left to the retry.
ScheduleFails(a) ==
    /\ At(a, "ANALYZER", "schedule")
    /\ Fail(a)
    /\ UNCHANGED <<basis, attempt, graphVars, factChecks, verdict, overrun,
                   faults>>

-----------------------------------------------------------------------------
(* FACT_CHECK *)

BeginFactCheck(a, c) ==
    /\ c \in components
    /\ Enter(a, c, "model")
    /\ UNCHANGED <<basis, forgotten, graphVars, factChecks, verdict, late,
                   read, previous, todo, overrun, faults>>

\* findComponentOrThrow: a component that was replaced is not worth a retry.
ComponentGone(c) ==
    /\ taskStatus[c] = "PENDING"
    /\ c \notin components
    /\ taskStatus' = [taskStatus EXCEPT ![c] = "FAILED"]
    /\ attempt' = [attempt EXCEPT ![c] = @ + 1]
    /\ UNCHANGED <<basis, forgotten, graphVars, factChecks, verdict,
                   attemptVars, overrun, faults>>

\* Mutation: the results of the whole debate are replaced.
DeleteFactChecks(a) ==
    /\ At(a, "FACT_CHECK", "model")
    /\ factChecks' = {}
    /\ Goto(a, "save")
    /\ UNCHANGED <<basis, forgotten, rowVars, graphVars, verdict, task, late,
                   read, previous, todo, overrun, faults>>

\* The reply has come and passed validateSources.  replaceFactCheck is two
\* statements outside a transaction.
DeleteFactCheck(a) ==
    /\ At(a, "FACT_CHECK", "model")
    /\ factChecks' = factChecks \ {task[a]}
    /\ Goto(a, "save")
    /\ UNCHANGED <<basis, forgotten, rowVars, graphVars, verdict, task, late,
                   read, previous, todo, overrun, faults>>

\* Mutation: no foreign key, the component may be gone.
SaveFactCheckAnyway(a) ==
    /\ At(a, "FACT_CHECK", "save")
    /\ task[a] \notin factChecks
    /\ factChecks' = factChecks \cup {task[a]}
    /\ Goto(a, "ok")
    /\ UNCHANGED <<basis, forgotten, rowVars, graphVars, verdict, task, late,
                   read, previous, todo, overrun, faults>>

\* The insert.  It throws when the component has a result again (UNIQUE) or is
\* gone (foreign key): that is DatabaseFails.
SaveFactCheck(a) ==
    /\ At(a, "FACT_CHECK", "save")
    /\ task[a] \in components \ factChecks
    /\ factChecks' = factChecks \cup {task[a]}
    /\ Goto(a, "ok")
    /\ UNCHANGED <<basis, forgotten, rowVars, graphVars, verdict, task, late,
                   read, previous, todo, overrun, faults>>

-----------------------------------------------------------------------------
(* JUDGE *)

\* The handler reads the debate and the transcript, then, one query after the
\* other, the components, the results and the relations (loadArgumentGraph).
BeginJudgment(a) ==
    /\ Enter(a, DebateId, "factChecks")
    /\ read' = [read EXCEPT ![a].components = components]
    /\ UNCHANGED <<basis, forgotten, graphVars, factChecks, verdict, late,
                   previous, todo, overrun, faults>>

\* findFactChecks, by component.
ReadFactChecks(a) ==
    /\ At(a, "JUDGE", "factChecks")
    /\ read' = [read EXCEPT ![a].factChecks = factChecks \cap read[a].components]
    /\ Goto(a, "relations")
    /\ UNCHANGED <<basis, forgotten, rowVars, graphVars, factChecks, verdict,
                   task, late, previous, todo, overrun, faults>>

\* Only relations with both ends among the components read are handed over.
RelationsAmong(c) == relations \cap (c \X c)

ReadRelations(a) ==
    /\ At(a, "JUDGE", "relations")
    /\ read' = [read EXCEPT ![a].relations = RelationsAmong(read[a].components)]
    /\ Goto(a, "model")
    /\ UNCHANGED <<basis, forgotten, rowVars, graphVars, factChecks, verdict,
                   task, late, previous, todo, overrun, faults>>

\* HybridDebateJudge.judge: scores, feedback and violations of three models as
\* one judgment.
HybridJudgment(o) ==
    [side |-> [x \in Side |->
                 [scores |-> ToSideScores(o[x].positions),
                  feedback |-> o[x].feedback,
                  violations |-> ToViolations(o[x].found)]],
     overallReason |-> o.overallReason]

\* validateJudgment.
ValidJudgment(j) ==
    /\ \A x \in Side : j.side[x].scores \in SideScores /\ j.side[x].feedback
    /\ j.overallReason

\* resolveWinnerId.
WinnerIdOf(winner) ==
    CASE winner = "SIDE_A" -> "host"
      [] winner = "SIDE_B" -> "opponent"
      [] winner = "DRAW" -> None

\* What is stored of the judgment j.
Judged(j) ==
    LET total == [x \in Side |-> CalculateTotalScore(j.side[x].scores)] IN
    [scores |-> [x \in Side |-> j.side[x].scores],
     total |-> total,
     winnerId |-> WinnerIdOf(DecideWinner(total["SIDE_A"], total["SIDE_B"])),
     penalty |-> [x \in Side |-> ToSocialCreditPenalty(j.side[x].violations)]]

\* completeJudgment: the first one settles the debate.  A later one changes
\* nothing and ends as a success, and so does one that finds the debate closed
\* by an analysis that failed meanwhile (failJudgment).
CompleteJudgment(a) ==
    /\ At(a, "JUDGE", "model")
    /\ \/ /\ verdict = None
          /\ \E o \in Opinion : /\ ValidJudgment(HybridJudgment(o))
                                /\ verdict' = Judged(HybridJudgment(o))
       \/ /\ verdict # None \/ \E t \in Turn : taskStatus[t] = "FAILED"
          /\ UNCHANGED verdict
    /\ Goto(a, "ok")
    /\ UNCHANGED <<basis, forgotten, rowVars, graphVars, factChecks, task,
                   late, read, previous, todo, overrun, faults>>

-----------------------------------------------------------------------------
(* Specification *)

TaskStep ==
    \/ \E t \in Turn : RegisterAnalysis(t)
    \/ CreateJudgeTask \/ Restart

AnalyzerStep(a) ==
    \/ \E t \in Turn : BeginAnalysis(a, t)
    \/ BeginReplace(a) \/ Replace(a)
    \/ ScheduleFactCheck(a) \/ ScheduleFails(a)

FactCheckStep(a) ==
    \/ \E c \in Id : BeginFactCheck(a, c) \/ ComponentGone(c)
    \/ DeleteFactCheck(a) \/ SaveFactCheck(a)

JudgeStep(a) ==
    \/ BeginJudgment(a) \/ ReadFactChecks(a) \/ ReadRelations(a)
    \/ CompleteJudgment(a)

OutcomeStep(a) ==
    \/ AnalyzeFails(a) \/ CheckFails(a) \/ JudgeFails(a) \/ DatabaseFails(a)
    \/ AttemptSucceeds(a) \/ Timeout(a)

Next ==
    \/ TaskStep
    \/ \E a \in Attempt :
         AnalyzerStep(a) \/ FactCheckStep(a) \/ JudgeStep(a) \/ OutcomeStep(a)

Spec == Init /\ [][Next]_vars

-----------------------------------------------------------------------------
(* Properties *)

(***************************************************************************)
(* The graph never points forward in time and never from nowhere: a        *)
(* relation starts at a component that exists, ends at one of the same or  *)
(* of an earlier turn, and only the end of another turn may be gone.       *)
(* Concurrent, late and repeated analyses included (validateGraph,         *)
(* findComponentsBefore, replaceTurnGraph).                                *)
(***************************************************************************)
RelationsPointBack ==
    \A r \in relations :
        /\ r[1] \in components
        /\ turnOf[r[2]] \in 1..turnOf[r[1]]
        /\ turnOf[r[2]] = turnOf[r[1]] => r[2] \in components

(***************************************************************************)
(* A retry replaces the turn's graph instead of adding to it               *)
(* (replaceTurnGraph), and the cap on checks holds for the turn: unless an *)
(* attempt outlived its timeout, a turn's components come from one reply   *)
(* and no more than the cap of them is to be checked.                      *)
(***************************************************************************)
OneReplyPerTurn ==
    \A t \in Turn \ overrun :
        LET rows == {c \in components : turnOf[c] = t} IN
        /\ \A c, d \in rows : answer[c] = answer[d]
        /\ Cardinality(rows \cap needsFactCheck)
             <= IF t \in Closing THEN 0 ELSE FactChecksPerTurn

(***************************************************************************)
(* A component that asks for a check gets it: once a turn's analysis is    *)
(* COMPLETED each of them has a FACT_CHECK task, although the graph is     *)
(* committed before the first task is made and the process may fail or die *)
(* in between (ArgumentAnalyzerService.handle).  That rests on the retry   *)
(* that replaces the graph.  A late attempt has none: what it writes after *)
(* the retry's replace waits for the late attempt's own calls of schedule, *)
(* and when one of these fails or the process dies no task is ever made.   *)
(***************************************************************************)
FlaggedIsScheduled ==
    \A c \in components \cap needsFactCheck :
        taskStatus[turnOf[c]] = "COMPLETED" =>
            \/ taskStatus[c] # "ABSENT"
            \/ \E a \in late : c \in todo[a]
            \/ c \in forgotten

(***************************************************************************)
(* A result that was stored stays: as long as its component is there, a    *)
(* COMPLETED check has its row, unless an attempt of it outlived its       *)
(* timeout, whose delete may come after the retry's save                   *)
(* (replaceFactCheck).                                                     *)
(***************************************************************************)
ChecksAreKept ==
    \A c \in components :
        taskStatus[c] = "COMPLETED" /\ c \notin overrun => c \in factChecks

\* Of components, results and relations, those of basis.
Given(c) == {x \in c : turnOf[x] \in basis}
GivenChecks(f) == f \cap Given(components) \cap basis
GivenRelations(r) == r \cap (Given(components) \X Given(components))

(***************************************************************************)
(* The three queries of a judgment are no transaction, but what was        *)
(* analysed when its task was made they give as it is stored, component,   *)
(* result and relation, and so does every retry: what the start condition  *)
(* waited for has ended, and what runs beside the judgment touches none of *)
(* it (tryStartJudge, loadArgumentGraph).  Two kinds of handlers write     *)
(* between the queries, and what is theirs is not promised: those of an    *)
(* analysis that had no task yet when the judgment started, and late ones  *)
(* that worked on their turn or component at that moment.                  *)
(***************************************************************************)
JudgeReadsWhole ==
    \A a \in Attempt :
        At(a, "JUDGE", "model") =>
            /\ Given(read[a].components) = Given(components)
            /\ GivenChecks(read[a].factChecks) = GivenChecks(factChecks)
            /\ GivenRelations(read[a].relations) = GivenRelations(relations)

(***************************************************************************)
(* Nobody loses to a side that scored no better on any axis, whatever the  *)
(* rounding on the way to the totals, and only equal totals are a draw     *)
(* (toHundredScale, calculateTotalScore, decideWinner, resolveWinnerId).   *)
(***************************************************************************)
VerdictIsFair ==
    verdict # None =>
        LET scores == verdict.scores IN
        /\ AtLeast(scores["SIDE_A"], scores["SIDE_B"]) => verdict.winnerId # "opponent"
        /\ AtLeast(scores["SIDE_B"], scores["SIDE_A"]) => verdict.winnerId # "host"
        /\ verdict.winnerId = None
             <=> verdict.total["SIDE_A"] = verdict.total["SIDE_B"]
==============================================================================
