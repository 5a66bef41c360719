# Verification of the Heimdall debate backend

TLA+ specifications of the backend under `src/`, the TLC runs that check them and
the theorems TLAPS proves about them. Source paths below are relative to
`src/src/` unless they begin with `src/`; Korean quotations are the repository's own
comments.

## The system

One NestJS process serves REST and WebSocket calls and runs the BullMQ worker
(`src/README.md`: API and worker share the process). PostgreSQL holds everything
durable; Redis holds the task queue, the drafts of the running turn and a lock per
debate. Since Node runs one callback at a time, all concurrency is the interleaving
of coroutines at their `await`s, plus what the database lets two statements or
transactions do to each other; a crash ends all coroutines at once.

| Component | State | Operations | What is hard | What makes it correct |
| --- | --- | --- | --- | --- |
| Debate lifecycle (`debates/entities`) | `debateStatus`, `endReason`, judgment, rewards | one UPDATE per transition, written by chat and judge | two writers, repeated calls | each stage follows from the one before; judgment and reward exactly once |
| Debate chat (`debate-chat`), timers | turns (DB), drafts, de-duplication keys and lock (Redis), timer (memory) | start, restore, draft, finalize, forfeit, expire, boot | lock expiry, timer races, crash between DB and Redis | commands serialised, no draft lost or doubled, the debate ends by itself |
| Turn schedule (`debate-turn.ts`) | none | slots, current turn, the check of a command | four readers of the same rows | one turn per command, the same turns for every reader |
| Judge tasks and worker (`judge/judge-task.*`) | task rows (DB), jobs (Redis), running handlers (memory) | schedule, acquire, time out, settle, recover | late handlers, retries, crashes, rows and jobs drifting apart | one holder per row, bounded attempts, nobody waits for ever |
| Judge service (`judge/judge.service.ts`) | none of its own | start condition, `/judging`, `/judge`, `/judge/retry` | reads and writes on both sides of awaits | the judgment starts once, after every analysis |
| Stage handlers (`judge/*-analyzer`, `fact-checker`, `debate-judge`, `judge-result.repository`) | argument graph, fact checks, judgment | one model call each, validation, then writes | attempts that were given up, overlapping transactions, rounding | edges point back, one reply's graph per turn, a verdict that fits the scores |
| Outcomes (`debate-outcomes`) | credit, system messages, community state | `applyWithin` in the caller's transaction, `announce` after it | repetition, overlapping debates | reward, message and state with the transition or not at all |
| Invitations (`debate-invitations`) | invitation rows, expiry timers | start, accept, reject, expire, boot | accept against expiry, lost timers, row locks | answered once; the room hears what the rows say |
| Communities, memberships | rows, `memberCount`, opinions | join, leave, delete, intent, opinion | counts against rows, stale saves | the count is the number of members |
| Community chat and its gateway | messages, sockets, rooms | connect, replay, send, opinion, close | re-sent messages, replay against broadcast | stored and announced once, nothing missed |
| Members | credit, wins, profile | sign up, update, remove, deduct, reward | entity saves beside atomic updates | every change counts |
| Authentication | refresh tokens | issue, rotate, revoke, reuse detection | concurrent rotation | one active token per session, sessions end for a reason |

Redis, PostgreSQL, BullMQ and the LLM vendors are modelled as far as the code relies on
them: row and key locks, conditional updates, unique indexes, a lock key with a TTL,
a FIFO queue with stalled jobs, a model call that answers, fails or takes too long.

## Modules

| Module | Role |
| --- | --- |
| `DebateLifecycle` | Abstract specification: the debate row, one action per committed transition, with the proof that they settle a debate once. |
| `JudgePipeline` | Task rows, queue, worker, handlers and judge service of one debate. Implements `DebateLifecycle`. |
| `DebateChat` | Turn chat of one debate: lock, load, work, commit, drafts, timer, boot. Implements `DebateLifecycle`. |
| `TurnSchedule` | Slots, current turn and command check, and what every reader derives from the rows. |
| `Evidence` | What the stage handlers read, validate and write, statement by statement. Uses `VerdictRules`. |
| `VerdictRules` | The arithmetic of the verdict: scores, totals, winner, penalties. |
| `InvitationLedger` | Abstract specification: invitations answered at most once. |
| `DebateInvitations` | Invitations, debates and state of one community, with transactions, locks, pool and timers. Implements `InvitationLedger`. |
| `Community` | Memberships, opinions, messages and the WebSocket room of one community. |
| `Accounts` | Members, social credit, refresh tokens. |
| `JudgePipelineProofs`, `DebateChatProofs`, `TurnScheduleProofs`, `EvidenceProofs` (`VerdictRules` as well), `DebateInvitationsProofs`, `CommunityProofs`, `AccountsProofs` | Theorems about them. |
| `MC*` | Values and symmetry for TLC. |

The parts meet in four places.

- *The debate row.* `JudgePipeline` and `DebateChat` are each shown to implement
  `DebateLifecycle`, and each takes the other's writes from there: the pipeline sees
  the chat as `StartDebate`, `ConfirmTurn`, `ConfirmLastTurn`, `Forfeit`, the chat sees
  the pipeline as `JudgeStep`. Besides the row, `onTurnFinalized` and `onDebateEnded`
  pass between them: `announced` and `handedOver` in the chat, `hook` in the pipeline.
- *The handlers.* `JudgePipeline` knows of a handler only when it ends and how;
  `Evidence` opens it up, and keeps of the task row what the handlers' writes depend on.
- *The transition's transaction.* `DebateInvitations` has the end of a debate as one
  call with the statements of `applyWithin`; `Accounts` has the statements that
  reward and fine; `Community` has the message that is announced afterwards.
- *The slots.* `DebateChat` names a turn by a number; `TurnSchedule` shows that a
  command of a speaker is accepted in one turn only, and its `Size` gives the number of
  turns of the chat's runs.

### DebateLifecycle

The columns `debateStatus` and `endReason`, the stored `DebateJudgmentResult` and the
number of `rewardWin` calls committed for the debate. The actions are the conditional
UPDATEs of `judge-result.repository.ts` and the row changes of `debate-chat-state.ts`.

### JudgePipeline

- A task row is named by its target, as (kind, targetId) is unique; `ABSENT` means no row.
- `job` is the BullMQ job with the row's id: none, queued or active. `attemptsMade` is
  BullMQ's counter, `attempt` the row's.
- A run `r \in Run` is one execution of `process()` with its own requestId; `handler`
  is the model call it started, which goes on after the timeout has settled the row.
- `pc` holds the coroutines that evaluate the start condition, request a judgment or
  retry; each of their awaits is a step.
- Merged into one step, since nothing can come between that matters: createIfAbsent and
  enqueue (idempotent; the failure half-way is an action of its own), findById and
  acquire (a COMPLETED row is never left), the loop over turns in `resumeAnalyzers`,
  the reads by which a retry is admitted, the timeout and the write that settles it.
- Which turns are blank is chosen when the debate ends, so that debates with an empty
  turn and one-sided debates are part of every run that allows them (`MaxBlank`).
- After a crash active jobs stall and are run again or dropped (maxStalledCount); the
  boot recovery reclaims any subset of the old rows, as age depends on the clock.
- `LongCooldown` says whether the retry cooldown outlasts the run that failed: the
  configuration allows 0, the default is 300 s.
- `parted` is history: the rows whose job was lost, or is no longer in step with them,
  because a call failed half-way or a retry came before the failed run had returned. A
  boot takes a row out again by queueing it, a retry by resetting it in time.

### DebateChat

- A command is a coroutine with the steps `lock`, `row`, `turns`, `work`, `commit`,
  `redis`, `unlock`, `after`, which are the awaits of `withState` and its caller. The
  reads of drafts and de-duplication keys are the last before the synchronous work and
  are part of it.
- `state[c]` is the command's `DebateChatState`: stage, reason and number of turns.
  `changes[c]` is what `drainChanges` returns: the row, the reward, the confirmed turn,
  the draft.
- `lock` is the Redis key: a command, `Dead` (its holder is gone, the TTL runs) or `None`.
- `timer` is the one timer of the debate: the slot whose deadline is armed, `Retry`
  after lock contention, or `None`.
- Time is the number `overdue` of slots whose deadline has passed: a deadline passes
  only once its slot has begun, and at any moment after that.
- A draft is a model value, its text reduced to "more than blanks" (`Text`); the limit
  of characters counts drafts.
- A refusal (`throw`) saves nothing, not even the start of the debate, and unlocks.
- A failing call throws, but for the pipeline that saves the drafts: `exec()` resolves with
  the errors of its commands in a result nobody reads, so `SaveDraftsFails` goes on as if
  everything had been written. `accepted` is history, the drafts whose senders were
  answered; `lost` and `unrecorded` the drafts whose `rpush`, or `hset`, failed so.

### TurnSchedule

Constant-level: `Slots`, `CurrentSlot`, `Accepted` (the check of a command), the rows a
confirmed turn leaves (`MessageRow`), and what the REST queries (`DebateView`), the
analyzer (`AnalyzedTurn`) and the judge (`Transcript`) find in them.

### Evidence and VerdictRules

- `Attempt` is one run of a handler; `pc` is the await it is at, and every statement of
  a handler outside of a transaction, or the commit of one, is a step. `late` has the
  attempts whose task was given up, `overrun` the targets that ever had one.
- An analysis gets its task in the background of its turn, or from a later `/judge`, at any
  time and in any order (`RegisterAnalysis`). `CreateJudgeTask` counts the tasks there are,
  as `tryStartJudge` does: an analysis without a task does not hold it up and may run beside
  the judgment. `basis` is history, the turns and components that were at rest when the
  JUDGE task was made: those with a task, or inserted, and no handler at them.
- `forgotten` is history: the flagged components a late attempt wrote and then could not
  schedule.
- Ids of components are fresh when `WriteGraph` takes them; `turnOf` and `needsFactCheck`
  are columns, `answer` remembers which reply a row is from; `Ref` stands for the refs a
  model invents.
- A reply is any reply the validation may see: references to earlier or unknown
  arguments, more flagged components than the cap, feedback that is missing.
- `VerdictRules` computes in integers what the code computes in doubles. The one effect
  of the doubles that matters is that some exact halves come out below the half and
  are rounded down (2054 of the 101^3 triples of scores); the constant `RoundsDown` is
  the set of those.

### DebateInvitations

- A coroutine (`co`) is a request, the expiry of an invitation, or the end of a debate.
  `step` is the await it is at; a transaction keeps its changes in `co` and writes them
  at `commit`, so a rollback is `Finish`.
- Row locks are not variables: `InvitationLocked`, `DebateLocked`, `SharesCommunity`,
  `OwnsCommunity` follow from the steps. An INSERT that references the community takes
  `FOR KEY SHARE` on its row, `lockForUpdate` takes `FOR UPDATE`; two transactions that
  share and want to update are a deadlock, of which the database aborts one
  (`DeadlockVictim`).
- A transaction keeps a connection of the pool while `DebatesService.create` reads on
  another one: `ConnectionFree`, `PoolSize`.
- `due` is time; `armed` the timers, which a crash empties; a timer may fire before
  its deadline (`early`), as `setTimeout` counts from a cached clock.
- `told` is what was published to the community room.

### Community

Requests with their awaits, one row per member (deleted by a leave, inserted by a join, or
brought back by a `save` that did not find it), the `memberCount` column, opinions and
messages with their unique keys, sockets that connect, join the room, replay and close.

### Accounts

Member rows, what a request read of them, and the tokens of `refresh-token.service.ts`.
`save` is modelled by what TypeORM does: it selects the row again and writes each column
in which the entity in memory differs from it. Fines and rewards are one point each.

## Runs

| Run | Bounds | Properties | Shows |
| --- | --- | --- | --- |
| `pipeline_rest` | 2 turns, one may be blank, 2 workers, JUDGE retried once, 1 timeout, 1 request | `TypeOK`, `AttemptBudget`, `WaitingIsQueued`, `LifecycleImplemented` | rows and jobs never drift apart while attempts fail and are retried, also when `/judging` or `/judge` registers the same tasks and a handler answers after its timeout |
| `pipeline_recovery` | 2 turns, one may be blank, 1 fact check, 1 run, 1 request of `/judge` or `/judge/retry`, 1 crash or failure | `HolderKeepsRow`, `SettledOnce`, `JudgeOnlyForFinished`, `WaitingIsQueued`, `LifecycleImplemented` | no live run loses its row; judgment and reward once, and only for a debate whose turns all passed; what strands a waiting row is a named failing call or a retry too early, and the boot puts it back |
| `pipeline_live` | 2 turns, 1 fact check, 2 workers, no fault | `FinishedIsPursued`, `EndedDebateSettles` | a finished debate always has a call or a task left to take it further, and is judged or closed, whoever settles last |
| `start_condition` | 2 turns, 2 workers | `JudgeStartsComplete` | violated, see below |
| `evidence` | 2 turns, 3 components (2 a reply), 2 attempts at a time, 1 timeout, crash or analysis registered after the judgment's start | `TypeOK`, `RelationsPointBack`, `OneReplyPerTurn`, `FlaggedIsScheduled`, `ChecksAreKept`, `JudgeReadsWhole`, `VerdictIsFair` | graph, checks and verdict stay consistent through late and repeated attempts and late registrations |
| `chat_turns` | 4 turns, 2 commands, 2 drafts, 3 calls, 1 crash or error | `TypeOK`, `DraftsKeptOnce`, `SettledOnce`, `LifecycleImplemented` | drafts, end and reward survive every race of commands, timer and faults; a draft is lost or doubled only by its own failing write |
| `chat_slow` | 4 turns, 2 commands, 2 calls, 1 expired lock, 2 crashes or errors | `AnnouncedOnce` | turns are confirmed and announced once even without mutual exclusion, and through a restart whose recovery fails |
| `chat_live` | 4 turns, 1 draft, 3 calls, 1 crash | `StartedIsWatched`, `DebateEndsItself` | a started debate always has somebody left to wake it, and ends without anybody's help |
| `invitations` | 2 requests, 2 invitations, 3 debates, 5 calls and failures together | `TypeOK`, `EventsMatchRows`, `CommunityFollowsDebates`, `LedgerImplemented` | an invitation is answered once, the room hears what the rows say, the community follows its debates |
| `invitations_live` | 2 requests, 2 invitations, 2 debates, 3 calls and crashes together | `StaleNeverBlocks`, `PendingIsWatched`, `PendingSettles` | an overdue invitation never blocks a new one; none is left without a timer or stays pending for ever |
| `community` | 2 requests, 1 socket, 2 members at the start, 1 message, 1 notice, replay of 1, 3 calls and failures together | `TypeOK`, `CountFollowsRows`, `SentOnce`, `NothingMissed` | counts, messages and what a client sees agree with the rows |
| `accounts` | 2 requests, 3 accounts, 2 emails, 3 calls and failures together | `TypeOK`, `OneActiveToken`, `SessionsEndForAReason`, `LedgerHolds` | sessions and credit under concurrent calls |

The bounds are the smallest that let the interesting cases meet. Two turns and one component
give two ANALYZER rows, a FACT_CHECK row and the JUDGE row, so that "the last two tasks
settle together" occurs; two workers, requests or attempts are the least that race. Four
slots are the shortest schedule the code builds. Two invitations are a stale one and its
successor; three debates are one by an accept, one by `POST /debates` and one more that
begins while either ends. Three components over two turns, two a reply, give a turn that is
replaced while the other refers to it. Three calls in `community` and `accounts` let a third
call, or a failure, find what two concurrent ones left; a free email lets a sign-up succeed
beside one whose email is taken. The theorems need none of these bounds. Calls, faults,
timeouts and expiries are counted by `MaxRequests`, `MaxCalls`, `MaxFaults`, `MaxTimeouts`,
`MaxExpiries`, `MaxSessions`, which occur in guards and in the sets of numbers given out to
calls, as tokens and opinions are; in `evidence`, `MaxFaults` also counts analyses
registered after the judgment's start. Deadlock is not checked: users may stop, and a bounded
run ends. Symmetry is used in runs without liveness.

### Fairness

Weak fairness of every coroutine: the event loop runs on whatever has no more to wait
for. In the pipeline the queue is FIFO, so a queued job is taken in the end (strong
fairness of taking it), and a model call answers, fails or times out. In the chat
deadlines pass, armed timers fire, the TTL removes a lock nobody releases and the process
is restarted after a crash; the same holds of the invitations' deadlines and timers.
Nothing is assumed of users, of faults, or of the chat in the pipeline.

`DebateEndsItself` and `PendingSettles`, and the invariants `StartedIsWatched` and
`PendingIsWatched`, are checked with crashes but without failing queries: an error in a
timer's handler is logged and no timer is armed, so that a debate waits for the next
connection, as `debate-chat/debate-chat.service.ts:62` says, and an invitation for the next
start. `DebateEndsItself` assumes that drafts come from connected clients.

### The violation

`start_condition`: `announceTurn` starts `onTurnFinalized` and `onDebateEnded` in the
background; the end may read the counts before the last analysis is registered, and the
judgment starts without it (`src/README.md:99`, `judge/judge.service.ts:97`).

### Where the code is weaker than one might expect

The properties say what holds; these are the cases they name and leave out.

Pipeline and chat:
- A row reclaimed after a crash in its last attempt is run once more than its budget.
- A failure between row and job leaves a waiting row without a job. So does a database
  error in `findById` or `acquire`, which costs the job one of its calls and the row none of
  its attempts, so that the job may end first; and `/judge/retry` while the failed run still
  notifies (only without a cooldown), since the old job's id keeps the new one out
  (`judge/judge.service.ts:254`). The next boot queues such a row; `POST /judge` does not, as
  it skips rows that exist (`judge/judge.service.ts:319`), though
  `judge/judge-task.worker.ts:248` says so. `WaitingIsQueued` names these cases.
- A JUDGE task that loses its conditional UPDATE is COMPLETED with nothing stored, and
  `/judge/retry` then finds nothing to retry (`judge/judge.service.ts:239`).
- The errors in the results of `pipeline.exec()` are not read
  (`debate-chat/debate-chat-state.store.ts:240`): a draft whose `rpush` failed is answered
  and broadcast and is gone; one whose `hset` failed is stored, and stored again when the
  client repeats it. `DraftsKeptOnce` names the drafts this happened to and holds for the
  others.
- A draft sent by HTTP as the first access starts the debate and arms no timer
  (`debate-chat/debate-chat.service.ts:129`, against `debates/entities/debate.entity.ts:67`).
- `commit` checks neither the lock nor the stage it loaded: a command slower than the
  lock's 10 s overwrites another's end and the reward is paid twice
  (`debate-chat/debate-chat-state.store.ts:260`). The theorems on the chat therefore
  assume that no lock expires under its holder.

Evidence:
- `replaceTurnGraph` ignores the requestId (`judge/judge-result.repository.ts:157`, against
  `judge/entities/judge-task.entity.ts:50`): an attempt that was given up may write after
  its successor, and two overlapping transactions leave the components of both.
  `OneReplyPerTurn` counts turns written by overlapping attempts apart.
- What a late `replaceTurnGraph` wrote after its successor's has no retry to schedule it:
  when the late attempt's own `schedule` fails, or the process dies before it, the flagged
  components never get a FACT_CHECK task. `FlaggedIsScheduled` names them (`forgotten`).
- The judgment may start without an analysis that has no task yet (`start_condition`). When
  that analysis runs later, it and its checks write between the three queries of the
  judgment, which may read half of it; so may what a late attempt writes.
  `JudgeReadsWhole` promises the rest: every turn and component that was at rest when the
  judgment was started.
- Analysing an earlier turn again erases the edges of later turns to it; edges may name
  components that are gone, since there is no foreign key, and the judge drops those.
- `replaceFactCheck` deletes and saves in two statements: a late attempt may delete what
  its retry has stored; `ChecksAreKept` names that case.
- The range check of `validateJudgment` cannot fail for the totals this scorer computes.

Invitations:
- A community may get two active debates: `start` looks for one, `accept` and
  `POST /debates` do not. The community's state stays right, as `CommunityFollowsDebates`
  says of every debate begun by an invitation.
- If the chat fails to start after the commit, the accepted debate is not announced.

Community:
- A socket that closes during `await assertJoinable` joins the room afterwards and stays
  (`common/ws/ws-heartbeat.ts:8` relies on the opposite).
- `submitOpinion` and the intent save the row they read: a row that a leave deleted
  meanwhile comes back and the count drifts, an opinion saved in between is undone and
  nobody is told. `CountFollowsRows` counts the rows that came back.
- When the answer to a send is lost, the retry is a DUPLICATE and nobody broadcasts; a
  leave is never broadcast.

Members and sessions:
- A save puts back columns that were changed since the read: fines, rewards, a removal;
  two equal fines at once count as one. `LedgerHolds` names the columns put back and
  holds for the others.
- A rotation past its check survives the revocation of all tokens, a logout racing a
  refresh leaves the successor active, and a token refreshed twice ends every session of
  the member. `SessionsEndForAReason` has these as reasons.
- The email of a removed member stays taken.

## Proofs

All theorems hold for every value of the constants that the named assumptions allow.

- `LifecycleSettlesOnce` (`DebateLifecycle`). `SettledOnce` is not inductive: it does
  not say that a judgeable debate is still unpaid. `StageInv` says which reason belongs
  to which stage.
- `PipelineHolders`, `PipelineTypes`: types, `SlotInv` (what a run in each step is known to
  hold) and `HolderKeepsRow`, one induction, since a run writes its row in the belief it
  holds it.
- `PipelineImplementsLifecycle`, `PipelineSettlesOnce`: every step maps to a lifecycle
  step or a stutter; the second follows from the first and `LifecycleSettlesOnce`.
- `JudgeTaskOrigin`: a debate once finished stays so, hence a caller on its way to the
  JUDGE row may trust the stage it read (`JudgeOrigin`).
- `AttemptsBounded`: without faults (`MaxFaults = 0`, a hypothesis) no row is acquired
  beyond its budget, whatever times out (`BudgetInv`).
- `WaitingRowsQueued`: no hypothesis. As long as a row has not parted from its job, no more
  calls of the job have failed than attempts of the row have begun (`Shares`, and strictly
  fewer while a run works on it, `RunShares`), so the job never gives up before the row;
  and a busy run has its job active and to itself (`HeldJobs`), so that a crash leaves a row
  that waits either with its job or already PROCESSING.
- `FinishedHasAPursuer` (`MaxFaults = 0` and no `/judge/retry`; its own `QueueInv` says that
  row and job move together exactly): the last task to settle
  evaluates the start condition, so a finished debate is never left to nobody. It needs
  that a PROCESSING row has a run (`RunsInv`), and of a JUDGE task that has settled that
  the debate has too, or that somebody is about to close it (`JudgeRowInv`). A crash ends
  the calls that evaluate, and the recovery does not repeat them: then it takes a request.
- `ChatTypes`: the type invariant of the turn chat.
- `ChatSerialised`: unless a lock expires under its holder (`MaxExpiries = 0`), a
  command in its work is the lock's holder (`Knows`). The induction also needs that what
  it loaded is still true (`Agrees`), that what it is about to write is a step of the
  lifecycle (`ReadyToCommit`), and that nobody has a draft in a debate that has not
  started (`DraftsAfterStart`): otherwise a debate of one slot could go from READY to
  TOTAL_TIME_EXPIRED.
- `ChatImplementsLifecycle`, `ChatSettlesOnce`: as for the pipeline.
- `ChatAnnouncesOnce`: a turn that is about to be announced is stored, was never
  announced, and belongs to one command (`NewsInv`). This takes no hypothesis: the unique
  place of a turn in the database, not the lock, keeps two commands apart.
- `ChatKeepsDrafts` (`MaxExpiries = 0`: commands that overlap overwrite each other's
  state): a draft that was stored or is recorded lies in one place of one turn (`Kept`,
  `OnePlace`), only the current slot has drafts to confirm, a command at its commit knows
  them, and one that is about to answer its sender has stored the draft, found it stored, or
  failed to without noticing (`KnowsDrafts`; together `DraftsInv`). Failing calls are
  allowed, those of the pipeline included.
- `ChatIsWatched`: a debate in progress has its timer, a boot to come, or a command that
  will arm it. Inductive with the rule that a command which leaves the debate in progress
  also leaves a slot to wait for (`WatchInv`). Its hypotheses are the cases in which the
  code does forget a debate: an error in an expiry is only logged
  (`"error" \notin Failures`), a draft sent by HTTP starts a debate without a timer
  (`~HttpDrafts`), and after an expired lock an expiry may be refused and is not repeated
  (`MaxExpiries = 0`). Crashes are allowed.
- `TurnsAlternate`, `CommandOfOneTurn`, `RowsKeepTheirTurn`, `ReadersAgree`: for every
  number of rounds, from the closed form of the slots; they are what lets `DebateChat`
  name a turn by its number.
- `TotalWithinScores`, `BetterNeverLoses`, `WinnerMirrored` (`EvidenceProofs`): for all
  scores and whatever the rounding does to exact halves. The lemmas say that each stage of
  the scorer is monotone and bounded.
- `EvidenceTypes`, `GraphPointsBack`, `RetriesReplace`, `NoCheckForgotten`, `ResultsStay`,
  `JudgmentIsInformed`: one invariant for the evidence, for any number of turns, replies,
  attempts, timeouts and crashes. Its core is that an attempt that is in time has its task
  PROCESSING and to itself (`Holding`, `OneInTime`), that an id is used once (`FreshIds`),
  and that what an analysis knows and deletes is of earlier turns and of its own
  (`OwnTurn`). From these follow what a half-done handler may rely on: the rows it deletes
  are all its turn has (`Current`), its result is stored (`Saved`). A flagged component
  without a task is on a list, or of a turn whose next reply will delete it (`Listed`). What
  was at rest when the judgment was started stays so: its tasks have ended and no handler
  will have them again (`AtRest`), as every handler writes what is of its own task only;
  `JudgmentReads` says for each of the judgment's queries what that leaves true of what it
  read, while late attempts and analyses registered since write beside it. The cap on checks
  is a counting argument: the number of flagged components before one is an injection below
  the cap.
- `StoredVerdictFair`: what `CompleteJudgment` stores, by `BetterNeverLoses`.
- `InvitationTypes`, `RoomHearsTheRows`, `CommunityIsInStep`, `ServiceKeepsTheLedger`:
  one invariant for the invitations. Neither property is inductive by itself: it takes
  what a coroutine has stored at its step (`Placed`, `Stored`), that the rows an open
  transaction has locked stay as it found them and are its own (`Holding`), that whoever
  holds the community `FOR UPDATE` decides alone and what it read of the debates is still
  so when it commits (`Decided`), and that an invitation's debate exists (`Given`). The
  ledger follows from `Holding` and `Given` at the commit, and from the conditional
  UPDATEs elsewhere. No bound on requests, pool, crashes or failures is used.
- `StartsSweepTheStale` (`"query" \notin Faults`, as the sweep may fail like any query):
  one invitation is PENDING at a time, and the one that was overdue when a start began is
  at each step either the one that start is about to expire or PENDING no more (`SweepInv`).
- `PendingIsNeverForgotten`: every PENDING row has a timer, the expiry its timer started,
  or the start that will arm it (`WatchInv`; `Timely` says an expiry is not early). Failing
  queries and early timers are excluded, as they do leave a row without a timer.
- `CommunityTypes`, `TheCountFollows`, `ToldOnce`, `ClientsMissNothing`: one invariant
  for the community. The count needs that the row of an open transaction is as it found
  it and is locked by it alone (`Locked`). `SentOnce` needs that a call which stored its
  message has not announced it (`Unsaid`). `NothingMissed` says nothing of a client that
  still replays; `Informed` says which of its reads will bring what it lacks. The stale
  saves need that an opinion belongs to one row (`Own`), so that a save which did not find
  its row never writes an opinion back unnoticed.
- `AccountTypes`, `OneActive`, `EndsForAReason`, `LedgerIsRight`: one invariant for members
  and sessions. The sessions need that tokens are issued in order with one left for each
  running call (`Numbered`), that a rotation which has passed its UPDATE holds a token
  nobody has revoked and nobody else holds (`Presents`, `Apart`), and that a session's root
  exists (`Rooted`). The ledger needs what an entity about to be saved (`Saving`), and the
  draft of an open judgment (`Drafted`), may differ in from the row as it is now; drafts
  exclude each other by the row lock (`DraftsApart`).

Every safety property of the passing runs is proved. Only model-checked is liveness
(`EndedDebateSettles`, `DebateEndsItself`, `PendingSettles`): it rests on fairness and
ENABLED, which the prover does not reach. What `FinishedIsPursued`,
`StartedIsWatched` and `PendingIsWatched` say is the safe half of it: in every state
somebody is left to take the next step.

## Not modelled

- Transport and parsing: controllers, DTO validation, filters, JSON frames, the heartbeat.
  They keep no state the components share; what they refuse never reaches a service.
- Queries that only read: lists, searches, results, votes.
- Favorites (`communities/communities.service.ts:302`): one upsert or delete of a row
  nothing else reads.
- Prompts, texts and HTTP of the LLM clients: `Evidence` takes any answer the validation
  may see.
- The OAuth code exchange, password hashing and JWT signing: calls with an answer.
- The clamping of long delays in `common/scheduling/deadline-scheduler.ts`, migrations, seed
  data, metrics and logs.
