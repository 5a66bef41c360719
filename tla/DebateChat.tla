------------------------------ MODULE DebateChat ------------------------------
(***************************************************************************)
(* The turn chat of one debate: DebateChatService, the aggregate           *)
(* DebateChatState and the store that loads and saves it under a lock in   *)
(* Redis, with the timer that ends a turn nobody finishes.                 *)
(*                                                                         *)
(* A command is a coroutine: lock, load, work on the loaded state, commit  *)
(* to the database, save the drafts, unlock, and then arm the timer and    *)
(* announce.  Others run at every await in between.  Turns are numbered    *)
(* from 0 by their place in the schedule; side A speaks in the even ones.  *)
(***************************************************************************)
EXTENDS Naturals, Sequences, FiniteSets

CONSTANTS
    NumTurns,       \* schedule.size
    Command,        \* coroutines alive at once
    Message,        \* drafts clients send, named by their clientMessageId
    Text,           \* those that are more than blanks
    MessageLimit,   \* maxTotalCharacters, counted in messages
    Dead,           \* a lock whose holder died with its process
    None,
    Retry,          \* the timer that tries a contended expiry again
    Ops,            \* the operations users call
    HttpDrafts,     \* drafts also come by HTTP, before anybody connected
    Failures,       \* what may go wrong: "crash", "error"
    MaxRequests,    \* bound: calls of users
    MaxExpiries,    \* bound: locks that expire while their holder works
    MaxFaults       \* bound: crashes and errors

Slot == 0..(NumTurns - 1)

ASSUME ChatAssumption ==
    /\ NumTurns \in Nat \ {0}
    /\ Text \subseteq Message
    /\ MessageLimit \in Nat
    /\ None \notin Command \cup Message \cup Slot
    /\ Dead \notin Command \cup {None}
    /\ Retry \notin Slot \cup {None}
    /\ Ops \subseteq {"restore", "start", "append", "finalize", "forfeit"}
    /\ HttpDrafts \in BOOLEAN
    /\ Failures \subseteq {"crash", "error"}
    /\ MaxRequests \in Nat /\ MaxExpiries \in Nat /\ MaxFaults \in Nat

VARIABLES
    debateStatus, endReason, judgment, rewards,     \* as in DebateLifecycle
    turns,      \* the confirmed turns in the database, each its messages
    drafts,     \* [Slot -> the list under drafts:{turnIndex} in Redis]
    cmids,      \* the clientMessageIds recorded in Redis
    lock,       \* who holds the debate's lock in Redis
    timer,      \* None, the slot whose deadline is armed, or Retry
    overdue,    \* how many slots are past their deadline
    booting,    \* the boot recovery has not run yet
    pc,         \* [Command -> step it is about to take]
    op,         \* [Command -> operation, "refused" once it threw]
    slot,       \* [Command -> the slot a client speaks of]
    message,    \* [Command -> the draft a client sends]
    state,      \* [Command -> its DebateChatState: status, endReason, turns]
    changes,    \* [Command -> what drainChanges will hand out]
    accepted,   \* history: the drafts whose senders were answered
    lost,       \* history: the drafts whose rpush failed
    unrecorded, \* history: the drafts stored while their hset failed
    announced,  \* [Slot -> calls of onTurnFinalized]
    handedOver, \* calls of onDebateEnded
    requests, expiries, faults

debateVars == <<debateStatus, endReason, judgment, rewards>>
storeVars  == <<turns, drafts, cmids, lost, unrecorded>>
callVars   == <<op, slot, message>>
workVars   == <<state, changes>>
toldVars   == <<accepted, announced, handedOver>>
boundVars  == <<requests, expiries, faults>>
vars == <<debateVars, storeVars, lock, timer, overdue, booting, pc, callVars,
          workVars, toldVars, boundVars>>

L == INSTANCE DebateLifecycle
       WITH debateStatus <- debateStatus, endReason <- endReason,
            judgment <- judgment, rewards <- rewards

NoTurn == [confirmed |-> FALSE, content |-> <<>>]
NoChanges ==
    [row |-> FALSE, reward |-> FALSE, turn |-> NoTurn, draft |-> None]
NoState == [status |-> "READY", endReason |-> "none", turns |-> 0]

\* A command's DebateChatState, as far as it decides anything: the turns are
\* those in the database, so their number stands for them.
States == [status : L!DebateStatus, endReason : L!DebateEndReason, turns : 0..NumTurns]

\* What drainChanges hands to the store.
Turns == [confirmed : BOOLEAN, content : Seq(Message)]
Changes == [row : BOOLEAN, reward : BOOLEAN, turn : Turns, draft : Message \cup {None}]

TypeOK ==
    /\ L!TypeOK
    /\ turns \in Seq(Seq(Message)) /\ Len(turns) <= NumTurns
    /\ drafts \in [Slot -> Seq(Message)]
    /\ cmids \subseteq Message
    /\ lock \in Command \cup {None, Dead}
    /\ timer \in Slot \cup {None, Retry}
    /\ overdue \in 0..NumTurns
    /\ booting \in BOOLEAN
    /\ pc \in [Command -> {"idle", "lock", "row", "turns", "work", "commit",
                           "redis", "unlock", "after"}]
    /\ op \in [Command -> {"none", "restore", "start", "append", "finalize",
                           "forfeit", "expire", "refused"}]
    /\ slot \in [Command -> Slot]
    /\ message \in [Command -> Message \cup {None}]
    /\ \A c \in Command : op[c] = "append" => message[c] # None
    /\ state \in [Command -> States]
    /\ changes \in [Command -> Changes]
    /\ accepted \subseteq Message
    /\ lost \subseteq Message /\ unrecorded \subseteq Message
    /\ announced \in [Slot -> Nat]
    /\ handedOver \in Nat
    /\ requests \in 0..MaxRequests
    /\ expiries \in 0..MaxExpiries
    /\ faults \in 0..MaxFaults

Init ==
    /\ L!Init
    /\ turns = <<>>
    /\ drafts = [k \in Slot |-> <<>>]
    /\ cmids = {}
    /\ lock = None
    /\ timer = None
    /\ overdue = 0
    /\ booting = FALSE
    /\ pc = [c \in Command |-> "idle"]
    /\ op = [c \in Command |-> "none"]
    /\ slot = [c \in Command |-> 0]
    /\ message = [c \in Command |-> None]
    /\ state = [c \in Command |-> NoState]
    /\ changes = [c \in Command |-> NoChanges]
    /\ accepted = {} /\ lost = {} /\ unrecorded = {}
    /\ announced = [k \in Slot |-> 0]
    /\ handedOver = 0
    /\ requests = 0 /\ expiries = 0 /\ faults = 0

-----------------------------------------------------------------------------
(* Calls *)

Goto(c, step) == pc' = [pc EXCEPT ![c] = step]

\* The coroutine is over and forgets what it knew.
Forget(c) ==
    /\ Goto(c, "idle")
    /\ op' = [op EXCEPT ![c] = "none"]
    /\ slot' = [slot EXCEPT ![c] = 0]
    /\ message' = [message EXCEPT ![c] = None]
    /\ state' = [state EXCEPT ![c] = NoState]
    /\ changes' = [changes EXCEPT ![c] = NoChanges]

Call(c, o, k, m) ==
    /\ pc[c] = "idle"
    /\ Goto(c, "lock")
    /\ op' = [op EXCEPT ![c] = o]
    /\ slot' = [slot EXCEPT ![c] = k]
    /\ message' = [message EXCEPT ![c] = m]

\* A speaker, or a client that connects.  WebSocket clients connect, and so
\* restore, before they send drafts; HTTP clients need not.
Request(c, o, k, m) ==
    /\ o \in Ops
    /\ ~booting
    /\ requests < MaxRequests /\ requests' = requests + 1
    /\ o = "append" => m # None /\ (HttpDrafts \/ debateStatus # "READY")
    /\ o # "append" => m = None
    /\ o \notin {"append", "finalize"} => k = 0
    /\ Call(c, o, k, m)
    /\ UNCHANGED <<debateVars, storeVars, lock, timer, overdue, booting, workVars,
                   toldVars, expiries, faults>>

\* Time passes: the deadline of a slot that has begun is over.
DeadlinePasses ==
    /\ debateStatus = "IN_PROGRESS"
    /\ overdue < NumTurns /\ overdue <= Len(turns)
    /\ overdue' = overdue + 1
    /\ UNCHANGED <<debateVars, storeVars, lock, timer, booting, pc, callVars,
                   workVars, toldVars, boundVars>>

\* The timer calls expireTurn.
Fire(c) ==
    /\ timer = Retry \/ (timer \in Slot /\ timer < overdue)
    /\ timer' = None
    /\ Call(c, "expire", 0, None)
    /\ UNCHANGED <<debateVars, storeVars, lock, overdue, booting, workVars,
                   toldVars, boundVars>>

-----------------------------------------------------------------------------
(* The lock: SET NX with a TTL, given up after four more attempts *)

\* Mutant: SET without NX.
UnlockedAlways(c) == TRUE

Unlocked(c) == lock = None

AcquireLock(c) ==
    /\ pc[c] = "lock"
    /\ Unlocked(c)
    /\ lock' = c
    /\ Goto(c, "row")
    /\ UNCHANGED <<debateVars, storeVars, timer, overdue, booting, callVars,
                   workVars, toldVars, boundVars>>

\* Mutant: an expiry that finds the debate locked does not try again.
LockBusyNoRetry(c) ==
    /\ pc[c] = "lock"
    /\ lock # None
    /\ Forget(c)
    /\ UNCHANGED <<debateVars, storeVars, lock, timer, overdue, booting, toldVars,
                   boundVars>>

\* FINALIZE_IN_PROGRESS.  A user's command fails; an expiry tries again soon.
LockBusy(c) ==
    /\ pc[c] = "lock"
    /\ lock # None
    /\ timer' = IF op[c] = "expire" THEN Retry ELSE timer
    /\ Forget(c)
    /\ UNCHANGED <<debateVars, storeVars, lock, overdue, booting, toldVars,
                   boundVars>>

\* The script deletes the lock only if it still carries the command's token.
Unlock(c) ==
    /\ pc[c] = "unlock"
    /\ lock' = IF lock = c THEN None ELSE lock
    /\ IF op[c] = "refused" THEN Forget(c)
       ELSE Goto(c, "after") /\ UNCHANGED <<callVars, workVars>>
    /\ UNCHANGED <<debateVars, storeVars, timer, overdue, booting, toldVars,
                   boundVars>>

-----------------------------------------------------------------------------
(* Load and work *)

LoadRow(c) ==
    /\ pc[c] = "row"
    /\ state' = [state EXCEPT ![c].status = debateStatus,
                              ![c].endReason = endReason]
    /\ Goto(c, "turns")
    /\ UNCHANGED <<debateVars, storeVars, lock, timer, overdue, booting, callVars,
                   changes, toldVars, boundVars>>

LoadTurns(c) ==
    /\ pc[c] = "turns"
    /\ state' = [state EXCEPT ![c].turns = Len(turns)]
    /\ Goto(c, "work")
    /\ UNCHANGED <<debateVars, storeVars, lock, timer, overdue, booting, callVars,
                   changes, toldVars, boundVars>>

\* Every access starts a debate that is still READY.
Started(s) ==
    [s EXCEPT !.status = IF s.status = "READY" THEN "IN_PROGRESS" ELSE s.status]

\* The work of a command is synchronous, from the drafts it read last.
Worked(c, s, ch) ==
    /\ Goto(c, "commit")
    /\ state' = [state EXCEPT ![c] = s]
    /\ changes' = [changes EXCEPT ![c] =
                     [ch EXCEPT !.row = ch.row \/ state[c].status = "READY"]]
    /\ UNCHANGED <<debateVars, storeVars, lock, timer, overdue, booting, callVars,
                   toldVars, boundVars>>

\* An exception skips the saving: only the lock is released.
Refused(c) ==
    /\ Goto(c, "unlock")
    /\ op' = [op EXCEPT ![c] = "refused"]
    /\ UNCHANGED <<debateVars, storeVars, lock, timer, overdue, booting, slot,
                   message, workVars, toldVars, boundVars>>

HasSlot(s) == s.status = "IN_PROGRESS" /\ s.turns < NumTurns

\* assertCommandAllowed: the slot the client names is the current one.
Allowed(c) == HasSlot(Started(state[c])) /\ slot[c] = state[c].turns

Restore(c) ==
    /\ op[c] = "restore"
    /\ Worked(c, Started(state[c]), NoChanges)

Start(c) ==
    /\ op[c] = "start"
    /\ IF Started(state[c]).status = "IN_PROGRESS"
         THEN Worked(c, Started(state[c]), NoChanges)
         ELSE Refused(c)

Current(c) == drafts[state[c].turns]

Duplicate(c) == message[c] \in cmids

AppendDraft(c) ==
    /\ op[c] = "append"
    /\ \/ ~Allowed(c) /\ Refused(c)
       \/ /\ Allowed(c)
          /\ Duplicate(c)
          /\ Worked(c, Started(state[c]), NoChanges)
       \/ /\ Allowed(c)
          /\ ~Duplicate(c)
          /\ IF Len(Current(c)) < MessageLimit
               THEN Worked(c, Started(state[c]), [NoChanges EXCEPT !.draft = message[c]])
               ELSE Refused(c)

Spoke(said, side) ==
    \E i \in DOMAIN said : i % 2 = side /\ \E j \in DOMAIN said[i] : said[i][j] \in Text

BothSpoke(said) == Spoke(said, 0) /\ Spoke(said, 1)
SomeoneSpoke(said) == Spoke(said, 0) \/ Spoke(said, 1)

\* confirmTurn, and finishAllTurns when it was the last one.
ConfirmTurn(c) ==
    LET s    == Started(state[c])
        said == Append(SubSeq(turns, 1, s.turns), Current(c))
        next == [s EXCEPT !.turns = s.turns + 1]
        ch   == [NoChanges EXCEPT !.turn = [confirmed |-> TRUE, content |-> Current(c)]]
    IN  \/ s.turns + 1 < NumTurns /\ Worked(c, next, ch)
        \/ /\ s.turns + 1 = NumTurns /\ BothSpoke(said)
           /\ Worked(c, [next EXCEPT !.status = "DEBATE_FINALIZED",
                                     !.endReason = "ALL_TURNS_FINALIZED"],
                     [ch EXCEPT !.row = TRUE])
        \/ /\ s.turns + 1 = NumTurns /\ ~BothSpoke(said)
           /\ Worked(c, [next EXCEPT !.status = "FAILED",
                                     !.endReason = "TOTAL_TIME_EXPIRED"],
                     [ch EXCEPT !.row = TRUE, !.reward = SomeoneSpoke(said)])

FinalizeTurn(c) ==
    /\ op[c] = "finalize"
    /\ IF Allowed(c) /\ Current(c) # <<>> THEN ConfirmTurn(c) ELSE Refused(c)

\* A debate this very access starts has its whole time left.
ExpireTurn(c) ==
    /\ op[c] = "expire"
    /\ IF HasSlot(state[c]) /\ state[c].turns < overdue
         THEN ConfirmTurn(c)
         ELSE Worked(c, Started(state[c]), NoChanges)

\* Mutant: an ended debate can be forfeited.
ForfeitAnyDebate(c) ==
    /\ op[c] = "forfeit"
    /\ Worked(c, [state[c] EXCEPT !.status = "FAILED", !.endReason = "FORFEIT"],
                 [NoChanges EXCEPT !.row = TRUE, !.reward = TRUE])

ForfeitDebate(c) ==
    /\ op[c] = "forfeit"
    /\ IF Started(state[c]).status = "IN_PROGRESS"
         THEN Worked(c, [state[c] EXCEPT !.status = "FAILED", !.endReason = "FORFEIT"],
                     [NoChanges EXCEPT !.row = TRUE, !.reward = TRUE])
         ELSE Refused(c)

Work(c) ==
    /\ pc[c] = "work"
    /\ \/ Restore(c)
       \/ Start(c)
       \/ AppendDraft(c)
       \/ FinalizeTurn(c)
       \/ ExpireTurn(c)
       \/ ForfeitDebate(c)

-----------------------------------------------------------------------------
(* Save *)

\* Mutant: the row is written back even when the command did not change it.
CommitAlways(c) ==
    LET ch == changes[c]  s == state[c] IN
    /\ pc[c] = "commit"
    /\ turns' = IF ch.turn.confirmed THEN Append(turns, ch.turn.content) ELSE turns
    /\ debateStatus' = s.status
    /\ endReason' = s.endReason
    /\ rewards' = IF ch.reward THEN rewards + 1 ELSE rewards
    /\ Goto(c, "redis")
    /\ UNCHANGED <<judgment, drafts, cmids, lost, unrecorded, lock, timer, overdue, booting, callVars,
                   workVars, toldVars, boundVars>>

\* Mutant: no unique index on the place of a turn.
CommitAnyPlace(c) ==
    LET ch == changes[c]  s == state[c] IN
    /\ pc[c] = "commit"
    /\ turns' = IF ch.turn.confirmed THEN Append(turns, ch.turn.content) ELSE turns
    /\ debateStatus' = IF ch.row THEN s.status ELSE debateStatus
    /\ endReason' = IF ch.row THEN s.endReason ELSE endReason
    /\ rewards' = IF ch.reward THEN rewards + 1 ELSE rewards
    /\ Goto(c, "redis")
    /\ UNCHANGED <<judgment, drafts, cmids, lost, unrecorded, lock, timer, overdue, booting, callVars,
                   workVars, toldVars, boundVars>>

\* One transaction: the turn, the row as the command knows it, the outcome.
\* The place of a turn is unique, so a second turn at it rolls all back.
Commit(c) ==
    LET ch == changes[c]  s == state[c] IN
    /\ pc[c] = "commit"
    /\ \/ /\ ch.turn.confirmed /\ Len(turns) # s.turns - 1
          /\ Refused(c)
       \/ /\ ch.turn.confirmed => Len(turns) = s.turns - 1
          /\ turns' = IF ch.turn.confirmed THEN Append(turns, ch.turn.content) ELSE turns
          /\ debateStatus' = IF ch.row THEN s.status ELSE debateStatus
          /\ endReason' = IF ch.row THEN s.endReason ELSE endReason
          /\ rewards' = IF ch.reward THEN rewards + 1 ELSE rewards
          /\ Goto(c, "redis")
          /\ UNCHANGED <<judgment, drafts, cmids, lost, unrecorded, lock, timer, overdue, booting,
                         callVars, workVars, toldVars, boundVars>>

\* One pipeline: the new draft with its id, or the confirmed drafts' key.
SaveDrafts(c) ==
    LET ch == changes[c]  k == state[c].turns IN
    /\ pc[c] = "redis"
    /\ \/ /\ ch.draft # None
          /\ drafts' = [drafts EXCEPT ![k] = Append(@, ch.draft)]
          /\ cmids' = cmids \cup {ch.draft}
       \/ /\ ch.turn.confirmed
          /\ drafts' = [drafts EXCEPT ![k - 1] = <<>>]
          /\ UNCHANGED cmids
       \/ /\ ch.draft = None /\ ~ch.turn.confirmed
          /\ UNCHANGED <<drafts, cmids>>
    /\ Goto(c, "unlock")
    /\ UNCHANGED <<debateVars, turns, lost, unrecorded, lock, timer, overdue, booting,
                   callVars, workVars, toldVars, boundVars>>

\* Mutant: an ended debate keeps a deadline.
DeadlineAlways(s) == s.turns

DeadlineOf(s) == IF HasSlot(s) THEN s.turns ELSE None

Announced(c) ==
    LET s == state[c] IN
    IF ~changes[c].turn.confirmed THEN UNCHANGED <<announced, handedOver>>
    ELSE /\ announced' = [announced EXCEPT ![s.turns - 1] = @ + 1]
         /\ handedOver' = IF s.status = "DEBATE_FINALIZED" THEN handedOver + 1
                                                           ELSE handedOver

\* Back in the service: answer the sender of a draft, stored now or before;
\* arm the timer (a draft leaves it alone) and hand the confirmed turn, or the
\* ended debate, to the pipeline.
After(c) ==
    /\ pc[c] = "after"
    /\ accepted' = IF op[c] = "append" THEN accepted \cup {message[c]} ELSE accepted
    /\ timer' = IF op[c] = "append" THEN timer ELSE DeadlineOf(state[c])
    /\ Announced(c)
    /\ Forget(c)
    /\ UNCHANGED <<debateVars, storeVars, lock, overdue, booting, boundVars>>

-----------------------------------------------------------------------------
(* Faults, restarts and the rest of the world *)

\* The TTL of a lock nobody will release, or of one whose holder is slow.
LockExpires ==
    /\ \/ lock = Dead /\ UNCHANGED expiries
       \/ lock \in Command /\ expiries < MaxExpiries /\ expiries' = expiries + 1
    /\ lock' = None
    /\ UNCHANGED <<debateVars, storeVars, timer, overdue, booting, pc, callVars,
                   workVars, toldVars, requests, faults>>

Fault(kind) ==
    /\ kind \in Failures
    /\ faults < MaxFaults /\ faults' = faults + 1

\* Some of the pipeline's writes fail.  exec() resolves all the same, with the
\* error of each command in a result nobody reads, so the command goes on as
\* if everything had been written.
SaveDraftsFails(c) ==
    LET ch == changes[c]  k == state[c].turns IN
    /\ pc[c] = "redis"
    /\ Fault("error")
    /\ \/ /\ ch.draft # None
          /\ lost' = lost \cup {ch.draft}
          /\ cmids' \in {cmids, cmids \cup {ch.draft}}
          /\ UNCHANGED <<drafts, unrecorded>>
       \/ /\ ch.draft # None
          /\ drafts' = [drafts EXCEPT ![k] = Append(@, ch.draft)]
          /\ unrecorded' = unrecorded \cup {ch.draft}
          /\ UNCHANGED <<cmids, lost>>
       \/ /\ ch.turn.confirmed
          /\ UNCHANGED <<drafts, cmids, lost, unrecorded>>
    /\ Goto(c, "unlock")
    /\ UNCHANGED <<debateVars, turns, lock, timer, overdue, booting, callVars,
                   workVars, toldVars, requests, expiries>>

\* Any other call to Redis or to the database throws.
CommandFails(c) ==
    /\ Fault("error")
    /\ \/ /\ pc[c] = "lock"
          /\ Forget(c)
          /\ UNCHANGED lock
       \/ /\ pc[c] \in {"row", "turns", "work", "commit"}
          /\ Goto(c, "unlock")
          /\ op' = [op EXCEPT ![c] = "refused"]
          /\ UNCHANGED <<lock, slot, message, workVars>>
       \/ /\ pc[c] = "unlock"
          /\ lock' = IF lock = c THEN Dead ELSE lock
          /\ IF op[c] = "refused" THEN Forget(c)
             ELSE Goto(c, "after") /\ UNCHANGED <<callVars, workVars>>
    /\ UNCHANGED <<debateVars, storeVars, timer, overdue, booting, toldVars,
                   requests, expiries>>

Crash ==
    /\ Fault("crash")
    /\ lock' = IF lock = None THEN None ELSE Dead
    /\ timer' = None
    /\ booting' = TRUE
    /\ pc' = [c \in Command |-> "idle"]
    /\ op' = [c \in Command |-> "none"]
    /\ slot' = [c \in Command |-> 0]
    /\ message' = [c \in Command |-> None]
    /\ state' = [c \in Command |-> NoState]
    /\ changes' = [c \in Command |-> NoChanges]
    /\ UNCHANGED <<debateVars, storeVars, overdue, toldVars, requests,
                   expiries>>

\* onApplicationBootstrap: every debate in progress has its turn checked.
Boot(c) ==
    /\ booting
    /\ booting' = FALSE
    /\ IF debateStatus = "IN_PROGRESS" THEN Call(c, "expire", 0, None)
                                       ELSE UNCHANGED <<pc, callVars>>
    /\ UNCHANGED <<debateVars, storeVars, lock, timer, overdue, workVars,
                   toldVars, boundVars>>

BootFails ==
    /\ booting
    /\ Fault("error")
    /\ booting' = FALSE
    /\ UNCHANGED <<debateVars, storeVars, lock, timer, overdue, pc, callVars,
                   workVars, toldVars, requests, expiries>>

\* JudgePipeline, as far as it touches the row.
JudgeStep ==
    /\ \/ L!StartJudging
       \/ L!CompleteJudgment
       \/ L!FailJudgment
       \/ L!RestoreFinalized
    /\ UNCHANGED <<storeVars, lock, timer, overdue, booting, pc, callVars, workVars,
                   toldVars, boundVars>>

CommandStep(c) ==
    \/ AcquireLock(c) \/ LockBusy(c) \/ LoadRow(c) \/ LoadTurns(c)
    \/ Work(c) \/ Commit(c) \/ SaveDrafts(c) \/ Unlock(c) \/ After(c)

Next ==
    \/ \E c \in Command, o \in Ops, k \in Slot, m \in Message \cup {None} :
         Request(c, o, k, m)
    \/ \E c \in Command : CommandStep(c) \/ Fire(c) \/ Boot(c)
    \/ \E c \in Command : CommandFails(c) \/ SaveDraftsFails(c)
    \/ DeadlinePasses
    \/ LockExpires
    \/ Crash
    \/ BootFails
    \/ JudgeStep

Spec == Init /\ [][Next]_vars

(***************************************************************************)
(* The event loop runs every coroutine on, time passes, timers go off, a   *)
(* lock nobody releases expires and a process that died is started again.  *)
(* Users may stop calling.                                                 *)
(***************************************************************************)
Fairness ==
    /\ \A c \in Command : WF_vars(CommandStep(c))
    /\ WF_vars(\E c \in Command : Fire(c))
    /\ WF_vars(\E c \in Command : Boot(c))
    /\ WF_vars(DeadlinePasses)
    /\ WF_vars(lock = Dead /\ LockExpires)

FairSpec == Spec /\ Fairness

-----------------------------------------------------------------------------
(* Properties *)

Occurrences(m, list) == Cardinality({i \in DOMAIN list : list[i] = m})

\* Where a draft can be found: in the confirmed turns, or waiting in the
\* current slot.
Copies(m) ==
    Cardinality({p \in (1..NumTurns) \X (1..MessageLimit) :
                   /\ p[1] \in DOMAIN turns
                   /\ p[2] \in DOMAIN turns[p[1]]
                   /\ turns[p[1]][p[2]] = m})
      + (IF Len(turns) < NumTurns THEN Occurrences(m, drafts[Len(turns)]) ELSE 0)

(***************************************************************************)
(* While its debate goes on, a draft whose sender was answered is in the   *)
(* current slot or in a confirmed turn, and no draft is there twice,       *)
(* however its command raced the confirmation of the turn, and however     *)
(* often the client sent it (debate-chat-state.ts: clientMessageId is      *)
(* judged per debate; debate-chat-state.store.ts: calls for one debate are *)
(* serialised so that append, finalize and timeout do not overlap).  Two   *)
(* cases are left to nobody but Redis: a draft whose rpush failed is       *)
(* answered as stored and may be nowhere, and one whose hset failed is     *)
(* stored again when the client repeats it, as the errors in the           *)
(* pipeline's results are not read.                                        *)
(***************************************************************************)
DraftsKeptOnce ==
    debateStatus = "IN_PROGRESS" =>
      /\ \A m \in accepted \ lost : Copies(m) >= 1
      /\ \A m \in Message \ unrecorded : Copies(m) <= 1

(***************************************************************************)
(* The pipeline hears of a turn once at most, and only of turns that are   *)
(* in the database, even if locks expire and two commands confirm the same *)
(* turn (debate-chat.service.ts: announceTurn is called after the store    *)
(* has committed); it hears of the end once, only if all turns passed and  *)
(* both sides spoke.                                                       *)
(***************************************************************************)
AnnouncedOnce ==
    /\ \A k \in Slot : announced[k] <= IF k < Len(turns) THEN 1 ELSE 0
    /\ handedOver <= IF Len(turns) = NumTurns /\ BothSpoke(turns) THEN 1 ELSE 0

(***************************************************************************)
(* Turns change the debate only as the lifecycle allows: it ends once, and *)
(* no late command writes an old stage over the row.                       *)
(***************************************************************************)
LifecycleImplemented == L!Spec

\* Forfeit, expiry and the last turn race: one of them is settled, once
\* (debate-chat-state.store.ts: this is applied once per debate).
SettledOnce == L!SettledOnce

\* Who arms the timer once more: an expiry whatever it finds, another command
\* that restores or changes the debate once it has saved it.
Rearms(c) ==
    \/ op[c] = "expire"
    \/ op[c] \in {"restore", "start", "finalize"} /\ pc[c] \in {"redis", "unlock", "after"}

(***************************************************************************)
(* A debate in progress is never forgotten: its timer is armed, the boot   *)
(* will check it, or a command under way will arm it, whichever commands   *)
(* meet at its lock, overtake each other between unlock and timer, or die  *)
(* with the process (debate-chat.service.ts: onApplicationBootstrap,       *)
(* expireTurn).                                                            *)
(***************************************************************************)
StartedIsWatched ==
    debateStatus = "IN_PROGRESS" =>
      timer # None \/ booting \/ \E c \in Command : Rearms(c)

(***************************************************************************)
(* A started debate ends by itself even if nobody speaks, across a crash   *)
(* of the process, with whatever commands contending for its lock          *)
(* (debate.entity.ts: turns pass at the interval of the time limit).       *)
(***************************************************************************)
DebateEndsItself == debateStatus = "IN_PROGRESS" ~> debateStatus # "IN_PROGRESS"
=============================================================================
