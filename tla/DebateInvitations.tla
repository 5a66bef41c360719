-------------------------- MODULE DebateInvitations --------------------------
(***************************************************************************)
(* The debates of one community and the invitations that start them:       *)
(* DebateInvitationsService with its expiry timers, DebatesService.create, *)
(* and the transactions in which debates begin and end and the community's *)
(* state follows (DebateOutcomeService.applyWithin).                       *)
(*                                                                         *)
(* A coroutine is a REST request, the expiry of an invitation run by its   *)
(* timer, or the end of a debate run by the chat or the judge.  A step is  *)
(* what happens between two awaits.  A transaction keeps its changes in    *)
(* its coroutine and writes them at "commit"; the row locks it holds       *)
(* follow from the step it is in.                                          *)
(***************************************************************************)
EXTENDS Naturals, FiniteSets

CONSTANTS
    Request,        \* requests and debate ends that run at a time
    Invitation,     \* ids of invitations
    Debate,         \* ids of debates
    None,
    PoolSize,       \* connections of the database pool
    Ops,            \* the calls users make in this configuration
    Faults,         \* what may fail: "crash", "query", "commit", "early"
    MaxRequests,    \* bound: calls and failures together
    MaxFaults       \* bound: crashes and failing queries

Calls == {"start", "accept", "reject", "post", "end", "delete", "leave"}

ASSUME InvitationConstants ==
    /\ Request \cap Invitation = {}
    /\ None \notin Request \cup Invitation \cup Debate
    /\ Ops \subseteq Calls
    /\ Faults \subseteq {"crash", "query", "commit", "early"}
    /\ MaxRequests \in Nat /\ MaxFaults \in Nat
    /\ PoolSize \in Nat \ {0}

\* The expiry of an invitation runs at most once at a time: its id names it.
Coroutine == Request \cup Invitation

VARIABLES
    status,         \* Invitation -> status of its row, "none" before the INSERT
    debateOf,       \* Invitation -> debate_id
    due,            \* invitations whose expires_at has passed
    armed,          \* invitations with a timer in the process
    told,           \* <<event, invitation>> published to the community room
    debate,         \* Debate -> "none", "active" (READY to JUDGING) or "ended"
    community,      \* [deleted, state] of the community row
    guest,          \* participation of the member invited: "none", "preparing", "open"
    co,             \* Coroutine -> where it is and what it has read
    up,             \* the process runs
    calls, faults   \* bounded counters

rows == <<status, debateOf, debate, community, guest>>
vars == <<status, debateOf, due, armed, told, debate, community, guest, co, up,
          calls, faults>>

InvitationStatus == {"none", "PENDING", "ACCEPTED", "REJECTED", "EXPIRED"}

Step == {"idle", "active", "due", "insert", "arm", "update", "create", "apply",
         "lock", "state", "commit", "after", "publish", "reread", "find",
         "move", "expired", "save"}

\* op: the call; inv, deb: what it is about; late: the deadline had passed when
\* it took the time; stale: observer, what was overdue when a start began; next:
\* the community state it has read or decided.
Place == [op : Calls \cup {"none", "expire"}, step : Step,
          inv : Invitation \cup {None}, deb : Debate \cup {None},
          late : BOOLEAN, stale : Invitation \cup {None},
          next : {"WAITING", "ACTIVE"}]

Idle == [op |-> "none", step |-> "idle", inv |-> None, deb |-> None,
         late |-> FALSE, stale |-> None, next |-> "WAITING"]

TypeOK ==
    /\ status \in [Invitation -> InvitationStatus]
    /\ debateOf \in [Invitation -> Debate \cup {None}]
    /\ due \subseteq Invitation
    /\ armed \subseteq Invitation
    /\ told \subseteq {"requested", "started", "rejected", "expired"} \X Invitation
    /\ debate \in [Debate -> {"none", "active", "ended"}]
    /\ community \in [deleted : BOOLEAN, state : {"WAITING", "ACTIVE"}]
    /\ guest \in {"none", "preparing", "open"}
    /\ co \in [Coroutine -> Place]
    /\ up \in BOOLEAN
    /\ calls \in 0..MaxRequests
    /\ faults \in 0..MaxFaults

Init ==
    /\ status = [i \in Invitation |-> "none"]
    /\ debateOf = [i \in Invitation |-> None]
    /\ due = {}
    /\ armed = {}
    /\ told = {}
    /\ debate = [d \in Debate |-> "none"]
    /\ community = [deleted |-> FALSE, state |-> "WAITING"]
    /\ guest \in {"preparing", "open"}
    /\ co = [c \in Coroutine |-> Idle]
    /\ up = TRUE
    /\ calls = 0
    /\ faults = 0

-----------------------------------------------------------------------------
(* Locks, connections and the control of a coroutine *)

InTransaction(c) == co[c].step \in {"create", "apply", "lock", "state", "commit"}

\* The UPDATE of an invitation, or of a debate, locks its row until the end of
\* the transaction.
InvitationLocked(i) ==
    \E c \in Coroutine : InTransaction(c) /\ co[c].op = "accept" /\ co[c].inv = i

DebateLocked(d) ==
    \E c \in Coroutine : InTransaction(c) /\ co[c].op = "end" /\ co[c].deb = d

\* A transaction keeps a connection of the pool, and so does a statement that
\* waits for a locked row; any other query needs a free one.
KeepsConnection(c) ==
    \/ InTransaction(c)
    \/ co[c].step \in {"update", "move"} /\ InvitationLocked(co[c].inv)

ConnectionFree == Cardinality({c \in Coroutine : KeepsConnection(c)}) < PoolSize

\* A row that references the community (a debate, a message) takes its key lock
\* FOR KEY SHARE; lockForUpdate takes it FOR UPDATE, which excludes the former.
SharesCommunity(c) == co[c].step \in {"lock", "state", "commit"}
OwnsCommunity(c) == co[c].step \in {"state", "commit"}
CommunityFree == \A c \in Coroutine : ~OwnsCommunity(c)

Goto(c, step) == co' = [co EXCEPT ![c].step = step]
Finish(c) == co' = [co EXCEPT ![c] = Idle]

At(c, op, step) == up /\ co[c].op = op /\ co[c].step = step

\* A new call of the process, with its first step done.
Begin(r, call) ==
    /\ up
    /\ call.op \in Ops
    /\ co[r] = Idle
    /\ calls + faults < MaxRequests
    /\ ConnectionFree
    /\ calls' = calls + 1
    /\ co' = [co EXCEPT ![r] = call]

Active(d) == debate[d] = "active"

\* findOneOrThrow of the community, by itself or as a join of another read.
CommunityExists == ~community.deleted

\* assertOpenToDebate, and assertParticipant.
OpenToDebate == guest = "open"
Participates == guest # "none"

\* findActiveByCommunity, which joins the community.
ActiveFound == CommunityExists /\ \E d \in Debate : Active(d)

Overdue == {i \in due : status[i] = "PENDING"}

\* An id nobody has used, or is about to use, for a debate.
FreshDebate(d) == debate[d] = "none" /\ \A c \in Coroutine : co[c].deb # d

-----------------------------------------------------------------------------
(* start: the host invites *)

BeginStart(r) ==
    /\ CommunityExists
    /\ OpenToDebate
    /\ \E s \in Invitation \cup {None} :
         /\ IF Overdue = {} THEN s = None ELSE s \in Overdue
         /\ Begin(r, [Idle EXCEPT !.op = "start", !.step = "active", !.stale = s])
    /\ UNCHANGED <<rows, due, armed, told, up, faults>>

\* assertNoActiveDebate
CheckActive(r) ==
    /\ At(r, "start", "active")
    /\ ConnectionFree
    /\ IF ActiveFound
       THEN Finish(r)
       ELSE Goto(r, "due")
    /\ UNCHANGED <<rows, due, armed, told, up, calls, faults>>

\* Mutation: start relies on the timers and does not call expireDue.
FindDueSkipped(r) ==
    /\ At(r, "start", "due")
    /\ Goto(r, "insert")
    /\ UNCHANGED <<rows, due, armed, told, up, calls, faults>>

\* expireDue reads what should have expired; the partial index leaves at most
\* one PENDING invitation, which the loop then expires.
FindDue(r) ==
    /\ At(r, "start", "due")
    /\ ConnectionFree
    /\ \/ Overdue = {} /\ Goto(r, "insert")
       \/ \E i \in Overdue : co' = [co EXCEPT ![r].inv = i, ![r].step = "find"]
    /\ UNCHANGED <<rows, due, armed, told, up, calls, faults>>

\* DEBATE_INVITATION_PENDING_UNIQUE refuses a second PENDING row.
InsertInvitation(r) ==
    /\ At(r, "start", "insert")
    /\ ConnectionFree
    /\ IF \E i \in Invitation : status[i] = "PENDING"
       THEN Finish(r) /\ UNCHANGED status
       ELSE \E i \in Invitation :
              /\ status[i] = "none"
              /\ status' = [status EXCEPT ![i] = "PENDING"]
              /\ co' = [co EXCEPT ![r].inv = i, ![r].step = "arm"]
    /\ UNCHANGED <<debateOf, debate, community, guest, due, armed, told, up, calls,
                   faults>>

\* The timer is armed, then the host is read and the invited member told.
ArmTimer(r) ==
    /\ At(r, "start", "arm")
    /\ armed' = armed \cup {co[r].inv}
    /\ Goto(r, "publish")
    /\ UNCHANGED <<rows, due, told, up, calls, faults>>

PublishRequested(r) ==
    /\ At(r, "start", "publish")
    /\ told' = told \cup {<<"requested", co[r].inv>>}
    /\ Finish(r)
    /\ UNCHANGED <<rows, due, armed, up, calls, faults>>

-----------------------------------------------------------------------------
(* accept and reject: the invited member answers *)

\* findOneOrThrow, assertInvitee; the time is taken before the transaction.
BeginAnswer(r, i, op) ==
    /\ op \in {"accept", "reject"}
    /\ <<"requested", i>> \in told
    /\ op = "accept" => CommunityExists
    /\ Begin(r, [Idle EXCEPT !.op = op, !.step = "update", !.inv = i,
                             !.late = i \in due])
    /\ UNCHANGED <<rows, due, armed, told, up, faults>>

\* The conditional UPDATE of an answer: PENDING, and not late.
AnswerWins(r) == status[co[r].inv] = "PENDING" /\ ~co[r].late

\* accept opens a transaction, whose UPDATE waits for the row of a rival.
AcceptUpdate(r) ==
    /\ At(r, "accept", "update")
    /\ ConnectionFree
    /\ ~InvitationLocked(co[r].inv)
    /\ Goto(r, IF AnswerWins(r) THEN "create" ELSE "reread")
    /\ UNCHANGED <<rows, due, armed, told, up, calls, faults>>

\* DebatesService.create: the community and both speakers are read once more,
\* on a second connection; then the debate and its message are inserted.
CreateDebate(r) ==
    /\ At(r, "accept", "create")
    /\ ConnectionFree
    /\ IF ~(CommunityExists /\ Participates)
       THEN Finish(r)
       ELSE /\ CommunityFree
            /\ \E d \in Debate :
                 /\ FreshDebate(d)
                 /\ co' = [co EXCEPT ![r].deb = d, ![r].step = "lock"]
    /\ UNCHANGED <<rows, due, armed, told, up, calls, faults>>

\* After the commit: the timer is cleared, the debate started by the chat.
AfterAccept(r) ==
    /\ At(r, "accept", "after")
    /\ armed' = armed \ {co[r].inv}
    /\ Goto(r, "publish")
    /\ UNCHANGED <<rows, due, told, up, calls, faults>>

\* DebateChatService.start and findDetail read the debate with its community.
PublishStarted(r) ==
    /\ At(r, "accept", "publish")
    /\ ConnectionFree
    /\ told' = IF CommunityExists THEN told \cup {<<"started", co[r].inv>>}
               ELSE told
    /\ Finish(r)
    /\ UNCHANGED <<rows, due, armed, up, calls, faults>>

\* Mutation: the UPDATE of reject asks for the deadline and not for the status.
RejectUpdateAlways(r) ==
    /\ At(r, "reject", "update")
    /\ ConnectionFree
    /\ ~InvitationLocked(co[r].inv)
    /\ IF ~co[r].late
       THEN /\ status' = [status EXCEPT ![co[r].inv] = "REJECTED"]
            /\ Goto(r, "publish")
       ELSE Goto(r, "reread") /\ UNCHANGED status
    /\ UNCHANGED <<debateOf, debate, community, guest, due, armed, told, up, calls,
                   faults>>

\* reject is one statement; it waits for an accept that holds the row.
RejectUpdate(r) ==
    /\ At(r, "reject", "update")
    /\ ConnectionFree
    /\ ~InvitationLocked(co[r].inv)
    /\ IF AnswerWins(r)
       THEN /\ status' = [status EXCEPT ![co[r].inv] = "REJECTED"]
            /\ Goto(r, "publish")
       ELSE Goto(r, "reread") /\ UNCHANGED status
    /\ UNCHANGED <<debateOf, debate, community, guest, due, armed, told, up, calls,
                   faults>>

PublishRejected(r) ==
    /\ At(r, "reject", "publish")
    /\ armed' = armed \ {co[r].inv}
    /\ told' = told \cup {<<"rejected", co[r].inv>>}
    /\ Finish(r)
    /\ UNCHANGED <<rows, due, up, calls, faults>>

\* throwResponseFailure: a late answer to a PENDING invitation expires it.
RereadInvitation(r) ==
    /\ up
    /\ co[r].step = "reread"
    /\ ConnectionFree
    /\ IF status[co[r].inv] = "PENDING" THEN Goto(r, "find") ELSE Finish(r)
    /\ UNCHANGED <<rows, due, armed, told, up, calls, faults>>

-----------------------------------------------------------------------------
(* expire: by the timer, for a start, or for an answer that came too late *)

\* Errors and lost races end here: a start goes on, everyone else is done.
ExpireDone(c) ==
    co' = [co EXCEPT ![c] = IF @.op = "start"
                            THEN [@ EXCEPT !.step = "insert", !.inv = None, !.late = FALSE]
                            ELSE Idle]

ExpireFind(c) ==
    /\ up
    /\ co[c].step = "find"
    /\ ConnectionFree
    /\ co' = [co EXCEPT ![c].step = "move", ![c].late = co[c].inv \in due]
    /\ UNCHANGED <<rows, due, armed, told, up, calls, faults>>

\* Mutation: expire publishes whether or not its UPDATE moved the row.
ExpireMoveLoud(c) ==
    /\ up
    /\ co[c].step = "move"
    /\ ConnectionFree
    /\ ~InvitationLocked(co[c].inv)
    /\ status' = IF status[co[c].inv] = "PENDING" /\ co[c].late
                 THEN [status EXCEPT ![co[c].inv] = "EXPIRED"]
                 ELSE status
    /\ Goto(c, "expired")
    /\ UNCHANGED <<debateOf, debate, community, guest, due, armed, told, up, calls,
                   faults>>

\* The conditional UPDATE of an expiry: PENDING, and past the deadline.
ExpireMove(c) ==
    /\ up
    /\ co[c].step = "move"
    /\ ConnectionFree
    /\ ~InvitationLocked(co[c].inv)
    /\ IF status[co[c].inv] = "PENDING" /\ co[c].late
       THEN /\ status' = [status EXCEPT ![co[c].inv] = "EXPIRED"]
            /\ Goto(c, "expired")
       ELSE ExpireDone(c) /\ UNCHANGED status
    /\ UNCHANGED <<debateOf, debate, community, guest, due, armed, told, up, calls,
                   faults>>

PublishExpired(c) ==
    /\ up
    /\ co[c].step = "expired"
    /\ told' = told \cup {<<"expired", co[c].inv>>}
    /\ ExpireDone(c)
    /\ UNCHANGED <<rows, due, armed, up, calls, faults>>

-----------------------------------------------------------------------------
(* The end of a debate, and the tail its transaction shares with accept *)

\* The conditional UPDATE that ends the debate, by the chat or by the judge.
BeginEnd(r, d) ==
    /\ Active(d)
    /\ ~DebateLocked(d)
    /\ Begin(r, [Idle EXCEPT !.op = "end", !.step = "apply", !.deb = d])
    /\ UNCHANGED <<rows, due, armed, told, up, faults>>

\* applyWithin reads the debate with its community, then stores the message.
ApplyOutcome(r) ==
    /\ At(r, "end", "apply")
    /\ IF CommunityExists
       THEN CommunityFree /\ Goto(r, "lock")
       ELSE Finish(r)
    /\ UNCHANGED <<rows, due, armed, told, up, calls, faults>>

\* Mutation: the community is read without a lock.
LockCommunityShared(c) ==
    /\ up
    /\ co[c].step = "lock"
    /\ Goto(c, "state")
    /\ UNCHANGED <<rows, due, armed, told, up, calls, faults>>

\* lockForUpdate
LockCommunity(c) ==
    /\ up
    /\ co[c].step = "lock"
    /\ \A o \in Coroutine \ {c} : ~SharesCommunity(o)
    /\ Goto(c, "state")
    /\ UNCHANGED <<rows, due, armed, told, up, calls, faults>>

\* existsActiveByCommunity sees the committed rows and the transaction's own.
ReadState(c) ==
    /\ up
    /\ co[c].step = "state"
    /\ LET exists == \/ co[c].op = "accept"
                     \/ \E d \in Debate : Active(d) /\ d # co[c].deb
       IN  co' = [co EXCEPT ![c].step = "commit",
                            ![c].next = IF exists THEN "ACTIVE" ELSE "WAITING"]
    /\ UNCHANGED <<rows, due, armed, told, up, calls, faults>>

\* What the transaction leaves when it commits.
Written(c) ==
    /\ community' = IF CommunityExists
                    THEN [community EXCEPT !.state = co[c].next]
                    ELSE community
    /\ IF co[c].op = "accept"
       THEN /\ status' = [status EXCEPT ![co[c].inv] = "ACCEPTED"]
            /\ debateOf' = [debateOf EXCEPT ![co[c].inv] = co[c].deb]
            /\ debate' = [debate EXCEPT ![co[c].deb] = "active"]
       ELSE /\ debate' = [debate EXCEPT ![co[c].deb] = "ended"]
            /\ UNCHANGED <<status, debateOf>>

Commit(c) ==
    /\ up
    /\ co[c].step = "commit"
    /\ Written(c)
    /\ IF co[c].op = "accept" THEN Goto(c, "after") ELSE Finish(c)
    /\ UNCHANGED <<guest, due, armed, told, up, calls, faults>>

\* Two transactions that share the community row and both want it for update:
\* the database aborts one of them.
DeadlockVictim(c) ==
    /\ up
    /\ co[c].step = "lock"
    /\ \E o \in Coroutine \ {c} : co[o].step = "lock"
    /\ Finish(c)
    /\ UNCHANGED <<rows, due, armed, told, up, calls, faults>>

-----------------------------------------------------------------------------
(* Other calls *)

\* POST /debates looks at the participants only.
BeginPost(r) ==
    /\ CommunityExists
    /\ Participates
    /\ Begin(r, [Idle EXCEPT !.op = "post", !.step = "save"])
    /\ UNCHANGED <<rows, due, armed, told, up, faults>>

SavePost(r) ==
    /\ At(r, "post", "save")
    /\ ConnectionFree
    /\ CommunityFree
    /\ \E d \in Debate :
         /\ FreshDebate(d)
         /\ debate' = [debate EXCEPT ![d] = "active"]
    /\ Finish(r)
    /\ UNCHANGED <<status, debateOf, community, guest, due, armed, told, up, calls,
                   faults>>

BeginDelete(r) ==
    /\ CommunityExists
    /\ Begin(r, [Idle EXCEPT !.op = "delete", !.step = "save",
                             !.next = community.state])
    /\ UNCHANGED <<rows, due, armed, told, up, faults>>

\* Mutation: the resource status goes into the column of the community's state.
SaveDeleteState(r) ==
    /\ At(r, "delete", "save")
    /\ ConnectionFree
    /\ CommunityFree
    /\ community' = [community EXCEPT !.state = "DELETED"]
    /\ Finish(r)
    /\ UNCHANGED <<status, debateOf, debate, guest, due, armed, told, up, calls,
                   faults>>

\* save writes every column that differs from the row it finds by now.
SaveDelete(r) ==
    /\ At(r, "delete", "save")
    /\ ConnectionFree
    /\ CommunityFree
    /\ community' = [deleted |-> TRUE, state |-> co[r].next]
    /\ Finish(r)
    /\ UNCHANGED <<status, debateOf, debate, guest, due, armed, told, up, calls,
                   faults>>

\* The invited member joins, leaves or changes the intent to debate.
GuestChanges(to) ==
    /\ up
    /\ "leave" \in Ops
    /\ CommunityExists
    /\ <<guest, to>> \in {<<"none", "preparing">>, <<"preparing", "open">>,
                          <<"open", "preparing">>, <<"preparing", "none">>,
                          <<"open", "none">>}
    /\ guest' = to
    /\ UNCHANGED <<status, debateOf, debate, community, due, armed, told, co, up,
                   calls, faults>>

-----------------------------------------------------------------------------
(* Time, timers, restarts and failures *)

DeadlinePasses(i) ==
    /\ i \notin due
    /\ status[i] = "PENDING" \/ i \in armed
    /\ due' = due \cup {i}
    /\ UNCHANGED <<rows, armed, told, co, up, calls, faults>>

\* setTimeout counts from the event loop's clock, which lags behind: it may fire
\* a little before the deadline ("early").
FireTimer(i) ==
    /\ up
    /\ i \in armed
    /\ co[i] = Idle
    /\ \/ i \in due /\ UNCHANGED faults
       \/ /\ i \notin due
          /\ "early" \in Faults
          /\ faults < MaxFaults
          /\ calls + faults < MaxRequests
          /\ faults' = faults + 1
    /\ armed' = armed \ {i}
    /\ co' = [co EXCEPT ![i] = [Idle EXCEPT !.op = "expire", !.step = "find",
                                            !.inv = i]]
    /\ UNCHANGED <<rows, due, told, up, calls>>

\* A crash ends every coroutine; open transactions roll back, timers are gone.
Crash ==
    /\ up
    /\ "crash" \in Faults
    /\ faults < MaxFaults
    /\ calls + faults < MaxRequests
    /\ faults' = faults + 1
    /\ up' = FALSE
    /\ armed' = {}
    /\ co' = [c \in Coroutine |-> Idle]
    /\ UNCHANGED <<rows, due, told, calls>>

\* Mutation: the boot restores no timer.
BootWithoutTimers ==
    /\ ~up
    /\ up' = TRUE
    /\ UNCHANGED <<rows, due, armed, told, co, calls, faults>>

\* onApplicationBootstrap arms a timer per PENDING row; its query may fail.
Boot ==
    /\ ~up
    /\ up' = TRUE
    /\ \/ /\ armed' = {i \in Invitation : status[i] = "PENDING"}
          /\ UNCHANGED faults
       \/ /\ "query" \in Faults
          /\ faults < MaxFaults
          /\ calls + faults < MaxRequests
          /\ faults' = faults + 1
          /\ UNCHANGED armed
    /\ UNCHANGED <<rows, due, told, co, calls>>

\* A query throws: its transaction, if it has one, rolls back.  expire logs the
\* error and returns.
QueryFails(c) ==
    /\ up
    /\ "query" \in Faults
    /\ faults < MaxFaults
    /\ calls + faults < MaxRequests
    /\ faults' = faults + 1
    /\ \/ co[c].step \in {"active", "due", "insert", "update", "create", "apply",
                          "lock", "state", "commit", "reread", "save"} /\ Finish(c)
       \/ co[c].step = "publish" /\ co[c].op # "reject" /\ Finish(c)
       \/ co[c].step \in {"find", "move"} /\ ExpireDone(c)
    /\ UNCHANGED <<rows, due, armed, told, up, calls>>

\* The transaction commits, but its answer is lost: the caller sees an error.
CommitAnswerLost(c) ==
    /\ up
    /\ "commit" \in Faults
    /\ faults < MaxFaults
    /\ calls + faults < MaxRequests
    /\ faults' = faults + 1
    /\ co[c].step = "commit"
    /\ Written(c)
    /\ Finish(c)
    /\ UNCHANGED <<guest, due, armed, told, up, calls>>

-----------------------------------------------------------------------------
(* Specification *)

\* What the event loop runs on by itself once a call has arrived.
Continue(c) ==
    \/ CheckActive(c) \/ FindDue(c) \/ InsertInvitation(c) \/ ArmTimer(c)
    \/ PublishRequested(c)
    \/ AcceptUpdate(c) \/ CreateDebate(c) \/ AfterAccept(c) \/ PublishStarted(c)
    \/ RejectUpdate(c) \/ PublishRejected(c) \/ RereadInvitation(c)
    \/ ExpireFind(c) \/ ExpireMove(c) \/ PublishExpired(c)
    \/ ApplyOutcome(c) \/ LockCommunity(c) \/ ReadState(c) \/ Commit(c)
    \/ DeadlockVictim(c)
    \/ SavePost(c) \/ SaveDelete(c)

Arrive(r) ==
    \/ BeginStart(r)
    \/ \E i \in Invitation, op \in {"accept", "reject"} : BeginAnswer(r, i, op)
    \/ \E d \in Debate : BeginEnd(r, d)
    \/ BeginPost(r)
    \/ BeginDelete(r)

Next ==
    \/ \E r \in Request : Arrive(r)
    \/ \E c \in Coroutine : Continue(c) \/ QueryFails(c) \/ CommitAnswerLost(c)
    \/ \E to \in {"none", "preparing", "open"} : GuestChanges(to)
    \/ \E i \in Invitation : DeadlinePasses(i) \/ FireTimer(i)
    \/ Crash
    \/ Boot

Spec == Init /\ [][Next]_vars

\* Time passes, timers fire, the process is restarted, coroutines run on.
FairSpec ==
    /\ Spec
    /\ \A c \in Coroutine : WF_vars(Continue(c))
    /\ \A i \in Invitation : WF_vars(DeadlinePasses(i)) /\ WF_vars(FireTimer(i))
    /\ WF_vars(Boot)

-----------------------------------------------------------------------------
(* Properties *)

(***************************************************************************)
(* Answered once: accept, reject and expire race for the same row, with    *)
(* transactions, late answers, timers that fire again after a restart, and *)
(* lost commits; yet an invitation is answered at most once and has a      *)
(* debate of its own exactly when it was accepted.                         *)
(***************************************************************************)
Ledger == INSTANCE InvitationLedger
            WITH answer <- status, debateOf <- debateOf
LedgerImplemented == Ledger!Spec

(***************************************************************************)
(* What the room was told is what the rows say: the flow that lost the     *)
(* race publishes nothing, and nothing is published before it is stored    *)
(* (the reason the code gives for InvitationTransitionLost).               *)
(***************************************************************************)
EventsMatchRows ==
    \A i \in Invitation :
        /\ <<"requested", i>> \in told => status[i] # "none"
        /\ <<"started", i>> \in told => status[i] = "ACCEPTED"
        /\ <<"rejected", i>> \in told => status[i] = "REJECTED"
        /\ <<"expired", i>> \in told => status[i] = "EXPIRED"

(***************************************************************************)
(* syncCommunityState: a community that exists is never ACTIVE without an  *)
(* active debate, and is ACTIVE as long as a debate begun by an invitation *)
(* is, although begins and ends of several debates overlap.                *)
(***************************************************************************)
CommunityFollowsDebates ==
    CommunityExists =>
        /\ community.state = "ACTIVE" => \E d \in Debate : Active(d)
        /\ (\E i \in Invitation : debateOf[i] # None /\ Active(debateOf[i]))
             => community.state = "ACTIVE"

(***************************************************************************)
(* expireDue: an invitation that was overdue when a start began does not   *)
(* stand in the way of the new one, even if its timer was lost.            *)
(***************************************************************************)
StaleNeverBlocks ==
    \A r \in Request :
        co[r].op = "start" /\ co[r].step = "insert" /\ co[r].stale # None
            => status[co[r].stale] # "PENDING"

\* What will expire an invitation: its timer, the coroutine its timer started,
\* or first the start that is about to arm the timer.
Watched(i) ==
    \/ i \in armed
    \/ co[i].op = "expire" /\ co[i].step \in {"find", "move"}
    \/ \E c \in Coroutine : co[c].op = "start" /\ co[c].step = "arm" /\ co[c].inv = i

(***************************************************************************)
(* No PENDING invitation of a running process is forgotten: through every  *)
(* restart, answer and lost race, something of the process will expire it, *)
(* as long as no query fails and no timer fires early (the reason for      *)
(* onApplicationBootstrap: timers do not survive the process).             *)
(***************************************************************************)
PendingIsWatched ==
    up => \A i \in Invitation : status[i] = "PENDING" => Watched(i)

(***************************************************************************)
(* Nobody waits for ever: an invitation is answered or expires, through    *)
(* restarts, as long as no query fails and no timer fires early.           *)
(***************************************************************************)
PendingSettles ==
    \A i \in Invitation : status[i] = "PENDING" ~> status[i] # "PENDING"
==============================================================================
