------------------------------- MODULE Community -------------------------------
(***************************************************************************)
(* One community: the rows of its members with their opinions and intents, *)
(* the number of members kept beside them, its messages, and the room of   *)
(* WebSockets that is told of all this (CommunitiesService,                *)
(* MemberCommunitiesService, CommunityChatService, CommunityChatGateway,   *)
(* CommunityChatPublisher and WsRooms).                                    *)
(*                                                                         *)
(* A coroutine is a REST request or a WebSocket command; a step is what    *)
(* happens between two awaits.  A connecting socket runs handleConnection  *)
(* as a coroutine of its own.                                              *)
(***************************************************************************)
EXTENDS Integers, FiniteSets

CONSTANTS
    Request,        \* calls that run at a time
    Socket,
    Member,
    Host,           \* the member who opened the community
    Joined,         \* members at the start, Host among them
    Message,        \* clientMessageIds of members
    Notice,         \* clientMessageIds of the system messages of debates
    None,
    Ops,            \* the calls of this configuration
    Faults,         \* what may fail: "crash", "query", "commit"
    ReplayLimit,    \* REPLAY_MESSAGE_LIMIT
    MaxCalls,       \* bound: calls and failures together
    MaxSessions,    \* bound: connections
    MaxFaults       \* bound: failures

Calls == {"join", "leave", "opinion", "intent", "send", "notice", "delete"}

ASSUME CommunityConstants ==
    /\ Joined \subseteq Member
    /\ Host \in Joined
    /\ Message \cap Notice = {}
    /\ None \notin Socket \cup Member \cup Message \cup Notice
    /\ IsFiniteSet(Member) /\ IsFiniteSet(Message) /\ IsFiniteSet(Notice)
    /\ Ops \subseteq Calls
    /\ Faults \subseteq {"crash", "query", "commit"}
    /\ ReplayLimit \in Nat \ {0}
    /\ MaxCalls \in Nat /\ MaxSessions \in Nat /\ MaxFaults \in Nat

Text == Message \cup Notice

VARIABLES
    alive,          \* the community's status is NORMAL
    memberCount,
    row,            \* Member -> its member_community row
    lastId,         \* ids given to rows
    revived,        \* observer: rows that a save brought back
    stored,         \* Text -> createdAt of the message row, 0 for none
    clock,          \* number of timestamps taken
    sent,           \* observer: Text -> how often the room was told of it
    unheard,        \* observer: what was stored without the room being told
    room,           \* sockets of the room, in the process
    sock,           \* Socket -> its connection
    co,             \* Request -> where it is and what it has read
    sessions, calls, faults     \* bounded counters

rows == <<alive, memberCount, row, lastId, revived, stored, clock>>
told == <<sent, unheard>>
bounds == <<sessions, calls, faults>>
vars == <<rows, told, room, sock, co, bounds>>

\* An opinion is known by the call that wrote it; 0 is none, 1 the host's claim.
Opinion == 0..MaxCalls + 1

Row == [id : Nat, opinion : Opinion, open : BOOLEAN]
NoRow == [id |-> 0, opinion |-> 0, open |-> FALSE]

Participates(m) == row[m].id # 0

\* What an event is about: a message, or an opinion of a member.
Item == Text \cup Member \X Opinion
ASSUME ItemsAreTold == Text \cap (Member \X Opinion) = {}

\* step: of handleConnection; ready: readyState is OPEN; left: handleDisconnect
\* has run; todo, batch: the replay; got: what reached the client.
NoSocket == [step |-> "none", ready |-> FALSE, left |-> TRUE, todo |-> {},
             batch |-> {}, got |-> {}]

\* write: the opinion a submit writes; seen: the entity it saves; stale: columns
\* the save found to differ; fresh: the message was STORED; time: its createdAt,
\* or the memberCount that delete loaded.
Idle == [op |-> "none", step |-> "idle", who |-> None, via |-> None,
         text |-> None, write |-> 0, seen |-> NoRow, found |-> FALSE,
         stale |-> {}, fresh |-> FALSE, time |-> 0]

Place == [op : Calls \cup {"none"},
          step : {"idle", "insert", "delete", "commit", "read", "select", "write",
                  "check", "store", "announce", "save"},
          who : Member \cup {None}, via : Socket \cup {None},
          text : Text \cup {None}, write : Opinion, seen : Row, found : BOOLEAN,
          stale : SUBSET {"opinion", "open"}, fresh : BOOLEAN, time : Int]

Connected == [step : {"none", "check", "replay", "open", "refused"},
              ready : BOOLEAN, left : BOOLEAN,
              todo : SUBSET {"messages", "opinions"},
              batch : SUBSET Item, got : SUBSET Item]

TypeOK ==
    /\ alive \in BOOLEAN
    /\ memberCount \in Int
    /\ row \in [Member -> Row]
    /\ lastId \in Nat \ {0}
    /\ revived \in Nat
    /\ stored \in [Text -> Nat]
    /\ clock \in Nat
    /\ sent \in [Text -> Nat]
    /\ unheard \subseteq Item
    /\ room \subseteq Socket
    /\ sock \in [Socket -> Connected]
    /\ co \in [Request -> Place]
    /\ sessions \in 0..MaxSessions
    /\ calls \in 0..MaxCalls
    /\ faults \in 0..MaxFaults

\* CommunitiesService.create: the community and the host's row with an opinion;
\* and those who joined it since.  Ids are only compared within a member.
Init ==
    /\ alive = TRUE
    /\ memberCount = Cardinality(Joined)
    /\ row = [m \in Member |->
                [id |-> IF m \in Joined THEN 1 ELSE 0,
                 opinion |-> IF m = Host THEN 1 ELSE 0, open |-> FALSE]]
    /\ lastId = 1
    /\ revived = 0
    /\ stored = [t \in Text |-> 0]
    /\ clock = 0
    /\ sent = [t \in Text |-> 0]
    /\ unheard = {}
    /\ room = {}
    /\ sock = [s \in Socket |-> NoSocket]
    /\ co = [r \in Request |-> Idle]
    /\ sessions = 0 /\ calls = 0 /\ faults = 0

-----------------------------------------------------------------------------
(* The control of a coroutine *)

Goto(r, step) == co' = [co EXCEPT ![r].step = step]
Finish(r) == co' = [co EXCEPT ![r] = Idle]

At(r, step) == co[r].step = step

\* A call arrives; all of them read the community first (findOneOrThrow).
Begin(r, call) ==
    /\ alive
    /\ co[r] = Idle
    /\ call.op \in Ops
    /\ calls + faults < MaxCalls
    /\ calls' = calls + 1
    /\ co' = [co EXCEPT ![r] = call]
    /\ UNCHANGED <<sessions, faults>>

\* A command comes by HTTP, or from a socket whose communityId is set.
Via == {s \in Socket : sock[s].ready /\ sock[s].step \in {"replay", "open"}}
         \cup {None}

-----------------------------------------------------------------------------
(* joinMe and leaveMe: the row and the count in one transaction *)

\* A row inserted or deleted stays locked until its transaction ends.
RowLocked(m) ==
    \E r \in Request : At(r, "commit") /\ co[r].who = m

BeginJoin(r, m) ==
    /\ Begin(r, [Idle EXCEPT !.op = "join", !.step = "insert", !.who = m])
    /\ UNCHANGED <<rows, told, room, sock>>

BeginLeave(r, m) ==
    /\ m # Host
    /\ Begin(r, [Idle EXCEPT !.op = "leave", !.step = "delete", !.who = m])
    /\ UNCHANGED <<rows, told, room, sock>>

\* Mutation: the count grows for every call, also of a member.
InsertMemberAlways(r) ==
    /\ At(r, "insert")
    /\ ~RowLocked(co[r].who)
    /\ Goto(r, "commit")
    /\ UNCHANGED <<rows, told, room, sock, bounds>>

\* insertIfAbsent: only a row that was inserted counts.
InsertMember(r) ==
    /\ At(r, "insert")
    /\ ~RowLocked(co[r].who)
    /\ IF Participates(co[r].who) THEN Finish(r) ELSE Goto(r, "commit")
    /\ UNCHANGED <<rows, told, room, sock, bounds>>

\* deleteOne: only a row that was deleted counts.
DeleteMember(r) ==
    /\ At(r, "delete")
    /\ ~RowLocked(co[r].who)
    /\ IF Participates(co[r].who) THEN Goto(r, "commit") ELSE Finish(r)
    /\ UNCHANGED <<rows, told, room, sock, bounds>>

\* increment and decrement are relative, so that only the commit matters.
CommitMember(r) ==
    /\ At(r, "commit")
    /\ LET m == co[r].who
       IN  IF co[r].op = "join"
           THEN /\ row' = [row EXCEPT ![m] = [NoRow EXCEPT !.id = lastId + 1]]
                /\ lastId' = lastId + 1
                /\ memberCount' = memberCount + 1
           ELSE /\ row' = [row EXCEPT ![m] = NoRow]
                /\ memberCount' = memberCount - 1
                /\ UNCHANGED lastId
    /\ Finish(r)
    /\ UNCHANGED <<alive, revived, stored, clock, told, room, sock, bounds>>

-----------------------------------------------------------------------------
(* submitOpinion and updateMyDebateIntent: read, change, save *)

BeginOpinion(r, m, via) ==
    /\ Begin(r, [Idle EXCEPT !.op = "opinion", !.step = "read", !.who = m,
                             !.via = via, !.write = calls + 2])
    /\ UNCHANGED <<rows, told, room, sock>>

BeginIntent(r, m) ==
    /\ Begin(r, [Idle EXCEPT !.op = "intent", !.step = "read", !.who = m])
    /\ UNCHANGED <<rows, told, room, sock>>

\* findOne, and the assignments to the entity.
ReadRow(r) ==
    /\ At(r, "read")
    /\ LET old == row[co[r].who]
       IN  IF old.id = 0
           THEN Finish(r)
           ELSE \E new \in IF co[r].op = "opinion"
                           THEN {[old EXCEPT !.opinion = co[r].write]}
                           ELSE {[old EXCEPT !.open = to] : to \in BOOLEAN} :
                  co' = [co EXCEPT ![r].seen = new, ![r].step = "select"]
    /\ UNCHANGED <<rows, told, room, sock, bounds>>

\* save loads the row by its id once more; what differs is written.
SelectRow(r) ==
    /\ At(r, "select")
    /\ LET old == row[co[r].who]  new == co[r].seen
       IN  co' = [co EXCEPT ![r].found = (old.id = new.id),
                            ![r].stale = {c \in {"opinion", "open"} : old[c] # new[c]},
                            ![r].step = "write"]
    /\ UNCHANGED <<rows, told, room, sock, bounds>>

\* The UPDATE of a row that is gone changes nothing and succeeds; a row save did
\* not find is inserted under its old id, unless the member has joined again.
Saves(r) ==
    LET m == co[r].who  new == co[r].seen
    IN  /\ ~RowLocked(m)
        /\ co[r].found \/ ~Participates(m)
        /\ row' = [row EXCEPT ![m] =
                     IF ~co[r].found THEN new
                     ELSE IF @.id # new.id THEN @
                     ELSE [id |-> @.id,
                           opinion |-> IF "opinion" \in co[r].stale
                                       THEN new.opinion ELSE @.opinion,
                           open |-> IF "open" \in co[r].stale
                                    THEN new.open ELSE @.open]]
        /\ revived' = IF co[r].found THEN revived ELSE revived + 1
        /\ UNCHANGED <<alive, memberCount, lastId, stored, clock, sent, room, sock>>

\* The opinion an intent's save writes back: no event tells of it.
WroteBack(r) ==
    IF co[r].op = "intent" /\ "opinion" \in co[r].stale
    THEN {<<co[r].who, co[r].seen.opinion>>} ELSE {}

WriteRow(r) ==
    /\ At(r, "write")
    /\ Saves(r)
    /\ Goto(r, "announce")
    /\ unheard' = unheard \cup WroteBack(r)
    /\ UNCHANGED bounds

\* The unique key of member and community refuses the old row.
WriteRefused(r) ==
    /\ At(r, "write")
    /\ ~RowLocked(co[r].who)
    /\ ~co[r].found
    /\ Participates(co[r].who)
    /\ Finish(r)
    /\ UNCHANGED <<rows, told, room, sock, bounds>>

-----------------------------------------------------------------------------
(* sendMessage, and the system messages of the debates *)

BeginSend(r, m, t, via) ==
    /\ Begin(r, [Idle EXCEPT !.op = "send", !.step = "check", !.who = m,
                             !.text = t, !.via = via])
    /\ UNCHANGED <<rows, told, room, sock>>

\* requireOpinionAuthor; then the message gets its createdAt.
CheckAuthor(r) ==
    /\ At(r, "check")
    /\ IF row[co[r].who].opinion = 0
       THEN Finish(r) /\ UNCHANGED clock
       ELSE /\ clock' = clock + 1
            /\ co' = [co EXCEPT ![r].step = "store", ![r].time = clock']
    /\ UNCHANGED <<alive, memberCount, row, lastId, revived, stored, told, room, sock,
                   bounds>>

\* applyWithin: the message of an outcome, which happens once.
BeginNotice(r, t) ==
    /\ stored[t] = 0
    /\ \A o \in Request : co[o].text # t
    /\ clock' = clock + 1
    /\ Begin(r, [Idle EXCEPT !.op = "notice", !.step = "store", !.text = t,
                             !.time = clock'])
    /\ UNCHANGED <<alive, memberCount, row, lastId, revived, stored, told, room, sock>>

\* INSERT ... ON CONFLICT DO NOTHING on (communityId, clientMessageId).
Stores(r) ==
    /\ stored' = [stored EXCEPT ![co[r].text] = IF @ = 0 THEN co[r].time ELSE @]
    /\ UNCHANGED <<alive, memberCount, row, lastId, revived, clock, sent,
                   room, sock>>

Store(r) ==
    /\ At(r, "store")
    /\ Stores(r)
    /\ co' = [co EXCEPT ![r].step = "announce",
                        ![r].fresh = (stored[co[r].text] = 0)]
    /\ UNCHANGED <<unheard, bounds>>

-----------------------------------------------------------------------------
(* Events *)

\* Mutation: the event of an opinion is built like that of a message.
TextOf(r) == co[r].text

\* What a call tells the room, if it stored something.
ItemOf(r) == IF co[r].op = "opinion" THEN <<co[r].who, co[r].write>> ELSE co[r].text

\* Mutation: a socket joins the room after its replay.
HearsAfterReplay(s, r) ==
    sock[s].ready /\ s \in room /\ sock[s].step = "open" /\ s # co[r].via

\* Those a broadcast reaches, and those an acknowledgement reaches.
Hears(s, r) == sock[s].ready /\ s \in room /\ s # co[r].via
IsAcked(s, r) == sock[s].ready /\ s = co[r].via

\* Mutation: the room is told of a message that was stored before.
AnnounceAlways(r) ==
    /\ At(r, "announce")
    /\ sock' = [s \in Socket |->
                  IF co[r].op # "intent" /\ (Hears(s, r) \/ IsAcked(s, r))
                  THEN [sock[s] EXCEPT !.got = @ \cup {ItemOf(r)}]
                  ELSE sock[s]]
    /\ sent' = IF co[r].op \in {"send", "notice"}
               THEN [sent EXCEPT ![co[r].text] = @ + 1] ELSE sent
    /\ Finish(r)
    /\ UNCHANGED <<rows, unheard, room, bounds>>

\* The author of an opinion, or the committed system message, is read first; then
\* the room is told, without the sender; the sender's socket is acknowledged.
\* A DUPLICATE is only acknowledged.
Announce(r) ==
    /\ At(r, "announce")
    /\ LET loud == co[r].op = "opinion" \/ co[r].fresh
       IN  /\ sock' = [s \in Socket |->
                         IF \/ loud /\ Hears(s, r)
                            \/ co[r].op # "intent" /\ IsAcked(s, r)
                         THEN [sock[s] EXCEPT !.got = @ \cup {ItemOf(r)}]
                         ELSE sock[s]]
           /\ sent' = IF co[r].fresh THEN [sent EXCEPT ![co[r].text] = @ + 1] ELSE sent
    /\ Finish(r)
    /\ UNCHANGED <<rows, unheard, room, bounds>>

-----------------------------------------------------------------------------
(* delete *)

BeginDelete(r) ==
    /\ Begin(r, [Idle EXCEPT !.op = "delete", !.step = "save", !.time = memberCount])
    /\ UNCHANGED <<rows, told, room, sock>>

\* save writes the columns that differ, also a memberCount changed meanwhile.
SaveDelete(r) ==
    /\ At(r, "save")
    /\ alive' = FALSE
    /\ memberCount' = co[r].time
    /\ Finish(r)
    /\ UNCHANGED <<row, lastId, revived, stored, clock, told, room, sock, bounds>>

-----------------------------------------------------------------------------
(* handleConnection, handleDisconnect and the end of a connection *)

\* A socket is an object of its own: its name is used again only when nothing
\* refers to it any more.
Connect(s) ==
    /\ sock[s].left
    /\ sock[s].step \in {"none", "open", "refused"}
    /\ s \notin room
    /\ \A r \in Request : co[r].via # s
    /\ sessions < MaxSessions
    /\ sessions' = sessions + 1
    /\ sock' = [sock EXCEPT ![s] = [NoSocket EXCEPT !.step = "check", !.ready = TRUE,
                                                    !.left = FALSE]]
    /\ UNCHANGED <<rows, told, room, co, calls, faults>>

\* An error is sent, and the socket leaves and is closed.
Refuse(s) ==
    /\ sock' = [sock EXCEPT ![s].step = "refused", ![s].ready = FALSE,
                            ![s].todo = {}, ![s].batch = {}]
    /\ room' = room \ {s}

\* assertJoinable, and after it the room; then the replay reads.
CheckJoinable(s) ==
    /\ sock[s].step = "check"
    /\ IF alive
       THEN /\ room' = room \cup {s}
            /\ sock' = [sock EXCEPT ![s].step = "replay",
                                    ![s].todo = {"messages", "opinions"}]
       ELSE Refuse(s)
    /\ UNCHANGED <<rows, told, co, bounds>>

\* findRecent: the newest messages by createdAt, up to the limit.
Newer(t) == {u \in Text : stored[u] > stored[t]}
Recent == {t \in Text : stored[t] # 0 /\ Cardinality(Newer(t)) < ReplayLimit}

Opinions == {<<m, row[m].opinion>> : m \in {n \in Member : row[n].opinion # 0}}

Replies(s, query, answer) ==
    /\ sock[s].step = "replay"
    /\ query \in sock[s].todo
    /\ sock' = [sock EXCEPT ![s].todo = @ \ {query}, ![s].batch = @ \cup answer]
    /\ UNCHANGED <<rows, told, room, co, bounds>>

ReadMessages(s) == Replies(s, "messages", Recent)
ReadOpinions(s) == Replies(s, "opinions", Opinions)

SendReplay(s) ==
    /\ sock[s].step = "replay"
    /\ sock[s].todo = {}
    /\ sock' = [sock EXCEPT ![s].step = "open", ![s].batch = {},
                            ![s].got = IF sock[s].ready THEN @ \cup sock[s].batch ELSE @]
    /\ UNCHANGED <<rows, told, room, co, bounds>>

\* The peer or the network ends the connection, or the heartbeat terminates it.
SocketCloses(s) ==
    /\ sock[s].ready
    /\ sock' = [sock EXCEPT ![s].ready = FALSE]
    /\ UNCHANGED <<rows, told, room, co, bounds>>

HandleDisconnect(s) ==
    /\ ~sock[s].ready
    /\ ~sock[s].left
    /\ sock' = [sock EXCEPT ![s].left = TRUE]
    /\ room' = room \ {s}
    /\ UNCHANGED <<rows, told, co, bounds>>

-----------------------------------------------------------------------------
(* Failures *)

Fails(kind) ==
    /\ kind \in Faults
    /\ faults < MaxFaults
    /\ calls + faults < MaxCalls
    /\ faults' = faults + 1
    /\ UNCHANGED <<sessions, calls>>

\* Rooms are local to the process; open transactions roll back.
Crash ==
    /\ Fails("crash")
    /\ room' = {}
    /\ sock' = [s \in Socket |-> NoSocket]
    /\ co' = [r \in Request |-> Idle]
    /\ UNCHANGED <<rows, told>>

\* A query throws, and with it the call: what it had stored is not announced.
QueryFails(r) ==
    /\ Fails("query")
    /\ ~At(r, "idle")
    /\ At(r, "announce") => co[r].op \in {"opinion", "intent", "notice"}
    /\ unheard' = IF At(r, "announce") /\ co[r].op # "intent"
                  THEN unheard \cup {ItemOf(r)} ELSE unheard
    /\ Finish(r)
    /\ UNCHANGED <<rows, sent, room, sock>>

ReplayFails(s) ==
    /\ Fails("query")
    /\ sock[s].step \in {"check", "replay"}
    /\ Refuse(s)
    /\ UNCHANGED <<rows, told, co>>

\* A statement is carried out, but its answer is lost and the call fails.
AnswerLost(r) ==
    /\ Fails("commit")
    /\ \/ At(r, "store") /\ Stores(r)
       \/ At(r, "write") /\ Saves(r)
    /\ unheard' = unheard \cup IF co[r].op = "intent" THEN WroteBack(r) ELSE {ItemOf(r)}
    /\ Finish(r)

-----------------------------------------------------------------------------
(* Specification *)

Arrive(r) ==
    \/ \E m \in Member :
         \/ BeginJoin(r, m)
         \/ BeginLeave(r, m)
         \/ BeginIntent(r, m)
         \/ \E via \in Via : BeginOpinion(r, m, via)
         \/ \E via \in Via, t \in Message : BeginSend(r, m, t, via)
    \/ \E t \in Notice : BeginNotice(r, t)
    \/ BeginDelete(r)

Continue(r) ==
    \/ InsertMember(r) \/ DeleteMember(r) \/ CommitMember(r)
    \/ ReadRow(r) \/ SelectRow(r) \/ WriteRow(r) \/ WriteRefused(r)
    \/ CheckAuthor(r) \/ Store(r) \/ Announce(r)
    \/ SaveDelete(r)

Connection(s) ==
    \/ Connect(s) \/ CheckJoinable(s) \/ ReadMessages(s) \/ ReadOpinions(s)
    \/ SendReplay(s) \/ SocketCloses(s) \/ HandleDisconnect(s)

Next ==
    \/ \E r \in Request : Arrive(r) \/ Continue(r) \/ QueryFails(r) \/ AnswerLost(r)
    \/ \E s \in Socket : Connection(s) \/ ReplayFails(s)
    \/ Crash

Spec == Init /\ [][Next]_vars

-----------------------------------------------------------------------------
(* Properties *)

(***************************************************************************)
(* joinMe and leaveMe: the count follows the rows through repeated and     *)
(* concurrent joins and leaves; only a row that a save brings back (the    *)
(* read-then-save of opinion and intent beside a leave) is missing in it.  *)
(***************************************************************************)
CountFollowsRows ==
    alive => memberCount + revived = Cardinality({m \in Member : Participates(m)})

(***************************************************************************)
(* The clientMessageId: whatever is sent again, by HTTP or WebSocket and   *)
(* at the same time, the room is told of a message at most once, and only  *)
(* of one that is stored.                                                  *)
(***************************************************************************)
SentOnce ==
    \A t \in Text :
        /\ sent[t] <= 1
        /\ stored[t] = 0 =>
             sent[t] = 0 /\ \A s \in Socket : t \notin sock[s].got \cup sock[s].batch

Announcing(item) ==
    \E r \in Request : At(r, "announce") /\ ItemOf(r) = item

(***************************************************************************)
(* handleConnection joins the room before it reads the replay: a connected *)
(* client has every message and every member's opinion, however the        *)
(* replay, the stores and the broadcasts interleave, unless the call of    *)
(* the author failed after storing or the message is older than the replay *)
(* reaches.  An opinion that the save of an intent writes back is not told. *)
(***************************************************************************)
NothingMissed ==
    \A s \in Socket :
        sock[s].ready /\ sock[s].step = "open" =>
            /\ \A t \in Text :
                 \/ stored[t] = 0
                 \/ t \in sock[s].got \cup unheard
                 \/ Announcing(t)
                 \/ Cardinality(Newer(t)) >= ReplayLimit
            /\ \A m \in Member :
                 LET item == <<m, row[m].opinion>>
                 IN  \/ row[m].opinion = 0
                     \/ item \in sock[s].got \cup unheard
                     \/ Announcing(item)
==============================================================================
