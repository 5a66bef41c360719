------------------------------- MODULE Accounts -------------------------------
(***************************************************************************)
(* Members and their sessions: the member rows with their credit and       *)
(* rating, the social accounts linked to them and the refresh tokens       *)
(* (MembersService, AuthService, AuthSessionService, RefreshTokenService,  *)
(* and the part of DebateJudgeService's transaction that changes members). *)
(*                                                                         *)
(* A coroutine is a request, or the judgment of a debate; a step is what   *)
(* happens between two awaits.  A judgment keeps the rows it has changed   *)
(* in its draft, and their locks, until it commits.                        *)
(***************************************************************************)
EXTENDS Naturals, Sequences

CONSTANTS
    Request,        \* calls that run at a time
    Account,        \* ids of members
    Present,        \* the accounts there are at the start
    Email,
    Identity,       \* accounts at the social login provider
    None,
    Ops,            \* the calls of this configuration
    Faults,         \* what may fail: "crash", "query", "expiry"
    MaxCalls        \* bound: calls, crashes, failing queries and expiries together

Calls == {"signup", "create", "login", "oauth", "refresh", "logout", "update",
          "remove", "judge"}

ASSUME AccountConstants ==
    /\ Present \subseteq Account
    /\ None \notin Account \cup Email \cup Identity
    /\ Ops \subseteq Calls
    /\ Faults \subseteq {"crash", "query", "expiry"}
    /\ MaxCalls \in Nat

VARIABLES
    row,            \* Account -> its member row
    link,           \* Identity -> the account of its member_oauth_account row
    token,          \* Token -> its refresh_token row
    expired,        \* tokens whose expires_at has passed
    won, fined,     \* observers: judgments committed for and against a member
    overwritten,    \* observer: <<account, column>> a save put an old value into
    out, reused,    \* observers: tokens logged out; members with a reused token
    co,             \* Request -> where it is and what it has read
    calls, faults   \* bounded counters

members == <<row, link, won, fined, overwritten>>
sessions == <<token, expired, out, reused>>
vars == <<members, sessions, co, calls, faults>>

\* A refresh token is known by its number; 0 is none.  Each call issues one at most.
Token == 1..MaxCalls + 1

\* password: 0 is none; password, name: the number of the last change.  credit:
\* points deducted from INITIAL_SOCIAL_CREDIT; rating: rewards.
Row == [status : {"none", "NORMAL", "DELETED"}, email : Email \cup {None},
        password : Nat, name : Nat, credit : Nat, rating : Nat]
NoRow == [status |-> "none", email |-> None, password |-> 0, name |-> 0,
          credit |-> 0, rating |-> 0]

\* The columns a save may write; an email never changes.
Column == {"status", "password", "name", "credit", "rating"}

TokenRow == [owner : Account \cup {None}, revoked : BOOLEAN,
             next : {0} \cup Token, root : {0} \cup Token]
NoToken == [owner |-> None, revoked |-> FALSE, next |-> 0, root |-> 0]

\* base: the row it has found, seen: the entity it saves, stale: columns the save
\* found to differ, lost: changes of others it puts back; todo: members still to be
\* fined, fines: those fined, winner: to be rewarded, draft: rows a transaction has
\* written; active: tokens a revokeAllForMember found.
Idle == [op |-> "none", step |-> "idle", who |-> None, email |-> None, id |-> None,
         verified |-> FALSE, token |-> 0, active |-> {}, base |-> NoRow,
         seen |-> NoRow, stale |-> {}, lost |-> {}, todo |-> <<>>, fines |-> {},
         winner |-> None, draft |-> [a \in Account |-> NoRow]]

Step == {"idle", "insert", "find", "linked", "member", "email", "link", "enroll",
         "persist", "owner", "token", "rotate", "replace", "recheck", "reuse", "cut",
         "revoke", "fine", "select", "write", "commit"}

Place == [op : Calls \cup {"none"}, step : Step, who : Account \cup {None},
          email : Email \cup {None}, id : Identity \cup {None}, verified : BOOLEAN,
          token : {0} \cup Token, active : SUBSET Token, base : Row, seen : Row,
          stale : SUBSET Column, lost : SUBSET (Account \X Column),
          todo : Seq(Account), fines : SUBSET Account, winner : Account \cup {None},
          draft : [Account -> Row]]

TypeOK ==
    /\ row \in [Account -> Row]
    /\ link \in [Identity -> Account \cup {None}]
    /\ token \in [Token -> TokenRow]
    /\ expired \subseteq Token
    /\ won \in [Account -> Nat] /\ fined \in [Account -> Nat]
    /\ overwritten \subseteq Account \X Column
    /\ out \subseteq Token /\ reused \subseteq Account
    /\ co \in [Request -> Place]
    /\ calls \in 0..MaxCalls
    /\ faults \in 0..MaxCalls

Issued(t) == token[t].owner # None

\* One member has signed up and is logged in, the others have a profile only.
Init ==
    /\ \E a \in Present, e \in Email :
         /\ row = [b \in Account |->
                     IF b \notin Present THEN NoRow
                     ELSE [NoRow EXCEPT !.status = "NORMAL",
                                        !.email = IF a = b THEN e ELSE None,
                                        !.password = IF a = b THEN 1 ELSE 0]]
         /\ token = [t \in Token |->
                       IF t = 1 THEN [NoToken EXCEPT !.owner = a, !.root = 1]
                                ELSE NoToken]
    /\ link = [i \in Identity |-> None]
    /\ expired = {}
    /\ won = [a \in Account |-> 0] /\ fined = [a \in Account |-> 0]
    /\ overwritten = {} /\ out = {} /\ reused = {}
    /\ co = [r \in Request |-> Idle]
    /\ calls = 0 /\ faults = 0

-----------------------------------------------------------------------------
(* The control of a coroutine, and locks *)

At(r, step) == co[r].step = step
Goto(r, step) == co' = [co EXCEPT ![r].step = step]
Finish(r) == co' = [co EXCEPT ![r] = Idle]

Begin(r, call) ==
    /\ co[r] = Idle
    /\ call.op \in Ops
    /\ calls + faults < MaxCalls
    /\ calls' = calls + 1
    /\ co' = [co EXCEPT ![r] = call]
    /\ UNCHANGED <<members, sessions, faults>>

\* A member row that a judgment has changed is locked until its end; so is a token
\* between the two statements of its rotation.
Drafts(r, a) == co[r].draft[a] # NoRow
RowLocked(a, r) == \E o \in Request \ {r} : Drafts(o, a)
TokenLocked(t) == \E r \in Request : At(r, "replace") /\ co[r].token = t

\* UQ_member_email also counts the rows of members who are gone.
Taken(e) == e # None /\ \E a \in Account : row[a].email = e

-----------------------------------------------------------------------------
(* signUp, create, login *)

BeginSignUp(r, e) ==
    Begin(r, [Idle EXCEPT !.op = "signup", !.step = "insert", !.email = e])
BeginCreate(r) == Begin(r, [Idle EXCEPT !.op = "create", !.step = "insert"])

\* save of a new member; signUp starts a session, create does not.
InsertMember(r) ==
    /\ At(r, "insert")
    /\ IF Taken(co[r].email)
       THEN Finish(r) /\ UNCHANGED row
       ELSE \E a \in Account :
              /\ row[a].status = "none"
              /\ row' = [row EXCEPT ![a] =
                           [@ EXCEPT !.status = "NORMAL", !.email = co[r].email,
                                     !.password = IF co[r].op = "signup" THEN 1
                                                  ELSE 0]]
              /\ IF co[r].op = "signup"
                 THEN co' = [co EXCEPT ![r].step = "persist", ![r].who = a]
                 ELSE Finish(r)
    /\ UNCHANGED <<link, won, fined, overwritten, sessions, calls, faults>>

BeginLogin(r, e) ==
    Begin(r, [Idle EXCEPT !.op = "login", !.step = "find", !.email = e])

\* The row, then bcrypt.compare with its password.
FindForLogin(r) ==
    /\ At(r, "find") /\ co[r].op = "login"
    /\ \/ Finish(r)
       \/ \E a \in Account :
            /\ row[a].email = co[r].email /\ row[a].status = "NORMAL"
            /\ row[a].password # 0
            /\ co' = [co EXCEPT ![r].step = "persist", ![r].who = a]
    /\ UNCHANGED <<members, sessions, calls, faults>>

-----------------------------------------------------------------------------
(* loginWithOAuth: resolveMember *)

\* The provider's answer has an email of its own, verified or not.
BeginOAuth(r, i, e, v) ==
    Begin(r, [Idle EXCEPT !.op = "oauth", !.step = "linked", !.id = i, !.email = e,
                          !.verified = v])

FindLinked(r) ==
    /\ At(r, "linked")
    /\ co' = [co EXCEPT ![r].who = link[co[r].id],
                        ![r].step = IF link[co[r].id] = None THEN "email" ELSE "member"]
    /\ UNCHANGED <<members, sessions, calls, faults>>

\* A link to a member who is gone counts as none.
FindLinkedMember(r) ==
    /\ At(r, "member")
    /\ Goto(r, IF row[co[r].who].status = "NORMAL" THEN "persist" ELSE "email")
    /\ UNCHANGED <<members, sessions, calls, faults>>

\* findByEmail; an unverified email is not linked.
FindByEmail(r) ==
    /\ At(r, "email")
    /\ LET same == {a \in Account : row[a].email = co[r].email
                                    /\ row[a].status = "NORMAL"}
       IN  IF same = {} THEN Goto(r, "enroll")
           ELSE IF ~co[r].verified THEN Finish(r)
           ELSE \E a \in same : co' = [co EXCEPT ![r].step = "link", ![r].who = a]
    /\ UNCHANGED <<members, sessions, calls, faults>>

\* linkOAuthAccount: provider and providerId are unique.
LinkAccount(r) ==
    /\ At(r, "link")
    /\ IF link[co[r].id] # None
       THEN Finish(r) /\ UNCHANGED link
       ELSE link' = [link EXCEPT ![co[r].id] = co[r].who] /\ Goto(r, "persist")
    /\ UNCHANGED <<row, won, fined, overwritten, sessions, calls, faults>>

\* createWithOAuth: the member and the link in one transaction.
Enroll(r) ==
    /\ At(r, "enroll")
    /\ IF Taken(co[r].email) \/ link[co[r].id] # None
       THEN Finish(r) /\ UNCHANGED <<row, link>>
       ELSE \E a \in Account :
              /\ row[a].status = "none"
              /\ row' = [row EXCEPT ![a] = [@ EXCEPT !.status = "NORMAL",
                                                     !.email = co[r].email]]
              /\ link' = [link EXCEPT ![co[r].id] = a]
              /\ co' = [co EXCEPT ![r].step = "persist", ![r].who = a]
    /\ UNCHANGED <<won, fined, overwritten, sessions, calls, faults>>

-----------------------------------------------------------------------------
(* Sessions: persist, rotate, revoke *)

Unused == {t \in Token : ~Issued(t)}
Fresh == CHOOSE t \in Unused : \A u \in Unused : t <= u

Persist(r) ==
    /\ At(r, "persist")
    /\ token' = [token EXCEPT ![Fresh] = [NoToken EXCEPT !.owner = co[r].who,
                                                         !.root = Fresh]]
    /\ Finish(r)
    /\ UNCHANGED <<members, expired, out, reused, calls, faults>>

\* verifyRefreshToken checks the signature and the expiry.
BeginRefresh(r, t) ==
    /\ Issued(t) /\ t \notin expired
    /\ Begin(r, [Idle EXCEPT !.op = "refresh", !.step = "owner", !.token = t,
                             !.who = token[t].owner])

FindOwner(r) ==
    /\ At(r, "owner")
    /\ IF row[co[r].who].status = "NORMAL" THEN Goto(r, "token") ELSE Finish(r)
    /\ UNCHANGED <<members, sessions, calls, faults>>

\* Mutation: an expired token is taken for a reused one.
FindTokenExpired(r) ==
    /\ At(r, "token") \/ At(r, "recheck")
    /\ LET t == co[r].token
       IN  /\ reused' = IF token[t].revoked THEN reused \cup {co[r].who} ELSE reused
           /\ IF token[t].revoked \/ t \in expired THEN Goto(r, "reuse")
              ELSE IF At(r, "recheck") THEN Finish(r)
              ELSE Goto(r, "rotate")
    /\ UNCHANGED <<members, token, expired, out, calls, faults>>

\* findRotatableOrThrow, before the rotation and again after one that failed.
FindToken(r) ==
    /\ At(r, "token") \/ At(r, "recheck")
    /\ LET t == co[r].token
       IN  /\ reused' = IF token[t].revoked THEN reused \cup {co[r].who} ELSE reused
           /\ IF token[t].revoked THEN Goto(r, "reuse")
              ELSE IF t \in expired \/ At(r, "recheck") THEN Finish(r)
              ELSE Goto(r, "rotate")
    /\ UNCHANGED <<members, token, expired, out, calls, faults>>

\* Mutation: the UPDATE names the token only, the read before it decided.
RotatableAlways(t) == TRUE

\* The WHERE of the UPDATE, which the row's state decides once its lock is free.
Rotatable(t) == ~token[t].revoked /\ t \notin expired

\* The UPDATE of the rotation's transaction.
Rotate(r) ==
    /\ At(r, "rotate")
    /\ ~TokenLocked(co[r].token)
    /\ Goto(r, IF Rotatable(co[r].token) THEN "replace" ELSE "recheck")
    /\ UNCHANGED <<members, sessions, calls, faults>>

\* The INSERT of the new token, and the commit of both.
Replace(r) ==
    /\ At(r, "replace")
    /\ LET t == co[r].token
       IN  token' = [token EXCEPT
                       ![t].revoked = TRUE, ![t].next = Fresh,
                       ![Fresh] = [owner |-> co[r].who, revoked |-> FALSE, next |-> 0,
                                   root |-> token[t].root]]
    /\ Finish(r)
    /\ UNCHANGED <<members, expired, out, reused, calls, faults>>

\* revokeAllForMember: the rows the UPDATE finds in its snapshot; then, as each is
\* free, those still active.  A token inserted meanwhile is not among them.
FindActive(r) ==
    /\ At(r, "reuse")
    /\ co' = [co EXCEPT ![r].step = "cut",
                        ![r].active = {t \in Token : token[t].owner = co[r].who
                                                     /\ ~token[t].revoked}]
    /\ UNCHANGED <<members, sessions, calls, faults>>

RevokeAll(r) ==
    /\ At(r, "cut")
    /\ \A t \in co[r].active : ~TokenLocked(t)
    /\ token' = [t \in Token |-> IF t \in co[r].active
                                 THEN [token[t] EXCEPT !.revoked = TRUE] ELSE token[t]]
    /\ Finish(r)
    /\ UNCHANGED <<members, expired, out, reused, calls, faults>>

BeginLogout(r, t) ==
    /\ Issued(t)
    /\ Begin(r, [Idle EXCEPT !.op = "logout", !.step = "revoke", !.token = t,
                             !.who = token[t].owner])

Revoke(r) ==
    /\ At(r, "revoke")
    /\ ~TokenLocked(co[r].token)
    /\ token' = [token EXCEPT ![co[r].token].revoked = TRUE]
    /\ out' = out \cup {co[r].token}
    /\ Finish(r)
    /\ UNCHANGED <<members, expired, reused, calls, faults>>

-----------------------------------------------------------------------------
(* save of a member: read, change, compare with the row, write *)

BeginUpdate(r, a, change) ==
    Begin(r, [Idle EXCEPT !.op = "update", !.step = "find", !.who = a,
                          !.stale = {change}])
BeginRemove(r, a) == Begin(r, [Idle EXCEPT !.op = "remove", !.step = "find", !.who = a])

\* Mutation: a member who leaves is marked as removed by an administrator.
ChangedByAdmin(r, old) ==
    IF co[r].op = "remove" THEN [old EXCEPT !.status = "ADMIN_DELETED"]
    ELSE IF co[r].stale = {"password"} THEN [old EXCEPT !.password = @ + 1]
    ELSE [old EXCEPT !.name = @ + 1]

\* The change of the entity: softDelete, a new password, or profile fields.
Changed(r, old) ==
    IF co[r].op = "remove" THEN [old EXCEPT !.status = "DELETED"]
    ELSE IF co[r].stale = {"password"} THEN [old EXCEPT !.password = @ + 1]
    ELSE [old EXCEPT !.name = @ + 1]

\* findOneOrThrow; a new password needs a current one, which is compared.
FindOwn(r) ==
    /\ At(r, "find") /\ co[r].op \in {"update", "remove"}
    /\ LET old == row[co[r].who]
       IN  IF old.status # "NORMAL" \/ (co[r].stale = {"password"} /\ old.password = 0)
           THEN Finish(r)
           ELSE co' = [co EXCEPT ![r].base = old, ![r].seen = Changed(r, old),
                                 ![r].step = "select"]
    /\ UNCHANGED <<members, sessions, calls, faults>>

\* save loads the row by its id; the columns that differ from it are written.
SelectRow(r) ==
    /\ At(r, "select")
    /\ co' = [co EXCEPT ![r].stale = {c \in Column : row[co[r].who][c] # co[r].seen[c]},
                        ![r].step = "write"]
    /\ UNCHANGED <<members, sessions, calls, faults>>

Written(r) ==
    LET a == co[r].who  new == co[r].seen
        Value(c) == IF c \in co[r].stale THEN new[c] ELSE row[a][c]
    IN  [status |-> Value("status"), email |-> row[a].email,
         password |-> Value("password"), name |-> Value("name"),
         credit |-> Value("credit"), rating |-> Value("rating")]

\* Columns another call has changed since it found the row, and which it writes or
\* has set to a value of its own.
Overwrites(r) ==
    LET a == co[r].who
    IN  {a} \X {c \in Column : /\ row[a][c] # co[r].base[c]
                             /\ (c \in co[r].stale \/ co[r].seen[c] # co[r].base[c])}

WriteRow(r) ==
    /\ At(r, "write") /\ co[r].op # "judge"
    /\ ~RowLocked(co[r].who, r)
    /\ row' = [row EXCEPT ![co[r].who] = Written(r)]
    /\ overwritten' = overwritten \cup Overwrites(r)
    /\ Finish(r)
    /\ UNCHANGED <<link, won, fined, sessions, calls, faults>>

-----------------------------------------------------------------------------
(* completeJudgment: deductSocialCredit of the sides, then rewardWin *)

\* todo: the sides with violations, the host's first.
BeginJudge(r, todo, winner) ==
    Begin(r, [Idle EXCEPT !.op = "judge", !.step = "fine", !.todo = todo,
                          !.winner = winner])

\* A member who is gone is skipped.
FindFined(r) ==
    /\ At(r, "fine")
    /\ co[r].todo # <<>>
    /\ LET a == Head(co[r].todo)
       IN  IF row[a].status = "NORMAL"
           THEN co' = [co EXCEPT ![r].who = a, ![r].base = row[a], ![r].step = "select",
                                 ![r].seen = [row[a] EXCEPT !.credit = @ + 1]]
           ELSE co' = [co EXCEPT ![r].todo = Tail(@)]
    /\ UNCHANGED <<members, sessions, calls, faults>>

\* Mutation: deductSocialCredit is not given the manager of the transaction.
WriteFineApart(r) ==
    /\ At(r, "write") /\ co[r].op = "judge"
    /\ ~RowLocked(co[r].who, r)
    /\ row' = [row EXCEPT ![co[r].who] = Written(r)]
    /\ overwritten' = overwritten \cup Overwrites(r)
    /\ co' = [co EXCEPT ![r].fines = @ \cup {co[r].who}, ![r].todo = Tail(@),
                        ![r].step = "fine"]
    /\ UNCHANGED <<link, won, fined, sessions, calls, faults>>

\* Nothing to write, no statement and no lock.
WriteFine(r) ==
    /\ At(r, "write") /\ co[r].op = "judge"
    /\ LET a == co[r].who
       IN  /\ co[r].stale # {} => ~RowLocked(a, r)
           /\ co' = [co EXCEPT ![r].draft[a] = IF co[r].stale = {} THEN @ ELSE Written(r),
                               ![r].lost = @ \cup Overwrites(r),
                               ![r].fines = @ \cup {a}, ![r].todo = Tail(@),
                               ![r].step = "fine"]
    /\ UNCHANGED <<members, sessions, calls, faults>>

\* A row as the transaction of r sees it.
View(r, a) == IF Drafts(r, a) THEN co[r].draft[a] ELSE row[a]

\* increment of the winner's rating, where the member is NORMAL.
Reward(r) ==
    /\ At(r, "fine")
    /\ co[r].todo = <<>>
    /\ LET a == co[r].winner
       IN  \/ /\ a = None
             /\ Goto(r, "commit")
          \/ /\ a # None
             /\ ~RowLocked(a, r)
             /\ co' = IF View(r, a).status = "NORMAL"
                      THEN [co EXCEPT ![r].step = "commit",
                                      ![r].draft[a] = [View(r, a) EXCEPT !.rating = @ + 1]]
                      ELSE [co EXCEPT ![r].step = "commit", ![r].winner = None]
    /\ UNCHANGED <<members, sessions, calls, faults>>

Commit(r) ==
    /\ At(r, "commit")
    /\ row' = [a \in Account |-> View(r, a)]
    /\ won' = [a \in Account |-> won[a] + (IF a = co[r].winner THEN 1 ELSE 0)]
    /\ fined' = [a \in Account |-> fined[a] + (IF a \in co[r].fines THEN 1 ELSE 0)]
    /\ overwritten' = overwritten \cup co[r].lost
    /\ Finish(r)
    /\ UNCHANGED <<link, sessions, calls, faults>>

\* Two judgments that wait for each other's rows: the database aborts one of them.
Wants(r, a) ==
    \/ At(r, "write") /\ co[r].who = a /\ co[r].stale # {}
    \/ At(r, "fine") /\ co[r].todo = <<>> /\ co[r].winner = a

WaitsFor(r, o) == \E a \in Account : Wants(r, a) /\ Drafts(o, a)

DeadlockVictim(r) ==
    /\ \E o \in Request \ {r} : WaitsFor(r, o) /\ WaitsFor(o, r)
    /\ Finish(r)
    /\ UNCHANGED <<members, sessions, calls, faults>>

-----------------------------------------------------------------------------
(* Failures *)

Fails(kind) ==
    /\ kind \in Faults
    /\ calls + faults < MaxCalls
    /\ faults' = faults + 1
    /\ UNCHANGED <<members, sessions, calls>>

\* expires_at passes, which as a rule nobody waits for.
Expire(t) ==
    /\ "expiry" \in Faults
    /\ calls + faults < MaxCalls
    /\ faults' = faults + 1
    /\ Issued(t)
    /\ expired' = expired \cup {t}
    /\ UNCHANGED <<members, token, out, reused, co, calls>>

\* Open transactions roll back.
Crash == Fails("crash") /\ co' = [r \in Request |-> Idle]
QueryFails(r) == Fails("query") /\ ~At(r, "idle") /\ Finish(r)

-----------------------------------------------------------------------------
(* Specification *)

Arrive(r) ==
    \/ \E e \in Email : BeginSignUp(r, e) \/ BeginLogin(r, e)
    \/ BeginCreate(r)
    \/ \E i \in Identity, e \in Email, v \in BOOLEAN : BeginOAuth(r, i, e, v)
    \/ \E t \in Token : BeginRefresh(r, t) \/ BeginLogout(r, t)
    \/ \E a \in Account, change \in {"password", "name"} : BeginUpdate(r, a, change)
    \/ \E a \in Account : BeginRemove(r, a)
    \/ \E host, opponent \in Present :
         /\ host # opponent
         /\ \E todo \in {<<>>, <<host>>, <<opponent>>, <<host, opponent>>},
               winner \in {host, opponent, None} : BeginJudge(r, todo, winner)

Continue(r) ==
    \/ InsertMember(r) \/ FindForLogin(r) \/ FindLinked(r) \/ FindLinkedMember(r)
    \/ FindByEmail(r) \/ LinkAccount(r) \/ Enroll(r)
    \/ Persist(r) \/ FindOwner(r) \/ FindToken(r) \/ Rotate(r) \/ Replace(r)
    \/ FindActive(r) \/ RevokeAll(r) \/ Revoke(r)
    \/ FindOwn(r) \/ SelectRow(r) \/ WriteRow(r)
    \/ FindFined(r) \/ WriteFine(r) \/ Reward(r) \/ Commit(r) \/ DeadlockVictim(r)

Next ==
    \/ \E r \in Request : Arrive(r) \/ Continue(r) \/ QueryFails(r)
    \/ \E t \in Token : Expire(t)
    \/ Crash

Spec == Init /\ [][Next]_vars

-----------------------------------------------------------------------------
(* Properties *)

(***************************************************************************)
(* rotate: however often and at the same time a token is presented, a      *)
(* session has one active token at most, and a token that was replaced is  *)
(* revoked and its successor is a stored token of the same session.        *)
(***************************************************************************)
OneActiveToken ==
    \A t \in Token :
        /\ \A u \in Token \ {t} :
             Issued(t) /\ Issued(u) /\ token[t].root = token[u].root =>
                 token[t].revoked \/ token[u].revoked
        /\ token[t].next # 0 =>
             /\ token[t].revoked
             /\ token[token[t].next].owner = token[t].owner
             /\ token[token[t].next].root = token[t].root

(***************************************************************************)
(* findRotatableOrThrow, revoke, revokeAllForMember: a session ends only   *)
(* by its own logout, or because a revoked token of the same member was    *)
(* presented again; an expired token ends no session.                      *)
(***************************************************************************)
SessionsEndForAReason ==
    \A t \in Token :
        token[t].revoked /\ token[t].next = 0 => t \in out \/ token[t].owner \in reused

(***************************************************************************)
(* completeJudgment with deductSocialCredit and rewardWin: what a member   *)
(* has lost and won is what the committed judgments say, through crashes,  *)
(* failing queries, deadlocks and judgments of the same members at a time, *)
(* unless a save has put back a value it had read before.                  *)
(***************************************************************************)
LedgerHolds ==
    \A a \in Account :
        /\ row[a].rating = won[a] \/ <<a, "rating">> \in overwritten
        /\ row[a].credit = fined[a] \/ <<a, "credit">> \in overwritten
================================================================================
