---------------------------- MODULE CommunityProofs ----------------------------
(***************************************************************************)
(* The invariant of Community and what follows from it, for every number   *)
(* of requests, sockets, members and messages, and through every crash,    *)
(* failing query and lost answer: the types, the member count, what the    *)
(* room is told of a message, and what a connected client has received.    *)
(*                                                                         *)
(* None of the three properties is inductive.  The invariant adds what a   *)
(* coroutine knows at its step (Placed), the row locks (Locked), that a    *)
(* message not yet announced was not told before (Unsaid), that an opinion *)
(* belongs to one row (Own, for the entities read before a row is left and *)
(* joined again), and, for a client that still replays, what its reads are *)
(* going to bring (Informed).                                              *)
(***************************************************************************)
EXTENDS Community, TLAPS, FiniteSetTheorems

\* A coroutine that has read a row and is going to save it.
Holds(x) == x.step \in {"select", "write"}

\* A submit whose opinion nobody has seen yet.
Fresh(x) == x.op = "opinion" /\ x.step = "read"

\* What the step of a coroutine says about its call.
Placed(x) ==
    /\ x.step \in {"insert", "delete", "commit", "read", "select", "write", "check"}
         => x.who \in Member
    /\ x.op = "opinion" => x.who \in Member /\ x.write # 0
    /\ x.step = "insert" => x.op = "join"
    /\ x.step = "delete" => x.op = "leave"
    /\ x.step = "commit" => x.op \in {"join", "leave"}
    /\ x.step \in {"read", "select", "write"} => x.op \in {"opinion", "intent"}
    /\ x.step \in {"check", "store"} => x.op \in {"send", "notice"} /\ x.text \in Text
    /\ x.step = "store" => x.time > 0
    /\ x.step = "announce" => \/ x.op \in {"opinion", "intent"}
                              \/ x.op \in {"send", "notice"} /\ x.text \in Text
    /\ x.fresh => x.step = "announce" /\ x.op \in {"send", "notice"}
    /\ Holds(x) => x.seen.id # 0 /\ (x.op = "opinion" => x.seen.opinion = x.write)
    /\ x.step = "write" /\ ~x.found /\ x.op = "intent" /\ x.seen.opinion # 0
         => "opinion" \in x.stale

\* The row of an open transaction is as it found it, and is locked by it alone.
Locked ==
    \A r \in Request : At(r, "commit") =>
        /\ co[r].op = "join" <=> ~Participates(co[r].who)
        /\ \A o \in Request \ {r} : At(o, "commit") => co[o].who # co[r].who

\* An opinion is written by one call, into one row.
Own(r, x) ==
    /\ x.op = "opinion" =>
         \A o \in Request \ {r} : co[o].op = "opinion" => co[o].write # x.write
    /\ Fresh(x) =>
         /\ \A m \in Member : row[m].opinion # x.write
         /\ \A o \in Request \ {r} : Holds(co[o]) => co[o].seen.opinion # x.write
    /\ Holds(x) =>
         \A o \in Request \ {r} : Fresh(co[o]) => co[o].write # x.seen.opinion
    /\ Holds(x) /\ x.seen.opinion # 0 =>
         /\ row[x.who].opinion = x.seen.opinion => row[x.who].id = x.seen.id
         /\ \A o \in Request \ {r} :
              Holds(co[o]) /\ co[o].who = x.who /\ co[o].seen.opinion = x.seen.opinion
                => co[o].seen.id = x.seen.id

\* Calls are counted, and an opinion is known by its call.
Counted(x) == x.write <= calls + 1 /\ x.seen.opinion <= calls + 1

Owned ==
    /\ \A r \in Request : Own(r, co[r]) /\ Counted(co[r])
    /\ \A m \in Member : row[m].opinion <= calls + 1

\* A message to be announced is stored; one that this call stored is not told.
Unsaid ==
    \A r \in Request :
        /\ At(r, "announce") /\ co[r].op \in {"send", "notice"} => stored[co[r].text] # 0
        /\ co[r].fresh =>
             /\ sent[co[r].text] = 0
             /\ \A o \in Request \ {r} : co[o].fresh => co[o].text # co[r].text

\* A coroutine is about to tell the room.
Tells(x, item) ==
    /\ x.step = "announce"
    /\ \/ x.fresh /\ item = x.text
       \/ x.op = "opinion" /\ item = <<x.who, x.write>>

Reaches(y, item) ==
    \/ item \in y.got \cup y.batch \cup unheard
    \/ \E r \in Request : Tells(co[r], item)

Listening(y) == y.ready /\ y.step \in {"replay", "open"}

\* What a client of the room has received, or is going to.
Informed(y) ==
    Listening(y) =>
        /\ y.step = "open" => y.batch = {}
        /\ \A t \in Text :
             \/ stored[t] = 0
             \/ Reaches(y, t)
             \/ Cardinality(Newer(t)) >= ReplayLimit
             \/ y.step = "replay" /\ "messages" \in y.todo
        /\ \A m \in Member :
             \/ row[m].opinion = 0
             \/ Reaches(y, <<m, row[m].opinion>>)
             \/ y.step = "replay" /\ "opinions" \in y.todo

InRoom == \A s \in Socket : Listening(sock[s]) => s \in room

Inv ==
    /\ TypeOK
    /\ \A r \in Request : Placed(co[r])
    /\ Locked
    /\ CountFollowsRows
    /\ Owned
    /\ Unsaid
    /\ SentOnce
    /\ InRoom
    /\ \A s \in Socket : Informed(sock[s])

-----------------------------------------------------------------------------
(* Lemmas *)

LEMMA OpinionNumbers == Opinion \subseteq Int /\ 0 \in Opinion /\ MaxCalls \in Nat
  BY CommunityConstants DEF Opinion

LEMMA IdleFits == Idle \in Place /\ Placed(Idle) /\ Idle.step = "idle" /\ Idle.op = "none"
                  /\ ~Idle.fresh /\ Idle.write = 0 /\ Idle.seen.opinion = 0
  BY OpinionNumbers DEF Idle, Place, Placed, Holds, Row, NoRow

LEMMA NoSocketFits == NoSocket \in Connected /\ NoSocket.got = {} /\ NoSocket.batch = {}
                      /\ ~Listening(NoSocket)
  BY DEF NoSocket, Connected, Listening

LEMMA MembersFinite == IsFiniteSet({m \in Member : Participates(m)})
  BY CommunityConstants, FS_Subset

LEMMA InitInv == Init => Inv
  <1> SUFFICES ASSUME Init PROVE Inv
    OBVIOUS
  <1> USE DEF Init
  <1>1. (\A r \in Request : co[r] = Idle) /\ (\A s \in Socket : sock[s] = NoSocket)
    OBVIOUS
  <1>2. TypeOK
    <2>1. Joined \subseteq Member /\ IsFiniteSet(Joined)
      BY CommunityConstants, FS_Subset
    <2>2. Cardinality(Joined) \in Nat
      BY <2>1, FS_CardinalityType
    <2>3. 0 \in Opinion /\ 1 \in Opinion
      BY OpinionNumbers DEF Opinion
    <2>4. row \in [Member -> Row]
      <3> DEFINE id(m) == IF m \in Joined THEN 1 ELSE 0
                 opinion(m) == IF m = Host THEN 1 ELSE 0
      <3>1. \A m \in Member : id(m) \in Nat /\ opinion(m) \in Opinion
        BY <2>3
      <3>2. row = [m \in Member |-> [id |-> id(m), opinion |-> opinion(m), open |-> FALSE]]
        OBVIOUS
      <3> HIDE DEF id, opinion
      <3>3. \A m \in Member :
              [id |-> id(m), opinion |-> opinion(m), open |-> FALSE] \in Row
        BY <3>1 DEF Row
      <3> QED
        BY <3>2, <3>3
    <2> QED
      BY <2>2, <2>4, IdleFits, NoSocketFits, CommunityConstants DEF TypeOK
  <1>3. (\A r \in Request : Placed(co[r])) /\ Locked /\ Unsaid
    BY <1>1, IdleFits DEF Locked, At, Unsaid
  <1>4. CountFollowsRows
    <2>1. {m \in Member : Participates(m)} = Joined
      BY CommunityConstants DEF Participates
    <2>2. Cardinality(Joined) \in Nat
      BY CommunityConstants, FS_Subset, FS_CardinalityType
    <2>3. memberCount + revived = Cardinality(Joined)
      BY <2>2
    <2>4. memberCount + revived = Cardinality({m \in Member : Participates(m)})
      BY <2>1, <2>3, Zenon
    <2> QED
      BY <2>4, Zenon DEF CountFollowsRows
  <1>5. Owned
    BY <1>1, IdleFits DEF Owned, Own, Counted, Fresh, Holds
  <1>6. SentOnce
    BY <1>1, NoSocketFits DEF SentOnce
  <1>7. InRoom /\ \A s \in Socket : Informed(sock[s])
    BY <1>1, NoSocketFits DEF InRoom, Informed
  <1> QED
    BY <1>2, <1>3, <1>4, <1>5, <1>6, <1>7 DEF Inv

\* The opinions while one coroutine moves and the rows stay.
LEMMA OwnedStays ==
    ASSUME Inv, NEW r \in Request, NEW x \in Place,
           co' = [co EXCEPT ![r] = x], row' = row,
           calls' \in Nat, calls <= calls',
           Own(r, x), Counted(x)'
    PROVE  Owned'
  <1>1. /\ co \in [Request -> Place] /\ co'[r] = x
        /\ \A o \in Request \ {r} : co'[o] = co[o]
        /\ row \in [Member -> Row] /\ calls \in Nat
    BY DEF Inv, TypeOK
  <1>2. Own(r, x)'
    BY <1>1 DEF Own
  <1>3. \A o \in Request \ {r} : Own(o, co[o])'
    <2> SUFFICES ASSUME NEW o \in Request \ {r} PROVE Own(o, co[o])'
      OBVIOUS
    <2>1. Own(o, co[o])
      BY DEF Inv, Owned
    <2> QED
      BY <1>1, <2>1 DEF Own
  <1>4. \A o \in Request \ {r} : Counted(co[o])'
    <2> SUFFICES ASSUME NEW o \in Request \ {r} PROVE Counted(co[o])'
      OBVIOUS
    <2>1. Counted(co[o]) /\ co[o].write \in Int /\ co[o].seen.opinion \in Int
      BY <1>1, OpinionNumbers DEF Inv, Owned, Place, Row
    <2> QED
      BY <1>1, <2>1 DEF Counted
  <1>5. \A m \in Member : row[m].opinion <= calls' + 1
    <2> SUFFICES ASSUME NEW m \in Member PROVE row[m].opinion <= calls' + 1
      OBVIOUS
    <2>1. row[m].opinion <= calls + 1 /\ row[m].opinion \in Int
      BY <1>1, OpinionNumbers DEF Inv, Owned, Row
    <2> QED
      BY <1>1, <2>1
  <1> QED
    BY <1>1, <1>2, <1>3, <1>4, <1>5 DEF Owned

LEMMA CountStays ==
    ASSUME CountFollowsRows, alive' => alive, memberCount' = memberCount,
           revived' = revived, \A m \in Member : Participates(m)' <=> Participates(m)
    PROVE  CountFollowsRows'
  <1>1. {m \in Member : Participates(m)}' = {m \in Member : Participates(m)}
    OBVIOUS
  <1> QED
    BY <1>1, Zenon DEF CountFollowsRows

\* What clients have, while a coroutine moves that has nothing to tell.
LEMMA InformedStays ==
    ASSUME Inv, NEW r \in Request, NEW x \in Place,
           co' = [co EXCEPT ![r] = x],
           UNCHANGED <<row, stored, unheard, room, sock>>,
           ~(co[r].step = "announce")
    PROVE  InRoom' /\ \A s \in Socket : Informed(sock[s])'
  <1>1. \A o \in Request \ {r} : co'[o] = co[o]
    BY DEF Inv, TypeOK
  <1>2. InRoom'
    BY DEF Inv, InRoom, Listening
  <1>3. \A s \in Socket : \A item : Reaches(sock[s], item) => Reaches(sock[s], item)'
    <2> SUFFICES ASSUME NEW s \in Socket, NEW item, NEW o \in Request,
                        Tells(co[o], item)
                 PROVE  Tells(co'[o], item)
      BY DEF Reaches, Tells
    <2> QED
      BY <1>1 DEF Tells
  <1>4. \A t : Newer(t)' = Newer(t)
    BY DEF Newer
  <1> SUFFICES ASSUME NEW s \in Socket PROVE Informed(sock[s])'
    BY <1>2
  <1>5. Informed(sock[s])
    BY DEF Inv
  <1> QED
    BY <1>3, <1>4, <1>5 DEF Informed, Listening

\* A coroutine that moves outside of transactions and changes no row, or only
\* one that deletes the community.
LEMMA QuietKeepsInv ==
    ASSUME Inv, NEW r \in Request, NEW x \in Place,
           co' = [co EXCEPT ![r] = x], Placed(x),
           x.step \notin {"commit", "announce"}, ~(co[r].step = "announce"),
           Own(r, x), Counted(x)',
           calls' \in 0..MaxCalls, calls <= calls', faults' \in 0..MaxFaults,
           UNCHANGED <<row, lastId, revived, stored, told, room, sock, sessions>>,
           clock' \in Nat, alive' \in BOOLEAN, memberCount' \in Int,
           alive' => alive /\ memberCount' = memberCount
    PROVE  Inv'
  <1>1. /\ co \in [Request -> Place] /\ co'[r] = x
        /\ \A o \in Request \ {r} : co'[o] = co[o]
        /\ UNCHANGED <<sent, unheard>> /\ calls' \in Nat
    BY DEF Inv, TypeOK, told
  <1>2. TypeOK'
    BY <1>1 DEF Inv, TypeOK
  <1>3. \A o \in Request : Placed(co[o])'
    BY <1>1 DEF Inv, Placed, Holds
  <1>4. ~x.fresh
    BY DEF Placed
  <1>5. Locked'
    <2>1. \A o \in Request : At(o, "commit")' => At(o, "commit") /\ co'[o] = co[o]
      BY <1>1 DEF At
    <2> QED
      BY <2>1 DEF Inv, Locked, Participates
  <1>6. CountFollowsRows'
    <2>1. CASE alive'
      BY <2>1, CountStays DEF Inv, Participates
    <2>2. CASE ~alive'
      BY <2>2 DEF CountFollowsRows
    <2> QED
      BY <2>1, <2>2
  <1>7. Owned'
    BY <1>1, OwnedStays
  <1>8. Unsaid'
    <2>1. \A o \in Request : At(o, "announce")' \/ co'[o].fresh => co'[o] = co[o]
      BY <1>1, <1>4 DEF At
    <2> QED
      BY <1>1, <2>1 DEF Inv, Unsaid, At
  <1>9. SentOnce'
    BY <1>1 DEF Inv, SentOnce
  <1>10. InRoom' /\ \A s \in Socket : Informed(sock[s])'
    BY <1>1, InformedStays
  <1> QED
    BY <1>2, <1>3, <1>5, <1>6, <1>7, <1>8, <1>9, <1>10 DEF Inv

\* An idle coroutine claims nothing.
LEMMA IdleOwns == ASSUME NEW r \in Request PROVE Own(r, Idle)
  BY IdleFits DEF Own, Fresh, Holds

\* A call that ends without having changed anything.
LEMMA FinishKeepsInv ==
    ASSUME Inv, NEW r \in Request, Finish(r), ~(co[r].step = "announce"),
           UNCHANGED <<rows, told, room, sock, sessions, calls>>,
           faults' \in 0..MaxFaults
    PROVE  Inv'
  <1>1. UNCHANGED <<alive, memberCount, row, lastId, revived, stored, clock>>
    BY DEF rows
  <1>2. /\ calls' \in 0..MaxCalls /\ calls <= calls' /\ clock' \in Nat
        /\ alive' \in BOOLEAN /\ memberCount' \in Int
    BY <1>1, OpinionNumbers DEF Inv, TypeOK
  <1>3. Counted(Idle)'
    BY <1>2, IdleFits, OpinionNumbers DEF Counted
  <1>4. co' = [co EXCEPT ![r] = Idle]
    BY DEF Finish
  <1>5. Own(r, Idle)
    BY IdleOwns
  <1> QED
    BY <1>1, <1>2, <1>3, <1>4, <1>5, IdleFits, QuietKeepsInv

-----------------------------------------------------------------------------
(* joinMe and leaveMe *)

\* The row is locked, inserted or deleted; the transaction is open.
LEMMA LockKeepsInv ==
    ASSUME Inv, NEW r \in Request,
           co[r].step \in {"insert", "delete"}, ~RowLocked(co[r].who),
           co[r].step = "insert" <=> ~Participates(co[r].who),
           Goto(r, "commit"),
           UNCHANGED <<rows, told, room, sock, bounds>>
    PROVE  Inv'
  <1> PICK x : x = [co[r] EXCEPT !.step = "commit"]
    OBVIOUS
  <1>0. /\ UNCHANGED <<alive, memberCount, row, lastId, revived, stored, clock>>
        /\ UNCHANGED <<sent, unheard, sessions, calls, faults>>
    BY DEF rows, told, bounds
  <1>1. /\ co \in [Request -> Place] /\ co' = [co EXCEPT ![r] = x] /\ co'[r] = x
        /\ \A o \in Request \ {r} : co'[o] = co[o]
        /\ co[r] \in Place /\ Placed(co[r]) /\ Own(r, co[r]) /\ Counted(co[r])
    BY DEF Inv, TypeOK, Goto, Owned
  <1>2. /\ x \in Place /\ x.op = co[r].op /\ x.who = co[r].who /\ x.step = "commit"
        /\ x.write = co[r].write /\ x.seen = co[r].seen /\ x.fresh = co[r].fresh
        /\ x.op \in {"join", "leave"} /\ (x.op = "join" <=> co[r].step = "insert")
        /\ ~x.fresh /\ x.who \in Member
    BY <1>1 DEF Place, Placed
  <1>3. TypeOK'
    BY <1>0, <1>1, <1>2 DEF Inv, TypeOK
  <1>4. \A o \in Request : Placed(co[o])'
    BY <1>1, <1>2 DEF Inv, Placed, Holds
  <1>5. Locked'
    <2>1. \A o \in Request \ {r} : At(o, "commit")' => At(o, "commit") /\ co'[o] = co[o]
                                                      /\ co[o].who # co[r].who
      BY <1>1 DEF At, RowLocked
    <2> QED
      BY <1>0, <1>1, <1>2, <2>1 DEF Inv, Locked, Participates
  <1>6. CountFollowsRows'
    BY <1>0, CountStays DEF Inv, Participates
  <1>7. Own(r, x) /\ Counted(x)'
    BY <1>0, <1>1, <1>2 DEF Own, Counted, Fresh, Holds
  <1>8. Owned'
    <2>1. calls' \in Nat /\ calls <= calls'
      BY <1>0, OpinionNumbers DEF Inv, TypeOK
    <2> QED
      BY <1>0, <1>1, <1>2, <1>7, <2>1, OwnedStays
  <1>9. Unsaid'
    <2>1. \A o \in Request : At(o, "announce")' \/ co'[o].fresh => co'[o] = co[o]
      BY <1>1, <1>2 DEF At
    <2> QED
      BY <1>0, <1>1, <2>1 DEF Inv, Unsaid, At
  <1>10. SentOnce'
    BY <1>0 DEF Inv, SentOnce
  <1>11. InRoom' /\ \A s \in Socket : Informed(sock[s])'
    BY <1>0, <1>1, <1>2, InformedStays
  <1> QED
    BY <1>3, <1>4, <1>5, <1>6, <1>8, <1>9, <1>10, <1>11 DEF Inv

LEMMA CommitKeepsInv ==
    ASSUME Inv, NEW r \in Request, CommitMember(r)
    PROVE  Inv'
  <1> DEFINE m == co[r].who
             P == {n \in Member : Participates(n)}
  <1> USE DEF CommitMember
  <1>0. /\ UNCHANGED <<alive, revived, stored, clock, sent, unheard, room, sock>>
        /\ UNCHANGED <<sessions, calls, faults>>
        /\ co[r].step = "commit"
    BY DEF told, bounds, At
  <1>1. /\ co \in [Request -> Place] /\ co' = [co EXCEPT ![r] = Idle] /\ co'[r] = Idle
        /\ \A o \in Request \ {r} : co'[o] = co[o]
        /\ Placed(co[r]) /\ m \in Member /\ co[r].op \in {"join", "leave"}
        /\ (co[r].op = "join" <=> ~Participates(m))
        /\ \A o \in Request \ {r} : At(o, "commit") => co[o].who # m
    BY DEF Inv, TypeOK, Finish, Locked, Placed, At
  <1>2. PICK v \in Row : /\ row' = [row EXCEPT ![m] = v]
                         /\ v.opinion = 0
                         /\ v.id # 0 <=> co[r].op = "join"
                         /\ lastId' \in Nat \ {0}
                         /\ memberCount' = IF co[r].op = "join" THEN memberCount + 1
                                           ELSE memberCount - 1
    <2>1. NoRow \in Row /\ NoRow.id = 0 /\ NoRow.opinion = 0
      BY OpinionNumbers DEF NoRow, Row
    <2>2. CASE co[r].op = "join"
      <3> PICK v : v = [NoRow EXCEPT !.id = lastId + 1]
        OBVIOUS
      <3>1. lastId \in Nat \ {0}
        BY DEF Inv, TypeOK
      <3>2. v \in Row /\ v.id # 0 /\ v.opinion = 0
        BY <2>1, <3>1 DEF Row
      <3>3. /\ row' = [row EXCEPT ![m] = v] /\ lastId' \in Nat \ {0}
            /\ memberCount' = memberCount + 1
        BY <2>2, <3>1
      <3> QED
        BY <2>2, <3>2, <3>3
    <2>3. CASE co[r].op = "leave"
      <3>1. /\ row' = [row EXCEPT ![m] = NoRow] /\ lastId' = lastId
            /\ memberCount' = memberCount - 1
        BY <2>3
      <3>2. lastId \in Nat \ {0}
        BY DEF Inv, TypeOK
      <3> QED
        BY <2>1, <2>3, <3>1, <3>2
    <2> QED
      BY <1>1, <2>2, <2>3
  <1>3. /\ row \in [Member -> Row] /\ row' \in [Member -> Row] /\ row'[m] = v
        /\ \A n \in Member \ {m} : row'[n] = row[n]
        /\ memberCount \in Int
    BY <1>1, <1>2 DEF Inv, TypeOK
  <1>4. TypeOK'
    BY <1>0, <1>1, <1>2, <1>3, IdleFits DEF Inv, TypeOK
  <1>5. \A o \in Request : Placed(co[o])'
    BY <1>1, IdleFits DEF Inv, Placed, Holds
  <1>6. Locked'
    <2>1. \A o \in Request : At(o, "commit")' =>
             o # r /\ At(o, "commit") /\ co'[o] = co[o] /\ co[o].who # m
      BY <1>1, IdleFits DEF At
    <2>2. \A o \in Request : At(o, "commit")' => co[o].who \in Member
      BY <2>1 DEF Inv, Placed, At
    <2> QED
      BY <1>3, <2>1, <2>2 DEF Inv, Locked, Participates
  <1>7. CountFollowsRows'
    <2>0. alive' = alive /\ revived' = revived /\ revived \in Int /\ CountFollowsRows
      BY <1>0 DEF Inv, TypeOK
    <2>1. SUFFICES ASSUME alive' PROVE memberCount' + revived' = Cardinality(P')
      BY Zenon DEF CountFollowsRows
    <2>2. memberCount + revived = Cardinality(P)
      BY <2>0, <2>1, Zenon DEF CountFollowsRows
    <2>3. IsFiniteSet(P) /\ Cardinality(P) \in Nat
      BY MembersFinite, FS_CardinalityType
    <2>4. CASE co[r].op = "join"
      <3>1. P' = P \cup {m} /\ m \notin P
        BY <1>1, <1>2, <1>3, <2>4 DEF Participates
      <3>2. Cardinality(P \cup {m}) = Cardinality(P) + 1
        BY <2>3, <3>1, FS_AddElement
      <3> HIDE DEF P
      <3> QED
        BY <1>2, <1>3, <2>0, <2>2, <2>3, <2>4, <3>1, <3>2
    <2>5. CASE co[r].op = "leave"
      <3>1. P' = P \ {m} /\ m \in P
        BY <1>1, <1>2, <1>3, <2>5 DEF Participates
      <3>2. Cardinality(P \ {m}) = Cardinality(P) - 1
        BY <2>3, <3>1, FS_RemoveElement
      <3> HIDE DEF P
      <3> QED
        BY <1>2, <1>3, <2>0, <2>2, <2>3, <2>5, <3>1, <3>2
    <2> QED
      BY <1>1, <2>4, <2>5
  <1>8. Owned'
    <2>1. \A o \in Request \ {r} : Own(o, co[o])' /\ Counted(co[o])'
      <3> SUFFICES ASSUME NEW o \in Request \ {r} PROVE Own(o, co[o])' /\ Counted(co[o])'
        OBVIOUS
      <3>1. Own(o, co[o]) /\ Counted(co[o]) /\ Placed(co[o])
        BY DEF Inv, Owned
      <3>2. Counted(co[o])'
        BY <1>0, <1>1, <3>1 DEF Counted
      <3>3. Fresh(co[o]) => \A n \in Member : row'[n].opinion # co[o].write
        BY <1>2, <1>3, <3>1 DEF Own, Fresh, Placed
      <3>4. Holds(co[o]) /\ co[o].seen.opinion # 0 /\ row'[co[o].who].opinion = co[o].seen.opinion
              => row'[co[o].who].id = co[o].seen.id
        BY <1>2, <1>3, <3>1 DEF Own, Holds, Placed
      <3> QED
        BY <1>1, <3>1, <3>2, <3>3, <3>4, IdleFits DEF Own, Fresh, Holds
    <2>2. Own(r, co[r])' /\ Counted(co[r])'
      BY <1>0, <1>1, IdleFits, OpinionNumbers DEF Own, Counted, Fresh, Holds, Inv, TypeOK
    <2>3. \A n \in Member : row'[n].opinion <= calls' + 1
      BY <1>0, <1>2, <1>3, OpinionNumbers DEF Inv, Owned, TypeOK
    <2> QED
      BY <2>1, <2>2, <2>3 DEF Owned
  <1>9. Unsaid'
    <2>1. \A o \in Request : At(o, "announce")' \/ co'[o].fresh => co'[o] = co[o]
      BY <1>1, IdleFits DEF At
    <2> QED
      BY <1>0, <1>1, <2>1 DEF Inv, Unsaid, At
  <1>10. SentOnce'
    BY <1>0 DEF Inv, SentOnce
  <1>11. InRoom' /\ \A s \in Socket : Informed(sock[s])'
    <2>1. \A o \in Request : \A item : Tells(co[o], item) => Tells(co'[o], item)
      BY <1>0, <1>1 DEF Tells
    <2>2. \A s \in Socket : \A item : Reaches(sock[s], item) => Reaches(sock[s], item)'
      BY <1>0, <2>1 DEF Reaches
    <2>3. \A t : Newer(t)' = Newer(t)
      BY <1>0 DEF Newer
    <2>4. ASSUME NEW s \in Socket PROVE Informed(sock[s])'
      <3>1. Informed(sock[s])
        BY DEF Inv
      <3>2. \A n \in Member : row'[n].opinion = 0 \/ row'[n].opinion = row[n].opinion
        BY <1>2, <1>3
      <3> QED
        BY <1>0, <2>2, <2>3, <3>1, <3>2 DEF Informed, Listening
    <2> QED
      BY <1>0, <2>4 DEF Inv, InRoom, Listening
  <1> QED
    BY <1>4, <1>5, <1>6, <1>7, <1>8, <1>9, <1>10, <1>11 DEF Inv

-----------------------------------------------------------------------------
(* What is stored: the saves of a row, and messages *)

\* save has written: the room is about to be told, or the answer was lost.
LEMMA SavesKeepsInv ==
    ASSUME Inv, NEW r \in Request, co[r].step = "write", Saves(r),
           NEW x \in Place, co' = [co EXCEPT ![r] = x],
           x = Idle \/ x = [co[r] EXCEPT !.step = "announce"],
           unheard' \subseteq Item, unheard \cup WroteBack(r) \subseteq unheard',
           co[r].op = "opinion" /\ x = Idle => <<co[r].who, co[r].write>> \in unheard',
           UNCHANGED <<sessions, calls>>, faults' \in 0..MaxFaults
    PROVE  Inv'
  <1> DEFINE m == co[r].who
             new == co[r].seen
             P == {n \in Member : Participates(n)}
  <1>0. UNCHANGED <<alive, memberCount, lastId, stored, clock, sent, room, sock>>
    BY DEF Saves
  <1>1. /\ co \in [Request -> Place] /\ co'[r] = x
        /\ \A o \in Request \ {r} : co'[o] = co[o]
        /\ co[r] \in Place /\ Placed(co[r]) /\ Own(r, co[r]) /\ Counted(co[r])
        /\ m \in Member /\ new \in Row /\ co[r].op \in {"opinion", "intent"}
        /\ Holds(co[r]) /\ new.id # 0 /\ (co[r].op = "opinion" => new.opinion = co[r].write)
    BY DEF Inv, TypeOK, Owned, Placed, Holds, Place
  <1>2. /\ x.step \in {"idle", "announce"} /\ ~x.fresh
        /\ x.op = "none" \/ x.op = co[r].op
        /\ x # Idle => /\ x.step = "announce" /\ x.op = co[r].op
                       /\ x.who = m /\ x.write = co[r].write
        /\ x.op = "opinion" => x.write = co[r].write
        /\ Placed(x) /\ Counted(x)'
    <2>1. CASE x = Idle
      BY <2>1, IdleFits, OpinionNumbers DEF Counted, Inv, TypeOK
    <2>2. CASE x = [co[r] EXCEPT !.step = "announce"]
      BY <1>1, <2>2 DEF Place, Placed, Counted, Holds
    <2> QED
      BY <2>1, <2>2
  <1>3. PICK v \in Row :
           /\ row' = [row EXCEPT ![m] = v]
           /\ \/ v.id = row[m].id /\ v.opinion = row[m].opinion /\ co[r].found
              \/ /\ v.id = new.id /\ v.opinion = new.opinion
                 /\ co[r].found => row[m].id = new.id /\ "opinion" \in co[r].stale
                 /\ ~co[r].found => ~Participates(m)
           /\ revived' = IF co[r].found THEN revived ELSE revived + 1
    <2>1. row \in [Member -> Row] /\ row[m] \in Row
      BY <1>1 DEF Inv, TypeOK
    <2>2. CASE ~co[r].found
      BY <1>1, <2>1, <2>2 DEF Saves
    <2>3. CASE co[r].found /\ row[m].id # new.id
      <3>1. row' = [row EXCEPT ![m] = row[m]] /\ revived' = revived
        BY <1>1, <2>1, <2>3 DEF Saves
      <3> QED
        BY <2>1, <2>3, <3>1
    <2>4. CASE co[r].found /\ row[m].id = new.id
      <3> DEFINE opinion == IF "opinion" \in co[r].stale THEN new.opinion
                            ELSE row[m].opinion
                 open == IF "open" \in co[r].stale THEN new.open ELSE row[m].open
      <3>1. /\ row' = [row EXCEPT ![m] = [id |-> row[m].id, opinion |-> opinion,
                                          open |-> open]]
            /\ revived' = revived
        BY <1>1, <2>1, <2>4 DEF Saves
      <3>2. opinion \in Opinion /\ open \in BOOLEAN /\ row[m].id \in Nat
        BY <1>1, <2>1 DEF Row
      <3>3. \/ opinion = row[m].opinion
            \/ opinion = new.opinion /\ "opinion" \in co[r].stale
        OBVIOUS
      <3> HIDE DEF opinion, open
      <3> PICK v : v = [id |-> row[m].id, opinion |-> opinion, open |-> open]
        OBVIOUS
      <3>4. v \in Row /\ v.id = row[m].id /\ v.opinion = opinion
        BY <3>2 DEF Row
      <3> QED
        BY <2>4, <3>1, <3>3, <3>4
    <2> QED
      BY <2>2, <2>3, <2>4
  <1>4. /\ row \in [Member -> Row] /\ row' \in [Member -> Row] /\ row'[m] = v
        /\ \A n \in Member \ {m} : row'[n] = row[n]
        /\ revived \in Nat /\ memberCount \in Int
    BY <1>1, <1>3 DEF Inv, TypeOK
  <1>5. TypeOK'
    BY <1>0, <1>1, <1>3, <1>4 DEF Inv, TypeOK
  <1>6. \A o \in Request : Placed(co[o])'
    BY <1>1, <1>2 DEF Inv, Placed, Holds
  <1>7. Locked'
    <2>1. \A o \in Request : At(o, "commit")' =>
             o # r /\ At(o, "commit") /\ co'[o] = co[o] /\ co[o].who # m
                   /\ co[o].who \in Member
      BY <1>1, <1>2 DEF At, Saves, RowLocked, Inv, Placed
    <2> QED
      BY <1>4, <2>1 DEF Inv, Locked, Participates
  <1>8. CountFollowsRows'
    <2>1. CASE co[r].found
      <3>1. \A n \in Member : Participates(n)' <=> Participates(n)
        BY <1>1, <1>3, <1>4, <2>1 DEF Participates
      <3> QED
        BY <1>0, <1>3, <2>1, <3>1, CountStays DEF Inv
    <2>2. CASE ~co[r].found
      <3>0. alive' = alive /\ memberCount' = memberCount /\ revived' = revived + 1
            /\ CountFollowsRows
        BY <1>0, <1>3, <2>2 DEF Inv
      <3>1. SUFFICES ASSUME alive' PROVE memberCount' + revived' = Cardinality(P')
        BY Zenon DEF CountFollowsRows
      <3>2. memberCount + revived = Cardinality(P)
        BY <3>0, <3>1, Zenon DEF CountFollowsRows
      <3>3. IsFiniteSet(P) /\ Cardinality(P) \in Nat
        BY MembersFinite, FS_CardinalityType
      <3>4. P' = P \cup {m} /\ m \notin P
        BY <1>1, <1>3, <1>4, <2>2 DEF Participates
      <3>5. Cardinality(P \cup {m}) = Cardinality(P) + 1
        BY <3>3, <3>4, FS_AddElement
      <3> HIDE DEF P
      <3> QED
        BY <1>4, <3>0, <3>2, <3>3, <3>4, <3>5
    <2> QED
      BY <2>1, <2>2
  <1>9. Owned'
    <2>1. ASSUME NEW o \in Request \ {r} PROVE Own(o, co[o])' /\ Counted(co[o])'
      <3>1. Own(o, co[o]) /\ Counted(co[o]) /\ Placed(co[o]) /\ Own(r, co[r])
        BY DEF Inv, Owned
      <3>2. Counted(co[o])'
        BY <1>1, <3>1 DEF Counted
      <3>3. Fresh(co[o]) => \A n \in Member : row'[n].opinion # co[o].write
        BY <1>1, <1>3, <1>4, <3>1 DEF Own, Fresh, Holds
      <3>4. Holds(co[o]) /\ co[o].seen.opinion # 0 /\ row'[co[o].who].opinion = co[o].seen.opinion
              => row'[co[o].who].id = co[o].seen.id
        BY <1>1, <1>3, <1>4, <3>1 DEF Own, Holds, Placed
      <3>5. /\ Holds(co[o]) /\ co[o].seen.opinion # 0 =>
                 \A p \in Request \ {o} :
                    Holds(co'[p]) /\ co'[p].who = co[o].who
                      /\ co'[p].seen.opinion = co[o].seen.opinion
                      => co'[p].seen.id = co[o].seen.id
            /\ co[o].op = "opinion" =>
                 \A p \in Request \ {o} : co'[p].op = "opinion" => co'[p].write # co[o].write
            /\ Fresh(co[o]) =>
                 \A p \in Request \ {o} : Holds(co'[p]) => co'[p].seen.opinion # co[o].write
            /\ Holds(co[o]) =>
                 \A p \in Request \ {o} : Fresh(co'[p]) => co'[p].write # co[o].seen.opinion
        BY <1>1, <1>2, <3>1 DEF Own, Fresh, Holds
      <3> QED
        BY <1>1, <3>2, <3>3, <3>4, <3>5 DEF Own
    <2>2. Own(r, co[r])' /\ Counted(co[r])'
      BY <1>1, <1>2 DEF Own, Counted, Fresh, Holds
    <2>3. \A n \in Member : row'[n].opinion <= calls' + 1
      BY <1>1, <1>3, <1>4 DEF Inv, Owned, Counted
    <2> QED
      BY <2>1, <2>2, <2>3 DEF Owned
  <1>10. Unsaid'
    <2>1. \A o \in Request : co'[o].fresh \/ (At(o, "announce")' /\ co'[o].op \in {"send", "notice"})
                               => co'[o] = co[o]
      BY <1>1, <1>2 DEF At
    <2> QED
      BY <1>0, <1>1, <2>1 DEF Inv, Unsaid, At
  <1>11. SentOnce'
    BY <1>0 DEF Inv, SentOnce
  <1>12. InRoom' /\ \A s \in Socket : Informed(sock[s])'
    <2>1. \A o \in Request : \A item : Tells(co[o], item) => Tells(co'[o], item)
      BY <1>1 DEF Tells
    <2>2. \A s \in Socket : \A item : Reaches(sock[s], item) => Reaches(sock[s], item)'
      BY <1>0, <2>1 DEF Reaches
    <2>3. \A t : Newer(t)' = Newer(t)
      BY <1>0 DEF Newer
    <2>4. \/ v.opinion = 0
          \/ v.opinion = row[m].opinion
          \/ <<m, v.opinion>> \in unheard'
          \/ Tells(co'[r], <<m, v.opinion>>)
      <3>1. CASE co[r].op = "opinion"
        BY <1>1, <1>2, <1>3, <3>1 DEF Tells
      <3>2. CASE co[r].op = "intent"
        <4>1. \/ v.opinion = row[m].opinion
              \/ v.opinion = new.opinion /\ (new.opinion = 0 \/ "opinion" \in co[r].stale)
          BY <1>1, <1>3, <3>2 DEF Placed
        <4> QED
          BY <3>2, <4>1 DEF WroteBack
      <3> QED
        BY <1>1, <3>1, <3>2
    <2>5. ASSUME NEW s \in Socket PROVE Informed(sock[s])'
      <3>1. Informed(sock[s])
        BY DEF Inv
      <3>2. \A n \in Member : \/ row'[n].opinion = 0
                              \/ row'[n].opinion = row[n].opinion
                              \/ Reaches(sock[s], <<n, row[n].opinion>>)'
        BY <1>4, <2>4 DEF Reaches
      <3> QED
        BY <1>0, <2>2, <2>3, <3>1, <3>2 DEF Informed, Listening
    <2> QED
      BY <1>0, <2>5 DEF Inv, InRoom, Listening
  <1> QED
    BY <1>5, <1>6, <1>7, <1>8, <1>9, <1>10, <1>11, <1>12 DEF Inv

\* A replay that does not reach back to a message never does.
LEMMA NewerGrows ==
    ASSUME stored \in [Text -> Nat], stored' \in [Text -> Nat],
           \A u \in Text : stored[u] # 0 => stored'[u] = stored[u],
           NEW t \in Text, stored[t] # 0, Cardinality(Newer(t)) >= ReplayLimit
    PROVE  Cardinality(Newer(t)') >= ReplayLimit
  <1>1. Newer(t) \subseteq Newer(t)' /\ Newer(t)' \subseteq Text
    BY DEF Newer
  <1>2. IsFiniteSet(Text)
    BY CommunityConstants, FS_Union DEF Text
  <1>3. IsFiniteSet(Newer(t)')
    BY <1>1, <1>2, FS_Subset
  <1>4. IsFiniteSet(Newer(t)) /\ Cardinality(Newer(t)) <= Cardinality(Newer(t)')
    BY <1>1, <1>3, FS_Subset
  <1>5. Cardinality(Newer(t)) \in Nat /\ Cardinality(Newer(t)') \in Nat /\ ReplayLimit \in Nat
    BY <1>3, <1>4, FS_CardinalityType, CommunityConstants
  <1> QED
    BY <1>4, <1>5

\* The message is stored, or was: the room is about to be told, or the answer
\* was lost.
LEMMA StoresKeepsInv ==
    ASSUME Inv, NEW r \in Request, co[r].step = "store", Stores(r),
           NEW x \in Place, co' = [co EXCEPT ![r] = x],
           \/ x = Idle
           \/ x = [co[r] EXCEPT !.step = "announce", !.fresh = (stored[co[r].text] = 0)],
           unheard' \subseteq Item, unheard \subseteq unheard',
           x = Idle => co[r].text \in unheard',
           UNCHANGED <<sessions, calls>>, faults' \in 0..MaxFaults
    PROVE  Inv'
  <1> DEFINE t == co[r].text
             new == (stored[t] = 0)
  <1>0. UNCHANGED <<alive, memberCount, row, lastId, revived, clock, sent, room, sock>>
    BY DEF Stores
  <1>1. /\ co \in [Request -> Place] /\ co'[r] = x
        /\ \A o \in Request \ {r} : co'[o] = co[o]
        /\ co[r] \in Place /\ Placed(co[r]) /\ Own(r, co[r]) /\ Counted(co[r])
        /\ t \in Text /\ co[r].op \in {"send", "notice"} /\ co[r].time \in Nat \ {0}
    BY DEF Inv, TypeOK, Owned, Placed, Place
  <1>2. /\ stored \in [Text -> Nat]
        /\ stored' = [stored EXCEPT ![t] = IF @ = 0 THEN co[r].time ELSE @]
    BY DEF Inv, TypeOK, Stores
  <1>3. /\ stored' \in [Text -> Nat] /\ stored'[t] # 0
        /\ \A u \in Text : stored[u] # 0 => stored'[u] = stored[u]
        /\ \A u \in Text \ {t} : stored'[u] = stored[u]
    BY <1>1, <1>2
  <1>4. /\ x = Idle \/ /\ x.step = "announce" /\ x.op = co[r].op /\ x.text = t
                       /\ x.fresh <=> new
        /\ x.op # "opinion" /\ ~Holds(x) /\ Placed(x) /\ Counted(x)
    <2>1. CASE x = Idle
      BY <2>1, IdleFits, OpinionNumbers DEF Counted, Inv, TypeOK, Holds
    <2>2. CASE x = [co[r] EXCEPT !.step = "announce", !.fresh = new]
      <3>1. new \in BOOLEAN
        OBVIOUS
      <3> HIDE DEF new
      <3> QED
        BY <1>1, <2>2, <3>1 DEF Place, Placed, Counted, Holds
    <2> QED
      BY <2>1, <2>2
  <1>5. TypeOK'
    BY <1>0, <1>1, <1>3 DEF Inv, TypeOK
  <1>6. \A o \in Request : Placed(co[o])'
    BY <1>1, <1>4 DEF Inv, Placed, Holds
  <1>7. Locked'
    <2>1. \A o \in Request : At(o, "commit")' => At(o, "commit") /\ co'[o] = co[o]
      BY <1>1, <1>4, IdleFits DEF At
    <2> QED
      BY <1>0, <2>1 DEF Inv, Locked, Participates
  <1>8. CountFollowsRows'
    BY <1>0, CountStays DEF Inv, Participates
  <1>9. Owned'
    <2>1. Own(r, x)
      BY <1>4 DEF Own, Fresh
    <2>2. calls' \in Nat /\ calls <= calls'
      BY OpinionNumbers DEF Inv, TypeOK
    <2>3. Counted(x)'
      BY <1>4 DEF Counted
    <2> QED
      BY <1>0, <2>1, <2>2, <2>3, OwnedStays
  <1>10. Unsaid'
    <2>1. new => sent[t] = 0 /\ \A o \in Request : ~(co[o].fresh /\ co[o].text = t)
      BY <1>1 DEF Inv, SentOnce, Unsaid, Placed, At
    <2>2. co'[r].fresh => new /\ co'[r].text = t
      BY <1>1, <1>4, IdleFits
    <2>3. At(r, "announce")' /\ co'[r].op \in {"send", "notice"} => stored'[co'[r].text] # 0
      BY <1>1, <1>3, <1>4, IdleFits DEF At
    <2>4. ASSUME NEW o \in Request \ {r}, At(o, "announce"), co[o].op \in {"send", "notice"}
          PROVE  stored'[co[o].text] # 0
      <3>1. co[o].text \in Text /\ stored[co[o].text] # 0
        BY <2>4 DEF Inv, Placed, Unsaid, At
      <3> QED
        BY <1>3, <3>1
    <2> QED
      BY <1>0, <1>1, <2>1, <2>2, <2>3, <2>4 DEF Inv, Unsaid, At
  <1>11. SentOnce'
    <2>1. \A u \in Text : stored'[u] = 0 => stored[u] = 0
      BY <1>3
    <2> QED
      BY <1>0, <2>1 DEF Inv, SentOnce
  <1>12. InRoom' /\ \A s \in Socket : Informed(sock[s])'
    <2>1. \A o \in Request : \A item : Tells(co[o], item) => Tells(co'[o], item)
      BY <1>1 DEF Tells, Placed
    <2>2. \A s \in Socket : \A item : Reaches(sock[s], item) => Reaches(sock[s], item)'
      BY <1>0, <2>1 DEF Reaches
    <2>3. \/ stored[t] # 0
          \/ t \in unheard'
          \/ Tells(co'[r], t)
      BY <1>1, <1>4 DEF Tells
    <2>4. ASSUME NEW s \in Socket, Listening(sock[s]), NEW u \in Text
          PROVE  \/ stored'[u] = 0
                 \/ Reaches(sock[s], u)'
                 \/ Cardinality(Newer(u)') >= ReplayLimit
                 \/ sock[s].step = "replay" /\ "messages" \in sock[s].todo
      <3>1. CASE stored[u] # 0
        <4>1. \/ Reaches(sock[s], u)
              \/ Cardinality(Newer(u)) >= ReplayLimit
              \/ sock[s].step = "replay" /\ "messages" \in sock[s].todo
          BY <2>4, <3>1 DEF Inv, Informed
        <4> QED
          BY <1>2, <1>3, <2>2, <3>1, <4>1, NewerGrows
      <3>2. CASE stored[u] = 0 /\ u = t
        BY <2>3, <3>2 DEF Reaches
      <3>3. CASE stored[u] = 0 /\ u # t
        BY <1>3, <3>3
      <3> QED
        BY <3>1, <3>2, <3>3
    <2>5. ASSUME NEW s \in Socket PROVE Informed(sock[s])'
      <3>1. Informed(sock[s])
        BY DEF Inv
      <3> QED
        BY <1>0, <2>2, <2>4, <3>1 DEF Informed, Listening
    <2> QED
      BY <1>0, <2>5 DEF Inv, InRoom, Listening
  <1> QED
    BY <1>5, <1>6, <1>7, <1>8, <1>9, <1>10, <1>11, <1>12 DEF Inv

-----------------------------------------------------------------------------
(* The room is told *)

LEMMA AnnounceKeepsInv ==
    ASSUME Inv, NEW r \in Request, Announce(r)
    PROVE  Inv'
  <1> DEFINE item == ItemOf(r)
             loud == co[r].op = "opinion" \/ co[r].fresh
             told1(s) == (loud /\ Hears(s, r)) \/ (co[r].op # "intent" /\ IsAcked(s, r))
  <1>0. /\ UNCHANGED <<alive, memberCount, row, lastId, revived, stored, clock>>
        /\ UNCHANGED <<unheard, room, sessions, calls, faults>>
        /\ co[r].step = "announce" /\ co' = [co EXCEPT ![r] = Idle]
        /\ sock' = [s \in Socket |-> IF told1(s)
                                     THEN [sock[s] EXCEPT !.got = @ \cup {item}]
                                     ELSE sock[s]]
        /\ sent' = IF co[r].fresh THEN [sent EXCEPT ![co[r].text] = @ + 1] ELSE sent
    BY DEF Announce, rows, bounds, At, Finish
  <1>1. /\ co \in [Request -> Place] /\ co'[r] = Idle
        /\ \A o \in Request \ {r} : co'[o] = co[o]
        /\ co[r] \in Place /\ Placed(co[r])
        /\ sock \in [Socket -> Connected] /\ sent \in [Text -> Nat]
    BY <1>0 DEF Inv, TypeOK
  <1>2. /\ co[r].op = "intent" \/ item \in Item
        /\ item \in Text => /\ co[r].op = "intent" \/ co[r].op \in {"send", "notice"}
                            /\ item = co[r].text
        /\ co[r].op \in {"opinion", "intent", "send", "notice"}
        /\ co[r].op # "opinion" => item = co[r].text
        /\ co[r].op = "opinion" => item = <<co[r].who, co[r].write>>
    BY <1>0, <1>1, ItemsAreTold DEF ItemOf, Item, Placed, Place
  <1>3. \A s \in Socket : /\ sock'[s] \in Connected
                          /\ sock'[s].ready = sock[s].ready /\ sock'[s].step = sock[s].step
                          /\ sock'[s].todo = sock[s].todo /\ sock'[s].batch = sock[s].batch
                          /\ sock[s].got \subseteq sock'[s].got
                          /\ sock'[s].got \subseteq sock[s].got \cup {item}
                          /\ told1(s) => item \in sock'[s].got
                          /\ ~told1(s) => sock'[s] = sock[s]
    <2> SUFFICES ASSUME NEW s \in Socket
                 PROVE  /\ sock'[s] \in Connected
                        /\ sock'[s].ready = sock[s].ready /\ sock'[s].step = sock[s].step
                        /\ sock'[s].todo = sock[s].todo /\ sock'[s].batch = sock[s].batch
                        /\ sock[s].got \subseteq sock'[s].got
                        /\ sock'[s].got \subseteq sock[s].got \cup {item}
                        /\ told1(s) => item \in sock'[s].got
                        /\ ~told1(s) => sock'[s] = sock[s]
      OBVIOUS
    <2>1. CASE told1(s)
      <3>1. item \in Item
        BY <1>1, <1>2, <2>1 DEF Placed
      <3>2. sock'[s] = [sock[s] EXCEPT !.got = @ \cup {item}] /\ sock[s] \in Connected
        BY <1>0, <1>1, <2>1
      <3> HIDE DEF item, told1
      <3> QED
        BY <2>1, <3>1, <3>2 DEF Connected
    <2>2. CASE ~told1(s)
      <3>1. sock'[s] = sock[s] /\ sock[s] \in Connected
        BY <1>0, <1>1, <2>2
      <3> HIDE DEF item, told1
      <3> QED
        BY <2>2, <3>1
    <2> QED
      BY <2>1, <2>2
  <1>4. /\ sent' \in [Text -> Nat]
        /\ \A t \in Text : sent'[t] = IF co[r].fresh /\ t = co[r].text THEN sent[t] + 1
                                      ELSE sent[t]
    BY <1>0, <1>1, <1>2 DEF Placed
  <1>5. sock' \in [Socket -> Connected]
    BY <1>0, <1>3
  <1> HIDE DEF item, loud, told1
  <1>6. TypeOK'
    BY <1>0, <1>1, <1>4, <1>5, IdleFits DEF Inv, TypeOK
  <1>7. \A o \in Request : Placed(co[o])'
    BY <1>1, IdleFits DEF Inv, Placed, Holds
  <1>8. Locked'
    <2>1. \A o \in Request : At(o, "commit")' => At(o, "commit") /\ co'[o] = co[o]
      BY <1>1, IdleFits DEF At
    <2> QED
      BY <1>0, <2>1 DEF Inv, Locked, Participates
  <1>9. CountFollowsRows'
    BY <1>0, CountStays DEF Inv, Participates
  <1>10. Owned'
    <2>1. Counted(Idle)' /\ calls' \in Nat /\ calls <= calls'
      BY <1>0, IdleFits, OpinionNumbers DEF Counted, Inv, TypeOK
    <2> QED
      BY <1>0, <2>1, IdleFits, IdleOwns, OwnedStays
  <1>11. Unsaid'
    <2>1. \A o \in Request : At(o, "announce")' \/ co'[o].fresh => o # r /\ co'[o] = co[o]
      BY <1>1, IdleFits DEF At
    <2>2. \A o \in Request \ {r} : co[o].fresh => sent'[co[o].text] = 0
      BY <1>4 DEF Inv, Unsaid, Placed
    <2> QED
      BY <1>0, <2>1, <2>2 DEF Inv, Unsaid, At
  <1>12. SentOnce'
    <2> SUFFICES ASSUME NEW t \in Text
                 PROVE  /\ sent'[t] <= 1
                        /\ stored[t] = 0 => /\ sent'[t] = 0
                                            /\ \A s \in Socket :
                                                 t \notin sock'[s].got \cup sock'[s].batch
      BY <1>0 DEF SentOnce
    <2>1. /\ sent[t] <= 1 /\ sent[t] \in Nat
          /\ stored[t] = 0 => /\ sent[t] = 0
                              /\ \A s \in Socket : t \notin sock[s].got \cup sock[s].batch
      BY <1>1 DEF Inv, SentOnce
    <2>2. co[r].fresh => sent[co[r].text] = 0 /\ stored[co[r].text] # 0
      BY <1>0, <1>1 DEF Inv, Unsaid, Placed, At
    <2>3. ASSUME NEW s \in Socket, stored[t] = 0, t \in sock'[s].got
          PROVE  FALSE
      <3>1. told1(s) /\ t = item
        BY <1>3, <2>1, <2>3
      <3>2. co[r].op # "intent"
        BY <1>1, <3>1 DEF loud, told1, Placed
      <3>3. co[r].op \in {"send", "notice"} /\ t = co[r].text
        BY <1>2, <3>1, <3>2
      <3> QED
        BY <1>0, <2>3, <3>3 DEF Inv, Unsaid, At
    <2> QED
      BY <1>3, <1>4, <2>1, <2>2, <2>3
  <1>13. InRoom' /\ \A s \in Socket : Informed(sock[s])'
    <2>1. InRoom'
      BY <1>0, <1>3 DEF Inv, InRoom, Listening
    <2>2. ASSUME NEW s \in Socket, Listening(sock[s]), NEW any, Reaches(sock[s], any)
          PROVE  Reaches(sock[s], any)'
      <3>1. CASE any \in sock[s].got \cup sock[s].batch \cup unheard
        BY <1>0, <1>3, <3>1 DEF Reaches
      <3>2. CASE \E o \in Request \ {r} : Tells(co[o], any)
        BY <1>1, <3>2 DEF Reaches
      <3>3. CASE Tells(co[r], any)
        <4>1. s \in room /\ sock[s].ready
          BY <2>2 DEF Inv, InRoom, Listening
        <4>2. loud /\ any = item /\ co[r].op # "intent"
          BY <1>1, <1>2, <3>3 DEF Tells, loud, Placed
        <4>3. told1(s)
          BY <4>1, <4>2 DEF Hears, IsAcked, told1
        <4> QED
          BY <1>3, <4>2, <4>3 DEF Reaches
      <3> QED
        BY <2>2, <3>1, <3>2, <3>3 DEF Reaches
    <2>3. \A t : Newer(t)' = Newer(t)
      BY <1>0 DEF Newer
    <2>4. ASSUME NEW s \in Socket PROVE Informed(sock[s])'
      <3>1. Informed(sock[s])
        BY DEF Inv
      <3>2. Listening(sock[s])' => Listening(sock[s])
        BY <1>3 DEF Listening
      <3> QED
        BY <1>0, <1>3, <2>2, <2>3, <3>1, <3>2 DEF Informed
    <2> QED
      BY <2>1, <2>4
  <1> QED
    BY <1>6, <1>7, <1>8, <1>9, <1>10, <1>11, <1>12, <1>13 DEF Inv

\* The author or the committed message cannot be read: nobody is told.
LEMMA SilenceKeepsInv ==
    ASSUME Inv, NEW r \in Request, At(r, "announce"), Finish(r),
           unheard' = IF co[r].op # "intent" THEN unheard \cup {ItemOf(r)} ELSE unheard,
           UNCHANGED <<rows, sent, room, sock, sessions, calls>>,
           faults' \in 0..MaxFaults
    PROVE  Inv'
  <1>0. /\ UNCHANGED <<alive, memberCount, row, lastId, revived, stored, clock>>
        /\ co[r].step = "announce" /\ co' = [co EXCEPT ![r] = Idle]
    BY DEF rows, At, Finish
  <1>1. /\ co \in [Request -> Place] /\ co'[r] = Idle
        /\ \A o \in Request \ {r} : co'[o] = co[o]
        /\ co[r] \in Place /\ Placed(co[r])
    BY <1>0 DEF Inv, TypeOK
  <1>2. co[r].op = "intent" \/ ItemOf(r) \in Item
    BY <1>0, <1>1 DEF ItemOf, Item, Placed, Place
  <1>3. TypeOK'
    <2>1. unheard' \subseteq Item
      BY <1>2 DEF Inv, TypeOK
    <2> QED
      BY <1>0, <1>1, <2>1, IdleFits DEF Inv, TypeOK
  <1>4. \A o \in Request : Placed(co[o])'
    BY <1>1, IdleFits DEF Inv, Placed, Holds
  <1>5. Locked'
    <2>1. \A o \in Request : At(o, "commit")' => At(o, "commit") /\ co'[o] = co[o]
      BY <1>1, IdleFits DEF At
    <2> QED
      BY <1>0, <2>1 DEF Inv, Locked, Participates
  <1>6. CountFollowsRows'
    BY <1>0, CountStays DEF Inv, Participates
  <1>7. Owned'
    <2>1. Counted(Idle)' /\ calls' \in Nat /\ calls <= calls'
      BY <1>0, IdleFits, OpinionNumbers DEF Counted, Inv, TypeOK
    <2> QED
      BY <1>0, <2>1, IdleFits, IdleOwns, OwnedStays
  <1>8. Unsaid'
    <2>1. \A o \in Request : At(o, "announce")' \/ co'[o].fresh => o # r /\ co'[o] = co[o]
      BY <1>1, IdleFits DEF At
    <2> QED
      BY <1>0, <2>1 DEF Inv, Unsaid, At
  <1>9. SentOnce'
    BY <1>0 DEF Inv, SentOnce
  <1>10. InRoom' /\ \A s \in Socket : Informed(sock[s])'
    <2>1. \A any : Tells(co[r], any) => any \in unheard'
      BY <1>0, <1>1 DEF Tells, ItemOf, Placed
    <2>2. \A s \in Socket : \A any : Reaches(sock[s], any) => Reaches(sock[s], any)'
      <3> SUFFICES ASSUME NEW s \in Socket, NEW any, Reaches(sock[s], any)
                   PROVE  Reaches(sock[s], any)'
        OBVIOUS
      <3>1. CASE any \in sock[s].got \cup sock[s].batch \cup unheard
        BY <1>0, <3>1 DEF Reaches
      <3>2. CASE \E o \in Request \ {r} : Tells(co[o], any)
        BY <1>1, <3>2 DEF Reaches
      <3>3. CASE Tells(co[r], any)
        BY <2>1, <3>3 DEF Reaches
      <3> QED
        BY <3>1, <3>2, <3>3 DEF Reaches
    <2>3. \A t : Newer(t)' = Newer(t)
      BY <1>0 DEF Newer
    <2>4. ASSUME NEW s \in Socket PROVE Informed(sock[s])'
      <3>1. Informed(sock[s])
        BY DEF Inv
      <3> QED
        BY <1>0, <2>2, <2>3, <3>1 DEF Informed, Listening
    <2> QED
      BY <1>0, <2>4 DEF Inv, InRoom, Listening
  <1> QED
    BY <1>3, <1>4, <1>5, <1>6, <1>7, <1>8, <1>9, <1>10 DEF Inv

-----------------------------------------------------------------------------
(* A call arrives *)

\* A coroutine that neither submits an opinion nor is going to save a row.
LEMMA MildOwns ==
    ASSUME NEW r \in Request, NEW x, x.op # "opinion", ~Holds(x)
    PROVE  Own(r, x)
  BY DEF Own, Fresh

LEMMA BeginKeepsInv ==
    ASSUME Inv, NEW r \in Request, NEW x \in Place, Begin(r, x), Placed(x),
           x.step \notin {"commit", "announce"}, Own(r, x),
           x.write <= calls + 2, x.seen.opinion = 0,
           UNCHANGED <<alive, memberCount, row, lastId, revived, stored, told, room, sock>>,
           clock' \in Nat
    PROVE  Inv'
  <1>1. /\ co[r] = Idle /\ calls + faults < MaxCalls /\ calls' = calls + 1
        /\ co' = [co EXCEPT ![r] = x] /\ sessions' = sessions /\ faults' = faults
    BY DEF Begin
  <1>2. /\ calls \in Nat /\ faults \in 0..MaxFaults /\ MaxCalls \in Nat /\ MaxFaults \in Nat
        /\ alive' \in BOOLEAN /\ memberCount' \in Int
    BY CommunityConstants DEF Inv, TypeOK
  <1>3. calls' \in 0..MaxCalls /\ calls <= calls' /\ faults' \in 0..MaxFaults
    BY <1>1, <1>2
  <1>4. Counted(x)'
    BY <1>1, <1>2 DEF Counted
  <1>5. ~(co[r].step = "announce")
    BY <1>1, IdleFits
  <1> QED
    BY <1>1, <1>2, <1>3, <1>4, <1>5, QuietKeepsInv

LEMMA MildKeepsInv ==
    ASSUME Inv, NEW r \in Request, NEW x \in Place, Begin(r, x), Placed(x),
           x.step \notin {"commit", "announce"}, x.op # "opinion", ~Holds(x),
           x.write = 0, x.seen.opinion = 0,
           UNCHANGED <<alive, memberCount, row, lastId, revived, stored, told, room, sock>>,
           clock' \in Nat
    PROVE  Inv'
  <1>1. x.write <= calls + 2
    BY DEF Inv, TypeOK
  <1> QED
    BY <1>1, MildOwns, BeginKeepsInv

LEMMA ArriveKeepsInv ==
    ASSUME Inv, NEW r \in Request, Arrive(r)
    PROVE  Inv'
  <1> USE IdleFits
  <1>0. /\ clock \in Nat /\ calls \in Nat /\ memberCount \in Int /\ Via \subseteq Socket \cup {None}
        /\ MaxCalls \in Nat /\ 0 \in Opinion /\ NoRow \in Row
    BY OpinionNumbers DEF Inv, TypeOK, Via, NoRow, Row
  <1>1. ASSUME NEW m \in Member, BeginJoin(r, m) PROVE Inv'
    <2> PICK x : x = [Idle EXCEPT !.op = "join", !.step = "insert", !.who = m]
      OBVIOUS
    <2>1. /\ x \in Place /\ x.op = "join" /\ x.step = "insert" /\ x.who \in Member
          /\ ~x.fresh /\ x.write = 0 /\ x.seen.opinion = 0
      BY <1>0 DEF Place, Calls
    <2>2. ~Holds(x)
      BY <2>1 DEF Holds
    <2>3. Placed(x)
      BY <2>1, <2>2 DEF Placed
    <2>4. Begin(r, x) /\ UNCHANGED <<rows, told, room, sock>>
      BY <1>1 DEF BeginJoin
    <2> QED
      BY <1>0, <2>1, <2>2, <2>3, <2>4, MildKeepsInv DEF rows
  <1>2. ASSUME NEW m \in Member, BeginLeave(r, m) PROVE Inv'
    <2> PICK x : x = [Idle EXCEPT !.op = "leave", !.step = "delete", !.who = m]
      OBVIOUS
    <2>1. /\ x \in Place /\ x.op = "leave" /\ x.step = "delete" /\ x.who \in Member
          /\ ~x.fresh /\ x.write = 0 /\ x.seen.opinion = 0
      BY <1>0 DEF Place, Calls
    <2>2. ~Holds(x)
      BY <2>1 DEF Holds
    <2>3. Placed(x)
      BY <2>1, <2>2 DEF Placed
    <2>4. Begin(r, x) /\ UNCHANGED <<rows, told, room, sock>>
      BY <1>2 DEF BeginLeave
    <2> QED
      BY <1>0, <2>1, <2>2, <2>3, <2>4, MildKeepsInv DEF rows
  <1>3. ASSUME NEW m \in Member, BeginIntent(r, m) PROVE Inv'
    <2> PICK x : x = [Idle EXCEPT !.op = "intent", !.step = "read", !.who = m]
      OBVIOUS
    <2>1. /\ x \in Place /\ x.op = "intent" /\ x.step = "read" /\ x.who \in Member
          /\ ~x.fresh /\ x.write = 0 /\ x.seen.opinion = 0
      BY <1>0 DEF Place, Calls
    <2>2. ~Holds(x)
      BY <2>1 DEF Holds
    <2>3. Placed(x)
      BY <2>1, <2>2 DEF Placed
    <2>4. Begin(r, x) /\ UNCHANGED <<rows, told, room, sock>>
      BY <1>3 DEF BeginIntent
    <2> QED
      BY <1>0, <2>1, <2>2, <2>3, <2>4, MildKeepsInv DEF rows
  <1>4. ASSUME NEW m \in Member, NEW via \in Via, BeginOpinion(r, m, via) PROVE Inv'
    <2> PICK x : x = [Idle EXCEPT !.op = "opinion", !.step = "read", !.who = m,
                                  !.via = via, !.write = calls + 2]
      OBVIOUS
    <2>1. Begin(r, x) /\ UNCHANGED <<rows, told, room, sock>>
      BY <1>4 DEF BeginOpinion
    <2>2. calls + 2 \in Opinion
      BY <1>0, <2>1, CommunityConstants DEF Begin, Opinion, Inv, TypeOK
    <2>3. /\ x \in Place /\ x.op = "opinion" /\ x.step = "read" /\ x.who \in Member
          /\ ~x.fresh /\ x.write = calls + 2 /\ x.seen.opinion = 0
      BY <1>0, <2>2 DEF Place, Calls
    <2>4. Own(r, x)
      <3>1. \A o \in Request : /\ co[o].write <= calls + 1 /\ co[o].seen.opinion <= calls + 1
                               /\ co[o].write \in Int /\ co[o].seen.opinion \in Int
        BY OpinionNumbers DEF Inv, Owned, Counted, TypeOK, Place, Row
      <3>2. \A n \in Member : row[n].opinion <= calls + 1 /\ row[n].opinion \in Int
        BY OpinionNumbers DEF Inv, Owned, TypeOK, Row
      <3> QED
        BY <1>0, <2>3, <3>1, <3>2 DEF Own, Fresh, Holds
    <2>5. Placed(x) /\ x.write <= calls + 2
      BY <1>0, <2>3 DEF Placed, Holds
    <2> QED
      BY <1>0, <2>1, <2>3, <2>4, <2>5, BeginKeepsInv DEF rows
  <1>5. ASSUME NEW m \in Member, NEW via \in Via, NEW t \in Message,
               BeginSend(r, m, t, via)
        PROVE  Inv'
    <2> PICK x : x = [Idle EXCEPT !.op = "send", !.step = "check", !.who = m,
                                  !.text = t, !.via = via]
      OBVIOUS
    <2>1. /\ x \in Place /\ x.op = "send" /\ x.step = "check" /\ x.who \in Member
          /\ x.text \in Text /\ ~x.fresh /\ x.write = 0 /\ x.seen.opinion = 0
      BY <1>0 DEF Place, Calls, Text
    <2>2. ~Holds(x)
      BY <2>1 DEF Holds
    <2>3. Placed(x)
      BY <2>1, <2>2 DEF Placed
    <2>4. Begin(r, x) /\ UNCHANGED <<rows, told, room, sock>>
      BY <1>5 DEF BeginSend
    <2> QED
      BY <1>0, <2>1, <2>2, <2>3, <2>4, MildKeepsInv DEF rows
  <1>6. ASSUME NEW t \in Notice, BeginNotice(r, t) PROVE Inv'
    <2> PICK now \in Nat : now = clock + 1 /\ now > 0
      BY <1>0
    <2>0. t \in Text /\ now \in Int
      BY DEF Text
    <2> PICK x : x = [Idle EXCEPT !.op = "notice", !.step = "store", !.text = t,
                                  !.time = now]
      OBVIOUS
    <2>1. /\ x \in Place /\ x.op = "notice" /\ x.step = "store" /\ x.text \in Text
          /\ x.time = now /\ ~x.fresh /\ x.write = 0 /\ x.seen.opinion = 0
      BY <2>0 DEF Place, Calls
    <2>2. ~Holds(x)
      BY <2>1 DEF Holds
    <2>3. Placed(x)
      BY <2>1, <2>2 DEF Placed
    <2>4. /\ Begin(r, x) /\ clock' = clock + 1
          /\ UNCHANGED <<alive, memberCount, row, lastId, revived, stored, told, room, sock>>
      BY <1>6 DEF BeginNotice
    <2> QED
      BY <1>0, <2>1, <2>2, <2>3, <2>4, MildKeepsInv
  <1>7. ASSUME BeginDelete(r) PROVE Inv'
    <2> PICK x : x = [Idle EXCEPT !.op = "delete", !.step = "save", !.time = memberCount]
      OBVIOUS
    <2>1. /\ x \in Place /\ x.op = "delete" /\ x.step = "save"
          /\ ~x.fresh /\ x.write = 0 /\ x.seen.opinion = 0
      BY <1>0 DEF Place, Calls
    <2>2. ~Holds(x)
      BY <2>1 DEF Holds
    <2>3. Placed(x)
      BY <2>1, <2>2 DEF Placed
    <2>4. Begin(r, x) /\ UNCHANGED <<rows, told, room, sock>>
      BY <1>7 DEF BeginDelete
    <2> QED
      BY <1>0, <2>1, <2>2, <2>3, <2>4, MildKeepsInv DEF rows
  <1> QED
    BY <1>1, <1>2, <1>3, <1>4, <1>5, <1>6, <1>7 DEF Arrive

-----------------------------------------------------------------------------
(* The rooms *)

\* A connection moves; nothing is written.
LEMMA SocketKeepsInv ==
    ASSUME Inv, NEW s \in Socket, NEW y \in Connected,
           sock' = [sock EXCEPT ![s] = y],
           room' \subseteq Socket, room \ {s} \subseteq room',
           Listening(y) => s \in room', Informed(y),
           \A t \in Text : stored[t] = 0 => t \notin y.got \cup y.batch,
           UNCHANGED <<rows, told, co, calls>>,
           sessions' \in 0..MaxSessions, faults' \in 0..MaxFaults
    PROVE  Inv'
  <1>0. /\ UNCHANGED <<alive, memberCount, row, lastId, revived, stored, clock>>
        /\ UNCHANGED <<sent, unheard>>
    BY DEF rows, told
  <1>1. /\ sock' \in [Socket -> Connected] /\ sock'[s] = y
        /\ \A o \in Socket \ {s} : sock'[o] = sock[o]
    BY DEF Inv, TypeOK
  <1>2. TypeOK'
    BY <1>0, <1>1 DEF Inv, TypeOK
  <1>3. (\A r \in Request : Placed(co[r])') /\ Locked' /\ Owned' /\ Unsaid'
    BY <1>0 DEF Inv, Placed, Holds, Locked, Participates, Owned, Own, Counted, Fresh,
                Unsaid, At
  <1>4. CountFollowsRows'
    BY <1>0, CountStays DEF Inv, Participates
  <1>5. SentOnce'
    BY <1>0, <1>1 DEF Inv, SentOnce
  <1>6. InRoom'
    BY <1>1 DEF Inv, InRoom, Listening
  <1>7. \A z : Informed(z) => Informed(z)'
    <2>1. \A t : Newer(t)' = Newer(t)
      BY <1>0 DEF Newer
    <2>2. \A z, any : Reaches(z, any) => Reaches(z, any)'
      BY <1>0 DEF Reaches, Tells
    <2> QED
      BY <1>0, <2>1, <2>2 DEF Informed, Listening
  <1>8. \A o \in Socket : Informed(sock[o])'
    <2> SUFFICES ASSUME NEW o \in Socket PROVE Informed(sock[o])'
      OBVIOUS
    <2>1. PICK z : z = sock'[o] /\ Informed(z)
      BY <1>1 DEF Inv
    <2> QED
      BY <1>7, <2>1 DEF Informed, Listening, Reaches
  <1> QED
    BY <1>2, <1>3, <1>4, <1>5, <1>6, <1>8 DEF Inv

LEMMA ConnectionKeepsInv ==
    ASSUME Inv, NEW s \in Socket, Connection(s)
    PROVE  Inv'
  <1> DEFINE x == sock[s]
  <1>0. /\ x \in Connected /\ sock \in [Socket -> Connected] /\ Informed(x)
        /\ room \subseteq Socket /\ (Listening(x) => s \in room)
        /\ \A t \in Text : stored[t] = 0 => t \notin x.got \cup x.batch
        /\ sessions \in 0..MaxSessions /\ faults \in 0..MaxFaults
    BY DEF Inv, TypeOK, InRoom, SentOnce
  <1>1. CASE Connect(s)
    <2> PICK y : y = [NoSocket EXCEPT !.step = "check", !.ready = TRUE, !.left = FALSE]
      OBVIOUS
    <2>1. /\ y \in Connected /\ ~Listening(y) /\ y.got = {} /\ y.batch = {}
      BY NoSocketFits DEF Connected, Listening
    <2>2. /\ sock' = [sock EXCEPT ![s] = y] /\ room' = room
          /\ UNCHANGED <<rows, told, co, calls, faults>>
          /\ sessions < MaxSessions /\ sessions' = sessions + 1
      BY <1>1 DEF Connect
    <2>3. sessions' \in 0..MaxSessions
      BY <1>0, <2>2, CommunityConstants
    <2> QED
      BY <1>0, <2>1, <2>2, <2>3, SocketKeepsInv DEF Informed
  <1>2. CASE CheckJoinable(s)
    <2>1. CASE alive
      <3> PICK y : y = [x EXCEPT !.step = "replay", !.todo = {"messages", "opinions"}]
        OBVIOUS
      <3>1. /\ y \in Connected /\ y.got = x.got /\ y.batch = x.batch /\ y.step = "replay"
            /\ y.todo = {"messages", "opinions"}
        BY <1>0 DEF Connected
      <3>2. /\ sock' = [sock EXCEPT ![s] = y] /\ room' = room \cup {s}
            /\ UNCHANGED <<rows, told, co, bounds>>
        BY <1>2, <2>1 DEF CheckJoinable
      <3>3. Informed(y)
        BY <3>1 DEF Informed
      <3> QED
        BY <1>0, <3>1, <3>2, <3>3, SocketKeepsInv DEF bounds
    <2>2. CASE ~alive
      <3> PICK y : y = [x EXCEPT !.step = "refused", !.ready = FALSE, !.todo = {},
                                 !.batch = {}]
        OBVIOUS
      <3>1. /\ y \in Connected /\ y.got = x.got /\ y.batch = {} /\ ~Listening(y)
        BY <1>0 DEF Connected, Listening
      <3>2. /\ sock' = [sock EXCEPT ![s] = y] /\ room' = room \ {s}
            /\ UNCHANGED <<rows, told, co, bounds>>
        BY <1>2, <2>2 DEF CheckJoinable, Refuse
      <3> QED
        BY <1>0, <3>1, <3>2, SocketKeepsInv DEF Informed, bounds
    <2> QED
      BY <2>1, <2>2
  <1>3. CASE ReadMessages(s)
    <2> PICK y : y = [x EXCEPT !.todo = @ \ {"messages"}, !.batch = @ \cup Recent]
      OBVIOUS
    <2>1. /\ y \in Connected /\ y.got = x.got /\ y.batch = x.batch \cup Recent
          /\ y.todo = x.todo \ {"messages"} /\ y.step = x.step /\ y.ready = x.ready
      <3>1. Recent \subseteq Item
        BY DEF Recent, Item
      <3> HIDE DEF x
      <3> QED
        BY <1>0, <3>1 DEF Connected
    <2>2. /\ sock' = [sock EXCEPT ![s] = y] /\ UNCHANGED <<room, rows, told, co, bounds>>
          /\ x.step = "replay"
      BY <1>3 DEF ReadMessages, Replies
    <2>3. \A t \in Text : \/ stored[t] = 0
                          \/ t \in Recent
                          \/ Cardinality(Newer(t)) >= ReplayLimit
      <3> SUFFICES ASSUME NEW t \in Text PROVE Cardinality(Newer(t)) < ReplayLimit
                                               \/ Cardinality(Newer(t)) >= ReplayLimit
        BY DEF Recent
      <3>1. IsFiniteSet(Text)
        BY CommunityConstants, FS_Union DEF Text
      <3>2. Cardinality(Newer(t)) \in Nat
        BY <3>1, FS_Subset, FS_CardinalityType DEF Newer
      <3> QED
        BY <3>2, CommunityConstants
    <2>4. Informed(y)
      BY <1>0, <2>1, <2>2, <2>3 DEF Informed, Listening, Reaches
    <2>5. \A t \in Text : stored[t] = 0 => t \notin y.got \cup y.batch
      BY <1>0, <2>1 DEF Recent
    <2> QED
      BY <1>0, <2>1, <2>2, <2>4, <2>5, SocketKeepsInv DEF Listening, bounds
  <1>4. CASE ReadOpinions(s)
    <2> PICK y : y = [x EXCEPT !.todo = @ \ {"opinions"}, !.batch = @ \cup Opinions]
      OBVIOUS
    <2>1. Opinions \subseteq Member \X Opinion
      BY DEF Opinions, Inv, TypeOK, Row
    <2>2. /\ y \in Connected /\ y.got = x.got /\ y.batch = x.batch \cup Opinions
          /\ y.todo = x.todo \ {"opinions"} /\ y.step = x.step /\ y.ready = x.ready
      <3>1. Opinions \subseteq Item
        BY <2>1 DEF Item
      <3> HIDE DEF x
      <3> QED
        BY <1>0, <3>1 DEF Connected
    <2>3. /\ sock' = [sock EXCEPT ![s] = y] /\ UNCHANGED <<room, rows, told, co, bounds>>
          /\ x.step = "replay"
      BY <1>4 DEF ReadOpinions, Replies
    <2>4. \A m \in Member : row[m].opinion # 0 => <<m, row[m].opinion>> \in Opinions
      BY DEF Opinions
    <2>5. Informed(y)
      BY <1>0, <2>2, <2>3, <2>4 DEF Informed, Listening, Reaches
    <2>6. \A t \in Text : stored[t] = 0 => t \notin y.got \cup y.batch
      BY <1>0, <2>1, <2>2, ItemsAreTold
    <2> QED
      BY <1>0, <2>2, <2>3, <2>5, <2>6, SocketKeepsInv DEF Listening, bounds
  <1>5. CASE SendReplay(s)
    <2> PICK got : got = IF x.ready THEN x.got \cup x.batch ELSE x.got
      OBVIOUS
    <2> PICK y : y = [x EXCEPT !.step = "open", !.batch = {}, !.got = got]
      OBVIOUS
    <2>1. /\ y \in Connected /\ y.got = got /\ y.batch = {} /\ y.step = "open"
          /\ y.ready = x.ready
      <3>1. got \subseteq Item
        BY <1>0 DEF Connected
      <3> HIDE DEF x
      <3> QED
        BY <1>0, <3>1 DEF Connected
    <2>2. /\ sock' = [sock EXCEPT ![s] = y] /\ UNCHANGED <<room, rows, told, co, bounds>>
          /\ x.step = "replay" /\ x.todo = {}
      BY <1>5 DEF SendReplay
    <2>3. Informed(y)
      BY <1>0, <2>1, <2>2 DEF Informed, Listening, Reaches
    <2>4. \A t \in Text : stored[t] = 0 => t \notin y.got \cup y.batch
      BY <1>0, <2>1
    <2> QED
      BY <1>0, <2>1, <2>2, <2>3, <2>4, SocketKeepsInv DEF Listening, bounds
  <1>6. CASE SocketCloses(s)
    <2> PICK y : y = [x EXCEPT !.ready = FALSE]
      OBVIOUS
    <2>1. y \in Connected /\ y.got = x.got /\ y.batch = x.batch /\ ~Listening(y)
      BY <1>0 DEF Connected, Listening
    <2>2. sock' = [sock EXCEPT ![s] = y] /\ UNCHANGED <<room, rows, told, co, bounds>>
      BY <1>6 DEF SocketCloses
    <2> QED
      BY <1>0, <2>1, <2>2, SocketKeepsInv DEF Informed, bounds
  <1>7. CASE HandleDisconnect(s)
    <2> PICK y : y = [x EXCEPT !.left = TRUE]
      OBVIOUS
    <2>1. y \in Connected /\ y.got = x.got /\ y.batch = x.batch /\ y.ready = x.ready
      BY <1>0 DEF Connected
    <2>2. /\ sock' = [sock EXCEPT ![s] = y] /\ room' = room \ {s} /\ ~x.ready
          /\ UNCHANGED <<rows, told, co, bounds>>
      BY <1>7 DEF HandleDisconnect
    <2>3. ~Listening(y)
      BY <2>1, <2>2 DEF Listening
    <2> QED
      BY <1>0, <2>1, <2>2, <2>3, SocketKeepsInv DEF Informed, bounds
  <1> QED
    BY <1>1, <1>2, <1>3, <1>4, <1>5, <1>6, <1>7 DEF Connection

-----------------------------------------------------------------------------
(* The steps of a call *)

LEMMA ReadKeepsInv ==
    ASSUME Inv, NEW r \in Request, ReadRow(r)
    PROVE  Inv'
  <1> DEFINE old == row[co[r].who]
  <1>0. /\ co[r].step = "read" /\ UNCHANGED <<rows, told, room, sock, bounds>>
        /\ co \in [Request -> Place] /\ co[r] \in Place /\ Placed(co[r])
        /\ Own(r, co[r]) /\ Counted(co[r]) /\ co[r].who \in Member /\ old \in Row
        /\ row \in [Member -> Row] /\ old.opinion <= calls + 1
    BY DEF ReadRow, At, Inv, TypeOK, Owned, Placed
  <1>1. CASE old.id = 0
    <2>1. Finish(r)
      BY <1>1 DEF ReadRow
    <2> QED
      BY <1>0, <2>1, FinishKeepsInv DEF bounds, Inv, TypeOK
  <1>2. CASE old.id # 0
    <2>1. PICK new \in Row :
             /\ co' = [co EXCEPT ![r].seen = new, ![r].step = "select"]
             /\ new.id = old.id
             /\ \/ co[r].op = "opinion" /\ new.opinion = co[r].write
                \/ co[r].op = "intent" /\ new.opinion = old.opinion
      <3>1. CASE co[r].op = "opinion"
        <4> PICK new : new = [old EXCEPT !.opinion = co[r].write]
          OBVIOUS
        <4>1. new \in Row /\ new.id = old.id /\ new.opinion = co[r].write
          BY <1>0 DEF Row, Place
        <4>2. co' = [co EXCEPT ![r].seen = new, ![r].step = "select"]
          BY <1>2, <3>1 DEF ReadRow
        <4> QED
          BY <3>1, <4>1, <4>2
      <3>2. CASE co[r].op # "opinion"
        <4> PICK to \in BOOLEAN :
               co' = [co EXCEPT ![r].seen = [old EXCEPT !.open = to], ![r].step = "select"]
          BY <1>2, <3>2 DEF ReadRow
        <4> PICK new : new = [old EXCEPT !.open = to]
          OBVIOUS
        <4>1. new \in Row /\ new.id = old.id /\ new.opinion = old.opinion
          BY <1>0 DEF Row
        <4>2. co[r].op = "intent"
          BY <1>0, <3>2 DEF Placed
        <4> QED
          BY <4>1, <4>2
      <3> QED
        BY <3>1, <3>2
    <2> PICK x : x = [co[r] EXCEPT !.seen = new, !.step = "select"]
      OBVIOUS
    <2>2. co' = [co EXCEPT ![r] = x]
      BY <1>0, <2>1
    <2>3. /\ x \in Place /\ x.op = co[r].op /\ x.who = co[r].who /\ x.step = "select"
          /\ x.write = co[r].write /\ x.seen = new /\ x.fresh = co[r].fresh
      BY <1>0 DEF Place
    <2>4. Placed(x)
      BY <1>0, <1>2, <2>1, <2>3 DEF Placed, Holds
    <2>5. Own(r, x)
      <3>1. ASSUME NEW o \in Request \ {r}, Fresh(co[o])
            PROVE  co[o].write # new.opinion
        <4>1. Own(o, co[o])
          BY DEF Inv, Owned
        <4> QED
          BY <1>0, <2>1, <3>1, <4>1 DEF Own, Fresh
      <3>2. ASSUME NEW o \in Request \ {r}, Holds(co[o]), co[o].who = co[r].who,
                   co[o].seen.opinion = new.opinion, new.opinion # 0
            PROVE  co[o].seen.id = new.id
        <4>1. Own(o, co[o])
          BY DEF Inv, Owned
        <4> QED
          BY <1>0, <2>1, <3>2, <4>1 DEF Own, Fresh
      <3> QED
        BY <1>0, <2>1, <2>3, <3>1, <3>2 DEF Own, Fresh, Holds
    <2>6. Counted(x)'
      BY <1>0, <2>1, <2>3 DEF Counted, bounds
    <2> QED
      <3>1. /\ calls' \in 0..MaxCalls /\ calls <= calls' /\ faults' \in 0..MaxFaults
            /\ clock' \in Nat /\ alive' \in BOOLEAN /\ memberCount' \in Int
        BY <1>0, CommunityConstants DEF rows, bounds, Inv, TypeOK
      <3> QED
        BY <1>0, <2>2, <2>3, <2>4, <2>5, <2>6, <3>1, QuietKeepsInv DEF rows, bounds
  <1> QED
    BY <1>1, <1>2

LEMMA SelectKeepsInv ==
    ASSUME Inv, NEW r \in Request, SelectRow(r)
    PROVE  Inv'
  <1> DEFINE old == row[co[r].who]
             new == co[r].seen
  <1>0. /\ co[r].step = "select" /\ UNCHANGED <<rows, told, room, sock, bounds>>
        /\ co \in [Request -> Place] /\ co[r] \in Place /\ Placed(co[r])
        /\ Own(r, co[r]) /\ Counted(co[r]) /\ Holds(co[r])
    BY DEF SelectRow, At, Inv, TypeOK, Owned, Holds
  <1> PICK stale \in SUBSET {"opinion", "open"} :
             stale = {c \in {"opinion", "open"} : old[c] # new[c]}
    OBVIOUS
  <1> PICK found \in BOOLEAN : found <=> old.id = new.id
    OBVIOUS
  <1> PICK x : x = [co[r] EXCEPT !.found = found, !.stale = stale, !.step = "write"]
    OBVIOUS
  <1>1. co' = [co EXCEPT ![r] = x]
    <2>1. found = (old.id = new.id)
      OBVIOUS
    <2> QED
      BY <1>0, <2>1 DEF SelectRow
  <1>2. /\ x \in Place /\ x.op = co[r].op /\ x.who = co[r].who /\ x.step = "write"
        /\ x.write = co[r].write /\ x.seen = new /\ x.fresh = co[r].fresh
        /\ x.found = found /\ x.stale = stale
    BY <1>0 DEF Place
  <1>3. Placed(x)
    <2>1. ~found /\ new.opinion # 0 => "opinion" \in stale
      BY <1>0 DEF Own
    <2> QED
      BY <1>0, <1>2, <2>1 DEF Placed, Holds
  <1>4. Own(r, x)
    BY <1>0, <1>2 DEF Own, Fresh, Holds
  <1>5. Counted(x)'
    BY <1>0, <1>2 DEF Counted, bounds
  <1>6. /\ calls' \in 0..MaxCalls /\ calls <= calls' /\ faults' \in 0..MaxFaults
        /\ clock' \in Nat /\ alive' \in BOOLEAN /\ memberCount' \in Int
    BY <1>0, CommunityConstants DEF rows, bounds, Inv, TypeOK
  <1> QED
    BY <1>0, <1>1, <1>2, <1>3, <1>4, <1>5, <1>6, QuietKeepsInv DEF rows, bounds

LEMMA CheckKeepsInv ==
    ASSUME Inv, NEW r \in Request, CheckAuthor(r)
    PROVE  Inv'
  <1>0. /\ co[r].step = "check"
        /\ UNCHANGED <<alive, memberCount, row, lastId, revived, stored, told, room, sock>>
        /\ UNCHANGED <<sessions, calls, faults>>
        /\ co \in [Request -> Place] /\ co[r] \in Place /\ Placed(co[r])
        /\ Own(r, co[r]) /\ Counted(co[r]) /\ clock \in Nat
    BY DEF CheckAuthor, At, Inv, TypeOK, Owned, bounds
  <1>1. CASE row[co[r].who].opinion = 0
    <2>1. Finish(r) /\ clock' = clock
      BY <1>1 DEF CheckAuthor
    <2> QED
      BY <1>0, <2>1, FinishKeepsInv DEF rows, Inv, TypeOK
  <1>2. CASE row[co[r].who].opinion # 0
    <2> PICK x : x = [co[r] EXCEPT !.step = "store", !.time = clock']
      OBVIOUS
    <2>1. clock' = clock + 1 /\ co' = [co EXCEPT ![r] = x]
      BY <1>0, <1>2 DEF CheckAuthor
    <2>2. clock' \in Nat /\ clock' \in Int /\ clock' > 0
      BY <1>0, <2>1
    <2>3. /\ x \in Place /\ x.op = co[r].op /\ x.text = co[r].text /\ x.step = "store"
          /\ x.write = co[r].write /\ x.seen = co[r].seen /\ x.fresh = co[r].fresh
          /\ x.time = clock' /\ x.who = co[r].who
      BY <1>0, <2>2 DEF Place
    <2>4. Placed(x)
      BY <1>0, <2>2, <2>3 DEF Placed, Holds
    <2>5. Own(r, x)
      BY <1>0, <2>3, <2>4 DEF Own, Placed, Fresh, Holds
    <2>6. Counted(x)'
      BY <1>0, <2>3 DEF Counted
    <2>7. /\ calls' \in 0..MaxCalls /\ calls <= calls' /\ faults' \in 0..MaxFaults
          /\ alive' \in BOOLEAN /\ memberCount' \in Int
      BY <1>0, CommunityConstants DEF Inv, TypeOK
    <2> QED
      BY <1>0, <2>1, <2>2, <2>3, <2>4, <2>5, <2>6, <2>7, QuietKeepsInv
  <1> QED
    BY <1>1, <1>2

LEMMA ContinueKeepsInv ==
    ASSUME Inv, NEW r \in Request, Continue(r)
    PROVE  Inv'
  <1>0. /\ co \in [Request -> Place] /\ co[r] \in Place /\ Placed(co[r])
        /\ faults \in 0..MaxFaults /\ unheard \subseteq Item
    BY DEF Inv, TypeOK
  <1>1. CASE InsertMember(r) \/ DeleteMember(r)
    <2>1. /\ UNCHANGED <<rows, told, room, sock, bounds>> /\ ~RowLocked(co[r].who)
          /\ co[r].step \in {"insert", "delete"}
          /\ \/ Finish(r)
             \/ Goto(r, "commit") /\ (co[r].step = "insert" <=> ~Participates(co[r].who))
      BY <1>1 DEF InsertMember, DeleteMember, At
    <2> QED
      BY <1>0, <2>1, FinishKeepsInv, LockKeepsInv DEF bounds
  <1>2. CASE CommitMember(r)
    BY <1>2, CommitKeepsInv
  <1>3. CASE ReadRow(r)
    BY <1>3, ReadKeepsInv
  <1>4. CASE SelectRow(r)
    BY <1>4, SelectKeepsInv
  <1>5. CASE WriteRow(r)
    <2> PICK x : x = [co[r] EXCEPT !.step = "announce"]
      OBVIOUS
    <2>1. /\ co[r].step = "write" /\ Saves(r) /\ co' = [co EXCEPT ![r] = x]
          /\ unheard' = unheard \cup WroteBack(r)
          /\ UNCHANGED <<sessions, calls, faults>>
      BY <1>0, <1>5 DEF WriteRow, At, Goto, bounds
    <2>2. x \in Place /\ x # Idle
      BY <1>0, IdleFits DEF Place
    <2>3. unheard' \subseteq Item
      BY <1>0, <2>1 DEF WroteBack, Item, Placed, Place, Row
    <2> QED
      BY <1>0, <2>1, <2>2, <2>3, SavesKeepsInv
  <1>6. CASE WriteRefused(r)
    BY <1>0, <1>6, FinishKeepsInv DEF WriteRefused, At, bounds
  <1>7. CASE CheckAuthor(r)
    BY <1>7, CheckKeepsInv
  <1>8. CASE Store(r)
    <2> PICK fresh \in BOOLEAN : fresh = (stored[co[r].text] = 0)
      OBVIOUS
    <2> PICK x : x = [co[r] EXCEPT !.step = "announce", !.fresh = fresh]
      OBVIOUS
    <2>1. /\ co[r].step = "store" /\ Stores(r) /\ co' = [co EXCEPT ![r] = x]
          /\ unheard' = unheard /\ UNCHANGED <<sessions, calls, faults>>
      BY <1>0, <1>8 DEF Store, At, bounds
    <2>2. x \in Place /\ x # Idle
      BY <1>0, IdleFits DEF Place
    <2> QED
      BY <1>0, <2>1, <2>2, StoresKeepsInv
  <1>9. CASE Announce(r)
    BY <1>9, AnnounceKeepsInv
  <1>10. CASE SaveDelete(r)
    <2>1. /\ co[r].step = "save" /\ alive' = FALSE /\ memberCount' = co[r].time
          /\ co' = [co EXCEPT ![r] = Idle]
          /\ UNCHANGED <<row, lastId, revived, stored, clock, told, room, sock>>
          /\ UNCHANGED <<sessions, calls, faults>>
      BY <1>10 DEF SaveDelete, At, Finish, bounds
    <2>2. /\ calls' \in 0..MaxCalls /\ calls <= calls' /\ clock' \in Nat
          /\ memberCount' \in Int
      BY <1>0, <2>1, CommunityConstants DEF Inv, TypeOK, Place
    <2>3. Own(r, Idle)
      BY IdleOwns
    <2>4. Counted(Idle)'
      <3>1. calls' \in Nat
        BY <2>2, OpinionNumbers
      <3>2. Idle.write = 0 /\ Idle.seen.opinion = 0
        BY IdleFits
      <3>3. \A n \in Nat : 0 <= n + 1
        OBVIOUS
      <3> QED
        BY <3>1, <3>2, <3>3 DEF Counted
    <2> QED
      BY <1>0, <2>1, <2>2, <2>3, <2>4, IdleFits, QuietKeepsInv
  <1> QED
    BY <1>1, <1>2, <1>3, <1>4, <1>5, <1>6, <1>7, <1>8, <1>9, <1>10 DEF Continue

-----------------------------------------------------------------------------
(* Failures *)

LEMMA CrashKeepsInv ==
    ASSUME Inv, Crash
    PROVE  Inv'
  <1>0. /\ UNCHANGED <<alive, memberCount, row, lastId, revived, stored, clock>>
        /\ UNCHANGED <<sent, unheard, sessions, calls>>
        /\ room' = {} /\ sock' = [s \in Socket |-> NoSocket]
        /\ co' = [r \in Request |-> Idle] /\ faults' = faults + 1 /\ faults < MaxFaults
    BY DEF Crash, Fails, rows, told
  <1>1. (\A r \in Request : co'[r] = Idle) /\ (\A s \in Socket : sock'[s] = NoSocket)
    BY <1>0
  <1>2. TypeOK'
    <2>1. faults' \in 0..MaxFaults
      BY <1>0, CommunityConstants DEF Inv, TypeOK
    <2> QED
      BY <1>0, <2>1, IdleFits, NoSocketFits DEF Inv, TypeOK
  <1>3. (\A r \in Request : Placed(co[r])') /\ Locked' /\ Unsaid'
    BY <1>1, IdleFits DEF Locked, At, Unsaid, Placed, Holds
  <1>4. CountFollowsRows'
    BY <1>0, CountStays DEF Inv, Participates
  <1>5. Owned'
    <2>1. \A r \in Request : Own(r, co[r])' /\ Counted(co[r])'
      BY <1>0, <1>1, IdleFits, OpinionNumbers DEF Own, Counted, Fresh, Holds, Inv, TypeOK
    <2> QED
      BY <1>0, <2>1 DEF Inv, Owned
  <1>6. SentOnce'
    BY <1>0, <1>1, NoSocketFits DEF Inv, SentOnce
  <1>7. InRoom' /\ \A s \in Socket : Informed(sock[s])'
    BY <1>1, NoSocketFits DEF InRoom, Informed, Listening
  <1> QED
    BY <1>2, <1>3, <1>4, <1>5, <1>6, <1>7 DEF Inv

LEMMA QueryFailsKeepsInv ==
    ASSUME Inv, NEW r \in Request, QueryFails(r)
    PROVE  Inv'
  <1>1. /\ faults' \in 0..MaxFaults /\ UNCHANGED <<sessions, calls>>
        /\ UNCHANGED <<rows, sent, room, sock>> /\ Finish(r)
    BY CommunityConstants DEF QueryFails, Fails, Inv, TypeOK
  <1>2. CASE At(r, "announce")
    BY <1>1, <1>2, SilenceKeepsInv DEF QueryFails
  <1>3. CASE ~At(r, "announce")
    <2>1. UNCHANGED told
      BY <1>1, <1>3 DEF QueryFails, told
    <2> QED
      BY <1>1, <1>3, <2>1, FinishKeepsInv DEF At
  <1> QED
    BY <1>2, <1>3

LEMMA AnswerLostKeepsInv ==
    ASSUME Inv, NEW r \in Request, AnswerLost(r)
    PROVE  Inv'
  <1>1. /\ faults' \in 0..MaxFaults /\ UNCHANGED <<sessions, calls>>
        /\ co' = [co EXCEPT ![r] = Idle]
        /\ unheard' = unheard \cup IF co[r].op = "intent" THEN WroteBack(r) ELSE {ItemOf(r)}
        /\ co[r] \in Place /\ Placed(co[r]) /\ unheard \subseteq Item
    BY CommunityConstants DEF AnswerLost, Fails, Finish, Inv, TypeOK
  <1>2. CASE At(r, "store") /\ Stores(r)
    <2>1. /\ co[r].step = "store" /\ co[r].op \in {"send", "notice"} /\ co[r].text \in Text
          /\ ItemOf(r) = co[r].text
      BY <1>1, <1>2 DEF At, Placed, ItemOf
    <2>2. unheard' \subseteq Item /\ unheard \subseteq unheard' /\ co[r].text \in unheard'
      BY <1>1, <2>1 DEF Item
    <2> QED
      BY <1>1, <1>2, <2>1, <2>2, IdleFits, StoresKeepsInv
  <1>3. CASE At(r, "write") /\ Saves(r)
    <2>1. /\ co[r].step = "write" /\ co[r].op \in {"opinion", "intent"}
          /\ co[r].who \in Member /\ co[r].seen.opinion \in Opinion
          /\ co[r].write \in Opinion
      BY <1>1, <1>3 DEF At, Placed, Place, Row
    <2>2. /\ unheard' \subseteq Item /\ unheard \cup WroteBack(r) \subseteq unheard'
          /\ co[r].op = "opinion" => <<co[r].who, co[r].write>> \in unheard'
      BY <1>1, <2>1 DEF Item, WroteBack, ItemOf
    <2> QED
      BY <1>1, <1>3, <2>1, <2>2, IdleFits, SavesKeepsInv
  <1> QED
    BY <1>2, <1>3 DEF AnswerLost

LEMMA ReplayFailsKeepsInv ==
    ASSUME Inv, NEW s \in Socket, ReplayFails(s)
    PROVE  Inv'
  <1>1. /\ faults' \in 0..MaxFaults /\ UNCHANGED <<sessions, calls>>
        /\ UNCHANGED <<rows, told, co>> /\ sessions \in 0..MaxSessions
        /\ sock[s] \in Connected /\ sock \in [Socket -> Connected] /\ room \subseteq Socket
        /\ \A t \in Text : stored[t] = 0 => t \notin sock[s].got \cup sock[s].batch
    BY CommunityConstants DEF ReplayFails, Fails, Inv, TypeOK, SentOnce
  <1> PICK y : y = [sock[s] EXCEPT !.step = "refused", !.ready = FALSE, !.todo = {},
                                   !.batch = {}]
    OBVIOUS
  <1>2. /\ y \in Connected /\ y.got = sock[s].got /\ y.batch = {} /\ ~Listening(y)
    BY <1>1 DEF Connected, Listening
  <1>3. sock' = [sock EXCEPT ![s] = y] /\ room' = room \ {s}
    BY <1>1 DEF ReplayFails, Refuse
  <1> QED
    BY <1>1, <1>2, <1>3, SocketKeepsInv DEF Informed

-----------------------------------------------------------------------------
(* Theorems *)

LEMMA NextKeepsInv == Inv /\ [Next]_vars => Inv'
  <1> SUFFICES ASSUME Inv, [Next]_vars PROVE Inv'
    OBVIOUS
  <1>1. CASE Next
    BY <1>1, ArriveKeepsInv, ContinueKeepsInv, QueryFailsKeepsInv, AnswerLostKeepsInv,
       ConnectionKeepsInv, ReplayFailsKeepsInv, CrashKeepsInv DEF Next
  <1>2. CASE UNCHANGED vars
    <2>1. UNCHANGED <<alive, memberCount, row, lastId, revived, stored, clock, sent, unheard,
                      room, sock, co, sessions, calls, faults>>
      BY <1>2 DEF vars, rows, told, bounds
    <2>2. TypeOK' /\ SentOnce' /\ CountFollowsRows'
      BY <2>1 DEF Inv, TypeOK, SentOnce, CountFollowsRows, Participates
    <2>3. (\A r \in Request : Placed(co[r])') /\ Locked' /\ Owned' /\ Unsaid' /\ InRoom'
      BY <2>1 DEF Inv, Placed, Holds, Locked, Participates, Owned, Own, Counted, Fresh,
                  Unsaid, At, InRoom, Listening
    <2>4. \A s \in Socket : Informed(sock[s])'
      BY <2>1 DEF Inv, Informed, Listening, Reaches, Tells, Newer
    <2> QED
      BY <2>2, <2>3, <2>4 DEF Inv
  <1> QED
    BY <1>1, <1>2

LEMMA InvHolds == Spec => []Inv
  BY InitInv, NextKeepsInv, PTL DEF Spec

\* Every variable keeps its type: rows, connections and what the coroutines of
\* the calls carry from one await to the next.
THEOREM CommunityTypes == Spec => []TypeOK
  <1>1. Inv => TypeOK
    BY DEF Inv
  <1> QED
    BY <1>1, InvHolds, PTL

\* joinMe, leaveMe: the member count follows the rows of any number of members,
\* however their transactions interleave, fail or are cut off by a crash, but
\* for the rows that the save of an opinion or intent brings back.
THEOREM TheCountFollows == Spec => []CountFollowsRows
  <1>1. Inv => CountFollowsRows
    BY DEF Inv
  <1> QED
    BY <1>1, InvHolds, PTL

\* sendMessage: the room is told of a message at most once, and only of one that
\* is stored, whoever sends it again and by whatever way.
THEOREM ToldOnce == Spec => []SentOnce
  <1>1. Inv => SentOnce
    BY DEF Inv
  <1> QED
    BY <1>1, InvHolds, PTL

\* handleConnection: a connected client misses no message within the replay's
\* reach and no opinion, for any number of sockets, calls and messages.
THEOREM ClientsMissNothing == Spec => []NothingMissed
  <1>1. Inv => NothingMissed
    <2> SUFFICES ASSUME Inv, NEW s \in Socket, sock[s].ready, sock[s].step = "open"
                 PROVE  /\ \A t \in Text :
                             \/ stored[t] = 0
                             \/ t \in sock[s].got \cup unheard
                             \/ Announcing(t)
                             \/ Cardinality(Newer(t)) >= ReplayLimit
                        /\ \A m \in Member :
                             \/ row[m].opinion = 0
                             \/ <<m, row[m].opinion>> \in sock[s].got \cup unheard
                             \/ Announcing(<<m, row[m].opinion>>)
      BY DEF NothingMissed
    <2>1. Informed(sock[s]) /\ Listening(sock[s]) /\ sock[s].batch = {}
      BY DEF Inv, Informed, Listening
    <2>2. \A any : (\E r \in Request : Tells(co[r], any)) => Announcing(any)
      <3> SUFFICES ASSUME NEW any, NEW r \in Request, Tells(co[r], any)
                   PROVE  At(r, "announce") /\ ItemOf(r) = any
        BY DEF Announcing
      <3> QED
        BY DEF Tells, At, ItemOf, Inv, Placed
    <2>3. \A any : Reaches(sock[s], any) => any \in sock[s].got \cup unheard \/ Announcing(any)
      BY <2>1, <2>2 DEF Reaches
    <2> QED
      BY <2>1, <2>3 DEF Informed
  <1> QED
    BY <1>1, InvHolds, PTL
==============================================================================
