----------------------- MODULE DebateInvitationsProofs -----------------------
(***************************************************************************)
(* The invariant of DebateInvitations and what follows from it, for every  *)
(* number of requests, invitations and debates, and through every crash,   *)
(* failing query, lost commit and early timer: the types, what the room is *)
(* told, the state of the community, and the ledger of invitations.        *)
(*                                                                         *)
(* EventsMatchRows and CommunityFollowsDebates are not inductive.  The     *)
(* invariant adds what a coroutine knows at its step (Placed, Stored),     *)
(* what the row locks of the open transactions keep as it is (Holding),    *)
(* and that whoever has locked the community decides alone (Decided).      *)
(* For StaleNeverBlocks it is SweepInv: what a start has learnt, step by   *)
(* step, about the invitation that was overdue when it began.  For         *)
(* PendingIsWatched it is WatchInv: an expiry runs for its own invitation, *)
(* and in time.                                                            *)
(***************************************************************************)
EXTENDS DebateInvitations, TLAPS

\* What the step of a coroutine says about its call.
Placed(x) ==
    /\ x.step \in {"arm", "update", "create", "after", "publish", "reread", "find",
                   "move", "expired"} => x.inv \in Invitation
    /\ x.step \in {"create", "after"} => x.op = "accept"
    /\ x.step = "apply" => x.op = "end" /\ x.deb # None
    /\ x.step \in {"lock", "state", "commit"} =>
         /\ x.op \in {"accept", "end"}
         /\ x.deb # None
         /\ x.op = "accept" => x.inv \in Invitation
    /\ x.op = "accept" /\ x.step \in {"update", "create"} => x.deb = None

\* What it has stored.
Stored(x) ==
    /\ x.op = "start" /\ x.step \in {"arm", "publish"} => status[x.inv] # "none"
    /\ x.op = "accept" /\ x.step \in {"after", "publish"} =>
         status[x.inv] = "ACCEPTED"
    /\ x.op = "reject" /\ x.step = "publish" => status[x.inv] = "REJECTED"
    /\ x.step = "expired" => status[x.inv] = "EXPIRED"

\* What an open transaction has locked stays as it found it, and is its own.
Holding ==
    \A c \in Coroutine : InTransaction(c) =>
        /\ co[c].op = "accept" => status[co[c].inv] = "PENDING"
        /\ co[c].op = "accept" /\ co[c].step # "create" => debate[co[c].deb] = "none"
        /\ co[c].op = "end" => debate[co[c].deb] = "active"
        /\ \A o \in Coroutine \ {c} : InTransaction(o) =>
             /\ co[c].op = "accept" /\ co[o].op = "accept" => co[c].inv # co[o].inv
             /\ co[c].deb # None => co[c].deb # co[o].deb

\* One transaction at a time decides the community's state, and what it has
\* read of the debates is still so when it commits.
Decided ==
    \A c \in Coroutine :
        /\ OwnsCommunity(c) => \A o \in Coroutine \ {c} : ~SharesCommunity(o)
        /\ co[c].step = "commit" =>
             (co[c].next = "ACTIVE"
                <=> (co[c].op = "accept" \/ \E d \in Debate : Active(d) /\ d # co[c].deb))

\* An invitation leads to a debate that exists.
Given == \A i \in Invitation : debateOf[i] # None => debate[debateOf[i]] # "none"

Inv ==
    /\ TypeOK
    /\ \A c \in Coroutine : Placed(co[c]) /\ Stored(co[c])
    /\ Holding
    /\ Decided
    /\ Given
    /\ EventsMatchRows
    /\ CommunityFollowsDebates

Locks == {"create", "apply", "lock", "state", "commit"}

-----------------------------------------------------------------------------

LEMMA IdleIsPlace == Idle \in Place /\ Placed(Idle) /\ Stored(Idle) /\ Idle.step \notin Locks
  BY DEF Idle, Place, Placed, Stored, Locks, Step

LEMMA InitInv == Init => Inv
  <1> SUFFICES ASSUME Init PROVE Inv
    OBVIOUS
  <1> USE DEF Init
  <1>1. \A c \in Coroutine : co[c] = Idle
    OBVIOUS
  <1>2. TypeOK
    BY IdleIsPlace, InvitationConstants DEF TypeOK, InvitationStatus
  <1>3. \A c \in Coroutine : Placed(co[c]) /\ Stored(co[c])
    BY <1>1, IdleIsPlace
  <1>4. Holding /\ Decided
    BY <1>1, IdleIsPlace
    DEF Holding, Decided, InTransaction, OwnsCommunity, Idle, Locks
  <1>5. Given /\ EventsMatchRows /\ CommunityFollowsDebates
    BY DEF Given, EventsMatchRows, CommunityFollowsDebates, CommunityExists, Active
  <1> QED
    BY <1>2, <1>3, <1>4, <1>5 DEF Inv

\* A coroutine that moves outside of every transaction, whatever it was doing:
\* an invitation may be issued or declined by it, nothing else is written.
LEMMA OutsideKeepsInv ==
    ASSUME Inv, NEW c \in Coroutine, NEW x \in Place,
           co' = [co EXCEPT ![c] = x],
           Placed(x), Stored(x)', x.step \notin Locks,
           UNCHANGED <<debateOf, debate, community, guest>>,
           status' \in [Invitation -> InvitationStatus],
           \A i \in Invitation : status'[i] # status[i] =>
               /\ status[i] \in {"none", "PENDING"}
               /\ status'[i] # "none"
               /\ ~InvitationLocked(i),
           EventsMatchRows',
           due' \subseteq Invitation, armed' \subseteq Invitation,
           told' \subseteq {"requested", "started", "rejected", "expired"} \X Invitation,
           up' \in BOOLEAN, calls' \in 0..MaxRequests, faults' \in 0..MaxFaults
    PROVE  Inv'
  <1> USE DEF Inv
  <1>0. /\ co \in [Coroutine -> Place] /\ co'[c] = x
        /\ \A o \in Coroutine \ {c} : co'[o] = co[o]
    BY DEF TypeOK
  <1>1. TypeOK'
    BY DEF TypeOK
  <1>2. \A o \in Coroutine : (Placed(co[o]) /\ Stored(co[o]))'
    <2> SUFFICES ASSUME NEW o \in Coroutine \ {c}
                 PROVE  (Placed(co[o]) /\ Stored(co[o]))'
      BY <1>0 DEF Placed, Stored
    <2>1. co'[o] = co[o] /\ Placed(co[o]) /\ Stored(co[o])
      BY <1>0
    <2>2. co[o].step \in {"arm", "publish", "after", "expired"}
            => \/ status'[co[o].inv] = status[co[o].inv]
               \/ status[co[o].inv] \in {"none", "PENDING"} /\ status'[co[o].inv] # "none"
      BY <2>1 DEF Placed
    <2> QED
      BY <2>1, <2>2 DEF Placed, Stored
  <1>3. \A o \in Coroutine : InTransaction(o)' => o # c /\ InTransaction(o) /\ co'[o] = co[o]
    BY <1>0 DEF InTransaction, Locks
  <1>4. Holding'
    <2> SUFFICES ASSUME NEW o \in Coroutine, InTransaction(o)'
                 PROVE  /\ co[o].op = "accept" => status'[co[o].inv] = "PENDING"
                        /\ co[o].op = "accept" /\ co[o].step # "create"
                             => debate[co[o].deb] = "none"
                        /\ co[o].op = "end" => debate[co[o].deb] = "active"
                        /\ \A p \in Coroutine \ {o} : InTransaction(p)' =>
                             /\ co[o].op = "accept" /\ co[p].op = "accept"
                                  => co[o].inv # co[p].inv
                             /\ co[o].deb # None => co[o].deb # co[p].deb
      BY <1>3 DEF Holding
    <2>1. InTransaction(o)
      BY <1>3
    <2>2. co[o].op = "accept" => co[o].inv \in Invitation /\ InvitationLocked(co[o].inv)
      BY <2>1 DEF Placed, InTransaction, InvitationLocked
    <2> QED
      BY <1>3, <2>1, <2>2 DEF Holding
  <1>5. Decided'
    <2>1. \A o \in Coroutine : SharesCommunity(o)' => SharesCommunity(o) /\ co'[o] = co[o]
      BY <1>0 DEF SharesCommunity, Locks
    <2>2. \A o \in Coroutine : OwnsCommunity(o)' => OwnsCommunity(o) /\ co'[o] = co[o]
      BY <1>0 DEF OwnsCommunity, Locks
    <2>3. \A o \in Coroutine : co'[o].step = "commit" => co'[o] = co[o]
      BY <1>0 DEF Locks
    <2> QED
      BY <2>1, <2>2, <2>3 DEF Decided, Active
  <1>6. Given' /\ CommunityFollowsDebates'
    BY DEF Given, CommunityFollowsDebates, CommunityExists, Active
  <1> QED
    BY <1>1, <1>2, <1>4, <1>5, <1>6

\* A coroutine that only goes from one step outside of transactions to the next.
LEMMA MoveKeepsInv ==
    ASSUME Inv, NEW c \in Coroutine, NEW x \in Place,
           co' = [co EXCEPT ![c] = x],
           Placed(x), Stored(x), x.step \notin Locks,
           UNCHANGED <<rows, told>>,
           due' \subseteq Invitation, armed' \subseteq Invitation,
           up' \in BOOLEAN, calls' \in 0..MaxRequests, faults' \in 0..MaxFaults
    PROVE  Inv'
  <1>1. UNCHANGED <<status, debateOf, debate, community, guest>>
    BY DEF rows
  <1>2. Stored(x)'
    BY <1>1 DEF Stored
  <1>3. EventsMatchRows'
    BY <1>1 DEF Inv, EventsMatchRows
  <1>4. status' \in [Invitation -> InvitationStatus]
    BY <1>1 DEF Inv, TypeOK
  <1>5. told' \subseteq {"requested", "started", "rejected", "expired"} \X Invitation
    BY DEF Inv, TypeOK
  <1> QED
    BY <1>1, <1>2, <1>3, <1>4, <1>5, OutsideKeepsInv

\* Nothing that the invariant is about changes, but the environment.
LEMMA StandKeepsInv ==
    ASSUME Inv, UNCHANGED <<status, debateOf, debate, community, told, co>>,
           guest' \in {"none", "preparing", "open"},
           due' \subseteq Invitation, armed' \subseteq Invitation,
           up' \in BOOLEAN, calls' \in 0..MaxRequests, faults' \in 0..MaxFaults
    PROVE  Inv'
  <1>1. TypeOK'
    BY DEF Inv, TypeOK
  <1>2. \A c \in Coroutine : (Placed(co[c]) /\ Stored(co[c]))'
    BY DEF Inv, Placed, Stored
  <1>3. Holding' /\ Decided'
    BY DEF Inv, Holding, Decided, InTransaction, OwnsCommunity, SharesCommunity, Active
  <1>4. Given' /\ EventsMatchRows' /\ CommunityFollowsDebates'
    BY DEF Inv, Given, EventsMatchRows, CommunityFollowsDebates, CommunityExists, Active
  <1> QED
    BY <1>1, <1>2, <1>3, <1>4 DEF Inv

-----------------------------------------------------------------------------
(* The steps of the transactions *)

LEMMA AcceptKeepsInv ==
    ASSUME Inv, NEW c \in Coroutine,
           co[c].op = "accept", co[c].step = "update",
           status[co[c].inv] = "PENDING", ~InvitationLocked(co[c].inv),
           co' = [co EXCEPT ![c].step = "create"],
           UNCHANGED <<rows, due, armed, told, up, calls, faults>>
    PROVE  Inv'
  <1>1. UNCHANGED <<status, debateOf, debate, community, guest>>
    BY DEF rows
  <1>2. /\ co \in [Coroutine -> Place] /\ co'[c] = [co[c] EXCEPT !.step = "create"]
        /\ \A o \in Coroutine \ {c} : co'[o] = co[o]
    BY DEF Inv, TypeOK
  <1>3. co'[c] \in Place
    BY <1>2 DEF Place, Step
  <1>4. TypeOK'
    BY <1>1, <1>2, <1>3 DEF Inv, TypeOK
  <1>5. Placed(co[c]) /\ co[c].deb = None /\ co[c].inv \in Invitation
    BY DEF Inv, Placed
  <1>6. co'[c].op = "accept" /\ co'[c].step = "create" /\ co'[c].deb = None
        /\ co'[c].inv = co[c].inv
    BY <1>2, <1>5 DEF Place
  <1>7. \A o \in Coroutine : (Placed(co[o]) /\ Stored(co[o]))'
    BY <1>1, <1>2, <1>5, <1>6 DEF Inv, Placed, Stored
  <1>8. \A o \in Coroutine \ {c} : InTransaction(o)' => InTransaction(o)
    BY <1>2 DEF InTransaction
  <1>9. \A o \in Coroutine \ {c} :
           InTransaction(o) /\ co[o].op = "accept" => co[o].inv # co[c].inv
    BY DEF InvitationLocked
  <1>10. Holding'
    BY <1>1, <1>2, <1>5, <1>6, <1>8, <1>9 DEF Inv, Holding
  <1>11. \A o \in Coroutine : /\ SharesCommunity(o)' => SharesCommunity(o)
                              /\ OwnsCommunity(o)' => OwnsCommunity(o)
                              /\ co'[o].step = "commit" => co'[o] = co[o]
    BY <1>2, <1>6 DEF SharesCommunity, OwnsCommunity
  <1>12. Decided'
    BY <1>1, <1>11 DEF Inv, Decided, Active
  <1>13. Given' /\ EventsMatchRows' /\ CommunityFollowsDebates'
    BY <1>1 DEF Inv, Given, EventsMatchRows, CommunityFollowsDebates, CommunityExists, Active
  <1> QED
    BY <1>4, <1>7, <1>10, <1>12, <1>13 DEF Inv

\* A transaction that holds a debate of its own and no community lock.
LEMMA HoldDebateKeepsInv ==
    ASSUME Inv, NEW c \in Coroutine, NEW x \in Place,
           co' = [co EXCEPT ![c] = x],
           Placed(x), Stored(x),
           x.step \in {"apply", "lock"}, x.op \in {"accept", "end"},
           x.step = "lock" => CommunityFree,
           x.op = "accept" => /\ co[c].op = "accept" /\ co[c].inv = x.inv
                              /\ InTransaction(c)
                              /\ debate[x.deb] = "none",
           x.op = "end" => debate[x.deb] = "active",
           \A o \in Coroutine \ {c} : InTransaction(o) => co[o].deb # x.deb,
           UNCHANGED <<rows, due, armed, told, up, faults>>,
           calls' \in 0..MaxRequests
    PROVE  Inv'
  <1>1. UNCHANGED <<status, debateOf, debate, community, guest>>
    BY DEF rows
  <1>2. /\ co \in [Coroutine -> Place] /\ co'[c] = x
        /\ \A o \in Coroutine \ {c} : co'[o] = co[o]
    BY DEF Inv, TypeOK
  <1>3. TypeOK'
    BY <1>1, <1>2 DEF Inv, TypeOK
  <1>4. \A o \in Coroutine : (Placed(co[o]) /\ Stored(co[o]))'
    BY <1>1, <1>2 DEF Inv, Placed, Stored
  <1>5. \A o \in Coroutine \ {c} : InTransaction(o)' => InTransaction(o)
    BY <1>2 DEF InTransaction
  <1>6. x.deb # None
    BY DEF Placed
  <1>7. Holding'
    BY <1>1, <1>2, <1>5, <1>6 DEF Inv, Holding
  <1>8. \A o \in Coroutine : /\ OwnsCommunity(o)' => OwnsCommunity(o)
                             /\ o # c /\ SharesCommunity(o)' => SharesCommunity(o)
                             /\ co'[o].step = "commit" => co'[o] = co[o]
    BY <1>2 DEF SharesCommunity, OwnsCommunity
  <1>9. (\E o \in Coroutine : OwnsCommunity(o)) => ~SharesCommunity(c)'
    BY <1>2 DEF SharesCommunity, CommunityFree
  <1>10. Decided'
    BY <1>1, <1>8, <1>9 DEF Inv, Decided, Active
  <1>11. Given' /\ EventsMatchRows' /\ CommunityFollowsDebates'
    BY <1>1 DEF Inv, Given, EventsMatchRows, CommunityFollowsDebates, CommunityExists, Active
  <1> QED
    BY <1>3, <1>4, <1>7, <1>10, <1>11 DEF Inv

LEMMA LockKeepsInv ==
    ASSUME Inv, NEW c \in Coroutine, LockCommunity(c)
    PROVE  Inv'
  <1> USE DEF LockCommunity, Goto
  <1>1. UNCHANGED <<status, debateOf, debate, community, guest>>
    BY DEF rows
  <1>2. /\ co \in [Coroutine -> Place] /\ co'[c] = [co[c] EXCEPT !.step = "state"]
        /\ \A o \in Coroutine \ {c} : co'[o] = co[o]
    BY DEF Inv, TypeOK
  <1>3. co'[c] \in Place
    BY <1>2 DEF Place, Step
  <1>4. TypeOK'
    BY <1>1, <1>2, <1>3 DEF Inv, TypeOK
  <1>5. co'[c].op = co[c].op /\ co'[c].inv = co[c].inv /\ co'[c].deb = co[c].deb
        /\ co'[c].step = "state" /\ co[c].step = "lock"
    BY <1>2 DEF Place
  <1>6. \A o \in Coroutine : (Placed(co[o]) /\ Stored(co[o]))'
    BY <1>1, <1>2, <1>5 DEF Inv, Placed, Stored
  <1>7. \A o \in Coroutine : InTransaction(o)' => InTransaction(o)
    BY <1>2, <1>5 DEF InTransaction
  <1>8. \A o \in Coroutine : co'[o].op = co[o].op /\ co'[o].inv = co[o].inv
                             /\ co'[o].deb = co[o].deb
    BY <1>2, <1>5
  <1>9. \A o \in Coroutine : co'[o].step = "create" => co[o].step = "create"
    BY <1>2, <1>5
  <1>9a. co[c].step # "create"
    BY <1>5
  <1>10. Holding'
    BY <1>1, <1>2, <1>5, <1>7, <1>8, <1>9, <1>9a DEF Inv, Holding
  <1>11. \A o \in Coroutine \ {c} : ~SharesCommunity(o)'
    BY <1>2 DEF SharesCommunity
  <1>12. \A o \in Coroutine : co'[o].step # "commit"
    BY <1>5, <1>11 DEF SharesCommunity
  <1>13. Decided'
    BY <1>11, <1>12 DEF Decided, OwnsCommunity, SharesCommunity
  <1>14. Given' /\ EventsMatchRows' /\ CommunityFollowsDebates'
    BY <1>1 DEF Inv, Given, EventsMatchRows, CommunityFollowsDebates, CommunityExists, Active
  <1> QED
    BY <1>4, <1>6, <1>10, <1>13, <1>14 DEF Inv

LEMMA ReadStateKeepsInv ==
    ASSUME Inv, NEW c \in Coroutine, ReadState(c)
    PROVE  Inv'
  <1> DEFINE exists == \/ co[c].op = "accept"
                       \/ \E d \in Debate : Active(d) /\ d # co[c].deb
             next == IF exists THEN "ACTIVE" ELSE "WAITING"
  <1>0. /\ co[c].step = "state"
        /\ co' = [co EXCEPT ![c].step = "commit", ![c].next = next]
        /\ UNCHANGED <<rows, due, armed, told, up, calls, faults>>
    BY DEF ReadState
  <1>1. UNCHANGED <<status, debateOf, debate, community, guest>>
    BY <1>0 DEF rows
  <1>2. next = "ACTIVE" <=> exists
    OBVIOUS
  <1>2a. next \in {"ACTIVE", "WAITING"}
    OBVIOUS
  <1> HIDE DEF next
  <1>3. /\ co \in [Coroutine -> Place]
        /\ co'[c] = [co[c] EXCEPT !.step = "commit", !.next = next]
        /\ \A o \in Coroutine \ {c} : co'[o] = co[o]
    BY <1>0 DEF Inv, TypeOK
  <1>4. co'[c] \in Place
    BY <1>2a, <1>3 DEF Place, Step
  <1>5. TypeOK'
    BY <1>0, <1>1, <1>3, <1>4 DEF Inv, TypeOK
  <1>6. co'[c].op = co[c].op /\ co'[c].inv = co[c].inv /\ co'[c].deb = co[c].deb
        /\ co'[c].step = "commit" /\ co'[c].next = next
    BY <1>3 DEF Place
  <1>7. \A o \in Coroutine : (Placed(co[o]) /\ Stored(co[o]))'
    BY <1>0, <1>1, <1>3, <1>6 DEF Inv, Placed, Stored
  <1>8. \A o \in Coroutine : InTransaction(o)' => InTransaction(o)
    BY <1>0, <1>3 DEF InTransaction
  <1>9. \A o \in Coroutine : co'[o].op = co[o].op /\ co'[o].inv = co[o].inv
                             /\ co'[o].deb = co[o].deb
    BY <1>3, <1>6
  <1>10. Holding'
    BY <1>0, <1>1, <1>3, <1>6, <1>8, <1>9 DEF Inv, Holding
  <1>11. \A o \in Coroutine \ {c} : ~SharesCommunity(o) /\ ~SharesCommunity(o)'
    BY <1>0, <1>3 DEF Inv, Decided, OwnsCommunity, SharesCommunity
  <1>12. \A o \in Coroutine \ {c} : co'[o].step # "commit"
    BY <1>11 DEF SharesCommunity
  <1>13. Decided'
    BY <1>1, <1>2, <1>6, <1>11, <1>12
    DEF Decided, OwnsCommunity, SharesCommunity, Active
  <1>14. Given' /\ EventsMatchRows' /\ CommunityFollowsDebates'
    BY <1>0, <1>1 DEF Inv, Given, EventsMatchRows, CommunityFollowsDebates,
                       CommunityExists, Active
  <1> QED
    BY <1>5, <1>7, <1>10, <1>13, <1>14 DEF Inv

\* What a transaction knows when it commits.
LEMMA CommitFacts ==
    ASSUME Inv, NEW c \in Coroutine, co[c].step = "commit"
    PROVE  /\ co[c].deb \in Debate
           /\ co[c].op \in {"accept", "end"}
           /\ co[c].op = "accept" => /\ co[c].inv \in Invitation
                                     /\ status[co[c].inv] = "PENDING"
                                     /\ debate[co[c].deb] = "none"
                                     /\ \A i \in Invitation : debateOf[i] # co[c].deb
           /\ co[c].op = "end" => debate[co[c].deb] = "active"
           /\ \A o \in Coroutine \ {c} : co[o].step \notin {"lock", "state", "commit"}
           /\ \A o \in Coroutine \ {c} : InTransaction(o) =>
                /\ co[o].deb # co[c].deb
                /\ co[c].op = "accept" /\ co[o].op = "accept" => co[o].inv # co[c].inv
           /\ co[c].next = "ACTIVE"
                <=> (co[c].op = "accept" \/ \E d \in Debate : Active(d) /\ d # co[c].deb)
  <1>1. co \in [Coroutine -> Place] /\ Placed(co[c])
    BY DEF Inv, TypeOK
  <1>2. /\ co[c].deb \in Debate
        /\ co[c].op \in {"accept", "end"}
        /\ co[c].op = "accept" => co[c].inv \in Invitation
    BY <1>1 DEF Placed, Place
  <1>3. InTransaction(c)
    BY DEF InTransaction
  <1>4. /\ co[c].op = "accept" => /\ status[co[c].inv] = "PENDING"
                                  /\ debate[co[c].deb] = "none"
        /\ co[c].op = "end" => debate[co[c].deb] = "active"
    BY <1>3 DEF Inv, Holding
  <1>5. \A o \in Coroutine \ {c} : InTransaction(o) =>
                /\ co[o].deb # co[c].deb
                /\ co[c].op = "accept" /\ co[o].op = "accept" => co[o].inv # co[c].inv
    BY <1>1, <1>2, <1>3, InvitationConstants DEF Inv, Holding, Placed
  <1>6. co[c].op = "accept" => \A i \in Invitation : debateOf[i] # co[c].deb
    BY <1>2, <1>4, InvitationConstants DEF Inv, Given
  <1>7. \A o \in Coroutine \ {c} : co[o].step \notin {"lock", "state", "commit"}
    BY DEF Inv, Decided, OwnsCommunity, SharesCommunity
  <1>8. co[c].next = "ACTIVE"
          <=> (co[c].op = "accept" \/ \E d \in Debate : Active(d) /\ d # co[c].deb)
    BY DEF Inv, Decided
  <1> QED
    BY <1>2, <1>4, <1>5, <1>6, <1>7, <1>8

LEMMA CommitKeepsInv ==
    ASSUME Inv, NEW c \in Coroutine, co[c].step = "commit", Written(c),
           NEW x \in Place, co' = [co EXCEPT ![c] = x],
           Placed(x), Stored(x)', x.step \notin Locks,
           UNCHANGED <<guest, due, armed, told, up, calls>>,
           faults' \in 0..MaxFaults
    PROVE  Inv'
  <1> DEFINE i == co[c].inv
             d == co[c].deb
  <1>1. /\ d \in Debate
        /\ co[c].op \in {"accept", "end"}
        /\ co[c].op = "accept" => /\ i \in Invitation
                                  /\ status[i] = "PENDING"
                                  /\ debate[d] = "none"
                                  /\ \A j \in Invitation : debateOf[j] # d
        /\ co[c].op = "end" => debate[d] = "active"
    BY CommitFacts
  <1>2. /\ \A o \in Coroutine \ {c} : co[o].step \notin {"lock", "state", "commit"}
        /\ \A o \in Coroutine \ {c} : InTransaction(o) =>
             /\ co[o].deb # d
             /\ co[c].op = "accept" /\ co[o].op = "accept" => co[o].inv # i
    BY CommitFacts
  <1>3. co[c].next = "ACTIVE"
          <=> (co[c].op = "accept" \/ \E e \in Debate : Active(e) /\ e # d)
    BY CommitFacts
  <1>4. /\ co \in [Coroutine -> Place] /\ co'[c] = x
        /\ \A o \in Coroutine \ {c} : co'[o] = co[o]
    BY DEF Inv, TypeOK
  <1>5. /\ status \in [Invitation -> InvitationStatus]
        /\ debateOf \in [Invitation -> Debate \cup {None}]
        /\ debate \in [Debate -> {"none", "active", "ended"}]
        /\ community \in [deleted : BOOLEAN, state : {"WAITING", "ACTIVE"}]
        /\ co[c].next \in {"WAITING", "ACTIVE"}
    BY <1>4 DEF Inv, TypeOK, Place
  <1>6. /\ status' \in [Invitation -> InvitationStatus]
        /\ debateOf' \in [Invitation -> Debate \cup {None}]
        /\ debate' \in [Debate -> {"none", "active", "ended"}]
    BY <1>1, <1>5 DEF Written, InvitationStatus
  <1>7. community' \in [deleted : BOOLEAN, state : {"WAITING", "ACTIVE"}]
    BY <1>5 DEF Written, CommunityExists
  <1>8. TypeOK'
    BY <1>4, <1>6, <1>7 DEF Inv, TypeOK
  \* status changes for the accepted invitation alone, debate for its own alone
  <1>9. \A j \in Invitation : status'[j] # status[j] =>
            /\ co[c].op = "accept" /\ j = i
            /\ status[j] = "PENDING" /\ status'[j] = "ACCEPTED"
    BY <1>1, <1>5 DEF Written
  <1>10. /\ \A e \in Debate \ {d} : debate'[e] = debate[e]
         /\ debate'[d] = IF co[c].op = "accept" THEN "active" ELSE "ended"
    BY <1>1, <1>5 DEF Written
  <1>11. \A o \in Coroutine : (Placed(co[o]) /\ Stored(co[o]))'
    <2> SUFFICES ASSUME NEW o \in Coroutine \ {c}
                 PROVE  (Placed(co[o]) /\ Stored(co[o]))'
      BY <1>4
    <2>1. co'[o] = co[o] /\ Placed(co[o]) /\ Stored(co[o])
      BY <1>4 DEF Inv
    <2>2. co[o].step \in {"arm", "publish", "after", "expired"}
            => \/ status'[co[o].inv] = status[co[o].inv]
               \/ status[co[o].inv] = "PENDING" /\ status'[co[o].inv] = "ACCEPTED"
      BY <1>9, <2>1 DEF Placed
    <2> QED
      BY <2>1, <2>2 DEF Placed, Stored
  <1>12. \A o \in Coroutine : InTransaction(o)'
           => o # c /\ InTransaction(o) /\ co'[o] = co[o]
    BY <1>4 DEF InTransaction, Locks
  <1>13. Holding'
    <2> SUFFICES ASSUME NEW o \in Coroutine, InTransaction(o)'
                 PROVE  /\ co[o].op = "accept" => status'[co[o].inv] = "PENDING"
                        /\ co[o].op = "accept" /\ co[o].step # "create"
                             => debate'[co[o].deb] = "none"
                        /\ co[o].op = "end" => debate'[co[o].deb] = "active"
                        /\ \A p \in Coroutine \ {o} : InTransaction(p)' =>
                             /\ co[o].op = "accept" /\ co[p].op = "accept"
                                  => co[o].inv # co[p].inv
                             /\ co[o].deb # None => co[o].deb # co[p].deb
      BY <1>12 DEF Holding
    <2>1. o # c /\ InTransaction(o) /\ Placed(co[o]) /\ co[o] \in Place
      BY <1>4, <1>12 DEF Inv
    <2>2. /\ co[o].op = "accept" => status[co[o].inv] = "PENDING"
          /\ co[o].op = "accept" /\ co[o].step # "create" => debate[co[o].deb] = "none"
          /\ co[o].op = "end" => debate[co[o].deb] = "active"
      BY <2>1 DEF Inv, Holding
    <2>3. co[o].op = "accept" => co[o].inv \in Invitation
      BY <2>1 DEF Placed, InTransaction
    <2>4. co[o].op = "accept" => status'[co[o].inv] = status[co[o].inv]
      BY <1>2, <1>9, <2>1, <2>3
    <2>5. co[o].step # "create" => co[o].deb \in Debate \ {d}
      BY <1>2, <2>1 DEF Placed, InTransaction, Place
    <2>6. co[o].step = "create" => co[o].op = "accept"
      BY <2>1 DEF Placed
    <2>7. co[o].step # "create" => debate'[co[o].deb] = debate[co[o].deb]
      BY <1>10, <2>5
    <2>8. \A p \in Coroutine \ {o} : InTransaction(p) =>
            /\ co[o].op = "accept" /\ co[p].op = "accept" => co[o].inv # co[p].inv
            /\ co[o].deb # None => co[o].deb # co[p].deb
      BY <2>1 DEF Inv, Holding
    <2> QED
      BY <1>12, <2>2, <2>4, <2>6, <2>7, <2>8
  <1>14. Decided'
    <2>1. \A o \in Coroutine : co'[o].step \notin {"lock", "state", "commit"}
      BY <1>2, <1>4 DEF Locks
    <2> QED
      BY <2>1 DEF Decided, OwnsCommunity
  <1>15. Given'
    BY <1>1, <1>5, <1>10 DEF Inv, Given, Written
  <1>16. EventsMatchRows'
    BY <1>9 DEF Inv, EventsMatchRows
  <1>17. CommunityFollowsDebates'
    <2> SUFFICES ASSUME CommunityExists'
                 PROVE  /\ community'.state = "ACTIVE" => \E e \in Debate : debate'[e] = "active"
                        /\ (\E j \in Invitation :
                              debateOf'[j] # None /\ debate'[debateOf'[j]] = "active")
                             => community'.state = "ACTIVE"
      BY DEF CommunityFollowsDebates, Active
    <2>1. community'.state = co[c].next
      BY <1>5 DEF Written, CommunityExists
    <2>2. CASE co[c].op = "accept"
      BY <1>1, <1>3, <1>10, <2>1, <2>2
    <2>3. CASE co[c].op = "end"
      <3>1. debateOf' = debateOf
        BY <2>3 DEF Written
      <3>2. \A e \in Debate : debate'[e] = "active" <=> e # d /\ Active(e)
        BY <1>1, <1>10, <2>3 DEF Active
      <3>3. co[c].next = "ACTIVE" <=> \E e \in Debate : debate'[e] = "active"
        BY <1>3, <2>3, <3>2
      <3> QED
        BY <1>5, <2>1, <3>1, <3>3, InvitationConstants
    <2> QED
      BY <1>1, <2>2, <2>3
  <1> QED
    BY <1>8, <1>11, <1>13, <1>14, <1>15, <1>16, <1>17 DEF Inv

-----------------------------------------------------------------------------
(* Other writes *)

LEMMA PostKeepsInv ==
    ASSUME Inv, NEW c \in Coroutine, SavePost(c)
    PROVE  Inv'
  <1> PICK d \in Debate : FreshDebate(d) /\ debate' = [debate EXCEPT ![d] = "active"]
    BY DEF SavePost
  <1>1. /\ CommunityFree /\ co' = [co EXCEPT ![c] = Idle]
        /\ UNCHANGED <<status, debateOf, community, guest, due, armed, told, up, calls,
                       faults>>
    BY DEF SavePost, Finish
  <1>2. /\ co \in [Coroutine -> Place] /\ co'[c] = Idle
        /\ \A o \in Coroutine \ {c} : co'[o] = co[o]
    BY <1>1 DEF Inv, TypeOK
  <1>3. /\ \A e \in Debate \ {d} : debate'[e] = debate[e]
        /\ debate[d] = "none" /\ debate'[d] = "active"
        /\ \A o \in Coroutine : co[o].deb # d
    BY DEF Inv, TypeOK, FreshDebate
  <1>4. TypeOK'
    BY <1>1, <1>2, IdleIsPlace DEF Inv, TypeOK
  <1>5. \A o \in Coroutine : (Placed(co[o]) /\ Stored(co[o]))'
    <2>1. Stored(Idle)'
      BY DEF Stored, Idle
    <2> QED
      BY <1>1, <1>2, <2>1, IdleIsPlace DEF Inv, Placed, Stored
  <1>6. \A o \in Coroutine : InTransaction(o)'
           => o # c /\ InTransaction(o) /\ co'[o] = co[o]
    BY <1>2, IdleIsPlace DEF InTransaction, Locks
  <1>7. \A o \in Coroutine : InTransaction(o) /\ co[o].step # "create"
           => debate'[co[o].deb] = debate[co[o].deb]
    BY <1>2, <1>3 DEF Inv, Placed, Place, InTransaction
  <1>8. \A o \in Coroutine : co[o].step = "create" => co[o].op = "accept"
    BY DEF Inv, Placed
  <1>9. Holding'
    BY <1>1, <1>6, <1>7, <1>8 DEF Inv, Holding
  <1>10. \A o \in Coroutine : ~OwnsCommunity(o)'
    BY <1>1, <1>2, IdleIsPlace DEF CommunityFree, OwnsCommunity, Locks
  <1>11. Decided'
    BY <1>10 DEF Decided, OwnsCommunity
  <1>12. Given' /\ EventsMatchRows'
    BY <1>1, <1>3 DEF Inv, Given, EventsMatchRows, TypeOK
  <1>13. CommunityFollowsDebates'
    BY <1>1, <1>3 DEF Inv, Given, TypeOK, CommunityFollowsDebates, CommunityExists, Active
  <1> QED
    BY <1>4, <1>5, <1>9, <1>11, <1>12, <1>13 DEF Inv

LEMMA DeleteKeepsInv ==
    ASSUME Inv, NEW c \in Coroutine, SaveDelete(c)
    PROVE  Inv'
  <1>1. /\ CommunityFree /\ co' = [co EXCEPT ![c] = Idle]
        /\ community' = [deleted |-> TRUE, state |-> co[c].next]
        /\ UNCHANGED <<status, debateOf, debate, guest, due, armed, told, up, calls,
                       faults>>
    BY DEF SaveDelete, Finish
  <1>2. /\ co \in [Coroutine -> Place] /\ co'[c] = Idle
        /\ \A o \in Coroutine \ {c} : co'[o] = co[o]
    BY <1>1 DEF Inv, TypeOK
  <1>3. co[c].next \in {"WAITING", "ACTIVE"}
    BY <1>2 DEF Place
  <1>4. TypeOK'
    BY <1>1, <1>2, <1>3, IdleIsPlace DEF Inv, TypeOK
  <1>5. \A o \in Coroutine : (Placed(co[o]) /\ Stored(co[o]))'
    <2>1. Stored(Idle)'
      BY DEF Stored, Idle
    <2> QED
      BY <1>1, <1>2, <2>1, IdleIsPlace DEF Inv, Placed, Stored
  <1>6. \A o \in Coroutine : InTransaction(o)'
           => o # c /\ InTransaction(o) /\ co'[o] = co[o]
    BY <1>2, IdleIsPlace DEF InTransaction, Locks
  <1>7. Holding'
    BY <1>1, <1>6 DEF Inv, Holding
  <1>8. \A o \in Coroutine : ~OwnsCommunity(o)'
    BY <1>1, <1>2, IdleIsPlace DEF CommunityFree, OwnsCommunity, Locks
  <1>9. Decided'
    BY <1>8 DEF Decided, OwnsCommunity
  <1>10. Given' /\ EventsMatchRows' /\ CommunityFollowsDebates'
    BY <1>1 DEF Inv, Given, EventsMatchRows, CommunityFollowsDebates, CommunityExists
  <1> QED
    BY <1>4, <1>5, <1>7, <1>9, <1>10 DEF Inv

LEMMA CrashKeepsInv ==
    ASSUME Inv, Crash
    PROVE  Inv'
  <1>1. /\ co' = [c \in Coroutine |-> Idle] /\ armed' = {} /\ up' = FALSE
        /\ faults < MaxFaults /\ faults' = faults + 1
        /\ UNCHANGED <<status, debateOf, debate, community, guest, due, told, calls>>
    BY DEF Crash, rows
  <1>2. \A c \in Coroutine : co'[c] = Idle
    BY <1>1
  <1>3. faults' \in 0..MaxFaults
    BY <1>1, InvitationConstants DEF Inv, TypeOK
  <1>4. TypeOK'
    BY <1>1, <1>3, IdleIsPlace DEF Inv, TypeOK
  <1>5. \A c \in Coroutine : (Placed(co[c]) /\ Stored(co[c]))'
    <2>1. Stored(Idle)'
      BY DEF Stored, Idle
    <2> QED
      BY <1>2, <2>1, IdleIsPlace DEF Placed, Stored
  <1>6. Holding' /\ Decided'
    BY <1>2, IdleIsPlace DEF Holding, Decided, InTransaction, OwnsCommunity, Idle
  <1>7. Given' /\ EventsMatchRows' /\ CommunityFollowsDebates'
    BY <1>1 DEF Inv, Given, EventsMatchRows, CommunityFollowsDebates, CommunityExists, Active
  <1> QED
    BY <1>4, <1>5, <1>6, <1>7 DEF Inv

-----------------------------------------------------------------------------
(* Every step *)

LEMMA Counters ==
    ASSUME Inv
    PROVE  /\ calls \in 0..MaxRequests /\ faults \in 0..MaxFaults
           /\ calls + faults < MaxRequests => calls + 1 \in 0..MaxRequests
           /\ faults < MaxFaults => faults + 1 \in 0..MaxFaults
  BY InvitationConstants DEF Inv, TypeOK

\* A call that opens no transaction.
LEMMA BeginKeepsInv ==
    ASSUME Inv, NEW r \in Request, NEW x \in Place, Begin(r, x),
           Placed(x), Stored(x), x.step \notin Locks,
           UNCHANGED <<rows, due, armed, told, up, faults>>
    PROVE  Inv'
  <1>1. calls' \in 0..MaxRequests /\ faults' \in 0..MaxFaults
    BY Counters DEF Begin
  <1>2. due' \subseteq Invitation /\ armed' \subseteq Invitation /\ up' \in BOOLEAN
    BY DEF Inv, TypeOK
  <1>3. r \in Coroutine /\ co' = [co EXCEPT ![r] = x]
    BY DEF Coroutine, Begin
  <1>4. UNCHANGED <<rows, told>>
    OBVIOUS
  <1> QED
    BY <1>1, <1>2, <1>3, <1>4, MoveKeepsInv

LEMMA ArriveKeepsInv ==
    ASSUME Inv, NEW r \in Request, Arrive(r)
    PROVE  Inv'
  <1>1. CASE BeginStart(r)
    <2> PICK s \in Invitation \cup {None} :
           Begin(r, [Idle EXCEPT !.op = "start", !.step = "active", !.stale = s])
      BY <1>1 DEF BeginStart
    <2> DEFINE x == [Idle EXCEPT !.op = "start", !.step = "active", !.stale = s]
    <2>1. x \in Place /\ Placed(x) /\ Stored(x) /\ x.step \notin Locks
      BY DEF Idle, Place, Placed, Stored, Locks, Step, Calls
    <2>2. UNCHANGED <<rows, due, armed, told, up, faults>>
      BY <1>1 DEF BeginStart
    <2> HIDE DEF x
    <2> QED
      BY <2>1, <2>2, BeginKeepsInv DEF x
  <1>2. CASE \E i \in Invitation, op \in {"accept", "reject"} : BeginAnswer(r, i, op)
    <2> PICK i \in Invitation, op \in {"accept", "reject"} : BeginAnswer(r, i, op)
      BY <1>2
    <2> DEFINE late == i \in due
               x == [Idle EXCEPT !.op = op, !.step = "update", !.inv = i, !.late = late]
    <2>1. late \in BOOLEAN
      OBVIOUS
    <2>2. UNCHANGED <<rows, due, armed, told, up, faults>> /\ Begin(r, x)
      BY DEF BeginAnswer
    <2> HIDE DEF late
    <2>3. x \in Place /\ Placed(x) /\ Stored(x) /\ x.step \notin Locks
      BY <2>1 DEF Idle, Place, Placed, Stored, Locks, Step, Calls
    <2> HIDE DEF x
    <2> QED
      BY <2>2, <2>3, BeginKeepsInv
  <1>3. CASE \E d \in Debate : BeginEnd(r, d)
    <2> PICK d \in Debate : BeginEnd(r, d)
      BY <1>3
    <2> DEFINE x == [Idle EXCEPT !.op = "end", !.step = "apply", !.deb = d]
    <2>1. /\ x \in Place /\ Placed(x) /\ Stored(x)
          /\ x.step = "apply" /\ x.op = "end" /\ x.deb = d
      BY InvitationConstants DEF Idle, Place, Placed, Stored, Step, Calls
    <2>2. /\ UNCHANGED <<rows, due, armed, told, up, faults>>
          /\ Active(d) /\ ~DebateLocked(d)
          /\ calls + faults < MaxRequests /\ calls' = calls + 1
          /\ co' = [co EXCEPT ![r] = x]
      BY DEF BeginEnd, Begin
    <2>3. \A o \in Coroutine \ {r} : InTransaction(o) => co[o].deb # d
      <3> SUFFICES ASSUME NEW o \in Coroutine, InTransaction(o), co[o].deb = d
                   PROVE  FALSE
        OBVIOUS
      <3>1. Placed(co[o]) /\ d # None
        BY InvitationConstants DEF Inv
      <3>2. co[o].op \in {"accept", "end"}
        BY <3>1 DEF Placed, InTransaction
      <3>3. CASE co[o].op = "accept"
        BY <2>2, <3>1, <3>3 DEF Inv, Holding, Placed, Active
      <3>4. CASE co[o].op = "end"
        BY <2>2, <3>4 DEF DebateLocked
      <3> QED
        BY <3>2, <3>3, <3>4
    <2>4. calls' \in 0..MaxRequests /\ r \in Coroutine /\ debate[x.deb] = "active"
      BY <2>1, <2>2, Counters DEF Coroutine, Active
    <2> HIDE DEF x
    <2> QED
      BY <2>1, <2>2, <2>3, <2>4, HoldDebateKeepsInv
  <1>4. CASE BeginPost(r)
    <2> DEFINE x == [Idle EXCEPT !.op = "post", !.step = "save"]
    <2>1. x \in Place /\ Placed(x) /\ Stored(x) /\ x.step \notin Locks
      BY DEF Idle, Place, Placed, Stored, Locks, Step, Calls
    <2>2. UNCHANGED <<rows, due, armed, told, up, faults>> /\ Begin(r, x)
      BY <1>4 DEF BeginPost
    <2> HIDE DEF x
    <2> QED
      BY <2>1, <2>2, BeginKeepsInv
  <1>5. CASE BeginDelete(r)
    <2> DEFINE x == [Idle EXCEPT !.op = "delete", !.step = "save",
                                 !.next = community.state]
    <2>1. community.state \in {"WAITING", "ACTIVE"}
      BY DEF Inv, TypeOK
    <2>2. x \in Place /\ Placed(x) /\ Stored(x) /\ x.step \notin Locks
      BY <2>1 DEF Idle, Place, Placed, Stored, Locks, Step, Calls
    <2>3. UNCHANGED <<rows, due, armed, told, up, faults>> /\ Begin(r, x)
      BY <1>5 DEF BeginDelete
    <2> HIDE DEF x
    <2> QED
      BY <2>2, <2>3, BeginKeepsInv
  <1> QED
    BY <1>1, <1>2, <1>3, <1>4, <1>5 DEF Arrive

\* A step of the process that reads, or arms a timer, and goes on.
LEMMA ControlKeepsInv ==
    ASSUME Inv, NEW c \in Coroutine, NEW x,
           co' = [co EXCEPT ![c] = x], x \in Place,
           Placed(x), Stored(x), x.step \notin Locks,
           UNCHANGED <<rows, due, told, up, calls>>,
           armed' \subseteq Invitation,
           faults' \in 0..MaxFaults
    PROVE  Inv'
  <1>1. due' \subseteq Invitation /\ up' \in BOOLEAN /\ calls' \in 0..MaxRequests
    BY DEF Inv, TypeOK
  <1>2. UNCHANGED <<rows, told>>
    OBVIOUS
  <1> QED
    BY <1>1, <1>2, MoveKeepsInv

\* Finish, and the end of an expiry.
LEMMA FinishKeepsInv ==
    ASSUME Inv, NEW c \in Coroutine, Finish(c) \/ ExpireDone(c),
           UNCHANGED <<rows, due, told, up, calls>>,
           armed' \subseteq Invitation,
           faults' \in 0..MaxFaults
    PROVE  Inv'
  <1> DEFINE y == [co[c] EXCEPT !.step = "insert", !.inv = None, !.late = FALSE]
  <1>1. co[c] \in Place
    BY DEF Inv, TypeOK
  <1>2. y \in Place /\ (co[c].op = "start" => Placed(y) /\ Stored(y)) /\ y.step \notin Locks
    BY <1>1 DEF Place, Placed, Stored, Locks, Step
  <1> HIDE DEF y
  <1>3. \/ co' = [co EXCEPT ![c] = Idle]
        \/ co' = [co EXCEPT ![c] = y] /\ co[c].op = "start"
    BY DEF Finish, ExpireDone, y, Inv, TypeOK
  <1> QED
    BY <1>2, <1>3, IdleIsPlace, ControlKeepsInv

\* A step that publishes what is stored.
LEMMA PublishKeepsInv ==
    ASSUME Inv, NEW c \in Coroutine, Finish(c) \/ ExpireDone(c),
           co[c].inv \in Invitation,
           NEW e \in {"requested", "started", "rejected", "expired"},
           \/ told' = told \cup {<<e, co[c].inv>>}
           \/ told' = told,
           e = "requested" => status[co[c].inv] # "none",
           e = "started" => status[co[c].inv] = "ACCEPTED",
           e = "rejected" => status[co[c].inv] = "REJECTED",
           e = "expired" => status[co[c].inv] = "EXPIRED",
           UNCHANGED <<rows, due, up, calls, faults>>,
           armed' \subseteq Invitation
    PROVE  Inv'
  <1> DEFINE y == [co[c] EXCEPT !.step = "insert", !.inv = None, !.late = FALSE]
  <1>1. co[c] \in Place
    BY DEF Inv, TypeOK
  <1>2. y \in Place /\ (co[c].op = "start" => Placed(y) /\ Stored(y)) /\ y.step \notin Locks
    BY <1>1 DEF Place, Placed, Stored, Locks, Step
  <1> HIDE DEF y
  <1>3. \/ co' = [co EXCEPT ![c] = Idle]
        \/ co' = [co EXCEPT ![c] = y] /\ co[c].op = "start"
    BY DEF Finish, ExpireDone, y, Inv, TypeOK
  <1>4. PICK x \in Place : /\ co' = [co EXCEPT ![c] = x]
                           /\ Placed(x) /\ Stored(x) /\ x.step \notin Locks
    BY <1>2, <1>3, IdleIsPlace
  <1>5. UNCHANGED <<status, debateOf, debate, community, guest>>
    BY DEF rows
  <1>6. Stored(x)'
    BY <1>4, <1>5 DEF Stored
  <1>7. EventsMatchRows'
    <2>1. EventsMatchRows
      BY DEF Inv
    <2>2. \A p : p \in told' => p \in told \/ p = <<e, co[c].inv>>
      OBVIOUS
    <2>3. ASSUME NEW k, NEW i, <<k, i>> = <<e, co[c].inv>>
          PROVE  k = e /\ i = co[c].inv
      BY <2>3
    <2>4. ASSUME NEW k, NEW i, <<k, i>> \in told'
          PROVE  <<k, i>> \in told \/ (k = e /\ i = co[c].inv)
      <3>1. <<k, i>> \in told \/ <<k, i>> = <<e, co[c].inv>>
        BY <2>2, <2>4
      <3> QED
        BY <3>1, <2>3
    <2> QED
      BY <1>5, <2>1, <2>4 DEF EventsMatchRows
  <1>8. /\ told' \subseteq {"requested", "started", "rejected", "expired"} \X Invitation
        /\ due' \subseteq Invitation /\ up' \in BOOLEAN /\ calls' \in 0..MaxRequests
        /\ faults' \in 0..MaxFaults
        /\ status' \in [Invitation -> InvitationStatus]
    BY <1>5 DEF Inv, TypeOK
  <1> QED
    BY <1>4, <1>5, <1>6, <1>7, <1>8, OutsideKeepsInv

\* A step that issues an invitation or declines one.
LEMMA SettleKeepsInv ==
    ASSUME Inv, NEW c \in Coroutine, NEW x \in Place,
           co' = [co EXCEPT ![c] = x], Placed(x), x.step \notin Locks,
           NEW i \in Invitation, ~InvitationLocked(i),
           NEW s \in InvitationStatus, s \notin {"none", "ACCEPTED"},
           status' = [status EXCEPT ![i] = s],
           s = "PENDING" => status[i] = "none",
           s # "PENDING" => status[i] = "PENDING",
           Stored(x)',
           UNCHANGED <<debateOf, debate, community, guest, due, armed, told, up, calls,
                       faults>>
    PROVE  Inv'
  <1>1. status' \in [Invitation -> InvitationStatus]
    BY DEF Inv, TypeOK
  <1>2. \A j \in Invitation : status'[j] # status[j] =>
               /\ status[j] \in {"none", "PENDING"}
               /\ status'[j] # "none"
               /\ ~InvitationLocked(j)
    BY DEF Inv, TypeOK
  <1>3. EventsMatchRows'
    BY DEF Inv, TypeOK, EventsMatchRows
  <1>4. /\ told' \subseteq {"requested", "started", "rejected", "expired"} \X Invitation
        /\ due' \subseteq Invitation /\ armed' \subseteq Invitation
        /\ up' \in BOOLEAN /\ calls' \in 0..MaxRequests /\ faults' \in 0..MaxFaults
    BY DEF Inv, TypeOK
  <1> QED
    BY <1>1, <1>2, <1>3, <1>4, OutsideKeepsInv

LEMMA StartKeepsInv ==
    ASSUME Inv, NEW c \in Coroutine,
           \/ CheckActive(c) \/ FindDue(c) \/ InsertInvitation(c) \/ ArmTimer(c)
           \/ PublishRequested(c)
    PROVE  Inv'
  <1>0. /\ co[c] \in Place /\ Placed(co[c]) /\ Stored(co[c]) /\ armed \subseteq Invitation
        /\ faults \in 0..MaxFaults
    BY DEF Inv, TypeOK
  <1>1. CASE CheckActive(c)
    <2> DEFINE x == [co[c] EXCEPT !.step = "due"]
    <2>1. x \in Place /\ Placed(x) /\ Stored(x) /\ x.step \notin Locks
      BY <1>0, <1>1 DEF CheckActive, At, Place, Placed, Stored, Locks, Step
    <2>2. Finish(c) \/ co' = [co EXCEPT ![c] = x]
      BY <1>1 DEF CheckActive, Goto, Inv, TypeOK
    <2>3. UNCHANGED <<rows, due, armed, told, up, calls, faults>>
      BY <1>1 DEF CheckActive
    <2> HIDE DEF x
    <2> QED
      BY <1>0, <2>1, <2>2, <2>3, ControlKeepsInv, FinishKeepsInv
  <1>2. CASE FindDue(c)
    <2>1. UNCHANGED <<rows, due, armed, told, up, calls, faults>>
          /\ co[c].op = "start" /\ co[c].step = "due"
      BY <1>2 DEF FindDue, At
    <2>2. CASE Goto(c, "insert")
      <3> PICK x : x = [co[c] EXCEPT !.step = "insert"]
        OBVIOUS
      <3>1. co' = [co EXCEPT ![c] = x]
        BY <2>2 DEF Goto, Inv, TypeOK
      <3>2. x \in Place /\ Placed(x) /\ Stored(x) /\ x.step \notin Locks
        BY <1>0, <2>1 DEF Place, Placed, Stored, Locks, Step
      <3> QED
        BY <1>0, <2>1, <3>1, <3>2, ControlKeepsInv
    <2>3. CASE \E i \in Overdue : co' = [co EXCEPT ![c].inv = i, ![c].step = "find"]
      <3> PICK i \in Overdue : co' = [co EXCEPT ![c].inv = i, ![c].step = "find"]
        BY <2>3
      <3> PICK x : x = [co[c] EXCEPT !.inv = i, !.step = "find"]
        OBVIOUS
      <3>1. co' = [co EXCEPT ![c] = x]
        BY DEF Inv, TypeOK
      <3>2. i \in Invitation
        BY DEF Overdue, Inv, TypeOK
      <3>3. x \in Place /\ Placed(x) /\ Stored(x) /\ x.step \notin Locks
        BY <1>0, <2>1, <3>2 DEF Place, Placed, Stored, Locks, Step
      <3> QED
        BY <1>0, <2>1, <3>1, <3>3, ControlKeepsInv
    <2> QED
      BY <1>2, <2>2, <2>3 DEF FindDue
  <1>3. CASE InsertInvitation(c)
    <2>1. CASE Finish(c) /\ UNCHANGED status
      <3>1. UNCHANGED <<rows, due, told, up, calls, armed, faults>>
        BY <1>3, <2>1 DEF InsertInvitation, rows
      <3> QED
        BY <1>0, <2>1, <3>1, FinishKeepsInv
    <2>2. CASE \E i \in Invitation :
                 /\ status[i] = "none"
                 /\ status' = [status EXCEPT ![i] = "PENDING"]
                 /\ co' = [co EXCEPT ![c].inv = i, ![c].step = "arm"]
      <3> PICK i \in Invitation :
                 /\ status[i] = "none"
                 /\ status' = [status EXCEPT ![i] = "PENDING"]
                 /\ co' = [co EXCEPT ![c].inv = i, ![c].step = "arm"]
        BY <2>2
      <3> PICK x : x = [co[c] EXCEPT !.inv = i, !.step = "arm"]
        OBVIOUS
      <3>1. x \in Place /\ Placed(x) /\ x.step \notin Locks
        BY <1>0, <1>3 DEF InsertInvitation, At, Place, Placed, Locks, Step
      <3>2. Stored(x)'
        BY <1>0, <1>3 DEF InsertInvitation, At, Place, Stored, Inv, TypeOK
      <3>3. co' = [co EXCEPT ![c] = x]
        BY DEF Inv, TypeOK
      <3>4. ~InvitationLocked(i)
        BY DEF InvitationLocked, Inv, Holding
      <3>5. UNCHANGED <<debateOf, debate, community, guest, due, armed, told, up, calls,
                        faults>>
        BY <1>3 DEF InsertInvitation
      <3>6. "PENDING" \in InvitationStatus
        BY DEF InvitationStatus
      <3> QED
        BY <3>1, <3>2, <3>3, <3>4, <3>5, <3>6, SettleKeepsInv
    <2> QED
      BY <1>3, <2>1, <2>2 DEF InsertInvitation
  <1>4. CASE ArmTimer(c)
    <2> DEFINE x == [co[c] EXCEPT !.step = "publish"]
    <2>1. x \in Place /\ Placed(x) /\ Stored(x) /\ x.step \notin Locks
      BY <1>0, <1>4 DEF ArmTimer, At, Place, Placed, Stored, Locks, Step
    <2>2. co' = [co EXCEPT ![c] = x]
      BY <1>4 DEF ArmTimer, Goto, Inv, TypeOK
    <2>3. UNCHANGED <<rows, due, told, up, calls, faults>> /\ armed' \subseteq Invitation
      BY <1>0, <1>4 DEF ArmTimer, At, Placed
    <2> HIDE DEF x
    <2> QED
      BY <1>0, <2>1, <2>2, <2>3, ControlKeepsInv
  <1>5. CASE PublishRequested(c)
    BY <1>0, <1>5, PublishKeepsInv DEF PublishRequested, At, Placed, Stored
  <1> QED
    BY <1>1, <1>2, <1>3, <1>4, <1>5

LEMMA AnswerKeepsInv ==
    ASSUME Inv, NEW c \in Coroutine,
           \/ AcceptUpdate(c) \/ CreateDebate(c) \/ AfterAccept(c) \/ PublishStarted(c)
           \/ RejectUpdate(c) \/ PublishRejected(c) \/ RereadInvitation(c)
    PROVE  Inv'
  <1>0. /\ co[c] \in Place /\ Placed(co[c]) /\ Stored(co[c]) /\ armed \subseteq Invitation
        /\ faults \in 0..MaxFaults /\ calls \in 0..MaxRequests
    BY DEF Inv, TypeOK
  <1> DEFINE again == [co[c] EXCEPT !.step = "reread"]
  <1>a. co[c].step = "update" =>
          again \in Place /\ Placed(again) /\ Stored(again) /\ again.step \notin Locks
    BY <1>0 DEF Place, Placed, Stored, Locks, Step
  <1>b. Goto(c, "reread") => co' = [co EXCEPT ![c] = again]
    BY DEF Goto, Inv, TypeOK
  <1> HIDE DEF again
  <1>1. CASE AcceptUpdate(c)
    <2>1. UNCHANGED <<rows, due, armed, told, up, calls, faults>>
          /\ co[c].step = "update" /\ co[c].op = "accept" /\ ~InvitationLocked(co[c].inv)
      BY <1>1 DEF AcceptUpdate, At
    <2>2. CASE AnswerWins(c)
      BY <1>1, <2>1, <2>2, AcceptKeepsInv DEF AcceptUpdate, AnswerWins, Goto
    <2>3. CASE ~AnswerWins(c)
      <3>1. Goto(c, "reread")
        BY <1>1, <2>3 DEF AcceptUpdate
      <3> QED
        BY <1>0, <1>a, <1>b, <2>1, <3>1, ControlKeepsInv
    <2> QED
      BY <2>2, <2>3
  <1>2. CASE CreateDebate(c)
    <2>1. UNCHANGED <<rows, due, armed, told, up, calls, faults>>
          /\ co[c].step = "create" /\ co[c].op = "accept"
      BY <1>2 DEF CreateDebate, At
    <2>2. CASE Finish(c)
      BY <1>0, <2>1, <2>2, FinishKeepsInv
    <2>3. CASE /\ CommunityFree
               /\ \E d \in Debate :
                    /\ FreshDebate(d)
                    /\ co' = [co EXCEPT ![c].deb = d, ![c].step = "lock"]
      <3> PICK d \in Debate : /\ FreshDebate(d)
                              /\ co' = [co EXCEPT ![c].deb = d, ![c].step = "lock"]
        BY <2>3
      <3> DEFINE x == [co[c] EXCEPT !.deb = d, !.step = "lock"]
      <3>1. /\ x \in Place /\ x.step = "lock" /\ x.op = "accept" /\ x.deb = d
            /\ x.inv = co[c].inv
        BY <1>0, <2>1 DEF Place, Step
      <3>2. Placed(x) /\ Stored(x)
        BY <1>0, <2>1, <3>1, InvitationConstants DEF Placed, Stored
      <3>3. co' = [co EXCEPT ![c] = x]
        BY DEF Inv, TypeOK
      <3>4. /\ debate[x.deb] = "none"
            /\ \A o \in Coroutine \ {c} : InTransaction(o) => co[o].deb # x.deb
        BY <3>1 DEF FreshDebate
      <3>5. InTransaction(c)
        BY <2>1 DEF InTransaction
      <3> HIDE DEF x
      <3>6. UNCHANGED <<rows, due, armed, told, up, faults>> /\ calls' \in 0..MaxRequests
        BY <1>0, <2>1
      <3> QED
        BY <2>1, <2>3, <3>1, <3>2, <3>3, <3>4, <3>5, <3>6, HoldDebateKeepsInv
    <2> QED
      BY <1>2, <2>2, <2>3 DEF CreateDebate
  <1>3. CASE AfterAccept(c)
    <2> DEFINE x == [co[c] EXCEPT !.step = "publish"]
    <2>1. x \in Place /\ Placed(x) /\ Stored(x) /\ x.step \notin Locks
      BY <1>0, <1>3 DEF AfterAccept, At, Place, Placed, Stored, Locks, Step
    <2>2. co' = [co EXCEPT ![c] = x]
      BY <1>3 DEF AfterAccept, Goto, Inv, TypeOK
    <2>3. UNCHANGED <<rows, due, told, up, calls, faults>> /\ armed' \subseteq Invitation
      BY <1>0, <1>3 DEF AfterAccept
    <2> HIDE DEF x
    <2> QED
      BY <1>0, <2>1, <2>2, <2>3, ControlKeepsInv
  <1>4. CASE PublishStarted(c)
    <2>1. /\ co[c].inv \in Invitation /\ status[co[c].inv] = "ACCEPTED"
          /\ Finish(c) /\ armed' \subseteq Invitation
          /\ UNCHANGED <<rows, due, up, calls, faults>>
      BY <1>0, <1>4 DEF PublishStarted, At, Placed, Stored
    <2>2. told' = told \cup {<<"started", co[c].inv>>} \/ told' = told
      BY <1>4 DEF PublishStarted
    <2> QED
      BY <2>1, <2>2, PublishKeepsInv
  <1>5. CASE RejectUpdate(c)
    <2>1. /\ co[c].step = "update" /\ co[c].op = "reject" /\ co[c].inv \in Invitation
          /\ ~InvitationLocked(co[c].inv)
          /\ UNCHANGED <<debateOf, debate, community, guest, due, armed, told, up, calls,
                         faults>>
      BY <1>0, <1>5 DEF RejectUpdate, At, Placed
    <2>2. CASE AnswerWins(c)
      <3> PICK x : x = [co[c] EXCEPT !.step = "publish"]
        OBVIOUS
      <3>1. /\ status[co[c].inv] = "PENDING"
            /\ status' = [status EXCEPT ![co[c].inv] = "REJECTED"]
            /\ co' = [co EXCEPT ![c] = x]
        BY <1>5, <2>2 DEF RejectUpdate, AnswerWins, Goto, Inv, TypeOK
      <3>2. x \in Place /\ Placed(x) /\ x.step \notin Locks
        BY <1>0, <2>1 DEF Place, Placed, Locks, Step
      <3>3. Stored(x)'
        BY <1>0, <2>1, <3>1 DEF Place, Stored, Inv, TypeOK
      <3>4. "REJECTED" \in InvitationStatus
        BY DEF InvitationStatus
      <3> QED
        BY <2>1, <3>1, <3>2, <3>3, <3>4, SettleKeepsInv
    <2>3. CASE ~AnswerWins(c)
      <3>1. Goto(c, "reread") /\ UNCHANGED status
        BY <1>5, <2>3 DEF RejectUpdate
      <3>2. UNCHANGED <<rows, due, told, up, calls>>
        BY <2>1, <3>1 DEF rows
      <3> QED
        BY <1>0, <1>a, <1>b, <2>1, <3>1, <3>2, ControlKeepsInv
    <2> QED
      BY <2>2, <2>3
  <1>6. CASE PublishRejected(c)
    <2>1. /\ co[c].inv \in Invitation /\ status[co[c].inv] = "REJECTED"
          /\ Finish(c) /\ armed' \subseteq Invitation
          /\ UNCHANGED <<rows, due, up, calls, faults>>
      BY <1>0, <1>6 DEF PublishRejected, At, Placed, Stored
    <2>2. told' = told \cup {<<"rejected", co[c].inv>>}
      BY <1>6 DEF PublishRejected
    <2> QED
      BY <2>1, <2>2, PublishKeepsInv
  <1>7. CASE RereadInvitation(c)
    <2> DEFINE x == [co[c] EXCEPT !.step = "find"]
    <2>1. x \in Place /\ Placed(x) /\ Stored(x) /\ x.step \notin Locks
      BY <1>0, <1>7 DEF RereadInvitation, Place, Placed, Stored, Locks, Step
    <2>2. Finish(c) \/ co' = [co EXCEPT ![c] = x]
      BY <1>7 DEF RereadInvitation, Goto, Inv, TypeOK
    <2>3. UNCHANGED <<rows, due, armed, told, up, calls, faults>>
      BY <1>7 DEF RereadInvitation
    <2> HIDE DEF x
    <2> QED
      BY <1>0, <2>1, <2>2, <2>3, ControlKeepsInv, FinishKeepsInv
  <1> QED
    BY <1>1, <1>2, <1>3, <1>4, <1>5, <1>6, <1>7

LEMMA ExpireKeepsInv ==
    ASSUME Inv, NEW c \in Coroutine, ExpireFind(c) \/ ExpireMove(c) \/ PublishExpired(c)
    PROVE  Inv'
  <1>0. /\ co[c] \in Place /\ Placed(co[c]) /\ Stored(co[c]) /\ armed \subseteq Invitation
        /\ faults \in 0..MaxFaults
    BY DEF Inv, TypeOK
  <1>1. CASE ExpireFind(c)
    <2> DEFINE late == co[c].inv \in due
               x == [co[c] EXCEPT !.step = "move", !.late = late]
    <2>0. late \in BOOLEAN
      OBVIOUS
    <2>2. co' = [co EXCEPT ![c] = x] /\ co[c].step = "find"
      BY <1>1 DEF ExpireFind, Inv, TypeOK
    <2> HIDE DEF late
    <2>1. x \in Place /\ Placed(x) /\ Stored(x) /\ x.step \notin Locks
      BY <1>0, <2>0, <2>2 DEF Place, Placed, Stored, Locks, Step
    <2>3. UNCHANGED <<rows, due, armed, told, up, calls, faults>>
      BY <1>1 DEF ExpireFind
    <2> HIDE DEF x
    <2> QED
      BY <1>0, <2>1, <2>2, <2>3, ControlKeepsInv
  <1>2. CASE ExpireMove(c)
    <2>1. /\ co[c].step = "move" /\ co[c].inv \in Invitation
          /\ ~InvitationLocked(co[c].inv)
          /\ UNCHANGED <<debateOf, debate, community, guest, due, armed, told, up, calls,
                         faults>>
      BY <1>0, <1>2 DEF ExpireMove, Placed
    <2>2. CASE status[co[c].inv] = "PENDING" /\ co[c].late
      <3> PICK x : x = [co[c] EXCEPT !.step = "expired"]
        OBVIOUS
      <3>1. /\ status' = [status EXCEPT ![co[c].inv] = "EXPIRED"]
            /\ co' = [co EXCEPT ![c] = x]
        BY <1>2, <2>2 DEF ExpireMove, Goto, Inv, TypeOK
      <3>2. x \in Place /\ Placed(x) /\ x.step \notin Locks
        BY <1>0, <2>1 DEF Place, Placed, Locks, Step
      <3>3. Stored(x)'
        BY <1>0, <2>1, <3>1 DEF Place, Stored, Inv, TypeOK
      <3>4. "EXPIRED" \in InvitationStatus
        BY DEF InvitationStatus
      <3> QED
        BY <2>1, <2>2, <3>1, <3>2, <3>3, <3>4, SettleKeepsInv
    <2>3. CASE ~(status[co[c].inv] = "PENDING" /\ co[c].late)
      <3>1. ExpireDone(c) /\ UNCHANGED status
        BY <1>2, <2>3 DEF ExpireMove
      <3>2. UNCHANGED <<rows, due, told, up, calls>>
        BY <2>1, <3>1 DEF rows
      <3> QED
        BY <1>0, <2>1, <3>1, <3>2, FinishKeepsInv
    <2> QED
      BY <2>2, <2>3
  <1>3. CASE PublishExpired(c)
    <2>1. /\ co[c].inv \in Invitation /\ status[co[c].inv] = "EXPIRED"
          /\ ExpireDone(c) /\ armed' \subseteq Invitation
          /\ UNCHANGED <<rows, due, up, calls, faults>>
      BY <1>0, <1>3 DEF PublishExpired, Placed, Stored
    <2>2. told' = told \cup {<<"expired", co[c].inv>>}
      BY <1>3 DEF PublishExpired
    <2> QED
      BY <2>1, <2>2, PublishKeepsInv
  <1> QED
    BY <1>1, <1>2, <1>3

LEMMA TransactionKeepsInv ==
    ASSUME Inv, NEW c \in Coroutine,
           \/ ApplyOutcome(c) \/ LockCommunity(c) \/ ReadState(c) \/ Commit(c)
           \/ CommitAnswerLost(c) \/ DeadlockVictim(c) \/ SavePost(c) \/ SaveDelete(c)
    PROVE  Inv'
  <1>0. /\ co[c] \in Place /\ Placed(co[c]) /\ Stored(co[c]) /\ armed \subseteq Invitation
        /\ faults \in 0..MaxFaults /\ calls \in 0..MaxRequests
    BY DEF Inv, TypeOK
  <1>1. CASE ApplyOutcome(c)
    <2>1. UNCHANGED <<rows, due, armed, told, up, calls, faults>>
          /\ co[c].step = "apply" /\ co[c].op = "end"
      BY <1>1 DEF ApplyOutcome, At
    <2>2. CASE Finish(c)
      BY <1>0, <2>1, <2>2, FinishKeepsInv
    <2>3. CASE CommunityFree /\ Goto(c, "lock")
      <3> DEFINE x == [co[c] EXCEPT !.step = "lock"]
      <3>1. /\ x \in Place /\ Placed(x) /\ Stored(x)
            /\ x.step = "lock" /\ x.op = "end" /\ x.deb = co[c].deb
        BY <1>0, <2>1 DEF Place, Placed, Stored, Step
      <3>2. co' = [co EXCEPT ![c] = x]
        BY <2>3 DEF Goto, Inv, TypeOK
      <3>3. InTransaction(c) /\ co[c].deb # None
        BY <1>0, <2>1 DEF InTransaction, Placed
      <3>4. /\ debate[x.deb] = "active"
            /\ \A o \in Coroutine \ {c} : InTransaction(o) => co[o].deb # x.deb
        BY <2>1, <3>1, <3>3 DEF Inv, Holding
      <3> HIDE DEF x
      <3>5. UNCHANGED <<rows, due, armed, told, up, faults>> /\ calls' \in 0..MaxRequests
        BY <1>0, <2>1
      <3> QED
        BY <2>3, <3>1, <3>2, <3>4, <3>5, HoldDebateKeepsInv
    <2> QED
      BY <1>1, <2>2, <2>3 DEF ApplyOutcome
  <1>2. CASE LockCommunity(c)
    BY <1>2, LockKeepsInv
  <1>3. CASE ReadState(c)
    BY <1>3, ReadStateKeepsInv
  <1>4. CASE Commit(c)
    <2>1. co[c].step = "commit" /\ Written(c)
          /\ UNCHANGED <<guest, due, armed, told, up, calls, faults>>
      BY <1>4 DEF Commit
    <2>2. CASE co[c].op = "accept"
      <3> PICK x : x = [co[c] EXCEPT !.step = "after"]
        OBVIOUS
      <3>1. co' = [co EXCEPT ![c] = x]
        BY <1>4, <2>2 DEF Commit, Goto, Inv, TypeOK
      <3>2. x \in Place /\ Placed(x) /\ x.step \notin Locks
        BY <1>0, <2>1, <2>2 DEF Place, Placed, Locks, Step
      <3>3. status' = [status EXCEPT ![co[c].inv] = "ACCEPTED"]
        BY <2>1, <2>2 DEF Written
      <3>4. Stored(x)'
        BY <1>0, <2>1, <2>2, <3>3 DEF Place, Placed, Stored, Inv, TypeOK
      <3> QED
        BY <1>0, <2>1, <3>1, <3>2, <3>4, CommitKeepsInv
    <2>3. CASE co[c].op # "accept"
      <3>1. co' = [co EXCEPT ![c] = Idle]
        BY <1>4, <2>3 DEF Commit, Finish
      <3>2. Stored(Idle)'
        BY DEF Stored, Idle
      <3> QED
        BY <1>0, <2>1, <3>1, <3>2, IdleIsPlace, CommitKeepsInv
    <2> QED
      BY <2>2, <2>3
  <1>5. CASE CommitAnswerLost(c)
    <2>1. co[c].step = "commit" /\ Written(c) /\ co' = [co EXCEPT ![c] = Idle]
          /\ UNCHANGED <<guest, due, armed, told, up, calls>>
          /\ faults < MaxFaults /\ faults' = faults + 1
      BY <1>5 DEF CommitAnswerLost, Finish
    <2>2. faults' \in 0..MaxFaults
      BY <2>1, Counters
    <2>3. Stored(Idle)'
      BY DEF Stored, Idle
    <2> QED
      BY <2>1, <2>2, <2>3, IdleIsPlace, CommitKeepsInv
  <1>6. CASE DeadlockVictim(c)
    BY <1>0, <1>6, FinishKeepsInv DEF DeadlockVictim
  <1>7. CASE SavePost(c)
    BY <1>7, PostKeepsInv
  <1>8. CASE SaveDelete(c)
    BY <1>8, DeleteKeepsInv
  <1> QED
    BY <1>1, <1>2, <1>3, <1>4, <1>5, <1>6, <1>7, <1>8

LEMMA EnvironmentKeepsInv ==
    ASSUME Inv,
           \/ \E to \in {"none", "preparing", "open"} : GuestChanges(to)
           \/ \E i \in Invitation : DeadlinePasses(i) \/ FireTimer(i)
           \/ Crash
           \/ Boot
    PROVE  Inv'
  <1>0. /\ armed \subseteq Invitation /\ due \subseteq Invitation /\ up \in BOOLEAN
        /\ faults \in 0..MaxFaults /\ calls \in 0..MaxRequests
        /\ guest \in {"none", "preparing", "open"}
    BY DEF Inv, TypeOK
  <1>1. CASE \E to \in {"none", "preparing", "open"} : GuestChanges(to)
    BY <1>0, <1>1, StandKeepsInv DEF GuestChanges
  <1>2. CASE \E i \in Invitation : DeadlinePasses(i)
    BY <1>0, <1>2, StandKeepsInv DEF DeadlinePasses, rows
  <1>3. CASE \E i \in Invitation : FireTimer(i)
    <2> PICK i \in Invitation : FireTimer(i)
      BY <1>3
    <2> DEFINE x == [Idle EXCEPT !.op = "expire", !.step = "find", !.inv = i]
    <2>1. x \in Place /\ Placed(x) /\ Stored(x) /\ x.step \notin Locks
      BY DEF Idle, Place, Placed, Stored, Locks, Step
    <2>2. co' = [co EXCEPT ![i] = x] /\ i \in Coroutine
          /\ UNCHANGED <<rows, due, told, up, calls>> /\ armed' \subseteq Invitation
      BY <1>0 DEF FireTimer, Coroutine
    <2>3. faults' \in 0..MaxFaults
      BY Counters DEF FireTimer
    <2> HIDE DEF x
    <2> QED
      BY <2>1, <2>2, <2>3, ControlKeepsInv
  <1>4. CASE Crash
    BY <1>4, CrashKeepsInv
  <1>5. CASE Boot
    <2>1. UNCHANGED <<status, debateOf, debate, community, told, co, guest, due, calls>>
          /\ up' = TRUE /\ armed' \subseteq Invitation
      BY <1>0, <1>5 DEF Boot, rows
    <2>2. faults' \in 0..MaxFaults
      BY <1>5, Counters DEF Boot
    <2> QED
      BY <1>0, <2>1, <2>2, StandKeepsInv
  <1> QED
    BY <1>1, <1>2, <1>3, <1>4, <1>5

LEMMA FailureKeepsInv ==
    ASSUME Inv, NEW c \in Coroutine, QueryFails(c)
    PROVE  Inv'
  <1>1. Finish(c) \/ ExpireDone(c)
    BY DEF QueryFails
  <1>2. UNCHANGED <<rows, due, told, up, calls>> /\ armed' \subseteq Invitation
    BY DEF QueryFails, Inv, TypeOK
  <1>3. faults' \in 0..MaxFaults
    BY Counters DEF QueryFails
  <1> QED
    BY <1>1, <1>2, <1>3, FinishKeepsInv

LEMMA StepKeepsInv == Inv /\ [Next]_vars => Inv'
  <1> SUFFICES ASSUME Inv, [Next]_vars PROVE Inv'
    OBVIOUS
  <1>1. CASE \E r \in Request : Arrive(r)
    BY <1>1, ArriveKeepsInv
  <1>2. CASE \E c \in Coroutine : Continue(c)
    BY <1>2, StartKeepsInv, AnswerKeepsInv, ExpireKeepsInv, TransactionKeepsInv
    DEF Continue
  <1>3. CASE \E c \in Coroutine : QueryFails(c) \/ CommitAnswerLost(c)
    BY <1>3, FailureKeepsInv, TransactionKeepsInv
  <1>4. CASE \/ \E to \in {"none", "preparing", "open"} : GuestChanges(to)
             \/ \E i \in Invitation : DeadlinePasses(i) \/ FireTimer(i)
             \/ Crash
             \/ Boot
    BY <1>4, EnvironmentKeepsInv
  <1>5. CASE UNCHANGED vars
    <2>1. UNCHANGED <<status, debateOf, debate, community, told, co, guest, due, armed,
                      up, calls, faults>>
      BY <1>5 DEF vars
    <2> QED
      BY <2>1, StandKeepsInv DEF Inv, TypeOK
  <1> QED
    BY <1>1, <1>2, <1>3, <1>4, <1>5 DEF Next

LEMMA InvHolds == Spec => []Inv
  BY InitInv, StepKeepsInv, PTL DEF Spec

-----------------------------------------------------------------------------
(* Theorems *)

(***************************************************************************)
(* The types of DebateInvitations: a coroutine knows the invitation, the   *)
(* debate and the state of the community its step asks for.                *)
(***************************************************************************)
THEOREM InvitationTypes == Spec => []TypeOK
  <1>1. Inv => TypeOK
    BY DEF Inv
  <1> QED
    BY <1>1, InvHolds, PTL

(***************************************************************************)
(* What the room is told of an invitation is what its row says (transition *)
(* and InvitationTransitionLost), for every number of requests and through *)
(* crashes, failing queries and lost commits.                              *)
(***************************************************************************)
THEOREM RoomHearsTheRows == Spec => []EventsMatchRows
  <1>1. Inv => EventsMatchRows
    BY DEF Inv
  <1> QED
    BY <1>1, InvHolds, PTL

(***************************************************************************)
(* A community is ACTIVE while a debate begun by an invitation is, and     *)
(* never without an active debate, because lockForUpdate lets one          *)
(* transaction decide it at a time (syncCommunityState).                   *)
(***************************************************************************)
THEOREM CommunityIsInStep == Spec => []CommunityFollowsDebates
  <1>1. Inv => CommunityFollowsDebates
    BY DEF Inv
  <1> QED
    BY <1>1, InvHolds, PTL

-----------------------------------------------------------------------------
(* The ledger *)

LEMMA IssueInLedger ==
    ASSUME Inv, NEW c \in Coroutine, InsertInvitation(c)
    PROVE  Ledger!Next \/ UNCHANGED <<status, debateOf>>
  <1>1. CASE \E i \in Invitation : status[i] = "PENDING"
    BY <1>1 DEF InsertInvitation
  <1>2. CASE ~\E i \in Invitation : status[i] = "PENDING"
    <2> PICK i \in Invitation : /\ status[i] = "none"
                                /\ status' = [status EXCEPT ![i] = "PENDING"]
      BY <1>2 DEF InsertInvitation
    <2>1. Ledger!Issue(i)
      BY <1>2 DEF Ledger!Issue, InsertInvitation
    <2> QED
      BY <2>1 DEF Ledger!Next
  <1> QED
    BY <1>1, <1>2

LEMMA AcceptInLedger ==
    ASSUME Inv, NEW c \in Coroutine, co[c].step = "commit", Written(c)
    PROVE  Ledger!Next \/ UNCHANGED <<status, debateOf>>
  <1>1. CASE co[c].op = "accept"
    <2>1. /\ co[c].inv \in Invitation /\ co[c].deb \in Debate
          /\ status[co[c].inv] = "PENDING"
          /\ \A i \in Invitation : debateOf[i] # co[c].deb
      BY <1>1, CommitFacts
    <2>2. Ledger!Accept(co[c].inv, co[c].deb)
      BY <1>1, <2>1 DEF Ledger!Accept, Written
    <2> QED
      BY <2>1, <2>2 DEF Ledger!Next
  <1>2. CASE co[c].op # "accept"
    BY <1>2 DEF Written
  <1> QED
    BY <1>1, <1>2

LEMMA DeclineInLedger ==
    ASSUME Inv, NEW c \in Coroutine, RejectUpdate(c) \/ ExpireMove(c)
    PROVE  Ledger!Next \/ UNCHANGED <<status, debateOf>>
  <1>0. Placed(co[c])
    BY DEF Inv
  <1>1. co[c].inv \in Invitation
    BY <1>0 DEF RejectUpdate, ExpireMove, At, Placed
  <1>2. debateOf' = debateOf
    BY DEF RejectUpdate, ExpireMove
  <1>3. \/ status' = status
        \/ /\ status[co[c].inv] = "PENDING"
           /\ \E no \in {"REJECTED", "EXPIRED"} :
                status' = [status EXCEPT ![co[c].inv] = no]
    BY DEF RejectUpdate, ExpireMove, AnswerWins
  <1>4. status' # status => Ledger!Decline(co[c].inv)
    BY <1>2, <1>3 DEF Ledger!Decline
  <1> QED
    BY <1>1, <1>2, <1>4 DEF Ledger!Next

LEMMA StepInLedger == Inv /\ [Next]_vars => [Ledger!Next]_(Ledger!vars)
  <1> SUFFICES ASSUME Inv, [Next]_vars
               PROVE  Ledger!Next \/ UNCHANGED <<status, debateOf>>
    BY DEF Ledger!vars
  <1>1. CASE \E r \in Request : Arrive(r)
    BY <1>1 DEF Arrive, BeginStart, BeginAnswer, BeginEnd, BeginPost, BeginDelete, rows
  <1>2. CASE \E c \in Coroutine : Continue(c)
    <2> PICK c \in Coroutine : Continue(c)
      BY <1>2
    <2>1. CASE \/ CheckActive(c) \/ FindDue(c) \/ ArmTimer(c) \/ PublishRequested(c)
               \/ AcceptUpdate(c) \/ CreateDebate(c) \/ AfterAccept(c)
               \/ PublishStarted(c)
      BY <2>1 DEF CheckActive, FindDue, ArmTimer, PublishRequested, AcceptUpdate,
                  CreateDebate, AfterAccept, PublishStarted, rows
    <2>2. CASE \/ PublishRejected(c) \/ RereadInvitation(c) \/ ExpireFind(c)
               \/ PublishExpired(c) \/ ApplyOutcome(c) \/ LockCommunity(c) \/ ReadState(c)
               \/ DeadlockVictim(c) \/ SavePost(c) \/ SaveDelete(c)
      BY <2>2 DEF PublishRejected, RereadInvitation, ExpireFind, PublishExpired,
                  ApplyOutcome, LockCommunity, ReadState, DeadlockVictim, SavePost,
                  SaveDelete, rows
    <2>3. CASE InsertInvitation(c)
      BY <2>3, IssueInLedger
    <2>4. CASE RejectUpdate(c) \/ ExpireMove(c)
      BY <2>4, DeclineInLedger
    <2>5. CASE Commit(c)
      BY <2>5, AcceptInLedger DEF Commit
    <2> QED
      BY <2>1, <2>2, <2>3, <2>4, <2>5 DEF Continue
  <1>3. CASE \E c \in Coroutine : QueryFails(c) \/ CommitAnswerLost(c)
    BY <1>3, AcceptInLedger DEF QueryFails, CommitAnswerLost, rows
  <1>4. CASE \/ \E to \in {"none", "preparing", "open"} : GuestChanges(to)
             \/ \E i \in Invitation : DeadlinePasses(i) \/ FireTimer(i)
             \/ Crash
             \/ Boot
    BY <1>4 DEF GuestChanges, DeadlinePasses, FireTimer, Crash, Boot, rows
  <1>5. CASE UNCHANGED vars
    BY <1>5 DEF vars
  <1> QED
    BY <1>1, <1>2, <1>3, <1>4, <1>5 DEF Next

(***************************************************************************)
(* The service implements the ledger: through accepts, rejects and         *)
(* expiries that race for one row, restarts and lost answers, an           *)
(* invitation is answered at most once, and its debate is its own and      *)
(* exists exactly when it was accepted.                                    *)
(***************************************************************************)
THEOREM ServiceKeepsTheLedger == Spec => LedgerImplemented
  <1>1. Init => Ledger!Init
    BY DEF Init, Ledger!Init
  <1>2. Inv /\ [Next]_vars => [Ledger!Next]_(Ledger!vars)
    BY StepInLedger
  <1> QED
    BY <1>1, <1>2, InvHolds, PTL DEF Spec, LedgerImplemented, Ledger!Spec

-----------------------------------------------------------------------------
(* What a start does about an overdue invitation *)

OnePending ==
    \A i, j \in Invitation : status[i] = "PENDING" /\ status[j] = "PENDING" => i = j

\* A start on its way through expireDue: what it was to sweep is the one
\* PENDING invitation, the one it expires, or PENDING no more.
Sweeps(x) ==
    x.op = "start" /\ x.stale # None =>
      /\ x.stale \in due /\ status[x.stale] # "none"
      /\ x.step # "reread"
      /\ x.step \in {"expired", "insert"} => status[x.stale] # "PENDING"
      /\ x.step \in {"find", "move"} /\ status[x.stale] = "PENDING" =>
           /\ x.inv = x.stale
           /\ x.step = "move" => x.late

SweepInv == OnePending /\ \A c \in Coroutine : Sweeps(co[c])

\* An invitation is issued once, while no other waits, and waits no more once
\* it was answered.
LEMMA AnswersLast ==
    ASSUME Inv, OnePending, [Next]_vars
    PROVE  /\ OnePending'
           /\ \A i \in Invitation : status[i] # "none" =>
                status'[i] # "none" /\ (status'[i] = "PENDING" => status[i] = "PENDING")
  <1>0. status \in [Invitation -> InvitationStatus]
    BY DEF Inv, TypeOK
  <1>1. CASE UNCHANGED status
    BY <1>1 DEF OnePending
  <1>2. CASE \E i \in Invitation : Ledger!Issue(i)
    BY <1>0, <1>2 DEF OnePending, Ledger!Issue
  <1>3. CASE \E i \in Invitation, s \in {"ACCEPTED", "REJECTED", "EXPIRED"} :
               status' = [status EXCEPT ![i] = s]
    BY <1>0, <1>3 DEF OnePending
  <1> QED
    BY <1>1, <1>2, <1>3, StepInLedger
    DEF Ledger!Next, Ledger!vars, Ledger!Accept, Ledger!Decline

\* Who stands still loses nothing of what he knows.
LEMMA SweepsOn ==
    ASSUME Inv, OnePending, [Next]_vars, NEW x \in Place, Sweeps(x), due \subseteq due'
    PROVE  Sweeps(x)'
  <1>1. x.stale # None => x.stale \in Invitation
    BY DEF Place
  <1> QED
    BY <1>1, AnswersLast DEF Sweeps

\* One coroutine moves, the others stand still.
LEMMA OneSweeps ==
    ASSUME Inv, SweepInv, [Next]_vars, due \subseteq due',
           NEW c \in Coroutine, NEW y, co' = [co EXCEPT ![c] = y],
           Sweeps(y)' \/ (y \in Place /\ Sweeps(y))
    PROVE  SweepInv'
  <1>1. co \in [Coroutine -> Place]
    BY DEF Inv, TypeOK
  <1>2. OnePending'
    BY AnswersLast DEF SweepInv
  <1>3. \A o \in Coroutine \ {c} : co'[o] = co[o] /\ Sweeps(co[o])'
    BY <1>1, SweepsOn DEF SweepInv
  <1>4. co'[c] = y /\ Sweeps(y)'
    BY <1>1, SweepsOn DEF SweepInv
  <1> QED
    BY <1>2, <1>3, <1>4 DEF SweepInv, Sweeps

LEMMA ArriveSweeps ==
    ASSUME Inv, SweepInv, [Next]_vars, NEW r \in Request, Arrive(r)
    PROVE  SweepInv'
  <1>0. r \in Coroutine /\ co \in [Coroutine -> Place]
    BY DEF Coroutine, Inv, TypeOK
  <1>1. CASE BeginStart(r)
    <2> PICK s \in Invitation \cup {None} :
           /\ s = None \/ s \in Overdue
           /\ Begin(r, [Idle EXCEPT !.op = "start", !.step = "active", !.stale = s])
      BY <1>1, Zenon DEF BeginStart
    <2> PICK x : x = [Idle EXCEPT !.op = "start", !.step = "active", !.stale = s]
      OBVIOUS
    <2>1. co' = [co EXCEPT ![r] = x] /\ UNCHANGED <<status, due>>
      BY <1>1 DEF Begin, BeginStart, rows
    <2>2. s = None \/ s \in Overdue
      OBVIOUS
    <2>3. Sweeps(x)'
      BY <2>1, <2>2 DEF Sweeps, Idle, Overdue
    <2> QED
      BY <1>0, <2>1, <2>3, OneSweeps
  <1>2. CASE ~BeginStart(r)
    <2>1. PICK x : x.op # "start" /\ co' = [co EXCEPT ![r] = x] /\ UNCHANGED due
      <3>1. \A i \in Invitation, op \in {"accept", "reject"} : BeginAnswer(r, i, op)
              => \E x : x.op # "start" /\ co' = [co EXCEPT ![r] = x] /\ UNCHANGED due
        BY DEF BeginAnswer, Begin, Idle
      <3>2. \A d \in Debate : BeginEnd(r, d)
              => \E x : x.op # "start" /\ co' = [co EXCEPT ![r] = x] /\ UNCHANGED due
        BY DEF BeginEnd, Begin, Idle
      <3>3. BeginPost(r) \/ BeginDelete(r)
              => \E x : x.op # "start" /\ co' = [co EXCEPT ![r] = x] /\ UNCHANGED due
        BY DEF BeginPost, BeginDelete, Begin, Idle
      <3> QED
        BY <1>2, <3>1, <3>2, <3>3 DEF Arrive
    <2>2. Sweeps(x)'
      BY <2>1 DEF Sweeps
    <2> QED
      BY <1>0, <2>1, <2>2, OneSweeps
  <1> QED
    BY <1>1, <1>2

\* Whoever is not in a start has nothing to sweep.
LEMMA OthersSweep ==
    ASSUME Inv, SweepInv, [Next]_vars, NEW c \in Coroutine, co[c].op # "start",
           Continue(c) \/ CommitAnswerLost(c)
    PROVE  SweepInv'
  <1>0. co \in [Coroutine -> Place]
    BY DEF Inv, TypeOK
  <1> DEFINE Moved == \E x : x.op # "start" /\ co' = [co EXCEPT ![c] = x] /\ UNCHANGED due
  <1>a. Finish(c) => \E x : x.op # "start" /\ co' = [co EXCEPT ![c] = x]
    BY DEF Finish, Idle
  <1>b. \A s : Goto(c, s) => \E x : x.op # "start" /\ co' = [co EXCEPT ![c] = x]
    <2> SUFFICES ASSUME NEW s, Goto(c, s)
                 PROVE  \E x : x.op # "start" /\ co' = [co EXCEPT ![c] = x]
      OBVIOUS
    <2>1. co' = [co EXCEPT ![c] = [co[c] EXCEPT !.step = s]]
      BY <1>0 DEF Goto
    <2>2. [co[c] EXCEPT !.step = s].op = co[c].op
      BY <1>0 DEF Place
    <2> QED
      BY <2>1, <2>2
  <1>c. ExpireDone(c) => \E x : x.op # "start" /\ co' = [co EXCEPT ![c] = x]
    BY <1>a DEF ExpireDone, Finish
  <1>1. ASSUME \/ AcceptUpdate(c) \/ AfterAccept(c) \/ PublishStarted(c)
               \/ RejectUpdate(c) \/ PublishRejected(c) \/ RereadInvitation(c)
               \/ ExpireMove(c) \/ PublishExpired(c)
               \/ ApplyOutcome(c) \/ LockCommunity(c) \/ Commit(c) \/ DeadlockVictim(c)
               \/ SavePost(c) \/ SaveDelete(c) \/ CommitAnswerLost(c)
        PROVE  Moved
    <2>1. due' = due /\ (Finish(c) \/ (\E s \in Step : Goto(c, s)) \/ ExpireDone(c))
      BY <1>1
      DEF AcceptUpdate, AfterAccept, PublishStarted, RejectUpdate, PublishRejected,
          RereadInvitation, ExpireMove, PublishExpired, ApplyOutcome, LockCommunity,
          Commit, DeadlockVictim, SavePost, SaveDelete, CommitAnswerLost, Step
    <2> QED
      BY <2>1, <1>a, <1>b, <1>c
  <1>2. ASSUME CreateDebate(c) \/ ExpireFind(c) \/ ReadState(c) PROVE Moved
    <2>1. ASSUME NEW d, co' = [co EXCEPT ![c].deb = d, ![c].step = "lock"]
          PROVE  \E x : x.op # "start" /\ co' = [co EXCEPT ![c] = x]
      <3>1. co' = [co EXCEPT ![c] = [co[c] EXCEPT !.deb = d, !.step = "lock"]]
        BY <1>0, <2>1
      <3>2. [co[c] EXCEPT !.deb = d, !.step = "lock"].op = co[c].op
        BY <1>0 DEF Place
      <3> QED
        BY <3>1, <3>2
    <2>2. ASSUME NEW l, co' = [co EXCEPT ![c].step = "move", ![c].late = l]
          PROVE  \E x : x.op # "start" /\ co' = [co EXCEPT ![c] = x]
      <3>1. co' = [co EXCEPT ![c] = [co[c] EXCEPT !.step = "move", !.late = l]]
        BY <1>0, <2>2
      <3>2. [co[c] EXCEPT !.step = "move", !.late = l].op = co[c].op
        BY <1>0 DEF Place
      <3> QED
        BY <3>1, <3>2
    <2>3. ASSUME NEW n, co' = [co EXCEPT ![c].step = "commit", ![c].next = n]
          PROVE  \E x : x.op # "start" /\ co' = [co EXCEPT ![c] = x]
      <3>1. co' = [co EXCEPT ![c] = [co[c] EXCEPT !.step = "commit", !.next = n]]
        BY <1>0, <2>3
      <3>2. [co[c] EXCEPT !.step = "commit", !.next = n].op = co[c].op
        BY <1>0 DEF Place
      <3> QED
        BY <3>1, <3>2
    <2>4. CreateDebate(c) => Moved
      BY <1>a, <2>1 DEF CreateDebate
    <2>5. ExpireFind(c) => Moved
      BY <2>2 DEF ExpireFind
    <2>6. ReadState(c) => Moved
      BY <2>3 DEF ReadState
    <2> QED
      BY <1>2, <2>4, <2>5, <2>6
  <1>3. ~(\/ CheckActive(c) \/ FindDue(c) \/ InsertInvitation(c) \/ ArmTimer(c)
          \/ PublishRequested(c))
    BY DEF CheckActive, FindDue, InsertInvitation, ArmTimer, PublishRequested, At
  <1>4. Moved
    BY <1>1, <1>2, <1>3 DEF Continue
  <1>5. PICK x : x.op # "start" /\ co' = [co EXCEPT ![c] = x] /\ UNCHANGED due
    BY <1>4
  <1>6. Sweeps(x)'
    BY <1>5 DEF Sweeps
  <1> QED
    BY <1>5, <1>6, OneSweeps

\* The steps of a start: what it reads of an overdue invitation leads it to
\* expire that one, or to nothing that is still PENDING.
LEMMA StartSweeps ==
    ASSUME Inv, SweepInv, [Next]_vars, NEW c \in Coroutine, co[c].op = "start",
           Continue(c)
    PROVE  SweepInv'
  <1>0. /\ co \in [Coroutine -> Place] /\ co[c] \in Place
        /\ status \in [Invitation -> InvitationStatus]
        /\ Sweeps(co[c]) /\ OnePending /\ Placed(co[c])
    BY DEF SweepInv, Inv, TypeOK
  <1>a. co[c].stale # None => co[c].stale \in Invitation
    BY <1>0 DEF Place
  <1>b. Finish(c) /\ due' = due => SweepInv'
    BY OneSweeps DEF Finish, Sweeps, Idle
  <1>1. CASE CheckActive(c)
    <2> PICK x : x = [co[c] EXCEPT !.step = "due"]
      OBVIOUS
    <2>1. Finish(c) \/ co' = [co EXCEPT ![c] = x]
      BY <1>0, <1>1 DEF CheckActive, Goto
    <2>2. x \in Place /\ Sweeps(x)
      BY <1>0 DEF Place, Step, Sweeps
    <2>3. due' = due
      BY <1>1 DEF CheckActive
    <2> QED
      BY <1>b, <2>1, <2>2, <2>3, OneSweeps
  <1>2. CASE FindDue(c)
    <2>1. due' = due /\ status' = status /\ co[c].step = "due"
      BY <1>2 DEF FindDue, At, rows
    <2>2. CASE Overdue = {} /\ Goto(c, "insert")
      <3> PICK x : x = [co[c] EXCEPT !.step = "insert"]
        OBVIOUS
      <3>1. co' = [co EXCEPT ![c] = x]
        BY <1>0, <2>2 DEF Goto
      <3>2. x \in Place /\ Sweeps(x)
        BY <1>0, <2>2 DEF Place, Step, Sweeps, Overdue
      <3> QED
        BY <2>1, <3>1, <3>2, OneSweeps
    <2>3. CASE \E i \in Overdue : co' = [co EXCEPT ![c].inv = i, ![c].step = "find"]
      <3> PICK i \in Overdue : co' = [co EXCEPT ![c].inv = i, ![c].step = "find"]
        BY <2>3
      <3> PICK x : x = [co[c] EXCEPT !.inv = i, !.step = "find"]
        OBVIOUS
      <3>1. co' = [co EXCEPT ![c] = x]
        BY <1>0
      <3>2. i \in Invitation /\ status[i] = "PENDING"
        BY DEF Overdue, Inv, TypeOK
      <3>3. x \in Place /\ Sweeps(x)
        BY <1>0, <1>a, <3>2 DEF Place, Step, Sweeps, OnePending
      <3> QED
        BY <2>1, <3>1, <3>3, OneSweeps
    <2> QED
      BY <1>2, <2>2, <2>3 DEF FindDue
  <1>3. CASE ExpireFind(c)
    <2> PICK late : late = (co[c].inv \in due)
      OBVIOUS
    <2> PICK x : x = [co[c] EXCEPT !.step = "move", !.late = late]
      OBVIOUS
    <2>1. /\ co' = [co EXCEPT ![c] = x] /\ due' = due /\ status' = status
          /\ co[c].step = "find"
      BY <1>0, <1>3 DEF ExpireFind, rows
    <2>2. late \in BOOLEAN
      OBVIOUS
    <2>3. x \in Place
      BY <1>0, <2>2 DEF Place, Step
    <2>4. Sweeps(x)
      BY <1>0, <2>1, <2>2 DEF Place, Sweeps
    <2> QED
      BY <2>1, <2>3, <2>4, OneSweeps
  <1>4. CASE ExpireMove(c)
    <2>1. co[c].step = "move" /\ due' = due /\ co[c].inv \in Invitation
      BY <1>0, <1>4 DEF ExpireMove, Placed
    <2>2. CASE status[co[c].inv] = "PENDING" /\ co[c].late
      <3> PICK x : x = [co[c] EXCEPT !.step = "expired"]
        OBVIOUS
      <3>1. /\ co' = [co EXCEPT ![c] = x]
            /\ status' = [status EXCEPT ![co[c].inv] = "EXPIRED"]
        BY <1>0, <1>4, <2>2 DEF ExpireMove, Goto
      <3>2. Sweeps(x)'
        BY <1>0, <1>a, <2>1, <3>1 DEF Place, Sweeps
      <3> QED
        BY <2>1, <3>1, <3>2, OneSweeps
    <2>3. CASE ~(status[co[c].inv] = "PENDING" /\ co[c].late)
      <3> PICK x : x = [co[c] EXCEPT !.step = "insert", !.inv = None, !.late = FALSE]
        OBVIOUS
      <3>1. co' = [co EXCEPT ![c] = x] /\ status' = status
        BY <1>0, <1>4, <2>3 DEF ExpireMove, ExpireDone
      <3>2. x \in Place /\ Sweeps(x)
        BY <1>0, <2>1, <2>3 DEF Place, Step, Sweeps
      <3> QED
        BY <2>1, <3>1, <3>2, OneSweeps
    <2> QED
      BY <2>2, <2>3
  <1>5. CASE PublishExpired(c)
    <2> PICK x : x = [co[c] EXCEPT !.step = "insert", !.inv = None, !.late = FALSE]
      OBVIOUS
    <2>1. co' = [co EXCEPT ![c] = x] /\ due' = due /\ co[c].step = "expired"
      BY <1>0, <1>5 DEF PublishExpired, ExpireDone
    <2>2. x \in Place /\ Sweeps(x)
      BY <1>0, <2>1 DEF Place, Step, Sweeps
    <2> QED
      BY <2>1, <2>2, OneSweeps
  <1>6. CASE InsertInvitation(c)
    <2>1. due' = due /\ co[c].step = "insert"
      BY <1>6 DEF InsertInvitation, At
    <2>2. CASE \E i \in Invitation : co' = [co EXCEPT ![c].inv = i, ![c].step = "arm"]
      <3> PICK i \in Invitation : co' = [co EXCEPT ![c].inv = i, ![c].step = "arm"]
        BY <2>2
      <3> PICK x : x = [co[c] EXCEPT !.inv = i, !.step = "arm"]
        OBVIOUS
      <3>1. co' = [co EXCEPT ![c] = x]
        BY <1>0
      <3>2. x \in Place /\ Sweeps(x)
        BY <1>0 DEF Place, Step, Sweeps
      <3> QED
        BY <2>1, <3>1, <3>2, OneSweeps
    <2> QED
      BY <1>6, <1>b, <2>1, <2>2 DEF InsertInvitation
  <1>7. CASE ArmTimer(c)
    <2> PICK x : x = [co[c] EXCEPT !.step = "publish"]
      OBVIOUS
    <2>1. co' = [co EXCEPT ![c] = x] /\ due' = due
      BY <1>0, <1>7 DEF ArmTimer, Goto
    <2>2. x \in Place /\ Sweeps(x)
      BY <1>0 DEF Place, Step, Sweeps
    <2> QED
      BY <2>1, <2>2, OneSweeps
  <1>8. CASE PublishRequested(c)
    BY <1>8, <1>b DEF PublishRequested
  <1>9. CASE RereadInvitation(c)
    <2> PICK x : x = [co[c] EXCEPT !.step = "find"]
      OBVIOUS
    <2>1. /\ Finish(c) \/ co' = [co EXCEPT ![c] = x]
          /\ due' = due /\ co[c].step = "reread"
      BY <1>0, <1>9 DEF RereadInvitation, Goto
    <2>2. x \in Place /\ Sweeps(x)
      BY <1>0, <2>1 DEF Place, Step, Sweeps
    <2> QED
      BY <1>b, <2>1, <2>2, OneSweeps
  <1>10. CASE \/ AcceptUpdate(c) \/ CreateDebate(c) \/ AfterAccept(c)
              \/ PublishStarted(c) \/ RejectUpdate(c) \/ PublishRejected(c)
              \/ ApplyOutcome(c) \/ SavePost(c) \/ SaveDelete(c)
    BY <1>10 DEF AcceptUpdate, CreateDebate, AfterAccept, PublishStarted, RejectUpdate,
                 PublishRejected, ApplyOutcome, SavePost, SaveDelete, At
  <1>11. CASE LockCommunity(c) \/ ReadState(c) \/ Commit(c) \/ DeadlockVictim(c)
    BY <1>0, <1>11 DEF LockCommunity, ReadState, Commit, DeadlockVictim, Placed
  <1> QED
    BY <1>1, <1>2, <1>3, <1>4, <1>5, <1>6, <1>7, <1>8, <1>9, <1>10, <1>11 DEF Continue

LEMMA StepSweeps ==
    ASSUME "query" \notin Faults, Inv, SweepInv, [Next]_vars
    PROVE  SweepInv'
  <1>0. co \in [Coroutine -> Place] /\ OnePending
    BY DEF SweepInv, Inv, TypeOK
  <1>1. CASE \E r \in Request : Arrive(r)
    BY <1>1, ArriveSweeps
  <1>2. CASE \E c \in Coroutine : Continue(c)
    BY <1>2, OthersSweep, StartSweeps
  <1>3. CASE \E c \in Coroutine : QueryFails(c) \/ CommitAnswerLost(c)
    <2> PICK c \in Coroutine : CommitAnswerLost(c)
      BY <1>3 DEF QueryFails
    <2>1. co[c].op # "start"
      BY DEF CommitAnswerLost, Inv, Placed
    <2> QED
      BY <2>1, OthersSweep
  <1>4. CASE \/ \E to \in {"none", "preparing", "open"} : GuestChanges(to)
             \/ \E i \in Invitation : DeadlinePasses(i)
             \/ Boot
             \/ UNCHANGED vars
    <2>1. co' = co /\ due \subseteq due'
      BY <1>4 DEF GuestChanges, DeadlinePasses, Boot, vars
    <2>2. OnePending' /\ \A c \in Coroutine : Sweeps(co[c])'
      <3>1. OnePending'
        BY <1>0, AnswersLast
      <3>2. ASSUME NEW c \in Coroutine PROVE Sweeps(co[c])'
        <4> PICK x : x = co[c]
          OBVIOUS
        <4>1. Sweeps(x)'
          BY <1>0, <2>1, SweepsOn DEF SweepInv
        <4> QED
          BY <2>1, <4>1 DEF Sweeps
      <3> QED
        BY <3>1, <3>2
    <2> QED
      BY <2>1, <2>2 DEF SweepInv
  <1>5. CASE \E i \in Invitation : FireTimer(i)
    <2> PICK i \in Invitation : FireTimer(i)
      BY <1>5
    <2> PICK x : x = [Idle EXCEPT !.op = "expire", !.step = "find", !.inv = i]
      OBVIOUS
    <2>1. co' = [co EXCEPT ![i] = x] /\ due' = due /\ i \in Coroutine
      BY DEF FireTimer, Coroutine
    <2>2. Sweeps(x)'
      BY DEF Sweeps, Idle
    <2> QED
      BY <2>1, <2>2, OneSweeps
  <1>6. CASE Crash
    <2>1. \A c \in Coroutine : co'[c] = Idle
      BY <1>6 DEF Crash
    <2>2. OnePending'
      BY <1>0, AnswersLast
    <2> QED
      BY <2>1, <2>2 DEF SweepInv, Sweeps, Idle
  <1> QED
    BY <1>1, <1>2, <1>3, <1>4, <1>5, <1>6 DEF Next

(***************************************************************************)
(* expireDue: as long as no query fails, a start never meets, where it     *)
(* inserts its invitation, the one that was overdue when it began: through *)
(* rivals that answer or expire it in between, lost commits, timers that   *)
(* fire early, and restarts that lost the timer.                           *)
(***************************************************************************)
THEOREM StartsSweepTheStale ==
    ASSUME "query" \notin Faults
    PROVE  Spec => []StaleNeverBlocks
  <1>1. Init => SweepInv
    BY DEF Init, SweepInv, OnePending, Sweeps, Idle
  <1>2. "query" \notin Faults /\ Inv /\ SweepInv /\ [Next]_vars => SweepInv'
    BY StepSweeps
  <1>3. SweepInv => StaleNeverBlocks
    BY DEF SweepInv, Sweeps, StaleNeverBlocks, Coroutine
  <1> QED
    BY <1>1, <1>2, <1>3, InvHolds, PTL DEF Spec
-----------------------------------------------------------------------------
(* What will expire an invitation *)

\* An expiry runs under its own id; without early timers it is in time.
Timely(i, x) ==
    x.op = "expire" =>
      /\ x.inv = i /\ i \in due
      /\ x.step \in {"find", "move", "expired"}
      /\ x.step = "move" => x.late

WatchInv ==
    /\ PendingIsWatched
    /\ \A c \in Coroutine : Timely(c, co[c])

\* A coroutine moves within its call, or its call is over.
LEMMA WithinTheCall ==
    ASSUME Inv, NEW c \in Coroutine, Continue(c) \/ CommitAnswerLost(c),
           co[c].op # "start"
    PROVE  \E x : /\ co' = [co EXCEPT ![c] = x]
                  /\ x.op = "expire" => co[c].op = "expire"
  <1>0. co \in [Coroutine -> Place]
    BY DEF Inv, TypeOK
  <1> DEFINE Moved == \E x : /\ co' = [co EXCEPT ![c] = x]
                             /\ x.op = "expire" => co[c].op = "expire"
  <1>a. Finish(c) => Moved
    BY DEF Finish, Idle
  <1>b. \A y : y.op = co[c].op /\ co' = [co EXCEPT ![c] = y] => Moved
    OBVIOUS
  <1>c. \A s : Goto(c, s) => Moved
    <2> SUFFICES ASSUME NEW s, Goto(c, s) PROVE Moved
      OBVIOUS
    <2>1. co' = [co EXCEPT ![c] = [co[c] EXCEPT !.step = s]]
      BY <1>0 DEF Goto
    <2>2. [co[c] EXCEPT !.step = s].op = co[c].op
      BY <1>0 DEF Place
    <2> QED
      BY <2>1, <2>2, <1>b
  <1>d. ExpireDone(c) => Moved
    BY <1>a DEF ExpireDone, Finish
  <1>1. ASSUME \/ AcceptUpdate(c) \/ AfterAccept(c) \/ PublishStarted(c)
               \/ RejectUpdate(c) \/ PublishRejected(c) \/ RereadInvitation(c)
               \/ ExpireMove(c) \/ PublishExpired(c)
               \/ ApplyOutcome(c) \/ LockCommunity(c) \/ Commit(c) \/ DeadlockVictim(c)
               \/ SavePost(c) \/ SaveDelete(c) \/ CommitAnswerLost(c)
        PROVE  Moved
    <2>1. Finish(c) \/ (\E s \in Step : Goto(c, s)) \/ ExpireDone(c)
      BY <1>1
      DEF AcceptUpdate, AfterAccept, PublishStarted, RejectUpdate, PublishRejected,
          RereadInvitation, ExpireMove, PublishExpired, ApplyOutcome, LockCommunity,
          Commit, DeadlockVictim, SavePost, SaveDelete, CommitAnswerLost, Step
    <2> QED
      BY <2>1, <1>a, <1>c, <1>d
  <1>2. ASSUME CreateDebate(c) PROVE Moved
    <2>1. ASSUME NEW d, co' = [co EXCEPT ![c].deb = d, ![c].step = "lock"]
          PROVE  Moved
      <3>1. co' = [co EXCEPT ![c] = [co[c] EXCEPT !.deb = d, !.step = "lock"]]
        BY <1>0, <2>1
      <3>2. [co[c] EXCEPT !.deb = d, !.step = "lock"].op = co[c].op
        BY <1>0 DEF Place
      <3> QED
        BY <3>1, <3>2, <1>b
    <2> QED
      BY <1>2, <2>1, <1>a DEF CreateDebate
  <1>3. ASSUME ExpireFind(c) PROVE Moved
    <2> PICK l : l = (co[c].inv \in due)
      OBVIOUS
    <2>1. co' = [co EXCEPT ![c] = [co[c] EXCEPT !.step = "move", !.late = l]]
      BY <1>0, <1>3 DEF ExpireFind
    <2>2. [co[c] EXCEPT !.step = "move", !.late = l].op = co[c].op
      BY <1>0 DEF Place
    <2> QED
      BY <2>1, <2>2, <1>b
  <1>4. ASSUME ReadState(c) PROVE Moved
    <2> PICK n : co' = [co EXCEPT ![c].step = "commit", ![c].next = n]
      BY <1>4 DEF ReadState
    <2>1. co' = [co EXCEPT ![c] = [co[c] EXCEPT !.step = "commit", !.next = n]]
      BY <1>0
    <2>2. [co[c] EXCEPT !.step = "commit", !.next = n].op = co[c].op
      BY <1>0 DEF Place
    <2> QED
      BY <2>1, <2>2, <1>b
  <1>5. ~(\/ CheckActive(c) \/ FindDue(c) \/ InsertInvitation(c) \/ ArmTimer(c)
          \/ PublishRequested(c))
    BY DEF CheckActive, FindDue, InsertInvitation, ArmTimer, PublishRequested, At
  <1> QED
    BY <1>1, <1>2, <1>3, <1>4, <1>5 DEF Continue

\* One coroutine moves, and no invitation becomes PENDING.
LEMMA OneWatches ==
    ASSUME Inv, WatchInv, up, due \subseteq due',
           \A i \in Invitation : status'[i] = "PENDING" => status[i] = "PENDING",
           \A i \in armed : i \in armed' \/ status'[i] # "PENDING",
           NEW c \in Coroutine, NEW y, co' = [co EXCEPT ![c] = y],
           co[c].op = "start" /\ co[c].step = "arm" => co[c].inv \in armed',
           co[c].op = "expire" /\ co[c].step \in {"find", "move"} =>
             \/ y.op = "expire" /\ y.step \in {"find", "move"}
             \/ status'[c] # "PENDING",
           Timely(c, y)'
    PROVE  WatchInv'
  <1>1. co \in [Coroutine -> Place]
    BY DEF Inv, TypeOK
  <1>2. co'[c] = y /\ \A o \in Coroutine \ {c} : co'[o] = co[o]
    BY <1>1
  <1>3. \A o \in Coroutine : Timely(o, co[o])'
    BY <1>2 DEF WatchInv, Timely
  <1>4. ASSUME NEW i \in Invitation, status'[i] = "PENDING"
        PROVE  Watched(i)'
    <2>1. Watched(i) /\ i \in Coroutine
      BY <1>4 DEF WatchInv, PendingIsWatched, Coroutine
    <2>2. CASE i \in armed
      BY <1>4, <2>2 DEF Watched
    <2>3. CASE co[i].op = "expire" /\ co[i].step \in {"find", "move"}
      <3>1. CASE i = c
        BY <1>2, <1>4, <2>3, <3>1 DEF Watched
      <3>2. CASE i # c
        BY <1>2, <2>1, <2>3, <3>2 DEF Watched
      <3> QED
        BY <3>1, <3>2
    <2>4. CASE \E o \in Coroutine :
                 co[o].op = "start" /\ co[o].step = "arm" /\ co[o].inv = i
      BY <1>2, <2>4 DEF Watched
    <2> QED
      BY <2>1, <2>2, <2>3, <2>4 DEF Watched
  <1> QED
    BY <1>3, <1>4 DEF WatchInv, PendingIsWatched

\* A new call is neither an expiry nor about to arm a timer.
LEMMA ArriveWatches ==
    ASSUME Inv, WatchInv, NEW r \in Request, Arrive(r)
    PROVE  WatchInv'
  <1>0. r \in Coroutine /\ co \in [Coroutine -> Place]
    BY DEF Coroutine, Inv, TypeOK
  <1> DEFINE Moved == /\ \E x : x.op # "expire" /\ co' = [co EXCEPT ![r] = x]
                      /\ up /\ co[r] = Idle
                      /\ UNCHANGED <<status, armed, due>>
  <1>1. ASSUME BeginStart(r) PROVE Moved
    <2> PICK s \in Invitation \cup {None} :
           Begin(r, [Idle EXCEPT !.op = "start", !.step = "active", !.stale = s])
      BY <1>1, Zenon DEF BeginStart
    <2> PICK x : x = [Idle EXCEPT !.op = "start", !.step = "active", !.stale = s]
      OBVIOUS
    <2>1. co' = [co EXCEPT ![r] = x] /\ x.op # "expire" /\ up /\ co[r] = Idle
      BY DEF Begin, Idle
    <2> QED
      BY <1>1, <2>1 DEF BeginStart, rows
  <1>2. ASSUME NEW i \in Invitation, NEW o \in {"accept", "reject"}, BeginAnswer(r, i, o)
        PROVE  Moved
    BY <1>2 DEF BeginAnswer, Begin, Idle, rows
  <1>3. ASSUME NEW d \in Debate, BeginEnd(r, d) PROVE Moved
    BY <1>3 DEF BeginEnd, Begin, Idle, rows
  <1>4. ASSUME BeginPost(r) \/ BeginDelete(r) PROVE Moved
    BY <1>4 DEF BeginPost, BeginDelete, Begin, Idle, rows
  <1>5. Moved
    BY <1>1, <1>2, <1>3, <1>4 DEF Arrive
  <1> PICK x : x.op # "expire" /\ co' = [co EXCEPT ![r] = x]
    BY <1>5
  <1>6. Timely(r, x)' /\ co[r].op = "none"
    BY <1>5 DEF Timely, Idle
  <1> QED
    BY <1>0, <1>5, <1>6, OneWatches

\* Answers and debates: a timer is cleared once its invitation is answered.
LEMMA OthersWatch ==
    ASSUME Inv, WatchInv, NEW c \in Coroutine,
           Continue(c) \/ CommitAnswerLost(c), co[c].op \notin {"start", "expire"}
    PROVE  WatchInv'
  <1>0. /\ co \in [Coroutine -> Place] /\ co[c] \in Place
        /\ status \in [Invitation -> InvitationStatus]
        /\ Placed(co[c]) /\ Stored(co[c])
    BY DEF Inv, TypeOK
  <1>1. /\ up /\ due' = due /\ co[c].step # "idle"
        /\ armed' = armed
             \/ /\ armed' = armed \ {co[c].inv} /\ UNCHANGED status
                /\ AfterAccept(c) \/ PublishRejected(c)
    BY DEF Continue, CheckActive, FindDue, InsertInvitation, ArmTimer, PublishRequested,
           AcceptUpdate, CreateDebate, AfterAccept, PublishStarted, RejectUpdate,
           PublishRejected, RereadInvitation, ExpireFind, ExpireMove, PublishExpired,
           ApplyOutcome, LockCommunity, ReadState, Commit, DeadlockVictim, SavePost,
           SaveDelete, CommitAnswerLost, At, rows
  <1>2. ASSUME AfterAccept(c) \/ PublishRejected(c), UNCHANGED status
        PROVE  status'[co[c].inv] # "PENDING"
    BY <1>0, <1>2 DEF AfterAccept, PublishRejected, At, Stored
  <1>3. \A i \in armed : i \in armed' \/ status'[i] # "PENDING"
    BY <1>1, <1>2
  <1>4. \A i \in Invitation : status'[i] = "PENDING" => status[i] = "PENDING"
    <2>1. ~InsertInvitation(c)
      BY DEF InsertInvitation, At
    <2>2. \/ UNCHANGED status
          \/ \E s \in {"REJECTED", "EXPIRED", "ACCEPTED"} :
               status' = [status EXCEPT ![co[c].inv] = s]
      BY <2>1
      DEF Continue, CheckActive, FindDue, ArmTimer, PublishRequested,
          AcceptUpdate, CreateDebate, AfterAccept, PublishStarted, RejectUpdate,
          PublishRejected, RereadInvitation, ExpireFind, ExpireMove, PublishExpired,
          ApplyOutcome, LockCommunity, ReadState, Commit, DeadlockVictim, SavePost,
          SaveDelete, CommitAnswerLost, At, rows, Written
    <2> QED
      BY <1>0, <2>2
  <1> PICK x : co' = [co EXCEPT ![c] = x] /\ x.op # "expire"
    BY WithinTheCall
  <1>5. Timely(c, x)'
    BY DEF Timely
  <1> QED
    BY <1>1, <1>3, <1>4, <1>5, OneWatches

\* An expiry that is in time moves the row, unless someone else has.
LEMMA ExpiryWatches ==
    ASSUME Inv, WatchInv, NEW c \in Coroutine, Continue(c) \/ CommitAnswerLost(c),
           co[c].op = "expire"
    PROVE  WatchInv'
  <1>0. /\ co \in [Coroutine -> Place] /\ co[c] \in Place
        /\ status \in [Invitation -> InvitationStatus]
        /\ Placed(co[c]) /\ Timely(c, co[c])
    BY DEF Inv, TypeOK, WatchInv
  <1>1. /\ co[c].inv = c /\ c \in due /\ c \in Invitation
        /\ co[c].step \in {"find", "move", "expired"}
        /\ co[c].step = "move" => co[c].late
    BY <1>0 DEF Timely, Placed
  <1>2. CASE ExpireFind(c)
    <2> PICK x : x = [co[c] EXCEPT !.step = "move", !.late = TRUE]
      OBVIOUS
    <2>1. co' = [co EXCEPT ![c] = x]
      BY <1>0, <1>1, <1>2 DEF ExpireFind
    <2>2. UNCHANGED <<status, armed, due>> /\ up
      BY <1>2 DEF ExpireFind, rows
    <2>3. x.op = "expire" /\ x.step = "move" /\ Timely(c, x)'
      BY <1>0, <1>1, <2>2 DEF Place, Timely
    <2> QED
      BY <2>1, <2>2, <2>3, OneWatches
  <1>3. CASE ExpireMove(c)
    <2>1. UNCHANGED <<armed, due>> /\ up /\ co[c].step = "move"
      BY <1>3 DEF ExpireMove
    <2>2. CASE status[c] = "PENDING"
      <3> PICK x : x = [co[c] EXCEPT !.step = "expired"]
        OBVIOUS
      <3>1. co' = [co EXCEPT ![c] = x] /\ status' = [status EXCEPT ![c] = "EXPIRED"]
        BY <1>0, <1>1, <1>3, <2>1, <2>2 DEF ExpireMove, Goto
      <3>2. Timely(c, x)'
        BY <1>0, <1>1, <2>1 DEF Place, Timely
      <3>3. status'[c] # "PENDING"
        BY <1>0, <1>1, <3>1
      <3>4. \A i \in Invitation : status'[i] = "PENDING" => status[i] = "PENDING"
        BY <1>0, <3>1
      <3> QED
        BY <1>0, <2>1, <3>1, <3>2, <3>3, <3>4, OneWatches
    <2>3. CASE status[c] # "PENDING"
      <3>1. co' = [co EXCEPT ![c] = Idle] /\ UNCHANGED status
        BY <1>0, <1>1, <1>3, <2>3 DEF ExpireMove, ExpireDone
      <3>2. Timely(c, Idle)'
        BY DEF Timely, Idle
      <3> QED
        BY <1>0, <2>1, <2>3, <3>1, <3>2, OneWatches
    <2> QED
      BY <2>2, <2>3
  <1>4. CASE PublishExpired(c)
    <2>1. /\ co' = [co EXCEPT ![c] = Idle] /\ co[c].step = "expired"
          /\ UNCHANGED <<status, armed, due>> /\ up
      BY <1>0, <1>4 DEF PublishExpired, ExpireDone, rows
    <2>2. Timely(c, Idle)'
      BY DEF Timely, Idle
    <2> QED
      BY <1>0, <2>1, <2>2, OneWatches
  <1>5. ExpireFind(c) \/ ExpireMove(c) \/ PublishExpired(c)
    BY <1>0, <1>1
    DEF Continue, CheckActive, FindDue, InsertInvitation, ArmTimer, PublishRequested,
        AcceptUpdate, CreateDebate, AfterAccept, PublishStarted, RejectUpdate,
        PublishRejected, RereadInvitation, ApplyOutcome, LockCommunity, ReadState, Commit,
        DeadlockVictim, SavePost, SaveDelete, CommitAnswerLost, At
  <1> QED
    BY <1>2, <1>3, <1>4, <1>5

\* A start watches over the invitation it has inserted until it arms the timer.
LEMMA StartWatches ==
    ASSUME Inv, WatchInv, NEW c \in Coroutine, Continue(c), co[c].op = "start"
    PROVE  WatchInv'
  <1>0. /\ co \in [Coroutine -> Place] /\ co[c] \in Place
        /\ status \in [Invitation -> InvitationStatus]
        /\ armed \subseteq Invitation /\ Placed(co[c])
    BY DEF Inv, TypeOK
  <1>i. Timely(c, Idle)'
    BY DEF Timely, Idle
  <1>g. \A s : [co[c] EXCEPT !.step = s].op = "start"
    BY <1>0 DEF Place
  <1>1. CASE CheckActive(c) \/ PublishRequested(c) \/ RereadInvitation(c)
    <2>1. /\ UNCHANGED <<status, armed, due>> /\ up /\ co[c].step # "arm"
          /\ Finish(c) \/ \E s \in Step : Goto(c, s)
      BY <1>1 DEF CheckActive, PublishRequested, RereadInvitation, At, rows, Step
    <2>2. CASE Finish(c)
      BY <1>0, <1>i, <2>1, <2>2, OneWatches DEF Finish
    <2>3. CASE \E s \in Step : Goto(c, s)
      <3> PICK s \in Step : Goto(c, s)
        BY <2>3
      <3> PICK x : x = [co[c] EXCEPT !.step = s]
        OBVIOUS
      <3>1. co' = [co EXCEPT ![c] = x] /\ Timely(c, x)'
        BY <1>0, <1>g DEF Goto, Timely
      <3> QED
        BY <1>0, <2>1, <3>1, OneWatches
    <2> QED
      BY <2>1, <2>2, <2>3
  <1>2. CASE FindDue(c)
    <2>1. UNCHANGED <<status, armed, due>> /\ up /\ co[c].step # "arm"
      BY <1>2 DEF FindDue, At, rows
    <2>2. \E x : co' = [co EXCEPT ![c] = x] /\ x.op = "start"
      <3>1. CASE Goto(c, "insert")
        BY <1>0, <1>g, <3>1 DEF Goto
      <3>2. CASE \E i \in Overdue : co' = [co EXCEPT ![c].inv = i, ![c].step = "find"]
        <4> PICK i \in Overdue : co' = [co EXCEPT ![c].inv = i, ![c].step = "find"]
          BY <3>2
        <4>1. co' = [co EXCEPT ![c] = [co[c] EXCEPT !.inv = i, !.step = "find"]]
          BY <1>0
        <4>2. [co[c] EXCEPT !.inv = i, !.step = "find"].op = "start"
          BY <1>0 DEF Place
        <4> QED
          BY <4>1, <4>2
      <3> QED
        BY <1>2, <3>1, <3>2 DEF FindDue
    <2> PICK x : co' = [co EXCEPT ![c] = x] /\ x.op = "start"
      BY <2>2
    <2>3. Timely(c, x)'
      BY DEF Timely
    <2> QED
      BY <1>0, <2>1, <2>3, OneWatches
  <1>3. CASE ExpireFind(c) \/ ExpireMove(c) \/ PublishExpired(c)
    <2>1. UNCHANGED <<armed, due>> /\ up /\ co[c].step \in {"find", "move", "expired"}
      BY <1>3 DEF ExpireFind, ExpireMove, PublishExpired
    <2>2. \/ UNCHANGED status
          \/ status' = [status EXCEPT ![co[c].inv] = "EXPIRED"]
      BY <1>3 DEF ExpireFind, ExpireMove, PublishExpired, rows
    <2>3. \A i \in Invitation : status'[i] = "PENDING" => status[i] = "PENDING"
      BY <1>0, <2>2
    <2>4. \E x : co' = [co EXCEPT ![c] = x] /\ x.op = "start"
      <3>1. CASE ExpireFind(c)
        <4> PICK l : l = (co[c].inv \in due)
          OBVIOUS
        <4>1. co' = [co EXCEPT ![c] = [co[c] EXCEPT !.step = "move", !.late = l]]
          BY <1>0, <3>1 DEF ExpireFind
        <4>2. [co[c] EXCEPT !.step = "move", !.late = l].op = "start"
          BY <1>0 DEF Place
        <4> QED
          BY <4>1, <4>2
      <3>2. CASE Goto(c, "expired")
        BY <1>0, <1>g, <3>2 DEF Goto
      <3>3. CASE ExpireDone(c)
        <4>1. co' = [co EXCEPT ![c] = [co[c] EXCEPT !.step = "insert", !.inv = None,
                                                    !.late = FALSE]]
          BY <1>0, <3>3 DEF ExpireDone
        <4>2. [co[c] EXCEPT !.step = "insert", !.inv = None, !.late = FALSE].op = "start"
          BY <1>0 DEF Place
        <4> QED
          BY <4>1, <4>2
      <3> QED
        BY <1>3, <3>1, <3>2, <3>3 DEF ExpireMove, PublishExpired
    <2> PICK x : co' = [co EXCEPT ![c] = x] /\ x.op = "start"
      BY <2>4
    <2>5. Timely(c, x)'
      BY DEF Timely
    <2> QED
      BY <1>0, <2>1, <2>3, <2>5, OneWatches
  <1>4. CASE ArmTimer(c)
    <2> PICK x : x = [co[c] EXCEPT !.step = "publish"]
      OBVIOUS
    <2>1. co' = [co EXCEPT ![c] = x] /\ Timely(c, x)'
      BY <1>0, <1>g, <1>4 DEF ArmTimer, Goto, Timely
    <2>2. /\ UNCHANGED <<status, due>> /\ up
          /\ armed' = armed \cup {co[c].inv} /\ co[c].op # "expire"
      BY <1>4 DEF ArmTimer, At, rows
    <2> QED
      BY <2>1, <2>2, OneWatches
  <1>5. CASE InsertInvitation(c)
    <2>1. UNCHANGED <<armed, due>> /\ up /\ co[c].step = "insert"
      BY <1>5 DEF InsertInvitation, At
    <2>2. CASE Finish(c) /\ UNCHANGED status
      BY <1>0, <1>i, <2>1, <2>2, OneWatches DEF Finish
    <2>3. CASE \E i \in Invitation :
                 /\ status' = [status EXCEPT ![i] = "PENDING"]
                 /\ co' = [co EXCEPT ![c].inv = i, ![c].step = "arm"]
      <3> PICK i \in Invitation :
             /\ status' = [status EXCEPT ![i] = "PENDING"]
             /\ co' = [co EXCEPT ![c].inv = i, ![c].step = "arm"]
        BY <2>3
      <3> PICK x : x = [co[c] EXCEPT !.inv = i, !.step = "arm"]
        OBVIOUS
      <3>1. co' = [co EXCEPT ![c] = x]
        BY <1>0
      <3>2. x.op = "start" /\ x.step = "arm" /\ x.inv = i
        BY <1>0 DEF Place
      <3>3. co'[c] = x /\ \A o \in Coroutine \ {c} : co'[o] = co[o]
        BY <1>0, <3>1
      <3>4. ASSUME NEW o \in Coroutine PROVE Timely(o, co[o])'
        <4>1. CASE o = c
          BY <3>2, <3>3, <4>1 DEF Timely
        <4>2. CASE o # c
          <5>1. Timely(o, co[o]) /\ co'[o] = co[o]
            BY <3>3, <4>2 DEF WatchInv
          <5> QED
            BY <2>1, <5>1 DEF Timely
        <4> QED
          BY <4>1, <4>2
      <3>5. ASSUME NEW j \in Invitation, status'[j] = "PENDING"
            PROVE  Watched(j)'
        <4>1. CASE j = i
          BY <3>2, <3>3, <4>1 DEF Watched
        <4>2. CASE j # i
          <5>1. Watched(j) /\ j \in Coroutine
            BY <1>0, <2>1, <3>5, <4>2 DEF WatchInv, PendingIsWatched, Coroutine
          <5>2. CASE j \in armed
            BY <2>1, <5>2 DEF Watched
          <5>3. CASE co[j].op = "expire" /\ co[j].step \in {"find", "move"}
            BY <2>1, <3>3, <5>1, <5>3 DEF Watched
          <5>4. CASE \E o \in Coroutine :
                       co[o].op = "start" /\ co[o].step = "arm" /\ co[o].inv = j
            BY <2>1, <3>3, <5>4 DEF Watched
          <5> QED
            BY <5>1, <5>2, <5>3, <5>4 DEF Watched
        <4> QED
          BY <4>1, <4>2
      <3> QED
        BY <3>4, <3>5 DEF WatchInv, PendingIsWatched
    <2> QED
      BY <1>5, <2>2, <2>3 DEF InsertInvitation
  <1>6. CASE \/ AcceptUpdate(c) \/ CreateDebate(c) \/ AfterAccept(c)
             \/ PublishStarted(c) \/ RejectUpdate(c) \/ PublishRejected(c)
             \/ ApplyOutcome(c) \/ SavePost(c) \/ SaveDelete(c)
    BY <1>6 DEF AcceptUpdate, CreateDebate, AfterAccept, PublishStarted, RejectUpdate,
                PublishRejected, ApplyOutcome, SavePost, SaveDelete, At
  <1>7. CASE LockCommunity(c) \/ ReadState(c) \/ Commit(c) \/ DeadlockVictim(c)
    BY <1>0, <1>7 DEF LockCommunity, ReadState, Commit, DeadlockVictim, Placed
  <1> QED
    BY <1>1, <1>2, <1>3, <1>4, <1>5, <1>6, <1>7 DEF Continue

LEMMA StepWatches ==
    ASSUME Faults \cap {"query", "early"} = {}, Inv, WatchInv, [Next]_vars
    PROVE  WatchInv'
  <1>0. co \in [Coroutine -> Place] /\ armed \subseteq Invitation
    BY DEF Inv, TypeOK
  <1>1. CASE \E r \in Request : Arrive(r)
    BY <1>1, ArriveWatches
  <1>2. CASE \E c \in Coroutine : Continue(c)
    BY <1>2, OthersWatch, ExpiryWatches, StartWatches
  <1>3. CASE \E c \in Coroutine : QueryFails(c) \/ CommitAnswerLost(c)
    <2> PICK c \in Coroutine : CommitAnswerLost(c)
      BY <1>3 DEF QueryFails
    <2>1. co[c].op # "start"
      BY DEF CommitAnswerLost, Inv, Placed
    <2> QED
      BY <2>1, OthersWatch, ExpiryWatches
  <1>4. CASE \/ \E to \in {"none", "preparing", "open"} : GuestChanges(to)
             \/ \E i \in Invitation : DeadlinePasses(i)
             \/ UNCHANGED vars
    <2>1. UNCHANGED <<co, status, armed, up>> /\ due \subseteq due'
      BY <1>4 DEF GuestChanges, DeadlinePasses, vars, rows
    <2>2. \A c \in Coroutine : Timely(c, co[c])'
      BY <2>1 DEF WatchInv, Timely
    <2>3. PendingIsWatched'
      BY <2>1 DEF WatchInv, PendingIsWatched, Watched
    <2> QED
      BY <2>2, <2>3 DEF WatchInv
  <1>5. CASE \E i \in Invitation : FireTimer(i)
    <2> PICK i \in Invitation : FireTimer(i)
      BY <1>5
    <2> PICK x : x = [Idle EXCEPT !.op = "expire", !.step = "find", !.inv = i]
      OBVIOUS
    <2>1. /\ co' = [co EXCEPT ![i] = x] /\ i \in Coroutine /\ i \in due
          /\ armed' = armed \ {i} /\ UNCHANGED <<status, due, up>> /\ up
      BY DEF FireTimer, Coroutine, rows
    <2>2. x.op = "expire" /\ x.step = "find" /\ x.inv = i
      BY DEF Idle
    <2>3. co'[i] = x /\ \A o \in Coroutine \ {i} : co'[o] = co[o]
      BY <1>0, <2>1
    <2>4. \A o \in Coroutine : Timely(o, co[o])'
      BY <2>1, <2>2, <2>3 DEF WatchInv, Timely
    <2>5. ASSUME NEW j \in Invitation, status[j] = "PENDING", j # i
          PROVE  Watched(j)'
      <3>1. Watched(j) /\ j \in Coroutine
        BY <2>1, <2>5 DEF WatchInv, PendingIsWatched, Coroutine
      <3>2. co[i].op = "none"
        BY DEF FireTimer, Idle
      <3> QED
        BY <2>1, <2>3, <2>5, <3>1, <3>2 DEF Watched
    <2>6. Watched(i)'
      BY <2>2, <2>3 DEF Watched
    <2> QED
      BY <2>1, <2>4, <2>5, <2>6 DEF WatchInv, PendingIsWatched
  <1>6. CASE Crash
    BY <1>6 DEF Crash, WatchInv, PendingIsWatched, Timely, Idle
  <1>7. CASE Boot
    <2>1. UNCHANGED <<co, status, due>> /\ armed' = {i \in Invitation : status[i] = "PENDING"}
      BY <1>7 DEF Boot, rows
    <2> QED
      BY <2>1 DEF WatchInv, PendingIsWatched, Watched, Timely
  <1> QED
    BY <1>1, <1>2, <1>3, <1>4, <1>5, <1>6, <1>7 DEF Next

(***************************************************************************)
(* start, expire and onApplicationBootstrap: as long as queries succeed    *)
(* and no timer fires early, a process that runs has, for every PENDING    *)
(* invitation, a timer, an expiry that is in time, or a start that is      *)
(* about to arm one, whatever crashes, answers and commits came between.   *)
(***************************************************************************)
THEOREM PendingIsNeverForgotten ==
    ASSUME Faults \cap {"query", "early"} = {}
    PROVE  Spec => []PendingIsWatched
  <1>1. Init => WatchInv
    BY DEF Init, WatchInv, PendingIsWatched, Timely, Idle
  <1>2. Faults \cap {"query", "early"} = {} /\ Inv /\ WatchInv /\ [Next]_vars => WatchInv'
    BY StepWatches
  <1>3. WatchInv => PendingIsWatched
    BY DEF WatchInv
  <1> QED
    BY <1>1, <1>2, <1>3, InvHolds, PTL DEF Spec
==============================================================================
