----------------------------- MODULE AccountsProofs -----------------------------
(***************************************************************************)
(* The invariant of Accounts and what follows from it, for every number of *)
(* requests, members, social accounts and tokens, and through every crash, *)
(* failing query and expiry: the types, the sessions, and the ledger of    *)
(* the members' credit and rating.                                         *)
(*                                                                         *)
(* None of the properties is inductive.  For the sessions the invariant    *)
(* adds that tokens are issued in order and that there is one left for     *)
(* each call that runs (Numbered), what a coroutine knows of the token it  *)
(* was given (Presents), and that two rotations do not hold one token      *)
(* (Apart).  For the ledger it adds what a draft, or an entity that is     *)
(* going to be saved, may differ in from the row as it is now (Saving,     *)
(* Drafted).                                                               *)
(***************************************************************************)
EXTENDS Accounts, TLAPS, FiniteSetTheorems

TokenSteps == {"owner", "token", "rotate", "replace", "recheck", "reuse", "cut",
               "revoke"}
SaveSteps == {"select", "write"}

\* What the step of a coroutine says about its call.
Placed(x) ==
    /\ x.step \in {"member", "link", "persist"} \cup TokenSteps \cup SaveSteps
         => x.who \in Account
    /\ x.step = "find" /\ x.op \in {"update", "remove"} => x.who \in Account
    /\ x.step \in {"linked", "member", "email", "link", "enroll"} => x.id \in Identity
    /\ x.step \in TokenSteps => x.token \in Token
    /\ x.step \in {"fine", "commit"} => x.op = "judge"
    /\ x.step \in SaveSteps => x.op \in {"update", "remove", "judge"}
    /\ x.op = "judge" => x.step \in {"fine", "commit"} \cup SaveSteps
    /\ x.op # "judge" => x.fines = {} /\ \A a \in Account : x.draft[a] = NoRow

-----------------------------------------------------------------------------
(* The invariant of the sessions *)

Busy == {r \in Request : co[r] # Idle}

\* Tokens are issued in the order of their numbers, and each call that runs may
\* still issue one.
Numbered ==
    /\ IsFiniteSet(Busy)
    /\ \E n \in Nat : /\ \A t \in Token : Issued(t) <=> t <= n
                      /\ n + Cardinality(Busy) <= calls + 1

\* The token that a session began with is its root.
Rooted ==
    \A t \in Token :
        IF Issued(t) THEN token[t].root \in Token /\ Issued(token[t].root)
                     ELSE token[t] = NoToken

\* What a coroutine knows of the token it was given, or of those it revokes.
Presents(x) ==
    /\ x.step \in TokenSteps => token[x.token].owner = x.who
    /\ x.step = "replace" => ~token[x.token].revoked
    /\ x.step \in {"reuse", "cut"} => x.who \in reused
    /\ x.step = "cut" => \A t \in x.active : token[t].owner = x.who

\* The row lock of a rotation.
Apart ==
    \A r, o \in Request :
        r # o /\ At(r, "replace") /\ At(o, "replace") => co[r].token # co[o].token

Sessions ==
    /\ Numbered
    /\ Rooted
    /\ \A r \in Request : Presents(co[r])
    /\ Apart
    /\ OneActiveToken
    /\ SessionsEndForAReason

-----------------------------------------------------------------------------
(* The invariant of the ledger *)

\* A save has put an old value into a column, or a judgment is going to.
Put(x, a, c) == <<a, c>> \in x.lost \cup overwritten

\* An entity differs from the row it was made of by its call's change only.
Saving(x) ==
    x.step \in SaveSteps =>
        /\ row[x.who].status # "none" /\ x.seen.status # "none"
        /\ x.seen.rating = x.base.rating
        /\ x.seen.credit = x.base.credit + (IF x.op = "judge" THEN 1 ELSE 0)
        /\ x.step = "write" /\ x.op = "judge" /\ "credit" \notin x.stale =>
             Put(x, x.who, "credit") \/ x.seen.credit <= row[x.who].credit

\* The sides still to be fined are distinct, and not fined yet.
Sides(x) ==
    x.op = "judge" =>
        /\ \/ x.todo = <<>>
           \/ \E a \in Account \ x.fines :
                x.todo = <<a>> \/ \E b \in Account \ x.fines : a # b /\ x.todo = <<a, b>>
        /\ x.step \in SaveSteps => x.todo # <<>> /\ x.who = Head(x.todo)

\* A draft is the row as it is now, with the fine and the reward of its judgment.
Drafted(x) ==
    x.op = "judge" =>
        \A a \in Account :
            /\ a \in x.fines /\ x.draft[a] = NoRow => Put(x, a, "credit")
            /\ x.step = "commit" /\ x.winner = a => x.draft[a] # NoRow
            /\ x.draft[a] # NoRow =>
                 /\ a \in x.fines \/ x.step = "commit"
                 /\ row[a].status # "none" /\ x.draft[a].status # "none"
                 /\ \/ x.draft[a].credit = row[a].credit + (IF a \in x.fines THEN 1 ELSE 0)
                    \/ Put(x, a, "credit")
                 /\ \/ x.draft[a].rating =
                         row[a].rating
                         + (IF x.step = "commit" /\ x.winner = a THEN 1 ELSE 0)
                    \/ Put(x, a, "rating")

\* The row lock of a judgment.
DraftsApart ==
    \A r, o \in Request : \A a \in Account : r # o => ~(Drafts(r, a) /\ Drafts(o, a))

Booked(x) == Saving(x) /\ Sides(x) /\ Drafted(x)

Ledger ==
    /\ \A r \in Request : Booked(co[r])
    /\ DraftsApart
    /\ LedgerHolds

Inv ==
    /\ TypeOK
    /\ \A r \in Request : Placed(co[r])
    /\ Sessions
    /\ Ledger

-----------------------------------------------------------------------------
(* Lemmas *)

LEMMA Constants == None \notin Account /\ MaxCalls \in Nat /\ Token \subseteq Nat
                   /\ 0 \notin Token /\ "none" \notin Ops
  BY AccountConstants DEF Token, Calls

LEMMA FirstNumbers ==
    1 \in Token /\ 0 \in 0..MaxCalls /\ \A t \in Token : t <= 1 <=> t = 1
  BY AccountConstants DEF Token

LEMMA NoRowFits == NoRow \in Row /\ NoRow.status = "none" /\ NoRow.email = None
  BY DEF NoRow, Row

LEMMA IdleFits ==
    /\ Idle \in Place /\ Idle.op = "none" /\ Idle.step = "idle" /\ Idle.fines = {}
    /\ Idle.todo = <<>>
    /\ \A a \in Account : Idle.draft[a] = NoRow
  BY NoRowFits DEF Idle, Place, Step

LEMMA IdleClaimsNothing == Placed(Idle) /\ Presents(Idle) /\ Booked(Idle)
  BY IdleFits DEF Placed, Presents, Booked, Saving, Sides, Drafted, TokenSteps, SaveSteps

LEMMA InitInv == Init => Inv
  <1> SUFFICES ASSUME Init PROVE Inv
    OBVIOUS
  <1> USE DEF Init
  <1>1. PICK a \in Present, e \in Email :
          /\ row = [b \in Account |->
                      IF b \notin Present THEN NoRow
                      ELSE [NoRow EXCEPT !.status = "NORMAL",
                                         !.email = IF a = b THEN e ELSE None,
                                         !.password = IF a = b THEN 1 ELSE 0]]
          /\ token = [t \in Token |->
                        IF t = 1 THEN [NoToken EXCEPT !.owner = a, !.root = 1]
                                 ELSE NoToken]
    OBVIOUS
  <1>2. a \in Account /\ a # None /\ 1 \in Token
    <2>1. a \in Account
      BY AccountConstants
    <2> QED
      BY <2>1, FirstNumbers, Constants
  <1>3. \A r \in Request : co[r] = Idle
    OBVIOUS
  <1>4. row \in [Account -> Row]
    BY <1>1, NoRowFits DEF Row, NoRow
  <1>5. token \in [Token -> TokenRow]
    BY <1>1, <1>2 DEF TokenRow, NoToken
  <1>6. TypeOK
    <2>1. calls \in 0..MaxCalls /\ faults \in 0..MaxCalls
      BY FirstNumbers
    <2>2. co \in [Request -> Place]
      BY IdleFits
    <2>3. /\ link \in [Identity -> Account \cup {None}]
          /\ won \in [Account -> Nat] /\ fined \in [Account -> Nat]
      OBVIOUS
    <2>4. expired \subseteq Token /\ overwritten \subseteq Account \X Column
          /\ out \subseteq Token /\ reused \subseteq Account
      OBVIOUS
    <2> QED
      BY <1>4, <1>5, <2>1, <2>2, <2>3, <2>4 DEF TypeOK
  <1>7. \A t \in Token : Issued(t) <=> t = 1
    BY <1>1, <1>2 DEF Issued, NoToken
  <1>8. token[1].root = 1 /\ \A t \in Token : ~token[t].revoked /\ token[t].next = 0
    BY <1>1, <1>2 DEF NoToken
  <1>9. Sessions
    <2>1. Numbered
      <3>1. Busy = {}
        BY <1>3 DEF Busy
      <3>2. IsFiniteSet(Busy) /\ Cardinality(Busy) = 0
        BY <3>1, FS_EmptySet
      <3>3. \A t \in Token : Issued(t) <=> t <= 1
        BY <1>7, FirstNumbers
      <3>4. 1 \in Nat /\ 1 + Cardinality(Busy) <= calls + 1
        <4>1. calls = 0
          OBVIOUS
        <4> HIDE DEF Init
        <4> QED
          BY <3>2, <4>1
      <3> QED
        BY <3>2, <3>3, <3>4 DEF Numbered
    <2>2. Rooted
      BY <1>1, <1>2, <1>7, <1>8 DEF Rooted
    <2>3. (\A r \in Request : Presents(co[r])) /\ Apart
      BY <1>3, IdleFits, IdleClaimsNothing DEF Apart, At
    <2>4. OneActiveToken /\ SessionsEndForAReason
      BY <1>7, <1>8 DEF OneActiveToken, SessionsEndForAReason
    <2> QED
      BY <2>1, <2>2, <2>3, <2>4 DEF Sessions
  <1>10. Ledger
    <2>1. LedgerHolds
      BY <1>1 DEF LedgerHolds, NoRow
    <2>2. DraftsApart
      BY <1>3, IdleFits DEF DraftsApart, Drafts
    <2> QED
      BY <1>3, <2>1, <2>2, IdleClaimsNothing DEF Ledger
  <1> QED
    BY <1>3, <1>6, <1>9, <1>10, IdleClaimsNothing DEF Inv

\* There is a token left for a call that runs, and which one it is.
LEMMA FreshToken ==
    ASSUME Inv, NEW r \in Request, co[r] # Idle
    PROVE  /\ Fresh \in Token /\ ~Issued(Fresh) /\ Fresh # 0
           /\ token[Fresh] = NoToken
           /\ \E n \in Nat : /\ Fresh = n + 1
                             /\ \A t \in Token : Issued(t) <=> t <= n
                             /\ n + Cardinality(Busy) <= calls + 1
  <1>1. PICK n \in Nat : /\ \A t \in Token : Issued(t) <=> t <= n
                         /\ n + Cardinality(Busy) <= calls + 1
    BY DEF Inv, Sessions, Numbered
  <1>2. Cardinality(Busy) \in Nat /\ Cardinality(Busy) # 0
    <2>1. IsFiniteSet(Busy) /\ Busy # {}
      BY DEF Inv, Sessions, Numbered, Busy
    <2> QED
      BY <2>1, FS_EmptySet, FS_CardinalityType
  <1>3. calls \in Nat /\ calls <= MaxCalls
    BY Constants DEF Inv, TypeOK
  <1>4. n + 1 \in Token
    BY <1>1, <1>2, <1>3, Constants DEF Token
  <1>5. n + 1 \in Unused /\ \A u \in Unused : n + 1 <= u
    BY <1>1, <1>4 DEF Unused, Token
  <1>6. Fresh \in Unused /\ \A u \in Unused : Fresh <= u
    BY <1>5 DEF Fresh
  <1>7. Fresh = n + 1
    BY <1>5, <1>6 DEF Unused, Token
  <1>8. Fresh \in Token /\ ~Issued(Fresh)
    BY <1>6 DEF Unused
  <1>9. token[Fresh] = NoToken
    BY <1>8 DEF Inv, Sessions, Rooted
  <1> QED
    BY <1>1, <1>7, <1>8, <1>9, Constants

\* The calls that run, while one of them goes on, begins or ends.
LEMMA BusyStays ==
    ASSUME Inv, NEW r \in Request, NEW x, co' = [co EXCEPT ![r] = x], x # Idle
    PROVE  /\ co[r] # Idle => Busy' = Busy
           /\ co[r] = Idle => Busy' = Busy \cup {r} /\ r \notin Busy
  BY DEF Inv, TypeOK, Busy

LEMMA BusyEnds ==
    ASSUME Inv, NEW r \in Request, Finish(r), co[r] # Idle
    PROVE  /\ IsFiniteSet(Busy') /\ Cardinality(Busy') = Cardinality(Busy) - 1
           /\ Cardinality(Busy) \in Nat
  <1>1. Busy' = Busy \ {r} /\ r \in Busy
    BY DEF Inv, TypeOK, Busy, Finish
  <1> QED
    BY <1>1, FS_RemoveElement, FS_CardinalityType DEF Inv, Sessions, Numbered

\* What the sessions are while one coroutine moves and the tokens stay.
LEMMA SessionsStay ==
    ASSUME Inv, NEW r \in Request, NEW x \in Place, co' = [co EXCEPT ![r] = x],
           token' = token, out' = out, reused \subseteq reused',
           \/ calls' = calls /\ co[r] # Idle
           \/ calls' = calls + 1,
           Presents(x)',
           x.step = "replace" => ~TokenLocked(x.token)
    PROVE  Sessions'
  <1>1. /\ co'[r] = x /\ \A o \in Request \ {r} : co'[o] = co[o]
        /\ \A t : Issued(t)' <=> Issued(t)
    BY DEF Inv, TypeOK, Issued
  <1>2. Numbered'
    <2>1. PICK n \in Nat : /\ \A t \in Token : Issued(t) <=> t <= n
                           /\ n + Cardinality(Busy) <= calls + 1
      BY DEF Inv, Sessions, Numbered
    <2>2. IsFiniteSet(Busy) /\ Cardinality(Busy) \in Nat /\ calls \in Nat
      BY FS_CardinalityType DEF Inv, Sessions, Numbered, TypeOK
    <2>3. IsFiniteSet(Busy') /\ Cardinality(Busy') \in Nat
          /\ n + Cardinality(Busy') <= calls' + 1
      <3>1. CASE Busy' = Busy
        BY <2>1, <2>2, <3>1
      <3>2. CASE Busy' = Busy \ {r} /\ r \in Busy
        <4>1. IsFiniteSet(Busy') /\ Cardinality(Busy') = Cardinality(Busy) - 1
          BY <2>2, <3>2, FS_RemoveElement
        <4>2. Cardinality(Busy') \in Nat
          BY <4>1, FS_CardinalityType
        <4> QED
          BY <2>1, <2>2, <4>1, <4>2
      <3>3. CASE Busy' = Busy \cup {r} /\ calls' = calls + 1
        <4>1. /\ IsFiniteSet(Busy')
              /\ \/ Cardinality(Busy') = Cardinality(Busy)
                 \/ Cardinality(Busy') = Cardinality(Busy) + 1
          BY <2>2, <3>3, FS_AddElement
        <4>2. Cardinality(Busy') \in Nat
          BY <4>1, FS_CardinalityType
        <4> QED
          BY <2>1, <2>2, <3>3, <4>1, <4>2
      <3>4. \/ Busy' = Busy
            \/ Busy' = Busy \ {r} /\ r \in Busy
            \/ Busy' = Busy \cup {r} /\ co[r] = Idle
        BY <1>1 DEF Busy
      <3> QED
        BY <3>1, <3>2, <3>3, <3>4
    <2> QED
      BY <1>1, <2>1, <2>3 DEF Numbered
  <1>3. Rooted'
    BY <1>1 DEF Inv, Sessions, Rooted
  <1>4. \A o \in Request : Presents(co[o])'
    <2> SUFFICES ASSUME NEW o \in Request \ {r} PROVE Presents(co[o])'
      BY <1>1 DEF Presents
    <2>1. Presents(co[o]) /\ co'[o] = co[o]
      BY <1>1 DEF Inv, Sessions
    <2> QED
      BY <2>1 DEF Presents
  <1>5. Apart'
    BY <1>1 DEF Inv, Sessions, Apart, At, TokenLocked
  <1>6. OneActiveToken' /\ SessionsEndForAReason'
    BY <1>1 DEF Inv, Sessions, OneActiveToken, SessionsEndForAReason
  <1> QED
    BY <1>2, <1>3, <1>4, <1>5, <1>6 DEF Sessions

\* A save of an old value cannot be undone.
LEMMA LedgerStays ==
    ASSUME Inv, NEW r \in Request, NEW x \in Place, co' = [co EXCEPT ![r] = x],
           UNCHANGED <<row, won, fined, overwritten>>,
           Booked(x),
           \A a \in Account : x.draft[a] # NoRow => Drafts(r, a) \/ ~RowLocked(a, r)
    PROVE  Ledger'
  <1>1. co'[r] = x /\ \A o \in Request \ {r} : co'[o] = co[o]
    BY DEF Inv, TypeOK
  <1>2. \A o \in Request : Booked(co[o])'
    <2>1. Booked(x)'
      BY DEF Booked, Saving, Sides, Drafted, Put
    <2> SUFFICES ASSUME NEW o \in Request \ {r} PROVE Booked(co[o])'
      BY <1>1, <2>1
    <2>2. Booked(co[o]) /\ co'[o] = co[o]
      BY <1>1 DEF Inv, Ledger
    <2> QED
      BY <2>2 DEF Booked, Saving, Sides, Drafted, Put
  <1>3. DraftsApart'
    BY <1>1 DEF Inv, Ledger, DraftsApart, Drafts, RowLocked
  <1>4. LedgerHolds'
    BY DEF Inv, Ledger, LedgerHolds
  <1> QED
    BY <1>2, <1>3, <1>4 DEF Ledger

\* A step that changes neither a row nor a token.
LEMMA QuietKeepsInv ==
    ASSUME Inv, NEW r \in Request, NEW x \in Place, co' = [co EXCEPT ![r] = x],
           UNCHANGED <<row, won, fined, overwritten, token, out>>,
           link' \in [Identity -> Account \cup {None}],
           expired' \subseteq Token, reused \subseteq reused', reused' \subseteq Account,
           \/ calls' = calls /\ co[r] # Idle
           \/ calls' = calls + 1 /\ calls + faults < MaxCalls,
           faults' \in 0..MaxCalls,
           Placed(x), Presents(x)', Booked(x),
           x.step = "replace" => ~TokenLocked(x.token),
           \A a \in Account : x.draft[a] # NoRow => Drafts(r, a) \/ ~RowLocked(a, r)
    PROVE  Inv'
  <1>1. co'[r] = x /\ \A o \in Request \ {r} : co'[o] = co[o]
    BY DEF Inv, TypeOK
  <1>2. TypeOK'
    <2>1. calls' \in 0..MaxCalls
      BY Constants DEF Inv, TypeOK
    <2> QED
      BY <2>1 DEF Inv, TypeOK
  <1>3. \A o \in Request : Placed(co[o])'
    BY <1>1 DEF Inv, Placed
  <1>4. Sessions'
    BY SessionsStay
  <1>5. Ledger'
    BY LedgerStays
  <1> QED
    BY <1>2, <1>3, <1>4, <1>5 DEF Inv

-----------------------------------------------------------------------------
(* Steps of the control *)

LEMMA PlainIsBooked ==
    ASSUME NEW x, x.op # "judge", x.step \notin SaveSteps
    PROVE  Booked(x)
  BY DEF Booked, Saving, Sides, Drafted

LEMMA BeginKeepsInv ==
    ASSUME Inv, NEW r \in Request, NEW x \in Place, Begin(r, x),
           Placed(x), Presents(x), Booked(x), x.step # "replace",
           \A a \in Account : x.draft[a] = NoRow
    PROVE  Inv'
  <1>1. /\ co' = [co EXCEPT ![r] = x] /\ calls' = calls + 1 /\ calls + faults < MaxCalls
        /\ UNCHANGED <<row, link, won, fined, overwritten, token, expired, out, reused,
                       faults>>
    BY DEF Begin, members, sessions
  <1>2. Presents(x)'
    BY <1>1 DEF Presents
  <1>3. /\ link' \in [Identity -> Account \cup {None}] /\ expired' \subseteq Token
        /\ reused' \subseteq Account /\ faults' \in 0..MaxCalls
    BY <1>1 DEF Inv, TypeOK
  <1> QED
    BY <1>1, <1>2, <1>3, QuietKeepsInv

\* A step of a running call that changes nothing else, but who is known to have
\* used a revoked token.
LEMMA MoveKeepsInv ==
    ASSUME Inv, NEW r \in Request, NEW x \in Place, co' = [co EXCEPT ![r] = x],
           co[r] # Idle, UNCHANGED <<members, token, expired, out, calls, faults>>,
           reused \subseteq reused', reused' \subseteq Account,
           Placed(x), Presents(x)', Booked(x),
           x.step = "replace" => ~TokenLocked(x.token),
           \A a \in Account : x.draft[a] # NoRow => Drafts(r, a) \/ ~RowLocked(a, r)
    PROVE  Inv'
  <1>1. UNCHANGED <<row, link, won, fined, overwritten>>
    BY DEF members
  <1>2. /\ link' \in [Identity -> Account \cup {None}] /\ expired' \subseteq Token
        /\ faults' \in 0..MaxCalls
    BY <1>1 DEF Inv, TypeOK
  <1> QED
    BY <1>1, <1>2, QuietKeepsInv

\* The same for a call that has no part in a judgment.
LEMMA PlainKeepsInv ==
    ASSUME Inv, NEW r \in Request, NEW x \in Place, co' = [co EXCEPT ![r] = x],
           co[r] # Idle, UNCHANGED <<members, token, expired, out, calls, faults>>,
           reused \subseteq reused', reused' \subseteq Account,
           Placed(x), Presents(x)', x.op # "judge", x.step \notin SaveSteps,
           x.step = "replace" => ~TokenLocked(x.token)
    PROVE  Inv'
  <1>1. \A a \in Account : x.draft[a] = NoRow
    BY DEF Placed
  <1>2. Booked(x)
    BY PlainIsBooked
  <1> QED
    BY <1>1, <1>2, MoveKeepsInv

\* A call that ends without having changed anything.
LEMMA FinishKeepsInv ==
    ASSUME Inv, NEW r \in Request, Finish(r), co[r] # Idle,
           UNCHANGED <<members, token, expired, out, calls>>,
           reused \subseteq reused', reused' \subseteq Account,
           faults' \in 0..MaxCalls
    PROVE  Inv'
  <1>1. UNCHANGED <<row, link, won, fined, overwritten>>
    BY DEF members
  <1>2. /\ link' \in [Identity -> Account \cup {None}] /\ expired' \subseteq Token
        /\ co' = [co EXCEPT ![r] = Idle]
    BY <1>1 DEF Inv, TypeOK, Finish
  <1>3. Presents(Idle)'
    BY IdleFits DEF Presents, TokenSteps
  <1> QED
    BY <1>1, <1>2, <1>3, IdleFits, IdleClaimsNothing, QuietKeepsInv

\* A coroutine at a step runs a call.
LEMMA Runs == ASSUME NEW r, ~At(r, "idle") PROVE co[r] # Idle
  BY IdleFits DEF At

-----------------------------------------------------------------------------
(* Steps of the sessions that change tokens *)

\* The tokens that are there keep their member and their session, and the new one
\* is of a session that there is, or begins its own.
LEMMA Issuing ==
    ASSUME Inv, NEW r \in Request, co[r] # Idle, Finish(r),
           calls' = calls, reused' = reused,
           token' \in [Token -> TokenRow],
           token'[Fresh].owner \in Account,
           \/ token'[Fresh].root = Fresh
           \/ token'[Fresh].root \in Token /\ Issued(token'[Fresh].root),
           \A t \in Token \ {Fresh} :
              /\ token'[t].owner = token[t].owner /\ token'[t].root = token[t].root
              /\ ~Issued(t) => token'[t] = token[t],
           \A o \in Request \ {r} : At(o, "replace") => ~token'[co[o].token].revoked
    PROVE  /\ Numbered' /\ Rooted' /\ Apart'
           /\ \A o \in Request : Presents(co[o])'
  <1>1. co'[r] = Idle /\ \A o \in Request \ {r} : co'[o] = co[o]
    BY DEF Inv, TypeOK, Finish
  <1>2. Fresh \in Token /\ ~Issued(Fresh) /\ Fresh # 0
    BY FreshToken
  <1>3. \A t \in Token : Issued(t)' <=> t = Fresh \/ Issued(t)
    BY <1>2, Constants DEF Issued
  <1>4. Numbered'
    <2>1. PICK n \in Nat : /\ Fresh = n + 1
                           /\ \A t \in Token : Issued(t) <=> t <= n
                           /\ n + Cardinality(Busy) <= calls + 1
      BY FreshToken
    <2>2. /\ IsFiniteSet(Busy') /\ Cardinality(Busy') = Cardinality(Busy) - 1
          /\ Cardinality(Busy) \in Nat
      BY BusyEnds
    <2>3. \A t \in Token : Issued(t)' <=> t <= n + 1
      BY <1>3, <2>1 DEF Token
    <2>4. n + 1 + Cardinality(Busy') <= calls' + 1
      BY <2>1, <2>2 DEF Inv, TypeOK
    <2> QED
      BY <2>2, <2>3, <2>4 DEF Numbered
  <1>5. Rooted'
    <2> SUFFICES ASSUME NEW t \in Token
                 PROVE  IF Issued(t)' THEN token'[t].root \in Token
                                           /\ Issued(token[t].root)'
                                      ELSE token'[t] = NoToken
      BY DEF Rooted
    <2>1. CASE t = Fresh
      <3>1. token'[t].root \in Token
            /\ (token'[t].root = Fresh \/ Issued(token'[t].root))
        BY <1>2, <2>1
      <3>2. token'[token'[t].root].owner # None
        BY <1>2, <1>3, <3>1, Constants DEF Issued
      <3>3. Issued(token[t].root)'
        BY <3>2 DEF Issued
      <3> QED
        BY <1>3, <2>1, <3>1, <3>3
    <2>2. CASE t # Fresh /\ Issued(t)
      <3>1. token[t].root \in Token /\ Issued(token[t].root) /\ token'[t].root = token[t].root
        BY <2>2 DEF Inv, Sessions, Rooted
      <3>2. token'[token'[t].root].owner # None
        BY <1>2, <1>3, <3>1 DEF Issued
      <3>3. Issued(token[t].root)'
        BY <3>2 DEF Issued
      <3> QED
        BY <1>3, <2>2, <3>1, <3>3
    <2>3. CASE t # Fresh /\ ~Issued(t)
      BY <1>3, <2>3 DEF Inv, Sessions, Rooted
    <2> QED
      BY <2>1, <2>2, <2>3
  <1>6. \A o \in Request : Presents(co[o])'
    <2> SUFFICES ASSUME NEW o \in Request \ {r} PROVE Presents(co[o])'
      BY <1>1, IdleFits DEF Presents, TokenSteps
    <2> DEFINE x == co[o]
    <2>1. Presents(x) /\ Placed(x) /\ x \in Place /\ co'[o] = x
      BY <1>1 DEF Inv, Sessions, TypeOK
    <2>2. x.step \in TokenSteps =>
            x.who \in Account /\ x.token \in Token /\ token'[x.token].owner = x.who
      BY <1>2, <2>1, Constants DEF Presents, Placed, Issued
    <2>3. x.step = "replace" => ~token'[x.token].revoked
      BY DEF At
    <2>4. x.step = "cut" => \A t \in x.active : token'[t].owner = x.who
      BY <1>2, <2>1, <2>2, Constants DEF Presents, Issued, Place, TokenSteps
    <2>5. x.step \in {"reuse", "cut"} => x.who \in reused'
      BY <2>1 DEF Presents
    <2> QED
      BY <2>1, <2>2, <2>3, <2>4, <2>5 DEF Presents
  <1>7. Apart'
    BY <1>1, IdleFits DEF Inv, Sessions, Apart, At
  <1> QED
    BY <1>4, <1>5, <1>6, <1>7

LEMMA PersistKeepsInv ==
    ASSUME Inv, NEW r \in Request, Persist(r)
    PROVE  Inv'
  <1> DEFINE a == co[r].who
             new == [NoToken EXCEPT !.owner = a, !.root = Fresh]
  <1>1. /\ co[r] # Idle /\ a \in Account
        /\ UNCHANGED <<row, link, won, fined, overwritten, expired, out, reused,
                       calls, faults>>
        /\ Finish(r) /\ token' = [token EXCEPT ![Fresh] = new]
    BY Runs DEF Inv, Placed, Persist, At, members
  <1>2. Fresh \in Token /\ ~Issued(Fresh) /\ Fresh # 0
    BY <1>1, FreshToken
  <1>3. /\ new \in TokenRow /\ new.owner = a /\ new.root = Fresh /\ ~new.revoked
        /\ new.next = 0
    BY <1>1, <1>2 DEF NoToken, TokenRow
  <1> HIDE DEF new
  <1>4. /\ token' \in [Token -> TokenRow] /\ token'[Fresh] = new
        /\ \A t \in Token \ {Fresh} : token'[t] = token[t]
    BY <1>1, <1>2, <1>3 DEF Inv, TypeOK
  <1>5. co' = [co EXCEPT ![r] = Idle] /\ \A o \in Request : co'[o] \in {Idle, co[o]}
    BY <1>1 DEF Inv, TypeOK, Finish
  <1>6. TypeOK'
    BY <1>1, <1>4, <1>5, IdleFits DEF Inv, TypeOK
  <1>7. \A o \in Request : Placed(co[o])'
    BY <1>5, IdleClaimsNothing DEF Inv, Placed
  <1>8. \A o \in Request : At(o, "replace") =>
          co[o].token \in Token \ {Fresh} /\ ~token[co[o].token].revoked
    <2> SUFFICES ASSUME NEW o \in Request, At(o, "replace")
                 PROVE  co[o].token \in Token \ {Fresh} /\ ~token[co[o].token].revoked
      OBVIOUS
    <2>1. Placed(co[o]) /\ Presents(co[o])
      BY DEF Inv, Sessions
    <2> QED
      BY <1>2, <2>1, Constants DEF Placed, Presents, At, TokenSteps, Issued
  <1>9. /\ Numbered' /\ Rooted' /\ Apart'
        /\ \A o \in Request : Presents(co[o])'
    BY <1>1, <1>2, <1>3, <1>4, <1>8, Issuing
  <1>10. \A t \in Token \ {Fresh} : Issued(t) => token[t].root # Fresh
    BY <1>2 DEF Inv, Sessions, Rooted
  <1>11. \A t \in Token : token[t].next # 0 =>
           token[t].next \in Token \ {Fresh} /\ t # Fresh
    <2> SUFFICES ASSUME NEW t \in Token, token[t].next # 0
                 PROVE  token[t].next \in Token \ {Fresh} /\ t # Fresh
      OBVIOUS
    <2>1. token[t].next \in Token
      BY DEF Inv, TypeOK, TokenRow
    <2>2. Issued(t)
      BY DEF Inv, Sessions, Rooted, NoToken
    <2>3. Issued(token[t].next)
      BY <2>2 DEF Inv, Sessions, OneActiveToken, Issued
    <2> QED
      BY <1>2, <2>1, <2>2, <2>3
  <1>12. OneActiveToken'
    <2> SUFFICES ASSUME NEW t \in Token
                 PROVE  /\ \A u \in Token \ {t} :
                             Issued(t)' /\ Issued(u)' /\ token'[t].root = token'[u].root
                               => token'[t].revoked \/ token'[u].revoked
                        /\ token'[t].next # 0 =>
                             /\ token'[t].revoked
                             /\ token'[token'[t].next].owner = token'[t].owner
                             /\ token'[token'[t].next].root = token'[t].root
      BY DEF OneActiveToken
    <2>1. \A v \in Token \ {Fresh} : Issued(v)' <=> Issued(v)
      BY <1>4 DEF Issued
    <2>2. ASSUME NEW u \in Token \ {t}, Issued(t)', Issued(u)',
                 token'[t].root = token'[u].root
          PROVE  token'[t].revoked \/ token'[u].revoked
      <3>1. t # Fresh /\ u # Fresh
        BY <1>3, <1>4, <1>10, <2>1, <2>2
      <3> QED
        BY <1>4, <2>1, <2>2, <3>1 DEF Inv, Sessions, OneActiveToken
    <2>3. token'[t].next # 0 => t # Fresh /\ token[t].next \in Token \ {Fresh}
      BY <1>3, <1>4, <1>11
    <2> QED
      BY <1>4, <2>2, <2>3 DEF Inv, Sessions, OneActiveToken
  <1>13. SessionsEndForAReason'
    BY <1>1, <1>3, <1>4 DEF Inv, Sessions, SessionsEndForAReason
  <1>14. Sessions'
    BY <1>9, <1>12, <1>13 DEF Sessions
  <1>15. Ledger'
    BY <1>1, <1>5, IdleFits, IdleClaimsNothing, LedgerStays
  <1> QED
    BY <1>6, <1>7, <1>14, <1>15 DEF Inv

LEMMA ReplaceKeepsInv ==
    ASSUME Inv, NEW r \in Request, Replace(r)
    PROVE  Inv'
  <1> DEFINE a == co[r].who
             s == co[r].token
             new == [owner |-> a, revoked |-> FALSE, next |-> 0, root |-> token[s].root]
  <1>1. /\ co[r] # Idle /\ a \in Account /\ s \in Token /\ token[s].owner = a
        /\ ~token[s].revoked
        /\ UNCHANGED <<row, link, won, fined, overwritten, expired, out, reused,
                       calls, faults>>
        /\ Finish(r)
        /\ token' = [token EXCEPT ![s].revoked = TRUE, ![s].next = Fresh, ![Fresh] = new]
    BY Runs DEF Inv, Sessions, Placed, Presents, Replace, At, members, TokenSteps
  <1>2. Fresh \in Token /\ ~Issued(Fresh) /\ Fresh # 0
    BY <1>1, FreshToken
  <1>3. Issued(s) /\ s # Fresh /\ token \in [Token -> TokenRow]
    BY <1>1, <1>2, Constants DEF Issued, Inv, TypeOK
  <1>4. token[s].root \in Token /\ Issued(token[s].root) /\ token[s].root # Fresh
    BY <1>1, <1>2, <1>3 DEF Inv, Sessions, Rooted
  <1>5. /\ new \in TokenRow /\ new.owner = a /\ new.root = token[s].root /\ ~new.revoked
        /\ new.next = 0
    BY <1>1, <1>4 DEF TokenRow
  <1> HIDE DEF new
  <1>6. PICK old : old = [token[s] EXCEPT !.revoked = TRUE, !.next = Fresh]
    OBVIOUS
  <1>7. /\ old \in TokenRow /\ old.owner = a /\ old.root = token[s].root /\ old.revoked
        /\ old.next = Fresh
    <2>1. token[s] \in TokenRow /\ token[s].owner = a
      BY <1>1, <1>3
    <2> QED
      BY <1>2, <1>6, <2>1 DEF TokenRow
  <1>8. /\ token' = [token EXCEPT ![s] = old, ![Fresh] = new]
    BY <1>1, <1>2, <1>3, <1>6
  <1>9. /\ token' \in [Token -> TokenRow] /\ token'[Fresh] = new /\ token'[s] = old
        /\ \A t \in Token \ {s, Fresh} : token'[t] = token[t]
    <2>1. old \in TokenRow /\ new \in TokenRow /\ s \in Token /\ Fresh \in Token
          /\ s # Fresh /\ token \in [Token -> TokenRow]
      BY <1>1, <1>2, <1>3, <1>5, <1>7
    <2> QED
      BY <1>8, <2>1
  <1>10. co' = [co EXCEPT ![r] = Idle] /\ \A o \in Request : co'[o] \in {Idle, co[o]}
    BY <1>1 DEF Inv, TypeOK, Finish
  <1>11. TypeOK'
    BY <1>1, <1>9, <1>10, IdleFits DEF Inv, TypeOK
  <1>12. \A o \in Request : Placed(co[o])'
    BY <1>10, IdleClaimsNothing DEF Inv, Placed
  <1>13. \A o \in Request \ {r} : At(o, "replace") =>
           co[o].token \in Token \ {s, Fresh} /\ ~token[co[o].token].revoked
    <2> SUFFICES ASSUME NEW o \in Request \ {r}, At(o, "replace")
                 PROVE  co[o].token \in Token \ {s, Fresh} /\ ~token[co[o].token].revoked
      OBVIOUS
    <2>1. Placed(co[o]) /\ Presents(co[o]) /\ co[o].token # s
      BY DEF Inv, Sessions, Apart, Replace
    <2> QED
      BY <1>2, <2>1, Constants DEF Placed, Presents, At, TokenSteps, Issued
  <1>14. /\ Numbered' /\ Rooted' /\ Apart'
         /\ \A o \in Request : Presents(co[o])'
    <2>1. token'[Fresh].owner \in Account
          /\ token'[Fresh].root \in Token /\ Issued(token'[Fresh].root)
      BY <1>1, <1>4, <1>5, <1>9
    <2>2. \A t \in Token \ {Fresh} :
            /\ token'[t].owner = token[t].owner /\ token'[t].root = token[t].root
            /\ ~Issued(t) => token'[t] = token[t]
      BY <1>1, <1>3, <1>7, <1>9
    <2>3. \A o \in Request \ {r} : At(o, "replace") => ~token'[co[o].token].revoked
      BY <1>9, <1>13
    <2> QED
      BY <1>1, <1>9, <2>1, <2>2, <2>3, Issuing
  <1>15. \A t \in Token : token[t].next # 0 =>
           token[t].next \in Token \ {Fresh} /\ t # Fresh /\ t # s
    <2> SUFFICES ASSUME NEW t \in Token, token[t].next # 0
                 PROVE  token[t].next \in Token \ {Fresh} /\ t # Fresh /\ t # s
      OBVIOUS
    <2>1. token[t].next \in Token
      BY DEF Inv, TypeOK, TokenRow
    <2>2. Issued(t)
      BY DEF Inv, Sessions, Rooted, NoToken
    <2>3. Issued(token[t].next) /\ token[t].revoked
      BY <2>2 DEF Inv, Sessions, OneActiveToken, Issued
    <2> QED
      BY <1>1, <1>2, <2>1, <2>2, <2>3
  <1>16. \A t \in Token : /\ t # Fresh => (Issued(t)' <=> Issued(t))
                                          /\ token'[t].root = token[t].root
                                          /\ token'[t].owner = token[t].owner
    BY <1>1, <1>3, <1>7, <1>9 DEF Issued
  <1>17. OneActiveToken'
    <2> SUFFICES ASSUME NEW t \in Token
                 PROVE  /\ \A u \in Token \ {t} :
                             Issued(t)' /\ Issued(u)' /\ token'[t].root = token'[u].root
                               => token'[t].revoked \/ token'[u].revoked
                        /\ token'[t].next # 0 =>
                             /\ token'[t].revoked
                             /\ token'[token'[t].next].owner = token'[t].owner
                             /\ token'[token'[t].next].root = token'[t].root
      BY DEF OneActiveToken
    <2>1. \A u \in Token \ {s} : Issued(u) /\ token[u].root = token[s].root
            => token[u].revoked
      BY <1>1, <1>3 DEF Inv, Sessions, OneActiveToken
    <2>2. ASSUME NEW u \in Token \ {t}, Issued(t)', Issued(u)',
                 token'[t].root = token'[u].root
          PROVE  token'[t].revoked \/ token'[u].revoked
      <3>1. CASE t = s \/ u = s
        BY <1>7, <1>9, <3>1
      <3>2. CASE t = Fresh /\ u # s
        BY <1>5, <1>9, <1>16, <2>1, <2>2, <3>2
      <3>3. CASE u = Fresh /\ t # s
        BY <1>5, <1>9, <1>16, <2>1, <2>2, <3>3
      <3>4. CASE t \notin {s, Fresh} /\ u \notin {s, Fresh}
        BY <1>9, <1>16, <2>2, <3>4 DEF Inv, Sessions, OneActiveToken
      <3> QED
        BY <3>1, <3>2, <3>3, <3>4
    <2>3. ASSUME token'[t].next # 0
          PROVE  /\ token'[t].revoked
                 /\ token'[token'[t].next].owner = token'[t].owner
                 /\ token'[token'[t].next].root = token'[t].root
      <3>1. CASE t = s
        BY <1>2, <1>5, <1>7, <1>9, <3>1
      <3>2. CASE t # s
        <4>1. t # Fresh /\ token'[t] = token[t] /\ token[t].next \in Token \ {Fresh}
          BY <1>5, <1>9, <1>15, <2>3, <3>2
        <4>2. /\ token[t].revoked
              /\ token[token[t].next].owner = token[t].owner
              /\ token[token[t].next].root = token[t].root
          BY <2>3, <4>1 DEF Inv, Sessions, OneActiveToken
        <4> QED
          BY <1>16, <4>1, <4>2
      <3> QED
        BY <3>1, <3>2
    <2> QED
      BY <2>2, <2>3
  <1>18. SessionsEndForAReason'
    BY <1>1, <1>2, <1>5, <1>7, <1>9 DEF Inv, Sessions, SessionsEndForAReason
  <1>19. Sessions'
    BY <1>14, <1>17, <1>18 DEF Sessions
  <1>20. Ledger'
    BY <1>1, <1>10, IdleFits, IdleClaimsNothing, LedgerStays
  <1> QED
    BY <1>11, <1>12, <1>19, <1>20 DEF Inv

\* Tokens that nobody is rotating are revoked, each for a reason.
LEMMA RevokingKeepsInv ==
    ASSUME Inv, NEW r \in Request, co[r] # Idle, Finish(r),
           NEW S \in SUBSET Token,
           token' = [t \in Token |-> IF t \in S THEN [token[t] EXCEPT !.revoked = TRUE]
                                                ELSE token[t]],
           \A t \in S : /\ Issued(t) /\ ~TokenLocked(t)
                        /\ t \in out' \/ token[t].owner \in reused,
           out \subseteq out', out' \subseteq Token,
           UNCHANGED <<members, expired, reused, calls, faults>>
    PROVE  Inv'
  <1>1. /\ UNCHANGED <<row, link, won, fined, overwritten>>
        /\ co' = [co EXCEPT ![r] = Idle] /\ \A o \in Request : co'[o] \in {Idle, co[o]}
    BY DEF Inv, TypeOK, Finish, members
  <1>2. /\ token' \in [Token -> TokenRow]
        /\ \A t \in Token : /\ token'[t].owner = token[t].owner
                            /\ token'[t].root = token[t].root
                            /\ token'[t].next = token[t].next
                            /\ Issued(t)' <=> Issued(t)
                            /\ token[t].revoked => token'[t].revoked
                            /\ t \notin S => token'[t] = token[t]
    <2>1. token \in [Token -> TokenRow]
      BY DEF Inv, TypeOK
    <2>2. ASSUME NEW t \in Token
          PROVE  /\ token'[t] \in TokenRow
                 /\ token'[t].owner = token[t].owner
                 /\ token'[t].root = token[t].root
                 /\ token'[t].next = token[t].next
                 /\ token[t].revoked => token'[t].revoked
                 /\ t \notin S => token'[t] = token[t]
      <3>1. token[t] \in TokenRow
        BY <2>1
      <3>2. CASE t \in S
        <4>1. token'[t] = [token[t] EXCEPT !.revoked = TRUE]
          BY <3>2
        <4> QED
          BY <3>1, <3>2, <4>1 DEF TokenRow
      <3>3. CASE t \notin S
        BY <3>1, <3>3
      <3> QED
        BY <3>2, <3>3
    <2>3. token' \in [Token -> TokenRow]
      BY <2>2
    <2> QED
      BY <2>2, <2>3 DEF Issued
  <1>3. TypeOK'
    BY <1>1, <1>2, IdleFits DEF Inv, TypeOK
  <1>4. \A o \in Request : Placed(co[o])'
    BY <1>1, IdleClaimsNothing DEF Inv, Placed
  <1>5. Numbered'
    <2>1. PICK n \in Nat : /\ \A t \in Token : Issued(t) <=> t <= n
                           /\ n + Cardinality(Busy) <= calls + 1
      BY DEF Inv, Sessions, Numbered
    <2>2. /\ IsFiniteSet(Busy') /\ Cardinality(Busy') = Cardinality(Busy) - 1
          /\ Cardinality(Busy) \in Nat
      BY BusyEnds
    <2>3. n + Cardinality(Busy') <= calls' + 1
      BY <2>1, <2>2 DEF Inv, TypeOK
    <2> QED
      BY <1>2, <2>1, <2>2, <2>3 DEF Numbered
  <1>6. Rooted'
    <2> SUFFICES ASSUME NEW t \in Token
                 PROVE  IF Issued(t)' THEN token'[t].root \in Token
                                           /\ token'[token'[t].root].owner # None
                                      ELSE token'[t] = NoToken
      BY DEF Rooted, Issued
    <2>1. IF Issued(t) THEN token[t].root \in Token /\ Issued(token[t].root)
                       ELSE token[t] = NoToken
      BY DEF Inv, Sessions, Rooted
    <2> QED
      BY <1>2, <2>1 DEF Issued
  <1>7. \A o \in Request : Presents(co[o])'
    <2> SUFFICES ASSUME NEW o \in Request, co'[o] = co[o] PROVE Presents(co[o])'
      BY <1>1, IdleFits DEF Presents, TokenSteps
    <2> DEFINE x == co[o]
    <2>1. Presents(x) /\ Placed(x) /\ x \in Place
      BY DEF Inv, Sessions, TypeOK
    <2>2. x.step \in TokenSteps => token'[x.token].owner = x.who
      BY <1>2, <2>1 DEF Presents, Placed
    <2>3. x.step = "replace" => ~token'[x.token].revoked
      BY <1>2, <2>1 DEF Presents, Placed, TokenLocked, At, TokenSteps
    <2>4. x.step = "cut" => \A t \in x.active : token'[t].owner = x.who
      BY <1>2, <2>1 DEF Presents, Place
    <2>5. x.step \in {"reuse", "cut"} => x.who \in reused'
      BY <2>1 DEF Presents
    <2> QED
      BY <2>2, <2>3, <2>4, <2>5 DEF Presents
  <1>8. Apart'
    <2>1. \A o \in Request : At(o, "replace")' => co'[o] = co[o]
      BY <1>1, IdleFits DEF At
    <2> QED
      BY <2>1 DEF Inv, Sessions, Apart, At
  <1>9. OneActiveToken'
    <2> SUFFICES ASSUME NEW t \in Token
                 PROVE  /\ \A u \in Token \ {t} :
                             Issued(t)' /\ Issued(u)' /\ token'[t].root = token'[u].root
                               => token'[t].revoked \/ token'[u].revoked
                        /\ token'[t].next # 0 =>
                             /\ token'[t].revoked
                             /\ token'[token'[t].next].owner = token'[t].owner
                             /\ token'[token'[t].next].root = token'[t].root
      BY DEF OneActiveToken
    <2>1. token[t].next # 0 => token[t].next \in Token
      BY DEF Inv, TypeOK, TokenRow
    <2>2. /\ \A u \in Token \ {t} :
               Issued(t) /\ Issued(u) /\ token[t].root = token[u].root
                 => token[t].revoked \/ token[u].revoked
          /\ token[t].next # 0 =>
               /\ token[t].revoked
               /\ token[token[t].next].owner = token[t].owner
               /\ token[token[t].next].root = token[t].root
      BY DEF Inv, Sessions, OneActiveToken
    <2>3. \A u \in Token \ {t} :
             Issued(t)' /\ Issued(u)' /\ token'[t].root = token'[u].root
               => token'[t].revoked \/ token'[u].revoked
      <3> SUFFICES ASSUME NEW u \in Token \ {t}, Issued(t)', Issued(u)',
                          token'[t].root = token'[u].root
                   PROVE  token'[t].revoked \/ token'[u].revoked
        OBVIOUS
      <3>1. Issued(t) /\ Issued(u) /\ token[t].root = token[u].root
        BY <1>2
      <3> QED
        BY <1>2, <2>2, <3>1
    <2> QED
      BY <1>2, <2>1, <2>2, <2>3
  <1>10. SessionsEndForAReason'
    BY <1>2 DEF Inv, Sessions, SessionsEndForAReason
  <1>11. Sessions'
    BY <1>5, <1>6, <1>7, <1>8, <1>9, <1>10 DEF Sessions
  <1>12. Ledger'
    BY <1>1, IdleFits, IdleClaimsNothing, LedgerStays
  <1> QED
    BY <1>3, <1>4, <1>11, <1>12 DEF Inv

LEMMA RevokeKeepsInv ==
    ASSUME Inv, NEW r \in Request, Revoke(r) \/ RevokeAll(r)
    PROVE  Inv'
  <1>0. Placed(co[r]) /\ Presents(co[r]) /\ co[r] \in Place
        /\ token \in [Token -> TokenRow] /\ out \subseteq Token
    BY DEF Inv, Sessions, TypeOK
  <1>1. CASE Revoke(r)
    <2> DEFINE s == co[r].token
    <2>1. /\ s \in Token /\ Issued(s) /\ ~TokenLocked(s) /\ co[r] # Idle /\ Finish(r)
          /\ out' = out \cup {s}
          /\ UNCHANGED <<members, expired, reused, calls, faults>>
      BY <1>0, <1>1, Runs, Constants
         DEF Revoke, At, Placed, Presents, TokenSteps, Issued
    <2>2. token' = [t \in Token |-> IF t \in {s} THEN [token[t] EXCEPT !.revoked = TRUE]
                                                 ELSE token[t]]
      BY <1>0, <1>1, <2>1 DEF Revoke
    <2> HIDE DEF s
    <2>3. {s} \in SUBSET Token
      BY <2>1
    <2> QED
      BY <1>0, <2>1, <2>2, <2>3, RevokingKeepsInv
  <1>2. CASE RevokeAll(r)
    <2>1. /\ co[r].active \in SUBSET Token /\ co[r] # Idle /\ Finish(r)
          /\ UNCHANGED <<members, expired, out, reused, calls, faults>>
          /\ \A t \in co[r].active : /\ Issued(t) /\ ~TokenLocked(t)
                                     /\ token[t].owner \in reused
      BY <1>0, <1>2, Runs, Constants
         DEF RevokeAll, At, Placed, Presents, TokenSteps, Issued, Place
    <2>2. token' = [t \in Token |-> IF t \in co[r].active
                                    THEN [token[t] EXCEPT !.revoked = TRUE]
                                    ELSE token[t]]
      BY <1>2 DEF RevokeAll
    <2> QED
      BY <1>0, <2>1, <2>2, RevokingKeepsInv
  <1> QED
    BY <1>1, <1>2

-----------------------------------------------------------------------------
(* Sign-in, OAuth and sessions, as far as they change no row and no token *)

Turns(r, s, a) == co' = [co EXCEPT ![r].step = s, ![r].who = a]

LEMMA StepKeepsInv ==
    ASSUME Inv, NEW r \in Request, co[r] # Idle,
           NEW s \in Step \ (SaveSteps \cup {"find", "fine", "commit", "cut"}),
           NEW a \in Account \cup {None},
           Turns(r, s, a),
           UNCHANGED <<row, won, fined, overwritten, token, expired, out, calls, faults>>,
           link' \in [Identity -> Account \cup {None}],
           reused \subseteq reused', reused' \subseteq Account,
           co[r].op # "judge",
           s \in {"member", "link", "persist"} \cup TokenSteps => a \in Account,
           s \in {"linked", "member", "email", "link", "enroll"} => co[r].id \in Identity,
           s \in TokenSteps => co[r].token \in Token /\ token[co[r].token].owner = a,
           s = "replace" => ~token[co[r].token].revoked /\ ~TokenLocked(co[r].token),
           s = "reuse" => a \in reused'
    PROVE  Inv'
  <1>1. co[r] \in Place /\ Placed(co[r]) /\ co \in [Request -> Place]
    BY DEF Inv, TypeOK
  <1>2. PICK x : x = [co[r] EXCEPT !.step = s, !.who = a]
    OBVIOUS
  <1>3. /\ x \in Place /\ x.step = s /\ x.who = a /\ x.op = co[r].op /\ x.id = co[r].id
        /\ x.token = co[r].token /\ x.fines = co[r].fines /\ x.draft = co[r].draft
    BY <1>1, <1>2 DEF Place
  <1>4. co' = [co EXCEPT ![r] = x]
    BY <1>1, <1>2 DEF Turns
  <1>5. Placed(x)
    BY <1>1, <1>3 DEF Placed
  <1>6. Presents(x)'
    BY <1>3 DEF Presents
  <1>7. Booked(x) /\ \A b \in Account : x.draft[b] = NoRow
    BY <1>3, <1>5, PlainIsBooked DEF Placed
  <1>8. expired' \subseteq Token /\ faults' \in 0..MaxCalls
    BY DEF Inv, TypeOK
  <1> QED
    BY <1>3, <1>4, <1>5, <1>6, <1>7, <1>8, QuietKeepsInv

LEMMA GotoKeepsInv ==
    ASSUME Inv, NEW r \in Request, co[r] # Idle,
           NEW s \in Step \ (SaveSteps \cup {"find", "fine", "commit", "cut"}),
           Goto(r, s),
           UNCHANGED <<members, token, expired, out, calls, faults>>,
           reused \subseteq reused', reused' \subseteq Account,
           co[r].op # "judge",
           s \in {"member", "link", "persist"} \cup TokenSteps => co[r].who \in Account,
           s \in {"linked", "member", "email", "link", "enroll"} => co[r].id \in Identity,
           s \in TokenSteps =>
             co[r].token \in Token /\ token[co[r].token].owner = co[r].who,
           s = "replace" => ~token[co[r].token].revoked /\ ~TokenLocked(co[r].token),
           s = "reuse" => co[r].who \in reused'
    PROVE  Inv'
  <1>1. co[r] \in Place /\ co \in [Request -> Place]
    BY DEF Inv, TypeOK
  <1>2. co[r].who \in Account \cup {None}
    BY <1>1 DEF Place
  <1>3. [co[r] EXCEPT !.step = s] = [co[r] EXCEPT !.step = s, !.who = co[r].who]
    BY <1>1 DEF Place
  <1>4. Turns(r, s, co[r].who)
    BY <1>1, <1>3 DEF Goto, Turns
  <1>5. /\ UNCHANGED <<row, won, fined, overwritten>>
        /\ link' \in [Identity -> Account \cup {None}]
    BY DEF Inv, TypeOK, members
  <1> QED
    BY <1>2, <1>4, <1>5, StepKeepsInv

\* What each of the steps below starts from.
LEMMA Known ==
    ASSUME Inv, NEW r \in Request
    PROVE  /\ co[r] \in Place /\ Placed(co[r]) /\ Presents(co[r]) /\ Booked(co[r])
           /\ co \in [Request -> Place] /\ row \in [Account -> Row]
           /\ link \in [Identity -> Account \cup {None}] /\ reused \subseteq Account
           /\ token \in [Token -> TokenRow] /\ faults \in 0..MaxCalls
           /\ out \subseteq Token /\ expired \subseteq Token
  BY DEF Inv, Sessions, Ledger, TypeOK

LEMMA SignInKeepsInv ==
    ASSUME Inv, NEW r \in Request,
           FindForLogin(r) \/ FindLinked(r) \/ FindLinkedMember(r) \/ FindByEmail(r)
    PROVE  Inv'
  <1>0. /\ UNCHANGED <<row, link, won, fined, overwritten, token, expired, out, calls,
                       faults, members>>
        /\ reused' = reused
    BY DEF FindForLogin, FindLinked, FindLinkedMember, FindByEmail, members, sessions
  <1>1. /\ co[r] \in Place /\ Placed(co[r]) /\ reused \subseteq Account
        /\ link \in [Identity -> Account \cup {None}] /\ faults \in 0..MaxCalls
    BY Known
  <1>2. CASE FindForLogin(r)
    <2>1. co[r] # Idle /\ co[r].op # "judge"
      BY <1>2, Runs DEF FindForLogin, At
    <2>2. CASE Finish(r)
      BY <1>0, <1>1, <2>1, <2>2, FinishKeepsInv
    <2>3. CASE \E a \in Account : Turns(r, "persist", a)
      BY <1>0, <1>1, <2>1, <2>3, StepKeepsInv DEF Step, SaveSteps, TokenSteps
    <2> QED
      BY <1>2, <2>2, <2>3 DEF FindForLogin, Turns
  <1>3. CASE FindLinked(r)
    <2>1. co[r] # Idle /\ co[r].op # "judge" /\ co[r].id \in Identity
      BY <1>1, <1>3, Runs DEF FindLinked, At, Placed, SaveSteps
    <2> DEFINE a == link[co[r].id]
               s == IF a = None THEN "email" ELSE "member"
    <2>2. co' = [co EXCEPT ![r].who = a, ![r].step = s]
      BY <1>3 DEF FindLinked
    <2>3. a \in Account \cup {None} /\ (s = "member" => a \in Account)
          /\ s \in {"email", "member"}
      BY <1>1, <2>1
    <2> HIDE DEF a, s
    <2>4. Turns(r, s, a)
      <3>1. [co[r] EXCEPT !.who = a, !.step = s] = [co[r] EXCEPT !.step = s, !.who = a]
        BY <1>1 DEF Place
      <3> QED
        BY <2>2, <3>1, Known DEF Turns
    <2> QED
      BY <1>0, <1>1, <2>1, <2>3, <2>4, StepKeepsInv DEF Step, SaveSteps, TokenSteps
  <1>4. CASE FindLinkedMember(r)
    <2>1. /\ co[r] # Idle /\ co[r].op # "judge" /\ co[r].id \in Identity
          /\ co[r].who \in Account /\ (Goto(r, "persist") \/ Goto(r, "email"))
      BY <1>1, <1>4, Runs DEF FindLinkedMember, At, Placed, SaveSteps
    <2> QED
      BY <1>0, <1>1, <2>1, GotoKeepsInv DEF Step, SaveSteps, TokenSteps
  <1>5. CASE FindByEmail(r)
    <2>1. co[r] # Idle /\ co[r].op # "judge" /\ co[r].id \in Identity
      BY <1>1, <1>5, Runs DEF FindByEmail, At, Placed, SaveSteps
    <2>2. CASE Goto(r, "enroll")
      BY <1>0, <1>1, <2>1, <2>2, GotoKeepsInv DEF Step, SaveSteps, TokenSteps
    <2>3. CASE Finish(r)
      BY <1>0, <1>1, <2>1, <2>3, FinishKeepsInv
    <2>4. CASE \E a \in Account : Turns(r, "link", a)
      BY <1>0, <1>1, <2>1, <2>4, StepKeepsInv DEF Step, SaveSteps, TokenSteps
    <2> QED
      BY <1>5, <2>2, <2>3, <2>4 DEF FindByEmail, Turns
  <1> QED
    BY <1>2, <1>3, <1>4, <1>5

LEMMA LinkAccountKeepsInv ==
    ASSUME Inv, NEW r \in Request, LinkAccount(r)
    PROVE  Inv'
  <1>0. /\ UNCHANGED <<row, won, fined, overwritten, token, expired, out, calls, faults>>
        /\ reused' = reused /\ (co[r].op # "judge")
    BY Known DEF LinkAccount, sessions, Placed, At, SaveSteps
  <1>1. /\ co[r] \in Place /\ Placed(co[r]) /\ reused \subseteq Account
        /\ link \in [Identity -> Account \cup {None}] /\ faults \in 0..MaxCalls
    BY Known
  <1>2. co[r] # Idle /\ co[r].id \in Identity /\ co[r].who \in Account
    BY <1>1, Runs DEF LinkAccount, At, Placed
  <1>3. CASE Finish(r) /\ UNCHANGED link
    BY <1>0, <1>1, <1>2, <1>3, FinishKeepsInv DEF members
  <1>4. CASE link' = [link EXCEPT ![co[r].id] = co[r].who] /\ Goto(r, "persist")
    <2>1. link' \in [Identity -> Account \cup {None}]
      BY <1>1, <1>2, <1>4
    <2>2. Turns(r, "persist", co[r].who)
      <3>1. [co[r] EXCEPT !.step = "persist"]
              = [co[r] EXCEPT !.step = "persist", !.who = co[r].who]
        BY <1>1 DEF Place
      <3> QED
        BY <1>4, <3>1, Known DEF Goto, Turns
    <2> QED
      BY <1>0, <1>1, <1>2, <2>1, <2>2, StepKeepsInv DEF Step, SaveSteps, TokenSteps
  <1> QED
    BY <1>3, <1>4 DEF LinkAccount

LEMMA RefreshKeepsInv ==
    ASSUME Inv, NEW r \in Request,
           FindOwner(r) \/ FindToken(r) \/ Rotate(r) \/ FindActive(r)
    PROVE  Inv'
  <1>0. UNCHANGED <<members, token, expired, out, calls, faults>>
    BY DEF FindOwner, FindToken, Rotate, FindActive, sessions
  <1>1. /\ co[r] \in Place /\ Placed(co[r]) /\ Presents(co[r]) /\ reused \subseteq Account
        /\ faults \in 0..MaxCalls
    BY Known
  <1>2. /\ co[r].step \in TokenSteps /\ co[r] # Idle
    BY Runs DEF FindOwner, FindToken, Rotate, FindActive, At, TokenSteps
  <1>3. /\ co[r].op # "judge" /\ co[r].who \in Account /\ co[r].token \in Token
        /\ token[co[r].token].owner = co[r].who
    BY <1>1, <1>2 DEF Placed, Presents, TokenSteps, SaveSteps
  <1>4. CASE FindOwner(r)
    <2>1. reused' = reused /\ (Finish(r) \/ Goto(r, "token"))
      BY <1>4 DEF FindOwner, sessions
    <2> QED
      BY <1>0, <1>1, <1>2, <1>3, <2>1, GotoKeepsInv, FinishKeepsInv
         DEF Step, SaveSteps, TokenSteps
  <1>5. CASE FindToken(r)
    <2>1. reused \subseteq reused' /\ reused' \subseteq Account
      BY <1>1, <1>3, <1>5 DEF FindToken
    <2>2. CASE Finish(r)
      BY <1>0, <1>1, <1>2, <2>1, <2>2, FinishKeepsInv
    <2>3. CASE Goto(r, "reuse") /\ co[r].who \in reused'
      BY <1>0, <1>2, <1>3, <2>1, <2>3, GotoKeepsInv DEF Step, SaveSteps
    <2>4. CASE Goto(r, "rotate")
      BY <1>0, <1>2, <1>3, <2>1, <2>4, GotoKeepsInv DEF Step, SaveSteps
    <2> QED
      BY <1>5, <2>2, <2>3, <2>4 DEF FindToken
  <1>6. CASE Rotate(r)
    <2>1. /\ reused' = reused /\ ~TokenLocked(co[r].token)
          /\ \/ Goto(r, "replace") /\ ~token[co[r].token].revoked
             \/ Goto(r, "recheck")
      BY <1>6 DEF Rotate, sessions, Rotatable
    <2> QED
      BY <1>0, <1>1, <1>2, <1>3, <2>1, GotoKeepsInv DEF Step, SaveSteps
  <1>7. CASE FindActive(r)
    <2> DEFINE S == {t \in Token : token[t].owner = co[r].who /\ ~token[t].revoked}
    <2>1. PICK x : x = [co[r] EXCEPT !.step = "cut", !.active = S]
      OBVIOUS
    <2>2. /\ x \in Place /\ x.step = "cut" /\ x.active = S /\ x.who = co[r].who
          /\ x.op = co[r].op /\ x.token = co[r].token /\ x.fines = co[r].fines
          /\ x.draft = co[r].draft
      BY <1>1, <2>1, ZenonT(30) DEF Place, Step
    <2>3. co' = [co EXCEPT ![r] = x] /\ reused' = reused
      BY <1>7, <2>1, Known DEF FindActive, sessions
    <2>4. Placed(x)
      BY <1>1, <1>3, <2>2 DEF Placed, SaveSteps
    <2>5. co[r].who \in reused
      BY <1>1, <1>7 DEF FindActive, Presents, At
    <2>6. Presents(x)'
      BY <1>0, <1>3, <2>2, <2>3, <2>5 DEF Presents
    <2> QED
      BY <1>0, <1>1, <1>2, <1>3, <2>2, <2>3, <2>4, <2>6, PlainKeepsInv DEF SaveSteps
  <1> QED
    BY <1>4, <1>5, <1>6, <1>7

\* Nobody moves and nothing is written.
LEMMA Unmoved ==
    ASSUME Inv,
           UNCHANGED <<row, won, fined, overwritten, token, out, reused, co, calls>>
    PROVE  Sessions' /\ Ledger'
  <1>1. Numbered'
    BY DEF Inv, Sessions, Numbered, Busy, Issued
  <1>2. Rooted'
    BY DEF Inv, Sessions, Rooted, Issued
  <1>3. (\A r \in Request : Presents(co[r])') /\ Apart'
    BY DEF Inv, Sessions, Presents, Apart, At
  <1>4. OneActiveToken' /\ SessionsEndForAReason'
    BY DEF Inv, Sessions, Issued, OneActiveToken, SessionsEndForAReason
  <1>5. ASSUME NEW r \in Request PROVE Booked(co[r])'
    <2>1. Saving(co[r]) /\ Sides(co[r]) /\ Drafted(co[r])
      BY DEF Inv, Ledger, Booked
    <2>2. Saving(co[r])' /\ Sides(co[r])'
      BY <2>1 DEF Saving, Sides, Put
    <2>3. Drafted(co[r])'
      BY <2>1 DEF Drafted, Put
    <2> QED
      BY <2>2, <2>3 DEF Booked
  <1>6. DraftsApart' /\ LedgerHolds'
    BY DEF Inv, Ledger, DraftsApart, Drafts, LedgerHolds
  <1> QED
    BY <1>1, <1>2, <1>3, <1>4, <1>5, <1>6 DEF Sessions, Ledger

LEMMA ExpireKeepsInv ==
    ASSUME Inv, NEW t \in Token, Expire(t)
    PROVE  Inv'
  <1>1. /\ UNCHANGED <<row, link, won, fined, overwritten, token, out, reused, co, calls>>
        /\ expired' = expired \cup {t} /\ faults' = faults + 1 /\ calls + faults < MaxCalls
    BY DEF Expire, members
  <1>2. TypeOK'
    BY <1>1, AccountConstants DEF Inv, TypeOK
  <1>3. \A r \in Request : Placed(co[r])'
    BY <1>1 DEF Inv, Placed
  <1> QED
    BY <1>1, <1>2, <1>3, Unmoved DEF Inv

LEMMA CrashKeepsInv ==
    ASSUME Inv, Crash
    PROVE  Inv'
  <1>1. /\ UNCHANGED <<row, link, won, fined, overwritten, token, expired, out, reused,
                       calls>>
        /\ co' = [r \in Request |-> Idle] /\ faults' = faults + 1 /\ calls + faults < MaxCalls
    BY DEF Crash, Fails, members, sessions
  <1>2. TypeOK'
    BY <1>1, IdleFits, AccountConstants DEF Inv, TypeOK
  <1>3. \A r \in Request : co'[r] = Idle
    BY <1>1
  <1>4. Sessions'
    <2>1. Numbered'
      <3>1. Busy' = {} /\ IsFiniteSet(Busy') /\ Cardinality(Busy') = 0
        BY <1>3, FS_EmptySet DEF Busy
      <3>2. PICK n \in Nat : /\ \A t \in Token : Issued(t) <=> t <= n
                             /\ n + Cardinality(Busy) <= calls + 1
        BY DEF Inv, Sessions, Numbered
      <3>3. Cardinality(Busy) \in Nat /\ calls \in Nat
        BY FS_CardinalityType DEF Inv, Sessions, Numbered, TypeOK
      <3> QED
        BY <1>1, <3>1, <3>2, <3>3 DEF Numbered, Issued
    <2>2. Rooted' /\ OneActiveToken' /\ SessionsEndForAReason'
      BY <1>1 DEF Inv, Sessions, Rooted, Issued, OneActiveToken, SessionsEndForAReason
    <2>3. Apart' /\ \A r \in Request : Presents(co[r])'
      BY <1>3, IdleFits DEF Apart, At, Presents, TokenSteps
    <2> QED
      BY <2>1, <2>2, <2>3 DEF Sessions
  <1>5. Ledger'
    <2>1. LedgerHolds'
      BY <1>1 DEF Inv, Ledger, LedgerHolds
    <2>2. DraftsApart'
      BY <1>3, IdleFits DEF DraftsApart, Drafts
    <2>3. \A r \in Request : Booked(co[r])'
      BY <1>3, IdleFits DEF Booked, Saving, Sides, Drafted, SaveSteps
    <2> QED
      BY <2>1, <2>2, <2>3 DEF Ledger
  <1>6. \A r \in Request : Placed(co[r])'
    BY <1>3, IdleClaimsNothing DEF Placed
  <1> QED
    BY <1>2, <1>4, <1>5, <1>6 DEF Inv

-----------------------------------------------------------------------------
(* Calls that begin, and calls that fail *)

LEMMA ArriveKeepsInv ==
    ASSUME Inv, NEW r \in Request, Arrive(r)
    PROVE  Inv'
  <1> USE IdleFits
  <1>0. \A x : x.op \in Calls /\ x.op # "judge" /\ x.step \notin SaveSteps => Booked(x)
    BY PlainIsBooked
  <1>1. ASSUME NEW e \in Email, BeginSignUp(r, e) \/ BeginLogin(r, e) PROVE Inv'
    <2>1. PICK x : /\ Begin(r, x)
                   /\ \/ x = [Idle EXCEPT !.op = "signup", !.step = "insert", !.email = e]
                      \/ x = [Idle EXCEPT !.op = "login", !.step = "find", !.email = e]
      BY <1>1 DEF BeginSignUp, BeginLogin
    <2>2. /\ x \in Place /\ x.fines = {} /\ x.draft = Idle.draft
          /\ \/ x.op = "signup" /\ x.step = "insert"
             \/ x.op = "login" /\ x.step = "find"
      <3>1. CASE x = [Idle EXCEPT !.op = "signup", !.step = "insert", !.email = e]
        BY <3>1, ZenonT(30) DEF Place, Step, Calls
      <3>2. CASE x = [Idle EXCEPT !.op = "login", !.step = "find", !.email = e]
        BY <3>2, ZenonT(30) DEF Place, Step, Calls
      <3> QED
        BY <2>1, <3>1, <3>2
    <2>3. Booked(x)
      BY <1>0, <2>2 DEF SaveSteps, Calls
    <2>4. Placed(x)
      BY <2>2 DEF Placed, SaveSteps, TokenSteps
    <2>5. Presents(x)
      BY <2>2 DEF Presents, TokenSteps
    <2> QED
      BY <2>1, <2>2, <2>3, <2>4, <2>5, BeginKeepsInv
  <1>2. ASSUME BeginCreate(r) PROVE Inv'
    <2>1. PICK x : /\ Begin(r, x)
                   /\ x = [Idle EXCEPT !.op = "create", !.step = "insert"]
      BY <1>2 DEF BeginCreate
    <2>2. /\ x \in Place /\ x.fines = {} /\ x.draft = Idle.draft
          /\ x.op = "create" /\ x.step = "insert"
      BY <2>1, ZenonT(30) DEF Place, Step, Calls
    <2>3. Booked(x)
      BY <1>0, <2>2 DEF SaveSteps, Calls
    <2>4. Placed(x) /\ Presents(x)
      BY <2>2 DEF Placed, Presents, SaveSteps, TokenSteps
    <2> QED
      BY <2>1, <2>2, <2>3, <2>4, BeginKeepsInv
  <1>3. ASSUME NEW i \in Identity, NEW e \in Email, NEW v \in BOOLEAN,
               BeginOAuth(r, i, e, v)
        PROVE  Inv'
    <2>1. PICK x : /\ Begin(r, x)
                   /\ x = [Idle EXCEPT !.op = "oauth", !.step = "linked", !.id = i,
                                       !.email = e, !.verified = v]
      BY <1>3 DEF BeginOAuth
    <2>2. /\ x \in Place /\ x.fines = {} /\ x.draft = Idle.draft
          /\ x.op = "oauth" /\ x.step = "linked" /\ x.id = i
      BY <2>1, ZenonT(30) DEF Place, Step, Calls
    <2>3. Booked(x)
      BY <1>0, <2>2 DEF SaveSteps, Calls
    <2>4. Placed(x) /\ Presents(x)
      BY <2>2 DEF Placed, Presents, SaveSteps, TokenSteps
    <2> QED
      BY <2>1, <2>2, <2>3, <2>4, BeginKeepsInv
  <1>4. ASSUME NEW t \in Token, BeginRefresh(r, t) \/ BeginLogout(r, t) PROVE Inv'
    <2> DEFINE a == token[t].owner
    <2>1. PICK x : /\ Begin(r, x)
                   /\ \/ x = [Idle EXCEPT !.op = "refresh", !.step = "owner", !.token = t,
                                          !.who = a]
                      \/ x = [Idle EXCEPT !.op = "logout", !.step = "revoke", !.token = t,
                                          !.who = a]
      BY <1>4 DEF BeginRefresh, BeginLogout
    <2>2. a \in Account
      BY <1>4 DEF Inv, TypeOK, TokenRow, Issued, BeginRefresh, BeginLogout
    <2> HIDE DEF a
    <2>3. /\ x \in Place /\ x.fines = {} /\ x.draft = Idle.draft /\ x.token = t
          /\ x.who = a
          /\ \/ x.op = "refresh" /\ x.step = "owner"
             \/ x.op = "logout" /\ x.step = "revoke"
      <3>1. CASE x = [Idle EXCEPT !.op = "refresh", !.step = "owner", !.token = t,
                                  !.who = a]
        BY <2>2, <3>1, ZenonT(30) DEF Place, Step, Calls
      <3>2. CASE x = [Idle EXCEPT !.op = "logout", !.step = "revoke", !.token = t,
                                  !.who = a]
        BY <2>2, <3>2, ZenonT(30) DEF Place, Step, Calls
      <3> QED
        BY <2>1, <3>1, <3>2
    <2>4. Booked(x)
      BY <1>0, <2>3 DEF SaveSteps, Calls
    <2>5. Placed(x)
      BY <2>2, <2>3 DEF Placed, SaveSteps, TokenSteps
    <2>6. Presents(x)
      BY <2>3 DEF Presents, a
    <2> QED
      BY <2>1, <2>3, <2>4, <2>5, <2>6, BeginKeepsInv
  <1>5. ASSUME NEW a \in Account, NEW change \in {"password", "name"},
               BeginUpdate(r, a, change) \/ BeginRemove(r, a)
        PROVE  Inv'
    <2>1. PICK x : /\ Begin(r, x)
                   /\ \/ x = [Idle EXCEPT !.op = "update", !.step = "find", !.who = a,
                                          !.stale = {change}]
                      \/ x = [Idle EXCEPT !.op = "remove", !.step = "find", !.who = a]
      BY <1>5 DEF BeginUpdate, BeginRemove
    <2>2. /\ x \in Place /\ x.fines = {} /\ x.draft = Idle.draft /\ x.who = a
          /\ x.step = "find" /\ x.op \in {"update", "remove"}
      <3>1. CASE x = [Idle EXCEPT !.op = "update", !.step = "find", !.who = a,
                                  !.stale = {change}]
        <4>1. {change} \in SUBSET Column
          BY DEF Column
        <4> QED
          BY <3>1, <4>1, ZenonT(30) DEF Place, Step, Calls
      <3>2. CASE x = [Idle EXCEPT !.op = "remove", !.step = "find", !.who = a]
        BY <3>2, ZenonT(30) DEF Place, Step, Calls
      <3> QED
        BY <2>1, <3>1, <3>2
    <2>3. Booked(x)
      BY <1>0, <2>2 DEF SaveSteps, Calls
    <2>4. Placed(x) /\ Presents(x)
      BY <2>2 DEF Placed, Presents, SaveSteps, TokenSteps
    <2> QED
      BY <2>1, <2>2, <2>3, <2>4, BeginKeepsInv
  <1>6. ASSUME NEW host \in Present, NEW opponent \in Present, host # opponent,
               NEW todo \in {<<>>, <<host>>, <<opponent>>, <<host, opponent>>},
               NEW winner \in {host, opponent, None}, BeginJudge(r, todo, winner)
        PROVE  Inv'
    <2>1. PICK x : /\ Begin(r, x)
                   /\ x = [Idle EXCEPT !.op = "judge", !.step = "fine", !.todo = todo,
                                       !.winner = winner]
      BY <1>6 DEF BeginJudge
    <2>2. host \in Account /\ opponent \in Account
      BY AccountConstants
    <2>3. todo \in Seq(Account) /\ winner \in Account \cup {None}
      <3>1. /\ <<>> \in Seq(Account)
            /\ <<host>> \in Seq(Account) /\ <<opponent>> \in Seq(Account)
            /\ <<host, opponent>> \in Seq(Account)
        BY <2>2
      <3> QED
        BY <2>2, <3>1
    <2>4. /\ x \in Place /\ x.fines = {} /\ x.draft = Idle.draft /\ x.todo = todo
          /\ x.op = "judge" /\ x.step = "fine"
      BY <2>1, <2>2, <2>3, ZenonT(30) DEF Place, Step, Calls
    <2>5. Sides(x)
      BY <1>6, <2>2, <2>4 DEF Sides, SaveSteps
    <2>6. Saving(x)
      BY <2>4 DEF Saving, SaveSteps
    <2>7. Drafted(x)
      BY <2>4 DEF Drafted
    <2>8. Placed(x) /\ Presents(x)
      BY <2>4 DEF Placed, Presents, SaveSteps, TokenSteps
    <2> QED
      BY <2>1, <2>4, <2>5, <2>6, <2>7, <2>8, BeginKeepsInv DEF Booked
  <1> QED
    BY <1>1, <1>2, <1>3, <1>4, <1>5, <1>6 DEF Arrive

LEMMA AbortKeepsInv ==
    ASSUME Inv, NEW r \in Request, QueryFails(r) \/ DeadlockVictim(r)
    PROVE  Inv'
  <1>1. CASE QueryFails(r)
    <2>1. /\ UNCHANGED <<members, token, expired, out, reused, calls>>
          /\ Finish(r) /\ co[r] # Idle /\ faults' \in 0..MaxCalls
          /\ reused \subseteq Account
      BY <1>1, Runs, AccountConstants DEF QueryFails, Fails, sessions, Inv, TypeOK
    <2> QED
      BY <2>1, FinishKeepsInv
  <1>2. CASE DeadlockVictim(r)
    <2>1. /\ UNCHANGED <<members, token, expired, out, reused, calls>>
          /\ Finish(r) /\ faults' \in 0..MaxCalls /\ reused \subseteq Account
      BY <1>2 DEF DeadlockVictim, sessions, Inv, TypeOK
    <2>2. co[r] # Idle
      BY <1>2, IdleFits DEF DeadlockVictim, WaitsFor, Drafts, Wants, At
    <2> QED
      BY <2>1, <2>2, FinishKeepsInv
  <1> QED
    BY <1>1, <1>2

-----------------------------------------------------------------------------
(* Steps that change rows *)

\* Rows change that nobody has drafted but r; a member stays, and a credit only
\* falls back if an old value was put back.
LEMMA RowsChange ==
    ASSUME Inv, NEW r \in Request, NEW x \in Place, co' = [co EXCEPT ![r] = x],
           x.op # "judge", Placed(x),
           row' \in [Account -> Row], overwritten \subseteq overwritten',
           \A a \in Account : row'[a] # row[a] =>
              /\ ~RowLocked(a, r)
              /\ row[a].status # "none" => row'[a].status # "none"
              /\ row[a].credit <= row'[a].credit \/ <<a, "credit">> \in overwritten',
           x.step \notin SaveSteps,
           LedgerHolds'
    PROVE  Ledger'
  <1>1. /\ co'[r] = x /\ \A o \in Request \ {r} : co'[o] = co[o]
        /\ row \in [Account -> Row] /\ co \in [Request -> Place]
        /\ \A a \in Account : row[a].credit \in Nat /\ row'[a].credit \in Nat
    BY DEF Inv, TypeOK, Row
  <1>2. \A a \in Account : x.draft[a] = NoRow
    BY DEF Placed
  <1>3. ASSUME NEW o \in Request \ {r} PROVE Booked(co[o])'
    <2> DEFINE y == co[o]
    <2>1. Saving(y) /\ Sides(y) /\ Drafted(y) /\ Placed(y) /\ y \in Place /\ co'[o] = y
      BY <1>1 DEF Inv, Ledger, Booked
    <2>2. \A a, c : Put(y, a, c) => Put(y, a, c)'
      BY <2>1 DEF Put
    <2>3. Saving(y)'
      <3> SUFFICES ASSUME y.step \in SaveSteps
                   PROVE  /\ row'[y.who].status # "none" /\ y.seen.status # "none"
                          /\ y.seen.rating = y.base.rating
                          /\ y.seen.credit = y.base.credit
                                             + (IF y.op = "judge" THEN 1 ELSE 0)
                          /\ y.step = "write" /\ y.op = "judge" /\ "credit" \notin y.stale
                               => <<y.who, "credit">> \in y.lost \cup overwritten'
                                  \/ y.seen.credit <= row'[y.who].credit
        BY <2>1 DEF Saving, Put
      <3> DEFINE a == y.who
      <3>1. a \in Account
        BY <2>1 DEF Placed
      <3>2. row[a].status # "none" => row'[a].status # "none"
        BY <3>1
      <3>3. \/ row[a].credit <= row'[a].credit
            \/ <<a, "credit">> \in overwritten'
        BY <1>1, <3>1
      <3>4. y.seen.credit \in Nat /\ row[a].credit \in Nat /\ row'[a].credit \in Nat
        BY <1>1, <2>1, <3>1 DEF Place, Row
      <3> HIDE DEF a
      <3> QED
        BY <2>1, <3>2, <3>3, <3>4 DEF Saving, Put, a
    <2>4. Drafted(y)'
      <3> SUFFICES ASSUME y.op = "judge", NEW a \in Account
                   PROVE  /\ a \in y.fines /\ y.draft[a] = NoRow => Put(y, a, "credit")'
                          /\ y.step = "commit" /\ y.winner = a => y.draft[a] # NoRow
                          /\ y.draft[a] # NoRow =>
                               /\ a \in y.fines \/ y.step = "commit"
                               /\ row'[a].status # "none" /\ y.draft[a].status # "none"
                               /\ \/ y.draft[a].credit
                                       = row'[a].credit + (IF a \in y.fines THEN 1 ELSE 0)
                                  \/ Put(y, a, "credit")'
                               /\ \/ y.draft[a].rating =
                                       row'[a].rating
                                       + (IF y.step = "commit" /\ y.winner = a
                                          THEN 1 ELSE 0)
                                  \/ Put(y, a, "rating")'
        BY <2>1 DEF Drafted
      <3>1. y.draft[a] # NoRow => row'[a] = row[a]
        BY DEF RowLocked, Drafts
      <3> QED
        BY <2>1, <2>2, <3>1 DEF Drafted
    <2>5. Sides(y)'
      BY <2>1 DEF Sides
    <2> QED
      BY <2>1, <2>3, <2>4, <2>5 DEF Booked
  <1>4. Booked(co[r])'
    BY <1>1 DEF Booked, Saving, Sides, Drafted
  <1>5. DraftsApart'
    BY <1>1, <1>2 DEF Inv, Ledger, DraftsApart, Drafts
  <1> QED
    BY <1>3, <1>4, <1>5 DEF Ledger

LEMMA EntersKeepsInv ==
    ASSUME Inv, NEW r \in Request, co[r] # Idle, NEW a \in Account,
           row[a].status = "none", NEW new \in Row,
           row' = [row EXCEPT ![a] = new],
           new.status # "none", new.credit = row[a].credit, new.rating = row[a].rating,
           link' \in [Identity -> Account \cup {None}],
           Turns(r, "persist", a) \/ Finish(r),
           co[r].op # "judge",
           UNCHANGED <<won, fined, overwritten, sessions, calls, faults>>
    PROVE  Inv'
  <1>1. /\ co[r] \in Place /\ Placed(co[r]) /\ co \in [Request -> Place]
        /\ row \in [Account -> Row] /\ UNCHANGED <<token, expired, out, reused>>
    BY Known DEF sessions
  <1>2. PICK x \in {[co[r] EXCEPT !.step = "persist", !.who = a], Idle} :
          co' = [co EXCEPT ![r] = x]
    BY <1>1 DEF Finish, Turns
  <1>3. /\ x \in Place /\ x.step \in {"persist", "idle"} /\ x.op # "judge"
        /\ x.step = "persist" => x.who = a
        /\ x.fines = {} /\ \A b \in Account : x.draft[b] = NoRow
    <2>1. CASE x = Idle
      BY <2>1, IdleFits
    <2>2. CASE x = [co[r] EXCEPT !.step = "persist", !.who = a]
      <3>1. /\ x \in Place /\ x.step = "persist" /\ x.op = co[r].op /\ x.who = a
            /\ x.fines = co[r].fines /\ x.draft = co[r].draft
        BY <1>1, <2>2, ZenonT(30) DEF Place, Step
      <3>2. co[r].fines = {} /\ \A b \in Account : co[r].draft[b] = NoRow
        BY <1>1 DEF Placed
      <3> QED
        BY <3>1, <3>2
    <2> QED
      BY <1>2, <2>1, <2>2
  <1>4. Placed(x)
    BY <1>3 DEF Placed, TokenSteps, SaveSteps
  <1>5. \A b \in Account : b # a => row'[b] = row[b]
    BY <1>1
  <1>6. row'[a] = new /\ row' \in [Account -> Row]
    BY <1>1
  <1>7. co'[r] = x /\ \A o \in Request \ {r} : co'[o] = co[o]
    BY <1>1, <1>2
  <1>8. TypeOK'
    BY <1>1, <1>2, <1>3, <1>6 DEF Inv, TypeOK
  <1>9. \A o \in Request : Placed(co[o])'
    BY <1>4, <1>7 DEF Inv, Placed
  <1>10. Sessions'
    <2>1. Presents(x)'
      BY <1>3 DEF Presents, TokenSteps
    <2> QED
      BY <1>1, <1>2, <1>3, <2>1, SessionsStay
  <1>11. Ledger'
    <2>1. ~RowLocked(a, r)
      BY DEF Inv, Ledger, Booked, Drafted, Placed, RowLocked, Drafts
    <2>2. LedgerHolds'
      BY <1>5, <1>6 DEF Inv, Ledger, LedgerHolds
    <2>3. row[a].credit \in Nat
      BY <1>1 DEF Row
    <2>4. \A b \in Account : row'[b] # row[b] =>
            /\ ~RowLocked(b, r)
            /\ row[b].status # "none" => row'[b].status # "none"
            /\ row[b].credit <= row'[b].credit \/ <<b, "credit">> \in overwritten'
      BY <1>5, <1>6, <2>1, <2>3
    <2> QED
      BY <1>2, <1>3, <1>4, <1>6, <2>2, <2>4, RowsChange DEF SaveSteps
  <1> QED
    BY <1>8, <1>9, <1>10, <1>11 DEF Inv

LEMMA EnrollKeepsInv ==
    ASSUME Inv, NEW r \in Request, InsertMember(r) \/ Enroll(r)
    PROVE  Inv'
  <1>1. /\ co[r] \in Place /\ Placed(co[r]) /\ co \in [Request -> Place]
        /\ row \in [Account -> Row] /\ link \in [Identity -> Account \cup {None}]
        /\ reused \subseteq Account /\ faults \in 0..MaxCalls
    BY Known
  <1>2. /\ co[r] # Idle /\ co[r].op # "judge"
        /\ UNCHANGED <<won, fined, overwritten, sessions, calls, faults>>
    BY <1>1, Runs DEF InsertMember, Enroll, At, Placed, SaveSteps
  <1>3. ASSUME Finish(r), UNCHANGED <<row, link>> PROVE Inv'
    BY <1>1, <1>2, <1>3, FinishKeepsInv DEF members, sessions
  <1>4. CASE InsertMember(r)
    <2>1. CASE Finish(r) /\ UNCHANGED row
      BY <1>3, <1>4, <2>1 DEF InsertMember
    <2>2. ASSUME NEW a \in Account, row[a].status = "none",
                 row' = [row EXCEPT ![a] =
                           [@ EXCEPT !.status = "NORMAL", !.email = co[r].email,
                                     !.password = IF co[r].op = "signup" THEN 1
                                                  ELSE 0]],
                 IF co[r].op = "signup"
                 THEN co' = [co EXCEPT ![r].step = "persist", ![r].who = a]
                 ELSE Finish(r)
          PROVE  Inv'
      <3> DEFINE p == IF co[r].op = "signup" THEN 1 ELSE 0
      <3>1. p \in Nat
        OBVIOUS
      <3>2. row' = [row EXCEPT ![a] = [row[a] EXCEPT !.status = "NORMAL",
                                                     !.email = co[r].email,
                                                     !.password = p]]
        BY <1>1, <2>2
      <3> HIDE DEF p
      <3>3. PICK new : new = [row[a] EXCEPT !.status = "NORMAL", !.email = co[r].email,
                                            !.password = p]
        OBVIOUS
      <3>4. /\ new \in Row /\ new.status # "none" /\ new.credit = row[a].credit
            /\ new.rating = row[a].rating
        BY <1>1, <3>1, <3>3, ZenonT(30) DEF Row, Place
      <3>5. row' = [row EXCEPT ![a] = new]
        BY <3>2, <3>3
      <3>6. Turns(r, "persist", a) \/ Finish(r)
        BY <2>2 DEF Turns
      <3>7. link' \in [Identity -> Account \cup {None}]
        BY <1>1, <1>4 DEF InsertMember
      <3> QED
        BY <1>2, <2>2, <3>4, <3>5, <3>6, <3>7, EntersKeepsInv
    <2> QED
      BY <1>4, <2>1, <2>2 DEF InsertMember
  <1>5. CASE Enroll(r)
    <2>1. CASE Finish(r) /\ UNCHANGED <<row, link>>
      BY <1>3, <2>1
    <2>2. ASSUME NEW a \in Account, row[a].status = "none",
                 row' = [row EXCEPT ![a] = [@ EXCEPT !.status = "NORMAL",
                                                     !.email = co[r].email]],
                 link' = [link EXCEPT ![co[r].id] = a],
                 co' = [co EXCEPT ![r].step = "persist", ![r].who = a]
          PROVE  Inv'
      <3>1. PICK new : new = [row[a] EXCEPT !.status = "NORMAL", !.email = co[r].email]
        OBVIOUS
      <3>2. /\ new \in Row /\ new.status # "none" /\ new.credit = row[a].credit
            /\ new.rating = row[a].rating
        BY <1>1, <3>1, ZenonT(30) DEF Row, Place
      <3>3. row' = [row EXCEPT ![a] = new]
        BY <1>1, <2>2, <3>1
      <3>4. link' \in [Identity -> Account \cup {None}]
        BY <1>1, <2>2
      <3>5. Turns(r, "persist", a)
        BY <2>2 DEF Turns
      <3> QED
        BY <1>2, <2>2, <3>2, <3>3, <3>4, <3>5, EntersKeepsInv
    <2> QED
      BY <1>5, <2>1, <2>2 DEF Enroll
  <1> QED
    BY <1>4, <1>5

\* save of a member, as far as it reads.
LEMMA FindOwnKeepsInv ==
    ASSUME Inv, NEW r \in Request, FindOwn(r)
    PROVE  Inv'
  <1> DEFINE a == co[r].who
             old == row[a]
  <1>1. /\ co[r] \in Place /\ Placed(co[r]) /\ co \in [Request -> Place]
        /\ row \in [Account -> Row] /\ reused \subseteq Account /\ faults \in 0..MaxCalls
    BY Known
  <1>2. /\ co[r] # Idle /\ co[r].op \in {"update", "remove"} /\ a \in Account
        /\ UNCHANGED <<members, token, expired, out, reused, calls, faults>>
    BY <1>1, Runs DEF FindOwn, At, Placed, sessions
  <1>3. CASE Finish(r)
    BY <1>1, <1>2, <1>3, FinishKeepsInv
  <1>4. CASE /\ old.status = "NORMAL"
             /\ co' = [co EXCEPT ![r].base = old, ![r].seen = Changed(r, old),
                                 ![r].step = "select"]
    <2>1. PICK new : new = Changed(r, old)
      OBVIOUS
    <2>2. old \in Row
      BY <1>1, <1>2
    <2>3. /\ new \in Row /\ new.status # "none" /\ new.rating = old.rating
          /\ new.credit = old.credit
      <3>1. CASE co[r].op = "remove"
        <4>1. new = [old EXCEPT !.status = "DELETED"]
          BY <2>1, <3>1 DEF Changed
        <4> HIDE DEF old
        <4> QED
          BY <2>2, <4>1 DEF Row
      <3>2. CASE co[r].op # "remove" /\ co[r].stale = {"password"}
        <4>1. new = [old EXCEPT !.password = old.password + 1]
          BY <2>1, <3>2 DEF Changed
        <4> HIDE DEF old
        <4> QED
          BY <1>4, <2>2, <4>1 DEF Row
      <3>3. CASE co[r].op # "remove" /\ co[r].stale # {"password"}
        <4>1. new = [old EXCEPT !.name = old.name + 1]
          BY <2>1, <3>3 DEF Changed
        <4> HIDE DEF old
        <4> QED
          BY <1>4, <2>2, <4>1 DEF Row
      <3> QED
        BY <3>1, <3>2, <3>3
    <2>4. PICK x : x = [co[r] EXCEPT !.base = old, !.seen = new, !.step = "select"]
      OBVIOUS
    <2>5. co' = [co EXCEPT ![r] = x]
      BY <1>1, <1>4, <2>1, <2>4
    <2>6. /\ x \in Place /\ x.step = "select" /\ x.who = a /\ x.op = co[r].op
          /\ x.base = old /\ x.seen = new /\ x.fines = co[r].fines
          /\ x.draft = co[r].draft
      BY <1>1, <2>2, <2>3, <2>4, ZenonT(30) DEF Place, Step
    <2>7. Placed(x)
      BY <1>1, <1>2, <2>6 DEF Placed, TokenSteps, SaveSteps
    <2>8. Presents(x)'
      BY <2>6 DEF Presents, TokenSteps
    <2>9. Saving(x)
      <3>1. old.credit \in Nat
        BY <2>2 DEF Row
      <3> QED
        BY <1>2, <1>4, <2>3, <2>6, <3>1 DEF Saving
    <2>10. Sides(x) /\ Drafted(x)
      BY <1>2, <2>6 DEF Sides, Drafted
    <2>11. \A b \in Account : x.draft[b] = NoRow
      BY <1>2, <2>6, <2>7 DEF Placed
    <2> QED
      BY <1>1, <1>2, <2>5, <2>6, <2>7, <2>8, <2>9, <2>10, <2>11, MoveKeepsInv DEF Booked
  <1> QED
    BY <1>3, <1>4 DEF FindOwn

LEMMA SelectRowKeepsInv ==
    ASSUME Inv, NEW r \in Request, SelectRow(r)
    PROVE  Inv'
  <1> DEFINE a == co[r].who
             S == {c \in Column : row[a][c] # co[r].seen[c]}
  <1>1. /\ co[r] \in Place /\ Placed(co[r]) /\ Booked(co[r]) /\ co \in [Request -> Place]
        /\ row \in [Account -> Row] /\ reused \subseteq Account
    BY Known
  <1>2. /\ co[r] # Idle /\ a \in Account /\ co[r].step = "select"
        /\ co[r].op \in {"update", "remove", "judge"}
        /\ UNCHANGED <<members, token, expired, out, reused, calls, faults>>
    BY <1>1, Runs DEF SelectRow, At, Placed, sessions, SaveSteps
  <1>3. PICK x : x = [co[r] EXCEPT !.stale = S, !.step = "write"]
    OBVIOUS
  <1>4. co' = [co EXCEPT ![r] = x]
    BY <1>1, <1>2, <1>3 DEF SelectRow
  <1>5. S \in SUBSET Column
    OBVIOUS
  <1>6. "credit" \notin S => row[a].credit = co[r].seen.credit
    BY DEF Column
  <1> HIDE DEF S
  <1>7. /\ x \in Place /\ x.step = "write" /\ x.who = a /\ x.op = co[r].op /\ x.stale = S
        /\ x.base = co[r].base /\ x.seen = co[r].seen /\ x.fines = co[r].fines
        /\ x.draft = co[r].draft /\ x.todo = co[r].todo /\ x.lost = co[r].lost
        /\ x.winner = co[r].winner
    BY <1>1, <1>3, <1>5, ZenonT(30) DEF Place, Step
  <1>8. Placed(x)
    BY <1>1, <1>2, <1>7 DEF Placed, TokenSteps, SaveSteps
  <1>9. Presents(x)'
    BY <1>7 DEF Presents, TokenSteps
  <1>10. Saving(x)
    <2>1. row[a].credit \in Nat /\ co[r].seen.credit \in Nat
      BY <1>1, <1>2 DEF Place, Row
    <2>2. "credit" \notin x.stale => x.seen.credit <= row[a].credit
      BY <1>6, <1>7, <2>1
    <2>3. Saving(co[r])
      BY <1>1 DEF Booked
    <2> QED
      BY <1>2, <1>7, <2>2, <2>3 DEF Saving, SaveSteps
  <1>11. Sides(x)
    BY <1>1, <1>2, <1>7 DEF Booked, Sides, SaveSteps
  <1>12. Drafted(x)
    BY <1>1, <1>2, <1>7 DEF Booked, Drafted, Put
  <1>13. \A b \in Account : x.draft[b] # NoRow => Drafts(r, b)
    BY <1>7 DEF Drafts
  <1> QED
    BY <1>1, <1>2, <1>4, <1>7, <1>8, <1>9, <1>10, <1>11, <1>12, <1>13, MoveKeepsInv
       DEF Booked

\* What a save writes: a row, whose credit and rating are those of the row, or of the
\* entity if the column was stale.
LEMMA WrittenRow ==
    ASSUME Inv, NEW r \in Request, At(r, "write")
    PROVE  /\ Written(r) \in Row /\ Written(r).status # "none"
           /\ Written(r).credit = IF "credit" \in co[r].stale THEN co[r].seen.credit
                                  ELSE row[co[r].who].credit
           /\ Written(r).rating = IF "rating" \in co[r].stale THEN co[r].seen.rating
                                  ELSE row[co[r].who].rating
  <1> DEFINE a == co[r].who
             Value(c) == IF c \in co[r].stale THEN co[r].seen[c] ELSE row[a][c]
  <1>1. /\ co[r] \in Place /\ a \in Account /\ row[a] \in Row /\ co[r].seen \in Row
        /\ Saving(co[r])
    BY Known DEF At, Placed, SaveSteps, Booked, Place
  <1>2. /\ Value("status") \in {"NORMAL", "DELETED"}
        /\ Value("password") \in Nat /\ Value("name") \in Nat
        /\ Value("credit") \in Nat /\ Value("rating") \in Nat
    BY <1>1 DEF Row, Saving, SaveSteps, At
  <1>3. /\ Written(r).status = Value("status")
        /\ Written(r).credit = Value("credit") /\ Written(r).rating = Value("rating")
        /\ Written(r) = [status |-> Value("status"), email |-> row[a].email,
                         password |-> Value("password"), name |-> Value("name"),
                         credit |-> Value("credit"), rating |-> Value("rating")]
    BY DEF Written
  <1>4. row[a].email \in Email \cup {None}
    BY <1>1 DEF Row
  <1>5. /\ Value("credit") = IF "credit" \in co[r].stale THEN co[r].seen.credit
                             ELSE row[a].credit
        /\ Value("rating") = IF "rating" \in co[r].stale THEN co[r].seen.rating
                             ELSE row[a].rating
    OBVIOUS
  <1> HIDE DEF Value
  <1>6. Written(r) \in Row
    BY <1>2, <1>3, <1>4 DEF Row
  <1> QED
    BY <1>2, <1>3, <1>5, <1>6

\* What a save puts back.
LEMMA OverwrittenColumns ==
    ASSUME Inv, NEW r \in Request, At(r, "write")
    PROVE  /\ Overwrites(r) \subseteq Account \X Column
           /\ \A c \in {"credit", "rating"} :
                row[co[r].who][c] # co[r].base[c]
                /\ (c \in co[r].stale \/ co[r].seen[c] # co[r].base[c])
                  => <<co[r].who, c>> \in Overwrites(r)
  <1>1. co[r].who \in Account
    BY Known DEF At, Placed, SaveSteps
  <1> QED
    BY <1>1 DEF Overwrites, Column

LEMMA WriteRowKeepsInv ==
    ASSUME Inv, NEW r \in Request, WriteRow(r)
    PROVE  Inv'
  <1> DEFINE a == co[r].who
             y == co[r]
  <1>1. /\ co[r] \in Place /\ Placed(co[r]) /\ Booked(co[r]) /\ co \in [Request -> Place]
        /\ row \in [Account -> Row] /\ reused \subseteq Account
    BY Known
  <1>2. /\ At(r, "write") /\ y.op # "judge" /\ y # Idle /\ a \in Account
        /\ ~RowLocked(a, r)
        /\ UNCHANGED <<link, won, fined, token, expired, out, reused, calls, faults>>
    BY <1>1, Runs DEF WriteRow, At, Placed, sessions, SaveSteps
  <1>3. PICK new : new = Written(r)
    OBVIOUS
  <1>4. /\ row' = [row EXCEPT ![a] = new] /\ co' = [co EXCEPT ![r] = Idle]
        /\ overwritten' = overwritten \cup Overwrites(r)
    BY <1>3 DEF WriteRow, Finish
  <1>5. /\ new \in Row /\ new.status # "none"
        /\ new.credit = IF "credit" \in y.stale THEN y.seen.credit ELSE row[a].credit
        /\ new.rating = IF "rating" \in y.stale THEN y.seen.rating ELSE row[a].rating
    BY <1>2, <1>3, WrittenRow
  <1>6. /\ row' \in [Account -> Row] /\ row'[a] = new
        /\ \A b \in Account \ {a} : row'[b] = row[b]
    BY <1>1, <1>2, <1>4, <1>5
  <1>7. /\ y.seen.credit = y.base.credit /\ y.seen.rating = y.base.rating
    BY <1>1, <1>2 DEF Booked, Saving, At, SaveSteps, Place, Row
  <1>8. /\ new.credit = row[a].credit \/ <<a, "credit">> \in overwritten'
        /\ new.rating = row[a].rating \/ <<a, "rating">> \in overwritten'
    BY <1>2, <1>4, <1>5, <1>7, OverwrittenColumns
  <1>9. overwritten' \subseteq Account \X Column
    BY <1>2, <1>4, OverwrittenColumns DEF Inv, TypeOK
  <1>10. \A o \in Request : co'[o] = IF o = r THEN Idle ELSE co[o]
    BY <1>1, <1>4
  <1>11. TypeOK'
    BY <1>1, <1>2, <1>4, <1>6, <1>9, IdleFits DEF Inv, TypeOK
  <1>12. \A o \in Request : Placed(co[o])'
    BY <1>10, IdleClaimsNothing DEF Inv, Placed
  <1>13. Sessions'
    BY <1>2, <1>4, IdleFits, SessionsStay DEF Presents, TokenSteps
  <1>14. LedgerHolds'
    BY <1>2, <1>4, <1>6, <1>8 DEF Inv, Ledger, LedgerHolds
  <1>15. row[a].credit \in Nat /\ new.credit \in Nat
    BY <1>1, <1>2, <1>5 DEF Row
  <1>16. \A b \in Account : row'[b] # row[b] =>
            /\ ~RowLocked(b, r)
            /\ row[b].status # "none" => row'[b].status # "none"
            /\ row[b].credit <= row'[b].credit \/ <<b, "credit">> \in overwritten'
    BY <1>2, <1>5, <1>6, <1>8, <1>15
  <1>17. Ledger'
    BY <1>4, <1>6, <1>14, <1>16, IdleFits, IdleClaimsNothing, RowsChange DEF SaveSteps
  <1> QED
    BY <1>11, <1>12, <1>13, <1>17 DEF Inv

-----------------------------------------------------------------------------
(* completeJudgment *)

LEMMA FindFinedKeepsInv ==
    ASSUME Inv, NEW r \in Request, FindFined(r)
    PROVE  Inv'
  <1> DEFINE y == co[r]
             a == Head(y.todo)
  <1>1. /\ y \in Place /\ Placed(y) /\ Saving(y) /\ Sides(y) /\ Drafted(y)
        /\ co \in [Request -> Place] /\ row \in [Account -> Row]
        /\ reused \subseteq Account
    BY Known DEF Booked
  <1>2. /\ y # Idle /\ y.step = "fine" /\ y.op = "judge" /\ y.todo # <<>>
        /\ y.todo \in Seq(Account)
        /\ UNCHANGED <<members, token, expired, out, reused, calls, faults>>
    BY <1>1, Runs DEF FindFined, At, Placed, sessions, Place
  <1>3. /\ a \in Account /\ a \notin y.fines
        /\ \/ Tail(y.todo) = <<>>
           \/ \E b \in Account \ y.fines : a # b /\ Tail(y.todo) = <<b>>
    <2>1. PICK h \in Account \ y.fines :
            y.todo = <<h>> \/ \E b \in Account \ y.fines : h # b /\ y.todo = <<h, b>>
      BY <1>1, <1>2 DEF Sides
    <2>2. CASE y.todo = <<h>>
      BY <2>2
    <2>3. ASSUME NEW b \in Account \ y.fines, h # b, y.todo = <<h, b>>
          PROVE  a = h /\ Tail(y.todo) = <<b>>
      BY <2>3
    <2> QED
      BY <2>1, <2>2, <2>3
  <1>4. Tail(y.todo) \in Seq(Account)
    BY <1>2
  <1>5. CASE row[a].status = "NORMAL"
    <2>1. row[a] \in Row
      BY <1>1, <1>3
    <2>2. PICK new : new = [row[a] EXCEPT !.credit = row[a].credit + 1]
      OBVIOUS
    <2>3. /\ new \in Row /\ new.status = "NORMAL" /\ new.rating = row[a].rating
          /\ new.credit = row[a].credit + 1
      BY <1>5, <2>1, <2>2 DEF Row
    <2>4. PICK x : x = [y EXCEPT !.who = a, !.base = row[a], !.step = "select",
                                 !.seen = new]
      OBVIOUS
    <2>5. co' = [co EXCEPT ![r] = x]
      BY <1>1, <1>5, <2>2, <2>4 DEF FindFined
    <2> HIDE DEF a
    <2>6. /\ x \in Place /\ x.step = "select" /\ x.who = a /\ x.op = "judge"
          /\ x.base = row[a] /\ x.seen = new /\ x.fines = y.fines /\ x.todo = y.todo
          /\ x.draft = y.draft /\ x.lost = y.lost /\ x.winner = y.winner
      BY <1>1, <1>2, <1>3, <2>1, <2>3, <2>4, ZenonT(30) DEF Place, Step
    <2>7. Placed(x)
      BY <1>3, <2>6 DEF Placed, TokenSteps, SaveSteps
    <2>8. Presents(x)'
      BY <2>6 DEF Presents, TokenSteps
    <2>9. Saving(x)
      BY <1>5, <2>3, <2>6 DEF Saving
    <2>10. Sides(x)
      BY <1>1, <1>2, <2>6 DEF Sides, a
    <2>11. Drafted(x)
      BY <1>1, <1>2, <2>6 DEF Drafted, Put
    <2>12. \A b \in Account : x.draft[b] # NoRow => Drafts(r, b)
      BY <2>6 DEF Drafts
    <2> QED
      BY <1>1, <1>2, <2>5, <2>6, <2>7, <2>8, <2>9, <2>10, <2>11, <2>12, MoveKeepsInv
         DEF Booked
  <1>6. CASE row[a].status # "NORMAL"
    <2>1. PICK x : x = [y EXCEPT !.todo = Tail(y.todo)]
      OBVIOUS
    <2>2. co' = [co EXCEPT ![r] = x]
      BY <1>1, <1>6, <2>1 DEF FindFined
    <2>3. /\ x \in Place /\ x.step = "fine" /\ x.op = "judge" /\ x.todo = Tail(y.todo)
          /\ x.fines = y.fines /\ x.draft = y.draft /\ x.lost = y.lost
          /\ x.winner = y.winner
      BY <1>1, <1>2, <1>4, <2>1 DEF Place
    <2>4. Placed(x)
      BY <2>3 DEF Placed, TokenSteps, SaveSteps
    <2>5. Presents(x)'
      BY <2>3 DEF Presents, TokenSteps
    <2>6. Saving(x)
      BY <2>3 DEF Saving, SaveSteps
    <2>7. Sides(x)
      BY <1>3, <2>3 DEF Sides, SaveSteps
    <2>8. Drafted(x)
      BY <1>1, <1>2, <2>3 DEF Drafted, Put
    <2>9. \A b \in Account : x.draft[b] # NoRow => Drafts(r, b)
      BY <2>3 DEF Drafts
    <2> QED
      BY <1>1, <1>2, <2>2, <2>3, <2>4, <2>5, <2>6, <2>7, <2>8, <2>9, MoveKeepsInv
         DEF Booked
  <1> QED
    BY <1>5, <1>6

LEMMA WriteFineKeepsInv ==
    ASSUME Inv, NEW r \in Request, WriteFine(r)
    PROVE  Inv'
  <1> DEFINE y == co[r]
             a == y.who
  <1>1. /\ y \in Place /\ Placed(y) /\ Saving(y) /\ Sides(y) /\ Drafted(y)
        /\ co \in [Request -> Place] /\ row \in [Account -> Row]
        /\ reused \subseteq Account
    BY Known DEF Booked
  <1>2. /\ y # Idle /\ y.step = "write" /\ y.op = "judge" /\ At(r, "write")
        /\ a \in Account
        /\ UNCHANGED <<members, token, expired, out, reused, calls, faults>>
    BY <1>1, Runs DEF WriteFine, At, Placed, sessions, SaveSteps
  <1>3. /\ a \notin y.fines
        /\ \/ Tail(y.todo) = <<>>
           \/ \E b \in Account \ y.fines : a # b /\ Tail(y.todo) = <<b>>
        /\ Tail(y.todo) \in Seq(Account)
    <2>1. y.todo # <<>> /\ a = Head(y.todo) /\ y.todo \in Seq(Account)
      BY <1>1, <1>2 DEF Sides, SaveSteps, Place
    <2>2. PICK h \in Account \ y.fines :
            y.todo = <<h>> \/ \E b \in Account \ y.fines : h # b /\ y.todo = <<h, b>>
      BY <1>1, <1>2, <2>1 DEF Sides
    <2>3. CASE y.todo = <<h>>
      BY <2>1, <2>3
    <2>4. ASSUME NEW b \in Account \ y.fines, h # b, y.todo = <<h, b>>
          PROVE  a = h /\ Tail(y.todo) = <<b>>
      BY <2>1, <2>4
    <2>5. Tail(y.todo) \in Seq(Account)
      BY <2>1
    <2> QED
      BY <2>1, <2>2, <2>3, <2>4, <2>5
  <1>4. y.draft[a] = NoRow
    BY <1>1, <1>2, <1>3 DEF Drafted
  <1>5. PICK new : new = IF y.stale = {} THEN NoRow ELSE Written(r)
    OBVIOUS
  <1>6. PICK L : L = y.lost \cup Overwrites(r)
    OBVIOUS
  <1>7. /\ Overwrites(r) \subseteq Account \X Column /\ y.lost \subseteq L
        /\ Overwrites(r) \subseteq L
        /\ L \in SUBSET (Account \X Column)
    BY <1>1, <1>2, <1>6, OverwrittenColumns DEF Place
  <1>8. /\ Written(r) \in Row /\ Written(r).status # "none"
        /\ Written(r).credit = IF "credit" \in y.stale THEN y.seen.credit
                               ELSE row[a].credit
        /\ Written(r).rating = IF "rating" \in y.stale THEN y.seen.rating
                               ELSE row[a].rating
    BY <1>2, WrittenRow
  <1>9. new \in Row
    BY <1>5, <1>8, NoRowFits
  <1>10. PICK x : x = [y EXCEPT !.draft = [y.draft EXCEPT ![a] = new], !.lost = L,
                                !.fines = y.fines \cup {a}, !.todo = Tail(y.todo),
                                !.step = "fine"]
    OBVIOUS
  <1>11. co' = [co EXCEPT ![r] = x]
    <2>1. [y.draft EXCEPT ![a] = IF y.stale = {} THEN y.draft[a] ELSE Written(r)]
            = [y.draft EXCEPT ![a] = new]
      BY <1>4, <1>5
    <2>2. co' = [co EXCEPT ![r].draft[a] = IF y.stale = {} THEN @ ELSE Written(r),
                           ![r].lost = @ \cup Overwrites(r),
                           ![r].fines = @ \cup {a}, ![r].todo = Tail(@),
                           ![r].step = "fine"]
      BY DEF WriteFine
    <2>3. co' = [co EXCEPT
                   ![r] = [y EXCEPT
                             !.draft = [y.draft EXCEPT ![a] = IF y.stale = {}
                                                              THEN y.draft[a]
                                                              ELSE Written(r)],
                             !.lost = y.lost \cup Overwrites(r),
                             !.fines = y.fines \cup {a}, !.todo = Tail(y.todo),
                             !.step = "fine"]]
      BY <1>1, <2>2 DEF Place
    <2> QED
      BY <1>6, <1>10, <2>1, <2>3
  <1>12. [y.draft EXCEPT ![a] = new] \in [Account -> Row]
    BY <1>1, <1>2, <1>9 DEF Place
  <1>13. /\ x \in Place /\ x.step = "fine" /\ x.op = "judge" /\ x.todo = Tail(y.todo)
         /\ x.fines = y.fines \cup {a} /\ x.lost = L /\ x.winner = y.winner
         /\ x.draft = [y.draft EXCEPT ![a] = new]
    <2>1. y.fines \cup {a} \in SUBSET Account
      BY <1>1, <1>2 DEF Place
    <2>2. PICK D, F, T : /\ D = [y.draft EXCEPT ![a] = new] /\ F = y.fines \cup {a}
                         /\ T = Tail(y.todo)
      OBVIOUS
    <2>3. /\ D \in [Account -> Row] /\ F \in SUBSET Account /\ T \in Seq(Account)
          /\ L \in SUBSET (Account \X Column)
      BY <1>3, <1>7, <1>12, <2>1, <2>2
    <2>4. x = [y EXCEPT !.draft = D, !.lost = L, !.fines = F, !.todo = T,
                        !.step = "fine"]
      BY <1>10, <2>2
    <2>5. /\ x \in Place /\ x.step = "fine" /\ x.op = y.op /\ x.todo = T
          /\ x.fines = F /\ x.lost = L /\ x.winner = y.winner /\ x.draft = D
      <3>1. PICK m : m = [y EXCEPT !.draft = D, !.lost = L]
        OBVIOUS
      <3>2. /\ m \in Place /\ m.draft = D /\ m.lost = L /\ m.op = y.op
            /\ m.winner = y.winner
        BY <1>1, <2>3, <3>1, ZenonT(30) DEF Place
      <3>3. x = [m EXCEPT !.fines = F, !.todo = T, !.step = "fine"]
        BY <1>1, <2>4, <3>1, ZenonT(30) DEF Place
      <3> QED
        BY <2>3, <3>2, <3>3, ZenonT(30) DEF Place, Step
    <2> QED
      BY <1>2, <2>2, <2>5
  <1>14. /\ x.draft[a] = new /\ \A b \in Account \ {a} : x.draft[b] = y.draft[b]
    BY <1>1, <1>2, <1>13 DEF Place
  <1>15. Placed(x)
    BY <1>13 DEF Placed, TokenSteps, SaveSteps
  <1>16. Presents(x)'
    BY <1>13 DEF Presents, TokenSteps
  <1>17. Saving(x)
    BY <1>13 DEF Saving, SaveSteps
  <1>18. Sides(x)
    BY <1>3, <1>13 DEF Sides, SaveSteps
  <1>19. /\ row[a].status # "none" /\ y.seen.rating = y.base.rating
         /\ y.seen.credit = y.base.credit + 1
         /\ "credit" \notin y.stale =>
              Put(y, a, "credit") \/ y.seen.credit <= row[a].credit
    BY <1>1, <1>2 DEF Saving, SaveSteps
  <1>20. /\ y.seen.credit \in Nat /\ y.base.credit \in Nat /\ row[a].credit \in Nat
    BY <1>1, <1>2 DEF Place, Row
  <1>21. \A b, c : Put(y, b, c) => Put(x, b, c)
    BY <1>7, <1>13 DEF Put
  <1>22. row[a].credit # y.base.credit => Put(x, a, "credit")
    <2>1. y.seen.credit # y.base.credit
      BY <1>19, <1>20
    <2>2. row[a].credit # y.base.credit => <<a, "credit">> \in Overwrites(r)
      BY <1>2, <2>1, OverwrittenColumns
    <2> QED
      BY <1>7, <1>13, <2>2 DEF Put
  <1>23. "credit" \notin y.stale => Put(x, a, "credit")
    BY <1>19, <1>20, <1>21, <1>22
  <1>24. new # NoRow =>
           /\ new.status # "none"
           /\ new.credit = row[a].credit + 1 \/ Put(x, a, "credit")
           /\ new.rating = row[a].rating \/ Put(x, a, "rating")
    <2>1. row[a].rating # y.base.rating /\ "rating" \in y.stale => Put(x, a, "rating")
      BY <1>2, <1>7, <1>13, OverwrittenColumns DEF Put
    <2>2. row[a].rating \in Nat
      BY <1>1, <1>2 DEF Row
    <2> QED
      BY <1>5, <1>8, <1>19, <1>22, <1>23, <2>1
  <1>25. new = NoRow => Put(x, a, "credit")
    BY <1>5, <1>8, <1>23, NoRowFits
  <1>26. Drafted(x)
    <2> SUFFICES ASSUME NEW b \in Account
                 PROVE  /\ b \in x.fines /\ x.draft[b] = NoRow => Put(x, b, "credit")
                        /\ x.draft[b] # NoRow =>
                             /\ b \in x.fines
                             /\ row[b].status # "none" /\ x.draft[b].status # "none"
                             /\ \/ x.draft[b].credit
                                     = row[b].credit + (IF b \in x.fines THEN 1 ELSE 0)
                                \/ Put(x, b, "credit")
                             /\ \/ x.draft[b].rating = row[b].rating + 0
                                \/ Put(x, b, "rating")
      BY <1>13 DEF Drafted
    <2>1. row[b].rating \in Nat
      BY <1>1 DEF Row
    <2>2. CASE b = a
      BY <1>13, <1>14, <1>19, <1>24, <1>25, <2>1, <2>2
    <2>3. CASE b # a
      BY <1>1, <1>2, <1>13, <1>14, <1>21, <2>1, <2>3 DEF Drafted
    <2> QED
      BY <2>2, <2>3
  <1>27. \A b \in Account : x.draft[b] # NoRow => Drafts(r, b) \/ ~RowLocked(b, r)
    <2>1. new # NoRow => ~RowLocked(a, r)
      BY <1>5 DEF WriteFine
    <2> QED
      BY <1>14, <2>1 DEF Drafts
  <1> QED
    BY <1>1, <1>2, <1>11, <1>13, <1>15, <1>16, <1>17, <1>18, <1>26, <1>27, MoveKeepsInv
       DEF Booked

LEMMA RewardKeepsInv ==
    ASSUME Inv, NEW r \in Request, Reward(r)
    PROVE  Inv'
  <1> DEFINE y == co[r]
             a == y.winner
  <1>1. /\ y \in Place /\ Placed(y) /\ Saving(y) /\ Sides(y) /\ Drafted(y)
        /\ co \in [Request -> Place] /\ row \in [Account -> Row]
        /\ reused \subseteq Account
    BY Known DEF Booked
  <1>2. /\ y # Idle /\ y.step = "fine" /\ y.op = "judge" /\ y.todo = <<>>
        /\ a \in Account \cup {None}
        /\ UNCHANGED <<members, token, expired, out, reused, calls, faults>>
    BY <1>1, Runs DEF Reward, At, Placed, sessions, Place
  <1>3. ASSUME NEW x \in Place, co' = [co EXCEPT ![r] = x], x.step = "commit",
               x.op = "judge", x.todo = <<>>, x.fines = y.fines, x.lost = y.lost,
               x.winner = None, x.draft = y.draft
        PROVE  Inv'
    <2>1. Placed(x) /\ Presents(x)'
      BY <1>3 DEF Placed, Presents, TokenSteps, SaveSteps
    <2>2. Saving(x) /\ Sides(x)
      BY <1>3 DEF Saving, Sides, SaveSteps
    <2>3. Drafted(x)
      BY <1>1, <1>2, <1>3, Constants DEF Drafted, Put
    <2>4. \A b \in Account : x.draft[b] # NoRow => Drafts(r, b)
      BY <1>3 DEF Drafts
    <2> QED
      BY <1>1, <1>2, <1>3, <2>1, <2>2, <2>3, <2>4, MoveKeepsInv DEF Booked
  <1>4. CASE a = None /\ Goto(r, "commit")
    <2>1. PICK x : x = [y EXCEPT !.step = "commit"]
      OBVIOUS
    <2>2. /\ x \in Place /\ co' = [co EXCEPT ![r] = x] /\ x.step = "commit"
          /\ x.op = "judge" /\ x.todo = <<>> /\ x.fines = y.fines /\ x.lost = y.lost
          /\ x.winner = None /\ x.draft = y.draft
      <3>1. co' = [co EXCEPT ![r] = x]
        BY <1>1, <1>4, <2>1 DEF Goto
      <3>2. /\ x \in Place /\ x.step = "commit" /\ x.op = y.op /\ x.todo = y.todo
            /\ x.fines = y.fines /\ x.lost = y.lost /\ x.winner = y.winner
            /\ x.draft = y.draft
        BY <1>1, <2>1, ZenonT(30) DEF Place, Step
      <3> QED
        BY <1>2, <1>4, <3>1, <3>2
    <2> QED
      BY <1>3, <2>2
  <1>5. CASE co' = [co EXCEPT ![r].step = "commit", ![r].winner = None]
    <2>1. PICK x : x = [y EXCEPT !.step = "commit", !.winner = None]
      OBVIOUS
    <2>2. /\ x \in Place /\ co' = [co EXCEPT ![r] = x] /\ x.step = "commit"
          /\ x.op = "judge" /\ x.todo = <<>> /\ x.fines = y.fines /\ x.lost = y.lost
          /\ x.winner = None /\ x.draft = y.draft
      BY <1>1, <1>2, <1>5, <2>1, ZenonT(30) DEF Place, Step
    <2> QED
      BY <1>3, <2>2
  <1>6. CASE /\ a # None /\ ~RowLocked(a, r) /\ View(r, a).status = "NORMAL"
             /\ co' = [co EXCEPT ![r].step = "commit",
                                 ![r].draft[a] = [View(r, a) EXCEPT !.rating = @ + 1]]
    <2>1. a \in Account
      BY <1>2, <1>6
    <2>2. PICK v : v = View(r, a)
      OBVIOUS
    <2>3. /\ v \in Row /\ v.status = "NORMAL"
          /\ v = IF y.draft[a] # NoRow THEN y.draft[a] ELSE row[a]
      BY <1>1, <1>6, <2>1, <2>2 DEF View, Drafts, Place
    <2>4. PICK new : new = [v EXCEPT !.rating = v.rating + 1]
      OBVIOUS
    <2>5. /\ new \in Row /\ new.status = "NORMAL" /\ new.credit = v.credit
          /\ new.rating = v.rating + 1 /\ new # NoRow
      <3>1. v \in Row /\ v.status = "NORMAL"
        BY <2>3
      <3>2. new \in Row /\ new.status = "NORMAL" /\ new.credit = v.credit
            /\ new.rating = v.rating + 1
        BY <2>4, <3>1 DEF Row
      <3> QED
        BY <3>2, NoRowFits
    <2>6. PICK x : x = [y EXCEPT !.step = "commit",
                                 !.draft = [y.draft EXCEPT ![a] = new]]
      OBVIOUS
    <2>7. co' = [co EXCEPT ![r] = x]
      BY <1>1, <1>6, <2>2, <2>4, <2>6 DEF Place
    <2>8. [y.draft EXCEPT ![a] = new] \in [Account -> Row]
      BY <1>1, <2>1, <2>5 DEF Place
    <2>9. /\ x \in Place /\ x.step = "commit" /\ x.op = "judge" /\ x.todo = <<>>
          /\ x.fines = y.fines /\ x.lost = y.lost /\ x.winner = a
          /\ x.draft = [y.draft EXCEPT ![a] = new]
      BY <1>1, <1>2, <2>6, <2>8, ZenonT(30) DEF Place, Step
    <2>10. x.draft[a] = new /\ \A b \in Account \ {a} : x.draft[b] = y.draft[b]
      BY <1>1, <2>1, <2>9 DEF Place
    <2>11. Placed(x) /\ Presents(x)'
      BY <2>9 DEF Placed, Presents, TokenSteps, SaveSteps
    <2>12. Saving(x) /\ Sides(x)
      BY <2>9 DEF Saving, Sides, SaveSteps
    <2>13. \A b, c : Put(x, b, c) <=> Put(y, b, c)
      BY <2>9 DEF Put
    <2>14. \A b \in Account : /\ row[b].credit \in Nat /\ row[b].rating \in Nat
      BY <1>1 DEF Row
    <2>15. v.rating \in Nat /\ v.credit \in Nat
      BY <2>3 DEF Row
    <2>16. /\ row[a].status # "none"
           /\ v.credit = row[a].credit + (IF a \in y.fines THEN 1 ELSE 0)
              \/ Put(y, a, "credit")
           /\ v.rating = row[a].rating \/ Put(y, a, "rating")
      <3>1. CASE y.draft[a] # NoRow
        BY <1>1, <1>2, <2>1, <2>3, <2>14, <3>1 DEF Drafted
      <3>2. CASE y.draft[a] = NoRow
        BY <1>1, <1>2, <2>1, <2>3, <2>14, <3>2 DEF Drafted
      <3> QED
        BY <3>1, <3>2
    <2>17. Drafted(x)
      <3> SUFFICES ASSUME NEW b \in Account
                   PROVE  /\ b \in x.fines /\ x.draft[b] = NoRow => Put(x, b, "credit")
                          /\ a = b => x.draft[b] # NoRow
                          /\ x.draft[b] # NoRow =>
                             /\ row[b].status # "none" /\ x.draft[b].status # "none"
                             /\ \/ x.draft[b].credit
                                     = row[b].credit + (IF b \in x.fines THEN 1 ELSE 0)
                                \/ Put(x, b, "credit")
                             /\ \/ x.draft[b].rating
                                     = row[b].rating + (IF a = b THEN 1 ELSE 0)
                                \/ Put(x, b, "rating")
        BY <2>9 DEF Drafted
      <3>1. CASE b = a
        BY <2>5, <2>9, <2>10, <2>13, <2>15, <2>16, <3>1
      <3>2. CASE b # a
        BY <1>1, <1>2, <2>9, <2>10, <2>13, <2>14, <3>2 DEF Drafted
      <3> QED
        BY <3>1, <3>2
    <2>18. \A b \in Account : x.draft[b] # NoRow => Drafts(r, b) \/ ~RowLocked(b, r)
      BY <1>6, <2>10 DEF Drafts
    <2> QED
      BY <1>1, <1>2, <2>7, <2>9, <2>11, <2>12, <2>17, <2>18, MoveKeepsInv DEF Booked
  <1> QED
    BY <1>4, <1>5, <1>6 DEF Reward

LEMMA CommitKeepsInv ==
    ASSUME Inv, NEW r \in Request, Commit(r)
    PROVE  Inv'
  <1> DEFINE y == co[r]
  <1>1. /\ y \in Place /\ Placed(y) /\ Drafted(y)
        /\ co \in [Request -> Place] /\ row \in [Account -> Row]
        /\ reused \subseteq Account
    BY Known DEF Booked
  <1>2. /\ y # Idle /\ y.step = "commit" /\ y.op = "judge"
        /\ UNCHANGED <<link, token, expired, out, reused, calls, faults>>
        /\ co' = [co EXCEPT ![r] = Idle]
        /\ overwritten' = overwritten \cup y.lost
    BY <1>1, Runs DEF Commit, At, Placed, sessions, Finish
  <1>3. \A b \in Account :
          row'[b] = IF y.draft[b] # NoRow THEN y.draft[b] ELSE row[b]
    BY DEF Commit, View, Drafts
  <1>4. row' \in [Account -> Row]
    <2>1. \A b \in Account : View(r, b) \in Row
      BY <1>1 DEF View, Drafts, Place
    <2> QED
      BY <2>1 DEF Commit
  <1>5. /\ won' \in [Account -> Nat] /\ fined' \in [Account -> Nat]
        /\ \A b \in Account :
             /\ won'[b] = won[b] + (IF b = y.winner THEN 1 ELSE 0)
             /\ fined'[b] = fined[b] + (IF b \in y.fines THEN 1 ELSE 0)
    BY DEF Commit, Inv, TypeOK
  <1>6. \A b, c : Put(y, b, c) <=> <<b, c>> \in overwritten'
    BY <1>2 DEF Put
  <1>7. overwritten' \subseteq Account \X Column
    BY <1>1, <1>2 DEF Inv, TypeOK, Place
  <1>8. TypeOK'
    BY <1>1, <1>2, <1>4, <1>5, <1>7, IdleFits DEF Inv, TypeOK
  <1>9. \A o \in Request : co'[o] = IF o = r THEN Idle ELSE co[o]
    BY <1>1, <1>2
  <1>10. \A o \in Request : Placed(co[o])'
    BY <1>9, IdleClaimsNothing DEF Inv, Placed
  <1>11. Sessions'
    BY <1>2, IdleFits, SessionsStay DEF Presents, TokenSteps
  <1>12. \A b \in Account : /\ row[b].credit \in Nat /\ row[b].rating \in Nat
                            /\ won[b] \in Nat /\ fined[b] \in Nat
    BY <1>1 DEF Row, Inv, TypeOK
  <1>13. ASSUME NEW b \in Account
         PROVE  /\ row'[b].credit = row[b].credit + (IF b \in y.fines THEN 1 ELSE 0)
                   \/ <<b, "credit">> \in overwritten'
                /\ row'[b].rating = row[b].rating + (IF b = y.winner THEN 1 ELSE 0)
                   \/ <<b, "rating">> \in overwritten'
                /\ row'[b] # row[b] => row'[b].status # "none" /\ y.draft[b] # NoRow
    <2>1. CASE y.draft[b] # NoRow
      BY <1>1, <1>2, <1>3, <1>6, <2>1 DEF Drafted
    <2>2. CASE y.draft[b] = NoRow
      BY <1>1, <1>2, <1>3, <1>6, <1>12, <2>2 DEF Drafted
    <2> QED
      BY <2>1, <2>2
  <1>14. LedgerHolds'
    <2> SUFFICES ASSUME NEW b \in Account
                 PROVE  /\ row'[b].rating = won'[b] \/ <<b, "rating">> \in overwritten'
                        /\ row'[b].credit = fined'[b] \/ <<b, "credit">> \in overwritten'
      BY DEF LedgerHolds
    <2>1. /\ row[b].rating = won[b] \/ <<b, "rating">> \in overwritten'
          /\ row[b].credit = fined[b] \/ <<b, "credit">> \in overwritten'
      BY <1>2 DEF Inv, Ledger, LedgerHolds
    <2> QED
      BY <1>5, <1>13, <2>1
  <1>15. \A b \in Account : y.draft[b] # NoRow => ~RowLocked(b, r)
    BY DEF Inv, Ledger, DraftsApart, RowLocked, Drafts
  <1>16. \A b \in Account : row'[b] # row[b] =>
            /\ ~RowLocked(b, r)
            /\ row[b].status # "none" => row'[b].status # "none"
            /\ row[b].credit <= row'[b].credit \/ <<b, "credit">> \in overwritten'
    <2>1. \A b \in Account : row[b].credit <= row'[b].credit
                              \/ <<b, "credit">> \in overwritten'
      <3> SUFFICES ASSUME NEW b \in Account, <<b, "credit">> \notin overwritten'
                   PROVE  row[b].credit <= row'[b].credit
        OBVIOUS
      <3>1. row'[b].credit = row[b].credit + 1 \/ row'[b].credit = row[b].credit + 0
        BY <1>13
      <3> QED
        BY <1>12, <3>1
    <2> QED
      BY <1>13, <1>15, <2>1
  <1>17. Ledger'
    BY <1>2, <1>4, <1>14, <1>16, IdleFits, IdleClaimsNothing, RowsChange DEF SaveSteps
  <1> QED
    BY <1>8, <1>10, <1>11, <1>17 DEF Inv

-----------------------------------------------------------------------------
(* Theorems *)

LEMMA NextKeepsInv == Inv /\ [Next]_vars => Inv'
  <1> SUFFICES ASSUME Inv, [Next]_vars PROVE Inv'
    OBVIOUS
  <1>1. ASSUME NEW r \in Request, Continue(r) PROVE Inv'
    BY <1>1, EnrollKeepsInv, SignInKeepsInv, LinkAccountKeepsInv, PersistKeepsInv,
       RefreshKeepsInv, ReplaceKeepsInv, RevokeKeepsInv, FindOwnKeepsInv,
       SelectRowKeepsInv, WriteRowKeepsInv, FindFinedKeepsInv, WriteFineKeepsInv,
       RewardKeepsInv, CommitKeepsInv, AbortKeepsInv
       DEF Continue
  <1>2. ASSUME NEW r \in Request, Arrive(r) \/ QueryFails(r) PROVE Inv'
    BY <1>2, ArriveKeepsInv, AbortKeepsInv
  <1>3. CASE Crash \/ \E t \in Token : Expire(t)
    BY <1>3, CrashKeepsInv, ExpireKeepsInv
  <1>4. CASE UNCHANGED vars
    <2>1. UNCHANGED <<row, link, won, fined, overwritten, token, expired, out, reused, co,
                      calls, faults>>
      BY <1>4 DEF vars, members, sessions
    <2>2. TypeOK' /\ \A r \in Request : Placed(co[r])'
      BY <2>1 DEF Inv, TypeOK, Placed
    <2> QED
      BY <2>1, <2>2, Unmoved DEF Inv
  <1> QED
    BY <1>1, <1>2, <1>3, <1>4 DEF Next

LEMMA InvHolds == Spec => []Inv
  BY InitInv, NextKeepsInv, PTL DEF Spec

\* Every variable keeps its type: the rows, the tokens, and what a coroutine
\* carries from one await to the next; a token is left for each call that runs.
THEOREM AccountTypes == Spec => []TypeOK
  <1>1. Inv => TypeOK
    BY DEF Inv
  <1> QED
    BY <1>1, InvHolds, PTL

\* rotate: a session has one active token at most, for any number of requests
\* that present its tokens at a time, and through crashes and expiries.
THEOREM OneActive == Spec => []OneActiveToken
  <1>1. Inv => OneActiveToken
    BY DEF Inv, Sessions
  <1> QED
    BY <1>1, InvHolds, PTL

\* findRotatableOrThrow, revoke, revokeAllForMember: no session ends but by its
\* logout or a reused token of its member.
THEOREM EndsForAReason == Spec => []SessionsEndForAReason
  <1>1. Inv => SessionsEndForAReason
    BY DEF Inv, Sessions
  <1> QED
    BY <1>1, InvHolds, PTL

\* completeJudgment: credit and rating are what the committed judgments say, for
\* any number of judgments of any members, but for columns a save has put back.
THEOREM LedgerIsRight == Spec => []LedgerHolds
  <1>1. Inv => LedgerHolds
    BY DEF Inv, Ledger
  <1> QED
    BY <1>1, InvHolds, PTL
================================================================================
