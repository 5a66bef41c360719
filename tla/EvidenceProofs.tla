----------------------------- MODULE EvidenceProofs -----------------------------
(***************************************************************************)
(* What the evidence and the judgment made of it guarantee, for every      *)
(* number of turns, components, replies and attempts, and through every    *)
(* timeout, crash and failing call.                                        *)
(*                                                                         *)
(* The first part is the arithmetic of VerdictRules.  The second is the    *)
(* invariant of Evidence.  Of its properties only VerdictIsFair is         *)
(* inductive; the others need what an attempt that is still in time may    *)
(* rely on: that its task is PROCESSING (Holding) and no other such        *)
(* attempt has it (OneInTime), that ids are used once (FreshIds) and that  *)
(* the rows it is about to delete are all the turn has (Current).  A       *)
(* component that waits for its task is on the list of the attempt that    *)
(* inserted it, or the next attempt will delete it (Listed).  Nothing      *)
(* writes what was at rest when the JUDGE task was made (AtRest), and so   *)
(* the queries of a judgment find it as it is (JudgmentReads).             *)
(***************************************************************************)
EXTENDS Evidence, TLAPS, FiniteSetTheorems

\* A scaled position, without the division.
LEMMA ScaleBounds ==
    ASSUME NEW position \in Position
    PROVE  /\ Clamped(position) \in Int
           /\ 0 <= Clamped(position) /\ Clamped(position) <= 400
           /\ ToHundredScale(position) \in Int
           /\ 4 * ToHundredScale(position) <= Clamped(position) + 2
           /\ Clamped(position) + 2 < 4 * ToHundredScale(position) + 4
<1>1. /\ Clamped(position) \in Int
      /\ 0 <= Clamped(position) /\ Clamped(position) <= 400
  BY DEF Clamped, Top, Position
<1>2. ToHundredScale(position) = (Clamped(position) + 2) \div 4
  BY <1>1 DEF ToHundredScale, MinScore
<1>3. QED
  BY <1>1, <1>2

(***************************************************************************)
(* toHundredScale always gives an integer of 0..100: with this scorer the  *)
(* range check of validateJudgment can never reject a reply.               *)
(***************************************************************************)
THEOREM ScaleInRange ==
    ASSUME NEW position \in Position
    PROVE  ToHundredScale(position) \in Score
BY ScaleBounds DEF Score, MinScore, MaxScore

(***************************************************************************)
(* A position further up never scores less.                                *)
(***************************************************************************)
THEOREM ScaleMonotone ==
    ASSUME NEW p \in Position, NEW q \in Position, p <= q
    PROVE  ToHundredScale(p) <= ToHundredScale(q)
<1>1. Clamped(p) <= Clamped(q)
  BY DEF Clamped, Top, Position
<1>2. /\ Clamped(p) \in Int /\ ToHundredScale(p) \in Int
      /\ 4 * ToHundredScale(p) <= Clamped(p) + 2
  BY ScaleBounds
<1>3. /\ Clamped(q) \in Int /\ ToHundredScale(q) \in Int
      /\ Clamped(q) + 2 < 4 * ToHundredScale(q) + 4
  BY ScaleBounds
<1>4. 4 * ToHundredScale(p) < 4 * ToHundredScale(q) + 4
  BY <1>1, <1>2, <1>3
<1>5. QED
  BY <1>2, <1>3, <1>4

\* The total is a nearest integer of the weighted mean.
LEMMA TotalIsNearest ==
    ASSUME NEW s \in SideScores
    PROVE  /\ CalculateTotalScore(s) \in Int
           /\ 10 * CalculateTotalScore(s) - Weighted(s) \in -5..5
<1>1. Weighted(s) \in Int
  <2>1. /\ s["argumentation"] \in Int /\ s["interaction"] \in Int
        /\ s["factualReliability"] \in Int
    BY DEF SideScores, Axis, Score, MinScore, MaxScore
  <2>2. QED
    BY <2>1 DEF Weighted
<1>2. CASE Weighted(s) % 10 = 5 /\ s \in RoundsDown
  <2>1. CalculateTotalScore(s) = Weighted(s) \div 10
    BY <1>2 DEF CalculateTotalScore
  <2>2. Weighted(s) = 10 * (Weighted(s) \div 10) + 5
    BY <1>1, <1>2
  <2>3. QED
    BY <1>1, <2>1, <2>2
<1>3. CASE ~(Weighted(s) % 10 = 5 /\ s \in RoundsDown)
  <2>1. CalculateTotalScore(s) = (Weighted(s) + 5) \div 10
    BY <1>3 DEF CalculateTotalScore
  <2>2. QED
    BY <1>1, <2>1
<1>4. QED
  BY <1>2, <1>3

(***************************************************************************)
(* A total lies between the lowest and the highest of its three scores:    *)
(* the weights sum to one, and rounding never leaves that interval.        *)
(***************************************************************************)
THEOREM TotalWithinScores ==
    ASSUME NEW s \in SideScores, NEW low \in Int, NEW high \in Int,
           \A x \in Axis : low <= s[x] /\ s[x] <= high
    PROVE  low <= CalculateTotalScore(s) /\ CalculateTotalScore(s) <= high
<1>1. /\ s["argumentation"] \in Int /\ s["interaction"] \in Int
      /\ s["factualReliability"] \in Int
      /\ low <= s["argumentation"] /\ s["argumentation"] <= high
      /\ low <= s["interaction"] /\ s["interaction"] <= high
      /\ low <= s["factualReliability"] /\ s["factualReliability"] <= high
  BY DEF SideScores, Axis, Score, MinScore, MaxScore
<1>2. 10 * low <= Weighted(s) /\ Weighted(s) <= 10 * high
  BY <1>1 DEF Weighted
<1>3. QED
  BY <1>2, <1>1, TotalIsNearest DEF Weighted

(***************************************************************************)
(* A side that scored at least as much on every axis never has the lower   *)
(* total, so it never loses, however exact halves are rounded.             *)
(***************************************************************************)
THEOREM BetterNeverLoses ==
    ASSUME NEW s \in SideScores, NEW r \in SideScores, AtLeast(s, r)
    PROVE  /\ CalculateTotalScore(s) >= CalculateTotalScore(r)
           /\ DecideWinner(CalculateTotalScore(s), CalculateTotalScore(r)) # "SIDE_B"
           /\ DecideWinner(CalculateTotalScore(r), CalculateTotalScore(s)) # "SIDE_A"
<1>1. CalculateTotalScore(s) >= CalculateTotalScore(r)
  <2>1. CASE s = r
    BY <2>1, TotalIsNearest
  <2>2. CASE s # r
    <3>1. \E x \in Axis : s[x] # r[x]
      BY <2>2 DEF SideScores
    <3>2. \A x \in Axis : s[x] \in Int /\ r[x] \in Int /\ s[x] >= r[x]
      BY DEF AtLeast, SideScores, Score, MinScore, MaxScore
    <3>3. /\ s["argumentation"] \in Int /\ r["argumentation"] \in Int
          /\ s["interaction"] \in Int /\ r["interaction"] \in Int
          /\ s["factualReliability"] \in Int /\ r["factualReliability"] \in Int
          /\ s["argumentation"] >= r["argumentation"]
          /\ s["interaction"] >= r["interaction"]
          /\ s["factualReliability"] >= r["factualReliability"]
      BY <3>2 DEF Axis
    <3>4. \/ s["argumentation"] # r["argumentation"]
          \/ s["interaction"] # r["interaction"]
          \/ s["factualReliability"] # r["factualReliability"]
      BY <3>1 DEF Axis
    <3>5. /\ Weighted(s) \in Int /\ Weighted(r) \in Int
          /\ Weighted(s) >= Weighted(r) + 3
      <4>1. \A a, b, c, x, y, z \in Int :
              /\ a >= x /\ b >= y /\ c >= z
              /\ a # x \/ b # y \/ c # z
              => 4 * a + 3 * b + 3 * c >= 4 * x + 3 * y + 3 * z + 3
        OBVIOUS
      <4>2. /\ Weighted(s) \in Int
            /\ Weighted(r) \in Int
        BY <3>3 DEF Weighted
      <4>3. QED
        BY <3>3, <3>4, <4>1, <4>2 DEF Weighted
    <3>6. QED
      BY <3>5, TotalIsNearest DEF CalculateTotalScore
  <2>3. QED
    BY <2>1, <2>2
<1>2. QED
  BY <1>1, TotalIsNearest DEF DecideWinner

(***************************************************************************)
(* Swapping the sides swaps the winner, and only equal totals are a draw.  *)
(***************************************************************************)
THEOREM WinnerMirrored ==
    ASSUME NEW a \in Int, NEW b \in Int
    PROVE  /\ DecideWinner(a, b) = "DRAW" <=> a = b
           /\ DecideWinner(a, b) = "SIDE_A" <=> DecideWinner(b, a) = "SIDE_B"
BY DEF DecideWinner

(***************************************************************************)
(* A penalty is never negative, and zero only without violations: a        *)
(* judgment never adds credit, and takes some for every violation kept.    *)
(***************************************************************************)
THEOREM PenaltySign ==
    ASSUME NEW v \in [Severity -> Nat]
    PROVE  /\ ToSocialCreditPenalty(v) \in Nat
           /\ ToSocialCreditPenalty(v) = 0 <=> \A x \in Severity : v[x] = 0
<1>1. /\ v["minor"] \in Nat /\ v["moderate"] \in Nat
      /\ v["high"] \in Nat /\ v["severe"] \in Nat
  BY DEF Severity
<1>2. /\ SocialCreditPenalty["minor"] = 1 /\ SocialCreditPenalty["moderate"] = 3
      /\ SocialCreditPenalty["high"] = 7 /\ SocialCreditPenalty["severe"] = 15
  BY DEF SocialCreditPenalty, Severity
<1>3. ToSocialCreditPenalty(v)
        = v["minor"] + 3 * v["moderate"] + 7 * v["high"] + 15 * v["severe"]
  BY <1>1, <1>2 DEF ToSocialCreditPenalty
<1>4. ToSocialCreditPenalty(v) \in Nat
  BY <1>1, <1>3
<1>5. ToSocialCreditPenalty(v) = 0
        <=> /\ v["minor"] = 0 /\ v["moderate"] = 0
            /\ v["high"] = 0 /\ v["severe"] = 0
  <2>1. CASE v["minor"] > 0
    BY <1>1, <1>3, <2>1
  <2>2. CASE v["moderate"] > 0
    BY <1>1, <1>3, <2>2
  <2>3. CASE v["high"] > 0
    BY <1>1, <1>3, <2>3
  <2>4. CASE v["severe"] > 0
    BY <1>1, <1>3, <2>4
  <2>5. CASE /\ v["minor"] = 0 /\ v["moderate"] = 0
             /\ v["high"] = 0 /\ v["severe"] = 0
    BY <1>3, <2>5
  <2>6. QED
    BY <1>1, <2>1, <2>2, <2>3, <2>4, <2>5
<1>6. (\A x \in Severity : v[x] = 0)
        <=> /\ v["minor"] = 0 /\ v["moderate"] = 0
            /\ v["high"] = 0 /\ v["severe"] = 0
  BY DEF Severity
<1>7. QED
  BY <1>4, <1>5, <1>6
-----------------------------------------------------------------------------
(* The invariant *)

\* An attempt is free, or it has a task of the kind its step belongs to.  Only a
\* late one has a task that may not be PROCESSING.
Holding ==
    \A a \in Attempt :
        /\ pc[a] = "free" <=> task[a] = None
        /\ pc[a] \in {"replace", "schedule"} => task[a] \in Turn
        /\ pc[a] = "save" => task[a] \in Id
        /\ pc[a] \in {"factChecks", "relations"} => task[a] = DebateId
        /\ a \in late => task[a] \in overrun
        /\ task[a] # None => taskStatus[task[a]] # "ABSENT"
        /\ task[a] # None /\ a \notin late => taskStatus[task[a]] = "PROCESSING"

\* Two attempts that are in time have different tasks.
OneInTime ==
    \A a, b \in Attempt :
        task[a] = task[b] /\ task[a] # None /\ a \notin late /\ b \notin late => a = b

\* An id no row was inserted with yet is nowhere.
FreshIds ==
    \A c \in Id :
        turnOf[c] = 0 => c \notin components \cup needsFactCheck
                         /\ taskStatus[c] = "ABSENT"

\* What an analysis knows of earlier turns, deletes, and has to schedule.
OwnTurn ==
    \A a \in Attempt :
        /\ task[a] \in Turn =>
             \A c \in read[a].components : turnOf[c] \in 1..(task[a] - 1)
        /\ \A c \in previous[a] \cup todo[a] : turnOf[c] = task[a] /\ task[a] \in Turn
        /\ todo[a] # {} => pc[a] = "schedule"

\* The rows a transaction has read to delete are all its turn has.
Current ==
    \A a \in Attempt :
        pc[a] = "replace" /\ task[a] \notin overrun =>
            previous[a] = {c \in components : turnOf[c] = task[a]}

\* A check that is done has its row.
Saved ==
    \A a \in Attempt :
        pc[a] = "ok" /\ task[a] \in components \ overrun => task[a] \in factChecks

\* The attempt b of c's turn will give c its task, or delete it.
Handles(b, c) ==
    \/ pc[b] = "model"
    \/ pc[b] = "replace" /\ c \in previous[b]
    \/ pc[b] = "schedule" /\ c \in todo[b]

\* A flagged component has a task, or will have one, or is not to stay.
Listed ==
    \A c \in components \cap needsFactCheck :
        \/ taskStatus[c] # "ABSENT"
        \/ \E a \in late : c \in todo[a]
        \/ c \in forgotten
        \/ /\ taskStatus[turnOf[c]] # "COMPLETED"
           /\ \A b \in Attempt : task[b] = turnOf[c] /\ b \notin late => Handles(b, c)

\* What the judgment finds settled: of basis, not the ids drawn since.
Done(x) == x \in basis /\ (x \in Id => turnOf[x] \in basis)

\* No attempt has it, and none will.
AtRest ==
    \A x \in Turn \cup Id :
        Done(x) => /\ taskStatus[x] \notin Waiting
                   /\ x \in Turn => taskStatus[x] # "ABSENT"
                   /\ \A a \in Attempt : task[a] # x

\* What the attempt a of a judgment has read of it, step by step.
Informed(a) ==
    /\ pc[a] \in {"factChecks", "relations", "model"} =>
         Given(read[a].components) = Given(components)
    /\ pc[a] \in {"relations", "model"} =>
         GivenChecks(read[a].factChecks) = GivenChecks(factChecks)
    /\ pc[a] = "model" =>
         GivenRelations(read[a].relations) = GivenRelations(relations)

JudgmentReads == \A a \in Attempt : task[a] = DebateId => Informed(a)

\* What the steps of attempts keep of each other.
Attempts ==
    /\ TypeOK
    /\ Holding
    /\ OneInTime
    /\ FreshIds
    /\ OwnTurn

\* What they keep of the evidence.
Rows ==
    /\ RelationsPointBack
    /\ Current
    /\ OneReplyPerTurn
    /\ Saved
    /\ ChecksAreKept

Inv == Attempts /\ Rows /\ Listed /\ AtRest /\ JudgmentReads /\ VerdictIsFair

-----------------------------------------------------------------------------
(* Lemmas *)

Read == [components : SUBSET Id, factChecks : SUBSET Id, relations : SUBSET (Id \X Id)]

Steps == {"free", "model", "replace", "schedule", "save", "factChecks", "relations", "ok"}

Settled == {"PENDING", "FAILED", "COMPLETED"}

LEMMA Targets ==
    /\ NumTurns \in Nat /\ 0 \notin Turn /\ 0 \notin Id
    /\ \A t : t \in Turn <=> t \in Int /\ 1 <= t /\ t <= NumTurns
    /\ Turn \subseteq Target /\ Id \subseteq Target /\ DebateId \in Target
    /\ Turn \cap Id = {} /\ DebateId \notin Turn /\ DebateId \notin Id
    /\ None \notin Target /\ None \notin Turn /\ None \notin Id /\ None # DebateId
BY EvidenceAssumption DEF Turn, Target

LEMMA Kinds ==
    ASSUME NEW x \in Target \cup {None}
    PROVE  /\ KindOf(x) \in Kind
           /\ KindOf(x) = "ANALYZER" <=> x \in Turn
           /\ KindOf(x) = "FACT_CHECK" <=> x \in Id
           /\ KindOf(x) = "JUDGE" <=> x \in {DebateId, None}
BY Targets DEF KindOf, Kind, Target

\* What the types say of one attempt.
LEMMA TypesOf ==
    ASSUME TypeOK, NEW a \in Attempt
    PROVE  /\ task[a] \in Target \cup {None} /\ pc[a] \in Steps
           /\ read[a].components \subseteq Id /\ read[a].factChecks \subseteq Id
           /\ read[a].relations \subseteq Id \X Id
           /\ previous[a] \subseteq Id /\ todo[a] \subseteq Id
<1>1. read[a] \in Read
  BY DEF TypeOK, Read
<1>2. QED
  BY <1>1 DEF TypeOK, Read, Steps

LEMMA StatusAfterFailure ==
    ASSUME NEW x
    PROVE  AfterFailure(x) \in {"PENDING", "FAILED"}
BY DEF AfterFailure

\* An attempt gone through its reads.
LEMMA ReadsFit ==
    ASSUME NEW r \in [Attempt -> Read], NEW a \in Attempt,
           NEW c \in SUBSET Id, NEW l \in SUBSET (Id \X Id)
    PROVE  /\ [r EXCEPT ![a].components = c] \in [Attempt -> Read]
           /\ [r EXCEPT ![a].factChecks = c] \in [Attempt -> Read]
           /\ [r EXCEPT ![a].relations = l] \in [Attempt -> Read]
<1>1. r[a] \in Read
  OBVIOUS
<1>2. /\ [r[a] EXCEPT !.components = c] \in Read
      /\ [r[a] EXCEPT !.factChecks = c] \in Read
      /\ [r[a] EXCEPT !.relations = l] \in Read
  BY <1>1 DEF Read
<1>3. QED
  BY <1>2

LEMMA ReadsAre ==
    ASSUME NEW r \in [Attempt -> Read], NEW a \in Attempt, NEW b \in Attempt, NEW s
    PROVE  /\ [r EXCEPT ![a].components = s][b].components
                = IF b = a THEN s ELSE r[b].components
           /\ [r EXCEPT ![a].components = s][b].factChecks = r[b].factChecks
           /\ [r EXCEPT ![a].components = s][b].relations = r[b].relations
           /\ [r EXCEPT ![a].factChecks = s][b].components = r[b].components
           /\ [r EXCEPT ![a].factChecks = s][b].factChecks
                = IF b = a THEN s ELSE r[b].factChecks
           /\ [r EXCEPT ![a].factChecks = s][b].relations = r[b].relations
           /\ [r EXCEPT ![a].relations = s][b].components = r[b].components
           /\ [r EXCEPT ![a].relations = s][b].factChecks = r[b].factChecks
           /\ [r EXCEPT ![a].relations = s][b].relations
                = IF b = a THEN s ELSE r[b].relations
<1>1. r[a] \in Read /\ r[b] \in Read
  OBVIOUS
<1>2. /\ [r EXCEPT ![a].components = s][b]
           = IF b = a THEN [r[a] EXCEPT !.components = s] ELSE r[b]
      /\ [r EXCEPT ![a].factChecks = s][b]
           = IF b = a THEN [r[a] EXCEPT !.factChecks = s] ELSE r[b]
      /\ [r EXCEPT ![a].relations = s][b]
           = IF b = a THEN [r[a] EXCEPT !.relations = s] ELSE r[b]
  OBVIOUS
<1>3. QED
  BY <1>1, <1>2 DEF Read

LEMMA NothingIsRead ==
    /\ Nothing \in Read
    /\ Nothing.components = {} /\ Nothing.factChecks = {} /\ Nothing.relations = {}
BY DEF Nothing, Read

\* The handler of a returns or throws, and process() would settle its task so.
Leaves(a, status) ==
    /\ pc[a] # "free"
    /\ status \in Settled
    /\ status = "COMPLETED" => pc[a] = "ok"
    /\ Leave(a, status)
    /\ UNCHANGED <<basis, attempt, graphVars, factChecks, verdict, overrun, faults>>

LEMMA LeavingSteps ==
    ASSUME NEW a \in Attempt,
           \/ AnalyzeFails(a) \/ CheckFails(a) \/ JudgeFails(a) \/ DatabaseFails(a)
           \/ ScheduleFails(a) \/ AttemptSucceeds(a)
    PROVE  \E status \in Settled : Leaves(a, status)
<1>1. CASE AnalyzeFails(a) \/ CheckFails(a) \/ JudgeFails(a)
  <2>1. pc[a] = "model" /\ ModelFails(a)
    BY <1>1 DEF AnalyzeFails, CheckFails, JudgeFails, At
  <2>2. PICK status \in {AfterFailure(task[a]), "FAILED"} : Leave(a, status)
    BY <2>1 DEF ModelFails
  <2>3. QED
    BY <2>1, <2>2, StatusAfterFailure DEF ModelFails, Leaves, Settled
<1>2. CASE DatabaseFails(a)
  BY <1>2, StatusAfterFailure DEF DatabaseFails, Fail, Leaves, Settled
<1>3. CASE ScheduleFails(a)
  BY <1>3, StatusAfterFailure DEF ScheduleFails, Fail, At, Leaves, Settled
<1>4. CASE AttemptSucceeds(a)
  BY <1>4 DEF AttemptSucceeds, Leaves, Settled
<1>5. QED
  BY <1>1, <1>2, <1>3, <1>4

\* The handler of a begins with the task x, at step, having read components.
Enters(a, x, step, known) ==
    /\ Enter(a, x, step)
    /\ x \in Target
    /\ known \subseteq components
    /\ \/ /\ x \in Turn /\ step = "model"
          /\ read' = [read EXCEPT ![a].components = known]
          /\ \A c \in known : turnOf[c] < x
       \/ x \in Id /\ step = "model" /\ read' = read
       \/ /\ x = DebateId /\ step = "factChecks"
          /\ known = components
          /\ read' = [read EXCEPT ![a].components = known]
    /\ UNCHANGED <<basis, forgotten, graphVars, factChecks, verdict, late, previous, todo,
                   overrun, faults>>

LEMMA EnteringSteps ==
    ASSUME NEW a \in Attempt,
           \/ \E t \in Turn : BeginAnalysis(a, t)
           \/ \E c \in Id : BeginFactCheck(a, c)
           \/ BeginJudgment(a)
    PROVE  \E x \in Target, step \in {"model", "factChecks"} :
             \E known \in SUBSET components : Enters(a, x, step, known)
<1>1. CASE \E t \in Turn : BeginAnalysis(a, t)
  <2>1. PICK t \in Turn : BeginAnalysis(a, t)
    BY <1>1
  <2>2. Enters(a, t, "model", Before(t))
    BY <2>1, Targets DEF BeginAnalysis, Enters, Before
  <2>3. QED
    BY <2>2, Targets DEF Before
<1>2. CASE \E c \in Id : BeginFactCheck(a, c)
  <2>1. PICK c \in Id : BeginFactCheck(a, c)
    BY <1>2
  <2>2. Enters(a, c, "model", {})
    BY <2>1, Targets DEF BeginFactCheck, Enters
  <2>3. QED
    BY <2>2, Targets
<1>3. CASE BeginJudgment(a)
  <2>1. Enters(a, DebateId, "factChecks", components)
    BY <1>3, Targets DEF BeginJudgment, Enters
  <2>2. QED
    BY <2>1, Targets
<1>4. QED
  BY <1>1, <1>2, <1>3

-----------------------------------------------------------------------------
(* What attempts keep of each other *)

LEMMA EnterKeepsAttempts ==
    ASSUME Attempts, NEW a \in Attempt, NEW x \in Target,
           NEW step \in {"model", "factChecks"}, NEW known \in SUBSET components,
           Enters(a, x, step, known)
    PROVE  Attempts'
<1> USE DEF Attempts
<1>1. /\ task[a] = None /\ a \notin late /\ pc[a] = "free" /\ taskStatus[x] = "PENDING"
      /\ x # None
  BY Targets DEF Enters, Enter, Holding, TypeOK
<1>2. /\ task' = [task EXCEPT ![a] = x] /\ pc' = [pc EXCEPT ![a] = step]
      /\ taskStatus' = [taskStatus EXCEPT ![x] = "PROCESSING"]
      /\ attempt' = [attempt EXCEPT ![x] = @ + 1]
      /\ UNCHANGED <<basis, forgotten, graphVars, factChecks, verdict, late, previous, todo,
                     overrun, faults>>
  BY DEF Enters, Enter
<1>3. known \in SUBSET Id
  BY DEF TypeOK
<1>4. /\ read' \in [Attempt -> Read]
      /\ \A b \in Attempt : b # a => read'[b] = read[b]
      /\ x \in Turn => \A c \in read'[a].components : turnOf[c] \in 1..(x - 1)
  <2>1. read \in [Attempt -> Read]
    BY DEF TypeOK, Read
  <2>2. CASE read' = read /\ x \in Id
    BY <2>1, <2>2, Targets
  <2>3. CASE /\ read' = [read EXCEPT ![a].components = known]
             /\ x \in Turn => \A c \in known : turnOf[c] < x
    <3>1. read' \in [Attempt -> Read]
      BY <1>3, <2>1, <2>3, ReadsFit
    <3>2. \A b \in Attempt : b # a => read'[b] = read[b]
      BY <2>1, <2>3
    <3>3. read'[a].components = known
      BY <2>1, <2>3, ReadsAre
    <3>4. \A c \in known : turnOf[c] \in Turn
      BY <1>3 DEF FreshIds, TypeOK
    <3>5. QED
      BY <3>1, <3>2, <3>3, <3>4, <2>3, Targets
  <2>4. QED
    BY <2>2, <2>3, Targets DEF Enters
<1>5. TypeOK'
  <2>1. /\ taskStatus' \in [Target -> {"ABSENT", "PENDING", "PROCESSING", "COMPLETED",
                                        "FAILED"}]
        /\ attempt' \in [Target -> Nat]
        /\ task' \in [Attempt -> Target \cup {None}]
        /\ pc' \in [Attempt -> Steps]
    BY <1>2 DEF TypeOK, Steps
  <2>2. QED
    BY <1>2, <1>4, <2>1 DEF TypeOK, Read, Steps, graphVars
<1>6. Holding'
  BY <1>1, <1>2, Targets DEF Holding, TypeOK, Enters
<1>7. OneInTime'
  BY <1>1, <1>2, Targets DEF OneInTime, Holding, TypeOK
<1>8. FreshIds'
  BY <1>1, <1>2, Targets DEF FreshIds, TypeOK, graphVars
<1>9. OwnTurn'
  <2> SUFFICES ASSUME NEW b \in Attempt
               PROVE  /\ task'[b] \in Turn =>
                           \A c \in read'[b].components : turnOf'[c] \in 1..(task'[b] - 1)
                      /\ \A c \in previous'[b] \cup todo'[b] :
                           turnOf'[c] = task'[b] /\ task'[b] \in Turn
                      /\ todo'[b] # {} => pc'[b] = "schedule"
    BY DEF OwnTurn
  <2>1. CASE b = a
    BY <1>1, <1>2, <1>4, <2>1, Targets DEF OwnTurn, TypeOK, graphVars
  <2>2. CASE b # a
    BY <1>2, <1>4, <2>2 DEF OwnTurn, TypeOK, graphVars
  <2>3. QED
    BY <2>1, <2>2
<1>10. QED
  BY <1>5, <1>6, <1>7, <1>8, <1>9

LEMMA LeaveKeepsAttempts ==
    ASSUME Attempts, NEW a \in Attempt, NEW status \in Settled, Leaves(a, status)
    PROVE  Attempts'
<1> USE DEF Attempts
<1>1. /\ task[a] \in Target /\ pc[a] # "free"
      /\ a \notin late => taskStatus[task[a]] = "PROCESSING"
  BY Targets, TypesOf DEF Leaves, Holding
<1>2. /\ task' = [task EXCEPT ![a] = None] /\ pc' = [pc EXCEPT ![a] = "free"]
      /\ late' = late \ {a} /\ read' = [read EXCEPT ![a] = Nothing]
      /\ previous' = [previous EXCEPT ![a] = {}] /\ todo' = [todo EXCEPT ![a] = {}]
      /\ forgotten' = IF a \in late THEN forgotten \cup todo[a] ELSE forgotten
      /\ UNCHANGED <<basis, attempt, graphVars, factChecks, verdict, overrun, faults>>
  BY DEF Leaves, Leave
<1>3. taskStatus' = IF a \in late THEN taskStatus
                    ELSE [taskStatus EXCEPT ![task[a]] = status]
  BY DEF Leaves, Leave
<1>4. /\ taskStatus' \in [Target -> {"ABSENT", "PENDING", "PROCESSING", "COMPLETED",
                                     "FAILED"}]
      /\ \A x \in Target : /\ taskStatus'[x] = "ABSENT" <=> taskStatus[x] = "ABSENT"
                           /\ x # task[a] => taskStatus'[x] = taskStatus[x]
                           /\ a \in late => taskStatus'[x] = taskStatus[x]
  BY <1>1, <1>3 DEF TypeOK, Settled
<1>5. TypeOK'
  BY <1>2, <1>4, NothingIsRead DEF TypeOK, Read, graphVars
<1>6. Holding'
  <2> SUFFICES ASSUME NEW b \in Attempt
               PROVE  /\ pc'[b] = "free" <=> task'[b] = None
                      /\ pc'[b] \in {"replace", "schedule"} => task'[b] \in Turn
                      /\ pc'[b] = "save" => task'[b] \in Id
                      /\ pc'[b] \in {"factChecks", "relations"} => task'[b] = DebateId
                      /\ b \in late' => task'[b] \in overrun'
                      /\ task'[b] # None => taskStatus'[task'[b]] # "ABSENT"
                      /\ task'[b] # None /\ b \notin late' =>
                           taskStatus'[task'[b]] = "PROCESSING"
    BY DEF Holding
  <2>1. CASE b = a
    BY <1>2, <2>1, Targets DEF TypeOK
  <2>2. CASE b # a
    <3>1. task'[b] = task[b] /\ pc'[b] = pc[b] /\ (b \in late' <=> b \in late)
      BY <1>2, <2>2 DEF TypeOK
    <3>2. task[b] # None => task[b] \in Target
      BY TypesOf
    <3>3. task[b] # None /\ b \notin late /\ a \notin late => task[b] # task[a]
      BY <2>2 DEF OneInTime
    <3>4. task[b] # None /\ b \notin late => taskStatus'[task[b]] = taskStatus[task[b]]
      BY <1>4, <3>2, <3>3
    <3>5. QED
      BY <1>2, <1>4, <3>1, <3>2, <3>4 DEF Holding
  <2>3. QED
    BY <2>1, <2>2
<1>7. OneInTime'
  BY <1>2, Targets DEF OneInTime, TypeOK
<1>8. FreshIds'
  BY <1>2, <1>4, Targets DEF FreshIds, graphVars
<1>9. OwnTurn'
  BY <1>2, Targets, NothingIsRead DEF OwnTurn, TypeOK, graphVars
<1>10. QED
  BY <1>5, <1>6, <1>7, <1>8, <1>9

\* What is stored of a judgment has its type, and is fair.
LEMMA JudgedFits ==
    ASSUME NEW o \in Opinion
    PROVE  LET v == Judged(HybridJudgment(o)) IN
           /\ v \in Judgment
           /\ AtLeast(v.scores["SIDE_A"], v.scores["SIDE_B"]) => v.winnerId # "opponent"
           /\ AtLeast(v.scores["SIDE_B"], v.scores["SIDE_A"]) => v.winnerId # "host"
           /\ v.winnerId = None <=> v.total["SIDE_A"] = v.total["SIDE_B"]
<1>1. PICK j : j = HybridJudgment(o)
  OBVIOUS
<1>2. /\ "SIDE_A" \in Side /\ "SIDE_B" \in Side
      /\ \A x \in Side : x = "SIDE_A" \/ x = "SIDE_B"
  BY DEF Side
<1>3. ASSUME NEW x \in Side
      PROVE  /\ j.side[x].scores \in SideScores
             /\ j.side[x].violations \in [Severity -> Nat]
  <2>1. /\ j.side[x].scores = ToSideScores(o[x].positions)
        /\ j.side[x].violations = ToViolations(o[x].found)
    BY <1>1 DEF HybridJudgment
  <2>2. \A y \in Axis : ToHundredScale(o[x].positions[y]) \in Score
    BY EvidenceAssumption, ScaleInRange
  <2>3. ToSideScores(o[x].positions) \in SideScores
    BY <2>2 DEF ToSideScores, SideScores
  <2>4. ToViolations(o[x].found) \in [Severity -> Nat]
    BY EvidenceAssumption DEF ToViolations
  <2>5. QED
    BY <2>1, <2>3, <2>4
<1>4. PICK score : score = [x \in Side |-> j.side[x].scores]
  OBVIOUS
<1>5. PICK total : total = [x \in Side |-> CalculateTotalScore(j.side[x].scores)]
  OBVIOUS
<1>6. PICK penalty : penalty = [x \in Side |-> ToSocialCreditPenalty(j.side[x].violations)]
  OBVIOUS
<1>7. PICK winner : winner = WinnerIdOf(DecideWinner(total["SIDE_A"], total["SIDE_B"]))
  OBVIOUS
<1>8. Judged(j) = [scores |-> score, total |-> total, winnerId |-> winner,
                   penalty |-> penalty]
  BY <1>4, <1>5, <1>6, <1>7 DEF Judged
<1>9. score \in [Side -> SideScores]
  BY <1>3, <1>4
<1>10. total \in [Side -> Score]
  <2> SUFFICES ASSUME NEW x \in Side
               PROVE  CalculateTotalScore(j.side[x].scores) \in Score
    BY <1>5
  <2>1. PICK s \in SideScores : s = j.side[x].scores
    BY <1>3
  <2>2. \A y \in Axis : MinScore <= s[y] /\ s[y] <= MaxScore
    BY DEF SideScores, Score, MinScore, MaxScore
  <2>3. /\ MinScore <= CalculateTotalScore(s) /\ CalculateTotalScore(s) <= MaxScore
        /\ CalculateTotalScore(s) \in Int
    <3>1. MinScore \in Int /\ MaxScore \in Int
      BY DEF MinScore, MaxScore
    <3>2. QED
      BY <2>2, <3>1, TotalWithinScores, TotalIsNearest
  <2>4. QED
    BY <2>1, <2>3 DEF Score, MinScore, MaxScore
<1>11. penalty \in [Side -> Nat]
  BY <1>3, <1>6, PenaltySign
<1>12. /\ total["SIDE_A"] = CalculateTotalScore(score["SIDE_A"])
       /\ total["SIDE_B"] = CalculateTotalScore(score["SIDE_B"])
       /\ score["SIDE_A"] \in SideScores /\ score["SIDE_B"] \in SideScores
       /\ total["SIDE_A"] \in Int /\ total["SIDE_B"] \in Int
  BY <1>2, <1>4, <1>5, <1>9, <1>10 DEF Score, MinScore, MaxScore
<1>13. DecideWinner(total["SIDE_A"], total["SIDE_B"]) \in {"SIDE_A", "SIDE_B", "DRAW"}
  BY DEF DecideWinner
<1>14. /\ winner \in {"host", "opponent", None}
       /\ winner = "host" => DecideWinner(total["SIDE_A"], total["SIDE_B"]) = "SIDE_A"
       /\ winner = "opponent" => DecideWinner(total["SIDE_A"], total["SIDE_B"]) = "SIDE_B"
       /\ winner = None <=> DecideWinner(total["SIDE_A"], total["SIDE_B"]) = "DRAW"
  BY <1>7, <1>13, EvidenceAssumption DEF WinnerIdOf
<1>15. Judged(j) \in Judgment
  BY <1>8, <1>9, <1>10, <1>11, <1>14 DEF Judgment
<1>16. AtLeast(score["SIDE_A"], score["SIDE_B"]) => winner # "opponent"
  BY <1>12, <1>14, BetterNeverLoses
<1>17. AtLeast(score["SIDE_B"], score["SIDE_A"]) => winner # "host"
  BY <1>12, <1>14, BetterNeverLoses
<1>18. winner = None <=> total["SIDE_A"] = total["SIDE_B"]
  BY <1>12, <1>14, WinnerMirrored
<1>19. QED
  BY <1>1, <1>8, <1>15, <1>16, <1>17, <1>18

\* The handler of a goes on to its next await.
Walks(a, step) ==
    /\ pc[a] \notin {"free", "schedule"}
    /\ step \in Steps \ {"free", "schedule"}
    /\ step = "replace" =>
         task[a] \in Turn /\ previous'[a] = {c \in components : turnOf[c] = task[a]}
    /\ step = "save" => task[a] \in Id
    /\ step \in {"factChecks", "relations"} => task[a] = DebateId
    /\ step = "ok" => task[a] \notin Turn /\ (task[a] \in Id => task[a] \in factChecks')
    /\ pc' = [pc EXCEPT ![a] = step]
    /\ read' \in [Attempt -> Read]
    /\ \A b \in Attempt : read'[b].components = read[b].components
    /\ \A b \in Attempt : b # a => read'[b] = read[b]
    /\ task[a] = DebateId =>
         \/ step = "relations" /\ read'[a].factChecks = factChecks \cap read[a].components
         \/ /\ step = "model" /\ pc[a] = "relations"
            /\ read'[a].factChecks = read[a].factChecks
            /\ read'[a].relations = RelationsAmong(read[a].components)
         \/ step = "ok"
    /\ task[a] = DebateId /\ step = "relations" => pc[a] = "factChecks"
    /\ step = "model" => task[a] = DebateId
    /\ previous' \in [Attempt -> SUBSET Id]
    /\ \A b \in Attempt : b # a => previous'[b] = previous[b]
    /\ \A c \in previous'[a] : turnOf[c] = task[a] /\ task[a] \in Turn
    /\ factChecks' \subseteq components
    /\ \A c : c # task[a] => (c \in factChecks' <=> c \in factChecks)
    /\ verdict' \in Judgment \cup {None}
    /\ UNCHANGED <<basis, forgotten, rowVars, graphVars, task, late, todo, overrun, faults>>

WalkingSteps(a) ==
    \/ BeginReplace(a) \/ DeleteFactCheck(a) \/ SaveFactCheck(a)
    \/ ReadFactChecks(a) \/ ReadRelations(a) \/ CompleteJudgment(a)

LEMMA WalkingStepsWalk ==
    ASSUME TypeOK, Holding, OwnTurn, NEW a \in Attempt, WalkingSteps(a)
    PROVE  \E step \in Steps : Walks(a, step)
<1>1. /\ read \in [Attempt -> Read] /\ previous \in [Attempt -> SUBSET Id]
      /\ factChecks \subseteq components /\ verdict \in Judgment \cup {None}
      /\ relations \subseteq Id \X Id /\ components \subseteq Id
  BY DEF TypeOK, Read
<1>2. /\ KindOf(task[a]) = "ANALYZER" <=> task[a] \in Turn
      /\ KindOf(task[a]) = "FACT_CHECK" <=> task[a] \in Id
      /\ KindOf(task[a]) = "JUDGE" <=> task[a] \in {DebateId, None}
  BY Kinds, TypesOf
<1>3. pc[a] # "free" => task[a] # None
  BY DEF Holding
<1>4. \A c \in previous[a] : turnOf[c] = task[a] /\ task[a] \in Turn
  BY DEF OwnTurn
<1> USE DEF Walks, Steps, At, Goto
<1>5. CASE BeginReplace(a)
  <2>1. Walks(a, "replace")
    BY <1>1, <1>2, <1>5 DEF BeginReplace
  <2>2. QED
    BY <2>1
<1>6. CASE DeleteFactCheck(a)
  <2>1. Walks(a, "save")
    BY <1>1, <1>2, <1>4, <1>6 DEF DeleteFactCheck
  <2>2. QED
    BY <2>1
<1>7. CASE SaveFactCheck(a)
  <2>1. Walks(a, "ok")
    BY <1>1, <1>2, <1>4, <1>7 DEF SaveFactCheck
  <2>2. QED
    BY <2>1
<1>8. CASE ReadFactChecks(a)
  <2>1. PICK found \in SUBSET Id : read' = [read EXCEPT ![a].factChecks = found]
    BY <1>1, <1>8 DEF ReadFactChecks
  <2>2. /\ read' \in [Attempt -> Read]
        /\ \A b \in Attempt : read'[b].components = read[b].components
    <3>1. {} \in SUBSET (Id \X Id)
      OBVIOUS
    <3>2. read' \in [Attempt -> Read]
      BY <1>1, <2>1, <3>1, ReadsFit
    <3>3. \A b \in Attempt : read'[b].components = read[b].components
      BY <1>1, <2>1, ReadsAre
    <3>4. QED
      BY <3>2, <3>3
  <2>3. Walks(a, "relations")
    BY <1>1, <1>2, <1>3, <1>4, <1>8, <2>2 DEF ReadFactChecks
  <2>4. QED
    BY <2>3
<1>9. CASE ReadRelations(a)
  <2>1. PICK found \in SUBSET (Id \X Id) :
           /\ read' = [read EXCEPT ![a].relations = found]
           /\ found = RelationsAmong(read[a].components)
    BY <1>1, <1>9 DEF ReadRelations, RelationsAmong
  <2>2. /\ read' \in [Attempt -> Read]
        /\ \A b \in Attempt : read'[b].components = read[b].components
    <3>1. {} \in SUBSET Id
      OBVIOUS
    <3>2. read' \in [Attempt -> Read]
      BY <1>1, <2>1, <3>1, ReadsFit
    <3>3. \A b \in Attempt : read'[b].components = read[b].components
      BY <1>1, <2>1, ReadsAre
    <3>4. QED
      BY <3>2, <3>3
  <2>3. /\ read'[a].factChecks = read[a].factChecks
        /\ read'[a].relations = RelationsAmong(read[a].components)
    BY <1>1, <2>1, ReadsAre
  <2>4. \A b \in Attempt : b # a => read'[b] = read[b]
    BY <1>1, <2>1
  <2>5. Walks(a, "model")
    BY <1>1, <1>2, <1>3, <1>4, <1>9, <2>2, <2>3, <2>4 DEF ReadRelations
  <2>6. QED
    BY <2>5
<1>10. CASE CompleteJudgment(a)
  <2>1. verdict' \in Judgment \cup {None}
    BY <1>1, <1>10, JudgedFits DEF CompleteJudgment
  <2>2. Walks(a, "ok")
    BY <1>1, <1>2, <1>4, <1>10, <2>1 DEF CompleteJudgment
  <2>3. QED
    BY <2>2
<1>11. QED
  BY <1>5, <1>6, <1>7, <1>8, <1>9, <1>10 DEF WalkingSteps

LEMMA WalkKeepsAttempts ==
    ASSUME Attempts, NEW a \in Attempt, NEW step \in Steps, Walks(a, step)
    PROVE  Attempts'
<1> USE DEF Attempts
<1>1. TypeOK'
  BY DEF TypeOK, Walks, Read, Steps, graphVars, rowVars
<1>2. Holding'
  BY DEF Holding, TypeOK, Walks, rowVars
<1>3. OneInTime'
  BY DEF OneInTime, Walks
<1>4. FreshIds'
  BY DEF FreshIds, Walks, rowVars, graphVars
<1>5. OwnTurn'
  BY DEF OwnTurn, TypeOK, Walks, graphVars
<1>6. QED
  BY <1>1, <1>2, <1>3, <1>4, <1>5

LEMMA RegisterKeepsAttempts ==
    ASSUME Attempts, NEW t \in Turn, RegisterAnalysis(t)
    PROVE  Attempts'
<1> USE DEF Attempts
<1>1. /\ taskStatus[t] = "ABSENT" /\ taskStatus' = [taskStatus EXCEPT ![t] = "PENDING"]
      /\ faults' \in 0..MaxFaults
      /\ UNCHANGED <<basis, forgotten, attempt, graphVars, factChecks, verdict,
                     attemptVars, overrun>>
  BY EvidenceAssumption DEF RegisterAnalysis, TypeOK
<1>2. TypeOK'
  BY <1>1, Targets DEF TypeOK, graphVars, attemptVars
<1>3. Holding'
  BY <1>1, Targets DEF Holding, TypeOK, attemptVars
<1>4. OneInTime' /\ OwnTurn'
  BY <1>1 DEF OneInTime, OwnTurn, attemptVars, graphVars
<1>5. FreshIds'
  BY <1>1, Targets DEF FreshIds, TypeOK, graphVars
<1>6. QED
  BY <1>2, <1>3, <1>4, <1>5

LEMMA JudgeTaskKeepsAttempts ==
    ASSUME Attempts, CreateJudgeTask
    PROVE  Attempts'
<1> USE DEF Attempts
<1>1. /\ taskStatus[DebateId] = "ABSENT"
      /\ taskStatus' = [taskStatus EXCEPT ![DebateId] = "PENDING"]
      /\ basis' \subseteq Turn \cup Id
      /\ UNCHANGED <<forgotten, attempt, graphVars, factChecks, verdict, attemptVars,
                     overrun, faults>>
  BY DEF CreateJudgeTask, Untouched
<1>2. TypeOK'
  BY <1>1, Targets DEF TypeOK, graphVars, attemptVars
<1>3. Holding'
  BY <1>1, Targets DEF Holding, TypeOK, attemptVars
<1>4. OneInTime' /\ OwnTurn'
  BY <1>1 DEF OneInTime, OwnTurn, attemptVars, graphVars
<1>5. FreshIds'
  BY <1>1, Targets DEF FreshIds, TypeOK, graphVars
<1>6. QED
  BY <1>2, <1>3, <1>4, <1>5

\* A boot makes some of the PROCESSING tasks PENDING.
LEMMA RestartedStatus ==
    ASSUME TypeOK, Restart
    PROVE  /\ taskStatus' \in [Target -> {"ABSENT", "PENDING", "PROCESSING", "COMPLETED",
                                          "FAILED"}]
           /\ \A x \in Target :
                \/ taskStatus'[x] = taskStatus[x]
                \/ taskStatus[x] = "PROCESSING" /\ taskStatus'[x] = "PENDING"
<1>1. PICK stale \in SUBSET {x \in Target : taskStatus[x] = "PROCESSING"} :
         taskStatus' = [x \in Target |-> IF x \in stale THEN "PENDING" ELSE taskStatus[x]]
  BY DEF Restart
<1>2. QED
  BY <1>1 DEF TypeOK

LEMMA RestartKeepsAttempts ==
    ASSUME Attempts, Restart
    PROVE  Attempts'
<1> USE DEF Attempts
<1>1. /\ task' = [a \in Attempt |-> None] /\ pc' = [a \in Attempt |-> "free"]
      /\ late' = {} /\ read' = [a \in Attempt |-> Nothing]
      /\ previous' = [a \in Attempt |-> {}] /\ todo' = [a \in Attempt |-> {}]
      /\ faults' \in 0..MaxFaults
      /\ forgotten' \subseteq Id
      /\ UNCHANGED <<basis, attempt, graphVars, factChecks, verdict, overrun>>
  BY EvidenceAssumption DEF Restart, TypeOK
<1>2. TypeOK'
  BY <1>1, RestartedStatus, NothingIsRead DEF TypeOK, Read, graphVars
<1>3. Holding' /\ OneInTime' /\ OwnTurn'
  BY <1>1, Targets DEF Holding, OneInTime, OwnTurn
<1>4. FreshIds'
  BY <1>1, RestartedStatus, Targets DEF FreshIds, graphVars
<1>5. QED
  BY <1>2, <1>3, <1>4

LEMMA ScheduleKeepsAttempts ==
    ASSUME Attempts, NEW a \in Attempt, ScheduleFactCheck(a)
    PROVE  Attempts'
<1> USE DEF Attempts
<1>1. PICK c \in todo[a] :
         /\ taskStatus' = [taskStatus EXCEPT ![c] = IF @ = "ABSENT" THEN "PENDING" ELSE @]
         /\ todo' = [todo EXCEPT ![a] = @ \ {c}]
         /\ pc' = [pc EXCEPT ![a] = IF todo[a] = {c} THEN "ok" ELSE "schedule"]
  BY DEF ScheduleFactCheck, Goto
<1>2. /\ pc[a] = "schedule"
      /\ UNCHANGED <<basis, forgotten, attempt, graphVars, factChecks, verdict, task, late,
                     read, previous, overrun, faults>>
  BY DEF ScheduleFactCheck, At
<1>3. /\ c \in Id /\ c \in Target /\ c \notin Turn /\ turnOf[c] # 0
  BY Targets, TypesOf DEF OwnTurn, TypeOK
<1>4. /\ taskStatus' \in [Target -> {"ABSENT", "PENDING", "PROCESSING", "COMPLETED",
                                     "FAILED"}]
      /\ \A x \in Target : \/ taskStatus'[x] = taskStatus[x]
                           \/ x = c /\ taskStatus[x] = "ABSENT" /\ taskStatus'[x] = "PENDING"
  BY <1>1, <1>3 DEF TypeOK
<1>5. TypeOK'
  BY <1>1, <1>2, <1>4 DEF TypeOK, graphVars
<1>6. Holding'
  BY <1>1, <1>2, <1>4, TypesOf, Targets DEF Holding, TypeOK
<1>7. OneInTime'
  BY <1>2 DEF OneInTime
<1>8. FreshIds'
  BY <1>2, <1>3, <1>4, Targets DEF FreshIds, graphVars
<1>9. OwnTurn'
  BY <1>1, <1>2 DEF OwnTurn, TypeOK, graphVars
<1>10. QED
  BY <1>5, <1>6, <1>7, <1>8, <1>9

LEMMA GoneKeepsAttempts ==
    ASSUME Attempts, NEW c \in Id, ComponentGone(c)
    PROVE  Attempts'
<1> USE DEF Attempts
<1>1. /\ c \in Target /\ c \notin Turn /\ taskStatus[c] = "PENDING"
      /\ taskStatus' = [taskStatus EXCEPT ![c] = "FAILED"]
      /\ attempt' = [attempt EXCEPT ![c] = @ + 1]
      /\ UNCHANGED <<basis, forgotten, graphVars, factChecks, verdict, attemptVars, overrun, faults>>
  BY Targets DEF ComponentGone
<1>2. TypeOK'
  BY <1>1 DEF TypeOK, graphVars, attemptVars
<1>3. Holding'
  BY <1>1, TypesOf DEF Holding, TypeOK, attemptVars
<1>4. OneInTime' /\ OwnTurn'
  BY <1>1 DEF OneInTime, OwnTurn, attemptVars, graphVars
<1>5. FreshIds'
  BY <1>1, Targets DEF FreshIds, TypeOK, graphVars
<1>6. QED
  BY <1>2, <1>3, <1>4, <1>5

LEMMA TimeoutKeepsAttempts ==
    ASSUME Attempts, NEW a \in Attempt, Timeout(a)
    PROVE  Attempts'
<1> USE DEF Attempts
<1>1. PICK x : x = task[a]
  OBVIOUS
<1>2. PICK status \in {"PENDING", "FAILED"} : status = AfterFailure(x)
  BY StatusAfterFailure
<1>3. /\ pc[a] # "free" /\ a \notin late /\ faults' \in 0..MaxFaults
      /\ late' = late \cup {a} /\ overrun' = overrun \cup {x}
      /\ taskStatus' = [taskStatus EXCEPT ![x] = status]
      /\ UNCHANGED <<basis, forgotten, attempt, graphVars, factChecks, verdict, task, pc, read,
                     previous, todo>>
  BY <1>1, <1>2, EvidenceAssumption DEF Timeout, TypeOK
<1>4. x \in Target /\ x # None /\ taskStatus[x] = "PROCESSING"
  BY <1>1, <1>3, TypesOf, Targets DEF Holding
<1>5. TypeOK'
  BY <1>3, <1>4 DEF TypeOK, graphVars
<1>6. Holding'
  BY <1>1, <1>3, <1>4, TypesOf DEF Holding, OneInTime, TypeOK
<1>7. OneInTime' /\ OwnTurn'
  BY <1>3 DEF OneInTime, OwnTurn, graphVars
<1>8. FreshIds'
  BY <1>3, <1>4, Targets DEF FreshIds, TypeOK, graphVars
<1>9. QED
  BY <1>5, <1>6, <1>7, <1>8

\* No more of a reply's components keep the flag than the cap allows.
LEMMA CheckedFew ==
    ASSUME NEW n \in Nat, NEW flagged \in SUBSET (1..n), NEW t
    PROVE  /\ CheckedOf(t, flagged) \subseteq 1..n
           /\ IsFiniteSet(CheckedOf(t, flagged))
           /\ Cardinality(CheckedOf(t, flagged))
                <= IF t \in Closing THEN 0 ELSE FactChecksPerTurn
<1>1. FactChecksPerTurn \in Nat
  BY EvidenceAssumption
<1>2. CASE t \in Closing
  <2>1. CheckedOf(t, flagged) = {}
    BY <1>2 DEF CheckedOf
  <2>2. QED
    BY <1>2, <2>1, FS_EmptySet
<1>3. CASE t \notin Closing
  <2>1. PICK few : few = CheckedOf(t, flagged)
    OBVIOUS
  <2>2. PICK below : below = [i \in few |-> Cardinality({j \in flagged : j < i})]
    OBVIOUS
  <2>3. few = {i \in flagged : Cardinality({j \in flagged : j < i}) < FactChecksPerTurn}
    BY <1>3, <2>1 DEF CheckedOf
  <2>4. IsFiniteSet(flagged) /\ flagged \subseteq Int
    <3>1. IsFiniteSet(1..n)
      BY FS_Interval
    <3>2. IsFiniteSet(flagged)
      BY <3>1, FS_Subset
    <3>3. \A i \in flagged : i \in Int
      OBVIOUS
    <3>4. QED
      BY <3>2, <3>3
  <2>5. ASSUME NEW i \in flagged
        PROVE  /\ IsFiniteSet({j \in flagged : j < i})
               /\ Cardinality({j \in flagged : j < i}) \in Nat
    <3>1. {j \in flagged : j < i} \in SUBSET flagged
      OBVIOUS
    <3>2. QED
      BY <2>4, <3>1, FS_Subset, FS_CardinalityType
  <2>6. ASSUME NEW i \in flagged, NEW k \in flagged, i < k
        PROVE  Cardinality({j \in flagged : j < i}) < Cardinality({j \in flagged : j < k})
    <3>1. PICK low : low = {j \in flagged : j < i}
      OBVIOUS
    <3>2. PICK high : high = {j \in flagged : j < k}
      OBVIOUS
    <3>3. /\ IsFiniteSet(low) /\ Cardinality(low) \in Nat
          /\ IsFiniteSet(high) /\ Cardinality(high) \in Nat
      BY <2>5, <3>1, <3>2
    <3>4. i \notin low /\ low \cup {i} \in SUBSET high
      <4>1. \A j \in flagged : j \in Int
        BY <2>4
      <4>2. i \in high
        BY <2>6, <3>2
      <4>3. \A j \in low : j \in high
        BY <2>6, <3>1, <3>2, <4>1
      <4>4. i \notin low
        BY <3>1, <4>1
      <4>5. QED
        BY <4>2, <4>3, <4>4
    <3>5. Cardinality(low \cup {i}) = Cardinality(low) + 1
      BY <3>3, <3>4, FS_AddElement
    <3>6. Cardinality(low \cup {i}) <= Cardinality(high)
      BY <3>3, <3>4, FS_Subset
    <3>7. Cardinality(low) < Cardinality(high)
      BY <3>3, <3>5, <3>6
    <3>8. QED
      BY <3>1, <3>2, <3>7
  <2>7. below \in Injection(few, 0..(FactChecksPerTurn - 1))
    <3>1. \A i \in few : /\ i \in flagged /\ below[i] \in Nat
                         /\ below[i] < FactChecksPerTurn
      BY <2>2, <2>3, <2>5
    <3>2. below \in [few -> 0..(FactChecksPerTurn - 1)]
      BY <1>1, <2>2, <3>1
    <3>3. ASSUME NEW i \in few, NEW k \in few, below[i] = below[k]
          PROVE  i = k
      <4>1. i \in flagged /\ k \in flagged /\ i \in Int /\ k \in Int
        BY <2>4, <3>1
      <4>2. i < k => below[i] < below[k]
        BY <2>2, <2>6, <4>1
      <4>3. k < i => below[k] < below[i]
        BY <2>2, <2>6, <4>1
      <4>4. QED
        BY <3>1, <3>3, <4>1, <4>2, <4>3
    <3>4. QED
      BY <3>2, <3>3 DEF Injection, IsInjective
  <2>8. /\ IsFiniteSet(0..(FactChecksPerTurn - 1))
        /\ Cardinality(0..(FactChecksPerTurn - 1)) = FactChecksPerTurn
    BY <1>1, FS_Interval
  <2>9. IsFiniteSet(few) /\ Cardinality(few) <= FactChecksPerTurn
    BY <2>7, <2>8, FS_Injection
  <2>10. QED
    BY <1>3, <2>1, <2>3, <2>9
<1>4. QED
  BY <1>2, <1>3

\* Rows for the parts of a reply are no more than the parts.
LEMMA RowsFew ==
    ASSUME NEW S, IsFiniteSet(S), NEW row, NEW k \in Nat, Cardinality(S) <= k
    PROVE  Cardinality({row[i] : i \in S}) <= k
<1>1. PICK T : T = {row[i] : i \in S}
  OBVIOUS
<1>2. PICK f : f = [i \in S |-> row[i]]
  OBVIOUS
<1>3. f \in Surjection(S, T)
  BY <1>1, <1>2 DEF Surjection
<1>4. /\ IsFiniteSet(T) /\ Cardinality(T) <= Cardinality(S)
      /\ Cardinality(S) \in Nat /\ Cardinality(T) \in Nat
  BY <1>3, FS_Surjection, FS_CardinalityType
<1>5. QED
  BY <1>1, <1>4

\* The transaction of a replaces its turn's rows by new, of which checked are to
\* be checked, and adds links to the relations that stay.
Replaces(a, new, checked, links) ==
    /\ pc[a] = "replace" /\ task[a] \in Turn
    /\ \A c \in new : c \in Id /\ turnOf[c] = 0
    /\ checked \subseteq new
    /\ Cardinality(checked) <= IF task[a] \in Closing THEN 0 ELSE FactChecksPerTurn
    /\ \A r \in links : r \in Id \X Id /\ r[1] \in new
                        /\ r[2] \in new \cup read[a].components
    /\ turnOf' = [c \in Id |-> IF c \in new THEN task[a] ELSE turnOf[c]]
    /\ answer' = [c \in Id |-> IF c \in new THEN attempt[task[a]] ELSE answer[c]]
    /\ components' = (components \ previous[a]) \cup new
    /\ needsFactCheck' = (needsFactCheck \ previous[a]) \cup checked
    /\ relations' = KeptRelations(previous[a]) \cup links
    /\ factChecks' = factChecks \ previous[a]
    /\ todo' = [todo EXCEPT ![a] = checked]
    /\ pc' = [pc EXCEPT ![a] = IF checked = {} THEN "ok" ELSE "schedule"]
    /\ UNCHANGED <<basis, forgotten, rowVars, verdict, task, late, read, previous, overrun,
                   faults>>

LEMMA ReplacingStep ==
    ASSUME TypeOK, NEW a \in Attempt, Replace(a)
    PROVE  \E new \in SUBSET Id, checked \in SUBSET Id, links \in SUBSET (Id \X Id) :
             Replaces(a, new, checked, links)
<1>1. PICK t : t = task[a]
  OBVIOUS
<1>2. PICK known : known = read[a].components
  OBVIOUS
<1>3. /\ pc[a] = "replace" /\ t \in Turn /\ known \subseteq Id
      /\ UNCHANGED <<basis, forgotten, rowVars, verdict, task, late, read, previous, overrun,
                     faults>>
  BY <1>1, <1>2, TypesOf, Kinds DEF Replace, At
<1>4. PICK n \in 0..MaxComponents : \E refs \in [1..n -> Ref \cup known] :
         /\ ValidRefs(refs, known)
         /\ \E flagged \in SUBSET (1..n),
               ends \in SUBSET {r \in (Ref \cup known) \X (Ref \cup known) :
                                  ValidRelation(r, refs, known)},
               row \in [1..n -> {c \in Id : turnOf[c] = 0}] :
             WriteGraph(a, n, refs, flagged, ends, row)
  BY <1>2 DEF Replace
<1>5. PICK refs \in [1..n -> Ref \cup known] :
         /\ ValidRefs(refs, known)
         /\ \E flagged \in SUBSET (1..n),
               ends \in SUBSET {r \in (Ref \cup known) \X (Ref \cup known) :
                                  ValidRelation(r, refs, known)},
               row \in [1..n -> {c \in Id : turnOf[c] = 0}] :
             WriteGraph(a, n, refs, flagged, ends, row)
  BY <1>4
<1>6. PICK flagged \in SUBSET (1..n),
           ends \in SUBSET {r \in (Ref \cup known) \X (Ref \cup known) :
                              ValidRelation(r, refs, known)},
           row \in [1..n -> {c \in Id : turnOf[c] = 0}] :
         WriteGraph(a, n, refs, flagged, ends, row)
  BY <1>5
<1> DEFINE idOf(x) == IF x \in known THEN x ELSE row[CHOOSE i \in 1..n : refs[i] = x]
<1>7. PICK new : new = {row[i] : i \in 1..n}
  OBVIOUS
<1>8. PICK checked : checked = {row[i] : i \in CheckedOf(t, flagged)}
  OBVIOUS
<1>9. PICK links : links = {<<idOf(r[1]), idOf(r[2])>> : r \in ends}
  OBVIOUS
<1>10. /\ turnOf' = [c \in Id |-> IF c \in new THEN t ELSE turnOf[c]]
       /\ answer' = [c \in Id |-> IF c \in new THEN attempt[task[a]] ELSE answer[c]]
       /\ components' = (components \ previous[a]) \cup new
       /\ needsFactCheck' = (needsFactCheck \ previous[a]) \cup checked
       /\ relations' = KeptRelations(previous[a]) \cup links
       /\ factChecks' = factChecks \ previous[a]
       /\ todo' = [todo EXCEPT ![a] = checked]
       /\ pc' = [pc EXCEPT ![a] = IF checked = {} THEN "ok" ELSE "schedule"]
  BY <1>1, <1>2, <1>6, <1>7, <1>8, <1>9 DEF WriteGraph
<1>11. n \in Nat /\ CheckedOf(t, flagged) \subseteq 1..n
  <2>1. n \in Nat
    BY EvidenceAssumption
  <2>2. QED
    BY <2>1, CheckedFew
<1>12. /\ \A c \in new : c \in Id /\ turnOf[c] = 0
       /\ checked \subseteq new
  BY <1>7, <1>8, <1>11
<1>13. Cardinality(checked) <= IF t \in Closing THEN 0 ELSE FactChecksPerTurn
  <2>1. PICK k \in Nat : k = IF t \in Closing THEN 0 ELSE FactChecksPerTurn
    BY EvidenceAssumption
  <2>2. /\ IsFiniteSet(CheckedOf(t, flagged))
        /\ Cardinality(CheckedOf(t, flagged)) <= k
    BY <1>11, <2>1, CheckedFew
  <2>3. QED
    BY <1>8, <2>1, <2>2, RowsFew
<1>14. ASSUME NEW x, x \in RefsOf(refs) \cup known
       PROVE  idOf(x) \in new \cup known
  <2>1. CASE x \in known
    BY <2>1
  <2>2. CASE x \notin known
    <3>1. \E i \in 1..n : refs[i] = x
      BY <1>14, <2>2 DEF RefsOf
    <3>2. PICK i \in 1..n : i = CHOOSE k \in 1..n : refs[k] = x
      BY <3>1
    <3>3. idOf(x) = row[i]
      BY <2>2, <3>2
    <3>4. row[i] \in new
      BY <1>7
    <3>5. QED
      BY <3>3, <3>4
  <2>3. QED
    BY <2>1, <2>2
<1>15. ASSUME NEW x \in RefsOf(refs)
       PROVE  idOf(x) \in new
  <2>1. \E i \in 1..n : refs[i] = x
    BY DEF RefsOf
  <2>2. x \notin known
    BY <1>5, <2>1 DEF ValidRefs
  <2>3. PICK i \in 1..n : i = CHOOSE k \in 1..n : refs[k] = x
    BY <2>1
  <2>4. idOf(x) = row[i]
    BY <2>2, <2>3
  <2>5. row[i] \in new
    BY <1>7
  <2>6. QED
    BY <2>4, <2>5
<1> HIDE DEF idOf
<1>16. ASSUME NEW r \in links
       PROVE  r \in Id \X Id /\ r[1] \in new /\ r[2] \in new \cup known
  <2>1. PICK e \in ends : r = <<idOf(e[1]), idOf(e[2])>>
    BY <1>9
  <2>2. e[1] \in RefsOf(refs) /\ e[2] \in RefsOf(refs) \cup known
    BY <1>6 DEF ValidRelation
  <2>3. r[1] \in new /\ r[2] \in new \cup known
    BY <1>14, <1>15, <2>1, <2>2
  <2>4. QED
    BY <1>3, <1>12, <2>1, <2>3
<1>17. Replaces(a, new, checked, links)
  BY <1>1, <1>2, <1>3, <1>10, <1>12, <1>13, <1>16 DEF Replaces
<1>18. new \in SUBSET Id /\ checked \in SUBSET Id /\ links \in SUBSET (Id \X Id)
  BY <1>12, <1>16
<1>19. QED
  BY <1>17, <1>18

LEMMA ReplaceKeepsAttempts ==
    ASSUME Attempts, NEW a \in Attempt, NEW new \in SUBSET Id, NEW checked \in SUBSET Id,
           NEW links \in SUBSET (Id \X Id), Replaces(a, new, checked, links)
    PROVE  Attempts'
<1> USE DEF Attempts
<1>1. \A c \in Id : /\ c \in new => turnOf[c] = 0 /\ turnOf'[c] = task[a]
                    /\ c \notin new => turnOf'[c] = turnOf[c]
  BY DEF Replaces
<1>2. task[a] \in Turn /\ task[a] # 0
  BY Targets DEF Replaces
<1>3. TypeOK'
  <2>1. /\ turnOf' \in [Id -> Turn \cup {0}]
        /\ answer' \in [Id -> Nat]
        /\ components' \subseteq Id /\ needsFactCheck' \subseteq Id
        /\ factChecks' \subseteq components'
        /\ todo' \in [Attempt -> SUBSET Id] /\ pc' \in [Attempt -> Steps]
    <3>1. turnOf' \in [Id -> Turn \cup {0}] /\ answer' \in [Id -> Nat]
      BY <1>2, Targets DEF Replaces, TypeOK
    <3>2. /\ components' \subseteq Id /\ needsFactCheck' \subseteq Id
          /\ factChecks' \subseteq components'
      BY DEF Replaces, TypeOK
    <3>3. todo' \in [Attempt -> SUBSET Id] /\ pc' \in [Attempt -> Steps]
      BY DEF Replaces, TypeOK, Steps
    <3>4. QED
      BY <3>1, <3>2, <3>3
  <2>2. relations' \subseteq Id \X Id
    BY DEF Replaces, TypeOK, KeptRelations
  <2>3. /\ UNCHANGED <<basis, forgotten, taskStatus, attempt, verdict, task, late, read,
                        previous, overrun, faults>>
    BY DEF Replaces, rowVars
  <2>4. QED
    BY <2>1, <2>2, <2>3 DEF TypeOK, Steps
<1>4. Holding'
  BY <1>2, Targets DEF Replaces, Holding, TypeOK, rowVars
<1>5. OneInTime'
  BY DEF Replaces, OneInTime
<1>6. FreshIds'
  BY <1>1, <1>2 DEF Replaces, FreshIds, rowVars
<1>7. OwnTurn'
  <2>1. ASSUME NEW b \in Attempt, task'[b] \in Turn, NEW c \in read'[b].components
        PROVE  turnOf'[c] \in 1..(task'[b] - 1)
    <3>1. c \in Id /\ turnOf[c] \in 1..(task[b] - 1) /\ task'[b] = task[b]
      BY <2>1, TypesOf DEF Replaces, OwnTurn
    <3>2. c \notin new
      BY <1>1, <3>1
    <3>3. QED
      BY <1>1, <3>1, <3>2
  <2>2. ASSUME NEW b \in Attempt, NEW c \in previous'[b] \cup todo'[b]
        PROVE  turnOf'[c] = task'[b] /\ task'[b] \in Turn
    <3>1. task'[b] = task[b] /\ previous'[b] = previous[b]
      BY DEF Replaces
    <3>2. CASE c \in previous[b] \cup todo[b]
      <4>1. c \in Id /\ turnOf[c] = task[b] /\ task[b] \in Turn
        BY <3>2, TypesOf DEF OwnTurn
      <4>2. QED
        BY <1>1, <3>1, <4>1, Targets
    <3>3. CASE c \notin previous[b] \cup todo[b]
      <4>1. b = a /\ c \in checked /\ c \in new
        BY <2>2, <3>1, <3>3 DEF Replaces, TypeOK
      <4>2. QED
        BY <1>1, <1>2, <3>1, <4>1
    <3>4. QED
      BY <3>2, <3>3
  <2>3. ASSUME NEW b \in Attempt
        PROVE  todo'[b] # {} => pc'[b] = "schedule"
    BY DEF Replaces, OwnTurn, TypeOK
  <2>4. QED
    BY <2>1, <2>2, <2>3 DEF OwnTurn
<1>8. QED
  BY <1>3, <1>4, <1>5, <1>6, <1>7

\* A step of the system is one of these.
Step ==
    \/ \E t \in Turn : RegisterAnalysis(t)
    \/ CreateJudgeTask
    \/ Restart
    \/ \E a \in Attempt, x \in Target, step \in {"model", "factChecks"} :
         \E known \in SUBSET components : Enters(a, x, step, known)
    \/ \E a \in Attempt, status \in Settled : Leaves(a, status)
    \/ \E a \in Attempt, step \in Steps : Walks(a, step)
    \/ \E a \in Attempt, new \in SUBSET Id, checked \in SUBSET Id,
          links \in SUBSET (Id \X Id) : Replaces(a, new, checked, links)
    \/ \E a \in Attempt : ScheduleFactCheck(a)
    \/ \E a \in Attempt : Timeout(a)
    \/ \E c \in Id : ComponentGone(c)

LEMMA StepOf ==
    ASSUME Attempts, Next
    PROVE  Step
<1> USE DEF Attempts
<1>1. CASE TaskStep
  BY <1>1 DEF TaskStep, Step
<1>2. ASSUME NEW a \in Attempt, WalkingSteps(a)
      PROVE  Step
  BY <1>2, WalkingStepsWalk DEF Step
<1>3. ASSUME NEW a \in Attempt,
             \/ \E t \in Turn : BeginAnalysis(a, t)
             \/ \E c \in Id : BeginFactCheck(a, c)
             \/ BeginJudgment(a)
      PROVE  Step
  BY <1>3, EnteringSteps DEF Step
<1>4. ASSUME NEW a \in Attempt,
             \/ AnalyzeFails(a) \/ CheckFails(a) \/ JudgeFails(a) \/ DatabaseFails(a)
             \/ ScheduleFails(a) \/ AttemptSucceeds(a)
      PROVE  Step
  BY <1>4, LeavingSteps DEF Step
<1>5. ASSUME NEW a \in Attempt, Replace(a)
      PROVE  Step
  BY <1>5, ReplacingStep DEF Step
<1>6. ASSUME NEW a \in Attempt, AnalyzerStep(a)
      PROVE  Step
  BY <1>2, <1>3, <1>4, <1>5, <1>6 DEF AnalyzerStep, WalkingSteps, Step
<1>7. ASSUME NEW a \in Attempt, FactCheckStep(a)
      PROVE  Step
  BY <1>2, <1>3, <1>7 DEF FactCheckStep, WalkingSteps, Step
<1>8. ASSUME NEW a \in Attempt, JudgeStep(a)
      PROVE  Step
  BY <1>2, <1>3, <1>8 DEF JudgeStep, WalkingSteps
<1>9. ASSUME NEW a \in Attempt, OutcomeStep(a)
      PROVE  Step
  BY <1>4, <1>9 DEF OutcomeStep, Step
<1>10. QED
  BY <1>1, <1>6, <1>7, <1>8, <1>9 DEF Next

LEMMA AttemptsKept == Attempts /\ [Next]_vars => Attempts'
<1> SUFFICES ASSUME Attempts, [Next]_vars
             PROVE  Attempts'
  OBVIOUS
<1>1. CASE Step
  BY <1>1, RegisterKeepsAttempts, JudgeTaskKeepsAttempts, RestartKeepsAttempts,
     EnterKeepsAttempts, LeaveKeepsAttempts, WalkKeepsAttempts, ReplaceKeepsAttempts,
     ScheduleKeepsAttempts, TimeoutKeepsAttempts, GoneKeepsAttempts DEF Step
<1>2. CASE UNCHANGED vars
  BY <1>2 DEF Attempts, TypeOK, Holding, OneInTime, FreshIds, OwnTurn, vars,
              rowVars, graphVars, attemptVars
<1>3. QED
  BY <1>1, <1>2, StepOf

-----------------------------------------------------------------------------
(* What they keep of the evidence *)

\* Steps that leave the graph alone keep what is true of it.
LEMMA GraphUntouched ==
    ASSUME RelationsPointBack, OneReplyPerTurn, UNCHANGED graphVars,
           overrun \subseteq overrun'
    PROVE  RelationsPointBack' /\ OneReplyPerTurn'
BY DEF RelationsPointBack, OneReplyPerTurn, graphVars

LEMMA ChecksUntouched ==
    ASSUME TypeOK, ChecksAreKept, UNCHANGED graphVars, factChecks' = factChecks,
           overrun \subseteq overrun',
           \A x \in Target : taskStatus'[x] = "COMPLETED" => taskStatus[x] = "COMPLETED"
    PROVE  ChecksAreKept'
BY Targets DEF ChecksAreKept, graphVars, TypeOK

LEMMA EnterKeepsRows ==
    ASSUME Attempts, Rows, NEW a \in Attempt, NEW x \in Target,
           NEW step \in {"model", "factChecks"}, NEW known \in SUBSET components,
           Enters(a, x, step, known)
    PROVE  Rows'
<1> USE DEF Attempts, Rows
<1>1. /\ pc[a] = "free" /\ taskStatus[x] = "PENDING"
      /\ task' = [task EXCEPT ![a] = x] /\ pc' = [pc EXCEPT ![a] = step]
      /\ taskStatus' = [taskStatus EXCEPT ![x] = "PROCESSING"]
      /\ UNCHANGED <<graphVars, factChecks, late, previous, todo, overrun>>
  BY DEF Enters, Enter
<1>2. /\ \A y \in Target : /\ taskStatus'[y] = "COMPLETED" => taskStatus[y] = "COMPLETED"
                           /\ taskStatus'[y] = "ABSENT" => taskStatus[y] = "ABSENT"
                           /\ y # x => taskStatus'[y] = taskStatus[y]
      /\ UNCHANGED graphVars /\ factChecks' = factChecks /\ overrun \subseteq overrun'
  BY <1>1 DEF TypeOK
<1>3. /\ \A b \in Attempt : b # a => read'[b] = read[b] /\ pc'[b] = pc[b] /\ task'[b] = task[b]
      /\ x = DebateId => read'[a].components = known /\ pc'[a] = "factChecks"
      /\ task'[a] = x /\ pc'[a] = step
  <2>1. read \in [Attempt -> Read]
    BY DEF TypeOK, Read
  <2>2. CASE read' = read /\ x \in Id
    BY <1>1, <2>2, Targets DEF TypeOK
  <2>3. CASE read' = [read EXCEPT ![a].components = known]
    BY <1>1, <2>1, <2>3, ReadsAre, Targets DEF TypeOK, Enters
  <2>4. QED
    BY <2>2, <2>3 DEF Enters
<1>4. RelationsPointBack' /\ OneReplyPerTurn'
  BY <1>2, GraphUntouched
<1>5. ChecksAreKept'
  BY <1>2, ChecksUntouched
<1>6. Current'
  BY <1>1, <1>3 DEF Current, graphVars
<1>7. Saved'
  BY <1>1, <1>3 DEF Saved, graphVars
<1>8. QED
  BY <1>4, <1>5, <1>6, <1>7

LEMMA WalkKeepsRows ==
    ASSUME Attempts, Rows, NEW a \in Attempt, NEW step \in Steps, Walks(a, step)
    PROVE  Rows'
<1> USE DEF Attempts, Rows
<1>1. /\ UNCHANGED <<taskStatus, graphVars, task, late, todo, overrun>>
      /\ pc' = [pc EXCEPT ![a] = step]
      /\ pc'[a] = step /\ \A b \in Attempt : b # a => pc'[b] = pc[b]
  BY DEF Walks, rowVars, TypeOK
<1>2. task[a] \in Target
  BY TypesOf DEF Walks, Holding
<1>3. RelationsPointBack' /\ OneReplyPerTurn'
  BY <1>1, GraphUntouched DEF graphVars
<1>4. ChecksAreKept'
  <2> SUFFICES ASSUME NEW c \in components, taskStatus[c] = "COMPLETED", c \notin overrun
               PROVE  c \in factChecks'
    BY <1>1 DEF ChecksAreKept, graphVars
  <2>1. c \in factChecks
    BY DEF ChecksAreKept
  <2>2. c # task[a]
    BY <1>2, Targets DEF Holding
  <2>3. QED
    BY <2>1, <2>2 DEF Walks
<1>5. Current'
  BY <1>1 DEF Current, Walks, graphVars
<1>6. Saved'
  <2> SUFFICES ASSUME NEW b \in Attempt, pc'[b] = "ok", task[b] \in components \ overrun
               PROVE  task[b] \in factChecks'
    BY <1>1 DEF Saved, graphVars
  <2>1. CASE b = a
    BY <1>1, <2>1 DEF Walks, TypeOK
  <2>2. CASE b # a
    <3>1. task[b] # task[a]
      BY <1>2, <2>2, Targets DEF OneInTime, Holding
    <3>2. task[b] \in factChecks
      BY <1>1, <2>2 DEF Saved
    <3>3. QED
      BY <3>1, <3>2 DEF Walks
  <2>3. QED
    BY <2>1, <2>2
<1>7. QED
  BY <1>3, <1>4, <1>5, <1>6

LEMMA LeaveKeepsRows ==
    ASSUME Attempts, Rows, NEW a \in Attempt, NEW status \in Settled, Leaves(a, status)
    PROVE  Rows'
<1> USE DEF Attempts, Rows
<1>1. /\ task[a] \in Target /\ pc[a] # "free"
      /\ a \notin late => taskStatus[task[a]] = "PROCESSING"
      /\ a \in late => task[a] \in overrun
      /\ status = "COMPLETED" => pc[a] = "ok"
  BY Targets, TypesOf DEF Leaves, Holding
<1>2. /\ UNCHANGED <<graphVars, factChecks, overrun>>
      /\ task'[a] = None /\ pc'[a] = "free"
      /\ \A b \in Attempt : b # a =>
           /\ task'[b] = task[b] /\ pc'[b] = pc[b] /\ read'[b] = read[b]
           /\ previous'[b] = previous[b] /\ todo'[b] = todo[b]
  BY DEF Leaves, Leave, TypeOK
<1>3. \A x \in Target :
         /\ taskStatus'[x] = "ABSENT" <=> taskStatus[x] = "ABSENT"
         /\ \/ taskStatus'[x] = taskStatus[x]
            \/ x = task[a] /\ a \notin late /\ taskStatus'[x] = status
  BY <1>1 DEF Leaves, Leave, TypeOK, Settled
<1>4. RelationsPointBack'
  BY <1>2 DEF RelationsPointBack, graphVars
<1>5. OneReplyPerTurn'
  BY <1>2 DEF OneReplyPerTurn, graphVars
<1>6. ChecksAreKept'
  <2> SUFFICES ASSUME NEW c \in components, taskStatus'[c] = "COMPLETED", c \notin overrun
               PROVE  c \in factChecks
    BY <1>2 DEF ChecksAreKept, graphVars
  <2>1. c \in Target
    BY Targets DEF TypeOK
  <2>2. taskStatus[c] = "COMPLETED" \/ (c = task[a] /\ pc[a] = "ok")
    BY <1>1, <1>3, <2>1
  <2>3. QED
    BY <2>2 DEF ChecksAreKept, Saved
<1>7. Current'
  BY <1>2 DEF Current, graphVars
<1>8. Saved'
  BY <1>2 DEF Saved, graphVars
<1>9. QED
  BY <1>4, <1>5, <1>6, <1>7, <1>8

\* Of the attempts, what the evidence depends on.
SameAttempts == UNCHANGED <<task, pc, read, previous, todo>>

\* Steps of tasks through which none becomes COMPLETED.
LEMMA TasksKeepRows ==
    ASSUME Attempts, Rows, UNCHANGED <<graphVars, factChecks>>, overrun \subseteq overrun',
           \/ SameAttempts
           \/ \A a \in Attempt : task'[a] = None /\ pc'[a] = "free",
           \A x \in Target : taskStatus'[x] = "COMPLETED" => taskStatus[x] = "COMPLETED"
    PROVE  Rows'
<1> USE DEF Attempts, Rows
<1>1. RelationsPointBack' /\ OneReplyPerTurn'
  BY GraphUntouched
<1>2. ChecksAreKept'
  BY ChecksUntouched
<1>3. Current'
  BY DEF Current, SameAttempts, graphVars
<1>4. Saved'
  BY DEF Saved, SameAttempts, graphVars
<1>5. QED
  BY <1>1, <1>2, <1>3, <1>4

LEMMA TaskStepKeepsRows ==
    ASSUME Attempts, Rows, TaskStep
    PROVE  Rows'
<1>1. CASE \E t \in Turn : RegisterAnalysis(t)
  BY <1>1, TasksKeepRows, Targets
     DEF RegisterAnalysis, SameAttempts, attemptVars, Attempts, TypeOK
<1>2. CASE CreateJudgeTask
  BY <1>2, TasksKeepRows, Targets
     DEF CreateJudgeTask, SameAttempts, attemptVars, Attempts, TypeOK
<1>3. CASE Restart
  <2>1. /\ \A a \in Attempt : task'[a] = None /\ pc'[a] = "free"
        /\ UNCHANGED <<graphVars, factChecks, overrun>>
    BY <1>3 DEF Restart
  <2>2. QED
    BY <1>3, <2>1, RestartedStatus, TasksKeepRows DEF Attempts
<1>4. QED
  BY <1>1, <1>2, <1>3 DEF TaskStep

LEMMA GoneKeepsRows ==
    ASSUME Attempts, Rows, NEW c \in Id, ComponentGone(c)
    PROVE  Rows'
BY TasksKeepRows, Targets
   DEF ComponentGone, SameAttempts, attemptVars, Attempts, TypeOK

LEMMA TimeoutKeepsRows ==
    ASSUME Attempts, Rows, NEW a \in Attempt, Timeout(a)
    PROVE  Rows'
<1>1. PICK x : x = task[a]
  OBVIOUS
<1>2. PICK status \in {"PENDING", "FAILED"} : status = AfterFailure(x)
  BY StatusAfterFailure
<1>3. /\ overrun' = overrun \cup {x}
      /\ taskStatus' = [taskStatus EXCEPT ![x] = status]
      /\ UNCHANGED <<graphVars, factChecks, task, pc, read, previous, todo>>
  BY <1>1, <1>2 DEF Timeout
<1>4. QED
  BY <1>3, TasksKeepRows DEF SameAttempts, Attempts, TypeOK

LEMMA ScheduleKeepsRows ==
    ASSUME Attempts, Rows, NEW a \in Attempt, ScheduleFactCheck(a)
    PROVE  Rows'
<1> USE DEF Attempts, Rows
<1>1. PICK c \in todo[a] :
         /\ taskStatus' = [taskStatus EXCEPT ![c] = IF @ = "ABSENT" THEN "PENDING" ELSE @]
         /\ todo' = [todo EXCEPT ![a] = @ \ {c}]
         /\ pc' = [pc EXCEPT ![a] = IF todo[a] = {c} THEN "ok" ELSE "schedule"]
  BY DEF ScheduleFactCheck, Goto
<1>2. /\ pc[a] = "schedule"
      /\ UNCHANGED <<graphVars, factChecks, task, late, read, previous, overrun>>
  BY DEF ScheduleFactCheck, At
<1>3. /\ c \in Id /\ c \in Target /\ turnOf[c] = task[a] /\ task[a] \in Turn
  BY Targets, TypesOf DEF OwnTurn, TypeOK
<1>4. \A x \in Target :
         \/ taskStatus'[x] = taskStatus[x] /\ (x = c => taskStatus[x] # "ABSENT")
         \/ x = c /\ taskStatus[x] = "ABSENT" /\ taskStatus'[x] = "PENDING"
  BY <1>1, <1>3 DEF TypeOK
<1>5. \A b \in Attempt : b # a => pc'[b] = pc[b] /\ todo'[b] = todo[b]
  BY <1>1 DEF TypeOK
<1>6. /\ pc'[a] \in {"ok", "schedule"} /\ todo'[a] = todo[a] \ {c}
      /\ todo'[a] # {} => pc'[a] = "schedule"
  BY <1>1 DEF TypeOK
<1>7. RelationsPointBack' /\ OneReplyPerTurn'
  BY <1>2, GraphUntouched
<1>8. ChecksAreKept'
  BY <1>2, <1>4, ChecksUntouched
<1>9. Current'
  BY <1>2, <1>5, <1>6 DEF Current, graphVars
<1>10. Saved'
  <2>1. task[a] \notin components
    BY <1>3, Targets DEF TypeOK
  <2>2. QED
    BY <1>2, <1>5, <2>1 DEF Saved, graphVars
<1>11. QED
  BY <1>7, <1>8, <1>9, <1>10

LEMMA ReplaceKeepsRows ==
    ASSUME Attempts, Rows, NEW a \in Attempt, NEW new \in SUBSET Id,
           NEW checked \in SUBSET Id, NEW links \in SUBSET (Id \X Id),
           Replaces(a, new, checked, links)
    PROVE  Rows'
<1> USE DEF Attempts, Rows
<1>1. PICK t \in Turn : t = task[a]
  BY DEF Replaces
<1>2. /\ t \in Target /\ t # 0 /\ t \notin Id
      /\ t \notin overrun => a \notin late /\ taskStatus[t] = "PROCESSING"
  BY <1>1, Targets DEF Holding
<1>3. /\ UNCHANGED <<taskStatus, task, late, read, previous, overrun>>
      /\ pc[a] = "replace" /\ checked \subseteq new
      /\ components' = (components \ previous[a]) \cup new
      /\ needsFactCheck' = (needsFactCheck \ previous[a]) \cup checked
      /\ factChecks' = factChecks \ previous[a]
      /\ relations' = KeptRelations(previous[a]) \cup links
  BY DEF Replaces, rowVars
<1>4. \A c \in Id :
         /\ c \in new => /\ turnOf[c] = 0 /\ turnOf'[c] = t /\ answer'[c] = attempt[task[a]]
                         /\ c \notin components \cup needsFactCheck
                         /\ taskStatus[c] = "ABSENT"
         /\ c \notin new => turnOf'[c] = turnOf[c] /\ answer'[c] = answer[c]
  BY <1>1 DEF Replaces, FreshIds
<1>5. \A c \in components : c \in Id /\ turnOf[c] \in Turn /\ c \notin new
  BY <1>4 DEF TypeOK, FreshIds
<1>6. \A c \in previous[a] : c \in Id /\ turnOf[c] = t /\ c \notin new
  BY <1>1, <1>2, <1>4, TypesOf DEF OwnTurn
<1>7. /\ pc'[a] = IF checked = {} THEN "ok" ELSE "schedule"
      /\ todo'[a] = checked
      /\ \A b \in Attempt : b # a => pc'[b] = pc[b] /\ todo'[b] = todo[b]
  BY DEF Replaces, TypeOK
<1>8. t \notin overrun => \A c \in components : turnOf[c] = t => c \in previous[a]
  BY <1>1, <1>3 DEF Current
<1>9. \A b \in Attempt :
         b # a /\ pc[b] # "free" /\ task[b] \notin overrun => task[b] # t
  BY <1>1, <1>2, Targets DEF OneInTime, Holding
<1>10. RelationsPointBack'
  <2> SUFFICES ASSUME NEW r \in relations'
               PROVE  /\ r[1] \in components'
                      /\ turnOf'[r[2]] \in 1..turnOf'[r[1]]
                      /\ turnOf'[r[2]] = turnOf'[r[1]] => r[2] \in components'
    BY DEF RelationsPointBack
  <2>1. CASE r \in KeptRelations(previous[a])
    <3>1. r \in relations /\ r[1] \notin previous[a] /\ r[2] \notin previous[a]
      BY <2>1 DEF KeptRelations
    <3>2. r[1] \in Id /\ r[2] \in Id
      BY <3>1 DEF TypeOK
    <3>3. /\ r[1] \in components /\ turnOf[r[2]] \in 1..turnOf[r[1]]
          /\ turnOf[r[2]] = turnOf[r[1]] => r[2] \in components
      BY <3>1 DEF RelationsPointBack
    <3>4. turnOf'[r[1]] = turnOf[r[1]] /\ turnOf'[r[2]] = turnOf[r[2]]
      BY <1>4, <1>5, <3>2, <3>3
    <3>5. QED
      BY <1>3, <3>1, <3>3, <3>4
  <2>2. CASE r \in links
    <3>1. r[1] \in new /\ r[2] \in new \cup read[a].components
      BY <2>2 DEF Replaces
    <3>2. r[1] \in components' /\ turnOf'[r[1]] = t /\ t \in Nat /\ t >= 1
      BY <1>3, <1>4, <3>1, Targets
    <3>3. CASE r[2] \in new
      BY <1>3, <1>4, <3>2, <3>3
    <3>4. CASE r[2] \notin new
      <4>1. r[2] \in Id /\ turnOf[r[2]] \in 1..(t - 1)
        BY <1>1, <3>1, <3>4, TypesOf DEF OwnTurn
      <4>2. turnOf'[r[2]] \in 1..(t - 1)
        BY <1>4, <3>4, <4>1
      <4>3. QED
        BY <3>2, <4>2
    <3>5. QED
      BY <3>3, <3>4
  <2>3. QED
    BY <1>3, <2>1, <2>2
<1>11. Current'
  <2> SUFFICES ASSUME NEW b \in Attempt, pc'[b] = "replace", task[b] \notin overrun
               PROVE  previous[b] = {c \in components' : turnOf'[c] = task[b]}
    BY <1>3 DEF Current
  <2>1. b # a /\ pc[b] = "replace" /\ task[b] # t
    BY <1>7, <1>9
  <2>2. previous[b] = {c \in components : turnOf[c] = task[b]}
    BY <2>1 DEF Current
  <2>3. \A c : c \in components' /\ turnOf'[c] = task[b]
               <=> c \in components /\ turnOf[c] = task[b]
    BY <1>3, <1>4, <1>5, <1>6, <2>1
  <2>4. QED
    BY <2>2, <2>3
<1>12. OneReplyPerTurn'
  <2> SUFFICES ASSUME NEW u \in Turn \ overrun,
                      NEW rows, rows = {c \in components' : turnOf'[c] = u}
               PROVE  /\ \A c, d \in rows : answer'[c] = answer'[d]
                      /\ Cardinality(rows \cap needsFactCheck')
                           <= IF u \in Closing THEN 0 ELSE FactChecksPerTurn
    BY <1>3 DEF OneReplyPerTurn
  <2>1. CASE u = t
    <3>1. \A c : c \in rows <=> c \in new
      BY <1>3, <1>4, <1>5, <1>8, <2>1
    <3>2. rows \cap needsFactCheck' = checked
      BY <1>3, <1>4, <3>1
    <3>3. QED
      BY <1>1, <1>4, <2>1, <3>1, <3>2 DEF Replaces
  <2>2. CASE u # t
    <3>1. \A c : c \in rows <=> c \in components /\ turnOf[c] = u
      BY <1>3, <1>4, <1>5, <1>6, <2>2
    <3>2. \A c \in rows : c \in Id /\ c \notin new /\ answer'[c] = answer[c]
      BY <1>4, <1>5, <3>1
    <3>3. rows \cap needsFactCheck' = {c \in components : turnOf[c] = u} \cap needsFactCheck
      BY <1>3, <1>6, <2>2, <3>1, <3>2
    <3>4. QED
      BY <3>1, <3>2, <3>3 DEF OneReplyPerTurn
  <2>3. QED
    BY <2>1, <2>2
<1>13. Saved'
  <2> SUFFICES ASSUME NEW b \in Attempt, pc'[b] = "ok", task[b] \in components' \ overrun
               PROVE  task[b] \in factChecks'
    BY <1>3 DEF Saved
  <2>1. task[b] \in Id /\ b # a /\ pc[b] = "ok"
    BY <1>1, <1>2, <1>3, <1>5, <1>7
  <2>2. task[b] \notin new
    BY <1>4, <2>1, Targets DEF Holding
  <2>3. QED
    BY <1>3, <2>1, <2>2 DEF Saved
<1>14. ChecksAreKept'
  BY <1>3, <1>4 DEF ChecksAreKept
<1>15. QED
  BY <1>10, <1>11, <1>12, <1>13, <1>14

LEMMA RowsKept == Attempts /\ Rows /\ [Next]_vars => Rows'
<1> SUFFICES ASSUME Attempts, Rows, [Next]_vars
             PROVE  Rows'
  OBVIOUS
<1>1. CASE Step
  BY <1>1, TaskStepKeepsRows, EnterKeepsRows, LeaveKeepsRows, WalkKeepsRows,
     ReplaceKeepsRows, ScheduleKeepsRows, TimeoutKeepsRows, GoneKeepsRows
     DEF Step, TaskStep
<1>2. CASE UNCHANGED vars
  BY <1>2 DEF Rows, RelationsPointBack, Current, OneReplyPerTurn, Saved, ChecksAreKept,
              vars, rowVars, graphVars, attemptVars
<1>3. QED
  BY <1>1, <1>2, StepOf

-----------------------------------------------------------------------------
(* Components that wait for their tasks *)

\* Steps that leave them, and the lists, alone.
LEMMA ListedUntouched ==
    ASSUME Attempts, Listed, UNCHANGED <<graphVars, forgotten, late, todo>>,
           \A x \in Target :
               /\ taskStatus'[x] = "COMPLETED" /\ x \in Turn => taskStatus[x] = "COMPLETED"
               /\ taskStatus'[x] = "ABSENT" => taskStatus[x] = "ABSENT",
           \A b \in Attempt :
               \/ task'[b] = task[b] /\ pc'[b] = pc[b] /\ previous'[b] = previous[b]
               \/ task'[b] \notin Turn
               \/ pc'[b] = "model"
               \/ /\ pc'[b] = "replace"
                  /\ previous'[b] = {c \in components : turnOf[c] = task'[b]}
    PROVE  Listed'
<1> USE DEF Attempts
<1> SUFFICES ASSUME NEW c \in components \cap needsFactCheck, taskStatus'[c] = "ABSENT",
                    c \notin forgotten, \A a \in late : c \notin todo[a]
             PROVE  /\ taskStatus'[turnOf[c]] # "COMPLETED"
                    /\ \A b \in Attempt :
                         task'[b] = turnOf[c] /\ b \notin late => Handles(b, c)'
  BY DEF Listed, graphVars
<1>1. c \in Target /\ turnOf[c] \in Turn /\ turnOf[c] \in Target
  BY Targets DEF TypeOK, FreshIds
<1>2. /\ taskStatus[turnOf[c]] # "COMPLETED"
      /\ \A b \in Attempt : task[b] = turnOf[c] /\ b \notin late => Handles(b, c)
  BY <1>1 DEF Listed
<1>3. ASSUME NEW b \in Attempt, task'[b] = turnOf[c], b \notin late
      PROVE  Handles(b, c)'
  BY <1>1, <1>2, <1>3 DEF Handles
<1>4. QED
  BY <1>1, <1>2, <1>3

LEMMA LeaveKeepsListed ==
    ASSUME Attempts, Listed, NEW a \in Attempt, NEW status \in Settled, Leaves(a, status)
    PROVE  Listed'
<1> USE DEF Attempts
<1>1. /\ task[a] \in Target /\ status = "COMPLETED" => pc[a] = "ok"
      /\ late' = late \ {a} /\ UNCHANGED graphVars
      /\ forgotten \subseteq forgotten' /\ (a \in late => todo[a] \subseteq forgotten')
  BY TypesOf DEF Leaves, Leave, Holding
<1>2. /\ task'[a] = None
      /\ \A b \in Attempt : b # a =>
           /\ task'[b] = task[b] /\ pc'[b] = pc[b]
           /\ previous'[b] = previous[b] /\ todo'[b] = todo[b]
  BY DEF Leaves, Leave, TypeOK
<1>3. \A x \in Target :
         /\ taskStatus'[x] = "ABSENT" => taskStatus[x] = "ABSENT"
         /\ \/ taskStatus'[x] = taskStatus[x]
            \/ x = task[a] /\ a \notin late /\ taskStatus'[x] = status
  BY <1>1 DEF Leaves, Leave, TypeOK, Settled
<1> SUFFICES ASSUME NEW c \in components \cap needsFactCheck, taskStatus'[c] = "ABSENT",
                    c \notin forgotten', \A b \in late' : c \notin todo'[b]
             PROVE  /\ taskStatus'[turnOf[c]] # "COMPLETED"
                    /\ \A b \in Attempt :
                         task'[b] = turnOf[c] /\ b \notin late' => Handles(b, c)'
  BY <1>1 DEF Listed, graphVars
<1>4. c \in Target /\ turnOf[c] \in Turn /\ turnOf[c] \in Target
  BY Targets DEF TypeOK, FreshIds
<1>5. /\ taskStatus[c] = "ABSENT" /\ c \notin forgotten
      /\ \A b \in late : c \notin todo[b]
  BY <1>1, <1>2, <1>3, <1>4 DEF TypeOK
<1>6. /\ taskStatus[turnOf[c]] # "COMPLETED"
      /\ \A b \in Attempt : task[b] = turnOf[c] /\ b \notin late => Handles(b, c)
  BY <1>5 DEF Listed
<1>7. taskStatus'[turnOf[c]] # "COMPLETED"
  BY <1>1, <1>3, <1>4, <1>6 DEF Handles
<1>8. ASSUME NEW b \in Attempt, task'[b] = turnOf[c], b \notin late'
      PROVE  Handles(b, c)'
  <2>1. b # a
    BY <1>2, <1>4, <1>8, Targets
  <2>2. QED
    BY <1>1, <1>2, <1>6, <1>8, <2>1 DEF Handles
<1>9. QED
  BY <1>7, <1>8

LEMMA RestartKeepsListed ==
    ASSUME Attempts, Listed, Restart
    PROVE  Listed'
<1> USE DEF Attempts
<1>1. /\ \A b \in Attempt : task'[b] = None
      /\ forgotten' = forgotten \cup UNION {todo[b] : b \in late}
      /\ UNCHANGED graphVars
  BY DEF Restart
<1> SUFFICES ASSUME NEW c \in components \cap needsFactCheck, taskStatus'[c] = "ABSENT",
                    c \notin forgotten'
             PROVE  /\ taskStatus'[turnOf[c]] # "COMPLETED"
                    /\ \A b \in Attempt : task'[b] # turnOf[c]
  BY <1>1 DEF Listed, graphVars
<1>2. c \in Target /\ turnOf[c] \in Turn /\ turnOf[c] \in Target
  BY Targets DEF TypeOK, FreshIds
<1>3. /\ taskStatus[c] = "ABSENT" /\ c \notin forgotten
      /\ \A b \in late : c \notin todo[b]
  BY <1>1, <1>2, RestartedStatus
<1>4. taskStatus[turnOf[c]] # "COMPLETED"
  BY <1>3 DEF Listed
<1>5. QED
  BY <1>1, <1>2, <1>4, RestartedStatus, Targets

LEMMA ScheduleKeepsListed ==
    ASSUME Attempts, Listed, NEW a \in Attempt, ScheduleFactCheck(a)
    PROVE  Listed'
<1> USE DEF Attempts
<1>1. PICK d \in todo[a] :
         /\ taskStatus' = [taskStatus EXCEPT ![d] = IF @ = "ABSENT" THEN "PENDING" ELSE @]
         /\ todo' = [todo EXCEPT ![a] = @ \ {d}]
         /\ pc' = [pc EXCEPT ![a] = IF todo[a] = {d} THEN "ok" ELSE "schedule"]
  BY DEF ScheduleFactCheck, Goto
<1>2. /\ pc[a] = "schedule"
      /\ UNCHANGED <<graphVars, forgotten, task, late, previous>>
  BY DEF ScheduleFactCheck, At
<1>3. d \in Id /\ d \in Target /\ d \notin Turn
  BY Targets, TypesOf
<1>4. /\ \A x \in Target : taskStatus'[x] = taskStatus[x] \/ x = d
      /\ taskStatus'[d] # "ABSENT"
  BY <1>1, <1>3 DEF TypeOK
<1>5. /\ \A b \in Attempt : b # a => pc'[b] = pc[b] /\ todo'[b] = todo[b]
      /\ todo'[a] = todo[a] \ {d}
      /\ todo'[a] # {} => pc'[a] = "schedule"
  BY <1>1 DEF TypeOK
<1> SUFFICES ASSUME NEW c \in components \cap needsFactCheck, taskStatus'[c] = "ABSENT",
                    c \notin forgotten, \A b \in late : c \notin todo'[b]
             PROVE  /\ taskStatus'[turnOf[c]] # "COMPLETED"
                    /\ \A b \in Attempt :
                         task[b] = turnOf[c] /\ b \notin late => Handles(b, c)'
  BY <1>2 DEF Listed, graphVars
<1>6. c \in Target /\ turnOf[c] \in Turn /\ turnOf[c] \in Target
  BY Targets DEF TypeOK, FreshIds
<1>7. /\ c # d /\ taskStatus[c] = "ABSENT"
      /\ \A b \in late : c \notin todo[b]
  BY <1>4, <1>5, <1>6 DEF TypeOK
<1>8. /\ taskStatus[turnOf[c]] # "COMPLETED"
      /\ \A b \in Attempt : task[b] = turnOf[c] /\ b \notin late => Handles(b, c)
  BY <1>7 DEF Listed
<1>9. ASSUME NEW b \in Attempt, task[b] = turnOf[c], b \notin late
      PROVE  Handles(b, c)'
  <2>1. CASE b = a
    <3>1. c \in todo[a]
      BY <1>2, <1>8, <1>9, <2>1 DEF Handles
    <3>2. QED
      BY <1>5, <1>7, <2>1, <3>1 DEF Handles
  <2>2. CASE b # a
    BY <1>2, <1>5, <1>8, <1>9, <2>2 DEF Handles
  <2>3. QED
    BY <2>1, <2>2
<1>10. QED
  BY <1>3, <1>4, <1>6, <1>8, <1>9

LEMMA TimeoutKeepsListed ==
    ASSUME Attempts, Listed, NEW a \in Attempt, Timeout(a)
    PROVE  Listed'
<1> USE DEF Attempts
<1>1. PICK x : x = task[a]
  OBVIOUS
<1>2. PICK status \in {"PENDING", "FAILED"} : status = AfterFailure(x)
  BY StatusAfterFailure
<1>3. /\ late' = late \cup {a}
      /\ taskStatus' = [taskStatus EXCEPT ![x] = status]
      /\ UNCHANGED <<graphVars, forgotten, task, pc, previous, todo>>
  BY <1>1, <1>2 DEF Timeout
<1>4. \A y \in Target : /\ taskStatus'[y] = "COMPLETED" => taskStatus[y] = "COMPLETED"
                        /\ taskStatus'[y] = "ABSENT" => taskStatus[y] = "ABSENT"
  BY <1>3 DEF TypeOK
<1> SUFFICES ASSUME NEW c \in components \cap needsFactCheck, taskStatus'[c] = "ABSENT",
                    c \notin forgotten, \A b \in late \cup {a} : c \notin todo[b]
             PROVE  /\ taskStatus'[turnOf[c]] # "COMPLETED"
                    /\ \A b \in Attempt :
                         task[b] = turnOf[c] /\ b \notin late' => Handles(b, c)
  BY <1>3 DEF Listed, Handles, graphVars
<1>5. c \in Target /\ turnOf[c] \in Target
  BY Targets DEF TypeOK, FreshIds
<1>6. QED
  BY <1>3, <1>4, <1>5 DEF Listed

LEMMA ReplaceKeepsListed ==
    ASSUME Attempts, Listed, NEW a \in Attempt, NEW new \in SUBSET Id,
           NEW checked \in SUBSET Id, NEW links \in SUBSET (Id \X Id),
           Replaces(a, new, checked, links)
    PROVE  Listed'
<1> USE DEF Attempts
<1>1. PICK t \in Turn : t = task[a]
  BY DEF Replaces
<1>2. /\ UNCHANGED <<forgotten, taskStatus, task, late, previous>>
      /\ pc[a] = "replace" /\ checked \subseteq new
      /\ components' = (components \ previous[a]) \cup new
      /\ needsFactCheck' = (needsFactCheck \ previous[a]) \cup checked
  BY DEF Replaces, rowVars
<1>3. /\ pc'[a] = IF checked = {} THEN "ok" ELSE "schedule"
      /\ todo'[a] = checked /\ todo[a] = {}
      /\ \A b \in Attempt : b # a => pc'[b] = pc[b] /\ todo'[b] = todo[b]
  BY <1>2 DEF Replaces, TypeOK, OwnTurn
<1>4. \A c \in Id : /\ c \in new => /\ turnOf'[c] = t
                                    /\ c \notin components \cup needsFactCheck
                    /\ c \notin new => turnOf'[c] = turnOf[c]
  BY <1>1 DEF Replaces, FreshIds
<1>5. a \notin late => taskStatus[t] = "PROCESSING"
  BY <1>1, Targets DEF Holding
<1>6. \A b \in Attempt : task[b] = t /\ b \notin late /\ a \notin late => b = a
  BY <1>1, Targets DEF OneInTime
<1> SUFFICES ASSUME NEW c \in components' \cap needsFactCheck', taskStatus[c] = "ABSENT",
                    c \notin forgotten, \A b \in late : c \notin todo'[b]
             PROVE  /\ taskStatus[turnOf'[c]] # "COMPLETED"
                    /\ \A b \in Attempt :
                         task[b] = turnOf'[c] /\ b \notin late => Handles(b, c)'
  BY <1>2 DEF Listed
<1>7. CASE c \in new
  <2>1. c \in Id /\ turnOf'[c] = t /\ c \in checked
    BY <1>2, <1>4, <1>7
  <2>2. a \notin late
    BY <1>3, <2>1
  <2>3. pc'[a] = "schedule" /\ c \in todo'[a]
    BY <1>3, <2>1
  <2>4. QED
    BY <1>5, <1>6, <2>1, <2>2, <2>3 DEF Handles
<1>8. CASE c \notin new
  <2>1. /\ c \in components \cap needsFactCheck /\ c \notin previous[a]
        /\ c \in Id /\ turnOf'[c] = turnOf[c]
    BY <1>2, <1>4, <1>8 DEF TypeOK
  <2>2. \A b \in late : c \notin todo[b]
    BY <1>3 DEF TypeOK
  <2>3. /\ taskStatus[turnOf[c]] # "COMPLETED"
        /\ \A b \in Attempt : task[b] = turnOf[c] /\ b \notin late => Handles(b, c)
    BY <2>1, <2>2 DEF Listed
  <2>4. ASSUME NEW b \in Attempt, task[b] = turnOf[c], b \notin late
        PROVE  Handles(b, c)'
    <3>1. b # a
      BY <1>2, <2>1, <2>3, <2>4 DEF Handles
    <3>2. QED
      BY <1>2, <1>3, <2>3, <2>4, <3>1 DEF Handles
  <2>5. QED
    BY <2>1, <2>3, <2>4
<1>9. QED
  BY <1>7, <1>8

LEMMA ListedKept == Attempts /\ Listed /\ [Next]_vars => Listed'
<1> SUFFICES ASSUME Attempts, Listed, [Next]_vars
             PROVE  Listed'
  OBVIOUS
<1>1. ASSUME NEW t \in Turn, RegisterAnalysis(t)
      PROVE  Listed'
  BY <1>1, ListedUntouched, Targets DEF RegisterAnalysis, attemptVars, Attempts, TypeOK
<1>2. CASE CreateJudgeTask
  BY <1>2, ListedUntouched, Targets DEF CreateJudgeTask, attemptVars, Attempts, TypeOK
<1>3. ASSUME NEW a \in Attempt, NEW x \in Target, NEW step \in {"model", "factChecks"},
             NEW known \in SUBSET components, Enters(a, x, step, known)
      PROVE  Listed'
  <2>1. /\ UNCHANGED <<graphVars, forgotten, late, previous, todo>>
        /\ taskStatus[x] = "PENDING"
        /\ taskStatus' = [taskStatus EXCEPT ![x] = "PROCESSING"]
        /\ task' = [task EXCEPT ![a] = x] /\ pc' = [pc EXCEPT ![a] = step]
    BY <1>3 DEF Enters, Enter
  <2>2. step = "model" \/ x \notin Turn
    BY <1>3, Targets DEF Enters
  <2>3. \A b \in Attempt : \/ task'[b] = task[b] /\ pc'[b] = pc[b]
                           \/ task'[b] \notin Turn \/ pc'[b] = "model"
    BY <2>1, <2>2 DEF Attempts, TypeOK
  <2>4. QED
    BY <2>1, <2>3, ListedUntouched DEF Attempts, TypeOK
<1>4. ASSUME NEW a \in Attempt, NEW step \in Steps, Walks(a, step)
      PROVE  Listed'
  <2>1. /\ UNCHANGED <<taskStatus, graphVars, forgotten, task, late, todo>>
        /\ pc' = [pc EXCEPT ![a] = step]
        /\ \A b \in Attempt : b # a => previous'[b] = previous[b]
    BY <1>4 DEF Walks, rowVars
  <2>2. CASE task[a] \in Turn
    <3>1. step = "replace" /\ previous'[a] = {c \in components : turnOf[c] = task[a]}
      BY <1>4, <2>2, Targets DEF Walks, Steps
    <3>2. QED
      BY <2>1, <3>1, ListedUntouched DEF Attempts, TypeOK
  <2>3. CASE task[a] \notin Turn
    BY <2>1, <2>3, ListedUntouched DEF Attempts, TypeOK
  <2>4. QED
    BY <2>2, <2>3
<1>5. ASSUME NEW c \in Id, ComponentGone(c)
      PROVE  Listed'
  BY <1>5, ListedUntouched, Targets DEF ComponentGone, attemptVars, Attempts, TypeOK
<1>6. CASE Step
  BY <1>1, <1>2, <1>3, <1>4, <1>5, <1>6, RestartKeepsListed, LeaveKeepsListed,
     ReplaceKeepsListed, ScheduleKeepsListed, TimeoutKeepsListed DEF Step
<1>7. CASE UNCHANGED vars
  BY <1>7, ListedUntouched DEF vars, rowVars, attemptVars
<1>8. QED
  BY <1>6, <1>7, StepOf

-----------------------------------------------------------------------------
(* The judgment *)

\* Steps that begin nothing, and settle only what an attempt has or what waits.
LEMMA AtRestUntouched ==
    ASSUME Attempts, AtRest, UNCHANGED <<basis, turnOf>>,
           \A x \in Turn \cup Id :
               \/ taskStatus'[x] = taskStatus[x]
               \/ taskStatus[x] \in Waiting
               \/ x \in Turn /\ taskStatus[x] = "ABSENT"
               \/ \E a \in Attempt : task[a] = x,
           \A a \in Attempt : task'[a] \in {task[a], None}
    PROVE  AtRest'
BY Targets DEF AtRest, Done

LEMMA AtRestKept == Attempts /\ AtRest /\ [Next]_vars => AtRest'
<1> SUFFICES ASSUME Attempts, AtRest, [Next]_vars
             PROVE  AtRest'
  OBVIOUS
<1> USE DEF Attempts
<1>1. ASSUME NEW t \in Turn, RegisterAnalysis(t)
      PROVE  AtRest'
  BY <1>1, AtRestUntouched, Targets DEF RegisterAnalysis, attemptVars, graphVars, TypeOK
<1>2. CASE CreateJudgeTask
  <2>1. /\ basis' = Untouched /\ task' = task
        /\ \A x \in Turn \cup Id : taskStatus[x] \notin Waiting
        /\ taskStatus' = [taskStatus EXCEPT ![DebateId] = "PENDING"]
    BY <1>2 DEF CreateJudgeTask, attemptVars
  <2>2. \A x \in Turn \cup Id : taskStatus'[x] = taskStatus[x]
    BY <2>1, Targets DEF TypeOK
  <2>3. QED
    BY <2>1, <2>2 DEF AtRest, Done, Untouched
<1>3. CASE Restart
  <2>1. UNCHANGED <<basis, turnOf>> /\ \A a \in Attempt : task'[a] = None
    BY <1>3 DEF Restart, graphVars
  <2>2. QED
    BY <1>3, <2>1, RestartedStatus, AtRestUntouched, Targets DEF Waiting
<1>4. ASSUME NEW a \in Attempt, NEW x \in Target, NEW step \in {"model", "factChecks"},
             NEW known \in SUBSET components, Enters(a, x, step, known)
      PROVE  AtRest'
  <2>1. /\ UNCHANGED <<basis, turnOf>> /\ taskStatus[x] = "PENDING"
        /\ taskStatus' = [taskStatus EXCEPT ![x] = "PROCESSING"]
        /\ task' = [task EXCEPT ![a] = x]
    BY <1>4 DEF Enters, Enter, graphVars
  <2>2. x \in Turn \cup Id => ~Done(x)
    BY <2>1 DEF AtRest, Waiting
  <2>3. \A y \in Target : y # x => taskStatus'[y] = taskStatus[y]
    BY <2>1 DEF TypeOK
  <2>4. \A b \in Attempt : task'[b] \in {task[b], x}
    BY <2>1 DEF TypeOK
  <2>5. QED
    BY <2>1, <2>2, <2>3, <2>4, Targets DEF AtRest, Done
<1>5. ASSUME NEW a \in Attempt, NEW status \in Settled, Leaves(a, status)
      PROVE  AtRest'
  <2>1. /\ UNCHANGED <<basis, turnOf>>
        /\ \A b \in Attempt : task'[b] \in {task[b], None}
        /\ \A x \in Target : x # task[a] => taskStatus'[x] = taskStatus[x]
    BY <1>5 DEF Leaves, Leave, graphVars, TypeOK
  <2>2. QED
    BY <2>1, AtRestUntouched, Targets
<1>6. ASSUME NEW a \in Attempt, NEW step \in Steps, Walks(a, step)
      PROVE  AtRest'
  BY <1>6, AtRestUntouched DEF Walks, rowVars, graphVars
<1>7. ASSUME NEW a \in Attempt, NEW new \in SUBSET Id, NEW checked \in SUBSET Id,
             NEW links \in SUBSET (Id \X Id), Replaces(a, new, checked, links)
      PROVE  AtRest'
  <2>1. /\ UNCHANGED <<basis, taskStatus, task>> /\ task[a] \in Turn
        /\ \A c \in Id : turnOf'[c] = IF c \in new THEN task[a] ELSE turnOf[c]
    BY <1>7 DEF Replaces, rowVars
  <2>2. task[a] \notin basis
    BY <2>1, Targets DEF AtRest, Done
  <2>3. \A x \in Turn \cup Id : Done(x)' => Done(x)
    BY <2>1, <2>2 DEF Done
  <2>4. QED
    BY <2>1, <2>3 DEF AtRest
<1>8. ASSUME NEW a \in Attempt, ScheduleFactCheck(a)
      PROVE  AtRest'
  <2>1. PICK c \in todo[a] :
           taskStatus' = [taskStatus EXCEPT ![c] = IF @ = "ABSENT" THEN "PENDING" ELSE @]
    BY <1>8 DEF ScheduleFactCheck
  <2>2. UNCHANGED <<basis, turnOf, task>>
    BY <1>8 DEF ScheduleFactCheck, graphVars
  <2>3. c \in Id /\ turnOf[c] = task[a] /\ task[a] \in Turn
    BY TypesOf DEF OwnTurn
  <2>4. ~Done(c)
    BY <2>3, Targets DEF AtRest, Done
  <2>5. \A x \in Turn \cup Id : x # c => taskStatus'[x] = taskStatus[x]
    BY <2>1, Targets DEF TypeOK
  <2>6. QED
    BY <2>2, <2>4, <2>5 DEF AtRest, Done
<1>9. ASSUME NEW a \in Attempt, Timeout(a)
      PROVE  AtRest'
  <2>1. /\ UNCHANGED <<basis, turnOf, task>>
        /\ \A x \in Target : x # task[a] => taskStatus'[x] = taskStatus[x]
    BY <1>9 DEF Timeout, graphVars, TypeOK
  <2>2. QED
    BY <2>1, AtRestUntouched, Targets
<1>10. ASSUME NEW c \in Id, ComponentGone(c)
       PROVE  AtRest'
  BY <1>10, AtRestUntouched, Targets
     DEF ComponentGone, attemptVars, graphVars, TypeOK, Waiting
<1>11. CASE Step
  BY <1>1, <1>2, <1>3, <1>4, <1>5, <1>6, <1>7, <1>8, <1>9, <1>10, <1>11 DEF Step
<1>12. CASE UNCHANGED vars
  BY <1>12, AtRestUntouched DEF vars, rowVars, graphVars, attemptVars
<1>13. QED
  BY <1>11, <1>12, StepOf

\* Of what was at rest, no step but the one that chooses it writes anything.
GivenStays ==
    /\ UNCHANGED basis
    /\ \A c \in Id : turnOf'[c] \in basis <=> turnOf[c] \in basis
    /\ UNCHANGED <<Given(components), GivenChecks(factChecks),
                   GivenRelations(relations)>>

LEMMA GraphGiven ==
    ASSUME UNCHANGED <<basis, graphVars, factChecks>>
    PROVE  GivenStays
BY DEF GivenStays, Given, GivenChecks, GivenRelations, graphVars

LEMMA WalkGiven ==
    ASSUME Attempts, AtRest, NEW a \in Attempt, NEW step \in Steps, Walks(a, step)
    PROVE  GivenStays
<1> USE DEF Attempts
<1>1. UNCHANGED <<basis, graphVars>>
  BY DEF Walks
<1>2. \A c : c # task[a] => (c \in factChecks' <=> c \in factChecks)
  BY DEF Walks
<1>3. Given(components)' = Given(components)
  BY <1>1 DEF Given, graphVars
<1>4. ASSUME NEW c \in Given(components) \cap basis
      PROVE  c # task[a]
  BY Targets DEF Given, AtRest, Done, TypeOK
<1>5. GivenChecks(factChecks)' = GivenChecks(factChecks)
  BY <1>1, <1>2, <1>3, <1>4 DEF GivenChecks
<1>6. GivenRelations(relations)' = GivenRelations(relations)
  BY <1>1, <1>3 DEF GivenRelations, graphVars
<1>7. QED
  BY <1>1, <1>3, <1>5, <1>6 DEF GivenStays, graphVars

LEMMA ReplaceGiven ==
    ASSUME Attempts, AtRest, NEW a \in Attempt, NEW new \in SUBSET Id,
           NEW checked \in SUBSET Id, NEW links \in SUBSET (Id \X Id),
           Replaces(a, new, checked, links)
    PROVE  GivenStays
<1> USE DEF Attempts
<1>1. PICK t \in Turn : t = task[a]
  BY DEF Replaces
<1>2. /\ t \notin basis /\ 0 \notin basis
  <2>1. ~Done(t)
    BY <1>1 DEF AtRest
  <2>2. QED
    BY <2>1, Targets DEF Done, TypeOK
<1>3. /\ UNCHANGED basis
      /\ components' = (components \ previous[a]) \cup new
      /\ factChecks' = factChecks \ previous[a]
      /\ relations' = KeptRelations(previous[a]) \cup links
      /\ \A r \in links : r[1] \in new
  BY DEF Replaces
<1>4. \A c \in Id : /\ c \in new => turnOf[c] = 0 /\ turnOf'[c] = t
                    /\ c \notin new => turnOf'[c] = turnOf[c]
  BY <1>1 DEF Replaces
<1>5. \A c \in previous[a] : turnOf[c] = t
  BY <1>1 DEF OwnTurn
<1>6. \A c \in Id : turnOf'[c] \in basis <=> turnOf[c] \in basis
  BY <1>2, <1>4
<1>7. Given(components)' = Given(components)
  BY <1>2, <1>3, <1>4, <1>5, <1>6 DEF Given, TypeOK
<1>8. \A c \in Given(components) : c \notin previous[a] /\ c \notin new
  BY <1>2, <1>4, <1>5 DEF Given
<1>9. GivenChecks(factChecks)' = GivenChecks(factChecks)
  BY <1>3, <1>7, <1>8 DEF GivenChecks
<1>10. GivenRelations(relations)' = GivenRelations(relations)
  <2>1. ASSUME NEW r \in Given(components) \X Given(components)
        PROVE  r \in relations' <=> r \in relations
    BY <1>3, <1>8 DEF KeptRelations
  <2>2. QED
    BY <1>7, <2>1 DEF GivenRelations
<1>11. QED
  BY <1>3, <1>6, <1>7, <1>9, <1>10 DEF GivenStays

\* An attempt that goes on with what it has read.
LEMMA ReadsStay ==
    ASSUME Attempts, JudgmentReads, GivenStays, NEW b \in Attempt,
           \/ task'[b] = task[b] /\ pc'[b] = pc[b] /\ read'[b] = read[b]
           \/ task'[b] # DebateId
           \/ pc'[b] \notin {"factChecks", "relations", "model"}
    PROVE  task'[b] = DebateId => Informed(b)'
<1> SUFFICES ASSUME task'[b] = DebateId, pc'[b] \in {"factChecks", "relations", "model"}
             PROVE  Informed(b)'
  BY DEF Informed
<1>1. task[b] = DebateId /\ pc'[b] = pc[b] /\ read'[b] = read[b]
  OBVIOUS
<1>2. read[b].components \subseteq Id
  BY TypesOf DEF Attempts
<1>3. Given(read[b].components)' = Given(read[b].components)
  BY <1>1, <1>2 DEF Given, GivenStays
<1>4. GivenChecks(read[b].factChecks)' = GivenChecks(read[b].factChecks)
  BY <1>1 DEF GivenChecks, GivenStays
<1>5. GivenRelations(read[b].relations)' = GivenRelations(read[b].relations)
  BY <1>1 DEF GivenRelations, GivenStays
<1>6. QED
  BY <1>1, <1>3, <1>4, <1>5 DEF JudgmentReads, Informed, GivenStays

LEMMA WalkKeepsReads ==
    ASSUME Attempts, AtRest, JudgmentReads, NEW a \in Attempt, NEW step \in Steps,
           Walks(a, step)
    PROVE  JudgmentReads'
<1>1. GivenStays
  BY WalkGiven
<1>2. /\ UNCHANGED <<basis, graphVars, task>> /\ pc'[a] = step
      /\ \A b \in Attempt : b # a => pc'[b] = pc[b] /\ read'[b] = read[b]
      /\ read'[a].components = read[a].components
  BY DEF Walks, Attempts, TypeOK
<1>3. ASSUME NEW b \in Attempt, b # a
      PROVE  task'[b] = DebateId => Informed(b)'
  BY <1>1, <1>2, <1>3, ReadsStay
<1>4. task'[a] = DebateId => Informed(a)'
  <2>1. CASE task[a] # DebateId \/ step = "ok"
    BY <1>1, <1>2, <2>1, ReadsStay
  <2>2. CASE task[a] = DebateId /\ step # "ok"
    <3>1. pc[a] \in {"factChecks", "relations"} /\ step \in {"relations", "model"}
      BY <2>2 DEF Walks
    <3>2. Given(read[a].components) = Given(components)
      BY <2>2, <3>1 DEF JudgmentReads, Informed
    <3>3. Given(components) \subseteq read[a].components
      BY <3>2 DEF Given
    <3>4. Given(read[a].components)' = Given(components)'
      BY <1>2, <3>2 DEF Given, graphVars
    <3>5. CASE step = "relations"
      <4>1. read'[a].factChecks = factChecks \cap read[a].components
        BY <2>2, <3>5 DEF Walks
      <4>2. GivenChecks(read[a].factChecks)' = GivenChecks(factChecks)
        BY <1>1, <3>3, <4>1 DEF GivenChecks, GivenStays
      <4>3. QED
        BY <1>1, <1>2, <3>4, <3>5, <4>2 DEF Informed, GivenStays
    <3>6. CASE step = "model"
      <4>1. /\ read'[a].factChecks = read[a].factChecks /\ pc[a] = "relations"
            /\ read'[a].relations = RelationsAmong(read[a].components)
        BY <2>2, <3>6 DEF Walks
      <4>2. GivenChecks(read[a].factChecks) = GivenChecks(factChecks)
        BY <2>2, <4>1 DEF JudgmentReads, Informed
      <4>3. GivenChecks(read[a].factChecks)' = GivenChecks(factChecks)'
        BY <1>1, <4>1, <4>2 DEF GivenChecks, GivenStays
      <4>4. GivenRelations(read[a].relations)' = GivenRelations(relations)
        BY <1>1, <3>3, <4>1 DEF GivenRelations, GivenStays, RelationsAmong
      <4>5. QED
        BY <1>1, <3>4, <4>3, <4>4 DEF Informed, GivenStays
    <3>7. QED
      BY <3>1, <3>5, <3>6
  <2>3. QED
    BY <2>1, <2>2
<1>5. QED
  BY <1>3, <1>4 DEF JudgmentReads

LEMMA EnterKeepsReads ==
    ASSUME Attempts, JudgmentReads, NEW a \in Attempt, NEW x \in Target,
           NEW step \in {"model", "factChecks"}, NEW known \in SUBSET components,
           Enters(a, x, step, known)
    PROVE  JudgmentReads'
<1>1. /\ UNCHANGED <<basis, graphVars, factChecks>>
      /\ task' = [task EXCEPT ![a] = x] /\ pc' = [pc EXCEPT ![a] = step]
  BY DEF Enters, Enter
<1>2. GivenStays
  BY <1>1, GraphGiven
<1>3. /\ task'[a] = x /\ pc'[a] = step
      /\ \A b \in Attempt : b # a => task'[b] = task[b] /\ pc'[b] = pc[b]
  BY <1>1 DEF Attempts, TypeOK
<1>4. read \in [Attempt -> Read]
  BY DEF Attempts, TypeOK, Read
<1>5. \A b \in Attempt : b # a => read'[b] = read[b]
  BY <1>4 DEF Enters
<1>6. ASSUME x = DebateId
      PROVE  Informed(a)'
  <2>1. step = "factChecks" /\ read' = [read EXCEPT ![a].components = components]
    BY <1>6, Targets DEF Enters
  <2>2. read'[a].components = components
    BY <1>4, <2>1, ReadsAre
  <2>3. Given(read[a].components)' = Given(components)'
    BY <1>1, <2>2 DEF Given, graphVars
  <2>4. QED
    BY <1>3, <2>1, <2>3 DEF Informed
<1>7. QED
  BY <1>2, <1>3, <1>5, <1>6, ReadsStay DEF JudgmentReads

LEMMA JudgmentReadsKept ==
    Attempts /\ AtRest /\ JudgmentReads /\ [Next]_vars => JudgmentReads'
<1> SUFFICES ASSUME Attempts, AtRest, JudgmentReads, [Next]_vars
             PROVE  JudgmentReads'
  OBVIOUS
<1>1. ASSUME UNCHANGED <<basis, graphVars, factChecks>>,
             \/ UNCHANGED <<task, pc, read>>
             \/ \E a \in Attempt :
                  /\ task'[a] # DebateId
                  /\ \A b \in Attempt : b # a => /\ task'[b] = task[b] /\ pc'[b] = pc[b]
                                                 /\ read'[b] = read[b]
             \/ \E a \in Attempt : /\ UNCHANGED <<task, read>> /\ task[a] # DebateId
                                   /\ \A b \in Attempt : b # a => pc'[b] = pc[b]
      PROVE  JudgmentReads'
  <2>1. GivenStays
    BY <1>1, GraphGiven
  <2>2. ASSUME NEW b \in Attempt
        PROVE  task'[b] = DebateId => Informed(b)'
    BY <1>1, <2>1, ReadsStay
  <2>3. QED
    BY <2>2 DEF JudgmentReads
<1>2. ASSUME NEW t \in Turn, RegisterAnalysis(t)
      PROVE  JudgmentReads'
  BY <1>1, <1>2 DEF RegisterAnalysis, attemptVars
<1>3. CASE CreateJudgeTask
  <2>1. task' = task /\ \A a \in Attempt : task[a] # DebateId
    BY <1>3, Targets DEF CreateJudgeTask, attemptVars, Attempts, Holding
  <2>2. QED
    BY <2>1 DEF JudgmentReads
<1>4. CASE Restart
  BY <1>4, Targets DEF Restart, JudgmentReads
<1>5. ASSUME NEW a \in Attempt, NEW status \in Settled, Leaves(a, status)
      PROVE  JudgmentReads'
  <2>1. /\ UNCHANGED <<basis, graphVars, factChecks>> /\ task'[a] = None
        /\ \A b \in Attempt : b # a => /\ task'[b] = task[b] /\ pc'[b] = pc[b]
                                       /\ read'[b] = read[b]
    BY <1>5 DEF Leaves, Leave, Attempts, TypeOK
  <2>2. QED
    BY <1>1, <2>1, Targets
<1>6. ASSUME NEW a \in Attempt, NEW new \in SUBSET Id, NEW checked \in SUBSET Id,
             NEW links \in SUBSET (Id \X Id), Replaces(a, new, checked, links)
      PROVE  JudgmentReads'
  <2>1. GivenStays
    BY <1>6, ReplaceGiven
  <2>2. /\ UNCHANGED <<task, read>> /\ task[a] # DebateId
        /\ \A b \in Attempt : b # a => pc'[b] = pc[b]
    BY <1>6, Targets DEF Replaces, Attempts, TypeOK
  <2>3. ASSUME NEW b \in Attempt
        PROVE  task'[b] = DebateId => Informed(b)'
    BY <2>1, <2>2, ReadsStay
  <2>4. QED
    BY <2>3 DEF JudgmentReads
<1>7. ASSUME NEW a \in Attempt, ScheduleFactCheck(a)
      PROVE  JudgmentReads'
  <2>1. task[a] # DebateId
    BY <1>7, Targets DEF ScheduleFactCheck, At, Attempts, Holding
  <2>2. /\ UNCHANGED <<basis, graphVars, factChecks, task, read>>
        /\ \A b \in Attempt : b # a => pc'[b] = pc[b]
    BY <1>7 DEF ScheduleFactCheck, Goto, Attempts, TypeOK
  <2>3. QED
    BY <1>1, <2>1, <2>2
<1>8. ASSUME NEW a \in Attempt, Timeout(a)
      PROVE  JudgmentReads'
  BY <1>1, <1>8 DEF Timeout
<1>9. ASSUME NEW c \in Id, ComponentGone(c)
      PROVE  JudgmentReads'
  BY <1>1, <1>9 DEF ComponentGone, attemptVars
<1>10. CASE Step
  BY <1>2, <1>3, <1>4, <1>5, <1>6, <1>7, <1>8, <1>9, <1>10, EnterKeepsReads,
     WalkKeepsReads DEF Step
<1>11. CASE UNCHANGED vars
  BY <1>1, <1>11 DEF vars, rowVars, attemptVars
<1>12. QED
  BY <1>10, <1>11, StepOf

-----------------------------------------------------------------------------
(* The verdict *)

LEMMA VerdictKept == VerdictIsFair /\ [Next]_vars => VerdictIsFair'
<1> SUFFICES ASSUME VerdictIsFair, [Next]_vars
             PROVE  VerdictIsFair'
  OBVIOUS
<1>1. ASSUME NEW a \in Attempt, CompleteJudgment(a)
      PROVE  VerdictIsFair'
  <2>1. CASE verdict' = verdict
    BY <2>1 DEF VerdictIsFair
  <2>2. CASE verdict' # verdict
    <3>1. PICK o \in Opinion : verdict' = Judged(HybridJudgment(o))
      BY <1>1, <2>2 DEF CompleteJudgment
    <3>2. QED
      BY <3>1, JudgedFits DEF VerdictIsFair
  <2>3. QED
    BY <2>1, <2>2
<1>2. CASE verdict' = verdict
  BY <1>2 DEF VerdictIsFair
<1>3. CASE TaskStep
  BY <1>2, <1>3 DEF TaskStep, RegisterAnalysis, CreateJudgeTask, Restart
<1>4. ASSUME NEW a \in Attempt,
             AnalyzerStep(a) \/ FactCheckStep(a) \/ JudgeStep(a) \/ OutcomeStep(a)
      PROVE  CompleteJudgment(a) \/ verdict' = verdict
  BY <1>4 DEF AnalyzerStep, FactCheckStep, JudgeStep, OutcomeStep, BeginAnalysis,
              BeginReplace, Replace, ScheduleFactCheck, ScheduleFails, BeginFactCheck,
              ComponentGone, DeleteFactCheck, SaveFactCheck, BeginJudgment,
              ReadFactChecks, ReadRelations, AnalyzeFails, CheckFails, JudgeFails,
              ModelFails, DatabaseFails, AttemptSucceeds, Timeout
<1>5. CASE UNCHANGED vars
  BY <1>2, <1>5 DEF vars
<1>6. QED
  BY <1>1, <1>2, <1>3, <1>4, <1>5 DEF Next

-----------------------------------------------------------------------------
(* Theorems *)

LEMMA InvInitially == Init => Inv
<1> SUFFICES ASSUME Init
             PROVE  Inv
  OBVIOUS
<1> USE DEF Init
<1>1. TypeOK
  BY EvidenceAssumption, Targets, NothingIsRead DEF TypeOK, Read
<1>2. Holding /\ OneInTime /\ FreshIds /\ OwnTurn
  BY Targets DEF Holding, OneInTime, FreshIds, OwnTurn
<1>3. RelationsPointBack /\ Current /\ Saved /\ ChecksAreKept
  BY DEF RelationsPointBack, Current, Saved, ChecksAreKept
<1>4. OneReplyPerTurn
  <2>1. \A t \in Turn : {c \in components : turnOf[c] = t} = {}
    OBVIOUS
  <2>2. QED
    BY <2>1, FS_EmptySet, EvidenceAssumption DEF OneReplyPerTurn
<1>5. Listed /\ AtRest /\ JudgmentReads
  BY Targets DEF Listed, AtRest, Done, JudgmentReads
<1>6. VerdictIsFair
  BY DEF VerdictIsFair
<1>7. QED
  BY <1>1, <1>2, <1>3, <1>4, <1>5, <1>6 DEF Inv, Attempts, Rows

LEMMA Invariant == Spec => []Inv
<1>1. Inv /\ [Next]_vars => Inv'
  BY AttemptsKept, RowsKept, ListedKept, AtRestKept, JudgmentReadsKept, VerdictKept
     DEF Inv
<1>2. QED
  BY InvInitially, <1>1, PTL DEF Spec

(***************************************************************************)
(* Attempts, rows of the graph, results and the judgment have their types  *)
(* through every timeout and crash; a stored result has its component.     *)
(***************************************************************************)
THEOREM EvidenceTypes == Spec => []TypeOK
<1>1. Inv => TypeOK
  BY DEF Inv, Attempts
<1>2. QED
  BY Invariant, <1>1, PTL

(***************************************************************************)
(* The argument graph never points forward in time or from nowhere, late,  *)
(* repeated and concurrent analyses included.                              *)
(***************************************************************************)
THEOREM GraphPointsBack == Spec => []RelationsPointBack
<1>1. Inv => RelationsPointBack
  BY DEF Inv, Rows
<1>2. QED
  BY Invariant, <1>1, PTL

(***************************************************************************)
(* However often a turn is analyzed, its components come from one reply    *)
(* and no more than the cap of them is checked, unless an attempt outlived *)
(* its timeout.                                                            *)
(***************************************************************************)
THEOREM RetriesReplace == Spec => []OneReplyPerTurn
<1>1. Inv => OneReplyPerTurn
  BY DEF Inv, Rows
<1>2. QED
  BY Invariant, <1>1, PTL

(***************************************************************************)
(* Every component that asks for a check has its task once its turn is     *)
(* analysed, although an analysis may fail or die between the commit of    *)
(* the graph and its last task; all but those of a late attempt, whose own *)
(* calls of schedule are still to come, or failed.                         *)
(***************************************************************************)
THEOREM NoCheckForgotten == Spec => []FlaggedIsScheduled
<1>1. Inv => FlaggedIsScheduled
  BY DEF Inv, Listed, FlaggedIsScheduled
<1>2. QED
  BY Invariant, <1>1, PTL

(***************************************************************************)
(* The result of a COMPLETED check is there as long as its component,      *)
(* although a retry deletes it first and inserts it in a second statement. *)
(***************************************************************************)
THEOREM ResultsStay == Spec => []ChecksAreKept
<1>1. Inv => ChecksAreKept
  BY DEF Inv, Rows
<1>2. QED
  BY Invariant, <1>1, PTL

(***************************************************************************)
(* What no handler was at when the JUDGE task was made, turns with a task  *)
(* and their components, every attempt of the judgment reads as it is      *)
(* stored: components, results and relations, in three queries, whatever   *)
(* late attempts and analyses registered since write between them.         *)
(***************************************************************************)
THEOREM JudgmentIsInformed == Spec => []JudgeReadsWhole
<1>1. Inv => JudgeReadsWhole
  <2> SUFFICES ASSUME Inv, NEW a \in Attempt, At(a, "JUDGE", "model")
               PROVE  /\ Given(read[a].components) = Given(components)
                      /\ GivenChecks(read[a].factChecks) = GivenChecks(factChecks)
                      /\ GivenRelations(read[a].relations) = GivenRelations(relations)
    BY DEF JudgeReadsWhole
  <2>1. task[a] = DebateId /\ pc[a] = "model"
    BY TypesOf, Kinds DEF At, Inv, Attempts, Holding
  <2>2. QED
    BY <2>1 DEF Inv, JudgmentReads, Informed
<1>2. QED
  BY Invariant, <1>1, PTL

(***************************************************************************)
(* Nobody loses to a side that scored no better on any axis, and only      *)
(* equal totals are a draw: of every judgment that is ever stored.         *)
(***************************************************************************)
THEOREM StoredVerdictFair == Spec => []VerdictIsFair
<1>1. Inv => VerdictIsFair
  BY DEF Inv
<1>2. QED
  BY Invariant, <1>1, PTL
=================================================================================
