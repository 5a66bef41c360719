-------------------------- MODULE TurnScheduleProofs --------------------------
(***************************************************************************)
(* What is derived from the number of confirmed turns, for every number of *)
(* rounds: each turn has a place of its own, sides alternate, and a        *)
(* command passes in one turn only, for one member.                        *)
(***************************************************************************)
EXTENDS TurnSchedule, FiniteSetTheorems, TLAPS

\* An index is twice its round, and one more for side B.
LEMMA Halves ==
    ASSUME NEW i \in Nat
    PROVE  /\ i \div 2 \in Nat
           /\ i % 2 \in {0, 1}
           /\ i = 2 * (i \div 2) + (i % 2)
  OBVIOUS

\* A round is known by its phase and number.
LEMMA RoundsAreDistinct ==
    ASSUME NEW n \in Nat, NEW k \in 0..(n + 1), NEW h \in 0..(n + 1),
           RoundOf(n, k) = RoundOf(n, h)
    PROVE  k = h
  <1>1. CASE k = 0
    BY <1>1 DEF RoundOf
  <1>2. CASE k \in 1..n
    BY <1>2 DEF RoundOf
  <1>3. CASE k = n + 1
    BY <1>3 DEF RoundOf
  <1> QED
    BY <1>1, <1>2, <1>3

\* A slot is a round and a side.
LEMMA SlotIs ==
    ASSUME NEW n \in Nat, NEW i \in 0..(Size(n) - 1)
    PROVE  /\ i \div 2 \in 0..(n + 1)
           /\ SlotAt(n, i) = [phase |-> RoundOf(n, i \div 2).phase,
                              round |-> RoundOf(n, i \div 2).round,
                              side |-> IF i % 2 = 0 THEN "SIDE_A" ELSE "SIDE_B"]
           /\ SlotAt(n, i) = Build(n)[i]
           /\ SlotAt(n, i) \in TurnSlot
  <1>1. i \in Nat /\ Size(n) = 2 * (n + 2)
    BY DEF Size
  <1>2. i \div 2 \in 0..(n + 1)
    BY <1>1, Halves
  <1>3. RoundOf(n, i \div 2).phase \in DebatePhase /\ RoundOf(n, i \div 2).round \in Nat
    BY <1>2 DEF RoundOf, DebatePhase
  <1> QED
    BY <1>2, <1>3 DEF SlotAt, Build, TurnSlot, DebateSide

\* NoSlot is no slot of a schedule.
LEMMA SlotExists ==
    ASSUME NEW n \in Nat, NEW i \in Nat
    PROVE  SlotAt(n, i) # NoSlot <=> i \in 0..(Size(n) - 1)
  <1>1. ASSUME i \in 0..(Size(n) - 1)
        PROVE  SlotAt(n, i) # NoSlot
    <2>1. SlotAt(n, i).phase \in DebatePhase
      BY <1>1, SlotIs DEF TurnSlot
    <2> QED
      BY <2>1 DEF NoSlot, DebatePhase
  <1> QED
    BY <1>1 DEF SlotAt

\* Two turns never share a slot, so indexOf finds the turn it is asked for
\* (DebateTurnSchedule.indexOf).
THEOREM SlotsAreDistinct ==
    ASSUME NEW n \in Nat, NEW i \in 0..(Size(n) - 1), NEW j \in 0..(Size(n) - 1),
           SlotAt(n, i) = SlotAt(n, j)
    PROVE  i = j
  <1>1. i \in Nat /\ j \in Nat
    BY DEF Size
  <1>2. RoundOf(n, i \div 2).phase = RoundOf(n, j \div 2).phase
        /\ RoundOf(n, i \div 2).round = RoundOf(n, j \div 2).round
        /\ (i % 2 = 0 <=> j % 2 = 0)
    BY SlotIs
  <1>3. RoundOf(n, i \div 2) = RoundOf(n, j \div 2)
    BY <1>2 DEF RoundOf
  <1>4. i \div 2 = j \div 2
    BY <1>3, SlotIs, RoundsAreDistinct
  <1>5. i % 2 = j % 2
    BY <1>1, <1>2, Halves
  <1> QED
    BY <1>1, <1>4, <1>5, Halves

\* indexOf is the inverse of at.
LEMMA IndexOfSlot ==
    ASSUME NEW n \in Nat, NEW i \in 0..(Size(n) - 1)
    PROVE  IndexOf(n, SlotAt(n, i)) = i
  <1> DEFINE k == IndexOf(n, SlotAt(n, i))
  <1>1. Build(n)[i] = SlotAt(n, i)
    BY SlotIs
  <1>2. k \in 0..(Size(n) - 1) /\ Build(n)[k] = SlotAt(n, i)
    BY <1>1 DEF IndexOf
  <1>3. SlotAt(n, k) = SlotAt(n, i)
    BY <1>2, SlotIs
  <1> QED
    BY <1>2, <1>3, SlotsAreDistinct

\* The sides take turns from the first slot to the last, and the debate is over
\* after the second closing statement and not before (DebateTurnSchedule.next,
\* isLast): what DebateChat takes for granted when it counts turns.
THEOREM TurnsAlternate ==
    ASSUME NEW n \in Nat, NEW i \in 0..(Size(n) - 1)
    PROVE  /\ SlotAt(n, i).side = (IF i % 2 = 0 THEN "SIDE_A" ELSE "SIDE_B")
           /\ NextSlot(n, SlotAt(n, i)) = SlotAt(n, i + 1)
           /\ NextSlot(n, SlotAt(n, i)) # NoSlot =>
                SlotAt(n, i + 1).side = OppositeSide(SlotAt(n, i).side)
           /\ IsLast(n, SlotAt(n, i)) <=> NextSlot(n, SlotAt(n, i)) = NoSlot
           /\ IsLast(n, SlotAt(n, i)) <=> i + 1 = Size(n)
           /\ SlotAt(n, i).phase = "CLOSING" <=> i >= Size(n) - 2
  <1>0. i \in Nat /\ i + 1 \in Nat /\ Size(n) \in Nat /\ Size(n) = 2 * (n + 2)
    BY DEF Size
  <1>1. SlotAt(n, i).side = IF i % 2 = 0 THEN "SIDE_A" ELSE "SIDE_B"
    BY SlotIs
  <1>2. IndexOf(n, SlotAt(n, i)) = i
    BY IndexOfSlot
  <1>3. NextSlot(n, SlotAt(n, i)) = SlotAt(n, i + 1)
    BY <1>2 DEF NextSlot
  <1>4. ASSUME SlotAt(n, i + 1) # NoSlot
        PROVE  SlotAt(n, i + 1).side = OppositeSide(SlotAt(n, i).side)
    <2>1. i + 1 \in 0..(Size(n) - 1)
      BY <1>0, <1>4, SlotExists
    <2>2. SlotAt(n, i + 1).side = IF (i + 1) % 2 = 0 THEN "SIDE_A" ELSE "SIDE_B"
      BY <2>1, SlotIs
    <2>3. (i + 1) % 2 = 0 <=> i % 2 # 0
      BY <1>0
    <2> QED
      BY <1>1, <2>2, <2>3 DEF OppositeSide
  <1>5. IsLast(n, SlotAt(n, i)) <=> i + 1 = Size(n)
    BY <1>0, <1>2 DEF IsLast
  <1>6. SlotAt(n, i + 1) = NoSlot <=> i + 1 = Size(n)
    BY <1>0, SlotExists
  <1>7. SlotAt(n, i).phase = "CLOSING" <=> i >= Size(n) - 2
    <2>1. i \div 2 \in 0..(n + 1) /\ SlotAt(n, i).phase = RoundOf(n, i \div 2).phase
      BY SlotIs
    <2>2. RoundOf(n, i \div 2).phase = "CLOSING" <=> i \div 2 = n + 1
      BY <2>1 DEF RoundOf
    <2>3. i \div 2 = n + 1 <=> i >= 2 * (n + 1)
      BY <1>0, <2>1, Halves
    <2> QED
      BY <1>0, <2>1, <2>2, <2>3
  <1> QED
    BY <1>1, <1>3, <1>4, <1>5, <1>6, <1>7

\* A command passes in one turn only and for one member only: a draft or a
\* finalization that is repeated, or comes late, never counts for another turn
\* or another speaker (assertCommandAllowed).
THEOREM CommandOfOneTurn ==
    ASSUME NEW n \in Nat, NEW speakers \in Speakers, NEW c \in TurnCommand,
           NEW i \in Nat, NEW j \in Nat, NEW r, NEW s, NEW m, NEW o,
           CommandError(DeriveCurrentTurn(r, n, i), speakers, m, c) = "none",
           CommandError(DeriveCurrentTurn(s, n, j), speakers, o, c) = "none"
    PROVE  /\ i = j /\ m = o
           /\ r = "IN_PROGRESS"
           /\ i \in 0..(Size(n) - 1)
           /\ m = speakers[SlotAt(n, i).side]
  <1>0. /\ r = "IN_PROGRESS" /\ DeriveCurrentTurn(r, n, i) = SlotAt(n, i)
        /\ DeriveCurrentTurn(s, n, j) = SlotAt(n, j)
    BY DEF CommandError, DeriveCurrentTurn
  <1>1. /\ SlotAt(n, i) # NoSlot /\ SlotAt(n, j) # NoSlot
        /\ m = c.speakerId /\ o = c.speakerId
        /\ SlotAt(n, i) = [phase |-> c.phase, round |-> c.round, side |-> c.side]
        /\ SlotAt(n, j) = [phase |-> c.phase, round |-> c.round, side |-> c.side]
        /\ c.side = ResolveSide(speakers, m) /\ ResolveSide(speakers, m) # "none"
    BY <1>0 DEF CommandError
  <1>2. i \in 0..(Size(n) - 1) /\ j \in 0..(Size(n) - 1)
    BY <1>1, SlotExists
  <1>3. i = j
    BY <1>1, <1>2, SlotsAreDistinct
  <1>4. m = speakers[SlotAt(n, i).side]
    BY <1>1 DEF ResolveSide
  <1> QED
    BY <1>0, <1>1, <1>2, <1>3, <1>4

\* What the chat confirmed is what everybody derives from the row again: place,
\* phase, round, and the side, which comes from the author (confirmTurn,
\* toDebateTurn, resolveTurnSlot).
THEOREM RowsKeepTheirTurn ==
    ASSUME NEW n \in Nat, NEW speakers \in Speakers, NEW i \in 0..(Size(n) - 1)
    PROVE  LET row == ConfirmedRow(n, speakers, i)
               slot == SlotAt(n, i)
               turn == ToDebateTurn(n, speakers, row)
           IN /\ turn.side = slot.side
              /\ turn.phase = slot.phase /\ turn.round = slot.round
              /\ turn.speakerId = speakers[slot.side]
              /\ ResolveTurnSlot(n, turn.sequence)
                   = [phase |-> slot.phase, round |-> slot.round]
  <1> DEFINE slot == SlotAt(n, i)
             row == ConfirmedRow(n, speakers, i)
  <1>1. i \in Int /\ (i + 1) - 1 = i
    BY DEF Size
  <1>2. row = [sequence |-> i + 1, memberId |-> speakers[slot.side]]
    BY DEF ConfirmedRow
  <1>3. slot.side \in DebateSide
    BY SlotIs DEF TurnSlot
  <1>4. (speakers[slot.side] = speakers["SIDE_A"]) <=> slot.side = "SIDE_A"
    BY <1>3 DEF Speakers, DebateSide
  <1>5. ToDebateTurn(n, speakers, row)
          = [sequence |-> i + 1, speakerId |-> speakers[slot.side],
             phase |-> slot.phase, round |-> slot.round,
             side |-> IF speakers[slot.side] = speakers["SIDE_A"]
                        THEN "SIDE_A" ELSE "SIDE_B"]
    BY <1>1, <1>2 DEF ToDebateTurn
  <1>6. ResolveTurnSlot(n, i + 1) = [phase |-> slot.phase, round |-> slot.round]
    BY <1>1 DEF ResolveTurnSlot
  <1> QED
    BY <1>3, <1>4, <1>5, <1>6 DEF DebateSide

\* The chat, the REST queries, the analyzer and the judge never disagree on a
\* debate: from the rows of its first f turns, and of any others that have no
\* sequence, each of them derives the turn the chat is at and the turns it
\* confirmed (deriveCurrentTurn: the chat state and the Debate DTO must give
\* the same answer; loadTranscript leaves nothing out).
THEOREM ReadersAgree ==
    ASSUME NEW n \in Nat, NEW speakers \in Speakers, NEW f \in 0..Size(n),
           NEW rest, \A row \in rest : row.sequence = 0,
           NEW rows,
           rows = rest \cup {ConfirmedRow(n, speakers, i) : i \in 0..(f - 1)}
    PROVE  /\ DebateView("IN_PROGRESS", n, rows).current = SlotAt(n, f)
           /\ FindTurns(n, speakers, rows)
                = {[sequence |-> i + 1, speakerId |-> speakers[SlotAt(n, i).side],
                    phase |-> SlotAt(n, i).phase, round |-> SlotAt(n, i).round,
                    side |-> SlotAt(n, i).side] : i \in 0..(f - 1)}
           /\ Transcript(n, speakers, rows) = FindTurns(n, speakers, rows)
           /\ \A row \in Confirmed(rows) :
                AnalyzedTurn(n, speakers, row) = ToDebateTurn(n, speakers, row)
  <1> DEFINE row(i) == ConfirmedRow(n, speakers, i)
             written == {row(i) : i \in 0..(f - 1)}
             turn(i) == [sequence |-> i + 1,
                         speakerId |-> speakers[SlotAt(n, i).side],
                         phase |-> SlotAt(n, i).phase,
                         round |-> SlotAt(n, i).round,
                         side |-> SlotAt(n, i).side]
  <1>0. f \in Nat /\ Size(n) \in Nat /\ 0..(f - 1) \subseteq 0..(Size(n) - 1)
    BY DEF Size
  <1>1. \A i \in 0..(f - 1) : row(i) = [sequence |-> i + 1,
                                     memberId |-> speakers[SlotAt(n, i).side]]
    BY DEF ConfirmedRow
  <1>2. Confirmed(rows) = written
    <2>1. rows = rest \cup written
      OBVIOUS
    <2>2. \A i \in 0..(f - 1) : row(i).sequence # 0
      BY <1>0, <1>1
    <2> HIDE DEF row
    <2>3. \A r \in written : r.sequence # 0
      BY <2>2
    <2> HIDE DEF written
    <2> QED
      BY <2>1, <2>3 DEF Confirmed
  <1>3. Cardinality(written) = f
    <2> DEFINE g == [i \in 0..(f - 1) |-> row(i)]
    <2>1. \A i, j \in 0..(f - 1) : g[i] = g[j] => i = j
      <3> SUFFICES ASSUME NEW i \in 0..(f - 1), NEW j \in 0..(f - 1), g[i] = g[j]
                   PROVE  i = j
        OBVIOUS
      <3>1. row(i).sequence = i + 1 /\ row(j).sequence = j + 1
        BY <1>1
      <3> QED
        BY <1>0, <3>1
    <2>2. g \in Bijection(0..(f - 1), written)
      <3> HIDE DEF row
      <3>1. g \in [0..(f - 1) -> written]
        OBVIOUS
      <3>2. \A w \in written : \E i \in 0..(f - 1) : g[i] = w
        OBVIOUS
      <3> HIDE DEF g, written
      <3> QED
        BY <2>1, <3>1, <3>2 DEF Bijection, Injection, IsInjective, Surjection
    <2>3. IsFiniteSet(0..(f - 1)) /\ Cardinality(0..(f - 1)) = f
      <3>1. 0 \in Int /\ f - 1 \in Int
        BY <1>0
      <3>2. /\ IsFiniteSet(0..(f - 1))
            /\ Cardinality(0..(f - 1)) = IF 0 > f - 1 THEN 0 ELSE (f - 1) - 0 + 1
        BY <3>1, FS_Interval, Zenon
      <3> QED
        BY <1>0, <3>2
    <2> HIDE DEF g
    <2>4. ExistsBijection(0..(f - 1), written)
      BY <2>2 DEF ExistsBijection
    <2> QED
      BY <2>3, <2>4, FS_Bijection
  <1>4. DebateView("IN_PROGRESS", n, rows).current = SlotAt(n, f)
    BY <1>2, <1>3 DEF DebateView, DeriveCurrentTurn, FinalizedTurnCount
  <1>5. ASSUME NEW i \in 0..(f - 1)
        PROVE  /\ ToDebateTurn(n, speakers, row(i)) = turn(i)
               /\ AnalyzedTurn(n, speakers, row(i)) = turn(i)
               /\ SlotAt(n, row(i).sequence - 1) = SlotAt(n, i)
               /\ SlotAt(n, i) # NoSlot
               /\ ResolveSide(speakers, row(i).memberId) = SlotAt(n, i).side
               /\ SlotAt(n, i).side \in DebateSide
    <2>1. i \in 0..(Size(n) - 1) /\ i \in Nat /\ (i + 1) - 1 = i
      BY <1>0
    <2>2. SlotAt(n, i).side \in DebateSide /\ SlotAt(n, i) # NoSlot
      BY <2>1, SlotIs, SlotExists DEF TurnSlot
    <2>3. row(i).sequence = i + 1 /\ row(i).memberId = speakers[SlotAt(n, i).side]
      BY <1>1
    <2>4. /\ speakers[SlotAt(n, i).side] = speakers["SIDE_A"]
               <=> SlotAt(n, i).side = "SIDE_A"
          /\ speakers[SlotAt(n, i).side] = speakers["SIDE_B"]
               <=> SlotAt(n, i).side = "SIDE_B"
      BY <2>2 DEF Speakers, DebateSide
    <2>5. ResolveSide(speakers, speakers[SlotAt(n, i).side]) = SlotAt(n, i).side
      BY <2>2, <2>4 DEF ResolveSide, DebateSide
    <2>6. (IF speakers[SlotAt(n, i).side] = speakers["SIDE_A"]
           THEN "SIDE_A" ELSE "SIDE_B") = SlotAt(n, i).side
      BY <2>2, <2>4 DEF DebateSide
    <2>7. ResolveTurnSlot(n, i + 1) = [phase |-> SlotAt(n, i).phase,
                                       round |-> SlotAt(n, i).round]
      BY <2>1 DEF ResolveTurnSlot
    <2> HIDE DEF row
    <2>8. ToDebateTurn(n, speakers, row(i)) = turn(i)
      BY <2>1, <2>3, <2>6 DEF ToDebateTurn
    <2>9. AnalyzedTurn(n, speakers, row(i)) = turn(i)
      BY <2>1, <2>3, <2>6, <2>7 DEF AnalyzedTurn
    <2> QED
      BY <2>1, <2>2, <2>3, <2>5, <2>8, <2>9
  <1> HIDE DEF row, turn
  <1>6. FindTurns(n, speakers, rows) = {turn(i) : i \in 0..(f - 1)}
    BY <1>2, <1>5 DEF FindTurns
  <1>7. Transcript(n, speakers, rows) = {turn(i) : i \in 0..(f - 1)}
    <2>1. {r \in written : /\ SlotAt(n, r.sequence - 1) # NoSlot
                           /\ ResolveSide(speakers, r.memberId) # "none"} = written
      BY <1>5 DEF DebateSide
    <2> DEFINE entry(r) == [sequence  |-> r.sequence,
                            speakerId |-> r.memberId,
                            phase |-> SlotAt(n, r.sequence - 1).phase,
                            round |-> SlotAt(n, r.sequence - 1).round,
                            side  |-> ResolveSide(speakers, r.memberId)]
    <2>2. \A i \in 0..(f - 1) : entry(row(i)) = turn(i)
      BY <1>1, <1>5 DEF turn
    <2>3. Transcript(n, speakers, rows) = {entry(r) : r \in written}
      BY <1>2, <2>1 DEF Transcript
    <2> HIDE DEF entry
    <2> QED
      BY <2>2, <2>3
  <1> QED
    BY <1>2, <1>4, <1>5, <1>6, <1>7 DEF turn
===============================================================================
