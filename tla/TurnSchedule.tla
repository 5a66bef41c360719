---------------------------- MODULE TurnSchedule ----------------------------
(***************************************************************************)
(* Who speaks when: the schedule of a debate, the current turn derived     *)
(* from the number of confirmed ones, and the check every command of a     *)
(* speaker passes (debate-turn.ts, judge-turn-slot.ts, DebateChatState).   *)
(* Nothing of it is stored: the chat, the REST queries and the judge each  *)
(* derive it again.  DebateChat names a turn by its index, which is sound  *)
(* because of what is proved in TurnScheduleProofs.                        *)
(***************************************************************************)
EXTENDS Integers, FiniteSets

CONSTANT
    Member

DebatePhase == {"OPENING", "REBUTTAL_QUESTION", "CLOSING"}
DebateSide == {"SIDE_A", "SIDE_B"}
TurnSlot == [phase : DebatePhase, round : Nat, side : DebateSide]
NoSlot == [phase |-> "none", round |-> 0, side |-> "none"]

-----------------------------------------------------------------------------
(* The schedule: an opening round, n rounds of rebuttal, a closing round *)

\* Build: every round is pushed as its two slots.
RoundOf(n, k) ==
    IF k = 0 THEN [phase |-> "OPENING", round |-> 1]
    ELSE IF k \in 1..n THEN [phase |-> "REBUTTAL_QUESTION", round |-> k]
    ELSE [phase |-> "CLOSING", round |-> 1]

Size(n) == 2 * (n + 2)

Build(n) ==
    [i \in 0..(Size(n) - 1) |->
       [phase |-> RoundOf(n, i \div 2).phase,
        round |-> RoundOf(n, i \div 2).round,
        side  |-> IF i % 2 = 0 THEN "SIDE_A" ELSE "SIDE_B"]]

SlotAt(n, i) == IF i \in 0..(Size(n) - 1) THEN Build(n)[i] ELSE NoSlot

IndexOf(n, s) == CHOOSE i \in 0..(Size(n) - 1) : Build(n)[i] = s

NextSlot(n, s) == SlotAt(n, IndexOf(n, s) + 1)

IsLast(n, s) == IndexOf(n, s) = Size(n) - 1

-----------------------------------------------------------------------------
(* The speakers *)

OppositeSide(side) == IF side = "SIDE_A" THEN "SIDE_B" ELSE "SIDE_A"

\* CreateDebateDto lets nobody debate with himself.
Speakers == {s \in [DebateSide -> Member] : s["SIDE_A"] # s["SIDE_B"]}

\* Spectators have no side.
ResolveSide(speakers, m) ==
    IF m = speakers["SIDE_A"] THEN "SIDE_A"
    ELSE IF m = speakers["SIDE_B"] THEN "SIDE_B"
    ELSE "none"

-----------------------------------------------------------------------------
(* The current turn *)

\* finalized: how many turns are confirmed.
DeriveCurrentTurn(status, n, finalized) ==
    IF status = "IN_PROGRESS" THEN SlotAt(n, finalized) ELSE NoSlot

\* A command says who speaks, for which side, and in which turn.
TurnCommand == [speakerId : Member, side : DebateSide, phase : DebatePhase, round : Nat]

\* assertCommandAllowed, in the order of its checks.
CommandError(slot, speakers, m, c) ==
    IF slot = NoSlot THEN "NOT_IN_PROGRESS"
    ELSE IF ResolveSide(speakers, m) = "none" THEN "NOT_PARTICIPANT"
    ELSE IF c.speakerId # m \/ c.side # ResolveSide(speakers, m)
      THEN "SPEAKER_MISMATCH"
    ELSE IF slot # [phase |-> c.phase, round |-> c.round, side |-> c.side]
      THEN "TURN_MISMATCH"
    ELSE "none"

-----------------------------------------------------------------------------
(* Confirmed turns *)

\* toDebateTurn: phase and round come from the place of the row, the side from
\* its author.
ToDebateTurn(n, speakers, row) ==
    [sequence |-> row.sequence,
     speakerId |-> row.memberId,
     phase |-> SlotAt(n, row.sequence - 1).phase,
     round |-> SlotAt(n, row.sequence - 1).round,
     side |-> IF row.memberId = speakers["SIDE_A"] THEN "SIDE_A" ELSE "SIDE_B"]

\* What confirmTurn writes: the turn of the current slot's speaker, whoever or
\* whatever confirmed it.
ConfirmedRow(n, speakers, finalized) ==
    [sequence |-> finalized + 1, memberId |-> speakers[SlotAt(n, finalized).side]]

\* The analyzer's and the fact checker's view of the row.
ResolveTurnSlot(n, sequence) ==
    [phase |-> SlotAt(n, sequence - 1).phase, round |-> SlotAt(n, sequence - 1).round]
-----------------------------------------------------------------------------
(* The readers of debate_message *)

\* A row; sequence is 0 where it is null: a row no turn was confirmed with.
MessageRow == [sequence : Nat, memberId : Member]

Confirmed(rows) == {row \in rows : row.sequence # 0}

\* DebatesService.loadProgress.
FinalizedTurnCount(rows) == Cardinality(Confirmed(rows))

\* GET /debates and GET /debates/:id.  A row without a status has not started.
DebateView(status, n, rows) ==
    [status  |-> IF status = "none" THEN "READY" ELSE status,
     current |-> DeriveCurrentTurn(status, n, FinalizedTurnCount(rows))]

\* GET /debates/:id/turns, in the order of their sequence.
FindTurns(n, speakers, rows) ==
    {ToDebateTurn(n, speakers, row) : row \in Confirmed(rows)}

\* The turn the analyzer works on.
AnalyzedTurn(n, speakers, row) ==
    [sequence  |-> row.sequence,
     speakerId |-> row.memberId,
     phase |-> ResolveTurnSlot(n, row.sequence).phase,
     round |-> ResolveTurnSlot(n, row.sequence).round,
     side  |-> IF row.memberId = speakers["SIDE_A"] THEN "SIDE_A" ELSE "SIDE_B"]

\* What the judging models read: rows outside of the schedule, or of members
\* without a side, are left out; blank turns are not.
Transcript(n, speakers, rows) ==
    {[sequence  |-> row.sequence,
      speakerId |-> row.memberId,
      phase |-> SlotAt(n, row.sequence - 1).phase,
      round |-> SlotAt(n, row.sequence - 1).round,
      side  |-> ResolveSide(speakers, row.memberId)] :
        row \in {r \in Confirmed(rows) :
                  /\ SlotAt(n, r.sequence - 1) # NoSlot
                  /\ ResolveSide(speakers, r.memberId) # "none"}}
=============================================================================
