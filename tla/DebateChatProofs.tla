-------------------------- MODULE DebateChatProofs --------------------------
(***************************************************************************)
(* Theorems about DebateChat, for every number of turns, commands, drafts, *)
(* requests and faults.  What the pipeline is told needs no more: the      *)
(* place of a turn in the database is unique (NewsInv).  That commands do  *)
(* not overlap, the lifecycle, that drafts are kept, and that a debate in  *)
(* progress is never forgotten, need locks that do not expire under their  *)
(* holder (ChatInv, DraftsInv, WatchInv).                                  *)
(***************************************************************************)
EXTENDS DebateChat, FiniteSetTheorems, TLAPS

USE ChatAssumption

-----------------------------------------------------------------------------
(* Types *)

\* What a command starts from is well typed.
LEMMA BlankTypes == NoState \in States /\ NoChanges \in Changes
BY DEF NoState, NoChanges, NoTurn, States, Changes, Turns, L!DebateStatus,
       L!DebateEndReason

\* So is what it works on once the debate is started.
LEMMA StartedType ==
    ASSUME NEW s \in States
    PROVE  Started(s) \in States /\ Started(s).turns = s.turns
BY DEF States, Started, L!DebateStatus

\* The part of TypeOK about calls.
CallsOK ==
    /\ pc \in [Command -> {"idle", "lock", "row", "turns", "work", "commit",
                           "redis", "unlock", "after"}]
    /\ op \in [Command -> {"none", "restore", "start", "append", "finalize",
                           "forfeit", "expire", "refused"}]
    /\ slot \in [Command -> Slot]
    /\ message \in [Command -> Message \cup {None}]
    /\ \A c \in Command : op[c] = "append" => message[c] # None

\* A coroutine that ends forgets, and keeps everything well typed.
LEMMA ForgetType ==
    ASSUME TypeOK, NEW c \in Command, Forget(c)
    PROVE  /\ CallsOK'
           /\ state' \in [Command -> States]
           /\ changes' \in [Command -> Changes]
<1>1. 0 \in Slot
  BY DEF Slot
<1>2. QED
  BY <1>1, BlankTypes DEF TypeOK, Forget, Goto, CallsOK

\* A call keeps everything well typed.
LEMMA CallType ==
    ASSUME TypeOK, NEW c \in Command, NEW k \in Slot, NEW m \in Message \cup {None},
           NEW o \in {"restore", "start", "append", "finalize", "forfeit", "expire"},
           o = "append" => m # None, Call(c, o, k, m)
    PROVE  CallsOK'
BY DEF TypeOK, Call, Goto, CallsOK

\* The end of a command's work keeps everything well typed.
LEMMA WorkedType ==
    ASSUME TypeOK, NEW c \in Command, NEW s \in States, NEW ch \in Changes,
           Worked(c, s, ch)
    PROVE  TypeOK'
<1>1. [ch EXCEPT !.row = ch.row \/ state[c].status = "READY"] \in Changes
  BY DEF Changes
<1>2. state' \in [Command -> States] /\ changes' \in [Command -> Changes]
  BY <1>1 DEF Worked, TypeOK
<1>3. QED
  BY <1>2 DEF Worked, Goto, TypeOK, debateVars, storeVars, toldVars,
              callVars, boundVars, L!TypeOK

\* So does a refusal.
LEMMA RefusedType ==
    ASSUME TypeOK, NEW c \in Command, Refused(c)
    PROVE  TypeOK'
BY DEF Refused, Goto, TypeOK, debateVars, storeVars, toldVars, workVars, boundVars, L!TypeOK

\* The drafts a command may touch, and its state, are well typed.
LEMMA WorkTypes ==
    ASSUME TypeOK, NEW c \in Command
    PROVE  /\ state[c] \in States /\ Started(state[c]) \in States
           /\ Started(state[c]).turns = state[c].turns
           /\ state[c].turns \in Nat
           /\ state[c].turns \in Slot => Current(c) \in Seq(Message)
           /\ message[c] \in Message \cup {None}
<1>1. state[c] \in States
  BY DEF TypeOK
<1>2. QED
  BY <1>1, StartedType DEF TypeOK, States, Current

\* Confirming a turn keeps everything well typed.
LEMMA ConfirmTurnType ==
    ASSUME TypeOK, NEW c \in Command, ConfirmTurn(c), state[c].turns \in Slot
    PROVE  TypeOK'
<1> DEFINE s == Started(state[c])
           next == [s EXCEPT !.turns = s.turns + 1]
           ch == [NoChanges EXCEPT !.turn = [confirmed |-> TRUE, content |-> Current(c)]]
           said == Append(SubSeq(turns, 1, s.turns), Current(c))
<1>1. next \in States
  BY WorkTypes DEF States, Slot
<1>2. ch \in Changes
  BY WorkTypes, BlankTypes DEF Changes, Turns
<1>3. SomeoneSpoke(said) \in BOOLEAN
  BY DEF SomeoneSpoke, Spoke
<1>4. /\ [next EXCEPT !.status = "DEBATE_FINALIZED",
                      !.endReason = "ALL_TURNS_FINALIZED"] \in States
      /\ [next EXCEPT !.status = "FAILED", !.endReason = "TOTAL_TIME_EXPIRED"]
           \in States
  BY <1>1 DEF States, L!DebateStatus, L!DebateEndReason
<1>5. /\ [ch EXCEPT !.row = TRUE] \in Changes
      /\ [ch EXCEPT !.row = TRUE, !.reward = SomeoneSpoke(said)] \in Changes
  BY <1>2, <1>3 DEF Changes
<1> HIDE DEF s, next, ch, said
<1>6. \/ Worked(c, next, ch)
      \/ Worked(c, [next EXCEPT !.status = "DEBATE_FINALIZED",
                                !.endReason = "ALL_TURNS_FINALIZED"],
                [ch EXCEPT !.row = TRUE])
      \/ Worked(c, [next EXCEPT !.status = "FAILED",
                                !.endReason = "TOTAL_TIME_EXPIRED"],
                [ch EXCEPT !.row = TRUE, !.reward = SomeoneSpoke(said)])
  BY DEF ConfirmTurn, s, next, ch, said
<1>7. QED
  BY <1>1, <1>2, <1>4, <1>5, <1>6, WorkedType

\* Whatever its operation, the work of a command keeps everything well typed.
LEMMA WorkType ==
    ASSUME TypeOK, NEW c \in Command, Work(c)
    PROVE  TypeOK'
<1> DEFINE s == Started(state[c])
<1>1. s \in States /\ NoChanges \in Changes
  BY WorkTypes, BlankTypes
<1>2. HasSlot(state[c]) \/ HasSlot(s) => state[c].turns \in Slot
  BY WorkTypes DEF HasSlot, Slot
<1>3. CASE Restore(c)
  BY <1>1, <1>3, WorkedType DEF Restore
<1>4. CASE Start(c)
  BY <1>1, <1>4, WorkedType, RefusedType DEF Start
<1>5. CASE AppendDraft(c)
  <2>1. [NoChanges EXCEPT !.draft = message[c]] \in Changes
    BY <1>1, WorkTypes DEF Changes
  <2>2. QED
    BY <1>1, <1>5, <2>1, WorkedType, RefusedType DEF AppendDraft
<1>6. CASE FinalizeTurn(c)
  BY <1>2, <1>6, ConfirmTurnType, RefusedType DEF FinalizeTurn, Allowed
<1>7. CASE ExpireTurn(c)
  BY <1>1, <1>2, <1>7, ConfirmTurnType, WorkedType DEF ExpireTurn
<1>8. CASE ForfeitDebate(c)
  <2>1. state[c] \in States
    BY WorkTypes
  <2>2. [state[c] EXCEPT !.status = "FAILED", !.endReason = "FORFEIT"] \in States
    BY <2>1 DEF States, L!DebateStatus, L!DebateEndReason
  <2>3. [NoChanges EXCEPT !.row = TRUE, !.reward = TRUE] \in Changes
    BY <1>1 DEF Changes
  <2>4. QED
    BY <1>8, <2>2, <2>3, WorkedType, RefusedType DEF ForfeitDebate
<1>9. QED
  BY <1>3, <1>4, <1>5, <1>6, <1>7, <1>8 DEF Work

\* The transaction keeps everything well typed: it adds a turn only at its place.
LEMMA CommitType ==
    ASSUME TypeOK, NEW c \in Command, Commit(c)
    PROVE  TypeOK'
<1>1. state[c] \in States /\ changes[c] \in Changes
  BY DEF TypeOK
<1>2. CASE Refused(c)
  BY <1>2, RefusedType
<1>3. CASE ~Refused(c)
  <2>1. /\ turns' \in Seq(Seq(Message)) /\ Len(turns') <= NumTurns
    <3>1. CASE changes[c].turn.confirmed
      <4>1. turns' = Append(turns, changes[c].turn.content) /\ Len(turns) < NumTurns
        BY <1>1, <1>3, <3>1 DEF Commit, States, TypeOK
      <4>2. changes[c].turn.content \in Seq(Message)
        BY <1>1 DEF Changes, Turns
      <4>3. QED
        BY <4>1, <4>2 DEF TypeOK
    <3>2. CASE ~changes[c].turn.confirmed
      BY <1>3, <3>2 DEF Commit, TypeOK
    <3>3. QED
      BY <3>1, <3>2
  <2>2. (L!TypeOK)'
    <3>1. /\ state[c].status \in L!DebateStatus
          /\ state[c].endReason \in L!DebateEndReason
      BY <1>1 DEF States
    <3>2. L!TypeOK
      BY DEF TypeOK
    <3>3. /\ debateStatus' \in {debateStatus, state[c].status}
          /\ endReason' \in {endReason, state[c].endReason}
          /\ rewards' \in {rewards, rewards + 1}
          /\ judgment' = judgment
      BY <1>3 DEF Commit
    <3>4. QED
      BY <3>1, <3>2, <3>3 DEF L!TypeOK
  <2>3. QED
    BY <1>3, <2>1, <2>2
       DEF Commit, Goto, TypeOK, callVars, workVars, toldVars, boundVars
<1>4. QED
  BY <1>2, <1>3

\* The pipeline of a draft, whole or in part, keeps Redis well typed.
LEMMA StoredType ==
    ASSUME TypeOK, NEW c \in Command, SaveDrafts(c) \/ SaveDraftsFails(c)
    PROVE  /\ drafts' \in [Slot -> Seq(Message)]
           /\ cmids' \subseteq Message
           /\ lost' \subseteq Message /\ unrecorded' \subseteq Message
<1> DEFINE m == changes[c].draft
           k == state[c].turns
<1>1. /\ m \in Message \cup {None} /\ drafts \in [Slot -> Seq(Message)]
      /\ cmids \subseteq Message /\ lost \subseteq Message /\ unrecorded \subseteq Message
  BY DEF TypeOK, Changes
<1>2. /\ cmids' \in {cmids, cmids \cup {m}} /\ (cmids' # cmids => m # None)
      /\ lost' \in {lost, lost \cup {m}} /\ (lost' # lost => m # None)
      /\ unrecorded' \in {unrecorded, unrecorded \cup {m}}
      /\ unrecorded' # unrecorded => m # None
      /\ \/ drafts' = drafts
         \/ m # None /\ drafts' = [drafts EXCEPT ![k] = Append(@, m)]
         \/ drafts' = [drafts EXCEPT ![k - 1] = <<>>]
  BY DEF SaveDrafts, SaveDraftsFails
<1> HIDE DEF m, k
<1>3. drafts' \in [Slot -> Seq(Message)]
  <2>1. CASE m # None /\ drafts' = [drafts EXCEPT ![k] = Append(@, m)]
    <3>1. \A q \in Seq(Message) : Append(q, m) \in Seq(Message)
      BY <1>1, <2>1
    <3>2. QED
      BY <1>1, <2>1, <3>1
  <2>2. CASE drafts' = [drafts EXCEPT ![k - 1] = <<>>]
    <3>1. <<>> \in Seq(Message)
      OBVIOUS
    <3>2. QED
      BY <1>1, <2>2, <3>1
  <2>3. QED
    BY <1>1, <1>2, <2>1, <2>2
<1>4. QED
  BY <1>1, <1>2, <1>3

\* The other steps of a command keep everything well typed.
LEMMA CommandType ==
    ASSUME TypeOK, NEW c \in Command, CommandStep(c)
    PROVE  TypeOK'
<1>1. state[c] \in States /\ changes[c] \in Changes
  BY DEF TypeOK
<1> USE DEF debateVars, storeVars, toldVars, callVars, workVars, boundVars
<1>2. CASE AcquireLock(c)
  BY <1>2 DEF AcquireLock, Goto, TypeOK, L!TypeOK
<1>3. CASE LockBusy(c)
  <2>1. timer' \in Slot \cup {None, Retry}
    BY <1>3 DEF LockBusy, TypeOK
  <2>2. QED
    BY <1>3, <2>1, ForgetType DEF CallsOK, LockBusy, TypeOK, L!TypeOK
<1>4. CASE LoadRow(c)
  <2>1. state' \in [Command -> States]
    <3>1. /\ debateStatus \in L!DebateStatus /\ endReason \in L!DebateEndReason
      BY DEF TypeOK, L!TypeOK
    <3>2. [state[c] EXCEPT !.status = debateStatus, !.endReason = endReason] \in States
      BY <1>1, <3>1 DEF States
    <3>3. state' = [state EXCEPT ![c] = [state[c] EXCEPT !.status = debateStatus,
                                                        !.endReason = endReason]]
      BY <1>4 DEF LoadRow, TypeOK
    <3>4. QED
      BY <3>2, <3>3 DEF TypeOK
  <2>2. QED
    BY <1>4, <2>1 DEF LoadRow, Goto, TypeOK, L!TypeOK
<1>5. CASE LoadTurns(c)
  <2>1. state' \in [Command -> States]
    <3>1. [state[c] EXCEPT !.turns = Len(turns)] \in States
      <4>1. Len(turns) \in 0..NumTurns
        BY DEF TypeOK
      <4>2. QED
        BY <1>1, <4>1 DEF States
    <3>2. state' = [state EXCEPT ![c] = [state[c] EXCEPT !.turns = Len(turns)]]
      BY <1>5 DEF LoadTurns, TypeOK
    <3>3. QED
      BY <3>1, <3>2 DEF TypeOK
  <2>2. QED
    BY <1>5, <2>1 DEF LoadTurns, Goto, TypeOK, L!TypeOK
<1>6. CASE Work(c)
  BY <1>6, WorkType
<1>7. CASE Commit(c)
  BY <1>7, CommitType
<1>8. CASE SaveDrafts(c)
  BY <1>8, StoredType DEF SaveDrafts, Goto, TypeOK, L!TypeOK
<1>9. CASE Unlock(c)
  <2>1. lock' \in Command \cup {None, Dead}
    BY <1>9 DEF Unlock, TypeOK
  <2>2. CASE Forget(c)
    BY <1>9, <2>1, <2>2, ForgetType
       DEF CallsOK, Unlock, TypeOK, L!TypeOK
  <2>3. CASE Goto(c, "after") /\ UNCHANGED <<callVars, workVars>>
    BY <1>9, <2>1, <2>3 DEF Unlock, Goto, TypeOK, L!TypeOK
  <2>4. QED
    BY <1>9, <2>2, <2>3 DEF Unlock
<1>10. CASE After(c)
  <2>1. timer' \in Slot \cup {None, Retry}
    BY <1>1, <1>10 DEF After, DeadlineOf, HasSlot, Slot, States, TypeOK
  <2>2. announced' \in [Slot -> Nat] /\ handedOver' \in Nat
    <3>1. announced \in [Slot -> Nat] /\ handedOver \in Nat
      BY DEF TypeOK
    <3>2. Announced(c)
      BY <1>10 DEF After
    <3>3. CASE changes[c].turn.confirmed
      BY <3>1, <3>2, <3>3 DEF Announced
    <3>4. CASE ~changes[c].turn.confirmed
      BY <3>1, <3>2, <3>4 DEF Announced
    <3>5. QED
      BY <3>3, <3>4
  <2>3. accepted' \subseteq Message
    BY <1>10 DEF After, TypeOK
  <2>4. QED
    BY <1>10, <2>1, <2>2, <2>3, ForgetType DEF CallsOK, After, TypeOK, L!TypeOK
<1>11. QED
  BY <1>2, <1>3, <1>4, <1>5, <1>6, <1>7, <1>8, <1>9, <1>10 DEF CommandStep

\* Calls, timers, faults and restarts keep everything well typed.
LEMMA WorldType ==
    ASSUME TypeOK, NEW c \in Command,
           \/ \E o \in Ops, k \in Slot, m \in Message \cup {None} : Request(c, o, k, m)
           \/ Fire(c) \/ Boot(c) \/ CommandFails(c) \/ SaveDraftsFails(c)
    PROVE  TypeOK'
<1> USE DEF debateVars, storeVars, toldVars, callVars, workVars, boundVars
<1>0. 0 \in Slot
  BY DEF Slot
<1>1. ASSUME NEW o \in Ops, NEW k \in Slot, NEW m \in Message \cup {None},
             Request(c, o, k, m)
      PROVE  TypeOK'
  <2>1. /\ o \in {"restore", "start", "append", "finalize", "forfeit", "expire"}
        /\ Call(c, o, k, m) /\ (o = "append" => m # None)
    BY <1>1 DEF Request
  <2>2. requests' \in 0..MaxRequests
    <3>1. requests < MaxRequests /\ requests' = requests + 1
      BY <1>1 DEF Request
    <3>2. QED
      BY <3>1 DEF TypeOK
  <2>3. UNCHANGED <<debateVars, storeVars, lock, timer, overdue, booting, workVars,
                    toldVars, expiries, faults>>
    BY <1>1 DEF Request
  <2>4. CallsOK'
    BY <2>1, CallType
  <2>5. QED
    BY <2>2, <2>3, <2>4 DEF CallsOK, TypeOK, L!TypeOK
<1>2. CASE Fire(c)
  BY <1>0, <1>2, CallType DEF CallsOK, Fire, TypeOK, L!TypeOK
<1>3. CASE Boot(c)
  BY <1>0, <1>3, CallType DEF CallsOK, Boot, TypeOK, L!TypeOK
<1>4. CASE CommandFails(c)
  <2>1. lock' \in Command \cup {None, Dead}
    BY <1>4 DEF CommandFails, TypeOK
  <2>2. faults' \in 0..MaxFaults
    BY <1>4 DEF CommandFails, Fault, TypeOK
  <2>3. CASE Forget(c)
    BY <1>4, <2>1, <2>2, <2>3, ForgetType
       DEF CallsOK, CommandFails, TypeOK, L!TypeOK
  <2>4. CASE ~Forget(c)
    BY <1>4, <2>1, <2>2, <2>4 DEF CommandFails, Goto, TypeOK, L!TypeOK
  <2>5. QED
    BY <2>3, <2>4
<1>5. CASE SaveDraftsFails(c)
  <2>1. faults' \in 0..MaxFaults
    <3>1. faults < MaxFaults /\ faults' = faults + 1
      BY <1>5 DEF SaveDraftsFails, Fault
    <3>2. QED
      BY <3>1 DEF TypeOK
  <2>2. /\ pc' = [pc EXCEPT ![c] = "unlock"]
        /\ UNCHANGED <<debateVars, turns, lock, timer, overdue, booting, callVars,
                        workVars, toldVars, requests, expiries>>
    BY <1>5 DEF SaveDraftsFails, Goto
  <2>3. /\ drafts' \in [Slot -> Seq(Message)] /\ cmids' \subseteq Message
        /\ lost' \subseteq Message /\ unrecorded' \subseteq Message
    BY <1>5, StoredType
  <2>4. QED
    BY <2>1, <2>2, <2>3 DEF TypeOK, L!TypeOK
<1>6. QED
  BY <1>1, <1>2, <1>3, <1>4, <1>5

\* So does the pipeline, and every other step.
LEMMA OtherType ==
    ASSUME TypeOK,
           DeadlinePasses \/ LockExpires \/ Crash \/ BootFails \/ JudgeStep
    PROVE  TypeOK'
<1> USE DEF debateVars, storeVars, toldVars, callVars, workVars, boundVars
<1>1. CASE DeadlinePasses
  BY <1>1 DEF DeadlinePasses, TypeOK, L!TypeOK
<1>2. CASE LockExpires
  BY <1>2 DEF LockExpires, TypeOK, L!TypeOK
<1>3. CASE Crash
  <2>1. 0 \in Slot
    BY DEF Slot
  <2>2. /\ state' \in [Command -> States]
        /\ changes' \in [Command -> Changes]
    BY <1>3, BlankTypes DEF Crash
  <2>3. QED
    BY <1>3, <2>1, <2>2 DEF Crash, Fault, TypeOK, L!TypeOK
<1>4. CASE BootFails
  <2>1. booting' \in BOOLEAN
    BY <1>4 DEF BootFails
  <2>2. faults' \in 0..MaxFaults
    <3>1. faults < MaxFaults /\ faults' = faults + 1
      BY <1>4 DEF BootFails, Fault
    <3>2. QED
      BY <3>1 DEF TypeOK
  <2>3. QED
    BY <1>4, <2>1, <2>2 DEF BootFails, TypeOK, L!TypeOK
<1>5. CASE JudgeStep
  <2>1. (L!TypeOK)'
    BY <1>5 DEF JudgeStep, TypeOK, L!TypeOK, L!DebateStatus, L!DebateEndReason,
                L!StartJudging, L!CompleteJudgment, L!FailJudgment, L!RestoreFinalized
  <2>2. QED
    BY <1>5, <2>1 DEF JudgeStep, TypeOK
<1>6. QED
  BY <1>1, <1>2, <1>3, <1>4, <1>5

\* The initial state is well typed.
LEMMA InitType == Init => TypeOK
<1>1. 0 \in Slot /\ <<>> \in Seq(Message) /\ <<>> \in Seq(Seq(Message))
  BY DEF Slot
<1>2. ASSUME Init PROVE L!TypeOK
  BY <1>2 DEF Init, L!Init, L!TypeOK, L!DebateStatus, L!DebateEndReason
<1>3. ASSUME Init PROVE Len(turns) = 0
  BY <1>3 DEF Init
<1>4. QED
  BY <1>1, <1>2, <1>3, BlankTypes DEF Init, TypeOK

\* Every step keeps everything well typed.
LEMMA NextType ==
    ASSUME TypeOK, [Next]_vars
    PROVE  TypeOK'
<1>1. CASE Next
  BY <1>1, CommandType, WorldType, OtherType DEF Next
<1>2. CASE UNCHANGED vars
  BY <1>2 DEF vars, debateVars, storeVars, toldVars, callVars, workVars, boundVars, TypeOK,
              L!TypeOK
<1>3. QED
  BY <1>1, <1>2

(***************************************************************************)
(* Everything a command, a fault or the pipeline writes is well typed.     *)
(***************************************************************************)
THEOREM ChatTypes == Spec => []TypeOK
BY InitType, NextType, PTL DEF Spec

-----------------------------------------------------------------------------
(* The lock, and what its holder knows of the row *)

Working == {"row", "turns", "work", "commit", "redis", "unlock"}
Open == {"READY", "IN_PROGRESS"}

\* What the command loaded is still true, but for what the pipeline does to a
\* debate that is over.
Agrees(c) ==
    state[c].status \in Open \/ debateStatus \in Open =>
      state[c].status = debateStatus /\ state[c].endReason = endReason

\* What the command is about to write moves the row as the lifecycle does.
ReadyToCommit(c) ==
    \/ /\ ~changes[c].row
       /\ ~changes[c].reward
       /\ debateStatus # "READY"
    \/ /\ changes[c].row
       /\ \/ /\ debateStatus = "READY"
             /\ state[c].status = "IN_PROGRESS" /\ state[c].endReason = endReason
             /\ ~changes[c].reward
          \/ /\ debateStatus \in Open
             /\ state[c].status = "FAILED" /\ state[c].endReason = "FORFEIT"
             /\ changes[c].reward
          \/ /\ debateStatus = "IN_PROGRESS"
             /\ state[c].status = "DEBATE_FINALIZED"
             /\ state[c].endReason = "ALL_TURNS_FINALIZED"
             /\ ~changes[c].reward
          \/ /\ debateStatus = "IN_PROGRESS"
             /\ state[c].status = "FAILED"
             /\ state[c].endReason = "TOTAL_TIME_EXPIRED"

Knows(c) ==
    /\ pc[c] \in Working => lock = c
    /\ pc[c] \in {"turns", "work"} => Agrees(c)
    /\ pc[c] = "commit" => ReadyToCommit(c)
    /\ pc[c] = "redis" => debateStatus # "READY"

\* Nobody speaks before the debate starts.
DraftsAfterStart == debateStatus = "READY" => \A k \in Slot : drafts[k] = <<>>

ChatInv == (\A c \in Command : Knows(c)) /\ DraftsAfterStart

\* The pipeline takes no step while the debate goes on, and starts none again.
LEMMA PipelineKeepsOut ==
    ASSUME JudgeStep
    PROVE  debateStatus \notin Open /\ debateStatus' \notin Open
BY DEF JudgeStep, Open, L!StartJudging, L!CompleteJudgment, L!FailJudgment,
       L!RestoreFinalized, L!JudgeableStatuses

\* A command that leaves the stage to Started() is ready to commit.
LEMMA KeptStage ==
    ASSUME TypeOK, NEW c \in Command, Agrees(c), NEW s \in States, NEW ch \in Changes,
           Worked(c, s, ch),
           s.status = Started(state[c]).status, s.endReason = state[c].endReason,
           ~ch.row, ~ch.reward
    PROVE  ReadyToCommit(c)'
<1>1. state[c] \in States
  BY WorkTypes
<1>2. /\ state'[c] = s
      /\ changes'[c] = [ch EXCEPT !.row = ch.row \/ state[c].status = "READY"]
      /\ debateStatus' = debateStatus /\ endReason' = endReason
  BY DEF Worked, TypeOK, debateVars
<1>3. (changes'[c].row <=> state[c].status = "READY") /\ ~changes'[c].reward
  BY <1>2 DEF Changes
<1>4. state[c].status = "READY" => s.status = "IN_PROGRESS"
  BY <1>1 DEF Started, States
<1>5. QED
  BY <1>2, <1>3, <1>4 DEF ReadyToCommit, Agrees, Open

\* A command that ends the debate is ready to commit.
LEMMA EndedStage ==
    ASSUME TypeOK, NEW c \in Command, NEW s \in States, NEW ch \in Changes,
           Worked(c, s, ch), ch.row,
           \/ /\ debateStatus \in Open /\ ch.reward
              /\ s.status = "FAILED" /\ s.endReason = "FORFEIT"
           \/ /\ debateStatus = "IN_PROGRESS" /\ ~ch.reward
              /\ s.status = "DEBATE_FINALIZED" /\ s.endReason = "ALL_TURNS_FINALIZED"
           \/ /\ debateStatus = "IN_PROGRESS"
              /\ s.status = "FAILED" /\ s.endReason = "TOTAL_TIME_EXPIRED"
    PROVE  ReadyToCommit(c)'
<1>1. /\ state'[c] = s
      /\ changes'[c] = [ch EXCEPT !.row = ch.row \/ state[c].status = "READY"]
      /\ debateStatus' = debateStatus /\ endReason' = endReason
  BY DEF Worked, TypeOK, debateVars
<1>2. changes'[c].row /\ (changes'[c].reward <=> ch.reward)
  BY <1>1 DEF Changes
<1>3. QED
  BY <1>1, <1>2 DEF ReadyToCommit

\* Confirming a turn of a debate in progress makes ready to commit.
LEMMA ConfirmTurnStage ==
    ASSUME TypeOK, NEW c \in Command, Agrees(c), ConfirmTurn(c),
           state[c].turns \in Slot, debateStatus = "IN_PROGRESS"
    PROVE  ReadyToCommit(c)'
<1> DEFINE s == Started(state[c])
           next == [s EXCEPT !.turns = s.turns + 1]
           ch == [NoChanges EXCEPT !.turn = [confirmed |-> TRUE, content |-> Current(c)]]
           said == Append(SubSeq(turns, 1, s.turns), Current(c))
           final == [next EXCEPT !.status = "DEBATE_FINALIZED",
                                 !.endReason = "ALL_TURNS_FINALIZED"]
           expired == [next EXCEPT !.status = "FAILED", !.endReason = "TOTAL_TIME_EXPIRED"]
           finalCh == [ch EXCEPT !.row = TRUE]
           expiredCh == [ch EXCEPT !.row = TRUE, !.reward = SomeoneSpoke(said)]
<1>1. s \in States /\ s.endReason = state[c].endReason
  BY WorkTypes DEF Started, States
<1>2. /\ next \in States /\ next.status = s.status /\ next.endReason = s.endReason
  BY <1>1, WorkTypes DEF States, Slot
<1>3. /\ final \in States /\ final.status = "DEBATE_FINALIZED"
      /\ final.endReason = "ALL_TURNS_FINALIZED"
      /\ expired \in States /\ expired.status = "FAILED"
      /\ expired.endReason = "TOTAL_TIME_EXPIRED"
  BY <1>2 DEF States, L!DebateStatus, L!DebateEndReason
<1>4. ch \in Changes /\ ~ch.row /\ ~ch.reward
  BY WorkTypes, BlankTypes DEF Changes, Turns, NoChanges
<1>5. finalCh \in Changes /\ finalCh.row /\ ~finalCh.reward
  BY <1>4 DEF Changes
<1>6. expiredCh \in Changes /\ expiredCh.row
  <2>1. SomeoneSpoke(said) \in BOOLEAN
    BY DEF SomeoneSpoke, Spoke
  <2>2. QED
    BY <1>4, <2>1 DEF Changes
<1> HIDE DEF next, ch, said, final, expired, finalCh, expiredCh
<1>7. Worked(c, next, ch) \/ Worked(c, final, finalCh) \/ Worked(c, expired, expiredCh)
  BY DEF ConfirmTurn, next, ch, said, final, expired, finalCh, expiredCh
<1>8. CASE Worked(c, next, ch)
  BY <1>1, <1>2, <1>4, <1>8, KeptStage
<1>9. CASE Worked(c, final, finalCh)
  BY <1>3, <1>5, <1>9, EndedStage
<1>10. CASE Worked(c, expired, expiredCh)
  BY <1>3, <1>6, <1>10, EndedStage
<1>11. QED
  BY <1>7, <1>8, <1>9, <1>10

\* Work ends refused, or ready to commit.
LEMMA WorkStage ==
    ASSUME TypeOK, NEW c \in Command, Agrees(c), DraftsAfterStart, Work(c)
    PROVE  \/ Refused(c)
           \/ pc'[c] = "commit" /\ ReadyToCommit(c)'
<1> DEFINE s == Started(state[c])
<1>1. /\ s \in States /\ s.endReason = state[c].endReason /\ state[c] \in States
      /\ s.turns = state[c].turns
      /\ NoChanges \in Changes /\ ~NoChanges.row /\ ~NoChanges.reward
  BY WorkTypes, BlankTypes DEF Started, States, NoChanges
<1>2. ASSUME NEW x, NEW ch, Worked(c, x, ch) PROVE pc'[c] = "commit"
  BY <1>2 DEF Worked, Goto, TypeOK
<1>3. Worked(c, s, NoChanges) => ReadyToCommit(c)'
  BY <1>1, KeptStage
<1>4. s.status = "IN_PROGRESS" => state[c].status \in Open
  BY <1>1 DEF Started, States, Open
<1>5. HasSlot(state[c]) \/ HasSlot(s) => state[c].turns \in Slot
  BY <1>1, WorkTypes DEF HasSlot, Slot
<1>6. ConfirmTurn(c) => pc'[c] = "commit"
  BY <1>2 DEF ConfirmTurn
<1>7. CASE Restore(c) \/ Start(c)
  BY <1>2, <1>3, <1>7 DEF Restore, Start
<1>8. CASE AppendDraft(c)
  <2> DEFINE ch == [NoChanges EXCEPT !.draft = message[c]]
  <2>1. ch \in Changes /\ ~ch.row /\ ~ch.reward
    BY <1>1, WorkTypes DEF Changes
  <2>2. Worked(c, s, ch) => ReadyToCommit(c)'
    BY <1>1, <2>1, KeptStage
  <2>3. QED
    BY <1>2, <1>3, <1>8, <2>2 DEF AppendDraft
<1>9. CASE FinalizeTurn(c)
  <2>1. CASE Allowed(c) /\ Current(c) # <<>>
    <3>1. state[c].turns \in Slot /\ state[c].status \in Open
      BY <1>4, <1>5, <2>1 DEF Allowed, HasSlot
    <3>2. debateStatus = "IN_PROGRESS"
      BY <2>1, <3>1 DEF Agrees, DraftsAfterStart, Current, Open
    <3>3. QED
      BY <1>6, <1>9, <2>1, <3>1, <3>2, ConfirmTurnStage DEF FinalizeTurn
  <2>2. QED
    BY <1>9, <2>1 DEF FinalizeTurn
<1>10. CASE ExpireTurn(c)
  <2>1. CASE HasSlot(state[c]) /\ state[c].turns < overdue
    <3>1. debateStatus = "IN_PROGRESS"
      BY <2>1 DEF HasSlot, Agrees, Open
    <3>2. QED
      BY <1>5, <1>6, <1>10, <2>1, <3>1, ConfirmTurnStage DEF ExpireTurn
  <2>2. QED
    BY <1>2, <1>3, <1>10, <2>1 DEF ExpireTurn
<1>11. CASE ForfeitDebate(c)
  <2> DEFINE x == [state[c] EXCEPT !.status = "FAILED", !.endReason = "FORFEIT"]
             ch == [NoChanges EXCEPT !.row = TRUE, !.reward = TRUE]
  <2>1. x \in States /\ x.status = "FAILED" /\ x.endReason = "FORFEIT"
    BY <1>1 DEF States, L!DebateStatus, L!DebateEndReason
  <2>2. ch \in Changes /\ ch.row /\ ch.reward
    BY <1>1 DEF Changes
  <2> HIDE DEF x, ch
  <2>3. CASE s.status = "IN_PROGRESS"
    <3>1. debateStatus \in Open
      BY <1>4, <2>3 DEF Agrees
    <3>2. Worked(c, x, ch)
      BY <1>11, <2>3 DEF ForfeitDebate, x, ch
    <3>3. QED
      BY <1>2, <2>1, <2>2, <3>1, <3>2, EndedStage
  <2>4. QED
    BY <1>11, <2>3 DEF ForfeitDebate
<1>12. QED
  BY <1>7, <1>8, <1>9, <1>10, <1>11 DEF Work

\* A command in its work is alone: the others hold no lock, and stay idle, at
\* the lock or after it while this one moves.
LEMMA Alone ==
    ASSUME ChatInv, NEW c \in Command, pc[c] \in Working,
           NEW d \in Command, d # c, pc'[d] = pc[d]
    PROVE  Knows(d)'
BY DEF ChatInv, Knows, Working

\* The steps of a command keep ChatInv.
LEMMA CommandKeepsInv ==
    ASSUME TypeOK, ChatInv, NEW c \in Command, CommandStep(c)
    PROVE  ChatInv'
<1> USE DEF debateVars, storeVars, toldVars, callVars, workVars
<1>1. Knows(c) /\ DraftsAfterStart
  BY DEF ChatInv
<1>2. ASSUME NEW d \in Command, d # c
      PROVE  pc'[d] = pc[d] /\ state'[d] = state[d] /\ changes'[d] = changes[d]
  <2>1. CASE Work(c)
    <3>1. \/ Refused(c)
          \/ \E s, ch : Worked(c, s, ch)
      BY <2>1 DEF Work, Restore, Start, AppendDraft, FinalizeTurn, ExpireTurn,
                  ConfirmTurn, ForfeitDebate
    <3>2. QED
      BY <1>2, <3>1 DEF Worked, Refused, Goto, TypeOK
  <2>2. QED
    BY <1>2, <2>1 DEF CommandStep, AcquireLock, LockBusy, LoadRow, LoadTurns, Commit,
                      Refused, SaveDrafts, Unlock, After, Forget, Goto, TypeOK
<1>3. CASE AcquireLock(c)
  <2>1. Knows(c)'
    BY <1>3 DEF AcquireLock, Goto, Knows, Working, TypeOK
  <2>2. ASSUME NEW d \in Command, d # c PROVE Knows(d)'
    BY <1>2, <1>3, <2>2 DEF AcquireLock, ChatInv, Knows, Working, TypeOK, Unlocked
  <2>3. QED
    BY <1>1, <1>3, <2>1, <2>2 DEF AcquireLock, ChatInv, DraftsAfterStart
<1>4. CASE LockBusy(c) \/ After(c)
  <2>1. UNCHANGED <<debateVars, drafts, lock>> /\ pc'[c] = "idle"
    BY <1>4 DEF LockBusy, After, Forget, Goto, TypeOK
  <2>2. \A d \in Command : Knows(d)'
    BY <1>2, <2>1 DEF ChatInv, Knows, Working, Agrees, ReadyToCommit
  <2>3. QED
    BY <1>1, <2>1, <2>2 DEF ChatInv, DraftsAfterStart
<1>5. CASE LoadRow(c) \/ LoadTurns(c) \/ Work(c) \/ Commit(c) \/ SaveDrafts(c) \/ Unlock(c)
  <2>1. pc[c] \in Working /\ lock = c
    BY <1>1, <1>5 DEF LoadRow, LoadTurns, Work, Commit, SaveDrafts, Unlock, Knows, Working
  <2>2. \A d \in Command : d # c => Knows(d)'
    BY <1>2, <2>1, Alone
  <2>3. Knows(c)' /\ DraftsAfterStart'
    <3>1. CASE LoadRow(c)
      BY <1>1, <2>1, <3>1
         DEF LoadRow, Goto, Knows, Working, Agrees, DraftsAfterStart, TypeOK
    <3>2. CASE LoadTurns(c)
      BY <1>1, <2>1, <3>2
         DEF LoadTurns, Goto, Knows, Working, Agrees, DraftsAfterStart, TypeOK
    <3>3. CASE Work(c)
      <4>1. UNCHANGED <<debateVars, drafts, lock>>
        BY <3>3 DEF Work, Restore, Start, AppendDraft, FinalizeTurn, ExpireTurn,
                    ConfirmTurn, ForfeitDebate, Worked, Refused
      <4>2. \/ pc'[c] = "unlock"
            \/ pc'[c] = "commit" /\ ReadyToCommit(c)'
        BY <1>1, <3>3, WorkStage DEF Work, Knows, Refused, Goto, TypeOK
      <4>3. QED
        BY <1>1, <2>1, <4>1, <4>2 DEF Knows, Working, DraftsAfterStart
    <3>4. CASE Commit(c)
      <4>1. ReadyToCommit(c)
        BY <1>1, <3>4 DEF Commit, Knows
      <4>2. CASE Refused(c)
        BY <1>1, <2>1, <4>2 DEF Refused, Goto, Knows, Working, DraftsAfterStart, TypeOK
      <4>3. CASE ~Refused(c)
        <5>1. /\ debateStatus' = IF changes[c].row THEN state[c].status ELSE debateStatus
              /\ drafts' = drafts /\ lock' = lock /\ pc'[c] = "redis"
          BY <3>4, <4>3 DEF Commit, Goto, TypeOK
        <5>2. debateStatus' # "READY"
          BY <4>1, <5>1 DEF ReadyToCommit
        <5>3. QED
          BY <2>1, <5>1, <5>2 DEF Knows, Working, DraftsAfterStart
      <4>4. QED
        BY <4>2, <4>3
    <3>5. CASE SaveDrafts(c)
      BY <1>1, <2>1, <3>5 DEF SaveDrafts, Goto, Knows, Working, DraftsAfterStart, TypeOK
    <3>6. CASE Unlock(c)
      <4>1. UNCHANGED <<debateVars, drafts>> /\ pc'[c] \in {"idle", "after"}
        BY <3>6 DEF Unlock, Forget, Goto, TypeOK
      <4>2. QED
        BY <1>1, <4>1 DEF Knows, Working, DraftsAfterStart
    <3>7. QED
      BY <1>5, <3>1, <3>2, <3>3, <3>4, <3>5, <3>6
  <2>4. QED
    BY <2>2, <2>3 DEF ChatInv
<1>6. QED
  BY <1>3, <1>4, <1>5 DEF CommandStep

\* Every step keeps ChatInv, as long as no lock expires under its holder.
LEMMA NextKeepsInv ==
    ASSUME MaxExpiries = 0, TypeOK, ChatInv, [Next]_vars
    PROVE  ChatInv'
<1> USE DEF debateVars, storeVars, toldVars, callVars, workVars
<1>1. ASSUME NEW c \in Command, CommandStep(c) PROVE ChatInv'
  BY <1>1, CommandKeepsInv
\* Steps that move no command into its work and touch neither row nor drafts.
<1>2. ASSUME UNCHANGED <<debateVars, drafts>>,
             \A d \in Command :
               \/ pc'[d] \notin Working
               \/ /\ pc'[d] \in {pc[d], "unlock"} /\ pc[d] \in Working
                  /\ state'[d] = state[d] /\ changes'[d] = changes[d]
                  /\ lock' = lock
      PROVE  ChatInv'
  BY <1>2 DEF ChatInv, Knows, Working, Agrees, ReadyToCommit, DraftsAfterStart
<1>3. ASSUME NEW c \in Command, NEW o, NEW k, NEW m, Call(c, o, k, m),
             UNCHANGED <<debateVars, drafts, lock, workVars>>
      PROVE  ChatInv'
  BY <1>2, <1>3 DEF Call, Goto, Working, TypeOK
<1>4. ASSUME NEW c \in Command, NEW o \in Ops, NEW k \in Slot,
             NEW m \in Message \cup {None}, Request(c, o, k, m)
      PROVE  ChatInv'
  BY <1>3, <1>4 DEF Request
<1>5. ASSUME NEW c \in Command, Fire(c) PROVE ChatInv'
  BY <1>3, <1>5 DEF Fire
<1>6. ASSUME UNCHANGED <<debateVars, drafts, lock, workVars, pc>> PROVE ChatInv'
  BY <1>2, <1>6
<1>7. ASSUME NEW c \in Command, Boot(c) PROVE ChatInv'
  BY <1>3, <1>6, <1>7 DEF Boot
<1>8. ASSUME NEW c \in Command, CommandFails(c) PROVE ChatInv'
  <2>1. ASSUME NEW d \in Command, d # c
        PROVE  pc'[d] = pc[d] /\ state'[d] = state[d] /\ changes'[d] = changes[d]
    BY <1>8, <2>1 DEF CommandFails, Forget, Goto, TypeOK
  <2>2. CASE pc[c] \in {"lock", "row", "turns", "work", "commit", "redis"}
    BY <1>2, <1>8, <2>1, <2>2 DEF CommandFails, Forget, Goto, Working, TypeOK
  <2>3. CASE pc[c] = "unlock"
    <3>1. pc'[c] \in {"idle", "after"} /\ UNCHANGED <<debateVars, drafts>>
      BY <1>8, <2>3 DEF CommandFails, Forget, Goto, TypeOK
    <3>2. \A d \in Command : d # c => pc[d] \notin Working
      BY <2>3 DEF ChatInv, Knows, Working
    <3>3. QED
      BY <1>2, <2>1, <3>1, <3>2 DEF Working
  <2>4. QED
    BY <1>8, <2>2, <2>3 DEF CommandFails
<1>9. CASE DeadlinePasses \/ BootFails
  BY <1>6, <1>9 DEF DeadlinePasses, BootFails
<1>10. CASE LockExpires
  <2>1. lock = Dead
    BY <1>10 DEF LockExpires, TypeOK
  <2>2. \A d \in Command : pc[d] \notin Working
    BY <2>1 DEF ChatInv, Knows
  <2>3. QED
    BY <1>2, <1>10, <2>2 DEF LockExpires
<1>11. CASE Crash
  BY <1>2, <1>11 DEF Crash, Working
<1>12. CASE JudgeStep
  BY <1>12, PipelineKeepsOut
     DEF JudgeStep, ChatInv, Knows, Working, Agrees, ReadyToCommit, DraftsAfterStart, Open
<1>13. CASE UNCHANGED vars
  BY <1>6, <1>13 DEF vars
<1>14. ASSUME NEW c \in Command, SaveDraftsFails(c) PROVE ChatInv'
  <2>1. /\ Knows(c) /\ DraftsAfterStart /\ pc[c] = "redis" /\ lock = c
        /\ pc'[c] = "unlock" /\ UNCHANGED <<debateVars, lock, workVars>>
    BY <1>14 DEF SaveDraftsFails, Goto, ChatInv, Knows, Working, TypeOK
  <2>2. ASSUME NEW d \in Command, d # c PROVE Knows(d)'
    <3>1. pc'[d] = pc[d]
      BY <1>14, <2>2 DEF SaveDraftsFails, Goto, TypeOK
    <3>2. QED
      BY <2>1, <2>2, <3>1, Alone DEF Working
  <2>3. Knows(c)' /\ DraftsAfterStart'
    BY <2>1 DEF Knows, Working, DraftsAfterStart
  <2>4. QED
    BY <2>2, <2>3 DEF ChatInv
<1>15. QED
  BY <1>1, <1>4, <1>5, <1>7, <1>8, <1>9, <1>10, <1>11, <1>12, <1>13, <1>14 DEF Next

\* Every step is a step of the lifecycle, or leaves the row alone.
LEMMA LifecycleStep ==
    ASSUME TypeOK, ChatInv, [Next]_vars
    PROVE  [L!Next]_(L!vars)
<1> USE DEF debateVars, L!vars
<1>1. ASSUME NEW c \in Command, Commit(c) PROVE [L!Next]_(L!vars)
  <2>1. ReadyToCommit(c)
    BY <1>1 DEF Commit, ChatInv, Knows
  <2>2. CASE Refused(c)
    BY <2>2 DEF Refused
  <2>3. CASE ~Refused(c)
    <3>1. /\ debateStatus' = IF changes[c].row THEN state[c].status ELSE debateStatus
          /\ endReason' = IF changes[c].row THEN state[c].endReason ELSE endReason
          /\ rewards' = IF changes[c].reward THEN rewards + 1 ELSE rewards
          /\ judgment' = judgment
      BY <1>1, <2>3 DEF Commit
    <3>2. QED
      BY <2>1, <3>1 DEF ReadyToCommit, Open, L!Next, L!Start, L!FinishAllTurns,
                        L!EndWithoutJudgment
  <2>4. QED
    BY <2>2, <2>3
<1>2. ASSUME NEW c \in Command, CommandStep(c), ~Commit(c) PROVE UNCHANGED L!vars
  BY <1>2 DEF CommandStep, AcquireLock, LockBusy, LoadRow, LoadTurns, Work, Restore,
              Start, AppendDraft, FinalizeTurn, ExpireTurn, ConfirmTurn, ForfeitDebate,
              Worked, Refused, SaveDrafts, Unlock, After
<1>3. CASE JudgeStep
  BY <1>3 DEF JudgeStep, L!Next
<1>4. QED
  BY <1>1, <1>2, <1>3 DEF Next, vars, Request, Fire, Boot, CommandFails,
     SaveDraftsFails, DeadlinePasses, LockExpires, Crash, BootFails

(***************************************************************************)
(* Commands never overlap: between its lock and its release a command is   *)
(* the holder, and what it loaded of the debate is what the database says  *)
(* (debate-chat-state.store.ts: calls for one debate are serialised).      *)
(***************************************************************************)
THEOREM ChatSerialised ==
    ASSUME MaxExpiries = 0
    PROVE  Spec => [](TypeOK /\ ChatInv)
<1>1. Init => TypeOK /\ ChatInv
  <2>1. Init => ChatInv
    BY DEF Init, L!Init, ChatInv, Knows, Working, DraftsAfterStart
  <2>2. QED
    BY <2>1, InitType
<1>2. TypeOK /\ ChatInv /\ [Next]_vars => (TypeOK /\ ChatInv)'
  BY NextType, NextKeepsInv
<1>3. QED
  BY <1>1, <1>2, PTL DEF Spec

(***************************************************************************)
(* Every behaviour of the turn chat is one of the lifecycle: commands,     *)
(* expiries, crashes and the pipeline never move the debate otherwise.     *)
(***************************************************************************)
THEOREM ChatImplementsLifecycle ==
    ASSUME MaxExpiries = 0
    PROVE  Spec => LifecycleImplemented
<1>1. Init => L!Init
  BY DEF Init
<1>2. TypeOK /\ ChatInv /\ [Next]_vars => [L!Next]_(L!vars)
  BY LifecycleStep
<1>3. QED
  BY <1>1, <1>2, ChatSerialised, PTL DEF Spec, LifecycleImplemented, L!Spec

(***************************************************************************)
(* The reward of a debate is paid once, however forfeit, expiry, the last  *)
(* turn and the judgment race.                                             *)
(***************************************************************************)
THEOREM ChatSettlesOnce ==
    ASSUME MaxExpiries = 0
    PROVE  Spec => []SettledOnce
<1>1. L!Spec => [](L!TypeOK /\ L!StageInv /\ L!SettledOnce)
  BY L!LifecycleSettlesOnce
<1>2. QED
  BY <1>1, ChatImplementsLifecycle, PTL DEF SettledOnce, LifecycleImplemented

-----------------------------------------------------------------------------
(* What the pipeline is told, even when locks expire under their holders *)

\* The command has confirmed a turn in the database and will announce it.
Reports(c) ==
    /\ changes[c].turn.confirmed
    /\ pc[c] \in {"redis", "after"} \/ (pc[c] = "unlock" /\ op[c] # "refused")

Finishes(c) == state[c].status = "DEBATE_FINALIZED"

\* A turn on its way to the database: its place is one of the first free ones
\* the command can know of, and if it is the last turn, both sides spoke.
ReadyToSave(c) ==
    /\ state[c].turns \in 1..(Len(turns) + 1)
    /\ Finishes(c) =>
         /\ state[c].turns = NumTurns
         /\ Len(turns) = NumTurns - 1 => BothSpoke(Append(turns, changes[c].turn.content))

ReadyToReport(c) ==
    /\ state[c].turns \in 1..Len(turns)
    /\ announced[state[c].turns - 1] = 0
    /\ Finishes(c) => state[c].turns = NumTurns /\ BothSpoke(turns)

ToReport(c) ==
    /\ pc[c] = "work" => state[c].turns <= Len(turns)
    /\ pc[c] = "commit" /\ changes[c].turn.confirmed => ReadyToSave(c)
    /\ Reports(c) => ReadyToReport(c)

\* The place of a turn is unique, so two commands never report the same one.
OwnTurn(c) ==
    \A d \in Command \ {c} :
        Reports(c) /\ Reports(d) => state[c].turns # state[d].turns

NewsInv ==
    /\ \A c \in Command : ToReport(c) /\ OwnTurn(c)
    /\ \A k \in Slot : announced[k] <= IF k < Len(turns) THEN 1 ELSE 0
    /\ handedOver <= announced[NumTurns - 1]
    /\ handedOver > 0 => BothSpoke(turns)

\* The command stands where it stood.
Rests(c) ==
    /\ pc'[c] = pc[c] /\ op'[c] = op[c] /\ message'[c] = message[c]
    /\ state'[c] = state[c] /\ changes'[c] = changes[c]

\* Nothing is confirmed or announced, and nobody has more to report.
LEMMA NoNews ==
    ASSUME NewsInv, UNCHANGED <<turns, announced, handedOver>>,
           \A d \in Command :
             /\ pc'[d] = "work" => state'[d].turns <= Len(turns)
             /\ pc'[d] = "commit" /\ changes'[d].turn.confirmed => ReadyToSave(d)'
             /\ Reports(d)' => Reports(d) /\ state'[d] = state[d]
    PROVE  NewsInv'
<1>1. ASSUME NEW d \in Command PROVE ToReport(d)' /\ OwnTurn(d)'
  <2>1. Reports(d)' => ReadyToReport(d)'
    BY DEF NewsInv, ToReport, ReadyToReport, Finishes
  <2>2. ToReport(d)'
    BY <2>1 DEF ToReport
  <2>3. OwnTurn(d)'
    BY DEF NewsInv, OwnTurn
  <2>4. QED
    BY <2>2, <2>3
<1>2. QED
  BY <1>1 DEF NewsInv, BothSpoke, Spoke

\* Somebody who rests has no more to report.
LEMMA RestIsNoNews ==
    ASSUME NewsInv, NEW d \in Command, Rests(d), turns' = turns
    PROVE  /\ pc'[d] = "work" => state'[d].turns <= Len(turns)
           /\ pc'[d] = "commit" /\ changes'[d].turn.confirmed => ReadyToSave(d)'
           /\ Reports(d)' => Reports(d) /\ state'[d] = state[d]
BY DEF NewsInv, ToReport, Rests, Reports, ReadyToSave, Finishes, BothSpoke, Spoke

\* A command moves alone; it may be about to commit, but has nothing to report.
LEMMA QuietMove ==
    ASSUME NewsInv, NEW c \in Command, \A d \in Command \ {c} : Rests(d),
           UNCHANGED <<turns, announced, handedOver>>,
           pc'[c] = "work" => state'[c].turns <= Len(turns),
           pc'[c] = "commit" /\ changes'[c].turn.confirmed => ReadyToSave(c)',
           Reports(c)' => Reports(c) /\ state'[c] = state[c]
    PROVE  NewsInv'
BY NoNews, RestIsNoNews

\* The turn a command confirms follows those it has loaded.
LEMMA ConfirmReady ==
    ASSUME TypeOK, NewsInv, NEW c \in Command, pc[c] = "work",
           HasSlot(Started(state[c])), ConfirmTurn(c)
    PROVE  pc'[c] = "commit" /\ ReadyToSave(c)' /\ turns' = turns
<1> DEFINE s == Started(state[c])
           next == [s EXCEPT !.turns = s.turns + 1]
           ch == [NoChanges EXCEPT !.turn = [confirmed |-> TRUE, content |-> Current(c)]]
           said == Append(SubSeq(turns, 1, s.turns), Current(c))
           final == [next EXCEPT !.status = "DEBATE_FINALIZED",
                                 !.endReason = "ALL_TURNS_FINALIZED"]
           expired == [next EXCEPT !.status = "FAILED", !.endReason = "TOTAL_TIME_EXPIRED"]
           finalCh == [ch EXCEPT !.row = TRUE]
           expiredCh == [ch EXCEPT !.row = TRUE, !.reward = SomeoneSpoke(said)]
<1>1. /\ s \in States /\ s.turns = state[c].turns /\ s.turns \in Nat
      /\ s.status = "IN_PROGRESS" /\ s.turns < NumTurns /\ s.turns <= Len(turns)
      /\ turns \in Seq(Seq(Message)) /\ Len(turns) <= NumTurns
  BY WorkTypes DEF HasSlot, NewsInv, ToReport, TypeOK
<1>2. /\ next.turns = s.turns + 1 /\ next.status = "IN_PROGRESS"
      /\ final.turns = s.turns + 1 /\ final.status = "DEBATE_FINALIZED"
      /\ expired.turns = s.turns + 1 /\ expired.status = "FAILED"
  BY <1>1 DEF States
<1>3. finalCh.turn.content = Current(c)
  BY BlankTypes DEF NoChanges
<1>4. Len(turns) = s.turns => said = Append(turns, Current(c))
  <2>1. Len(turns) = s.turns => SubSeq(turns, 1, s.turns) = turns
    BY <1>1
  <2>2. QED
    BY <2>1
<1> HIDE DEF s, next, ch, said, final, expired, finalCh, expiredCh
<1>5. \/ Worked(c, next, ch)
      \/ Worked(c, final, finalCh) /\ s.turns + 1 = NumTurns /\ BothSpoke(said)
      \/ Worked(c, expired, expiredCh)
  BY DEF ConfirmTurn, next, ch, said, final, expired, finalCh, expiredCh, s
<1>6. ASSUME NEW x, NEW h, Worked(c, x, h)
      PROVE  pc'[c] = "commit" /\ turns' = turns /\ state'[c] = x
  BY <1>6 DEF Worked, Goto, TypeOK, storeVars, toldVars
<1>7. CASE Worked(c, next, ch) \/ Worked(c, expired, expiredCh)
  <2>1. /\ pc'[c] = "commit" /\ turns' = turns
        /\ state'[c].turns = s.turns + 1 /\ state'[c].status # "DEBATE_FINALIZED"
    BY <1>2, <1>6, <1>7
  <2>2. QED
    BY <1>1, <2>1 DEF ReadyToSave, Finishes
<1>8. CASE Worked(c, final, finalCh) /\ s.turns + 1 = NumTurns /\ BothSpoke(said)
  <2>0. pc'[c] = "commit" /\ turns' = turns /\ state'[c].turns = s.turns + 1
    BY <1>2, <1>6, <1>8
  <2>1. changes'[c].turn.content = Current(c)
    <3>1. changes'[c] = [finalCh EXCEPT !.row = finalCh.row \/ state[c].status = "READY"]
      BY <1>8 DEF Worked, TypeOK
    <3>2. QED
      BY <3>1, <1>3 DEF finalCh, ch, NoChanges
  <2>2. Len(turns') = NumTurns - 1 => BothSpoke(Append(turns', changes'[c].turn.content))
    <3>1. Len(turns) = NumTurns - 1 => said = Append(turns, Current(c))
      BY <1>1, <1>4, <1>8
    <3>2. Len(turns) = NumTurns - 1 => BothSpoke(Append(turns, Current(c)))
      BY <1>8, <3>1
    <3>3. QED
      BY <2>0, <2>1, <3>2
  <2>3. QED
    BY <1>1, <1>8, <2>0, <2>2 DEF ReadyToSave, Finishes
<1>9. QED
  BY <1>5, <1>7, <1>8

\* The work of a command confirms a turn only as above.
LEMMA WorkNews ==
    ASSUME TypeOK, NewsInv, NEW c \in Command, Work(c)
    PROVE  /\ turns' = turns
           /\ \/ Refused(c)
              \/ pc'[c] = "commit" /\ (changes'[c].turn.confirmed => ReadyToSave(c)')
<1>1. pc[c] = "work" /\ state[c] \in States
  BY WorkTypes DEF Work
<1>2. ASSUME NEW x, NEW h \in {NoChanges, [NoChanges EXCEPT !.draft = message[c]],
                               [NoChanges EXCEPT !.row = TRUE, !.reward = TRUE]},
             Worked(c, x, h)
      PROVE  pc'[c] = "commit" /\ ~changes'[c].turn.confirmed /\ turns' = turns
  <2>1. /\ pc'[c] = "commit" /\ turns' = turns
        /\ changes'[c] = [h EXCEPT !.row = h.row \/ state[c].status = "READY"]
    BY <1>2 DEF Worked, Goto, TypeOK, storeVars, toldVars
  <2>2. h \in Changes /\ h.turn = NoTurn
    <3>1. message[c] \in Message \cup {None}
      BY WorkTypes
    <3>2. /\ NoChanges \in Changes /\ NoChanges.turn = NoTurn
      BY BlankTypes DEF NoChanges
    <3>3. CASE h = NoChanges
      BY <3>2, <3>3
    <3>4. CASE h = [NoChanges EXCEPT !.draft = message[c]]
      BY <3>1, <3>2, <3>4 DEF Changes
    <3>5. CASE h = [NoChanges EXCEPT !.row = TRUE, !.reward = TRUE]
      BY <3>2, <3>5 DEF Changes
    <3>6. QED
      BY <1>2, <3>3, <3>4, <3>5
  <2>3. changes'[c].turn = NoTurn
    BY <2>1, <2>2 DEF Changes
  <2>4. QED
    BY <2>1, <2>3 DEF NoTurn
<1>3. Refused(c) => turns' = turns
  BY DEF Refused, storeVars, toldVars
<1>4. ASSUME ConfirmTurn(c), HasSlot(Started(state[c]))
      PROVE  pc'[c] = "commit" /\ ReadyToSave(c)' /\ turns' = turns
  BY <1>1, <1>4, ConfirmReady
<1>5. CASE Restore(c) \/ Start(c)
  BY <1>2, <1>3, <1>5 DEF Restore, Start
<1>6. CASE AppendDraft(c)
  BY <1>2, <1>3, <1>6 DEF AppendDraft
<1>7. CASE FinalizeTurn(c)
  BY <1>3, <1>4, <1>7 DEF FinalizeTurn, Allowed
<1>8. CASE ExpireTurn(c)
  <2>1. HasSlot(state[c]) => HasSlot(Started(state[c]))
    BY <1>1 DEF HasSlot, Started, States
  <2>2. QED
    BY <1>2, <1>4, <1>8, <2>1 DEF ExpireTurn
<1>9. CASE ForfeitDebate(c)
  BY <1>2, <1>3, <1>9 DEF ForfeitDebate
<1>10. QED
  BY <1>1, <1>5, <1>6, <1>7, <1>8, <1>9 DEF Work

\* A turn goes into the next free place, and nobody else had that place.
LEMMA CommitNews ==
    ASSUME TypeOK, TypeOK', NewsInv, NEW c \in Command, pc[c] = "commit",
           changes[c].turn.confirmed, Len(turns) = state[c].turns - 1,
           turns' = Append(turns, changes[c].turn.content),
           UNCHANGED <<announced, handedOver, state, changes>>,
           \A d \in Command \ {c} : Rests(d), pc'[c] = "redis"
    PROVE  NewsInv'
<1> DEFINE n == Len(turns)
<1>1. /\ turns \in Seq(Seq(Message)) /\ changes[c].turn.content \in Seq(Message)
      /\ n \in Nat /\ n < NumTurns /\ n \in Slot
      /\ state \in [Command -> States]
      /\ announced \in [Slot -> Nat] /\ handedOver \in Nat
  <2>1. state \in [Command -> States] /\ changes \in [Command -> Changes]
    BY DEF TypeOK
  <2>2. state[c].turns \in 0..NumTurns /\ changes[c].turn.content \in Seq(Message)
    BY <2>1 DEF States, Changes, Turns
  <2>3. /\ turns \in Seq(Seq(Message)) /\ announced \in [Slot -> Nat]
        /\ handedOver \in Nat
    BY DEF TypeOK
  <2>4. n \in Nat /\ n < NumTurns
    BY <2>2, <2>3
  <2>5. QED
    BY <2>1, <2>2, <2>3, <2>4 DEF Slot
<1>2. Len(turns') = n + 1
  BY <1>1
<1>3. ReadyToSave(c) /\ state[c].turns = n + 1
  <2>1. ToReport(c)
    BY DEF NewsInv
  <2>2. state[c].turns \in 0..NumTurns
    BY <1>1 DEF States
  <2>3. QED
    BY <2>1, <2>2 DEF ToReport
<1>4. announced[n] = 0
  BY <1>1 DEF NewsInv
<1>5. handedOver = 0
  <2>1. NumTurns - 1 \in Slot /\ ~(NumTurns - 1 < n)
    BY <1>1 DEF Slot
  <2>2. announced[NumTurns - 1] <= 0
    BY <2>1 DEF NewsInv
  <2>3. QED
    BY <1>1, <2>1, <2>2 DEF NewsInv
<1>6. ASSUME NEW d \in Command, d # c
      PROVE  /\ pc'[d] = pc[d] /\ op'[d] = op[d]
             /\ ToReport(d)
             /\ state[d].turns \in Nat
             /\ Reports(d)' = Reports(d)
             /\ Reports(d) => state[d].turns <= n
  <2>1. Rests(d)
    BY <1>6
  <2>2. ToReport(d)
    BY DEF NewsInv
  <2>3. state[d].turns \in Nat
    BY <1>1 DEF States
  <2>4. QED
    BY <2>1, <2>2, <2>3 DEF Rests, Reports, ToReport, ReadyToReport
<1>7. ToReport(c)'
  <2>1. Finishes(c) => state[c].turns = NumTurns /\ BothSpoke(turns')
    BY <1>1, <1>3 DEF ReadyToSave
  <2>2. ReadyToReport(c)'
    <3>1. state'[c].turns \in 1..Len(turns') /\ announced'[state'[c].turns - 1] = 0
      BY <1>1, <1>2, <1>3, <1>4
    <3>2. Finishes(c)' => state'[c].turns = NumTurns /\ BothSpoke(turns')
      BY <2>1 DEF Finishes
    <3>3. BothSpoke(turns') => BothSpoke(turns)'
      BY DEF BothSpoke, Spoke
    <3>4. QED
      BY <3>1, <3>2, <3>3 DEF ReadyToReport
  <2>3. QED
    BY <2>2 DEF ToReport
<1>8. ASSUME NEW d \in Command, d # c PROVE ToReport(d)'
  <2>1. ToReport(d) /\ pc'[d] = pc[d] /\ state[d].turns \in Nat
    BY <1>6, <1>8
  <2>2. pc'[d] = "work" => state'[d].turns <= Len(turns')
    BY <1>1, <1>2, <2>1 DEF ToReport
  <2>3. pc'[d] = "commit" /\ changes'[d].turn.confirmed => ReadyToSave(d)'
    <3>1. pc[d] = "commit" /\ changes[d].turn.confirmed => ReadyToSave(d)
      BY <2>1 DEF ToReport
    <3>2. ReadyToSave(d) /\ Finishes(d) => n + 1 = NumTurns
      BY <1>1 DEF ReadyToSave
    <3>3. QED
      BY <1>1, <1>2, <2>1, <3>1, <3>2 DEF ReadyToSave, Finishes
  <2>4. Reports(d)' => ReadyToReport(d)'
    <3>1. Reports(d) => ReadyToReport(d)
      BY <2>1 DEF ToReport
    <3>2. ReadyToReport(d) => ~Finishes(d)
      BY <1>1 DEF ReadyToReport
    <3>3. QED
      BY <1>1, <1>2, <1>6, <1>8, <3>1, <3>2 DEF ReadyToReport, Finishes
  <2>5. QED
    BY <2>2, <2>3, <2>4 DEF ToReport
<1>9. ASSUME NEW d \in Command PROVE OwnTurn(d)'
  <2>1. OwnTurn(d)
    BY DEF NewsInv
  <2>2. QED
    BY <1>3, <1>6, <2>1 DEF OwnTurn
<1>10. \A k \in Slot : announced[k] <= IF k < n + 1 THEN 1 ELSE 0
  BY <1>1 DEF NewsInv, Slot
<1>11. QED
  BY <1>2, <1>5, <1>7, <1>8, <1>9, <1>10 DEF NewsInv

\* A command that reports is the only one that does so for its turn.
LEMMA AfterNews ==
    ASSUME TypeOK, NewsInv, NEW c \in Command, After(c),
           \A d \in Command \ {c} : Rests(d)
    PROVE  NewsInv'
<1>1. /\ pc[c] = "after" /\ pc'[c] = "idle" /\ turns' = turns /\ Announced(c)
      /\ announced \in [Slot -> Nat] /\ handedOver \in Nat /\ ToReport(c)
  BY DEF After, Forget, Goto, TypeOK, storeVars, toldVars, NewsInv
<1>2. CASE ~changes[c].turn.confirmed
  BY <1>1, <1>2, QuietMove DEF Announced, Reports
<1>3. CASE changes[c].turn.confirmed
  <2> DEFINE k == state[c].turns - 1
  <2>1. Reports(c) /\ ReadyToReport(c)
    BY <1>1, <1>3 DEF Reports, ToReport
  <2>2. k \in Slot /\ k < Len(turns) /\ announced[k] = 0 /\ Len(turns) \in Nat
    <3>1. Len(turns) \in Nat /\ Len(turns) <= NumTurns /\ state[c].turns \in 0..NumTurns
      BY DEF TypeOK, States
    <3>2. QED
      BY <2>1, <3>1 DEF ReadyToReport, Slot
  <2>3. /\ announced' = [announced EXCEPT ![k] = announced[k] + 1]
        /\ handedOver' = IF Finishes(c) THEN handedOver + 1 ELSE handedOver
    BY <1>1, <1>3 DEF Announced, Finishes
  <2>4. announced'[k] = 1 /\ \A j \in Slot \ {k} : announced'[j] = announced[j]
    BY <1>1, <2>2, <2>3
  <2>5. ASSUME NEW d \in Command PROVE ToReport(d)' /\ OwnTurn(d)'
    <3>1. /\ pc'[d] = "work" => state'[d].turns <= Len(turns)
          /\ pc'[d] = "commit" /\ changes'[d].turn.confirmed => ReadyToSave(d)'
          /\ Reports(d)' => d # c /\ Reports(d) /\ state'[d] = state[d]
      BY <1>1, RestIsNoNews DEF Reports
    <3>2. Reports(d)' => ReadyToReport(d)'
      <4>1. Reports(d) => ReadyToReport(d)
        BY DEF NewsInv, ToReport
      <4>2. d # c /\ Reports(d) => state[d].turns # state[c].turns
        BY <2>1 DEF NewsInv, OwnTurn
      <4>3. d # c /\ Reports(d) => announced'[state[d].turns - 1] = 0
        <5>1. state[d].turns \in 0..NumTurns /\ state[c].turns \in 0..NumTurns
          BY DEF TypeOK, States
        <5>2. Reports(d) => state[d].turns - 1 \in Slot
          BY <4>1, <5>1 DEF ReadyToReport, Slot
        <5>3. QED
          BY <2>4, <4>1, <4>2, <5>1, <5>2 DEF ReadyToReport
      <4>4. QED
        BY <1>1, <3>1, <4>1, <4>3 DEF ReadyToReport, Finishes, BothSpoke, Spoke
    <3>3. OwnTurn(d)'
      <4>1. \A e \in Command : Reports(e)' => Reports(e) /\ state'[e] = state[e]
        BY <1>1, RestIsNoNews DEF Reports
      <4>2. QED
        BY <4>1 DEF NewsInv, OwnTurn
    <3>4. QED
      BY <1>1, <3>1, <3>2, <3>3 DEF ToReport
  <2>6. \A j \in Slot : announced'[j] <= IF j < Len(turns) THEN 1 ELSE 0
    BY <2>2, <2>4 DEF NewsInv
  <2>7. handedOver' <= announced'[NumTurns - 1]
    <3>1. NumTurns - 1 \in Slot
      BY DEF Slot
    <3>2. CASE Finishes(c)
      BY <1>1, <2>1, <2>2, <2>3, <2>4, <3>2 DEF ReadyToReport, NewsInv
    <3>3. CASE ~Finishes(c)
      BY <1>1, <2>2, <2>3, <2>4, <3>1, <3>3 DEF NewsInv
    <3>4. QED
      BY <3>2, <3>3
  <2>8. handedOver' > 0 => BothSpoke(turns)
    BY <2>1, <2>3 DEF ReadyToReport, NewsInv
  <2>9. QED
    BY <1>1, <2>5, <2>6, <2>7, <2>8 DEF NewsInv, BothSpoke, Spoke
<1>4. QED
  BY <1>2, <1>3

\* A command that moves, moves alone.
LEMMA OthersRest ==
    ASSUME TypeOK, NEW c \in Command, NEW d \in Command \ {c},
           \/ CommandStep(c) \/ CommandFails(c) \/ SaveDraftsFails(c)
           \/ Fire(c) \/ Boot(c)
           \/ \E o \in Ops, k \in Slot, m \in Message \cup {None} : Request(c, o, k, m)
    PROVE  Rests(d)
<1> USE DEF callVars, workVars
<1>1. CASE Work(c)
  <2>1. Refused(c) \/ \E s, ch : Worked(c, s, ch)
    BY <1>1 DEF Work, Restore, Start, AppendDraft, FinalizeTurn, ExpireTurn,
                ConfirmTurn, ForfeitDebate
  <2>2. QED
    BY <2>1 DEF Worked, Refused, Goto, Rests, TypeOK
<1>2. CASE \/ AcquireLock(c) \/ LockBusy(c) \/ LoadRow(c) \/ LoadTurns(c)
           \/ SaveDrafts(c) \/ Unlock(c) \/ After(c)
  BY <1>2 DEF AcquireLock, LockBusy, LoadRow, LoadTurns, SaveDrafts, Unlock, After,
              Forget, Goto, Rests, TypeOK
<1>3. CASE Commit(c)
  BY <1>3 DEF Commit, Refused, Goto, Rests, TypeOK
<1>4. CASE CommandFails(c) \/ SaveDraftsFails(c)
  BY <1>4 DEF CommandFails, SaveDraftsFails, Forget, Goto, Rests, TypeOK
<1>5. CASE Fire(c) \/ Boot(c)
  BY <1>5 DEF Fire, Boot, Call, Goto, Rests, TypeOK
<1>6. CASE \E o \in Ops, k \in Slot, m \in Message \cup {None} : Request(c, o, k, m)
  BY <1>6 DEF Request, Call, Goto, Rests, TypeOK
<1>7. QED
  BY <1>1, <1>2, <1>3, <1>4, <1>5, <1>6 DEF CommandStep

\* The steps of a command keep what the pipeline is told true.
LEMMA CommandNews ==
    ASSUME TypeOK, TypeOK', NewsInv, NEW c \in Command, CommandStep(c)
    PROVE  NewsInv'
<1> USE DEF storeVars, toldVars, callVars, workVars
<1>0. \A d \in Command \ {c} : Rests(d)
  BY OthersRest
<1>1. CASE AcquireLock(c) \/ LockBusy(c) \/ LoadRow(c)
  <2>1. pc'[c] \in {"row", "idle", "turns"} /\ UNCHANGED <<turns, announced, handedOver>>
    BY <1>1 DEF AcquireLock, LockBusy, LoadRow, Forget, Goto, TypeOK
  <2>2. QED
    BY <1>0, <2>1, QuietMove DEF Reports
<1>2. CASE LoadTurns(c)
  <2>1. /\ pc'[c] = "work" /\ UNCHANGED <<turns, announced, handedOver>>
        /\ state'[c].turns = Len(turns) /\ Len(turns) \in Nat
    BY <1>2 DEF LoadTurns, Goto, TypeOK, States
  <2>2. QED
    BY <1>0, <2>1, QuietMove DEF Reports
<1>3. CASE Work(c)
  <2>1. UNCHANGED <<announced, handedOver>>
    BY <1>3 DEF Work, Restore, Start, AppendDraft, FinalizeTurn, ExpireTurn,
                ConfirmTurn, ForfeitDebate, Worked, Refused
  <2>2. /\ turns' = turns /\ pc'[c] \in {"commit", "unlock"}
        /\ pc'[c] = "unlock" => op'[c] = "refused"
        /\ pc'[c] = "commit" /\ changes'[c].turn.confirmed => ReadyToSave(c)'
    <3>1. Refused(c) => pc'[c] = "unlock" /\ op'[c] = "refused"
      BY DEF Refused, Goto, TypeOK
    <3>2. QED
      BY <1>3, <3>1, WorkNews
  <2>3. QED
    BY <1>0, <2>1, <2>2, QuietMove DEF Reports
<1>4. CASE Commit(c)
  <2>1. CASE Refused(c)
    <3>1. /\ pc'[c] = "unlock" /\ op'[c] = "refused"
          /\ UNCHANGED <<turns, announced, handedOver>>
      BY <2>1 DEF Refused, Goto, TypeOK
    <3>2. QED
      BY <1>0, <3>1, QuietMove DEF Reports
  <2>2. CASE ~Refused(c)
    <3>1. /\ pc[c] = "commit" /\ pc'[c] = "redis"
          /\ UNCHANGED <<announced, handedOver, state, changes>>
          /\ changes[c].turn.confirmed =>
               /\ Len(turns) = state[c].turns - 1
               /\ turns' = Append(turns, changes[c].turn.content)
          /\ ~changes[c].turn.confirmed => turns' = turns
      BY <1>4, <2>2 DEF Commit, Goto, TypeOK
    <3>2. CASE changes[c].turn.confirmed
      BY <1>0, <3>1, <3>2, CommitNews
    <3>3. CASE ~changes[c].turn.confirmed
      BY <1>0, <3>1, <3>3, QuietMove DEF Reports
    <3>4. QED
      BY <3>2, <3>3
  <2>3. QED
    BY <2>1, <2>2
<1>5. CASE SaveDrafts(c)
  <2>1. /\ pc[c] = "redis" /\ pc'[c] = "unlock"
        /\ UNCHANGED <<turns, announced, handedOver, state, changes>>
    BY <1>5 DEF SaveDrafts, Goto, TypeOK
  <2>2. QED
    BY <1>0, <2>1, QuietMove DEF Reports
<1>6. CASE Unlock(c)
  <2>1. /\ pc[c] = "unlock" /\ UNCHANGED <<turns, announced, handedOver>>
        /\ \/ pc'[c] = "idle"
           \/ pc'[c] = "after" /\ op[c] # "refused" /\ UNCHANGED <<state, changes>>
    BY <1>6 DEF Unlock, Forget, Goto, TypeOK
  <2>2. QED
    BY <1>0, <2>1, QuietMove DEF Reports
<1>7. CASE After(c)
  BY <1>0, <1>7, AfterNews
<1>8. QED
  BY <1>1, <1>2, <1>3, <1>4, <1>5, <1>6, <1>7 DEF CommandStep

\* Every step keeps what the pipeline is told true.
LEMMA NextNews ==
    ASSUME TypeOK, TypeOK', NewsInv, [Next]_vars
    PROVE  NewsInv'
<1> USE DEF storeVars, toldVars, callVars, workVars
<1>1. ASSUME NEW c \in Command, CommandStep(c) PROVE NewsInv'
  BY <1>1, CommandNews
<1>2. ASSUME NEW c \in Command,
             \/ Fire(c) \/ Boot(c)
             \/ \E o \in Ops, k \in Slot, m \in Message \cup {None} : Request(c, o, k, m)
      PROVE  NewsInv'
  <2>1. \A d \in Command \ {c} : Rests(d)
    BY <1>2, OthersRest
  <2>2. UNCHANGED <<turns, announced, handedOver>> /\ (pc'[c] = "lock" \/ Rests(c))
    BY <1>2 DEF Fire, Boot, Request, Call, Goto, Rests, TypeOK
  <2>3. QED
    BY <2>1, <2>2, QuietMove, RestIsNoNews DEF Reports
<1>3. ASSUME NEW c \in Command, CommandFails(c) \/ SaveDraftsFails(c) PROVE NewsInv'
  <2>1. \A d \in Command \ {c} : Rests(d)
    BY <1>3, OthersRest
  <2>2. /\ UNCHANGED <<turns, announced, handedOver>>
        /\ \/ pc'[c] = "idle"
           \/ pc'[c] = "unlock" /\ op'[c] = "refused"
           \/ /\ pc[c] = "unlock" /\ pc'[c] = "after" /\ op[c] # "refused"
              /\ UNCHANGED <<state, changes>>
           \/ /\ pc[c] = "redis" /\ pc'[c] = "unlock"
              /\ UNCHANGED <<state, changes>>
    <3>1. CASE CommandFails(c)
      BY <3>1 DEF CommandFails, Forget, Goto, TypeOK
    <3>2. CASE SaveDraftsFails(c)
      BY <3>2 DEF SaveDraftsFails, Goto, TypeOK
    <3>3. QED
      BY <1>3, <3>1, <3>2
  <2>3. QED
    BY <2>1, <2>2, QuietMove DEF Reports
<1>4. CASE DeadlinePasses \/ LockExpires \/ BootFails \/ JudgeStep \/ UNCHANGED vars
  <2>1. UNCHANGED <<turns, announced, handedOver>> /\ \A d \in Command : Rests(d)
    BY <1>4 DEF DeadlinePasses, LockExpires, BootFails, JudgeStep, vars, Rests
  <2>2. QED
    BY <2>1, NoNews, RestIsNoNews
<1>5. CASE Crash
  <2>1. /\ UNCHANGED <<turns, announced, handedOver>>
        /\ \A d \in Command : pc'[d] = "idle"
    BY <1>5 DEF Crash
  <2>2. QED
    BY <2>1, NoNews DEF Reports
<1>6. QED
  BY <1>1, <1>2, <1>3, <1>4, <1>5 DEF Next

(***************************************************************************)
(* The pipeline hears of a turn, and of the end, at most once and never of *)
(* what the database does not hold (announceTurn is called once the store  *)
(* has committed, and the place of a turn is unique), for any number of    *)
(* locks that expire under a slow holder, crashes and failing calls.       *)
(***************************************************************************)
THEOREM ChatAnnouncesOnce == Spec => []AnnouncedOnce
<1>1. Init => NewsInv
  <2> SUFFICES ASSUME Init PROVE NewsInv
    OBVIOUS
  <2>1. Len(turns) = 0 /\ NumTurns - 1 \in Slot
    BY DEF Init, Slot
  <2>2. QED
    BY <2>1 DEF Init, NewsInv, ToReport, OwnTurn, Reports
<1>2. TypeOK /\ NewsInv /\ [Next]_vars => NewsInv'
  BY NextType, NextNews
<1>3. TypeOK /\ NewsInv => AnnouncedOnce
  <2> SUFFICES ASSUME TypeOK, NewsInv PROVE AnnouncedOnce
    OBVIOUS
  <2>1. NumTurns - 1 \in Slot
    BY DEF Slot
  <2>2. announced[NumTurns - 1] <= IF NumTurns - 1 < Len(turns) THEN 1 ELSE 0
    BY <2>1 DEF NewsInv
  <2>3. /\ announced[NumTurns - 1] \in Nat /\ handedOver \in Nat
        /\ Len(turns) \in Nat /\ Len(turns) <= NumTurns
    BY <2>1 DEF TypeOK
  <2>4. handedOver <= announced[NumTurns - 1] /\ (handedOver > 0 => BothSpoke(turns))
    BY DEF NewsInv
  <2>5. handedOver <= IF Len(turns) = NumTurns /\ BothSpoke(turns) THEN 1 ELSE 0
    BY <2>2, <2>3, <2>4
  <2>6. QED
    BY <2>5 DEF AnnouncedOnce, NewsInv
<1>4. QED
  BY <1>1, <1>2, <1>3, ChatTypes, PTL DEF Spec

-----------------------------------------------------------------------------
(* Where the drafts are *)

\* What was said in a turn, or is waiting to be confirmed in the current one.
Line(i) == IF i <= Len(turns) THEN turns[i] ELSE drafts[Len(turns)]

\* The draft is the j-th of the i-th turn.
Lies(m, i, j) ==
    /\ i \in 1..NumTurns /\ i <= Len(turns) + 1
    /\ j \in DOMAIN Line(i) /\ Line(i)[j] = m

\* It is somewhere.
HasPlace(m) == \E i \in 1..NumTurns, j \in 1..MessageLimit : Lies(m, i, j)

\* Unless its hset failed, a draft that is somewhere is known, and nowhere else.
OnePlace ==
    \A m \in Message \ unrecorded, i \in 1..NumTurns, j \in 1..MessageLimit :
        Lies(m, i, j) =>
          /\ m \in cmids
          /\ \A x \in 1..NumTurns, y \in 1..MessageLimit :
               Lies(m, x, y) => x = i /\ y = j

\* Unless its rpush failed, a draft that is known or answered is somewhere.
Kept == \A m \in (cmids \cup accepted) \ lost : HasPlace(m)

\* Only the current slot and those before it have drafts, and all fit.
InBounds ==
    /\ \A k \in Slot : /\ Len(drafts[k]) <= MessageLimit
                       /\ k > Len(turns) => drafts[k] = <<>>
    /\ \A i \in 1..Len(turns) : Len(turns[i]) <= MessageLimit

\* A draft on its way to Redis: the one who holds the lock knows that it is
\* new, and that there is room for it in the current slot.
ReadyToAppend(c) ==
    /\ state[c].turns = Len(turns) /\ Len(turns) < NumTurns
    /\ changes[c].draft \notin cmids
    /\ Len(drafts[Len(turns)]) < MessageLimit
    /\ ~changes[c].turn.confirmed

\* A turn on its way to the database: it is all that waits in the current slot.
ReadyToConfirm(c) ==
    /\ state[c].turns = Len(turns) + 1 /\ Len(turns) < NumTurns
    /\ changes[c].turn.content = drafts[Len(turns)]

KnowsDrafts(c) ==
    /\ pc[c] = "work" => state[c].turns = Len(turns)
    /\ pc[c] \in {"commit", "redis"} /\ changes[c].draft # None => ReadyToAppend(c)
    /\ pc[c] = "commit" /\ changes[c].turn.confirmed => ReadyToConfirm(c)
    /\ pc[c] = "redis" /\ changes[c].turn.confirmed => state[c].turns \in 1..Len(turns)
    /\ pc[c] \in {"commit", "redis"} /\ op[c] = "append" =>
         message[c] = changes[c].draft \/ message[c] \in cmids
    /\ pc[c] \in {"unlock", "after"} /\ op[c] = "append" =>
         message[c] \in lost \/ HasPlace(message[c])

DraftsInv == OnePlace /\ Kept /\ InBounds /\ \A c \in Command : KnowsDrafts(c)

LEMMA StoreTypes ==
    ASSUME TypeOK
    PROVE  /\ turns \in Seq(Seq(Message)) /\ drafts \in [Slot -> Seq(Message)]
           /\ Len(turns) \in Nat /\ Len(turns) <= NumTurns
           /\ \A i \in 1..Len(turns) : turns[i] \in Seq(Message)
           /\ \A k \in Slot : drafts[k] \in Seq(Message)
           /\ Len(turns) < NumTurns => Len(turns) \in Slot
BY DEF TypeOK, Slot

\* Where nothing is written, every draft stays where it is.
LEMMA DraftsStay ==
    ASSUME DraftsInv, UNCHANGED storeVars,
           \A m \in accepted' : m \in accepted \cup lost \/ HasPlace(m),
           \A c \in Command : KnowsDrafts(c)'
    PROVE  DraftsInv'
<1>1. UNCHANGED <<turns, drafts, cmids, lost, unrecorded>>
  BY DEF storeVars
<1>2. OnePlace' /\ InBounds'
  BY <1>1 DEF DraftsInv, OnePlace, InBounds, Lies, Line
<1>3. ASSUME NEW m \in (cmids' \cup accepted') \ lost' PROVE HasPlace(m)'
  <2>1. HasPlace(m)
    BY <1>1, <1>3 DEF DraftsInv, Kept
  <2>2. QED
    BY <1>1, <2>1 DEF HasPlace, Lies, Line
<1>4. QED
  BY <1>2, <1>3 DEF DraftsInv, Kept

\* No draft moves.
StayPut ==
    \A o \in Message, x \in 1..NumTurns, y \in 1..MessageLimit :
      Lies(o, x, y)' <=> Lies(o, x, y)

\* A draft that was somewhere still is.
Remain == \A o \in Message : HasPlace(o) => HasPlace(o)'

LEMMA SamePlaces ==
    ASSUME OnePlace, StayPut, UNCHANGED <<cmids, unrecorded>>
    PROVE  OnePlace' /\ Remain
<1>1. OnePlace'
  BY DEF OnePlace, StayPut
<1>2. Remain
  BY DEF Remain, StayPut, HasPlace
<1>3. QED
  BY <1>1, <1>2

LEMMA RestsWithDrafts ==
    ASSUME DraftsInv, UNCHANGED storeVars, NEW c \in Command, Rests(c)
    PROVE  KnowsDrafts(c)'
<1>1. UNCHANGED <<turns, drafts, cmids, lost>> /\ KnowsDrafts(c)
  BY DEF storeVars, DraftsInv
<1>2. HasPlace(message[c]) => HasPlace(message[c])'
  BY <1>1 DEF Rests, HasPlace, Lies, Line
<1>3. QED
  BY <1>1, <1>2 DEF KnowsDrafts, Rests, ReadyToAppend, ReadyToConfirm

\* A draft is appended: it was nowhere, and is now at the end of its slot.
LEMMA AppendedDraft ==
    ASSUME TypeOK, OnePlace, InBounds, NEW m \in Message, m \notin cmids,
           Len(turns) < NumTurns, Len(drafts[Len(turns)]) < MessageLimit,
           drafts' = [drafts EXCEPT ![Len(turns)] = Append(drafts[Len(turns)], m)],
           cmids \subseteq cmids', unrecorded \subseteq unrecorded',
           m \in cmids' \cup unrecorded', turns' = turns
    PROVE  OnePlace' /\ InBounds' /\ Remain /\ HasPlace(m)'
<1> DEFINE n == Len(turns)
           q == drafts[n]
           z == Len(q) + 1
<1>1. /\ n \in Slot /\ n \in Nat /\ n < NumTurns /\ n + 1 \in 1..NumTurns
      /\ q \in Seq(Message) /\ Len(q) \in Nat /\ z \in 1..MessageLimit
  BY StoreTypes DEF Slot
<1>2. /\ drafts'[n] = Append(q, m)
      /\ \A k \in Slot \ {n} : drafts'[k] = drafts[k]
  BY <1>1, StoreTypes
<1> PICK a : a = Append(q, m)
  OBVIOUS
<1>3. /\ DOMAIN a = 1..z /\ DOMAIN q = 1..Len(q)
      /\ a[z] = m
      /\ \A j \in 1..Len(q) : a[j] = q[j]
      /\ Len(a) = z
  BY <1>1
<1>4. ASSUME NEW o \in Message, NEW x \in 1..NumTurns, NEW y \in 1..MessageLimit
      PROVE  Lies(o, x, y)' <=> Lies(o, x, y) \/ (o = m /\ x = n + 1 /\ y = z)
  <2>1. CASE x <= n
    BY <1>1, <2>1 DEF Lies, Line
  <2>2. CASE x = n + 1
    <3>1. Line(x) = q /\ Line(x)' = a
      BY <1>1, <1>2, <2>2 DEF Line
    <3>2. Lies(o, x, y) <=> y \in 1..Len(q) /\ q[y] = o
      BY <1>1, <1>3, <2>2, <3>1 DEF Lies
    <3>3. Lies(o, x, y)' <=> y \in 1..z /\ a[y] = o
      <4>1. Lies(o, x, y)' <=> /\ x \in 1..NumTurns /\ x <= n + 1
                               /\ y \in DOMAIN (Line(x)') /\ (Line(x)')[y] = o
        BY DEF Lies
      <4>2. x <= n + 1 /\ DOMAIN a = 1..z
        BY <1>1, <1>3, <2>2
      <4> HIDE DEF n, z, q
      <4>3. QED
        BY <3>1, <4>1, <4>2
    <3>4. y \in 1..z <=> y \in 1..Len(q) \/ y = z
      BY <1>1
    <3>5. QED
      BY <1>1, <1>3, <2>2, <3>2, <3>3, <3>4
  <2>3. CASE x > n + 1
    BY <1>1, <2>3 DEF Lies
  <2>4. x <= n \/ x = n + 1 \/ x > n + 1
    BY <1>1
  <2>5. QED
    BY <2>1, <2>2, <2>3, <2>4
<1>5. ASSUME NEW o \in Message \ unrecorded', NEW x \in 1..NumTurns,
             NEW y \in 1..MessageLimit, Lies(o, x, y)'
      PROVE  /\ o \in cmids'
             /\ \A u \in 1..NumTurns, v \in 1..MessageLimit :
                  Lies(o, u, v)' => u = x /\ v = y
  <2>1. CASE o = m
    <3>1. \A u \in 1..NumTurns, v \in 1..MessageLimit : ~Lies(m, u, v)
      BY <2>1 DEF OnePlace
    <3>2. \A u \in 1..NumTurns, v \in 1..MessageLimit :
            Lies(o, u, v)' => u = n + 1 /\ v = z
      BY <1>4, <2>1, <3>1
    <3>3. QED
      BY <1>5, <2>1, <3>2
  <2>2. CASE o # m
    <3>1. \A u \in 1..NumTurns, v \in 1..MessageLimit : Lies(o, u, v)' <=> Lies(o, u, v)
      BY <1>4, <2>2
    <3>2. QED
      BY <1>5, <3>1 DEF OnePlace
  <2>3. QED
    BY <2>1, <2>2
<1>6. OnePlace'
  BY <1>5 DEF OnePlace
<1>7. InBounds'
  BY <1>1, <1>2, <1>3 DEF InBounds
<1>8. Remain /\ HasPlace(m)'
  BY <1>1, <1>4 DEF Remain, HasPlace
<1>9. QED
  BY <1>6, <1>7, <1>8

\* A turn is confirmed: its drafts now lie in the database, where they lay.
LEMMA ConfirmedDrafts ==
    ASSUME TypeOK, OnePlace, InBounds, Len(turns) < NumTurns,
           turns' = Append(turns, drafts[Len(turns)]),
           UNCHANGED <<drafts, cmids, unrecorded>>
    PROVE  OnePlace' /\ InBounds' /\ Remain
<1> DEFINE n == Len(turns)
<1>1. /\ n \in Slot /\ n \in Nat /\ n < NumTurns /\ drafts[n] \in Seq(Message)
      /\ turns \in Seq(Seq(Message))
  BY StoreTypes
<1>2. /\ Len(turns') = n + 1 /\ turns'[n + 1] = drafts[n]
      /\ \A i \in 1..n : turns'[i] = turns[i]
  BY <1>1
<1>3. ASSUME NEW o \in Message, NEW x \in 1..NumTurns, NEW y \in 1..MessageLimit
      PROVE  Lies(o, x, y)' <=> Lies(o, x, y)
  <2>1. CASE x <= n + 1
    <3>1. Line(x)' = Line(x)
      BY <1>1, <1>2, <2>1 DEF Line
    <3>2. QED
      BY <1>1, <1>2, <2>1, <3>1 DEF Lies
  <2>2. CASE x = n + 2
    <3>1. n + 1 \in Slot /\ Line(x)' = <<>>
      BY <1>1, <1>2, <2>2 DEF Line, InBounds, Slot
    <3>2. QED
      BY <1>1, <2>2, <3>1 DEF Lies
  <2>3. CASE x > n + 2
    BY <1>1, <1>2, <2>3 DEF Lies
  <2>4. QED
    BY <1>1, <2>1, <2>2, <2>3
<1>4. OnePlace' /\ Remain
  BY <1>3, SamePlaces DEF StayPut
<1>5. InBounds'
  <2>1. ASSUME NEW k \in Slot
        PROVE  Len(drafts'[k]) <= MessageLimit /\ (k > n + 1 => drafts'[k] = <<>>)
    BY <1>1 DEF InBounds, Slot
  <2>2. ASSUME NEW i \in 1..(n + 1) PROVE Len(turns'[i]) <= MessageLimit
    BY <1>1, <1>2 DEF InBounds
  <2>3. QED
    BY <1>2, <2>1, <2>2 DEF InBounds
<1>6. QED
  BY <1>4, <1>5

\* The drafts of a confirmed turn are deleted: nobody looks for them any more.
LEMMA DeletedDrafts ==
    ASSUME TypeOK, OnePlace, InBounds, NEW k \in Nat, k < Len(turns),
           drafts' = [drafts EXCEPT ![k] = <<>>], UNCHANGED <<turns, cmids, unrecorded>>
    PROVE  OnePlace' /\ InBounds' /\ Remain
<1>1. /\ Len(turns) \in Nat /\ Len(turns) <= NumTurns
      /\ drafts \in [Slot -> Seq(Message)] /\ Len(<<>>) = 0
  BY StoreTypes
<1>2. \A j \in Slot : drafts'[j] = IF j = k THEN <<>> ELSE drafts[j]
  BY <1>1
<1>3. ASSUME NEW o \in Message, NEW x \in 1..NumTurns, NEW y \in 1..MessageLimit
      PROVE  Lies(o, x, y)' <=> Lies(o, x, y)
  <2>1. x <= Len(turns) + 1 => Line(x)' = Line(x)
    <3>1. x <= Len(turns) + 1 /\ ~(x <= Len(turns)) => Len(turns) \in Slot
      BY <1>1 DEF Slot
    <3>2. QED
      BY <1>1, <1>2, <3>1 DEF Line
  <2>2. QED
    BY <2>1 DEF Lies
<1>4. OnePlace' /\ Remain
  BY <1>3, SamePlaces DEF StayPut
<1>5. InBounds'
  BY <1>1, <1>2 DEF InBounds
<1>6. QED
  BY <1>4, <1>5

\* The holder of the lock writes: all the others know of the drafts is that
\* those they answer for were stored.
LEMMA HolderWrites ==
    ASSUME TypeOK, ChatInv, DraftsInv, NEW c \in Command, pc[c] \in Working,
           \A d \in Command \ {c} : Rests(d),
           OnePlace', InBounds', KnowsDrafts(c)',
           Remain, lost \subseteq lost', accepted' = accepted,
           \A m \in cmids' \ lost' : m \in cmids \/ HasPlace(m)'
    PROVE  DraftsInv'
<1>1. ASSUME NEW d \in Command \ {c} PROVE KnowsDrafts(d)'
  <2>1. pc'[d] = pc[d] /\ pc[d] \notin Working
    BY DEF ChatInv, Knows, Rests
  <2>2. /\ op'[d] = op[d] /\ message'[d] = message[d]
        /\ op[d] = "append" => message[d] \in Message
    BY DEF Rests, TypeOK
  <2>3. pc[d] = "after" /\ op[d] = "append" => message[d] \in lost \/ HasPlace(message[d])
    BY DEF DraftsInv, KnowsDrafts
  <2>4. CASE pc[d] = "after" /\ op[d] = "append"
    <3>1. PICK m \in Message : m = message[d]
      BY <2>2, <2>4
    <3>2. m \in lost' \/ HasPlace(m)'
      BY <2>3, <2>4, <3>1 DEF Remain
    <3>3. message'[d] \in lost' \/ HasPlace(message[d])'
      BY <2>2, <3>1, <3>2 DEF HasPlace
    <3>4. QED
      BY <2>1, <2>4, <3>3 DEF KnowsDrafts, Working
  <2>5. CASE ~(pc[d] = "after" /\ op[d] = "append")
    BY <2>1, <2>2, <2>5 DEF KnowsDrafts, Working
  <2>6. QED
    BY <2>4, <2>5
<1>2. Kept'
  <2>1. ASSUME NEW m \in (cmids' \cup accepted') \ lost' PROVE HasPlace(m)'
    <3>1. m \in cmids \cup accepted => HasPlace(m) /\ m \in Message
      BY <2>1 DEF DraftsInv, Kept, TypeOK
    <3>2. QED
      BY <2>1, <3>1 DEF Remain
  <2>2. QED
    BY <2>1 DEF Kept
<1>3. QED
  BY <1>1, <1>2 DEF DraftsInv

\* A command moves without writing.
LEMMA MovesWithDrafts ==
    ASSUME DraftsInv, UNCHANGED storeVars, NEW c \in Command,
           \A m \in accepted' : m \in accepted \cup lost \/ HasPlace(m),
           \A d \in Command \ {c} : Rests(d), KnowsDrafts(c)'
    PROVE  DraftsInv'
<1>1. \A d \in Command : KnowsDrafts(d)'
  BY RestsWithDrafts
<1>2. QED
  BY <1>1, DraftsStay

\* What the work of a command leaves to write is what the drafts say.
LEMMA WorkKnowsDrafts ==
    ASSUME TypeOK, DraftsInv, NEW c \in Command, Work(c)
    PROVE  UNCHANGED storeVars /\ accepted' = accepted /\ KnowsDrafts(c)'
<1> DEFINE s == Started(state[c])
           n == Len(turns)
<1>1. /\ pc[c] = "work" /\ state[c].turns = n /\ s.turns = n /\ n \in Nat
      /\ state[c] \in States /\ s \in States
      /\ message[c] \in Message \cup {None}
      /\ NoChanges \in Changes /\ NoChanges.draft = None /\ NoChanges.turn = NoTurn
      /\ ~NoTurn.confirmed
  BY WorkTypes, BlankTypes, StoreTypes DEF Work, DraftsInv, KnowsDrafts, NoChanges, NoTurn
<1>2. UNCHANGED storeVars /\ UNCHANGED <<turns, drafts, cmids>> /\ accepted' = accepted
  BY DEF Work, Restore, Start, AppendDraft, FinalizeTurn, ExpireTurn, ConfirmTurn,
         ForfeitDebate, Worked, Refused, storeVars, toldVars
<1>3. Refused(c) => KnowsDrafts(c)'
  <2>1. Refused(c) => pc'[c] = "unlock" /\ op'[c] = "refused"
    BY DEF Refused, Goto, TypeOK
  <2>2. QED
    BY <2>1 DEF KnowsDrafts
<1>4. ASSUME NEW x, NEW h \in Changes, Worked(c, x, h)
      PROVE  /\ pc'[c] = "commit" /\ state'[c] = x
             /\ op'[c] = op[c] /\ message'[c] = message[c]
             /\ changes'[c].draft = h.draft /\ changes'[c].turn = h.turn
  <2>1. /\ pc'[c] = "commit" /\ state'[c] = x
        /\ op'[c] = op[c] /\ message'[c] = message[c]
        /\ changes'[c] = [h EXCEPT !.row = h.row \/ state[c].status = "READY"]
    BY <1>4 DEF Worked, Goto, TypeOK, callVars
  <2>2. QED
    BY <1>4, <2>1 DEF Changes
<1>5. ASSUME NEW x, NEW h \in Changes, Worked(c, x, h), h.draft = None, h.turn = NoTurn,
             op[c] = "append" => message[c] \in cmids
      PROVE  KnowsDrafts(c)'
  BY <1>1, <1>2, <1>4, <1>5 DEF KnowsDrafts
<1>6. ASSUME HasSlot(s), ConfirmTurn(c), op[c] # "append" PROVE KnowsDrafts(c)'
  <2> DEFINE turn == [confirmed |-> TRUE, content |-> Current(c)]
             said == Append(SubSeq(turns, 1, s.turns), Current(c))
             next == [s EXCEPT !.turns = s.turns + 1]
             ch == [NoChanges EXCEPT !.turn = turn]
             final == [next EXCEPT !.status = "DEBATE_FINALIZED",
                                   !.endReason = "ALL_TURNS_FINALIZED"]
             expired == [next EXCEPT !.status = "FAILED",
                                     !.endReason = "TOTAL_TIME_EXPIRED"]
             finalCh == [ch EXCEPT !.row = TRUE]
             expiredCh == [ch EXCEPT !.row = TRUE, !.reward = SomeoneSpoke(said)]
  <2>1. n < NumTurns /\ n \in Slot /\ Current(c) = drafts[n]
    BY <1>1, <1>6 DEF HasSlot, Current, Slot
  <2>2. next.turns = n + 1 /\ final.turns = n + 1 /\ expired.turns = n + 1
    BY <1>1 DEF States
  <2>3. turn \in Turns /\ turn.content = drafts[n]
    BY <2>1, StoreTypes DEF Turns
  <2>4. SomeoneSpoke(said) \in BOOLEAN
    BY DEF SomeoneSpoke, Spoke
  <2> HIDE DEF turn, said
  <2>5. ch \in Changes /\ ch.draft = None /\ ch.turn = turn
    BY <1>1, <2>3 DEF Changes
  <2> HIDE DEF ch
  <2>6. /\ finalCh \in Changes /\ finalCh.draft = None /\ finalCh.turn = turn
        /\ expiredCh \in Changes /\ expiredCh.draft = None /\ expiredCh.turn = turn
    BY <2>4, <2>5 DEF Changes
  <2> HIDE DEF s, next, final, expired, finalCh, expiredCh
  <2>7. Worked(c, next, ch) \/ Worked(c, final, finalCh) \/ Worked(c, expired, expiredCh)
    BY <1>6 DEF ConfirmTurn, turn, said, next, ch, final, expired, finalCh, expiredCh, s
  <2>8. /\ pc'[c] = "commit" /\ state'[c].turns = n + 1 /\ op'[c] = op[c]
        /\ changes'[c].draft = None /\ changes'[c].turn = turn
    BY <1>4, <2>2, <2>5, <2>6, <2>7
  <2>9. QED
    BY <1>2, <1>6, <2>1, <2>3, <2>8 DEF KnowsDrafts, ReadyToConfirm
<1>7. CASE Restore(c) \/ Start(c)
  BY <1>1, <1>2, <1>3, <1>5, <1>7 DEF Restore, Start
<1>8. CASE AppendDraft(c)
  <2> DEFINE ch == [NoChanges EXCEPT !.draft = message[c]]
  <2>1. ch \in Changes /\ ch.draft = message[c] /\ ch.turn = NoTurn
    BY <1>1 DEF Changes
  <2> HIDE DEF ch, s
  <2>2. CASE /\ Worked(c, s, ch) /\ HasSlot(s) /\ message[c] \notin cmids
             /\ Len(drafts[n]) < MessageLimit
    <3>1. /\ pc'[c] = "commit" /\ state'[c].turns = n /\ message'[c] = message[c]
          /\ changes'[c].draft = message[c] /\ changes'[c].turn = NoTurn
      BY <1>1, <1>4, <2>1, <2>2
    <3>2. n < NumTurns
      BY <1>1, <2>2 DEF HasSlot
    <3>3. ReadyToAppend(c)'
      BY <1>1, <1>2, <2>2, <3>1, <3>2 DEF ReadyToAppend
    <3>4. QED
      BY <1>1, <1>2, <3>1, <3>3 DEF KnowsDrafts
  <2>3. \/ Refused(c)
        \/ Worked(c, s, NoChanges) /\ message[c] \in cmids
        \/ /\ Worked(c, s, ch) /\ HasSlot(s) /\ message[c] \notin cmids
           /\ Len(drafts[n]) < MessageLimit
    <3>1. /\ Allowed(c) => HasSlot(s)
          /\ Current(c) = drafts[n] /\ (Duplicate(c) <=> message[c] \in cmids)
      BY <1>1 DEF Allowed, Current, Duplicate, s
    <3>2. QED
      BY <1>8, <3>1 DEF AppendDraft, s, ch
  <2>4. QED
    BY <1>1, <1>2, <1>3, <1>5, <2>2, <2>3
<1>9. CASE FinalizeTurn(c)
  BY <1>2, <1>3, <1>6, <1>9 DEF FinalizeTurn, Allowed
<1>10. CASE ExpireTurn(c)
  <2>1. HasSlot(state[c]) => HasSlot(s)
    BY <1>1 DEF HasSlot, Started, States
  <2>2. QED
    BY <1>1, <1>2, <1>5, <1>6, <1>10, <2>1 DEF ExpireTurn
<1>11. CASE ForfeitDebate(c)
  <2>1. PICK ch : ch = [NoChanges EXCEPT !.row = TRUE, !.reward = TRUE]
    OBVIOUS
  <2>2. ch \in Changes /\ ch.draft = None /\ ch.turn = NoTurn
    BY <1>1, <2>1 DEF Changes
  <2>3. Refused(c) \/ \E x : Worked(c, x, ch)
    BY <1>11, <2>1 DEF ForfeitDebate
  <2>4. op[c] # "append"
    BY <1>11 DEF ForfeitDebate
  <2>5. QED
    BY <1>2, <1>3, <1>5, <2>2, <2>3, <2>4
<1>12. QED
  BY <1>2, <1>7, <1>8, <1>9, <1>10, <1>11 DEF Work

\* Between unlock and answer a command knows that its draft was stored.
LEMMA ReleasedDrafts ==
    ASSUME NEW c \in Command, KnowsDrafts(c), pc[c] = "unlock", UNCHANGED storeVars,
           \/ pc'[c] = "idle"
           \/ pc'[c] = "after" /\ UNCHANGED <<op, message>>
    PROVE  KnowsDrafts(c)'
<1>1. UNCHANGED <<turns, drafts, cmids, lost>>
  BY DEF storeVars
<1>2. CASE pc'[c] = "idle"
  BY <1>2 DEF KnowsDrafts
<1>3. CASE pc'[c] = "after" /\ UNCHANGED <<op, message>>
  <2>1. HasPlace(message[c]) => HasPlace(message[c])'
    BY <1>1, <1>3 DEF HasPlace, Lies, Line
  <2>2. QED
    BY <1>1, <1>3, <2>1 DEF KnowsDrafts
<1>4. QED
  BY <1>2, <1>3

\* The pipeline, whole or in part, stores the draft, or marks it as lost.
LEMMA PipelineKeepsDrafts ==
    ASSUME TypeOK, ChatInv, DraftsInv, NEW c \in Command,
           SaveDrafts(c) \/ SaveDraftsFails(c)
    PROVE  DraftsInv'
<1> PICK m : m = changes[c].draft
  OBVIOUS
<1> DEFINE k == state[c].turns
<1>1. /\ pc[c] = "redis" /\ pc'[c] = "unlock"
      /\ UNCHANGED <<turns, accepted, op, message>>
  BY DEF SaveDrafts, SaveDraftsFails, Goto, TypeOK, callVars, toldVars
<1>2. \A d \in Command \ {c} : Rests(d)
  BY OthersRest DEF CommandStep
<1>3. /\ OnePlace /\ Kept /\ InBounds /\ KnowsDrafts(c)
      /\ changes[c] \in Changes /\ m \in Message \cup {None}
      /\ cmids \subseteq Message
      /\ op[c] = "append" => message[c] \in Message
  BY DEF DraftsInv, TypeOK, Changes
<1>4. op[c] = "append" => message[c] = m \/ message[c] \in cmids
  BY <1>1, <1>3 DEF KnowsDrafts
\* It is enough that what is known is stored, or marked.
<1>5. ASSUME OnePlace', InBounds', Remain, lost \subseteq lost',
             cmids' \subseteq cmids \cup {m},
             m # None => m \in lost' \/ HasPlace(m)',
             m = None => cmids' = cmids
      PROVE  DraftsInv'
  <2>1. KnowsDrafts(c)'
    <3>1. ASSUME op[c] = "append" PROVE message[c] \in lost' \/ HasPlace(message[c])'
      <4>1. PICK o \in Message : o = message[c]
        BY <1>3, <3>1
      <4>2. o \in lost' \/ HasPlace(o)'
        <5>1. CASE o = m
          <6>1. m # None
            BY <5>1, ChatAssumption
          <6>2. QED
            BY <1>5, <5>1, <6>1 DEF HasPlace
        <5>2. CASE o \in cmids
          BY <1>3, <1>5, <5>2 DEF Kept, Remain
        <5>3. QED
          BY <1>4, <3>1, <4>1, <5>1, <5>2
      <4>3. QED
        BY <1>1, <4>1, <4>2 DEF HasPlace
    <3>2. QED
      BY <1>1, <3>1 DEF KnowsDrafts
  <2>2. ASSUME NEW o \in cmids' \ lost' PROVE o \in cmids \/ HasPlace(o)'
    BY <1>5, <2>2
  <2>3. QED
    BY <1>1, <1>2, <1>5, <2>1, <2>2, HolderWrites DEF Working
<1>6. CASE /\ m # None /\ drafts' = [drafts EXCEPT ![k] = Append(@, m)]
           /\ lost' = lost
           /\ \/ cmids' = cmids \cup {m} /\ UNCHANGED unrecorded
              \/ unrecorded' = unrecorded \cup {m} /\ UNCHANGED cmids
  <2>1. ReadyToAppend(c) /\ m \in Message
    BY <1>1, <1>3, <1>6 DEF KnowsDrafts
  <2>2. drafts' = [drafts EXCEPT ![Len(turns)] = Append(drafts[Len(turns)], m)]
    BY <1>6, <2>1, StoreTypes DEF ReadyToAppend
  <2>3. /\ cmids \subseteq cmids' /\ unrecorded \subseteq unrecorded'
        /\ m \in cmids' \cup unrecorded' /\ cmids' \subseteq cmids \cup {m}
        /\ lost \subseteq lost'
    BY <1>6
  <2>4. OnePlace' /\ InBounds' /\ Remain /\ HasPlace(m)'
    BY <1>1, <1>3, <2>1, <2>2, <2>3, AppendedDraft DEF ReadyToAppend
  <2>5. QED
    BY <1>5, <1>6, <2>3, <2>4
<1>7. CASE /\ changes[c].turn.confirmed
           /\ drafts' = [drafts EXCEPT ![k - 1] = <<>>]
           /\ UNCHANGED <<cmids, lost, unrecorded>>
  <2>1. k \in 1..Len(turns) /\ m = None
    BY <1>1, <1>3, <1>7 DEF KnowsDrafts, ReadyToAppend
  <2>2. k - 1 \in Nat /\ k - 1 < Len(turns)
    BY <2>1, StoreTypes
  <2> HIDE DEF k
  <2>3. OnePlace' /\ InBounds' /\ Remain
    BY <1>1, <1>3, <1>7, <2>2, DeletedDrafts
  <2>4. QED
    BY <1>5, <1>7, <2>1, <2>3
<1>8. CASE /\ UNCHANGED <<drafts, unrecorded>> /\ lost \subseteq lost'
           /\ \/ m = None /\ cmids' = cmids
              \/ m # None /\ m \in lost' /\ cmids' \in {cmids, cmids \cup {m}}
  <2>1. StayPut
    BY <1>1, <1>8 DEF StayPut, Lies, Line
  <2>2. OnePlace' /\ Remain
    BY <1>3, <1>8, <2>1 DEF OnePlace, StayPut, Remain, HasPlace
  <2>3. InBounds'
    BY <1>1, <1>3, <1>8 DEF InBounds
  <2>4. QED
    BY <1>5, <1>8, <2>2, <2>3
<1>9. \/ /\ m # None /\ drafts' = [drafts EXCEPT ![k] = Append(@, m)]
         /\ lost' = lost
         /\ \/ cmids' = cmids \cup {m} /\ UNCHANGED unrecorded
            \/ unrecorded' = unrecorded \cup {m} /\ UNCHANGED cmids
      \/ /\ changes[c].turn.confirmed
         /\ drafts' = [drafts EXCEPT ![k - 1] = <<>>]
         /\ UNCHANGED <<cmids, lost, unrecorded>>
      \/ /\ UNCHANGED <<drafts, unrecorded>> /\ lost \subseteq lost'
         /\ \/ m = None /\ cmids' = cmids
            \/ m # None /\ m \in lost' /\ cmids' \in {cmids, cmids \cup {m}}
  <2>1. changes[c].turn.confirmed => m = None
    BY <1>1, <1>3 DEF KnowsDrafts, ReadyToAppend
  <2>2. QED
    BY <2>1 DEF SaveDrafts, SaveDraftsFails
<1>10. QED
  BY <1>6, <1>7, <1>8, <1>9

\* The steps of a command keep every draft in its place.
LEMMA CommandKeepsDrafts ==
    ASSUME TypeOK, ChatInv, DraftsInv, NEW c \in Command, CommandStep(c)
    PROVE  DraftsInv'
<1> USE DEF callVars, workVars, toldVars
<1>0. /\ \A d \in Command \ {c} : Rests(d)
      /\ OnePlace /\ InBounds /\ KnowsDrafts(c)
      /\ state[c] \in States /\ changes[c] \in Changes
  BY OthersRest DEF DraftsInv, TypeOK
<1>1. CASE \/ AcquireLock(c) \/ LockBusy(c) \/ LoadRow(c)
  <2>1. /\ pc'[c] \in {"row", "idle", "turns"}
        /\ UNCHANGED storeVars /\ accepted' = accepted
    BY <1>1 DEF AcquireLock, LockBusy, LoadRow, Forget, Goto, TypeOK
  <2>2. KnowsDrafts(c)'
    BY <2>1 DEF KnowsDrafts
  <2>3. QED
    BY <1>0, <2>1, <2>2, MovesWithDrafts
<1>2. CASE LoadTurns(c)
  <2>1. /\ pc'[c] = "work" /\ UNCHANGED storeVars /\ accepted' = accepted
        /\ state'[c].turns = Len(turns)
    BY <1>0, <1>2 DEF LoadTurns, Goto, TypeOK, States
  <2>2. KnowsDrafts(c)'
    BY <2>1 DEF KnowsDrafts, storeVars
  <2>3. QED
    BY <1>0, <2>1, <2>2, MovesWithDrafts
<1>3. CASE Work(c)
  BY <1>0, <1>3, WorkKnowsDrafts, MovesWithDrafts
<1>4. CASE Commit(c)
  <2>1. CASE Refused(c)
    <3>1. /\ pc'[c] = "unlock" /\ op'[c] = "refused"
          /\ UNCHANGED storeVars /\ accepted' = accepted
      BY <2>1 DEF Refused, Goto, TypeOK
    <3>2. KnowsDrafts(c)'
      BY <3>1 DEF KnowsDrafts
    <3>3. QED
      BY <1>0, <3>1, <3>2, MovesWithDrafts
  <2>2. CASE ~Refused(c)
    <3>1. /\ pc[c] = "commit" /\ pc'[c] = "redis"
          /\ UNCHANGED <<drafts, cmids, lost, unrecorded, accepted, state, changes>>
          /\ UNCHANGED <<op, message>>
          /\ turns' = IF changes[c].turn.confirmed
                      THEN Append(turns, changes[c].turn.content) ELSE turns
      BY <1>4, <2>2 DEF Commit, Goto, TypeOK
    <3>2. CASE changes[c].turn.confirmed
      <4>1. ReadyToConfirm(c) /\ changes[c].draft = None
        BY <1>0, <3>1, <3>2 DEF KnowsDrafts, ReadyToAppend
      <4>2. OnePlace' /\ InBounds' /\ Remain
        BY <1>0, <3>1, <3>2, <4>1, ConfirmedDrafts DEF ReadyToConfirm
      <4>3. Len(turns') = Len(turns) + 1 /\ Len(turns) \in Nat
        BY <3>1, <3>2, StoreTypes
      <4>4. KnowsDrafts(c)'
        BY <1>0, <3>1, <4>1, <4>3 DEF KnowsDrafts, ReadyToConfirm
      <4>5. QED
        BY <1>0, <3>1, <4>2, <4>4, HolderWrites DEF Working
    <3>3. CASE ~changes[c].turn.confirmed
      <4>1. KnowsDrafts(c)'
        BY <1>0, <3>1, <3>3 DEF KnowsDrafts, ReadyToAppend
      <4>2. QED
        BY <1>0, <3>1, <3>3, <4>1, MovesWithDrafts DEF storeVars
    <3>4. QED
      BY <3>2, <3>3
  <2>3. QED
    BY <2>1, <2>2
<1>5. CASE SaveDrafts(c)
  BY <1>5, PipelineKeepsDrafts
<1>6. CASE Unlock(c)
  <2>1. /\ UNCHANGED storeVars /\ accepted' = accepted /\ pc[c] = "unlock"
        /\ \/ pc'[c] = "idle"
           \/ pc'[c] = "after" /\ UNCHANGED <<op, message>>
    BY <1>6 DEF Unlock, Forget, Goto, TypeOK
  <2>2. KnowsDrafts(c)'
    BY <1>0, <2>1, ReleasedDrafts
  <2>3. QED
    BY <1>0, <2>1, <2>2, MovesWithDrafts
<1>7. CASE After(c)
  <2>1. /\ UNCHANGED storeVars /\ pc[c] = "after" /\ pc'[c] = "idle"
        /\ accepted' = IF op[c] = "append" THEN accepted \cup {message[c]} ELSE accepted
    BY <1>7 DEF After, Forget, Goto, TypeOK
  <2>2. KnowsDrafts(c)'
    BY <2>1 DEF KnowsDrafts
  <2>3. \A m \in accepted' : m \in accepted \cup lost \/ HasPlace(m)
    BY <1>0, <2>1 DEF KnowsDrafts
  <2>4. QED
    BY <1>0, <2>1, <2>2, <2>3, MovesWithDrafts
<1>8. QED
  BY <1>1, <1>2, <1>3, <1>4, <1>5, <1>6, <1>7 DEF CommandStep

\* Every step keeps every draft in its place, as long as no lock expires under
\* its holder.
LEMMA NextKeepsDrafts ==
    ASSUME TypeOK, ChatInv, DraftsInv, [Next]_vars
    PROVE  DraftsInv'
<1> USE DEF callVars, workVars, toldVars
<1>1. ASSUME NEW c \in Command, CommandStep(c) PROVE DraftsInv'
  BY <1>1, CommandKeepsDrafts
<1>2. ASSUME NEW c \in Command,
             \/ Fire(c) \/ Boot(c)
             \/ \E o \in Ops, k \in Slot, m \in Message \cup {None} : Request(c, o, k, m)
      PROVE  DraftsInv'
  <2>1. \A d \in Command \ {c} : Rests(d)
    BY <1>2, OthersRest
  <2>2. /\ UNCHANGED storeVars /\ accepted' = accepted
        /\ pc'[c] = "lock" \/ Rests(c)
    BY <1>2 DEF Fire, Boot, Request, Call, Goto, Rests, TypeOK
  <2>3. KnowsDrafts(c)'
    BY <2>2, RestsWithDrafts DEF KnowsDrafts
  <2>4. QED
    BY <2>1, <2>2, <2>3, MovesWithDrafts
<1>3. ASSUME NEW c \in Command, CommandFails(c) PROVE DraftsInv'
  <2>1. \A d \in Command \ {c} : Rests(d)
    BY <1>3, OthersRest
  <2>2. /\ UNCHANGED storeVars /\ accepted' = accepted
        /\ \/ pc'[c] = "idle"
           \/ pc'[c] = "unlock" /\ op'[c] = "refused"
           \/ pc[c] = "unlock" /\ pc'[c] = "after" /\ UNCHANGED <<op, message>>
    BY <1>3 DEF CommandFails, Forget, Goto, TypeOK
  <2>3. KnowsDrafts(c)'
    BY <2>2, ReleasedDrafts DEF DraftsInv, KnowsDrafts
  <2>4. QED
    BY <2>1, <2>2, <2>3, MovesWithDrafts
<1>4. CASE DeadlinePasses \/ LockExpires \/ BootFails \/ JudgeStep \/ UNCHANGED vars
  <2>1. /\ UNCHANGED storeVars /\ accepted' = accepted
        /\ \A d \in Command : Rests(d)
    BY <1>4 DEF DeadlinePasses, LockExpires, BootFails, JudgeStep, vars, Rests
  <2>2. QED
    BY <2>1, DraftsStay, RestsWithDrafts
<1>5. CASE Crash
  <2>1. /\ UNCHANGED storeVars /\ accepted' = accepted
        /\ \A d \in Command : pc'[d] = "idle"
    BY <1>5 DEF Crash
  <2>2. \A d \in Command : KnowsDrafts(d)'
    BY <2>1 DEF KnowsDrafts
  <2>3. QED
    BY <2>1, <2>2, DraftsStay
<1>6. ASSUME NEW c \in Command, SaveDraftsFails(c) PROVE DraftsInv'
  BY <1>6, PipelineKeepsDrafts
<1>7. QED
  BY <1>1, <1>2, <1>3, <1>4, <1>5, <1>6 DEF Next

AtMostOnePlace(m) ==
    \A i \in 1..NumTurns, j \in 1..MessageLimit, x \in 1..NumTurns, y \in 1..MessageLimit :
      Lies(m, i, j) /\ Lies(m, x, y) => x = i /\ y = j

\* A draft is counted for its place, and once if it has only one.
LEMMA CountedPlaces ==
    ASSUME TypeOK, InBounds, NEW m \in Message
    PROVE  /\ HasPlace(m) => Copies(m) >= 1
           /\ AtMostOnePlace(m) => Copies(m) <= 1
<1> DEFINE n == Len(turns)
           Said == {p \in (1..NumTurns) \X (1..MessageLimit) :
                      /\ p[1] \in DOMAIN turns
                      /\ p[2] \in DOMAIN turns[p[1]]
                      /\ turns[p[1]][p[2]] = m}
           Waits == {j \in DOMAIN drafts[n] : drafts[n][j] = m}
           waiting == IF n < NumTurns THEN Cardinality(Waits) ELSE 0
<1>1. /\ n \in Nat /\ n <= NumTurns /\ turns \in Seq(Seq(Message)) /\ DOMAIN turns = 1..n
      /\ n < NumTurns => n \in Slot /\ drafts[n] \in Seq(Message)
  BY StoreTypes
<1>2. Copies(m) = Cardinality(Said) + waiting
  BY DEF Copies, Occurrences
<1>3. ASSUME NEW x \in 1..NumTurns, NEW y \in 1..MessageLimit
      PROVE  <<x, y>> \in Said <=> x <= n /\ Lies(m, x, y)
  BY <1>1 DEF Lies, Line
<1>4. n < NumTurns =>
        \A y : y \in Waits <=> y \in 1..MessageLimit /\ Lies(m, n + 1, y)
  <2> SUFFICES ASSUME n < NumTurns, NEW y
               PROVE  y \in Waits <=> y \in 1..MessageLimit /\ Lies(m, n + 1, y)
    OBVIOUS
  <2>1. n \in Slot /\ DOMAIN drafts[n] = 1..Len(drafts[n]) /\ Len(drafts[n]) \in Nat
    BY <1>1
  <2>2. DOMAIN drafts[n] \subseteq 1..MessageLimit
    BY <2>1 DEF InBounds
  <2>3. Line(n + 1) = drafts[n] /\ n + 1 \in 1..NumTurns
    BY <1>1 DEF Line
  <2>4. QED
    BY <1>1, <2>2, <2>3 DEF Lies
<1>5. Cardinality({}) = 0
  BY FS_EmptySet
<1> HIDE DEF Waits
<1>6. /\ IsFiniteSet(Said) /\ Cardinality(Said) \in Nat
      /\ n < NumTurns => IsFiniteSet(Waits) /\ Cardinality(Waits) \in Nat
  <2>1. IsFiniteSet(1..NumTurns) /\ IsFiniteSet(1..MessageLimit)
    BY FS_Interval
  <2>2. IsFiniteSet((1..NumTurns) \X (1..MessageLimit))
    BY <2>1, FS_Product
  <2>3. IsFiniteSet(Said)
    BY <2>2, FS_Subset
  <2>4. n < NumTurns => IsFiniteSet(Waits)
    <3>1. n < NumTurns => Waits \subseteq 1..MessageLimit
      BY <1>4
    <3>2. QED
      BY <2>1, <3>1, FS_Subset
  <2>5. QED
    BY <2>3, <2>4, FS_CardinalityType
<1>7. \A p \in Said : p \in (1..NumTurns) \X (1..MessageLimit)
  OBVIOUS
<1> HIDE DEF Said
<1>8. ASSUME NEW i \in 1..NumTurns, NEW j \in 1..MessageLimit, Lies(m, i, j)
      PROVE  Copies(m) >= 1 /\ (AtMostOnePlace(m) => Copies(m) <= 1)
  <2>1. i <= n \/ i = n + 1
    BY <1>1, <1>8 DEF Lies
  <2>2. ASSUME AtMostOnePlace(m), NEW p \in Said PROVE p = <<i, j>> /\ i <= n
    <3>1. PICK x \in 1..NumTurns, y \in 1..MessageLimit : p = <<x, y>>
      BY <1>7, <2>2
    <3>2. x <= n /\ Lies(m, x, y)
      BY <1>3, <2>2, <3>1
    <3>3. QED
      BY <1>8, <2>2, <3>1, <3>2 DEF AtMostOnePlace
  <2>3. CASE i <= n
    <3>1. <<i, j>> \in Said
      BY <1>3, <1>8, <2>3
    <3>2. Cardinality(Said) >= 1
      BY <1>6, <3>1, FS_EmptySet
    <3>3. waiting \in Nat
      BY <1>6
    <3>4. ASSUME AtMostOnePlace(m) PROVE Cardinality(Said) = 1 /\ waiting = 0
      <4>1. Said = {<<i, j>>}
        BY <2>2, <3>1, <3>4
      <4>2. n < NumTurns => Waits = {}
        <5>1. n < NumTurns => n + 1 \in 1..NumTurns /\ n + 1 # i
          BY <1>1, <2>3
        <5>2. QED
          BY <1>4, <1>8, <3>4, <5>1 DEF AtMostOnePlace
      <4>3. QED
        BY <1>5, <4>1, <4>2, FS_Singleton
    <3> HIDE DEF waiting
    <3>5. QED
      BY <1>2, <1>6, <3>2, <3>3, <3>4
  <2>4. CASE i = n + 1
    <3>1. n < NumTurns /\ j \in Waits
      BY <1>1, <1>4, <1>8, <2>4
    <3>2. Cardinality(Waits) >= 1 /\ waiting = Cardinality(Waits)
      BY <1>6, <3>1, FS_EmptySet
    <3>3. ASSUME AtMostOnePlace(m) PROVE Cardinality(Said) = 0 /\ Cardinality(Waits) = 1
      <4>1. Said = {}
        BY <1>1, <2>2, <2>4, <3>3
      <4>2. Waits = {j}
        BY <1>4, <1>8, <2>4, <3>1, <3>3 DEF AtMostOnePlace
      <4>3. QED
        BY <1>5, <4>1, <4>2, FS_Singleton
    <3> HIDE DEF waiting
    <3>4. QED
      BY <1>2, <1>6, <3>1, <3>2, <3>3
  <2>5. QED
    BY <2>1, <2>3, <2>4
<1>9. ASSUME ~HasPlace(m) PROVE Copies(m) <= 1
  <2>1. Said = {}
    <3>1. ASSUME NEW p \in Said PROVE FALSE
      <4>1. PICK x \in 1..NumTurns, y \in 1..MessageLimit : p = <<x, y>>
        BY <1>7
      <4>2. QED
        BY <1>3, <1>9, <3>1, <4>1 DEF HasPlace
    <3>2. QED
      BY <3>1
  <2>2. n < NumTurns => Waits = {}
    <3>1. n < NumTurns => n + 1 \in 1..NumTurns
      BY <1>1
    <3>2. QED
      BY <1>4, <1>9, <3>1 DEF HasPlace
  <2>3. waiting = 0
    BY <1>5, <2>2
  <2> HIDE DEF waiting
  <2>4. QED
    BY <1>2, <1>5, <2>1, <2>3
<1>10. QED
  BY <1>8, <1>9 DEF HasPlace

\* Every draft is in its place in every reachable state.
LEMMA DraftsHold ==
    ASSUME MaxExpiries = 0
    PROVE  Spec => []DraftsInv
<1>1. Init => DraftsInv
  <2> SUFFICES ASSUME Init PROVE DraftsInv
    OBVIOUS
  <2>1. turns = <<>> /\ Len(turns) = 0 /\ cmids = {} /\ \A k \in Slot : drafts[k] = <<>>
    BY DEF Init
  <2>2. 0 \in Slot
    BY DEF Slot
  <2>3. OnePlace
    BY <2>1, <2>2 DEF OnePlace, Lies, Line
  <2>4. InBounds /\ Kept
    BY <2>1 DEF InBounds, Kept, Init
  <2>5. QED
    BY <2>3, <2>4 DEF Init, DraftsInv, KnowsDrafts
<1>2. TypeOK /\ ChatInv /\ DraftsInv /\ [Next]_vars => DraftsInv'
  BY NextKeepsDrafts
<1>3. QED
  BY <1>1, <1>2, ChatSerialised, PTL DEF Spec

(***************************************************************************)
(* While its debate goes on, a draft whose sender was answered is in its   *)
(* slot or its turn unless its rpush failed, and no draft is there twice   *)
(* unless its hset failed (debate-chat-state.ts: the clientMessageId is    *)
(* judged per debate), for any number of turns, commands and drafts,       *)
(* through crashes and failing calls, the pipeline's included, as long as  *)
(* no lock expires under its holder.                                       *)
(***************************************************************************)
THEOREM ChatKeepsDrafts ==
    ASSUME MaxExpiries = 0
    PROVE  Spec => []DraftsKeptOnce
<1>1. TypeOK /\ DraftsInv => DraftsKeptOnce
  <2> SUFFICES ASSUME TypeOK, DraftsInv PROVE DraftsKeptOnce
    OBVIOUS
  <2>1. OnePlace /\ Kept /\ InBounds /\ accepted \subseteq Message
    BY DEF DraftsInv, TypeOK
  <2>2. ASSUME NEW m \in accepted \ lost PROVE Copies(m) >= 1
    BY <2>1, <2>2, CountedPlaces DEF Kept
  <2>3. ASSUME NEW m \in Message \ unrecorded PROVE Copies(m) <= 1
    <3>1. AtMostOnePlace(m)
      BY <2>1 DEF OnePlace, AtMostOnePlace
    <3>2. QED
      BY <2>1, <3>1, CountedPlaces
  <2>4. QED
    BY <2>2, <2>3 DEF DraftsKeptOnce
<1>2. QED
  BY <1>1, ChatSerialised, DraftsHold, PTL

-----------------------------------------------------------------------------
(* What will arm the timer of a debate in progress *)

TurnsLeft == debateStatus \in Open => Len(turns) < NumTurns

\* The calls that may leave a debate in progress.
GoesOn == {"restore", "start", "append", "finalize", "expire"}

\* The command has stored what it had to store.
Saved(c) ==
    \/ pc[c] \in {"redis", "after"}
    \/ pc[c] = "unlock" /\ op[c] # "refused"

\* A command that leaves the debate in progress leaves a slot to wait for.
ReadyInSlot(c) ==
    /\ debateStatus = "IN_PROGRESS" /\ ~changes[c].row => state[c].status = "IN_PROGRESS"
    /\ state[c].status = "IN_PROGRESS" => op[c] \in GoesOn /\ HasSlot(state[c])

Watches(c) ==
    /\ pc[c] = "idle" => op[c] = "none"
    /\ op[c] = "append" => debateStatus # "READY"
    /\ pc[c] = "commit" => ReadyInSlot(c)
    /\ Saved(c) => /\ debateStatus # "READY"
                   /\ debateStatus = "IN_PROGRESS" => HasSlot(state[c])

WatchInv ==
    /\ StartedIsWatched
    /\ TurnsLeft
    /\ \A c \in Command : Watches(c)

\* One command moves, and leaves the debate watched.
LEMMA OneMoves ==
    ASSUME WatchInv, NEW c \in Command,
           \A d \in Command \ {c} :
             Rests(d) /\ (debateStatus' = debateStatus \/ pc[d] # "commit"),
           debateStatus' = "READY" => debateStatus = "READY",
           debateStatus' = "IN_PROGRESS" => debateStatus \in Open,
           TurnsLeft', Watches(c)',
           debateStatus' = "IN_PROGRESS" =>
             (debateStatus = "READY" \/ timer # None \/ booting \/ Rearms(c) =>
                timer' # None \/ booting' \/ Rearms(c)')
    PROVE  WatchInv'
<1>1. ASSUME NEW d \in Command \ {c} PROVE Watches(d)' /\ (Rearms(d) => Rearms(d)')
  <2>1. Watches(d) /\ Rests(d)
    BY DEF WatchInv
  <2>2. Rearms(d) => Rearms(d)'
    BY <2>1 DEF Rests, Rearms
  <2>3. Saved(d)' => Saved(d)
    BY <2>1 DEF Rests, Saved
  <2>4. HasSlot(state[d]) => HasSlot(state[d])'
    BY <2>1 DEF Rests, HasSlot
  <2>5. pc'[d] = "commit" => ReadyInSlot(d)'
    BY <2>1, <2>4 DEF Watches, ReadyInSlot, Rests
  <2>6. QED
    BY <2>1, <2>2, <2>3, <2>4, <2>5 DEF Watches, Rests, Open
<1>2. StartedIsWatched'
  <2>1. SUFFICES ASSUME debateStatus' = "IN_PROGRESS"
                 PROVE  timer' # None \/ booting' \/ \E d \in Command : Rearms(d)'
    BY DEF StartedIsWatched
  <2>2. CASE debateStatus = "READY" \/ timer # None \/ booting \/ Rearms(c)
    BY <2>1, <2>2
  <2>3. CASE \E d \in Command \ {c} : Rearms(d)
    BY <1>1, <2>3
  <2>4. QED
    BY <2>1, <2>2, <2>3 DEF WatchInv, StartedIsWatched, Open
<1>3. QED
  BY <1>1, <1>2 DEF WatchInv

\* The work of a command leads to no end, or to a slot; an expiry is not refused.
LEMMA WorkInSlot ==
    ASSUME TypeOK, NEW c \in Command, Agrees(c), state[c].turns = Len(turns), TurnsLeft,
           Work(c)
    PROVE  \/ Refused(c) /\ op[c] # "expire"
           \/ pc'[c] = "commit" /\ op'[c] = op[c] /\ ReadyInSlot(c)'
<1> DEFINE s == Started(state[c])
<1>1. /\ state[c] \in States /\ s \in States /\ s.turns = state[c].turns
      /\ s.status = "IN_PROGRESS" <=> state[c].status \in Open
      /\ debateStatus' = debateStatus
      /\ NoChanges \in Changes
  <2>1. s.status = "IN_PROGRESS" <=> state[c].status \in Open
    BY WorkTypes DEF Started, States, Open
  <2>2. debateStatus' = debateStatus
    BY DEF Work, Restore, Start, AppendDraft, FinalizeTurn, ExpireTurn, ConfirmTurn,
           ForfeitDebate, Worked, Refused, debateVars
  <2>3. QED
    BY <2>1, <2>2, WorkTypes, StartedType, BlankTypes
<1>2. ASSUME NEW x \in States, NEW ch \in Changes, Worked(c, x, ch),
             debateStatus = "IN_PROGRESS" /\ ~ch.row => x.status = "IN_PROGRESS",
             x.status = "IN_PROGRESS" => op[c] \in GoesOn /\ HasSlot(x)
      PROVE  pc'[c] = "commit" /\ op'[c] = op[c] /\ ReadyInSlot(c)'
  <2>1. /\ pc'[c] = "commit" /\ op' = op /\ state'[c] = x
        /\ changes'[c] = [ch EXCEPT !.row = ch.row \/ state[c].status = "READY"]
    BY <1>2 DEF Worked, Goto, TypeOK, callVars
  <2>2. ~changes'[c].row => ~ch.row
    BY <2>1 DEF Changes
  <2>3. QED
    BY <1>1, <1>2, <2>1, <2>2 DEF ReadyInSlot, HasSlot
<1>3. /\ debateStatus = "IN_PROGRESS" => s.status = "IN_PROGRESS"
      /\ s.status = "IN_PROGRESS" => HasSlot(s)
  BY <1>1 DEF Agrees, TurnsLeft, Open, HasSlot
<1>4. ASSUME NEW ch \in Changes, Worked(c, s, ch), op[c] \in GoesOn
      PROVE  pc'[c] = "commit" /\ op'[c] = op[c] /\ ReadyInSlot(c)'
  BY <1>1, <1>2, <1>3, <1>4
<1>5. ASSUME HasSlot(s), ConfirmTurn(c), op[c] \in GoesOn
      PROVE  pc'[c] = "commit" /\ op'[c] = op[c] /\ ReadyInSlot(c)'
  <2> DEFINE turn == [confirmed |-> TRUE, content |-> Current(c)]
             said == Append(SubSeq(turns, 1, s.turns), Current(c))
             next == [s EXCEPT !.turns = s.turns + 1]
             ch == [NoChanges EXCEPT !.turn = turn]
             final == [next EXCEPT !.status = "DEBATE_FINALIZED",
                                   !.endReason = "ALL_TURNS_FINALIZED"]
             expired == [next EXCEPT !.status = "FAILED",
                                     !.endReason = "TOTAL_TIME_EXPIRED"]
             finalCh == [ch EXCEPT !.row = TRUE]
             expiredCh == [ch EXCEPT !.row = TRUE, !.reward = SomeoneSpoke(said)]
  <2>1. /\ s.turns \in Nat /\ s.turns < NumTurns /\ s.turns \in Slot
        /\ s.status = "IN_PROGRESS"
    BY <1>1, <1>5 DEF HasSlot, States, Slot
  <2>2. next \in States /\ next.turns = s.turns + 1 /\ next.status = "IN_PROGRESS"
    BY <1>1, <2>1 DEF States
  <2>3. /\ final \in States /\ final.status = "DEBATE_FINALIZED"
        /\ expired \in States /\ expired.status = "FAILED"
    BY <2>2 DEF States, L!DebateStatus, L!DebateEndReason
  <2>4. turn \in Turns
    BY <1>1, <2>1, StoreTypes DEF Turns, Current
  <2>5. SomeoneSpoke(said) \in BOOLEAN
    BY DEF SomeoneSpoke, Spoke
  <2> HIDE DEF turn, said
  <2>6. ch \in Changes
    BY <1>1, <2>4 DEF Changes
  <2> HIDE DEF ch
  <2>7. finalCh \in Changes /\ finalCh.row /\ expiredCh \in Changes /\ expiredCh.row
    BY <2>5, <2>6 DEF Changes
  <2> HIDE DEF s, next, final, expired, finalCh, expiredCh
  <2>8. \/ s.turns + 1 < NumTurns /\ Worked(c, next, ch)
        \/ Worked(c, final, finalCh) \/ Worked(c, expired, expiredCh)
    BY <1>5 DEF ConfirmTurn, turn, said, next, ch, final, expired, finalCh, expiredCh, s
  <2>9. s.turns + 1 < NumTurns => HasSlot(next)
    BY <2>2 DEF HasSlot
  <2>10. CASE s.turns + 1 < NumTurns /\ Worked(c, next, ch)
    BY <1>2, <1>5, <2>2, <2>6, <2>9, <2>10
  <2>11. CASE Worked(c, final, finalCh) \/ Worked(c, expired, expiredCh)
    BY <1>2, <2>3, <2>7, <2>11
  <2>12. QED
    BY <2>8, <2>10, <2>11
<1>6. CASE Restore(c) \/ Start(c)
  BY <1>1, <1>4, <1>6 DEF Restore, Start, GoesOn
<1>7. CASE AppendDraft(c)
  <2> DEFINE ch == [NoChanges EXCEPT !.draft = message[c]]
  <2>1. ch \in Changes
    BY <1>1, WorkTypes DEF Changes
  <2> HIDE DEF ch, s
  <2>2. Refused(c) \/ Worked(c, s, NoChanges) \/ Worked(c, s, ch)
    BY <1>7 DEF AppendDraft, s, ch
  <2>3. op[c] = "append"
    BY <1>7 DEF AppendDraft
  <2>4. QED
    BY <1>1, <1>4, <2>1, <2>2, <2>3 DEF GoesOn
<1>8. CASE FinalizeTurn(c)
  BY <1>5, <1>8 DEF FinalizeTurn, Allowed, GoesOn
<1>9. CASE ExpireTurn(c)
  <2>1. HasSlot(state[c]) => HasSlot(s)
    BY <1>1 DEF HasSlot, Open
  <2>2. QED
    BY <1>1, <1>4, <1>5, <1>9, <2>1 DEF ExpireTurn, GoesOn
<1>10. CASE ForfeitDebate(c)
  <2> DEFINE x == [state[c] EXCEPT !.status = "FAILED", !.endReason = "FORFEIT"]
             ch == [NoChanges EXCEPT !.row = TRUE, !.reward = TRUE]
  <2>1. x \in States /\ x.status = "FAILED" /\ ch \in Changes /\ ch.row
    BY <1>1 DEF States, Changes, L!DebateStatus, L!DebateEndReason
  <2> HIDE DEF x, ch
  <2>2. Refused(c) \/ Worked(c, x, ch)
    BY <1>10 DEF ForfeitDebate, x, ch
  <2>3. op[c] = "forfeit"
    BY <1>10 DEF ForfeitDebate
  <2>4. QED
    BY <1>2, <2>1, <2>2, <2>3
<1>11. QED
  BY <1>6, <1>7, <1>8, <1>9, <1>10 DEF Work

\* The steps of a command leave the debate watched.
LEMMA CommandWatches ==
    ASSUME TypeOK, ChatInv, DraftsInv, WatchInv, NEW c \in Command, CommandStep(c)
    PROVE  WatchInv'
<1> USE DEF debateVars, storeVars, toldVars, callVars, workVars
<1>0. /\ \A d \in Command \ {c} : Rests(d)
      /\ Watches(c) /\ TurnsLeft /\ Knows(c) /\ KnowsDrafts(c)
      /\ timer \in Slot \cup {None, Retry} /\ Retry # None /\ None \notin Slot
  BY OthersRest, ChatAssumption DEF WatchInv, ChatInv, DraftsInv, TypeOK
\* Steps that leave row and turns alone.
<1>1. ASSUME UNCHANGED <<debateVars, turns>>, Watches(c)',
             debateStatus = "IN_PROGRESS" =>
               (timer # None \/ booting \/ Rearms(c) => timer' # None \/ booting' \/ Rearms(c)')
      PROVE  WatchInv'
  <2>1. TurnsLeft' /\ (debateStatus' = "IN_PROGRESS" => debateStatus \in Open)
    BY <1>0, <1>1 DEF TurnsLeft, Open
  <2>2. QED
    BY <1>0, <1>1, <2>1, OneMoves
<1>2. CASE AcquireLock(c) \/ LoadRow(c) \/ LoadTurns(c)
  <2>1. /\ UNCHANGED <<debateVars, turns, timer, booting, op>>
        /\ pc[c] \in {"lock", "row", "turns"} /\ pc'[c] \in {"row", "turns", "work"}
    BY <1>2 DEF AcquireLock, LoadRow, LoadTurns, Goto, TypeOK
  <2>2. Watches(c)' /\ (Rearms(c) => Rearms(c)')
    BY <1>0, <2>1 DEF Watches, Saved, Rearms
  <2>3. QED
    BY <1>1, <2>1, <2>2
<1>3. CASE LockBusy(c)
  <2>1. /\ UNCHANGED <<debateVars, turns, booting>>
        /\ pc[c] = "lock" /\ pc'[c] = "idle" /\ op'[c] = "none"
        /\ timer' = IF op[c] = "expire" THEN Retry ELSE timer
    BY <1>3 DEF LockBusy, Forget, Goto, TypeOK
  <2>2. Watches(c)' /\ (Rearms(c) => timer' # None)
    BY <1>0, <2>1 DEF Watches, Saved, Rearms
  <2>3. QED
    BY <1>0, <1>1, <2>1, <2>2
<1>4. CASE Work(c)
  <2>1. /\ UNCHANGED <<debateVars, turns, timer, booting>> /\ pc[c] = "work"
    BY <1>4 DEF Work, Restore, Start, AppendDraft, FinalizeTurn, ExpireTurn, ConfirmTurn,
                ForfeitDebate, Worked, Refused
  <2>2. \/ Refused(c) /\ op[c] # "expire"
        \/ pc'[c] = "commit" /\ op'[c] = op[c] /\ ReadyInSlot(c)'
    BY <1>0, <1>4, <2>1, WorkInSlot DEF Knows, KnowsDrafts
  <2>3. Refused(c) => pc'[c] = "unlock" /\ op'[c] = "refused"
    BY DEF Refused, Goto, TypeOK
  <2>4. Watches(c)' /\ (Rearms(c) => Rearms(c)')
    BY <1>0, <2>1, <2>2, <2>3 DEF Watches, Saved, Rearms
  <2>5. QED
    BY <1>1, <2>1, <2>4
<1>5. CASE Commit(c)
  <2>1. pc[c] = "commit" /\ ReadyInSlot(c) /\ ReadyToCommit(c)
    BY <1>0, <1>5 DEF Commit, Watches, Knows
  <2>2. changes[c].turn.confirmed =>
          /\ state[c].turns = Len(turns) + 1 /\ Len(turns) = state[c].turns - 1
          /\ Len(turns) < NumTurns
    BY <1>0, <2>1, StoreTypes DEF KnowsDrafts, ReadyToConfirm
  <2>3. /\ turns' = IF changes[c].turn.confirmed
                    THEN Append(turns, changes[c].turn.content) ELSE turns
        /\ debateStatus' = IF changes[c].row THEN state[c].status ELSE debateStatus
        /\ pc'[c] = "redis" /\ UNCHANGED <<timer, booting, op, state>>
    BY <1>5, <2>2 DEF Commit, Goto, TypeOK
  <2>4. /\ debateStatus' # "READY"
        /\ debateStatus' = "IN_PROGRESS" => /\ debateStatus \in Open
                                            /\ state[c].status = "IN_PROGRESS"
    BY <2>1, <2>3 DEF ReadyToCommit, ReadyInSlot, Open
  <2>5. debateStatus' = "IN_PROGRESS" => HasSlot(state[c]) /\ op[c] \in GoesOn
    BY <2>1, <2>4 DEF ReadyInSlot
  <2>6. TurnsLeft'
    <3>1. CASE changes[c].turn.confirmed
      <4>1. Len(turns') = state[c].turns
        BY <2>2, <2>3, <3>1, StoreTypes
      <4>2. QED
        BY <2>4, <2>5, <4>1 DEF TurnsLeft, Open, HasSlot
    <3>2. CASE ~changes[c].turn.confirmed
      BY <1>0, <2>3, <2>4, <3>2 DEF TurnsLeft, Open
    <3>3. QED
      BY <3>1, <3>2
  <2>7. Watches(c)'
    BY <1>0, <2>1, <2>3, <2>4, <2>5 DEF Watches, Saved, HasSlot
  <2>8. \A d \in Command \ {c} : pc[d] # "commit"
    BY <2>1 DEF ChatInv, Knows, Working
  <2>9. debateStatus' = "IN_PROGRESS" =>
          (debateStatus = "READY" \/ timer # None \/ booting \/ Rearms(c) =>
             timer' # None \/ booting' \/ Rearms(c)')
    BY <1>0, <2>3, <2>5 DEF Watches, Rearms, GoesOn
  <2>10. QED
    BY <1>0, <2>4, <2>6, <2>7, <2>8, <2>9, OneMoves
<1>6. CASE SaveDrafts(c)
  <2>1. /\ UNCHANGED <<debateVars, turns, timer, booting, op, state>>
        /\ pc[c] = "redis" /\ pc'[c] = "unlock"
    BY <1>6 DEF SaveDrafts, Goto, TypeOK
  <2>2. Watches(c)' /\ (Rearms(c) => Rearms(c)')
    BY <1>0, <2>1 DEF Watches, Saved, Rearms, HasSlot
  <2>3. QED
    BY <1>1, <2>1, <2>2
<1>7. CASE Unlock(c)
  <2>1. /\ UNCHANGED <<debateVars, turns, timer, booting>> /\ pc[c] = "unlock"
        /\ \/ op[c] = "refused" /\ pc'[c] = "idle" /\ op'[c] = "none"
           \/ op[c] # "refused" /\ pc'[c] = "after" /\ UNCHANGED <<op, state>>
    BY <1>7 DEF Unlock, Forget, Goto, TypeOK
  <2>2. Watches(c)' /\ (Rearms(c) => Rearms(c)')
    BY <1>0, <2>1 DEF Watches, Saved, Rearms, HasSlot
  <2>3. QED
    BY <1>1, <2>1, <2>2
<1>8. CASE After(c)
  <2>1. /\ UNCHANGED <<debateVars, turns, booting>>
        /\ pc[c] = "after" /\ pc'[c] = "idle" /\ op'[c] = "none"
        /\ timer' = IF op[c] = "append" THEN timer ELSE DeadlineOf(state[c])
    BY <1>8 DEF After, Forget, Goto, TypeOK
  <2>2. debateStatus = "IN_PROGRESS" => HasSlot(state[c])
    BY <1>0, <2>1 DEF Watches, Saved
  <2>3. HasSlot(state[c]) => state[c].turns \in Slot /\ DeadlineOf(state[c]) # None
    BY <1>0, WorkTypes DEF HasSlot, Slot, DeadlineOf
  <2>4. Watches(c)'
    BY <2>1 DEF Watches, Saved
  <2>5. QED
    BY <1>1, <2>1, <2>2, <2>3, <2>4 DEF Rearms
<1>9. QED
  BY <1>2, <1>3, <1>4, <1>5, <1>6, <1>7, <1>8 DEF CommandStep

LEMMA NextWatches ==
    ASSUME "error" \notin Failures, ~HttpDrafts,
           TypeOK, ChatInv, DraftsInv, WatchInv, [Next]_vars
    PROVE  WatchInv'
<1> USE DEF debateVars, storeVars, toldVars, callVars, workVars
<1>1. ASSUME NEW c \in Command, CommandStep(c) PROVE WatchInv'
  BY <1>1, CommandWatches
<1>2. ASSUME NEW c \in Command, NEW o, NEW k, NEW m, Call(c, o, k, m),
             UNCHANGED <<debateVars, turns>>, \A d \in Command \ {c} : Rests(d),
             o = "append" => debateStatus # "READY",
             debateStatus = "IN_PROGRESS" /\ (timer # None \/ booting) =>
               timer' # None \/ booting' \/ o = "expire"
      PROVE  WatchInv'
  <2>1. pc[c] = "idle" /\ pc'[c] = "lock" /\ op'[c] = o /\ op[c] = "none"
    BY <1>2 DEF Call, Goto, TypeOK, WatchInv, Watches
  <2>2. Watches(c)'
    BY <1>2, <2>1 DEF Watches, Saved
  <2>3. TurnsLeft' /\ (debateStatus' = "IN_PROGRESS" => debateStatus \in Open)
    BY <1>2 DEF WatchInv, TurnsLeft, Open
  <2>4. QED
    BY <1>2, <2>1, <2>2, <2>3, OneMoves DEF Rearms
<1>3. ASSUME NEW c \in Command, NEW o \in Ops, NEW k \in Slot,
             NEW m \in Message \cup {None}, Request(c, o, k, m)
      PROVE  WatchInv'
  <2>1. \A d \in Command \ {c} : Rests(d)
    BY <1>3, OthersRest
  <2>2. QED
    BY <1>2, <1>3, <2>1 DEF Request
<1>4. ASSUME NEW c \in Command, Fire(c) PROVE WatchInv'
  <2>1. \A d \in Command \ {c} : Rests(d)
    BY <1>4, OthersRest
  <2>2. QED
    BY <1>2, <1>4, <2>1 DEF Fire
\* Steps that leave the commands alone.
<1>5. ASSUME UNCHANGED <<debateStatus, turns, pc, op, workVars>>,
             debateStatus = "IN_PROGRESS" => (timer # None \/ booting => timer' # None \/ booting')
      PROVE  WatchInv'
  BY <1>5 DEF WatchInv, StartedIsWatched, TurnsLeft, Watches, Saved, ReadyInSlot, HasSlot,
              Rearms
<1>6. ASSUME NEW c \in Command, Boot(c) PROVE WatchInv'
  <2>1. \A d \in Command \ {c} : Rests(d)
    BY <1>6, OthersRest
  <2>2. CASE debateStatus = "IN_PROGRESS"
    BY <1>2, <1>6, <2>1, <2>2 DEF Boot
  <2>3. CASE debateStatus # "IN_PROGRESS"
    BY <1>5, <1>6, <2>3 DEF Boot
  <2>4. QED
    BY <2>2, <2>3
<1>7. CASE DeadlinePasses \/ LockExpires \/ UNCHANGED vars
  BY <1>5, <1>7 DEF DeadlinePasses, LockExpires, vars
<1>8. CASE Crash
  <2>1. /\ UNCHANGED <<debateStatus, turns>> /\ booting' = TRUE
        /\ \A d \in Command : pc'[d] = "idle" /\ op'[d] = "none"
    BY <1>8 DEF Crash
  <2>2. QED
    BY <2>1 DEF WatchInv, StartedIsWatched, TurnsLeft, Watches, Saved
<1>9. CASE JudgeStep
  <2>1. /\ debateStatus \notin Open /\ debateStatus' \notin Open
        /\ UNCHANGED <<turns, pc, op, workVars>>
    BY <1>9, PipelineKeepsOut DEF JudgeStep
  <2>2. QED
    BY <2>1 DEF WatchInv, StartedIsWatched, TurnsLeft, Watches, Saved, ReadyInSlot,
                HasSlot, Open
<1>10. ~BootFails /\ \A c \in Command : ~CommandFails(c) /\ ~SaveDraftsFails(c)
  BY DEF BootFails, CommandFails, SaveDraftsFails, Fault
<1>11. QED
  BY <1>1, <1>3, <1>4, <1>6, <1>7, <1>8, <1>9, <1>10 DEF Next

(***************************************************************************)
(* A debate in progress is never forgotten: its timer is armed, the boot   *)
(* will look after it, or a command will arm the timer, through crashes,   *)
(* lost locks, contended expiries and commands that overtake each other.   *)
(* This needs that no query fails (an expiry only logs that), that clients *)
(* connect before they send drafts (a draft that starts the debate arms    *)
(* nothing), and that no lock expires under its holder (an expiry that     *)
(* meets a second turn at its place is refused, and then not repeated).    *)
(***************************************************************************)
THEOREM ChatIsWatched ==
    ASSUME "error" \notin Failures, ~HttpDrafts, MaxExpiries = 0
    PROVE  Spec => []StartedIsWatched
<1>1. Init => WatchInv
  <2> SUFFICES ASSUME Init PROVE WatchInv
    OBVIOUS
  <2>1. debateStatus = "READY" /\ Len(turns) = 0
        /\ \A c \in Command : pc[c] = "idle" /\ op[c] = "none"
    BY DEF Init, L!Init
  <2>2. QED
    BY <2>1, ChatAssumption DEF WatchInv, StartedIsWatched, TurnsLeft, Watches, Saved
<1>2. /\ "error" \notin Failures /\ ~HttpDrafts
      /\ TypeOK /\ ChatInv /\ DraftsInv /\ WatchInv /\ [Next]_vars
      => WatchInv'
  BY NextWatches
<1>3. WatchInv => StartedIsWatched
  BY DEF WatchInv
<1>4. QED
  BY <1>1, <1>2, <1>3, ChatSerialised, DraftsHold, PTL DEF Spec
=============================================================================
