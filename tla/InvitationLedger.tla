--------------------------- MODULE InvitationLedger ---------------------------
(***************************************************************************)
(* What the backend promises about the invitations of one community: each  *)
(* is issued while no other waits, answered at most once, and leads to a   *)
(* debate of its own exactly when it was accepted.                         *)
(*                                                                         *)
(* An action is one committed change.  DebateInvitations, with its         *)
(* requests, timers, transactions and crashes, is shown to implement this. *)
(***************************************************************************)
CONSTANTS
    Invitation,
    Debate,
    None            \* no debate

VARIABLES
    answer,         \* Invitation -> AnswerStatus
    debateOf        \* Invitation -> the debate it led to

vars == <<answer, debateOf>>

\* DebateInvitationStatus, and "none" for an invitation not yet issued.
AnswerStatus == {"none", "PENDING", "ACCEPTED", "REJECTED", "EXPIRED"}

TypeOK ==
    /\ answer \in [Invitation -> AnswerStatus]
    /\ debateOf \in [Invitation -> Debate \cup {None}]

Init ==
    /\ answer = [i \in Invitation |-> "none"]
    /\ debateOf = [i \in Invitation |-> None]

Issue(i) ==
    /\ answer[i] = "none"
    /\ \A j \in Invitation : answer[j] # "PENDING"
    /\ answer' = [answer EXCEPT ![i] = "PENDING"]
    /\ UNCHANGED debateOf

Accept(i, d) ==
    /\ answer[i] = "PENDING"
    /\ \A j \in Invitation : debateOf[j] # d
    /\ answer' = [answer EXCEPT ![i] = "ACCEPTED"]
    /\ debateOf' = [debateOf EXCEPT ![i] = d]

Decline(i) ==
    /\ answer[i] = "PENDING"
    /\ answer' \in {[answer EXCEPT ![i] = no] : no \in {"REJECTED", "EXPIRED"}}
    /\ UNCHANGED debateOf

Next ==
    \E i \in Invitation :
        \/ Issue(i)
        \/ \E d \in Debate : Accept(i, d)
        \/ Decline(i)

Spec == Init /\ [][Next]_vars
==============================================================================
