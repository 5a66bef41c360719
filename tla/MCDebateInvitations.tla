------------------------- MODULE MCDebateInvitations -------------------------
(***************************************************************************)
(* Requests, invitations and debates are interchangeable.                  *)
(***************************************************************************)
EXTENDS DebateInvitations, TLC

MCSymmetry ==
    Permutations(Request) \cup Permutations(Invitation) \cup Permutations(Debate)
==============================================================================
