------------------------------ MODULE MCCommunity ------------------------------
(***************************************************************************)
(* Requests, sockets and messages are interchangeable.                     *)
(***************************************************************************)
EXTENDS Community, TLC

MCSymmetry == Permutations(Request) \cup Permutations(Socket) \cup Permutations(Message)
==============================================================================
