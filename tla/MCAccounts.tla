------------------------------ MODULE MCAccounts ------------------------------
(***************************************************************************)
(* Requests are interchangeable, and so are the accounts of the start and  *)
(* the emails.                                                             *)
(***************************************************************************)
EXTENDS Accounts, TLC

MCSymmetry ==
    Permutations(Request) \cup Permutations(Present) \cup Permutations(Email)
==============================================================================
