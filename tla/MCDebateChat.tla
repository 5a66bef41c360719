----------------------------- MODULE MCDebateChat -----------------------------
(***************************************************************************)
(* Values for the constants of DebateChat in TLC's runs.                   *)
(***************************************************************************)
EXTENDS DebateChat, TLC

T == INSTANCE TurnSchedule WITH Member <- Command

\* The shortest schedule: no round of rebuttals.
MCNumTurns == T!Size(0)

MCCommandSymmetry == Permutations(Command)
===============================================================================
