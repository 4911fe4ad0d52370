---------------------------- MODULE MCCrewAIWrapper ----------------------------
(***************************************************************************)
(* Small instances of CrewAIWrapper.  Calls are interchangeable.           *)
(***************************************************************************)
EXTENDS CrewAIWrapper, TLC

CONSTANTS c1, c2

CallSymmetry == Permutations(Calls)
=============================================================================
