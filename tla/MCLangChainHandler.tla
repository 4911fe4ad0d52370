-------------------------- MODULE MCLangChainHandler --------------------------
(***************************************************************************)
(* Small instances of LangChainHandler.  Runs with the same settings are   *)
(* interchangeable, and so are tools.                                      *)
(***************************************************************************)
EXTENDS LangChainHandler, TLC

CONSTANTS r1, r2, r3, search, fetch

Symmetry == Permutations(Runs \ Anonymous) \cup Permutations(Tools)
=============================================================================
