------------------------------ MODULE MCGlobMatch ------------------------------
(***************************************************************************)
(* Small instances of GlobMatch: all patterns and targets of bounded       *)
(* length over a small alphabet.                                           *)
(***************************************************************************)
EXTENDS GlobMatch, SequencesExt

CONSTANTS Letters, MaxPattern, MaxTarget

MCPatterns == BoundedSeq(Letters \cup {"*", "?"}, MaxPattern)
MCTargets == BoundedSeq(Letters, MaxTarget)
=============================================================================
