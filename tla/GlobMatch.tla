------------------------------- MODULE GlobMatch -------------------------------
(***************************************************************************)
(* policy/pattern.py: _glob_match, the two-pointer matcher of the glob     *)
(* operator, one iteration of its loops at a time.                         *)
(*                                                                         *)
(* Positions count from 0 as in the code: pattern[p_i] of the code is      *)
(* pattern[p_i + 1] here.                                                  *)
(***************************************************************************)
EXTENDS Integers, GlobPattern

CONSTANTS
  Patterns,  \* the patterns, sequences of characters
  Targets    \* the targets, sequences of characters

ASSUME GlobAssumption ==
  /\ \A p \in Patterns : p \in Seq(STRING)
  /\ \A t \in Targets : t \in Seq(STRING)

VARIABLES
  pattern, target,  \* the arguments
  p_i, t_i,         \* the next character of each
  star,             \* position of the last star seen, -1 if none
  match,            \* where in the target what follows that star is tried
  pc,               \* "scan" (first loop), "tail" (second loop) or "done"
  result,           \* the value returned
  consumed          \* history variable: how often each target character was consumed

matcherVars == <<pattern, target, p_i, t_i, star, match, pc, result, consumed>>

\* The next character of the pattern: is there one, and is it c?
AtStar == p_i < Len(pattern) /\ pattern[p_i + 1] = "*"

\* pattern[p_i] matches target[t_i].
AtMatch ==
  /\ p_i < Len(pattern) /\ pattern[p_i + 1] # "*"
  /\ pattern[p_i + 1] \in {"?", target[t_i + 1]}

MatcherInit ==
  /\ pattern \in Patterns
  /\ target \in Targets
  /\ p_i = 0 /\ t_i = 0
  /\ star = -1 /\ match = 0
  /\ pc = "scan"
  /\ result = FALSE
  /\ consumed = [i \in 1 .. Len(target) |-> 0]

Scanning == pc = "scan" /\ t_i < Len(target)

\* Slip: star is the position after the star.
EnterStarAfter ==
  /\ Scanning
  /\ AtStar
  /\ star' = p_i + 1
  /\ match' = t_i
  /\ p_i' = p_i + 1
  /\ UNCHANGED <<pattern, target, t_i, pc, result, consumed>>

EnterStar ==
  /\ Scanning
  /\ AtStar
  /\ star' = p_i
  /\ match' = t_i
  /\ p_i' = p_i + 1
  /\ UNCHANGED <<pattern, target, t_i, pc, result, consumed>>

Consume ==
  /\ Scanning
  /\ AtMatch
  /\ p_i' = p_i + 1
  /\ t_i' = t_i + 1
  /\ consumed' = [consumed EXCEPT ![t_i + 1] = @ + 1]
  /\ UNCHANGED <<pattern, target, star, match, pc, result>>

\* Slip: the next attempt starts where the last one failed.
BacktrackForward ==
  /\ Scanning
  /\ ~ AtStar /\ ~ AtMatch
  /\ star # -1
  /\ p_i' = star + 1
  /\ match' = t_i + 1
  /\ t_i' = t_i + 1
  /\ UNCHANGED <<pattern, target, star, pc, result, consumed>>

\* Slip: the next attempt starts at the same character as the last one.
BacktrackStays ==
  /\ Scanning
  /\ ~ AtStar /\ ~ AtMatch
  /\ star # -1
  /\ p_i' = star + 1
  /\ t_i' = match
  /\ UNCHANGED <<pattern, target, star, match, pc, result, consumed>>

\* Back to the last star, which takes one character more.
Backtrack ==
  /\ Scanning
  /\ ~ AtStar /\ ~ AtMatch
  /\ star # -1
  /\ p_i' = star + 1
  /\ match' = match + 1
  /\ t_i' = match + 1
  /\ UNCHANGED <<pattern, target, star, pc, result, consumed>>

Mismatch ==
  /\ Scanning
  /\ ~ AtStar /\ ~ AtMatch
  /\ star = -1
  /\ pc' = "done"
  /\ result' = FALSE
  /\ UNCHANGED <<pattern, target, p_i, t_i, star, match, consumed>>

EndOfTarget ==
  /\ pc = "scan" /\ t_i >= Len(target)
  /\ pc' = "tail"
  /\ UNCHANGED <<pattern, target, p_i, t_i, star, match, result, consumed>>

SkipStar ==
  /\ pc = "tail"
  /\ AtStar
  /\ p_i' = p_i + 1
  /\ UNCHANGED <<pattern, target, t_i, star, match, pc, result, consumed>>

Return ==
  /\ pc = "tail"
  /\ ~ AtStar
  /\ result' = (p_i = Len(pattern))
  /\ pc' = "done"
  /\ UNCHANGED <<pattern, target, p_i, t_i, star, match, consumed>>

MatcherNext == \/ EnterStar \/ Consume \/ Backtrack \/ Mismatch
        \/ EndOfTarget \/ SkipStar \/ Return

MatcherSpec == MatcherInit /\ [][MatcherNext]_matcherVars
FairMatcherSpec == MatcherSpec /\ WF_matcherVars(MatcherNext)

-----------------------------------------------------------------------------
(* Properties.                                                             *)

\* The type of every variable, and the positions within their strings: no
\* index of the code is out of range.
MatcherTypeOK ==
  /\ pattern \in Seq(STRING) /\ target \in Seq(STRING)
  /\ p_i \in 0 .. Len(pattern) /\ t_i \in 0 .. Len(target)
  /\ star \in -1 .. Len(pattern) - 1 /\ match \in 0 .. Len(target)
  /\ pc \in {"scan", "tail", "done"}
  /\ result \in BOOLEAN
  /\ consumed \in [1 .. Len(target) -> Nat]

\* The greedy matcher returns True exactly when the target can be cut to fit
\* the pattern: trying only the last star again never loses a match.
Correct == pc = "done" => (result <=> Matches(pattern, target))

\* The matcher always returns.
Terminates == <>(pc = "done")

\* The work is bounded: a target character is consumed at most once per pattern
\* character, so that the loop is quadratic at worst and not exponential
\* (pattern.py:70; the bound of two that pattern.py:53 claims is too small).
WorkBounded == \A i \in DOMAIN consumed : consumed[i] <= Len(pattern)
=============================================================================
