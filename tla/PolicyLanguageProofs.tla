-------------------------- MODULE PolicyLanguageProofs --------------------------
(***************************************************************************)
(* The policy language and its use: the glob matcher answers what a        *)
(* pattern means, rule types answer for one another, and the corpus that   *)
(* is evaluated rule by rule has the chains, the totals and the            *)
(* differences that it should, for all patterns, policies and scenarios.   *)
(***************************************************************************)
EXTENDS CorpusReplay, GlobMatch, FiniteSetTheorems, SequenceTheorems, TLAPS

-----------------------------------------------------------------------------
(***************************************************************************)
(* The matcher.  The invariant says of the cuts that fit the whole target, *)
(* which the matcher does not construct, where the current position of the *)
(* pattern can fall: never before t_i, and at t_i exactly unless the last  *)
(* star takes more than it has been given.  So giving up an attempt loses  *)
(* none.                                                                   *)
(***************************************************************************)

Fit(n, m) == Cuts(pattern, target, n, m) # {}

Full == Cuts(pattern, target, Len(pattern), Len(target))

\* Every full cut reaches the current position of the pattern at t_i or later.
NotBefore == \A c \in Full : c[p_i] >= t_i

\* What the last star has been given: the first part of the pattern fits, and
\* no full cut gives the star less, nor as much without falling at t_i.
StarInv ==
  IF star = -1 THEN \A c \in Full : c[p_i] = t_i
  ELSE /\ star < p_i /\ match <= t_i
       /\ pattern[star + 1] = "*"
       /\ Fit(star + 1, match)
       /\ \A c \in Full : c[star + 1] >= match
       /\ \A c \in Full : c[star + 1] = match => c[p_i] = t_i

GlobInv ==
  /\ pc # "done" => Fit(p_i, t_i) /\ NotBefore
  /\ pc = "scan" => StarInv
  /\ pc = "tail" => t_i = Len(target)
  /\ pc = "done" => (result <=> Full # {})

MatcherInv == MatcherTypeOK /\ GlobInv

(***************************************************************************)
(* Cuts.                                                                   *)
(***************************************************************************)

\* A cut is extended by a star, which takes any run, or by one character.
LEMMA ExtendCut ==
  ASSUME NEW p \in Seq(STRING), NEW t \in Seq(STRING), NEW n \in 0 .. Len(p) - 1,
         NEW m \in 0 .. Len(t), NEW k \in m .. Len(t), Cuts(p, t, n, m) # {},
         \/ p[n + 1] = "*"
         \/ p[n + 1] # "*" /\ k = m + 1 /\ p[n + 1] \in {"?", t[k]}
  PROVE  Cuts(p, t, n + 1, k) # {}
<1>1. PICK c \in [0 .. n -> 0 .. m] :
        c[0] = 0 /\ c[n] = m /\ \A i \in 1 .. n : Step(p, t, c, i)
  BY Zenon DEF Cuts
<1> DEFINE d == [i \in 0 .. n + 1 |-> IF i = n + 1 THEN k ELSE c[i]]
<1>2. d[0] = 0 /\ d[n] = m /\ d[n + 1] = k /\ \A i \in 0 .. n : d[i] = c[i]
  BY <1>1
<1>3. d \in [0 .. n + 1 -> 0 .. k]
  BY <1>1
<1> HIDE DEF d
<1>4. ASSUME NEW i \in 1 .. n + 1 PROVE Step(p, t, d, i)
  <2>1. CASE i = n + 1
    <3>1. d[i] = k /\ d[i - 1] = m
      BY <1>2, <2>1
    <3> QED
      BY <2>1, <3>1 DEF Step
  <2>2. CASE i # n + 1
    <3>1. i \in 1 .. n /\ d[i] = c[i] /\ d[i - 1] = c[i - 1]
      BY <1>2, <2>2
    <3>2. Step(p, t, c, i)
      BY <1>1, <3>1
    <3> QED
      BY <3>1, <3>2 DEF Step
  <2> QED
    BY <2>1, <2>2
<1>5. d \in Cuts(p, t, n + 1, k)
  BY <1>2, <1>3, <1>4 DEF Cuts
<1> QED
  BY <1>5

\* A cut that ends in a star can give it one character more.
LEMMA StretchCut ==
  ASSUME NEW p \in Seq(STRING), NEW t \in Seq(STRING), NEW n \in 1 .. Len(p),
         NEW m \in 0 .. Len(t), p[n] = "*", Cuts(p, t, n, m) # {}
  PROVE  Cuts(p, t, n, m + 1) # {}
<1>1. PICK c \in [0 .. n -> 0 .. m] :
        c[0] = 0 /\ c[n] = m /\ \A i \in 1 .. n : Step(p, t, c, i)
  BY Zenon DEF Cuts
<1> DEFINE d == [i \in 0 .. n |-> IF i = n THEN m + 1 ELSE c[i]]
<1>2. d[0] = 0 /\ d[n] = m + 1 /\ \A i \in 0 .. n - 1 : d[i] = c[i]
  BY <1>1
<1>3. d \in [0 .. n -> 0 .. m + 1]
  BY <1>1
<1> HIDE DEF d
<1>4. ASSUME NEW i \in 1 .. n PROVE Step(p, t, d, i)
  <2>1. Step(p, t, c, i) /\ d[i - 1] = c[i - 1] /\ c[i - 1] \in Nat
    BY <1>1, <1>2
  <2>2. CASE i = n
    BY <1>1, <1>2, <2>1, <2>2 DEF Step
  <2>3. CASE i # n
    <3>1. d[i] = c[i]
      BY <1>2, <2>3
    <3> QED
      BY <2>1, <3>1 DEF Step
  <2> QED
    BY <2>2, <2>3
<1>5. d \in Cuts(p, t, n, m + 1)
  BY <1>2, <1>3, <1>4 DEF Cuts
<1> QED
  BY <1>5

\* Where a full cut goes from the current position of the pattern.
LEMMA FullStep ==
  ASSUME MatcherTypeOK, NEW c \in Full
  PROVE  /\ \A i \in 0 .. Len(pattern) : c[i] \in 0 .. Len(target)
         /\ c[0] = 0 /\ c[Len(pattern)] = Len(target)
         /\ AtStar => c[p_i] <= c[p_i + 1]
         /\ p_i < Len(pattern) /\ ~ AtStar =>
              /\ c[p_i + 1] = c[p_i] + 1
              /\ pattern[p_i + 1] \in {"?", target[c[p_i + 1]]}
<1>1. /\ c \in [0 .. Len(pattern) -> 0 .. Len(target)]
      /\ c[0] = 0 /\ c[Len(pattern)] = Len(target)
      /\ \A i \in 1 .. Len(pattern) : Step(pattern, target, c, i)
  BY Zenon DEF Full, Cuts
<1>2. Len(pattern) \in Nat /\ Len(target) \in Nat /\ p_i \in Nat
  BY DEF MatcherTypeOK
<1>3. ASSUME p_i < Len(pattern) PROVE Step(pattern, target, c, p_i + 1) /\ (p_i + 1) - 1 = p_i
  BY <1>1, <1>2, <1>3
<1> QED
  BY <1>1, <1>2, <1>3 DEF Step, AtStar

\* Where no step is possible, no full cut falls at t_i.
LEMMA MatcherStuck ==
  ASSUME MatcherTypeOK, Scanning, ~ AtStar, ~ AtMatch, NEW c \in Full
  PROVE  c[p_i] # t_i
<1> SUFFICES ASSUME c[p_i] = t_i PROVE FALSE
  OBVIOUS
<1>1. p_i # Len(pattern)
  BY FullStep DEF Scanning
<1>2. p_i < Len(pattern) /\ pattern[p_i + 1] # "*"
  BY <1>1 DEF MatcherTypeOK, AtStar
<1>3. /\ c[p_i + 1] = c[p_i] + 1
      /\ pattern[p_i + 1] \in {"?", target[c[p_i + 1]]}
  BY <1>2, FullStep
<1>4. pattern[p_i + 1] \in {"?", target[t_i + 1]}
  BY <1>3, Zenon
<1> QED
  BY <1>2, <1>4 DEF AtMatch

(***************************************************************************)
(* The invariant.                                                          *)
(***************************************************************************)

\* The empty cut fits before anything is consumed.
LEMMA MatcherStart == MatcherInit => MatcherInv
<1> SUFFICES ASSUME MatcherInit PROVE MatcherInv
  OBVIOUS
<1>1. pattern \in Seq(STRING) /\ target \in Seq(STRING)
  BY GlobAssumption DEF MatcherInit
<1>2. MatcherTypeOK
  <2>1. /\ p_i = 0 /\ t_i = 0 /\ star = -1 /\ match = 0 /\ pc = "scan" /\ result = FALSE
        /\ consumed = [i \in 1 .. Len(target) |-> 0]
    BY DEF MatcherInit
  <2>2. Len(pattern) \in Nat /\ Len(target) \in Nat
    BY <1>1
  <2>3. consumed \in [1 .. Len(target) -> Nat]
    BY <2>1
  <2>4. /\ p_i \in 0 .. Len(pattern) /\ t_i \in 0 .. Len(target)
        /\ star \in -1 .. Len(pattern) - 1 /\ match \in 0 .. Len(target)
    BY <2>1, <2>2
  <2>5. pc \in {"scan", "tail", "done"} /\ result \in BOOLEAN
    BY <2>1
  <2> QED
    BY <1>1, <2>3, <2>4, <2>5, Zenon DEF MatcherTypeOK
<1>3. Fit(0, 0)
  <2> DEFINE c == [i \in 0 .. 0 |-> 0]
  <2>1. c \in [0 .. 0 -> 0 .. 0] /\ c[0] = 0 /\ 1 .. 0 = {}
    OBVIOUS
  <2>2. c \in Cuts(pattern, target, 0, 0)
    BY <2>1 DEF Cuts
  <2> QED
    BY <2>2 DEF Fit
<1>4. \A c \in Full : c[0] = 0
  BY Zenon DEF Full, Cuts
<1> QED
  BY <1>2, <1>3, <1>4 DEF MatcherInit, MatcherInv, GlobInv, NotBefore, StarInv

\* What a step that leaves the arguments alone leaves alone.
LEMMA MatcherFrame ==
  ASSUME UNCHANGED <<pattern, target>>
  PROVE  Full' = Full /\ \A n, m : Fit(n, m)' <=> Fit(n, m)
BY DEF Full, Fit, Cuts, Step

\* No step of the matcher loses a full cut.
LEMMA MatcherStep == MatcherInv /\ [MatcherNext]_matcherVars => MatcherInv'
<1> SUFFICES ASSUME MatcherInv, [MatcherNext]_matcherVars PROVE MatcherInv'
  OBVIOUS
<1> USE DEF MatcherInv
<1>a. /\ pattern \in Seq(STRING) /\ target \in Seq(STRING)
      /\ Len(pattern) \in Nat /\ Len(target) \in Nat
      /\ p_i \in 0 .. Len(pattern) /\ t_i \in 0 .. Len(target)
  BY DEF MatcherTypeOK
<1>b. UNCHANGED <<pattern, target>>
  BY DEF MatcherNext, matcherVars, EnterStar, Consume, Backtrack, Mismatch, EndOfTarget,
         SkipStar, Return
<1>c. Full' = Full /\ \A n, m : Fit(n, m)' <=> Fit(n, m)
  BY <1>b, MatcherFrame
<1>1. CASE EnterStar
  <2>1. Fit(p_i + 1, t_i)
    BY <1>1, <1>a, ExtendCut DEF EnterStar, Scanning, AtStar, GlobInv, Fit
  <2>2. \A c \in Full : c[p_i + 1] >= t_i
    <3> TAKE c \in Full
    <3>1. c[p_i] >= t_i /\ c[p_i] <= c[p_i + 1]
      BY <1>1, FullStep DEF EnterStar, GlobInv, NotBefore, Scanning
    <3>2. c[p_i] \in Nat /\ c[p_i + 1] \in Nat
      BY <1>1, <1>a, FullStep DEF EnterStar, AtStar
    <3> QED
      BY <1>a, <3>1, <3>2
  <2>3. MatcherTypeOK'
    BY <1>1, <1>a DEF EnterStar, MatcherTypeOK, AtStar
  <2>4. /\ p_i' = p_i + 1 /\ t_i' = t_i /\ star' = p_i /\ match' = t_i /\ pc' = "scan"
        /\ pattern' = pattern /\ pattern[p_i + 1] = "*"
    BY <1>1 DEF EnterStar, Scanning, AtStar
  <2>5. StarInv'
    BY <1>a, <1>c, <2>1, <2>2, <2>4 DEF StarInv
  <2> QED
    BY <1>c, <2>1, <2>2, <2>3, <2>4, <2>5 DEF GlobInv, NotBefore
<1>2. CASE Consume
  <2>1. Fit(p_i + 1, t_i + 1)
    <3>1. /\ p_i \in 0 .. Len(pattern) - 1 /\ t_i + 1 \in t_i .. Len(target)
          /\ Cuts(pattern, target, p_i, t_i) # {}
      BY <1>2, <1>a DEF Consume, Scanning, AtMatch, GlobInv, Fit
    <3>2. pattern[p_i + 1] # "*" /\ pattern[p_i + 1] \in {"?", target[t_i + 1]}
      BY <1>2 DEF Consume, AtMatch
    <3> QED
      BY <1>a, <3>1, <3>2, ExtendCut DEF Fit
  <2>2. \A c \in Full : c[p_i + 1] = c[p_i] + 1 /\ c[p_i] \in Nat
    <3> TAKE c \in Full
    <3>1. p_i < Len(pattern) /\ ~ AtStar
      BY <1>2 DEF Consume, AtMatch, AtStar
    <3> QED
      BY <1>a, <3>1, FullStep
  <2>3. MatcherTypeOK'
    <3>1. t_i + 1 \in 1 .. Len(target) /\ p_i + 1 \in 0 .. Len(pattern)
      BY <1>2, <1>a DEF Consume, Scanning, AtMatch
    <3>2. [consumed EXCEPT ![t_i + 1] = @ + 1] \in [1 .. Len(target) -> Nat]
      BY <3>1 DEF MatcherTypeOK
    <3> QED
      BY <1>2, <1>a, <3>1, <3>2 DEF Consume, MatcherTypeOK
  <2>4. /\ p_i' = p_i + 1 /\ t_i' = t_i + 1 /\ star' = star /\ match' = match /\ pc' = "scan"
        /\ pc = "scan" /\ pattern' = pattern
    BY <1>2 DEF Consume, Scanning
  <2>5. StarInv'
    <3>1. CASE star = -1
      BY <1>c, <2>2, <2>4, <3>1 DEF GlobInv, StarInv
    <3>2. CASE star # -1
      BY <1>a, <1>c, <2>2, <2>4, <3>2 DEF GlobInv, StarInv, MatcherTypeOK
    <3> QED
      BY <3>1, <3>2
  <2>6. NotBefore'
    BY <1>a, <1>c, <2>2, <2>4 DEF GlobInv, NotBefore
  <2> QED
    BY <1>c, <2>1, <2>3, <2>4, <2>5, <2>6 DEF GlobInv
<1>3. CASE Backtrack
  <2>1. /\ star < p_i /\ match <= t_i /\ pattern[star + 1] = "*" /\ Fit(star + 1, match)
        /\ star \in 0 .. Len(pattern) - 1 /\ match \in 0 .. Len(target) - 1
    BY <1>3, <1>a DEF Backtrack, Scanning, GlobInv, StarInv, MatcherTypeOK
  <2>2. Fit(star + 1, match + 1)
    BY <1>a, <2>1, StretchCut DEF Fit
  <2>3. \A c \in Full : c[star + 1] >= match + 1
    <3> TAKE c \in Full
    <3>1. c[p_i] # t_i
      BY <1>3, MatcherStuck DEF Backtrack
    <3>2. c[star + 1] >= match /\ c[star + 1] # match
      BY <1>3, <3>1 DEF Backtrack, Scanning, GlobInv, StarInv
    <3>3. c[star + 1] \in Nat
      BY <1>a, <2>1, FullStep
    <3> QED
      BY <2>1, <3>2, <3>3
  <2>4. MatcherTypeOK'
    BY <1>3, <1>a, <2>1 DEF Backtrack, MatcherTypeOK
  <2>5. /\ p_i' = star + 1 /\ t_i' = match + 1 /\ star' = star /\ match' = match + 1
        /\ pc' = "scan" /\ pattern' = pattern
    BY <1>3 DEF Backtrack, Scanning
  <2>6. StarInv'
    BY <1>c, <2>1, <2>2, <2>3, <2>5 DEF StarInv
  <2> QED
    BY <1>c, <2>2, <2>3, <2>4, <2>5, <2>6 DEF GlobInv, NotBefore
<1>4. CASE Mismatch
  <2>1. Full = {}
    BY <1>4, MatcherStuck DEF Mismatch, Scanning, GlobInv, StarInv
  <2> QED
    BY <1>4, <1>c, <2>1 DEF Mismatch, GlobInv, MatcherTypeOK
<1>5. CASE EndOfTarget
  BY <1>5, <1>a, <1>c DEF EndOfTarget, GlobInv, MatcherTypeOK, NotBefore
<1>6. CASE SkipStar
  <2>1. Fit(p_i + 1, t_i)
    BY <1>6, <1>a, ExtendCut DEF SkipStar, AtStar, GlobInv, Fit
  <2>2. \A c \in Full : c[p_i + 1] >= t_i
    <3> TAKE c \in Full
    <3>1. c[p_i] >= t_i /\ c[p_i] <= c[p_i + 1]
      BY <1>6, FullStep DEF SkipStar, GlobInv, NotBefore
    <3>2. c[p_i] \in Nat /\ c[p_i + 1] \in Nat
      BY <1>6, <1>a, FullStep DEF SkipStar, AtStar
    <3> QED
      BY <1>a, <3>1, <3>2
  <2>3. MatcherTypeOK'
    BY <1>6, <1>a DEF SkipStar, MatcherTypeOK, AtStar
  <2> QED
    BY <1>6, <1>c, <2>1, <2>2, <2>3 DEF SkipStar, GlobInv, NotBefore
<1>7. CASE Return
  <2>1. t_i = Len(target) /\ Fit(p_i, t_i) /\ NotBefore /\ ~ AtStar
    BY <1>7 DEF Return, GlobInv
  <2>2. CASE p_i = Len(pattern)
    BY <1>7, <1>c, <2>1, <2>2 DEF Return, GlobInv, MatcherTypeOK, Fit, Full
  <2>3. CASE p_i # Len(pattern)
    <3>1. Full = {}
      <4> SUFFICES ASSUME NEW c \in Full PROVE FALSE
        OBVIOUS
      <4>1. c[p_i + 1] = c[p_i] + 1 /\ c[p_i] \in Nat /\ c[p_i + 1] <= Len(target)
        BY <1>a, <2>1, <2>3, FullStep
      <4> QED
        BY <1>a, <2>1, <4>1 DEF NotBefore
    <3> QED
      BY <1>7, <1>c, <2>3, <3>1 DEF Return, GlobInv, MatcherTypeOK
  <2> QED
    BY <2>2, <2>3
<1>8. CASE UNCHANGED matcherVars
  BY <1>8, <1>c DEF matcherVars, GlobInv, MatcherTypeOK, NotBefore, StarInv
<1> QED
  BY <1>1, <1>2, <1>3, <1>4, <1>5, <1>6, <1>7, <1>8 DEF MatcherNext

\* The matcher keeps the invariant.
LEMMA MatcherInvariant == MatcherSpec => []MatcherInv
BY MatcherStart, MatcherStep, PTL DEF MatcherSpec

\* No index of the matcher ever leaves its string.
THEOREM MatcherTypeCorrect == MatcherSpec => []MatcherTypeOK
BY MatcherInvariant, PTL DEF MatcherInv

\* For all patterns and targets, the matcher returns True exactly when the
\* target can be cut to fit the pattern.
THEOREM GlobCorrect == MatcherSpec => []Correct
<1>1. MatcherInv => Correct
  BY DEF MatcherInv, GlobInv, Correct, Matches, Full
<1> QED
  BY <1>1, MatcherInvariant, PTL

(***************************************************************************)
(* The work.  Under one star, a later attempt meets a target character at  *)
(* a smaller position of the pattern, and none passes the next star: each  *)
(* position consumes a character once.                                     *)
(***************************************************************************)

Base == star + 1

\* How often the character at j may have been consumed, if no attempt since the
\* last star passes position n of the pattern.
Bound(n, j) ==
  IF j < t_i THEN IF match <= j THEN n - (j - match) ELSE n
  ELSE IF Base + (j - match) < n THEN n - (j - match) - 1 ELSE Base

Positions == 0 .. Len(target) - 1

Counted(n) == \A j \in Positions : consumed[j + 1] <= Bound(n, j)

\* Where the last star's attempts end, at the latest.
Ends == {n \in p_i .. Len(pattern) : n = Len(pattern) \/ pattern[n + 1] = "*"}

WorkInv ==
  /\ MatcherTypeOK
  /\ pc # "scan" => \A j \in Positions : consumed[j + 1] <= Len(pattern)
  /\ pc = "scan" =>
       /\ p_i - Base = t_i - match /\ match <= t_i
       /\ \A k \in Base + 1 .. p_i : pattern[k] # "*"
       /\ \A n \in Ends : Counted(n)

\* What positions consume under one star bounds what they consume in all.
LEMMA CountedBounds == WorkInv => \A j \in Positions : consumed[j + 1] <= Len(pattern)
<1> SUFFICES ASSUME WorkInv, pc = "scan"
             PROVE  \A j \in Positions : consumed[j + 1] <= Len(pattern)
  BY DEF WorkInv
<1>0. MatcherTypeOK /\ p_i - Base = t_i - match /\ match <= t_i /\ Counted(Len(pattern))
  BY DEF WorkInv, Ends, MatcherTypeOK
<1> TAKE j \in Positions
<1>1. /\ Len(pattern) \in Nat /\ Len(target) \in Nat /\ p_i \in 0 .. Len(pattern)
      /\ t_i \in Nat /\ match \in Nat /\ star \in -1 .. Len(pattern) - 1 /\ j \in Nat
      /\ consumed[j + 1] \in Nat
  BY <1>0 DEF MatcherTypeOK, Positions
<1>2. consumed[j + 1] <= Bound(Len(pattern), j)
  BY <1>0 DEF Counted
<1>3. Bound(Len(pattern), j) <= Len(pattern) /\ Bound(Len(pattern), j) \in Int
  BY <1>0, <1>1 DEF Bound, Base
<1> QED
  BY <1>1, <1>2, <1>3

\* No step of the matcher consumes a character beyond its bound.
LEMMA WorkStep == MatcherInv /\ WorkInv /\ [MatcherNext]_matcherVars => WorkInv'
<1> SUFFICES ASSUME MatcherInv, WorkInv, [MatcherNext]_matcherVars PROVE WorkInv'
  OBVIOUS
<1>a. /\ MatcherTypeOK /\ MatcherTypeOK'
      /\ Len(pattern) \in Nat /\ Len(target) \in Nat
      /\ p_i \in 0 .. Len(pattern) /\ t_i \in 0 .. Len(target)
      /\ star \in -1 .. Len(pattern) - 1 /\ match \in 0 .. Len(target)
      /\ \A j \in Positions : j \in Nat /\ j < Len(target) /\ consumed[j + 1] \in Nat
  <2>1. MatcherTypeOK /\ MatcherTypeOK'
    BY MatcherStep DEF MatcherInv
  <2>2. /\ Len(pattern) \in Nat /\ Len(target) \in Nat
        /\ p_i \in 0 .. Len(pattern) /\ t_i \in 0 .. Len(target)
        /\ star \in -1 .. Len(pattern) - 1 /\ match \in 0 .. Len(target)
        /\ consumed \in [1 .. Len(target) -> Nat]
    BY <2>1 DEF MatcherTypeOK
  <2>3. \A j \in Positions : j \in Nat /\ j < Len(target) /\ consumed[j + 1] \in Nat
    BY <2>2 DEF Positions
  <2> QED
    BY <2>1, <2>2, <2>3
<1>b. UNCHANGED <<pattern, target>>
  BY DEF MatcherNext, matcherVars, EnterStar, Consume, Backtrack, Mismatch, EndOfTarget,
         SkipStar, Return
<1>c. Positions' = Positions
  BY <1>b DEF Positions
<1>d. ASSUME pc' = "scan", p_i' - Base' = t_i' - match', match' <= t_i',
             \A k \in Base' + 1 .. p_i' : pattern[k] # "*",
             \A n \in Ends' : Counted(n)'
      PROVE  WorkInv'
  BY <1>a, <1>b, <1>d DEF WorkInv
<1>1. CASE EnterStar
  <2>1. /\ p_i' = p_i + 1 /\ t_i' = t_i /\ star' = p_i /\ match' = t_i /\ pc' = "scan"
        /\ pc = "scan" /\ pattern' = pattern /\ consumed' = consumed
        /\ p_i < Len(pattern) /\ pattern[p_i + 1] = "*"
    BY <1>1 DEF EnterStar, Scanning, AtStar
  <2>2. p_i - Base = t_i - match /\ match <= t_i /\ Counted(p_i)
    BY <1>a, <2>1 DEF WorkInv, Ends
  <2>3. ASSUME NEW n \in Ends', NEW j \in Positions
        PROVE  consumed'[j + 1] <= Bound(n, j)'
    <3>1. n \in p_i + 1 .. Len(pattern)
      BY <1>b, <2>1, <2>3 DEF Ends
    <3>2. consumed[j + 1] <= Bound(p_i, j) /\ j \in Nat
      BY <1>a, <2>2 DEF Counted
    <3>3. Bound(n, j)' = IF j < t_i THEN n
                         ELSE IF p_i + 1 + (j - t_i) < n THEN n - (j - t_i) - 1 ELSE p_i + 1
      BY <1>a, <2>1, <3>2 DEF Bound, Base
    <3> QED
      BY <1>a, <2>1, <2>2, <3>1, <3>2, <3>3 DEF Bound, Base
  <2> QED
    BY <1>a, <1>c, <1>d, <2>1, <2>3 DEF Base, Counted
<1>2. CASE Consume
  <2>1. /\ p_i' = p_i + 1 /\ t_i' = t_i + 1 /\ star' = star /\ match' = match /\ pc' = "scan"
        /\ pc = "scan" /\ pattern' = pattern
        /\ p_i < Len(pattern) /\ pattern[p_i + 1] # "*" /\ t_i < Len(target)
        /\ consumed' = [consumed EXCEPT ![t_i + 1] = @ + 1]
    BY <1>2 DEF Consume, Scanning, AtMatch
  <2>2. /\ p_i - Base = t_i - match /\ match <= t_i
        /\ \A k \in Base + 1 .. p_i : pattern[k] # "*"
    BY <2>1 DEF WorkInv
  <2>3. ASSUME NEW n \in Ends', NEW j \in Positions
        PROVE  consumed'[j + 1] <= Bound(n, j)'
    <3>1. n \in p_i + 1 .. Len(pattern) /\ n \in Ends
      BY <1>a, <2>1, <2>3 DEF Ends
    <3>2. consumed[j + 1] <= Bound(n, j) /\ j \in Nat /\ consumed[j + 1] \in Nat
      BY <1>a, <2>1, <3>1 DEF WorkInv, Counted
    <3>3. consumed'[j + 1] = IF j = t_i THEN consumed[j + 1] + 1 ELSE consumed[j + 1]
      BY <1>a, <2>1, <3>2 DEF MatcherTypeOK, Positions
    <3>4. Bound(n, j)' = IF j < t_i + 1 THEN IF match <= j THEN n - (j - match) ELSE n
                         ELSE IF Base + (j - match) < n THEN n - (j - match) - 1 ELSE Base
      BY <2>1 DEF Bound, Base
    <3> QED
      BY <1>a, <2>1, <2>2, <3>1, <3>2, <3>3, <3>4 DEF Bound, Base
  <2>4. \A k \in Base' + 1 .. p_i' : pattern[k] # "*"
    BY <1>a, <2>1, <2>2 DEF Base
  <2> QED
    BY <1>a, <1>c, <1>d, <2>1, <2>2, <2>3, <2>4 DEF Base, Counted
<1>3. CASE Backtrack
  <2>1. /\ p_i' = star + 1 /\ t_i' = match + 1 /\ star' = star /\ match' = match + 1
        /\ pc' = "scan" /\ pc = "scan" /\ pattern' = pattern /\ consumed' = consumed
    BY <1>3 DEF Backtrack, Scanning
  <2>2. /\ p_i - Base = t_i - match /\ match <= t_i
        /\ \A k \in Base + 1 .. p_i : pattern[k] # "*"
    BY <2>1 DEF WorkInv
  <2>3. ASSUME NEW n \in Ends', NEW j \in Positions
        PROVE  consumed'[j + 1] <= Bound(n, j)'
    <3>1. n \in Base .. Len(pattern) /\ (n = Len(pattern) \/ pattern[n + 1] = "*")
      BY <2>1, <2>3 DEF Ends, Base
    <3>2. n \in p_i .. Len(pattern)
      BY <1>a, <2>2, <3>1 DEF Base
    <3>3. consumed[j + 1] <= Bound(n, j) /\ j \in Nat
      BY <1>a, <2>1, <3>1, <3>2 DEF WorkInv, Counted, Ends
    <3>4. Bound(n, j)' = IF j < match + 1
                         THEN IF match + 1 <= j THEN n - (j - (match + 1)) ELSE n
                         ELSE IF Base + (j - (match + 1)) < n
                              THEN n - (j - (match + 1)) - 1 ELSE Base
      BY <2>1 DEF Bound, Base
    <3> QED
      BY <1>a, <2>1, <2>2, <3>1, <3>2, <3>3, <3>4 DEF Bound, Base
  <2> QED
    BY <1>a, <1>c, <1>d, <2>1, <2>3 DEF Base, Counted
<1>4. CASE Mismatch \/ EndOfTarget \/ SkipStar \/ Return
  <2>1. pc' # "scan" /\ consumed' = consumed
    BY <1>4 DEF Mismatch, EndOfTarget, SkipStar, Return
  <2> QED
    BY <1>a, <1>b, <1>c, <2>1, CountedBounds DEF WorkInv
<1>5. CASE UNCHANGED matcherVars
  BY <1>5 DEF matcherVars, WorkInv, MatcherTypeOK, Ends, Counted, Bound, Base, Positions
<1> QED
  BY <1>1, <1>2, <1>3, <1>4, <1>5 DEF MatcherNext

\* No character of the target is consumed more often than the pattern is long.
THEOREM WorkIsBounded == MatcherSpec => []WorkBounded
<1>1. MatcherInit => WorkInv
  <2> SUFFICES ASSUME MatcherInit PROVE WorkInv
    OBVIOUS
  <2>1. MatcherTypeOK
    BY MatcherStart DEF MatcherInv
  <2>2. \A j \in Positions : consumed[j + 1] = 0 /\ j \in Nat
    BY <2>1 DEF MatcherInit, Positions, MatcherTypeOK
  <2>3. ASSUME NEW n \in Ends PROVE Counted(n)
    <3>1. n \in Nat
      BY <2>1 DEF Ends, MatcherTypeOK
    <3> QED
      BY <2>2, <3>1 DEF Counted, Bound, Base, MatcherInit
  <2>4. Len(pattern) \in Nat
    BY <2>1 DEF MatcherTypeOK
  <2> QED
    BY <2>1, <2>2, <2>3, <2>4 DEF WorkInv, MatcherInit, Base
<1>2. WorkInv => WorkBounded
  <2> SUFFICES ASSUME WorkInv, NEW i \in DOMAIN consumed PROVE consumed[i] <= Len(pattern)
    BY DEF WorkBounded
  <2>1. i \in 1 .. Len(target) /\ Len(target) \in Nat
    BY DEF WorkInv, MatcherTypeOK
  <2>2. i - 1 \in Positions /\ (i - 1) + 1 = i
    BY <2>1 DEF Positions
  <2> QED
    BY <2>2, CountedBounds
<1> QED
  BY <1>1, <1>2, MatcherInvariant, WorkStep, PTL DEF MatcherSpec

-----------------------------------------------------------------------------
(* How long the matcher takes.                                             *)

\* The steps that a call has left at most: entering a star, or giving it a character more,
\* brings back no more than the characters of the target.
StepsLeft ==
  CASE pc = "scan" -> ((((Len(pattern) - star) + (Len(target) - match)) * (Len(target) + 1))
                        + (Len(target) - t_i)) + (Len(pattern) + 2)
    [] pc = "tail" -> (Len(pattern) - p_i) + 1
    [] pc = "done" -> 0

\* What it has left when it starts.
AllSteps ==
  (((Len(pattern) + Len(target) + 1) * (Len(target) + 1)) + Len(target)) + (Len(pattern) + 2)

\* The greater of two factors makes up for what is less than the other factor.
LEMMA Products ==
  ASSUME NEW a \in Nat, NEW b \in Nat, NEW w \in Nat, NEW x \in 0 .. w, NEW y \in 0 .. w, a < b
  PROVE  /\ (a * (w + 1)) + x < (b * (w + 1)) + y
         /\ a * (w + 1) \in Nat /\ b * (w + 1) \in Nat
<1>1. PICK d \in Nat : b = (a + 1) + d
  <2>1. b - (a + 1) \in Nat /\ b = (a + 1) + (b - (a + 1))
    OBVIOUS
  <2>. QED BY <2>1
<1>2. a * (w + 1) \in Nat /\ b * (w + 1) \in Nat /\ d * (w + 1) \in Nat
  OBVIOUS
<1>3. b * (w + 1) = ((a * (w + 1)) + (w + 1)) + (d * (w + 1))
  BY <1>1
<1>. QED BY <1>2, <1>3

\* The last attempt of a star began where the next character is, or before.
Behind == match <= t_i

\* No attempt begins after the next character.
LEMMA BehindAlways == MatcherSpec => []Behind
<1>1. MatcherInit => Behind
  BY DEF MatcherInit, Behind
<1>2. MatcherInv /\ Behind /\ [MatcherNext]_matcherVars => Behind'
  <2>. SUFFICES ASSUME MatcherInv, Behind, [MatcherNext]_matcherVars PROVE Behind'
    OBVIOUS
  <2>1. match \in Nat /\ t_i \in Nat
    BY DEF MatcherInv, MatcherTypeOK
  <2>. QED BY <2>1 DEF MatcherNext, EnterStar, Consume, Backtrack, Mismatch, EndOfTarget, SkipStar,
                       Return, matcherVars, Behind
<1>. QED BY <1>1, <1>2, MatcherInvariant, PTL DEF MatcherSpec

\* There is never more to do than at the start.
LEMMA StepsAreBounded == MatcherInv => StepsLeft \in 0 .. AllSteps
<1>. SUFFICES ASSUME MatcherInv PROVE StepsLeft \in 0 .. AllSteps
  OBVIOUS
<1>. DEFINE P == Len(pattern)
            T == Len(target)
            B == (P - star) + (T - match)
<1>1. /\ P \in Nat /\ T \in Nat /\ p_i \in 0 .. P /\ t_i \in 0 .. T
      /\ star \in -1 .. P - 1 /\ match \in 0 .. T
      /\ pc \in {"scan", "tail", "done"}
  BY DEF MatcherInv, MatcherTypeOK
<1>. HIDE DEF P, T
<1>2. B \in 0 .. (P + T) + 1
  BY <1>1
<1>3. /\ B * (T + 1) \in Nat /\ ((P + T) + 1) * (T + 1) \in Nat
      /\ B * (T + 1) <= ((P + T) + 1) * (T + 1)
  <2>. HIDE DEF B
  <2>1. PICK d \in Nat : (P + T) + 1 = B + d
    <3>1. ((P + T) + 1) - B \in Nat /\ (P + T) + 1 = B + (((P + T) + 1) - B)
      BY <1>1, <1>2
    <3>. QED BY <3>1
  <2>2. ((P + T) + 1) * (T + 1) = (B * (T + 1)) + (d * (T + 1))
    BY <2>1, <1>1, <1>2
  <2>3. B * (T + 1) \in Nat /\ d * (T + 1) \in Nat
    BY <1>1, <1>2
  <2>. QED BY <2>2, <2>3
<1>4. /\ pc = "scan" => StepsLeft = ((B * (T + 1)) + (T - t_i)) + (P + 2)
      /\ pc = "tail" => StepsLeft = (P - p_i) + 1
      /\ pc = "done" => StepsLeft = 0
      /\ AllSteps = ((((P + T) + 1) * (T + 1)) + T) + (P + 2)
  BY DEF StepsLeft, AllSteps, P, T
<1>. HIDE DEF B
<1>. DEFINE X == B * (T + 1)
            Y == ((P + T) + 1) * (T + 1)
<1>5. /\ pc = "scan" => StepsLeft = (X + (T - t_i)) + (P + 2)
      /\ AllSteps = (Y + T) + (P + 2) /\ X \in Nat /\ Y \in Nat /\ X <= Y
  BY <1>3, <1>4
<1>. HIDE DEF X, Y
<1>. QED BY <1>1, <1>4, <1>5

\* Each step of the matcher leaves less to do.
LEMMA StepsRunOut ==
  MatcherInv /\ Behind /\ MatcherNext => StepsLeft' < StepsLeft
<1>. SUFFICES ASSUME MatcherInv, Behind, MatcherNext PROVE StepsLeft' < StepsLeft
  OBVIOUS
<1>. DEFINE P == Len(pattern)
            T == Len(target)
            B == (P - star) + (T - match)
            C == (P - star') + (T - match')
<1>1. /\ P \in Nat /\ T \in Nat /\ p_i \in 0 .. P /\ t_i \in 0 .. T
      /\ star \in -1 .. P - 1 /\ match \in 0 .. T /\ match <= t_i
      /\ pc \in {"scan", "tail", "done"}
      /\ pc = "scan" /\ star # -1 => star < p_i
  BY DEF MatcherInv, MatcherTypeOK, GlobInv, StarInv, Behind
<1>2. P' = P /\ T' = T
  BY DEF MatcherNext, EnterStar, Consume, Backtrack, Mismatch, EndOfTarget, SkipStar, Return
<1>3. /\ pc = "scan" => StepsLeft = ((B * (T + 1)) + (T - t_i)) + (P + 2)
      /\ pc = "tail" => StepsLeft = (P - p_i) + 1
      /\ pc = "done" => StepsLeft = 0
  BY DEF StepsLeft
<1>4. /\ pc' = "scan" => StepsLeft' = ((C * (T + 1)) + (T - t_i')) + (P + 2)
      /\ pc' = "tail" => StepsLeft' = (P - p_i') + 1
      /\ pc' = "done" => StepsLeft' = 0
  BY <1>2 DEF StepsLeft
<1>5. B \in Nat /\ B * (T + 1) \in Nat
  BY <1>1
<1>. HIDE DEF P, T, StepsLeft
<1>6. ASSUME C \in Nat, C < B, t_i' \in 0 .. T, pc = "scan", pc' = "scan"
      PROVE  StepsLeft' < StepsLeft
  <2>. HIDE DEF B, C
  <2>. PICK u \in 0 .. T : u = t_i'
    BY <1>6
  <2>1. /\ (C * (T + 1)) + (T - u) < (B * (T + 1)) + (T - t_i)
        /\ C * (T + 1) \in Nat /\ B * (T + 1) \in Nat
    <3>1. T - u \in 0 .. T /\ T - t_i \in 0 .. T
      <4>1. \A n \in Nat : \A i \in 0 .. n : n - i \in 0 .. n
        OBVIOUS
      <4>2. T \in Nat /\ u \in 0 .. T /\ t_i \in 0 .. T
        BY <1>1
      <4>. QED BY <4>1, <4>2
    <3>. QED BY <1>1, <1>5, <1>6, <3>1, Products
  <2>. DEFINE X == (C * (T + 1)) + (T - u)
              Y == (B * (T + 1)) + (T - t_i)
  <2>2. X < Y /\ X \in Int /\ Y \in Int
    BY <1>1, <2>1
  <2>3. StepsLeft = Y + (P + 2) /\ StepsLeft' = X + (P + 2)
    BY <1>3, <1>4, <1>6
  <2>. HIDE DEF X, Y
  <2>. QED BY <1>1, <2>2, <2>3
<1>7. CASE EnterStar
  <2>1. /\ pc = "scan" /\ pc' = "scan" /\ star' = p_i /\ match' = t_i /\ t_i' = t_i /\ p_i < P
    BY <1>7 DEF EnterStar, Scanning, AtStar, P
  <2>2. C \in Nat /\ C < B
    BY <1>1, <2>1
  <2>. QED BY <1>1, <1>6, <2>1, <2>2
<1>8. CASE Consume
  <2>1. /\ pc = "scan" /\ pc' = "scan" /\ star' = star /\ match' = match /\ t_i' = t_i + 1
    BY <1>8 DEF Consume, Scanning
  <2>2. C = B
    BY <2>1
  <2>. DEFINE X == B * (T + 1)
  <2>3. StepsLeft = (X + (T - t_i)) + (P + 2) /\ StepsLeft' = (X + (T - (t_i + 1))) + (P + 2)
    BY <1>3, <1>4, <2>1, <2>2
  <2>4. X \in Nat
    BY <1>5
  <2>. HIDE DEF X
  <2>. QED BY <1>1, <2>3, <2>4
<1>9. CASE Backtrack
  <2>1. /\ pc = "scan" /\ pc' = "scan" /\ star' = star /\ match' = match + 1 /\ t_i' = match + 1
        /\ t_i < T
    BY <1>9 DEF Backtrack, Scanning, T
  <2>2. C \in Nat /\ C < B /\ t_i' \in 0 .. T
    BY <1>1, <2>1
  <2>. QED BY <1>6, <2>1, <2>2
<1>10. CASE Mismatch \/ EndOfTarget
  <2>1. pc = "scan" /\ p_i' = p_i /\ pc' \in {"tail", "done"}
    BY <1>10 DEF Mismatch, EndOfTarget, Scanning
  <2>. DEFINE X == B * (T + 1)
  <2>2. StepsLeft = (X + (T - t_i)) + (P + 2) /\ X \in Nat
    BY <1>3, <1>5, <2>1
  <2>. HIDE DEF X
  <2>. QED BY <1>1, <1>4, <2>1, <2>2
<1>11. CASE SkipStar \/ Return
  <2>1. /\ pc = "tail"
        /\ \/ pc' = "tail" /\ p_i' = p_i + 1
           \/ pc' = "done"
    BY <1>11 DEF SkipStar, Return
  <2>. QED BY <1>1, <1>3, <1>4, <2>1
<1>. QED BY <1>7, <1>8, <1>9, <1>10, <1>11 DEF MatcherNext

\* A call runs out of steps: each step takes one at least of those that are left, which are
\* naturals, and at the start about the length of the target times that of both strings.
\* Terminates has only to add that the matcher goes on until it is done.
THEOREM MatcherRunsOut ==
  MatcherSpec => [](StepsLeft \in 0 .. AllSteps) /\ [][StepsLeft' < StepsLeft]_matcherVars
<1>1. MatcherInv => StepsLeft \in 0 .. AllSteps
  BY StepsAreBounded
<1>2. MatcherInv /\ Behind /\ [MatcherNext]_matcherVars => [StepsLeft' < StepsLeft]_matcherVars
  BY StepsRunOut
<1>. QED BY <1>1, <1>2, MatcherInvariant, BehindAlways, PTL DEF MatcherSpec

-----------------------------------------------------------------------------
(***************************************************************************)
(* Induction over data, stated of a set where the library's theorems take  *)
(* an operator; then what the recursive functions of the corpus program    *)
(* come to.                                                                *)
(***************************************************************************)

\* A set with 0 and with the successor of each of its naturals has all naturals.
LEMMA AllNaturals ==
  ASSUME NEW S, 0 \in S, \A n \in Nat : n \in S => n + 1 \in S
  PROVE  Nat \subseteq S
<1>. SUFFICES ASSUME NEW n \in Nat, n \notin S PROVE FALSE
  OBVIOUS
<1>. DEFINE T == {k \in 0 .. n : \A j \in 0 .. k : j \in S}
            next == [k \in T |-> k + 1]
<1>1. 0 \in T /\ \A k \in T : k + 1 \in T \ {0}
  OBVIOUS
<1>2. IsFiniteSet(T)
  <2>1. T \subseteq 0 .. n
    OBVIOUS
  <2>. HIDE DEF T
  <2>2. IsFiniteSet(0 .. n)
    <3>1. 0 \in Int /\ n \in Int
      OBVIOUS
    <3>. QED BY <3>1, FS_Interval
  <2>. QED BY <2>1, <2>2, FS_Subset
<1>3. T \subseteq Nat
  OBVIOUS
<1>. HIDE DEF T
<1>4. next \in Injection(T, T \ {0})
  BY <1>1, <1>3 DEF Injection, IsInjective
<1>5. Cardinality(T \ {0}) = Cardinality(T) - 1 /\ IsFiniteSet(T \ {0}) /\ Cardinality(T) \in Nat
  BY <1>1, <1>2, FS_RemoveElement, FS_CardinalityType
<1>6. Cardinality(T) <= Cardinality(T \ {0})
  BY <1>2, <1>4, <1>5, FS_Injection
<1>. QED BY <1>5, <1>6

\* G[i] takes the value before i to the one at i, and h is the function so defined.
StepsOn(V, k, G) == \A i \in 1 .. k : \A v \in V : G[i][v] \in V
Recurs(h, V, e, k, G) ==
  h \in [0 .. k -> V] /\ h[0] = e /\ \A i \in 1 .. k : h[i] = G[i][h[i - 1]]

\* A recursion over the naturals up to k has a solution.
LEMMA Recursion ==
  ASSUME NEW V, NEW e \in V, NEW k \in Nat, NEW G, StepsOn(V, k, G)
  PROVE  \E h : Recurs(h, V, e, k, G)
<1>. DEFINE Solves(h, n) == h[0] = e /\ \A i \in 1 .. n : h[i] = G[i][h[i - 1]]
            S == {n \in Nat : n <= k => \E h \in [0 .. k -> V] : Solves(h, n)}
<1>1. 0 \in S
  <2>1. [i \in 0 .. k |-> e] \in [0 .. k -> V] /\ Solves([i \in 0 .. k |-> e], 0)
    OBVIOUS
  <2>. QED BY <2>1
<1>2. ASSUME NEW n \in Nat, n \in S PROVE n + 1 \in S
  <2>. SUFFICES ASSUME n + 1 <= k PROVE \E h \in [0 .. k -> V] : Solves(h, n + 1)
    OBVIOUS
  <2>1. PICK h \in [0 .. k -> V] : Solves(h, n)
    BY <1>2
  <2>. DEFINE next == [i \in 0 .. k |-> IF i = n + 1 THEN G[i][h[n]] ELSE h[i]]
  <2>2. next \in [0 .. k -> V]
    BY DEF StepsOn
  <2>3. ASSUME NEW i \in 1 .. n + 1 PROVE next[i] = G[i][next[i - 1]]
    <3>1. i \in 0 .. k /\ i - 1 \in 0 .. k /\ next[i - 1] = h[i - 1]
      OBVIOUS
    <3>2. CASE i = n + 1
      BY <3>1, <3>2
    <3>3. CASE i # n + 1
      BY <2>1, <3>1, <3>3
    <3>. QED BY <3>2, <3>3
  <2>4. next[0] = e
    BY <2>1
  <2>. HIDE DEF next
  <2>. QED BY <2>2, <2>3, <2>4
<1>3. k \in S
  <2>. HIDE DEF S
  <2>. QED BY <1>1, <1>2, AllNaturals
<1>. QED BY <1>3 DEF Recurs

\* What the sum of amounts comes to, one amount at a time.
LEMMA Totals ==
  ASSUME NEW amounts \in Seq(Nat)
  PROVE  /\ Total(amounts, 0) = 0
         /\ \A n \in 1 .. Len(amounts) : Total(amounts, n) = Total(amounts, n - 1) + amounts[n]
         /\ \A n \in 0 .. Len(amounts) : Total(amounts, n) \in Nat
<1>. DEFINE k == Len(amounts)
            Eq(t) == t = [i \in 0 .. k |-> IF i = 0 THEN 0 ELSE t[i - 1] + amounts[i]]
            G == [i \in 1 .. k |-> [v \in Nat |-> v + amounts[i]]]
<1>1. k \in Nat /\ \A i \in 1 .. k : amounts[i] \in Nat
  OBVIOUS
<1>2. \A i \in 1 .. k : \A v \in Nat : G[i][v] = v + amounts[i]
  OBVIOUS
<1>3. \A i \in 1 .. k : \A v \in Nat : G[i][v] \in Nat
  BY <1>1, <1>2
<1>. HIDE DEF G, k
<1>4. \E h : Recurs(h, Nat, 0, k, G)
  <2>1. StepsOn(Nat, k, G) /\ k \in Nat /\ 0 \in Nat
    BY <1>1, <1>3 DEF StepsOn
  <2>. QED BY <2>1, Recursion
<1>. PICK h : Recurs(h, Nat, 0, k, G)
  BY <1>4
<1>5. Eq(h)
  <2>1. ASSUME NEW i \in 1 .. k PROVE h[i] = h[i - 1] + amounts[i]
    <3>1. h[i - 1] \in Nat
      BY <1>1 DEF Recurs
    <3>. QED BY <1>2, <3>1 DEF Recurs
  <2>. QED BY <1>1, <2>1 DEF Recurs
<1>. DEFINE total == CHOOSE t : Eq(t)
<1>6. Eq(total)
  BY <1>5
<1>7. \A n : Total(amounts, n) = total[n]
  BY DEF Total, k
<1>8. /\ total[0] = 0
      /\ \A i \in 1 .. k : total[i] = total[i - 1] + amounts[i]
  <2>1. ASSUME NEW i \in 0 .. k
        PROVE  total[i] = IF i = 0 THEN 0 ELSE total[i - 1] + amounts[i]
    BY <1>6
  <2>. QED BY <1>1, <2>1
<1>. HIDE DEF total
<1>. DEFINE S == {n \in Nat : n <= k => total[n] \in Nat}
<1>9. k \in Nat /\ \A n \in 0 .. k : total[n] \in Nat
  <2>1. 0 \in S
    BY <1>8
  <2>2. ASSUME NEW n \in Nat, n \in S PROVE n + 1 \in S
    <3>. SUFFICES ASSUME n + 1 <= k PROVE total[n + 1] \in Nat
      OBVIOUS
    <3>1. n + 1 \in 1 .. k /\ (n + 1) - 1 = n /\ total[n] \in Nat
      BY <1>1, <2>2
    <3>2. total[n + 1] = total[n] + amounts[n + 1]
      BY <1>8, <3>1
    <3>. QED BY <1>1, <3>1, <3>2
  <2>. HIDE DEF S
  <2>3. Nat \subseteq S
    BY <2>1, <2>2, AllNaturals
  <2>. QED BY <1>1, <2>3 DEF S
<1>. QED BY <1>7, <1>8, <1>9 DEF k

\* What is listed of some positions are these positions.
LEMMA ListsPositions ==
  ASSUME NEW k \in Nat, NEW positions, positions \subseteq 1 .. k
  PROVE  /\ Listed(positions, k) \in Seq(1 .. k)
         /\ Range(Listed(positions, k)) = positions
<1>. DEFINE V == Seq(1 .. k)
            Eq(f) == f = [i \in 0 .. k |->
                            IF i = 0 THEN << >>
                            ELSE IF i \in positions THEN Append(f[i - 1], i) ELSE f[i - 1]]
            G == [i \in 1 .. k |->
                    [v \in V |-> IF i \in positions THEN Append(v, i) ELSE v]]
<1>1. \A i \in 1 .. k : \A v \in V :
        G[i][v] = IF i \in positions THEN Append(v, i) ELSE v
  OBVIOUS
<1>2. /\ \A i \in 1 .. k : \A v \in V : G[i][v] \in V
      /\ << >> \in V
  <2>1. \A i \in 1 .. k : \A v \in V : Append(v, i) \in V
    OBVIOUS
  <2>2. << >> \in V
    OBVIOUS
  <2>. HIDE DEF V, G
  <2>. QED BY <1>1, <2>1, <2>2
<1>. HIDE DEF G, V
<1>3. \E h : Recurs(h, V, << >>, k, G)
  <2>1. StepsOn(V, k, G)
    BY <1>2 DEF StepsOn
  <2>. QED BY <1>2, <2>1, Recursion
<1>. PICK h : Recurs(h, V, << >>, k, G)
  BY <1>3
<1>4. Eq(h)
  <2>1. ASSUME NEW i \in 1 .. k
        PROVE  h[i] = IF i \in positions THEN Append(h[i - 1], i) ELSE h[i - 1]
    <3>1. h[i - 1] \in V
      BY DEF Recurs
    <3>. QED BY <1>1, <3>1 DEF Recurs
  <2>2. ASSUME NEW i \in 0 .. k
        PROVE  h[i] = IF i = 0 THEN << >>
                      ELSE IF i \in positions THEN Append(h[i - 1], i) ELSE h[i - 1]
    <3>1. CASE i = 0
      BY <3>1 DEF Recurs
    <3>2. CASE i # 0
      <4>1. i \in 1 .. k
        BY <3>2
      <4>. QED BY <2>1, <3>2, <4>1, Zenon
    <3>. QED BY <3>1, <3>2
  <2>3. h = [i \in 0 .. k |-> h[i]]
    BY DEF Recurs
  <2>. QED BY <2>2, <2>3, Zenon
<1>. DEFINE listed == CHOOSE f : Eq(f)
<1>5. Eq(listed)
  BY <1>4
<1>6. Listed(positions, k) = listed[k]
  BY DEF Listed
<1>7. /\ listed[0] = << >>
      /\ \A i \in 1 .. k :
           listed[i] = IF i \in positions THEN Append(listed[i - 1], i) ELSE listed[i - 1]
  <2>1. ASSUME NEW i \in 0 .. k
        PROVE  listed[i] = IF i = 0 THEN << >>
                           ELSE IF i \in positions THEN Append(listed[i - 1], i)
                           ELSE listed[i - 1]
    BY <1>5
  <2>. QED BY <2>1
<1>. HIDE DEF listed
<1>. DEFINE T == {n \in Nat : n <= k =>
                    /\ listed[n] \in V
                    /\ Range(listed[n]) = positions \cap (1 .. n)}
<1>8. 0 \in T
  BY <1>2, <1>7 DEF Range
<1>9. ASSUME NEW n \in Nat, n \in T PROVE n + 1 \in T
  <2>. SUFFICES ASSUME n + 1 <= k
                PROVE  /\ listed[n + 1] \in V
                       /\ Range(listed[n + 1]) = positions \cap (1 .. n + 1)
    OBVIOUS
  <2>. DEFINE before == listed[n]
  <2>1. /\ before \in V /\ Range(before) = positions \cap (1 .. n)
        /\ listed[n + 1] = IF n + 1 \in positions THEN Append(before, n + 1) ELSE before
    BY <1>7, <1>9
  <2>. HIDE DEF before
  <2>2. CASE n + 1 \in positions
    <3>1. before \in Seq(1 .. k) /\ n + 1 \in 1 .. k
      BY <2>1 DEF V
    <3>. DEFINE after == Append(before, n + 1)
    <3>2. /\ after \in Seq(1 .. k) /\ Len(after) = Len(before) + 1 /\ Len(before) \in Nat
          /\ \A i \in 1 .. Len(before) : after[i] = before[i]
          /\ after[Len(before) + 1] = n + 1
      BY <3>1
    <3>. HIDE DEF after
    <3>3. Range(after) = Range(before) \cup {n + 1}
      <4>1. DOMAIN before = 1 .. Len(before) /\ DOMAIN after = 1 .. Len(before) + 1
        BY <3>1, <3>2
      <4>. QED BY <3>2, <4>1 DEF Range
    <3>4. listed[n + 1] = after
      BY <2>1, <2>2 DEF after
    <3>5. positions \cap (1 .. n + 1) = (positions \cap (1 .. n)) \cup {n + 1}
      BY <2>2
    <3>. QED BY <2>1, <3>2, <3>3, <3>4, <3>5 DEF V
  <2>3. CASE n + 1 \notin positions
    BY <2>1, <2>3
  <2>. QED BY <2>2, <2>3
<1>10. k \in T
  <2>. HIDE DEF T
  <2>. QED BY <1>8, <1>9, AllNaturals
<1>11. positions \cap (1 .. k) = positions
  OBVIOUS
<1>12. listed[k] \in V /\ Range(listed[k]) = positions \cap (1 .. k)
  BY <1>10
<1>. QED BY <1>6, <1>11, <1>12 DEF V

\* A nonempty set of naturals has a least element.
LEMMA Least ==
  ASSUME NEW S, S \subseteq Nat, S # {}
  PROVE  Min(S) \in S
<1>1. \E x \in S : \A y \in S : x <= y
  <2>. SUFFICES ASSUME ~ \E x \in S : \A y \in S : x <= y PROVE FALSE
    OBVIOUS
  <2>. DEFINE T == {n \in Nat : \A x \in S : n <= x}
  <2>1. 0 \in T
    OBVIOUS
  <2>2. ASSUME NEW n \in Nat, n \in T PROVE n + 1 \in T
    <3>1. \A x \in S : n <= x /\ x \in Nat
      BY <2>2
    <3>2. n \notin S
      BY <3>1
    <3>. QED BY <3>1, <3>2
  <2>3. Nat \subseteq T
    <3>. HIDE DEF T
    <3>. QED BY <2>1, <2>2, AllNaturals
  <2>4. PICK x \in S : TRUE
    OBVIOUS
  <2>5. x + 1 \in T /\ x \in Nat
    BY <2>3
  <2>. QED BY <2>5
<1>. QED BY <1>1 DEF Min

\* The rule that the snapshot is for is a daily_limit rule of the policy.
LEMMA LimitIsRule ==
  ASSUME NEW policy, WellFormed(policy), HasLimit(policy)
  PROVE  \E p \in DOMAIN policy :
           DailyLimit(policy) = policy[p] /\ policy[p].type = "daily_limit"
<1>. DEFINE S == {i \in DOMAIN policy : policy[i].type = "daily_limit"}
<1>1. S # {} /\ S \subseteq Nat
  BY DEF HasLimit, WellFormed
<1>. HIDE DEF S
<1>2. Min(S) \in S
  BY <1>1, Least
<1>3. DailyLimit(policy) = policy[Min(S)]
  BY DEF DailyLimit, S
<1>. QED BY <1>2, <1>3 DEF S

\* What is drawn for a receipt: whole amounts, and a URL.
LEMMA Drawn ==
  ASSUME scenario \in Scenarios, NEW b, NEW receipt \in Draws(b)
  PROVE  /\ {"action_type", "amount_charged", "terms_url"} \subseteq DOMAIN receipt
         /\ receipt["amount_charged"] \in Nat
         /\ Amount(receipt) = receipt["amount_charged"]
         /\ receipt["terms_url"] \in Seq(STRING)
<1>1. PICK amount \in AmountsOf(b), url \in UrlsOf(b), commitments \in CommitmentsOf(b) :
        receipt = Merge([action_type |-> ActionOf(b), amount_charged |-> amount,
                         terms_url |-> url], commitments)
  BY DEF Draws
<1>2. /\ {"action_type", "amount_charged", "terms_url"} \subseteq DOMAIN receipt
      /\ receipt["amount_charged"] = amount /\ receipt["terms_url"] = url
  BY <1>1 DEF Merge
<1>3. amount \in Nat
  <2>. DEFINE a == scenario.amounts
  <2>1. a \in [Amounts -> Nat]
    BY CorpusAssumption
  <2>. HIDE DEF a
  <2>2. /\ a.allow_max \in Nat /\ a.training_max \in Nat
        /\ a.escalation_only_min \in Nat /\ a.escalation_only_max \in Nat
        /\ a.daily_limit_per_receipt \in Nat
        /\ a.max_amount_min \in Nat /\ a.max_amount_max \in Nat
        /\ a.stress_min \in Nat /\ a.stress_max \in Nat
    BY <2>1 DEF Amounts
  <2>. QED BY <2>2 DEF AmountsOf, a
<1>4. url \in Seq(STRING)
  BY CorpusAssumption DEF UrlsOf
<1>. QED BY <1>2, <1>3, <1>4 DEF Amount, resolve_path, Get

IdsOf(policy) == {policy[i].id : i \in DOMAIN policy}
FiringIds(policy, verdicts) ==
  {policy[i].id : i \in {j \in DOMAIN policy : verdicts[j] = "fires"}}

\* A decision names the rules that fire.
LEMMA DecisionNames ==
  ASSUME NEW policy, WellFormed(policy), NEW verdicts
  PROVE  /\ Decision(policy, verdicts).value \in {"allow", "escalate", "deny"}
         /\ Decision(policy, verdicts).triggered \in Seq(IdsOf(policy))
         /\ Decision(policy, verdicts)
              = [value |-> Decision(policy, verdicts).value,
                 triggered |-> Decision(policy, verdicts).triggered]
         /\ Fired(Decision(policy, verdicts)) = FiringIds(policy, verdicts)
<1>1. DOMAIN policy = 1 .. Len(policy) /\ Len(policy) \in Nat
  BY DEF WellFormed
<1>. DEFINE firing == {i \in DOMAIN policy : verdicts[i] = "fires"}
            fired == Listed(firing, Len(policy))
<1>2. fired \in Seq(DOMAIN policy) /\ Range(fired) = firing
  <2>1. firing \subseteq 1 .. Len(policy)
    BY <1>1
  <2>. HIDE DEF firing
  <2>. QED BY <1>1, <2>1, ListsPositions
<1>. HIDE DEF fired
<1>3. /\ Decision(policy, verdicts).triggered = [k \in DOMAIN fired |-> policy[fired[k]].id]
      /\ Decision(policy, verdicts).value \in {"allow", "escalate", "deny"}
      /\ Decision(policy, verdicts)
              = [value |-> Decision(policy, verdicts).value,
                 triggered |-> Decision(policy, verdicts).triggered]
  BY DEF Decision, fired
<1>. DEFINE ids == {policy[i].id : i \in DOMAIN policy}
            triggered == [k \in DOMAIN fired |-> policy[fired[k]].id]
<1>4. triggered \in Seq(ids)
  BY <1>2
<1>5. Range(triggered) = {policy[i].id : i \in Range(fired)}
  BY <1>2 DEF Range
<1>. QED BY <1>2, <1>3, <1>4, <1>5 DEF Fired, IdsOf, FiringIds

-----------------------------------------------------------------------------
(* The invariant of the corpus program.                                    *)

Buckets == {plan[k].bucket : k \in DOMAIN plan}
Drafts == UNION {Draws(b) : b \in Buckets}
Rows == [bucket: Buckets, receipt: Drafts, agent: Agents, day: Days, link: Links]
Chains ==
  [active: BOOLEAN, id: 0 .. Count, depth: 0 .. 3, parent: 0 .. Count,
   agent: Agents \cup {"none"}]

Ids(pass) == IdsOf(PolicyOf(pass))
Decisions(pass) == [value: {"allow", "escalate", "deny"}, triggered: Seq(Ids(pass))]

\* Types, and how far generation and each evaluation have got.
Typed ==
  /\ scenario \in Scenarios
  /\ Count \in Nat /\ DOMAIN plan = 1 .. Count
  /\ stage \in Passes \cup {"generate", "failed", "written"}
  /\ rows \in Seq(Rows) /\ Len(rows) <= Count /\ (stage # "generate" => Len(rows) = Count)
  /\ chain \in Chains
  /\ per_day \in [Days -> Nat]
  /\ DOMAIN results = Passes
  /\ \A pass \in Passes : results[pass] \in Seq(Decisions(pass)) /\ Len(results[pass]) <= Count
  /\ diffs \subseteq DOMAIN rows

\* Evaluations that have not begun have decided nothing and totalled nothing.
Begun ==
  /\ stage = "generate" => results["decisions"] = << >> /\ per_day = [d \in Days |-> 0]
  /\ stage \in {"generate", "decisions"} => results["reproduced"] = << >>
  /\ stage \in {"generate", "decisions", "reproduced"} => results["simulated"] = << >>

\* Evaluations that are over have decided all receipts, and differences are those
\* of the first and the last.
Ended ==
  /\ stage \notin {"generate", "decisions"} => Len(results["decisions"]) = Count
  /\ stage = "written" =>
       /\ Len(results["simulated"]) = Count
       /\ diffs = {i \in DOMAIN rows : Differs(results["decisions"][i], results["simulated"][i])}

\* All receipts are linked, and an active chain has the newest one as its last.
ChainInv ==
  /\ \A i \in DOMAIN rows : Linked(i)
  /\ chain.active =>
       /\ rows # << >> /\ chain.depth >= 1 /\ chain.parent = Len(rows)
       /\ rows[Len(rows)].link.id = chain.id
       /\ rows[Len(rows)].link.depth = chain.depth - 1
       /\ rows[Len(rows)].link.agent = chain.agent

\* The totals are those of the receipts seen.
TotalInv == stage \in Passes => \A day \in Days : per_day[day] = Spent(day, Len(Now))

\* The rules' verdicts on the i-th receipt, as the corpus itself determines them.
Judged(pass, i) == Verdicts(PolicyOf(pass), rows[i], Spent(rows[i].day, i - 1))

\* Each decision is the one that the corpus determines.
DecidedInv ==
  \A pass \in Passes : \A i \in DOMAIN results[pass] :
    /\ "raises" \notin Range(Judged(pass, i))
    /\ results[pass][i] = Decision(PolicyOf(pass), Judged(pass, i))

CorpusInv == Typed /\ Begun /\ Ended /\ ChainInv /\ TotalInv /\ DecidedInv

-----------------------------------------------------------------------------

\* The scenario and the plan determine what can be drawn.
LEMMA Fixed ==
  ASSUME UNCHANGED <<scenario, plan>>
  PROVE  /\ Count' = Count /\ Days' = Days /\ Buckets' = Buckets
         /\ Rows' = Rows /\ Chains' = Chains /\ Links' = Links
BY DEF Count, Days, Buckets, Rows, Chains, Links, Drafts, Draws, AmountsOf, UrlsOf, CommitmentsOf,
       ToolsOf, PostStatesOf

\* The corpus program starts with the invariant.
LEMMA CorpusStart == Init => CorpusInv
<1>. SUFFICES ASSUME Init PROVE CorpusInv
  OBVIOUS
<1>. USE DEF Init
<1>1. scenario.count \in Nat
  BY CorpusAssumption
<1>2. DOMAIN plan = 1 .. scenario.count
  BY DEF Plan
<1>3. Count = scenario.count
  <2>1. \E f : plan = [k \in 1 .. scenario.count |-> f[k]]
    <3>1. plan = [k \in 1 .. scenario.count |-> plan[k]]
      BY DEF Plan
    <3>. QED BY <3>1
  <2>. QED BY <1>1, <2>1 DEF Count
<1>4. Typed
  <2>1. rows \in Seq(Rows) /\ Len(rows) = 0
    OBVIOUS
  <2>2. chain \in Chains
    BY <1>1, <1>3 DEF NoChain, Chains
  <2>3. stage = "generate" /\ diffs \subseteq DOMAIN rows /\ per_day \in [Days -> Nat]
    OBVIOUS
  <2>4. \A pass \in Passes : results[pass] \in Seq(Decisions(pass)) /\ Len(results[pass]) = 0
    OBVIOUS
  <2>. QED BY <1>1, <1>2, <1>3, <2>1, <2>2, <2>3, <2>4 DEF Typed
<1>5. Begun /\ Ended /\ ChainInv
  BY DEF Begun, Ended, ChainInv, Passes, NoChain
<1>6. TotalInv /\ DecidedInv
  BY DEF TotalInv, DecidedInv, Passes
<1>. QED BY <1>4, <1>5, <1>6 DEF CorpusInv

\* A receipt of the allow bucket goes on with a chain or starts one.
LEMMA LinksOn ==
  ASSUME Typed, Begun, ChainInv, Len(rows) < Count, NEW agent \in Agents
  PROVE  /\ LinkOf(agent) \in Links
         /\ ChainAfter(LinkOf(agent)) \in Chains
         /\ \/ /\ LinkOf(agent).parent = 0 /\ LinkOf(agent).depth = 0
               /\ LinkOf(agent).id = Len(rows) + 1 /\ LinkOf(agent).agent = agent
            \/ /\ rows # << >> /\ LinkOf(agent).parent = Len(rows)
               /\ rows[Len(rows)].link.id = LinkOf(agent).id
               /\ rows[Len(rows)].link.depth = LinkOf(agent).depth - 1
               /\ rows[Len(rows)].link.agent = LinkOf(agent).agent
<1>1. Len(rows) \in Nat /\ Count \in Nat /\ chain \in Chains
  BY DEF Typed
<1>2. CASE chain.active /\ chain.depth < 3
  <2>1. LinkOf(agent) = [id |-> chain.id, depth |-> chain.depth, parent |-> chain.parent,
                         agent |-> chain.agent]
    BY <1>2 DEF LinkOf
  <2>2. chain.depth \in 0 .. 2 /\ chain.id \in 0 .. Count /\ chain.parent \in 0 .. Count
        /\ chain.agent \in Agents \cup {"none"}
    BY <1>1, <1>2 DEF Chains
  <2>. QED BY <1>1, <1>2, <2>1, <2>2 DEF ChainInv, ChainAfter, Links, Chains
<1>3. CASE ~ (chain.active /\ chain.depth < 3)
  <2>1. LinkOf(agent) = [id |-> Len(rows) + 1, depth |-> 0, parent |-> 0, agent |-> agent]
    BY <1>3 DEF LinkOf
  <2>. QED BY <1>1, <2>1 DEF ChainAfter, Links, Chains
<1>. QED BY <1>2, <1>3

\* What is spent on a day, one receipt at a time.
LEMMA SpentGrows ==
  ASSUME Typed, NEW day
  PROVE  /\ Spent(day, 0) = 0
         /\ \A n \in 1 .. Len(rows) :
              Spent(day, n)
                = Spent(day, n - 1) + IF rows[n].day = day THEN Amount(rows[n].receipt) ELSE 0
         /\ \A n \in 0 .. Len(rows) : Spent(day, n) \in Nat
<1>. DEFINE amounts == [i \in DOMAIN rows |->
                          IF rows[i].day = day THEN Amount(rows[i].receipt) ELSE 0]
<1>1. rows \in Seq(Rows) /\ scenario \in Scenarios
  BY DEF Typed
<1>2. ASSUME NEW i \in DOMAIN rows PROVE Amount(rows[i].receipt) \in Nat
  <2>1. rows[i] \in Rows
    BY <1>1
  <2>2. PICK b : rows[i].receipt \in Draws(b)
    BY <2>1 DEF Rows, Drafts
  <2>. QED BY <1>1, <2>2, Drawn
<1>3. /\ amounts \in Seq(Nat) /\ Len(amounts) = Len(rows)
      /\ \A n \in 1 .. Len(rows) :
           amounts[n] = IF rows[n].day = day THEN Amount(rows[n].receipt) ELSE 0
  BY <1>1, <1>2
<1>4. \A n : Spent(day, n) = Total(amounts, n)
  BY DEF Spent
<1>. HIDE DEF amounts
<1>. QED BY <1>3, <1>4, Totals

\* A receipt more keeps it: the chain goes on from the newest receipt.
LEMMA GenerateKeeps == CorpusInv /\ Generate => CorpusInv'
<1>. SUFFICES ASSUME CorpusInv, Generate PROVE CorpusInv'
  OBVIOUS
<1>1. /\ stage = "generate" /\ Len(rows) < Count
      /\ UNCHANGED <<scenario, plan, stage, per_day, results, diffs>>
  BY DEF Generate
<1>2. /\ Count' = Count /\ Days' = Days /\ Rows' = Rows /\ Chains' = Chains /\ Links' = Links
  BY <1>1, Fixed
<1>. PICK n \in Nat : n = Len(rows) + 1
  BY DEF CorpusInv, Typed
<1>3. /\ rows \in Seq(Rows) /\ n \in DOMAIN plan /\ Count \in Nat /\ chain \in Chains
      /\ n <= Count /\ Len(rows) = n - 1
  BY <1>1 DEF CorpusInv, Typed
<1>4. PICK receipt \in Draws(plan[n].bucket), agent \in Agents, member \in BOOLEAN, link \in Links :
        /\ link = IF member THEN LinkOf(agent) ELSE Unlinked
        /\ rows' = Append(rows, [bucket |-> plan[n].bucket, receipt |-> receipt, agent |-> agent,
                                 day |-> plan[n].day, link |-> link])
        /\ chain' = IF member THEN ChainAfter(link) ELSE [chain EXCEPT !.active = FALSE]
  <2>1. Unlinked \in Links
    BY <1>3 DEF Unlinked, Links
  <2>2. \A agent \in Agents : LinkOf(agent) \in Links
    BY <1>1, LinksOn DEF CorpusInv
  <2>. QED BY <2>1, <2>2 DEF Generate
<1>. DEFINE row == [bucket |-> plan[n].bucket, receipt |-> receipt, agent |-> agent,
                    day |-> plan[n].day, link |-> link]
<1>5. row \in Rows /\ row.link = link /\ row.agent = agent
  BY <1>3 DEF Rows, Buckets, Drafts, Days
<1>. HIDE DEF row
<1>6. /\ rows' \in Seq(Rows) /\ Len(rows') = n /\ rows'[n] = row /\ DOMAIN rows' = 1 .. n
      /\ \A i \in 1 .. n - 1 : rows'[i] = rows[i]
      /\ DOMAIN rows = 1 .. n - 1
  BY <1>3, <1>4, <1>5 DEF row
<1>7. chain' \in Chains
  <2>1. [chain EXCEPT !.active = FALSE] \in Chains
    BY <1>3 DEF Chains
  <2>. QED BY <1>1, <1>4, <2>1, LinksOn DEF CorpusInv
<1>8. Typed'
  BY <1>1, <1>2, <1>3, <1>6, <1>7 DEF CorpusInv, Typed
<1>9. Begun'
  BY <1>1, <1>2 DEF CorpusInv, Begun
<1>10. ChainInv'
  <2>1. ASSUME NEW i \in 1 .. n - 1 PROVE Linked(i)'
    <3>1. Linked(i)
      BY <1>6, <2>1 DEF CorpusInv, ChainInv
    <3>2. rows'[i] = rows[i]
      BY <1>6
    <3>3. CASE rows[i].link.parent = 0
      BY <3>1, <3>2, <3>3 DEF Linked
    <3>4. CASE rows[i].link.parent # 0 /\ rows[i].link # Unlinked
      <4>1. rows[i].link.parent = i - 1
        BY <3>1, <3>4 DEF Linked
      <4>2. i - 1 \in 1 .. n - 1
        BY <3>4, <4>1
      <4>. QED BY <1>6, <3>1, <3>2, <4>2 DEF Linked
    <3>5. CASE rows[i].link = Unlinked
      BY <3>2, <3>5 DEF Linked
    <3>. QED BY <3>3, <3>4, <3>5
  <2>2. CASE member
    <3>1. \/ /\ link.parent = 0 /\ link.depth = 0 /\ link.id = n /\ link.agent = agent
          \/ /\ rows # << >> /\ link.parent = n - 1
             /\ rows[n - 1].link.id = link.id
             /\ rows[n - 1].link.depth = link.depth - 1
             /\ rows[n - 1].link.agent = link.agent
      BY <1>1, <1>3, <1>4, <2>2, LinksOn DEF CorpusInv
    <3>2. Linked(n)'
      <4>1. rows # << >> => n - 1 \in 1 .. n - 1 /\ rows'[n - 1] = rows[n - 1]
        BY <1>3, <1>6
      <4>2. rows # << >> => n - 1 # 0
        BY <4>1
      <4>. QED BY <1>5, <1>6, <3>1, <4>1, <4>2 DEF Linked
    <3>3. chain' = ChainAfter(link) /\ link \in Links /\ ChainAfter(link).parent = n
      BY <1>3, <1>4, <2>2 DEF ChainAfter
    <3>4. /\ chain'.depth >= 1 /\ chain'.parent = n /\ rows' # << >>
          /\ link.id = chain'.id /\ link.depth = chain'.depth - 1 /\ link.agent = chain'.agent
      BY <1>6, <3>3 DEF ChainAfter, Links
    <3>. QED BY <1>5, <1>6, <2>1, <3>2, <3>4 DEF ChainInv
  <2>3. CASE ~ member
    <3>1. Linked(n)'
      BY <1>4, <1>5, <1>6, <2>3 DEF Linked
    <3>2. ~ chain'.active
      BY <1>3, <1>4, <2>3 DEF Chains
    <3>. QED BY <1>6, <2>1, <3>1, <3>2 DEF ChainInv
  <2>. QED BY <2>2, <2>3
<1>11. Ended' /\ TotalInv'
  BY <1>1 DEF Ended, TotalInv, Passes
<1>12. DecidedInv'
  BY <1>1 DEF CorpusInv, Begun, DecidedInv, Passes
<1>. QED BY <1>8, <1>9, <1>10, <1>11, <1>12 DEF CorpusInv

\* The first evaluation begins with nothing decided and nothing totalled.
LEMMA GeneratedKeeps == CorpusInv /\ Generated => CorpusInv'
<1>. SUFFICES ASSUME CorpusInv, Generated PROVE CorpusInv'
  OBVIOUS
<1>1. /\ stage = "generate" /\ stage' = "decisions" /\ Len(rows) = Count
      /\ UNCHANGED <<scenario, plan, rows, chain, per_day, results, diffs>>
  BY DEF Generated
<1>2. /\ Count' = Count /\ Days' = Days /\ Rows' = Rows /\ Chains' = Chains
  BY <1>1, Fixed
<1>3. Typed'
  BY <1>1, <1>2 DEF CorpusInv, Typed, Passes
<1>4. Begun'
  BY <1>1, <1>2 DEF CorpusInv, Begun
<1>5. ChainInv'
  BY <1>1 DEF CorpusInv, ChainInv, Linked
<1>6. Now' = << >>
  BY <1>1 DEF CorpusInv, Begun, Now
<1>7. ASSUME NEW day \in Days PROVE per_day'[day] = Spent(day, 0)'
  <2>1. per_day[day] = 0
    BY <1>1, <1>7 DEF CorpusInv, Begun
  <2>2. Spent(day, 0) = 0 /\ Spent(day, 0)' = Spent(day, 0)
    BY <1>1, SpentGrows DEF CorpusInv, Spent
  <2>. QED BY <1>1, <2>1, <2>2
<1>8. Ended' /\ TotalInv'
  BY <1>1, <1>2, <1>6, <1>7 DEF Ended, TotalInv
<1>9. DecidedInv'
  BY <1>1 DEF CorpusInv, Begun, DecidedInv, Passes
<1>. QED BY <1>3, <1>4, <1>5, <1>8, <1>9 DEF CorpusInv

\* Both policies are well-formed and have a limit.
LEMMA PolicyTyped ==
  ASSUME NEW pass
  PROVE  WellFormed(PolicyOf(pass)) /\ HasLimit(PolicyOf(pass))
BY CorpusAssumption DEF PolicyOf

\* The limit fires on a receipt that brings the total over the threshold.
LEMMA LimitFires ==
  ASSUME NEW policy, WellFormed(policy), HasLimit(policy), NEW row, NEW total \in Nat,
         "raises" \notin Range(Verdicts(policy, row, total))
  PROVE  DailyLimit(policy).id \in Fired(Decision(policy, Verdicts(policy, row, total)))
           <=> total + Amount(row.receipt) > DailyLimit(policy).parameters.threshold
<1>1. PICK p \in DOMAIN policy : DailyLimit(policy) = policy[p] /\ policy[p].type = "daily_limit"
  BY LimitIsRule
<1>. DEFINE verdicts == Verdicts(policy, row, total)
            limit == policy[p]
<1>2. /\ p \in DOMAIN verdicts
      /\ verdicts[p] = RuleVerdict(limit, row.receipt, Snapshot(policy, total))
  BY DEF Verdicts
<1>3. limit.id \in Fired(Decision(policy, verdicts)) <=> verdicts[p] = "fires"
  <2>1. Fired(Decision(policy, verdicts)) = FiringIds(policy, verdicts)
    BY DecisionNames
  <2>2. \A i \in DOMAIN policy : policy[i].id = limit.id => i = p
    BY DEF WellFormed
  <2>. HIDE DEF verdicts
  <2>. QED BY <2>1, <2>2 DEF FiringIds
<1>4. verdicts[p] # "raises"
  BY <1>2 DEF Range
<1>5. DailyTotal(limit, row.receipt, Snapshot(policy, total)) = total + Amount(row.receipt)
  BY <1>1 DEF DailyTotal, Snapshot, Get
<1>6. verdicts[p] = "fires" <=> Fires(limit, row.receipt, Snapshot(policy, total))
  <2>. HIDE DEF verdicts
  <2>. QED BY <1>2, <1>4 DEF RuleVerdict
<1>7. Fires(limit, row.receipt, Snapshot(policy, total))
        <=> total + Amount(row.receipt) > limit.parameters.threshold
  BY <1>1, <1>5 DEF Fires
<1>. QED BY <1>1, <1>3, <1>6, <1>7

\* An evaluated receipt is decided by the total before it and added to the total.
LEMMA EvaluateKeeps == CorpusInv /\ Evaluate => CorpusInv'
<1>. SUFFICES ASSUME CorpusInv, Evaluate PROVE CorpusInv'
  OBVIOUS
<1>1. /\ stage \in Passes /\ Len(results[stage]) < Count
      /\ UNCHANGED <<scenario, plan, rows, chain, stage, diffs>>
  BY DEF Evaluate
<1>2. /\ Count' = Count /\ Days' = Days /\ Rows' = Rows /\ Chains' = Chains
  BY <1>1, Fixed
<1>3. /\ results[stage] \in Seq(Decisions(stage)) /\ rows \in Seq(Rows) /\ Len(rows) = Count
      /\ Count \in Nat /\ per_day \in [Days -> Nat] /\ scenario \in Scenarios
      /\ DOMAIN results = Passes
  BY <1>1 DEF CorpusInv, Typed, Passes
<1>. PICK m \in 1 .. Count : m = Len(results[stage]) + 1
  BY <1>1, <1>3
<1>. PICK row, policy, verdicts, decision :
       /\ row \in Rows /\ row = rows[m] /\ policy = PolicyOf(stage)
       /\ verdicts = Verdicts(policy, row, per_day[row.day])
       /\ decision = Decision(policy, verdicts)
  BY <1>3
<1>4. /\ "raises" \notin Range(verdicts)
      /\ results' = [results EXCEPT ![stage] = Append(@, decision)]
      /\ per_day' = [per_day EXCEPT ![row.day] = TotalAfter(row)]
  BY DEF Evaluate
<1>5. WellFormed(policy)
  BY PolicyTyped
<1>6. /\ row.day \in Days /\ Amount(row.receipt) \in Nat
      /\ row.receipt["amount_charged"] = Amount(row.receipt)
  <2>1. PICK b : row.receipt \in Draws(b)
    BY DEF Rows, Drafts
  <2>. QED BY <1>3, <2>1, Drawn DEF Rows
<1>7. decision \in Decisions(stage)
  <2>1. /\ decision = [value |-> decision.value, triggered |-> decision.triggered]
        /\ decision.value \in {"allow", "escalate", "deny"}
        /\ decision.triggered \in Seq(Ids(stage))
    <3>1. /\ Decision(policy, verdicts).value \in {"allow", "escalate", "deny"}
          /\ Decision(policy, verdicts).triggered \in Seq(IdsOf(policy))
          /\ Decision(policy, verdicts)
               = [value |-> Decision(policy, verdicts).value,
                  triggered |-> Decision(policy, verdicts).triggered]
      BY <1>5, DecisionNames
    <3>2. Ids(stage) = IdsOf(policy)
      BY DEF Ids
    <3>. QED BY <3>1, <3>2
  <2>. QED BY <2>1 DEF Decisions
<1>. DEFINE now == Append(results[stage], decision)
<1>8. /\ now \in Seq(Decisions(stage)) /\ Len(now) = m /\ now[m] = decision
      /\ \A i \in 1 .. m - 1 : now[i] = results[stage][i]
      /\ DOMAIN now = 1 .. m /\ DOMAIN results[stage] = 1 .. m - 1
  BY <1>3, <1>7
<1>9. results' = [results EXCEPT ![stage] = now] /\ Now' = now
  BY <1>1, <1>3, <1>4 DEF Now
<1>. HIDE DEF now
<1>10. Typed'
  <2>1. per_day' \in [Days -> Nat]
    BY <1>3, <1>4, <1>6 DEF TotalAfter
  <2>2. DOMAIN results' = Passes
    BY <1>3, <1>9
  <2>3. ASSUME NEW pass \in Passes
        PROVE  results'[pass] \in Seq(Decisions(pass)) /\ Len(results'[pass]) <= Count
    <3>1. results'[pass] = IF pass = stage THEN now ELSE results[pass]
      BY <1>3, <1>9
    <3>. QED BY <1>8, <3>1 DEF CorpusInv, Typed
  <2>. QED BY <1>1, <1>2, <2>1, <2>2, <2>3 DEF CorpusInv, Typed, Decisions, Ids, PolicyOf
<1>11. Begun' /\ Ended'
  BY <1>1, <1>3, <1>9, <1>2 DEF CorpusInv, Begun, Ended, Passes
<1>12. ChainInv'
  BY <1>1 DEF CorpusInv, ChainInv, Linked
<1>13. \A day, n : Spent(day, n)' = Spent(day, n)
  BY <1>1 DEF Spent
<1>14. \A day : Spent(day, m) = Spent(day, m - 1) + IF row.day = day THEN Amount(row.receipt) ELSE 0
  BY <1>3, SpentGrows DEF CorpusInv
<1>15. \A day \in Days : per_day[day] = Spent(day, m - 1) /\ Spent(day, m - 1) \in Nat
  BY <1>1, <1>3, <1>8, SpentGrows DEF CorpusInv, TotalInv, Now
<1>16. TotalInv'
  <2>1. ASSUME NEW day \in Days PROVE per_day'[day] = Spent(day, m)
    <3>1. per_day'[day] = IF day = row.day THEN per_day[day] + Amount(row.receipt) ELSE per_day[day]
      BY <1>3, <1>4, <1>6 DEF TotalAfter
    <3>. QED BY <1>6, <1>14, <1>15, <3>1
  <2>. QED BY <1>2, <1>8, <1>9, <1>13, <2>1 DEF TotalInv
<1>17. DecidedInv'
  <2>1. \A pass, i : Judged(pass, i)' = Judged(pass, i)
    BY <1>1, <1>13 DEF Judged, PolicyOf, Verdicts
  <2>2. verdicts = Judged(stage, m)
    BY <1>6, <1>15 DEF Judged
  <2>3. ASSUME NEW pass \in Passes, NEW i \in DOMAIN results'[pass]
        PROVE  /\ "raises" \notin Range(Judged(pass, i))
               /\ results'[pass][i] = Decision(PolicyOf(pass), Judged(pass, i))
    <3>1. CASE pass = stage /\ i = m
      BY <1>3, <1>4, <1>8, <1>9, <2>2, <3>1
    <3>2. CASE pass = stage /\ i # m
      <4>1. i \in DOMAIN results[stage] /\ results'[stage][i] = results[stage][i]
        BY <1>3, <1>8, <1>9, <3>2
      <4>. QED BY <3>2, <4>1 DEF CorpusInv, DecidedInv
    <3>3. CASE pass # stage
      <4>1. results'[pass] = results[pass]
        BY <1>3, <1>9, <3>3
      <4>. QED BY <4>1 DEF CorpusInv, DecidedInv
    <3>. QED BY <3>1, <3>2, <3>3
  <2>. QED BY <2>1, <2>3 DEF DecidedInv, PolicyOf
<1>. QED BY <1>10, <1>11, <1>12, <1>16, <1>17 DEF CorpusInv

\* The end of an evaluation keeps its decisions and forgets the totals.
LEMMA EvaluatedKeeps == CorpusInv /\ Evaluated => CorpusInv'
<1>. SUFFICES ASSUME CorpusInv, Evaluated PROVE CorpusInv'
  OBVIOUS
<1>1. /\ stage \in Passes /\ Len(results[stage]) = Count
      /\ stage' \in Passes \cup {"failed", "written"}
      /\ stage = "decisions" => stage' = "reproduced"
      /\ stage = "reproduced" => stage' \in {"simulated", "failed"}
      /\ stage = "simulated" => stage' = "written"
      /\ per_day' = [d \in Days |-> 0]
      /\ diffs' \subseteq diffs \cup DOMAIN rows
      /\ stage = "simulated" =>
           diffs' = {i \in DOMAIN rows : Differs(results["decisions"][i], results["simulated"][i])}
      /\ UNCHANGED <<scenario, plan, rows, chain, results>>
  BY DEF Evaluated, Passes
<1>2. /\ Count' = Count /\ Days' = Days /\ Rows' = Rows /\ Chains' = Chains
  BY <1>1, Fixed
<1>3. Typed'
  <2>1. per_day' \in [Days -> Nat]
    BY <1>1
  <2>. QED BY <1>1, <1>2, <2>1 DEF CorpusInv, Typed, Passes, Decisions, Ids, PolicyOf
<1>4. Begun' /\ (stage' \in Passes => Now' = << >>)
  BY <1>1 DEF CorpusInv, Begun, Passes, Now
<1>5. ChainInv'
  BY <1>1 DEF CorpusInv, ChainInv, Linked
<1>6. ASSUME NEW day \in Days PROVE per_day'[day] = Spent(day, 0)'
  <2>1. Spent(day, 0) = 0 /\ Spent(day, 0)' = Spent(day, 0)
    BY <1>1, SpentGrows DEF CorpusInv, Spent
  <2>. QED BY <1>1, <2>1
<1>7. Ended'
  BY <1>1, <1>2 DEF CorpusInv, Ended, Passes
<1>8. TotalInv'
  BY <1>2, <1>4, <1>6 DEF TotalInv
<1>9. DecidedInv'
  <2>1. \A day, n : Spent(day, n)' = Spent(day, n)
    BY <1>1 DEF Spent
  <2>2. \A pass, i : Judged(pass, i)' = Judged(pass, i)
    BY <1>1, <2>1 DEF Judged, PolicyOf, Verdicts
  <2>. QED BY <1>1, <2>2 DEF CorpusInv, DecidedInv, PolicyOf
<1>. QED BY <1>3, <1>4, <1>5, <1>7, <1>8, <1>9 DEF CorpusInv

\* The corpus program keeps the invariant.
LEMMA CorpusInvariant == Spec => []CorpusInv
<1>1. CorpusInv /\ UNCHANGED vars => CorpusInv'
  <2>. SUFFICES ASSUME CorpusInv, UNCHANGED vars PROVE CorpusInv'
    OBVIOUS
  <2>1. UNCHANGED <<scenario, plan, rows, chain, stage, per_day, results, diffs>>
    BY DEF vars
  <2>2. Typed' /\ Begun' /\ Ended' /\ ChainInv'
    BY <2>1, Fixed
       DEF CorpusInv, Typed, Begun, Ended, ChainInv, Linked, Decisions, Ids, PolicyOf, Days
  <2>3. TotalInv' /\ DecidedInv'
    BY <2>1, Fixed DEF CorpusInv, TotalInv, DecidedInv, Judged, Now, Spent, PolicyOf, Verdicts
  <2>. QED BY <2>2, <2>3 DEF CorpusInv
<1>2. CorpusInv /\ [Next]_vars => CorpusInv'
  BY <1>1, GenerateKeeps, GeneratedKeeps, EvaluateKeeps, EvaluatedKeeps DEF Next
<1>. QED BY <1>2, CorpusStart, PTL DEF Spec

-----------------------------------------------------------------------------
(* The properties of the corpus program.                                   *)

\* Every variable of the corpus program keeps its type.
THEOREM CorpusTypeCorrect == Spec => []TypeOK
<1>1. CorpusInv => TypeOK
  <2>. SUFFICES ASSUME CorpusInv PROVE TypeOK
    OBVIOUS
  <2>1. Typed
    BY DEF CorpusInv
  <2>2. ASSUME NEW i \in DOMAIN rows
        PROVE  rows[i].agent \in Agents /\ rows[i].day \in Days /\ rows[i].link \in Links
    <3>1. rows[i] \in Rows
      BY <2>1 DEF Typed
    <3>. QED BY <3>1 DEF Rows
  <2>3. ASSUME NEW pass \in Passes, NEW i \in DOMAIN results[pass]
        PROVE  /\ results[pass][i].value \in {"allow", "escalate", "deny"}
               /\ Fired(results[pass][i])
                    \subseteq {PolicyOf(pass)[j].id : j \in DOMAIN PolicyOf(pass)}
    <3>1. results[pass][i] \in Decisions(pass)
      BY <2>1 DEF Typed
    <3>2. results[pass][i].triggered \in Seq(Ids(pass))
      BY <3>1 DEF Decisions
    <3>3. Range(results[pass][i].triggered) \subseteq Ids(pass)
      BY <3>2 DEF Range
    <3>. QED BY <3>1, <3>3 DEF Decisions, Fired, Ids, IdsOf
  <2>. QED BY <2>1, <2>2, <2>3 DEF Typed, TypeOK, Chains
<1>. QED BY <1>1, CorpusInvariant, PTL

\* Whatever is drawn for whichever scenario, chains of receipts are linked.
THEOREM ChainsLinked == Spec => []ChainsAreLinked
<1>1. CorpusInv => ChainsAreLinked
  BY DEF CorpusInv, ChainInv, ChainsAreLinked
<1>. QED BY <1>1, CorpusInvariant, PTL

\* In each evaluation of any corpus, the daily limit fires on the receipts that
\* bring the total of their day over its threshold.
THEOREM LimitFollowsTotal == Spec => []LimitFiresOnTotal
<1>1. CorpusInv => LimitFiresOnTotal
  <2>. SUFFICES ASSUME CorpusInv, stage \in Passes, NEW i \in DOMAIN Now
                PROVE  Limit.id \in Fired(Now[i])
                         <=> Spent(rows[i].day, i) > Limit.parameters.threshold
    BY DEF LimitFiresOnTotal
  <2>. DEFINE policy == PolicyOf(stage)
  <2>1. WellFormed(policy) /\ HasLimit(policy)
    BY PolicyTyped
  <2>2. /\ Now[i] = Decision(policy, Verdicts(policy, rows[i], Spent(rows[i].day, i - 1)))
        /\ "raises" \notin Range(Verdicts(policy, rows[i], Spent(rows[i].day, i - 1)))
    BY DEF CorpusInv, DecidedInv, Judged, Now
  <2>3. i \in 1 .. Len(rows) /\ Len(rows) \in Nat /\ i - 1 \in 0 .. Len(rows)
    BY DEF CorpusInv, Typed, Now, Passes
  <2>4. /\ Spent(rows[i].day, i) = Spent(rows[i].day, i - 1) + Amount(rows[i].receipt)
        /\ Spent(rows[i].day, i - 1) \in Nat
    BY <2>3, SpentGrows DEF CorpusInv
  <2>. HIDE DEF policy
  <2>5. Limit = DailyLimit(policy)
    BY DEF Limit, policy
  <2>. QED BY <2>1, <2>2, <2>4, <2>5, LimitFires
<1>. QED BY <1>1, CorpusInvariant, PTL

\* What is decided again is decided as it was.
Reproducible ==
  \A i \in DOMAIN results["reproduced"] : results["reproduced"][i] = results["decisions"][i]

\* The second evaluation of a corpus decides as the first: validate_corpus never
\* finds a decision that is not reproduced.
THEOREM EvaluationReproducible == Spec => []Reproducible
<1>1. CorpusInv => Reproducible
  <2>. SUFFICES ASSUME CorpusInv, NEW i \in DOMAIN results["reproduced"]
                PROVE  results["reproduced"][i] = results["decisions"][i]
    BY DEF Reproducible
  <2>1. stage \notin {"generate", "decisions"}
    BY DEF CorpusInv, Begun
  <2>2. i \in DOMAIN results["decisions"]
    <3>1. /\ results["decisions"] \in Seq(Decisions("decisions"))
          /\ results["reproduced"] \in Seq(Decisions("reproduced"))
          /\ Len(results["reproduced"]) <= Count /\ Count \in Nat
      BY DEF CorpusInv, Typed, Passes
    <3>2. Len(results["decisions"]) = Count
      BY <2>1 DEF CorpusInv, Ended
    <3>. QED BY <3>1, <3>2
  <2>3. Judged("reproduced", i) = Judged("decisions", i)
        /\ PolicyOf("reproduced") = PolicyOf("decisions")
    BY DEF Judged, PolicyOf
  <2>. QED BY <2>2, <2>3 DEF CorpusInv, DecidedInv, Passes
<1>. QED BY <1>1, CorpusInvariant, PTL

-----------------------------------------------------------------------------
(* What the change of policies changes.                                    *)

\* An id is among those of the rules that fire if its rule does.
LEMMA FiresById ==
  ASSUME NEW policy, WellFormed(policy), NEW verdicts, NEW k \in DOMAIN policy
  PROVE  policy[k].id \in FiringIds(policy, verdicts) <=> verdicts[k] = "fires"
<1>1. \A i \in DOMAIN policy : policy[i].id = policy[k].id => i = k
  BY DEF WellFormed
<1>. QED BY <1>1 DEF FiringIds

\* The rules that fire determine the decision.
LEMMA SameDecision ==
  ASSUME SameButParameters, NEW v1, NEW v2,
         FiringIds(PolicyV1, v1) = FiringIds(PolicyV2, v2)
  PROVE  Decision(PolicyV1, v1) = Decision(PolicyV2, v2)
<1>. DEFINE firing1 == {i \in DOMAIN PolicyV1 : v1[i] = "fires"}
            firing2 == {i \in DOMAIN PolicyV2 : v2[i] = "fires"}
<1>1. /\ DOMAIN PolicyV1 = DOMAIN PolicyV2
      /\ \A k \in DOMAIN PolicyV1 :
           PolicyV1[k].id = PolicyV2[k].id /\ PolicyV1[k].outcome = PolicyV2[k].outcome
  BY DEF SameButParameters
<1>2. /\ DOMAIN PolicyV1 = 1 .. Len(PolicyV1) /\ Len(PolicyV1) \in Nat
      /\ DOMAIN PolicyV2 = 1 .. Len(PolicyV2) /\ Len(PolicyV2) \in Nat
      /\ \A i, j \in DOMAIN PolicyV1 : PolicyV1[i].id = PolicyV1[j].id => i = j
      /\ \A i, j \in DOMAIN PolicyV2 : PolicyV2[i].id = PolicyV2[j].id => i = j
  BY CorpusAssumption DEF WellFormed
<1>3. firing1 = firing2
  <2>1. WellFormed(PolicyV1) /\ WellFormed(PolicyV2)
    BY CorpusAssumption
  <2>2. ASSUME NEW k \in DOMAIN PolicyV1 PROVE v1[k] = "fires" <=> v2[k] = "fires"
    <3>1. PolicyV1[k].id \in FiringIds(PolicyV1, v1) <=> v1[k] = "fires"
      BY <2>1, FiresById
    <3>2. PolicyV2[k].id \in FiringIds(PolicyV2, v2) <=> v2[k] = "fires"
      BY <1>1, <2>1, FiresById
    <3>. QED BY <1>1, <3>1, <3>2
  <2>. QED BY <1>1, <2>2
<1>4. Len(PolicyV1) = Len(PolicyV2)
  <2>1. ASSUME NEW m \in Nat, NEW n \in Nat, 1 .. m = 1 .. n PROVE m = n
    <3>1. (m # 0 => m \in 1 .. n) /\ (n # 0 => n \in 1 .. m)
      BY <2>1
    <3>. QED BY <3>1
  <2>. QED BY <1>1, <1>2, <2>1
<1>5. firing1 \subseteq 1 .. Len(PolicyV1)
  BY <1>2
<1>6. {PolicyV1[i].outcome : i \in firing1} = {PolicyV2[i].outcome : i \in firing2}
  BY <1>1, <1>3
<1>. HIDE DEF firing1, firing2
<1>. DEFINE fired == Listed(firing1, Len(PolicyV1))
<1>7. fired \in Seq(1 .. Len(PolicyV1))
  BY <1>2, <1>5, ListsPositions
<1>. HIDE DEF fired
<1>8. [k \in DOMAIN fired |-> PolicyV1[fired[k]].id]
        = [k \in DOMAIN fired |-> PolicyV2[fired[k]].id]
  <2>1. \A k \in DOMAIN fired : fired[k] \in DOMAIN PolicyV1
    BY <1>2, <1>7
  <2>. QED BY <1>1, <2>1
<1>9. fired = Listed(firing2, Len(PolicyV2))
  BY <1>3, <1>4 DEF fired
<1>. QED BY <1>6, <1>8, <1>9 DEF Decision, fired, firing1, firing2

\* A rule that both policies have comes to the same under both.
LEMMA SameVerdict ==
  ASSUME SameButParameters, NEW row, NEW total,
         NEW k \in DOMAIN PolicyV1, PolicyV1[k] = PolicyV2[k]
  PROVE  Verdicts(PolicyV1, row, total)[k] = Verdicts(PolicyV2, row, total)[k]
<1>. DEFINE S(policy) == {i \in DOMAIN policy : policy[i].type = "daily_limit"}
<1>1. /\ DOMAIN PolicyV1 = DOMAIN PolicyV2
      /\ \A i \in DOMAIN PolicyV1 :
           PolicyV1[i].id = PolicyV2[i].id /\ PolicyV1[i].type = PolicyV2[i].type
  BY DEF SameButParameters
<1>2. S(PolicyV1) = S(PolicyV2)
  BY <1>1
<1>3. S(PolicyV1) # {} /\ S(PolicyV1) \subseteq Nat /\ S(PolicyV1) \subseteq DOMAIN PolicyV1
  BY CorpusAssumption DEF HasLimit, WellFormed
<1>4. DailyLimit(PolicyV1) = PolicyV1[Min(S(PolicyV1))]
      /\ DailyLimit(PolicyV2) = PolicyV2[Min(S(PolicyV2))]
  BY DEF DailyLimit
<1>. HIDE DEF S
<1>5. Min(S(PolicyV1)) \in DOMAIN PolicyV1
  BY <1>3, Least
<1>6. DailyLimit(PolicyV1).id = DailyLimit(PolicyV2).id
  BY <1>1, <1>2, <1>4, <1>5
<1>7. Snapshot(PolicyV1, total) = Snapshot(PolicyV2, total)
  BY <1>6 DEF Snapshot
<1>. QED BY <1>1, <1>7 DEF Verdicts

\* For any two policies whose rules differ in their parameters only, as those of the
\* corpus do: a rule that both have fires on the same receipts, and the receipts
\* reported to differ are those on which a changed rule turns.
THEOREM SimulationExplained == ASSUME SameButParameters PROVE Spec => []DiffsExplained
<1>1. CorpusInv => DiffsExplained
  <2>. SUFFICES ASSUME CorpusInv, stage = "written", NEW i \in DOMAIN rows,
                       NEW fired1, NEW fired2,
                       fired1 = Fired(results["decisions"][i]),
                       fired2 = Fired(results["simulated"][i])
                PROVE  LET turned == (fired1 \ fired2) \cup (fired2 \ fired1)
                       IN  turned \subseteq Changed /\ (i \in diffs <=> turned # {})
    BY DEF DiffsExplained
  <2>. PICK v1, v2 :
         /\ v1 = Verdicts(PolicyV1, rows[i], Spent(rows[i].day, i - 1))
         /\ v2 = Verdicts(PolicyV2, rows[i], Spent(rows[i].day, i - 1))
    OBVIOUS
  <2>1. /\ results["decisions"][i] = Decision(PolicyV1, v1)
        /\ results["simulated"][i] = Decision(PolicyV2, v2)
    <3>1. i \in DOMAIN results["decisions"] /\ i \in DOMAIN results["simulated"]
      <4>1. /\ results["decisions"] \in Seq(Decisions("decisions"))
            /\ results["simulated"] \in Seq(Decisions("simulated"))
            /\ rows \in Seq(Rows) /\ Len(rows) = Count
        BY DEF CorpusInv, Typed, Passes
      <4>2. Len(results["decisions"]) = Count /\ Len(results["simulated"]) = Count
        BY DEF CorpusInv, Ended
      <4>. QED BY <4>1, <4>2
    <3>2. /\ results["decisions"][i] = Decision(PolicyOf("decisions"), Judged("decisions", i))
          /\ results["simulated"][i] = Decision(PolicyOf("simulated"), Judged("simulated", i))
      BY <3>1 DEF CorpusInv, DecidedInv, Passes
    <3>. QED BY <3>2 DEF Judged, PolicyOf
  <2>2. fired1 = FiringIds(PolicyV1, v1) /\ fired2 = FiringIds(PolicyV2, v2)
    BY <2>1, CorpusAssumption, DecisionNames
  <2>3. i \in diffs <=> Decision(PolicyV1, v1) # Decision(PolicyV2, v2)
    BY <2>1 DEF CorpusInv, Ended, Differs
  <2>4. i \in diffs <=> fired1 # fired2
    BY <2>1, <2>2, <2>3, SameDecision
  <2>5. /\ DOMAIN PolicyV1 = DOMAIN PolicyV2
        /\ \A k \in DOMAIN PolicyV1 : PolicyV1[k].id = PolicyV2[k].id
        /\ \A j, k \in DOMAIN PolicyV1 : PolicyV1[j].id = PolicyV1[k].id => j = k
    BY CorpusAssumption DEF SameButParameters, WellFormed
  <2>6. ASSUME NEW k \in DOMAIN PolicyV1, v1[k] = "fires" <=> v2[k] # "fires"
        PROVE  PolicyV1[k].id \in Changed
    <3>1. PolicyV1[k] # PolicyV2[k]
      BY <2>6, SameVerdict
    <3>2. PolicyV1[k] \in Range(PolicyV1) \ Range(PolicyV2)
      BY <2>5, <3>1 DEF Range
    <3>. QED BY <3>2 DEF Changed
  <2>7. ASSUME NEW id \in (fired1 \ fired2) \cup (fired2 \ fired1) PROVE id \in Changed
    <3>1. PICK k \in DOMAIN PolicyV1 : id = PolicyV1[k].id /\ id = PolicyV2[k].id
      BY <2>2, <2>5, <2>7 DEF FiringIds
    <3>2. PolicyV1[k].id \in FiringIds(PolicyV1, v1) <=> v1[k] = "fires"
      BY CorpusAssumption, FiresById
    <3>3. PolicyV2[k].id \in FiringIds(PolicyV2, v2) <=> v2[k] = "fires"
      BY <2>5, CorpusAssumption, FiresById
    <3>. QED BY <2>2, <2>6, <2>7, <3>1, <3>2, <3>3
  <2>. QED BY <2>4, <2>7
<1>. QED BY <1>1, CorpusInvariant, PTL

-----------------------------------------------------------------------------
(* What the buckets fire.                                                  *)

\* Each receipt is one that its bucket draws.
BucketsDrawn ==
  \A i \in DOMAIN rows :
    rows[i].bucket \in Range(BUCKET_ORDER) /\ rows[i].receipt \in Draws(rows[i].bucket)

\* What a bucket draws depends on the scenario only.
LEMMA DrawsFixed ==
  ASSUME UNCHANGED <<scenario, plan>>, NEW b
  PROVE  Draws(b)' = Draws(b)
BY DEF Draws, AmountsOf, UrlsOf, CommitmentsOf, ToolsOf, PostStatesOf

\* Every receipt generated is one that its bucket draws.
LEMMA BucketsDrawnAlways == Spec => []BucketsDrawn
<1>1. Init => BucketsDrawn
  BY DEF Init, BucketsDrawn
<1>2. CorpusInv /\ BucketsDrawn /\ [Next]_vars => BucketsDrawn'
  <2>. SUFFICES ASSUME CorpusInv, BucketsDrawn, [Next]_vars PROVE BucketsDrawn'
    OBVIOUS
  <2>1. CASE Generate
    <3>. PICK n \in Nat : n = Len(rows) + 1
      BY DEF CorpusInv, Typed
    <3>. DEFINE b == plan[n].bucket
    <3>1. PICK receipt, agent, link :
            /\ receipt \in Draws(b)
            /\ rows' = Append(rows, [bucket |-> b, receipt |-> receipt, agent |-> agent,
                                     day |-> plan[n].day, link |-> link])
      BY <2>1 DEF Generate
    <3>2. b \in Range(BUCKET_ORDER) /\ UNCHANGED <<scenario, plan>>
      BY <2>1 DEF Generate
    <3>3. rows \in Seq(Rows) /\ Len(rows) = n - 1
      BY DEF CorpusInv, Typed
    <3>. DEFINE row == [bucket |-> b, receipt |-> receipt, agent |-> agent,
                        day |-> plan[n].day, link |-> link]
    <3>4. row.bucket = b /\ row.receipt = receipt
      OBVIOUS
    <3>5. rows' = Append(rows, row)
      BY <3>1
    <3>. HIDE DEF row, b
    <3>6. ASSUME NEW i \in DOMAIN rows' PROVE rows'[i] \in {rows[j] : j \in DOMAIN rows} \cup {row}
      BY <3>3, <3>5, <3>6
    <3>7. ASSUME NEW i \in DOMAIN rows'
          PROVE  /\ rows'[i].bucket \in Range(BUCKET_ORDER)
                 /\ rows'[i].receipt \in Draws(rows'[i].bucket)
      BY <3>1, <3>2, <3>4, <3>6, <3>7 DEF BucketsDrawn
    <3>. QED BY <3>2, <3>7, DrawsFixed DEF BucketsDrawn
  <2>2. CASE UNCHANGED <<rows, scenario, plan>>
    BY <2>2, DrawsFixed DEF BucketsDrawn
  <2>. QED BY <2>1, <2>2 DEF Next, Generated, Evaluate, Evaluated, vars
<1>. QED BY <1>1, <1>2, CorpusInvariant, PTL DEF Spec

\* What a receipt has in the fields that the rules look at.
LEMMA DrawnFields ==
  ASSUME scenario \in Scenarios, NEW b, NEW receipt \in Draws(b)
  PROVE  /\ resolve_path(receipt, "action_type") = ActionOf(b)
         /\ Amount(receipt) \in AmountsOf(b)
         /\ resolve_path(receipt, "terms_url") \in UrlsOf(b)
         /\ IF ToolId \in DOMAIN receipt THEN resolve_path(receipt, ToolId) \in ToolsOf(b)
            ELSE b = "allow" /\ resolve_path(receipt, ToolId) = Absent
         /\ resolve_path(receipt, PostStateHash)
              \in IF b = "post_state_mismatch" THEN {"other"} ELSE {Absent, "zeros"}
<1>1. PICK amount \in AmountsOf(b), url \in UrlsOf(b), commitments \in CommitmentsOf(b) :
        receipt = Merge([action_type |-> ActionOf(b), amount_charged |-> amount,
                         terms_url |-> url], commitments)
  BY DEF Draws
<1>2. /\ {"action_type", "amount_charged", "terms_url"} \subseteq DOMAIN receipt
      /\ receipt["action_type"] = ActionOf(b) /\ receipt["amount_charged"] = amount
      /\ receipt["terms_url"] = url
  BY <1>1 DEF Merge
<1>3. \A path \in {ToolId, PostStateHash} :
        /\ path \in DOMAIN receipt <=> path \in DOMAIN commitments
        /\ path \in DOMAIN commitments => receipt[path] = commitments[path]
  BY <1>1 DEF Merge, ToolId, PostStateHash
<1>4. CASE commitments = << >> /\ b = "allow"
  BY <1>2, <1>3, <1>4 DEF resolve_path, Get, Amount
<1>5. CASE \E tool \in ToolsOf(b), post \in PostStatesOf(b) :
             commitments = Merge([path \in {ToolId} |-> tool], post)
  <2>1. PICK tool \in ToolsOf(b), post \in PostStatesOf(b) :
          commitments = Merge([path \in {ToolId} |-> tool], post)
    BY <1>5
  <2>2. ToolId \in DOMAIN commitments /\ commitments[ToolId] = tool
    BY <2>1 DEF Merge
  <2>3. /\ PostStateHash \in DOMAIN commitments <=> PostStateHash \in DOMAIN post
        /\ PostStateHash \in DOMAIN post => commitments[PostStateHash] = post[PostStateHash]
    BY <2>1 DEF Merge, ToolId, PostStateHash
  <2>4. resolve_path(receipt, PostStateHash)
              \in IF b = "post_state_mismatch" THEN {"other"} ELSE {Absent, "zeros"}
    BY <1>3, <2>1, <2>3 DEF resolve_path, Get, PostStatesOf
  <2>. QED BY <1>2, <1>3, <2>2, <2>4 DEF resolve_path, Get, Amount
<1>. QED BY <1>4, <1>5 DEF CommitmentsOf


Names ==
  {"model_training", "max_amount", "url_off_list", "url_blocked", "args_debug", "daily_limit",
   "escalation_only", "tool_off_list", "post_state_mismatch", "stress", "allow"}

\* The buckets by name.
LEMMA BucketNames == Range(BUCKET_ORDER) = Names
BY DEF Range, BUCKET_ORDER, Names

\* Which buckets draw amounts that fire a fitting rule of amounts.
LEMMA AmountsFit ==
  ASSUME scenario \in Scenarios, NEW b \in Names, NEW receipt \in Draws(b),
         NEW rule, Fits(rule, scenario), rule.parameters.threshold \in Int,
         NEW row, row.bucket = b, row.receipt = receipt, NEW aggregates
  PROVE  /\ rule.type = "max_amount" =>
              (Fires(rule, receipt, aggregates) <=> b \in {"max_amount", "stress"})
         /\ rule.type = "escalation_threshold" =>
              (Fires(rule, receipt, aggregates) <=>
                 b \in {"max_amount", "stress", "daily_limit", "escalation_only"})
<1>. DEFINE a == scenario.amounts
            threshold == rule.parameters.threshold
            amount == Amount(receipt)
<1>1. a \in [Amounts -> Nat]
  BY CorpusAssumption
<1>2. amount \in AmountsOf(b)
  BY DrawnFields
<1>. HIDE DEF a
<1>3. /\ a.allow_max \in Nat /\ a.training_max \in Nat
      /\ a.escalation_only_min \in Nat /\ a.escalation_only_max \in Nat
      /\ a.daily_limit_per_receipt \in Nat
      /\ a.max_amount_min \in Nat /\ a.max_amount_max \in Nat
      /\ a.stress_min \in Nat /\ a.stress_max \in Nat
  BY <1>1 DEF Amounts
<1>4. amount \in
        CASE b = "model_training"  -> 0 .. a.training_max
          [] b = "max_amount"      -> a.max_amount_min .. a.max_amount_max
          [] b = "daily_limit"     -> {a.daily_limit_per_receipt}
          [] b = "escalation_only" -> a.escalation_only_min .. a.escalation_only_max
          [] b = "stress"          -> a.stress_min .. a.stress_max
          [] OTHER                 -> 0 .. a.allow_max
  BY <1>2 DEF AmountsOf, a
<1>5. CASE rule.type = "max_amount"
  <2>1. /\ \A n \in {a.allow_max, a.training_max, a.daily_limit_per_receipt,
                     a.escalation_only_max} : n <= threshold
        /\ \A n \in {a.max_amount_min, a.stress_min} : n > threshold
    BY <1>5 DEF Fits, a
  <2>2. Fires(rule, receipt, aggregates) <=> amount > threshold
    BY <1>5 DEF Fires
  <2>. HIDE DEF amount, threshold
  <2>3. amount > threshold <=> b \in {"max_amount", "stress"}
    <3>1. threshold \in Int
      BY DEF threshold
    <3>. QED BY <1>3, <1>4, <2>1, <3>1
  <2>. QED BY <1>5, <2>2, <2>3
<1>6. CASE rule.type = "escalation_threshold"
  <2>1. /\ \A n \in {a.allow_max, a.training_max} : n < threshold
        /\ \A n \in {a.daily_limit_per_receipt, a.escalation_only_min,
                     a.max_amount_min, a.stress_min} : n >= threshold
    BY <1>6 DEF Fits, a
  <2>2. Fires(rule, receipt, aggregates) <=> amount >= threshold
    BY <1>6 DEF Fires, Escalates
  <2>. HIDE DEF amount, threshold
  <2>3. amount >= threshold <=> b \in {"max_amount", "stress", "daily_limit", "escalation_only"}
    <3>1. threshold \in Int
      BY DEF threshold
    <3>. QED BY <1>3, <1>4, <2>1, <3>1
  <2>. QED BY <1>6, <2>2, <2>3
<1>. QED BY <1>5, <1>6

\* Which buckets fire fitting rules of action types, URLs and post states.
LEMMA ListsFit ==
  ASSUME scenario \in Scenarios, NEW b \in Names, NEW receipt \in Draws(b),
         NEW rule, Fits(rule, scenario), NEW aggregates
  PROVE  /\ rule.type \in {"action_type_allowlist", "action_type_denylist"} =>
              (Fires(rule, receipt, aggregates) <=> b \in {"model_training", "stress"})
         /\ rule.type = "url_prefix_allowlist" =>
              (Fires(rule, receipt, aggregates) <=> b \in {"url_off_list", "url_blocked", "stress"})
         /\ rule.type = "url_prefix_denylist" =>
              (Fires(rule, receipt, aggregates) <=> b = "url_blocked")
         /\ rule.type = "post_state_assertion" =>
              (Fires(rule, receipt, aggregates) <=> b = "post_state_mismatch")
<1>. DEFINE p == rule.parameters
            action == resolve_path(receipt, "action_type")
            url == resolve_path(receipt, "terms_url")
            post == resolve_path(receipt, PostStateHash)
<1>1. /\ action = ActionOf(b) /\ url \in UrlsOf(b)
      /\ post \in IF b = "post_state_mismatch" THEN {"other"} ELSE {Absent, "zeros"}
  BY DrawnFields
<1>2. CASE rule.type \in {"action_type_allowlist", "action_type_denylist"}
  <2>1. action \in {"api_call", "model_training"}
        /\ (action = "model_training" <=> b \in {"model_training", "stress"})
    BY <1>1 DEF ActionOf
  <2>2. rule.type = "action_type_allowlist" =>
          /\ Fires(rule, receipt, aggregates) <=> action \notin p.allowed
          /\ "api_call" \in p.allowed /\ "model_training" \notin p.allowed
    BY DEF Fires, Fits
  <2>3. rule.type = "action_type_denylist" =>
          /\ Fires(rule, receipt, aggregates) <=> action \in p.denied
          /\ "api_call" \notin p.denied /\ "model_training" \in p.denied
    BY DEF Fires, Fits
  <2>. HIDE DEF action, p
  <2>. QED BY <1>2, <2>1, <2>2, <2>3
<1>3. url # Absent
  BY <1>1, CorpusAssumption, AbsentAssumption DEF UrlsOf
<1>4. CASE rule.type = "url_prefix_allowlist"
  <2>1. "source_field" \notin DOMAIN p
    BY <1>4 DEF Fits
  <2>2. Url(rule, receipt) = url
    BY <1>3, <2>1 DEF Url, Get
  <2>3. Fires(rule, receipt, aggregates) <=> ~ StartsWithOne(url, p.allowed)
    BY <1>4, <2>2 DEF Fires
  <2>4. /\ \A u \in scenario.terms_urls_allowed : StartsWithOne(u, p.allowed)
        /\ \A u \in {scenario.terms_url_off_list, scenario.terms_url_blocked} :
             ~ StartsWithOne(u, p.allowed)
    BY <1>4 DEF Fits
  <2>. HIDE DEF url, p
  <2>. QED BY <1>1, <1>4, <2>3, <2>4 DEF UrlsOf
<1>5. CASE rule.type = "url_prefix_denylist"
  <2>1. "source_field" \notin DOMAIN p
    BY <1>5 DEF Fits
  <2>2. Url(rule, receipt) = url
    BY <1>3, <2>1 DEF Url, Get
  <2>3. Fires(rule, receipt, aggregates) <=> StartsWithOne(url, p.denied)
    BY <1>5, <2>2 DEF Fires
  <2>4. /\ \A u \in scenario.terms_urls_allowed \cup {scenario.terms_url_off_list} :
             ~ StartsWithOne(u, p.denied)
        /\ StartsWithOne(scenario.terms_url_blocked, p.denied)
    BY <1>5 DEF Fits
  <2>. HIDE DEF url, p
  <2>. QED BY <1>1, <1>5, <2>3, <2>4 DEF UrlsOf
<1>6. CASE rule.type = "post_state_assertion"
  <2>1. /\ Get(p, "field", PostStateHash) = PostStateHash
        /\ Get(p, "applies_to", "post_action_only") = "post_action_only"
        /\ Get(p, "expected_hash", Absent) = "zeros"
    BY <1>6 DEF Fits
  <2>2. Fires(rule, receipt, aggregates)
          <=> IF post = Absent THEN FALSE ELSE "zeros" \notin {Absent, post}
    BY <1>6, <2>1 DEF Fires, PostStateFires
  <2>3. Absent \notin {"zeros", "other"}
    BY CorpusAssumption
  <2>. HIDE DEF post
  <2>. QED BY <1>1, <1>6, <2>2, <2>3
<1>. QED BY <1>2, <1>4, <1>5, <1>6

\* Which buckets fire fitting rules of tools; a receipt without commitments has none.
LEMMA ToolsFit ==
  ASSUME scenario \in Scenarios, NEW b \in Names, NEW receipt \in Draws(b),
         NEW rule, Fits(rule, scenario), NEW aggregates
  PROVE  /\ rule.type = "tool_id_allowlist" =>
              (Fires(rule, receipt, aggregates) <=>
                 b \in {"args_debug", "tool_off_list"} \/ ToolId \notin DOMAIN receipt)
         /\ rule.type = "args_pattern_match" =>
              (Fires(rule, receipt, aggregates) <=> b = "args_debug")
<1>. DEFINE p == rule.parameters
            tool == resolve_path(receipt, ToolId)
<1>1. IF ToolId \in DOMAIN receipt THEN tool \in ToolsOf(b) ELSE b = "allow" /\ tool = Absent
  BY DrawnFields
<1>2. CASE rule.type = "tool_id_allowlist"
  <2>1. /\ scenario.tools_allowed \subseteq p.allowed /\ Absent \notin p.allowed
        /\ scenario.tools_off_list \cap p.allowed = {} /\ scenario.tool_debug \notin p.allowed
    BY <1>2, AbsentAssumption DEF Fits
  <2>2. Fires(rule, receipt, aggregates) <=> tool \notin p.allowed
    BY <1>2 DEF Fires
  <2>. HIDE DEF tool, p
  <2>. QED BY <1>1, <1>2, <2>1, <2>2 DEF ToolsOf
<1>3. CASE rule.type = "args_pattern_match"
  <2>. DEFINE hits(t) == \E i \in DOMAIN p.patterns :
                           match_one(p.patterns[i].op, p.patterns[i].value, t)
  <2>1. /\ Get(p, "mode", "any") = "any"
        /\ \A i \in DOMAIN p.patterns : p.patterns[i].path = ToolId
        /\ hits(scenario.tool_debug)
        /\ \A t \in scenario.tools_allowed \cup scenario.tools_off_list : ~ hits(t)
    BY <1>3 DEF Fits
  <2>2. Fires(rule, receipt, aggregates) <=> PatternsFire(rule, receipt)
    BY <1>3 DEF Fires
  <2>3. \A i \in DOMAIN p.patterns : Hit(receipt, p.patterns[i])
          <=> match_one(p.patterns[i].op, p.patterns[i].value, tool)
    BY <2>1 DEF Hit
  <2>4. PatternsFire(rule, receipt) <=> hits(tool)
    BY <2>1, <2>3 DEF PatternsFire
  <2>5. ~ hits(Absent)
    BY DEF match_one
  <2>. HIDE DEF hits, tool, p
  <2>. QED BY <1>1, <1>3, <2>1, <2>2, <2>4, <2>5 DEF ToolsOf
<1>. QED BY <1>2, <1>3


\* A rule that fits fires on the buckets meant for it.
LEMMA BucketFires ==
  ASSUME scenario \in Scenarios, NEW row, row.bucket \in Names, row.receipt \in Draws(row.bucket),
         NEW rule, rule.type \in RuleTypes \ {"daily_limit"},
         Fits(rule, scenario), NEW aggregates,
         Required(rule.type) = {"threshold"} => rule.parameters.threshold \in Int
  PROVE  Fires(rule, row.receipt, aggregates) <=> rule.type \in Meant(row)
<1>. DEFINE b == row.bucket
            receipt == row.receipt
<1>1. ToolId \notin DOMAIN receipt => b = "allow"
  BY DrawnFields
<1>2. CASE rule.type \in {"max_amount", "escalation_threshold"}
  <2>1. rule.parameters.threshold \in Int
    BY <1>2 DEF Required
  <2>2. /\ rule.type = "max_amount" =>
              (Fires(rule, receipt, aggregates) <=> b \in {"max_amount", "stress"})
        /\ rule.type = "escalation_threshold" =>
              (Fires(rule, receipt, aggregates) <=>
                 b \in {"max_amount", "stress", "daily_limit", "escalation_only"})
    BY <2>1, AmountsFit
  <2>. QED BY <1>2, <2>2 DEF Meant, Names
<1>3. CASE rule.type \in {"action_type_allowlist", "action_type_denylist", "url_prefix_allowlist",
                          "url_prefix_denylist", "post_state_assertion"}
  <2>1. /\ rule.type \in {"action_type_allowlist", "action_type_denylist"} =>
              (Fires(rule, receipt, aggregates) <=> b \in {"model_training", "stress"})
        /\ rule.type = "url_prefix_allowlist" =>
              (Fires(rule, receipt, aggregates) <=> b \in {"url_off_list", "url_blocked", "stress"})
        /\ rule.type = "url_prefix_denylist" =>
              (Fires(rule, receipt, aggregates) <=> b = "url_blocked")
        /\ rule.type = "post_state_assertion" =>
              (Fires(rule, receipt, aggregates) <=> b = "post_state_mismatch")
    BY ListsFit
  <2>. QED BY <1>3, <2>1 DEF Meant, Names
<1>4. CASE rule.type \in {"tool_id_allowlist", "args_pattern_match"}
  <2>1. /\ rule.type = "tool_id_allowlist" =>
              (Fires(rule, receipt, aggregates) <=>
                 b \in {"args_debug", "tool_off_list"} \/ ToolId \notin DOMAIN receipt)
        /\ rule.type = "args_pattern_match" =>
              (Fires(rule, receipt, aggregates) <=> b = "args_debug")
    BY ToolsFit
  <2>. QED BY <1>1, <1>4, <2>1 DEF Meant, Names
<1>. QED BY <1>2, <1>3, <1>4 DEF RuleTypes

\* What buckets are for are rule types other than the daily limit.
LEMMA MeantTypes ==
  ASSUME NEW row, row.bucket \in Names
  PROVE  Meant(row) \subseteq RuleTypes \ {"daily_limit"}
BY DEF Meant, Names, RuleTypes

\* For any first policy that has one rule of each type and scenarios fitted to its
\* parameters, as those of the corpus are: each receipt, whatever is drawn for it, fires
\* the rules that its bucket is for and no others but the daily limit.
THEOREM BucketsFireTheirRules == ASSUME Fitted PROVE Spec => []BucketsFire
<1>1. CorpusInv /\ BucketsDrawn => BucketsFire
  <2>. SUFFICES ASSUME CorpusInv, BucketsDrawn, NEW i \in DOMAIN results["decisions"],
                       NEW fired, fired = Fired(results["decisions"][i])
                PROVE  fired \ {DailyLimit(PolicyV1).id} = Meant(rows[i])
    BY DEF BucketsFire
  <2>1. PICK verdicts : verdicts = Verdicts(PolicyV1, rows[i], Spent(rows[i].day, i - 1))
    OBVIOUS
  <2>2. results["decisions"][i] = Decision(PolicyV1, verdicts) /\ "raises" \notin Range(verdicts)
    BY <2>1 DEF CorpusInv, DecidedInv, Judged, PolicyOf, Passes
  <2>3. fired = FiringIds(PolicyV1, verdicts)
    BY <2>2, CorpusAssumption, DecisionNames
  <2>4. i \in DOMAIN rows /\ scenario \in Scenarios
    <3>1. /\ results["decisions"] \in Seq(Decisions("decisions"))
          /\ rows \in Seq(Rows) /\ (stage # "generate" => Len(rows) = Count)
          /\ Len(results["decisions"]) <= Count /\ Count \in Nat
      BY DEF CorpusInv, Typed, Passes
    <3>2. stage = "generate" => results["decisions"] = << >>
      BY DEF CorpusInv, Begun
    <3>. QED BY <3>1, <3>2 DEF CorpusInv, Typed
  <2>5. rows[i].bucket \in Names /\ rows[i].receipt \in Draws(rows[i].bucket)
    BY <2>4, BucketNames DEF BucketsDrawn
  <2>6. ASSUME NEW k \in DOMAIN PolicyV1
        PROVE  /\ PolicyV1[k].id = PolicyV1[k].type /\ PolicyV1[k].type \in RuleTypes
               /\ Fits(PolicyV1[k], scenario)
               /\ Required(PolicyV1[k].type) = {"threshold"} =>
                    PolicyV1[k].parameters.threshold \in Int
    BY <2>4, CorpusAssumption DEF Fitted, WellFormed
  <2>7. DailyLimit(PolicyV1).id = "daily_limit"
    BY <2>6, LimitIsRule, CorpusAssumption
  <2>8. ASSUME NEW k \in DOMAIN PolicyV1, PolicyV1[k].type # "daily_limit"
        PROVE  PolicyV1[k].type \in fired <=> PolicyV1[k].type \in Meant(rows[i])
    <3>1. PolicyV1[k].type \in fired <=> verdicts[k] = "fires"
      BY <2>3, <2>6, FiresById, CorpusAssumption
    <3>2. PICK snapshot : verdicts[k] = RuleVerdict(PolicyV1[k], rows[i].receipt, snapshot)
      BY <2>1 DEF Verdicts
    <3>3. verdicts[k] \in Range(verdicts)
      BY <2>1 DEF Verdicts, Range
    <3>4. verdicts[k] = "fires" <=> Fires(PolicyV1[k], rows[i].receipt, snapshot)
      BY <2>2, <3>2, <3>3 DEF RuleVerdict
    <3>5. Fires(PolicyV1[k], rows[i].receipt, snapshot) <=> PolicyV1[k].type \in Meant(rows[i])
      BY <2>4, <2>5, <2>6, <2>8, BucketFires
    <3>. QED BY <3>1, <3>4, <3>5
  <2>9. \A id \in fired : \E k \in DOMAIN PolicyV1 : id = PolicyV1[k].type
    BY <2>3, <2>6 DEF FiringIds
  <2>10. \A id \in Meant(rows[i]) :
           id # "daily_limit" /\ \E k \in DOMAIN PolicyV1 : id = PolicyV1[k].type
    BY <2>5, MeantTypes DEF Fitted
  <2>. QED BY <2>7, <2>8, <2>9, <2>10
<1>. QED BY <1>1, CorpusInvariant, BucketsDrawnAlways, PTL

-----------------------------------------------------------------------------
(* The operators of the pattern language.                                  *)

\* The text v is what comes after the first o symbols of t.
Occurs(v, t, o) ==
  o + Len(v) <= Len(t) /\ \A k \in 1 .. Len(v) : v[k] = t[o + k]

\* What the operators other than glob say of a text.
LEMMA TextOperators ==
  ASSUME NEW v \in Seq(STRING), NEW t \in Seq(STRING)
  PROVE  /\ match_one("equals", v, t) <=> Len(v) = Len(t) /\ Occurs(v, t, 0)
         /\ match_one("prefix", v, t) <=> Occurs(v, t, 0)
         /\ match_one("suffix", v, t) <=> Len(v) <= Len(t) /\ Occurs(v, t, Len(t) - Len(v))
         /\ match_one("contains", v, t) <=> \E o \in 0 .. Len(t) : Occurs(v, t, o)
<1>. DEFINE n == Len(v)
            m == Len(t)
<1>1. n \in Nat /\ m \in Nat /\ DOMAIN v = 1 .. n /\ DOMAIN t = 1 .. m /\ t # Absent
  BY AbsentAssumption
<1>2. match_one("equals", v, t) <=> n = m /\ Occurs(v, t, 0)
  <2>1. match_one("equals", v, t) <=> t = v
    BY <1>1 DEF match_one
  <2>2. v = [k \in 1 .. n |-> v[k]] /\ t = [k \in 1 .. m |-> t[k]]
    BY <1>1
  <2>3. n = m /\ (\A k \in 1 .. n : v[k] = t[k]) => t = v
    BY <2>2
  <2>4. Occurs(v, t, 0) <=> n <= m /\ \A k \in 1 .. n : v[k] = t[k]
    BY <1>1 DEF Occurs
  <2>5. t = v => n = m /\ \A k \in 1 .. n : v[k] = t[k]
    OBVIOUS
  <2>. HIDE DEF n, m
  <2>. QED BY <1>1, <2>1, <2>3, <2>4, <2>5
<1>3. ASSUME NEW s \in Seq(STRING)
      PROVE  IsPrefix(v, s) <=> n <= Len(s) /\ \A k \in 1 .. n : v[k] = s[k]
  <2>1. CASE n <= Len(s)
    <3>1. /\ SubSeq(v, 1, n) = [i \in 1 .. n |-> v[i]]
          /\ SubSeq(s, 1, n) = [i \in 1 .. n |-> s[i]]
      BY <2>1
    <3>. QED BY <2>1, <3>1 DEF IsPrefix
  <2>2. CASE ~ (n <= Len(s))
    BY <2>2 DEF IsPrefix
  <2>. QED BY <2>1, <2>2
<1>4. match_one("prefix", v, t) <=> Occurs(v, t, 0)
  BY <1>1, <1>3 DEF match_one, Occurs
<1>5. match_one("suffix", v, t) <=> n <= m /\ Occurs(v, t, m - n)
  <2>. DEFINE rv == Reverse(v)
              rt == Reverse(t)
  <2>1. /\ Len(rv) = n /\ Len(rt) = m /\ rv \in Seq(STRING) /\ rt \in Seq(STRING)
        /\ \A i \in 1 .. n : rv[i] = v[(n - i) + 1]
        /\ \A i \in 1 .. m : rt[i] = t[(m - i) + 1]
    BY <1>1 DEF Reverse
  <2>2. match_one("suffix", v, t) <=> IsPrefix(rv, rt)
    BY <1>1 DEF match_one, IsSuffix
  <2>. HIDE DEF rv, rt
  <2>3. CASE n <= m
    <3>1. /\ SubSeq(rv, 1, n) = [i \in 1 .. n |-> rv[i]]
          /\ SubSeq(rt, 1, n) = [i \in 1 .. n |-> rt[i]]
      BY <1>1, <2>1, <2>3
    <3>2. IsPrefix(rv, rt) <=> \A i \in 1 .. n : rv[i] = rt[i]
      BY <2>1, <2>3, <3>1 DEF IsPrefix
    <3>3. ASSUME \A i \in 1 .. n : rv[i] = rt[i], NEW k \in 1 .. n PROVE v[k] = t[(m - n) + k]
      <4>1. (n - k) + 1 \in 1 .. n /\ (n - k) + 1 \in 1 .. m
        BY <1>1, <2>3
      <4>2. rv[(n - k) + 1] = v[k] /\ rt[(n - k) + 1] = t[(m - n) + k]
        BY <1>1, <2>1, <4>1
      <4>. QED BY <3>3, <4>1, <4>2
    <3>4. ASSUME \A k \in 1 .. n : v[k] = t[(m - n) + k], NEW i \in 1 .. n PROVE rv[i] = rt[i]
      <4>1. (n - i) + 1 \in 1 .. n /\ i \in 1 .. m /\ (m - n) + ((n - i) + 1) = (m - i) + 1
        BY <1>1, <2>3
      <4>. QED BY <2>1, <3>4, <4>1
    <3>. QED BY <1>1, <2>2, <2>3, <3>2, <3>3, <3>4 DEF Occurs
  <2>4. CASE ~ (n <= m)
    BY <2>1, <2>2, <2>4 DEF IsPrefix
  <2>. QED BY <2>3, <2>4
<1>6. match_one("contains", v, t) <=> \E o \in 0 .. m : Occurs(v, t, o)
  <2>1. match_one("contains", v, t) <=> \E rest \in Suffixes(t) : IsPrefix(v, rest)
    BY <1>1 DEF match_one
  <2>2. ASSUME NEW l \in 1 .. m
        PROVE  IsPrefix(v, SubSeq(t, l, m)) <=> Occurs(v, t, l - 1)
    <3>1. /\ SubSeq(t, l, m) \in Seq(STRING) /\ Len(SubSeq(t, l, m)) = (m - l) + 1
          /\ \A k \in 1 .. (m - l) + 1 : SubSeq(t, l, m)[k] = t[(l - 1) + k]
      BY <1>1
    <3>2. IsPrefix(v, SubSeq(t, l, m))
            <=> n <= (m - l) + 1 /\ \A k \in 1 .. n : v[k] = SubSeq(t, l, m)[k]
      BY <1>3, <3>1
    <3>3. CASE n <= (m - l) + 1
      <4>1. \A k \in 1 .. n : SubSeq(t, l, m)[k] = t[(l - 1) + k]
        BY <1>1, <3>1, <3>3
      <4>. QED BY <1>1, <3>2, <3>3, <4>1 DEF Occurs
    <3>4. CASE ~ (n <= (m - l) + 1)
      BY <1>1, <3>2, <3>4 DEF Occurs
    <3>. QED BY <3>3, <3>4
  <2>3. IsPrefix(v, << >>) <=> n = 0
    <3>1. << >> \in Seq(STRING) /\ Len(<< >>) = 0
      OBVIOUS
    <3>2. IsPrefix(v, << >>) <=> n <= 0 /\ \A k \in 1 .. n : v[k] = << >>[k]
      BY <1>3, <3>1
    <3>3. n <= 0 <=> n = 0
      BY <1>1
    <3>. QED BY <3>2, <3>3, <1>1
  <2>4. n = 0 => \A o \in 0 .. m : Occurs(v, t, o)
    BY <1>1 DEF Occurs
  <2>5. Occurs(v, t, m) => n = 0
    BY <1>1 DEF Occurs
  <2>8. (\E rest \in Suffixes(t) : IsPrefix(v, rest))
          <=> n = 0 \/ \E l \in 1 .. m : IsPrefix(v, SubSeq(t, l, m))
    BY <2>3 DEF Suffixes
  <2>. HIDE DEF n, m
  <2>6. \A o \in 0 .. m : o = m \/ (o + 1 \in 1 .. m /\ (o + 1) - 1 = o)
    BY <1>1
  <2>7. \A l \in 1 .. m : l - 1 \in 0 .. m
    BY <1>1
  <2>9. m \in 0 .. m
    BY <1>1
  <2>10. n = 0 => \E o \in 0 .. m : Occurs(v, t, o)
    BY <2>4, <2>9
  <2>11. (\E l \in 1 .. m : IsPrefix(v, SubSeq(t, l, m))) => \E o \in 0 .. m : Occurs(v, t, o)
    BY <2>2, <2>7
  <2>12. (\E o \in 0 .. m : Occurs(v, t, o))
            => n = 0 \/ \E l \in 1 .. m : IsPrefix(v, SubSeq(t, l, m))
    BY <2>2, <2>5, <2>6
  <2>. QED BY <2>1, <2>8, <2>10, <2>11, <2>12
<1>. QED BY <1>2, <1>4, <1>5, <1>6

\* The cut matches n symbols of the pattern, after the first a, that are no wildcards.
PlainFrom(p, t, c, a, n) ==
  /\ a \in Nat /\ n \in Nat /\ c[a] \in Nat
  /\ \A k \in 1 .. n : Step(p, t, c, a + k) /\ p[a + k] \notin {"*", "?"}

\* It matches them with the next n symbols of the target.
RunsFrom(p, t, c, a, n) ==
  /\ \A k \in 0 .. n : c[a + k] = c[a] + k
  /\ \A k \in 1 .. n : p[a + k] = t[c[a] + k]

\* Symbols that are no wildcards are matched one by one.
LEMMA PlainRun ==
  ASSUME NEW p, NEW t, NEW c, NEW a, NEW n, PlainFrom(p, t, c, a, n)
  PROVE  RunsFrom(p, t, c, a, n)
<1>0. a \in Nat /\ n \in Nat /\ c[a] \in Nat
  BY DEF PlainFrom
<1>1. ASSUME NEW k \in 1 .. n
      PROVE  c[a + k] = c[(a + k) - 1] + 1 /\ p[a + k] = t[c[a + k]]
  BY <1>1 DEF PlainFrom, Step
<1>. DEFINE S == {k \in Nat : k <= n => c[a + k] = c[a] + k}
<1>2. 0 \in S
  BY <1>0
<1>3. ASSUME NEW k \in Nat, k \in S PROVE k + 1 \in S
  <2>. SUFFICES ASSUME k + 1 <= n PROVE c[a + (k + 1)] = c[a] + (k + 1)
    OBVIOUS
  <2>1. k + 1 \in 1 .. n /\ (a + (k + 1)) - 1 = a + k /\ c[a + k] = c[a] + k
    BY <1>0, <1>3
  <2>. QED BY <1>0, <1>1, <2>1
<1>4. Nat \subseteq S
  <2>. HIDE DEF S
  <2>. QED BY <1>2, <1>3, AllNaturals
<1>5. \A k \in 0 .. n : c[a + k] = c[a] + k
  BY <1>0, <1>4
<1>. QED BY <1>0, <1>1, <1>5 DEF RunsFrom

\* A text without wildcards, with a star or not before it and a star or not behind it,
\* matches where the text occurs: anywhere with both stars, else at an end.
LEMMA PlainGlob ==
  ASSUME NEW v \in Seq(STRING), Plain(v), NEW t \in Seq(STRING), NEW p,
         NEW a \in {0, 1}, NEW e \in {0, 1},
         Len(p) = (a + Len(v)) + e, \A k \in 1 .. Len(v) : p[a + k] = v[k],
         a = 1 => p[1] = "*", e = 1 => p[Len(p)] = "*"
  PROVE  Matches(p, t) <=>
           \E o \in 0 .. Len(t) : /\ Occurs(v, t, o)
                                  /\ a = 0 => o = 0
                                  /\ e = 0 => o + Len(v) = Len(t)
<1>. DEFINE n == Len(v)
            m == Len(t)
            l == Len(p)
<1>1. /\ n \in Nat /\ m \in Nat /\ l = (a + n) + e
      /\ \A k \in 1 .. n : p[a + k] \notin {"*", "?"}
  <2>1. \A k \in 1 .. Len(v) : v[k] \notin {"*", "?"}
    <3>1. \A k \in 1 .. Len(v) : v[k] \in Range(v)
      BY DEF Range
    <3>. QED BY <3>1 DEF Plain
  <2>. QED BY <2>1
<1>2. Matches(p, t) <=> \E c : c \in Cuts(p, t, l, m)
  BY DEF Matches
<1>3. \A o : Occurs(v, t, o) <=> o + n <= m /\ \A k \in 1 .. n : p[a + k] = t[o + k]
  BY DEF Occurs
<1>4. (e = 1 => p[l] = "*") /\ (a = 1 => p[1] = "*")
  OBVIOUS
<1>. HIDE DEF n, m, l
<1>5. ASSUME NEW c \in Cuts(p, t, l, m)
      PROVE  \E o \in 0 .. m : Occurs(v, t, o) /\ (a = 0 => o = 0) /\ (e = 0 => o + n = m)
  <2>1. /\ c \in [0 .. l -> 0 .. m] /\ c[0] = 0 /\ c[l] = m
        /\ \A i \in 1 .. l : Step(p, t, c, i)
    BY DEF Cuts
  <2>2. a \in 0 .. l /\ a + n \in 0 .. l /\ a \in Nat /\ \A k \in 1 .. n : a + k \in 1 .. l
    BY <1>1
  <2>3. c[a] \in 0 .. m /\ c[a + n] \in 0 .. m /\ c[a] \in Nat
    BY <1>1, <2>1, <2>2
  <2>4. \A k \in 1 .. n : Step(p, t, c, a + k) /\ p[a + k] \notin {"*", "?"}
    BY <1>1, <2>1, <2>2
  <2>5. /\ \A k \in 0 .. n : c[a + k] = c[a] + k
        /\ \A k \in 1 .. n : p[a + k] = t[c[a] + k]
    <3>1. PlainFrom(p, t, c, a, n)
      BY <1>1, <2>2, <2>3, <2>4 DEF PlainFrom
    <3>2. RunsFrom(p, t, c, a, n)
      BY <3>1, PlainRun
    <3>. QED BY <3>2 DEF RunsFrom
  <2>6. c[a + n] = c[a] + n
    BY <1>1, <2>5
  <2>7. Occurs(v, t, c[a])
    <3>1. c[a] + n <= m
      BY <1>1, <2>3, <2>6
    <3>. QED BY <1>3, <2>5, <3>1
  <2>8. e = 0 => c[a] + n = m
    BY <1>1, <2>1, <2>6
  <2>. QED BY <2>1, <2>3, <2>7, <2>8
<1>6. ASSUME NEW o \in 0 .. m, Occurs(v, t, o), a = 0 => o = 0, e = 0 => o + n = m
      PROVE  \E c : c \in Cuts(p, t, l, m)
  <2>. DEFINE c == [i \in 0 .. l |-> IF i < a THEN 0 ELSE IF i <= a + n THEN o + (i - a) ELSE m]
  <2>1. o + n <= m /\ \A k \in 1 .. n : p[a + k] = t[o + k]
    BY <1>3, <1>6
  <2>2. c \in [0 .. l -> 0 .. m] /\ c[0] = 0 /\ c[l] = m
    BY <1>1, <1>6, <2>1
  <2>3. ASSUME NEW i \in 1 .. l PROVE Step(p, t, c, i)
    <3>1. CASE i <= a
      <4>1. p[i] = "*" /\ c[i - 1] = 0 /\ c[i] \in Nat
        BY <1>1, <1>4, <2>2, <3>1
      <4>. QED BY <4>1 DEF Step
    <3>2. CASE i > a /\ i <= a + n
      <4>. PICK k \in 1 .. n : i = a + k
        <5>1. i - a \in 1 .. n /\ i = a + (i - a)
          BY <1>1, <3>2
        <5>. QED BY <5>1
      <4>1. c[i] = o + k /\ c[i - 1] = o + (k - 1)
        BY <1>1, <3>2
      <4>. HIDE DEF c
      <4>2. c[i] = c[i - 1] + 1
        BY <4>1
      <4>3. p[i] = t[c[i]] /\ p[i] # "*"
        BY <1>1, <2>1, <4>1
      <4>. QED BY <4>2, <4>3 DEF Step
    <3>3. CASE i > a + n
      <4>1. i = l /\ e = 1 /\ i - 1 = a + n
        BY <1>1, <3>3
      <4>2. c[i] = m /\ c[i - 1] = o + n
        BY <1>1, <2>2, <4>1
      <4>. QED BY <1>1, <1>4, <2>1, <4>1, <4>2 DEF Step
    <3>. QED BY <1>1, <3>1, <3>2, <3>3
  <2>4. c \in Cuts(p, t, l, m)
    <3>. HIDE DEF c
    <3>. QED BY <2>2, <2>3 DEF Cuts
  <2>. QED BY <2>4
<1>. QED BY <1>2, <1>5, <1>6 DEF n, m

\* The operators of the pattern language are globs of a text that has no wildcards: with no
\* star, and with one behind it, before it, and on both sides, for every text and target
\* (policy/pattern.py has a code path of its own for each).
THEOREM OperatorsAreGlobs ==
  ASSUME NEW v \in Seq(STRING), Plain(v), NEW t \in Seq(STRING)
  PROVE  /\ match_one("equals", v, t) <=> match_one("glob", v, t)
         /\ match_one("prefix", v, t) <=> match_one("glob", Append(v, "*"), t)
         /\ match_one("suffix", v, t) <=> match_one("glob", <<"*">> \o v, t)
         /\ match_one("contains", v, t) <=> match_one("glob", Append(<<"*">> \o v, "*"), t)
<1>. DEFINE G(a, e, p) ==
       Matches(p, t) <=>
           \E o \in 0 .. Len(t) : /\ Occurs(v, t, o)
                                  /\ a = 0 => o = 0
                                  /\ e = 0 => o + Len(v) = Len(t)
<1>1. \A p : match_one("glob", p, t) <=> Matches(p, t)
  BY AbsentAssumption DEF match_one
<1>2. Len(v) \in Nat /\ Len(t) \in Nat /\ v \in Seq(STRING \cup {"*"})
  OBVIOUS
<1>3. G(0, 0, v)
  <2>1. /\ Len(v) = (0 + Len(v)) + 0
        /\ \A k \in 1 .. Len(v) : v[0 + k] = v[k]
    BY <1>2
  <2>. QED BY <2>1, PlainGlob
<1>4. G(0, 1, Append(v, "*"))
  <2>. DEFINE p == Append(v, "*")
  <2>1. /\ Len(p) = (0 + Len(v)) + 1 /\ p[Len(p)] = "*"
        /\ \A k \in 1 .. Len(v) : p[0 + k] = v[k]
    BY <1>2
  <2>. HIDE DEF p
  <2>2. G(0, 1, p)
    BY <2>1, PlainGlob
  <2>. QED BY <2>2 DEF p
<1>5. G(1, 0, <<"*">> \o v)
  <2>. DEFINE p == <<"*">> \o v
  <2>1. /\ Len(p) = (1 + Len(v)) + 0 /\ p[1] = "*"
        /\ \A k \in 1 .. Len(v) : p[1 + k] = v[k]
    BY <1>2
  <2>. HIDE DEF p
  <2>2. G(1, 0, p)
    BY <2>1, PlainGlob
  <2>. QED BY <2>2 DEF p
<1>6. G(1, 1, Append(<<"*">> \o v, "*"))
  <2>. DEFINE q == <<"*">> \o v
              p == Append(q, "*")
  <2>1. /\ Len(q) = 1 + Len(v) /\ q[1] = "*"
        /\ \A k \in 1 .. Len(v) : q[1 + k] = v[k]
    BY <1>2
  <2>. HIDE DEF q
  <2>2. /\ Len(p) = (1 + Len(v)) + 1 /\ p[1] = "*" /\ p[Len(p)] = "*"
        /\ \A k \in 1 .. Len(v) : p[1 + k] = v[k]
    BY <1>2, <2>1
  <2>. HIDE DEF p
  <2>3. G(1, 1, p)
    BY <2>2, PlainGlob
  <2>. QED BY <2>3 DEF p, q
<1>7. /\ match_one("equals", v, t) <=> Len(v) = Len(t) /\ Occurs(v, t, 0)
      /\ match_one("prefix", v, t) <=> Occurs(v, t, 0)
      /\ match_one("suffix", v, t) <=> Len(v) <= Len(t) /\ Occurs(v, t, Len(t) - Len(v))
      /\ match_one("contains", v, t) <=> \E o \in 0 .. Len(t) : Occurs(v, t, o)
  BY TextOperators
<1>8. 0 \in 0 .. Len(t) /\ (Len(v) <= Len(t) => Len(t) - Len(v) \in 0 .. Len(t))
  BY <1>2
<1>9. \A o : Occurs(v, t, o) => o + Len(v) <= Len(t)
  BY DEF Occurs
<1>10. match_one("equals", v, t) <=> match_one("glob", v, t)
  BY <1>1, <1>2, <1>3, <1>7, <1>8
<1>11. match_one("prefix", v, t) <=> match_one("glob", Append(v, "*"), t)
  BY <1>1, <1>4, <1>7, <1>8
<1>12. match_one("suffix", v, t) <=> match_one("glob", <<"*">> \o v, t)
  <2>1. match_one("glob", <<"*">> \o v, t)
          <=> \E o \in 0 .. Len(t) : Occurs(v, t, o) /\ o + Len(v) = Len(t)
    BY <1>1, <1>5
  <2>2. \A o \in 0 .. Len(t) :
          o + Len(v) = Len(t) <=> o = Len(t) - Len(v) /\ Len(v) <= Len(t)
    BY <1>2
  <2>. QED BY <1>2, <1>7, <1>8, <2>1, <2>2
<1>13. match_one("contains", v, t) <=> match_one("glob", Append(<<"*">> \o v, "*"), t)
  BY <1>1, <1>6, <1>7
<1>. QED BY <1>10, <1>11, <1>12, <1>13

-----------------------------------------------------------------------------
(* How rule types answer for one another.                                  *)

\* A text starts with a prefix that has no wildcard if it matches the prefix with
\* a star behind it.
LEMMA PrefixIsGlob ==
  ASSUME NEW prefix \in Seq(STRING), NEW t \in Seq(STRING), Plain(prefix)
  PROVE  IsPrefix(prefix, t) <=> Matches(Append(prefix, "*"), t)
<1>1. match_one("prefix", prefix, t) <=> match_one("glob", Append(prefix, "*"), t)
  BY OperatorsAreGlobs
<1>. QED BY <1>1, AbsentAssumption DEF match_one

\* What is said of the receipts that the rules are compared on.
Comparable(receipt) ==
  /\ Amount(receipt) \in Nat
  /\ "action_type" \in DOMAIN receipt
  /\ resolve_path(receipt, "terms_url") \in Seq(STRING) \cup {Absent}

\* Just over an amount is at the next one.
LEMMA AmountRulesAgree ==
  ASSUME NEW receipt, Comparable(receipt), NEW p, "threshold" \in DOMAIN p, p.threshold \in Int
  PROVE  /\ Probe("max_amount", p, receipt)
              <=> Probe("escalation_threshold", [threshold |-> p.threshold + 1], receipt)
         /\ Probe("max_amount", p, receipt) <=> Probe("daily_limit", p, receipt)
<1>. DEFINE rule(type, q) == [id |-> "probe", type |-> type, outcome |-> "deny", parameters |-> q]
            over == [threshold |-> p.threshold + 1]
<1>1. /\ Raises(rule("max_amount", p), receipt) <=> Amount(receipt) = Absent
      /\ Raises(rule("daily_limit", p), receipt) <=> Amount(receipt) = Absent
      /\ Raises(rule("escalation_threshold", over), receipt) <=> Amount(receipt) = Absent
  BY DEF Raises, Required
<1>2. /\ Fires(rule("max_amount", p), receipt, << >>) <=> Amount(receipt) > p.threshold
      /\ Fires(rule("escalation_threshold", over), receipt, << >>)
           <=> Amount(receipt) >= p.threshold + 1
  BY DEF Fires, Escalates
<1>3. Fires(rule("daily_limit", p), receipt, << >>) <=> Amount(receipt) > p.threshold
  <2>1. DailyTotal(rule("daily_limit", p), receipt, << >>) = Amount(receipt)
    BY DEF DailyTotal, Get, Comparable
  <2>. QED BY <2>1 DEF Fires
<1>4. Amount(receipt) > p.threshold <=> Amount(receipt) >= p.threshold + 1
  BY DEF Comparable
<1>. HIDE DEF rule, over
<1>5. \A type, q : Probe(type, q, receipt) <=>
        ~ Raises(rule(type, q), receipt) /\ Fires(rule(type, q), receipt, << >>)
  BY DEF Probe, RuleVerdict, rule
<1>. QED BY <1>1, <1>2, <1>3, <1>4, <1>5 DEF over

\* Off an allow list is not on the deny list of the same entries.
LEMMA ListRulesAgree ==
  ASSUME NEW receipt, NEW p, "allowed" \in DOMAIN p
  PROVE  /\ Probe("action_type_allowlist", p, receipt)
              <=> ~ Probe("action_type_denylist", [denied |-> p.allowed], receipt)
         /\ Probe("url_prefix_allowlist", [allowed |-> p.allowed], receipt)
              <=> ~ Probe("url_prefix_denylist", [denied |-> p.allowed], receipt)
<1>. DEFINE rule(type, q) == [id |-> "probe", type |-> type, outcome |-> "deny", parameters |-> q]
            these == [allowed |-> p.allowed]
            those == [denied |-> p.allowed]
<1>1. /\ ~ Raises(rule("action_type_allowlist", p), receipt)
      /\ ~ Raises(rule("action_type_denylist", those), receipt)
      /\ ~ Raises(rule("url_prefix_allowlist", these), receipt)
      /\ ~ Raises(rule("url_prefix_denylist", those), receipt)
  BY DEF Raises, Required
<1>2. /\ Fires(rule("action_type_allowlist", p), receipt, << >>)
           <=> resolve_path(receipt, "action_type") \notin p.allowed
      /\ Fires(rule("action_type_denylist", those), receipt, << >>)
           <=> resolve_path(receipt, "action_type") \in p.allowed
  BY DEF Fires
<1>3. Url(rule("url_prefix_allowlist", these), receipt)
        = Url(rule("url_prefix_denylist", those), receipt)
  BY DEF Url, Get
<1>4. /\ Fires(rule("url_prefix_allowlist", these), receipt, << >>)
           <=> ~ StartsWithOne(Url(rule("url_prefix_allowlist", these), receipt), p.allowed)
      /\ Fires(rule("url_prefix_denylist", those), receipt, << >>)
           <=> StartsWithOne(Url(rule("url_prefix_denylist", those), receipt), p.allowed)
  BY DEF Fires
<1>. HIDE DEF rule, these, those
<1>5. \A type, q : Probe(type, q, receipt) <=>
        ~ Raises(rule(type, q), receipt) /\ Fires(rule(type, q), receipt, << >>)
  BY DEF Probe, RuleVerdict, rule
<1>. QED BY <1>1, <1>2, <1>3, <1>4, <1>5 DEF these, those

\* A prefix is a glob that ends in a star, but for the empty one.
LEMMA PrefixRuleIsGlob ==
  ASSUME NEW receipt, Comparable(receipt), NEW prefix \in Seq(STRING), Plain(prefix)
  PROVE  Probe("url_prefix_denylist", [denied |-> {prefix}], receipt)
           <=> prefix = << >> \/ Hit(receipt, GlobOf(prefix))
<1>. DEFINE rule == [id |-> "probe", type |-> "url_prefix_denylist", outcome |-> "deny",
                     parameters |-> [denied |-> {prefix}]]
            url == resolve_path(receipt, "terms_url")
<1>1. Url(rule, receipt) = IF url = Absent THEN << >> ELSE url
  BY DEF Url, Get
<1>2. Probe("url_prefix_denylist", [denied |-> {prefix}], receipt)
        <=> IsPrefix(prefix, IF url = Absent THEN << >> ELSE url)
  <2>1. ~ Raises(rule, receipt)
    BY DEF Raises, Required
  <2>2. Fires(rule, receipt, << >>) <=> IsPrefix(prefix, Url(rule, receipt))
    BY DEF Fires, StartsWithOne
  <2>. QED BY <1>1, <2>1, <2>2 DEF Probe, RuleVerdict
<1>3. Hit(receipt, GlobOf(prefix)) <=> url # Absent /\ Matches(Append(prefix, "*"), url)
  BY DEF Hit, GlobOf, match_one
<1>4. \A t \in Seq(STRING) : IsPrefix(<< >>, t)
  BY DEF IsPrefix
<1>5. prefix # << >> => ~ IsPrefix(prefix, << >>)
  BY DEF IsPrefix
<1>6. CASE url = Absent
  BY <1>2, <1>3, <1>4, <1>5, <1>6
<1>7. CASE url # Absent
  <2>1. url \in Seq(STRING)
    BY <1>7 DEF Comparable
  <2>2. IsPrefix(prefix, url) <=> Matches(Append(prefix, "*"), url)
    BY <2>1, PrefixIsGlob
  <2>. HIDE DEF url
  <2>. QED BY <1>2, <1>3, <1>4, <1>7, <2>1, <2>2
<1>. QED BY <1>6, <1>7

\* The rules of a policy agree on every receipt that can be drawn.
LEMMA AllAgree ==
  ASSUME NEW k \in DOMAIN PolicyV1, NEW receipt, Comparable(receipt)
  PROVE  Agree(PolicyV1[k], receipt)
<1>. DEFINE rule == PolicyV1[k]
            p == rule.parameters
<1>1. /\ Required(rule.type) \subseteq DOMAIN p
      /\ Required(rule.type) = {"threshold"} => p.threshold \in Int
      /\ rule.type = "url_prefix_allowlist" => p.allowed \subseteq Seq(STRING)
  BY CorpusAssumption DEF WellFormed
<1>. HIDE DEF rule
<1>2. CASE rule.type = "max_amount"
  <2>1. "threshold" \in DOMAIN p /\ p.threshold \in Int
    BY <1>1, <1>2 DEF Required
  <2>. QED BY <1>2, <2>1, AmountRulesAgree DEF Agree, rule
<1>3. CASE rule.type = "action_type_allowlist"
  <2>1. "allowed" \in DOMAIN p
    BY <1>1, <1>3 DEF Required
  <2>. QED BY <1>3, <2>1, ListRulesAgree DEF Agree, rule
<1>4. CASE rule.type = "url_prefix_allowlist"
  <2>1. "allowed" \in DOMAIN p
    BY <1>1, <1>4 DEF Required
  <2>2. \A prefix \in p.allowed : prefix \in Seq(STRING)
    BY <1>1, <1>4
  <2>. QED BY <1>4, <2>1, <2>2, ListRulesAgree, PrefixRuleIsGlob DEF Agree, rule
<1>5. CASE rule.type \notin {"max_amount", "action_type_allowlist", "url_prefix_allowlist"}
  BY <1>5 DEF Agree, rule
<1>. QED BY <1>2, <1>3, <1>4, <1>5

\* Whatever receipts are drawn, with or without their URL: for the parameters of
\* any policy the rule types agree as they should.
THEOREM RulesAgreeForAll == Spec => []RulesAgree
<1>1. CorpusInv => RulesAgree
  <2>. SUFFICES ASSUME CorpusInv, rows # << >>
                PROVE  LET receipt == Last(rows).receipt
                       IN  Comparable(receipt) /\ Comparable(Without(receipt, "terms_url"))
    BY AllAgree DEF RulesAgree
  <2>1. rows \in Seq(Rows) /\ scenario \in Scenarios
    BY DEF CorpusInv, Typed
  <2>. DEFINE receipt == Last(rows).receipt
  <2>2. Last(rows) \in Rows
    BY <2>1 DEF Last
  <2>3. PICK b : receipt \in Draws(b)
    BY <2>2 DEF Rows, Drafts
  <2>. HIDE DEF receipt
  <2>4. /\ {"action_type", "amount_charged", "terms_url"} \subseteq DOMAIN receipt
        /\ receipt["amount_charged"] \in Nat /\ receipt["terms_url"] \in Seq(STRING)
    BY <2>1, <2>3, Drawn
  <2>5. Comparable(receipt) /\ Comparable(Without(receipt, "terms_url"))
    BY <2>4 DEF Comparable, Amount, resolve_path, Get, Without
  <2>. QED BY <2>5 DEF receipt
<1>. QED BY <1>1, CorpusInvariant, PTL
=============================================================================
