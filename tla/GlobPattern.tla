------------------------------ MODULE GlobPattern ------------------------------
(***************************************************************************)
(* policy/pattern.py: what a glob pattern of the policy language means.    *)
(* A star stands for any run of characters, a question mark for any one.   *)
(***************************************************************************)
EXTENDS Naturals, Sequences

\* A cut assigns to each position of the pattern a position of the target; this
\* is what it must satisfy at the i-th character of the pattern.
Step(p, t, c, i) ==
  IF p[i] = "*" THEN c[i - 1] <= c[i]
  ELSE c[i] = c[i - 1] + 1 /\ p[i] \in {"?", t[c[i]]}

\* The cuts that match the first n characters of p with the first m of t.
Cuts(p, t, n, m) ==
  {c \in [0 .. n -> 0 .. m] :
     c[0] = 0 /\ c[n] = m /\ \A i \in 1 .. n : Step(p, t, c, i)}

Matches(p, t) == Cuts(p, t, Len(p), Len(t)) # {}
=============================================================================
