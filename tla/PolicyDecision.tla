---------------------------- MODULE PolicyDecision ----------------------------
(***************************************************************************)
(* What policy/engine.py promises of one evaluation, in one step: the      *)
(* verdicts of all rules, combined by precedence; or a deny when the       *)
(* budget runs out; or an error when a rule cannot be evaluated.           *)
(***************************************************************************)
EXTENDS Naturals, Sequences, Functions

CONSTANTS
  Rules,    \* rules a policy may hold
  Outcome,  \* [Rules -> what the rule decides when it fires]
  Verdict   \* [Rules -> what evaluating the rule on the receipt comes to]

\* The positions, among the first n, of the rules that fire.
Firing(policy, n) == {i \in 1 .. n : Verdict[policy[i]] = "fires"}

Evaluable(policy, n) == \A i \in 1 .. n : Verdict[policy[i]] # "raises"

\* deny beats escalate beats allow, and nothing fired means allow.
Highest(policy, positions) ==
  IF \E i \in positions : Outcome[policy[i]] = "deny" THEN "deny"
  ELSE IF \E i \in positions : Outcome[policy[i]] = "escalate" THEN "escalate"
  ELSE "allow"

\* The sequence lists the set, in increasing order.
Lists(seq, set) ==
  /\ Range(seq) = set
  /\ \A i, j \in DOMAIN seq : i < j => seq[i] < seq[j]

Pending == [value |-> "pending", fired |-> << >>, timeout |-> FALSE]
Raised == [value |-> "raised", fired |-> << >>, timeout |-> FALSE]

VARIABLES policy, budget, decision

Init ==
  /\ policy \in Seq(Rules)
  /\ budget \in BOOLEAN
  /\ decision = Pending

Decide(value, timeout) ==
  decision' = [value |-> value, fired |-> decision'.fired, timeout |-> timeout]

\* Every rule is evaluated, and every fired one is on the decision, in order.
Complete ==
  /\ decision = Pending
  /\ Evaluable(policy, Len(policy))
  /\ Lists(decision'.fired, Firing(policy, Len(policy)))
  /\ Decide(Highest(policy, Firing(policy, Len(policy))), FALSE)
  /\ UNCHANGED <<policy, budget>>

\* Only a budgeted evaluation may stop early, and then it denies.
RunOut ==
  /\ decision = Pending
  /\ budget
  /\ \E n \in 0 .. Len(policy) - 1 :
       /\ Evaluable(policy, n)
       /\ Lists(decision'.fired, Firing(policy, n))
  /\ Decide("deny", TRUE)
  /\ UNCHANGED <<policy, budget>>

Fail ==
  /\ decision = Pending
  /\ ~ Evaluable(policy, Len(policy))
  /\ decision' = Raised
  /\ UNCHANGED <<policy, budget>>

Next == Complete \/ RunOut \/ Fail

Spec == Init /\ [][Next]_<<policy, budget, decision>>
=============================================================================
