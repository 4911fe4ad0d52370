----------------------------- MODULE PolicyEngine -----------------------------
(***************************************************************************)
(* policy/engine.py: evaluate and evaluate_with_context, the loop over the *)
(* rules of a policy with its deadline checks, down to the loop over the   *)
(* patterns of an args_pattern_match rule.  The clock passes the deadline  *)
(* at any moment; a rule may raise ValueError.                             *)
(***************************************************************************)
EXTENDS Naturals, Sequences

CONSTANTS
  Rules,         \* rules a policy may hold
  Outcome,       \* [Rules -> Outcomes]
  PatternRules,  \* the rules of type args_pattern_match
  MatchAll,      \* the pattern rules whose mode is "all"
  Hits,          \* [Rules -> sequence of what each pattern comes to]
  Plain,         \* [Rules -> what a rule of another type comes to]
  MaxRules       \* bound on the length of a policy

PatternVerdicts == {"match", "miss", "raises"}
Outcomes == {"allow", "escalate", "deny"}
Verdicts == {"fires", "silent", "raises"}

ASSUME EngineAssumption ==
  /\ Outcome \in [Rules -> Outcomes]
  /\ PatternRules \subseteq Rules /\ MatchAll \subseteq PatternRules
  /\ Hits \in [Rules -> Seq(PatternVerdicts)]
  /\ \A r \in PatternRules : Hits[r] # << >>
  /\ Plain \in [Rules -> Verdicts]
  /\ MaxRules \in Nat

VARIABLES
  policy,    \* the coerced policy's rules
  budget,    \* a deadline was given
  late,      \* the clock has passed the deadline
  pc,        \* where the evaluation is
  next,      \* index of the rule under evaluation
  pattern,   \* index of the pattern under evaluation
  matches,   \* number of patterns of this rule that matched
  fired,     \* the positions of the rules that fired (triggered, fired_outcomes)
  decision   \* the decision returned

vars == <<policy, budget, late, pc, next, pattern, matches, fired, decision>>

Pending == [value |-> "pending", fired |-> << >>, timeout |-> FALSE]
Raised == [value |-> "raised", fired |-> << >>, timeout |-> FALSE]

Rule == policy[next]

Init ==
  /\ policy \in UNION {[1 .. n -> Rules] : n \in 0 .. MaxRules}
  /\ budget \in BOOLEAN
  /\ late \in BOOLEAN
  /\ pc = "check"
  /\ next = 1
  /\ pattern = 1
  /\ matches = 0
  /\ fired = << >>
  /\ decision = Pending

TimeUp == budget /\ late

\* Slip: the timeout falls through to the combination of what has fired.
TimeoutFallsThrough ==
  [value |-> IF fired = << >> THEN "allow" ELSE "deny",
   fired |-> fired, timeout |-> TRUE]

\* PolicyTimeout, caught outside the loop: deny, with what has fired so far.
TimeoutDecision == [value |-> "deny", fired |-> fired, timeout |-> TRUE]

\* The check before each rule.
Check ==
  /\ pc = "check"
  /\ next <= Len(policy)
  /\ ~ TimeUp
  /\ pc' = IF Rule \in PatternRules THEN "pattern" ELSE "apply"
  /\ UNCHANGED <<policy, budget, late, next, pattern, matches, fired, decision>>

\* The check before each rule, or before each pattern, finds the deadline passed.
Timeout ==
  /\ \/ pc = "check" /\ next <= Len(policy)
     \/ pc = "pattern" /\ pattern <= Len(Hits[Rule])
  /\ TimeUp
  /\ decision' = TimeoutDecision
  /\ pc' = "done"
  /\ UNCHANGED <<policy, budget, late, next, pattern, matches, fired>>

\* The rule has been evaluated; go on with the one after it.
RuleEnds(fires) ==
  /\ fired' = IF fires THEN Append(fired, next) ELSE fired
  /\ next' = next + 1
  /\ pc' = "check"
  /\ UNCHANGED <<policy, budget, late, decision>>

Apply ==
  /\ pc = "apply"
  /\ Plain[Rule] # "raises"
  /\ RuleEnds(Plain[Rule] = "fires")
  /\ UNCHANGED <<pattern, matches>>

\* Slip: a miss does not move on.
MatchPatternStays ==
  /\ pc = "pattern"
  /\ pattern <= Len(Hits[Rule])
  /\ ~ TimeUp
  /\ Hits[Rule][pattern] # "raises"
  /\ matches' = IF Hits[Rule][pattern] = "match" THEN matches + 1 ELSE matches
  /\ pattern' = IF Hits[Rule][pattern] = "match" THEN pattern + 1 ELSE pattern
  /\ UNCHANGED <<policy, budget, late, pc, next, fired, decision>>

MatchPattern ==
  /\ pc = "pattern"
  /\ pattern <= Len(Hits[Rule])
  /\ ~ TimeUp
  /\ Hits[Rule][pattern] # "raises"
  /\ matches' = IF Hits[Rule][pattern] = "match" THEN matches + 1 ELSE matches
  /\ pattern' = pattern + 1
  /\ UNCHANGED <<policy, budget, late, pc, next, fired, decision>>

\* What the matches of a pattern rule come to.
PatternFires ==
  \/ Rule \in MatchAll /\ matches = Len(Hits[Rule])
  \/ Rule \notin MatchAll /\ matches > 0

\* Slip: the count is not reset between rules.
PatternRuleEndsKeepsCount ==
  /\ pc = "pattern"
  /\ pattern > Len(Hits[Rule])
  /\ RuleEnds(PatternFires)
  /\ pattern' = 1
  /\ UNCHANGED matches

PatternRuleEnds ==
  /\ pc = "pattern"
  /\ pattern > Len(Hits[Rule])
  /\ RuleEnds(PatternFires)
  /\ pattern' = 1
  /\ matches' = 0

\* A ValueError of a rule leaves evaluate; nothing of the evaluation survives.
Raise ==
  /\ \/ pc = "apply" /\ Plain[Rule] = "raises"
     \/ /\ pc = "pattern" /\ pattern <= Len(Hits[Rule]) /\ ~ TimeUp
        /\ Hits[Rule][pattern] = "raises"
  /\ decision' = Raised
  /\ pc' = "done"
  /\ UNCHANGED <<policy, budget, late, next, pattern, matches, fired>>

FiredOutcomes == {Outcome[policy[fired[i]]] : i \in DOMAIN fired}

\* Slip: the last fired rule decides.
FinalLast == IF fired = << >> THEN "allow" ELSE Outcome[policy[fired[Len(fired)]]]

\* Slip: no default.
FinalNoDefault == IF fired = << >> THEN "none" ELSE "deny"

\* The highest outcome in precedence, allow when no rule fired.
Final == IF "deny" \in FiredOutcomes THEN "deny"
         ELSE IF "escalate" \in FiredOutcomes THEN "escalate"
         ELSE "allow"

Finish ==
  /\ pc = "check"
  /\ next > Len(policy)
  /\ decision' = [value |-> Final, fired |-> fired, timeout |-> FALSE]
  /\ pc' = "done"
  /\ UNCHANGED <<policy, budget, late, next, pattern, matches, fired>>

\* The clock passes the deadline.
Tick ==
  /\ ~ late
  /\ pc # "done"
  /\ late' = TRUE
  /\ UNCHANGED <<policy, budget, pc, next, pattern, matches, fired, decision>>

Evaluate == Check \/ Timeout \/ Apply \/ MatchPattern \/ PatternRuleEnds \/ Raise \/ Finish

Next == Evaluate \/ Tick

Spec == Init /\ [][Next]_vars
FairSpec == Spec /\ WF_vars(Evaluate)

-----------------------------------------------------------------------------
(* Properties.                                                             *)

Decisions == [value: Outcomes \cup {"pending", "raised"},
              fired: Seq(Nat), timeout: BOOLEAN]

\* The type of every variable of an evaluation.
TypeOK ==
  /\ policy \in Seq(Rules)
  /\ budget \in BOOLEAN /\ late \in BOOLEAN
  /\ pc \in {"check", "apply", "pattern", "done"}
  /\ next \in Nat \ {0} /\ pattern \in Nat \ {0} /\ matches \in Nat
  /\ fired \in Seq(Nat)
  /\ decision \in Decisions

\* What evaluating a rule alone, without a deadline, comes to.  A pattern that
\* cannot be evaluated raises even if another one already matched.
PatternVerdict(r) ==
  IF \E i \in DOMAIN Hits[r] : Hits[r][i] = "raises" THEN "raises"
  ELSE IF \/ r \in MatchAll /\ \A i \in DOMAIN Hits[r] : Hits[r][i] = "match"
          \/ r \notin MatchAll /\ \E i \in DOMAIN Hits[r] : Hits[r][i] = "match"
  THEN "fires"
  ELSE "silent"

Verdict == [r \in Rules |-> IF r \in PatternRules THEN PatternVerdict(r) ELSE Plain[r]]

Promise == INSTANCE PolicyDecision

\* "allow" comes only from an evaluation that went through every rule, in which
\* no rule that would deny or escalate fires: neither a deadline at any moment
\* nor a rule that raises fails open (the except clause, the precedence).
NeverFailsOpen ==
  decision.value = "allow" =>
    \A i \in DOMAIN policy :
      /\ Verdict[policy[i]] # "raises"
      /\ Verdict[policy[i]] = "fires" => Outcome[policy[i]] = "allow"

\* The fired rules on a decision are those that fire, once each and in policy
\* order: all of them, or when time ran out those of a proper prefix of the
\* policy (engine.py:13 "the audit trail must be complete").
CompleteAudit ==
  decision.value \in Outcomes =>
    \E n \in 0 .. Len(policy) :
      /\ Promise!Lists(decision.fired, Promise!Firing(policy, n))
      /\ n < Len(policy) <=> decision.timeout

\* The loop implements the one-step decision of PolicyDecision.
ImplementsPromise == Promise!Spec

\* Every evaluation returns or raises.
Returns == <>(pc = "done")
=============================================================================
