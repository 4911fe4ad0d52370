-------------------------- MODULE PolicyEngineProofs --------------------------
(***************************************************************************)
(* The evaluation loop of PolicyEngine implements the one-step decision of *)
(* PolicyDecision, for every policy, every behaviour of the rules and      *)
(* every moment at which the deadline passes.                              *)
(***************************************************************************)
EXTENDS PolicyEngine, SequenceTheorems, TLAPS

Firing(n) == Promise!Firing(policy, n)
Evaluable(n) == Promise!Evaluable(policy, n)

\* Inside a pattern rule: no pattern so far raises, and the count of matches
\* tells whether some, and whether all, of them matched.
PatternInv ==
  /\ Rule \in PatternRules
  /\ pattern \in 1 .. Len(Hits[Rule]) + 1
  /\ \A i \in 1 .. pattern - 1 : Hits[Rule][i] # "raises"
  /\ matches \in 0 .. pattern - 1
  /\ matches > 0 <=> \E i \in 1 .. pattern - 1 : Hits[Rule][i] = "match"
  /\ matches = pattern - 1 <=> \A i \in 1 .. pattern - 1 : Hits[Rule][i] = "match"

\* Between rules: the ones before next can be evaluated, and fired lists those
\* of them that fire.
LoopInv ==
  /\ decision = Pending
  /\ Evaluable(next - 1)
  /\ Promise!Lists(fired, Firing(next - 1))
  /\ pc \in {"apply", "pattern"} => next <= Len(policy)
  /\ pc \in {"check", "apply"} => pattern = 1 /\ matches = 0
  /\ pc = "apply" => Rule \notin PatternRules
  /\ pc = "pattern" => PatternInv

DoneRaised == decision = Raised /\ ~ Evaluable(Len(policy))

DoneTimeout ==
  /\ decision.value = "deny" /\ decision.timeout
  /\ \E n \in 0 .. Len(policy) - 1 :
       Evaluable(n) /\ Promise!Lists(decision.fired, Firing(n))

DoneComplete ==
  /\ decision.value = Promise!Highest(policy, Firing(Len(policy)))
  /\ decision.timeout = FALSE
  /\ Evaluable(Len(policy))
  /\ Promise!Lists(decision.fired, Firing(Len(policy)))

EvalInv == IF pc = "done" THEN DoneRaised \/ DoneTimeout \/ DoneComplete ELSE LoopInv

(***************************************************************************)
(* Types.                                                                  *)
(***************************************************************************)

LEMMA PolicyType == Init => policy \in Seq(Rules)
<1> SUFFICES ASSUME NEW n \in 0 .. MaxRules, policy \in [1 .. n -> Rules]
             PROVE  policy \in Seq(Rules)
  BY DEF Init
<1> QED
  BY EngineAssumption, SeqDef

LEMMA TypeInduction == /\ Init => TypeOK
                       /\ TypeOK /\ [Next]_vars => TypeOK'
<1>1. ASSUME Init PROVE TypeOK
  <2>1. << >> \in Seq(Nat)
    OBVIOUS
  <2>2. Pending \in Decisions
    BY <2>1 DEF Pending, Decisions
  <2>3. policy \in Seq(Rules)
    BY <1>1, PolicyType
  <2>4. /\ budget \in BOOLEAN /\ late \in BOOLEAN
        /\ pc = "check" /\ next = 1 /\ pattern = 1 /\ matches = 0
        /\ fired = << >> /\ decision = Pending
    BY <1>1 DEF Init
  <2>5. pc \in {"check", "apply", "pattern", "done"}
    BY <2>4
  <2>6. next \in Nat \ {0} /\ pattern \in Nat \ {0} /\ matches \in Nat
    BY <2>4
  <2>7. fired \in Seq(Nat) /\ decision \in Decisions
    BY <2>1, <2>2, <2>4, Zenon
  <2> QED
    BY <2>3, <2>4, <2>5, <2>6, <2>7, Zenon DEF TypeOK
<1>2. ASSUME TypeOK, [Next]_vars PROVE TypeOK'
  <2> USE <1>2 DEF TypeOK, Decisions
  <2>1. CASE Check
    BY <2>1 DEF Check
  <2>2. CASE Timeout
    <3>1. TimeoutDecision \in Decisions
      BY DEF TimeoutDecision, Outcomes
    <3> QED
      BY <2>2, <3>1 DEF Timeout
  <2>3. CASE Apply
    BY <2>3 DEF Apply, RuleEnds, TimeUp
  <2>4. CASE MatchPattern
    BY <2>4 DEF MatchPattern
  <2>5. CASE PatternRuleEnds
    BY <2>5 DEF PatternRuleEnds, RuleEnds, TimeUp
  <2>6. CASE Raise
    BY <2>6 DEF Raise, Raised
  <2>7. CASE Finish
    BY <2>7 DEF Finish, Final, Outcomes
  <2>8. CASE Tick
    BY <2>8 DEF Tick
  <2>9. CASE UNCHANGED vars
    BY <2>9 DEF vars
  <2> QED
    BY <2>1, <2>2, <2>3, <2>4, <2>5, <2>6, <2>7, <2>8, <2>9 DEF Next, Evaluate
<1> QED
  BY <1>1, <1>2

\* Every variable keeps its type in every evaluation.
THEOREM TypeCorrect == Spec => []TypeOK
BY TypeInduction, PTL DEF Spec

(***************************************************************************)
(* One rule more.                                                          *)
(***************************************************************************)

\* After n rules, the next one adds its position exactly when it fires.
LEMMA FiringGrows ==
  ASSUME NEW n \in Nat
  PROVE  Firing(n + 1) = IF Verdict[policy[n + 1]] = "fires"
                         THEN Firing(n) \cup {n + 1} ELSE Firing(n)
<1>1. \A i : i \in 1 .. n + 1 <=> i \in 1 .. n \/ i = n + 1
  OBVIOUS
<1> QED
  BY <1>1, Zenon DEF Firing, Promise!Firing

\* Appending a position beyond all listed ones keeps the list in order.
LEMMA ListsAppend ==
  ASSUME NEW n \in Nat, NEW seq \in Seq(Nat), NEW S \in SUBSET (1 .. n),
         Promise!Lists(seq, S)
  PROVE  Promise!Lists(Append(seq, n + 1), S \cup {n + 1})
<1> DEFINE longer == Append(seq, n + 1)
<1>1. /\ Len(longer) = Len(seq) + 1 /\ DOMAIN longer = 1 .. Len(seq) + 1
      /\ \A i \in 1 .. Len(seq) : longer[i] = seq[i]
      /\ longer[Len(seq) + 1] = n + 1
      /\ DOMAIN seq = 1 .. Len(seq) /\ Len(seq) \in Nat
  OBVIOUS
<1>2. \A i \in 1 .. Len(seq) : seq[i] \in S
  BY <1>1 DEF Promise!Lists, Promise!Range
<1> HIDE DEF longer
<1>3. Promise!Range(longer) = S \cup {n + 1}
  <2>1. \A x \in S : \E i \in 1 .. Len(seq) : longer[i] = x
    BY <1>1 DEF Promise!Lists, Promise!Range
  <2>2. S \cup {n + 1} \subseteq Promise!Range(longer)
    <3>1. \A x \in S : \E i \in DOMAIN longer : longer[i] = x
      <4> SUFFICES ASSUME NEW x \in S PROVE \E i \in DOMAIN longer : longer[i] = x
        OBVIOUS
      <4>1. PICK i \in 1 .. Len(seq) : longer[i] = x
        BY <2>1
      <4>2. i \in DOMAIN longer
        BY <1>1
      <4> QED
        BY <4>1, <4>2
    <3>2. Len(seq) + 1 \in DOMAIN longer /\ longer[Len(seq) + 1] = n + 1
      BY <1>1
    <3> QED
      BY <3>1, <3>2, Zenon DEF Promise!Range
  <2>3. \A i \in DOMAIN longer : longer[i] \in S \cup {n + 1}
    <3> SUFFICES ASSUME NEW i \in DOMAIN longer PROVE longer[i] \in S \cup {n + 1}
      OBVIOUS
    <3>1. CASE i \in 1 .. Len(seq)
      BY <1>1, <1>2, <3>1
    <3>2. CASE i = Len(seq) + 1
      BY <1>1, <3>2
    <3> QED
      BY <1>1, <3>1, <3>2
  <2> QED
    BY <2>2, <2>3 DEF Promise!Range
<1>4. ASSUME NEW i \in DOMAIN longer, NEW j \in DOMAIN longer, i < j
      PROVE  longer[i] < longer[j]
  <2>1. i \in 1 .. Len(seq) /\ longer[i] = seq[i] /\ seq[i] \in 1 .. n
    BY <1>1, <1>2, <1>4
  <2>2. CASE j = Len(seq) + 1
    BY <1>1, <2>1, <2>2
  <2>3. CASE j \in 1 .. Len(seq)
    BY <1>1, <1>4, <2>1, <2>3 DEF Promise!Lists
  <2> QED
    BY <1>1, <2>2, <2>3
<1> QED
  BY <1>3, <1>4 DEF Promise!Lists, longer

\* A rule that was evaluated without raising leaves the loop invariant standing
\* for the rule after it.
LEMMA RuleStep ==
  ASSUME TypeOK, LoopInv, next <= Len(policy), NEW fires \in BOOLEAN,
         Verdict[Rule] = IF fires THEN "fires" ELSE "silent",
         RuleEnds(fires), pattern' = 1, matches' = 0
  PROVE  LoopInv'
<1>1. next - 1 \in Nat /\ (next - 1) + 1 = next /\ next' - 1 = next /\ policy' = policy
  BY DEF TypeOK, RuleEnds
<1>2. Firing(next) = IF fires THEN Firing(next - 1) \cup {next} ELSE Firing(next - 1)
  BY <1>1, FiringGrows DEF Rule
<1>3. Promise!Lists(fired', Firing(next))
  <2>1. Firing(next - 1) \in SUBSET (1 .. next - 1)
    BY DEF Firing, Promise!Firing
  <2>2. Promise!Lists(Append(fired, next), Firing(next - 1) \cup {next})
    BY <1>1, <2>1, ListsAppend DEF LoopInv, TypeOK
  <2> QED
    BY <1>2, <2>2 DEF RuleEnds, LoopInv
<1>4. Evaluable(next)
  <2>1. \A i \in 1 .. next : i \in 1 .. next - 1 \/ i = next
    BY DEF TypeOK
  <2>2. \A i \in 1 .. next - 1 : Verdict[policy[i]] # "raises"
    BY DEF LoopInv, Evaluable, Promise!Evaluable
  <2>3. Verdict[policy[next]] # "raises"
    BY DEF Rule
  <2> QED
    BY <2>1, <2>2, <2>3 DEF Evaluable, Promise!Evaluable
<1>5. Evaluable(next - 1)'
  BY <1>1, <1>4 DEF Evaluable, Promise!Evaluable
<1>6. Promise!Lists(fired, Firing(next - 1))'
  BY <1>1, <1>3 DEF Firing, Promise!Firing, Promise!Lists
<1>7. decision' = Pending /\ pc' = "check"
  BY DEF LoopInv, RuleEnds
<1> QED
  BY <1>5, <1>6, <1>7 DEF LoopInv

\* A pattern rule whose patterns have all been matched fires or not as its
\* verdict says.
LEMMA PatternsDone ==
  ASSUME TypeOK, PatternInv, next <= Len(policy), pattern > Len(Hits[Rule])
  PROVE  Verdict[Rule] =
           IF PatternFires THEN "fires" ELSE "silent"
<1>1. Rule \in Rules /\ Rule \in PatternRules /\ Hits[Rule] \in Seq(PatternVerdicts)
  BY EngineAssumption DEF PatternInv
<1>2. pattern = Len(Hits[Rule]) + 1 /\ DOMAIN Hits[Rule] = 1 .. Len(Hits[Rule])
      /\ Len(Hits[Rule]) \in Nat
  BY <1>1 DEF PatternInv
<1>3. pattern - 1 = Len(Hits[Rule]) /\ 1 .. pattern - 1 = DOMAIN Hits[Rule]
  BY <1>2
<1>4. Verdict[Rule] = PatternVerdict(Rule)
  BY <1>1 DEF Verdict
<1>5. ~ \E i \in DOMAIN Hits[Rule] : Hits[Rule][i] = "raises"
  BY <1>3 DEF PatternInv
<1>6. /\ matches > 0 <=> \E i \in DOMAIN Hits[Rule] : Hits[Rule][i] = "match"
      /\ matches = Len(Hits[Rule]) <=> \A i \in DOMAIN Hits[Rule] : Hits[Rule][i] = "match"
  BY <1>3 DEF PatternInv
<1> QED
  BY <1>4, <1>5, <1>6 DEF PatternVerdict, PatternFires

\* One pattern more.
LEMMA PatternStep ==
  ASSUME TypeOK, PatternInv, next <= Len(policy), MatchPattern
  PROVE  PatternInv'
<1>1. /\ Hits[Rule] \in Seq(PatternVerdicts) /\ Rule' = Rule
      /\ pattern \in 1 .. Len(Hits[Rule]) /\ pattern' = pattern + 1
      /\ Len(Hits[Rule]) \in Nat
  BY EngineAssumption DEF PatternInv, MatchPattern, Rule
<1>2. \A i : i \in 1 .. pattern' - 1 <=> i \in 1 .. pattern - 1 \/ i = pattern
  BY <1>1
<1>3. Hits[Rule][pattern] # "raises"
  BY DEF MatchPattern
<1>4. matches' = IF Hits[Rule][pattern] = "match" THEN matches + 1 ELSE matches
  BY DEF MatchPattern
<1>5. matches' \in 0 .. pattern' - 1
  BY <1>1, <1>4 DEF PatternInv
<1>6. matches' > 0 <=> \E i \in 1 .. pattern' - 1 : Hits[Rule][i] = "match"
  BY <1>1, <1>2, <1>4 DEF PatternInv
<1>7. matches' = pattern' - 1 <=> \A i \in 1 .. pattern' - 1 : Hits[Rule][i] = "match"
  <2>1. CASE Hits[Rule][pattern] = "match"
    <3>1. matches' = pattern' - 1 <=> matches = pattern - 1
      BY <1>1, <1>4, <2>1 DEF PatternInv
    <3> QED
      BY <1>2, <2>1, <3>1 DEF PatternInv
  <2>2. CASE Hits[Rule][pattern] # "match"
    <3>1. matches' # pattern' - 1
      BY <1>1, <1>4, <2>2 DEF PatternInv
    <3> QED
      BY <1>2, <2>2, <3>1
  <2> QED
    BY <2>1, <2>2
<1>8. \A i \in 1 .. pattern' - 1 : Hits[Rule][i] # "raises"
  BY <1>2, <1>3 DEF PatternInv
<1>9. Rule \in PatternRules /\ pattern' \in 1 .. Len(Hits[Rule]) + 1
  BY <1>1 DEF PatternInv
<1>10. PatternInv' <=>
         /\ Rule' \in PatternRules
         /\ pattern' \in 1 .. Len(Hits[Rule']) + 1
         /\ \A i \in 1 .. pattern' - 1 : Hits[Rule'][i] # "raises"
         /\ matches' \in 0 .. pattern' - 1
         /\ matches' > 0 <=> \E i \in 1 .. pattern' - 1 : Hits[Rule'][i] = "match"
         /\ matches' = pattern' - 1 <=> \A i \in 1 .. pattern' - 1 : Hits[Rule'][i] = "match"
  BY DEF PatternInv
<1> QED
  BY <1>1, <1>5, <1>6, <1>7, <1>8, <1>9, <1>10

\* A verdict that raises comes from the rule itself or from one of its patterns.
LEMMA RaisingRule ==
  ASSUME TypeOK, LoopInv, Raise
  PROVE  ~ Evaluable(Len(policy))
<1>1. next \in 1 .. Len(policy) /\ Rule \in Rules /\ Hits[Rule] \in Seq(PatternVerdicts)
  BY EngineAssumption DEF TypeOK, LoopInv, Raise, Rule
<1>2. Verdict[Rule] = "raises"
  <2>1. CASE pc = "apply"
    BY <1>1, <2>1 DEF LoopInv, Raise, Verdict
  <2>2. CASE pc = "pattern"
    <3>1. pattern \in DOMAIN Hits[Rule] /\ Hits[Rule][pattern] = "raises"
      BY <1>1, <2>2 DEF LoopInv, Raise, PatternInv
    <3> QED
      BY <1>1, <2>2, <3>1 DEF LoopInv, PatternInv, Verdict, PatternVerdict
  <2> QED
    BY <2>1, <2>2 DEF Raise
<1> QED
  BY <1>1, <1>2 DEF Evaluable, Promise!Evaluable, Rule

\* The outcome the loop ends with is the highest among the rules that fire.
LEMMA FinalIsHighest ==
  ASSUME TypeOK, LoopInv, next = Len(policy) + 1
  PROVE  Final = Promise!Highest(policy, Firing(Len(policy)))
<1>1. next - 1 = Len(policy)
  BY DEF TypeOK
<1>2. {fired[i] : i \in DOMAIN fired} = Firing(Len(policy))
  BY <1>1 DEF LoopInv, Promise!Lists, Promise!Range
<1>3. \A x : x \in FiredOutcomes <=> \E p \in Firing(Len(policy)) : Outcome[policy[p]] = x
  BY <1>2 DEF FiredOutcomes
<1> QED
  BY <1>3 DEF Final, Promise!Highest

(***************************************************************************)
(* The invariant.                                                          *)
(***************************************************************************)

\* In the loop, next never exceeds the number of rules by more than one.
NextBound == pc # "done" => next <= Len(policy) + 1

LEMMA InitEval == Init => EvalInv /\ NextBound
<1> SUFFICES ASSUME Init PROVE EvalInv /\ NextBound
  OBVIOUS
<1>1. policy \in Seq(Rules)
  BY PolicyType
<1>2. Firing(0) = {} /\ Evaluable(0) /\ next - 1 = 0
  BY DEF Firing, Promise!Firing, Evaluable, Promise!Evaluable, Init
<1>3. Promise!Lists(<< >>, {})
  BY DEF Promise!Lists, Promise!Range
<1>4. /\ decision = Pending /\ fired = << >> /\ pc = "check"
      /\ next = 1 /\ pattern = 1 /\ matches = 0
  BY DEF Init
<1>5. LoopInv
  BY <1>2, <1>3, <1>4 DEF LoopInv
<1>6. NextBound
  BY <1>1, <1>4 DEF NextBound
<1> QED
  BY <1>4, <1>5, <1>6 DEF EvalInv

LEMMA StepEval ==
  ASSUME TypeOK, EvalInv, NextBound, [Next]_vars
  PROVE  EvalInv' /\ NextBound'
<1>1. CASE Check
  <2>1. LoopInv' /\ NextBound'
    <3>1. LoopInv /\ UNCHANGED <<policy, next, pattern, matches, fired, decision>>
      BY <1>1 DEF Check, EvalInv
    <3>2. Evaluable(next - 1)' /\ Promise!Lists(fired, Firing(next - 1))'
      BY <3>1 DEF LoopInv, Evaluable, Promise!Evaluable, Firing, Promise!Firing, Promise!Lists
    <3>3. pc' = "pattern" => PatternInv'
      <4> SUFFICES ASSUME pc' = "pattern" PROVE PatternInv'
        OBVIOUS
      <4>1. Rule \in PatternRules /\ Rule' = Rule /\ pattern = 1 /\ matches = 0
        BY <1>1, <3>1 DEF Check, LoopInv, Rule
      <4>2. Hits[Rule] \in Seq(PatternVerdicts)
        BY <4>1, EngineAssumption
      <4>3. 1 .. pattern - 1 = {} /\ pattern - 1 = 0 /\ Len(Hits[Rule]) \in Nat
        BY <4>1, <4>2
      <4> QED
        BY <3>1, <4>1, <4>3 DEF PatternInv
    <3> QED
      BY <1>1, <3>1, <3>2, <3>3 DEF Check, LoopInv, NextBound, Rule
  <2> QED
    BY <1>1, <2>1 DEF Check, EvalInv
<1>2. CASE Timeout
  <2>1. /\ pc # "done" /\ LoopInv /\ next - 1 \in 0 .. Len(policy) - 1
    BY <1>2 DEF Timeout, EvalInv, LoopInv, TypeOK
  <2>2. /\ decision'.value = "deny" /\ decision'.timeout /\ decision'.fired = fired
        /\ pc' = "done" /\ policy' = policy
    BY <1>2 DEF Timeout, TimeoutDecision
  <2>3. DoneTimeout'
    BY <2>1, <2>2 DEF DoneTimeout, LoopInv, Evaluable, Promise!Evaluable,
       Firing, Promise!Firing, Promise!Lists
  <2> QED
    BY <2>2, <2>3 DEF EvalInv, NextBound
<1>3. CASE Apply
  <2>1. /\ LoopInv /\ next <= Len(policy) /\ Rule \in Rules /\ Rule \notin PatternRules
    BY <1>3 DEF Apply, EvalInv, LoopInv, TypeOK, Rule
  <2>2. Verdict[Rule] = IF Plain[Rule] = "fires" THEN "fires" ELSE "silent"
    BY <1>3, <2>1, EngineAssumption DEF Verdict, Apply, Verdicts
  <2>3. pattern' = 1 /\ matches' = 0
    BY <1>3, <2>1 DEF Apply, LoopInv
  <2>4. LoopInv'
    BY <1>3, <2>1, <2>2, <2>3, RuleStep DEF Apply
  <2> QED
    BY <1>3, <2>1, <2>4 DEF Apply, RuleEnds, EvalInv, NextBound, TypeOK
<1>4. CASE MatchPattern
  <2>1. LoopInv /\ PatternInv /\ next <= Len(policy)
    BY <1>4 DEF MatchPattern, EvalInv, LoopInv
  <2>2. PatternInv'
    BY <1>4, <2>1, PatternStep
  <2>3. UNCHANGED <<policy, next, fired, decision, pc>> /\ pc = "pattern"
    BY <1>4 DEF MatchPattern
  <2>4. Evaluable(next - 1)' /\ Promise!Lists(fired, Firing(next - 1))'
    BY <2>1, <2>3 DEF LoopInv, Evaluable, Promise!Evaluable, Firing, Promise!Firing, Promise!Lists
  <2> QED
    BY <2>1, <2>2, <2>3, <2>4 DEF LoopInv, EvalInv, NextBound
<1>5. CASE PatternRuleEnds
  <2>1. LoopInv /\ PatternInv /\ next <= Len(policy)
    BY <1>5 DEF PatternRuleEnds, EvalInv, LoopInv
  <2>2. Verdict[Rule] = IF PatternFires THEN "fires" ELSE "silent"
    BY <1>5, <2>1, PatternsDone DEF PatternRuleEnds
  <2>3. PatternFires \in BOOLEAN
    BY Zenon DEF PatternFires
  <2>4. RuleEnds(PatternFires) /\ pattern' = 1 /\ matches' = 0
    BY <1>5, Zenon DEF PatternRuleEnds
  <2>5. LoopInv'
    BY <2>1, <2>2, <2>3, <2>4, RuleStep
  <2> QED
    BY <2>1, <2>4, <2>5 DEF RuleEnds, EvalInv, NextBound, TypeOK
<1>6. CASE Raise
  <2>1. LoopInv
    BY <1>6 DEF Raise, EvalInv
  <2>2. ~ Evaluable(Len(policy))
    BY <1>6, <2>1, RaisingRule
  <2> QED
    BY <1>6, <2>2 DEF Raise, EvalInv, NextBound, DoneRaised, Evaluable, Promise!Evaluable
<1>7. CASE Finish
  <2>1. LoopInv /\ next = Len(policy) + 1 /\ next - 1 = Len(policy)
    BY <1>7 DEF Finish, EvalInv, NextBound, TypeOK
  <2>2. Final = Promise!Highest(policy, Firing(Len(policy)))
    BY <2>1, FinalIsHighest
  <2>3. /\ decision'.value = Final /\ decision'.timeout = FALSE /\ decision'.fired = fired
        /\ pc' = "done" /\ policy' = policy
    BY <1>7 DEF Finish
  <2>4. DoneComplete'
    BY <2>1, <2>2, <2>3 DEF DoneComplete, LoopInv, Evaluable, Promise!Evaluable,
       Firing, Promise!Firing, Promise!Lists, Promise!Highest
  <2> QED
    BY <2>3, <2>4 DEF EvalInv, NextBound
<1>8. CASE Tick \/ UNCHANGED vars
  BY <1>8 DEF Tick, vars, EvalInv, NextBound, LoopInv, PatternInv, DoneRaised, DoneTimeout,
     DoneComplete, Evaluable, Promise!Evaluable, Firing, Promise!Firing, Promise!Lists,
     Promise!Highest, Rule
<1> QED
  BY <1>1, <1>2, <1>3, <1>4, <1>5, <1>6, <1>7, <1>8 DEF Next, Evaluate

LEMMA EvalInvariant == Spec => [](TypeOK /\ EvalInv /\ NextBound)
<1>1. Init => EvalInv /\ NextBound
  BY InitEval
<1>2. TypeOK /\ EvalInv /\ NextBound /\ [Next]_vars => EvalInv' /\ NextBound'
  BY StepEval
<1> QED
  BY <1>1, <1>2, TypeCorrect, PTL DEF Spec

\* "allow" is returned only when every rule was evaluated and none that denies
\* or escalates fires.
THEOREM EngineNeverFailsOpen == Spec => []NeverFailsOpen
<1>1. TypeOK /\ EvalInv => NeverFailsOpen
  <2> SUFFICES ASSUME TypeOK, EvalInv, decision.value = "allow", NEW i \in DOMAIN policy
               PROVE  /\ Verdict[policy[i]] # "raises"
                      /\ Verdict[policy[i]] = "fires" => Outcome[policy[i]] = "allow"
    BY DEF NeverFailsOpen
  <2>1. DoneComplete
    BY DEF EvalInv, LoopInv, DoneRaised, DoneTimeout, Pending, Raised
  <2>2. i \in 1 .. Len(policy) /\ policy[i] \in Rules
    BY DEF TypeOK
  <2>3. Outcome[policy[i]] \in Outcomes
    BY <2>2, EngineAssumption
  <2>4. Verdict[policy[i]] = "fires" => i \in Firing(Len(policy))
    BY <2>2 DEF Firing, Promise!Firing
  <2>5. ~ \E p \in Firing(Len(policy)) : Outcome[policy[p]] \in {"deny", "escalate"}
    BY <2>1 DEF DoneComplete, Promise!Highest
  <2> QED
    BY <2>1, <2>2, <2>3, <2>4, <2>5 DEF DoneComplete, Evaluable, Promise!Evaluable, Outcomes
<1> QED
  BY <1>1, EvalInvariant, PTL

\* A decision lists exactly the rules that fire, in order, among all rules or,
\* after a timeout, among those of a proper prefix.
THEOREM AuditIsComplete == Spec => []CompleteAudit
<1>1. TypeOK /\ EvalInv => CompleteAudit
  <2> SUFFICES ASSUME TypeOK, EvalInv, decision.value \in Outcomes
               PROVE  \E n \in 0 .. Len(policy) :
                        /\ Promise!Lists(decision.fired, Promise!Firing(policy, n))
                        /\ n < Len(policy) <=> decision.timeout
    BY DEF CompleteAudit
  <2>1. Len(policy) \in Nat
    BY DEF TypeOK
  <2>2. DoneComplete \/ DoneTimeout
    BY DEF EvalInv, LoopInv, DoneRaised, Pending, Raised, Outcomes
  <2> QED
    BY <2>1, <2>2 DEF DoneComplete, DoneTimeout, Firing
<1> QED
  BY <1>1, EvalInvariant, PTL

\* Each step of the loop is a step of the one-step decision or invisible to it.
THEOREM EngineImplementsPromise == Spec => ImplementsPromise
<1>1. Init => Promise!Init
  BY PolicyType DEF Init, Promise!Init, Pending, Promise!Pending
<1>2. TypeOK /\ EvalInv /\ EvalInv' /\ [Next]_vars
        => [Promise!Next]_<<policy, budget, decision>>
  <2> SUFFICES ASSUME TypeOK, EvalInv, EvalInv', [Next]_vars,
                      ~ UNCHANGED <<policy, budget, decision>>
               PROVE  Promise!Next
    OBVIOUS
  <2>1. Timeout \/ Raise \/ Finish
    BY DEF Next, Evaluate, Check, Apply, MatchPattern, PatternRuleEnds, RuleEnds, Tick, vars
  <2>2. pc # "done" /\ pc' = "done" /\ UNCHANGED <<policy, budget>>
    BY <2>1 DEF Timeout, Raise, Finish
  <2>3. decision = Promise!Pending
    BY <2>2 DEF EvalInv, LoopInv, Pending, Promise!Pending
  <2>4. CASE Timeout
    <3>1. budget /\ decision' = [value |-> "deny", fired |-> decision'.fired, timeout |-> TRUE]
      BY <2>4 DEF Timeout, TimeUp, TimeoutDecision
    <3>2. DoneTimeout'
      BY <2>2, <3>1 DEF EvalInv, DoneRaised, DoneComplete, Raised
    <3> QED
      BY <2>2, <2>3, <3>1, <3>2 DEF DoneTimeout, Promise!Next, Promise!RunOut, Promise!Decide,
         Evaluable, Firing, Promise!Evaluable, Promise!Firing
  <2>5. CASE Raise
    <3>1. decision' = Promise!Raised
      BY <2>5 DEF Raise, Raised, Promise!Raised
    <3>2. ~ Evaluable(Len(policy))
      BY <2>2, <2>5, RaisingRule DEF EvalInv
    <3> QED
      BY <2>2, <2>3, <3>1, <3>2 DEF Promise!Next, Promise!Fail, Evaluable
  <2>6. CASE Finish
    <3>1. decision' = [value |-> decision'.value, fired |-> decision'.fired, timeout |-> FALSE]
      BY <2>6 DEF Finish
    <3>2. DoneComplete'
      BY <2>2, <2>6 DEF EvalInv, DoneRaised, DoneTimeout, Raised, Finish, Final
    <3> QED
      BY <2>2, <2>3, <3>1, <3>2 DEF DoneComplete, Promise!Next, Promise!Complete,
         Promise!Decide, Evaluable, Firing, Promise!Evaluable, Promise!Firing, Promise!Highest
  <2> QED
    BY <2>1, <2>4, <2>5, <2>6
<1> QED
  BY <1>1, <1>2, EvalInvariant, PTL DEF Spec, ImplementsPromise, Promise!Spec

(***************************************************************************)
(* How long an evaluation takes.                                           *)
(***************************************************************************)

\* The rules that an evaluation has left, itself counted, and the steps that it has left
\* at most before the next one.
RulesLeft == IF pc = "done" THEN 0 ELSE (Len(policy) - next) + 2

StepsInRule ==
  CASE pc = "check" -> IF next <= Len(policy) /\ Rule \in PatternRules
                       THEN Len(Hits[Rule]) + 2 ELSE 2
    [] pc = "pattern" -> (Len(Hits[Rule]) - pattern) + 2
    [] pc = "apply" -> 1
    [] pc = "done" -> 0

\* Fewer rules are left, or fewer steps of this one.
Closer ==
  \/ RulesLeft' < RulesLeft
  \/ RulesLeft' = RulesLeft /\ StepsInRule' < StepsInRule

\* Both are naturals.
LEMMA LeftAreNaturals == TypeOK /\ EvalInv /\ NextBound => RulesLeft \in Nat /\ StepsInRule \in Nat
<1>. SUFFICES ASSUME TypeOK, EvalInv, NextBound PROVE RulesLeft \in Nat /\ StepsInRule \in Nat
  OBVIOUS
<1>1. /\ pc \in {"check", "apply", "pattern", "done"} /\ next \in Nat \ {0}
      /\ pattern \in Nat \ {0} /\ Len(policy) \in Nat
      /\ pc # "done" => next <= Len(policy) + 1
      /\ \A r \in PatternRules : Len(Hits[r]) \in Nat
      /\ pc = "pattern" => Rule \in PatternRules /\ pattern <= Len(Hits[Rule]) + 1
  <2>1. \A r \in PatternRules : Hits[r] \in Seq(PatternVerdicts)
    BY EngineAssumption
  <2>2. \A r \in PatternRules : Len(Hits[r]) \in Nat
    BY <2>1
  <2>3. pc = "pattern" => Rule \in PatternRules /\ pattern <= Len(Hits[Rule]) + 1
    BY <2>2 DEF EvalInv, LoopInv, PatternInv
  <2>. QED BY <2>2, <2>3 DEF TypeOK, NextBound
<1>2. RulesLeft \in Nat
  BY <1>1 DEF RulesLeft
<1>3. StepsInRule \in Nat
  BY <1>1 DEF StepsInRule
<1>. QED BY <1>2, <1>3

\* Each step of the evaluation brings it closer to its end.
LEMMA EvaluateCloser ==
  ASSUME TypeOK, EvalInv, NextBound, Evaluate
  PROVE  Closer
<1>1. /\ next \in Nat \ {0} /\ pattern \in Nat \ {0} /\ Len(policy) \in Nat
      /\ \A r \in PatternRules : Len(Hits[r]) \in Nat
  <2>1. \A r \in PatternRules : Hits[r] \in Seq(PatternVerdicts)
    BY EngineAssumption
  <2>. QED BY <2>1 DEF TypeOK
<1>2. policy' = policy
  BY DEF Evaluate, Check, Timeout, Apply, MatchPattern, PatternRuleEnds, Raise, Finish, RuleEnds
<1>3. CASE Check
  <2>1. /\ pc = "check" /\ next <= Len(policy) /\ next' = next /\ pattern' = pattern
        /\ pc' = IF Rule \in PatternRules THEN "pattern" ELSE "apply"
        /\ Rule' = Rule /\ pattern = 1
    BY <1>2, <1>3 DEF Check, Rule, EvalInv, LoopInv
  <2>2. RulesLeft' = RulesLeft
    BY <1>2, <2>1 DEF RulesLeft
  <2>3. StepsInRule' < StepsInRule
    BY <1>1, <1>2, <2>1 DEF StepsInRule
  <2>. QED BY <2>2, <2>3 DEF Closer
<1>4. CASE Timeout \/ Raise \/ Finish
  <2>1. pc # "done" /\ pc' = "done"
    BY <1>4 DEF Timeout, Raise, Finish
  <2>2. RulesLeft' < RulesLeft
    BY <1>1, <2>1 DEF RulesLeft, NextBound
  <2>. QED BY <2>2 DEF Closer
<1>5. CASE Apply \/ PatternRuleEnds
  <2>1. pc # "done" /\ pc' = "check" /\ next' = next + 1
    BY <1>5 DEF Apply, PatternRuleEnds, RuleEnds
  <2>2. RulesLeft' < RulesLeft
    BY <1>1, <1>2, <2>1 DEF RulesLeft, NextBound
  <2>. QED BY <2>2 DEF Closer
<1>6. CASE MatchPattern
  <2>1. /\ pc = "pattern" /\ pc' = "pattern" /\ next' = next /\ pattern' = pattern + 1
        /\ Rule' = Rule /\ Rule \in PatternRules
    BY <1>2, <1>6 DEF MatchPattern, Rule, EvalInv, LoopInv, PatternInv
  <2>2. RulesLeft' = RulesLeft
    BY <1>2, <2>1 DEF RulesLeft
  <2>3. StepsInRule' < StepsInRule
    BY <1>1, <2>1 DEF StepsInRule
  <2>. QED BY <2>2, <2>3 DEF Closer
<1>. QED BY <1>3, <1>4, <1>5, <1>6 DEF Evaluate

\* An evaluation runs out of steps, whatever policy it is given and whatever its rules come
\* to: each of its steps leaves fewer rules, or fewer steps of this one, and the clock brings
\* none back.  Returns has only to add that the evaluation goes on.
THEOREM EvaluationRunsOut ==
  Spec => /\ [](RulesLeft \in Nat /\ StepsInRule \in Nat)
          /\ [][IF late' # late THEN UNCHANGED <<RulesLeft, StepsInRule>> ELSE Closer]_vars
<1>1. TypeOK /\ EvalInv /\ NextBound => RulesLeft \in Nat /\ StepsInRule \in Nat
  BY LeftAreNaturals
<1>2. TypeOK /\ EvalInv /\ NextBound /\ [Next]_vars
        => [IF late' # late THEN UNCHANGED <<RulesLeft, StepsInRule>> ELSE Closer]_vars
  <2>1. ASSUME Tick PROVE late' # late /\ UNCHANGED <<RulesLeft, StepsInRule>>
    BY <2>1 DEF Tick, RulesLeft, StepsInRule, Rule
  <2>2. Evaluate => late' = late
    BY DEF Evaluate, Check, Timeout, Apply, MatchPattern, PatternRuleEnds, Raise, Finish, RuleEnds
  <2>. QED BY <2>1, <2>2, EvaluateCloser, Zenon DEF Next
<1>. QED BY <1>1, <1>2, EvalInvariant, PTL DEF Spec
=============================================================================
