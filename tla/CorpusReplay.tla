----------------------------- MODULE CorpusReplay -----------------------------
(***************************************************************************)
(* scripts/generate_corpus.py: receipts are drawn bucket by bucket, in the *)
(* order of their timestamps, allowed ones linked into chains; then the    *)
(* corpus is evaluated, evaluated again to validate it, and evaluated with *)
(* a second policy, each time with the total of its UTC day so far as the  *)
(* snapshot of the daily_limit rule.  The budget of 0.1 s per evaluation   *)
(* is taken to suffice: PolicyEngine models the deadline.  Receipt_ids and *)
(* hashes do not collide, and signatures verify: ReceiptVerifier.          *)
(***************************************************************************)
EXTENDS PolicyRules, FiniteSets

CONSTANTS
  Scenarios,       \* scenario files: one is used
  PolicyV1, PolicyV2,  \* the rules of the two policies, in order
  Agents,
  ClusterDays,     \* the two days that daily_limit receipts are put on
  Target,          \* percentages of decisions that a corpus should have,
  Tolerance,       \* how far they may be off,
  MinFirings       \* and how often each rule must fire

HasLimit(policy) == \E i \in DOMAIN policy : policy[i].type = "daily_limit"

\* What the policy files of the corpus keep: rules are told apart by their ids (which
\* no code checks) and have the parameters that their types require.
WellFormed(policy) ==
  /\ policy \in Seq(Range(policy))
  /\ \A i, j \in DOMAIN policy : policy[i].id = policy[j].id => i = j
  /\ \A i \in DOMAIN policy : Required(policy[i].type) \subseteq DOMAIN policy[i].parameters
  /\ \A i \in DOMAIN policy :
       Required(policy[i].type) = {"threshold"} => policy[i].parameters.threshold \in Int
  /\ \A i \in DOMAIN policy :
       policy[i].type = "url_prefix_allowlist" => policy[i].parameters.allowed \subseteq Seq(STRING)

Amounts ==
  {"allow_max", "training_max", "escalation_only_min", "escalation_only_max",
   "daily_limit_per_receipt", "max_amount_min", "max_amount_max", "stress_min", "stress_max"}

ASSUME CorpusAssumption ==
  /\ WellFormed(PolicyV1) /\ WellFormed(PolicyV2)
  /\ HasLimit(PolicyV1) /\ HasLimit(PolicyV2)
  /\ \A scn \in Scenarios :
       /\ scn.count \in Nat
       /\ scn.amounts \in [Amounts -> Nat]
       /\ scn.terms_urls_allowed \subseteq Seq(STRING)
       /\ scn.terms_url_off_list \in Seq(STRING) /\ scn.terms_url_blocked \in Seq(STRING)
  /\ ClusterDays \in Nat \X Nat
  /\ Target \in [{"allow", "escalate", "deny"} -> Nat]
  /\ Tolerance \in Nat /\ MinFirings \in Nat
  /\ Absent \notin {"zeros", "other"}  \* the hashes of PostStatesOf

VARIABLES
  scenario,
  plan,       \* bucket and day of each receipt, in the order of time
  rows,       \* the receipts; a receipt_id is the position of its receipt
  chain,      \* chain_state
  stage,      \* what main is doing
  per_day,    \* totals per day of the receipts the present evaluation has seen
  results,    \* the decisions of the three evaluations
  diffs       \* the receipts that the second policy decides differently

vars == <<scenario, plan, rows, chain, stage, per_day, results, diffs>>

-----------------------------------------------------------------------------
(* Buckets and timestamps.                                                 *)

BUCKET_ORDER ==
  <<"model_training", "max_amount", "url_off_list", "url_blocked", "args_debug", "daily_limit",
    "escalation_only", "tool_off_list", "post_state_mismatch", "stress", "allow">>

\* build_bucket_assignments: a scenario says of every bucket how many receipts.
Assignments(scn) ==
  FoldLeft(LAMBDA out, b : out \o [i \in 1 .. scn.buckets[b] |-> b], << >>, BUCKET_ORDER)

HourMs == 3600000
DayMs == 86400000

\* The moment of the i-th receipt, in milliseconds after the window begins (at
\* midnight): the n-th of the daily_limit bucket is put on one of two days in turn,
\* two hours after the last one there; the others are spread over the window, from
\* its first moment to its last.
Moment(scn, buckets, i) ==
  LET n == Cardinality({j \in 1 .. i - 1 : buckets[j] = "daily_limit"})
  IN  IF buckets[i] = "daily_limit"
      THEN ClusterDays[(n % 2) + 1] * DayMs + (n \div 2) * 2 * HourMs
      ELSE ((i - 1) * scn.total_ms) \div Max({Len(buckets) - 1, 1})

\* The positions of these moments in the order of time, and of the buckets where
\* that is equal.
Chronological(moments) ==
  SortSeq([i \in DOMAIN moments |-> i],
          LAMBDA i, j : moments[i] < moments[j] \/ (moments[i] = moments[j] /\ i < j))

\* assign_timestamps.
Plan(scn) ==
  LET buckets == Assignments(scn)
      moments == [i \in DOMAIN buckets |-> Moment(scn, buckets, i)]
      order == Chronological(moments)
  IN  [k \in 1 .. scn.count |->
         [bucket |-> buckets[order[k]], day |-> moments[order[k]] \div DayMs]]

Count == Len(plan)
Days == {plan[i].day : i \in DOMAIN plan}

-----------------------------------------------------------------------------
(* What each bucket draws (build_receipt_payload).  The four action types  *)
(* other than model_training are one here, and so are the hashes.          *)

ActionOf(b) == IF b \in {"model_training", "stress"} THEN "model_training" ELSE "api_call"

AmountsOf(b) ==
  LET a == scenario.amounts IN
  CASE b = "model_training"  -> 0 .. a.training_max
    [] b = "max_amount"      -> a.max_amount_min .. a.max_amount_max
    [] b = "daily_limit"     -> {a.daily_limit_per_receipt}
    [] b = "escalation_only" -> a.escalation_only_min .. a.escalation_only_max
    [] b = "stress"          -> a.stress_min .. a.stress_max
    [] OTHER                 -> 0 .. a.allow_max

UrlsOf(b) ==
  CASE b \in {"url_off_list", "stress"} -> {scenario.terms_url_off_list}
    [] b = "url_blocked" -> {scenario.terms_url_blocked}
    [] OTHER             -> scenario.terms_urls_allowed

\* Slip: the tool of the args_debug bucket is one of the allowed ones.
ToolsOfNoDebug(b) ==
  IF b = "tool_off_list" THEN scenario.tools_off_list ELSE scenario.tools_allowed

ToolsOf(b) ==
  CASE b = "args_debug"    -> {scenario.tool_debug}
    [] b = "tool_off_list" -> scenario.tools_off_list
    [] OTHER               -> scenario.tools_allowed

\* The hash that is expected, of zeros, another one, or none.
PostStatesOf(b) ==
  LET Hash(value) == [path \in {PostStateHash} |-> value]
  IN  IF b = "post_state_mismatch" THEN {Hash("other")} ELSE {<< >>, Hash("zeros")}

\* The fields of f, and those of g that are not fields of f.
Merge(f, g) ==
  [path \in DOMAIN f \cup DOMAIN g |-> IF path \in DOMAIN f THEN f[path] ELSE g[path]]

\* Commitments are left out in the allow bucket only.
CommitmentsOf(b) ==
  {Merge([path \in {ToolId} |-> tool], post) : tool \in ToolsOf(b), post \in PostStatesOf(b)}
  \cup (IF b = "allow" THEN {<< >>} ELSE {})

Draws(b) ==
  {Merge([action_type |-> ActionOf(b), amount_charged |-> amount, terms_url |-> url], commitments) :
     amount \in AmountsOf(b), url \in UrlsOf(b), commitments \in CommitmentsOf(b)}

-----------------------------------------------------------------------------
(* Generation.                                                             *)

Passes == {"decisions", "reproduced", "simulated"}

NoChain == [active |-> FALSE, id |-> 0, depth |-> 0, parent |-> 0, agent |-> "none"]
Unlinked == [id |-> 0, depth |-> 0, parent |-> 0, agent |-> "none"]

\* A missing bucket is a KeyError, and counts that do not add up a ValueError.
Init ==
  /\ scenario \in Scenarios
  /\ Range(BUCKET_ORDER) \subseteq DOMAIN scenario.buckets
  /\ Len(Assignments(scenario)) = scenario.count
  /\ plan = Plan(scenario)
  /\ rows = << >>
  /\ chain = NoChain
  /\ stage = "generate"
  /\ per_day = [d \in Days |-> 0]
  /\ results = [pass \in Passes |-> << >>]
  /\ diffs = {}

\* Slip: chains have no end.
LinkOfEndless(agent) ==
  IF chain.active
  THEN [id |-> chain.id, depth |-> chain.depth, parent |-> chain.parent, agent |-> chain.agent]
  ELSE [id |-> Len(rows) + 1, depth |-> 0, parent |-> 0, agent |-> agent]

\* The link of the next receipt, made by this agent: the chain goes on up to
\* depth 2, then a new one starts.
LinkOf(agent) ==
  IF chain.active /\ chain.depth < 3
  THEN [id |-> chain.id, depth |-> chain.depth, parent |-> chain.parent, agent |-> chain.agent]
  ELSE [id |-> Len(rows) + 1, depth |-> 0, parent |-> 0, agent |-> agent]

\* Slip: a receipt that joins a chain does not become the parent of the next.
ChainAfterKeepsParent(link) ==
  [active |-> TRUE, id |-> link.id, depth |-> link.depth + 1,
   parent |-> IF link.depth = 0 THEN Len(rows) + 1 ELSE chain.parent, agent |-> link.agent]

ChainAfter(link) ==
  [active |-> TRUE, id |-> link.id, depth |-> link.depth + 1,
   parent |-> Len(rows) + 1, agent |-> link.agent]

\* One receipt more; receipts of the allow bucket may be members of a chain, and an
\* unknown bucket is an AssertionError.
Generate ==
  /\ stage = "generate" /\ Len(rows) < Count
  /\ plan[Len(rows) + 1].bucket \in Range(BUCKET_ORDER)
  /\ LET b == plan[Len(rows) + 1].bucket
     IN  \E receipt \in Draws(b), agent \in Agents,
            member \in IF b = "allow" THEN BOOLEAN ELSE {FALSE} :
           LET link == IF member THEN LinkOf(agent) ELSE Unlinked
           IN  /\ rows' = Append(rows, [bucket |-> b, receipt |-> receipt, agent |-> agent,
                                        day |-> plan[Len(rows) + 1].day, link |-> link])
               /\ chain' = IF member THEN ChainAfter(link) ELSE [chain EXCEPT !.active = FALSE]
  /\ UNCHANGED <<scenario, plan, stage, per_day, results, diffs>>

Generated ==
  /\ stage = "generate" /\ Len(rows) = Count
  /\ stage' = "decisions"
  /\ UNCHANGED <<scenario, plan, rows, chain, per_day, results, diffs>>

-----------------------------------------------------------------------------
(* Evaluation (evaluate_corpus).                                           *)

PolicyOf(pass) == IF pass = "simulated" THEN PolicyV2 ELSE PolicyV1

\* The first daily_limit rule, the one the snapshot is for (find_rule_id).
DailyLimit(policy) ==
  policy[Min({i \in DOMAIN policy : policy[i].type = "daily_limit"})]

Snapshot(policy, total) == [id \in {DailyLimit(policy).id} |-> total]

\* What the rules come to on a receipt, given the total of its day so far.
Verdicts(policy, row, total) ==
  [i \in DOMAIN policy |-> RuleVerdict(policy[i], row.receipt, Snapshot(policy, total))]

\* The positions up to n, in order.
Listed(positions, n) ==
  LET listed[i \in 0 .. n] ==
        IF i = 0 THEN << >>
        ELSE IF i \in positions THEN Append(listed[i - 1], i) ELSE listed[i - 1]
  IN  listed[n]

\* The decision of the policy engine, given what each rule came to.
Decision(policy, verdicts) ==
  LET firing == {i \in DOMAIN policy : verdicts[i] = "fires"}
      fired == Listed(firing, Len(policy))
      outcomes == {policy[i].outcome : i \in firing}
  IN  [value |-> IF "deny" \in outcomes THEN "deny"
                 ELSE IF "escalate" \in outcomes THEN "escalate" ELSE "allow",
       triggered |-> [k \in DOMAIN fired |-> policy[fired[k]].id]]

\* The ids of the rules that fired.
Fired(decision) == Range(decision.triggered)

\* Slip: the last amount of the day replaces the total.
TotalAfterLast(row) == row.receipt["amount_charged"]

\* The total of the day after a receipt, denied or not.
TotalAfter(row) == per_day[row.day] + row.receipt["amount_charged"]

\* The next receipt is evaluated; one that a rule raises on ends the program.
Evaluate ==
  /\ stage \in Passes /\ Len(results[stage]) < Count
  /\ LET row == rows[Len(results[stage]) + 1]
         policy == PolicyOf(stage)
         verdicts == Verdicts(policy, row, per_day[row.day])
         decision == Decision(policy, verdicts)
     IN  /\ "raises" \notin Range(verdicts)
         /\ results' = [results EXCEPT ![stage] = Append(@, decision)]
         /\ per_day' = [per_day EXCEPT ![row.day] = TotalAfter(row)]
  /\ UNCHANGED <<scenario, plan, rows, chain, stage, diffs>>

\* The positions of the receipts with this decision, and of those a rule fired on.
Decided(value) == {i \in DOMAIN results["decisions"] : results["decisions"][i].value = value}
FiredOn(id) == {i \in DOMAIN results["decisions"] : id \in Fired(results["decisions"][i])}

\* validate_corpus: the decisions are reproduced, as many of each as wanted, every
\* rule fires often enough, and a parent comes before its child.
Valid ==
  /\ results["reproduced"] = results["decisions"]
  /\ \A v \in DOMAIN Target :
       LET off == (100 * Cardinality(Decided(v))) - (Target[v] * Count)
       IN  off <= Tolerance * Count /\ - off <= Tolerance * Count
  /\ \A k \in DOMAIN PolicyV1 : Cardinality(FiredOn(PolicyV1[k].id)) >= MinFirings
  /\ \A i \in DOMAIN rows : rows[i].link.parent < i

\* Slip: only the decisions are compared.
DiffersInDecision(d1, d2) == d1.value # d2.value

Differs(d1, d2) == d1 # d2

\* An evaluation is complete.  What follows the second is the validation, what
\* follows the third compute_simulation_diffs.
Evaluated ==
  /\ stage \in Passes /\ Len(results[stage]) = Count
  /\ stage' = CASE stage = "decisions"  -> "reproduced"
                [] stage = "reproduced" -> IF Valid THEN "simulated" ELSE "failed"
                [] stage = "simulated"  -> "written"
  /\ per_day' = [d \in Days |-> 0]
  /\ diffs' = IF stage = "simulated"
              THEN {i \in DOMAIN rows : Differs(results["decisions"][i], results["simulated"][i])}
              ELSE diffs
  /\ UNCHANGED <<scenario, plan, rows, chain, results>>

Next == Generate \/ Generated \/ Evaluate \/ Evaluated

Spec == Init /\ [][Next]_vars

-----------------------------------------------------------------------------
(* Properties.                                                             *)

Links == [id: 0 .. Count, depth: 0 .. 2, parent: 0 .. Count, agent: Agents \cup {"none"}]

\* The type of every variable of the program.
TypeOK ==
  /\ scenario \in Scenarios
  /\ stage \in Passes \cup {"generate", "failed", "written"}
  /\ Len(rows) <= Count /\ (stage # "generate" => Len(rows) = Count)
  /\ \A i \in DOMAIN rows :
       rows[i].agent \in Agents /\ rows[i].day \in Days /\ rows[i].link \in Links
  /\ chain \in [active: BOOLEAN, id: 0 .. Count, depth: 0 .. 3, parent: 0 .. Count,
                agent: Agents \cup {"none"}]
  /\ per_day \in [Days -> Nat]
  /\ \A pass \in Passes : \A i \in DOMAIN results[pass] :
       /\ results[pass][i].value \in {"allow", "escalate", "deny"}
       /\ Fired(results[pass][i]) \subseteq {PolicyOf(pass)[j].id : j \in DOMAIN PolicyOf(pass)}
  /\ diffs \subseteq DOMAIN rows

\* The sum of the first n amounts.
Total(amounts, n) ==
  LET total[i \in 0 .. Len(amounts)] == IF i = 0 THEN 0 ELSE total[i - 1] + amounts[i]
  IN  total[n]

\* What the first n receipts charge on a day.
Spent(day, n) ==
  Total([i \in DOMAIN rows |-> IF rows[i].day = day THEN Amount(rows[i].receipt) ELSE 0], n)

\* The evaluation under way.
Now == results[stage]

Limit == DailyLimit(PolicyOf(stage))

\* The limit fires exactly on the receipts that bring the total of all receipts
\* of their day, denied ones included, over the threshold, in each evaluation
\* afresh: what passes on a day never exceeds it, and evaluations agree.
LimitFiresOnTotal ==
  stage \in Passes =>
    \A i \in DOMAIN Now :
      Limit.id \in Fired(Now[i]) <=> Spent(rows[i].day, i) > Limit.parameters.threshold

\* The i-th receipt is no member of a chain, or its root, or follows the receipt
\* before it, one deeper in the same chain and for the same originating agent.
Linked(i) ==
  LET link == rows[i].link IN
  link # Unlinked =>
    IF link.parent = 0 THEN link.depth = 0 /\ link.id = i /\ link.agent = rows[i].agent
    ELSE /\ link.parent = i - 1
         /\ rows[i - 1].link.id = link.id
         /\ rows[i - 1].link.depth = link.depth - 1
         /\ rows[i - 1].link.agent = link.agent

\* Chains are linked, whatever else is generated between them (validate_corpus
\* checks only that a parent is earlier).
ChainsAreLinked == stage = "generate" => \A i \in DOMAIN rows : Linked(i)

\* The rules, other than the daily limit, that a receipt of each bucket is for.
Meant(row) ==
  CASE row.bucket = "model_training" -> {"action_type_allowlist", "action_type_denylist"}
    [] row.bucket = "max_amount" -> {"max_amount", "escalation_threshold"}
    [] row.bucket = "url_off_list" -> {"url_prefix_allowlist"}
    [] row.bucket = "url_blocked" -> {"url_prefix_allowlist", "url_prefix_denylist"}
    [] row.bucket = "args_debug" -> {"args_pattern_match", "tool_id_allowlist"}
    [] row.bucket \in {"daily_limit", "escalation_only"} -> {"escalation_threshold"}
    [] row.bucket = "tool_off_list" -> {"tool_id_allowlist"}
    [] row.bucket = "post_state_mismatch" -> {"post_state_assertion"}
    [] row.bucket = "stress" -> {"action_type_allowlist", "action_type_denylist", "max_amount",
                                 "escalation_threshold", "url_prefix_allowlist"}
    [] row.bucket = "allow" -> IF ToolId \in DOMAIN row.receipt THEN {} ELSE {"tool_id_allowlist"}

\* What is drawn is on the sides of this rule that the buckets are named for.
Fits(rule, scn) ==
  LET p == rule.parameters
      a == scn.amounts
      hits(tool) ==
        \E i \in DOMAIN p.patterns : match_one(p.patterns[i].op, p.patterns[i].value, tool)
  IN
  CASE rule.type = "max_amount" ->
         /\ \A amount \in {a.allow_max, a.training_max, a.daily_limit_per_receipt,
                          a.escalation_only_max} : amount <= p.threshold
         /\ \A amount \in {a.max_amount_min, a.stress_min} : amount > p.threshold
    [] rule.type = "escalation_threshold" ->
         /\ \A amount \in {a.allow_max, a.training_max} : amount < p.threshold
         /\ \A amount \in {a.daily_limit_per_receipt, a.escalation_only_min,
                          a.max_amount_min, a.stress_min} : amount >= p.threshold
    [] rule.type = "daily_limit" -> TRUE
    [] rule.type = "action_type_allowlist" ->
         "api_call" \in p.allowed /\ "model_training" \notin p.allowed
    [] rule.type = "action_type_denylist" ->
         "api_call" \notin p.denied /\ "model_training" \in p.denied
    [] rule.type = "url_prefix_allowlist" ->
         /\ "source_field" \notin DOMAIN p
         /\ \A url \in scn.terms_urls_allowed : StartsWithOne(url, p.allowed)
         /\ \A url \in {scn.terms_url_off_list, scn.terms_url_blocked} :
              ~ StartsWithOne(url, p.allowed)
    [] rule.type = "url_prefix_denylist" ->
         /\ "source_field" \notin DOMAIN p
         /\ \A url \in scn.terms_urls_allowed \cup {scn.terms_url_off_list} :
              ~ StartsWithOne(url, p.denied)
         /\ StartsWithOne(scn.terms_url_blocked, p.denied)
    [] rule.type = "tool_id_allowlist" ->
         /\ scn.tools_allowed \subseteq p.allowed /\ p.allowed \subseteq Seq(STRING)
         /\ scn.tools_off_list \cap p.allowed = {} /\ scn.tool_debug \notin p.allowed
    [] rule.type = "args_pattern_match" ->
         /\ Get(p, "mode", "any") = "any"
         /\ \A i \in DOMAIN p.patterns : p.patterns[i].path = ToolId
         /\ hits(scn.tool_debug)
         /\ \A tool \in scn.tools_allowed \cup scn.tools_off_list : ~ hits(tool)
    [] rule.type = "post_state_assertion" ->
         /\ Get(p, "field", PostStateHash) = PostStateHash
         /\ Get(p, "applies_to", "post_action_only") = "post_action_only"
         /\ Get(p, "expected_hash", Absent) = "zeros"

RuleTypes ==
  {"max_amount", "daily_limit", "action_type_allowlist", "action_type_denylist",
   "url_prefix_allowlist", "url_prefix_denylist", "escalation_threshold", "tool_id_allowlist",
   "args_pattern_match", "post_state_assertion"}

\* The first policy has a rule of each type, with the type for its id, and the
\* scenarios are made for it.
Fitted ==
  /\ {PolicyV1[k].type : k \in DOMAIN PolicyV1} = RuleTypes
  /\ \A k \in DOMAIN PolicyV1 : PolicyV1[k].id = PolicyV1[k].type
  /\ \A k \in DOMAIN PolicyV1, scn \in Scenarios : Fits(PolicyV1[k], scn)

\* Of the first policy each receipt fires the rules its bucket is for and no others
\* but the daily limit, whatever else is drawn for it.  That receipts of the
\* allow bucket without commitments are escalated is part of it.
BucketsFire ==
  stage = "decisions" => \A i \in DOMAIN results["decisions"] :
    Fired(results["decisions"][i]) \ {DailyLimit(PolicyV1).id} = Meant(rows[i])

\* The second policy has the rules of the first, some with other parameters.
SameButParameters ==
  /\ DOMAIN PolicyV1 = DOMAIN PolicyV2
  /\ \A k \in DOMAIN PolicyV1 :
       /\ PolicyV1[k].id = PolicyV2[k].id
       /\ PolicyV1[k].type = PolicyV2[k].type
       /\ PolicyV1[k].outcome = PolicyV2[k].outcome

\* The ids of the rules that are not the same in both policies.
Changed ==
  LET rules1 == Range(PolicyV1)
      rules2 == Range(PolicyV2)
  IN  {rule.id : rule \in (rules1 \ rules2) \cup (rules2 \ rules1)}

\* The simulation shows what the change of rules does and nothing else: a receipt
\* is among the differences exactly if a changed rule fires on it under one
\* policy only, and no unchanged rule ever does, the daily limit included.
DiffsExplained ==
  LET fired1(i) == Fired(results["decisions"][i])
      fired2(i) == Fired(results["simulated"][i])
      turned(i) == (fired1(i) \ fired2(i)) \cup (fired2(i) \ fired1(i))
  IN  stage = "written" =>
        \A i \in DOMAIN rows : turned(i) \subseteq Changed /\ (i \in diffs <=> turned(i) # {})

\* Whether a rule of this type and with these parameters would fire.
Probe(type, parameters, receipt) ==
  LET rule == [id |-> "probe", type |-> type, outcome |-> "deny", parameters |-> parameters]
  IN  RuleVerdict(rule, receipt, << >>) = "fires"

\* The glob of what starts with this prefix, if it has no wildcard itself.
Plain(prefix) == Range(prefix) \cap {"*", "?"} = {}
GlobOf(prefix) == [path |-> "terms_url", op |-> "glob", value |-> Append(prefix, "*")]

\* How the rule types answer for one another at the parameters of a rule: just over
\* an amount is at the next one, off an allow list is not on the deny list of the
\* same entries, and a prefix is a glob that ends in a star, but for the empty
\* one, which an absent URL has as well (policy/rules.py, policy/pattern.py).
Agree(rule, receipt) ==
  LET p == rule.parameters IN
  /\ rule.type = "max_amount" =>
       /\ Probe("max_amount", p, receipt)
            <=> Probe("escalation_threshold", [threshold |-> p.threshold + 1], receipt)
       /\ Probe("max_amount", p, receipt) <=> Probe("daily_limit", p, receipt)
  /\ rule.type = "action_type_allowlist" =>
       (Probe("action_type_allowlist", p, receipt)
          <=> ~ Probe("action_type_denylist", [denied |-> p.allowed], receipt))
  /\ rule.type = "url_prefix_allowlist" =>
       /\ Probe("url_prefix_allowlist", [allowed |-> p.allowed], receipt)
            <=> ~ Probe("url_prefix_denylist", [denied |-> p.allowed], receipt)
       /\ \A prefix \in p.allowed : Plain(prefix) =>
            (Probe("url_prefix_denylist", [denied |-> {prefix}], receipt)
               <=> prefix = << >> \/ Hit(receipt, GlobOf(prefix)))

Without(receipt, field) == [f \in DOMAIN receipt \ {field} |-> receipt[f]]

\* The rule types agree on the newest receipt, and on what is left of it without
\* its URL.
RulesAgree ==
  stage = "generate" /\ rows # << >> =>
    \A k \in DOMAIN PolicyV1 :
      /\ Agree(PolicyV1[k], Last(rows).receipt)
      /\ Agree(PolicyV1[k], Without(Last(rows).receipt, "terms_url"))
=============================================================================
