------------------------------ MODULE PolicyRules ------------------------------
(***************************************************************************)
(* policy/rules.py and policy/pattern.py: what each rule type comes to on  *)
(* a receipt.                                                              *)
(*                                                                         *)
(* A receipt is a function from the dotted paths that are present in it to *)
(* their values, and so are the parameters of a rule.  Text is a sequence  *)
(* of symbols.                                                             *)
(***************************************************************************)
EXTENDS Integers, SequencesExt, GlobPattern

CONSTANT Absent  \* the value of what is not there, None in the code

ASSUME AbsentAssumption == Absent \notin Seq(STRING)

Get(f, key, default) == IF key \in DOMAIN f THEN f[key] ELSE default

resolve_path(receipt, path) == Get(receipt, path, Absent)

Ops == {"equals", "prefix", "suffix", "contains", "glob"}

\* The operators of the pattern language; nothing matches an absent value.
match_one(op, value, target) ==
  /\ target # Absent
  /\ CASE op = "equals" -> target = value
       [] op = "prefix" -> IsPrefix(value, target)
       [] op = "suffix" -> IsSuffix(value, target)
       [] op = "contains" -> \E rest \in Suffixes(target) : IsPrefix(value, rest)
       [] op = "glob" -> Matches(value, target)

Hit(receipt, pattern) ==
  match_one(pattern.op, pattern.value, resolve_path(receipt, pattern.path))

ToolId == "action_context.ors.commitments.tool_id"
PostStateHash == "action_context.ors.commitments.post_state_hash"

Amount(receipt) == resolve_path(receipt, "amount_charged")

\* The text of the field that a URL rule looks at, empty if it is absent.
Url(rule, receipt) ==
  LET value == resolve_path(receipt, Get(rule.parameters, "source_field", "terms_url"))
  IN  IF value = Absent THEN << >> ELSE value

StartsWithOne(text, prefixes) == \E p \in prefixes : IsPrefix(p, text)

\* The parameter that each rule type requires.
Required(type) ==
  CASE type \in {"max_amount", "daily_limit", "escalation_threshold"} -> {"threshold"}
    [] type \in {"action_type_allowlist", "url_prefix_allowlist", "tool_id_allowlist"} -> {"allowed"}
    [] type \in {"action_type_denylist", "url_prefix_denylist"} -> {"denied"}
    [] type = "args_pattern_match" -> {"patterns"}
    [] type = "post_state_assertion" -> {}

\* The ValueErrors of the evaluators; parameters that are there have the right types.
Raises(rule, receipt) ==
  \/ ~ Required(rule.type) \subseteq DOMAIN rule.parameters
  \/ Required(rule.type) = {"threshold"} /\ Amount(receipt) = Absent
  \/ rule.type = "args_pattern_match" /\
       \/ rule.parameters.patterns = << >>
       \/ \E i \in DOMAIN rule.parameters.patterns : rule.parameters.patterns[i].op \notin Ops

\* The total that daily_limit compares: what the caller's snapshot has for this
\* rule, and the receipt itself.
DailyTotal(rule, receipt, aggregates) == Get(aggregates, rule.id, 0) + Amount(receipt)

\* Slip: the boundary belongs to the other side.
EscalatesAbove(amount, threshold) == amount > threshold

Escalates(amount, threshold) == amount >= threshold

PostStateFires(rule, receipt) ==
  LET p == rule.parameters
      actual == resolve_path(receipt, Get(p, "field", PostStateHash))
      expected == Get(p, "expected_hash", Absent)
  IN  IF actual = Absent THEN Get(p, "applies_to", "post_action_only") = "always"
      ELSE expected \notin {Absent, actual}

PatternsFire(rule, receipt) ==
  LET patterns == rule.parameters.patterns
      hits == {i \in DOMAIN patterns : Hit(receipt, patterns[i])}
  IN  IF Get(rule.parameters, "mode", "any") = "all"
      THEN hits = DOMAIN patterns
      ELSE hits # {}

\* DISPATCH, for a rule that does not raise.
Fires(rule, receipt, aggregates) ==
  LET p == rule.parameters IN
  CASE rule.type = "max_amount" -> Amount(receipt) > p.threshold
    [] rule.type = "daily_limit" -> DailyTotal(rule, receipt, aggregates) > p.threshold
    [] rule.type = "escalation_threshold" -> Escalates(Amount(receipt), p.threshold)
    [] rule.type = "action_type_allowlist" -> resolve_path(receipt, "action_type") \notin p.allowed
    [] rule.type = "action_type_denylist" -> resolve_path(receipt, "action_type") \in p.denied
    [] rule.type = "url_prefix_allowlist" -> ~ StartsWithOne(Url(rule, receipt), p.allowed)
    [] rule.type = "url_prefix_denylist" -> StartsWithOne(Url(rule, receipt), p.denied)
    [] rule.type = "tool_id_allowlist" -> resolve_path(receipt, ToolId) \notin p.allowed
    [] rule.type = "args_pattern_match" -> PatternsFire(rule, receipt)
    [] rule.type = "post_state_assertion" -> PostStateFires(rule, receipt)

RuleVerdict(rule, receipt, aggregates) ==
  IF Raises(rule, receipt) THEN "raises"
  ELSE IF Fires(rule, receipt, aggregates) THEN "fires"
  ELSE "silent"
=============================================================================
