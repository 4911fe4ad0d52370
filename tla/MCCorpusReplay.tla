---------------------------- MODULE MCCorpusReplay ----------------------------
(***************************************************************************)
(* A small instance of CorpusReplay: the policies and the scenario of      *)
(* tests/fixtures/corpus with small numbers in the same order, and a few   *)
(* receipts of some buckets each.                                          *)
(***************************************************************************)
EXTENDS CorpusReplay, TLC

CONSTANTS bot, scout

Rule(type, outcome, parameters) ==
  [id |-> type, type |-> type, outcome |-> outcome, parameters |-> parameters]

Vendor == <<"vendor">>

Policy(max_amount, urls) == <<
  Rule("max_amount", "deny", [threshold |-> max_amount]),
  Rule("daily_limit", "deny", [threshold |-> 8]),
  Rule("action_type_allowlist", "deny", [allowed |-> {"api_call"}]),
  Rule("action_type_denylist", "deny", [denied |-> {"model_training"}]),
  Rule("url_prefix_allowlist", "deny", [allowed |-> urls]),
  Rule("url_prefix_denylist", "deny", [denied |-> {<<"blocked">>}]),
  Rule("escalation_threshold", "escalate", [threshold |-> 1]),
  Rule("tool_id_allowlist", "escalate", [allowed |-> {<<"get">>}]),
  Rule("args_pattern_match", "deny",
       [mode |-> "any",
        patterns |-> <<[path |-> ToolId, op |-> "contains", value |-> <<"debug">>]>>]),
  Rule("post_state_assertion", "escalate", [expected_hash |-> "zeros"])>>

MCPolicyV1 == Policy(4, {<<"acme", "/">>})
MCPolicyV2 == Policy(2, {<<"acme", "/">>, Vendor})

\* A scenario over so many days; buckets that are not named are empty.
Scenario(days, buckets) ==
  [total_ms |-> days * DayMs,
   buckets |-> buckets @@ [b \in Range(BUCKET_ORDER) |-> 0],
   count |-> FoldFunction(+, 0, buckets),
   tools_allowed |-> {<<"get">>}, tools_off_list |-> {<<"unknown">>},
   tool_debug |-> <<"internal", "debug", "dump">>,
   terms_urls_allowed |-> {<<"acme", "/", "standard">>},
   terms_url_off_list |-> Append(Vendor, "terms"), terms_url_blocked |-> <<"blocked", "terms">>,
   amounts |-> [allow_max |-> 0, training_max |-> 0,
                escalation_only_min |-> 1, escalation_only_max |-> 4,
                daily_limit_per_receipt |-> 3, max_amount_min |-> 5, max_amount_max |-> 6,
                stress_min |-> 5, stress_max |-> 6]]

MCScenarios ==
  {\* chains of more than three members
   Scenario(1, "allow" :> 4),
   \* a day that exceeds its limit
   Scenario(1, "max_amount" :> 1 @@ "daily_limit" :> 2 @@ "escalation_only" :> 2),
   \* every other bucket
   Scenario(2, "model_training" :> 1 @@ "tool_off_list" :> 1 @@ "allow" :> 1),
   \* each rule fires
   Scenario(1, "url_off_list" :> 1 @@ "url_blocked" :> 1 @@ "args_debug" :> 1
                  @@ "daily_limit" :> 1 @@ "post_state_mismatch" :> 1 @@ "stress" :> 1)}

MCClusterDays == <<1, 0>>
MCTarget == [allow |-> 70, deny |-> 20, escalate |-> 10]

\* As in policy_v1.json and policy_v2.json.
ASSUME MCPoliciesAssumption == SameButParameters

\* As scenario.json is for policy_v1.json.
ASSUME MCScenariosAssumption == Fitted

\* The agents are interchangeable.
Swap == Permutations(Agents)
=============================================================================
