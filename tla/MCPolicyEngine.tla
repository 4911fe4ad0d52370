---------------------------- MODULE MCPolicyEngine ----------------------------
(***************************************************************************)
(* Small instances of PolicyEngine: one rule of each behaviour that the    *)
(* loop tells apart.                                                       *)
(***************************************************************************)
EXTENDS PolicyEngine, TLC

CONSTANTS allows, escalates, denies, quiet, broken, anyMatch, allMatch, badPattern

MCOutcome ==
  allows :> "allow" @@ escalates :> "escalate" @@ denies :> "deny" @@ quiet :> "deny"
  @@ broken :> "allow" @@ anyMatch :> "deny" @@ allMatch :> "escalate"
  @@ badPattern :> "allow"

MCPlain ==
  allows :> "fires" @@ escalates :> "fires" @@ denies :> "fires" @@ quiet :> "silent"
  @@ broken :> "raises" @@ anyMatch :> "silent" @@ allMatch :> "silent"
  @@ badPattern :> "silent"

MCHits ==
  [r \in Rules |-> CASE r = anyMatch -> <<"miss", "match">>
                     [] r = allMatch -> <<"match", "miss">>
                     [] r = badPattern -> <<"match", "raises">>
                     [] OTHER -> << >>]
=============================================================================
