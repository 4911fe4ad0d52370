------------------------- MODULE MCPermissionClient -------------------------
(***************************************************************************)
(* Small instances of PermissionClient: documents that differ in what they *)
(* say of one action, clients that differ in lifetime and registry.        *)
(***************************************************************************)
EXTENDS PermissionClient, TLC

CONSTANTS a, b, grants, denies, shadowed, broken, d1, d2, t1, t2

Pairs(doc) ==
  CASE doc = grants -> <<[key |-> b, value |-> "other"],
                         [key |-> a, value |-> "allowed_true"]>>
    [] doc = denies -> <<[key |-> a, value |-> "false"],
                         [key |-> b, value |-> "true"]>>
    [] doc = shadowed -> <<[key |-> a, value |-> "null"],
                           [key |-> a, value |-> "true"]>>
    [] OTHER -> << >>

Known(pair) == pair.key \in Actions

MCPermissions == [doc \in Docs |-> SelectSeq(Pairs(doc), Known)]

MaxAgeHeader(n) == [hasMaxAge |-> TRUE, seconds |-> n, noStore |-> FALSE]
NoStoreHeader == [hasMaxAge |-> FALSE, seconds |-> 0, noStore |-> TRUE]

Answered(doc, header) == [ok |-> TRUE, doc |-> doc, header |-> header]

\* Two documents and an outage: one with the default lifetime, one that is kept
\* for ever.
RaceResponses == {Refused, Answered(grants, NoHeader), Answered(denies, NoStoreHeader)}

\* The same with positive lifetimes.
PositiveResponses == {Refused, Answered(grants, NoHeader), Answered(denies, MaxAgeHeader(1))}

\* A plain document, one whose first matching key is null and hides a grant,
\* and one that makes check raise, each with its own header.
ShapeResponses == {Refused,
                   Answered(grants, MaxAgeHeader(1)),
                   Answered(shadowed, NoHeader),
                   Answered(broken, NoStoreHeader)}

NoStoreResponses == {Refused, Answered(grants, NoStoreHeader), Answered(denies, NoStoreHeader)}

Plain == [ttl |-> 1, registry |-> TRUE]
Local == [ttl |-> 0, registry |-> FALSE]
OnePlain == {Plain}
Both == {Plain, Local}

Symmetry == Permutations(Threads)
=============================================================================
