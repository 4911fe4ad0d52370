---------------------------- MODULE TermsDocument ----------------------------
(***************************************************************************)
(* An openterms.json document as permissions/client.py reads it: the       *)
(* permission lookup of check, the discovery block, and the lifetime that  *)
(* the Cache-Control header or the client's default gives it.              *)
(*                                                                         *)
(* Here and in the other modules, an operator whose comment starts with    *)
(* "Slip" is not part of the model: it is a faulty version of the          *)
(* definition that follows it, and shows that the properties tell the two  *)
(* apart.                                                                  *)
(***************************************************************************)
EXTENDS Naturals, Sequences

CONSTANTS
  Docs,         \* the JSON objects the URLs may serve
  NoDoc,        \* no document: every URL refused
  Actions,      \* action names, in lower case
  Permissions,  \* [Docs -> sequence of key/value pairs, in document order]
  BrokenDocs,   \* documents whose "permissions" member is not an object
  ErrorDocs,    \* documents that hold an "error" member
  DiscoveryDocs \* documents that hold a "discovery" member

\* What a permission may be: the bare booleans, an object whose "allowed" is a
\* boolean, null, and everything else (strings, numbers, other objects).
Values == {"true", "false", "allowed_true", "allowed_false", "null", "other"}

Decisions == {"allow", "deny", "not_specified"}

\* Keys stand for their lower-case form, as check compares them.
Pair == [key: Actions, value: Values]

ASSUME DocAssumption ==
  /\ NoDoc \notin Docs
  /\ Actions # {}
  /\ Permissions \in [Docs -> Seq(Pair)]
  /\ BrokenDocs \subseteq Docs
  /\ ErrorDocs \subseteq Docs
  /\ DiscoveryDocs \subseteq Docs

Grants == {"true", "allowed_true"}
Refuses == {"false", "allowed_false"}

\* Slip: any value that is not null counts as a grant.
DecisionOfPresence(value) == IF value = "null" THEN "not_specified" ELSE "allow"

\* Slip: conditional objects are not looked into.
DecisionOfRaw(value) == IF value = "true" THEN "allow"
                        ELSE IF value = "false" THEN "deny" ELSE value

DecisionOf(value) == IF value \in Grants THEN "allow"
                     ELSE IF value \in Refuses THEN "deny"
                     ELSE "not_specified"

\* The positions of the keys that equal the action when case is ignored.
Matches(doc, action) ==
  {i \in DOMAIN Permissions[doc] : Permissions[doc][i].key = action}

\* check: only the first match counts, even when it is null.
Decision(doc, action) ==
  IF doc = NoDoc \/ Matches(doc, action) = {}
  THEN "not_specified"
  ELSE LET first == CHOOSE i \in Matches(doc, action) :
                      \A j \in Matches(doc, action) : i <= j
       IN  DecisionOf(Permissions[doc][first].value)

-----------------------------------------------------------------------------

\* A Cache-Control header: its max-age, if it has one, and whether it says
\* no-store or no-cache.
Headers == [hasMaxAge: BOOLEAN, seconds: Nat, noStore: BOOLEAN]

NoHeader == [hasMaxAge |-> FALSE, seconds |-> 0, noStore |-> FALSE]

EffectiveTTL(defaultTTL, header) ==
  IF header.hasMaxAge THEN header.seconds
  ELSE IF header.noStore THEN 0
  ELSE defaultTTL

\* What one GET brings: a 200 with a JSON object, or anything else (an
\* exception, another status, a body that is not a JSON object).
Response == [ok: BOOLEAN, doc: Docs \cup {NoDoc}, header: Headers]

Refused == [ok |-> FALSE, doc |-> NoDoc, header |-> NoHeader]

Urls == {"well_known", "root", "registry"}

\* The registry's answer must also be free of an "error" member.
Accepted(url, response) ==
  /\ response.ok
  /\ url = "registry" => response.doc \notin ErrorDocs
=============================================================================
