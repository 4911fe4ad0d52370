----------------------------- MODULE ReceiptFormat -----------------------------
(***************************************************************************)
(* receipts/canonical.py, signing.py, verification.py: what is signed of a *)
(* receipt, and in which order its parts are checked.                      *)
(*                                                                         *)
(* A hash stands for what was hashed and a signature for the key and the   *)
(* hash it was made from: SHA-256 and Ed25519 are taken to be perfect.     *)
(* Fields with the same rules are one field here: "required" stands for    *)
(* the required fields and the signed envelope, "optional" for the         *)
(* optional signed fields, "unsigned" for everything else.                 *)
(***************************************************************************)
EXTENDS Naturals

CONSTANTS
  Contents,    \* what a field may say, up to nulls inside it
  Uncanonical, \* contents that canonicalize rejects: floats, large integers, ...
  Nulls        \* whether a content may have members that are null

ASSUME ReceiptAssumption ==
  /\ Uncanonical \subseteq Contents /\ Contents \cap {"absent", "null"} = {}
  /\ Nulls \subseteq BOOLEAN

Fields == {"required", "optional", "unsigned"}

\* nulls says whether the content has members that are null.
Absent == [content |-> "absent", nulls |-> FALSE]
Null == [content |-> "null", nulls |-> FALSE]
Said == [content: Contents, nulls: Nulls]
Values == Said \cup {Absent, Null}
Bodies == [Fields -> Values]

\* The fields that build_payload takes: a required one even if it is null.
Taken(body) ==
  {"required"} \cup {f \in {"optional"} : body[f] \notin {Absent, Null}}

\* The bytes of canonicalize(build_payload(body)): nulls are stripped at every depth.
Canonical(body) ==
  [f \in {g \in Taken(body) : body[g] # Null} |-> body[f].content]

\* build_payload or canonicalize raises.
Rejected(body) ==
  \/ body["required"] = Absent
  \/ \E f \in Taken(body) : body[f].content \in Uncanonical

HashOf(body) == [is |-> "hash", of |-> Canonical(body)]
SignatureOf(key, body) == [is |-> "signature", key |-> key, of |-> Canonical(body)]

\* A hash or signature that is not there, and one that cannot be decoded to its length.
Missing == [is |-> "missing"]
Undecodable == [is |-> "undecodable"]
NoKeyId == 0

\* sign_receipt(build_payload(body), key, key): fields not signed do not go out.
SignReceipt(body, key) ==
  [body |-> [f \in Fields |-> IF f \in Taken(body) THEN body[f] ELSE Absent],
   canonical_hash |-> HashOf(body),
   signature |-> SignatureOf(key, body),
   key_id |-> key]

\* How the entry of a key in a JWKS may look.
Forms == {"ok", "otherType", "badLength"}

Verdicts == {"raises", "HASH_MISMATCH", "KEY_NOT_FOUND", "UNSUPPORTED_KEY_TYPE",
             "INVALID_KEY_LENGTH", "INVALID_SIGNATURE_LENGTH", "INVALID_SIGNATURE",
             "valid"}

\* A part is missing, or the content cannot be canonicalized.
Unreadable(r) ==
  r.canonical_hash = Missing \/ r.signature = Missing \/ r.key_id = NoKeyId \/ Rejected(r.body)

\* Slip: the signature is checked over the hash that came with the receipt, and
\* the hash is not checked against the content.
VerifyTrustsHash(r, keys, form) ==
  IF Unreadable(r) THEN "raises"
  ELSE IF r.key_id \notin keys THEN "KEY_NOT_FOUND"
  ELSE IF form[r.key_id] # "ok" THEN "UNSUPPORTED_KEY_TYPE"
  ELSE IF r.signature = [is |-> "signature", key |-> r.key_id, of |-> r.canonical_hash.of]
       THEN "valid" ELSE "INVALID_SIGNATURE"

\* Slip: nulls inside the content are hashed as they arrive.
VerifyKeepsNulls(r, keys, form) ==
  IF Unreadable(r) THEN "raises"
  ELSE IF \E f \in Taken(r.body) : r.body[f].nulls THEN "HASH_MISMATCH"
  ELSE VerifyTrustsHash(r, keys, form)

\* verify_receipt with a JWKS that has the given keys in the given forms; key
\* ids stand for keys.  The first test that fails decides.
VerifyReceipt(r, keys, form) ==
  IF Unreadable(r) THEN "raises"
  ELSE IF r.canonical_hash # HashOf(r.body) THEN "HASH_MISMATCH"
  ELSE IF r.key_id \notin keys THEN "KEY_NOT_FOUND"
  ELSE IF form[r.key_id] = "otherType" THEN "UNSUPPORTED_KEY_TYPE"
  ELSE IF form[r.key_id] = "badLength" THEN "INVALID_KEY_LENGTH"
  ELSE IF r.signature = Undecodable THEN "INVALID_SIGNATURE_LENGTH"
  ELSE IF r.signature # SignatureOf(r.key_id, r.body) THEN "INVALID_SIGNATURE"
  ELSE "valid"
=============================================================================
