---------------------------- MODULE ReceiptVerifier ----------------------------
(***************************************************************************)
(* client.py: IngestClient.verify and fetch_jwks, called by threads that   *)
(* share one client, while keys are rotated and receipts signed with them. *)
(*                                                                         *)
(* Key n is published with the n-th rotation and stays published, so that  *)
(* the n-th JWKS holds the keys 1 .. n, and n stands for it.               *)
(***************************************************************************)
EXTENDS ReceiptFormat, FiniteSets

CONSTANTS
  Threads,      \* threads that call the client
  Verifiers,    \* the threads that verify; the others only fetch
  Changes,      \* what may have happened to a receipt before it is verified
  EntryForms,   \* how the entries of the published keys may look
  StartKeys,    \* the jwks that the client may be constructed with
  MaxKeys,      \* bound on rotations
  MaxReceipts   \* bound on receipts

ASSUME VerifierAssumption ==
  /\ Changes \subseteq {"store", "content", "envelope"}
  /\ Verifiers \subseteq Threads
  /\ MaxKeys \in Nat \ {0} /\ MaxReceipts \in Nat
  /\ StartKeys \subseteq 0 .. 1 /\ EntryForms \subseteq Forms

VARIABLES
  published,    \* the JWKS at jwks_url
  active,       \* the key that receipts are signed with
  form,         \* [1 .. MaxKeys -> how the entry of the key looks]
  receipts,     \* the receipts as they were signed
  hasUrl,       \* whether jwks_url is set
  jwks,         \* _jwks
  call          \* [Threads -> the state of the thread's latest call]

service == <<published, active, form, receipts>>
vars == <<service, hasUrl, jwks, call>>

NoKeys == 0
NoReceipt == [is |-> "none"]

\* source says where the keys of a call came from; since is the JWKS when it
\* began (history).
Idle == [pc |-> "idle", op |-> "none", receipt |-> NoReceipt, source |-> "none",
         keys |-> NoKeys, since |-> NoKeys, result |-> "none"]

Init ==
  /\ published = 1 /\ active = 1
  /\ form \in [1 .. MaxKeys -> EntryForms]
  /\ receipts = {}
  /\ hasUrl \in BOOLEAN
  /\ jwks \in StartKeys
  /\ call = [t \in Threads |-> Idle]

\* A JWKS with one key more is published, and later the key is used.
Publish ==
  /\ published < MaxKeys
  /\ published' = published + 1
  /\ UNCHANGED <<active, form, receipts, hasUrl, jwks, call>>

Activate ==
  /\ active < published
  /\ active' = active + 1
  /\ UNCHANGED <<published, form, receipts, hasUrl, jwks, call>>

\* emit_receipt up to its POST; it raises, and nothing is signed, if the body
\* cannot be canonicalized.  Arguments that are None are not in the body.
Sign ==
  \E said \in Said, option \in Said \cup {Absent} :
    LET body == [f \in Fields |-> CASE f = "required" -> said
                                    [] f = "optional" -> option
                                    [] OTHER          -> Absent]
    IN  /\ ~ Rejected(body)
        /\ Cardinality(receipts) < MaxReceipts
        /\ receipts' = receipts \cup {SignReceipt(body, active)}
        /\ UNCHANGED <<published, active, form, hasUrl, jwks, call>>

-----------------------------------------------------------------------------
(* What a receipt may have become before it is verified.                   *)

\* A store may drop nulls inside fields and add fields of its own.
SameContent(b, body) ==
  /\ b["unsigned"] \in Values
  /\ \A f \in {"required", "optional"} :
       b[f].content = body[f].content /\ (b[f].nulls => body[f].nulls)

\* The content that a receipt with this one may arrive with.
Arriving(body) ==
  {body}
  \cup (IF "store" \in Changes THEN {b \in Bodies : SameContent(b, body)} ELSE {})
  \cup (IF "content" \in Changes
        THEN {[body EXCEPT ![f] = v] : f \in Fields, v \in Values} ELSE {})

\* A part of the envelope, or that of any other receipt, or none.
Swapped(part, own, others) ==
  IF "envelope" \in Changes THEN {own} \cup part \cup others ELSE {own}

Arrivals ==
  UNION {[body: Arriving(r.body),
          canonical_hash: Swapped({Missing}, r.canonical_hash, {q.canonical_hash : q \in receipts}),
          signature: Swapped({Missing, Undecodable}, r.signature, {q.signature : q \in receipts}),
          key_id: Swapped({NoKeyId}, r.key_id, {q.key_id : q \in receipts})] : r \in receipts}

-----------------------------------------------------------------------------
(* The calls of the client.                                                *)

Ready(t) == call[t].pc = "idle"

\* A call that begins now, and gets this far.
Call(op, r, pc, source, keys, result) ==
  [pc |-> pc, op |-> op, receipt |-> r, source |-> source, keys |-> keys,
   since |-> published, result |-> result]

\* What has become of call c.
Now(c, pc, keys, result) ==
  [pc |-> pc, op |-> c.op, receipt |-> c.receipt, source |-> c.source, keys |-> keys,
   since |-> c.since, result |-> result]

\* A verification of r ends with these keys.
Ended(r, keys, source) ==
  Call("verify", r, "done", source, keys, VerifyReceipt(r, 1 .. keys, form))

\* Slip: keys are fetched whether or not jwks_url is set.
VerifyStateFetches(r, given) ==
  IF given # NoKeys THEN Ended(r, given, "given")
  ELSE IF jwks # NoKeys THEN Ended(r, jwks, "cache")
  ELSE Call("verify", r, "fetch", "fetch", NoKeys, "none")

\* Where verify(r, given) gets to before a request or the end.
VerifyState(r, given) ==
  IF given # NoKeys THEN Ended(r, given, "given")
  ELSE IF jwks # NoKeys THEN Ended(r, jwks, "cache")
  ELSE IF hasUrl THEN Call("verify", r, "fetch", "fetch", NoKeys, "none")
  ELSE Call("verify", r, "done", "none", NoKeys, "raises")

Verify(t) ==
  /\ Ready(t)
  /\ t \in Verifiers
  /\ \E r \in Arrivals, given \in {NoKeys} \cup 1 .. published :
       call' = [call EXCEPT ![t] = VerifyState(r, given)]
  /\ UNCHANGED <<service, hasUrl, jwks>>

\* fetch_jwks(), called by the application.
Refresh(t) ==
  /\ Ready(t)
  /\ hasUrl
  /\ call' = [call EXCEPT ![t] = Call("refresh", NoReceipt, "fetch", "fetch", NoKeys, "none")]
  /\ UNCHANGED <<service, hasUrl, jwks>>

\* The answer to the request has been made and read.
Served(t) ==
  /\ call[t].pc = "fetch"
  /\ call' = [call EXCEPT ![t] = Now(call[t], "fetched", published, "none")]
  /\ UNCHANGED <<service, hasUrl, jwks>>

\* No answer, or none that can be read: IngestError or another exception.
FetchFails(t) ==
  /\ call[t].pc = "fetch"
  /\ call' = [call EXCEPT ![t] = Now(call[t], "done", NoKeys, "raises")]
  /\ UNCHANGED <<service, hasUrl, jwks>>

\* What a call comes to once it has these keys.
Outcome(t, keys) ==
  IF call[t].op = "verify" THEN VerifyReceipt(call[t].receipt, 1 .. keys, form) ELSE "none"

\* Slip: keys that are cached meanwhile are kept and used.
StoreKeepsFirst(t) ==
  /\ call[t].pc = "fetched"
  /\ LET keys == IF jwks # NoKeys THEN jwks ELSE call[t].keys
     IN  /\ jwks' = keys
         /\ call' = [call EXCEPT ![t] = Now(call[t], "done", keys, Outcome(t, keys))]
  /\ UNCHANGED <<service, hasUrl>>

\* self._jwks = jwks, whatever another thread has stored since the request, and
\* the end of the call.
Store(t) ==
  /\ call[t].pc = "fetched"
  /\ jwks' = call[t].keys
  /\ call' = [call EXCEPT ![t] = Now(call[t], "done", call[t].keys, Outcome(t, call[t].keys))]
  /\ UNCHANGED <<service, hasUrl>>

\* The caller has its answer, and may call again.
Return(t) ==
  /\ call[t].pc = "done"
  /\ call' = [call EXCEPT ![t] = Idle]
  /\ UNCHANGED <<service, hasUrl, jwks>>

Client(t) == \/ Verify(t) \/ Refresh(t) \/ Served(t) \/ FetchFails(t)
             \/ Store(t) \/ Return(t)

Next == \/ \E t \in Threads : Client(t)
        \/ Publish \/ Activate \/ Sign

Spec == Init /\ [][Next]_vars

-----------------------------------------------------------------------------
(* Properties.                                                             *)

Hashes == {HashOf(body) : body \in Bodies}
Signatures == {SignatureOf(key, body) : key \in 1 .. MaxKeys, body \in Bodies}
Receipts == [body: Bodies, canonical_hash: Hashes \cup {Missing},
             signature: Signatures \cup {Missing, Undecodable}, key_id: 0 .. MaxKeys]
Calls == [pc: {"idle", "fetch", "fetched", "done"}, op: {"none", "verify", "refresh"},
          receipt: Receipts \cup {NoReceipt}, source: {"none", "given", "cache", "fetch"},
          keys: 0 .. MaxKeys, since: 0 .. MaxKeys,
          result: Verdicts \cup {"none"}]

\* The calls whose verification has ended with a verdict.
Judged(t) == call[t].pc = "done" /\ call[t].op = "verify" /\ call[t].keys # NoKeys

\* The type of every variable; a request is under way only if there is a URL.
TypeOK ==
  /\ published \in 1 .. MaxKeys /\ active \in 1 .. published
  /\ form \in [1 .. MaxKeys -> EntryForms]
  /\ receipts \subseteq Receipts
  /\ hasUrl \in BOOLEAN /\ jwks \in 0 .. published
  /\ call \in [Threads -> Calls]
  /\ \A t \in Threads :
       /\ call[t].keys <= published /\ call[t].since <= published
       /\ call[t].pc \in {"fetch", "fetched"} => hasUrl

\* A receipt is found valid only if one with the same signed content was signed
\* with the key it names, whatever has become of its parts on the way.
ValidMeansSigned ==
  \A t \in Threads :
    Judged(t) /\ call[t].result = "valid" =>
      \E r \in receipts :
        /\ Canonical(r.body) = Canonical(call[t].receipt.body)
        /\ r.key_id = call[t].receipt.key_id

\* A signed receipt is found valid after any number of rotations, and after a
\* store has dropped its nulls and added fields, by whoever has a usable key.
SignedIsValid ==
  \A t \in Threads :
    /\ Judged(t)
    /\ \E r \in receipts :
         /\ call[t].receipt = [r EXCEPT !.body = call[t].receipt.body]
         /\ SameContent(call[t].receipt.body, r.body)
    /\ call[t].receipt.key_id <= call[t].keys
    /\ form[call[t].receipt.key_id] = "ok"
    => call[t].result = "valid"

\* A verification that finds no keys cached is decided by keys published since
\* it began, whatever other threads fetch and store meanwhile (client.py:236).
FetchDecides ==
  \A t \in Threads :
    Judged(t) /\ call[t].source = "fetch" => call[t].keys >= call[t].since
=============================================================================
