------------------------- MODULE ReceiptVerifierProofs -------------------------
(***************************************************************************)
(* Proofs about ReceiptVerifier: types, that what is found valid was       *)
(* signed, and that fetched keys are recent, for any number of threads,    *)
(* keys and receipts.                                                      *)
(***************************************************************************)
EXTENDS ReceiptVerifier, TLAPS

\* Each receipt was made by sign_receipt from what it says.
AllSigned ==
  \A r \in receipts :
    /\ r.signature = SignatureOf(r.key_id, r.body)
    /\ r.canonical_hash = HashOf(r.body)
    /\ ~ Rejected(r.body) /\ r.key_id # NoKeyId

\* The signature of a receipt under verification is damaged or comes from a
\* signed receipt.
Traced(c) ==
  c.op = "verify" =>
    c.receipt.signature \in {Missing, Undecodable} \cup {q.signature : q \in receipts}

\* A verdict is that of verify_receipt on the keys of the call.
Decided(c) ==
  c.pc = "done" /\ c.op = "verify" /\ c.keys # NoKeys =>
    c.result = VerifyReceipt(c.receipt, 1 .. c.keys, form)

\* Keys that a call fetched were published after it began.
Recent(c) == c.source = "fetch" /\ c.keys # NoKeys => c.keys >= c.since

\* What a call holds agrees with where it is and with the service.
Coherent(c) ==
  /\ c.keys <= published /\ c.since <= published
  /\ c.pc \in {"fetch", "fetched"} => hasUrl
  /\ c.pc = "fetched" => c.keys # NoKeys

Good(c) == Traced(c) /\ Decided(c) /\ Recent(c) /\ Coherent(c)

VerifierInv == TypeOK /\ AllSigned /\ \A t \in Threads : Good(call[t])

-----------------------------------------------------------------------------
(* Lemmas about receipts.                                                  *)

\* verify_receipt always comes to one of its verdicts.
LEMMA VerdictType ==
  ASSUME NEW r, NEW keys, NEW f
  PROVE  VerifyReceipt(r, keys, f) \in Verdicts
BY DEF VerifyReceipt, Verdicts

\* What goes out of sign_receipt is signed, and hashed, as it is received.
LEMMA SignedAsSent ==
  ASSUME NEW body \in Bodies, NEW key \in 1 .. MaxKeys, ~ Rejected(body)
  PROVE  LET r == SignReceipt(body, key)
         IN  /\ r \in Receipts /\ r.key_id = key
             /\ r.signature = SignatureOf(r.key_id, r.body)
             /\ r.canonical_hash = HashOf(r.body)
             /\ ~ Rejected(r.body)
<1> DEFINE r == SignReceipt(body, key)
<1> DEFINE sent == [f \in Fields |-> IF f \in Taken(body) THEN body[f] ELSE Absent]
<1>1. r.body = sent /\ r.canonical_hash = HashOf(body) /\ r.signature = SignatureOf(key, body)
      /\ r.key_id = key
  BY DEF SignReceipt
<1>2. sent \in Bodies
  BY DEF Bodies, Values, Fields
<1>3. Taken(sent) = Taken(body)
  BY DEF Taken, Fields
<1>4. \A f \in Taken(body) : sent[f] = body[f]
  BY DEF Taken, Fields
<1>5. Canonical(sent) = Canonical(body)
  <2>1. {g \in Taken(sent) : sent[g] # Null} = {g \in Taken(body) : body[g] # Null}
    BY <1>3, <1>4
  <2>2. \A f \in {g \in Taken(body) : body[g] # Null} : sent[f].content = body[f].content
    BY <1>4
  <2>. QED BY <2>1, <2>2 DEF Canonical
<1>6. r \in Receipts
  BY <1>1, <1>2 DEF SignReceipt, Receipts, Hashes, Signatures
<1>7. r.signature = SignatureOf(r.key_id, r.body)
  BY <1>1, <1>5 DEF SignatureOf
<1>8. r.canonical_hash = HashOf(r.body)
  BY <1>1, <1>5 DEF HashOf
<1>9. ~ Rejected(sent)
  <2>1. "required" \in Taken(body) /\ sent["required"] = body["required"]
    BY <1>4 DEF Taken
  <2>2. \A f \in Taken(sent) : sent[f].content \notin Uncanonical
    BY <1>3, <1>4 DEF Rejected
  <2>. QED BY <2>1, <2>2 DEF Rejected
<1>. HIDE DEF r
<1>. QED BY <1>1, <1>6, <1>7, <1>8, <1>9 DEF r

\* A valid receipt has the signature of its key over its content.
LEMMA ValidSignature ==
  ASSUME NEW r, NEW keys, NEW f, VerifyReceipt(r, keys, f) = "valid"
  PROVE  r.signature = SignatureOf(r.key_id, r.body)
BY DEF VerifyReceipt

\* A signature determines the key and the content that were signed.
LEMMA SignatureInjective ==
  ASSUME NEW k1, NEW b1, NEW k2, NEW b2, SignatureOf(k1, b1) = SignatureOf(k2, b2)
  PROVE  k1 = k2 /\ Canonical(b1) = Canonical(b2)
BY DEF SignatureOf

LEMMA SignatureThere ==
  ASSUME NEW k, NEW b
  PROVE  SignatureOf(k, b) \notin {Missing, Undecodable}
<1>1. SignatureOf(k, b).is = "signature" /\ Missing.is = "missing" /\ Undecodable.is = "undecodable"
  BY DEF SignatureOf, Missing, Undecodable
<1>. QED BY <1>1

\* What arrives is a receipt, with a signature of a signed one or a damaged one.
LEMMA ArrivalType ==
  ASSUME receipts \subseteq Receipts, NEW r \in Arrivals
  PROVE  /\ r \in Receipts
         /\ r.signature \in {Missing, Undecodable} \cup {q.signature : q \in receipts}
<1>1. PICK s \in receipts :
        /\ r \in [body: Arriving(s.body),
                  canonical_hash: Swapped({Missing}, s.canonical_hash, {q.canonical_hash : q \in receipts}),
                  signature: Swapped({Missing, Undecodable}, s.signature, {q.signature : q \in receipts}),
                  key_id: Swapped({NoKeyId}, s.key_id, {q.key_id : q \in receipts})]
  BY DEF Arrivals
<1>2. s \in Receipts /\ \A q \in receipts : q \in Receipts
  OBVIOUS
<1>3. r.body \in Bodies
  <2>1. s.body \in Bodies /\ r.body \in Arriving(s.body)
    BY <1>1, <1>2 DEF Receipts
  <2>2. \A f \in Fields, v \in Values : [s.body EXCEPT ![f] = v] \in Bodies
    BY <2>1 DEF Bodies
  <2>. QED BY <2>1, <2>2 DEF Arriving
<1>4. r.canonical_hash \in Hashes \cup {Missing}
  BY <1>1, <1>2 DEF Swapped, Receipts
<1>5. r.signature \in {Missing, Undecodable} \cup {q.signature : q \in receipts}
  BY <1>1 DEF Swapped
<1>6. r.signature \in Signatures \cup {Missing, Undecodable}
  BY <1>5, <1>2 DEF Receipts
<1>7. r.key_id \in 0 .. MaxKeys
  BY <1>1, <1>2, VerifierAssumption DEF Swapped, Receipts, NoKeyId
<1>8. r = [body |-> r.body, canonical_hash |-> r.canonical_hash,
           signature |-> r.signature, key_id |-> r.key_id]
  BY <1>1
<1>. QED BY <1>3, <1>4, <1>5, <1>6, <1>7, <1>8 DEF Receipts
\* Content that a store has kept is rejected, and hashed, as it was signed.
LEMMA KeptContent ==
  ASSUME NEW b \in Bodies, NEW body \in Bodies, SameContent(b, body), ~ Rejected(body)
  PROVE  Canonical(b) = Canonical(body) /\ ~ Rejected(b)
<1>1. \A f \in {"required", "optional"} :
        /\ b[f].content = body[f].content
        /\ b[f] = Absent <=> body[f] = Absent
        /\ b[f] = Null <=> body[f] = Null
  <2> SUFFICES ASSUME NEW f \in {"required", "optional"}
               PROVE  /\ b[f].content = body[f].content
                      /\ b[f] = Absent <=> body[f] = Absent
                      /\ b[f] = Null <=> body[f] = Null
    OBVIOUS
  <2>1. b[f] \in Values /\ body[f] \in Values /\ b[f].content = body[f].content
    BY DEF Bodies, Fields, SameContent
  <2>2. \A v \in Values : v.content = "absent" <=> v = Absent
    BY ReceiptAssumption DEF Values, Said, Absent, Null
  <2>3. \A v \in Values : v.content = "null" <=> v = Null
    BY ReceiptAssumption DEF Values, Said, Absent, Null
  <2> DEFINE v == b[f]
             w == body[f]
  <2>4. v = Absent <=> w = Absent
    <3> HIDE DEF v, w
    <3>1. v \in Values /\ w \in Values /\ v.content = w.content
      BY <2>1 DEF v, w
    <3>. QED BY <3>1, <2>2, Zenon
  <2>5. v = Null <=> w = Null
    <3> HIDE DEF v, w
    <3>1. v \in Values /\ w \in Values /\ v.content = w.content
      BY <2>1 DEF v, w
    <3>. QED BY <3>1, <2>3, Zenon
  <2>. QED BY <2>1, <2>4, <2>5, Zenon
<1>2. Taken(b) = Taken(body) /\ Taken(b) \subseteq {"required", "optional"}
  BY <1>1 DEF Taken
<1>3. Canonical(b) = Canonical(body)
  <2>1. {g \in Taken(b) : b[g] # Null} = {g \in Taken(body) : body[g] # Null}
    BY <1>1, <1>2
  <2>. QED BY <1>1, <1>2, <2>1 DEF Canonical
<1>4. ~ Rejected(b)
  BY <1>1, <1>2 DEF Rejected
<1>. QED BY <1>3, <1>4

-----------------------------------------------------------------------------
(* The invariant.                                                          *)

LEMMA InitInv == Init => VerifierInv
<1> SUFFICES ASSUME Init PROVE VerifierInv
  OBVIOUS
<1>1. Idle \in Calls
  BY VerifierAssumption DEF Idle, Calls, NoKeys
<1>2. TypeOK
  BY <1>1, VerifierAssumption DEF Init, TypeOK, Idle, NoKeys
<1>3. AllSigned
  BY DEF Init, AllSigned
<1>4. \A t \in Threads : Good(call[t])
  BY VerifierAssumption DEF Init, Good, Traced, Decided, Recent, Coherent, Idle, NoKeys
<1>. QED BY <1>2, <1>3, <1>4 DEF VerifierInv

\* A step of one thread keeps the invariant if its new state is a good one.
LEMMA ThreadStep ==
  ASSUME VerifierInv, NEW t \in Threads, NEW c \in Calls, Good(c),
         call' = [call EXCEPT ![t] = c],
         UNCHANGED <<service, hasUrl>>, jwks' \in 0 .. published
  PROVE  VerifierInv'
<1>1. TypeOK'
  BY DEF VerifierInv, TypeOK, service, Good, Coherent
<1>2. AllSigned'
  BY DEF VerifierInv, AllSigned, service
<1>3. ASSUME NEW u \in Threads PROVE Good(call[u])'
  <2>1. call'[u] = (IF u = t THEN c ELSE call[u]) /\ Good(call'[u])
    BY DEF VerifierInv, TypeOK
  <2>. QED BY <2>1 DEF Good, Traced, Decided, Recent, Coherent, service
<1>. QED BY <1>1, <1>2, <1>3 DEF VerifierInv

\* A step of the service keeps it if it leaves the calls alone,
\* and takes back no key and no receipt.
LEMMA ServiceStep ==
  ASSUME VerifierInv, TypeOK', AllSigned', UNCHANGED <<call, form, hasUrl>>,
         receipts \subseteq receipts', published <= published'
  PROVE  VerifierInv'
<1>1. ASSUME NEW t \in Threads PROVE Good(call[t])'
  <2>1. Good(call[t]) /\ call[t] \in Calls /\ published \in Nat /\ published' \in Nat
    BY VerifierAssumption DEF VerifierInv, TypeOK
  <2>2. Traced(call[t])'
    BY <2>1 DEF Good, Traced
  <2>3. Decided(call[t])' /\ Recent(call[t])'
    BY <2>1 DEF Good, Decided, Recent
  <2>4. Coherent(call[t])'
    BY <2>1 DEF Good, Coherent, Calls
  <2>. QED BY <2>2, <2>3, <2>4 DEF Good
<1>. QED BY <1>1 DEF VerifierInv

LEMMA StepInv == VerifierInv /\ [Next]_vars => VerifierInv'
<1> SUFFICES ASSUME VerifierInv, [Next]_vars PROVE VerifierInv'
  OBVIOUS
<1>0. TypeOK /\ AllSigned /\ \A t \in Threads : call[t] \in Calls /\ Good(call[t])
  BY DEF VerifierInv, TypeOK
<1>1. ASSUME NEW t \in Threads, Verify(t) PROVE VerifierInv'
  <2>1. PICK r \in Arrivals, given \in {NoKeys} \cup 1 .. published :
          call' = [call EXCEPT ![t] = VerifyState(r, given)]
    BY <1>1 DEF Verify
  <2>2. r \in Receipts
        /\ r.signature \in {Missing, Undecodable} \cup {q.signature : q \in receipts}
    BY <1>0, ArrivalType DEF TypeOK
  <2>3. /\ given \in 0 .. published /\ jwks \in 0 .. published
        /\ published \in 1 .. MaxKeys
    BY <1>0, VerifierAssumption DEF TypeOK, NoKeys
  <2>5. \A keys : VerifyReceipt(r, keys, form) \in Verdicts
    BY VerdictType
  <2>6. ASSUME NEW keys \in 1 .. published, NEW source \in {"given", "cache"}
        PROVE  Ended(r, keys, source) \in Calls /\ Good(Ended(r, keys, source))
    <3>1. Ended(r, keys, source) =
            [pc |-> "done", op |-> "verify", receipt |-> r, source |-> source,
             keys |-> keys, since |-> published,
             result |-> VerifyReceipt(r, 1 .. keys, form)]
      BY DEF Ended, Call
    <3>2. Ended(r, keys, source) \in Calls
      BY <3>1, <2>2, <2>3, <2>5, VerifierAssumption DEF Calls
    <3>3. Good(Ended(r, keys, source))
      BY <3>1, <2>2, <2>3 DEF Good, Traced, Decided, Recent, Coherent
    <3>. QED BY <3>2, <3>3
  <2>7. VerifyState(r, given) \in Calls /\ Good(VerifyState(r, given))
    <3>1. CASE given # NoKeys
      BY <3>1, <2>3, <2>6 DEF VerifyState, NoKeys
    <3>2. CASE given = NoKeys /\ jwks # NoKeys
      BY <3>2, <2>3, <2>6 DEF VerifyState, NoKeys
    <3>3. CASE given = NoKeys /\ jwks = NoKeys /\ hasUrl
      <4>1. VerifyState(r, given) =
              [pc |-> "fetch", op |-> "verify", receipt |-> r, source |-> "fetch",
               keys |-> NoKeys, since |-> published, result |-> "none"]
        BY <3>3 DEF VerifyState, Call
      <4>. QED BY <4>1, <3>3, <2>2, <2>3, VerifierAssumption
               DEF Calls, Good, Traced, Decided, Recent, Coherent, NoKeys
    <3>4. CASE given = NoKeys /\ jwks = NoKeys /\ ~ hasUrl
      <4>1. VerifyState(r, given) =
              [pc |-> "done", op |-> "verify", receipt |-> r, source |-> "none",
               keys |-> NoKeys, since |-> published, result |-> "raises"]
        BY <3>4 DEF VerifyState, Call
      <4>. QED BY <4>1, <2>2, <2>3, VerifierAssumption
               DEF Calls, Good, Traced, Decided, Recent, Coherent, NoKeys, Verdicts
    <3>. QED BY <3>1, <3>2, <3>3, <3>4
  <2>8. UNCHANGED <<service, hasUrl>> /\ jwks' \in 0 .. published
    BY <1>1, <2>3 DEF Verify
  <2>. QED BY <2>1, <2>7, <2>8, ThreadStep
<1>2. ASSUME NEW t \in Threads, Refresh(t) PROVE VerifierInv'
  <2> DEFINE c == [pc |-> "fetch", op |-> "refresh", receipt |-> NoReceipt, source |-> "fetch",
                   keys |-> NoKeys, since |-> published, result |-> "none"]
  <2>1. call' = [call EXCEPT ![t] = c] /\ hasUrl
    BY <1>2 DEF Refresh, Call
  <2>2. c \in Calls
    BY <1>0, VerifierAssumption DEF Calls, TypeOK, NoKeys
  <2>3. Good(c)
    BY <1>0, <2>1, VerifierAssumption DEF Good, Traced, Decided, Recent, Coherent, NoKeys, TypeOK
  <2>4. UNCHANGED <<service, hasUrl>> /\ jwks' \in 0 .. published
    BY <1>0, <1>2 DEF Refresh, TypeOK
  <2>. QED BY <2>1, <2>2, <2>3, <2>4, ThreadStep
<1>3. ASSUME NEW t \in Threads, Served(t) PROVE VerifierInv'
  <2> DEFINE c == Now(call[t], "fetched", published, "none")
  <2>1. call' = [call EXCEPT ![t] = c]
    BY <1>0, <1>3 DEF Served, TypeOK
  <2>2. published \in 1 .. MaxKeys /\ c \in Calls
    BY <1>0, VerifierAssumption DEF Calls, TypeOK, Now
  <2>3. Good(c)
    BY <1>0, <1>3, <2>2, VerifierAssumption
    DEF Good, Traced, Decided, Recent, Coherent, NoKeys, Served, Calls, Now
  <2>4. UNCHANGED <<service, hasUrl>> /\ jwks' \in 0 .. published
    BY <1>0, <1>3 DEF Served, TypeOK
  <2>. QED BY <2>1, <2>2, <2>3, <2>4, ThreadStep
<1>4. ASSUME NEW t \in Threads, FetchFails(t) PROVE VerifierInv'
  <2> DEFINE c == Now(call[t], "done", NoKeys, "raises")
  <2>1. call' = [call EXCEPT ![t] = c]
    BY <1>0, <1>4 DEF FetchFails, TypeOK
  <2>2. c \in Calls
    BY <1>0, VerifierAssumption DEF Calls, Verdicts, Now, NoKeys
  <2>3. Good(c)
    BY <1>0, <1>4, <2>2 DEF Good, Traced, Decided, Recent, Coherent, NoKeys, FetchFails, Calls, Now, TypeOK
  <2>4. UNCHANGED <<service, hasUrl>> /\ jwks' \in 0 .. published
    BY <1>0, <1>4 DEF FetchFails, TypeOK
  <2>. QED BY <2>1, <2>2, <2>3, <2>4, ThreadStep
<1>5. ASSUME NEW t \in Threads, Store(t) PROVE VerifierInv'
  <2> DEFINE c == Now(call[t], "done", call[t].keys, Outcome(t, call[t].keys))
  <2>1. call' = [call EXCEPT ![t] = c]
    BY <1>0, <1>5 DEF Store, TypeOK
  <2>2. c \in Calls
    BY <1>0, VerdictType DEF Calls, Outcome, Now
  <2>3. Good(c)
    BY <1>0, <1>5, <2>2 DEF Good, Traced, Decided, Recent, Coherent, Store, Calls, Outcome, Now
  <2>4. UNCHANGED <<service, hasUrl>> /\ jwks' \in 0 .. published
    BY <1>0, <1>5, VerifierAssumption DEF Store, TypeOK, Calls, Good, Coherent
  <2>. QED BY <2>1, <2>2, <2>3, <2>4, ThreadStep
<1>6. ASSUME NEW t \in Threads, Return(t) PROVE VerifierInv'
  <2>1. call' = [call EXCEPT ![t] = Idle]
    BY <1>6 DEF Return
  <2>2. Idle \in Calls /\ Good(Idle)
    BY <1>0, VerifierAssumption
    DEF Idle, Calls, Good, Traced, Decided, Recent, Coherent, NoKeys, TypeOK
  <2>3. UNCHANGED <<service, hasUrl>> /\ jwks' \in 0 .. published
    BY <1>0, <1>6 DEF Return, TypeOK
  <2>. QED BY <2>1, <2>2, <2>3, ThreadStep
<1>7. ASSUME Publish PROVE VerifierInv'
  <2>1. published \in 1 .. MaxKeys /\ published' = published + 1 /\ published' \in 1 .. MaxKeys
    BY <1>0, <1>7, VerifierAssumption DEF Publish, TypeOK
  <2>2. TypeOK'
    <3>1. \A t \in Threads : call[t].keys <= published' /\ call[t].since <= published'
      BY <1>0, <2>1 DEF TypeOK, Calls
    <3>2. active' \in 1 .. published' /\ jwks' \in 0 .. published'
      BY <1>0, <1>7, <2>1 DEF TypeOK, Publish
    <3>. QED BY <1>0, <1>7, <2>1, <3>1, <3>2 DEF TypeOK, Publish
  <2>3. AllSigned'
    BY <1>0, <1>7 DEF Publish, AllSigned
  <2>. QED BY <1>7, <2>1, <2>2, <2>3, ServiceStep DEF Publish
<1>8. ASSUME Activate PROVE VerifierInv'
  <2>1. TypeOK'
    BY <1>0, <1>8, VerifierAssumption DEF TypeOK, Activate
  <2>2. AllSigned'
    BY <1>0, <1>8 DEF Activate, AllSigned
  <2>3. published <= published'
    BY <1>0, <1>8, VerifierAssumption DEF TypeOK, Activate
  <2>. QED BY <1>8, <2>1, <2>2, <2>3, ServiceStep DEF Activate
<1>9. ASSUME Sign PROVE VerifierInv'
  <2>1. PICK said \in Said, option \in Said \cup {Absent} :
          LET b == [f \in Fields |-> CASE f = "required" -> said
                                       [] f = "optional" -> option
                                       [] OTHER          -> Absent]
          IN  ~ Rejected(b) /\ receipts' = receipts \cup {SignReceipt(b, active)}
    BY <1>9 DEF Sign
  <2> DEFINE body == [f \in Fields |-> CASE f = "required" -> said
                                         [] f = "optional" -> option
                                         [] OTHER          -> Absent]
             r == SignReceipt(body, active)
  <2>2. body \in Bodies
    BY DEF Bodies, Values, Fields
  <2>3. active \in 1 .. MaxKeys
    BY <1>0, VerifierAssumption DEF TypeOK
  <2>4. receipts' = receipts \cup {r} /\ ~ Rejected(body)
    BY <2>1
  <2> HIDE DEF body
  <2>5. /\ r \in Receipts /\ r.key_id # NoKeyId
        /\ r.signature = SignatureOf(r.key_id, r.body) /\ r.canonical_hash = HashOf(r.body)
        /\ ~ Rejected(r.body)
    BY <2>2, <2>3, <2>4, SignedAsSent DEF NoKeyId
  <2> HIDE DEF r
  <2>6. TypeOK' /\ AllSigned'
    BY <1>0, <1>9, <2>4, <2>5 DEF TypeOK, AllSigned, Sign
  <2>7. published <= published'
    BY <1>0, <1>9, VerifierAssumption DEF TypeOK, Sign
  <2>. QED BY <1>9, <2>4, <2>6, <2>7, ServiceStep DEF Sign
<1>10. CASE UNCHANGED vars
  BY <1>10 DEF VerifierInv, TypeOK, AllSigned, Good, Traced, Decided, Recent, Coherent, vars, service
<1>. QED BY <1>1, <1>2, <1>3, <1>4, <1>5, <1>6, <1>7, <1>8, <1>9, <1>10 DEF Next, Client

THEOREM InvariantHolds == Spec => []VerifierInv
BY InitInv, StepInv, PTL DEF Spec

-----------------------------------------------------------------------------
(* The theorems.                                                           *)

\* Every variable has its type, and a request is made only with a URL.
THEOREM TypeCorrect == Spec => []TypeOK
<1>1. VerifierInv => TypeOK
  BY DEF VerifierInv
<1>. QED BY <1>1, InvariantHolds, PTL

\* A receipt is found valid only if one with the same signed content was signed
\* with the key it names.
THEOREM ValidReceiptsWereSigned == Spec => []ValidMeansSigned
<1>1. VerifierInv => ValidMeansSigned
  <2> SUFFICES ASSUME VerifierInv, NEW t \in Threads, Judged(t), call[t].result = "valid"
               PROVE  \E r \in receipts :
                        /\ Canonical(r.body) = Canonical(call[t].receipt.body)
                        /\ r.key_id = call[t].receipt.key_id
    BY DEF ValidMeansSigned
  <2> DEFINE c == call[t].receipt
  <2>1. VerifyReceipt(c, 1 .. call[t].keys, form) = "valid"
        /\ c.signature \in {Missing, Undecodable} \cup {q.signature : q \in receipts}
    BY DEF VerifierInv, Good, Decided, Traced, Judged
  <2>2. c.signature = SignatureOf(c.key_id, c.body)
    BY <2>1, ValidSignature
  <2>3. PICK r \in receipts : r.signature = SignatureOf(c.key_id, c.body)
    BY <2>1, <2>2, SignatureThere
  <2>4. r.signature = SignatureOf(r.key_id, r.body)
    BY DEF VerifierInv, AllSigned
  <2>5. SignatureOf(r.key_id, r.body) = SignatureOf(c.key_id, c.body)
    BY <2>3, <2>4
  <2>6. r.key_id = c.key_id /\ Canonical(r.body) = Canonical(c.body)
    BY <2>5, SignatureInjective
  <2>. QED BY <2>6
<1>. QED BY <1>1, InvariantHolds, PTL

\* A signed receipt is found valid, whatever nulls a store has dropped and
\* fields it has added, by whoever has a usable entry of its key.
THEOREM SignedReceiptsAreValid == Spec => []SignedIsValid
<1>1. VerifierInv => SignedIsValid
  <2> SUFFICES ASSUME VerifierInv, NEW t \in Threads, Judged(t), NEW r \in receipts,
                      call[t].receipt = [r EXCEPT !.body = call[t].receipt.body],
                      SameContent(call[t].receipt.body, r.body),
                      call[t].receipt.key_id <= call[t].keys,
                      form[call[t].receipt.key_id] = "ok"
               PROVE  call[t].result = "valid"
    BY DEF SignedIsValid
  <2> DEFINE c == call[t].receipt
  <2>1. /\ r \in Receipts /\ r.signature = SignatureOf(r.key_id, r.body)
        /\ r.canonical_hash = HashOf(r.body)
        /\ ~ Rejected(r.body) /\ r.key_id # NoKeyId
    BY DEF VerifierInv, TypeOK, AllSigned
  <2>2. call[t] \in Calls /\ call[t].result = VerifyReceipt(c, 1 .. call[t].keys, form)
    BY DEF VerifierInv, TypeOK, Good, Decided, Judged
  <2>3. c.signature = r.signature /\ c.canonical_hash = r.canonical_hash /\ c.key_id = r.key_id
    BY <2>1 DEF Receipts
  <2>4. c.body \in Bodies /\ r.body \in Bodies
    <3>1. c # NoReceipt
      <4>1. r.canonical_hash.is = "hash" /\ c.canonical_hash.is = "hash"
        BY <2>1, <2>3 DEF HashOf
      <4>2. c \in Receipts \cup {NoReceipt}
        BY <2>2 DEF Calls
      <4>. QED BY <4>1, <4>2, <2>1 DEF NoReceipt, Receipts
    <3>. QED BY <3>1, <2>1, <2>2 DEF Calls, Receipts
  <2>5. Canonical(c.body) = Canonical(r.body) /\ ~ Rejected(c.body)
    BY <2>1, <2>4, KeptContent
  <2>6. c.canonical_hash = HashOf(c.body) /\ c.signature = SignatureOf(c.key_id, c.body)
    BY <2>1, <2>3, <2>5 DEF HashOf, SignatureOf
  <2>7. c.key_id \in 1 .. call[t].keys
    BY <2>1, <2>2, <2>3, VerifierAssumption DEF Receipts, Calls, NoKeyId
  <2>8. c.signature \notin {Missing, Undecodable} /\ c.canonical_hash # Missing
    <3>1. c.canonical_hash.is = "hash" /\ Missing.is = "missing"
      BY <2>6 DEF HashOf, Missing
    <3>. QED BY <3>1, <2>6, SignatureThere
  <2>9. ~ Unreadable(c)
    BY <2>1, <2>3, <2>5, <2>8 DEF Unreadable
  <2>. QED BY <2>2, <2>6, <2>7, <2>8, <2>9 DEF VerifyReceipt
<1>. QED BY <1>1, InvariantHolds, PTL

\* A verification that finds no keys cached is decided by keys published since
\* it began.
THEOREM FetchedKeysDecide == Spec => []FetchDecides
<1>1. VerifierInv => FetchDecides
  BY DEF VerifierInv, Good, Recent, FetchDecides, Judged
<1>. QED BY <1>1, InvariantHolds, PTL
=============================================================================
