------------------------ MODULE ReceiptEmissionProofs ------------------------
(***************************************************************************)
(* Proofs about ReceiptEmission: types, that a receipt is stored once,     *)
(* that answers are true, and that a pinned call is confirmed, for any     *)
(* number of calls, keys and repetitions.                                  *)
(***************************************************************************)
EXTENDS ReceiptEmission, SequenceTheorems, FiniteSetTheorems, TLAPS

\* The calls that must not end in a conflict.
Confirmed(c) == Pinned(c) /\ (opts[c].key = NoKey \/ Alone(c))

\* What the client of an attempt has been told, or is about to be.
Told(c, i) == {tries[c][i].answer, tries[c][i].outcome}

\* What an attempt has sent follows from what the application passes; what it is
\* told is true of the stored receipts.
AttemptInv(c, i) ==
  /\ tries[c][i].receipt_id = IF opts[c].receipt_id THEN Given ELSE i
  /\ tries[c][i].timestamp \in IF opts[c].timestamp THEN {Given} ELSE 1 .. i
  /\ "created" \in Told(c, i) \/ "duplicate" \in Told(c, i) => Receipt(c, i) \in stored
  /\ Confirmed(c) => "conflict" \notin Told(c, i)

\* No two attempts that sent one receipt are told that it was new.
NewOnce(c) ==
  \A i, j \in DOMAIN tries[c] :
    /\ Receipt(c, i) = Receipt(c, j)
    /\ "created" \in Told(c, i) /\ "created" \in Told(c, j)
    => i = j

\* Every stored receipt is one of an attempt, and its call's key is claimed for it.
StoredInv(r) ==
  /\ \E i \in DOMAIN tries[r.call] : r = Receipt(r.call, i)
  /\ opts[r.call].key # NoKey => claimed[opts[r.call].key] = r

\* A key is claimed for a stored receipt of a call that passes it.
ClaimInv(k) ==
  claimed[k] # NoReceipt => claimed[k] \in stored /\ opts[claimed[k].call].key = k

EmissionInv ==
  /\ TypeOK
  /\ \A c \in Calls : NewOnce(c) /\ \A i \in DOMAIN tries[c] : AttemptInv(c, i)
  /\ \A r \in stored : StoredInv(r)
  /\ \A k \in Keys : ClaimInv(k)

-----------------------------------------------------------------------------
(* What a step does to the attempts.                                       *)

LEMMA Typed ==
  ASSUME TypeOK, NEW c \in Calls
  PROVE  /\ tries[c] \in Seq(Tries) /\ Len(tries[c]) \in Nat
         /\ DOMAIN tries[c] = 1 .. Len(tries[c]) /\ Len(tries[c]) <= MaxTries
         /\ \A i \in DOMAIN tries[c] : tries[c][i] \in Tries
         /\ opts[c] \in Options
BY EmissionAssumption DEF TypeOK

\* A change of one attempt leaves every other as it is.
LEMMA TryChanges ==
  ASSUME TypeOK, NEW c \in Calls, NEW i \in DOMAIN tries[c], NEW s \in Tries, Set(c, i, s)
  PROVE  /\ tries' \in [Calls -> Seq(Tries)]
         /\ \A d \in Calls : Len(tries'[d]) = Len(tries[d]) /\ DOMAIN tries'[d] = DOMAIN tries[d]
         /\ \A d \in Calls : \A j \in DOMAIN tries[d] :
              d # c \/ j # i => tries'[d][j] = tries[d][j]
         /\ tries'[c][i] = s
<1>. DEFINE new == [tries[c] EXCEPT ![i] = s]
<1>1. tries[c] \in Seq(Tries) /\ i \in 1 .. Len(tries[c]) /\ tries \in [Calls -> Seq(Tries)]
  BY Typed DEF TypeOK
<1>2. /\ new \in Seq(Tries) /\ Len(new) = Len(tries[c]) /\ DOMAIN new = DOMAIN tries[c]
      /\ new[i] = s /\ \A j \in DOMAIN tries[c] \ {i} : new[j] = tries[c][j]
  BY <1>1, ExceptSeq
<1>3. tries' = [tries EXCEPT ![c] = new]
  BY <1>1 DEF Set
<1>. HIDE DEF new
<1>. QED BY <1>1, <1>2, <1>3

\* A step of an attempt that keeps what it has sent and tells it nothing new.
LEMMA AttemptKeeps ==
  ASSUME EmissionInv, NEW c \in Calls, NEW i \in DOMAIN tries[c], NEW s \in Tries, Set(c, i, s),
         s.receipt_id = tries[c][i].receipt_id, s.timestamp = tries[c][i].timestamp,
         {s.answer, s.outcome} \cap {"created", "duplicate", "conflict"} \subseteq Told(c, i),
         UNCHANGED <<sdk, opts, stored, claimed>>
  PROVE  EmissionInv'
<1>1. TypeOK /\ sdk' = sdk /\ opts' = opts /\ stored' = stored /\ claimed' = claimed
  BY DEF EmissionInv
<1>2. /\ tries' \in [Calls -> Seq(Tries)]
      /\ \A d \in Calls : Len(tries'[d]) = Len(tries[d]) /\ DOMAIN tries'[d] = DOMAIN tries[d]
      /\ \A d \in Calls : \A j \in DOMAIN tries[d] :
           d # c \/ j # i => tries'[d][j] = tries[d][j]
      /\ tries'[c][i] = s
  BY <1>1, TryChanges
<1>3. TypeOK'
  BY <1>1, <1>2 DEF TypeOK
<1>4. ASSUME NEW d \in Calls, NEW j \in DOMAIN tries[d]
      PROVE  /\ tries'[d][j].receipt_id = tries[d][j].receipt_id
             /\ tries'[d][j].timestamp = tries[d][j].timestamp
             /\ \A word \in {"created", "duplicate", "conflict"} :
                  word \in Told(d, j)' => word \in Told(d, j)
  BY <1>2 DEF Told
<1>5. \A d \in Calls : \A j \in DOMAIN tries[d] : Receipt(d, j)' = Receipt(d, j)
  BY <1>4 DEF Receipt
<1>6. ASSUME NEW d \in Calls, NEW j \in DOMAIN tries[d] PROVE AttemptInv(d, j)'
  <2>1. AttemptInv(d, j) /\ (Confirmed(d)' <=> Confirmed(d))
    BY <1>1 DEF EmissionInv, Confirmed, Pinned, Alone
  <2>. QED BY <1>1, <1>4, <1>5, <2>1 DEF AttemptInv
<1>7. ASSUME NEW d \in Calls PROVE NewOnce(d)'
  <2>1. NewOnce(d)
    BY DEF EmissionInv
  <2>. QED BY <1>2, <1>4, <1>5, <2>1 DEF NewOnce
<1>8. ASSUME NEW r \in stored PROVE StoredInv(r)'
  <2>1. StoredInv(r) /\ r.call \in Calls
    BY <1>1 DEF EmissionInv, TypeOK, Receipts
  <2>. QED BY <1>1, <1>2, <1>5, <2>1 DEF StoredInv
<1>9. ASSUME NEW k \in Keys PROVE ClaimInv(k)'
  BY <1>1 DEF EmissionInv, ClaimInv
<1>. QED BY <1>1, <1>2, <1>3, <1>6, <1>7, <1>8, <1>9 DEF EmissionInv

\* What the timers, the network and the reading of an answer do to an attempt.
LEMMA ClientKeeps ==
  ASSUME EmissionInv, NEW c \in Calls, NEW i \in DOMAIN tries[c],
         \/ Headers(c, i) \/ Receive(c, i) \/ TimesOut(c, i) \/ TimesOutReading(c, i)
         \/ Breaks(c, i) \/ Reads(c, i) \/ Part(c, i) \/ Refuse(c, i)
  PROVE  EmissionInv'
<1>. DEFINE try == tries[c][i]
<1>1. try \in Tries /\ UNCHANGED <<sdk, opts, stored, claimed>>
  BY Typed DEF EmissionInv, Headers, Receive, TimesOut, TimesOutReading, Breaks, Reads, Part,
     Refuse
<1>2. ASSUME NEW outcome \in {"none", "created", "duplicate"} \cup Failures,
             outcome \in {"created", "duplicate", "conflict"} => outcome \in Told(c, i),
             Set(c, i, Ended(try, outcome))
      PROVE  EmissionInv'
  <2>1. /\ Ended(try, outcome) \in Tries
        /\ Ended(try, outcome).receipt_id = try.receipt_id
        /\ Ended(try, outcome).timestamp = try.timestamp
        /\ Ended(try, outcome).answer = "none" /\ Ended(try, outcome).outcome = outcome
    BY <1>1 DEF Tries, Ended
  <2>. QED BY <1>1, <1>2, <2>1, AttemptKeeps
<1>3. CASE Headers(c, i)
  <2>. DEFINE s == [try EXCEPT !.phase = "reading", !.receiving = TRUE]
  <2>1. /\ s \in Tries /\ s.receipt_id = try.receipt_id /\ s.timestamp = try.timestamp
        /\ s.answer = try.answer /\ s.outcome = try.outcome
    BY <1>1 DEF Tries
  <2>2. Set(c, i, s)
    BY <1>3 DEF Headers
  <2>. HIDE DEF s
  <2>. QED BY <1>1, <2>1, <2>2, AttemptKeeps DEF Told
<1>4. CASE Refuse(c, i)
  <2>. DEFINE s == [try EXCEPT !.answer = "refused"]
  <2>1. /\ s \in Tries /\ s.receipt_id = try.receipt_id /\ s.timestamp = try.timestamp
        /\ s.answer = "refused" /\ s.outcome = try.outcome
    BY <1>1 DEF Tries
  <2>2. Set(c, i, s)
    BY <1>4 DEF Refuse
  <2>. HIDE DEF s
  <2>. QED BY <1>1, <2>1, <2>2, AttemptKeeps DEF Told
<1>5. CASE TimesOut(c, i) \/ TimesOutReading(c, i) \/ Breaks(c, i)
  <2>1. \E outcome \in {"IngestError", "escape"} : Set(c, i, Ended(try, outcome))
    BY <1>5 DEF TimesOut, TimesOutReading, Breaks
  <2>. QED BY <1>2, <2>1 DEF Failures
<1>6. CASE Reads(c, i)
  <2>1. Answer(try.answer) \in {"none", "created", "duplicate"} \cup Failures
    BY <1>1 DEF Tries, Answer, Failures
  <2>2. Answer(try.answer) \in {"created", "duplicate", "conflict"}
          => Answer(try.answer) \in Told(c, i)
    BY DEF Answer, Told
  <2>3. Set(c, i, Ended(try, Answer(try.answer)))
    BY <1>6 DEF Reads
  <2>. QED BY <1>2, <2>1, <2>2, <2>3
<1>7. CASE Receive(c, i) \/ Part(c, i)
  <2>1. PICK receiving \in BOOLEAN : Set(c, i, [try EXCEPT !.receiving = receiving])
    BY <1>7 DEF Receive, Part
  <2>. DEFINE s == [try EXCEPT !.receiving = receiving]
  <2>2. /\ s \in Tries /\ s.receipt_id = try.receipt_id /\ s.timestamp = try.timestamp
        /\ s.answer = try.answer /\ s.outcome = try.outcome
    BY <1>1 DEF Tries
  <2>. HIDE DEF s
  <2>. QED BY <1>1, <2>1, <2>2, AttemptKeeps DEF Told, s
<1>. QED BY <1>3, <1>4, <1>5, <1>6, <1>7

\* The service tells an attempt what it has done with its receipt.
LEMMA ArriveKeeps ==
  ASSUME EmissionInv, NEW c \in Calls, NEW i \in DOMAIN tries[c], Arrive(c, i)
  PROVE  EmissionInv'
<1>. DEFINE verdict == Verdict(c, i)
            key == opts[c].key
            s == [tries[c][i] EXCEPT !.request = "gone",
                                     !.answer = IF tries[c][i].phase = "waiting" /\ @ = "none"
                                                 THEN verdict ELSE @]
<1>1. /\ TypeOK /\ sdk' = sdk /\ opts' = opts /\ tries[c][i] \in Tries /\ opts[c] \in Options
      /\ Set(c, i, s)
      /\ stored' = IF verdict = "created" THEN stored \cup {Receipt(c, i)} ELSE stored
      /\ claimed' = IF key = NoKey \/ verdict = "conflict" THEN claimed
                    ELSE [claimed EXCEPT ![key] = Receipt(c, i)]
  BY Typed DEF EmissionInv, Arrive, SentKey
<1>2. /\ verdict \in {"conflict", "created", "duplicate"}
      /\ verdict = "conflict" => key # NoKey /\ claimed[key] # NoReceipt
                                 /\ claimed[key] # Receipt(c, i)
      /\ verdict # "conflict" => key = NoKey \/ claimed[key] \in {NoReceipt, Receipt(c, i)}
      /\ verdict = "created" => Receipt(c, i) \notin stored
      /\ verdict = "duplicate" => Receipt(c, i) \in stored
  BY DEF Verdict, SentKey
<1>3. /\ s \in Tries /\ s.receipt_id = tries[c][i].receipt_id
      /\ s.timestamp = tries[c][i].timestamp /\ s.outcome = tries[c][i].outcome
      /\ s.answer \in {tries[c][i].answer, verdict}
  BY <1>1, <1>2 DEF Tries
<1>. HIDE DEF s, verdict
<1>4. /\ tries' \in [Calls -> Seq(Tries)]
      /\ \A d \in Calls : Len(tries'[d]) = Len(tries[d]) /\ DOMAIN tries'[d] = DOMAIN tries[d]
      /\ \A d \in Calls : \A j \in DOMAIN tries[d] :
           d # c \/ j # i => tries'[d][j] = tries[d][j]
      /\ tries'[c][i] = s
  BY <1>1, <1>3, TryChanges
<1>5. \A d \in Calls : \A j \in DOMAIN tries[d] :
        /\ tries'[d][j].receipt_id = tries[d][j].receipt_id
        /\ tries'[d][j].timestamp = tries[d][j].timestamp
        /\ Told(d, j)' \subseteq IF d = c /\ j = i THEN Told(c, i) \cup {verdict} ELSE Told(d, j)
  BY <1>3, <1>4 DEF Told
<1>6. \A d \in Calls : \A j \in DOMAIN tries[d] : Receipt(d, j)' = Receipt(d, j)
  BY <1>5 DEF Receipt
<1>7. Receipt(c, i) \in Receipts /\ Receipt(c, i).call = c /\ Receipt(c, i) # NoReceipt
  BY <1>1 DEF Receipt, Receipts, Tries, NoReceipt
<1>8. TypeOK'
  BY <1>1, <1>4, <1>7 DEF TypeOK
<1>9. /\ stored \subseteq stored'
      /\ verdict # "conflict" => Receipt(c, i) \in stored'
      /\ \A r \in stored' : r \in stored \/ (r = Receipt(c, i) /\ verdict = "created")
  BY <1>1, <1>2
<1>10. ASSUME Confirmed(c) PROVE verdict # "conflict"
  <2>. SUFFICES ASSUME key # NoKey, claimed[key] # NoReceipt PROVE claimed[key] = Receipt(c, i)
    BY <1>2
  <2>1. claimed[key] \in stored /\ opts[claimed[key].call].key = key
    BY <1>1 DEF EmissionInv, ClaimInv, Options
  <2>2. claimed[key].call \in Calls
    BY <1>1, <2>1 DEF TypeOK, Receipts
  <2>3. claimed[key].call = c
    BY <1>10, <2>1, <2>2 DEF Confirmed, Alone
  <2>4. PICK j \in DOMAIN tries[c] : claimed[key] = Receipt(c, j)
    BY <2>1, <2>3 DEF EmissionInv, StoredInv
  <2>5. AttemptInv(c, i) /\ AttemptInv(c, j)
    BY DEF EmissionInv
  <2>. QED BY <1>10, <2>4, <2>5 DEF Confirmed, Pinned, AttemptInv, Receipt
<1>11. ASSUME NEW d \in Calls, NEW j \in DOMAIN tries[d] PROVE AttemptInv(d, j)'
  <2>1. AttemptInv(d, j) /\ (Confirmed(d)' <=> Confirmed(d))
    BY <1>1 DEF EmissionInv, Confirmed, Pinned, Alone
  <2>2. "created" \in Told(d, j)' \/ "duplicate" \in Told(d, j)' => Receipt(d, j) \in stored'
    BY <1>5, <1>9, <2>1 DEF AttemptInv
  <2>3. Confirmed(d) => "conflict" \notin Told(d, j)'
    BY <1>5, <1>10, <2>1 DEF AttemptInv
  <2>. QED BY <1>1, <1>5, <1>6, <2>1, <2>2, <2>3 DEF AttemptInv
<1>12. ASSUME NEW d \in Calls PROVE NewOnce(d)'
  <2>. SUFFICES ASSUME NEW j \in DOMAIN tries[d], NEW n \in DOMAIN tries[d],
                       Receipt(d, j) = Receipt(d, n),
                       "created" \in Told(d, j)', "created" \in Told(d, n)'
                PROVE  j = n
    BY <1>4, <1>6 DEF NewOnce
  <2>1. NewOnce(d) /\ AttemptInv(d, j) /\ AttemptInv(d, n)
    BY DEF EmissionInv
  <2>2. ASSUME NEW m \in DOMAIN tries[d], "created" \in Told(d, m)'
        PROVE  "created" \in Told(d, m) \/ (d = c /\ m = i /\ verdict = "created")
    BY <1>5, <2>2
  <2>. QED BY <1>2, <2>1, <2>2 DEF NewOnce, AttemptInv
<1>13. ASSUME NEW r \in stored' PROVE StoredInv(r)'
  <2>1. r.call \in Calls
    BY <1>8 DEF TypeOK, Receipts
  <2>2. \E j \in DOMAIN tries[r.call] : r = Receipt(r.call, j)
    BY <1>7, <1>9 DEF EmissionInv, StoredInv
  <2>3. ASSUME opts[r.call].key # NoKey PROVE claimed'[opts[r.call].key] = r
    <3>1. opts[r.call].key \in Keys /\ claimed \in [Keys -> Receipts \cup {NoReceipt}]
      BY <1>1, <2>1, <2>3, Typed DEF TypeOK, Options
    <3>2. CASE r \in stored
      <4>1. claimed[opts[r.call].key] = r
        BY <2>3, <3>2 DEF EmissionInv, StoredInv
      <4>2. r # NoReceipt
        <5>1. r \in Receipts
          BY <1>1, <3>2 DEF TypeOK
        <5>. QED BY <5>1 DEF Receipts, NoReceipt
      <4>. QED BY <1>1, <1>2, <3>1, <4>1, <4>2
    <3>3. CASE r = Receipt(c, i) /\ verdict = "created"
      BY <1>1, <1>7, <2>3, <3>1, <3>3
    <3>. QED BY <1>9, <3>2, <3>3
  <2>. QED BY <1>1, <1>4, <1>6, <2>1, <2>2, <2>3 DEF StoredInv
<1>14. ASSUME NEW k \in Keys PROVE ClaimInv(k)'
  <2>1. ClaimInv(k) /\ claimed \in [Keys -> Receipts \cup {NoReceipt}]
    BY <1>1 DEF EmissionInv, TypeOK
  <2>2. claimed'[k] = claimed[k] \/ (k = key /\ verdict # "conflict" /\ claimed'[k] = Receipt(c, i))
    BY <1>1, <2>1
  <2>. QED BY <1>1, <1>7, <1>9, <2>1, <2>2 DEF ClaimInv
<1>. QED BY <1>1, <1>4, <1>8, <1>11, <1>12, <1>13, <1>14 DEF EmissionInv

\* An attempt more, which nobody has told anything yet.
LEMMA EmitKeeps ==
  ASSUME EmissionInv, NEW c \in Calls, Emit(c)
  PROVE  EmissionInv'
<1>0. PICK n \in Nat \ {0} : n = Len(tries[c]) + 1
  BY Typed DEF EmissionInv
<1>1. /\ TypeOK /\ sdk' = sdk /\ opts' = opts /\ stored' = stored /\ claimed' = claimed
      /\ n <= MaxTries /\ opts[c] \in Options
      /\ tries[c] \in Seq(Tries) /\ DOMAIN tries[c] = 1 .. n - 1 /\ Len(tries[c]) = n - 1
  BY <1>0, Typed DEF EmissionInv, Emit
<1>2. PICK t \in Timestamp(c, n), sent \in BOOLEAN :
        LET try == [receipt_id |-> IF opts[c].receipt_id THEN Given ELSE n, timestamp |-> t,
                    request |-> IF sent THEN "transit" ELSE "gone", answer |-> "none",
                    phase |-> "waiting", receiving |-> TRUE, outcome |-> "none"]
        IN  tries' = [tries EXCEPT ![c] = Append(@, IF sent THEN try ELSE Ended(try, Unreachable))]
  BY <1>0 DEF Emit
<1>3. t \in (IF opts[c].timestamp THEN {Given} ELSE 1 .. n) /\ t \in 0 .. MaxTries
  <2>1. CASE opts[c].timestamp
    BY <1>1, <1>2, <2>1, EmissionAssumption DEF Timestamp, Given
  <2>2. CASE ~ opts[c].timestamp /\ n = 1
    BY <1>1, <1>2, <2>2, EmissionAssumption DEF Timestamp
  <2>3. CASE ~ opts[c].timestamp /\ n # 1
    <3>1. AttemptInv(c, n - 1) /\ n - 1 \in DOMAIN tries[c]
      BY <1>1, <2>3 DEF EmissionInv
    <3>2. Receipt(c, n - 1).timestamp \in 1 .. n - 1
      BY <2>3, <3>1 DEF AttemptInv, Receipt
    <3>. QED BY <1>1, <1>2, <2>3, <3>2, EmissionAssumption DEF Timestamp
  <2>. QED BY <1>1, <2>1, <2>2, <2>3
<1>. DEFINE try == [receipt_id |-> IF opts[c].receipt_id THEN Given ELSE n, timestamp |-> t,
                    request |-> IF sent THEN "transit" ELSE "gone", answer |-> "none",
                    phase |-> "waiting", receiving |-> TRUE, outcome |-> "none"]
            s == IF sent THEN try ELSE Ended(try, Unreachable)
<1>4. /\ s \in Tries /\ s.receipt_id = (IF opts[c].receipt_id THEN Given ELSE n)
      /\ s.timestamp = t /\ s.answer = "none" /\ s.outcome \in {"none", "IngestError", "escape"}
  <2>1. /\ try \in Tries /\ try.receipt_id = (IF opts[c].receipt_id THEN Given ELSE n)
        /\ try.timestamp = t /\ try.answer = "none" /\ try.outcome = "none"
    BY <1>1, <1>3, EmissionAssumption DEF Tries, Given
  <2>2. Unreachable \in {"IngestError", "escape"}
    BY DEF Unreachable
  <2>. HIDE DEF try
  <2>3. /\ Ended(try, Unreachable) \in Tries
        /\ Ended(try, Unreachable).receipt_id = try.receipt_id
        /\ Ended(try, Unreachable).timestamp = try.timestamp
        /\ Ended(try, Unreachable).answer = "none" /\ Ended(try, Unreachable).outcome = Unreachable
    BY <2>1, <2>2 DEF Tries, Ended, Failures
  <2>. QED BY <2>1, <2>2, <2>3
<1>5. tries' = [tries EXCEPT ![c] = Append(tries[c], s)]
  BY <1>2
<1>. HIDE DEF s
<1>6. /\ Append(tries[c], s) \in Seq(Tries) /\ Len(Append(tries[c], s)) = n
      /\ DOMAIN Append(tries[c], s) = 1 .. n /\ Append(tries[c], s)[n] = s
      /\ \A j \in DOMAIN tries[c] : Append(tries[c], s)[j] = tries[c][j]
  BY <1>1, <1>4, AppendProperties, LenProperties
<1>7. /\ tries' \in [Calls -> Seq(Tries)] /\ \A d \in Calls : Len(tries'[d]) <= MaxTries
      /\ \A d \in Calls : \A j \in DOMAIN tries[d] :
           j \in DOMAIN tries'[d] /\ tries'[d][j] = tries[d][j]
      /\ tries'[c][n] = s /\ n \notin DOMAIN tries[c]
      /\ \A d \in Calls : \A j \in DOMAIN tries'[d] : j \in DOMAIN tries[d] \/ (d = c /\ j = n)
  BY <1>1, <1>5, <1>6 DEF TypeOK
<1>8. TypeOK'
  BY <1>1, <1>7 DEF TypeOK
<1>9. \A d \in Calls : \A j \in DOMAIN tries[d] :
        Receipt(d, j)' = Receipt(d, j) /\ Told(d, j)' = Told(d, j)
  BY <1>7 DEF Receipt, Told
<1>10. /\ "created" \notin Told(c, n)' /\ "duplicate" \notin Told(c, n)'
       /\ "conflict" \notin Told(c, n)'
  BY <1>4, <1>7 DEF Told
<1>11. ASSUME NEW d \in Calls, NEW j \in DOMAIN tries'[d] PROVE AttemptInv(d, j)'
  <2>1. CASE j \in DOMAIN tries[d]
    <3>1. AttemptInv(d, j) /\ (Confirmed(d)' <=> Confirmed(d))
      BY <1>1, <2>1 DEF EmissionInv, Confirmed, Pinned, Alone
    <3>. QED BY <1>1, <1>7, <1>9, <2>1, <3>1 DEF AttemptInv
  <2>2. CASE d = c /\ j = n
    BY <1>1, <1>3, <1>4, <1>7, <1>10, <2>2 DEF AttemptInv
  <2>. QED BY <1>7, <2>1, <2>2
<1>12. ASSUME NEW d \in Calls PROVE NewOnce(d)'
  <2>1. NewOnce(d)
    BY DEF EmissionInv
  <2>. QED BY <1>7, <1>9, <1>10, <2>1 DEF NewOnce
<1>13. ASSUME NEW r \in stored PROVE StoredInv(r)'
  <2>1. StoredInv(r) /\ r.call \in Calls
    BY <1>1 DEF EmissionInv, TypeOK, Receipts
  <2>. QED BY <1>1, <1>7, <1>9, <2>1 DEF StoredInv
<1>14. ASSUME NEW k \in Keys PROVE ClaimInv(k)'
  BY <1>1 DEF EmissionInv, ClaimInv
<1>. QED BY <1>1, <1>8, <1>11, <1>12, <1>13, <1>14 DEF EmissionInv

LEMMA EmissionStart == Init => EmissionInv
<1>. SUFFICES ASSUME Init PROVE EmissionInv
  OBVIOUS
<1>1. \A c \in Calls : tries[c] = << >> /\ DOMAIN tries[c] = {}
  BY DEF Init
<1>2. TypeOK
  BY EmissionAssumption DEF Init, TypeOK
<1>. QED BY <1>1, <1>2 DEF Init, EmissionInv, NewOnce, ClaimInv

LEMMA EmissionStep == EmissionInv /\ [Next]_vars => EmissionInv'
<1>. SUFFICES ASSUME EmissionInv, [Next]_vars PROVE EmissionInv'
  OBVIOUS
<1>1. CASE Next
  BY <1>1, EmitKeeps, ClientKeeps, ArriveKeeps DEF Next, Attempt
<1>2. CASE UNCHANGED vars
  BY <1>2 DEF vars, EmissionInv, TypeOK, NewOnce, AttemptInv, StoredInv, ClaimInv, Receipt, Told,
     Confirmed, Pinned, Alone
<1>. QED BY <1>1, <1>2

LEMMA EmissionInvariant == Spec => []EmissionInv
BY EmissionStart, EmissionStep, PTL DEF Spec

-----------------------------------------------------------------------------
(* The properties.                                                         *)

\* Every variable of the application, the client and the service keeps its type.
THEOREM TypeCorrect == Spec => []TypeOK
BY EmissionInvariant, PTL DEF EmissionInv

\* Of receipts that are all one there is at most one.
LEMMA AtMostOne ==
  ASSUME NEW S, \A a, b \in S : a = b
  PROVE  Cardinality(S) <= 1
<1>1. CASE S = {}
  BY <1>1, FS_EmptySet
<1>2. CASE S # {}
  <2>1. PICK a \in S : S = {a}
    BY <1>2
  <2>. QED BY <2>1, FS_Singleton
<1>. QED BY <1>1, <1>2

\* A call that pins both fields is stored once however often it is made, and one
\* key is good for one receipt.
THEOREM RepeatedCallsStoredOnce == Spec => []StoredOnce
<1>1. EmissionInv => StoredOnce
  <2>. SUFFICES ASSUME EmissionInv PROVE StoredOnce
    OBVIOUS
  <2>1. ASSUME NEW c \in Calls, Pinned(c) PROVE Cardinality({r \in stored : r.call = c}) <= 1
    <3>1. ASSUME NEW a \in stored, a.call = c
          PROVE  a = [call |-> c, receipt_id |-> Given, timestamp |-> Given]
      <4>1. PICK i \in DOMAIN tries[c] : a = Receipt(c, i)
        BY <3>1 DEF EmissionInv, StoredInv
      <4>2. AttemptInv(c, i)
        BY DEF EmissionInv
      <4>. QED BY <2>1, <4>1, <4>2 DEF AttemptInv, Pinned, Receipt
    <3>. QED BY <3>1, AtMostOne
  <2>2. ASSUME NEW k \in Keys PROVE Cardinality({r \in stored : opts[r.call].key = k}) <= 1
    <3>1. \A a \in stored : opts[a.call].key = k => a = claimed[k]
      BY EmissionAssumption DEF EmissionInv, StoredInv
    <3>. QED BY <3>1, AtMostOne
  <2>. QED BY <2>1, <2>2 DEF StoredOnce
<1>. QED BY <1>1, EmissionInvariant, PTL

\* A client is told of stored receipts only, and of each at most once that it is new.
THEOREM ClientsHearTheTruth == Spec => []AnswersAreTrue
<1>1. EmissionInv => AnswersAreTrue
  BY DEF EmissionInv, AnswersAreTrue, AttemptInv, NewOnce, Told
<1>. QED BY <1>1, EmissionInvariant, PTL

\* A call that pins both fields, and has its key to itself if it passes one, never
\* ends in a conflict.
THEOREM PinnedNeverConflicts == Spec => []PinnedIsConfirmed
<1>1. EmissionInv => PinnedIsConfirmed
  BY DEF EmissionInv, PinnedIsConfirmed, AttemptInv, Confirmed, Told
<1>. QED BY <1>1, EmissionInvariant, PTL
=============================================================================
