---------------------------- MODULE ReceiptEmission ----------------------------
(***************************************************************************)
(* client.py and client.ts: emit_receipt and its POST, repeated by an      *)
(* application when it raises, over a network that loses and delays        *)
(* requests, to the service that DOCUMENTATION_TASKS.md describes.         *)
(***************************************************************************)
EXTENDS Naturals, Sequences, FiniteSets

CONSTANTS
  Calls,   \* what the application wants recorded; a call stands for its content
  Keys,    \* idempotency keys that the application may use
  NoKey,
  Passed,  \* the options that the application may pass with a call
  MaxTries \* bound on how often a call is made

\* receipt_id and timestamp are pinned by the application or drawn by the client.
Options == [receipt_id: BOOLEAN, timestamp: BOOLEAN, key: Keys \cup {NoKey}]

ASSUME EmissionAssumption ==
  NoKey \notin Keys /\ Passed \subseteq Options /\ MaxTries \in Nat \ {0}

VARIABLES
  sdk,     \* which of the two clients is used
  opts,    \* [Calls -> what the application passes each time it makes the call]
  tries,   \* [Calls -> the attempts so far]
  stored,  \* the receipts that the service has persisted
  claimed  \* [Keys -> the receipt that the service has seen the key with, or none]

vars == <<sdk, opts, tries, stored, claimed>>

\* A field that the application has pinned.
Given == 0
NoReceipt == [call |-> NoKey]

Init ==
  /\ sdk \in {"python", "typescript"}
  /\ opts \in [Calls -> Passed]
  /\ tries = [c \in Calls |-> << >>]
  /\ stored = {}
  /\ claimed = [k \in Keys |-> NoReceipt]

\* Two attempts of one call send the same receipt if both fields agree.
Receipt(c, i) == [call |-> c, receipt_id |-> tries[c][i].receipt_id,
                  timestamp |-> tries[c][i].timestamp]

Current(c, i) == i = Len(tries[c])
Set(c, i, try) == tries' = [tries EXCEPT ![c][i] = try]
Ended(try, outcome) == [try EXCEPT !.phase = "ended", !.receiving = FALSE,
                                   !.answer = "none", !.outcome = outcome]

-----------------------------------------------------------------------------
(* The application and the client.                                         *)

\* What did not come back as an answer.
Failures == {"IngestError", "conflict", "escape"}

\* Slip: the timestamp that was passed is not used.
TimestampNow(c, n) == IF n = 1 THEN {1} ELSE {Receipt(c, n - 1).timestamp + d : d \in 0 .. 1}

\* The n-th attempt's timestamp; the clock may not have moved since the last one.
Timestamp(c, n) ==
  IF opts[c].timestamp THEN {Given}
  ELSE IF n = 1 THEN {1} ELSE {Receipt(c, n - 1).timestamp + d : d \in 0 .. 1}

\* A connection that cannot be made: URLError becomes IngestError, what fetch
\* rejects with does not.
Unreachable == IF sdk = "python" THEN "IngestError" ELSE "escape"

\* emit_receipt up to its POST, for the first time or after it raised.
Emit(c) ==
  LET n == Len(tries[c]) + 1
  IN  /\ n <= MaxTries
      /\ n > 1 => tries[c][n - 1].outcome \in Failures
      /\ \E t \in Timestamp(c, n), sent \in BOOLEAN :
           LET try == [receipt_id |-> IF opts[c].receipt_id THEN Given ELSE n, timestamp |-> t,
                       request |-> IF sent THEN "transit" ELSE "gone", answer |-> "none",
                       phase |-> "waiting", receiving |-> TRUE, outcome |-> "none"]
           IN  tries' = [tries EXCEPT ![c] =
                           Append(@, IF sent THEN try ELSE Ended(try, Unreachable))]
      /\ UNCHANGED <<sdk, opts, stored, claimed>>

\* Status and headers are there.
Headers(c, i) ==
  /\ Current(c, i) /\ tries[c][i].phase = "waiting"
  /\ tries[c][i].answer # "none"
  /\ Set(c, i, [tries[c][i] EXCEPT !.phase = "reading", !.receiving = TRUE])
  /\ UNCHANGED <<sdk, opts, stored, claimed>>

\* The timeout that urlopen is given is one of each read of the socket: whatever
\* arrives ends the read under way and its timer, and the next read arms it anew.
Receive(c, i) ==
  /\ sdk = "python"
  /\ Current(c, i) /\ tries[c][i].phase \in {"waiting", "reading"}
  /\ ~ tries[c][i].receiving
  /\ Set(c, i, [tries[c][i] EXCEPT !.receiving = TRUE])
  /\ UNCHANGED <<sdk, opts, stored, claimed>>

\* The timer of _withTimeout, or the socket's, before them; the request goes on.
TimesOut(c, i) ==
  /\ Current(c, i) /\ tries[c][i].phase = "waiting"
  /\ sdk = "python" => tries[c][i].receiving
  /\ Set(c, i, Ended(tries[c][i], IF sdk = "python" THEN "escape" ELSE "IngestError"))
  /\ UNCHANGED <<sdk, opts, stored, claimed>>

\* Slip: the body is read without the timeout of the socket.
NoTimeoutReading(c, i) == FALSE

\* The socket's timeout while the body is read; the timer of _withTimeout is
\* cleared by then.
TimesOutReading(c, i) ==
  /\ sdk = "python"
  /\ Current(c, i) /\ tries[c][i].phase = "reading"
  /\ tries[c][i].receiving
  /\ Set(c, i, Ended(tries[c][i], "escape"))
  /\ UNCHANGED <<sdk, opts, stored, claimed>>

\* The connection is reset, or the body is not the JSON that is expected.
Breaks(c, i) ==
  /\ Current(c, i) /\ tries[c][i].phase \in {"waiting", "reading"}
  /\ Set(c, i, Ended(tries[c][i], "escape"))
  /\ UNCHANGED <<sdk, opts, stored, claimed>>

\* Slip: the status is not looked at.
AnswerUnchecked(answer) == IF answer = "duplicate" THEN "duplicate" ELSE "created"

\* Slip: an error status other than the conflict's is an answer too.
AnswerRaw(answer) == answer

\* What a body that could be read comes to: the duplicate flag, or IngestError
\* with the status of the conflict or another one.
Answer(answer) == IF answer = "refused" THEN "IngestError" ELSE answer

Reads(c, i) ==
  /\ Current(c, i) /\ tries[c][i].phase = "reading"
  /\ Set(c, i, Ended(tries[c][i], Answer(tries[c][i].answer)))
  /\ UNCHANGED <<sdk, opts, stored, claimed>>

-----------------------------------------------------------------------------
(* The network and the service.  A request that never arrives is lost.     *)

\* A part of the answer arrives, such as an interim response or a piece of the body.
Part(c, i) ==
  /\ sdk = "python"
  /\ Current(c, i) /\ tries[c][i].phase \in {"waiting", "reading"}
  /\ tries[c][i].receiving
  /\ Set(c, i, [tries[c][i] EXCEPT !.receiving = FALSE])
  /\ UNCHANGED <<sdk, opts, stored, claimed>>

\* An error status of the service, which then stores nothing, or of a proxy, which
\* may have passed the request on.
Refuse(c, i) ==
  /\ tries[c][i].phase = "waiting" /\ tries[c][i].answer = "none"
  /\ Set(c, i, [tries[c][i] EXCEPT !.answer = "refused"])
  /\ UNCHANGED <<sdk, opts, stored, claimed>>

\* Slip: no Idempotency-Key is sent.
SentKeyNever(c) == NoKey

\* The Idempotency-Key header.
SentKey(c) == opts[c].key

\* The service's verdict on the receipt of an attempt.
Verdict(c, i) ==
  IF SentKey(c) # NoKey /\ claimed[SentKey(c)] \notin {NoReceipt, Receipt(c, i)} THEN "conflict"
  ELSE IF Receipt(c, i) \in stored THEN "duplicate" ELSE "created"

\* The request arrives, possibly after the client has given it up.
Arrive(c, i) ==
  LET verdict == Verdict(c, i)
  IN  /\ tries[c][i].request = "transit"
      /\ Set(c, i, [tries[c][i] EXCEPT !.request = "gone",
                                       !.answer = IF tries[c][i].phase = "waiting" /\ @ = "none"
                                                   THEN verdict ELSE @])
      /\ stored' = IF verdict = "created" THEN stored \cup {Receipt(c, i)} ELSE stored
      /\ claimed' = IF SentKey(c) = NoKey \/ verdict = "conflict" THEN claimed
                    ELSE [claimed EXCEPT ![SentKey(c)] = Receipt(c, i)]
      /\ UNCHANGED <<sdk, opts>>

Attempt(c, i) == \/ Headers(c, i) \/ Receive(c, i) \/ TimesOut(c, i)
                 \/ TimesOutReading(c, i) \/ Breaks(c, i) \/ Reads(c, i)
                 \/ Part(c, i) \/ Refuse(c, i) \/ Arrive(c, i)

Next == \E c \in Calls : Emit(c) \/ \E i \in DOMAIN tries[c] : Attempt(c, i)

Spec == Init /\ [][Next]_vars

\* The next read arms its timer, and a timer that stays armed fires.  Nothing is
\* assumed of the network: if parts arrive for ever, the timer of no read need fire.
Timers(c) == \E i \in DOMAIN tries[c] :
               Receive(c, i) \/ TimesOut(c, i) \/ TimesOutReading(c, i)

Fairness == \A c \in Calls : WF_vars(Timers(c))

FairSpec == Spec /\ Fairness

-----------------------------------------------------------------------------
(* Properties.                                                             *)

Receipts == [call: Calls, receipt_id: 0 .. MaxTries, timestamp: 0 .. MaxTries]
Tries == [receipt_id: 0 .. MaxTries, timestamp: 0 .. MaxTries,
          request: {"transit", "gone"},
          answer: {"none", "created", "duplicate", "conflict", "refused"},
          phase: {"waiting", "reading", "ended"}, receiving: BOOLEAN,
          outcome: {"none", "created", "duplicate"} \cup Failures]

\* The type of every variable of the application, the client and the service.
TypeOK ==
  /\ sdk \in {"python", "typescript"} /\ opts \in [Calls -> Passed]
  /\ tries \in [Calls -> Seq(Tries)] /\ \A c \in Calls : Len(tries[c]) <= MaxTries
  /\ stored \subseteq Receipts
  /\ claimed \in [Keys -> Receipts \cup {NoReceipt}]

Pinned(c) == opts[c].receipt_id /\ opts[c].timestamp
Alone(c) == \A d \in Calls \ {c} : opts[d].key # opts[c].key

\* However often a call is repeated and however late its requests arrive, it is
\* stored once if the application pins both fields or passes a key, and one key
\* is good for one receipt.
StoredOnce ==
  /\ \A c \in Calls : Pinned(c) => Cardinality({r \in stored : r.call = c}) <= 1
  /\ \A k \in Keys : Cardinality({r \in stored : opts[r.call].key = k}) <= 1

\* An answer is about a receipt that is stored, and of all attempts that sent one
\* receipt at most one is told that it was new.
AnswersAreTrue ==
  \A c \in Calls : \A i \in DOMAIN tries[c] :
    /\ tries[c][i].outcome \in {"created", "duplicate"} => Receipt(c, i) \in stored
    /\ tries[c][i].outcome = "created" =>
         \A j \in DOMAIN tries[c] \ {i} :
           Receipt(c, j) = Receipt(c, i) => tries[c][j].outcome # "created"

\* Only by pinning both fields can the application have a repeated call confirmed:
\* then, and with a key of its own if any, it never ends in a conflict.
PinnedIsConfirmed ==
  \A c \in Calls : Pinned(c) /\ (opts[c].key = NoKey \/ Alone(c)) =>
    \A i \in DOMAIN tries[c] : tries[c][i].outcome # "conflict"

\* No timer will end this attempt: it has ended, or a part of its answer has just
\* come in (Python), or its headers have (TypeScript, which reads a body without one).
PastTimers(try) ==
  \/ try.phase = "ended"
  \/ sdk = "python" /\ ~ try.receiving
  \/ sdk = "typescript" /\ try.phase = "reading"

\* An emission of the Python client ends unless parts of its answer keep coming in
\* for ever, at whatever moment the network falls silent; that of the TypeScript
\* client gets past the headers whatever comes in, but may hang in a silent body.
EmissionEnds ==
  \A c \in Calls : []<>(\A i \in DOMAIN tries[c] : PastTimers(tries[c][i]))
=============================================================================
