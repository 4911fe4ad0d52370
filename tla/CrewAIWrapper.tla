----------------------------- MODULE CrewAIWrapper -----------------------------
(***************************************************************************)
(* crewai-openterms wrapper.py: the callable that wrap_tool returns, at    *)
(* calls that may overlap.  The wrapper keeps nothing between calls; a     *)
(* caller that gets an exception may make the call again.                  *)
(***************************************************************************)
EXTENDS ReceiptIngest

CONSTANTS
  Calls,    \* calls of the wrapped tool; a call stands for its fresh receipt_id
  MaxRetry  \* bound on how often a caller repeats a call that raised

ASSUME CrewAIAssumption == MaxRetry \in Nat

VARIABLES
  emitPost, strict,  \* the settings of OpenTermsToolConfig
  call               \* [Calls -> the state of the latest attempt, and its history]

vars == <<log, transit, emitPost, strict, call>>

\* pre is how the first POST ended; outcome is what the caller got; attempt and
\* ran count the attempts and the executions of the tool.
Fresh == [pc |-> "idle", pre |-> "none", tool |-> "none", outcome |-> "none",
          attempt |-> 1, ran |-> 0]

Receipt(kind, c) == [kind |-> kind, of |-> c, attempt |-> call[c].attempt]

Init ==
  /\ log = << >> /\ transit = {}
  /\ emitPost \in BOOLEAN /\ strict \in BOOLEAN
  /\ call = [c \in Calls |-> Fresh]

Start(c) ==
  /\ call[c].pc = "idle"
  /\ call' = [call EXCEPT ![c].pc = "pre"]
  /\ UNCHANGED <<log, transit, emitPost, strict>>

\* Slip: strict is forgotten.
RaisesNever(res) == res = "escape"

\* What a POST that ended with res raises out of the wrapper.
Raises(res) == res = "escape" \/ (res = "IngestError" /\ strict)

\* The pre-action POST ends; unless it raises, the tool is executed.
PreEnds(c) ==
  /\ call[c].pc = "pre"
  /\ \E res \in Results :
       /\ Post(Receipt("pre", c), res)
       /\ call' = [call EXCEPT ![c].pc = IF Raises(res) THEN "done" ELSE "tool",
                               ![c].pre = res,
                               ![c].outcome = IF Raises(res) THEN res ELSE @]
  /\ UNCHANGED <<emitPost, strict>>

\* Slip: the post-action receipt does not depend on how the pre-action one went.
PostsAlways(c) == emitPost

\* A post-action receipt is sent if the pre-action one was answered.
Posts(c) == emitPost /\ call[c].pre = "answer"

\* The tool is executed; what it raises is not caught.
Tool(c) ==
  /\ call[c].pc = "tool"
  /\ \E out \in {"value", "toolError"} :
       LET posts == out = "value" /\ Posts(c)
       IN  call' = [call EXCEPT ![c].pc = IF posts THEN "post" ELSE "done",
                                ![c].tool = out,
                                ![c].outcome = IF posts THEN @ ELSE out,
                                ![c].ran = @ + 1]
  /\ UNCHANGED <<log, transit, emitPost, strict>>

\* Slip: IngestError leaves the wrapper after the tool as before it, strict or not.
PostEndsRaising(c) ==
  /\ call[c].pc = "post"
  /\ \E res \in Results :
       /\ Post(Receipt("post", c), res)
       /\ call' = [call EXCEPT ![c].pc = "done",
                               ![c].outcome = IF res = "answer" THEN "value" ELSE res]
  /\ UNCHANGED <<emitPost, strict>>

\* Slip: the caller gets what the POST came to instead of the tool's result.
PostEndsAnswer(c) ==
  /\ call[c].pc = "post"
  /\ \E res \in Results :
       /\ Post(Receipt("post", c), res)
       /\ call' = [call EXCEPT ![c].pc = "done", ![c].outcome = res]
  /\ UNCHANGED <<emitPost, strict>>

PostEnds(c) ==
  /\ call[c].pc = "post"
  /\ \E res \in Results :
       /\ Post(Receipt("post", c), res)
       /\ call' = [call EXCEPT ![c].pc = "done",
                               ![c].outcome = IF Raises(res) THEN res ELSE "value"]
  /\ UNCHANGED <<emitPost, strict>>

\* The caller makes a call that raised again; the wrapper draws a new receipt_id.
Retry(c) ==
  /\ call[c].pc = "done" /\ call[c].outcome # "value"
  /\ call[c].attempt <= MaxRetry
  /\ call' = [call EXCEPT ![c] = [Fresh EXCEPT !.attempt = call[c].attempt + 1,
                                               !.ran = call[c].ran]]
  /\ UNCHANGED <<log, transit, emitPost, strict>>

Delivery == Deliver /\ UNCHANGED <<emitPost, strict, call>>

Wrapper(c) == Start(c) \/ PreEnds(c) \/ Tool(c) \/ PostEnds(c)

Next == \/ \E c \in Calls : Wrapper(c) \/ Retry(c)
        \/ Delivery

Spec == Init /\ [][Next]_vars

-----------------------------------------------------------------------------
(* Properties.                                                             *)

Receipts == [kind: {"pre", "post"}, of: Calls, attempt: 1 .. MaxRetry + 1]

\* The type of every variable of the wrapper and of the service.
TypeOK ==
  /\ log \in Seq(Receipts) /\ transit \subseteq Receipts
  /\ emitPost \in BOOLEAN /\ strict \in BOOLEAN
  /\ call \in [Calls -> [pc: {"idle", "pre", "tool", "post", "done"},
                         pre: Results \cup {"none"},
                         tool: {"none", "value", "toolError"},
                         outcome: {"none", "value", "toolError", "IngestError", "escape"},
                         attempt: 1 .. MaxRetry + 1, ran: 0 .. MaxRetry + 1]]

\* Without strict, and unless something other than IngestError is raised, the
\* caller gets what the tool came to (README.md of crewai-openterms, "Logs and
\* continues on ingest failures").
IngestErrorsStayInside ==
  \A c \in Calls :
    ~ strict /\ call[c].pc = "done" /\ call[c].outcome # "escape" =>
      call[c].outcome = call[c].tool /\ call[c].tool # "none"

\* With strict, no tool is executed before the service has stored the pre-action
\* receipt of this very attempt (wrapper.py:85).
StrictToolIsRecorded ==
  \A c \in Calls :
    strict /\ call[c].tool # "none" =>
      \E i \in DOMAIN log : log[i] = Receipt("pre", c)

-----------------------------------------------------------------------------
(* The audit trail.                                                        *)

\* How far the receipts of the k-th attempt at call c have got.
Stage(c, k) ==
  CASE k < call[c].attempt -> "closed"
    [] k > call[c].attempt -> "fresh"
    [] k = call[c].attempt ->
         CASE call[c].pc \in {"idle", "pre"} -> "fresh"
           [] call[c].pc \in {"tool", "post"} ->
                IF call[c].pre = "answer" THEN "stored" ELSE "unsure"
           [] call[c].pc = "done" -> "closed"

\* Each attempt draws a receipt_id.
Attempts == Calls \X (1 .. MaxRetry + 1)
Audited(m) == [kind |-> m.kind, use |-> <<m.of, m.attempt>>]

Audit == INSTANCE ToolAudit WITH
           Uses <- Attempts, PostNeedsPre <- TRUE,
           log <- [i \in DOMAIN log |-> Audited(log[i])],
           transit <- {Audited(m) : m \in transit},
           stage <- [a \in Attempts |-> Stage(a[1], a[2])]

\* Each attempt sends at most one receipt of each kind, and the post-action one
\* only after the answer to the other, so that the log never shows it first,
\* however late receipts arrive and callers retry (the test of
\* pre_canonical_hash before the second POST).
ImplementsAudit == Audit!Spec

\* To a reader of the log a post-action receipt comes after the pre-action one of
\* its attempt, and each is there once.
PreStoredFirst == Audit!OncePerKind /\ Audit!PreFirst

-----------------------------------------------------------------------------
(* What the documentation says and the code does not do.                   *)

\* README.md:74 of crewai-openterms says that the tool's return value is always
\* passed through: no call would end in an error of the ingest once the tool
\* has returned.
ValueAlwaysPassed ==
  \A c \in Calls :
    ~ strict /\ call[c].pc = "done" /\ call[c].tool = "value" => call[c].outcome = "value"
=============================================================================
