------------------------------- MODULE ToolAudit -------------------------------
(***************************************************************************)
(* What an adapter's receipts promise to a reader of the service's log: of *)
(* each use of a tool at most one pre-action and one post-action receipt,  *)
(* under one receipt_id, the second only once the POST of the first is     *)
(* over, however POSTs end and receipts are delayed.                       *)
(***************************************************************************)
EXTENDS ReceiptIngest

CONSTANTS
  Uses,         \* uses of a tool; a use stands for its receipt_id
  PostNeedsPre  \* whether only an answered pre-action receipt has a successor

VARIABLE stage  \* [Uses -> how far the receipts of the use have got]

auditVars == <<log, transit, stage>>

Stages == {"fresh", "stored", "unsure", "closed"}

ReceiptOf(kind, u) == [kind |-> kind, use |-> u]

Init ==
  /\ log = << >> /\ transit = {}
  /\ stage = [u \in Uses |-> "fresh"]

\* The POST of the pre-action receipt ends.
Announce(u) ==
  /\ stage[u] = "fresh"
  /\ \E res \in Results :
       /\ Post(ReceiptOf("pre", u), res)
       /\ \E s \in IF res = "answer" THEN {"stored"} ELSE {"unsure", "closed"} :
            stage' = [stage EXCEPT ![u] = s]

\* The POST of the post-action receipt ends.
Conclude(u) ==
  /\ stage[u] = "stored" \/ (stage[u] = "unsure" /\ ~ PostNeedsPre)
  /\ \E res \in Results : Post(ReceiptOf("post", u), res)
  /\ stage' = [stage EXCEPT ![u] = "closed"]

\* There will be no receipt of the use any more.
Close(u) ==
  /\ stage[u] \in {"stored", "unsure"}
  /\ stage' = [stage EXCEPT ![u] = "closed"]
  /\ UNCHANGED <<log, transit>>

Next == \/ \E u \in Uses : Announce(u) \/ Conclude(u) \/ Close(u)
        \/ Deliver /\ UNCHANGED stage

Spec == Init /\ [][Next]_auditVars

-----------------------------------------------------------------------------
(* What follows of it.                                                     *)

\* The log holds a receipt at most once, and not while it is under way.
OncePerKind ==
  /\ \A i, j \in DOMAIN log : log[i] = log[j] => i = j
  /\ \A i \in DOMAIN log : log[i] \notin transit

\* A post-action receipt comes after its pre-action receipt, and never without it.
PreFirst ==
  PostNeedsPre =>
    \A u \in Uses : ReceiptOf("post", u) \in Sent =>
      \E i \in DOMAIN log :
        /\ log[i] = ReceiptOf("pre", u)
        /\ \A j \in DOMAIN log : log[j] = ReceiptOf("post", u) => i < j
=============================================================================
