----------------------------- MODULE ReceiptIngest -----------------------------
(***************************************************************************)
(* client.py: how IngestClient._post ends, and what the ingest service has *)
(* stored by then.  The service is outside the repository: it appends the  *)
(* receipts that reach it, possibly after the client stopped waiting.      *)
(***************************************************************************)
EXTENDS Naturals, Sequences

VARIABLES
  log,     \* the receipts the service has stored, in its order
  transit  \* receipts on their way that no client waits for any more

\* How _post ends: with the parsed answer, with IngestError (an HTTP status of
\* the service or of a proxy, or a connection that could not be made), or with
\* what it does not catch: a timeout or a reset while the answer is read, or
\* an answer that is not the expected JSON.
Results == {"answer", "IngestError", "escape"}

\* An answer means that the receipt is stored; any other end leaves it open.
Post(receipt, res) ==
  \/ /\ res = "answer"
     /\ log' = Append(log, receipt)
     /\ UNCHANGED transit
  \/ /\ res # "answer"
     /\ transit' \in {transit, transit \cup {receipt}}
     /\ UNCHANGED log

\* The service stores what was still on its way.
Deliver ==
  \E receipt \in transit :
    /\ log' = Append(log, receipt)
    /\ transit' = transit \ {receipt}

\* What has left a client and is not lost, stored or not.
Sent == transit \cup {log[i] : i \in DOMAIN log}
=============================================================================
