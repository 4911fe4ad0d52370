--------------------------- MODULE MCReceiptEmission ---------------------------
(* A small instance of ReceiptEmission: two calls that may share a key, each   *)
(* made twice.                                                                 *)
EXTENDS ReceiptEmission

CONSTANTS c1, c2, k1

\* Nothing but the receipt_id, as emit_post_action_receipt has it, both fields,
\* the key, and all of them.
MCPassed ==
  {[receipt_id |-> TRUE, timestamp |-> FALSE, key |-> NoKey],
   [receipt_id |-> TRUE, timestamp |-> TRUE, key |-> NoKey],
   [receipt_id |-> FALSE, timestamp |-> FALSE, key |-> k1],
   [receipt_id |-> TRUE, timestamp |-> TRUE, key |-> k1]}
=============================================================================
