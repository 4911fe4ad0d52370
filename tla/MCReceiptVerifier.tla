--------------------------- MODULE MCReceiptVerifier ---------------------------
(* A small instance of ReceiptVerifier: two threads that fetch the keys while  *)
(* they rotate, one of which verifies whatever may come of a signed receipt.   *)
EXTENDS ReceiptVerifier

CONSTANTS t1, t2
=============================================================================
