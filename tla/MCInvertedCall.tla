--------------------------- MODULE MCInvertedCall ---------------------------
(***************************************************************************)
(* InvertedCall with two WAIT_VMEXIT requests, which compete for one slot  *)
(* and for both claimers, and a SERIAL_READ request besides.               *)
(***************************************************************************)
EXTENDS InvertedCall

CONSTANTS v1, v2, s1

MCChannel == [r \in Requests |-> IF r = s1 THEN "serial" ELSE "vmexit"]
=============================================================================
