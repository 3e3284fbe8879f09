------------------------------ MODULE MCRelay ------------------------------
(* Three events; the first and the last are about the same payment. *)
EXTENDS Relay

CONSTANTS p1, p2

MCPaymentOf == <<p1, p2, p1>>

=============================================================================
