------------------------------- MODULE MCAudit ------------------------------
(* Audit with a channel of one slot, two observers, two racing Stops.      *)
EXTENDS Audit

CONSTANTS h1, h2, w1, w2, q1, q2
=============================================================================
