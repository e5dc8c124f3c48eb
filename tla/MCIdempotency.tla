--------------------------- MODULE MCIdempotency ---------------------------
(* Constants of the Idempotency runs: four attempts in two processes, one  *)
(* of them for another body than the rest.                                 *)
EXTENDS Idempotency, TLC

CONSTANTS q1, q2, q3, q4, pa, pb, b1, b2

HomeOf == q1 :> pa @@ q2 :> pa @@ q3 :> pb @@ q4 :> pb
BodyOf == q1 :> b1 @@ q2 :> b1 @@ q3 :> b1 @@ q4 :> b2
=============================================================================
