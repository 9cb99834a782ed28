--------------------------- MODULE MCIdempotency ---------------------------
(* Small instances of Idempotency: two or three requests with one key and   *)
(* one or two bodies.                                                        *)
EXTENDS Idempotency
=============================================================================
