----------------------------- MODULE MCLimiter -----------------------------
(* Model-checking instance of Limiter: the constants are in the .cfg files. *)
EXTENDS Limiter
============================================================================
