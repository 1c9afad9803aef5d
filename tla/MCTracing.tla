----------------------------- MODULE MCTracing -----------------------------
(* An instance of Tracing for TLC: two handlers, one of a mutating and one *)
(* of a validating webhook, that share the user's tracer.                  *)
EXTENDS Tracing, TLC

CONSTANTS r1, mh, vh, cluster

MCKind == (mh :> "mutating") @@ (vh :> "validating")
=============================================================================
