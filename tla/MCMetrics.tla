----------------------------- MODULE MCMetrics -----------------------------
(* An instance of Metrics for TLC: a mutating and a validating webhook     *)
(* with one recorder, as in examples/multiwebhook, and a third webhook     *)
(* with a recorder for a registry where the user has a collector; another  *)
(* recorder for the registry of the first.                                 *)
EXTENDS Metrics, TLC

CONSTANTS r1, r2, mw, vw, uw, n1, n2, n3, own

MCGiven     == (n1 :> Default) @@ (n2 :> own) @@ (n3 :> None)
MCUserNames == (Default :> {}) @@ (own :> {"warnings"})
MCKind == (mw :> "mutating") @@ (vw :> "validating") @@ (uw :> "mutating")
MCRec  == (mw :> n1) @@ (vw :> n1) @@ (uw :> n2)
ReviewSymmetry == Permutations({r1, r2})
=============================================================================
