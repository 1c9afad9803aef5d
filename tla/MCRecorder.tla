----------------------------- MODULE MCRecorder -----------------------------
(* An instance of Recorder for TLC: five recorders, three of them for the  *)
(* default registry (one without saying so), which nobody else uses, and   *)
(* two for a registry where the user has collectors of the same names.     *)
EXTENDS Recorder, TLC

CONSTANTS n1, n2, n3, n4, n5, own

MCGiven     == (n1 :> Default) @@ (n2 :> None) @@ (n3 :> Default) @@ (n4 :> own) @@ (n5 :> own)
MCUserNames == (Default :> {}) @@ (own :> {"mutating_duration", "warnings"})
=============================================================================
