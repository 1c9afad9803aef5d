--------------------------- MODULE MCMultiWebhook ---------------------------
(* An instance of MultiWebhook for TLC: two requests and two signals, the  *)
(* second of which may come while the first is waited for or handled.      *)
EXTENDS MultiWebhook, TLC

CONSTANTS r1, r2
=============================================================================
