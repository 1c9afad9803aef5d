----------------------------- MODULE MCLogging -----------------------------
(* An instance of Logging for TLC: two requests for two webhooks, a base   *)
(* context with two values, one of which every request has too.            *)
EXTENDS Logging, TLC

CONSTANTS r1, r2, mh, vh, prod, none, one

MCKeys == {"env", "id", "hook", "op", "step"}
MCBase == [Empty EXCEPT !["env"] = prod, !["id"] = none]
(* The handler's values (ServeHTTP), then those of the user's code.        *)
MCOwn(r, h, n) == IF n = 1
                  THEN [Empty EXCEPT !["id"] = r, !["hook"] = h, !["op"] = one]
                  ELSE [Empty EXCEPT !["step"] = one, !["env"] = r]
=============================================================================
