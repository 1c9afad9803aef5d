----------------------------- MODULE MCHandler -----------------------------
(* An instance of Handler for TLC.  The limit is two bytes and bodies have *)
(* none to four: on both sides of the limit, and of the limit of the       *)
(* reader, which is one more.                                              *)
EXTENDS Handler, TLC

CONSTANTS u1, u2, old, new, list, bad, same, changed, k1, k2, m1, w1

dec(s, u, d) == [static |-> s, universal |-> u, unstructured |-> d]

(* old and new are objects of the reviewed type; list is of a type that is *)
(* no metav1.Object but decodes to an Unstructured (pod/exec); bad decodes *)
(* to nothing that is a metav1.Object.                                     *)
MCDecodes ==
  (NoRaw :> dec("error", "error", "error")) @@
  (old   :> dec("object", "object", "object")) @@
  (new   :> dec("object", "error", "object")) @@
  (list  :> dec("error", "notMetaObject", "object")) @@
  (bad   :> dec("error", "notMetaObject", "notMetaObject"))

(* What the API server sends: a creation has no old object, a deletion no  *)
(* new one.                                                                *)
Wire(v, op, o, n) ==
  [version |-> v, uid |-> u1, operation |-> op, object |-> n, oldObject |-> o,
   dryRun |-> IF op = "CREATE" THEN "unset" ELSE IF op = "UPDATE" THEN "true" ELSE "false",
   kind |-> k1, requestKind |-> IF op = "UPDATE" THEN k2 ELSE NoName,
   resource |-> k1, requestResource |-> IF op = "UPDATE" THEN k2 ELSE NoName]

Wires ==
  {Wire(v, "CREATE", NoRaw, o) : v \in Versions, o \in {new, bad}} \cup
  {Wire(v, "UPDATE", old, new) : v \in Versions} \cup
  {Wire(v, "DELETE", old, NoRaw) : v \in Versions} \cup
  {Wire("v1", "CONNECT", NoRaw, list), Wire("v1", "other", NoRaw, new)}

Http(b, n, c, ar) == [body |-> b, size |-> n, content |-> c, ar |-> ar]
AnyWire == Wire("v1", "UPDATE", old, new)

MCRequests ==
  {Http("present", n, "review", ar) : n \in {1, 2}, ar \in Wires} \cup
  {Http("present", n, "review", AnyWire) : n \in {3, 4}} \cup
  {Http("present", n, c, AnyWire) : n \in 0..4, c \in {"garbage", "otherType"}} \cup
  {Http("present", n, "noRequest", AnyWire) : n \in 1..4} \cup
  {Http("nil", 0, "garbage", AnyWire), Http("broken", 2, "garbage", AnyWire)}

MCWebhooks == {wh \in Webhook : wh.kind = "custom" => wh.creator = "static"}
MCWarnings == {<<>>, <<w1>>, <<w1, w1>>}
=============================================================================
