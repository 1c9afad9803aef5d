--------------------------- MODULE MCObjectPatch ---------------------------
(* An instance of ObjectPatch for TLC: a field of each class, a static     *)
(* webhook and a dynamic one that does not know the type.                  *)
EXTENDS ObjectPatch, TLC

CONSTANTS v, zero, null, none, static, dynamic

MCClass == [f \in Classes |-> f]
MCType  == (static :> "typed") @@ (dynamic :> "unstructured")
=============================================================================
