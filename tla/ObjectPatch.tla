---------------------------- MODULE ObjectPatch ----------------------------
(***************************************************************************)
(* What a mutating webhook does to the object of a review: the raw JSON is *)
(* decoded into a Go type or into an Unstructured (pkg/webhook/internal/   *)
(* helpers), the mutator changes it, and the JSON patch leads from the raw *)
(* JSON to what the mutated object marshals to (pkg/webhook/mutating).     *)
(* The API server applies the patch, may call the same webhook again and   *)
(* others meanwhile, each on what the one before left.                     *)
(*                                                                         *)
(* A Go type does not have every field of the JSON (it may be of an older  *)
(* version of the API), gives a field that is absent its zero value, and   *)
(* marshals a zero value as nothing or as itself; a pointer tells the two  *)
(* apart.  External: encoding/json, the decoders of apimachinery, the diff *)
(* of gomodules.xyz/jsonpatch and the API server's use of it.              *)
(***************************************************************************)
EXTENDS Naturals

CONSTANTS
  Fields,      \* the fields of the object, each of one class
  Class,       \* Class[f]: how the Go type has field f, see Classes
  Values,      \* the values of a field
  Zero,        \* what the zero value of a Go type marshals to, as "" and {}
  Null,        \* a null in the JSON, where that is not Zero
  None,        \* what stands for a field that is absent, and for a nil
  Webhooks,    \* the mutating webhooks of the library the API server calls
  Type,        \* Type[w]: what the object creator of w makes of the object
  MaxChanges   \* bound on the changes of one mutator

(* Not in the type; with omitempty, without it, a pointer with it.         *)
Classes == {"unknown", "omitted", "always", "pointer"}

ASSUME ObjectPatchAssumption ==
  /\ Class \in [Fields -> Classes]
  /\ Zero \in Values /\ Null \notin Values /\ None \notin Values \cup {Null, "given", "copy"}
  /\ Type \in [Webhooks -> {"typed", "unstructured"}]
  /\ MaxChanges \in Nat

VARIABLES
  object,     \* the document the API server has; during a call, the raw object it sent
  left,       \* the type of the object it was last patched from, if it still is that
  pc,         \* where the call is
  webhook,    \* the webhook that is called
  cell,       \* cell[p]: the fields of the Go object p points to, and those changed
  changes,    \* how many changes the mutator has made
  returned,   \* the object the mutator returned, None for no object
  patch       \* the patch

vars == <<object, left, pc, webhook, cell, changes, returned, patch>>

-----------------------------------------------------------------------------
Doc == [Fields -> Values \cup {None, Null}]
Op  == [op : {"add", "remove", "replace"}, field : Fields, value : Values \cup {None, Null}]

(* The object the webhook made, and a deep copy the mutator may make.      *)
Pointers == {"given", "copy"}

(* A bug: a decoder that sets defaults, the universal one of a scheme.     *)
DecodeDefaulting(type, doc) ==
  [f \in Fields |-> IF type = "unstructured" THEN doc[f]
                    ELSE IF Class[f] = "unknown" THEN None
                    ELSE IF doc[f] \notin {None, Null} THEN doc[f]
                    ELSE IF Class[f] = "pointer" THEN None ELSE CHOOSE v \in Values : v # Zero]

(* NewObject, with a deserializer, which sets no defaults.                 *)
Decode(type, doc) ==
  [f \in Fields |-> IF type = "unstructured" THEN doc[f]
                    ELSE IF Class[f] = "unknown" THEN None
                    ELSE IF doc[f] \notin {None, Null} THEN doc[f]
                    ELSE IF Class[f] = "pointer" THEN None ELSE Zero]

(* json.Marshal.                                                           *)
Encode(type, obj) ==
  [f \in Fields |-> IF type = "typed" /\ Class[f] = "omitted" /\ obj[f] = Zero THEN None ELSE obj[f]]

(* What a mutator can write to a field of the object.                      *)
Writable(type, f) ==
  IF type = "unstructured" THEN Values \cup {None, Null}
  ELSE IF Class[f] = "pointer" THEN Values \cup {None}
  ELSE IF Class[f] = "unknown" THEN {} ELSE Values

(* A bug: the operations are not compared with what is there.              *)
CreatePatchUncompared(from, to) ==
  {o \in Op : /\ o.value = to[o.field]
              /\ o.op = IF from[o.field] = None THEN "add" ELSE IF to[o.field] = None THEN "remove" ELSE "replace"
              /\ from[o.field] # None \/ to[o.field] # None}

(* jsonpatch.CreatePatch.                                                  *)
CreatePatch(from, to) ==
  {o \in Op : /\ from[o.field] # to[o.field]
              /\ o.value = to[o.field]
              /\ o.op = IF from[o.field] = None THEN "add" ELSE IF to[o.field] = None THEN "remove" ELSE "replace"}

(* The API server applies a patch; an operation that is not an addition    *)
(* needs what it is about to be there.                                     *)
Applies(ops, doc) == \A o \in ops : o.op # "add" => doc[o.field] # None
Patched(ops, doc) ==
  [f \in Fields |-> IF \E o \in ops : o.field = f THEN (CHOOSE o \in ops : o.field = f).value ELSE doc[f]]

New == [fields |-> [f \in Fields |-> None], changed |-> {}]

Init ==
  /\ object \in Doc
  /\ left = "none"
  /\ pc = "idle"
  /\ webhook \in Webhooks
  /\ cell = [p \in Pointers |-> New]
  /\ changes = 0
  /\ returned = None
  /\ patch = {}

(* The API server sends a review; the webhook makes the object.            *)
Send(w) ==
  /\ pc = "idle"
  /\ pc' = "mutator"
  /\ webhook' = w
  /\ cell' = [p \in Pointers |-> IF p = "given"
                                 THEN [New EXCEPT !.fields = Decode(Type[w], object)] ELSE New]
  /\ UNCHANGED <<object, left, changes, returned, patch>>

(* The user's mutator makes a deep copy ...                                *)
DeepCopy ==
  /\ pc = "mutator"
  /\ cell' = [cell EXCEPT !["copy"] = cell["given"]]
  /\ UNCHANGED <<object, left, pc, webhook, changes, returned, patch>>

(* ... or writes a field of one of its objects ...                         *)
Change ==
  /\ pc = "mutator"
  /\ changes < MaxChanges
  /\ changes' = changes + 1
  /\ \E p \in {p \in Pointers : p = "copy" => cell[p] # New}, f \in Fields : \E value \in Writable(Type[webhook], f) :
       cell' = [cell EXCEPT ![p].fields[f] = value, ![p].changed = @ \cup {f}]
  /\ UNCHANGED <<object, left, pc, webhook, returned, patch>>

(* A bug: the object the mutator was given is taken in any case.           *)
MutatedObjectGiven(res) == "given"

(* webhook.go:125-130; res is the pointer the mutator returned.            *)
MutatedObject(res) == IF res = None THEN "given" ELSE res

(* A bug, the one of versions before 0.7.0: the patch starts from the raw  *)
(* object as the Go type has it.                                           *)
RespondFromObject ==
  /\ pc = "mutator"
  /\ pc' = "respond"
  /\ \E res \in Pointers \cup {None} :
       LET type == Type[webhook]
       IN  /\ returned' = res
           /\ patch' = CreatePatch(Encode(type, Decode(type, object)),
                                   Encode(type, cell[MutatedObject(res)].fields))
  /\ UNCHANGED <<object, left, webhook, cell, changes>>

(* The mutator returns no object, the one it was given, or its copy, and   *)
(* the webhook makes the patch.                                            *)
Respond ==
  /\ pc = "mutator"
  /\ pc' = "respond"
  /\ \E res \in Pointers \cup {None} :
       /\ res = "copy" => cell["copy"] # New
       /\ returned' = res
       /\ patch' = CreatePatch(object, Encode(Type[webhook], cell[MutatedObject(res)].fields))
  /\ UNCHANGED <<object, left, webhook, cell, changes>>

(* The API server applies the patch to the object it sent, and the call is  *)
(* over.                                                                   *)
Apply ==
  /\ pc = "respond"
  /\ pc' = "idle"
  /\ object' = Patched(patch, object)
  /\ left' = Type[webhook]
  /\ cell' = [p \in Pointers |-> New]
  /\ changes' = 0
  /\ returned' = None
  /\ patch' = {}
  /\ UNCHANGED webhook

(* The user, or a webhook that is not one of ours, changes the object.     *)
Edit ==
  /\ pc = "idle"
  /\ \E f \in Fields, value \in Values \cup {None, Null} : object' = [object EXCEPT ![f] = value]
  /\ left' = "none"
  /\ UNCHANGED <<pc, webhook, cell, changes, returned, patch>>

Next == (\E w \in Webhooks : Send(w)) \/ DeepCopy \/ Change \/ Respond \/ Apply \/ Edit

Spec == Init /\ [][Next]_vars

-----------------------------------------------------------------------------
(* Properties.                                                             *)

(* The object the mutator means: the one it returned, or without one the   *)
(* one it received (mutator.go:17-18, 30).                                 *)
Meant == cell[IF returned = "copy" THEN "copy" ELSE "given"]

(* CHANGELOG.md:144-149: the patch is one of the raw object, so that what  *)
(* is not there is added and not modified; the API server can apply it.    *)
PatchApplies == pc = "respond" => Applies(patch, object)

(* Once the patch is applied the API server has what the mutator left,     *)
(* whether it changed the object in place, a copy of it, or both           *)
(* (webhook.go:125-139).                                                   *)
StoredIsMeant == pc = "respond" => Patched(patch, object) = Encode(Type[webhook], Meant.fields)

(* What says no more than nothing to a Go type.                            *)
Empty(f) == IF Class[f] = "pointer" THEN {None, Null} ELSE {None, Null, Zero}

(* What the mutator has not changed is stored as it was sent: to the       *)
(* letter from an Unstructured, and but for fields the type does not have, *)
(* which go, and for an empty field from a Go type, although it is made    *)
(* and marshalled as a whole (mutating/webhook.go:131).                    *)
OthersUntouched ==
  pc = "respond" =>
    \A f \in Fields \ Meant.changed :
      LET stored == Patched(patch, object)[f]
      IN  \/ stored = object[f]
          \/ /\ Type[webhook] = "typed"
             /\ \/ Class[f] = "unknown" /\ stored = None
                \/ {stored, object[f]} \subseteq Empty(f)

(* A webhook that is called again on what it has left, or after one that   *)
(* makes the same kind of object of it, and changes nothing, has an empty  *)
(* patch: reinvocations settle, and the metrics count no mutation          *)
(* (mutating/webhook.go:136, pkg/webhook/metrics.go:121-123).              *)
Settles ==
  pc = "respond" /\ Meant.changed = {} /\ Type[webhook] \in {left, "unstructured"} => patch = {}
=============================================================================
