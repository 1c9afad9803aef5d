-------------------------- MODULE ObjectPatchProofs --------------------------
(***************************************************************************)
(* Proofs about ObjectPatch, for any fields, whatever class each is of,    *)
(* any values, any webhooks and any number of changes and of calls.        *)
(***************************************************************************)
EXTENDS ObjectPatch, TLAPS

-----------------------------------------------------------------------------
(* Decoding, encoding and patching.                                        *)
LEMMA CodecTypes ==
  ASSUME NEW type, NEW doc \in Doc
  PROVE  Decode(type, doc) \in Doc /\ Encode(type, doc) \in Doc
BY ObjectPatchAssumption DEF Doc, Decode, Encode

(* A patch leads from the document it was made from to the other one.      *)
LEMMA PatchLeadsThere ==
  ASSUME NEW from \in Doc, NEW to \in Doc
  PROVE  Applies(CreatePatch(from, to), from) /\ Patched(CreatePatch(from, to), from) = to
<1> DEFINE ops == CreatePatch(from, to)
<1>1. Applies(ops, from)
  BY DEF Applies, CreatePatch
<1>2. ASSUME NEW f \in Fields
      PROVE  Patched(ops, from)[f] = to[f]
  <2>1. CASE from[f] = to[f]
    <3>1. ~\E o \in ops : o.field = f
      BY <2>1 DEF CreatePatch
    <3> QED
      BY <2>1, <3>1 DEF Patched
  <2>2. CASE from[f] # to[f]
    <3> DEFINE o == [op |-> IF from[f] = None THEN "add" ELSE IF to[f] = None THEN "remove" ELSE "replace",
                     field |-> f, value |-> to[f]]
    <3>1. o \in ops /\ o.field = f
      BY <2>2 DEF CreatePatch, Op, Doc
    <3>2. \A q \in ops : q.field = f => q.value = to[f]
      BY DEF CreatePatch
    <3> QED
      BY <3>1, <3>2 DEF Patched
  <2> QED
    BY <2>1, <2>2
<1>3. Patched(ops, from) = to
  BY <1>2 DEF Patched, Doc
<1> QED
  BY <1>1, <1>3

LEMMA NoPatch ==
  ASSUME NEW doc \in Doc
  PROVE  CreatePatch(doc, doc) = {}
BY DEF CreatePatch

-----------------------------------------------------------------------------
(* The fields of a Go type that are not pointers are never nil, and those  *)
(* the type does not have are not there.                                   *)
GoObject(type, obj) ==
  type = "typed" => \A f \in Fields : /\ obj[f] # Null
                                      /\ Class[f] = "unknown" => obj[f] = None
                                      /\ Class[f] \in {"omitted", "always"} => obj[f] # None

(* A document that a Go type marshals to.                                  *)
Marshalled(type, doc) ==
  type = "typed" => \A f \in Fields : /\ doc[f] # Null
                                      /\ Class[f] = "unknown" => doc[f] = None
                                      /\ Class[f] = "omitted" => doc[f] # Zero
                                      /\ Class[f] = "always" => doc[f] # None

LEMMA Decoded ==
  ASSUME NEW type \in {"typed", "unstructured"}, NEW doc \in Doc
  PROVE  GoObject(type, Decode(type, doc))
BY ObjectPatchAssumption DEF GoObject, Decode

LEMMA Encoded ==
  ASSUME NEW type \in {"typed", "unstructured"}, NEW obj \in Doc, GoObject(type, obj)
  PROVE  Marshalled(type, Encode(type, obj))
BY ObjectPatchAssumption DEF GoObject, Marshalled, Encode

(* A field that goes through a Go type and back is stored as it was sent,  *)
(* or lost to a type that does not have it, or is empty before and after.  *)
LEMMA ThereAndBack ==
  ASSUME NEW type \in {"typed", "unstructured"}, NEW doc \in Doc, NEW obj, NEW f \in Fields,
         obj[f] = Decode(type, doc)[f]
  PROVE  \/ Encode(type, obj)[f] = doc[f]
         \/ /\ type = "typed"
            /\ \/ Class[f] = "unknown" /\ Encode(type, obj)[f] = None
               \/ {Encode(type, obj)[f], doc[f]} \subseteq Empty(f)
BY ObjectPatchAssumption DEF Decode, Encode, Classes, Empty

(* What a Go type has marshalled it marshals to again.                     *)
LEMMA EncodeDecode ==
  ASSUME NEW type \in {"typed", "unstructured"}, NEW doc \in Doc, Marshalled(type, doc)
  PROVE  Encode(type, Decode(type, doc)) = doc
<1>1. ASSUME NEW f \in Fields
      PROVE  Encode(type, Decode(type, doc))[f] = doc[f]
  BY ObjectPatchAssumption DEF Marshalled, Decode, Encode, Classes
<1> QED
  BY <1>1 DEF Doc, Encode

-----------------------------------------------------------------------------
(* The type invariant of the state, which no run checks on its own.        *)
Cell == [fields : Doc, changed : SUBSET Fields]

Types ==
  /\ object \in Doc
  /\ left \in {"none", "typed", "unstructured"}
  /\ pc \in {"idle", "mutator", "respond"}
  /\ webhook \in Webhooks
  /\ cell \in [Pointers -> Cell]
  /\ returned \in Pointers \cup {None}

(* The objects of a call: each is an object of the Go type, and apart from *)
(* the fields the mutator changed it is the one that was sent.             *)
Live(p) == p = "given" \/ cell[p] # New

CellOf(p) ==
  /\ GoObject(Type[webhook], cell[p].fields)
  /\ \A f \in Fields \ cell[p].changed : cell[p].fields[f] = Decode(Type[webhook], object)[f]

CallPart == pc # "idle" => \A p \in Pointers : Live(p) => CellOf(p)

(* The patch is the one from the raw object to what the mutator means.     *)
PatchPart ==
  pc = "respond" =>
    /\ returned = "copy" => Live("copy")
    /\ patch = CreatePatch(object, Encode(Type[webhook], Meant.fields))

PatchInv == Types /\ Marshalled(left, object) /\ CallPart /\ PatchPart

LEMMA InitPatchInv == Init => PatchInv
<1> SUFFICES ASSUME Init PROVE PatchInv
  OBVIOUS
<1>1. New \in Cell
  BY DEF New, Cell, Doc
<1> QED
  BY <1>1 DEF Init, PatchInv, Types, Marshalled, CallPart, PatchPart

LEMMA SendStep ==
  ASSUME PatchInv, NEW w \in Webhooks, Send(w)
  PROVE  PatchInv'
<1>1. Type[w] \in {"typed", "unstructured"} /\ object \in Doc
  BY ObjectPatchAssumption DEF PatchInv, Types
<1>2. [New EXCEPT !.fields = Decode(Type[w], object)] = [fields |-> Decode(Type[w], object), changed |-> {}]
  BY DEF New
<1>3. cell' = [p \in Pointers |-> IF p = "given" THEN [fields |-> Decode(Type[w], object), changed |-> {}]
                                  ELSE New]
  BY <1>2 DEF Send
<1>4. cell' \in [Pointers -> Cell]
  BY <1>1, <1>3, CodecTypes DEF Cell, New, Doc
<1>5. Types' /\ Marshalled(left, object)'
  BY <1>4 DEF PatchInv, Types, Send, Marshalled
<1>6. CallPart'
  <2> SUFFICES ASSUME NEW p \in Pointers, Live(p)' PROVE CellOf(p)'
    BY DEF CallPart
  <2>1. p = "given"
    BY <1>3 DEF Live
  <2>2. cell'[p].fields = Decode(Type[w], object) /\ cell'[p].changed = {}
    BY <1>3, <2>1
  <2> QED
    BY <1>1, <2>2, Decoded DEF CellOf, Send
<1>7. PatchPart'
  BY DEF Send, PatchPart
<1> QED
  BY <1>5, <1>6, <1>7 DEF PatchInv

LEMMA DeepCopyStep ==
  ASSUME PatchInv, DeepCopy
  PROVE  PatchInv'
<1>1. cell \in [Pointers -> Cell] /\ cell' = [cell EXCEPT !["copy"] = cell["given"]]
  BY DEF PatchInv, Types, DeepCopy
<1>2. cell'["copy"] = cell["given"] /\ cell'["given"] = cell["given"]
  BY <1>1 DEF Pointers
<1>3. Types' /\ Marshalled(left, object)'
  BY <1>1 DEF PatchInv, Types, DeepCopy, Marshalled, Pointers
<1>4. CallPart'
  <2>1. CellOf("given")
    BY DEF PatchInv, CallPart, DeepCopy, Live, Pointers
  <2> QED
    BY <1>2, <2>1 DEF CallPart, CellOf, DeepCopy, Pointers
<1>5. PatchPart'
  BY DEF DeepCopy, PatchPart
<1> QED
  BY <1>3, <1>4, <1>5 DEF PatchInv

(* The write of a field of an object.                                      *)
Written(c, f, value) == [[c EXCEPT !.fields[f] = value] EXCEPT !.changed = @ \cup {f}]

LEMMA WriteField ==
  ASSUME NEW c \in Cell, NEW f, NEW value
  PROVE  Written(c, f, value) = [fields |-> [c.fields EXCEPT ![f] = value], changed |-> c.changed \cup {f}]
<1> DEFINE written == [fields |-> [c.fields EXCEPT ![f] = value], changed |-> c.changed]
           more    == c.changed \cup {f}
<1>1. [c EXCEPT !.fields[f] = value] = written
  BY DEF Cell, Doc
<1>2. [written EXCEPT !.changed = @ \cup {f}] = [written EXCEPT !.changed = more]
  OBVIOUS
<1> HIDE DEF more
<1>3. [written EXCEPT !.changed = more] = [fields |-> [c.fields EXCEPT ![f] = value], changed |-> more]
  OBVIOUS
<1> QED
  BY <1>1, <1>2, <1>3 DEF more, Written

LEMMA ChangeStep ==
  ASSUME PatchInv, Change
  PROVE  PatchInv'
<1> DEFINE type == Type[webhook]
<1>1. PICK q \in Pointers, g \in Fields : 
        /\ q = "copy" => cell[q] # New
        /\ \E v \in Writable(type, g) :
             cell' = [cell EXCEPT ![q].fields[g] = v, ![q].changed = @ \cup {g}]
  BY DEF Change
<1>0. PICK value \in Writable(type, g) :
        cell' = [cell EXCEPT ![q].fields[g] = value, ![q].changed = @ \cup {g}]
  BY <1>1
<1>2. /\ cell \in [Pointers -> Cell] /\ pc = "mutator" /\ pc' = "mutator"
      /\ UNCHANGED <<object, left, webhook, returned, patch>>
      /\ type \in {"typed", "unstructured"}
  BY ObjectPatchAssumption DEF PatchInv, Types, Change
<1> DEFINE old == cell[q]
           new == [fields |-> [old.fields EXCEPT ![g] = value], changed |-> old.changed \cup {g}]
<1>3. old.fields \in Doc /\ old.changed \in SUBSET Fields
  BY <1>2 DEF Cell
<1>4. cell' = [cell EXCEPT ![q] = new]
  <2>1. Written(old, g, value) = new
    BY <1>2, WriteField
  <2>2. cell' = [cell EXCEPT ![q] = Written(old, g, value)]
    BY <1>0, <1>2 DEF Written
  <2> QED
    BY <2>1, <2>2
<1>5. value \in Values \cup {None, Null} /\ new \in Cell
  BY <1>3 DEF Writable, Cell, Doc
<1>6. Types' /\ Marshalled(left, object)'
  BY <1>2, <1>4, <1>5 DEF PatchInv, Types, Marshalled
<1>7. CallPart'
  <2> SUFFICES ASSUME NEW p \in Pointers, Live(p)' PROVE CellOf(p)'
    BY DEF CallPart
  <2>1. CASE p # q
    <3>1. cell'[p] = cell[p] /\ Live(p)
      BY <1>2, <1>4, <2>1 DEF Live
    <3>2. CellOf(p)
      BY <1>2, <3>1 DEF PatchInv, CallPart
    <3> QED
      BY <1>2, <3>1, <3>2 DEF CellOf
  <2>2. CASE p = q
    <3>1. CellOf(q)
      BY <1>1, <1>2 DEF PatchInv, CallPart, Live, Pointers
    <3>2. cell'[p] = new /\ \A f \in Fields : new.fields[f] = IF f = g THEN value ELSE old.fields[f]
      BY <1>2, <1>3, <1>4, <2>2 DEF Doc
    <3>3. GoObject(type, new.fields)
      <4> SUFFICES ASSUME type = "typed", NEW f \in Fields
                   PROVE  /\ new.fields[f] # Null
                          /\ Class[f] = "unknown" => new.fields[f] = None
                          /\ Class[f] \in {"omitted", "always"} => new.fields[f] # None
        BY DEF GoObject
      <4>1. CASE f = g
        BY <3>2, <4>1, ObjectPatchAssumption DEF Writable
      <4>2. CASE f # g
        BY <3>1, <3>2, <4>2 DEF CellOf, GoObject
      <4> QED
        BY <4>1, <4>2
    <3>4. \A f \in Fields \ new.changed : new.fields[f] = Decode(type, object)[f]
      BY <3>1, <3>2 DEF CellOf
    <3> QED
      BY <1>2, <3>2, <3>3, <3>4 DEF CellOf
  <2> QED
    BY <2>1, <2>2
<1>8. PatchPart'
  BY <1>2 DEF PatchPart
<1> QED
  BY <1>6, <1>7, <1>8 DEF PatchInv

LEMMA RespondStep ==
  ASSUME PatchInv, Respond
  PROVE  PatchInv'
<1>1. PICK res \in Pointers \cup {None} :
        /\ res = "copy" => cell["copy"] # New
        /\ returned' = res
        /\ patch' = CreatePatch(object, Encode(Type[webhook], cell[MutatedObject(res)].fields))
  BY DEF Respond
<1>2. pc = "mutator" /\ pc' = "respond" /\ UNCHANGED <<object, left, webhook, cell>>
  BY DEF Respond
<1>3. MutatedObject(res) = IF returned' = "copy" THEN "copy" ELSE "given"
  BY <1>1, ObjectPatchAssumption DEF MutatedObject, Pointers
<1>4. Types' /\ Marshalled(left, object)'
  BY <1>1, <1>2 DEF PatchInv, Types, Marshalled
<1>5. CallPart'
  BY <1>2 DEF PatchInv, CallPart, Live, CellOf
<1>6. PatchPart'
  BY <1>1, <1>2, <1>3 DEF PatchPart, Meant, Live
<1> QED
  BY <1>4, <1>5, <1>6 DEF PatchInv

(* What the invariant says of the object the mutator means.                *)
LEMMA TheMeant ==
  ASSUME PatchInv, pc = "respond"
  PROVE  /\ object \in Doc /\ Meant.fields \in Doc
         /\ Type[webhook] \in {"typed", "unstructured"}
         /\ GoObject(Type[webhook], Meant.fields)
         /\ \A f \in Fields \ Meant.changed : Meant.fields[f] = Decode(Type[webhook], object)[f]
         /\ patch = CreatePatch(object, Encode(Type[webhook], Meant.fields))
         /\ Patched(patch, object) = Encode(Type[webhook], Meant.fields)
<1> DEFINE p == IF returned = "copy" THEN "copy" ELSE "given"
<1>1. p \in Pointers /\ Live(p) /\ Meant = cell[p]
  BY DEF PatchInv, PatchPart, Live, Meant, Pointers
<1>2. CellOf(p) /\ cell[p] \in Cell
  BY <1>1 DEF PatchInv, CallPart, Types
<1>3. object \in Doc /\ Meant.fields \in Doc /\ Type[webhook] \in {"typed", "unstructured"}
  BY <1>1, <1>2, ObjectPatchAssumption DEF PatchInv, Types, Cell
<1>4. patch = CreatePatch(object, Encode(Type[webhook], Meant.fields))
  BY DEF PatchInv, PatchPart
<1>5. Encode(Type[webhook], Meant.fields) \in Doc
  BY <1>3, CodecTypes
<1>6. Patched(patch, object) = Encode(Type[webhook], Meant.fields)
  BY <1>3, <1>4, <1>5, PatchLeadsThere
<1> QED
  BY <1>1, <1>2, <1>3, <1>4, <1>6 DEF CellOf

LEMMA ApplyStep ==
  ASSUME PatchInv, Apply
  PROVE  PatchInv'
<1>1. /\ pc' = "idle" /\ object' = Patched(patch, object) /\ left' = Type[webhook] /\ webhook' = webhook
      /\ cell' = [p \in Pointers |-> New] /\ returned' = None
  BY DEF Apply
<1>2. /\ Type[webhook] \in {"typed", "unstructured"}
      /\ object' = Encode(Type[webhook], Meant.fields) /\ Meant.fields \in Doc
      /\ GoObject(Type[webhook], Meant.fields)
  BY <1>1, TheMeant DEF Apply
<1>3. New \in Cell
  BY DEF New, Cell, Doc
<1>4. object' \in Doc /\ Marshalled(left', object')
  BY <1>1, <1>2, CodecTypes, Encoded
<1>5. Types'
  BY <1>1, <1>2, <1>3, <1>4 DEF PatchInv, Types
<1> QED
  BY <1>1, <1>4, <1>5 DEF PatchInv, CallPart, PatchPart, Marshalled

LEMMA EditStep ==
  ASSUME PatchInv, Edit
  PROVE  PatchInv'
<1>1. object' \in Doc
  BY DEF PatchInv, Types, Edit, Doc
<1> QED
  BY <1>1 DEF PatchInv, Types, Edit, Marshalled, CallPart, PatchPart

LEMMA NextPatchInv == PatchInv /\ [Next]_vars => PatchInv'
<1> SUFFICES ASSUME PatchInv, [Next]_vars PROVE PatchInv'
  OBVIOUS
<1>1. CASE UNCHANGED vars
  BY <1>1 DEF vars, PatchInv, Types, Marshalled, CallPart, PatchPart, Live, CellOf, Meant
<1> QED
  BY <1>1, SendStep, DeepCopyStep, ChangeStep, RespondStep, ApplyStep, EditStep DEF Next

LEMMA PatchInvariant == Spec => []PatchInv
BY InitPatchInv, NextPatchInv, PTL DEF Spec

-----------------------------------------------------------------------------
(* The API server can apply the patch (CHANGELOG.md:144-149).              *)
THEOREM PatchesApply == Spec => []PatchApplies
<1>1. PatchInv => PatchApplies
  <2> SUFFICES ASSUME PatchInv, pc = "respond" PROVE Applies(patch, object)
    BY DEF PatchApplies
  <2> QED
    BY TheMeant, CodecTypes, PatchLeadsThere
<1> QED
  BY <1>1, PatchInvariant, PTL

(* What is stored is what the mutator left, in place or in a copy          *)
(* (webhook.go:125-139).                                                   *)
THEOREM MeantIsStored == Spec => []StoredIsMeant
<1>1. PatchInv => StoredIsMeant
  BY TheMeant DEF StoredIsMeant
<1> QED
  BY <1>1, PatchInvariant, PTL

(* What the mutator has not changed is stored as it was sent, but for what *)
(* its Go type does not have or does not tell from nothing                 *)
(* (mutating/webhook.go:131).                                              *)
THEOREM OthersStay == Spec => []OthersUntouched
<1>1. PatchInv => OthersUntouched
  <2> SUFFICES ASSUME PatchInv, pc = "respond", NEW f \in Fields \ Meant.changed
               PROVE  \/ Patched(patch, object)[f] = object[f]
                      \/ /\ Type[webhook] = "typed"
                         /\ \/ Class[f] = "unknown" /\ Patched(patch, object)[f] = None
                            \/ {Patched(patch, object)[f], object[f]} \subseteq Empty(f)
    BY DEF OthersUntouched
  <2> QED
    BY TheMeant, ThereAndBack
<1> QED
  BY <1>1, PatchInvariant, PTL

(* A reinvocation that changes nothing has an empty patch                  *)
(* (mutating/webhook.go:136).                                              *)
THEOREM Reinvocations == Spec => []Settles
<1>1. PatchInv => Settles
  <2> SUFFICES ASSUME PatchInv, pc = "respond", Meant.changed = {},
                      Type[webhook] \in {left, "unstructured"}
               PROVE  patch = {}
    BY DEF Settles
  <2> DEFINE type == Type[webhook]
  <2>1. /\ object \in Doc /\ Meant.fields \in Doc /\ type \in {"typed", "unstructured"}
        /\ \A f \in Fields : Meant.fields[f] = Decode(type, object)[f]
        /\ patch = CreatePatch(object, Encode(type, Meant.fields))
    BY TheMeant
  <2>2. Meant.fields = Decode(type, object)
    BY <2>1, CodecTypes DEF Doc
  <2>3. Marshalled(type, object)
    BY DEF PatchInv, Marshalled
  <2> QED
    BY <2>1, <2>2, <2>3, EncodeDecode, NoPatch
<1> QED
  BY <1>1, PatchInvariant, PTL
=============================================================================
