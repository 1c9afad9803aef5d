----------------------------- MODULE Admission -----------------------------
(***************************************************************************)
(* The data of an admission review: what the API server sends (pkg/model), *)
(* how it becomes the version independent model.AdmissionReview, which of  *)
(* its two raw objects a webhook reviews and how the webhook makes an      *)
(* object of it (pkg/webhook/internal/helpers).  A raw object is known by  *)
(* its name and by what each decoder makes of it.                          *)
(***************************************************************************)
EXTENDS Naturals, Sequences

CONSTANTS
  UIDs,       \* the identifiers the API server gives to reviews
  Raws,       \* raw objects, the empty one included
  NoRaw,      \* the empty raw object
  Decodes,    \* Decodes[raw]: what the decoders make of it
  Names       \* names of kinds and of resources
NoName == "none"

Versions   == {"v1", "v1beta1"}
Operations == {"CREATE", "UPDATE", "DELETE", "CONNECT"}

(* static: into the type of WebhookConfig.Obj; universal: into a type of   *)
(* the client-go scheme, which may be no metav1.Object; unstructured: into *)
(* an Unstructured or, for a list, an UnstructuredList.                    *)
Decoding == [static       : {"object", "error"},
             universal    : {"object", "notMetaObject", "error"},
             unstructured : {"object", "notMetaObject", "error"}]

ASSUME RawAssumption ==
  /\ NoRaw \in Raws
  /\ Decodes \in [Raws -> Decoding]
  /\ Decodes[NoRaw] = [static |-> "error", universal |-> "error", unstructured |-> "error"]

ASSUME NameAssumption == NoName \notin Names

(* The AdmissionReview of the wire.  An operation outside Operations is    *)
(* one a later version of the API adds; requestKind and requestResource    *)
(* are optional and name what the client asked for, before conversion.     *)
WireReview ==
  [version : Versions, uid : UIDs, operation : Operations \cup {"other"},
   object : Raws, oldObject : Raws, dryRun : {"unset", "true", "false"},
   kind : Names, requestKind : Names \cup {NoName},
   resource : Names, requestResource : Names \cup {NoName}]

ModelOperations == {"create", "update", "delete", "connect", "unknown"}

(* v1OperationToModel, v1Beta1OperationToModel.                            *)
OperationToModel(op) ==
  CASE op = "CREATE"  -> "create"
    [] op = "UPDATE"  -> "update"
    [] op = "DELETE"  -> "delete"
    [] op = "CONNECT" -> "connect"
    [] OTHER          -> "unknown"

(* v1KindToModel, v1ResourceToModel and their v1beta1 twins.               *)
Requested(request, own) == IF request # NoName THEN request ELSE own

AdmissionReview ==
  [version : Versions, id : UIDs, operation : ModelOperations,
   newObjectRaw : Raws, oldObjectRaw : Raws, dryRun : BOOLEAN, gvk : Names, gvr : Names]

(* NewAdmissionReviewV1 and NewAdmissionReviewV1Beta1.                     *)
NewAdmissionReview(ar) ==
  [version      |-> ar.version,
   id           |-> ar.uid,
   operation    |-> OperationToModel(ar.operation),
   newObjectRaw |-> ar.object,
   oldObjectRaw |-> ar.oldObject,
   dryRun       |-> ar.dryRun = "true",
   gvk          |-> Requested(ar.requestKind, ar.kind),
   gvr          |-> Requested(ar.requestResource, ar.resource)]

(* A bug: the new object is reviewed whatever the operation is.            *)
RawNew(review) == review.newObjectRaw

(* The object under review: a deletion has only the old one.               *)
Raw(review) ==
  IF review.operation = "delete" THEN review.oldObjectRaw ELSE review.newObjectRaw

(* staticObjectCreator.NewObject and dynamicObjectCreator.NewObject.       *)
NewObject(creator, raw) ==
  CASE creator = "static"  /\ Decodes[raw].static = "object"       -> "typed"
    [] creator = "dynamic" /\ Decodes[raw].universal = "object"    -> "typed"
    [] creator = "dynamic" /\ Decodes[raw].universal # "object"
                           /\ Decodes[raw].unstructured = "object" -> "unstructured"
    [] OTHER                                                       -> "error"
=============================================================================
