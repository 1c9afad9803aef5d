------------------------------ MODULE Handler ------------------------------
(***************************************************************************)
(* The HTTP handler (pkg/http) and the Review of the mutating and          *)
(* validating webhooks it calls, for one request: ServeHTTP reads the      *)
(* body, decodes the review, has the webhook review it, maps the outcome   *)
(* to JSON and writes it.  The user's mutator or validator, a chain or     *)
(* not, is one step here: MutatorChain and ValidatorChain open it.         *)
(* HandlerConfig.Webhook is an interface, so a webhook that is not one of  *)
(* the library ("custom") returns whatever its Review may return.          *)
(*                                                                         *)
(* The http.ResponseWriter is external: the first WriteHeader or Write     *)
(* fixes the status, a later WriteHeader changes nothing, and a Write may  *)
(* fail at any time once the client has gone.  JSON documents are records; *)
(* marshalling them cannot fail.                                           *)
(***************************************************************************)
EXTENDS Admission

CONSTANTS
  MaxBytes,   \* MaxRequestBodyBytes
  Requests,   \* the HTTP requests considered
  Webhooks,   \* the webhooks considered: kind and object creator
  Docs,       \* the documents a mutator may leave
  Messages,   \* messages of validators and of errors
  Warnings    \* sequences of warnings

(* size is the length of the body in bytes; content what it decodes to:    *)
(* nothing, another type, a review without its request, or a review.       *)
Request == [body : {"nil", "broken", "present"}, size : Nat,
            content : {"garbage", "otherType", "noRequest", "review"}, ar : WireReview]

Webhook == [kind : {"mutating", "validating", "custom"}, creator : {"static", "dynamic"}]

ASSUME HandlerAssumption ==
  /\ MaxBytes \in Nat \ {0}
  /\ Requests \subseteq Request
  /\ Webhooks \subseteq Webhook
  /\ \A r \in Requests : r.content \in {"noRequest", "review"} => r.size > 0

VARIABLES
  request,    \* the HTTP request
  webhook,    \* HandlerConfig.Webhook
  pc,         \* the step ServeHTTP is at
  body,       \* the number of bytes read
  review,     \* the model.AdmissionReview, <<>> before it is decoded
  object,     \* <<raw>>: the object the mutator or validator was given
  outcome,    \* what Review returned
  reply,      \* <<document>>: the JSON about to be written
  status,     \* the status line sent, 0 before
  sent        \* what the client has of the body

vars == <<request, webhook, pc, body, review, object, outcome, reply, status, sent>>

-----------------------------------------------------------------------------
(* What Review returns: an error, a response of one of the two types, a    *)
(* nil pointer of one of them, or something that is neither.               *)
NoOutcome == [type |-> "none"]
Error(m)  == [type |-> "error", msg |-> m]
Validated(id, allowed, m, ws) ==
  [type |-> "validating", id |-> id, allowed |-> allowed, msg |-> m, warnings |-> ws]
Mutated(id, from, to, ws) ==
  [type |-> "mutating", id |-> id, patch |-> [from |-> from, to |-> to], warnings |-> ws]

Patch    == [from : Raws, to : Docs]
Outcomes ==
  {NoOutcome, [type |-> "unknown"], [type |-> "nilPointer"]} \cup [type : {"error"}, msg : Messages] \cup
  [type : {"validating"}, id : UIDs, allowed : BOOLEAN, msg : Messages, warnings : Warnings] \cup
  [type : {"mutating"}, id : UIDs, patch : Patch, warnings : Warnings]

NoPatch  == [from |-> NoRaw, to |-> "none"]
NoStatus == [code |-> 0, msg |-> "none"]

(* errorToJSON.                                                            *)
ErrorToJSON(ar, m) ==
  [version |-> ar.version, uid |-> ar.id, allowed |-> FALSE, patch |-> NoPatch,
   result |-> [code |-> 0, msg |-> m], warnings |-> <<>>]

(* v1beta1 has no warnings.                                                *)
Carried(ar, ws) == IF ar.version = "v1" THEN ws ELSE <<>>

(* A bug: the identifier is the one of the webhook's response.             *)
ValidatingToJSONById(ar, r) ==
  [version |-> ar.version, uid |-> r.id, allowed |-> r.allowed, patch |-> NoPatch,
   result |-> IF r.allowed THEN NoStatus ELSE [code |-> 400, msg |-> r.msg],
   warnings |-> Carried(ar, r.warnings)]

(* validatingModelResponseToJSON.                                          *)
ValidatingToJSON(ar, r) ==
  [version |-> ar.version, uid |-> ar.id, allowed |-> r.allowed, patch |-> NoPatch,
   result |-> IF r.allowed THEN NoStatus ELSE [code |-> 400, msg |-> r.msg],
   warnings |-> Carried(ar, r.warnings)]

(* mutatingModelResponseToJSON.                                            *)
MutatingToJSON(ar, r) ==
  [version |-> ar.version, uid |-> ar.id, allowed |-> TRUE, patch |-> r.patch,
   result |-> NoStatus, warnings |-> Carried(ar, r.warnings)]

-----------------------------------------------------------------------------
(* configReader: an io.LimitedReader of one byte more than is allowed, so  *)
(* that a body with nothing left of the limit is one that is too large.    *)
BytesReadAll(size) == size                               \* a bug: no limit
BytesRead(size) == IF size < MaxBytes + 1 THEN size ELSE MaxBytes + 1
TooLargeAtLimit(size) == BytesRead(size) >= MaxBytes     \* a bug: off by one
TooLarge(size)  == MaxBytes + 1 - BytesRead(size) = 0

Init ==
  /\ request \in Requests
  /\ webhook \in Webhooks
  /\ pc = "read"
  /\ body = 0
  /\ review = <<>>
  /\ object = <<>>
  /\ outcome = NoOutcome
  /\ reply = <<>>
  /\ status = 0
  /\ sent = [type |-> "nothing"]

(* http.Error before anything was written; nobody looks whether its text   *)
(* could be sent.                                                          *)
HttpError(code) ==
  /\ pc' = "done"
  /\ status' = code
  /\ sent' \in {[type |-> "text"], [type |-> "part"]}

Unreadable == \/ request.body = "broken"
              \/ request.body = "present" /\ TooLarge(request.size)
Empty      == request.body = "nil" \/ (request.body = "present" /\ request.size = 0)

RejectBody ==
  /\ pc = "read"
  /\ Unreadable \/ Empty
  /\ HttpError(400)
  /\ UNCHANGED <<request, webhook, body, review, object, outcome, reply>>

ReadBody ==
  /\ pc = "read"
  /\ ~Unreadable /\ ~Empty
  /\ body' = BytesRead(request.size)
  /\ pc' = "decode"
  /\ UNCHANGED <<request, webhook, review, object, outcome, reply, status, sent>>

(* requestBodyToModelReview.                                               *)
RejectReview ==
  /\ pc = "decode"
  /\ request.content \in {"garbage", "otherType"}
  /\ HttpError(400)
  /\ UNCHANGED <<request, webhook, body, review, object, outcome, reply>>

DecodeReview ==
  /\ pc = "decode"
  /\ request.content = "review"
  /\ review' = NewAdmissionReview(request.ar)
  /\ pc' = "review"
  /\ UNCHANGED <<request, webhook, body, object, outcome, reply, status, sent>>

(* Review of the library's webhooks: the object comes first.               *)
CreateObject ==
  /\ pc = "review"
  /\ webhook.kind # "custom"
  /\ IF NewObject(webhook.creator, Raw(review)) = "error"
     THEN /\ \E m \in Messages : outcome' = Error(m)
          /\ pc' = "map"
          /\ UNCHANGED object
     ELSE /\ object' = <<Raw(review)>>
          /\ pc' = "hook"
          /\ UNCHANGED outcome
  /\ UNCHANGED <<request, webhook, body, review, reply, status, sent>>

Reviewed(o) ==
  /\ outcome' = o
  /\ pc' = "map"
  /\ UNCHANGED <<request, webhook, body, review, object, reply, status, sent>>

(* The mutator or validator fails, or returns nil; or the mutated object   *)
(* cannot be marshalled or compared.                                       *)
HookFails ==
  /\ pc = "hook"
  /\ \E m \in Messages : Reviewed(Error(m))

(* to is the object the mutator returned, or the one it was given and may  *)
(* have changed when it returned none.                                     *)
Mutate ==
  /\ pc = "hook"
  /\ webhook.kind = "mutating"
  /\ \E to \in Docs, ws \in Warnings : Reviewed(Mutated(review.id, Raw(review), to, ws))

Validate ==
  /\ pc = "hook"
  /\ webhook.kind = "validating"
  /\ \E al \in BOOLEAN, m \in Messages, ws \in Warnings : Reviewed(Validated(review.id, al, m, ws))

(* A custom webhook, which need not know whose review it answers.          *)
CustomReview ==
  /\ pc = "review"
  /\ webhook.kind = "custom"
  /\ \E o \in Outcomes \ {NoOutcome} : Reviewed(o)

(* A panic, of which net/http makes a dropped connection: of the mutator,  *)
(* the validator or the custom webhook, over a review without a request    *)
(* (review.go:59, 121), or over a nil pointer to a response.               *)
Panics ==
  /\ \/ pc = "hook"
     \/ pc = "review" /\ webhook.kind = "custom"
     \/ pc = "decode" /\ request.content = "noRequest"
     \/ pc = "map" /\ outcome.type = "nilPointer"
  /\ pc' = "done"
  /\ sent' = [type |-> "dropped"]
  /\ UNCHANGED <<request, webhook, body, review, object, outcome, reply, status>>

(* A bug: the error is not reported to the writer before the body.         *)
MapErrorAs200 ==
  /\ pc = "map"
  /\ outcome.type \in {"error", "unknown"}
  /\ reply' = <<ErrorToJSON(review, IF outcome.type = "error" THEN outcome.msg ELSE "unknown type")>>
  /\ pc' = "write"
  /\ UNCHANGED <<request, webhook, body, review, object, outcome, status, sent>>

(* Review failed, or returned what modelResponseToJSON does not know.      *)
MapError ==
  /\ pc = "map"
  /\ outcome.type \in {"error", "unknown"}
  /\ reply' = <<ErrorToJSON(review, IF outcome.type = "error" THEN outcome.msg ELSE "unknown type")>>
  /\ pc' = "header"
  /\ UNCHANGED <<request, webhook, body, review, object, outcome, status, sent>>

(* modelResponseToJSON.                                                    *)
MapResponse ==
  /\ pc = "map"
  /\ \/ /\ outcome.type = "validating"
        /\ reply' = <<ValidatingToJSON(review, outcome)>>
     \/ /\ outcome.type = "mutating"
        /\ reply' = <<MutatingToJSON(review, outcome)>>
  /\ pc' = "write"
  /\ UNCHANGED <<request, webhook, body, review, object, outcome, status, sent>>

WriteHeader ==
  /\ pc = "header"
  /\ status' = 500
  /\ pc' = "write"
  /\ UNCHANGED <<request, webhook, body, review, object, outcome, reply, sent>>

(* The status a Write sends: 200 unless one was sent before.               *)
Implied == IF status = 0 THEN 200 ELSE status

WriteReply ==
  /\ pc = "write"
  /\ status' = Implied
  /\ sent' = [type |-> "json", doc |-> reply[1]]
  /\ pc' = "done"
  /\ UNCHANGED <<request, webhook, body, review, object, outcome, reply>>

(* The client has gone; part of the body may have been sent.               *)
WriteFails ==
  /\ pc = "write"
  /\ status' = Implied
  /\ sent' = [type |-> "part"]
  /\ pc' = "failed"
  /\ UNCHANGED <<request, webhook, body, review, object, outcome, reply>>

(* A bug: a failed write is tried again for as long as it fails.           *)
ReportRetrying ==
  /\ pc = "failed"
  /\ pc' = "write"
  /\ sent' = [type |-> "nothing"]
  /\ UNCHANGED <<request, webhook, body, review, object, outcome, reply, status>>

(* http.Error after the failed Write: its WriteHeader comes too late, and  *)
(* its text follows the part that was sent, if it can be sent at all.      *)
ReportFailure ==
  /\ pc = "failed"
  /\ pc' = "done"
  /\ sent' \in {sent, [type |-> "partAndText"]}
  /\ UNCHANGED <<request, webhook, body, review, object, outcome, reply, status>>

Step == \/ RejectBody \/ ReadBody \/ RejectReview \/ DecodeReview \/ CreateObject
        \/ HookFails \/ Mutate \/ Validate \/ CustomReview \/ Panics
        \/ MapError \/ MapResponse \/ WriteHeader \/ WriteReply \/ WriteFails \/ ReportFailure

Done == pc = "done" /\ UNCHANGED vars

Next == Step \/ Done

Spec == Init /\ [][Next]_vars

(* net/http runs the handler, and the mutator or validator returns.        *)
FairSpec == Spec /\ WF_vars(Step)

-----------------------------------------------------------------------------
(* Properties.                                                             *)

Reply ==
  [version : Versions, uid : UIDs, allowed : BOOLEAN,
   patch : [from : Raws, to : Docs \cup {"none"}],
   result : [code : {0, 400}, msg : Messages \cup {"none", "unknown type"}],
   warnings : Warnings \cup {<<>>}]

(* The types of the state.                                                 *)
TypeOK ==
  /\ request \in Requests
  /\ webhook \in Webhooks
  /\ pc \in {"read", "decode", "review", "hook", "map", "header", "write", "failed", "done"}
  /\ body \in 0..MaxBytes
  /\ review \in AdmissionReview \cup {<<>>}
  /\ object \in Seq(Raws) /\ Len(object) <= 1
  /\ outcome \in Outcomes
  /\ reply \in Seq(Reply) /\ Len(reply) <= 1
  /\ status \in {0, 200, 400, 500}
  /\ sent \in [type : {"nothing", "text", "dropped", "part", "partAndText"}]
              \cup [type : {"json"}, doc : Reply]

(* The table of responses in ServeHTTP (handler.go:140-147), for every     *)
(* webhook and every outcome: an error, and an answer the handler does not *)
(* know, is a 500 that allows nothing; a denial is a 200 with code 400 and *)
(* the validator's message; a mutation is a 200 that allows.               *)
ResponseTable ==
  sent.type = "json" =>
    LET doc == sent.doc
    IN  CASE outcome.type = "validating" ->
               /\ status = 200
               /\ doc.allowed = outcome.allowed
               /\ ~doc.allowed => doc.result = [code |-> 400, msg |-> outcome.msg]
          [] outcome.type = "mutating"   -> status = 200 /\ doc.allowed
          [] OTHER                       ->
               status = 500 /\ ~doc.allowed /\ doc.result.code = 0

(* Whoever is shown an object is shown the one the operation is about, the *)
(* old one for a deletion; a review is only refused for want of an object  *)
(* if that one cannot be decoded; and a patch starts from that same        *)
(* object, so that the API server can apply it (webhook.go:86-104, 136).   *)
UnderReview ==
  IF request.ar.operation = "DELETE" THEN request.ar.oldObject ELSE request.ar.object

RightObject ==
  /\ object # <<>> => object = <<UnderReview>>
  /\ pc = "map" /\ webhook.kind # "custom" /\ object = <<>> =>
       NewObject(webhook.creator, UnderReview) = "error"
  /\ sent.type = "json" /\ webhook.kind = "mutating" /\ sent.doc.allowed =>
       object = <<sent.doc.patch.from>>

(* The body is decoded whole or not at all, and a review is refused for    *)
(* its size only if it is above the limit (handler.go:357-371).            *)
BodyLimitExact ==
  /\ pc \notin {"read", "done"} => body = request.size
  /\ status = 400 /\ request.body = "present" /\ request.content = "review" =>
       request.size > MaxBytes

(* Every request comes to an end: answered, cut short or dropped.          *)
Answered == <>(pc = "done")

-----------------------------------------------------------------------------
(* The decision of the service, once ServeHTTP has made its reply of it.   *)
Decision ==
  CASE reply # <<>> /\ outcome.type \in {"error", "unknown"} -> "error"
    [] reply # <<>> /\ outcome.type = "validating"           ->
         IF outcome.allowed THEN "allow" ELSE "deny"
    [] reply # <<>> /\ outcome.type = "mutating"             -> "allow"
    [] reply = <<>> /\ sent.type \in {"text", "part"}         -> "rejected"
    [] sent.type = "dropped"                                 -> "aborted"
    [] OTHER                                                 -> "pending"

(* What the API server makes of what it receives.                          *)
Received ==
  CASE sent.type \in {"nothing", "dropped"}  -> [verdict |-> "nothing", to |-> {}]
    [] sent.type = "text"                    -> [verdict |-> "text", to |-> {}]
    [] sent.type \in {"part", "partAndText"} -> [verdict |-> "cut", to |-> {}]
    [] sent.type = "json"                    ->
         [verdict |-> IF sent.doc.allowed THEN "allow"
                      ELSE IF sent.doc.result.code = 400 THEN "deny" ELSE "error",
          to |-> {[version |-> sent.doc.version, uid |-> sent.doc.uid]}]

Service == INSTANCE AdmissionService WITH
  address  <- [version |-> request.ar.version, uid |-> request.ar.uid],
  decision <- Decision,
  received <- Received

(* The handler is an admission service: one decision, its status, and that *)
(* decision or none received by the API server for the review it sent.     *)
ServiceSpec == Service!Spec
=============================================================================
