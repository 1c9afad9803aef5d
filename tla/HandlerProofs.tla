---------------------------- MODULE HandlerProofs ----------------------------
(***************************************************************************)
(* Proofs about Handler, for any requests, webhooks, limit of the body,    *)
(* raw objects and what the decoders make of them, messages and warnings.  *)
(***************************************************************************)
EXTENDS Handler, TLAPS

-----------------------------------------------------------------------------
(* The object of the review, by the operation of the API server.           *)
LEMMA RawIsUnderReview ==
  Raw(NewAdmissionReview(request.ar)) = UnderReview
<1>1. OperationToModel(request.ar.operation) = "delete" <=> request.ar.operation = "DELETE"
  BY DEF OperationToModel
<1> QED
  BY <1>1 DEF Raw, NewAdmissionReview, UnderReview

LEMMA ReviewType ==
  ASSUME NEW ar \in WireReview
  PROVE  NewAdmissionReview(ar) \in AdmissionReview
<1>1. OperationToModel(ar.operation) \in ModelOperations
  BY DEF WireReview, OperationToModel, ModelOperations, Operations
<1>2. Requested(ar.requestKind, ar.kind) \in Names
  BY DEF WireReview, Requested
<1>3. Requested(ar.requestResource, ar.resource) \in Names
  BY DEF WireReview, Requested
<1> QED
  BY <1>1, <1>2, <1>3 DEF WireReview, NewAdmissionReview, AdmissionReview

(* The reader passes a body on whole unless it is above the limit.         *)
LEMMA BodyRead ==
  ASSUME NEW size \in Nat
  PROVE  /\ BytesRead(size) \in Nat
         /\ TooLarge(size) <=> size > MaxBytes
         /\ ~TooLarge(size) => BytesRead(size) = size /\ size \in 0..MaxBytes
BY HandlerAssumption DEF BytesRead, TooLarge

-----------------------------------------------------------------------------
(* The reply to the outcome of a review.                                   *)
Failed    == outcome.type \in {"error", "unknown"}
Responded == outcome.type \in {"validating", "mutating"}
ReplyOf   ==
  IF Failed
  THEN ErrorToJSON(review, IF outcome.type = "error" THEN outcome.msg ELSE "unknown type")
  ELSE IF outcome.type = "validating" THEN ValidatingToJSON(review, outcome)
  ELSE MutatingToJSON(review, outcome)

(* Decoded: what is known of the review.                                   *)
ReviewPart ==
  /\ pc \in {"read", "decode"} => review = <<>>
  /\ pc \in {"review", "hook", "map", "header", "write", "failed"} \/ reply # <<>> =>
       review = NewAdmissionReview(request.ar)
  /\ pc \in {"decode", "review", "hook", "map", "header", "write", "failed"} => body = request.size

(* The object, and the outcome made with it.                               *)
ObjectPart ==
  /\ pc \in {"read", "decode", "review"} => object = <<>>
  /\ pc = "hook" => webhook.kind # "custom" /\ object = <<UnderReview>>
  /\ object # <<>> => object = <<UnderReview>>
  /\ pc \in {"read", "decode", "review", "hook"} => outcome = NoOutcome
  /\ pc \in {"header", "write", "failed"} \/ reply # <<>> => Failed \/ Responded
  /\ pc = "map" => Failed \/ Responded \/ outcome.type = "nilPointer"
  /\ pc \in {"map", "header", "write", "failed"} \/ reply # <<>> =>
       /\ webhook.kind # "custom" /\ object = <<>> =>
            outcome.type = "error" /\ NewObject(webhook.creator, UnderReview) = "error"
       /\ webhook.kind = "mutating" =>
            outcome.type = "error" \/ (outcome.type = "mutating" /\ outcome.patch.from = UnderReview)

(* The reply, and the status line that goes before any of it.              *)
ReplyPart ==
  /\ pc \in {"read", "decode", "review", "hook", "map"} => reply = <<>>
  /\ pc \in {"header", "write", "failed"} => reply # <<>>
  /\ reply # <<>> => reply = <<ReplyOf>>
  /\ pc \in {"read", "decode", "review", "hook", "map", "header"} => status = 0
  /\ pc = "header" => Failed
  /\ pc = "write" => status = IF Failed THEN 500 ELSE 0
  /\ pc = "failed" => status = IF Failed THEN 500 ELSE 200

(* What the client has: nothing before the end, and then one of the ways   *)
(* in which a request ends.                                                *)
SentPart ==
  /\ pc \notin {"failed", "done"} => sent = [type |-> "nothing"]
  /\ pc = "failed" => sent = [type |-> "part"]
  /\ pc = "done" =>
       \/ /\ sent \in {[type |-> "text"], [type |-> "part"]}
          /\ status = 400 /\ reply = <<>>
       \/ sent = [type |-> "dropped"] /\ status = 0 /\ reply = <<>>
       \/ /\ reply # <<>>
          /\ status = IF Failed THEN 500 ELSE 200
          /\ \/ sent = [type |-> "json", doc |-> ReplyOf]
             \/ sent = [type |-> "part"]
             \/ sent = [type |-> "partAndText"]
  /\ status = 400 => \/ request.body \in {"nil", "broken"}
                     \/ request.content # "review"
                     \/ request.size > MaxBytes

HandlerInv == TypeOK /\ ReviewPart /\ ObjectPart /\ ReplyPart /\ SentPart

(* What the constants make of a request and a webhook.                     *)
LEMMA Constants ==
  ASSUME TypeOK
  PROVE  /\ request.body \in {"nil", "broken", "present"} /\ request.size \in Nat
         /\ request.content \in {"garbage", "otherType", "noRequest", "review"} /\ request.ar \in WireReview
         /\ request.content \in {"noRequest", "review"} => request.size > 0
         /\ webhook.kind \in {"mutating", "validating", "custom"}
BY HandlerAssumption DEF TypeOK, Request, Webhook

LEMMA InitHandlerInv == Init => HandlerInv
<1> SUFFICES ASSUME Init PROVE HandlerInv
  OBVIOUS
<1>1. TypeOK
  BY HandlerAssumption DEF Init, TypeOK, Outcomes, NoOutcome
<1>2. ReviewPart /\ ObjectPart /\ ReplyPart /\ SentPart
  BY DEF Init, ReviewPart, ObjectPart, ReplyPart, SentPart, NoOutcome
<1> QED
  BY <1>1, <1>2 DEF HandlerInv

(* The replies are of the type of replies.                                 *)
LEMMA ReplyType ==
  ASSUME TypeOK, review \in AdmissionReview, Failed \/ Responded
  PROVE  ReplyOf \in Reply
<1>1. /\ review.version \in Versions /\ review.id \in UIDs
      /\ NoPatch \in [from : Raws, to : Docs \cup {"none"}]
  BY RawAssumption DEF AdmissionReview, NoPatch
<1>2. CASE outcome.type = "error"
  <2>1. outcome.msg \in Messages
    BY <1>2 DEF TypeOK, Outcomes, NoOutcome
  <2> QED
    BY <1>1, <1>2, <2>1 DEF ReplyOf, Failed, ErrorToJSON, Reply
<1>3. CASE outcome.type = "unknown"
  BY <1>1, <1>3 DEF ReplyOf, Failed, ErrorToJSON, Reply
<1>4. CASE outcome.type = "validating"
  <2>1. outcome.allowed \in BOOLEAN /\ outcome.msg \in Messages /\ outcome.warnings \in Warnings
    BY <1>4 DEF TypeOK, Outcomes, NoOutcome
  <2> QED
    BY <1>1, <1>4, <2>1 DEF ReplyOf, Failed, ValidatingToJSON, NoStatus, Carried, Reply
<1>5. CASE outcome.type = "mutating"
  <2>1. outcome.patch \in Patch /\ outcome.warnings \in Warnings
    BY <1>5 DEF TypeOK, Outcomes, NoOutcome
  <2>2. outcome.patch \in [from : Raws, to : Docs \cup {"none"}]
    BY <2>1 DEF Patch
  <2> QED
    BY <1>1, <1>5, <2>1, <2>2 DEF ReplyOf, Failed, MutatingToJSON, NoStatus, Carried, Reply
<1> QED
  BY <1>2, <1>3, <1>4, <1>5 DEF Failed, Responded

-----------------------------------------------------------------------------
(* The steps, from the first to the last.                                  *)
LEMMA RejectBodyStep ==
  ASSUME HandlerInv, RejectBody
  PROVE  HandlerInv'
<1> USE DEF HandlerInv
<1>1. TypeOK'
  BY DEF RejectBody, HttpError, TypeOK
<1>2. request.body \in {"nil", "broken"} \/ request.content # "review" \/ request.size > MaxBytes
  BY Constants, BodyRead DEF RejectBody, Unreadable, Empty
<1>3. ReviewPart' /\ ObjectPart' /\ ReplyPart' /\ SentPart'
  BY <1>2 DEF RejectBody, HttpError, ReviewPart, ObjectPart, ReplyPart, SentPart
<1> QED
  BY <1>1, <1>3

LEMMA ReadBodyStep ==
  ASSUME HandlerInv, ReadBody
  PROVE  HandlerInv'
<1> USE DEF HandlerInv
<1>1. BytesRead(request.size) = request.size /\ request.size \in 0..MaxBytes
  BY Constants, BodyRead DEF ReadBody, Unreadable, Empty
<1>2. TypeOK'
  BY <1>1 DEF ReadBody, TypeOK
<1>3. ReviewPart' /\ ObjectPart' /\ ReplyPart' /\ SentPart'
  BY <1>1 DEF ReadBody, ReviewPart, ObjectPart, ReplyPart, SentPart
<1> QED
  BY <1>2, <1>3

LEMMA DecodeStep ==
  ASSUME HandlerInv, RejectReview \/ DecodeReview
  PROVE  HandlerInv'
<1> USE DEF HandlerInv
<1>1. NewAdmissionReview(request.ar) \in AdmissionReview
  BY Constants, ReviewType
<1>2. TypeOK'
  BY <1>1 DEF RejectReview, HttpError, DecodeReview, TypeOK
<1>3. CASE RejectReview
  BY <1>2, <1>3 DEF RejectReview, HttpError, ReviewPart, ObjectPart, ReplyPart, SentPart
<1>4. CASE DecodeReview
  BY <1>2, <1>4 DEF DecodeReview, ReviewPart, ObjectPart, ReplyPart, SentPart, UnderReview
<1> QED
  BY <1>3, <1>4

LEMMA CreateObjectStep ==
  ASSUME HandlerInv, CreateObject
  PROVE  HandlerInv'
<1> USE DEF HandlerInv
<1>1. review = NewAdmissionReview(request.ar) /\ Raw(review) = UnderReview
  BY RawIsUnderReview DEF CreateObject, ReviewPart
<1>2. UnderReview \in Raws
  BY Constants DEF WireReview, UnderReview
<1>3. CASE NewObject(webhook.creator, UnderReview) = "error"
  <2>1. PICK m \in Messages : outcome' = Error(m)
    BY <1>1, <1>3 DEF CreateObject
  <2>2. /\ pc' = "map" /\ pc = "review" /\ outcome'.type = "error" /\ outcome' \in Outcomes
        /\ UNCHANGED <<request, webhook, body, review, object, reply, status, sent>>
    BY <1>1, <1>3, <2>1 DEF CreateObject, Error, Outcomes
  <2>3. TypeOK'
    BY <2>2 DEF TypeOK
  <2>4. ReviewPart' /\ ObjectPart' /\ ReplyPart' /\ SentPart'
    BY <1>3, <2>2 DEF ReviewPart, ObjectPart, ReplyPart, SentPart, Failed, UnderReview
  <2> QED
    BY <2>3, <2>4
<1>4. CASE NewObject(webhook.creator, UnderReview) # "error"
  <2>1. /\ pc' = "hook" /\ pc = "review" /\ object' = <<UnderReview>> /\ webhook.kind # "custom"
        /\ UNCHANGED <<request, webhook, body, review, outcome, reply, status, sent>>
    BY <1>1, <1>4 DEF CreateObject
  <2>2. TypeOK'
    BY <1>2, <2>1 DEF TypeOK
  <2>3. ReviewPart' /\ ObjectPart' /\ ReplyPart' /\ SentPart'
    BY <2>1 DEF ReviewPart, ObjectPart, ReplyPart, SentPart, UnderReview
  <2> QED
    BY <2>2, <2>3
<1> QED
  BY <1>3, <1>4

(* The webhook answers, with an outcome made of its object, or any other   *)
(* one if it is not the library's.                                         *)
LEMMA ReviewedStep ==
  ASSUME HandlerInv, NEW o \in Outcomes, Reviewed(o),
         pc \in {"review", "hook"}, o.type # "none",
         pc = "review" => webhook.kind = "custom",
         webhook.kind = "mutating" =>
           o.type = "error" \/ (o.type = "mutating" /\ o.patch.from = UnderReview)
  PROVE  HandlerInv'
<1> USE DEF HandlerInv
<1>1. o.type \in {"error", "unknown", "nilPointer", "validating", "mutating"}
  BY DEF Outcomes, NoOutcome
<1>2. /\ outcome' = o /\ pc' = "map"
      /\ UNCHANGED <<request, webhook, body, review, object, reply, status, sent>>
  BY DEF Reviewed
<1>3. TypeOK'
  BY <1>2 DEF TypeOK
<1>4. object = <<>> => webhook.kind = "custom"
  BY DEF ObjectPart
<1>5. ReviewPart' /\ ReplyPart' /\ SentPart'
  BY <1>2 DEF ReviewPart, ReplyPart, SentPart, Failed
<1>6. ObjectPart'
  BY <1>1, <1>2, <1>4 DEF ObjectPart, ReplyPart, Failed, Responded, UnderReview
<1> QED
  BY <1>3, <1>5, <1>6

LEMMA HookStep ==
  ASSUME HandlerInv, HookFails \/ Mutate \/ Validate \/ CustomReview
  PROVE  HandlerInv'
<1>1. CASE HookFails
  <2>1. PICK m \in Messages : Reviewed(Error(m))
    BY <1>1 DEF HookFails
  <2>2. Error(m) \in Outcomes /\ Error(m).type = "error" /\ pc = "hook"
    BY <1>1 DEF HookFails, Error, Outcomes
  <2> QED
    BY <2>1, <2>2, ReviewedStep
<1>2. CASE Mutate
  <2>1. PICK to \in Docs, ws \in Warnings : Reviewed(Mutated(review.id, Raw(review), to, ws))
    BY <1>2 DEF Mutate
  <2>2. /\ review = NewAdmissionReview(request.ar) /\ review \in AdmissionReview
        /\ pc = "hook" /\ Raw(review) = UnderReview
    BY <1>2, Constants, ReviewType, RawIsUnderReview DEF Mutate, HandlerInv, ReviewPart
  <2>3. review.id \in UIDs /\ Raw(review) \in Raws
    BY <2>2 DEF AdmissionReview, Raw
  <2> DEFINE o == Mutated(review.id, Raw(review), to, ws)
  <2>4. o \in Outcomes /\ o.type = "mutating" /\ o.patch.from = UnderReview
    BY <2>2, <2>3 DEF Mutated, Outcomes, Patch
  <2> QED
    BY <2>1, <2>2, <2>4, ReviewedStep
<1>3. CASE Validate
  <2>1. PICK al \in BOOLEAN, m \in Messages, ws \in Warnings :
          Reviewed(Validated(review.id, al, m, ws))
    BY <1>3 DEF Validate
  <2>2. review \in AdmissionReview /\ pc = "hook" /\ webhook.kind = "validating"
    BY <1>3, Constants, ReviewType DEF Validate, HandlerInv, ReviewPart
  <2> DEFINE o == Validated(review.id, al, m, ws)
  <2>3. o \in Outcomes /\ o.type = "validating"
    BY <2>2 DEF Validated, Outcomes, AdmissionReview
  <2> QED
    BY <2>1, <2>2, <2>3, ReviewedStep
<1>4. CASE CustomReview
  <2>1. PICK o \in Outcomes \ {NoOutcome} : Reviewed(o)
    BY <1>4 DEF CustomReview
  <2>2. o.type # "none" /\ pc = "review" /\ webhook.kind = "custom"
    BY <1>4 DEF CustomReview, Outcomes, NoOutcome
  <2> QED
    BY <2>1, <2>2, ReviewedStep
<1> QED
  BY <1>1, <1>2, <1>3, <1>4

LEMMA PanicsStep ==
  ASSUME HandlerInv, Panics
  PROVE  HandlerInv'
<1> USE DEF HandlerInv
<1>1. TypeOK'
  BY DEF Panics, TypeOK
<1>2. ReviewPart' /\ ObjectPart' /\ ReplyPart' /\ SentPart'
  BY DEF Panics, ReviewPart, ObjectPart, ReplyPart, SentPart, UnderReview
<1> QED
  BY <1>1, <1>2

LEMMA MapStep ==
  ASSUME HandlerInv, MapError \/ MapResponse
  PROVE  HandlerInv'
<1> USE DEF HandlerInv
<1>1. /\ pc = "map" /\ reply' = <<ReplyOf>>
      /\ pc' = IF Failed THEN "header" ELSE "write"
      /\ UNCHANGED <<request, webhook, body, review, object, outcome, status, sent>>
  BY DEF MapError, MapResponse, ReplyOf, Failed
<1>2. ReplyOf \in Reply
  BY <1>1, Constants, ReviewType, ReplyType DEF ReviewPart, MapError, MapResponse, Failed, Responded
<1>3. TypeOK'
  BY <1>1, <1>2 DEF TypeOK
<1>4. ReplyOf' = ReplyOf /\ Failed' = Failed /\ Responded' = Responded /\ UnderReview' = UnderReview
  BY <1>1 DEF ReplyOf, Failed, Responded, UnderReview
<1>5. ReviewPart' /\ ReplyPart' /\ SentPart'
  BY <1>1, <1>4 DEF ReviewPart, ReplyPart, SentPart
<1>6. ObjectPart'
  <2>1. (Failed \/ Responded)'
    BY <1>1, <1>4 DEF MapError, MapResponse, Failed, Responded
  <2> QED
    BY <1>1, <1>4, <2>1 DEF ObjectPart
<1> QED
  BY <1>3, <1>5, <1>6

LEMMA WriteStep ==
  ASSUME HandlerInv, WriteHeader \/ WriteReply \/ WriteFails \/ ReportFailure
  PROVE  HandlerInv'
<1> USE DEF HandlerInv
<1>1. /\ pc \in {"header", "write", "failed"} /\ reply # <<>> /\ reply = <<ReplyOf>>
      /\ UNCHANGED <<request, webhook, body, review, object, outcome, reply>>
  BY DEF WriteHeader, WriteReply, WriteFails, ReportFailure, ReplyPart
<1>2. ReplyOf \in Reply
  BY <1>1 DEF TypeOK
<1>3. ReplyOf' = ReplyOf /\ Failed' = Failed /\ Responded' = Responded /\ UnderReview' = UnderReview
  BY <1>1 DEF ReplyOf, Failed, Responded, UnderReview
<1>4. CASE WriteHeader
  BY <1>1, <1>3, <1>4 DEF WriteHeader, TypeOK, ReviewPart, ObjectPart, ReplyPart, SentPart
<1>5. CASE WriteReply
  <2>1. /\ sent' = [type |-> "json", doc |-> ReplyOf] /\ pc = "write" /\ pc' = "done"
        /\ status' = IF Failed THEN 500 ELSE 200
    <3>1. pc = "write" /\ status = (IF Failed THEN 500 ELSE 0) /\ reply[1] = ReplyOf
      BY <1>1, <1>5 DEF WriteReply, ReplyPart
    <3> QED
      BY <1>5, <3>1 DEF WriteReply, Implied
  <2>2. TypeOK'
    BY <1>1, <1>2, <2>1 DEF TypeOK
  <2> QED
    BY <1>1, <1>3, <2>1, <2>2 DEF ReviewPart, ObjectPart, ReplyPart, SentPart
<1>6. CASE WriteFails
  <2>1. /\ sent' = [type |-> "part"] /\ pc = "write" /\ pc' = "failed"
        /\ status' = IF Failed THEN 500 ELSE 200
    <3>1. pc = "write" /\ status = IF Failed THEN 500 ELSE 0
      BY <1>6 DEF WriteFails, ReplyPart
    <3> QED
      BY <1>6, <3>1 DEF WriteFails, Implied
  <2>2. TypeOK'
    BY <1>1, <2>1 DEF TypeOK
  <2> QED
    BY <1>1, <1>3, <2>1, <2>2 DEF ReviewPart, ObjectPart, ReplyPart, SentPart
<1>7. CASE ReportFailure
  <2>1. /\ sent' \in {[type |-> "part"], [type |-> "partAndText"]} /\ pc = "failed" /\ pc' = "done"
        /\ status' = status /\ status = IF Failed THEN 500 ELSE 200
    BY <1>7 DEF ReportFailure, ReplyPart, SentPart
  <2>2. TypeOK'
    BY <1>1, <2>1 DEF TypeOK
  <2> QED
    BY <1>1, <1>3, <2>1, <2>2 DEF ReviewPart, ObjectPart, ReplyPart, SentPart
<1> QED
  BY <1>4, <1>5, <1>6, <1>7

LEMMA NextHandlerInv == HandlerInv /\ [Next]_vars => HandlerInv'
<1> SUFFICES ASSUME HandlerInv, [Next]_vars PROVE HandlerInv'
  OBVIOUS
<1>1. CASE UNCHANGED vars
  <2>1. ReplyOf' = ReplyOf /\ Failed' = Failed /\ Responded' = Responded /\ UnderReview' = UnderReview
    BY <1>1 DEF vars, ReplyOf, Failed, Responded, UnderReview
  <2>2. TypeOK' /\ ReviewPart' /\ ObjectPart'
    BY <1>1, <2>1 DEF vars, HandlerInv, TypeOK, ReviewPart, ObjectPart
  <2>3. ReplyPart' /\ SentPart'
    BY <1>1, <2>1 DEF vars, HandlerInv, ReplyPart, SentPart
  <2> QED
    BY <2>2, <2>3 DEF HandlerInv
<1>2. CASE Step
  BY <1>2, RejectBodyStep, ReadBodyStep, DecodeStep, CreateObjectStep, HookStep, PanicsStep,
     MapStep, WriteStep DEF Step
<1> QED
  BY <1>1, <1>2 DEF Next, Done

LEMMA HandlerInvariant == Spec => []HandlerInv
BY InitHandlerInv, NextHandlerInv, PTL DEF Spec

-----------------------------------------------------------------------------
(* TypeOK, for every request and webhook.                                  *)
THEOREM HandlerTypes == Spec => []TypeOK
BY HandlerInvariant, PTL DEF HandlerInv

(* Every answer that arrives is the one the table of ServeHTTP has for the *)
(* outcome of the review (handler.go:140-147).                             *)
THEOREM ResponsesByTheTable == Spec => []ResponseTable
<1>1. HandlerInv => ResponseTable
  <2> SUFFICES ASSUME HandlerInv, sent.type = "json" PROVE ResponseTable
    BY DEF ResponseTable
  <2>1. /\ reply # <<>> /\ status = (IF Failed THEN 500 ELSE 200) /\ sent.doc = ReplyOf
        /\ Failed \/ Responded
    BY DEF HandlerInv, SentPart, ObjectPart
  <2>2. CASE Failed
    <3> DEFINE m == IF outcome.type = "error" THEN outcome.msg ELSE "unknown type"
    <3>0. sent.doc = ErrorToJSON(review, m) /\ status = 500
      BY <2>1, <2>2 DEF ReplyOf
    <3> HIDE DEF m
    <3>1. status = 500 /\ sent.doc.allowed = FALSE /\ sent.doc.result.code = 0
      BY <3>0 DEF ErrorToJSON
    <3>2. outcome.type # "validating" /\ outcome.type # "mutating"
      BY <2>2 DEF Failed
    <3> QED
      BY <3>1, <3>2, Zenon DEF ResponseTable
  <2>3. CASE outcome.type = "validating"
    <3>1. /\ status = 200 /\ sent.doc.allowed = outcome.allowed
          /\ ~sent.doc.allowed => sent.doc.result = [code |-> 400, msg |-> outcome.msg]
      BY <2>1, <2>3 DEF Failed, ReplyOf, ValidatingToJSON
    <3>2. outcome.type # "mutating"
      BY <2>3
    <3> QED
      BY <2>3, <3>1, <3>2, Zenon DEF ResponseTable
  <2>4. CASE outcome.type = "mutating"
    <3>1. status = 200 /\ sent.doc.allowed
      BY <2>1, <2>4 DEF Failed, ReplyOf, MutatingToJSON
    <3>2. outcome.type # "validating"
      BY <2>4
    <3> QED
      BY <2>4, <3>1, <3>2, Zenon DEF ResponseTable
  <2> QED
    BY <2>1, <2>2, <2>3, <2>4 DEF Responded
<1> QED
  BY <1>1, HandlerInvariant, PTL

(* The object that is reviewed, and the one a patch starts from, is the    *)
(* one the operation is about (webhook.go:86-104, 136).                    *)
THEOREM ReviewsTheRightObject == Spec => []RightObject
<1>1. HandlerInv => RightObject
  <2> SUFFICES ASSUME HandlerInv PROVE RightObject
    OBVIOUS
  <2>1. object # <<>> => object = <<UnderReview>>
    BY DEF HandlerInv, ObjectPart
  <2>2. pc = "map" /\ webhook.kind # "custom" /\ object = <<>> =>
          NewObject(webhook.creator, UnderReview) = "error"
    BY DEF HandlerInv, ObjectPart
  <2>3. ASSUME sent.type = "json", webhook.kind = "mutating", sent.doc.allowed
        PROVE  object = <<sent.doc.patch.from>>
    <3>1. sent.doc = ReplyOf /\ reply # <<>>
      BY <2>3 DEF HandlerInv, SentPart
    <3>2. ASSUME outcome.type = "error" PROVE FALSE
      <4>1. sent.doc = ErrorToJSON(review, outcome.msg)
        BY <3>1, <3>2 DEF ReplyOf, Failed
      <4>2. sent.doc.allowed = FALSE
        BY <4>1 DEF ErrorToJSON
      <4> QED
        BY <2>3, <4>2
    <3>3. outcome.type = "mutating" /\ outcome.patch.from = UnderReview /\ object = <<UnderReview>>
      BY <2>3, <3>1, <3>2 DEF HandlerInv, ObjectPart
    <3> QED
      BY <3>1, <3>3 DEF ReplyOf, Failed, MutatingToJSON
  <2> QED
    BY <2>1, <2>2, <2>3 DEF RightObject
<1> QED
  BY <1>1, HandlerInvariant, PTL

(* The body is decoded whole, and refused for its size only above the      *)
(* limit, whatever the limit is (handler.go:357-371).                      *)
THEOREM BodyLimitIsExact == Spec => []BodyLimitExact
<1>1. HandlerInv => BodyLimitExact
  BY DEF HandlerInv, ReviewPart, SentPart, BodyLimitExact, TypeOK
<1> QED
  BY <1>1, HandlerInvariant, PTL

-----------------------------------------------------------------------------
(* The refinement.  The decision is pending until there is a reply, or the *)
(* request ends without one.                                               *)
DecisionOf ==
  IF Failed THEN "error"
  ELSE IF outcome.type = "validating" THEN (IF outcome.allowed THEN "allow" ELSE "deny")
  ELSE "allow"

DecisionIs ==
  /\ reply # <<>> => Decision = DecisionOf
  /\ reply = <<>> /\ sent.type \in {"text", "part"} => Decision = "rejected"
  /\ reply = <<>> /\ sent.type = "dropped" => Decision = "aborted"
  /\ reply = <<>> /\ sent.type = "nothing" => Decision = "pending"

LEMMA Decisions == HandlerInv => DecisionIs
<1> SUFFICES ASSUME HandlerInv PROVE DecisionIs
  OBVIOUS
<1>1. reply # <<>> => Failed \/ Responded
  BY DEF HandlerInv, ObjectPart
<1>2. reply # <<>> => sent.type # "text" /\ sent.type # "dropped"
  BY DEF HandlerInv, SentPart, ReplyPart, TypeOK
<1>3. CASE reply # <<>> /\ Failed
  <2>1. ~(outcome.type = "validating") /\ ~(outcome.type = "mutating")
    BY <1>3 DEF Failed
  <2>2. Decision = "error"
    BY <1>2, <1>3, <2>1, Zenon DEF Decision, Failed
  <2> QED
    BY <1>3, <2>2 DEF DecisionOf, DecisionIs
<1>4. CASE reply # <<>> /\ outcome.type = "validating"
  <2>1. ~Failed /\ ~(outcome.type = "mutating")
    BY <1>4 DEF Failed
  <2>2. Decision = IF outcome.allowed THEN "allow" ELSE "deny"
    BY <1>2, <1>4, <2>1, Zenon DEF Decision, Failed
  <2> QED
    BY <1>4, <2>1, <2>2 DEF DecisionOf, DecisionIs
<1>5. CASE reply # <<>> /\ outcome.type = "mutating"
  <2>1. ~Failed /\ ~(outcome.type = "validating")
    BY <1>5 DEF Failed
  <2>2. Decision = "allow"
    BY <1>2, <1>5, <2>1, Zenon DEF Decision, Failed
  <2> QED
    BY <1>5, <2>1, <2>2 DEF DecisionOf, DecisionIs
<1>6. CASE reply = <<>>
  <2>1. /\ "dropped" \notin {"text", "part"} /\ "nothing" \notin {"text", "part"}
        /\ "dropped" # "nothing"
    OBVIOUS
  <2>2. /\ sent.type \in {"text", "part"} => Decision = "rejected"
        /\ sent.type = "dropped" => Decision = "aborted"
        /\ sent.type = "nothing" => Decision = "pending"
    BY <1>6, <2>1, Zenon DEF Decision
  <2> QED
    BY <1>6, <2>2 DEF DecisionIs
<1> QED
  BY <1>1, <1>3, <1>4, <1>5, <1>6 DEF Responded, DecisionIs

(* What the API server has received, by the type of what was sent.         *)
ReceivedIs ==
  /\ sent.type \in {"nothing", "dropped"} => Received = [verdict |-> "nothing", to |-> {}]
  /\ sent.type = "text" => Received = [verdict |-> "text", to |-> {}]
  /\ sent.type \in {"part", "partAndText"} => Received = [verdict |-> "cut", to |-> {}]
  /\ sent.type = "json" =>
       Received = [verdict |-> IF sent.doc.allowed THEN "allow"
                               ELSE IF sent.doc.result.code = 400 THEN "deny" ELSE "error",
                   to |-> {[version |-> sent.doc.version, uid |-> sent.doc.uid]}]

LEMMA Receipts == ReceivedIs
<1>1. CASE sent.type \in {"nothing", "dropped"}
  <2>1. sent.type # "text" /\ ~(sent.type \in {"part", "partAndText"}) /\ sent.type # "json"
    BY <1>1
  <2> QED
    BY <1>1, <2>1, Zenon DEF Received, ReceivedIs
<1>2. CASE sent.type = "text"
  <2>1. ~(sent.type \in {"nothing", "dropped"}) /\ ~(sent.type \in {"part", "partAndText"}) /\ sent.type # "json"
    BY <1>2
  <2> QED
    BY <1>2, <2>1, Zenon DEF Received, ReceivedIs
<1>3. CASE sent.type \in {"part", "partAndText"}
  <2>1. ~(sent.type \in {"nothing", "dropped"}) /\ sent.type # "text" /\ sent.type # "json"
    BY <1>3
  <2> QED
    BY <1>3, <2>1, Zenon DEF Received, ReceivedIs
<1>4. CASE sent.type = "json"
  <2>1. ~(sent.type \in {"nothing", "dropped"}) /\ sent.type # "text" /\ ~(sent.type \in {"part", "partAndText"})
    BY <1>4
  <2> QED
    BY <1>4, <2>1, Zenon DEF Received, ReceivedIs
<1> QED
  BY <1>1, <1>2, <1>3, <1>4 DEF ReceivedIs

(* The reply, received whole, is the decision, addressed to its review.    *)
LEMMA ReplySaysDecision ==
  ASSUME HandlerInv, reply # <<>>, NEW doc, doc = ReplyOf
  PROVE  /\ doc.version = request.ar.version /\ doc.uid = request.ar.uid
         /\ (IF doc.allowed THEN "allow" ELSE IF doc.result.code = 400 THEN "deny" ELSE "error")
              = DecisionOf
<1>1. review.version = request.ar.version /\ review.id = request.ar.uid
  BY DEF HandlerInv, ReviewPart, NewAdmissionReview
<1>2. Failed \/ Responded
  BY DEF HandlerInv, ObjectPart
<1>3. CASE Failed
  <2> DEFINE m == IF outcome.type = "error" THEN outcome.msg ELSE "unknown type"
  <2>1. doc = ErrorToJSON(review, m)
    BY <1>3 DEF ReplyOf
  <2> HIDE DEF m
  <2>2. doc.allowed = FALSE /\ doc.result.code = 0 /\ doc.version = review.version /\ doc.uid = review.id
    BY <2>1 DEF ErrorToJSON
  <2> QED
    BY <1>1, <1>3, <2>2 DEF DecisionOf
<1>4. CASE outcome.type = "validating"
  <2>1. doc = ValidatingToJSON(review, outcome)
    BY <1>4 DEF ReplyOf, Failed
  <2>2. /\ doc.allowed = outcome.allowed /\ doc.version = review.version /\ doc.uid = review.id
        /\ ~outcome.allowed => doc.result.code = 400
    BY <2>1 DEF ValidatingToJSON
  <2> QED
    BY <1>1, <1>4, <2>2 DEF DecisionOf, Failed
<1>5. CASE outcome.type = "mutating"
  <2>1. doc = MutatingToJSON(review, outcome)
    BY <1>5 DEF ReplyOf, Failed
  <2>2. doc.allowed /\ doc.version = review.version /\ doc.uid = review.id
    BY <2>1 DEF MutatingToJSON
  <2> QED
    BY <1>1, <1>5, <2>2 DEF DecisionOf, Failed
<1> QED
  BY <1>2, <1>3, <1>4, <1>5 DEF Responded

LEMMA InitService == Init => Service!Init
<1> SUFFICES ASSUME Init PROVE Service!Init
  OBVIOUS
<1>1. Decision = "pending"
  <2>1. HandlerInv
    BY InitHandlerInv
  <2> QED
    BY <2>1, Decisions DEF DecisionIs, Init
<1>2. Received = Service!Nothing
  BY Receipts DEF ReceivedIs, Init, Service!Nothing
<1> QED
  BY <1>1, <1>2 DEF Init, Service!Init

(* What both refer to stays as it is unless a step says otherwise.         *)
LEMMA ServiceStep ==
  ASSUME HandlerInv, HandlerInv', Step, DecisionIs', ReceivedIs'
  PROVE  [Service!Next]_(Service!vars)
<1> DEFINE address == [version |-> request.ar.version, uid |-> request.ar.uid]
<1> USE DEF HandlerInv
<1>1. DecisionIs /\ ReceivedIs
  BY Decisions, Receipts
<1>2. address' = address
  BY DEF Step, RejectBody, ReadBody, RejectReview, DecodeReview, CreateObject, HookFails, Mutate,
    Validate, CustomReview, Reviewed, Panics, MapError, MapResponse, WriteHeader, WriteReply,
    WriteFails, ReportFailure
<1>3. CASE RejectBody \/ RejectReview
  <2>1. Decision = "pending" /\ Decision' = "rejected"
    BY <1>1, <1>3 DEF DecisionIs, RejectBody, RejectReview, HttpError, ReplyPart, SentPart
  <2>2. /\ Received' \in {[verdict |-> "text", to |-> {}], [verdict |-> "cut", to |-> {}]}
        /\ status' = 400
    BY <1>3 DEF ReceivedIs, RejectBody, RejectReview, HttpError
  <2> QED
    BY <1>2, <2>1, <2>2 DEF Service!Next, Service!Reject
<1>4. CASE ReadBody \/ DecodeReview \/ CreateObject \/ HookFails \/ Mutate \/ Validate \/ CustomReview
  <2>1. /\ reply = <<>> /\ sent = [type |-> "nothing"]
        /\ reply' = <<>> /\ sent' = sent /\ status' = status
    BY <1>4 DEF ReadBody, DecodeReview, CreateObject, HookFails, Mutate, Validate, CustomReview,
      Reviewed, ReplyPart, SentPart
  <2>2. Decision' = Decision /\ Received' = Received
    BY <1>1, <2>1 DEF DecisionIs, ReceivedIs
  <2> QED
    BY <1>2, <2>1, <2>2 DEF Service!vars
<1>5. CASE Panics
  <2>1. Decision = "pending" /\ Decision' = "aborted"
    BY <1>1, <1>5 DEF DecisionIs, Panics, ReplyPart, SentPart
  <2>2. sent = [type |-> "nothing"] /\ sent' = [type |-> "dropped"] /\ status' = status
    BY <1>5 DEF Panics, SentPart
  <2>3. Received' = Received
    BY <1>1, <2>2 DEF ReceivedIs
  <2> QED
    BY <1>2, <2>1, <2>2, <2>3 DEF Service!Next, Service!Decide
<1>6. CASE MapError \/ MapResponse
  <2>1. reply = <<>> /\ sent = [type |-> "nothing"]
    <3>1. pc = "map"
      BY <1>6 DEF MapError, MapResponse
    <3> QED
      BY <3>1 DEF ReplyPart, SentPart
  <2>2. reply' # <<>> /\ sent' = sent /\ status' = status
    <3>1. reply' # <<>>
      <4>1. pc' \in {"header", "write"}
        BY <1>6 DEF MapError, MapResponse
      <4> QED
        BY <4>1 DEF ReplyPart
    <3> QED
      BY <1>6, <3>1 DEF MapError, MapResponse
  <2>3. Decision' \in {"allow", "deny", "error"}
    BY <2>2 DEF DecisionIs, DecisionOf
  <2>4. Received' = Received
    BY <1>1, <2>1, <2>2 DEF ReceivedIs
  <2>5. Decision = "pending"
    BY <1>1, <2>1 DEF DecisionIs
  <2> QED
    BY <1>2, <2>2, <2>3, <2>4, <2>5 DEF Service!Next, Service!Decide
<1>7. CASE WriteHeader \/ WriteReply \/ WriteFails \/ ReportFailure
  <2>1. reply # <<>> /\ reply' = reply /\ outcome' = outcome
    BY <1>7 DEF WriteHeader, WriteReply, WriteFails, ReportFailure, ReplyPart
  <2>2. Decision = DecisionOf /\ Decision' = Decision
    BY <1>1, <2>1 DEF DecisionIs, DecisionOf, Failed
  <2>3. /\ Decision \in {"allow", "deny", "error"}
        /\ Service!StatusOf(Decision) = IF Failed THEN 500 ELSE 200
    BY <2>2 DEF DecisionOf, Service!StatusOf
  <2>4. CASE WriteHeader
    <3>1. sent = [type |-> "nothing"] /\ status = 0 /\ Failed
      BY <2>4 DEF WriteHeader, ReplyPart, SentPart
    <3>2. status' = Service!StatusOf(Decision) /\ Received' = Received
      BY <1>1, <2>3, <2>4, <3>1 DEF WriteHeader, ReceivedIs
    <3> QED
      BY <1>2, <2>2, <2>3, <3>1, <3>2 DEF Service!Next, Service!SendStatus
  <2>5. CASE WriteReply \/ WriteFails
    <3>1. /\ status \in {0, Service!StatusOf(Decision)}
          /\ status' = Service!StatusOf(Decision)
      BY <2>3, <2>5 DEF WriteReply, WriteFails, Implied, ReplyPart
    <3>2. Received = Service!Nothing
      BY <1>1, <2>5 DEF WriteReply, WriteFails, SentPart, ReceivedIs, Service!Nothing
    <3>3. \/ Received' = [verdict |-> Decision, to |-> {address}]
          \/ Received' = [verdict |-> "cut", to |-> {}]
      <4>1. CASE WriteFails
        BY <4>1 DEF WriteFails, ReceivedIs
      <4>2. CASE WriteReply
        <5>1. sent'.type = "json" /\ sent'.doc = ReplyOf
          BY <2>1, <4>2 DEF WriteReply, ReplyPart
        <5>2. /\ sent'.doc.version = address.version /\ sent'.doc.uid = address.uid
              /\ (IF sent'.doc.allowed THEN "allow"
                  ELSE IF sent'.doc.result.code = 400 THEN "deny" ELSE "error") = Decision
          BY <2>1, <2>2, <5>1, ReplySaysDecision
        <5> QED
          BY <5>1, <5>2 DEF ReceivedIs
      <4> QED
        BY <2>5, <4>1, <4>2
    <3>4. Service!Send(Decision)
      BY <1>2, <2>2, <3>1, <3>2, <3>3 DEF Service!Send
    <3> QED
      BY <2>3, <3>4 DEF Service!Next
  <2>6. CASE ReportFailure
    <3>1. sent = [type |-> "part"] /\ sent' \in {sent, [type |-> "partAndText"]} /\ status' = status
      BY <2>6 DEF ReportFailure, SentPart
    <3>2. Received = [verdict |-> "cut", to |-> {}] /\ Received' = [verdict |-> "cut", to |-> {}]
      BY <1>1, <3>1 DEF ReceivedIs
    <3> QED
      BY <1>2, <2>2, <3>1, <3>2 DEF Service!vars
  <2> QED
    BY <1>7, <2>4, <2>5, <2>6
<1> QED
  BY <1>3, <1>4, <1>5, <1>6, <1>7 DEF Step

(* Every step of the handler is one of the service, or unnoticed.          *)
LEMMA ServiceNext ==
  HandlerInv /\ HandlerInv' /\ [Next]_vars => [Service!Next]_(Service!vars)
<1> SUFFICES ASSUME HandlerInv, HandlerInv', [Next]_vars PROVE [Service!Next]_(Service!vars)
  OBVIOUS
<1>1. HandlerInv' => DecisionIs'
  BY Decisions, PTL
<1>2. ReceivedIs'
  BY Receipts, PTL
<1>3. CASE Step
  BY <1>1, <1>2, <1>3, ServiceStep
<1>4. CASE UNCHANGED vars
  <2>1. Decision' = Decision
    BY <1>4, Zenon DEF vars, Decision
  <2>2. Received' = Received
    BY <1>4, Zenon DEF vars, Received
  <2> QED
    BY <1>4, <2>1, <2>2 DEF vars, Service!vars
<1> QED
  BY <1>3, <1>4 DEF Next, Done

(* The handler is an admission service: it decides once, the status        *)
(* follows from the decision, and the API server receives that decision,   *)
(* addressed to the review it sent, or none (handler.go:107-168).          *)
THEOREM HandlerIsAService == Spec => ServiceSpec
BY ServiceNext, InitService, HandlerInvariant, PTL DEF Spec, ServiceSpec, Service!Spec

(* A decision is never taken back: neither the failure of a write nor the  *)
(* text that follows it makes another of it (handler.go:160-168, 197-201). *)
DecisionKept == [][Decision # "pending" => Decision' = Decision]_vars

THEOREM DecisionStands == Spec => DecisionKept
<1>1. [Service!Next]_(Service!vars) => (Decision # "pending" => Decision' = Decision)
  BY DEF Service!Next, Service!vars, Service!Reject, Service!Decide, Service!SendStatus, Service!Send
<1>2. HandlerInv /\ HandlerInv' /\ [Next]_vars => [Decision # "pending" => Decision' = Decision]_vars
  BY <1>1, ServiceNext
<1> QED
  BY <1>2, HandlerInvariant, PTL DEF Spec, DecisionKept

(* What the API server takes for an answer is the decision that was taken, *)
(* addressed to the review it sent and under the status of that decision,  *)
(* whatever else a webhook of the user's put in its response               *)
(* (handler.go:148-201, 235-341).                                          *)
AnswerIsDecision ==
  Received.verdict \in {"allow", "deny", "error"} =>
    /\ Received = [verdict |-> Decision,
                   to |-> {[version |-> request.ar.version, uid |-> request.ar.uid]}]
    /\ status = Service!StatusOf(Decision)

THEOREM AnswersAreDecisions == Spec => []AnswerIsDecision
<1>1. HandlerInv => AnswerIsDecision
  <2> SUFFICES ASSUME HandlerInv, Received.verdict \in {"allow", "deny", "error"}
               PROVE  /\ Received = [verdict |-> Decision,
                                     to |-> {[version |-> request.ar.version, uid |-> request.ar.uid]}]
                      /\ status = Service!StatusOf(Decision)
    BY DEF AnswerIsDecision
  <2>1. DecisionIs /\ ReceivedIs
    BY Decisions, Receipts
  <2>2. sent.type = "json"
    BY <2>1 DEF HandlerInv, TypeOK, ReceivedIs
  <2>3. /\ reply # <<>> /\ sent.doc = ReplyOf
        /\ status = IF Failed THEN 500 ELSE 200
    BY <2>2 DEF HandlerInv, SentPart, ReplyPart
  <2>4. Decision = DecisionOf
    BY <2>1, <2>3 DEF DecisionIs
  <2>5. /\ sent.doc.version = request.ar.version /\ sent.doc.uid = request.ar.uid
        /\ (IF sent.doc.allowed THEN "allow"
            ELSE IF sent.doc.result.code = 400 THEN "deny" ELSE "error") = Decision
    BY <2>3, <2>4, ReplySaysDecision
  <2>6. status = Service!StatusOf(Decision)
    BY <2>3, <2>4 DEF DecisionOf, Service!StatusOf
  <2> QED
    BY <2>1, <2>2, <2>5, <2>6 DEF ReceivedIs
<1> QED
  BY <1>1, HandlerInvariant, PTL
=============================================================================
