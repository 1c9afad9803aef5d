------------------------------ MODULE Tracing ------------------------------
(***************************************************************************)
(* The spans of a request (pkg/tracing, pkg/tracing/otel): the one the     *)
(* HTTP wrapper opens around ServeHTTP, the one tracedWebhook              *)
(* (pkg/webhook/tracing.go) opens around Review and ends in a deferred     *)
(* function, and those the user's mutator or validator opens below it with *)
(* TraceFunc or with NewTrace and EndTrace.  A context holds one span, the *)
(* innermost; the tracer finds it there and does nothing to a span that    *)
(* does not record.  Webhooks and handlers are given one tracer, from      *)
(* which each handler derives its own with WithValues while the requests   *)
(* of other handlers run.                                                  *)
(*                                                                         *)
(* The OpenTelemetry SDK is external: a sampler decides for each span      *)
(* whether it records, an ended span does not, and ending it twice does    *)
(* nothing.  A handler that has no tracer is one whose HTTP spans are all  *)
(* dropped.  Of the values of a span their origin is kept.                 *)
(***************************************************************************)
EXTENDS Naturals, Sequences, SequencesExt

CONSTANTS
  Requests,     \* the requests, one goroutine each
  Handlers,     \* the handlers, made by HandlerFor
  Kind,         \* Kind[h]: the kind of the webhook of handler h
  UserValues,   \* the values of the tracer the user configured
  MaxSpans      \* bound on the spans of one request

WebhookKinds == {"mutating", "validating"}
Svc          == {"svc"}

ASSUME TracingAssumption ==
  /\ Kind \in [Handlers -> WebhookKinds]
  /\ MaxSpans \in Nat
  /\ "user" \notin Handlers
  /\ UserValues \cap (Svc \cup WebhookKinds \cup {"request", "returned", "added"}) = {}

VARIABLES
  tracer,     \* tracer[t]: the values of the user's tracer and of the handlers'
  made,       \* the handlers made so far
  handler,    \* handler[r]: the handler request r is sent to
  pc,         \* where the request is
  spans,      \* spans[r]: the spans it opened, in that order
  active,     \* active[r]: the spans of the contexts in use, the innermost last
  outcome     \* outcome[r]: what next.Review returned

vars == <<tracer, made, handler, pc, spans, active, outcome>>

-----------------------------------------------------------------------------
Values == UserValues \cup Svc \cup WebhookKinds \cup {"request", "returned", "added"}
Span   == [kind : {"http", "review", "func", "own"}, values : SUBSET Values,
           state : {"recording", "dropped", "ended"}, status : {"unset", "ok", "error"}]

Outcomes == WebhookKinds \cup {"error", "panic", "nil"}
Top(r)   == Last(active[r])

(* A bug: the nearest span that records takes the place of the context's.  *)
SpanFromContextNearest(r, n) ==
  {m \in 1..n : spans[r][m].state = "recording" /\
                \A k \in m+1..n : spans[r][k].state # "recording"}

(* The span of the context of spans[r][n], if it records.                  *)
SpanFromContext(r, n) == {m \in {n} : spans[r][m].state = "recording"}

(* SetAttributes on some spans.  The kinds are written the other way round *)
(* in tracedWebhook.                                                       *)
WithAttributes(span, values) ==
  IF span.state = "recording" THEN [span EXCEPT !.values = @ \cup values] ELSE span
TracedType(o) == CASE o = "validating" -> {"mutating"}
                   [] o = "mutating"   -> {"validating"}
                   [] OTHER            -> {}

(* RecordError, SetStatus and End.                                         *)
Ended(span, failed) ==
  IF span.state = "recording"
  THEN [span EXCEPT !.state = "ended", !.status = IF failed THEN "error" ELSE "ok"]
  ELSE span

Update(r, S, Op(_)) ==
  spans' = [spans EXCEPT ![r] = [n \in DOMAIN @ |-> IF n \in S THEN Op(@[n]) ELSE @[n]]]

AddTraceValues(r, n, values) ==
  Update(r, SpanFromContext(r, n), LAMBDA span : WithAttributes(span, values))
EndTrace(r, n, failed) ==
  Update(r, SpanFromContext(r, n), LAMBDA span : Ended(span, failed))

(* newOtelSpan: the sampler decides, and the span has the tracer's values. *)
Open(r, kind, t, values) ==
  \E state \in {"recording", "dropped"} :
    LET new == [kind |-> kind, values |-> IF state = "recording" THEN tracer[t] ELSE {},
                state |-> state, status |-> "unset"]
    IN  /\ spans' = [spans EXCEPT ![r] = Append(@, WithAttributes(new, values))]
        /\ active' = [active EXCEPT ![r] = Append(@, Len(spans[r]) + 1)]

Goto(r, label) == pc' = [pc EXCEPT ![r] = label]

Init ==
  /\ tracer = [t \in {"user"} \cup Handlers |-> IF t = "user" THEN UserValues ELSE {}]
  /\ made = {}
  /\ handler \in [Requests -> Handlers]
  /\ pc = [r \in Requests |-> "idle"]
  /\ spans = [r \in Requests |-> <<>>]
  /\ active = [r \in Requests |-> <<>>]
  /\ outcome = [r \in Requests |-> "none"]

(* A bug: the values are added to the map of the tracer that was given.    *)
HandlerForInPlace(h) ==
  /\ h \notin made
  /\ made' = made \cup {h}
  /\ tracer' = [tracer EXCEPT ![h] = tracer["user"] \cup Svc, !["user"] = @ \cup Svc]
  /\ UNCHANGED <<handler, pc, spans, active, outcome>>

(* HandlerFor: the handler's tracer has the values it sets and no other.   *)
HandlerFor(h) ==
  /\ h \notin made
  /\ made' = made \cup {h}
  /\ tracer' = [tracer EXCEPT ![h] = Svc]
  /\ UNCHANGED <<handler, pc, spans, active, outcome>>

(* TraceHTTPHandler: the wrapper opens a span and calls ServeHTTP.         *)
StartHTTP(r) ==
  /\ pc[r] = "idle"
  /\ handler[r] \in made
  /\ Open(r, "http", handler[r], {})
  /\ Goto(r, "serve")
  /\ UNCHANGED <<tracer, made, handler, outcome>>

(* A bug: a request that is refused does not return to the wrapper.        *)
RefuseAtOnce(r) ==
  /\ pc[r] = "serve"
  /\ Goto(r, "done")
  /\ UNCHANGED <<tracer, made, handler, spans, active, outcome>>

(* ServeHTTP returns without a review.                                     *)
Refuse(r) ==
  /\ pc[r] = "serve"
  /\ Goto(r, "served")
  /\ UNCHANGED <<tracer, made, handler, spans, active, outcome>>

(* tracedWebhook.Review opens its span and describes the request.          *)
StartReview(r) ==
  /\ pc[r] = "serve"
  /\ Open(r, "review", "user", {"request"})
  /\ Goto(r, "user")
  /\ UNCHANGED <<tracer, made, handler, outcome>>

(* The user's code opens a span of its own, with the tracer the user has.  *)
OpenSpan(r) ==
  /\ pc[r] = "user"
  /\ Len(spans[r]) < MaxSpans
  /\ \E kind \in {"func", "own"} : Open(r, kind, "user", {})
  /\ UNCHANGED <<tracer, made, handler, pc, outcome>>

(* ... or adds values, or an event, to the span of a context it has.       *)
AddValues(r) ==
  /\ pc[r] = "user"
  /\ \E n \in ToSet(active[r]) \ {1} : AddTraceValues(r, n, {"added"})
  /\ UNCHANGED <<tracer, made, handler, pc, active, outcome>>

(* A bug: TraceFunc ends the trace of the context it was given.            *)
EndFuncOfCaller(r) ==
  /\ pc[r] = "user"
  /\ spans[r][Top(r)].kind = "func"
  /\ \E failed \in BOOLEAN : EndTrace(r, active[r][Len(active[r]) - 1], failed)
  /\ active' = [active EXCEPT ![r] = Front(@)]
  /\ UNCHANGED <<tracer, made, handler, pc, outcome>>

(* The function of a TraceFunc returns: its values, its status, End.       *)
EndFunc(r) ==
  /\ pc[r] = "user"
  /\ spans[r][Top(r)].kind = "func"
  /\ \E failed \in BOOLEAN :
       Update(r, {Top(r)}, LAMBDA span : Ended(WithAttributes(span, {"returned"}), failed))
  /\ active' = [active EXCEPT ![r] = Front(@)]
  /\ UNCHANGED <<tracer, made, handler, pc, outcome>>

(* The user's code ends the trace it opened with NewTrace.                 *)
EndOwn(r) ==
  /\ pc[r] = "user"
  /\ spans[r][Top(r)].kind = "own"
  /\ \E failed \in BOOLEAN : EndTrace(r, Top(r), failed)
  /\ active' = [active EXCEPT ![r] = Front(@)]
  /\ UNCHANGED <<tracer, made, handler, pc, outcome>>

(* next.Review returns, its spans closed, or panics through what is open.  *)
ReviewReturns(r) ==
  /\ pc[r] = "user"
  /\ \E o \in Outcomes :
       /\ o \in WebhookKinds => o = Kind[handler[r]]
       /\ o # "panic" => Len(active[r]) = 2
       /\ outcome' = [outcome EXCEPT ![r] = o]
  /\ active' = [active EXCEPT ![r] = SubSeq(@, 1, 2)]
  /\ Goto(r, "deferred")
  /\ UNCHANGED <<tracer, made, handler, spans>>

(* A bug: the trace is ended before the response is described.             *)
EndReviewFirst(r) ==
  /\ pc[r] = "deferred"
  /\ Update(r, SpanFromContext(r, 2), LAMBDA span :
       WithAttributes(Ended(span, outcome[r] = "error"), TracedType(outcome[r])))
  /\ active' = [active EXCEPT ![r] = <<1>>]
  /\ Goto(r, "served")
  /\ UNCHANGED <<tracer, made, handler, outcome>>

(* A bug: the trace is ended when there is a response only.                *)
EndReviewAnswered(r) ==
  /\ pc[r] = "deferred"
  /\ Update(r, SpanFromContext(r, 2), LAMBDA span :
       IF outcome[r] \in WebhookKinds
       THEN Ended(WithAttributes(span, TracedType(outcome[r])), FALSE) ELSE span)
  /\ active' = [active EXCEPT ![r] = <<1>>]
  /\ Goto(r, "served")
  /\ UNCHANGED <<tracer, made, handler, outcome>>

(* The deferred function of tracedWebhook: AddTraceValues with what is     *)
(* known of the response, and EndTrace with the named error.               *)
EndReview(r) ==
  /\ pc[r] = "deferred"
  /\ Update(r, SpanFromContext(r, 2), LAMBDA span :
       Ended(WithAttributes(span, TracedType(outcome[r])), outcome[r] = "error"))
  /\ active' = [active EXCEPT ![r] = <<1>>]
  /\ Goto(r, "served")
  /\ UNCHANGED <<tracer, made, handler, outcome>>

(* The wrapper's span: only a 500, of an error or a response the handler   *)
(* does not know, has a status.                                            *)
EndedHTTP(span, o) ==
  IF o \in {"error", "nil"} THEN Ended(span, TRUE)
                            ELSE [Ended(span, FALSE) EXCEPT !.status = "unset"]

(* ServeHTTP returns or panics: the wrapper ends its span, deferred.       *)
EndHTTP(r) ==
  /\ pc[r] = "served"
  /\ Update(r, {1}, LAMBDA span : EndedHTTP(span, outcome[r]))
  /\ active' = [active EXCEPT ![r] = <<>>]
  /\ Goto(r, "done")
  /\ UNCHANGED <<tracer, made, handler, outcome>>

UserStep(r) == OpenSpan(r) \/ AddValues(r) \/ EndFunc(r) \/ EndOwn(r) \/ ReviewReturns(r)

Step(r) == StartHTTP(r) \/ Refuse(r) \/ StartReview(r) \/ UserStep(r) \/ EndReview(r) \/ EndHTTP(r)

Done == (\A r \in Requests : pc[r] = "done") /\ UNCHANGED vars

Next == (\E h \in Handlers : HandlerFor(h)) \/ (\E r \in Requests : Step(r)) \/ Done

Spec == Init /\ [][Next]_vars

-----------------------------------------------------------------------------
(* Properties.                                                             *)

(* The types of the state; a request has a context with a span from the     *)
(* wrapper to the wrapper, whichever way it takes.                         *)
TypeOK ==
  /\ tracer \in [{"user"} \cup Handlers -> SUBSET Values]
  /\ made \subseteq Handlers
  /\ handler \in [Requests -> Handlers]
  /\ pc \in [Requests -> {"idle", "serve", "user", "deferred", "served", "done"}]
  /\ spans \in [Requests -> Seq(Span)]
  /\ active \in [Requests -> Seq(Nat)]
  /\ \A r \in Requests : /\ ToSet(active[r]) \subseteq DOMAIN spans[r]
                         /\ active[r] = <<>> <=> pc[r] \in {"idle", "done"}
  /\ outcome \in [Requests -> Outcomes \cup {"none"}]

(* A span has the values of the tracer it was made with, and not those of  *)
(* another tracer derived from the same one, whenever that was             *)
(* (otel.go:39-46, handler.go:68).                                         *)
TracersApart ==
  \A r \in Requests : \A n \in DOMAIN spans[r] :
    LET span == spans[r][n]
    IN  span.state # "dropped" =>
          span.values \cap (UserValues \cup Svc) = IF span.kind = "http" THEN Svc ELSE UserValues

(* A value, or an event, is never put on another span than the one of its  *)
(* context: if that one is dropped the value is lost, and the spans around *)
(* it say nothing of what they are not about (otel.go:57-67, 90-99).       *)
ValuesInPlace ==
  \A r \in Requests : \A n \in DOMAIN spans[r] :
    LET span == spans[r][n]
    IN  /\ span.kind = "http" => span.values \subseteq Svc
        /\ span.values \cap ({"request"} \cup WebhookKinds) # {} => span.kind = "review"
        /\ "returned" \in span.values => span.kind = "func"

(* A span is not ended while the call it stands for runs, even if the span *)
(* of a call below it was dropped (otel.go:74-88, 134-151).                *)
OpenWhileActive ==
  \A r \in Requests : \A n \in ToSet(active[r]) : spans[r][n].state # "ended"

(* The span of a review that has ended says what the request was, what the *)
(* response was if there is one of a known type, and whether it failed:    *)
(* nothing was said too late (tracing.go:32-69).                           *)
ReviewDescribed ==
  \A r \in Requests : \A n \in DOMAIN spans[r] :
    LET span == spans[r][n]
    IN  span.kind = "review" /\ span.state = "ended" =>
          /\ "request" \in span.values
          /\ (span.values \cap WebhookKinds # {}) <=> (outcome[r] \in WebhookKinds)
          /\ (span.status = "error") <=> (outcome[r] = "error")

(* When a request is over the spans that recorded are ended, whether it    *)
(* was refused, failed or panicked; only a panic leaves spans of the user's *)
(* code open (tracing.go:46-70, otel.go:74-88).                            *)
SpansClosed ==
  \A r \in Requests : \A n \in DOMAIN spans[r] :
    pc[r] = "done" /\ spans[r][n].state = "recording" =>
      outcome[r] = "panic" /\ spans[r][n].kind \in {"func", "own"}

(* model/webhook.go:7-10: WebhookKindMutating "is the kind of the webhooks *)
(* that mutate"; the webhook_type of a span is that kind.                  *)
WebhookTypeTraced ==
  \A r \in Requests : \A n \in DOMAIN spans[r] :
    spans[r][n].values \cap WebhookKinds \subseteq {Kind[handler[r]]}
=============================================================================
