---------------------------- MODULE TracingProofs ----------------------------
(***************************************************************************)
(* Proofs about Tracing, for any requests, handlers of either kind, any    *)
(* values of the user's tracer and any number of spans.                    *)
(***************************************************************************)
EXTENDS Tracing, SequenceTheorems, TLAPS

-----------------------------------------------------------------------------
(* The first span of a request is the wrapper's, the second the review's   *)
(* and the others those of the user's code.                                *)
KindsAt(n) == IF n = 1 THEN {"http"} ELSE IF n = 2 THEN {"review"} ELSE {"func", "own"}

(* What is known of the n-th span of a request on its own.                 *)
GoodSpan(n, span) ==
  /\ span \in Span
  /\ span.kind \in KindsAt(n)
  /\ span.state # "dropped" =>
       /\ span.values \cap (UserValues \cup Svc) = IF n = 1 THEN Svc ELSE UserValues
       /\ n = 2 => "request" \in span.values
  /\ n = 1 => span.values \subseteq Svc
  /\ span.values \cap ({"request"} \cup WebhookKinds) # {} => n = 2
  /\ "returned" \in span.values => span.kind = "func"

(* The contexts of a request, by where it is: each is inside those before. *)
Nesting(r) ==
  /\ pc[r] = "idle" => spans[r] = <<>>
  /\ pc[r] = "serve" => Len(spans[r]) = 1
  /\ pc[r] \in {"user", "deferred"} => /\ Len(spans[r]) >= 2 /\ Len(active[r]) >= 2
                                       /\ active[r][1] = 1 /\ active[r][2] = 2
  /\ pc[r] = "deferred" => Len(active[r]) = 2
  /\ pc[r] \in {"serve", "served"} => active[r] = <<1>>
  /\ pc[r] \in {"idle", "done"} => active[r] = <<>>
  /\ \A i \in 1..Len(active[r]) : active[r][i] \in 1..Len(spans[r])
  /\ \A i, j \in 1..Len(active[r]) : i < j => active[r][i] < active[r][j]
  /\ pc[r] \in {"idle", "serve", "user"} => outcome[r] = "none"

(* The spans that record are those of the contexts in use, and those of    *)
(* the user's code a panic went through; none of the contexts' has ended.  *)
Recording(r) ==
  /\ \A n \in 1..Len(spans[r]) : spans[r][n].state = "recording" =>
       \/ \E i \in 1..Len(active[r]) : active[r][i] = n
       \/ outcome[r] = "panic" /\ n > 2
  /\ \A i \in 1..Len(active[r]) : spans[r][active[r][i]].state # "ended"

(* The review's span says nothing of the response before it has ended.     *)
Described(span, o) ==
  /\ (span.values \cap WebhookKinds # {}) <=> (o \in WebhookKinds)
  /\ (span.status = "error") <=> (o = "error")

Review(r) ==
  Len(spans[r]) >= 2 =>
    /\ spans[r][2].state = "recording" => spans[r][2].values \cap WebhookKinds = {}
    /\ spans[r][2].state = "ended" => Described(spans[r][2], outcome[r])

Request(r) ==
  /\ \A n \in 1..Len(spans[r]) : GoodSpan(n, spans[r][n])
  /\ Nesting(r)
  /\ Recording(r)
  /\ Review(r)

Types ==
  /\ tracer \in [{"user"} \cup Handlers -> SUBSET Values]
  /\ made \subseteq Handlers
  /\ handler \in [Requests -> Handlers]
  /\ pc \in [Requests -> {"idle", "serve", "user", "deferred", "served", "done"}]
  /\ spans \in [Requests -> Seq(Span)]
  /\ active \in [Requests -> Seq(Nat)]
  /\ outcome \in [Requests -> Outcomes \cup {"none"}]

(* Each tracer has the values it was made with.                            *)
Tracers == tracer["user"] = UserValues /\ \A h \in made : tracer[h] = Svc

TracingInv == Types /\ Tracers /\ \A r \in Requests : Request(r)

-----------------------------------------------------------------------------
(* What is done to one span.                                               *)
Marks == {"request", "returned", "added"} \cup WebhookKinds

LEMMA MarksApart ==
  /\ Marks \subseteq Values
  /\ UserValues \subseteq Values /\ Svc \subseteq Values
  /\ Marks \cap (UserValues \cup Svc) = {}
  /\ {"returned", "added"} \cap ({"request"} \cup WebhookKinds) = {}
BY TracingAssumption DEF Marks, Values, WebhookKinds, Svc

LEMMA TypesTraced ==
  ASSUME NEW o
  PROVE  /\ TracedType(o) \subseteq WebhookKinds
         /\ TracedType(o) # {} <=> o \in WebhookKinds
<1>1. CASE o = "validating"
  <2>1. TracedType(o) = {"mutating"}
    BY <1>1, Zenon DEF TracedType
  <2> QED
    BY <1>1, <2>1 DEF WebhookKinds
<1>2. CASE o = "mutating"
  <2>1. o # "validating"
    BY <1>2
  <2>2. TracedType(o) = {"validating"}
    BY <1>2, <2>1, Zenon DEF TracedType
  <2> QED
    BY <1>2, <2>2 DEF WebhookKinds
<1>3. CASE o # "validating" /\ o # "mutating"
  <2>1. TracedType(o) = {}
    BY <1>3, Zenon DEF TracedType
  <2> QED
    BY <1>3, <2>1 DEF WebhookKinds
<1> QED
  BY <1>1, <1>2, <1>3

LEMMA AttributesGood ==
  ASSUME NEW n \in Nat, NEW span, GoodSpan(n, span), NEW values \in SUBSET Marks,
         n = 1 => values = {},
         values \cap ({"request"} \cup WebhookKinds) # {} => n = 2,
         "returned" \in values => span.kind = "func"
  PROVE  /\ GoodSpan(n, WithAttributes(span, values))
         /\ WithAttributes(span, values).state = span.state
         /\ WithAttributes(span, values).status = span.status
         /\ span.state = "recording" => WithAttributes(span, values).values = span.values \cup values
<1> DEFINE more == span.values \cup values
           new == [kind |-> span.kind, values |-> more, state |-> span.state, status |-> span.status]
<1>1. CASE span.state = "recording"
  <2>1. span = [kind |-> span.kind, values |-> span.values, state |-> span.state, status |-> span.status]
    BY DEF GoodSpan, Span
  <2>2. WithAttributes(span, values) = [span EXCEPT !.values = more]
    BY <1>1 DEF WithAttributes
  <2>3. more \subseteq Values
    BY MarksApart DEF GoodSpan, Span
  <2> HIDE DEF more
  <2>4. WithAttributes(span, values) = new
    BY <2>1, <2>2
  <2> USE DEF more
  <2>5. new \in Span
    BY <2>3 DEF GoodSpan, Span
  <2>6. more \cap (UserValues \cup Svc) = span.values \cap (UserValues \cup Svc)
    BY MarksApart
  <2> HIDE DEF more
  <2>7. /\ n = 2 => ("request" \in span.values => "request" \in more)
        /\ n = 1 => more = span.values
        /\ more \cap ({"request"} \cup WebhookKinds) # {} =>
             span.values \cap ({"request"} \cup WebhookKinds) # {} \/ n = 2
        /\ "returned" \in more => "returned" \in span.values \/ span.kind = "func"
    BY DEF more
  <2>8. GoodSpan(n, new)
    BY <2>5, <2>6, <2>7 DEF GoodSpan
  <2> QED
    BY <2>4, <2>8 DEF more
<1>2. CASE span.state # "recording"
  BY <1>2 DEF WithAttributes
<1> QED
  BY <1>1, <1>2

LEMMA EndedGood ==
  ASSUME NEW n \in Nat, NEW span, GoodSpan(n, span), NEW failed \in BOOLEAN
  PROVE  /\ GoodSpan(n, Ended(span, failed))
         /\ Ended(span, failed).state # "recording"
         /\ Ended(span, failed).values = span.values
         /\ span.state = "recording" =>
              Ended(span, failed).status = IF failed THEN "error" ELSE "ok"
         /\ span.state # "recording" => Ended(span, failed) = span
<1> DEFINE new == [kind |-> span.kind, values |-> span.values, state |-> "ended",
                   status |-> IF failed THEN "error" ELSE "ok"]
<1>1. CASE span.state = "recording"
  <2>1. span = [kind |-> span.kind, values |-> span.values, state |-> span.state, status |-> span.status]
    BY DEF GoodSpan, Span
  <2>2. Ended(span, failed) = new
    BY <1>1, <2>1 DEF Ended
  <2>3. GoodSpan(n, new)
    BY <1>1 DEF GoodSpan, Span
  <2> QED
    BY <1>1, <2>2, <2>3
<1>2. CASE span.state # "recording"
  BY <1>2 DEF Ended
<1> QED
  BY <1>1, <1>2

(* A span the sampler was asked about, with the values it is opened with.  *)
Fresh(kind, base, values, state) ==
  WithAttributes([kind |-> kind, values |-> IF state = "recording" THEN base ELSE {},
                  state |-> state, status |-> "unset"], values)

LEMMA OpenedGood ==
  ASSUME NEW n \in Nat \ {0}, NEW kind \in KindsAt(n), NEW base, NEW values,
         base = IF n = 1 THEN Svc ELSE UserValues,
         values = IF n = 2 THEN {"request"} ELSE {},
         NEW state \in {"recording", "dropped"}
  PROVE  LET new == Fresh(kind, base, values, state)
         IN  GoodSpan(n, new) /\ new.state # "ended" /\ new.values \cap WebhookKinds = {}
<1> DEFINE new == Fresh(kind, base, values, state)
<1>1. /\ kind \in {"http", "review", "func", "own"}
      /\ kind = "http" <=> n = 1
  BY DEF KindsAt
<1>2. CASE state = "dropped"
  <2>1. new = [kind |-> kind, values |-> {}, state |-> "dropped", status |-> "unset"]
    BY <1>2 DEF WithAttributes, Fresh
  <2> QED
    BY <1>1, <2>1 DEF GoodSpan, Span
<1>3. CASE state = "recording"
  <2> DEFINE all == base \cup values
  <2>1. new = [kind |-> kind, values |-> all, state |-> "recording", status |-> "unset"]
    BY <1>3 DEF WithAttributes, Fresh
  <2>2. all \subseteq Values /\ all \cap (UserValues \cup Svc) = base
    BY MarksApart, TracingAssumption DEF Marks, Svc
  <2>3. /\ n = 2 => "request" \in all
        /\ n # 2 => all \cap ({"request"} \cup WebhookKinds) = {}
        /\ "returned" \notin all
        /\ all \cap WebhookKinds = {}
    BY MarksApart DEF Marks, WebhookKinds
  <2>4. n = 1 => all = Svc
    OBVIOUS
  <2> HIDE DEF all
  <2>5. new \in Span /\ new.kind = kind /\ new.values = all /\ new.state = "recording"
    BY <1>1, <2>1, <2>2 DEF Span
  <2> QED
    BY <2>2, <2>3, <2>4, <2>5 DEF GoodSpan
<1> QED
  BY <1>2, <1>3

LEMMA Opened ==
  ASSUME TracingInv, NEW r \in Requests, NEW kind, NEW t, NEW values, Open(r, kind, t, values),
         kind \in KindsAt(Len(spans[r]) + 1),
         tracer[t] = IF Len(spans[r]) + 1 = 1 THEN Svc ELSE UserValues,
         values = IF Len(spans[r]) + 1 = 2 THEN {"request"} ELSE {}
  PROVE  \E new : /\ GoodSpan(Len(spans[r]) + 1, new)
                  /\ new.state # "ended" /\ new.values \cap WebhookKinds = {}
                  /\ spans' = [spans EXCEPT ![r] = Append(@, new)]
                  /\ active' = [active EXCEPT ![r] = Append(@, Len(spans[r]) + 1)]
<1> DEFINE n == Len(spans[r]) + 1
<1>1. PICK state \in {"recording", "dropped"} :
        LET new == [kind |-> kind, values |-> IF state = "recording" THEN tracer[t] ELSE {},
                    state |-> state, status |-> "unset"]
        IN  /\ spans' = [spans EXCEPT ![r] = Append(@, WithAttributes(new, values))]
            /\ active' = [active EXCEPT ![r] = Append(@, Len(spans[r]) + 1)]
  BY DEF Open
<1> DEFINE new == Fresh(kind, tracer[t], values, state)
<1>2. n \in Nat \ {0}
  BY DEF TracingInv, Types
<1>3. GoodSpan(n, new) /\ new.state # "ended" /\ new.values \cap WebhookKinds = {}
  BY <1>2, OpenedGood
<1>4. /\ spans' = [spans EXCEPT ![r] = Append(@, new)]
      /\ active' = [active EXCEPT ![r] = Append(@, n)]
  BY <1>1 DEF Fresh
<1> HIDE DEF new
<1> QED
  BY <1>3, <1>4

-----------------------------------------------------------------------------
(* A step of one request leaves the others where they are.                 *)
LEMMA OtherRequest ==
  ASSUME NEW q \in Requests, Request(q),
         pc'[q] = pc[q], spans'[q] = spans[q], active'[q] = active[q], outcome'[q] = outcome[q]
  PROVE  Request(q)'
<1>1. Nesting(q)'
  BY DEF Request, Nesting
<1>2. Recording(q)'
  BY DEF Request, Recording
<1>3. Review(q)'
  BY DEF Request, Review
<1> QED
  BY <1>1, <1>2, <1>3 DEF Request

LEMMA OneRequest ==
  ASSUME TracingInv, Types', Tracers', NEW r \in Requests, Request(r)',
         \A q \in Requests : q # r =>
           pc'[q] = pc[q] /\ spans'[q] = spans[q] /\ active'[q] = active[q] /\ outcome'[q] = outcome[q]
  PROVE  TracingInv'
<1>1. ASSUME NEW q \in Requests PROVE Request(q)'
  <2>1. CASE q = r
    BY <2>1
  <2>2. CASE q # r
    BY <2>2, OtherRequest DEF TracingInv
  <2> QED
    BY <2>1, <2>2
<1> QED
  BY <1>1 DEF TracingInv

(* A request that opens a span is in its context.                          *)
LEMMA Pushed ==
  ASSUME TracingInv, NEW r \in Requests, NEW new \in Span,
         spans' = [spans EXCEPT ![r] = Append(@, new)],
         active' = [active EXCEPT ![r] = Append(@, Len(spans[r]) + 1)]
  PROVE  /\ spans' \in [Requests -> Seq(Span)] /\ active' \in [Requests -> Seq(Nat)]
         /\ Len(spans'[r]) = Len(spans[r]) + 1 /\ spans'[r][Len(spans[r]) + 1] = new
         /\ \A i \in 1..Len(spans[r]) : spans'[r][i] = spans[r][i]
         /\ Len(active'[r]) = Len(active[r]) + 1 /\ active'[r][Len(active[r]) + 1] = Len(spans[r]) + 1
         /\ \A i \in 1..Len(active[r]) : active'[r][i] = active[r][i]
         /\ \A q \in Requests : q # r => spans'[q] = spans[q] /\ active'[q] = active[q]
<1>1. /\ spans \in [Requests -> Seq(Span)] /\ active \in [Requests -> Seq(Nat)]
      /\ spans[r] \in Seq(Span) /\ active[r] \in Seq(Nat)
  BY DEF TracingInv, Types
<1>2. spans'[r] = Append(spans[r], new) /\ active'[r] = Append(active[r], Len(spans[r]) + 1)
  BY <1>1
<1> QED
  BY <1>1, <1>2

(* The contexts in use are of spans there are.                             *)
LEMMA Sequences ==
  ASSUME TracingInv, NEW r \in Requests
  PROVE  /\ spans[r] \in Seq(Span) /\ Len(spans[r]) \in Nat /\ DOMAIN spans[r] = 1..Len(spans[r])
         /\ active[r] \in Seq(Nat) /\ Len(active[r]) \in Nat /\ DOMAIN active[r] = 1..Len(active[r])
         /\ Request(r)
BY DEF TracingInv, Types

LEMMA InitTracingInv == Init => TracingInv
<1> SUFFICES ASSUME Init PROVE TracingInv
  OBVIOUS
<1>1. Types /\ Tracers
  BY DEF Init, Types, Tracers, Values
<1>2. ASSUME NEW r \in Requests PROVE Request(r)
  BY DEF Init, Request, Nesting, Recording, Review
<1> QED
  BY <1>1, <1>2 DEF TracingInv

LEMMA HandlerForStep ==
  ASSUME TracingInv, NEW h \in Handlers, HandlerFor(h)
  PROVE  TracingInv'
<1>1. Types'
  BY DEF TracingInv, Types, HandlerFor, Values
<1>2. Tracers'
  BY TracingAssumption DEF TracingInv, Types, Tracers, HandlerFor
<1>3. ASSUME NEW r \in Requests PROVE Request(r)'
  BY OtherRequest DEF TracingInv, HandlerFor
<1> QED
  BY <1>1, <1>2, <1>3 DEF TracingInv

LEMMA StartHTTPStep ==
  ASSUME TracingInv, NEW r \in Requests, StartHTTP(r)
  PROVE  TracingInv'
<1>1. /\ pc[r] = "idle" /\ spans[r] = <<>> /\ active[r] = <<>> /\ outcome[r] = "none"
      /\ pc' = [pc EXCEPT ![r] = "serve"] /\ UNCHANGED <<tracer, made, handler, outcome>>
  BY DEF TracingInv, Request, Nesting, StartHTTP, Goto
<1>2. /\ Open(r, "http", handler[r], {}) /\ tracer[handler[r]] = Svc
      /\ Len(spans[r]) + 1 = 1 /\ Len(active[r]) = 0 /\ "http" \in KindsAt(1)
  BY <1>1 DEF TracingInv, Tracers, StartHTTP, KindsAt
<1>3. PICK new : /\ GoodSpan(Len(spans[r]) + 1, new)
                 /\ new.state # "ended" /\ new.values \cap WebhookKinds = {}
                 /\ spans' = [spans EXCEPT ![r] = Append(@, new)]
                 /\ active' = [active EXCEPT ![r] = Append(@, Len(spans[r]) + 1)]
  BY <1>2, Opened
<1>4. /\ spans' \in [Requests -> Seq(Span)] /\ active' \in [Requests -> Seq(Nat)]
      /\ Len(spans'[r]) = 1 /\ spans'[r][1] = new /\ Len(active'[r]) = 1 /\ active'[r][1] = 1
      /\ \A q \in Requests : q # r => spans'[q] = spans[q] /\ active'[q] = active[q]
  <2>1. new \in Span
    BY <1>3 DEF GoodSpan
  <2>2. /\ spans' \in [Requests -> Seq(Span)] /\ active' \in [Requests -> Seq(Nat)]
        /\ Len(spans'[r]) = Len(spans[r]) + 1 /\ spans'[r][Len(spans[r]) + 1] = new
        /\ Len(active'[r]) = Len(active[r]) + 1 /\ active'[r][Len(active[r]) + 1] = Len(spans[r]) + 1
        /\ \A q \in Requests : q # r => spans'[q] = spans[q] /\ active'[q] = active[q]
    BY <1>3, <2>1, Pushed
  <2> QED
    BY <1>2, <2>2
<1>5. active'[r] = <<1>>
  BY <1>4
<1>6. Types' /\ Tracers'
  BY <1>1, <1>4 DEF TracingInv, Types, Tracers
<1>7. pc'[r] = "serve" /\ \A q \in Requests : q # r => pc'[q] = pc[q]
  BY <1>1 DEF TracingInv, Types
<1>8. Request(r)'
  BY <1>1, <1>2, <1>3, <1>4, <1>5, <1>7 DEF Request, Nesting, Recording, Review
<1> QED
  BY <1>1, <1>4, <1>6, <1>7, <1>8, OneRequest

LEMMA RefuseStep ==
  ASSUME TracingInv, NEW r \in Requests, Refuse(r)
  PROVE  TracingInv'
<1>1. /\ pc' = [pc EXCEPT ![r] = "served"] /\ pc \in [Requests -> {"idle", "serve", "user", "deferred", "served", "done"}]
      /\ pc[r] = "serve" /\ UNCHANGED <<tracer, made, handler, spans, active, outcome>>
  BY DEF TracingInv, Types, Refuse, Goto
<1>2. pc'[r] = "served" /\ \A q \in Requests : q # r => pc'[q] = pc[q]
  BY <1>1
<1>3. Types' /\ Tracers'
  BY <1>1 DEF TracingInv, Types, Tracers
<1>4. Request(r)'
  BY <1>1, <1>2, Sequences DEF Request, Nesting, Recording, Review
<1> QED
  BY <1>1, <1>2, <1>3, <1>4, OneRequest

(* The second span of a request is the review's, a later one the user's.   *)
LEMMA OpenBelow ==
  ASSUME TracingInv, NEW r \in Requests, NEW kind, NEW values, Open(r, kind, "user", values),
         pc[r] \in {"serve", "user"},
         pc[r] = "serve" => kind = "review" /\ values = {"request"},
         pc[r] = "user" => kind \in {"func", "own"} /\ values = {},
         pc' \in [Requests -> {"idle", "serve", "user", "deferred", "served", "done"}],
         pc'[r] = "user", \A q \in Requests : q # r => pc'[q] = pc[q],
         UNCHANGED <<tracer, made, handler, outcome>>
  PROVE  TracingInv'
<1> DEFINE m == Len(spans[r])
           k == Len(active[r])
<1>1. /\ m \in Nat /\ k \in Nat /\ m >= 1 /\ k >= 1 /\ active[r][1] = 1
      /\ pc[r] = "serve" => m = 1 /\ k = 1
      /\ pc[r] = "user" => m >= 2 /\ k >= 2 /\ active[r][2] = 2
  BY Sequences DEF Request, Nesting
<1>2. PICK new : /\ GoodSpan(Len(spans[r]) + 1, new)
                 /\ new.state # "ended" /\ new.values \cap WebhookKinds = {}
                 /\ spans' = [spans EXCEPT ![r] = Append(@, new)]
                 /\ active' = [active EXCEPT ![r] = Append(@, Len(spans[r]) + 1)]
  <2>1. /\ kind \in KindsAt(Len(spans[r]) + 1)
        /\ tracer["user"] = IF Len(spans[r]) + 1 = 1 THEN Svc ELSE UserValues
        /\ values = IF Len(spans[r]) + 1 = 2 THEN {"request"} ELSE {}
    <3>1. tracer["user"] = UserValues
      BY DEF TracingInv, Tracers
    <3>2. CASE pc[r] = "serve"
      <4>1. kind = "review" /\ values = {"request"}
        BY <3>2
      <4>3. m = 1
        BY <1>1, <3>2
      <4>4. Len(spans[r]) + 1 = 2
        BY <4>3
      <4>2. KindsAt(2) = {"review"}
        BY DEF KindsAt
      <4> QED
        BY <3>1, <4>1, <4>2, <4>4
    <3>3. CASE pc[r] = "user"
      BY <1>1, <3>1, <3>3 DEF KindsAt
    <3> QED
      BY <3>2, <3>3
  <2> QED
    BY <2>1, Opened
<1>3. /\ spans' \in [Requests -> Seq(Span)] /\ active' \in [Requests -> Seq(Nat)]
      /\ Len(spans'[r]) = m + 1 /\ spans'[r][m + 1] = new
      /\ \A i \in 1..m : spans'[r][i] = spans[r][i]
      /\ Len(active'[r]) = k + 1 /\ active'[r][k + 1] = m + 1
      /\ \A i \in 1..k : active'[r][i] = active[r][i]
      /\ \A q \in Requests : q # r => spans'[q] = spans[q] /\ active'[q] = active[q]
  <2>1. new \in Span
    BY <1>2 DEF GoodSpan
  <2> QED
    BY <1>2, <2>1, Pushed
<1>4. Types' /\ Tracers'
  BY <1>3 DEF TracingInv, Types, Tracers
<1>5. Request(r)
  BY DEF TracingInv
<1> HIDE DEF m, k
<1>6. \A i \in 1..k : active[r][i] \in 1..m
  BY <1>5 DEF Request, Nesting, m, k
<1>7. Nesting(r)'
  <2>1. \A i \in 1..(k + 1) : active'[r][i] \in 1..(m + 1)
    <3> TAKE i \in 1..(k + 1)
    <3>1. CASE i = k + 1
      BY <1>1, <1>3, <3>1
    <3>2. CASE i # k + 1
      <4>1. i \in 1..k /\ active[r][i] \in 1..m
        BY <1>1, <1>6, <3>2
      <4> QED
        BY <1>1, <1>3, <4>1
    <3> QED
      BY <3>1, <3>2
  <2>2. \A i, j \in 1..(k + 1) : i < j => active'[r][i] < active'[r][j]
    <3>1. \A i, j \in 1..k : i < j => active[r][i] < active[r][j]
      BY <1>5 DEF Request, Nesting, k
    <3> QED
      BY <1>1, <1>3, <1>6, <3>1
  <2>3. active'[r][1] = 1 /\ active'[r][2] = 2
    <3>1. active'[r][1] = 1
      BY <1>1, <1>3
    <3>2. CASE pc[r] = "serve"
      BY <1>1, <1>3, <3>2
    <3>3. CASE pc[r] = "user"
      <4>1. 2 \in 1..k
        BY <1>1, <3>3
      <4> QED
        BY <1>1, <1>3, <3>3, <4>1
    <3> QED
      BY <3>1, <3>2, <3>3
  <2>4. outcome'[r] = "none"
    BY <1>5 DEF Request, Nesting
  <2> QED
    BY <1>1, <1>3, <2>1, <2>2, <2>3, <2>4 DEF Nesting
<1>8. \A n \in 1..(m + 1) : GoodSpan(n, spans'[r][n])
  BY <1>1, <1>2, <1>3, <1>5 DEF Request, m
<1>9. Recording(r)'
  <2>1. ASSUME NEW n \in 1..(m + 1), spans'[r][n].state = "recording"
        PROVE  (\E i \in 1..(k + 1) : active'[r][i] = n) \/ (outcome'[r] = "panic" /\ n > 2)
    <3>1. CASE n = m + 1
      BY <1>1, <1>3, <3>1
    <3>2. CASE n # m + 1
      <4>1. n \in 1..m /\ spans'[r][n] = spans[r][n]
        BY <1>1, <1>3, <3>2
      <4>2. (\E i \in 1..k : active[r][i] = n) \/ (outcome[r] = "panic" /\ n > 2)
        BY <1>5, <2>1, <4>1 DEF Request, Recording, m, k
      <4> QED
        BY <1>1, <1>3, <4>2
    <3> QED
      BY <3>1, <3>2
  <2>2. ASSUME NEW i \in 1..(k + 1) PROVE spans'[r][active'[r][i]].state # "ended"
    <3>1. CASE i = k + 1
      BY <1>2, <1>3, <3>1
    <3>2. CASE i # k + 1
      <4>1. i \in 1..k /\ active'[r][i] = active[r][i] /\ active[r][i] \in 1..m
        BY <1>1, <1>3, <1>6, <3>2
      <4>2. spans[r][active[r][i]].state # "ended"
        BY <1>5, <4>1 DEF Request, Recording, k
      <4> QED
        BY <1>3, <4>1, <4>2
    <3> QED
      BY <3>1, <3>2
  <2> QED
    BY <1>3, <2>1, <2>2 DEF Recording
<1>10. Review(r)'
  BY <1>1, <1>2, <1>3, <1>5 DEF Request, Review, m
<1>11. Request(r)'
  BY <1>3, <1>7, <1>8, <1>9, <1>10 DEF Request
<1> QED
  BY <1>3, <1>4, <1>11, OneRequest

LEMMA OpenStep ==
  ASSUME TracingInv, NEW r \in Requests, StartReview(r) \/ OpenSpan(r)
  PROVE  TracingInv'
<1> DEFINE labels == {"idle", "serve", "user", "deferred", "served", "done"}
<1>1. pc \in [Requests -> labels]
  BY DEF TracingInv, Types
<1>2. CASE StartReview(r)
  BY <1>1, <1>2, OpenBelow DEF StartReview, Goto
<1>3. CASE OpenSpan(r)
  BY <1>1, <1>3, OpenBelow DEF OpenSpan
<1> QED
  BY <1>2, <1>3

-----------------------------------------------------------------------------
(* One span of a request changes, and the contexts do not or the innermost *)
(* one, which is that span's, is left.                                     *)
LEMMA SpanChanged ==
  ASSUME TracingInv, NEW r \in Requests, NEW f \in [1..Len(spans[r]) -> Span],
         spans' = [spans EXCEPT ![r] = f]
  PROVE  /\ spans' \in [Requests -> Seq(Span)] /\ spans'[r] = f /\ Len(f) = Len(spans[r])
         /\ \A q \in Requests : q # r => spans'[q] = spans[q]
<1>1. /\ spans \in [Requests -> Seq(Span)] /\ Len(spans[r]) \in Nat
  BY DEF TracingInv, Types
<1>2. f \in Seq(Span) /\ Len(f) = Len(spans[r])
  BY <1>1
<1> QED
  BY <1>1, <1>2

(* The user's code says something of the span of a context it is in.       *)
LEMMA SpanDescribed ==
  ASSUME TracingInv, NEW r \in Requests, pc[r] = "user",
         NEW m \in 2..Len(spans[r]), NEW f \in [1..Len(spans[r]) -> Span],
         spans' = [spans EXCEPT ![r] = f], UNCHANGED <<tracer, made, handler, pc, active, outcome>>,
         \A n \in 1..Len(spans[r]) : n # m => f[n] = spans[r][n],
         GoodSpan(m, f[m]), f[m].state = spans[r][m].state,
         f[m].values \cap WebhookKinds = spans[r][m].values \cap WebhookKinds
  PROVE  TracingInv'
<1> DEFINE l == Len(spans[r])
<1>1. /\ spans' \in [Requests -> Seq(Span)] /\ spans'[r] = f /\ Len(f) = l
      /\ \A q \in Requests : q # r => spans'[q] = spans[q]
  BY SpanChanged
<1>2. Request(r) /\ l \in Nat /\ l >= 2
  BY Sequences
<1>3. Types' /\ Tracers'
  BY <1>1 DEF TracingInv, Types, Tracers
<1>4. \A n \in 1..l : GoodSpan(n, f[n]) /\ f[n].state = spans[r][n].state
  BY <1>2 DEF Request
<1>5. Nesting(r)'
  BY <1>1, <1>2 DEF Request, Nesting
<1>6. Recording(r)'
  <2>1. ASSUME NEW n \in 1..l, f[n].state = "recording"
        PROVE  (\E i \in 1..Len(active[r]) : active[r][i] = n) \/ (outcome[r] = "panic" /\ n > 2)
    BY <1>2, <1>4, <2>1 DEF Request, Recording
  <2>2. ASSUME NEW i \in 1..Len(active[r]) PROVE f[active[r][i]].state # "ended"
    BY <1>2, <1>4 DEF Request, Nesting, Recording
  <2> QED
    BY <1>1, <2>1, <2>2 DEF Recording
<1>7. Review(r)'
  <2>1. active[r][2] = 2 /\ Len(active[r]) >= 2 /\ Len(active[r]) \in Nat
    BY <1>2, Sequences DEF Request, Nesting
  <2>2. spans[r][2].state # "ended"
    BY <1>2, <2>1 DEF Request, Recording
  <2>3. f[2].state = spans[r][2].state
    BY <1>2, <1>4
  <2>4. f[2].values \cap WebhookKinds = spans[r][2].values \cap WebhookKinds
    BY <1>2
  <2>5. spans[r][2].state = "recording" => spans[r][2].values \cap WebhookKinds = {}
    BY <1>2 DEF Request, Review
  <2> QED
    BY <1>1, <2>2, <2>3, <2>4, <2>5 DEF Review
<1>8. Request(r)'
  BY <1>1, <1>4, <1>5, <1>6, <1>7 DEF Request
<1> QED
  BY <1>1, <1>3, <1>8, OneRequest

LEMMA AddValuesStep ==
  ASSUME TracingInv, NEW r \in Requests, AddValues(r)
  PROVE  TracingInv'
<1>1. PICK m \in ToSet(active[r]) \ {1} : AddTraceValues(r, m, {"added"})
  BY DEF AddValues
<1>2. m \in 2..Len(spans[r])
  <2>1. PICK i \in 1..Len(active[r]) : m = active[r][i]
    BY <1>1, Sequences DEF ToSet
  <2> QED
    BY <1>1, <2>1, Sequences DEF Request, Nesting
<1> DEFINE f == [n \in DOMAIN spans[r] |-> IF n \in SpanFromContext(r, m)
                                          THEN WithAttributes(spans[r][n], {"added"}) ELSE spans[r][n]]
<1>3. spans' = [spans EXCEPT ![r] = f]
  BY <1>1 DEF AddTraceValues, Update
<1>4. DOMAIN spans[r] = 1..Len(spans[r]) /\ \A n \in 1..Len(spans[r]) : GoodSpan(n, spans[r][n])
  BY Sequences DEF Request
<1>5. f[m] = WithAttributes(spans[r][m], {"added"})
  BY <1>2, <1>4 DEF SpanFromContext, WithAttributes
<1>6. \A n \in 1..Len(spans[r]) : n # m => f[n] = spans[r][n]
  BY <1>4 DEF SpanFromContext
<1>7. /\ GoodSpan(m, f[m]) /\ f[m].state = spans[r][m].state
      /\ f[m].values \cap WebhookKinds = spans[r][m].values \cap WebhookKinds
  <2>1. GoodSpan(m, spans[r][m]) /\ {"added"} \in SUBSET Marks /\ m \in Nat /\ m # 1
    BY <1>2, <1>4 DEF Marks
  <2>2. {"added"} \cap ({"request"} \cup WebhookKinds) = {} /\ "returned" \notin {"added"}
    BY DEF WebhookKinds
  <2>3. /\ GoodSpan(m, f[m]) /\ f[m].state = spans[r][m].state
        /\ spans[r][m].state = "recording" => f[m].values = spans[r][m].values \cup {"added"}
    BY <1>5, <2>1, <2>2, AttributesGood
  <2>4. spans[r][m].state # "recording" => f[m] = spans[r][m]
    BY <1>5 DEF WithAttributes
  <2> QED
    BY <2>2, <2>3, <2>4
<1>8. f \in [1..Len(spans[r]) -> Span]
  <2>1. \A n \in 1..Len(spans[r]) : f[n] \in Span
    BY <1>4, <1>6, <1>7 DEF GoodSpan
  <2> QED
    BY <1>4, <2>1
<1> HIDE DEF f
<1> QED
  BY <1>2, <1>3, <1>6, <1>7, <1>8, SpanDescribed DEF AddValues

LEMMA FrontOf ==
  ASSUME NEW s \in Seq(Nat), Len(s) >= 1
  PROVE  /\ Front(s) \in Seq(Nat) /\ Len(Front(s)) = Len(s) - 1
         /\ \A i \in 1..(Len(s) - 1) : Front(s)[i] = s[i]
<1> DEFINE n == Len(s) - 1
<1>1. 1 \in Int /\ n \in Int /\ n >= 0 /\ \A i \in 1..n : s[i] \in Nat
  OBVIOUS
<1>2. Front(s) = SubSeq(s, 1, n)
  BY DEF Front
<1> HIDE DEF n
<1>3. /\ SubSeq(s, 1, n) \in Seq(Nat)
      /\ Len(SubSeq(s, 1, n)) = IF 1 <= n THEN n - 1 + 1 ELSE 0
      /\ \A i \in 1..(n - 1 + 1) : SubSeq(s, 1, n)[i] = s[1 + i - 1]
  BY <1>1, SubSeqProperties
<1>4. /\ Len(SubSeq(s, 1, n)) = n
      /\ \A i \in 1..n : SubSeq(s, 1, n)[i] = s[i]
  BY <1>1, <1>3
<1> QED
  BY <1>2, <1>3, <1>4 DEF n

(* The user's code leaves the innermost of its contexts, and ends its span. *)
LEMMA SpanLeft ==
  ASSUME TracingInv, NEW r \in Requests, pc[r] = "user", Top(r) > 2,
         NEW f \in [1..Len(spans[r]) -> Span],
         spans' = [spans EXCEPT ![r] = f], active' = [active EXCEPT ![r] = Front(@)],
         UNCHANGED <<tracer, made, handler, pc, outcome>>,
         \A n \in 1..Len(spans[r]) : n # Top(r) => f[n] = spans[r][n],
         GoodSpan(Top(r), f[Top(r)]), f[Top(r)].state # "recording"
  PROVE  TracingInv'
<1> DEFINE l == Len(spans[r])
           k == Len(active[r])
<1>1. /\ spans' \in [Requests -> Seq(Span)] /\ spans'[r] = f /\ Len(f) = l
      /\ \A q \in Requests : q # r => spans'[q] = spans[q]
  BY SpanChanged
<1>2. Request(r) /\ l \in Nat /\ l >= 2 /\ k \in Nat /\ k >= 2 /\ active[r] \in Seq(Nat)
  BY Sequences DEF Request, Nesting
<1>3. Top(r) = active[r][k] /\ k # 2
  <2>1. Top(r) = active[r][k]
    BY DEF Top, Last
  <2>2. k # 2
    BY <1>2, <2>1 DEF Request, Nesting
  <2> QED
    BY <2>1, <2>2
<1>4. /\ active' \in [Requests -> Seq(Nat)] /\ Len(active'[r]) = k - 1
      /\ \A i \in 1..(k - 1) : active'[r][i] = active[r][i] /\ active[r][i] \in 1..l /\ active[r][i] # Top(r)
      /\ \A q \in Requests : q # r => active'[q] = active[q]
  <2>1. active \in [Requests -> Seq(Nat)] /\ active'[r] = Front(active[r])
    BY DEF TracingInv, Types
  <2>2. /\ Front(active[r]) \in Seq(Nat) /\ Len(Front(active[r])) = k - 1
        /\ \A i \in 1..(k - 1) : Front(active[r])[i] = active[r][i]
    <3>1. active[r] \in Seq(Nat) /\ Len(active[r]) >= 1
      BY <1>2
    <3> QED
      BY <3>1, FrontOf
  <2>3. ASSUME NEW i \in 1..(k - 1) PROVE active[r][i] \in 1..l /\ active[r][i] # Top(r)
    <3>1. i \in 1..k /\ k \in 1..k /\ i < k
      BY <1>2
    <3>2. active[r][i] \in 1..l /\ active[r][i] < active[r][k] /\ active[r][k] \in Nat
      BY <1>2, <3>1 DEF Request, Nesting
    <3> QED
      BY <1>3, <3>2
  <2>4. Len(active'[r]) = k - 1 /\ \A i \in 1..(k - 1) : active'[r][i] = active[r][i]
    BY <2>1, <2>2
  <2>5. active' \in [Requests -> Seq(Nat)]
    BY <2>1, <2>2
  <2>6. \A q \in Requests : q # r => active'[q] = active[q]
    BY <2>1
  <2> QED
    BY <2>3, <2>4, <2>5, <2>6
<1>5. Types' /\ Tracers'
  BY <1>1, <1>4 DEF TracingInv, Types, Tracers
<1>6. \A n \in 1..l : GoodSpan(n, f[n])
  BY <1>2 DEF Request
<1>7. active[r][1] = 1 /\ active[r][2] = 2 /\ outcome[r] = "none"
      /\ \A i, j \in 1..k : i < j => active[r][i] < active[r][j]
  BY <1>2 DEF Request, Nesting
<1> HIDE DEF k
<1>8. Nesting(r)'
  <2>1. active'[r][1] = 1 /\ active'[r][2] = 2
    BY <1>2, <1>3, <1>4, <1>7
  <2>2. \A i, j \in 1..(k - 1) : i < j => active'[r][i] < active'[r][j]
    BY <1>2, <1>4, <1>7
  <2>3. /\ pc'[r] = "user" /\ outcome'[r] = "none" /\ Len(spans'[r]) = l /\ l >= 2
        /\ Len(active'[r]) = k - 1 /\ k - 1 >= 2
    BY <1>1, <1>2, <1>3, <1>4, <1>7
  <2>4. \A i \in 1..(k - 1) : active'[r][i] \in 1..l
    BY <1>4
  <2> QED
    BY <2>1, <2>2, <2>3, <2>4 DEF Nesting
<1>9. Recording(r)'
  <2>1. ASSUME NEW n \in 1..l, f[n].state = "recording"
        PROVE  (\E i \in 1..(k - 1) : active'[r][i] = n) \/ (outcome[r] = "panic" /\ n > 2)
    <3>1. n # Top(r) /\ f[n] = spans[r][n]
      BY <2>1
    <3>2. PICK i \in 1..k : active[r][i] = n
      BY <1>2, <1>7, <2>1, <3>1 DEF Request, Recording, k
    <3>3. i \in 1..(k - 1)
      BY <1>2, <1>3, <3>1, <3>2
    <3> QED
      BY <1>4, <3>2, <3>3
  <2>2. ASSUME NEW i \in 1..(k - 1) PROVE f[active'[r][i]].state # "ended"
    <3>1. f[active'[r][i]] = spans[r][active[r][i]] /\ i \in 1..k
      BY <1>2, <1>4
    <3> QED
      BY <1>2, <3>1 DEF Request, Recording, k
  <2> QED
    BY <1>1, <1>4, <2>1, <2>2 DEF Recording
<1>10. Review(r)'
  <2>1. f[2] = spans[r][2]
    BY <1>2
  <2> QED
    BY <1>1, <1>2, <2>1 DEF Request, Review
<1>11. Request(r)'
  BY <1>1, <1>6, <1>8, <1>9, <1>10 DEF Request
<1> QED
  BY <1>1, <1>4, <1>5, <1>11, OneRequest

LEMMA EndSpanStep ==
  ASSUME TracingInv, NEW r \in Requests, EndFunc(r) \/ EndOwn(r)
  PROVE  TracingInv'
<1> DEFINE m == Top(r)
<1>1. m \in 3..Len(spans[r])
  <2>1. /\ pc[r] = "user" /\ spans[r][m].kind \in {"func", "own"}
        /\ m = active[r][Len(active[r])]
    BY DEF EndFunc, EndOwn, Top, Last
  <2>2. m \in 1..Len(spans[r]) /\ Len(spans[r]) \in Nat /\ GoodSpan(m, spans[r][m])
    BY <2>1, Sequences DEF Request, Nesting
  <2> HIDE DEF m
  <2>3. m # 1 /\ m # 2
    BY <2>1, <2>2 DEF GoodSpan, KindsAt
  <2> QED
    BY <2>2, <2>3
<1>2. DOMAIN spans[r] = 1..Len(spans[r]) /\ \A n \in 1..Len(spans[r]) : GoodSpan(n, spans[r][n])
  BY Sequences DEF Request
<1>3. m \in Nat /\ m > 2 /\ GoodSpan(m, spans[r][m])
  BY <1>1, <1>2
<1>4. \E f \in [1..Len(spans[r]) -> Span] :
        /\ spans' = [spans EXCEPT ![r] = f]
        /\ \A n \in 1..Len(spans[r]) : n # m => f[n] = spans[r][n]
        /\ GoodSpan(m, f[m]) /\ f[m].state # "recording"
  <2>1. CASE EndFunc(r)
    <3>1. PICK failed \in BOOLEAN :
            Update(r, {m}, LAMBDA span : Ended(WithAttributes(span, {"returned"}), failed))
      BY <2>1 DEF EndFunc
    <3> DEFINE f == [n \in DOMAIN spans[r] |->
                       IF n \in {m} THEN Ended(WithAttributes(spans[r][n], {"returned"}), failed) ELSE spans[r][n]]
    <3>2. spans' = [spans EXCEPT ![r] = f]
      BY <3>1 DEF Update
    <3>3. f[m] = Ended(WithAttributes(spans[r][m], {"returned"}), failed)
      BY <1>1, <1>2
    <3>4. spans[r][m].kind = "func" /\ {"returned"} \in SUBSET Marks
          /\ {"returned"} \cap ({"request"} \cup WebhookKinds) = {}
      BY <2>1 DEF EndFunc, Marks, WebhookKinds
    <3>5. GoodSpan(m, WithAttributes(spans[r][m], {"returned"}))
      BY <1>3, <3>4, AttributesGood
    <3>6. GoodSpan(m, f[m]) /\ f[m].state # "recording"
      BY <1>3, <3>3, <3>5, EndedGood
    <3>7. \A n \in 1..Len(spans[r]) : n # m => f[n] = spans[r][n]
      BY <1>2
    <3>8. f \in [1..Len(spans[r]) -> Span]
      BY <1>2, <3>6, <3>7 DEF GoodSpan
    <3> HIDE DEF f
    <3> QED
      BY <3>2, <3>6, <3>7, <3>8
  <2>2. CASE EndOwn(r)
    <3>1. PICK failed \in BOOLEAN :
            Update(r, SpanFromContext(r, m), LAMBDA span : Ended(span, failed))
      BY <2>2 DEF EndOwn, EndTrace
    <3> DEFINE f == [n \in DOMAIN spans[r] |->
                       IF n \in SpanFromContext(r, m) THEN Ended(spans[r][n], failed) ELSE spans[r][n]]
    <3>2. spans' = [spans EXCEPT ![r] = f]
      BY <3>1 DEF Update
    <3>3. f[m] = Ended(spans[r][m], failed)
      <4>1. m \in SpanFromContext(r, m) <=> spans[r][m].state = "recording"
        BY DEF SpanFromContext
      <4>2. m \in DOMAIN spans[r]
        BY <1>1, <1>2
      <4> QED
        BY <4>1, <4>2 DEF Ended
    <3>6. GoodSpan(m, f[m]) /\ f[m].state # "recording"
      BY <1>3, <3>3, EndedGood
    <3>7. \A n \in 1..Len(spans[r]) : n # m => f[n] = spans[r][n]
      BY <1>2 DEF SpanFromContext
    <3>8. f \in [1..Len(spans[r]) -> Span]
      BY <1>2, <3>6, <3>7 DEF GoodSpan
    <3> HIDE DEF f
    <3> QED
      BY <3>2, <3>6, <3>7, <3>8
  <2> QED
    BY <2>1, <2>2
<1>5. /\ pc[r] = "user" /\ active' = [active EXCEPT ![r] = Front(@)]
      /\ UNCHANGED <<tracer, made, handler, pc, outcome>>
  BY DEF EndFunc, EndOwn
<1> QED
  BY <1>3, <1>4, <1>5, SpanLeft

LEMMA ReviewReturnsStep ==
  ASSUME TracingInv, NEW r \in Requests, ReviewReturns(r)
  PROVE  TracingInv'
<1> DEFINE k == Len(active[r])
<1>1. Request(r) /\ k \in Nat /\ k >= 2 /\ active[r] \in Seq(Nat) /\ Len(spans[r]) \in Nat /\ Len(spans[r]) >= 2
      /\ active[r][1] = 1 /\ active[r][2] = 2 /\ pc[r] = "user" /\ outcome[r] = "none"
  BY Sequences DEF Request, Nesting, ReviewReturns
<1>2. PICK o \in Outcomes : (o # "panic" => k = 2) /\ outcome' = [outcome EXCEPT ![r] = o]
  BY DEF ReviewReturns
<1>3. /\ pc' = [pc EXCEPT ![r] = "deferred"] /\ active' = [active EXCEPT ![r] = SubSeq(@, 1, 2)]
      /\ UNCHANGED <<tracer, made, handler, spans>>
  BY DEF ReviewReturns, Goto
<1>4. /\ active'[r] \in Seq(Nat) /\ Len(active'[r]) = 2 /\ active'[r][1] = 1 /\ active'[r][2] = 2
  <2>1. active'[r] = SubSeq(active[r], 1, 2)
    BY <1>3 DEF TracingInv, Types
  <2> QED
    BY <1>1, <2>1
<1>5. Types' /\ Tracers'
  <2>1. active' \in [Requests -> Seq(Nat)]
    BY <1>3, <1>4 DEF TracingInv, Types
  <2>2. pc' \in [Requests -> {"idle", "serve", "user", "deferred", "served", "done"}]
    BY <1>3 DEF TracingInv, Types
  <2>3. outcome' \in [Requests -> Outcomes \cup {"none"}]
    BY <1>2 DEF TracingInv, Types
  <2> QED
    BY <1>3, <2>1, <2>2, <2>3 DEF TracingInv, Types, Tracers
<1>6. /\ pc'[r] = "deferred" /\ outcome'[r] = o
      /\ \A q \in Requests : q # r =>
           pc'[q] = pc[q] /\ active'[q] = active[q] /\ outcome'[q] = outcome[q]
  BY <1>2, <1>3 DEF TracingInv, Types
<1>7. Recording(r)'
  <2>1. ASSUME NEW n \in 1..Len(spans[r]), spans[r][n].state = "recording"
        PROVE  (\E i \in 1..2 : active'[r][i] = n) \/ (o = "panic" /\ n > 2)
    <3>1. PICK i \in 1..k : active[r][i] = n
      BY <1>1, <2>1 DEF Request, Recording
    <3>2. CASE i \in 1..2
      BY <1>1, <1>4, <3>1, <3>2
    <3>3. CASE i > 2
      <4>1. active[r][2] < active[r][i]
        BY <1>1, <3>3 DEF Request, Nesting
      <4> QED
        BY <1>1, <1>2, <3>1, <3>3, <4>1
    <3> QED
      BY <3>2, <3>3
  <2>2. \A i \in 1..2 : spans[r][active'[r][i]].state # "ended"
    <3>1. spans[r][active[r][1]].state # "ended" /\ spans[r][active[r][2]].state # "ended"
      BY <1>1 DEF Request, Recording
    <3> QED
      BY <1>1, <1>4, <3>1
  <2> QED
    BY <1>3, <1>4, <1>6, <2>1, <2>2 DEF Recording
<1>8. Nesting(r)'
  BY <1>1, <1>3, <1>4, <1>6 DEF Nesting
<1>9. Review(r)'
  <2>1. spans[r][2].state # "ended"
    BY <1>1 DEF Request, Recording
  <2> QED
    BY <1>1, <1>3, <2>1 DEF Request, Review
<1>10. Request(r)'
  BY <1>1, <1>3, <1>7, <1>8, <1>9 DEF Request
<1> QED
  BY <1>3, <1>5, <1>6, <1>10, OneRequest

(* The review's span is ended, with what is known of the response.         *)
LEMMA EndReviewStep ==
  ASSUME TracingInv, NEW r \in Requests, EndReview(r)
  PROVE  TracingInv'
<1> DEFINE l == Len(spans[r])
           o == outcome[r]
           said == WithAttributes(spans[r][2], TracedType(o))
           f == [n \in DOMAIN spans[r] |->
                   IF n \in SpanFromContext(r, 2)
                   THEN Ended(WithAttributes(spans[r][n], TracedType(o)), o = "error") ELSE spans[r][n]]
<1>1. /\ Request(r) /\ pc[r] = "deferred" /\ l \in Nat /\ l >= 2 /\ DOMAIN spans[r] = 1..l
      /\ Len(active[r]) = 2 /\ active[r][1] = 1 /\ active[r][2] = 2
      /\ GoodSpan(1, spans[r][1]) /\ GoodSpan(2, spans[r][2])
  BY Sequences DEF Request, Nesting, EndReview
<1>2. /\ spans' = [spans EXCEPT ![r] = f] /\ active' = [active EXCEPT ![r] = <<1>>]
      /\ pc' = [pc EXCEPT ![r] = "served"] /\ UNCHANGED <<tracer, made, handler, outcome>>
  BY DEF EndReview, Update, Goto
<1>3. TracedType(o) \subseteq WebhookKinds /\ (TracedType(o) # {} <=> o \in WebhookKinds)
  BY TypesTraced
<1>4. 2 \in SpanFromContext(r, 2) <=> spans[r][2].state = "recording"
  BY DEF SpanFromContext
<1>5. /\ GoodSpan(2, said) /\ said.state = spans[r][2].state /\ said.status = spans[r][2].status
      /\ spans[r][2].state = "recording" => said.values = spans[r][2].values \cup TracedType(o)
  <2> DEFINE values == TracedType(o)
             span   == spans[r][2]
  <2>1. values \in SUBSET Marks /\ "returned" \notin values /\ GoodSpan(2, span)
    BY <1>1, <1>3 DEF Marks, WebhookKinds
  <2> HIDE DEF values, span
  <2>2. /\ GoodSpan(2, WithAttributes(span, values))
        /\ WithAttributes(span, values).state = span.state
        /\ WithAttributes(span, values).status = span.status
        /\ span.state = "recording" => WithAttributes(span, values).values = span.values \cup values
    BY <2>1, AttributesGood
  <2> QED
    BY <2>2 DEF values, span
<1>6. spans[r][2].state # "ended"
  BY <1>1 DEF Request, Recording
<1> HIDE DEF said, o
<1>7. ASSUME spans[r][2].state = "recording"
      PROVE  GoodSpan(2, f[2]) /\ f[2].state # "recording" /\ Described(f[2], o)
  <2> DEFINE failed == o = "error"
  <2>1. f[2] = Ended(said, failed) /\ failed \in BOOLEAN
    BY <1>1, <1>4, <1>7 DEF said, o
  <2> HIDE DEF failed, f
  <2>2. /\ GoodSpan(2, f[2]) /\ f[2].state # "recording" /\ f[2].values = said.values
        /\ f[2].status = IF failed THEN "error" ELSE "ok"
    BY <1>5, <1>7, <2>1, EndedGood
  <2>3. said.values = spans[r][2].values \cup TracedType(o) /\ spans[r][2].values \cap WebhookKinds = {}
    BY <1>1, <1>5, <1>7 DEF Request, Review
  <2>4. (f[2].status = "error") <=> (o = "error")
    BY <2>2 DEF failed
  <2>5. Described(f[2], o)
    BY <1>3, <2>2, <2>3, <2>4 DEF Described
  <2> QED
    BY <2>2, <2>5
<1>9. /\ GoodSpan(2, f[2]) /\ f[2].state # "recording"
      /\ f[2].state = "ended" => Described(f[2], o)
  <2>1. spans[r][2].state \in {"recording", "dropped", "ended"}
    BY <1>1 DEF GoodSpan, Span
  <2>2. CASE spans[r][2].state = "dropped"
    BY <1>1, <1>4, <2>2
  <2> QED
    BY <1>6, <1>7, <2>1, <2>2
<1>10. \A n \in 1..l : n # 2 => f[n] = spans[r][n]
  BY <1>1 DEF SpanFromContext
<1>11. \A n \in 1..l : GoodSpan(n, f[n])
  BY <1>1, <1>9, <1>10 DEF Request
<1>12. f \in [1..l -> Span]
  BY <1>1, <1>11 DEF GoodSpan
<1> HIDE DEF f
<1>13. /\ spans' \in [Requests -> Seq(Span)] /\ spans'[r] = f /\ Len(f) = l
       /\ \A q \in Requests : q # r => spans'[q] = spans[q]
  BY <1>2, <1>12, SpanChanged
<1>14. /\ pc' \in [Requests -> {"idle", "serve", "user", "deferred", "served", "done"}] /\ pc'[r] = "served"
       /\ active' \in [Requests -> Seq(Nat)] /\ active'[r] = <<1>>
       /\ \A q \in Requests : q # r => pc'[q] = pc[q] /\ active'[q] = active[q]
  BY <1>2 DEF TracingInv, Types
<1>15. Types' /\ Tracers'
  BY <1>2, <1>13, <1>14 DEF TracingInv, Types, Tracers
<1>16. Nesting(r)'
  BY <1>1, <1>13, <1>14 DEF Nesting
<1>17. Recording(r)'
  <2>1. ASSUME NEW n \in 1..l, f[n].state = "recording"
        PROVE  n = 1 \/ (outcome[r] = "panic" /\ n > 2)
    <3>1. n # 2 /\ f[n] = spans[r][n]
      BY <1>9, <1>10, <2>1
    <3>2. (\E i \in 1..2 : active[r][i] = n) \/ (outcome[r] = "panic" /\ n > 2)
      BY <1>1, <2>1, <3>1 DEF Request, Recording
    <3> QED
      BY <1>1, <3>1, <3>2
  <2>2. f[1].state # "ended"
    BY <1>1, <1>10 DEF Request, Recording
  <2> QED
    BY <1>2, <1>13, <1>14, <2>1, <2>2 DEF Recording
<1>18. Review(r)'
  BY <1>2, <1>9, <1>13 DEF Review, o
<1>19. Request(r)'
  BY <1>11, <1>13, <1>16, <1>17, <1>18 DEF Request
<1> QED
  BY <1>2, <1>13, <1>14, <1>15, <1>19, OneRequest

(* The wrapper's span is ended, with a status or without.                  *)
LEMMA EndedHTTPGood ==
  ASSUME NEW n \in Nat, NEW span, GoodSpan(n, span), NEW o
  PROVE  GoodSpan(n, EndedHTTP(span, o)) /\ EndedHTTP(span, o).state # "recording"
<1>1. CASE o \in {"error", "nil"}
  <2>1. EndedHTTP(span, o) = Ended(span, TRUE)
    BY <1>1 DEF EndedHTTP
  <2> QED
    BY <2>1, EndedGood
<1>2. CASE ~(o \in {"error", "nil"})
  <2>1. PICK end : end = Ended(span, FALSE)
    OBVIOUS
  <2>2. GoodSpan(n, end) /\ end.state # "recording"
    BY <2>1, EndedGood
  <2>3. EndedHTTP(span, o) = [end EXCEPT !.status = "unset"]
    BY <1>2, <2>1, Zenon DEF EndedHTTP
  <2>4. end = [kind |-> end.kind, values |-> end.values, state |-> end.state, status |-> end.status]
    BY <2>2 DEF GoodSpan, Span
  <2>5. EndedHTTP(span, o) =
          [kind |-> end.kind, values |-> end.values, state |-> end.state, status |-> "unset"]
    BY <2>3, <2>4
  <2> QED
    BY <2>2, <2>5 DEF GoodSpan, Span
<1> QED
  BY <1>1, <1>2

LEMMA EndHTTPStep ==
  ASSUME TracingInv, NEW r \in Requests, EndHTTP(r)
  PROVE  TracingInv'
<1> DEFINE l == Len(spans[r])
           f == [n \in DOMAIN spans[r] |->
                   IF n \in {1} THEN EndedHTTP(spans[r][n], outcome[r]) ELSE spans[r][n]]
<1>1. /\ Request(r) /\ pc[r] = "served" /\ l \in Nat /\ DOMAIN spans[r] = 1..l /\ active[r] = <<1>>
  BY Sequences DEF Request, Nesting, EndHTTP
<1>2. /\ spans' = [spans EXCEPT ![r] = f] /\ active' = [active EXCEPT ![r] = <<>>]
      /\ pc' = [pc EXCEPT ![r] = "done"] /\ UNCHANGED <<tracer, made, handler, outcome>>
  BY DEF EndHTTP, Update, Goto
<1>3. l >= 1 /\ GoodSpan(1, spans[r][1])
  <2>1. 1 \in 1..Len(active[r]) /\ active[r][1] = 1
    BY <1>1
  <2>2. 1 \in 1..l
    BY <1>1, <2>1 DEF Request, Nesting
  <2> QED
    BY <1>1, <2>2 DEF Request
<1>4. GoodSpan(1, f[1]) /\ f[1].state # "recording"
  <2>1. f[1] = EndedHTTP(spans[r][1], outcome[r])
    BY <1>1, <1>3
  <2>2. PICK span, o : span = spans[r][1] /\ o = outcome[r]
    OBVIOUS
  <2>3. GoodSpan(1, span)
    BY <1>3, <2>2
  <2>4. GoodSpan(1, EndedHTTP(span, o)) /\ EndedHTTP(span, o).state # "recording"
    BY <2>3, EndedHTTPGood
  <2> QED
    BY <2>1, <2>2, <2>4
<1>5. \A n \in 1..l : n # 1 => f[n] = spans[r][n]
  BY <1>1
<1>6. \A n \in 1..l : GoodSpan(n, f[n])
  BY <1>1, <1>4, <1>5 DEF Request
<1>7. f \in [1..l -> Span]
  BY <1>1, <1>6 DEF GoodSpan
<1> HIDE DEF f
<1>8. /\ spans' \in [Requests -> Seq(Span)] /\ spans'[r] = f /\ Len(f) = l
      /\ \A q \in Requests : q # r => spans'[q] = spans[q]
  BY <1>2, <1>7, SpanChanged
<1>9. /\ pc' \in [Requests -> {"idle", "serve", "user", "deferred", "served", "done"}] /\ pc'[r] = "done"
      /\ active' \in [Requests -> Seq(Nat)] /\ active'[r] = <<>>
      /\ \A q \in Requests : q # r => pc'[q] = pc[q] /\ active'[q] = active[q]
  BY <1>2 DEF TracingInv, Types
<1>10. Types' /\ Tracers'
  BY <1>2, <1>8, <1>9 DEF TracingInv, Types, Tracers
<1>11. Nesting(r)'
  BY <1>1, <1>8, <1>9 DEF Nesting
<1>12. Recording(r)'
  <2>1. ASSUME NEW n \in 1..l, f[n].state = "recording"
        PROVE  outcome[r] = "panic" /\ n > 2
    <3>1. n # 1 /\ spans[r][n].state = "recording"
      BY <1>4, <1>5, <2>1
    <3>2. (\E i \in 1..1 : active[r][i] = n) \/ (outcome[r] = "panic" /\ n > 2)
      BY <1>1, <3>1 DEF Request, Recording
    <3> QED
      BY <1>1, <3>1, <3>2
  <2> QED
    BY <1>2, <1>8, <1>9, <2>1 DEF Recording
<1>13. Review(r)'
  BY <1>1, <1>2, <1>5, <1>8 DEF Request, Review
<1>14. Request(r)'
  BY <1>6, <1>8, <1>11, <1>12, <1>13 DEF Request
<1> QED
  BY <1>2, <1>8, <1>9, <1>10, <1>14, OneRequest

LEMMA NextTracingInv == TracingInv /\ [Next]_vars => TracingInv'
<1> SUFFICES ASSUME TracingInv, [Next]_vars PROVE TracingInv'
  OBVIOUS
<1>1. CASE UNCHANGED vars
  <2>1. Types' /\ Tracers'
    BY <1>1 DEF TracingInv, Types, Tracers, vars
  <2>2. \A r \in Requests : Request(r)'
    BY <1>1, OtherRequest DEF TracingInv, vars
  <2> QED
    BY <2>1, <2>2 DEF TracingInv
<1>2. ASSUME NEW r \in Requests, Step(r) PROVE TracingInv'
  BY <1>2, StartHTTPStep, RefuseStep, OpenStep, AddValuesStep, EndSpanStep, ReviewReturnsStep,
    EndReviewStep, EndHTTPStep DEF Step, UserStep
<1> QED
  BY <1>1, <1>2, HandlerForStep DEF Next, Done

LEMMA TracingInvariant == Spec => []TracingInv
BY InitTracingInv, NextTracingInv, PTL DEF Spec

-----------------------------------------------------------------------------
(* The types of the state, and that there is a context from the wrapper to *)
(* the wrapper (tracing.go:32-45, handler.go:70-77).                       *)
THEOREM TracingTypes == Spec => []TypeOK
<1>1. TracingInv => TypeOK
  <2> SUFFICES ASSUME TracingInv PROVE TypeOK
    OBVIOUS
  <2>1. ASSUME NEW r \in Requests
        PROVE  /\ ToSet(active[r]) \subseteq DOMAIN spans[r]
               /\ active[r] = <<>> <=> pc[r] \in {"idle", "done"}
    <3>1. ToSet(active[r]) \subseteq DOMAIN spans[r]
      BY Sequences DEF Request, Nesting, ToSet
    <3>2. pc[r] \in {"idle", "serve", "user", "deferred", "served", "done"}
      BY DEF TracingInv, Types
    <3>3. active[r] = <<>> <=> pc[r] \in {"idle", "done"}
      BY <3>2, Sequences DEF Request, Nesting
    <3> QED
      BY <3>1, <3>3
  <2> QED
    BY <2>1 DEF TracingInv, Types, TypeOK
<1> QED
  BY <1>1, TracingInvariant, PTL

(* The tracers derived from one tracer do not share values, however many   *)
(* handlers there are (otel.go:39-46, handler.go:68).                      *)
THEOREM DerivedTracersApart == Spec => []TracersApart
<1>1. TracingInv => TracersApart
  <2> SUFFICES ASSUME TracingInv, NEW r \in Requests, NEW n \in DOMAIN spans[r],
                      spans[r][n].state # "dropped"
               PROVE  spans[r][n].values \cap (UserValues \cup Svc)
                        = IF spans[r][n].kind = "http" THEN Svc ELSE UserValues
    BY DEF TracersApart
  <2>1. GoodSpan(n, spans[r][n])
    BY Sequences DEF Request
  <2> QED
    BY <2>1 DEF GoodSpan, KindsAt
<1> QED
  BY <1>1, TracingInvariant, PTL

(* No value is put on a span it is not about (otel.go:57-67, 90-99).       *)
THEOREM EachValueInPlace == Spec => []ValuesInPlace
<1>1. TracingInv => ValuesInPlace
  <2> SUFFICES ASSUME TracingInv, NEW r \in Requests, NEW n \in DOMAIN spans[r]
               PROVE  LET span == spans[r][n]
                      IN  /\ span.kind = "http" => span.values \subseteq Svc
                          /\ span.values \cap ({"request"} \cup WebhookKinds) # {} => span.kind = "review"
                          /\ "returned" \in span.values => span.kind = "func"
    BY DEF ValuesInPlace
  <2>1. GoodSpan(n, spans[r][n])
    BY Sequences DEF Request
  <2> QED
    BY <2>1 DEF GoodSpan, KindsAt
<1> QED
  BY <1>1, TracingInvariant, PTL

(* No call runs in a span that has ended (otel.go:74-88, 134-151).         *)
THEOREM ContextsOpen == Spec => []OpenWhileActive
<1>1. TracingInv => OpenWhileActive
  BY Sequences DEF OpenWhileActive, Request, Recording, ToSet
<1> QED
  BY <1>1, TracingInvariant, PTL

(* The span of a review that has ended is complete (tracing.go:32-69).     *)
THEOREM ReviewsDescribed == Spec => []ReviewDescribed
<1>1. TracingInv => ReviewDescribed
  <2> SUFFICES ASSUME TracingInv, NEW r \in Requests, NEW n \in DOMAIN spans[r],
                      spans[r][n].kind = "review", spans[r][n].state = "ended"
               PROVE  /\ "request" \in spans[r][n].values
                      /\ Described(spans[r][n], outcome[r])
    BY DEF ReviewDescribed, Described
  <2>1. GoodSpan(n, spans[r][n]) /\ n \in 1..Len(spans[r]) /\ Len(spans[r]) \in Nat /\ Request(r)
    BY Sequences DEF Request
  <2>2. n = 2
    BY <2>1 DEF GoodSpan, KindsAt
  <2> QED
    BY <2>1, <2>2 DEF GoodSpan, Request, Review
<1> QED
  BY <1>1, TracingInvariant, PTL

(* No span is left open but those a panic went through (tracing.go:46-70). *)
THEOREM NoSpanLeft == Spec => []SpansClosed
<1>1. TracingInv => SpansClosed
  <2> SUFFICES ASSUME TracingInv, NEW r \in Requests, NEW n \in DOMAIN spans[r],
                      pc[r] = "done", spans[r][n].state = "recording"
               PROVE  outcome[r] = "panic" /\ spans[r][n].kind \in {"func", "own"}
    BY DEF SpansClosed
  <2>1. GoodSpan(n, spans[r][n]) /\ n \in 1..Len(spans[r]) /\ Len(active[r]) = 0 /\ Request(r)
    BY Sequences DEF Request, Nesting
  <2>2. outcome[r] = "panic" /\ n > 2
    BY <2>1 DEF Request, Recording
  <2> QED
    BY <2>1, <2>2 DEF GoodSpan, KindsAt
<1> QED
  BY <1>1, TracingInvariant, PTL
=============================================================================
