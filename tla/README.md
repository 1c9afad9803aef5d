# Kubewebhook: specifications and proofs

[Kubewebhook](https://github.com/slok/kubewebhook) is a Go library for Kubernetes
admission webhooks. This directory holds TLA+ modules that model its core, the TLC
configurations that check them on small instances, and theorems about them that the
TLA+ proof system (TLAPS) checks for every instance. Paths below are relative to the
repository (`src/`); `PROJECT.json` maps every definition to the lines it models.

## 1. The system

An API server sends one `AdmissionReview` in an HTTP request. `pkg/http` reads and
decodes it, `pkg/model` turns either version of the API into one internal review, a
webhook (`pkg/webhook/mutating`, `pkg/webhook/validating`, or one of the user's own)
reviews it with the user's mutators or validators, and the handler maps the response or
the error back to JSON of the version it received. Around `Review` there may be
decorators that trace and measure it.

```
 API server --HTTP--> handler.ServeHTTP -> NewAdmissionReviewV1[Beta1]
                        |  Review            (tracedWebhook, measuredWebhook around it)
                        v
                      mutatingWebhook / validatingWebhook
                        |  NewObject (static or dynamic creator)
                        v
                      Chain.Mutate / chain.Validate  -> user's mutators, validators, chains
```

net/http runs one goroutine per request. The goroutines share the webhook and its
chains, which do not change after they are built, the registry of the metrics, the map of
the server's base context, and the results or objects the user's code shares between
calls. There is no lock, no goroutine and no timer in the library: time enters as the
context of the request, which is done when its client goes away or its deadline passes.
Goroutines, signals and a grace period are found in the example program with several
webhooks.

### Inventory

| Component | State | Operations | What is hard | What makes it correct |
|---|---|---|---|---|
| Mutator chain (`mutating/mutator.go`) | per call: index, object, gathered warnings; results through pointers | `Mutate` | nested chains; the context between the check and the call; a `*MutatorResult` that may be shared, written when it stops the chain; nil objects and nil results | order, object and warnings are those of the flat sequence; at most one late call; no review changes the object or the stop of a shared result |
| Validator chain (`validating/validator.go`) | per call: index, warnings; results through pointers | `Validate` | the same, denials that must end every enclosing chain, and a denial that several reviews write to at once | allowed only if all were valid; the denial that is answered is the review's own; nothing runs after it |
| Webhooks (`mutating/webhook.go`, `validating/webhook.go`) | none | `Review`, defaults | deletions have only the old object; the patch starts from the raw document and leads to one that a Go type wrote | the object under review is the right one; the patch applies and stores what the mutator meant |
| HTTP handler (`http/handler.go`) | none between requests | `ServeHTTP`, `HandlerFor` | the body limit; errors that must not look like decisions; writes that fail half way | the API server receives the decision for its review, or none |
| Review model (`model/`) | none | conversions | requested kind and original kind, unknown operations | `Admission` is their translation |
| Object creators (`webhook/internal/helpers`) | none | `NewObject` | three decoders and their fallbacks; what they do to the fields | an object or an error; no field the user did not change is changed |
| Decorators (`webhook/tracing.go`, `webhook/metrics.go`) | span in the context | `Review` | deferred functions on returns, errors and panics | the span is closed and describes the review, the review is measured once |
| Prometheus recorder (`metrics/prometheus`) | the registry | two measuring operations, `NewRecorder` | two updates, concurrent scrapes; a registration that stops half way | what a scrape reads is consistent; a recorder that is returned owns its collectors |
| OpenTelemetry tracer (`tracing/otel`) | values of a tracer; the span of a context | `WithValues`, spans, events, HTTP wrapper, `TraceFunc` | spans that do not record; tracers derived from one another | values and ends reach the span they are meant for |
| Logging (`log/`) | values in a context, fields of a logger | `CtxWithValues`, `SetValuesOnCtx`, `WithCtxValues` | a map shared by contexts and goroutines | a map a context holds is never written; a line is about its own request |
| Multiwebhook program (`examples/multiwebhook`) | goroutines, channels | start, failure, signal, grace period, exit | two servers, an unbuffered channel, signals at any time | it ends when it must, with the right exit code |
| Other examples, mocks, integration tests | | | | not part of the library's logic |

`PROJECT.json` lists, under `hazards`, the lines of this code whose failures a unit test
would hardly reach, each with the properties that would catch it.

## 2. The modules

| Module | Models | Relation |
|---|---|---|
| `MutatorChain` | `Chain.Mutate`, nested, concurrent requests | implements `MutationReview` |
| `MutationReview` | what a review by mutators promises, without chains | abstract |
| `ValidatorChain` | `chain.Validate`, nested, concurrent reviews | implements `ValidationReview` |
| `ValidationReview` | what a review by validators promises, without chains | abstract |
| `Admission` | the data: wire review, internal review, object creators | used by `Handler` |
| `Handler` | `ServeHTTP` and the `Review` of both webhooks, one request | implements `AdmissionService` |
| `AdmissionService` | what the API server may rely on | abstract |
| `ObjectPatch` | the object of a mutating webhook, its mutation and its patch, call after call | |
| `Recorder` | `NewRecorder`: registration on shared registries | |
| `Metrics` | the measuring decorator and the recorder's updates, concurrent reviews | composes `Recorder`, implements it |
| `Tracing` | the tracing decorator, the tracer, the spans of a request | |
| `Logging` | loggers, contexts and the maps of values they share | |
| `MultiWebhook` | the process of `examples/multiwebhook`, from start to exit | |
| `MCMutatorChain`, `MCValidatorChain`, `MCHandler`, `MCObjectPatch`, `MCMetrics`, `MCRecorder`, `MCTracing`, `MCLogging`, `MCMultiWebhook` | instances for TLC | each extends the module it is named after |
| `MutatorChainProofs`, `ValidatorChainProofs`, `HandlerProofs`, `ObjectPatchProofs`, `MetricsProofs`, `TracingProofs`, `LoggingProofs`, `MultiWebhookProofs` | theorems | each extends the module it is named after; `MetricsProofs` is about `Recorder` too, which `Metrics` extends |

The modules meet at narrow places. The chains are what `Handler` has as one
nondeterministic step of its webhook: a failure, a panic, or any response.
`MutationReview` and `ValidationReview` say which of these a chain can make, and
`AdmissionService` what becomes of them. `ObjectPatch` refines the patch that `Handler`
names. `Metrics` extends `Recorder`: its reviews are measured by recorders that are being
registered meanwhile. `Metrics` and `Tracing` wrap the same `Review` but share no state, so
each is a module of its own. `Logging` and `Tracing` both begin at `HandlerFor`.

A few definitions in the modules are marked "A bug": each is what a plausible slip in
that code would be. They are not part of any specification. `PROJECT.json` lists them
under `mutants`, each with the definition it replaces and the property that finds it.

### MutatorChain

A request is a Go call stack with one `Frame` per active `Mutate` of a `Chain`: its
`chain`, the loop index `i`, the variables `obj` and `warnings`. `pc` says where the
goroutine is:

| `pc` | in the code | actions from there |
|---|---|---|
| `idle` | before `mutating/webhook.go:116` | `Start` |
| `select` | `mutator.go:66-67`, at the top of the loop | `LoopEnd` (93-96), `ContextDone` (68-69), `Proceed` (70) |
| `call` | between the `select` and the call at line 71 | `CallMutator`, `CallChain` |
| `mutator` | inside the user's `Mutate` | `MutatorFails`, `MutatorReturns`, `MutatorPanics` |
| `returned` | after the call, lines 72-89 | `Fail` (72-78), `Stop` (81-87), `Continue` (81-84) |
| `writeLen`, `writeData` | in the middle of line 87 | `StopReturn` (87-88) |
| `forge` | the root chain has returned (`mutating/webhook.go:117-130`) | `Forge` |
| `done` | the review has its answer, or a mutator panicked | |

`Cancel` makes the context done, at any moment. The step from `select` to `call` is apart
from the call itself because the context may become done in between.

Results are pointers. `heap` maps each to its content. A mutator may have a prepared
result (`Prepared`), such as a stop with nothing to mutate in a package variable, beside the
fresh ones it makes; a request holds one fresh result at a time, in the cell named after it.
Nothing in the interface says who owns a result, so a prepared one may stop chains, and then
every chain on the way up writes the gathered warnings into it (line 87) while other reviews
do the same or read it. An assignment of a slice is not atomic: `Stop` writes one of the two
words the model keeps of the slice header, the data or the length, in either order,
`StopReturn` writes the other and returns, and `Slice` is what a reader sees, `Torn` in the
places where length and data do not fit. `Forge` is the webhook reading the result through
its pointer (`mutating/webhook.go:125-152`), some time after the root chain returned it.

The object and the stop survive all this: `SharedObjectsUntouched`, `ObjectThreaded` and the
refinement say so. The warnings do not: those of an answer made from a prepared result may
be another review's, or torn. `WarningsKept` therefore speaks of the answers that are made
from a fresh result; no doc of the repository says that results may be shared, so this is a
limit of the property and not a finding. Objects are pointers that may be changed in place,
so only their identity is kept; the type of objects (a pod must stay a pod, `mutator.go:29`)
is the user's affair and not checked by the code.

`Elements` gives each chain its elements. `Leaves` gives the mutators below each, from
left to right; `FlattensTo` ties the two, without recursion, by requiring that the leaves
of a chain cut into the leaves of its elements. `hist` is a history variable: the calls
made, the object and the warnings the mutators have produced, and the late calls.

`MutationReview` is the promise: one sequence of mutators, no frames, no pointers, no
warnings. `Review == INSTANCE MutationReview WITH ...` maps a request whose mutator has just
ended everything to "answered" at once, with the stop and the object read through the
pointer: unwinding the frames is stuttering, and no other review may change what they are
before `Forge` reads them.

### ValidatorChain

The same structure with verdicts: a result that is not valid ends the chain as a stop
does (`validator.go:82`), and is written to in the same way (line 83). A prepared result may
be a denial in a package variable. `Forge` is the webhook reading the result through its
pointer (`validating/webhook.go:103-121`), some time after the root chain returned it.

The verdict and the message survive all this, which is what `AllowedOnlyIfAllValid`,
`DenialKept` and the refinement say. The first of them is about what has run as much as about
what was said: an object is allowed only after all the validators of the webhook, in order,
or as many as ran until a valid result stopped the chain. The warnings do not survive, and
`WarningsKept` speaks of the same answers as that of mutators.

`Leaves` and `FlattensTo` are those of `MutatorChain`, and `hist` is a history variable here
too: the validators called, the results they gave and the warnings among them.

`Review == INSTANCE ValidationReview WITH ...` maps a review to "answered" at the step in
which a validator ends it, with the verdict and the message read through the pointer: no
other review may change what they are before `Forge` reads them.

### Admission and Handler

`Handler` takes one request through `ServeHTTP`, with `pc` at the step it is at: `read`
(lines 100-115), `decode` (117-122), `review` and `hook` (the webhook: object creation,
then the mutator or validator), `map` (148-182, 194), `header` (160), `write`
(161, 185, 197), `failed` (162, 186, 198), `done`. The mutator or validator, a chain or
not, is one nondeterministic step: it fails, panics, or returns any response. A custom
webhook (`HandlerConfig.Webhook` is an interface) may return anything, another
review's identifier and a nil pointer to a response included. The response writer is
external: the first `WriteHeader` or `Write` fixes the status, a later one changes nothing, a
`Write` may fail, that of the text of a 400 too. `Panics` is every panic of the request, which
net/http ends: of the user's code, over a review that carries no request
(`model/review.go:59`, `121`) and over a nil response (`handler.go:240`, `292`).

Sizes count bytes around `MaxBytes`; `BytesRead` and `TooLarge` are the arithmetic of
`configReader`. Raw objects are names with a table of what each decoder of apimachinery
makes of them. A patch is the pair of the raw document it starts from and the document it
leads to.

`AdmissionService` is what the API server relies on: the decision is taken once, the
status follows from it before anything of the body, and what is received is that
decision, for the version and identifier that were sent, or nothing usable.

### ObjectPatch

`Handler` says which object is reviewed and that the patch starts from its raw document;
`ObjectPatch` says what is in them. An object has fields, one of each class a Go type
makes of a field: `unknown` to the type (it may be of an older API), `omitted` when it is
zero, `always` marshalled, and `pointer`, which tells zero from absent. A field of the JSON
may also be null, which a Go type does not tell from absent and an Unstructured does.
`Decode` is `NewObject` with the deserializers of apimachinery (no defaults), `Encode` is
`json.Marshal`, `CreatePatch` the diff of `webhook.go:136`. The mutator works on the
object it was given or on a deep copy, or on both, and returns either or nil; the webhook
takes the object from that (125-130). The API server applies the patch (`Apply`), others
edit the object (`Edit`), and any webhook may be called next, the same one included, as
the API server's reinvocation does. `StoredIsMeant` and `OthersUntouched` relate what is
stored to what the mutator meant and to what it left alone. The second compares the stored
document with the one that was sent, field by field, and not what a decoder makes of them:
a default that is written into an absent field breaks it. `Settles` says a call that
changes nothing, on an object left by a webhook of the same kind, has no patch.

### Metrics and Recorder

`Recorder`: calls of `NewRecorder` register three collectors one by one; `Collide` is the
panic of `MustRegister` at a name that is taken, which leaves the earlier ones behind. The
application may register and unregister collectors of its own under the same names
(`UserNames`); the registry remembers the labels of a name that was taken back, so one of
the user's with other labels than the library's keeps the name for good. `ReadyOwnsAll` says
that a recorder that was returned owns its three names from then on, `SomeoneWins` that of
the calls for a registry nobody else uses one succeeds, which rests on all of them
registering in the same order.

`Metrics`: `Rec` gives each webhook the call of `NewRecorder` that made its recorder, which
several webhooks may share, and no review of it begins before that call has returned. Each
review returns, fails or panics, and the deferred function of `measuredWebhook` measures it
in two updates of the recorder's own collectors, the duration and then the warnings
(`MeasureDuration`, `MeasureWarnings`), or not at all (`SkipMeasure`, the branch of unknown
types, which errors that come without a response take too). A custom webhook may return a
response together with an error; that one is measured, as a failure. A scrape is any state:
it reads, under each name, the collector that has the name in the webhook's registry then
(`Owner`). `ScrapeConsistent` says that under every set of labels it finds the number of
reviews of these labels that have made the update, and the warnings of those, each once.
That holds because a recorder that was returned has all three names of its registry, and
keeps them.

### Tracing

Every handler derives its tracer from the user's (`HandlerFor`), at any time and while
requests of other handlers run. A request opens an HTTP span, a review span and, in the
user's code, spans of `TraceFunc` or of its own, nested up to `MaxSpans`; `active` is the
stack of spans of the contexts in use. The sampler may drop any of them, and then
`SpanFromContext` finds nothing: what is meant for a dropped span must not land on the
span around it, nor end that one. `ReviewReturns` and `EndReview` are the return and the
deferred function of `tracedWebhook`; a panic skips what is not deferred. Of the values
of a span their origin is kept: the user's tracer, the handler's, the review's request,
the kind of its response, events of the user's code.

### Logging

Maps are cells of `heap`. `CtxWithValues` makes a new one, copies the parent's map key by
key (`Copy`), adds its own values (`Add`) and only then puts it on a context (`Attach`),
so that it can be reached. The contexts of all requests derive from the server's base
context, whose map they share. `Configure` derives the logger of a webhook from the
user's while requests of other webhooks are served; `Log` is the line of a webhook, its
logger's fields under the values of its context. A handler without a logger derives no
context (`noop.SetValuesOnCtx`).

### MultiWebhook

The main goroutine with its `select` on the channel of errors (no buffer) and the channel
of signals (one place), the goroutines of the two servers, and the requests in flight. A
signal before `Notify` kills the process; a server that fails when nobody receives waits;
`stop` closes a channel nobody reads and sleeps, during which requests are served, and
accepted, as before; the exit cuts off what is not answered.

## 3. The runs

| Run | Instance | What it shows | Distinct states |
|---|---|---|---|
| `mutator_chain` | two requests; root = a, inner, c; inner = s, empty, a; a stops or goes on with and without an object, s may stop with a prepared result, c goes on with one, and all may fail or panic | warnings and objects survive nesting, one late call, no object or stop of a shared result changes, `MutationReview` is implemented, every request is answered | 345,976 |
| `mutator_stop_drops_object` | one request; root = a, b | finding 1 | violation |
| `validator_chain` | two reviews; root = b, inner, a; inner = s, empty, a; s may deny with a prepared result, a allows with one | verdicts, messages and warnings through nesting and sharing, `ValidationReview` is implemented, every review is answered | 240,499 |
| `handler` | one request; both versions, every operation and one unknown to the library, bodies of 0 to 4 bytes with a limit of 2, both creators, reviews without a request, all three kinds of webhook | response table, right object, exact limit, `AdmissionService` is implemented, every request ends | 12,410 |
| `object_patch` | a field of each class, two values and null, a static and a dynamic webhook, two changes a call | patches apply, store what was meant, touch nothing else, settle | 2,784,852 |
| `metrics` | two reviews; a mutating and a validating webhook with one recorder, a third webhook with a recorder for a registry where the user has a collector, a further call for the registry of the first; up to two warnings | scrapes are consistent | 160,800 |
| `errors_not_measured` | the same | finding 2 | violation |
| `recorder` | five calls; three for a registry nobody else uses, two for one where the user has collectors | a returned recorder owns its collectors; one call of the first three succeeds | 8,366 |
| `tracing` | one request, two handlers, four spans | values and ends reach their span, the review's span describes it, spans are closed | 45,752 |
| `webhook_type_swapped` | the same | finding 3 | violation |
| `logging` | two requests, two webhooks, two contexts each, five keys, a base context with values | maps of contexts are fixed, lines are about their own request | 25,112 |
| `multiwebhook` | two requests, two signals | exit codes are explained; the program ends | 2,280 |

Why the bounds are enough to be interesting:

- Chains. Nesting has to be there twice (root, inner, empty) for a frame that is neither
  the outermost nor the innermost, with elements before, inside and after the nested
  chain; the empty chain answers with a result that line 93 alone makes. A mutator that
  occurs twice returns different results each time. Two requests and a shared result make
  the interleavings of a leak, within a request and between requests; when the shared result
  ends chains they make two writers of one result, and a reader beside a writer.
- Body. The sizes are below, at, one above and two above the limit; the reader takes
  limit + 1, so there is a size on each side of it too.
- Objects. Fields do not influence one another, so one of each class is every class, and
  two values with null and absence are what a class tells apart: zero, not zero, nothing
  said, not there. Two
  changes may be of one field (there and back), of two, or of the object and its copy.
- Reviews in `metrics`. Two may be between their two updates at once, for the same or for
  different labels, of one recorder or of two; one may begin while other recorders are at
  any of their collectors, and a webhook whose recorder panicked has none.
- Recorders. Three calls may each be at a different collector of one registry when one of
  them takes the next, and a call may come after one that stopped half way.
- Spans. A request in `tracing` shares nothing with others but the tracers, and these are
  made while it runs; four spans are HTTP, review and two nested ones of the user, so
  that a dropped span may be between two that record.
- Contexts. The second context of a request derives from the first while the other
  request derives from the same base.
- Signals. The second may come while the first waits, is handled, or was lost because a
  server failed first.

### Fairness

No safety property needs it, and no theorem uses it. Liveness properties are checked under
`FairSpec` in `mutator_chain`, `validator_chain`, `handler`, `recorder` and `multiwebhook`:

- `Termination` assumes weak fairness of the steps of each request's goroutine, which the
  Go scheduler gives to a runnable goroutine, and of the user's mutator or validator, which
  "must return an error or a mutation result" (`mutator.go:26-27`, `validator.go:27-28`).
  Nothing is assumed of `Cancel`: a context need never be done.
- `Answered` assumes weak fairness of the handler.
- `SomeoneWins` assumes weak fairness of each call of `NewRecorder`, not of the user.
- `AlwaysEnds` assumes weak fairness of the main goroutine (a sleep ends). No server need
  fail, no signal need come, and no request need be answered.

### Findings

1. `mutator_stop_drops_object`. When a result stops the chain, the code returns that
   result with only its warnings replaced (`mutator.go:86-89`). If its object is nil, the
   object an earlier mutator returned is dropped, and the webhook patches the one it made
   itself (`mutating/webhook.go:125-130`). The comment at `mutator.go:80` says "Don't lose
   the data through the chain", and `mutator.go:17-18` that a nil object stands for the one
   the mutator received.
2. `errors_not_measured`. An error comes with a nil response, which the decorator takes
   for one of unknown type and does not measure (`metrics.go:106`): the series with
   `success="false"` that `prometheus.go:56` and `64` provide for are never written, and
   the metrics are not the rate, errors and duration `Readme.md:26` promises.
3. `webhook_type_swapped`. The span of a validating webhook is labelled `mutating` and the
   other way round (`tracing.go:50` and `58`); the metrics have it right.

## 4. The proofs

What is proved holds for any values of the constants: any requests, mutators, validators,
objects, messages, warnings and any finite nesting of chains; any HTTP requests, raw
objects and webhooks and any limit of the body; any fields of objects and any number of
changes and calls; any calls of `NewRecorder` and registries, and any reviews measured by
them; any handlers and any number
of spans; any depth of contexts; any number of signals.

| Module | Theorem | States | In words |
|---|---|---|---|
| `MutatorChainProofs` | `TypeCorrect` | `Spec => []TypeOK` | the types; no frame holds the nil object |
| | `AtMostOneLateCall` | `Spec => []OneLateCall` | one mutator at most starts after the context is done |
| | `SharedObjectsStay` | `Spec => SharedObjectsUntouched` | no step changes the object or the stop of a shared result, nor anything of one that lets chains go on |
| | `ObjectNeverLost` | `Spec => []ObjectThreaded` | each mutator gets the object the ones before left; a chain that was not stopped has run them all, in order, and returns that object |
| | `NoWarningLost` | `Spec => []WarningsKept` | an answer made from a fresh result has the warnings of its own mutators, all of them, in order |
| | `ChainsAreFlat` | `Spec => ReviewSpec` | nested chains implement the flat sequence of `MutationReview` |
| `ValidatorChainProofs` | `TypeCorrect` | `Spec => []TypeOK` | the types; no review ends with neither an error nor a result |
| | `NothingDeniedIsAllowed` | `Spec => []AllowedOnlyIfAllValid` | allowed only if all validators ran, or a result stopped the chain, and each found the object valid |
| | `DenialIsItsOwn` | `Spec => []DenialKept` | a denial is the last validator's, with its message |
| | `PreparedVerdictsStay` | `Spec => SharedVerdictsUntouched` | no step changes the verdict of a prepared result |
| | `NoWarningLost` | `Spec => []WarningsKept` | an answer made from a fresh result has the warnings of its own validators |
| | `ChainsAreFlat` | `Spec => ReviewSpec` | nested chains implement the flat sequence of `ValidationReview` |
| `HandlerProofs` | `HandlerTypes` | `Spec => []TypeOK` | the types |
| | `ResponsesByTheTable` | `Spec => []ResponseTable` | every answer that arrives is the one the handler's table has |
| | `ReviewsTheRightObject` | `Spec => []RightObject` | the object reviewed, and patched, is the one the operation is about |
| | `BodyLimitIsExact` | `Spec => []BodyLimitExact` | refused for its size exactly above the limit, else decoded whole |
| | `HandlerIsAService` | `Spec => ServiceSpec` | the handler implements `AdmissionService` |
| | `DecisionStands` | `Spec => DecisionKept` | no decision is taken back |
| | `AnswersAreDecisions` | `Spec => []AnswerIsDecision` | what is taken for an answer is the decision, for the review that was sent, under its status |
| `ObjectPatchProofs` | `PatchesApply` | `Spec => []PatchApplies` | the API server can apply every patch |
| | `MeantIsStored` | `Spec => []StoredIsMeant` | what is stored is what the mutator left |
| | `OthersStay` | `Spec => []OthersUntouched` | a field it did not change is stored as it was sent, but for one its type does not have or does not tell from nothing |
| | `Reinvocations` | `Spec => []Settles` | a call again that changes nothing has no patch |
| `MetricsProofs` | `RecorderTypes` | `Spec => []TypeOK` | the types; a call returns when it is past its last collector |
| | `ReturnedRecorderOwns` | `Spec => []ReadyOwnsAll` | a returned recorder owns its collectors for good |
| | `OneRecorderEach` | `Spec => []OneReturned` | no two recorders of one registry are returned |
| | `SomeoneIsLeft` | `Spec => []SomeoneLeft` | of the calls for a registry nobody else uses, not all panic |
| | `MetricsStayTyped` | `MetricsSpec => []MetricsTypes` | the types; only responses are measured, and by a returned recorder |
| | `ScrapesAreConsistent` | `MetricsSpec => []ScrapeConsistent` | every response and warning measured is found once under its labels, and no other |
| `TracingProofs` | `TracingTypes` | `Spec => []TypeOK` | the types |
| | `DerivedTracersApart` | `Spec => []TracersApart` | tracers derived from one tracer share no values |
| | `EachValueInPlace` | `Spec => []ValuesInPlace` | no value is on a span it is not about |
| | `ContextsOpen` | `Spec => []OpenWhileActive` | no call runs in a span that has ended |
| | `ReviewsDescribed` | `Spec => []ReviewDescribed` | a review's span says what it was and what became of it |
| | `NoSpanLeft` | `Spec => []SpansClosed` | no span is left open but the user's own after a panic |
| `LoggingProofs` | `LoggingTypes` | `Spec => []TypeOK` | the types |
| | `AttachedMapsStay` | `Spec => AttachedMapsFixed` | no map a context holds is written |
| | `EachLineItsOwn` | `Spec => []LinesAreTheirOwn` | a line says what is known of its own request |
| `MultiWebhookProofs` | `ExitCodeExplained` | `Spec => []ExitExplained` | the exit code is that of what was heard first |
| | `FirstCauseStands` | `Spec => FirstCauseOnly` | the error of one server at most is received, and the cause stays |

### Assumptions

TLC evaluates every one of them in every run of the module.

- Chains: `ChainAssumption` (the constants are of their types, a chain is neither a mutator
  nor a validator) and, for shared results, `PreparedAssumption` (a prepared result is one its
  mutator or validator may return; nothing is said of whether it ends chains).
  `LeavesAssumption` says that `Leaves` cuts, chain by chain, into the leaves of the
  elements; the theorems that speak of `Leaves` use it (`ChainsAreFlat`, `ObjectNeverLost`,
  `NothingDeniedIsAllowed`). As sequences are finite, no chain with leaves
  beside it can contain itself, which a Go program could not return from either.
- `HandlerAssumption`: the limit is positive, requests and webhooks are of their types, a
  body that decodes to a review is not empty. `RawAssumption` and `NameAssumption` of
  `Admission`: no decoder takes what is not there, and an absent name is no name.
- `ObjectPatchAssumption`: every field has a class and every webhook a type, zero is a value,
  null is none, and nil is neither a value nor null nor a pointer.
- `RecorderAssumption`: the constants are of their types, `None` and `User` are no recorders.
- `MetricsAssumption`: there are finitely many reviews, a webhook has a kind and a recorder
  that a call of `NewRecorder` makes.
- `TracingAssumption`: the user's tracer is no handler, and what the user gave it are not
  values that the library sets (a user who did could not tell them apart either).
- `LoggingAssumption`: the maps are maps, a hook's name is a value that can be logged, the
  user's logger is no hook, and a request derives at least one context.

### Arguments

None of the properties is inductive as it stands. For mutators:

- `TypeInv` is `TypeOK` with `Control`: what `pc` says of the stack (empty at rest, never
  empty at work, the index within the chain when an element is about to be or is being
  called) and of the result just returned. `TypeOK` alone does not exclude `Last(<<>>)`. The
  facts about stacks that the steps need are in `StackOperations` and `FrameStacks`; the
  five ways to return from a chain share `ReturnTypeInv`.
- `Late` strengthens `OneLateCall`: a request with a late call has a context that is done
  and is not about to call. `Proceed` needs a context that is not done, so it cannot lead
  there again; that contexts stay done is the reason the bound holds across chains.
- `Prepares` says that a prepared cell keeps the ruling it was made with, its stop and its
  object, and everything of it if it lets chains go on. It is kept because a review that is
  writing warnings writes to a result that stops chains (`Writes`), and warnings are no part
  of a ruling (`HeapStep`, `EveryHeapStep`).
- `Threaded` says where the object the mutators left is at each `pc`: in the innermost
  frame, or in the result that frame is about to take in. Other requests do not disturb it
  because they change no ruling (`HeapStep`, `OnlyOwnState`).
- `Kept` does the same for warnings, in the results nobody else writes (`Owned`: the
  request's own cell, or a result that lets chains go on). Between the two words of a header
  it says which one is written, so that the slice is whole after the other (`SliceWhole`).
  The warnings are spread over all frames: `Total(s, ws, all)`
  says that the warnings of the frames of `s` below the innermost, joined from the outside
  in, followed by `ws`, are `all`. The joining is a witness (`Before`) rather than a
  recursive definition, and pushing, returning and adding to a frame each change it at its
  end only.
- `Placed` ties the calls made to the place in the nesting, without recursion. `Cut(c)` is
  the cut of `Leaves[c]` into the leaves of the elements of `c`; `Located` says that the
  leaves of a frame's chain are found in `Leaves[Root]` from some place on, `Behind` gives
  that place for each frame of a stack from the one of the frame around it, and `Reached`
  says that the innermost frame is as many calls on as its cut has at its index. Hence the
  next mutator is the next leaf of `Root` (`NextLeaf`), and when the loop of the root chain
  ends, all its leaves have been called (`RootEnds`).
- `RunInv`, for `ObjectNeverLost`, puts the two together: the calls made are the first
  leaves of `Root`, and all of them once the root chain has returned a result that did not
  stop it.
- The refinement reads phase and verdict of the abstract review off these: `PhaseIs` and
  `VerdictIs` are its definitions place by place; a step that does not change what they
  give is unnoticed (`Unnoticed`), and other requests notice nothing of it
  (`OthersUnseen`). A step that does is one of the abstract actions, with the mutator called
  from `Placed`, and the object it is given from `Threaded`. The verdict is read through the
  pointer, and does not change while the frames unwind, when the request itself writes to
  the result (`WritingKeepsRuling`) and when others do.

And for validators:

- `TypeInv` and `Prepares` as above; a ruling is the stop, the validity and the message. A
  slice read from a cell is a sequence of warnings and `Torn`, whatever words it is made of
  (`SliceType`).
- `Told` follows what the validators said on its way: while a chain goes on nobody has
  objected (`Passing`); a result that is being returned either has nothing against the
  object or is the ruling of the last validator, before which nobody objected (`Tells`);
  and the answer is that ruling. `OthersTold` carries it over the steps of other reviews,
  which change neither the results gathered so far nor any ruling; `ResultTold`,
  `ChainTold` and `QuietTold` over the review's own.
- `RunInv`, for `NothingDeniedIsAllowed`, says that the calls made are the first leaves of
  `Root`, that every validator called has given a result but the one that is running, and
  that there is no leaf left once the root chain has ended and nothing that was said was
  decisive. Whatever was said being valid alone would leave room for a chain that skips a
  validator.
- `Kept`, `Late` and `Placed` are those of mutators. The refinement needs no more of the heap than
  its rulings: the abstract verdict is read through the pointer, and `Prepares` and
  `HeapStep` say that no other review changes it before `Forge`.

The handler: `HandlerInv` adds to `TypeOK` what is known at each `pc` of the internal
review (`ReviewPart`), of the object and the outcome made with it (`ObjectPart`), of the
reply and the status line (`ReplyPart`), and of what the client has (`SentPart`), which
names the ways a request may end. The properties are read off it. In the
refinement `DecisionIs` and `ReceivedIs` are the two values of the mapping that depend on
more than one variable, case by case; the decision is taken at the step that makes the
reply, and the conditions of the abstract answer are those of `SentPart`.

The patch: `PatchInv` says that the document of a typed webhook's last patch is one its Go
type marshals to (`Marshalled`), that every object the mutator can reach is one of the Go
type and, apart from the changed fields, the one that was sent (`CellOf`), and that the
patch is the one to what the mutator means. `PatchLeadsThere` says that a patch applies
where it was made and leads to what it was made for, `ThereAndBack` what has become of a field
that went through its type and back, `EncodeDecode` that a type which
has marshalled a document marshals it to the same again; the latter is why calls settle,
and it fails for a document of any other origin. `Types` is the type invariant, which no
run checks on its own.

Tracing: `Request(r)` says of each span, by its position alone, which values it may have
(`GoodSpan`); that the contexts in use are a rising sequence of spans that begins with
those of the wrapper and the review (`Nesting`); that a span that records is one of these,
or one that a panic went through (`Recording`); and that the review's span says nothing of
the response while it records and the outcome once it has ended (`Review`). A dropped span
keeps its position, which is why the values meant for it need a place in the invariant.

Logging: `LoggingInv` says that the maps of the contexts of a request are the base map and
those it made before the one it is making (`Older`), so the only map that is written is on
no context of any request (`NewIsNotAttached`). `LineInv` adds what the map of the
handler's context has in it while it is filled (`Filled`): the base map but for the keys
still to copy, then that map under the review's values but for the keys still to add. A map
is complete when it is attached, and a line is made of the first map its request made and
of a logger that has the hook's name alone (`Shared`).

Recorders and metrics. `RecInv` says that a call owns every name it is past, returned or not
(`Through`); a registration only takes a name that nobody has, and the application only
takes back its own. That one call is left (`SomeoneIsLeft`) needs `WinInv`: who has a name of
a registry nobody else uses is past it (`OwnersPast`), and a call that panicked did so because
another has the first name and has not panicked (`FirstWins`); as all calls register in
the same order, the owner of the first name never meets another. A step
of `Metrics` is one of `Recorder` or leaves it as it is (`MeasuringKeepsRecorders`, a lemma),
so `RecInv` holds there.
`Counted` says of each recorder and set of labels that its count is the cardinality of
the reviews of the recorder's webhooks that have made the update; an update adds one review
to the set of one label, or as many pairs of a review and a number as it had warnings
(`FS_AddElement`, `FS_Union`, `FS_Product`), and leaves every other set as it was. The
scrape finds the recorder's own collectors because of `RecInv`. No sum is taken, so no fold
or induction is needed.

The program. `CauseInv` ties what made `Run` return to the place of the main goroutine, the
errors it has received and the exit; that it stays follows from the place alone.

### Only model-checked

- Liveness (`Termination`, `Answered`, `SomeoneWins`, `AlwaysEnds`), which is out of this
  prover's reach. The theorems about refinements are of the safety specifications. Of
  `SomeoneWins`, the safety half is proved: not all calls panic (`SomeoneIsLeft`).
- The three properties that the code violates.

No module declares a recursive operator. `FlattensTo`, `Before` and `Behind` take the place
of recursive definitions: each asks for a sequence of partial results, of which every one
follows from the one before.

## 5. What is not modelled

- External: `encoding/json`, the decoders of apimachinery and `gomodules.xyz/jsonpatch`,
  net/http, the OpenTelemetry SDK, the Prometheus registry, logrus. They are modelled by
  what the code relies on, and marked so in `PROJECT.json`.
- Fields nested in fields, and lists: a field of `ObjectPatch` is a leaf.
- The checks that refuse a configuration (`WebhookConfig.defaults`, `HandlerFor`), which
  return an error before anything is shared.
- Of the tracer, `TraceHTTPClient` and `TraceID`, which the library does not call, and the
  conversion of values to attributes, which has one case per Go type and no state.
- User information and the original API object of a review, which are copied and decide
  nothing.
- Behaviour that the models show and no property forbids, because no doc says otherwise:
  a panic in `TraceFunc` leaves its span open; a span of a panicking review has status Ok;
  new requests are accepted in the grace period; a review without a request makes
  the handler panic; a field the Go type does not know is
  removed by the patch of a static webhook; the warnings of a prepared result that ends
  chains may be another review's.
- The other example programs. `pod-annotate-metrics` has two servers whose goroutines
  assign one captured `err` and no shutdown; `pod-annotate-tracing` shuts its tracer down
  when it returns. The rest set up one webhook and serve it.
- Mocks (generated), the integration tests (they need a cluster).

## 6. The plan

Every safety property the runs check is proved; what is left is breadth: the programs with
two servers and with a tracer that is shut down, in the manner of `MultiWebhook`; objects
with nested fields in `ObjectPatch`; several requests through one handler with the chains in
place of its one-step webhook, where the theorems `ChainsAreFlat` and `HandlerIsAService`
meet.

Each new module keeps to the form of the present ones: constants with named assumptions,
one action per operation, invariants as conjunctions of named parts, abstract modules for
what a component promises.
