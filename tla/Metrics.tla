------------------------------ MODULE Metrics ------------------------------
(***************************************************************************)
(* The measuring of reviews: measuredWebhook (pkg/webhook/metrics.go)      *)
(* hands what Review returned to the Prometheus recorder in a deferred     *)
(* function, which also runs when the mutator or validator panics.  The    *)
(* recorder (pkg/metrics/prometheus) makes two updates, the duration and   *)
(* then the warnings, and is shared by every review of every webhook that  *)
(* was given it; a scrape may read its registry between them.              *)
(*                                                                         *)
(* The recorders come from Recorder, whose steps go on meanwhile: a scrape *)
(* reads the collectors its registry has then.  Histograms and counters    *)
(* are external: an update of one is atomic.                               *)
(***************************************************************************)
EXTENDS Recorder, FiniteSets

CONSTANTS
  Reviews,      \* the reviews, one goroutine each
  Webhooks,     \* the identifiers of the measured webhooks
  Kind,         \* Kind[w]: the kind of webhook w
  Rec,          \* Rec[w]: the call of NewRecorder that made the recorder of w
  MaxWarnings   \* bound on the warnings of one response

ASSUME MetricsAssumption ==
  /\ IsFiniteSet(Reviews)
  /\ Kind \in [Webhooks -> {"mutating", "validating"}]
  /\ Rec \in [Webhooks -> Recorders]
  /\ MaxWarnings \in Nat

VARIABLES
  webhook,    \* webhook[r]: the webhook that review r is for
  place,      \* place[r]: where the review is
  outcome,    \* outcome[r]: what next.Review returned
  durations,  \* durations[n][l]: observations of the histograms of recorder n
  warnings    \* warnings[n][l]: its counter of warnings

measures == <<webhook, place, outcome, durations, warnings>>

-----------------------------------------------------------------------------
(* verdict is Allowed, or that there is a patch (hasMutated).  A panic     *)
(* leaves both named results of Review nil; a custom webhook may return    *)
(* neither an error nor a response, or a response with an error (err).     *)
Response == [type : {"validating", "mutating"}, verdict : BOOLEAN,
             warned : 0..MaxWarnings, err : BOOLEAN]
Failure  == [type : {"error", "panic", "nil"}]
Outcomes == Response \cup Failure

DurationLabels == [id : Webhooks, type : {"validating", "mutating"},
                   success : BOOLEAN, verdict : BOOLEAN]
WarningLabels  == [id : Webhooks, success : BOOLEAN]

RecOf(r)    == Rec[webhook[r]]
Measured(r) == outcome[r].type \in {"validating", "mutating"}

DurationLabel(r) == [id |-> webhook[r], type |-> outcome[r].type,
                     success |-> ~outcome[r].err, verdict |-> outcome[r].verdict]
WarningLabel(r)  == [id |-> webhook[r], success |-> ~outcome[r].err]

MetricsInit ==
  /\ Init
  /\ webhook \in [Reviews -> Webhooks]
  /\ place = [r \in Reviews |-> "review"]
  /\ outcome = [r \in Reviews |-> [type |-> "none"]]
  /\ durations = [n \in Recorders |-> [l \in DurationLabels |-> 0]]
  /\ warnings = [n \in Recorders |-> [l \in WarningLabels |-> 0]]

(* next.Review returns or panics.  The webhook was made with a recorder,   *)
(* so NewRecorder had returned it.                                         *)
Review(r) ==
  /\ pc[RecOf(r)] = "ready"
  /\ place[r] = "review"
  /\ place' = [place EXCEPT ![r] = "measure"]
  /\ \E o \in Outcomes :
       /\ o.type \in {"validating", "mutating"} => o.type = Kind[webhook[r]]
       /\ outcome' = [outcome EXCEPT ![r] = o]
  /\ UNCHANGED <<webhook, durations, warnings>>

(* A response of no known type is not measured, and nor is an error that   *)
(* comes with no response.                                                 *)
SkipMeasure(r) ==
  /\ place[r] = "measure"
  /\ ~Measured(r)
  /\ place' = [place EXCEPT ![r] = "done"]
  /\ UNCHANGED <<webhook, outcome, durations, warnings>>

(* Observe on the histogram of the kind of webhook.                        *)
MeasureDuration(r) ==
  /\ place[r] = "measure"
  /\ Measured(r)
  /\ place' = [place EXCEPT ![r] = "warn"]
  /\ durations' = [durations EXCEPT ![RecOf(r)][DurationLabel(r)] = @ + 1]
  /\ UNCHANGED <<webhook, outcome, warnings>>

(* A bug: one for each response that has warnings.                         *)
MeasureWarned(r) ==
  /\ place[r] = "warn"
  /\ place' = [place EXCEPT ![r] = "done"]
  /\ warnings' = [warnings EXCEPT ![RecOf(r)][WarningLabel(r)] =
                    @ + IF outcome[r].warned > 0 THEN 1 ELSE 0]
  /\ UNCHANGED <<webhook, outcome, durations>>

(* Add on the counter of warnings.                                         *)
MeasureWarnings(r) ==
  /\ place[r] = "warn"
  /\ place' = [place EXCEPT ![r] = "done"]
  /\ warnings' = [warnings EXCEPT ![RecOf(r)][WarningLabel(r)] = @ + outcome[r].warned]
  /\ UNCHANGED <<webhook, outcome, durations>>

Step(r) == Review(r) \/ SkipMeasure(r) \/ MeasureDuration(r) \/ MeasureWarnings(r)

(* A webhook whose recorder was not returned has no reviews.               *)
AllDone ==
  /\ Done
  /\ \A r \in Reviews : place[r] = "done" \/ pc[RecOf(r)] = "panicked"
  /\ UNCHANGED measures

MetricsNext ==
  \/ UNCHANGED measures /\ ((\E n \in Recorders : RecorderStep(n))
                              \/ (\E g \in Registries : UserRegisters(g)))
  \/ UNCHANGED vars /\ \E r \in Reviews : Step(r)
  \/ AllDone

MetricsSpec == MetricsInit /\ [][MetricsNext]_<<vars, measures>>

-----------------------------------------------------------------------------
(* Properties.                                                             *)

(* What a scrape of the registry of webhook w finds under a name: the      *)
(* collector of a recorder, or none of the library's.                      *)
Owner(w, name) == registry[Target(Rec[w])][name]

Durations(l) ==
  LET n == Owner(l.id, IF l.type = "validating" THEN "validating_duration"
                                                ELSE "mutating_duration")
  IN  IF n \in Recorders THEN durations[n][l] ELSE 0
WarningsOf(l) ==
  LET n == Owner(l.id, "warnings")
  IN  IF n \in Recorders THEN warnings[n][l] ELSE 0

(* The reviews that the histograms should have under l, and the warnings,  *)
(* one by one, that the counter should have under l.                       *)
ObservedAs(l) ==
  {r \in Reviews : /\ place[r] \in {"warn", "done"} /\ Measured(r)
                   /\ webhook[r] = l.id
                   /\ outcome[r].err = ~l.success
                   /\ outcome[r].type = l.type
                   /\ outcome[r].verdict = l.verdict}
WarnedAs(l) ==
  {w \in Reviews \X (1..MaxWarnings) :
     /\ place[w[1]] = "done" /\ Measured(w[1])
     /\ webhook[w[1]] = l.id
     /\ outcome[w[1]].err = ~l.success
     /\ w[2] <= outcome[w[1]].warned}

(* What a scrape reads, at any time, with any reviews in flight and any    *)
(* other recorders being registered: under each set of labels every        *)
(* response of those labels is counted once and no other is, and so is     *)
(* every warning, once its review is past its second update                *)
(* (prometheus.go:75-136, metrics.go:75-114).                              *)
ScrapeConsistent ==
  /\ \A l \in DurationLabels : Durations(l) = Cardinality(ObservedAs(l))
  /\ \A l \in WarningLabels : WarningsOf(l) = Cardinality(WarnedAs(l))

(* Readme.md:26, "Webhook metrics (RED)": the errors are measured, under   *)
(* the label success (prometheus.go:56, 64).                               *)
ErrorsMeasured ==
  \A r \in Reviews :
    place[r] = "done" /\ outcome[r].type = "error" =>
      \E l \in DurationLabels : l.id = webhook[r] /\ ~l.success /\ Durations(l) > 0
=============================================================================
