------------------------------ MODULE Logging ------------------------------
(***************************************************************************)
(* The values that log lines carry (pkg/log, pkg/log/logrus): loggers that *)
(* derive from one logger of the user as handlers and webhooks are         *)
(* configured, and contexts that derive from one another, each with a map  *)
(* of values.  The contexts of all requests derive from the base context   *)
(* of the server, whose map they share: CtxWithValues makes a map of its   *)
(* own and fills it key by key, while other requests do the same.  The     *)
(* handler derives a context with the values of the review; the user's     *)
(* mutator or validator may derive another one.                            *)
(*                                                                         *)
(* Maps are cells of heap; a goroutine that writes one which another can   *)
(* reach is a data race that stops a Go program.  WithFields of a logrus   *)
(* entry is external: it returns a copy.                                   *)
(***************************************************************************)
EXTENDS Naturals, Sequences, SequencesExt

CONSTANTS
  Requests,   \* the requests, one goroutine each
  Hooks,      \* the webhooks, each with its handler
  Keys,       \* the keys of log values
  Values,     \* the values
  Absent,     \* what a map has for a key that is not in it
  Base,       \* the map of the base context
  Depth,      \* bound on the contexts a request derives
  Own(_, _, _)  \* Own(r, h, n): the values for the n-th context of r at hook h

Map == [Keys -> Values \cup {Absent}]
Empty == [k \in Keys |-> Absent]
Overlay(map, over) == [k \in Keys |-> IF over[k] = Absent THEN map[k] ELSE over[k]]
KeysOf(map) == {k \in Keys : map[k] # Absent}

ASSUME LoggingAssumption ==
  /\ Absent \notin Values /\ Hooks \subseteq Values
  /\ "hook" \in Keys /\ "user" \notin Hooks
  /\ Base \in Map /\ Depth \in Nat \ {0}
  /\ \A r \in Requests, h \in Hooks, n \in 1..(Depth + 1) : Own(r, h, n) \in Map

VARIABLES
  logger,   \* logger[l]: the fields of the user's logger and of the hooks'
  built,    \* the hooks configured so far
  hook,     \* hook[r]: the hook request r is for
  silent,   \* the requests whose handler has no logger
  heap,     \* heap[m]: the content of map m
  ctx,      \* ctx[r]: the maps of the contexts of r, the innermost last
  pc,       \* where the request is
  todo,     \* todo[r]: the keys that remain to be copied or added
  line      \* line[r]: the last line logged during the review of r

vars == <<logger, built, hook, silent, heap, ctx, pc, todo, line>>

-----------------------------------------------------------------------------
Maps == {<<"base">>} \cup (Requests \X (1..Depth))
(* The map CtxWithValues makes for r, and the one of the parent context.   *)
New(r) == <<r, Len(ctx[r])>>
Old(r) == Last(ctx[r])
(* Which context it is: a handler without a logger leaves out the first.   *)
Index(r, n) == IF r \in silent THEN n + 1 ELSE n
Level(r)    == Own(r, hook[r], Index(r, Len(ctx[r])))

Init ==
  /\ logger = [l \in {"user"} \cup Hooks |-> Empty]
  /\ built = {}
  /\ hook \in [Requests -> Hooks]
  /\ silent \in SUBSET Requests
  /\ heap = [m \in Maps |-> IF m = <<"base">> THEN Base ELSE Empty]
  /\ ctx = [r \in Requests |-> <<(<<"base">>)>>]
  /\ pc = [r \in Requests |-> "idle"]
  /\ todo = [r \in Requests |-> {}]
  /\ line = [r \in Requests |-> Empty]

(* NewWebhook: the logger of the webhook says which webhook it is.  The    *)
(* user's logger, which other webhooks are given too, is not changed.      *)
Configure(h) ==
  /\ h \notin built
  /\ built' = built \cup {h}
  /\ logger' = [logger EXCEPT ![h] = [logger["user"] EXCEPT !["hook"] = h]]
  /\ UNCHANGED <<hook, silent, heap, ctx, pc, todo, line>>

(* The request reaches ServeHTTP.  A handler without a logger derives no   *)
(* context (noop.SetValuesOnCtx).                                          *)
Serve(r) ==
  /\ pc[r] = "idle"
  /\ hook[r] \in built
  /\ IF r \in silent
     THEN pc' = [pc EXCEPT ![r] = "review"] /\ UNCHANGED todo
     ELSE pc' = [pc EXCEPT ![r] = "copy"] /\ todo' = [todo EXCEPT ![r] = KeysOf(heap[Old(r)])]
  /\ UNCHANGED <<logger, built, hook, silent, heap, ctx, line>>

(* The user's code calls SetValuesOnCtx.                                   *)
Derive(r) ==
  /\ pc[r] = "review"
  /\ Len(ctx[r]) <= Depth
  /\ pc' = [pc EXCEPT ![r] = "copy"]
  /\ todo' = [todo EXCEPT ![r] = KeysOf(heap[Old(r)])]
  /\ UNCHANGED <<logger, built, hook, silent, heap, ctx, line>>

(* for k, v := range oldValues, in any order.                              *)
Copy(r) ==
  /\ pc[r] = "copy"
  /\ \E k \in todo[r] :
       /\ heap' = [heap EXCEPT ![New(r)][k] = heap[Old(r)][k]]
       /\ todo' = [todo EXCEPT ![r] = @ \ {k}]
  /\ UNCHANGED <<logger, built, hook, silent, ctx, pc, line>>

EndCopy(r) ==
  /\ pc[r] = "copy"
  /\ todo[r] = {}
  /\ pc' = [pc EXCEPT ![r] = "add"]
  /\ todo' = [todo EXCEPT ![r] = KeysOf(Level(r))]
  /\ UNCHANGED <<logger, built, hook, silent, heap, ctx, line>>

(* A bug: the values are added to the map of the parent.                   *)
AddInPlace(r) ==
  /\ pc[r] = "add"
  /\ \E k \in todo[r] :
       /\ heap' = [heap EXCEPT ![New(r)][k] = Level(r)[k], ![Old(r)][k] = Level(r)[k]]
       /\ todo' = [todo EXCEPT ![r] = @ \ {k}]
  /\ UNCHANGED <<logger, built, hook, silent, ctx, pc, line>>

(* for k, v := range kv, in any order.                                     *)
Add(r) ==
  /\ pc[r] = "add"
  /\ \E k \in todo[r] :
       /\ heap' = [heap EXCEPT ![New(r)][k] = Level(r)[k]]
       /\ todo' = [todo EXCEPT ![r] = @ \ {k}]
  /\ UNCHANGED <<logger, built, hook, silent, ctx, pc, line>>

(* A bug: the context is derived first and its map filled afterwards.      *)
AttachFirst(r) ==
  /\ pc[r] = "add"
  /\ ctx' = [ctx EXCEPT ![r] = Append(@, New(r))]
  /\ pc' = [pc EXCEPT ![r] = "review"]
  /\ UNCHANGED <<logger, built, hook, silent, heap, todo, line>>

(* context.WithValue: the new map can be reached from now on.              *)
Attach(r) ==
  /\ pc[r] = "add"
  /\ todo[r] = {}
  /\ ctx' = [ctx EXCEPT ![r] = Append(@, New(r))]
  /\ pc' = [pc EXCEPT ![r] = "review"]
  /\ UNCHANGED <<logger, built, hook, silent, heap, todo, line>>

(* The context Review was given, whatever contexts the user's code made.   *)
Reviewed(r) == ctx[r][IF r \in silent THEN 1 ELSE 2]

(* A bug: the webhook's logger keeps the values of the request.            *)
LogKeeping(r) ==
  /\ pc[r] = "review"
  /\ logger' = [logger EXCEPT ![hook[r]] = Overlay(@, heap[Reviewed(r)])]
  /\ line' = [line EXCEPT ![r] = Overlay(logger[hook[r]], heap[Reviewed(r)])]
  /\ pc' = [pc EXCEPT ![r] = "done"]
  /\ UNCHANGED <<built, hook, silent, heap, ctx, todo>>

(* The webhook's line at the end of the review: the fields of its logger,  *)
(* and over them the values of the context (WithCtxValues).                *)
Log(r) ==
  /\ pc[r] = "review"
  /\ line' = [line EXCEPT ![r] = Overlay(logger[hook[r]], heap[Reviewed(r)])]
  /\ pc' = [pc EXCEPT ![r] = "done"]
  /\ UNCHANGED <<logger, built, hook, silent, heap, ctx, todo>>

Step(r) == Serve(r) \/ Derive(r) \/ Copy(r) \/ EndCopy(r) \/ Add(r) \/ Attach(r) \/ Log(r)

Done == (\A r \in Requests : pc[r] = "done") /\ UNCHANGED vars

Next == (\E h \in Hooks : Configure(h)) \/ (\E r \in Requests : Step(r)) \/ Done

Spec == Init /\ [][Next]_vars

-----------------------------------------------------------------------------
(* Properties.                                                             *)

(* The types of the state.                                                 *)
TypeOK ==
  /\ logger \in [{"user"} \cup Hooks -> Map]
  /\ built \subseteq Hooks
  /\ hook \in [Requests -> Hooks]
  /\ silent \subseteq Requests
  /\ heap \in [Maps -> Map]
  /\ ctx \in [Requests -> Seq(Maps)]
  /\ pc \in [Requests -> {"idle", "copy", "add", "review", "done"}]
  /\ todo \in [Requests -> SUBSET Keys]
  /\ \A r \in Requests : pc[r] \in {"review", "done"} => todo[r] = {}
  /\ line \in [Requests -> Map]

(* A map is not written once a context holds it, as other goroutines may   *)
(* be reading it: no log call can crash the program, and no context        *)
(* changes under those who have it (ctx.go:21-30).                         *)
AttachedMapsFixed ==
  [][\A r \in Requests : \A m \in ToSet(ctx[r]) : heap'[m] = heap[m]]_vars

(* A line of the webhook says what the handler knows of the request it is  *)
(* about, or else what the server does, or the webhook itself, and nothing *)
(* that another request, webhook or derived context has said               *)
(* (logrus.go:20-27, handler.go:125-138).                                  *)
LinesAreTheirOwn ==
  \A r \in Requests : \A k \in Keys :
    LET given == IF r \in silent THEN Absent ELSE Own(r, hook[r], 1)[k]
    IN  pc[r] = "done" =>
          line[r][k] = IF given # Absent THEN given
                       ELSE IF Base[k] = Absent /\ k = "hook" THEN hook[r] ELSE Base[k]
=============================================================================
