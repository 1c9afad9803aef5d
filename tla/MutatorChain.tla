---------------------------- MODULE MutatorChain ----------------------------
(***************************************************************************)
(* The chain of mutators of a mutating webhook (pkg/webhook/mutating):     *)
(* Chain.Mutate runs its elements one after the other, checks the context  *)
(* before each of them, hands each one the object the previous one left,   *)
(* gathers the warnings and ends early on an error, on a nil result or on  *)
(* StopChain.  A Chain is a Mutator, so chains nest: a request is a Go     *)
(* call stack with one frame per active Mutate of a Chain.                 *)
(*                                                                         *)
(* Objects are pointers: what a mutator edits in place is seen through the *)
(* same pointer, so only the identity of an object is kept.  Results are   *)
(* pointers too, and a chain writes the warnings into the result that      *)
(* stops it.  A mutator of Static has a prepared result, such as a stop    *)
(* with nothing to mutate in a package variable, and returns the same      *)
(* pointer whenever it says that, so reviews may write one result at the   *)
(* same time: the slice header is kept as its two words, which the         *)
(* compiled code stores one after the other.  Any other result of request  *)
(* r is fresh; r holds one at a time, in the cell heap[r].                 *)
(***************************************************************************)
EXTENDS Naturals, Sequences, SequencesExt

CONSTANTS
  Requests,   \* the reviews being served, one goroutine each
  Mutators,   \* the user's mutators, the leaves of the chains
  Chains,     \* the *Chain values
  Root,       \* the chain configured as the webhook's Mutator
  Elements,   \* Elements[c]: the mutators of chain c, in order
  Leaves,     \* Leaves[c]: the user's mutators below c, from left to right
  Objects,    \* pointers to Kubernetes objects
  Nil,        \* the nil object
  Warnings,   \* warning messages
  Torn,       \* what a slice header of mixed words leads to
  Returns,    \* Returns[m]: the results of mutator m
  Prepared    \* Prepared[m]: the result m shares between its calls, if it does

(* What a mutator says: its result, with the warnings as a sequence.       *)
Result == [stop : BOOLEAN, obj : Objects \cup {Nil}, warnings : Seq(Warnings)]

(* l lists the leaves of chain c when it cuts into consecutive segments,   *)
(* one per element: the element itself or the leaves of a nested chain.    *)
FlattensTo(c, l) ==
  LET n == Len(Elements[c])
  IN  \E at \in [1..n+1 -> 0..Len(l)] :
        /\ at[1] = 0
        /\ at[n+1] = Len(l)
        /\ \A i \in 1..n :
             /\ at[i] <= at[i+1]
             /\ SubSeq(l, at[i] + 1, at[i+1]) =
                  IF Elements[c][i] \in Chains THEN Leaves[Elements[c][i]]
                                               ELSE <<Elements[c][i]>>

ASSUME ChainAssumption ==
  /\ Root \in Chains
  /\ Mutators \cap Chains = {}
  /\ Elements \in [Chains -> Seq(Mutators \cup Chains)]
  /\ Nil \notin Objects
  /\ Returns \in [Mutators -> SUBSET Result]

ASSUME LeavesAssumption ==
  /\ Leaves \in [Chains -> Seq(Mutators)]
  /\ \A c \in Chains : FlattensTo(c, Leaves[c])

(* The mutators that have one.                                             *)
Static == DOMAIN Prepared

ASSUME PreparedAssumption ==
  /\ Static \subseteq Mutators
  /\ Static \cap Requests = {}
  /\ Prepared \in [Static -> Result]
  /\ \A m \in Static : Prepared[m] \in Returns[m]

VARIABLES
  ctxDone,    \* ctxDone[r]: the context of the request is done
  input,      \* input[r]: objForMutation, the object given to the root chain
  pc,         \* where the goroutine of the request is
  stack,      \* stack[r]: its active Mutate calls, the innermost last
  ret,        \* ret[r]: what the call that has just returned returned
  heap,       \* heap[p]: the content of the result p points to
  answer,     \* answer[r]: what the root chain returned to the webhook
  hist        \* hist[r]: history: the calls made and what they produced

vars == <<ctxDone, input, pc, stack, ret, heap, answer, hist>>

-----------------------------------------------------------------------------
Pointers == Requests \cup Static
Seen     == Seq(Warnings \cup {Torn})
Frame    == [chain : Chains, i : Nat \ {0}, obj : Objects, warnings : Seen]
Kinds    == {"none", "ctxError", "mutatorError", "nilError", "nil", "panic", "result"}
Return   == [kind : Kinds, ref : Pointers]
(* A *MutatorResult.  The slice of its warnings is data and len.           *)
Cell     == [stop : BOOLEAN, obj : Objects \cup {Nil}, data : Seen, len : Nat]
Answer   == [kind : Kinds, stop : BOOLEAN, obj : Objects \cup {Nil}, warnings : Seen]
History  == [calls : Seq(Mutators), obj : Objects, warnings : Seq(Warnings), late : Nat]

CellOf(res)   == [stop |-> res.stop, obj |-> res.obj,
                  data |-> res.warnings, len |-> Len(res.warnings)]
(* What a chain that ran to its end returns.                               *)
Passed(o, ws) == [stop |-> FALSE, obj |-> o, warnings |-> ws]

(* What a reader of the slice gets.                                        *)
Slice(cell) == [k \in 1..cell.len |-> IF k <= Len(cell.data) THEN cell.data[k] ELSE Torn]

NoAnswer(kind) == [kind |-> kind, stop |-> FALSE, obj |-> Nil, warnings |-> <<>>]
NewFrame(c, o) == [chain |-> c, i |-> 1, obj |-> o, warnings |-> <<>>]

Top(r)     == Last(stack[r])
More(r)    == Top(r).i <= Len(Elements[Top(r).chain])
Element(r) == Elements[Top(r).chain][Top(r).i]
Given(r)   == heap[ret[r].ref]       \* the result the call returned

(* The object the webhook computes the patch from (webhook.go:127-130).    *)
MutatedObject(r) == IF answer[r].obj = Nil THEN input[r] ELSE answer[r].obj

-----------------------------------------------------------------------------
Init ==
  /\ ctxDone = [r \in Requests |-> FALSE]
  /\ input \in [Requests -> Objects]
  /\ pc = [r \in Requests |-> "idle"]
  /\ stack = [r \in Requests |-> <<>>]
  /\ ret = [r \in Requests |-> [kind |-> "none", ref |-> r]]
  /\ heap = [p \in Pointers |-> CellOf(IF p \in Static THEN Prepared[p] ELSE Passed(Nil, <<>>))]
  /\ answer = [r \in Requests |-> NoAnswer("none")]
  /\ hist = [r \in Requests |-> [calls |-> <<>>, obj |-> input[r], warnings |-> <<>>, late |-> 0]]

Goto(r, label) == pc' = [pc EXCEPT ![r] = label]

(* The client goes away or its deadline passes; at any time.               *)
Cancel(r) ==
  /\ ~ctxDone[r]
  /\ ctxDone' = [ctxDone EXCEPT ![r] = TRUE]
  /\ UNCHANGED <<input, pc, stack, ret, heap, answer, hist>>

(* The webhook calls Mutate on the root chain.                             *)
Start(r) ==
  /\ pc[r] = "idle"
  /\ Goto(r, "select")
  /\ stack' = [stack EXCEPT ![r] = <<NewFrame(Root, input[r])>>]
  /\ UNCHANGED <<ctxDone, input, ret, heap, answer, hist>>

(* The innermost Mutate returns.  h is the heap it leaves.                 *)
ReturnFrom(r, kind, ref, h) ==
  /\ heap' = h
  /\ ret' = [ret EXCEPT ![r] = [kind |-> kind, ref |-> ref]]
  /\ stack' = [stack EXCEPT ![r] = Front(@)]
  /\ Goto(r, IF Len(stack[r]) = 1 THEN "forge" ELSE "returned")
  /\ UNCHANGED <<ctxDone, input, answer, hist>>

(* The loop is over: a fresh result with the object and the warnings.      *)
LoopEnd(r) ==
  /\ pc[r] = "select"
  /\ ~More(r)
  /\ ReturnFrom(r, "result", r,
       [heap EXCEPT ![r] = CellOf(Passed(Top(r).obj, Top(r).warnings))])

(* select, case <-ctx.Done().                                              *)
ContextDone(r) ==
  /\ pc[r] = "select"
  /\ More(r)
  /\ ctxDone[r]
  /\ ReturnFrom(r, "ctxError", r, heap)

(* A bug: the context is only checked when the chain starts.               *)
ProceedUnchecked(r) ==
  /\ pc[r] = "select"
  /\ More(r)
  /\ Top(r).i > 1 \/ ~ctxDone[r]
  /\ Goto(r, "call")
  /\ UNCHANGED <<ctxDone, input, stack, ret, heap, answer, hist>>

(* select, default: the context may still be done before the call starts.  *)
Proceed(r) ==
  /\ pc[r] = "select"
  /\ More(r)
  /\ ~ctxDone[r]
  /\ Goto(r, "call")
  /\ UNCHANGED <<ctxDone, input, stack, ret, heap, answer, hist>>

(* mt.Mutate on a user's mutator.                                          *)
CallMutator(r) ==
  /\ pc[r] = "call"
  /\ Element(r) \in Mutators
  /\ Goto(r, "mutator")
  /\ hist' = [hist EXCEPT ![r].calls = Append(@, Element(r)),
                          ![r].late = IF ctxDone[r] THEN @ + 1 ELSE @]
  /\ UNCHANGED <<ctxDone, input, stack, ret, heap, answer>>

(* mt.Mutate on a nested chain.                                            *)
CallChain(r) ==
  /\ pc[r] = "call"
  /\ Element(r) \in Chains
  /\ Goto(r, "select")
  /\ stack' = [stack EXCEPT ![r] = Append(@, NewFrame(Element(r), Top(r).obj))]
  /\ UNCHANGED <<ctxDone, input, ret, heap, answer, hist>>

(* The user's mutator returns an error, or no result.                      *)
MutatorFails(r) ==
  /\ pc[r] = "mutator"
  /\ Goto(r, "returned")
  /\ \E kind \in {"mutatorError", "nil"} : ret' = [ret EXCEPT ![r] = [kind |-> kind, ref |-> r]]
  /\ UNCHANGED <<ctxDone, input, stack, heap, answer, hist>>

(* The user's mutator returns a result; a shared one is left as it is.     *)
MutatorReturns(r) ==
  /\ pc[r] = "mutator"
  /\ Goto(r, "returned")
  /\ \E res \in Returns[Element(r)] :
       LET shared == Element(r) \in Static /\ res = Prepared[Element(r)]
       IN  /\ ret' = [ret EXCEPT ![r] = [kind |-> "result",
                                         ref |-> IF shared THEN Element(r) ELSE r]]
           /\ heap' = IF shared THEN heap ELSE [heap EXCEPT ![r] = CellOf(res)]
           /\ hist' = [hist EXCEPT ![r].obj = IF res.obj = Nil THEN @ ELSE res.obj,
                                   ![r].warnings = @ \o res.warnings]
  /\ UNCHANGED <<ctxDone, input, stack, answer>>

(* The user's mutator panics: every frame is unwound.                      *)
MutatorPanics(r) ==
  /\ pc[r] = "mutator"
  /\ Goto(r, "done")
  /\ stack' = [stack EXCEPT ![r] = <<>>]
  /\ answer' = [answer EXCEPT ![r] = NoAnswer("panic")]
  /\ UNCHANGED <<ctxDone, input, ret, heap, hist>>

(* A bug: a mutator that returned no result is run again.                  *)
FailRetryingNil(r) ==
  /\ pc[r] = "returned"
  /\ ret[r].kind # "result"
  /\ IF ret[r].kind = "nil"
     THEN /\ Goto(r, "mutator")
          /\ UNCHANGED <<ctxDone, input, stack, ret, heap, answer, hist>>
     ELSE ReturnFrom(r, ret[r].kind, r, heap)

(* An element returned an error, or no result: so does the chain.          *)
Fail(r) ==
  /\ pc[r] = "returned"
  /\ ret[r].kind # "result"
  /\ ReturnFrom(r, IF ret[r].kind = "nil" THEN "nilError" ELSE ret[r].kind, r, heap)

(* What the frame gathers from the result: its warnings and its object.    *)
Gathered(r) == Top(r).warnings \o Slice(Given(r))

CarriedNil(r)  == Given(r).obj                  \* a bug: nil is carried too
CarriedNone(r) == Top(r).obj                    \* a bug: nothing is carried
Carried(r)     == IF Given(r).obj = Nil THEN Top(r).obj ELSE Given(r).obj

(* A bug: the chain reports a stop as an ordinary end of its own, so that  *)
(* the chain it is nested in goes on.                                      *)
StopHere(r) ==
  /\ pc[r] = "returned"
  /\ ret[r].kind = "result"
  /\ Given(r).stop
  /\ ReturnFrom(r, "result", r, [heap EXCEPT ![r] = CellOf(Passed(Carried(r), Gathered(r)))])

(* A bug: the result is returned as the element left it.                   *)
StopWithoutWarnings(r) ==
  /\ pc[r] = "returned"
  /\ ret[r].kind = "result"
  /\ Given(r).stop
  /\ ReturnFrom(r, "result", ret[r].ref, heap)

(* A bug: the object is written to the result too, so that it is not lost. *)
StopCarrying(r) ==
  /\ pc[r] = "returned"
  /\ ret[r].kind = "result"
  /\ Given(r).stop
  /\ stack' = [stack EXCEPT ![r] = Append(Front(@), [Top(r) EXCEPT !.warnings = Gathered(r)])]
  /\ Goto(r, "writeLen")
  /\ heap' = [heap EXCEPT ![ret[r].ref].data = Gathered(r), ![ret[r].ref].obj = Carried(r)]
  /\ UNCHANGED <<ctxDone, input, ret, answer, hist>>

(* An element's result stops the chain: the chain writes all the warnings  *)
(* to it, first one word of the slice header and then the other ...        *)
Stop(r) ==
  /\ pc[r] = "returned"
  /\ ret[r].kind = "result"
  /\ Given(r).stop
  /\ stack' = [stack EXCEPT ![r] = Append(Front(@), [Top(r) EXCEPT !.warnings = Gathered(r)])]
  /\ \/ Goto(r, "writeLen")  /\ heap' = [heap EXCEPT ![ret[r].ref].data = Gathered(r)]
     \/ Goto(r, "writeData") /\ heap' = [heap EXCEPT ![ret[r].ref].len = Len(Gathered(r))]
  /\ UNCHANGED <<ctxDone, input, ret, answer, hist>>

(* ... and returns that same result.                                       *)
StopReturn(r) ==
  LET ref == ret[r].ref
  IN  \/ pc[r] = "writeLen"
         /\ ReturnFrom(r, "result", ref, [heap EXCEPT ![ref].len = Len(Top(r).warnings)])
      \/ pc[r] = "writeData"
         /\ ReturnFrom(r, "result", ref, [heap EXCEPT ![ref].data = Top(r).warnings])

(* An element's result lets the chain go on with the next element.         *)
Continue(r) ==
  /\ pc[r] = "returned"
  /\ ret[r].kind = "result"
  /\ ~Given(r).stop
  /\ Goto(r, "select")
  /\ stack' = [stack EXCEPT ![r] = Append(Front(@),
                 [Top(r) EXCEPT !.i = @ + 1, !.obj = Carried(r), !.warnings = Gathered(r)])]
  /\ UNCHANGED <<ctxDone, input, ret, heap, answer, hist>>

(* mutatingAdmissionReview makes its patch and its response of what the    *)
(* root chain returned, reading a result through its pointer.              *)
Forge(r) ==
  /\ pc[r] = "forge"
  /\ Goto(r, "done")
  /\ answer' = [answer EXCEPT ![r] =
       IF ret[r].kind # "result" THEN NoAnswer(ret[r].kind)
       ELSE [kind |-> "result", stop |-> Given(r).stop, obj |-> Given(r).obj,
             warnings |-> Slice(Given(r))]]
  /\ UNCHANGED <<ctxDone, input, stack, ret, heap, hist>>

ChainStep(r) ==
  \/ Start(r) \/ LoopEnd(r) \/ ContextDone(r) \/ Proceed(r)
  \/ CallMutator(r) \/ CallChain(r) \/ Fail(r) \/ Stop(r) \/ StopReturn(r)
  \/ Continue(r) \/ Forge(r)

MutatorStep(r) == MutatorFails(r) \/ MutatorReturns(r) \/ MutatorPanics(r)

AllDone == (\A r \in Requests : pc[r] = "done") /\ UNCHANGED vars

Next == \/ \E r \in Requests : Cancel(r) \/ ChainStep(r) \/ MutatorStep(r)
        \/ AllDone

Spec == Init /\ [][Next]_vars

(* The Go scheduler runs every runnable goroutine, and a Mutator must      *)
(* return an error or a result (mutator.go:26-27).  Nothing obliges a      *)
(* context to be cancelled.                                                *)
Fairness == \A r \in Requests : WF_vars(ChainStep(r)) /\ WF_vars(MutatorStep(r))

FairSpec == Spec /\ Fairness

-----------------------------------------------------------------------------
(* Properties.                                                             *)

(* The types of the state.  A frame never holds the nil object, so no      *)
(* mutator is ever given one (mutator.go:82-84).                           *)
TypeOK ==
  /\ ctxDone \in [Requests -> BOOLEAN]
  /\ input \in [Requests -> Objects]
  /\ pc \in [Requests -> {"idle", "select", "call", "mutator", "returned",
                          "writeLen", "writeData", "forge", "done"}]
  /\ stack \in [Requests -> Seq(Frame)]
  /\ ret \in [Requests -> Return]
  /\ heap \in [Pointers -> Cell]
  /\ answer \in [Requests -> Answer]
  /\ hist \in [Requests -> History]

(* No warning is lost, repeated or reordered on the way up through the     *)
(* nested chains, whether the chain went to its end or was stopped, and    *)
(* none comes from another review, in every review that is not answered    *)
(* with a shared result (mutator.go:80-81, 87, 95).                        *)
WarningsKept ==
  \A r \in Requests :
    answer[r].kind = "result" /\ ret[r].ref = r => answer[r].warnings = hist[r].warnings

(* A mutator is given the object the last mutator that returned one left,  *)
(* in whatever chain that one is, and a chain that was not stopped has run *)
(* all its mutators in order and returns that object (mutator.go:66-98).   *)
ObjectThreaded ==
  \A r \in Requests :
    /\ pc[r] = "mutator" => Top(r).obj = hist[r].obj
    /\ answer[r].kind = "result" /\ ~answer[r].stop =>
         answer[r].obj = hist[r].obj /\ hist[r].calls = Leaves[Root]

(* Once the context is done at most one more mutator starts: the one whose *)
(* chain has just looked at the context (mutator.go:67-71).                *)
OneLateCall == \A r \in Requests : hist[r].late <= 1

(* A chain writes to a shared result only if it stops chains, and then     *)
(* only its warnings: no review changes the object another one will patch, *)
(* nor the warnings of a result that lets chains go on (mutator.go:81-88). *)
SharedObjectsUntouched ==
  [][\A m \in Static :
       /\ heap'[m].stop = heap[m].stop
       /\ heap'[m].obj = heap[m].obj
       /\ ~heap[m].stop => heap'[m] = heap[m]]_vars

(* Every review is answered: a chain ends when its mutators do.            *)
Termination == \A r \in Requests : <>(pc[r] = "done")

(* What the webhook patches is the object the mutators left, a stopped     *)
(* chain included: mutator.go:80, "Don't lose the data through the chain,  *)
(* set warnings and pass around the mutated object", and mutator.go:17-18, *)
(* a nil MutatedObject stands for "the one received by the Mutator".       *)
StoppedObjectKept ==
  \A r \in Requests : answer[r].kind = "result" => MutatedObject(r) = hist[r].obj

-----------------------------------------------------------------------------
(* A chain of chains behaves like the sequence of its mutators.  The       *)
(* outcome is decided when a mutator ends it, before the frames unwind     *)
(* and before the webhook reads the result.                                *)
Decided(r) ==
  \/ pc[r] \in {"writeLen", "writeData", "forge"}
  \/ pc[r] = "returned" /\ (ret[r].kind = "result" => Given(r).stop)

Phase(r) ==
  CASE pc[r] = "idle"    -> "idle"
    [] pc[r] = "mutator" -> "running"
    [] pc[r] = "done"    -> "answered"
    [] OTHER             -> IF Decided(r) THEN "answered" ELSE "ready"

Verdict(r) ==
  LET kind == IF ~Decided(r) THEN answer[r].kind
              ELSE IF ret[r].kind = "nil" THEN "nilError" ELSE ret[r].kind
      from == IF Decided(r) /\ kind = "result" THEN Given(r) ELSE answer[r]
  IN  [kind |-> kind,
       stop |-> kind = "result" /\ from.stop,
       obj  |-> IF kind = "result" THEN from.obj ELSE Nil]

Review == INSTANCE MutationReview WITH
  Sequence <- Leaves[Root],
  phase    <- [r \in Requests |-> Phase(r)],
  calls    <- [r \in Requests |-> hist[r].calls],
  late     <- [r \in Requests |-> hist[r].late],
  given    <- [r \in Requests |-> IF pc[r] = "mutator" THEN Top(r).obj ELSE Nil],
  obj      <- [r \in Requests |-> hist[r].obj],
  answer   <- [r \in Requests |-> Verdict(r)]

(* Nested chains keep the promise of MutationReview: order, objects, stops *)
(* and late calls are those of the flat sequence, and no other review can  *)
(* change the object that is patched before it is read (mutator.go:64-97,  *)
(* mutating/webhook.go:125-130).                                           *)
ReviewSpec == Review!Spec
=============================================================================
