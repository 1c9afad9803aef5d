--------------------------- MODULE ValidatorChain ---------------------------
(***************************************************************************)
(* The chain of validators of a validating webhook (pkg/webhook/           *)
(* validating): Validate runs the elements of the chain one after the      *)
(* other, checks the context before each of them, gathers the warnings and *)
(* ends early on an error, on a nil result, on StopChain and on a result   *)
(* that is not valid.  A chain is a Validator, so chains nest: a review is *)
(* a Go call stack with one frame per active Validate of a chain.          *)
(*                                                                         *)
(* Results are pointers, and a chain writes the warnings into the result   *)
(* that ends it.  A validator of Static has a prepared result, such as a   *)
(* denial in a package variable, and returns the same pointer whenever it  *)
(* says that, so reviews may write one result at the same time: the slice  *)
(* header is kept as its two words, which the compiled code stores one     *)
(* after the other.  Any other result of review r is fresh; r holds one at *)
(* a time, in the cell heap[r].                                            *)
(***************************************************************************)
EXTENDS Naturals, Sequences, SequencesExt

CONSTANTS
  Requests,     \* the reviews being served, one goroutine each
  Validators,   \* the user's validators, the leaves of the chains
  Chains,       \* the chain values
  Root,         \* the chain configured as the webhook's Validator
  Elements,     \* Elements[c]: the validators of chain c, in order
  Leaves,       \* Leaves[c]: the user's validators below c, left to right
  Messages,     \* the messages of the results
  NoMessage,    \* the empty message
  Warnings,     \* warning messages
  Torn,         \* what a slice header of mixed words leads to
  Returns,      \* Returns[v]: the results of validator v
  Prepared      \* Prepared[v]: the result v shares between its calls, if it does

(* What a validator says: its result, with the warnings as a sequence.     *)
Result == [stop : BOOLEAN, valid : BOOLEAN, msg : Messages \cup {NoMessage},
           warnings : Seq(Warnings)]

(* l lists the leaves of chain c, from left to right: it cuts into parts,  *)
(* one per element, which are the validator or a nested chain's leaves.    *)
FlattensTo(c, l) ==
  LET n == Len(Elements[c])
  IN  \E at \in [1..n+1 -> 0..Len(l)] :
        /\ at[1] = 0
        /\ at[n+1] = Len(l)
        /\ \A i \in 1..n :
             /\ at[i] <= at[i+1]
             /\ SubSeq(l, at[i] + 1, at[i+1]) =
                  IF Elements[c][i] \in Chains THEN Leaves[Elements[c][i]]
                                               ELSE <<Elements[c][i]>>

ASSUME ChainAssumption ==
  /\ Root \in Chains
  /\ Validators \cap Chains = {}
  /\ Elements \in [Chains -> Seq(Validators \cup Chains)]
  /\ Returns \in [Validators -> SUBSET Result]

ASSUME LeavesAssumption ==
  /\ Leaves \in [Chains -> Seq(Validators)]
  /\ \A c \in Chains : FlattensTo(c, Leaves[c])

(* The validators that have one.                                           *)
Static == DOMAIN Prepared

ASSUME PreparedAssumption ==
  /\ Static \subseteq Validators
  /\ Static \cap Requests = {}
  /\ Prepared \in [Static -> Result]
  /\ \A v \in Static : Prepared[v] \in Returns[v]

VARIABLES
  ctxDone,    \* ctxDone[r]: the context of the request is done
  pc,         \* where the goroutine of the request is
  stack,      \* stack[r]: its active Validate calls, the innermost last
  ret,        \* ret[r]: what the call that has just returned returned
  heap,       \* heap[p]: the content of the result p points to
  answer,     \* answer[r]: what Review has answered
  hist        \* hist[r]: history: the validators called and what they gave

vars == <<ctxDone, pc, stack, ret, heap, answer, hist>>

-----------------------------------------------------------------------------
Pointers == Requests \cup Static
Seen     == Seq(Warnings \cup {Torn})
Frame    == [chain : Chains, i : Nat \ {0}, warnings : Seen]
Kinds    == {"none", "ctxError", "validatorError", "nilError", "nil", "panic", "result"}
Return   == [kind : Kinds, ref : Pointers]
(* A *ValidatorResult.  The slice of its warnings is data and len.         *)
Cell     == [stop : BOOLEAN, valid : BOOLEAN, msg : Messages \cup {NoMessage},
             data : Seen, len : Nat]
Answer   == [kind : Kinds, valid : BOOLEAN, msg : Messages \cup {NoMessage}, warnings : Seen]
History  == [calls : Seq(Validators), results : Seq(Result), warnings : Seq(Warnings), late : Nat]

CellOf(res) == [stop |-> res.stop, valid |-> res.valid, msg |-> res.msg,
                data |-> res.warnings, len |-> Len(res.warnings)]
(* What a chain that ran to its end returns.                               *)
Passed(ws)  == [stop |-> FALSE, valid |-> TRUE, msg |-> NoMessage, warnings |-> ws]

(* What a reader of the slice gets.                                        *)
Slice(cell) == [k \in 1..cell.len |-> IF k <= Len(cell.data) THEN cell.data[k] ELSE Torn]

NoAnswer(kind) == [kind |-> kind, valid |-> FALSE, msg |-> NoMessage, warnings |-> <<>>]
NewFrame(c)    == [chain |-> c, i |-> 1, warnings |-> <<>>]

Top(r)     == Last(stack[r])
More(r)    == Top(r).i <= Len(Elements[Top(r).chain])
Element(r) == Elements[Top(r).chain][Top(r).i]
Given(r)   == heap[ret[r].ref]       \* the result the call returned

Init ==
  /\ ctxDone = [r \in Requests |-> FALSE]
  /\ pc = [r \in Requests |-> "idle"]
  /\ stack = [r \in Requests |-> <<>>]
  /\ ret = [r \in Requests |-> [kind |-> "none", ref |-> r]]
  /\ heap = [p \in Pointers |-> CellOf(IF p \in Static THEN Prepared[p] ELSE Passed(<<>>))]
  /\ answer = [r \in Requests |-> NoAnswer("none")]
  /\ hist = [r \in Requests |-> [calls |-> <<>>, results |-> <<>>, warnings |-> <<>>, late |-> 0]]

Goto(r, label) == pc' = [pc EXCEPT ![r] = label]

(* The client goes away or its deadline passes; at any time.               *)
Cancel(r) ==
  /\ ~ctxDone[r]
  /\ ctxDone' = [ctxDone EXCEPT ![r] = TRUE]
  /\ UNCHANGED <<pc, stack, ret, heap, answer, hist>>

(* The webhook calls Validate on the root chain.                           *)
Start(r) ==
  /\ pc[r] = "idle"
  /\ Goto(r, "select")
  /\ stack' = [stack EXCEPT ![r] = <<NewFrame(Root)>>]
  /\ UNCHANGED <<ctxDone, ret, heap, answer, hist>>

(* The innermost Validate returns.  h is the heap it leaves.               *)
ReturnFrom(r, kind, ref, h) ==
  /\ heap' = h
  /\ ret' = [ret EXCEPT ![r] = [kind |-> kind, ref |-> ref]]
  /\ stack' = [stack EXCEPT ![r] = Front(@)]
  /\ Goto(r, IF Len(stack[r]) = 1 THEN "forge" ELSE "returned")
  /\ UNCHANGED <<ctxDone, answer, hist>>

(* The loop is over: a fresh valid result with the warnings.               *)
LoopEnd(r) ==
  /\ pc[r] = "select"
  /\ ~More(r)
  /\ ReturnFrom(r, "result", r, [heap EXCEPT ![r] = CellOf(Passed(Top(r).warnings))])

(* select, case <-ctx.Done().                                              *)
ContextDone(r) ==
  /\ pc[r] = "select"
  /\ More(r)
  /\ ctxDone[r]
  /\ ReturnFrom(r, "ctxError", r, heap)

(* select, default: the context may still be done before the call starts.  *)
Proceed(r) ==
  /\ pc[r] = "select"
  /\ More(r)
  /\ ~ctxDone[r]
  /\ Goto(r, "call")
  /\ UNCHANGED <<ctxDone, stack, ret, heap, answer, hist>>

(* vl.Validate on a user's validator.                                      *)
CallValidator(r) ==
  /\ pc[r] = "call"
  /\ Element(r) \in Validators
  /\ Goto(r, "validator")
  /\ hist' = [hist EXCEPT ![r].calls = Append(@, Element(r)),
                          ![r].late = IF ctxDone[r] THEN @ + 1 ELSE @]
  /\ UNCHANGED <<ctxDone, stack, ret, heap, answer>>

(* vl.Validate on a nested chain.                                          *)
CallChain(r) ==
  /\ pc[r] = "call"
  /\ Element(r) \in Chains
  /\ Goto(r, "select")
  /\ stack' = [stack EXCEPT ![r] = Append(@, NewFrame(Element(r)))]
  /\ UNCHANGED <<ctxDone, ret, heap, answer, hist>>

(* The user's validator returns an error, or no result.                    *)
ValidatorFails(r) ==
  /\ pc[r] = "validator"
  /\ Goto(r, "returned")
  /\ \E kind \in {"validatorError", "nil"} : ret' = [ret EXCEPT ![r] = [kind |-> kind, ref |-> r]]
  /\ UNCHANGED <<ctxDone, stack, heap, answer, hist>>

(* The user's validator returns a result; a shared one is left as it is.   *)
ValidatorReturns(r) ==
  /\ pc[r] = "validator"
  /\ Goto(r, "returned")
  /\ \E res \in Returns[Element(r)] :
       LET shared == Element(r) \in Static /\ res = Prepared[Element(r)]
       IN  /\ ret' = [ret EXCEPT ![r] = [kind |-> "result",
                                         ref |-> IF shared THEN Element(r) ELSE r]]
           /\ heap' = IF shared THEN heap ELSE [heap EXCEPT ![r] = CellOf(res)]
           /\ hist' = [hist EXCEPT ![r].results = Append(@, res),
                                   ![r].warnings = @ \o res.warnings]
  /\ UNCHANGED <<ctxDone, stack, answer>>

(* The user's validator panics: every frame is unwound.                    *)
ValidatorPanics(r) ==
  /\ pc[r] = "validator"
  /\ Goto(r, "done")
  /\ stack' = [stack EXCEPT ![r] = <<>>]
  /\ answer' = [answer EXCEPT ![r] = NoAnswer("panic")]
  /\ UNCHANGED <<ctxDone, ret, heap, hist>>

(* A bug: a validator that returned no result is run again.                *)
FailRetryingNil(r) ==
  /\ pc[r] = "returned"
  /\ ret[r].kind # "result"
  /\ IF ret[r].kind = "nil"
     THEN Goto(r, "validator") /\ UNCHANGED <<ctxDone, stack, ret, heap, answer, hist>>
     ELSE ReturnFrom(r, ret[r].kind, r, heap)

(* A bug: a chain hands a nil result on.                                   *)
FailUnchecked(r) ==
  /\ pc[r] = "returned"
  /\ ret[r].kind # "result"
  /\ ReturnFrom(r, ret[r].kind, r, heap)

(* An element returned an error, or no result: so does the chain.          *)
Fail(r) ==
  /\ pc[r] = "returned"
  /\ ret[r].kind # "result"
  /\ ReturnFrom(r, IF ret[r].kind = "nil" THEN "nilError" ELSE ret[r].kind, r, heap)

GatheredLast(r) == Slice(Given(r))           \* a bug: only the last ones
Gathered(r)     == Top(r).warnings \o Slice(Given(r))

EndsOnStop(r) == Given(r).stop                        \* a bug: invalid goes on
EndsChain(r)  == Given(r).stop \/ ~Given(r).valid

(* A bug: the chain writes a fresh result and forgets the message.         *)
StopFresh(r) ==
  /\ pc[r] = "returned"
  /\ ret[r].kind = "result"
  /\ EndsChain(r)
  /\ ReturnFrom(r, "result", r,
       [heap EXCEPT ![r] = CellOf([stop |-> Given(r).stop, valid |-> Given(r).valid,
                                   msg |-> NoMessage, warnings |-> Gathered(r)])])

(* A bug: the chain ends in good order, and the chain around it goes on.    *)
StopHere(r) ==
  /\ pc[r] = "returned"
  /\ ret[r].kind = "result"
  /\ EndsChain(r)
  /\ ReturnFrom(r, "result", r, [heap EXCEPT ![r] = CellOf(Passed(Gathered(r)))])

(* An element's result ends the chain: the chain writes all the warnings   *)
(* to it, first one word of the slice header and then the other ...        *)
Stop(r) ==
  /\ pc[r] = "returned"
  /\ ret[r].kind = "result"
  /\ EndsChain(r)
  /\ stack' = [stack EXCEPT ![r] = Append(Front(@), [Top(r) EXCEPT !.warnings = Gathered(r)])]
  /\ \/ Goto(r, "writeLen")  /\ heap' = [heap EXCEPT ![ret[r].ref].data = Gathered(r)]
     \/ Goto(r, "writeData") /\ heap' = [heap EXCEPT ![ret[r].ref].len = Len(Gathered(r))]
  /\ UNCHANGED <<ctxDone, ret, answer, hist>>

(* ... and returns that same result.                                       *)
StopReturn(r) ==
  LET ref == ret[r].ref
  IN  \/ pc[r] = "writeLen"
         /\ ReturnFrom(r, "result", ref, [heap EXCEPT ![ref].len = Len(Top(r).warnings)])
      \/ pc[r] = "writeData"
         /\ ReturnFrom(r, "result", ref, [heap EXCEPT ![ref].data = Top(r).warnings])

(* A bug: the warnings are written to the result before the test.          *)
ContinueWriting(r) ==
  /\ pc[r] = "returned"
  /\ ret[r].kind = "result"
  /\ ~EndsChain(r)
  /\ Goto(r, "select")
  /\ heap' = [heap EXCEPT ![ret[r].ref].data = Gathered(r), ![ret[r].ref].len = Len(Gathered(r))]
  /\ stack' = [stack EXCEPT ![r] =
                 Append(Front(@), [Top(r) EXCEPT !.i = @ + 1, !.warnings = Gathered(r)])]
  /\ UNCHANGED <<ctxDone, ret, answer, hist>>

(* An element's result lets the chain go on with the next element.         *)
Continue(r) ==
  /\ pc[r] = "returned"
  /\ ret[r].kind = "result"
  /\ ~EndsChain(r)
  /\ Goto(r, "select")
  /\ stack' = [stack EXCEPT ![r] =
                 Append(Front(@), [Top(r) EXCEPT !.i = @ + 1, !.warnings = Gathered(r)])]
  /\ UNCHANGED <<ctxDone, ret, heap, answer, hist>>

(* Review makes its response of what the root chain returned, reading a    *)
(* result through its pointer.                                             *)
Forge(r) ==
  /\ pc[r] = "forge"
  /\ Goto(r, "done")
  /\ answer' = [answer EXCEPT ![r] =
       IF ret[r].kind # "result" THEN NoAnswer(ret[r].kind)
       ELSE [kind |-> "result", valid |-> Given(r).valid, msg |-> Given(r).msg,
             warnings |-> Slice(Given(r))]]
  /\ UNCHANGED <<ctxDone, stack, ret, heap, hist>>

ChainStep(r) == \/ Start(r) \/ LoopEnd(r) \/ ContextDone(r) \/ Proceed(r)
                \/ CallValidator(r) \/ CallChain(r) \/ Fail(r) \/ Stop(r)
                \/ StopReturn(r) \/ Continue(r) \/ Forge(r)

ValidatorStep(r) == ValidatorFails(r) \/ ValidatorReturns(r) \/ ValidatorPanics(r)

AllDone == (\A r \in Requests : pc[r] = "done") /\ UNCHANGED vars

Next == \/ \E r \in Requests : Cancel(r) \/ ChainStep(r) \/ ValidatorStep(r)
        \/ AllDone

Spec == Init /\ [][Next]_vars

(* The Go scheduler runs every runnable goroutine, and a Validator must    *)
(* return an error or a result (validator.go:27-28).  Nothing obliges a    *)
(* context to be cancelled.                                                *)
Fairness == \A r \in Requests : WF_vars(ChainStep(r)) /\ WF_vars(ValidatorStep(r))

FairSpec == Spec /\ Fairness

-----------------------------------------------------------------------------
(* Properties.                                                             *)

(* The types of the state; a review ends with an error, a panic or a       *)
(* result, never with neither an error nor a result (validator.go:75-77).  *)
TypeOK ==
  /\ ctxDone \in [Requests -> BOOLEAN]
  /\ pc \in [Requests -> {"idle", "select", "call", "validator", "returned",
                          "writeLen", "writeData", "forge", "done"}]
  /\ stack \in [Requests -> Seq(Frame)]
  /\ ret \in [Requests -> Return]
  /\ heap \in [Pointers -> Cell]
  /\ answer \in [Requests -> Answer]
  /\ \A r \in Requests : pc[r] = "done" => answer[r].kind \notin {"none", "nil"}
  /\ hist \in [Requests -> History]

Answered(r)   == answer[r].kind = "result"
Decisive(res) == res.stop \/ ~res.valid

(* An object is allowed only if every validator of the webhook has run in  *)
(* the review, unless one stopped the chain, and each that ran found the   *)
(* object valid, through any nesting, whatever is shared and however the   *)
(* reviews interleave (validator.go:62-92).                                *)
AllowedOnlyIfAllValid ==
  \A r \in Requests :
    LET given == hist[r].results
        calls == hist[r].calls
    IN  Answered(r) /\ answer[r].valid =>
          /\ Len(given) = Len(calls)
          /\ \A k \in DOMAIN given : given[k].valid
          /\ calls = Leaves[Root] \/ (given # <<>> /\ Last(given).stop)

(* A denial is the denial of the last validator that ran in the review,    *)
(* with its message, through all the chains it is nested in, and although  *)
(* other reviews may be writing to the same result (validator.go:82-85).   *)
DenialKept ==
  \A r \in Requests :
    LET given == hist[r].results
    IN  Answered(r) /\ ~answer[r].valid =>
          given # <<>> /\ ~Last(given).valid /\ answer[r].msg = Last(given).msg

(* No warning is lost, repeated or reordered on the way up through the     *)
(* nested chains, and none comes from another review, in every review that *)
(* is not answered with a shared result (validator.go:79-83, 91).          *)
WarningsKept ==
  \A r \in Requests :
    Answered(r) /\ ret[r].ref = r => answer[r].warnings = hist[r].warnings

(* A chain writes to a shared result only if it ends chains, and then only *)
(* its warnings: no review changes the verdict another one will read, nor  *)
(* the warnings of a result that lets chains go on (validator.go:82-84).   *)
SharedVerdictsUntouched ==
  [][\A v \in Static :
       /\ heap'[v].stop = heap[v].stop
       /\ heap'[v].valid = heap[v].valid
       /\ heap'[v].msg = heap[v].msg
       /\ ~Decisive(heap[v]) => heap'[v] = heap[v]]_vars

(* Every review is answered: a chain ends when its validators do.          *)
Termination == \A r \in Requests : <>(pc[r] = "done")

-----------------------------------------------------------------------------
(* A chain of chains behaves like the sequence of its validators.  The     *)
(* outcome is decided when a validator ends it, before the frames unwind   *)
(* and before Review reads the result.                                     *)
Decided(r) ==
  \/ pc[r] \in {"writeLen", "writeData", "forge"}
  \/ pc[r] = "returned" /\ (ret[r].kind = "result" => EndsChain(r))

Phase(r) ==
  CASE pc[r] = "idle"      -> "idle"
    [] pc[r] = "validator" -> "running"
    [] pc[r] = "done"      -> "answered"
    [] OTHER               -> IF Decided(r) THEN "answered" ELSE "ready"

Verdict(r) ==
  LET kind == IF ~Decided(r) THEN answer[r].kind
              ELSE IF ret[r].kind = "nil" THEN "nilError" ELSE ret[r].kind
      from == IF Decided(r) /\ kind = "result" THEN Given(r) ELSE answer[r]
  IN  [kind  |-> kind,
       valid |-> kind = "result" /\ from.valid,
       msg   |-> IF kind = "result" THEN from.msg ELSE NoMessage]

Review == INSTANCE ValidationReview WITH
  Sequence <- Leaves[Root],
  phase    <- [r \in Requests |-> Phase(r)],
  calls    <- [r \in Requests |-> hist[r].calls],
  late     <- [r \in Requests |-> hist[r].late],
  answer   <- [r \in Requests |-> Verdict(r)]

(* Nested chains keep the promise of ValidationReview: the order, the      *)
(* verdicts and the late calls are those of the flat sequence, and no      *)
(* other review can change a verdict before it is read (validator.go:62-93,*)
(* validating/webhook.go:103-121).                                         *)
ReviewSpec == Review!Spec
=============================================================================
