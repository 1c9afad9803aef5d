--------------------------- MODULE MutationReview ---------------------------
(***************************************************************************)
(* What the mutators of a webhook promise a review, whatever chains they   *)
(* are arranged in: the mutators of Sequence run one at a time from left   *)
(* to right, each is given the object the previous ones left, a result     *)
(* that stops the chain is the outcome, with its object, an error, a nil   *)
(* result or a panic ends the review without one, and once the context is  *)
(* done at most one more mutator starts.  Warnings are left out.           *)
(* MutatorChain implements this module.                                    *)
(***************************************************************************)
EXTENDS Naturals, Sequences

CONSTANTS
  Requests,   \* the reviews
  Sequence,   \* the mutators that may run, in order
  Nil,        \* the nil object
  Returns     \* Returns[m]: what a result of mutator m can be

VARIABLES
  ctxDone,    \* the context of the review is done
  phase,      \* "idle", "ready" for a mutator, "running" one, "answered"
  calls,      \* the mutators called, in order
  late,       \* how many of them started when the context was done
  given,      \* the object the running mutator works on
  obj,        \* the object the mutators have left so far
  answer      \* the outcome of the review

vars == <<ctxDone, phase, calls, late, given, obj, answer>>

Outcome(kind) == [kind |-> kind, stop |-> FALSE, obj |-> Nil]

Init ==
  /\ ctxDone = [r \in Requests |-> FALSE]
  /\ phase = [r \in Requests |-> "idle"]
  /\ calls = [r \in Requests |-> <<>>]
  /\ late = [r \in Requests |-> 0]
  /\ given = [r \in Requests |-> Nil]
  /\ DOMAIN obj = Requests
  /\ answer = [r \in Requests |-> Outcome("none")]

Cancel(r) ==
  /\ ~ctxDone[r]
  /\ ctxDone' = [ctxDone EXCEPT ![r] = TRUE]
  /\ UNCHANGED <<phase, calls, late, given, obj, answer>>

Begin(r) ==
  /\ phase[r] = "idle"
  /\ phase' = [phase EXCEPT ![r] = "ready"]
  /\ UNCHANGED <<ctxDone, calls, late, given, obj, answer>>

(* The next mutator starts, on the object the previous ones left.          *)
Call(r) ==
  /\ phase[r] = "ready"
  /\ Len(calls[r]) < Len(Sequence)
  /\ late[r] = 0
  /\ phase' = [phase EXCEPT ![r] = "running"]
  /\ calls' = [calls EXCEPT ![r] = Append(@, Sequence[Len(@) + 1])]
  /\ late' = [late EXCEPT ![r] = IF ctxDone[r] THEN 1 ELSE 0]
  /\ given' = [given EXCEPT ![r] = obj[r]]
  /\ UNCHANGED <<ctxDone, obj, answer>>

Decide(r, outcome) ==
  /\ phase' = [phase EXCEPT ![r] = "answered"]
  /\ answer' = [answer EXCEPT ![r] = outcome]
  /\ given' = [given EXCEPT ![r] = Nil]
  /\ UNCHANGED <<ctxDone, calls, late>>

(* The context is done: no more mutators.                                  *)
GiveUp(r) ==
  /\ phase[r] = "ready"
  /\ ctxDone[r]
  /\ Decide(r, Outcome("ctxError"))
  /\ UNCHANGED obj

(* Every mutator has run.                                                  *)
Finish(r) ==
  /\ phase[r] = "ready"
  /\ Len(calls[r]) = Len(Sequence)
  /\ Decide(r, [kind |-> "result", stop |-> FALSE, obj |-> obj[r]])
  /\ UNCHANGED obj

Break(r) ==
  /\ phase[r] = "running"
  /\ \E kind \in {"mutatorError", "nilError", "panic"} : Decide(r, Outcome(kind))
  /\ UNCHANGED obj

(* The running mutator returns a result.                                   *)
Return(r) ==
  /\ phase[r] = "running"
  /\ \E res \in Returns[Sequence[Len(calls[r])]] :
       /\ obj' = [obj EXCEPT ![r] = IF res.obj = Nil THEN @ ELSE res.obj]
       /\ \/ /\ ~res.stop
             /\ phase' = [phase EXCEPT ![r] = "ready"]
             /\ given' = [given EXCEPT ![r] = Nil]
             /\ UNCHANGED <<ctxDone, calls, late, answer>>
          \/ /\ res.stop
             /\ Decide(r, [kind |-> "result", stop |-> TRUE, obj |-> res.obj])

Next == \E r \in Requests : \/ Cancel(r) \/ Begin(r) \/ Call(r) \/ GiveUp(r)
                            \/ Finish(r) \/ Break(r) \/ Return(r)

Spec == Init /\ [][Next]_vars
=============================================================================
