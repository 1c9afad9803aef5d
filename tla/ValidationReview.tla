-------------------------- MODULE ValidationReview --------------------------
(***************************************************************************)
(* What the validators of a webhook promise a review, whatever chains they *)
(* are arranged in: the validators of Sequence run one at a time from left *)
(* to right, the first result that stops or denies is the verdict, with    *)
(* its message, an error, a nil result or a panic ends the review without  *)
(* one, the object is allowed when all of them have run, and once the      *)
(* context is done at most one more validator starts.  Warnings are left   *)
(* out.  ValidatorChain implements this module.                            *)
(***************************************************************************)
EXTENDS Naturals, Sequences

CONSTANTS
  Requests,   \* the reviews
  Sequence,   \* the validators that may run, in order
  NoMessage,  \* the empty message
  Returns     \* Returns[v]: the results of validator v

VARIABLES
  ctxDone,    \* the context of the review is done
  phase,      \* "idle", "ready" for a validator, "running" one, "answered"
  calls,      \* the validators called, in order
  late,       \* how many of them started when the context was done
  answer      \* the outcome of the review

vars == <<ctxDone, phase, calls, late, answer>>

Outcome(kind)       == [kind |-> kind, valid |-> FALSE, msg |-> NoMessage]
Verdict(valid, msg) == [kind |-> "result", valid |-> valid, msg |-> msg]

Init ==
  /\ ctxDone = [r \in Requests |-> FALSE]
  /\ phase = [r \in Requests |-> "idle"]
  /\ calls = [r \in Requests |-> <<>>]
  /\ late = [r \in Requests |-> 0]
  /\ answer = [r \in Requests |-> Outcome("none")]

Cancel(r) ==
  /\ ~ctxDone[r]
  /\ ctxDone' = [ctxDone EXCEPT ![r] = TRUE]
  /\ UNCHANGED <<phase, calls, late, answer>>

Begin(r) ==
  /\ phase[r] = "idle"
  /\ phase' = [phase EXCEPT ![r] = "ready"]
  /\ UNCHANGED <<ctxDone, calls, late, answer>>

(* The next validator starts.                                              *)
Call(r) ==
  /\ phase[r] = "ready"
  /\ Len(calls[r]) < Len(Sequence)
  /\ late[r] = 0
  /\ phase' = [phase EXCEPT ![r] = "running"]
  /\ calls' = [calls EXCEPT ![r] = Append(@, Sequence[Len(@) + 1])]
  /\ late' = [late EXCEPT ![r] = IF ctxDone[r] THEN 1 ELSE 0]
  /\ UNCHANGED <<ctxDone, answer>>

Decide(r, outcome) ==
  /\ phase' = [phase EXCEPT ![r] = "answered"]
  /\ answer' = [answer EXCEPT ![r] = outcome]
  /\ UNCHANGED <<ctxDone, calls, late>>

(* The context is done: no more validators.                                *)
GiveUp(r) == phase[r] = "ready" /\ ctxDone[r] /\ Decide(r, Outcome("ctxError"))

(* Every validator has run and none objected.                              *)
Finish(r) ==
  /\ phase[r] = "ready"
  /\ Len(calls[r]) = Len(Sequence)
  /\ Decide(r, Verdict(TRUE, NoMessage))

Break(r) ==
  /\ phase[r] = "running"
  /\ \E kind \in {"validatorError", "nilError", "panic"} : Decide(r, Outcome(kind))

(* The running validator has nothing against the object.                   *)
Pass(r) ==
  /\ phase[r] = "running"
  /\ \E res \in Returns[Sequence[Len(calls[r])]] : ~res.stop /\ res.valid
  /\ phase' = [phase EXCEPT ![r] = "ready"]
  /\ UNCHANGED <<ctxDone, calls, late, answer>>

(* The running validator denies, or stops the others.                      *)
Rule(r) ==
  /\ phase[r] = "running"
  /\ \E res \in Returns[Sequence[Len(calls[r])]] :
       /\ res.stop \/ ~res.valid
       /\ Decide(r, Verdict(res.valid, res.msg))

Next == \E r \in Requests : \/ Cancel(r) \/ Begin(r) \/ Call(r) \/ GiveUp(r) \/ Finish(r)
                            \/ Break(r) \/ Pass(r) \/ Rule(r)

Spec == Init /\ [][Next]_vars
=============================================================================
