-------------------------- MODULE AdmissionService --------------------------
(***************************************************************************)
(* What the API server may rely on when it sends one review: the service   *)
(* takes a decision once and never takes it back, the HTTP status follows  *)
(* from the decision before any of the body is sent, and what arrives is   *)
(* that decision, addressed to the review, or no decision at all.  Only a  *)
(* decision to allow is ever received as one.  Handler implements this     *)
(* module.                                                                 *)
(***************************************************************************)
EXTENDS Naturals

VARIABLES
  address,    \* the review: its version and its uid
  decision,   \* "pending", "rejected", "allow", "deny", "error", "aborted"
  status,     \* the HTTP status sent, 0 before
  received    \* "nothing" yet, "cut" short, "text", or a decision

vars == <<address, decision, status, received>>

Nothing == [verdict |-> "nothing", to |-> {}]

StatusOf(d) == IF d = "error" THEN 500 ELSE 200

Init == decision = "pending" /\ status = 0 /\ received = Nothing

(* The request holds no review: 400 and a text, if it can be sent.         *)
Reject ==
  /\ decision = "pending"
  /\ decision' = "rejected"
  /\ status' = 400
  /\ received' \in {[verdict |-> "text", to |-> {}], [verdict |-> "cut", to |-> {}]}
  /\ UNCHANGED address

Decide ==
  /\ decision = "pending"
  /\ decision' \in {"allow", "deny", "error", "aborted"}
  /\ UNCHANGED <<address, status, received>>

SendStatus ==
  /\ decision \in {"allow", "deny", "error"}
  /\ status = 0
  /\ status' = StatusOf(decision)
  /\ UNCHANGED <<address, decision, received>>

Send(d) ==
  /\ decision = d
  /\ status \in {0, StatusOf(d)}
  /\ received = Nothing
  /\ status' = StatusOf(d)
  /\ \/ received' = [verdict |-> d, to |-> {address}]
     \/ received' = [verdict |-> "cut", to |-> {}]
  /\ UNCHANGED <<address, decision>>

Next == Reject \/ Decide \/ SendStatus \/ \E d \in {"allow", "deny", "error"} : Send(d)

Spec == Init /\ [][Next]_vars
=============================================================================
