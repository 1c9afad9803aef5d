------------------------- MODULE MultiWebhookProofs -------------------------
(***************************************************************************)
(* Proofs about MultiWebhook, for any requests and any number of signals.  *)
(***************************************************************************)
EXTENDS MultiWebhook, TLAPS

(* A server whose error Run has received.                                  *)
Received == \E s \in Servers : server[s] = "sent"

(* What made Run return is settled once, at its select or in its setup,    *)
(* and goes with the place of the main goroutine and with the exit.        *)
CauseInv ==
  /\ main \in {"setup", "started", "select", "stop", "grace", "returned"}
  /\ server \in [Servers -> {"none", "starting", "listening", "failed", "sent"}]
  /\ sent \in Nat
  /\ sigC = 1 => sent > 0
  /\ cause \in {"none", "setup", "error", "signal"}
  /\ exit \in {"running", "0", "1", "killed"}
  /\ main \in {"setup", "started", "select"} => cause = "none"
  /\ main \in {"stop", "grace"} => cause \in {"error", "signal"}
  /\ cause = "error" <=> Received
  /\ cause = "signal" => sent > 0
  /\ exit = "0" => cause = "signal"
  /\ exit = "1" => cause \in {"setup", "error"}
  /\ exit = "killed" => sent > 0 /\ cause = "none"

LEMMA InitCauseInv == Init => CauseInv
BY DEF Init, CauseInv, Received, Servers

LEMMA NextCauseInv == CauseInv /\ [Next]_vars => CauseInv'
<1> SUFFICES ASSUME CauseInv, [Next]_vars PROVE CauseInv'
  OBVIOUS
<1> USE DEF CauseInv, Received, Running
<1>1. CASE SetupFails
  BY <1>1 DEF SetupFails, End
<1>2. CASE StartServers
  BY <1>2 DEF StartServers
<1>3. CASE Notify
  BY <1>3 DEF Notify
<1>4. ASSUME NEW s \in Servers, ReceiveError(s) PROVE CauseInv'
  BY <1>4 DEF ReceiveError
<1>5. CASE ReceiveSignal
  BY <1>5 DEF ReceiveSignal
<1>6. CASE Stop
  BY <1>6 DEF Stop
<1>7. CASE Exit
  BY <1>7 DEF Exit, End
<1>8. ASSUME NEW s \in Servers, Listen(s) \/ ServerFails(s) PROVE CauseInv'
  BY <1>8 DEF Listen, ServerFails
<1>9. CASE Signal
  BY <1>9 DEF Signal, End
<1>10. ASSUME NEW r \in Requests, Connect(r) \/ Answer(r) PROVE CauseInv'
  BY <1>10 DEF Connect, Answer
<1>11. CASE UNCHANGED vars
  BY <1>11 DEF vars
<1> QED
  BY <1>1, <1>2, <1>3, <1>4, <1>5, <1>6, <1>7, <1>8, <1>9, <1>10, <1>11
  DEF Next, MainStep, Outside, Done

(* The exit code is that of the first failure or signal that was heard,    *)
(* and there was one (main.go:109-121, 145-150).                           *)
THEOREM ExitCodeExplained == Spec => []ExitExplained
<1>1. CauseInv => ExitExplained
  BY DEF CauseInv, Received, ExitExplained
<1> QED
  BY <1>1, InitCauseInv, NextCauseInv, PTL DEF Spec

(* Run receives the error of one server at most: the other, if it fails    *)
(* too, waits for good at the channel, and nothing it says changes the     *)
(* cause (main.go:109-121).                                                *)
FirstCauseOnly ==
  /\ [][cause # "none" => cause' = cause]_vars
  /\ [](\A s, t \in Servers : server[s] = "sent" /\ server[t] = "sent" => s = t)

THEOREM FirstCauseStands == Spec => FirstCauseOnly
<1> DEFINE OneSent == \A s, t \in Servers : server[s] = "sent" /\ server[t] = "sent" => s = t
<1>1. CauseInv /\ [Next]_vars => [cause # "none" => cause' = cause]_vars
  <2> SUFFICES ASSUME CauseInv, [Next]_vars, cause # "none" PROVE cause' = cause
    OBVIOUS
  <2>1. main \in {"stop", "grace", "returned"}
    BY DEF CauseInv
  <2> QED
    BY <2>1 DEF Next, MainStep, Outside, Done, vars, SetupFails, StartServers, Notify, ReceiveError,
      ReceiveSignal, Stop, Exit, Listen, ServerFails, Signal, Connect, Answer
<1>2. Init => OneSent
  BY DEF Init
<1>3. CauseInv /\ OneSent /\ [Next]_vars => OneSent'
  <2> SUFFICES ASSUME CauseInv, OneSent, [Next]_vars PROVE OneSent'
    OBVIOUS
  <2>1. ASSUME NEW s \in Servers, ReceiveError(s) PROVE OneSent'
    <3>1. \A t \in Servers : server[t] # "sent"
      BY <2>1 DEF ReceiveError, CauseInv, Received
    <3>2. server' = [server EXCEPT ![s] = "sent"]
      BY <2>1 DEF ReceiveError
    <3> QED
      BY <3>1, <3>2 DEF CauseInv
  <2>2. ASSUME NEW s \in Servers, Listen(s) \/ ServerFails(s) PROVE OneSent'
    BY <2>2 DEF Listen, ServerFails, CauseInv
  <2>3. CASE StartServers
    BY <2>3 DEF StartServers
  <2>4. CASE UNCHANGED server
    BY <2>4
  <2>5. SetupFails \/ Notify \/ ReceiveSignal \/ Stop \/ Exit \/ Signal \/ UNCHANGED vars
          \/ (\E r \in Requests : Connect(r) \/ Answer(r)) => UNCHANGED server
    BY DEF SetupFails, Notify, ReceiveSignal, Stop, Exit, Signal, vars, Connect, Answer
  <2> QED
    BY <2>1, <2>2, <2>3, <2>4, <2>5 DEF Next, MainStep, Outside, Done
<1> QED
  BY <1>1, <1>2, <1>3, InitCauseInv, NextCauseInv, PTL DEF Spec, FirstCauseOnly
=============================================================================
