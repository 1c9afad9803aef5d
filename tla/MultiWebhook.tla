---------------------------- MODULE MultiWebhook ----------------------------
(***************************************************************************)
(* The life of the program in examples/multiwebhook: Run sets everything   *)
(* up, starts a goroutine for each of its two servers (the webhooks and    *)
(* the metrics), asks for signals and waits for the first server that      *)
(* fails or the first signal; then stop closes stopC and sleeps for the    *)
(* grace period, and main exits with what is in flight.                    *)
(*                                                                         *)
(* External: net/http, which starts a server, fails at any time and serves *)
(* each request in a goroutine of its own; the runtime, which kills a      *)
(* program that has not asked for signals; API server, user and network.   *)
(***************************************************************************)
EXTENDS Naturals, FiniteSets

CONSTANTS
  Requests,     \* the requests of the API server
  MaxSignals    \* bound on the signals sent

ASSUME MultiWebhookAssumption == MaxSignals \in Nat

Servers == {"webhooks", "metrics"}

VARIABLES
  main,      \* where the main goroutine is
  server,    \* server[s]: what the goroutine of server s does
  sigC,      \* the signals in the channel of one place
  sent,      \* the signals sent so far
  cause,     \* what made Run return
  exit,      \* how the process ended, "running" before
  request    \* request[r]: what became of request r

vars == <<main, server, sigC, sent, cause, exit, request>>

Init ==
  /\ main = "setup"
  /\ server = [s \in Servers |-> "none"]
  /\ sigC = 0
  /\ sent = 0
  /\ cause = "none"
  /\ exit = "running"
  /\ request = [r \in Requests |-> "new"]

Running == exit = "running"

(* The process ends, and with it what it was answering.                    *)
End(how) ==
  /\ exit' = how
  /\ request' = [r \in Requests |-> IF request[r] = "inFlight" THEN "lost" ELSE request[r]]

(* The recorder, a webhook or a handler cannot be made: Run returns before *)
(* its deferred stop, and main exits.                                      *)
SetupFails ==
  /\ Running /\ main = "setup"
  /\ main' = "returned"
  /\ cause' = "setup"
  /\ End("1")
  /\ UNCHANGED <<server, sigC, sent>>

(* The goroutines of both servers are started.                             *)
StartServers ==
  /\ Running /\ main = "setup"
  /\ main' = "started"
  /\ server' = [s \in Servers |-> "starting"]
  /\ UNCHANGED <<sigC, sent, cause, exit, request>>

(* createSignalChan: signals go to the channel from now on.                *)
Notify ==
  /\ Running /\ main = "started"
  /\ main' = "select"
  /\ UNCHANGED <<server, sigC, sent, cause, exit, request>>

Listen(s) ==
  /\ Running /\ server[s] = "starting"
  /\ server' = [server EXCEPT ![s] = "listening"]
  /\ UNCHANGED <<main, sigC, sent, cause, exit, request>>

(* ListenAndServe returns, with an error, and is about to send it.         *)
ServerFails(s) ==
  /\ Running /\ server[s] \in {"starting", "listening"}
  /\ server' = [server EXCEPT ![s] = "failed"]
  /\ UNCHANGED <<main, sigC, sent, cause, exit, request>>

(* A SIGTERM or SIGINT: deadly before Notify, lost if the channel is full. *)
Signal ==
  /\ Running /\ sent < MaxSignals
  /\ sent' = sent + 1
  /\ IF main \in {"setup", "started"}
     THEN End("killed") /\ UNCHANGED sigC
     ELSE sigC' = 1 /\ UNCHANGED <<exit, request>>
  /\ UNCHANGED <<main, server, cause>>

(* A bug: the error is logged and Run returns nil.                         *)
ReceiveErrorOnly(s) ==
  /\ Running /\ main = "select" /\ server[s] = "failed"
  /\ server' = [server EXCEPT ![s] = "sent"]
  /\ cause' = "signal"
  /\ main' = "stop"
  /\ UNCHANGED <<sigC, sent, exit, request>>

(* select, case err := <-errC.  The channel is not buffered: a server that *)
(* fails when nobody receives any more waits until the process ends.       *)
ReceiveError(s) ==
  /\ Running /\ main = "select" /\ server[s] = "failed"
  /\ server' = [server EXCEPT ![s] = "sent"]
  /\ cause' = "error"
  /\ main' = "stop"
  /\ UNCHANGED <<sigC, sent, exit, request>>

(* select, case s := <-sigC.                                               *)
ReceiveSignal ==
  /\ Running /\ main = "select" /\ sigC = 1
  /\ sigC' = 0
  /\ cause' = "signal"
  /\ main' = "stop"
  /\ UNCHANGED <<server, sent, exit, request>>

(* stop, deferred: stopC is closed, which nobody reads, and main sleeps.   *)
Stop ==
  /\ Running /\ main = "stop"
  /\ main' = "grace"
  /\ UNCHANGED <<server, sigC, sent, cause, exit, request>>

(* A bug: what is in flight is waited for without a limit.                 *)
ExitDrained ==
  /\ Running /\ main = "grace"
  /\ \A r \in Requests : request[r] # "inFlight"
  /\ main' = "returned"
  /\ End(IF cause = "error" THEN "1" ELSE "0")
  /\ UNCHANGED <<server, sigC, sent, cause>>

(* The grace period is over: Run returns and main exits.                   *)
Exit ==
  /\ Running /\ main = "grace"
  /\ main' = "returned"
  /\ End(IF cause = "error" THEN "1" ELSE "0")
  /\ UNCHANGED <<server, sigC, sent, cause>>

(* The API server connects.                                                *)
Connect(r) ==
  /\ request[r] = "new"
  /\ request' = [request EXCEPT ![r] =
                   IF Running /\ server["webhooks"] = "listening" THEN "inFlight" ELSE "refused"]
  /\ UNCHANGED <<main, server, sigC, sent, cause, exit>>

(* The handler answers, which may take longer than the grace period; its   *)
(* goroutine outlives the listener.                                        *)
Answer(r) ==
  /\ Running /\ request[r] = "inFlight"
  /\ request' = [request EXCEPT ![r] = "answered"]
  /\ UNCHANGED <<main, server, sigC, sent, cause, exit>>

MainStep == \/ SetupFails \/ StartServers \/ Notify \/ (\E s \in Servers : ReceiveError(s))
            \/ ReceiveSignal \/ Stop \/ Exit

Outside == \/ \E s \in Servers : Listen(s) \/ ServerFails(s)
           \/ Signal
           \/ \E r \in Requests : Connect(r) \/ Answer(r)

Done == ~Running /\ UNCHANGED vars

Next == MainStep \/ Outside \/ Done

Spec == Init /\ [][Next]_vars

(* The main goroutine runs when it can, and a sleep ends.  No server need  *)
(* fail, no signal need come, no request need be answered.                 *)
FairSpec == Spec /\ WF_vars(MainStep)

-----------------------------------------------------------------------------
(* Properties.                                                             *)

(* The exit code tells a failure from a stop, and the program never ends   *)
(* unless a server failed, a signal came or nothing could be set up: 0     *)
(* after a signal and only then, 1 after an error (main.go:109-121,        *)
(* 145-150).                                                               *)
ExitExplained ==
  /\ exit = "0" => sent > 0
  /\ exit = "1" => cause = "setup" \/ \E s \in Servers : server[s] = "sent"
  /\ (\E s \in Servers : server[s] = "sent") => exit # "0"
  /\ exit = "killed" => sent > 0 /\ cause = "none"

(* A failure of a server and a signal that was asked for end the program,  *)
(* whatever the requests do and whatever else fails meanwhile              *)
(* (main.go:106-121).                                                      *)
AlwaysEnds == ((\E s \in Servers : server[s] = "failed") \/ sigC = 1) ~> ~Running
=============================================================================
