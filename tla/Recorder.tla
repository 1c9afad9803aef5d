------------------------------ MODULE Recorder ------------------------------
(***************************************************************************)
(* The registration of a recorder (NewRecorder, pkg/metrics/prometheus):   *)
(* three collectors, put one after the other into a registry that other    *)
(* recorders and the user's own collectors share.  Registering a name that *)
(* is taken panics, and what was registered before stays; the application  *)
(* may recover, and other goroutines go on.                                *)
(*                                                                         *)
(* The registry is external: registering one collector is atomic and       *)
(* refuses a name it has.                                                  *)
(***************************************************************************)
EXTENDS Naturals, Sequences, SequencesExt

CONSTANTS
  Recorders,    \* the calls of NewRecorder
  Registries,   \* the registries
  Default,      \* prometheus.DefaultRegisterer
  None,         \* no registry given; nobody has the name
  Given,        \* Given[n]: config.Registry of call n, or None
  User,         \* the owner of the user's collectors
  UserNames     \* UserNames[g]: the names the user may register in g

(* The names of the collectors, in the order of the call.                  *)
Collectors == <<"validating_duration", "mutating_duration", "warnings">>
Names      == ToSet(Collectors)

ASSUME RecorderAssumption ==
  /\ Default \in Registries
  /\ None \notin Registries \cup Recorders \cup {User}
  /\ User \notin Recorders
  /\ Given \in [Recorders -> Registries \cup {None}]
  /\ UserNames \in [Registries -> SUBSET Names]

VARIABLES
  pc,         \* pc[n]: where the call of NewRecorder is
  next,       \* next[n]: the collector MustRegister is at
  registry    \* registry[g][name]: whose collector has the name

vars == <<pc, next, registry>>

-----------------------------------------------------------------------------
(* RecorderConfig.defaults.                                                *)
Target(n) == IF Given[n] = None THEN Default ELSE Given[n]

Init ==
  /\ pc = [n \in Recorders |-> "idle"]
  /\ next = [n \in Recorders |-> 1]
  /\ registry = [g \in Registries |-> [name \in Names |-> None]]

(* The collectors are made, and MustRegister is called.                    *)
New(n) ==
  /\ pc[n] = "idle"
  /\ pc' = [pc EXCEPT ![n] = "register"]
  /\ UNCHANGED <<next, registry>>

(* A bug: the collectors are registered in any order.                      *)
NameInAnyOrder(n) == {name \in Names : registry[Target(n)][name] # n}
(* The collector that is registered next.                                  *)
Name(n) == {Collectors[next[n]]}

(* A bug: the recorder is returned before the last one.                    *)
RegisterAllButLast(n) ==
  /\ pc[n] = "register"
  /\ \E name \in Name(n) :
       /\ registry[Target(n)][name] = None
       /\ registry' = [registry EXCEPT ![Target(n)][name] = n]
  /\ next' = [next EXCEPT ![n] = @ + 1]
  /\ pc' = [pc EXCEPT ![n] = IF next[n] = Len(Collectors) - 1 THEN "ready" ELSE @]

(* Registering it succeeds; NewRecorder returns after the last one.        *)
Register(n) ==
  /\ pc[n] = "register"
  /\ \E name \in Name(n) :
       /\ registry[Target(n)][name] = None
       /\ registry' = [registry EXCEPT ![Target(n)][name] = n]
  /\ next' = [next EXCEPT ![n] = @ + 1]
  /\ pc' = [pc EXCEPT ![n] = IF next[n] = Len(Collectors) THEN "ready" ELSE @]

(* A bug: a name that is taken is taken over.                              *)
CollideTakingOver(n) ==
  /\ pc[n] = "register"
  /\ \E name \in Name(n) :
       /\ registry[Target(n)][name] # None
       /\ registry' = [registry EXCEPT ![Target(n)][name] = n]
  /\ next' = [next EXCEPT ![n] = @ + 1]
  /\ pc' = [pc EXCEPT ![n] = IF next[n] = Len(Collectors) THEN "ready" ELSE @]

(* MustRegister panics.                                                    *)
Collide(n) ==
  /\ pc[n] = "register"
  /\ \E name \in Name(n) : registry[Target(n)][name] # None
  /\ pc' = [pc EXCEPT ![n] = "panicked"]
  /\ UNCHANGED <<next, registry>>

(* The user registers a collector of that name, or takes it back.  With    *)
(* other labels than the library's it leaves the name to the user for      *)
(* good: the registry remembers them, and a recorder still panics.         *)
UserRegisters(g) ==
  /\ \E name \in UserNames[g] :
       \/ registry[g][name] = None /\ registry' = [registry EXCEPT ![g][name] = User]
       \/ registry[g][name] = User /\ registry' = [registry EXCEPT ![g][name] = None]
  /\ UNCHANGED <<pc, next>>

RecorderStep(n) == New(n) \/ Register(n) \/ Collide(n)

Done == (\A n \in Recorders : pc[n] \in {"ready", "panicked"}) /\ UNCHANGED vars

Next == \/ \E n \in Recorders : RecorderStep(n)
        \/ \E g \in Registries : UserRegisters(g)
        \/ Done

Spec == Init /\ [][Next]_vars

(* The goroutines that call NewRecorder run.                               *)
FairSpec == Spec /\ \A n \in Recorders : WF_vars(RecorderStep(n))

-----------------------------------------------------------------------------
(* Properties.                                                             *)

(* The types of the state.                                                 *)
TypeOK ==
  /\ pc \in [Recorders -> {"idle", "register", "ready", "panicked"}]
  /\ next \in [Recorders -> 1..Len(Collectors) + 1]
  /\ registry \in [Registries -> [Names -> Recorders \cup {User, None}]]
  /\ \A n \in Recorders : pc[n] = "ready" <=> next[n] = Len(Collectors) + 1

Owns(n, name) == registry[Target(n)][name] = n

(* A recorder that was returned has all its collectors in its registry, and *)
(* goes on having them: no measure of it is ever lost to another recorder  *)
(* or collector, so no two recorders of a registry are returned            *)
(* (prometheus.go:75-81).                                                  *)
ReadyOwnsAll == \A n \in Recorders : pc[n] = "ready" => \A name \in Names : Owns(n, name)

(* Recorders that race for a registry nobody else uses do not all fail:    *)
(* whoever is first to register gets everything, because all of them       *)
(* register in the same order (prometheus.go:75-79).                       *)
SomeoneWins ==
  \A g \in Registries :
    LET callers == {n \in Recorders : Target(n) = g}
    IN  UserNames[g] = {} /\ callers # {} => <>(\E n \in callers : pc[n] = "ready")
=============================================================================
