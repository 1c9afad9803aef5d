--------------------------- MODULE MetricsProofs ----------------------------
(***************************************************************************)
(* Proofs about Recorder and Metrics, for any recorders, registries,       *)
(* webhooks and reviews, and whatever the application registers and takes  *)
(* back.                                                                   *)
(***************************************************************************)
EXTENDS Metrics, FiniteSetTheorems, TLAPS

(* The names, without sequences.                                           *)
LEMMA ThreeNames ==
  /\ Len(Collectors) = 3
  /\ Names = {Collectors[k] : k \in 1..3}
  /\ \A k \in 1..3 : Collectors[k] \in Names
BY DEF Collectors, Names, ToSet

LEMMA TargetType == \A n \in Recorders : Target(n) \in Registries
BY RecorderAssumption DEF Target

(* A call owns the names it has been through, also after it has panicked.  *)
Through(n) == \A k \in 1..(next[n] - 1) : registry[Target(n)][Collectors[k]] = n

RecInv == TypeOK /\ \A n \in Recorders : Through(n)

LEMMA InitRecInv == Init => RecInv
<1> SUFFICES ASSUME Init PROVE RecInv
  OBVIOUS
<1>1. TypeOK
  BY ThreeNames DEF Init, TypeOK
<1>2. ASSUME NEW n \in Recorders PROVE Through(n)
  BY DEF Init, Through
<1> QED
  BY <1>1, <1>2 DEF RecInv

(* A step of the registry that leaves the names of recorders alone.        *)
LEMMA OwnersStay ==
  ASSUME RecInv, NEW n \in Recorders, next'[n] = next[n],
         \A g \in Registries : \A name \in Names :
           registry[g][name] \in Recorders => registry'[g][name] = registry[g][name]
  PROVE  Through(n)'
<1>1. next[n] \in 1..4 /\ Target(n) \in Registries
  BY ThreeNames, TargetType DEF RecInv, TypeOK
<1>2. ASSUME NEW k \in 1..(next[n] - 1)
      PROVE  registry'[Target(n)][Collectors[k]] = n
  <2>1. Collectors[k] \in Names
    BY <1>1, ThreeNames
  <2>2. registry[Target(n)][Collectors[k]] = n
    BY DEF RecInv, Through
  <2> QED
    BY <1>1, <2>1, <2>2
<1>3. Target(n)' = Target(n)
  BY DEF Target
<1> QED
  BY <1>2, <1>3 DEF Through

(* A registration takes a name nobody has.                                 *)
LEMMA RegisterRecInv ==
  ASSUME RecInv, NEW n \in Recorders, Register(n)
  PROVE  RecInv'
<1>1. /\ pc[n] = "register" /\ next[n] \in 1..3
      /\ Collectors[next[n]] \in Names /\ Target(n) \in Registries
  BY ThreeNames, TargetType DEF RecInv, TypeOK, Register
<1>2. /\ registry[Target(n)][Collectors[next[n]]] = None
      /\ registry' = [registry EXCEPT ![Target(n)][Collectors[next[n]]] = n]
      /\ next' = [next EXCEPT ![n] = @ + 1]
      /\ pc' = [pc EXCEPT ![n] = IF next[n] = 3 THEN "ready" ELSE @]
  BY ThreeNames DEF Register, Name
<1>3. TypeOK'
  <2>1. pc' \in [Recorders -> {"idle", "register", "ready", "panicked"}]
    BY <1>2 DEF RecInv, TypeOK
  <2>2. next' \in [Recorders -> 1..4]
    BY <1>1, <1>2, ThreeNames DEF RecInv, TypeOK
  <2>3. registry' \in [Registries -> [Names -> Recorders \cup {User, None}]]
    BY <1>1, <1>2 DEF RecInv, TypeOK
  <2>4. ASSUME NEW m \in Recorders PROVE pc'[m] = "ready" <=> next'[m] = 4
    BY <1>1, <1>2, ThreeNames DEF RecInv, TypeOK
  <2> QED
    BY <2>1, <2>2, <2>3, <2>4, ThreeNames DEF TypeOK
<1>4. \A g \in Registries : \A name \in Names :
        registry[g][name] \in Recorders => registry'[g][name] = registry[g][name]
  BY <1>1, <1>2, RecorderAssumption DEF RecInv, TypeOK
<1>5. ASSUME NEW m \in Recorders, m # n PROVE Through(m)'
  <2>1. next'[m] = next[m]
    BY <1>2, <1>5 DEF RecInv, TypeOK
  <2> QED
    BY <1>4, <2>1, OwnersStay
<1>6. Through(n)'
  <2>1. next'[n] = next[n] + 1 /\ Target(n)' = Target(n)
    BY <1>2 DEF RecInv, TypeOK, Target
  <2>2. registry'[Target(n)][Collectors[next[n]]] = n
    BY <1>1, <1>2 DEF RecInv, TypeOK
  <2>3. ASSUME NEW k \in 1..(next[n] - 1) PROVE registry'[Target(n)][Collectors[k]] = n
    <3>1. k \in 1..3 /\ Collectors[k] \in Names
      BY <1>1, ThreeNames
    <3>2. registry[Target(n)][Collectors[k]] = n
      BY DEF RecInv, Through
    <3> QED
      BY <1>1, <1>4, <3>1, <3>2
  <2>4. \A k \in 1..(next'[n] - 1) : k = next[n] \/ k \in 1..(next[n] - 1)
    BY <1>1, <2>1
  <2> QED
    BY <2>1, <2>2, <2>3, <2>4 DEF Through
<1> QED
  BY <1>3, <1>5, <1>6 DEF RecInv

LEMMA NextRecInv == RecInv /\ [Next]_vars => RecInv'
<1> SUFFICES ASSUME RecInv, [Next]_vars PROVE RecInv'
  OBVIOUS
<1>1. ASSUME TypeOK', next' = next,
             \A g \in Registries : \A name \in Names :
               registry[g][name] \in Recorders => registry'[g][name] = registry[g][name]
      PROVE  RecInv'
  BY <1>1, OwnersStay DEF RecInv
<1>2. ASSUME NEW n \in Recorders, New(n) \/ Collide(n) PROVE RecInv'
  <2>1. next' = next /\ registry' = registry
    BY <1>2 DEF New, Collide
  <2>2. \E label \in {"register", "panicked"} :
          pc[n] \in {"idle", "register"} /\ pc' = [pc EXCEPT ![n] = label]
    BY <1>2 DEF New, Collide
  <2>3. TypeOK'
    BY <2>1, <2>2 DEF RecInv, TypeOK
  <2> QED
    BY <1>1, <2>1, <2>3
<1>3. ASSUME NEW n \in Recorders, Register(n) PROVE RecInv'
  BY <1>3, RegisterRecInv
<1>4. ASSUME NEW g \in Registries, UserRegisters(g) PROVE RecInv'
  <2>1. PICK name \in UserNames[g] :
          \/ registry[g][name] = None /\ registry' = [registry EXCEPT ![g][name] = User]
          \/ registry[g][name] = User /\ registry' = [registry EXCEPT ![g][name] = None]
    BY <1>4 DEF UserRegisters
  <2>2. name \in Names /\ pc' = pc /\ next' = next
    BY <1>4, RecorderAssumption DEF UserRegisters
  <2>3. registry' \in [Registries -> [Names -> Recorders \cup {User, None}]]
    BY <2>1, <2>2 DEF RecInv, TypeOK
  <2>4. TypeOK'
    BY <2>2, <2>3 DEF RecInv, TypeOK
  <2>5. \A h \in Registries : \A m \in Names :
          registry[h][m] \in Recorders => registry'[h][m] = registry[h][m]
    <3>1. \A h \in Registries : \A m \in Names :
            ~(h = g /\ m = name) => registry'[h][m] = registry[h][m]
      BY <2>1, <2>2 DEF RecInv, TypeOK
    <3>2. registry[g][name] \notin Recorders
      BY <2>1, RecorderAssumption
    <3> QED
      BY <3>1, <3>2
  <2> QED
    BY <1>1, <2>2, <2>4, <2>5
<1>5. CASE UNCHANGED vars
  BY <1>1, <1>5 DEF RecInv, TypeOK, vars
<1> QED
  BY <1>2, <1>3, <1>4, <1>5 DEF Next, RecorderStep, Done

LEMMA RecInvariant == Spec => []RecInv
BY InitRecInv, NextRecInv, PTL DEF Spec

(* TypeOK, for any number of calls and registries.                         *)
THEOREM RecorderTypes == Spec => []TypeOK
BY RecInvariant, PTL DEF RecInv

LEMMA RecInvOwns == RecInv => ReadyOwnsAll
<1> SUFFICES ASSUME RecInv, NEW n \in Recorders, pc[n] = "ready", NEW name \in Names
             PROVE  Owns(n, name)
  BY DEF ReadyOwnsAll
<1>1. next[n] = 4
  BY ThreeNames DEF RecInv, TypeOK
<1>2. PICK k \in 1..3 : name = Collectors[k]
  BY ThreeNames
<1>3. registry[Target(n)][Collectors[k]] = n
  BY <1>1 DEF RecInv, Through
<1> QED
  BY <1>2, <1>3 DEF Owns

(* A recorder that was returned has its collectors in its registry for     *)
(* good, whatever other calls stop half way (prometheus.go:75-81).         *)
THEOREM ReturnedRecorderOwns == Spec => []ReadyOwnsAll
BY RecInvariant, RecInvOwns, PTL

(* No two recorders of one registry are returned.                          *)
OneReturned ==
  \A m, n \in Recorders :
    pc[m] = "ready" /\ pc[n] = "ready" /\ Target(m) = Target(n) => m = n

(* A second recorder for the same registry is never returned, however the  *)
(* calls interleave (prometheus.go:75-79).                                 *)
THEOREM OneRecorderEach == Spec => []OneReturned
<1>1. ReadyOwnsAll => OneReturned
  BY ThreeNames DEF ReadyOwnsAll, Owns, OneReturned
<1> QED
  BY <1>1, ReturnedRecorderOwns, PTL

-----------------------------------------------------------------------------
(* Where the application registers nothing, recorders do not all fail.     *)

(* The calls for registry g.                                               *)
Callers(g) == {n \in Recorders : Target(n) = g}

(* Not all calls for a registry panic: the one that registered first goes  *)
(* on to the end (prometheus.go:75-79).                                    *)
SomeoneLeft ==
  \A g \in Registries :
    UserNames[g] = {} /\ Callers(g) # {} => \E n \in Callers(g) : pc[n] # "panicked"

(* Whoever has a name has registered it in its registry, and is past it.   *)
OwnersPast ==
  \A g \in Registries, k \in 1..3 :
    registry[g][Collectors[k]] \in Recorders =>
      /\ Target(registry[g][Collectors[k]]) = g
      /\ k < next[registry[g][Collectors[k]]]

(* The first name of a registry where a call panicked is that of a call    *)
(* that did not.                                                           *)
FirstWins ==
  \A g \in Registries :
    UserNames[g] = {} =>
      /\ \A name \in Names : registry[g][name] # User
      /\ \A n \in Callers(g) : pc[n] = "panicked" => registry[g][Collectors[1]] # None
      /\ registry[g][Collectors[1]] \in Recorders =>
           pc[registry[g][Collectors[1]]] # "panicked"

WinInv == OwnersPast /\ FirstWins

LEMMA ThreeDistinct == \A j, k \in 1..3 : Collectors[j] = Collectors[k] => j = k
BY DEF Collectors

LEMMA InitWinInv == Init => WinInv
BY ThreeNames, RecorderAssumption DEF Init, WinInv, OwnersPast, FirstWins, Callers

(* The registry gains a name of the caller, the first or another.          *)
LEMMA RegisterWinInv ==
  ASSUME RecInv, WinInv, NEW n \in Recorders, Register(n)
  PROVE  WinInv'
<1>0. PICK g, j : g = Target(n) /\ j = next[n]
  OBVIOUS
<1>1. /\ pc[n] = "register" /\ j \in 1..3 /\ g \in Registries
      /\ registry[g][Collectors[j]] = None
      /\ registry' = [registry EXCEPT ![g][Collectors[j]] = n]
      /\ next' = [next EXCEPT ![n] = j + 1]
      /\ pc' = [pc EXCEPT ![n] = IF j = 3 THEN "ready" ELSE @]
  <2>1. pc[n] = "register" /\ j \in 1..3 /\ g \in Registries
    BY <1>0, ThreeNames, TargetType DEF RecInv, TypeOK, Register
  <2>2. /\ registry[Target(n)][Collectors[next[n]]] = None
        /\ registry' = [registry EXCEPT ![Target(n)][Collectors[next[n]]] = n]
        /\ next' = [next EXCEPT ![n] = @ + 1]
        /\ pc' = [pc EXCEPT ![n] = IF next[n] = 3 THEN "ready" ELSE @]
    BY ThreeNames DEF Register, Name
  <2>3. next' = [next EXCEPT ![n] = j + 1]
    BY <1>0, <2>2 DEF RecInv, TypeOK
  <2> QED
    BY <1>0, <2>1, <2>2, <2>3
<1>2. \A k \in 1..3 : Collectors[k] \in Names
  BY ThreeNames
<1>3. /\ registry'[g][Collectors[j]] = n
      /\ \A h \in Registries, name \in Names :
           ~(h = g /\ name = Collectors[j]) => registry'[h][name] = registry[h][name]
  BY <1>1, <1>2 DEF RecInv, TypeOK
<1>4. /\ \A m \in Recorders : next[m] \in Nat /\ next'[m] \in Nat /\ next[m] <= next'[m]
      /\ next'[n] = j + 1
  BY <1>0, <1>1, ThreeNames DEF RecInv, TypeOK
<1>5. /\ \A m \in Recorders : pc'[m] = "panicked" <=> pc[m] = "panicked"
      /\ pc'[n] # "panicked"
  BY <1>1 DEF RecInv, TypeOK
<1>6. OwnersPast'
  <2> SUFFICES ASSUME NEW h \in Registries, NEW k \in 1..3,
                      NEW m \in Recorders, m = registry'[h][Collectors[k]]
               PROVE  Target(m) = h /\ k < next'[m]
    BY DEF OwnersPast, Target
  <2>1. CASE h = g /\ k = j
    BY <1>0, <1>1, <1>3, <1>4, <2>1
  <2>2. CASE ~(h = g /\ k = j)
    <3>1. registry[h][Collectors[k]] = m
      BY <1>1, <1>2, <1>3, <2>2, ThreeDistinct
    <3>2. Target(m) = h /\ k < next[m]
      BY <3>1 DEF WinInv, OwnersPast
    <3> QED
      BY <1>4, <3>2
  <2> QED
    BY <2>1, <2>2
<1>7. FirstWins'
  <2> SUFFICES ASSUME NEW h \in Registries, UserNames[h] = {}
               PROVE  /\ \A name \in Names : registry'[h][name] # User
                      /\ \A m \in Callers(h) :
                           pc'[m] = "panicked" => registry'[h][Collectors[1]] # None
                      /\ registry'[h][Collectors[1]] \in Recorders =>
                           pc'[registry'[h][Collectors[1]]] # "panicked"
    BY DEF FirstWins, Callers, Target
  <2>1. \A name \in Names : registry'[h][name] = registry[h][name] \/ registry'[h][name] = n
    BY <1>3
  <2>2. /\ \A name \in Names : registry[h][name] # User
        /\ \A m \in Callers(h) : pc[m] = "panicked" => registry[h][Collectors[1]] # None
        /\ registry[h][Collectors[1]] \in Recorders =>
             pc[registry[h][Collectors[1]]] # "panicked"
    BY DEF WinInv, FirstWins
  <2>3. n # User /\ n # None /\ Callers(h) \subseteq Recorders
    BY RecorderAssumption DEF Callers
  <2>4. Collectors[1] \in Names
    BY <1>2
  <2> QED
    BY <1>5, <2>1, <2>2, <2>3, <2>4
<1> QED
  BY <1>6, <1>7 DEF WinInv

(* Whoever has the name that is in the way has the first one too, and is   *)
(* not the call that panics.                                               *)
LEMMA CollideWinInv ==
  ASSUME RecInv, WinInv, NEW n \in Recorders, Collide(n)
  PROVE  WinInv'
<1>0. PICK g, j : g = Target(n) /\ j = next[n]
  OBVIOUS
<1>1. /\ pc[n] = "register" /\ j \in 1..3 /\ g \in Registries
      /\ registry[g][Collectors[j]] # None
      /\ registry' = registry /\ next' = next /\ pc' = [pc EXCEPT ![n] = "panicked"]
  BY <1>0, ThreeNames, TargetType DEF RecInv, TypeOK, Collide, Name
<1>2. \A m \in Recorders : m # n => pc'[m] = pc[m]
  BY <1>1 DEF RecInv, TypeOK
<1>3. OwnersPast'
  BY <1>1 DEF WinInv, OwnersPast, Target
<1>4. ASSUME UserNames[g] = {}
      PROVE  registry[g][Collectors[1]] # None /\ registry[g][Collectors[1]] # n
  <2>1. registry[g][Collectors[j]] \in Recorders
    BY <1>1, <1>4, ThreeNames DEF RecInv, TypeOK, WinInv, FirstWins
  <2>2. PICK m \in Recorders : m = registry[g][Collectors[j]]
    BY <2>1
  <2>3. Target(m) = g /\ j < next[m] /\ next[m] \in Nat
    BY <1>1, <2>2, ThreeNames DEF RecInv, TypeOK, WinInv, OwnersPast
  <2>4. registry[g][Collectors[1]] = m
    BY <1>1, <2>3 DEF RecInv, Through
  <2>5. m # n /\ m # None
    BY <1>0, <1>1, <2>3, RecorderAssumption
  <2> QED
    BY <2>4, <2>5
<1>5. FirstWins'
  <2> SUFFICES ASSUME NEW h \in Registries, UserNames[h] = {}
               PROVE  /\ \A name \in Names : registry[h][name] # User
                      /\ \A m \in Callers(h) :
                           pc'[m] = "panicked" => registry[h][Collectors[1]] # None
                      /\ registry[h][Collectors[1]] \in Recorders =>
                           pc'[registry[h][Collectors[1]]] # "panicked"
    BY <1>1 DEF FirstWins, Callers, Target
  <2>1. /\ \A name \in Names : registry[h][name] # User
        /\ \A m \in Callers(h) : pc[m] = "panicked" => registry[h][Collectors[1]] # None
        /\ registry[h][Collectors[1]] \in Recorders =>
             pc[registry[h][Collectors[1]]] # "panicked"
    BY DEF WinInv, FirstWins
  <2>2. h = g \/ n \notin Callers(h)
    BY <1>0 DEF Callers
  <2>3. registry[h][Collectors[1]] \in Recorders => registry[h][Collectors[1]] # n
    <3>1. CASE h = g
      BY <1>4, <3>1
    <3>2. CASE h # g
      BY <1>0, <3>2 DEF WinInv, OwnersPast
    <3> QED
      BY <3>1, <3>2
  <2>4. Callers(h) \subseteq Recorders
    BY DEF Callers
  <2> QED
    BY <1>2, <1>4, <2>1, <2>2, <2>3, <2>4
<1> QED
  BY <1>3, <1>5 DEF WinInv

LEMMA NextWinInv == RecInv /\ WinInv /\ [Next]_vars => WinInv'
<1> SUFFICES ASSUME RecInv, WinInv, [Next]_vars PROVE WinInv'
  OBVIOUS
<1>1. ASSUME NEW n \in Recorders, New(n) PROVE WinInv'
  <2>1. /\ registry' = registry /\ next' = next
        /\ \A m \in Recorders : pc'[m] = "panicked" <=> pc[m] = "panicked"
    BY <1>1 DEF New, RecInv, TypeOK
  <2>2. OwnersPast'
    BY <2>1 DEF WinInv, OwnersPast, Target
  <2>3. FirstWins'
    BY <2>1 DEF WinInv, FirstWins, Callers, Target
  <2> QED
    BY <2>2, <2>3 DEF WinInv
<1>2. ASSUME NEW g \in Registries, UserRegisters(g) PROVE WinInv'
  <2>1. pc' = pc /\ next' = next /\ UserNames[g] # {}
    BY <1>2 DEF UserRegisters
  <2>2. \A h \in Registries : h # g => registry'[h] = registry[h]
    BY <1>2 DEF UserRegisters, RecInv, TypeOK
  <2>3. \A name \in Names :
          registry'[g][name] \in Recorders => registry'[g][name] = registry[g][name]
    BY <1>2, RecorderAssumption DEF UserRegisters, RecInv, TypeOK
  <2>4. \A k \in 1..3 : Collectors[k] \in Names
    BY ThreeNames
  <2>5. OwnersPast'
    <3> SUFFICES ASSUME NEW h \in Registries, NEW k \in 1..3,
                        registry'[h][Collectors[k]] \in Recorders
                 PROVE  /\ Target(registry[h][Collectors[k]]) = h
                        /\ k < next[registry[h][Collectors[k]]]
                        /\ registry'[h][Collectors[k]] = registry[h][Collectors[k]]
      BY <2>1 DEF OwnersPast, Target
    <3>1. registry'[h][Collectors[k]] = registry[h][Collectors[k]]
      BY <2>2, <2>3, <2>4
    <3> QED
      BY <3>1 DEF WinInv, OwnersPast
  <2>6. FirstWins'
    BY <2>1, <2>2 DEF WinInv, FirstWins, Callers, Target
  <2> QED
    BY <2>5, <2>6 DEF WinInv
<1>3. CASE UNCHANGED vars
  BY <1>3 DEF WinInv, OwnersPast, FirstWins, Callers, Target, vars
<1> QED
  BY <1>1, <1>2, <1>3, RegisterWinInv, CollideWinInv DEF Next, RecorderStep, Done

(* In a registry that only recorders use, some call does not panic, so     *)
(* that one is returned once all are over: the safety that SomeoneWins     *)
(* rests on (prometheus.go:75-79).                                         *)
THEOREM SomeoneIsLeft == Spec => []SomeoneLeft
<1>1. RecInv /\ WinInv => SomeoneLeft
  <2> SUFFICES ASSUME RecInv, WinInv, NEW g \in Registries, UserNames[g] = {},
                      NEW n \in Callers(g)
               PROVE  \E m \in Callers(g) : pc[m] # "panicked"
    BY DEF SomeoneLeft
  <2>1. CASE pc[n] # "panicked"
    BY <2>1
  <2>2. CASE pc[n] = "panicked"
    <3>1. registry[g][Collectors[1]] \in Recorders
      <4>1. registry[g][Collectors[1]] \in Recorders \cup {User, None}
        BY ThreeNames DEF RecInv, TypeOK
      <4>2. Collectors[1] \in Names
        BY ThreeNames
      <4> QED
        BY <2>2, <4>1, <4>2 DEF WinInv, FirstWins
    <3>2. PICK m \in Recorders : m = registry[g][Collectors[1]]
      BY <3>1
    <3>3. Target(m) = g /\ pc[m] # "panicked"
      BY <3>2 DEF WinInv, OwnersPast, FirstWins
    <3> QED
      BY <3>3 DEF Callers
  <2> QED
    BY <2>1, <2>2
<1> QED
  BY <1>1, RecInvariant, InitWinInv, NextWinInv, PTL DEF Spec

-----------------------------------------------------------------------------
(* The composition.                                                        *)

(* A step of the composition is one of the recorders, or leaves them as    *)
(* they are.                                                               *)
LEMMA MetricsStepIsRecorderStep == [MetricsNext]_<<vars, measures>> => [Next]_vars
BY DEF MetricsNext, AllDone, Next, Done, vars

(* Reviews and their measures do not disturb the recorders: the            *)
(* composition implements Recorder, with everything proved of it.          *)
LEMMA MeasuringKeepsRecorders == MetricsSpec => Spec
<1>1. MetricsInit => Init
  BY DEF MetricsInit
<1> QED
  BY <1>1, MetricsStepIsRecorderStep, PTL DEF MetricsSpec, Spec

LEMMA RecordersWhileMeasuring == MetricsSpec => []RecInv
BY MeasuringKeepsRecorders, RecInvariant, PTL

(* The types, that only responses are measured, and that a review is of a  *)
(* webhook whose recorder was returned.                                    *)
MetricsTypes ==
  /\ webhook \in [Reviews -> Webhooks]
  /\ place \in [Reviews -> {"review", "measure", "warn", "done"}]
  /\ outcome \in [Reviews -> Outcomes \cup {[type |-> "none"]}]
  /\ durations \in [Recorders -> [DurationLabels -> Nat]]
  /\ warnings \in [Recorders -> [WarningLabels -> Nat]]
  /\ \A r \in Reviews : place[r] = "warn" => Measured(r)
  /\ \A r \in Reviews : place[r] # "review" => pc[RecOf(r)] = "ready"

(* Each recorder has counted what was measured for its own webhooks.       *)
Counted ==
  /\ \A n \in Recorders, l \in DurationLabels :
       durations[n][l] = IF n = Rec[l.id] THEN Cardinality(ObservedAs(l)) ELSE 0
  /\ \A n \in Recorders, l \in WarningLabels :
       warnings[n][l] = IF n = Rec[l.id] THEN Cardinality(WarnedAs(l)) ELSE 0

MetricsInv == MetricsTypes /\ Counted

(* A measured outcome is a response.                                       *)
LEMMA MeasuredIsResponse ==
  ASSUME MetricsTypes, NEW r \in Reviews, Measured(r)
  PROVE  outcome[r] \in Response
<1>1. outcome[r] \in Response \cup Failure \cup {[type |-> "none"]}
  BY DEF MetricsTypes, Outcomes
<1>2. outcome[r].type \in {"validating", "mutating"}
  BY DEF Measured
<1> QED
  BY <1>1, <1>2 DEF Failure

(* The labels a response is counted under.                                 *)
LEMMA LabelsOf ==
  ASSUME MetricsTypes, NEW r \in Reviews, Measured(r)
  PROVE  /\ DurationLabel(r) \in DurationLabels
         /\ WarningLabel(r) \in WarningLabels
         /\ DurationLabel(r).id = webhook[r] /\ WarningLabel(r).id = webhook[r]
         /\ RecOf(r) \in Recorders
         /\ outcome[r].warned \in 0..MaxWarnings
         /\ \A l \in DurationLabels :
              l = DurationLabel(r) <=> /\ webhook[r] = l.id
                                       /\ outcome[r].err = ~l.success
                                       /\ outcome[r].type = l.type
                                       /\ outcome[r].verdict = l.verdict
         /\ \A l \in WarningLabels :
              l = WarningLabel(r) <=> webhook[r] = l.id /\ outcome[r].err = ~l.success
<1>1. outcome[r] \in Response /\ webhook[r] \in Webhooks
  BY MeasuredIsResponse DEF MetricsTypes
<1>2. /\ outcome[r].type \in {"validating", "mutating"} /\ outcome[r].err \in BOOLEAN
      /\ outcome[r].verdict \in BOOLEAN /\ outcome[r].warned \in 0..MaxWarnings
  BY <1>1 DEF Response
<1>3. DurationLabel(r) \in DurationLabels /\ WarningLabel(r) \in WarningLabels
  BY <1>1, <1>2 DEF DurationLabel, DurationLabels, WarningLabel, WarningLabels
<1>4. RecOf(r) \in Recorders
  BY <1>1, MetricsAssumption DEF RecOf
<1>5. DurationLabel(r).id = webhook[r] /\ WarningLabel(r).id = webhook[r]
  BY DEF DurationLabel, WarningLabel
<1>6. ASSUME NEW l \in DurationLabels
      PROVE  l = DurationLabel(r) <=> /\ webhook[r] = l.id
                                      /\ outcome[r].err = ~l.success
                                      /\ outcome[r].type = l.type
                                      /\ outcome[r].verdict = l.verdict
  BY <1>1, <1>2 DEF DurationLabel, DurationLabels
<1>7. ASSUME NEW l \in WarningLabels
      PROVE  l = WarningLabel(r) <=> webhook[r] = l.id /\ outcome[r].err = ~l.success
  BY <1>1, <1>2 DEF WarningLabel, WarningLabels
<1> QED
  BY <1>2, <1>3, <1>4, <1>5, <1>6, <1>7
LEMMA FinitelyMany ==
  /\ \A l \in DurationLabels : IsFiniteSet(ObservedAs(l)) /\ Cardinality(ObservedAs(l)) \in Nat
  /\ \A l \in WarningLabels : IsFiniteSet(WarnedAs(l)) /\ Cardinality(WarnedAs(l)) \in Nat
<1>1. IsFiniteSet(Reviews) /\ IsFiniteSet(1..MaxWarnings)
  BY MetricsAssumption, FS_Interval
<1>2. IsFiniteSet(Reviews \X (1..MaxWarnings))
  BY <1>1, FS_Product
<1>3. ASSUME NEW l \in DurationLabels PROVE IsFiniteSet(ObservedAs(l))
  <2>1. ObservedAs(l) \in SUBSET Reviews
    BY DEF ObservedAs
  <2> QED
    BY <1>1, <2>1, FS_Subset
<1>4. ASSUME NEW l \in WarningLabels PROVE IsFiniteSet(WarnedAs(l))
  <2>1. WarnedAs(l) \in SUBSET (Reviews \X (1..MaxWarnings))
    BY DEF WarnedAs
  <2> QED
    BY <1>2, <2>1, FS_Subset
<1> QED
  BY <1>3, <1>4, FS_CardinalityType

LEMMA InitMetricsInv == MetricsInit => MetricsInv
<1> SUFFICES ASSUME MetricsInit PROVE MetricsInv
  OBVIOUS
<1>1. /\ webhook \in [Reviews -> Webhooks]
      /\ place = [r \in Reviews |-> "review"]
      /\ outcome = [r \in Reviews |-> [type |-> "none"]]
      /\ durations = [n \in Recorders |-> [l \in DurationLabels |-> 0]]
      /\ warnings = [n \in Recorders |-> [l \in WarningLabels |-> 0]]
  BY DEF MetricsInit
<1>2. MetricsTypes
  BY <1>1 DEF MetricsTypes
<1>3. ASSUME NEW l \in DurationLabels PROVE Cardinality(ObservedAs(l)) = 0
  <2>1. ObservedAs(l) = {}
    BY <1>1 DEF ObservedAs
  <2> QED
    BY <2>1, FS_EmptySet
<1>4. ASSUME NEW l \in WarningLabels PROVE Cardinality(WarnedAs(l)) = 0
  <2>1. ASSUME NEW w \in WarnedAs(l) PROVE FALSE
    BY <1>1 DEF WarnedAs
  <2> QED
    BY <2>1, FS_EmptySet
<1>5. Counted
  BY <1>1, <1>3, <1>4 DEF Counted
<1> QED
  BY <1>2, <1>5 DEF MetricsInv

(* A step that measures nothing.                                           *)
LEMMA CountsStay ==
  ASSUME MetricsInv, MetricsTypes', durations' = durations, warnings' = warnings,
         \A l \in DurationLabels : ObservedAs(l)' = ObservedAs(l),
         \A l \in WarningLabels : WarnedAs(l)' = WarnedAs(l)
  PROVE  MetricsInv'
BY DEF MetricsInv, Counted

(* The recorders take a step: those that were returned remain so.          *)
LEMMA RecorderStepMetricsInv ==
  ASSUME RecInv, MetricsInv, [Next]_vars, UNCHANGED measures
  PROVE  MetricsInv'
<1>1. /\ webhook' = webhook /\ place' = place /\ outcome' = outcome
      /\ durations' = durations /\ warnings' = warnings
  BY DEF measures
<1>2. ASSUME NEW n \in Recorders, pc[n] = "ready" PROVE pc'[n] = "ready"
  <2>1. pc \in [Recorders -> {"idle", "register", "ready", "panicked"}]
    BY DEF RecInv, TypeOK
  <2>2. ASSUME NEW m \in Recorders, RecorderStep(m) PROVE pc'[n] = "ready"
    BY <1>2, <2>1, <2>2 DEF RecorderStep, New, Register, Collide
  <2> QED
    BY <1>2, <2>2 DEF Next, UserRegisters, Done, vars
<1>3. MetricsTypes'
  <2>1. ASSUME NEW r \in Reviews, place'[r] # "review" PROVE pc'[RecOf(r)'] = "ready"
    <3>1. RecOf(r) \in Recorders /\ RecOf(r)' = RecOf(r)
      BY <1>1, MetricsAssumption DEF RecOf, MetricsInv, MetricsTypes
    <3>2. pc[RecOf(r)] = "ready"
      BY <1>1, <2>1 DEF MetricsInv, MetricsTypes
    <3> QED
      BY <1>2, <3>1, <3>2
  <2>2. \A r \in Reviews : Measured(r)' <=> Measured(r)
    BY <1>1 DEF Measured
  <2> QED
    BY <1>1, <2>1, <2>2 DEF MetricsInv, MetricsTypes
<1>4. \A l \in DurationLabels : ObservedAs(l)' = ObservedAs(l)
  BY <1>1 DEF ObservedAs, Measured
<1>5. \A l \in WarningLabels : WarnedAs(l)' = WarnedAs(l)
  BY <1>1 DEF WarnedAs, Measured
<1> QED
  BY <1>1, <1>3, <1>4, <1>5, CountsStay

(* A review moves on without a measure: it was not among the counted, and  *)
(* is not.                                                                 *)
LEMMA UnmeasuredMetricsInv ==
  ASSUME MetricsInv, NEW r \in Reviews, Review(r) \/ SkipMeasure(r), UNCHANGED vars
  PROVE  MetricsInv'
<1>1. /\ webhook' = webhook /\ durations' = durations /\ warnings' = warnings
      /\ \E p \in {"measure", "done"} : place' = [place EXCEPT ![r] = p]
      /\ pc' = pc /\ pc[RecOf(r)] = "ready"
      /\ \E o \in Outcomes \cup {[type |-> "none"]} : outcome' = [outcome EXCEPT ![r] = o]
  <2>1. CASE Review(r)
    BY <2>1 DEF Review, vars
  <2>2. CASE SkipMeasure(r)
    <3>1. outcome' = [outcome EXCEPT ![r] = outcome[r]]
      BY <2>2 DEF SkipMeasure, MetricsInv, MetricsTypes
    <3> QED
      BY <2>2, <3>1 DEF SkipMeasure, MetricsInv, MetricsTypes, vars
  <2> QED
    BY <2>1, <2>2
<1>2. \A q \in Reviews : q # r => place'[q] = place[q] /\ outcome'[q] = outcome[q]
  BY <1>1 DEF MetricsInv, MetricsTypes
<1>3. place[r] \notin {"warn", "done"} /\ place'[r] # "warn"
  BY DEF Review, SkipMeasure, MetricsInv, MetricsTypes
<1>4. place'[r] = "done" => ~Measured(r)'
  BY DEF Review, SkipMeasure, Measured, MetricsInv, MetricsTypes
<1>5. MetricsTypes'
  <2>1. \A q \in Reviews : RecOf(q)' = RecOf(q)
    BY <1>1 DEF RecOf
  <2>2. \A q \in Reviews : place'[q] # "review" => pc'[RecOf(q)'] = "ready"
    BY <1>1, <1>2, <2>1 DEF MetricsInv, MetricsTypes
  <2>3. \A q \in Reviews : place'[q] = "warn" => Measured(q)'
    BY <1>2, <1>3 DEF MetricsInv, MetricsTypes, Measured
  <2>4. /\ place' \in [Reviews -> {"review", "measure", "warn", "done"}]
        /\ outcome' \in [Reviews -> Outcomes \cup {[type |-> "none"]}]
    BY <1>1 DEF MetricsInv, MetricsTypes
  <2> QED
    BY <1>1, <2>2, <2>3, <2>4 DEF MetricsInv, MetricsTypes
<1>6. ASSUME NEW l \in DurationLabels PROVE ObservedAs(l)' = ObservedAs(l)
  BY <1>1, <1>2, <1>3, <1>4 DEF ObservedAs, Measured
<1>7. ASSUME NEW l \in WarningLabels PROVE WarnedAs(l)' = WarnedAs(l)
  BY <1>1, <1>2, <1>3, <1>4 DEF WarnedAs, Measured
<1> QED
  BY <1>1, <1>5, <1>6, <1>7, CountsStay
(* One review more under the labels of r, none under others.               *)
LEMMA DurationMetricsInv ==
  ASSUME MetricsInv, NEW r \in Reviews, MeasureDuration(r), UNCHANGED vars
  PROVE  MetricsInv'
<1>0. PICK d, m : d = DurationLabel(r) /\ m = RecOf(r)
  OBVIOUS
<1>1. /\ webhook' = webhook /\ outcome' = outcome /\ warnings' = warnings /\ pc' = pc
      /\ place[r] = "measure" /\ Measured(r)
      /\ place' = [place EXCEPT ![r] = "warn"]
      /\ durations' = [durations EXCEPT ![m][d] = @ + 1]
  BY <1>0 DEF MeasureDuration, vars
<1>2. /\ d \in DurationLabels /\ m \in Recorders /\ d.id = webhook[r] /\ Rec[d.id] = m
      /\ \A l \in DurationLabels :
           l = d <=> /\ webhook[r] = l.id /\ outcome[r].err = ~l.success
                     /\ outcome[r].type = l.type /\ outcome[r].verdict = l.verdict
  BY <1>0, <1>1, LabelsOf DEF MetricsInv, RecOf
<1>3. /\ place'[r] = "warn"
      /\ \A q \in Reviews : q # r => place'[q] = place[q]
      /\ \A q \in Reviews : Measured(q)' <=> Measured(q)
      /\ \A q \in Reviews : RecOf(q)' = RecOf(q)
  BY <1>1 DEF MetricsInv, MetricsTypes, Measured, RecOf
<1>4. \A n \in Recorders, l \in DurationLabels :
        durations'[n][l] = IF n = m /\ l = d THEN durations[n][l] + 1 ELSE durations[n][l]
  BY <1>1, <1>2 DEF MetricsInv, MetricsTypes
<1>5. MetricsTypes'
  <2>1. \A q \in Reviews : place'[q] # "review" => pc'[RecOf(q)'] = "ready"
    BY <1>1, <1>3 DEF MetricsInv, MetricsTypes
  <2>2. \A q \in Reviews : place'[q] = "warn" => Measured(q)'
    BY <1>1, <1>3 DEF MetricsInv, MetricsTypes
  <2>3. durations' \in [Recorders -> [DurationLabels -> Nat]]
    BY <1>1, <1>2 DEF MetricsInv, MetricsTypes
  <2>4. place' \in [Reviews -> {"review", "measure", "warn", "done"}]
    BY <1>1 DEF MetricsInv, MetricsTypes
  <2> QED
    BY <1>1, <2>1, <2>2, <2>3, <2>4 DEF MetricsInv, MetricsTypes
<1>6. ASSUME NEW l \in WarningLabels PROVE WarnedAs(l)' = WarnedAs(l)
  BY <1>1, <1>3 DEF WarnedAs
<1>7. ASSUME NEW l \in DurationLabels, l # d PROVE ObservedAs(l)' = ObservedAs(l)
  BY <1>1, <1>2, <1>3, <1>7 DEF ObservedAs
<1>8. ObservedAs(d)' = ObservedAs(d) \cup {r} /\ r \notin ObservedAs(d)
  <2>1. r \in ObservedAs(d)' /\ r \notin ObservedAs(d)
    BY <1>1, <1>2, <1>3 DEF ObservedAs
  <2>2. \A q \in Reviews : q # r => (q \in ObservedAs(d)' <=> q \in ObservedAs(d))
    BY <1>1, <1>2, <1>3 DEF ObservedAs
  <2>3. ObservedAs(d)' \subseteq Reviews /\ ObservedAs(d) \subseteq Reviews
    BY DEF ObservedAs
  <2> QED
    BY <2>1, <2>2, <2>3
<1>9. Cardinality(ObservedAs(d)') = Cardinality(ObservedAs(d)) + 1
  BY <1>2, <1>8, FinitelyMany, FS_AddElement
<1>10. Counted'
  <2>1. ASSUME NEW n \in Recorders, NEW l \in DurationLabels
        PROVE  durations'[n][l] = IF n = Rec[l.id] THEN Cardinality(ObservedAs(l)') ELSE 0
    <3>0. durations[n][l] = IF n = Rec[l.id] THEN Cardinality(ObservedAs(l)) ELSE 0
      BY DEF MetricsInv, Counted
    <3>1. CASE l = d
      BY <1>2, <1>4, <1>9, <3>0, <3>1
    <3>2. CASE l # d
      BY <1>4, <1>7, <3>0, <3>2
    <3> QED
      BY <3>1, <3>2
  <2>2. \A n \in Recorders, l \in WarningLabels :
          warnings'[n][l] = IF n = Rec[l.id] THEN Cardinality(WarnedAs(l)') ELSE 0
    BY <1>1, <1>6 DEF MetricsInv, Counted
  <2> QED
    BY <2>1, <2>2 DEF Counted
<1> QED
  BY <1>5, <1>10 DEF MetricsInv

(* The warnings of r more under its labels, one by one, none under others. *)
LEMMA WarningsMetricsInv ==
  ASSUME MetricsInv, NEW r \in Reviews, MeasureWarnings(r), UNCHANGED vars
  PROVE  MetricsInv'
<1>0. PICK d, m, k : d = WarningLabel(r) /\ m = RecOf(r) /\ k = outcome[r].warned
  OBVIOUS
<1> DEFINE More == {r} \X (1..k)
<1>1. /\ webhook' = webhook /\ outcome' = outcome /\ durations' = durations /\ pc' = pc
      /\ place[r] = "warn" /\ Measured(r)
      /\ place' = [place EXCEPT ![r] = "done"]
      /\ warnings' = [warnings EXCEPT ![m][d] = @ + k]
  BY <1>0 DEF MeasureWarnings, vars, MetricsInv, MetricsTypes
<1>2. /\ d \in WarningLabels /\ m \in Recorders /\ d.id = webhook[r] /\ Rec[d.id] = m
      /\ k \in 0..MaxWarnings
      /\ \A l \in WarningLabels : l = d <=> webhook[r] = l.id /\ outcome[r].err = ~l.success
  BY <1>0, <1>1, LabelsOf DEF MetricsInv, RecOf
<1>3. /\ place'[r] = "done"
      /\ \A q \in Reviews : q # r => place'[q] = place[q]
      /\ \A q \in Reviews : Measured(q)' <=> Measured(q)
      /\ \A q \in Reviews : RecOf(q)' = RecOf(q)
      /\ k = outcome[r].warned
  BY <1>0, <1>1 DEF MetricsInv, MetricsTypes, Measured, RecOf
<1>4. /\ k \in Nat /\ MaxWarnings \in Nat
      /\ \A n \in Recorders, l \in WarningLabels :
           warnings'[n][l] = IF n = m /\ l = d THEN warnings[n][l] + k ELSE warnings[n][l]
  BY <1>1, <1>2, MetricsAssumption DEF MetricsInv, MetricsTypes
<1>5. MetricsTypes'
  <2>1. \A q \in Reviews : place'[q] # "review" => pc'[RecOf(q)'] = "ready"
    BY <1>1, <1>3 DEF MetricsInv, MetricsTypes
  <2>2. \A q \in Reviews : place'[q] = "warn" => Measured(q)'
    BY <1>1, <1>3 DEF MetricsInv, MetricsTypes
  <2>3. warnings' \in [Recorders -> [WarningLabels -> Nat]]
    BY <1>1, <1>2, <1>4 DEF MetricsInv, MetricsTypes
  <2>4. place' \in [Reviews -> {"review", "measure", "warn", "done"}]
    BY <1>1 DEF MetricsInv, MetricsTypes
  <2> QED
    BY <1>1, <2>1, <2>2, <2>3, <2>4 DEF MetricsInv, MetricsTypes
<1>6. ASSUME NEW l \in DurationLabels PROVE ObservedAs(l)' = ObservedAs(l)
  BY <1>1, <1>3 DEF ObservedAs
<1>7. ASSUME NEW l \in WarningLabels, l # d PROVE WarnedAs(l)' = WarnedAs(l)
  BY <1>1, <1>2, <1>3, <1>7 DEF WarnedAs
<1>8. WarnedAs(d)' = WarnedAs(d) \cup More /\ WarnedAs(d) \cap More = {}
  <2>1. ASSUME NEW q \in Reviews, NEW i \in 1..MaxWarnings, q # r
        PROVE  /\ <<q, i>> \in WarnedAs(d)' <=> <<q, i>> \in WarnedAs(d)
               /\ <<q, i>> \notin More
    BY <1>1, <1>3, <2>1 DEF WarnedAs
  <2>2. ASSUME NEW i \in 1..MaxWarnings
        PROVE  /\ <<r, i>> \in WarnedAs(d)' <=> <<r, i>> \in More
               /\ <<r, i>> \notin WarnedAs(d)
    BY <1>1, <1>2, <1>3, <1>4 DEF WarnedAs
  <2>3. /\ WarnedAs(d)' \subseteq Reviews \X (1..MaxWarnings)
        /\ WarnedAs(d) \subseteq Reviews \X (1..MaxWarnings)
    BY DEF WarnedAs
  <2>4. More \subseteq Reviews \X (1..MaxWarnings)
    BY <1>2, <1>4
  <2> HIDE DEF More
  <2>5. ASSUME NEW w \in Reviews \X (1..MaxWarnings)
        PROVE  /\ w \in WarnedAs(d)' <=> w \in WarnedAs(d) \/ w \in More
               /\ ~(w \in WarnedAs(d) /\ w \in More)
    <3>1. PICK q \in Reviews, i \in 1..MaxWarnings : w = <<q, i>>
      OBVIOUS
    <3> QED
      BY <2>1, <2>2, <3>1
  <2> QED
    BY <2>3, <2>4, <2>5
<1>9. IsFiniteSet(More) /\ Cardinality(More) = k
  <2>1. IsFiniteSet({r}) /\ Cardinality({r}) = 1
    BY FS_Singleton
  <2>2. IsFiniteSet(1..k) /\ Cardinality(1..k) = k
    BY <1>4, FS_Interval
  <2>3. IsFiniteSet(More) /\ Cardinality(More) = Cardinality({r}) * Cardinality(1..k)
    BY <2>1, <2>2, FS_Product
  <2> HIDE DEF More
  <2> QED
    BY <1>4, <2>1, <2>2, <2>3
<1> HIDE DEF More
<1>10. Cardinality(WarnedAs(d)') = Cardinality(WarnedAs(d)) + k
  <2>1. Cardinality(WarnedAs(d) \cup More)
          = Cardinality(WarnedAs(d)) + Cardinality(More) - Cardinality(WarnedAs(d) \cap More)
    BY <1>2, <1>9, FinitelyMany, FS_Union
  <2>2. Cardinality(WarnedAs(d)) \in Nat
    BY <1>2, FinitelyMany
  <2>3. Cardinality(WarnedAs(d) \cap More) = 0
    BY <1>8, FS_EmptySet
  <2> QED
    BY <1>4, <1>8, <1>9, <2>1, <2>2, <2>3
<1>11. Counted'
  <2>1. ASSUME NEW n \in Recorders, NEW l \in WarningLabels
        PROVE  warnings'[n][l] = IF n = Rec[l.id] THEN Cardinality(WarnedAs(l)') ELSE 0
    <3>0. warnings[n][l] = IF n = Rec[l.id] THEN Cardinality(WarnedAs(l)) ELSE 0
      BY DEF MetricsInv, Counted
    <3>1. CASE l = d
      BY <1>2, <1>4, <1>10, <3>0, <3>1
    <3>2. CASE l # d
      BY <1>4, <1>7, <3>0, <3>2
    <3> QED
      BY <3>1, <3>2
  <2>2. \A n \in Recorders, l \in DurationLabels :
          durations'[n][l] = IF n = Rec[l.id] THEN Cardinality(ObservedAs(l)') ELSE 0
    BY <1>1, <1>6 DEF MetricsInv, Counted
  <2> QED
    BY <2>1, <2>2 DEF Counted
<1> QED
  BY <1>5, <1>11 DEF MetricsInv

LEMMA NextMetricsInv == RecInv /\ MetricsInv /\ [MetricsNext]_<<vars, measures>> => MetricsInv'
<1> SUFFICES ASSUME RecInv, MetricsInv, [MetricsNext]_<<vars, measures>> PROVE MetricsInv'
  OBVIOUS
<1>1. CASE UNCHANGED measures
  BY <1>1, MetricsStepIsRecorderStep, RecorderStepMetricsInv
<1>2. ASSUME NEW r \in Reviews, Step(r), UNCHANGED vars PROVE MetricsInv'
  BY <1>2, UnmeasuredMetricsInv, DurationMetricsInv, WarningsMetricsInv DEF Step
<1> QED
  BY <1>1, <1>2 DEF MetricsNext, AllDone, measures

LEMMA MetricsInvariant == MetricsSpec => []MetricsInv
BY InitMetricsInv, NextMetricsInv, RecordersWhileMeasuring, PTL DEF MetricsSpec

(* The types of the composition, for any reviews of any webhooks.          *)
THEOREM MetricsStayTyped == MetricsSpec => []MetricsTypes
BY MetricsInvariant, PTL DEF MetricsInv
(* A webhook has reviews only when its recorder has its collectors, and    *)
(* what was measured under the labels of any other is nothing.             *)
LEMMA InvIsConsistent == RecInv /\ MetricsInv => ScrapeConsistent
<1> SUFFICES ASSUME RecInv, MetricsInv PROVE ScrapeConsistent
  OBVIOUS
<1>1. ASSUME NEW w \in Webhooks, NEW name \in Names, pc[Rec[w]] = "ready"
      PROVE  Owner(w, name) = Rec[w]
  BY <1>1, RecInvOwns, MetricsAssumption DEF ReadyOwnsAll, Owns, Owner
<1>2. ASSUME NEW w \in Webhooks, pc[Rec[w]] # "ready", NEW r \in Reviews, webhook[r] = w
      PROVE  place[r] = "review"
  BY <1>2 DEF MetricsInv, MetricsTypes, RecOf
<1>3. /\ \A k \in 1..3 : Collectors[k] \in Names
      /\ Collectors[1] = "validating_duration" /\ Collectors[2] = "mutating_duration"
      /\ Collectors[3] = "warnings"
  BY ThreeNames DEF Collectors
<1>4. ASSUME NEW l \in DurationLabels PROVE Durations(l) = Cardinality(ObservedAs(l))
  <2>1. l.id \in Webhooks /\ Rec[l.id] \in Recorders
    BY MetricsAssumption DEF DurationLabels
  <2>2. PICK name \in Names :
          Durations(l) = LET n == Owner(l.id, name)
                         IN  IF n \in Recorders THEN durations[n][l] ELSE 0
    BY <1>3 DEF Durations
  <2>3. \A n \in Recorders :
          durations[n][l] = IF n = Rec[l.id] THEN Cardinality(ObservedAs(l)) ELSE 0
    BY DEF MetricsInv, Counted
  <2>4. CASE pc[Rec[l.id]] = "ready"
    BY <1>1, <2>1, <2>2, <2>3, <2>4
  <2>5. CASE pc[Rec[l.id]] # "ready"
    <3>1. ObservedAs(l) = {}
      BY <1>2, <2>1, <2>5 DEF ObservedAs
    <3>2. Cardinality(ObservedAs(l)) = 0
      BY <3>1, FS_EmptySet
    <3> QED
      BY <2>2, <2>3, <3>2
  <2> QED
    BY <2>4, <2>5
<1>5. ASSUME NEW l \in WarningLabels PROVE WarningsOf(l) = Cardinality(WarnedAs(l))
  <2>1. l.id \in Webhooks /\ Rec[l.id] \in Recorders
    BY MetricsAssumption DEF WarningLabels
  <2>2. WarningsOf(l) = LET n == Owner(l.id, "warnings")
                        IN  IF n \in Recorders THEN warnings[n][l] ELSE 0
    BY DEF WarningsOf
  <2>3. \A n \in Recorders :
          warnings[n][l] = IF n = Rec[l.id] THEN Cardinality(WarnedAs(l)) ELSE 0
    BY DEF MetricsInv, Counted
  <2>4. CASE pc[Rec[l.id]] = "ready"
    BY <1>1, <1>3, <2>1, <2>2, <2>3, <2>4
  <2>5. CASE pc[Rec[l.id]] # "ready"
    <3>1. ASSUME NEW w \in WarnedAs(l) PROVE FALSE
      BY <1>2, <2>1, <2>5 DEF WarnedAs
    <3>2. Cardinality(WarnedAs(l)) = 0
      BY <3>1, FS_EmptySet
    <3> QED
      BY <2>2, <2>3, <3>2
  <2> QED
    BY <2>4, <2>5
<1> QED
  BY <1>4, <1>5 DEF ScrapeConsistent

(* A scrape of any registry at any time finds every response and every     *)
(* warning that was measured, once, under its labels, and nothing else     *)
(* (prometheus.go:75-136, metrics.go:75-114).                              *)
THEOREM ScrapesAreConsistent == MetricsSpec => []ScrapeConsistent
BY RecordersWhileMeasuring, MetricsInvariant, InvIsConsistent, PTL
=============================================================================
