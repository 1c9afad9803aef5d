--------------------------- MODULE LoggingProofs ---------------------------
(***************************************************************************)
(* Proofs about Logging, for any requests, webhooks, values and any depth *)
(* of contexts.                                                            *)
(***************************************************************************)
EXTENDS Logging, SequenceTheorems, TLAPS

Labels == {"idle", "copy", "add", "review", "done"}

(* Where a request is, and how many contexts it has there.                 *)
Control(r) ==
  /\ ctx[r] \in Seq(Maps)
  /\ Len(ctx[r]) > 0
  /\ pc[r] = "idle" => Len(ctx[r]) = 1
  /\ pc[r] \in {"copy", "add"} => Len(ctx[r]) <= Depth

(* The maps of the contexts of r are the base map and those it has made,   *)
(* and the one it is making, New(r), is none of them.                      *)
Older(r) ==
  \A i \in 1..Len(ctx[r]) :
    ctx[r][i] = <<"base">> \/ \E k \in 1..(Len(ctx[r]) - 1) : ctx[r][i] = <<r, k>>

LoggingInv ==
  /\ pc \in [Requests -> Labels]
  /\ DOMAIN ctx = Requests
  /\ DOMAIN heap = Maps
  /\ \A r \in Requests : Control(r) /\ Older(r)

(* The base map is not one of a request.                                   *)
LEMMA BaseIsNoOwn == \A r, k : <<"base">> # <<r, k>>
<1> TAKE r, k
<1>1. Len(<<"base">>) = 1 /\ Len(<<r, k>>) = 2
  OBVIOUS
<1> QED
  BY <1>1

LEMMA NewIsAMap ==
  ASSUME LoggingInv, NEW r \in Requests, pc[r] \in {"copy", "add"}
  PROVE  New(r) \in Maps
BY LoggingAssumption DEF LoggingInv, Control, New, Maps

(* No context, of whatever request, holds the map r is making.             *)
LEMMA NewIsNotAttached ==
  ASSUME LoggingInv, NEW r \in Requests, NEW q \in Requests, NEW m \in ToSet(ctx[q])
  PROVE  m # New(r) /\ m \in Maps
<1>1. PICK i \in 1..Len(ctx[q]) : m = ctx[q][i]
  BY DEF LoggingInv, Control, ToSet
<1>2. m \in Maps
  BY <1>1 DEF LoggingInv, Control
<1>3. CASE m = <<"base">>
  BY <1>2, <1>3, BaseIsNoOwn DEF New
<1>4. ASSUME NEW k \in 1..(Len(ctx[q]) - 1), m = <<q, k>>
      PROVE  m # New(r)
  <2>1. q = r => k # Len(ctx[r])
    BY DEF LoggingInv, Control
  <2> QED
    BY <1>4, <2>1 DEF New
<1> QED
  BY <1>1, <1>2, <1>3, <1>4 DEF LoggingInv, Older

(* Only the map that is being made is written.                             *)
LEMMA WritesNew ==
  ASSUME LoggingInv, [Next]_vars
  PROVE  \/ heap' = heap
         \/ \E r \in Requests : /\ pc[r] \in {"copy", "add"}
                                /\ DOMAIN heap' = DOMAIN heap
                                /\ \A m \in Maps : m # New(r) => heap'[m] = heap[m]
<1>1. ASSUME NEW r \in Requests, Copy(r) \/ Add(r)
      PROVE  /\ pc[r] \in {"copy", "add"}
             /\ DOMAIN heap' = DOMAIN heap
             /\ \A m \in Maps : m # New(r) => heap'[m] = heap[m]
  BY <1>1 DEF Copy, Add, LoggingInv
<1>2. ASSUME NEW r \in Requests,
             Serve(r) \/ Derive(r) \/ EndCopy(r) \/ Attach(r) \/ Log(r)
      PROVE  heap' = heap
  BY <1>2 DEF Serve, Derive, EndCopy, Attach, Log
<1>3. ASSUME NEW h \in Hooks, Configure(h) PROVE heap' = heap
  BY <1>3 DEF Configure
<1> QED
  BY <1>1, <1>2, <1>3 DEF Next, Step, Done, vars

LEMMA InitLoggingInv == Init => LoggingInv
<1> SUFFICES ASSUME Init PROVE LoggingInv
  OBVIOUS
<1>1. ASSUME NEW r \in Requests PROVE Control(r) /\ Older(r)
  <2>1. ctx[r] = <<(<<"base">>)>> /\ pc[r] = "idle" /\ <<"base">> \in Maps
    BY DEF Init, Maps
  <2> QED
    BY <2>1 DEF Control, Older
<1>2. pc \in [Requests -> Labels] /\ DOMAIN ctx = Requests /\ DOMAIN heap = Maps
  BY DEF Init, Labels
<1> QED
  BY <1>1, <1>2 DEF LoggingInv

(* The map that was made is attached.                                      *)
LEMMA AttachControl ==
  ASSUME LoggingInv, NEW r \in Requests, Attach(r)
  PROVE  Control(r)' /\ Older(r)'
<1>1. /\ pc[r] = "add" /\ pc'[r] = "review"
      /\ ctx'[r] = Append(ctx[r], New(r))
      /\ ctx[r] \in Seq(Maps) /\ Len(ctx[r]) \in Nat
  BY DEF Attach, LoggingInv, Control
<1>2. New(r) \in Maps
  BY <1>1, NewIsAMap
<1>3. /\ ctx'[r] \in Seq(Maps) /\ Len(ctx'[r]) = Len(ctx[r]) + 1
      /\ ctx'[r][Len(ctx[r]) + 1] = New(r)
      /\ \A i \in 1..Len(ctx[r]) : ctx'[r][i] = ctx[r][i]
  BY <1>1, <1>2, AppendProperties
<1>4. ASSUME NEW i \in 1..Len(ctx'[r])
      PROVE  ctx'[r][i] = <<"base">> \/ \E k \in 1..(Len(ctx'[r]) - 1) : ctx'[r][i] = <<r, k>>
  <2>1. CASE i = Len(ctx[r]) + 1
    <3>1. Len(ctx[r]) \in 1..(Len(ctx'[r]) - 1)
      BY <1>1, <1>3 DEF LoggingInv, Control
    <3> QED
      BY <1>3, <2>1, <3>1 DEF New
  <2>2. CASE i \in 1..Len(ctx[r])
    <3>1. ctx[r][i] = <<"base">> \/ \E k \in 1..(Len(ctx[r]) - 1) : ctx[r][i] = <<r, k>>
      BY <2>2 DEF LoggingInv, Older
    <3>2. \A k \in 1..(Len(ctx[r]) - 1) : k \in 1..(Len(ctx'[r]) - 1)
      BY <1>1, <1>3
    <3> QED
      BY <1>3, <2>2, <3>1, <3>2
  <2> QED
    BY <1>1, <1>3, <2>1, <2>2
<1>5. Older(r)'
  BY <1>4 DEF Older
<1>6. Control(r)'
  BY <1>1, <1>3 DEF Control
<1> QED
  BY <1>5, <1>6

LEMMA NextLoggingInv == LoggingInv /\ [Next]_vars => LoggingInv'
<1> SUFFICES ASSUME LoggingInv, [Next]_vars PROVE LoggingInv'
  OBVIOUS
<1>1. DOMAIN heap' = Maps
  BY WritesNew DEF LoggingInv
<1>2. ASSUME pc' = pc, ctx' = ctx PROVE LoggingInv'
  BY <1>1, <1>2 DEF LoggingInv, Control, Older
<1>3. ASSUME NEW r \in Requests, NEW label \in Labels, pc' = [pc EXCEPT ![r] = label],
             ctx' = ctx, Control(r)'
      PROVE  LoggingInv'
  BY <1>1, <1>3 DEF LoggingInv, Control, Older
<1>4. ASSUME NEW r \in Requests, Serve(r) \/ Derive(r) \/ EndCopy(r) \/ Log(r) PROVE LoggingInv'
  <2>1. ctx' = ctx /\ Control(r)
    BY <1>4 DEF Serve, Derive, EndCopy, Log, LoggingInv
  <2>2. PICK label \in {"copy", "add", "review", "done"} :
          /\ pc' = [pc EXCEPT ![r] = label]
          /\ label \in {"copy", "add"} => Len(ctx[r]) <= Depth
    <3>1. CASE Serve(r)
      <4>1. pc[r] = "idle"
        BY <3>1 DEF Serve
      <4>2. Len(ctx[r]) = 1
        BY <2>1, <4>1 DEF Control
      <4>3. 1 <= Depth
        BY LoggingAssumption
      <4> QED
        BY <3>1, <4>2, <4>3 DEF Serve
    <3>2. CASE Derive(r)
      BY <3>2 DEF Derive
    <3>3. CASE EndCopy(r)
      BY <2>1, <3>3 DEF EndCopy, Control
    <3>4. CASE Log(r)
      BY <3>4 DEF Log
    <3> QED
      BY <1>4, <3>1, <3>2, <3>3, <3>4
  <2>3. Control(r)'
    BY <2>1, <2>2 DEF Control, LoggingInv
  <2> QED
    BY <1>3, <2>1, <2>2, <2>3 DEF Labels
<1>5. ASSUME NEW r \in Requests, Attach(r) PROVE LoggingInv'
  <2>1. Control(r)' /\ Older(r)'
    BY <1>5, AttachControl
  <2>2. /\ pc' \in [Requests -> Labels] /\ DOMAIN ctx' = Requests
        /\ \A q \in Requests : q # r => pc'[q] = pc[q] /\ ctx'[q] = ctx[q]
    BY <1>5 DEF Attach, LoggingInv, Labels
  <2>3. ASSUME NEW q \in Requests, q # r PROVE Control(q)' /\ Older(q)'
    BY <2>2, <2>3 DEF LoggingInv, Control, Older
  <2> QED
    BY <1>1, <2>1, <2>2, <2>3 DEF LoggingInv
<1>6. ASSUME NEW r \in Requests, Copy(r) \/ Add(r) PROVE LoggingInv'
  BY <1>2, <1>6 DEF Copy, Add
<1>7. ASSUME NEW h \in Hooks, Configure(h) PROVE LoggingInv'
  BY <1>2, <1>7 DEF Configure
<1>8. CASE UNCHANGED vars
  BY <1>2, <1>8 DEF vars
<1> QED
  BY <1>4, <1>5, <1>6, <1>7, <1>8 DEF Next, Step, Done

(* A map that a context holds is never written again, by any request: log  *)
(* calls of requests whose contexts share maps do not race (ctx.go:21-30). *)
THEOREM AttachedMapsStay == Spec => AttachedMapsFixed
<1>1. LoggingInv /\ [Next]_vars =>
        [\A r \in Requests : \A m \in ToSet(ctx[r]) : heap'[m] = heap[m]]_vars
  <2> SUFFICES ASSUME LoggingInv, [Next]_vars, NEW q \in Requests, NEW m \in ToSet(ctx[q])
               PROVE  heap'[m] = heap[m]
    OBVIOUS
  <2> QED
    BY WritesNew, NewIsNotAttached
<1> QED
  BY <1>1, InitLoggingInv, NextLoggingInv, PTL DEF Spec, AttachedMapsFixed

-----------------------------------------------------------------------------
(* What a line of r says, once the request is over.                        *)
Given(r) == IF r \in silent THEN Empty ELSE Own(r, hook[r], 1)

SaysItsOwn(r) ==
  pc[r] = "done" =>
    \A k \in Keys :
      line[r][k] = IF Given(r)[k] # Absent THEN Given(r)[k]
                   ELSE IF Base[k] = Absent /\ k = "hook" THEN hook[r] ELSE Base[k]

(* The map of the handler's context: it is filled from the base map, then  *)
(* with the values of the review, and is complete when it is attached.     *)
First(r) == heap[<<r, 1>>]

Filled(r) ==
  r \notin silent =>
    /\ pc[r] = "idle" => First(r) = Empty
    /\ Len(ctx[r]) = 1 => pc[r] \in {"idle", "copy", "add"}
    /\ Len(ctx[r]) = 1 /\ pc[r] = "copy" =>
         /\ todo[r] \subseteq KeysOf(Base)
         /\ \A k \in Keys : First(r)[k] = IF k \in todo[r] THEN Absent ELSE Base[k]
    /\ Len(ctx[r]) = 1 /\ pc[r] = "add" =>
         /\ todo[r] \subseteq KeysOf(Given(r))
         /\ \A k \in Keys : First(r)[k] = IF Given(r)[k] # Absent /\ k \notin todo[r]
                                          THEN Given(r)[k] ELSE Base[k]
    /\ Len(ctx[r]) > 1 => ctx[r][2] = <<r, 1>> /\ First(r) = Overlay(Base, Given(r))

Made(r) ==
  /\ ctx[r][1] = <<"base">>
  /\ pc[r] # "idle" => hook[r] \in built
  /\ pc[r] = "idle" => todo[r] = {}
  /\ Filled(r)
  /\ SaysItsOwn(r)

Shared ==
  /\ heap[<<"base">>] = Base
  /\ logger["user"] = Empty
  /\ \A h \in built : logger[h] = [Empty EXCEPT !["hook"] = h]

LineInv == LoggingInv /\ TypeOK /\ Shared /\ \A r \in Requests : Made(r)

(* A request has at least the server's context.                            *)
LEMMA Contexts ==
  ASSUME LineInv, NEW r \in Requests
  PROVE  /\ ctx[r] \in Seq(Maps) /\ Len(ctx[r]) \in Nat /\ Len(ctx[r]) > 0
         /\ Len(ctx[r]) # 1 <=> Len(ctx[r]) > 1
<1> DEFINE n == Len(ctx[r])
<1>1. ctx[r] \in Seq(Maps) /\ n \in Nat /\ n > 0
  BY DEF LineInv, LoggingInv, Control
<1> HIDE DEF n
<1>2. n # 1 <=> n > 1
  BY <1>1
<1> QED
  BY <1>1, <1>2 DEF n

LEMMA OverlayType ==
  ASSUME NEW map \in Map, NEW over \in Map
  PROVE  /\ Overlay(map, over) \in Map
         /\ \A k \in Keys : Overlay(map, over)[k] = IF over[k] = Absent THEN map[k] ELSE over[k]
BY DEF Overlay, Map

LEMMA GivenTypes ==
  ASSUME LineInv, NEW r \in Requests
  PROVE  /\ Given(r) \in Map /\ Base \in Map /\ Empty \in Map /\ heap[<<"base">>] \in Map
         /\ <<r, 1>> \in Maps /\ First(r) \in Map
         /\ ctx[r] \in Seq(Maps) /\ Len(ctx[r]) \in Nat /\ Len(ctx[r]) > 0
         /\ hook[r] \in Hooks
<1>1. hook[r] \in Hooks /\ 1 \in 1..(Depth + 1) /\ 1 \in 1..Depth
  BY LoggingAssumption DEF LineInv, TypeOK
<1>2. Empty \in Map /\ Base \in Map /\ Own(r, hook[r], 1) \in Map
  BY <1>1, LoggingAssumption DEF Empty, Map
<1>3. <<r, 1>> \in Maps /\ <<"base">> \in Maps
  BY <1>1 DEF Maps
<1>4. heap[<<r, 1>>] \in Map /\ heap[<<"base">>] \in Map
  BY <1>3 DEF LineInv, TypeOK
<1>5. ctx[r] \in Seq(Maps) /\ Len(ctx[r]) \in Nat /\ Len(ctx[r]) > 0
  BY DEF LineInv, LoggingInv, Control
<1> QED
  BY <1>1, <1>2, <1>3, <1>4, <1>5 DEF Given, First

(* What the map r makes is made from.                                      *)
LEMMA Making ==
  ASSUME LineInv, NEW r \in Requests, pc[r] \in {"copy", "add"}
  PROVE  /\ New(r) \in Maps /\ New(r) = <<r, Len(ctx[r])>> /\ Old(r) \in Maps
         /\ heap[New(r)] \in Map /\ heap[Old(r)] \in Map /\ Level(r) \in Map
<1>1. New(r) \in Maps
  BY NewIsAMap DEF LineInv
<1>2. /\ ctx[r] \in Seq(Maps) /\ Len(ctx[r]) \in 1..Depth /\ hook[r] \in Hooks
  BY LoggingAssumption DEF LineInv, LoggingInv, Control, TypeOK
<1>3. Old(r) \in Maps
  BY <1>2 DEF Old, Last
<1>4. Index(r, Len(ctx[r])) \in 1..(Depth + 1)
  BY <1>2, LoggingAssumption DEF Index
<1>5. Level(r) \in Map
  BY <1>2, <1>4, LoggingAssumption DEF Level
<1> QED
  BY <1>1, <1>3, <1>5 DEF New, LineInv, TypeOK

LEMMA InitLineInv == Init => LineInv
<1> SUFFICES ASSUME Init PROVE LineInv
  OBVIOUS
<1>1. LoggingInv
  BY InitLoggingInv
<1>2. Empty \in Map /\ Base \in Map
  BY LoggingAssumption DEF Empty, Map
<1>3. TypeOK
  <2>1. ctx \in [Requests -> Seq(Maps)]
    BY DEF Init, Maps
  <2>2. heap \in [Maps -> Map]
    BY <1>2 DEF Init
  <2> QED
    BY <1>2, <2>1, <2>2 DEF Init, TypeOK
<1>4. Shared
  BY DEF Init, Shared, Maps
<1>5. ASSUME NEW r \in Requests PROVE Made(r)
  <2>1. <<r, 1>> \in Maps /\ First(r) = Empty
    <3>1. <<r, 1>> \in Maps
      BY LoggingAssumption DEF Maps
    <3>2. heap = [m \in Maps |-> IF m = <<"base">> THEN Base ELSE Empty] /\ <<r, 1>> # <<"base">>
      BY BaseIsNoOwn DEF Init
    <3> QED
      BY <3>1, <3>2 DEF First
  <2>2. ctx[r] = <<(<<"base">>)>> /\ pc[r] = "idle" /\ todo[r] = {}
    BY DEF Init
  <2> QED
    BY <2>1, <2>2 DEF Made, Filled, SaysItsOwn
<1> QED
  BY <1>1, <1>3, <1>4, <1>5 DEF LineInv

-----------------------------------------------------------------------------
(* The types, step by step.                                                *)
LEMMA NextTypes ==
  ASSUME LineInv, [Next]_vars
  PROVE  TypeOK'
<1> USE DEF LineInv
<1>1. ASSUME NEW h \in Hooks, Configure(h) PROVE TypeOK'
  <2>1. [logger["user"] EXCEPT !["hook"] = h] \in Map
    BY LoggingAssumption DEF TypeOK, Map
  <2> QED
    BY <1>1, <2>1 DEF Configure, TypeOK
<1>2. ASSUME NEW r \in Requests, Serve(r) PROVE TypeOK'
  <2>1. todo[r] = {}
    BY <1>2 DEF Serve, Made
  <2> QED
    <3>1. CASE r \in silent
      BY <1>2, <2>1, <3>1 DEF Serve, TypeOK
    <3>2. CASE r \notin silent
      <4>1. pc' = [pc EXCEPT ![r] = "copy"] /\ todo' = [todo EXCEPT ![r] = KeysOf(heap[Old(r)])]
            /\ UNCHANGED <<logger, built, hook, silent, heap, ctx, line>>
        BY <1>2, <3>2 DEF Serve
      <4> QED
        BY <4>1 DEF TypeOK, KeysOf
    <3> QED
      BY <3>1, <3>2
<1>3. ASSUME NEW r \in Requests, Derive(r) PROVE TypeOK'
  BY <1>3 DEF Derive, TypeOK, KeysOf
<1>4. ASSUME NEW r \in Requests, Copy(r) \/ Add(r) PROVE TypeOK'
  <2>1. pc[r] \in {"copy", "add"} /\ UNCHANGED <<logger, built, hook, silent, ctx, pc, line>>
    BY <1>4 DEF Copy, Add
  <2>2. PICK k \in todo[r], v \in Values \cup {Absent} :
          /\ heap' = [heap EXCEPT ![New(r)] = [@ EXCEPT ![k] = v]]
          /\ todo' = [todo EXCEPT ![r] = @ \ {k}]
    <3>1. todo[r] \subseteq Keys
      BY DEF TypeOK
    <3>2. CASE Copy(r)
      <4>1. PICK k \in todo[r] :
              /\ heap' = [heap EXCEPT ![New(r)][k] = heap[Old(r)][k]]
              /\ todo' = [todo EXCEPT ![r] = @ \ {k}]
        BY <3>2 DEF Copy
      <4>2. heap[Old(r)][k] \in Values \cup {Absent}
        BY <2>1, <3>1, Making DEF Map
      <4> QED
        BY <4>1, <4>2
    <3>3. CASE Add(r)
      <4>1. PICK k \in todo[r] :
              /\ heap' = [heap EXCEPT ![New(r)][k] = Level(r)[k]]
              /\ todo' = [todo EXCEPT ![r] = @ \ {k}]
        BY <3>3 DEF Add
      <4>2. Level(r)[k] \in Values \cup {Absent}
        BY <2>1, <3>1, Making DEF Map
      <4> QED
        BY <4>1, <4>2
    <3> QED
      BY <1>4, <3>2, <3>3
  <2>3. [heap[New(r)] EXCEPT ![k] = v] \in Map
    BY <2>1, <2>2, Making DEF TypeOK, Map
  <2>4. heap' \in [Maps -> Map]
    BY <2>1, <2>2, <2>3, Making DEF TypeOK
  <2>5. todo' \in [Requests -> SUBSET Keys] /\ \A q \in Requests : todo[q] = {} => todo'[q] = {}
    BY <2>2 DEF TypeOK
  <2> QED
    BY <2>1, <2>4, <2>5 DEF TypeOK
<1>5. ASSUME NEW r \in Requests, EndCopy(r) PROVE TypeOK'
  BY <1>5 DEF EndCopy, TypeOK, KeysOf
<1>6. ASSUME NEW r \in Requests, Attach(r) PROVE TypeOK'
  <2>1. ctx' \in [Requests -> Seq(Maps)]
    <3>1. New(r) \in Maps /\ ctx[r] \in Seq(Maps)
      BY <1>6, Making DEF Attach, TypeOK
    <3>2. Append(ctx[r], New(r)) \in Seq(Maps)
      BY <3>1, AppendProperties
    <3> QED
      BY <1>6, <3>2 DEF Attach, TypeOK
  <2> QED
    BY <1>6, <2>1 DEF Attach, TypeOK
<1>7. ASSUME NEW r \in Requests, Log(r) PROVE TypeOK'
  <2>1. logger[hook[r]] \in Map /\ heap[Reviewed(r)] \in Map
    <3>1. Reviewed(r) \in Maps
      <4>1. Len(ctx[r]) \in Nat /\ Len(ctx[r]) > 0 /\ ctx[r] \in Seq(Maps)
        BY GivenTypes
      <4>2. r \notin silent => Len(ctx[r]) # 1
        BY <1>7 DEF Log, Made, Filled
      <4> QED
        <5>1. CASE r \in silent
          BY <4>1, <5>1 DEF Reviewed
        <5>2. CASE r \notin silent
          <6>1. 2 \in 1..Len(ctx[r])
            BY <4>2, <5>2, Contexts
          <6> QED
            BY <4>1, <5>2, <6>1 DEF Reviewed
        <5> QED
          BY <5>1, <5>2
    <3> QED
      BY <3>1 DEF TypeOK
  <2>2. Overlay(logger[hook[r]], heap[Reviewed(r)]) \in Map
    BY <2>1, OverlayType
  <2> QED
    BY <1>7, <2>2 DEF Log, TypeOK
<1>8. CASE UNCHANGED vars
  BY <1>8 DEF vars, TypeOK
<1> QED
  BY <1>1, <1>2, <1>3, <1>4, <1>5, <1>6, <1>7, <1>8 DEF Next, Step, Done

-----------------------------------------------------------------------------
(* What is shared, and what other requests have made, stays.               *)
LEMMA FixedMaps ==
  ASSUME LineInv, [Next]_vars
  PROVE  /\ heap'[<<"base">>] = heap[<<"base">>]
         /\ \A r \in Requests : Len(ctx[r]) > 1 => heap'[<<r, 1>>] = heap[<<r, 1>>]
<1>1. CASE heap' = heap
  BY <1>1
<1>2. ASSUME NEW q \in Requests, pc[q] \in {"copy", "add"},
             \A m \in Maps : m # New(q) => heap'[m] = heap[m]
      PROVE  /\ heap'[<<"base">>] = heap[<<"base">>]
             /\ \A r \in Requests : Len(ctx[r]) > 1 => heap'[<<r, 1>>] = heap[<<r, 1>>]
  <2>1. <<"base">> \in Maps /\ <<"base">> # New(q)
    BY BaseIsNoOwn DEF Maps, New
  <2>2. ASSUME NEW r \in Requests, Len(ctx[r]) > 1 PROVE <<r, 1>> \in Maps /\ <<r, 1>> # New(q)
    <3>1. <<r, 1>> \in Maps
      BY GivenTypes
    <3>2. New(q) = <<q, Len(ctx[q])>>
      BY DEF New
    <3>3. Len(ctx[r]) # 1
      BY <2>2, Contexts
    <3> QED
      BY <3>1, <3>2, <3>3
  <2> QED
    BY <1>2, <2>1, <2>2
<1> QED
  BY <1>1, <1>2, WritesNew DEF LineInv

LEMMA NextShared ==
  ASSUME LineInv, [Next]_vars
  PROVE  Shared'
<1>1. heap'[<<"base">>] = Base
  BY FixedMaps DEF LineInv, Shared
<1>2. ASSUME NEW h \in Hooks, Configure(h) PROVE Shared'
  BY <1>1, <1>2, LoggingAssumption DEF Configure, LineInv, Shared, TypeOK
<1>3. CASE logger' = logger /\ built' = built
  BY <1>1, <1>3 DEF LineInv, Shared
<1>4. ASSUME NEW r \in Requests, Step(r) PROVE logger' = logger /\ built' = built
  BY <1>4 DEF Step, Serve, Derive, Copy, EndCopy, Add, Attach, Log
<1>5. CASE UNCHANGED vars
  BY <1>3, <1>5 DEF vars
<1> QED
  BY <1>2, <1>3, <1>4, <1>5 DEF Next, Done

(* A request that does not move keeps what it has made.                    *)
LEMMA StaysMade ==
  ASSUME LineInv, NEW r \in Requests, heap'[<<r, 1>>] = heap[<<r, 1>>],
         UNCHANGED <<hook, silent, pc[r], ctx[r], todo[r], line[r]>>, built \subseteq built'
  PROVE  Made(r)'
<1>1. Given(r)' = Given(r) /\ First(r)' = First(r) /\ Made(r)
  BY DEF Given, First, LineInv
<1> QED
  BY <1>1 DEF Made, Filled, SaysItsOwn

(* The steps of r.                                                         *)
LEMMA ServeMade ==
  ASSUME LineInv, NEW r \in Requests, Serve(r)
  PROVE  Made(r)'
<1>1. /\ pc[r] = "idle" /\ hook[r] \in built /\ Len(ctx[r]) = 1 /\ Made(r)
      /\ UNCHANGED <<logger, built, hook, silent, heap, ctx, line>>
      /\ Given(r)' = Given(r) /\ First(r)' = First(r)
  BY DEF Serve, LineInv, LoggingInv, Control, Given, First
<1>2. CASE r \in silent
  <2>1. pc'[r] = "review"
    BY <1>2 DEF Serve, LineInv, TypeOK
  <2> QED
    BY <1>1, <1>2, <2>1 DEF Made, Filled, SaysItsOwn
<1>3. CASE r \notin silent
  <2>1. pc'[r] = "copy" /\ todo'[r] = KeysOf(heap[Old(r)])
    BY <1>3 DEF Serve, LineInv, TypeOK
  <2>2. heap[Old(r)] = Base /\ First(r) = Empty
    BY <1>1, <1>3 DEF Old, Last, Made, Filled, LineInv, Shared
  <2>3. \A k \in Keys : First(r)[k] = IF k \in KeysOf(Base) THEN Absent ELSE Base[k]
    BY <2>2 DEF Empty, KeysOf
  <2> QED
    BY <1>1, <1>3, <2>1, <2>2, <2>3 DEF Made, Filled, SaysItsOwn
<1> QED
  BY <1>2, <1>3

LEMMA DeriveMade ==
  ASSUME LineInv, NEW r \in Requests, Derive(r)
  PROVE  Made(r)'
<1>1. /\ pc[r] = "review" /\ pc'[r] = "copy" /\ Made(r)
      /\ UNCHANGED <<logger, built, hook, silent, heap, ctx, line>>
      /\ Given(r)' = Given(r) /\ First(r)' = First(r)
  BY DEF Derive, LineInv, TypeOK, Given, First
<1> QED
  BY <1>1 DEF Made, Filled, SaysItsOwn

LEMMA EndCopyMade ==
  ASSUME LineInv, NEW r \in Requests, EndCopy(r)
  PROVE  Made(r)'
<1>1. /\ pc[r] = "copy" /\ pc'[r] = "add" /\ Made(r) /\ todo[r] = {} /\ todo'[r] = KeysOf(Level(r))
      /\ UNCHANGED <<logger, built, hook, silent, heap, ctx, line>>
      /\ Given(r)' = Given(r) /\ First(r)' = First(r)
  BY DEF EndCopy, LineInv, TypeOK, Given, First
<1>2. ASSUME r \notin silent, Len(ctx[r]) = 1
      PROVE  /\ Level(r) = Given(r)
             /\ \A k \in Keys : First(r)[k] = IF Given(r)[k] # Absent /\ k \notin KeysOf(Given(r))
                                              THEN Given(r)[k] ELSE Base[k]
  <2>1. Level(r) = Given(r)
    BY <1>2 DEF Level, Index, Given
  <2>2. \A k \in Keys : First(r)[k] = Base[k]
    BY <1>1, <1>2 DEF Made, Filled
  <2> QED
    BY <2>1, <2>2 DEF KeysOf
<1> QED
  BY <1>1, <1>2 DEF Made, Filled, SaysItsOwn

(* A key is written.                                                       *)
LEMMA CopyMade ==
  ASSUME LineInv, NEW r \in Requests, Copy(r)
  PROVE  Made(r)'
<1>1. PICK k \in todo[r] :
        /\ heap' = [heap EXCEPT ![New(r)] = [@ EXCEPT ![k] = heap[Old(r)][k]]]
        /\ todo' = [todo EXCEPT ![r] = @ \ {k}]
  BY DEF Copy
<1>2. /\ pc[r] = "copy" /\ Made(r) /\ UNCHANGED <<logger, built, hook, silent, ctx, pc, line>>
      /\ todo'[r] = todo[r] \ {k} /\ k \in Keys /\ Given(r)' = Given(r)
  BY <1>1 DEF Copy, LineInv, TypeOK, Given
<1>3. CASE Len(ctx[r]) = 1
  <2>1. /\ New(r) = <<r, 1>> /\ Old(r) = <<"base">>
    BY <1>2, <1>3 DEF New, Old, Last, Made
  <2>2. First(r)' = [First(r) EXCEPT ![k] = Base[k]]
    BY <1>1, <2>1, GivenTypes DEF First, LineInv, TypeOK, Shared
  <2>3. \A j \in Keys : First(r)'[j] = IF j = k THEN Base[k] ELSE First(r)[j]
    BY <2>2, GivenTypes DEF Map
  <2> QED
    BY <1>2, <1>3, <2>3 DEF Made, Filled, SaysItsOwn
<1>4. CASE Len(ctx[r]) # 1
  <2>1. Len(ctx[r]) > 1
    BY <1>4, Contexts
  <2>2. First(r)' = First(r)
    BY <2>1, FixedMaps DEF First, Next, Step
  <2> QED
    BY <1>2, <1>4, <2>2 DEF Made, Filled, SaysItsOwn
<1> QED
  BY <1>3, <1>4

LEMMA AddMade ==
  ASSUME LineInv, NEW r \in Requests, Add(r)
  PROVE  Made(r)'
<1>1. PICK k \in todo[r] :
        /\ heap' = [heap EXCEPT ![New(r)] = [@ EXCEPT ![k] = Level(r)[k]]]
        /\ todo' = [todo EXCEPT ![r] = @ \ {k}]
  BY DEF Add
<1>2. /\ pc[r] = "add" /\ Made(r) /\ UNCHANGED <<logger, built, hook, silent, ctx, pc, line>>
      /\ todo'[r] = todo[r] \ {k} /\ k \in Keys /\ Given(r)' = Given(r)
  BY <1>1 DEF Add, LineInv, TypeOK, Given
<1>3. CASE Len(ctx[r]) = 1 /\ r \notin silent
  <2>1. /\ New(r) = <<r, 1>> /\ Level(r) = Given(r)
    BY <1>3 DEF New, Level, Index, Given
  <2>2. First(r)' = [First(r) EXCEPT ![k] = Given(r)[k]]
    BY <1>1, <2>1, GivenTypes DEF First, LineInv, TypeOK
  <2>3. \A j \in Keys : First(r)'[j] = IF j = k THEN Given(r)[k] ELSE First(r)[j]
    BY <2>2, GivenTypes DEF Map
  <2>4. todo[r] \subseteq KeysOf(Given(r)) /\ Given(r)[k] # Absent
    BY <1>1, <1>2, <1>3 DEF Made, Filled, KeysOf
  <2> QED
    BY <1>2, <1>3, <2>3, <2>4 DEF Made, Filled, SaysItsOwn
<1>4. CASE Len(ctx[r]) # 1
  <2>1. Len(ctx[r]) > 1
    BY <1>4, Contexts
  <2>2. First(r)' = First(r)
    BY <2>1, FixedMaps DEF First, Next, Step
  <2> QED
    BY <1>2, <1>4, <2>2 DEF Made, Filled, SaysItsOwn
<1>5. CASE r \in silent
  BY <1>2, <1>5 DEF Made, Filled, SaysItsOwn
<1> QED
  BY <1>3, <1>4, <1>5

LEMMA AttachMade ==
  ASSUME LineInv, NEW r \in Requests, Attach(r)
  PROVE  Made(r)'
<1>1. /\ pc[r] = "add" /\ pc'[r] = "review" /\ todo[r] = {} /\ Made(r)
      /\ UNCHANGED <<logger, built, hook, silent, heap, todo, line>>
      /\ Given(r)' = Given(r) /\ First(r)' = First(r) /\ ctx'[r] = Append(ctx[r], New(r))
  BY DEF Attach, LineInv, TypeOK, Given, First
<1>2. /\ Len(ctx'[r]) = Len(ctx[r]) + 1 /\ ctx'[r][Len(ctx[r]) + 1] = New(r)
      /\ \A i \in 1..Len(ctx[r]) : ctx'[r][i] = ctx[r][i]
      /\ Len(ctx[r]) \in Nat /\ Len(ctx[r]) > 0
  <2>1. ctx[r] \in Seq(Maps) /\ New(r) \in Maps
    BY <1>1, Contexts, Making
  <2>2. /\ Len(Append(ctx[r], New(r))) = Len(ctx[r]) + 1
        /\ Append(ctx[r], New(r))[Len(ctx[r]) + 1] = New(r)
        /\ \A i \in 1..Len(ctx[r]) : Append(ctx[r], New(r))[i] = ctx[r][i]
    BY <2>1, AppendProperties
  <2> QED
    BY <1>1, <2>2, Contexts
<1>3. ASSUME r \notin silent
      PROVE  ctx'[r][2] = <<r, 1>> /\ First(r) = Overlay(Base, Given(r))
  <2>1. CASE Len(ctx[r]) = 1
    <3>1. \A k \in Keys : First(r)[k] = IF Given(r)[k] # Absent THEN Given(r)[k] ELSE Base[k]
      BY <1>1, <1>3, <2>1 DEF Made, Filled
    <3>2. First(r) = Overlay(Base, Given(r))
      BY <3>1, GivenTypes DEF Overlay, Map
    <3> QED
      BY <1>2, <2>1, <3>2 DEF New
  <2>2. CASE Len(ctx[r]) > 1
    BY <1>1, <1>2, <1>3, <2>2 DEF Made, Filled
  <2> QED
    BY <2>1, <2>2, Contexts
<1> QED
  BY <1>1, <1>2, <1>3 DEF Made, Filled, SaysItsOwn

LEMMA LogMade ==
  ASSUME LineInv, NEW r \in Requests, Log(r)
  PROVE  Made(r)'
<1>1. /\ pc[r] = "review" /\ pc'[r] = "done" /\ Made(r)
      /\ UNCHANGED <<logger, built, hook, silent, heap, ctx, todo>>
      /\ Given(r)' = Given(r) /\ First(r)' = First(r)
      /\ line'[r] = Overlay(logger[hook[r]], heap[Reviewed(r)])
  BY DEF Log, LineInv, TypeOK, Given, First
<1>2. logger[hook[r]] = [Empty EXCEPT !["hook"] = hook[r]]
  BY <1>1 DEF LineInv, Shared, Made
<1>3. \A k \in Keys : heap[Reviewed(r)][k] = IF Given(r)[k] # Absent THEN Given(r)[k] ELSE Base[k]
  <2>1. CASE r \in silent
    BY <1>1, <2>1 DEF Reviewed, Made, LineInv, Shared, Given, Empty
  <2>2. CASE r \notin silent
    <3>1. Len(ctx[r]) > 1
      <4>1. Len(ctx[r]) # 1
        BY <1>1, <2>2 DEF Made, Filled
      <4> QED
        BY <4>1, Contexts
    <3>2. heap[Reviewed(r)] = Overlay(Base, Given(r))
      BY <1>1, <2>2, <3>1 DEF Reviewed, Made, Filled, First
    <3> QED
      BY <3>2 DEF Overlay
  <2> QED
    BY <2>1, <2>2
<1>4. \A k \in Keys : line'[r][k] = IF heap[Reviewed(r)][k] = Absent THEN logger[hook[r]][k] ELSE heap[Reviewed(r)][k]
  BY <1>1 DEF Overlay
<1>5. \A k \in Keys : logger[hook[r]][k] = IF k = "hook" THEN hook[r] ELSE Absent
  BY <1>2 DEF Empty
<1>6. SaysItsOwn(r)'
  BY <1>1, <1>3, <1>4, <1>5 DEF SaysItsOwn
<1> QED
  BY <1>1, <1>6 DEF Made, Filled

LEMMA NextLineInv == LineInv /\ [Next]_vars => LineInv'
<1> SUFFICES ASSUME LineInv, [Next]_vars PROVE LineInv'
  OBVIOUS
<1>1. LoggingInv' /\ TypeOK' /\ Shared'
  BY NextLoggingInv, NextTypes, NextShared DEF LineInv
<1>2. ASSUME NEW r \in Requests PROVE Made(r)'
  <2>1. ASSUME NEW h \in Hooks, Configure(h) PROVE Made(r)'
    BY <2>1, StaysMade DEF Configure
  <2>2. ASSUME NEW q \in Requests, q # r, Step(q) PROVE Made(r)'
    <3>1. UNCHANGED <<hook, silent, built, pc[r], ctx[r], todo[r], line[r]>>
      BY <2>2 DEF Step, Serve, Derive, Copy, EndCopy, Add, Attach, Log, LineInv, TypeOK
    <3>2. heap'[<<r, 1>>] = heap[<<r, 1>>]
      <4>1. CASE Copy(q) \/ Add(q)
        <5>1. \A m \in Maps : m # New(q) => heap'[m] = heap[m]
          BY <4>1 DEF Copy, Add, LineInv, TypeOK
        <5> QED
          BY <2>2, <5>1, GivenTypes DEF New
      <4>2. CASE Serve(q) \/ Derive(q) \/ EndCopy(q) \/ Attach(q) \/ Log(q)
        BY <4>2 DEF Serve, Derive, EndCopy, Attach, Log
      <4> QED
        BY <2>2, <4>1, <4>2 DEF Step
    <3> QED
      BY <3>1, <3>2, StaysMade
  <2>3. ASSUME Step(r) PROVE Made(r)'
    BY <2>3, ServeMade, DeriveMade, CopyMade, EndCopyMade, AddMade, AttachMade, LogMade DEF Step
  <2>4. CASE UNCHANGED vars
    BY <2>4, StaysMade DEF vars
  <2> QED
    BY <2>1, <2>2, <2>3, <2>4 DEF Next, Done
<1> QED
  BY <1>1, <1>2 DEF LineInv

LEMMA LineInvariant == Spec => []LineInv
BY InitLineInv, NextLineInv, PTL DEF Spec

(* The types of the state.                                                 *)
THEOREM LoggingTypes == Spec => []TypeOK
<1>1. LineInv => TypeOK
  BY DEF LineInv
<1> QED
  BY <1>1, LineInvariant, PTL

(* A line says what the handler knows of its request, or else the server   *)
(* or the webhook, whatever the other requests, webhooks and derived       *)
(* contexts say (logrus.go:20-27, handler.go:125-138).                     *)
THEOREM EachLineItsOwn == Spec => []LinesAreTheirOwn
<1>1. LineInv => LinesAreTheirOwn
  <2> SUFFICES ASSUME LineInv, NEW r \in Requests, NEW k \in Keys, pc[r] = "done"
               PROVE  LET given == IF r \in silent THEN Absent ELSE Own(r, hook[r], 1)[k]
                      IN  line[r][k] = IF given # Absent THEN given
                                       ELSE IF Base[k] = Absent /\ k = "hook" THEN hook[r] ELSE Base[k]
    BY DEF LinesAreTheirOwn
  <2>1. Given(r)[k] = IF r \in silent THEN Absent ELSE Own(r, hook[r], 1)[k]
    BY DEF Given, Empty
  <2> QED
    BY <2>1 DEF LineInv, Made, SaysItsOwn
<1> QED
  BY <1>1, LineInvariant, PTL
=============================================================================
