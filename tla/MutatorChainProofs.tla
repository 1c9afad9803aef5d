------------------------- MODULE MutatorChainProofs -------------------------
(***************************************************************************)
(* Proofs about MutatorChain, for any reviews, mutators, prepared results, *)
(* objects, warnings and any finite nesting of chains.                     *)
(***************************************************************************)
EXTENDS MutatorChain, SequenceTheorems, TLAPS

-----------------------------------------------------------------------------
(* A push, a pop and a change of the top frame keep a stack a stack.       *)
LEMMA Stacks ==
  ASSUME NEW s \in Seq(Frame), s # <<>>
  PROVE  /\ Last(s) \in Frame
         /\ Front(s) \in Seq(Frame)
         /\ Len(s) # 1 => Front(s) # <<>>
         /\ \A x \in Frame : /\ Append(s, x) \in Seq(Frame) /\ Append(s, x) # <<>>
                             /\ Last(Append(s, x)) = x
                             /\ Append(Front(s), x) \in Seq(Frame)
                             /\ Append(Front(s), x) # <<>>
                             /\ Last(Append(Front(s), x)) = x
<1>1. Len(s) \in Nat \ {0}
  BY EmptySeq
<1>2. Last(s) \in Frame
  BY <1>1 DEF Last
<1>3. Front(s) \in Seq(Frame) /\ Len(Front(s)) = Len(s) - 1
  <2>1. \A n \in Nat : n <= Len(s) => /\ SubSeq(s, 1, n) \in Seq(Frame)
                                      /\ Len(SubSeq(s, 1, n)) = n
    <3> TAKE n \in Nat
    <3> HAVE n <= Len(s)
    <3>1. \A i \in 1..n : s[i] \in Frame
      BY <1>1
    <3> QED
      BY <3>1
  <2>2. Len(s) - 1 \in Nat /\ Len(s) - 1 <= Len(s)
    BY <1>1
  <2>3. SubSeq(s, 1, Len(s) - 1) \in Seq(Frame) /\ Len(SubSeq(s, 1, Len(s) - 1)) = Len(s) - 1
    BY <2>1, <2>2
  <2> QED
    BY <2>3, Zenon DEF Front
<1>4. Len(s) # 1 => Front(s) # <<>>
  BY <1>1, <1>3, EmptySeq
<1>5. \A t \in Seq(Frame), x \in Frame : /\ Append(t, x) \in Seq(Frame)
                                          /\ Append(t, x) # <<>>
                                          /\ Last(Append(t, x)) = x
  BY DEF Last
<1> QED
  BY <1>2, <1>3, <1>4, <1>5

(* Whatever the words of a slice header are, what is read is a sequence.   *)
LEMMA SliceType == \A cell \in Cell : Slice(cell) \in Seen
<1> TAKE cell \in Cell
<1>1. cell.data \in Seq(Warnings \cup {Torn}) /\ cell.len \in Nat
  BY DEF Cell, Seen
<1>2. \A k \in 1..cell.len :
        (IF k <= Len(cell.data) THEN cell.data[k] ELSE Torn) \in Warnings \cup {Torn}
  BY <1>1
<1> QED
  BY <1>1, <1>2 DEF Slice, Seen

LEMMA CellOfType == \A res \in Result : CellOf(res) \in Cell
<1> TAKE res \in Result
<1>1. res.warnings \in Seq(Warnings \cup {Torn}) /\ Len(res.warnings) \in Nat
  BY DEF Result
<1> QED
  BY <1>1 DEF CellOf, Result, Cell, Seen

(* The cell of a chain that ran to its end.                                *)
LEMMA PassedType == \A o \in Objects \cup {Nil}, ws \in Seen : CellOf(Passed(o, ws)) \in Cell
BY DEF CellOf, Passed, Cell, Seen

-----------------------------------------------------------------------------
(* The control state of a review: where it has frames, what the element it *)
(* is at is, and whose result it may hold.                                 *)
Control(q) ==
  /\ pc[q] \in {"select", "call", "mutator", "returned", "writeLen", "writeData"} => stack[q] # <<>>
  /\ pc[q] \in {"call", "mutator"} => More(q)
  /\ pc[q] = "mutator" => Element(q) \in Mutators
  /\ pc[q] \in {"returned", "forge"} => ret[q].kind # "none"
  /\ pc[q] = "forge" => ret[q].kind # "nil"
  /\ pc[q] \in {"writeLen", "writeData"} => ret[q].kind = "result"
  /\ ret[q].ref \in {q} \cup Static

TypeInv == TypeOK /\ \A q \in Requests : Control(q)

LEMMA TopFacts ==
  ASSUME TypeInv, NEW r \in Requests,
         pc[r] \in {"select", "call", "mutator", "returned", "writeLen", "writeData"}
  PROVE  /\ stack[r] \in Seq(Frame) /\ stack[r] # <<>>
         /\ Top(r) \in Frame
         /\ Top(r).obj \in Objects /\ Top(r).warnings \in Seen
         /\ More(r) => Element(r) \in Mutators \cup Chains
<1>1. stack[r] \in Seq(Frame) /\ stack[r] # <<>>
  BY DEF TypeInv, TypeOK, Control
<1>2. Top(r) \in Frame
  BY <1>1, Stacks DEF Top
<1>3. /\ Top(r).chain \in Chains /\ Top(r).i \in Nat \ {0}
      /\ Top(r).obj \in Objects /\ Top(r).warnings \in Seen
  BY <1>2 DEF Frame
<1>4. Elements[Top(r).chain] \in Seq(Mutators \cup Chains)
  BY <1>3, ChainAssumption
<1> QED
  BY <1>1, <1>2, <1>3, <1>4, LenProperties, ElementOfSeq DEF More, Element

LEMMA InitTypeInv == Init => TypeInv
<1> SUFFICES ASSUME Init PROVE TypeInv
  OBVIOUS
<1> USE DEF Init
<1>1. \A v \in Static : CellOf(Prepared[v]) \in Cell
  BY PreparedAssumption, CellOfType
<1>2. CellOf(Passed(Nil, <<>>)) \in Cell
  <2>1. <<>> \in Seen
    BY DEF Seen
  <2> QED
    BY <2>1, PassedType
<1>3. heap \in [Pointers -> Cell]
  BY <1>1, <1>2
<1>4. ret \in [Requests -> Return]
  BY DEF Return, Pointers, Kinds
<1>5. answer \in [Requests -> Answer]
  BY DEF NoAnswer, Answer, Kinds, Seen
<1>6. hist \in [Requests -> History]
  BY DEF History
<1>7. stack \in [Requests -> Seq(Frame)]
  OBVIOUS
<1> QED
  BY <1>3, <1>4, <1>5, <1>6, <1>7 DEF TypeInv, TypeOK, Control

(* A review whose frames and result do not change keeps its control.       *)
LEMMA ControlKept ==
  ASSUME NEW q, Control(q), pc'[q] = pc[q], stack'[q] = stack[q], ret'[q] = ret[q]
  PROVE  Control(q)'
BY DEF Control, Top, More, Element

LEMMA OthersControl ==
  ASSUME TypeInv, NEW r \in Requests,
         \A q \in Requests : q # r => /\ pc'[q] = pc[q]
                                      /\ stack'[q] = stack[q]
                                      /\ ret'[q] = ret[q],
         Control(r)'
  PROVE  \A q \in Requests : Control(q)'
BY ControlKept DEF TypeInv

(* Returning from a chain, with whatever heap.                             *)
LEMMA ReturnTypeInv ==
  ASSUME TypeInv, NEW r \in Requests, pc[r] \in {"select", "returned", "writeLen", "writeData"},
         NEW kind \in Kinds \ {"none", "nil"},
         NEW ref \in {r} \cup Static, NEW h \in [Pointers -> Cell],
         ReturnFrom(r, kind, ref, h)
  PROVE  TypeInv'
<1> USE DEF TypeInv, TypeOK
<1>1. stack[r] \in Seq(Frame) /\ stack[r] # <<>>
  BY TopFacts
<1>2. Front(stack[r]) \in Seq(Frame) /\ (Len(stack[r]) # 1 => Front(stack[r]) # <<>>)
  BY <1>1, Stacks
<1>3. stack' = [stack EXCEPT ![r] = Front(stack[r])] /\ stack' \in [Requests -> Seq(Frame)]
  BY <1>2 DEF ReturnFrom
<1>4. ret' = [ret EXCEPT ![r] = [kind |-> kind, ref |-> ref]] /\ ret' \in [Requests -> Return]
  BY DEF ReturnFrom, Return, Pointers
<1>5. pc' = [pc EXCEPT ![r] = IF Len(stack[r]) = 1 THEN "forge" ELSE "returned"]
  BY DEF ReturnFrom, Goto
<1>6. heap' = h /\ UNCHANGED <<ctxDone, input, answer, hist>>
  BY DEF ReturnFrom
<1>7. TypeOK'
  BY <1>3, <1>4, <1>5, <1>6
<1>8. Control(r)'
  <2>1. ret'[r] = [kind |-> kind, ref |-> ref] /\ stack'[r] = Front(stack[r])
    BY <1>3, <1>4
  <2> QED
    BY <2>1, <1>2, <1>5 DEF Control
<1> QED
  BY <1>3, <1>4, <1>5, <1>7, <1>8, OthersControl

LEMMA GatheredType ==
  ASSUME TypeInv, NEW r \in Requests, pc[r] = "returned"
  PROVE  /\ Given(r) \in Cell
         /\ ret[r].ref \in Pointers
         /\ Gathered(r) \in Seen
         /\ Carried(r) \in Objects
<1>1. ret[r].ref \in Pointers /\ Given(r) \in Cell
  BY DEF TypeInv, TypeOK, Return, Given
<1>2. Slice(Given(r)) \in Seen
  BY <1>1, SliceType
<1>3. Top(r).obj \in Objects /\ Top(r).warnings \in Seen
  BY TopFacts
<1>4. Gathered(r) \in Seen
  BY <1>2, <1>3 DEF Gathered, Seen
<1> QED
  BY <1>1, <1>3, <1>4 DEF Carried, Cell

LEMMA CallTypeInv ==
  ASSUME TypeInv, NEW r \in Requests,
         Start(r) \/ Proceed(r) \/ CallMutator(r) \/ CallChain(r)
  PROVE  TypeInv'
<1> USE DEF TypeInv, TypeOK, Goto
<1>0. <<>> \in Seen
  BY DEF Seen
<1>1. CASE Start(r)
  <2>1. NewFrame(Root, input[r]) \in Frame
    BY <1>0, ChainAssumption DEF NewFrame, Frame
  <2>2. <<NewFrame(Root, input[r])>> \in Seq(Frame) \ {<<>>}
    BY <2>1
  <2>3. stack' = [stack EXCEPT ![r] = <<NewFrame(Root, input[r])>>]
    BY <1>1 DEF Start
  <2>4. TypeOK'
    BY <1>1, <2>2 DEF Start
  <2>5. Control(r)'
    BY <1>1, <2>2, <2>3 DEF Start, Control
  <2> QED
    BY <1>1, <2>4, <2>5, OthersControl DEF Start
<1>2. CASE Proceed(r)
  <2>1. TypeOK'
    BY <1>2 DEF Proceed
  <2>2. Control(r)'
    BY <1>2 DEF Proceed, Control, Top, More
  <2> QED
    BY <1>2, <2>1, <2>2, OthersControl DEF Proceed
<1>3. CASE CallMutator(r)
  <2>1. hist[r].calls \in Seq(Mutators) /\ hist[r].late \in Nat
    BY DEF History
  <2>2. /\ Append(hist[r].calls, Element(r)) \in Seq(Mutators)
        /\ (IF ctxDone[r] THEN hist[r].late + 1 ELSE hist[r].late) \in Nat
    BY <1>3, <2>1 DEF CallMutator
  <2>3. [hist[r] EXCEPT !.calls = Append(@, Element(r)),
                        !.late = IF ctxDone[r] THEN @ + 1 ELSE @] \in History
    BY <2>2 DEF History
  <2>4. hist' \in [Requests -> History]
    BY <1>3, <2>3 DEF CallMutator
  <2>5. TypeOK'
    BY <1>3, <2>4 DEF CallMutator
  <2>6. Control(r)'
    BY <1>3 DEF CallMutator, Control, Top, More, Element
  <2> QED
    BY <1>3, <2>5, <2>6, OthersControl DEF CallMutator
<1>4. CASE CallChain(r)
  <2>1. stack[r] \in Seq(Frame) /\ stack[r] # <<>> /\ Top(r).obj \in Objects
    BY <1>4, TopFacts DEF CallChain
  <2>2. NewFrame(Element(r), Top(r).obj) \in Frame
    BY <1>0, <1>4, <2>1 DEF CallChain, NewFrame, Frame
  <2>3. /\ Append(stack[r], NewFrame(Element(r), Top(r).obj)) \in Seq(Frame)
        /\ Append(stack[r], NewFrame(Element(r), Top(r).obj)) # <<>>
    BY <2>1, <2>2, Stacks
  <2>4. stack' = [stack EXCEPT ![r] = Append(stack[r], NewFrame(Element(r), Top(r).obj))]
    BY <1>4 DEF CallChain
  <2>5. TypeOK'
    BY <1>4, <2>3, <2>4 DEF CallChain
  <2>6. Control(r)'
    BY <1>4, <2>3, <2>4 DEF CallChain, Control
  <2> QED
    BY <1>4, <2>5, <2>6, OthersControl DEF CallChain
<1> QED
  BY <1>1, <1>2, <1>3, <1>4

LEMMA EndTypeInv ==
  ASSUME TypeInv, NEW r \in Requests,
         LoopEnd(r) \/ ContextDone(r) \/ Fail(r) \/ StopReturn(r)
  PROVE  TypeInv'
<1> USE DEF TypeInv, TypeOK
<1>1. CASE LoopEnd(r)
  <2>1. Top(r).obj \in Objects /\ Top(r).warnings \in Seen
    BY <1>1, TopFacts DEF LoopEnd
  <2>2. [heap EXCEPT ![r] = CellOf(Passed(Top(r).obj, Top(r).warnings))] \in [Pointers -> Cell]
    BY <2>1, PassedType
  <2>3. "result" \in Kinds \ {"none", "nil"} /\ pc[r] = "select"
    BY <1>1 DEF LoopEnd, Kinds
  <2> QED
    BY <1>1, <2>2, <2>3, ReturnTypeInv DEF LoopEnd
<1>2. CASE ContextDone(r)
  BY <1>2, ReturnTypeInv DEF ContextDone, Kinds
<1>3. CASE Fail(r)
  <2>1. (IF ret[r].kind = "nil" THEN "nilError" ELSE ret[r].kind) \in Kinds \ {"none", "nil"}
    BY <1>3 DEF Fail, Control, Return, Kinds
  <2> QED
    BY <1>3, <2>1, ReturnTypeInv DEF Fail
<1>4. CASE StopReturn(r)
  <2> DEFINE ref == ret[r].ref
  <2>1. ref \in {r} \cup Static /\ ref \in Pointers /\ heap[ref] \in Cell
    BY DEF Control, Return
  <2>2. Top(r).warnings \in Seen /\ Len(Top(r).warnings) \in Nat
    <3>1. pc[r] \in {"writeLen", "writeData"}
      BY <1>4 DEF StopReturn
    <3>2. Top(r) \in Frame
      BY <3>1, TopFacts
    <3> QED
      BY <3>2 DEF Frame, Seen
  <2>3. /\ [heap[ref] EXCEPT !.len = Len(Top(r).warnings)] \in Cell
        /\ [heap[ref] EXCEPT !.data = Top(r).warnings] \in Cell
    BY <2>1, <2>2 DEF Cell
  <2>4. /\ [heap EXCEPT ![ref].len = Len(Top(r).warnings)] \in [Pointers -> Cell]
        /\ [heap EXCEPT ![ref].data = Top(r).warnings] \in [Pointers -> Cell]
    BY <2>1, <2>3
  <2>5. "result" \in Kinds \ {"none", "nil"}
    BY DEF Kinds
  <2> QED
    BY <1>4, <2>1, <2>4, <2>5, ReturnTypeInv DEF StopReturn
<1> QED
  BY <1>1, <1>2, <1>3, <1>4

LEMMA ResultTypeInv ==
  ASSUME TypeInv, NEW r \in Requests, Stop(r) \/ Continue(r)
  PROVE  TypeInv'
<1> USE DEF TypeInv, TypeOK, Goto
<1>1. pc[r] = "returned" /\ ret[r].kind = "result"
  BY DEF Stop, Continue
<1>2. Top(r) \in Frame /\ stack[r] \in Seq(Frame) /\ stack[r] # <<>>
  BY <1>1, TopFacts
<1>3. /\ Given(r) \in Cell /\ ret[r].ref \in Pointers
      /\ Gathered(r) \in Seen /\ Carried(r) \in Objects
  BY <1>1, GatheredType
<1>4. /\ [Top(r) EXCEPT !.warnings = Gathered(r)] \in Frame
      /\ [Top(r) EXCEPT !.i = @ + 1, !.obj = Carried(r), !.warnings = Gathered(r)] \in Frame
  <2>1. Top(r).i + 1 \in Nat \ {0}
    BY <1>2 DEF Frame
  <2> QED
    BY <1>2, <1>3, <2>1 DEF Frame
<1>5. CASE Stop(r)
  <2> DEFINE frame == [Top(r) EXCEPT !.warnings = Gathered(r)]
  <2>1. Append(Front(stack[r]), frame) \in Seq(Frame) /\ Append(Front(stack[r]), frame) # <<>>
    BY <1>2, <1>4, Stacks
  <2>2. stack' = [stack EXCEPT ![r] = Append(Front(stack[r]), frame)]
    BY <1>5 DEF Stop
  <2> HIDE DEF frame
  <2>3. Len(Gathered(r)) \in Nat
    BY <1>3 DEF Seen
  <2>4. /\ [heap EXCEPT ![ret[r].ref].data = Gathered(r)] \in [Pointers -> Cell]
        /\ [heap EXCEPT ![ret[r].ref].len = Len(Gathered(r))] \in [Pointers -> Cell]
    <3>1. /\ [heap[ret[r].ref] EXCEPT !.data = Gathered(r)] \in Cell
          /\ [heap[ret[r].ref] EXCEPT !.len = Len(Gathered(r))] \in Cell
      BY <1>3, <2>3 DEF Given, Cell
    <3> QED
      BY <1>3, <3>1
  <2>5. heap' \in [Pointers -> Cell] /\ UNCHANGED <<ctxDone, input, ret, answer, hist>>
    BY <1>5, <2>4 DEF Stop
  <2>6. \E label \in {"writeLen", "writeData"} : pc' = [pc EXCEPT ![r] = label]
    BY <1>5 DEF Stop
  <2>7. TypeOK'
    BY <2>1, <2>2, <2>5, <2>6
  <2>8. Control(r)'
    BY <1>1, <2>1, <2>2, <2>5, <2>6 DEF Control
  <2> QED
    BY <2>2, <2>5, <2>6, <2>7, <2>8, OthersControl
<1>6. CASE Continue(r)
  <2> DEFINE frame == [Top(r) EXCEPT !.i = @ + 1, !.obj = Carried(r), !.warnings = Gathered(r)]
  <2>1. Append(Front(stack[r]), frame) \in Seq(Frame) /\ Append(Front(stack[r]), frame) # <<>>
    BY <1>2, <1>4, Stacks
  <2>2. stack' = [stack EXCEPT ![r] = Append(Front(stack[r]), frame)]
    BY <1>6 DEF Continue
  <2> HIDE DEF frame
  <2>3. TypeOK'
    BY <1>6, <2>1, <2>2 DEF Continue
  <2>4. Control(r)'
    BY <1>6, <2>1, <2>2 DEF Continue, Control
  <2> QED
    BY <1>6, <2>2, <2>3, <2>4, OthersControl DEF Continue
<1> QED
  BY <1>5, <1>6

LEMMA ForgeTypeInv ==
  ASSUME TypeInv, NEW r \in Requests, Forge(r)
  PROVE  TypeInv'
<1> USE DEF TypeInv, TypeOK, Goto
<1>1. Given(r) \in Cell /\ ret[r].kind \in Kinds \ {"none", "nil"}
  BY DEF Forge, Control, Given, Return
<1>2. Slice(Given(r)) \in Seen /\ <<>> \in Seen
  BY <1>1, SliceType DEF Seen
<1> DEFINE given == [kind |-> "result", stop |-> Given(r).stop, obj |-> Given(r).obj,
                     warnings |-> Slice(Given(r))]
<1>3. given \in Answer /\ given.kind = "result"
  BY <1>1, <1>2 DEF Cell, Answer, Kinds
<1>4. NoAnswer(ret[r].kind) \in Answer /\ NoAnswer(ret[r].kind).kind = ret[r].kind
  BY <1>1, <1>2 DEF NoAnswer, Answer
<1> DEFINE new == IF ret[r].kind # "result" THEN NoAnswer(ret[r].kind) ELSE given
<1>5. new \in Answer /\ new.kind \notin {"none", "nil"}
  BY <1>1, <1>3, <1>4
<1>6. answer' = [answer EXCEPT ![r] = new]
  BY DEF Forge
<1> HIDE DEF new, given
<1>7. TypeOK'
  BY <1>5, <1>6 DEF Forge
<1>8. Control(r)'
  BY DEF Forge, Control
<1> QED
  BY <1>7, <1>8, OthersControl DEF Forge

LEMMA MutatorStepTypeInv ==
  ASSUME TypeInv, NEW r \in Requests, MutatorStep(r)
  PROVE  TypeInv'
<1> USE DEF TypeInv, TypeOK, Goto
<1>1. CASE MutatorFails(r)
  <2>1. PICK kind \in {"mutatorError", "nil"} : ret' = [ret EXCEPT ![r] = [kind |-> kind, ref |-> r]]
    BY <1>1 DEF MutatorFails
  <2>2. [kind |-> kind, ref |-> r] \in Return
    BY DEF Return, Pointers, Kinds
  <2>3. TypeOK'
    BY <1>1, <2>1, <2>2 DEF MutatorFails
  <2>4. Control(r)'
    BY <1>1, <2>1 DEF MutatorFails, Control
  <2> QED
    BY <1>1, <2>1, <2>3, <2>4, OthersControl DEF MutatorFails
<1>2. CASE MutatorReturns(r)
  <2>1. PICK res \in Returns[Element(r)] :
          LET shared == Element(r) \in Static /\ res = Prepared[Element(r)]
          IN  /\ ret' = [ret EXCEPT ![r] = [kind |-> "result",
                                            ref |-> IF shared THEN Element(r) ELSE r]]
              /\ heap' = IF shared THEN heap ELSE [heap EXCEPT ![r] = CellOf(res)]
              /\ hist' = [hist EXCEPT ![r].obj = IF res.obj = Nil THEN @ ELSE res.obj,
                                      ![r].warnings = @ \o res.warnings]
    BY <1>2 DEF MutatorReturns
  <2> DEFINE ref == IF Element(r) \in Static /\ res = Prepared[Element(r)] THEN Element(r) ELSE r
  <2>2. ref \in {r} \cup Static /\ ref \in Pointers
    BY DEF Pointers
  <2>3. ret' = [ret EXCEPT ![r] = [kind |-> "result", ref |-> ref]]
    BY <2>1
  <2>4. res \in Result
    BY <1>2, ChainAssumption DEF MutatorReturns, Control
  <2>5. heap' \in [Pointers -> Cell]
    BY <2>1, <2>4, CellOfType
  <2>6. hist' \in [Requests -> History]
    <3>1. (IF res.obj = Nil THEN hist[r].obj ELSE res.obj) \in Objects
      BY <2>4 DEF History, Result
    <3>2. hist[r].warnings \o res.warnings \in Seq(Warnings)
      BY <2>4 DEF History, Result
    <3>3. [hist[r] EXCEPT !.obj = IF res.obj = Nil THEN @ ELSE res.obj,
                          !.warnings = @ \o res.warnings] \in History
      BY <3>1, <3>2 DEF History
    <3> QED
      BY <2>1, <3>3
  <2> HIDE DEF ref
  <2>7. ret' \in [Requests -> Return]
    BY <2>2, <2>3 DEF Return, Kinds
  <2>8. TypeOK'
    BY <1>2, <2>5, <2>6, <2>7 DEF MutatorReturns
  <2>9. Control(r)'
    BY <1>2, <2>2, <2>3 DEF MutatorReturns, Control
  <2> QED
    BY <1>2, <2>3, <2>8, <2>9, OthersControl DEF MutatorReturns
<1>3. CASE MutatorPanics(r)
  <2>1. <<>> \in Seen
    BY DEF Seen
  <2>2. NoAnswer("panic") \in Answer /\ NoAnswer("panic").kind = "panic"
    BY <2>1 DEF NoAnswer, Answer, Kinds
  <2>3. TypeOK'
    BY <1>3, <2>2 DEF MutatorPanics
  <2>4. Control(r)'
    BY <1>3 DEF MutatorPanics, Control
  <2> QED
    BY <1>3, <2>3, <2>4, OthersControl DEF MutatorPanics
<1> QED
  BY <1>1, <1>2, <1>3 DEF MutatorStep

LEMMA NextTypeInv == TypeInv /\ [Next]_vars => TypeInv'
<1> SUFFICES ASSUME TypeInv, [Next]_vars PROVE TypeInv'
  OBVIOUS
<1>1. ASSUME NEW r \in Requests, Cancel(r) PROVE TypeInv'
  <2>1. TypeOK'
    BY <1>1 DEF Cancel, TypeInv, TypeOK
  <2>2. \A q \in Requests : Control(q)'
    BY <1>1, ControlKept DEF Cancel, TypeInv
  <2> QED
    BY <2>1, <2>2 DEF TypeInv
<1>2. ASSUME UNCHANGED vars PROVE TypeInv'
  <2>1. TypeOK'
    BY <1>2 DEF vars, TypeInv, TypeOK
  <2>2. \A q \in Requests : Control(q)'
    BY <1>2, ControlKept DEF vars, TypeInv
  <2> QED
    BY <2>1, <2>2 DEF TypeInv
<1>3. ASSUME NEW r \in Requests, ChainStep(r) PROVE TypeInv'
  BY <1>3, CallTypeInv, EndTypeInv, ResultTypeInv, ForgeTypeInv DEF ChainStep
<1> QED
  BY <1>1, <1>2, <1>3, MutatorStepTypeInv DEF Next, AllDone

LEMMA TypeInvariant == Spec => []TypeInv
BY InitTypeInv, NextTypeInv, PTL DEF Spec

(* TypeOK, for every number of reviews and every nesting: whatever is read *)
(* of a prepared result is well formed, and no frame holds the nil object  *)
(* (mutator.go:82-84).                                                     *)
THEOREM TypeCorrect == Spec => []TypeOK
BY TypeInvariant, PTL DEF TypeInv

-----------------------------------------------------------------------------
(* What a cell says besides its warnings.                                  *)
Ruling(cell) == <<cell.stop, cell.obj>>

(* A prepared result always says the same, and one that lets chains go on  *)
(* is as it was prepared.                                                  *)
Prepares == \A m \in Static : /\ Ruling(heap[m]) = Ruling(CellOf(Prepared[m]))
                              /\ ~heap[m].stop => heap[m] = CellOf(Prepared[m])

(* What a step of review r does to the cells: those of other reviews stay, *)
(* and a prepared result is only written to if it stops chains, and then   *)
(* only its warnings.                                                      *)
HeapStep(r) ==
  /\ \A q \in Requests : q # r => heap'[q] = heap[q]
  /\ \A m \in Static : /\ Ruling(heap'[m]) = Ruling(heap[m])
                       /\ ~heap[m].stop => heap'[m] = heap[m]

(* A review that is writing warnings writes them to a result that stops    *)
(* chains.                                                                 *)
Writes(q) == pc[q] \in {"writeLen", "writeData"} => Given(q).stop

LEMMA SameRuling ==
  ASSUME NEW one, NEW two, Ruling(one) = Ruling(two)
  PROVE  one.stop = two.stop /\ one.obj = two.obj
BY DEF Ruling

LEMMA EveryHeapStep ==
  ASSUME TypeInv, NEW r \in Requests, Writes(r),
         ChainStep(r) \/ MutatorStep(r) \/ Cancel(r)
  PROVE  HeapStep(r)
<1> USE DEF HeapStep
<1>0. /\ heap \in [Pointers -> Cell]
      /\ Pointers = Requests \cup Static /\ Requests \cap Static = {}
      /\ ret[r].ref \in {r} \cup Static
  BY PreparedAssumption DEF TypeInv, TypeOK, Control, Pointers
<1>1. CASE UNCHANGED heap
  BY <1>1
<1>2. ASSUME NEW cell, heap' = [heap EXCEPT ![r] = cell]
      PROVE  HeapStep(r)
  BY <1>0, <1>2
<1>3. ASSUME heap[ret[r].ref].stop, NEW data, NEW len,
             \/ heap' = [heap EXCEPT ![ret[r].ref].data = data]
             \/ heap' = [heap EXCEPT ![ret[r].ref].len = len]
      PROVE  HeapStep(r)
  <2>1. \A p \in Pointers : p # ret[r].ref => heap'[p] = heap[p]
    BY <1>0, <1>3
  <2>2. Ruling(heap'[ret[r].ref]) = Ruling(heap[ret[r].ref])
    <3>1. heap[ret[r].ref] \in Cell
      BY <1>0
    <3>2. \/ heap'[ret[r].ref] = [heap[ret[r].ref] EXCEPT !.data = data]
          \/ heap'[ret[r].ref] = [heap[ret[r].ref] EXCEPT !.len = len]
      BY <1>0, <1>3
    <3> QED
      BY <3>1, <3>2 DEF Cell, Ruling
  <2> QED
    BY <1>0, <1>3, <2>1, <2>2
<1>4. CASE LoopEnd(r)
  BY <1>2, <1>4 DEF LoopEnd, ReturnFrom
<1>5. CASE MutatorReturns(r)
  BY <1>1, <1>2, <1>5 DEF MutatorReturns
<1>6. CASE Stop(r)
  BY <1>3, <1>6 DEF Stop, Given
<1>7. CASE StopReturn(r)
  BY <1>3, <1>7 DEF StopReturn, ReturnFrom, Writes, Given
<1>8. ASSUME Cancel(r) \/ Start(r) \/ ContextDone(r) \/ Proceed(r) \/ CallMutator(r)
               \/ CallChain(r) \/ Fail(r) \/ Continue(r) \/ Forge(r)
               \/ MutatorFails(r) \/ MutatorPanics(r)
      PROVE  UNCHANGED heap
  BY <1>8 DEF Cancel, Start, ContextDone, Proceed, CallMutator, CallChain, Fail, Continue,
              Forge, MutatorFails, MutatorPanics, ReturnFrom
<1> QED
  BY <1>1, <1>4, <1>5, <1>6, <1>7, <1>8 DEF ChainStep, MutatorStep

(* Of what a review has, a step of another one changes at most the cells   *)
(* of prepared results.                                                    *)
LEMMA OnlyOwnState ==
  ASSUME TypeInv, NEW r \in Requests, ChainStep(r) \/ MutatorStep(r) \/ Cancel(r),
         NEW q \in Requests, q # r
  PROVE  /\ pc'[q] = pc[q] /\ stack'[q] = stack[q] /\ ret'[q] = ret[q]
         /\ hist'[q] = hist[q] /\ answer'[q] = answer[q] /\ input'[q] = input[q]
<1> USE DEF TypeInv, TypeOK, Goto
<1>1. CASE Cancel(r) \/ Start(r) \/ Proceed(r) \/ CallMutator(r) \/ CallChain(r)
  BY <1>1 DEF Cancel, Start, Proceed, CallMutator, CallChain
<1>2. CASE LoopEnd(r) \/ ContextDone(r) \/ Fail(r) \/ StopReturn(r)
  BY <1>2 DEF LoopEnd, ContextDone, Fail, StopReturn, ReturnFrom
<1>3. CASE Stop(r) \/ Continue(r) \/ Forge(r)
  BY <1>3 DEF Stop, Continue, Forge
<1>4. CASE MutatorFails(r) \/ MutatorReturns(r) \/ MutatorPanics(r)
  BY <1>4 DEF MutatorFails, MutatorReturns, MutatorPanics
<1> QED
  BY <1>1, <1>2, <1>3, <1>4 DEF ChainStep, MutatorStep

-----------------------------------------------------------------------------
(* Where the object the mutators left is to be found: in the innermost     *)
(* frame, or in the result that frame is about to take in, or in the one   *)
(* the webhook reads, unless that result stops the chain.                  *)
Threaded(q) ==
  /\ pc[q] = "idle" => hist[q].obj = input[q]
  /\ pc[q] \in {"select", "call", "mutator"} => Top(q).obj = hist[q].obj
  /\ pc[q] = "returned" /\ ret[q].kind = "result" /\ ~Given(q).stop =>
       Carried(q) = hist[q].obj
  /\ Writes(q)
  /\ pc[q] = "forge" /\ ret[q].kind = "result" /\ ~Given(q).stop =>
       Given(q).obj = hist[q].obj
  /\ pc[q] # "done" => answer[q].kind = "none"
  /\ answer[q].kind = "result" /\ ~answer[q].stop => answer[q].obj = hist[q].obj

(* A step of another review leaves it there.                               *)
LEMMA ThreadedKept ==
  ASSUME NEW q \in Requests, Control(q), Threaded(q),
         pc'[q] = pc[q], stack'[q] = stack[q], ret'[q] = ret[q], hist'[q] = hist[q],
         answer'[q] = answer[q], input'[q] = input[q], heap'[q] = heap[q],
         \A m \in Static : Ruling(heap'[m]) = Ruling(heap[m])
  PROVE  Threaded(q)'
<1>1. ret[q].ref = q \/ ret[q].ref \in Static
  BY DEF Control
<1>2. Ruling(Given(q)') = Ruling(Given(q))
  BY <1>1 DEF Given
<1>3. Given(q)'.stop = Given(q).stop /\ Given(q)'.obj = Given(q).obj
  BY <1>2, SameRuling
<1>4. Top(q)' = Top(q)
  BY DEF Top
<1>5. Carried(q)' = Carried(q)
  BY <1>3, <1>4 DEF Carried
<1> QED
  BY <1>3, <1>4, <1>5 DEF Threaded, Writes

(* Returning from a chain keeps it, if a result that does not stop holds   *)
(* the object the mutators left.                                           *)
LEMMA ReturnThreaded ==
  ASSUME TypeInv, NEW r \in Requests, Threaded(r),
         pc[r] \in {"select", "returned", "writeLen", "writeData"},
         NEW kind, NEW ref \in {r} \cup Static, NEW h \in [Pointers -> Cell],
         ReturnFrom(r, kind, ref, h),
         kind = "result" /\ ~h[ref].stop => h[ref].obj = hist[r].obj
  PROVE  Threaded(r)'
<1> USE DEF TypeInv, TypeOK, Goto
<1>1. hist'[r] = hist[r] /\ hist[r].obj # Nil
  BY ChainAssumption DEF ReturnFrom, History
<1>2. ret'[r].kind = kind /\ Given(r)' = h[ref]
  BY DEF ReturnFrom, Given
<1>3. pc'[r] \in {"forge", "returned"} /\ answer'[r] = answer[r] /\ answer[r].kind = "none"
  BY DEF ReturnFrom, Threaded
<1>4. kind = "result" /\ ~h[ref].stop => Carried(r)' = hist'[r].obj
  BY <1>1, <1>2 DEF Carried
<1> QED
  BY <1>1, <1>2, <1>3, <1>4 DEF Threaded, Writes

LEMMA ChainStepThreaded ==
  ASSUME TypeInv, NEW r \in Requests, Threaded(r), ChainStep(r)
  PROVE  Threaded(r)'
<1> USE DEF TypeInv, TypeOK, Goto
<1>1. CASE Start(r)
  <2>1. stack'[r] = <<NewFrame(Root, input[r])>> /\ pc'[r] = "select"
    BY <1>1 DEF Start
  <2>2. Top(r)'.obj = input[r]
    BY <2>1 DEF Top, Last, NewFrame
  <2> QED
    BY <1>1, <2>1, <2>2 DEF Start, Threaded, Writes
<1>2. CASE LoopEnd(r)
  <2>1. pc[r] = "select" /\ Top(r).obj = hist[r].obj
    BY <1>2 DEF LoopEnd, Threaded
  <2>2. CellOf(Passed(Top(r).obj, Top(r).warnings)) \in Cell
    BY <2>1, TopFacts, PassedType
  <2>3. CellOf(Passed(Top(r).obj, Top(r).warnings)).obj = hist[r].obj
    BY <2>1 DEF CellOf, Passed
  <2>4. PICK h : /\ h = [heap EXCEPT ![r] = CellOf(Passed(Top(r).obj, Top(r).warnings))]
                 /\ ReturnFrom(r, "result", r, h)
    BY <1>2 DEF LoopEnd
  <2>5. h \in [Pointers -> Cell] /\ h[r].obj = hist[r].obj
    BY <2>2, <2>3, <2>4 DEF Pointers
  <2> QED
    BY <2>1, <2>4, <2>5, ReturnThreaded
<1>3. CASE ContextDone(r)
  BY <1>3, ReturnThreaded DEF ContextDone
<1>4. CASE Proceed(r)
  BY <1>4 DEF Proceed, Threaded, Top, Writes
<1>5. CASE CallMutator(r)
  <2>1. hist'[r].obj = hist[r].obj
    BY <1>5 DEF CallMutator, History
  <2> QED
    BY <1>5, <2>1 DEF CallMutator, Threaded, Top, Writes
<1>6. CASE CallChain(r)
  <2> DEFINE frame == NewFrame(Element(r), Top(r).obj)
  <2>1. stack[r] \in Seq(Frame) /\ stack[r] # <<>> /\ Top(r).obj \in Objects
    BY <1>6, TopFacts DEF CallChain
  <2>2. frame \in Frame /\ frame.obj = Top(r).obj
    BY <1>6, <2>1 DEF CallChain, NewFrame, Frame, Seen
  <2>3. stack'[r] = Append(stack[r], frame) /\ pc'[r] = "select"
    BY <1>6 DEF CallChain
  <2> HIDE DEF frame
  <2>4. Last(Append(stack[r], frame)) = frame
    BY <2>1, <2>2, Stacks, Zenon
  <2>5. Top(r)' = frame
    BY <2>3, <2>4 DEF Top
  <2> QED
    BY <1>6, <2>2, <2>3, <2>5 DEF CallChain, Threaded, Writes
<1>7. CASE Fail(r)
  <2>1. pc[r] = "returned" /\ ret[r].kind # "result"
    BY <1>7 DEF Fail
  <2>2. PICK kind : kind # "result" /\ ReturnFrom(r, kind, r, heap)
    BY <1>7, <2>1 DEF Fail
  <2> QED
    BY <2>1, <2>2, ReturnThreaded
<1>8. CASE Stop(r)
  <2>1. pc'[r] \in {"writeLen", "writeData"} /\ answer'[r] = answer[r] /\ hist'[r] = hist[r]
    BY <1>8 DEF Stop
  <2>2. ret'[r] = ret[r] /\ ret[r].ref \in Pointers /\ heap[ret[r].ref] \in Cell
    BY <1>8 DEF Stop, Return
  <2>3. Given(r)'.stop = Given(r).stop
    <3>1. \/ heap'[ret[r].ref] = [heap[ret[r].ref] EXCEPT !.data = Gathered(r)]
          \/ heap'[ret[r].ref] = [heap[ret[r].ref] EXCEPT !.len = Len(Gathered(r))]
      BY <1>8, <2>2 DEF Stop
    <3>2. heap'[ret[r].ref].stop = heap[ret[r].ref].stop
      BY <2>2, <3>1 DEF Cell
    <3> QED
      BY <2>2, <3>2 DEF Given
  <2> QED
    BY <1>8, <2>1, <2>3 DEF Stop, Threaded, Writes
<1>9. CASE StopReturn(r)
  <2>1. ret[r].ref \in {r} \cup Static /\ heap[ret[r].ref] \in Cell /\ heap[ret[r].ref].stop
    BY <1>9 DEF StopReturn, Control, Threaded, Writes, Given, Pointers
  <2>2. Top(r).warnings \in Seen /\ Len(Top(r).warnings) \in Nat
    BY <1>9, TopFacts DEF StopReturn, Seen
  <2>3. PICK h : /\ \/ h = [heap EXCEPT ![ret[r].ref].len = Len(Top(r).warnings)]
                    \/ h = [heap EXCEPT ![ret[r].ref].data = Top(r).warnings]
                 /\ ReturnFrom(r, "result", ret[r].ref, h)
                 /\ pc[r] \in {"writeLen", "writeData"}
    BY <1>9 DEF StopReturn
  <2>4. h \in [Pointers -> Cell] /\ h[ret[r].ref].stop
    <3>1. ASSUME NEW cell \in Cell, cell.stop, h = [heap EXCEPT ![ret[r].ref] = cell]
          PROVE  h \in [Pointers -> Cell] /\ h[ret[r].ref].stop
      BY <2>1, <3>1 DEF Pointers
    <3>2. /\ [heap[ret[r].ref] EXCEPT !.len = Len(Top(r).warnings)] \in Cell
          /\ [heap[ret[r].ref] EXCEPT !.len = Len(Top(r).warnings)].stop
          /\ [heap[ret[r].ref] EXCEPT !.data = Top(r).warnings] \in Cell
          /\ [heap[ret[r].ref] EXCEPT !.data = Top(r).warnings].stop
      BY <2>1, <2>2 DEF Cell
    <3> QED
      BY <2>1, <2>3, <3>1, <3>2
  <2> QED
    BY <2>1, <2>3, <2>4, ReturnThreaded
<1>10. CASE Continue(r)
  <2> DEFINE frame == [Top(r) EXCEPT !.i = @ + 1, !.obj = Carried(r), !.warnings = Gathered(r)]
  <2>1. stack[r] \in Seq(Frame) /\ stack[r] # <<>> /\ Top(r) \in Frame
    BY <1>10, TopFacts DEF Continue
  <2>2. Gathered(r) \in Seen /\ Carried(r) \in Objects
    BY <1>10, GatheredType DEF Continue
  <2>3. frame \in Frame /\ frame.obj = Carried(r)
    <3>1. Top(r).i + 1 \in Nat \ {0}
      BY <2>1 DEF Frame
    <3> QED
      BY <2>1, <2>2, <3>1 DEF Frame
  <2>4. stack'[r] = Append(Front(stack[r]), frame) /\ pc'[r] = "select"
    BY <1>10 DEF Continue
  <2>5. Carried(r) = hist[r].obj
    BY <1>10 DEF Continue, Threaded
  <2> HIDE DEF frame
  <2>6. Last(Append(Front(stack[r]), frame)) = frame
    BY <2>1, <2>3, Stacks, Zenon
  <2>7. Top(r)' = frame
    BY <2>4, <2>6 DEF Top
  <2> QED
    BY <1>10, <2>3, <2>4, <2>5, <2>7 DEF Continue, Threaded, Writes
<1>11. CASE Forge(r)
  <2>1. pc'[r] = "done" /\ hist'[r] = hist[r]
    BY <1>11 DEF Forge
  <2>2. answer'[r].kind = "result" /\ ~answer'[r].stop =>
          ret[r].kind = "result" /\ ~Given(r).stop /\ answer'[r].obj = Given(r).obj
    BY <1>11 DEF Forge, NoAnswer
  <2> QED
    BY <1>11, <2>1, <2>2 DEF Forge, Threaded, Writes
<1> QED
  BY <1>1, <1>2, <1>3, <1>4, <1>5, <1>6, <1>7, <1>8, <1>9, <1>10, <1>11 DEF ChainStep

(* What a mutator's result leads to: the result is at the pointer that     *)
(* was returned, but for the warnings of a prepared one that stops chains, *)
(* and the history says what was in it.                                    *)
LEMMA Returned ==
  ASSUME TypeInv, Prepares, NEW r \in Requests, MutatorReturns(r)
  PROVE  \E res \in Returns[Element(r)] :
           /\ Element(r) \in Mutators /\ res \in Result
           /\ pc[r] = "mutator" /\ pc' = [pc EXCEPT ![r] = "returned"]
           /\ ret'[r].kind = "result"
           /\ Given(r)'.stop = res.stop /\ Given(r)'.obj = res.obj
           /\ ret'[r].ref = r \/ ~res.stop => Given(r)' = CellOf(res)
           /\ hist' = [hist EXCEPT ![r].obj = IF res.obj = Nil THEN @ ELSE res.obj,
                                   ![r].warnings = @ \o res.warnings]
           /\ UNCHANGED <<ctxDone, input, stack, answer>>
<1> USE DEF TypeInv, TypeOK, Goto
<1>1. Element(r) \in Mutators /\ pc[r] = "mutator" /\ r \notin Static
  BY PreparedAssumption DEF MutatorReturns, Control
<1>2. PICK res \in Returns[Element(r)] :
        LET shared == Element(r) \in Static /\ res = Prepared[Element(r)]
        IN  /\ ret' = [ret EXCEPT ![r] = [kind |-> "result",
                                          ref |-> IF shared THEN Element(r) ELSE r]]
            /\ heap' = IF shared THEN heap ELSE [heap EXCEPT ![r] = CellOf(res)]
            /\ hist' = [hist EXCEPT ![r].obj = IF res.obj = Nil THEN @ ELSE res.obj,
                                    ![r].warnings = @ \o res.warnings]
  BY DEF MutatorReturns
<1>3. res \in Result /\ CellOf(res).stop = res.stop /\ CellOf(res).obj = res.obj
  BY <1>1, ChainAssumption DEF CellOf
<1>4. /\ ret'[r].kind = "result"
      /\ Given(r)'.stop = res.stop /\ Given(r)'.obj = res.obj
      /\ ret'[r].ref = r \/ ~res.stop => Given(r)' = CellOf(res)
  <2>1. CASE Element(r) \in Static /\ res = Prepared[Element(r)]
    <3>1. ret'[r] = [kind |-> "result", ref |-> Element(r)] /\ heap' = heap
      BY <1>2, <2>1
    <3>2. Given(r)' = heap[Element(r)]
      BY <3>1 DEF Given
    <3>3. /\ Ruling(heap[Element(r)]) = Ruling(CellOf(res))
          /\ ~heap[Element(r)].stop => heap[Element(r)] = CellOf(res)
      BY <2>1 DEF Prepares
    <3>4. heap[Element(r)].stop = res.stop /\ heap[Element(r)].obj = res.obj
      BY <1>3, <3>3, SameRuling
    <3> QED
      BY <1>1, <2>1, <3>1, <3>2, <3>3, <3>4
  <2>2. CASE ~(Element(r) \in Static /\ res = Prepared[Element(r)])
    <3>1. ret'[r] = [kind |-> "result", ref |-> r] /\ heap'[r] = CellOf(res)
      BY <1>2, <2>2 DEF Pointers
    <3> QED
      BY <1>3, <3>1 DEF Given
  <2> QED
    BY <2>1, <2>2
<1> QED
  BY <1>1, <1>2, <1>3, <1>4 DEF MutatorReturns

LEMMA MutatorStepThreaded ==
  ASSUME TypeInv, Prepares, NEW r \in Requests, Threaded(r), MutatorStep(r)
  PROVE  Threaded(r)'
<1> USE DEF TypeInv, TypeOK, Goto
<1>1. CASE MutatorFails(r)
  <2>1. ret'[r].kind # "result" /\ pc'[r] = "returned"
    BY <1>1 DEF MutatorFails
  <2> QED
    BY <1>1, <2>1 DEF MutatorFails, Threaded, Writes
<1>2. CASE MutatorReturns(r)
  <2>1. PICK res \in Returns[Element(r)] :
          /\ Element(r) \in Mutators /\ res \in Result
          /\ pc[r] = "mutator" /\ pc' = [pc EXCEPT ![r] = "returned"]
          /\ ret'[r].kind = "result"
          /\ Given(r)'.stop = res.stop /\ Given(r)'.obj = res.obj
          /\ hist' = [hist EXCEPT ![r].obj = IF res.obj = Nil THEN @ ELSE res.obj,
                                  ![r].warnings = @ \o res.warnings]
          /\ UNCHANGED <<ctxDone, input, stack, answer>>
    BY <1>2, Returned
  <2>2. hist'[r].obj = IF res.obj = Nil THEN hist[r].obj ELSE res.obj
    BY <2>1 DEF History
  <2>3. Top(r)' = Top(r) /\ Top(r).obj = hist[r].obj
    BY <2>1 DEF Top, Threaded
  <2>4. Carried(r)' = hist'[r].obj
    BY <2>1, <2>2, <2>3 DEF Carried
  <2>5. pc'[r] = "returned" /\ answer'[r] = answer[r] /\ answer[r].kind = "none"
    BY <2>1 DEF Threaded
  <2> QED
    BY <2>4, <2>5 DEF Threaded, Writes
<1>3. CASE MutatorPanics(r)
  BY <1>3 DEF MutatorPanics, Threaded, NoAnswer, Writes
<1> QED
  BY <1>1, <1>2, <1>3 DEF MutatorStep

ThreadedInv == Prepares /\ \A q \in Requests : Threaded(q)

LEMMA InitThreadedInv == Init => ThreadedInv
<1> SUFFICES ASSUME Init PROVE ThreadedInv
  OBVIOUS
<1>1. \A m \in Static : heap[m] = CellOf(Prepared[m])
  BY DEF Init, Pointers
<1>2. \A q \in Requests : Threaded(q)
  BY DEF Init, Threaded, NoAnswer, Writes
<1> QED
  BY <1>1, <1>2 DEF ThreadedInv, Prepares

LEMMA NextThreadedInv == TypeInv /\ ThreadedInv /\ [Next]_vars => ThreadedInv'
<1> SUFFICES ASSUME TypeInv, ThreadedInv, [Next]_vars PROVE ThreadedInv'
  OBVIOUS
<1>1. ASSUME NEW r \in Requests, ChainStep(r) \/ MutatorStep(r) \/ Cancel(r)
      PROVE  ThreadedInv'
  <2>1. HeapStep(r)
    BY <1>1, EveryHeapStep DEF ThreadedInv, Threaded
  <2>2. Prepares'
    <3>1. ASSUME NEW m \in Static
          PROVE  /\ Ruling(heap'[m]) = Ruling(CellOf(Prepared[m]))
                 /\ ~heap'[m].stop => heap'[m] = CellOf(Prepared[m])
      <4>1. Ruling(heap'[m]) = Ruling(heap[m]) /\ (~heap[m].stop => heap'[m] = heap[m])
        BY <2>1 DEF HeapStep
      <4>2. /\ Ruling(heap[m]) = Ruling(CellOf(Prepared[m]))
            /\ ~heap[m].stop => heap[m] = CellOf(Prepared[m])
        BY DEF ThreadedInv, Prepares
      <4>3. heap'[m].stop = heap[m].stop
        BY <4>1, SameRuling
      <4> QED
        BY <4>1, <4>2, <4>3
    <3> QED
      BY <3>1 DEF Prepares
  <2>3. Threaded(r)'
    <3>1. CASE Cancel(r)
      BY <3>1, ThreadedKept DEF Cancel, TypeInv, ThreadedInv
    <3> QED
      BY <1>1, <3>1, ChainStepThreaded, MutatorStepThreaded DEF ThreadedInv
  <2>4. ASSUME NEW q \in Requests, q # r PROVE Threaded(q)'
    <3>1. Threaded(q) /\ Control(q)
      BY DEF ThreadedInv, TypeInv
    <3>2. heap'[q] = heap[q] /\ \A m \in Static : Ruling(heap'[m]) = Ruling(heap[m])
      BY <2>1, <2>4 DEF HeapStep
    <3> QED
      BY <1>1, <2>4, <3>1, <3>2, OnlyOwnState, ThreadedKept
  <2> QED
    BY <2>2, <2>3, <2>4 DEF ThreadedInv
<1>2. CASE UNCHANGED vars
  <2>1. \A q \in Requests : Threaded(q)'
    BY <1>2, ThreadedKept DEF vars, TypeInv, ThreadedInv
  <2> QED
    BY <1>2, <2>1 DEF vars, ThreadedInv, Prepares
<1> QED
  BY <1>1, <1>2 DEF Next, AllDone

LEMMA ThreadedInvariant == Spec => [](TypeInv /\ ThreadedInv)
BY InitThreadedInv, NextThreadedInv, TypeInvariant, PTL DEF Spec

(* No step writes the stop or the object of a shared result, nor any word  *)
(* of one that lets chains go on (mutator.go:81-88).                       *)
THEOREM SharedObjectsStay == Spec => SharedObjectsUntouched
<1>1. TypeInv /\ ThreadedInv /\ [Next]_vars =>
        [\A m \in Static :
           /\ heap'[m].stop = heap[m].stop
           /\ heap'[m].obj = heap[m].obj
           /\ ~heap[m].stop => heap'[m] = heap[m]]_vars
  <2> SUFFICES ASSUME ThreadedInv, TypeInv, Next, NEW m \in Static
               PROVE  /\ heap'[m].stop = heap[m].stop
                      /\ heap'[m].obj = heap[m].obj
                      /\ ~heap[m].stop => heap'[m] = heap[m]
    OBVIOUS
  <2>1. CASE UNCHANGED vars
    BY <2>1 DEF vars
  <2>2. ASSUME NEW r \in Requests, ChainStep(r) \/ MutatorStep(r) \/ Cancel(r)
        PROVE  HeapStep(r)
    BY <2>2, EveryHeapStep DEF ThreadedInv, Threaded
  <2> QED
    BY <2>1, <2>2 DEF Next, AllDone, HeapStep, Ruling
<1> QED
  BY <1>1, ThreadedInvariant, PTL DEF Spec, SharedObjectsUntouched

-----------------------------------------------------------------------------
(* A late call leaves a context that is done, and the review never comes   *)
(* to another call: its chains look at the context before each of them.    *)
Late(q) ==
  /\ hist[q].late \in {0, 1}
  /\ hist[q].late = 1 => ctxDone[q] /\ pc[q] # "call"

LEMMA LateStep ==
  ASSUME TypeInv, \A q \in Requests : Late(q), NEW r \in Requests,
         ChainStep(r) \/ MutatorStep(r) \/ Cancel(r)
  PROVE  \A q \in Requests : Late(q)'
<1> USE DEF TypeInv, TypeOK, Goto
<1>0. hist \in [Requests -> History] /\ \A q \in Requests : hist[q].late \in Nat
  BY DEF History
<1>1. CASE CallMutator(r)
  <2>1. hist[r].late = 0
    BY <1>1 DEF CallMutator, Late
  <2>2. hist'[r].late = IF ctxDone[r] THEN 1 ELSE 0
    BY <1>0, <1>1, <2>1 DEF CallMutator, History
  <2>3. \A q \in Requests : q # r => hist'[q] = hist[q]
    BY <1>1 DEF CallMutator
  <2>4. ctxDone' = ctxDone /\ pc' = [pc EXCEPT ![r] = "mutator"]
    BY <1>1 DEF CallMutator
  <2> QED
    BY <2>2, <2>3, <2>4 DEF Late
<1>2. CASE Proceed(r)
  BY <1>2 DEF Proceed, Late
<1>3. CASE Cancel(r)
  BY <1>3 DEF Cancel, Late
<1>4. CASE LoopEnd(r) \/ ContextDone(r) \/ Fail(r) \/ StopReturn(r)
  BY <1>4 DEF LoopEnd, ContextDone, Fail, StopReturn, ReturnFrom, Late
<1>5. CASE MutatorReturns(r)
  <2>1. \A q \in Requests : hist'[q].late = hist[q].late
    BY <1>0, <1>5 DEF MutatorReturns, History
  <2> QED
    BY <1>5, <2>1 DEF MutatorReturns, Late
<1>6. CASE Start(r) \/ CallChain(r) \/ Stop(r) \/ Continue(r) \/ Forge(r)
           \/ MutatorFails(r) \/ MutatorPanics(r)
  BY <1>6 DEF Start, CallChain, Stop, Continue, Forge, MutatorFails, MutatorPanics, Late
<1> QED
  BY <1>1, <1>2, <1>3, <1>4, <1>5, <1>6 DEF ChainStep, MutatorStep

LateInv == \A q \in Requests : Late(q)

LEMMA LateInvariant == Spec => []LateInv
<1>1. Init => LateInv
  BY DEF Init, LateInv, Late
<1>2. TypeInv /\ LateInv /\ [Next]_vars => LateInv'
  <2> SUFFICES ASSUME TypeInv, LateInv, [Next]_vars PROVE LateInv'
    OBVIOUS
  <2>1. CASE UNCHANGED vars
    BY <2>1 DEF vars, LateInv, Late
  <2> QED
    BY <2>1, LateStep DEF Next, AllDone, LateInv
<1> QED
  BY <1>1, <1>2, TypeInvariant, PTL DEF Spec

(* Of what a review has, a step of another one changes at most the cells   *)

(* However chains are nested, at most one mutator starts once the context  *)
(* of its request is done (mutator.go:66-71).                              *)
THEOREM AtMostOneLateCall == Spec => []OneLateCall
<1>1. LateInv => OneLateCall
  BY DEF LateInv, Late, OneLateCall
<1> QED
  BY <1>1, LateInvariant, PTL

-----------------------------------------------------------------------------
(* The frames of a stack one by one.                                       *)
LEMMA StackPlaces ==
  ASSUME NEW s \in Seq(Frame), s # <<>>, NEW x \in Frame
  PROVE  /\ Len(s) \in Nat \ {0} /\ Last(s) = s[Len(s)] /\ Last(s) \in Frame
         /\ \A j \in 1..Len(s) : s[j] \in Frame
         /\ Len(Append(s, x)) = Len(s) + 1
         /\ \A j \in 1..Len(s) : Append(s, x)[j] = s[j]
         /\ Append(s, x)[Len(s) + 1] = x
         /\ Front(s) \in Seq(Frame) /\ Len(Front(s)) = Len(s) - 1
         /\ \A j \in 1..(Len(s) - 1) : Front(s)[j] = s[j]
         /\ Len(s) # 1 => Last(Front(s)) = s[Len(s) - 1]
         /\ Len(Append(Front(s), x)) = Len(s)
         /\ \A j \in 1..(Len(s) - 1) : Append(Front(s), x)[j] = s[j]
         /\ Append(Front(s), x)[Len(s)] = x
<1> DEFINE n == Len(s)
           f == Front(s)
<1>1. n \in Nat \ {0}
  BY EmptySeq
<1>2. \A j \in 1..n : s[j] \in Frame
  BY ElementOfSeq
<1>3. f = SubSeq(s, 1, n - 1)
  BY Zenon DEF Front
<1>4. /\ f \in Seq(Frame) /\ Len(f) = n - 1
      /\ \A j \in 1..(n - 1) : f[j] = s[j]
  <2>1. \A j \in 1..(n - 1) : s[j] \in Frame
    BY <1>1, <1>2
  <2>2. 1 \in Int /\ n - 1 \in Int
    BY <1>1
  <2>3. /\ SubSeq(s, 1, n - 1) \in Seq(Frame)
        /\ Len(SubSeq(s, 1, n - 1)) = IF 1 <= n - 1 THEN n - 1 - 1 + 1 ELSE 0
        /\ \A j \in 1..(n - 1 - 1 + 1) : SubSeq(s, 1, n - 1)[j] = s[1 + j - 1]
    BY <2>1, <2>2, SubSeqProperties
  <2> HIDE DEF n, f
  <2>4. /\ (IF 1 <= n - 1 THEN n - 1 - 1 + 1 ELSE 0) = n - 1
        /\ 1..(n - 1 - 1 + 1) = 1..(n - 1)
        /\ \A j \in 1..(n - 1) : 1 + j - 1 = j
    BY <1>1
  <2> QED
    BY <1>3, <2>3, <2>4
<1>5. Last(s) = s[n]
  BY Zenon DEF Last
<1> HIDE DEF n, f
<1>6. n # 1 => Last(f) = s[n - 1]
  <2>1. Last(f) = f[Len(f)]
    BY Zenon DEF Last
  <2> QED
    BY <1>1, <1>4, <2>1
<1>7. \A t \in Seq(Frame) : /\ Len(Append(t, x)) = Len(t) + 1
                            /\ \A j \in 1..Len(t) : Append(t, x)[j] = t[j]
                            /\ Append(t, x)[Len(t) + 1] = x
  BY AppendProperties
<1>8. /\ Len(Append(f, x)) = n
      /\ \A j \in 1..(n - 1) : Append(f, x)[j] = s[j]
      /\ Append(f, x)[n] = x
  BY <1>1, <1>4, <1>7
<1>9. /\ Len(Append(s, x)) = n + 1
      /\ \A j \in 1..n : Append(s, x)[j] = s[j]
      /\ Append(s, x)[n + 1] = x
  BY <1>7 DEF n
<1> QED
  BY <1>1, <1>2, <1>4, <1>5, <1>6, <1>8, <1>9 DEF n, f

(* Before the frame of each chain come the warnings of the frames around   *)
(* it; with ws for those of the innermost one they are all, in order.      *)
Before(s, pre) ==
  /\ pre \in [1..Len(s) -> Seen]
  /\ pre[1] = <<>>
  /\ \A j \in 1..(Len(s) - 1) : pre[j + 1] = pre[j] \o s[j].warnings

Total(s, ws, all) == \E pre : Before(s, pre) /\ pre[Len(s)] \o ws = all

LEMMA Associative ==
  \A u, v, w \in Seen : (u \o v) \o w = u \o (v \o w)
BY ConcatAssociative DEF Seen

LEMMA TotalOne ==
  ASSUME NEW s \in Seq(Frame), Len(s) = 1, NEW ws \in Seen, NEW all
  PROVE  Total(s, ws, all) <=> ws = all
<1>1. ASSUME NEW pre, Before(s, pre) PROVE pre[Len(s)] \o ws = ws
  <2>1. pre[Len(s)] = <<>>
    BY <1>1 DEF Before
  <2> QED
    BY <2>1, ConcatEmptySeq DEF Seen
<1>2. Before(s, [j \in 1..Len(s) |-> <<>>])
  BY DEF Before, Seen
<1> QED
  BY <1>1, <1>2 DEF Total

(* A call of a nested chain.                                               *)
LEMMA TotalPush ==
  ASSUME NEW s \in Seq(Frame), s # <<>>, NEW all, Total(s, Last(s).warnings, all),
         NEW x \in Frame, x.warnings = <<>>
  PROVE  Total(Append(s, x), x.warnings, all)
<1> DEFINE n == Len(s)
           t == Append(s, x)
<1>1. PICK pre : Before(s, pre) /\ pre[n] \o Last(s).warnings = all
  BY DEF Total
<1> DEFINE next == [j \in 1..(n + 1) |-> IF j = n + 1 THEN all ELSE pre[j]]
<1>2. /\ n \in Nat \ {0} /\ Last(s) = s[n] /\ Last(s) \in Frame
      /\ Len(t) = n + 1 /\ \A j \in 1..n : t[j] = s[j]
  BY StackPlaces
<1>3. pre \in [1..n -> Seen] /\ all \in Seen
  <2>1. pre \in [1..n -> Seen] /\ n \in 1..n
    BY <1>1, <1>2 DEF Before
  <2>2. pre[n] \in Seen /\ Last(s).warnings \in Seen
    BY <1>2, <2>1 DEF Frame
  <2> QED
    BY <1>1, <2>1, <2>2, ConcatProperties DEF Seen
<1> HIDE DEF n, t
<1>4. \A j \in 1..n : next[j + 1] = next[j] \o t[j].warnings
  <2> SUFFICES ASSUME NEW j \in 1..n PROVE next[j + 1] = next[j] \o t[j].warnings
    OBVIOUS
  <2>1. next[j] = pre[j] /\ j + 1 \in 1..(n + 1)
    BY <1>2
  <2>2. CASE j = n
    BY <1>1, <1>2, <2>1, <2>2
  <2>3. CASE j # n
    <3>1. next[j + 1] = pre[j + 1] /\ j \in 1..(n - 1)
      BY <1>2, <2>1, <2>3
    <3> QED
      BY <1>1, <1>2, <2>1, <3>1 DEF Before, n
  <2> QED
    BY <2>2, <2>3
<1>5. Before(t, next)
  <2>1. next \in [1..(n + 1) -> Seen]
    BY <1>2, <1>3
  <2>2. next[1] = <<>>
    BY <1>1, <1>2 DEF Before
  <2>3. 1..(Len(t) - 1) = 1..n
    BY <1>2
  <2> QED
    BY <1>2, <1>4, <2>1, <2>2, <2>3 DEF Before
<1>6. next[Len(t)] \o x.warnings = all
  <2>1. next[Len(t)] = all
    BY <1>2
  <2> QED
    BY <1>3, <2>1, ConcatEmptySeq DEF Seen
<1> QED
  BY <1>5, <1>6 DEF Total, t

(* The return of a nested chain with the warnings ws.                      *)
LEMMA TotalPop ==
  ASSUME NEW s \in Seq(Frame), s # <<>>, Len(s) # 1, NEW ws \in Seen, NEW all,
         Total(s, ws, all)
  PROVE  Total(Front(s), Last(Front(s)).warnings \o ws, all)
<1> DEFINE n == Len(s)
           t == Front(s)
<1>1. PICK pre : Before(s, pre) /\ pre[n] \o ws = all
  BY DEF Total
<1>2. /\ n \in Nat \ {0} /\ s[1] \in Frame /\ \A j \in 1..n : s[j] \in Frame
      /\ Len(t) = n - 1 /\ \A j \in 1..(n - 1) : t[j] = s[j]
      /\ Last(t) = s[n - 1]
  <2>1. s[1] \in Frame
    BY EmptySeq, ElementOfSeq
  <2> QED
    BY <2>1, StackPlaces
<1> DEFINE rest == [j \in 1..(n - 1) |-> pre[j]]
<1> HIDE DEF n, t
<1>3. n # 1 /\ n - 1 \in 1..n /\ n - 1 \in 1..(n - 1) /\ (n - 1) + 1 = n
  BY <1>2 DEF n
<1>4. pre \in [1..n -> Seen]
  BY <1>1 DEF Before, n
<1>5. Before(t, rest)
  <2>1. rest \in [1..(n - 1) -> Seen]
    BY <1>2, <1>4
  <2>2. rest[1] = <<>>
    BY <1>1, <1>2, <1>3 DEF Before
  <2>3. \A j \in 1..((n - 1) - 1) : rest[j + 1] = rest[j] \o t[j].warnings
    <3> SUFFICES ASSUME NEW j \in 1..((n - 1) - 1) PROVE rest[j + 1] = rest[j] \o t[j].warnings
      OBVIOUS
    <3>1. j \in 1..(n - 1) /\ j + 1 \in 1..(n - 1)
      BY <1>2
    <3>2. pre[j + 1] = pre[j] \o s[j].warnings
      BY <1>1, <3>1 DEF Before, n
    <3> QED
      BY <1>2, <3>1, <3>2
  <2> QED
    BY <1>2, <2>1, <2>2, <2>3 DEF Before
<1>6. rest[Len(t)] \o (Last(t).warnings \o ws) = all
  <2>1. rest[Len(t)] = pre[n - 1] /\ pre[n - 1] \in Seen
    BY <1>2, <1>3, <1>4
  <2>2. pre[n] = pre[n - 1] \o Last(t).warnings
    BY <1>1, <1>2, <1>3 DEF Before, n
  <2>3. Last(t).warnings \in Seen
    BY <1>2, <1>3 DEF Frame
  <2>4. (pre[n - 1] \o Last(t).warnings) \o ws = pre[n - 1] \o (Last(t).warnings \o ws)
    BY <2>1, <2>3, Associative, Zenon
  <2> QED
    BY <1>1, <2>1, <2>2, <2>4
<1> QED
  BY <1>5, <1>6 DEF Total, t

(* A change of the innermost frame.                                        *)
LEMMA TotalChange ==
  ASSUME NEW s \in Seq(Frame), s # <<>>, NEW x \in Frame, NEW ws, NEW all, Total(s, ws, all)
  PROVE  Total(Append(Front(s), x), ws, all)
<1> DEFINE n == Len(s)
           t == Append(Front(s), x)
<1>1. PICK pre : Before(s, pre) /\ pre[n] \o ws = all
  BY DEF Total
<1>2. n \in Nat \ {0} /\ Len(t) = n /\ \A j \in 1..(n - 1) : t[j] = s[j]
  BY StackPlaces
<1>3. Before(t, pre)
  BY <1>1, <1>2 DEF Before
<1> QED
  BY <1>1, <1>2, <1>3 DEF Total

(* A mutator has given more warnings.                                    *)
LEMMA TotalMore ==
  ASSUME NEW s \in Seq(Frame), s # <<>>, NEW ws \in Seen, NEW all, Total(s, ws, all),
         NEW more \in Seen
  PROVE  Total(s, ws \o more, all \o more)
<1>1. PICK pre : Before(s, pre) /\ pre[Len(s)] \o ws = all
  BY DEF Total
<1>2. Len(s) \in Nat \ {0}
  BY EmptySeq
<1>3. pre[Len(s)] \in Seen
  <2>1. pre \in [1..Len(s) -> Seen] /\ Len(s) \in 1..Len(s)
    BY <1>1, <1>2 DEF Before
  <2> QED
    BY <2>1
<1>4. pre[Len(s)] \o (ws \o more) = all \o more
  <2>1. (pre[Len(s)] \o ws) \o more = pre[Len(s)] \o (ws \o more)
    BY <1>3, Associative, Zenon
  <2> QED
    BY <1>1, <2>1
<1> QED
  BY <1>1, <1>4 DEF Total

(* Reading a slice whose header is whole, and a fresh result.              *)
LEMMA SliceWhole ==
  ASSUME NEW cell, NEW ws \in Seen, cell.data = ws, cell.len = Len(ws)
  PROVE  Slice(cell) = ws
<1> DEFINE n == Len(ws)
<1>1. n \in Nat /\ DOMAIN ws = 1..n /\ ws = [k \in 1..n |-> ws[k]]
  BY DEF Seen
<1>2. \A k \in 1..n : k <= n
  BY <1>1
<1> QED
  BY <1>1, <1>2 DEF Slice

LEMMA SliceOfResult == \A res \in Result : Slice(CellOf(res)) = res.warnings
<1> TAKE res \in Result
<1>1. res.warnings \in Seen
  BY DEF Result, Seen
<1>2. CellOf(res).data = res.warnings /\ CellOf(res).len = Len(res.warnings)
  BY DEF CellOf
<1> QED
  BY <1>1, <1>2, SliceWhole

LEMMA SliceOfPassed == \A o, ws : ws \in Seen => Slice(CellOf(Passed(o, ws))) = ws
<1> SUFFICES ASSUME NEW o, NEW ws \in Seen PROVE Slice(CellOf(Passed(o, ws))) = ws
  OBVIOUS
<1>1. CellOf(Passed(o, ws)).data = ws /\ CellOf(Passed(o, ws)).len = Len(ws)
  BY DEF CellOf, Passed
<1> QED
  BY <1>1, SliceWhole

Answered(q) == answer[q].kind = "result"

(* The result of a review nobody else writes to, until the review is told: *)
(* its own, or a prepared one that lets chains go on.                      *)
Owned(q) == ret[q].ref = q \/ ~heap[ret[q].ref].stop

(* The warnings of a review are those its frames have gathered, with the   *)
(* ones of the result the innermost frame is about to take in; while they  *)
(* are written to a result of its own one word of the header is there.     *)
Kept(q) ==
  /\ pc[q] = "idle" => hist[q].warnings = <<>>
  /\ pc[q] \in {"select", "call", "mutator"} =>
       Total(stack[q], Top(q).warnings, hist[q].warnings)
  /\ pc[q] = "returned" /\ ret[q].kind = "result" /\ Owned(q) =>
       Total(stack[q], Gathered(q), hist[q].warnings)
  /\ pc[q] \in {"writeLen", "writeData"} /\ ret[q].ref = q =>
       /\ Total(stack[q], Top(q).warnings, hist[q].warnings)
       /\ pc[q] = "writeLen" => heap[q].data = Top(q).warnings
       /\ pc[q] = "writeData" => heap[q].len = Len(Top(q).warnings)
  /\ pc[q] = "forge" /\ ret[q].kind = "result" /\ ret[q].ref = q =>
       Slice(heap[q]) = hist[q].warnings
  /\ Answered(q) /\ ret[q].ref = q => answer[q].warnings = hist[q].warnings

(* A step of another review leaves them there.                             *)
LEMMA KeptKept ==
  ASSUME NEW q \in Requests, Control(q), Kept(q),
         pc'[q] = pc[q], stack'[q] = stack[q], ret'[q] = ret[q], hist'[q] = hist[q],
         answer'[q] = answer[q], heap'[q] = heap[q],
         \A m \in Static : /\ Ruling(heap'[m]) = Ruling(heap[m])
                           /\ ~heap[m].stop => heap'[m] = heap[m]
  PROVE  Kept(q)'
<1>1. ret[q].ref \in {q} \cup Static
  BY DEF Control
<1>2. Ruling(heap'[ret[q].ref]) = Ruling(heap[ret[q].ref])
  <2>1. CASE ret[q].ref = q
    BY <2>1
  <2>2. CASE ret[q].ref \in Static
    BY <2>2
  <2> QED
    BY <1>1, <2>1, <2>2
<1>3. heap'[ret[q].ref].stop <=> heap[ret[q].ref].stop
  BY <1>2, SameRuling
<1>4. Owned(q)' <=> Owned(q)
  BY <1>3 DEF Owned
<1>5. Owned(q) => heap'[ret[q].ref] = heap[ret[q].ref]
  BY <1>1 DEF Owned
<1>6. Top(q)' = Top(q)
  BY DEF Top
<1>7. Owned(q) => Gathered(q)' = Gathered(q)
  BY <1>5, <1>6 DEF Gathered, Given
<1>8. Answered(q)' <=> Answered(q)
  BY DEF Answered
<1> QED
  BY <1>4, <1>6, <1>7, <1>8 DEF Kept

(* Returning from a chain with a result that holds what it has gathered.   *)
LEMMA ReturnKept ==
  ASSUME TypeInv, NEW r \in Requests, pc[r] \in {"select", "returned", "writeLen", "writeData"},
         ~Answered(r),
         NEW kind \in Kinds, NEW ref \in {r} \cup Static, NEW h \in [Pointers -> Cell],
         ReturnFrom(r, kind, ref, h),
         kind = "result" /\ (ref = r \/ ~h[ref].stop) =>
           Total(stack[r], Slice(h[ref]), hist[r].warnings)
  PROVE  Kept(r)'
<1> USE DEF TypeInv, TypeOK, Goto
<1>1. stack[r] \in Seq(Frame) /\ stack[r] # <<>>
  BY TopFacts
<1>2. /\ hist'[r] = hist[r] /\ ret'[r] = [kind |-> kind, ref |-> ref] /\ heap' = h
      /\ answer'[r] = answer[r] /\ stack'[r] = Front(stack[r])
  BY DEF ReturnFrom
<1>3. Slice(h[ref]) \in Seen
  BY SliceType DEF Pointers
<1>4. ~Answered(r)' /\ (Owned(r)' <=> ref = r \/ ~h[ref].stop)
  BY <1>2 DEF Answered, Owned
<1>5. CASE Len(stack[r]) = 1
  <2>1. pc'[r] = "forge"
    BY <1>5 DEF ReturnFrom
  <2>2. kind = "result" /\ ref = r => Slice(h[r]) = hist[r].warnings
    BY <1>1, <1>3, <1>5, TotalOne
  <2> QED
    BY <1>2, <1>4, <2>1, <2>2 DEF Kept
<1>6. CASE Len(stack[r]) # 1
  <2>1. pc'[r] = "returned"
    BY <1>6 DEF ReturnFrom
  <2>2. kind = "result" /\ Owned(r)' =>
          Total(Front(stack[r]), Last(Front(stack[r])).warnings \o Slice(h[ref]),
                hist[r].warnings)
    BY <1>1, <1>3, <1>4, <1>6, TotalPop
  <2>3. Gathered(r)' = Last(Front(stack[r])).warnings \o Slice(h[ref])
    <3>1. ret'[r].ref = ref
      BY <1>2
    <3> QED
      BY <1>2, <3>1, Zenon DEF Gathered, Given, Top
  <2>4. kind = "result" /\ Owned(r)' => Total(stack'[r], Gathered(r)', hist'[r].warnings)
    BY <1>2, <2>2, <2>3
  <2> QED
    BY <1>2, <1>4, <2>1, <2>4 DEF Kept
<1> QED
  BY <1>5, <1>6

LEMMA ChainStepKept ==
  ASSUME TypeInv, ThreadedInv, NEW r \in Requests, Kept(r), ChainStep(r)
  PROVE  Kept(r)'
<1> USE DEF TypeInv, TypeOK, Goto
<1>0. Threaded(r) /\ Writes(r) /\ (pc[r] # "done" => ~Answered(r)) /\ ret[r].ref \in {r} \cup Static
  BY DEF ThreadedInv, Threaded, Answered, Control
<1>1. CASE Start(r)
  <2> DEFINE frame == NewFrame(Root, input[r])
  <2>1. stack'[r] = <<frame>> /\ pc'[r] = "select" /\ hist'[r] = hist[r] /\ answer'[r] = answer[r]
    BY <1>1 DEF Start
  <2>2. frame \in Frame /\ frame.warnings = <<>>
    BY ChainAssumption DEF NewFrame, Frame, Seen
  <2>3. Top(r)' = frame /\ hist[r].warnings = <<>> /\ ~Answered(r)
    BY <1>0, <1>1, <2>1 DEF Top, Last, Start, Kept
  <2> HIDE DEF frame
  <2>4. Total(<<frame>>, <<>>, <<>>)
    <3>1. <<frame>> \in Seq(Frame) /\ Len(<<frame>>) = 1 /\ <<>> \in Seen
      BY <2>2 DEF Seen
    <3> QED
      BY <3>1, TotalOne, Zenon
  <2> QED
    BY <2>1, <2>2, <2>3, <2>4 DEF Kept, Answered
<1>2. CASE LoopEnd(r)
  <2> DEFINE cell == CellOf(Passed(Top(r).obj, Top(r).warnings))
             h    == [heap EXCEPT ![r] = cell]
  <2>1. Top(r) \in Frame /\ Total(stack[r], Top(r).warnings, hist[r].warnings) /\ ~Answered(r)
    BY <1>0, <1>2, TopFacts DEF LoopEnd, Kept
  <2>2. cell \in Cell /\ Slice(cell) = Top(r).warnings
    BY <2>1, PassedType, SliceOfPassed DEF Frame
  <2>3. ReturnFrom(r, "result", r, h) /\ pc[r] = "select"
    BY <1>2 DEF LoopEnd
  <2> HIDE DEF cell
  <2>4. h \in [Pointers -> Cell] /\ h[r] = cell
    BY <2>2 DEF Pointers
  <2>5. "result" \in Kinds
    BY DEF Kinds
  <2> HIDE DEF h
  <2> QED
    BY <2>1, <2>2, <2>3, <2>4, <2>5, ReturnKept
<1>3. CASE ContextDone(r)
  BY <1>0, <1>3, ReturnKept DEF ContextDone, Kinds
<1>4. CASE Proceed(r)
  BY <1>4 DEF Proceed, Kept, Top, Answered
<1>5. CASE CallMutator(r)
  <2>1. hist'[r].warnings = hist[r].warnings
    BY <1>5 DEF CallMutator, History
  <2> QED
    BY <1>5, <2>1 DEF CallMutator, Kept, Top, Answered
<1>6. CASE CallChain(r)
  <2> DEFINE frame == NewFrame(Element(r), Top(r).obj)
  <2>1. Top(r) \in Frame /\ stack[r] \in Seq(Frame) /\ stack[r] # <<>>
    BY <1>6, TopFacts DEF CallChain
  <2>2. frame \in Frame /\ frame.warnings = <<>>
    BY <1>6, <2>1 DEF CallChain, NewFrame, Frame, Seen
  <2>3. /\ stack'[r] = Append(stack[r], frame) /\ pc'[r] = "select" /\ hist'[r] = hist[r]
        /\ answer'[r] = answer[r] /\ ~Answered(r)
    BY <1>0, <1>6 DEF CallChain
  <2> HIDE DEF frame
  <2>4. Top(r)' = frame
    BY <2>1, <2>2, <2>3, Stacks DEF Top
  <2>5. Total(Append(stack[r], frame), frame.warnings, hist[r].warnings)
    <3>1. Total(stack[r], Last(stack[r]).warnings, hist[r].warnings)
      BY <1>6 DEF CallChain, Kept, Top
    <3> QED
      BY <2>1, <2>2, <3>1, TotalPush
  <2> QED
    BY <2>3, <2>4, <2>5 DEF Kept, Answered
<1>7. CASE Fail(r)
  <2> DEFINE kind == IF ret[r].kind = "nil" THEN "nilError" ELSE ret[r].kind
  <2>1. kind \in Kinds /\ kind # "result"
    BY <1>7 DEF Fail, Return, Kinds
  <2>2. ReturnFrom(r, kind, r, heap) /\ pc[r] = "returned"
    BY <1>7 DEF Fail
  <2> HIDE DEF kind
  <2> QED
    BY <1>0, <2>1, <2>2, ReturnKept
<1>8. CASE Stop(r)
  <2> DEFINE frame == [Top(r) EXCEPT !.warnings = Gathered(r)]
  <2>1. pc[r] = "returned" /\ ret[r].kind = "result" /\ ~Answered(r)
    BY <1>0, <1>8 DEF Stop
  <2>2. Top(r) \in Frame /\ stack[r] \in Seq(Frame) /\ stack[r] # <<>> /\ Gathered(r) \in Seen
    BY <2>1, TopFacts, GatheredType
  <2>3. frame \in Frame /\ frame.warnings = Gathered(r)
    BY <2>2 DEF Frame
  <2>4. /\ stack'[r] = Append(Front(stack[r]), frame)
        /\ ret'[r] = ret[r] /\ hist'[r] = hist[r] /\ answer'[r] = answer[r]
        /\ \/ pc'[r] = "writeLen" /\ heap' = [heap EXCEPT ![ret[r].ref].data = Gathered(r)]
           \/ pc'[r] = "writeData" /\ heap' = [heap EXCEPT ![ret[r].ref].len = Len(Gathered(r))]
    BY <1>8 DEF Stop
  <2> HIDE DEF frame
  <2>5. Top(r)' = frame
    BY <2>2, <2>3, <2>4, Stacks DEF Top
  <2>6. ret[r].ref = r => Total(stack[r], Gathered(r), hist[r].warnings)
    BY <2>1 DEF Kept, Owned
  <2>7. ret[r].ref = r => Total(stack'[r], Gathered(r), hist[r].warnings)
    BY <2>2, <2>3, <2>4, <2>6, TotalChange
  <2>8. r \in Pointers /\ heap[r] \in Cell
    BY DEF Pointers
  <2>9. ret[r].ref = r => /\ pc'[r] = "writeLen" => heap'[r].data = Gathered(r)
                          /\ pc'[r] = "writeData" => heap'[r].len = Len(Gathered(r))
    BY <2>4, <2>8 DEF Cell
  <2> QED
    BY <2>1, <2>3, <2>4, <2>5, <2>7, <2>9 DEF Kept, Answered
<1>9. CASE StopReturn(r)
  <2> DEFINE ref == ret[r].ref
  <2>1. pc[r] \in {"writeLen", "writeData"} /\ ~Answered(r)
    BY <1>0, <1>9 DEF StopReturn
  <2>2. Top(r) \in Frame /\ Top(r).warnings \in Seen /\ Len(Top(r).warnings) \in Nat
    <3>1. Top(r) \in Frame
      BY <2>1, TopFacts
    <3> QED
      BY <3>1 DEF Frame, Seen
  <2>3. ref \in {r} \cup Static /\ ref \in Pointers /\ heap[ref] \in Cell
    BY <1>0 DEF Pointers
  <2>4. PICK h : /\ ReturnFrom(r, "result", ref, h)
                 /\ \/ pc[r] = "writeLen" /\ h = [heap EXCEPT ![ref].len = Len(Top(r).warnings)]
                    \/ pc[r] = "writeData" /\ h = [heap EXCEPT ![ref].data = Top(r).warnings]
    BY <1>9 DEF StopReturn
  <2>5. h \in [Pointers -> Cell]
    <3>1. /\ [heap[ref] EXCEPT !.len = Len(Top(r).warnings)] \in Cell
          /\ [heap[ref] EXCEPT !.data = Top(r).warnings] \in Cell
      BY <2>2, <2>3 DEF Cell
    <3> QED
      BY <2>3, <2>4, <3>1
  <2>6. CASE ref = r
    <3>1. h[r].data = Top(r).warnings /\ h[r].len = Len(Top(r).warnings)
      <4>1. pc[r] = "writeLen" => heap[r].data = Top(r).warnings
        BY <2>6 DEF Kept
      <4>2. pc[r] = "writeData" => heap[r].len = Len(Top(r).warnings)
        BY <2>6 DEF Kept
      <4> QED
        BY <2>3, <2>4, <2>6, <4>1, <4>2 DEF Cell
    <3>2. Slice(h[r]) = Top(r).warnings
      BY <2>2, <3>1, SliceWhole
    <3>3. Total(stack[r], Slice(h[ref]), hist[r].warnings)
      BY <2>1, <2>6, <3>2 DEF Kept
    <3>4. "result" \in Kinds
      BY DEF Kinds
    <3> HIDE DEF ref
    <3> QED
      BY <2>1, <2>3, <2>4, <2>5, <3>3, <3>4, ReturnKept
  <2>7. CASE ref # r
    <3>1. HeapStep(r) /\ heap' = h
      BY <1>0, <1>9, <2>4, EveryHeapStep DEF Threaded, ChainStep, ReturnFrom
    <3>2. heap[ref].stop
      BY <1>0, <2>1 DEF Writes, Given
    <3>3. Ruling(h[ref]) = Ruling(heap[ref])
      BY <2>3, <2>7, <3>1 DEF HeapStep
    <3>4. h[ref].stop
      BY <3>2, <3>3, SameRuling
    <3>5. "result" \in Kinds
      BY DEF Kinds
    <3> HIDE DEF ref
    <3> QED
      BY <2>1, <2>3, <2>4, <2>5, <2>7, <3>4, <3>5, ReturnKept
  <2> QED
    BY <2>6, <2>7
<1>10. CASE Continue(r)
  <2> DEFINE frame == [Top(r) EXCEPT !.i = @ + 1, !.obj = Carried(r), !.warnings = Gathered(r)]
  <2>1. pc[r] = "returned" /\ ret[r].kind = "result" /\ ~Answered(r) /\ ~Given(r).stop
    BY <1>0, <1>10 DEF Continue
  <2>2. /\ Top(r) \in Frame /\ stack[r] \in Seq(Frame) /\ stack[r] # <<>>
        /\ Gathered(r) \in Seen /\ Carried(r) \in Objects
    BY <2>1, TopFacts, GatheredType
  <2>3. frame \in Frame /\ frame.warnings = Gathered(r)
    <3>1. Top(r).i + 1 \in Nat \ {0}
      BY <2>2 DEF Frame
    <3> QED
      BY <2>2, <3>1 DEF Frame
  <2>4. /\ stack'[r] = Append(Front(stack[r]), frame) /\ pc'[r] = "select" /\ hist'[r] = hist[r]
        /\ answer'[r] = answer[r]
    BY <1>10 DEF Continue
  <2>5. Total(stack[r], Gathered(r), hist[r].warnings)
    BY <2>1 DEF Kept, Owned, Given
  <2> HIDE DEF frame
  <2>6. Top(r)' = frame
    BY <2>2, <2>3, <2>4, Stacks DEF Top
  <2>7. Total(Append(Front(stack[r]), frame), Gathered(r), hist[r].warnings)
    BY <2>2, <2>3, <2>5, TotalChange
  <2> QED
    BY <2>1, <2>3, <2>4, <2>6, <2>7 DEF Kept, Answered
<1>11. CASE Forge(r)
  <2>1. pc[r] = "forge" /\ pc'[r] = "done" /\ ret' = ret /\ hist' = hist
    BY <1>11 DEF Forge
  <2>2. Answered(r)' => ret[r].kind = "result" /\ answer'[r].warnings = Slice(Given(r))
    BY <1>11 DEF Forge, Answered, NoAnswer
  <2>3. ret[r].kind = "result" /\ ret[r].ref = r => Slice(Given(r)) = hist[r].warnings
    BY <2>1 DEF Kept, Given
  <2> QED
    BY <2>1, <2>2, <2>3 DEF Kept
<1> QED
  BY <1>1, <1>2, <1>3, <1>4, <1>5, <1>6, <1>7, <1>8, <1>9, <1>10, <1>11 DEF ChainStep

LEMMA MutatorStepKept ==
  ASSUME TypeInv, ThreadedInv, NEW r \in Requests, Kept(r), MutatorStep(r)
  PROVE  Kept(r)'
<1> USE DEF TypeInv, TypeOK, Goto
<1>0. pc[r] = "mutator" /\ ~Answered(r)
  BY DEF MutatorStep, MutatorFails, MutatorReturns, MutatorPanics, ThreadedInv, Threaded, Answered
<1>1. CASE MutatorFails(r)
  <2>1. ret'[r].kind # "result" /\ pc'[r] = "returned" /\ answer' = answer
    BY <1>1 DEF MutatorFails
  <2> QED
    BY <1>0, <2>1 DEF Kept, Answered
<1>2. CASE MutatorReturns(r)
  <2> DEFINE e == Element(r)
  <2>1. PICK res \in Returns[e] :
          LET shared == e \in Static /\ res = Prepared[e]
          IN  /\ ret' = [ret EXCEPT ![r] = [kind |-> "result", ref |-> IF shared THEN e ELSE r]]
              /\ heap' = IF shared THEN heap ELSE [heap EXCEPT ![r] = CellOf(res)]
              /\ hist' = [hist EXCEPT ![r].obj = IF res.obj = Nil THEN @ ELSE res.obj,
                                      ![r].warnings = @ \o res.warnings]
    BY <1>2 DEF MutatorReturns
  <2>2. /\ Top(r) \in Frame /\ stack[r] \in Seq(Frame) /\ stack[r] # <<>>
        /\ Total(stack[r], Top(r).warnings, hist[r].warnings)
    BY <1>0, TopFacts DEF Kept
  <2>3. res \in Result /\ Top(r).warnings \in Seen /\ res.warnings \in Seen
    <3>1. e \in Mutators
      BY <1>0 DEF Control
    <3>2. res \in Result
      BY <2>1, <3>1, ChainAssumption
    <3> QED
      BY <2>2, <3>2 DEF Frame, Result, Seen
  <2>4. Total(stack[r], Top(r).warnings \o res.warnings, hist[r].warnings \o res.warnings)
    BY <2>2, <2>3, TotalMore
  <2>5. hist'[r].warnings = hist[r].warnings \o res.warnings
    BY <2>1 DEF History
  <2>6. Owned(r)' => heap'[ret'[r].ref] = CellOf(res)
    <3>1. CASE e \in Static /\ res = Prepared[e]
      <4>1. heap' = heap /\ ret'[r].ref = e /\ e # r
        BY <2>1, <3>1, PreparedAssumption
      <4>2. ~heap[e].stop => heap[e] = CellOf(res)
        BY <3>1 DEF ThreadedInv, Prepares
      <4> QED
        BY <4>1, <4>2 DEF Owned
    <3>2. CASE ~(e \in Static /\ res = Prepared[e])
      <4>1. heap' = [heap EXCEPT ![r] = CellOf(res)] /\ ret'[r].ref = r
        BY <2>1, <3>2
      <4> QED
        BY <4>1 DEF Pointers
    <3> QED
      BY <3>1, <3>2
  <2>7. pc'[r] = "returned" /\ stack'[r] = stack[r] /\ answer'[r] = answer[r]
    BY <1>2 DEF MutatorReturns
  <2>8. Owned(r)' => Gathered(r)' = Top(r).warnings \o res.warnings
    <3>1. Slice(CellOf(res)) = res.warnings
      BY <2>3, SliceOfResult
    <3>2. Top(r)' = Top(r)
      BY <2>7 DEF Top
    <3> QED
      BY <2>6, <3>1, <3>2, Zenon DEF Gathered, Given
  <2> QED
    BY <1>0, <2>4, <2>5, <2>7, <2>8 DEF Kept, Answered
<1>3. CASE MutatorPanics(r)
  BY <1>3 DEF MutatorPanics, Kept, NoAnswer, Answered
<1> QED
  BY <1>1, <1>2, <1>3 DEF MutatorStep

(* Each review keeps its warnings, whatever the others do.                 *)
KeptInv == \A q \in Requests : Kept(q)

LEMMA NextKept ==
  ASSUME TypeInv, ThreadedInv, KeptInv, [Next]_vars
  PROVE  KeptInv'
<1> USE DEF KeptInv
<1>1. CASE UNCHANGED vars
  BY <1>1, KeptKept DEF vars, TypeInv
<1>2. ASSUME NEW r \in Requests, ChainStep(r) \/ MutatorStep(r) \/ Cancel(r) PROVE KeptInv'
  <2>1. HeapStep(r)
    BY <1>2, EveryHeapStep DEF ThreadedInv, Threaded
  <2>2. Kept(r)'
    <3>1. CASE Cancel(r)
      BY <3>1, KeptKept DEF Cancel, TypeInv
    <3> QED
      BY <1>2, <3>1, ChainStepKept, MutatorStepKept
  <2>3. ASSUME NEW q \in Requests, q # r PROVE Kept(q)'
    BY <1>2, <2>1, <2>3, OnlyOwnState, KeptKept DEF TypeInv, HeapStep
  <2> QED
    BY <2>2, <2>3
<1> QED
  BY <1>1, <1>2 DEF Next, AllDone

LEMMA KeptInvariant == Spec => []KeptInv
<1>1. Init => KeptInv
  BY DEF Init, KeptInv, Kept, NoAnswer, Answered
<1> QED
  BY <1>1, NextKept, ThreadedInvariant, PTL DEF Spec

(* The warnings of a review that is not answered with a shared result are  *)
(* those its mutators gave, each once and in order, through any nesting of *)
(* chains, whatever the other reviews write (mutator.go:80-81, 87, 95).    *)
THEOREM NoWarningLost == Spec => []WarningsKept
<1>1. KeptInv => WarningsKept
  BY DEF KeptInv, Kept, WarningsKept, Answered
<1> QED
  BY <1>1, KeptInvariant, PTL
-----------------------------------------------------------------------------
(* Where a chain of chains is in the sequence of its mutators.  at[i] is   *)
(* where the leaves of element i begin among the leaves l of its chain.    *)
IsCut(c, l, at) ==
  /\ at \in [1..(Len(Elements[c]) + 1) -> 0..Len(l)]
  /\ at[1] = 0
  /\ at[Len(Elements[c]) + 1] = Len(l)
  /\ \A i \in 1..Len(Elements[c]) :
       /\ at[i] <= at[i + 1]
       /\ SubSeq(l, at[i] + 1, at[i + 1]) =
            IF Elements[c][i] \in Chains THEN Leaves[Elements[c][i]] ELSE <<Elements[c][i]>>

Cut(c) == CHOOSE at : IsCut(c, Leaves[c], at)

LEMMA Segment ==
  ASSUME NEW S, NEW l \in Seq(S), NEW a \in 0..Len(l), NEW b \in 0..Len(l), a <= b,
         NEW m, m = SubSeq(l, a + 1, b)
  PROVE  Len(m) = b - a /\ \A k \in 1..Len(m) : l[a + k] = m[k]
<1>1. a \in Nat /\ b \in Nat /\ Len(l) \in Nat
  BY LenProperties
<1>2. \A k \in (a + 1)..b : l[k] \in S
  BY <1>1, ElementOfSeq
<1>3. /\ Len(SubSeq(l, a + 1, b)) = IF a + 1 <= b THEN b - (a + 1) + 1 ELSE 0
      /\ \A k \in 1..(b - (a + 1) + 1) : SubSeq(l, a + 1, b)[k] = l[a + 1 + k - 1]
  <2>1. a + 1 \in Int /\ b \in Int
    BY <1>1
  <2> QED
    BY <1>2, <2>1, SubSeqProperties
<1>4. (IF a + 1 <= b THEN b - (a + 1) + 1 ELSE 0) = b - a
  BY <1>1
<1>5. \A k \in 1..(b - a) : k \in 1..(b - (a + 1) + 1) /\ a + 1 + k - 1 = a + k
  BY <1>1
<1> QED
  BY <1>3, <1>4, <1>5

LEMMA Cuts ==
  ASSUME NEW c \in Chains
  PROVE  /\ Len(Leaves[c]) \in Nat /\ Len(Elements[c]) \in Nat
         /\ Cut(c)[1] = 0 /\ Cut(c)[Len(Elements[c]) + 1] = Len(Leaves[c])
         /\ \A i \in 1..(Len(Elements[c]) + 1) : Cut(c)[i] \in 0..Len(Leaves[c])
<1>1. Leaves[c] \in Seq(Mutators) /\ Elements[c] \in Seq(Mutators \cup Chains)
  BY ChainAssumption, LeavesAssumption
<1>2. \E at : IsCut(c, Leaves[c], at)
  <2>1. FlattensTo(c, Leaves[c])
    BY LeavesAssumption
  <2> QED
    BY <2>1 DEF FlattensTo, IsCut
<1>3. IsCut(c, Leaves[c], Cut(c))
  BY <1>2, Zenon DEF Cut
<1> QED
  BY <1>1, <1>3, LenProperties DEF IsCut

(* An element of a chain has its leaves between its cuts.                  *)
LEMMA ElementCut ==
  ASSUME NEW c \in Chains, NEW i \in 1..Len(Elements[c])
  PROVE  /\ Elements[c][i] \in Mutators =>
              /\ Cut(c)[i + 1] = Cut(c)[i] + 1
              /\ Leaves[c][Cut(c)[i] + 1] = Elements[c][i]
         /\ Elements[c][i] \in Chains =>
              /\ Cut(c)[i + 1] = Cut(c)[i] + Len(Leaves[Elements[c][i]])
              /\ \A k \in 1..Len(Leaves[Elements[c][i]]) :
                   Leaves[c][Cut(c)[i] + k] = Leaves[Elements[c][i]][k]
<1> DEFINE e == Elements[c][i]
           l == Leaves[c]
           a == Cut(c)[i]
           b == Cut(c)[i + 1]
<1>1. l \in Seq(Mutators) /\ Len(Elements[c]) \in Nat
  BY LeavesAssumption, Cuts
<1>2. i \in 1..(Len(Elements[c]) + 1) /\ i + 1 \in 1..(Len(Elements[c]) + 1)
  BY <1>1
<1>3. a \in 0..Len(l) /\ b \in 0..Len(l)
  BY <1>2, Cuts
<1>4. a <= b /\ SubSeq(l, a + 1, b) = IF e \in Chains THEN Leaves[e] ELSE <<e>>
  <2>1. \E at : IsCut(c, Leaves[c], at)
    <3>1. FlattensTo(c, Leaves[c])
      BY LeavesAssumption
    <3> QED
      BY <3>1 DEF FlattensTo, IsCut
  <2>2. IsCut(c, Leaves[c], Cut(c))
    BY <2>1, Zenon DEF Cut
  <2> QED
    BY <2>2 DEF IsCut
<1> HIDE DEF e, l, a, b
<1>5. ASSUME NEW m, m = SubSeq(l, a + 1, b), NEW n \in Nat, Len(m) = n
      PROVE  b = a + n /\ \A k \in 1..n : l[a + k] = m[k]
  <2>1. n = b - a /\ \A k \in 1..n : l[a + k] = m[k]
    BY <1>1, <1>3, <1>4, <1>5, Segment
  <2> QED
    BY <1>3, <2>1
<1>6. ASSUME e \in Mutators PROVE b = a + 1 /\ l[a + 1] = e
  <2>1. SubSeq(l, a + 1, b) = <<e>> /\ Len(<<e>>) = 1 /\ <<e>>[1] = e
    BY <1>4, <1>6, ChainAssumption
  <2>2. b = a + 1 /\ \A k \in 1..1 : l[a + k] = <<e>>[k]
    BY <1>5, <2>1
  <2> QED
    BY <2>1, <2>2
<1>7. ASSUME e \in Chains
      PROVE  b = a + Len(Leaves[e]) /\ \A k \in 1..Len(Leaves[e]) : l[a + k] = Leaves[e][k]
  BY <1>4, <1>5, <1>7, Cuts
<1> QED
  BY <1>6, <1>7 DEF e, l, a, b

(* The leaves of c are those of the root from b on.                        *)
Located(c, b) ==
  \A k \in 1..Len(Leaves[c]) :
    b + k <= Len(Leaves[Root]) /\ Leaves[Root][b + k] = Leaves[c][k]

(* The leaves of the frames begin at base in the sequence of the root.     *)
Behind(s, base) ==
  /\ base \in [1..Len(s) -> Nat]
  /\ base[1] = 0 /\ s[1].chain = Root
  /\ \A j \in 1..(Len(s) - 1) :
       /\ s[j].i <= Len(Elements[s[j].chain])
       /\ Elements[s[j].chain][s[j].i] = s[j + 1].chain
       /\ base[j + 1] = base[j] + Cut(s[j].chain)[s[j].i]
  /\ \A j \in 1..Len(s) : Located(s[j].chain, base[j])

(* k leaves of the innermost chain are behind, and n of the root.          *)
Reached(s, k, n) == \E base : Behind(s, base) /\ base[Len(s)] + k = n

LEMMA ReachedOne ==
  ASSUME NEW s \in Seq(Frame), Len(s) = 1, s[1].chain = Root, NEW k \in Nat, NEW n
  PROVE  Reached(s, k, n) <=> k = n
<1>1. ASSUME NEW base, Behind(s, base) PROVE base[Len(s)] + k = k
  BY <1>1 DEF Behind
<1>2. Behind(s, [j \in 1..Len(s) |-> 0])
  <2>1. Located(Root, 0)
    <3>1. Len(Leaves[Root]) \in Nat
      BY Cuts, ChainAssumption
    <3> QED
      BY <3>1 DEF Located
  <2> QED
    BY <2>1 DEF Behind
<1> QED
  BY <1>1, <1>2 DEF Reached

(* A call of a nested chain.                                               *)
LEMMA ReachedPush ==
  ASSUME NEW s \in Seq(Frame), s # <<>>, NEW n,
         Last(s).i <= Len(Elements[Last(s).chain]),
         Reached(s, Cut(Last(s).chain)[Last(s).i], n),
         NEW x \in Frame, x.chain = Elements[Last(s).chain][Last(s).i]
  PROVE  Reached(Append(s, x), 0, n)
<1> DEFINE l == Len(s)
           t == Append(s, x)
           c == Last(s).chain
           i == Last(s).i
           cut == Cut(c)[i]
<1>1. PICK base : Behind(s, base) /\ base[l] + cut = n
  BY DEF Reached
<1>2. /\ l \in Nat \ {0} /\ Last(s) = s[l] /\ Last(s) \in Frame
      /\ Len(t) = l + 1 /\ (\A j \in 1..l : t[j] = s[j]) /\ t[l + 1] = x
  BY StackPlaces
<1>3. /\ c \in Chains /\ i \in 1..Len(Elements[c])
      /\ x.chain \in Chains /\ x.chain = Elements[c][i]
  <2>1. c \in Chains /\ i \in Nat \ {0} /\ x.chain \in Chains
    BY <1>2 DEF Frame
  <2> QED
    BY <2>1, Cuts
<1>4. /\ base \in [1..l -> Nat] /\ base[l] \in Nat /\ Located(c, base[l])
      /\ base[1] = 0 /\ s[1].chain = Root
      /\ \A j \in 1..(l - 1) : /\ s[j].i <= Len(Elements[s[j].chain])
                               /\ Elements[s[j].chain][s[j].i] = s[j + 1].chain
                               /\ base[j + 1] = base[j] + Cut(s[j].chain)[s[j].i]
      /\ \A j \in 1..l : Located(s[j].chain, base[j])
  BY <1>1, <1>2 DEF Behind
<1> HIDE DEF c, i
<1>5. cut \in Nat /\ cut + Len(Leaves[x.chain]) <= Len(Leaves[c])
      /\ Len(Leaves[x.chain]) \in Nat
      /\ \A k \in 1..Len(Leaves[x.chain]) : Leaves[c][cut + k] = Leaves[x.chain][k]
  <2>1. i \in 1..(Len(Elements[c]) + 1) /\ i + 1 \in 1..(Len(Elements[c]) + 1)
    BY <1>3, Cuts
  <2>2. cut \in 0..Len(Leaves[c]) /\ Cut(c)[i + 1] \in 0..Len(Leaves[c])
    BY <1>3, <2>1, Cuts
  <2>3. /\ Cut(c)[i + 1] = Cut(c)[i] + Len(Leaves[x.chain])
        /\ \A k \in 1..Len(Leaves[x.chain]) : Leaves[c][Cut(c)[i] + k] = Leaves[x.chain][k]
    <3>1. Elements[c][i] \in Chains
      BY <1>3
    <3>2. /\ Cut(c)[i + 1] = Cut(c)[i] + Len(Leaves[Elements[c][i]])
          /\ \A k \in 1..Len(Leaves[Elements[c][i]]) :
               Leaves[c][Cut(c)[i] + k] = Leaves[Elements[c][i]][k]
      BY <1>3, <3>1, ElementCut
    <3> QED
      BY <1>3, <3>2
  <2>4. Cut(c)[i + 1] = cut + Len(Leaves[x.chain])
        /\ \A k \in 1..Len(Leaves[x.chain]) : Leaves[c][cut + k] = Leaves[x.chain][k]
    BY <2>3
  <2>5. Len(Leaves[x.chain]) \in Nat /\ Len(Leaves[c]) \in Nat
    BY <1>3, Cuts
  <2> HIDE DEF cut
  <2> QED
    BY <2>2, <2>4, <2>5
<1> DEFINE next == [j \in 1..(l + 1) |-> IF j = l + 1 THEN n ELSE base[j]]
<1> HIDE DEF l, t, c, i, cut
<1>6. Located(x.chain, n)
  <2> SUFFICES ASSUME NEW k \in 1..Len(Leaves[x.chain])
               PROVE  n + k <= Len(Leaves[Root]) /\ Leaves[Root][n + k] = Leaves[x.chain][k]
    BY DEF Located
  <2>1. cut + k \in 1..Len(Leaves[c]) /\ n + k = base[l] + (cut + k)
    <3> DEFINE b == base[l]
               lc == Len(Leaves[c])
               lx == Len(Leaves[x.chain])
    <3>1. /\ lc \in Nat /\ lx \in Nat /\ b \in Nat /\ cut \in Nat /\ k \in 1..lx
          /\ cut + lx <= lc /\ n = b + cut
      BY <1>1, <1>3, <1>4, <1>5, Cuts
    <3> HIDE DEF b, lc, lx
    <3>2. cut + k \in 1..lc /\ n + k = b + (cut + k)
      BY <3>1
    <3> QED
      BY <3>2 DEF b, lc
  <2>2. /\ base[l] + (cut + k) <= Len(Leaves[Root])
        /\ Leaves[Root][base[l] + (cut + k)] = Leaves[c][cut + k]
    BY <1>4, <2>1 DEF Located
  <2> QED
    BY <1>5, <2>1, <2>2
<1>7. n \in Nat
  BY <1>1, <1>4, <1>5
<1>8. Behind(t, next)
  <2>1. next \in [1..(l + 1) -> Nat] /\ next[1] = 0 /\ t[1].chain = Root
    BY <1>2, <1>4, <1>7
  <2>2. ASSUME NEW j \in 1..l
        PROVE  /\ t[j].i <= Len(Elements[t[j].chain])
               /\ Elements[t[j].chain][t[j].i] = t[j + 1].chain
               /\ next[j + 1] = next[j] + Cut(t[j].chain)[t[j].i]
    <3>1. t[j] = s[j] /\ next[j] = base[j] /\ j + 1 \in 1..(l + 1)
      BY <1>2
    <3>2. CASE j = l
      <4>1. s[j] = Last(s) /\ t[j + 1] = x /\ next[j + 1] = n
        BY <1>2, <3>1, <3>2
      <4> QED
        BY <1>1, <3>1, <3>2, <4>1 DEF c, i, cut
    <3>3. CASE j # l
      <4>1. j \in 1..(l - 1) /\ t[j + 1] = s[j + 1] /\ next[j + 1] = base[j + 1]
        BY <1>2, <3>1, <3>3
      <4> QED
        BY <1>4, <3>1, <4>1
    <3> QED
      BY <3>2, <3>3
  <2>3. \A j \in 1..(l + 1) : Located(t[j].chain, next[j])
    <3> SUFFICES ASSUME NEW j \in 1..(l + 1) PROVE Located(t[j].chain, next[j])
      OBVIOUS
    <3>1. CASE j = l + 1
      BY <1>2, <1>6, <3>1
    <3>2. CASE j # l + 1
      <4>1. j \in 1..l /\ t[j] = s[j] /\ next[j] = base[j]
        BY <1>2, <3>2
      <4> QED
        BY <1>4, <4>1
    <3> QED
      BY <3>1, <3>2
  <2>4. Len(t) = l + 1 /\ 1..(Len(t) - 1) = 1..l
    BY <1>2
  <2> HIDE DEF next
  <2> QED
    BY <2>1, <2>2, <2>3, <2>4 DEF Behind
<1>9. next[Len(t)] + 0 = n
  BY <1>2, <1>7
<1> QED
  BY <1>8, <1>9 DEF Reached, t

(* The return of a nested chain that has come to its end.                  *)
LEMMA ReachedPop ==
  ASSUME NEW s \in Seq(Frame), s # <<>>, Len(s) # 1, NEW n,
         Reached(s, Len(Leaves[Last(s).chain]), n),
         NEW below, below = Last(Front(s))
  PROVE  /\ below.i <= Len(Elements[below.chain])
         /\ Reached(Front(s), Cut(below.chain)[below.i + 1], n)
<1> DEFINE l == Len(s)
           t == Front(s)
           c == Last(s).chain
<1>1. PICK base : Behind(s, base) /\ base[l] + Len(Leaves[c]) = n
  BY DEF Reached
<1>2. /\ l \in Nat \ {0} /\ Last(s) = s[l] /\ Last(s) \in Frame
      /\ Len(t) = l - 1 /\ (\A j \in 1..(l - 1) : t[j] = s[j])
      /\ below = s[l - 1] /\ \A j \in 1..l : s[j] \in Frame
  <2>1. s[1] \in Frame
    BY EmptySeq, ElementOfSeq
  <2> QED
    BY <2>1, StackPlaces
<1>3. /\ base \in [1..l -> Nat] /\ base[1] = 0 /\ s[1].chain = Root
      /\ \A j \in 1..(l - 1) : /\ s[j].i <= Len(Elements[s[j].chain])
                               /\ Elements[s[j].chain][s[j].i] = s[j + 1].chain
                               /\ base[j + 1] = base[j] + Cut(s[j].chain)[s[j].i]
      /\ \A j \in 1..l : Located(s[j].chain, base[j])
  BY <1>1 DEF Behind
<1> DEFINE rest == [j \in 1..(l - 1) |-> base[j]]
<1>4. l # 1
  OBVIOUS
<1> HIDE DEF l, t, c
<1>5. l - 1 \in 1..(l - 1) /\ l - 1 \in 1..l /\ (l - 1) + 1 = l /\ 1 \in 1..(l - 1)
  BY <1>2, <1>4
<1>6. below \in Frame /\ c \in Chains
  BY <1>2, <1>5 DEF Frame, c
<1>7. /\ below.i <= Len(Elements[below.chain])
      /\ Elements[below.chain][below.i] = c
      /\ base[l] = base[l - 1] + Cut(below.chain)[below.i]
  BY <1>2, <1>3, <1>5 DEF c
<1>8. /\ below.chain \in Chains /\ below.i \in 1..Len(Elements[below.chain])
      /\ Cut(below.chain)[below.i] \in Nat
      /\ Cut(below.chain)[below.i + 1] = Cut(below.chain)[below.i] + Len(Leaves[c])
  <2>1. below.chain \in Chains /\ below.i \in Nat \ {0}
    BY <1>6 DEF Frame
  <2>2. Len(Elements[below.chain]) \in Nat
    BY <2>1, Cuts
  <2>3. below.i \in 1..Len(Elements[below.chain]) /\ below.i \in 1..(Len(Elements[below.chain]) + 1)
    BY <1>7, <2>1, <2>2
  <2>4. Cut(below.chain)[below.i] \in 0..Len(Leaves[below.chain])
    BY <2>1, <2>3, Cuts
  <2>5. Elements[below.chain][below.i] \in Chains
    BY <1>6, <1>7
  <2>6. Cut(below.chain)[below.i + 1] =
          Cut(below.chain)[below.i] + Len(Leaves[Elements[below.chain][below.i]])
    BY <2>1, <2>3, <2>5, ElementCut
  <2> QED
    BY <1>7, <2>1, <2>3, <2>4, <2>6
<1>9. Behind(t, rest)
  <2>1. rest \in [1..(l - 1) -> Nat] /\ rest[1] = 0 /\ t[1].chain = Root
    BY <1>2, <1>3, <1>5
  <2>2. ASSUME NEW j \in 1..((l - 1) - 1)
        PROVE  /\ t[j].i <= Len(Elements[t[j].chain])
               /\ Elements[t[j].chain][t[j].i] = t[j + 1].chain
               /\ rest[j + 1] = rest[j] + Cut(t[j].chain)[t[j].i]
    <3>1. j \in 1..(l - 1) /\ j + 1 \in 1..(l - 1)
      BY <1>2
    <3>2. t[j] = s[j] /\ t[j + 1] = s[j + 1] /\ rest[j] = base[j] /\ rest[j + 1] = base[j + 1]
      BY <1>2, <3>1
    <3> QED
      BY <1>3, <3>1, <3>2
  <2>3. \A j \in 1..(l - 1) : Located(t[j].chain, rest[j])
    <3> SUFFICES ASSUME NEW j \in 1..(l - 1) PROVE Located(t[j].chain, rest[j])
      OBVIOUS
    <3>1. j \in 1..l /\ t[j] = s[j] /\ rest[j] = base[j]
      BY <1>2
    <3> QED
      BY <1>3, <3>1
  <2> HIDE DEF rest
  <2> QED
    BY <1>2, <2>1, <2>2, <2>3 DEF Behind
<1>10. rest[Len(t)] + Cut(below.chain)[below.i + 1] = n
  <2>1. rest[Len(t)] = base[l - 1] /\ base[l - 1] \in Nat
    BY <1>2, <1>3, <1>5
  <2>2. Len(Leaves[c]) \in Nat
    BY <1>6, Cuts
  <2> QED
    BY <1>1, <1>7, <1>8, <2>1, <2>2
<1> QED
  BY <1>7, <1>9, <1>10 DEF Reached, t

(* A change of the innermost frame, within its chain.                      *)
LEMMA ReachedChange ==
  ASSUME NEW s \in Seq(Frame), s # <<>>, NEW x \in Frame, x.chain = Last(s).chain,
         NEW k, NEW n, Reached(s, k, n)
  PROVE  Reached(Append(Front(s), x), k, n)
<1> DEFINE l == Len(s)
           t == Append(Front(s), x)
<1>1. PICK base : Behind(s, base) /\ base[l] + k = n
  BY DEF Reached
<1>2. /\ l \in Nat \ {0} /\ Len(t) = l /\ (\A j \in 1..(l - 1) : t[j] = s[j])
      /\ t[l] = x /\ s[l] = Last(s)
  BY StackPlaces
<1> HIDE DEF l, t
<1>3. \A j \in 1..l : t[j].chain = s[j].chain
  <2> SUFFICES ASSUME NEW j \in 1..l PROVE t[j].chain = s[j].chain
    OBVIOUS
  <2>1. j = l \/ j \in 1..(l - 1)
    BY <1>2
  <2> QED
    BY <1>2, <2>1
<1>4. Behind(t, base)
  <2>1. base \in [1..l -> Nat] /\ base[1] = 0 /\ t[1].chain = Root
    BY <1>1, <1>2, <1>3 DEF Behind, l
  <2>2. ASSUME NEW j \in 1..(l - 1)
        PROVE  /\ t[j].i <= Len(Elements[t[j].chain])
               /\ Elements[t[j].chain][t[j].i] = t[j + 1].chain
               /\ base[j + 1] = base[j] + Cut(t[j].chain)[t[j].i]
    <3>1. t[j] = s[j] /\ t[j + 1].chain = s[j + 1].chain
      BY <1>2, <1>3
    <3> QED
      BY <1>1, <3>1 DEF Behind, l
  <2>3. \A j \in 1..l : Located(t[j].chain, base[j])
    BY <1>1, <1>3 DEF Behind, l
  <2> QED
    BY <1>2, <2>1, <2>2, <2>3 DEF Behind
<1> QED
  BY <1>1, <1>2, <1>4 DEF Reached, l, t

(* The next mutator of the innermost chain is the next of the root.        *)
LEMMA ReachedNext ==
  ASSUME NEW s \in Seq(Frame), s # <<>>, NEW n,
         NEW c, c = Last(s).chain, NEW i, i = Last(s).i,
         i <= Len(Elements[c]), Elements[c][i] \in Mutators, Reached(s, Cut(c)[i], n)
  PROVE  /\ n \in Nat /\ n < Len(Leaves[Root])
         /\ Leaves[Root][n + 1] = Elements[c][i]
         /\ Reached(s, Cut(c)[i + 1], n + 1)
<1> DEFINE l == Len(s)
           a == Cut(c)[i]
<1>1. PICK base : Behind(s, base) /\ base[l] + a = n
  BY DEF Reached
<1>2. l \in Nat \ {0} /\ Last(s) = s[l] /\ Last(s) \in Frame
  <2>1. s[1] \in Frame
    BY EmptySeq, ElementOfSeq
  <2> QED
    BY <2>1, StackPlaces
<1>3. c \in Chains /\ i \in Nat \ {0}
  BY <1>2 DEF Frame
<1>4. i \in 1..Len(Elements[c]) /\ i \in 1..(Len(Elements[c]) + 1) /\ i + 1 \in 1..(Len(Elements[c]) + 1)
  <2>1. Len(Elements[c]) \in Nat
    BY <1>3, Cuts
  <2> QED
    BY <1>3, <2>1
<1>5. a \in 0..Len(Leaves[c]) /\ Cut(c)[i + 1] \in 0..Len(Leaves[c]) /\ Len(Leaves[c]) \in Nat
  BY <1>3, <1>4, Cuts
<1>6. Cut(c)[i + 1] = a + 1 /\ Leaves[c][a + 1] = Elements[c][i]
  BY <1>3, <1>4, ElementCut
<1>7. base[l] \in Nat /\ Located(c, base[l])
  <2>1. l \in 1..l
    BY <1>2
  <2> QED
    BY <1>1, <1>2, <2>1 DEF Behind
<1>8. Len(Leaves[Root]) \in Nat
  BY Cuts, ChainAssumption
<1> HIDE DEF l, a
<1>9. a + 1 \in 1..Len(Leaves[c])
  BY <1>5, <1>6
<1>10. base[l] + (a + 1) <= Len(Leaves[Root]) /\ Leaves[Root][base[l] + (a + 1)] = Leaves[c][a + 1]
  BY <1>7, <1>9 DEF Located
<1>11. n \in Nat /\ n + 1 = base[l] + (a + 1) /\ n < Len(Leaves[Root])
  <2> DEFINE b == base[l]
             all == Len(Leaves[Root])
  <2>1. b \in Nat /\ all \in Nat /\ a \in Nat /\ b + a = n /\ b + (a + 1) <= all
    BY <1>1, <1>5, <1>7, <1>8, <1>10 DEF a
  <2> HIDE DEF b, all
  <2>2. n \in Nat /\ n + 1 = b + (a + 1) /\ n < all
    BY <2>1
  <2> QED
    BY <2>2 DEF b, all
<1>12. Reached(s, Cut(c)[i + 1], n + 1)
  BY <1>1, <1>6, <1>11 DEF Reached, l
<1> QED
  BY <1>6, <1>10, <1>11, <1>12

(* The calls a review has made are its way through the leaves of Root.     *)
Length(q)    == Len(Elements[Top(q).chain])
Cursor(q, d) == Cut(Top(q).chain)[Top(q).i + d]
Called(q)    == Len(hist[q].calls)

Placed(q) ==
  /\ pc[q] = "idle" => hist[q].calls = <<>>
  /\ pc[q] \in {"select", "call"} =>
       Top(q).i <= Length(q) + 1 /\ Reached(stack[q], Cursor(q, 0), Called(q))
  /\ pc[q] = "mutator" =>
       Reached(stack[q], Cursor(q, 1), Called(q)) /\ Leaves[Root][Called(q)] = Element(q)
  /\ pc[q] = "returned" /\ ~Decided(q) =>
       Top(q).i <= Length(q) /\ Reached(stack[q], Cursor(q, 1), Called(q))

LEMMA PlacedKept ==
  ASSUME NEW q \in Requests, Control(q), Placed(q),
         pc'[q] = pc[q], stack'[q] = stack[q], ret'[q] = ret[q], hist'[q] = hist[q],
         heap'[q] = heap[q], \A m \in Static : Ruling(heap'[m]) = Ruling(heap[m])
  PROVE  Placed(q)'
<1>1. Ruling(heap'[ret'[q].ref]) = Ruling(heap[ret[q].ref])
  BY DEF Control
<1>2. Top(q)' = Top(q)
  BY DEF Top
<1>3. Length(q)' = Length(q) /\ Element(q)' = Element(q)
  BY <1>2 DEF Length, Element
<1>4. Cursor(q, 0)' = Cursor(q, 0) /\ Cursor(q, 1)' = Cursor(q, 1) /\ Called(q)' = Called(q)
  BY <1>2 DEF Cursor, Called
<1>5. pc[q] = "returned" => (Decided(q)' <=> Decided(q))
  <2>1. heap'[ret'[q].ref].stop <=> heap[ret[q].ref].stop
    BY <1>1, SameRuling
  <2> QED
    BY <2>1 DEF Decided, Given
<1> QED
  BY <1>2, <1>3, <1>4, <1>5 DEF Placed

(* The review is at the frame and the element that its top frame says.     *)
LEMMA CursorFacts ==
  ASSUME TypeInv, NEW r \in Requests, pc[r] \in {"select", "call", "mutator", "returned"}
  PROVE  /\ stack[r] \in Seq(Frame) /\ stack[r] # <<>> /\ Top(r) \in Frame
         /\ Top(r) = Last(stack[r]) /\ Top(r).chain \in Chains
         /\ Top(r).i \in Nat \ {0} /\ Length(r) \in Nat
         /\ Cursor(r, 0) = Cut(Top(r).chain)[Top(r).i]
<1>1. stack[r] \in Seq(Frame) /\ stack[r] # <<>> /\ Top(r) \in Frame
  BY TopFacts
<1>2. Top(r).chain \in Chains /\ Top(r).i \in Nat \ {0}
  BY <1>1 DEF Frame
<1>3. Top(r).i + 0 = Top(r).i
  BY <1>2
<1>4. Length(r) \in Nat
  BY <1>2, Cuts DEF Length
<1> QED
  BY <1>1, <1>2, <1>3, <1>4 DEF Cursor, Top

(* Returning from a chain that has come to its end, to one that goes on.   *)
LEMMA LoopEndPlaced ==
  ASSUME TypeInv, NEW r \in Requests, Placed(r), LoopEnd(r)
  PROVE  /\ Placed(r)'
         /\ Reached(stack[r], Len(Leaves[Top(r).chain]), Called(r))
<1>1. /\ stack[r] \in Seq(Frame) /\ stack[r] # <<>> /\ Top(r) = Last(stack[r])
      /\ Top(r).chain \in Chains /\ Top(r).i \in Nat \ {0} /\ Length(r) \in Nat
      /\ Cursor(r, 0) = Cut(Top(r).chain)[Top(r).i]
  BY CursorFacts DEF LoopEnd
<1>2. Top(r).i = Length(r) + 1 /\ Reached(stack[r], Cursor(r, 0), Called(r))
  <2>1. Top(r).i > Length(r) /\ Top(r).i <= Length(r) + 1
    BY <1>1 DEF LoopEnd, Placed, More, Length
  <2> QED
    BY <1>1, <2>1 DEF LoopEnd, Placed
<1>3. Cursor(r, 0) = Len(Leaves[Top(r).chain])
  BY <1>1, <1>2, Cuts DEF Length
<1>4. Reached(stack[r], Len(Leaves[Top(r).chain]), Called(r))
  BY <1>2, <1>3
<1>5. /\ pc' = [pc EXCEPT ![r] = IF Len(stack[r]) = 1 THEN "forge" ELSE "returned"]
      /\ stack'[r] = Front(stack[r]) /\ hist' = hist
  BY DEF LoopEnd, ReturnFrom, Goto, TypeInv, TypeOK
<1>6. CASE Len(stack[r]) = 1
  BY <1>4, <1>5, <1>6 DEF Placed, TypeInv, TypeOK
<1>7. CASE Len(stack[r]) # 1
  <2> DEFINE below == Last(Front(stack[r]))
  <2>1. /\ below.i <= Len(Elements[below.chain])
        /\ Reached(Front(stack[r]), Cut(below.chain)[below.i + 1], Called(r))
    BY <1>1, <1>4, <1>7, ReachedPop
  <2>2. Top(r)' = below
    BY <1>5 DEF Top
  <2> HIDE DEF below
  <2>3. Length(r)' = Len(Elements[below.chain]) /\ Cursor(r, 1)' = Cut(below.chain)[below.i + 1]
    BY <2>2 DEF Length, Cursor
  <2>4. Called(r)' = Called(r) /\ pc'[r] = "returned"
    BY <1>5, <1>7 DEF Called, TypeInv, TypeOK
  <2> QED
    BY <1>4, <1>5, <2>1, <2>2, <2>3, <2>4 DEF Placed
<1> QED
  BY <1>6, <1>7

LEMMA ChainStepPlaced ==
  ASSUME TypeInv, ThreadedInv, NEW r \in Requests, Placed(r), ChainStep(r)
  PROVE  Placed(r)'
<1> USE DEF TypeInv, TypeOK, Goto
<1>1. CASE Start(r)
  <2> DEFINE frame == NewFrame(Root, input[r])
  <2>1. /\ stack'[r] = <<frame>> /\ pc'[r] = "select" /\ hist' = hist
        /\ hist[r].calls = <<>>
    BY <1>1 DEF Start, Placed
  <2>2. frame \in Frame /\ frame.chain = Root /\ frame.i = 1
    BY ChainAssumption DEF NewFrame, Frame, Seen
  <2>3. Top(r)' = frame
    BY <2>1 DEF Top, Last
  <2> HIDE DEF frame
  <2>4. Length(r)' = Len(Elements[Root]) /\ Cursor(r, 0)' = Cut(Root)[1 + 0] /\ Called(r)' = 0
    BY <2>1, <2>2, <2>3 DEF Length, Cursor, Called
  <2>5. Cursor(r, 0)' = 0 /\ 1 <= Len(Elements[Root]) + 1
    <3>1. Len(Elements[Root]) \in Nat /\ Cut(Root)[1] = 0 /\ 1 + 0 = 1
      BY Cuts, ChainAssumption
    <3> QED
      BY <2>4, <3>1
  <2>6. Reached(<<frame>>, 0, 0)
    <3>1. <<frame>> \in Seq(Frame) /\ Len(<<frame>>) = 1 /\ <<frame>>[1].chain = Root /\ 0 \in Nat
      BY <2>2
    <3> QED
      BY <3>1, ReachedOne, Zenon
  <2> QED
    BY <2>1, <2>2, <2>3, <2>4, <2>5, <2>6 DEF Placed
<1>2. CASE LoopEnd(r)
  BY <1>2, LoopEndPlaced
<1>3. CASE ContextDone(r) \/ Fail(r)
  <2>1. /\ ret'[r].kind # "result" /\ pc'[r] \in {"forge", "returned"}
    <3>1. CASE ContextDone(r)
      BY <3>1 DEF ContextDone, ReturnFrom
    <3>2. CASE Fail(r)
      BY <3>2 DEF Fail, ReturnFrom
    <3> QED
      BY <1>3, <3>1, <3>2
  <2>2. pc'[r] = "returned" => Decided(r)'
    BY <2>1 DEF Decided
  <2> QED
    BY <2>1, <2>2 DEF Placed
<1>4. CASE Proceed(r)
  <2>1. Top(r)' = Top(r) /\ stack' = stack /\ hist' = hist /\ pc'[r] = "call" /\ pc[r] = "select"
    BY <1>4 DEF Proceed, Top
  <2>2. Length(r)' = Length(r) /\ Cursor(r, 0)' = Cursor(r, 0) /\ Called(r)' = Called(r)
    BY <2>1 DEF Length, Cursor, Called
  <2> QED
    BY <2>1, <2>2 DEF Placed
<1>5. CASE CallMutator(r)
  <2>1. /\ stack[r] \in Seq(Frame) /\ stack[r] # <<>> /\ Top(r) = Last(stack[r])
        /\ Cursor(r, 0) = Cut(Top(r).chain)[Top(r).i]
    BY <1>5, CursorFacts DEF CallMutator
  <2>2. /\ Top(r).i <= Length(r) /\ Element(r) \in Mutators
        /\ Reached(stack[r], Cut(Top(r).chain)[Top(r).i], Called(r))
    BY <1>5, <2>1 DEF CallMutator, Control, Placed, More, Length
  <2>3. /\ Called(r) \in Nat /\ Leaves[Root][Called(r) + 1] = Element(r)
        /\ Reached(stack[r], Cut(Top(r).chain)[Top(r).i + 1], Called(r) + 1)
    BY <2>1, <2>2, ReachedNext DEF Element, Length
  <2>4. hist'[r].calls = Append(hist[r].calls, Element(r))
    BY <1>5 DEF CallMutator, History
  <2>5. Called(r)' = Called(r) + 1
    <3>1. hist[r].calls \in Seq(Mutators)
      BY DEF History
    <3> QED
      BY <2>2, <2>4, <3>1, AppendProperties DEF Called
  <2>6. /\ stack' = stack /\ pc'[r] = "mutator"
    BY <1>5 DEF CallMutator
  <2>7. Top(r)' = Top(r)
    BY <2>6 DEF Top
  <2>8. Element(r)' = Element(r) /\ Cursor(r, 1)' = Cut(Top(r).chain)[Top(r).i + 1]
    BY <2>7 DEF Element, Cursor
  <2> QED
    BY <2>3, <2>5, <2>6, <2>8 DEF Placed
<1>6. CASE CallChain(r)
  <2> DEFINE frame == NewFrame(Element(r), Top(r).obj)
  <2>1. /\ stack[r] \in Seq(Frame) /\ stack[r] # <<>> /\ Top(r) = Last(stack[r])
        /\ Cursor(r, 0) = Cut(Top(r).chain)[Top(r).i] /\ Top(r) \in Frame
    BY <1>6, CursorFacts DEF CallChain
  <2>2. /\ Top(r).i <= Length(r) /\ Element(r) \in Chains
        /\ Reached(stack[r], Cut(Top(r).chain)[Top(r).i], Called(r))
    BY <1>6, <2>1 DEF CallChain, Control, Placed, More, Length
  <2>3. frame \in Frame /\ frame.chain = Element(r) /\ frame.i = 1
    BY <2>1, <2>2 DEF NewFrame, Frame, Seen
  <2>4. stack'[r] = Append(stack[r], frame) /\ pc'[r] = "select" /\ hist' = hist
    BY <1>6 DEF CallChain
  <2> HIDE DEF frame
  <2>5. Reached(Append(stack[r], frame), 0, Called(r))
    BY <2>1, <2>2, <2>3, ReachedPush DEF Element, Length
  <2>6. Top(r)' = frame
    BY <2>1, <2>3, <2>4, Stacks DEF Top
  <2>7. /\ Length(r)' = Len(Elements[Element(r)]) /\ Cursor(r, 0)' = Cut(Element(r))[1 + 0]
        /\ Called(r)' = Called(r)
    BY <2>3, <2>4, <2>6 DEF Length, Cursor, Called
  <2>8. Cursor(r, 0)' = 0 /\ 1 <= Len(Elements[Element(r)]) + 1
    <3>1. Len(Elements[Element(r)]) \in Nat /\ Cut(Element(r))[1] = 0 /\ 1 + 0 = 1
      BY <2>2, Cuts
    <3> QED
      BY <2>7, <3>1
  <2> QED
    BY <2>3, <2>4, <2>5, <2>6, <2>7, <2>8 DEF Placed
<1>7. CASE Stop(r)
  <2>1. pc'[r] \in {"writeLen", "writeData"}
    BY <1>7 DEF Stop
  <2> QED
    BY <2>1 DEF Placed
<1>8. CASE StopReturn(r)
  <2>1. /\ ret'[r].kind = "result" /\ ret'[r].ref = ret[r].ref /\ pc'[r] \in {"forge", "returned"}
        /\ pc[r] \in {"writeLen", "writeData"}
    BY <1>8 DEF StopReturn, ReturnFrom
  <2>2. Writes(r) /\ ret[r].ref \in {r} \cup Static
    BY DEF ThreadedInv, Threaded, Control
  <2>3. Ruling(heap'[ret[r].ref]) = Ruling(heap[ret[r].ref])
    <3>1. heap[ret[r].ref] \in Cell /\ ret[r].ref \in Pointers
      BY <2>2 DEF Pointers
    <3>2. \/ heap'[ret[r].ref] = [heap[ret[r].ref] EXCEPT !.len = Len(Top(r).warnings)]
          \/ heap'[ret[r].ref] = [heap[ret[r].ref] EXCEPT !.data = Top(r).warnings]
      BY <1>8, <3>1 DEF StopReturn, ReturnFrom
    <3> QED
      BY <3>1, <3>2 DEF Cell, Ruling
  <2>4. heap'[ret'[r].ref].stop
    BY <2>1, <2>2, <2>3, SameRuling DEF Writes, Given
  <2>5. pc'[r] = "returned" => Decided(r)'
    BY <2>4 DEF Decided, Given
  <2> QED
    BY <2>1, <2>5 DEF Placed
<1>9. CASE Continue(r)
  <2> DEFINE frame == [Top(r) EXCEPT !.i = @ + 1, !.obj = Carried(r), !.warnings = Gathered(r)]
  <2>1. /\ stack[r] \in Seq(Frame) /\ stack[r] # <<>> /\ Top(r) = Last(stack[r])
        /\ Top(r) \in Frame /\ Top(r).i \in Nat \ {0} /\ Length(r) \in Nat
    BY <1>9, CursorFacts DEF Continue
  <2>2. Gathered(r) \in Seen /\ Carried(r) \in Objects
    BY <1>9, GatheredType DEF Continue
  <2>3. frame \in Frame /\ frame.chain = Top(r).chain /\ frame.i = Top(r).i + 1
    <3>1. Top(r).i + 1 \in Nat \ {0}
      BY <2>1
    <3> QED
      BY <2>1, <2>2, <3>1 DEF Frame
  <2>4. stack'[r] = Append(Front(stack[r]), frame) /\ pc'[r] = "select" /\ hist' = hist
    BY <1>9 DEF Continue
  <2> HIDE DEF frame
  <2>5. Top(r).i <= Length(r) /\ Reached(stack[r], Cursor(r, 1), Called(r))
    BY <1>9 DEF Continue, Placed, Decided
  <2>6. Reached(Append(Front(stack[r]), frame), Cursor(r, 1), Called(r))
    BY <2>1, <2>3, <2>5, ReachedChange
  <2>7. Top(r)' = frame
    BY <2>1, <2>3, <2>4, Stacks DEF Top
  <2>8. /\ Length(r)' = Length(r) /\ Cursor(r, 0)' = Cut(Top(r).chain)[Top(r).i + 1 + 0]
        /\ Called(r)' = Called(r)
    BY <2>3, <2>4, <2>7 DEF Length, Cursor, Called
  <2>9. Cursor(r, 0)' = Cursor(r, 1) /\ frame.i <= Length(r) + 1
    <3>1. Top(r).i + 1 + 0 = Top(r).i + 1
      BY <2>1
    <3>2. frame.i <= Length(r) + 1
      BY <2>1, <2>3, <2>5
    <3> QED
      BY <2>8, <3>1, <3>2 DEF Cursor
  <2> QED
    BY <2>4, <2>6, <2>7, <2>8, <2>9 DEF Placed
<1>10. CASE Forge(r)
  BY <1>10 DEF Forge, Placed
<1> QED
  BY <1>1, <1>2, <1>3, <1>4, <1>5, <1>6, <1>7, <1>8, <1>9, <1>10 DEF ChainStep

LEMMA MutatorStepPlaced ==
  ASSUME TypeInv, NEW r \in Requests, Placed(r), MutatorStep(r)
  PROVE  Placed(r)'
<1> USE DEF TypeInv, TypeOK, Goto
<1>1. CASE MutatorFails(r)
  <2>1. ret'[r].kind # "result" /\ pc'[r] = "returned"
    BY <1>1 DEF MutatorFails
  <2>2. Decided(r)'
    BY <2>1 DEF Decided
  <2> QED
    BY <2>1, <2>2 DEF Placed
<1>2. CASE MutatorReturns(r)
  <2>1. pc[r] = "mutator" /\ pc'[r] = "returned" /\ stack' = stack
    BY <1>2 DEF MutatorReturns
  <2>2. Called(r)' = Called(r)
    BY <1>2 DEF MutatorReturns, Called, History
  <2>3. Top(r)' = Top(r)
    BY <2>1 DEF Top
  <2>4. Length(r)' = Length(r) /\ Cursor(r, 1)' = Cursor(r, 1)
    BY <2>3 DEF Length, Cursor
  <2>5. Top(r).i <= Length(r)
    BY <2>1 DEF Control, More, Length
  <2> QED
    BY <2>1, <2>2, <2>3, <2>4, <2>5 DEF Placed
<1>3. CASE MutatorPanics(r)
  BY <1>3 DEF MutatorPanics, Placed
<1> QED
  BY <1>1, <1>2, <1>3 DEF MutatorStep

PlacedInv == \A q \in Requests : Placed(q)

LEMMA NextPlaced ==
  ASSUME TypeInv, ThreadedInv, PlacedInv, [Next]_vars
  PROVE  PlacedInv'
<1> USE DEF PlacedInv
<1>1. CASE UNCHANGED vars
  BY <1>1, PlacedKept DEF vars, TypeInv
<1>2. ASSUME NEW r \in Requests, ChainStep(r) \/ MutatorStep(r) \/ Cancel(r) PROVE PlacedInv'
  <2>1. HeapStep(r)
    BY <1>2, EveryHeapStep DEF ThreadedInv, Threaded
  <2>2. Placed(r)'
    <3>1. CASE Cancel(r)
      BY <3>1, PlacedKept DEF Cancel, TypeInv
    <3> QED
      BY <1>2, <3>1, ChainStepPlaced, MutatorStepPlaced
  <2>3. ASSUME NEW q \in Requests, q # r PROVE Placed(q)'
    BY <1>2, <2>1, <2>3, OnlyOwnState, PlacedKept DEF TypeInv, HeapStep
  <2> QED
    BY <2>2, <2>3
<1> QED
  BY <1>1, <1>2 DEF Next, AllDone

LEMMA PlacedInvariant == Spec => []PlacedInv
<1>1. Init => PlacedInv
  BY DEF Init, PlacedInv, Placed
<1> QED
  BY <1>1, NextPlaced, ThreadedInvariant, PTL DEF Spec

-----------------------------------------------------------------------------
(* What the way through the sequence says of an answer.                    *)

(* The mutator that is called next.                                        *)
LEMMA NextLeaf ==
  ASSUME TypeInv, NEW r \in Requests, Placed(r), CallMutator(r)
  PROVE  Called(r) < Len(Leaves[Root]) /\ Leaves[Root][Called(r) + 1] = Element(r)
<1>1. pc[r] = "call"
  BY DEF CallMutator
<1>2. /\ stack[r] \in Seq(Frame) /\ stack[r] # <<>> /\ Top(r) = Last(stack[r])
      /\ Cursor(r, 0) = Cut(Top(r).chain)[Top(r).i]
  BY <1>1, CursorFacts
<1>3. /\ Top(r).i <= Length(r) /\ Element(r) \in Mutators
      /\ Reached(stack[r], Cut(Top(r).chain)[Top(r).i], Called(r))
  BY <1>1, <1>2 DEF CallMutator, TypeInv, Control, More, Length, Placed
<1> QED
  BY <1>2, <1>3, ReachedNext DEF Element, Length

(* The root chain ends when the whole sequence has run.                    *)
LEMMA RootEnds ==
  ASSUME TypeInv, NEW r \in Requests, Placed(r), LoopEnd(r), Len(stack[r]) = 1
  PROVE  Called(r) = Len(Leaves[Root])
<1>1. Reached(stack[r], Len(Leaves[Top(r).chain]), Called(r))
  BY LoopEndPlaced
<1>2. /\ stack[r] \in Seq(Frame) /\ stack[r] # <<>> /\ Top(r) = Last(stack[r])
      /\ Top(r).chain \in Chains
  BY CursorFacts DEF LoopEnd
<1>3. Top(r) = stack[r][1]
  BY <1>2, StackPlaces DEF Last
<1>4. stack[r][1].chain = Root
  BY <1>1 DEF Reached, Behind
<1>5. Len(Leaves[Root]) \in Nat
  BY Cuts, ChainAssumption
<1>6. Reached(stack[r], Len(Leaves[Root]), Called(r))
  BY <1>1, <1>3, <1>4
<1> QED
  BY <1>2, <1>4, <1>5, <1>6, ReachedOne

(* What the result another review holds says stays.                        *)
LEMMA OthersGiven ==
  ASSUME TypeInv, ThreadedInv, NEW r \in Requests,
         Cancel(r) \/ ChainStep(r) \/ MutatorStep(r), NEW q \in Requests, q # r
  PROVE  ret'[q] = ret[q] /\ Given(q)'.stop = Given(q).stop /\ Given(q)'.obj = Given(q).obj
<1>1. ret'[q] = ret[q]
  BY OnlyOwnState
<1>2. HeapStep(r)
  BY EveryHeapStep DEF ThreadedInv, Threaded
<1>3. ret[q].ref = q \/ ret[q].ref \in Static
  BY DEF TypeInv, Control
<1>4. Ruling(heap'[ret[q].ref]) = Ruling(heap[ret[q].ref])
  BY <1>2, <1>3 DEF HeapStep
<1>5. Given(q)' = heap'[ret[q].ref]
  BY <1>1 DEF Given
<1> QED
  BY <1>1, <1>4, <1>5, SameRuling DEF Given

(* The calls are the beginning of the sequence, all of it when a result    *)
(* that does not stop is what the root chain returns.                      *)
Ordered(q) ==
  /\ Called(q) <= Len(Leaves[Root])
  /\ \A k \in 1..Called(q) : hist[q].calls[k] = Leaves[Root][k]

Completed(q) ==
  \/ pc[q] = "forge" /\ ret[q].kind = "result" /\ ~Given(q).stop
  \/ answer[q].kind = "result" /\ ~answer[q].stop
  => Called(q) = Len(Leaves[Root])

RunInv == \A q \in Requests : Ordered(q) /\ Completed(q)

LEMMA CallRuns ==
  ASSUME TypeInv, ThreadedInv, PlacedInv, RunInv, NEW r \in Requests, CallMutator(r)
  PROVE  Ordered(r)' /\ Completed(r)'
<1>1. pc[r] = "call" /\ pc'[r] = "mutator" /\ answer' = answer
  BY DEF CallMutator, Goto, TypeInv, TypeOK
<1>2. Called(r) < Len(Leaves[Root]) /\ Leaves[Root][Called(r) + 1] = Element(r)
  BY NextLeaf DEF PlacedInv
<1>3. hist'[r].calls = Append(hist[r].calls, Element(r))
  BY DEF CallMutator, TypeInv, TypeOK, History
<1>4. hist[r].calls \in Seq(Mutators) /\ Len(Leaves[Root]) \in Nat
  BY Cuts, ChainAssumption DEF TypeInv, TypeOK, History
<1>5. /\ Called(r) \in Nat /\ Called(r)' = Called(r) + 1
      /\ hist'[r].calls[Called(r) + 1] = Element(r)
      /\ \A k \in 1..Called(r) : hist'[r].calls[k] = hist[r].calls[k]
  BY <1>3, <1>4, LenProperties, AppendProperties DEF Called
<1>6. Ordered(r) /\ answer[r].kind # "result"
  BY <1>1 DEF RunInv, ThreadedInv, Threaded
<1>7. Ordered(r)'
  BY <1>2, <1>4, <1>5, <1>6 DEF Ordered
<1>8. Completed(r)'
  BY <1>1, <1>6 DEF Completed
<1> QED
  BY <1>7, <1>8

(* Writing warnings to a result changes nothing else in it.                *)
LEMMA WritingKeepsRuling ==
  ASSUME TypeInv, NEW r \in Requests, Stop(r) \/ StopReturn(r)
  PROVE  Ruling(heap'[ret[r].ref]) = Ruling(heap[ret[r].ref])
<1> DEFINE ref == ret[r].ref
<1>1. ref \in Pointers /\ heap[ref] \in Cell
  BY DEF TypeInv, TypeOK, Return
<1>2. \E data, len : \/ heap'[ref] = [heap[ref] EXCEPT !.data = data]
                     \/ heap'[ref] = [heap[ref] EXCEPT !.len = len]
  <2>1. ASSUME NEW data, NEW len, heap' = [heap EXCEPT ![ref].data = data]
                                    \/ heap' = [heap EXCEPT ![ref].len = len]
        PROVE  \/ heap'[ref] = [heap[ref] EXCEPT !.data = data]
               \/ heap'[ref] = [heap[ref] EXCEPT !.len = len]
    BY <1>1, <2>1 DEF TypeInv, TypeOK
  <2>2. \E data, len : \/ heap' = [heap EXCEPT ![ref].data = data]
                       \/ heap' = [heap EXCEPT ![ref].len = len]
    BY DEF Stop, StopReturn, ReturnFrom
  <2> QED
    BY <2>1, <2>2
<1> QED
  BY <1>1, <1>2 DEF Cell, Ruling

(* Any other step calls nothing, and ends a review at the end of the root  *)
(* chain, with a stop, or without a result.                                *)
LEMMA QuietRuns ==
  ASSUME TypeInv, ThreadedInv, PlacedInv, RunInv, NEW r \in Requests,
         Cancel(r) \/ ChainStep(r) \/ MutatorStep(r), ~CallMutator(r)
  PROVE  Ordered(r)' /\ Completed(r)'
<1> USE DEF TypeInv, TypeOK, Goto
<1>1. hist'[r].calls = hist[r].calls
  <2>1. CASE MutatorReturns(r)
    BY <2>1 DEF MutatorReturns, History
  <2>2. CASE ~MutatorReturns(r)
    <3>1. hist' = hist
      BY <2>2 DEF ChainStep, MutatorStep, Cancel, Start, LoopEnd, ContextDone, Proceed, CallChain,
                  Fail, Stop, StopReturn, Continue, Forge, MutatorFails, MutatorPanics, ReturnFrom
    <3> QED
      BY <3>1
  <2> QED
    BY <2>1, <2>2
<1>2. Called(r)' = Called(r) /\ Ordered(r) /\ Completed(r) /\ Threaded(r)
  BY <1>1 DEF Called, RunInv, ThreadedInv
<1>3. Ordered(r)'
  BY <1>1, <1>2 DEF Ordered
<1>4. ASSUME answer'[r].kind # "result", pc'[r] # "forge" \/ ret'[r].kind # "result"
      PROVE  Completed(r)'
  BY <1>4 DEF Completed
<1>5. CASE Start(r) \/ Proceed(r) \/ CallChain(r) \/ Continue(r)
           \/ MutatorFails(r) \/ MutatorReturns(r) \/ Stop(r)
  <2>1. answer'[r] = answer[r] /\ pc[r] # "done" /\ pc'[r] # "forge"
    BY <1>5 DEF Start, Proceed, CallChain, Continue, MutatorFails, MutatorReturns, Stop
  <2> QED
    BY <1>2, <1>3, <1>4, <2>1 DEF Threaded
<1>6. CASE ContextDone(r) \/ Fail(r)
  <2>1. answer'[r] = answer[r] /\ pc[r] # "done" /\ ret'[r].kind # "result"
    BY <1>6 DEF ContextDone, Fail, ReturnFrom
  <2> QED
    BY <1>2, <1>3, <1>4, <2>1 DEF Threaded
<1>7. CASE MutatorPanics(r)
  <2>1. answer'[r].kind = "panic" /\ pc'[r] = "done"
    BY <1>7 DEF MutatorPanics, NoAnswer
  <2> QED
    BY <1>3, <1>4, <2>1
<1>8. CASE LoopEnd(r)
  <2>1. /\ answer'[r] = answer[r] /\ answer[r].kind # "result"
        /\ pc'[r] = IF Len(stack[r]) = 1 THEN "forge" ELSE "returned"
    BY <1>2, <1>8 DEF LoopEnd, ReturnFrom, Threaded
  <2>2. Len(stack[r]) = 1 => Called(r) = Len(Leaves[Root])
    BY <1>8, RootEnds DEF PlacedInv
  <2> QED
    BY <1>2, <1>3, <2>1, <2>2 DEF Completed
<1>9. CASE StopReturn(r)
  <2>1. /\ pc[r] \in {"writeLen", "writeData"} /\ answer'[r] = answer[r]
        /\ answer[r].kind # "result"
    BY <1>2, <1>9 DEF StopReturn, ReturnFrom, Threaded
  <2>2. Given(r)'.stop
    <3>1. Given(r).stop /\ ret'[r].ref = ret[r].ref
      BY <1>2, <1>9, <2>1 DEF Threaded, Writes, StopReturn, ReturnFrom
    <3>2. Ruling(heap'[ret[r].ref]) = Ruling(heap[ret[r].ref])
      BY <1>9, WritingKeepsRuling
    <3> QED
      BY <3>1, <3>2, SameRuling DEF Given
  <2> QED
    BY <1>3, <2>1, <2>2 DEF Completed
<1>10. CASE Forge(r)
  <2>1. pc[r] = "forge" /\ pc'[r] = "done"
    BY <1>10 DEF Forge
  <2>2. answer'[r].kind = "result" /\ ~answer'[r].stop => ret[r].kind = "result" /\ ~Given(r).stop
    BY <1>10 DEF Forge, NoAnswer
  <2> QED
    BY <1>2, <1>3, <2>1, <2>2 DEF Completed
<1>11. CASE Cancel(r)
  <2>1. UNCHANGED <<pc, ret, heap, answer, hist>>
    BY <1>11 DEF Cancel
  <2> QED
    BY <1>2, <1>3, <2>1 DEF Completed, Given
<1> QED
  BY <1>3, <1>5, <1>6, <1>7, <1>8, <1>9, <1>10, <1>11 DEF ChainStep, MutatorStep

LEMMA NextRunInv ==
  ASSUME TypeInv, ThreadedInv, PlacedInv, RunInv, [Next]_vars
  PROVE  RunInv'
<1>1. CASE UNCHANGED vars
  BY <1>1 DEF vars, RunInv, Ordered, Completed, Called, Given
<1>2. ASSUME NEW r \in Requests, Cancel(r) \/ ChainStep(r) \/ MutatorStep(r) PROVE RunInv'
  <2>1. Ordered(r)' /\ Completed(r)'
    BY <1>2, CallRuns, QuietRuns
  <2>2. ASSUME NEW q \in Requests, q # r PROVE Ordered(q)' /\ Completed(q)'
    <3>1. /\ pc'[q] = pc[q] /\ answer'[q] = answer[q] /\ hist'[q] = hist[q]
          /\ ret'[q] = ret[q] /\ Given(q)'.stop = Given(q).stop
      BY <1>2, <2>2, OnlyOwnState, OthersGiven
    <3>2. Ordered(q) /\ Completed(q)
      BY DEF RunInv
    <3> QED
      BY <3>1, <3>2 DEF Ordered, Completed, Called
  <2> QED
    BY <2>1, <2>2 DEF RunInv
<1> QED
  BY <1>1, <1>2 DEF Next, AllDone

LEMMA RunInvariant == Spec => []RunInv
<1>1. Init => RunInv
  <2> SUFFICES ASSUME Init, NEW q \in Requests PROVE Ordered(q) /\ Completed(q)
    BY DEF RunInv
  <2>1. hist[q].calls = <<>> /\ answer[q].kind = "none" /\ pc[q] = "idle"
    BY DEF Init, NoAnswer
  <2>2. Called(q) = 0 /\ Len(Leaves[Root]) \in Nat
    BY <2>1, Cuts, ChainAssumption DEF Called
  <2> QED
    BY <2>1, <2>2 DEF Ordered, Completed
<1>2. TypeInv /\ ThreadedInv /\ PlacedInv /\ RunInv /\ [Next]_vars => RunInv'
  BY NextRunInv
<1> QED
  BY <1>1, <1>2, ThreadedInvariant, PlacedInvariant, PTL DEF Spec

(* Every mutator works on the object the previous ones left, and a chain   *)
(* that is not stopped has run all of its mutators and returns that object,*)
(* whatever the chains are nested in and whatever other reviews do         *)
(* (mutator.go:66-98).                                                     *)
THEOREM ObjectNeverLost == Spec => []ObjectThreaded
<1>1. TypeInv /\ ThreadedInv /\ RunInv => ObjectThreaded
  <2> SUFFICES ASSUME TypeInv, ThreadedInv, RunInv, NEW r \in Requests,
                      answer[r].kind = "result", ~answer[r].stop
               PROVE  hist[r].calls = Leaves[Root]
    BY DEF ThreadedInv, Threaded, ObjectThreaded
  <2>1. hist[r].calls \in Seq(Mutators) /\ Leaves[Root] \in Seq(Mutators)
    BY LeavesAssumption, ChainAssumption DEF TypeInv, TypeOK, History
  <2>2. Ordered(r) /\ Completed(r)
    BY DEF RunInv
  <2>3. /\ Len(hist[r].calls) = Len(Leaves[Root])
        /\ \A k \in 1..Len(hist[r].calls) : hist[r].calls[k] = Leaves[Root][k]
    BY <2>2 DEF Ordered, Completed, Called
  <2> QED
    BY <2>1, <2>3, SeqEqual
<1> QED
  BY <1>1, ThreadedInvariant, RunInvariant, PTL

-----------------------------------------------------------------------------
(* MutatorChain implements MutationReview.  What the refinement makes      *)
(* of a review, place by place.                                            *)
PhaseIs(q) ==
  /\ pc[q] = "idle" => Phase(q) = "idle"
  /\ pc[q] = "mutator" => Phase(q) = "running"
  /\ pc[q] = "done" => Phase(q) = "answered"
  /\ pc[q] \in {"select", "call", "returned", "writeLen", "writeData", "forge"} =>
       Phase(q) = IF Decided(q) THEN "answered" ELSE "ready"

Spoken(kind, stop, o) ==
  [kind |-> kind,
   stop |-> kind = "result" /\ stop,
   obj  |-> IF kind = "result" THEN o ELSE Nil]

(* The outcome of a review that ended with a result.                       *)
Ended(stop, o) == [kind |-> "result", stop |-> stop, obj |-> o]

GivenTo(q) == IF pc[q] = "mutator" THEN Top(q).obj ELSE Nil

VerdictIs(q) ==
  /\ ~Decided(q) => Verdict(q) = Spoken(answer[q].kind, answer[q].stop, answer[q].obj)
  /\ Decided(q) =>
       /\ ret[q].kind = "nil" => Verdict(q) = Review!Outcome("nilError")
       /\ ret[q].kind = "result" =>
            Verdict(q) = Spoken("result", heap[ret[q].ref].stop, heap[ret[q].ref].obj)
       /\ ret[q].kind \notin {"nil", "result"} => Verdict(q) = Review!Outcome(ret[q].kind)

LEMMA SpokenFailure ==
  ASSUME NEW kind, kind # "result", NEW stop, NEW o
  PROVE  Spoken(kind, stop, o) = Review!Outcome(kind)
<1>1. (kind = "result" /\ stop) = FALSE
  OBVIOUS
<1> QED
  BY <1>1, Zenon DEF Spoken, Review!Outcome

LEMMA SpokenResult ==
  ASSUME NEW stop \in BOOLEAN, NEW o
  PROVE  Spoken("result", stop, o) = Ended(stop, o)
<1>1. ("result" = "result" /\ stop) = stop
  OBVIOUS
<1> QED
  BY <1>1, Zenon DEF Spoken, Ended

LEMMA PhaseCases == ASSUME NEW q \in Requests PROVE PhaseIs(q)
<1>1. CASE pc[q] = "idle"
  BY <1>1, Zenon DEF PhaseIs, Phase
<1>2. CASE pc[q] = "mutator"
  <2>1. pc[q] # "idle"
    BY <1>2
  <2> QED
    BY <1>2, <2>1, Zenon DEF PhaseIs, Phase
<1>3. CASE pc[q] = "done"
  <2>1. pc[q] # "idle" /\ pc[q] # "mutator"
    BY <1>3
  <2> QED
    BY <1>3, <2>1, Zenon DEF PhaseIs, Phase
<1>4. CASE pc[q] \notin {"idle", "mutator", "done"}
  <2>1. pc[q] # "idle" /\ pc[q] # "mutator" /\ pc[q] # "done"
    BY <1>4
  <2>2. Phase(q) = IF Decided(q) THEN "answered" ELSE "ready"
    BY <2>1, Zenon DEF Phase
  <2> QED
    BY <2>1, <2>2, Zenon DEF PhaseIs
<1> QED
  BY <1>1, <1>2, <1>3, <1>4

LEMMA VerdictCases == ASSUME NEW q \in Requests PROVE VerdictIs(q)
<1>1. CASE ~Decided(q)
  BY <1>1, Zenon DEF VerdictIs, Verdict, Spoken
<1>2. CASE Decided(q) /\ ret[q].kind = "nil"
  <2>1. "nilError" # "result" /\ ret[q].kind # "result"
    BY <1>2
  <2>2. Verdict(q) = Spoken("nilError", answer[q].stop, answer[q].obj)
    BY <1>2, <2>1, Zenon DEF Verdict, Spoken
  <2>3. Verdict(q) = Review!Outcome("nilError")
    BY <2>1, <2>2, SpokenFailure, Zenon
  <2> QED
    BY <1>2, <2>1, <2>3, Zenon DEF VerdictIs
<1>3. CASE Decided(q) /\ ret[q].kind = "result"
  <2>1. ret[q].kind # "nil"
    BY <1>3
  <2>2. Verdict(q) = Spoken("result", heap[ret[q].ref].stop, heap[ret[q].ref].obj)
    BY <1>3, <2>1, Zenon DEF Verdict, Spoken, Given
  <2>3. "result" \in {"nil", "result"}
    OBVIOUS
  <2> QED
    BY <1>3, <2>1, <2>2, <2>3, Zenon DEF VerdictIs
<1>4. CASE Decided(q) /\ ret[q].kind \notin {"nil", "result"}
  <2>1. ret[q].kind # "nil" /\ ret[q].kind # "result"
    BY <1>4
  <2>2. Verdict(q) = Spoken(ret[q].kind, answer[q].stop, answer[q].obj)
    BY <1>4, <2>1, Zenon DEF Verdict, Spoken
  <2>3. Verdict(q) = Review!Outcome(ret[q].kind)
    BY <2>1, <2>2, SpokenFailure, Zenon
  <2> QED
    BY <1>4, <2>1, <2>3, Zenon DEF VerdictIs
<1> QED
  BY <1>1, <1>2, <1>3, <1>4

LEMMA PrimedCases ==
  ASSUME NEW q \in Requests
  PROVE  PhaseIs(q)' /\ VerdictIs(q)'
BY PhaseCases, VerdictCases, PTL

Places == {"idle", "select", "call", "mutator", "returned",
           "writeLen", "writeData", "forge", "done"}

(* A review is seen the same while its ruling and its place are the same.  *)
Alike(q) == Phase(q)' = Phase(q) /\ Verdict(q)' = Verdict(q) /\ GivenTo(q)' = GivenTo(q)

LEMMA SameView ==
  ASSUME NEW q \in Requests, pc[q] \in Places, pc'[q] = pc[q], ret'[q] = ret[q],
         answer'[q] = answer[q], stack'[q] = stack[q],
         Ruling(heap'[ret[q].ref]) = Ruling(heap[ret[q].ref])
  PROVE  Alike(q)
<1>1. heap'[ret[q].ref].stop = heap[ret[q].ref].stop
  BY SameRuling
<1>2. Decided(q)' <=> Decided(q)
  BY <1>1 DEF Decided, Given
<1>3. PhaseIs(q) /\ PhaseIs(q)' /\ VerdictIs(q) /\ VerdictIs(q)'
  BY PhaseCases, VerdictCases, PrimedCases
<1>4. Phase(q)' = Phase(q)
  BY <1>2, <1>3 DEF PhaseIs, Places
<1>5. /\ heap'[ret[q].ref].stop = heap[ret[q].ref].stop
      /\ heap'[ret[q].ref].obj = heap[ret[q].ref].obj
  BY DEF Ruling
<1>6. Verdict(q)' = Verdict(q)
  BY <1>2, <1>3, <1>5 DEF VerdictIs
<1>7. GivenTo(q)' = GivenTo(q)
  BY DEF GivenTo, Top
<1> QED
  BY <1>4, <1>6, <1>7 DEF Alike

(* What a step of one review leaves of the others, seen from above.        *)
LEMMA OthersUnseen ==
  ASSUME TypeInv, ThreadedInv, NEW r \in Requests, ChainStep(r) \/ MutatorStep(r) \/ Cancel(r),
         NEW q \in Requests, q # r
  PROVE  Alike(q)
<1>1. pc'[q] = pc[q] /\ ret'[q] = ret[q] /\ answer'[q] = answer[q] /\ stack'[q] = stack[q]
  BY OnlyOwnState
<1>2. pc[q] \in Places /\ ret[q].ref \in {q} \cup Static
  BY DEF TypeInv, TypeOK, Control, Places
<1>3. HeapStep(r)
  BY EveryHeapStep DEF ThreadedInv, Threaded
<1>4. Ruling(heap'[ret[q].ref]) = Ruling(heap[ret[q].ref])
  <2>1. CASE ret[q].ref = q
    BY <1>3, <2>1 DEF HeapStep
  <2>2. CASE ret[q].ref \in Static
    BY <1>3, <2>2 DEF HeapStep
  <2> QED
    BY <1>2, <2>1, <2>2
<1> QED
  BY <1>1, <1>2, <1>4, SameView

(* The own view of a step: nothing, or one of the steps of MutationReview. *)
Sees(r, phase, verdict) ==
  Phase(r)' = phase /\ Verdict(r)' = verdict /\ GivenTo(r)' = Nil

SameCalls == \A q \in Requests : /\ hist'[q].calls = hist[q].calls
                                 /\ hist'[q].late = hist[q].late

Unnoticed(r) == /\ Sees(r, Phase(r), Verdict(r)) /\ GivenTo(r) = Nil
                /\ ctxDone' = ctxDone /\ hist' = hist

LEMMA UnnoticedSteps ==
  ASSUME NEW r \in Requests, Unnoticed(r), \A q \in Requests : q # r => Alike(q)
  PROVE  UNCHANGED Review!vars
<1>1. \A q \in Requests : Alike(q)
  BY DEF Unnoticed, Sees, Alike
<1> QED
  BY <1>1 DEF Unnoticed, Alike, GivenTo, Review!vars

LEMMA Decides ==
  ASSUME NEW r \in Requests, NEW outcome, Sees(r, "answered", outcome),
         \A q \in Requests : q # r => Alike(q), ctxDone' = ctxDone, SameCalls
  PROVE  Review!Decide(r, outcome)
BY DEF Review!Decide, Sees, SameCalls, Alike, GivenTo

LEMMA StartBegins ==
  ASSUME TypeInv, ThreadedInv, NEW r \in Requests, Start(r)
  PROVE  Review!Begin(r)
<1>1. PhaseIs(r) /\ PhaseIs(r)' /\ VerdictIs(r) /\ VerdictIs(r)'
  BY PhaseCases, VerdictCases, PrimedCases
<1>2. pc[r] = "idle" /\ pc'[r] = "select" /\ answer' = answer /\ hist' = hist /\ ctxDone' = ctxDone
  BY DEF Start, Goto, TypeInv, TypeOK
<1>3. ~Decided(r) /\ ~Decided(r)'
  BY <1>2 DEF Decided
<1>4. /\ Phase(r) = "idle" /\ Phase(r)' = "ready" /\ Verdict(r)' = Verdict(r)
      /\ GivenTo(r)' = GivenTo(r)
  BY <1>1, <1>2, <1>3 DEF PhaseIs, VerdictIs, GivenTo
<1>5. \A q \in Requests : q # r => Alike(q)
  BY OthersUnseen DEF ChainStep
<1> QED
  BY <1>2, <1>4, <1>5 DEF Review!Begin, Alike, GivenTo

(* Calls, as the sequence of the root has them.                            *)
LEMMA CallsNext ==
  ASSUME TypeInv, ThreadedInv, LateInv, PlacedInv, NEW r \in Requests, CallMutator(r)
  PROVE  Review!Call(r)
<1>1. PhaseIs(r) /\ PhaseIs(r)' /\ VerdictIs(r) /\ VerdictIs(r)'
  BY PhaseCases, VerdictCases, PrimedCases
<1>2. /\ pc[r] = "call" /\ pc'[r] = "mutator" /\ answer' = answer /\ ctxDone' = ctxDone
      /\ stack' = stack /\ Top(r).obj = hist[r].obj
  BY DEF CallMutator, Goto, TypeInv, TypeOK, ThreadedInv, Threaded
<1>3. ~Decided(r) /\ ~Decided(r)'
  BY <1>2 DEF Decided
<1>4. /\ Phase(r) = "ready" /\ Phase(r)' = "running" /\ Verdict(r)' = Verdict(r)
      /\ GivenTo(r)' = hist[r].obj
  BY <1>1, <1>2, <1>3 DEF PhaseIs, VerdictIs, GivenTo, Top
<1>5. \A q \in Requests : q # r => Alike(q)
  BY OthersUnseen DEF ChainStep
<1>6. Called(r) < Len(Leaves[Root]) /\ Leaves[Root][Called(r) + 1] = Element(r)
  BY NextLeaf DEF PlacedInv
<1>7. hist[r].late = 0
  BY <1>2 DEF LateInv, Late
<1>8. /\ hist' = [hist EXCEPT ![r].calls = Append(hist[r].calls, Element(r)),
                              ![r].late = IF ctxDone[r] THEN 1 ELSE 0]
      /\ hist \in [Requests -> History]
  BY <1>7 DEF CallMutator, TypeInv, TypeOK
<1>9. /\ \A q \in Requests : q # r => hist'[q].calls = hist[q].calls /\ hist'[q].late = hist[q].late
      /\ hist'[r].calls = Append(hist[r].calls, Leaves[Root][Len(hist[r].calls) + 1])
      /\ hist'[r].late = IF ctxDone[r] THEN 1 ELSE 0
      /\ \A q \in Requests : hist'[q].obj = hist[q].obj
  BY <1>6, <1>8 DEF History, Called
<1> QED
  BY <1>2, <1>4, <1>5, <1>6, <1>7, <1>9 DEF Review!Call, Called, Alike, GivenTo

(* A nested chain that ends lets the one around it go on; the root decides *)
(* the review, when all of the sequence has run.                           *)
LEMMA LoopEndFinishes ==
  ASSUME TypeInv, ThreadedInv, PlacedInv, NEW r \in Requests, LoopEnd(r)
  PROVE  Unnoticed(r) \/ Review!Finish(r)
<1>1. PhaseIs(r) /\ PhaseIs(r)' /\ VerdictIs(r) /\ VerdictIs(r)'
  BY PhaseCases, VerdictCases, PrimedCases
<1>2. /\ pc[r] = "select" /\ ctxDone' = ctxDone /\ hist' = hist /\ answer' = answer
      /\ pc'[r] = IF Len(stack[r]) = 1 THEN "forge" ELSE "returned"
      /\ ret'[r] = [kind |-> "result", ref |-> r]
      /\ heap'[r] = CellOf(Passed(Top(r).obj, Top(r).warnings)) /\ Top(r).obj = hist[r].obj
  BY DEF LoopEnd, ReturnFrom, Goto, TypeInv, TypeOK, Pointers, ThreadedInv, Threaded
<1>3. /\ heap'[r].stop = FALSE /\ heap'[r].obj = hist[r].obj
      /\ ret'[r].kind = "result" /\ ret'[r].ref = r
  BY <1>2 DEF CellOf, Passed
<1>4. ~Decided(r) /\ Phase(r) = "ready" /\ GivenTo(r) = Nil /\ GivenTo(r)' = Nil
  BY <1>1, <1>2 DEF Decided, PhaseIs, GivenTo
<1>5. SameCalls
  BY <1>2 DEF SameCalls
<1>6. CASE Len(stack[r]) # 1
  <2>1. pc'[r] = "returned"
    BY <1>2, <1>6
  <2>2. ~Decided(r)'
    BY <1>3, <2>1 DEF Decided, Given
  <2>3. Phase(r)' = "ready" /\ Verdict(r)' = Verdict(r)
    BY <1>1, <1>2, <1>4, <2>1, <2>2 DEF PhaseIs, VerdictIs
  <2> QED
    BY <1>2, <1>4, <2>3 DEF Unnoticed, Sees
<1>7. CASE Len(stack[r]) = 1
  <2>1. pc'[r] = "forge"
    BY <1>2, <1>7
  <2>2. Decided(r)'
    BY <2>1 DEF Decided
  <2>3. Phase(r)' = "answered"
    BY <1>1, <2>1, <2>2 DEF PhaseIs
  <2>4. Verdict(r)' = Spoken("result", heap'[r].stop, heap'[r].obj)
    BY <1>1, <1>3, <2>2, Zenon DEF VerdictIs
  <2>5. Verdict(r)' = Ended(heap'[r].stop, heap'[r].obj)
    BY <1>3, <2>4, SpokenResult
  <2>6. Verdict(r)' = Ended(FALSE, hist[r].obj)
    BY <1>3, <2>5, Zenon
  <2>7. Len(hist[r].calls) = Len(Leaves[Root])
    BY <1>7, RootEnds DEF PlacedInv, Called
  <2>8. \A q \in Requests : q # r => Alike(q)
    BY OthersUnseen DEF ChainStep
  <2>9. PICK o : o = [q \in Requests |-> hist[q].obj][r]
    OBVIOUS
  <2> DEFINE outcome == [kind |-> "result", stop |-> FALSE, obj |-> o]
  <2>10. Verdict(r)' = outcome
    BY <2>6, <2>9 DEF Ended
  <2> HIDE DEF outcome
  <2>11. Review!Decide(r, outcome)
    <3>1. Sees(r, "answered", outcome)
      BY <1>4, <2>3, <2>10 DEF Sees
    <3>2. ctxDone' = ctxDone
      BY <1>2
    <3> QED
      BY <1>5, <2>8, <3>1, <3>2, Decides
  <2>12. [q \in Requests |-> Phase(q)][r] = "ready" /\ Len([q \in Requests |-> hist[q].calls][r]) = Len(Leaves[Root])
    BY <1>4, <2>7
  <2>13. [q \in Requests |-> hist[q].obj]' = [q \in Requests |-> hist[q].obj]
    BY <1>2
  <2> QED
    BY <2>11, <2>12, <2>13, <2>9 DEF Review!Finish, Review!Decide, outcome, GivenTo
<1> QED
  BY <1>6, <1>7

(* A context that is done decides the review, at whatever depth it is seen.*)
LEMMA ContextGivesUp ==
  ASSUME TypeInv, ThreadedInv, NEW r \in Requests, ContextDone(r)
  PROVE  Review!GiveUp(r)
<1>1. PhaseIs(r) /\ PhaseIs(r)' /\ VerdictIs(r) /\ VerdictIs(r)'
  BY PhaseCases, VerdictCases, PrimedCases
<1>2. /\ pc[r] = "select" /\ ctxDone[r] /\ ctxDone' = ctxDone /\ hist' = hist
      /\ ret'[r].kind = "ctxError" /\ pc'[r] \in {"forge", "returned"}
  BY DEF ContextDone, ReturnFrom, Goto, TypeInv, TypeOK
<1>3. ~Decided(r) /\ Phase(r) = "ready"
  BY <1>1, <1>2 DEF Decided, PhaseIs
<1>4. Decided(r)'
  BY <1>2 DEF Decided
<1>5. /\ Phase(r)' = "answered" /\ Verdict(r)' = Review!Outcome("ctxError")
      /\ GivenTo(r)' = Nil
  BY <1>1, <1>2, <1>4 DEF PhaseIs, VerdictIs, GivenTo
<1>6. \A q \in Requests : q # r => Alike(q)
  BY OthersUnseen DEF ChainStep
<1>7. SameCalls
  BY <1>2 DEF SameCalls
<1>8. Review!Decide(r, Review!Outcome("ctxError"))
  BY <1>2, <1>5, <1>6, <1>7, Decides DEF Sees
<1> QED
  BY <1>2, <1>3, <1>8 DEF Review!GiveUp

(* Steps that neither call a mutator nor decide the review.                *)
LEMMA OnTheWay ==
  ASSUME TypeInv, NEW r \in Requests, Proceed(r) \/ CallChain(r) \/ Continue(r)
  PROVE  Unnoticed(r)
<1>1. PhaseIs(r) /\ PhaseIs(r)' /\ VerdictIs(r) /\ VerdictIs(r)'
  BY PhaseCases, VerdictCases, PrimedCases
<1>2. /\ pc[r] \in {"select", "call", "returned"} /\ pc'[r] \in {"select", "call"}
      /\ ctxDone' = ctxDone /\ hist' = hist /\ answer' = answer
      /\ pc[r] = "returned" => ret[r].kind = "result" /\ ~Given(r).stop
  <2>1. CASE Proceed(r)
    BY <2>1 DEF Proceed, Goto, TypeInv, TypeOK
  <2>2. CASE CallChain(r)
    BY <2>2 DEF CallChain, Goto, TypeInv, TypeOK
  <2>3. CASE Continue(r)
    BY <2>3 DEF Continue, Goto, TypeInv, TypeOK
  <2> QED
    BY <2>1, <2>2, <2>3
<1>3. ~Decided(r) /\ ~Decided(r)'
  BY <1>2 DEF Decided
<1>4. /\ Phase(r)' = Phase(r) /\ Verdict(r)' = Verdict(r)
      /\ GivenTo(r) = Nil /\ GivenTo(r)' = Nil
  BY <1>1, <1>2, <1>3 DEF PhaseIs, VerdictIs, GivenTo
<1> QED
  BY <1>2, <1>4 DEF Unnoticed, Sees

(* What is decided stays so while the frames unwind.                       *)
LEMMA FailUnwinds ==
  ASSUME TypeInv, NEW r \in Requests, Fail(r)
  PROVE  Unnoticed(r)
<1> DEFINE kind == IF ret[r].kind = "nil" THEN "nilError" ELSE ret[r].kind
<1>1. PhaseIs(r) /\ PhaseIs(r)' /\ VerdictIs(r) /\ VerdictIs(r)'
  BY PhaseCases, VerdictCases, PrimedCases
<1>2. /\ pc[r] = "returned" /\ ret[r].kind # "result" /\ ctxDone' = ctxDone /\ hist' = hist
      /\ ret'[r].kind = kind /\ pc'[r] \in {"forge", "returned"}
  BY DEF Fail, ReturnFrom, Goto, TypeInv, TypeOK
<1>3. kind \notin {"nil", "result"} /\ (ret[r].kind = "nil" => kind = "nilError")
      /\ (ret[r].kind # "nil" => kind = ret[r].kind)
  BY <1>2
<1> HIDE DEF kind
<1>4. Decided(r) /\ Decided(r)'
  BY <1>2, <1>3 DEF Decided
<1>5. Phase(r) = "answered" /\ Verdict(r) = Review!Outcome(kind) /\ GivenTo(r) = Nil
  BY <1>1, <1>2, <1>3, <1>4 DEF PhaseIs, VerdictIs, GivenTo
<1>6. Phase(r)' = "answered" /\ Verdict(r)' = Review!Outcome(kind) /\ GivenTo(r)' = Nil
  BY <1>1, <1>2, <1>3, <1>4 DEF PhaseIs, VerdictIs, GivenTo
<1> QED
  BY <1>2, <1>5, <1>6 DEF Unnoticed, Sees

LEMMA StopUnwinds ==
  ASSUME TypeInv, ThreadedInv, NEW r \in Requests, Stop(r) \/ StopReturn(r)
  PROVE  Unnoticed(r)
<1> DEFINE ref == ret[r].ref
<1>1. PhaseIs(r) /\ PhaseIs(r)' /\ VerdictIs(r) /\ VerdictIs(r)'
  BY PhaseCases, VerdictCases, PrimedCases
<1>2. /\ pc[r] \in {"returned", "writeLen", "writeData"} /\ ret[r].kind = "result"
      /\ pc[r] = "returned" => Given(r).stop
      /\ ctxDone' = ctxDone /\ hist' = hist
      /\ pc'[r] \in {"returned", "writeLen", "writeData", "forge"}
      /\ ret'[r].kind = "result" /\ ret'[r].ref = ref
  <2>1. CASE Stop(r)
    BY <2>1 DEF Stop, Goto, TypeInv, TypeOK
  <2>2. CASE StopReturn(r)
    BY <2>2 DEF StopReturn, ReturnFrom, Goto, TypeInv, TypeOK, Control
  <2> QED
    BY <2>1, <2>2
<1>3. Ruling(heap'[ref]) = Ruling(heap[ref])
  BY WritingKeepsRuling
<1>4. heap[ref].stop /\ heap'[ref].stop
  <2>1. heap[ref].stop
    BY <1>2 DEF ThreadedInv, Threaded, Writes, Given
  <2> QED
    BY <1>3, <2>1, SameRuling
<1>5. Decided(r) /\ Decided(r)'
  BY <1>2, <1>4 DEF Decided, Given
<1>6. heap'[ref].stop = heap[ref].stop /\ heap'[ref].obj = heap[ref].obj
  BY <1>3, SameRuling
<1> HIDE DEF ref
<1>7. /\ Phase(r) = "answered" /\ Phase(r)' = "answered"
      /\ GivenTo(r) = Nil /\ GivenTo(r)' = Nil
  BY <1>1, <1>2, <1>5 DEF PhaseIs, GivenTo
<1>8. Verdict(r)' = Verdict(r)
  BY <1>1, <1>2, <1>5, <1>6 DEF VerdictIs, ref
<1> QED
  BY <1>2, <1>7, <1>8 DEF Unnoticed, Sees

(* Reading the result for the response changes nothing in it.              *)
LEMMA ForgeTells ==
  ASSUME TypeInv, NEW r \in Requests, Forge(r)
  PROVE  Unnoticed(r)
<1>1. PhaseIs(r) /\ PhaseIs(r)' /\ VerdictIs(r) /\ VerdictIs(r)'
  BY PhaseCases, VerdictCases, PrimedCases
<1>2. /\ pc[r] = "forge" /\ pc'[r] = "done" /\ ctxDone' = ctxDone /\ hist' = hist
      /\ ret[r].kind # "nil"
  BY DEF Forge, Goto, TypeInv, TypeOK, Control
<1>3. Decided(r) /\ ~Decided(r)'
  BY <1>2 DEF Decided
<1>4. /\ Phase(r) = "answered" /\ Phase(r)' = "answered"
      /\ GivenTo(r) = Nil /\ GivenTo(r)' = Nil
  BY <1>1, <1>2, <1>3 DEF PhaseIs, GivenTo
<1>5. Verdict(r)' = Verdict(r)
  <2>1. CASE ret[r].kind = "result"
    <3>1. /\ answer'[r].kind = "result" /\ answer'[r].stop = heap[ret[r].ref].stop
          /\ answer'[r].obj = heap[ret[r].ref].obj
      BY <2>1 DEF Forge, Given, TypeInv, TypeOK
    <3> QED
      BY <1>1, <1>3, <2>1, <3>1 DEF VerdictIs
  <2>2. CASE ret[r].kind # "result"
    <3>1. answer'[r].kind = ret[r].kind
      BY <2>2 DEF Forge, NoAnswer, TypeInv, TypeOK
    <3>2. Verdict(r) = Review!Outcome(ret[r].kind)
      BY <1>1, <1>2, <1>3, <2>2 DEF VerdictIs
    <3>3. Verdict(r)' = Spoken(ret[r].kind, answer'[r].stop, answer'[r].obj)
      BY <1>1, <1>3, <3>1 DEF VerdictIs
    <3> QED
      BY <2>2, <3>2, <3>3, SpokenFailure
  <2> QED
    BY <2>1, <2>2
<1> QED
  BY <1>2, <1>4, <1>5 DEF Unnoticed, Sees

(* What a mutator does decides, or lets the sequence go on.                *)
LEMMA FailureBreaks ==
  ASSUME TypeInv, ThreadedInv, NEW r \in Requests, MutatorFails(r) \/ MutatorPanics(r)
  PROVE  Review!Break(r)
<1>1. PhaseIs(r) /\ PhaseIs(r)' /\ VerdictIs(r) /\ VerdictIs(r)'
  BY PhaseCases, VerdictCases, PrimedCases
<1>2. pc[r] = "mutator" /\ ctxDone' = ctxDone /\ hist' = hist
  BY DEF MutatorFails, MutatorPanics
<1>3. Phase(r) = "running"
  BY <1>1, <1>2 DEF PhaseIs
<1>4. \E kind \in {"mutatorError", "nilError", "panic"} : Sees(r, "answered", Review!Outcome(kind))
  <2>1. CASE MutatorFails(r)
    <3>1. pc'[r] = "returned" /\ ret'[r].kind \in {"mutatorError", "nil"}
      BY <2>1 DEF MutatorFails, Goto, TypeInv, TypeOK
    <3>2. Decided(r)'
      BY <3>1 DEF Decided
    <3>3. Phase(r)' = "answered"
      BY <1>1, <3>1, <3>2 DEF PhaseIs
    <3>4. Verdict(r)' = Review!Outcome("mutatorError") \/ Verdict(r)' = Review!Outcome("nilError")
      BY <1>1, <3>1, <3>2 DEF VerdictIs
    <3> QED
      BY <3>1, <3>3, <3>4 DEF Sees, GivenTo
  <2>2. CASE MutatorPanics(r)
    <3>1. pc'[r] = "done" /\ answer'[r].kind = "panic"
      BY <2>2 DEF MutatorPanics, Goto, NoAnswer, TypeInv, TypeOK
    <3>2. ~Decided(r)'
      BY <3>1 DEF Decided
    <3>3. Verdict(r)' = Spoken("panic", answer'[r].stop, answer'[r].obj)
      BY <1>1, <3>1, <3>2 DEF VerdictIs
    <3>4. Verdict(r)' = Review!Outcome("panic")
      BY <3>3, SpokenFailure
    <3> QED
      BY <1>1, <3>1, <3>4 DEF PhaseIs, Sees, GivenTo
  <2> QED
    BY <2>1, <2>2
<1>5. \A q \in Requests : q # r => Alike(q)
  BY OthersUnseen DEF MutatorStep
<1>6. PICK kind \in {"mutatorError", "nilError", "panic"} : Sees(r, "answered", Review!Outcome(kind))
  BY <1>4
<1>7. SameCalls
  BY <1>2 DEF SameCalls
<1>8. Review!Decide(r, Review!Outcome(kind))
  BY <1>2, <1>5, <1>6, <1>7, Decides
<1> QED
  BY <1>2, <1>3, <1>8 DEF Review!Break

LEMMA ResultTells ==
  ASSUME TypeInv, ThreadedInv, PlacedInv, NEW r \in Requests, MutatorReturns(r)
  PROVE  Review!Return(r)
<1>1. PhaseIs(r) /\ PhaseIs(r)' /\ VerdictIs(r) /\ VerdictIs(r)'
  BY PhaseCases, VerdictCases, PrimedCases
<1>2. PICK res \in Returns[Element(r)] :
        /\ res \in Result /\ pc[r] = "mutator" /\ pc' = [pc EXCEPT ![r] = "returned"]
        /\ ret'[r].kind = "result"
        /\ Given(r)'.stop = res.stop /\ Given(r)'.obj = res.obj
        /\ hist' = [hist EXCEPT ![r].obj = IF res.obj = Nil THEN @ ELSE res.obj,
                                ![r].warnings = @ \o res.warnings]
        /\ UNCHANGED <<ctxDone, input, stack, answer>>
  BY Returned DEF ThreadedInv
<1>3. pc'[r] = "returned" /\ ctxDone' = ctxDone /\ answer'[r] = answer[r]
  BY <1>2 DEF TypeInv, TypeOK
<1>4. /\ SameCalls
      /\ \A q \in Requests : q # r => hist'[q].obj = hist[q].obj
      /\ hist'[r].obj = IF res.obj = Nil THEN hist[r].obj ELSE res.obj
  BY <1>2 DEF SameCalls, TypeInv, TypeOK, History
<1>5. ~Decided(r) /\ Phase(r) = "running" /\ GivenTo(r)' = Nil
  BY <1>1, <1>2, <1>3 DEF Decided, PhaseIs, GivenTo
<1>6. Leaves[Root][Len(hist[r].calls)] = Element(r)
  BY <1>2 DEF PlacedInv, Placed, Called
<1>7. \A q \in Requests : q # r => Alike(q)
  BY OthersUnseen DEF MutatorStep
<1>8. Decided(r)' <=> res.stop
  BY <1>2, <1>3 DEF Decided
<1>9. /\ [q \in Requests |-> hist[q].obj]' =
           [[q \in Requests |-> hist[q].obj]
              EXCEPT ![r] = IF res.obj = Nil THEN @ ELSE res.obj]
      /\ [q \in Requests |-> Phase(q)][r] = "running"
      /\ Leaves[Root][Len([q \in Requests |-> hist[q].calls][r])] = Element(r)
  BY <1>4, <1>5, <1>6
<1>10. CASE ~res.stop
  <2>1. Phase(r)' = "ready" /\ Verdict(r)' = Verdict(r)
    BY <1>1, <1>3, <1>5, <1>8, <1>10 DEF PhaseIs, VerdictIs
  <2>2. /\ [q \in Requests |-> Phase(q)]' = [[q \in Requests |-> Phase(q)] EXCEPT ![r] = "ready"]
        /\ [q \in Requests |-> GivenTo(q)]' = [[q \in Requests |-> GivenTo(q)] EXCEPT ![r] = Nil]
        /\ [q \in Requests |-> Verdict(q)]' = [q \in Requests |-> Verdict(q)]
        /\ [q \in Requests |-> hist[q].calls]' = [q \in Requests |-> hist[q].calls]
        /\ [q \in Requests |-> hist[q].late]' = [q \in Requests |-> hist[q].late]
    BY <1>4, <1>5, <1>7, <2>1 DEF SameCalls, Alike
  <2> QED
    BY <1>2, <1>3, <1>9, <1>10, <2>2 DEF Review!Return, GivenTo
<1>11. CASE res.stop
  <2>1. Phase(r)' = "answered"
    BY <1>1, <1>3, <1>8, <1>11 DEF PhaseIs
  <2>2. Verdict(r)' = Spoken("result", Given(r)'.stop, Given(r)'.obj)
    BY <1>1, <1>2, <1>8, <1>11 DEF VerdictIs, Given
  <2>3. res.stop = TRUE
    BY <1>2, <1>11 DEF Result
  <2>4. Verdict(r)' = Ended(res.stop, res.obj)
    BY <1>2, <2>2, <2>3, SpokenResult
  <2> DEFINE outcome == Ended(TRUE, res.obj)
  <2>5. Verdict(r)' = outcome
    BY <2>3, <2>4
  <2> HIDE DEF outcome
  <2>6. Review!Decide(r, outcome)
    BY <1>3, <1>4, <1>5, <1>7, <2>1, <2>5, Decides DEF Sees
  <2>7. outcome = [kind |-> "result", stop |-> TRUE, obj |-> res.obj]
    BY DEF outcome, Ended
  <2> QED
    BY <1>2, <1>9, <1>11, <2>6, <2>7, Zenon DEF Review!Return
<1> QED
  BY <1>10, <1>11

LEMMA CancelCancels ==
  ASSUME TypeInv, ThreadedInv, NEW r \in Requests, Cancel(r)
  PROVE  Review!Cancel(r)
<1>1. /\ pc' = pc /\ ret' = ret /\ hist' = hist /\ answer' = answer /\ stack' = stack
      /\ heap' = heap /\ ~ctxDone[r] /\ ctxDone' = [ctxDone EXCEPT ![r] = TRUE]
  BY DEF Cancel
<1>2. \A q \in Requests : Alike(q)
  BY <1>1, SameView DEF TypeInv, TypeOK, Places
<1> QED
  BY <1>1, <1>2 DEF Review!Cancel, Alike, GivenTo

LEMMA InitReview == Init => Review!Init
<1> SUFFICES ASSUME Init PROVE Review!Init
  OBVIOUS
<1>1. ASSUME NEW q \in Requests
      PROVE  Phase(q) = "idle" /\ Verdict(q) = Review!Outcome("none") /\ GivenTo(q) = Nil
  <2>1. PhaseIs(q) /\ VerdictIs(q) /\ pc[q] = "idle" /\ answer[q].kind = "none"
    BY PhaseCases, VerdictCases DEF Init, NoAnswer
  <2>2. ~Decided(q)
    BY <2>1 DEF Decided
  <2>3. Verdict(q) = Spoken("none", answer[q].stop, answer[q].obj)
    BY <2>1, <2>2 DEF VerdictIs
  <2> QED
    BY <2>1, <2>3, SpokenFailure DEF PhaseIs, GivenTo
<1> QED
  BY <1>1 DEF Init, Review!Init, GivenTo

LEMMA StepReview ==
  ASSUME TypeInv, ThreadedInv, LateInv, PlacedInv, [Next]_vars
  PROVE  [Review!Next]_(Review!vars)
<1>1. ASSUME NEW r \in Requests, Cancel(r) PROVE Review!Next
  BY <1>1, CancelCancels DEF Review!Next
<1>2. ASSUME NEW r \in Requests, ChainStep(r) \/ MutatorStep(r)
      PROVE  [Review!Next]_(Review!vars)
  <2>1. Unnoticed(r) => UNCHANGED Review!vars
    BY <1>2, OthersUnseen, UnnoticedSteps
  <2>2. CASE Start(r)
    BY <2>2, StartBegins DEF Review!Next
  <2>3. CASE LoopEnd(r)
    BY <2>1, <2>3, LoopEndFinishes DEF Review!Next
  <2>4. CASE ContextDone(r)
    BY <2>4, ContextGivesUp DEF Review!Next
  <2>5. CASE CallMutator(r)
    BY <2>5, CallsNext DEF Review!Next
  <2>6. CASE Proceed(r) \/ CallChain(r) \/ Continue(r)
    BY <2>1, <2>6, OnTheWay
  <2>7. CASE Fail(r)
    BY <2>1, <2>7, FailUnwinds
  <2>8. CASE Stop(r) \/ StopReturn(r)
    BY <2>1, <2>8, StopUnwinds
  <2>9. CASE Forge(r)
    BY <2>1, <2>9, ForgeTells
  <2>10. CASE MutatorFails(r) \/ MutatorPanics(r)
    BY <2>10, FailureBreaks DEF Review!Next
  <2>11. CASE MutatorReturns(r)
    BY <2>11, ResultTells DEF Review!Next
  <2> QED
    BY <1>2, <2>2, <2>3, <2>4, <2>5, <2>6, <2>7, <2>8, <2>9, <2>10, <2>11
    DEF ChainStep, MutatorStep
<1>3. CASE UNCHANGED vars
  <2>1. \A q \in Requests : Alike(q)
    BY <1>3, SameView DEF vars, TypeInv, TypeOK, Places
  <2> QED
    BY <1>3, <2>1 DEF vars, Review!vars, Alike, GivenTo
<1> QED
  BY <1>1, <1>2, <1>3 DEF Next, AllDone

(* However the chains nest, a review is the flat sequence of its mutators: *)
(* in that order, each on the object the ones before it left, the first    *)
(* stop the outcome with its object, over at the first error, nil or panic,*)
(* with one late call at most, and no other review changes what is patched *)
(* (mutator.go:64-97, mutating/webhook.go:125-130).                        *)
THEOREM ChainsAreFlat == Spec => ReviewSpec
<1>1. TypeInv /\ ThreadedInv /\ LateInv /\ PlacedInv /\ [Next]_vars
        => [Review!Next]_(Review!vars)
  BY StepReview
<1> QED
  BY <1>1, InitReview, ThreadedInvariant, LateInvariant, PlacedInvariant, PTL
  DEF Spec, ReviewSpec, Review!Spec
=============================================================================
