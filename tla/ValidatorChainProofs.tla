------------------------ MODULE ValidatorChainProofs ------------------------
(***************************************************************************)
(* Proofs about ValidatorChain, for any reviews, validators, prepared      *)
(* results, messages, warnings and any finite nesting of chains.           *)
(***************************************************************************)
EXTENDS ValidatorChain, SequenceTheorems, TLAPS

-----------------------------------------------------------------------------
(* A push, a pop and a change of the top frame keep a stack a stack.       *)
LEMMA Stacks ==
  ASSUME NEW s \in Seq(Frame), s # <<>>
  PROVE  /\ Last(s) \in Frame
         /\ Front(s) \in Seq(Frame)
         /\ Len(s) # 1 => Front(s) # <<>>
         /\ \A x \in Frame : /\ Append(s, x) \in Seq(Frame) /\ Append(s, x) # <<>>
                             /\ Last(Append(s, x)) = x
                             /\ Append(Front(s), x) \in Seq(Frame)
                             /\ Append(Front(s), x) # <<>>
                             /\ Last(Append(Front(s), x)) = x
<1>1. Len(s) \in Nat \ {0}
  BY EmptySeq
<1>2. Last(s) \in Frame
  BY <1>1 DEF Last
<1>3. Front(s) \in Seq(Frame) /\ Len(Front(s)) = Len(s) - 1
  <2>1. \A n \in Nat : n <= Len(s) => /\ SubSeq(s, 1, n) \in Seq(Frame)
                                      /\ Len(SubSeq(s, 1, n)) = n
    <3> TAKE n \in Nat
    <3> HAVE n <= Len(s)
    <3>1. \A i \in 1..n : s[i] \in Frame
      BY <1>1
    <3> QED
      BY <3>1
  <2>2. Len(s) - 1 \in Nat /\ Len(s) - 1 <= Len(s)
    BY <1>1
  <2>3. SubSeq(s, 1, Len(s) - 1) \in Seq(Frame) /\ Len(SubSeq(s, 1, Len(s) - 1)) = Len(s) - 1
    BY <2>1, <2>2
  <2> QED
    BY <2>3, Zenon DEF Front
<1>4. Len(s) # 1 => Front(s) # <<>>
  BY <1>1, <1>3, EmptySeq
<1>5. \A t \in Seq(Frame), x \in Frame : /\ Append(t, x) \in Seq(Frame)
                                          /\ Append(t, x) # <<>>
                                          /\ Last(Append(t, x)) = x
  BY DEF Last
<1> QED
  BY <1>2, <1>3, <1>4, <1>5

(* Whatever the words of a slice header are, what is read is a sequence.   *)
LEMMA SliceType == \A cell \in Cell : Slice(cell) \in Seen
<1> TAKE cell \in Cell
<1>1. cell.data \in Seq(Warnings \cup {Torn}) /\ cell.len \in Nat
  BY DEF Cell, Seen
<1>2. \A k \in 1..cell.len :
        (IF k <= Len(cell.data) THEN cell.data[k] ELSE Torn) \in Warnings \cup {Torn}
  BY <1>1
<1> QED
  BY <1>1, <1>2 DEF Slice, Seen

LEMMA CellOfType == \A res \in Result : CellOf(res) \in Cell
<1> TAKE res \in Result
<1>1. res.warnings \in Seq(Warnings \cup {Torn}) /\ Len(res.warnings) \in Nat
  BY DEF Result
<1> QED
  BY <1>1 DEF CellOf, Result, Cell, Seen

(* The cell of a chain that ran to its end.                                *)
LEMMA PassedType == \A ws \in Seen : CellOf(Passed(ws)) \in Cell
BY DEF CellOf, Passed, Cell, Seen

-----------------------------------------------------------------------------
(* The control state of a review: where it has frames, what the element it *)
(* is at is, and whose result it may hold.                                 *)
Control(q) ==
  /\ pc[q] \in {"select", "call", "validator", "returned", "writeLen", "writeData"} => stack[q] # <<>>
  /\ pc[q] \in {"call", "validator"} => More(q)
  /\ pc[q] = "validator" => Element(q) \in Validators
  /\ pc[q] \in {"returned", "forge"} => ret[q].kind # "none"
  /\ pc[q] = "forge" => ret[q].kind # "nil"
  /\ pc[q] \in {"writeLen", "writeData"} => ret[q].kind = "result"
  /\ ret[q].ref \in {q} \cup Static

TypeInv == TypeOK /\ \A q \in Requests : Control(q)

LEMMA TopFacts ==
  ASSUME TypeInv, NEW r \in Requests,
         pc[r] \in {"select", "call", "validator", "returned", "writeLen", "writeData"}
  PROVE  /\ stack[r] \in Seq(Frame) /\ stack[r] # <<>>
         /\ Top(r) \in Frame
         /\ More(r) => Element(r) \in Validators \cup Chains
<1>1. stack[r] \in Seq(Frame) /\ stack[r] # <<>>
  BY DEF TypeInv, TypeOK, Control
<1>2. Top(r) \in Frame
  BY <1>1, Stacks DEF Top
<1>3. Top(r).chain \in Chains /\ Top(r).i \in Nat \ {0}
  BY <1>2 DEF Frame
<1>4. Elements[Top(r).chain] \in Seq(Validators \cup Chains)
  BY <1>3, ChainAssumption
<1> QED
  BY <1>1, <1>2, <1>3, <1>4, LenProperties, ElementOfSeq DEF More, Element

LEMMA InitTypeInv == Init => TypeInv
<1> SUFFICES ASSUME Init PROVE TypeInv
  OBVIOUS
<1> USE DEF Init
<1>1. \A v \in Static : CellOf(Prepared[v]) \in Cell
  BY PreparedAssumption, CellOfType
<1>2. CellOf(Passed(<<>>)) \in Cell
  <2>1. <<>> \in Seen
    BY DEF Seen
  <2> QED
    BY <2>1, PassedType
<1>3. heap \in [Pointers -> Cell]
  BY <1>1, <1>2
<1>4. ret \in [Requests -> Return]
  BY DEF Return, Pointers, Kinds
<1>5. answer \in [Requests -> Answer]
  BY DEF NoAnswer, Answer, Kinds, Seen
<1>6. hist \in [Requests -> History]
  BY DEF History
<1>7. stack \in [Requests -> Seq(Frame)]
  OBVIOUS
<1> QED
  BY <1>3, <1>4, <1>5, <1>6, <1>7 DEF TypeInv, TypeOK, Control

(* A review whose frames and result do not change keeps its control.       *)
LEMMA ControlKept ==
  ASSUME NEW q, Control(q), pc'[q] = pc[q], stack'[q] = stack[q], ret'[q] = ret[q]
  PROVE  Control(q)'
BY DEF Control, Top, More, Element

LEMMA OthersControl ==
  ASSUME TypeInv, NEW r \in Requests,
         \A q \in Requests : q # r => /\ pc'[q] = pc[q]
                                      /\ stack'[q] = stack[q]
                                      /\ ret'[q] = ret[q],
         Control(r)'
  PROVE  \A q \in Requests : Control(q)'
BY ControlKept DEF TypeInv

(* Returning from a chain, with whatever heap.                             *)
LEMMA ReturnTypeInv ==
  ASSUME TypeInv, NEW r \in Requests, pc[r] \in {"select", "returned", "writeLen", "writeData"},
         NEW kind \in Kinds \ {"none", "nil"},
         NEW ref \in {r} \cup Static, NEW h \in [Pointers -> Cell],
         ReturnFrom(r, kind, ref, h)
  PROVE  TypeInv'
<1> USE DEF TypeInv, TypeOK
<1>1. stack[r] \in Seq(Frame) /\ stack[r] # <<>>
  BY TopFacts
<1>2. Front(stack[r]) \in Seq(Frame) /\ (Len(stack[r]) # 1 => Front(stack[r]) # <<>>)
  BY <1>1, Stacks
<1>3. stack' = [stack EXCEPT ![r] = Front(stack[r])] /\ stack' \in [Requests -> Seq(Frame)]
  BY <1>2 DEF ReturnFrom
<1>4. ret' = [ret EXCEPT ![r] = [kind |-> kind, ref |-> ref]] /\ ret' \in [Requests -> Return]
  BY DEF ReturnFrom, Return, Pointers
<1>5. pc' = [pc EXCEPT ![r] = IF Len(stack[r]) = 1 THEN "forge" ELSE "returned"]
  BY DEF ReturnFrom, Goto
<1>6. heap' = h /\ UNCHANGED <<ctxDone, answer, hist>>
  BY DEF ReturnFrom
<1>7. TypeOK'
  BY <1>3, <1>4, <1>5, <1>6
<1>8. Control(r)'
  <2>1. ret'[r] = [kind |-> kind, ref |-> ref] /\ stack'[r] = Front(stack[r])
    BY <1>3, <1>4
  <2> QED
    BY <2>1, <1>2, <1>5 DEF Control
<1> QED
  BY <1>3, <1>4, <1>5, <1>7, <1>8, OthersControl

LEMMA GatheredType ==
  ASSUME TypeInv, NEW r \in Requests, pc[r] = "returned"
  PROVE  /\ Given(r) \in Cell
         /\ ret[r].ref \in Pointers
         /\ Gathered(r) \in Seen
<1>1. ret[r].ref \in Pointers /\ Given(r) \in Cell
  BY DEF TypeInv, TypeOK, Return, Given
<1>2. Slice(Given(r)) \in Seen
  BY <1>1, SliceType
<1>3. Top(r).warnings \in Seen
  BY TopFacts DEF Frame
<1> QED
  BY <1>1, <1>2, <1>3 DEF Gathered, Seen

LEMMA CallTypeInv ==
  ASSUME TypeInv, NEW r \in Requests,
         Start(r) \/ Proceed(r) \/ CallValidator(r) \/ CallChain(r)
  PROVE  TypeInv'
<1> USE DEF TypeInv, TypeOK, Goto
<1>0. <<>> \in Seen
  BY DEF Seen
<1>1. CASE Start(r)
  <2>1. NewFrame(Root) \in Frame
    BY <1>0, ChainAssumption DEF NewFrame, Frame
  <2>2. <<NewFrame(Root)>> \in Seq(Frame) \ {<<>>}
    BY <2>1
  <2>3. stack' = [stack EXCEPT ![r] = <<NewFrame(Root)>>]
    BY <1>1 DEF Start
  <2>4. TypeOK'
    BY <1>1, <2>2 DEF Start
  <2>5. Control(r)'
    BY <1>1, <2>2, <2>3 DEF Start, Control
  <2> QED
    BY <1>1, <2>4, <2>5, OthersControl DEF Start
<1>2. CASE Proceed(r)
  <2>1. TypeOK'
    BY <1>2 DEF Proceed
  <2>2. Control(r)'
    BY <1>2 DEF Proceed, Control, Top, More
  <2> QED
    BY <1>2, <2>1, <2>2, OthersControl DEF Proceed
<1>3. CASE CallValidator(r)
  <2>1. hist[r].calls \in Seq(Validators) /\ hist[r].late \in Nat
    BY DEF History
  <2>2. /\ Append(hist[r].calls, Element(r)) \in Seq(Validators)
        /\ (IF ctxDone[r] THEN hist[r].late + 1 ELSE hist[r].late) \in Nat
    BY <1>3, <2>1 DEF CallValidator
  <2>3. [hist[r] EXCEPT !.calls = Append(@, Element(r)),
                        !.late = IF ctxDone[r] THEN @ + 1 ELSE @] \in History
    BY <2>2 DEF History
  <2>4. hist' \in [Requests -> History]
    BY <1>3, <2>3 DEF CallValidator
  <2>5. TypeOK'
    BY <1>3, <2>4 DEF CallValidator
  <2>6. Control(r)'
    BY <1>3 DEF CallValidator, Control, Top, More, Element
  <2> QED
    BY <1>3, <2>5, <2>6, OthersControl DEF CallValidator
<1>4. CASE CallChain(r)
  <2>1. stack[r] \in Seq(Frame) /\ stack[r] # <<>>
    BY <1>4, TopFacts DEF CallChain
  <2>2. NewFrame(Element(r)) \in Frame
    BY <1>0, <1>4 DEF CallChain, NewFrame, Frame
  <2>3. /\ Append(stack[r], NewFrame(Element(r))) \in Seq(Frame)
        /\ Append(stack[r], NewFrame(Element(r))) # <<>>
    BY <2>1, <2>2, Stacks
  <2>4. stack' = [stack EXCEPT ![r] = Append(stack[r], NewFrame(Element(r)))]
    BY <1>4 DEF CallChain
  <2>5. TypeOK'
    BY <1>4, <2>3, <2>4 DEF CallChain
  <2>6. Control(r)'
    BY <1>4, <2>3, <2>4 DEF CallChain, Control
  <2> QED
    BY <1>4, <2>5, <2>6, OthersControl DEF CallChain
<1> QED
  BY <1>1, <1>2, <1>3, <1>4

LEMMA EndTypeInv ==
  ASSUME TypeInv, NEW r \in Requests,
         LoopEnd(r) \/ ContextDone(r) \/ Fail(r) \/ StopReturn(r)
  PROVE  TypeInv'
<1> USE DEF TypeInv, TypeOK
<1>1. CASE LoopEnd(r)
  <2>1. Top(r).warnings \in Seen
    BY <1>1, TopFacts DEF LoopEnd, Frame
  <2>2. [heap EXCEPT ![r] = CellOf(Passed(Top(r).warnings))] \in [Pointers -> Cell]
    BY <2>1, PassedType
  <2>3. "result" \in Kinds \ {"none", "nil"} /\ pc[r] = "select"
    BY <1>1 DEF LoopEnd, Kinds
  <2> QED
    BY <1>1, <2>2, <2>3, ReturnTypeInv DEF LoopEnd
<1>2. CASE ContextDone(r)
  BY <1>2, ReturnTypeInv DEF ContextDone, Kinds
<1>3. CASE Fail(r)
  <2>1. (IF ret[r].kind = "nil" THEN "nilError" ELSE ret[r].kind) \in Kinds \ {"none", "nil"}
    BY <1>3 DEF Fail, Control, Return, Kinds
  <2> QED
    BY <1>3, <2>1, ReturnTypeInv DEF Fail
<1>4. CASE StopReturn(r)
  <2> DEFINE ref == ret[r].ref
  <2>1. ref \in {r} \cup Static /\ ref \in Pointers /\ heap[ref] \in Cell
    BY DEF Control, Return
  <2>2. Top(r).warnings \in Seen /\ Len(Top(r).warnings) \in Nat
    <3>1. pc[r] \in {"writeLen", "writeData"}
      BY <1>4 DEF StopReturn
    <3>2. Top(r) \in Frame
      BY <3>1, TopFacts
    <3> QED
      BY <3>2 DEF Frame, Seen
  <2>3. /\ [heap[ref] EXCEPT !.len = Len(Top(r).warnings)] \in Cell
        /\ [heap[ref] EXCEPT !.data = Top(r).warnings] \in Cell
    BY <2>1, <2>2 DEF Cell
  <2>4. /\ [heap EXCEPT ![ref].len = Len(Top(r).warnings)] \in [Pointers -> Cell]
        /\ [heap EXCEPT ![ref].data = Top(r).warnings] \in [Pointers -> Cell]
    BY <2>1, <2>3
  <2>5. "result" \in Kinds \ {"none", "nil"}
    BY DEF Kinds
  <2> QED
    BY <1>4, <2>1, <2>4, <2>5, ReturnTypeInv DEF StopReturn
<1> QED
  BY <1>1, <1>2, <1>3, <1>4

LEMMA ResultTypeInv ==
  ASSUME TypeInv, NEW r \in Requests, Stop(r) \/ Continue(r)
  PROVE  TypeInv'
<1> USE DEF TypeInv, TypeOK, Goto
<1>1. pc[r] = "returned" /\ ret[r].kind = "result"
  BY DEF Stop, Continue
<1>2. Top(r) \in Frame /\ stack[r] \in Seq(Frame) /\ stack[r] # <<>>
  BY <1>1, TopFacts
<1>3. Given(r) \in Cell /\ ret[r].ref \in Pointers /\ Gathered(r) \in Seen
  BY <1>1, GatheredType
<1>4. /\ [Top(r) EXCEPT !.warnings = Gathered(r)] \in Frame
      /\ [Top(r) EXCEPT !.i = @ + 1, !.warnings = Gathered(r)] \in Frame
  <2>1. Top(r).i + 1 \in Nat \ {0}
    BY <1>2 DEF Frame
  <2> QED
    BY <1>2, <1>3, <2>1 DEF Frame
<1>5. CASE Stop(r)
  <2> DEFINE frame == [Top(r) EXCEPT !.warnings = Gathered(r)]
  <2>1. Append(Front(stack[r]), frame) \in Seq(Frame) /\ Append(Front(stack[r]), frame) # <<>>
    BY <1>2, <1>4, Stacks
  <2>2. stack' = [stack EXCEPT ![r] = Append(Front(stack[r]), frame)]
    BY <1>5 DEF Stop
  <2> HIDE DEF frame
  <2>3. Len(Gathered(r)) \in Nat
    BY <1>3 DEF Seen
  <2>4. /\ [heap EXCEPT ![ret[r].ref].data = Gathered(r)] \in [Pointers -> Cell]
        /\ [heap EXCEPT ![ret[r].ref].len = Len(Gathered(r))] \in [Pointers -> Cell]
    <3>1. /\ [heap[ret[r].ref] EXCEPT !.data = Gathered(r)] \in Cell
          /\ [heap[ret[r].ref] EXCEPT !.len = Len(Gathered(r))] \in Cell
      BY <1>3, <2>3 DEF Given, Cell
    <3> QED
      BY <1>3, <3>1
  <2>5. heap' \in [Pointers -> Cell] /\ UNCHANGED <<ctxDone, ret, answer, hist>>
    BY <1>5, <2>4 DEF Stop
  <2>6. \E label \in {"writeLen", "writeData"} : pc' = [pc EXCEPT ![r] = label]
    BY <1>5 DEF Stop
  <2>7. TypeOK'
    BY <2>1, <2>2, <2>5, <2>6
  <2>8. Control(r)'
    BY <1>1, <2>1, <2>2, <2>5, <2>6 DEF Control
  <2> QED
    BY <2>2, <2>5, <2>6, <2>7, <2>8, OthersControl
<1>6. CASE Continue(r)
  <2> DEFINE frame == [Top(r) EXCEPT !.i = @ + 1, !.warnings = Gathered(r)]
  <2>1. Append(Front(stack[r]), frame) \in Seq(Frame) /\ Append(Front(stack[r]), frame) # <<>>
    BY <1>2, <1>4, Stacks
  <2>2. stack' = [stack EXCEPT ![r] = Append(Front(stack[r]), frame)]
    BY <1>6 DEF Continue
  <2> HIDE DEF frame
  <2>3. TypeOK'
    BY <1>6, <2>1, <2>2 DEF Continue
  <2>4. Control(r)'
    BY <1>6, <2>1, <2>2 DEF Continue, Control
  <2> QED
    BY <1>6, <2>2, <2>3, <2>4, OthersControl DEF Continue
<1> QED
  BY <1>5, <1>6

LEMMA ForgeTypeInv ==
  ASSUME TypeInv, NEW r \in Requests, Forge(r)
  PROVE  TypeInv'
<1> USE DEF TypeInv, TypeOK, Goto
<1>1. Given(r) \in Cell /\ ret[r].kind \in Kinds \ {"none", "nil"}
  BY DEF Forge, Control, Given, Return
<1>2. Slice(Given(r)) \in Seen /\ <<>> \in Seen
  BY <1>1, SliceType DEF Seen
<1> DEFINE given == [kind |-> "result", valid |-> Given(r).valid, msg |-> Given(r).msg,
                     warnings |-> Slice(Given(r))]
<1>3. given \in Answer /\ given.kind = "result"
  BY <1>1, <1>2 DEF Cell, Answer, Kinds
<1>4. NoAnswer(ret[r].kind) \in Answer /\ NoAnswer(ret[r].kind).kind = ret[r].kind
  BY <1>1, <1>2 DEF NoAnswer, Answer
<1> DEFINE new == IF ret[r].kind # "result" THEN NoAnswer(ret[r].kind) ELSE given
<1>5. new \in Answer /\ new.kind \notin {"none", "nil"}
  BY <1>1, <1>3, <1>4
<1>6. answer' = [answer EXCEPT ![r] = new]
  BY DEF Forge
<1> HIDE DEF new, given
<1>7. TypeOK'
  BY <1>5, <1>6 DEF Forge
<1>8. Control(r)'
  BY DEF Forge, Control
<1> QED
  BY <1>7, <1>8, OthersControl DEF Forge

LEMMA ValidatorStepTypeInv ==
  ASSUME TypeInv, NEW r \in Requests, ValidatorStep(r)
  PROVE  TypeInv'
<1> USE DEF TypeInv, TypeOK, Goto
<1>1. CASE ValidatorFails(r)
  <2>1. PICK kind \in {"validatorError", "nil"} : ret' = [ret EXCEPT ![r] = [kind |-> kind, ref |-> r]]
    BY <1>1 DEF ValidatorFails
  <2>2. [kind |-> kind, ref |-> r] \in Return
    BY DEF Return, Pointers, Kinds
  <2>3. TypeOK'
    BY <1>1, <2>1, <2>2 DEF ValidatorFails
  <2>4. Control(r)'
    BY <1>1, <2>1 DEF ValidatorFails, Control
  <2> QED
    BY <1>1, <2>1, <2>3, <2>4, OthersControl DEF ValidatorFails
<1>2. CASE ValidatorReturns(r)
  <2>1. PICK res \in Returns[Element(r)] :
          LET shared == Element(r) \in Static /\ res = Prepared[Element(r)]
          IN  /\ ret' = [ret EXCEPT ![r] = [kind |-> "result",
                                            ref |-> IF shared THEN Element(r) ELSE r]]
              /\ heap' = IF shared THEN heap ELSE [heap EXCEPT ![r] = CellOf(res)]
              /\ hist' = [hist EXCEPT ![r].results = Append(@, res),
                                      ![r].warnings = @ \o res.warnings]
    BY <1>2 DEF ValidatorReturns
  <2> DEFINE ref == IF Element(r) \in Static /\ res = Prepared[Element(r)] THEN Element(r) ELSE r
  <2>2. ref \in {r} \cup Static /\ ref \in Pointers
    BY DEF Pointers
  <2>3. ret' = [ret EXCEPT ![r] = [kind |-> "result", ref |-> ref]]
    BY <2>1
  <2>4. res \in Result
    BY <1>2, ChainAssumption DEF ValidatorReturns, Control
  <2>5. heap' \in [Pointers -> Cell]
    BY <2>1, <2>4, CellOfType
  <2>6. hist' \in [Requests -> History]
    <3>1. Append(hist[r].results, res) \in Seq(Result)
      BY <2>4 DEF History
    <3>2. hist[r].warnings \o res.warnings \in Seq(Warnings)
      BY <2>4 DEF History, Result
    <3>3. [hist[r] EXCEPT !.results = Append(@, res), !.warnings = @ \o res.warnings] \in History
      BY <3>1, <3>2 DEF History
    <3> QED
      BY <2>1, <3>3
  <2> HIDE DEF ref
  <2>7. ret' \in [Requests -> Return]
    BY <2>2, <2>3 DEF Return, Kinds
  <2>8. TypeOK'
    BY <1>2, <2>5, <2>6, <2>7 DEF ValidatorReturns
  <2>9. Control(r)'
    BY <1>2, <2>2, <2>3 DEF ValidatorReturns, Control
  <2> QED
    BY <1>2, <2>3, <2>8, <2>9, OthersControl DEF ValidatorReturns
<1>3. CASE ValidatorPanics(r)
  <2>1. <<>> \in Seen
    BY DEF Seen
  <2>2. NoAnswer("panic") \in Answer /\ NoAnswer("panic").kind = "panic"
    BY <2>1 DEF NoAnswer, Answer, Kinds
  <2>3. TypeOK'
    BY <1>3, <2>2 DEF ValidatorPanics
  <2>4. Control(r)'
    BY <1>3 DEF ValidatorPanics, Control
  <2> QED
    BY <1>3, <2>3, <2>4, OthersControl DEF ValidatorPanics
<1> QED
  BY <1>1, <1>2, <1>3 DEF ValidatorStep

LEMMA NextTypeInv == TypeInv /\ [Next]_vars => TypeInv'
<1> SUFFICES ASSUME TypeInv, [Next]_vars PROVE TypeInv'
  OBVIOUS
<1>1. ASSUME NEW r \in Requests, Cancel(r) PROVE TypeInv'
  <2>1. TypeOK'
    BY <1>1 DEF Cancel, TypeInv, TypeOK
  <2>2. \A q \in Requests : Control(q)'
    BY <1>1, ControlKept DEF Cancel, TypeInv
  <2> QED
    BY <2>1, <2>2 DEF TypeInv
<1>2. ASSUME UNCHANGED vars PROVE TypeInv'
  <2>1. TypeOK'
    BY <1>2 DEF vars, TypeInv, TypeOK
  <2>2. \A q \in Requests : Control(q)'
    BY <1>2, ControlKept DEF vars, TypeInv
  <2> QED
    BY <2>1, <2>2 DEF TypeInv
<1>3. ASSUME NEW r \in Requests, ChainStep(r) PROVE TypeInv'
  BY <1>3, CallTypeInv, EndTypeInv, ResultTypeInv, ForgeTypeInv DEF ChainStep
<1> QED
  BY <1>1, <1>2, <1>3, ValidatorStepTypeInv DEF Next, AllDone

LEMMA TypeInvariant == Spec => []TypeInv
BY InitTypeInv, NextTypeInv, PTL DEF Spec

(* TypeOK, for every number of reviews and every nesting: whatever is read *)
(* of a prepared result is well formed, and no review ends with neither an *)
(* error nor a result (validator.go:75-77).                                *)
THEOREM TypeCorrect == Spec => []TypeOK
BY TypeInvariant, PTL DEF TypeInv

-----------------------------------------------------------------------------
(* What a cell says besides its warnings.                                  *)
Ruling(cell) == <<cell.stop, cell.valid, cell.msg>>

(* The cells of prepared results never change what they say, and a review  *)
(* only changes what its own cell says.                                    *)
Prepares == \A v \in Static : /\ Ruling(heap[v]) = Ruling(CellOf(Prepared[v]))
                              /\ ~Decisive(heap[v]) => heap[v] = CellOf(Prepared[v])

(* What a step of review r does to the cells: those of other reviews stay, *)
(* and a prepared result is only written to if it ends chains, and then    *)
(* only its warnings.                                                      *)
HeapStep(r) ==
  /\ \A q \in Requests : q # r => heap'[q] = heap[q]
  /\ \A v \in Static : /\ Ruling(heap'[v]) = Ruling(heap[v])
                       /\ ~Decisive(heap[v]) => heap'[v] = heap[v]

(* A review that is writing warnings writes them to a result that ends     *)
(* chains.                                                                 *)
Writes(q) ==
  pc[q] \in {"writeLen", "writeData"} => Decisive(heap[ret[q].ref])

LEMMA EveryHeapStep ==
  ASSUME TypeInv, NEW r \in Requests, Writes(r),
         ChainStep(r) \/ ValidatorStep(r) \/ Cancel(r)
  PROVE  HeapStep(r)
<1> USE DEF HeapStep
<1>0. /\ heap \in [Pointers -> Cell]
      /\ Pointers = Requests \cup Static /\ Requests \cap Static = {}
      /\ ret[r].ref \in {r} \cup Static
  BY PreparedAssumption DEF TypeInv, TypeOK, Control, Pointers
<1>1. CASE UNCHANGED heap
  BY <1>1
<1>2. ASSUME NEW cell, heap' = [heap EXCEPT ![r] = cell]
      PROVE  HeapStep(r)
  BY <1>0, <1>2
<1>3. ASSUME Decisive(heap[ret[r].ref]), NEW data, NEW len,
             \/ heap' = [heap EXCEPT ![ret[r].ref].data = data]
             \/ heap' = [heap EXCEPT ![ret[r].ref].len = len]
      PROVE  HeapStep(r)
  <2>1. \A p \in Pointers : p # ret[r].ref => heap'[p] = heap[p]
    BY <1>0, <1>3
  <2>2. Ruling(heap'[ret[r].ref]) = Ruling(heap[ret[r].ref])
    <3>1. heap[ret[r].ref] \in Cell
      BY <1>0
    <3>2. \/ heap'[ret[r].ref] = [heap[ret[r].ref] EXCEPT !.data = data]
          \/ heap'[ret[r].ref] = [heap[ret[r].ref] EXCEPT !.len = len]
      BY <1>0, <1>3
    <3> QED
      BY <3>1, <3>2 DEF Cell, Ruling
  <2> QED
    BY <1>0, <1>3, <2>1, <2>2
<1>4. CASE LoopEnd(r)
  BY <1>2, <1>4 DEF LoopEnd, ReturnFrom
<1>5. CASE ValidatorReturns(r)
  BY <1>1, <1>2, <1>5 DEF ValidatorReturns
<1>6. CASE Stop(r)
  BY <1>3, <1>6 DEF Stop, EndsChain, Given, Decisive
<1>7. CASE StopReturn(r)
  BY <1>3, <1>7 DEF StopReturn, ReturnFrom, Writes
<1>8. ASSUME Cancel(r) \/ Start(r) \/ ContextDone(r) \/ Proceed(r) \/ CallValidator(r)
               \/ CallChain(r) \/ Fail(r) \/ Continue(r) \/ Forge(r)
               \/ ValidatorFails(r) \/ ValidatorPanics(r)
      PROVE  UNCHANGED heap
  BY <1>8 DEF Cancel, Start, ContextDone, Proceed, CallValidator, CallChain, Fail, Continue,
              Forge, ValidatorFails, ValidatorPanics, ReturnFrom
<1> QED
  BY <1>1, <1>4, <1>5, <1>6, <1>7, <1>8 DEF ChainStep, ValidatorStep

-----------------------------------------------------------------------------
(* None of the results of a review so far ends chains, or the last does.   *)
Results(q) == hist[q].results
Passing(q) == \A k \in DOMAIN Results(q) : ~Decisive(Results(q)[k])
Ending(q)  ==
  /\ Results(q) # <<>>
  /\ Decisive(Last(Results(q)))
  /\ \A k \in DOMAIN Results(q) : k < Len(Results(q)) => ~Decisive(Results(q)[k])

(* A cell that says of a review what its validators have said.             *)
Tells(q, cell) ==
  \/ Passing(q) /\ ~Decisive(cell)
  \/ Ending(q) /\ Ruling(cell) = Ruling(Last(Results(q)))

(* Where what the validators said is: nobody has objected while a chain    *)
(* goes on, and the result on its way up says it, and then the answer.     *)
Told(q) ==
  /\ pc[q] \in {"idle", "select", "call", "validator"} => Passing(q)
  /\ pc[q] \in {"returned", "writeLen", "writeData", "forge"} /\ ret[q].kind = "result" =>
       Tells(q, heap[ret[q].ref])
  /\ Writes(q)
  /\ answer[q].kind = "result" => pc[q] = "done"
  /\ Answered(q) =>
       \/ Passing(q) /\ answer[q].valid
       \/ /\ Ending(q)
          /\ answer[q].valid = Last(Results(q)).valid
          /\ answer[q].msg = Last(Results(q)).msg

VerdictInv == Prepares /\ \A q \in Requests : Told(q)

(* Two cells that say the same end chains, or not, alike.                  *)
LEMMA SameRuling ==
  ASSUME NEW x, NEW y, Ruling(x) = Ruling(y)
  PROVE  /\ Decisive(x) <=> Decisive(y)
         /\ \A q : Tells(q, x) <=> Tells(q, y)
BY DEF Ruling, Decisive, Tells

LEMMA InitVerdictInv == Init => VerdictInv
<1> SUFFICES ASSUME Init PROVE VerdictInv
  OBVIOUS
<1>1. Prepares
  BY DEF Init, Prepares, Pointers
<1>2. ASSUME NEW q \in Requests PROVE Told(q)
  <2>1. pc[q] = "idle" /\ Results(q) = <<>> /\ answer[q].kind = "none"
    BY DEF Init, Results, NoAnswer
  <2> QED
    BY <2>1 DEF Told, Passing, Writes, Answered
<1> QED
  BY <1>1, <1>2 DEF VerdictInv

(* The cells say what they said to everyone but r.                         *)
LEMMA OthersTold ==
  ASSUME TypeInv, NEW r \in Requests, HeapStep(r),
         NEW q \in Requests, Told(q),
         pc'[q] = pc[q], ret'[q] = ret[q], answer'[q] = answer[q],
         Results(q)' = Results(q),
         q = r => Ruling(heap'[ret[q].ref]) = Ruling(heap[ret[q].ref])
  PROVE  Told(q)'
<1>1. ret[q].ref \in {q} \cup Static
  BY DEF TypeInv, Control
<1>2. Ruling(heap'[ret[q].ref]) = Ruling(heap[ret[q].ref])
  <2>1. CASE ret[q].ref \in Static
    BY <2>1 DEF HeapStep
  <2>2. CASE ret[q].ref = q /\ q # r
    BY <2>2 DEF HeapStep, Ruling
  <2> QED
    BY <1>1, <2>1, <2>2
<1>3. /\ (Passing(q))' = Passing(q)
      /\ (Ending(q))' = Ending(q)
  BY DEF Passing, Ending
<1>4. Decisive(heap'[ret[q].ref]) <=> Decisive(heap[ret[q].ref])
  BY <1>2, SameRuling
<1>5. Tells(q, heap[ret[q].ref])' <=> Tells(q, heap[ret[q].ref])
  BY <1>2, <1>3, <1>4 DEF Tells
<1>6. Answered(q)' <=> Answered(q)
  BY DEF Answered
<1>7. Writes(q)' <=> Writes(q)
  BY <1>4 DEF Writes
<1> QED
  BY <1>3, <1>5, <1>6, <1>7 DEF Told

(* A step that gives no verdict and takes none.                            *)
LEMMA QuietTold ==
  ASSUME TypeInv, VerdictInv, NEW r \in Requests,
         Cancel(r) \/ Start(r) \/ ContextDone(r) \/ Proceed(r) \/ CallValidator(r)
           \/ CallChain(r) \/ Fail(r) \/ ValidatorFails(r) \/ ValidatorPanics(r)
  PROVE  Told(r)'
<1> USE DEF TypeInv, TypeOK, Goto
<1>0. Told(r) /\ hist[r] \in History /\ heap' = heap
  BY DEF VerdictInv, Cancel, Start, ContextDone, Proceed, CallValidator, CallChain, Fail,
         ValidatorFails, ValidatorPanics, ReturnFrom
<1>1. Results(r)' = Results(r)
  <2>1. CASE CallValidator(r)
    BY <2>1 DEF CallValidator, Results, History
  <2> QED
    BY <2>1 DEF Results, Cancel, Start, ContextDone, Proceed, CallChain, Fail, ValidatorFails,
                ValidatorPanics, ReturnFrom
<1>2. (Passing(r))' = Passing(r)
  BY <1>1 DEF Passing
<1>3. CASE Cancel(r)
  <2>1. HeapStep(r)
    BY <1>0, <1>3, EveryHeapStep DEF Told
  <2> QED
    BY <1>0, <1>1, <1>3, <2>1, OthersTold DEF Cancel
<1>4. CASE Start(r) \/ Proceed(r) \/ CallValidator(r) \/ CallChain(r)
  BY <1>0, <1>2, <1>4 DEF Start, Proceed, CallValidator, CallChain, Told, Writes, Answered
<1>5. CASE ContextDone(r) \/ Fail(r)
  <2>1. \E kind \in Kinds \ {"result"} : ReturnFrom(r, kind, r, heap)
    BY <1>5 DEF ContextDone, Fail, Return, Kinds
  <2>2. pc[r] # "done"
    BY <1>5 DEF ContextDone, Fail
  <2> QED
    BY <1>0, <2>1, <2>2 DEF ReturnFrom, Told, Writes, Answered
<1>6. CASE ValidatorFails(r)
  BY <1>0, <1>6 DEF ValidatorFails, Told, Writes, Answered
<1>7. CASE ValidatorPanics(r)
  BY <1>0, <1>7 DEF ValidatorPanics, Told, Writes, Answered, NoAnswer
<1> QED
  BY <1>3, <1>4, <1>5, <1>6, <1>7

(* What a chain that ran to its end, or is ended by a result, says.        *)
LEMMA ChainTold ==
  ASSUME TypeInv, VerdictInv, NEW r \in Requests,
         LoopEnd(r) \/ Stop(r) \/ StopReturn(r) \/ Continue(r) \/ Forge(r)
  PROVE  Told(r)'
<1> USE DEF TypeInv, TypeOK, Goto
<1>0. Told(r) /\ Results(r)' = Results(r)
  BY DEF VerdictInv, Results, LoopEnd, Stop, StopReturn, Continue, Forge, ReturnFrom
<1>1. (Passing(r))' = Passing(r) /\ (Ending(r))' = Ending(r)
  BY <1>0 DEF Passing, Ending
<1>2. HeapStep(r)
  BY <1>0, EveryHeapStep DEF ChainStep, Told
<1>3. ret[r].ref \in {r} \cup Static /\ ret[r].ref \in Pointers /\ heap[ret[r].ref] \in Cell
  BY DEF Control, Return
<1>4. CASE LoopEnd(r)
  <2>1. Passing(r) /\ pc[r] = "select" /\ answer[r].kind # "result"
    BY <1>0, <1>4 DEF LoopEnd, Told
  <2>2. /\ heap'[r] = CellOf(Passed(Top(r).warnings))
        /\ ret'[r] = [kind |-> "result", ref |-> r]
        /\ pc'[r] \in {"forge", "returned"}
        /\ answer' = answer
    BY <1>4 DEF LoopEnd, ReturnFrom, Pointers
  <2>3. ~Decisive(heap'[r])
    BY <2>2 DEF CellOf, Passed, Decisive
  <2> QED
    BY <1>1, <2>1, <2>2, <2>3 DEF Told, Tells, Writes, Answered
<1>5. CASE Stop(r)
  <2>1. /\ pc[r] = "returned" /\ ret[r].kind = "result"
        /\ Decisive(heap[ret[r].ref])
        /\ pc'[r] \in {"writeLen", "writeData"} /\ ret' = ret /\ answer' = answer
        /\ \/ heap' = [heap EXCEPT ![ret[r].ref].data = Gathered(r)]
           \/ heap' = [heap EXCEPT ![ret[r].ref].len = Len(Gathered(r))]
    BY <1>5 DEF Stop, EndsChain, Given, Decisive
  <2>2. \/ heap'[ret[r].ref] = [heap[ret[r].ref] EXCEPT !.data = Gathered(r)]
        \/ heap'[ret[r].ref] = [heap[ret[r].ref] EXCEPT !.len = Len(Gathered(r))]
    BY <1>3, <2>1
  <2>3. Ruling(heap'[ret[r].ref]) = Ruling(heap[ret[r].ref])
    BY <1>3, <2>2 DEF Cell, Ruling
  <2>4. Decisive(heap'[ret[r].ref]) /\ Tells(r, heap[ret[r].ref])
    BY <1>0, <2>1, <2>3, SameRuling DEF Told
  <2>5. Tells(r, heap[ret[r].ref])'
    BY <1>1, <1>0, <2>1, <2>3, <2>4 DEF Tells
  <2> QED
    BY <1>0, <2>1, <2>4, <2>5 DEF Told, Writes, Answered
<1>6. CASE StopReturn(r)
  <2>1. /\ pc[r] \in {"writeLen", "writeData"} /\ ret[r].kind = "result"
        /\ ret'[r] = [kind |-> "result", ref |-> ret[r].ref]
        /\ pc'[r] \in {"forge", "returned"} /\ answer' = answer
        /\ \/ heap' = [heap EXCEPT ![ret[r].ref].data = Top(r).warnings]
           \/ heap' = [heap EXCEPT ![ret[r].ref].len = Len(Top(r).warnings)]
    BY <1>6 DEF StopReturn, ReturnFrom, Control
  <2>2. \/ heap'[ret[r].ref] = [heap[ret[r].ref] EXCEPT !.data = Top(r).warnings]
        \/ heap'[ret[r].ref] = [heap[ret[r].ref] EXCEPT !.len = Len(Top(r).warnings)]
    BY <1>3, <2>1
  <2>3. Ruling(heap'[ret[r].ref]) = Ruling(heap[ret[r].ref])
    BY <1>3, <2>2 DEF Cell, Ruling
  <2>4. Tells(r, heap[ret[r].ref]) /\ Decisive(heap[ret[r].ref])
    BY <1>0, <2>1 DEF Told, Writes
  <2>5. Ending(r) /\ Ruling(heap'[ret'[r].ref]) = Ruling(Last(Results(r)))
    BY <2>1, <2>3, <2>4 DEF Tells
  <2>6. Tells(r, heap[ret[r].ref])'
    BY <1>0, <1>1, <2>5 DEF Tells
  <2> QED
    BY <1>0, <2>1, <2>6 DEF Told, Writes, Answered
<1>7. CASE Continue(r)
  <2>1. /\ ret[r].kind = "result" /\ pc[r] = "returned" /\ pc'[r] = "select"
        /\ ~Decisive(heap[ret[r].ref]) /\ answer' = answer
    BY <1>7 DEF Continue, EndsChain, Given, Decisive
  <2>2. Tells(r, heap[ret[r].ref])
    BY <1>0, <2>1 DEF Told
  <2>3. Passing(r)
    BY <2>1, <2>2, SameRuling DEF Tells, Ending
  <2> QED
    BY <1>0, <1>1, <2>1, <2>3 DEF Told, Writes, Answered
<1>8. CASE Forge(r)
  <2>1. /\ pc[r] = "forge" /\ pc'[r] = "done"
        /\ ret[r].kind # "result" => answer'[r].kind = ret[r].kind
        /\ ret[r].kind = "result" => /\ answer'[r].valid = heap[ret[r].ref].valid
                                     /\ answer'[r].msg = heap[ret[r].ref].msg
    BY <1>8 DEF Forge, Given, NoAnswer
  <2>2. ret[r].kind = "result" => Tells(r, heap[ret[r].ref])
    BY <1>0, <2>1 DEF Told
  <2>3. ret[r].kind = "result" =>
          \/ Passing(r) /\ answer'[r].valid
          \/ /\ Ending(r)
             /\ answer'[r].valid = Last(Results(r)).valid
             /\ answer'[r].msg = Last(Results(r)).msg
    <3>1. heap[ret[r].ref].valid \in BOOLEAN
      BY <1>3 DEF Cell
    <3> QED
      BY <2>1, <2>2, <3>1 DEF Tells, Decisive, Ruling
  <2> QED
    BY <1>0, <1>1, <2>1, <2>3 DEF Told, Writes, Answered
<1> QED
  BY <1>4, <1>5, <1>6, <1>7, <1>8

(* One result more: the others stay where they were, and it is the last.  *)
LEMMA OneMore ==
  ASSUME NEW s \in Seq(Result), NEW res \in Result, NEW new, new = Append(s, res),
         \A k \in DOMAIN s : ~Decisive(s[k])
  PROVE  /\ new # <<>> /\ Last(new) = res
         /\ \A k \in DOMAIN new : k < Len(new) => ~Decisive(new[k])
         /\ ~Decisive(res) => \A k \in DOMAIN new : ~Decisive(new[k])
<1>1. Len(new) = Len(s) + 1 /\ DOMAIN new = 1..Len(new) /\ Len(s) \in Nat /\ DOMAIN s = 1..Len(s)
  BY AppendProperties, LenProperties
<1>2. new[Len(s) + 1] = res /\ \A k \in 1..Len(s) : new[k] = s[k]
  BY AppendProperties
<1>3. \A k \in DOMAIN new : k = Len(s) + 1 \/ k \in 1..Len(s)
  BY <1>1
<1>4. \A k \in 1..Len(s) : ~Decisive(new[k])
  BY <1>1, <1>2
<1>5. new # <<>>
  BY AppendProperties
<1> QED
  BY <1>1, <1>2, <1>3, <1>4, <1>5 DEF Last

(* A validator's result is the last one, and the cell it is in says it.    *)
LEMMA ResultTold ==
  ASSUME TypeInv, VerdictInv, NEW r \in Requests, ValidatorReturns(r)
  PROVE  Told(r)'
<1> USE DEF TypeInv, TypeOK, Goto
<1>1. PICK res \in Returns[Element(r)] :
        LET shared == Element(r) \in Static /\ res = Prepared[Element(r)]
        IN  /\ ret' = [ret EXCEPT ![r] = [kind |-> "result",
                                          ref |-> IF shared THEN Element(r) ELSE r]]
            /\ heap' = IF shared THEN heap ELSE [heap EXCEPT ![r] = CellOf(res)]
            /\ hist' = [hist EXCEPT ![r].results = Append(@, res),
                                    ![r].warnings = @ \o res.warnings]
  BY DEF ValidatorReturns
<1>2. pc[r] = "validator" /\ pc'[r] = "returned" /\ answer' = answer /\ Told(r)
  BY DEF ValidatorReturns, VerdictInv
<1>3. Passing(r) /\ answer[r].kind # "result"
  BY <1>2 DEF Told
<1>4. Results(r) \in Seq(Result) /\ res \in Result
  BY <1>2, ChainAssumption DEF Results, History, Control
<1>5. Results(r)' = Append(Results(r), res)
  BY <1>1 DEF Results, History
<1>6. \A k \in DOMAIN Results(r) : ~Decisive(Results(r)[k])
  BY <1>3 DEF Passing
<1>7. /\ Results(r)' # <<>> /\ Last(Results(r)') = res
      /\ \A k \in DOMAIN Results(r)' : k < Len(Results(r)') => ~Decisive(Results(r)'[k])
      /\ ~Decisive(res) => \A k \in DOMAIN Results(r)' : ~Decisive(Results(r)'[k])
  <2> HIDE DEF TypeInv, TypeOK, Goto
  <2> QED
    BY <1>4, <1>5, <1>6, OneMore
<1>8. Decisive(res) => Ending(r)'
  BY <1>7 DEF Ending, Decisive, Last
<1>9. ~Decisive(res) => Passing(r)'
  BY <1>7 DEF Passing, Decisive
<1>10. Ruling(heap'[ret'[r].ref]) = Ruling(res)
  <2>1. CASE Element(r) \in Static /\ res = Prepared[Element(r)]
    <3>1. Ruling(heap[Element(r)]) = Ruling(CellOf(res))
      BY <2>1 DEF VerdictInv, Prepares
    <3>2. heap' = heap /\ ret'[r].ref = Element(r)
      BY <1>1, <2>1
    <3> QED
      BY <3>1, <3>2 DEF CellOf, Ruling
  <2>2. CASE ~(Element(r) \in Static /\ res = Prepared[Element(r)])
    <3>1. heap'[r] = CellOf(res) /\ ret'[r].ref = r
      BY <1>1, <2>2 DEF Pointers
    <3> QED
      BY <3>1 DEF CellOf, Ruling
  <2> QED
    BY <2>1, <2>2
<1>11. Tells(r, heap[ret[r].ref])'
  BY <1>7, <1>8, <1>9, <1>10, SameRuling DEF Tells
<1> QED
  BY <1>2, <1>3, <1>11 DEF Told, Writes, Answered

(* A step of r leaves the control, the results and the answers of others.  *)
LEMMA OnlyOwnState ==
  ASSUME TypeInv, NEW r \in Requests, ChainStep(r) \/ ValidatorStep(r) \/ Cancel(r),
         NEW q \in Requests, q # r
  PROVE  /\ pc'[q] = pc[q] /\ ret'[q] = ret[q] /\ answer'[q] = answer[q]
         /\ Results(q)' = Results(q)
<1> USE DEF TypeInv, TypeOK, Goto, Results
<1>1. CASE Cancel(r) \/ Start(r) \/ Proceed(r) \/ CallValidator(r) \/ CallChain(r)
  BY <1>1 DEF Cancel, Start, Proceed, CallValidator, CallChain
<1>2. CASE LoopEnd(r) \/ ContextDone(r) \/ Fail(r) \/ StopReturn(r)
  BY <1>2 DEF LoopEnd, ContextDone, Fail, StopReturn, ReturnFrom
<1>3. CASE Stop(r) \/ Continue(r) \/ Forge(r)
  BY <1>3 DEF Stop, Continue, Forge
<1>4. CASE ValidatorFails(r) \/ ValidatorReturns(r) \/ ValidatorPanics(r)
  BY <1>4 DEF ValidatorFails, ValidatorReturns, ValidatorPanics
<1> QED
  BY <1>1, <1>2, <1>3, <1>4 DEF ChainStep, ValidatorStep

LEMMA NextVerdictInv == TypeInv /\ VerdictInv /\ [Next]_vars => VerdictInv'
<1> SUFFICES ASSUME TypeInv, VerdictInv, [Next]_vars PROVE VerdictInv'
  OBVIOUS
<1>1. ASSUME NEW r \in Requests, ChainStep(r) \/ ValidatorStep(r) \/ Cancel(r)
      PROVE  VerdictInv'
  <2>1. HeapStep(r)
    BY <1>1, EveryHeapStep DEF VerdictInv, Told
  <2>2. Prepares'
    <3>1. ASSUME NEW v \in Static
          PROVE  /\ Ruling(heap'[v]) = Ruling(CellOf(Prepared[v]))
                 /\ ~Decisive(heap'[v]) => heap'[v] = CellOf(Prepared[v])
      <4>1. Ruling(heap'[v]) = Ruling(heap[v]) /\ (~Decisive(heap[v]) => heap'[v] = heap[v])
        BY <2>1 DEF HeapStep
      <4>2. /\ Ruling(heap[v]) = Ruling(CellOf(Prepared[v]))
            /\ ~Decisive(heap[v]) => heap[v] = CellOf(Prepared[v])
        BY DEF VerdictInv, Prepares
      <4>3. Decisive(heap'[v]) <=> Decisive(heap[v])
        BY <4>1, SameRuling
      <4> QED
        BY <4>1, <4>2, <4>3
    <3> QED
      BY <3>1 DEF Prepares
  <2>3. Told(r)'
    BY <1>1, QuietTold, ChainTold, ResultTold DEF ChainStep, ValidatorStep
  <2>4. ASSUME NEW q \in Requests, q # r PROVE Told(q)'
    <3>1. Told(q)
      BY DEF VerdictInv
    <3> QED
      BY <1>1, <2>1, <2>4, <3>1, OnlyOwnState, OthersTold
  <2> QED
    BY <2>2, <2>3, <2>4 DEF VerdictInv
<1>2. ASSUME UNCHANGED vars PROVE VerdictInv'
  BY <1>2 DEF vars, VerdictInv, Prepares, Told, Tells, Passing, Ending, Writes, Answered, Results
<1> QED
  BY <1>1, <1>2 DEF Next, AllDone

LEMMA VerdictInvariant == Spec => [](TypeInv /\ VerdictInv)
<1>1. Init => VerdictInv
  BY InitVerdictInv
<1>2. TypeInv /\ VerdictInv /\ [Next]_vars => VerdictInv'
  BY NextVerdictInv
<1> QED
  BY <1>1, <1>2, TypeInvariant, PTL DEF Spec

(* A denial is that of the last validator of the review, with its message, *)
(* and not that of another review (validator.go:82-85).                    *)
THEOREM DenialIsItsOwn == Spec => []DenialKept
<1>1. TypeInv /\ VerdictInv => DenialKept
  BY DEF VerdictInv, Told, DenialKept, Ending, Results
<1> QED
  BY <1>1, VerdictInvariant, PTL

(* No step writes a verdict or a message of a prepared result, nor any     *)
(* word of one that lets chains go on (validator.go:82-84).                *)
THEOREM PreparedVerdictsStay == Spec => SharedVerdictsUntouched
<1>1. VerdictInv /\ TypeInv /\ [Next]_vars =>
        [\A v \in Static :
           /\ heap'[v].stop = heap[v].stop
           /\ heap'[v].valid = heap[v].valid
           /\ heap'[v].msg = heap[v].msg
           /\ ~Decisive(heap[v]) => heap'[v] = heap[v]]_vars
  <2> SUFFICES ASSUME VerdictInv, TypeInv, Next, NEW v \in Static
               PROVE  /\ heap'[v].stop = heap[v].stop
                      /\ heap'[v].valid = heap[v].valid
                      /\ heap'[v].msg = heap[v].msg
                      /\ ~Decisive(heap[v]) => heap'[v] = heap[v]
    OBVIOUS
  <2>1. CASE UNCHANGED vars
    BY <2>1 DEF vars
  <2>2. ASSUME NEW r \in Requests, ChainStep(r) \/ ValidatorStep(r) \/ Cancel(r)
        PROVE  HeapStep(r)
    BY <2>2, EveryHeapStep DEF VerdictInv, Told
  <2> QED
    BY <2>1, <2>2 DEF Next, AllDone, HeapStep, Ruling
<1> QED
  BY <1>1, VerdictInvariant, PTL DEF Spec, SharedVerdictsUntouched

-----------------------------------------------------------------------------
(* A late call leaves a context that is done, and the review never comes   *)
(* to another call: its chains look at the context before each of them.    *)
Late(q) ==
  /\ hist[q].late \in {0, 1}
  /\ hist[q].late = 1 => ctxDone[q] /\ pc[q] # "call"

LEMMA LateStep ==
  ASSUME TypeInv, \A q \in Requests : Late(q), NEW r \in Requests,
         ChainStep(r) \/ ValidatorStep(r) \/ Cancel(r)
  PROVE  \A q \in Requests : Late(q)'
<1> USE DEF TypeInv, TypeOK, Goto
<1>0. hist \in [Requests -> History] /\ \A q \in Requests : hist[q].late \in Nat
  BY DEF History
<1>1. CASE CallValidator(r)
  <2>1. hist[r].late = 0
    BY <1>1 DEF CallValidator, Late
  <2>2. hist'[r].late = IF ctxDone[r] THEN 1 ELSE 0
    BY <1>0, <1>1, <2>1 DEF CallValidator, History
  <2>3. \A q \in Requests : q # r => hist'[q] = hist[q]
    BY <1>1 DEF CallValidator
  <2>4. ctxDone' = ctxDone /\ pc' = [pc EXCEPT ![r] = "validator"]
    BY <1>1 DEF CallValidator
  <2> QED
    BY <2>2, <2>3, <2>4 DEF Late
<1>2. CASE Proceed(r)
  BY <1>2 DEF Proceed, Late
<1>3. CASE Cancel(r)
  BY <1>3 DEF Cancel, Late
<1>4. CASE LoopEnd(r) \/ ContextDone(r) \/ Fail(r) \/ StopReturn(r)
  BY <1>4 DEF LoopEnd, ContextDone, Fail, StopReturn, ReturnFrom, Late
<1>5. CASE ValidatorReturns(r)
  <2>1. \A q \in Requests : hist'[q].late = hist[q].late
    BY <1>0, <1>5 DEF ValidatorReturns, History
  <2> QED
    BY <1>5, <2>1 DEF ValidatorReturns, Late
<1>6. CASE Start(r) \/ CallChain(r) \/ Stop(r) \/ Continue(r) \/ Forge(r)
           \/ ValidatorFails(r) \/ ValidatorPanics(r)
  BY <1>6 DEF Start, CallChain, Stop, Continue, Forge, ValidatorFails, ValidatorPanics, Late
<1> QED
  BY <1>1, <1>2, <1>3, <1>4, <1>5, <1>6 DEF ChainStep, ValidatorStep

LateInv == \A q \in Requests : Late(q)

LEMMA LateInvariant == Spec => []LateInv
<1>1. Init => LateInv
  BY DEF Init, LateInv, Late
<1>2. TypeInv /\ LateInv /\ [Next]_vars => LateInv'
  <2> SUFFICES ASSUME TypeInv, LateInv, [Next]_vars PROVE LateInv'
    OBVIOUS
  <2>1. CASE UNCHANGED vars
    BY <2>1 DEF vars, LateInv, Late
  <2> QED
    BY <2>1, LateStep DEF Next, AllDone, LateInv
<1> QED
  BY <1>1, <1>2, TypeInvariant, PTL DEF Spec

(* Of what a review has, a step of another one changes at most the cells   *)
(* of prepared results.                                                    *)
LEMMA OwnState ==
  ASSUME TypeInv, NEW r \in Requests, ChainStep(r) \/ ValidatorStep(r) \/ Cancel(r),
         NEW q \in Requests, q # r
  PROVE  stack'[q] = stack[q] /\ hist'[q] = hist[q]
<1> USE DEF TypeInv, TypeOK
<1>1. CASE Cancel(r) \/ Start(r) \/ Proceed(r) \/ CallValidator(r) \/ CallChain(r)
  BY <1>1 DEF Cancel, Start, Proceed, CallValidator, CallChain
<1>2. CASE LoopEnd(r) \/ ContextDone(r) \/ Fail(r) \/ StopReturn(r)
  BY <1>2 DEF LoopEnd, ContextDone, Fail, StopReturn, ReturnFrom
<1>3. CASE Stop(r) \/ Continue(r) \/ Forge(r)
  BY <1>3 DEF Stop, Continue, Forge
<1>4. CASE ValidatorFails(r) \/ ValidatorReturns(r) \/ ValidatorPanics(r)
  BY <1>4 DEF ValidatorFails, ValidatorReturns, ValidatorPanics
<1> QED
  BY <1>1, <1>2, <1>3, <1>4 DEF ChainStep, ValidatorStep

-----------------------------------------------------------------------------
(* The frames of a stack one by one.                                       *)
LEMMA StackPlaces ==
  ASSUME NEW s \in Seq(Frame), s # <<>>, NEW x \in Frame
  PROVE  /\ Len(s) \in Nat \ {0} /\ Last(s) = s[Len(s)] /\ Last(s) \in Frame
         /\ \A j \in 1..Len(s) : s[j] \in Frame
         /\ Len(Append(s, x)) = Len(s) + 1
         /\ \A j \in 1..Len(s) : Append(s, x)[j] = s[j]
         /\ Append(s, x)[Len(s) + 1] = x
         /\ Front(s) \in Seq(Frame) /\ Len(Front(s)) = Len(s) - 1
         /\ \A j \in 1..(Len(s) - 1) : Front(s)[j] = s[j]
         /\ Len(s) # 1 => Last(Front(s)) = s[Len(s) - 1]
         /\ Len(Append(Front(s), x)) = Len(s)
         /\ \A j \in 1..(Len(s) - 1) : Append(Front(s), x)[j] = s[j]
         /\ Append(Front(s), x)[Len(s)] = x
<1> DEFINE n == Len(s)
           f == Front(s)
<1>1. n \in Nat \ {0}
  BY EmptySeq
<1>2. \A j \in 1..n : s[j] \in Frame
  BY ElementOfSeq
<1>3. f = SubSeq(s, 1, n - 1)
  BY Zenon DEF Front
<1>4. /\ f \in Seq(Frame) /\ Len(f) = n - 1
      /\ \A j \in 1..(n - 1) : f[j] = s[j]
  <2>1. \A j \in 1..(n - 1) : s[j] \in Frame
    BY <1>1, <1>2
  <2>2. 1 \in Int /\ n - 1 \in Int
    BY <1>1
  <2>3. /\ SubSeq(s, 1, n - 1) \in Seq(Frame)
        /\ Len(SubSeq(s, 1, n - 1)) = IF 1 <= n - 1 THEN n - 1 - 1 + 1 ELSE 0
        /\ \A j \in 1..(n - 1 - 1 + 1) : SubSeq(s, 1, n - 1)[j] = s[1 + j - 1]
    BY <2>1, <2>2, SubSeqProperties
  <2> HIDE DEF n, f
  <2>4. /\ (IF 1 <= n - 1 THEN n - 1 - 1 + 1 ELSE 0) = n - 1
        /\ 1..(n - 1 - 1 + 1) = 1..(n - 1)
        /\ \A j \in 1..(n - 1) : 1 + j - 1 = j
    BY <1>1
  <2> QED
    BY <1>3, <2>3, <2>4
<1>5. Last(s) = s[n]
  BY Zenon DEF Last
<1> HIDE DEF n, f
<1>6. n # 1 => Last(f) = s[n - 1]
  <2>1. Last(f) = f[Len(f)]
    BY Zenon DEF Last
  <2> QED
    BY <1>1, <1>4, <2>1
<1>7. \A t \in Seq(Frame) : /\ Len(Append(t, x)) = Len(t) + 1
                            /\ \A j \in 1..Len(t) : Append(t, x)[j] = t[j]
                            /\ Append(t, x)[Len(t) + 1] = x
  BY AppendProperties
<1>8. /\ Len(Append(f, x)) = n
      /\ \A j \in 1..(n - 1) : Append(f, x)[j] = s[j]
      /\ Append(f, x)[n] = x
  BY <1>1, <1>4, <1>7
<1>9. /\ Len(Append(s, x)) = n + 1
      /\ \A j \in 1..n : Append(s, x)[j] = s[j]
      /\ Append(s, x)[n + 1] = x
  BY <1>7 DEF n
<1> QED
  BY <1>1, <1>2, <1>4, <1>5, <1>6, <1>8, <1>9 DEF n, f

(* Before the frame of each chain come the warnings of the frames around   *)
(* it; with ws for those of the innermost one they are all, in order.      *)
Before(s, pre) ==
  /\ pre \in [1..Len(s) -> Seen]
  /\ pre[1] = <<>>
  /\ \A j \in 1..(Len(s) - 1) : pre[j + 1] = pre[j] \o s[j].warnings

Total(s, ws, all) == \E pre : Before(s, pre) /\ pre[Len(s)] \o ws = all

LEMMA Associative ==
  \A u, v, w \in Seen : (u \o v) \o w = u \o (v \o w)
BY ConcatAssociative DEF Seen

LEMMA TotalOne ==
  ASSUME NEW s \in Seq(Frame), Len(s) = 1, NEW ws \in Seen, NEW all
  PROVE  Total(s, ws, all) <=> ws = all
<1>1. ASSUME NEW pre, Before(s, pre) PROVE pre[Len(s)] \o ws = ws
  <2>1. pre[Len(s)] = <<>>
    BY <1>1 DEF Before
  <2> QED
    BY <2>1, ConcatEmptySeq DEF Seen
<1>2. Before(s, [j \in 1..Len(s) |-> <<>>])
  BY DEF Before, Seen
<1> QED
  BY <1>1, <1>2 DEF Total

(* A call of a nested chain.                                               *)
LEMMA TotalPush ==
  ASSUME NEW s \in Seq(Frame), s # <<>>, NEW all, Total(s, Last(s).warnings, all),
         NEW x \in Frame, x.warnings = <<>>
  PROVE  Total(Append(s, x), x.warnings, all)
<1> DEFINE n == Len(s)
           t == Append(s, x)
<1>1. PICK pre : Before(s, pre) /\ pre[n] \o Last(s).warnings = all
  BY DEF Total
<1> DEFINE next == [j \in 1..(n + 1) |-> IF j = n + 1 THEN all ELSE pre[j]]
<1>2. /\ n \in Nat \ {0} /\ Last(s) = s[n] /\ Last(s) \in Frame
      /\ Len(t) = n + 1 /\ \A j \in 1..n : t[j] = s[j]
  BY StackPlaces
<1>3. pre \in [1..n -> Seen] /\ all \in Seen
  <2>1. pre \in [1..n -> Seen] /\ n \in 1..n
    BY <1>1, <1>2 DEF Before
  <2>2. pre[n] \in Seen /\ Last(s).warnings \in Seen
    BY <1>2, <2>1 DEF Frame
  <2> QED
    BY <1>1, <2>1, <2>2, ConcatProperties DEF Seen
<1> HIDE DEF n, t
<1>4. \A j \in 1..n : next[j + 1] = next[j] \o t[j].warnings
  <2> SUFFICES ASSUME NEW j \in 1..n PROVE next[j + 1] = next[j] \o t[j].warnings
    OBVIOUS
  <2>1. next[j] = pre[j] /\ j + 1 \in 1..(n + 1)
    BY <1>2
  <2>2. CASE j = n
    BY <1>1, <1>2, <2>1, <2>2
  <2>3. CASE j # n
    <3>1. next[j + 1] = pre[j + 1] /\ j \in 1..(n - 1)
      BY <1>2, <2>1, <2>3
    <3> QED
      BY <1>1, <1>2, <2>1, <3>1 DEF Before, n
  <2> QED
    BY <2>2, <2>3
<1>5. Before(t, next)
  <2>1. next \in [1..(n + 1) -> Seen]
    BY <1>2, <1>3
  <2>2. next[1] = <<>>
    BY <1>1, <1>2 DEF Before
  <2>3. 1..(Len(t) - 1) = 1..n
    BY <1>2
  <2> QED
    BY <1>2, <1>4, <2>1, <2>2, <2>3 DEF Before
<1>6. next[Len(t)] \o x.warnings = all
  <2>1. next[Len(t)] = all
    BY <1>2
  <2> QED
    BY <1>3, <2>1, ConcatEmptySeq DEF Seen
<1> QED
  BY <1>5, <1>6 DEF Total, t

(* The return of a nested chain with the warnings ws.                      *)
LEMMA TotalPop ==
  ASSUME NEW s \in Seq(Frame), s # <<>>, Len(s) # 1, NEW ws \in Seen, NEW all,
         Total(s, ws, all)
  PROVE  Total(Front(s), Last(Front(s)).warnings \o ws, all)
<1> DEFINE n == Len(s)
           t == Front(s)
<1>1. PICK pre : Before(s, pre) /\ pre[n] \o ws = all
  BY DEF Total
<1>2. /\ n \in Nat \ {0} /\ s[1] \in Frame /\ \A j \in 1..n : s[j] \in Frame
      /\ Len(t) = n - 1 /\ \A j \in 1..(n - 1) : t[j] = s[j]
      /\ Last(t) = s[n - 1]
  <2>1. s[1] \in Frame
    BY EmptySeq, ElementOfSeq
  <2> QED
    BY <2>1, StackPlaces
<1> DEFINE rest == [j \in 1..(n - 1) |-> pre[j]]
<1> HIDE DEF n, t
<1>3. n # 1 /\ n - 1 \in 1..n /\ n - 1 \in 1..(n - 1) /\ (n - 1) + 1 = n
  BY <1>2 DEF n
<1>4. pre \in [1..n -> Seen]
  BY <1>1 DEF Before, n
<1>5. Before(t, rest)
  <2>1. rest \in [1..(n - 1) -> Seen]
    BY <1>2, <1>4
  <2>2. rest[1] = <<>>
    BY <1>1, <1>2, <1>3 DEF Before
  <2>3. \A j \in 1..((n - 1) - 1) : rest[j + 1] = rest[j] \o t[j].warnings
    <3> SUFFICES ASSUME NEW j \in 1..((n - 1) - 1) PROVE rest[j + 1] = rest[j] \o t[j].warnings
      OBVIOUS
    <3>1. j \in 1..(n - 1) /\ j + 1 \in 1..(n - 1)
      BY <1>2
    <3>2. pre[j + 1] = pre[j] \o s[j].warnings
      BY <1>1, <3>1 DEF Before, n
    <3> QED
      BY <1>2, <3>1, <3>2
  <2> QED
    BY <1>2, <2>1, <2>2, <2>3 DEF Before
<1>6. rest[Len(t)] \o (Last(t).warnings \o ws) = all
  <2>1. rest[Len(t)] = pre[n - 1] /\ pre[n - 1] \in Seen
    BY <1>2, <1>3, <1>4
  <2>2. pre[n] = pre[n - 1] \o Last(t).warnings
    BY <1>1, <1>2, <1>3 DEF Before, n
  <2>3. Last(t).warnings \in Seen
    BY <1>2, <1>3 DEF Frame
  <2>4. (pre[n - 1] \o Last(t).warnings) \o ws = pre[n - 1] \o (Last(t).warnings \o ws)
    BY <2>1, <2>3, Associative, Zenon
  <2> QED
    BY <1>1, <2>1, <2>2, <2>4
<1> QED
  BY <1>5, <1>6 DEF Total, t

(* A change of the innermost frame.                                        *)
LEMMA TotalChange ==
  ASSUME NEW s \in Seq(Frame), s # <<>>, NEW x \in Frame, NEW ws, NEW all, Total(s, ws, all)
  PROVE  Total(Append(Front(s), x), ws, all)
<1> DEFINE n == Len(s)
           t == Append(Front(s), x)
<1>1. PICK pre : Before(s, pre) /\ pre[n] \o ws = all
  BY DEF Total
<1>2. n \in Nat \ {0} /\ Len(t) = n /\ \A j \in 1..(n - 1) : t[j] = s[j]
  BY StackPlaces
<1>3. Before(t, pre)
  BY <1>1, <1>2 DEF Before
<1> QED
  BY <1>1, <1>2, <1>3 DEF Total

(* A validator has given more warnings.                                    *)
LEMMA TotalMore ==
  ASSUME NEW s \in Seq(Frame), s # <<>>, NEW ws \in Seen, NEW all, Total(s, ws, all),
         NEW more \in Seen
  PROVE  Total(s, ws \o more, all \o more)
<1>1. PICK pre : Before(s, pre) /\ pre[Len(s)] \o ws = all
  BY DEF Total
<1>2. Len(s) \in Nat \ {0}
  BY EmptySeq
<1>3. pre[Len(s)] \in Seen
  <2>1. pre \in [1..Len(s) -> Seen] /\ Len(s) \in 1..Len(s)
    BY <1>1, <1>2 DEF Before
  <2> QED
    BY <2>1
<1>4. pre[Len(s)] \o (ws \o more) = all \o more
  <2>1. (pre[Len(s)] \o ws) \o more = pre[Len(s)] \o (ws \o more)
    BY <1>3, Associative, Zenon
  <2> QED
    BY <1>1, <2>1
<1> QED
  BY <1>1, <1>4 DEF Total

(* Reading a slice whose header is whole, and a fresh result.              *)
LEMMA SliceWhole ==
  ASSUME NEW cell, NEW ws \in Seen, cell.data = ws, cell.len = Len(ws)
  PROVE  Slice(cell) = ws
<1> DEFINE n == Len(ws)
<1>1. n \in Nat /\ DOMAIN ws = 1..n /\ ws = [k \in 1..n |-> ws[k]]
  BY DEF Seen
<1>2. \A k \in 1..n : k <= n
  BY <1>1
<1> QED
  BY <1>1, <1>2 DEF Slice

LEMMA SliceOfResult == \A res \in Result : Slice(CellOf(res)) = res.warnings
<1> TAKE res \in Result
<1>1. res.warnings \in Seen
  BY DEF Result, Seen
<1>2. CellOf(res).data = res.warnings /\ CellOf(res).len = Len(res.warnings)
  BY DEF CellOf
<1> QED
  BY <1>1, <1>2, SliceWhole

LEMMA SliceOfPassed == \A ws \in Seen : Slice(CellOf(Passed(ws))) = ws
<1> TAKE ws \in Seen
<1>1. CellOf(Passed(ws)).data = ws /\ CellOf(Passed(ws)).len = Len(ws)
  BY DEF CellOf, Passed
<1> QED
  BY <1>1, SliceWhole

(* The result of a review nobody else writes to, until the review is told: *)
(* its own, or a prepared one that lets chains go on.                      *)
Owned(q) == ret[q].ref = q \/ ~Decisive(heap[ret[q].ref])

(* The warnings of a review are those its frames have gathered, with the   *)
(* ones of the result the innermost frame is about to take in; while they  *)
(* are written to a result of its own one word of the header is there.     *)
Kept(q) ==
  /\ pc[q] = "idle" => hist[q].warnings = <<>>
  /\ pc[q] \in {"select", "call", "validator"} =>
       Total(stack[q], Top(q).warnings, hist[q].warnings)
  /\ pc[q] = "returned" /\ ret[q].kind = "result" /\ Owned(q) =>
       Total(stack[q], Gathered(q), hist[q].warnings)
  /\ pc[q] \in {"writeLen", "writeData"} /\ ret[q].ref = q =>
       /\ Total(stack[q], Top(q).warnings, hist[q].warnings)
       /\ pc[q] = "writeLen" => heap[q].data = Top(q).warnings
       /\ pc[q] = "writeData" => heap[q].len = Len(Top(q).warnings)
  /\ pc[q] = "forge" /\ ret[q].kind = "result" /\ ret[q].ref = q =>
       Slice(heap[q]) = hist[q].warnings
  /\ Answered(q) /\ ret[q].ref = q => answer[q].warnings = hist[q].warnings

(* A step of another review leaves them there.                             *)
LEMMA KeptKept ==
  ASSUME NEW q \in Requests, Control(q), Kept(q),
         pc'[q] = pc[q], stack'[q] = stack[q], ret'[q] = ret[q], hist'[q] = hist[q],
         answer'[q] = answer[q], heap'[q] = heap[q],
         \A v \in Static : /\ Ruling(heap'[v]) = Ruling(heap[v])
                           /\ ~Decisive(heap[v]) => heap'[v] = heap[v]
  PROVE  Kept(q)'
<1>1. ret[q].ref \in {q} \cup Static
  BY DEF Control
<1>2. Ruling(heap'[ret[q].ref]) = Ruling(heap[ret[q].ref])
  <2>1. CASE ret[q].ref = q
    BY <2>1
  <2>2. CASE ret[q].ref \in Static
    BY <2>2
  <2> QED
    BY <1>1, <2>1, <2>2
<1>3. Decisive(heap'[ret[q].ref]) <=> Decisive(heap[ret[q].ref])
  BY <1>2, SameRuling
<1>4. Owned(q)' <=> Owned(q)
  BY <1>3 DEF Owned
<1>5. Owned(q) => heap'[ret[q].ref] = heap[ret[q].ref]
  BY <1>1 DEF Owned
<1>6. Top(q)' = Top(q)
  BY DEF Top
<1>7. Owned(q) => Gathered(q)' = Gathered(q)
  BY <1>5, <1>6 DEF Gathered, Given
<1>8. Answered(q)' <=> Answered(q)
  BY DEF Answered
<1> QED
  BY <1>4, <1>6, <1>7, <1>8 DEF Kept

(* Returning from a chain with a result that holds what it has gathered.   *)
LEMMA ReturnKept ==
  ASSUME TypeInv, NEW r \in Requests, pc[r] \in {"select", "returned", "writeLen", "writeData"},
         ~Answered(r),
         NEW kind \in Kinds, NEW ref \in {r} \cup Static, NEW h \in [Pointers -> Cell],
         ReturnFrom(r, kind, ref, h),
         kind = "result" /\ (ref = r \/ ~Decisive(h[ref])) =>
           Total(stack[r], Slice(h[ref]), hist[r].warnings)
  PROVE  Kept(r)'
<1> USE DEF TypeInv, TypeOK, Goto
<1>1. stack[r] \in Seq(Frame) /\ stack[r] # <<>>
  BY TopFacts
<1>2. /\ hist'[r] = hist[r] /\ ret'[r] = [kind |-> kind, ref |-> ref] /\ heap' = h
      /\ answer'[r] = answer[r] /\ stack'[r] = Front(stack[r])
  BY DEF ReturnFrom
<1>3. Slice(h[ref]) \in Seen
  BY SliceType DEF Pointers
<1>4. ~Answered(r)' /\ (Owned(r)' <=> ref = r \/ ~Decisive(h[ref]))
  BY <1>2 DEF Answered, Owned
<1>5. CASE Len(stack[r]) = 1
  <2>1. pc'[r] = "forge"
    BY <1>5 DEF ReturnFrom
  <2>2. kind = "result" /\ ref = r => Slice(h[r]) = hist[r].warnings
    BY <1>1, <1>3, <1>5, TotalOne
  <2> QED
    BY <1>2, <1>4, <2>1, <2>2 DEF Kept
<1>6. CASE Len(stack[r]) # 1
  <2>1. pc'[r] = "returned"
    BY <1>6 DEF ReturnFrom
  <2>2. kind = "result" /\ Owned(r)' =>
          Total(Front(stack[r]), Last(Front(stack[r])).warnings \o Slice(h[ref]),
                hist[r].warnings)
    BY <1>1, <1>3, <1>4, <1>6, TotalPop
  <2>3. Gathered(r)' = Last(Front(stack[r])).warnings \o Slice(h[ref])
    <3>1. ret'[r].ref = ref
      BY <1>2
    <3> QED
      BY <1>2, <3>1, Zenon DEF Gathered, Given, Top
  <2>4. kind = "result" /\ Owned(r)' => Total(stack'[r], Gathered(r)', hist'[r].warnings)
    BY <1>2, <2>2, <2>3
  <2> QED
    BY <1>2, <1>4, <2>1, <2>4 DEF Kept
<1> QED
  BY <1>5, <1>6

LEMMA ChainStepKept ==
  ASSUME TypeInv, VerdictInv, NEW r \in Requests, Kept(r), ChainStep(r)
  PROVE  Kept(r)'
<1> USE DEF TypeInv, TypeOK, Goto
<1>0. Told(r) /\ (pc[r] # "done" => ~Answered(r)) /\ ret[r].ref \in {r} \cup Static
  BY DEF VerdictInv, Told, Answered, Control
<1>1. CASE Start(r)
  <2> DEFINE frame == NewFrame(Root)
  <2>1. stack'[r] = <<frame>> /\ pc'[r] = "select" /\ hist'[r] = hist[r] /\ answer'[r] = answer[r]
    BY <1>1 DEF Start
  <2>2. frame \in Frame /\ frame.warnings = <<>>
    BY ChainAssumption DEF NewFrame, Frame, Seen
  <2>3. Top(r)' = frame /\ hist[r].warnings = <<>> /\ ~Answered(r)
    BY <1>0, <1>1, <2>1 DEF Top, Last, Start, Kept
  <2> HIDE DEF frame
  <2>4. Total(<<frame>>, <<>>, <<>>)
    <3>1. <<frame>> \in Seq(Frame) /\ Len(<<frame>>) = 1 /\ <<>> \in Seen
      BY <2>2 DEF Seen
    <3> QED
      BY <3>1, TotalOne, Zenon
  <2> QED
    BY <2>1, <2>2, <2>3, <2>4 DEF Kept, Answered
<1>2. CASE LoopEnd(r)
  <2> DEFINE cell == CellOf(Passed(Top(r).warnings))
             h    == [heap EXCEPT ![r] = cell]
  <2>1. Top(r) \in Frame /\ Total(stack[r], Top(r).warnings, hist[r].warnings) /\ ~Answered(r)
    BY <1>0, <1>2, TopFacts DEF LoopEnd, Kept
  <2>2. cell \in Cell /\ Slice(cell) = Top(r).warnings
    BY <2>1, PassedType, SliceOfPassed DEF Frame
  <2>3. ReturnFrom(r, "result", r, h) /\ pc[r] = "select"
    BY <1>2 DEF LoopEnd
  <2> HIDE DEF cell
  <2>4. h \in [Pointers -> Cell] /\ h[r] = cell
    BY <2>2 DEF Pointers
  <2>5. "result" \in Kinds
    BY DEF Kinds
  <2> HIDE DEF h
  <2> QED
    BY <2>1, <2>2, <2>3, <2>4, <2>5, ReturnKept
<1>3. CASE ContextDone(r)
  BY <1>0, <1>3, ReturnKept DEF ContextDone, Kinds
<1>4. CASE Proceed(r)
  BY <1>4 DEF Proceed, Kept, Top, Answered
<1>5. CASE CallValidator(r)
  <2>1. hist'[r].warnings = hist[r].warnings
    BY <1>5 DEF CallValidator, History
  <2> QED
    BY <1>5, <2>1 DEF CallValidator, Kept, Top, Answered
<1>6. CASE CallChain(r)
  <2> DEFINE frame == NewFrame(Element(r))
  <2>1. Top(r) \in Frame /\ stack[r] \in Seq(Frame) /\ stack[r] # <<>>
    BY <1>6, TopFacts DEF CallChain
  <2>2. frame \in Frame /\ frame.warnings = <<>>
    BY <1>6 DEF CallChain, NewFrame, Frame, Seen
  <2>3. /\ stack'[r] = Append(stack[r], frame) /\ pc'[r] = "select" /\ hist'[r] = hist[r]
        /\ answer'[r] = answer[r] /\ ~Answered(r)
    BY <1>0, <1>6 DEF CallChain
  <2> HIDE DEF frame
  <2>4. Top(r)' = frame
    BY <2>1, <2>2, <2>3, Stacks DEF Top
  <2>5. Total(Append(stack[r], frame), frame.warnings, hist[r].warnings)
    <3>1. Total(stack[r], Last(stack[r]).warnings, hist[r].warnings)
      BY <1>6 DEF CallChain, Kept, Top
    <3> QED
      BY <2>1, <2>2, <3>1, TotalPush
  <2> QED
    BY <2>3, <2>4, <2>5 DEF Kept, Answered
<1>7. CASE Fail(r)
  <2> DEFINE kind == IF ret[r].kind = "nil" THEN "nilError" ELSE ret[r].kind
  <2>1. kind \in Kinds /\ kind # "result"
    BY <1>7 DEF Fail, Return, Kinds
  <2>2. ReturnFrom(r, kind, r, heap) /\ pc[r] = "returned"
    BY <1>7 DEF Fail
  <2> HIDE DEF kind
  <2> QED
    BY <1>0, <2>1, <2>2, ReturnKept
<1>8. CASE Stop(r)
  <2> DEFINE frame == [Top(r) EXCEPT !.warnings = Gathered(r)]
  <2>1. pc[r] = "returned" /\ ret[r].kind = "result" /\ ~Answered(r)
    BY <1>0, <1>8 DEF Stop
  <2>2. Top(r) \in Frame /\ stack[r] \in Seq(Frame) /\ stack[r] # <<>> /\ Gathered(r) \in Seen
    BY <2>1, TopFacts, GatheredType
  <2>3. frame \in Frame /\ frame.warnings = Gathered(r)
    BY <2>2 DEF Frame
  <2>4. /\ stack'[r] = Append(Front(stack[r]), frame)
        /\ ret'[r] = ret[r] /\ hist'[r] = hist[r] /\ answer'[r] = answer[r]
        /\ \/ pc'[r] = "writeLen" /\ heap' = [heap EXCEPT ![ret[r].ref].data = Gathered(r)]
           \/ pc'[r] = "writeData" /\ heap' = [heap EXCEPT ![ret[r].ref].len = Len(Gathered(r))]
    BY <1>8 DEF Stop
  <2> HIDE DEF frame
  <2>5. Top(r)' = frame
    BY <2>2, <2>3, <2>4, Stacks DEF Top
  <2>6. ret[r].ref = r => Total(stack[r], Gathered(r), hist[r].warnings)
    BY <2>1 DEF Kept, Owned
  <2>7. ret[r].ref = r => Total(stack'[r], Gathered(r), hist[r].warnings)
    BY <2>2, <2>3, <2>4, <2>6, TotalChange
  <2>8. r \in Pointers /\ heap[r] \in Cell
    BY DEF Pointers
  <2>9. ret[r].ref = r => /\ pc'[r] = "writeLen" => heap'[r].data = Gathered(r)
                          /\ pc'[r] = "writeData" => heap'[r].len = Len(Gathered(r))
    BY <2>4, <2>8 DEF Cell
  <2> QED
    BY <2>1, <2>3, <2>4, <2>5, <2>7, <2>9 DEF Kept, Answered
<1>9. CASE StopReturn(r)
  <2> DEFINE ref == ret[r].ref
  <2>1. pc[r] \in {"writeLen", "writeData"} /\ ~Answered(r)
    BY <1>0, <1>9 DEF StopReturn
  <2>2. Top(r) \in Frame /\ Top(r).warnings \in Seen /\ Len(Top(r).warnings) \in Nat
    <3>1. Top(r) \in Frame
      BY <2>1, TopFacts
    <3> QED
      BY <3>1 DEF Frame, Seen
  <2>3. ref \in {r} \cup Static /\ ref \in Pointers /\ heap[ref] \in Cell
    BY <1>0 DEF Pointers
  <2>4. PICK h : /\ ReturnFrom(r, "result", ref, h)
                 /\ \/ pc[r] = "writeLen" /\ h = [heap EXCEPT ![ref].len = Len(Top(r).warnings)]
                    \/ pc[r] = "writeData" /\ h = [heap EXCEPT ![ref].data = Top(r).warnings]
    BY <1>9 DEF StopReturn
  <2>5. h \in [Pointers -> Cell]
    <3>1. /\ [heap[ref] EXCEPT !.len = Len(Top(r).warnings)] \in Cell
          /\ [heap[ref] EXCEPT !.data = Top(r).warnings] \in Cell
      BY <2>2, <2>3 DEF Cell
    <3> QED
      BY <2>3, <2>4, <3>1
  <2>6. CASE ref = r
    <3>1. h[r].data = Top(r).warnings /\ h[r].len = Len(Top(r).warnings)
      <4>1. pc[r] = "writeLen" => heap[r].data = Top(r).warnings
        BY <2>6 DEF Kept
      <4>2. pc[r] = "writeData" => heap[r].len = Len(Top(r).warnings)
        BY <2>6 DEF Kept
      <4> QED
        BY <2>3, <2>4, <2>6, <4>1, <4>2 DEF Cell
    <3>2. Slice(h[r]) = Top(r).warnings
      BY <2>2, <3>1, SliceWhole
    <3>3. Total(stack[r], Slice(h[ref]), hist[r].warnings)
      BY <2>1, <2>6, <3>2 DEF Kept
    <3>4. "result" \in Kinds
      BY DEF Kinds
    <3> HIDE DEF ref
    <3> QED
      BY <2>1, <2>3, <2>4, <2>5, <3>3, <3>4, ReturnKept
  <2>7. CASE ref # r
    <3>1. HeapStep(r) /\ heap' = h
      BY <1>0, <1>9, <2>4, EveryHeapStep DEF Told, ChainStep, ReturnFrom
    <3>2. Decisive(heap[ref])
      BY <1>0, <2>1 DEF Told, Writes
    <3>3. Ruling(h[ref]) = Ruling(heap[ref])
      BY <2>3, <2>7, <3>1 DEF HeapStep
    <3>4. Decisive(h[ref])
      BY <3>2, <3>3, SameRuling
    <3>5. "result" \in Kinds
      BY DEF Kinds
    <3> HIDE DEF ref
    <3> QED
      BY <2>1, <2>3, <2>4, <2>5, <2>7, <3>4, <3>5, ReturnKept
  <2> QED
    BY <2>6, <2>7
<1>10. CASE Continue(r)
  <2> DEFINE frame == [Top(r) EXCEPT !.i = @ + 1, !.warnings = Gathered(r)]
  <2>1. pc[r] = "returned" /\ ret[r].kind = "result" /\ ~Answered(r) /\ ~EndsChain(r)
    BY <1>0, <1>10 DEF Continue
  <2>2. Top(r) \in Frame /\ stack[r] \in Seq(Frame) /\ stack[r] # <<>> /\ Gathered(r) \in Seen
    BY <2>1, TopFacts, GatheredType
  <2>3. frame \in Frame /\ frame.warnings = Gathered(r)
    <3>1. Top(r).i + 1 \in Nat \ {0}
      BY <2>2 DEF Frame
    <3> QED
      BY <2>2, <3>1 DEF Frame
  <2>4. /\ stack'[r] = Append(Front(stack[r]), frame) /\ pc'[r] = "select" /\ hist'[r] = hist[r]
        /\ answer'[r] = answer[r]
    BY <1>10 DEF Continue
  <2>5. Total(stack[r], Gathered(r), hist[r].warnings)
    BY <2>1 DEF Kept, Owned, EndsChain, Given, Decisive
  <2> HIDE DEF frame
  <2>6. Top(r)' = frame
    BY <2>2, <2>3, <2>4, Stacks DEF Top
  <2>7. Total(Append(Front(stack[r]), frame), Gathered(r), hist[r].warnings)
    BY <2>2, <2>3, <2>5, TotalChange
  <2> QED
    BY <2>1, <2>3, <2>4, <2>6, <2>7 DEF Kept, Answered
<1>11. CASE Forge(r)
  <2>1. pc[r] = "forge" /\ pc'[r] = "done" /\ ret' = ret /\ hist' = hist
    BY <1>11 DEF Forge
  <2>2. Answered(r)' => ret[r].kind = "result" /\ answer'[r].warnings = Slice(Given(r))
    BY <1>11 DEF Forge, Answered, NoAnswer
  <2>3. ret[r].kind = "result" /\ ret[r].ref = r => Slice(Given(r)) = hist[r].warnings
    BY <2>1 DEF Kept, Given
  <2> QED
    BY <2>1, <2>2, <2>3 DEF Kept
<1> QED
  BY <1>1, <1>2, <1>3, <1>4, <1>5, <1>6, <1>7, <1>8, <1>9, <1>10, <1>11 DEF ChainStep

LEMMA ValidatorStepKept ==
  ASSUME TypeInv, VerdictInv, NEW r \in Requests, Kept(r), ValidatorStep(r)
  PROVE  Kept(r)'
<1> USE DEF TypeInv, TypeOK, Goto
<1>0. pc[r] = "validator" /\ ~Answered(r)
  BY DEF ValidatorStep, ValidatorFails, ValidatorReturns, ValidatorPanics, VerdictInv, Told, Answered
<1>1. CASE ValidatorFails(r)
  <2>1. ret'[r].kind # "result" /\ pc'[r] = "returned" /\ answer' = answer
    BY <1>1 DEF ValidatorFails
  <2> QED
    BY <1>0, <2>1 DEF Kept, Answered
<1>2. CASE ValidatorReturns(r)
  <2> DEFINE e == Element(r)
  <2>1. PICK res \in Returns[e] :
          LET shared == e \in Static /\ res = Prepared[e]
          IN  /\ ret' = [ret EXCEPT ![r] = [kind |-> "result", ref |-> IF shared THEN e ELSE r]]
              /\ heap' = IF shared THEN heap ELSE [heap EXCEPT ![r] = CellOf(res)]
              /\ hist' = [hist EXCEPT ![r].results = Append(@, res),
                                      ![r].warnings = @ \o res.warnings]
    BY <1>2 DEF ValidatorReturns
  <2>2. /\ Top(r) \in Frame /\ stack[r] \in Seq(Frame) /\ stack[r] # <<>>
        /\ Total(stack[r], Top(r).warnings, hist[r].warnings)
    BY <1>0, TopFacts DEF Kept
  <2>3. res \in Result /\ Top(r).warnings \in Seen /\ res.warnings \in Seen
    <3>1. e \in Validators
      BY <1>0 DEF Control
    <3>2. res \in Result
      BY <2>1, <3>1, ChainAssumption
    <3> QED
      BY <2>2, <3>2 DEF Frame, Result, Seen
  <2>4. Total(stack[r], Top(r).warnings \o res.warnings, hist[r].warnings \o res.warnings)
    BY <2>2, <2>3, TotalMore
  <2>5. hist'[r].warnings = hist[r].warnings \o res.warnings
    BY <2>1 DEF History
  <2>6. Owned(r)' => heap'[ret'[r].ref] = CellOf(res)
    <3>1. CASE e \in Static /\ res = Prepared[e]
      <4>1. heap' = heap /\ ret'[r].ref = e /\ e # r
        BY <2>1, <3>1, PreparedAssumption
      <4>2. ~Decisive(heap[e]) => heap[e] = CellOf(res)
        BY <3>1 DEF VerdictInv, Prepares
      <4> QED
        BY <4>1, <4>2 DEF Owned
    <3>2. CASE ~(e \in Static /\ res = Prepared[e])
      <4>1. heap' = [heap EXCEPT ![r] = CellOf(res)] /\ ret'[r].ref = r
        BY <2>1, <3>2
      <4> QED
        BY <4>1 DEF Pointers
    <3> QED
      BY <3>1, <3>2
  <2>7. pc'[r] = "returned" /\ stack'[r] = stack[r] /\ answer'[r] = answer[r]
    BY <1>2 DEF ValidatorReturns
  <2>8. Owned(r)' => Gathered(r)' = Top(r).warnings \o res.warnings
    <3>1. Slice(CellOf(res)) = res.warnings
      BY <2>3, SliceOfResult
    <3>2. Top(r)' = Top(r)
      BY <2>7 DEF Top
    <3> QED
      BY <2>6, <3>1, <3>2, Zenon DEF Gathered, Given
  <2> QED
    BY <1>0, <2>4, <2>5, <2>7, <2>8 DEF Kept, Answered
<1>3. CASE ValidatorPanics(r)
  BY <1>3 DEF ValidatorPanics, Kept, NoAnswer, Answered
<1> QED
  BY <1>1, <1>2, <1>3 DEF ValidatorStep

(* Each review keeps its warnings, whatever the others do.                 *)
KeptInv == \A q \in Requests : Kept(q)

LEMMA NextKept ==
  ASSUME TypeInv, VerdictInv, KeptInv, [Next]_vars
  PROVE  KeptInv'
<1> USE DEF KeptInv
<1>1. CASE UNCHANGED vars
  BY <1>1, KeptKept DEF vars, TypeInv
<1>2. ASSUME NEW r \in Requests, ChainStep(r) \/ ValidatorStep(r) \/ Cancel(r) PROVE KeptInv'
  <2>1. HeapStep(r)
    BY <1>2, EveryHeapStep DEF VerdictInv, Told
  <2>2. Kept(r)'
    <3>1. CASE Cancel(r)
      BY <3>1, KeptKept DEF Cancel, TypeInv
    <3> QED
      BY <1>2, <3>1, ChainStepKept, ValidatorStepKept
  <2>3. ASSUME NEW q \in Requests, q # r PROVE Kept(q)'
    BY <1>2, <2>1, <2>3, OnlyOwnState, OwnState, KeptKept DEF TypeInv, HeapStep
  <2> QED
    BY <2>2, <2>3
<1> QED
  BY <1>1, <1>2 DEF Next, AllDone

LEMMA KeptInvariant == Spec => []KeptInv
<1>1. Init => KeptInv
  BY DEF Init, KeptInv, Kept, NoAnswer, Answered
<1> QED
  BY <1>1, NextKept, VerdictInvariant, PTL DEF Spec

(* The warnings of a review that is not answered with a shared result are  *)
(* those its validators gave, each once and in order, through any nesting  *)
(* of chains, whatever the other reviews write (validator.go:79-83, 91).   *)
THEOREM NoWarningLost == Spec => []WarningsKept
<1>1. KeptInv => WarningsKept
  BY DEF KeptInv, Kept, WarningsKept
<1> QED
  BY <1>1, KeptInvariant, PTL
-----------------------------------------------------------------------------
(* Where a chain of chains is in the sequence of its validators.  at[i] is   *)
(* where the leaves of element i begin among the leaves l of its chain.    *)
IsCut(c, l, at) ==
  /\ at \in [1..(Len(Elements[c]) + 1) -> 0..Len(l)]
  /\ at[1] = 0
  /\ at[Len(Elements[c]) + 1] = Len(l)
  /\ \A i \in 1..Len(Elements[c]) :
       /\ at[i] <= at[i + 1]
       /\ SubSeq(l, at[i] + 1, at[i + 1]) =
            IF Elements[c][i] \in Chains THEN Leaves[Elements[c][i]] ELSE <<Elements[c][i]>>

Cut(c) == CHOOSE at : IsCut(c, Leaves[c], at)

LEMMA Segment ==
  ASSUME NEW S, NEW l \in Seq(S), NEW a \in 0..Len(l), NEW b \in 0..Len(l), a <= b,
         NEW m, m = SubSeq(l, a + 1, b)
  PROVE  Len(m) = b - a /\ \A k \in 1..Len(m) : l[a + k] = m[k]
<1>1. a \in Nat /\ b \in Nat /\ Len(l) \in Nat
  BY LenProperties
<1>2. \A k \in (a + 1)..b : l[k] \in S
  BY <1>1, ElementOfSeq
<1>3. /\ Len(SubSeq(l, a + 1, b)) = IF a + 1 <= b THEN b - (a + 1) + 1 ELSE 0
      /\ \A k \in 1..(b - (a + 1) + 1) : SubSeq(l, a + 1, b)[k] = l[a + 1 + k - 1]
  <2>1. a + 1 \in Int /\ b \in Int
    BY <1>1
  <2> QED
    BY <1>2, <2>1, SubSeqProperties
<1>4. (IF a + 1 <= b THEN b - (a + 1) + 1 ELSE 0) = b - a
  BY <1>1
<1>5. \A k \in 1..(b - a) : k \in 1..(b - (a + 1) + 1) /\ a + 1 + k - 1 = a + k
  BY <1>1
<1> QED
  BY <1>3, <1>4, <1>5

LEMMA Cuts ==
  ASSUME NEW c \in Chains
  PROVE  /\ Len(Leaves[c]) \in Nat /\ Len(Elements[c]) \in Nat
         /\ Cut(c)[1] = 0 /\ Cut(c)[Len(Elements[c]) + 1] = Len(Leaves[c])
         /\ \A i \in 1..(Len(Elements[c]) + 1) : Cut(c)[i] \in 0..Len(Leaves[c])
<1>1. Leaves[c] \in Seq(Validators) /\ Elements[c] \in Seq(Validators \cup Chains)
  BY ChainAssumption, LeavesAssumption
<1>2. \E at : IsCut(c, Leaves[c], at)
  <2>1. FlattensTo(c, Leaves[c])
    BY LeavesAssumption
  <2> QED
    BY <2>1 DEF FlattensTo, IsCut
<1>3. IsCut(c, Leaves[c], Cut(c))
  BY <1>2, Zenon DEF Cut
<1> QED
  BY <1>1, <1>3, LenProperties DEF IsCut

(* An element of a chain has its leaves between its cuts.                  *)
LEMMA ElementCut ==
  ASSUME NEW c \in Chains, NEW i \in 1..Len(Elements[c])
  PROVE  /\ Elements[c][i] \in Validators =>
              /\ Cut(c)[i + 1] = Cut(c)[i] + 1
              /\ Leaves[c][Cut(c)[i] + 1] = Elements[c][i]
         /\ Elements[c][i] \in Chains =>
              /\ Cut(c)[i + 1] = Cut(c)[i] + Len(Leaves[Elements[c][i]])
              /\ \A k \in 1..Len(Leaves[Elements[c][i]]) :
                   Leaves[c][Cut(c)[i] + k] = Leaves[Elements[c][i]][k]
<1> DEFINE e == Elements[c][i]
           l == Leaves[c]
           a == Cut(c)[i]
           b == Cut(c)[i + 1]
<1>1. l \in Seq(Validators) /\ Len(Elements[c]) \in Nat
  BY LeavesAssumption, Cuts
<1>2. i \in 1..(Len(Elements[c]) + 1) /\ i + 1 \in 1..(Len(Elements[c]) + 1)
  BY <1>1
<1>3. a \in 0..Len(l) /\ b \in 0..Len(l)
  BY <1>2, Cuts
<1>4. a <= b /\ SubSeq(l, a + 1, b) = IF e \in Chains THEN Leaves[e] ELSE <<e>>
  <2>1. \E at : IsCut(c, Leaves[c], at)
    <3>1. FlattensTo(c, Leaves[c])
      BY LeavesAssumption
    <3> QED
      BY <3>1 DEF FlattensTo, IsCut
  <2>2. IsCut(c, Leaves[c], Cut(c))
    BY <2>1, Zenon DEF Cut
  <2> QED
    BY <2>2 DEF IsCut
<1> HIDE DEF e, l, a, b
<1>5. ASSUME NEW m, m = SubSeq(l, a + 1, b), NEW n \in Nat, Len(m) = n
      PROVE  b = a + n /\ \A k \in 1..n : l[a + k] = m[k]
  <2>1. n = b - a /\ \A k \in 1..n : l[a + k] = m[k]
    BY <1>1, <1>3, <1>4, <1>5, Segment
  <2> QED
    BY <1>3, <2>1
<1>6. ASSUME e \in Validators PROVE b = a + 1 /\ l[a + 1] = e
  <2>1. SubSeq(l, a + 1, b) = <<e>> /\ Len(<<e>>) = 1 /\ <<e>>[1] = e
    BY <1>4, <1>6, ChainAssumption
  <2>2. b = a + 1 /\ \A k \in 1..1 : l[a + k] = <<e>>[k]
    BY <1>5, <2>1
  <2> QED
    BY <2>1, <2>2
<1>7. ASSUME e \in Chains
      PROVE  b = a + Len(Leaves[e]) /\ \A k \in 1..Len(Leaves[e]) : l[a + k] = Leaves[e][k]
  BY <1>4, <1>5, <1>7, Cuts
<1> QED
  BY <1>6, <1>7 DEF e, l, a, b

(* The leaves of c are those of the root from b on.                        *)
Located(c, b) ==
  \A k \in 1..Len(Leaves[c]) :
    b + k <= Len(Leaves[Root]) /\ Leaves[Root][b + k] = Leaves[c][k]

(* The leaves of the frames begin at base in the sequence of the root.     *)
Behind(s, base) ==
  /\ base \in [1..Len(s) -> Nat]
  /\ base[1] = 0 /\ s[1].chain = Root
  /\ \A j \in 1..(Len(s) - 1) :
       /\ s[j].i <= Len(Elements[s[j].chain])
       /\ Elements[s[j].chain][s[j].i] = s[j + 1].chain
       /\ base[j + 1] = base[j] + Cut(s[j].chain)[s[j].i]
  /\ \A j \in 1..Len(s) : Located(s[j].chain, base[j])

(* k leaves of the innermost chain are behind, and n of the root.          *)
Reached(s, k, n) == \E base : Behind(s, base) /\ base[Len(s)] + k = n

LEMMA ReachedOne ==
  ASSUME NEW s \in Seq(Frame), Len(s) = 1, s[1].chain = Root, NEW k \in Nat, NEW n
  PROVE  Reached(s, k, n) <=> k = n
<1>1. ASSUME NEW base, Behind(s, base) PROVE base[Len(s)] + k = k
  BY <1>1 DEF Behind
<1>2. Behind(s, [j \in 1..Len(s) |-> 0])
  <2>1. Located(Root, 0)
    <3>1. Len(Leaves[Root]) \in Nat
      BY Cuts, ChainAssumption
    <3> QED
      BY <3>1 DEF Located
  <2> QED
    BY <2>1 DEF Behind
<1> QED
  BY <1>1, <1>2 DEF Reached

(* A call of a nested chain.                                               *)
LEMMA ReachedPush ==
  ASSUME NEW s \in Seq(Frame), s # <<>>, NEW n,
         Last(s).i <= Len(Elements[Last(s).chain]),
         Reached(s, Cut(Last(s).chain)[Last(s).i], n),
         NEW x \in Frame, x.chain = Elements[Last(s).chain][Last(s).i]
  PROVE  Reached(Append(s, x), 0, n)
<1> DEFINE l == Len(s)
           t == Append(s, x)
           c == Last(s).chain
           i == Last(s).i
           cut == Cut(c)[i]
<1>1. PICK base : Behind(s, base) /\ base[l] + cut = n
  BY DEF Reached
<1>2. /\ l \in Nat \ {0} /\ Last(s) = s[l] /\ Last(s) \in Frame
      /\ Len(t) = l + 1 /\ (\A j \in 1..l : t[j] = s[j]) /\ t[l + 1] = x
  BY StackPlaces
<1>3. /\ c \in Chains /\ i \in 1..Len(Elements[c])
      /\ x.chain \in Chains /\ x.chain = Elements[c][i]
  <2>1. c \in Chains /\ i \in Nat \ {0} /\ x.chain \in Chains
    BY <1>2 DEF Frame
  <2> QED
    BY <2>1, Cuts
<1>4. /\ base \in [1..l -> Nat] /\ base[l] \in Nat /\ Located(c, base[l])
      /\ base[1] = 0 /\ s[1].chain = Root
      /\ \A j \in 1..(l - 1) : /\ s[j].i <= Len(Elements[s[j].chain])
                               /\ Elements[s[j].chain][s[j].i] = s[j + 1].chain
                               /\ base[j + 1] = base[j] + Cut(s[j].chain)[s[j].i]
      /\ \A j \in 1..l : Located(s[j].chain, base[j])
  BY <1>1, <1>2 DEF Behind
<1> HIDE DEF c, i
<1>5. cut \in Nat /\ cut + Len(Leaves[x.chain]) <= Len(Leaves[c])
      /\ Len(Leaves[x.chain]) \in Nat
      /\ \A k \in 1..Len(Leaves[x.chain]) : Leaves[c][cut + k] = Leaves[x.chain][k]
  <2>1. i \in 1..(Len(Elements[c]) + 1) /\ i + 1 \in 1..(Len(Elements[c]) + 1)
    BY <1>3, Cuts
  <2>2. cut \in 0..Len(Leaves[c]) /\ Cut(c)[i + 1] \in 0..Len(Leaves[c])
    BY <1>3, <2>1, Cuts
  <2>3. /\ Cut(c)[i + 1] = Cut(c)[i] + Len(Leaves[x.chain])
        /\ \A k \in 1..Len(Leaves[x.chain]) : Leaves[c][Cut(c)[i] + k] = Leaves[x.chain][k]
    <3>1. Elements[c][i] \in Chains
      BY <1>3
    <3>2. /\ Cut(c)[i + 1] = Cut(c)[i] + Len(Leaves[Elements[c][i]])
          /\ \A k \in 1..Len(Leaves[Elements[c][i]]) :
               Leaves[c][Cut(c)[i] + k] = Leaves[Elements[c][i]][k]
      BY <1>3, <3>1, ElementCut
    <3> QED
      BY <1>3, <3>2
  <2>4. Cut(c)[i + 1] = cut + Len(Leaves[x.chain])
        /\ \A k \in 1..Len(Leaves[x.chain]) : Leaves[c][cut + k] = Leaves[x.chain][k]
    BY <2>3
  <2>5. Len(Leaves[x.chain]) \in Nat /\ Len(Leaves[c]) \in Nat
    BY <1>3, Cuts
  <2> HIDE DEF cut
  <2> QED
    BY <2>2, <2>4, <2>5
<1> DEFINE next == [j \in 1..(l + 1) |-> IF j = l + 1 THEN n ELSE base[j]]
<1> HIDE DEF l, t, c, i, cut
<1>6. Located(x.chain, n)
  <2> SUFFICES ASSUME NEW k \in 1..Len(Leaves[x.chain])
               PROVE  n + k <= Len(Leaves[Root]) /\ Leaves[Root][n + k] = Leaves[x.chain][k]
    BY DEF Located
  <2>1. cut + k \in 1..Len(Leaves[c]) /\ n + k = base[l] + (cut + k)
    <3> DEFINE b == base[l]
               lc == Len(Leaves[c])
               lx == Len(Leaves[x.chain])
    <3>1. /\ lc \in Nat /\ lx \in Nat /\ b \in Nat /\ cut \in Nat /\ k \in 1..lx
          /\ cut + lx <= lc /\ n = b + cut
      BY <1>1, <1>3, <1>4, <1>5, Cuts
    <3> HIDE DEF b, lc, lx
    <3>2. cut + k \in 1..lc /\ n + k = b + (cut + k)
      BY <3>1
    <3> QED
      BY <3>2 DEF b, lc
  <2>2. /\ base[l] + (cut + k) <= Len(Leaves[Root])
        /\ Leaves[Root][base[l] + (cut + k)] = Leaves[c][cut + k]
    BY <1>4, <2>1 DEF Located
  <2> QED
    BY <1>5, <2>1, <2>2
<1>7. n \in Nat
  BY <1>1, <1>4, <1>5
<1>8. Behind(t, next)
  <2>1. next \in [1..(l + 1) -> Nat] /\ next[1] = 0 /\ t[1].chain = Root
    BY <1>2, <1>4, <1>7
  <2>2. ASSUME NEW j \in 1..l
        PROVE  /\ t[j].i <= Len(Elements[t[j].chain])
               /\ Elements[t[j].chain][t[j].i] = t[j + 1].chain
               /\ next[j + 1] = next[j] + Cut(t[j].chain)[t[j].i]
    <3>1. t[j] = s[j] /\ next[j] = base[j] /\ j + 1 \in 1..(l + 1)
      BY <1>2
    <3>2. CASE j = l
      <4>1. s[j] = Last(s) /\ t[j + 1] = x /\ next[j + 1] = n
        BY <1>2, <3>1, <3>2
      <4> QED
        BY <1>1, <3>1, <3>2, <4>1 DEF c, i, cut
    <3>3. CASE j # l
      <4>1. j \in 1..(l - 1) /\ t[j + 1] = s[j + 1] /\ next[j + 1] = base[j + 1]
        BY <1>2, <3>1, <3>3
      <4> QED
        BY <1>4, <3>1, <4>1
    <3> QED
      BY <3>2, <3>3
  <2>3. \A j \in 1..(l + 1) : Located(t[j].chain, next[j])
    <3> SUFFICES ASSUME NEW j \in 1..(l + 1) PROVE Located(t[j].chain, next[j])
      OBVIOUS
    <3>1. CASE j = l + 1
      BY <1>2, <1>6, <3>1
    <3>2. CASE j # l + 1
      <4>1. j \in 1..l /\ t[j] = s[j] /\ next[j] = base[j]
        BY <1>2, <3>2
      <4> QED
        BY <1>4, <4>1
    <3> QED
      BY <3>1, <3>2
  <2>4. Len(t) = l + 1 /\ 1..(Len(t) - 1) = 1..l
    BY <1>2
  <2> HIDE DEF next
  <2> QED
    BY <2>1, <2>2, <2>3, <2>4 DEF Behind
<1>9. next[Len(t)] + 0 = n
  BY <1>2, <1>7
<1> QED
  BY <1>8, <1>9 DEF Reached, t

(* The return of a nested chain that has come to its end.                  *)
LEMMA ReachedPop ==
  ASSUME NEW s \in Seq(Frame), s # <<>>, Len(s) # 1, NEW n,
         Reached(s, Len(Leaves[Last(s).chain]), n),
         NEW below, below = Last(Front(s))
  PROVE  /\ below.i <= Len(Elements[below.chain])
         /\ Reached(Front(s), Cut(below.chain)[below.i + 1], n)
<1> DEFINE l == Len(s)
           t == Front(s)
           c == Last(s).chain
<1>1. PICK base : Behind(s, base) /\ base[l] + Len(Leaves[c]) = n
  BY DEF Reached
<1>2. /\ l \in Nat \ {0} /\ Last(s) = s[l] /\ Last(s) \in Frame
      /\ Len(t) = l - 1 /\ (\A j \in 1..(l - 1) : t[j] = s[j])
      /\ below = s[l - 1] /\ \A j \in 1..l : s[j] \in Frame
  <2>1. s[1] \in Frame
    BY EmptySeq, ElementOfSeq
  <2> QED
    BY <2>1, StackPlaces
<1>3. /\ base \in [1..l -> Nat] /\ base[1] = 0 /\ s[1].chain = Root
      /\ \A j \in 1..(l - 1) : /\ s[j].i <= Len(Elements[s[j].chain])
                               /\ Elements[s[j].chain][s[j].i] = s[j + 1].chain
                               /\ base[j + 1] = base[j] + Cut(s[j].chain)[s[j].i]
      /\ \A j \in 1..l : Located(s[j].chain, base[j])
  BY <1>1 DEF Behind
<1> DEFINE rest == [j \in 1..(l - 1) |-> base[j]]
<1>4. l # 1
  OBVIOUS
<1> HIDE DEF l, t, c
<1>5. l - 1 \in 1..(l - 1) /\ l - 1 \in 1..l /\ (l - 1) + 1 = l /\ 1 \in 1..(l - 1)
  BY <1>2, <1>4
<1>6. below \in Frame /\ c \in Chains
  BY <1>2, <1>5 DEF Frame, c
<1>7. /\ below.i <= Len(Elements[below.chain])
      /\ Elements[below.chain][below.i] = c
      /\ base[l] = base[l - 1] + Cut(below.chain)[below.i]
  BY <1>2, <1>3, <1>5 DEF c
<1>8. /\ below.chain \in Chains /\ below.i \in 1..Len(Elements[below.chain])
      /\ Cut(below.chain)[below.i] \in Nat
      /\ Cut(below.chain)[below.i + 1] = Cut(below.chain)[below.i] + Len(Leaves[c])
  <2>1. below.chain \in Chains /\ below.i \in Nat \ {0}
    BY <1>6 DEF Frame
  <2>2. Len(Elements[below.chain]) \in Nat
    BY <2>1, Cuts
  <2>3. below.i \in 1..Len(Elements[below.chain]) /\ below.i \in 1..(Len(Elements[below.chain]) + 1)
    BY <1>7, <2>1, <2>2
  <2>4. Cut(below.chain)[below.i] \in 0..Len(Leaves[below.chain])
    BY <2>1, <2>3, Cuts
  <2>5. Elements[below.chain][below.i] \in Chains
    BY <1>6, <1>7
  <2>6. Cut(below.chain)[below.i + 1] =
          Cut(below.chain)[below.i] + Len(Leaves[Elements[below.chain][below.i]])
    BY <2>1, <2>3, <2>5, ElementCut
  <2> QED
    BY <1>7, <2>1, <2>3, <2>4, <2>6
<1>9. Behind(t, rest)
  <2>1. rest \in [1..(l - 1) -> Nat] /\ rest[1] = 0 /\ t[1].chain = Root
    BY <1>2, <1>3, <1>5
  <2>2. ASSUME NEW j \in 1..((l - 1) - 1)
        PROVE  /\ t[j].i <= Len(Elements[t[j].chain])
               /\ Elements[t[j].chain][t[j].i] = t[j + 1].chain
               /\ rest[j + 1] = rest[j] + Cut(t[j].chain)[t[j].i]
    <3>1. j \in 1..(l - 1) /\ j + 1 \in 1..(l - 1)
      BY <1>2
    <3>2. t[j] = s[j] /\ t[j + 1] = s[j + 1] /\ rest[j] = base[j] /\ rest[j + 1] = base[j + 1]
      BY <1>2, <3>1
    <3> QED
      BY <1>3, <3>1, <3>2
  <2>3. \A j \in 1..(l - 1) : Located(t[j].chain, rest[j])
    <3> SUFFICES ASSUME NEW j \in 1..(l - 1) PROVE Located(t[j].chain, rest[j])
      OBVIOUS
    <3>1. j \in 1..l /\ t[j] = s[j] /\ rest[j] = base[j]
      BY <1>2
    <3> QED
      BY <1>3, <3>1
  <2> HIDE DEF rest
  <2> QED
    BY <1>2, <2>1, <2>2, <2>3 DEF Behind
<1>10. rest[Len(t)] + Cut(below.chain)[below.i + 1] = n
  <2>1. rest[Len(t)] = base[l - 1] /\ base[l - 1] \in Nat
    BY <1>2, <1>3, <1>5
  <2>2. Len(Leaves[c]) \in Nat
    BY <1>6, Cuts
  <2> QED
    BY <1>1, <1>7, <1>8, <2>1, <2>2
<1> QED
  BY <1>7, <1>9, <1>10 DEF Reached, t

(* A change of the innermost frame, within its chain.                      *)
LEMMA ReachedChange ==
  ASSUME NEW s \in Seq(Frame), s # <<>>, NEW x \in Frame, x.chain = Last(s).chain,
         NEW k, NEW n, Reached(s, k, n)
  PROVE  Reached(Append(Front(s), x), k, n)
<1> DEFINE l == Len(s)
           t == Append(Front(s), x)
<1>1. PICK base : Behind(s, base) /\ base[l] + k = n
  BY DEF Reached
<1>2. /\ l \in Nat \ {0} /\ Len(t) = l /\ (\A j \in 1..(l - 1) : t[j] = s[j])
      /\ t[l] = x /\ s[l] = Last(s)
  BY StackPlaces
<1> HIDE DEF l, t
<1>3. \A j \in 1..l : t[j].chain = s[j].chain
  <2> SUFFICES ASSUME NEW j \in 1..l PROVE t[j].chain = s[j].chain
    OBVIOUS
  <2>1. j = l \/ j \in 1..(l - 1)
    BY <1>2
  <2> QED
    BY <1>2, <2>1
<1>4. Behind(t, base)
  <2>1. base \in [1..l -> Nat] /\ base[1] = 0 /\ t[1].chain = Root
    BY <1>1, <1>2, <1>3 DEF Behind, l
  <2>2. ASSUME NEW j \in 1..(l - 1)
        PROVE  /\ t[j].i <= Len(Elements[t[j].chain])
               /\ Elements[t[j].chain][t[j].i] = t[j + 1].chain
               /\ base[j + 1] = base[j] + Cut(t[j].chain)[t[j].i]
    <3>1. t[j] = s[j] /\ t[j + 1].chain = s[j + 1].chain
      BY <1>2, <1>3
    <3> QED
      BY <1>1, <3>1 DEF Behind, l
  <2>3. \A j \in 1..l : Located(t[j].chain, base[j])
    BY <1>1, <1>3 DEF Behind, l
  <2> QED
    BY <1>2, <2>1, <2>2, <2>3 DEF Behind
<1> QED
  BY <1>1, <1>2, <1>4 DEF Reached, l, t

(* The next validator of the innermost chain is the next of the root.        *)
LEMMA ReachedNext ==
  ASSUME NEW s \in Seq(Frame), s # <<>>, NEW n,
         NEW c, c = Last(s).chain, NEW i, i = Last(s).i,
         i <= Len(Elements[c]), Elements[c][i] \in Validators, Reached(s, Cut(c)[i], n)
  PROVE  /\ n \in Nat /\ n < Len(Leaves[Root])
         /\ Leaves[Root][n + 1] = Elements[c][i]
         /\ Reached(s, Cut(c)[i + 1], n + 1)
<1> DEFINE l == Len(s)
           a == Cut(c)[i]
<1>1. PICK base : Behind(s, base) /\ base[l] + a = n
  BY DEF Reached
<1>2. l \in Nat \ {0} /\ Last(s) = s[l] /\ Last(s) \in Frame
  <2>1. s[1] \in Frame
    BY EmptySeq, ElementOfSeq
  <2> QED
    BY <2>1, StackPlaces
<1>3. c \in Chains /\ i \in Nat \ {0}
  BY <1>2 DEF Frame
<1>4. i \in 1..Len(Elements[c]) /\ i \in 1..(Len(Elements[c]) + 1) /\ i + 1 \in 1..(Len(Elements[c]) + 1)
  <2>1. Len(Elements[c]) \in Nat
    BY <1>3, Cuts
  <2> QED
    BY <1>3, <2>1
<1>5. a \in 0..Len(Leaves[c]) /\ Cut(c)[i + 1] \in 0..Len(Leaves[c]) /\ Len(Leaves[c]) \in Nat
  BY <1>3, <1>4, Cuts
<1>6. Cut(c)[i + 1] = a + 1 /\ Leaves[c][a + 1] = Elements[c][i]
  BY <1>3, <1>4, ElementCut
<1>7. base[l] \in Nat /\ Located(c, base[l])
  <2>1. l \in 1..l
    BY <1>2
  <2> QED
    BY <1>1, <1>2, <2>1 DEF Behind
<1>8. Len(Leaves[Root]) \in Nat
  BY Cuts, ChainAssumption
<1> HIDE DEF l, a
<1>9. a + 1 \in 1..Len(Leaves[c])
  BY <1>5, <1>6
<1>10. base[l] + (a + 1) <= Len(Leaves[Root]) /\ Leaves[Root][base[l] + (a + 1)] = Leaves[c][a + 1]
  BY <1>7, <1>9 DEF Located
<1>11. n \in Nat /\ n + 1 = base[l] + (a + 1) /\ n < Len(Leaves[Root])
  <2> DEFINE b == base[l]
             all == Len(Leaves[Root])
  <2>1. b \in Nat /\ all \in Nat /\ a \in Nat /\ b + a = n /\ b + (a + 1) <= all
    BY <1>1, <1>5, <1>7, <1>8, <1>10 DEF a
  <2> HIDE DEF b, all
  <2>2. n \in Nat /\ n + 1 = b + (a + 1) /\ n < all
    BY <2>1
  <2> QED
    BY <2>2 DEF b, all
<1>12. Reached(s, Cut(c)[i + 1], n + 1)
  BY <1>1, <1>6, <1>11 DEF Reached, l
<1> QED
  BY <1>6, <1>10, <1>11, <1>12

(* The calls a review has made are its way through the leaves of Root.     *)
Length(q)    == Len(Elements[Top(q).chain])
Cursor(q, d) == Cut(Top(q).chain)[Top(q).i + d]
Called(q)    == Len(hist[q].calls)

Placed(q) ==
  /\ pc[q] = "idle" => hist[q].calls = <<>>
  /\ pc[q] \in {"select", "call"} =>
       Top(q).i <= Length(q) + 1 /\ Reached(stack[q], Cursor(q, 0), Called(q))
  /\ pc[q] = "validator" =>
       Reached(stack[q], Cursor(q, 1), Called(q)) /\ Leaves[Root][Called(q)] = Element(q)
  /\ pc[q] = "returned" /\ ~Decided(q) =>
       Top(q).i <= Length(q) /\ Reached(stack[q], Cursor(q, 1), Called(q))

(* The ruling on a result is what decides.                                 *)
LEMMA DecidedIs ==
  \A q : pc[q] = "returned" =>
    (Decided(q) <=> (ret[q].kind = "result" => Decisive(heap[ret[q].ref])))
BY DEF Decided, EndsChain, Given, Decisive

LEMMA PlacedKept ==
  ASSUME NEW q \in Requests, Control(q), Placed(q),
         pc'[q] = pc[q], stack'[q] = stack[q], ret'[q] = ret[q], hist'[q] = hist[q],
         heap'[q] = heap[q], \A v \in Static : Ruling(heap'[v]) = Ruling(heap[v])
  PROVE  Placed(q)'
<1>1. Ruling(heap'[ret'[q].ref]) = Ruling(heap[ret[q].ref])
  BY DEF Control
<1>2. Top(q)' = Top(q)
  BY DEF Top
<1>3. Length(q)' = Length(q) /\ Element(q)' = Element(q)
  BY <1>2 DEF Length, Element
<1>4. Cursor(q, 0)' = Cursor(q, 0) /\ Cursor(q, 1)' = Cursor(q, 1) /\ Called(q)' = Called(q)
  BY <1>2 DEF Cursor, Called
<1>5. pc[q] = "returned" => (Decided(q)' <=> Decided(q))
  <2>1. Decisive(heap'[ret'[q].ref]) <=> Decisive(heap[ret[q].ref])
    BY <1>1, SameRuling
  <2> QED
    BY <2>1 DEF Decided, EndsChain, Given, Decisive
<1> QED
  BY <1>2, <1>3, <1>4, <1>5 DEF Placed

(* The review is at the frame and the element that its top frame says.     *)
LEMMA CursorFacts ==
  ASSUME TypeInv, NEW r \in Requests, pc[r] \in {"select", "call", "validator", "returned"}
  PROVE  /\ stack[r] \in Seq(Frame) /\ stack[r] # <<>> /\ Top(r) \in Frame
         /\ Top(r) = Last(stack[r]) /\ Top(r).chain \in Chains
         /\ Top(r).i \in Nat \ {0} /\ Length(r) \in Nat
         /\ Cursor(r, 0) = Cut(Top(r).chain)[Top(r).i]
<1>1. stack[r] \in Seq(Frame) /\ stack[r] # <<>> /\ Top(r) \in Frame
  BY TopFacts
<1>2. Top(r).chain \in Chains /\ Top(r).i \in Nat \ {0}
  BY <1>1 DEF Frame
<1>3. Top(r).i + 0 = Top(r).i
  BY <1>2
<1>4. Length(r) \in Nat
  BY <1>2, Cuts DEF Length
<1> QED
  BY <1>1, <1>2, <1>3, <1>4 DEF Cursor, Top

(* Returning from a chain that has come to its end, to one that goes on.   *)
LEMMA LoopEndPlaced ==
  ASSUME TypeInv, NEW r \in Requests, Placed(r), LoopEnd(r)
  PROVE  /\ Placed(r)'
         /\ Reached(stack[r], Len(Leaves[Top(r).chain]), Called(r))
<1>1. /\ stack[r] \in Seq(Frame) /\ stack[r] # <<>> /\ Top(r) = Last(stack[r])
      /\ Top(r).chain \in Chains /\ Top(r).i \in Nat \ {0} /\ Length(r) \in Nat
      /\ Cursor(r, 0) = Cut(Top(r).chain)[Top(r).i]
  BY CursorFacts DEF LoopEnd
<1>2. Top(r).i = Length(r) + 1 /\ Reached(stack[r], Cursor(r, 0), Called(r))
  <2>1. Top(r).i > Length(r) /\ Top(r).i <= Length(r) + 1
    BY <1>1 DEF LoopEnd, Placed, More, Length
  <2> QED
    BY <1>1, <2>1 DEF LoopEnd, Placed
<1>3. Cursor(r, 0) = Len(Leaves[Top(r).chain])
  BY <1>1, <1>2, Cuts DEF Length
<1>4. Reached(stack[r], Len(Leaves[Top(r).chain]), Called(r))
  BY <1>2, <1>3
<1>5. /\ pc' = [pc EXCEPT ![r] = IF Len(stack[r]) = 1 THEN "forge" ELSE "returned"]
      /\ stack'[r] = Front(stack[r]) /\ hist' = hist
  BY DEF LoopEnd, ReturnFrom, Goto, TypeInv, TypeOK
<1>6. CASE Len(stack[r]) = 1
  BY <1>4, <1>5, <1>6 DEF Placed, TypeInv, TypeOK
<1>7. CASE Len(stack[r]) # 1
  <2> DEFINE below == Last(Front(stack[r]))
  <2>1. /\ below.i <= Len(Elements[below.chain])
        /\ Reached(Front(stack[r]), Cut(below.chain)[below.i + 1], Called(r))
    BY <1>1, <1>4, <1>7, ReachedPop
  <2>2. Top(r)' = below
    BY <1>5 DEF Top
  <2> HIDE DEF below
  <2>3. Length(r)' = Len(Elements[below.chain]) /\ Cursor(r, 1)' = Cut(below.chain)[below.i + 1]
    BY <2>2 DEF Length, Cursor
  <2>4. Called(r)' = Called(r) /\ pc'[r] = "returned"
    BY <1>5, <1>7 DEF Called, TypeInv, TypeOK
  <2> QED
    BY <1>4, <1>5, <2>1, <2>2, <2>3, <2>4 DEF Placed
<1> QED
  BY <1>6, <1>7

LEMMA ChainStepPlaced ==
  ASSUME TypeInv, VerdictInv, NEW r \in Requests, Placed(r), ChainStep(r)
  PROVE  Placed(r)'
<1> USE DEF TypeInv, TypeOK, Goto
<1>1. CASE Start(r)
  <2> DEFINE frame == NewFrame(Root)
  <2>1. /\ stack'[r] = <<frame>> /\ pc'[r] = "select" /\ hist' = hist
        /\ hist[r].calls = <<>>
    BY <1>1 DEF Start, Placed
  <2>2. frame \in Frame /\ frame.chain = Root /\ frame.i = 1
    BY ChainAssumption DEF NewFrame, Frame, Seen
  <2>3. Top(r)' = frame
    BY <2>1 DEF Top, Last
  <2> HIDE DEF frame
  <2>4. Length(r)' = Len(Elements[Root]) /\ Cursor(r, 0)' = Cut(Root)[1 + 0] /\ Called(r)' = 0
    BY <2>1, <2>2, <2>3 DEF Length, Cursor, Called
  <2>5. Cursor(r, 0)' = 0 /\ 1 <= Len(Elements[Root]) + 1
    <3>1. Len(Elements[Root]) \in Nat /\ Cut(Root)[1] = 0 /\ 1 + 0 = 1
      BY Cuts, ChainAssumption
    <3> QED
      BY <2>4, <3>1
  <2>6. Reached(<<frame>>, 0, 0)
    <3>1. <<frame>> \in Seq(Frame) /\ Len(<<frame>>) = 1 /\ <<frame>>[1].chain = Root /\ 0 \in Nat
      BY <2>2
    <3> QED
      BY <3>1, ReachedOne, Zenon
  <2> QED
    BY <2>1, <2>2, <2>3, <2>4, <2>5, <2>6 DEF Placed
<1>2. CASE LoopEnd(r)
  BY <1>2, LoopEndPlaced
<1>3. CASE ContextDone(r) \/ Fail(r)
  <2>1. /\ ret'[r].kind # "result" /\ pc'[r] \in {"forge", "returned"}
    <3>1. CASE ContextDone(r)
      BY <3>1 DEF ContextDone, ReturnFrom
    <3>2. CASE Fail(r)
      BY <3>2 DEF Fail, ReturnFrom
    <3> QED
      BY <1>3, <3>1, <3>2
  <2>2. pc'[r] = "returned" => Decided(r)'
    BY <2>1 DEF Decided
  <2> QED
    BY <2>1, <2>2 DEF Placed
<1>4. CASE Proceed(r)
  <2>1. Top(r)' = Top(r) /\ stack' = stack /\ hist' = hist /\ pc'[r] = "call" /\ pc[r] = "select"
    BY <1>4 DEF Proceed, Top
  <2>2. Length(r)' = Length(r) /\ Cursor(r, 0)' = Cursor(r, 0) /\ Called(r)' = Called(r)
    BY <2>1 DEF Length, Cursor, Called
  <2> QED
    BY <2>1, <2>2 DEF Placed
<1>5. CASE CallValidator(r)
  <2>1. /\ stack[r] \in Seq(Frame) /\ stack[r] # <<>> /\ Top(r) = Last(stack[r])
        /\ Cursor(r, 0) = Cut(Top(r).chain)[Top(r).i]
    BY <1>5, CursorFacts DEF CallValidator
  <2>2. /\ Top(r).i <= Length(r) /\ Element(r) \in Validators
        /\ Reached(stack[r], Cut(Top(r).chain)[Top(r).i], Called(r))
    BY <1>5, <2>1 DEF CallValidator, Control, Placed, More, Length
  <2>3. /\ Called(r) \in Nat /\ Leaves[Root][Called(r) + 1] = Element(r)
        /\ Reached(stack[r], Cut(Top(r).chain)[Top(r).i + 1], Called(r) + 1)
    BY <2>1, <2>2, ReachedNext DEF Element, Length
  <2>4. hist'[r].calls = Append(hist[r].calls, Element(r))
    BY <1>5 DEF CallValidator, History
  <2>5. Called(r)' = Called(r) + 1
    <3>1. hist[r].calls \in Seq(Validators)
      BY DEF History
    <3> QED
      BY <2>2, <2>4, <3>1, AppendProperties DEF Called
  <2>6. /\ stack' = stack /\ pc'[r] = "validator"
    BY <1>5 DEF CallValidator
  <2>7. Top(r)' = Top(r)
    BY <2>6 DEF Top
  <2>8. Element(r)' = Element(r) /\ Cursor(r, 1)' = Cut(Top(r).chain)[Top(r).i + 1]
    BY <2>7 DEF Element, Cursor
  <2> QED
    BY <2>3, <2>5, <2>6, <2>8 DEF Placed
<1>6. CASE CallChain(r)
  <2> DEFINE frame == NewFrame(Element(r))
  <2>1. /\ stack[r] \in Seq(Frame) /\ stack[r] # <<>> /\ Top(r) = Last(stack[r])
        /\ Cursor(r, 0) = Cut(Top(r).chain)[Top(r).i] /\ Top(r) \in Frame
    BY <1>6, CursorFacts DEF CallChain
  <2>2. /\ Top(r).i <= Length(r) /\ Element(r) \in Chains
        /\ Reached(stack[r], Cut(Top(r).chain)[Top(r).i], Called(r))
    BY <1>6, <2>1 DEF CallChain, Control, Placed, More, Length
  <2>3. frame \in Frame /\ frame.chain = Element(r) /\ frame.i = 1
    BY <2>1, <2>2 DEF NewFrame, Frame, Seen
  <2>4. stack'[r] = Append(stack[r], frame) /\ pc'[r] = "select" /\ hist' = hist
    BY <1>6 DEF CallChain
  <2> HIDE DEF frame
  <2>5. Reached(Append(stack[r], frame), 0, Called(r))
    BY <2>1, <2>2, <2>3, ReachedPush DEF Element, Length
  <2>6. Top(r)' = frame
    BY <2>1, <2>3, <2>4, Stacks DEF Top
  <2>7. /\ Length(r)' = Len(Elements[Element(r)]) /\ Cursor(r, 0)' = Cut(Element(r))[1 + 0]
        /\ Called(r)' = Called(r)
    BY <2>3, <2>4, <2>6 DEF Length, Cursor, Called
  <2>8. Cursor(r, 0)' = 0 /\ 1 <= Len(Elements[Element(r)]) + 1
    <3>1. Len(Elements[Element(r)]) \in Nat /\ Cut(Element(r))[1] = 0 /\ 1 + 0 = 1
      BY <2>2, Cuts
    <3> QED
      BY <2>7, <3>1
  <2> QED
    BY <2>3, <2>4, <2>5, <2>6, <2>7, <2>8 DEF Placed
<1>7. CASE Stop(r)
  <2>1. pc'[r] \in {"writeLen", "writeData"}
    BY <1>7 DEF Stop
  <2> QED
    BY <2>1 DEF Placed
<1>8. CASE StopReturn(r)
  <2>1. /\ ret'[r].kind = "result" /\ ret'[r].ref = ret[r].ref /\ pc'[r] \in {"forge", "returned"}
        /\ pc[r] \in {"writeLen", "writeData"}
    BY <1>8 DEF StopReturn, ReturnFrom
  <2>2. Writes(r) /\ ret[r].ref \in {r} \cup Static
    BY DEF VerdictInv, Told, Control
  <2>3. Ruling(heap'[ret[r].ref]) = Ruling(heap[ret[r].ref])
    <3>1. heap[ret[r].ref] \in Cell /\ ret[r].ref \in Pointers
      BY <2>2 DEF Pointers
    <3>2. \/ heap'[ret[r].ref] = [heap[ret[r].ref] EXCEPT !.len = Len(Top(r).warnings)]
          \/ heap'[ret[r].ref] = [heap[ret[r].ref] EXCEPT !.data = Top(r).warnings]
      BY <1>8, <3>1 DEF StopReturn, ReturnFrom
    <3> QED
      BY <3>1, <3>2 DEF Cell, Ruling
  <2>4. Decisive(heap'[ret'[r].ref])
    BY <2>1, <2>2, <2>3, SameRuling DEF Writes
  <2>5. pc'[r] = "returned" => Decided(r)'
    BY <2>4 DEF Decided, EndsChain, Given, Decisive
  <2> QED
    BY <2>1, <2>5 DEF Placed
<1>9. CASE Continue(r)
  <2> DEFINE frame == [Top(r) EXCEPT !.i = @ + 1, !.warnings = Gathered(r)]
  <2>1. /\ stack[r] \in Seq(Frame) /\ stack[r] # <<>> /\ Top(r) = Last(stack[r])
        /\ Top(r) \in Frame /\ Top(r).i \in Nat \ {0} /\ Length(r) \in Nat
    BY <1>9, CursorFacts DEF Continue
  <2>2. Gathered(r) \in Seen /\ Top(r).i + 1 \in Nat \ {0}
    BY <1>9, <2>1, GatheredType DEF Continue
  <2>3. frame \in Frame /\ frame.chain = Top(r).chain /\ frame.i = Top(r).i + 1
    BY <2>1, <2>2 DEF Frame
  <2>4. stack'[r] = Append(Front(stack[r]), frame) /\ pc'[r] = "select" /\ hist' = hist
    BY <1>9 DEF Continue
  <2> HIDE DEF frame
  <2>5. Top(r).i <= Length(r) /\ Reached(stack[r], Cursor(r, 1), Called(r))
    BY <1>9 DEF Continue, Placed, Decided
  <2>6. Reached(Append(Front(stack[r]), frame), Cursor(r, 1), Called(r))
    BY <2>1, <2>3, <2>5, ReachedChange
  <2>7. Top(r)' = frame
    BY <2>1, <2>3, <2>4, Stacks DEF Top
  <2>8. /\ Length(r)' = Length(r) /\ Cursor(r, 0)' = Cut(Top(r).chain)[Top(r).i + 1 + 0]
        /\ Called(r)' = Called(r)
    BY <2>3, <2>4, <2>7 DEF Length, Cursor, Called
  <2>9. Cursor(r, 0)' = Cursor(r, 1) /\ frame.i <= Length(r) + 1
    <3>1. Top(r).i + 1 + 0 = Top(r).i + 1
      BY <2>1
    <3>2. frame.i <= Length(r) + 1
      BY <2>1, <2>3, <2>5
    <3> QED
      BY <2>8, <3>1, <3>2 DEF Cursor
  <2> QED
    BY <2>4, <2>6, <2>7, <2>8, <2>9 DEF Placed
<1>10. CASE Forge(r)
  BY <1>10 DEF Forge, Placed
<1> QED
  BY <1>1, <1>2, <1>3, <1>4, <1>5, <1>6, <1>7, <1>8, <1>9, <1>10 DEF ChainStep

LEMMA ValidatorStepPlaced ==
  ASSUME TypeInv, NEW r \in Requests, Placed(r), ValidatorStep(r)
  PROVE  Placed(r)'
<1> USE DEF TypeInv, TypeOK, Goto
<1>1. CASE ValidatorFails(r)
  <2>1. ret'[r].kind # "result" /\ pc'[r] = "returned"
    BY <1>1 DEF ValidatorFails
  <2>2. Decided(r)'
    BY <2>1 DEF Decided
  <2> QED
    BY <2>1, <2>2 DEF Placed
<1>2. CASE ValidatorReturns(r)
  <2>1. pc[r] = "validator" /\ pc'[r] = "returned" /\ stack' = stack
    BY <1>2 DEF ValidatorReturns
  <2>2. Called(r)' = Called(r)
    BY <1>2 DEF ValidatorReturns, Called, History
  <2>3. Top(r)' = Top(r)
    BY <2>1 DEF Top
  <2>4. Length(r)' = Length(r) /\ Cursor(r, 1)' = Cursor(r, 1)
    BY <2>3 DEF Length, Cursor
  <2>5. Top(r).i <= Length(r)
    BY <2>1 DEF Control, More, Length
  <2> QED
    BY <2>1, <2>2, <2>3, <2>4, <2>5 DEF Placed
<1>3. CASE ValidatorPanics(r)
  BY <1>3 DEF ValidatorPanics, Placed
<1> QED
  BY <1>1, <1>2, <1>3 DEF ValidatorStep

PlacedInv == \A q \in Requests : Placed(q)

LEMMA NextPlaced ==
  ASSUME TypeInv, VerdictInv, PlacedInv, [Next]_vars
  PROVE  PlacedInv'
<1> USE DEF PlacedInv
<1>1. CASE UNCHANGED vars
  BY <1>1, PlacedKept DEF vars, TypeInv
<1>2. ASSUME NEW r \in Requests, ChainStep(r) \/ ValidatorStep(r) \/ Cancel(r) PROVE PlacedInv'
  <2>1. HeapStep(r)
    BY <1>2, EveryHeapStep DEF VerdictInv, Told
  <2>2. Placed(r)'
    <3>1. CASE Cancel(r)
      BY <3>1, PlacedKept DEF Cancel, TypeInv
    <3> QED
      BY <1>2, <3>1, ChainStepPlaced, ValidatorStepPlaced
  <2>3. ASSUME NEW q \in Requests, q # r PROVE Placed(q)'
    BY <1>2, <2>1, <2>3, OnlyOwnState, OwnState, PlacedKept DEF TypeInv, HeapStep
  <2> QED
    BY <2>2, <2>3
<1> QED
  BY <1>1, <1>2 DEF Next, AllDone

LEMMA PlacedInvariant == Spec => []PlacedInv
<1>1. Init => PlacedInv
  BY DEF Init, PlacedInv, Placed
<1> QED
  BY <1>1, NextPlaced, VerdictInvariant, PTL DEF Spec

-----------------------------------------------------------------------------
(* What the way through the sequence says of an answer.                    *)

(* The validator that is called next.                                      *)
LEMMA NextLeaf ==
  ASSUME TypeInv, NEW r \in Requests, Placed(r), CallValidator(r)
  PROVE  Called(r) < Len(Leaves[Root]) /\ Leaves[Root][Called(r) + 1] = Element(r)
<1>1. pc[r] = "call"
  BY DEF CallValidator
<1>2. /\ stack[r] \in Seq(Frame) /\ stack[r] # <<>> /\ Top(r) = Last(stack[r])
      /\ Cursor(r, 0) = Cut(Top(r).chain)[Top(r).i]
  BY <1>1, CursorFacts
<1>3. /\ Top(r).i <= Length(r) /\ Element(r) \in Validators
      /\ Reached(stack[r], Cut(Top(r).chain)[Top(r).i], Called(r))
  BY <1>1, <1>2 DEF CallValidator, TypeInv, Control, More, Length, Placed
<1> QED
  BY <1>2, <1>3, ReachedNext DEF Element, Length

(* The root chain ends when the whole sequence has run.                    *)
LEMMA RootEnds ==
  ASSUME TypeInv, NEW r \in Requests, Placed(r), LoopEnd(r), Len(stack[r]) = 1
  PROVE  Called(r) = Len(Leaves[Root])
<1>1. Reached(stack[r], Len(Leaves[Top(r).chain]), Called(r))
  BY LoopEndPlaced
<1>2. /\ stack[r] \in Seq(Frame) /\ stack[r] # <<>> /\ Top(r) = Last(stack[r])
      /\ Top(r).chain \in Chains
  BY CursorFacts DEF LoopEnd
<1>3. Top(r) = stack[r][1]
  BY <1>2, StackPlaces DEF Last
<1>4. stack[r][1].chain = Root
  BY <1>1 DEF Reached, Behind
<1>5. Len(Leaves[Root]) \in Nat
  BY Cuts, ChainAssumption
<1>6. Reached(stack[r], Len(Leaves[Root]), Called(r))
  BY <1>1, <1>3, <1>4
<1> QED
  BY <1>2, <1>4, <1>5, <1>6, ReachedOne

(* The calls are the beginning of the sequence, each has given a result    *)
(* unless it is running or has failed, and a result nobody ended the       *)
(* chains with is that of the whole sequence.                              *)
Ordered(q) ==
  /\ Called(q) <= Len(Leaves[Root])
  /\ \A k \in 1..Called(q) : hist[q].calls[k] = Leaves[Root][k]

Heard(q) ==
  /\ pc[q] \in {"idle", "select", "call"} => Len(Results(q)) = Called(q)
  /\ pc[q] = "validator" => Len(Results(q)) + 1 = Called(q)
  /\ pc[q] \in {"returned", "writeLen", "writeData", "forge"} /\ ret[q].kind = "result" =>
       Len(Results(q)) = Called(q)
  /\ Answered(q) => Len(Results(q)) = Called(q)

Completed(q) ==
  (pc[q] = "forge" /\ ret[q].kind = "result") \/ Answered(q) =>
    (Passing(q) => Called(q) = Len(Leaves[Root]))

RunInv == \A q \in Requests : Ordered(q) /\ Heard(q) /\ Completed(q)

LEMMA CallRuns ==
  ASSUME TypeInv, VerdictInv, PlacedInv, RunInv, NEW r \in Requests, CallValidator(r)
  PROVE  Ordered(r)' /\ Heard(r)' /\ Completed(r)'
<1>1. pc[r] = "call" /\ pc'[r] = "validator" /\ answer' = answer
  BY DEF CallValidator, Goto, TypeInv, TypeOK
<1>2. Called(r) < Len(Leaves[Root]) /\ Leaves[Root][Called(r) + 1] = Element(r)
  BY NextLeaf DEF PlacedInv
<1>3. hist'[r].calls = Append(hist[r].calls, Element(r)) /\ Results(r)' = Results(r)
  BY DEF CallValidator, TypeInv, TypeOK, History, Results
<1>4. hist[r].calls \in Seq(Validators) /\ Len(Leaves[Root]) \in Nat
  BY Cuts, ChainAssumption DEF TypeInv, TypeOK, History
<1>5. /\ Called(r) \in Nat /\ Called(r)' = Called(r) + 1
      /\ hist'[r].calls[Called(r) + 1] = Element(r)
      /\ \A k \in 1..Called(r) : hist'[r].calls[k] = hist[r].calls[k]
  BY <1>3, <1>4, LenProperties, AppendProperties DEF Called
<1>6. Ordered(r) /\ Heard(r) /\ ~Answered(r)
  BY <1>1 DEF RunInv, VerdictInv, Told, Answered
<1>7. Ordered(r)'
  BY <1>2, <1>4, <1>5, <1>6 DEF Ordered
<1>8. Heard(r)'
  BY <1>1, <1>3, <1>5, <1>6 DEF Heard, Answered
<1>9. Completed(r)'
  BY <1>1, <1>6 DEF Completed, Answered
<1> QED
  BY <1>7, <1>8, <1>9

(* The validator that was running has given its result.                    *)
LEMMA ResultRuns ==
  ASSUME TypeInv, VerdictInv, RunInv, NEW r \in Requests, ValidatorReturns(r)
  PROVE  Ordered(r)' /\ Heard(r)' /\ Completed(r)'
<1>1. pc[r] = "validator" /\ pc'[r] = "returned" /\ answer' = answer
  BY DEF ValidatorReturns, Goto, TypeInv, TypeOK
<1>2. PICK res : res \in Result /\ Results(r)' = Append(Results(r), res)
  <2>1. PICK res \in Returns[Element(r)] :
          hist' = [hist EXCEPT ![r].results = Append(@, res), ![r].warnings = @ \o res.warnings]
    BY DEF ValidatorReturns
  <2>2. res \in Result
    BY <1>1, ChainAssumption DEF TypeInv, Control
  <2> QED
    BY <2>1, <2>2 DEF TypeInv, TypeOK, History, Results
<1>3. hist'[r].calls = hist[r].calls
  BY DEF ValidatorReturns, TypeInv, TypeOK, History
<1>4. Results(r) \in Seq(Result) /\ hist[r].calls \in Seq(Validators)
  BY DEF TypeInv, TypeOK, History, Results
<1>5. Len(Results(r)) \in Nat /\ Len(Results(r)') = Len(Results(r)) + 1 /\ Called(r)' = Called(r)
  BY <1>2, <1>3, <1>4, LenProperties, AppendProperties DEF Called
<1>6. Ordered(r) /\ Heard(r) /\ ~Answered(r)
  BY <1>1 DEF RunInv, VerdictInv, Told, Answered
<1>7. Ordered(r)'
  BY <1>3, <1>5, <1>6 DEF Ordered
<1>8. Heard(r)'
  BY <1>1, <1>5, <1>6 DEF Heard, Answered
<1>9. Completed(r)'
  BY <1>1, <1>6 DEF Completed, Answered
<1> QED
  BY <1>7, <1>8, <1>9

(* Any other step: no call and no result.                                  *)
LEMMA QuietRuns ==
  ASSUME TypeInv, VerdictInv, PlacedInv, RunInv, NEW r \in Requests,
         Cancel(r) \/ ChainStep(r) \/ ValidatorStep(r), hist'[r] = hist[r]
  PROVE  Ordered(r)' /\ Heard(r)' /\ Completed(r)'
<1> USE DEF TypeInv, TypeOK, Goto
<1>1. /\ Called(r)' = Called(r) /\ Results(r)' = Results(r) /\ (Passing(r)' <=> Passing(r))
      /\ Ordered(r) /\ Heard(r) /\ Completed(r) /\ Told(r)
  BY DEF Called, Results, Passing, RunInv, VerdictInv
<1>2. Ordered(r)'
  BY <1>1 DEF Ordered
<1>3. CASE Cancel(r)
  BY <1>1, <1>2, <1>3 DEF Cancel, Heard, Completed, Answered
<1>4. CASE Start(r) \/ Proceed(r) \/ CallChain(r) \/ Continue(r)
  <2>1. /\ answer' = answer /\ pc'[r] \in {"select", "call"} /\ ~Answered(r)
        /\ Len(Results(r)) = Called(r)
    BY <1>1, <1>4 DEF Start, Proceed, CallChain, Continue, Heard, Told, Answered
  <2> QED
    BY <1>1, <1>2, <2>1 DEF Heard, Completed, Answered
<1>5. CASE LoopEnd(r)
  <2>1. /\ answer' = answer /\ ~Answered(r) /\ Len(Results(r)) = Called(r)
        /\ pc'[r] = IF Len(stack[r]) = 1 THEN "forge" ELSE "returned"
    BY <1>1, <1>5 DEF LoopEnd, ReturnFrom, Heard, Told, Answered
  <2>2. Len(stack[r]) = 1 => Called(r) = Len(Leaves[Root])
    BY <1>5, RootEnds DEF PlacedInv
  <2> QED
    BY <1>1, <1>2, <2>1, <2>2 DEF Heard, Completed, Answered
<1>6. CASE ContextDone(r) \/ Fail(r) \/ ValidatorFails(r)
  <2>1. /\ answer' = answer /\ ~Answered(r) /\ ret'[r].kind # "result"
        /\ pc'[r] \in {"forge", "returned"}
    BY <1>1, <1>6 DEF ContextDone, Fail, ValidatorFails, ReturnFrom, Told, Answered
  <2> QED
    BY <1>1, <1>2, <2>1 DEF Heard, Completed, Answered
<1>7. CASE Stop(r)
  <2>1. /\ answer' = answer /\ ~Answered(r) /\ pc'[r] \in {"writeLen", "writeData"}
        /\ Len(Results(r)) = Called(r)
    BY <1>1, <1>7 DEF Stop, Heard, Told, Answered
  <2> QED
    BY <1>1, <1>2, <2>1 DEF Heard, Completed, Answered
<1>8. CASE StopReturn(r)
  <2>1. /\ pc[r] \in {"writeLen", "writeData"} /\ answer' = answer
        /\ pc'[r] \in {"forge", "returned"}
    BY <1>8 DEF StopReturn, ReturnFrom
  <2>2. ret[r].kind = "result"
    BY <2>1 DEF Control
  <2>3. ~Answered(r) /\ Len(Results(r)) = Called(r)
    BY <1>1, <2>1, <2>2 DEF Heard, Told, Answered
  <2>4. ~Passing(r)
    <3>1. Decisive(heap[ret[r].ref]) /\ Tells(r, heap[ret[r].ref])
      BY <1>1, <2>1, <2>2 DEF Told, Writes
    <3>2. Ending(r)
      BY <3>1 DEF Tells
    <3>3. Results(r) \in Seq(Result) /\ Results(r) # <<>>
      BY <3>2 DEF Ending, History, Results
    <3>4. Len(Results(r)) \in DOMAIN Results(r)
      BY <3>3
    <3> QED
      BY <3>2, <3>4 DEF Ending, Passing, Last
  <2> QED
    BY <1>1, <1>2, <2>1, <2>3, <2>4 DEF Heard, Completed, Answered
<1>9. CASE Forge(r)
  <2>1. /\ pc[r] = "forge" /\ pc'[r] = "done"
        /\ answer'[r].kind = "result" => ret[r].kind = "result"
    BY <1>9 DEF Forge, NoAnswer
  <2> QED
    BY <1>1, <1>2, <2>1 DEF Heard, Completed, Answered
<1>10. CASE ValidatorPanics(r)
  <2>1. pc'[r] = "done" /\ answer'[r].kind = "panic"
    BY <1>10 DEF ValidatorPanics, NoAnswer
  <2> QED
    BY <1>1, <1>2, <2>1 DEF Heard, Completed, Answered
<1>11. CASE CallValidator(r) \/ ValidatorReturns(r)
  BY <1>11, CallRuns, ResultRuns
<1> QED
  BY <1>3, <1>4, <1>5, <1>6, <1>7, <1>8, <1>9, <1>10, <1>11 DEF ChainStep, ValidatorStep

LEMMA NextRunInv ==
  ASSUME TypeInv, VerdictInv, PlacedInv, RunInv, [Next]_vars
  PROVE  RunInv'
<1>1. CASE UNCHANGED vars
  BY <1>1 DEF vars, RunInv, Ordered, Heard, Completed, Called, Results, Passing, Answered
<1>2. ASSUME NEW r \in Requests, Cancel(r) \/ ChainStep(r) \/ ValidatorStep(r) PROVE RunInv'
  <2>1. Ordered(r)' /\ Heard(r)' /\ Completed(r)'
    <3>1. CASE CallValidator(r) \/ ValidatorReturns(r)
      BY <3>1, CallRuns, ResultRuns
    <3>2. CASE ~(CallValidator(r) \/ ValidatorReturns(r))
      <4>1. hist' = hist
        BY <1>2, <3>2 DEF ChainStep, ValidatorStep, Cancel, Start, LoopEnd, ContextDone, Proceed,
                          CallChain, Fail, Stop, StopReturn, Continue, Forge, ValidatorFails,
                          ValidatorPanics, ReturnFrom
      <4> QED
        BY <1>2, <4>1, QuietRuns
    <3> QED
      BY <3>1, <3>2
  <2>2. ASSUME NEW q \in Requests, q # r PROVE Ordered(q)' /\ Heard(q)' /\ Completed(q)'
    <3>1. /\ pc'[q] = pc[q] /\ ret'[q] = ret[q] /\ answer'[q] = answer[q]
          /\ hist'[q] = hist[q]
      BY <1>2, <2>2, OnlyOwnState, OwnState
    <3>2. Called(q)' = Called(q) /\ Results(q)' = Results(q) /\ (Passing(q)' <=> Passing(q))
      BY <3>1 DEF Called, Results, Passing
    <3>3. Ordered(q) /\ Heard(q) /\ Completed(q)
      BY DEF RunInv
    <3> QED
      BY <3>1, <3>2, <3>3 DEF Ordered, Heard, Completed, Answered
  <2> QED
    BY <2>1, <2>2 DEF RunInv
<1> QED
  BY <1>1, <1>2 DEF Next, AllDone

LEMMA RunInvariant == Spec => []RunInv
<1>1. Init => RunInv
  <2> SUFFICES ASSUME Init, NEW q \in Requests PROVE Ordered(q) /\ Heard(q) /\ Completed(q)
    BY DEF RunInv
  <2>1. /\ hist[q].calls = <<>> /\ Results(q) = <<>> /\ pc[q] = "idle"
        /\ answer[q].kind = "none"
    BY DEF Init, NoAnswer, Results
  <2>2. Called(q) = 0 /\ Len(Leaves[Root]) \in Nat
    BY <2>1, Cuts, ChainAssumption DEF Called
  <2> QED
    BY <2>1, <2>2 DEF Ordered, Heard, Completed, Answered
<1>2. TypeInv /\ VerdictInv /\ PlacedInv /\ RunInv /\ [Next]_vars => RunInv'
  BY NextRunInv
<1> QED
  BY <1>1, <1>2, VerdictInvariant, PlacedInvariant, PTL DEF Spec

(* An object is allowed when all validators of the webhook have found it   *)
(* valid, or all until one stopped the chain, and only then, however the   *)
(* chains nest and whatever reviews share (validator.go:62-92).            *)
THEOREM NothingDeniedIsAllowed == Spec => []AllowedOnlyIfAllValid
<1>1. TypeInv /\ VerdictInv /\ RunInv => AllowedOnlyIfAllValid
  <2> SUFFICES ASSUME TypeInv, VerdictInv, RunInv, NEW r \in Requests,
                      Answered(r), answer[r].valid
               PROVE  /\ Len(Results(r)) = Len(hist[r].calls)
                      /\ \A k \in DOMAIN Results(r) : Results(r)[k].valid
                      /\ \/ hist[r].calls = Leaves[Root]
                         \/ Results(r) # <<>> /\ Last(Results(r)).stop
    BY DEF AllowedOnlyIfAllValid, Results
  <2>1. Results(r) \in Seq(Result) /\ hist[r].calls \in Seq(Validators) /\ Leaves[Root] \in Seq(Validators)
    BY LeavesAssumption, ChainAssumption DEF TypeInv, TypeOK, History, Results
  <2>2. Ordered(r) /\ Heard(r) /\ Completed(r)
    BY DEF RunInv
  <2>3. Len(Results(r)) = Len(hist[r].calls)
    BY <2>2 DEF Heard, Called
  <2>4. CASE Passing(r)
    <3>1. Len(hist[r].calls) = Len(Leaves[Root])
      BY <2>2, <2>4 DEF Completed, Called
    <3>2. \A k \in 1..Len(hist[r].calls) : hist[r].calls[k] = Leaves[Root][k]
      BY <2>2 DEF Ordered, Called
    <3>3. hist[r].calls = Leaves[Root]
      BY <2>1, <3>1, <3>2, SeqEqual
    <3> QED
      BY <2>3, <2>4, <3>3 DEF Passing, Decisive
  <2>5. CASE Ending(r) /\ answer[r].valid = Last(Results(r)).valid
    BY <2>1, <2>3, <2>5 DEF Ending, Decisive, Last
  <2> QED
    BY <2>4, <2>5 DEF VerdictInv, Told
<1> QED
  BY <1>1, VerdictInvariant, RunInvariant, PTL

-----------------------------------------------------------------------------
(* ValidatorChain implements ValidationReview.  What the refinement makes  *)
(* of a review, place by place.                                            *)
PhaseIs(q) ==
  /\ pc[q] = "idle" => Phase(q) = "idle"
  /\ pc[q] = "validator" => Phase(q) = "running"
  /\ pc[q] = "done" => Phase(q) = "answered"
  /\ pc[q] \in {"select", "call", "returned", "writeLen", "writeData", "forge"} =>
       Phase(q) = IF Decided(q) THEN "answered" ELSE "ready"

Spoken(kind, valid, msg) ==
  [kind  |-> kind,
   valid |-> kind = "result" /\ valid,
   msg   |-> IF kind = "result" THEN msg ELSE NoMessage]

VerdictIs(q) ==
  /\ ~Decided(q) => Verdict(q) = Spoken(answer[q].kind, answer[q].valid, answer[q].msg)
  /\ Decided(q) =>
       /\ ret[q].kind = "nil" => Verdict(q) = Review!Outcome("nilError")
       /\ ret[q].kind = "result" =>
            Verdict(q) = Spoken("result", heap[ret[q].ref].valid, heap[ret[q].ref].msg)
       /\ ret[q].kind \notin {"nil", "result"} => Verdict(q) = Review!Outcome(ret[q].kind)

LEMMA SpokenFailure ==
  ASSUME NEW kind, kind # "result", NEW valid, NEW msg
  PROVE  Spoken(kind, valid, msg) = Review!Outcome(kind)
<1>1. (kind = "result" /\ valid) = FALSE
  OBVIOUS
<1> QED
  BY <1>1, Zenon DEF Spoken, Review!Outcome

LEMMA SpokenResult ==
  ASSUME NEW valid \in BOOLEAN, NEW msg
  PROVE  Spoken("result", valid, msg) = Review!Verdict(valid, msg)
<1>1. ("result" = "result" /\ valid) = valid
  OBVIOUS
<1> QED
  BY <1>1, Zenon DEF Spoken, Review!Verdict

LEMMA PhaseCases == ASSUME NEW q \in Requests PROVE PhaseIs(q)
<1>1. CASE pc[q] = "idle"
  BY <1>1, Zenon DEF PhaseIs, Phase
<1>2. CASE pc[q] = "validator"
  <2>1. pc[q] # "idle"
    BY <1>2
  <2> QED
    BY <1>2, <2>1, Zenon DEF PhaseIs, Phase
<1>3. CASE pc[q] = "done"
  <2>1. pc[q] # "idle" /\ pc[q] # "validator"
    BY <1>3
  <2> QED
    BY <1>3, <2>1, Zenon DEF PhaseIs, Phase
<1>4. CASE pc[q] \notin {"idle", "validator", "done"}
  <2>1. pc[q] # "idle" /\ pc[q] # "validator" /\ pc[q] # "done"
    BY <1>4
  <2>2. Phase(q) = IF Decided(q) THEN "answered" ELSE "ready"
    BY <2>1, Zenon DEF Phase
  <2> QED
    BY <2>1, <2>2, Zenon DEF PhaseIs
<1> QED
  BY <1>1, <1>2, <1>3, <1>4

LEMMA VerdictCases == ASSUME NEW q \in Requests PROVE VerdictIs(q)
<1>1. CASE ~Decided(q)
  BY <1>1, Zenon DEF VerdictIs, Verdict, Spoken
<1>2. CASE Decided(q) /\ ret[q].kind = "nil"
  <2>1. "nilError" # "result" /\ ret[q].kind # "result"
    BY <1>2
  <2>2. Verdict(q) = Spoken("nilError", answer[q].valid, answer[q].msg)
    BY <1>2, <2>1, Zenon DEF Verdict, Spoken
  <2>3. Verdict(q) = Review!Outcome("nilError")
    BY <2>1, <2>2, SpokenFailure, Zenon
  <2> QED
    BY <1>2, <2>1, <2>3, Zenon DEF VerdictIs
<1>3. CASE Decided(q) /\ ret[q].kind = "result"
  <2>1. ret[q].kind # "nil"
    BY <1>3
  <2>2. Verdict(q) = Spoken("result", heap[ret[q].ref].valid, heap[ret[q].ref].msg)
    BY <1>3, <2>1, Zenon DEF Verdict, Spoken, Given
  <2>3. "result" \in {"nil", "result"}
    OBVIOUS
  <2> QED
    BY <1>3, <2>1, <2>2, <2>3, Zenon DEF VerdictIs
<1>4. CASE Decided(q) /\ ret[q].kind \notin {"nil", "result"}
  <2>1. ret[q].kind # "nil" /\ ret[q].kind # "result"
    BY <1>4
  <2>2. Verdict(q) = Spoken(ret[q].kind, answer[q].valid, answer[q].msg)
    BY <1>4, <2>1, Zenon DEF Verdict, Spoken
  <2>3. Verdict(q) = Review!Outcome(ret[q].kind)
    BY <2>1, <2>2, SpokenFailure, Zenon
  <2> QED
    BY <1>4, <2>1, <2>3, Zenon DEF VerdictIs
<1> QED
  BY <1>1, <1>2, <1>3, <1>4

LEMMA PrimedCases ==
  ASSUME NEW q \in Requests
  PROVE  PhaseIs(q)' /\ VerdictIs(q)'
BY PhaseCases, VerdictCases, PTL

Places == {"idle", "select", "call", "validator", "returned",
           "writeLen", "writeData", "forge", "done"}

(* A review is seen the same while its ruling and its place are the same.  *)
LEMMA SameView ==
  ASSUME NEW q \in Requests, pc[q] \in Places, pc'[q] = pc[q], ret'[q] = ret[q],
         answer'[q] = answer[q], Ruling(heap'[ret[q].ref]) = Ruling(heap[ret[q].ref])
  PROVE  Phase(q)' = Phase(q) /\ Verdict(q)' = Verdict(q)
<1>1. Decisive(heap'[ret[q].ref]) <=> Decisive(heap[ret[q].ref])
  BY SameRuling
<1>2. Decided(q)' <=> Decided(q)
  BY <1>1 DEF Decided, EndsChain, Given, Decisive
<1>3. PhaseIs(q) /\ PhaseIs(q)' /\ VerdictIs(q) /\ VerdictIs(q)'
  BY PhaseCases, VerdictCases, PrimedCases
<1>4. Phase(q)' = Phase(q)
  BY <1>2, <1>3 DEF PhaseIs, Places
<1>5. /\ heap'[ret[q].ref].valid = heap[ret[q].ref].valid
      /\ heap'[ret[q].ref].msg = heap[ret[q].ref].msg
  BY DEF Ruling
<1>6. Verdict(q)' = Verdict(q)
  BY <1>2, <1>3, <1>5 DEF VerdictIs
<1> QED
  BY <1>4, <1>6

(* What a step of one review leaves of the others, seen from above.        *)
LEMMA OthersUnseen ==
  ASSUME TypeInv, VerdictInv, NEW r \in Requests, ChainStep(r) \/ ValidatorStep(r) \/ Cancel(r),
         NEW q \in Requests, q # r
  PROVE  Phase(q)' = Phase(q) /\ Verdict(q)' = Verdict(q)
<1>1. pc'[q] = pc[q] /\ ret'[q] = ret[q] /\ answer'[q] = answer[q]
  BY OnlyOwnState
<1>2. pc[q] \in Places /\ ret[q].ref \in {q} \cup Static
  BY DEF TypeInv, TypeOK, Control, Places
<1>3. HeapStep(r)
  BY EveryHeapStep DEF VerdictInv, Told
<1>4. Ruling(heap'[ret[q].ref]) = Ruling(heap[ret[q].ref])
  <2>1. CASE ret[q].ref = q
    BY <1>3, <2>1 DEF HeapStep
  <2>2. CASE ret[q].ref \in Static
    BY <1>3, <2>2 DEF HeapStep
  <2> QED
    BY <1>2, <2>1, <2>2
<1> QED
  BY <1>1, <1>2, <1>4, SameView

(* The own view of a step: nothing, or one of the steps of                 *)
(* ValidationReview.                                                       *)
Sees(r, phase, verdict) == Phase(r)' = phase /\ Verdict(r)' = verdict

SameCalls == \A q \in Requests : /\ hist'[q].calls = hist[q].calls
                                 /\ hist'[q].late = hist[q].late

Unnoticed(r) == Sees(r, Phase(r), Verdict(r)) /\ ctxDone' = ctxDone /\ SameCalls

LEMMA UnnoticedSteps ==
  ASSUME NEW r \in Requests, Unnoticed(r),
         \A q \in Requests : q # r => Phase(q)' = Phase(q) /\ Verdict(q)' = Verdict(q)
  PROVE  UNCHANGED Review!vars
<1>1. \A q \in Requests : Phase(q)' = Phase(q) /\ Verdict(q)' = Verdict(q)
  BY DEF Unnoticed, Sees
<1> QED
  BY <1>1 DEF Unnoticed, SameCalls, Review!vars

LEMMA Decides ==
  ASSUME NEW r \in Requests, NEW outcome, Sees(r, "answered", outcome),
         \A q \in Requests : q # r => Phase(q)' = Phase(q) /\ Verdict(q)' = Verdict(q),
         ctxDone' = ctxDone, SameCalls
  PROVE  Review!Decide(r, outcome)
BY DEF Review!Decide, Sees, SameCalls

LEMMA StartBegins ==
  ASSUME TypeInv, VerdictInv, NEW r \in Requests, Start(r)
  PROVE  Review!Begin(r)
<1>1. PhaseIs(r) /\ PhaseIs(r)' /\ VerdictIs(r) /\ VerdictIs(r)'
  BY PhaseCases, VerdictCases, PrimedCases
<1>2. pc[r] = "idle" /\ pc'[r] = "select" /\ answer' = answer /\ hist' = hist /\ ctxDone' = ctxDone
  BY DEF Start, Goto, TypeInv, TypeOK
<1>3. ~Decided(r) /\ ~Decided(r)'
  BY <1>2 DEF Decided
<1>4. Phase(r) = "idle" /\ Phase(r)' = "ready" /\ Verdict(r)' = Verdict(r)
  BY <1>1, <1>2, <1>3 DEF PhaseIs, VerdictIs
<1>5. \A q \in Requests : q # r => Phase(q)' = Phase(q) /\ Verdict(q)' = Verdict(q)
  BY OthersUnseen DEF ChainStep
<1> QED
  BY <1>2, <1>4, <1>5 DEF Review!Begin

(* Calls, as the sequence of the root has them.                            *)
LEMMA CallsNext ==
  ASSUME TypeInv, VerdictInv, LateInv, PlacedInv, NEW r \in Requests, CallValidator(r)
  PROVE  Review!Call(r)
<1>1. PhaseIs(r) /\ PhaseIs(r)' /\ VerdictIs(r) /\ VerdictIs(r)'
  BY PhaseCases, VerdictCases, PrimedCases
<1>2. pc[r] = "call" /\ pc'[r] = "validator" /\ answer' = answer /\ ctxDone' = ctxDone
  BY DEF CallValidator, Goto, TypeInv, TypeOK
<1>3. ~Decided(r) /\ ~Decided(r)'
  BY <1>2 DEF Decided
<1>4. Phase(r) = "ready" /\ Phase(r)' = "running" /\ Verdict(r)' = Verdict(r)
  BY <1>1, <1>2, <1>3 DEF PhaseIs, VerdictIs
<1>5. \A q \in Requests : q # r => Phase(q)' = Phase(q) /\ Verdict(q)' = Verdict(q)
  BY OthersUnseen DEF ChainStep
<1>6. Called(r) < Len(Leaves[Root]) /\ Leaves[Root][Called(r) + 1] = Element(r)
  BY NextLeaf DEF PlacedInv
<1>7. hist[r].late = 0
  BY <1>2 DEF LateInv, Late
<1>8. /\ hist' = [hist EXCEPT ![r].calls = Append(hist[r].calls, Element(r)),
                              ![r].late = IF ctxDone[r] THEN 1 ELSE 0]
      /\ hist \in [Requests -> History]
  BY <1>7 DEF CallValidator, TypeInv, TypeOK
<1>9. /\ \A q \in Requests : q # r => hist'[q].calls = hist[q].calls /\ hist'[q].late = hist[q].late
      /\ hist'[r].calls = Append(hist[r].calls, Leaves[Root][Len(hist[r].calls) + 1])
      /\ hist'[r].late = IF ctxDone[r] THEN 1 ELSE 0
  BY <1>6, <1>8 DEF History, Called
<1> QED
  BY <1>2, <1>4, <1>5, <1>6, <1>7, <1>9 DEF Review!Call, Called

(* A nested chain that ends lets the one around it go on; the root decides *)
(* the review, when all of the sequence has run.                           *)
LEMMA LoopEndFinishes ==
  ASSUME TypeInv, VerdictInv, PlacedInv, NEW r \in Requests, LoopEnd(r)
  PROVE  Unnoticed(r) \/ Review!Finish(r)
<1>1. PhaseIs(r) /\ PhaseIs(r)' /\ VerdictIs(r) /\ VerdictIs(r)'
  BY PhaseCases, VerdictCases, PrimedCases
<1>2. /\ pc[r] = "select" /\ ctxDone' = ctxDone /\ hist' = hist /\ answer' = answer
      /\ pc'[r] = IF Len(stack[r]) = 1 THEN "forge" ELSE "returned"
      /\ ret'[r] = [kind |-> "result", ref |-> r]
      /\ heap'[r] = CellOf(Passed(Top(r).warnings))
  BY DEF LoopEnd, ReturnFrom, Goto, TypeInv, TypeOK, Pointers
<1>3. /\ heap'[r].valid = TRUE /\ heap'[r].msg = NoMessage /\ ~heap'[r].stop
      /\ ret'[r].kind = "result" /\ ret'[r].ref = r
  BY <1>2 DEF CellOf, Passed
<1>4. ~Decided(r) /\ Phase(r) = "ready"
  BY <1>1, <1>2 DEF Decided, PhaseIs
<1>5. SameCalls
  BY <1>2 DEF SameCalls
<1>6. CASE Len(stack[r]) # 1
  <2>1. pc'[r] = "returned"
    BY <1>2, <1>6
  <2>2. ~Decided(r)'
    BY <1>3, <2>1 DEF Decided, EndsChain, Given
  <2>3. Phase(r)' = "ready" /\ Verdict(r)' = Verdict(r)
    BY <1>1, <1>2, <1>4, <2>1, <2>2 DEF PhaseIs, VerdictIs
  <2> QED
    BY <1>2, <1>4, <1>5, <2>3 DEF Unnoticed, Sees
<1>7. CASE Len(stack[r]) = 1
  <2>1. pc'[r] = "forge"
    BY <1>2, <1>7
  <2>2. Decided(r)'
    BY <2>1 DEF Decided
  <2>3. Phase(r)' = "answered"
    BY <1>1, <2>1, <2>2 DEF PhaseIs
  <2>4. Verdict(r)' = Spoken("result", heap'[r].valid, heap'[r].msg)
    BY <1>1, <1>3, <2>2, Zenon DEF VerdictIs
  <2>5. Verdict(r)' = Review!Verdict(heap'[r].valid, heap'[r].msg)
    BY <1>3, <2>4, SpokenResult
  <2>6. Verdict(r)' = Review!Verdict(TRUE, NoMessage)
    BY <1>3, <2>5, Zenon
  <2>7. Len(hist[r].calls) = Len(Leaves[Root])
    BY <1>7, RootEnds DEF PlacedInv, Called
  <2>8. \A q \in Requests : q # r => Phase(q)' = Phase(q) /\ Verdict(q)' = Verdict(q)
    BY OthersUnseen DEF ChainStep
  <2> DEFINE outcome == Review!Verdict(TRUE, NoMessage)
  <2>9. Verdict(r)' = outcome
    BY <2>6
  <2> HIDE DEF outcome
  <2>10. Review!Decide(r, outcome)
    BY <1>2, <1>5, <2>3, <2>8, <2>9, Decides DEF Sees
  <2>11. [q \in Requests |-> Phase(q)][r] = "ready" /\ Len([q \in Requests |-> hist[q].calls][r]) = Len(Leaves[Root])
    BY <1>4, <2>7
  <2> QED
    BY <2>10, <2>11, Zenon DEF Review!Finish, outcome
<1> QED
  BY <1>6, <1>7

(* A context that is done decides the review, at whatever depth it is seen.*)
LEMMA ContextGivesUp ==
  ASSUME TypeInv, VerdictInv, NEW r \in Requests, ContextDone(r)
  PROVE  Review!GiveUp(r)
<1>1. PhaseIs(r) /\ PhaseIs(r)' /\ VerdictIs(r) /\ VerdictIs(r)'
  BY PhaseCases, VerdictCases, PrimedCases
<1>2. /\ pc[r] = "select" /\ ctxDone[r] /\ ctxDone' = ctxDone /\ hist' = hist
      /\ ret'[r].kind = "ctxError" /\ pc'[r] \in {"forge", "returned"}
  BY DEF ContextDone, ReturnFrom, Goto, TypeInv, TypeOK
<1>3. ~Decided(r) /\ Phase(r) = "ready"
  BY <1>1, <1>2 DEF Decided, PhaseIs
<1>4. Decided(r)'
  BY <1>2 DEF Decided
<1>5. Phase(r)' = "answered" /\ Verdict(r)' = Review!Outcome("ctxError")
  BY <1>1, <1>2, <1>4 DEF PhaseIs, VerdictIs
<1>6. \A q \in Requests : q # r => Phase(q)' = Phase(q) /\ Verdict(q)' = Verdict(q)
  BY OthersUnseen DEF ChainStep
<1>7. SameCalls
  BY <1>2 DEF SameCalls
<1>8. Review!Decide(r, Review!Outcome("ctxError"))
  BY <1>2, <1>5, <1>6, <1>7, Decides DEF Sees
<1> QED
  BY <1>2, <1>3, <1>8 DEF Review!GiveUp

(* Steps that neither call a validator nor decide the review.              *)
LEMMA OnTheWay ==
  ASSUME TypeInv, NEW r \in Requests, Proceed(r) \/ CallChain(r) \/ Continue(r)
  PROVE  Unnoticed(r)
<1>1. PhaseIs(r) /\ PhaseIs(r)' /\ VerdictIs(r) /\ VerdictIs(r)'
  BY PhaseCases, VerdictCases, PrimedCases
<1>2. /\ pc[r] \in {"select", "call", "returned"} /\ pc'[r] \in {"select", "call"}
      /\ ctxDone' = ctxDone /\ hist' = hist /\ answer' = answer
      /\ pc[r] = "returned" => ret[r].kind = "result" /\ ~EndsChain(r)
  <2>1. CASE Proceed(r)
    BY <2>1 DEF Proceed, Goto, TypeInv, TypeOK
  <2>2. CASE CallChain(r)
    BY <2>2 DEF CallChain, Goto, TypeInv, TypeOK
  <2>3. CASE Continue(r)
    BY <2>3 DEF Continue, Goto, TypeInv, TypeOK
  <2> QED
    BY <2>1, <2>2, <2>3
<1>3. ~Decided(r) /\ ~Decided(r)'
  BY <1>2 DEF Decided
<1>4. Phase(r)' = Phase(r) /\ Verdict(r)' = Verdict(r)
  BY <1>1, <1>2, <1>3 DEF PhaseIs, VerdictIs
<1> QED
  BY <1>2, <1>4 DEF Unnoticed, Sees, SameCalls

(* What is decided stays so while the frames unwind.                       *)
LEMMA FailUnwinds ==
  ASSUME TypeInv, NEW r \in Requests, Fail(r)
  PROVE  Unnoticed(r)
<1> DEFINE kind == IF ret[r].kind = "nil" THEN "nilError" ELSE ret[r].kind
<1>1. PhaseIs(r) /\ PhaseIs(r)' /\ VerdictIs(r) /\ VerdictIs(r)'
  BY PhaseCases, VerdictCases, PrimedCases
<1>2. /\ pc[r] = "returned" /\ ret[r].kind # "result" /\ ctxDone' = ctxDone /\ hist' = hist
      /\ ret'[r].kind = kind /\ pc'[r] \in {"forge", "returned"}
  BY DEF Fail, ReturnFrom, Goto, TypeInv, TypeOK
<1>3. kind \notin {"nil", "result"} /\ (ret[r].kind = "nil" => kind = "nilError")
      /\ (ret[r].kind # "nil" => kind = ret[r].kind)
  BY <1>2
<1> HIDE DEF kind
<1>4. Decided(r) /\ Decided(r)'
  BY <1>2, <1>3 DEF Decided
<1>5. Phase(r) = "answered" /\ Verdict(r) = Review!Outcome(kind)
  BY <1>1, <1>2, <1>3, <1>4 DEF PhaseIs, VerdictIs
<1>6. Phase(r)' = "answered" /\ Verdict(r)' = Review!Outcome(kind)
  BY <1>1, <1>2, <1>3, <1>4 DEF PhaseIs, VerdictIs
<1> QED
  BY <1>2, <1>5, <1>6 DEF Unnoticed, Sees, SameCalls

LEMMA StopUnwinds ==
  ASSUME TypeInv, VerdictInv, NEW r \in Requests, Stop(r) \/ StopReturn(r)
  PROVE  Unnoticed(r)
<1> DEFINE ref == ret[r].ref
<1>1. PhaseIs(r) /\ PhaseIs(r)' /\ VerdictIs(r) /\ VerdictIs(r)'
  BY PhaseCases, VerdictCases, PrimedCases
<1>2. /\ pc[r] \in {"returned", "writeLen", "writeData"} /\ ret[r].kind = "result"
      /\ pc[r] = "returned" => EndsChain(r)
      /\ ctxDone' = ctxDone /\ hist' = hist
      /\ pc'[r] \in {"returned", "writeLen", "writeData", "forge"}
      /\ ret'[r].kind = "result" /\ ret'[r].ref = ref
  <2>1. CASE Stop(r)
    BY <2>1 DEF Stop, Goto, TypeInv, TypeOK
  <2>2. CASE StopReturn(r)
    BY <2>2 DEF StopReturn, ReturnFrom, Goto, TypeInv, TypeOK, Control
  <2> QED
    BY <2>1, <2>2
<1>3. Ruling(heap'[ref]) = Ruling(heap[ref])
  <2>1. ref \in Pointers /\ heap[ref] \in Cell
    BY DEF TypeInv, TypeOK, Return
  <2>2. \E data, len : \/ heap'[ref] = [heap[ref] EXCEPT !.data = data]
                       \/ heap'[ref] = [heap[ref] EXCEPT !.len = len]
    <3>1. ASSUME NEW data, NEW len, heap' = [heap EXCEPT ![ref].data = data]
                                      \/ heap' = [heap EXCEPT ![ref].len = len]
          PROVE  \/ heap'[ref] = [heap[ref] EXCEPT !.data = data]
                 \/ heap'[ref] = [heap[ref] EXCEPT !.len = len]
      BY <2>1, <3>1 DEF TypeInv, TypeOK
    <3>2. \E data, len : \/ heap' = [heap EXCEPT ![ref].data = data]
                         \/ heap' = [heap EXCEPT ![ref].len = len]
      BY DEF Stop, StopReturn, ReturnFrom
    <3> QED
      BY <3>1, <3>2
  <2> QED
    BY <2>1, <2>2 DEF Cell, Ruling
<1>4. Decisive(heap[ref]) /\ Decisive(heap'[ref])
  <2>1. Decisive(heap[ref])
    BY <1>2 DEF VerdictInv, Told, Writes, EndsChain, Given, Decisive
  <2> QED
    BY <1>3, <2>1, SameRuling
<1>5. Decided(r) /\ Decided(r)'
  BY <1>2, <1>4 DEF Decided, EndsChain, Given, Decisive
<1>6. heap'[ref].valid = heap[ref].valid /\ heap'[ref].msg = heap[ref].msg
  BY <1>3 DEF Ruling
<1> HIDE DEF ref
<1>7. Phase(r) = "answered" /\ Phase(r)' = "answered"
  BY <1>1, <1>2, <1>5 DEF PhaseIs
<1>8. Verdict(r)' = Verdict(r)
  BY <1>1, <1>2, <1>5, <1>6 DEF VerdictIs, ref
<1> QED
  BY <1>2, <1>7, <1>8 DEF Unnoticed, Sees, SameCalls

(* Reading the result for the response changes nothing in it.              *)
LEMMA ForgeTells ==
  ASSUME TypeInv, NEW r \in Requests, Forge(r)
  PROVE  Unnoticed(r)
<1>1. PhaseIs(r) /\ PhaseIs(r)' /\ VerdictIs(r) /\ VerdictIs(r)'
  BY PhaseCases, VerdictCases, PrimedCases
<1>2. /\ pc[r] = "forge" /\ pc'[r] = "done" /\ ctxDone' = ctxDone /\ hist' = hist
      /\ ret[r].kind # "nil"
  BY DEF Forge, Goto, TypeInv, TypeOK, Control
<1>3. Decided(r) /\ ~Decided(r)'
  BY <1>2 DEF Decided
<1>4. Phase(r) = "answered" /\ Phase(r)' = "answered"
  BY <1>1, <1>2, <1>3 DEF PhaseIs
<1>5. Verdict(r)' = Verdict(r)
  <2>1. CASE ret[r].kind = "result"
    <3>1. /\ answer'[r].kind = "result" /\ answer'[r].valid = heap[ret[r].ref].valid
          /\ answer'[r].msg = heap[ret[r].ref].msg
      BY <2>1 DEF Forge, Given, TypeInv, TypeOK
    <3> QED
      BY <1>1, <1>3, <2>1, <3>1 DEF VerdictIs
  <2>2. CASE ret[r].kind # "result"
    <3>1. answer'[r].kind = ret[r].kind
      BY <2>2 DEF Forge, NoAnswer, TypeInv, TypeOK
    <3>2. Verdict(r) = Review!Outcome(ret[r].kind)
      BY <1>1, <1>2, <1>3, <2>2 DEF VerdictIs
    <3>3. Verdict(r)' = Spoken(ret[r].kind, answer'[r].valid, answer'[r].msg)
      BY <1>1, <1>3, <3>1 DEF VerdictIs
    <3> QED
      BY <2>2, <3>2, <3>3, SpokenFailure
  <2> QED
    BY <2>1, <2>2
<1> QED
  BY <1>2, <1>4, <1>5 DEF Unnoticed, Sees, SameCalls

(* What a validator does decides, or lets the sequence go on.              *)
LEMMA FailureBreaks ==
  ASSUME TypeInv, VerdictInv, NEW r \in Requests, ValidatorFails(r) \/ ValidatorPanics(r)
  PROVE  Review!Break(r)
<1>1. PhaseIs(r) /\ PhaseIs(r)' /\ VerdictIs(r) /\ VerdictIs(r)'
  BY PhaseCases, VerdictCases, PrimedCases
<1>2. pc[r] = "validator" /\ ctxDone' = ctxDone /\ hist' = hist
  BY DEF ValidatorFails, ValidatorPanics
<1>3. Phase(r) = "running"
  BY <1>1, <1>2 DEF PhaseIs
<1>4. \E kind \in {"validatorError", "nilError", "panic"} : Sees(r, "answered", Review!Outcome(kind))
  <2>1. CASE ValidatorFails(r)
    <3>1. pc'[r] = "returned" /\ ret'[r].kind \in {"validatorError", "nil"}
      BY <2>1 DEF ValidatorFails, Goto, TypeInv, TypeOK
    <3>2. Decided(r)'
      BY <3>1 DEF Decided
    <3>3. Phase(r)' = "answered"
      BY <1>1, <3>1, <3>2 DEF PhaseIs
    <3>4. Verdict(r)' = Review!Outcome("validatorError") \/ Verdict(r)' = Review!Outcome("nilError")
      BY <1>1, <3>1, <3>2 DEF VerdictIs
    <3> QED
      BY <3>3, <3>4 DEF Sees
  <2>2. CASE ValidatorPanics(r)
    <3>1. pc'[r] = "done" /\ answer'[r].kind = "panic"
      BY <2>2 DEF ValidatorPanics, Goto, NoAnswer, TypeInv, TypeOK
    <3>2. ~Decided(r)'
      BY <3>1 DEF Decided
    <3>3. Verdict(r)' = Spoken("panic", answer'[r].valid, answer'[r].msg)
      BY <1>1, <3>1, <3>2 DEF VerdictIs
    <3>4. Verdict(r)' = Review!Outcome("panic")
      BY <3>3, SpokenFailure
    <3> QED
      BY <1>1, <3>1, <3>4 DEF PhaseIs, Sees
  <2> QED
    BY <2>1, <2>2
<1>5. \A q \in Requests : q # r => Phase(q)' = Phase(q) /\ Verdict(q)' = Verdict(q)
  BY OthersUnseen DEF ValidatorStep
<1>6. PICK kind \in {"validatorError", "nilError", "panic"} : Sees(r, "answered", Review!Outcome(kind))
  BY <1>4
<1>7. SameCalls
  BY <1>2 DEF SameCalls
<1>8. Review!Decide(r, Review!Outcome(kind))
  BY <1>2, <1>5, <1>6, <1>7, Decides
<1> QED
  BY <1>2, <1>3, <1>8 DEF Review!Break

LEMMA ResultRuling ==
  ASSUME TypeInv, VerdictInv, NEW r \in Requests, ValidatorReturns(r)
  PROVE  \E res \in Returns[Element(r)] :
           /\ res \in Result /\ ret'[r].kind = "result"
           /\ Ruling(heap'[ret'[r].ref]) = Ruling(res)
<1> USE DEF TypeInv, TypeOK
<1> DEFINE e == Element(r)
<1>1. PICK res \in Returns[e] :
        LET shared == e \in Static /\ res = Prepared[e]
        IN  /\ ret' = [ret EXCEPT ![r] = [kind |-> "result", ref |-> IF shared THEN e ELSE r]]
            /\ heap' = IF shared THEN heap ELSE [heap EXCEPT ![r] = CellOf(res)]
  BY DEF ValidatorReturns
<1>2. res \in Result
  BY ChainAssumption DEF ValidatorReturns, Control
<1>3. Ruling(heap'[ret'[r].ref]) = Ruling(res)
  <2>1. CASE e \in Static /\ res = Prepared[e]
    <3>1. Ruling(heap[e]) = Ruling(CellOf(res))
      BY <2>1 DEF VerdictInv, Prepares
    <3>2. heap' = heap /\ ret'[r].ref = e
      BY <1>1, <2>1
    <3> QED
      BY <3>1, <3>2 DEF CellOf, Ruling
  <2>2. CASE ~(e \in Static /\ res = Prepared[e])
    <3>1. heap'[r] = CellOf(res) /\ ret'[r].ref = r
      BY <1>1, <2>2 DEF Pointers
    <3> QED
      BY <3>1 DEF CellOf, Ruling
  <2> QED
    BY <2>1, <2>2
<1> QED
  BY <1>1, <1>2, <1>3

LEMMA ResultRules ==
  ASSUME TypeInv, VerdictInv, PlacedInv, NEW r \in Requests, ValidatorReturns(r)
  PROVE  Review!Pass(r) \/ Review!Rule(r)
<1>1. PhaseIs(r) /\ PhaseIs(r)' /\ VerdictIs(r) /\ VerdictIs(r)'
  BY PhaseCases, VerdictCases, PrimedCases
<1>2. PICK res \in Returns[Element(r)] :
        /\ res \in Result /\ ret'[r].kind = "result"
        /\ Ruling(heap'[ret'[r].ref]) = Ruling(res)
  BY ResultRuling
<1>3. /\ pc[r] = "validator" /\ pc'[r] = "returned" /\ ctxDone' = ctxDone /\ answer'[r] = answer[r]
  BY DEF ValidatorReturns, Goto, TypeInv, TypeOK
<1>4. SameCalls
  BY DEF ValidatorReturns, SameCalls, TypeInv, TypeOK, History
<1>5. ~Decided(r) /\ Phase(r) = "running"
  BY <1>1, <1>3 DEF Decided, PhaseIs
<1>6. Leaves[Root][Len(hist[r].calls)] = Element(r)
  BY <1>3 DEF PlacedInv, Placed, Called
<1>7. \A q \in Requests : q # r => Phase(q)' = Phase(q) /\ Verdict(q)' = Verdict(q)
  BY OthersUnseen DEF ValidatorStep
<1>8. /\ Decisive(heap'[ret'[r].ref]) <=> Decisive(res)
      /\ heap'[ret'[r].ref].valid = res.valid /\ heap'[ret'[r].ref].msg = res.msg
  BY <1>2, SameRuling DEF Ruling
<1>9. Decided(r)' <=> Decisive(res)
  BY <1>2, <1>3, <1>8 DEF Decided, EndsChain, Given, Decisive
<1>10. CASE ~Decisive(res)
  <2>1. Phase(r)' = "ready" /\ Verdict(r)' = Verdict(r)
    BY <1>1, <1>3, <1>5, <1>9, <1>10 DEF PhaseIs, VerdictIs
  <2>2. /\ [q \in Requests |-> Phase(q)]' = [[q \in Requests |-> Phase(q)] EXCEPT ![r] = "ready"]
        /\ [q \in Requests |-> Verdict(q)]' = [q \in Requests |-> Verdict(q)]
        /\ [q \in Requests |-> hist[q].calls]' = [q \in Requests |-> hist[q].calls]
        /\ [q \in Requests |-> hist[q].late]' = [q \in Requests |-> hist[q].late]
    BY <1>4, <1>7, <2>1 DEF SameCalls
  <2> QED
    BY <1>2, <1>3, <1>5, <1>6, <1>10, <2>2 DEF Review!Pass, Decisive
<1>11. CASE Decisive(res)
  <2>1. Phase(r)' = "answered"
    BY <1>1, <1>3, <1>9, <1>11 DEF PhaseIs
  <2>2. Verdict(r)' = Spoken("result", res.valid, res.msg)
    BY <1>1, <1>2, <1>8, <1>9, <1>11 DEF VerdictIs
  <2>3. res.valid \in BOOLEAN
    BY <1>2 DEF Result
  <2>4. Verdict(r)' = Review!Verdict(res.valid, res.msg)
    BY <2>2, <2>3, SpokenResult
  <2>5. Review!Decide(r, Review!Verdict(res.valid, res.msg))
    BY <1>3, <1>4, <1>7, <2>1, <2>4, Decides DEF Sees
  <2>6. [q \in Requests |-> Phase(q)][r] = "running"
        /\ Leaves[Root][Len([q \in Requests |-> hist[q].calls][r])] = Element(r)
    BY <1>5, <1>6
  <2> QED
    BY <1>2, <1>11, <2>5, <2>6, Zenon DEF Review!Rule, Decisive
<1> QED
  BY <1>10, <1>11

LEMMA CancelCancels ==
  ASSUME TypeInv, VerdictInv, NEW r \in Requests, Cancel(r)
  PROVE  Review!Cancel(r)
<1>1. /\ pc' = pc /\ ret' = ret /\ hist' = hist /\ answer' = answer
      /\ heap' = heap /\ ~ctxDone[r] /\ ctxDone' = [ctxDone EXCEPT ![r] = TRUE]
  BY DEF Cancel
<1>2. \A q \in Requests : Phase(q)' = Phase(q) /\ Verdict(q)' = Verdict(q)
  BY <1>1, SameView DEF TypeInv, TypeOK, Places
<1> QED
  BY <1>1, <1>2 DEF Review!Cancel

LEMMA InitReview == Init => Review!Init
<1> SUFFICES ASSUME Init PROVE Review!Init
  OBVIOUS
<1>1. ASSUME NEW q \in Requests
      PROVE  Phase(q) = "idle" /\ Verdict(q) = Review!Outcome("none")
  <2>1. PhaseIs(q) /\ VerdictIs(q) /\ pc[q] = "idle" /\ answer[q].kind = "none"
    BY PhaseCases, VerdictCases DEF Init, NoAnswer
  <2>2. ~Decided(q)
    BY <2>1 DEF Decided
  <2>3. Verdict(q) = Spoken("none", answer[q].valid, answer[q].msg)
    BY <2>1, <2>2 DEF VerdictIs
  <2> QED
    BY <2>1, <2>3, SpokenFailure DEF PhaseIs
<1> QED
  BY <1>1 DEF Init, Review!Init

LEMMA StepReview ==
  ASSUME TypeInv, VerdictInv, LateInv, PlacedInv, [Next]_vars
  PROVE  [Review!Next]_(Review!vars)
<1>1. ASSUME NEW r \in Requests, Cancel(r) PROVE Review!Next
  BY <1>1, CancelCancels DEF Review!Next
<1>2. ASSUME NEW r \in Requests, ChainStep(r) \/ ValidatorStep(r)
      PROVE  [Review!Next]_(Review!vars)
  <2>1. Unnoticed(r) => UNCHANGED Review!vars
    BY <1>2, OthersUnseen, UnnoticedSteps
  <2>2. CASE Start(r)
    BY <2>2, StartBegins DEF Review!Next
  <2>3. CASE LoopEnd(r)
    BY <2>1, <2>3, LoopEndFinishes DEF Review!Next
  <2>4. CASE ContextDone(r)
    BY <2>4, ContextGivesUp DEF Review!Next
  <2>5. CASE CallValidator(r)
    BY <2>5, CallsNext DEF Review!Next
  <2>6. CASE Proceed(r) \/ CallChain(r) \/ Continue(r)
    BY <2>1, <2>6, OnTheWay
  <2>7. CASE Fail(r)
    BY <2>1, <2>7, FailUnwinds
  <2>8. CASE Stop(r) \/ StopReturn(r)
    BY <2>1, <2>8, StopUnwinds
  <2>9. CASE Forge(r)
    BY <2>1, <2>9, ForgeTells
  <2>10. CASE ValidatorFails(r) \/ ValidatorPanics(r)
    BY <2>10, FailureBreaks DEF Review!Next
  <2>11. CASE ValidatorReturns(r)
    BY <2>11, ResultRules DEF Review!Next
  <2> QED
    BY <1>2, <2>2, <2>3, <2>4, <2>5, <2>6, <2>7, <2>8, <2>9, <2>10, <2>11
    DEF ChainStep, ValidatorStep
<1>3. CASE UNCHANGED vars
  <2>1. \A q \in Requests : Phase(q)' = Phase(q) /\ Verdict(q)' = Verdict(q)
    BY <1>3, SameView DEF vars, TypeInv, TypeOK, Places
  <2> QED
    BY <1>3, <2>1 DEF vars, Review!vars
<1> QED
  BY <1>1, <1>2, <1>3 DEF Next, AllDone

(* However the chains nest, a review is the flat sequence of its           *)
(* validators: in that order, the first denial or stop the verdict, over   *)
(* at the first error, nil or panic, with one late call at most, and with  *)
(* no other review's step in it (validator.go:62-93).                      *)
THEOREM ChainsAreFlat == Spec => ReviewSpec
<1>1. TypeInv /\ VerdictInv /\ LateInv /\ PlacedInv /\ [Next]_vars
        => [Review!Next]_(Review!vars)
  BY StepReview
<1> QED
  BY <1>1, InitReview, VerdictInvariant, LateInvariant, PlacedInvariant, PTL
  DEF Spec, ReviewSpec, Review!Spec
=============================================================================
