-------------------------- MODULE MCValidatorChain --------------------------
(* An instance of ValidatorChain for TLC: root = b, inner, a with inner =  *)
(* s, empty, a.  b varies in everything, s denies with a prepared result   *)
(* or finds the object valid, a finds it valid with a prepared result.     *)
EXTENDS ValidatorChain, TLC

CONSTANTS a, b, s, root, inner, empty, ma, mb, wa, wb, ws

Res(stop, valid, m, ws_) == [stop |-> stop, valid |-> valid, msg |-> m, warnings |-> ws_]

MCElements == (root :> <<b, inner, a>>) @@ (inner :> <<s, empty, a>>) @@ (empty :> <<>>)
MCLeaves   == (root :> <<b, s, a, a>>) @@ (inner :> <<s, a>>) @@ (empty :> <<>>)
MCPrepared == (a :> Res(FALSE, TRUE, NoMessage, <<wa>>)) @@ (s :> Res(FALSE, FALSE, ma, <<ws>>))
MCReturns  ==
  (a :> {MCPrepared[a]}) @@
  (b :> {Res(FALSE, TRUE, NoMessage, <<>>), Res(FALSE, TRUE, NoMessage, <<wb>>),
         Res(TRUE, TRUE, mb, <<wb>>), Res(FALSE, FALSE, mb, <<>>), Res(TRUE, FALSE, NoMessage, <<wb>>)}) @@
  (s :> {MCPrepared[s], Res(FALSE, TRUE, NoMessage, <<wb, ws>>), Res(TRUE, TRUE, NoMessage, <<>>)})
=============================================================================
