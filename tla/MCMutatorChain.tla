--------------------------- MODULE MCMutatorChain ---------------------------
(* Instances of MutatorChain for TLC.                                      *)
EXTENDS MutatorChain

CONSTANTS a, b, c, s, root, inner, empty, oa, ob, o0, wa, wb, ws

Res(stop, o, w) == [stop |-> stop, obj |-> o, warnings |-> w]

(* root = a, inner, c with inner = s, empty, a: a stops or goes on, with   *)
(* and without an object and warnings; s stops with a prepared result that *)
(* has no object, or goes on; c goes on with a prepared result.            *)
NestedElements == (root :> <<a, inner, c>>) @@ (inner :> <<s, empty, a>>) @@ (empty :> <<>>)
NestedLeaves   == (root :> <<a, s, a, c>>) @@ (inner :> <<s, a>>) @@ (empty :> <<>>)
NestedPrepared == (s :> Res(TRUE, Nil, <<ws>>)) @@ (c :> Res(FALSE, Nil, <<ws>>))
NestedReturns  ==
  (c :> {NestedPrepared[c]}) @@
  (s :> {NestedPrepared[s], Res(FALSE, Nil, <<>>)}) @@
  (a :> {Res(FALSE, oa, <<wa>>), Res(TRUE, Nil, <<wa>>), Res(TRUE, oa, <<>>)})

(* root = a, b; every result is a fresh one.                               *)
FlatElements == (root :> <<a, b>>)
FlatLeaves   == (root :> <<a, b>>)
FlatPrepared == <<>>
FlatReturns  ==
  (a :> {Res(st, o, w) : st \in BOOLEAN, o \in {Nil, oa}, w \in {<<>>, <<wa>>}}) @@
  (b :> {Res(st, o, w) : st \in BOOLEAN, o \in {Nil, ob}, w \in {<<>>, <<wb>>}})
=============================================================================
