------------------------------ MODULE MCSource ------------------------------
(* Two funding transactions: 1 has an output with an owner and one without *)
(* an address, 2 is not known to the source.  Further transactions only    *)
(* lengthen the history of the owner.                                      *)
EXTENDS Source

CONSTANTS x1, x2, x3, x4

MCOuts  == (1 :> {0, 1}) @@ (2 :> {0, 1})
MCVouts == (1 :> {0, 1}) @@ (2 :> {0, 2})
MCOwnerOf ==
    (1 :> ((0 :> 1) @@ (1 :> NoAddress))) @@ (2 :> ((0 :> 1) @@ (1 :> 1)))
MCSpenders == {x1, x2, x3, x4}
MCOlders == {<<x2, x1>>, <<x4, x3, x2>>}
MCSpentOutput ==
    (x1 :> <<1, 0>>) @@ (x2 :> <<1, 1>>) @@ (x3 :> <<2, 5>>) @@ (x4 :> <<2, 6>>)
MCTouched == (x1 :> {1}) @@ (x2 :> {1}) @@ (x3 :> {1}) @@ (x4 :> {1})

\* Three groups of one output each, none of them spent, for the throttle.
MCOne     == [g \in Groups |-> {0}]
MCOwned   == [g \in Groups |-> (0 :> 1)]
MCNoChain == <<>>
MCOlder   == {<<>>}
=============================================================================
