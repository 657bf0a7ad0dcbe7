----------------------------- MODULE MCWorkers -----------------------------
(* Transitions 1 and 3 are transfers of one Bitcoin transaction, 1, whose   *)
(* first tagged payload is the commitment of 3 and not that of 1; the       *)
(* source may learn of it too late for either.  2 mints, in the block of 3. *)
(* The transaction of 4 is answered with errors only.                       *)
EXTENDS Workers, TLC

CONSTANTS good, other, b2, b3

Plain(value) == [tagged |-> FALSE, value |-> value]
Tag(value) == [tagged |-> TRUE, value |-> value]

MCBlockOf == <<1, 2, 2, 3>>
MCTxidOf == <<1, 2, 1, 3>>
MCExpected == <<other, good, good, good>>
MCPayloads == (1 :> <<Plain(other), Tag(good), Tag(other)>>) @@ (2 :> <<Plain(other)>>) @@ (3 :> <<>>)
MCFundedBy == (b2 :> 2) @@ (b3 :> 1)
MCBoundBy == (b2 :> 2) @@ (b3 :> 3)
=============================================================================
