----------------------------- MODULE MCReadApi -----------------------------
(* s1, s2 and s4 belong to alice, s3 to bob.  t1, which b1 commits to,      *)
(* moves c1, older than the index, to alice (c2) and bob (c3, with the      *)
(* cluster c4).  t2 (b2) moves c2 to CKB (c5, under the time lock) and      *)
(* mints c6 for alice, which t3 melts in the same block; what is left of it *)
(* (c7, without an asset) is bound to b1 again.                             *)
EXTENDS ReadApi

CONSTANTS t1, t2, t3, c1, c2, c3, c4, c5, c6, c7, s1, s2, s3, s4, alice, bob, b0, b1, b2

MCPos == (t1 :> <<1, 0>>) @@ (t2 :> <<2, 0>>) @@ (t3 :> <<2, 1>>)
MCCreatedBy ==
    (c1 :> NoTx) @@ (c2 :> t1) @@ (c3 :> t1) @@ (c4 :> t1) @@ (c5 :> t2) @@ (c6 :> t2)
    @@ (c7 :> t3)
MCConsumedBy ==
    (c1 :> t1) @@ (c2 :> t2) @@ (c3 :> NoTx) @@ (c4 :> NoTx) @@ (c5 :> NoTx) @@ (c6 :> t3)
    @@ (c7 :> NoTx)
MCSealOf ==
    (c1 :> s1) @@ (c2 :> s2) @@ (c3 :> s3) @@ (c4 :> s3) @@ (c5 :> NoSeal) @@ (c6 :> s4)
    @@ (c7 :> NoSeal)
MCOwnerOf == (s1 :> alice) @@ (s2 :> alice) @@ (s3 :> bob) @@ (s4 :> alice)
MCAssetOf ==
    (c1 :> 1) @@ (c2 :> 1) @@ (c3 :> 1) @@ (c4 :> 2) @@ (c5 :> 1) @@ (c6 :> 3) @@ (c7 :> NoAsset)
MCKindOf == (1 :> "xudt") @@ (2 :> "spore_cluster") @@ (3 :> "spore")
MCAmount ==
    (c1 :> 5) @@ (c2 :> 3) @@ (c3 :> 2) @@ (c4 :> 0) @@ (c5 :> 3) @@ (c6 :> 0) @@ (c7 :> 0)
MCBoundTo ==
    (c1 :> b0) @@ (c2 :> b1) @@ (c3 :> b1) @@ (c4 :> b1) @@ (c5 :> b2) @@ (c6 :> b2) @@ (c7 :> b1)
MCVoutOf == (s1 :> 0) @@ (s2 :> 0) @@ (s3 :> 1) @@ (s4 :> 0)
MCBtcTxidOf == (t1 :> b1) @@ (t2 :> b2) @@ (t3 :> b1)
MCOutCount == (b0 :> 1) @@ (b1 :> 3) @@ (b2 :> 1)
=============================================================================
