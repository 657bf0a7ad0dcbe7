----------------------------- MODULE MCScanner -----------------------------
(* Small chains for Scanner: an issuance, a transfer, a leap to CKB that
   competes with the transfer, the unlock of the leap, and a transaction that
   spends a cell whose lock args cannot be parsed. *)
EXTENDS ScannerInv, TLC

CONSTANTS t1, t2, t3, t4, t5, a, b, l, m, x1, x2, x3

MCTxs == {t1, t2, t3, t4, t5}
MCCells == {a, b, l, m}
MCInputs == (t1 :> {} @@ t2 :> {a} @@ t3 :> {a} @@ t4 :> {l} @@ t5 :> {m})
MCOutputs == (t1 :> {a, m} @@ t2 :> {b} @@ t3 :> {l} @@ t4 :> {} @@ t5 :> {})
MCLockOf == (a :> "rgbpp" @@ b :> "rgbpp" @@ m :> "rgbpp" @@ l :> "btc_time")
MCBoundTxid == (a :> x1 @@ b :> x2 @@ m :> x1 @@ l :> x3)
MCMalformed == {m}
MCBodies == {<<>>, <<t1>>, <<t2>>, <<t1, t2>>, <<t3>>, <<t4>>}
\* The malformed cell m is spent.
MCBodiesMalformed == {<<>>, <<t1>>, <<t5>>}
MCNoTxs == <<>>
MCIssuance == <<t1>>
=============================================================================
