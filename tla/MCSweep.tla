------------------------------ MODULE MCSweep ------------------------------
(* Two bindings; x1 is an RGB++ transfer of the first, x2 a wallet's spend of
   both that knows nothing of RGB++. *)
EXTENDS Sweep, TLC

CONSTANTS x1, x2

MCTxids == {x1, x2}
MCSpends == (x1 :> {1} @@ x2 :> {1, 2})
MCCreates == (x1 :> {} @@ x2 :> {})
MCCommits == {x1}
\* x1 re-binds its asset to the second outpoint.
MCCreatesSecond == (x1 :> {2} @@ x2 :> {})
MCSpendsFirst == (x1 :> {1} @@ x2 :> {1})
\* Only the wallet's spend, of the second outpoint.
MCWallet == {x2}
MCWalletSpends == (x2 :> {2})
MCWalletCreates == (x2 :> {})
=============================================================================
