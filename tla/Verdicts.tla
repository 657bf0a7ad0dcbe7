------------------------------ MODULE Verdicts ------------------------------
(***************************************************************************)
(* What commitment verification promises the readers of the verdicts and   *)
(* of the findings, without passes, batches, requests or restarts.         *)
(*                                                                         *)
(* A transition is judged once.  Nobody reads a verdict that is taken back *)
(* later, a mismatch nobody was told of, or a finding the chains do not    *)
(* justify; and no finding is withdrawn.                                   *)
(***************************************************************************)
EXTENDS Integers

CONSTANTS Transitions, TxidOf, NoTxid, Issuances, Expected, Payloads

VARIABLES
    status,     \* status[t]: what is said about t
    anomalies   \* the findings, <<kind, t>>

vars == <<status, anomalies>>

Published(t) == Payloads[TxidOf[t]]

\* The payload that counts: the first tagged one, wherever it stands, and the
\* first one where nothing is tagged.
Decides(t, i) ==
    LET p == Published(t) IN
    IF p[i].tagged THEN \A k \in DOMAIN p : p[k].tagged => i <= k
    ELSE \A k \in DOMAIN p : ~ p[k].tagged /\ i <= k

\* What a verdict on t needs of the two chains.
Justified(t, verdict) ==
    \/ verdict = "not_applicable" /\ t \in Issuances
    \/ verdict = "btc_unknown" /\ t \notin Issuances
    \/ /\ verdict = "missing" /\ t \notin Issuances
       /\ DOMAIN Published(t) = {}
    \/ /\ verdict \in {"match", "mismatch"} /\ t \notin Issuances
       /\ \E i \in DOMAIN Published(t) :
             /\ Decides(t, i)
             /\ verdict = "match" <=> Published(t)[i].value = Expected[t]

Init == status = [t \in Transitions |-> "unchecked"] /\ anomalies = {}

\* A mismatch is made known before it becomes the verdict.
ReportMismatch(t) ==
    /\ status[t] = "unchecked"
    /\ Justified(t, "mismatch")
    /\ anomalies' = anomalies \cup {<<"commitment_mismatch", t>>}
    /\ UNCHANGED status

Judge(t, verdict) ==
    /\ status[t] = "unchecked" /\ TxidOf[t] # NoTxid
    /\ Justified(t, verdict)
    /\ verdict = "mismatch" => <<"commitment_mismatch", t>> \in anomalies
    /\ status' = [status EXCEPT ![t] = verdict]
    /\ UNCHANGED anomalies

\* A transaction nobody knows is made known after it became the verdict.
ReportUnknown(t) ==
    /\ status[t] = "btc_unknown"
    /\ anomalies' = anomalies \cup {<<"unknown_btc_tx", t>>}
    /\ UNCHANGED status

Next ==
    \E t \in Transitions :
        \/ ReportMismatch(t)
        \/ \E verdict \in {"match", "mismatch", "missing", "btc_unknown", "not_applicable"} :
              Judge(t, verdict)
        \/ ReportUnknown(t)

Spec == Init /\ [][Next]_vars
=============================================================================
