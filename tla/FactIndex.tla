----------------------------- MODULE FactIndex -----------------------------
(***************************************************************************)
(* What CKB discovery promises its readers, without how it is done.        *)
(*                                                                         *)
(* `view` is always exactly what the canonical chain says between          *)
(* StartBlock and the checkpoint.  It is published in whole steps: a       *)
(* reader never sees part of a block, and never sees anything that a       *)
(* reorganisation of up to ReorgLag blocks could take back.                *)
(***************************************************************************)
EXTENDS Extract

CONSTANTS StartBlock, ReorgLag

VARIABLES chain, tip, checkpoint, view

PlaceAt(h, i) == [block |-> h, fork |-> chain[h].fork, index |-> i]

Positions(lo, hi) ==
    UNION {{<<h, i>> : i \in DOMAIN chain[h].txs} : h \in lo .. hi}

TxAt(p) == chain[p[1]].txs[p[2]]

SpentIn(lo, hi) == UNION {Inputs[TxAt(p)] : p \in Positions(lo, hi)}

\* Cells created in the indexed range, where they were created; and older
\* cells, once something in the range spends them.
CreatedRows(cp) ==
    (UNION {{<<c, PlaceAt(p[1], p[2])>> : c \in ClassifyOutputs(TxAt(p))} :
               p \in Positions(StartBlock, cp)})
    \cup
    (UNION {{<<c, PlaceAt(p[1], -1)>> :
                c \in Outputs[TxAt(p)] \cap SpentIn(StartBlock, cp)} :
               p \in Positions(0, StartBlock - 1)})

ConsumedRows(cp) ==
    UNION {{<<c, TxAt(p), PlaceAt(p[1], p[2])>> : c \in Inputs[TxAt(p)]} :
              p \in Positions(StartBlock, cp)}

Readable(t) == Extractable(Inputs[t], ClassifyOutputs(t))

TransitionRows(cp) ==
    {<<TxAt(p), PlaceAt(p[1], p[2]),
       TransitionOf(Inputs[TxAt(p)], ClassifyOutputs(TxAt(p)))>> :
        p \in {q \in Positions(StartBlock, cp) : Readable(TxAt(q))}}

View(cp) == [created     |-> CreatedRows(cp),
             consumed    |-> ConsumedRows(cp),
             transitions |-> TransitionRows(cp)]

NoFacts == [created |-> {}, consumed |-> {}, transitions |-> {}]

Init ==
    /\ checkpoint = -1
    /\ view = NoFacts

\* The chain moves on; what is ReorgLag below its tip is settled.
World ==
    /\ tip' >= tip
    /\ \A h \in 0 .. tip - ReorgLag : chain'[h] = chain[h]
    /\ UNCHANGED <<checkpoint, view>>

\* The stream row is created: nothing has been processed yet.
Open ==
    /\ checkpoint = -1
    /\ checkpoint' = StartBlock - 1
    /\ UNCHANGED <<chain, tip, view>>

\* A range of settled blocks is published, all at once.
Publish ==
    /\ checkpoint' \in checkpoint + 1 .. tip - ReorgLag
    /\ view' = View(checkpoint')
    /\ UNCHANGED <<chain, tip>>

Next == World \/ Open \/ Publish

Spec == Init /\ [][Next]_<<chain, tip, checkpoint, view>>
=============================================================================
