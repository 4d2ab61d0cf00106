------------------------------ MODULE MCRekey ------------------------------
(* Rekey with small constants, for TLC: the values are in the .cfg files.  *)
EXTENDS RekeyRefinement, TLC

\* A bound of the two-half run: the halves send in turn, each packet leaving
\* before the other half starts its own.  They are separate chips and meet only in
\* the receiver, where a packet of each may be waiting.
Quiet(h) == sendPc[h] = "idle" /\ txFifo[h] = <<>> /\ ackRx[h] = <<>>
HalvesSendInTurn == \A g, h \in Halves : g # h => Quiet(g) \/ Quiet(h)

\* Bounds on the disturbances of a behaviour, of any kind.  None of them is ever
\* due, so leaving states out takes no fair step away.
Disturbances ==
    spent.loss + spent.kbReset + spent.rcvReset
        + spent.rekeyFault + spent.sealFault + spent.packetFault
OneDisturbance == Disturbances <= 1
TwoDisturbances == Disturbances <= 2

\* A bound that keeps the runs short: AES operations that fail or are spoilt come
\* without a disturbance of another kind.
FaultsAlone ==
    \A fault \in {"rekeyFault", "sealFault", "packetFault"} :
        spent[fault] > 0 => Disturbances = spent[fault]

\* A bound that keeps restarts_and_wrap short: two AES operations fail or are spoilt,
\* say one of a packet and one of the callback that preempts it, only before the second
\* seed is drawn.
TwoFaultsEarly == spent.packetFault > 1 => drawn <= 1

\* A bound of the rotation run: packets or callbacks, and payloads, of a half on the way.
FewInTransit ==
    \A h \in Halves :
        /\ Len(txFifo[h]) + rxCalls[h] <= 2
        /\ Len(ackFifo[h]) + Len(ackRx[h]) <= 3
=============================================================================
