----------------------- MODULE KeyboardScanProperties -----------------------
(***************************************************************************)
(* What the scanning of module KeyboardScan has to guarantee.              *)
(***************************************************************************)
EXTENDS KeyboardScan

\* The type of every variable of KeyboardScan: the counters stay within the
\* bounds at which the handlers compare them.
TypeOK ==
    /\ pressed \in KeyStates
    /\ high \in KeyStates
    /\ portEvent \in BOOLEAN
    /\ maintOn \in BOOLEAN
    /\ debOn \in BOOLEAN
    /\ tickLate \in BOOLEAN
    /\ sinceMaint \in 0..MaintPeriod
    /\ pc \in Pcs
    /\ row \in Rows
    /\ keys \in KeyStates
    /\ keys_snapshot \in KeyStates
    /\ keys_buffer \in KeyStates
    /\ debouncing \in BOOLEAN
    /\ debounce_ticks \in 0..(DEBOUNCE + 1)
    /\ activity_ticks \in 0..(ACTIVITY + 1)
    /\ queued \in 0..TxCap
    /\ lastQueued \in KeyStates
    /\ offers \in 0..(Resends + 1)
    /\ refused \in 0..(Resends + 1)
    /\ held \in [Rows -> -DEBOUNCE..DEBOUNCE]

Asleep == pc = "idle" /\ ~ debOn /\ ~ tickLate

\* A sleeping half can be woken: unless the interrupt that wakes it is already
\* pending, every row is high and no key is down, so the next press of any key is
\* a rising edge - however a press fell into the way to sleep (main.c:233-242), a
\* wake-up or a late tick.
NeverDeaf == Asleep /\ ~ portEvent => high = Rows /\ pressed = {} /\ ~ maintOn

\* The state of a key changes only after the key itself, and not a bounce of it or
\* another key in its column, was in the new state in DEBOUNCE scans in a row,
\* although a wake-up may leave rows high and the first scan after it wrong.
OnlyStableKeys ==
    [][\A r \in Rows :
          (r \in keys) # (r \in keys') =>
              held[r] = IF r \in keys' THEN DEBOUNCE ELSE -DEBOUNCE]_vars

\* No key stays down at the receiver because its half fell asleep (main.c:230-242).  A
\* sleeping half has taken the release of every key and called send_data for it 1 +
\* Resends times (four with the numbers of the code); and the packet queued last tells
\* the release, unless the full FIFO refused each of these (main.c:154-161).  A half
\* that has taken no key since its boot has nothing to release.
ReleasedBeforeSleep ==
    Asleep =>
        /\ keys = {}
        /\ offers \in {0, Resends + 1}
        /\ lastQueued = {} \/ refused = Resends + 1

-----------------------------------------------------------------------------
\* Clocks tick, interrupts are served and the radio sends or gives up.
Fairness ==
    /\ WF_vars(GPIOTE_IRQHandler)
    /\ WF_vars(Transmit)
    /\ WF_vars(handler_maintenance)
    /\ WF_vars(Tick)
    /\ WF_vars(handler_debounce)

FairSpec == Spec /\ Fairness

\* Once the keys rest, asleep or awake, scanned or in the middle of debouncing
\* something else, the half's state becomes theirs, and while a key is down the
\* packet with that state gets through a full FIFO.
RestingKeysAreSent ==
    \A S \in KeyStates :
        <>[](pressed = S) => <>[](keys = S /\ (S # {} => lastQueued = S))
=============================================================================
