---------------------------- MODULE KeyboardScan ----------------------------
(***************************************************************************)
(* A keyboard half between its switches and its radio: handler_debounce    *)
(* scans and debounces the keys, handler_maintenance repeats the last      *)
(* state, and after a while without a key the half stops both clocks and   *)
(* drives all rows high, so that a key press raises the GPIO port event    *)
(* and GPIOTE_IRQHandler wakes it again.                                   *)
(*                                                                         *)
(* The keys are those of one column, one per row, so a key state is a set  *)
(* of rows.  A column pin reads high when the key of any high row is down. *)
(***************************************************************************)
EXTENDS Integers

CONSTANTS
    ROWS,           \* rows of a half (5 in the code)
    DEBOUNCE,       \* equal scans after the first before a state is taken
    ACTIVITY,       \* empty scans before the half goes to sleep
    MaintPeriod,    \* scans in a maintenance tick (128: clocks of 1024 and 8 Hz)
    TxCap           \* packets in the Gazell transmit FIFO

ASSUME RowsAssumption == ROWS \in Nat \ {0}
ASSUME TimesAssumption ==
    /\ DEBOUNCE \in Nat \ {0}
    /\ MaintPeriod \in Nat \ {0}
    /\ ACTIVITY \in Nat
    /\ ACTIVITY >= DEBOUNCE + 2
ASSUME TxCapAssumption == TxCap \in Nat \ {0}

VARIABLES
    pressed,        \* the keys held down
    high,           \* the rows driven high
    portEvent,      \* NRF_GPIOTE->EVENTS_PORT
    maintOn, debOn, \* the clocks of the two handlers run
    tickLate,       \* a debounce tick came while the handler was running
    sinceMaint,     \* scans since the last maintenance tick
    pc, row,        \* where handler_debounce is
    keys, keys_snapshot, keys_buffer,
    debouncing, debounce_ticks, activity_ticks,
    queued,         \* packets waiting in the transmit FIFO
    lastQueued,     \* ghost: the state in the packet queued last
    offers,         \* ghost: send_data calls since a state was taken (0: none was)
    refused,        \* ghost: how many of these in a row the full FIFO refused
    held            \* ghost: for each key, scans in a row it was down (or up: negative)

pinVars   == <<pressed, high, portEvent>>
clockVars == <<maintOn, debOn, tickLate, sinceMaint>>
keyVars   == <<keys, keys_snapshot, debouncing, debounce_ticks>>
sendVars  == <<queued, lastQueued, offers, refused>>
vars == <<pinVars, clockVars, pc, row, keyVars, keys_buffer, activity_ticks,
          sendVars, held>>

Rows == 1..ROWS
KeyStates == SUBSET Rows
Pcs == {"idle", "read", "debounce", "activity", "stop_maint", "stop_deb", "raise"}

\* How many maintenance ticks at least follow the release of all keys before the half
\* sleeps.
Resends == (ACTIVITY - DEBOUNCE - 2) \div MaintPeriod
AtMost(n, max) == IF n > max THEN max ELSE n

Init ==
    /\ pressed = {}
    /\ high = {}
    /\ portEvent = FALSE
    /\ maintOn = TRUE
    /\ debOn = TRUE
    /\ tickLate = FALSE
    /\ sinceMaint = 0
    /\ pc = "idle"
    /\ row = 1
    /\ keys = {}
    /\ keys_snapshot = {}
    /\ keys_buffer = {}
    /\ debouncing = FALSE
    /\ debounce_ticks = 0
    /\ activity_ticks = 0
    /\ queued = 0
    /\ lastQueued = {}
    /\ offers = 0
    /\ refused = 0
    /\ held = [r \in Rows |-> 0]

-----------------------------------------------------------------------------
(* The pins.  The port event is the rising edge of DETECT, the or of all   *)
(* columns; it is latched until the interrupt handler clears it.           *)

Detect(p, rows) == p \cap rows # {}
Latched(p, rows) == portEvent \/ (Detect(p, rows) /\ ~ Detect(pressed, high))

\* A key goes down or comes up (or bounces).
Toggle(k) ==
    /\ pressed' = IF k \in pressed THEN pressed \ {k} ELSE pressed \cup {k}
    /\ portEvent' = Latched(pressed', high)
    /\ UNCHANGED <<high, clockVars, pc, row, keyVars, keys_buffer, activity_ticks,
                   sendVars, held>>

\* It has the highest priority and runs before the clock handlers go on.
KeepsClocks == UNCHANGED <<maintOn, debOn>>     \* mutant: a wake-up starts no clock
StartClocks == maintOn' = TRUE /\ debOn' = TRUE

GPIOTE_IRQHandler ==
    /\ portEvent
    /\ portEvent' = FALSE
    /\ StartClocks
    /\ high' = {}
    /\ activity_ticks' = 0
    /\ UNCHANGED <<pressed, tickLate, sinceMaint, pc, row, keyVars, keys_buffer,
                   sendVars, held>>

-----------------------------------------------------------------------------
(* send_data, as far as this module needs it: a full FIFO drops the packet.*)

\* n is how often in a row it has refused this state so far.
Counted(n) == AtMost(n + 1, Resends + 1)
Send(state, n) ==
    IF queued < TxCap
    THEN queued' = queued + 1 /\ lastQueued' = state /\ refused' = 0
    ELSE UNCHANGED <<queued, lastQueued>> /\ refused' = Counted(n)

\* The radio sends the first packet, or gives it up.
Transmit ==
    /\ queued > 0
    /\ queued' = queued - 1
    /\ UNCHANGED <<pinVars, clockVars, pc, row, keyVars, keys_buffer,
                   activity_ticks, lastQueued, offers, refused, held>>

\* The two clock handlers have one priority: neither interrupts the other.
Running(step) == pc = step /\ ~ portEvent

\* mutant: the maintenance tick sends only while a key is down
RepeatHeldKeys ==
    IF keys = {} THEN UNCHANGED sendVars
    ELSE Send(keys, refused) /\ offers' = Counted(offers)
\* Before a first state is taken it repeats what the receiver has from the start.
Repeat ==
    /\ Send(keys, refused)
    /\ offers' = IF offers = 0 THEN 0 ELSE Counted(offers)

handler_maintenance ==
    /\ Running("idle")
    /\ maintOn
    /\ sinceMaint >= MaintPeriod - 1
    /\ sinceMaint' = 0
    /\ Repeat
    /\ UNCHANGED <<pinVars, maintOn, debOn, tickLate, pc, row, keyVars, keys_buffer,
                   activity_ticks, held>>

-----------------------------------------------------------------------------
(* handler_debounce.                                                       *)

\* Both clocks run from one crystal, so the maintenance tick is not overtaken.
Tick ==
    /\ Running("idle")
    /\ \/ debOn /\ sinceMaint < MaintPeriod
       \/ tickLate
    /\ sinceMaint' = AtMost(sinceMaint + 1, MaintPeriod)
    /\ tickLate' = FALSE
    /\ pc' = "read"
    /\ row' = 1
    /\ UNCHANGED <<pinVars, maintOn, debOn, keyVars, keys_buffer, activity_ticks,
                   sendVars, held>>

PastLastRow(r) == r > ROWS                  \* mutant: one row too many
LastRow(r) == r = ROWS

Longer(n, down) ==
    IF down THEN AtMost(IF n < 0 THEN 1 ELSE n + 1, DEBOUNCE)
            ELSE -AtMost(IF n > 0 THEN 1 ELSE 1 - n, DEBOUNCE)

\* read_row: drive the row high, sample, drive it low.  A row another handler left
\* high shows its key in this row too.
Sampled(r) == Detect(pressed, high \cup {r})

read_row ==
    /\ Running("read")
    /\ keys_buffer' = IF Sampled(row) THEN keys_buffer \cup {row} ELSE keys_buffer \ {row}
    /\ portEvent' = Latched(pressed, high \cup {row})
    /\ high' = high \ {row}
    /\ held' = [held EXCEPT ![row] = Longer(@, row \in pressed)]
    /\ IF LastRow(row)
       THEN pc' = "debounce" /\ UNCHANGED row
       ELSE row' = row + 1 /\ UNCHANGED pc
    /\ UNCHANGED <<pressed, clockVars, keyVars, activity_ticks, sendVars>>

\* The state must stay for DEBOUNCE scans after the one that started debouncing.
\* debounce_ticks goes on counting; only whether it is past DEBOUNCE matters.
StillSnapshot ==
    /\ debouncing
    /\ keys_buffer = keys_snapshot
    /\ debounce_ticks' = AtMost(debounce_ticks + 1, DEBOUNCE + 1)
    /\ IF debounce_ticks' = DEBOUNCE
       THEN keys' = keys_snapshot /\ Send(keys_snapshot, 0) /\ offers' = 1
       ELSE UNCHANGED <<keys, sendVars>>
    /\ UNCHANGED <<keys_snapshot, debouncing>>

DebounceOn ==                               \* mutant: a change does not end it
    /\ debouncing
    /\ keys_buffer # keys_snapshot
    /\ UNCHANGED <<keyVars, sendVars>>
DebounceAgain ==
    /\ debouncing
    /\ keys_buffer # keys_snapshot
    /\ debouncing' = FALSE
    /\ UNCHANGED <<keys, keys_snapshot, debounce_ticks, sendVars>>

TicksKept == UNCHANGED debounce_ticks       \* mutant: the count is not reset
TicksReset == debounce_ticks' = 0

DebounceBegin ==
    /\ ~ debouncing
    /\ keys_buffer # keys
    /\ keys_snapshot' = keys_buffer
    /\ debouncing' = TRUE
    /\ TicksReset
    /\ UNCHANGED <<keys, sendVars>>

Unchanged ==
    /\ ~ debouncing
    /\ keys_buffer = keys
    /\ UNCHANGED <<keyVars, sendVars>>

Debounce ==
    /\ Running("debounce")
    /\ StillSnapshot \/ DebounceAgain \/ DebounceBegin \/ Unchanged
    /\ pc' = "activity"
    /\ UNCHANGED <<pinVars, clockVars, row, keys_buffer, activity_ticks, held>>

\* Only whether activity_ticks is past ACTIVITY matters.
Idle == activity_ticks' = IF keys_buffer = {} THEN AtMost(activity_ticks + 1, ACTIVITY + 1)
                                              ELSE 0

Activity ==
    /\ Running("activity")
    /\ Idle
    /\ pc' = IF keys_buffer = {} /\ activity_ticks' > ACTIVITY THEN "stop_maint" ELSE "idle"
    /\ UNCHANGED <<pinVars, clockVars, row, keyVars, keys_buffer, sendVars, held>>

\* Go to sleep: stop the clocks, then drive the rows high one by one.
StopMaint ==
    /\ Running("stop_maint")
    /\ maintOn' = FALSE
    /\ pc' = "stop_deb"
    /\ UNCHANGED <<pinVars, debOn, tickLate, sinceMaint, row, keyVars, keys_buffer,
                   activity_ticks, sendVars, held>>

\* The next tick may have come already; then the handler runs once more.
StopDeb ==
    /\ Running("stop_deb")
    /\ debOn' = FALSE
    /\ tickLate' \in BOOLEAN
    /\ pc' = "raise"
    /\ row' = 1
    /\ UNCHANGED <<pinVars, maintOn, sinceMaint, keyVars, keys_buffer,
                   activity_ticks, sendVars, held>>

\* The writes follow each other faster than the interrupt is taken, so it need not
\* have run yet when the next row goes high.
RaiseRow ==
    /\ pc = "raise"
    /\ high' = high \cup {row}
    /\ portEvent' = Latched(pressed, high')
    /\ IF LastRow(row)
       THEN pc' = "idle" /\ UNCHANGED row
       ELSE row' = row + 1 /\ UNCHANGED pc
    /\ UNCHANGED <<pressed, clockVars, keyVars, keys_buffer, activity_ticks,
                   sendVars, held>>

handler_debounce ==
    \/ read_row \/ Debounce \/ Activity \/ StopMaint \/ StopDeb \/ RaiseRow

Next ==
    \/ \E k \in Rows : Toggle(k)
    \/ GPIOTE_IRQHandler \/ Transmit
    \/ handler_maintenance \/ Tick \/ handler_debounce

Spec == Init /\ [][Next]_vars
=============================================================================
