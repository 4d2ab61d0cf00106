------------------------- MODULE KeyboardScanProofs -------------------------
(***************************************************************************)
(* Proofs of the safety properties of a half's scanning, for any number of *)
(* rows and any debounce, activity and maintenance times the assumptions   *)
(* of KeyboardScan allow.                                                  *)
(***************************************************************************)
EXTENDS KeyboardScanProperties, TLAPS

-----------------------------------------------------------------------------
(* The inductive invariant.                                                *)

\* A state is being debounced and has not been taken yet.
Counting == debouncing /\ debounce_ticks < DEBOUNCE

Stopping == pc \in {"stop_maint", "stop_deb"}

\* A scan lowers every row, so between scans no event can come, until the rows are
\* raised to sleep.
PinsInv ==
    /\ pc = "read" => high \cap 1..(row - 1) = {}
    /\ pc \in {"debounce", "activity"} \/ Stopping => high = {}
    /\ pc = "activity" \/ Stopping => ~ portEvent
    /\ Stopping => activity_ticks > ACTIVITY
    /\ pc = "stop_deb" => ~ maintOn
    /\ tickLate => pc \in {"raise", "idle"}

\* While the clock of the scan is stopped and no interrupt is pending no row that is
\* high has its key down, also in the scan of a late tick.
Quiet ==
    /\ ~ maintOn
    /\ activity_ticks > ACTIVITY
    /\ ~ Detect(pressed, high)
    /\ pc = "idle" => high = Rows
    /\ pc = "read" => high = row..ROWS /\ keys_buffer \cap 1..(row - 1) = {}
    /\ pc \in {"debounce", "activity"} => keys_buffer = {}
    /\ pc = "raise" => high = 1..(row - 1)
QuietInv == ~ debOn /\ ~ portEvent => Quiet

\* The empty scans in a row, the one just debounced included.
Empties ==
    IF pc # "activity" THEN activity_ticks
    ELSE IF keys_buffer = {} THEN activity_ticks + 1 ELSE 0

\* How many of them debouncing a release takes.
DebounceInv ==
    /\ ~ debouncing /\ keys # {} => Empties <= 1
    /\ debouncing /\ keys_snapshot # {} => Empties = 0
    /\ Counting /\ keys_snapshot = {} => Empties <= debounce_ticks + 2
    /\ debouncing /\ ~ Counting => keys = keys_snapshot

\* How many there may be after it before the next maintenance tick; and a state no
\* packet tells has been refused each time.
Slack == DEBOUNCE + 2
OffersInv ==
    /\ pc \in {"read", "debounce", "activity"} => sinceMaint >= 1
    /\ lastQueued # keys => offers >= 1 /\ refused = offers
    /\ keys = {} /\ offers \in 1..Resends =>
           Empties + (IF pc \in {"read", "debounce"} THEN 1 ELSE 0)
               <= Slack + (offers - 1) * MaintPeriod + sinceMaint

\* On the way to sleep, asleep, and until the scan after a wake-up is over, the
\* release of all keys has been taken and offered often enough, and nothing is debounced.
Released == keys = {} /\ offers \in {0, Resends + 1} /\ ~ Counting
Sleepy == Stopping \/ pc = "raise" \/ ~ debOn \/ tickLate \/ high # {}
SleepInv == Sleepy => Released

\* The key was as in the snapshot in the last n scans; a snapshot itself may show the
\* keys of rows a wake-up left high.
Agrees(r, n) ==
    \/ n = 0
    \/ r \in keys_snapshot /\ held[r] >= n
    \/ r \notin keys_snapshot /\ -held[r] >= n
ReadInScan(r) == pc = "debounce" \/ (pc = "read" /\ r < row)
HeldInv ==
    Counting =>
        \A r \in Rows :
            IF ReadInScan(r)
            THEN (r \in keys_buffer <=> r \in keys_snapshot) => Agrees(r, debounce_ticks + 1)
            ELSE Agrees(r, debounce_ticks)

Inv == /\ TypeOK /\ PinsInv /\ QuietInv /\ DebounceInv /\ OffersInv /\ SleepInv /\ HeldInv

-----------------------------------------------------------------------------
(* Arithmetic.                                                             *)

LEMMA Products ==
    ASSUME NEW a \in Nat, NEW b \in Nat, NEW m \in Nat, a <= b
    PROVE  a * m <= b * m /\ a * m \in Nat
  OBVIOUS

\* As many maintenance ticks as the half may go without before it sleeps are due.
LEMMA Times ==
    /\ Resends \in Nat
    /\ Slack \in Nat /\ Slack >= DEBOUNCE + 2
    /\ \A n \in 0..Resends : Slack + n * MaintPeriod <= ACTIVITY
  <1> DEFINE X == ACTIVITY - DEBOUNCE - 2
  <1>1. X \in Nat /\ MaintPeriod \in Nat \ {0}
    BY TimesAssumption
  <1>2. Resends = X \div MaintPeriod
    BY DEF Resends
  <1>3. Resends \in Nat /\ Resends * MaintPeriod <= X
    BY <1>1, <1>2
  <1>4. Slack \in Nat /\ Slack = DEBOUNCE + 2
    BY TimesAssumption DEF Slack
  <1>5. ASSUME NEW n \in 0..Resends PROVE Slack + n * MaintPeriod <= ACTIVITY
    <2>1. n * MaintPeriod <= Resends * MaintPeriod /\ n * MaintPeriod \in Nat
      BY <1>1, <1>3, Products
    <2> QED
      BY <1>1, <1>3, <1>4, <2>1, TimesAssumption
  <1> QED
    BY <1>3, <1>4, <1>5

LEMMA LongerType ==
    ASSUME NEW n \in -DEBOUNCE..DEBOUNCE, NEW r, NEW S
    PROVE  Longer(n, r \in S) \in -DEBOUNCE..DEBOUNCE
  BY TimesAssumption DEF Longer, AtMost

-----------------------------------------------------------------------------
(* Types.                                                                  *)

LEMMA Numbers ==
    /\ 1 \in Rows
    /\ 0 \in 0..MaintPeriod /\ 0 \in 0..(DEBOUNCE + 1) /\ 0 \in 0..(ACTIVITY + 1)
    /\ 0 \in 0..TxCap /\ 0 \in 0..(Resends + 1) /\ 0 \in -DEBOUNCE..DEBOUNCE
  BY RowsAssumption, TimesAssumption, TxCapAssumption, Times DEF Rows

LEMMA TypeInit == Init => TypeOK
  BY Numbers DEF Init, TypeOK, KeyStates, Pcs

LEMMA TypeStep == TypeOK /\ [Next]_vars => TypeOK'
  <1> SUFFICES ASSUME TypeOK, [Next]_vars PROVE TypeOK'
    OBVIOUS
  <1> USE RowsAssumption, TimesAssumption, TxCapAssumption
      DEF TypeOK, KeyStates, Pcs, pinVars, clockVars, keyVars, sendVars, Running
  <1>1. CASE UNCHANGED vars
    BY <1>1 DEF vars
  <1>2. ASSUME NEW k \in Rows, Toggle(k) PROVE TypeOK'
    BY <1>2 DEF Toggle, Latched, Detect
  <1>3. CASE GPIOTE_IRQHandler
    BY <1>3, Numbers DEF GPIOTE_IRQHandler, StartClocks
  <1>4. CASE Transmit
    BY <1>4 DEF Transmit
  <1>5. CASE handler_maintenance
    <2>1. queued' \in 0..TxCap /\ lastQueued' \in KeyStates
      BY <1>5 DEF handler_maintenance, Repeat, Send
    <2>2. offers' \in 0..(Resends + 1) /\ refused' \in 0..(Resends + 1)
      BY <1>5, Times DEF handler_maintenance, Repeat, Send, Counted, AtMost
    <2> QED
      BY <1>5, <2>1, <2>2 DEF handler_maintenance
  <1>6. CASE Tick
    <2>1. sinceMaint' \in 0..MaintPeriod
      BY <1>6 DEF Tick, AtMost
    <2> QED
      BY <1>6, <2>1, Numbers DEF Tick
  <1>7. CASE read_row
    <2>1. held' \in [Rows -> -DEBOUNCE..DEBOUNCE]
      <3>1. Longer(held[row], row \in pressed) \in -DEBOUNCE..DEBOUNCE
        BY LongerType
      <3> QED
        BY <1>7, <3>1 DEF read_row
    <2>2. portEvent' \in BOOLEAN /\ row' \in Rows /\ pc' \in Pcs
      BY <1>7 DEF read_row, Latched, Detect, LastRow, Rows
    <2>3. keys_buffer' \in KeyStates /\ high' \in KeyStates
      BY <1>7 DEF read_row
    <2> QED
      BY <1>7, <2>1, <2>2, <2>3 DEF read_row
  <1>8. CASE Debounce
    <2>1. keys' \in KeyStates /\ keys_snapshot' \in KeyStates /\ debouncing' \in BOOLEAN
      BY <1>8 DEF Debounce, StillSnapshot, DebounceAgain, DebounceBegin, Unchanged
    <2>2. debounce_ticks' \in 0..(DEBOUNCE + 1)
      BY <1>8 DEF Debounce, StillSnapshot, DebounceAgain, DebounceBegin, Unchanged,
                  TicksReset, AtMost
    <2>3. queued' \in 0..TxCap /\ lastQueued' \in KeyStates
      BY <1>8 DEF Debounce, StillSnapshot, DebounceAgain, DebounceBegin, Unchanged, Send
    <2>4. offers' \in 0..(Resends + 1) /\ refused' \in 0..(Resends + 1)
      BY <1>8, Times
         DEF Debounce, StillSnapshot, DebounceAgain, DebounceBegin, Unchanged, Send,
             Counted, AtMost
    <2> QED
      BY <1>8, <2>1, <2>2, <2>3, <2>4 DEF Debounce
  <1>9. CASE Activity
    BY <1>9 DEF Activity, Idle, AtMost
  <1>10. CASE StopMaint \/ StopDeb
    BY <1>10, Numbers DEF StopMaint, StopDeb
  <1>11. CASE RaiseRow
    BY <1>11 DEF RaiseRow, Latched, Detect, LastRow, Rows
  <1> QED
    BY <1>1, <1>2, <1>3, <1>4, <1>5, <1>6, <1>7, <1>8, <1>9, <1>10, <1>11
       DEF Next, handler_debounce

-----------------------------------------------------------------------------
(* Pins and clocks.                                                        *)

LEMMA PinsStep == TypeOK /\ PinsInv /\ [Next]_vars => PinsInv'
  <1> SUFFICES ASSUME TypeOK, PinsInv, [Next]_vars PROVE PinsInv'
    OBVIOUS
  <1> USE RowsAssumption
      DEF PinsInv, Stopping, TypeOK, pinVars, clockVars, keyVars, sendVars, Running
  <1>1. CASE UNCHANGED vars
    BY <1>1 DEF vars
  <1>2. ASSUME NEW k \in Rows, Toggle(k) PROVE PinsInv'
    BY <1>2 DEF Toggle, Latched, Detect
  <1>3. CASE GPIOTE_IRQHandler
    BY <1>3 DEF GPIOTE_IRQHandler
  <1>4. CASE Transmit
    BY <1>4 DEF Transmit
  <1>5. CASE handler_maintenance
    BY <1>5 DEF handler_maintenance
  <1>6. CASE Tick
    BY <1>6 DEF Tick
  <1>7. CASE read_row
    <2>1. CASE row = ROWS
      BY <1>7, <2>1 DEF read_row, LastRow, Rows, KeyStates
    <2>2. CASE row # ROWS
      BY <1>7, <2>2 DEF read_row, LastRow, Rows
    <2> QED
      BY <2>1, <2>2
  <1>8. CASE Debounce
    BY <1>8 DEF Debounce
  <1>9. CASE Activity
    BY <1>9 DEF Activity
  <1>10. CASE StopMaint \/ StopDeb
    BY <1>10 DEF StopMaint, StopDeb
  <1>11. CASE RaiseRow
    BY <1>11 DEF RaiseRow
  <1> QED
    BY <1>1, <1>2, <1>3, <1>4, <1>5, <1>6, <1>7, <1>8, <1>9, <1>10, <1>11
       DEF Next, handler_debounce

LEMMA QuietStep == TypeOK /\ PinsInv /\ QuietInv /\ [Next]_vars => QuietInv'
  <1> SUFFICES ASSUME TypeOK, PinsInv, QuietInv, [Next]_vars, ~ debOn', ~ portEvent'
               PROVE  Quiet'
    BY DEF QuietInv
  <1> USE RowsAssumption DEF QuietInv, TypeOK, pinVars, clockVars, keyVars, sendVars, Running
  <1>1. CASE UNCHANGED vars
    BY <1>1 DEF vars, Quiet, Detect
  <1>2. ASSUME NEW k \in Rows, Toggle(k) PROVE Quiet'
    BY <1>2 DEF Toggle, Latched, Detect, Quiet
  <1>3. CASE GPIOTE_IRQHandler
    BY <1>3 DEF GPIOTE_IRQHandler, StartClocks
  <1>4. CASE Transmit
    BY <1>4 DEF Transmit, Quiet, Detect
  <1>5. CASE handler_maintenance
    BY <1>5 DEF handler_maintenance, Quiet, Detect
  <1>6. CASE Tick
    BY <1>6 DEF Tick, Quiet, Detect, Rows
  <1>7. CASE read_row
    <2>1. Quiet /\ ~ Detect(pressed, high) /\ row \in high
      BY <1>7 DEF read_row, Quiet, Rows
    <2>2. ~ Sampled(row)
      BY <2>1 DEF Sampled, Detect
    <2>3. keys_buffer' = keys_buffer \ {row} /\ high' = high \ {row}
      BY <1>7, <2>2 DEF read_row
    <2>4. ~ Detect(pressed, high)'
      BY <1>7, <2>1, <2>3 DEF read_row, Detect
    <2>5. CASE row = ROWS
      <3>1. keys_buffer' = {}
        BY <1>7, <2>1, <2>3, <2>5 DEF read_row, Quiet, Rows, KeyStates
      <3> QED
        BY <1>7, <2>1, <2>4, <2>5, <3>1 DEF read_row, LastRow, Quiet
    <2>6. CASE row # ROWS
      BY <1>7, <2>1, <2>3, <2>4, <2>6 DEF read_row, LastRow, Quiet, Rows
    <2> QED
      BY <2>5, <2>6
  <1>8. CASE Debounce
    BY <1>8 DEF Debounce, Quiet, Detect
  <1>9. CASE Activity
    <2>1. Quiet /\ keys_buffer = {}
      BY <1>9 DEF Activity, Quiet
    <2>2. activity_ticks' > ACTIVITY /\ pc' = "stop_maint"
      BY <1>9, <2>1, TimesAssumption DEF Activity, Idle, AtMost, Quiet
    <2> QED
      BY <1>9, <2>1, <2>2 DEF Activity, Quiet, Detect
  <1>10. CASE StopMaint
    BY <1>10 DEF StopMaint, Quiet, Detect
  <1>11. CASE StopDeb
    BY <1>11 DEF StopDeb, Quiet, Detect, PinsInv, Stopping
  <1>12. CASE RaiseRow
    <2>1. Quiet /\ high' = high \cup {row} /\ ~ Detect(pressed, high)'
      BY <1>12 DEF RaiseRow, Latched, Quiet, Detect
    <2>2. CASE row = ROWS
      BY <1>12, <2>1, <2>2 DEF RaiseRow, LastRow, Quiet, Rows
    <2>3. CASE row # ROWS
      BY <1>12, <2>1, <2>3 DEF RaiseRow, LastRow, Quiet, Rows
    <2> QED
      BY <2>2, <2>3
  <1> QED
    BY <1>1, <1>2, <1>3, <1>4, <1>5, <1>6, <1>7, <1>8, <1>9, <1>10, <1>11, <1>12
       DEF Next, handler_debounce

-----------------------------------------------------------------------------
(* Debouncing.                                                             *)

\* What the debounce and activity parts of a scan do to the count of empty scans.
LEMMA EmptiesLemma ==
    /\ TypeOK => Empties \in Nat
    /\ TypeOK /\ Debounce =>
           Empties' = IF keys_buffer = {} THEN Empties + 1 ELSE 0
    /\ TypeOK /\ Activity =>
           Empties' \in Nat /\ Empties' <= Empties /\ activity_ticks' <= Empties
  <1>1. TypeOK => Empties \in Nat
    BY TimesAssumption DEF TypeOK, Empties
  <1>2. TypeOK /\ Debounce => Empties' = IF keys_buffer = {} THEN Empties + 1 ELSE 0
    BY DEF Debounce, Empties, Running
  <1>3. TypeOK /\ Activity =>
            Empties' \in Nat /\ Empties' <= Empties /\ activity_ticks' <= Empties
    BY TimesAssumption DEF TypeOK, Activity, Empties, Idle, AtMost, Running
  <1> QED
    BY <1>1, <1>2, <1>3

\* The steps that neither scan nor debounce.
LEMMA OtherSteps ==
    ASSUME TypeOK,
           \/ UNCHANGED vars \/ \E k \in Rows : Toggle(k)
           \/ GPIOTE_IRQHandler \/ Transmit \/ handler_maintenance \/ Tick
           \/ read_row \/ StopMaint \/ StopDeb \/ RaiseRow,
           PinsInv
    PROVE  UNCHANGED keyVars /\ Empties' <= Empties /\ Empties' \in Nat
  <1> USE DEF TypeOK, keyVars, Empties, Running
  <1>1. CASE UNCHANGED vars \/ \E k \in Rows : Toggle(k)
    BY <1>1, TimesAssumption DEF vars, Toggle
  <1>2. CASE GPIOTE_IRQHandler
    BY <1>2, TimesAssumption DEF GPIOTE_IRQHandler
  <1>3. CASE Transmit \/ handler_maintenance \/ Tick
    BY <1>3, TimesAssumption DEF Transmit, handler_maintenance, Tick
  <1>4. CASE read_row \/ StopMaint \/ StopDeb \/ RaiseRow
    BY <1>4, TimesAssumption DEF read_row, StopMaint, StopDeb, RaiseRow
  <1> QED
    BY <1>1, <1>2, <1>3, <1>4

LEMMA DebounceStep == TypeOK /\ PinsInv /\ DebounceInv /\ [Next]_vars => DebounceInv'
  <1> SUFFICES ASSUME TypeOK, PinsInv, DebounceInv, [Next]_vars PROVE DebounceInv'
    OBVIOUS
  <1>0. /\ Empties \in Nat /\ debounce_ticks \in Nat /\ DEBOUNCE \in Nat \ {0}
        /\ debouncing \in BOOLEAN
    BY EmptiesLemma, TimesAssumption DEF TypeOK
  <1>1. ASSUME UNCHANGED keyVars, Empties' <= Empties, Empties' \in Nat
        PROVE  DebounceInv'
    BY <1>0, <1>1 DEF DebounceInv, Counting, keyVars
  <1>2. CASE Debounce
    <2>1. Empties' = IF keys_buffer = {} THEN Empties + 1 ELSE 0
      BY <1>2, EmptiesLemma
    <2> USE <1>0, <2>1 DEF DebounceInv, Counting
    <2>2. CASE StillSnapshot
      <3>1. CASE debounce_ticks < DEBOUNCE
        BY <2>2, <3>1 DEF StillSnapshot, AtMost
      <3>2. CASE ~ debounce_ticks < DEBOUNCE
        BY <2>2, <3>2 DEF StillSnapshot, AtMost
      <3> QED
        BY <3>1, <3>2
    <2>3. CASE DebounceAgain
      BY <2>3 DEF DebounceAgain
    <2>4. CASE DebounceBegin
      BY <2>4 DEF DebounceBegin, TicksReset
    <2>5. CASE Unchanged
      BY <2>5 DEF Unchanged, keyVars
    <2> QED
      BY <1>2, <2>2, <2>3, <2>4, <2>5 DEF Debounce
  <1>3. CASE Activity
    BY <1>1, <1>3, EmptiesLemma DEF Activity
  <1> QED
    BY <1>1, <1>2, <1>3, OtherSteps DEF Next, handler_debounce

-----------------------------------------------------------------------------
(* How often the release is offered.                                       *)

\* A half that goes to sleep has debounced the release, and offered it often enough.
LEMMA SleepLemma ==
    ASSUME TypeOK, DebounceInv, OffersInv, Empties > ACTIVITY, pc = "activity"
    PROVE  Released
  <1>1. Empties \in Nat /\ debounce_ticks \in Nat /\ debouncing \in BOOLEAN
    BY EmptiesLemma DEF TypeOK
  <1>2. keys = {} /\ ~ Counting
    BY <1>1, TimesAssumption DEF DebounceInv, Counting
  <1>3. offers \in Nat /\ sinceMaint \in 0..MaintPeriod /\ offers <= Resends + 1
    BY Times DEF TypeOK
  <1>4. ASSUME offers \in 1..Resends PROVE FALSE
    <2>1. Slack + offers * MaintPeriod <= ACTIVITY
      BY <1>3, <1>4, Times
    <2>2. Empties <= Slack + (offers - 1) * MaintPeriod + sinceMaint
      BY <1>1, <1>2, <1>4 DEF OffersInv
    <2>3. (offers - 1) * MaintPeriod = offers * MaintPeriod - MaintPeriod
      BY <1>3, TimesAssumption
    <2>4. offers * MaintPeriod \in Nat
      BY <1>3, TimesAssumption
    <2> QED
      BY <1>1, <1>3, <2>1, <2>2, <2>3, <2>4, Times, TimesAssumption
  <1> QED
    BY <1>2, <1>3, <1>4, Times DEF Released

LEMMA SleepStep == Inv /\ [Next]_vars => SleepInv'
  <1> SUFFICES ASSUME Inv, [Next]_vars, Sleepy'
               PROVE  Released'
    BY DEF SleepInv
  <1> USE DEF Inv, Counting
  <1>1. ASSUME Sleepy, UNCHANGED <<keyVars, offers>>
        PROVE  Released'
    BY <1>1 DEF SleepInv, Released, keyVars
  <1>2. CASE UNCHANGED vars
    BY <1>1, <1>2 DEF vars, Sleepy, Stopping, keyVars, pinVars, clockVars, sendVars
  <1>3. ASSUME NEW k \in Rows, Toggle(k)
        PROVE  Released'
    BY <1>1, <1>3 DEF Toggle, Sleepy, Stopping, clockVars, sendVars
  <1>4. CASE GPIOTE_IRQHandler
    BY <1>1, <1>4 DEF GPIOTE_IRQHandler, StartClocks, Sleepy, Stopping, sendVars
  <1>5. CASE Transmit
    BY <1>1, <1>5 DEF Transmit, Sleepy, Stopping, pinVars, clockVars
  <1>6. CASE handler_maintenance
    <2>1. Sleepy /\ UNCHANGED keyVars
      BY <1>6 DEF handler_maintenance, Sleepy, Stopping, pinVars
    <2>2. Released
      BY <2>1 DEF SleepInv
    <2>3. offers' = offers
      BY <1>6, <2>2, Times DEF handler_maintenance, Repeat, Counted, AtMost, Released
    <2> QED
      BY <1>1, <2>1, <2>3
  <1>7. CASE Tick
    BY <1>1, <1>7 DEF Tick, Sleepy, Stopping, pinVars, sendVars
  <1>8. CASE read_row
    BY <1>1, <1>8 DEF read_row, Sleepy, Stopping, clockVars, sendVars
  <1>9. CASE Debounce
    <2>1. Sleepy
      BY <1>9 DEF Debounce, Sleepy, Stopping, pinVars, clockVars, Running
    <2>2. Released /\ high = {}
      BY <1>9, <2>1 DEF SleepInv, Debounce, Running, PinsInv
    <2>3. keys_buffer = {}
      BY <1>9, <2>1, <2>2 DEF Sleepy, Stopping, Debounce, Running, PinsInv, QuietInv, Quiet
    <2>4. debounce_ticks \in Nat /\ debouncing \in BOOLEAN
      BY DEF TypeOK
    <2> USE DEF Released
    <2>5. CASE StillSnapshot
      <3>1. debounce_ticks' # DEBOUNCE /\ ~ debounce_ticks' < DEBOUNCE
        BY <2>2, <2>4, <2>5, TimesAssumption DEF StillSnapshot, AtMost
      <3> QED
        BY <2>2, <2>5, <3>1 DEF StillSnapshot, sendVars
    <2>6. CASE DebounceAgain
      BY <2>2, <2>6 DEF DebounceAgain, sendVars
    <2>7. CASE DebounceBegin
      BY <2>2, <2>3, <2>7 DEF DebounceBegin
    <2>8. CASE Unchanged
      BY <2>2, <2>8 DEF Unchanged, keyVars, sendVars
    <2> QED
      BY <1>9, <2>5, <2>6, <2>7, <2>8 DEF Debounce
  <1>10. CASE Activity
    <2>1. CASE pc' = "stop_maint"
      <3>1. Empties > ACTIVITY
        BY <1>10, <2>1, EmptiesLemma, TimesAssumption DEF Activity, TypeOK, Idle, AtMost
      <3>2. Released
        BY <1>10, <3>1, SleepLemma DEF Activity, Running
      <3> QED
        BY <1>10, <3>2 DEF Activity, Released, keyVars, sendVars
    <2>2. CASE pc' # "stop_maint"
      BY <1>1, <1>10, <2>2 DEF Activity, Sleepy, Stopping, pinVars, clockVars, sendVars
    <2> QED
      BY <2>1, <2>2
  <1>11. CASE StopMaint \/ StopDeb
    BY <1>1, <1>11 DEF StopMaint, StopDeb, Running, Sleepy, Stopping, sendVars
  <1>12. CASE RaiseRow
    BY <1>1, <1>12 DEF RaiseRow, Sleepy, Stopping, sendVars
  <1> QED
    BY <1>2, <1>3, <1>4, <1>5, <1>6, <1>7, <1>8, <1>9, <1>10, <1>11, <1>12
       DEF Next, handler_debounce

LEMMA OffersStep == Inv /\ [Next]_vars => OffersInv'
  <1> SUFFICES ASSUME Inv, [Next]_vars PROVE OffersInv'
    OBVIOUS
  <1> DEFINE Bound == Slack + (offers - 1) * MaintPeriod + sinceMaint
  <1>0. /\ offers \in Nat /\ sinceMaint \in 0..MaintPeriod /\ MaintPeriod \in Nat \ {0}
        /\ Empties \in Nat /\ Slack \in Nat /\ (offers - 1) * MaintPeriod \in Int
        /\ (offers >= 1 => (offers - 1) * MaintPeriod >= 0) /\ Resends \in Nat
    <2>1. /\ offers \in Nat /\ sinceMaint \in 0..MaintPeriod /\ MaintPeriod \in Nat \ {0}
          /\ Empties \in Nat /\ Slack \in Nat
      BY EmptiesLemma, Times, TimesAssumption DEF Inv, TypeOK
    <2>2. (offers - 1) * MaintPeriod \in Int
      BY <2>1
    <2>3. offers >= 1 => (offers - 1) * MaintPeriod >= 0
      BY <2>1, Products
    <2> QED
      BY <2>1, <2>2, <2>3, Times
  <1> USE DEF Inv
  <1>1. CASE UNCHANGED vars
    BY <1>1 DEF vars, OffersInv, Empties, pinVars, clockVars, keyVars, sendVars
  <1>2. ASSUME NEW k \in Rows, Toggle(k) PROVE OffersInv'
    BY <1>2 DEF Toggle, OffersInv, Empties, clockVars, keyVars, sendVars
  <1>3. CASE GPIOTE_IRQHandler
    <2>1. pc # "activity" /\ Empties' = 0
      BY <1>3 DEF GPIOTE_IRQHandler, PinsInv, Empties
    <2>2. UNCHANGED <<keys, lastQueued, offers, refused, sinceMaint, pc>>
      BY <1>3 DEF GPIOTE_IRQHandler, keyVars, sendVars
    <2>3. pc \in {"read", "debounce"} => sinceMaint >= 1
      BY DEF OffersInv
    <2>4. offers \in 1..Resends =>
              /\ Bound >= 0 /\ Bound \in Int
              /\ pc \in {"read", "debounce"} => Bound >= 1
      BY <1>0, <2>3
    <2>5. Bound' = Bound
      BY <2>2
    <2> HIDE DEF Bound
    <2>6. (offers \in 1..Resends =>
              Empties + (IF pc \in {"read", "debounce"} THEN 1 ELSE 0) <= Bound)'
      BY <2>1, <2>2, <2>4, <2>5
    <2>7. (/\ pc \in {"read", "debounce", "activity"} => sinceMaint >= 1
           /\ lastQueued # keys => offers >= 1 /\ refused = offers)'
      BY <2>2 DEF OffersInv
    <2> QED
      BY <2>6, <2>7 DEF OffersInv, Bound
  <1>4. CASE Transmit
    BY <1>4 DEF Transmit, OffersInv, Empties, clockVars, keyVars
  <1>5. CASE handler_maintenance
    <2>1. pc = "idle" /\ pc' = "idle" /\ keys' = keys /\ Empties' = Empties /\ sinceMaint' = 0
      BY <1>5 DEF handler_maintenance, Running, Empties, keyVars
    <2>2. (lastQueued # keys => offers >= 1 /\ refused = offers)'
      <3>1. CASE queued < TxCap
        BY <1>5, <2>1, <3>1 DEF handler_maintenance, Repeat, Send
      <3>2. CASE ~ (queued < TxCap)
        <4>1. /\ lastQueued' = lastQueued /\ refused' = Counted(refused)
              /\ offers' = IF offers = 0 THEN 0 ELSE Counted(offers)
          BY <1>5, <3>2 DEF handler_maintenance, Repeat, Send
        <4>2. offers >= 1 => Counted(offers) >= 1
          BY <1>0 DEF Counted, AtMost
        <4> QED
          BY <1>0, <2>1, <4>1, <4>2 DEF OffersInv
      <3> QED
        BY <3>1, <3>2
    <2>3. offers' \in 1..Resends => offers \in 1..Resends /\ offers' = offers + 1
      BY <1>0, <1>5 DEF handler_maintenance, Repeat, Counted, AtMost
    <2>4. offers * MaintPeriod = (offers - 1) * MaintPeriod + MaintPeriod
      BY <1>0
    <2> DEFINE P == (offers - 1) * MaintPeriod
    <2>5. keys = {} /\ offers \in 1..Resends => Empties <= Slack + P + sinceMaint
      BY <1>0, <2>1 DEF OffersInv
    <2>6. P \in Int
      BY <1>0
    <2>7. ASSUME offers' \in 1..Resends
          PROVE  (offers' - 1) * MaintPeriod = P + MaintPeriod
      <3>1. offers' - 1 = offers
        BY <1>0, <2>3, <2>7
      <3> QED
        BY <2>4, <3>1
    <2> HIDE DEF P
    <2>8. (keys = {} /\ offers \in 1..Resends =>
              Empties <= Slack + (offers - 1) * MaintPeriod + sinceMaint)'
      <3> SUFFICES ASSUME keys = {}, offers' \in 1..Resends
                   PROVE  Empties <= Slack + (offers' - 1) * MaintPeriod + 0
        BY <2>1
      <3>1. Empties <= Slack + P + sinceMaint
        BY <2>3, <2>5
      <3>2. Empties <= Slack + (P + MaintPeriod) + 0
        BY <1>0, <2>6, <3>1
      <3> QED
        BY <2>7, <3>2
    <2>9. Empties' + 0 = Empties'
      BY <1>0, <2>1
    <2> QED
      BY <2>1, <2>2, <2>8, <2>9 DEF OffersInv
  <1>6. CASE Tick
    <2>1. /\ pc = "idle" /\ pc' = "read" /\ Empties' = Empties
          /\ UNCHANGED <<keys, lastQueued, offers, refused>>
      BY <1>6 DEF Tick, Running, Empties, keyVars, sendVars
    <2>2. tickLate => offers \in {0, Resends + 1}
      BY DEF SleepInv, Sleepy, Released
    <2>3. ~ tickLate => sinceMaint' = sinceMaint + 1
      BY <1>0, <1>6 DEF Tick, AtMost
    <2>4. sinceMaint' >= 1 /\ sinceMaint' \in Nat
      BY <1>0, <1>6 DEF Tick, AtMost
    <2>5. (lastQueued # keys => offers >= 1 /\ refused = offers)'
      BY <2>1 DEF OffersInv
    <2>6. CASE tickLate
      <3>1. ~ (offers' \in 1..Resends)
        BY <1>0, <2>1, <2>2, <2>6
      <3> QED
        BY <2>4, <2>5, <3>1 DEF OffersInv
    <2>7. CASE ~ tickLate
      <3>1. keys = {} /\ offers \in 1..Resends => Empties <= Bound
        BY <1>0, <2>1 DEF OffersInv
      <3>2. Bound' = Bound + 1 /\ Bound \in Int
        BY <1>0, <2>1, <2>3, <2>7
      <3> HIDE DEF Bound
      <3>3. keys' = {} /\ offers' \in 1..Resends => Empties' + 1 <= Bound'
        BY <1>0, <2>1, <3>1, <3>2
      <3> QED
        BY <2>1, <2>4, <2>5, <3>3 DEF OffersInv, Bound
    <2> QED
      BY <2>6, <2>7
  <1>7. CASE read_row
    BY <1>7 DEF read_row, Running, LastRow, OffersInv, Empties, clockVars, keyVars, sendVars
  <1>8. CASE Debounce
    <2>1. /\ pc = "debounce" /\ pc' = "activity" /\ sinceMaint' = sinceMaint
          /\ Empties' = IF keys_buffer = {} THEN Empties + 1 ELSE 0
      BY <1>8, EmptiesLemma DEF Debounce, Running, clockVars
    <2>2. CASE UNCHANGED <<keys, lastQueued, offers, refused>>
      <3>1. sinceMaint >= 1 /\ (lastQueued # keys => offers >= 1 /\ refused = offers)
        BY <2>1 DEF OffersInv
      <3>2. keys = {} /\ offers \in 1..Resends => Empties + 1 <= Bound
        BY <2>1 DEF OffersInv
      <3>3. offers \in 1..Resends => Bound >= 0 /\ Bound \in Int
        BY <1>0
      <3>4. Bound' = Bound
        BY <2>1, <2>2
      <3> HIDE DEF Bound
      <3>5. keys = {} /\ offers \in 1..Resends => Empties' <= Bound
        BY <1>0, <2>1, <3>2, <3>3
      <3>6. Empties' + 0 = Empties'
        BY <1>0, <2>1
      <3> QED
        BY <2>1, <2>2, <3>1, <3>4, <3>5, <3>6 DEF OffersInv, Bound
    <2>3. CASE ~ UNCHANGED <<keys, lastQueued, offers, refused>>
      <3>1. /\ debouncing /\ keys_buffer = keys_snapshot /\ debounce_ticks + 1 = DEBOUNCE
            /\ keys' = keys_snapshot /\ Send(keys_snapshot, 0) /\ offers' = 1
        BY <1>8, <2>3, TimesAssumption
           DEF Debounce, StillSnapshot, DebounceAgain, DebounceBegin, Unchanged, sendVars,
               keyVars, AtMost, TypeOK
      <3>2. lastQueued' # keys' => refused' = 1
        BY <1>0, <3>1 DEF Send, Counted, AtMost
      <3>3. debounce_ticks \in Nat /\ DEBOUNCE \in Nat /\ Slack = DEBOUNCE + 2
        BY TimesAssumption DEF TypeOK, Slack
      <3>4. keys' = {} => Empties <= debounce_ticks + 2
        BY <3>1, <3>3 DEF DebounceInv, Counting
      <3>5. keys' = {} => Empties' <= Slack + sinceMaint
        BY <1>0, <2>1, <3>1, <3>3, <3>4
      <3>6. (1 - 1) * MaintPeriod = 0
        BY <1>0
      <3>7. sinceMaint >= 1
        BY <2>1 DEF OffersInv
      <3> QED
        BY <1>0, <2>1, <3>1, <3>2, <3>3, <3>5, <3>6, <3>7 DEF OffersInv
    <2> QED
      BY <2>2, <2>3
  <1>9. CASE Activity
    <2>1. /\ pc = "activity" /\ pc' \notin {"read", "debounce", "activity"}
          /\ UNCHANGED <<sinceMaint, keys, lastQueued, offers, refused>>
          /\ Empties' \in Nat /\ Empties' <= Empties
      BY <1>9, EmptiesLemma DEF Activity, Running, clockVars, keyVars, sendVars
    <2>2. keys = {} /\ offers \in 1..Resends => Empties <= Bound
      BY <1>0, <2>1 DEF OffersInv
    <2>3. Bound' = Bound /\ Bound \in Int
      BY <1>0, <2>1
    <2>4. (lastQueued # keys => offers >= 1 /\ refused = offers)'
      BY <2>1 DEF OffersInv
    <2> HIDE DEF Bound
    <2>5. keys' = {} /\ offers' \in 1..Resends => Empties' <= Bound'
      BY <1>0, <2>1, <2>2, <2>3
    <2>6. Empties' + (IF pc' \in {"read", "debounce"} THEN 1 ELSE 0) = Empties'
      <3>1. \A n \in Nat : n + 0 = n
        OBVIOUS
      <3> QED
        BY <2>1, <3>1
    <2> QED
      BY <2>1, <2>4, <2>5, <2>6 DEF OffersInv, Bound
  <1>10. CASE StopMaint \/ StopDeb
    BY <1>10 DEF StopMaint, StopDeb, Running, OffersInv, Empties, keyVars, sendVars
  <1>11. CASE RaiseRow
    BY <1>11 DEF RaiseRow, OffersInv, Empties, clockVars, keyVars, sendVars
  <1> QED
    BY <1>1, <1>2, <1>3, <1>4, <1>5, <1>6, <1>7, <1>8, <1>9, <1>10, <1>11
       DEF Next, handler_debounce

-----------------------------------------------------------------------------
(* Debounced keys have been stable.                                        *)

\* One more scan agrees with the snapshot.
LEMMA OneMore ==
    ASSUME NEW n \in -DEBOUNCE..DEBOUNCE, NEW t \in Nat, t < DEBOUNCE,
           NEW down \in BOOLEAN,
           t = 0 \/ (down /\ n >= t) \/ (~ down /\ -n >= t)
    PROVE  /\ down => Longer(n, down) >= t + 1
           /\ ~ down => -Longer(n, down) >= t + 1
  BY TimesAssumption DEF Longer, AtMost

LEMMA HeldStep == Inv /\ [Next]_vars => HeldInv'
  <1> SUFFICES ASSUME Inv, [Next]_vars, Counting', NEW r \in Rows
               PROVE  (IF ReadInScan(r)
                       THEN (r \in keys_buffer <=> r \in keys_snapshot)
                                => Agrees(r, debounce_ticks + 1)
                       ELSE Agrees(r, debounce_ticks))'
    BY DEF HeldInv
  <1> DEFINE Goal == (IF ReadInScan(r)
                      THEN (r \in keys_buffer <=> r \in keys_snapshot)
                               => Agrees(r, debounce_ticks + 1)
                      ELSE Agrees(r, debounce_ticks))'
  <1> USE DEF Inv
  <1>1. ASSUME UNCHANGED <<keyVars, keys_buffer, held>>, ReadInScan(r)' <=> ReadInScan(r)
        PROVE  Goal
    BY <1>1 DEF HeldInv, Counting, Agrees, keyVars
  <1>2. CASE UNCHANGED vars
    BY <1>1, <1>2 DEF vars, ReadInScan
  <1>3. ASSUME NEW k \in Rows, Toggle(k) PROVE Goal
    BY <1>1, <1>3 DEF Toggle, ReadInScan
  <1>4. CASE GPIOTE_IRQHandler \/ Transmit \/ handler_maintenance
    BY <1>1, <1>4 DEF GPIOTE_IRQHandler, Transmit, handler_maintenance, ReadInScan
  <1>5. CASE Tick
    BY <1>1, <1>5 DEF Tick, Running, ReadInScan, Rows
  <1>6. CASE Activity \/ StopMaint \/ StopDeb \/ RaiseRow
    BY <1>1, <1>6
       DEF Activity, StopMaint, StopDeb, RaiseRow, Running, ReadInScan
  <1>7. CASE Debounce
    <2>1. pc = "debounce" /\ ~ ReadInScan(r)' /\ held' = held
      BY <1>7 DEF Debounce, Running, ReadInScan
    <2>2. CASE StillSnapshot
      <3>1. debounce_ticks \in Nat /\ DEBOUNCE \in Nat
        BY TimesAssumption DEF TypeOK
      <3>2. debouncing /\ debounce_ticks' = debounce_ticks + 1 /\ Counting
        BY <2>2, <3>1 DEF StillSnapshot, Counting, AtMost
      <3>3. Agrees(r, debounce_ticks + 1)
        BY <2>1, <2>2, <3>2 DEF StillSnapshot, HeldInv, ReadInScan
      <3> QED
        BY <2>1, <2>2, <3>2, <3>3 DEF StillSnapshot, Agrees
    <2>3. CASE DebounceAgain \/ Unchanged
      BY <2>3 DEF DebounceAgain, Unchanged, Counting, keyVars
    <2>4. CASE DebounceBegin
      BY <2>1, <2>4 DEF DebounceBegin, TicksReset, Agrees
    <2> QED
      BY <1>7, <2>2, <2>3, <2>4 DEF Debounce
  <1>8. CASE read_row
    <2>1. /\ pc = "read" /\ row \in Rows /\ UNCHANGED keyVars
          /\ held' = [held EXCEPT ![row] = Longer(@, row \in pressed)]
          /\ held \in [Rows -> -DEBOUNCE..DEBOUNCE]
      BY <1>8 DEF read_row, Running, TypeOK
    <2>2. Counting /\ high = {}
      BY <2>1 DEF SleepInv, Sleepy, Released, Counting, keyVars
    <2>3. Sampled(row) <=> row \in pressed
      BY <2>2 DEF Sampled, Detect
    <2>4. ReadInScan(r)' <=> r = row \/ ReadInScan(r)
      <3>1. CASE row = ROWS
        BY <1>8, <2>1, <3>1, RowsAssumption DEF read_row, LastRow, ReadInScan, Rows
      <3>2. CASE row # ROWS
        BY <1>8, <2>1, <3>2, RowsAssumption DEF read_row, LastRow, ReadInScan, Rows
      <3> QED
        BY <3>1, <3>2
    <2>5. CASE r # row
      <3>1. held'[r] = held[r] /\ (r \in keys_buffer' <=> r \in keys_buffer)
        BY <1>8, <2>1, <2>5 DEF read_row
      <3> QED
        BY <2>1, <2>2, <2>4, <2>5, <3>1 DEF HeldInv, Agrees, keyVars
    <2>6. CASE r = row
      <3>1. ReadInScan(r)' /\ ~ ReadInScan(r)
        BY <2>1, <2>4, <2>6 DEF ReadInScan, Rows
      <3>2. r \in keys_buffer' <=> r \in pressed
        BY <1>8, <2>3, <2>6 DEF read_row
      <3>3. Agrees(r, debounce_ticks) /\ debounce_ticks < DEBOUNCE /\ debounce_ticks \in Nat
        BY <2>2, <3>1 DEF HeldInv, Counting, TypeOK
      <3>4. held'[r] = Longer(held[r], r \in pressed) /\ held[r] \in -DEBOUNCE..DEBOUNCE
        BY <2>1, <2>6
      <3>5. ASSUME r \in pressed <=> r \in keys_snapshot
            PROVE  Agrees(r, debounce_ticks + 1)'
        <4> DEFINE down == r \in pressed
        <4>1. \/ debounce_ticks = 0 \/ (down /\ held[r] >= debounce_ticks)
              \/ (~ down /\ -held[r] >= debounce_ticks)
          BY <3>3, <3>5 DEF Agrees
        <4>2. /\ down => Longer(held[r], down) >= debounce_ticks + 1
              /\ ~ down => -Longer(held[r], down) >= debounce_ticks + 1
          <5>1. down \in BOOLEAN
            OBVIOUS
          <5> HIDE DEF down
          <5> QED
            BY <3>3, <3>4, <4>1, <5>1, OneMore
        <4> QED
          BY <2>1, <3>4, <3>5, <4>2 DEF Agrees, keyVars
      <3> QED
        BY <2>1, <3>1, <3>2, <3>5 DEF keyVars
    <2> QED
      BY <2>5, <2>6
  <1> QED
    BY <1>2, <1>3, <1>4, <1>5, <1>6, <1>7, <1>8 DEF Next, handler_debounce

-----------------------------------------------------------------------------
(* The theorems.                                                           *)

LEMMA InvInit == Init => Inv
  <1> SUFFICES ASSUME Init PROVE Inv
    OBVIOUS
  <1>1. TypeOK
    BY TypeInit
  <1>2. PinsInv /\ QuietInv /\ SleepInv /\ HeldInv
    BY DEF Init, PinsInv, QuietInv, SleepInv, HeldInv, Sleepy, Stopping, Counting
  <1>3. Empties = 0
    BY DEF Init, Empties
  <1>4. DebounceInv
    BY <1>3 DEF Init, DebounceInv, Counting
  <1>5. OffersInv
    BY DEF Init, OffersInv
  <1> QED
    BY <1>1, <1>2, <1>4, <1>5 DEF Inv

LEMMA Invariant == Spec => []Inv
  <1>1. Inv /\ [Next]_vars => Inv'
    BY TypeStep, PinsStep, QuietStep, DebounceStep, OffersStep, SleepStep, HeldStep DEF Inv
  <1> QED
    BY InvInit, <1>1, PTL DEF Spec

\* The counters the handlers compare (main.c:187-249) stay within their bounds,
\* and the row counter of the scan stays on a row.
THEOREM ScanTypeCorrect == Spec => []TypeOK
  <1>1. Inv => TypeOK
    BY DEF Inv
  <1> QED
    BY Invariant, <1>1, PTL

\* Stopping the clocks before the rows are raised (main.c:235-242), and the interrupt
\* that starts both again, leave no state in which a key press is not an edge.
THEOREM SleepingHalfCanWake == Spec => []NeverDeaf
  <1>1. Inv => NeverDeaf
    BY DEF Inv, NeverDeaf, Asleep, QuietInv, Quiet, Detect, TypeOK, KeyStates
  <1> QED
    BY Invariant, <1>1, PTL

\* ACTIVITY empty scans (main.c:230-233) are long enough for the release to be
\* debounced and repeated by Resends maintenance ticks, and a packet of another state
\* stays the last one only if the full FIFO refuses them all (main.c:154-161).
THEOREM ReleaseIsOffered == Spec => []ReleasedBeforeSleep
  <1>1. Inv => ReleasedBeforeSleep
    BY Times DEF Inv, ReleasedBeforeSleep, Asleep, SleepInv, Sleepy, Released, OffersInv
  <1> QED
    BY Invariant, <1>1, PTL

\* The snapshot and the count of handler_debounce (main.c:192-227) take a state only
\* when every key that changed was in it for DEBOUNCE scans.
THEOREM KeysAreDebounced == Spec => OnlyStableKeys
  <1> DEFINE Stable ==
        \A r \in Rows :
          (r \in keys) # (r \in keys') =>
              held[r] = IF r \in keys' THEN DEBOUNCE ELSE -DEBOUNCE
  <1>1. Inv /\ [Next]_vars => [Stable]_vars
    <2> SUFFICES ASSUME Inv, [Next]_vars, keys' # keys, NEW r \in Rows,
                        (r \in keys) # (r \in keys')
                 PROVE  held[r] = IF r \in keys' THEN DEBOUNCE ELSE -DEBOUNCE
      OBVIOUS
    <2>1. Debounce
      BY OtherSteps DEF Inv, Next, handler_debounce, Activity, keyVars
    <2>2. debounce_ticks \in Nat /\ held[r] \in -DEBOUNCE..DEBOUNCE /\ DEBOUNCE \in Nat \ {0}
      BY TimesAssumption DEF Inv, TypeOK
    <2>3. /\ debouncing /\ keys_buffer = keys_snapshot /\ debounce_ticks + 1 = DEBOUNCE
          /\ keys' = keys_snapshot /\ pc = "debounce"
      BY <2>1, <2>2 DEF Debounce, Running, StillSnapshot, DebounceAgain, DebounceBegin,
                        Unchanged, keyVars, AtMost
    <2>4. Counting
      BY <2>2, <2>3 DEF Counting
    <2>5. Agrees(r, DEBOUNCE)
      BY <2>3, <2>4 DEF Inv, HeldInv, ReadInScan
    <2> QED
      BY <2>2, <2>3, <2>5 DEF Agrees
  <1> QED
    BY Invariant, <1>1, PTL DEF Spec, OnlyStableKeys
=============================================================================
