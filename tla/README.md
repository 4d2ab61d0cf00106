# Interphase-encrypted in TLA+

A TLA+ model of the firmware of the interphase keyboard with encrypted radio:
two keyboard halves (nRF51), a receiver (nRF51) and the QMK controller behind it.
TLC checks the model on small instances, TLAPS proves its safety properties and the
refinement of the abstract key agreement for every value of the constants.

"receiver" is `src/mitosis-receiver-basic/main.c`, "keyboard" is
`src/mitosis-keyboard-basic/main.c`, "crypto.h" is `src/mitosis-crypto/mitosis-crypto.h`.

## Inventory

| component | source | state | operations | modelled in |
|---|---|---|---|---|
| receiver key rotation | receiver 278-355, 406-421 | per half: `state`, `seed_index`, `key_id`, `new_key_id`, `ack_payload`, three contexts; `decrypting`, `process_left`, `receiver_crypto` | gather a seed, derive the next context, seal the seed | Rekey |
| receiver packet callback | receiver 423-535 | the same, `data_payload`, `packet_received` | check, decrypt, confirm a key, offer a seed, store key states | Rekey, UartLink |
| keyboard `send_data` | keyboard 130-178 | `data_payload`, `crypto`, `encrypting` | encrypt, count, MAC, enqueue | Rekey, KeyboardScan |
| keyboard acknowledgement callback | keyboard 354-401 | `crypto`, `receiver_crypto`, `data_payload.key_id` | adopt or reject a seed | Rekey |
| Gazell | Nordic SDK, external | FIFOs of both sides | exchange, retry, give up | Rekey, as far as the firmware uses it |
| keyboard scanning, sleep | keyboard 75-127, 180-250, 324-346 | `keys`, `keys_snapshot`, `debouncing`, ticks, clocks, pins | debounce, send, repeat, sleep, wake | KeyboardScan |
| receiver UART handler | receiver 123-276 | `data_buffer`, `packet_received`, `active` | answer a poll, release keys after silence | UartLink |
| QMK matrix scan | `src/interphase/matrix.c` 93-132 | `matrix` | poll, time out, check the end byte | UartLink |
| AES-ECB driver | `mitosis-aes-ecb.c` | `ECBDATAPTR`, events | one block, with a timeout | AesUnit |
| AES-CTR | `mitosis-aes-ctr.c` | key, counter | encrypt in place | Rekey, by what it does |
| CMAC | `mitosis-cmac.c` | block buffer, chain | hash any chunks, complete | Cmac, Kdf |
| key derivation | crypto.h 84-174, `mitosis-ckdf.c` | a context | extract, three expansions, subkeys | Rekey (order of writes, failures), Kdf (values) |
| HKDF, HMAC | `mitosis-hkdf.c`, `mitosis-hmac.c` | hash context, `need_reset` | expand; not called by the firmware | Cmac, Kdf |
| keymaps, tests, build files, images | `src/interphase/keymaps`, `test`, `precompiled` | none | tables, vectors, generated code | see "Not modelled" |

How they interact. A half debounces its keys, encrypts and MACs them under its
current key and queues a packet; Gazell delivers it, retrying up to 100 times; the
receiver's callback checks it, keeps the key states for QMK's next poll, and may
queue an acknowledgement payload, which travels with the acknowledgement of a
*later* packet of that half; the half's callback then adopts the seed in it. A
packet under the new id is the confirmation. Key ids run 1..255 and skip 0, the
compiled-in key; even and odd ids use one context each. All of it shares one AES
unit per chip.

What runs when. On a half the clock handlers (`handler_debounce`,
`handler_maintenance`, and `send_data` in them) have one low priority; Gazell's
callback and the GPIO interrupt preempt them at any instruction. On the receiver
UART handler and Gazell callbacks have one level and both preempt the main loop,
and only the flag `decrypting` separates them. Nothing is kept over a restart.

What is hard, and what makes each part right: `PROJECT.json` lists every hazard
with its line and the properties that watch it. In short: a context must never be
used half written; a seed must be offered only when the receiver can already read
what it leads to, and no copy of it may outlive its context; a confirmation must
confirm what was offered; halves that lost an acknowledgement, restarted, or met a
restarted receiver must come back; a failed AES operation must not spoil what comes
after it; a change must be sent once it is stable, and a press on the way to sleep
must wake the half; a poll must not deliver a torn matrix or keep a silent half's
keys down.

## Modules

| module | contents |
|---|---|
| `Rekey` | the key rotation: both ends, the link, restarts, AES failures |
| `RekeyProperties` | what it has to guarantee; the fair specification |
| `RekeyInvariants`, `RekeyProofs` | lock, contexts, offers, packets: the inductive strengthening and the TLAPS proofs |
| `RekeyOrder` | which keys go round between a half and the receiver, and in which order |
| `RekeyCircleProofs`, `RekeyOrderProofs`, `RekeyAgreementProofs` | what one move does to that order; that every action keeps it; the refinement and what follows for the half |
| `KeyAgreement` | the abstract specification: one confirmed key, one next key, offers |
| `RekeyRefinement` | the mapping under which `Rekey` implements it |
| `KeyboardScan`, `KeyboardScanProperties`, `KeyboardScanProofs` | scanning, debouncing, sleep and wake-up of a half |
| `UartLink`, `UartLinkProperties`, `UartLinkProofs` | the receiver's UART handler, the wire, QMK's scan |
| `AesUnit`, `AesUnitProperties`, `AesUnitProofs` | the AES unit, its driver, and a caller preempting another |
| `Cmac` | CMAC and HMAC contexts as functions, and the RFCs' definitions |
| `Kdf`, `KdfProperties`, `KdfProofs` | a CMAC user, CKDF and HKDF, call by call |
| `MCRekey`, `MCUartLink` | the modules TLC runs: state constraints, key states |

The modules meet in a few places. `Rekey` leaves out what a packet carries;
`KeyboardScan` starts where a stable state is given to `send_data` and ends in its
FIFO; `UartLink` starts where `Rekey` accepts a packet. On the receiver `Rekey` assumes
that an AES operation gives the caller's result or reports a failure: `AesUnit` checks
that. On a half the callback uses the unit in the middle of `send_data`'s calls, the
case `AesUnit` excepts, so there `Rekey` lets a call the callback came into succeed,
fail, or report a stale block as a success. Assumed away in `Rekey` is the other case
`AesUnit` excepts: a unit that is still busy after a call has waited 2^24 polls for it.
That a MAC matches only the message and key it was made for, and that a
failed MAC spoils just the next one, is what `Kdf` checks of the CMAC context.

### Rekey

*Keys are seed numbers.* 0 is the master seed, 1, 2, ... the seeds drawn; `NoSeed`
is a context no packet verifies under (never written, or half overwritten by a
failed derivation). `ctxEnc[h][i]`, `ctxMac[h][i]` are the two parts of
`left_crypto[i]`/`right_crypto[i]`. Equal numbers mean equal keys of that half;
the salts keep the halves' keys apart.

*A packet* records what the code would find out by computing: the key and counter
its data is encrypted with, the key of its MAC and the id the MAC covers. `torn`
is a ghost: an acknowledgement callback came inside the AES call of its encryption, or
changed the key before its MAC was made. `clashed` is true while a callback has come
inside the AES call that is running.

*Steps.* On the half `send_data` is six steps (begin, encrypt, load counter, store
counter, MAC, enqueue), so the callback may come into each AES call as well as between
them; it is one step itself, since nothing that touches this state preempts it.
`encrypting` is not a variable: it is true exactly while `sendPc` is not "idle", the
callback does not read it, and the handlers that do cannot preempt each other. On the
receiver, `update_rekey_state` is cut where a callback can tell
the difference: the lock, the two halves of a derivation, sealing, its MAC, the
release. `GatherLast` is one step because in its own intermediate states the
callback finds `new_key_id = key_id`; the two stores of `new_key_id` at the wrap are
separate if `StoresZero` (the precompiled receiver image stores 0, tests, and
stores 1). The callback is one step.

*Failing AES operations.* A failed encryption leaves its data as it was. A failed
MAC leaves an unprocessed block in the context, and the next MAC made with that
context hashes it first: `kbDirty` (a half's two contexts), `ctxDirty` (the
receiver's three per half) and `macDirty` (the context that seals). The half
ignores the result of the MAC over an acknowledgement and compares an
uninitialised local; the model takes that for no payload's MAC. It also ignores a
failing derivation: the key id is new, the context old or half overwritten. A callback
inside an AES call of `send_data` moves the unit's data pointer, clears its events or
replaces the context (aes-ecb.c 30-50): the call then ends as usual, waits in vain and
fails (`SendEncryptFault`, `SendMacFault`), or reports a success with what is not its
result (`SendEncryptSpoilt`, `SendMacSpoilt`); the callback may take the end of that
call for the end of its own (`AckFault`). All of these count as `packetFault`.

*Left out because dead:* `key_id_confirmed` (always true), the collision branches
of the main loop and of `send_data` (the flag is never set when they look), the
statistics. *Forgotten on purpose:* `data_payload` after enqueueing and the
callback's stack frame when no further callback is pending: both are written before
they are read again.

*Gazell.* `Exchange` delivers the first packet and the payload the host had queued
before; `AckLost` delivers the packet and loses every acknowledgement, with the
payload gone or still queued; `PacketLost` gives up. A pending callback may find
the FIFO flushed by an earlier one; `payload` is then uninitialised, and `Fetched`
offers the packet of the previous call or bytes that do not verify.

### KeyAgreement and the refinement

The abstract half and receiver know a confirmed id, a next key (id, seed, whether it
may be offered yet), the offers on their way and the seeds the half or its packets
hold. `RekeyRefinement` reads them off `Rekey`: the next key exists while `state` is
not "key_not_ready"; the offers are the sealed and correctly MAC'd payloads queued or
on the air; what the half holds are the seeds behind its MAC and its packets' MACs.
Contexts, locks, states of the derivation, counters and callbacks disappear. The
refinement needs `StoresZero` FALSE: where the id 0 is stored for a moment, the next
key has a wrong id, and a packet under the compiled-in key may confirm it. TLC refutes
the refinement, `QueuedOffersCurrent` and `KeyboardInStep` there (with two restarts of
the half around the wrap); `KeyOrder` and `ConfirmOnlyOffered` hold in both kinds of
build.

### KeyboardScan

The keys are those of one column, a key state is a set of rows: columns meet only in
the port event, which the one column stands for. `high` are the rows driven,
`portEvent` the latched event; `read_row` is one step, so a key may bounce and the
interrupt may come between any two rows. The interrupt clears the rows, starts the
clocks and `activity_ticks` in whatever step the handler is, also on its way to
sleep; a row the handler raises afterwards stays high and shows its key in other
rows, as on the device. `tickLate` is a tick that came before its clock was stopped.
`held`, `lastQueued`, `offers` and `refused` are ghosts. The clocks are configured for
1000 and 8 Hz; the prescaler of the first truncates to 1024 Hz, so there are 128 scans
in a maintenance tick. `Resends` is the number of those ticks that fit between a
release and sleep: three with the code's numbers, so `send_data` is called four times
for a release. A call fails here only on a full FIFO; its AES failures are in `Rekey`.

### UartLink

A byte is a set of bits, so `Unpack` is the code's reversal of the columns. The
driver reads `data_buffer` while it sends and refuses a second transfer; the handler
rewrites the buffer in the same interrupt, for the release after `INACTIVE` bytes
without a packet. `matrix_scan` reads byte by byte with one timeout for all; once
expired, an empty receive buffer is read all the same. What the data register then
shows is not specified: `StaleReads` chooses one of the last two bytes. A UART error
restarts the receiver (the error handler).

### Cmac and Kdf

A byte is the set of the terms whose exclusive or it is; AES and SHA-256 outputs are
terms named by the whole input, so two MACs agree only if their inputs do. `Cmac`
has each operation on a context as a function of the context, beside the RFCs'
definitions. `Kdf` runs them call by call: a user who cuts messages into any chunks,
`mitosis_ckdf_expand` and `mitosis_hkdf_expand`, and an AES operation that fails
anywhere. A long HMAC key is hashed into an array that goes out of scope before it
is read (hmac.c 28): either digest or overwritten bytes.

### AesUnit

Each register access of the driver is a step; a callback may preempt it before any.
On the receiver a caller takes the lock first, on a half the callback does not look
at it. The unit may end, report an error or stay silent for ever. `fresh` says that
a context's ciphertext belongs to its key and plaintext; `late` and `nested` are
ghosts for the two excepted cases below.

## Bounds

| bound | values | why it is enough |
|---|---|---|
| `KeyIdMod` | 4 (code: 256) | ids 1, 2, 3, 1: both parities, reuse of each context, and the wrap |
| `RekeyInterval`, `MaxCounter` | 0, 1 (code: 100000) | only "past the interval or not" is tested; counters saturate above it |
| `SeedLen` | 1, in `restarts_and_wrap` 2 (code: 15) | bytes before the last only count |
| `FifoCap`, `RxCap` | 1, in `rotation` 2 (Gazell: 3 per pipe) | two copies of a payload queued; two callbacks pending |
| `MaxSeed` | 2 to 4 | three seeds reuse a context, four pass the wrap |
| `MaxLoss`, `MaxKbReset`, `MaxRcvReset`, `MaxRekeyFault`, `MaxSealFault`, `MaxPacketFault` | 0, 1 or 2 | disturbances, one action each, never due |
| `OneDisturbance`, `FewInTransit` | constraints of `rotation` | one loss or restart; two packets or callbacks and three payloads on the way |
| `TwoDisturbances`, `FaultsAlone` | constraints of `restarts_and_wrap`, `liveness` | any two losses or restarts; AES operations that fail or are spoilt without a disturbance of another kind |
| `TwoFaultsEarly` | constraint of `restarts_and_wrap` | both AES operations of a packet, or one of it and one of the callback, fail or are spoilt before the second seed is drawn |
| `HalvesSendInTurn` | constraint of `two_halves` | the halves share only the receiver; a packet and a callback of each may still be pending together |
| `ROWS`, `DEBOUNCE`, `ACTIVITY`, `MaintPeriod`, `TxCap` | 2, 3, 7, 2, 1 (code: 5, 5, 500, 128, Gazell's FIFO) | a row of its own and one beside it; `ACTIVITY` leaves room for one repetition |
| `ROWS`, `INACTIVE`, `RxCap` | 2, 1, 3 (code: 5, 10000, the AVR's buffer) | two rows of each half and the end byte; a release in the second silent poll |
| `OneFault` | constraint of `uart_link` | one lost byte, late answer or restart |
| `BlockSize`, `HashBlockSize`, `CounterMod` | 3, 4, 4 (code: 16, 64, 256) | messages of up to three blocks in any chunks; expansions up to the largest, where the counter wraps |
| `MaxMessage`, `MaxMacs`, `MaxFault` | 7, 2, 2 | a MAC after a failed one and after a finished one |
| `MaxWait`, two contexts | 2 (code: 2^24) | the unit ends before, at and after the last poll |

Larger instances, each checked once and without error: the keyboard with 3 rows, its
safety properties (26.7 million states); `rotation` with a packet whose AES operation
fails or is spoilt (4.8 million); `restarts_and_wrap` with `RekeyInterval` 1 and
`MaxCounter` 2 (3.7 million), and without `FaultsAlone` and `TwoFaultsEarly`
(5.2 million); `liveness` without `FaultsAlone` (1.2 million);
`uart_link` with `StaleReads` (18.4 million).

## Runs

Passing:

| run | states | question |
|---|---|---|
| `rotation` | 1.9 M | `QueuedOffersCurrent`: every payload queued or travelling matches a context the receiver holds. `KeyboardInStep`: the half's key and the key of every packet on the air is one the receiver holds. `AcceptedPacketsDecrypt`, with two callbacks pending and the fetch from a flushed FIFO |
| `restarts_and_wrap` | 1.3 M | losses, restarts of both sides, AES operations that fail or are spoilt, the wrap past an id 0 that is stored: `OfferWellFormed`, `KeyOrder`, `AcceptedPacketsDecrypt`, `ConfirmOnlyOffered`, `TypeOK` |
| `two_halves` | 1.5 M | both halves: `ContextsWhole` |
| `liveness` | 345,000 | `PacketsKeepArriving`, `LeavesInitialKey`, of a half that keeps sending; `ImplementsKeyAgreement`, the refinement; and the invariants of the proofs, `InductiveInv` and `KeysCurrent` |
| `keyboard_scan` | 633,000 | `NeverDeaf`: a sleeping half wakes at the next press. `ReleasedBeforeSleep`: it has offered the release of its keys, and only a FIFO that was full every time keeps it from being queued. `OnlyStableKeys`, `RestingKeysAreSent`; `TypeOK` |
| `uart_link` | 649,000 | `MatrixFollowsPackets`: an accepted matrix is the last packet of each half. `ScansStayAligned`, `SilentHalfReleased`; `TypeOK` |
| `key_derivation` | 346,000 | `MacIsReference`, `ExpandIsReference`: what the RFCs say, over any chunks and after failures. `OneMacPerBlock`, `TypeOK` |
| `aes_unit` | 66,000 | `OwnCiphertext`: a call that reports success has its own ciphertext. `CallsReturn`, `TypeOK` |

Deadlock checking is off only in `key_derivation`, whose calls return and stop.

What the properties leave out, and why:

* `QueuedOffersCurrent` and `KeyboardInStep` except the last id (`OnLastId`), where
  they are false: the finding of `current_context`. They are checked and
  proved with `StoresZero` FALSE. The guards `spent.x = 0` name the fault after which a
  property is not claimed.
* `AcceptedPacketsDecrypt` excepts packets that are `torn`: a key change before the MAC
  is the finding of `valid_message`; and if a callback that rejects its payload comes
  between setting the unit's pointer and its start (aes-ecb.c 30-39), the data is
  encrypted with a stale block, and the packet is accepted all the same.
* `OwnCiphertext` excepts a call that a half's callback interrupted (the half's lock is
  not looked at: keyboard 371; the case above) and a call during which the unit, started
  by an earlier call that gave up waiting, ends between this call's clearing of the
  events and its start (aes-ecb.c 30-44): both return the wrong block as a success.
* `MacIsReference` and `ExpandIsReference` except HMAC keys longer than a hash block.
* `ReleasedBeforeSleep` does not say that a queued release arrives: the radio gives a
  packet up after 100 attempts. With 0 offers it speaks of a half that has taken no key
  since its boot.
* `MatrixFollowsPackets` excepts scans that timed out if the data register shows old
  bytes (the finding of `end_byte`), and behaviours in which an answer came later than
  the timeout: nothing realigns them but the end byte.

Findings (each a run TLC refutes, with the comment it contradicts):

| run | what happens |
|---|---|
| `valid_message` | the acknowledgement callback changes key and id between encryption and MAC (keyboard 147-152, 371-384): the receiver takes the packet for valid (receiver 450) and its data decrypts to something else |
| `current_context` | id 255 is followed by 1, both odd: the next key is derived over the current one (receiver 76, 298-312); the offer on a MAC failure repairs it |
| `sealed_payload` | the MAC of a seed payload fails and the retry encrypts the ciphertext again, over a CMAC buffer that still holds a block (receiver 332-341): the payload is neither encrypted nor correctly MAC'd, and only a restart ends that state |
| `end_byte` | a byte is lost, the scan times out and reads the end byte twice from the stale register: a shifted matrix is taken (matrix.c 112-121) |

Seen while modelling, without a run: the callback's reset of the counter is lost if it
falls between load and store of `counter++` (keyboard 149-150), so the new key starts
with the old count; where `new_key_id` is stored twice it is 0 for a moment (receiver
298-302), and a packet under key 0 then confirms key 0; the ten microseconds the
UART handler waits (receiver 246) cover one byte of the eleven; `matrix_is_on` tests
`1<col` where `1<<col` is meant (matrix.c 137; a read-only helper).

### Fairness

*Rekey*: weak for a `send_data` that has begun, the half's callback, the link's
exchange, the receiver's callback (interrupts are served) and each half's turn in the
main loop; strong for gathering a byte: the random generator is free-running, so it is
not always "not ready" when the loop looks. Losses, restarts and faults are never due
and bounded, so Gazell's retries get through in the end. On a link that loses
everything for ever nothing is claimed. No half has to begin a `send_data`: after 500
scans without a key it stops its clocks (keyboard 233-236, module `KeyboardScan`). Both
properties are about a half that begins one again and again (`KeepsSending`), and except
a receiver that has used up `MaxSeed`, which the code never does.

*KeyboardScan*: weak for the interrupt, both clocks, the handler and the radio, which
sends or gives up. *UartLink*: weak for QMK's scan (its loop calls it for ever), the
handler and the driver's interrupts. *AesUnit*: weak for a running callback, strong for
main level and for the callback's end, since callbacks use the unit finitely often;
the unit itself need never answer.

## Proofs

`RekeyProofs`, `RekeyOrderProofs` and `RekeyAgreementProofs` prove, for any number of
halves, any even `KeyIdMod >= 4`, any seed length, FIFO sizes and bounds on losses,
restarts and failures (the named assumptions of `Rekey`):

* `TypeCorrect`: `Spec => []TypeOK`: the fields (`FieldsOK`, all the other proofs need),
  the lengths of the FIFOs (`LinkBounds`) and the budgets (`SpendingsOK`).
* `ContextsStayWhole`: `Spec => []ContextsWhole`.
* `OffersWellFormed`: `Spec => []OfferWellFormed`.
* `AcceptedPacketsAlwaysDecrypt`: `Spec => AcceptedPacketsDecrypt`.
* `InductiveInvHolds`: `Spec => []InductiveInv`, the invariant behind these.
* `KeysStayInOrder`: `Spec => []KeyOrder`.
* `ConfirmsOnlyOffers`: `Spec => ConfirmOnlyOffered`.
* `KeysStayCurrent`: `Spec => []KeysCurrent`.
* if `~ StoresZero`: `RekeyImplementsAgreement`, `Spec => ImplementsKeyAgreement`;
  `OffersStayCurrent`, `Spec => []QueuedOffersCurrent`; `KeyboardStaysInStep`,
  `Spec => []KeyboardInStep`.

*Contexts and packets.* `ContextsWhole` speaks of the moments the lock is free;
`ContextInv` says which slot may be mixed while it is held, and needs `LockInv`: the
lock is held exactly in the critical steps and the state found when it was taken is
still there, because the callback changes `state` only when it is free.
`OfferInv` follows the seed from "derived" over "sealed" to "MAC'd", and needs
`NextIdStored`: the next id is not 0 once it is stored, so the slot derived is the
slot the half's packets will be checked with. `PacketInv` follows a packet through
`send_data` and the FIFOs: until it is torn its data and MAC are under one key and the
counter it carries; a packet MAC'd over the rest of a failed MAC has a MAC
nothing matches. TLC checks the conjunction as `InductiveInv` in `liveness`.
The proof has one lemma per group of actions for each conjunct.

*The order of keys.* A confirmation is inferred from the id of a packet whose MAC
matches, so `ConfirmOnlyOffered` depends on every place a key can be: the offers in
the host's FIFO and on the air, the half, the packet it assembles, both packet FIFOs,
and a callback's stack. They form a circle. `OneKeyInv`: while nothing is offered, what
goes round fits one key, and no copy of the seed being derived exists outside the
receiver. `OrderInv`: once a key is offered, it spreads along the circle from the
offers on, and wherever it has come, everything behind it fits the new key
(`InOrder` within a FIFO, `Delivered` to `Arrived` between them); so when the first
packet under it arrives, no old offer or packet is left, and the circle again has one
key. `Fits` says what old copies may still exist: packets under the compiled-in key
(the half restarted), and packets and offers under seeds the receiver no longer knows
(it restarted), which no context verifies. `SeedsInv` keeps a seed yet to be drawn
distinct from all of them; `CurrentKeys` has the exception of the build that stores
the id 0. `RekeyCircleProofs` has one lemma per kind of move, about a circle before
and after it; `RekeyOrderProofs` shows each action of `Rekey` to be such a move.

*The refinement* needs of that invariant that a payload which is offered carries the
next key, and that a packet which confirms was made with the offered seed. Each action
maps to a step of `KeyAgreement` or changes none of its variables.

*The keys in use.* `KeysCurrent` adds to `KeyOrder` what is true until the receiver
restarts or a derivation or sealing fails: nothing fits merely because no context
verifies it; offers and packets are under the current key, the next one, or the
compiled-in one. At the last id, where the context of the current key is about to be
overwritten, it claims the id but not the context.

The other proofs have one inductive invariant each; TLC checked it, or the parts of it
that mention no unbounded set, on the instances of the runs before it was proved.

`AesUnitProofs`, for any set of contexts and any `MaxWait >= 1`: `AesTypeCorrect`
(`Spec => []TypeOK`) and `CiphertextIsOwn` (`Spec => OwnCiphertext`). `Exclusion` says
when main level and a callback can both be inside a call; only then may a call find
the pointer or the unit changed under it. For a call that is alone and found the unit
idle, `UnitServes` follows the block from `start` to the event: the unit works on this
call's block, or has ended it, or has reported an error.

`KeyboardScanProofs`, for any number of rows and any times the assumptions allow:

* `ScanTypeCorrect`: `Spec => []TypeOK`.
* `SleepingHalfCanWake`: `Spec => []NeverDeaf`. `NeverDeaf` speaks of a half that
  sleeps; `QuietInv` says what is true from the moment the second clock stops, through
  the raising of the rows and the scan of a late tick: no key of a high row is down,
  or the interrupt is pending.
* `ReleaseIsOffered`: `Spec => []ReleasedBeforeSleep`. `DebounceInv` bounds the empty
  scans a release can take to be debounced, `OffersInv` the empty scans between two
  offers of it, and says that a state the last packet does not tell was refused each
  time; `Times` is the arithmetic that makes `ACTIVITY` long enough.
* `KeysAreDebounced`: `Spec => OnlyStableKeys`. `HeldInv` relates the count of
  `handler_debounce`, in the middle of a scan too, to how long each key really was as
  in the snapshot. A row left high by a wake-up shows in others only in a scan that
  can start no counting (`SleepInv`).

`UartLinkProofs`, for any number of rows, any `INACTIVE`, buffer, key states and
numbers of faults, with and without stale reads:

* `UartTypeCorrect`: `Spec => []TypeOK`.
* `ScansAreAligned`: `Spec => []ScansStayAligned`. `AlignInv` counts the bytes that
  arrived against the bytes sent: QMK leaves a scan only when nothing more can come.
* `AnswersAreWhole`: `Spec => MatrixFollowsPackets`. `DataInv`: what arrived is the
  beginning of the answer, or there is a gap and the end byte cannot arrive at its
  place any more. `BufferInv` says the receiver's buffer, rewritten while it is sent,
  matches the last packets at every moment; `SilentInv` relates its counter, which is
  reset at each release, to the real silence.

`KdfProofs`, for any block sizes and counter width, any lengths of messages, info and
output, any chunks and any number of failing AES operations (keys are those of `Kdf`:
shorter than a block, a block, longer):

* `KdfTypeCorrect`: `Spec => []TypeOK`.
* `OneMacForEachBlock`: `Spec => []OneMacPerBlock`. `Progress` relates the counter that
  may wrap, `left`, the output and the MACs made; `Covered` is the rounding up.
* `MacAlwaysReference`: `Spec => MacIsReference`. `CmacRunning` says of a context in
  use that there are a number `k` and a function `f`, the RFC's chain of the first `k`
  blocks of the message, such that the context's block is `f[k]` and its buffer holds
  the bytes after them; it is full, not empty, on a block boundary (the code processes
  a block only when more follows). `HmacRunning` says what both hash states hold.
  `KeysHeld`: a failure spoils the buffer, never the subkeys.
* `ExpandAlwaysReference`: `Spec => []ExpandIsReference`. `Deriving`: the output is made
  of the RFC's blocks up to the last one, and the message in progress is as much of
  T(i - 1), info and i as the program counter says.

The actions unfold the RFCs' recursive functions one step at a time, so the proof of
an invariant needs no induction over the message. Where a recursive function has to be
identified (`CmacIs`, `OkmBlockIs`: what satisfies the recursion is the function), the
proof takes the least number at which the two differ (`LeastOf`, from the
well-foundedness of < on the naturals) in place of induction.

Only model-checked: all liveness (`PacketsKeepArriving`, `LeavesInitialKey`,
`RestingKeysAreSent`, `SilentHalfReleased`, `CallsReturn`), since the prover has no
rules for fairness and `ENABLED`. Every invariant, every other action property and the
refinement that a passing run checks is stated by a theorem.

## Not modelled

* AES and SHA-256 themselves: bit-level computation, in the unit and in
  third-party code. They are symbolic in `Cmac` and events in `AesUnit`.
* The crypto header's inline instances (two extern declarations) and the known-answer
  tests with their software AES: values, not behaviour.
* The QMK keyboard definition, keymaps and `matrix_is_on`, `matrix_print` and the
  other read-only helpers: tables and queries for QMK.
* Build files, linker scripts, driver configuration (`nrf_drv_config.h`) and the
  precompiled images: they settle priorities and `StoresZero`, and have no steps.
* Counters of failures and the LED and GPIO set-up: nothing reads them.

## Plan

Done: the core (`Rekey`, first proofs), `KeyAgreement` with the refinement,
`KeyboardScan`, `UartLink`, `AesUnit`, `Cmac` and `Kdf`, AES failures in packets.

Proofs done: every invariant and action property the passing runs check, of all
components, and the refinement of `KeyAgreement`.

Next, in this order:

1. What `KeyAgreement` itself promises (seeds are never used twice, a confirmed key was
   offered), proved of it and carried over to `Rekey` by the refinement.
2. What still holds at the last id, where `CurrentContextKept` fails: which packets the
   receiver can check between the derivation over the current context and the
   confirmation.
3. An abstract specification of what QMK sees of a half, implemented by `UartLink`.
