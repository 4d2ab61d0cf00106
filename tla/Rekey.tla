------------------------------- MODULE Rekey -------------------------------
(***************************************************************************)
(* Key rotation between the keyboard halves and the receiver of the        *)
(* interphase-encrypted firmware.                                          *)
(*                                                                         *)
(* A keyboard half numbers its packets with the id of the key it uses and  *)
(* protects them with a context derived from the seed of that key.  The    *)
(* receiver gathers a new seed in its main loop, derives the context the   *)
(* next key will need, seals the seed into an acknowledgement payload and  *)
(* hands it to the half; the first packet under the new id confirms it.    *)
(* Radio callbacks preempt the receiver's main loop and the half's         *)
(* send_data, the radio loses packets, either side may restart, and an AES *)
(* operation may fail.                                                     *)
(*                                                                         *)
(* A key is represented by the number of the seed it is derived from: 0 is *)
(* the compiled-in master seed, 1, 2, ... the seeds the receiver draws.    *)
(* Two contexts with the same number agree; nothing verifies under NoSeed. *)
(***************************************************************************)
EXTENDS Integers, Sequences

CONSTANTS
    Halves,         \* the keyboard halves: left and right
    KeyIdMod,       \* key ids are kept modulo this number (256 in the code)
    RekeyInterval,  \* MITOSIS_REKEY_INTERVAL
    SeedLen,        \* random bytes in a seed (15 in the code)
    FifoCap,        \* packets in a Gazell transmit FIFO
    StoresZero,     \* whether the build stores new_key_id twice when it wraps (the
                    \* precompiled receiver does)
    RxCap,          \* packets and callbacks the host's Gazell keeps for a pipe
    MaxSeed,        \* bound: seeds the receivers draw in a behaviour
    MaxCounter,     \* bound: packet counters above this one are not told apart
    MaxLoss,        \* bound: exchanges the radio fails
    MaxKbReset,     \* bound: restarts of keyboard halves
    MaxRcvReset,    \* bound: restarts of the receiver
    MaxRekeyFault,  \* bound: AES failures while a context is derived
    MaxSealFault,   \* bound: AES failures while a seed is sealed
    MaxPacketFault  \* bound: AES operations on a packet or received payload that fail,
                    \* or are spoilt by one that another level does meanwhile

ASSUME HalvesAssumption == Halves # {}
ASSUME KeyIdAssumption == KeyIdMod \in Nat /\ KeyIdMod >= 4 /\ KeyIdMod % 2 = 0
ASSUME StoresZeroAssumption == StoresZero \in BOOLEAN
ASSUME SizesAssumption ==
    /\ SeedLen \in Nat \ {0}
    /\ FifoCap \in Nat \ {0}
    /\ RxCap \in Nat \ {0}
ASSUME BoundsAssumption ==
    /\ RekeyInterval \in Nat
    /\ MaxCounter \in Nat
    /\ RekeyInterval < MaxCounter
    /\ {MaxSeed, MaxLoss, MaxKbReset, MaxRcvReset, MaxRekeyFault, MaxSealFault,
        MaxPacketFault} \subseteq Nat

VARIABLES
    \* One keyboard half.
    sendPc,         \* how far the half's send_data has come (encrypting: not "idle")
    clashed,        \* a callback used the AES unit during the AES call it is in
    kbKeyId,        \* data_payload.key_id
    kbEnc,          \* seed behind crypto.encrypt
    kbMac,          \* seed behind crypto.cmac
    kbCounter,      \* crypto.encrypt.ctr.iv.counter
    kbDirty,        \* its contexts whose CMAC holds a block it never processed
    data_payload,   \* the packet under construction
    \* Gazell.
    txFifo,         \* half: packets waiting to be sent
    ackRx,          \* half: payloads that came with acknowledgements
    ackFifo,        \* host: payloads waiting for an acknowledgement
    rxFifo,         \* host: packets received
    rxCalls,        \* host: callbacks still to run
    stackPayload,   \* host: what the callback's frame held last
    \* The receiver, for each half.
    state,          \* key_state->state
    seed_index,     \* key_state->seed_index
    key_id,         \* key_state->key_id
    new_key_id,     \* key_state->new_key_id
    ctxEnc,         \* crypto[i].encrypt, by the seed it is derived from
    ctxMac,         \* crypto[i].cmac, by the seed it is derived from
    ctxDirty,       \* the i whose crypto[i].cmac holds a block it never processed
    ack_payload,    \* key_state->ack_payload
    \* The receiver's main loop.
    turn,           \* process_left: the half whose turn it is
    mainPc,         \* where in update_rekey_state the loop is
    decrypting,     \* the lock between main loop and callbacks
    macDirty,       \* receiver_crypto.cmac holds a block it never processed
    \* The environment.
    drawn,          \* seeds drawn so far
    spent           \* losses, restarts and AES failures so far

kbVars    == <<sendPc, clashed, kbKeyId, kbEnc, kbMac, kbCounter, kbDirty,
               data_payload>>
linkVars  == <<txFifo, ackRx, ackFifo, rxFifo, rxCalls, stackPayload>>
keyVars   == <<state, seed_index, key_id, new_key_id, ctxEnc, ctxMac, ctxDirty,
               ack_payload>>
mainVars  == <<turn, mainPc, decrypting, macDirty>>
vars      == <<kbVars, linkVars, keyVars, mainVars, drawn, spent>>

-----------------------------------------------------------------------------
NoSeed == -1
Seeds == 0..MaxSeed \cup {NoSeed}
KeyIds == 0..(KeyIdMod - 1)
Counters == 0..MaxCounter

Critical == {"rekey_enc", "rekey_mac", "seal", "seal_mac"}
\* The half's contexts: its own and the one for the receiver's payloads.
HalfContexts == {"crypto", "receiver_crypto"}
SendPcs == {"idle", "encrypt", "count", "store", "mac", "enqueue"}
States == {"key_not_ready", "seed_ready", "new_key_ready", "new_key_payload_ready"}
MainPcs == {"loop", "skip_zero"} \cup Critical

\* A data packet: its key id and counter fields; the key (enc) and counter
\* (encCounter) its data is really encrypted with; the key of its MAC and the
\* key id the MAC covers.  torn: a callback preempted the AES call of its encryption,
\* or the key changed between encryption and MAC.
Packets == [id: KeyIds, counter: Counters, enc: Seeds, encCounter: Counters,
            mac: Seeds, macId: KeyIds, torn: BOOLEAN]
NoPacket == [id |-> 0, counter |-> 0, enc |-> NoSeed, encCounter |-> 0,
             mac |-> NoSeed, macId |-> 0, torn |-> FALSE]

\* A seed payload: the seed, whether the seed field holds its ciphertext, and
\* whether the mac field is the MAC of what the payload holds.
AckPayloads == [seed: Seeds, sealed: BOOLEAN, id: KeyIds, macOk: BOOLEAN]
NoAckPayload == [seed |-> NoSeed, sealed |-> FALSE, id |-> 0, macOk |-> FALSE]

\* The three contexts of a half: 0 the hard-coded key, 1 even ids, 2 odd ids.
Slots == 0..2
OneGeneratedSlot(id) == 1                   \* mutant: both generated keys share one
GeneratedSlot(id) == (id % 2) + 1
Slot(id) == IF id = 0 THEN 0 ELSE GeneratedSlot(id)
NextKeyIdUnwrapped(id) == id + 1            \* mutant: a field too wide
NextKeyId(id) == (id + 1) % KeyIdMod
\* Key id 0 is the hard-coded key, so 1 follows the largest id.
SkippingZero(id) == IF id = 0 THEN 1 ELSE id

\* A context of which one part is derived from one seed, the rest from another.
Mixed(old, new) == IF old = new THEN new ELSE NoSeed

NextCounter(c) == IF c = MaxCounter THEN c ELSE c + 1
Other(h) == IF Halves = {h} THEN h ELSE CHOOSE g \in Halves : g # h

Spendings == {"loss", "kbReset", "rcvReset", "rekeyFault", "sealFault", "packetFault"}
Budget == [loss |-> MaxLoss, kbReset |-> MaxKbReset, rcvReset |-> MaxRcvReset,
           rekeyFault |-> MaxRekeyFault, sealFault |-> MaxSealFault,
           packetFault |-> MaxPacketFault]
Spend(what) ==
    /\ spent[what] < Budget[what]
    /\ spent' = [spent EXCEPT ![what] = @ + 1]

-----------------------------------------------------------------------------
InitKeyboards ==
    /\ sendPc = [h \in Halves |-> "idle"]
    /\ clashed = [h \in Halves |-> FALSE]
    /\ kbKeyId = [h \in Halves |-> 0]
    /\ kbEnc = [h \in Halves |-> 0]
    /\ kbMac = [h \in Halves |-> 0]
    /\ kbCounter = [h \in Halves |-> 0]
    /\ kbDirty = [h \in Halves |-> {}]
    /\ data_payload = [h \in Halves |-> NoPacket]

InitLink ==
    /\ txFifo = [h \in Halves |-> <<>>]
    /\ ackRx = [h \in Halves |-> <<>>]
    /\ ackFifo = [h \in Halves |-> <<>>]
    /\ rxFifo = [h \in Halves |-> <<>>]
    /\ rxCalls = [h \in Halves |-> 0]
    /\ stackPayload = [h \in Halves |-> NoPacket]

FreshContexts == [i \in Slots |-> IF i = 0 THEN 0 ELSE NoSeed]

InitReceiver ==
    /\ state = [h \in Halves |-> "key_not_ready"]
    /\ seed_index = [h \in Halves |-> 0]
    /\ key_id = [h \in Halves |-> 0]
    /\ new_key_id = [h \in Halves |-> 0]
    /\ ctxEnc = [h \in Halves |-> FreshContexts]
    /\ ctxMac = [h \in Halves |-> FreshContexts]
    /\ ctxDirty = [h \in Halves |-> {}]
    /\ ack_payload = [h \in Halves |-> NoAckPayload]
    /\ turn \in Halves
    /\ mainPc = "loop"
    /\ decrypting = FALSE
    /\ macDirty = FALSE

Init ==
    /\ InitKeyboards
    /\ InitLink
    /\ InitReceiver
    /\ drawn = 0
    /\ spent = [what \in Spendings |-> 0]

-----------------------------------------------------------------------------
(* The keyboard half: send_data, in the steps between which the radio      *)
(* callback can preempt it.                                                *)

\* The AES calls of send_data: the encryption of the keys, and their MAC.
AesInUse(h) == sendPc[h] \in {"encrypt", "mac"}
NoClash(h) == clashed' = [clashed EXCEPT ![h] = FALSE]

\* The flag encrypting is set and the keys are copied.
SendBegin(h) ==
    /\ sendPc[h] = "idle"
    /\ data_payload' = [data_payload EXCEPT ![h].torn = FALSE]
    /\ NoClash(h)
    /\ sendPc' = [sendPc EXCEPT ![h] = "encrypt"]
    /\ UNCHANGED <<kbKeyId, kbEnc, kbMac, kbCounter, kbDirty, linkVars, keyVars, mainVars,
                   drawn, spent>>

EncryptedWith(h, seed) ==
    /\ sendPc[h] = "encrypt"
    /\ data_payload' = [data_payload EXCEPT ![h] =
           [@ EXCEPT !.enc = seed, !.encCounter = kbCounter[h]]]
    /\ NoClash(h)
    /\ sendPc' = [sendPc EXCEPT ![h] = "count"]
    /\ UNCHANGED <<kbKeyId, kbEnc, kbMac, kbCounter, kbDirty, linkVars, keyVars, mainVars,
                   drawn>>

SendEncrypt(h) ==
    /\ EncryptedWith(h, kbEnc[h])
    /\ UNCHANGED spent

\* A callback has moved the unit's data pointer, cleared its events or replaced the
\* context: the call reports success, and what is added to the keys is a stale block.
SendEncryptSpoilt(h) ==
    /\ clashed[h]
    /\ EncryptedWith(h, NoSeed)
    /\ Spend("packetFault")

\* The AES operation fails, or its end is waited for in vain because a callback has
\* cleared the event: the packet is dropped.
SendEncryptFault(h) ==
    /\ sendPc[h] = "encrypt"
    /\ data_payload' = [data_payload EXCEPT ![h] = NoPacket]
    /\ NoClash(h)
    /\ sendPc' = [sendPc EXCEPT ![h] = "idle"]
    /\ Spend("packetFault")
    /\ UNCHANGED <<kbKeyId, kbEnc, kbMac, kbCounter, kbDirty, linkVars, keyVars, mainVars,
                   drawn>>

\* data_payload.counter = crypto.encrypt.ctr.iv.counter++, as a load ...
\* (mutant: the counter is incremented before it is copied)
SendReadNextCounter(h) ==
    /\ sendPc[h] = "count"
    /\ data_payload' = [data_payload EXCEPT ![h].counter = NextCounter(kbCounter[h])]
    /\ sendPc' = [sendPc EXCEPT ![h] = "store"]
    /\ UNCHANGED <<clashed, kbKeyId, kbEnc, kbMac, kbCounter, kbDirty, linkVars, keyVars,
                   mainVars, drawn, spent>>
SendReadCounter(h) ==
    /\ sendPc[h] = "count"
    /\ data_payload' = [data_payload EXCEPT ![h].counter = kbCounter[h]]
    /\ sendPc' = [sendPc EXCEPT ![h] = "store"]
    /\ UNCHANGED <<clashed, kbKeyId, kbEnc, kbMac, kbCounter, kbDirty, linkVars, keyVars,
                   mainVars, drawn, spent>>

\* ... and a store.
SendStoreCounter(h) ==
    /\ sendPc[h] = "store"
    /\ kbCounter' = [kbCounter EXCEPT ![h] = NextCounter(data_payload[h].counter)]
    /\ sendPc' = [sendPc EXCEPT ![h] = "mac"]
    /\ UNCHANGED <<clashed, kbKeyId, kbEnc, kbMac, kbDirty, data_payload, linkVars, keyVars,
                   mainVars, drawn, spent>>

\* A block left over from a failed MAC is hashed in front of the packet: its MAC
\* matches nothing, and the context is clean again.
SentMac(h) == IF "crypto" \in kbDirty[h] THEN NoSeed ELSE kbMac[h]

MacedWith(h, seed) ==
    /\ sendPc[h] = "mac"
    /\ data_payload' = [data_payload EXCEPT ![h] =
           [@ EXCEPT !.mac = seed, !.macId = kbKeyId[h]]]
    /\ kbDirty' = [kbDirty EXCEPT ![h] = @ \ {"crypto"}]
    /\ NoClash(h)
    /\ sendPc' = [sendPc EXCEPT ![h] = "enqueue"]
    /\ UNCHANGED <<kbKeyId, kbEnc, kbMac, kbCounter, linkVars, keyVars, mainVars, drawn>>

SendMac(h) ==
    /\ MacedWith(h, SentMac(h))
    /\ UNCHANGED spent

\* As in SendEncryptSpoilt: what is copied is not the MAC.
SendMacSpoilt(h) ==
    /\ clashed[h]
    /\ MacedWith(h, NoSeed)
    /\ Spend("packetFault")

\* The AES operation of the MAC fails: the packet is dropped, its counter used up.
\* (A callback that came after the packet was hashed and started the context afresh
\* leaves no block in it.)
SendMacFault(h) ==
    /\ sendPc[h] = "mac"
    /\ \/ kbDirty' = [kbDirty EXCEPT ![h] = @ \cup {"crypto"}]
       \/ clashed[h] /\ data_payload[h].torn /\ UNCHANGED kbDirty
    /\ data_payload' = [data_payload EXCEPT ![h] = NoPacket]
    /\ NoClash(h)
    /\ sendPc' = [sendPc EXCEPT ![h] = "idle"]
    /\ Spend("packetFault")
    /\ UNCHANGED <<kbKeyId, kbEnc, kbMac, kbCounter, linkVars, keyVars, mainVars, drawn>>

\* The packet leaves with the key id data_payload holds now; a full FIFO
\* refuses it and the packet is dropped.  What data_payload keeps besides the key
\* id is written again before the next packet reads it, so it is forgotten here.
SendEnqueue(h) ==
    /\ sendPc[h] = "enqueue"
    /\ txFifo' = IF Len(txFifo[h]) < FifoCap
                 THEN [txFifo EXCEPT ![h] =
                           Append(@, [data_payload[h] EXCEPT !.id = kbKeyId[h]])]
                 ELSE txFifo
    /\ data_payload' = [data_payload EXCEPT ![h] = NoPacket]
    /\ sendPc' = [sendPc EXCEPT ![h] = "idle"]
    /\ UNCHANGED <<clashed, kbKeyId, kbEnc, kbMac, kbCounter, kbDirty, ackRx, ackFifo,
                   rxFifo, rxCalls, stackPayload, keyVars, mainVars, drawn, spent>>

-----------------------------------------------------------------------------
(* The keyboard half: nrf_gzll_device_tx_success, when the acknowledgement *)
(* carried a payload.  It preempts send_data and does not look at the      *)
(* encrypting flag.                                                        *)

\* The seed the half recovers by decrypting the seed field.
DecryptedSeed(a) == IF a.sealed THEN a.seed ELSE NoSeed

\* The steps of send_data in which a callback, or a change of the key, tears the packet.
CallTears(h) == sendPc[h] = "encrypt"
KeyTears(h) == sendPc[h] \in {"encrypt", "count", "store", "mac"}
Torn(h, by) == data_payload' = [data_payload EXCEPT ![h].torn = @ \/ by]

FetchAck(h) ==
    /\ ackRx[h] # <<>>
    /\ ackRx' = [ackRx EXCEPT ![h] = Tail(@)]
    /\ clashed' = [clashed EXCEPT ![h] = @ \/ AesInUse(h)]
    /\ UNCHANGED <<sendPc, txFifo, ackFifo, rxFifo, rxCalls, stackPayload, keyVars,
                   mainVars, drawn>>

\* What decides is the MAC computed over the payload: right when the payload's own
\* is and no block of a failed MAC is hashed in front of it.
AckVerifies(h) == Head(ackRx[h]).macOk /\ "receiver_crypto" \notin kbDirty[h]

\* mitosis_crypto_rekey also starts the CMAC context afresh.
AdoptSeed(h) ==
    /\ FetchAck(h)
    /\ AckVerifies(h)
    /\ LET a == Head(ackRx[h]) IN
       /\ kbKeyId' = [kbKeyId EXCEPT ![h] = a.id]
       /\ kbEnc' = [kbEnc EXCEPT ![h] = DecryptedSeed(a)]
       /\ kbMac' = [kbMac EXCEPT ![h] = DecryptedSeed(a)]
    /\ kbCounter' = [kbCounter EXCEPT ![h] = 0]
    /\ kbDirty' = [kbDirty EXCEPT ![h] = @ \ {"crypto"}]
    /\ Torn(h, KeyTears(h))
    /\ UNCHANGED spent

RejectAck(h) ==
    /\ FetchAck(h)
    /\ ~ AckVerifies(h)
    /\ kbDirty' = [kbDirty EXCEPT ![h] = @ \ {"receiver_crypto"}]
    /\ Torn(h, CallTears(h))
    /\ UNCHANGED <<kbKeyId, kbEnc, kbMac, kbCounter, spent>>

\* The AES operation of the MAC fails, which the handler does not see: it compares
\* what the stack holds, which is the MAC of no payload.  Or it takes the end of the
\* operation it preempted for its own, and compares a stale block.  Or the MAC is
\* right and decrypting the seed fails.
AckFault(h) ==
    /\ FetchAck(h)
    /\ \/ kbDirty' = [kbDirty EXCEPT ![h] = @ \cup {"receiver_crypto"}]
       \/ /\ AckVerifies(h) \/ AesInUse(h)
          /\ kbDirty' = [kbDirty EXCEPT ![h] = @ \ {"receiver_crypto"}]
    /\ Torn(h, CallTears(h))
    /\ Spend("packetFault")
    /\ UNCHANGED <<kbKeyId, kbEnc, kbMac, kbCounter>>

\* An AES operation of mitosis_crypto_rekey fails and the handler ignores it:
\* the key id is new, the context old, half overwritten (the key new, the nonce
\* or the CMAC subkeys old), or half replaced.
AdoptFault(h) ==
    /\ FetchAck(h)
    /\ AckVerifies(h)
    /\ LET a == Head(ackRx[h]) IN
       /\ kbKeyId' = [kbKeyId EXCEPT ![h] = a.id]
       /\ \/ UNCHANGED <<kbEnc, kbMac, kbCounter, kbDirty>>
          \/ /\ kbEnc' = [kbEnc EXCEPT ![h] = Mixed(@, DecryptedSeed(a))]
             /\ UNCHANGED <<kbMac, kbCounter, kbDirty>>
          \/ /\ kbEnc' = [kbEnc EXCEPT ![h] = DecryptedSeed(a)]
             /\ kbCounter' = [kbCounter EXCEPT ![h] = 0]
             /\ \/ UNCHANGED <<kbMac, kbDirty>>
                \/ /\ kbMac' = [kbMac EXCEPT ![h] = Mixed(@, DecryptedSeed(a))]
                   /\ kbDirty' = [kbDirty EXCEPT ![h] = @ \ {"crypto"}]
    /\ Torn(h, KeyTears(h))
    /\ Spend("rekeyFault")

KeyboardReset(h) ==
    /\ Spend("kbReset")
    /\ sendPc' = [sendPc EXCEPT ![h] = "idle"]
    /\ NoClash(h)
    /\ kbKeyId' = [kbKeyId EXCEPT ![h] = 0]
    /\ kbEnc' = [kbEnc EXCEPT ![h] = 0]
    /\ kbMac' = [kbMac EXCEPT ![h] = 0]
    /\ kbCounter' = [kbCounter EXCEPT ![h] = 0]
    /\ kbDirty' = [kbDirty EXCEPT ![h] = {}]
    /\ data_payload' = [data_payload EXCEPT ![h] = NoPacket]
    /\ txFifo' = [txFifo EXCEPT ![h] = <<>>]
    /\ ackRx' = [ackRx EXCEPT ![h] = <<>>]
    /\ UNCHANGED <<ackFifo, rxFifo, rxCalls, stackPayload, keyVars, mainVars, drawn>>

-----------------------------------------------------------------------------
(* Gazell: the exchange of the half's first packet for the host's first    *)
(* acknowledgement payload, after at most 100 attempts.                    *)

HostReceives(h) ==
    /\ txFifo[h] # <<>>
    /\ Len(rxFifo[h]) < RxCap
    /\ rxCalls[h] < RxCap
    /\ rxFifo' = [rxFifo EXCEPT ![h] = Append(@, Head(txFifo[h]))]
    /\ rxCalls' = [rxCalls EXCEPT ![h] = @ + 1]
    /\ txFifo' = [txFifo EXCEPT ![h] = Tail(@)]

\* The acknowledgement carries what the host had queued before its callback
\* for this packet runs.
Exchange(h) ==
    /\ HostReceives(h)
    /\ Len(ackRx[h]) < FifoCap
    /\ IF ackFifo[h] = <<>>
       THEN UNCHANGED <<ackRx, ackFifo>>
       ELSE /\ ackRx' = [ackRx EXCEPT ![h] = Append(@, Head(ackFifo[h]))]
            /\ ackFifo' = [ackFifo EXCEPT ![h] = Tail(@)]
    /\ UNCHANGED <<stackPayload, kbVars, keyVars, mainVars, drawn, spent>>

\* Every acknowledgement of a packet the host has received is lost, with the
\* payload or, when the host keeps it for the next packet, without.
AckLost(h) ==
    /\ Spend("loss")
    /\ HostReceives(h)
    /\ \/ UNCHANGED ackFifo
       \/ ackFifo[h] # <<>> /\ ackFifo' = [ackFifo EXCEPT ![h] = Tail(@)]
    /\ UNCHANGED <<ackRx, stackPayload, kbVars, keyVars, mainVars, drawn>>

PacketLost(h) ==
    /\ Spend("loss")
    /\ txFifo[h] # <<>>
    /\ txFifo' = [txFifo EXCEPT ![h] = Tail(@)]
    /\ UNCHANGED <<ackRx, ackFifo, rxFifo, rxCalls, stackPayload, kbVars, keyVars,
                   mainVars, drawn>>

-----------------------------------------------------------------------------
(* The receiver's radio callback, nrf_gzll_host_rx_data_ready with         *)
(* process_received_packet.  It preempts the main loop and runs to its end.*)

KeyIdVerifies(h, p) == p.macId = p.id       \* mutant: the key id is all that counts
Verifies(h, p) ==
    /\ p.mac # NoSeed
    /\ p.mac = ctxMac[h][Slot(p.id)]
    /\ p.macId = p.id
    /\ Slot(p.id) \notin ctxDirty[h]

\* The first packet under the next key.
AnyPacketConfirms(h, p) == new_key_id[h] # key_id[h]    \* mutant: under any key
Confirms(h, p) ==
    /\ new_key_id[h] # key_id[h]
    /\ new_key_id[h] = p.id

\* The FIFO is flushed behind each packet, so a later callback may find it
\* empty; it then works on what its stack frame happens to hold: the packet of
\* the call before, or bytes that do not verify.  (When no other call is pending
\* the frame is forgotten: the next call comes with a packet of its own.)
Fetched(h) == IF rxFifo[h] # <<>> THEN {Head(rxFifo[h])} ELSE {stackPayload[h], NoPacket}

FetchPacket(h, p) ==
    /\ rxCalls[h] > 0
    /\ rxCalls' = [rxCalls EXCEPT ![h] = @ - 1]
    /\ rxFifo' = [rxFifo EXCEPT ![h] = <<>>]
    /\ stackPayload' = [stackPayload EXCEPT
           ![h] = IF rxCalls[h] > 1 THEN p ELSE NoPacket]

Offer(h) ==
    ackFifo' = IF Len(ackFifo[h]) < FifoCap
               THEN [ackFifo EXCEPT ![h] = Append(@, ack_payload[h])]
               ELSE ackFifo

\* Mutant: the initial key is not replaced at once.
OfferPastInterval(h, p) ==
    p.id # 0 /\ p.counter > RekeyInterval /\ state[h] = "new_key_payload_ready"
OfferOnAccept(h, p) ==
    /\ p.id = 0 \/ p.counter > RekeyInterval
    /\ state[h] = "new_key_payload_ready"
    /\ ~ Confirms(h, p)

\* A packet whose MAC does not match: send the seed again, should the half have
\* forgotten.  Mutants: whatever the state; never.
OfferAlways(h) == TRUE
OfferNever(h) == FALSE
OfferOnReject(h) == state[h] = "new_key_payload_ready"

LockFree == ~ decrypting

AcceptPacket(h, p) ==
    /\ LockFree
    /\ FetchPacket(h, p)
    /\ Verifies(h, p)
    /\ IF Confirms(h, p)
       THEN /\ key_id' = [key_id EXCEPT ![h] = new_key_id[h]]
            /\ state' = [state EXCEPT ![h] = "key_not_ready"]
       ELSE UNCHANGED <<key_id, state>>
    /\ IF OfferOnAccept(h, p) THEN Offer(h) ELSE UNCHANGED ackFifo
    /\ UNCHANGED <<txFifo, ackRx, kbVars, seed_index, new_key_id, ctxEnc, ctxMac,
                   ctxDirty, ack_payload, mainVars, drawn, spent>>

\* The MAC that does not match has used up what was left of a failed one.
RejectPacket(h, p) ==
    /\ LockFree
    /\ FetchPacket(h, p)
    /\ ~ Verifies(h, p)
    /\ ctxDirty' = [ctxDirty EXCEPT ![h] = @ \ {Slot(p.id)}]
    /\ IF OfferOnReject(h) THEN Offer(h) ELSE UNCHANGED ackFifo
    /\ UNCHANGED <<txFifo, ackRx, kbVars, state, seed_index, key_id, new_key_id,
                   ctxEnc, ctxMac, ack_payload, mainVars, drawn, spent>>

\* The AES operation of the MAC fails, which counts as a MAC that does not match.
CheckFault(h, p) ==
    /\ LockFree
    /\ FetchPacket(h, p)
    /\ ctxDirty' = [ctxDirty EXCEPT ![h] = @ \cup {Slot(p.id)}]
    /\ IF OfferOnReject(h) THEN Offer(h) ELSE UNCHANGED ackFifo
    /\ Spend("packetFault")
    /\ UNCHANGED <<txFifo, ackRx, kbVars, state, seed_index, key_id, new_key_id,
                   ctxEnc, ctxMac, ack_payload, mainVars, drawn>>

\* The MAC is right and decrypting the packet fails: it is skipped.
DecryptFault(h, p) ==
    /\ LockFree
    /\ FetchPacket(h, p)
    /\ Verifies(h, p)
    /\ Spend("packetFault")
    /\ UNCHANGED <<txFifo, ackRx, ackFifo, kbVars, keyVars, mainVars, drawn>>

\* The main loop is using the AES unit: skip the packet.
CollidePacket(h, p) ==
    /\ ~ LockFree
    /\ FetchPacket(h, p)
    /\ UNCHANGED <<txFifo, ackRx, ackFifo, kbVars, keyVars, mainVars, drawn, spent>>

Accept(h) == \E p \in Fetched(h) : AcceptPacket(h, p)
Reject(h) == \E p \in Fetched(h) : RejectPacket(h, p)
Collide(h) == \E p \in Fetched(h) : CollidePacket(h, p)
PacketFault(h) == \E p \in Fetched(h) : CheckFault(h, p) \/ DecryptFault(h, p)

-----------------------------------------------------------------------------
(* The receiver's main loop: update_rekey_state for one half, then for the *)
(* other, in the steps between which the callback can preempt it.          *)

AtState(h, s) ==
    /\ turn = h
    /\ mainPc = "loop"
    /\ state[h] = s

NextTurn(h) == turn' = Other(h) /\ mainPc' = "loop"

\* Nothing to do: the payload waits for its confirmation, or the generator has
\* no byte ready.
LoopIdle(h) ==
    /\ \/ AtState(h, "new_key_payload_ready")
       \/ AtState(h, "key_not_ready")
    /\ NextTurn(h)
    /\ UNCHANGED <<decrypting, macDirty, kbVars, linkVars, keyVars, drawn, spent>>

GatherByte(h) ==
    /\ AtState(h, "key_not_ready")
    /\ seed_index[h] + 1 < SeedLen
    /\ seed_index' = [seed_index EXCEPT ![h] = @ + 1]
    /\ NextTurn(h)
    /\ UNCHANGED <<state, key_id, new_key_id, ctxEnc, ctxMac, ctxDirty, ack_payload,
                   decrypting, macDirty, kbVars, linkVars, drawn, spent>>

\* The last byte.  The code stores key_id + 1 and replaces a 0 by 1 afterwards;
\* nothing forbids the compiler to store only the outcome.
GatherLast(h) ==
    /\ AtState(h, "key_not_ready")
    /\ seed_index[h] + 1 = SeedLen
    /\ drawn < MaxSeed
    /\ drawn' = drawn + 1
    /\ ack_payload' = [ack_payload EXCEPT ![h] =
           [@ EXCEPT !.seed = drawn + 1, !.sealed = FALSE, !.macOk = FALSE]]
    /\ seed_index' = [seed_index EXCEPT ![h] = 0]
    /\ state' = [state EXCEPT ![h] = "seed_ready"]
    /\ IF NextKeyId(key_id[h]) = 0 /\ StoresZero
       THEN /\ new_key_id' = [new_key_id EXCEPT ![h] = 0]
            /\ mainPc' = "skip_zero"
            /\ UNCHANGED turn
       ELSE /\ new_key_id' = [new_key_id EXCEPT ![h] = SkippingZero(NextKeyId(key_id[h]))]
            /\ NextTurn(h)
    /\ UNCHANGED <<key_id, ctxEnc, ctxMac, ctxDirty, decrypting, macDirty, kbVars,
                   linkVars, spent>>

SkipZero(h) ==
    /\ turn = h
    /\ mainPc = "skip_zero"
    /\ new_key_id' = [new_key_id EXCEPT ![h] = SkippingZero(@)]
    /\ NextTurn(h)
    /\ UNCHANGED <<state, seed_index, key_id, ctxEnc, ctxMac, ctxDirty, ack_payload,
                   decrypting, macDirty, kbVars, linkVars, drawn, spent>>

LockNotTaken(h, s, pc) ==                   \* mutant: the flag is not set
    /\ AtState(h, s)
    /\ UNCHANGED decrypting
    /\ mainPc' = pc
Lock(h, s, pc) ==
    /\ AtState(h, s)
    /\ ~ decrypting
    /\ decrypting' = TRUE
    /\ mainPc' = pc

RekeyBegin(h) ==
    /\ Lock(h, "seed_ready", "rekey_enc")
    /\ UNCHANGED <<turn, macDirty, kbVars, linkVars, keyVars, drawn, spent>>

\* mitosis_crypto_rekey writes the encryption key and nonce of the context ...
RekeyEnc(h) ==
    /\ turn = h
    /\ mainPc = "rekey_enc"
    /\ ctxEnc' = [ctxEnc EXCEPT
           ![h][GeneratedSlot(new_key_id[h])] = ack_payload[h].seed]
    /\ mainPc' = "rekey_mac"
    /\ UNCHANGED <<state, seed_index, key_id, new_key_id, ctxMac, ctxDirty, ack_payload,
                   turn, decrypting, macDirty, kbVars, linkVars, drawn, spent>>

Unlock(h) ==
    /\ decrypting' = FALSE
    /\ NextTurn(h)

\* ... then its MAC key.
RekeyMac(h) ==
    /\ turn = h
    /\ mainPc = "rekey_mac"
    /\ ctxMac' = [ctxMac EXCEPT
           ![h][GeneratedSlot(new_key_id[h])] = ack_payload[h].seed]
    /\ ctxDirty' = [ctxDirty EXCEPT ![h] = @ \ {GeneratedSlot(new_key_id[h])}]
    /\ state' = [state EXCEPT ![h] = "new_key_ready"]
    /\ Unlock(h)
    /\ UNCHANGED <<seed_index, key_id, new_key_id, ctxEnc, ack_payload,
                   macDirty, kbVars, linkVars, drawn, spent>>

\* An AES operation fails: the context stays half written, the state as it was,
\* and the derivation is tried again in the half's next turn.
RekeyFaultIgnored(h) ==                     \* mutant: the result is not tested
    /\ turn = h
    /\ mainPc = "rekey_enc"
    /\ state' = [state EXCEPT ![h] = "new_key_ready"]
    /\ Unlock(h)
    /\ Spend("rekeyFault")
    /\ UNCHANGED <<seed_index, key_id, new_key_id, ctxEnc, ctxMac, ctxDirty,
                   ack_payload, macDirty, kbVars, linkVars, drawn>>
RekeyFault(h) ==
    /\ turn = h
    /\ LET i == GeneratedSlot(new_key_id[h]) IN
       \/ /\ mainPc = "rekey_enc"
          /\ \/ UNCHANGED ctxEnc
             \/ ctxEnc' = [ctxEnc EXCEPT ![h][i] = Mixed(@, ack_payload[h].seed)]
          /\ UNCHANGED <<ctxMac, ctxDirty>>
       \/ /\ mainPc = "rekey_mac"
          /\ \/ UNCHANGED <<ctxMac, ctxDirty>>
             \/ /\ ctxMac' = [ctxMac EXCEPT ![h][i] = Mixed(@, ack_payload[h].seed)]
                /\ ctxDirty' = [ctxDirty EXCEPT ![h] = @ \ {i}]
          /\ UNCHANGED ctxEnc
    /\ Unlock(h)
    /\ Spend("rekeyFault")
    /\ UNCHANGED <<state, seed_index, key_id, new_key_id, ack_payload,
                   macDirty, kbVars, linkVars, drawn>>

SealBegin(h) ==
    /\ Lock(h, "new_key_ready", "seal")
    /\ ack_payload' = [ack_payload EXCEPT ![h].id = new_key_id[h]]
    /\ UNCHANGED <<turn, macDirty, state, seed_index, key_id, new_key_id, ctxEnc,
                   ctxMac, ctxDirty, kbVars, linkVars, drawn, spent>>

\* The seed is encrypted in place, so encrypting it again restores it.
Seal(h) ==
    /\ turn = h
    /\ mainPc = "seal"
    /\ ack_payload' = [ack_payload EXCEPT ![h].sealed = ~ @]
    /\ mainPc' = "seal_mac"
    /\ UNCHANGED <<state, seed_index, key_id, new_key_id, ctxEnc, ctxMac, ctxDirty,
                   turn, decrypting, macDirty, kbVars, linkVars, drawn, spent>>

\* A block left over from a failed MAC is hashed in front of the payload.
SealMac(h) ==
    /\ turn = h
    /\ mainPc = "seal_mac"
    /\ ack_payload' = [ack_payload EXCEPT ![h].macOk = ~ macDirty]
    /\ macDirty' = FALSE
    /\ state' = [state EXCEPT ![h] = "new_key_payload_ready"]
    /\ Unlock(h)
    /\ UNCHANGED <<seed_index, key_id, new_key_id, ctxEnc, ctxMac, ctxDirty,
                   kbVars, linkVars, drawn, spent>>

\* An AES operation fails: the state stays new_key_ready and both steps are done
\* again, on a seed that is already encrypted when it was the MAC that failed.
SealFault(h) ==
    /\ turn = h
    /\ \/ mainPc = "seal" /\ UNCHANGED macDirty
       \/ mainPc = "seal_mac" /\ macDirty' = TRUE
    /\ Unlock(h)
    /\ Spend("sealFault")
    /\ UNCHANGED <<kbVars, linkVars, keyVars, drawn>>

\* A restart of the receiver: its memory and the host side of the link are
\* initialised again.  Bound: one more seed can still be drawn.
ReceiverReset ==
    /\ Spend("rcvReset")
    /\ drawn < MaxSeed
    /\ state' = [h \in Halves |-> "key_not_ready"]
    /\ seed_index' = [h \in Halves |-> 0]
    /\ key_id' = [h \in Halves |-> 0]
    /\ new_key_id' = [h \in Halves |-> 0]
    /\ ctxEnc' = [h \in Halves |-> FreshContexts]
    /\ ctxMac' = [h \in Halves |-> FreshContexts]
    /\ ctxDirty' = [h \in Halves |-> {}]
    /\ ack_payload' = [h \in Halves |-> NoAckPayload]
    /\ turn' \in Halves
    /\ mainPc' = "loop"
    /\ decrypting' = FALSE
    /\ macDirty' = FALSE
    /\ ackFifo' = [h \in Halves |-> <<>>]
    /\ rxFifo' = [h \in Halves |-> <<>>]
    /\ rxCalls' = [h \in Halves |-> 0]
    /\ stackPayload' = [h \in Halves |-> NoPacket]
    /\ UNCHANGED <<kbVars, txFifo, ackRx, drawn>>

-----------------------------------------------------------------------------
SendOn(h) ==
    \/ SendEncrypt(h) \/ SendEncryptSpoilt(h) \/ SendEncryptFault(h)
    \/ SendReadCounter(h) \/ SendStoreCounter(h)
    \/ SendMac(h) \/ SendMacSpoilt(h) \/ SendMacFault(h) \/ SendEnqueue(h)
SendData(h) == SendBegin(h) \/ SendOn(h)

TxSuccess(h) == AdoptSeed(h) \/ RejectAck(h) \/ AckFault(h) \/ AdoptFault(h)

RxReady(h) == Accept(h) \/ Reject(h) \/ Collide(h) \/ PacketFault(h)

UpdateRekeyState(h) ==
    \/ LoopIdle(h) \/ GatherByte(h) \/ GatherLast(h) \/ SkipZero(h)
    \/ RekeyBegin(h) \/ RekeyEnc(h) \/ RekeyMac(h) \/ RekeyFault(h)
    \/ SealBegin(h) \/ Seal(h) \/ SealMac(h) \/ SealFault(h)

Next ==
    \/ \E h \in Halves :
          \/ SendData(h) \/ TxSuccess(h) \/ KeyboardReset(h)
          \/ Exchange(h) \/ AckLost(h) \/ PacketLost(h)
          \/ RxReady(h) \/ UpdateRekeyState(h)
    \/ ReceiverReset

Spec == Init /\ [][Next]_vars
=============================================================================
