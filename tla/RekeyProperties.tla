-------------------------- MODULE RekeyProperties --------------------------
(***************************************************************************)
(* What the key rotation of module Rekey has to guarantee.                 *)
(***************************************************************************)
EXTENDS Rekey

Elements(s) == {s[i] : i \in 1..Len(s)}

\* The fields of the code and the variables of the model hold what they are made for.
FieldsOK ==
    /\ sendPc \in [Halves -> SendPcs]
    /\ clashed \in [Halves -> BOOLEAN]
    /\ kbKeyId \in [Halves -> KeyIds]
    /\ kbEnc \in [Halves -> Seeds]
    /\ kbMac \in [Halves -> Seeds]
    /\ kbCounter \in [Halves -> Counters]
    /\ kbDirty \in [Halves -> SUBSET HalfContexts]
    /\ data_payload \in [Halves -> Packets]
    /\ txFifo \in [Halves -> Seq(Packets)]
    /\ ackRx \in [Halves -> Seq(AckPayloads)]
    /\ ackFifo \in [Halves -> Seq(AckPayloads)]
    /\ rxFifo \in [Halves -> Seq(Packets)]
    /\ rxCalls \in [Halves -> Nat]
    /\ stackPayload \in [Halves -> Packets]
    /\ state \in [Halves -> States]
    /\ seed_index \in [Halves -> 0..(SeedLen - 1)]
    /\ key_id \in [Halves -> KeyIds]
    /\ new_key_id \in [Halves -> KeyIds]
    /\ ctxEnc \in [Halves -> [Slots -> Seeds]]
    /\ ctxMac \in [Halves -> [Slots -> Seeds]]
    /\ ctxDirty \in [Halves -> SUBSET Slots]
    /\ ack_payload \in [Halves -> AckPayloads]
    /\ turn \in Halves
    /\ mainPc \in MainPcs
    /\ decrypting \in BOOLEAN
    /\ macDirty \in BOOLEAN
    /\ drawn \in 0..MaxSeed
    /\ spent \in [Spendings -> Nat]

\* What Gazell keeps of a half, and what the environment has done, is within bounds.
LinkBounds(h) ==
    /\ Len(txFifo[h]) <= FifoCap /\ Len(ackRx[h]) <= FifoCap /\ Len(ackFifo[h]) <= FifoCap
    /\ Len(rxFifo[h]) <= RxCap /\ rxCalls[h] <= RxCap
SpendingsOK == \A what \in Spendings : spent[what] <= Budget[what]

\* The type of every variable of Rekey: ids and counters stay within their fields, the
\* FIFOs of Gazell within their capacity, the environment within its budgets.
TypeOK == FieldsOK /\ (\A h \in Halves : LinkBounds(h)) /\ SpendingsOK

\* Whenever the callback may look at the contexts (the lock is free), each holds
\* an encryption key and a MAC key derived from one seed: no packet is checked
\* with a context the main loop has half replaced (main.c:307-325, 438-443).
ContextsWhole ==
    spent.rekeyFault = 0 /\ ~ decrypting =>
        \A h \in Halves, i \in Slots : ctxEnc[h][i] = ctxMac[h][i]

\* The payload a callback may queue is complete: the seed encrypted, the MAC
\* over exactly what it holds, its id the next id, and the receiver already has
\* both keys of the context the half will use once it adopts it.
OfferWellFormed ==
    spent.sealFault = 0 =>
        \A h \in Halves : state[h] = "new_key_payload_ready" =>
            /\ ack_payload[h].sealed
            /\ ack_payload[h].macOk
            /\ ack_payload[h].id = new_key_id[h]
            /\ ctxEnc[h][Slot(new_key_id[h])] = ack_payload[h].seed
            /\ ctxMac[h][Slot(new_key_id[h])] = ack_payload[h].seed

\* Two ids of one parity share a context, so the receiver may derive the key
\* after next over an old one only when no copy of the old payload can reach
\* the half any more: whatever is queued or already on its way still matches.
\* The largest id and 1 are both odd, so the rule has this one exception.
OnLastId(h) == key_id[h] = KeyIdMod - 1

QueuedOffersCurrent ==
    spent.rcvReset = 0 /\ spent.sealFault = 0 =>
        \A h \in Halves : ~ OnLastId(h) =>
            \A a \in Elements(ackFifo[h]) \cup Elements(ackRx[h]) :
                /\ a.id \in {key_id[h], new_key_id[h]}
                /\ a.macOk /\ a.sealed
                /\ ctxEnc[h][Slot(a.id)] = a.seed
                /\ ctxMac[h][Slot(a.id)] = a.seed

\* As long as the receiver has not restarted and no derivation failed, it can
\* check what the half sends: the key in use on the half, and the key of every
\* packet on the air, is one the receiver still holds.  (The MAC that follows a
\* failed one is made with no key.)
Checkable(h, id, mac) == mac = ctxMac[h][Slot(id)]

KeyboardInStep ==
    spent.rcvReset = 0 /\ spent.sealFault = 0 /\ spent.rekeyFault = 0 =>
        \A h \in Halves : ~ OnLastId(h) =>
            /\ Checkable(h, kbKeyId[h], kbMac[h])
            /\ \A p \in Elements(txFifo[h]) \cup Elements(rxFifo[h]) :
                   p.macId = p.id /\ p.mac # NoSeed => Checkable(h, p.id, p.mac)

\* A packet the callback accepts, and that no acknowledgement callback has torn (by
\* coming inside the AES call of its encryption, or by changing the key before its
\* MAC was made; keyboard main.c:147-152, 370-384), decrypts with the receiver's
\* context and the counter it carries: the context is the half's own, and not one
\* that is being replaced.
Decrypts(h, p) ==
    /\ p.enc = ctxEnc[h][Slot(p.id)]
    /\ p.encCounter = p.counter

AcceptedPacketsDecrypt ==
    [][spent.rekeyFault = 0 =>
          \A h \in Halves : \A p \in Fetched(h) :
              AcceptPacket(h, p) /\ ~ p.torn => Decrypts(h, p)]_vars

\* The receiver moves to a key only after it has offered it and while the offer
\* stands; it never takes a packet under an old key for a confirmation.
ConfirmOnlyOffered ==
    [][\A h \in Halves :
          key_id'[h] # key_id[h] /\ key_id'[h] # 0
              => /\ state[h] = "new_key_payload_ready"
                 /\ key_id'[h] = ack_payload[h].id
                 /\ state'[h] = "key_not_ready"]_vars

-----------------------------------------------------------------------------
\* What runs by itself: a send_data that has begun is carried on, Gazell retries
\* until an exchange succeeds (losses are bounded by MaxLoss), interrupts are served,
\* the main loop spins and the random generator keeps producing bytes.  No half has
\* to begin a send_data: it stops its clocks when no key is pressed for long.
Fairness ==
    \A h \in Halves :
        /\ WF_vars(SendOn(h))
        /\ WF_vars(AdoptSeed(h) \/ RejectAck(h))
        /\ WF_vars(Exchange(h))
        /\ WF_vars(RxReady(h))
        /\ WF_vars(UpdateRekeyState(h))
        /\ SF_vars(GatherByte(h) \/ GatherLast(h))

FairSpec == Spec /\ Fairness

KeepsSending(h) == []<><<SendBegin(h)>>_vars

\* Whatever was lost, restarted or failed while deriving keys, the receiver goes
\* on accepting packets of a half that keeps sending: the two find a common key again.
\* (A half whose derivation failed waits for the next seed, and the bound on
\* seeds may allow no next one.)
OutOfSeeds(h) == drawn = MaxSeed /\ state[h] = "key_not_ready"

PacketsKeepArriving ==
    \A h \in Halves : KeepsSending(h) =>
        \/ []<><<Accept(h)>>_vars
        \/ <>[](OutOfSeeds(h) /\ spent.rekeyFault > 0)

\* A half on the hard-coded key that keeps sending leaves it once the receiver has a
\* payload for it.
\* (A packet still on its way when the half restarted may confirm that payload;
\* then the next one counts, unless the bound on seeds allows no next one.)
LeavesInitialKey ==
    \A h \in Halves : KeepsSending(h) =>
        (kbKeyId[h] = 0 /\ state[h] = "new_key_payload_ready"
             ~> kbKeyId[h] # 0 \/ OutOfSeeds(h))

-----------------------------------------------------------------------------
\* Statements of comments in the source that the code does not keep.

\* main.c:450 "This is a valid message from the keyboard; decrypt it.": a packet
\* whose MAC matches decrypts to what the half encrypted.
ValidMessageDecrypts ==
    \A h \in Halves : \A p \in Elements(rxFifo[h]) :
        ~ decrypting /\ Verifies(h, p) => Decrypts(h, p)

\* main.c:64 "Encrypted and MAC'd material for rekeying.": what the receiver
\* takes for a payload ready to be sent is encrypted and MAC'd.
ReadyPayloadSealed ==
    \A h \in Halves : state[h] = "new_key_payload_ready" =>
        ack_payload[h].sealed /\ ack_payload[h].macOk

\* main.c:76 "Key id for the current cryptographic keys and contexts.": a half that
\* uses the current key, as the receiver gave it, is understood.
CurrentContextKept ==
    spent.rcvReset = 0 /\ spent.sealFault = 0 /\ spent.rekeyFault = 0 =>
        \A h \in Halves :
            kbKeyId[h] = key_id[h] => Checkable(h, kbKeyId[h], kbMac[h])
=============================================================================
