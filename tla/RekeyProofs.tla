---------------------------- MODULE RekeyProofs ----------------------------
(***************************************************************************)
(* Proofs that the safety properties of the key rotation hold for every    *)
(* number of halves, every FIFO size and every bound on seeds, losses,     *)
(* restarts and AES failures.                                              *)
(***************************************************************************)
EXTENDS RekeyInvariants, SequenceTheorems, TLAPS

-----------------------------------------------------------------------------
(* Operators of the model stay within their types.                         *)

\* The ids and slots the receiver computes are ids and slots; the slot of a
\* generated key is never the slot of the hard-coded one.
LEMMA IdLemma ==
    ASSUME NEW id \in KeyIds
    PROVE  /\ NextKeyId(id) \in KeyIds
           /\ SkippingZero(id) \in KeyIds \ {0}
           /\ GeneratedSlot(id) \in {1, 2}
           /\ Slot(id) \in Slots
           /\ id # 0 => Slot(id) = GeneratedSlot(id)
  BY KeyIdAssumption
     DEF KeyIds, NextKeyId, SkippingZero, GeneratedSlot, Slot, Slots

\* The main loop turns to a half that exists.
LEMMA OtherLemma ==
    ASSUME NEW h \in Halves
    PROVE  Other(h) \in Halves
  BY DEF Other

\* Saturating counters and half written contexts stay counters and seeds.
LEMMA ValueLemma ==
    /\ \A c \in Counters : NextCounter(c) \in Counters
    /\ \A s, t \in Seeds : Mixed(s, t) \in Seeds
    /\ \A a \in AckPayloads : DecryptedSeed(a) \in Seeds
    /\ NoPacket \in Packets
    /\ NoAckPayload \in AckPayloads
    /\ FreshContexts \in [Slots -> Seeds]
  BY BoundsAssumption, KeyIdAssumption
     DEF Counters, NextCounter, Seeds, Mixed, AckPayloads, DecryptedSeed, NoSeed,
         NoPacket, Packets, NoAckPayload, FreshContexts, Slots, KeyIds

\* Reading and shortening a FIFO, and lengthening it, keeps its element type.
LEMMA FifoLemma ==
    ASSUME NEW S, NEW s \in Seq(S)
    PROVE  /\ s # <<>> => Head(s) \in S /\ Tail(s) \in Seq(S)
           /\ \A e \in S : Append(s, e) \in Seq(S)
           /\ <<>> \in Seq(S)
  BY HeadTailProperties, AppendProperties

LEMMA FifosLemma ==
    ASSUME NEW S, NEW f \in [Halves -> Seq(S)], NEW h \in Halves
    PROVE  /\ f[h] # <<>> => Head(f[h]) \in S
           /\ f[h] # <<>> => [f EXCEPT ![h] = Tail(@)] \in [Halves -> Seq(S)]
           /\ \A e \in S : [f EXCEPT ![h] = Append(@, e)] \in [Halves -> Seq(S)]
  <1>1. f[h] \in Seq(S)
    OBVIOUS
  <1> QED
    BY <1>1, FifoLemma

\* Updating fields of a packet or of a payload leaves a packet or a payload.
LEMMA PacketLemma ==
    ASSUME NEW p \in Packets
    PROVE  /\ \A id \in KeyIds : [p EXCEPT !.id = id] \in Packets
           /\ \A s \in Seeds, c \in Counters :
                  [p EXCEPT !.enc = s, !.encCounter = c] \in Packets
           /\ \A c \in Counters : [p EXCEPT !.counter = c] \in Packets
           /\ \A s \in Seeds, id \in KeyIds :
                  [p EXCEPT !.mac = s, !.macId = id] \in Packets
           /\ \A b \in BOOLEAN : [p EXCEPT !.torn = b] \in Packets
           /\ p.counter \in Counters /\ p.torn \in BOOLEAN /\ p.id \in KeyIds
  <1>1. p = [id |-> p.id, counter |-> p.counter, enc |-> p.enc,
             encCounter |-> p.encCounter, mac |-> p.mac, macId |-> p.macId,
             torn |-> p.torn]
    BY DEF Packets
  <1> QED
    BY <1>1 DEF Packets

LEMMA AckPayloadLemma ==
    ASSUME NEW a \in AckPayloads
    PROVE  /\ \A s \in Seeds :
                  [a EXCEPT !.seed = s, !.sealed = FALSE, !.macOk = FALSE] \in AckPayloads
           /\ \A id \in KeyIds : [a EXCEPT !.id = id] \in AckPayloads
           /\ [a EXCEPT !.sealed = ~ @] \in AckPayloads
           /\ \A b \in BOOLEAN : [a EXCEPT !.macOk = b] \in AckPayloads
  <1>1. a = [seed |-> a.seed, sealed |-> a.sealed, id |-> a.id, macOk |-> a.macOk]
    BY DEF AckPayloads
  <1> QED
    BY <1>1 DEF AckPayloads

\* Marking or clearing a context leaves a set of contexts.
LEMMA DirtyLemma ==
    ASSUME NEW S, NEW f \in [Halves -> SUBSET S], NEW h \in Halves, NEW x \in S
    PROVE  /\ [f EXCEPT ![h] = @ \cup {x}] \in [Halves -> SUBSET S]
           /\ [f EXCEPT ![h] = @ \ {x}] \in [Halves -> SUBSET S]
  <1>1. f[h] \cup {x} \in SUBSET S /\ f[h] \ {x} \in SUBSET S
    OBVIOUS
  <1> QED
    BY <1>1

\* Spending one budget counts it and leaves the others alone.
LEMMA SpendLemma ==
    ASSUME spent \in [Spendings -> Nat], NEW what \in Spendings, Spend(what)
    PROVE  /\ spent' \in [Spendings -> Nat]
           /\ spent'[what] > 0
           /\ \A other \in Spendings \ {what} : spent'[other] = spent[other]
  BY DEF Spend

-----------------------------------------------------------------------------
(* Type correctness.                                                       *)

LEMMA FieldsInit == Init => FieldsOK
  <1> SUFFICES ASSUME Init PROVE FieldsOK
    OBVIOUS
  <1> USE DEF Init, InitKeyboards, InitLink, InitReceiver
  <1>1. 0 \in KeyIds /\ 0 \in Seeds /\ 0 \in Counters /\ 0 \in 0..(SeedLen - 1)
    BY KeyIdAssumption, BoundsAssumption, SizesAssumption DEF KeyIds, Seeds, Counters
  <1>2. <<>> \in Seq(Packets) /\ <<>> \in Seq(AckPayloads)
    OBVIOUS
  <1>3. "idle" \in SendPcs /\ "key_not_ready" \in States /\ "loop" \in MainPcs
    BY DEF SendPcs, States, MainPcs
  <1>4. drawn \in 0..MaxSeed
    BY BoundsAssumption
  <1> QED
    BY <1>1, <1>2, <1>3, <1>4, ValueLemma DEF FieldsOK

LEMMA FieldsSend ==
    ASSUME FieldsOK, NEW h \in Halves, SendData(h)
    PROVE  FieldsOK'
  <1> USE DEF linkVars, keyVars, mainVars, FieldsOK
  <1>0. NoSeed \in Seeds /\ "crypto" \in HalfContexts
    BY DEF Seeds, HalfContexts
  <1>1. CASE SendBegin(h)
    <2>1. data_payload' \in [Halves -> Packets]
      BY <1>1, PacketLemma DEF SendBegin
    <2> QED
      BY <1>1, <2>1 DEF SendBegin, NoClash, SendPcs
  <1>2. ASSUME NEW s \in Seeds, EncryptedWith(h, s), spent' \in [Spendings -> Nat]
        PROVE  FieldsOK'
    <2>1. data_payload' \in [Halves -> Packets]
      BY <1>2, PacketLemma DEF EncryptedWith
    <2> QED
      BY <1>2, <2>1 DEF EncryptedWith, NoClash, SendPcs
  <1>3. CASE SendReadCounter(h)
    <2>1. data_payload' \in [Halves -> Packets]
      BY <1>3, PacketLemma DEF SendReadCounter
    <2> QED
      BY <1>3, <2>1 DEF SendReadCounter, SendPcs
  <1>4. CASE SendStoreCounter(h)
    <2>1. data_payload[h].counter \in Counters
      BY DEF Packets
    <2> QED
      BY <1>4, <2>1, ValueLemma DEF SendStoreCounter, SendPcs
  <1>5. ASSUME NEW s \in Seeds, MacedWith(h, s), spent' \in [Spendings -> Nat]
        PROVE  FieldsOK'
    <2>1. data_payload' \in [Halves -> Packets]
      BY <1>5, PacketLemma DEF MacedWith
    <2> QED
      BY <1>5, <2>1 DEF MacedWith, NoClash, SendPcs
  <1>6. CASE SendEnqueue(h)
    <2>1. [data_payload[h] EXCEPT !.id = kbKeyId[h]] \in Packets
      BY PacketLemma
    <2>2. txFifo' \in [Halves -> Seq(Packets)]
      BY <1>6, <2>1, FifoLemma DEF SendEnqueue
    <2> QED
      BY <1>6, <2>2, ValueLemma DEF SendEnqueue, SendPcs
  <1>7. SentMac(h) \in Seeds
    BY <1>0 DEF SentMac
  <1>8. ASSUME Spend("packetFault")
        PROVE  spent' \in [Spendings -> Nat]
    BY <1>8, SpendLemma DEF Spendings
  <1>9. CASE SendEncrypt(h) \/ SendEncryptSpoilt(h)
    BY <1>0, <1>2, <1>8, <1>9 DEF SendEncrypt, SendEncryptSpoilt
  <1>10. CASE SendMac(h) \/ SendMacSpoilt(h)
    BY <1>0, <1>5, <1>7, <1>8, <1>10 DEF SendMac, SendMacSpoilt
  <1>11. CASE SendEncryptFault(h)
    BY <1>8, <1>11, ValueLemma DEF SendEncryptFault, NoClash, SendPcs
  <1>12. CASE SendMacFault(h)
    <2>1. [kbDirty EXCEPT ![h] = @ \cup {"crypto"}] \in [Halves -> SUBSET HalfContexts]
      BY <1>0, DirtyLemma
    <2>2. kbDirty' \in [Halves -> SUBSET HalfContexts]
      BY <1>12, <2>1 DEF SendMacFault
    <2> QED
      BY <1>8, <1>12, <2>2, ValueLemma DEF SendMacFault, NoClash, SendPcs
  <1> QED
    BY <1>1, <1>3, <1>4, <1>6, <1>9, <1>10, <1>11, <1>12 DEF SendData, SendOn

LEMMA FieldsTxSuccess ==
    ASSUME FieldsOK, NEW h \in Halves, TxSuccess(h)
    PROVE  FieldsOK'
  <1> USE DEF linkVars, keyVars, mainVars, FieldsOK
  <1> DEFINE a == Head(ackRx[h])
  <1>1. FetchAck(h)
    BY DEF TxSuccess, AdoptSeed, RejectAck, AckFault, AdoptFault
  <1>2. a \in AckPayloads /\ ackRx' \in [Halves -> Seq(AckPayloads)]
    BY <1>1, FifoLemma DEF FetchAck
  <1>3. a.id \in KeyIds /\ DecryptedSeed(a) \in Seeds
    BY <1>2, ValueLemma DEF AckPayloads
  <1>4. \A b \in BOOLEAN :
            [data_payload EXCEPT ![h].torn = b] \in [Halves -> Packets]
    BY PacketLemma
  <1>5. /\ (data_payload[h].torn \/ KeyTears(h)) \in BOOLEAN
        /\ (data_payload[h].torn \/ CallTears(h)) \in BOOLEAN
        /\ clashed' \in [Halves -> BOOLEAN]
    BY <1>1, PacketLemma DEF KeyTears, CallTears, FetchAck
  <1>6. 0 \in Counters
    BY BoundsAssumption DEF Counters
  <1>7. CASE AdoptSeed(h)
    <2>1. data_payload' \in [Halves -> Packets]
      BY <1>7, <1>4, <1>5 DEF AdoptSeed, Torn
    <2> HIDE DEF a
    <2> QED
      BY <1>1, <1>2, <1>3, <1>5, <1>6, <1>7, <2>1 DEF AdoptSeed, FetchAck, a
  <1>8. CASE RejectAck(h)
    <2>1. data_payload' \in [Halves -> Packets]
      BY <1>8, <1>4, <1>5 DEF RejectAck, Torn
    <2> QED
      BY <1>1, <1>2, <1>5, <1>8, <2>1 DEF RejectAck, FetchAck
  <1>9. CASE AdoptFault(h)
    <2>1. data_payload' \in [Halves -> Packets]
      BY <1>9, <1>4, <1>5 DEF AdoptFault, Torn
    <2>2. Mixed(kbEnc[h], DecryptedSeed(a)) \in Seeds
          /\ Mixed(kbMac[h], DecryptedSeed(a)) \in Seeds
      BY <1>3, ValueLemma
    <2>3. kbKeyId' \in [Halves -> KeyIds]
      BY <1>3, <1>9 DEF AdoptFault
    <2>4. kbEnc' \in [Halves -> Seeds]
      BY <1>3, <1>9, <2>2 DEF AdoptFault
    <2>5. kbMac' \in [Halves -> Seeds]
      BY <1>3, <1>9, <2>2 DEF AdoptFault
    <2>6. kbCounter' \in [Halves -> Counters]
      BY <1>6, <1>9 DEF AdoptFault
    <2>7. spent' \in [Spendings -> Nat]
      <3>1. Spend("rekeyFault") /\ "rekeyFault" \in Spendings
        BY <1>9 DEF AdoptFault, Spendings
      <3> QED
        BY <3>1, SpendLemma
    <2>8. kbDirty' \in [Halves -> SUBSET HalfContexts]
      <3>1. kbDirty' = kbDirty \/ kbDirty' = [kbDirty EXCEPT ![h] = @ \ {"crypto"}]
        BY <1>9 DEF AdoptFault
      <3>2. "crypto" \in HalfContexts
        BY DEF HalfContexts
      <3>3. [kbDirty EXCEPT ![h] = @ \ {"crypto"}] \in [Halves -> SUBSET HalfContexts]
        BY <3>2, DirtyLemma
      <3> QED
        BY <3>1, <3>3
    <2> QED
      BY <1>1, <1>2, <1>5, <2>1, <2>3, <2>4, <2>5, <2>6, <2>7, <2>8 DEF FetchAck
  <1>10. CASE AckFault(h)
    <2>1. spent' \in [Spendings -> Nat]
      BY <1>10, SpendLemma DEF AckFault, Spendings
    <2>2. kbDirty' \in [Halves -> SUBSET HalfContexts]
      <3>1. \/ kbDirty' = [kbDirty EXCEPT ![h] = @ \ {"receiver_crypto"}]
            \/ kbDirty' = [kbDirty EXCEPT ![h] = @ \cup {"receiver_crypto"}]
        BY <1>10 DEF AckFault
      <3>2. "receiver_crypto" \in HalfContexts
        BY DEF HalfContexts
      <3>3. /\ [kbDirty EXCEPT ![h] = @ \cup {"receiver_crypto"}]
                    \in [Halves -> SUBSET HalfContexts]
            /\ [kbDirty EXCEPT ![h] = @ \ {"receiver_crypto"}]
                    \in [Halves -> SUBSET HalfContexts]
        BY <3>2, DirtyLemma
      <3> QED
        BY <3>1, <3>3
    <2>3. data_payload' \in [Halves -> Packets]
      BY <1>10, <1>4, <1>5 DEF AckFault, Torn
    <2> QED
      BY <1>1, <1>2, <1>5, <1>10, <2>1, <2>2, <2>3 DEF AckFault, FetchAck
  <1> QED
    BY <1>7, <1>8, <1>9, <1>10 DEF TxSuccess

LEMMA FieldsKeyboardReset ==
    ASSUME FieldsOK, NEW h \in Halves, KeyboardReset(h)
    PROVE  FieldsOK'
  <1> USE DEF keyVars, mainVars, FieldsOK
  <1>1. 0 \in KeyIds /\ 0 \in Seeds /\ 0 \in Counters /\ "idle" \in SendPcs
    BY KeyIdAssumption, BoundsAssumption DEF KeyIds, Seeds, Counters, SendPcs
  <1>2. spent' \in [Spendings -> Nat]
    BY SpendLemma DEF KeyboardReset, Spendings
  <1> QED
    BY <1>1, <1>2, ValueLemma DEF KeyboardReset, NoClash

LEMMA FieldsLink ==
    ASSUME FieldsOK, NEW h \in Halves, Exchange(h) \/ AckLost(h) \/ PacketLost(h)
    PROVE  FieldsOK'
  <1> USE DEF kbVars, keyVars, mainVars, FieldsOK
  <1>1. ASSUME HostReceives(h)
        PROVE  /\ rxFifo' \in [Halves -> Seq(Packets)]
               /\ rxCalls' \in [Halves -> Nat]
               /\ txFifo' \in [Halves -> Seq(Packets)]
    <2>1. rxFifo' \in [Halves -> Seq(Packets)]
      <3>1. txFifo[h] # <<>> /\ rxFifo' = [rxFifo EXCEPT ![h] = Append(@, Head(txFifo[h]))]
        BY <1>1 DEF HostReceives
      <3>2. Head(txFifo[h]) \in Packets
        BY <3>1, FifosLemma
      <3> QED
        BY <3>1, <3>2, FifosLemma
    <2>2. rxCalls' \in [Halves -> Nat]
      BY <1>1 DEF HostReceives
    <2>3. txFifo' \in [Halves -> Seq(Packets)]
      <3>1. txFifo[h] # <<>> /\ txFifo' = [txFifo EXCEPT ![h] = Tail(@)]
        BY <1>1 DEF HostReceives
      <3> QED
        BY <3>1, FifosLemma
    <2> QED
      BY <2>1, <2>2, <2>3
  <1>2. CASE Exchange(h)
    <2>1. /\ ackRx' \in [Halves -> Seq(AckPayloads)]
          /\ ackFifo' \in [Halves -> Seq(AckPayloads)]
      <3>1. CASE ackFifo[h] = <<>>
        BY <1>2, <3>1 DEF Exchange
      <3>2. CASE ackFifo[h] # <<>>
        <4>1. Head(ackFifo[h]) \in AckPayloads
          BY <3>2, FifosLemma
        <4>2. [ackRx EXCEPT ![h] = Append(@, Head(ackFifo[h]))]
                  \in [Halves -> Seq(AckPayloads)]
          BY <4>1, FifosLemma
        <4>3. [ackFifo EXCEPT ![h] = Tail(@)] \in [Halves -> Seq(AckPayloads)]
          BY <3>2, FifosLemma
        <4> QED
          BY <1>2, <3>2, <4>2, <4>3 DEF Exchange
      <3> QED
        BY <3>1, <3>2
    <2> QED
      BY <1>1, <1>2, <2>1 DEF Exchange
  <1>3. CASE AckLost(h)
    <2>1. ackFifo' \in [Halves -> Seq(AckPayloads)]
      <3>1. ackFifo[h] # <<>> =>
                [ackFifo EXCEPT ![h] = Tail(@)] \in [Halves -> Seq(AckPayloads)]
        BY FifosLemma
      <3> QED
        BY <1>3, <3>1 DEF AckLost
    <2>2. spent' \in [Spendings -> Nat]
      BY <1>3, SpendLemma DEF AckLost, Spendings
    <2> QED
      BY <1>1, <1>3, <2>1, <2>2 DEF AckLost
  <1>4. CASE PacketLost(h)
    <2>1. txFifo' \in [Halves -> Seq(Packets)]
      BY <1>4, FifoLemma DEF PacketLost
    <2>2. spent' \in [Spendings -> Nat]
      BY <1>4, SpendLemma DEF PacketLost, Spendings
    <2> QED
      BY <1>4, <2>1, <2>2 DEF PacketLost
  <1> QED
    BY <1>2, <1>3, <1>4

\* Whatever the callback finds, it is a packet, and an offer is a payload.
LEMMA FetchedLemma ==
    ASSUME FieldsOK, NEW h \in Halves, NEW p \in Fetched(h)
    PROVE  p \in Packets
  BY FifoLemma, ValueLemma DEF Fetched, FieldsOK

LEMMA OfferLemma ==
    ASSUME FieldsOK, NEW h \in Halves, Offer(h) \/ UNCHANGED ackFifo
    PROVE  ackFifo' \in [Halves -> Seq(AckPayloads)]
  <1>1. [ackFifo EXCEPT ![h] = Append(@, ack_payload[h])] \in [Halves -> Seq(AckPayloads)]
    <2>1. ack_payload[h] \in AckPayloads /\ ackFifo \in [Halves -> Seq(AckPayloads)]
      BY DEF FieldsOK
    <2> QED
      BY <2>1, FifosLemma
  <1> QED
    BY <1>1 DEF Offer, FieldsOK

LEMMA FieldsRxReady ==
    ASSUME FieldsOK, NEW h \in Halves, RxReady(h)
    PROVE  FieldsOK'
  <1> USE DEF keyVars
  <1> PICK p \in Fetched(h) :
          \/ AcceptPacket(h, p) \/ RejectPacket(h, p) \/ CollidePacket(h, p)
          \/ CheckFault(h, p) \/ DecryptFault(h, p)
    BY DEF RxReady, Accept, Reject, Collide, PacketFault
  <1>1. FetchPacket(h, p)
    BY DEF AcceptPacket, RejectPacket, CollidePacket, CheckFault, DecryptFault
  <1>2. p \in Packets /\ NoPacket \in Packets
    BY FetchedLemma, ValueLemma
  <1>3. /\ rxCalls' \in [Halves -> Nat]
        /\ rxFifo' \in [Halves -> Seq(Packets)]
        /\ stackPayload' \in [Halves -> Packets]
    BY <1>1, <1>2, FifoLemma DEF FetchPacket, FieldsOK
  <1>4. ackFifo' \in [Halves -> Seq(AckPayloads)]
    <2>1. Offer(h) \/ UNCHANGED ackFifo
      BY DEF AcceptPacket, RejectPacket, CollidePacket, CheckFault, DecryptFault
    <2> QED
      BY <2>1, OfferLemma
  <1>5. /\ key_id' \in [Halves -> KeyIds]
        /\ state' \in [Halves -> States]
    BY DEF AcceptPacket, RejectPacket, CollidePacket, CheckFault, DecryptFault,
           FieldsOK, States
  <1>6. ctxDirty' \in [Halves -> SUBSET Slots]
    <2>1. Slot(p.id) \in Slots
      BY <1>2, PacketLemma, IdLemma
    <2>2. \/ UNCHANGED ctxDirty
          \/ ctxDirty' = [ctxDirty EXCEPT ![h] = @ \cup {Slot(p.id)}]
          \/ ctxDirty' = [ctxDirty EXCEPT ![h] = @ \ {Slot(p.id)}]
      BY DEF AcceptPacket, RejectPacket, CollidePacket, CheckFault, DecryptFault
    <2>3. /\ [ctxDirty EXCEPT ![h] = @ \cup {Slot(p.id)}] \in [Halves -> SUBSET Slots]
          /\ [ctxDirty EXCEPT ![h] = @ \ {Slot(p.id)}] \in [Halves -> SUBSET Slots]
      BY <2>1, DirtyLemma DEF FieldsOK
    <2> QED
      BY <2>2, <2>3 DEF FieldsOK
  <1>7. spent' \in [Spendings -> Nat]
    <2>1. UNCHANGED spent \/ Spend("packetFault")
      BY DEF AcceptPacket, RejectPacket, CollidePacket, CheckFault, DecryptFault
    <2> QED
      BY <2>1, SpendLemma DEF FieldsOK, Spendings
  <1>8. UNCHANGED <<txFifo, ackRx, kbVars, seed_index, new_key_id, ctxEnc, ctxMac,
                    ack_payload, mainVars, drawn>>
    BY DEF AcceptPacket, RejectPacket, CollidePacket, CheckFault, DecryptFault
  <1> QED
    BY <1>3, <1>4, <1>5, <1>6, <1>7, <1>8 DEF FieldsOK, kbVars, mainVars

LEMMA FieldsUpdateRekeyState ==
    ASSUME FieldsOK, NEW h \in Halves, UpdateRekeyState(h)
    PROVE  FieldsOK'
  <1> USE DEF FieldsOK, kbVars, linkVars, keyVars
  <1>1. Other(h) \in Halves
    BY OtherLemma
  <1>2. /\ NextKeyId(key_id[h]) \in KeyIds
        /\ SkippingZero(NextKeyId(key_id[h])) \in KeyIds
        /\ 0 \in KeyIds
    <2>1. NextKeyId(key_id[h]) \in KeyIds
      BY IdLemma
    <2>2. SkippingZero(NextKeyId(key_id[h])) \in KeyIds
      BY <2>1, IdLemma
    <2>3. 0 \in KeyIds
      BY KeyIdAssumption DEF KeyIds
    <2> QED
      BY <2>1, <2>2, <2>3
  <1>3. GeneratedSlot(new_key_id[h]) \in Slots /\ ack_payload[h].seed \in Seeds
    BY IdLemma DEF Slots, AckPayloads
  <1>4. ASSUME NEW s \in Seeds, NEW i \in Slots
        PROVE  /\ [ctxEnc EXCEPT ![h][i] = s] \in [Halves -> [Slots -> Seeds]]
               /\ [ctxMac EXCEPT ![h][i] = s] \in [Halves -> [Slots -> Seeds]]
    OBVIOUS
  <1>5. CASE LoopIdle(h)
    BY <1>1, <1>5 DEF LoopIdle, NextTurn, MainPcs
  <1>6. CASE GatherByte(h)
    <2>1. seed_index' \in [Halves -> 0..(SeedLen - 1)]
      BY <1>6, SizesAssumption DEF GatherByte
    <2> QED
      BY <1>1, <1>6, <2>1 DEF GatherByte, NextTurn, MainPcs
  <1>7. CASE GatherLast(h)
    <2>1. drawn' \in 0..MaxSeed /\ drawn + 1 \in Seeds /\ 0 \in 0..(SeedLen - 1)
      <3>1. MaxSeed \in Nat /\ drawn < MaxSeed /\ drawn' = drawn + 1
        BY <1>7, BoundsAssumption DEF GatherLast
      <3> QED
        BY <3>1, SizesAssumption DEF Seeds
    <2>2. ack_payload' \in [Halves -> AckPayloads]
      BY <1>7, <2>1, AckPayloadLemma DEF GatherLast
    <2>3. turn' \in Halves /\ mainPc' \in MainPcs
      BY <1>1, <1>7 DEF GatherLast, NextTurn, MainPcs
    <2>4. new_key_id' \in [Halves -> KeyIds]
      BY <1>2, <1>7 DEF GatherLast
    <2>5. seed_index' \in [Halves -> 0..(SeedLen - 1)] /\ state' \in [Halves -> States]
      BY <1>7, <2>1 DEF GatherLast, States
    <2> QED
      BY <1>7, <2>1, <2>2, <2>3, <2>4, <2>5 DEF GatherLast
  <1>8. CASE SkipZero(h)
    <2>1. SkippingZero(new_key_id[h]) \in KeyIds
      BY IdLemma DEF FieldsOK
    <2> QED
      BY <1>1, <1>2, <1>8, <2>1 DEF SkipZero, NextTurn, MainPcs
  <1>9. CASE RekeyBegin(h)
    BY <1>9 DEF RekeyBegin, Lock, MainPcs, Critical
  <1>10. CASE RekeyEnc(h)
    BY <1>3, <1>4, <1>10 DEF RekeyEnc, MainPcs, Critical
  <1>11. CASE RekeyMac(h)
    BY <1>1, <1>3, <1>4, <1>11 DEF RekeyMac, Unlock, NextTurn, MainPcs, States
  <1>12. CASE RekeyFault(h)
    <2> DEFINE i == GeneratedSlot(new_key_id[h])
    <2>1. /\ Mixed(ctxEnc[h][i], ack_payload[h].seed) \in Seeds
          /\ Mixed(ctxMac[h][i], ack_payload[h].seed) \in Seeds
      BY <1>3, ValueLemma
    <2>2. /\ ctxEnc' \in [Halves -> [Slots -> Seeds]]
          /\ ctxMac' \in [Halves -> [Slots -> Seeds]]
      <3>1. /\ [ctxEnc EXCEPT ![h][i] = Mixed(@, ack_payload[h].seed)]
                   \in [Halves -> [Slots -> Seeds]]
            /\ [ctxMac EXCEPT ![h][i] = Mixed(@, ack_payload[h].seed)]
                   \in [Halves -> [Slots -> Seeds]]
        BY <1>3, <2>1
      <3> QED
        BY <1>12, <3>1 DEF RekeyFault
    <2>3. ctxDirty' \in [Halves -> SUBSET Slots]
      <3>1. UNCHANGED ctxDirty \/ ctxDirty' = [ctxDirty EXCEPT ![h] = @ \ {i}]
        BY <1>12 DEF RekeyFault
      <3>2. [ctxDirty EXCEPT ![h] = @ \ {i}] \in [Halves -> SUBSET Slots]
        BY <1>3, DirtyLemma
      <3> QED
        BY <3>1, <3>2
    <2>4. spent' \in [Spendings -> Nat]
      BY <1>12, SpendLemma DEF RekeyFault, Spendings
    <2> QED
      BY <1>1, <1>12, <2>2, <2>3, <2>4 DEF RekeyFault, Unlock, NextTurn, MainPcs
  <1>13. CASE SealBegin(h)
    <2>1. ack_payload' \in [Halves -> AckPayloads]
      BY <1>13, AckPayloadLemma DEF SealBegin
    <2> QED
      BY <1>13, <2>1 DEF SealBegin, Lock, MainPcs, Critical
  <1>14. CASE Seal(h)
    <2>1. ack_payload' \in [Halves -> AckPayloads]
      BY <1>14, AckPayloadLemma DEF Seal
    <2> QED
      BY <1>14, <2>1 DEF Seal, MainPcs, Critical
  <1>15. CASE SealMac(h)
    <2>1. ack_payload' \in [Halves -> AckPayloads]
      BY <1>15, AckPayloadLemma DEF SealMac
    <2> QED
      BY <1>1, <1>15, <2>1 DEF SealMac, Unlock, NextTurn, MainPcs, States
  <1>16. CASE SealFault(h)
    <2>1. spent' \in [Spendings -> Nat]
      BY <1>16, SpendLemma DEF SealFault, Spendings
    <2> QED
      BY <1>1, <1>16, <2>1 DEF SealFault, Unlock, NextTurn, MainPcs
  <1> QED
    BY <1>5, <1>6, <1>7, <1>8, <1>9, <1>10, <1>11, <1>12, <1>13, <1>14, <1>15, <1>16
       DEF UpdateRekeyState

LEMMA FieldsReceiverReset ==
    ASSUME FieldsOK, ReceiverReset
    PROVE  FieldsOK'
  <1> USE DEF FieldsOK, kbVars
  <1>1. 0 \in KeyIds /\ 0 \in 0..(SeedLen - 1)
    BY KeyIdAssumption, SizesAssumption DEF KeyIds
  <1>2. "key_not_ready" \in States /\ "loop" \in MainPcs
    BY DEF States, MainPcs
  <1>3. spent' \in [Spendings -> Nat]
    BY SpendLemma DEF ReceiverReset, Spendings
  <1>4. <<>> \in Seq(Packets) /\ <<>> \in Seq(AckPayloads)
    OBVIOUS
  <1> QED
    BY <1>1, <1>2, <1>3, <1>4, ValueLemma DEF ReceiverReset

LEMMA FieldsStep == FieldsOK /\ [Next]_vars => FieldsOK'
  <1> SUFFICES ASSUME FieldsOK, [Next]_vars PROVE FieldsOK'
    OBVIOUS
  <1>1. CASE UNCHANGED vars
    BY <1>1 DEF FieldsOK, vars, kbVars, linkVars, keyVars, mainVars
  <1>2. CASE ReceiverReset
    BY <1>2, FieldsReceiverReset
  <1>3. ASSUME NEW h \in Halves,
               \/ SendData(h) \/ TxSuccess(h) \/ KeyboardReset(h)
               \/ Exchange(h) \/ AckLost(h) \/ PacketLost(h)
               \/ RxReady(h) \/ UpdateRekeyState(h)
        PROVE  FieldsOK'
    BY <1>3, FieldsSend, FieldsTxSuccess, FieldsKeyboardReset, FieldsLink, FieldsRxReady,
       FieldsUpdateRekeyState
  <1> QED
    BY <1>1, <1>2, <1>3 DEF Next

\* A FIFO that is shortened, emptied, or lengthened while it has room keeps its bound.
LEMMA BoundLemma ==
    ASSUME NEW S, NEW f \in [Halves -> Seq(S)], NEW h \in Halves, NEW g \in Halves,
           NEW cap \in Nat, Len(f[g]) <= cap
    PROVE  /\ f[h] # <<>> => Len([f EXCEPT ![h] = Tail(@)][g]) <= cap
           /\ Len([f EXCEPT ![h] = <<>>][g]) <= cap
           /\ \A e \in S : Len(f[h]) < cap
                  => Len([f EXCEPT ![h] = Append(@, e)][g]) <= cap
  <1>1. f[h] \in Seq(S) /\ f[g] \in Seq(S) /\ Len(f[h]) \in Nat /\ Len(f[g]) \in Nat
    BY LenProperties
  <1>2. Len(<<>>) = 0
    BY EmptySeq
  <1>3. f[h] # <<>> => Len(Tail(f[h])) = Len(f[h]) - 1
    BY <1>1, HeadTailProperties
  <1>4. \A e \in S : Len(Append(f[h], e)) = Len(f[h]) + 1
    BY <1>1, AppendProperties
  <1>5. CASE g = h
    BY <1>1, <1>2, <1>3, <1>4, <1>5
  <1>6. CASE g # h
    BY <1>6
  <1> QED
    BY <1>5, <1>6

\* The steps that touch what Gazell keeps leave it within its capacity.
LEMMA LinkStep ==
    ASSUME FieldsOK, NEW g \in Halves, LinkBounds(g), [Next]_vars
    PROVE  LinkBounds(g)'
  <1> USE DEF FieldsOK
  <1>0. FifoCap \in Nat /\ RxCap \in Nat
    BY SizesAssumption
  <1>1. CASE UNCHANGED linkVars
    BY <1>1 DEF LinkBounds, linkVars
  <1>2. CASE ReceiverReset
    BY <1>0, <1>2, EmptySeq DEF ReceiverReset, LinkBounds
  <1>3. ASSUME NEW h \in Halves, SendEnqueue(h)
        PROVE  LinkBounds(g)'
    <2>1. [data_payload[h] EXCEPT !.id = kbKeyId[h]] \in Packets
      BY PacketLemma
    <2>2. Len(txFifo'[g]) <= FifoCap
      BY <1>0, <1>3, <2>1, BoundLemma DEF SendEnqueue, LinkBounds
    <2> QED
      BY <1>3, <2>2 DEF SendEnqueue, LinkBounds
  <1>4. ASSUME NEW h \in Halves, FetchAck(h)
        PROVE  LinkBounds(g)'
    <2>1. Len(ackRx'[g]) <= FifoCap
      BY <1>0, <1>4, BoundLemma DEF FetchAck, LinkBounds
    <2> QED
      BY <1>4, <2>1 DEF FetchAck, LinkBounds
  <1>5. ASSUME NEW h \in Halves, KeyboardReset(h)
        PROVE  LinkBounds(g)'
    <2>1. Len(ackRx'[g]) <= FifoCap /\ Len(txFifo'[g]) <= FifoCap
      BY <1>0, <1>5, BoundLemma DEF KeyboardReset, LinkBounds
    <2> QED
      BY <1>5, <2>1 DEF KeyboardReset, LinkBounds
  <1>6. ASSUME NEW h \in Halves, HostReceives(h)
        PROVE  /\ Len(rxFifo'[g]) <= RxCap /\ rxCalls'[g] <= RxCap
               /\ Len(txFifo'[g]) <= FifoCap
    <2>1. Head(txFifo[h]) \in Packets
      BY <1>6, FifosLemma DEF HostReceives
    <2>2. Len(rxFifo'[g]) <= RxCap
      BY <1>0, <1>6, <2>1, BoundLemma DEF HostReceives, LinkBounds
    <2>3. Len(txFifo'[g]) <= FifoCap
      BY <1>0, <1>6, BoundLemma DEF HostReceives, LinkBounds
    <2>4. rxCalls'[g] <= RxCap
      BY <1>0, <1>6 DEF HostReceives, LinkBounds
    <2> QED
      BY <2>2, <2>3, <2>4
  <1>7. ASSUME NEW h \in Halves, Exchange(h)
        PROVE  LinkBounds(g)'
    <2>1. ackFifo[h] # <<>> => Head(ackFifo[h]) \in AckPayloads
      BY FifosLemma
    <2>2. HostReceives(h)
      BY <1>7 DEF Exchange
    <2>3. CASE ackFifo[h] = <<>>
      <3>1. UNCHANGED <<ackRx, ackFifo>>
        BY <1>7, <2>3 DEF Exchange
      <3> QED
        BY <1>6, <2>2, <3>1 DEF LinkBounds
    <2>4. CASE ackFifo[h] # <<>>
      <3>1. /\ Len(ackRx[h]) < FifoCap
            /\ ackRx' = [ackRx EXCEPT ![h] = Append(@, Head(ackFifo[h]))]
            /\ ackFifo' = [ackFifo EXCEPT ![h] = Tail(@)]
        BY <1>7, <2>4 DEF Exchange
      <3>2. Len(ackRx[g]) <= FifoCap /\ Len(ackFifo[g]) <= FifoCap
        BY DEF LinkBounds
      <3>3. Len(ackFifo'[g]) <= FifoCap
        BY <1>0, <2>4, <3>1, <3>2, BoundLemma
      <3>4. Len(ackRx'[g]) <= FifoCap
        BY <1>0, <2>1, <2>4, <3>1, <3>2, BoundLemma
      <3> QED
        BY <1>6, <2>2, <3>3, <3>4 DEF LinkBounds
    <2> QED
      BY <2>3, <2>4
  <1>8. ASSUME NEW h \in Halves, AckLost(h)
        PROVE  LinkBounds(g)'
    <2>1. Len(ackFifo'[g]) <= FifoCap
      <3>1. \/ UNCHANGED ackFifo
            \/ ackFifo[h] # <<>> /\ ackFifo' = [ackFifo EXCEPT ![h] = Tail(@)]
        BY <1>8 DEF AckLost
      <3>2. Len(ackFifo[g]) <= FifoCap /\ ackFifo \in [Halves -> Seq(AckPayloads)]
        BY DEF LinkBounds
      <3>3. ackFifo[h] # <<>> => Len([ackFifo EXCEPT ![h] = Tail(@)][g]) <= FifoCap
        BY <1>0, <3>2, BoundLemma
      <3> HIDE DEF FieldsOK
      <3> QED
        BY <3>1, <3>2, <3>3
    <2>2. HostReceives(h) /\ UNCHANGED ackRx
      BY <1>8 DEF AckLost
    <2> QED
      BY <1>6, <2>1, <2>2 DEF LinkBounds
  <1>9. ASSUME NEW h \in Halves, PacketLost(h)
        PROVE  LinkBounds(g)'
    <2>1. Len(txFifo'[g]) <= FifoCap
      BY <1>0, <1>9, BoundLemma DEF PacketLost, LinkBounds
    <2> QED
      BY <1>9, <2>1 DEF PacketLost, LinkBounds
  <1>10. ASSUME NEW h \in Halves, RxReady(h)
         PROVE  LinkBounds(g)'
    <2>1. PICK p \in Fetched(h) :
              /\ FetchPacket(h, p)
              /\ UNCHANGED <<txFifo, ackRx>>
              /\ Offer(h) \/ UNCHANGED ackFifo
      BY <1>10 DEF RxReady, Accept, Reject, Collide, PacketFault, AcceptPacket,
                   RejectPacket, CollidePacket, CheckFault, DecryptFault
    <2>2. Len(rxFifo'[g]) <= RxCap
      BY <1>0, <2>1, BoundLemma DEF FetchPacket, LinkBounds
    <2>3. rxCalls'[g] <= RxCap
      BY <1>0, <2>1 DEF FetchPacket, LinkBounds
    <2>4. Len(ackFifo'[g]) <= FifoCap
      <3>1. /\ ack_payload[h] \in AckPayloads /\ Len(ackFifo[g]) <= FifoCap
            /\ ackFifo \in [Halves -> Seq(AckPayloads)]
        BY DEF LinkBounds
      <3>2. \/ UNCHANGED ackFifo
            \/ /\ Len(ackFifo[h]) < FifoCap
               /\ ackFifo' = [ackFifo EXCEPT ![h] = Append(@, ack_payload[h])]
        BY <2>1 DEF Offer
      <3>3. Len(ackFifo[h]) < FifoCap
                => Len([ackFifo EXCEPT ![h] = Append(@, ack_payload[h])][g]) <= FifoCap
        BY <1>0, <3>1, BoundLemma
      <3> HIDE DEF FieldsOK
      <3> QED
        BY <3>1, <3>2, <3>3
    <2> QED
      BY <2>1, <2>2, <2>3, <2>4 DEF LinkBounds
  <1>11. ASSUME NEW h \in Halves, SendData(h), ~ SendEnqueue(h)
         PROVE  UNCHANGED linkVars
    BY <1>11 DEF SendData, SendOn, SendBegin, SendEncrypt, SendEncryptSpoilt,
                 SendEncryptFault, EncryptedWith, SendReadCounter, SendStoreCounter,
                 SendMac, SendMacSpoilt, SendMacFault, MacedWith
  <1>12. ASSUME NEW h \in Halves, TxSuccess(h)
         PROVE  FetchAck(h)
    BY <1>12 DEF TxSuccess, AdoptSeed, RejectAck, AckFault, AdoptFault
  <1>13. ASSUME NEW h \in Halves, UpdateRekeyState(h)
         PROVE  UNCHANGED linkVars
    BY <1>13 DEF UpdateRekeyState, LoopIdle, GatherByte, GatherLast, SkipZero, RekeyBegin,
                 RekeyEnc, RekeyMac, RekeyFault, SealBegin, Seal, SealMac, SealFault
  <1>14. UNCHANGED vars => UNCHANGED linkVars
    BY DEF vars
  <1> QED
    BY <1>1, <1>2, <1>3, <1>4, <1>5, <1>7, <1>8, <1>9, <1>10, <1>11, <1>12, <1>13, <1>14
       DEF Next

\* A step spends at most one of the budgets.
LEMMA SpendStep ==
    [Next]_vars => UNCHANGED spent \/ \E what \in Spendings : Spend(what)
  <1> SUFFICES ASSUME [Next]_vars
               PROVE  UNCHANGED spent \/ \E what \in Spendings : Spend(what)
    OBVIOUS
  <1> USE DEF Spendings
  <1>1. CASE UNCHANGED vars \/ ReceiverReset
    BY <1>1 DEF vars, ReceiverReset
  <1>2. ASSUME NEW h \in Halves, SendData(h)
        PROVE  UNCHANGED spent \/ Spend("packetFault")
    BY <1>2 DEF SendData, SendOn, SendBegin, SendEncrypt, SendEncryptSpoilt,
                SendEncryptFault, EncryptedWith, SendReadCounter, SendStoreCounter,
                SendMac, SendMacSpoilt, SendMacFault, MacedWith, SendEnqueue
  <1>3. ASSUME NEW h \in Halves, TxSuccess(h)
        PROVE  UNCHANGED spent \/ Spend("packetFault") \/ Spend("rekeyFault")
    BY <1>3 DEF TxSuccess, AdoptSeed, RejectAck, AckFault, AdoptFault
  <1>4. ASSUME NEW h \in Halves,
               KeyboardReset(h) \/ Exchange(h) \/ AckLost(h) \/ PacketLost(h)
        PROVE  UNCHANGED spent \/ Spend("kbReset") \/ Spend("loss")
    BY <1>4 DEF KeyboardReset, Exchange, AckLost, PacketLost
  <1>5. ASSUME NEW h \in Halves, RxReady(h)
        PROVE  UNCHANGED spent \/ Spend("packetFault")
    BY <1>5 DEF RxReady, Accept, Reject, Collide, PacketFault, AcceptPacket, RejectPacket,
                CollidePacket, CheckFault, DecryptFault
  <1>6. ASSUME NEW h \in Halves, UpdateRekeyState(h)
        PROVE  UNCHANGED spent \/ Spend("rekeyFault") \/ Spend("sealFault")
    BY <1>6 DEF UpdateRekeyState, LoopIdle, GatherByte, GatherLast, SkipZero, RekeyBegin,
                RekeyEnc, RekeyMac, RekeyFault, SealBegin, Seal, SealMac, SealFault
  <1> QED
    BY <1>1, <1>2, <1>3, <1>4, <1>5, <1>6 DEF Next

LEMMA SpendingsStep ==
    ASSUME FieldsOK, SpendingsOK, [Next]_vars
    PROVE  SpendingsOK'
  <1>1. \A what \in Spendings : Budget[what] \in Nat
    BY BoundsAssumption DEF Spendings, Budget
  <1>2. spent \in [Spendings -> Nat]
    BY DEF FieldsOK
  <1>3. CASE UNCHANGED spent
    BY <1>3 DEF SpendingsOK
  <1>4. ASSUME NEW what \in Spendings, Spend(what)
        PROVE  SpendingsOK'
    BY <1>1, <1>2, <1>4 DEF Spend, SpendingsOK
  <1> QED
    BY <1>3, <1>4, SpendStep

\* Every variable of the two programs keeps its type, Gazell its capacity and the
\* environment its budgets, whatever the interleaving of main loop, callbacks, losses,
\* restarts and failures.
THEOREM TypeCorrect == Spec => []TypeOK
  <1>1. ASSUME Init PROVE TypeOK
    <2>1. FifoCap \in Nat /\ RxCap \in Nat /\ Len(<<>>) = 0
      BY SizesAssumption, EmptySeq
    <2>2. \A h \in Halves : LinkBounds(h)
      <3>1. ASSUME NEW h \in Halves
            PROVE  /\ txFifo[h] = <<>> /\ ackRx[h] = <<>> /\ ackFifo[h] = <<>>
                   /\ rxFifo[h] = <<>> /\ rxCalls[h] = 0
        BY <1>1 DEF Init, InitLink
      <3>2. ASSUME NEW h \in Halves PROVE LinkBounds(h)
        <4>1. /\ Len(txFifo[h]) = 0 /\ Len(ackRx[h]) = 0 /\ Len(ackFifo[h]) = 0
              /\ Len(rxFifo[h]) = 0
          BY <2>1, <3>1
        <4> QED
          BY <2>1, <3>1, <4>1 DEF LinkBounds
      <3> QED
        BY <3>2
    <2>3. \A what \in Spendings : Budget[what] \in Nat
      BY BoundsAssumption DEF Spendings, Budget
    <2>4. SpendingsOK
      BY <1>1, <2>3 DEF Init, SpendingsOK
    <2> QED
      BY <1>1, <2>2, <2>4, FieldsInit DEF TypeOK
  <1>2. ASSUME TypeOK, [Next]_vars PROVE TypeOK'
    BY <1>2, FieldsStep, LinkStep, SpendingsStep DEF TypeOK
  <1> QED
    BY <1>1, <1>2, PTL DEF Spec

-----------------------------------------------------------------------------
(* The key state: the lock, the contexts and the offer.                    *)

KeyInv == FieldsOK /\ LockInv /\ ContextInv /\ OfferInv

LEMMA KeyInit == Init => KeyInv
  <1> SUFFICES ASSUME Init PROVE KeyInv
    OBVIOUS
  <1>1. FieldsOK
    BY FieldsInit
  <1>2. LockInv
    BY DEF Init, InitReceiver, LockInv, Critical
  <1>3. ContextInv
    BY DEF Init, InitReceiver, ContextInv, FreshContexts
  <1>4. OfferInv
    BY DEF Init, InitReceiver, OfferInv
  <1> QED
    BY <1>1, <1>2, <1>3, <1>4 DEF KeyInv

\* Neither the halves nor Gazell touch the receiver's keys, and AES failures are
\* only ever counted up.
LEMMA OutsideLemma ==
    ASSUME FieldsOK, NEW h \in Halves,
           \/ SendData(h) \/ TxSuccess(h) \/ KeyboardReset(h)
           \/ Exchange(h) \/ AckLost(h) \/ PacketLost(h)
    PROVE  /\ UNCHANGED <<keyVars, mainVars>>
           /\ spent'["sealFault"] = spent["sealFault"]
           /\ spent'["rekeyFault"] = 0 => spent["rekeyFault"] = 0
  <1> USE DEF Spendings
  <1>0. spent \in [Spendings -> Nat]
    BY DEF FieldsOK
  <1>1. CASE SendData(h)
    <2>1. UNCHANGED <<keyVars, mainVars>> /\ (UNCHANGED spent \/ Spend("packetFault"))
      BY <1>1 DEF SendData, SendOn, SendBegin, SendEncrypt, SendEncryptSpoilt,
                  SendEncryptFault, EncryptedWith, SendReadCounter, SendStoreCounter,
                  SendMac, SendMacSpoilt, SendMacFault, MacedWith, SendEnqueue
    <2> QED
      BY <1>0, <2>1, SpendLemma
  <1>2. CASE TxSuccess(h)
    <2>1. CASE AdoptSeed(h) \/ RejectAck(h)
      BY <2>1 DEF AdoptSeed, RejectAck, FetchAck
    <2>2. CASE AdoptFault(h)
      <3>1. Spend("rekeyFault") /\ FetchAck(h)
        BY <2>2 DEF AdoptFault
      <3>2. spent'["rekeyFault"] > 0 /\ spent'["sealFault"] = spent["sealFault"]
        BY <1>0, <3>1, SpendLemma
      <3> QED
        BY <3>1, <3>2 DEF FetchAck
    <2>3. CASE AckFault(h)
      <3>1. Spend("packetFault") /\ FetchAck(h)
        BY <2>3 DEF AckFault
      <3> QED
        BY <1>0, <3>1, SpendLemma DEF FetchAck
    <2> QED
      BY <1>2, <2>1, <2>2, <2>3 DEF TxSuccess
  <1>3. CASE KeyboardReset(h)
    <2>1. Spend("kbReset")
      BY <1>3 DEF KeyboardReset
    <2> QED
      BY <1>0, <1>3, <2>1, SpendLemma DEF KeyboardReset
  <1>4. CASE Exchange(h)
    BY <1>4 DEF Exchange
  <1>5. CASE AckLost(h) \/ PacketLost(h)
    <2>1. Spend("loss")
      BY <1>5 DEF AckLost, PacketLost
    <2> QED
      BY <1>0, <1>5, <2>1, SpendLemma DEF AckLost, PacketLost
  <1> QED
    BY <1>1, <1>2, <1>3, <1>4, <1>5

LEMMA KeyOutside ==
    ASSUME KeyInv, UNCHANGED <<keyVars, mainVars>>,
           spent'["sealFault"] = spent["sealFault"],
           spent'["rekeyFault"] = 0 => spent["rekeyFault"] = 0
    PROVE  LockInv' /\ ContextInv' /\ OfferInv'
  BY DEF KeyInv, LockInv, ContextInv, OfferInv, keyVars, mainVars, NextIdStored,
         NextEnc, NextMac, DerivingMac, SealingMac

\* An AES failure in the callback counts neither as one of a derivation nor as one of
\* sealing.
LEMMA SpendRxReady ==
    ASSUME spent \in [Spendings -> Nat], NEW h \in Halves, RxReady(h)
    PROVE  /\ spent'["rekeyFault"] = spent["rekeyFault"]
           /\ spent'["sealFault"] = spent["sealFault"]
  <1>1. UNCHANGED spent \/ Spend("packetFault")
    BY DEF RxReady, Accept, Reject, Collide, PacketFault, AcceptPacket, RejectPacket,
           CollidePacket, CheckFault, DecryptFault
  <1> QED
    BY <1>1, SpendLemma DEF Spendings

\* The callback leaves the key state alone, or moves it to key_not_ready while the
\* lock is free.
LEMMA KeyRxReady ==
    ASSUME KeyInv, NEW h \in Halves, RxReady(h)
    PROVE  LockInv' /\ ContextInv' /\ OfferInv'
  <1>0. spent'["rekeyFault"] = spent["rekeyFault"]
        /\ spent'["sealFault"] = spent["sealFault"]
    BY SpendRxReady DEF KeyInv, FieldsOK
  <1>1. /\ UNCHANGED <<new_key_id, ctxEnc, ctxMac, ack_payload, mainVars>>
        /\ \/ UNCHANGED state
           \/ ~ decrypting /\ state' = [state EXCEPT ![h] = "key_not_ready"]
        /\ spent'["rekeyFault"] = spent["rekeyFault"]
        /\ spent'["sealFault"] = spent["sealFault"]
    BY <1>0 DEF LockFree, RxReady, Accept, Reject, Collide, PacketFault, AcceptPacket,
           RejectPacket, CollidePacket, CheckFault, DecryptFault, keyVars
  <1> USE DEF mainVars, NextIdStored, NextEnc, NextMac, DerivingMac, SealingMac
  <1>2. LockInv'
    BY <1>1 DEF KeyInv, LockInv, FieldsOK, Critical
  <1>3. ContextInv'
    BY <1>1 DEF KeyInv, ContextInv
  <1>4. OfferInv'
    BY <1>1 DEF KeyInv, OfferInv, FieldsOK
  <1> QED
    BY <1>2, <1>3, <1>4

LEMMA KeyReceiverReset ==
    ASSUME KeyInv, ReceiverReset
    PROVE  LockInv' /\ ContextInv' /\ OfferInv'
  <1>1. LockInv'
    BY DEF ReceiverReset, LockInv, Critical
  <1>2. ContextInv'
    BY DEF ReceiverReset, ContextInv
  <1>3. OfferInv'
    BY DEF ReceiverReset, OfferInv
  <1> QED
    BY <1>1, <1>2, <1>3

\* One step of the main loop, for each of its steps.
LEMMA KeyGather ==
    ASSUME KeyInv, NEW h \in Halves, LoopIdle(h) \/ GatherByte(h) \/ GatherLast(h)
    PROVE  LockInv' /\ ContextInv' /\ OfferInv'
  <1> USE DEF NextIdStored, NextEnc, NextMac, DerivingMac, SealingMac, AtState, NextTurn
  <1>1. CASE LoopIdle(h) \/ GatherByte(h)
    <2>1. /\ UNCHANGED <<state, new_key_id, ctxEnc, ctxMac, ack_payload, decrypting,
                         macDirty, spent>>
          /\ mainPc = "loop" /\ mainPc' = "loop"
      BY <1>1 DEF LoopIdle, GatherByte, keyVars
    <2>2. LockInv'
      BY <2>1 DEF KeyInv, LockInv, Critical
    <2>3. ContextInv'
      BY <2>1 DEF KeyInv, ContextInv
    <2>4. OfferInv'
      BY <2>1 DEF KeyInv, OfferInv
    <2> QED
      BY <2>2, <2>3, <2>4
  <1>2. CASE GatherLast(h)
    <2>1. /\ UNCHANGED <<ctxEnc, ctxMac, decrypting, macDirty, spent>>
          /\ mainPc = "loop" /\ turn = h /\ state[h] = "key_not_ready"
          /\ (mainPc' = "skip_zero" /\ turn' = h) \/ mainPc' = "loop"
          /\ state' = [state EXCEPT ![h] = "seed_ready"]
      BY <1>2 DEF GatherLast
    <2>2. (mainPc' = "skip_zero" /\ turn' = h) \/ new_key_id'[h] # 0
      <3>1. key_id[h] \in KeyIds /\ new_key_id \in [Halves -> KeyIds]
        BY DEF KeyInv, FieldsOK
      <3>2. SkippingZero(NextKeyId(key_id[h])) # 0
        BY <3>1, IdLemma
      <3> QED
        BY <1>2, <2>1, <3>1, <3>2 DEF GatherLast
    <2>3. /\ \A g \in Halves \ {h} : new_key_id'[g] = new_key_id[g]
          /\ \A g \in Halves \ {h} : ack_payload'[g] = ack_payload[g]
          /\ ~ ack_payload'[h].sealed
      <3>1. ack_payload \in [Halves -> AckPayloads]
            /\ new_key_id \in [Halves -> KeyIds]
        BY DEF KeyInv, FieldsOK
      <3>2. ack_payload' = [ack_payload EXCEPT ![h] =
                [@ EXCEPT !.seed = drawn + 1, !.sealed = FALSE, !.macOk = FALSE]]
        BY <1>2 DEF GatherLast
      <3>3. ~ ack_payload'[h].sealed
        BY <3>1, <3>2 DEF AckPayloads
      <3> QED
        BY <1>2, <3>1, <3>2, <3>3 DEF GatherLast
    <2>4. /\ state'[h] = "seed_ready"
          /\ \A g \in Halves \ {h} : state'[g] = state[g]
      BY <2>1 DEF KeyInv, FieldsOK
    <2>5. LockInv'
      BY <2>1, <2>2, <2>3, <2>4 DEF KeyInv, LockInv, Critical
    <2>6. ContextInv'
      BY <2>1 DEF KeyInv, ContextInv
    <2>7. OfferInv'
      BY <2>1, <2>3, <2>4 DEF KeyInv, OfferInv
    <2> QED
      BY <2>5, <2>6, <2>7
  <1> QED
    BY <1>1, <1>2

LEMMA KeySkipZero ==
    ASSUME KeyInv, NEW h \in Halves, SkipZero(h)
    PROVE  LockInv' /\ ContextInv' /\ OfferInv'
  <1> USE DEF NextIdStored, NextEnc, NextMac, DerivingMac, SealingMac, NextTurn
  <1>1. /\ UNCHANGED <<state, ctxEnc, ctxMac, ack_payload, decrypting, macDirty, spent>>
        /\ mainPc = "skip_zero" /\ turn = h /\ mainPc' = "loop"
        /\ new_key_id'[h] # 0
        /\ \A g \in Halves \ {h} : new_key_id'[g] = new_key_id[g]
    BY DEF SkipZero, SkippingZero, KeyInv, FieldsOK
  <1>2. state[h] \in {"key_not_ready", "seed_ready"}
    BY <1>1 DEF KeyInv, LockInv
  <1>3. LockInv'
    BY <1>1 DEF KeyInv, LockInv, Critical
  <1>4. ContextInv'
    BY <1>1 DEF KeyInv, ContextInv
  <1>5. OfferInv'
    BY <1>1, <1>2 DEF KeyInv, OfferInv
  <1> QED
    BY <1>3, <1>4, <1>5

LEMMA KeyDerive ==
    ASSUME KeyInv, NEW h \in Halves, RekeyBegin(h) \/ RekeyEnc(h) \/ RekeyMac(h)
    PROVE  LockInv' /\ ContextInv' /\ OfferInv'
  <1> USE DEF NextIdStored, NextEnc, NextMac, DerivingMac, SealingMac, NextTurn
  <1> DEFINE i == GeneratedSlot(new_key_id[h])
  <1>0. /\ i \in Slots
        /\ ctxEnc \in [Halves -> [Slots -> Seeds]]
        /\ ctxMac \in [Halves -> [Slots -> Seeds]]
    BY IdLemma DEF KeyInv, FieldsOK, Slots
  <1>1. CASE RekeyBegin(h)
    <2>1. /\ UNCHANGED <<state, new_key_id, ctxEnc, ctxMac, ack_payload, turn, macDirty, spent>>
          /\ mainPc = "loop" /\ turn = h /\ state[h] = "seed_ready"
          /\ decrypting' /\ mainPc' = "rekey_enc"
      BY <1>1 DEF RekeyBegin, Lock, AtState, keyVars
    <2>2. LockInv'
      BY <2>1 DEF KeyInv, LockInv, Critical
    <2>3. ContextInv'
      BY <2>1 DEF KeyInv, ContextInv
    <2>4. OfferInv'
      BY <2>1 DEF KeyInv, OfferInv
    <2> QED
      BY <2>2, <2>3, <2>4
  <1>2. CASE RekeyEnc(h)
    <2>1. /\ UNCHANGED <<state, new_key_id, ctxMac, ack_payload, turn, decrypting,
                         macDirty, spent>>
          /\ mainPc = "rekey_enc" /\ turn = h /\ mainPc' = "rekey_mac"
          /\ ctxEnc' = [ctxEnc EXCEPT ![h][i] = ack_payload[h].seed]
      BY <1>2 DEF RekeyEnc
    <2>2. state[h] = "seed_ready"
      BY <2>1 DEF KeyInv, LockInv
    <2>3. /\ ctxEnc'[h][i] = ack_payload[h].seed
          /\ \A j \in Slots \ {i} : ctxEnc'[h][j] = ctxEnc[h][j]
          /\ \A g \in Halves \ {h} : ctxEnc'[g] = ctxEnc[g]
      BY <1>0, <2>1
    <2> HIDE DEF i
    <2>4. LockInv'
      BY <2>1, <2>3 DEF KeyInv, LockInv, Critical, i
    <2>5. ContextInv'
      BY <2>1, <2>3 DEF KeyInv, ContextInv, i
    <2>6. OfferInv'
      BY <2>1, <2>2, <2>3 DEF KeyInv, OfferInv
    <2> QED
      BY <2>4, <2>5, <2>6
  <1>3. CASE RekeyMac(h)
    <2>1. /\ UNCHANGED <<new_key_id, ctxEnc, ack_payload, macDirty, spent>>
          /\ mainPc = "rekey_mac" /\ turn = h /\ mainPc' = "loop" /\ ~ decrypting'
          /\ ctxMac' = [ctxMac EXCEPT ![h][i] = ack_payload[h].seed]
          /\ state' = [state EXCEPT ![h] = "new_key_ready"]
      BY <1>3 DEF RekeyMac, Unlock
    <2>2. /\ state[h] = "seed_ready" /\ state'[h] = "new_key_ready"
          /\ \A g \in Halves \ {h} : state'[g] = state[g]
          /\ NextEnc(h) = ack_payload[h].seed
          /\ new_key_id[h] # 0
      BY <2>1 DEF KeyInv, LockInv, FieldsOK
    <2>3. /\ ctxMac'[h][i] = ack_payload[h].seed
          /\ \A j \in Slots \ {i} : ctxMac'[h][j] = ctxMac[h][j]
          /\ \A g \in Halves \ {h} : ctxMac'[g] = ctxMac[g]
      BY <1>0, <2>1
    <2> HIDE DEF i
    <2>4. LockInv'
      BY <2>1, <2>2 DEF KeyInv, LockInv, Critical
    <2>5. ContextInv'
      BY <2>1, <2>2, <2>3 DEF KeyInv, ContextInv, i
    <2>6. OfferInv'
      BY <2>1, <2>2, <2>3 DEF KeyInv, OfferInv, i
    <2> QED
      BY <2>4, <2>5, <2>6
  <1> QED
    BY <1>1, <1>2, <1>3

LEMMA KeyRekeyFault ==
    ASSUME KeyInv, NEW h \in Halves, RekeyFault(h)
    PROVE  LockInv' /\ ContextInv' /\ OfferInv'
  <1> USE DEF NextIdStored, NextEnc, NextMac, DerivingMac, SealingMac, NextTurn
  <1> DEFINE i == GeneratedSlot(new_key_id[h])
  <1>1. /\ UNCHANGED <<state, new_key_id, ack_payload, macDirty>>
        /\ mainPc \in {"rekey_enc", "rekey_mac"} /\ turn = h
        /\ mainPc' = "loop" /\ ~ decrypting'
    BY DEF RekeyFault, Unlock
  <1>2. spent'["rekeyFault"] > 0 /\ spent'["sealFault"] = spent["sealFault"]
    <2>1. Spend("rekeyFault") /\ spent \in [Spendings -> Nat]
      BY DEF RekeyFault, KeyInv, FieldsOK
    <2> QED
      BY <2>1, SpendLemma DEF Spendings
  <1>3. state[h] = "seed_ready"
    BY <1>1 DEF KeyInv, LockInv
  <1>4. /\ \A g \in Halves \ {h} : ctxEnc'[g] = ctxEnc[g]
        /\ \A g \in Halves \ {h} : ctxMac'[g] = ctxMac[g]
    BY DEF RekeyFault, KeyInv, FieldsOK
  <1>5. LockInv'
    BY <1>1 DEF KeyInv, LockInv, Critical
  <1>6. ContextInv'
    BY <1>2 DEF ContextInv
  <1>7. OfferInv'
    BY <1>1, <1>2, <1>3, <1>4 DEF KeyInv, OfferInv
  <1> QED
    BY <1>5, <1>6, <1>7

LEMMA KeySeal ==
    ASSUME KeyInv, NEW h \in Halves, SealBegin(h) \/ Seal(h) \/ SealMac(h)
    PROVE  LockInv' /\ ContextInv' /\ OfferInv'
  <1> USE DEF NextIdStored, NextEnc, NextMac, DerivingMac, SealingMac, NextTurn
  <1>0. ack_payload \in [Halves -> AckPayloads] /\ ack_payload[h] \in AckPayloads
    BY DEF KeyInv, FieldsOK
  <1>1. CASE SealBegin(h)
    <2>1. /\ UNCHANGED <<state, new_key_id, ctxEnc, ctxMac, turn, macDirty, spent>>
          /\ mainPc = "loop" /\ turn = h /\ state[h] = "new_key_ready"
          /\ decrypting' /\ mainPc' = "seal"
          /\ ack_payload' = [ack_payload EXCEPT ![h].id = new_key_id[h]]
      BY <1>1 DEF SealBegin, Lock, AtState
    <2>2. /\ ack_payload'[h].id = new_key_id[h]
          /\ ack_payload'[h].seed = ack_payload[h].seed
          /\ ack_payload'[h].sealed = ack_payload[h].sealed
          /\ \A g \in Halves \ {h} : ack_payload'[g] = ack_payload[g]
      BY <1>0, <2>1 DEF AckPayloads
    <2>3. LockInv'
      BY <2>1 DEF KeyInv, LockInv, Critical
    <2>4. ContextInv'
      BY <2>1 DEF KeyInv, ContextInv
    <2>5. OfferInv'
      BY <2>1, <2>2 DEF KeyInv, OfferInv
    <2> QED
      BY <2>3, <2>4, <2>5
  <1>2. CASE Seal(h)
    <2>1. /\ UNCHANGED <<state, new_key_id, ctxEnc, ctxMac, turn, decrypting, macDirty, spent>>
          /\ mainPc = "seal" /\ turn = h /\ mainPc' = "seal_mac"
          /\ ack_payload' = [ack_payload EXCEPT ![h].sealed = ~ @]
      BY <1>2 DEF Seal
    <2>2. /\ ack_payload'[h].id = ack_payload[h].id
          /\ ack_payload'[h].seed = ack_payload[h].seed
          /\ ack_payload'[h].sealed <=> ~ ack_payload[h].sealed
          /\ \A g \in Halves \ {h} : ack_payload'[g] = ack_payload[g]
      BY <1>0, <2>1 DEF AckPayloads
    <2>3. state[h] = "new_key_ready"
      BY <2>1 DEF KeyInv, LockInv
    <2>4. LockInv'
      BY <2>1 DEF KeyInv, LockInv, Critical
    <2>5. ContextInv'
      BY <2>1 DEF KeyInv, ContextInv
    <2>6. OfferInv'
      BY <2>1, <2>2, <2>3 DEF KeyInv, OfferInv
    <2> QED
      BY <2>4, <2>5, <2>6
  <1>3. CASE SealMac(h)
    <2>1. /\ UNCHANGED <<new_key_id, ctxEnc, ctxMac, spent>>
          /\ mainPc = "seal_mac" /\ turn = h /\ mainPc' = "loop"
          /\ ~ decrypting' /\ ~ macDirty'
          /\ state' = [state EXCEPT ![h] = "new_key_payload_ready"]
          /\ ack_payload' = [ack_payload EXCEPT ![h].macOk = ~ macDirty]
      BY <1>3 DEF SealMac, Unlock
    <2>2. /\ ack_payload'[h].id = ack_payload[h].id
          /\ ack_payload'[h].seed = ack_payload[h].seed
          /\ ack_payload'[h].sealed = ack_payload[h].sealed
          /\ ack_payload'[h].macOk <=> ~ macDirty
          /\ \A g \in Halves \ {h} : ack_payload'[g] = ack_payload[g]
      BY <1>0, <2>1 DEF AckPayloads
    <2>3. /\ state[h] = "new_key_ready" /\ state'[h] = "new_key_payload_ready"
          /\ \A g \in Halves \ {h} : state'[g] = state[g]
          /\ new_key_id[h] # 0
      BY <2>1 DEF KeyInv, LockInv, FieldsOK
    <2>4. LockInv'
      BY <2>1, <2>3 DEF KeyInv, LockInv, Critical
    <2>5. ContextInv'
      BY <2>1 DEF KeyInv, ContextInv
    <2>6. OfferInv'
      BY <2>1, <2>2, <2>3 DEF KeyInv, OfferInv
    <2> QED
      BY <2>4, <2>5, <2>6
  <1> QED
    BY <1>1, <1>2, <1>3

LEMMA KeySealFault ==
    ASSUME KeyInv, NEW h \in Halves, SealFault(h)
    PROVE  LockInv' /\ ContextInv' /\ OfferInv'
  <1> USE DEF NextIdStored, NextEnc, NextMac, DerivingMac, SealingMac, NextTurn
  <1>1. /\ UNCHANGED keyVars
        /\ mainPc \in {"seal", "seal_mac"} /\ turn = h
        /\ mainPc' = "loop" /\ ~ decrypting'
    BY DEF SealFault, Unlock
  <1>2. spent'["sealFault"] > 0 /\ spent'["rekeyFault"] = spent["rekeyFault"]
    <2>1. Spend("sealFault") /\ spent \in [Spendings -> Nat]
      BY DEF SealFault, KeyInv, FieldsOK
    <2> QED
      BY <2>1, SpendLemma DEF Spendings
  <1>3. LockInv'
    BY <1>1 DEF KeyInv, LockInv, Critical, keyVars
  <1>4. ContextInv'
    BY <1>1, <1>2 DEF KeyInv, ContextInv, keyVars
  <1>5. OfferInv'
    BY <1>2 DEF OfferInv
  <1> QED
    BY <1>3, <1>4, <1>5

LEMMA KeyStep == KeyInv /\ [Next]_vars => KeyInv'
  <1> SUFFICES ASSUME KeyInv, [Next]_vars PROVE KeyInv'
    OBVIOUS
  <1>1. FieldsOK'
    BY FieldsStep DEF KeyInv
  <1>2. CASE UNCHANGED vars
    <2>1. UNCHANGED <<keyVars, mainVars>> /\ UNCHANGED spent
      BY <1>2 DEF vars
    <2> QED
      BY <1>1, <2>1, KeyOutside DEF KeyInv
  <1>3. CASE ReceiverReset
    BY <1>1, <1>3, KeyReceiverReset DEF KeyInv
  <1>4. ASSUME NEW h \in Halves,
               \/ SendData(h) \/ TxSuccess(h) \/ KeyboardReset(h)
               \/ Exchange(h) \/ AckLost(h) \/ PacketLost(h)
        PROVE  KeyInv'
    <2>1. FieldsOK
      BY DEF KeyInv
    <2> QED
      BY <1>1, <1>4, <2>1, OutsideLemma, KeyOutside DEF KeyInv
  <1>5. ASSUME NEW h \in Halves, RxReady(h)
        PROVE  KeyInv'
    BY <1>1, <1>5, KeyRxReady DEF KeyInv
  <1>6. ASSUME NEW h \in Halves, UpdateRekeyState(h)
        PROVE  KeyInv'
    BY <1>1, <1>6, KeyGather, KeySkipZero, KeyDerive, KeyRekeyFault, KeySeal,
       KeySealFault DEF UpdateRekeyState, KeyInv
  <1> QED
    BY <1>2, <1>3, <1>4, <1>5, <1>6 DEF Next

LEMMA KeyInvariant == Spec => []KeyInv
  <1> QED
    BY KeyInit, KeyStep, PTL DEF Spec

\* No callback checks a packet with a context the main loop has half replaced.
THEOREM ContextsStayWhole == Spec => []ContextsWhole
  <1>1. KeyInv => ContextsWhole
    BY DEF KeyInv, LockInv, ContextInv, ContextsWhole, DerivingMac, Critical
  <1> QED
    BY <1>1, KeyInvariant, PTL

\* Every payload a callback may queue is complete and matches the context the
\* receiver keeps for it.
THEOREM OffersWellFormed == Spec => []OfferWellFormed
  <1>1. ASSUME KeyInv PROVE OfferWellFormed
    <2>1. ASSUME spent.sealFault = 0, NEW h \in Halves,
                 state[h] = "new_key_payload_ready"
          PROVE  /\ ack_payload[h].sealed
                 /\ ack_payload[h].macOk
                 /\ ack_payload[h].id = new_key_id[h]
                 /\ ctxEnc[h][Slot(new_key_id[h])] = ack_payload[h].seed
                 /\ ctxMac[h][Slot(new_key_id[h])] = ack_payload[h].seed
      <3>1. new_key_id[h] \in KeyIds
        BY <1>1 DEF KeyInv, FieldsOK
      <3>2. new_key_id[h] # 0
        BY <1>1, <2>1 DEF KeyInv, LockInv, NextIdStored
      <3>3. Slot(new_key_id[h]) = GeneratedSlot(new_key_id[h])
        BY <3>1, <3>2, IdLemma
      <3> QED
        BY <1>1, <2>1, <3>3 DEF KeyInv, OfferInv, NextEnc, NextMac
    <2> QED
      BY <2>1 DEF OfferWellFormed
  <1> QED
    BY <1>1, KeyInvariant, PTL

-----------------------------------------------------------------------------
(* The packets: one that no callback tore decrypts.                        *)

FullInv == KeyInv /\ PacketInv

LEMMA WholePacketsLemma ==
    /\ WholePackets \subseteq Packets
    /\ NoPacket \in WholePackets
  BY ValueLemma DEF WholePackets, NoPacket

LEMMA PacketInit == Init => PacketInv
  <1> SUFFICES ASSUME Init PROVE PacketInv
    OBVIOUS
  <1>1. <<>> \in Seq(WholePackets)
    OBVIOUS
  <1> QED
    BY <1>1, WholePacketsLemma DEF Init, InitKeyboards, InitLink, PacketInv

\* The part of PacketInv about the packet a half is assembling.
Assembly(h) ==
    LET p == data_payload[h] IN
    ~ p.torn =>
        /\ sendPc[h] = "encrypt" => ~ clashed[h]
        /\ sendPc[h] \in {"count", "store", "mac"} => p.enc = kbEnc[h]
        /\ sendPc[h] = "count" => p.encCounter = kbCounter[h]
        /\ sendPc[h] \in {"store", "mac", "enqueue"} => p.encCounter = p.counter
        /\ sendPc[h] = "enqueue" => p.mac \in {p.enc, NoSeed}

LEMMA PacketSend ==
    ASSUME FullInv, spent["rekeyFault"] = 0, NEW h \in Halves, SendData(h)
    PROVE  PacketInv'
  <1>0. /\ kbEnc = kbMac
        /\ txFifo \in [Halves -> Seq(WholePackets)]
        /\ rxFifo \in [Halves -> Seq(WholePackets)]
        /\ stackPayload \in [Halves -> WholePackets]
        /\ \A g \in Halves : Assembly(g)
    BY DEF FullInv, PacketInv, Assembly
  <1>1. /\ sendPc \in [Halves -> SendPcs] /\ data_payload \in [Halves -> Packets]
        /\ kbCounter \in [Halves -> Counters] /\ kbMac \in [Halves -> Seeds]
        /\ kbKeyId \in [Halves -> KeyIds] /\ clashed \in [Halves -> BOOLEAN]
        /\ data_payload[h] \in Packets
    BY DEF FullInv, KeyInv, FieldsOK
  <1>2. UNCHANGED <<kbEnc, kbMac, rxFifo, stackPayload>>
    BY DEF SendData, SendOn, SendBegin, SendEncrypt, SendEncryptSpoilt, SendEncryptFault,
           EncryptedWith, SendReadCounter, SendStoreCounter, SendMac, SendMacSpoilt,
           SendMacFault, MacedWith, SendEnqueue, linkVars
  <1>3. \A g \in Halves \ {h} :
            /\ sendPc'[g] = sendPc[g] /\ data_payload'[g] = data_payload[g]
            /\ kbEnc'[g] = kbEnc[g] /\ kbCounter'[g] = kbCounter[g]
            /\ clashed'[g] = clashed[g]
    BY <1>1 DEF SendData, SendOn, SendBegin, SendEncrypt, SendEncryptSpoilt,
           SendEncryptFault, EncryptedWith, SendReadCounter, SendStoreCounter, SendMac,
           SendMacSpoilt, SendMacFault, MacedWith, SendEnqueue, NoClash
  <1>4. txFifo' \in [Halves -> Seq(WholePackets)]
    <2>1. CASE SendEnqueue(h)
      <3>1. Assembly(h) /\ sendPc[h] = "enqueue"
        BY <1>0, <2>1 DEF SendEnqueue
      <3> DEFINE p == [data_payload[h] EXCEPT !.id = kbKeyId[h]]
      <3>2. /\ p \in Packets /\ p.torn = data_payload[h].torn
            /\ p.enc = data_payload[h].enc /\ p.mac = data_payload[h].mac
            /\ p.encCounter = data_payload[h].encCounter
            /\ p.counter = data_payload[h].counter
        BY <1>1, PacketLemma DEF Packets
      <3>3. p \in WholePackets
        BY <3>1, <3>2 DEF Assembly, WholePackets
      <3> HIDE DEF p
      <3>4. [txFifo EXCEPT ![h] = Append(@, p)] \in [Halves -> Seq(WholePackets)]
        BY <1>0, <3>3, FifosLemma
      <3> QED
        BY <1>0, <2>1, <3>4 DEF SendEnqueue, p
    <2>2. CASE ~ SendEnqueue(h)
      BY <1>0, <2>2 DEF SendData, SendOn, SendBegin, SendEncrypt, SendEncryptSpoilt,
                        SendEncryptFault, EncryptedWith, SendReadCounter,
                        SendStoreCounter, SendMac, SendMacSpoilt, SendMacFault,
                        MacedWith, linkVars
    <2> QED
      BY <2>1, <2>2
  <1>5. Assembly(h)'
    <2>1. CASE SendEncrypt(h)
      <3>1. /\ data_payload'[h].enc = kbEnc[h]
            /\ data_payload'[h].encCounter = kbCounter[h]
            /\ sendPc'[h] = "count" /\ UNCHANGED kbCounter
        BY <1>1, <2>1 DEF SendEncrypt, EncryptedWith, Packets
      <3> QED
        BY <1>2, <3>1 DEF Assembly
    <2>2. CASE SendReadCounter(h)
      <3>1. /\ data_payload'[h].enc = data_payload[h].enc
            /\ data_payload'[h].torn = data_payload[h].torn
            /\ data_payload'[h].encCounter = data_payload[h].encCounter
            /\ data_payload'[h].counter = kbCounter[h]
            /\ sendPc[h] = "count" /\ sendPc'[h] = "store"
        BY <1>1, <2>2 DEF SendReadCounter, Packets
      <3> QED
        BY <1>0, <1>2, <3>1 DEF Assembly
    <2>3. CASE SendStoreCounter(h)
      <3>1. UNCHANGED data_payload /\ sendPc[h] = "store" /\ sendPc'[h] = "mac"
        BY <1>1, <2>3 DEF SendStoreCounter
      <3> QED
        BY <1>0, <1>2, <3>1 DEF Assembly
    <2>4. CASE SendMac(h) \/ SendMacSpoilt(h)
      <3>1. /\ data_payload'[h].enc = data_payload[h].enc
            /\ data_payload'[h].torn = data_payload[h].torn
            /\ data_payload'[h].encCounter = data_payload[h].encCounter
            /\ data_payload'[h].counter = data_payload[h].counter
            /\ data_payload'[h].mac \in {kbMac[h], NoSeed}
            /\ sendPc[h] = "mac" /\ sendPc'[h] = "enqueue"
        <4>1. PICK x \in {kbMac[h], NoSeed} : MacedWith(h, x)
          BY <2>4 DEF SendMac, SendMacSpoilt, SentMac
        <4> QED
          BY <1>1, <4>1 DEF MacedWith, Packets
      <3> QED
        BY <1>0, <1>2, <3>1 DEF Assembly
    <2>5. CASE SendEnqueue(h)
      BY <1>1, <2>5 DEF SendEnqueue, Assembly
    <2>6. CASE SendMacFault(h) \/ SendEncryptFault(h)
      BY <1>1, <2>6 DEF SendMacFault, SendEncryptFault, Assembly
    <2>7. CASE SendBegin(h)
      BY <1>1, <2>7 DEF SendBegin, NoClash, Assembly
    <2>8. CASE SendEncryptSpoilt(h)
      <3>1. data_payload[h].torn
        BY <1>0, <2>8 DEF SendEncryptSpoilt, EncryptedWith, Assembly
      <3>2. data_payload'[h].torn
        BY <1>1, <2>8, <3>1 DEF SendEncryptSpoilt, EncryptedWith, Packets
      <3> QED
        BY <3>2 DEF Assembly
    <2> QED
      BY <2>1, <2>2, <2>3, <2>4, <2>5, <2>6, <2>7, <2>8 DEF SendData, SendOn
  <1>6. \A g \in Halves : Assembly(g)'
    BY <1>0, <1>3, <1>5 DEF Assembly
  <1> QED
    BY <1>0, <1>2, <1>4, <1>6 DEF PacketInv, Assembly

\* Adopting a seed replaces both keys and marks the packet under assembly, and so
\* does any callback inside the AES call of its encryption.
LEMMA PacketTxSuccess ==
    ASSUME FullInv, spent["rekeyFault"] = 0, NEW h \in Halves,
           AdoptSeed(h) \/ RejectAck(h) \/ AckFault(h)
    PROVE  PacketInv'
  <1>0. /\ kbEnc = kbMac
        /\ txFifo \in [Halves -> Seq(WholePackets)]
        /\ rxFifo \in [Halves -> Seq(WholePackets)]
        /\ stackPayload \in [Halves -> WholePackets]
        /\ \A g \in Halves : Assembly(g)
    BY DEF FullInv, PacketInv, Assembly
  <1>1. /\ sendPc \in [Halves -> SendPcs] /\ data_payload \in [Halves -> Packets]
        /\ kbCounter \in [Halves -> Counters] /\ kbMac \in [Halves -> Seeds]
        /\ data_payload[h] \in Packets /\ clashed \in [Halves -> BOOLEAN]
    BY DEF FullInv, KeyInv, FieldsOK
  <1>2. UNCHANGED <<sendPc, txFifo, rxFifo, stackPayload>>
    BY DEF AdoptSeed, RejectAck, AckFault, FetchAck
  <1>3. \A g \in Halves \ {h} :
            data_payload'[g] = data_payload[g] /\ clashed'[g] = clashed[g]
    BY <1>1 DEF AdoptSeed, RejectAck, AckFault, FetchAck, Torn
  <1>4. CASE RejectAck(h) \/ AckFault(h)
    <2>1. /\ data_payload'[h].enc = data_payload[h].enc
          /\ data_payload'[h].encCounter = data_payload[h].encCounter
          /\ data_payload'[h].counter = data_payload[h].counter
          /\ data_payload'[h].mac = data_payload[h].mac
          /\ ~ data_payload'[h].torn => ~ data_payload[h].torn /\ ~ CallTears(h)
      <3>1. Torn(h, CallTears(h))
        BY <1>4 DEF RejectAck, AckFault
      <3> QED
        BY <1>1, <3>1 DEF Torn, Packets
    <2>2. UNCHANGED <<kbEnc, kbMac, kbCounter>>
      BY <1>4 DEF RejectAck, AckFault
    <2>3. Assembly(h)'
      BY <1>0, <1>2, <2>1, <2>2 DEF Assembly, CallTears
    <2>4. \A g \in Halves : Assembly(g)'
      BY <1>0, <1>2, <1>3, <2>2, <2>3 DEF Assembly
    <2> QED
      BY <1>0, <1>2, <2>2, <2>4 DEF PacketInv, Assembly
  <1>5. CASE AdoptSeed(h)
    <2>1. kbEnc' = kbMac'
      BY <1>0, <1>5 DEF AdoptSeed
    <2>2. \A g \in Halves \ {h} : kbEnc'[g] = kbEnc[g] /\ kbCounter'[g] = kbCounter[g]
      BY <1>0, <1>1, <1>5 DEF AdoptSeed
    <2>3. /\ data_payload'[h].enc = data_payload[h].enc
          /\ data_payload'[h].encCounter = data_payload[h].encCounter
          /\ data_payload'[h].counter = data_payload[h].counter
          /\ data_payload'[h].mac = data_payload[h].mac
          /\ ~ data_payload'[h].torn => ~ data_payload[h].torn /\ ~ KeyTears(h)
      BY <1>1, <1>5 DEF AdoptSeed, Torn, Packets
    <2>4. Assembly(h)'
      BY <1>0, <1>2, <2>3 DEF Assembly, KeyTears
    <2>5. \A g \in Halves : Assembly(g)'
      BY <1>0, <1>2, <1>3, <2>2, <2>4 DEF Assembly
    <2> QED
      BY <1>0, <1>2, <2>1, <2>5 DEF PacketInv, Assembly
  <1> QED
    BY <1>4, <1>5

LEMMA PacketKeyboardReset ==
    ASSUME FullInv, spent["rekeyFault"] = 0, NEW h \in Halves, KeyboardReset(h)
    PROVE  PacketInv'
  <1>0. /\ kbEnc = kbMac
        /\ txFifo \in [Halves -> Seq(WholePackets)]
        /\ rxFifo \in [Halves -> Seq(WholePackets)]
        /\ stackPayload \in [Halves -> WholePackets]
        /\ \A g \in Halves : Assembly(g)
    BY DEF FullInv, PacketInv, Assembly
  <1>1. /\ sendPc \in [Halves -> SendPcs] /\ data_payload \in [Halves -> Packets]
        /\ kbCounter \in [Halves -> Counters] /\ kbMac \in [Halves -> Seeds]
        /\ clashed \in [Halves -> BOOLEAN]
    BY DEF FullInv, KeyInv, FieldsOK
  <1>2. /\ kbEnc' = kbMac'
        /\ txFifo' \in [Halves -> Seq(WholePackets)]
        /\ UNCHANGED <<rxFifo, stackPayload>>
    BY <1>0 DEF KeyboardReset
  <1>3. Assembly(h)'
    BY <1>1 DEF KeyboardReset, NoClash, Assembly
  <1>4. \A g \in Halves \ {h} : Assembly(g)'
    BY <1>0, <1>1 DEF KeyboardReset, NoClash, Assembly
  <1> QED
    BY <1>0, <1>2, <1>3, <1>4 DEF PacketInv, Assembly

LEMMA PacketLink ==
    ASSUME FullInv, spent["rekeyFault"] = 0, NEW h \in Halves,
           \/ Exchange(h) \/ AckLost(h) \/ PacketLost(h) \/ RxReady(h)
    PROVE  PacketInv'
  <1>0. /\ kbEnc = kbMac
        /\ txFifo \in [Halves -> Seq(WholePackets)]
        /\ rxFifo \in [Halves -> Seq(WholePackets)]
        /\ stackPayload \in [Halves -> WholePackets]
    BY DEF FullInv, PacketInv
  <1>1. UNCHANGED kbVars
    BY DEF Exchange, AckLost, PacketLost, RxReady, Accept, Reject, Collide, PacketFault,
           AcceptPacket, RejectPacket, CollidePacket, CheckFault, DecryptFault
  <1>2. /\ txFifo' \in [Halves -> Seq(WholePackets)]
        /\ rxFifo' \in [Halves -> Seq(WholePackets)]
        /\ stackPayload' \in [Halves -> WholePackets]
    <2>1. ASSUME txFifo[h] # <<>>
          PROVE  /\ Head(txFifo[h]) \in WholePackets
                 /\ [txFifo EXCEPT ![h] = Tail(@)] \in [Halves -> Seq(WholePackets)]
                 /\ [rxFifo EXCEPT ![h] = Append(@, Head(txFifo[h]))]
                        \in [Halves -> Seq(WholePackets)]
      <3>1. Head(txFifo[h]) \in WholePackets
        BY <1>0, <2>1, FifosLemma
      <3> QED
        BY <1>0, <2>1, <3>1, FifosLemma
    <2>2. CASE Exchange(h) \/ AckLost(h)
      BY <1>0, <2>1, <2>2 DEF Exchange, AckLost, HostReceives
    <2>3. CASE PacketLost(h)
      BY <1>0, <2>1, <2>3 DEF PacketLost
    <2>4. CASE RxReady(h)
      <3>1. PICK p \in Fetched(h) : FetchPacket(h, p) /\ UNCHANGED txFifo
        BY <2>4 DEF RxReady, Accept, Reject, Collide, PacketFault, AcceptPacket,
                    RejectPacket, CollidePacket, CheckFault, DecryptFault
      <3>2. p \in WholePackets /\ NoPacket \in WholePackets
        <4>1. rxFifo[h] # <<>> => Head(rxFifo[h]) \in WholePackets
          BY <1>0, FifosLemma
        <4> QED
          BY <1>0, <3>1, <4>1, WholePacketsLemma DEF Fetched
      <3> QED
        BY <1>0, <3>1, <3>2 DEF FetchPacket
    <2> QED
      BY <2>2, <2>3, <2>4
  <1> QED
    BY <1>0, <1>1, <1>2 DEF FullInv, PacketInv, kbVars

LEMMA PacketStep == FullInv /\ [Next]_vars => PacketInv'
  <1> SUFFICES ASSUME FullInv, [Next]_vars PROVE PacketInv'
    OBVIOUS
  <1>0. FieldsOK /\ FieldsOK' /\ spent \in [Spendings -> Nat]
    BY FieldsStep DEF FullInv, KeyInv, FieldsOK
  <1>1. CASE spent'["rekeyFault"] # 0
    BY <1>1 DEF PacketInv
  <1>2. CASE spent'["rekeyFault"] = 0
    <2>1. CASE UNCHANGED vars
      BY <1>2, <2>1 DEF FullInv, PacketInv, vars, kbVars, linkVars
    <2>2. CASE ReceiverReset
      <3>1. spent["rekeyFault"] = 0
        <4>1. Spend("rcvReset")
          BY <2>2 DEF ReceiverReset
        <4> QED
          BY <1>0, <1>2, <4>1, SpendLemma DEF Spendings
      <3>2. <<>> \in Seq(WholePackets)
        OBVIOUS
      <3> QED
        BY <2>2, <3>1, <3>2, WholePacketsLemma
           DEF ReceiverReset, FullInv, PacketInv, kbVars
    <2>3. ASSUME NEW h \in Halves,
                 \/ SendData(h) \/ TxSuccess(h) \/ KeyboardReset(h)
                 \/ Exchange(h) \/ AckLost(h) \/ PacketLost(h)
          PROVE  PacketInv'
      <3>1. spent["rekeyFault"] = 0
        BY <1>0, <1>2, <2>3, OutsideLemma
      <3>2. ~ AdoptFault(h)
        <4> SUFFICES ASSUME AdoptFault(h) PROVE FALSE
          OBVIOUS
        <4>1. Spend("rekeyFault")
          BY DEF AdoptFault
        <4> QED
          BY <1>0, <1>2, <4>1, SpendLemma DEF Spendings
      <3> QED
        BY <2>3, <3>1, <3>2, PacketSend, PacketTxSuccess, PacketKeyboardReset,
           PacketLink DEF TxSuccess
    <2>4. ASSUME NEW h \in Halves, RxReady(h)
          PROVE  PacketInv'
      <3>1. spent["rekeyFault"] = 0
        BY <1>0, <1>2, <2>4, SpendRxReady
      <3> QED
        BY <2>4, <3>1, PacketLink
    <2>5. ASSUME NEW h \in Halves, UpdateRekeyState(h)
          PROVE  PacketInv'
      <3>1. UNCHANGED <<kbVars, linkVars>>
        BY <2>5 DEF UpdateRekeyState, LoopIdle, GatherByte, GatherLast, SkipZero,
                    RekeyBegin, RekeyEnc, RekeyMac, RekeyFault, SealBegin, Seal,
                    SealMac, SealFault
      <3>2. spent["rekeyFault"] = 0
        <4>1. CASE RekeyFault(h)
          <5>1. Spend("rekeyFault")
            BY <4>1 DEF RekeyFault
          <5> QED
            BY <1>0, <1>2, <5>1, SpendLemma DEF Spendings
        <4>2. CASE SealFault(h)
          <5>1. Spend("sealFault")
            BY <4>2 DEF SealFault
          <5> QED
            BY <1>0, <1>2, <5>1, SpendLemma DEF Spendings
        <4>3. CASE UNCHANGED spent
          BY <1>2, <4>3
        <4> QED
          BY <2>5, <4>1, <4>2, <4>3
             DEF UpdateRekeyState, LoopIdle, GatherByte, GatherLast, SkipZero,
                 RekeyBegin, RekeyEnc, RekeyMac, SealBegin, Seal, SealMac
      <3> QED
        BY <3>1, <3>2 DEF FullInv, PacketInv, kbVars, linkVars
    <2> QED
      BY <2>1, <2>2, <2>3, <2>4, <2>5 DEF Next
  <1> QED
    BY <1>1, <1>2

\* A packet the callback accepts, and whose assembly on the half no acknowledgement
\* callback tore, decrypts to what the half encrypted.
THEOREM AcceptedPacketsAlwaysDecrypt == Spec => AcceptedPacketsDecrypt
  <1> DEFINE A == spent.rekeyFault = 0 =>
                    \A h \in Halves : \A p \in Fetched(h) :
                        AcceptPacket(h, p) /\ ~ p.torn => Decrypts(h, p)
  <1>1. Init => FullInv
    BY KeyInit, PacketInit DEF FullInv
  <1>2. FullInv /\ [Next]_vars => FullInv'
    BY KeyStep, PacketStep DEF FullInv
  <1>3. ASSUME FullInv PROVE A
    <2> SUFFICES ASSUME spent.rekeyFault = 0, NEW h \in Halves, NEW p \in Fetched(h),
                        AcceptPacket(h, p), ~ p.torn
                 PROVE  Decrypts(h, p)
      OBVIOUS
    <2>1. p \in WholePackets
      <3>1. rxFifo \in [Halves -> Seq(WholePackets)] /\ stackPayload[h] \in WholePackets
        BY <1>3 DEF FullInv, PacketInv
      <3>2. rxFifo[h] # <<>> => Head(rxFifo[h]) \in WholePackets
        BY <3>1, FifosLemma
      <3> QED
        BY <3>1, <3>2, WholePacketsLemma DEF Fetched
    <2>2. ~ decrypting /\ Verifies(h, p)
      BY DEF AcceptPacket, LockFree
    <2>3. p.enc = p.mac /\ p.encCounter = p.counter /\ p.id \in KeyIds
      BY <2>1, <2>2 DEF WholePackets, Packets, Verifies
    <2>4. Slot(p.id) \in Slots
      BY <2>3, IdLemma
    <2>5. ctxEnc[h][Slot(p.id)] = ctxMac[h][Slot(p.id)]
      BY <1>3, <2>4, <2>2 DEF FullInv, KeyInv, LockInv, ContextInv, DerivingMac, Critical
    <2> QED
      BY <2>3, <2>2, <2>5 DEF Verifies, Decrypts
  <1>4. FullInv => [A]_vars
    BY <1>3
  <1> HIDE DEF A
  <1>5. Spec => [][A]_vars
    BY <1>1, <1>2, <1>4, PTL DEF Spec
  <1> QED
    BY <1>5 DEF AcceptedPacketsDecrypt, A

\* The conjunction a run checks as one invariant: the fields keep their types, the
\* lock is held exactly while the crypto unit is in use, the contexts agree with the
\* key ids they are named by, and an accepted packet was sealed by its own half.
THEOREM InductiveInvHolds == Spec => []InductiveInv
  <1>1. Init => FullInv
    BY KeyInit, PacketInit DEF FullInv
  <1>2. FullInv /\ [Next]_vars => FullInv'
    BY KeyStep, PacketStep DEF FullInv
  <1>3. FullInv => InductiveInv
    BY DEF FullInv, KeyInv, InductiveInv
  <1> QED
    BY <1>1, <1>2, <1>3, PTL DEF Spec
=============================================================================
