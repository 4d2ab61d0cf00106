-------------------------- MODULE RekeyOrderProofs --------------------------
(***************************************************************************)
(* Proofs that the keys between a half and the receiver stay in the order  *)
(* of module RekeyOrder, and that the receiver therefore confirms only     *)
(* what it offers.  RekeyCircleProofs says what each move of a key does;   *)
(* here each action of Rekey is such a move.                               *)
(***************************************************************************)
EXTENDS RekeyProofs, RekeyCircleProofs

OrderedKeys == KeyInv /\ KeyOrder

-----------------------------------------------------------------------------
(* The circle of a half.                                                   *)

LEMMA CircleTypeLemma ==
    ASSUME FieldsOK, NEW h \in Halves
    PROVE  CircleType(Circle(h))
  BY DEF FieldsOK, CircleType, Circle, AckPayloads

LEMMA CircleLemma ==
    ASSUME OrderedKeys, NEW h \in Halves
    PROVE  CircleInv(Circle(h), drawn) /\ drawn \in Nat
  <1>1. FieldsOK /\ KeyOrder
    BY DEF OrderedKeys, KeyInv
  <1>2. drawn \in Nat
    BY <1>1, BoundsAssumption DEF FieldsOK
  <1> QED
    BY <1>1, <1>2, CircleTypeLemma DEF KeyOrder, CircleInv, FlowInv

\* What the main loop and the radio leave of a half's circle, as the next step finds it.
InOrderNext(h) == (KeysInv(Circle(h)) /\ FlowInv(Circle(h), drawn))'

\* A circle that does not change stays in order, whatever is drawn for another half.
LEMMA StillLemma ==
    ASSUME OrderedKeys, NEW h \in Halves, UNCHANGED Circle(h),
           drawn' \in {drawn, drawn + 1}
    PROVE  InOrderNext(h)
  <1> DEFINE c == Circle(h)
  <1>1. CircleInv(c, drawn) /\ drawn \in Nat
    BY CircleLemma
  <1>2. drawn' \in Nat /\ drawn <= drawn'
    BY <1>1
  <1>3. \A s \in Seeds : s <= drawn => s <= drawn'
    BY <1>1, <1>2, SeedsAreIntegers
  <1>4. SeedsInv(c, drawn')
    <2>1. CircleType(c) /\ SeedsInv(c, drawn)
      BY <1>1 DEF CircleInv, FlowInv
    <2> HIDE DEF c
    <2>2. /\ \A u \in UsersIn(c) : u.mac \in Seeds
          /\ \A a \in OffersIn(c) : a.seed \in Seeds
      <3>1. /\ Elements(c.txFifo) \subseteq Packets /\ Elements(c.rxFifo) \subseteq Packets
            /\ Elements(c.ackFifo) \subseteq AckPayloads
            /\ Elements(c.ackRx) \subseteq AckPayloads
        BY <2>1, ElementsLemma DEF CircleType
      <3> QED
        BY <2>1, <3>1 DEF CircleType, UsersIn, PacketsIn, OnAir, Received, OffersIn,
                          Packets, AckPayloads
    <2>3. c.ctxMac[1] \in Seeds /\ c.ctxMac[2] \in Seeds /\ c.seed \in Seeds
      BY <2>1 DEF CircleType, Slots
    <2> QED
      BY <1>3, <2>1, <2>2, <2>3 DEF SeedsInv
  <1>5. KeysInv(c) /\ FlowInv(c, drawn')
    BY <1>1, <1>4 DEF CircleInv, FlowInv
  <1>6. c' = c
    OBVIOUS
  <1> HIDE DEF c
  <1>7. KeysInv(c') /\ FlowInv(c', drawn')
    BY <1>5, <1>6
  <1> QED
    BY <1>7 DEF InOrderNext, c

-----------------------------------------------------------------------------
(* The ids.                                                                *)

Ids(h) == IdsInv(h) /\ PayloadIdInv(h)

LEMMA SuccessorLemma ==
    /\ \A id \in KeyIds : NextKeyId(id) = 0 <=> id = KeyIdMod - 1
    /\ SkippingZero(NextKeyId(0)) = 1
    /\ SkippingZero(0) = 1
    /\ KeyIdMod - 1 \in KeyIds /\ KeyIdMod - 1 > 2
  BY KeyIdAssumption DEF KeyIds, NextKeyId, SkippingZero

LEMMA IdsGather ==
    ASSUME OrderedKeys, NEW h \in Halves, GatherLast(h)
    PROVE  \A g \in Halves : Ids(g)'
  <1> SUFFICES ASSUME NEW g \in Halves PROVE Ids(g)'
    OBVIOUS
  <1>1. FieldsOK /\ IdsInv(g) /\ PayloadIdInv(g)
    BY DEF OrderedKeys, KeyInv, KeyOrder
  <1>2. /\ mainPc = "loop" /\ turn = h /\ state[h] = "key_not_ready"
        /\ state' = [state EXCEPT ![h] = "seed_ready"] /\ UNCHANGED key_id
    BY DEF GatherLast, AtState
  <1>3. ack_payload'[g].id = ack_payload[g].id
    BY <1>1 DEF GatherLast, FieldsOK
  <1>4. CASE g # h
    <2>1. /\ state'[g] = state[g] /\ new_key_id'[g] = new_key_id[g]
          /\ key_id'[g] = key_id[g]
          /\ mainPc' = "skip_zero" => turn' = h
          /\ mainPc' \in {"loop", "skip_zero"}
      BY <1>1, <1>2, <1>4 DEF GatherLast, NextTurn, FieldsOK
    <2> QED
      BY <1>1, <1>2, <1>3, <1>4, <2>1 DEF Ids, IdsInv, PayloadIdInv
  <1>5. CASE g = h
    <2>1. state'[g] = "seed_ready" /\ key_id'[g] = key_id[g] /\ key_id[g] \in KeyIds
      BY <1>1, <1>2, <1>5 DEF FieldsOK
    <2>2. CASE NextKeyId(key_id[h]) = 0 /\ StoresZero
      <3>1. new_key_id'[g] = 0 /\ mainPc' = "skip_zero" /\ turn' = h
        BY <1>1, <1>2, <1>5, <2>2 DEF GatherLast, FieldsOK
      <3> QED
        BY <1>5, <2>1, <2>2, <3>1, SuccessorLemma DEF Ids, IdsInv, PayloadIdInv
    <2>3. CASE ~ (NextKeyId(key_id[h]) = 0 /\ StoresZero)
      <3>1. new_key_id'[g] = SkippingZero(NextKeyId(key_id[g])) /\ mainPc' = "loop"
        BY <1>1, <1>2, <1>5, <2>3 DEF GatherLast, NextTurn, FieldsOK
      <3> QED
        BY <1>5, <2>1, <3>1 DEF Ids, IdsInv, PayloadIdInv
    <2> QED
      BY <2>2, <2>3
  <1> QED
    BY <1>4, <1>5

LEMMA IdsSkipZero ==
    ASSUME OrderedKeys, NEW h \in Halves, SkipZero(h)
    PROVE  \A g \in Halves : Ids(g)'
  <1> SUFFICES ASSUME NEW g \in Halves PROVE Ids(g)'
    OBVIOUS
  <1>1. FieldsOK /\ LockInv /\ IdsInv(g) /\ PayloadIdInv(g)
    BY DEF OrderedKeys, KeyInv, KeyOrder
  <1>2. /\ mainPc = "skip_zero" /\ turn = h /\ mainPc' = "loop"
        /\ UNCHANGED <<state, key_id, ack_payload>>
    BY DEF SkipZero, NextTurn
  <1>3. CASE g # h
    <2>1. new_key_id'[g] = new_key_id[g]
      BY <1>1, <1>3 DEF SkipZero, FieldsOK
    <2> QED
      BY <1>1, <1>2, <1>3, <2>1 DEF Ids, IdsInv, PayloadIdInv
  <1>4. CASE g = h
    <2>1. StoresZero /\ new_key_id[g] = 0
      BY <1>1, <1>2, <1>4 DEF IdsInv
    <2>2. new_key_id'[g] = 1
      BY <1>1, <1>4, <2>1, SuccessorLemma DEF SkipZero, FieldsOK
    <2>3. state[g] \in {"key_not_ready", "seed_ready"}
      BY <1>1, <1>2, <1>4 DEF LockInv
    <2>4. state[g] = "key_not_ready" => key_id[g] = 0
      BY <1>1, <2>1 DEF IdsInv
    <2>5. state[g] = "seed_ready" => new_key_id'[g] = SkippingZero(NextKeyId(key_id[g]))
      <3>1. key_id[g] \in KeyIds
        BY <1>1 DEF FieldsOK
      <3>2. SkippingZero(NextKeyId(key_id[g])) # 0
        BY <3>1, IdLemma
      <3>3. state[g] = "seed_ready" => key_id[g] = KeyIdMod - 1
        BY <1>1, <2>1, <3>2 DEF IdsInv
      <3> QED
        BY <2>2, <3>1, <3>3, SuccessorLemma
    <2> QED
      BY <1>2, <2>1, <2>2, <2>3, <2>4, <2>5 DEF Ids, IdsInv, PayloadIdInv
  <1> QED
    BY <1>3, <1>4

\* The rest of the main loop moves no id but that of the payload it seals.
LEMMA IdsDerive ==
    ASSUME OrderedKeys, NEW h \in Halves,
           \/ LoopIdle(h) \/ GatherByte(h) \/ RekeyBegin(h) \/ RekeyEnc(h)
           \/ RekeyMac(h) \/ RekeyFault(h)
    PROVE  \A g \in Halves : Ids(g)'
  <1> SUFFICES ASSUME NEW g \in Halves PROVE Ids(g)'
    OBVIOUS
  <1>1. FieldsOK /\ LockInv /\ IdsInv(g) /\ PayloadIdInv(g)
    BY DEF OrderedKeys, KeyInv, KeyOrder
  <1>2. /\ mainPc' \in {"loop", "rekey_enc", "rekey_mac"} /\ mainPc # "skip_zero"
        /\ UNCHANGED <<key_id, new_key_id, ack_payload>>
        /\ \/ UNCHANGED state
           \/ mainPc = "rekey_mac" /\ turn = h /\ state' = [state EXCEPT ![h] = "new_key_ready"]
    BY DEF LoopIdle, GatherByte, RekeyBegin, RekeyEnc, RekeyMac, RekeyFault, AtState,
           NextTurn, Lock, Unlock, keyVars
  <1>3. UNCHANGED state => Ids(g)'
    BY <1>1, <1>2 DEF Ids, IdsInv, PayloadIdInv
  <1>4. ASSUME mainPc = "rekey_mac", turn = h,
               state' = [state EXCEPT ![h] = "new_key_ready"]
        PROVE  Ids(g)'
    <2>1. state[h] = "seed_ready" /\ (g # h => state'[g] = state[g])
          /\ (g = h => state'[g] = "new_key_ready")
      BY <1>1, <1>4 DEF LockInv, FieldsOK
    <2> QED
      BY <1>1, <1>2, <2>1 DEF Ids, IdsInv, PayloadIdInv
  <1> QED
    BY <1>2, <1>3, <1>4

LEMMA IdsSeal ==
    ASSUME OrderedKeys, NEW h \in Halves,
           SealBegin(h) \/ Seal(h) \/ SealMac(h) \/ SealFault(h)
    PROVE  \A g \in Halves : Ids(g)'
  <1> SUFFICES ASSUME NEW g \in Halves PROVE Ids(g)'
    OBVIOUS
  <1>1. FieldsOK /\ LockInv /\ IdsInv(g) /\ PayloadIdInv(g)
    BY DEF OrderedKeys, KeyInv, KeyOrder
  <1>2. /\ UNCHANGED <<key_id, new_key_id>> /\ turn = h /\ mainPc # "skip_zero"
        /\ mainPc' \in {"seal", "seal_mac", "loop"}
        /\ mainPc' # "loop" => turn' = h
    BY DEF SealBegin, Seal, SealMac, SealFault, Lock, AtState, Unlock, NextTurn, keyVars
  <1>3. state[h] = "new_key_ready"
    BY <1>1 DEF LockInv, SealBegin, Seal, SealMac, SealFault, Lock, AtState
  <1>4. CASE g # h
    <2>1. state'[g] = state[g] /\ ack_payload'[g] = ack_payload[g]
      BY <1>1, <1>4 DEF SealBegin, Seal, SealMac, SealFault, keyVars, FieldsOK
    <2> QED
      BY <1>1, <1>2, <1>4, <2>1 DEF Ids, IdsInv, PayloadIdInv
  <1>5. CASE g = h
    <2>1. state'[g] \in {"new_key_ready", "new_key_payload_ready"}
      BY <1>1, <1>3, <1>5 DEF SealBegin, Seal, SealMac, SealFault, keyVars, FieldsOK
    <2>2. IdsInv(g)'
      BY <1>1, <1>2, <1>3, <1>5, <2>1 DEF IdsInv
    <2>3. CASE SealBegin(h)
      <3>1. ack_payload'[g].id = new_key_id'[g]
        BY <1>1, <1>5, <2>3 DEF SealBegin, FieldsOK, AckPayloads
      <3> QED
        BY <2>2, <3>1 DEF Ids, PayloadIdInv
    <2>4. CASE Seal(h) \/ SealMac(h)
      <3>1. ack_payload'[g].id = ack_payload[g].id /\ mainPc \in {"seal", "seal_mac"}
        BY <1>1, <1>5, <2>4 DEF Seal, SealMac, FieldsOK, AckPayloads
      <3> QED
        BY <1>1, <1>2, <1>5, <2>2, <3>1 DEF Ids, PayloadIdInv
    <2>5. CASE SealFault(h)
      <3>1. state'[g] = "new_key_ready" /\ mainPc' = "loop"
        BY <1>3, <1>5, <2>5 DEF SealFault, Unlock, NextTurn, keyVars
      <3> QED
        BY <2>2, <3>1 DEF Ids, PayloadIdInv
    <2> QED
      BY <2>3, <2>4, <2>5
  <1> QED
    BY <1>4, <1>5

LEMMA IdsRxReady ==
    ASSUME OrderedKeys, NEW h \in Halves, RxReady(h)
    PROVE  \A g \in Halves : Ids(g)'
  <1> SUFFICES ASSUME NEW g \in Halves PROVE Ids(g)'
    OBVIOUS
  <1>1. FieldsOK /\ LockInv /\ IdsInv(g) /\ PayloadIdInv(g)
    BY DEF OrderedKeys, KeyInv, KeyOrder
  <1>2. /\ UNCHANGED <<new_key_id, ack_payload, mainVars>>
        /\ \/ UNCHANGED <<state, key_id>>
           \/ /\ ~ decrypting
              /\ key_id' = [key_id EXCEPT ![h] = new_key_id[h]]
              /\ state' = [state EXCEPT ![h] = "key_not_ready"]
    BY DEF LockFree, RxReady, Accept, Reject, Collide, PacketFault, AcceptPacket,
           RejectPacket, CollidePacket, CheckFault, DecryptFault, keyVars
  <1>3. UNCHANGED <<state, key_id>> => Ids(g)'
    BY <1>1, <1>2 DEF Ids, IdsInv, PayloadIdInv, mainVars
  <1>4. ASSUME ~ decrypting, key_id' = [key_id EXCEPT ![h] = new_key_id[h]],
               state' = [state EXCEPT ![h] = "key_not_ready"]
        PROVE  Ids(g)'
    <2>1. /\ g # h => state'[g] = state[g] /\ key_id'[g] = key_id[g]
          /\ g = h => state'[g] = "key_not_ready" /\ key_id'[g] = new_key_id[g]
      BY <1>1, <1>4 DEF FieldsOK
    <2>2. mainPc \notin {"seal", "seal_mac"}
      BY <1>1, <1>4 DEF LockInv, Critical
    <2> QED
      BY <1>1, <1>2, <2>1, <2>2 DEF Ids, IdsInv, PayloadIdInv, mainVars
  <1> QED
    BY <1>2, <1>3, <1>4

LEMMA IdsStep ==
    ASSUME OrderedKeys, [Next]_vars
    PROVE  \A g \in Halves : Ids(g)'
  <1>1. FieldsOK /\ \A g \in Halves : Ids(g)
    BY DEF OrderedKeys, KeyInv, KeyOrder, Ids
  <1>2. ASSUME UNCHANGED <<keyVars, mainVars>>
        PROVE  \A g \in Halves : Ids(g)'
    BY <1>1, <1>2 DEF Ids, IdsInv, PayloadIdInv, keyVars, mainVars
  <1>3. CASE ReceiverReset
    BY <1>3 DEF ReceiverReset, Ids, IdsInv, PayloadIdInv
  <1>4. CASE UNCHANGED vars
    BY <1>2, <1>4 DEF vars
  <1>5. ASSUME NEW h \in Halves,
               \/ SendData(h) \/ TxSuccess(h) \/ KeyboardReset(h)
               \/ Exchange(h) \/ AckLost(h) \/ PacketLost(h)
        PROVE  \A g \in Halves : Ids(g)'
    BY <1>1, <1>2, <1>5, OutsideLemma
  <1>6. ASSUME NEW h \in Halves, RxReady(h) \/ UpdateRekeyState(h)
        PROVE  \A g \in Halves : Ids(g)'
    BY <1>6, IdsRxReady, IdsGather, IdsSkipZero, IdsDerive, IdsSeal DEF UpdateRekeyState
  <1> QED
    BY <1>3, <1>4, <1>5, <1>6 DEF Next

-----------------------------------------------------------------------------
(* The half and the radio.                                                 *)

\* The seed drawn last stays, and so do the circles of the other halves.
Elsewhere(h) == drawn' = drawn /\ \A g \in Halves \ {h} : UNCHANGED Circle(g)

LEMMA MovesSend ==
    ASSUME OrderedKeys, NEW h \in Halves, SendData(h)
    PROVE  /\ Elsewhere(h)
           /\ \/ Loses(Circle(h), Circle(h)') \/ Signs(Circle(h), Circle(h)')
              \/ Sends(Circle(h), Circle(h)')
  <1> DEFINE v == Circle(h)
             w == Circle(h)'
  <1>0. FieldsOK /\ CircleInv(v, drawn) /\ drawn \in Nat
    BY CircleLemma DEF OrderedKeys, KeyInv
  <1>1. UNCHANGED <<kbKeyId, kbMac, ackRx, ackFifo, rxFifo, stackPayload, keyVars, drawn>>
    BY DEF SendData, SendOn, SendBegin, SendEncrypt, SendEncryptSpoilt, SendEncryptFault,
           EncryptedWith, SendReadCounter, SendStoreCounter, SendMac, SendMacSpoilt,
           SendMacFault, MacedWith, SendEnqueue, linkVars
  <1>2. \A g \in Halves \ {h} : data_payload'[g] = data_payload[g] /\ txFifo'[g] = txFifo[g]
    BY <1>0 DEF SendData, SendOn, SendBegin, SendEncrypt, SendEncryptSpoilt,
                SendEncryptFault, EncryptedWith, SendReadCounter, SendStoreCounter, SendMac,
                SendMacSpoilt, SendMacFault, MacedWith, SendEnqueue, linkVars, FieldsOK
  <1>3. Elsewhere(h)
    BY <1>1, <1>2 DEF Elsewhere, Circle, keyVars
  <1>4. /\ SameKeys(v, w) /\ w.ackFifo = v.ackFifo /\ w.ackRx = v.ackRx /\ w.kb = v.kb
        /\ w.rxFifo = v.rxFifo /\ w.stackPayload = v.stackPayload
    BY <1>1 DEF SameKeys, Circle, keyVars
  <1>5. /\ v.data_payload = data_payload[h] /\ w.data_payload = data_payload'[h]
        /\ v.txFifo = txFifo[h] /\ w.txFifo = txFifo'[h]
        /\ v.kb.macId = kbKeyId[h] /\ v.kb.mac = kbMac[h]
    BY DEF Circle
  <1>6. Received(w) = Received(v)
    BY <1>4 DEF Received
  <1>7. Loses(v, w) \/ Signs(v, w) \/ Sends(v, w)
    <2>1. CASE ~ (SendMac(h) \/ SendMacSpoilt(h) \/ SendEnqueue(h))
      <3>1. txFifo' = txFifo
        BY <2>1 DEF SendData, SendOn, SendBegin, SendEncrypt, SendEncryptSpoilt,
                    SendEncryptFault, EncryptedWith, SendReadCounter, SendStoreCounter,
                    SendMacFault, linkVars
      <3>2. \/ data_payload'[h] = NoPacket
            \/ /\ data_payload'[h].macId = data_payload[h].macId
               /\ data_payload'[h].mac = data_payload[h].mac
        <4>1. data_payload[h] \in Packets /\ data_payload \in [Halves -> Packets]
          BY <1>0 DEF FieldsOK
        <4>2. CASE SendBegin(h)
          BY <4>1, <4>2 DEF SendBegin, Packets
        <4>3. CASE SendEncrypt(h) \/ SendEncryptSpoilt(h)
          <5>1. PICK s : EncryptedWith(h, s)
            BY <4>3 DEF SendEncrypt, SendEncryptSpoilt
          <5> QED
            BY <4>1, <5>1 DEF EncryptedWith, Packets
        <4>4. CASE SendReadCounter(h)
          BY <4>1, <4>4 DEF SendReadCounter, Packets
        <4>5. CASE SendStoreCounter(h) \/ SendEncryptFault(h) \/ SendMacFault(h)
          BY <4>1, <4>5 DEF SendStoreCounter, SendEncryptFault, SendMacFault
        <4> QED
          BY <2>1, <4>2, <4>3, <4>4, <4>5 DEF SendData, SendOn
      <3>3. Fades(w.data_payload, v.data_payload)
        BY <1>5, <3>2 DEF Fades, Empty, NoPacket
      <3>4. Loses(v, w)
        BY <1>4, <1>5, <1>6, <3>1, <3>3 DEF Loses, Shrinks, Fades
      <3> QED
        BY <3>4
    <2>2. CASE SendMac(h) \/ SendMacSpoilt(h)
      <3>1. /\ txFifo' = txFifo
            /\ data_payload'[h].macId = kbKeyId[h]
            /\ data_payload'[h].mac \in {kbMac[h], NoSeed}
        <4>1. PICK s \in {kbMac[h], NoSeed} : MacedWith(h, s)
          BY <2>2 DEF SendMac, SendMacSpoilt, SentMac
        <4> QED
          BY <1>0, <4>1 DEF MacedWith, linkVars, FieldsOK, Packets
      <3>2. Signs(v, w)
        BY <1>4, <1>5, <3>1 DEF Signs
      <3> QED
        BY <3>2
    <2>3. CASE SendEnqueue(h)
      <3>1. Empty(w.data_payload)
        BY <1>0, <1>5, <2>3 DEF SendEnqueue, Empty, NoPacket, FieldsOK
      <3>2. CASE Len(txFifo[h]) < FifoCap
        <4> DEFINE x == [data_payload[h] EXCEPT !.id = kbKeyId[h]]
        <4>1. data_payload[h] \in Packets /\ kbKeyId[h] \in KeyIds
          BY <1>0 DEF FieldsOK
        <4>2. x \in Packets
          BY <4>1, PacketLemma
        <4>3. x.macId = data_payload[h].macId /\ x.mac = data_payload[h].mac
          BY <4>1 DEF Packets
        <4>4. txFifo'[h] = Append(txFifo[h], x)
          BY <1>0, <2>3, <3>2 DEF SendEnqueue, FieldsOK
        <4> HIDE DEF x
        <4>5. Sends(v, w)
          BY <1>4, <1>5, <3>1, <4>2, <4>3, <4>4 DEF Sends
        <4> QED
          BY <4>5
      <3>3. CASE ~ (Len(txFifo[h]) < FifoCap)
        <4>1. txFifo' = txFifo
          BY <2>3, <3>3 DEF SendEnqueue
        <4>2. Loses(v, w)
          BY <1>4, <1>5, <1>6, <3>1, <4>1 DEF Loses, Shrinks, Fades
        <4> QED
          BY <4>2
      <3> QED
        BY <3>2, <3>3
    <2> QED
      BY <2>1, <2>2, <2>3
  <1> QED
    BY <1>3, <1>7

LEMMA MovesTxSuccess ==
    ASSUME OrderedKeys, NEW h \in Halves, TxSuccess(h)
    PROVE  /\ Elsewhere(h)
           /\ \/ Drops(Circle(h), Circle(h)')
              \/ /\ AdoptSeed(h) \/ AdoptFault(h)
                 /\ Adopts(Circle(h), Circle(h)')
  <1> DEFINE v == Circle(h)
             w == Circle(h)'
  <1>0. FieldsOK /\ CircleInv(v, drawn) /\ drawn \in Nat
    BY CircleLemma DEF OrderedKeys, KeyInv
  <1>1. /\ FetchAck(h)
        /\ UNCHANGED <<txFifo, ackFifo, rxFifo, stackPayload, keyVars, drawn>>
    BY DEF TxSuccess, AdoptSeed, RejectAck, AckFault, AdoptFault, FetchAck
  <1>2. /\ ackRx[h] # <<>> /\ ackRx'[h] = Tail(ackRx[h])
        /\ \A g \in Halves \ {h} : ackRx'[g] = ackRx[g]
    BY <1>0, <1>1 DEF FetchAck, FieldsOK
  <1>3. /\ data_payload'[h].macId = data_payload[h].macId
        /\ data_payload'[h].mac = data_payload[h].mac
        /\ \A g \in Halves \ {h} : /\ data_payload'[g] = data_payload[g]
                                   /\ kbKeyId'[g] = kbKeyId[g] /\ kbMac'[g] = kbMac[g]
    BY <1>0 DEF TxSuccess, AdoptSeed, RejectAck, AckFault, AdoptFault, Torn, FieldsOK,
                Packets
  <1>4. Elsewhere(h)
    BY <1>1, <1>2, <1>3 DEF Elsewhere, Circle, keyVars
  <1>5. /\ SameKeys(v, w) /\ w.ackFifo = v.ackFifo /\ w.txFifo = v.txFifo
        /\ w.rxFifo = v.rxFifo /\ w.stackPayload = v.stackPayload
    BY <1>1 DEF SameKeys, Circle, keyVars
  <1>6. /\ v.data_payload = data_payload[h] /\ w.data_payload = data_payload'[h]
        /\ v.ackRx = ackRx[h] /\ w.ackRx = ackRx'[h]
        /\ v.kb = [macId |-> kbKeyId[h], mac |-> kbMac[h]]
        /\ w.kb = [macId |-> kbKeyId'[h], mac |-> kbMac'[h]]
    BY DEF Circle
  <1>7. Drops(v, w) \/ ((AdoptSeed(h) \/ AdoptFault(h)) /\ Adopts(v, w))
    <2>1. CASE RejectAck(h) \/ AckFault(h)
      <3>1. kbKeyId' = kbKeyId /\ kbMac' = kbMac
        BY <2>1 DEF RejectAck, AckFault
      <3>2. Drops(v, w)
        BY <1>2, <1>3, <1>5, <1>6, <3>1 DEF Drops, Loses, Shrinks, Fades, Received
      <3> QED
        BY <3>2
    <2>2. CASE AdoptSeed(h) \/ AdoptFault(h)
      <3>1. Head(ackRx[h]).macOk
        BY <2>2 DEF AdoptSeed, AdoptFault, AckVerifies
      <3>2. kbKeyId'[h] = Head(ackRx[h]).id
        BY <1>0, <2>2 DEF AdoptSeed, AdoptFault, FieldsOK
      <3>3. kbMac'[h] \in {DecryptedSeed(Head(ackRx[h])), kbMac[h], NoSeed}
        BY <1>0, <2>2 DEF AdoptSeed, AdoptFault, Mixed, FieldsOK
      <3>4. Adopts(v, w)
        BY <1>2, <1>3, <1>5, <1>6, <3>1, <3>2, <3>3 DEF Adopts
      <3> QED
        BY <2>2, <3>4
    <2> QED
      BY <2>1, <2>2 DEF TxSuccess
  <1> QED
    BY <1>4, <1>7

LEMMA MovesKeyboardReset ==
    ASSUME OrderedKeys, NEW h \in Halves, KeyboardReset(h)
    PROVE  Elsewhere(h) /\ Loses(Circle(h), Circle(h)')
  <1> DEFINE v == Circle(h)
             w == Circle(h)'
  <1>0. FieldsOK /\ CircleInv(v, drawn) /\ drawn \in Nat
    BY CircleLemma DEF OrderedKeys, KeyInv
  <1>1. UNCHANGED <<ackFifo, rxFifo, stackPayload, keyVars, drawn>>
    BY DEF KeyboardReset
  <1>2. Elsewhere(h)
    BY <1>0, <1>1 DEF Elsewhere, Circle, keyVars, KeyboardReset, FieldsOK
  <1>3. /\ SameKeys(v, w) /\ w.ackFifo = v.ackFifo
        /\ w.rxFifo = v.rxFifo /\ w.stackPayload = v.stackPayload
    BY <1>1 DEF SameKeys, Circle, keyVars
  <1>4. /\ w.data_payload = NoPacket /\ w.kb = [macId |-> 0, mac |-> 0]
        /\ w.txFifo = <<>> /\ w.ackRx = <<>>
    BY <1>0 DEF Circle, KeyboardReset, FieldsOK
  <1>5. Loses(v, w)
    BY <1>3, <1>4 DEF Loses, Shrinks, Fades, Empty, CompiledIn, NoPacket, Received
  <1> QED
    BY <1>2, <1>5

LEMMA MovesLink ==
    ASSUME OrderedKeys, NEW h \in Halves,
           Exchange(h) \/ AckLost(h) \/ PacketLost(h)
    PROVE  /\ Elsewhere(h)
           /\ Drops(Circle(h), Circle(h)') \/ Passes(Circle(h), Circle(h)')
  <1> DEFINE v == Circle(h)
             w == Circle(h)'
             m == [v EXCEPT !.txFifo = Tail(@), !.rxFifo = Append(@, Head(v.txFifo))]
  <1>0. FieldsOK /\ CircleInv(v, drawn) /\ drawn \in Nat
    BY CircleLemma DEF OrderedKeys, KeyInv
  <1>1. UNCHANGED <<stackPayload, kbVars, keyVars, drawn>>
    BY DEF Exchange, AckLost, PacketLost
  <1>2. \A g \in Halves \ {h} : /\ txFifo'[g] = txFifo[g] /\ rxFifo'[g] = rxFifo[g]
                                /\ ackFifo'[g] = ackFifo[g] /\ ackRx'[g] = ackRx[g]
    <2>1. /\ txFifo \in [Halves -> Seq(Packets)] /\ rxFifo \in [Halves -> Seq(Packets)]
          /\ ackFifo \in [Halves -> Seq(AckPayloads)]
          /\ ackRx \in [Halves -> Seq(AckPayloads)]
      BY <1>0 DEF FieldsOK
    <2>2. CASE Exchange(h)
      BY <2>1, <2>2 DEF Exchange, HostReceives
    <2>3. CASE AckLost(h)
      BY <2>1, <2>3 DEF AckLost, HostReceives
    <2>4. CASE PacketLost(h)
      BY <2>1, <2>4 DEF PacketLost
    <2> QED
      BY <2>2, <2>3, <2>4
  <1>3. Elsewhere(h)
    BY <1>1, <1>2 DEF Elsewhere, Circle, keyVars, kbVars
  <1>4. /\ SameKeys(v, w) /\ w.kb = v.kb /\ w.data_payload = v.data_payload
        /\ w.stackPayload = v.stackPayload
    BY <1>1 DEF SameKeys, Circle, keyVars, kbVars
  <1>5. /\ v.txFifo = txFifo[h] /\ w.txFifo = txFifo'[h]
        /\ v.rxFifo = rxFifo[h] /\ w.rxFifo = rxFifo'[h]
        /\ v.ackFifo = ackFifo[h] /\ w.ackFifo = ackFifo'[h]
        /\ v.ackRx = ackRx[h] /\ w.ackRx = ackRx'[h]
    BY DEF Circle
  <1>6. v.txFifo # <<>> /\ w.txFifo = Tail(v.txFifo)
    BY <1>0, <1>5 DEF Exchange, AckLost, PacketLost, HostReceives, FieldsOK
  <1>7. /\ SameKeys(v, m) /\ SameKeys(m, w) /\ m.kb = v.kb
        /\ m.data_payload = v.data_payload /\ m.stackPayload = v.stackPayload
        /\ m.ackFifo = v.ackFifo /\ m.ackRx = v.ackRx
        /\ m.txFifo = Tail(v.txFifo) /\ m.rxFifo = Append(v.rxFifo, Head(v.txFifo))
    BY <1>4 DEF SameKeys, Circle
  <1>8. CircleInv(v, drawn) /\ CircleType(v) /\ KeysInv(v)
    BY <1>0 DEF CircleInv
  <1> HIDE DEF m
  <1>9. Receives(v, m)
    BY <1>6, <1>7 DEF Receives
  <1>10. CircleType(m)
    <2>1. m.txFifo \in Seq(Packets) /\ m.rxFifo \in Seq(Packets)
      BY <1>6, <1>7, <1>8, FifoLemma DEF CircleType
    <2> QED
      BY <1>7, <1>8, <2>1 DEF CircleType, SameKeys
  <1>11. CASE PacketLost(h)
    <2>1. ackRx' = ackRx /\ ackFifo' = ackFifo /\ rxFifo' = rxFifo
      BY <1>11 DEF PacketLost
    <2>2. Received(w) = Received(v)
      BY <1>4, <1>5, <2>1 DEF Received
    <2>3. /\ Shrinks(v.ackFifo, w.ackFifo) /\ Shrinks(v.ackRx, w.ackRx)
          /\ Shrinks(v.txFifo, w.txFifo)
      BY <1>5, <1>6, <2>1 DEF Shrinks
    <2>4. \A x : Fades(x, x)
      BY DEF Fades
    <2>5. Drops(v, w)
      BY <1>4, <2>2, <2>3, <2>4 DEF Drops, Loses
    <2> QED
      BY <1>3, <2>5
  <1>12. CASE Exchange(h) \/ AckLost(h)
    <2>1. w.rxFifo = Append(v.rxFifo, Head(v.txFifo))
      <3>1. HostReceives(h)
        BY <1>12 DEF Exchange, AckLost
      <3>2. rxFifo \in [Halves -> Seq(Packets)]
        BY <1>0 DEF FieldsOK
      <3> QED
        BY <1>5, <3>1, <3>2 DEF HostReceives
    <2>2. CASE Exchange(h) /\ ackFifo[h] # <<>>
      <3>1. w.ackRx = Append(v.ackRx, Head(v.ackFifo)) /\ w.ackFifo = Tail(v.ackFifo)
        BY <1>0, <1>5, <2>2 DEF Exchange, FieldsOK
      <3>2. Carries(m, w)
        BY <1>4, <1>5, <1>6, <1>7, <2>1, <2>2, <3>1 DEF Carries
      <3> QED
        BY <1>3, <1>9, <1>10, <3>2 DEF Passes
    <2>3. CASE AckLost(h) \/ ackFifo[h] = <<>>
      <3>1. ackRx' = ackRx /\ Shrinks(v.ackFifo, w.ackFifo)
        BY <1>0, <1>5, <1>12, <2>3 DEF Exchange, AckLost, Shrinks, FieldsOK
      <3>2. Received(w) = Received(m)
        BY <1>4, <1>7, <2>1 DEF Received
      <3>3. Drops(m, w)
        BY <1>4, <1>5, <1>6, <1>7, <3>1, <3>2 DEF Drops, Loses, Shrinks, Fades
      <3> QED
        BY <1>3, <1>9, <1>10, <3>3 DEF Passes
    <2> QED
      BY <1>12, <2>2, <2>3
  <1> QED
    BY <1>11, <1>12

-----------------------------------------------------------------------------
(* The callback.                                                           *)

\* A packet that confirms was received under the next key while that key was offered,
\* but for one under the compiled-in key that finds the id 0 stored on the way to 1.
LEMMA ConfirmLemma ==
    ASSUME OrderedKeys, NEW h \in Halves, NEW p \in Fetched(h),
           Verifies(h, p), Confirms(h, p)
    PROVE  /\ p \in Received(Circle(h))
           /\ \/ state[h] = "new_key_payload_ready" /\ p.mac = ack_payload[h].seed
              \/ /\ StoresZero /\ new_key_id[h] = 0 /\ state[h] = "seed_ready"
                 /\ key_id[h] = KeyIdMod - 1
  <1> DEFINE c == Circle(h)
             n == new_key_id[h]
  <1>0. FieldsOK /\ LockInv /\ IdsInv(h) /\ CircleInv(c, drawn)
    BY CircleLemma DEF OrderedKeys, KeyInv, KeyOrder
  <1>1. /\ c.state = state[h] /\ c.key_id = key_id[h] /\ c.new_key_id = n
        /\ c.seed = ack_payload[h].seed /\ c.ctxMac = ctxMac[h]
        /\ c.rxFifo = rxFifo[h] /\ c.stackPayload = stackPayload[h]
    BY DEF Circle
  <1>2. /\ p.mac # NoSeed /\ p.mac = c.ctxMac[Slot(n)] /\ p.macId = n
        /\ n # key_id[h]
    BY <1>1 DEF Verifies, Confirms
  <1>3. p \in Received(c)
    <2>1. c.rxFifo \in Seq(Packets)
      BY <1>0 DEF CircleInv, CircleType
    <2>2. p # NoPacket
      BY <1>2 DEF NoPacket
    <2> QED
      BY <1>1, <2>1, <2>2, ElementsLemma DEF Fetched, Received
  <1>4. p \in UsersIn(c)
    BY <1>3 DEF UsersIn, PacketsIn, OnAir
  <1>5. n \in KeyIds /\ key_id[h] \in KeyIds /\ state[h] \in States
    BY <1>0 DEF FieldsOK
  <1> HIDE DEF c, n
  <1>6. CASE n = 0
    <2>1. state[h] # "key_not_ready"
      BY <1>0, <1>2, <1>6 DEF IdsInv, n
    <2>2. SkippingZero(NextKeyId(key_id[h])) # 0
      BY <1>5, IdLemma
    <2>3. /\ turn = h /\ mainPc = "skip_zero" /\ key_id[h] = KeyIdMod - 1
          /\ StoresZero
      BY <1>0, <1>6, <2>1, <2>2 DEF IdsInv, n
    <2>4. state[h] = "seed_ready"
      BY <1>0, <2>1, <2>3 DEF LockInv
    <2> QED
      BY <1>3, <1>6, <2>1, <2>3, <2>4 DEF c, n
  <1>7. CASE n # 0
    <2>1. Slot(n) \in {1, 2} /\ p.mac \in Known(c)
      BY <1>2, <1>5, <1>7, IdSlot DEF Known
    <2>2. KeysInv(c) /\ OneKeyInv(c)
      BY <1>0 DEF CircleInv, FlowInv
    <2>3. CASE state[h] \in {"key_not_ready", "seed_ready"}
      <3>1. ~ Offering(c)
        BY <1>1, <2>3 DEF Offering
      <3>2. PICK b \in CurrentKeys(c) : OneKey(c, b)
        BY <2>2, <3>1 DEF OneKeyInv
      <3>3. Fits(c, b, p)
        BY <1>4, <3>2 DEF OneKey
      <3>4. n = b
        BY <1>2, <2>1, <3>3 DEF Fits
      <3>5. StoresZero /\ key_id[h] = 0 /\ n = KeyIdMod - 1
        BY <1>1, <1>2, <3>2, <3>4 DEF CurrentKeys
      <3>6. n = 1
        BY <1>0, <1>2, <2>3, <3>5, SuccessorLemma DEF IdsInv, n
      <3> QED
        BY <3>5, <3>6, SuccessorLemma
    <2>4. CASE state[h] \in {"new_key_ready", "new_key_payload_ready"}
      <3>1. p.mac = c.seed
        BY <1>1, <1>2, <2>2, <2>4 DEF KeysInv
      <3>2. state[h] # "new_key_ready"
        BY <1>1, <1>4, <2>2, <3>1 DEF OneKeyInv, Offering, Pending, Secret
      <3> QED
        BY <1>1, <1>3, <2>4, <3>1, <3>2 DEF c
    <2> QED
      BY <1>5, <2>3, <2>4 DEF States
  <1> QED
    BY <1>6, <1>7

LEMMA MovesRxReady ==
    ASSUME OrderedKeys, NEW h \in Halves, RxReady(h)
    PROVE  /\ Elsewhere(h)
           /\ \/ /\ Drops(Circle(h), Circle(h)')
                 /\ UNCHANGED <<state, key_id, ackFifo>>
              \/ /\ Answers(Circle(h), Circle(h)', ack_payload[h])
                 /\ UNCHANGED <<state, key_id>> /\ state[h] = "new_key_payload_ready"
              \/ /\ ConfirmsNext(Circle(h), Circle(h)')
                 /\ key_id' = [key_id EXCEPT ![h] = new_key_id[h]]
                 /\ state' = [state EXCEPT ![h] = "key_not_ready"]
              \/ StoresZero /\ Misreads(Circle(h), Circle(h)')
  <1> DEFINE v == Circle(h)
             w == Circle(h)'
             m == [v EXCEPT !.rxFifo = <<>>, !.stackPayload = w.stackPayload]
  <1>0. FieldsOK /\ PayloadIdInv(h) /\ CircleInv(v, drawn) /\ drawn \in Nat
    BY CircleLemma DEF OrderedKeys, KeyInv, KeyOrder
  <1> PICK p \in Fetched(h) :
          \/ AcceptPacket(h, p) \/ RejectPacket(h, p) \/ CollidePacket(h, p)
          \/ CheckFault(h, p) \/ DecryptFault(h, p)
    BY DEF RxReady, Accept, Reject, Collide, PacketFault
  <1>1. /\ FetchPacket(h, p)
        /\ UNCHANGED <<txFifo, ackRx, kbVars, seed_index, new_key_id, ctxEnc, ctxMac,
                       ack_payload, mainVars, drawn>>
    BY DEF AcceptPacket, RejectPacket, CollidePacket, CheckFault, DecryptFault, keyVars
  <1>2. /\ rxFifo'[h] = <<>> /\ stackPayload'[h] \in {p, NoPacket}
        /\ \A g \in Halves \ {h} : rxFifo'[g] = rxFifo[g]
                                   /\ stackPayload'[g] = stackPayload[g]
    BY <1>0, <1>1 DEF FetchPacket, FieldsOK
  <1>3. \/ AcceptPacket(h, p) /\ Verifies(h, p) /\ Confirms(h, p)
           /\ UNCHANGED ackFifo
           /\ key_id' = [key_id EXCEPT ![h] = new_key_id[h]]
           /\ state' = [state EXCEPT ![h] = "key_not_ready"]
        \/ UNCHANGED <<key_id, state, ackFifo>>
        \/ UNCHANGED <<key_id, state>> /\ Offer(h) /\ state[h] = "new_key_payload_ready"
    BY DEF AcceptPacket, RejectPacket, CollidePacket, CheckFault, DecryptFault, keyVars,
           OfferOnAccept, OfferOnReject
  <1>4. Elsewhere(h)
    <2>1. \A g \in Halves \ {h} : /\ ackFifo'[g] = ackFifo[g] /\ state'[g] = state[g]
                                  /\ key_id'[g] = key_id[g]
      BY <1>0, <1>3 DEF Offer, FieldsOK
    <2> QED
      BY <1>1, <1>2, <2>1 DEF Elsewhere, Circle, kbVars
  <1>5. /\ w.ackRx = v.ackRx /\ w.txFifo = v.txFifo /\ w.kb = v.kb
        /\ w.data_payload = v.data_payload /\ w.new_key_id = v.new_key_id
        /\ w.seed = v.seed /\ w.ctxMac = v.ctxMac
    BY <1>1 DEF Circle, kbVars
  <1>6. /\ w.rxFifo = <<>> /\ w.stackPayload \in {p, NoPacket}
        /\ v.rxFifo = rxFifo[h] /\ v.stackPayload = stackPayload[h]
        /\ w.ackFifo = ackFifo'[h] /\ v.ackFifo = ackFifo[h]
        /\ w.state = state'[h] /\ v.state = state[h]
        /\ w.key_id = key_id'[h] /\ v.key_id = key_id[h]
        /\ v.new_key_id = new_key_id[h] /\ v.seed = ack_payload[h].seed
    BY <1>2 DEF Circle
  <1>7. CircleType(v) /\ KeysInv(v) /\ p \in Packets
    BY <1>0, FetchedLemma DEF CircleInv
  <1>8. p \in Received(v) \/ p = NoPacket
    <2>1. v.rxFifo \in Seq(Packets)
      BY <1>7 DEF CircleType
    <2> QED
      BY <1>6, <2>1, ElementsLemma DEF Fetched, Received
  <1>9. \A x \in Received(w) : \E q \in Received(v) : Fades(x, q)
    <2>1. Received(w) = {w.stackPayload} /\ v.stackPayload \in Received(v)
      BY <1>6, NoElements DEF Received
    <2>2. Empty(NoPacket)
      BY DEF Empty, NoPacket
    <2> QED
      BY <1>6, <1>8, <2>1, <2>2 DEF Fades
  <1>10. /\ m.ackFifo = v.ackFifo /\ m.ackRx = v.ackRx /\ m.txFifo = v.txFifo
         /\ m.kb = v.kb /\ m.data_payload = v.data_payload /\ SameKeys(v, m)
         /\ m.rxFifo = w.rxFifo /\ m.stackPayload = w.stackPayload
    BY <1>6 DEF SameKeys, Circle
  <1> HIDE DEF m
  <1>11. CircleType(m)
    <2>1. m.rxFifo \in Seq(Packets) /\ m.stackPayload \in Packets
      BY <1>6, <1>7, <1>10, FifoLemma, ValueLemma
    <2> QED
      BY <1>7, <1>10, <2>1 DEF CircleType, SameKeys
  <1>12. Drops(v, m)
    <2>1. Received(m) = Received(w)
      BY <1>10 DEF Received
    <2> QED
      BY <1>9, <1>10, <2>1 DEF Drops, Loses, Shrinks, Fades
  <1>13. CASE AcceptPacket(h, p) /\ Verifies(h, p) /\ Confirms(h, p)
              /\ UNCHANGED ackFifo
              /\ key_id' = [key_id EXCEPT ![h] = new_key_id[h]]
              /\ state' = [state EXCEPT ![h] = "key_not_ready"]
    <2>1. /\ w.ackFifo = v.ackFifo /\ w.state = "key_not_ready"
          /\ w.key_id = v.new_key_id
      BY <1>0, <1>6, <1>13 DEF FieldsOK
    <2>2. CASE state[h] = "new_key_payload_ready" /\ p.mac = ack_payload[h].seed
               /\ p \in Received(v)
      <3>1. w.stackPayload = p \/ Empty(w.stackPayload)
        BY <1>6 DEF Empty, NoPacket
      <3>2. ConfirmsNext(v, w)
        BY <1>5, <1>6, <2>1, <2>2, <3>1 DEF ConfirmsNext, Offering
      <3> QED
        BY <1>4, <1>13, <3>2
    <2>3. CASE /\ StoresZero /\ new_key_id[h] = 0 /\ state[h] = "seed_ready"
               /\ key_id[h] = KeyIdMod - 1
      <3>1. SameFlow(m, w)
        BY <1>5, <1>10, <2>1 DEF SameFlow
      <3>2. CurrentKeys(m) \subseteq CurrentKeys(w)
        BY <1>6, <1>10, <2>1, <2>3, SuccessorLemma DEF CurrentKeys, SameKeys
      <3>3. Renumbers(m, w)
        BY <1>5, <1>6, <1>10, <2>1, <2>3, <3>1, <3>2 DEF Renumbers, SameKeys
      <3> QED
        BY <1>4, <1>11, <1>12, <2>3, <3>3 DEF Misreads
    <2> QED
      BY <1>13, <2>2, <2>3, ConfirmLemma
  <1>14. CASE UNCHANGED <<key_id, state, ackFifo>>
    <2>1. SameKeys(v, w) /\ w.ackFifo = v.ackFifo
      BY <1>5, <1>6, <1>14 DEF SameKeys
    <2>2. Drops(v, w)
      BY <1>5, <1>9, <2>1 DEF Drops, Loses, Shrinks, Fades
    <2> QED
      BY <1>4, <1>14, <2>2
  <1>15. CASE UNCHANGED <<key_id, state>> /\ Offer(h)
              /\ state[h] = "new_key_payload_ready" /\ ~ UNCHANGED ackFifo
    <2>1. SameKeys(m, w) /\ Offering(m)
      BY <1>5, <1>6, <1>10, <1>15 DEF SameKeys, Offering
    <2>2. w.ackFifo = Append(v.ackFifo, ack_payload[h])
      BY <1>0, <1>6, <1>15 DEF Offer, FieldsOK
    <2>3. /\ ack_payload[h] \in AckPayloads /\ ack_payload[h].id = m.new_key_id
          /\ ack_payload[h].seed = m.seed
      BY <1>0, <1>6, <1>10, <1>15 DEF FieldsOK, PayloadIdInv, SameKeys
    <2>4. Offers(m, w, ack_payload[h])
      BY <1>5, <1>10, <2>1, <2>2, <2>3 DEF Offers
    <2> QED
      BY <1>4, <1>11, <1>12, <1>15, <2>4 DEF Answers
  <1> QED
    BY <1>3, <1>13, <1>14, <1>15

-----------------------------------------------------------------------------
(* The receiver's main loop.                                               *)

\* The main loop leaves what goes round alone.
LEMMA MainLoopFlow ==
    ASSUME OrderedKeys, NEW h \in Halves, UpdateRekeyState(h)
    PROVE  /\ SameFlow(Circle(h), Circle(h)')
           /\ \A g \in Halves \ {h} : UNCHANGED Circle(g)
           /\ UNCHANGED key_id
  <1>0. FieldsOK
    BY DEF OrderedKeys, KeyInv
  <1>1. UNCHANGED <<kbVars, linkVars, key_id>>
    BY DEF UpdateRekeyState, LoopIdle, GatherByte, GatherLast, SkipZero, RekeyBegin,
           RekeyEnc, RekeyMac, RekeyFault, SealBegin, Seal, SealMac, SealFault, keyVars
  <1>2. SameFlow(Circle(h), Circle(h)')
    BY <1>1 DEF SameFlow, Circle, kbVars, linkVars
  <1>3. \A g \in Halves \ {h} :
            /\ state'[g] = state[g] /\ new_key_id'[g] = new_key_id[g]
            /\ ack_payload'[g] = ack_payload[g] /\ ctxMac'[g] = ctxMac[g]
    <2>1. /\ state \in [Halves -> States] /\ new_key_id \in [Halves -> KeyIds]
          /\ ack_payload \in [Halves -> AckPayloads]
          /\ ctxMac \in [Halves -> [Slots -> Seeds]]
      BY <1>0 DEF FieldsOK
    <2>2. CASE \/ LoopIdle(h) \/ GatherByte(h) \/ RekeyBegin(h) \/ RekeyEnc(h)
               \/ SealFault(h)
      BY <2>2 DEF LoopIdle, GatherByte, RekeyBegin, RekeyEnc, SealFault, keyVars
    <2>3. CASE GatherLast(h) \/ SkipZero(h)
      BY <2>1, <2>3 DEF GatherLast, SkipZero
    <2>4. CASE RekeyMac(h) \/ RekeyFault(h)
      BY <2>1, <2>4 DEF RekeyMac, RekeyFault
    <2>5. CASE SealBegin(h) \/ Seal(h) \/ SealMac(h)
      BY <2>1, <2>5 DEF SealBegin, Seal, SealMac
    <2> QED
      BY <2>2, <2>3, <2>4, <2>5 DEF UpdateRekeyState
  <1>4. \A g \in Halves \ {h} : UNCHANGED Circle(g)
    BY <1>1, <1>3 DEF Circle, kbVars, linkVars
  <1> QED
    BY <1>1, <1>2, <1>4

LEMMA MovesGather ==
    ASSUME OrderedKeys, NEW h \in Halves, GatherLast(h) \/ SkipZero(h)
    PROVE  InOrderNext(h)
  <1> DEFINE v == Circle(h)
             w == Circle(h)'
  <1>0. FieldsOK /\ LockInv /\ CircleInv(v, drawn) /\ drawn \in Nat
    BY CircleLemma DEF OrderedKeys, KeyInv
  <1>1. SameFlow(v, w) /\ key_id' = key_id
    BY MainLoopFlow DEF UpdateRekeyState
  <1>2. /\ v.state = state[h] /\ w.state = state'[h]
        /\ v.key_id = key_id[h] /\ w.key_id = key_id'[h]
        /\ v.seed = ack_payload[h].seed /\ w.seed = ack_payload'[h].seed
        /\ v.ctxMac = ctxMac[h] /\ w.ctxMac = ctxMac'[h]
    BY DEF Circle
  <1>3. CASE GatherLast(h)
    <2>1. /\ v.state = "key_not_ready" /\ w.state = "seed_ready"
          /\ w.seed = drawn + 1 /\ drawn' = drawn + 1 /\ w.ctxMac = v.ctxMac
      BY <1>0, <1>2, <1>3 DEF GatherLast, AtState, FieldsOK, AckPayloads
    <2>2. Gathers(v, w, drawn)
      BY <1>1, <1>2, <2>1 DEF Gathers
    <2> HIDE DEF w
    <2>3. KeysInv(w) /\ FlowInv(w, drawn')
      BY <1>0, <2>1, <2>2, GathersLemma
    <2> QED
      BY <2>3 DEF InOrderNext, w
  <1>4. CASE SkipZero(h)
    <2>1. /\ v.state \in {"key_not_ready", "seed_ready"} /\ w.state = v.state
          /\ w.seed = v.seed /\ w.ctxMac = v.ctxMac /\ drawn' = drawn
      BY <1>0, <1>2, <1>4 DEF SkipZero, LockInv
    <2>2. Renumbers(v, w)
      BY <1>1, <1>2, <2>1 DEF Renumbers, CurrentKeys
    <2> HIDE DEF w
    <2>3. KeysInv(w) /\ FlowInv(w, drawn')
      BY <1>0, <2>1, <2>2, RenumbersLemma
    <2> QED
      BY <2>3 DEF InOrderNext, w
  <1> QED
    BY <1>3, <1>4

LEMMA MovesDerive ==
    ASSUME OrderedKeys, NEW h \in Halves, RekeyMac(h) \/ RekeyFault(h)
    PROVE  InOrderNext(h)
  <1> DEFINE v == Circle(h)
             w == Circle(h)'
             i == Slot(new_key_id[h])
  <1>0. FieldsOK /\ LockInv /\ IdsInv(h) /\ CircleInv(v, drawn) /\ drawn \in Nat
    BY CircleLemma DEF OrderedKeys, KeyInv, KeyOrder
  <1>1. SameFlow(v, w) /\ key_id' = key_id
    BY MainLoopFlow DEF UpdateRekeyState
  <1>2. /\ v.state = state[h] /\ w.state = state'[h]
        /\ v.key_id = key_id[h] /\ w.key_id = key_id'[h]
        /\ v.new_key_id = new_key_id[h] /\ w.new_key_id = new_key_id'[h]
        /\ v.seed = ack_payload[h].seed /\ w.seed = ack_payload'[h].seed
        /\ v.ctxMac = ctxMac[h] /\ w.ctxMac = ctxMac'[h]
    BY DEF Circle
  <1>3. turn = h /\ mainPc \in {"rekey_enc", "rekey_mac"} /\ drawn' = drawn
    BY DEF RekeyMac, RekeyFault
  <1>4. state[h] = "seed_ready" /\ new_key_id[h] # 0
    BY <1>0, <1>3 DEF LockInv, NextIdStored
  <1>5. key_id[h] = 0 => new_key_id[h] = 1
    BY <1>0, <1>3, <1>4, SuccessorLemma DEF IdsInv
  <1>6. i = GeneratedSlot(new_key_id[h]) /\ i \in Slots
    BY <1>0, <1>4, IdLemma DEF FieldsOK
  <1>7. w.new_key_id = v.new_key_id /\ w.key_id = v.key_id /\ w.seed = v.seed
    BY <1>2, <1>1 DEF RekeyMac, RekeyFault
  <1>8. ctxMac \in [Halves -> [Slots -> Seeds]]
    BY <1>0 DEF FieldsOK
  <1>9. CASE RekeyMac(h)
    <2>1. w.state = "new_key_ready"
      BY <1>0, <1>2, <1>9 DEF RekeyMac, FieldsOK
    <2>2. w.ctxMac = [v.ctxMac EXCEPT ![i] = v.seed]
      BY <1>2, <1>6, <1>8, <1>9 DEF RekeyMac
    <2>3. Derives(v, w)
      BY <1>1, <1>2, <1>4, <1>5, <1>7, <2>1, <2>2 DEF Derives
    <2> HIDE DEF w
    <2>4. KeysInv(w) /\ FlowInv(w, drawn')
      BY <1>0, <1>3, <2>3, DerivesLemma
    <2> QED
      BY <2>4 DEF InOrderNext, w
  <1>10. CASE RekeyFault(h) /\ UNCHANGED ctxMac
    <2>1. UNCHANGED Circle(h)
      BY <1>10, <1>1 DEF RekeyFault, Circle, kbVars, linkVars
    <2> QED
      BY <1>3, <2>1, StillLemma
  <1>11. CASE RekeyFault(h) /\ ~ UNCHANGED ctxMac
    <2>1. w.state = v.state
      BY <1>2, <1>11 DEF RekeyFault
    <2>2. w.ctxMac = [v.ctxMac EXCEPT ![i] = Mixed(@, v.seed)]
      BY <1>2, <1>6, <1>8, <1>11 DEF RekeyFault
    <2>3. Spoils(v, w)
      BY <1>1, <1>2, <1>4, <1>7, <2>1, <2>2 DEF Spoils
    <2> HIDE DEF w
    <2>4. KeysInv(w) /\ FlowInv(w, drawn')
      BY <1>0, <1>3, <2>3, SpoilsLemma
    <2> QED
      BY <2>4 DEF InOrderNext, w
  <1> QED
    BY <1>9, <1>10, <1>11

LEMMA MovesMainLoop ==
    ASSUME OrderedKeys, NEW h \in Halves, UpdateRekeyState(h)
    PROVE  InOrderNext(h) /\ drawn' \in {drawn, drawn + 1}
  <1> DEFINE v == Circle(h)
             w == Circle(h)'
  <1>0. FieldsOK /\ LockInv /\ CircleInv(v, drawn) /\ drawn \in Nat
    BY CircleLemma DEF OrderedKeys, KeyInv
  <1>1. SameFlow(v, w) /\ key_id' = key_id
    BY MainLoopFlow
  <1>2. drawn' \in {drawn, drawn + 1}
    BY DEF UpdateRekeyState, LoopIdle, GatherByte, GatherLast, SkipZero, RekeyBegin,
           RekeyEnc, RekeyMac, RekeyFault, SealBegin, Seal, SealMac, SealFault
  <1>3. CASE \/ LoopIdle(h) \/ GatherByte(h) \/ RekeyBegin(h) \/ RekeyEnc(h)
             \/ SealFault(h) \/ SealBegin(h) \/ Seal(h)
    <2>1. ack_payload'[h].seed = ack_payload[h].seed
      BY <1>0, <1>3 DEF LoopIdle, GatherByte, RekeyBegin, RekeyEnc, SealFault, SealBegin,
                        Seal, keyVars, FieldsOK, AckPayloads
    <2>2. UNCHANGED <<kbVars, linkVars, state, key_id, new_key_id, ctxMac>>
      BY <1>3 DEF LoopIdle, GatherByte, RekeyBegin, RekeyEnc, SealFault, SealBegin,
                  Seal, keyVars
    <2>3. UNCHANGED Circle(h)
      BY <2>1, <2>2 DEF Circle, kbVars, linkVars
    <2> QED
      BY <1>2, <2>3, StillLemma
  <1>4. CASE SealMac(h)
    <2>1. state[h] = "new_key_ready" /\ drawn' = drawn
      BY <1>0, <1>4 DEF SealMac, LockInv
    <2>2. /\ state'[h] = "new_key_payload_ready"
          /\ ack_payload'[h].seed = ack_payload[h].seed
          /\ UNCHANGED <<key_id, new_key_id, ctxMac>>
      BY <1>0, <1>4 DEF SealMac, FieldsOK, AckPayloads
    <2>3. Publishes(v, w)
      BY <1>1, <2>1, <2>2 DEF Publishes, Circle
    <2> HIDE DEF w
    <2>4. KeysInv(w) /\ FlowInv(w, drawn')
      BY <1>0, <2>1, <2>3, PublishesLemma
    <2>5. InOrderNext(h)
      BY <2>4 DEF InOrderNext, w
    <2> QED
      BY <1>2, <2>5
  <1> QED
    BY <1>2, <1>3, <1>4, MovesGather, MovesDerive DEF UpdateRekeyState

-----------------------------------------------------------------------------
(* The keys stay in order.                                                 *)

LEMMA OrderInit == Init => KeyOrder
  <1> SUFFICES ASSUME Init, NEW h \in Halves
               PROVE  /\ IdsInv(h) /\ PayloadIdInv(h)
                      /\ KeysInv(Circle(h)) /\ SeedsInv(Circle(h), drawn)
                      /\ OneKeyInv(Circle(h)) /\ OrderInv(Circle(h))
    BY DEF KeyOrder
  <1> DEFINE c == Circle(h)
  <1>1. /\ state[h] = "key_not_ready" /\ key_id[h] = 0 /\ new_key_id[h] = 0
        /\ mainPc = "loop" /\ drawn = 0
    BY DEF Init, InitReceiver
  <1>2. IdsInv(h) /\ PayloadIdInv(h)
    BY <1>1 DEF IdsInv, PayloadIdInv
  <1>3. /\ c.state = "key_not_ready" /\ c.key_id = 0 /\ c.seed = NoSeed
        /\ c.ctxMac = FreshContexts /\ c.kb = [macId |-> 0, mac |-> 0]
        /\ c.ackFifo = <<>> /\ c.ackRx = <<>> /\ c.txFifo = <<>> /\ c.rxFifo = <<>>
        /\ c.data_payload = NoPacket /\ c.stackPayload = NoPacket
    BY DEF Init, InitReceiver, InitKeyboards, InitLink, Circle, NoAckPayload
  <1> HIDE DEF c
  <1>4. /\ c.ctxMac[0] = 0 /\ c.ctxMac[1] = NoSeed /\ c.ctxMac[2] = NoSeed
        /\ Known(c) = {}
    BY <1>3 DEF FreshContexts, Slots, Known
  <1>5. ~ Offering(c) /\ ~ Pending(c)
    BY <1>3 DEF Offering, Pending
  <1>6. KeysInv(c)
    BY <1>3, <1>4, <1>5 DEF KeysInv
  <1>7. UsersIn(c) = {NoPacket, c.kb} /\ OffersIn(c) = {}
    BY <1>3, NoElements DEF UsersIn, PacketsIn, OnAir, Received, OffersIn
  <1>8. SeedsInv(c, drawn)
    BY <1>1, <1>3, <1>4, <1>7 DEF SeedsInv, NoSeed, NoPacket
  <1>9. OneKey(c, 0) /\ 0 \in CurrentKeys(c)
    BY <1>3, <1>4, <1>7 DEF OneKey, Fits, OfferFits, CurrentKeys
  <1> QED
    BY <1>2, <1>5, <1>6, <1>8, <1>9 DEF OneKeyInv, OrderInv, c

LEMMA MovesReceiverReset ==
    ASSUME OrderedKeys, ReceiverReset
    PROVE  \A h \in Halves : InOrderNext(h)
  <1> SUFFICES ASSUME NEW h \in Halves PROVE InOrderNext(h)
    OBVIOUS
  <1> DEFINE w == Circle(h)'
  <1>1. CircleInv(Circle(h), drawn) /\ drawn \in Nat
    BY CircleLemma
  <1>2. Restarts(Circle(h), w) /\ drawn' = drawn
    BY DEF Restarts, Circle, ReceiverReset, NoAckPayload, kbVars
  <1> HIDE DEF w
  <1>3. KeysInv(w) /\ FlowInv(w, drawn')
    BY <1>1, <1>2, RestartsLemma
  <1> QED
    BY <1>3 DEF InOrderNext, w

LEMMA OrderStep ==
    ASSUME OrderedKeys, [Next]_vars
    PROVE  KeyOrder'
  <1>1. \A h \in Halves : InOrderNext(h)
    <2>1. drawn \in Nat
      BY HalvesAssumption, CircleLemma
    <2>2. CASE UNCHANGED vars
      BY <2>2, StillLemma DEF vars, kbVars, linkVars, keyVars, Circle
    <2>3. CASE ReceiverReset
      BY <2>3, MovesReceiverReset
    <2>4. ASSUME NEW h \in Halves,
                 \/ SendData(h) \/ TxSuccess(h) \/ KeyboardReset(h)
                 \/ Exchange(h) \/ AckLost(h) \/ PacketLost(h) \/ RxReady(h)
          PROVE  \A g \in Halves : InOrderNext(g)
      <3> DEFINE w == Circle(h)'
      <3>1. Moves(Circle(h), w) /\ Elsewhere(h)
        BY <2>4, MovesSend, MovesTxSuccess, MovesKeyboardReset, MovesLink, MovesRxReady
           DEF Moves, Drops
      <3>2. \A g \in Halves \ {h} : InOrderNext(g)
        BY <3>1, StillLemma DEF Elsewhere
      <3>3. CircleInv(Circle(h), drawn) /\ drawn' = drawn
        BY <3>1, CircleLemma DEF Elsewhere
      <3> HIDE DEF w
      <3>4. KeysInv(w) /\ FlowInv(w, drawn')
        BY <2>1, <3>1, <3>3, MovesLemma
      <3>5. InOrderNext(h)
        BY <3>4 DEF InOrderNext, w
      <3> QED
        BY <3>2, <3>5
    <2>5. ASSUME NEW h \in Halves, UpdateRekeyState(h)
          PROVE  \A g \in Halves : InOrderNext(g)
      BY <2>5, MovesMainLoop, MainLoopFlow, StillLemma
    <2> QED
      BY <2>2, <2>3, <2>4, <2>5 DEF Next
  <1>2. \A h \in Halves : Ids(h)'
    BY IdsStep
  <1> QED
    BY <1>1, <1>2 DEF KeyOrder, Ids, InOrderNext, FlowInv

LEMMA OrderedKeysInvariant == Spec => []OrderedKeys
  <1>1. Init => OrderedKeys
    BY KeyInit, OrderInit DEF OrderedKeys
  <1>2. OrderedKeys /\ [Next]_vars => OrderedKeys'
    BY KeyStep, OrderStep DEF OrderedKeys
  <1> QED
    BY <1>1, <1>2, PTL DEF Spec

\* The invariant behind what follows: between a half and the receiver one key goes
\* round, or the offered one advances behind the current one.
THEOREM KeysStayInOrder == Spec => []KeyOrder
  <1>1. OrderedKeys => KeyOrder
    BY DEF OrderedKeys
  <1> QED
    BY <1>1, OrderedKeysInvariant, PTL

-----------------------------------------------------------------------------
(* What the receiver confirms.                                             *)

\* The callback moves a half to another key only by confirming, and moves no other.
LEMMA ConfirmStep ==
    ASSUME OrderedKeys, NEW h \in Halves, RxReady(h), key_id' # key_id
    PROVE  \E p \in Fetched(h) :
              /\ AcceptPacket(h, p) /\ Verifies(h, p) /\ Confirms(h, p)
              /\ UNCHANGED <<ackFifo, new_key_id, ack_payload>>
              /\ key_id' = [key_id EXCEPT ![h] = new_key_id[h]]
              /\ state' = [state EXCEPT ![h] = "key_not_ready"]
  <1>1. PICK p \in Fetched(h) :
            \/ AcceptPacket(h, p) \/ RejectPacket(h, p) \/ CollidePacket(h, p)
            \/ CheckFault(h, p) \/ DecryptFault(h, p)
    BY DEF RxReady, Accept, Reject, Collide, PacketFault
  <1>2. AcceptPacket(h, p)
    BY <1>1 DEF RejectPacket, CollidePacket, CheckFault, DecryptFault, keyVars
  <1> QED
    BY <1>2 DEF AcceptPacket, OfferOnAccept

\* Nothing else but a restart of the receiver changes a confirmed key.
LEMMA KeyIdStays ==
    ASSUME OrderedKeys, NEW h \in Halves,
           \/ SendData(h) \/ TxSuccess(h) \/ KeyboardReset(h)
           \/ Exchange(h) \/ AckLost(h) \/ PacketLost(h) \/ UpdateRekeyState(h)
    PROVE  UNCHANGED key_id
  BY OutsideLemma, MainLoopFlow DEF OrderedKeys, KeyInv, keyVars

\* The receiver leaves a key only for the one its standing offer names, whatever was
\* lost, repeated, restarted or failed, and in every build.
THEOREM ConfirmsOnlyOffers == Spec => ConfirmOnlyOffered
  <1>1. ASSUME OrderedKeys, [Next]_vars
        PROVE  \A h \in Halves :
                  key_id'[h] # key_id[h] /\ key_id'[h] # 0
                      => /\ state[h] = "new_key_payload_ready"
                         /\ key_id'[h] = ack_payload[h].id
                         /\ state'[h] = "key_not_ready"
    <2> SUFFICES ASSUME NEW h \in Halves, key_id'[h] # key_id[h], key_id'[h] # 0
                 PROVE  /\ state[h] = "new_key_payload_ready"
                        /\ key_id'[h] = ack_payload[h].id
                        /\ state'[h] = "key_not_ready"
      OBVIOUS
    <2>1. FieldsOK /\ PayloadIdInv(h)
      BY <1>1 DEF OrderedKeys, KeyInv, KeyOrder
    <2>2. ~ ReceiverReset /\ ~ UNCHANGED vars
      BY DEF ReceiverReset, vars, keyVars
    <2>3. PICK g \in Halves : RxReady(g)
      BY <1>1, <2>2, KeyIdStays DEF Next
    <2>4. PICK p \in Fetched(g) :
              /\ AcceptPacket(g, p) /\ Verifies(g, p) /\ Confirms(g, p)
              /\ key_id' = [key_id EXCEPT ![g] = new_key_id[g]]
              /\ state' = [state EXCEPT ![g] = "key_not_ready"]
      BY <1>1, <2>3, ConfirmStep
    <2>5. g = h /\ key_id'[h] = new_key_id[h] /\ state'[h] = "key_not_ready"
      BY <2>1, <2>4 DEF FieldsOK
    <2>6. state[h] = "new_key_payload_ready"
      BY <1>1, <2>4, <2>5, ConfirmLemma
    <2> QED
      BY <2>1, <2>5, <2>6 DEF PayloadIdInv
  <1> QED
    BY <1>1, OrderedKeysInvariant, PTL DEF Spec, ConfirmOnlyOffered
=============================================================================
