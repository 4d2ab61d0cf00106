---------------------------- MODULE RekeyOrder ----------------------------
(***************************************************************************)
(* Which keys may be in use, and in which order, between a half and the    *)
(* receiver: the inductive invariant behind ConfirmOnlyOffered,            *)
(* QueuedOffersCurrent, KeyboardInStep and the refinement of KeyAgreement. *)
(*                                                                         *)
(* A MAC key goes round in a circle: from the payloads that wait for an    *)
(* acknowledgement (ackFifo, ackRx) to the half (kb), and back to the      *)
(* receiver in the packets the half makes (data_payload, txFifo, rxFifo,   *)
(* stackPayload).  While the receiver offers no key, one key goes round;   *)
(* once it offers the next one, that key advances along the circle, and    *)
(* nothing that comes after it holds the old key any more.                 *)
(***************************************************************************)
EXTENDS RekeyInvariants

\* What goes round between half h and the receiver, and what the receiver keeps for
\* that half.
Circle(h) ==
    [ackFifo |-> ackFifo[h], ackRx |-> ackRx[h],
     kb |-> [macId |-> kbKeyId[h], mac |-> kbMac[h]],
     data_payload |-> data_payload[h], txFifo |-> txFifo[h],
     rxFifo |-> rxFifo[h], stackPayload |-> stackPayload[h],
     state |-> state[h], key_id |-> key_id[h], new_key_id |-> new_key_id[h],
     seed |-> ack_payload[h].seed, ctxMac |-> ctxMac[h]]

\* The offers on their way, the packets at the receiver, and all that uses a MAC key.
OffersIn(c) == Elements(c.ackFifo) \cup Elements(c.ackRx)
Received(c) == Elements(c.rxFifo) \cup {c.stackPayload}
OnAir(c) == Elements(c.txFifo) \cup Received(c)
PacketsIn(c) == OnAir(c) \cup {c.data_payload}
UsersIn(c) == PacketsIn(c) \cup {c.kb}

Pending(c) == c.state # "key_not_ready"
Offering(c) == c.state = "new_key_payload_ready"

\* The derived MAC keys the receiver can check a packet with.
Known(c) == {c.ctxMac[1], c.ctxMac[2]} \ {NoSeed}

\* What uses a MAC key goes with key b: it uses no other key that the receiver
\* knows, and that one under no other id.
Fits(c, b, u) ==
    /\ b # 0 => u.macId \in {0, b}
    /\ u.mac \in Known(c) => u.macId = b /\ u.mac = c.ctxMac[Slot(b)]

\* An offer the half would adopt goes with key b.
OfferFits(c, b, a) ==
    a.macOk =>
        /\ b # 0 => a.id = b
        /\ DecryptedSeed(a) \in Known(c)
               => a.id = b /\ DecryptedSeed(a) = c.ctxMac[Slot(b)]

-----------------------------------------------------------------------------
\* The receiver's contexts of a half hold distinct seeds, that of the next key from
\* its derivation on and not before.
KeysInv(c) ==
    /\ c.ctxMac[0] = 0 /\ 0 \notin Known(c)
    /\ c.ctxMac[1] = c.ctxMac[2] => c.ctxMac[1] = NoSeed
    /\ Pending(c) => c.seed > 0
    /\ c.state = "seed_ready" => c.seed \notin Known(c)
    /\ c.state \in {"new_key_ready", "new_key_payload_ready"} =>
           c.new_key_id # 0 /\ c.ctxMac[Slot(c.new_key_id)] = c.seed

\* Of the first d seeds, and of no other, keys are in use; an offer the half
\* understands carries one of them.
SeedsInv(c, d) ==
    /\ \A u \in UsersIn(c) : u.mac <= d
    /\ \A a \in OffersIn(c) :
           a.seed <= d /\ (a.macOk /\ a.sealed => a.seed > 0)
    /\ c.ctxMac[1] <= d /\ c.ctxMac[2] <= d
    /\ c.seed <= d

-----------------------------------------------------------------------------
\* While no key is offered, one key goes round: the current one, or that of the
\* largest id, after a packet under the compiled-in key was taken for the
\* confirmation of the id 0 which some builds store on the way from there to 1.
CurrentKeys(c) ==
    {c.key_id} \cup {b \in {KeyIdMod - 1} :
        StoresZero /\ c.key_id = 0 /\ c.state \in {"key_not_ready", "seed_ready"}}

OneKey(c, b) ==
    /\ \A u \in UsersIn(c) : Fits(c, b, u)
    /\ \A a \in OffersIn(c) : OfferFits(c, b, a)

\* The next seed is nowhere outside the receiver.
Secret(c) ==
    /\ \A u \in UsersIn(c) : u.mac # c.seed
    /\ \A a \in OffersIn(c) : DecryptedSeed(a) # c.seed

OneKeyInv(c) ==
    ~ Offering(c) =>
        /\ \E b \in CurrentKeys(c) : OneKey(c, b)
        /\ Pending(c) => Secret(c)

-----------------------------------------------------------------------------
\* While a key is offered, what goes round fits the current key or the next one, or
\* is the current key under the next id (a derivation that failed on the half).
OldOrNew(c, u) ==
    \/ Fits(c, c.key_id, u) /\ u.mac # c.seed
    \/ Fits(c, c.new_key_id, u)
    \/ u.macId = c.new_key_id /\ u.mac = c.ctxMac[Slot(c.key_id)]

OldOrNewOffer(c, a) ==
    \/ OfferFits(c, c.key_id, a) /\ DecryptedSeed(a) # c.seed
    \/ OfferFits(c, c.new_key_id, a)

\* The offers and packets of the next key, and those that may come after them.
NewOffers(c) == {a \in AckPayloads : DecryptedSeed(a) = c.seed}
LateOffers(c) == {a \in AckPayloads : OfferFits(c, c.new_key_id, a)}
NewPackets(c) == {p \in Packets : p.mac = c.seed}
LatePackets(c) == {p \in Packets : Fits(c, c.new_key_id, p)}

\* In the sequence s, only elements of Late come after an element of New.
InOrder(s, New, Late) ==
    \A i, j \in 1..Len(s) : i < j /\ s[i] \in New => s[j] \in Late

\* How far the next key has come.
Delivered(c) ==
    \/ \E a \in Elements(c.ackRx) : DecryptedSeed(a) = c.seed
    \/ \E u \in UsersIn(c) : u.mac = c.seed
Adopted(c) == \E u \in UsersIn(c) : u.mac = c.seed
Sending(c) == \E u \in PacketsIn(c) : u.mac = c.seed
Queued(c) == \E u \in OnAir(c) : u.mac = c.seed
Arrived(c) == \E u \in Received(c) : u.mac = c.seed

OrderInv(c) ==
    Offering(c) =>
        /\ \A u \in UsersIn(c) : OldOrNew(c, u)
        /\ \A a \in OffersIn(c) : OldOrNewOffer(c, a)
        /\ InOrder(c.ackFifo, NewOffers(c), LateOffers(c))
        /\ InOrder(c.ackRx, NewOffers(c), LateOffers(c))
        /\ InOrder(c.txFifo, NewPackets(c), LatePackets(c))
        /\ Delivered(c) => \A a \in Elements(c.ackFifo) : OfferFits(c, c.new_key_id, a)
        /\ Adopted(c) => \A a \in Elements(c.ackRx) : OfferFits(c, c.new_key_id, a)
        /\ Sending(c) => Fits(c, c.new_key_id, c.kb)
        /\ Queued(c) => Fits(c, c.new_key_id, c.data_payload)
        /\ Arrived(c) => \A p \in Elements(c.txFifo) : Fits(c, c.new_key_id, p)

-----------------------------------------------------------------------------
\* The next id follows the current one, but for the moment in which the build that
\* stores it twice has stored 0, and for what a packet under the compiled-in key
\* makes of that moment.
IdsInv(h) ==
    /\ state[h] = "key_not_ready" =>
           \/ new_key_id[h] = key_id[h]
           \/ StoresZero /\ key_id[h] = 0 /\ new_key_id[h] = 1
    /\ state[h] # "key_not_ready" =>
           \/ new_key_id[h] = SkippingZero(NextKeyId(key_id[h]))
           \/ turn = h /\ mainPc = "skip_zero" /\ key_id[h] = KeyIdMod - 1
    /\ turn = h /\ mainPc = "skip_zero" => StoresZero /\ new_key_id[h] = 0

\* The payload names the next id from the moment it is sealed.
PayloadIdInv(h) ==
    state[h] = "new_key_payload_ready" \/ (turn = h /\ mainPc \in {"seal", "seal_mac"})
        => ack_payload[h].id = new_key_id[h]

\* With each half the keys are in order: the next id follows the current one, the
\* receiver holds at most two keys, distinct, of seeds it drew; one key goes round
\* until the receiver offers the next, which from then on spreads along the circle
\* with nothing of the old one behind it (update_rekey_state, process_received_packet,
\* nrf_gzll_device_tx_success, send_data, and Gazell's FIFOs).  With InductiveInv this
\* is the inductive invariant behind ConfirmOnlyOffered and the refinement.
KeyOrder ==
    \A h \in Halves :
        /\ IdsInv(h)
        /\ PayloadIdInv(h)
        /\ KeysInv(Circle(h))
        /\ SeedsInv(Circle(h), drawn)
        /\ OneKeyInv(Circle(h))
        /\ OrderInv(Circle(h))

-----------------------------------------------------------------------------
\* Without restarts of the receiver and without AES failures the keys that go round
\* are the two the receiver keeps, up to the largest id, whose context the key of id
\* 1 takes over.
UnderCurrent(c, id, s) ==
    id = c.key_id /\ (c.key_id = KeyIdMod - 1 \/ s = c.ctxMac[Slot(c.key_id)])
UnderNext(c, id, s) == Offering(c) /\ id = c.new_key_id /\ s = c.seed

OfferCurrent(c, a) ==
    /\ a.macOk /\ a.sealed
    /\ UnderCurrent(c, a.id, a.seed) \/ UnderNext(c, a.id, a.seed)

OffersInStep(c) == \A a \in OffersIn(c) : OfferCurrent(c, a)

UserInStep(c, u) ==
    \/ u.macId = 0 /\ u.mac = 0
    \/ UnderCurrent(c, u.macId, u.mac)
    \/ UnderNext(c, u.macId, u.mac)

UsersInStep(c) ==
    /\ UserInStep(c, c.kb)
    /\ \A u \in PacketsIn(c) : u.mac # NoSeed => UserInStep(c, u)

\* The context of the current key is whole until the key of id 1 takes it over, or
\* sealing an offer fails.
CurrentWhole(h) ==
    /\ ctxEnc[h][0] = 0
    /\ spent.sealFault = 0 /\ ~ OnLastId(h)
           => ctxEnc[h][Slot(key_id[h])] = ctxMac[h][Slot(key_id[h])]

\* As long as no sealing of an offer fails, the context of the key in use is whole until
\* the key of id 1 takes it over; and, in a build that stores the next id once and until
\* the receiver restarts, every offer (and until a derivation fails, every key in use on
\* the half or in its packets) is the current key, the offered one or, in use, the
\* compiled-in one (update_rekey_state, nrf_gzll_device_tx_success, send_data).  With
\* InductiveInv and KeyOrder this is the inductive invariant behind QueuedOffersCurrent
\* and KeyboardInStep.
KeysCurrent ==
    /\ \A h \in Halves : CurrentWhole(h)
    /\ ~ StoresZero /\ spent.rcvReset = 0 /\ spent.sealFault = 0 =>
           \A h \in Halves : OffersInStep(Circle(h))
    /\ ~ StoresZero /\ spent.rcvReset = 0 /\ spent.sealFault = 0 /\ spent.rekeyFault = 0 =>
           \A h \in Halves : UsersInStep(Circle(h))
=============================================================================
