-------------------------- MODULE RekeyInvariants --------------------------
(***************************************************************************)
(* The inductive invariants behind the properties of RekeyProperties: what *)
(* holds in the middle of an update of the key state, of a derivation and  *)
(* of the assembly of a packet.  RekeyProofs proves them; TLC checks them. *)
(***************************************************************************)
EXTENDS RekeyProperties

\* The slot of the next key is never the hard-coded one, once the id is stored.
NextIdStored(h) == (mainPc = "skip_zero" /\ turn = h) \/ new_key_id[h] # 0

\* The next key's context of a half.
NextEnc(h) == ctxEnc[h][GeneratedSlot(new_key_id[h])]
NextMac(h) == ctxMac[h][GeneratedSlot(new_key_id[h])]

DerivingMac(h) == turn = h /\ mainPc = "rekey_mac"
SealingMac(h) == turn = h /\ mainPc = "seal_mac"

\* The lock is held exactly while the main loop derives or seals, and what it
\* found when it took the lock, and has written since, is still there.
LockInv ==
    /\ decrypting <=> mainPc \in Critical
    /\ mainPc \in {"rekey_enc", "rekey_mac"} => state[turn] = "seed_ready"
    /\ mainPc \in {"seal", "seal_mac"} => state[turn] = "new_key_ready"
    /\ mainPc = "skip_zero" => state[turn] \in {"key_not_ready", "seed_ready"}
    /\ mainPc = "rekey_mac" => NextEnc(turn) = ack_payload[turn].seed
    /\ \A h \in Halves : state[h] # "key_not_ready" => NextIdStored(h)

\* Only the context under derivation is ever half replaced.
ContextInv ==
    spent.rekeyFault = 0 =>
        \A h \in Halves, i \in Slots :
            \/ ctxEnc[h][i] = ctxMac[h][i]
            \/ DerivingMac(h) /\ i = GeneratedSlot(new_key_id[h])

\* What the payload and the next context hold in each state.
OfferInv ==
    spent.sealFault = 0 =>
        /\ ~ macDirty
        /\ \A h \in Halves :
              /\ state[h] = "seed_ready" => ~ ack_payload[h].sealed
              /\ state[h] \in {"new_key_ready", "new_key_payload_ready"} =>
                     /\ NextEnc(h) = ack_payload[h].seed
                     /\ NextMac(h) = ack_payload[h].seed
              /\ state[h] = "new_key_ready" =>
                     /\ ack_payload[h].sealed <=> SealingMac(h)
                     /\ turn = h /\ mainPc \in {"seal", "seal_mac"}
                            => ack_payload[h].id = new_key_id[h]
              /\ state[h] = "new_key_payload_ready" =>
                     /\ ack_payload[h].sealed
                     /\ ack_payload[h].macOk
                     /\ ack_payload[h].id = new_key_id[h]

\* A packet no callback has torn is encrypted and MAC'd under one key, with the
\* counter it carries.
WholePackets ==
    {p \in Packets : ~ p.torn => p.mac \in {p.enc, NoSeed} /\ p.encCounter = p.counter}

PacketInv ==
    spent.rekeyFault = 0 =>
        /\ kbEnc = kbMac
        /\ txFifo \in [Halves -> Seq(WholePackets)]
        /\ rxFifo \in [Halves -> Seq(WholePackets)]
        /\ stackPayload \in [Halves -> WholePackets]
        /\ \A h \in Halves :
              LET p == data_payload[h] IN
              ~ p.torn =>
                  /\ sendPc[h] = "encrypt" => ~ clashed[h]
                  /\ sendPc[h] \in {"count", "store", "mac"} => p.enc = kbEnc[h]
                  /\ sendPc[h] = "count" => p.encCounter = kbCounter[h]
                  /\ sendPc[h] \in {"store", "mac", "enqueue"}
                         => p.encCounter = p.counter
                  /\ sendPc[h] = "enqueue" => p.mac \in {p.enc, NoSeed}

\* The inductive invariant of RekeyProofs, besides TypeOK.
InductiveInv == LockInv /\ ContextInv /\ OfferInv /\ PacketInv
=============================================================================
