-------------------------- MODULE RekeyRefinement --------------------------
(***************************************************************************)
(* The key rotation of module Rekey implements the abstract specification  *)
(* KeyAgreement.                                                           *)
(***************************************************************************)
EXTENDS RekeyOrder

\* The next key exists from the moment its id and seed are stored; the callback may
\* offer it when its payload is ready.
AgreedNext(h) ==
    IF state[h] = "key_not_ready"
    THEN [id |-> 0, seed |-> 0, ready |-> FALSE]
    ELSE [id |-> new_key_id[h], seed |-> ack_payload[h].seed,
          ready |-> state[h] = "new_key_payload_ready"]

\* The payloads on a circle that the half will accept and understand.
Understood(a) == a.macOk /\ a.sealed
OffersOnAir(c) ==
    {[id |-> a.id, seed |-> a.seed] : a \in {b \in OffersIn(c) : Understood(b)}}

\* The keys behind the MACs of the half: its own and those of its packets.
HeldSeeds(c) == {u.mac : u \in UsersIn(c)} \ {NoSeed}

Agreement == INSTANCE KeyAgreement WITH
    Halves  <- Halves,
    KeyIdMod <- KeyIdMod,
    Seeds   <- 0..MaxSeed,
    current <- key_id,
    next    <- [h \in Halves |-> AgreedNext(h)],
    offered <- [h \in Halves |-> OffersOnAir(Circle(h))],
    held    <- [h \in Halves |-> HeldSeeds(Circle(h))],
    used    <- 0..drawn

\* Every step of callbacks, main loop, radio and restarts is a step of the abstract
\* key agreement or none: ids advance by one, each key has a seed of its own, an
\* offer never changes while it stands, and the receiver leaves a key only for the
\* one it offered and the half demonstrably holds (main.c:284-364, 413-474).
ImplementsKeyAgreement == Agreement!Spec
=============================================================================
