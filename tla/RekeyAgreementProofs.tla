------------------------ MODULE RekeyAgreementProofs ------------------------
(***************************************************************************)
(* Proofs that the key rotation implements KeyAgreement, and that what is  *)
(* offered to the half, and the key the half uses, are keys the receiver   *)
(* holds.  Both are about builds that store the next id once: a build that *)
(* stores 0 before 1 may take a packet under the compiled-in key for a     *)
(* confirmation of the id 0, a step KeyAgreement does not allow.           *)
(***************************************************************************)
EXTENDS RekeyOrderProofs, RekeyRefinement

-----------------------------------------------------------------------------
(* The mapped offers and keys of a circle.                                 *)

\* After every step the circles are in order again.
LEMMA CircleNext ==
    ASSUME OrderedKeys, [Next]_vars, NEW h \in Halves
    PROVE  CircleInv(Circle(h)', drawn')
  <1>1. FieldsOK' /\ KeyOrder'
    BY KeyStep, OrderStep DEF OrderedKeys, KeyInv
  <1>2. CircleType(Circle(h)')
    BY <1>1 DEF FieldsOK, CircleType, Circle, AckPayloads
  <1> QED
    BY <1>1, <1>2 DEF KeyOrder, CircleInv, FlowInv

\* What goes round has the types KeyAgreement gives it.
LEMMA MappedTypes ==
    ASSUME NEW c, NEW d, CircleInv(c, d)
    PROVE  /\ OffersOnAir(c) \subseteq Agreement!Offers
           /\ HeldSeeds(c) \subseteq 0..MaxSeed
  <1>0. CircleType(c) /\ SeedsInv(c, d)
    BY DEF CircleInv, FlowInv
  <1>1. /\ OffersIn(c) \subseteq AckPayloads
        /\ \A u \in UsersIn(c) : u.mac \in Seeds
    <2>1. /\ Elements(c.txFifo) \subseteq Packets /\ Elements(c.rxFifo) \subseteq Packets
          /\ Elements(c.ackFifo) \subseteq AckPayloads
          /\ Elements(c.ackRx) \subseteq AckPayloads
      BY <1>0, ElementsLemma DEF CircleType
    <2> QED
      BY <1>0, <2>1 DEF CircleType, UsersIn, PacketsIn, OnAir, Received, OffersIn, Packets
  <1>2. ASSUME NEW a \in OffersIn(c), Understood(a)
        PROVE  [id |-> a.id, seed |-> a.seed] \in Agreement!Offers
    <2>1. a.seed \in Seeds /\ a.id \in KeyIds /\ a.seed > 0
      BY <1>0, <1>1, <1>2 DEF AckPayloads, Understood, SeedsInv
    <2>2. a.seed \in 0..MaxSeed
      BY <2>1, BoundsAssumption DEF Seeds, NoSeed
    <2> QED
      BY <2>1, <2>2 DEF Agreement!Offers, Agreement!KeyIds, KeyIds
  <1>3. OffersOnAir(c) \subseteq Agreement!Offers
    BY <1>2 DEF OffersOnAir
  <1>4. HeldSeeds(c) \subseteq 0..MaxSeed
    BY <1>1 DEF HeldSeeds, Seeds
  <1> QED
    BY <1>3, <1>4

\* A step of one half's circle on which only offers of O and keys of S are left.
LEMMA KeepLemma ==
    ASSUME OrderedKeys, [Next]_vars, NEW h \in Halves, Elsewhere(h), NEW O, NEW S,
           OffersOnAir(Circle(h)') \subseteq O, HeldSeeds(Circle(h)') \subseteq S
    PROVE  Agreement!Keep(h, O, S)
  <1>1. \A g \in Halves : /\ OffersOnAir(Circle(g)') \subseteq Agreement!Offers
                          /\ HeldSeeds(Circle(g)') \subseteq 0..MaxSeed
    BY CircleNext, MappedTypes
  <1>2. \A g \in Halves \ {h} : Circle(g)' = Circle(g)
    BY DEF Elsewhere
  <1> QED
    BY <1>1, <1>2 DEF Agreement!Keep

\* What Follows leaves of the offers and keys.
LEMMA FollowsMapped ==
    ASSUME NEW v, NEW w, Follows(v, w)
    PROVE  /\ OffersOnAir(w) \subseteq OffersOnAir(v)
           /\ HeldSeeds(w) \subseteq HeldSeeds(v) \cup ({w.kb.mac} \ {NoSeed})
  BY DEF Follows, OffersOnAir, HeldSeeds, UsersIn, Traces

-----------------------------------------------------------------------------
(* The half, the radio and the callback take steps of KeyAgreement.        *)

\* A move that leaves the receiver's keys alone leaves what KeyAgreement knows of them.
LEMMA SameAgreed ==
    ASSUME NEW h \in Halves, Elsewhere(h), SameKeys(Circle(h), Circle(h)')
    PROVE  /\ [g \in Halves |-> AgreedNext(g)]' = [g \in Halves |-> AgreedNext(g)]
           /\ (0..drawn)' = 0..drawn
           /\ \A g \in Halves : key_id'[g] = key_id[g]
  <1>1. \A g \in Halves :
            /\ state'[g] = state[g] /\ new_key_id'[g] = new_key_id[g]
            /\ ack_payload'[g].seed = ack_payload[g].seed /\ key_id'[g] = key_id[g]
    BY DEF Elsewhere, SameKeys, Circle
  <1> QED
    BY <1>1 DEF AgreedNext, Elsewhere

\* The offers and keys a move may add: those of the standing offer, those of an offer
\* the half has received, and the compiled-in key.
LEMMA MovesMapped ==
    ASSUME NEW v, NEW w, CircleType(v)
    PROVE  /\ Loses(v, w) =>
                  /\ OffersOnAir(w) \subseteq OffersOnAir(v)
                  /\ HeldSeeds(w) \subseteq HeldSeeds(v) \cup {0}
           /\ Drops(v, w) \/ Passes(v, w) \/ Signs(v, w) \/ Sends(v, w)
                  \/ ConfirmsNext(v, w) =>
                  /\ OffersOnAir(w) \subseteq OffersOnAir(v)
                  /\ HeldSeeds(w) \subseteq HeldSeeds(v)
           /\ Adopts(v, w) =>
                  /\ OffersOnAir(w) \subseteq OffersOnAir(v)
                  /\ \/ HeldSeeds(w) \subseteq HeldSeeds(v)
                     \/ \E o \in OffersOnAir(v) :
                           HeldSeeds(w) \subseteq HeldSeeds(v) \cup {o.seed}
           /\ \A a : Answers(v, w, a) =>
                  /\ OffersOnAir(w) \subseteq
                         OffersOnAir(v) \cup {[id |-> a.id, seed |-> a.seed]}
                  /\ HeldSeeds(w) \subseteq HeldSeeds(v)
  <1>1. v.kb.mac # NoSeed => v.kb.mac \in HeldSeeds(v)
    BY DEF HeldSeeds, UsersIn
  <1>2. ASSUME Loses(v, w)
        PROVE  /\ OffersOnAir(w) \subseteq OffersOnAir(v)
               /\ HeldSeeds(w) \subseteq HeldSeeds(v) \cup {0}
    <2>1. Follows(v, w) /\ (w.kb = v.kb \/ CompiledIn(w.kb))
      BY <1>2, FollowsLemma
    <2>2. /\ OffersOnAir(w) \subseteq OffersOnAir(v)
          /\ HeldSeeds(w) \subseteq HeldSeeds(v) \cup ({w.kb.mac} \ {NoSeed})
      BY <2>1, FollowsMapped
    <2> QED
      BY <1>1, <2>1, <2>2 DEF CompiledIn
  <1>3. ASSUME Drops(v, w) \/ Passes(v, w) \/ Signs(v, w) \/ Sends(v, w)
               \/ ConfirmsNext(v, w)
        PROVE  /\ OffersOnAir(w) \subseteq OffersOnAir(v)
               /\ HeldSeeds(w) \subseteq HeldSeeds(v)
    <2>1. Follows(v, w) /\ w.kb = v.kb
      BY <1>3, FollowsLemma, PassesFollows
    <2>2. /\ OffersOnAir(w) \subseteq OffersOnAir(v)
          /\ HeldSeeds(w) \subseteq HeldSeeds(v) \cup ({w.kb.mac} \ {NoSeed})
      BY <2>1, FollowsMapped
    <2> QED
      BY <1>1, <2>1, <2>2
  <1>4. ASSUME Adopts(v, w)
        PROVE  /\ OffersOnAir(w) \subseteq OffersOnAir(v)
               /\ \/ HeldSeeds(w) \subseteq HeldSeeds(v)
                  \/ \E o \in OffersOnAir(v) :
                        HeldSeeds(w) \subseteq HeldSeeds(v) \cup {o.seed}
    <2> DEFINE a == Head(v.ackRx)
    <2>1. Follows(v, w)
      BY <1>4, FollowsLemma
    <2>2. /\ OffersOnAir(w) \subseteq OffersOnAir(v)
          /\ HeldSeeds(w) \subseteq HeldSeeds(v) \cup ({w.kb.mac} \ {NoSeed})
      BY <2>1, FollowsMapped
    <2>3. a.macOk /\ w.kb.mac \in {DecryptedSeed(a), v.kb.mac, NoSeed}
      BY <1>4 DEF Adopts
    <2>4. a \in OffersIn(v)
      BY <1>4, ElementsLemma DEF Adopts, OffersIn, CircleType
    <2> HIDE DEF a
    <2>5. CASE w.kb.mac \in {v.kb.mac, NoSeed}
      BY <1>1, <2>2, <2>5
    <2>6. CASE w.kb.mac = DecryptedSeed(a) /\ w.kb.mac # NoSeed
      <3>1. a.sealed /\ w.kb.mac = a.seed
        BY <2>6 DEF DecryptedSeed
      <3>2. [id |-> a.id, seed |-> a.seed] \in OffersOnAir(v)
        BY <2>3, <2>4, <3>1 DEF OffersOnAir, Understood
      <3> QED
        BY <2>2, <3>1, <3>2
    <2> QED
      BY <2>2, <2>3, <2>5, <2>6
  <1>5. ASSUME NEW a, Answers(v, w, a)
        PROVE  /\ OffersOnAir(w) \subseteq
                      OffersOnAir(v) \cup {[id |-> a.id, seed |-> a.seed]}
               /\ HeldSeeds(w) \subseteq HeldSeeds(v)
    <2>1. /\ OffersIn(w) \subseteq OffersIn(v) \cup {a}
          /\ \A u \in PacketsIn(w) : \E x \in UsersIn(v) : Traces(u, x)
          /\ w.kb = v.kb
      BY <1>5, AnswersFollows
    <2>2. OffersOnAir(w) \subseteq OffersOnAir(v) \cup {[id |-> a.id, seed |-> a.seed]}
      BY <2>1 DEF OffersOnAir
    <2>3. HeldSeeds(w) \subseteq HeldSeeds(v)
      BY <2>1 DEF HeldSeeds, UsersIn, Traces
    <2> QED
      BY <2>2, <2>3
  <1> QED
    BY <1>2, <1>3, <1>4, <1>5

\* The half and the radio: its restart is HalfRestart, its adoption of a payload it
\* understands Adopt, the rest Forget.
LEMMA HalfAgrees ==
    ASSUME OrderedKeys, [Next]_vars, NEW h \in Halves,
           \/ SendData(h) \/ TxSuccess(h) \/ KeyboardReset(h)
           \/ Exchange(h) \/ AckLost(h) \/ PacketLost(h)
    PROVE  Agreement!Forget(h) \/ Agreement!Adopt(h) \/ Agreement!HalfRestart(h)
  <1> DEFINE v == Circle(h)
             w == Circle(h)'
  <1>1. CircleType(v) /\ UNCHANGED key_id
    BY CircleLemma, KeyIdStays DEF CircleInv
  <1>2. /\ Elsewhere(h)
        /\ \/ Loses(v, w) \/ Signs(v, w) \/ Sends(v, w) \/ Drops(v, w)
           \/ Passes(v, w) \/ Adopts(v, w)
    BY MovesSend, MovesTxSuccess, MovesKeyboardReset, MovesLink
  <1>3. SameKeys(v, w)
    BY <1>2 DEF Loses, Signs, Sends, Drops, Passes, Adopts, Receives, Carries, SameKeys
  <1>4. /\ [g \in Halves |-> AgreedNext(g)]' = [g \in Halves |-> AgreedNext(g)]
        /\ (0..drawn)' = 0..drawn
    BY <1>2, <1>3, SameAgreed
  <1>5. \A O, S : OffersOnAir(w) \subseteq O /\ HeldSeeds(w) \subseteq S
                      => Agreement!Keep(h, O, S)
    BY <1>2, KeepLemma
  <1>6. /\ v = Circle(h)
        /\ OffersOnAir(v) = [g \in Halves |-> OffersOnAir(Circle(g))][h]
        /\ HeldSeeds(v) = [g \in Halves |-> HeldSeeds(Circle(g))][h]
    OBVIOUS
  <1> HIDE DEF v, w
  <1>7. CASE Loses(v, w)
    BY <1>1, <1>4, <1>5, <1>6, <1>7, MovesMapped DEF Agreement!HalfRestart
  <1>8. CASE Drops(v, w) \/ Passes(v, w) \/ Signs(v, w) \/ Sends(v, w)
    BY <1>1, <1>4, <1>5, <1>6, <1>8, MovesMapped DEF Agreement!Forget
  <1>9. CASE Adopts(v, w)
    BY <1>1, <1>4, <1>5, <1>6, <1>9, MovesMapped DEF Agreement!Forget, Agreement!Adopt
  <1> QED
    BY <1>2, <1>7, <1>8, <1>9

\* The callback: its answer is Offer, its confirmation Confirm, the rest Forget.
LEMMA CallbackAgrees ==
    ASSUME OrderedKeys, [Next]_vars, ~ StoresZero, NEW h \in Halves, RxReady(h)
    PROVE  Agreement!Forget(h) \/ Agreement!Offer(h) \/ Agreement!Confirm(h)
  <1> DEFINE v == Circle(h)
             w == Circle(h)'
  <1>0. FieldsOK /\ PayloadIdInv(h) /\ CircleType(v) /\ KeysInv(v)
    BY CircleLemma DEF OrderedKeys, KeyInv, KeyOrder, CircleInv
  <1>1. /\ Elsewhere(h)
        /\ \/ Drops(v, w) /\ UNCHANGED <<state, key_id, ackFifo>>
           \/ /\ Answers(v, w, ack_payload[h])
              /\ UNCHANGED <<state, key_id>> /\ state[h] = "new_key_payload_ready"
           \/ /\ ConfirmsNext(v, w)
              /\ key_id' = [key_id EXCEPT ![h] = new_key_id[h]]
              /\ state' = [state EXCEPT ![h] = "key_not_ready"]
    BY MovesRxReady
  <1>2. \A O, S : OffersOnAir(w) \subseteq O /\ HeldSeeds(w) \subseteq S
                      => Agreement!Keep(h, O, S)
    BY <1>1, KeepLemma
  <1>3. /\ OffersOnAir(v) = [g \in Halves |-> OffersOnAir(Circle(g))][h]
        /\ HeldSeeds(v) = [g \in Halves |-> HeldSeeds(Circle(g))][h]
        /\ AgreedNext(h) = [g \in Halves |-> AgreedNext(g)][h]
    OBVIOUS
  <1>4. ASSUME SameKeys(v, w)
        PROVE  /\ [g \in Halves |-> AgreedNext(g)]' = [g \in Halves |-> AgreedNext(g)]
               /\ (0..drawn)' = 0..drawn
    BY <1>1, <1>4, SameAgreed
  <1>5. CASE Drops(v, w) /\ UNCHANGED <<state, key_id, ackFifo>>
    <2>1. SameKeys(v, w)
      BY <1>5 DEF Drops, Loses
    <2> HIDE DEF v, w
    <2>2. Agreement!Forget(h)
      BY <1>0, <1>2, <1>3, <1>4, <1>5, <2>1, MovesMapped DEF Agreement!Forget
    <2> QED
      BY <2>2
  <1>6. CASE /\ Answers(v, w, ack_payload[h])
             /\ UNCHANGED <<state, key_id>> /\ state[h] = "new_key_payload_ready"
    <2>1. SameKeys(v, w)
      BY <1>0, <1>6, AnswersFollows
    <2>2. /\ AgreedNext(h).ready
          /\ AgreedNext(h).id = ack_payload[h].id
          /\ AgreedNext(h).seed = ack_payload[h].seed
      BY <1>0, <1>6 DEF AgreedNext, PayloadIdInv
    <2> HIDE DEF v, w
    <2>3. /\ OffersOnAir(w) \subseteq OffersOnAir(v)
                 \cup {[id |-> AgreedNext(h).id, seed |-> AgreedNext(h).seed]}
          /\ HeldSeeds(w) \subseteq HeldSeeds(v)
      BY <1>0, <1>6, <2>2, MovesMapped
    <2>4. Agreement!Offer(h)
      BY <1>2, <1>3, <1>4, <1>6, <2>1, <2>2, <2>3 DEF Agreement!Offer
    <2> QED
      BY <2>4
  <1>7. CASE /\ ConfirmsNext(v, w)
             /\ key_id' = [key_id EXCEPT ![h] = new_key_id[h]]
             /\ state' = [state EXCEPT ![h] = "key_not_ready"]
    <2>1. Offering(v) /\ v.seed > 0 /\ \E p \in Received(v) : p.mac = v.seed
      BY <1>0, <1>7 DEF ConfirmsNext, KeysInv, Pending, Offering
    <2>2. v.seed \in HeldSeeds(v)
      BY <2>1 DEF HeldSeeds, UsersIn, PacketsIn, OnAir, NoSeed
    <2>3. /\ AgreedNext(h).ready /\ AgreedNext(h).id = new_key_id[h]
          /\ AgreedNext(h).seed \in HeldSeeds(v)
      BY <2>1, <2>2 DEF AgreedNext, Offering, Circle
    <2>4. AgreedNext(h)' = Agreement!None
      BY <1>0, <1>7 DEF AgreedNext, Agreement!None, FieldsOK
    <2>5. /\ \A g \in Halves \ {h} : AgreedNext(g)' = AgreedNext(g)
          /\ (0..drawn)' = 0..drawn
      <3>1. \A g \in Halves \ {h} :
                /\ state'[g] = state[g] /\ new_key_id'[g] = new_key_id[g]
                /\ ack_payload'[g].seed = ack_payload[g].seed
        BY <1>1 DEF Elsewhere, Circle
      <3> QED
        BY <1>1, <3>1 DEF Elsewhere, AgreedNext
    <2>6. [g \in Halves |-> AgreedNext(g)]' =
              [[g \in Halves |-> AgreedNext(g)] EXCEPT ![h] = Agreement!None]
      BY <2>4, <2>5
    <2> HIDE DEF v, w
    <2>7. Agreement!Keep(h, OffersOnAir(v), HeldSeeds(v))
      BY <1>0, <1>2, <1>7, MovesMapped
    <2>8. Agreement!Confirm(h)
      BY <1>3, <1>7, <2>3, <2>5, <2>6, <2>7 DEF Agreement!Confirm
    <2> QED
      BY <2>8
  <1> QED
    BY <1>1, <1>5, <1>6, <1>7

-----------------------------------------------------------------------------
(* The receiver's own steps.                                               *)

LEMMA SuccessorAgrees ==
    ASSUME NEW id \in KeyIds
    PROVE  SkippingZero(NextKeyId(id)) = Agreement!Successor(id)
  BY KeyIdAssumption DEF KeyIds, NextKeyId, SkippingZero, Agreement!Successor

\* Publishing a key makes it ready and leaves the rest of it.
LEMMA ReadyLemma ==
    ASSUME NEW I, NEW S, NEW f \in [id: I, seed: S, ready: BOOLEAN]
    PROVE  [f EXCEPT !.ready = TRUE] = [id |-> f.id, seed |-> f.seed, ready |-> TRUE]
  <1> DEFINE R == [id: I, seed: S, ready: BOOLEAN]
             g == [f EXCEPT !.ready = TRUE]
             k == [id |-> f.id, seed |-> f.seed, ready |-> TRUE]
  <1>1. f = [id |-> f.id, seed |-> f.seed, ready |-> f.ready]
    OBVIOUS
  <1>2. g \in R /\ k \in R
    BY <1>1
  <1>3. g.id = f.id /\ g.seed = f.seed
    OBVIOUS
  <1>4. g.ready = TRUE
    OBVIOUS
  <1>5. k.id = f.id /\ k.seed = f.seed
    OBVIOUS
  <1>6. k.ready = TRUE
    OBVIOUS
  <1>7. \A x, y \in R : x.id = y.id /\ x.seed = y.seed /\ x.ready = TRUE /\ y.ready = TRUE
                           => x = y
    OBVIOUS
  <1> HIDE DEF g, k, R
  <1>8. g = k
    BY <1>2, <1>3, <1>4, <1>5, <1>6, <1>7
  <1> QED
    BY <1>8 DEF g, k

\* Where nothing goes round, KeyAgreement sees no offer and no key move.
LEMMA FlowAgrees ==
    ASSUME \A g \in Halves : SameFlow(Circle(g), Circle(g)')
    PROVE  /\ [g \in Halves |-> OffersOnAir(Circle(g))]'
                  = [g \in Halves |-> OffersOnAir(Circle(g))]
           /\ [g \in Halves |-> HeldSeeds(Circle(g))]'
                  = [g \in Halves |-> HeldSeeds(Circle(g))]
  <1>1. \A v, w : SameFlow(v, w) =>
            OffersOnAir(w) = OffersOnAir(v) /\ HeldSeeds(w) = HeldSeeds(v)
    BY SameFlowLemma DEF OffersOnAir, HeldSeeds
  <1>2. \A g \in Halves : /\ OffersOnAir(Circle(g)') = OffersOnAir(Circle(g))
                          /\ HeldSeeds(Circle(g)') = HeldSeeds(Circle(g))
    BY <1>1
  <1> QED
    BY <1>2

\* The last byte of a seed is Prepare, the sealing of the payload Publish; the rest of
\* the main loop is invisible.
LEMMA MainLoopAgrees ==
    ASSUME OrderedKeys, ~ StoresZero, NEW h \in Halves, UpdateRekeyState(h)
    PROVE  Agreement!Prepare(h) \/ Agreement!Publish(h) \/ UNCHANGED Agreement!vars
  <1>0. /\ FieldsOK /\ LockInv /\ IdsInv(h)
        /\ state \in [Halves -> States] /\ new_key_id \in [Halves -> KeyIds]
        /\ key_id \in [Halves -> KeyIds] /\ ack_payload \in [Halves -> AckPayloads]
        /\ drawn \in 0..MaxSeed
    BY DEF OrderedKeys, KeyInv, KeyOrder, FieldsOK
  <1>1. \A g \in Halves : SameFlow(Circle(g), Circle(g)')
    BY MainLoopFlow DEF SameFlow
  <1>2. /\ [g \in Halves |-> OffersOnAir(Circle(g))]'
               = [g \in Halves |-> OffersOnAir(Circle(g))]
        /\ [g \in Halves |-> HeldSeeds(Circle(g))]'
               = [g \in Halves |-> HeldSeeds(Circle(g))]
        /\ UNCHANGED key_id
    BY <1>1, FlowAgrees, MainLoopFlow
  <1>3. \A g \in Halves \ {h} : AgreedNext(g)' = AgreedNext(g)
    <2>1. \A g \in Halves \ {h} :
              /\ state'[g] = state[g] /\ new_key_id'[g] = new_key_id[g]
              /\ ack_payload'[g].seed = ack_payload[g].seed
      BY MainLoopFlow DEF Circle
    <2> QED
      BY <2>1 DEF AgreedNext
  <1>4. ASSUME AgreedNext(h)' = AgreedNext(h), drawn' = drawn
        PROVE  UNCHANGED Agreement!vars
    <2>1. \A g \in Halves : AgreedNext(g)' = AgreedNext(g)
      BY <1>3, <1>4
    <2>2. [g \in Halves |-> AgreedNext(g)]' = [g \in Halves |-> AgreedNext(g)]
      BY <2>1
    <2> QED
      BY <1>2, <1>4, <2>2 DEF Agreement!vars
  <1>5. CASE GatherLast(h)
    <2> DEFINE next == [id |-> Agreement!Successor(key_id[h]), seed |-> drawn + 1,
                        ready |-> FALSE]
    <2>1. state[h] = "key_not_ready" /\ state'[h] = "seed_ready"
      BY <1>0, <1>5 DEF GatherLast, AtState
    <2>2. AgreedNext(h) = Agreement!None
      BY <2>1 DEF AgreedNext, Agreement!None
    <2>3. new_key_id'[h] = Agreement!Successor(key_id[h])
      BY <1>0, <1>5, SuccessorAgrees DEF GatherLast
    <2>4. ack_payload'[h].seed = drawn + 1
      BY <1>0, <1>5 DEF GatherLast, AckPayloads
    <2>5. AgreedNext(h)' = next
      BY <2>1, <2>3, <2>4 DEF AgreedNext
    <2>6. [g \in Halves |-> AgreedNext(g)]' =
              [[g \in Halves |-> AgreedNext(g)] EXCEPT ![h] = next]
      BY <1>3, <2>5
    <2>7. /\ drawn + 1 \in (0..MaxSeed) \ (0..drawn)
          /\ (0..drawn)' = (0..drawn) \cup {drawn + 1}
      BY <1>0, <1>5, BoundsAssumption DEF GatherLast
    <2>8. Agreement!Prepare(h)
      BY <1>2, <2>2, <2>6, <2>7 DEF Agreement!Prepare
    <2> QED
      BY <2>8
  <1>6. CASE SkipZero(h)
    BY <1>0, <1>6 DEF SkipZero, IdsInv
  <1>7. CASE \/ LoopIdle(h) \/ GatherByte(h) \/ RekeyBegin(h) \/ RekeyEnc(h)
             \/ RekeyFault(h) \/ SealFault(h)
    <2>1. UNCHANGED <<state, new_key_id, ack_payload, drawn>>
      BY <1>7 DEF LoopIdle, GatherByte, RekeyBegin, RekeyEnc, RekeyFault, SealFault, keyVars
    <2> QED
      BY <1>4, <2>1 DEF AgreedNext
  <1>8. CASE RekeyMac(h) \/ SealBegin(h) \/ Seal(h)
    <2>1. /\ state[h] \in {"seed_ready", "new_key_ready"}
          /\ state'[h] = "new_key_ready"
      BY <1>0, <1>8 DEF LockInv, RekeyMac, SealBegin, Seal, Lock, AtState
    <2>2. /\ new_key_id' = new_key_id /\ drawn' = drawn
          /\ ack_payload'[h].seed = ack_payload[h].seed
      BY <1>0, <1>8 DEF RekeyMac, SealBegin, Seal, AckPayloads
    <2> QED
      BY <1>4, <2>1, <2>2 DEF AgreedNext
  <1>9. CASE SealMac(h)
    <2>1. state[h] = "new_key_ready" /\ state'[h] = "new_key_payload_ready"
      BY <1>0, <1>9 DEF LockInv, SealMac
    <2>2. /\ new_key_id' = new_key_id /\ drawn' = drawn
          /\ ack_payload'[h].seed = ack_payload[h].seed
          /\ new_key_id[h] # 0
      BY <1>0, <1>9, <2>1 DEF SealMac, LockInv, NextIdStored, AckPayloads
    <2>3. AgreedNext(h) # Agreement!None
      BY <2>1, <2>2 DEF AgreedNext, Agreement!None
    <2>4. AgreedNext(h)' = [AgreedNext(h) EXCEPT !.ready = TRUE]
      <3>1. AgreedNext(h) =
                [id |-> new_key_id[h], seed |-> ack_payload[h].seed, ready |-> FALSE]
        BY <2>1 DEF AgreedNext
      <3>2. AgreedNext(h)' =
                [id |-> new_key_id[h], seed |-> ack_payload[h].seed, ready |-> TRUE]
        BY <2>1, <2>2 DEF AgreedNext
      <3>3. AgreedNext(h) \in [id: KeyIds, seed: Seeds, ready: BOOLEAN]
        BY <1>0, <3>1 DEF AckPayloads
      <3>4. [AgreedNext(h) EXCEPT !.ready = TRUE] =
                [id |-> AgreedNext(h).id, seed |-> AgreedNext(h).seed, ready |-> TRUE]
        BY <3>3, ReadyLemma
      <3> QED
        BY <3>1, <3>2, <3>4
    <2>5. [g \in Halves |-> AgreedNext(g)]' =
              [[g \in Halves |-> AgreedNext(g)] EXCEPT ![h].ready = TRUE]
      BY <1>3, <2>4
    <2>6. Agreement!Publish(h)
      BY <1>2, <2>2, <2>3, <2>5 DEF Agreement!Publish
    <2> QED
      BY <2>6
  <1> QED
    BY <1>5, <1>6, <1>7, <1>8, <1>9 DEF UpdateRekeyState

LEMMA ReceiverResetAgrees ==
    ASSUME OrderedKeys, [Next]_vars, ReceiverReset
    PROVE  Agreement!ReceiverRestart
  <1>1. \A g \in Halves : Restarts(Circle(g), Circle(g)')
    BY DEF Restarts, Circle, ReceiverReset, NoAckPayload, kbVars
  <1>2. \A v, w : Restarts(v, w) => /\ OffersOnAir(w) \subseteq OffersOnAir(v)
                                    /\ HeldSeeds(w) \subseteq HeldSeeds(v)
    BY NoElements DEF Restarts, OffersOnAir, HeldSeeds, OffersIn, UsersIn, PacketsIn, OnAir,
                      Received, NoPacket
  <1>3. \A g \in Halves : /\ OffersOnAir(Circle(g)') \subseteq OffersOnAir(Circle(g))
                          /\ HeldSeeds(Circle(g)') \subseteq HeldSeeds(Circle(g))
                          /\ OffersOnAir(Circle(g)') \subseteq Agreement!Offers
                          /\ HeldSeeds(Circle(g)') \subseteq 0..MaxSeed
    BY <1>1, <1>2, CircleNext, MappedTypes
  <1>4. \A g \in Halves : AgreedNext(g)' = Agreement!None
    BY DEF ReceiverReset, AgreedNext, Agreement!None
  <1>5. /\ key_id' = [g \in Halves |-> 0] /\ (0..drawn)' = 0..drawn
    BY DEF ReceiverReset
  <1> QED
    BY <1>3, <1>4, <1>5 DEF Agreement!ReceiverRestart

-----------------------------------------------------------------------------
(* The refinement.                                                         *)

LEMMA AgreementInit == Init => Agreement!Init
  <1> SUFFICES ASSUME Init PROVE Agreement!Init
    OBVIOUS
  <1>1. key_id = [h \in Halves |-> 0] /\ drawn = 0
    BY DEF Init, InitReceiver
  <1>2. ASSUME NEW h \in Halves
        PROVE  /\ AgreedNext(h) = Agreement!None
               /\ OffersOnAir(Circle(h)) = {} /\ HeldSeeds(Circle(h)) = {0}
    <2> DEFINE c == Circle(h)
    <2>1. state[h] = "key_not_ready"
      BY DEF Init, InitReceiver
    <2>2. /\ c.kb = [macId |-> 0, mac |-> 0]
          /\ c.ackFifo = <<>> /\ c.ackRx = <<>> /\ c.txFifo = <<>> /\ c.rxFifo = <<>>
          /\ c.data_payload = NoPacket /\ c.stackPayload = NoPacket
      BY DEF Init, InitKeyboards, InitLink, Circle
    <2> HIDE DEF c
    <2>3. UsersIn(c) = {NoPacket, c.kb} /\ OffersIn(c) = {}
      BY <2>2, NoElements DEF UsersIn, PacketsIn, OnAir, Received, OffersIn
    <2>4. OffersOnAir(c) = {} /\ HeldSeeds(c) = {0}
      BY <2>2, <2>3 DEF OffersOnAir, HeldSeeds, NoPacket, NoSeed
    <2> QED
      BY <2>1, <2>4 DEF AgreedNext, Agreement!None, c
  <1>3. 0..drawn = {0}
    BY <1>1
  <1> QED
    BY <1>1, <1>2, <1>3 DEF Agreement!Init

LEMMA AgreementStep ==
    ASSUME OrderedKeys, [Next]_vars, ~ StoresZero
    PROVE  [Agreement!Next]_(Agreement!vars)
  <1>1. CASE UNCHANGED vars
    <2>1. \A g \in Halves : Circle(g)' = Circle(g) /\ AgreedNext(g)' = AgreedNext(g)
      BY <1>1 DEF vars, kbVars, linkVars, keyVars, Circle, AgreedNext
    <2>2. UNCHANGED <<key_id, drawn>>
      BY <1>1 DEF vars, keyVars
    <2> QED
      BY <2>1, <2>2 DEF Agreement!vars
  <1>2. CASE ReceiverReset
    BY <1>2, ReceiverResetAgrees DEF Agreement!Next
  <1>3. ASSUME NEW h \in Halves,
               \/ SendData(h) \/ TxSuccess(h) \/ KeyboardReset(h)
               \/ Exchange(h) \/ AckLost(h) \/ PacketLost(h)
        PROVE  Agreement!Next
    BY <1>3, HalfAgrees DEF Agreement!Next
  <1>4. ASSUME NEW h \in Halves, RxReady(h)
        PROVE  Agreement!Next
    BY <1>4, CallbackAgrees DEF Agreement!Next
  <1>5. ASSUME NEW h \in Halves, UpdateRekeyState(h)
        PROVE  [Agreement!Next]_(Agreement!vars)
    BY <1>5, MainLoopAgrees DEF Agreement!Next
  <1> QED
    BY <1>1, <1>2, <1>3, <1>4, <1>5 DEF Next

\* In a build that stores the next id once, every behaviour of callbacks, main loop,
\* radio, restarts and AES failures is one of the abstract key agreement.
THEOREM RekeyImplementsAgreement ==
    ASSUME ~ StoresZero
    PROVE  Spec => ImplementsKeyAgreement
  <1>1. OrderedKeys /\ [Next]_vars => [Agreement!Next]_(Agreement!vars)
    BY AgreementStep
  <1> QED
    BY <1>1, AgreementInit, OrderedKeysInvariant, PTL
       DEF Spec, ImplementsKeyAgreement, Agreement!Spec

-----------------------------------------------------------------------------
(* Keys stay in step: what a move makes of the keys in use.                *)

LEMMA SameInStep ==
    ASSUME NEW v, NEW w, SameKeys(v, w)
    PROVE  /\ \A id, s : UnderCurrent(w, id, s) = UnderCurrent(v, id, s)
           /\ \A id, s : UnderNext(w, id, s) = UnderNext(v, id, s)
           /\ \A a : OfferCurrent(w, a) = OfferCurrent(v, a)
           /\ \A u : UserInStep(w, u) = UserInStep(v, u)
  <1>1. /\ \A id, s : UnderCurrent(w, id, s) = UnderCurrent(v, id, s)
        /\ \A id, s : UnderNext(w, id, s) = UnderNext(v, id, s)
    BY DEF SameKeys, UnderCurrent, UnderNext, Offering
  <1> QED
    BY <1>1 DEF OfferCurrent, UserInStep

\* A key in use where it was in use before, under the same id.
LEMMA TracesInStep ==
    ASSUME NEW v, NEW w, UsersInStep(v),
           \A u \in PacketsIn(w) : \E x \in UsersIn(v) : Traces(u, x)
    PROVE  \A u \in PacketsIn(w) : u.mac # NoSeed => UserInStep(v, u)
  <1> SUFFICES ASSUME NEW u \in PacketsIn(w), u.mac # NoSeed
               PROVE  UserInStep(v, u)
    OBVIOUS
  <1>1. PICK x \in UsersIn(v) : u.macId = x.macId /\ u.mac = x.mac
    BY DEF Traces
  <1>2. UserInStep(v, x)
    BY <1>1 DEF UsersInStep, UsersIn
  <1> QED
    BY <1>1, <1>2 DEF UserInStep

LEMMA FollowsInStep ==
    ASSUME NEW v, NEW w, SameKeys(v, w), Follows(v, w)
    PROVE  /\ OffersInStep(v) => OffersInStep(w)
           /\ UsersInStep(v) /\ UserInStep(v, w.kb) => UsersInStep(w)
  BY SameInStep, TracesInStep DEF Follows, OffersInStep, UsersInStep

LEMMA AnswersInStep ==
    ASSUME NEW v, NEW w, CircleType(v), NEW a, Answers(v, w, a), a.macOk, a.sealed
    PROVE  /\ OffersInStep(v) => OffersInStep(w)
           /\ UsersInStep(v) => UsersInStep(w)
  <1>1. /\ OffersIn(w) \subseteq OffersIn(v) \cup {a}
        /\ \A u \in PacketsIn(w) : \E x \in UsersIn(v) : Traces(u, x)
        /\ w.kb = v.kb /\ SameKeys(v, w)
    BY AnswersFollows
  <1>2. Offering(v) /\ a.id = v.new_key_id /\ a.seed = v.seed
    BY DEF Answers, Drops, Loses, Offers, SameKeys, Offering
  <1>3. OfferCurrent(v, a)
    BY <1>2 DEF OfferCurrent, UnderNext
  <1> QED
    BY <1>1, <1>3, SameInStep, TracesInStep DEF OffersInStep, UsersInStep

\* The receiver confirms: the next key is now the current one, and of the old one
\* only the compiled-in key is left.
LEMMA ConfirmsInStep ==
    ASSUME NEW v, NEW w, NEW d \in Nat, CircleInv(v, d), ConfirmsNext(v, w),
           ~ StoresZero, v.new_key_id # v.key_id
    PROVE  /\ OffersInStep(v) => OffersInStep(w)
           /\ UsersInStep(v) => UsersInStep(w)
  <1> DEFINE n == v.new_key_id
  <1>0. /\ KeysInv(v) /\ CircleType(v) /\ Offering(v)
        /\ w.key_id = n /\ w.ctxMac = v.ctxMac /\ w.kb = v.kb /\ ~ Offering(w)
    BY DEF CircleInv, ConfirmsNext, Offering
  <1>1. Follows(v, w)
    BY <1>0, FollowsLemma
  <1>2. OneKey(w, n)
    <2>1. FlowInv(w, d)
      BY ConfirmsNextLemma
    <2> QED
      BY <1>0, <2>1 DEF FlowInv, OneKeyInv, CurrentKeys
  <1>3. n # 0 /\ v.ctxMac[Slot(n)] = v.seed /\ v.ctxMac[0] = 0
    BY <1>0 DEF KeysInv, Offering
  <1>4. \A s : UnderNext(v, n, s) => UnderCurrent(w, n, s)
    BY <1>0, <1>3 DEF UnderNext, UnderCurrent
  <1>5. ASSUME NEW a \in OffersIn(w), OfferCurrent(v, a)
        PROVE  OfferCurrent(w, a)
    <2>1. a.macOk /\ a.sealed /\ a.id = n
      BY <1>2, <1>3, <1>5 DEF OneKey, OfferFits, OfferCurrent
    <2>2. UnderNext(v, n, a.seed)
      BY <1>5, <2>1 DEF OfferCurrent, UnderCurrent
    <2> QED
      BY <1>4, <2>1, <2>2 DEF OfferCurrent
  <1>6. ASSUME NEW u \in UsersIn(w), UserInStep(v, u)
        PROVE  UserInStep(w, u)
    <2>1. u.macId \in {0, n}
      BY <1>2, <1>3, <1>6 DEF OneKey, Fits
    <2>2. CASE UnderCurrent(v, u.macId, u.mac)
      <3>1. u.macId = 0 /\ v.key_id = 0
        BY <2>1, <2>2 DEF UnderCurrent
      <3>2. KeyIdMod - 1 # 0 /\ Slot(0) = 0
        BY KeyIdAssumption DEF Slot
      <3> QED
        BY <1>3, <2>2, <3>1, <3>2 DEF UnderCurrent, UserInStep
    <2>3. CASE UnderNext(v, u.macId, u.mac)
      BY <1>4, <2>3 DEF UnderNext, UserInStep
    <2> QED
      BY <1>6, <2>2, <2>3 DEF UserInStep
  <1>7. OffersInStep(v) => OffersInStep(w)
    BY <1>1, <1>5 DEF Follows, OffersInStep
  <1>8. UsersInStep(v) => UsersInStep(w)
    BY <1>0, <1>1, <1>6, TracesInStep DEF Follows, UsersInStep, UsersIn
  <1> QED
    BY <1>7, <1>8

\* The receiver prepares and publishes the next key beside the current one.
LEMMA PreparesInStep ==
    ASSUME NEW v, NEW w, SameFlow(v, w), ~ Offering(v), w.key_id = v.key_id,
           \/ v.key_id = KeyIdMod - 1
           \/ w.ctxMac[Slot(v.key_id)] = v.ctxMac[Slot(v.key_id)]
    PROVE  /\ OffersInStep(v) => OffersInStep(w)
           /\ UsersInStep(v) => UsersInStep(w)
  <1>1. /\ \A id, s : UnderCurrent(v, id, s) => UnderCurrent(w, id, s)
        /\ \A id, s : ~ UnderNext(v, id, s)
    BY DEF UnderCurrent, UnderNext
  <1>2. /\ \A a : OfferCurrent(v, a) => OfferCurrent(w, a)
        /\ \A u : UserInStep(v, u) => UserInStep(w, u)
    BY <1>1 DEF OfferCurrent, UserInStep
  <1>3. OffersIn(w) = OffersIn(v) /\ PacketsIn(w) = PacketsIn(v) /\ w.kb = v.kb
    BY SameFlowLemma DEF SameFlow
  <1> QED
    BY <1>2, <1>3 DEF OffersInStep, UsersInStep

-----------------------------------------------------------------------------
(* Keys stay in step: what the steps of Rekey are.                         *)

\* The next id is another one, and its context another but after the largest id.
LEMMA NextSlot ==
    ASSUME NEW id \in KeyIds
    PROVE  /\ SkippingZero(NextKeyId(id)) # id
           /\ id # KeyIdMod - 1 => Slot(SkippingZero(NextKeyId(id))) # Slot(id)
  BY KeyIdAssumption DEF KeyIds, NextKeyId, SkippingZero, Slot, GeneratedSlot

\* No budget is ever paid back.
LEMMA SpentStays ==
    ASSUME FieldsOK, [Next]_vars, NEW what \in Spendings
    PROVE  spent'[what] = 0 => spent[what] = 0
  <1>1. UNCHANGED spent \/ \E w \in Spendings : Spend(w)
    BY SpendStep
  <1>2. spent \in [Spendings -> Nat]
    BY DEF FieldsOK
  <1>3. CASE UNCHANGED spent
    BY <1>3
  <1>4. ASSUME NEW w \in Spendings, Spend(w)
        PROVE  spent'[what] = 0 => spent[what] = 0
    BY <1>2, <1>4, SpendLemma
  <1> QED
    BY <1>1, <1>3, <1>4

\* The context under derivation is not that of the current key.
LEMMA DerivedSlot ==
    ASSUME OrderedKeys, NEW h \in Halves, turn = h,
           mainPc \in {"rekey_enc", "rekey_mac"}
    PROVE  /\ GeneratedSlot(new_key_id[h]) \in {1, 2}
           /\ GeneratedSlot(new_key_id[h]) = Slot(new_key_id[h])
           /\ ~ OnLastId(h) => GeneratedSlot(new_key_id[h]) # Slot(key_id[h])
  <1>1. FieldsOK /\ LockInv /\ IdsInv(h)
    BY DEF OrderedKeys, KeyInv, KeyOrder
  <1>2. state[h] = "seed_ready" /\ key_id[h] \in KeyIds
    BY <1>1 DEF LockInv, FieldsOK
  <1>3. new_key_id[h] = SkippingZero(NextKeyId(key_id[h]))
    BY <1>1, <1>2 DEF IdsInv
  <1>4. new_key_id[h] \in KeyIds /\ new_key_id[h] # 0
    BY <1>2, <1>3, IdLemma
  <1> QED
    BY <1>2, <1>3, <1>4, IdLemma, NextSlot DEF OnLastId

\* What the main loop leaves of the contexts of a half.
LEMMA ContextsLeft ==
    ASSUME OrderedKeys, NEW h \in Halves, UpdateRekeyState(h)
    PROVE  \A g \in Halves, i \in Slots :
              \/ ctxEnc'[g][i] = ctxEnc[g][i] /\ ctxMac'[g][i] = ctxMac[g][i]
              \/ /\ g = h /\ turn = h /\ mainPc \in {"rekey_enc", "rekey_mac"}
                 /\ i = GeneratedSlot(new_key_id[h])
  <1>1. /\ ctxEnc \in [Halves -> [Slots -> Seeds]]
        /\ ctxMac \in [Halves -> [Slots -> Seeds]]
    BY DEF OrderedKeys, KeyInv, FieldsOK
  <1>2. CASE UNCHANGED <<ctxEnc, ctxMac>>
    BY <1>2
  <1>3. CASE RekeyEnc(h)
    BY <1>1, <1>3 DEF RekeyEnc
  <1>4. CASE RekeyMac(h)
    BY <1>1, <1>4 DEF RekeyMac
  <1>5. CASE RekeyFault(h)
    BY <1>1, <1>5 DEF RekeyFault
  <1> QED
    BY <1>2, <1>3, <1>4, <1>5
       DEF UpdateRekeyState, LoopIdle, GatherByte, GatherLast, SkipZero, RekeyBegin,
           SealBegin, Seal, SealMac, SealFault, keyVars

LEMMA WholeStep ==
    ASSUME OrderedKeys, KeysCurrent, [Next]_vars
    PROVE  \A g \in Halves : CurrentWhole(g)'
  <1> SUFFICES ASSUME NEW g \in Halves PROVE CurrentWhole(g)'
    OBVIOUS
  <1>0. /\ FieldsOK /\ LockInv /\ OfferInv /\ CurrentWhole(g) /\ ctxMac[g][0] = 0
        /\ key_id[g] \in KeyIds /\ new_key_id[g] \in KeyIds
    BY DEF OrderedKeys, KeyInv, KeysCurrent, KeyOrder, KeysInv, Circle, FieldsOK
  <1>1. spent'["sealFault"] = 0 => spent["sealFault"] = 0
    BY <1>0, SpentStays DEF Spendings
  <1>2. ASSUME UNCHANGED <<ctxEnc, ctxMac>>, key_id'[g] = key_id[g]
        PROVE  CurrentWhole(g)'
    BY <1>0, <1>1, <1>2 DEF CurrentWhole, OnLastId
  <1>3. CASE UNCHANGED vars
    BY <1>2, <1>3 DEF vars, keyVars
  <1>4. CASE ReceiverReset
    <2>1. /\ ctxEnc'[g] = FreshContexts /\ ctxMac'[g] = FreshContexts
          /\ key_id'[g] = 0
      BY <1>4 DEF ReceiverReset
    <2>2. FreshContexts[0] = 0
      BY DEF FreshContexts, Slots
    <2> QED
      BY <2>1, <2>2 DEF CurrentWhole
  <1>5. ASSUME NEW h \in Halves,
               \/ SendData(h) \/ TxSuccess(h) \/ KeyboardReset(h)
               \/ Exchange(h) \/ AckLost(h) \/ PacketLost(h)
        PROVE  CurrentWhole(g)'
    BY <1>0, <1>2, <1>5, OutsideLemma DEF keyVars
  <1>6. ASSUME NEW h \in Halves, RxReady(h)
        PROVE  CurrentWhole(g)'
    <2>1. UNCHANGED <<ctxEnc, ctxMac>>
      BY <1>6 DEF RxReady, Accept, Reject, Collide, PacketFault, AcceptPacket,
         RejectPacket, CollidePacket, CheckFault, DecryptFault, keyVars
    <2>2. CASE key_id'[g] # key_id[g]
      <3>1. PICK p \in Fetched(h) :
                /\ Verifies(h, p) /\ Confirms(h, p)
                /\ key_id' = [key_id EXCEPT ![h] = new_key_id[h]]
        BY <1>6, <2>2, ConfirmStep
      <3>2. g = h /\ key_id'[g] = new_key_id[g]
        BY <1>0, <2>2, <3>1 DEF FieldsOK
      <3>3. state[g] = "new_key_payload_ready" \/ new_key_id[g] = 0
        BY <3>1, <3>2, ConfirmLemma
      <3>4. CASE new_key_id[g] = 0
        BY <1>0, <2>1, <3>2, <3>4 DEF CurrentWhole, Slot
      <3>5. CASE state[g] = "new_key_payload_ready" /\ new_key_id[g] # 0
        <4>1. Slot(new_key_id[g]) = GeneratedSlot(new_key_id[g])
          BY <3>5 DEF Slot
        <4>2. spent["sealFault"] = 0 => NextEnc(g) = NextMac(g)
          BY <1>0, <3>5 DEF OfferInv
        <4> QED
          BY <1>0, <1>1, <2>1, <3>2, <4>1, <4>2 DEF CurrentWhole, NextEnc, NextMac
      <3> QED
        BY <3>3, <3>4, <3>5
    <2> QED
      BY <1>2, <2>1, <2>2
  <1>7. ASSUME NEW h \in Halves, UpdateRekeyState(h)
        PROVE  CurrentWhole(g)'
    <2>1. key_id' = key_id
      BY <1>7, MainLoopFlow
    <2>2. 0 \in Slots /\ Slot(key_id[g]) \in Slots
      BY <1>0, IdLemma DEF Slots
    <2>3. ctxEnc'[g][0] = ctxEnc[g][0]
      BY <1>7, <2>2, ContextsLeft, DerivedSlot
    <2>4. ~ OnLastId(g) => /\ ctxEnc'[g][Slot(key_id[g])] = ctxEnc[g][Slot(key_id[g])]
                           /\ ctxMac'[g][Slot(key_id[g])] = ctxMac[g][Slot(key_id[g])]
      BY <1>7, <2>2, ContextsLeft, DerivedSlot
    <2> QED
      BY <1>0, <1>1, <2>1, <2>3, <2>4 DEF CurrentWhole, OnLastId
  <1> QED
    BY <1>3, <1>4, <1>5, <1>6, <1>7 DEF Next

\* The half and the radio: a derivation that does not fail leaves the half in step.
LEMMA HalfInStep ==
    ASSUME OrderedKeys, NEW h \in Halves, spent \in [Spendings -> Nat],
           \/ SendData(h) \/ TxSuccess(h) \/ KeyboardReset(h)
           \/ Exchange(h) \/ AckLost(h) \/ PacketLost(h)
    PROVE  /\ Elsewhere(h)
           /\ OffersInStep(Circle(h)) => OffersInStep(Circle(h)')
           /\ OffersInStep(Circle(h)) /\ UsersInStep(Circle(h)) /\ spent'["rekeyFault"] = 0
                  => UsersInStep(Circle(h)')
  <1> DEFINE v == Circle(h)
             w == Circle(h)'
  <1>1. FieldsOK /\ CircleType(v)
    BY CircleLemma DEF OrderedKeys, KeyInv, CircleInv
  <1>2. /\ Elsewhere(h)
        /\ \/ Loses(v, w) \/ Signs(v, w) \/ Sends(v, w) \/ Drops(v, w) \/ Passes(v, w)
           \/ (AdoptSeed(h) \/ AdoptFault(h)) /\ Adopts(v, w)
    BY MovesSend, MovesTxSuccess, MovesKeyboardReset, MovesLink
  <1>3. SameKeys(v, w)
    BY <1>2 DEF Loses, Signs, Sends, Drops, Passes, Adopts, Receives, Carries, SameKeys
  <1>4. AdoptFault(h) => spent'["rekeyFault"] > 0
    BY SpendLemma DEF AdoptFault, Spendings
  <1>5. AdoptSeed(h) => /\ w.kb.macId = Head(v.ackRx).id
                        /\ w.kb.mac = DecryptedSeed(Head(v.ackRx))
    <2>1. kbKeyId \in [Halves -> KeyIds] /\ kbMac \in [Halves -> Seeds]
      BY <1>1 DEF FieldsOK
    <2> QED
      BY <2>1 DEF AdoptSeed, Circle
  <1> HIDE DEF v, w
  <1>6. CASE Loses(v, w)
    <2>1. Follows(v, w) /\ (w.kb = v.kb \/ CompiledIn(w.kb))
      BY <1>1, <1>6, FollowsLemma
    <2>2. UsersInStep(v) => UserInStep(v, w.kb)
      BY <2>1 DEF UsersInStep, UserInStep, CompiledIn
    <2>3. /\ OffersInStep(v) => OffersInStep(w)
          /\ UsersInStep(v) => UsersInStep(w)
      BY <1>3, <2>1, <2>2, FollowsInStep
    <2> QED
      BY <1>2, <2>3 DEF v, w
  <1>7. CASE Signs(v, w) \/ Sends(v, w) \/ Drops(v, w) \/ Passes(v, w)
    <2>1. Follows(v, w) /\ w.kb = v.kb
      BY <1>1, <1>7, FollowsLemma, PassesFollows
    <2>2. /\ OffersInStep(v) => OffersInStep(w)
          /\ UsersInStep(v) => UsersInStep(w)
      BY <1>3, <2>1, FollowsInStep DEF UsersInStep
    <2> QED
      BY <1>2, <2>2 DEF v, w
  <1>8. CASE (AdoptSeed(h) \/ AdoptFault(h)) /\ Adopts(v, w)
    <2>1. Follows(v, w)
      BY <1>1, <1>8, FollowsLemma
    <2>2. OffersInStep(v) /\ AdoptSeed(h) => UserInStep(v, w.kb)
      <3>1. Head(v.ackRx) \in OffersIn(v)
        BY <1>1, <1>8, ElementsLemma DEF Adopts, OffersIn, CircleType
      <3> QED
        BY <1>5, <3>1 DEF OffersInStep, OfferCurrent, UserInStep, DecryptedSeed
    <2>3. /\ OffersInStep(v) => OffersInStep(w)
          /\ UsersInStep(v) /\ UserInStep(v, w.kb) => UsersInStep(w)
      BY <1>3, <2>1, FollowsInStep
    <2> QED
      BY <1>2, <1>4, <1>8, <2>2, <2>3 DEF v, w
  <1> QED
    BY <1>2, <1>6, <1>7, <1>8

\* The callback: what it offers is complete, and what it confirms is the next key.
LEMMA CallbackInStep ==
    ASSUME OrderedKeys, ~ StoresZero, spent["sealFault"] = 0, NEW h \in Halves, RxReady(h)
    PROVE  /\ Elsewhere(h)
           /\ OffersInStep(Circle(h)) => OffersInStep(Circle(h)')
           /\ UsersInStep(Circle(h)) => UsersInStep(Circle(h)')
  <1> DEFINE v == Circle(h)
             w == Circle(h)'
  <1>0. /\ FieldsOK /\ OfferInv /\ IdsInv(h) /\ CircleInv(v, drawn) /\ drawn \in Nat
        /\ key_id[h] \in KeyIds /\ CircleType(v)
    BY CircleLemma DEF OrderedKeys, KeyInv, KeyOrder, FieldsOK, CircleInv
  <1>1. /\ Elsewhere(h)
        /\ \/ Drops(v, w)
           \/ Answers(v, w, ack_payload[h]) /\ state[h] = "new_key_payload_ready"
           \/ ConfirmsNext(v, w)
    BY MovesRxReady
  <1>2. CASE Drops(v, w)
    <2> HIDE DEF v, w
    <2>1. SameKeys(v, w) /\ Follows(v, w) /\ w.kb = v.kb
      BY <1>0, <1>2, PassesFollows DEF Drops, Loses
    <2>2. /\ OffersInStep(v) => OffersInStep(w)
          /\ UsersInStep(v) => UsersInStep(w)
      BY <2>1, FollowsInStep DEF UsersInStep
    <2> QED
      BY <1>1, <2>2 DEF v, w
  <1>3. CASE Answers(v, w, ack_payload[h]) /\ state[h] = "new_key_payload_ready"
    <2>1. ack_payload[h].macOk /\ ack_payload[h].sealed
      BY <1>0, <1>3 DEF OfferInv
    <2> HIDE DEF v, w
    <2>2. /\ OffersInStep(v) => OffersInStep(w)
          /\ UsersInStep(v) => UsersInStep(w)
      BY <1>0, <1>3, <2>1, AnswersInStep
    <2> QED
      BY <1>1, <2>2 DEF v, w
  <1>4. CASE ConfirmsNext(v, w)
    <2>1. v.new_key_id # v.key_id
      <3>1. state[h] = "new_key_payload_ready"
        BY <1>4 DEF ConfirmsNext, Offering, Circle
      <3>2. new_key_id[h] = SkippingZero(NextKeyId(key_id[h]))
        BY <1>0, <3>1 DEF IdsInv
      <3> QED
        BY <1>0, <3>2, NextSlot DEF Circle
    <2> HIDE DEF v, w
    <2>2. /\ OffersInStep(v) => OffersInStep(w)
          /\ UsersInStep(v) => UsersInStep(w)
      BY <1>0, <1>4, <2>1, ConfirmsInStep
    <2> QED
      BY <1>1, <2>2 DEF v, w
  <1> QED
    BY <1>1, <1>2, <1>3, <1>4

LEMMA MainLoopInStep ==
    ASSUME OrderedKeys, NEW h \in Halves, UpdateRekeyState(h)
    PROVE  /\ \A g \in Halves \ {h} : UNCHANGED Circle(g)
           /\ OffersInStep(Circle(h)) => OffersInStep(Circle(h)')
           /\ UsersInStep(Circle(h)) => UsersInStep(Circle(h)')
  <1> DEFINE v == Circle(h)
             w == Circle(h)'
  <1>0. FieldsOK /\ LockInv /\ key_id[h] \in KeyIds
    BY DEF OrderedKeys, KeyInv, FieldsOK
  <1>1. /\ SameFlow(v, w) /\ w.key_id = v.key_id
        /\ \A g \in Halves \ {h} : UNCHANGED Circle(g)
    BY MainLoopFlow DEF Circle
  <1>2. CASE LoopIdle(h)
    <2>1. UNCHANGED Circle(h)
      BY <1>2 DEF LoopIdle, Circle, kbVars, linkVars, keyVars
    <2> QED
      BY <1>1, <2>1
  <1>3. CASE ~ LoopIdle(h)
    <2>1. ~ Offering(v)
      BY <1>0, <1>3 DEF LockInv, UpdateRekeyState, GatherByte, GatherLast, SkipZero,
         RekeyBegin, RekeyEnc, RekeyMac, RekeyFault, SealBegin, Seal, SealMac, SealFault,
         Lock, AtState, Offering, Circle
    <2>2. v.key_id = KeyIdMod - 1 \/ w.ctxMac[Slot(v.key_id)] = v.ctxMac[Slot(v.key_id)]
      <3>1. Slot(key_id[h]) \in Slots
        BY <1>0, IdLemma
      <3> QED
        BY <3>1, ContextsLeft, DerivedSlot DEF OnLastId, Circle
    <2> HIDE DEF v, w
    <2>3. /\ OffersInStep(v) => OffersInStep(w)
          /\ UsersInStep(v) => UsersInStep(w)
      BY <1>1, <2>1, <2>2, PreparesInStep
    <2> QED
      BY <1>1, <2>3 DEF v, w
  <1> QED
    BY <1>2, <1>3

\* Outside ReceiverReset the circles of all halves stay in step together.
LEMMA CirclesInStep ==
    ASSUME OrderedKeys, [Next]_vars, ~ StoresZero, spent'["rcvReset"] = 0,
           spent'["sealFault"] = 0, \A h \in Halves : OffersInStep(Circle(h))
    PROVE  /\ \A h \in Halves : OffersInStep(Circle(h)')
           /\ (\A h \in Halves : UsersInStep(Circle(h))) /\ spent'["rekeyFault"] = 0 =>
                  \A h \in Halves : UsersInStep(Circle(h)')
  <1>0. /\ FieldsOK /\ spent \in [Spendings -> Nat]
        /\ spent["sealFault"] = 0 /\ spent["rcvReset"] = 0
    BY SpentStays DEF OrderedKeys, KeyInv, FieldsOK, Spendings
  <1>1. CASE UNCHANGED vars
    <2>1. \A h \in Halves : Circle(h)' = Circle(h)
      BY <1>1 DEF vars, kbVars, linkVars, keyVars, Circle
    <2> QED
      BY <2>1
  <1>2. ~ ReceiverReset
    BY <1>0, SpendLemma DEF ReceiverReset, Spendings
  <1>3. ASSUME NEW g \in Halves, \A h \in Halves \ {g} : UNCHANGED Circle(h),
               OffersInStep(Circle(g)'),
               UsersInStep(Circle(g)) /\ spent'["rekeyFault"] = 0 => UsersInStep(Circle(g)')
        PROVE  /\ \A h \in Halves : OffersInStep(Circle(h)')
               /\ (\A h \in Halves : UsersInStep(Circle(h))) /\ spent'["rekeyFault"] = 0 =>
                      \A h \in Halves : UsersInStep(Circle(h)')
    <2>1. \A h \in Halves \ {g} : Circle(h)' = Circle(h)
      BY <1>3
    <2> QED
      BY <1>3, <2>1
  <1>4. CASE \E g \in Halves :
                \/ SendData(g) \/ TxSuccess(g) \/ KeyboardReset(g)
                \/ Exchange(g) \/ AckLost(g) \/ PacketLost(g)
    <2>1. PICK g \in Halves :
              \/ SendData(g) \/ TxSuccess(g) \/ KeyboardReset(g)
              \/ Exchange(g) \/ AckLost(g) \/ PacketLost(g)
      BY <1>4
    <2>2. /\ \A h \in Halves \ {g} : UNCHANGED Circle(h)
          /\ OffersInStep(Circle(g)')
          /\ UsersInStep(Circle(g)) /\ spent'["rekeyFault"] = 0 => UsersInStep(Circle(g)')
      BY <1>0, <2>1, HalfInStep DEF Elsewhere
    <2> QED
      BY <1>3, <2>2
  <1>5. CASE \E g \in Halves : RxReady(g)
    <2>1. PICK g \in Halves : RxReady(g)
      BY <1>5
    <2>2. /\ \A h \in Halves \ {g} : UNCHANGED Circle(h)
          /\ OffersInStep(Circle(g)')
          /\ UsersInStep(Circle(g)) => UsersInStep(Circle(g)')
      BY <1>0, <2>1, CallbackInStep DEF Elsewhere
    <2> QED
      BY <1>3, <2>2
  <1>6. CASE \E g \in Halves : UpdateRekeyState(g)
    <2>1. PICK g \in Halves : UpdateRekeyState(g)
      BY <1>6
    <2>2. /\ \A h \in Halves \ {g} : UNCHANGED Circle(h)
          /\ OffersInStep(Circle(g)')
          /\ UsersInStep(Circle(g)) => UsersInStep(Circle(g)')
      BY <2>1, MainLoopInStep
    <2> QED
      BY <1>3, <2>2
  <1> QED
    BY <1>1, <1>2, <1>4, <1>5, <1>6 DEF Next

LEMMA CurrentInit == Init => KeysCurrent
  <1> SUFFICES ASSUME Init PROVE KeysCurrent
    OBVIOUS
  <1>1. ASSUME NEW h \in Halves PROVE CurrentWhole(h)
    <2>1. /\ ctxEnc[h] = FreshContexts /\ ctxMac[h] = FreshContexts /\ key_id[h] = 0
      BY DEF Init, InitReceiver
    <2> QED
      BY <2>1 DEF CurrentWhole, FreshContexts, Slots
  <1>2. ASSUME NEW h \in Halves
        PROVE  OffersInStep(Circle(h)) /\ UsersInStep(Circle(h))
    <2> DEFINE c == Circle(h)
    <2>1. /\ c.kb = [macId |-> 0, mac |-> 0]
          /\ c.ackFifo = <<>> /\ c.ackRx = <<>> /\ c.txFifo = <<>> /\ c.rxFifo = <<>>
          /\ c.data_payload = NoPacket /\ c.stackPayload = NoPacket
      BY DEF Init, InitKeyboards, InitLink, Circle
    <2> HIDE DEF c
    <2>2. PacketsIn(c) = {NoPacket} /\ OffersIn(c) = {}
      BY <2>1, NoElements DEF PacketsIn, OnAir, Received, OffersIn
    <2>3. OffersInStep(c) /\ UsersInStep(c)
      BY <2>1, <2>2 DEF OffersInStep, UsersInStep, UserInStep, NoPacket
    <2> QED
      BY <2>3 DEF c
  <1> QED
    BY <1>1, <1>2 DEF KeysCurrent

LEMMA CurrentStep ==
    ASSUME OrderedKeys, KeysCurrent, [Next]_vars
    PROVE  KeysCurrent'
  <1>1. \A g \in Halves : CurrentWhole(g)'
    BY WholeStep
  <1>2. \A what \in Spendings : spent'[what] = 0 => spent[what] = 0
    BY SpentStays DEF OrderedKeys, KeyInv
  <1>3. ASSUME ~ StoresZero, spent'["rcvReset"] = 0, spent'["sealFault"] = 0
        PROVE  /\ \A h \in Halves : OffersInStep(Circle(h))'
               /\ spent'["rekeyFault"] = 0 => \A h \in Halves : UsersInStep(Circle(h))'
    <2>1. \A h \in Halves : OffersInStep(Circle(h))
      BY <1>2, <1>3 DEF KeysCurrent, Spendings
    <2>2. spent'["rekeyFault"] = 0 => \A h \in Halves : UsersInStep(Circle(h))
      BY <1>2, <1>3 DEF KeysCurrent, Spendings
    <2> QED
      BY <1>3, <2>1, <2>2, CirclesInStep
  <1> QED
    BY <1>1, <1>3 DEF KeysCurrent

LEMMA CurrentInvariant == Spec => [](OrderedKeys /\ KeysCurrent)
  <1>1. Init => OrderedKeys /\ KeysCurrent
    BY KeyInit, OrderInit, CurrentInit DEF OrderedKeys
  <1>2. OrderedKeys /\ KeysCurrent /\ [Next]_vars => (OrderedKeys /\ KeysCurrent)'
    BY KeyStep, OrderStep, CurrentStep DEF OrderedKeys
  <1> QED
    BY <1>1, <1>2, PTL DEF Spec

\* The context of the key in use stays whole, and, in a build that stores the next id
\* once, until the receiver restarts or an AES operation fails, what goes round is that
\* key, the offered one or the compiled-in one (update_rekey_state, send_data,
\* nrf_gzll_device_tx_success).
THEOREM KeysStayCurrent == Spec => []KeysCurrent
  BY CurrentInvariant, PTL

-----------------------------------------------------------------------------
(* Offers and keys the receiver can check.                                 *)

\* In a build that stores the next id once, and until the receiver restarts or fails to
\* seal a payload, every payload on its way to the half still names a key the receiver
\* holds, up to the largest id.
THEOREM OffersStayCurrent ==
    ASSUME ~ StoresZero
    PROVE  Spec => []QueuedOffersCurrent
  <1>1. OrderedKeys /\ KeysCurrent => QueuedOffersCurrent
    <2> SUFFICES ASSUME OrderedKeys, KeysCurrent, spent.rcvReset = 0, spent.sealFault = 0,
                        NEW h \in Halves, ~ OnLastId(h),
                        NEW a \in Elements(ackFifo[h]) \cup Elements(ackRx[h])
                 PROVE  /\ a.id \in {key_id[h], new_key_id[h]}
                        /\ a.macOk /\ a.sealed
                        /\ ctxEnc[h][Slot(a.id)] = a.seed
                        /\ ctxMac[h][Slot(a.id)] = a.seed
      BY DEF QueuedOffersCurrent
    <2>1. OfferCurrent(Circle(h), a)
      BY DEF KeysCurrent, OffersInStep, OffersIn, Circle
    <2>2. /\ LockInv /\ OfferInv /\ CurrentWhole(h)
      BY DEF OrderedKeys, KeyInv, KeysCurrent
    <2>3. CASE UnderCurrent(Circle(h), a.id, a.seed)
      BY <2>1, <2>2, <2>3 DEF OfferCurrent, UnderCurrent, CurrentWhole, OnLastId, Circle
    <2>4. CASE UnderNext(Circle(h), a.id, a.seed)
      <3>1. /\ state[h] = "new_key_payload_ready" /\ a.id = new_key_id[h]
            /\ a.seed = ack_payload[h].seed
        BY <2>4 DEF UnderNext, Offering, Circle
      <3>2. NextEnc(h) = a.seed /\ NextMac(h) = a.seed
        BY <2>2, <3>1 DEF OfferInv
      <3>3. a.id # 0
        <4>1. NextIdStored(h) /\ (mainPc = "skip_zero" /\ turn = h
                  => state[h] \in {"key_not_ready", "seed_ready"})
          BY <2>2, <3>1 DEF LockInv
        <4> QED
          BY <3>1, <4>1 DEF NextIdStored
      <3> QED
        BY <2>1, <3>1, <3>2, <3>3 DEF OfferCurrent, NextEnc, NextMac, Slot
    <2> QED
      BY <2>1, <2>3, <2>4 DEF OfferCurrent
  <1> QED
    BY <1>1, CurrentInvariant, PTL

\* In such a build, and while also no derivation fails, the receiver holds the key the
\* half uses and that of every packet on the air.
THEOREM KeyboardStaysInStep ==
    ASSUME ~ StoresZero
    PROVE  Spec => []KeyboardInStep
  <1>1. OrderedKeys /\ KeysCurrent => KeyboardInStep
    <2> SUFFICES ASSUME OrderedKeys, KeysCurrent, spent.rcvReset = 0, spent.sealFault = 0,
                        spent.rekeyFault = 0, NEW h \in Halves, ~ OnLastId(h)
                 PROVE  /\ Checkable(h, kbKeyId[h], kbMac[h])
                        /\ \A p \in Elements(txFifo[h]) \cup Elements(rxFifo[h]) :
                               p.macId = p.id /\ p.mac # NoSeed => Checkable(h, p.id, p.mac)
      BY DEF KeyboardInStep
    <2>1. UsersInStep(Circle(h)) /\ KeysInv(Circle(h))
      BY DEF KeysCurrent, OrderedKeys, KeyOrder
    <2>2. ASSUME NEW u, UserInStep(Circle(h), u)
          PROVE  Checkable(h, u.macId, u.mac)
      <3>1. CASE u.macId = 0 /\ u.mac = 0
        BY <2>1, <3>1 DEF KeysInv, Checkable, Slot, Circle
      <3>2. CASE UnderCurrent(Circle(h), u.macId, u.mac)
        BY <3>2 DEF UnderCurrent, Checkable, OnLastId, Circle
      <3>3. CASE UnderNext(Circle(h), u.macId, u.mac)
        BY <2>1, <3>3 DEF UnderNext, Offering, KeysInv, Checkable, Circle
      <3> QED
        BY <2>2, <3>1, <3>2, <3>3 DEF UserInStep
    <2>3. Checkable(h, kbKeyId[h], kbMac[h])
      BY <2>1, <2>2 DEF UsersInStep, Circle
    <2>4. \A p \in Elements(txFifo[h]) \cup Elements(rxFifo[h]) :
              p.mac # NoSeed => UserInStep(Circle(h), p)
      BY <2>1 DEF UsersInStep, PacketsIn, OnAir, Received, Circle
    <2> QED
      BY <2>2, <2>3, <2>4
  <1> QED
    BY <1>1, CurrentInvariant, PTL
=============================================================================
