------------------------- MODULE RekeyCircleProofs -------------------------
(***************************************************************************)
(* How each move of a key, an offer or a packet around the circle of       *)
(* module RekeyOrder keeps the keys in order.  The lemmas are about two    *)
(* circles, v before and w after the move; RekeyOrderProofs applies them   *)
(* to the actions of module Rekey.                                         *)
(***************************************************************************)
EXTENDS RekeyOrder, SequenceTheorems, TLAPS

-----------------------------------------------------------------------------
(* Sequences.                                                              *)

LEMMA ElementsLemma ==
    ASSUME NEW S, NEW s \in Seq(S)
    PROVE  /\ Elements(s) \subseteq S
           /\ s # <<>> => Head(s) \in Elements(s) /\ Elements(Tail(s)) \subseteq Elements(s)
           /\ \A e \in S : Elements(Append(s, e)) = Elements(s) \cup {e}
  <1>1. Elements(s) \subseteq S
    BY DEF Elements
  <1>2. s # <<>> => Head(s) \in Elements(s) /\ Elements(Tail(s)) \subseteq Elements(s)
    <2> SUFFICES ASSUME s # <<>>
                 PROVE  Head(s) \in Elements(s) /\ Elements(Tail(s)) \subseteq Elements(s)
      OBVIOUS
    <2>1. Len(s) \in Nat /\ Len(s) > 0 /\ Head(s) = s[1]
      BY EmptySeq, LenProperties
    <2>2. /\ Len(Tail(s)) = Len(s) - 1
          /\ \A i \in 1..Len(Tail(s)) : Tail(s)[i] = s[i + 1]
      BY HeadTailProperties
    <2> QED
      BY <2>1, <2>2 DEF Elements
  <1>3. ASSUME NEW e \in S
        PROVE  Elements(Append(s, e)) = Elements(s) \cup {e}
    <2>1. /\ Len(s) \in Nat
          /\ Len(Append(s, e)) = Len(s) + 1
          /\ \A i \in 1..Len(s) : Append(s, e)[i] = s[i]
          /\ Append(s, e)[Len(s) + 1] = e
      BY AppendProperties, LenProperties
    <2> QED
      BY <2>1 DEF Elements
  <1> QED
    BY <1>1, <1>2, <1>3

LEMMA NoElements == Elements(<<>>) = {}
  BY DEF Elements

\* The order holds of a sequence without an element of New, it survives taking the
\* first element, and it survives appending an element of Late.
LEMMA InOrderLemma ==
    ASSUME NEW S, NEW s \in Seq(S), NEW New, NEW Late
    PROVE  /\ (\A x \in Elements(s) : x \notin New) => InOrder(s, New, Late)
           /\ s # <<>> /\ InOrder(s, New, Late) =>
                  /\ InOrder(Tail(s), New, Late)
                  /\ Head(s) \in New => Elements(Tail(s)) \subseteq Late
           /\ \A e \in S :
                  InOrder(s, New, Late)
                  /\ (e \in Late \/ \A x \in Elements(s) : x \notin New)
                      => InOrder(Append(s, e), New, Late)
  <1>0. Len(s) \in Nat
    BY LenProperties
  <1>1. (\A x \in Elements(s) : x \notin New) => InOrder(s, New, Late)
    BY DEF Elements, InOrder
  <1>2. ASSUME s # <<>>, InOrder(s, New, Late)
        PROVE  /\ InOrder(Tail(s), New, Late)
               /\ Head(s) \in New => Elements(Tail(s)) \subseteq Late
    <2>1. Len(s) > 0 /\ Head(s) = s[1]
      BY <1>0, <1>2, EmptySeq
    <2>2. /\ Len(Tail(s)) = Len(s) - 1
          /\ \A i \in 1..Len(Tail(s)) : Tail(s)[i] = s[i + 1]
      BY <1>2, HeadTailProperties
    <2>3. \A i \in 1..Len(Tail(s)) : i + 1 \in 1..Len(s)
      BY <1>0, <2>1, <2>2
    <2>4. InOrder(Tail(s), New, Late)
      <3> SUFFICES ASSUME NEW i \in 1..Len(Tail(s)), NEW j \in 1..Len(Tail(s)),
                          i < j, Tail(s)[i] \in New
                   PROVE  Tail(s)[j] \in Late
        BY DEF InOrder
      <3>1. i + 1 \in 1..Len(s) /\ j + 1 \in 1..Len(s) /\ i + 1 < j + 1
        BY <2>3
      <3> QED
        BY <1>2, <2>2, <3>1 DEF InOrder
    <2>5. ASSUME Head(s) \in New, NEW j \in 1..Len(Tail(s))
          PROVE  Tail(s)[j] \in Late
      <3>1. 1 \in 1..Len(s) /\ j + 1 \in 1..Len(s) /\ 1 < j + 1
        BY <1>0, <2>1, <2>3
      <3> QED
        BY <1>2, <2>1, <2>2, <2>5, <3>1 DEF InOrder
    <2> QED
      BY <2>4, <2>5 DEF Elements
  <1>3. ASSUME NEW e \in S, InOrder(s, New, Late),
               e \in Late \/ \A x \in Elements(s) : x \notin New
        PROVE  InOrder(Append(s, e), New, Late)
    <2>1. /\ Len(Append(s, e)) = Len(s) + 1
          /\ \A i \in 1..Len(s) : Append(s, e)[i] = s[i]
          /\ Append(s, e)[Len(s) + 1] = e
      BY AppendProperties
    <2> SUFFICES ASSUME NEW i \in 1..Len(s) + 1, NEW j \in 1..Len(s) + 1,
                        i < j, Append(s, e)[i] \in New
                 PROVE  Append(s, e)[j] \in Late
      BY <2>1 DEF InOrder
    <2>2. i \in 1..Len(s) /\ s[i] \in New /\ s[i] \in Elements(s)
      BY <1>0, <2>1 DEF Elements
    <2>3. CASE j \in 1..Len(s)
      BY <1>3, <2>1, <2>2, <2>3 DEF InOrder
    <2>4. CASE j = Len(s) + 1
      BY <1>3, <2>1, <2>2, <2>4
    <2> QED
      BY <1>0, <2>3, <2>4
  <1> QED
    BY <1>1, <1>2, <1>3

-----------------------------------------------------------------------------
(* Circles.                                                                *)

LEMMA IdSlot == \A id \in KeyIds : id # 0 => Slot(id) \in {1, 2}
  BY KeyIdAssumption DEF KeyIds, Slot, GeneratedSlot

LEMMA SeedsAreIntegers == \A s \in Seeds : s \in Int
  BY BoundsAssumption DEF Seeds, NoSeed

CircleType(c) ==
    /\ c.ackFifo \in Seq(AckPayloads) /\ c.ackRx \in Seq(AckPayloads)
    /\ c.kb.macId \in KeyIds /\ c.kb.mac \in Seeds
    /\ c.data_payload \in Packets /\ c.stackPayload \in Packets
    /\ c.txFifo \in Seq(Packets) /\ c.rxFifo \in Seq(Packets)
    /\ c.state \in States
    /\ c.key_id \in KeyIds /\ c.new_key_id \in KeyIds
    /\ c.seed \in Seeds /\ c.ctxMac \in [Slots -> Seeds]

\* What goes round, without the receiver's own contexts.
FlowInv(c, d) == SeedsInv(c, d) /\ OneKeyInv(c) /\ OrderInv(c)

CircleInv(c, d) == CircleType(c) /\ KeysInv(c) /\ FlowInv(c, d)

SameKeys(v, w) ==
    /\ w.state = v.state /\ w.key_id = v.key_id /\ w.new_key_id = v.new_key_id
    /\ w.seed = v.seed /\ w.ctxMac = v.ctxMac

\* What fits a key does so whatever moves, as long as the receiver keeps its keys.
LEMMA SameKeysLemma ==
    ASSUME NEW v, NEW w, SameKeys(v, w)
    PROVE  /\ Offering(w) = Offering(v) /\ Pending(w) = Pending(v)
           /\ Known(w) = Known(v)
           /\ \A b, u : Fits(w, b, u) = Fits(v, b, u)
           /\ \A b, a : OfferFits(w, b, a) = OfferFits(v, b, a)
           /\ \A u : OldOrNew(w, u) = OldOrNew(v, u)
           /\ \A a : OldOrNewOffer(w, a) = OldOrNewOffer(v, a)
           /\ CurrentKeys(w) = CurrentKeys(v)
           /\ NewOffers(w) = NewOffers(v) /\ LateOffers(w) = LateOffers(v)
           /\ NewPackets(w) = NewPackets(v) /\ LatePackets(w) = LatePackets(v)
           /\ KeysInv(v) => KeysInv(w)
  <1>1. Known(w) = Known(v)
    BY DEF SameKeys, Known
  <1>2. /\ \A b, u : Fits(w, b, u) = Fits(v, b, u)
        /\ \A b, a : OfferFits(w, b, a) = OfferFits(v, b, a)
    BY <1>1 DEF SameKeys, Fits, OfferFits
  <1>3. Offering(w) = Offering(v) /\ Pending(w) = Pending(v)
    BY DEF SameKeys, Offering, Pending
  <1>4. /\ \A u : OldOrNew(w, u) = OldOrNew(v, u)
        /\ \A a : OldOrNewOffer(w, a) = OldOrNewOffer(v, a)
    BY <1>2 DEF SameKeys, OldOrNew, OldOrNewOffer
  <1>5. CurrentKeys(w) = CurrentKeys(v)
    BY DEF SameKeys, CurrentKeys
  <1>6. /\ NewOffers(w) = NewOffers(v) /\ LateOffers(w) = LateOffers(v)
        /\ NewPackets(w) = NewPackets(v) /\ LatePackets(w) = LatePackets(v)
    BY <1>2 DEF SameKeys, NewOffers, LateOffers, NewPackets, LatePackets
  <1>7. KeysInv(v) => KeysInv(w)
    BY <1>1, <1>3 DEF SameKeys, KeysInv
  <1> QED
    BY <1>1, <1>2, <1>3, <1>4, <1>5, <1>6, <1>7

\* An unused packet, and the compiled-in key, fit every key and are never the next.
Empty(u) == u.macId = 0 /\ u.mac = NoSeed
CompiledIn(u) == u.macId = 0 /\ u.mac = 0
Blank(u) == Empty(u) \/ CompiledIn(u)

LEMMA BlankLemma ==
    ASSUME NEW c, KeysInv(c), NEW u, Blank(u)
    PROVE  /\ \A b : Fits(c, b, u)
           /\ Offering(c) => OldOrNew(c, u)
           /\ Pending(c) => u.mac # c.seed
  <1>1. u.mac \notin Known(c) /\ u.macId = 0 /\ u.mac \in {0, -1}
    BY DEF KeysInv, Known, Blank, Empty, CompiledIn, NoSeed
  <1>2. \A b : Fits(c, b, u)
    BY <1>1 DEF Fits
  <1>3. Pending(c) => u.mac # c.seed
    BY <1>1 DEF KeysInv
  <1> QED
    BY <1>2, <1>3 DEF OldOrNew

\* The next key, used by the half or in a packet, is used under the next id.
LEMMA NewFitsLemma ==
    ASSUME NEW c, CircleType(c), KeysInv(c), Offering(c)
    PROVE  /\ c.seed \in Known(c)
           /\ \A u : OldOrNew(c, u) /\ u.mac = c.seed => Fits(c, c.new_key_id, u)
           /\ \A a : OldOrNewOffer(c, a) /\ DecryptedSeed(a) = c.seed
                         => OfferFits(c, c.new_key_id, a)
  <1>1. c.new_key_id # 0 /\ c.ctxMac[Slot(c.new_key_id)] = c.seed
    BY DEF KeysInv, Offering
  <1>2. Slot(c.new_key_id) \in {1, 2}
    BY <1>1, IdSlot DEF CircleType
  <1>3. c.seed \in Known(c)
    <2>1. c.seed > 0
      BY DEF KeysInv, Offering, Pending
    <2> QED
      BY <1>1, <1>2, <2>1 DEF Known, NoSeed
  <1>4. ASSUME NEW u, OldOrNew(c, u), u.mac = c.seed
        PROVE  Fits(c, c.new_key_id, u)
    BY <1>1, <1>4 DEF OldOrNew, Fits
  <1> QED
    BY <1>3, <1>4 DEF OldOrNewOffer

-----------------------------------------------------------------------------
(* The moves.                                                              *)

\* A FIFO that stays as it is, is flushed, or loses its first element.
Shrinks(s, t) == t = s \/ t = <<>> \/ (s # <<>> /\ t = Tail(s))

LEMMA ShrinksLemma ==
    ASSUME NEW S, NEW s \in Seq(S), NEW t, Shrinks(s, t), NEW New, NEW Late,
           InOrder(s, New, Late)
    PROVE  InOrder(t, New, Late)
  <1>1. InOrder(<<>>, New, Late)
    BY DEF InOrder
  <1> QED
    BY <1>1, InOrderLemma DEF Shrinks

LEMMA ShrunkElements ==
    ASSUME NEW S, NEW s \in Seq(S), NEW t, Shrinks(s, t)
    PROVE  Elements(t) \subseteq Elements(s)
  BY ElementsLemma, NoElements DEF Shrinks

\* What uses the key another did, under the same id, or no key at all.
Weaker(x, y) == Blank(x) \/ (x.macId = y.macId /\ x.mac = y.mac)

LEMMA WeakerLemma ==
    ASSUME NEW c, KeysInv(c), NEW x, NEW y, Weaker(x, y)
    PROVE  /\ \A b : Fits(c, b, y) => Fits(c, b, x)
           /\ Offering(c) /\ OldOrNew(c, y) => OldOrNew(c, x)
           /\ Pending(c) /\ x.mac = c.seed => y.mac = c.seed
  <1>1. CASE Blank(x)
    BY <1>1, BlankLemma
  <1>2. CASE x.macId = y.macId /\ x.mac = y.mac
    BY <1>2 DEF Fits, OldOrNew
  <1> QED
    BY <1>1, <1>2 DEF Weaker

\* A packet that stays as it is or is dropped.
Fades(x, y) == Empty(x) \/ (x.macId = y.macId /\ x.mac = y.mac)

\* Offers and packets are lost or used up, packets are dropped, and the half falls
\* back to the compiled-in key: no key advances.
Loses(v, w) ==
    /\ SameKeys(v, w)
    /\ Shrinks(v.ackFifo, w.ackFifo) /\ Shrinks(v.ackRx, w.ackRx)
    /\ Shrinks(v.txFifo, w.txFifo)
    /\ w.kb = v.kb \/ CompiledIn(w.kb)
    /\ Fades(w.data_payload, v.data_payload)
    /\ \A p \in Received(w) : \E q \in Received(v) : Fades(p, q)

LEMMA LosesLemma ==
    ASSUME NEW v, NEW w, NEW d \in Nat, CircleInv(v, d), Loses(v, w)
    PROVE  FlowInv(w, d)
  <1>0. SameKeys(v, w) /\ KeysInv(v) /\ CircleType(v) /\ SeedsInv(v, d)
        /\ OneKeyInv(v) /\ OrderInv(v)
    BY DEF Loses, CircleInv, FlowInv
  <1>1. /\ Elements(w.ackFifo) \subseteq Elements(v.ackFifo)
        /\ Elements(w.ackRx) \subseteq Elements(v.ackRx)
        /\ Elements(w.txFifo) \subseteq Elements(v.txFifo)
    BY ShrunkElements DEF Loses, CircleInv, CircleType
  <1>2. /\ \A u \in Received(w) : \E t \in Received(v) : Weaker(u, t)
        /\ Weaker(w.kb, v.kb) /\ Weaker(w.data_payload, v.data_payload)
        /\ \A u \in Elements(w.txFifo) : Weaker(u, u)
    BY DEF Loses, Weaker, Fades, Blank
  <1>3. /\ \A u \in OnAir(w) : \E t \in OnAir(v) : Weaker(u, t)
        /\ \A u \in PacketsIn(w) : \E t \in PacketsIn(v) : Weaker(u, t)
        /\ \A u \in UsersIn(w) : \E t \in UsersIn(v) : Weaker(u, t)
        /\ OffersIn(w) \subseteq OffersIn(v)
    BY <1>1, <1>2 DEF OnAir, PacketsIn, UsersIn, OffersIn
  <1>4. \A x, y : Weaker(x, y) =>
            /\ \A b : Fits(v, b, y) => Fits(v, b, x)
            /\ Offering(v) /\ OldOrNew(v, y) => OldOrNew(v, x)
            /\ Pending(v) /\ x.mac = v.seed => y.mac = v.seed
    BY <1>0, WeakerLemma
  <1>5. SeedsInv(w, d)
    <2>1. \A u \in UsersIn(w) : u.mac <= d
      BY <1>0, <1>3 DEF SeedsInv, Weaker, Blank, Empty, CompiledIn, NoSeed
    <2> QED
      BY <1>0, <1>3, <2>1 DEF SeedsInv, SameKeys
  <1>6. OneKeyInv(w)
    <2> SUFFICES ASSUME ~ Offering(w)
                 PROVE  /\ \E b \in CurrentKeys(w) : OneKey(w, b)
                        /\ Pending(w) => Secret(w)
      BY DEF OneKeyInv
    <2>1. ~ Offering(v)
      BY <1>0, SameKeysLemma
    <2>2. PICK b \in CurrentKeys(v) : OneKey(v, b)
      BY <1>0, <2>1 DEF OneKeyInv
    <2>3. OneKey(w, b)
      BY <1>0, <1>3, <1>4, <2>2, SameKeysLemma DEF OneKey
    <2>4. ASSUME Pending(w) PROVE Secret(w)
      <3>1. Pending(v) /\ Secret(v) /\ w.seed = v.seed
        BY <1>0, <2>1, <2>4, SameKeysLemma DEF OneKeyInv, SameKeys
      <3> QED
        BY <1>3, <1>4, <3>1 DEF Secret
    <2> QED
      BY <1>0, <2>2, <2>3, <2>4, SameKeysLemma
  <1>7. OrderInv(w)
    <2> SUFFICES ASSUME Offering(w) PROVE OrderInv(w)
      BY DEF OrderInv
    <2>0. Offering(v) /\ Pending(v) /\ w.seed = v.seed /\ w.new_key_id = v.new_key_id
      BY <1>0, SameKeysLemma DEF Offering, Pending, SameKeys
    <2>1. \A u \in UsersIn(w) : OldOrNew(w, u)
      BY <1>0, <1>3, <1>4, <2>0, SameKeysLemma DEF OrderInv
    <2>2. \A a \in OffersIn(w) : OldOrNewOffer(w, a)
      BY <1>0, <1>3, <2>0, SameKeysLemma DEF OrderInv
    <2>3. /\ InOrder(w.ackFifo, NewOffers(w), LateOffers(w))
          /\ InOrder(w.ackRx, NewOffers(w), LateOffers(w))
          /\ InOrder(w.txFifo, NewPackets(w), LatePackets(w))
      <3>1. /\ InOrder(v.ackFifo, NewOffers(w), LateOffers(w))
            /\ InOrder(v.ackRx, NewOffers(w), LateOffers(w))
            /\ InOrder(v.txFifo, NewPackets(w), LatePackets(w))
        BY <1>0, <2>0, SameKeysLemma DEF OrderInv
      <3>2. /\ v.ackFifo \in Seq(AckPayloads) /\ v.ackRx \in Seq(AckPayloads)
            /\ v.txFifo \in Seq(Packets)
            /\ Shrinks(v.ackFifo, w.ackFifo) /\ Shrinks(v.ackRx, w.ackRx)
            /\ Shrinks(v.txFifo, w.txFifo)
        BY <1>0 DEF CircleType, Loses
      <3> QED
        BY <3>1, <3>2, ShrinksLemma
    <2>4. /\ Arrived(w) => Arrived(v)
          /\ Queued(w) => Queued(v)
          /\ Sending(w) => Sending(v)
          /\ Adopted(w) => Adopted(v)
          /\ Delivered(w) => Delivered(v)
      <3>1. \A x, y : Weaker(x, y) /\ x.mac = w.seed => y.mac = v.seed
        BY <1>4, <2>0
      <3> QED
        BY <1>1, <1>2, <1>3, <2>0, <3>1
           DEF Arrived, Queued, Sending, Adopted, Delivered
    <2>5. /\ Delivered(v) => \A a \in Elements(v.ackFifo) : OfferFits(v, v.new_key_id, a)
          /\ Adopted(v) => \A a \in Elements(v.ackRx) : OfferFits(v, v.new_key_id, a)
          /\ Sending(v) => Fits(v, v.new_key_id, v.kb)
          /\ Queued(v) => Fits(v, v.new_key_id, v.data_payload)
          /\ Arrived(v) => \A p \in Elements(v.txFifo) : Fits(v, v.new_key_id, p)
      BY <1>0, <2>0 DEF OrderInv
    <2>6. /\ Delivered(w) => \A a \in Elements(w.ackFifo) : OfferFits(w, w.new_key_id, a)
          /\ Adopted(w) => \A a \in Elements(w.ackRx) : OfferFits(w, w.new_key_id, a)
          /\ Sending(w) => Fits(w, w.new_key_id, w.kb)
          /\ Queued(w) => Fits(w, w.new_key_id, w.data_payload)
          /\ Arrived(w) => \A p \in Elements(w.txFifo) : Fits(w, w.new_key_id, p)
      BY <1>0, <1>1, <1>2, <1>4, <2>0, <2>4, <2>5, SameKeysLemma
    <2> QED
      BY <2>1, <2>2, <2>3, <2>6 DEF OrderInv
  <1> QED
    BY <1>5, <1>6, <1>7 DEF FlowInv

\* The half's key is used for the MAC of the packet under construction, or that
\* MAC matches nothing.
Signs(v, w) ==
    /\ SameKeys(v, w)
    /\ w.ackFifo = v.ackFifo /\ w.ackRx = v.ackRx /\ w.kb = v.kb
    /\ w.txFifo = v.txFifo /\ w.rxFifo = v.rxFifo /\ w.stackPayload = v.stackPayload
    /\ w.data_payload.macId = v.kb.macId
    /\ w.data_payload.mac \in {v.kb.mac, NoSeed}

LEMMA SignsLemma ==
    ASSUME NEW v, NEW w, NEW d \in Nat, CircleInv(v, d), Signs(v, w)
    PROVE  FlowInv(w, d)
  <1>0. SameKeys(v, w) /\ KeysInv(v) /\ CircleType(v) /\ SeedsInv(v, d)
        /\ OneKeyInv(v) /\ OrderInv(v)
    BY DEF Signs, CircleInv, FlowInv
  <1> DEFINE x == w.data_payload
  <1>1. /\ OnAir(w) = OnAir(v) /\ Received(w) = Received(v)
        /\ PacketsIn(w) = OnAir(v) \cup {x}
        /\ UsersIn(w) = OnAir(v) \cup {x, v.kb}
        /\ UsersIn(v) = OnAir(v) \cup {v.data_payload, v.kb}
        /\ OffersIn(w) = OffersIn(v)
    BY DEF Signs, OnAir, Received, PacketsIn, UsersIn, OffersIn
  <1>2. x.macId = v.kb.macId /\ x.mac \in {v.kb.mac, NoSeed}
    BY DEF Signs
  <1>3. \A b : Fits(v, b, v.kb) => Fits(v, b, x)
    BY <1>2 DEF Fits, Known
  <1> HIDE DEF x
  <1>4. Pending(v) => v.seed # NoSeed
    BY <1>0 DEF KeysInv, NoSeed
  <1>5. SeedsInv(w, d)
    <2>1. \A u \in UsersIn(w) : u.mac <= d
      BY <1>0, <1>1, <1>2 DEF SeedsInv, NoSeed
    <2> QED
      BY <1>0, <1>1, <2>1 DEF SeedsInv, SameKeys
  <1>6. OneKeyInv(w)
    <2> SUFFICES ASSUME ~ Offering(w)
                 PROVE  /\ \E b \in CurrentKeys(w) : OneKey(w, b)
                        /\ Pending(w) => Secret(w)
      BY DEF OneKeyInv
    <2>1. ~ Offering(v)
      BY <1>0, SameKeysLemma
    <2>2. PICK b \in CurrentKeys(v) : OneKey(v, b)
      BY <1>0, <2>1 DEF OneKeyInv
    <2>3. OneKey(w, b)
      BY <1>0, <1>1, <1>3, <2>2, SameKeysLemma DEF OneKey
    <2>4. ASSUME Pending(w) PROVE Secret(w)
      <3>1. Pending(v) /\ Secret(v) /\ w.seed = v.seed
        BY <1>0, <2>1, <2>4, SameKeysLemma DEF OneKeyInv, SameKeys
      <3> QED
        BY <1>1, <1>2, <1>4, <3>1 DEF Secret
    <2> QED
      BY <1>0, <2>2, <2>3, <2>4, SameKeysLemma
  <1>7. OrderInv(w)
    <2> SUFFICES ASSUME Offering(w) PROVE OrderInv(w)
      BY DEF OrderInv
    <2>0. /\ Offering(v) /\ Pending(v) /\ w.seed = v.seed /\ w.new_key_id = v.new_key_id
          /\ w.key_id = v.key_id /\ w.ctxMac = v.ctxMac
      BY <1>0, SameKeysLemma DEF Offering, Pending, SameKeys
    <2>1. OldOrNew(v, v.kb)
      BY <1>0, <1>1, <2>0 DEF OrderInv
    <2>2. OldOrNew(v, x)
      <3>1. x.mac = NoSeed => (OldOrNew(v, v.kb) => OldOrNew(v, x))
        <4>1. x.mac = NoSeed /\ x.macId = v.new_key_id => Fits(v, v.new_key_id, x)
          BY DEF Fits, Known
        <4> QED
          BY <1>2, <1>3, <1>4, <2>0, <4>1 DEF OldOrNew
      <3>2. x.mac = v.kb.mac => (OldOrNew(v, v.kb) => OldOrNew(v, x))
        BY <1>2, <1>3 DEF OldOrNew
      <3> QED
        BY <1>2, <2>1, <3>1, <3>2
    <2>3. x.mac = v.seed => v.kb.mac = v.seed /\ Fits(v, v.new_key_id, v.kb)
      BY <1>0, <1>2, <1>4, <2>0, <2>1, NewFitsLemma
    <2>4. /\ Arrived(w) = Arrived(v)
          /\ Queued(w) = Queued(v)
          /\ Sending(w) => Queued(v) \/ x.mac = v.seed
          /\ Adopted(w) => Adopted(v)
          /\ Delivered(w) => Delivered(v)
          /\ Queued(v) => Sending(v)
      BY <1>1, <2>0, <2>3 DEF Arrived, Queued, Sending, Adopted, Delivered, PacketsIn,
                               Signs
    <2>5. /\ \A u \in UsersIn(w) : OldOrNew(w, u)
          /\ \A a \in OffersIn(w) : OldOrNewOffer(w, a)
      BY <1>0, <1>1, <2>0, <2>2, SameKeysLemma DEF OrderInv
    <2>6. /\ InOrder(w.ackFifo, NewOffers(w), LateOffers(w))
          /\ InOrder(w.ackRx, NewOffers(w), LateOffers(w))
          /\ InOrder(w.txFifo, NewPackets(w), LatePackets(w))
      BY <1>0, <2>0, SameKeysLemma DEF OrderInv, Signs
    <2>7. /\ Delivered(w) => \A a \in Elements(w.ackFifo) : OfferFits(w, w.new_key_id, a)
          /\ Adopted(w) => \A a \in Elements(w.ackRx) : OfferFits(w, w.new_key_id, a)
          /\ Arrived(w) => \A p \in Elements(w.txFifo) : Fits(w, w.new_key_id, p)
      BY <1>0, <2>0, <2>4, SameKeysLemma DEF OrderInv, Signs
    <2>8. /\ Sending(w) => Fits(w, w.new_key_id, w.kb)
          /\ Queued(w) => Fits(w, w.new_key_id, w.data_payload)
      <3>1. Sending(w) => Fits(v, v.new_key_id, v.kb)
        BY <1>0, <2>0, <2>3, <2>4 DEF OrderInv
      <3>2. Queued(w) => Fits(v, v.new_key_id, x)
        BY <1>0, <1>3, <2>0, <2>4 DEF OrderInv
      <3>3. w.kb = v.kb /\ w.data_payload = x
        BY DEF Signs, x
      <3> QED
        BY <1>0, <2>0, <3>1, <3>2, <3>3, SameKeysLemma
    <2> QED
      BY <2>5, <2>6, <2>7, <2>8 DEF OrderInv
  <1> QED
    BY <1>5, <1>6, <1>7 DEF FlowInv

\* The packet under construction joins the transmit FIFO.
Sends(v, w) ==
    /\ SameKeys(v, w)
    /\ w.ackFifo = v.ackFifo /\ w.ackRx = v.ackRx /\ w.kb = v.kb
    /\ w.rxFifo = v.rxFifo /\ w.stackPayload = v.stackPayload
    /\ Empty(w.data_payload)
    /\ \E x \in Packets :
          /\ x.macId = v.data_payload.macId /\ x.mac = v.data_payload.mac
          /\ w.txFifo = Append(v.txFifo, x)

LEMMA SendsLemma ==
    ASSUME NEW v, NEW w, NEW d \in Nat, CircleInv(v, d), Sends(v, w)
    PROVE  FlowInv(w, d)
  <1>0. SameKeys(v, w) /\ KeysInv(v) /\ CircleType(v) /\ SeedsInv(v, d)
        /\ OneKeyInv(v) /\ OrderInv(v)
    BY DEF Sends, CircleInv, FlowInv
  <1>1. PICK x \in Packets :
            /\ x.macId = v.data_payload.macId /\ x.mac = v.data_payload.mac
            /\ w.txFifo = Append(v.txFifo, x)
    BY DEF Sends
  <1>2. Elements(w.txFifo) = Elements(v.txFifo) \cup {x}
    BY <1>0, <1>1, ElementsLemma DEF CircleType
  <1>3. /\ Received(w) = Received(v)
        /\ OnAir(w) = OnAir(v) \cup {x}
        /\ PacketsIn(w) = OnAir(v) \cup {x, w.data_payload}
        /\ PacketsIn(v) = OnAir(v) \cup {v.data_payload}
        /\ UsersIn(w) = OnAir(v) \cup {x, w.data_payload, v.kb}
        /\ UsersIn(v) = OnAir(v) \cup {v.data_payload, v.kb}
        /\ OffersIn(w) = OffersIn(v)
        /\ OnAir(v) = Elements(v.txFifo) \cup Received(v)
    BY <1>2 DEF Sends, OnAir, Received, PacketsIn, UsersIn, OffersIn
  <1>4. /\ \A b : Fits(v, b, v.data_payload) => Fits(v, b, x)
        /\ OldOrNew(v, v.data_payload) => OldOrNew(v, x)
    BY <1>1 DEF Fits, OldOrNew
  <1>5. /\ \A b : Fits(v, b, w.data_payload)
        /\ Offering(v) => OldOrNew(v, w.data_payload)
        /\ Pending(v) => w.data_payload.mac # v.seed
        /\ w.data_payload.mac <= d
    BY <1>0, BlankLemma DEF Sends, Blank, Empty, NoSeed
  <1>6. SeedsInv(w, d)
    BY <1>0, <1>1, <1>3, <1>5 DEF SeedsInv, SameKeys
  <1>7. OneKeyInv(w)
    <2> SUFFICES ASSUME ~ Offering(w)
                 PROVE  /\ \E b \in CurrentKeys(w) : OneKey(w, b)
                        /\ Pending(w) => Secret(w)
      BY DEF OneKeyInv
    <2>1. ~ Offering(v)
      BY <1>0, SameKeysLemma
    <2>2. PICK b \in CurrentKeys(v) : OneKey(v, b)
      BY <1>0, <2>1 DEF OneKeyInv
    <2>3. OneKey(w, b)
      BY <1>0, <1>3, <1>4, <1>5, <2>2, SameKeysLemma DEF OneKey
    <2>4. ASSUME Pending(w) PROVE Secret(w)
      <3>1. Pending(v) /\ Secret(v) /\ w.seed = v.seed
        BY <1>0, <2>1, <2>4, SameKeysLemma DEF OneKeyInv, SameKeys
      <3> QED
        BY <1>1, <1>3, <1>5, <3>1 DEF Secret
    <2> QED
      BY <1>0, <2>2, <2>3, <2>4, SameKeysLemma
  <1>8. OrderInv(w)
    <2> SUFFICES ASSUME Offering(w) PROVE OrderInv(w)
      BY DEF OrderInv
    <2>0. /\ Offering(v) /\ Pending(v) /\ w.seed = v.seed /\ w.new_key_id = v.new_key_id
      BY <1>0, SameKeysLemma DEF Offering, Pending, SameKeys
    <2>1. /\ \A u \in UsersIn(w) : OldOrNew(w, u)
          /\ \A a \in OffersIn(w) : OldOrNewOffer(w, a)
      BY <1>0, <1>3, <1>4, <1>5, <2>0, SameKeysLemma DEF OrderInv
    <2>2. /\ Arrived(w) = Arrived(v)
          /\ Queued(w) => Sending(v)
          /\ Sending(w) => Sending(v)
          /\ Adopted(w) => Adopted(v)
          /\ Delivered(w) => Delivered(v)
          /\ Arrived(v) => Queued(v)
      BY <1>1, <1>3, <1>5, <2>0 DEF Arrived, Queued, Sending, Adopted, Delivered, Sends
    <2>3. /\ InOrder(w.ackFifo, NewOffers(w), LateOffers(w))
          /\ InOrder(w.ackRx, NewOffers(w), LateOffers(w))
      BY <1>0, <2>0, SameKeysLemma DEF OrderInv, Sends
    <2>4. InOrder(w.txFifo, NewPackets(w), LatePackets(w))
      <3>1. v.txFifo \in Seq(Packets) /\ InOrder(v.txFifo, NewPackets(v), LatePackets(v))
        BY <1>0, <2>0 DEF CircleType, OrderInv
      <3>2. x \in LatePackets(v) \/ \A p \in Elements(v.txFifo) : p \notin NewPackets(v)
        <4>1. CASE Queued(v)
          BY <1>0, <1>1, <1>4, <2>0, <4>1 DEF OrderInv, LatePackets
        <4>2. CASE ~ Queued(v)
          BY <1>3, <4>2 DEF Queued, NewPackets
        <4> QED
          BY <4>1, <4>2
      <3>3. InOrder(Append(v.txFifo, x), NewPackets(v), LatePackets(v))
        BY <3>1, <3>2, InOrderLemma
      <3> QED
        BY <1>0, <1>1, <3>3, SameKeysLemma
    <2>5. /\ Delivered(w) => \A a \in Elements(w.ackFifo) : OfferFits(w, w.new_key_id, a)
          /\ Adopted(w) => \A a \in Elements(w.ackRx) : OfferFits(w, w.new_key_id, a)
          /\ Sending(w) => Fits(w, w.new_key_id, w.kb)
      BY <1>0, <2>0, <2>2, SameKeysLemma DEF OrderInv, Sends
    <2>6. /\ Queued(w) => Fits(w, w.new_key_id, w.data_payload)
          /\ Arrived(w) => \A p \in Elements(w.txFifo) : Fits(w, w.new_key_id, p)
      BY <1>0, <1>2, <1>4, <1>5, <2>0, <2>2, SameKeysLemma DEF OrderInv
    <2> QED
      BY <2>1, <2>3, <2>4, <2>5, <2>6 DEF OrderInv
  <1> QED
    BY <1>6, <1>7, <1>8 DEF FlowInv

\* The half takes up the first of its offers: the offer's id, with the offered key,
\* the key it had, or none.
Adopts(v, w) ==
    /\ SameKeys(v, w)
    /\ w.ackFifo = v.ackFifo /\ w.txFifo = v.txFifo
    /\ w.rxFifo = v.rxFifo /\ w.stackPayload = v.stackPayload
    /\ w.data_payload.macId = v.data_payload.macId
    /\ w.data_payload.mac = v.data_payload.mac
    /\ v.ackRx # <<>> /\ w.ackRx = Tail(v.ackRx)
    /\ Head(v.ackRx).macOk
    /\ w.kb.macId = Head(v.ackRx).id
    /\ w.kb.mac \in {DecryptedSeed(Head(v.ackRx)), v.kb.mac, NoSeed}

LEMMA AdoptsLemma ==
    ASSUME NEW v, NEW w, NEW d \in Nat, CircleInv(v, d), Adopts(v, w)
    PROVE  FlowInv(w, d)
  <1>0. SameKeys(v, w) /\ KeysInv(v) /\ CircleType(v) /\ SeedsInv(v, d)
        /\ OneKeyInv(v) /\ OrderInv(v)
    BY DEF Adopts, CircleInv, FlowInv
  <1> DEFINE a == Head(v.ackRx)
             u == w.kb
             x == w.data_payload
  <1>1. /\ a \in Elements(v.ackRx) /\ Elements(w.ackRx) \subseteq Elements(v.ackRx)
        /\ a \in AckPayloads
    BY <1>0, ElementsLemma DEF CircleType, Adopts
  <1>2. /\ a.macOk /\ u.macId = a.id /\ u.mac \in {DecryptedSeed(a), v.kb.mac, NoSeed}
        /\ x.macId = v.data_payload.macId /\ x.mac = v.data_payload.mac
    BY DEF Adopts
  <1> HIDE DEF a, u, x
  <1>3. /\ Received(w) = Received(v) /\ OnAir(w) = OnAir(v)
        /\ PacketsIn(w) = OnAir(v) \cup {x}
        /\ PacketsIn(v) = OnAir(v) \cup {v.data_payload}
        /\ UsersIn(w) = OnAir(v) \cup {x, u}
        /\ UsersIn(v) = OnAir(v) \cup {v.data_payload, v.kb}
        /\ OffersIn(w) \subseteq OffersIn(v)
        /\ a \in OffersIn(v)
    BY <1>1 DEF Adopts, OnAir, Received, PacketsIn, UsersIn, OffersIn, u, x
  <1>4. /\ \A b : Fits(v, b, v.data_payload) => Fits(v, b, x)
        /\ OldOrNew(v, v.data_payload) => OldOrNew(v, x)
    BY <1>2 DEF Fits, OldOrNew
  <1>5. /\ Pending(v) => v.seed # NoSeed
        /\ NoSeed \notin Known(v)
        /\ v.ctxMac[Slot(0)] \notin Known(v)
    BY <1>0 DEF KeysInv, NoSeed, Known, Slot
  <1>6. SeedsInv(w, d)
    <2>1. u.mac <= d
      <3>1. DecryptedSeed(a) <= d /\ v.kb.mac <= d
        BY <1>0, <1>3 DEF SeedsInv, DecryptedSeed, NoSeed
      <3> QED
        BY <1>2, <3>1 DEF NoSeed
    <2> QED
      BY <1>0, <1>2, <1>3, <2>1 DEF SeedsInv, SameKeys
  <1>7. ASSUME NEW b, Fits(v, b, v.kb), OfferFits(v, b, a)
        PROVE  Fits(v, b, u)
    <2>1. b # 0 => u.macId \in {0, b}
      BY <1>2, <1>7 DEF OfferFits
    <2>2. ASSUME u.mac \in Known(v) PROVE u.macId = b /\ u.mac = v.ctxMac[Slot(b)]
      <3>1. CASE u.mac = DecryptedSeed(a)
        BY <1>2, <1>7, <2>2, <3>1 DEF OfferFits
      <3>2. CASE u.mac = v.kb.mac
        <4>1. u.mac = v.ctxMac[Slot(b)]
          BY <1>7, <2>2, <3>2 DEF Fits
        <4>2. b # 0
          BY <1>5, <2>2, <4>1
        <4> QED
          BY <1>2, <1>7, <4>1, <4>2 DEF OfferFits
      <3> QED
        BY <1>2, <1>5, <2>2, <3>1, <3>2
    <2> QED
      BY <2>1, <2>2 DEF Fits
  <1>8. OneKeyInv(w)
    <2> SUFFICES ASSUME ~ Offering(w)
                 PROVE  /\ \E b \in CurrentKeys(w) : OneKey(w, b)
                        /\ Pending(w) => Secret(w)
      BY DEF OneKeyInv
    <2>1. ~ Offering(v)
      BY <1>0, SameKeysLemma
    <2>2. PICK b \in CurrentKeys(v) : OneKey(v, b)
      BY <1>0, <2>1 DEF OneKeyInv
    <2>3. OneKey(w, b)
      BY <1>0, <1>3, <1>4, <1>7, <2>2, SameKeysLemma DEF OneKey
    <2>4. ASSUME Pending(w) PROVE Secret(w)
      <3>1. Pending(v) /\ Secret(v) /\ w.seed = v.seed
        BY <1>0, <2>1, <2>4, SameKeysLemma DEF OneKeyInv, SameKeys
      <3> QED
        BY <1>2, <1>3, <1>5, <3>1 DEF Secret
    <2> QED
      BY <1>0, <2>2, <2>3, <2>4, SameKeysLemma
  <1>9. OrderInv(w)
    <2> SUFFICES ASSUME Offering(w) PROVE OrderInv(w)
      BY DEF OrderInv
    <2>0. /\ Offering(v) /\ Pending(v) /\ w.seed = v.seed /\ w.new_key_id = v.new_key_id
      BY <1>0, SameKeysLemma DEF Offering, Pending, SameKeys
    <2>1. /\ OldOrNew(v, v.kb) /\ OldOrNewOffer(v, a)
          /\ v.seed \in Known(v)
          /\ v.ctxMac[Slot(v.new_key_id)] = v.seed
      BY <1>0, <1>3, <2>0, NewFitsLemma DEF OrderInv, KeysInv, Offering
    \* A late offer.
    <2>2. ASSUME OfferFits(v, v.new_key_id, a)
          PROVE  /\ OldOrNew(v, u)
                 /\ Fits(v, v.new_key_id, v.kb) => Fits(v, v.new_key_id, u)
      <3>1. v.new_key_id # 0 /\ u.macId = v.new_key_id
        BY <1>0, <1>2, <2>0, <2>2 DEF KeysInv, Offering, OfferFits
      <3>2. Fits(v, v.new_key_id, v.kb) => Fits(v, v.new_key_id, u)
        BY <1>7, <2>2
      <3>3. CASE u.mac \notin Known(v)
        BY <3>1, <3>2, <3>3 DEF OldOrNew, Fits
      <3>4. CASE u.mac = DecryptedSeed(a) /\ u.mac \in Known(v)
        BY <1>2, <2>2, <3>1, <3>2, <3>4 DEF OldOrNew, Fits, OfferFits
      <3>5. CASE u.mac = v.kb.mac /\ u.mac \in Known(v)
        BY <2>1, <3>1, <3>2, <3>5 DEF OldOrNew, Fits
      <3> QED
        BY <1>2, <1>5, <3>2, <3>3, <3>4, <3>5
    \* An offer of the current key, which no adopted offer of the next precedes.
    <2>3. ASSUME OfferFits(v, v.key_id, a), DecryptedSeed(a) # v.seed,
                 ~ OfferFits(v, v.new_key_id, a)
          PROVE  OldOrNew(v, u)
      <3>1. v.kb.mac # v.seed
        BY <1>0, <1>1, <1>3, <2>0, <2>3 DEF OrderInv, Adopted
      <3>2. u.mac # v.seed
        BY <1>2, <1>5, <2>0, <2>3, <3>1
      <3>3. v.key_id # 0 => u.macId = v.key_id
        BY <1>2, <2>3 DEF OfferFits
      <3>4. CASE u.mac \notin Known(v)
        BY <3>2, <3>3, <3>4 DEF OldOrNew, Fits
      <3>5. CASE u.mac = DecryptedSeed(a) /\ u.mac \in Known(v)
        BY <1>2, <2>3, <3>2, <3>3, <3>5 DEF OldOrNew, Fits, OfferFits
      <3>6. CASE u.mac = v.kb.mac /\ u.mac \in Known(v)
        <4>1. u.mac = v.ctxMac[Slot(v.key_id)]
          BY <2>1, <3>1, <3>6 DEF OldOrNew, Fits
        <4>2. v.key_id # 0
          BY <1>5, <3>6, <4>1
        <4> QED
          BY <3>2, <3>3, <4>1, <4>2 DEF OldOrNew, Fits
      <3> QED
        BY <1>2, <1>5, <3>4, <3>5, <3>6
    <2>4. OldOrNew(v, u)
      BY <2>1, <2>2, <2>3 DEF OldOrNewOffer
    <2>5. /\ Arrived(w) = Arrived(v) /\ Queued(w) = Queued(v)
          /\ Sending(w) => Sending(v)
          /\ Adopted(w) => Adopted(v) \/ DecryptedSeed(a) = v.seed
          /\ Delivered(w) => Delivered(v)
          /\ Sending(v) => Adopted(v)
      <3>1. u.mac = v.seed => v.kb.mac = v.seed \/ DecryptedSeed(a) = v.seed
        BY <1>2, <1>5, <2>0
      <3> QED
        BY <1>1, <1>2, <1>3, <2>0, <3>1
           DEF Arrived, Queued, Sending, Adopted, Delivered
    <2>6. /\ \A t \in UsersIn(w) : OldOrNew(w, t)
          /\ \A o \in OffersIn(w) : OldOrNewOffer(w, o)
      BY <1>0, <1>3, <1>4, <2>0, <2>4, SameKeysLemma DEF OrderInv
    <2>7. /\ v.ackRx # <<>> /\ w.ackRx = Tail(v.ackRx) /\ w.ackFifo = v.ackFifo
          /\ w.txFifo = v.txFifo /\ v.ackRx \in Seq(AckPayloads)
          /\ InOrder(v.ackRx, NewOffers(v), LateOffers(v))
      BY <1>0, <2>0 DEF Adopts, CircleType, OrderInv
    <2>8. /\ InOrder(w.ackRx, NewOffers(v), LateOffers(v))
          /\ a \in NewOffers(v) => Elements(w.ackRx) \subseteq LateOffers(v)
      BY <2>7, InOrderLemma DEF a
    <2>9. /\ InOrder(w.ackFifo, NewOffers(w), LateOffers(w))
          /\ InOrder(w.ackRx, NewOffers(w), LateOffers(w))
          /\ InOrder(w.txFifo, NewPackets(w), LatePackets(w))
      BY <1>0, <2>0, <2>7, <2>8, SameKeysLemma DEF OrderInv
    <2>10. Delivered(w) => \A o \in Elements(w.ackFifo) : OfferFits(w, w.new_key_id, o)
      BY <1>0, <2>0, <2>5, <2>7, SameKeysLemma DEF OrderInv
    <2>11. Adopted(w) => \A o \in Elements(w.ackRx) : OfferFits(w, w.new_key_id, o)
      <3>1. CASE Adopted(v)
        BY <1>0, <1>1, <2>0, <3>1, SameKeysLemma DEF OrderInv
      <3>2. CASE DecryptedSeed(a) = v.seed
        BY <1>0, <1>1, <2>0, <2>8, <3>2, SameKeysLemma DEF NewOffers, LateOffers
      <3> QED
        BY <2>5, <3>1, <3>2
    <2>12. Sending(w) => Fits(w, w.new_key_id, w.kb)
      <3>1. ASSUME Sending(v) PROVE Fits(v, v.new_key_id, u)
        <4>1. OfferFits(v, v.new_key_id, a) /\ Fits(v, v.new_key_id, v.kb)
          BY <1>0, <1>1, <2>0, <2>5, <3>1 DEF OrderInv
        <4> QED
          BY <2>2, <4>1
      <3> QED
        BY <1>0, <2>0, <2>5, <3>1, SameKeysLemma DEF u
    <2>13. /\ Queued(w) => Fits(w, w.new_key_id, w.data_payload)
           /\ Arrived(w) => \A p \in Elements(w.txFifo) : Fits(w, w.new_key_id, p)
      BY <1>0, <1>4, <2>0, <2>5, <2>7, SameKeysLemma DEF OrderInv, x
    <2> QED
      BY <2>6, <2>9, <2>10, <2>11, <2>12, <2>13 DEF OrderInv
  <1> QED
    BY <1>6, <1>8, <1>9 DEF FlowInv

\* The host receives the first packet of the transmit FIFO.
Receives(v, w) ==
    /\ SameKeys(v, w)
    /\ w.ackFifo = v.ackFifo /\ w.ackRx = v.ackRx /\ w.kb = v.kb
    /\ w.data_payload = v.data_payload /\ w.stackPayload = v.stackPayload
    /\ v.txFifo # <<>> /\ w.txFifo = Tail(v.txFifo)
    /\ w.rxFifo = Append(v.rxFifo, Head(v.txFifo))

LEMMA ReceivesLemma ==
    ASSUME NEW v, NEW w, NEW d \in Nat, CircleInv(v, d), Receives(v, w)
    PROVE  FlowInv(w, d)
  <1>0. SameKeys(v, w) /\ KeysInv(v) /\ CircleType(v) /\ SeedsInv(v, d)
        /\ OneKeyInv(v) /\ OrderInv(v)
    BY DEF Receives, CircleInv, FlowInv
  <1> DEFINE x == Head(v.txFifo)
  <1>1. /\ x \in Elements(v.txFifo) /\ x \in Packets
        /\ Elements(w.txFifo) \subseteq Elements(v.txFifo)
        /\ Elements(w.rxFifo) = Elements(v.rxFifo) \cup {x}
    BY <1>0, ElementsLemma DEF CircleType, Receives
  <1> HIDE DEF x
  <1>2. /\ Received(w) = Received(v) \cup {x}
        /\ OnAir(w) \subseteq OnAir(v) /\ x \in OnAir(v)
        /\ PacketsIn(w) \subseteq PacketsIn(v)
        /\ UsersIn(w) \subseteq UsersIn(v)
        /\ OffersIn(w) = OffersIn(v)
    BY <1>1 DEF Receives, OnAir, Received, PacketsIn, UsersIn, OffersIn
  <1>3. SeedsInv(w, d)
    BY <1>0, <1>2 DEF SeedsInv, SameKeys
  <1>4. OneKeyInv(w)
    <2> SUFFICES ASSUME ~ Offering(w)
                 PROVE  /\ \E b \in CurrentKeys(w) : OneKey(w, b)
                        /\ Pending(w) => Secret(w)
      BY DEF OneKeyInv
    <2>1. ~ Offering(v)
      BY <1>0, SameKeysLemma
    <2>2. PICK b \in CurrentKeys(v) : OneKey(v, b)
      BY <1>0, <2>1 DEF OneKeyInv
    <2>3. OneKey(w, b)
      BY <1>0, <1>2, <2>2, SameKeysLemma DEF OneKey
    <2>4. ASSUME Pending(w) PROVE Secret(w)
      <3>1. Pending(v) /\ Secret(v) /\ w.seed = v.seed
        BY <1>0, <2>1, <2>4, SameKeysLemma DEF OneKeyInv, SameKeys
      <3> QED
        BY <1>2, <3>1 DEF Secret
    <2> QED
      BY <1>0, <2>2, <2>3, <2>4, SameKeysLemma
  <1>5. OrderInv(w)
    <2> SUFFICES ASSUME Offering(w) PROVE OrderInv(w)
      BY DEF OrderInv
    <2>0. /\ Offering(v) /\ w.seed = v.seed /\ w.new_key_id = v.new_key_id
      BY <1>0, SameKeysLemma DEF Offering, SameKeys
    <2>1. /\ \A u \in UsersIn(w) : OldOrNew(w, u)
          /\ \A a \in OffersIn(w) : OldOrNewOffer(w, a)
      BY <1>0, <1>2, <2>0, SameKeysLemma DEF OrderInv
    <2>2. /\ Arrived(w) => Arrived(v) \/ x.mac = v.seed
          /\ Queued(w) => Queued(v)
          /\ Sending(w) => Sending(v)
          /\ Adopted(w) => Adopted(v)
          /\ Delivered(w) => Delivered(v)
      BY <1>2, <2>0 DEF Arrived, Queued, Sending, Adopted, Delivered, Receives
    <2>3. /\ v.txFifo # <<>> /\ w.txFifo = Tail(v.txFifo) /\ v.txFifo \in Seq(Packets)
          /\ InOrder(v.txFifo, NewPackets(v), LatePackets(v))
      BY <1>0, <2>0 DEF Receives, CircleType, OrderInv
    <2>4. /\ InOrder(w.txFifo, NewPackets(v), LatePackets(v))
          /\ x \in NewPackets(v) => Elements(w.txFifo) \subseteq LatePackets(v)
      BY <2>3, InOrderLemma DEF x
    <2>5. /\ InOrder(w.ackFifo, NewOffers(w), LateOffers(w))
          /\ InOrder(w.ackRx, NewOffers(w), LateOffers(w))
          /\ InOrder(w.txFifo, NewPackets(w), LatePackets(w))
      BY <1>0, <2>0, <2>4, SameKeysLemma DEF OrderInv, Receives
    <2>6. /\ Delivered(w) => \A a \in Elements(w.ackFifo) : OfferFits(w, w.new_key_id, a)
          /\ Adopted(w) => \A a \in Elements(w.ackRx) : OfferFits(w, w.new_key_id, a)
          /\ Sending(w) => Fits(w, w.new_key_id, w.kb)
          /\ Queued(w) => Fits(w, w.new_key_id, w.data_payload)
      BY <1>0, <2>0, <2>2, SameKeysLemma DEF OrderInv, Receives
    <2>7. Arrived(w) => \A p \in Elements(w.txFifo) : Fits(w, w.new_key_id, p)
      <3>1. CASE Arrived(v)
        BY <1>0, <1>1, <2>0, <3>1, SameKeysLemma DEF OrderInv
      <3>2. CASE x.mac = v.seed
        BY <1>0, <1>1, <2>0, <2>4, <3>2, SameKeysLemma DEF NewPackets, LatePackets
      <3> QED
        BY <2>2, <3>1, <3>2
    <2> QED
      BY <2>1, <2>5, <2>6, <2>7 DEF OrderInv
  <1> QED
    BY <1>3, <1>4, <1>5 DEF FlowInv

\* An acknowledgement carries the first of the host's offers to the half.
Carries(v, w) ==
    /\ SameKeys(v, w)
    /\ w.kb = v.kb /\ w.data_payload = v.data_payload /\ w.txFifo = v.txFifo
    /\ w.rxFifo = v.rxFifo /\ w.stackPayload = v.stackPayload
    /\ v.ackFifo # <<>> /\ w.ackFifo = Tail(v.ackFifo)
    /\ w.ackRx = Append(v.ackRx, Head(v.ackFifo))

LEMMA CarriesLemma ==
    ASSUME NEW v, NEW w, NEW d \in Nat, CircleInv(v, d), Carries(v, w)
    PROVE  FlowInv(w, d)
  <1>0. SameKeys(v, w) /\ KeysInv(v) /\ CircleType(v) /\ SeedsInv(v, d)
        /\ OneKeyInv(v) /\ OrderInv(v)
    BY DEF Carries, CircleInv, FlowInv
  <1> DEFINE a == Head(v.ackFifo)
  <1>1. /\ a \in Elements(v.ackFifo) /\ a \in AckPayloads
        /\ Elements(w.ackFifo) \subseteq Elements(v.ackFifo)
        /\ Elements(w.ackRx) = Elements(v.ackRx) \cup {a}
    BY <1>0, ElementsLemma DEF CircleType, Carries
  <1> HIDE DEF a
  <1>2. /\ Received(w) = Received(v) /\ OnAir(w) = OnAir(v)
        /\ PacketsIn(w) = PacketsIn(v) /\ UsersIn(w) = UsersIn(v)
        /\ OffersIn(w) \subseteq OffersIn(v) /\ a \in OffersIn(v)
    BY <1>1 DEF Carries, OnAir, Received, PacketsIn, UsersIn, OffersIn
  <1>3. SeedsInv(w, d)
    BY <1>0, <1>2 DEF SeedsInv, SameKeys
  <1>4. OneKeyInv(w)
    <2> SUFFICES ASSUME ~ Offering(w)
                 PROVE  /\ \E b \in CurrentKeys(w) : OneKey(w, b)
                        /\ Pending(w) => Secret(w)
      BY DEF OneKeyInv
    <2>1. ~ Offering(v)
      BY <1>0, SameKeysLemma
    <2>2. PICK b \in CurrentKeys(v) : OneKey(v, b)
      BY <1>0, <2>1 DEF OneKeyInv
    <2>3. OneKey(w, b)
      BY <1>0, <1>2, <2>2, SameKeysLemma DEF OneKey
    <2>4. ASSUME Pending(w) PROVE Secret(w)
      <3>1. Pending(v) /\ Secret(v) /\ w.seed = v.seed
        BY <1>0, <2>1, <2>4, SameKeysLemma DEF OneKeyInv, SameKeys
      <3> QED
        BY <1>2, <3>1 DEF Secret
    <2> QED
      BY <1>0, <2>2, <2>3, <2>4, SameKeysLemma
  <1>5. OrderInv(w)
    <2> SUFFICES ASSUME Offering(w) PROVE OrderInv(w)
      BY DEF OrderInv
    <2>0. /\ Offering(v) /\ w.seed = v.seed /\ w.new_key_id = v.new_key_id
      BY <1>0, SameKeysLemma DEF Offering, SameKeys
    <2>1. /\ \A u \in UsersIn(w) : OldOrNew(w, u)
          /\ \A o \in OffersIn(w) : OldOrNewOffer(w, o)
      BY <1>0, <1>2, <2>0, SameKeysLemma DEF OrderInv
    <2>2. /\ Arrived(w) = Arrived(v) /\ Queued(w) = Queued(v)
          /\ Sending(w) = Sending(v) /\ Adopted(w) = Adopted(v)
          /\ Delivered(w) => Delivered(v) \/ DecryptedSeed(a) = v.seed
          /\ Adopted(v) => Delivered(v)
      BY <1>1, <1>2, <2>0 DEF Arrived, Queued, Sending, Adopted, Delivered
    <2>3. /\ v.ackFifo # <<>> /\ w.ackFifo = Tail(v.ackFifo)
          /\ w.ackRx = Append(v.ackRx, a)
          /\ v.ackFifo \in Seq(AckPayloads) /\ v.ackRx \in Seq(AckPayloads)
          /\ InOrder(v.ackFifo, NewOffers(v), LateOffers(v))
          /\ InOrder(v.ackRx, NewOffers(v), LateOffers(v))
      BY <1>0, <2>0 DEF Carries, CircleType, OrderInv, a
    <2>4. /\ InOrder(w.ackFifo, NewOffers(v), LateOffers(v))
          /\ a \in NewOffers(v) => Elements(w.ackFifo) \subseteq LateOffers(v)
      BY <2>3, InOrderLemma DEF a
    <2>5. InOrder(w.ackRx, NewOffers(v), LateOffers(v))
      <3>1. a \in LateOffers(v) \/ \A o \in Elements(v.ackRx) : o \notin NewOffers(v)
        <4>1. CASE Delivered(v)
          BY <1>0, <1>1, <2>0, <4>1 DEF OrderInv, LateOffers
        <4>2. CASE ~ Delivered(v)
          BY <4>2 DEF Delivered, NewOffers
        <4> QED
          BY <4>1, <4>2
      <3> QED
        BY <1>1, <2>3, <3>1, InOrderLemma
    <2>6. /\ InOrder(w.ackFifo, NewOffers(w), LateOffers(w))
          /\ InOrder(w.ackRx, NewOffers(w), LateOffers(w))
          /\ InOrder(w.txFifo, NewPackets(w), LatePackets(w))
      BY <1>0, <2>0, <2>4, <2>5, SameKeysLemma DEF OrderInv, Carries
    <2>7. Delivered(w) => \A o \in Elements(w.ackFifo) : OfferFits(w, w.new_key_id, o)
      <3>1. CASE Delivered(v)
        BY <1>0, <1>1, <2>0, <3>1, SameKeysLemma DEF OrderInv
      <3>2. CASE DecryptedSeed(a) = v.seed
        BY <1>0, <1>1, <2>0, <2>4, <3>2, SameKeysLemma DEF NewOffers, LateOffers
      <3> QED
        BY <2>2, <3>1, <3>2
    <2>8. Adopted(w) => \A o \in Elements(w.ackRx) : OfferFits(w, w.new_key_id, o)
      BY <1>0, <1>1, <2>0, <2>2, SameKeysLemma DEF OrderInv
    <2>9. /\ Sending(w) => Fits(w, w.new_key_id, w.kb)
          /\ Queued(w) => Fits(w, w.new_key_id, w.data_payload)
          /\ Arrived(w) => \A p \in Elements(w.txFifo) : Fits(w, w.new_key_id, p)
      BY <1>0, <2>0, <2>2, SameKeysLemma DEF OrderInv, Carries
    <2> QED
      BY <2>1, <2>6, <2>7, <2>8, <2>9 DEF OrderInv
  <1> QED
    BY <1>3, <1>4, <1>5 DEF FlowInv

\* The callback queues the payload of the next key.
Offers(v, w, a) ==
    /\ SameKeys(v, w) /\ Offering(v)
    /\ w.ackRx = v.ackRx /\ w.kb = v.kb /\ w.data_payload = v.data_payload
    /\ w.txFifo = v.txFifo /\ w.rxFifo = v.rxFifo /\ w.stackPayload = v.stackPayload
    /\ a \in AckPayloads /\ a.id = v.new_key_id /\ a.seed = v.seed
    /\ w.ackFifo = Append(v.ackFifo, a)

LEMMA OffersLemma ==
    ASSUME NEW v, NEW w, NEW d \in Nat, CircleInv(v, d),
           NEW a, Offers(v, w, a)
    PROVE  FlowInv(w, d)
  <1>0. SameKeys(v, w) /\ KeysInv(v) /\ CircleType(v) /\ SeedsInv(v, d)
        /\ OneKeyInv(v) /\ OrderInv(v) /\ Offering(v)
    BY DEF Offers, CircleInv, FlowInv
  <1>1. /\ a \in AckPayloads /\ a.id = v.new_key_id /\ a.seed = v.seed
        /\ w.ackFifo = Append(v.ackFifo, a)
    BY DEF Offers
  <1>2. Elements(w.ackFifo) = Elements(v.ackFifo) \cup {a}
    BY <1>0, <1>1, ElementsLemma DEF CircleType
  <1>3. /\ Received(w) = Received(v) /\ OnAir(w) = OnAir(v)
        /\ PacketsIn(w) = PacketsIn(v) /\ UsersIn(w) = UsersIn(v)
        /\ OffersIn(w) = OffersIn(v) \cup {a}
    BY <1>2 DEF Offers, OnAir, Received, PacketsIn, UsersIn, OffersIn
  <1>4. /\ v.seed > 0 /\ v.seed <= d
        /\ v.ctxMac[Slot(v.new_key_id)] = v.seed /\ v.new_key_id # 0
    BY <1>0 DEF KeysInv, SeedsInv, Pending, Offering
  <1>5. OfferFits(v, v.new_key_id, a)
    <2>1. DecryptedSeed(a) \in {v.seed, NoSeed}
      BY <1>1 DEF DecryptedSeed
    <2> QED
      BY <1>1, <1>4, <2>1 DEF OfferFits, Known
  <1>6. SeedsInv(w, d)
    BY <1>0, <1>1, <1>3, <1>4 DEF SeedsInv, SameKeys
  <1>7. OneKeyInv(w)
    BY <1>0, SameKeysLemma DEF OneKeyInv
  <1>8. OrderInv(w)
    <2>0. /\ w.seed = v.seed /\ w.new_key_id = v.new_key_id
      BY <1>0 DEF SameKeys
    <2>1. /\ \A u \in UsersIn(w) : OldOrNew(w, u)
          /\ \A o \in OffersIn(w) : OldOrNewOffer(w, o)
      BY <1>0, <1>3, <1>5, SameKeysLemma DEF OrderInv, OldOrNewOffer
    <2>2. /\ Arrived(w) = Arrived(v) /\ Queued(w) = Queued(v)
          /\ Sending(w) = Sending(v) /\ Adopted(w) = Adopted(v)
          /\ Delivered(w) = Delivered(v)
      BY <1>3, <2>0 DEF Arrived, Queued, Sending, Adopted, Delivered, Offers
    <2>3. InOrder(w.ackFifo, NewOffers(v), LateOffers(v))
      <3>1. v.ackFifo \in Seq(AckPayloads) /\ a \in LateOffers(v)
            /\ InOrder(v.ackFifo, NewOffers(v), LateOffers(v))
        BY <1>0, <1>1, <1>5 DEF CircleType, OrderInv, LateOffers
      <3> QED
        BY <1>1, <3>1, InOrderLemma
    <2>4. /\ InOrder(w.ackFifo, NewOffers(w), LateOffers(w))
          /\ InOrder(w.ackRx, NewOffers(w), LateOffers(w))
          /\ InOrder(w.txFifo, NewPackets(w), LatePackets(w))
      BY <1>0, <2>3, SameKeysLemma DEF OrderInv, Offers
    <2>5. Delivered(w) => \A o \in Elements(w.ackFifo) : OfferFits(w, w.new_key_id, o)
      BY <1>0, <1>2, <1>5, <2>0, <2>2, SameKeysLemma DEF OrderInv
    <2>6. /\ Adopted(w) => \A o \in Elements(w.ackRx) : OfferFits(w, w.new_key_id, o)
          /\ Sending(w) => Fits(w, w.new_key_id, w.kb)
          /\ Queued(w) => Fits(w, w.new_key_id, w.data_payload)
          /\ Arrived(w) => \A p \in Elements(w.txFifo) : Fits(w, w.new_key_id, p)
      BY <1>0, <2>0, <2>2, SameKeysLemma DEF OrderInv, Offers
    <2> QED
      BY <2>1, <2>4, <2>5, <2>6 DEF OrderInv
  <1> QED
    BY <1>6, <1>7, <1>8 DEF FlowInv

\* A packet under the next key confirms it; behind it the receive FIFO is flushed.
ConfirmsNext(v, w) ==
    /\ Offering(v) /\ w.state = "key_not_ready"
    /\ w.key_id = v.new_key_id /\ w.seed = v.seed /\ w.ctxMac = v.ctxMac
    /\ w.ackFifo = v.ackFifo /\ w.ackRx = v.ackRx /\ w.kb = v.kb
    /\ w.data_payload = v.data_payload /\ w.txFifo = v.txFifo /\ w.rxFifo = <<>>
    /\ \E p \in Received(v) :
          /\ p.mac = v.seed
          /\ w.stackPayload = p \/ Empty(w.stackPayload)

LEMMA ConfirmsNextLemma ==
    ASSUME NEW v, NEW w, NEW d \in Nat, CircleInv(v, d), ConfirmsNext(v, w)
    PROVE  KeysInv(w) /\ FlowInv(w, d)
  <1>0. KeysInv(v) /\ CircleType(v) /\ SeedsInv(v, d) /\ OneKeyInv(v) /\ OrderInv(v)
        /\ Offering(v) /\ ~ Offering(w) /\ ~ Pending(w)
    BY DEF ConfirmsNext, CircleInv, FlowInv, Offering, Pending
  <1>1. PICK p \in Received(v) :
            p.mac = v.seed /\ (w.stackPayload = p \/ Empty(w.stackPayload))
    BY DEF ConfirmsNext
  <1>2. /\ Known(w) = Known(v)
        /\ \A b, u : Fits(w, b, u) = Fits(v, b, u)
        /\ \A b, a : OfferFits(w, b, a) = OfferFits(v, b, a)
    <2>1. Known(w) = Known(v)
      BY DEF ConfirmsNext, Known
    <2> QED
      BY <2>1 DEF ConfirmsNext, Fits, OfferFits
  <1>3. KeysInv(w)
    BY <1>0, <1>2 DEF KeysInv, ConfirmsNext
  <1>4. /\ Received(w) = {w.stackPayload}
        /\ UsersIn(w) = Elements(v.txFifo) \cup {w.stackPayload, v.data_payload, v.kb}
        /\ OffersIn(w) = OffersIn(v)
    BY NoElements DEF ConfirmsNext, UsersIn, PacketsIn, OnAir, Received, OffersIn
  <1>5. p \in OnAir(v) /\ p \in PacketsIn(v) /\ p \in UsersIn(v)
    BY DEF UsersIn, PacketsIn, OnAir
  <1>6. Arrived(v) /\ Queued(v) /\ Sending(v) /\ Adopted(v) /\ Delivered(v)
    BY <1>1, <1>5 DEF Arrived, Queued, Sending, Adopted, Delivered
  <1>7. Fits(v, v.new_key_id, p)
    BY <1>0, <1>1, <1>5, NewFitsLemma DEF OrderInv
  <1>8. OneKey(w, v.new_key_id)
    <2>1. Fits(v, v.new_key_id, w.stackPayload)
      BY <1>0, <1>1, <1>7, BlankLemma DEF Blank
    <2>2. \A u \in UsersIn(w) : Fits(v, v.new_key_id, u)
      BY <1>0, <1>4, <1>6, <2>1 DEF OrderInv
    <2>3. \A a \in OffersIn(w) : OfferFits(v, v.new_key_id, a)
      BY <1>0, <1>4, <1>6 DEF OrderInv, OffersIn
    <2> QED
      BY <1>2, <2>2, <2>3 DEF OneKey
  <1>9. SeedsInv(w, d)
    <2>1. w.stackPayload.mac <= d
      BY <1>0, <1>1, <1>5 DEF SeedsInv, Empty, NoSeed
    <2>2. \A u \in UsersIn(w) : u.mac <= d
      BY <1>0, <1>4, <2>1 DEF SeedsInv, UsersIn, PacketsIn, OnAir
    <2> QED
      BY <1>0, <1>4, <2>2 DEF SeedsInv, ConfirmsNext
  <1>10. v.new_key_id \in CurrentKeys(w)
    BY DEF CurrentKeys, ConfirmsNext
  <1> QED
    BY <1>0, <1>3, <1>8, <1>9, <1>10 DEF FlowInv, OneKeyInv, OrderInv

-----------------------------------------------------------------------------
(* The receiver's own moves: nothing goes round.                           *)

SameFlow(v, w) ==
    /\ w.ackFifo = v.ackFifo /\ w.ackRx = v.ackRx /\ w.kb = v.kb
    /\ w.data_payload = v.data_payload /\ w.txFifo = v.txFifo
    /\ w.rxFifo = v.rxFifo /\ w.stackPayload = v.stackPayload

LEMMA SameFlowLemma ==
    ASSUME NEW v, NEW w, SameFlow(v, w)
    PROVE  /\ UsersIn(w) = UsersIn(v) /\ OffersIn(w) = OffersIn(v)
           /\ PacketsIn(w) = PacketsIn(v) /\ OnAir(w) = OnAir(v)
           /\ Received(w) = Received(v)
  BY DEF SameFlow, UsersIn, PacketsIn, OnAir, Received, OffersIn

\* The ids that the receiver stores between two keys; a packet under the compiled-in
\* key taken for a confirmation of the id 0.
Renumbers(v, w) ==
    /\ SameFlow(v, w)
    /\ v.state \in {"key_not_ready", "seed_ready"}
    /\ w.state \in {v.state, "key_not_ready"}
    /\ w.seed = v.seed /\ w.ctxMac = v.ctxMac
    /\ CurrentKeys(v) \subseteq CurrentKeys(w)

LEMMA RenumbersLemma ==
    ASSUME NEW v, NEW w, NEW d \in Nat, CircleInv(v, d), Renumbers(v, w)
    PROVE  KeysInv(w) /\ FlowInv(w, d)
  <1>0. KeysInv(v) /\ CircleType(v) /\ SeedsInv(v, d) /\ OneKeyInv(v)
        /\ ~ Offering(v) /\ ~ Offering(w) /\ (Pending(w) => Pending(v))
    BY DEF Renumbers, CircleInv, FlowInv, Offering, Pending
  <1>1. Known(w) = Known(v)
    BY DEF Renumbers, Known
  <1>2. /\ \A b, u : Fits(w, b, u) = Fits(v, b, u)
        /\ \A b, a : OfferFits(w, b, a) = OfferFits(v, b, a)
    BY <1>1 DEF Renumbers, Fits, OfferFits
  <1>3. UsersIn(w) = UsersIn(v) /\ OffersIn(w) = OffersIn(v)
    BY SameFlowLemma DEF Renumbers
  <1>4. KeysInv(w)
    BY <1>0, <1>1 DEF KeysInv, Renumbers
  <1>5. SeedsInv(w, d)
    BY <1>0, <1>3 DEF SeedsInv, Renumbers
  <1>6. OneKeyInv(w)
    <2>1. PICK b \in CurrentKeys(v) : OneKey(v, b)
      BY <1>0 DEF OneKeyInv
    <2>2. b \in CurrentKeys(w) /\ OneKey(w, b)
      BY <1>2, <1>3, <2>1 DEF OneKey, Renumbers
    <2>3. Pending(w) => Secret(w)
      BY <1>0, <1>3 DEF OneKeyInv, Secret, Renumbers
    <2> QED
      BY <2>2, <2>3 DEF OneKeyInv
  <1> QED
    BY <1>0, <1>4, <1>5, <1>6 DEF FlowInv, OrderInv

\* The receiver draws a seed nobody has used.
Gathers(v, w, d) ==
    /\ SameFlow(v, w)
    /\ v.state = "key_not_ready" /\ w.state = "seed_ready"
    /\ w.key_id = v.key_id /\ w.ctxMac = v.ctxMac /\ w.seed = d + 1

LEMMA GathersLemma ==
    ASSUME NEW v, NEW w, NEW d \in Nat, CircleInv(v, d), Gathers(v, w, d)
    PROVE  KeysInv(w) /\ FlowInv(w, d + 1)
  <1>0. KeysInv(v) /\ CircleType(v) /\ SeedsInv(v, d) /\ OneKeyInv(v)
        /\ ~ Offering(v) /\ ~ Offering(w) /\ w.seed = d + 1
    BY DEF Gathers, CircleInv, FlowInv, Offering
  <1>1. Known(w) = Known(v)
    BY DEF Gathers, Known
  <1>2. /\ \A b, u : Fits(w, b, u) = Fits(v, b, u)
        /\ \A b, a : OfferFits(w, b, a) = OfferFits(v, b, a)
    BY <1>1 DEF Gathers, Fits, OfferFits
  <1>3. UsersIn(w) = UsersIn(v) /\ OffersIn(w) = OffersIn(v)
    BY SameFlowLemma DEF Gathers
  <1>4. \A s \in Known(v) : s <= d
    BY <1>0 DEF SeedsInv, Known
  <1>5. KeysInv(w)
    <2>1. w.seed \notin Known(w) /\ w.seed > 0
      BY <1>0, <1>1, <1>4
    <2> QED
      BY <1>0, <1>1, <2>1 DEF KeysInv, Gathers
  <1>6. /\ \A u \in UsersIn(v) : u.mac \in Int
        /\ \A a \in OffersIn(v) : a \in AckPayloads /\ a.seed \in Int
    <2>1. \A s \in Seeds : s \in Int
      BY SeedsAreIntegers
    <2>2. /\ Elements(v.txFifo) \subseteq Packets /\ Elements(v.rxFifo) \subseteq Packets
          /\ Elements(v.ackFifo) \subseteq AckPayloads
          /\ Elements(v.ackRx) \subseteq AckPayloads
      BY <1>0, ElementsLemma DEF CircleType
    <2>3. /\ \A p \in Packets : p.mac \in Seeds
          /\ \A a \in AckPayloads : a.seed \in Seeds
      BY DEF Packets, AckPayloads
    <2> QED
      BY <1>0, <2>1, <2>2, <2>3
         DEF UsersIn, PacketsIn, OnAir, Received, OffersIn, CircleType
  <1>7. SeedsInv(w, d + 1)
    <2>1. \A u \in UsersIn(v) : u.mac <= d + 1
      BY <1>0, <1>6 DEF SeedsInv
    <2>2. \A a \in OffersIn(v) : a.seed <= d + 1 /\ (a.macOk /\ a.sealed => a.seed > 0)
      BY <1>0, <1>6 DEF SeedsInv
    <2>3. v.ctxMac[1] <= d + 1 /\ v.ctxMac[2] <= d + 1
      <3>1. v.ctxMac[1] \in Int /\ v.ctxMac[2] \in Int
        <4>1. 1 \in Slots /\ 2 \in Slots /\ v.ctxMac \in [Slots -> Seeds]
          BY <1>0 DEF CircleType, Slots
        <4> QED
          BY <4>1, SeedsAreIntegers
      <3> QED
        BY <1>0, <3>1 DEF SeedsInv
    <2> QED
      BY <1>0, <1>3, <2>1, <2>2, <2>3 DEF SeedsInv, Gathers
  <1>8. OneKeyInv(w)
    <2>1. PICK b \in CurrentKeys(v) : OneKey(v, b)
      BY <1>0 DEF OneKeyInv
    <2>2. b \in CurrentKeys(w) /\ OneKey(w, b)
      BY <1>2, <1>3, <2>1 DEF OneKey, Gathers, CurrentKeys
    <2>3. Secret(w)
      <3>1. \A u \in UsersIn(v) : u.mac # d + 1
        BY <1>0, <1>6 DEF SeedsInv
      <3>2. \A a \in OffersIn(v) : DecryptedSeed(a) # d + 1
        BY <1>0, <1>6 DEF SeedsInv, DecryptedSeed, NoSeed
      <3> QED
        BY <1>0, <1>3, <3>1, <3>2 DEF Secret
    <2> QED
      BY <2>2, <2>3 DEF OneKeyInv
  <1> QED
    BY <1>0, <1>5, <1>7, <1>8 DEF FlowInv, OrderInv

\* The receiver derives the next key over a context that nothing but keys it has left
\* behind may still use.
Derives(v, w) ==
    /\ SameFlow(v, w)
    /\ v.state = "seed_ready" /\ w.state = "new_key_ready"
    /\ w.key_id = v.key_id /\ w.new_key_id = v.new_key_id /\ w.seed = v.seed
    /\ v.new_key_id # 0 /\ (v.key_id = 0 => v.new_key_id = 1)
    /\ w.ctxMac = [v.ctxMac EXCEPT ![Slot(v.new_key_id)] = v.seed]

LEMMA DerivesLemma ==
    ASSUME NEW v, NEW w, NEW d \in Nat, CircleInv(v, d), Derives(v, w)
    PROVE  KeysInv(w) /\ FlowInv(w, d)
  <1> DEFINE i == Slot(v.new_key_id)
  <1>0. KeysInv(v) /\ CircleType(v) /\ SeedsInv(v, d) /\ OneKeyInv(v)
        /\ ~ Offering(v) /\ ~ Offering(w) /\ Pending(v) /\ Secret(v)
        /\ v.seed > 0 /\ v.seed <= d /\ v.seed \notin Known(v)
    BY DEF Derives, CircleInv, FlowInv, Offering, Pending, OneKeyInv, KeysInv, SeedsInv
  <1>1. /\ i \in {1, 2}
        /\ v.ctxMac \in [Slots -> Seeds] /\ {0, 1, 2} \subseteq Slots
    BY <1>0, IdSlot DEF CircleType, Derives, Slots
  <1>2. Slot(KeyIdMod - 1) = Slot(1) /\ 1 # KeyIdMod - 1
    BY KeyIdAssumption DEF Slot, GeneratedSlot
  <1>3. w.seed = v.seed /\ w.key_id = v.key_id /\ w.new_key_id = v.new_key_id
    BY DEF Derives
  <1> HIDE DEF i
  <1>4. /\ w.ctxMac[i] = v.seed
        /\ \A j \in {0, 1, 2} \ {i} : w.ctxMac[j] = v.ctxMac[j]
    BY <1>1 DEF Derives, i
  <1>5. KeysInv(w)
    <2>1. w.ctxMac[0] = 0 /\ 0 \notin Known(w)
      BY <1>0, <1>1, <1>4 DEF KeysInv, Known
    <2>2. w.ctxMac[1] # w.ctxMac[2]
      BY <1>0, <1>1, <1>4 DEF Known, NoSeed
    <2>3. w.new_key_id # 0 /\ w.ctxMac[Slot(w.new_key_id)] = w.seed
      BY <1>3, <1>4 DEF Derives, i
    <2>4. w.seed > 0 /\ w.state = "new_key_ready"
      BY <1>0, <1>3 DEF Derives
    <2> QED
      BY <2>1, <2>2, <2>3, <2>4 DEF KeysInv
  <1>6. UsersIn(w) = UsersIn(v) /\ OffersIn(w) = OffersIn(v)
    BY SameFlowLemma DEF Derives
  <1>7. SeedsInv(w, d)
    <2>1. w.ctxMac[1] <= d /\ w.ctxMac[2] <= d
      BY <1>0, <1>1, <1>4 DEF SeedsInv
    <2> QED
      BY <1>0, <1>3, <1>6, <2>1 DEF SeedsInv
  <1>8. PICK b \in CurrentKeys(v) : OneKey(v, b)
    BY <1>0 DEF OneKeyInv
  \* A key that the receiver still knows is not in the context derived over.
  <1>9. ASSUME NEW s, s \in Known(w), s # v.seed, s \in Known(v) => s = v.ctxMac[Slot(b)]
        PROVE  s \in Known(v) /\ b = v.key_id /\ s = w.ctxMac[Slot(v.key_id)]
    <2>1. PICK j \in {1, 2} : s = w.ctxMac[j] /\ s # NoSeed
      BY <1>9 DEF Known
    <2>2. j # i /\ s = v.ctxMac[j] /\ s \in Known(v)
      BY <1>4, <1>9, <2>1 DEF Known
    <2>3. s = v.ctxMac[Slot(b)] /\ s # 0
      BY <1>0, <1>9, <2>2 DEF KeysInv
    <2>4. Slot(b) \in {0, 1, 2}
      <3>1. b \in KeyIds
        BY <1>0, <1>8, KeyIdAssumption DEF CurrentKeys, CircleType, KeyIds
      <3> QED
        BY <3>1, IdSlot DEF Slot
    <2>5. Slot(b) = j
      <3>1. v.ctxMac[0] = 0 /\ (v.ctxMac[1] = v.ctxMac[2] => v.ctxMac[1] = NoSeed)
        BY <1>0 DEF KeysInv
      <3>2. Slot(b) # 0 /\ v.ctxMac[Slot(b)] = v.ctxMac[j] /\ v.ctxMac[j] # NoSeed
        BY <2>1, <2>2, <2>3, <3>1
      <3>3. Slot(b) \in {1, 2} /\ j \in {1, 2}
        BY <2>1, <2>4, <3>2
      <3>4. CASE Slot(b) = 1 /\ j = 2
        BY <3>1, <3>2, <3>4
      <3>5. CASE Slot(b) = 2 /\ j = 1
        BY <3>1, <3>2, <3>5
      <3> QED
        BY <3>3, <3>4, <3>5
    <2>6. b = v.key_id
      <3> SUFFICES ASSUME b # v.key_id PROVE FALSE
        OBVIOUS
      <3>1. b = KeyIdMod - 1 /\ v.key_id = 0
        BY <1>8 DEF CurrentKeys
      <3>2. i = Slot(b)
        BY <1>2, <3>1 DEF Derives, i
      <3> QED
        BY <2>2, <2>5, <3>2
    <2> QED
      BY <2>1, <2>2, <2>5, <2>6
  <1>10. b # v.key_id => v.key_id = 0
    BY <1>8 DEF CurrentKeys
  <1>11. OneKey(w, v.key_id)
    <2>1. ASSUME NEW u \in UsersIn(w) PROVE Fits(w, v.key_id, u)
      <3>1. Fits(v, b, u) /\ u.mac # v.seed
        BY <1>0, <1>6, <1>8, <2>1 DEF OneKey, Secret
      <3> QED
        BY <1>9, <1>10, <3>1 DEF Fits
    <2>2. ASSUME NEW a \in OffersIn(w) PROVE OfferFits(w, v.key_id, a)
      <3>1. OfferFits(v, b, a) /\ DecryptedSeed(a) # v.seed
        BY <1>0, <1>6, <1>8, <2>2 DEF OneKey, Secret
      <3> QED
        BY <1>9, <1>10, <3>1 DEF OfferFits
    <2> QED
      BY <2>1, <2>2 DEF OneKey
  <1>12. Secret(w) /\ v.key_id \in CurrentKeys(w)
    BY <1>0, <1>3, <1>6 DEF Secret, CurrentKeys
  <1> QED
    BY <1>0, <1>5, <1>7, <1>11, <1>12 DEF FlowInv, OneKeyInv, OrderInv

\* A derivation fails with the context half replaced: that context knows no key.
Spoils(v, w) ==
    /\ SameFlow(v, w)
    /\ v.state = "seed_ready" /\ w.state = "seed_ready"
    /\ w.key_id = v.key_id /\ w.new_key_id = v.new_key_id /\ w.seed = v.seed
    /\ v.new_key_id # 0
    /\ LET i == Slot(v.new_key_id) IN
       w.ctxMac = [v.ctxMac EXCEPT ![i] = Mixed(@, v.seed)]

LEMMA SpoilsLemma ==
    ASSUME NEW v, NEW w, NEW d \in Nat, CircleInv(v, d), Spoils(v, w)
    PROVE  KeysInv(w) /\ FlowInv(w, d)
  <1> DEFINE i == Slot(v.new_key_id)
  <1>0. KeysInv(v) /\ CircleType(v) /\ SeedsInv(v, d) /\ OneKeyInv(v)
        /\ ~ Offering(v) /\ ~ Offering(w) /\ Pending(v) /\ Secret(v)
        /\ v.seed > 0 /\ v.seed \notin Known(v)
    BY DEF Spoils, CircleInv, FlowInv, Offering, Pending, OneKeyInv, KeysInv
  <1>1. /\ i \in {1, 2}
        /\ v.ctxMac \in [Slots -> Seeds] /\ {0, 1, 2} \subseteq Slots
    BY <1>0, IdSlot DEF CircleType, Spoils, Slots
  <1>2. /\ w.seed = v.seed /\ w.key_id = v.key_id /\ w.state = v.state
        /\ w.ctxMac = [v.ctxMac EXCEPT ![i] = Mixed(@, v.seed)]
    BY DEF Spoils
  <1> HIDE DEF i
  <1>3. Mixed(v.ctxMac[i], v.seed) = NoSeed
    BY <1>0, <1>1 DEF Known, Mixed, NoSeed
  <1>4. /\ w.ctxMac[i] = NoSeed
        /\ \A j \in {0, 1, 2} \ {i} : w.ctxMac[j] = v.ctxMac[j]
    BY <1>1, <1>2, <1>3
  <1>5. Known(w) \subseteq Known(v)
    BY <1>1, <1>4 DEF Known
  <1>6. KeysInv(w)
    BY <1>0, <1>1, <1>2, <1>4, <1>5 DEF KeysInv, Known, Pending, Spoils
  <1>7. UsersIn(w) = UsersIn(v) /\ OffersIn(w) = OffersIn(v)
    BY SameFlowLemma DEF Spoils
  <1>8. SeedsInv(w, d)
    <2>1. w.ctxMac[1] <= d /\ w.ctxMac[2] <= d
      BY <1>0, <1>1, <1>4 DEF SeedsInv, NoSeed
    <2> QED
      BY <1>0, <1>2, <1>7, <2>1 DEF SeedsInv
  <1>9. PICK b \in CurrentKeys(v) : OneKey(v, b)
    BY <1>0 DEF OneKeyInv
  <1>10. b \in CurrentKeys(w)
    BY <1>2, <1>9 DEF CurrentKeys
  <1>11. ASSUME NEW s, s \in Known(w), s = v.ctxMac[Slot(b)]
         PROVE  s = w.ctxMac[Slot(b)]
    <2>1. PICK j \in {1, 2} : s = w.ctxMac[j] /\ s # NoSeed
      BY <1>11 DEF Known
    <2>2. j # i /\ s = v.ctxMac[j]
      BY <1>4, <2>1
    <2>3. Slot(b) \in {0, 1, 2}
      <3>1. b \in KeyIds
        BY <1>0, <1>9, KeyIdAssumption DEF CurrentKeys, CircleType, KeyIds
      <3> QED
        BY <3>1, IdSlot DEF Slot
    <2>4. Slot(b) # i
      BY <1>0, <1>1, <1>11, <2>1, <2>2 DEF KeysInv
    <2> QED
      BY <1>4, <1>11, <2>3, <2>4
  <1>12. OneKey(w, b)
    <2>1. ASSUME NEW u \in UsersIn(w) PROVE Fits(w, b, u)
      BY <1>5, <1>7, <1>9, <1>11, <2>1 DEF OneKey, Fits
    <2>2. ASSUME NEW a \in OffersIn(w) PROVE OfferFits(w, b, a)
      BY <1>5, <1>7, <1>9, <1>11, <2>2 DEF OneKey, OfferFits
    <2> QED
      BY <2>1, <2>2 DEF OneKey
  <1>13. Secret(w)
    BY <1>0, <1>2, <1>7 DEF Secret
  <1> QED
    BY <1>0, <1>6, <1>8, <1>10, <1>12, <1>13 DEF FlowInv, OneKeyInv, OrderInv

\* The payload of the next key is ready: the callback may offer it from now on.
Publishes(v, w) ==
    /\ SameFlow(v, w)
    /\ v.state = "new_key_ready" /\ w.state = "new_key_payload_ready"
    /\ w.key_id = v.key_id /\ w.new_key_id = v.new_key_id /\ w.seed = v.seed
    /\ w.ctxMac = v.ctxMac

LEMMA PublishesLemma ==
    ASSUME NEW v, NEW w, NEW d \in Nat, CircleInv(v, d), Publishes(v, w)
    PROVE  KeysInv(w) /\ FlowInv(w, d)
  <1>0. KeysInv(v) /\ CircleType(v) /\ SeedsInv(v, d) /\ OneKeyInv(v)
        /\ ~ Offering(v) /\ Offering(w) /\ Pending(v) /\ Pending(w) /\ Secret(v)
    BY DEF Publishes, CircleInv, FlowInv, Offering, Pending, OneKeyInv
  <1>1. /\ w.seed = v.seed /\ w.key_id = v.key_id /\ w.new_key_id = v.new_key_id
        /\ w.ctxMac = v.ctxMac /\ SameFlow(v, w) /\ Known(w) = Known(v)
    BY DEF Publishes, Known
  <1>2. /\ \A b, u : Fits(w, b, u) = Fits(v, b, u)
        /\ \A b, a : OfferFits(w, b, a) = OfferFits(v, b, a)
    BY <1>1 DEF Fits, OfferFits
  <1>3. UsersIn(w) = UsersIn(v) /\ OffersIn(w) = OffersIn(v)
        /\ PacketsIn(w) = PacketsIn(v) /\ OnAir(w) = OnAir(v)
        /\ Received(w) = Received(v)
    BY <1>1, SameFlowLemma
  <1>4. KeysInv(w)
    BY <1>0, <1>1 DEF KeysInv, Publishes
  <1>5. SeedsInv(w, d)
    BY <1>0, <1>1, <1>3 DEF SeedsInv
  <1>6. OneKey(v, v.key_id)
    BY <1>0 DEF OneKeyInv, CurrentKeys, Publishes
  <1>7. /\ \A u \in UsersIn(w) : Fits(w, w.key_id, u) /\ u.mac # w.seed
        /\ \A a \in OffersIn(w) : OfferFits(w, w.key_id, a) /\ DecryptedSeed(a) # w.seed
    BY <1>0, <1>1, <1>2, <1>3, <1>6 DEF OneKey, Secret
  <1>8. ~ Arrived(w) /\ ~ Queued(w) /\ ~ Sending(w) /\ ~ Adopted(w) /\ ~ Delivered(w)
    BY <1>7 DEF Arrived, Queued, Sending, Adopted, Delivered, UsersIn, PacketsIn, OnAir,
                OffersIn
  <1>9. /\ InOrder(w.ackFifo, NewOffers(w), LateOffers(w))
        /\ InOrder(w.ackRx, NewOffers(w), LateOffers(w))
        /\ InOrder(w.txFifo, NewPackets(w), LatePackets(w))
    <2>1. /\ w.ackFifo \in Seq(AckPayloads) /\ w.ackRx \in Seq(AckPayloads)
          /\ w.txFifo \in Seq(Packets)
      BY <1>0, <1>1 DEF CircleType, SameFlow
    <2>2. /\ \A a \in Elements(w.ackFifo) : a \notin NewOffers(w)
          /\ \A a \in Elements(w.ackRx) : a \notin NewOffers(w)
          /\ \A p \in Elements(w.txFifo) : p \notin NewPackets(w)
      BY <1>7 DEF NewOffers, NewPackets, OffersIn, UsersIn, PacketsIn, OnAir
    <2> QED
      BY <2>1, <2>2, InOrderLemma
  <1>10. OrderInv(w)
    BY <1>7, <1>8, <1>9 DEF OrderInv, OldOrNew, OldOrNewOffer
  <1> QED
    BY <1>0, <1>4, <1>5, <1>10 DEF FlowInv, OneKeyInv

\* The receiver restarts and knows no derived key.
Restarts(v, w) ==
    /\ w.state = "key_not_ready" /\ w.key_id = 0 /\ w.seed = NoSeed
    /\ w.ctxMac = FreshContexts
    /\ w.ackFifo = <<>> /\ w.ackRx = v.ackRx /\ w.kb = v.kb
    /\ w.data_payload = v.data_payload /\ w.txFifo = v.txFifo
    /\ w.rxFifo = <<>> /\ w.stackPayload = NoPacket

LEMMA RestartsLemma ==
    ASSUME NEW v, NEW w, NEW d \in Nat, CircleInv(v, d), Restarts(v, w)
    PROVE  KeysInv(w) /\ FlowInv(w, d)
  <1>0. SeedsInv(v, d) /\ ~ Offering(w) /\ ~ Pending(w)
    BY DEF Restarts, CircleInv, FlowInv, Offering, Pending
  <1>1. /\ w.ctxMac[0] = 0 /\ w.ctxMac[1] = NoSeed /\ w.ctxMac[2] = NoSeed
        /\ Known(w) = {}
    BY DEF Restarts, FreshContexts, Slots, Known
  <1>2. KeysInv(w)
    BY <1>0, <1>1 DEF KeysInv, Restarts
  <1>3. OneKey(w, 0) /\ 0 \in CurrentKeys(w)
    BY <1>1 DEF OneKey, Fits, OfferFits, CurrentKeys, Restarts
  <1>4. /\ UsersIn(w) \subseteq UsersIn(v) \cup {NoPacket}
        /\ OffersIn(w) \subseteq OffersIn(v)
        /\ NoPacket.mac <= d
    BY NoElements
       DEF Restarts, UsersIn, PacketsIn, OnAir, Received, OffersIn, NoPacket, NoSeed
  <1>5. SeedsInv(w, d)
    BY <1>0, <1>1, <1>4 DEF SeedsInv, NoSeed, Restarts
  <1> QED
    BY <1>0, <1>2, <1>3, <1>5 DEF FlowInv, OneKeyInv, OrderInv

-----------------------------------------------------------------------------
(* What the actions of module Rekey make of these moves.                   *)

\* A loss that leaves the half its key.
Drops(v, w) == Loses(v, w) /\ w.kb = v.kb

\* The host receives a packet, and its acknowledgement carries an offer or does not
\* arrive.
Passes(v, w) ==
    \E m : CircleType(m) /\ Receives(v, m) /\ (Carries(m, w) \/ Drops(m, w))

\* The callback fetches a packet and answers with the offer a.
Answers(v, w, a) == \E m : CircleType(m) /\ Drops(v, m) /\ Offers(m, w, a)

\* The callback fetches a packet under the compiled-in key and takes it for the
\* confirmation of the id 0.
Misreads(v, w) == \E m : CircleType(m) /\ Drops(v, m) /\ Renumbers(m, w)

\* A move of the half, the radio or the callback.
Moves(v, w) ==
    \/ Loses(v, w) \/ Signs(v, w) \/ Sends(v, w) \/ Adopts(v, w) \/ Passes(v, w)
    \/ \E a : Answers(v, w, a)
    \/ ConfirmsNext(v, w) \/ Misreads(v, w)

LEMMA KeepsKeys ==
    ASSUME NEW v, NEW w, NEW d \in Nat, CircleInv(v, d),
           \/ Loses(v, w) \/ Signs(v, w) \/ Sends(v, w) \/ Adopts(v, w)
           \/ Receives(v, w) \/ Carries(v, w) \/ \E a : Offers(v, w, a)
    PROVE  KeysInv(w) /\ FlowInv(w, d)
  <1>1. KeysInv(v) /\ SameKeys(v, w)
    BY DEF CircleInv, Loses, Signs, Sends, Adopts, Receives, Carries, Offers
  <1>2. FlowInv(w, d)
    BY LosesLemma, SignsLemma, SendsLemma, AdoptsLemma, ReceivesLemma, CarriesLemma,
       OffersLemma
  <1> QED
    BY <1>1, <1>2, SameKeysLemma

LEMMA MovesLemma ==
    ASSUME NEW v, NEW w, NEW d \in Nat, CircleInv(v, d), Moves(v, w)
    PROVE  KeysInv(w) /\ FlowInv(w, d)
  <1>1. CASE Loses(v, w) \/ Signs(v, w) \/ Sends(v, w) \/ Adopts(v, w)
    BY <1>1, KeepsKeys
  <1>2. CASE Passes(v, w)
    <2>1. PICK m : CircleType(m) /\ Receives(v, m) /\ (Carries(m, w) \/ Drops(m, w))
      BY <1>2 DEF Passes
    <2>2. CircleInv(m, d)
      BY <2>1, KeepsKeys DEF CircleInv
    <2> QED
      BY <2>1, <2>2, KeepsKeys DEF Drops
  <1>3. ASSUME NEW a, Answers(v, w, a)
        PROVE  KeysInv(w) /\ FlowInv(w, d)
    <2>1. PICK m : CircleType(m) /\ Drops(v, m) /\ Offers(m, w, a)
      BY <1>3 DEF Answers
    <2>2. CircleInv(m, d)
      BY <2>1, KeepsKeys DEF CircleInv, Drops
    <2> QED
      BY <2>1, <2>2, KeepsKeys
  <1>4. CASE ConfirmsNext(v, w)
    BY <1>4, ConfirmsNextLemma
  <1>5. CASE Misreads(v, w)
    <2>1. PICK m : CircleType(m) /\ Drops(v, m) /\ Renumbers(m, w)
      BY <1>5 DEF Misreads
    <2>2. CircleInv(m, d)
      BY <2>1, KeepsKeys DEF CircleInv, Drops
    <2> QED
      BY <2>1, <2>2, RenumbersLemma
  <1> QED
    BY <1>1, <1>2, <1>3, <1>4, <1>5 DEF Moves

-----------------------------------------------------------------------------
(* What goes round after a move was there before it.                       *)

\* The user u has no key, or that of x under the same id.
Traces(u, x) == u.mac = NoSeed \/ (u.macId = x.macId /\ u.mac = x.mac)

\* Every offer was there, and the key of every packet was.
Follows(v, w) ==
    /\ OffersIn(w) \subseteq OffersIn(v)
    /\ \A u \in PacketsIn(w) : \E x \in UsersIn(v) : Traces(u, x)

LEMMA FollowsLemma ==
    ASSUME NEW v, NEW w, CircleType(v)
    PROVE  /\ Loses(v, w) => Follows(v, w) /\ (w.kb = v.kb \/ CompiledIn(w.kb))
           /\ Signs(v, w) \/ Sends(v, w) \/ Receives(v, w) \/ Carries(v, w)
                  => Follows(v, w) /\ w.kb = v.kb
           /\ Adopts(v, w) => Follows(v, w)
           /\ ConfirmsNext(v, w) => Follows(v, w) /\ w.kb = v.kb
  <1>0. \A x : Traces(x, x)
    BY DEF Traces
  <1>1. /\ PacketsIn(v) \subseteq UsersIn(v) /\ v.kb \in UsersIn(v)
        /\ v.data_payload \in PacketsIn(v) /\ OnAir(v) \subseteq PacketsIn(v)
        /\ Received(v) \subseteq OnAir(v)
    BY DEF UsersIn, PacketsIn, OnAir
  <1>2. ASSUME Loses(v, w) PROVE Follows(v, w) /\ (w.kb = v.kb \/ CompiledIn(w.kb))
    <2>1. /\ Elements(w.ackFifo) \subseteq Elements(v.ackFifo)
          /\ Elements(w.ackRx) \subseteq Elements(v.ackRx)
          /\ Elements(w.txFifo) \subseteq Elements(v.txFifo)
      BY <1>2, ShrunkElements DEF Loses, CircleType
    <2>2. OffersIn(w) \subseteq OffersIn(v)
      BY <2>1 DEF OffersIn
    <2>3. \A u \in PacketsIn(w) : \E x \in UsersIn(v) : Traces(u, x)
      <3>1. \A x, y : Fades(x, y) => Traces(x, y)
        BY DEF Fades, Empty, Traces
      <3> QED
        BY <1>0, <1>1, <1>2, <2>1, <3>1 DEF Loses, PacketsIn, OnAir
    <2> QED
      BY <1>2, <2>2, <2>3 DEF Follows, Loses
  <1>3. ASSUME Signs(v, w) PROVE Follows(v, w) /\ w.kb = v.kb
    <2>1. OnAir(w) = OnAir(v) /\ OffersIn(w) = OffersIn(v) /\ w.kb = v.kb
      BY <1>3 DEF Signs, OnAir, Received, OffersIn
    <2>2. Traces(w.data_payload, v.kb)
      BY <1>3 DEF Signs, Traces
    <2> QED
      BY <1>0, <1>1, <2>1, <2>2 DEF Follows, PacketsIn
  <1>4. ASSUME Sends(v, w) PROVE Follows(v, w) /\ w.kb = v.kb
    <2>1. PICK x \in Packets :
              /\ x.macId = v.data_payload.macId /\ x.mac = v.data_payload.mac
              /\ w.txFifo = Append(v.txFifo, x)
      BY <1>4 DEF Sends
    <2>2. Elements(w.txFifo) = Elements(v.txFifo) \cup {x}
      BY <2>1, ElementsLemma DEF CircleType
    <2>3. /\ PacketsIn(w) = OnAir(v) \cup {x, w.data_payload}
          /\ OffersIn(w) = OffersIn(v) /\ w.kb = v.kb
      BY <1>4, <2>2 DEF Sends, OnAir, Received, PacketsIn, OffersIn
    <2>4. Traces(x, v.data_payload) /\ Traces(w.data_payload, v.data_payload)
      BY <1>4, <2>1 DEF Sends, Traces, Empty
    <2> QED
      BY <1>0, <1>1, <2>3, <2>4 DEF Follows
  <1>5. ASSUME Receives(v, w) PROVE Follows(v, w) /\ w.kb = v.kb
    <2>1. /\ Head(v.txFifo) \in Elements(v.txFifo)
          /\ Elements(w.txFifo) \subseteq Elements(v.txFifo)
          /\ Elements(w.rxFifo) = Elements(v.rxFifo) \cup {Head(v.txFifo)}
      BY <1>5, ElementsLemma DEF CircleType, Receives
    <2>2. PacketsIn(w) \subseteq PacketsIn(v) /\ OffersIn(w) = OffersIn(v)
      BY <1>5, <2>1 DEF Receives, PacketsIn, OnAir, Received, OffersIn
    <2> QED
      BY <1>0, <1>1, <1>5, <2>2 DEF Follows, Receives
  <1>6. ASSUME Carries(v, w) PROVE Follows(v, w) /\ w.kb = v.kb
    <2>1. /\ Head(v.ackFifo) \in Elements(v.ackFifo)
          /\ Elements(w.ackFifo) \subseteq Elements(v.ackFifo)
          /\ Elements(w.ackRx) = Elements(v.ackRx) \cup {Head(v.ackFifo)}
      BY <1>6, ElementsLemma DEF CircleType, Carries
    <2>2. PacketsIn(w) = PacketsIn(v) /\ OffersIn(w) \subseteq OffersIn(v)
      BY <1>6, <2>1 DEF Carries, PacketsIn, OnAir, Received, OffersIn
    <2> QED
      BY <1>0, <1>1, <1>6, <2>2 DEF Follows, Carries
  <1>7. ASSUME Adopts(v, w) PROVE Follows(v, w)
    <2>1. Elements(w.ackRx) \subseteq Elements(v.ackRx)
      BY <1>7, ElementsLemma DEF CircleType, Adopts
    <2>2. OffersIn(w) \subseteq OffersIn(v) /\ OnAir(w) = OnAir(v)
      BY <1>7, <2>1 DEF Adopts, OffersIn, OnAir, Received
    <2>3. Traces(w.data_payload, v.data_payload)
      BY <1>7 DEF Adopts, Traces
    <2> QED
      BY <1>0, <1>1, <2>2, <2>3 DEF Follows, PacketsIn
  <1>8. ASSUME ConfirmsNext(v, w) PROVE Follows(v, w) /\ w.kb = v.kb
    <2>1. PICK p \in Received(v) : w.stackPayload = p \/ Empty(w.stackPayload)
      BY <1>8 DEF ConfirmsNext
    <2>2. /\ PacketsIn(w) = Elements(v.txFifo) \cup {w.stackPayload, v.data_payload}
          /\ OffersIn(w) = OffersIn(v) /\ w.kb = v.kb
      BY <1>8, NoElements DEF ConfirmsNext, PacketsIn, OnAir, Received, OffersIn
    <2>3. Traces(w.stackPayload, p) /\ p \in UsersIn(v)
      BY <1>1, <2>1 DEF Traces, Empty
    <2>4. Elements(v.txFifo) \subseteq UsersIn(v)
      BY <1>1 DEF OnAir
    <2> QED
      BY <1>0, <1>1, <2>2, <2>3, <2>4 DEF Follows
  <1> QED
    BY <1>2, <1>3, <1>4, <1>5, <1>6, <1>7, <1>8

\* So it is after two moves of which the first leaves the half its key.
LEMMA FollowsTwice ==
    ASSUME NEW v, NEW m, NEW w, Follows(v, m), m.kb = v.kb, Follows(m, w)
    PROVE  Follows(v, w)
  <1>1. \A x, y, z : Traces(x, y) /\ Traces(y, z) => Traces(x, z)
    BY DEF Traces
  <1>2. \A u \in UsersIn(m) : \E x \in UsersIn(v) : Traces(u, x)
    BY DEF Follows, UsersIn, Traces
  <1> QED
    BY <1>1, <1>2 DEF Follows

LEMMA PassesFollows ==
    ASSUME NEW v, NEW w, CircleType(v), Passes(v, w) \/ Drops(v, w)
    PROVE  Follows(v, w) /\ w.kb = v.kb
  <1>1. CASE Drops(v, w)
    BY <1>1, FollowsLemma DEF Drops
  <1>2. CASE Passes(v, w)
    <2>1. PICK m : CircleType(m) /\ Receives(v, m) /\ (Carries(m, w) \/ Drops(m, w))
      BY <1>2 DEF Passes
    <2>2. Follows(v, m) /\ m.kb = v.kb
      BY <2>1, FollowsLemma
    <2>3. Follows(m, w) /\ w.kb = m.kb
      BY <2>1, FollowsLemma DEF Drops
    <2> QED
      BY <2>2, <2>3, FollowsTwice
  <1> QED
    BY <1>1, <1>2

LEMMA AnswersFollows ==
    ASSUME NEW v, NEW w, CircleType(v), NEW a, Answers(v, w, a)
    PROVE  /\ OffersIn(w) \subseteq OffersIn(v) \cup {a}
           /\ \A u \in PacketsIn(w) : \E x \in UsersIn(v) : Traces(u, x)
           /\ w.kb = v.kb /\ SameKeys(v, w)
  <1>1. PICK m : CircleType(m) /\ Drops(v, m) /\ Offers(m, w, a)
    BY DEF Answers
  <1>2. Follows(v, m) /\ m.kb = v.kb
    BY <1>1, PassesFollows
  <1>3. Elements(w.ackFifo) = Elements(m.ackFifo) \cup {a}
    BY <1>1, ElementsLemma DEF Offers, CircleType
  <1>4. PacketsIn(w) = PacketsIn(m) /\ OffersIn(w) = OffersIn(m) \cup {a} /\ w.kb = m.kb
    BY <1>1, <1>3 DEF Offers, PacketsIn, OnAir, Received, OffersIn
  <1>5. SameKeys(v, w)
    BY <1>1 DEF Drops, Loses, Offers, SameKeys
  <1> QED
    BY <1>2, <1>4, <1>5 DEF Follows
=============================================================================
