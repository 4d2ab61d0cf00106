----------------------------- MODULE KdfProofs -----------------------------
(***************************************************************************)
(* Proofs that every MAC and every derived key of module Kdf is the one    *)
(* the RFCs define, for every block size, counter width, length of message,*)
(* of info and of output, way to cut a message, and number of failures.    *)
(***************************************************************************)
EXTENDS KdfProperties, SequenceTheorems, WellFoundedInduction, TLAPS

-----------------------------------------------------------------------------
(* Numbers.                                                                *)

\* A nonempty set of naturals has a least element: what stands for induction below.
LEMMA LeastOf ==
    ASSUME NEW T, T \subseteq Nat, T # {}
    PROVE  \E x \in T : \A y \in T : x <= y
  <1>1. PICK x \in T : \A y \in T : ~ (<<y, x>> \in OpToRel(<, Nat))
    BY NatLessThanWellFounded, WFMin
  <1>2. \A y \in T : ~ (y < x)
    BY <1>1 DEF OpToRel
  <1> QED
    BY <1>2

\* Min of FiniteSetsExt, on the two-element sets of the code.
LEMMA MinLemma ==
    ASSUME NEW a \in Nat, NEW b \in Nat
    PROVE  Min({a, b}) = IF a <= b THEN a ELSE b
  <1>1. PICK x \in {a,b} : \A y \in {a, b} : x <= y
    OBVIOUS
  <1> QED
    BY <1>1 DEF Min

\* Quotient and remainder.
LEMMA Division ==
    ASSUME NEW a \in Nat, NEW b \in Nat \ {0}
    PROVE  /\ a \div b \in Nat /\ a % b \in 0..(b - 1)
           /\ a = (a \div b) * b + (a % b)
  <1>1. a \div b \in Int /\ a % b \in 0..(b - 1)
    OBVIOUS
  <1>2. a = b * (a \div b) + (a % b)
    OBVIOUS
  <1> DEFINE q == a \div b  r == a % b
  <1>4. q >= 0
    <2>1. q \in Int /\ r \in 0..(b - 1) /\ a = b * q + r /\ a \in Nat /\ b \in Nat \ {0}
      BY <1>1, <1>2
    <2> HIDE DEF q, r
    <2>2. ASSUME q <= -1 PROVE FALSE
      <3>1. b * q <= -b
        BY <2>1, <2>2
      <3> QED
        BY <2>1, <3>1
    <2> QED
      BY <2>1, <2>2
  <1> QED
    BY <1>1, <1>2, <1>4

\* The quotient and the remainder are the only ones.
LEMMA DivIs ==
    ASSUME NEW b \in Nat \ {0}, NEW q \in Nat, NEW r \in 0..(b-1)
    PROVE  (q * b + r) \div b = q /\ (q * b + r) % b = r
  OBVIOUS

\* A function that satisfies the algorithm's recursion is its chain: two such
\* functions cannot differ first anywhere.
LEMMA CmacIs ==
    ASSUME NEW k, NEW m, Blocks(m) \in Nat,
           NEW f, f = [b \in 0..Blocks(m) |->
                         IF b = 0 THEN ZeroBlock ELSE Round(k, m, f[b - 1], b)]
    PROVE  CMAC(k, m) = f[Blocks(m)]
  <1> DEFINE n == Blocks(m)
             Chain(g) == g = [b \in 0..n |-> IF b = 0 THEN ZeroBlock
                                            ELSE Round(k, m, g[b - 1], b)]
             C == CHOOSE g : Chain(g)
  <1>1. CMAC(k, m) = C[n]
    BY DEF CMAC
  <1>2. Chain(C)
    <2>1. Chain(f)
      OBVIOUS
    <2> QED
      BY <2>1
  <1> DEFINE Bad == {b \in 0..n : C[b] # f[b]}
  <1>3. SUFFICES Bad = {}
    BY <1>1
  <1>4. ASSUME Bad # {} PROVE FALSE
    <2>1. PICK b \in Bad : \A c \in Bad : b <= c
      BY <1>4, LeastOf
    <2>2. b # 0
      BY <2>1, <1>2
    <2>3. C[b - 1] = f[b - 1]
      <3>1. b - 1 \in 0..n /\ ~ (b <= b - 1)
        BY <2>1, <2>2
      <3> QED
        BY <2>1, <3>1
    <2> QED
      BY <2>1, <2>2, <2>3, <1>2
  <1> QED
    BY <1>4

-----------------------------------------------------------------------------
(* Byte strings.                                                           *)

Str(s) == s \in Seq({s[p] : p \in DOMAIN s})

\* A sequence over any set is a byte string.
LEMMA SeqStr ==
    ASSUME NEW S, NEW s \in Seq(S)
    PROVE  Str(s)
  <1>1. Len(s) \in Nat /\ DOMAIN s = 1..Len(s)
    BY LenProperties
  <1>2. SubSeq(s, 1, Len(s)) = s
    BY SubSeqFull
  <1>3. SubSeq(s, 1, Len(s)) \in Seq({s[p] : p \in DOMAIN s})
    BY <1>1, SubSeqProperties
  <1> QED
    BY <1>2, <1>3 DEF Str

\* A byte string is the function on 1..Len that it is.
LEMMA StrFacts ==
    ASSUME NEW s, Str(s)
    PROVE  /\ Len(s) \in Nat
           /\ DOMAIN s = 1..Len(s)
           /\ s = [p \in 1..Len(s) |-> s[p]]
           /\ s = <<>> <=> Len(s) = 0
  <1>1. Len(s) \in Nat /\ DOMAIN s = 1..Len(s)
        /\ s \in [1..Len(s) -> {s[p] : p \in DOMAIN s}]
    BY LenProperties DEF Str
  <1>2. s = <<>> <=> Len(s) = 0
    BY EmptySeq DEF Str
  <1> QED
    BY <1>1, <1>2

\* A function on 1..n is a byte string of n bytes.
LEMMA StrOf ==
    ASSUME NEW n \in Nat, NEW f, f = [p \in 1..n |-> f[p]]
    PROVE  Str(f) /\ Len(f) = n
  <1> DEFINE S == {f[p] : p \in 1..n}
  <1>1. [p \in 1..n |-> f[p]] \in Seq(S)
    <2> SUFFICES \A p \in 1..n : f[p] \in S
      BY IsASeq
    <2> QED
      OBVIOUS
  <1>2. f \in Seq(S)
    BY <1>1
  <1>3. Str(f)
    BY <1>2, SeqStr
  <1>4. DOMAIN f = 1..n /\ DOMAIN f = 1..Len(f) /\ Len(f) \in Nat
    BY <1>3, StrFacts
  <1>5. Len(f) = n
    <2>1. n \in 1..n <=> n \in 1..Len(f)
      BY <1>4
    <2>2. Len(f) \in 1..n <=> Len(f) \in 1..Len(f)
      BY <1>4
    <2> QED
      BY <2>1, <2>2, <1>4
  <1> QED
    BY <1>3, <1>5

\* Concatenation, byte by byte.
LEMMA StrConcat ==
    ASSUME NEW s, NEW t, Str(s), Str(t)
    PROVE  /\ Str(s \o t)
           /\ Len(s \o t) = Len(s) + Len(t)
           /\ \A p \in 1..(Len(s) + Len(t)) :
                 (s \o t)[p] = IF p <= Len(s) THEN s[p] ELSE t[p - Len(s)]
  <1> DEFINE S == {s[p] : p \in DOMAIN s} \cup {t[p] : p \in DOMAIN t}
  <1>1. s \in Seq(S) /\ t \in Seq(S)
    BY SeqMonotonic DEF Str
  <1>2. /\ s \o t \in Seq(S)
        /\ Len(s \o t) = Len(s) + Len(t)
        /\ \A p \in 1..(Len(s) + Len(t)) :
                 (s \o t)[p] = IF p <= Len(s) THEN s[p] ELSE t[p - Len(s)]
    <2> HIDE DEF S
    <2> QED
      BY <1>1, ConcatProperties
  <1> QED
    BY <1>2, SeqStr

\* A part of a byte string.
LEMMA StrSub ==
    ASSUME NEW s, NEW a \in Nat, NEW b \in Nat
    PROVE  /\ Str(SubSeq(s, a, b))
           /\ Len(SubSeq(s, a, b)) = IF a <= b THEN b - a + 1 ELSE 0
           /\ \A p \in 1..(b - a + 1) : SubSeq(s, a, b)[p] = s[a + p - 1]
  <1> DEFINE S == {s[p] : p \in a..b}
  <1>1. \A p \in a..b : s[p] \in S
    OBVIOUS
  <1> HIDE DEF S
  <1>2. /\ SubSeq(s, a, b) \in Seq(S)
        /\ Len(SubSeq(s, a, b)) = IF a <= b THEN b - a + 1 ELSE 0
        /\ \A p \in 1..(b - a + 1) : SubSeq(s, a, b)[p] = s[a + p - 1]
    BY <1>1, SubSeqProperties
  <1> QED
    BY <1>2, SeqStr

\* Its first bytes.
LEMMA StrPrefix ==
    ASSUME NEW s, NEW b \in Nat
    PROVE  LET u == SubSeq(s, 1, b) IN
           Str(u) /\ Len(u) = b /\ \A p \in 1..b : u[p] = s[p]
  <1> DEFINE u == SubSeq(s, 1, b)
  <1>1. 1 \in Nat
    OBVIOUS
  <1>2. /\ Str(u)
        /\ Len(u) = IF 1 <= b THEN b - 1 + 1 ELSE 0
        /\ \A p \in 1..(b - 1 + 1) : u[p] = s[1 + p - 1]
    BY <1>1, StrSub, Zenon
  <1> HIDE DEF u
  <1>3. b - 1 + 1 = b /\ \A p \in 1..b : 1 + p - 1 = p
    OBVIOUS
  <1>4. Len(u) = b
    BY <1>2, <1>3
  <1>5. \A p \in 1..b : u[p] = s[1 + p - 1]
    BY <1>2, <1>3
  <1>6. \A p \in 1..b : u[p] = s[p]
    BY <1>3, <1>5
  <1> QED
    BY <1>2, <1>4, <1>6 DEF u

\* The empty string.
LEMMA StrEmpty == Str(<<>>) /\ Len(<<>>) = 0
  BY EmptySeq, SeqStr

\* A string of one byte.
LEMMA StrOne ==
    ASSUME NEW e
    PROVE  Str(<<e>>) /\ Len(<<e>>) = 1 /\ <<e>>[1] = e
  <1>1. <<e>> \in Seq({e})
    OBVIOUS
  <1> QED
    BY <1>1, SeqStr

\* A block is a string of BlockSize bytes.
LEMMA StrBlock ==
    ASSUME NEW f, f = [p \in Places |-> f[p]]
    PROVE  Str(f) /\ Len(f) = BlockSize
  BY StrOf, BlockSizeAssumption DEF Places

\* The inputs of the model are byte strings.
LEMMA BytesStr ==
    ASSUME NEW k, NEW n \in Nat
    PROVE  Str(Bytes(k, n)) /\ Len(Bytes(k, n)) = n
  <1> DEFINE f == Bytes(k, n)
  <1>1. f = [p \in 1..n |-> f[p]]
    BY DEF Bytes
  <1> HIDE DEF f
  <1>2. Str(f) /\ Len(f) = n
    BY <1>1, StrOf
  <1> QED
    BY <1>2 DEF f

-----------------------------------------------------------------------------
(* What each operator on a CMAC context does to its fields.                *)

ContextFields == {"key", "key1", "key2", "plaintext", "ciphertext", "multiblock",
                  "plaintext_index"}

IsContext(c) ==
    /\ c = [f \in ContextFields |-> c[f]]
    /\ c.plaintext_index \in 0..BlockSize
    /\ c.multiblock \in BOOLEAN

SameKeys(c, d) == c.key = d.key /\ c.key1 = d.key1 /\ c.key2 = d.key2

\* The context is keyed for k: it encrypts with its AES key and masks with its subkeys.
KeyedFor(c, k) == c.key = AesKey(k) /\ c.key1 = Key1(AesKey(k)) /\ c.key2 = Key2(AesKey(k))

\* Setting the flag and clearing the index leaves a context.
LEMMA ResetShape ==
    ASSUME NEW c, IsContext(c), NEW flag \in BOOLEAN
    PROVE  LET d == [c EXCEPT !.multiblock = flag, !.plaintext_index = 0] IN
           /\ IsContext(d) /\ SameKeys(d, c) /\ d.ciphertext = c.ciphertext
           /\ d.multiblock = flag /\ d.plaintext_index = 0
  <1> DEFINE d == [c EXCEPT !.multiblock = flag, !.plaintext_index = 0]
  <1>1. c = [f \in ContextFields |-> c[f]]
    BY DEF IsContext
  <1>2. ASSUME NEW e
        PROVE  LET x == [c EXCEPT !.multiblock = e, !.plaintext_index = 0] IN
               /\ x = [f \in ContextFields |-> x[f]]
               /\ SameKeys(x, c) /\ x.ciphertext = c.ciphertext
               /\ x.multiblock = e /\ x.plaintext_index = 0
    BY <1>1 DEF ContextFields, SameKeys
  <1>3. /\ d = [f \in ContextFields |-> d[f]]
        /\ SameKeys(d, c) /\ d.ciphertext = c.ciphertext
        /\ d.multiblock = flag /\ d.plaintext_index = 0
    BY <1>2, Zenon
  <1> HIDE DEF d
  <1>4. d.plaintext_index \in 0..BlockSize
    BY <1>3, BlockSizeAssumption
  <1>5. IsContext(d)
    BY <1>3, <1>4 DEF IsContext
  <1> QED
    BY <1>3, <1>5 DEF d

\* mitosis_cmac_init before the subkeys.
LEMMA KeyedLemma ==
    ASSUME NEW c, IsContext(c), NEW k
    PROVE  LET d == Keyed(c, k) IN
           /\ IsContext(d) /\ d.key = AesKey(k)
           /\ d.multiblock = FALSE /\ d.plaintext_index = 0
  <1> DEFINE e == [c EXCEPT !.multiblock = FALSE, !.plaintext_index = 0]
  <1>1. IsContext(e) /\ e.multiblock = FALSE /\ e.plaintext_index = 0
    BY ResetShape
  <1>2. Keyed(c, k) = [e EXCEPT !.key = AesKey(k), !.plaintext = ZeroBlock]
    <2> DEFINE d == [c EXCEPT !.key = AesKey(k), !.plaintext = ZeroBlock]
    <2>1. \A flag : [c EXCEPT !.key = AesKey(k), !.plaintext = ZeroBlock,
                              !.multiblock = flag, !.plaintext_index = 0]
              = [[c EXCEPT !.multiblock = flag, !.plaintext_index = 0]
                    EXCEPT !.key = AesKey(k), !.plaintext = ZeroBlock]
      BY DEF IsContext, ContextFields
    <2> QED
      BY <2>1 DEF Keyed
  <1> HIDE DEF e
  <1> QED
    BY <1>1, <1>2 DEF IsContext, ContextFields

\* mitosis_cmac_init: keyed, and no byte waits.
LEMMA InitialisedLemma ==
    ASSUME NEW c, IsContext(c), NEW k
    PROVE  LET d == Initialised(c, k) IN
           /\ IsContext(d) /\ KeyedFor(d, k)
           /\ d.multiblock = FALSE /\ d.plaintext_index = 0
  <1> DEFINE e == Keyed(c, k)
  <1>1. IsContext(e) /\ e.key = AesKey(k) /\ e.multiblock = FALSE /\ e.plaintext_index = 0
    BY KeyedLemma
  <1>2. Initialised(c, k)
          = [e EXCEPT !.key1 = Key1(AesKey(k)), !.key2 = Key2(AesKey(k)),
                      !.ciphertext = Aes(AesKey(k), ZeroBlock)]
    BY DEF Initialised
  <1> HIDE DEF e
  <1> QED
    BY <1>1, <1>2 DEF IsContext, ContextFields, KeyedFor

\* A round takes what fits: all of it, or what fills the block.
LEMMA TakenLemma ==
    ASSUME NEW c, IsContext(c), NEW d, Str(d)
    PROVE  /\ Taken(c, d) \in 0..Len(d)
           /\ Taken(c, d) = IF Overfull(c, d) THEN BlockSize - c.plaintext_index ELSE Len(d)
           /\ c.plaintext_index + Taken(c, d) \in 0..BlockSize
           /\ Overfull(c, d) => Taken(c, d) < Len(d)
  <1> DEFINE a == BlockSize - c.plaintext_index  b == Len(d)
  <1>1. a \in Nat /\ b \in Nat /\ BlockSize \in Nat /\ c.plaintext_index \in 0..BlockSize
    BY StrFacts, BlockSizeAssumption DEF IsContext, ContextFields
  <1>2. Taken(c, d) = IF a <= b THEN a ELSE b
    <2> HIDE DEF a, b
    <2>1. Min({a, b}) = IF a <= b THEN a ELSE b
      BY <1>1, MinLemma
    <2> QED
      BY <2>1 DEF Taken, a, b
  <1> QED
    BY <1>1, <1>2 DEF Overfull

\* The copy adds the bytes taken behind those that wait.
LEMMA FilledLemma ==
    ASSUME NEW c, IsContext(c), NEW d, Str(d)
    PROVE  LET f == Filled(c, d)  x == c.plaintext_index IN
           /\ IsContext(f)
           /\ SameKeys(f, c) /\ f.ciphertext = c.ciphertext /\ f.multiblock = c.multiblock
           /\ f.plaintext_index = x + Taken(c, d)
           /\ f.plaintext = [p \in Places |-> f.plaintext[p]]
           /\ \A p \in 1..x : p \in Places => f.plaintext[p] = c.plaintext[p]
           /\ \A p \in (x + 1)..(x + Taken(c, d)) : f.plaintext[p] = d[p - x]
  <1> DEFINE f == Filled(c, d)  x == c.plaintext_index  t == Taken(c, d)
             g == [p \in Places |-> IF p \in (x + 1)..(x + t) THEN d[p - x]
                                    ELSE c.plaintext[p]]
  <1>1. x \in 0..BlockSize /\ t \in Nat /\ x + t \in 0..BlockSize /\ BlockSize \in Nat
    BY TakenLemma, StrFacts, BlockSizeAssumption DEF IsContext, ContextFields
  <1>2. f = [c EXCEPT !.plaintext = g, !.plaintext_index = x + t]
    BY DEF Filled, IsContext, ContextFields
  <1>3. /\ \A p \in 1..x : p \in Places => g[p] = c.plaintext[p]
        /\ \A p \in (x + 1)..(x + t) : g[p] = d[p - x]
        /\ g = [p \in Places |-> g[p]]
    <2> HIDE DEF t, x
    <2> QED
      BY <1>1 DEF Places
  <1> HIDE DEF g
  <1>4. /\ IsContext(f) /\ SameKeys(f, c) /\ f.ciphertext = c.ciphertext
        /\ f.multiblock = c.multiblock /\ f.plaintext_index = x + t /\ f.plaintext = g
    <2> HIDE DEF t, f
    <2> QED
      BY <1>1, <1>2 DEF IsContext, ContextFields, SameKeys
  <1> QED
    BY <1>3, <1>4

\* Chaining changes the plaintext only.
LEMMA ChainedLemma ==
    ASSUME NEW c, IsContext(c)
    PROVE  /\ IsContext(Chained(c))
           /\ SameKeys(Chained(c), c)
           /\ Chained(c).plaintext = IF c.multiblock THEN XorBlocks(c.plaintext, c.ciphertext)
                                     ELSE c.plaintext
           /\ Chained(c).plaintext_index = c.plaintext_index
  <1>1. CASE c.multiblock
    BY <1>1 DEF IsContext, ContextFields, Chained, SameKeys
  <1>2. CASE ~ c.multiblock
    BY <1>2 DEF IsContext, ContextFields, Chained, SameKeys
  <1> QED
    BY <1>1, <1>2

\* Encryption changes the ciphertext only.
LEMMA EncryptedLemma ==
    ASSUME NEW c, IsContext(c)
    PROVE  /\ IsContext(Encrypted(c))
           /\ SameKeys(Encrypted(c), c)
           /\ Encrypted(c).ciphertext = Aes(c.key, c.plaintext)
  BY DEF IsContext, ContextFields, Encrypted, SameKeys

\* After a block the context is empty, and chains the next one.
LEMMA BlockDoneLemma ==
    ASSUME NEW c, IsContext(c)
    PROVE  LET d == BlockDone(c) IN
           /\ IsContext(d) /\ SameKeys(d, c)
           /\ d.ciphertext = Aes(c.key, Chained(c).plaintext)
           /\ d.multiblock = TRUE /\ d.plaintext_index = 0
  <1> DEFINE e == Encrypted(Chained(c))
  <1>1. IsContext(e) /\ SameKeys(e, c) /\ e.ciphertext = Aes(c.key, Chained(c).plaintext)
    BY ChainedLemma, EncryptedLemma DEF SameKeys
  <1>2. BlockDone(c) = [e EXCEPT !.multiblock = TRUE, !.plaintext_index = 0]
    BY DEF BlockDone
  <1> HIDE DEF e
  <1>3. LET d == [e EXCEPT !.multiblock = TRUE, !.plaintext_index = 0] IN
        /\ IsContext(d) /\ SameKeys(d, e) /\ d.ciphertext = e.ciphertext
        /\ d.multiblock = TRUE /\ d.plaintext_index = 0
    BY <1>1, ResetShape
  <1> QED
    BY <1>1, <1>2, <1>3 DEF SameKeys

LastBlock(c) ==
    [p \in Places |->
        IF c.plaintext_index = BlockSize THEN Xor(c.plaintext[p], c.key1[p])
        ELSE IF p <= c.plaintext_index THEN Xor(c.plaintext[p], c.key2[p])
        ELSE IF p = c.plaintext_index + 1 THEN Xor(Pad, c.key2[p])
        ELSE c.key2[p]]

\* The mask of the last block changes the plaintext only.
LEMMA LastLemma ==
    ASSUME NEW c, IsContext(c)
    PROVE  /\ IsContext(Last(c)) /\ SameKeys(Last(c), c)
           /\ Last(c).plaintext = LastBlock(c)
           /\ Last(c).ciphertext = c.ciphertext /\ Last(c).multiblock = c.multiblock
  <1>1. Last(c) = [c EXCEPT !.plaintext = LastBlock(c)]
    BY DEF Last, LastBlock, IsContext, ContextFields
  <1> QED
    BY <1>1 DEF IsContext, ContextFields, SameKeys

\* mitosis_cmac_complete leaves a context that starts a message.
LEMMA CompletedLemma ==
    ASSUME NEW c, IsContext(c)
    PROVE  LET d == Completed(c) IN
           /\ IsContext(d) /\ SameKeys(d, c)
           /\ d.ciphertext = Aes(c.key, IF c.multiblock
                                        THEN XorBlocks(LastBlock(c), c.ciphertext)
                                        ELSE LastBlock(c))
           /\ d.multiblock = FALSE /\ d.plaintext_index = 0
  <1> DEFINE l == Last(c)  h == Chained(l)  e == Encrypted(h)
  <1>1. /\ IsContext(l) /\ SameKeys(l, c) /\ l.plaintext = LastBlock(c)
        /\ l.ciphertext = c.ciphertext /\ l.multiblock = c.multiblock
    BY LastLemma
  <1> HIDE DEF l
  <1>2. /\ IsContext(h) /\ SameKeys(h, l)
        /\ h.plaintext = IF l.multiblock THEN XorBlocks(l.plaintext, l.ciphertext)
                         ELSE l.plaintext
    BY <1>1, ChainedLemma
  <1> HIDE DEF h
  <1>3. IsContext(e) /\ SameKeys(e, h) /\ e.ciphertext = Aes(h.key, h.plaintext)
    BY <1>2, EncryptedLemma
  <1>4. Completed(c) = [e EXCEPT !.multiblock = FALSE, !.plaintext_index = 0]
    BY DEF Completed, Reset, e, h, l
  <1> HIDE DEF e
  <1>5. /\ IsContext(Completed(c)) /\ SameKeys(Completed(c), e)
        /\ Completed(c).ciphertext = e.ciphertext
        /\ Completed(c).multiblock = FALSE /\ Completed(c).plaintext_index = 0
    <2>1. LET d == [e EXCEPT !.multiblock = FALSE, !.plaintext_index = 0] IN
          /\ IsContext(d) /\ SameKeys(d, e) /\ d.ciphertext = e.ciphertext
          /\ d.multiblock = FALSE /\ d.plaintext_index = 0
      BY <1>3, ResetShape
    <2> QED
      BY <1>4, <2>1
  <1> QED
    BY <1>1, <1>2, <1>3, <1>5 DEF SameKeys

-----------------------------------------------------------------------------
(* The HMAC context.                                                       *)

HmacFields == {"key", "sha256", "need_reset"}

IsHmac(s) == s = [f \in HmacFields |-> s[f]] /\ s.need_reset \in BOOLEAN

\* mitosis_hmac_init leaves need_reset as it finds it.
LEMMA HmacKeyedLemma ==
    ASSUME NEW s, IsHmac(s), NEW k
    PROVE  LET d == HmacKeyed(s, k) IN
           IsHmac(d) /\ d.key = k /\ d.sha256 = Inner(k) /\ d.need_reset = s.need_reset
  BY DEF IsHmac, HmacFields, HmacKeyed

\* A context with new bytes and a new flag.
LEMMA FlagShape ==
    ASSUME NEW s, IsHmac(s), NEW bytes, NEW flag \in BOOLEAN
    PROVE  LET d == [s EXCEPT !.sha256 = bytes, !.need_reset = flag] IN
           IsHmac(d) /\ d.key = s.key /\ d.sha256 = bytes /\ d.need_reset = flag
  <1> DEFINE d == [s EXCEPT !.sha256 = bytes, !.need_reset = flag]
  <1>1. s = [f \in HmacFields |-> s[f]]
    BY DEF IsHmac
  <1>2. ASSUME NEW e
        PROVE  LET x == [s EXCEPT !.sha256 = bytes, !.need_reset = e] IN
               /\ x = [f \in HmacFields |-> x[f]]
               /\ x.key = s.key /\ x.sha256 = bytes /\ x.need_reset = e
    BY <1>1 DEF HmacFields
  <1>3. /\ d = [f \in HmacFields |-> d[f]]
        /\ d.key = s.key /\ d.sha256 = bytes /\ d.need_reset = flag
    BY <1>2, Zenon
  <1> HIDE DEF d
  <1>4. IsHmac(d)
    BY <1>3 DEF IsHmac
  <1> QED
    BY <1>3, <1>4 DEF d

\* mitosis_hmac_hash starts the hash again when the flag says so.
LEMMA HmacHashedLemma ==
    ASSUME NEW s, IsHmac(s), NEW bytes
    PROVE  LET d == HmacHashed(s, bytes) IN
           /\ IsHmac(d) /\ d.key = s.key /\ d.need_reset = FALSE
           /\ d.sha256 = (IF s.need_reset THEN Inner(s.key) ELSE s.sha256) \o bytes
  <1> DEFINE text == (IF s.need_reset THEN Inner(s.key) ELSE s.sha256) \o bytes
             d == [s EXCEPT !.sha256 = text, !.need_reset = FALSE]
  <1>1. HmacHashed(s, bytes) = d
    BY DEF HmacHashed, IsHmac, HmacFields
  <1> HIDE DEF text
  <1>2. IsHmac(d) /\ d.key = s.key /\ d.sha256 = text /\ d.need_reset = FALSE
    BY FlagShape
  <1> HIDE DEF d
  <1> QED
    BY <1>1, <1>2 DEF text

\* mitosis_hmac_complete sets the flag.
LEMMA HmacFinishedLemma ==
    ASSUME NEW s, IsHmac(s)
    PROVE  LET d == HmacFinished(s) IN
           IsHmac(d) /\ d.key = s.key /\ d.need_reset = TRUE
  BY FlagShape DEF HmacFinished

-----------------------------------------------------------------------------
(* The types, and where each user may be.                                  *)

Afters == {"idle", "info", "counter", "complete"}

Types ==
    /\ user \in {"cmac", "ckdf", "hkdf"} /\ pc \in Pcs /\ after \in Afters
    /\ IsContext(context) /\ IsHmac(hmac)
    /\ Str(info) /\ Str(data) /\ Str(message) /\ Str(scratch) /\ Str(okm)
    /\ Len(scratch) = BlockSize
    /\ okm_len \in Nat /\ left \in 0..okm_len /\ macs \in Nat
    /\ i \in 0..(CounterMod - 1) /\ iterations \in 0..(CounterMod - 1)
    /\ result \in BOOLEAN /\ spoiled \in BOOLEAN /\ faults \in 0..MaxFault

\* The program counter: who may be where, and data is left only inside hash.
Flow ==
    /\ user = "cmac" => pc \in {"idle", "hash"} /\ after = "idle" /\ okm = <<>>
    /\ user # "cmac" => pc # "idle"
    /\ pc = "hash" => user # "hkdf" /\ (user = "ckdf" => after # "idle")
    /\ pc = "init" => user = "ckdf"
    /\ pc # "hash" => data = <<>>
    /\ pc \in {"call", "loop", "init", "scratch", "copy"} => message = <<>>

\* A digest is a block.
LEMMA HmacOutputStr == Str(HmacOutput(hmac)) /\ Len(HmacOutput(hmac)) = BlockSize
  <1> DEFINE f == HmacOutput(hmac)
  <1>1. f = [p \in Places |-> f[p]]
    BY DEF HmacOutput, Sha256
  <1> HIDE DEF f
  <1> QED
    BY <1>1, StrBlock DEF f

\* An encrypted block is a block.
LEMMA AesStr ==
    ASSUME NEW k, NEW b
    PROVE  Str(Aes(k, b)) /\ Len(Aes(k, b)) = BlockSize
  <1> DEFINE f == Aes(k, b)
  <1>1. f = [p \in Places |-> f[p]]
    BY DEF Aes
  <1> HIDE DEF f
  <1>2. Str(f) /\ Len(f) = BlockSize
    BY <1>1, StrBlock
  <1> QED
    BY <1>2 DEF f

\* What a local holds at first is a block.
LEMMA StackStr == Str(Stack) /\ Len(Stack) = BlockSize
  <1>1. Stack = [p \in Places |-> Stack[p]]
    BY DEF Stack
  <1> QED
    BY <1>1, StrBlock

\* The types hold at first.
LEMMA TypesInit == Init => Types /\ Flow
  <1> SUFFICES ASSUME Init PROVE Types /\ Flow
    OBVIOUS
  <1>1. IsContext(OnStack)
    BY BlockSizeAssumption DEF IsContext, ContextFields, OnStack
  <1>2. IsContext(context)
    BY <1>1, InitialisedLemma DEF Init
  <1>3. IsHmac(hmac)
    <2>1. \E flag \in BOOLEAN :
            hmac = [key |-> Stack, sha256 |-> <<>>, need_reset |-> flag]
      <3>1. ASSUME hmac \in [key : {Stack}, sha256 : {<<>>}, need_reset : BOOLEAN]
            PROVE  hmac = [key |-> Stack, sha256 |-> <<>>, need_reset |-> hmac.need_reset]
                   /\ hmac.need_reset \in BOOLEAN
        BY <3>1
      <3>2. hmac = [key |-> Stack, sha256 |-> <<>>, need_reset |-> FALSE]
            \/ hmac \in [key : {Stack}, sha256 : {<<>>}, need_reset : BOOLEAN]
        BY DEF Init
      <3> QED
        BY <3>1, <3>2, Zenon
    <2>2. ASSUME NEW e
          PROVE  LET x == [key |-> Stack, sha256 |-> <<>>, need_reset |-> e] IN
                 x = [f \in HmacFields |-> x[f]] /\ x.need_reset = e
      BY DEF HmacFields
    <2>3. PICK flag \in BOOLEAN :
            hmac = [key |-> Stack, sha256 |-> <<>>, need_reset |-> flag]
      BY <2>1
    <2>4. hmac = [f \in HmacFields |-> hmac[f]] /\ hmac.need_reset = flag
      BY <2>2, <2>3, Zenon
    <2> QED
      BY <2>4 DEF IsHmac
  <1>4. Str(info) /\ okm_len \in Nat
    <2>1. CASE user = "cmac"
      BY <2>1, StrEmpty DEF Init
    <2>2. CASE user # "cmac"
      <3>1. okm_len \in OkmLens /\ \E n \in InfoLens : info = Bytes("info", n)
        BY <2>2 DEF Init
      <3> QED
        BY <3>1, BytesStr, KdfAssumption
    <2> QED
      BY <2>1, <2>2
  <1>5. Str(data) /\ Str(message) /\ Str(scratch) /\ Str(okm) /\ Len(scratch) = BlockSize
    BY StrEmpty, StackStr DEF Init
  <1>6. Flow
    BY DEF Init, Flow
  <1>7. i \in 0..(CounterMod - 1) /\ iterations \in 0..(CounterMod - 1)
        /\ faults \in 0..MaxFault /\ left \in 0..okm_len
    BY <1>4, KdfAssumption DEF Init
  <1>8. user \in {"cmac", "ckdf", "hkdf"} /\ pc \in Pcs /\ after \in Afters
        /\ macs \in Nat /\ result \in BOOLEAN /\ spoiled \in BOOLEAN
    BY DEF Init, Pcs, Afters
  <1> QED
    BY <1>2, <1>3, <1>4, <1>5, <1>6, <1>7, <1>8 DEF Types

\* Hash keeps the types.
LEMMA HashTypes ==
    ASSUME Types, Flow, NEW bytes, Str(bytes), NEW next \in Afters,
           user = "cmac" <=> next = "idle", Hash(bytes, next)
    PROVE  Types' /\ Flow'
  <1>1. Str(message')
    BY StrConcat DEF Types, Hash
  <1>2. CASE user = "hkdf"
    <2>1. IsHmac(hmac')
      BY <1>2, HmacHashedLemma DEF Types, Hash
    <2>2. pc' = next /\ UNCHANGED <<user, info, data, after, context, okm_len, left, macs, i,
                                    iterations, result, spoiled, faults, scratch, okm>>
      BY <1>2 DEF Hash, args, loop
    <2>3. next \notin {"idle", "hash", "call", "loop", "init", "scratch", "copy"}
          /\ next \in Pcs /\ data = <<>>
      BY <1>2 DEF Afters, Pcs, Types, Flow
    <2> QED
      BY <1>1, <1>2, <2>1, <2>2, <2>3 DEF Types, Flow
  <1>3. CASE user # "hkdf"
    <2>1. data' = bytes /\ pc' = "hash" /\ after' = next
          /\ UNCHANGED <<user, info, hmac, context, okm_len, left, macs, i,
                         iterations, result, spoiled, faults, scratch, okm>>
      BY <1>3 DEF Hash, args, loop
    <2>2. Types'
      BY <1>1, <2>1 DEF Types, Pcs
    <2> QED
      BY <1>3, <2>1, <2>2 DEF Types, Flow
  <1> QED
    BY <1>2, <1>3

\* A failed call keeps the types.
LEMMA FailTypes ==
    ASSUME Types, Flow, Fail, user # "hkdf", IsContext(context')
    PROVE  Types' /\ Flow'
  <1>1. message' = <<>> /\ data' = <<>> /\ spoiled' = TRUE
        /\ pc' = (IF user = "cmac" THEN "idle" ELSE "done")
        /\ UNCHANGED <<user, info, after, hmac, okm_len, left, macs, i,
                       iterations, result, scratch, okm>>
    BY DEF Fail, args, loop
  <1>2. faults' \in 0..MaxFault
    BY KdfAssumption DEF Fail, Types
  <1>3. Types'
    BY <1>1, <1>2, StrEmpty DEF Types, Pcs
  <1> QED
    BY <1>1, <1>3 DEF Types, Flow

\* Complete keeps the types.
LEMMA CompleteTypes ==
    ASSUME Types, Flow, NEW next \in {"idle", "copy"},
           user = "cmac" <=> next = "idle", Complete(next), pc # "hash"
    PROVE  Types' /\ Flow'
  <1>1. /\ message' = <<>> /\ spoiled' = FALSE /\ macs' = macs + 1 /\ pc' = next
        /\ UNCHANGED <<user, info, after, data, okm_len, left, i, iterations, result, okm, faults>>
    BY DEF Complete, args, loop
  <1>2. IsContext(context') /\ IsHmac(hmac') /\ Str(scratch') /\ Len(scratch') = BlockSize
    <2>1. CASE user = "hkdf"
      BY <2>1, HmacFinishedLemma, HmacOutputStr DEF Types, Complete
    <2>2. CASE user # "hkdf"
      <3>1. context' = Completed(context) /\ scratch' = context'.ciphertext /\ hmac' = hmac
        BY <2>2 DEF Complete
      <3> QED
        BY <3>1, CompletedLemma, AesStr DEF Types
    <2> QED
      BY <2>1, <2>2
  <1>3. next \in Pcs
    BY DEF Pcs
  <1>4. macs' \in Nat /\ spoiled' \in BOOLEAN /\ Str(message')
    <2>1. macs' \in Nat
      <3>1. macs' = macs + 1 /\ macs \in Nat
        BY <1>1 DEF Types
      <3> QED
        BY <3>1
    <2>2. spoiled' = FALSE /\ Str(message')
      BY <1>1, StrEmpty
    <2> QED
      BY <2>1, <2>2
  <1>5. pc' \in Pcs
    BY <1>1, <1>3
  <1>6. Types'
    BY <1>1, <1>2, <1>4, <1>5 DEF Types
  <1> QED
    BY <1>1, <1>6 DEF Types, Flow

\* So does its failure.
LEMMA CompleteFailsTypes ==
    ASSUME Types, Flow, CompleteFails
    PROVE  Types' /\ Flow'
  <1>1. IsContext(context')
    BY LastLemma, ChainedLemma DEF CompleteFails, Types
  <1> QED
    BY <1>1, FailTypes DEF CompleteFails

\* The copy of what fits keeps the types.
LEMMA CopyBytesTypes ==
    ASSUME Types, Flow, CopyBytes
    PROVE  Types' /\ Flow'
  <1>1. /\ data' = <<>> /\ pc' = after
        /\ UNCHANGED <<user, info, after, hmac, okm_len, left, macs, i, iterations, result,
                       scratch, okm, message, spoiled, faults>>
    BY DEF CopyBytes, args, loop
  <1>2. IsContext(context')
    BY FilledLemma DEF CopyBytes, Types
  <1>3. Types'
    BY <1>1, <1>2, StrEmpty DEF Types, Pcs, Afters
  <1> QED
    BY <1>1, <1>3 DEF Types, Flow, Afters, CopyBytes

\* A full block keeps the types, encrypted or not.
LEMMA ProcessBlockTypes ==
    ASSUME Types, Flow, ProcessBlock
    PROVE  Types' /\ Flow'
  <1> DEFINE c == Filled(context, data)
  <1>1. IsContext(c)
    BY FilledLemma DEF Types
  <1>2. CASE context' = Chained(c) /\ Fail
    <2>1. IsContext(context')
      BY <1>1, <1>2, ChainedLemma
    <2> QED
      BY <1>2, <2>1, FailTypes DEF ProcessBlock, Flow
  <1>3. CASE ~ (context' = Chained(c) /\ Fail)
    <2>1. /\ context' = BlockDone(c)
          /\ data' = Rest(context, data)
          /\ pc' = (IF data' = <<>> THEN after ELSE pc)
          /\ UNCHANGED <<user, info, after, hmac, okm_len, left, macs, i, iterations, result,
                         scratch, okm, message, spoiled, faults>>
      BY <1>3 DEF ProcessBlock, args, loop
    <2>2. IsContext(context')
      <3> HIDE DEF c
      <3> QED
        BY <1>1, <2>1, BlockDoneLemma
    <2>3. Str(data')
      <3>1. Taken(context, data) + 1 \in Nat /\ Len(data) \in Nat
        BY TakenLemma, StrFacts DEF Types
      <3> QED
        BY <2>1, <3>1, StrSub DEF Rest
    <2>4. Types'
      BY <2>1, <2>2, <2>3 DEF Types, Pcs, Afters
    <2> QED
      BY <2>1, <2>4 DEF Types, Flow, Afters, ProcessBlock
  <1> QED
    BY <1>2, <1>3

\* The ceiling of the division: it never reaches the modulus of the counter.
LEMMA IterationsLemma ==
    ASSUME okm_len \in Nat, okm_len <= Limit
    PROVE  /\ Iterations \in 0..(CounterMod - 1)
           /\ okm_len <= Iterations * BlockSize
           /\ Iterations * BlockSize < okm_len + BlockSize
  <1> DEFINE q == okm_len \div BlockSize  r == okm_len % BlockSize
             n == IF r = 0 THEN q ELSE q + 1
  <1>1. q \in Nat /\ r \in 0..(BlockSize - 1) /\ okm_len = q * BlockSize + r
    BY Division, BlockSizeAssumption
  <1>2. BlockSize \in Nat \ {0, 1} /\ CounterMod \in Nat \ {0, 1}
        /\ okm_len <= (CounterMod - 1) * BlockSize
    BY BlockSizeAssumption, KdfAssumption DEF Limit
  <1>3. Iterations = n % CounterMod
    BY DEF Iterations
  <1> HIDE DEF q, r
  <1>4. n \in Nat /\ okm_len <= n * BlockSize /\ n * BlockSize < okm_len + BlockSize
    BY <1>1, <1>2
  <1>5. n <= CounterMod - 1
    <2>1. n * BlockSize < CounterMod * BlockSize
      BY <1>2, <1>4
    <2>2. ASSUME n >= CounterMod PROVE FALSE
      <3>1. n * BlockSize >= CounterMod * BlockSize
        BY <1>2, <1>4, <2>2
      <3> QED
        BY <1>2, <1>4, <2>1, <3>1
    <2> QED
      BY <1>2, <1>4, <2>2
  <1>6. n % CounterMod = n
    BY <1>2, <1>4, <1>5
  <1> QED
    BY <1>2, <1>3, <1>4, <1>5, <1>6

\* The user's data is a byte string.
LEMMA UserHashTypes ==
    ASSUME Types, Flow, UserHash
    PROVE  Types' /\ Flow'
  <1>1. PICK n \in 0..(MaxMessage - Len(message)) :
          Hash([k \in 1..n |-> Byte("data", Len(message) + k)], "idle")
    BY DEF UserHash
  <1>2. PICK bytes : /\ bytes = [k \in 1..n |-> Byte("data", Len(message) + k)]
                     /\ Hash(bytes, "idle")
    BY <1>1
  <1>3. n \in Nat
    BY StrFacts, KdfAssumption DEF Types
  <1>4. Str(bytes)
    <2>1. bytes = [p \in 1..n |-> bytes[p]]
      BY <1>2
    <2> QED
      BY <1>3, <2>1, StrOf
  <1>5. user = "cmac"
    BY DEF UserHash, Flow
  <1>6. "idle" \in Afters
    BY DEF Afters
  <1> QED
    BY <1>2, <1>4, <1>5, <1>6, HashTypes

\* The user completes a message.
LEMMA UserCompletesTypes ==
    ASSUME Types, Flow, UserCompletes
    PROVE  Types' /\ Flow'
  <1>1. pc = "idle" /\ user = "cmac" /\ (Complete("idle") \/ CompleteFails)
    BY DEF UserCompletes, Flow
  <1> QED
    BY <1>1, CompleteTypes, CompleteFailsTypes

\* Expand hashes the previous block,
LEMMA HashScratchTypes ==
    ASSUME Types, Flow, HashScratch
    PROVE  Types' /\ Flow'
  <1>1. PICK bytes : bytes = (IF i > 1 THEN scratch ELSE <<>>) /\ Hash(bytes, "info")
    BY DEF HashScratch
  <1>2. Str(bytes)
    BY <1>1, StrEmpty DEF Types
  <1>3. user # "cmac" /\ "info" \in Afters
    BY DEF HashScratch, Flow, Afters
  <1> QED
    BY <1>1, <1>2, <1>3, HashTypes

\* ... the info,
LEMMA HashInfoTypes ==
    ASSUME Types, Flow, HashInfo
    PROVE  Types' /\ Flow'
  <1>1. PICK bytes : bytes = info /\ Hash(bytes, "counter")
    BY DEF HashInfo
  <1>2. Str(bytes)
    BY <1>1 DEF Types
  <1>3. user # "cmac" /\ "counter" \in Afters
    BY DEF HashInfo, Flow, Afters
  <1> QED
    BY <1>1, <1>2, <1>3, HashTypes

\* ... the counter,
LEMMA HashCounterTypes ==
    ASSUME Types, Flow, HashCounter
    PROVE  Types' /\ Flow'
  <1>1. PICK bytes : bytes = <<Byte("i", i)>> /\ Hash(bytes, "complete")
    BY DEF HashCounter
  <1>2. Str(bytes)
    BY <1>1, StrOne
  <1>3. user # "cmac" /\ "complete" \in Afters
    BY DEF HashCounter, Flow, Afters
  <1> QED
    BY <1>1, <1>2, <1>3, HashTypes

\* ... and completes.
LEMMA ExpandCompletesTypes ==
    ASSUME Types, Flow, ExpandCompletes
    PROVE  Types' /\ Flow'
  <1>1. pc = "complete" /\ user # "cmac" /\ (Complete("copy") \/ CompleteFails)
    BY DEF ExpandCompletes, Flow
  <1> QED
    BY <1>1, CompleteTypes, CompleteFailsTypes

\* Expand keys its CMAC context.
LEMMA InitContextTypes ==
    ASSUME Types, Flow, InitContext
    PROVE  Types' /\ Flow'
  <1>1. user = "ckdf"
    BY DEF InitContext, Flow
  <1>2. CASE context' = Keyed(context, key) /\ Fail
    <2>1. IsContext(context')
      BY <1>2, KeyedLemma DEF Types
    <2> QED
      BY <1>1, <1>2, <2>1, FailTypes
  <1>3. CASE ~ (context' = Keyed(context, key) /\ Fail)
    <2>1. /\ context' = Initialised(context, key) /\ pc' = "scratch"
          /\ UNCHANGED <<user, info, data, after, hmac, okm_len, left, macs, i, iterations,
                         result, scratch, okm, message, spoiled, faults>>
      BY <1>3 DEF InitContext, args, loop
    <2>2. IsContext(context')
      BY <2>1, InitialisedLemma DEF Types
    <2> QED
      BY <1>1, <2>1, <2>2 DEF Types, Flow, Pcs, InitContext
  <1> QED
    BY <1>2, <1>3

\* Expand returns.
LEMMA ReturnTypes ==
    ASSUME Types, Flow, NEW value \in BOOLEAN, Return(value), pc # "idle", pc # "hash"
    PROVE  Types' /\ Flow'
  <1>1. /\ pc' = "done" /\ result' = value
        /\ UNCHANGED <<user, info, data, after, context, hmac, okm_len, left, macs, i,
                       iterations, scratch, okm, message, spoiled, faults>>
    BY DEF Return, args
  <1>2. Types'
    BY <1>1 DEF Types, Pcs
  <1> QED
    BY <1>1, <1>2 DEF Types, Flow

\* Expand is called.
LEMMA CallTypes ==
    ASSUME Types, Flow, Call
    PROVE  Types' /\ Flow'
  <1>1. /\ pc = "call" /\ okm_len <= Limit /\ iterations' = Iterations /\ pc' = "loop"
        /\ UNCHANGED <<user, info, data, after, context, okm_len, left, macs, i,
                       scratch, okm, message, spoiled, faults, result>>
    BY DEF Call, args
  <1>2. iterations' \in 0..(CounterMod - 1)
    BY <1>1, IterationsLemma DEF Types
  <1>3. IsHmac(hmac')
    BY HmacKeyedLemma DEF Call, Types
  <1>4. Types'
    BY <1>1, <1>2, <1>3 DEF Types, Pcs
  <1> QED
    BY <1>1, <1>4 DEF Types, Flow

\* Expand starts a round.
LEMMA LoopTypes ==
    ASSUME Types, Flow, Loop
    PROVE  Types' /\ Flow'
  <1>1. /\ pc = "loop" /\ pc' = (IF user = "ckdf" THEN "init" ELSE "scratch")
        /\ UNCHANGED <<user, info, data, after, context, hmac, okm_len, left, macs, i,
                       iterations, scratch, okm, message, spoiled, faults, result>>
    BY DEF Loop, args, loop
  <1>2. Types'
    BY <1>1 DEF Types, Pcs
  <1> QED
    BY <1>1, <1>2 DEF Types, Flow

\* What copy leaves of the output: its old bytes up to offset, then the new block.
LEMMA CopyOkm ==
    ASSUME Types, Copy
    PROVE  LET n == IF left <= BlockSize THEN left ELSE BlockSize
               o == okm_len - left IN
           /\ Str(okm') /\ Len(okm') = o + n
           /\ \A p \in 1..o : okm'[p] = okm[p]
           /\ \A p \in (o + 1)..(o + n) : okm'[p] = scratch[p - o]
  <1> DEFINE n == IF left <= BlockSize THEN left ELSE BlockSize
             o == okm_len - left
             s == SubSeq(okm, 1, o)
             t == SubSeq(scratch, 1, n)
  <1>1. o \in Nat /\ n \in Nat /\ left \in Nat /\ BlockSize \in Nat
    BY BlockSizeAssumption DEF Types
  <1>2. okm' = s \o t
    <2>1. Min({left, BlockSize}) = n
      BY <1>1, MinLemma
    <2> HIDE DEF n
    <2> QED
      BY <2>1 DEF Copy
  <1> HIDE DEF n, o
  <1>3. Str(s) /\ Len(s) = o /\ \A p \in 1..o : s[p] = okm[p]
    BY <1>1, StrPrefix
  <1>4. Str(t) /\ Len(t) = n /\ \A p \in 1..n : t[p] = scratch[p]
    BY <1>1, StrPrefix
  <1> HIDE DEF s, t
  <1>5. /\ Str(okm') /\ Len(okm') = o + n
        /\ \A p \in 1..(o + n) : okm'[p] = IF p <= o THEN s[p] ELSE t[p - o]
    BY <1>2, <1>3, <1>4, StrConcat
  <1>6. \A p \in 1..o : okm'[p] = okm[p]
    BY <1>1, <1>3, <1>5
  <1>7. \A p \in (o + 1)..(o + n) : okm'[p] = scratch[p - o]
    BY <1>1, <1>4, <1>5
  <1> QED
    BY <1>5, <1>6, <1>7 DEF n, o

\* Expand copies a block.
LEMMA CopyTypes ==
    ASSUME Types, Flow, Copy
    PROVE  Types' /\ Flow'
  <1>1. /\ pc = "copy" /\ pc' = "loop" /\ i' = (i + 1) % CounterMod
        /\ left' = IF left > BlockSize THEN left - BlockSize ELSE left
        /\ UNCHANGED <<user, info, data, after, context, hmac, okm_len, macs,
                       iterations, scratch, message, spoiled, faults, result>>
    BY DEF Copy, args
  <1>2. Str(okm')
    BY CopyOkm
  <1>3. i' \in 0..(CounterMod - 1)
    <2>1. i + 1 \in Nat /\ CounterMod \in Nat \ {0}
      BY KdfAssumption DEF Types
    <2> QED
      BY <1>1, <2>1, Division
  <1>4. left' \in 0..okm_len
    <2>1. left \in 0..okm_len /\ okm_len \in Nat /\ BlockSize \in Nat
      BY BlockSizeAssumption DEF Types
    <2> QED
      BY <1>1, <2>1
  <1>5. pc' \in Pcs
    BY <1>1 DEF Pcs
  <1>6. Types'
    BY <1>1, <1>2, <1>3, <1>4, <1>5 DEF Types
  <1> QED
    BY <1>1, <1>6 DEF Types, Flow

\* Every step keeps the types.
LEMMA TypesStep == Types /\ Flow /\ [Next]_vars => Types' /\ Flow'
  <1> SUFFICES ASSUME Types, Flow, [Next]_vars PROVE Types' /\ Flow'
    OBVIOUS
  <1>1. CASE UserHash
    BY <1>1, UserHashTypes
  <1>2. CASE UserCompletes
    BY <1>2, UserCompletesTypes
  <1>3. CASE CopyBytes
    BY <1>3, CopyBytesTypes
  <1>4. CASE ProcessBlock
    BY <1>4, ProcessBlockTypes
  <1>5. CASE Refuse
    BY <1>5, ReturnTypes DEF Refuse
  <1>6. CASE Call
    BY <1>6, CallTypes
  <1>7. CASE Loop
    BY <1>7, LoopTypes
  <1>8. CASE Finish
    BY <1>8, ReturnTypes DEF Finish
  <1>9. CASE InitContext
    BY <1>9, InitContextTypes
  <1>10. CASE HashScratch
    BY <1>10, HashScratchTypes
  <1>11. CASE HashInfo
    BY <1>11, HashInfoTypes
  <1>12. CASE HashCounter
    BY <1>12, HashCounterTypes
  <1>13. CASE ExpandCompletes
    BY <1>13, ExpandCompletesTypes
  <1>14. CASE Copy
    BY <1>14, CopyTypes
  <1>15. CASE UNCHANGED vars
    BY <1>15 DEF vars, args, loop, Types, Flow
  <1> QED
    BY <1>1, <1>2, <1>3, <1>4, <1>5, <1>6, <1>7, <1>8, <1>9, <1>10, <1>11, <1>12, <1>13,
       <1>14, <1>15 DEF Next, Expand

-----------------------------------------------------------------------------
(* How far expand has come.                                                *)

\* The iterations are the blocks it takes to cover okm_len.
Covered ==
    /\ okm_len <= Limit
    /\ okm_len <= iterations * BlockSize
    /\ iterations * BlockSize < okm_len + BlockSize

\* In iteration i: the blocks before it are in the output, n MACs have been computed.
Working(n) ==
    /\ i \in 1..iterations
    /\ macs = n
    /\ left = okm_len - (i - 1) * BlockSize
    /\ Len(okm) = okm_len - left

AllDone == i \notin 1..iterations /\ macs = iterations /\ Len(okm) = okm_len

Outcome ==
    /\ macs * BlockSize < okm_len + BlockSize
    /\ Len(okm) <= okm_len
    /\ result => Len(okm) = okm_len
    /\ result <=> okm_len <= Limit /\ faults = 0

Body == {"init", "scratch", "info", "counter", "complete", "hash"}

Progress ==
    user # "cmac" =>
        /\ pc # "done" => faults = 0 /\ ~ spoiled /\ ~ result
        /\ pc = "call" => i = 1 /\ macs = 0 /\ left = okm_len /\ okm = <<>>
        /\ pc \notin {"call", "done"} => Covered
        /\ pc \in Body => Working(i - 1)
        /\ pc = "copy" => Working(i)
        /\ pc = "loop" => Working(i - 1) \/ AllDone
        /\ pc = "done" => Outcome

\* Expand has not started.
LEMMA ProgressInit == Init => Progress
  <1> SUFFICES ASSUME Init, user # "cmac" PROVE Progress
    BY DEF Progress
  <1>1. pc = "call" /\ i = 1 /\ macs = 0 /\ left = okm_len /\ okm = <<>>
    BY DEF Init
  <1>2. faults = 0 /\ spoiled = FALSE /\ result = FALSE
    BY DEF Init
  <1> QED
    BY <1>1, <1>2 DEF Progress, Body

\* A step between two places of the same iteration.
LEMMA WithinIteration ==
    ASSUME Progress, user # "cmac", pc \in Body, pc' \in Body,
           UNCHANGED <<user, info, okm_len, loop, spoiled, macs, faults>>
    PROVE  Progress'
  BY DEF Progress, Body, Covered, Working, loop

\* A failure ends expand with what it has.
LEMMA FailProgress ==
    ASSUME Types, Progress, user # "cmac", pc \in Body, Fail
    PROVE  Progress'
  <1>1. /\ pc' = "done" /\ faults' = faults + 1
        /\ UNCHANGED <<user, okm_len, i, iterations, left, okm, result, macs>>
    BY DEF Fail, args, loop
  <1>2. Covered /\ Working(i - 1) /\ faults = 0 /\ ~ result
    BY DEF Progress, Body
  <1>3. /\ i \in 1..iterations /\ macs = i - 1 /\ iterations \in Nat /\ BlockSize \in Nat
        /\ iterations * BlockSize < okm_len + BlockSize
        /\ left \in 0..okm_len /\ Len(okm) = okm_len - left /\ okm_len \in Nat
    BY <1>2, BlockSizeAssumption DEF Covered, Working, Types
  <1>4. macs' * BlockSize < okm_len' + BlockSize
    <2>1. macs * BlockSize <= iterations * BlockSize
      BY <1>3
    <2> QED
      BY <1>1, <1>3, <2>1
  <1>5. Len(okm') <= okm_len'
    BY <1>1, <1>3
  <1>6. ~ result' /\ faults' # 0
    <2>1. faults' = 1
      BY <1>1, <1>2
    <2>2. ~ result'
      BY <1>1, <1>2, Zenon
    <2> QED
      BY <2>1, <2>2
  <1>7. Outcome'
    BY <1>4, <1>5, <1>6 DEF Outcome
  <1> QED
    BY <1>1, <1>7 DEF Progress, Body

\* Hashing stays within the iteration.
LEMMA HashProgress ==
    ASSUME Types, Flow, Progress, user # "cmac", pc \in Body,
           NEW bytes, NEW next \in {"info", "counter", "complete"}, Hash(bytes, next)
    PROVE  Progress'
  <1>1. UNCHANGED <<user, info, okm_len, loop, spoiled, macs, faults>> /\ pc' \in Body
    BY DEF Hash, args, Body
  <1> QED
    BY <1>1, WithinIteration

\* The copy ends an iteration: the next one, or, with the counter wrapped or not, none.
LEMMA CopyProgress ==
    ASSUME Types, Progress, user # "cmac", Copy
    PROVE  Progress'
  <1>1. /\ pc = "copy" /\ pc' = "loop" /\ i' = (i + 1) % CounterMod
        /\ left' = IF left > BlockSize THEN left - BlockSize ELSE left
        /\ UNCHANGED <<user, okm_len, macs, iterations, spoiled, faults, result>>
    BY DEF Copy, args
  <1>2. Covered /\ Working(i) /\ faults = 0 /\ ~ spoiled /\ ~ result
    BY <1>1 DEF Progress
  <1>3. /\ okm_len \in Nat /\ BlockSize \in Nat \ {0} /\ CounterMod \in Nat \ {0}
        /\ iterations \in 0..(CounterMod - 1) /\ i \in 1..iterations /\ macs = i
        /\ left = okm_len - (i - 1) * BlockSize /\ left \in 0..okm_len
        /\ okm_len <= iterations * BlockSize
        /\ iterations * BlockSize < okm_len + BlockSize
    BY <1>2, BlockSizeAssumption, KdfAssumption DEF Types, Covered, Working
  <1>4. Len(okm') = (okm_len - left) + (IF left <= BlockSize THEN left ELSE BlockSize)
    BY CopyOkm
  <1>5. (i - 1) * BlockSize + BlockSize = i * BlockSize
    BY <1>3
  <1>6. CASE i < iterations
    <2>1. i' = i + 1
      BY <1>1, <1>3, <1>6
    <2>2. i * BlockSize <= (iterations - 1) * BlockSize
      BY <1>3, <1>6
    <2>3. (iterations - 1) * BlockSize = iterations * BlockSize - BlockSize
      BY <1>3
    <2>4. left > BlockSize
      <3> DEFINE x == i * BlockSize  y == iterations * BlockSize
                 z == (i - 1) * BlockSize  w == (iterations - 1) * BlockSize
      <3>1. x \in Int /\ y \in Int /\ z \in Int /\ w \in Int
        BY <1>3
      <3>2. x <= w /\ w = y - BlockSize /\ y < okm_len + BlockSize
            /\ left = okm_len - z /\ z + BlockSize = x
        BY <2>2, <2>3, <1>3, <1>5
      <3> HIDE DEF x, y, z, w
      <3> QED
        BY <1>3, <3>1, <3>2
    <2>5. Working(i - 1)'
      <3>1. left' = okm_len' - (i' - 1) * BlockSize
        <4>1. (i' - 1) * BlockSize = i * BlockSize
          BY <2>1, <1>3
        <4> DEFINE x == i * BlockSize  z == (i - 1) * BlockSize
        <4>2. x \in Int /\ z \in Int /\ z + BlockSize = x /\ left = okm_len - z
          BY <1>3, <1>5
        <4>3. (i' - 1) * BlockSize = x
          BY <4>1
        <4>4. left' = left - BlockSize
          BY <1>1, <2>4
        <4> HIDE DEF x, z
        <4> QED
          BY <1>1, <1>3, <4>2, <4>3, <4>4
      <3>2. Len(okm') = okm_len' - left'
        BY <1>1, <1>3, <1>4, <2>4
      <3>3. i' \in 1..iterations' /\ macs' = i' - 1
        BY <1>1, <1>3, <1>6, <2>1
      <3> QED
        BY <3>1, <3>2, <3>3 DEF Working
    <2> QED
      BY <1>1, <1>2, <2>5 DEF Progress, Covered, Body
  <1>7. CASE i = iterations
    <2>1. i' \notin 1..iterations
      <3>1. CASE i + 1 = CounterMod
        <4>1. i' = 0
          BY <1>1, <1>3, <3>1
        <4> QED
          BY <4>1
      <3>2. CASE i + 1 # CounterMod
        <4>1. i' = i + 1
          BY <1>1, <1>3, <3>2
        <4> QED
          BY <4>1, <1>3, <1>7
      <3> QED
        BY <3>1, <3>2
    <2>2. left <= BlockSize
      <3> DEFINE x == i * BlockSize  z == (i - 1) * BlockSize
      <3>1. x \in Int /\ z \in Int /\ z + BlockSize = x /\ left = okm_len - z /\ okm_len <= x
        BY <1>3, <1>5, <1>7
      <3> HIDE DEF x, z
      <3> QED
        BY <1>3, <3>1
    <2>3. Len(okm') = okm_len'
      BY <1>1, <1>3, <1>4, <2>2
    <2>4. AllDone'
      BY <1>1, <1>3, <1>7, <2>1, <2>3 DEF AllDone
    <2> QED
      BY <1>1, <1>2, <2>4 DEF Progress, Covered, Body
  <1> QED
    BY <1>3, <1>6, <1>7

\* No step changes the arguments.
LEMMA ArgsFixed == [Next]_vars => UNCHANGED <<user, key, info, okm_len>>
  <1> SUFFICES ASSUME [Next]_vars PROVE UNCHANGED args
    BY DEF args
  <1>1. CASE UserHash
    BY <1>1 DEF UserHash, Hash
  <1>2. CASE UserCompletes
    BY <1>2 DEF UserCompletes, Complete, CompleteFails, Fail
  <1>3. CASE CopyBytes \/ ProcessBlock
    BY <1>3 DEF CopyBytes, ProcessBlock, Fail
  <1>4. CASE Refuse \/ Call \/ Loop \/ Finish
    BY <1>4 DEF Refuse, Call, Loop, Finish, Return
  <1>5. CASE InitContext
    BY <1>5 DEF InitContext, Fail
  <1>6. CASE HashScratch \/ HashInfo \/ HashCounter
    BY <1>6 DEF HashScratch, HashInfo, HashCounter, Hash
  <1>7. CASE ExpandCompletes
    BY <1>7 DEF ExpandCompletes, Complete, CompleteFails, Fail
  <1>8. CASE Copy
    BY <1>8 DEF Copy
  <1>9. CASE UNCHANGED vars
    BY <1>9 DEF vars
  <1> QED
    BY <1>1, <1>2, <1>3, <1>4, <1>5, <1>6, <1>7, <1>8, <1>9 DEF Next, Expand

\* One more MAC, and no other.
LEMMA CompleteProgress ==
    ASSUME Types, Progress, user # "cmac", pc = "complete", Complete("copy")
    PROVE  Progress'
  <1>1. /\ pc' = "copy" /\ spoiled' = FALSE /\ macs' = macs + 1
        /\ UNCHANGED <<user, okm_len, i, iterations, left, okm, result, faults>>
    BY DEF Complete, args, loop
  <1>2. Covered /\ Working(i - 1) /\ faults = 0 /\ ~ result
    BY DEF Progress, Body
  <1>3. Working(i)'
    BY <1>1, <1>2 DEF Working, Types
  <1>4. Covered'
    BY <1>1, <1>2 DEF Covered
  <1>5. faults' = 0 /\ ~ result' /\ ~ spoiled'
    BY <1>1, <1>2, Zenon
  <1> QED
    BY <1>1, <1>3, <1>4, <1>5, Zenon DEF Progress, Body

\* The loop ends after its last iteration only.
LEMMA FinishProgress ==
    ASSUME Types, Progress, user # "cmac", Finish
    PROVE  Progress'
  <1>1. /\ pc = "loop" /\ ~ LoopGoesOn /\ pc' = "done" /\ result' = TRUE
        /\ UNCHANGED <<user, okm_len, okm, macs, faults>>
    BY DEF Finish, Return, args
  <1>2. Covered /\ (Working(i - 1) \/ AllDone) /\ faults = 0
    BY <1>1 DEF Progress
  <1>3. AllDone
    BY <1>1, <1>2 DEF LoopGoesOn, Working, Types
  <1>4. /\ macs' * BlockSize < okm_len' + BlockSize /\ Len(okm') = okm_len'
        /\ okm_len' <= Limit /\ faults' = 0
    BY <1>1, <1>2, <1>3 DEF Covered, AllDone
  <1>5. Outcome'
    <2>1. Len(okm') <= okm_len'
      BY <1>1, <1>4 DEF Types
    <2> QED
      BY <1>1, <1>4, <2>1, Zenon DEF Outcome, Limit
  <1> QED
    BY <1>1, <1>5, Zenon DEF Progress, Body

\* A request beyond the limit computes nothing.
LEMMA RefuseProgress ==
    ASSUME Types, Progress, user # "cmac", Refuse
    PROVE  Progress'
  <1>1. /\ pc = "call" /\ okm_len > Limit /\ pc' = "done" /\ result' = FALSE
        /\ UNCHANGED <<user, okm_len, okm, macs, faults>>
    BY DEF Refuse, Return, args
  <1>2. macs = 0 /\ okm = <<>>
    BY <1>1 DEF Progress
  <1>3. /\ macs' * BlockSize < okm_len' + BlockSize /\ Len(okm') <= okm_len'
        /\ ~ (okm_len' <= Limit)
    BY <1>1, <1>2, BlockSizeAssumption, KdfAssumption, StrEmpty DEF Types, Limit
  <1>4. Outcome'
    BY <1>1, <1>3, Zenon DEF Outcome, Limit
  <1> QED
    BY <1>1, <1>4, Zenon DEF Progress, Body

\* The first iteration, or none when nothing is asked for.
LEMMA CallProgress ==
    ASSUME Types, Progress, user # "cmac", Call
    PROVE  Progress'
  <1>1. /\ pc = "call" /\ okm_len <= Limit /\ iterations' = Iterations /\ pc' = "loop"
        /\ UNCHANGED <<user, okm_len, i, left, okm, result, macs, spoiled, faults>>
    BY DEF Call, args
  <1>2. i = 1 /\ macs = 0 /\ left = okm_len /\ okm = <<>>
        /\ faults = 0 /\ ~ spoiled /\ ~ result
    BY <1>1 DEF Progress
  <1>3. Covered' /\ iterations' \in Nat
    BY <1>1, IterationsLemma DEF Types, Covered, Limit
  <1>4. (Working(i - 1) \/ AllDone)'
    <2>1. CASE iterations' = 0
      <3>1. okm_len' = 0
        BY <1>1, <1>3, <2>1, BlockSizeAssumption DEF Covered, Types
      <3> QED
        BY <1>1, <1>2, <2>1, <3>1, StrEmpty DEF AllDone
    <2>2. CASE iterations' # 0
      <3>1. left' = okm_len' - (i' - 1) * BlockSize /\ Len(okm') = okm_len' - left'
        BY <1>1, <1>2, StrEmpty, BlockSizeAssumption DEF Types
      <3>2. i' \in 1..iterations' /\ macs' = i' - 1
        BY <1>1, <1>2, <1>3, <2>2
      <3> QED
        BY <3>1, <3>2 DEF Working
    <2> QED
      BY <2>1, <2>2
  <1>5. faults' = 0 /\ ~ result' /\ ~ spoiled' /\ user' # "cmac" /\ pc' = "loop"
    BY <1>1, <1>2, Zenon
  <1> QED
    BY <1>3, <1>4, <1>5, Zenon DEF Progress, Body

\* A round of the loop is an iteration.
LEMMA LoopProgress ==
    ASSUME Types, Progress, user # "cmac", Loop
    PROVE  Progress'
  <1>1. /\ pc = "loop" /\ LoopGoesOn /\ pc' \in {"init", "scratch"}
        /\ UNCHANGED <<user, okm_len, i, left, iterations, okm, result, macs, spoiled, faults>>
    BY DEF Loop, args, loop
  <1>2. Covered /\ (Working(i - 1) \/ AllDone) /\ faults = 0 /\ ~ spoiled /\ ~ result
    BY <1>1 DEF Progress
  <1>3. Working(i - 1)
    BY <1>1, <1>2 DEF LoopGoesOn, AllDone, Types
  <1>4. Working(i - 1)' /\ Covered'
    BY <1>1, <1>2, <1>3 DEF Working, Covered
  <1> QED
    BY <1>1, <1>2, <1>4 DEF Progress, Body

\* Every step keeps the progress.
LEMMA ProgressStep == Types /\ Flow /\ Progress /\ [Next]_vars => Progress'
  <1> SUFFICES ASSUME Types, Flow, Progress, [Next]_vars PROVE Progress'
    OBVIOUS
  <1>1. CASE user = "cmac"
    BY <1>1, ArgsFixed DEF Progress
  <1>2. CASE user # "cmac"
    <2>1. CASE UserHash \/ UserCompletes
      BY <1>2, <2>1 DEF UserHash, UserCompletes, Flow
    <2>2. CASE CopyBytes
      <3>1. UNCHANGED <<user, info, okm_len, loop, spoiled, macs, faults>>
            /\ pc \in Body /\ pc' = after
        BY <2>2 DEF CopyBytes, args, Body
      <3>2. pc' \in Body
        BY <1>2, <2>2, <3>1 DEF Types, Flow, Afters, Body, CopyBytes
      <3> QED
        BY <1>2, <3>1, <3>2, WithinIteration
    <2>3. CASE ProcessBlock
      <3>1. pc = "hash" /\ pc \in Body
        BY <2>3 DEF ProcessBlock, Body
      <3>2. CASE Fail
        BY <1>2, <3>1, <3>2, FailProgress
      <3>3. CASE ~ Fail
        <4>1. UNCHANGED <<user, info, okm_len, loop, spoiled, macs, faults>>
              /\ pc' \in {after, pc}
          BY <2>3, <3>3 DEF ProcessBlock, args
        <4>2. pc' \in Body
          BY <1>2, <3>1, <4>1 DEF Types, Flow, Afters, Body
        <4> QED
          BY <1>2, <3>1, <4>1, <4>2, WithinIteration
      <3> QED
        BY <3>2, <3>3
    <2>4. CASE Refuse
      BY <1>2, <2>4, RefuseProgress
    <2>5. CASE Call
      BY <1>2, <2>5, CallProgress
    <2>6. CASE Loop
      BY <1>2, <2>6, LoopProgress
    <2>7. CASE Finish
      BY <1>2, <2>7, FinishProgress
    <2>8. CASE InitContext
      <3>1. pc \in Body
        BY <2>8 DEF InitContext, Body
      <3>2. CASE Fail
        BY <1>2, <3>1, <3>2, FailProgress
      <3>3. CASE ~ Fail
        <4>1. UNCHANGED <<user, info, okm_len, loop, spoiled, macs, faults>>
              /\ pc' \in Body
          BY <2>8, <3>3 DEF InitContext, args, Body
        <4> QED
          BY <1>2, <3>1, <4>1, WithinIteration
      <3> QED
        BY <3>2, <3>3
    <2>9. CASE HashScratch
      <3>1. PICK bytes : Hash(bytes, "info")
        BY <2>9 DEF HashScratch
      <3> QED
        BY <1>2, <2>9, <3>1, HashProgress DEF HashScratch, Body
    <2>10. CASE HashInfo
      <3>1. PICK bytes : Hash(bytes, "counter")
        BY <2>10 DEF HashInfo
      <3> QED
        BY <1>2, <2>10, <3>1, HashProgress DEF HashInfo, Body
    <2>11. CASE HashCounter
      <3>1. PICK bytes : Hash(bytes, "complete")
        BY <2>11 DEF HashCounter
      <3> QED
        BY <1>2, <2>11, <3>1, HashProgress DEF HashCounter, Body
    <2>12. CASE ExpandCompletes
      <3>1. pc = "complete" /\ pc \in Body
        BY <2>12 DEF ExpandCompletes, Body
      <3>2. CASE Complete("copy")
        BY <1>2, <3>1, <3>2, CompleteProgress
      <3>3. CASE CompleteFails
        BY <1>2, <3>1, <3>3, FailProgress DEF CompleteFails
      <3> QED
        BY <2>12, <3>2, <3>3 DEF ExpandCompletes
    <2>13. CASE Copy
      BY <1>2, <2>13, CopyProgress
    <2>14. CASE UNCHANGED vars
      BY <2>14 DEF vars, args, loop, Progress, Covered, Working, AllDone, Outcome, Body
    <2> QED
      BY <2>1, <2>2, <2>3, <2>4, <2>5, <2>6, <2>7, <2>8, <2>9, <2>10, <2>11, <2>12, <2>13,
         <2>14 DEF Next, Expand
  <1> QED
    BY <1>1, <1>2

KdfInv == Types /\ Flow /\ Progress

\* The invariant of the first two theorems.
LEMMA KdfInvHolds == Spec => []KdfInv
  <1>1. Init => KdfInv
    BY TypesInit, ProgressInit DEF KdfInv
  <1>2. KdfInv /\ [Next]_vars => KdfInv'
    BY TypesStep, ProgressStep DEF KdfInv
  <1> QED
    BY <1>1, <1>2, PTL DEF Spec

\* No write index leaves its block, no counter its field, and expand never writes past
\* the buffer it was given.
THEOREM KdfTypeCorrect == Spec => []TypeOK
  <1>1. KdfInv => TypeOK
    <2> SUFFICES ASSUME KdfInv PROVE TypeOK
      OBVIOUS
    <2>1. Len(okm) <= okm_len
      <3>1. CASE user = "cmac"
        BY <3>1, StrEmpty DEF KdfInv, Flow, Types
      <3>2. CASE user # "cmac"
        <4>1. CASE pc \in Body \cup {"copy"}
          <5>1. Len(okm) = okm_len - left
            BY <3>2, <4>1 DEF KdfInv, Progress, Working
          <5> QED
            BY <5>1 DEF KdfInv, Types
        <4>2. CASE pc = "loop"
          <5>1. Len(okm) = okm_len - left \/ Len(okm) = okm_len
            BY <3>2, <4>2 DEF KdfInv, Progress, Working, AllDone
          <5> QED
            BY <5>1 DEF KdfInv, Types
        <4>3. CASE pc = "call"
          BY <3>2, <4>3, StrEmpty DEF KdfInv, Progress, Types
        <4>4. CASE pc = "done"
          BY <3>2, <4>4 DEF KdfInv, Progress, Outcome
        <4> QED
          BY <3>2, <4>1, <4>2, <4>3, <4>4 DEF KdfInv, Types, Flow, Pcs, Body
      <3> QED
        BY <3>1, <3>2
    <2>2. after \in Pcs /\ context.plaintext_index \in 0..BlockSize
          /\ context.multiblock \in BOOLEAN /\ hmac.need_reset \in BOOLEAN
      BY DEF KdfInv, Types, IsContext, IsHmac, Afters, Pcs
    <2> QED
      BY <2>1, <2>2 DEF KdfInv, Types, TypeOK
  <1> QED
    BY <1>1, KdfInvHolds, PTL

\* Expand computes no more than one MAC for each block asked for, and the eight-bit
\* counter that wraps at the end of a full-length request starts no further round.
THEOREM OneMacForEachBlock == Spec => []OneMacPerBlock
  <1>1. KdfInv => OneMacPerBlock
    <2> SUFFICES ASSUME KdfInv, user # "cmac"
                 PROVE  macs * BlockSize < okm_len + BlockSize
      BY DEF OneMacPerBlock
    <2>1. BlockSize \in Nat \ {0} /\ okm_len \in Nat /\ macs \in Nat /\ iterations \in Nat
      BY BlockSizeAssumption DEF KdfInv, Types
    <2>2. CASE pc = "call"
      BY <2>1, <2>2 DEF KdfInv, Progress
    <2>3. CASE pc = "done"
      BY <2>3 DEF KdfInv, Progress, Outcome
    <2>4. CASE pc \notin {"call", "done"}
      <3>1. iterations * BlockSize < okm_len + BlockSize
        BY <2>4 DEF KdfInv, Progress, Covered
      <3>2. macs <= iterations
        BY <2>4 DEF KdfInv, Progress, Types, Flow, Pcs, Body, Working, AllDone
      <3>3. macs * BlockSize <= iterations * BlockSize
        BY <2>1, <3>2
      <3> QED
        BY <2>1, <3>1, <3>3
    <2> QED
      BY <2>2, <2>3, <2>4
  <1> QED
    BY <1>1, KdfInvHolds, PTL

-----------------------------------------------------------------------------
(* HMAC: what SHA-256 has been given is the padded key and the message.    *)

\* Concatenation is associative.
LEMMA StrAssoc ==
    ASSUME NEW s, NEW t, NEW u, Str(s), Str(t), Str(u)
    PROVE  (s \o t) \o u = s \o (t \o u)
  <1> DEFINE S == {s[p] : p \in DOMAIN s} \cup {t[p] : p \in DOMAIN t}
                  \cup {u[p] : p \in DOMAIN u}
  <1>1. s \in Seq(S) /\ t \in Seq(S) /\ u \in Seq(S)
    BY SeqMonotonic DEF Str
  <1> HIDE DEF S
  <1> QED
    BY <1>1, ConcatAssociative

\* The empty string adds nothing.
LEMMA StrUnit ==
    ASSUME NEW s, Str(s)
    PROVE  s \o <<>> = s /\ <<>> \o s = s
  BY ConcatEmptySeq DEF Str

HmacRunning ==
    user = "hkdf" /\ DefinedKey /\ pc \notin {"call", "done"} =>
        /\ hmac.key = key
        /\ hmac.need_reset => message = <<>>
        /\ ~ hmac.need_reset => hmac.sha256 = Inner(key) \o message
        /\ pc \in {"info", "counter", "complete"} => ~ hmac.need_reset

\* The padded key is a byte string.
LEMMA InnerStr == Str(Inner(key))
  BY StrOne DEF Inner

\* A call adds its bytes, behind the padded key when the hash starts again.
LEMMA HmacHashStep ==
    ASSUME Types, HmacRunning, NEW bytes, Str(bytes), NEW next, Hash(bytes, next),
           user = "hkdf", DefinedKey, pc \notin {"call", "done"}
    PROVE  /\ hmac'.key = key /\ ~ hmac'.need_reset
           /\ hmac'.sha256 = Inner(key) \o message'
  <1>1. hmac' = HmacHashed(hmac, bytes) /\ message' = message \o bytes
    BY DEF Hash
  <1>2. /\ hmac'.key = hmac.key /\ hmac'.need_reset = FALSE
        /\ hmac'.sha256 = (IF hmac.need_reset THEN Inner(hmac.key) ELSE hmac.sha256) \o bytes
    BY <1>1, HmacHashedLemma DEF Types
  <1>3. hmac.key = key
    BY DEF HmacRunning
  <1>4. CASE hmac.need_reset
    <2>1. message = <<>>
      BY <1>4 DEF HmacRunning
    <2>2. message' = bytes
      BY <1>1, <2>1, StrUnit
    <2> QED
      BY <1>2, <1>3, <1>4, <2>2
  <1>5. CASE ~ hmac.need_reset
    <2>1. hmac.sha256 = Inner(key) \o message
      BY <1>5 DEF HmacRunning
    <2>2. (Inner(key) \o message) \o bytes = Inner(key) \o (message \o bytes)
      <3>1. Str(Inner(key)) /\ Str(message)
        BY InnerStr DEF Types
      <3> QED
        BY <3>1, StrAssoc
    <2> QED
      BY <1>1, <1>2, <1>3, <1>5, <2>1, <2>2
  <1> QED
    BY <1>4, <1>5

\* The keys whose HMAC is defined are not hashed.
LEMMA ShortKey ==
    ASSUME user = "hkdf", DefinedKey
    PROVE  ~ (Len(key) > HashBlockSize)
  <1>1. Len(key) <= HashBlockSize /\ HashBlockSize \in Nat
    BY BlockSizeAssumption DEF DefinedKey
  <1> QED
    BY <1>1

\* Every step keeps what SHA-256 has been given in step with the message.
LEMMA HmacRunningStep == Types /\ Flow /\ HmacRunning /\ [Next]_vars => HmacRunning'
  <1> SUFFICES ASSUME Types, Flow, HmacRunning, [Next]_vars,
                      user' = "hkdf", DefinedKey', pc' \notin {"call", "done"}
               PROVE  /\ hmac'.key = key'
                      /\ hmac'.need_reset => message' = <<>>
                      /\ ~ hmac'.need_reset => hmac'.sha256 = Inner(key)' \o message'
                      /\ pc' \in {"info", "counter", "complete"} => ~ hmac'.need_reset
    BY DEF HmacRunning
  <1>1. user = "hkdf" /\ key' = key /\ DefinedKey
    BY ArgsFixed DEF DefinedKey
  <1>2. Inner(key)' = Inner(key)
    BY <1>1 DEF Inner
  <1>3. CASE UserHash \/ UserCompletes \/ CopyBytes \/ ProcessBlock \/ InitContext
    BY <1>1, <1>3 DEF UserHash, UserCompletes, CopyBytes, ProcessBlock, InitContext, Flow
  <1>4. CASE Refuse \/ Finish
    BY <1>4 DEF Refuse, Finish, Return
  <1>5. CASE Call
    <2>1. PICK k \in HmacKeys(key) : hmac' = HmacKeyed(hmac, k)
      BY <1>1, <1>5 DEF Call
    <2>2. k = key
      BY <1>1, <2>1, ShortKey DEF HmacKeys
    <2>3. hmac'.key = key /\ hmac'.sha256 = Inner(key)
      BY <2>1, <2>2, HmacKeyedLemma DEF Types
    <2>4. message' = <<>> /\ pc' = "loop"
      BY <1>5 DEF Call, Flow
    <2> QED
      BY <1>1, <1>2, <2>3, <2>4, InnerStr, StrUnit
  <1>6. CASE Loop
    BY <1>1, <1>2, <1>6 DEF Loop, HmacRunning
  <1>7. CASE HashScratch
    <2>1. PICK bytes : bytes = (IF i > 1 THEN scratch ELSE <<>>) /\ Hash(bytes, "info")
      BY <1>7 DEF HashScratch
    <2>2. Str(bytes)
      BY <2>1, StrEmpty DEF Types
    <2> QED
      BY <1>1, <1>2, <1>7, <2>1, <2>2, HmacHashStep DEF HashScratch
  <1>8. CASE HashInfo
    <2>1. PICK bytes : bytes = info /\ Hash(bytes, "counter")
      BY <1>8 DEF HashInfo
    <2>2. Str(bytes)
      BY <2>1 DEF Types
    <2> QED
      BY <1>1, <1>2, <1>8, <2>1, <2>2, HmacHashStep DEF HashInfo
  <1>9. CASE HashCounter
    <2>1. PICK bytes : bytes = <<Byte("i", i)>> /\ Hash(bytes, "complete")
      BY <1>9 DEF HashCounter
    <2>2. Str(bytes)
      BY <2>1, StrOne
    <2> QED
      BY <1>1, <1>2, <1>9, <2>1, <2>2, HmacHashStep DEF HashCounter
  <1>10. CASE ExpandCompletes
    <2>1. pc = "complete" /\ Complete("copy")
      BY <1>1, <1>10 DEF ExpandCompletes, CompleteFails
    <2>2. hmac' = HmacFinished(hmac) /\ message' = <<>> /\ pc' = "copy"
      BY <1>1, <2>1 DEF Complete
    <2>3. hmac'.key = hmac.key /\ hmac'.need_reset = TRUE
      BY <2>2, HmacFinishedLemma DEF Types
    <2> QED
      BY <1>1, <2>1, <2>2, <2>3 DEF HmacRunning
  <1>11. CASE Copy
    BY <1>1, <1>2, <1>11 DEF Copy, HmacRunning
  <1>12. CASE UNCHANGED vars
    BY <1>1, <1>2, <1>12 DEF vars, HmacRunning
  <1> QED
    BY <1>3, <1>4, <1>5, <1>6, <1>7, <1>8, <1>9, <1>10, <1>11, <1>12 DEF Next, Expand

\* So its output is the HMAC of the message.
LEMMA HmacMac ==
    ASSUME Types, HmacRunning, user = "hkdf", DefinedKey, pc = "complete"
    PROVE  HmacOutput(hmac) = Mac(message)
  <1>1. hmac.key = key /\ hmac.sha256 = Inner(key) \o message
    BY DEF HmacRunning
  <1>2. ~ (Len(key) > HashBlockSize)
    BY ShortKey
  <1> QED
    BY <1>1, <1>2 DEF HmacOutput, Mac, HMAC

-----------------------------------------------------------------------------
(* CMAC: exclusive or, and the blocks of a message.                        *)

\* Exclusive or.
LEMMA XorAlgebra ==
    /\ \A a, b : Xor(a, b) = Xor(b, a)
    /\ \A a, b, c : Xor(Xor(a, b), c) = Xor(Xor(c, a), b)
    /\ \A a : Xor(Zero, a) = a
  <1>1. \A a, b : Xor(a, b) = Xor(b, a)
    BY DEF Xor
  <1>2. \A a, b, c : Xor(Xor(a, b), c) = Xor(Xor(c, a), b)
    BY DEF Xor
  <1>3. \A a : Xor(Zero, a) = a
    BY DEF Xor, Zero
  <1> QED
    BY <1>1, <1>2, <1>3

\* Exclusive or of blocks.
LEMMA XorBlocksAlgebra ==
    /\ \A a, b : XorBlocks(a, b) = XorBlocks(b, a)
    /\ \A a, b, c : XorBlocks(XorBlocks(a, b), c) = XorBlocks(XorBlocks(c, a), b)
    /\ \A a : a = [p \in Places |-> a[p]] => XorBlocks(ZeroBlock, a) = a
  BY XorAlgebra DEF XorBlocks, ZeroBlock

\* More bytes leave the full blocks of a message as they are,
LEMMA MessageBlockPrefix ==
    ASSUME NEW m, NEW e, Str(m), Str(e), NEW b \in Nat \ {0}, b * BlockSize <= Len(m)
    PROVE  MessageBlock(m \o e, b) = MessageBlock(m, b)
  <1>1. ASSUME NEW p \in Places
        PROVE  PaddedByte(m \o e, (b - 1) * BlockSize + p)
                 = PaddedByte(m, (b - 1) * BlockSize + p)
    <2> DEFINE at == (b - 1) * BlockSize + p
    <2>1. at \in 1..Len(m)
      <3>1. (b - 1) * BlockSize \in Nat /\ (b - 1) * BlockSize + BlockSize = b * BlockSize
        BY BlockSizeAssumption
      <3>2. p \in 1..BlockSize
        BY DEF Places
      <3> QED
        BY <3>1, <3>2, StrFacts, BlockSizeAssumption
    <2> HIDE DEF at
    <2>2. Len(m) \in Nat /\ Len(e) \in Nat /\ Len(m \o e) = Len(m) + Len(e)
          /\ (m \o e)[at] = m[at]
      BY <2>1, StrFacts, StrConcat
    <2>3. PaddedByte(m \o e, at) = PaddedByte(m, at)
      BY <2>1, <2>2 DEF PaddedByte
    <2> QED
      BY <2>3 DEF at
  <1> QED
    BY <1>1 DEF MessageBlock

\* f chains the first k blocks of m.
Chaining(f, k, m) ==
    /\ k * BlockSize <= Len(m)
    /\ f[0] = ZeroBlock
    /\ \A b \in 1..k :
          f[b] = Aes(AesKey(key), XorBlocks(f[b - 1], MessageBlock(m, b)))

\* ... and so their chain.
LEMMA ChainingPrefix ==
    ASSUME NEW m, NEW e, Str(m), Str(e), NEW k \in Nat, NEW f, Chaining(f, k, m)
    PROVE  Chaining(f, k, m \o e)
  <1>1. k * BlockSize <= Len(m \o e)
    BY StrConcat, StrFacts, BlockSizeAssumption DEF Chaining
  <1>2. \A b \in 1..k : MessageBlock(m \o e, b) = MessageBlock(m, b)
    <2> SUFFICES ASSUME NEW b \in 1..k PROVE MessageBlock(m \o e, b) = MessageBlock(m, b)
      OBVIOUS
    <2>1. b * BlockSize <= k * BlockSize
      BY BlockSizeAssumption
    <2>2. b * BlockSize <= Len(m)
      <3>1. b * BlockSize \in Int /\ k * BlockSize \in Int /\ Len(m) \in Int
        BY BlockSizeAssumption, StrFacts
      <3>2. k * BlockSize <= Len(m)
        BY DEF Chaining
      <3> QED
        BY <2>1, <3>1, <3>2
    <2> QED
      BY <2>2, MessageBlockPrefix
  <1> QED
    BY <1>1, <1>2 DEF Chaining

\* The mask makes the last block of the code the padded last block of the algorithm.
LEMMA CmacLast ==
    ASSUME NEW m, Str(m), NEW k \in Nat, NEW x \in 0..BlockSize, NEW f,
           Len(m) = k * BlockSize + x, k > 0 => x > 0, Chaining(f, k, m)
    PROVE  /\ Blocks(m) = k + 1
           /\ Len(m) = Blocks(m) * BlockSize <=> x = BlockSize
           /\ CMAC(AesKey(key), m)
                = Aes(AesKey(key), XorBlocks(XorBlocks(f[k], MessageBlock(m, k + 1)),
                                             Mask(AesKey(key), m)))
  <1> DEFINE K == AesKey(key)  n == k + 1
             g == [b \in 0..n |-> IF b <= k THEN f[b] ELSE Round(K, m, f[k], n)]
  <1>0. BlockSize \in Nat \ {0, 1} /\ Len(m) \in Nat
    BY StrFacts, BlockSizeAssumption
  <1>1. Blocks(m) = n
    <2>1. CASE m = <<>>
      <3>1. k * BlockSize + x = 0
        BY <2>1, StrEmpty
      <3>2. k = 0
        <4>1. ASSUME k > 0 PROVE FALSE
          <5> DEFINE y == k * BlockSize
          <5>1. y \in Nat /\ y + x = 0 /\ x > 0
            BY <1>0, <3>1, <4>1
          <5> HIDE DEF y
          <5> QED
            BY <5>1
        <4> QED
          BY <4>1
      <3> QED
        BY <2>1, <3>2 DEF Blocks
    <2>2. CASE m # <<>>
      <3>1. x > 0
        <4>1. ASSUME x = 0 PROVE FALSE
          <5>1. k = 0
            BY <4>1
          <5>2. Len(m) = 0
            BY <4>1, <5>1, <1>0
          <5> QED
            BY <2>2, <5>2, StrFacts
        <4> QED
          BY <4>1
      <3>2. Len(m) + BlockSize - 1 = n * BlockSize + (x - 1)
        <4>1. n * BlockSize = k * BlockSize + BlockSize
          BY <1>0
        <4> DEFINE y == k * BlockSize  z == n * BlockSize
        <4>2. y \in Nat /\ z \in Nat /\ z = y + BlockSize /\ Len(m) = y + x
          BY <4>1, <1>0
        <4>3. Len(m) + BlockSize - 1 = z + (x - 1)
          <5> HIDE DEF y, z
          <5> QED
            BY <4>2, <1>0
        <4> QED
          BY <4>3
      <3>3. (n * BlockSize + (x - 1)) \div BlockSize = n
        <4>1. n \in Nat /\ x - 1 \in 0..(BlockSize - 1)
          BY <3>1, <1>0
        <4> HIDE DEF n
        <4> QED
          BY <1>0, <4>1, DivIs
      <3> QED
        BY <2>2, <3>2, <3>3 DEF Blocks
    <2> QED
      BY <2>1, <2>2
  <1>2. Len(m) = n * BlockSize <=> x = BlockSize
    <2>1. n * BlockSize = k * BlockSize + BlockSize
      BY <1>0
    <2> DEFINE y == k * BlockSize  z == n * BlockSize
    <2>2. y \in Nat /\ z \in Nat /\ z = y + BlockSize /\ Len(m) = y + x
      BY <2>1, <1>0
    <2>3. Len(m) = z <=> x = BlockSize
      <3> HIDE DEF y, z
      <3> QED
        BY <2>2, <1>0
    <2> QED
      BY <2>3
  <1>3. g = [b \in 0..n |-> IF b = 0 THEN ZeroBlock ELSE Round(K, m, g[b - 1], b)]
    <2> SUFFICES ASSUME NEW b \in 0..n
                 PROVE  g[b] = IF b = 0 THEN ZeroBlock ELSE Round(K, m, g[b - 1], b)
      OBVIOUS
    <2>1. CASE b = 0
      BY <2>1 DEF Chaining
    <2>2. CASE b \in 1..k
      <3>1. g[b] = f[b] /\ g[b - 1] = f[b - 1] /\ b # n /\ b # 0
        BY <2>2
      <3>2. f[b] = Aes(K, XorBlocks(f[b - 1], MessageBlock(m, b)))
        BY <2>2 DEF Chaining
      <3> HIDE DEF g, n, K
      <3> QED
        BY <1>1, <3>1, <3>2 DEF Round
    <2>3. CASE b = n
      <3>1. g[n] = Round(K, m, f[k], n) /\ g[n - 1] = f[k] /\ n # 0
        BY <2>3
      <3> HIDE DEF g, n, K
      <3> QED
        BY <2>3, <3>1
    <2> QED
      BY <2>1, <2>2, <2>3
  <1>4. CMAC(K, m) = g[n]
    <2>1. n \in Nat
      OBVIOUS
    <2> HIDE DEF g, n, K
    <2> QED
      BY <1>1, <1>3, <2>1, CmacIs
  <1>5. g[n] = Round(K, m, f[k], n)
    OBVIOUS
  <1>6. Round(K, m, f[k], n)
          = Aes(K, XorBlocks(XorBlocks(f[k], MessageBlock(m, n)), Mask(K, m)))
    BY <1>1 DEF Round
  <1> HIDE DEF g
  <1> QED
    BY <1>1, <1>2, <1>4, <1>5, <1>6

-----------------------------------------------------------------------------
(* CMAC: the context holds the chain of the blocks processed so far, and   *)
(* the bytes that wait for their block.                                    *)

Keying == user = "cmac" \/ pc \in {"scratch", "info", "counter", "complete", "hash"}

\* The subkeys survive a failure: only the next derivation replaces them.
KeysHeld == user # "hkdf" /\ Keying => KeyedFor(context, key)

\* k blocks of the message have been processed, f is their chain.
CmacAt(k, f) ==
    LET done == Len(message) - Len(data)  x == context.plaintext_index IN
    /\ done = k * BlockSize + x
    /\ k > 0 /\ x = 0 => Len(data) > 0
    /\ context.multiblock <=> k > 0
    /\ Chaining(f, k, message)
    /\ context.multiblock => context.ciphertext = f[k]
    /\ \A p \in 1..x : context.plaintext[p] = message[k * BlockSize + p]
    /\ \A p \in 1..Len(data) : data[p] = message[done + p]

CmacRunning ==
    user # "hkdf" /\ ~ spoiled /\ Keying => \E k \in Nat : \E f : CmacAt(k, f)

\* A context that has just been initialised or reset: no block, no byte.
LEMMA CmacFresh ==
    ASSUME context.plaintext_index = 0, context.multiblock = FALSE,
           message = <<>>, data = <<>>
    PROVE  \E k \in Nat : \E f : CmacAt(k, f)
  <1> DEFINE f == [b \in {0} |-> ZeroBlock]
  <1>1. Len(message) = 0 /\ Len(data) = 0
    BY StrEmpty
  <1>2. 0 * BlockSize = 0
    BY BlockSizeAssumption
  <1>3. Chaining(f, 0, message)
    BY <1>1, <1>2 DEF Chaining
  <1>4. Len(message) - Len(data) = 0 * BlockSize + context.plaintext_index
    BY <1>1, <1>2
  <1>5. ~ context.multiblock /\ ~ (0 > 0)
    OBVIOUS
  <1>6. /\ \A p \in 1..context.plaintext_index :
              context.plaintext[p] = message[0 * BlockSize + p]
        /\ \A p \in 1..Len(data) : data[p] = message[(Len(message) - Len(data)) + p]
    BY <1>1
  <1> HIDE DEF f
  <1>7. CmacAt(0, f)
    BY <1>3, <1>4, <1>5, <1>6 DEF CmacAt
  <1> QED
    BY <1>7

\* The quantities compared below are naturals.
LEMMA IndexNat ==
    ASSUME Types, NEW k \in Nat
    PROVE  /\ context.plaintext_index \in Nat /\ k * BlockSize \in Nat
           /\ Len(message) \in Nat /\ Len(data) \in Nat
  <1>1. context.plaintext_index \in 0..BlockSize /\ BlockSize \in Nat
    BY BlockSizeAssumption DEF Types, IsContext
  <1>2. k * BlockSize \in Nat
    BY <1>1
  <1> QED
    BY <1>1, <1>2, StrFacts DEF Types

\* What a call adds is all still to be taken.
LEMMA CmacHashStep ==
    ASSUME Types, Flow, NEW bytes, Str(bytes), NEW next, Hash(bytes, next), user # "hkdf",
           pc # "hash", NEW k \in Nat, NEW f, CmacAt(k, f)
    PROVE  CmacAt(k, f)'
  <1>1. /\ message' = message \o bytes /\ data' = bytes /\ data = <<>>
        /\ context' = context /\ key' = key
    BY DEF Hash, Flow, args
  <1>2. /\ Len(message) \in Nat /\ Len(bytes) \in Nat /\ Len(data) = 0
        /\ Len(message') = Len(message) + Len(bytes)
        /\ \A p \in 1..(Len(message) + Len(bytes)) :
              message'[p] = IF p <= Len(message) THEN message[p]
                            ELSE bytes[p - Len(message)]
    BY <1>1, StrFacts, StrConcat, StrEmpty DEF Types
  <1>3. Chaining(f, k, message)'
    <2>1. Chaining(f, k, message \o bytes)
      BY ChainingPrefix DEF Types, CmacAt
    <2> QED
      BY <1>1, <2>1 DEF Chaining
  <1> DEFINE x == context.plaintext_index  y == k * BlockSize
  <1>4. /\ x \in Nat /\ y \in Nat /\ Len(message) = y + x /\ ~ (k > 0 /\ x = 0)
        /\ \A p \in 1..x : context.plaintext[p] = message[y + p]
    <2>1. x \in Nat /\ y \in Nat
      BY IndexNat
    <2>2. /\ Len(message) - Len(data) = y + x /\ (k > 0 /\ x = 0 => Len(data) > 0)
          /\ \A p \in 1..x : context.plaintext[p] = message[y + p]
      BY DEF CmacAt
    <2> HIDE DEF x, y
    <2> QED
      BY <1>2, <2>1, <2>2
  <1> HIDE DEF x, y
  <1>5. Len(message') - Len(data') = y + x
    BY <1>1, <1>2, <1>4
  <1>6. \A p \in 1..x : context.plaintext[p] = message'[y + p]
    <2> SUFFICES ASSUME NEW p \in 1..x PROVE context.plaintext[p] = message'[y + p]
      OBVIOUS
    <2>1. y + p \in 1..(Len(message) + Len(bytes)) /\ y + p <= Len(message)
      BY <1>2, <1>4
    <2>2. message'[y + p] = message[y + p]
      BY <1>2, <2>1
    <2> QED
      BY <1>4, <2>2
  <1>7. \A p \in 1..Len(data') : data'[p] = message'[(Len(message') - Len(data')) + p]
    BY <1>1, <1>2, <1>4, <1>5
  <1>8. /\ context.multiblock <=> k > 0
        /\ context.multiblock => context.ciphertext = f[k]
    BY DEF CmacAt
  <1> QED
    BY <1>1, <1>3, <1>4, <1>5, <1>6, <1>7, <1>8 DEF CmacAt, x, y

\* What the copy into the block leaves: its first bytes are the message's.
LEMMA FilledBytes ==
    ASSUME Types, NEW k \in Nat, NEW f, CmacAt(k, f)
    PROVE  LET c == Filled(context, data) IN
           /\ \A p \in 1..c.plaintext_index : c.plaintext[p] = message[k * BlockSize + p]
           /\ c.plaintext_index = context.plaintext_index + Taken(context, data)
           /\ c.ciphertext = context.ciphertext /\ c.multiblock = context.multiblock
           /\ SameKeys(c, context) /\ IsContext(c)
           /\ c.plaintext = [p \in Places |-> c.plaintext[p]]
  <1> DEFINE c == Filled(context, data)  x == context.plaintext_index
             y == k * BlockSize  t == Taken(context, data)
  <1>1. /\ IsContext(c)
        /\ SameKeys(c, context) /\ c.ciphertext = context.ciphertext
        /\ c.multiblock = context.multiblock
        /\ c.plaintext_index = x + t
        /\ c.plaintext = [p \in Places |-> c.plaintext[p]]
        /\ \A p \in 1..x : p \in Places => c.plaintext[p] = context.plaintext[p]
        /\ \A p \in (x + 1)..(x + t) : c.plaintext[p] = data[p - x]
    BY FilledLemma DEF Types
  <1>2. /\ x \in Nat /\ y \in Nat /\ t \in 0..Len(data) /\ Len(data) \in Nat
        /\ x + t \in 0..BlockSize /\ BlockSize \in Nat /\ Len(message) \in Nat
    <2>1. x \in Nat /\ y \in Nat /\ Len(data) \in Nat /\ Len(message) \in Nat
      BY IndexNat
    <2>2. t \in 0..Len(data) /\ x + t \in 0..BlockSize
      BY TakenLemma DEF Types
    <2> QED
      BY <2>1, <2>2, BlockSizeAssumption
  <1>3. /\ Len(message) - Len(data) = y + x
        /\ \A p \in 1..x : context.plaintext[p] = message[y + p]
        /\ \A p \in 1..Len(data) : data[p] = message[(Len(message) - Len(data)) + p]
    BY DEF CmacAt
  <1> HIDE DEF c, x, y, t
  <1>4. \A p \in 1..(x + t) : c.plaintext[p] = message[y + p]
    <2> SUFFICES ASSUME NEW p \in 1..(x + t) PROVE c.plaintext[p] = message[y + p]
      OBVIOUS
    <2>1. CASE p <= x
      <3>1. p \in 1..x /\ p \in Places
        BY <1>2, <2>1 DEF Places
      <3>2. \A q \in 1..x : q \in Places => c.plaintext[q] = context.plaintext[q]
        BY <1>1
      <3> QED
        BY <1>3, <3>1, <3>2
    <2>2. CASE p > x
      <3>1. c.plaintext[p] = data[p - x] /\ p - x \in 1..Len(data)
        <4>1. p \in (x + 1)..(x + t) /\ p - x \in 1..Len(data)
          BY <1>2, <2>2
        <4>2. \A q \in (x + 1)..(x + t) : c.plaintext[q] = data[q - x]
          BY <1>1
        <4> QED
          BY <4>1, <4>2
      <3>2. data[p - x] = message[(Len(message) - Len(data)) + (p - x)]
        BY <1>3, <3>1
      <3>3. (Len(message) - Len(data)) + (p - x) = y + p
        BY <1>2, <1>3
      <3> QED
        BY <3>1, <3>2, <3>3
    <2> QED
      BY <1>2, <2>1, <2>2
  <1> QED
    BY <1>1, <1>4 DEF c, x, y, t

\* The data fits: the block waits for more.
LEMMA CmacCopyStep ==
    ASSUME Types, CopyBytes, NEW k \in Nat, NEW f, CmacAt(k, f)
    PROVE  CmacAt(k, f)'
  <1> DEFINE x == context.plaintext_index  y == k * BlockSize  c == Filled(context, data)
  <1>1. /\ context' = c /\ data' = <<>> /\ message' = message /\ key' = key
    BY DEF CopyBytes, args
  <1>2. Taken(context, data) = Len(data) /\ Len(data) \in Nat /\ Len(message) \in Nat
        /\ x \in Nat /\ y \in Nat
    <2>1. Taken(context, data) = Len(data)
      BY TakenLemma DEF CopyBytes, Types
    <2> QED
      BY <2>1, IndexNat
  <1>3. /\ \A p \in 1..c.plaintext_index : c.plaintext[p] = message[y + p]
        /\ c.plaintext_index = x + Len(data)
        /\ c.ciphertext = context.ciphertext /\ c.multiblock = context.multiblock
    BY <1>2, FilledBytes
  <1>4. /\ Len(message) - Len(data) = y + x
        /\ k > 0 /\ x = 0 => Len(data) > 0
        /\ context.multiblock <=> k > 0
        /\ Chaining(f, k, message)
        /\ context.multiblock => context.ciphertext = f[k]
    BY DEF CmacAt
  <1> HIDE DEF c, x, y
  <1>5. Len(data') = 0
    BY <1>1, StrEmpty
  <1>6. Len(message') - Len(data') = y + context'.plaintext_index
    BY <1>1, <1>2, <1>3, <1>4, <1>5
  <1>7. ~ (k > 0 /\ context'.plaintext_index = 0)
    BY <1>1, <1>2, <1>3, <1>4
  <1>8. Chaining(f, k, message)'
    BY <1>1, <1>4 DEF Chaining
  <1>9. /\ context'.multiblock <=> k > 0
        /\ context'.multiblock => context'.ciphertext = f[k]
    BY <1>1, <1>3, <1>4
  <1>10. /\ \A p \in 1..context'.plaintext_index :
               context'.plaintext[p] = message'[y + p]
         /\ \A p \in 1..Len(data') : data'[p] = message'[(Len(message') - Len(data')) + p]
    BY <1>1, <1>3, <1>5
  <1> QED
    BY <1>6, <1>7, <1>8, <1>9, <1>10 DEF CmacAt, y

\* The block is full and there is more: the chain has one more link.
LEMMA CmacBlockStep ==
    ASSUME Types, pc = "hash", Overfull(context, data), KeyedFor(context, key),
           context' = BlockDone(Filled(context, data)), data' = Rest(context, data),
           UNCHANGED <<key, message>>, NEW k \in Nat, NEW f, CmacAt(k, f)
    PROVE  \E g : CmacAt(k + 1, g)'
  <1> DEFINE c == Filled(context, data)  x == context.plaintext_index
             y == k * BlockSize  t == Taken(context, data)
             B == MessageBlock(message, k + 1)
  <1>0. PICK g : g = [b \in 0..(k + 1) |-> IF b <= k THEN f[b]
                                        ELSE Aes(AesKey(key), XorBlocks(f[k], B))]
    OBVIOUS
  <1>1. /\ x \in Nat /\ y \in Nat /\ Len(data) \in Nat /\ Len(message) \in Nat
        /\ BlockSize \in Nat \ {0}
    BY IndexNat, BlockSizeAssumption
  <1>2. t = BlockSize - x /\ t < Len(data) /\ t \in Nat
    BY TakenLemma DEF Types
  <1>3. /\ \A p \in 1..c.plaintext_index : c.plaintext[p] = message[y + p]
        /\ c.plaintext_index = x + t
        /\ c.ciphertext = context.ciphertext /\ c.multiblock = context.multiblock
        /\ SameKeys(c, context) /\ IsContext(c)
        /\ c.plaintext = [p \in Places |-> c.plaintext[p]]
    BY FilledBytes
  <1>4. /\ Len(message) - Len(data) = y + x
        /\ context.multiblock <=> k > 0
        /\ Chaining(f, k, message)
        /\ context.multiblock => context.ciphertext = f[k]
        /\ \A p \in 1..Len(data) : data[p] = message[(Len(message) - Len(data)) + p]
    BY DEF CmacAt
  <1>5. (k + 1) * BlockSize = y + BlockSize
    BY <1>1
  <1>6. c.plaintext = B
    <2> SUFFICES ASSUME NEW p \in Places PROVE c.plaintext[p] = B[p]
      BY <1>3 DEF MessageBlock
    <2>1. p \in 1..BlockSize /\ c.plaintext_index = BlockSize
      <3> HIDE DEF c, x, t
      <3> QED
        BY <1>1, <1>2, <1>3 DEF Places
    <2>2. c.plaintext[p] = message[y + p]
      <3> HIDE DEF c
      <3> QED
        BY <1>3, <2>1
    <2>3. B[p] = PaddedByte(message, y + p)
      <3>1. ((k + 1) - 1) * BlockSize = y
        BY <1>1
      <3> QED
        BY <3>1 DEF MessageBlock
    <2>4. y + p <= Len(message)
      <3> HIDE DEF x, y, t
      <3> QED
        BY <1>1, <1>2, <1>4, <2>1
    <2> QED
      BY <2>2, <2>3, <2>4 DEF PaddedByte
  <1>7. context'.ciphertext = Aes(AesKey(key), XorBlocks(f[k], B))
    <2>1. context'.ciphertext = Aes(c.key, Chained(c).plaintext)
      <3> HIDE DEF c
      <3> QED
        BY <1>3, BlockDoneLemma DEF c
    <2>2. c.key = AesKey(key)
      BY <1>3 DEF SameKeys, KeyedFor
    <2>3. Chained(c).plaintext = XorBlocks(f[k], B)
      <3>1. Chained(c).plaintext
              = IF c.multiblock THEN XorBlocks(c.plaintext, c.ciphertext) ELSE c.plaintext
        <4> HIDE DEF c
        <4> QED
          BY <1>3, ChainedLemma
      <3>2. CASE context.multiblock
        <4>1. Chained(c).plaintext = XorBlocks(B, f[k])
          <5> HIDE DEF c, B
          <5> QED
            BY <1>3, <1>4, <1>6, <3>1, <3>2
        <4> HIDE DEF c, B
        <4> QED
          BY <4>1, XorBlocksAlgebra
      <3>3. CASE ~ context.multiblock
        <4>1. k = 0 /\ f[0] = ZeroBlock
          BY <1>4, <3>3 DEF Chaining
        <4>2. B = [p \in Places |-> B[p]]
          BY DEF MessageBlock
        <4>3. Chained(c).plaintext = B
          <5> HIDE DEF c, B
          <5> QED
            BY <1>3, <1>6, <3>1, <3>3
        <4> HIDE DEF c, B
        <4> QED
          BY <4>1, <4>2, <4>3, XorBlocksAlgebra
      <3> QED
        BY <3>2, <3>3
    <2> QED
      BY <2>1, <2>2, <2>3
  <1>8. context'.multiblock = TRUE /\ context'.plaintext_index = 0
    <2> HIDE DEF c
    <2> QED
      BY <1>3, BlockDoneLemma DEF c
  <1>9. g[k + 1] = Aes(AesKey(key), XorBlocks(f[k], B))
    BY <1>0
  <1>10. Chaining(g, k + 1, message)
    <2>1. g[0] = ZeroBlock
      BY <1>0, <1>4 DEF Chaining
    <2>2. ASSUME NEW b \in 1..(k + 1)
          PROVE  g[b] = Aes(AesKey(key), XorBlocks(g[b - 1], MessageBlock(message, b)))
      <3>1. CASE b \in 1..k
        <4>1. g[b] = f[b] /\ g[b - 1] = f[b - 1]
          BY <1>0, <3>1
        <4>2. f[b] = Aes(AesKey(key), XorBlocks(f[b - 1], MessageBlock(message, b)))
          BY <1>4, <3>1 DEF Chaining
        <4> QED
          BY <4>1, <4>2
      <3>2. CASE b = k + 1
        <4>1. g[b - 1] = f[k] /\ g[b] = Aes(AesKey(key), XorBlocks(f[k], B))
          BY <1>0, <1>9, <3>2
        <4> QED
          BY <3>2, <4>1
      <3> QED
        BY <3>1, <3>2
    <2>3. (k + 1) * BlockSize <= Len(message)
      <3> HIDE DEF x, y, t
      <3> QED
        BY <1>1, <1>2, <1>4, <1>5
    <2> QED
      BY <2>1, <2>2, <2>3 DEF Chaining
  <1>11. Chaining(g, k + 1, message)'
    BY <1>10 DEF Chaining
  <1>12. /\ Len(data') = Len(data) - t
         /\ \A p \in 1..(Len(data) - t) : data'[p] = data[t + p]
    <2>1. /\ Len(data') = (IF t + 1 <= Len(data) THEN Len(data) - (t + 1) + 1 ELSE 0)
          /\ \A p \in 1..(Len(data) - (t + 1) + 1) : data'[p] = data[(t + 1) + p - 1]
      <3>1. t + 1 \in Nat
        BY <1>2
      <3> HIDE DEF t
      <3> QED
        BY <1>1, <3>1, StrSub DEF Rest, t
    <2>2. Len(data) - (t + 1) + 1 = Len(data) - t /\ t + 1 <= Len(data)
          /\ \A p \in 1..(Len(data) - t) : (t + 1) + p - 1 = t + p
      <3> HIDE DEF t
      <3> QED
        BY <1>1, <1>2
    <2> HIDE DEF t
    <2>3. Len(data') = Len(data) - t
      BY <2>1, <2>2
    <2>4. \A p \in 1..(Len(data) - t) : data'[p] = data[(t + 1) + p - 1]
      BY <2>1, <2>2
    <2> QED
      BY <2>2, <2>3, <2>4
  <1>13. Len(message') - Len(data') = (k + 1) * BlockSize + context'.plaintext_index
    <2>1. message' = message
      OBVIOUS
    <2> DEFINE z == (k + 1) * BlockSize
    <2>2. z = y + BlockSize
      BY <1>5
    <2>3. Len(data') = Len(data) - t
      BY <1>12
    <2> HIDE DEF x, y, z, t
    <2>4. Len(message) - (Len(data) - t) = z + 0
      <3>1. Len(message) - Len(data) = y + x /\ t = BlockSize - x
        BY <1>2, <1>4
      <3> QED
        BY <1>1, <2>2, <3>1
    <2>5. Len(message') - Len(data') = z + context'.plaintext_index
      BY <1>8, <2>1, <2>3, <2>4
    <2> QED
      BY <2>5 DEF z
  <1>14. \A p \in 1..Len(data') : data'[p] = message'[(Len(message') - Len(data')) + p]
    <2> SUFFICES ASSUME NEW p \in 1..Len(data')
                 PROVE  data'[p] = message'[(Len(message') - Len(data')) + p]
      OBVIOUS
    <2>1. p \in 1..(Len(data) - t) /\ t + p \in 1..Len(data)
          /\ (Len(message) - Len(data)) + (t + p) = (Len(message') - Len(data')) + p
      <3>1. Len(data') = Len(data) - t /\ message' = message
        BY <1>12
      <3> HIDE DEF t, x
      <3> QED
        BY <1>1, <1>2, <3>1
    <2>2. data'[p] = data[t + p]
      <3> HIDE DEF t
      <3> QED
        BY <1>12, <2>1
    <2>3. data[t + p] = message[(Len(message) - Len(data)) + (t + p)]
      <3> HIDE DEF t
      <3> QED
        BY <1>4, <2>1
    <2> HIDE DEF t
    <2> QED
      BY <2>1, <2>2, <2>3
  <1>15. Len(data') > 0
    <2> HIDE DEF t
    <2> QED
      BY <1>1, <1>2, <1>12
  <1>16. CmacAt(k + 1, g)'
    <2>1. k + 1 > 0 /\ context'.multiblock /\ context'.ciphertext = g[k + 1]
      BY <1>7, <1>8, <1>9
    <2>2. \A p \in 1..context'.plaintext_index :
             context'.plaintext[p] = message'[(k + 1) * BlockSize + p]
      BY <1>8
    <2> QED
      BY <1>11, <1>13, <1>14, <1>15, <2>1, <2>2 DEF CmacAt
  <1> QED
    BY <1>16

\* The MAC of a message is the algorithm's.
LEMMA CmacMac ==
    ASSUME Types, data = <<>>, KeyedFor(context, key), NEW k \in Nat, NEW f, CmacAt(k, f)
    PROVE  Completed(context).ciphertext = CMAC(AesKey(key), message)
  <1> DEFINE x == context.plaintext_index  y == k * BlockSize  K == AesKey(key)
             B == MessageBlock(message, k + 1)  M == Mask(K, message)
             L == LastBlock(context)
  <1>1. /\ x \in 0..BlockSize /\ y \in Nat /\ Len(message) \in Nat
        /\ BlockSize \in Nat \ {0}
    BY IndexNat, BlockSizeAssumption DEF Types, IsContext
  <1>2. /\ Len(message) = y + x
        /\ k > 0 => x > 0
        /\ context.multiblock <=> k > 0
        /\ Chaining(f, k, message)
        /\ context.multiblock => context.ciphertext = f[k]
        /\ \A p \in 1..x : context.plaintext[p] = message[y + p]
    <2>1. /\ Len(message) - Len(data) = y + x
          /\ k > 0 /\ x = 0 => Len(data) > 0
          /\ context.multiblock <=> k > 0
          /\ Chaining(f, k, message)
          /\ context.multiblock => context.ciphertext = f[k]
          /\ \A p \in 1..x : context.plaintext[p] = message[y + p]
      BY DEF CmacAt
    <2>2. Len(data) = 0
      BY StrEmpty
    <2>3. Len(message) = y + x /\ (k > 0 => x > 0)
      <3> HIDE DEF x, y
      <3> QED
        BY <1>1, <2>1, <2>2
    <2> QED
      BY <2>1, <2>3
  <1>3. /\ Len(message) = Blocks(message) * BlockSize <=> x = BlockSize
        /\ CMAC(K, message) = Aes(K, XorBlocks(XorBlocks(f[k], B), M))
    <2> HIDE DEF x
    <2> QED
      BY <1>1, <1>2, CmacLast DEF Types
  <1>4. L = XorBlocks(B, M)
    <2> SUFFICES ASSUME NEW p \in Places PROVE L[p] = Xor(B[p], M[p])
      BY DEF LastBlock, XorBlocks
    <2>1. p \in 1..BlockSize
      BY DEF Places
    <2>2. M[p] = IF x = BlockSize THEN context.key1[p] ELSE context.key2[p]
      BY <1>3 DEF Mask, KeyedFor
    <2>3. B[p] = PaddedByte(message, y + p)
      <3>1. ((k + 1) - 1) * BlockSize = y
        BY <1>1
      <3> QED
        BY <3>1 DEF MessageBlock
    <2>4. L[p] = IF x = BlockSize THEN Xor(context.plaintext[p], context.key1[p])
                 ELSE IF p <= x THEN Xor(context.plaintext[p], context.key2[p])
                 ELSE IF p = x + 1 THEN Xor(Pad, context.key2[p])
                 ELSE context.key2[p]
      BY DEF LastBlock
    <2> HIDE DEF x, y, L, B, M
    <2>5. CASE p <= x
      <3>1. B[p] = message[y + p]
        BY <1>1, <1>2, <2>1, <2>3, <2>5 DEF PaddedByte
      <3>2. context.plaintext[p] = message[y + p]
        BY <1>1, <1>2, <2>1, <2>5
      <3> QED
        BY <2>2, <2>4, <2>5, <3>1, <3>2
    <2>6. CASE p = x + 1
      <3>1. B[p] = Pad /\ x # BlockSize /\ ~ (p <= x)
        BY <1>1, <1>2, <2>1, <2>3, <2>6 DEF PaddedByte
      <3> QED
        BY <2>2, <2>4, <2>6, <3>1
    <2>7. CASE p > x + 1
      <3>1. B[p] = Zero /\ x # BlockSize /\ ~ (p <= x) /\ p # x + 1
        BY <1>1, <1>2, <2>1, <2>3, <2>7 DEF PaddedByte
      <3> QED
        BY <2>2, <2>4, <3>1, XorAlgebra
    <2> QED
      BY <1>1, <2>1, <2>5, <2>6, <2>7
  <1>5. Completed(context).ciphertext
          = Aes(context.key, IF context.multiblock THEN XorBlocks(L, context.ciphertext)
                             ELSE L)
    BY CompletedLemma DEF Types
  <1>6. context.key = K
    BY DEF KeyedFor
  <1>7. B = [p \in Places |-> B[p]]
    BY DEF MessageBlock
  <1> HIDE DEF L, B, M, K, x, y
  <1>8. CASE context.multiblock
    <2>1. XorBlocks(L, context.ciphertext) = XorBlocks(XorBlocks(f[k], B), M)
      BY <1>2, <1>4, <1>8, XorBlocksAlgebra
    <2> QED
      BY <1>3, <1>5, <1>6, <1>8, <2>1 DEF K
  <1>9. CASE ~ context.multiblock
    <2>1. k = 0 /\ f[0] = ZeroBlock
      BY <1>2, <1>9 DEF Chaining
    <2>2. L = XorBlocks(XorBlocks(f[k], B), M)
      BY <1>4, <1>7, <2>1, XorBlocksAlgebra
    <2> QED
      BY <1>3, <1>5, <1>6, <1>9, <2>2 DEF K
  <1> QED
    BY <1>8, <1>9

\* A step that leaves the keys leaves the context keyed.
LEMMA KeysKept ==
    ASSUME SameKeys(context', context), key' = key, KeyedFor(context, key)
    PROVE  KeyedFor(context, key)'
  BY DEF SameKeys, KeyedFor

\* Every step leaves a context in use keyed.
LEMMA KeysHeldStep == Types /\ Flow /\ KeysHeld /\ [Next]_vars => KeysHeld'
  <1> SUFFICES ASSUME Types, Flow, KeysHeld, [Next]_vars, user' # "hkdf", Keying'
               PROVE  KeyedFor(context, key)'
    BY DEF KeysHeld
  <1>1. user # "hkdf" /\ user' = user /\ key' = key
    BY ArgsFixed
  <1>2. CASE UserHash \/ HashScratch \/ HashInfo \/ HashCounter
    <2>1. Keying
      BY <1>2 DEF UserHash, HashScratch, HashInfo, HashCounter, Flow, Keying
    <2>2. context' = context
      BY <1>2 DEF UserHash, HashScratch, HashInfo, HashCounter, Hash
    <2> QED
      BY <1>1, <2>1, <2>2 DEF KeysHeld, KeyedFor
  <1>3. CASE UserCompletes
    <2>1. Keying
      BY <1>3 DEF UserCompletes, Flow, Keying
    <2>2. CASE Complete("idle")
      <3>1. SameKeys(context', context)
        BY <1>1, <2>2, CompletedLemma DEF Complete, Types
      <3> QED
        BY <1>1, <2>1, <3>1, KeysKept DEF KeysHeld
    <2>3. CASE CompleteFails
      <3>1. context' = Chained(Last(context))
        BY <2>3 DEF CompleteFails
      <3>2. SameKeys(context', context)
        BY <3>1, LastLemma, ChainedLemma DEF Types, SameKeys
      <3> QED
        BY <1>1, <2>1, <3>2, KeysKept DEF KeysHeld
    <2> QED
      BY <1>3, <2>2, <2>3 DEF UserCompletes
  <1>4. CASE CopyBytes \/ ProcessBlock
    <2>1. pc = "hash" /\ Keying
      BY <1>4 DEF CopyBytes, ProcessBlock, Keying
    <2> DEFINE c == Filled(context, data)
    <2>2. IsContext(c) /\ SameKeys(c, context)
      BY FilledLemma DEF Types
    <2>3. context' \in {c, BlockDone(c), Chained(c)}
      BY <1>4 DEF CopyBytes, ProcessBlock
    <2> HIDE DEF c
    <2>4. SameKeys(context', context)
      BY <2>2, <2>3, BlockDoneLemma, ChainedLemma DEF SameKeys
    <2> QED
      BY <1>1, <2>1, <2>4, KeysKept DEF KeysHeld
  <1>5. CASE InitContext
    <2>1. user = "ckdf"
      BY <1>5 DEF InitContext, Flow
    <2>2. ~ Fail
      BY <1>1, <2>1 DEF Fail, Keying
    <2>3. context' = Initialised(context, key)
      BY <1>5, <2>2 DEF InitContext
    <2> QED
      BY <1>1, <2>3, InitialisedLemma DEF Types, KeyedFor
  <1>6. CASE ExpandCompletes
    BY <1>1, <1>6 DEF ExpandCompletes, Complete, CompleteFails, Fail, Flow, Keying
  <1>7. CASE Refuse \/ Finish \/ Call \/ Loop \/ Copy
    <2>1. user # "cmac"
      BY <1>7 DEF Refuse, Finish, Call, Loop, Copy, Flow
    <2>2. pc' \in {"done", "loop", "init"}
      BY <1>1, <1>7, <2>1 DEF Refuse, Finish, Return, Call, Loop, Copy, Types
    <2> QED
      BY <1>1, <2>1, <2>2 DEF Keying
  <1>8. CASE UNCHANGED vars
    <2>1. Keying /\ context' = context
      BY <1>1, <1>8 DEF vars, Keying
    <2> QED
      BY <1>1, <2>1 DEF KeysHeld, KeyedFor
  <1> QED
    BY <1>2, <1>3, <1>4, <1>5, <1>6, <1>7, <1>8 DEF Next, Expand

\* The same after a step.
LEMMA CmacFreshNext ==
    ASSUME context'.plaintext_index = 0, context'.multiblock = FALSE,
           message' = <<>>, data' = <<>>
    PROVE  \E k \in Nat : \E f : CmacAt(k, f)'
  <1> DEFINE f == [b \in {0} |-> ZeroBlock]
  <1>0. PICK g : g = f
    OBVIOUS
  <1>1. Len(message') = 0 /\ Len(data') = 0
    BY StrEmpty
  <1>2. 0 * BlockSize = 0
    BY BlockSizeAssumption
  <1>3. Chaining(g, 0, message)'
    BY <1>0, <1>1, <1>2 DEF Chaining
  <1>4. Len(message') - Len(data') = 0 * BlockSize + context'.plaintext_index
    BY <1>1, <1>2
  <1>5. ~ context'.multiblock /\ ~ (0 > 0)
    OBVIOUS
  <1>6. /\ \A p \in 1..context'.plaintext_index :
              context'.plaintext[p] = message'[0 * BlockSize + p]
        /\ \A p \in 1..Len(data') : data'[p] = message'[(Len(message') - Len(data')) + p]
    BY <1>1
  <1>7. CmacAt(0, g)'
    BY <1>3, <1>4, <1>5, <1>6 DEF CmacAt
  <1> QED
    BY <1>7

\* Every step keeps the context in step with the message.
LEMMA CmacRunningStep ==
    Types /\ Flow /\ KeysHeld /\ CmacRunning /\ [Next]_vars => CmacRunning'
  <1> SUFFICES ASSUME Types, Flow, KeysHeld, CmacRunning, [Next]_vars,
                      user' # "hkdf", ~ spoiled', Keying'
               PROVE  \E k \in Nat : \E f : CmacAt(k, f)'
    BY DEF CmacRunning
  <1>1. user # "hkdf" /\ user' = user /\ key' = key
    BY ArgsFixed
  <1>2. ~ Fail
    BY DEF Fail
  <1>3. CASE UserHash \/ HashScratch \/ HashInfo \/ HashCounter
    <2>1. pc # "hash" /\ Keying
      BY <1>3 DEF UserHash, HashScratch, HashInfo, HashCounter, Flow, Keying
    <2>2. \E bytes, next : Str(bytes) /\ Hash(bytes, next)
      <3>1. CASE UserHash
        <4>1. PICK n \in 0..(MaxMessage - Len(message)) :
                Hash([p \in 1..n |-> Byte("data", Len(message) + p)], "idle")
          BY <3>1 DEF UserHash
        <4>2. PICK bytes : /\ bytes = [p \in 1..n |-> Byte("data", Len(message) + p)]
                           /\ Hash(bytes, "idle")
          BY <4>1
        <4>3. n \in Nat /\ bytes = [p \in 1..n |-> bytes[p]]
          BY <4>2, StrFacts, KdfAssumption DEF Types
        <4> QED
          BY <4>2, <4>3, StrOf
      <3>2. CASE HashScratch
        BY <3>2, StrEmpty DEF HashScratch, Types
      <3>3. CASE HashInfo
        BY <3>3 DEF HashInfo, Types
      <3>4. CASE HashCounter
        BY <3>4, StrOne DEF HashCounter
      <3> QED
        BY <1>3, <3>1, <3>2, <3>3, <3>4
    <2>3. PICK bytes, next : Str(bytes) /\ Hash(bytes, next)
      BY <2>2
    <2>4. spoiled' = spoiled
      BY <2>3 DEF Hash
    <2>5. PICK k \in Nat : \E f : CmacAt(k, f)
      BY <1>1, <2>1, <2>4 DEF CmacRunning
    <2>6. PICK f : CmacAt(k, f)
      BY <2>5
    <2>7. CmacAt(k, f)'
      BY <1>1, <2>1, <2>3, <2>6, CmacHashStep
    <2> QED
      BY <2>7
  <1>4. CASE UserCompletes
    <2>1. pc = "idle" /\ Complete("idle") /\ data' = <<>>
      BY <1>2, <1>4 DEF UserCompletes, CompleteFails, Complete, Flow
    <2>2. context' = Completed(context) /\ message' = <<>>
      BY <1>1, <2>1 DEF Complete
    <2>3. context'.multiblock = FALSE /\ context'.plaintext_index = 0
      BY <2>2, CompletedLemma DEF Types
    <2> QED
      BY <2>1, <2>2, <2>3, CmacFreshNext
  <1>5. CASE CopyBytes
    <2>1. spoiled' = spoiled /\ Keying
      BY <1>5 DEF CopyBytes, Keying
    <2>2. PICK k \in Nat : \E f : CmacAt(k, f)
      BY <1>1, <2>1 DEF CmacRunning
    <2>3. PICK f : CmacAt(k, f)
      BY <2>2
    <2>4. CmacAt(k, f)'
      BY <1>5, <2>3, CmacCopyStep
    <2> QED
      BY <2>4
  <1>6. CASE ProcessBlock
    <2>1. /\ pc = "hash" /\ Overfull(context, data) /\ Keying
          /\ context' = BlockDone(Filled(context, data)) /\ data' = Rest(context, data)
          /\ spoiled' = spoiled /\ UNCHANGED <<key, message>>
      BY <1>1, <1>2, <1>6 DEF ProcessBlock, Keying
    <2>2. KeyedFor(context, key)
      BY <1>1, <2>1 DEF KeysHeld
    <2>3. PICK k \in Nat : \E f : CmacAt(k, f)
      BY <1>1, <2>1 DEF CmacRunning
    <2>4. PICK f : CmacAt(k, f)
      BY <2>3
    <2>5. \E g : CmacAt(k + 1, g)'
      BY <2>1, <2>2, <2>4, CmacBlockStep
    <2>6. k + 1 \in Nat
      OBVIOUS
    <2> QED
      BY <2>5, <2>6
  <1>7. CASE InitContext
    <2>1. /\ context' = Initialised(context, key) /\ message' = message /\ data' = data
          /\ message = <<>> /\ data = <<>>
      BY <1>2, <1>7 DEF InitContext, Flow
    <2>2. context'.multiblock = FALSE /\ context'.plaintext_index = 0
      BY <2>1, InitialisedLemma DEF Types
    <2> QED
      BY <2>1, <2>2, CmacFreshNext
  <1>8. CASE ExpandCompletes
    BY <1>1, <1>2, <1>8 DEF ExpandCompletes, Complete, CompleteFails, Flow, Keying
  <1>9. CASE Refuse \/ Finish \/ Call \/ Loop \/ Copy
    <2>1. user # "cmac"
      BY <1>9 DEF Refuse, Finish, Call, Loop, Copy, Flow
    <2>2. pc' \in {"done", "loop", "init"}
      BY <1>1, <1>9, <2>1 DEF Refuse, Finish, Return, Call, Loop, Copy, Types
    <2> QED
      BY <1>1, <2>1, <2>2 DEF Keying
  <1>10. CASE UNCHANGED vars
    <2>1. ~ spoiled /\ Keying
      BY <1>1, <1>10 DEF vars, args, Keying
    <2>2. PICK k \in Nat : \E f : CmacAt(k, f)
      BY <1>1, <2>1 DEF CmacRunning
    <2>3. PICK f : CmacAt(k, f)
      BY <2>2
    <2>4. CmacAt(k, f)'
      BY <1>10, <2>3 DEF vars, args, CmacAt, Chaining
    <2> QED
      BY <2>4
  <1> QED
    BY <1>3, <1>4, <1>5, <1>6, <1>7, <1>8, <1>9, <1>10 DEF Next, Expand

-----------------------------------------------------------------------------
(* Every MAC is the algorithm's.                                           *)

MacInv == Types /\ Flow /\ Progress /\ HmacRunning /\ KeysHeld /\ CmacRunning

\* The invariant of the MACs holds at first,
LEMMA MacInit == Init => MacInv
  <1> SUFFICES ASSUME Init PROVE MacInv
    OBVIOUS
  <1>1. Types /\ Flow /\ Progress
    BY TypesInit, ProgressInit
  <1>2. HmacRunning
    BY DEF Init, HmacRunning
  <1>3. CASE user = "cmac"
    <2>1. IsContext(OnStack)
      BY BlockSizeAssumption DEF IsContext, ContextFields, OnStack
    <2>2. context = Initialised(OnStack, key) /\ message = <<>> /\ data = <<>>
      BY <1>3 DEF Init
    <2>3. KeyedFor(context, key) /\ context.multiblock = FALSE
          /\ context.plaintext_index = 0
      BY <2>1, <2>2, InitialisedLemma
    <2> QED
      BY <1>1, <1>2, <2>2, <2>3, CmacFresh DEF MacInv, KeysHeld, CmacRunning
  <1>4. CASE user # "cmac"
    <2>1. pc = "call"
      BY <1>4 DEF Init
    <2> QED
      BY <1>1, <1>2, <1>4, <2>1 DEF MacInv, KeysHeld, CmacRunning, Keying
  <1> QED
    BY <1>3, <1>4

\* ... and after every step.
LEMMA MacInvStep == MacInv /\ [Next]_vars => MacInv'
  BY TypesStep, ProgressStep, HmacRunningStep, KeysHeldStep, CmacRunningStep DEF MacInv

\* A message none of whose calls failed gets the algorithm's MAC.
LEMMA CompleteIsMac ==
    ASSUME MacInv, NEW next, Complete(next), pc \in {"idle", "complete"},
           ~ spoiled, DefinedKey
    PROVE  scratch' = Mac(message)
  <1>1. CASE user = "hkdf"
    <2>1. pc = "complete"
      BY <1>1 DEF MacInv, Flow
    <2>2. scratch' = HmacOutput(hmac)
      BY <1>1 DEF Complete
    <2> QED
      BY <1>1, <2>1, <2>2, HmacMac DEF MacInv
  <1>2. CASE user # "hkdf"
    <2>1. Keying
      BY DEF Keying, MacInv, Flow
    <2>2. scratch' = Completed(context).ciphertext
      BY <1>2 DEF Complete
    <2>3. Types /\ KeyedFor(context, key) /\ data = <<>>
      BY <1>2, <2>1 DEF MacInv, KeysHeld, Flow
    <2>4. PICK k \in Nat : \E f : CmacAt(k, f)
      BY <1>2, <2>1 DEF MacInv, CmacRunning
    <2>5. PICK f : CmacAt(k, f)
      BY <2>4
    <2>6. Completed(context).ciphertext = CMAC(AesKey(key), message)
      BY <2>3, <2>5, CmacMac
    <2> QED
      BY <1>2, <2>2, <2>6 DEF Mac
  <1> QED
    BY <1>1, <1>2

\* No other step counts as a MAC.
LEMMA OnlyCompleteCounts ==
    ASSUME Types, [Next]_vars, macs' # macs
    PROVE  (pc = "idle" /\ Complete("idle")) \/ (pc = "complete" /\ Complete("copy"))
  <1>1. CASE UserHash \/ HashScratch \/ HashInfo \/ HashCounter
    <2>1. \E bytes, next : Hash(bytes, next)
      BY <1>1, Zenon DEF UserHash, HashScratch, HashInfo, HashCounter
    <2> QED
      BY <2>1 DEF Hash
  <1>2. CASE UserCompletes
    <2>1. pc = "idle" /\ (Complete("idle") \/ CompleteFails)
      BY <1>2 DEF UserCompletes
    <2>2. CompleteFails => macs' = macs
      BY DEF CompleteFails, Fail
    <2> QED
      BY <2>1, <2>2
  <1>3. CASE CopyBytes \/ ProcessBlock \/ InitContext
    BY <1>3 DEF CopyBytes, ProcessBlock, InitContext, Fail
  <1>4. CASE Refuse \/ Finish \/ Call \/ Loop \/ Copy
    BY <1>4 DEF Refuse, Finish, Return, Call, Loop, Copy
  <1>5. CASE ExpandCompletes
    BY <1>5 DEF ExpandCompletes, CompleteFails, Fail
  <1>6. CASE UNCHANGED vars
    BY <1>6 DEF vars
  <1> QED
    BY <1>1, <1>2, <1>3, <1>4, <1>5, <1>6 DEF Next, Expand

\* However a message is cut into calls, and whatever the context was used for or
\* failed in before, mitosis_cmac_complete and mitosis_hmac_complete return the RFC's
\* MAC of it.
THEOREM MacAlwaysReference == Spec => MacIsReference
  <1> DEFINE A == macs' # macs /\ ~ spoiled /\ DefinedKey => scratch' = Mac(message)
  <1>1. MacInv /\ [Next]_vars => [A]_vars
    <2> SUFFICES ASSUME MacInv, [Next]_vars, macs' # macs, ~ spoiled, DefinedKey
                 PROVE  scratch' = Mac(message)
      OBVIOUS
    <2>1. (pc = "idle" /\ Complete("idle")) \/ (pc = "complete" /\ Complete("copy"))
      BY OnlyCompleteCounts DEF MacInv
    <2> QED
      BY <2>1, CompleteIsMac
  <1> HIDE DEF A
  <1>2. Spec => [][A]_vars
    BY <1>1, MacInit, MacInvStep, PTL DEF Spec
  <1> QED
    BY <1>2 DEF MacIsReference, A

-----------------------------------------------------------------------------
(* Expand: the blocks T(1), T(2), ... exist, and the output is made of them. *)

\* The recursion that defines T(n) has a solution: no n is the first without one.
LEMMA OkmBlockIs ==
    /\ OkmBlock[0] = <<>>
    /\ \A n \in 1..CounterMod :
          OkmBlock[n] = Mac(OkmBlock[n - 1] \o info \o <<Byte("i", n)>>)
  <1> DEFINE Link(t, n) == Mac(t[n - 1] \o info \o <<Byte("i", n)>>)
             IsT(t, m) == t = [n \in 0..m |-> IF n = 0 THEN <<>> ELSE Link(t, n)]
             Bad == {m \in Nat : ~ \E t : IsT(t, m)}
  <1>1. Bad = {}
    <2>1. ASSUME Bad # {} PROVE FALSE
      <3>1. PICK m \in Bad : \A x \in Bad : m <= x
        BY <2>1, LeastOf
      <3>2. m # 0
        <4> DEFINE t == [n \in 0..0 |-> <<>>]
        <4>1. IsT(t, 0)
          OBVIOUS
        <4> QED
          BY <3>1, <4>1
      <3>3. m - 1 \in Nat /\ m - 1 \notin Bad
        BY <3>1, <3>2
      <3>4. PICK t : IsT(t, m - 1)
        BY <3>3
      <3> DEFINE u == [n \in 0..m |-> IF n < m THEN t[n] ELSE Link(t, m)]
      <3>5. ASSUME NEW n \in 0..m
            PROVE  u[n] = IF n = 0 THEN <<>> ELSE Link(u, n)
        <4>1. CASE n = 0
          BY <3>2, <3>3, <3>4, <4>1
        <4>2. CASE n # 0
          <5>1. u[n - 1] = t[n - 1]
            BY <3>3, <4>2
          <5>2. u[n] = Link(t, n)
            <6>1. CASE n = m
              BY <6>1
            <6>2. CASE n # m
              <7>1. u[n] = t[n] /\ n \in 0..(m - 1)
                BY <3>3, <6>2
              <7>2. t[n] = IF n = 0 THEN <<>> ELSE Link(t, n)
                BY <3>4, <7>1
              <7> QED
                BY <4>2, <7>1, <7>2
            <6> QED
              BY <6>1, <6>2
          <5> HIDE DEF u
          <5> QED
            BY <4>2, <5>1, <5>2
        <4> QED
          BY <4>1, <4>2
      <3>6. IsT(u, m)
        BY <3>5
      <3> QED
        BY <3>1, <3>6
    <2> QED
      BY <2>1
  <1>2. \E t : IsT(t, CounterMod)
    BY <1>1, KdfAssumption
  <1>3. OkmBlock = CHOOSE t : IsT(t, CounterMod)
    BY DEF OkmBlock
  <1>4. IsT(OkmBlock, CounterMod)
    BY <1>2, <1>3
  <1>5. CounterMod \in Nat
    BY KdfAssumption
  <1> QED
    BY <1>4, <1>5

\* The blocks depend on the arguments alone.
LEMMA OkmBlockFixed == UNCHANGED <<user, key, info>> => OkmBlock' = OkmBlock
  BY DEF OkmBlock, Mac

\* Where it will be when mitosis_cmac_hash has returned.
Phase == IF pc = "hash" THEN after ELSE pc

OkmRight ==
    \A p \in 1..Len(okm) :
        okm[p] = OkmBlock[((p - 1) \div BlockSize) + 1][((p - 1) % BlockSize) + 1]

\* In iteration i: the message is as much of T(i - 1), info and i as has been hashed,
\* and the output is made of the blocks before.
Deriving ==
    user # "cmac" /\ DefinedKey =>
        /\ Phase = "info" => message = OkmBlock[i - 1]
        /\ Phase = "counter" => message = OkmBlock[i - 1] \o info
        /\ Phase = "complete" => message = OkmBlock[i - 1] \o info \o <<Byte("i", i)>>
        /\ pc = "copy" => scratch = OkmBlock[i]
        /\ pc \in {"loop", "init", "scratch"} /\ i \in 2..iterations =>
              scratch = OkmBlock[i - 1]
        /\ OkmRight

\* Nothing has been derived at first.
LEMMA DerivingInit == Init => Deriving
  <1> SUFFICES ASSUME Init, user # "cmac" PROVE Deriving
    BY DEF Deriving
  <1>1. pc = "call" /\ okm = <<>>
    BY DEF Init
  <1>2. OkmRight
    BY <1>1, StrEmpty DEF OkmRight
  <1> QED
    BY <1>1, <1>2 DEF Deriving, Phase

\* Where a call of hash leads.
LEMMA HashPhase ==
    ASSUME Types, Flow, NEW bytes, NEW next \in Afters, Hash(bytes, next)
    PROVE  /\ Phase' = next /\ message' = message \o bytes
           /\ pc' \notin {"loop", "init", "scratch", "copy"}
           /\ UNCHANGED <<i, iterations, okm, scratch>>
  BY DEF Hash, Phase, Afters, loop

\* The copy adds the block T(i) behind the blocks before it.
LEMMA CopyRight ==
    ASSUME Types, Progress, Deriving, Copy, user # "cmac", DefinedKey,
           OkmBlock' = OkmBlock
    PROVE  OkmRight'
  <1> DEFINE n == IF left <= BlockSize THEN left ELSE BlockSize
             o == okm_len - left
             y == (i - 1) * BlockSize
  <1>1. /\ Working(i) /\ scratch = OkmBlock[i] /\ OkmRight
    BY DEF Copy, Progress, Deriving
  <1>2. /\ okm_len \in Nat /\ BlockSize \in Nat \ {0} /\ left \in 0..okm_len
        /\ i \in Nat \ {0} /\ left = okm_len - y /\ Len(okm) = o /\ y \in Nat
    <2>1. /\ i \in 1..iterations /\ left = okm_len - y /\ Len(okm) = okm_len - left
      BY <1>1 DEF Working
    <2>2. i \in Nat \ {0} /\ okm_len \in Nat /\ BlockSize \in Nat \ {0} /\ left \in 0..okm_len
      BY <2>1, BlockSizeAssumption DEF Types
    <2>3. y \in Nat
      BY <2>2
    <2> QED
      BY <2>1, <2>2, <2>3
  <1>3. o = y /\ n \in 0..BlockSize
    <2> HIDE DEF y
    <2> QED
      BY <1>2
  <1>4. /\ Len(okm') = o + n
        /\ \A p \in 1..o : okm'[p] = okm[p]
        /\ \A p \in (o + 1)..(o + n) : okm'[p] = scratch[p - o]
    BY CopyOkm
  <1> SUFFICES ASSUME NEW p \in 1..Len(okm')
               PROVE  okm'[p] = OkmBlock[((p - 1) \div BlockSize) + 1]
                                        [((p - 1) % BlockSize) + 1]
    BY DEF OkmRight
  <1> HIDE DEF n, o, y
  <1>5. o \in Nat /\ p \in 1..(o + n) /\ n \in Nat
    BY <1>2, <1>3, <1>4
  <1>6. CASE p <= o
    <2>1. p \in 1..o /\ p \in 1..Len(okm)
      BY <1>2, <1>5, <1>6
    <2> QED
      BY <1>1, <1>4, <2>1 DEF OkmRight
  <1>7. CASE p > o
    <2>1. p \in (o + 1)..(o + n) /\ p - o \in 1..BlockSize /\ p - o - 1 \in 0..(BlockSize - 1)
      BY <1>2, <1>3, <1>5, <1>7
    <2>2. okm'[p] = OkmBlock[i][p - o]
      BY <1>1, <1>4, <2>1
    <2>3. p - 1 = (i - 1) * BlockSize + (p - o - 1)
      BY <1>2, <1>3, <1>5 DEF y
    <2>4. (p - 1) \div BlockSize = i - 1 /\ (p - 1) % BlockSize = p - o - 1
      <3> DEFINE q == i - 1  r == p - o - 1
      <3>1. q \in Nat /\ r \in 0..(BlockSize - 1) /\ BlockSize \in Nat \ {0}
        BY <1>2, <2>1
      <3>2. p - 1 = q * BlockSize + r
        BY <2>3
      <3> HIDE DEF q, r
      <3>3. (q * BlockSize + r) \div BlockSize = q /\ (q * BlockSize + r) % BlockSize = r
        BY <3>1, DivIs
      <3>4. (p - 1) \div BlockSize = q /\ (p - 1) % BlockSize = r
        BY <3>2, <3>3
      <3> QED
        BY <3>4 DEF q, r
    <2>5. (i - 1) + 1 = i /\ (p - o - 1) + 1 = p - o
      BY <1>2, <1>5
    <2> QED
      BY <2>2, <2>4, <2>5
  <1> QED
    BY <1>5, <1>6, <1>7

\* Every step keeps the derivation right.
LEMMA DerivingStep == MacInv /\ Deriving /\ [Next]_vars => Deriving'
  <1> SUFFICES ASSUME MacInv, Deriving, [Next]_vars, user' # "cmac", DefinedKey'
               PROVE  Deriving'
    BY DEF Deriving
  <1>1. user # "cmac" /\ DefinedKey /\ UNCHANGED <<user, key, info, okm_len>>
    BY ArgsFixed DEF DefinedKey
  <1>2. OkmBlock' = OkmBlock
    BY <1>1, OkmBlockFixed
  <1>3. Types /\ Flow /\ Progress
    BY DEF MacInv
  <1>4. OkmRight /\ (okm' = okm => OkmRight')
    BY <1>1, <1>2 DEF Deriving, OkmRight
  <1>5. CASE UserHash \/ UserCompletes
    BY <1>1, <1>3, <1>5 DEF UserHash, UserCompletes, Flow
  <1>6. CASE CopyBytes \/ ProcessBlock
    <2>1. pc = "hash"
      BY <1>6 DEF CopyBytes, ProcessBlock
    <2>2. after \in {"info", "counter", "complete"}
      BY <1>1, <1>3, <2>1 DEF Flow, Types, Afters
    <2>3. CASE Fail
      BY <1>1, <1>4, <2>3 DEF Fail, loop, Deriving, Phase
    <2>4. CASE ~ Fail
      <3>1. /\ pc' \in {pc, after} /\ Phase' = Phase
            /\ UNCHANGED <<message, i, iterations, okm, scratch, info>>
        BY <1>1, <1>6, <2>1, <2>2, <2>4 DEF CopyBytes, ProcessBlock, loop, Phase
      <3> QED
        BY <1>1, <1>2, <1>4, <2>1, <2>2, <3>1 DEF Deriving
    <2> QED
      BY <2>3, <2>4
  <1>7. CASE Refuse \/ Finish
    <2>1. pc' = "done" /\ okm' = okm
      BY <1>7 DEF Refuse, Finish, Return
    <2> QED
      BY <1>4, <2>1 DEF Deriving, Phase
  <1>8. CASE Call
    <2>1. pc' = "loop" /\ okm' = okm /\ i' = 1
      BY <1>1, <1>3, <1>8 DEF Call, Progress
    <2> QED
      BY <1>4, <2>1 DEF Deriving, Phase
  <1>9. CASE Loop
    <2>1. pc = "loop" /\ pc' \in {"init", "scratch"}
          /\ UNCHANGED <<i, iterations, okm, scratch>>
      BY <1>9 DEF Loop, loop
    <2> QED
      BY <1>1, <1>2, <1>4, <2>1 DEF Deriving, Phase
  <1>10. CASE InitContext
    <2>1. CASE Fail
      BY <1>1, <1>4, <2>1 DEF Fail, loop, Deriving, Phase
    <2>2. CASE ~ Fail
      <3>1. pc = "init" /\ pc' = "scratch" /\ UNCHANGED <<i, iterations, okm, scratch>>
        BY <1>10, <2>2 DEF InitContext, loop
      <3> QED
        BY <1>1, <1>2, <1>4, <3>1 DEF Deriving, Phase
    <2> QED
      BY <2>1, <2>2
  <1>11. CASE HashScratch
    <2>1. PICK bytes : bytes = (IF i > 1 THEN scratch ELSE <<>>) /\ Hash(bytes, "info")
      BY <1>11 DEF HashScratch
    <2>2. pc = "scratch" /\ message = <<>> /\ Working(i - 1) /\ Str(bytes)
      BY <1>1, <1>3, <1>11, <2>1, StrEmpty DEF HashScratch, Flow, Progress, Body, Types
    <2>3. "info" \in Afters
      BY DEF Afters
    <2>4. /\ Phase' = "info" /\ message' = message \o bytes
          /\ pc' \notin {"loop", "init", "scratch", "copy"}
          /\ UNCHANGED <<i, iterations, okm, scratch>>
      BY <1>3, <2>1, <2>3, HashPhase
    <2>5. message' = bytes
      BY <2>2, <2>4, StrUnit
    <2>6. bytes = OkmBlock[i - 1]
      <3>1. CASE i > 1
        <4>1. i \in 2..iterations
          BY <1>3, <2>2, <3>1 DEF Working, Types
        <4> QED
          BY <1>1, <2>1, <2>2, <3>1, <4>1 DEF Deriving
      <3>2. CASE ~ (i > 1)
        <4>1. i = 1
          BY <1>3, <2>2, <3>2 DEF Working, Types
        <4>2. bytes = <<>> /\ i - 1 = 0
          BY <2>1, <4>1
        <4> QED
          BY <4>2, OkmBlockIs
      <3> QED
        BY <3>1, <3>2
    <2> QED
      BY <1>2, <1>4, <2>4, <2>5, <2>6 DEF Deriving
  <1>12. CASE HashInfo
    <2>1. PICK bytes : bytes = info /\ Hash(bytes, "counter")
      BY <1>12 DEF HashInfo
    <2>2. pc = "info" /\ Phase = "info"
      BY <1>12 DEF HashInfo, Phase
    <2>3. "counter" \in Afters
      BY DEF Afters
    <2>4. /\ Phase' = "counter" /\ message' = message \o bytes
          /\ pc' \notin {"loop", "init", "scratch", "copy"}
          /\ UNCHANGED <<i, iterations, okm, scratch>>
      BY <1>3, <2>1, <2>3, HashPhase
    <2>5. message = OkmBlock[i - 1]
      BY <1>1, <2>2 DEF Deriving
    <2> QED
      BY <1>1, <1>2, <1>4, <2>1, <2>4, <2>5 DEF Deriving
  <1>13. CASE HashCounter
    <2>1. PICK bytes : bytes = <<Byte("i", i)>> /\ Hash(bytes, "complete")
      BY <1>13 DEF HashCounter
    <2>2. pc = "counter" /\ Phase = "counter"
      BY <1>13 DEF HashCounter, Phase
    <2>3. "complete" \in Afters
      BY DEF Afters
    <2>4. /\ Phase' = "complete" /\ message' = message \o bytes
          /\ pc' \notin {"loop", "init", "scratch", "copy"}
          /\ UNCHANGED <<i, iterations, okm, scratch>>
      BY <1>3, <2>1, <2>3, HashPhase
    <2>5. message = OkmBlock[i - 1] \o info
      BY <1>1, <2>2 DEF Deriving
    <2> QED
      BY <1>1, <1>2, <1>4, <2>1, <2>4, <2>5 DEF Deriving
  <1>14. CASE ExpandCompletes
    <2>1. CASE Fail
      BY <1>1, <1>4, <2>1 DEF Fail, loop, Deriving, Phase
    <2>2. CASE ~ Fail
      <3>1. pc = "complete" /\ Complete("copy") /\ Phase = "complete"
        BY <1>14, <2>2 DEF ExpandCompletes, CompleteFails, Phase
      <3>2. pc' = "copy" /\ UNCHANGED <<i, iterations, okm>>
        BY <3>1 DEF Complete, loop
      <3>3. ~ spoiled /\ Working(i - 1)
        BY <1>1, <1>3, <3>1 DEF Progress, Body
      <3>4. scratch' = Mac(message)
        BY <1>1, <3>1, <3>3, CompleteIsMac
      <3>5. message = OkmBlock[i - 1] \o info \o <<Byte("i", i)>>
        BY <1>1, <3>1 DEF Deriving
      <3>6. i \in 1..CounterMod
        BY <1>3, <3>3, KdfAssumption DEF Working, Types
      <3>7. scratch' = OkmBlock[i]
        BY <3>4, <3>5, <3>6, OkmBlockIs
      <3> QED
        BY <1>2, <1>4, <3>2, <3>7 DEF Deriving, Phase
    <2> QED
      BY <2>1, <2>2
  <1>15. CASE Copy
    <2>1. pc = "copy" /\ pc' = "loop" /\ i' = (i + 1) % CounterMod
          /\ UNCHANGED <<iterations, scratch>>
      BY <1>15 DEF Copy
    <2>2. OkmRight'
      BY <1>1, <1>2, <1>3, <1>15, CopyRight
    <2>3. scratch = OkmBlock[i]
      BY <1>1, <2>1 DEF Deriving
    <2>4. i' \in 2..iterations' => i' - 1 = i
      <3>1. Working(i)
        BY <1>1, <1>3, <2>1 DEF Progress
      <3>2. i \in 1..iterations /\ iterations \in 0..(CounterMod - 1)
            /\ CounterMod \in Nat \ {0}
        BY <1>3, <3>1, KdfAssumption DEF Working, Types
      <3>3. CASE i + 1 = CounterMod
        <4>1. i' = 0
          BY <2>1, <3>2, <3>3
        <4> QED
          BY <4>1
      <3>4. CASE i + 1 # CounterMod
        <4>1. i' = i + 1
          BY <2>1, <3>2, <3>4
        <4> QED
          BY <4>1, <3>2
      <3> QED
        BY <3>3, <3>4
    <2> QED
      BY <1>2, <2>1, <2>2, <2>3, <2>4 DEF Deriving, Phase
  <1>16. CASE UNCHANGED vars
    <2>1. /\ Phase' = Phase
          /\ UNCHANGED <<pc, message, i, iterations, okm, scratch>>
      BY <1>16 DEF vars, loop, Phase
    <2> QED
      BY <1>1, <1>2, <1>4, <2>1 DEF Deriving
  <1> QED
    BY <1>5, <1>6, <1>7, <1>8, <1>9, <1>10, <1>11, <1>12, <1>13, <1>14, <1>15, <1>16
       DEF Next, Expand

\* What mitosis_ckdf_expand and mitosis_hkdf_expand return true for is the RFC's whole
\* key material, with either MAC; they return false only for a longer one than the
\* counter allows or after a failure.
THEOREM ExpandAlwaysReference == Spec => []ExpandIsReference
  <1>1. MacInv /\ Deriving => ExpandIsReference
    <2> SUFFICES ASSUME MacInv, Deriving, pc = "done", DefinedKey
                 PROVE  /\ result => okm = OkmReference
                        /\ result <=> okm_len <= Limit /\ faults = 0
      BY DEF ExpandIsReference
    <2>1. user # "cmac"
      BY DEF MacInv, Flow
    <2>2. Outcome /\ OkmRight /\ Str(okm)
      BY <2>1 DEF MacInv, Progress, Deriving, Types
    <2>3. ASSUME result PROVE okm = OkmReference
      <3>1. Len(okm) = okm_len
        BY <2>2, <2>3 DEF Outcome
      <3>2. okm = [p \in 1..okm_len |-> okm[p]]
        BY <2>2, <3>1, StrFacts
      <3> QED
        BY <2>2, <3>1, <3>2 DEF OkmRight, OkmReference
    <2> QED
      BY <2>2, <2>3 DEF Outcome
  <1>2. Init => MacInv /\ Deriving
    BY MacInit, DerivingInit
  <1>3. MacInv /\ Deriving /\ [Next]_vars => (MacInv /\ Deriving)'
    BY MacInvStep, DerivingStep
  <1> QED
    BY <1>1, <1>2, <1>3, PTL DEF Spec
=============================================================================
