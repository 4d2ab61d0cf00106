-------------------------------- MODULE Cmac --------------------------------
(***************************************************************************)
(* The CMAC and HMAC contexts of mitosis-cmac.c and mitosis-hmac.c, and    *)
(* the algorithms they implement (RFC 4493, RFC 2104).                     *)
(*                                                                         *)
(* A byte is the set of the independent terms whose exclusive or it is, so *)
(* a zero byte is {} and two bytes are added by symmetric difference.  The *)
(* outputs of AES and SHA-256 are terms named by the whole input.  Blocks  *)
(* are sequences: place i + 1 is the code's index i.                       *)
(***************************************************************************)
EXTENDS Integers, Sequences, FiniteSetsExt

CONSTANTS
    BlockSize,      \* AES_BLOCK_SIZE (16), and the size of a MAC
    HashBlockSize   \* SHA256_BLOCK_SIZE (64)

ASSUME BlockSizeAssumption ==
    /\ BlockSize \in Nat \ {0, 1}
    /\ HashBlockSize \in Nat /\ HashBlockSize >= BlockSize

Term(kind, key, in, at) == [kind |-> kind, key |-> key, in |-> in, at |-> at]
Byte(kind, at) == {Term(kind, <<>>, <<>>, at)}
Zero == {}
Xor(a, b) == (a \ b) \cup (b \ a)
Pad == Byte("0x80", 0)

Places == 1..BlockSize
XorBlocks(a, b) == [i \in Places |-> Xor(a[i], b[i])]
ZeroBlock == [i \in Places |-> Zero]
Aes(key, block) == [i \in Places |-> {Term("aes", key, block, i)}]
\* Shifts of Aes(key, ZeroBlock), reduced: they are taken for blocks of their own.
Key1(key) == [i \in Places |-> {Term("K1", key, <<>>, i)}]
Key2(key) == [i \in Places |-> {Term("K2", key, <<>>, i)}]

-----------------------------------------------------------------------------
(* The CMAC context.                                                       *)

\* A short key is padded with zeroes on the left, a long one truncated.
AesKey(key) ==
    IF Len(key) < BlockSize
    THEN [i \in Places |-> IF i <= BlockSize - Len(key) THEN Zero
                           ELSE key[i - (BlockSize - Len(key))]]
    ELSE SubSeq(key, 1, BlockSize)

\* mitosis_cmac_init: the subkeys take AES, the other fields are set before.
Keyed(c, key) ==
    [c EXCEPT !.key = AesKey(key), !.plaintext = ZeroBlock,
              !.multiblock = FALSE, !.plaintext_index = 0]
Initialised(c, key) ==
    [Keyed(c, key) EXCEPT !.key1 = Key1(AesKey(key)), !.key2 = Key2(AesKey(key)),
                          !.ciphertext = Aes(AesKey(key), ZeroBlock)]

\* One round of the loop of mitosis_cmac_hash: as much data as the block takes, and
\* the block is processed only when there is more.
TakenFromStart(c, data) == Min({BlockSize, Len(data)})  \* mutant: no space is used yet
Taken(c, data) == Min({BlockSize - c.plaintext_index, Len(data)})
Filled(c, data) ==
    [c EXCEPT !.plaintext = [i \in Places |->
                  IF i \in (c.plaintext_index + 1)..(c.plaintext_index + Taken(c, data))
                  THEN data[i - c.plaintext_index] ELSE @[i]],
              !.plaintext_index = @ + Taken(c, data)]
Rest(c, data) == SubSeq(data, Taken(c, data) + 1, Len(data))

Overfull(c, data) == c.plaintext_index + Len(data) > BlockSize

Chained(c) ==
    IF c.multiblock
    THEN [c EXCEPT !.plaintext = XorBlocks(@, c.ciphertext)]
    ELSE c
Encrypted(c) == [c EXCEPT !.ciphertext = Aes(c.key, c.plaintext)]
BlockDone(c) == [Encrypted(Chained(c)) EXCEPT !.multiblock = TRUE, !.plaintext_index = 0]

\* mitosis_cmac_complete.
Last(c) ==
    [c EXCEPT !.plaintext = [i \in Places |->
        IF c.plaintext_index = BlockSize THEN Xor(@[i], c.key1[i])
        ELSE IF i <= c.plaintext_index THEN Xor(@[i], c.key2[i])
        ELSE IF i = c.plaintext_index + 1 THEN Xor(Pad, c.key2[i])
        ELSE c.key2[i]]]
NotReset(c) == c                            \* mutant: the next message chains on
Reset(c) == [c EXCEPT !.multiblock = FALSE, !.plaintext_index = 0]
Completed(c) == Reset(Encrypted(Chained(Last(c))))

\* RFC 4493, 2.4: the message in blocks, the last one padded and masked.
Blocks(m) == IF m = <<>> THEN 1 ELSE (Len(m) + BlockSize - 1) \div BlockSize
PaddedByte(m, at) == IF at <= Len(m) THEN m[at] ELSE IF at = Len(m) + 1 THEN Pad ELSE Zero
MessageBlock(m, b) == [i \in Places |-> PaddedByte(m, (b - 1) * BlockSize + i)]
Mask(key, m) == IF Len(m) = Blocks(m) * BlockSize THEN Key1(key) ELSE Key2(key)
Round(key, m, c, b) ==
    LET x == XorBlocks(c, MessageBlock(m, b))
    IN Aes(key, IF b = Blocks(m) THEN XorBlocks(x, Mask(key, m)) ELSE x)
CMAC(key, m) ==
    LET C[b \in 0..Blocks(m)] == IF b = 0 THEN ZeroBlock ELSE Round(key, m, C[b - 1], b)
    IN C[Blocks(m)]

-----------------------------------------------------------------------------
(* The HMAC context: what SHA-256 has been given, the padded key, and the  *)
(* flag that the hash must be started again.                               *)

Sha256(bytes) == [i \in Places |-> {Term("sha", <<>>, bytes, i)}]
Inner(key) == <<{Term("ipad", key, <<>>, 0)}>>
Outer(key) == <<{Term("opad", key, <<>>, 0)}>>
Finished == <<Byte("sha256_final", 0)>>     \* what a finished hash goes on from

\* A long key is hashed, but the digest is read after its array has gone out of
\* scope: it may be overwritten.
Overwritten == [i \in Places |-> Byte("stack", i)]
HmacKeys(key) ==
    IF Len(key) > HashBlockSize THEN {Sha256(key), Overwritten} ELSE {key}

\* mitosis_hmac_init leaves need_reset as it finds it.
HmacKeyed(s, key) == [s EXCEPT !.key = key, !.sha256 = Inner(key)]

HmacHashed(s, data) ==
    [s EXCEPT !.sha256 = (IF s.need_reset THEN Inner(s.key) ELSE @) \o data,
              !.need_reset = FALSE]

ResetForgotten(s) == [s EXCEPT !.sha256 = Finished]     \* mutant
HmacFinished(s) == [s EXCEPT !.sha256 = Finished, !.need_reset = TRUE]
HmacOutput(s) == Sha256(Outer(s.key) \o Sha256(s.sha256))

\* RFC 2104, 2.
HMAC(key, m) ==
    LET k == IF Len(key) > HashBlockSize THEN Sha256(key) ELSE key
    IN Sha256(Outer(k) \o Sha256(Inner(k) \o m))
=============================================================================
