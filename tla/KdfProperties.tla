--------------------------- MODULE KdfProperties ---------------------------
(***************************************************************************)
(* What the MACs and the derived keys of module Kdf are.                   *)
(***************************************************************************)
EXTENDS Kdf

Pcs == {"idle", "hash", "call", "loop", "init", "scratch", "info", "counter",
        "complete", "copy", "done"}

\* The type of every variable of Kdf: no index leaves its block and no counter its
\* field, and expand never writes past the buffer it was given.
TypeOK ==
    /\ user \in {"cmac", "ckdf", "hkdf"}
    /\ pc \in Pcs /\ after \in Pcs
    /\ context.plaintext_index \in 0..BlockSize
    /\ context.multiblock \in BOOLEAN
    /\ hmac.need_reset \in BOOLEAN
    /\ i \in 0..(CounterMod - 1)
    /\ iterations \in 0..(CounterMod - 1)
    /\ left \in 0..okm_len
    /\ Len(scratch) = BlockSize
    /\ Len(okm) <= okm_len
    /\ result \in BOOLEAN /\ spoiled \in BOOLEAN
    /\ faults \in 0..MaxFault

\* A defined outcome: HMAC keeps a pointer to a key it hashed itself.
DefinedKey == user = "hkdf" => Len(key) <= HashBlockSize

Mac(m) == IF user = "hkdf" THEN HMAC(key, m) ELSE CMAC(AesKey(key), m)

\* However a message is cut into calls and whatever the context did before, the MAC
\* of a message none of whose calls failed is the RFC's; so a failure, which leaves a
\* half-masked or half-chained block behind, spoils one MAC and not the next.
MacIsReference ==
    [][macs' # macs /\ ~ spoiled /\ DefinedKey => scratch' = Mac(message)]_vars

\* RFC 5869, 2.3, with either MAC: the key material is the first okm_len bytes of
\* T(1), T(2), ...
OkmBlock[n \in 0..CounterMod] ==
    IF n = 0 THEN <<>> ELSE Mac(OkmBlock[n - 1] \o info \o <<Byte("i", n)>>)
OkmReference ==
    [k \in 1..okm_len |-> OkmBlock[((k - 1) \div BlockSize) + 1][((k - 1) % BlockSize) + 1]]

\* What expand returns true for is the whole key material, up to the largest length
\* its counter allows; it returns false only for a longer one or after a failure.
ExpandIsReference ==
    pc = "done" /\ DefinedKey =>
        /\ result => okm = OkmReference
        /\ result <=> okm_len <= Limit /\ faults = 0

\* Expand computes one MAC for each block asked for, the last of a full-length
\* request included, where the eight-bit counter wraps: so it returns.
OneMacPerBlock == user # "cmac" => macs * BlockSize < okm_len + BlockSize
=============================================================================
