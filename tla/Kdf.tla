-------------------------------- MODULE Kdf --------------------------------
(***************************************************************************)
(* Key derivation, and the CMAC under it, call by call: a user of one CMAC *)
(* context who hashes messages in chunks (send_data, the receiver's        *)
(* callback and main loop, mitosis_ckdf_extract), mitosis_ckdf_expand and  *)
(* mitosis_hkdf_expand.  Any AES operation may fail.                       *)
(***************************************************************************)
EXTENDS Cmac

CONSTANTS
    CounterMod,     \* the block counter is kept modulo this number (256)
    OkmLens,        \* lengths of output key material asked for
    InfoLens,       \* lengths of the info string
    MaxMessage,     \* bound: bytes of a message of the CMAC user
    MaxMacs,        \* bound: MACs the user computes
    MaxFault        \* bound: AES operations that fail

ASSUME KdfAssumption ==
    /\ CounterMod \in Nat \ {0, 1}
    /\ OkmLens \subseteq Nat /\ InfoLens \subseteq Nat
    /\ {MaxMessage, MaxMacs, MaxFault} \subseteq Nat

VARIABLES
    user,           \* "cmac", "ckdf" or "hkdf"
    key,            \* the key or prk it was given
    info, okm_len,  \* arguments of expand
    pc, after,      \* where it is; where it goes on when mitosis_cmac_hash returns
    context,        \* mitosis_cmac_context_t
    hmac,           \* mitosis_hmac_context_t
    data,           \* what mitosis_cmac_hash still has to take
    i, iterations,  \* of the loop of expand
    left,           \* what expand still has to produce (okm_len there)
    scratch,        \* the last MAC
    okm,
    result,         \* of expand
    \* Ghosts.
    message,        \* bytes hashed since the last MAC
    spoiled,        \* a call has failed since the last MAC
    macs, faults

args == <<user, key, info, okm_len>>
loop == <<i, iterations, left, okm, result>>
vars == <<args, pc, after, context, hmac, data, loop, scratch, message, spoiled,
          macs, faults>>

Bytes(kind, n) == [k \in 1..n |-> Byte(kind, k)]

Keys == {Bytes("key", BlockSize - 1), Bytes("key", BlockSize), Bytes("key", BlockSize + 1)}
Prks == {Bytes("prk", BlockSize), Bytes("prk", HashBlockSize + 1)}

Stack == [k \in Places |-> Byte("stack", k)]        \* what a local holds at first
OnStack ==
    [key |-> Stack, key1 |-> Stack, key2 |-> Stack, plaintext |-> Stack,
     ciphertext |-> Stack, multiblock |-> FALSE, plaintext_index |-> 0]

Init ==
    /\ \/ /\ user = "cmac"
          /\ key \in Keys
          /\ context = Initialised(OnStack, key)
          /\ hmac = [key |-> Stack, sha256 |-> <<>>, need_reset |-> FALSE]
          /\ info = <<>> /\ okm_len = 0
          /\ pc = "idle"
       \/ /\ user \in {"ckdf", "hkdf"}
          /\ key \in Prks
          /\ info \in {Bytes("info", n) : n \in InfoLens}
          /\ okm_len \in OkmLens
          /\ context = OnStack
          /\ hmac \in [key : {Stack}, sha256 : {<<>>}, need_reset : BOOLEAN]
          /\ pc = "call"
    /\ after = "idle" /\ data = <<>>
    /\ i = 1 /\ iterations = 0 /\ left = okm_len
    /\ scratch = Stack /\ okm = <<>> /\ result = FALSE
    /\ message = <<>> /\ spoiled = FALSE /\ macs = 0 /\ faults = 0

\* A call fails: the user may call again on the same context, expand returns false.
Fail ==
    /\ faults < MaxFault
    /\ faults' = faults + 1
    /\ spoiled' = TRUE
    /\ message' = <<>>
    /\ data' = <<>>
    /\ pc' = IF user = "cmac" THEN "idle" ELSE "done"
    /\ UNCHANGED <<args, after, hmac, loop, scratch, macs>>

-----------------------------------------------------------------------------
(* The CMAC and HMAC calls.                                                *)

\* Hash bytes, then go on at next.
Hash(bytes, next) ==
    /\ message' = message \o bytes
    /\ IF user = "hkdf"
       THEN /\ hmac' = HmacHashed(hmac, bytes)
            /\ pc' = next
            /\ UNCHANGED <<data, after>>
       ELSE /\ data' = bytes
            /\ pc' = "hash"
            /\ after' = next
            /\ UNCHANGED hmac
    /\ UNCHANGED <<args, context, loop, scratch, spoiled, macs, faults>>

CopyBytes ==
    /\ pc = "hash"
    /\ ~ Overfull(context, data)
    /\ context' = Filled(context, data)
    /\ data' = <<>>
    /\ pc' = after
    /\ UNCHANGED <<args, after, hmac, loop, scratch, message, spoiled, macs, faults>>

ProcessBlock ==
    /\ pc = "hash"
    /\ Overfull(context, data)
    /\ LET c == Filled(context, data) IN
       \/ /\ context' = BlockDone(c)
          /\ data' = Rest(context, data)
          /\ pc' = IF data' = <<>> THEN after ELSE pc
          /\ UNCHANGED <<args, after, hmac, loop, scratch, message, spoiled, macs, faults>>
       \/ context' = Chained(c) /\ Fail

\* mitosis_cmac_complete, mitosis_hmac_complete.
Complete(next) ==
    /\ IF user = "hkdf"
       THEN /\ hmac' = HmacFinished(hmac)
            /\ scratch' = HmacOutput(hmac)
            /\ UNCHANGED context
       ELSE /\ context' = Completed(context)
            /\ scratch' = context'.ciphertext
            /\ UNCHANGED hmac
    /\ message' = <<>>
    /\ spoiled' = FALSE
    /\ macs' = macs + 1
    /\ pc' = next
    /\ UNCHANGED <<args, after, data, loop, faults>>

CompleteFails ==
    /\ user # "hkdf"
    /\ context' = Chained(Last(context))
    /\ Fail

-----------------------------------------------------------------------------
(* The user of one context.                                                *)

UserHash ==
    /\ pc = "idle"
    /\ macs < MaxMacs
    /\ \E n \in 0..(MaxMessage - Len(message)) :
          Hash([k \in 1..n |-> Byte("data", Len(message) + k)], "idle")

UserCompletes ==
    /\ pc = "idle"
    /\ macs < MaxMacs
    /\ Complete("idle") \/ CompleteFails

-----------------------------------------------------------------------------
(* mitosis_ckdf_expand and mitosis_hkdf_expand.                            *)

Limit == (CounterMod - 1) * BlockSize

Return(value) ==
    /\ pc' = "done"
    /\ result' = value
    /\ UNCHANGED <<args, after, context, hmac, data, i, iterations, left, okm, scratch,
                   message, spoiled, macs, faults>>

Refuse == pc = "call" /\ okm_len > Limit /\ Return(FALSE)

Iterations ==
    LET whole == okm_len \div BlockSize IN
    (IF okm_len % BlockSize = 0 THEN whole ELSE whole + 1) % CounterMod

\* HKDF keys its context once, before the loop.  (okm_len - left is offset.)
Call ==
    /\ pc = "call"
    /\ okm_len <= Limit
    /\ iterations' = Iterations
    /\ IF user = "hkdf"
       THEN \E k \in HmacKeys(key) : hmac' = HmacKeyed(hmac, k)
       ELSE UNCHANGED hmac
    /\ pc' = "loop"
    /\ UNCHANGED <<args, after, context, data, i, left, okm, result, scratch, message,
                   spoiled, macs, faults>>

Unguarded == i <= iterations                \* mutant: i > 0 is not tested
LoopGoesOn == i <= iterations /\ i > 0

Loop ==
    /\ pc = "loop"
    /\ LoopGoesOn
    /\ pc' = IF user = "ckdf" THEN "init" ELSE "scratch"
    /\ UNCHANGED <<args, after, context, hmac, data, loop, scratch, message, spoiled,
                   macs, faults>>

Finish == pc = "loop" /\ ~ LoopGoesOn /\ Return(TRUE)

InitContext ==
    /\ pc = "init"
    /\ \/ /\ context' = Initialised(context, key)
          /\ pc' = "scratch"
          /\ UNCHANGED <<args, after, hmac, data, loop, scratch, message, spoiled, macs,
                         faults>>
       \/ context' = Keyed(context, key) /\ Fail

HashScratch == pc = "scratch" /\ Hash(IF i > 1 THEN scratch ELSE <<>>, "info")
HashInfo == pc = "info" /\ Hash(info, "counter")
HashCounter == pc = "counter" /\ Hash(<<Byte("i", i)>>, "complete")

ExpandCompletes ==
    /\ pc = "complete"
    /\ Complete("copy") \/ CompleteFails

Copy ==
    /\ pc = "copy"
    /\ okm' = SubSeq(okm, 1, okm_len - left) \o SubSeq(scratch, 1, Min({left, BlockSize}))
    /\ left' = IF left > BlockSize THEN left - BlockSize ELSE left
    /\ i' = (i + 1) % CounterMod
    /\ pc' = "loop"
    /\ UNCHANGED <<args, after, context, hmac, data, iterations, result, scratch,
                   message, spoiled, macs, faults>>

Expand ==
    \/ Refuse \/ Call \/ Loop \/ Finish \/ InitContext
    \/ HashScratch \/ HashInfo \/ HashCounter \/ ExpandCompletes \/ Copy

Next == UserHash \/ UserCompletes \/ CopyBytes \/ ProcessBlock \/ Expand

Spec == Init /\ [][Next]_vars
=============================================================================
