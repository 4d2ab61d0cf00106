------------------------- MODULE AesUnitProperties -------------------------
(***************************************************************************)
(* What a caller of the AES driver of module AesUnit can rely on.          *)
(***************************************************************************)
EXTENDS AesUnit

\* The type of every variable of AesUnit; the lock is held while main level, or on
\* the receiver anyone, is inside.
TypeOK ==
    /\ device \in {"receiver", "half"}
    /\ locked \in BOOLEAN
    /\ ECBDATAPTR \in Contexts \cup {None}
    /\ running \in [on: Contexts, intact: BOOLEAN] \cup {Nothing}
    /\ ENDECB \in BOOLEAN /\ ERRORECB \in BOOLEAN
    /\ pc \in [Levels -> {"idle", "inside"} \cup Calling]
    /\ state \in [Levels -> Contexts]
    /\ wait_counter \in [Levels -> 0..MaxWait]
    /\ fresh \in [Contexts -> BOOLEAN]
    /\ late \in [Levels -> BOOLEAN] /\ nested \in [Levels -> BOOLEAN]
    /\ locked <=> \E l \in Levels : pc[l] # "idle" /\ (l = "main" \/ device = "receiver")

\* A call that returns true has left the caller's own ciphertext: no stale event of an
\* earlier call, no other context's block, no error.  Two cases are excepted: on a
\* half a callback may use the unit in the middle of main level's call, and anywhere
\* a unit that outlived an earlier call's wait may end between this call's clearing
\* of the events and its start.
OwnCiphertext ==
    [][\A l \in Levels :
          Finish(l, TRUE) /\ ~ late[l] /\ (nested[l] => device = "receiver")
              => fresh[state[l]]]_vars

-----------------------------------------------------------------------------
\* The processor runs: the callback first, main level whenever no callback does, and
\* a callback uses the unit a limited number of times.  The unit promises nothing.
Fairness ==
    /\ WF_vars(Encrypt("callback"))
    /\ SF_vars(Leave("callback"))
    /\ SF_vars(Encrypt("main"))

FairSpec == Spec /\ Fairness

\* Every call returns, whether or not the unit answers and whoever cleared its
\* events.
CallsReturn == \A l \in Levels : pc[l] \in Calling ~> pc[l] \notin Calling
=============================================================================
