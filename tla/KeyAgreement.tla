---------------------------- MODULE KeyAgreement ----------------------------
(***************************************************************************)
(* What the key rotation of module Rekey promises, without radio frames,   *)
(* contexts, locks or the half's interrupted send_data.                    *)
(*                                                                         *)
(* For each half the receiver has one confirmed key id and at most one     *)
(* next key.  It prepares a next key from a seed nobody has used, makes it *)
(* ready, offers it any number of times, and leaves the confirmed key only *)
(* for that next key, and only when the half is known to hold its seed.    *)
(* The half takes up only what was offered to it.  Offers and packets may  *)
(* be lost at any time, and either side may restart.                       *)
(***************************************************************************)
EXTENDS Integers

CONSTANTS
    Halves,
    KeyIdMod,       \* key ids are 0 (the compiled-in key) .. KeyIdMod - 1
    Seeds           \* what keys are derived from; 0 is the compiled-in seed

VARIABLES
    current,        \* the id of the key the half has confirmed
    next,           \* the key prepared for the half, or None
    offered,        \* the offers on their way to the half
    held,           \* the keys of the half and of its packets on their way
    used            \* the seeds that have been drawn

vars == <<current, next, offered, held, used>>

KeyIds == 0..(KeyIdMod - 1)
Offers == [id: KeyIds, seed: Seeds]
None == [id |-> 0, seed |-> 0, ready |-> FALSE]

\* The compiled-in key is never an outcome of rotation.
Successor(id) == IF id = KeyIdMod - 1 THEN 1 ELSE id + 1

Init ==
    /\ current = [h \in Halves |-> 0]
    /\ next = [h \in Halves |-> None]
    /\ offered = [h \in Halves |-> {}]
    /\ held = [h \in Halves |-> {0}]
    /\ used = {0}

\* Between half h and the receiver nothing appears by itself; the other half is
\* not concerned.
Keep(h, offers, seeds) ==
    /\ offered' \in [Halves -> SUBSET Offers]
    /\ held' \in [Halves -> SUBSET Seeds]
    /\ offered'[h] \subseteq offers
    /\ held'[h] \subseteq seeds
    /\ \A g \in Halves \ {h} : offered'[g] = offered[g] /\ held'[g] = held[g]

Prepare(h) ==
    /\ next[h] = None
    /\ \E seed \in Seeds \ used :
          /\ used' = used \cup {seed}
          /\ next' = [next EXCEPT ![h] =
                 [id |-> Successor(current[h]), seed |-> seed, ready |-> FALSE]]
    /\ UNCHANGED <<current, offered, held>>

Publish(h) ==
    /\ next[h] # None
    /\ next' = [next EXCEPT ![h].ready = TRUE]
    /\ UNCHANGED <<current, offered, held, used>>

Offer(h) ==
    /\ next[h].ready
    /\ UNCHANGED <<current, next, used>>
    /\ Keep(h, offered[h] \cup {[id |-> next[h].id, seed |-> next[h].seed]}, held[h])

Adopt(h) ==
    /\ UNCHANGED <<current, next, used>>
    /\ \E o \in offered[h] : Keep(h, offered[h], held[h] \cup {o.seed})

Forget(h) ==
    /\ UNCHANGED <<current, next, used>>
    /\ Keep(h, offered[h], held[h])

Confirm(h) ==
    /\ next[h].ready
    /\ next[h].seed \in held[h]
    /\ current' = [current EXCEPT ![h] = next[h].id]
    /\ next' = [next EXCEPT ![h] = None]
    /\ Keep(h, offered[h], held[h])
    /\ UNCHANGED used

\* The half falls back to the compiled-in key; what it sent before may still arrive.
HalfRestart(h) ==
    /\ UNCHANGED <<current, next, used>>
    /\ Keep(h, offered[h], held[h] \cup {0})

\* The receiver falls back to it for every half.
ReceiverRestart ==
    /\ current' = [h \in Halves |-> 0]
    /\ next' = [h \in Halves |-> None]
    /\ offered' \in [Halves -> SUBSET Offers]
    /\ held' \in [Halves -> SUBSET Seeds]
    /\ \A h \in Halves : offered'[h] \subseteq offered[h] /\ held'[h] \subseteq held[h]
    /\ UNCHANGED used

Next ==
    \/ \E h \in Halves :
          \/ Prepare(h) \/ Publish(h) \/ Offer(h) \/ Adopt(h)
          \/ Forget(h) \/ Confirm(h) \/ HalfRestart(h)
    \/ ReceiverRestart

Spec == Init /\ [][Next]_vars
=============================================================================
