------------------------------- MODULE AesUnit -------------------------------
(***************************************************************************)
(* The AES unit and its driver, mitosis_aes_ecb_encrypt, called from main  *)
(* level and from a radio callback that preempts it.  The unit works on    *)
(* the block its data pointer showed when it was started; it tells its end *)
(* or an error by an event.  The driver waits for a limited time.          *)
(*                                                                         *)
(* On the receiver a caller first takes the lock decrypting, and gives up  *)
(* if it is taken; the callback of a half does not look at its lock.       *)
(***************************************************************************)
EXTENDS Naturals

CONSTANTS
    Contexts,       \* mitosis_aes_ecb_context_t: key, plaintext and ciphertext
    MaxWait         \* ENCRYPT_WAIT

ASSUME AesAssumption == Contexts # {} /\ MaxWait \in Nat \ {0}

Levels == {"main", "callback"}

VARIABLES
    device,         \* "receiver" or "half"
    locked,         \* decrypting, encrypting
    \* The unit.
    ECBDATAPTR,
    running,        \* what it works on, or Nothing
    ENDECB, ERRORECB,
    \* The callers.
    pc, state,      \* state: the argument of the call
    wait_counter,
    fresh,          \* the ciphertext is that of the context's key and plaintext
    \* Ghosts.
    late,           \* the unit was still busy when the call cleared the events
    nested          \* a callback used the unit during the call

unit == <<ECBDATAPTR, running, ENDECB, ERRORECB>>
ghosts == <<late, nested>>
vars == <<device, locked, unit, pc, state, wait_counter, fresh, ghosts>>

None == "none"
Nothing == [on |-> None, intact |-> FALSE]
Calling == {"pointer", "clear", "start", "poll", "finish"}

Init ==
    /\ device \in {"receiver", "half"}
    /\ locked = FALSE
    /\ ECBDATAPTR \in Contexts \cup {None}
    /\ running = Nothing
    /\ ENDECB = FALSE
    /\ ERRORECB = FALSE
    /\ pc = [l \in Levels |-> "idle"]
    /\ state \in [Levels -> Contexts]
    /\ wait_counter = [l \in Levels |-> MaxWait]
    /\ fresh = [c \in Contexts |-> FALSE]
    /\ late = [l \in Levels |-> FALSE]
    /\ nested = [l \in Levels |-> FALSE]

Goto(l, where) == pc' = [pc EXCEPT ![l] = where]
\* The callback runs to its end before main level goes on.
Runs(l) == l = "main" => pc["callback"] = "idle"

-----------------------------------------------------------------------------
(* The unit.                                                               *)

UnitEnds ==
    /\ running # Nothing
    /\ fresh' = [fresh EXCEPT ![running.on] = running.intact]
    /\ ENDECB' = TRUE
    /\ running' = Nothing
    /\ UNCHANGED <<device, locked, ECBDATAPTR, ERRORECB, pc, state, wait_counter, ghosts>>

\* Another user of the AES core has taken it.
UnitAborts ==
    /\ running # Nothing
    /\ ERRORECB' = TRUE
    /\ running' = Nothing
    /\ UNCHANGED <<device, locked, ECBDATAPTR, ENDECB, pc, state, wait_counter, fresh,
                   ghosts>>

-----------------------------------------------------------------------------
(* The callers.                                                            *)

LockNotTested(l) == TRUE                    \* mutant
MayEnter(l) == device = "receiver" => ~ locked

Enter(l) ==
    /\ Runs(l) /\ pc[l] = "idle"
    /\ MayEnter(l)
    /\ Goto(l, "inside")
    /\ locked' = (locked \/ l = "main" \/ device = "receiver")
    /\ nested' = [nested EXCEPT !["main"] = @ \/ (l = "callback" /\ pc["main"] \in Calling)]
    /\ UNCHANGED <<device, unit, state, wait_counter, fresh, late>>

Leave(l) ==
    /\ Runs(l) /\ pc[l] = "inside"
    /\ Goto(l, "idle")
    /\ locked' = (locked /\ l = "callback" /\ device = "half")
    /\ UNCHANGED <<device, unit, state, wait_counter, fresh, ghosts>>

\* A new key or a new plaintext is written into the context.
Write(c) ==
    /\ fresh' = [fresh EXCEPT ![c] = FALSE]
    /\ running' = IF running.on = c THEN [on |-> c, intact |-> FALSE] ELSE running

\* mitosis_aes_ecb_init
InitContext(l) ==
    /\ Runs(l) /\ pc[l] = "inside"
    /\ \E c \in Contexts : Write(c) /\ ECBDATAPTR' = c
    /\ UNCHANGED <<device, locked, ENDECB, ERRORECB, pc, state, wait_counter, ghosts>>

Call(l) ==
    /\ Runs(l) /\ pc[l] = "inside"
    /\ \E c \in Contexts : Write(c) /\ state' = [state EXCEPT ![l] = c]
    /\ nested' = [nested EXCEPT ![l] = FALSE]
    /\ Goto(l, "pointer")
    /\ UNCHANGED <<device, locked, ECBDATAPTR, ENDECB, ERRORECB, wait_counter, late>>

PointerKept(l) == ECBDATAPTR                \* mutant
PointerOf(l) == state[l]

SetPointer(l) ==
    /\ Runs(l) /\ pc[l] = "pointer"
    /\ ECBDATAPTR' = PointerOf(l)
    /\ wait_counter' = [wait_counter EXCEPT ![l] = MaxWait]
    /\ Goto(l, "clear")
    /\ UNCHANGED <<device, locked, running, ENDECB, ERRORECB, state, fresh, ghosts>>

ClearEvents(l) ==
    /\ Runs(l) /\ pc[l] = "clear"
    /\ ERRORECB' = FALSE
    /\ ENDECB' = FALSE
    /\ late' = [late EXCEPT ![l] = running # Nothing]
    /\ Goto(l, "start")
    /\ UNCHANGED <<device, locked, ECBDATAPTR, running, state, wait_counter, fresh, nested>>

\* A busy unit does not start and tells an error.
Start(l) ==
    /\ Runs(l) /\ pc[l] = "start"
    /\ IF running = Nothing
       THEN running' = [on |-> ECBDATAPTR, intact |-> TRUE] /\ UNCHANGED ERRORECB
       ELSE ERRORECB' = TRUE /\ UNCHANGED running
    /\ Goto(l, "poll")
    /\ UNCHANGED <<device, locked, ECBDATAPTR, ENDECB, state, wait_counter, fresh, ghosts>>

NotCounted(w) == w                          \* mutant: nothing limits the wait
Polled(w) == w - 1

Wait(l) ==
    /\ Runs(l) /\ pc[l] = "poll"
    /\ ~ (ENDECB \/ ERRORECB)
    /\ wait_counter' = [wait_counter EXCEPT ![l] = Polled(@)]
    /\ Goto(l, IF wait_counter'[l] = 0 THEN "inside" ELSE "poll")
    /\ UNCHANGED <<device, locked, unit, state, fresh, ghosts>>

SeeEvent(l) ==
    /\ Runs(l) /\ pc[l] = "poll"
    /\ ENDECB \/ ERRORECB
    /\ Goto(l, "finish")
    /\ UNCHANGED <<device, locked, unit, state, wait_counter, fresh, ghosts>>

\* mitosis_aes_ecb_encrypt returns whether there was no error.
Finish(l, result) ==
    /\ Runs(l) /\ pc[l] = "finish"
    /\ result = ~ ERRORECB
    /\ ENDECB' = FALSE
    /\ ERRORECB' = FALSE
    /\ Goto(l, "inside")
    /\ UNCHANGED <<device, locked, ECBDATAPTR, running, state, wait_counter, fresh, ghosts>>

Encrypt(l) ==
    \/ SetPointer(l) \/ ClearEvents(l) \/ Start(l) \/ Wait(l) \/ SeeEvent(l)
    \/ \E result \in BOOLEAN : Finish(l, result)

Next ==
    \/ UnitEnds \/ UnitAborts
    \/ \E l \in Levels : Enter(l) \/ Leave(l) \/ InitContext(l) \/ Call(l) \/ Encrypt(l)

Spec == Init /\ [][Next]_vars
=============================================================================
