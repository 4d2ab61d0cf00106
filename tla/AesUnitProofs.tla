---------------------------- MODULE AesUnitProofs ----------------------------
(***************************************************************************)
(* Proofs that callers of the AES driver get their own ciphertext, for any *)
(* contexts, any limit on the wait and any behaviour of the unit.          *)
(***************************************************************************)
EXTENDS AesUnitProperties, TLAPS

-----------------------------------------------------------------------------
(* The inductive invariant.                                                *)

\* Both levels are in the middle of something only on a half, and main level's call
\* knows of it.
Exclusion ==
    pc["callback"] # "idle" =>
        /\ device = "receiver" => pc["main"] = "idle"
        /\ pc["main"] \in Calling => nested["main"]

\* Nobody else uses the unit during this call.
Alone(l) == nested[l] => device = "receiver"

\* The block the unit works on for this call.
OwnBlock(l) == [on |-> state[l], intact |-> TRUE]

\* What a call that is alone, and found the unit idle, knows of it at each point.
UnitServes(l) ==
    /\ pc[l] = "start" => running = Nothing /\ ~ ENDECB /\ ~ ERRORECB
    /\ pc[l] = "poll" =>
           \/ ERRORECB
           \/ running = OwnBlock(l) /\ ~ ENDECB
           \/ running = Nothing /\ ENDECB /\ fresh[state[l]]
    /\ pc[l] = "finish" => ERRORECB \/ (running = Nothing /\ fresh[state[l]])

CallInv ==
    \A l \in Levels : Alone(l) =>
        /\ pc[l] \in {"clear", "start"} => ECBDATAPTR = state[l]
        /\ ~ late[l] => UnitServes(l)

\* Alone or not, the data pointer shows a context when the unit is started, and a
\* call that polls may poll once more.
Prepared(l) ==
    /\ pc[l] \in {"clear", "start"} => ECBDATAPTR \in Contexts
    /\ pc[l] \in {"clear", "start", "poll"} => wait_counter[l] # 0

PreparedInv == \A l \in Levels : Prepared(l)

Inv == TypeOK /\ PreparedInv /\ Exclusion /\ CallInv

LEMMA InvInit == Init => Inv
  <1> SUFFICES ASSUME Init PROVE Inv
    OBVIOUS
  <1> USE DEF Init
  <1>1. TypeOK
    <2>1. \A l \in Levels : pc[l] = "idle"
      OBVIOUS
    <2>2. pc \in [Levels -> {"idle", "inside"} \cup Calling]
      OBVIOUS
    <2>3. MaxWait \in 0..MaxWait
      BY AesAssumption
    <2> QED
      BY <2>1, <2>2, <2>3 DEF TypeOK
  <1>2. PreparedInv
    BY DEF PreparedInv, Prepared, Levels
  <1>3. Exclusion
    BY DEF Exclusion, Levels
  <1>4. CallInv
    BY DEF CallInv, UnitServes, Levels
  <1> QED
    BY <1>1, <1>2, <1>3, <1>4 DEF Inv

-----------------------------------------------------------------------------
(* Types, the lock, and who may be inside.                                 *)

\* The unit's own steps move no caller.
LEMMA TypeUnit == TypeOK /\ (UnitEnds \/ UnitAborts) => TypeOK'
  <1>1. ASSUME TypeOK, UnitEnds PROVE TypeOK'
    <2>1. running.on \in Contexts /\ running.intact \in BOOLEAN
      BY <1>1 DEF TypeOK, UnitEnds
    <2>2. fresh' \in [Contexts -> BOOLEAN]
      BY <1>1, <2>1 DEF TypeOK, UnitEnds
    <2> QED
      BY <1>1, <2>2 DEF TypeOK, UnitEnds, ghosts
  <1>2. ASSUME TypeOK, UnitAborts PROVE TypeOK'
    BY <1>2 DEF TypeOK, UnitAborts, ghosts
  <1> QED
    BY <1>1, <1>2

LEMMA TypeEnter ==
    ASSUME TypeOK, Exclusion, NEW l \in Levels, Enter(l) \/ Leave(l)
    PROVE  TypeOK'
  <1>1. CASE Enter(l)
    BY <1>1 DEF TypeOK, Enter, Runs, MayEnter, Goto, Levels, unit
  <1>2. CASE Leave(l)
    BY <1>2 DEF TypeOK, Exclusion, Leave, Runs, Goto, Levels, unit, ghosts, Calling
  <1> QED
    BY <1>1, <1>2

\* Inside a call the lock is not touched.
LEMMA LockLemma ==
    ASSUME TypeOK, NEW l \in Levels, pc[l] # "idle",
           NEW where \in Calling \cup {"inside"}, Goto(l, where), locked' = locked,
           device' = device
    PROVE  /\ pc' \in [Levels -> {"idle", "inside"} \cup Calling]
           /\ locked' <=> \E m \in Levels :
                              pc'[m] # "idle" /\ (m = "main" \/ device' = "receiver")
  BY DEF TypeOK, Goto, Levels, Calling

LEMMA TypeContext ==
    ASSUME TypeOK, NEW l \in Levels, InitContext(l) \/ Call(l)
    PROVE  TypeOK'
  <1>1. \A c \in Contexts : Write(c) =>
            /\ fresh' \in [Contexts -> BOOLEAN]
            /\ running' \in [on: Contexts, intact: BOOLEAN] \cup {Nothing}
    BY DEF TypeOK, Write
  <1>2. CASE InitContext(l)
    BY <1>1, <1>2 DEF TypeOK, InitContext, ghosts
  <1>3. CASE Call(l)
    <2>1. pc[l] # "idle" /\ Goto(l, "pointer") /\ "pointer" \in Calling
      BY <1>3 DEF Call, Calling
    <2> QED
      BY <1>1, <1>3, <2>1, LockLemma DEF TypeOK, Call
  <1> QED
    BY <1>2, <1>3

LEMMA TypeEncrypt ==
    ASSUME TypeOK, PreparedInv, NEW l \in Levels, Encrypt(l)
    PROVE  TypeOK'
  <1>0. Prepared(l)
    BY DEF PreparedInv
  <1> USE DEF TypeOK, Calling, unit, ghosts
  <1>1. CASE SetPointer(l)
    BY <1>1, LockLemma, AesAssumption DEF SetPointer, PointerOf
  <1>2. CASE ClearEvents(l)
    BY <1>2, LockLemma DEF ClearEvents
  <1>3. CASE Start(l)
    <2>1. running' \in [on: Contexts, intact: BOOLEAN] \cup {Nothing}
      <3>1. ECBDATAPTR \in Contexts
        BY <1>0, <1>3 DEF Start, Prepared
      <3>2. CASE running = Nothing
        <4>1. running' = [on |-> ECBDATAPTR, intact |-> TRUE]
          BY <1>3, <3>2 DEF Start
        <4> HIDE DEF TypeOK
        <4> QED
          BY <3>1, <4>1
      <3>3. CASE running # Nothing
        BY <1>3, <3>3 DEF Start
      <3> QED
        BY <3>2, <3>3
    <2> QED
      BY <1>3, <2>1, LockLemma DEF Start
  <1>4. CASE Wait(l)
    <2>1. wait_counter' \in [Levels -> 0..MaxWait]
      BY <1>0, <1>4, AesAssumption DEF Wait, Polled, Prepared
    <2> QED
      BY <1>4, <2>1, LockLemma DEF Wait
  <1>5. CASE SeeEvent(l)
    BY <1>5, LockLemma DEF SeeEvent
  <1>6. ASSUME NEW result \in BOOLEAN, Finish(l, result)
        PROVE  TypeOK'
    BY <1>6, LockLemma DEF Finish
  <1> QED
    BY <1>1, <1>2, <1>3, <1>4, <1>5, <1>6 DEF Encrypt

LEMMA TypeStep == TypeOK /\ PreparedInv /\ Exclusion /\ [Next]_vars => TypeOK'
  <1> SUFFICES ASSUME TypeOK, PreparedInv, Exclusion, [Next]_vars PROVE TypeOK'
    OBVIOUS
  <1>1. CASE UNCHANGED vars
    BY <1>1 DEF TypeOK, vars, unit, ghosts
  <1> QED
    BY <1>1, TypeUnit, TypeEnter, TypeContext, TypeEncrypt DEF Next

-----------------------------------------------------------------------------
(* What each call knows.                                                   *)

LEMMA PreparedStep == TypeOK /\ PreparedInv /\ [Next]_vars => PreparedInv'
  <1> SUFFICES ASSUME TypeOK, PreparedInv, [Next]_vars, NEW m \in Levels
               PROVE  Prepared(m)'
    BY DEF PreparedInv
  <1>0. Prepared(m)
    BY DEF PreparedInv
  <1> USE <1>0 DEF Prepared, TypeOK, unit, ghosts, Goto, Calling
  <1>1. CASE UNCHANGED vars
    BY <1>1 DEF vars
  <1>2. CASE UnitEnds \/ UnitAborts
    BY <1>2 DEF UnitEnds, UnitAborts
  <1>3. ASSUME NEW l \in Levels, Enter(l) \/ Leave(l) PROVE Prepared(m)'
    BY <1>3 DEF Enter, Leave
  <1>4. ASSUME NEW l \in Levels, InitContext(l) \/ Call(l) PROVE Prepared(m)'
    BY <1>4 DEF InitContext, Call
  <1>5. ASSUME NEW l \in Levels, SetPointer(l) PROVE Prepared(m)'
    BY <1>5, AesAssumption DEF SetPointer, PointerOf
  <1>6. ASSUME NEW l \in Levels, ClearEvents(l) \/ Start(l) \/ SeeEvent(l)
        PROVE  Prepared(m)'
    BY <1>6 DEF ClearEvents, Start, SeeEvent
  <1>7. ASSUME NEW l \in Levels, Wait(l) PROVE Prepared(m)'
    BY <1>7 DEF Wait
  <1>8. ASSUME NEW l \in Levels, NEW result \in BOOLEAN, Finish(l, result)
        PROVE  Prepared(m)'
    BY <1>8 DEF Finish
  <1> QED
    BY <1>1, <1>2, <1>3, <1>4, <1>5, <1>6, <1>7, <1>8 DEF Next, Encrypt

\* Only an entry of the callback can spoil it, and main level's steps wait for it.
LEMMA ExclusionStep == TypeOK /\ Exclusion /\ [Next]_vars => Exclusion'
  <1> SUFFICES ASSUME TypeOK, Exclusion, [Next]_vars PROVE Exclusion'
    OBVIOUS
  <1> USE DEF TypeOK, Exclusion, unit, ghosts, Goto, Levels, Calling
  <1>1. CASE UNCHANGED vars
    BY <1>1 DEF vars
  <1>2. CASE UnitEnds \/ UnitAborts
    BY <1>2 DEF UnitEnds, UnitAborts
  <1>3. ASSUME NEW l \in Levels, Enter(l) PROVE Exclusion'
    BY <1>3 DEF Enter, MayEnter, Runs
  <1>4. ASSUME NEW l \in Levels, Leave(l) PROVE Exclusion'
    BY <1>4 DEF Leave, Runs
  <1>5. ASSUME NEW l \in Levels, InitContext(l) \/ Call(l) PROVE Exclusion'
    BY <1>5 DEF InitContext, Call, Runs
  <1>6. ASSUME NEW l \in Levels, Encrypt(l) PROVE Exclusion'
    BY <1>6 DEF Encrypt, SetPointer, ClearEvents, Start, Wait, SeeEvent, Finish, Runs
  <1> QED
    BY <1>1, <1>2, <1>3, <1>4, <1>5, <1>6 DEF Next

\* A step of one level finds the other outside a call, or not alone in it.
LEMMA NoInterference ==
    ASSUME TypeOK, Exclusion, NEW l \in Levels, NEW m \in Levels, l # m,
           Enter(l) \/ Leave(l) \/ InitContext(l) \/ Call(l) \/ Encrypt(l)
    PROVE  Alone(m)' => pc'[m] \notin Calling
  <1> USE DEF TypeOK, Exclusion, Alone, Levels, Calling, Runs, Goto, unit, ghosts
  <1>1. CASE Enter(l)
    BY <1>1 DEF Enter, MayEnter
  <1>2. CASE Leave(l)
    BY <1>2 DEF Leave
  <1>3. CASE InitContext(l)
    BY <1>3 DEF InitContext
  <1>4. CASE Call(l)
    BY <1>4 DEF Call
  <1>5. CASE SetPointer(l) \/ ClearEvents(l)
    BY <1>5 DEF SetPointer, ClearEvents
  <1>6. CASE Start(l) \/ Wait(l) \/ SeeEvent(l)
    BY <1>6 DEF Start, Wait, SeeEvent
  <1>7. ASSUME NEW result \in BOOLEAN, Finish(l, result)
        PROVE  Alone(m)' => pc'[m] \notin Calling
    BY <1>7 DEF Finish
  <1> QED
    BY <1>1, <1>2, <1>3, <1>4, <1>5, <1>6, <1>7 DEF Encrypt

Knows(l) ==
    Alone(l) =>
        /\ pc[l] \in {"clear", "start"} => ECBDATAPTR = state[l]
        /\ ~ late[l] => UnitServes(l)

\* What a call knows survives the unit's steps and its own.
LEMMA KnowsUnit ==
    ASSUME TypeOK, NEW l \in Levels, Knows(l), UnitEnds \/ UnitAborts
    PROVE  Knows(l)'
  <1> USE DEF Knows, Alone, UnitServes, OwnBlock
  <1>1. OwnBlock(l).on = state[l] /\ OwnBlock(l).intact = TRUE /\ OwnBlock(l) # Nothing
    BY DEF OwnBlock, Nothing
  <1>2. CASE UnitEnds
    BY <1>1, <1>2 DEF UnitEnds, TypeOK, ghosts
  <1>3. CASE UnitAborts
    BY <1>1, <1>3 DEF UnitAborts, TypeOK, ghosts
  <1> QED
    BY <1>2, <1>3

LEMMA KnowsCaller ==
    ASSUME TypeOK, NEW l \in Levels, Knows(l),
           Enter(l) \/ Leave(l) \/ InitContext(l) \/ Call(l) \/ Encrypt(l)
    PROVE  Knows(l)'
  <1> USE DEF TypeOK, Knows, Alone, UnitServes, OwnBlock, Goto, unit, ghosts
  <1>1. CASE Enter(l) \/ Leave(l)
    BY <1>1 DEF Enter, Leave
  <1>2. CASE InitContext(l) \/ Call(l)
    BY <1>2 DEF InitContext, Call
  <1>3. CASE SetPointer(l)
    BY <1>3 DEF SetPointer, PointerOf
  <1>4. CASE ClearEvents(l)
    BY <1>4 DEF ClearEvents
  <1>5. CASE Start(l)
    BY <1>5 DEF Start
  <1>6. CASE Wait(l)
    BY <1>6 DEF Wait
  <1>7. CASE SeeEvent(l)
    BY <1>7 DEF SeeEvent
  <1>8. ASSUME NEW result \in BOOLEAN, Finish(l, result) PROVE Knows(l)'
    BY <1>8 DEF Finish
  <1> QED
    BY <1>1, <1>2, <1>3, <1>4, <1>5, <1>6, <1>7, <1>8 DEF Encrypt

LEMMA CallStep == Inv /\ [Next]_vars => CallInv'
  <1> SUFFICES ASSUME Inv, [Next]_vars, NEW m \in Levels PROVE Knows(m)'
    BY DEF CallInv, Knows
  <1> USE DEF Inv
  <1>1. Knows(m)
    BY DEF CallInv, Knows
  <1>2. CASE UNCHANGED vars
    BY <1>1, <1>2 DEF vars, unit, ghosts, Knows, Alone, UnitServes, OwnBlock
  <1>3. CASE UnitEnds \/ UnitAborts
    BY <1>1, <1>3, KnowsUnit
  <1>4. ASSUME NEW l \in Levels,
               Enter(l) \/ Leave(l) \/ InitContext(l) \/ Call(l) \/ Encrypt(l)
        PROVE  Knows(m)'
    <2>1. CASE l = m
      BY <1>1, <1>4, <2>1, KnowsCaller
    <2>2. CASE l # m
      <3>1. Alone(m)' => pc'[m] \notin Calling
        BY <1>4, <2>2, NoInterference
      <3> QED
        BY <3>1 DEF Knows, UnitServes, Calling
    <2> QED
      BY <2>1, <2>2
  <1> QED
    BY <1>2, <1>3, <1>4 DEF Next

-----------------------------------------------------------------------------
LEMMA Invariant == Spec => []Inv
  <1>1. Inv /\ [Next]_vars => Inv'
    BY TypeStep, PreparedStep, ExclusionStep, CallStep DEF Inv
  <1> QED
    BY <1>1, InvInit, PTL DEF Spec

\* The lock is held exactly while main level, or on the receiver anyone, is inside,
\* and the wait counter never runs below zero, whoever preempts whom.
THEOREM AesTypeCorrect == Spec => []TypeOK
  <1>1. Inv => TypeOK
    BY DEF Inv
  <1> QED
    BY <1>1, Invariant, PTL

\* Whatever the unit does, a call of mitosis_aes_ecb_encrypt that returns true has
\* left the ciphertext of its own context, but for the two cases of OwnCiphertext.
THEOREM CiphertextIsOwn == Spec => OwnCiphertext
  <1>1. ASSUME Inv, NEW l \in Levels, Finish(l, TRUE), ~ late[l],
               nested[l] => device = "receiver"
        PROVE  fresh[state[l]]
    BY <1>1 DEF Inv, CallInv, Alone, UnitServes, Finish
  <1>2. Inv /\ [Next]_vars =>
            [\A l \in Levels :
                Finish(l, TRUE) /\ ~ late[l] /\ (nested[l] => device = "receiver")
                    => fresh[state[l]]]_vars
    BY <1>1
  <1> QED
    BY <1>2, Invariant, PTL DEF Spec, OwnCiphertext
=============================================================================
