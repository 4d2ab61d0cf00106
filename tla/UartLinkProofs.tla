--------------------------- MODULE UartLinkProofs ---------------------------
(***************************************************************************)
(* Proofs of the safety properties of the link between the receiver and    *)
(* QMK, for any number of rows, any INACTIVE, any receive buffer and any   *)
(* number of lost bytes and restarts.                                      *)
(***************************************************************************)
EXTENDS UartLinkProperties, TLAPS

-----------------------------------------------------------------------------
(* The inductive invariant.                                                *)

Sending == loaded \in 1..End

\* The bytes of this scan that have arrived, read or not.
Arrived == index + Len(rxFifo)

\* Requests and answers do not overlap, and an answer has End + 1 bytes at most.
Aligned ==
    /\ polls \in {0, 1}
    /\ pc = "idle" => index = 0 /\ Len(rxFifo) = 0 /\ ~ timedOut
    /\ pc = "idle" \/ timedOut => polls = 0 /\ ~ Sending
    /\ polls = 1 => index = 0 /\ Len(rxFifo) = 0 /\ ~ Sending
    /\ Arrived <= IF Sending THEN loaded ELSE End + 1
AlignInv == spent["late"] = 0 => Aligned

\* The receiver's own count of a half's silence runs behind the true one.
SilentInv ==
    \A h \in Halves :
        /\ active[h] <= silent[h]
        /\ packet_received[h] => active[h] = 0

\* Byte i of an answer: a row of the state the half showed last, or none after a
\* silence; the last one is the end byte.
Matches(i, byte) ==
    IF i = End THEN byte = EndByte
    ELSE \/ byte = Unpack(shown[HalfOf(i)][RowOf(i)])
         \/ byte = {} /\ silent[HalfOf(i)] > INACTIVE

BufferInv == \A i \in 0..End : Matches(i, data_buffer[i])

\* Without a gap so far: what arrived is the answer's beginning.
Whole ==
    /\ \A i \in 0..(index - 1) : Matches(i, uart_data[i])
    /\ \A j \in 1..Len(rxFifo) : Matches(index + j - 1, rxFifo[j])
    /\ Sending => Arrived = loaded

\* With a gap: the end byte will not arrive at its place.
Gap == Arrived <= End /\ (Sending => Arrived < loaded)

\* The place of the end byte was filled by a read of the empty data register.
Filled == index = End + 1 /\ uart_data[End] = {}

DataInv ==
    /\ ~ StaleReads => udr = <<{}, {}>>
    /\ spent["late"] = 0 /\ (timedOut => ~ StaleReads) => Whole \/ Gap \/ Filled

Inv == TypeOK /\ AlignInv /\ SilentInv /\ BufferInv /\ DataInv

-----------------------------------------------------------------------------
(* Bytes, rows and sequences.                                              *)

LEMMA Places ==
    /\ End \in Nat /\ End >= 2 /\ RxCap \in Nat /\ RxCap >= 1 /\ INACTIVE \in Nat
    /\ \A i \in 0..(End - 1) : HalfOf(i) \in Halves /\ RowOf(i) \in Rows
  <1>1. ROWS \in Nat /\ ROWS >= 1
    BY RowsAssumption
  <1>2. ASSUME NEW i \in 0..(End - 1) PROVE HalfOf(i) \in Halves /\ RowOf(i) \in Rows
    <2>1. i \div 2 \in 0..(ROWS - 1)
      BY <1>1 DEF End
    <2> QED
      BY <2>1 DEF HalfOf, RowOf, Halves, Rows
  <1> QED
    BY <1>1, <1>2, LimitsAssumption DEF End

LEMMA UnpackType ==
    ASSUME NEW byte \in Bytes PROVE Unpack(byte) \subseteq 0..6 /\ Unpack(byte) \in Bytes
  <1>1. ASSUME NEW b \in byte \ {0} PROVE 7 - b \in 0..6 /\ 7 - b \in Bits
    BY DEF Bytes, Bits
  <1>2. Unpack(byte) \subseteq 0..6 /\ Unpack(byte) \subseteq Bits
    BY <1>1 DEF Unpack
  <1> QED
    BY <1>2 DEF Bytes

LEMMA Appended ==
    ASSUME NEW S, NEW q \in Seq(S), NEW e \in S
    PROVE  /\ Append(q, e) \in Seq(S)
           /\ Len(Append(q, e)) = Len(q) + 1
           /\ \A j \in 1..Len(q) : Append(q, e)[j] = q[j]
           /\ Append(q, e)[Len(q) + 1] = e
  OBVIOUS

LEMMA Taken ==
    ASSUME NEW S, NEW q \in Seq(S), q # <<>>
    PROVE  /\ Head(q) \in S /\ Head(q) = q[1]
           /\ Tail(q) \in Seq(S)
           /\ Len(q) \in Nat /\ Len(q) >= 1 /\ Len(Tail(q)) = Len(q) - 1
           /\ \A j \in 1..(Len(q) - 1) : Tail(q)[j] = q[j + 1]
  OBVIOUS

LEMMA NoneTaken == ASSUME NEW S, NEW q \in Seq(S) PROVE q = <<>> <=> Len(q) = 0
  OBVIOUS

\* Losing a byte leaves the budget of the late answers alone.
LEMMA SpendLost ==
    ASSUME NEW f \in Faults, Spend(f), TypeOK
    PROVE  /\ spent' \in [Faults -> Nat]
           /\ f # "late" => spent'["late"] = spent["late"]
           /\ f = "late" => spent'["late"] # 0
  BY DEF Spend, TypeOK, Faults

-----------------------------------------------------------------------------
(* Types.                                                                  *)

LEMMA CopiedType ==
    ASSUME TypeOK
    PROVE  Copied \in [0..End -> Bytes] /\ Released(Copied) \in [0..End -> Bytes]
  <1>1. ASSUME NEW i \in 0..End
        PROVE  (IF i # End /\ packet_received[HalfOf(i)]
                THEN Unpack(data_payload[HalfOf(i)][RowOf(i)]) ELSE data_buffer[i]) \in Bytes
    <2>1. CASE i # End /\ packet_received[HalfOf(i)]
      <3>1. HalfOf(i) \in Halves /\ RowOf(i) \in Rows
        BY <2>1, Places
      <3>2. data_payload[HalfOf(i)][RowOf(i)] \in Bytes
        BY <3>1 DEF TypeOK
      <3> QED
        BY <2>1, <3>2, UnpackType
    <2>2. CASE ~ (i # End /\ packet_received[HalfOf(i)])
      BY <2>2 DEF TypeOK
    <2> QED
      BY <2>1, <2>2
  <1>2. Copied \in [0..End -> Bytes]
    BY <1>1 DEF Copied
  <1>3. {} \in Bytes
    BY DEF Bytes
  <1>4. ASSUME NEW i \in 0..End
        PROVE  (IF i # End /\ active[HalfOf(i)] + 1 > INACTIVE THEN {} ELSE Copied[i])
                   \in Bytes
    BY <1>2, <1>3
  <1> QED
    BY <1>2, <1>4 DEF Released

LEMMA ReceiveType ==
    ASSUME TypeOK, NEW byte \in Bytes,
           Receive(byte) \/ (Spend("lost") /\ UNCHANGED rxFifo)
    PROVE  /\ rxFifo' \in Seq(Bytes) /\ Len(rxFifo') <= RxCap
           /\ spent' \in [Faults -> Nat] /\ spent'["late"] = spent["late"]
  <1>1. CASE Spend("lost") /\ UNCHANGED rxFifo
    BY <1>1, SpendLost DEF TypeOK, Faults
  <1>2. CASE Receive(byte)
    <2>1. CASE Len(rxFifo) < RxCap
      <3>1. rxFifo' = Append(rxFifo, byte) /\ spent' = spent
        BY <1>2, <2>1 DEF Receive
      <3>2. rxFifo \in Seq(Bytes) /\ Len(rxFifo) \in Nat
        BY DEF TypeOK
      <3>3. rxFifo' \in Seq(Bytes) /\ Len(rxFifo') = Len(rxFifo) + 1
        BY <3>1, <3>2, Appended
      <3> QED
        BY <2>1, <3>1, <3>2, <3>3, Places DEF TypeOK
    <2>2. CASE ~ Len(rxFifo) < RxCap
      BY <1>2, <2>2, SpendLost DEF Receive, TypeOK, Faults
    <2> QED
      BY <2>1, <2>2
  <1> QED
    BY <1>1, <1>2

LEMMA TypeInit == Init => TypeOK
  <1> SUFFICES ASSUME Init PROVE TypeOK
    OBVIOUS
  <1>1. {} \in Bytes /\ EndByte \in Bytes
    BY DEF Bytes, Bits, EndByte
  <1>2. Blank \in [Rows -> Bytes] /\ Erased \in [0..End -> Bytes]
    BY <1>1 DEF Blank, Erased
  <1>3. EmptyBuffer \in [0..End -> Bytes]
    BY <1>1, <1>2 DEF EmptyBuffer
  <1>4. Len(<<>>) = 0 /\ <<>> \in Seq(Bytes)
    OBVIOUS
  <1>5. [h \in Halves |-> Blank] \in [Halves -> [Rows -> Bytes]]
    BY <1>2
  <1>6. data_payload \in [Halves -> [Rows -> Bytes]] /\ shown \in [Halves -> [Rows -> Bytes]]
    BY <1>5 DEF Init
  <1>7. packet_received \in [Halves -> BOOLEAN] /\ active \in [Halves -> 0..INACTIVE]
    BY Places DEF Init
  <1>8. silent \in [Halves -> 0..(INACTIVE + 1)] /\ spent \in [Faults -> Nat]
    BY Places DEF Init
  <1>9. matrix \in [Rows -> SUBSET Columns] /\ udr \in Bytes \X Bytes
    BY <1>1 DEF Init
  <1>10. /\ data_buffer \in [0..End -> Bytes] /\ uart_data \in [0..End -> Bytes]
         /\ rxFifo \in Seq(Bytes) /\ Len(rxFifo) <= RxCap
    BY <1>2, <1>3, <1>4, Places DEF Init
  <1>11. loaded \in 0..(End + 1) /\ polls \in Nat /\ index \in 0..(End + 1)
    BY Places DEF Init
  <1>12. pc \in {"idle", "scan"} /\ timedOut \in BOOLEAN
    BY DEF Init
  <1> QED
    BY <1>6, <1>7, <1>8, <1>9, <1>10, <1>11, <1>12 DEF TypeOK

LEMMA MatrixType ==
    ASSUME TypeOK, NEW r \in Rows PROVE MatrixRow(uart_data, r) \subseteq Columns
  <1>1. 2 * r \in 0..End /\ 2 * r + 1 \in 0..End
    BY RowsAssumption DEF Rows, End
  <1>2. uart_data[2 * r] \subseteq Bits /\ uart_data[2 * r + 1] \subseteq Bits
    BY <1>1 DEF TypeOK, Bytes
  <1>3. \A b \in Bits : b \in Columns /\ b + 7 \in Columns
    BY DEF Bits, Columns
  <1> QED
    BY <1>2, <1>3 DEF MatrixRow

LEMMA TypeStep == TypeOK /\ [Next]_vars => TypeOK'
  <1> SUFFICES ASSUME TypeOK, [Next]_vars PROVE TypeOK'
    OBVIOUS
  <1>0. /\ End \in Nat /\ End >= 2 /\ RxCap \in Nat /\ RxCap >= 1 /\ INACTIVE \in Nat
        /\ {} \in Bytes /\ EndByte \in Bytes
    BY Places DEF Bytes, Bits, EndByte
  <1> USE DEF rcvVars, scanVars, ghosts
  <1>1. CASE UNCHANGED vars
    BY <1>1 DEF TypeOK, vars
  <1>2. ASSUME NEW h \in Halves, PacketReceived(h) PROVE TypeOK'
    <2>1. PICK s \in KeyStates[h] : data_payload' = [data_payload EXCEPT ![h] = s]
      BY <1>2 DEF PacketReceived
    <2>2. s \in [Rows -> Bytes]
      BY <2>1, KeyStatesAssumption
    <2>3. data_payload' \in [Halves -> [Rows -> Bytes]]
      BY <2>1, <2>2 DEF TypeOK
    <2> QED
      BY <1>0, <1>2, <2>3 DEF PacketReceived, TypeOK
  <1>3. CASE mitosis_uart_handler
    <2>1. /\ rxFifo' \in Seq(Bytes) /\ Len(rxFifo') <= RxCap /\ spent' \in [Faults -> Nat]
          /\ loaded' \in 0..(End + 1)
      <3>1. Copied[0] \in Bytes
        BY <1>0, CopiedType
      <3>2. CASE loaded = 0
        BY <1>0, <1>3, <3>1, <3>2, ReceiveType DEF mitosis_uart_handler
      <3>3. CASE loaded # 0
        BY <1>3, <3>3 DEF mitosis_uart_handler, TypeOK
      <3> QED
        BY <3>2, <3>3
    <2>2. data_buffer' \in [0..End -> Bytes]
      BY <1>3, CopiedType DEF mitosis_uart_handler
    <2>3. active' \in [Halves -> 0..INACTIVE] /\ silent' \in [Halves -> 0..(INACTIVE + 1)]
      BY <1>0, <1>3 DEF mitosis_uart_handler, BytesSincePacket, TypeOK
    <2>4. packet_received' \in [Halves -> BOOLEAN] /\ polls' \in Nat
      BY <1>3 DEF mitosis_uart_handler, FlagCleared, TypeOK
    <2>5. shown' \in [Halves -> [Rows -> Bytes]]
      BY <1>3 DEF mitosis_uart_handler, TypeOK
    <2> QED
      BY <1>3, <2>1, <2>2, <2>3, <2>4, <2>5 DEF mitosis_uart_handler, TypeOK
  <1>4. CASE SendNext
    <2>1. data_buffer[loaded] \in Bytes /\ loaded + 1 \in 0..(End + 1)
      BY <1>0, <1>4 DEF SendNext, TypeOK
    <2>2. rxFifo' \in Seq(Bytes) /\ Len(rxFifo') <= RxCap /\ spent' \in [Faults -> Nat]
      BY <1>4, <2>1, ReceiveType DEF SendNext
    <2> QED
      BY <1>4, <2>1, <2>2 DEF SendNext, TypeOK
  <1>5. CASE SendDone
    BY <1>0, <1>5 DEF SendDone, TypeOK
  <1>6. CASE CommunicationError
    <2>1. Blank \in [Rows -> Bytes] /\ EmptyBuffer \in [0..End -> Bytes]
      BY <1>0 DEF Blank, EmptyBuffer, Erased
    <2>2. spent' \in [Faults -> Nat]
      BY <1>6, SpendLost DEF CommunicationError, Faults
    <2> QED
      BY <1>0, <1>6, <2>1, <2>2 DEF CommunicationError, TypeOK
  <1>7. CASE ScanBegin
    <2>1. spent' \in [Faults -> Nat] /\ polls' \in Nat
      BY <1>7, SpendLost DEF ScanBegin, Faults, TypeOK
    <2> QED
      BY <1>7, <2>1 DEF ScanBegin, TypeOK
  <1>8. CASE ReadByte
    <2>1. /\ Head(rxFifo) \in Bytes /\ Tail(rxFifo) \in Seq(Bytes)
          /\ Len(rxFifo) \in Nat /\ Len(Tail(rxFifo)) = Len(rxFifo) - 1
      BY <1>8, Taken DEF ReadByte, TypeOK
    <2>2. Len(rxFifo') <= RxCap /\ index + 1 \in 0..(End + 1)
      BY <1>0, <1>8, <2>1 DEF ReadByte, MoreToRead, TypeOK
    <2> QED
      BY <1>8, <2>1, <2>2 DEF ReadByte, TypeOK
  <1>9. CASE TimeOut
    <2>1. spent' \in [Faults -> Nat]
      BY <1>9, SpendLost DEF TimeOut, Faults, TypeOK
    <2> QED
      BY <1>9, <2>1 DEF TimeOut, TypeOK
  <1>10. CASE ReadNothing
    <2>1. udr[1] \in Bytes /\ udr[2] \in Bytes
      BY DEF TypeOK
    <2>2. index + 1 \in 0..(End + 1) /\ uart_data' \in [0..End -> Bytes]
      BY <1>0, <1>10, <2>1 DEF ReadNothing, MoreToRead, TypeOK
    <2> QED
      BY <1>10, <2>2 DEF ReadNothing, TypeOK
  <1>11. CASE Accept \/ Reject
    <2>1. Erased \in [0..End -> Bytes]
      BY <1>0 DEF Erased
    <2>2. matrix' \in [Rows -> SUBSET Columns]
      BY <1>11, MatrixType DEF Accept, Reject, TypeOK
    <2>3. /\ pc' = "idle" /\ index' = 0 /\ timedOut' = FALSE /\ uart_data' = Erased
          /\ UNCHANGED <<data_payload, packet_received, active, data_buffer, loaded,
                         polls, rxFifo, udr, shown, silent, spent>>
      BY <1>11 DEF Accept, Reject, Return
    <2>4. index' \in 0..(End + 1) /\ uart_data' \in [0..End -> Bytes]
      BY <1>0, <2>1, <2>3
    <2>5. pc' \in {"idle", "scan"} /\ timedOut' \in BOOLEAN
      BY <2>3
    <2> QED
      BY <2>2, <2>3, <2>4, <2>5 DEF TypeOK
  <1> QED
    BY <1>1, <1>2, <1>3, <1>4, <1>5, <1>6, <1>7, <1>8, <1>9, <1>10, <1>11
       DEF Next, matrix_scan

-----------------------------------------------------------------------------
(* Requests and answers.                                                   *)

\* What a byte sent does to the receive buffer, while no answer has been late.
LEMMA ReceiveLength ==
    ASSUME TypeOK, NEW byte,
           Receive(byte) \/ (Spend("lost") /\ UNCHANGED rxFifo)
    PROVE  Len(rxFifo') \in {Len(rxFifo), Len(rxFifo) + 1}
  <1>1. rxFifo \in Seq(Bytes) /\ Len(rxFifo) \in Nat
    BY DEF TypeOK
  <1>2. Len(Append(rxFifo, byte)) = Len(rxFifo) + 1
    BY <1>1
  <1> QED
    BY <1>1, <1>2 DEF Receive

LEMMA NotLate ==
    ASSUME TypeOK, [Next]_vars, spent'["late"] = 0
    PROVE  spent["late"] = 0 /\ (TimeOut => NothingComes)
  <1>1. CASE UNCHANGED spent
    <2>1. TimeOut => NothingComes
      <3>1. ~ Spend("late")
        BY <1>1, SpendLost DEF Faults
      <3> QED
        BY <3>1 DEF TimeOut
    <2> QED
      BY <1>1, <2>1
  <1>2. ASSUME NEW f \in {"lost", "error"}, Spend(f)
        PROVE  spent["late"] = 0 /\ (TimeOut => NothingComes)
    <2>1. spent' # spent /\ spent["late"] = 0 /\ spent'[f] = spent[f] + 1
      BY <1>2 DEF Spend, TypeOK, Faults
    <2>2. ~ Spend("late")
      BY SpendLost DEF Faults
    <2> QED
      BY <2>1, <2>2 DEF TimeOut
  <1>3. ~ Spend("late")
    BY SpendLost DEF Faults
  <1>4. UNCHANGED spent \/ Spend("lost") \/ Spend("error")
    <2>1. CASE UNCHANGED vars
      BY <2>1 DEF vars
    <2>2. CASE \E h \in Halves : PacketReceived(h)
      BY <2>2 DEF PacketReceived
    <2>3. CASE mitosis_uart_handler \/ SendNext
      BY <2>3 DEF mitosis_uart_handler, SendNext, Receive
    <2>4. CASE SendDone \/ CommunicationError
      BY <2>4 DEF SendDone, CommunicationError
    <2>5. CASE matrix_scan
      BY <1>3, <2>5 DEF matrix_scan, ScanBegin, ReadByte, TimeOut, ReadNothing, Accept,
                       Reject, Return
    <2> QED
      BY <2>1, <2>2, <2>3, <2>4, <2>5 DEF Next
  <1> QED
    BY <1>1, <1>2, <1>4

LEMMA AlignStep == TypeOK /\ AlignInv /\ [Next]_vars => AlignInv'
  <1> SUFFICES ASSUME TypeOK, AlignInv, [Next]_vars, spent'["late"] = 0 PROVE Aligned'
    BY DEF AlignInv
  <1>0. Aligned /\ (TimeOut => NothingComes)
    BY NotLate DEF AlignInv
  <1>a. /\ End \in Nat /\ End >= 2 /\ loaded \in 0..(End + 1) /\ index \in 0..(End + 1)
        /\ Len(rxFifo) \in Nat /\ rxFifo \in Seq(Bytes) /\ polls \in Nat
        /\ pc \in {"idle", "scan"}
    BY Places DEF TypeOK
  <1> USE <1>0, <1>a DEF Aligned, Sending, Arrived, rcvVars, scanVars, ghosts
  <1>1. CASE UNCHANGED vars
    BY <1>1 DEF vars
  <1>2. ASSUME NEW h \in Halves, PacketReceived(h) PROVE Aligned'
    BY <1>2 DEF PacketReceived
  <1>3. CASE mitosis_uart_handler
    <2>1. polls = 1 /\ polls' = 0 /\ pc = "scan" /\ ~ timedOut
      BY <1>3 DEF mitosis_uart_handler
    <2>2. CASE loaded = 0
      <3>1. /\ loaded' = 1 /\ Receive(Copied[0])
            /\ UNCHANGED <<index, pc, timedOut>>
        BY <1>3, <2>2 DEF mitosis_uart_handler
      <3>2. Len(rxFifo') \in {Len(rxFifo), Len(rxFifo) + 1}
        BY <3>1, ReceiveLength
      <3>3. index = 0 /\ Len(rxFifo) = 0
        BY <2>1
      <3> HIDE <1>0, <1>a
      <3>4. index' = 0 /\ Len(rxFifo') \in {0, 1}
        BY <3>1, <3>2, <3>3
      <3>5. Sending' /\ Arrived' <= loaded' /\ polls' = 0 /\ pc' = "scan" /\ ~ timedOut'
        BY <1>a, <2>1, <3>1, <3>4
      <3> QED
        BY <3>5
    <2>3. CASE loaded # 0
      BY <1>3, <2>1, <2>3 DEF mitosis_uart_handler
    <2> QED
      BY <2>2, <2>3
  <1>4. CASE SendNext
    <2>1. Len(rxFifo') \in {Len(rxFifo), Len(rxFifo) + 1} /\ loaded' = loaded + 1
      BY <1>4, ReceiveLength DEF SendNext
    <2> QED
      BY <1>4, <2>1 DEF SendNext
  <1>5. CASE SendDone
    BY <1>5 DEF SendDone
  <1>6. CASE CommunicationError
    BY <1>6 DEF CommunicationError
  <1>7. CASE ScanBegin
    BY <1>7 DEF ScanBegin
  <1>8. CASE ReadByte
    <2>1. Len(rxFifo) >= 1 /\ Len(rxFifo') = Len(rxFifo) - 1
      BY <1>8, Taken DEF ReadByte
    <2> QED
      BY <1>8, <2>1 DEF ReadByte, MoreToRead
  <1>9. CASE TimeOut
    BY <1>9 DEF TimeOut, NothingComes
  <1>10. CASE ReadNothing
    <2>1. Len(rxFifo) = 0
      BY <1>10, NoneTaken DEF ReadNothing
    <2> QED
      BY <1>10, <2>1 DEF ReadNothing, MoreToRead
  <1>11. CASE Accept \/ Reject
    <2>1. /\ index = End + 1 /\ pc' = "idle" /\ index' = 0 /\ timedOut' = FALSE
          /\ UNCHANGED <<loaded, polls, rxFifo>>
      BY <1>11 DEF Accept, Reject, Return, MoreToRead
    <2> QED
      BY <2>1
  <1> QED
    BY <1>1, <1>2, <1>3, <1>4, <1>5, <1>6, <1>7, <1>8, <1>9, <1>10, <1>11
       DEF Next, matrix_scan

-----------------------------------------------------------------------------
(* What the receiver's buffer holds.                                       *)

LEMMA SilentStep == TypeOK /\ SilentInv /\ [Next]_vars => SilentInv'
  <1> SUFFICES ASSUME TypeOK, SilentInv, [Next]_vars, NEW h \in Halves
               PROVE  (active[h] <= silent[h] /\ (packet_received[h] => active[h] = 0))'
    BY DEF SilentInv
  <1>0. /\ active[h] \in 0..INACTIVE /\ silent[h] \in 0..(INACTIVE + 1) /\ INACTIVE \in Nat
        /\ active[h] <= silent[h] /\ (packet_received[h] => active[h] = 0)
        /\ active \in [Halves -> 0..INACTIVE] /\ packet_received \in [Halves -> BOOLEAN]
    BY Places DEF TypeOK, SilentInv
  <1> USE DEF rcvVars, scanVars, ghosts
  <1>1. CASE UNCHANGED <<active, silent, packet_received>>
    BY <1>0, <1>1
  <1>2. ASSUME NEW k \in Halves, PacketReceived(k)
        PROVE  (active[h] <= silent[h] /\ (packet_received[h] => active[h] = 0))'
    BY <1>0, <1>2 DEF PacketReceived
  <1>3. CASE mitosis_uart_handler
    <2>1. active'[h] = BytesSincePacket(h) /\ ~ packet_received'[h]
      BY <1>3 DEF mitosis_uart_handler, FlagCleared
    <2>2. silent'[h] = IF packet_received[h] THEN 1
                       ELSE IF silent[h] > INACTIVE THEN silent[h] ELSE silent[h] + 1
      BY <1>3 DEF mitosis_uart_handler
    <2> QED
      BY <1>0, <2>1, <2>2 DEF BytesSincePacket
  <1>4. CASE CommunicationError
    BY <1>0, <1>4 DEF CommunicationError
  <1>5. CASE UNCHANGED vars \/ SendNext \/ SendDone \/ matrix_scan
    BY <1>1, <1>5 DEF vars, SendNext, SendDone, matrix_scan, ScanBegin, ReadByte, TimeOut,
                      ReadNothing, Accept, Reject, Return
  <1> QED
    BY <1>2, <1>3, <1>4, <1>5 DEF Next

\* A byte that matches after the step.
MatchesAfter(i, byte) ==
    IF i = End THEN byte = EndByte
    ELSE \/ byte = Unpack(shown'[HalfOf(i)][RowOf(i)])
         \/ byte = {} /\ silent'[HalfOf(i)] > INACTIVE

\* New states are copied as they are; a row is released only after the silence.
LEMMA HandlerCopies ==
    ASSUME TypeOK, SilentInv, BufferInv, mitosis_uart_handler, NEW i \in 0..End
    PROVE  MatchesAfter(i, Copied[i]) /\ MatchesAfter(i, data_buffer'[i])
  <1>1. Copied[i] = IF i # End /\ packet_received[HalfOf(i)]
                    THEN Unpack(data_payload[HalfOf(i)][RowOf(i)]) ELSE data_buffer[i]
    BY DEF Copied
  <1>2. data_buffer'[i] = IF i # End /\ active[HalfOf(i)] + 1 > INACTIVE
                          THEN {} ELSE Copied[i]
    BY DEF mitosis_uart_handler, Released
  <1>3. CASE i = End
    BY <1>1, <1>2, <1>3 DEF BufferInv, Matches, MatchesAfter
  <1>4. CASE i # End
    <2> DEFINE h == HalfOf(i)
    <2>1. h \in Halves /\ i \in 0..(End - 1)
      BY <1>4, Places
    <2>2. /\ active[h] \in Nat /\ silent[h] \in Nat /\ INACTIVE \in Nat
          /\ active[h] <= silent[h] /\ (packet_received[h] => active[h] = 0)
      BY <2>1, Places DEF TypeOK, SilentInv
    <2>3. shown'[h] = IF packet_received[h] THEN data_payload[h] ELSE shown[h]
      BY <2>1 DEF mitosis_uart_handler
    <2>4. silent'[h] = IF packet_received[h] THEN 1
                       ELSE IF silent[h] > INACTIVE THEN silent[h] ELSE silent[h] + 1
      BY <2>1 DEF mitosis_uart_handler
    <2>5. \/ data_buffer[i] = Unpack(shown[h][RowOf(i)])
          \/ data_buffer[i] = {} /\ silent[h] > INACTIVE
      BY <1>4 DEF BufferInv, Matches
    <2>6. active[h] + 1 > INACTIVE => silent'[h] > INACTIVE
      BY <2>2, <2>4
    <2> HIDE DEF h
    <2>7. \/ Copied[i] = Unpack(shown'[h][RowOf(i)])
          \/ Copied[i] = {} /\ silent'[h] > INACTIVE
      <3>1. CASE packet_received[h]
        BY <1>1, <1>4, <2>3, <3>1 DEF h
      <3>2. CASE ~ packet_received[h]
        <4>1. Copied[i] = data_buffer[i] /\ shown'[h] = shown[h]
          BY <1>1, <2>3, <3>2 DEF h
        <4>2. silent[h] > INACTIVE => silent'[h] > INACTIVE
          BY <2>4, <3>2
        <4> QED
          BY <2>5, <4>1, <4>2
      <3> QED
        BY <3>1, <3>2
    <2>8. \/ data_buffer'[i] = Unpack(shown'[h][RowOf(i)])
          \/ data_buffer'[i] = {} /\ silent'[h] > INACTIVE
      BY <1>2, <1>4, <2>6, <2>7 DEF h
    <2> QED
      BY <1>4, <2>7, <2>8 DEF MatchesAfter, h
  <1> QED
    BY <1>3, <1>4

LEMMA BufferStep == TypeOK /\ SilentInv /\ BufferInv /\ [Next]_vars => BufferInv'
  <1> SUFFICES ASSUME TypeOK, SilentInv, BufferInv, [Next]_vars, NEW i \in 0..End
               PROVE  MatchesAfter(i, data_buffer'[i])
    BY DEF BufferInv, Matches, MatchesAfter
  <1> USE DEF rcvVars, scanVars, ghosts
  <1>1. CASE UNCHANGED <<data_buffer, shown, silent>>
    BY <1>1 DEF BufferInv, Matches, MatchesAfter
  <1>2. CASE mitosis_uart_handler
    BY <1>2, HandlerCopies
  <1>3. CASE CommunicationError
    <2>1. data_buffer'[i] = IF i = End THEN EndByte ELSE {}
      BY <1>3, Places DEF CommunicationError, EmptyBuffer, Erased
    <2>2. i # End => silent'[HalfOf(i)] > INACTIVE
      BY <1>3, Places DEF CommunicationError
    <2> QED
      BY <2>1, <2>2 DEF MatchesAfter
  <1>4. CASE UNCHANGED vars \/ (\E h \in Halves : PacketReceived(h)) \/ SendNext \/ SendDone
             \/ matrix_scan
    BY <1>1, <1>4 DEF vars, PacketReceived, SendNext, SendDone, matrix_scan, ScanBegin,
                      ReadByte, TimeOut, ReadNothing, Accept, Reject, Return
  <1> QED
    BY <1>2, <1>3, <1>4 DEF Next

-----------------------------------------------------------------------------
(* What QMK has received.                                                  *)

LEMMA MatchesKept ==
    ASSUME TypeOK, UNCHANGED <<shown, silent>> \/ CommunicationError,
           NEW i \in 0..End, NEW byte, Matches(i, byte)
    PROVE  MatchesAfter(i, byte)
  <1>1. CASE UNCHANGED <<shown, silent>>
    BY <1>1 DEF Matches, MatchesAfter
  <1>2. CASE CommunicationError
    <2>1. i # End => silent'[HalfOf(i)] > INACTIVE
      BY <1>2, Places DEF CommunicationError
    <2>2. shown' = shown
      BY <1>2 DEF CommunicationError
    <2> QED
      BY <2>1, <2>2 DEF Matches, MatchesAfter
  <1> QED
    BY <1>1, <1>2

\* What has arrived still matches when no byte comes or is read.
LEMMA WholeKept ==
    ASSUME TypeOK, Whole, Arrived <= End + 1,
           UNCHANGED <<index, rxFifo, uart_data>>,
           UNCHANGED <<shown, silent>> \/ CommunicationError,
           Sending' => Sending /\ loaded' = loaded
    PROVE  Whole'
  <1>a. /\ End \in Nat /\ index \in Nat /\ Len(rxFifo) \in Nat
    BY Places DEF TypeOK
  <1>1. ASSUME NEW i \in 0..(index' - 1) PROVE MatchesAfter(i, uart_data'[i])
    <2>1. i \in 0..End /\ Matches(i, uart_data[i])
      BY <1>a DEF Whole, Arrived
    <2> QED
      BY <2>1, MatchesKept
  <1>2. ASSUME NEW j \in 1..Len(rxFifo') PROVE MatchesAfter(index' + j - 1, rxFifo'[j])
    <2>1. index + j - 1 \in 0..End /\ Matches(index + j - 1, rxFifo[j])
      BY <1>a DEF Whole, Arrived
    <2> QED
      BY <2>1, MatchesKept
  <1>3. Sending' => Arrived' = loaded'
    BY DEF Whole, Arrived
  <1> QED
    BY <1>1, <1>2, <1>3 DEF Whole, Matches, MatchesAfter

LEMMA DataStep == Inv /\ [Next]_vars => DataInv'
  <1> SUFFICES ASSUME Inv, [Next]_vars PROVE DataInv'
    OBVIOUS
  <1> USE DEF rcvVars, scanVars, ghosts
  <1>1. ~ StaleReads => udr' = <<{}, {}>>
    <2>1. ~ StaleReads => udr = <<{}, {}>>
      BY DEF Inv, DataInv
    <2>2. udr' = udr \/ StaleReads
      BY DEF Next, vars, PacketReceived, mitosis_uart_handler, SendNext, SendDone,
             CommunicationError, matrix_scan, ScanBegin, ReadByte, TimeOut, ReadNothing,
             Accept, Reject, Return
    <2> QED
      BY <2>1, <2>2
  <1> SUFFICES ASSUME spent'["late"] = 0, timedOut' => ~ StaleReads
               PROVE  (Whole \/ Gap \/ Filled)'
    BY <1>1 DEF DataInv
  <1>2. TypeOK /\ Aligned /\ SilentInv /\ BufferInv
    BY NotLate DEF Inv, AlignInv
  <1>3. spent["late"] = 0
    BY NotLate DEF Inv
  <1>4. ASSUME timedOut => timedOut' PROVE Whole \/ Gap \/ Filled
    BY <1>3, <1>4 DEF Inv, DataInv
  <1>5. /\ End \in Nat /\ End >= 2 /\ RxCap >= 1 /\ RxCap \in Nat
        /\ loaded \in 0..(End + 1) /\ index \in 0..(End + 1)
        /\ rxFifo \in Seq(Bytes) /\ Len(rxFifo) \in Nat
        /\ uart_data \in [0..End -> Bytes] /\ polls \in Nat
    BY <1>2, Places DEF TypeOK
  <1>6. Arrived <= End + 1
    BY <1>2, <1>5 DEF Aligned, Sending
  <1>7. ASSUME UNCHANGED <<index, rxFifo, uart_data, timedOut>>,
               UNCHANGED <<shown, silent>> \/ CommunicationError,
               Sending' => Sending /\ loaded' = loaded
        PROVE  (Whole \/ Gap \/ Filled)'
    <2>1. Whole => Whole'
      BY <1>2, <1>6, <1>7, WholeKept
    <2>2. Gap => Gap'
      BY <1>7 DEF Gap, Arrived
    <2>3. Filled => Filled'
      BY <1>7 DEF Filled
    <2> QED
      BY <1>4, <1>7, <2>1, <2>2, <2>3
  <1>8. CASE UNCHANGED vars \/ (\E h \in Halves : PacketReceived(h)) \/ ScanBegin
    BY <1>7, <1>8 DEF vars, PacketReceived, ScanBegin, Sending
  <1>9. CASE SendDone \/ CommunicationError
    BY <1>5, <1>7, <1>9 DEF SendDone, CommunicationError, Sending
  <1>10. CASE TimeOut
    <2>1. /\ Whole \/ Gap \/ Filled
          /\ UNCHANGED <<index, rxFifo, uart_data, shown, silent, loaded>>
      BY <1>4, <1>10 DEF TimeOut
    <2>2. Whole => Whole'
      BY <1>2, <1>6, <2>1, WholeKept DEF Sending
    <2> QED
      BY <2>1, <2>2 DEF Gap, Filled, Arrived, Sending
  <1>11. CASE Accept \/ Reject
    <2>1. index' = 0 /\ Len(rxFifo') = 0 /\ loaded' = loaded /\ ~ Sending
      <3>1. index = End + 1 /\ index' = 0 /\ rxFifo' = rxFifo /\ loaded' = loaded
        BY <1>5, <1>11 DEF Accept, Reject, Return, MoreToRead
      <3> QED
        BY <1>2, <1>5, <3>1 DEF Aligned, Arrived, Sending
    <2>2. ~ Sending'
      BY <2>1 DEF Sending
    <2> QED
      BY <2>1, <2>2 DEF Whole
  <1>12. CASE mitosis_uart_handler
    <2>1. index = 0 /\ Len(rxFifo) = 0 /\ ~ Sending /\ index' = 0
      BY <1>2, <1>5, <1>12 DEF Aligned, mitosis_uart_handler
    <2>2. CASE loaded # 0
      <3>1. rxFifo' = rxFifo /\ loaded' = loaded
        BY <1>12, <2>2 DEF mitosis_uart_handler
      <3>2. Len(rxFifo') = 0 /\ ~ Sending'
        BY <2>1, <3>1 DEF Sending
      <3> QED
        BY <2>1, <3>2 DEF Whole
    <2>3. CASE loaded = 0
      <3>1. rxFifo' = Append(rxFifo, Copied[0]) /\ loaded' = 1
        BY <1>5, <1>12, <2>1, <2>3 DEF mitosis_uart_handler, Receive
      <3>2. Copied[0] \in Bytes
        BY <1>2, <1>5, CopiedType
      <3>3. Len(rxFifo') = 1 /\ rxFifo'[1] = Copied[0]
        BY <1>5, <2>1, <3>1, <3>2, Appended
      <3>4. MatchesAfter(0, Copied[0])
        BY <1>2, <1>5, <1>12, HandlerCopies
      <3>5. ASSUME NEW j \in 1..Len(rxFifo')
            PROVE  MatchesAfter(index' + j - 1, rxFifo'[j])
        <4>1. j = 1 /\ index' + j - 1 = 0
          BY <2>1, <3>3
        <4> QED
          BY <3>3, <3>4, <4>1
      <3>6. 0..(index' - 1) = {} /\ Arrived' = loaded'
        BY <2>1, <3>1, <3>3 DEF Arrived
      <3> QED
        BY <3>5, <3>6 DEF Whole, Matches, MatchesAfter
    <2> QED
      BY <2>2, <2>3
  <1>13. CASE SendNext
    <2>1. /\ loaded \in 1..End /\ loaded' = loaded + 1
          /\ UNCHANGED <<index, uart_data, shown, silent, data_buffer>>
          /\ Arrived <= loaded
      BY <1>2, <1>13 DEF SendNext, Aligned, Sending
    <2>2. Whole \/ Gap
      <3>1. ~ Filled
        BY <1>5, <2>1 DEF Filled, Arrived
      <3> QED
        BY <1>4, <1>13, <3>1 DEF SendNext
    <2>3. \/ rxFifo' = Append(rxFifo, data_buffer[loaded])
          \/ rxFifo' = rxFifo
      BY <1>13 DEF SendNext, Receive
    <2>4. data_buffer[loaded] \in Bytes /\ loaded \in 0..End
      BY <1>2, <1>5, <2>1 DEF TypeOK
    <2>5. CASE rxFifo' = rxFifo
      <3>1. Arrived' = Arrived /\ Arrived' <= End /\ Arrived' < loaded'
        BY <1>5, <2>1, <2>5 DEF Arrived
      <3> QED
        BY <3>1 DEF Gap
    <2>6. CASE rxFifo' = Append(rxFifo, data_buffer[loaded])
      <3>1. /\ Len(rxFifo') = Len(rxFifo) + 1
            /\ \A j \in 1..Len(rxFifo) : rxFifo'[j] = rxFifo[j]
            /\ rxFifo'[Len(rxFifo) + 1] = data_buffer[loaded]
        BY <1>5, <2>4, <2>6, Appended
      <3>2. Arrived' = Arrived + 1
        BY <1>5, <2>1, <3>1 DEF Arrived
      <3>3. CASE Gap
        <4>1. Arrived < loaded /\ Arrived \in Nat
          BY <1>5, <2>1, <3>3 DEF Gap, Sending, Arrived
        <4>2. Arrived' <= End /\ Arrived' < loaded'
          BY <1>5, <2>1, <3>2, <4>1
        <4> QED
          BY <4>2 DEF Gap
      <3>4. CASE Whole
        <4>1. Arrived = loaded
          BY <2>1, <3>4 DEF Whole, Sending
        <4>2. ASSUME NEW i \in 0..(index' - 1) PROVE MatchesAfter(i, uart_data'[i])
          <5>1. i \in 0..End /\ Matches(i, uart_data[i])
            BY <1>5, <2>1, <3>4 DEF Whole
          <5> QED
            BY <1>2, <2>1, <5>1, MatchesKept
        <4>3. ASSUME NEW j \in 1..Len(rxFifo')
              PROVE  MatchesAfter(index' + j - 1, rxFifo'[j])
          <5>1. CASE j = Len(rxFifo) + 1
            <6>1. index' + j - 1 = loaded
              BY <1>5, <2>1, <4>1, <5>1 DEF Arrived
            <6>2. Matches(loaded, data_buffer[loaded])
              BY <1>2, <2>4 DEF BufferInv
            <6>3. MatchesAfter(loaded, data_buffer[loaded])
              BY <1>2, <2>1, <2>4, <6>2, MatchesKept
            <6> QED
              BY <3>1, <5>1, <6>1, <6>3
          <5>2. CASE j # Len(rxFifo) + 1
            <6>1. j \in 1..Len(rxFifo) /\ rxFifo'[j] = rxFifo[j]
              BY <1>5, <3>1, <5>2
            <6>2. index + j - 1 \in 0..End /\ index' = index
              BY <1>5, <2>1, <4>1, <6>1 DEF Arrived
            <6>3. Matches(index + j - 1, rxFifo[j])
              BY <3>4, <6>1 DEF Whole
            <6>4. MatchesAfter(index + j - 1, rxFifo[j])
              BY <1>2, <2>1, <6>2, <6>3, MatchesKept
            <6> QED
              BY <6>1, <6>2, <6>4
          <5> QED
            BY <5>1, <5>2
        <4>4. Arrived' = loaded'
          BY <2>1, <3>2, <4>1
        <4> QED
          BY <4>2, <4>3, <4>4 DEF Whole, Matches, MatchesAfter
      <3> QED
        BY <2>2, <3>3, <3>4
    <2> QED
      BY <2>3, <2>5, <2>6
  <1>14. CASE ReadByte
    <2>1. /\ index <= End /\ index' = index + 1 /\ rxFifo # <<>> /\ rxFifo' = Tail(rxFifo)
          /\ uart_data' = [uart_data EXCEPT ![index] = Head(rxFifo)]
          /\ UNCHANGED <<loaded, timedOut, shown, silent>>
      BY <1>14 DEF ReadByte, MoreToRead
    <2>2. /\ Head(rxFifo) = rxFifo[1] /\ Len(rxFifo) >= 1 /\ Len(rxFifo') = Len(rxFifo) - 1
          /\ \A j \in 1..(Len(rxFifo) - 1) : rxFifo'[j] = rxFifo[j + 1]
      BY <1>5, <2>1, Taken
    <2>3. Arrived' = Arrived
      BY <1>5, <2>1, <2>2 DEF Arrived
    <2>4. Whole \/ Gap
      BY <1>4, <1>5, <2>1 DEF Filled
    <2>5. CASE Gap
      BY <2>1, <2>3, <2>5 DEF Gap, Sending
    <2>6. CASE Whole
      <3>1. ASSUME NEW i \in 0..(index' - 1) PROVE MatchesAfter(i, uart_data'[i])
        <4>1. CASE i = index
          <5>1. index \in 0..End /\ uart_data'[i] = rxFifo[1]
            BY <1>5, <2>1, <2>2, <4>1
          <5>2. Matches(index + 1 - 1, rxFifo[1])
            BY <1>5, <2>2, <2>6 DEF Whole
          <5>3. Matches(index, rxFifo[1])
            BY <1>5, <5>2
          <5> QED
            BY <1>2, <2>1, <4>1, <5>1, <5>3, MatchesKept
        <4>2. CASE i # index
          <5>1. i \in 0..(index - 1) /\ i \in 0..End /\ uart_data'[i] = uart_data[i]
            BY <1>5, <2>1, <4>2
          <5>2. Matches(i, uart_data[i])
            BY <2>6, <5>1 DEF Whole
          <5> QED
            BY <1>2, <2>1, <5>1, <5>2, MatchesKept
        <4> QED
          BY <4>1, <4>2
      <3>2. ASSUME NEW j \in 1..Len(rxFifo')
            PROVE  MatchesAfter(index' + j - 1, rxFifo'[j])
        <4>1. /\ j + 1 \in 1..Len(rxFifo) /\ rxFifo'[j] = rxFifo[j + 1]
              /\ index' + j - 1 = index + (j + 1) - 1
          BY <1>5, <2>1, <2>2
        <4>2. index + (j + 1) - 1 \in 0..End
          BY <1>5, <1>6, <4>1 DEF Arrived
        <4>3. Matches(index + (j + 1) - 1, rxFifo[j + 1])
          BY <2>6, <4>1 DEF Whole
        <4>4. MatchesAfter(index + (j + 1) - 1, rxFifo[j + 1])
          BY <1>2, <2>1, <4>2, <4>3, MatchesKept
        <4> QED
          BY <4>1, <4>4
      <3>3. Sending' => Arrived' = loaded'
        BY <2>1, <2>3, <2>6 DEF Whole, Sending
      <3> QED
        BY <3>1, <3>2, <3>3 DEF Whole, Matches, MatchesAfter
    <2> QED
      BY <2>4, <2>5, <2>6
  <1>15. CASE ReadNothing
    <2>1. /\ index <= End /\ index' = index + 1 /\ rxFifo' = rxFifo /\ timedOut /\ timedOut'
          /\ Len(rxFifo) = 0 /\ loaded' = loaded
      BY <1>5, <1>15, NoneTaken DEF ReadNothing, MoreToRead
    <2>2. ~ StaleReads /\ udr = <<{}, {}>>
      BY <2>1 DEF Inv, DataInv
    <2>3. uart_data' = [uart_data EXCEPT ![index] = {}]
      BY <1>15, <2>2 DEF ReadNothing
    <2>4. ~ Sending'
      BY <1>2, <2>1 DEF Aligned, Sending
    <2>5. CASE index = End
      BY <1>5, <2>1, <2>3, <2>5 DEF Filled
    <2>6. CASE index # End
      <3>1. Arrived' <= End
        BY <1>5, <2>1, <2>6 DEF Arrived
      <3> QED
        BY <2>4, <3>1 DEF Gap
    <2> QED
      BY <2>5, <2>6
  <1> QED
    BY <1>8, <1>9, <1>10, <1>11, <1>12, <1>13, <1>14, <1>15 DEF Next, matrix_scan

-----------------------------------------------------------------------------
(* The theorems.                                                           *)

LEMMA InvInit == Init => Inv
  <1> SUFFICES ASSUME Init PROVE Inv
    OBVIOUS
  <1>1. TypeOK
    BY TypeInit
  <1>2. End \in Nat /\ End >= 2 /\ Len(<<>>) = 0
    BY Places
  <1>3. AlignInv
    BY <1>2 DEF Init, AlignInv, Aligned, Sending, Arrived
  <1>4. SilentInv
    BY DEF Init, SilentInv
  <1>5. ASSUME NEW i \in 0..End PROVE Matches(i, data_buffer[i])
    <2>1. data_buffer[i] = IF i = End THEN EndByte ELSE {}
      BY <1>2 DEF Init, EmptyBuffer, Erased
    <2>2. i # End => shown[HalfOf(i)][RowOf(i)] = {}
      BY <1>2, Places DEF Init, Blank
    <2>3. Unpack({}) = {}
      BY DEF Unpack
    <2> QED
      BY <2>1, <2>2, <2>3 DEF Matches
  <1>6. Whole
    <2>1. index = 0 /\ Len(rxFifo) = 0 /\ ~ Sending
      BY <1>2 DEF Init, Sending
    <2> QED
      BY <2>1 DEF Whole
  <1>7. udr = <<{}, {}>>
    BY DEF Init
  <1> QED
    BY <1>1, <1>3, <1>4, <1>5, <1>6, <1>7 DEF Inv, BufferInv, DataInv

LEMMA Invariant == Spec => []Inv
  <1>1. Inv /\ [Next]_vars => Inv'
    BY TypeStep, AlignStep, SilentStep, BufferStep, DataStep DEF Inv
  <1> QED
    BY InvInit, <1>1, PTL DEF Spec

\* The indices of the receiver's driver and of matrix_scan (matrix.c:106-117) stay
\* within their eleven bytes, whatever is lost, late or restarted.
THEOREM UartTypeCorrect == Spec => []TypeOK
  <1>1. Inv => TypeOK
    BY DEF Inv
  <1> QED
    BY Invariant, <1>1, PTL

\* A request and the answer to it end with the scan that sent the request
\* (matrix.c:95-117, receiver main.c:218-221), unless an answer was late.
THEOREM ScansAreAligned == Spec => []ScansStayAligned
  <1>1. Inv => ScansStayAligned
    <2> SUFFICES ASSUME Inv, pc = "idle", spent["late"] = 0
                 PROVE  rxFifo = <<>> /\ polls = 0 /\ loaded \in {0, End + 1}
      BY DEF ScansStayAligned, Spend
    <2>1. Len(rxFifo) = 0 /\ polls = 0 /\ loaded \notin 1..End
      BY DEF Inv, AlignInv, Aligned, Sending
    <2>2. rxFifo \in Seq(Bytes) /\ loaded \in 0..(End + 1) /\ End \in Nat
      BY Places DEF Inv, TypeOK
    <2> QED
      BY <2>1, <2>2, NoneTaken
  <1> QED
    BY Invariant, <1>1, PTL

LEMMA KeysUnpacked ==
    ASSUME NEW byte \in Bytes
    PROVE  {c \in 0..6 : 7 - c \in byte} = Unpack(byte)
  <1>1. \A b \in byte : b \in 0..7
    BY DEF Bytes, Bits
  <1>2. ASSUME NEW c \in 0..6, 7 - c \in byte PROVE c \in Unpack(byte)
    <2>1. 7 - c \in byte \ {0} /\ c = 7 - (7 - c)
      BY <1>2
    <2> QED
      BY <2>1 DEF Unpack
  <1>3. ASSUME NEW c \in Unpack(byte) PROVE c \in 0..6 /\ 7 - c \in byte
    <2>1. PICK b \in byte \ {0} : c = 7 - b
      BY DEF Unpack
    <2> QED
      BY <1>1, <2>1
  <1> QED
    BY <1>2, <1>3

LEMMA RowParts ==
    ASSUME NEW data \in [0..End -> Bytes], NEW r \in Rows,
           data[2 * r] \subseteq 0..6, data[2 * r + 1] \subseteq 0..6
    PROVE  /\ {c \in 0..6 : c \in MatrixRow(data, r)} = data[2 * r]
           /\ {c \in 0..6 : c + 7 \in MatrixRow(data, r)} = data[2 * r + 1]
  <1>1. ASSUME NEW c \in 0..6
        PROVE  /\ c \in MatrixRow(data, r) <=> c \in data[2 * r]
               /\ c + 7 \in MatrixRow(data, r) <=> c \in data[2 * r + 1]
    <2>1. \A b \in data[2 * r + 1] : b \in 0..6
      OBVIOUS
    <2>2. c \notin {b + 7 : b \in data[2 * r + 1]} /\ c + 7 \notin data[2 * r]
      BY <2>1
    <2>3. c + 7 \in {b + 7 : b \in data[2 * r + 1]} <=> c \in data[2 * r + 1]
      BY <2>1
    <2> QED
      BY <2>2, <2>3 DEF MatrixRow
  <1> QED
    BY <1>1

\* matrix_scan takes the rows only when the eleventh byte is the end byte
\* (matrix.c:121-127): what it takes is one whole answer, and mitosis_uart_handler
\* fills that from the last packets (receiver main.c:127-270).
THEOREM AnswersAreWhole == Spec => MatrixFollowsPackets
  <1> DEFINE Q == \A h \in Halves, r \in Rows :
                     \/ Part(matrix', h, r) = KeysOf(shown[h], r)
                     \/ Part(matrix', h, r) = {} /\ silent[h] > INACTIVE
  <1>1. ASSUME Inv, Accept, spent["late"] = 0, timedOut => ~ StaleReads,
               NEW h \in Halves, NEW r \in Rows
        PROVE  \/ Part(matrix', h, r) = KeysOf(shown[h], r)
               \/ Part(matrix', h, r) = {} /\ silent[h] > INACTIVE
    <2>1. /\ End \in Nat /\ End >= 2 /\ index \in 0..(End + 1)
          /\ uart_data \in [0..End -> Bytes] /\ shown \in [Halves -> [Rows -> Bytes]]
          /\ Len(rxFifo) \in Nat
      BY <1>1, Places DEF Inv, TypeOK
    <2>2. index = End + 1 /\ uart_data[End] = EndByte
      BY <1>1, <2>1 DEF Accept, Return, MoreToRead, Ended
    <2>3. Whole
      <3>1. ~ Gap
        BY <2>1, <2>2 DEF Gap, Arrived
      <3>2. ~ Filled
        BY <2>2 DEF Filled, EndByte
      <3> QED
        BY <1>1, <3>1, <3>2 DEF Inv, DataInv
    <2> DEFINE i == IF h = "left" THEN 2 * r ELSE 2 * r + 1
    <2>4. /\ 2 * r \in 0..(End - 1) /\ HalfOf(2 * r) = "left" /\ RowOf(2 * r) = r
          /\ 2 * r + 1 \in 0..(End - 1) /\ HalfOf(2 * r + 1) = "right"
          /\ RowOf(2 * r + 1) = r
      BY RowsAssumption DEF Rows, End, HalfOf, RowOf
    <2>5. ASSUME NEW k \in 0..(End - 1)
          PROVE  /\ uart_data[k] \subseteq 0..6
                 /\ \/ uart_data[k] = Unpack(shown[HalfOf(k)][RowOf(k)])
                    \/ uart_data[k] = {} /\ silent[HalfOf(k)] > INACTIVE
      <3>1. Matches(k, uart_data[k]) /\ k # End
        BY <2>1, <2>2, <2>3 DEF Whole
      <3>2. shown[HalfOf(k)][RowOf(k)] \in Bytes
        BY <2>1, Places
      <3>3. Unpack(shown[HalfOf(k)][RowOf(k)]) \subseteq 0..6
        BY <3>2, UnpackType
      <3> QED
        BY <3>1, <3>3 DEF Matches
    <2>6. /\ {c \in 0..6 : c \in MatrixRow(uart_data, r)} = uart_data[2 * r]
          /\ {c \in 0..6 : c + 7 \in MatrixRow(uart_data, r)} = uart_data[2 * r + 1]
      BY <2>1, <2>4, <2>5, RowParts
    <2>7. matrix'[r] = MatrixRow(uart_data, r)
      BY <1>1 DEF Accept
    <2>8. Part(matrix', h, r) = uart_data[i]
      <3>1. CASE h = "left"
        BY <2>6, <2>7, <3>1 DEF Part
      <3>2. CASE h # "left"
        BY <2>6, <2>7, <3>2 DEF Part
      <3> QED
        BY <3>1, <3>2
    <2>9. i \in 0..(End - 1) /\ HalfOf(i) = h /\ RowOf(i) = r
      BY <2>4 DEF Halves
    <2>10. KeysOf(shown[h], r) = Unpack(shown[h][r])
      <3>1. shown[h][r] \in Bytes
        BY <2>1
      <3> QED
        BY <3>1, KeysUnpacked DEF KeysOf
    <2> HIDE DEF i
    <2> QED
      BY <2>5, <2>8, <2>9, <2>10
  <1>2. Inv => [Accept /\ spent.late = 0 /\ (timedOut => ~ StaleReads) => Q]_vars
    BY <1>1
  <1> QED
    BY Invariant, <1>2, PTL DEF MatrixFollowsPackets
=============================================================================
