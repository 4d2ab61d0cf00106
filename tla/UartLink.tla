------------------------------ MODULE UartLink ------------------------------
(***************************************************************************)
(* From the decrypted packet to the QMK matrix.  The receiver's radio      *)
(* callback leaves a half's key states in data_payload; when QMK polls     *)
(* with an 's', mitosis_uart_handler copies new states to data_buffer and  *)
(* has the UART driver send it.  The driver reads the buffer byte by byte  *)
(* as it sends; QMK's matrix_scan reads eleven bytes, with one timeout for *)
(* all of them, and takes them if the last is the end byte.                *)
(*                                                                         *)
(* A byte is the set of its bits.  Handler, callback and the driver's own  *)
(* interrupts have one priority and run one after the other.               *)
(***************************************************************************)
EXTENDS Integers, Sequences

CONSTANTS
    ROWS,           \* rows of a half (5)
    INACTIVE,       \* bytes handled without a packet before a half is released
    KeyStates,      \* the key states the packets of each half may carry
    RxCap,          \* bytes QMK's UART keeps (two, and one being shifted in)
    StaleReads,     \* whether its empty data register still shows old bytes
    MaxLost,        \* bound: bytes lost on the wire or to a full receive buffer
    MaxLate,        \* bound: timeouts while an answer is on its way
    MaxError        \* bound: UART errors at the receiver, which restarts

Halves == {"left", "right"}
Rows == 0..(ROWS - 1)
Bits == 0..7
Bytes == SUBSET Bits

ASSUME RowsAssumption == ROWS \in Nat \ {0}
ASSUME KeyStatesAssumption == KeyStates \in [Halves -> SUBSET [Rows -> Bytes]]
ASSUME LimitsAssumption ==
    /\ INACTIVE \in Nat
    /\ RxCap \in Nat \ {0}
    /\ StaleReads \in BOOLEAN
    /\ {MaxLost, MaxLate, MaxError} \subseteq Nat

VARIABLES
    \* The receiver.
    data_payload,       \* data_payload_left, data_payload_right
    packet_received,    \* left_stats, right_stats: a packet since the last poll
    active,             \* bytes handled since the last packet
    data_buffer,        \* the bytes for QMK
    loaded,             \* bytes of the transfer handed to the UART (0: none runs)
    \* The wire and QMK.
    polls,              \* requests on their way to the receiver
    rxFifo,             \* bytes QMK's UART has received
    udr,                \* the two bytes it held last
    pc, index,          \* where matrix_scan is
    timedOut,           \* timeout > 10000
    uart_data,
    matrix,
    \* Ghosts, and the environment's budget.
    shown,              \* the key states of each half copied last
    silent,             \* bytes handled since the last packet, for ever
    spent

rcvVars  == <<data_payload, packet_received, active, data_buffer, loaded>>
scanVars == <<pc, index, timedOut, uart_data, matrix>>
ghosts   == <<shown, silent>>
vars == <<rcvVars, polls, rxFifo, udr, scanVars, ghosts, spent>>

End == 2 * ROWS                         \* index of the end byte (10)
EndByte == {5, 6, 7}                    \* 0xE0
Blank == [r \in Rows |-> {}]
Erased == [i \in 0..End |-> {}]
EmptyBuffer == [Erased EXCEPT ![End] = EndByte]

Faults == {"lost", "late", "error"}
Budget == [lost |-> MaxLost, late |-> MaxLate, error |-> MaxError]
Spend(f) ==
    /\ spent[f] < Budget[f]
    /\ spent' = [spent EXCEPT ![f] = @ + 1]

Init ==
    /\ data_payload = [h \in Halves |-> Blank]
    /\ packet_received = [h \in Halves |-> FALSE]
    /\ active = [h \in Halves |-> 0]
    /\ data_buffer = EmptyBuffer
    /\ loaded = 0
    /\ polls = 0
    /\ rxFifo = <<>>
    /\ udr = <<{}, {}>>
    /\ pc = "idle"
    /\ index = 0
    /\ timedOut = FALSE
    /\ uart_data = Erased
    /\ matrix = [r \in Rows |-> {}]
    /\ shown = [h \in Halves |-> Blank]
    /\ silent = [h \in Halves |-> 0]
    /\ spent = [f \in Faults |-> 0]

-----------------------------------------------------------------------------
(* The receiver.                                                           *)

\* The radio callback has accepted and decrypted a packet.
PacketReceived(h) ==
    /\ data_payload' \in {[data_payload EXCEPT ![h] = s] : s \in KeyStates[h]}
    /\ packet_received' = [packet_received EXCEPT ![h] = TRUE]
    /\ active' = [active EXCEPT ![h] = 0]
    /\ UNCHANGED <<data_buffer, loaded, polls, rxFifo, udr, scanVars, ghosts, spent>>

\* A row travels with its first column in bit 7 and is sent with it in bit 0.
Unpack(byte) == {7 - b : b \in byte \ {0}}
\* Even bytes are the left half's rows, odd bytes the right half's.
HalfOf(i) == IF i % 2 = 0 THEN "left" ELSE "right"
RowOf(i) == i \div 2

Copied ==
    [i \in 0..End |->
        IF i # End /\ packet_received[HalfOf(i)]
        THEN Unpack(data_payload[HalfOf(i)][RowOf(i)])
        ELSE data_buffer[i]]

Released(buffer) ==
    [i \in 0..End |->
        IF i # End /\ active[HalfOf(i)] + 1 > INACTIVE THEN {} ELSE buffer[i]]

\* left_active++, and back to 0 when the half is released.
Uncapped(h) == active[h] + 1                \* mutant: the release does not reset it
BytesSincePacket(h) == IF active[h] + 1 > INACTIVE THEN 0 ELSE active[h] + 1

FlagKept == UNCHANGED packet_received       \* mutant: the packet counts as new again
FlagCleared == packet_received' = [h \in Halves |-> FALSE]

\* A byte reaches QMK's UART; a full buffer drops it.  While QMK is scanning it
\* keeps up with the bytes, but for the losses of the budget.
Receive(byte) ==
    IF Len(rxFifo) < RxCap
    THEN rxFifo' = Append(rxFifo, byte) /\ UNCHANGED spent
    ELSE UNCHANGED rxFifo /\ IF pc = "scan" THEN Spend("lost") ELSE UNCHANGED spent

\* nrf_drv_uart_tx loads the first byte and returns; it refuses a second transfer
\* while one runs.  The release comes after it, in the same interrupt.
mitosis_uart_handler ==
    /\ polls > 0
    /\ polls' = polls - 1
    /\ FlagCleared
    /\ data_buffer' = Released(Copied)
    /\ active' = [h \in Halves |-> BytesSincePacket(h)]
    /\ IF loaded = 0
       THEN loaded' = 1 /\ Receive(Copied[0])
       ELSE UNCHANGED <<loaded, rxFifo, spent>>
    /\ shown' = [h \in Halves |-> IF packet_received[h] THEN data_payload[h] ELSE shown[h]]
    /\ silent' = [h \in Halves |->
                     IF packet_received[h] THEN 1
                     ELSE IF silent[h] > INACTIVE THEN silent[h] ELSE silent[h] + 1]
    /\ UNCHANGED <<data_payload, udr, scanVars>>

\* The driver's transmit interrupt: the next byte, as the buffer holds it now.
SendNext ==
    /\ loaded \in 1..End
    /\ loaded' = loaded + 1
    /\ \/ Receive(data_buffer[loaded])
       \/ Spend("lost") /\ UNCHANGED rxFifo
    /\ UNCHANGED <<data_payload, packet_received, active, data_buffer, polls, udr,
                   scanVars, ghosts>>

\* It may come after the next poll: the handler then finds the driver busy.
SendDone ==
    /\ loaded = End + 1
    /\ loaded' = 0
    /\ UNCHANGED <<data_payload, packet_received, active, data_buffer, polls,
                   rxFifo, udr, scanVars, ghosts, spent>>

\* APP_UART_COMMUNICATION_ERROR: the error handler restarts the receiver.
CommunicationError ==
    /\ Spend("error")
    /\ data_payload' = [h \in Halves |-> Blank]
    /\ packet_received' = [h \in Halves |-> FALSE]
    /\ active' = [h \in Halves |-> 0]
    /\ data_buffer' = EmptyBuffer
    /\ loaded' = 0
    /\ polls' = 0
    /\ silent' = [h \in Halves |-> INACTIVE + 1]
    /\ UNCHANGED <<rxFifo, udr, scanVars, shown>>

-----------------------------------------------------------------------------
(* QMK's matrix_scan.  SERIAL_UART_INIT sets the UART up again and does    *)
(* not empty its receive buffer.                                           *)

ScanBegin ==
    /\ pc = "idle"
    /\ pc' = "scan"
    /\ \/ polls' = polls + 1 /\ UNCHANGED spent
       \/ Spend("lost") /\ UNCHANGED polls
    /\ UNCHANGED <<rcvVars, rxFifo, udr, index, timedOut, uart_data, matrix, ghosts>>

OneShort == index < End                     \* mutant: the end byte is left unread
MoreToRead == index <= End

ReadByte ==
    /\ pc = "scan"
    /\ MoreToRead
    /\ rxFifo # <<>>
    /\ uart_data' = [uart_data EXCEPT ![index] = Head(rxFifo)]
    /\ index' = index + 1
    /\ rxFifo' = Tail(rxFifo)
    /\ udr' = IF StaleReads THEN <<Head(rxFifo), udr[1]>> ELSE udr
    /\ UNCHANGED <<rcvVars, polls, pc, timedOut, matrix, ghosts, spent>>

NothingComes == polls = 0 /\ loaded \in {0, End + 1}

\* No byte within the time for the whole scan: none is on its way, or it is late.
TimeOut ==
    /\ pc = "scan"
    /\ MoreToRead
    /\ rxFifo = <<>>
    /\ ~ timedOut
    /\ timedOut' = TRUE
    /\ \/ NothingComes /\ UNCHANGED spent
       \/ ~ NothingComes /\ Spend("late")
    /\ UNCHANGED <<rcvVars, polls, rxFifo, udr, pc, index, uart_data, matrix, ghosts>>

\* From then on every byte is read at once, received or not.  What an empty data
\* register shows is not specified: one of the last bytes, or nothing (StaleReads).
ReadNothing ==
    /\ pc = "scan"
    /\ MoreToRead
    /\ rxFifo = <<>>
    /\ timedOut
    /\ \E byte \in {udr[1], udr[2]} : uart_data' = [uart_data EXCEPT ![index] = byte]
    /\ index' = index + 1
    /\ UNCHANGED <<rcvVars, polls, rxFifo, udr, pc, timedOut, matrix, ghosts, spent>>

\* Columns 0..6 are the left half's, 7..13 the right half's.
MatrixRow(data, r) == data[2 * r] \cup {b + 7 : b \in data[2 * r + 1]}

AnyEnd(data) == TRUE                        \* mutant: the end byte is not checked
Ended(data) == data[End] = EndByte

\* The variables of the call are gone when it returns.
Return ==
    /\ pc = "scan"
    /\ ~ MoreToRead
    /\ pc' = "idle"
    /\ index' = 0
    /\ timedOut' = FALSE
    /\ uart_data' = Erased
    /\ UNCHANGED <<rcvVars, polls, rxFifo, udr, ghosts, spent>>

Accept ==
    /\ Return
    /\ Ended(uart_data)
    /\ matrix' = [r \in Rows |-> MatrixRow(uart_data, r)]

Reject ==
    /\ Return
    /\ ~ Ended(uart_data)
    /\ UNCHANGED matrix

matrix_scan ==
    \/ ScanBegin \/ ReadByte \/ TimeOut \/ ReadNothing \/ Accept \/ Reject

Next ==
    \/ \E h \in Halves : PacketReceived(h)
    \/ mitosis_uart_handler \/ SendNext \/ SendDone \/ CommunicationError
    \/ matrix_scan

Spec == Init /\ [][Next]_vars
=============================================================================
