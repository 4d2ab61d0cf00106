------------------------- MODULE UartLinkProperties -------------------------
(***************************************************************************)
(* What reaches QMK's matrix over the link of module UartLink.             *)
(***************************************************************************)
EXTENDS UartLink

Columns == 0..14

\* The type of every variable of UartLink: indices stay within the buffers of both
\* sides, and the receive FIFO within its capacity.
TypeOK ==
    /\ data_payload \in [Halves -> [Rows -> Bytes]]
    /\ packet_received \in [Halves -> BOOLEAN]
    /\ active \in [Halves -> 0..INACTIVE]
    /\ data_buffer \in [0..End -> Bytes]
    /\ loaded \in 0..(End + 1)
    /\ polls \in Nat
    /\ rxFifo \in Seq(Bytes)
    /\ Len(rxFifo) <= RxCap
    /\ udr \in Bytes \X Bytes
    /\ pc \in {"idle", "scan"}
    /\ index \in 0..(End + 1)
    /\ timedOut \in BOOLEAN
    /\ uart_data \in [0..End -> Bytes]
    /\ matrix \in [Rows -> SUBSET Columns]
    /\ shown \in [Halves -> [Rows -> Bytes]]
    /\ silent \in [Halves -> 0..(INACTIVE + 1)]
    /\ spent \in [Faults -> Nat]

\* The keys of a half in a matrix, and in the packet of a half: column c of the half
\* is bit 7 - c of the packet's byte.
Part(m, h, r) == {c \in 0..6 : (IF h = "left" THEN c ELSE c + 7) \in m[r]}
KeysOf(state, r) == {c \in 0..6 : 7 - c \in state[r]}

\* A matrix that is taken shows, of each half, exactly the keys of the packet the
\* receiver had last, and none once the half has been silent for longer than
\* INACTIVE; in the poll that notices the silence each row is one or the other.
\* Lost bytes, a busy driver and restarts included: an answer with a gap is refused.
\* (A scan that timed out is left out where the data register shows old bytes.)
MatrixFollowsPackets ==
    [][Accept /\ spent.late = 0 /\ (timedOut => ~ StaleReads) =>
          \A h \in Halves, r \in Rows :
              \/ Part(matrix', h, r) = KeysOf(shown[h], r)
              \/ Part(matrix', h, r) = {} /\ silent[h] > INACTIVE]_vars

\* Between two scans nothing of an answer is left over, in QMK's buffer or on its
\* way, so the next scan starts with the first byte of its own answer.  (After a
\* timeout that came while an answer was on its way, nothing realigns them.)
ScansStayAligned ==
    pc = "idle" /\ spent.late = 0 =>
        rxFifo = <<>> /\ polls = 0 /\ loaded \in {0, End + 1}

-----------------------------------------------------------------------------
\* QMK scans for ever, the receiver's interrupts are served.
Fairness ==
    /\ WF_vars(matrix_scan)
    /\ WF_vars(mitosis_uart_handler)
    /\ WF_vars(SendNext)
    /\ WF_vars(SendDone)

FairSpec == Spec /\ Fairness

\* After lost bytes, refused transfers and restarts, scans are accepted again and
\* again, and a half that went silent, asleep or out of range, has no key down in
\* the matrix from time to time (what a scan that timed out makes up aside).
SilentHalfReleased ==
    \A h \in Halves :
        \/ []<><<Accept>>_vars /\ []<>(\A r \in Rows : Part(matrix, h, r) = {})
        \/ []<><<PacketReceived(h)>>_vars
        \/ <>(spent.late > 0)

-----------------------------------------------------------------------------
\* matrix.c:119 "the key state bytes use the LSBs, so 0xE0 will only show up here if
\* the correct bytes were recieved": a matrix is taken only from the bytes of one
\* answer.
EndByteProvesAnswer ==
    [][Accept => \A h \in Halves, r \in Rows :
          Part(matrix', h, r) \in {KeysOf(shown[h], r), {}}]_vars
=============================================================================
