------------------------------- MODULE Sender -------------------------------
(* reliable_sender (mp2/src/sender_main.c): the congestion control state   *)
(* machine of reliablyTransfer and the three helpers it calls.  One pass   *)
(* of its while loop is a receive step, a control step and a transmit      *)
(* step; spc says which comes next.                                        *)
(*                                                                         *)
(* Variables have the names of the C globals and locals (State is STATE, a  *)
(* keyword of TLA+).  The clock is                                         *)
(* left out: SENT_TIMES holds absolute times, differences of times,        *)
(* uninitialised memory or bytes written over it by the memcpy into        *)
(* SEND_BUFFER, so that checkTimeout may return either value in any pass.  *)
(* The slots of SEND_BUFFER are malloc(sizeof(segment)), with no room for  *)
(* file bytes; SlotBytes makes that a parameter (0 in the code).           *)
EXTENDS Wire

CONSTANTS
    InitialSSTHRESH,  \* 64000 in the code
    SlotBytes,        \* file bytes that a slot of SEND_BUFFER has room for
    WindowBound       \* bound on what duplicate acks may inflate the window to

ASSUME SenderAssumption ==
    /\ InitialSSTHRESH \in Nat
    /\ SlotBytes \in Nat
    /\ WindowBound \in Nat

VARIABLES
    spc, State, CWND, SSTHRESH, DUP_COUNT, CWND_START, NEXT_BYTE_TO_SEND,
    LAST_ACK_RECV, BUFFER_IDX, idx_timer_started, num_pkts_acked,
    fp,               \* bytes already read from the file by sendPacket
    transmit, curr_ack_type

window == <<State, CWND, SSTHRESH, DUP_COUNT, CWND_START>>
progress == <<LAST_ACK_RECV, num_pkts_acked>>
sent == <<NEXT_BYTE_TO_SEND, BUFFER_IDX, idx_timer_started, fp>>
senderVars == <<spc, window, progress, sent, transmit, curr_ack_type>>

num_segments == bytesToTransfer \div MSS
                + (IF bytesToTransfer % MSS # 0 THEN 1 ELSE 0)

(* Where the process is: "start" before the first sendPacket; "segv" and   *)
(* "fpe" are deaths by a bad pointer and by an integer division by zero,   *)
(* "abort" by the allocator at the final fclose.                           *)
Running == {"start", "recv", "control", "transmit", "fin", "finwait"}
Stopped == {"done", "segv", "fpe", "abort"}

SenderTypeOK ==
    /\ spc \in Running \cup Stopped
    /\ State \in {"S", "C", "F"}
    /\ CWND \in Nat /\ SSTHRESH \in Nat /\ DUP_COUNT \in Nat
    /\ CWND_START \in Nat \ {0}
    /\ NEXT_BYTE_TO_SEND \in Nat \ {0} /\ LAST_ACK_RECV \in Nat \ {0}
    /\ BUFFER_IDX \in Nat /\ num_pkts_acked \in Nat /\ fp \in Nat
    /\ idx_timer_started \in Nat \cup {-1}
    /\ transmit \in {-1, 0, 1}
    /\ curr_ack_type \in {-1, 0, 1}

SenderInit ==
    /\ spc = "start"
    /\ State = "S" /\ CWND = MSS /\ SSTHRESH = InitialSSTHRESH
    /\ DUP_COUNT = 0 /\ CWND_START = 1
    /\ NEXT_BYTE_TO_SEND = 1 /\ LAST_ACK_RECV = 1
    /\ BUFFER_IDX = 0 /\ num_pkts_acked = 0 /\ fp = 0
    /\ idx_timer_started = -1
    /\ transmit = 0
    /\ curr_ack_type = -1

(* Mutant: the loop is left with the last segment under way.               *)
LoopHeadEarly == IF LAST_ACK_RECV + MSS < bytesToTransfer THEN "recv" ELSE "fin"

(* The test of the while loop.                                             *)
LoopHead == IF LAST_ACK_RECV < bytesToTransfer THEN "recv" ELSE "fin"

-----------------------------------------------------------------------------
(* receivePacket                                                           *)

(* Mutants: an ack of nothing new counts as new; so does any old one.      *)
desired_ack_numNotNew == LAST_ACK_RECV
desired_ack_numFirst == IF MSS > bytesToTransfer THEN bytesToTransfer ELSE MSS

desired_ack_num == IF LAST_ACK_RECV + MSS > bytesToTransfer
                   THEN bytesToTransfer ELSE LAST_ACK_RECV + MSS

(* recvfrom is given room for the digits of the ack it waits for: a longer *)
(* numeral loses its last digits.                                          *)
Reading(ack, digits) ==
    IF Digits(ack) <= digits THEN ack
    ELSE CHOOSE n \in Numbers :
            /\ Digits(n) = digits
            /\ \A p \in 1..digits : Text[n][p] = Text[ack][p]

ack_num(ack) == Reading(ack, Digits(desired_ack_num))

ReceiveNewAck(ack) ==
    /\ spc = "recv"
    /\ ack_num(ack) >= desired_ack_num
    /\ LAST_ACK_RECV' = ack_num(ack)
    /\ num_pkts_acked' = num_pkts_acked + 1
    /\ curr_ack_type' = 1
    /\ spc' = IF ack_num(ack) >= bytesToTransfer THEN "fin" ELSE "control"
    /\ UNCHANGED <<window, sent, transmit, wireVars>>

ReceiveDupAck(ack) ==
    /\ spc = "recv"
    /\ ack_num(ack) < desired_ack_num
    /\ ack_num(ack) = LAST_ACK_RECV
    /\ curr_ack_type' = 0
    /\ spc' = "control"
    /\ UNCHANGED <<window, progress, sent, transmit, wireVars>>

(* The 40 ms receive timeout ran out, or the ack is an old or a cut one.   *)
ReceiveNoAck ==
    /\ spc = "recv"
    /\ curr_ack_type' = -1
    /\ spc' = "control"
    /\ UNCHANGED <<window, progress, sent, transmit, wireVars>>

ReceivePacket ==
    \/ \E ack \in toSender \ {Fin} : ReceiveNewAck(ack) \/ ReceiveDupAck(ack)
    \/ ReceiveNoAck

-----------------------------------------------------------------------------
(* The state machine of reliablyTransfer, in the order of its tests.  A    *)
(* pass that takes none of the branches keeps the old value of transmit.   *)

Decide(action) ==
    /\ spc = "control"
    /\ transmit' = action
    /\ spc' = IF action = -1 THEN "recv" ELSE "transmit"
    /\ UNCHANGED <<progress, sent, curr_ack_type, wireVars>>

(* Mutant: the timeout does not retransmit.                                *)
OnTimeoutSilent ==
    /\ Decide(-1)
    /\ State' = "S"
    /\ SSTHRESH' = CWND \div 2
    /\ CWND' = IF State = "F" THEN 1 ELSE MSS
    /\ DUP_COUNT' = 0
    /\ UNCHANGED CWND_START

OnTimeout ==
    /\ Decide(0)
    /\ State' = "S"
    /\ SSTHRESH' = CWND \div 2
    /\ CWND' = IF State = "F" THEN 1 ELSE MSS
    /\ DUP_COUNT' = 0
    /\ UNCHANGED CWND_START

OnTripleDup ==
    /\ State \in {"S", "C"} /\ DUP_COUNT = 3
    /\ Decide(0)
    /\ State' = "F"
    /\ SSTHRESH' = CWND \div 2
    /\ CWND' = CWND \div 2 + 3 * MSS
    /\ UNCHANGED <<DUP_COUNT, CWND_START>>

(* Leaving slow start takes a pass of its own and drops the ack it read.   *)
LeaveSlowStart ==
    /\ State = "S" /\ DUP_COUNT # 3 /\ CWND >= SSTHRESH
    /\ Decide(-1)
    /\ State' = "C"
    /\ UNCHANGED <<CWND, SSTHRESH, DUP_COUNT, CWND_START>>

(* Mutant: the ack is looked at before the triple duplicate.               *)
ReadsAckFirst == State = "S" => CWND < SSTHRESH

(* The pass reads the ack it received: no test before that one holds.      *)
ReadsAck == \/ State = "F"
            \/ State = "C" /\ DUP_COUNT # 3
            \/ State = "S" /\ DUP_COUNT # 3 /\ CWND < SSTHRESH

OnNewAckGrow ==
    /\ ReadsAck /\ curr_ack_type = 1
    /\ \/ State = "S" /\ CWND' = CWND + MSS
       \/ State = "C" /\ CWND > 0 /\ CWND' = CWND + MSS * (MSS \div CWND)
    /\ Decide(1)
    /\ CWND_START' = CWND_START + MSS
    /\ DUP_COUNT' = 0
    /\ UNCHANGED <<State, SSTHRESH>>

OnNewAckDivideByZero ==
    /\ ReadsAck /\ curr_ack_type = 1
    /\ State = "C" /\ CWND = 0
    /\ spc = "control" /\ spc' = "fpe"
    /\ UNCHANGED <<window, progress, sent, transmit, curr_ack_type, wireVars>>

OnNewAckRecovered ==
    /\ State = "F" /\ curr_ack_type = 1
    /\ Decide(-1)
    /\ State' = "C"
    /\ CWND' = SSTHRESH
    /\ DUP_COUNT' = 0
    /\ UNCHANGED <<SSTHRESH, CWND_START>>

OnDupAckCount ==
    /\ State # "F" /\ ReadsAck /\ curr_ack_type = 0
    /\ Decide(-1)
    /\ DUP_COUNT' = DUP_COUNT + 1
    /\ UNCHANGED <<State, CWND, SSTHRESH, CWND_START>>

OnDupAckInflate ==
    /\ State = "F" /\ curr_ack_type = 0
    /\ CWND_START + CWND + 2 * MSS <= WindowBound
    /\ Decide(1)
    /\ CWND' = CWND + MSS
    /\ CWND_START' = CWND_START + MSS
    /\ UNCHANGED <<State, SSTHRESH, DUP_COUNT>>

OnNothing ==
    /\ ReadsAck /\ curr_ack_type = -1
    /\ Decide(transmit)
    /\ UNCHANGED window

Control ==
    \/ OnTimeout \/ OnTripleDup \/ LeaveSlowStart
    \/ OnNewAckGrow \/ OnNewAckDivideByZero \/ OnNewAckRecovered
    \/ OnDupAckCount \/ OnDupAckInflate \/ OnNothing

-----------------------------------------------------------------------------
(* sendPacket and retransmitPacket                                         *)

InWindow == /\ NEXT_BYTE_TO_SEND >= CWND_START
            /\ NEXT_BYTE_TO_SEND < CWND_START + CWND

(* Mutant: the last segment is as long as the others.                      *)
NewLengthFull == MSS

(* The length of a new segment, with the + 1 of the code.                  *)
NewLength == IF MSS + NEXT_BYTE_TO_SEND + 1 > bytesToTransfer
             THEN bytesToTransfer - NEXT_BYTE_TO_SEND + 1 ELSE MSS

(* An earlier copy into SEND_BUFFER has run past its slot (a segment has   *)
(* up to MSS + 1 bytes).                                                   *)
Overrun == BUFFER_IDX > 0 /\ SlotBytes <= MSS /\ SlotBytes < bytesToTransfer

(* Where the bytes that fread returns come from: the place the file is at, *)
(* or an earlier one if the copy of an earlier segment lies over the       *)
(* buffer of fp.                                                           *)
ReadFrom == IF Overrun THEN 1..(fp + 1) ELSE {fp + 1}

(* sendPacket called from location "from", to return to location "to".     *)
SendPacketOutOfWindow(from, to) ==
    /\ spc = from /\ ~InWindow
    /\ spc' = to
    /\ UNCHANGED <<window, progress, sent, transmit, curr_ack_type, wireVars>>

(* SENT_TIMES[BUFFER_IDX] is past the array.                               *)
SendPacketPastBuffer(from) ==
    /\ spc = from /\ InWindow /\ BUFFER_IDX >= num_segments
    /\ spc' = "segv"
    /\ UNCHANGED <<window, progress, sent, transmit, curr_ack_type, wireVars>>

SendPacketNew(from, to) ==
    /\ spc = from /\ InWindow /\ BUFFER_IDX < num_segments
    /\ \E first \in ReadFrom : toReceiver' = toReceiver \cup
           {[seq |-> NEXT_BYTE_TO_SEND, from |-> first, len |-> NewLength]}
    /\ idx_timer_started' = IF idx_timer_started = -1
                            THEN BUFFER_IDX ELSE idx_timer_started
    /\ fp' = fp + NewLength
    /\ NEXT_BYTE_TO_SEND' = NEXT_BYTE_TO_SEND + NewLength
    /\ BUFFER_IDX' = BUFFER_IDX + 1
    /\ spc' = to
    /\ UNCHANGED <<window, progress, transmit, curr_ack_type, toSender>>

SendPacket(from, to) ==
    \/ SendPacketOutOfWindow(from, to)
    \/ SendPacketPastBuffer(from)
    \/ SendPacketNew(from, to)

Start == SendPacket("start", LoopHead)

TransmitNew == transmit = 1 /\ SendPacket("transmit", LoopHead)

(* With the timer started, retransmitPacket reads the time of the segment  *)
(* before the first unacknowledged one: SENT_TIMES[-1] if none is.         *)
RetransmitPastBuffer ==
    /\ spc = "transmit" /\ transmit = 0
    /\ idx_timer_started # -1 /\ num_pkts_acked = 0
    /\ spc' = "segv"
    /\ UNCHANGED <<window, progress, sent, transmit, curr_ack_type, wireVars>>

RetransmitPacket ==
    /\ spc = "transmit" /\ transmit = 0
    /\ idx_timer_started = -1 \/ num_pkts_acked > 0
    /\ toReceiver' = toReceiver \cup
           {[seq  |-> LAST_ACK_RECV,
             from |-> LAST_ACK_RECV,
             len  |-> IF LAST_ACK_RECV + MSS > bytesToTransfer
                      THEN bytesToTransfer - LAST_ACK_RECV + 1 ELSE MSS]}
    /\ idx_timer_started' = IF idx_timer_started = -1
                            THEN num_pkts_acked ELSE idx_timer_started
    /\ spc' = LoopHead
    /\ UNCHANGED <<window, progress, transmit, curr_ack_type, toSender,
                   NEXT_BYTE_TO_SEND, BUFFER_IDX, fp>>

Transmit == TransmitNew \/ RetransmitPastBuffer \/ RetransmitPacket

-----------------------------------------------------------------------------
(* The closing loop: '-' is sent, and sent again on every receive timeout  *)
(* and on every datagram that does not begin with '-'.                     *)

SendFin ==
    /\ spc = "fin"
    /\ toReceiver' = toReceiver \cup {FinDatagram}
    /\ spc' = "finwait"
    /\ UNCHANGED <<window, progress, sent, transmit, curr_ack_type, toSender>>

(* Mutant: FIN is sent once.                                               *)
NoFinAckWaits ==
    /\ spc = "finwait"
    /\ UNCHANGED <<senderVars, wireVars>>

NoFinAck ==
    /\ spc = "finwait"
    /\ spc' = "fin"
    /\ UNCHANGED <<window, progress, sent, transmit, curr_ack_type, wireVars>>

(* Mutant: the answer to FIN does not end the loop.                        *)
ReceiveFinAckGoesOn ==
    /\ spc = "finwait" /\ Fin \in toSender
    /\ spc' = "fin"
    /\ UNCHANGED <<window, progress, sent, transmit, curr_ack_type, wireVars>>

(* fclose(fp) frees a buffer that a copy into SEND_BUFFER may have run over. *)
ReceiveFinAck ==
    /\ spc = "finwait" /\ Fin \in toSender
    /\ spc' \in IF Overrun THEN {"done", "abort"} ELSE {"done"}
    /\ UNCHANGED <<window, progress, sent, transmit, curr_ack_type, wireVars>>

Finish == SendFin \/ NoFinAck \/ ReceiveFinAck

SenderNext == Start \/ ReceivePacket \/ Control \/ Transmit \/ Finish

=============================================================================
