-------------------------- MODULE Transport_proofs --------------------------
(* Safety of a file transfer for every segment size, file and numeral      *)
(* system that satisfies the assumptions of Wire and Sender.               *)
EXTENDS Transport, SequenceTheorems, TLAPS

-----------------------------------------------------------------------------
(* Arithmetic of segments                                                  *)

LEMMA Quotient ==
    /\ bytesToTransfer \div MSS \in Nat
    /\ bytesToTransfer = MSS * (bytesToTransfer \div MSS) + (bytesToTransfer % MSS)
    /\ bytesToTransfer % MSS \in 0..(MSS - 1)
BY SizeAssumption, SMT

LEMMA TimesMonotone ==
    ASSUME NEW a \in Nat, NEW b \in Nat, a <= b, NEW c \in Nat
    PROVE  a * c <= b * c
BY SMT

(* The times array has an entry for exactly the segments that begin inside *)
(* the file.                                                               *)
LEMMA SegmentIndex ==
    ASSUME NEW b \in Nat
    PROVE  b < num_segments <=> b * MSS < bytesToTransfer
<1> DEFINE q == bytesToTransfer \div MSS
           r == bytesToTransfer % MSS
<1>1. q \in Nat /\ r \in 0..(MSS - 1) /\ bytesToTransfer = MSS * q + r
  BY Quotient
<1>2. MSS \in Nat \ {0}
  BY SizeAssumption
<1>3. num_segments = q + (IF r # 0 THEN 1 ELSE 0)
  BY DEF num_segments
<1> HIDE DEF q, r
<1>4. b * MSS \in Nat /\ q * MSS \in Nat /\ q * MSS = MSS * q
  BY <1>1, <1>2
<1>5. CASE b < q
  <2>1. (b + 1) * MSS <= q * MSS
    BY <1>1, <1>2, <1>5, TimesMonotone
  <2>2. (b + 1) * MSS = b * MSS + MSS
    BY <1>2
  <2> QED BY <2>1, <2>2, <1>1, <1>2, <1>3, <1>4, <1>5
<1>6. CASE b = q
  BY <1>1, <1>2, <1>3, <1>4, <1>6
<1>7. CASE b > q
  <2>1. (q + 1) * MSS <= b * MSS
    BY <1>1, <1>2, <1>7, TimesMonotone
  <2>2. (q + 1) * MSS = q * MSS + MSS
    BY <1>1, <1>2
  <2> QED BY <2>1, <2>2, <1>1, <1>2, <1>3, <1>4, <1>7
<1> QED BY <1>1, <1>5, <1>6, <1>7

(* A numeral that recvfrom cuts short is that of a number that is no       *)
(* larger.                                                                 *)
LEMMA ReadingBounded ==
    ASSUME NEW ack \in Numbers, NEW n \in Numbers
    PROVE  Reading(ack, Digits(n)) \in 1..ack
<1>1. CASE Digits(ack) <= Digits(n)
  BY <1>1 DEF Reading, Numbers
<1>2. CASE ~(Digits(ack) <= Digits(n))
  <2> DEFINE d == Digits(n)
             Cut(m) == /\ Digits(m) = d
                       /\ \A p \in 1..d : Text[m][p] = Text[ack][p]
  <2>1. d \in 1..Digits(ack) /\ d < Digits(ack)
    BY <1>2, NumeralAssumption DEF AreNumerals, Digits
  <2>2. PICK m \in 1..ack : Cut(m)
    BY <2>1, NumeralAssumption DEF AreNumerals, Digits
  <2>3. m \in Numbers
    BY SizeAssumption DEF Numbers
  <2>4. \A k \in Numbers : Cut(k) => k = m
    BY <2>2, <2>3, NumeralAssumption DEF AreNumerals, Digits
  <2>5. Reading(ack, d) = CHOOSE k \in Numbers : Cut(k)
    BY <1>2 DEF Reading
  <2> HIDE DEF Cut
  <2>6. (CHOOSE k \in Numbers : Cut(k)) = m
    BY <2>2, <2>3, <2>4
  <2> QED BY <2>2, <2>5, <2>6
<1> QED BY <1>1, <1>2

-----------------------------------------------------------------------------
(* The inductive invariant                                                 *)

DataSent == toReceiver \ {FinDatagram}

(* sendPacket reads the file in step with the numbers it sends, a whole    *)
(* segment per buffer slot until the last one.                             *)
SendInv ==
    /\ fp = NEXT_BYTE_TO_SEND - 1
    /\ \/ NEXT_BYTE_TO_SEND = 1 + BUFFER_IDX * MSS
       \/ NEXT_BYTE_TO_SEND = bytesToTransfer + 1

SegmentInv ==
    \A m \in DataSent :
        /\ m \in Datagram
        /\ m.seq \in 1..(bytesToTransfer + 1)
        /\ m.from \in 1..m.seq
        /\ ~Overrun \/ m.seq = 1 => m.from = m.seq
        /\ m.seq + m.len - 1 <= bytesToTransfer

(* Inside the loop every counted ack has moved LAST_ACK_RECV by a segment. *)
LoopInv ==
    /\ spc \in {"recv", "control", "transmit"} =>
           LAST_ACK_RECV < bytesToTransfer
    /\ spc \in {"start", "recv", "control", "transmit"} =>
           1 + num_pkts_acked * MSS <= LAST_ACK_RECV

(* The awaited number is the position after the last written byte.         *)
ReceiverInv ==
    /\ rpc = "loop" => ACK_TO_SEND = Len(written) + 1
    /\ rpc = "done" => ACK_TO_SEND = Fin

IInv ==
    /\ TypeOK
    /\ SendInv
    /\ SegmentInv
    /\ LoopInv
    /\ ReceiverInv
    /\ AckSound

USE SizeAssumption, SenderAssumption

LEMMA InitIInv == Init => IInv
<1> SUFFICES ASSUME Init PROVE IInv
  OBVIOUS
<1> USE DEF Init, SenderInit, ReceiverInit, WireInit
<1>1. TypeOK
  <2>1. SenderTypeOK
    BY DEF SenderTypeOK, Running, Stopped
  <2>2. ReceiverTypeOK
    <3>1. 1 \in Numbers
      BY DEF Numbers
    <3>2. <<>> \in Seq(0..bytesToTransfer)
      OBVIOUS
    <3>3. heard \in BOOLEAN
      OBVIOUS
    <3> QED BY <3>1, <3>2, <3>3 DEF ReceiverTypeOK
  <2> QED BY <2>1, <2>2 DEF TypeOK
<1>2. SendInv /\ SegmentInv /\ LoopInv /\ ReceiverInv /\ AckSound
  BY DEF SendInv, SegmentInv, DataSent, LoopInv, ReceiverInv, AckSound
<1> QED BY <1>1, <1>2 DEF IInv

(* The state machine changes the window and nothing the invariant ties to  *)
(* the receiver.                                                           *)
LEMMA ControlStep ==
    ASSUME IInv, Control, UNCHANGED receiverVars
    PROVE  IInv'
<1> USE DEF IInv, TypeOK, SenderTypeOK, window, progress, sent, wireVars,
        receiverVars, Running, Stopped, Overrun
<1>0. MSS \in Nat /\ (CWND > 0 => MSS * (MSS \div CWND) \in Nat)
  <2>1. CASE CWND > 0
    <3>1. MSS \div CWND \in Nat
      BY <2>1
    <3> QED BY <3>1
  <2> QED BY <2>1
<1>1. /\ UNCHANGED <<progress, sent, wireVars, receiverVars, curr_ack_type>>
      /\ spc = "control"
  BY DEF Control, Decide, OnTimeout, OnTripleDup, LeaveSlowStart, OnNewAckGrow,
         OnNewAckDivideByZero, OnNewAckRecovered, OnDupAckCount,
         OnDupAckInflate, OnNothing
<1>2. spc' \in {"recv", "transmit", "fpe"} /\ transmit' \in {-1, 0, 1}
  BY DEF Control, Decide, OnTimeout, OnTripleDup, LeaveSlowStart, OnNewAckGrow,
         OnNewAckDivideByZero, OnNewAckRecovered, OnDupAckCount,
         OnDupAckInflate, OnNothing
<1>3. /\ State' \in {"S", "C", "F"}
      /\ CWND' \in Nat /\ SSTHRESH' \in Nat /\ DUP_COUNT' \in Nat
      /\ CWND_START' \in Nat \ {0}
  <2>1. CASE OnTimeout \/ OnTripleDup \/ LeaveSlowStart
    BY <2>1 DEF OnTimeout, OnTripleDup, LeaveSlowStart
  <2>2. CASE OnNewAckGrow
    BY <2>2, <1>0 DEF OnNewAckGrow
  <2>3. CASE OnNewAckDivideByZero \/ OnNewAckRecovered \/ OnDupAckCount
             \/ OnDupAckInflate \/ OnNothing
    BY <2>3 DEF OnNewAckDivideByZero, OnNewAckRecovered, OnDupAckCount,
                OnDupAckInflate, OnNothing
  <2> QED BY <2>1, <2>2, <2>3 DEF Control
<1>4. TypeOK'
  BY <1>1, <1>2, <1>3 DEF ReceiverTypeOK
<1>5. (SendInv /\ SegmentInv /\ LoopInv /\ ReceiverInv /\ AckSound)'
  BY <1>1, <1>2 DEF SendInv, SegmentInv, DataSent, LoopInv, ReceiverInv, AckSound
<1> QED BY <1>4, <1>5

(* receivePacket: the number read is no larger than the ack on the wire.   *)
LEMMA ReceiveStep ==
    ASSUME IInv, ReceivePacket, UNCHANGED receiverVars
    PROVE  IInv'
<1> USE DEF IInv, TypeOK, SenderTypeOK, window, progress, sent, wireVars,
        receiverVars, Running, Stopped, Overrun
<1>1. CASE ReceiveNoAck
  BY <1>1 DEF ReceiveNoAck, ReceiverTypeOK, SendInv, SegmentInv, DataSent,
              LoopInv, ReceiverInv, AckSound
<1>2. ASSUME NEW ack \in toSender \ {Fin}, ReceiveDupAck(ack)
      PROVE  IInv'
  BY <1>2 DEF ReceiveDupAck, ReceiverTypeOK, SendInv, SegmentInv, DataSent,
              LoopInv, ReceiverInv, AckSound
<1>3. ASSUME NEW ack \in toSender \ {Fin}, ReceiveNewAck(ack)
      PROVE  IInv'
  <2>1. /\ spc = "recv"
        /\ ack_num(ack) >= desired_ack_num
        /\ LAST_ACK_RECV' = ack_num(ack)
        /\ num_pkts_acked' = num_pkts_acked + 1
        /\ curr_ack_type' = 1
        /\ spc' = IF ack_num(ack) >= bytesToTransfer THEN "fin" ELSE "control"
        /\ UNCHANGED <<window, sent, transmit, wireVars>>
    BY <1>3 DEF ReceiveNewAck
  <2>2. /\ LAST_ACK_RECV < bytesToTransfer
        /\ 1 + num_pkts_acked * MSS <= LAST_ACK_RECV
    BY <2>1 DEF LoopInv
  <2>3. desired_ack_num \in Numbers
    BY <2>2 DEF desired_ack_num, Numbers
  <2>4. ack_num(ack) \in 1..ack /\ ack \in Nat
    BY <2>3, ReadingBounded DEF ack_num, Numbers
  <2>5. TypeOK'
    BY <2>1, <2>4 DEF ReceiverTypeOK
  <2>6. LoopInv'
    <3>1. SUFFICES ASSUME ack_num(ack) < bytesToTransfer
                   PROVE  1 + (num_pkts_acked + 1) * MSS <= ack_num(ack)
      BY <2>1, <2>4 DEF LoopInv
    <3>2. desired_ack_num = LAST_ACK_RECV + MSS
      BY <2>1, <2>4, <3>1 DEF desired_ack_num
    <3>3. (num_pkts_acked + 1) * MSS = num_pkts_acked * MSS + MSS
      OBVIOUS
    <3>4. num_pkts_acked * MSS \in Nat
      OBVIOUS
    <3> QED BY <2>1, <2>2, <2>4, <3>2, <3>3, <3>4
  <2>7. AckSound'
    <3>1. Len(written) \in Nat
      BY DEF ReceiverTypeOK
    <3> QED BY <2>1, <2>4, <3>1 DEF AckSound
  <2>8. (SendInv /\ SegmentInv /\ ReceiverInv)'
    BY <2>1 DEF SendInv, SegmentInv, DataSent, ReceiverInv
  <2> QED BY <2>5, <2>6, <2>7, <2>8
<1> QED BY <1>1, <1>2, <1>3 DEF ReceivePacket

(* The segment that sendPacket reads and sends ends inside the file.       *)
LEMMA NewSegment ==
    ASSUME TypeOK, SendInv, BUFFER_IDX < num_segments
    PROVE  /\ NewLength \in Nat
           /\ NEXT_BYTE_TO_SEND \in 1..(bytesToTransfer + 1)
           /\ NEXT_BYTE_TO_SEND + NewLength - 1 <= bytesToTransfer
           /\ \/ NEXT_BYTE_TO_SEND + NewLength = 1 + (BUFFER_IDX + 1) * MSS
              \/ NEXT_BYTE_TO_SEND + NewLength = bytesToTransfer + 1
<1>1. BUFFER_IDX \in Nat /\ NEXT_BYTE_TO_SEND \in Nat \ {0}
  BY DEF TypeOK, SenderTypeOK
<1>2. BUFFER_IDX * MSS < bytesToTransfer /\ BUFFER_IDX * MSS \in Nat
  BY <1>1, SegmentIndex
<1>3. NEXT_BYTE_TO_SEND <= bytesToTransfer + 1
  BY <1>1, <1>2 DEF SendInv
<1>4. (BUFFER_IDX + 1) * MSS = BUFFER_IDX * MSS + MSS
  BY <1>1
<1> QED BY <1>1, <1>2, <1>3, <1>4 DEF NewLength, SendInv

(* The segment numbered 1 is the first that is copied.                     *)
LEMMA FirstSegment ==
    ASSUME TypeOK, SendInv, BUFFER_IDX < num_segments, NEXT_BYTE_TO_SEND = 1
    PROVE  BUFFER_IDX = 0
<1>1. BUFFER_IDX \in Nat
  BY DEF TypeOK, SenderTypeOK
<1>2. BUFFER_IDX * MSS < bytesToTransfer /\ BUFFER_IDX * MSS \in Nat
  BY <1>1, SegmentIndex
<1>3. BUFFER_IDX * MSS = 0
  BY <1>2 DEF SendInv
<1>4. BUFFER_IDX >= 1 => BUFFER_IDX * MSS >= 1 * MSS
  BY <1>1, TimesMonotone
<1> QED BY <1>1, <1>3, <1>4

LEMMA TransmitStep ==
    ASSUME IInv, Start \/ Transmit, UNCHANGED receiverVars
    PROVE  IInv'
<1> USE DEF IInv, TypeOK, SenderTypeOK, window, progress, sent, wireVars,
        receiverVars, Running, Stopped, Overrun
<1> DEFINE Retransmission ==
        [seq  |-> LAST_ACK_RECV, from |-> LAST_ACK_RECV,
         len  |-> IF LAST_ACK_RECV + MSS > bytesToTransfer
                  THEN bytesToTransfer - LAST_ACK_RECV + 1 ELSE MSS]
<1>1. /\ LoopHead \in {"recv", "fin"}
      /\ LoopHead = "recv" => LAST_ACK_RECV < bytesToTransfer
  BY DEF LoopHead
<1>2. ASSUME spc \in {"start", "transmit"},
             spc' \in {"segv", LoopHead},
             UNCHANGED <<window, progress, transmit, curr_ack_type, receiverVars, toSender>>
      PROVE  /\ (LoopInv /\ ReceiverInv /\ AckSound)'
             /\ spc' \in Running \cup Stopped
  BY <1>1, <1>2 DEF LoopInv, ReceiverInv, AckSound
<1>3. ASSUME NEW from \in {"start", "transmit"}, SendPacket(from, LoopHead)
      PROVE  IInv'
  <2>1. CASE SendPacketOutOfWindow(from, LoopHead) \/ SendPacketPastBuffer(from)
    <3>1. /\ spc = from /\ spc' \in {"segv", LoopHead}
          /\ UNCHANGED <<window, progress, sent, transmit, curr_ack_type, wireVars>>
      BY <2>1 DEF SendPacketOutOfWindow, SendPacketPastBuffer
    <3>2. TypeOK'
      BY <3>1, <1>2 DEF ReceiverTypeOK
    <3>3. (SendInv /\ SegmentInv)'
      BY <3>1 DEF SendInv, SegmentInv, DataSent
    <3> QED BY <3>1, <3>2, <3>3, <1>2
  <2>2. CASE SendPacketNew(from, LoopHead)
    <3> DEFINE Segment(first) ==
                  [seq |-> NEXT_BYTE_TO_SEND, from |-> first, len |-> NewLength]
    <3>0. PICK first \in ReadFrom : toReceiver' = toReceiver \cup {Segment(first)}
      BY <2>2 DEF SendPacketNew
    <3> DEFINE m == Segment(first)
    <3>1. /\ toReceiver' = toReceiver \cup {m}
          /\ fp' = fp + NewLength
          /\ NEXT_BYTE_TO_SEND' = NEXT_BYTE_TO_SEND + NewLength
          /\ BUFFER_IDX' = BUFFER_IDX + 1
          /\ idx_timer_started' \in Nat \cup {-1}
          /\ BUFFER_IDX < num_segments
          /\ spc \in {"start", "transmit"} /\ spc' = LoopHead
          /\ UNCHANGED <<window, progress, transmit, curr_ack_type, receiverVars, toSender>>
      BY <2>2, <3>0 DEF SendPacketNew
    <3>2. /\ NewLength \in Nat
          /\ NEXT_BYTE_TO_SEND \in 1..(bytesToTransfer + 1)
          /\ NEXT_BYTE_TO_SEND + NewLength - 1 <= bytesToTransfer
          /\ \/ NEXT_BYTE_TO_SEND + NewLength = 1 + (BUFFER_IDX + 1) * MSS
             \/ NEXT_BYTE_TO_SEND + NewLength = bytesToTransfer + 1
      BY <3>1, NewSegment
    <3>3. /\ m \in Datagram /\ m.seq = NEXT_BYTE_TO_SEND /\ m.len = NewLength
          /\ m.from \in 1..m.seq
          /\ ~Overrun \/ m.seq = 1 => m.from = m.seq
      <4>1. ReadFrom \subseteq 1..NEXT_BYTE_TO_SEND
            /\ (~Overrun => ReadFrom = {NEXT_BYTE_TO_SEND})
        BY <3>2 DEF SendInv, ReadFrom
      <4>2. NEXT_BYTE_TO_SEND = 1 => ~Overrun
        BY <3>1, FirstSegment DEF Overrun
      <4> QED BY <3>2, <4>1, <4>2 DEF Datagram
    <3> HIDE DEF m
    <3>4. SegmentInv'
      BY <3>1, <3>2, <3>3 DEF SegmentInv, DataSent
    <3>5. SendInv'
      BY <3>1, <3>2 DEF SendInv
    <3>6. TypeOK'
      BY <3>1, <3>2, <3>3, <1>2 DEF ReceiverTypeOK, SendInv
    <3> QED BY <3>1, <3>4, <3>5, <3>6, <1>2
  <2> QED BY <1>3, <2>1, <2>2 DEF SendPacket
<1>4. CASE RetransmitPastBuffer
  BY <1>4, <1>2 DEF RetransmitPastBuffer, ReceiverTypeOK, SendInv, SegmentInv, DataSent
<1>5. CASE RetransmitPacket
  <2> DEFINE m == Retransmission
  <2>1. /\ toReceiver' = toReceiver \cup {m}
        /\ idx_timer_started' \in Nat \cup {-1}
        /\ spc = "transmit" /\ spc' = LoopHead
        /\ UNCHANGED <<window, progress, transmit, curr_ack_type, receiverVars, toSender>>
        /\ UNCHANGED <<NEXT_BYTE_TO_SEND, BUFFER_IDX, fp>>
    BY <1>5 DEF RetransmitPacket
  <2>2. LAST_ACK_RECV < bytesToTransfer
    BY <2>1 DEF LoopInv
  <2>3. /\ m \in Datagram
        /\ m.seq \in 1..(bytesToTransfer + 1)
        /\ m.from = m.seq
        /\ m.seq + m.len - 1 <= bytesToTransfer
    BY <2>2 DEF Datagram
  <2> HIDE DEF m
  <2>4. SegmentInv'
    BY <2>1, <2>3 DEF SegmentInv, DataSent
  <2>5. SendInv'
    BY <2>1 DEF SendInv
  <2>6. TypeOK'
    BY <2>1, <2>3, <1>2 DEF ReceiverTypeOK
  <2> QED BY <2>1, <2>4, <2>5, <2>6, <1>2
<1> QED BY <1>3, <1>4, <1>5 DEF Start, TransmitNew, Transmit

LEMMA FinishStep ==
    ASSUME IInv, Finish, UNCHANGED receiverVars
    PROVE  IInv'
<1> USE DEF IInv, TypeOK, SenderTypeOK, window, progress, sent, wireVars,
        receiverVars, Running, Stopped, Overrun
<1>1. CASE SendFin
  <2>1. spc' = "finwait" /\ toReceiver' = toReceiver \cup {FinDatagram}
    BY <1>1 DEF SendFin
  <2>2. TypeOK'
    BY <1>1, <2>1 DEF SendFin, ReceiverTypeOK
  <2>3. SegmentInv'
    BY <1>1, <2>1 DEF SendFin, SegmentInv, DataSent
  <2>4. (SendInv /\ LoopInv /\ ReceiverInv /\ AckSound)'
    BY <1>1 DEF SendFin, SendInv, LoopInv, ReceiverInv, AckSound
  <2> QED BY <2>2, <2>3, <2>4
<1>2. CASE NoFinAck \/ ReceiveFinAck
  <2>1. /\ spc' \in {"fin", "done", "abort"}
        /\ UNCHANGED <<window, progress, sent, transmit, curr_ack_type, wireVars>>
    BY <1>2 DEF NoFinAck, ReceiveFinAck
  <2>2. TypeOK'
    BY <2>1 DEF ReceiverTypeOK
  <2>3. (SendInv /\ SegmentInv /\ LoopInv /\ ReceiverInv /\ AckSound)'
    BY <2>1 DEF SendInv, SegmentInv, DataSent, LoopInv, ReceiverInv, AckSound
  <2> QED BY <2>2, <2>3
<1> QED BY <1>1, <1>2 DEF Finish

-----------------------------------------------------------------------------
(* The receiver                                                            *)

(* What an accepted datagram adds to the file is made of bytes of the      *)
(* source (or of stray digits, which count as byte 0).                     *)
LEMMA PayloadType ==
    ASSUME ReceiverTypeOK, rpc = "loop", ACK_TO_SEND \in Numbers,
           NEW m \in Datagram, m.seq \in Numbers,
           m.from >= 1, m.from + m.len - 1 <= bytesToTransfer,
           Expected(m)
    PROVE  /\ PayloadLength(m) \in Nat
           /\ Payload(m) \in Seq(0..bytesToTransfer)
           /\ Len(Payload(m)) = PayloadLength(m)
<1>1. /\ Digits(m.seq) \in Nat \ {0} /\ Digits(ACK_TO_SEND) \in Nat \ {0}
      /\ m.len \in Nat /\ m.from \in Nat
  BY NumeralAssumption DEF AreNumerals, Digits, Datagram
<1>2. Digits(ACK_TO_SEND) <= Size(m) /\ Size(m) = Digits(m.seq) + m.len
  BY DEF Expected, ReadsAs, Size
<1>3. PayloadLength(m) \in Nat /\ Digits(ACK_TO_SEND) + PayloadLength(m) <= Size(m)
  BY <1>1, <1>2 DEF PayloadLength, Room
<1>4. \A i \in 1..PayloadLength(m) :
          Origin(m, Digits(ACK_TO_SEND) + i) \in 0..bytesToTransfer
  BY <1>1, <1>2, <1>3 DEF Origin
<1> QED BY <1>3, <1>4 DEF Payload

LEMMA ReceiverStepInv ==
    ASSUME IInv, ReceiverNext, UNCHANGED senderVars
    PROVE  IInv'
<1> USE DEF IInv, TypeOK, ReceiverTypeOK, window, progress, sent, wireVars,
        senderVars, receiverVars, SendAck, Overrun
<1>0. Len(written) \in Nat /\ (rpc = "loop" => ACK_TO_SEND \in Numbers)
  BY DEF ReceiverInv, Fin, Numbers
<1>1. ASSUME NEW m \in DataSent, AcceptSegment(m)
      PROVE  IInv'
  <2>1. /\ rpc = "loop" /\ Expected(m)
        /\ ACK_TO_SEND + PayloadLength(m) <= MaxNumber
        /\ written' = written \o Payload(m)
        /\ ACK_TO_SEND' = ACK_TO_SEND + PayloadLength(m)
        /\ heard' = TRUE
        /\ toSender' = toSender \cup {ACK_TO_SEND + PayloadLength(m)}
        /\ UNCHANGED <<rpc, toReceiver>>
    BY <1>1 DEF AcceptSegment
  <2>2. /\ m \in Datagram /\ m.seq \in Numbers
        /\ m.from >= 1 /\ m.from + m.len - 1 <= bytesToTransfer
    BY <1>1 DEF SegmentInv, Numbers, Datagram
  <2>3. /\ PayloadLength(m) \in Nat
        /\ Payload(m) \in Seq(0..bytesToTransfer)
        /\ Len(Payload(m)) = PayloadLength(m)
    BY <1>0, <2>1, <2>2, PayloadType
  <2>4. /\ written' \in Seq(0..bytesToTransfer)
        /\ Len(written') = Len(written) + PayloadLength(m)
    BY <2>1, <2>3, ConcatProperties
  <2>5. ACK_TO_SEND + PayloadLength(m) \in Numbers
    BY <1>0, <2>1, <2>3 DEF Numbers
  <2>6. heard' \in BOOLEAN
    BY <2>1
  <2>7. TypeOK'
    BY <2>1, <2>4, <2>5, <2>6 DEF SenderTypeOK
  <2>8. ReceiverInv' /\ AckSound'
    BY <1>0, <2>1, <2>3, <2>4 DEF ReceiverInv, AckSound, Numbers, Fin, SenderTypeOK
  <2>9. (SendInv /\ SegmentInv /\ LoopInv)'
    BY <2>1 DEF SendInv, SegmentInv, DataSent, LoopInv
  <2> QED BY <2>7, <2>8, <2>9
<1>2. ASSUME rpc = "loop" /\ rpc' = "loop",
             toSender' = toSender \cup {ACK_TO_SEND},
             heard' \in BOOLEAN,
             UNCHANGED <<ACK_TO_SEND, written, toReceiver>>
      PROVE  IInv'
  <2>1. TypeOK'
    BY <1>0, <1>2 DEF SenderTypeOK
  <2>2. ReceiverInv' /\ AckSound'
    BY <1>0, <1>2 DEF ReceiverInv, AckSound
  <2>3. (SendInv /\ SegmentInv /\ LoopInv)'
    BY <1>2 DEF SendInv, SegmentInv, DataSent, LoopInv
  <2> QED BY <2>1, <2>2, <2>3
<1>3. ASSUME NEW m \in DataSent, RejectSegment(m)
      PROVE  IInv'
  BY <1>2, <1>3 DEF RejectSegment
<1>4. CASE RepeatAck
  BY <1>2, <1>4 DEF RepeatAck
<1>5. CASE ReceiveFin
  <2>1. /\ rpc' = "done" /\ ACK_TO_SEND' = Fin
        /\ toSender' = toSender \cup {Fin}
        /\ heard' \in BOOLEAN
        /\ UNCHANGED <<written, toReceiver>>
    BY <1>5 DEF ReceiveFin
  <2>2. TypeOK'
    BY <2>1 DEF SenderTypeOK
  <2>3. ReceiverInv' /\ AckSound'
    BY <1>0, <2>1 DEF ReceiverInv, AckSound, Fin
  <2>4. (SendInv /\ SegmentInv /\ LoopInv)'
    BY <2>1 DEF SendInv, SegmentInv, DataSent, LoopInv
  <2> QED BY <2>2, <2>3, <2>4
<1> QED BY <1>1, <1>3, <1>4, <1>5 DEF ReceiverNext, DataSent

-----------------------------------------------------------------------------
(* The theorems                                                            *)

LEMMA StepIInv == IInv /\ [Next]_vars => IInv'
<1> SUFFICES ASSUME IInv, [Next]_vars PROVE IInv'
  OBVIOUS
<1>1. CASE SenderStep
  BY <1>1, ControlStep, ReceiveStep, TransmitStep, FinishStep
     DEF SenderStep, SenderNext
<1>2. CASE ReceiverStep
  BY <1>2, ReceiverStepInv DEF ReceiverStep
<1>3. CASE UNCHANGED vars
  BY <1>3 DEF vars, IInv, TypeOK, SenderTypeOK, ReceiverTypeOK, SendInv,
     SegmentInv, DataSent, LoopInv, ReceiverInv, AckSound, senderVars,
     receiverVars, wireVars, window, progress, sent, Overrun
<1> QED BY <1>1, <1>2, <1>3 DEF Next

LEMMA Invariance == Spec => []IInv
<1>1. Init => IInv
  BY InitIInv
<1>2. IInv /\ [Next]_vars => IInv'
  BY StepIInv
<1> QED BY <1>1, <1>2, PTL DEF Spec

(* Every variable of both programs keeps its type.                         *)
THEOREM TypeCorrect == Spec => []TypeOK
<1>1. IInv => TypeOK
  BY DEF IInv
<1> QED BY <1>1, Invariance, PTL

(* However acks are delayed, reordered or cut short on receipt, neither    *)
(* they nor LAST_ACK_RECV pass the end of what the receiver has written.   *)
THEOREM AcksAreSound == Spec => []AckSound
<1>1. IInv => AckSound
  BY DEF IInv
<1> QED BY <1>1, Invariance, PTL

(* First transmissions and retransmissions alike carry the file bytes that *)
(* their sequence number names, segment 1 always and the others as long as *)
(* no copy into SEND_BUFFER has run over its slot.                         *)
THEOREM SegmentsAreNamed == Spec => []SegmentsNameTheirBytes
<1>1. IInv => SegmentsNameTheirBytes
  BY DEF IInv, SegmentInv, SegmentsNameTheirBytes, DataSent
<1> QED BY <1>1, Invariance, PTL

(* num_pkts_acked stays an index of SENT_TIMES while the loop runs.        *)
THEOREM IndexIsInBounds == Spec => []IndexInBounds
<1>1. IInv => IndexInBounds
  <2> SUFFICES ASSUME IInv, spc \in {"recv", "control", "transmit"}
               PROVE  num_pkts_acked < num_segments
    BY DEF IndexInBounds
  <2>1. num_pkts_acked \in Nat /\ LAST_ACK_RECV \in Nat
    BY DEF IInv, TypeOK, SenderTypeOK
  <2>2. 1 + num_pkts_acked * MSS <= LAST_ACK_RECV /\ LAST_ACK_RECV < bytesToTransfer
    BY DEF IInv, LoopInv
  <2>3. num_pkts_acked * MSS \in Nat
    BY <2>1
  <2> QED BY <2>1, <2>2, <2>3, SegmentIndex
<1> QED BY <1>1, Invariance, PTL

(* Only a new ack moves the sender, always forward and by one segment of   *)
(* the count.                                                              *)
LEMMA ProgressStep ==
    ASSUME IInv, Next
    PROVE  \/ UNCHANGED progress
           \/ /\ LAST_ACK_RECV' > LAST_ACK_RECV
              /\ num_pkts_acked' = num_pkts_acked + 1
<1>1. CASE ReceivePacket
  <2>1. CASE ReceiveNoAck \/ \E ack \in toSender \ {Fin} : ReceiveDupAck(ack)
    BY <2>1 DEF ReceiveNoAck, ReceiveDupAck
  <2>2. ASSUME NEW ack \in toSender \ {Fin}, ReceiveNewAck(ack)
        PROVE  /\ LAST_ACK_RECV' > LAST_ACK_RECV
               /\ num_pkts_acked' = num_pkts_acked + 1
    <3>1. LAST_ACK_RECV \in Nat \ {0} /\ LAST_ACK_RECV < bytesToTransfer
      BY <2>2 DEF IInv, TypeOK, SenderTypeOK, LoopInv, ReceiveNewAck
    <3>2. desired_ack_num \in Numbers /\ desired_ack_num > LAST_ACK_RECV
      BY <3>1 DEF desired_ack_num, Numbers
    <3>3. ack \in Numbers
      BY DEF IInv, TypeOK
    <3>4. ack_num(ack) \in 1..ack /\ ack \in Nat
      BY <3>2, <3>3, ReadingBounded DEF ack_num, Numbers
    <3> QED BY <2>2, <3>1, <3>2, <3>4 DEF ReceiveNewAck, Numbers
  <2> QED BY <1>1, <2>1, <2>2 DEF ReceivePacket
<1>2. CASE Control
  BY <1>2 DEF Control, Decide, OnTimeout, OnTripleDup, LeaveSlowStart,
     OnNewAckGrow, OnNewAckDivideByZero, OnNewAckRecovered, OnDupAckCount,
     OnDupAckInflate, OnNothing
<1>3. CASE Start \/ Transmit
  BY <1>3 DEF Start, Transmit, TransmitNew, SendPacket, SendPacketOutOfWindow,
     SendPacketPastBuffer, SendPacketNew, RetransmitPastBuffer, RetransmitPacket
<1>4. CASE Finish
  BY <1>4 DEF Finish, SendFin, NoFinAck, ReceiveFinAck
<1>5. CASE ReceiverStep
  BY <1>5 DEF ReceiverStep, senderVars
<1> QED BY <1>1, <1>2, <1>3, <1>4, <1>5 DEF Next, SenderStep, SenderNext

(* Old, repeated and cut acks never take the sender back, and every        *)
(* advance counts as one acknowledged segment.                             *)
THEOREM AcksMoveForward == Spec => AcksAdvance
<1> DEFINE A == /\ LAST_ACK_RECV' >= LAST_ACK_RECV
                /\ num_pkts_acked' = num_pkts_acked
                       + (IF LAST_ACK_RECV' > LAST_ACK_RECV THEN 1 ELSE 0)
<1>1. IInv /\ [Next]_vars => [A]_vars
  <2> SUFFICES ASSUME IInv, Next PROVE A
    OBVIOUS
  <2>1. LAST_ACK_RECV \in Nat /\ num_pkts_acked \in Nat
    BY DEF IInv, TypeOK, SenderTypeOK
  <2>2. CASE UNCHANGED progress
    BY <2>1, <2>2 DEF progress
  <2>3. CASE /\ LAST_ACK_RECV' > LAST_ACK_RECV
             /\ num_pkts_acked' = num_pkts_acked + 1
    <3>1. LAST_ACK_RECV' \in Nat
      BY StepIInv DEF IInv, TypeOK, SenderTypeOK
    <3> QED BY <2>1, <2>3, <3>1
  <2> QED BY <2>2, <2>3, ProgressStep
<1>2. Spec => []IInv /\ [][Next]_vars
  BY Invariance, PTL DEF Spec
<1> QED BY <1>1, <1>2, PTL DEF AcksAdvance

(* The count of duplicates stops at three, where fast recovery begins.     *)
LEMMA DuplicatesStep ==
    ASSUME TypeOK, DuplicatesCounted, [Next]_vars
    PROVE  DuplicatesCounted'
<1> USE DEF DuplicatesCounted, window
<1>0. DUP_COUNT \in Nat /\ State \in {"S", "C", "F"}
  BY DEF TypeOK, SenderTypeOK
<1>1. CASE OnTimeout \/ OnTripleDup \/ LeaveSlowStart
  BY <1>0, <1>1 DEF OnTimeout, OnTripleDup, LeaveSlowStart
<1>2. CASE OnNewAckGrow \/ OnNewAckRecovered
  BY <1>0, <1>2 DEF OnNewAckGrow, OnNewAckRecovered, ReadsAck
<1>3. CASE OnDupAckCount
  BY <1>0, <1>3 DEF OnDupAckCount, ReadsAck
<1>4. CASE OnDupAckInflate
  BY <1>0, <1>4 DEF OnDupAckInflate
<1>5. CASE UNCHANGED window
  BY <1>5
<1>6. UNCHANGED window \/ Control
  <2>1. CASE Start \/ ReceivePacket
    BY <2>1 DEF Start, ReceivePacket, ReceiveNewAck, ReceiveDupAck, ReceiveNoAck,
       SendPacket, SendPacketOutOfWindow, SendPacketPastBuffer, SendPacketNew
  <2>2. CASE Transmit \/ Finish
    BY <2>2 DEF Transmit, TransmitNew, SendPacket, SendPacketOutOfWindow,
       SendPacketPastBuffer, SendPacketNew, RetransmitPastBuffer,
       RetransmitPacket, Finish, SendFin, NoFinAck, ReceiveFinAck
  <2>3. CASE ReceiverStep \/ UNCHANGED vars
    BY <2>3 DEF ReceiverStep, senderVars, vars
  <2> QED BY <2>1, <2>2, <2>3 DEF Next, SenderStep, SenderNext
<1>7. Control => \/ OnTimeout \/ OnTripleDup \/ LeaveSlowStart
                 \/ OnNewAckGrow \/ OnNewAckRecovered
                 \/ OnDupAckCount \/ OnDupAckInflate
                 \/ UNCHANGED window
  BY DEF Control, OnNothing, OnNewAckDivideByZero
<1> QED BY <1>1, <1>2, <1>3, <1>4, <1>5, <1>6, <1>7

(* No sequence of acks and timeouts makes the count skip three.            *)
THEOREM DuplicatesAreCounted == Spec => []DuplicatesCounted
<1>1. Init => DuplicatesCounted
  BY DEF Init, SenderInit, DuplicatesCounted
<1>2. TypeOK /\ DuplicatesCounted /\ [Next]_vars => DuplicatesCounted'
  BY DuplicatesStep
<1> QED BY <1>1, <1>2, TypeCorrect, PTL DEF Spec

=============================================================================
