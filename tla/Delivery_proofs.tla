-------------------------- MODULE Delivery_proofs ---------------------------
(* The receiver's file is the source, for every segment size, network and  *)
(* allocation of SEND_BUFFER, and for plain files and numbers.             *)
EXTENDS Transport_proofs

USE SizeAssumption, SenderAssumption

(* No copy into SEND_BUFFER has spoiled the bytes of a segment on the wire.*)
SegmentsUnharmed == \A m \in DataSent : m.from = m.seq

(* The bytes of the first segment are in their places.                     *)
FirstBytesDelivered == \A i \in 1..Len(written) : i <= MSS => written[i] = i

-----------------------------------------------------------------------------
(* The inductive invariant, beyond IInv                                    *)

IsLength(m) ==
    \/ m.len = MSS
    \/ m.len <= MSS + 1 /\ m.seq + m.len - 1 = bytesToTransfer

(* A segment is whole, or it ends the file and is at most one byte longer. *)
LengthInv == \A m \in DataSent : bytesToTransfer > 0 /\ IsLength(m)

(* A segment was sent in its turn, or it was sent again from what the      *)
(* receiver was known to wait for (any number, if that was a cut ack).     *)
SequenceInv ==
    \A m \in DataSent : m.seq \in SegmentNumbers \/ m.seq <= Len(written) + 1

(* As long as the receiver waits for number 1 there is nothing else on the *)
(* wire: it has sent no ack, and without one sendPacket is called only     *)
(* once.                                                                   *)
StartInv ==
    /\ spc = "start" => NEXT_BYTE_TO_SEND = 1
    /\ rpc = "loop" /\ ACK_TO_SEND = 1 =>
           /\ ~heard /\ toSender = {}
           /\ LAST_ACK_RECV = 1
           /\ curr_ack_type = -1 /\ transmit # 1
           /\ \A m \in DataSent : m.seq = 1

(* The receiver has whole segments, or the whole file.                     *)
WrittenInv ==
    /\ Len(written) <= bytesToTransfer
    /\ \/ Len(written) = bytesToTransfer
       \/ \E k \in Nat : Len(written) = k * MSS

(* What it has is what the segments on the wire are made of.               *)
PlaceInv ==
    /\ SegmentsUnharmed => PrefixDelivered
    /\ FirstBytesDelivered

(* FIN means that the ack of the last byte but one has been read.          *)
FinInv ==
    /\ spc \in {"fin", "finwait", "done", "abort"} => LAST_ACK_RECV >= bytesToTransfer
    /\ FinDatagram \in toReceiver => LAST_ACK_RECV >= bytesToTransfer
    /\ rpc = "done" => LAST_ACK_RECV >= bytesToTransfer

DInv == LengthInv /\ SequenceInv /\ StartInv /\ WrittenInv /\ PlaceInv /\ FinInv

LEMMA InitDInv == Init => DInv
<1> SUFFICES ASSUME Init PROVE DInv
  OBVIOUS
<1> USE DEF Init, SenderInit, ReceiverInit, WireInit
<1>1. LengthInv /\ SequenceInv /\ StartInv /\ FinInv
  BY DEF LengthInv, SequenceInv, StartInv, DataSent, FinInv
<1>2. Len(written) = 0 * MSS /\ Len(written) = 0
  OBVIOUS
<1>3. WrittenInv /\ PlaceInv
  BY <1>2 DEF WrittenInv, PlaceInv, PrefixDelivered, FirstBytesDelivered
<1> QED BY <1>1, <1>3 DEF DInv

-----------------------------------------------------------------------------
(* The sender                                                              *)

LEMMA OneOver ==
    ASSUME NEW k \in Nat
    PROVE  (k * MSS + 1) % MSS = 1 % MSS
OBVIOUS

(* Only sendPacket and retransmitPacket send segments.                     *)
LEMMA SentSegments ==
    ASSUME IInv, Next
    PROVE  \/ UNCHANGED toReceiver
           \/ SendFin /\ toReceiver' = toReceiver \cup {FinDatagram}
           \/ \E m : /\ toReceiver' = toReceiver \cup {m}
                    /\ m.seq # Fin
                    /\ bytesToTransfer > 0 /\ IsLength(m)
                    /\ \/ RetransmitPacket /\ m.seq = LAST_ACK_RECV
                       \/ /\ Start \/ TransmitNew
                          /\ m.seq = NEXT_BYTE_TO_SEND
                          /\ m.seq \in SegmentNumbers
<1> DEFINE Sent(m) ==
        /\ toReceiver' = toReceiver \cup {m}
        /\ m.seq # Fin
        /\ bytesToTransfer > 0 /\ IsLength(m)
    New(m) == m.seq = NEXT_BYTE_TO_SEND /\ m.seq \in SegmentNumbers
<1>0. /\ NEXT_BYTE_TO_SEND \in Nat \ {0} /\ LAST_ACK_RECV \in Nat \ {0}
      /\ BUFFER_IDX \in Nat
      /\ spc \in {"recv", "control", "transmit"} => LAST_ACK_RECV < bytesToTransfer
  BY DEF IInv, TypeOK, SenderTypeOK, LoopInv
<1>1. ASSUME NEW from, NEW to, SendPacketNew(from, to)
      PROVE  \E m : Sent(m) /\ New(m)
  <2> DEFINE Segment(first) ==
                [seq |-> NEXT_BYTE_TO_SEND, from |-> first, len |-> NewLength]
  <2>1. PICK first \in ReadFrom : toReceiver' = toReceiver \cup {Segment(first)}
    BY <1>1 DEF SendPacketNew
  <2>2. \/ NewLength = MSS
        \/ NewLength <= MSS + 1 /\ NEXT_BYTE_TO_SEND + NewLength - 1 = bytesToTransfer
    BY <1>0 DEF NewLength
  <2>3. BUFFER_IDX < num_segments
    BY <1>1 DEF SendPacketNew
  <2>4. bytesToTransfer > 0
    <3>1. BUFFER_IDX * MSS \in Nat /\ BUFFER_IDX * MSS < bytesToTransfer
      BY <1>0, <2>3, SegmentIndex
    <3> QED BY <3>1
  <2>5. NEXT_BYTE_TO_SEND \in SegmentNumbers
    <3>1. NEXT_BYTE_TO_SEND \in 1..(bytesToTransfer + 1)
      BY <2>3, NewSegment DEF IInv
    <3>2. (BUFFER_IDX * MSS + 1) % MSS = 1 % MSS /\ BUFFER_IDX * MSS \in Nat
      BY <1>0, OneOver
    <3>3. \/ NEXT_BYTE_TO_SEND = BUFFER_IDX * MSS + 1
          \/ NEXT_BYTE_TO_SEND = bytesToTransfer + 1
      BY <3>2 DEF IInv, SendInv
    <3> QED BY <3>1, <3>2, <3>3 DEF SegmentNumbers
  <2>6. Sent(Segment(first)) /\ New(Segment(first))
    BY <1>0, <2>1, <2>2, <2>4, <2>5 DEF Fin, IsLength
  <2> HIDE DEF Segment
  <2> QED BY <2>6
<1>2. ASSUME RetransmitPacket
      PROVE  \E m : Sent(m) /\ m.seq = LAST_ACK_RECV
  <2> DEFINE n == IF LAST_ACK_RECV + MSS > bytesToTransfer
                  THEN bytesToTransfer - LAST_ACK_RECV + 1 ELSE MSS
             m == [seq |-> LAST_ACK_RECV, from |-> LAST_ACK_RECV, len |-> n]
  <2>1. toReceiver' = toReceiver \cup {m} /\ LAST_ACK_RECV < bytesToTransfer
    BY <1>0, <1>2 DEF RetransmitPacket
  <2>2. \/ n = MSS
        \/ n <= MSS + 1 /\ LAST_ACK_RECV + n - 1 = bytesToTransfer
    BY <1>0
  <2>3. m.len = n /\ m.seq = LAST_ACK_RECV
    OBVIOUS
  <2> HIDE DEF m, n
  <2>4. Sent(m)
    BY <1>0, <2>1, <2>2, <2>3 DEF Fin, IsLength
  <2> QED BY <2>3, <2>4
<1>3. \/ UNCHANGED toReceiver
      \/ SendFin \/ RetransmitPacket
      \/ (Start \/ TransmitNew) /\ \E from, to : SendPacketNew(from, to)
  <2>1. CASE Start \/ Transmit
    BY <2>1 DEF Start, Transmit, TransmitNew, SendPacket,
       SendPacketOutOfWindow, SendPacketPastBuffer, RetransmitPastBuffer, wireVars
  <2>2. CASE ReceivePacket
    BY <2>2 DEF ReceivePacket, ReceiveNewAck, ReceiveDupAck, ReceiveNoAck, wireVars
  <2>3. CASE Control
    BY <2>3 DEF Control, Decide, OnTimeout, OnTripleDup, LeaveSlowStart,
       OnNewAckGrow, OnNewAckDivideByZero, OnNewAckRecovered, OnDupAckCount,
       OnDupAckInflate, OnNothing, wireVars
  <2>4. CASE Finish
    BY <2>4 DEF Finish, NoFinAck, ReceiveFinAck, wireVars
  <2>5. CASE ReceiverStep
    BY <2>5 DEF ReceiverStep, ReceiverNext, AcceptSegment, RejectSegment,
       ReceiveFin, RepeatAck
  <2> QED BY <2>1, <2>2, <2>3, <2>4, <2>5 DEF Next, SenderStep, SenderNext
<1>4. SendFin => toReceiver' = toReceiver \cup {FinDatagram}
  BY DEF SendFin
<1> QED BY <1>1, <1>2, <1>3, <1>4

LEMMA LengthStep ==
    ASSUME IInv, LengthInv, Next
    PROVE  LengthInv'
BY SentSegments DEF LengthInv, DataSent, IsLength

(* The loop is left when the last ack but one has been read; what that     *)
(* says stays true because acks only advance.                              *)
LEMMA FinStep ==
    ASSUME IInv, FinInv, Next
    PROVE  FinInv'
<1> USE DEF FinInv
<1>0. /\ LAST_ACK_RECV \in Nat \ {0}
      /\ LAST_ACK_RECV' \in Nat \ {0}
      /\ spc \in {"recv", "control", "transmit"} => LAST_ACK_RECV < bytesToTransfer
  BY StepIInv DEF IInv, TypeOK, SenderTypeOK, LoopInv
<1>1. LAST_ACK_RECV' >= LAST_ACK_RECV
  BY <1>0, ProgressStep DEF progress
<1>2. spc' \in {"fin", "finwait", "done", "abort"} => LAST_ACK_RECV' >= bytesToTransfer
  <2>1. CASE Start \/ Transmit
    <3>1. spc' \in {"segv", LoopHead} /\ UNCHANGED progress
      BY <2>1 DEF Start, Transmit, TransmitNew, SendPacket, SendPacketOutOfWindow,
         SendPacketPastBuffer, SendPacketNew, RetransmitPastBuffer, RetransmitPacket
    <3> QED BY <1>0, <3>1 DEF LoopHead, progress
  <2>2. CASE ReceivePacket
    <3>1. CASE ReceiveNoAck \/ \E ack \in toSender \ {Fin} : ReceiveDupAck(ack)
      BY <3>1 DEF ReceiveNoAck, ReceiveDupAck
    <3>2. CASE \E ack \in toSender \ {Fin} : ReceiveNewAck(ack)
      BY <3>2 DEF ReceiveNewAck
    <3> QED BY <2>2, <3>1, <3>2 DEF ReceivePacket
  <2>3. CASE Control
    BY <2>3 DEF Control, Decide, OnTimeout, OnTripleDup, LeaveSlowStart,
       OnNewAckGrow, OnNewAckDivideByZero, OnNewAckRecovered, OnDupAckCount,
       OnDupAckInflate, OnNothing
  <2>4. CASE Finish
    BY <2>4, <1>0, <1>1 DEF Finish, SendFin, NoFinAck, ReceiveFinAck
  <2>5. CASE ReceiverStep
    BY <2>5, <1>0, <1>1 DEF ReceiverStep, senderVars
  <2> QED BY <2>1, <2>2, <2>3, <2>4, <2>5 DEF Next, SenderStep, SenderNext
<1>3. FinDatagram \in toReceiver' => LAST_ACK_RECV' >= bytesToTransfer
  <2>1. \/ FinDatagram \in toReceiver
        \/ spc = "fin"
        \/ FinDatagram \notin toReceiver'
    <3>1. FinDatagram.seq = Fin
      BY DEF FinDatagram
    <3> QED BY <3>1, SentSegments DEF SendFin
  <2> QED BY <1>0, <1>1, <2>1
<1>4. rpc' = "done" => LAST_ACK_RECV' >= bytesToTransfer
  <2>1. rpc' = "done" => rpc = "done" \/ FinDatagram \in toReceiver
    BY DEF Next, SenderStep, ReceiverStep, receiverVars, ReceiverNext,
       AcceptSegment, RejectSegment, ReceiveFin, RepeatAck
  <2> QED BY <1>0, <1>1, <2>1
<1> QED BY <1>2, <1>3, <1>4

-----------------------------------------------------------------------------
(* The receiver                                                            *)

(* Of the awaited segment the receiver takes the bytes from the first, MSS *)
(* of them at most.                                                        *)
LEMMA AwaitedPayload ==
    ASSUME NEW m \in Datagram, m.seq = ACK_TO_SEND, m.seq \in Numbers
    PROVE  /\ PayloadLength(m) = IF m.len < MSS THEN m.len ELSE MSS
           /\ DOMAIN Payload(m) = 1..PayloadLength(m)
           /\ \A i \in 1..PayloadLength(m) : Payload(m)[i] = m.from + i - 1
<1>1. /\ Digits(m.seq) \in Nat \ {0} /\ Digits(ACK_TO_SEND) = Digits(m.seq)
      /\ m.len \in Nat /\ m.from \in Nat
  BY NumeralAssumption DEF AreNumerals, Digits, Datagram
<1>2. PayloadLength(m) = IF m.len < MSS THEN m.len ELSE MSS
  BY <1>1 DEF PayloadLength, Room, Size
<1>3. \A i \in 1..PayloadLength(m) :
          Origin(m, Digits(ACK_TO_SEND) + i) = m.from + i - 1
  BY <1>1, <1>2 DEF Origin
<1> QED BY <1>2, <1>3 DEF Payload

LEMMA AcceptGrows ==
    ASSUME IInv, NEW m \in DataSent, AcceptSegment(m)
    PROVE  /\ Len(written) \in Nat /\ ACK_TO_SEND = Len(written) + 1
           /\ ACK_TO_SEND \in Numbers
           /\ PayloadLength(m) \in Nat
           /\ Payload(m) \in Seq(0..bytesToTransfer)
           /\ Len(Payload(m)) = PayloadLength(m)
           /\ Len(written') = Len(written) + PayloadLength(m)
<1>1. m \in Datagram /\ m.seq \in Numbers /\ m.from >= 1
      /\ m.from + m.len - 1 <= bytesToTransfer
  BY DEF IInv, SegmentInv, Numbers, Datagram
<1>2. rpc = "loop" /\ Expected(m) /\ written' = written \o Payload(m)
  BY DEF AcceptSegment
<1>3. /\ ReceiverTypeOK /\ ACK_TO_SEND \in Numbers
      /\ Len(written) \in Nat /\ ACK_TO_SEND = Len(written) + 1
  BY <1>2 DEF IInv, TypeOK, ReceiverTypeOK, ReceiverInv, Numbers, Fin
<1>4. PayloadLength(m) \in Nat /\ Payload(m) \in Seq(0..bytesToTransfer)
      /\ Len(Payload(m)) = PayloadLength(m)
  BY <1>1, <1>2, <1>3, PayloadType
<1> QED BY <1>2, <1>3, <1>4, ConcatProperties DEF ReceiverTypeOK

(* A step that writes nothing leaves the receiver waiting where it was, or *)
(* ends it.                                                                *)
LEMMA ReceiverSteps ==
    ASSUME IInv, Next
    PROVE  \/ UNCHANGED <<written, rpc, ACK_TO_SEND>>
           \/ ReceiveFin /\ UNCHANGED written /\ rpc' = "done"
           \/ \E m \in DataSent : AcceptSegment(m)
BY DEF Next, SenderStep, ReceiverStep, receiverVars, ReceiverNext, DataSent,
   RejectSegment, ReceiveFin, RepeatAck

LEMMA WrittenGrows ==
    ASSUME IInv, Next
    PROVE  Len(written) \in Nat /\ Len(written') \in Nat /\ Len(written') >= Len(written)
<1>1. Len(written) \in Nat
  BY DEF IInv, TypeOK, ReceiverTypeOK
<1>2. ASSUME NEW m \in DataSent, AcceptSegment(m)
      PROVE  Len(written') \in Nat /\ Len(written') >= Len(written)
  BY <1>2, AcceptGrows
<1> QED BY <1>1, <1>2, ReceiverSteps

LEMMA SequenceStep ==
    ASSUME IInv, SequenceInv, Next
    PROVE  SequenceInv'
<1>1. /\ Len(written) \in Nat /\ Len(written') \in Nat /\ Len(written') >= Len(written)
      /\ \A m \in DataSent : m.seq \in Nat
  BY WrittenGrows DEF IInv, SegmentInv
<1>2. LAST_ACK_RECV <= Len(written) + 1 /\ LAST_ACK_RECV \in Nat
  BY DEF IInv, AckSound, TypeOK, SenderTypeOK
<1>3. ASSUME NEW m \in DataSent'
      PROVE  m.seq \in SegmentNumbers \/ m.seq <= Len(written') + 1
  <2>1. CASE m \in DataSent
    BY <1>1, <2>1 DEF SequenceInv
  <2>2. CASE m \notin DataSent
    <3>1. m.seq \in SegmentNumbers \/ m.seq = LAST_ACK_RECV
      BY <2>2, SentSegments DEF DataSent
    <3> QED BY <1>1, <1>2, <3>1
  <2> QED BY <2>1, <2>2
<1> QED BY <1>3 DEF SequenceInv

-----------------------------------------------------------------------------
(* Numbers                                                                 *)

(* Segment 1 has a byte at least, so number 1 is awaited until it is taken *)
(* and not after.                                                          *)
LEMMA FirstByte ==
    ASSUME IInv, LengthInv, StartInv, NEW m \in DataSent, AcceptSegment(m)
    PROVE  ACK_TO_SEND' # 1
<1>1. /\ PayloadLength(m) \in Nat /\ ACK_TO_SEND \in Nat \ {0}
      /\ ACK_TO_SEND' = ACK_TO_SEND + PayloadLength(m)
      /\ rpc = "loop"
  BY AcceptGrows DEF AcceptSegment, Numbers
<1>2. CASE ACK_TO_SEND = 1
  <2>1. m.seq = 1 /\ m \in Datagram /\ 1 \in Numbers
    BY <1>1, <1>2 DEF StartInv, IInv, SegmentInv, Numbers
  <2>2. PayloadLength(m) = IF m.len < MSS THEN m.len ELSE MSS
    BY <1>2, <2>1, AwaitedPayload
  <2>3. m.len \in Nat \ {0}
    BY <2>1 DEF LengthInv, IsLength, Datagram
  <2> QED BY <1>1, <1>2, <2>2, <2>3
<1> QED BY <1>1, <1>2

(* While number 1 is awaited every step leaves everything else as it is:   *)
(* what comes is segment 1, and it has a byte at least.                    *)
LEMMA StartStep ==
    ASSUME IInv, LengthInv, StartInv, Next
    PROVE  StartInv'
<1>1. spc' # "start" \/ UNCHANGED <<spc, NEXT_BYTE_TO_SEND>>
  <2>1. CASE Start \/ Transmit
    BY <2>1 DEF Start, Transmit, TransmitNew, SendPacket, LoopHead,
       SendPacketOutOfWindow, SendPacketPastBuffer, SendPacketNew,
       RetransmitPastBuffer, RetransmitPacket
  <2>2. CASE ReceivePacket
    BY <2>2 DEF ReceivePacket, ReceiveNewAck, ReceiveDupAck, ReceiveNoAck
  <2>3. CASE Control
    BY <2>3 DEF Control, Decide, OnTimeout, OnTripleDup, LeaveSlowStart,
       OnNewAckGrow, OnNewAckDivideByZero, OnNewAckRecovered, OnDupAckCount,
       OnDupAckInflate, OnNothing
  <2>4. CASE Finish
    BY <2>4 DEF Finish, SendFin, NoFinAck, ReceiveFinAck
  <2>5. CASE ReceiverStep
    BY <2>5 DEF ReceiverStep, senderVars, sent
  <2> QED BY <2>1, <2>2, <2>3, <2>4, <2>5 DEF Next, SenderStep, SenderNext
<1>2. ASSUME rpc' = "loop", ACK_TO_SEND' = 1
      PROVE  rpc = "loop" /\ ACK_TO_SEND = 1
  BY <1>2, FirstByte, ReceiverSteps
<1>3. ASSUME rpc = "loop", ACK_TO_SEND = 1, rpc' = "loop", ACK_TO_SEND' = 1
      PROVE  /\ ~heard' /\ toSender' = {}
             /\ LAST_ACK_RECV' = 1
             /\ curr_ack_type' = -1 /\ transmit' # 1
             /\ \A m \in DataSent' : m.seq = 1
  <2> USE DEF window, progress, sent, wireVars, senderVars, receiverVars
  <2>0. /\ ~heard /\ toSender = {} /\ LAST_ACK_RECV = 1
        /\ curr_ack_type = -1 /\ transmit # 1
        /\ \A m \in DataSent : m.seq = 1
        /\ spc = "start" => NEXT_BYTE_TO_SEND = 1
    BY <1>3 DEF StartInv
  <2>1. \A m \in DataSent' : m.seq = 1
    <3>1. ~TransmitNew
      BY <2>0 DEF TransmitNew
    <3>2. Start => spc = "start"
      BY DEF Start, SendPacket, SendPacketOutOfWindow, SendPacketPastBuffer,
         SendPacketNew
    <3> QED BY <2>0, <3>1, <3>2, SentSegments DEF DataSent
  <2>2. CASE SenderStep
    <3>1. ~heard'
      BY <2>0, <2>2 DEF SenderStep
    <3>2. CASE Start \/ Transmit
      BY <2>0, <2>1, <3>1, <3>2 DEF Start, Transmit, TransmitNew, SendPacket,
         SendPacketOutOfWindow, SendPacketPastBuffer, SendPacketNew,
         RetransmitPastBuffer, RetransmitPacket
    <3>3. CASE ReceivePacket
      BY <2>0, <2>1, <3>1, <3>3 DEF ReceivePacket, ReceiveNoAck
    <3>4. CASE Control
      BY <2>0, <2>1, <3>1, <3>4 DEF Control, Decide, OnTimeout, OnTripleDup,
         LeaveSlowStart, OnNewAckGrow, OnNewAckDivideByZero, OnNewAckRecovered,
         OnDupAckCount, OnDupAckInflate, OnNothing
    <3>5. CASE Finish
      BY <2>0, <2>1, <3>1, <3>5 DEF Finish, SendFin, NoFinAck, ReceiveFinAck
    <3> QED BY <2>2, <3>2, <3>3, <3>4, <3>5 DEF SenderStep, SenderNext
  <2>3. CASE ReceiverStep
    <3>1. ASSUME NEW m \in DataSent, AcceptSegment(m)
          PROVE  FALSE
      BY <1>3, <3>1, FirstByte
    <3>2. ASSUME NEW m \in DataSent, RejectSegment(m)
          PROVE  FALSE
      <4>1. m.seq = ACK_TO_SEND /\ m.len \in Nat /\ m.seq \in Numbers
        BY <1>3, <2>0 DEF IInv, SegmentInv, Datagram, Numbers
      <4>2. Digits(m.seq) \in Nat
        BY <4>1, NumeralAssumption DEF AreNumerals, Digits
      <4>3. Expected(m)
        BY <4>1, <4>2 DEF Expected, ReadsAs, Size, Symbol
      <4> QED BY <3>2, <4>3 DEF RejectSegment
    <3> QED BY <1>3, <2>0, <2>1, <2>3, <3>1, <3>2 DEF ReceiverStep, ReceiverNext,
            DataSent, ReceiveFin, RepeatAck
  <2> QED BY <2>2, <2>3 DEF Next
<1> QED BY <1>1, <1>2, <1>3 DEF StartInv

(* A number whose text begins with that of n is not smaller.               *)
LEMMA BeginningIsSmaller ==
    ASSUME NEW a \in Numbers, NEW n \in Numbers, Digits(n) <= Digits(a),
           \A p \in 1..Digits(n) : Text[a][p] = Text[n][p]
    PROVE  n <= a
<1>1. Digits(n) \in 1..Digits(a) /\ Digits(a) \in Nat
  BY NumeralAssumption DEF AreNumerals, Digits
<1>2. PICK k \in 1..a : /\ Digits(k) = Digits(n)
                       /\ \A p \in 1..Digits(n) : Text[k][p] = Text[a][p]
  BY <1>1, NumeralAssumption DEF AreNumerals, Digits
<1>3. k \in Numbers
  BY DEF Numbers
<1>4. k = n
  BY <1>2, <1>3, NumeralAssumption DEF AreNumerals, Digits
<1> QED BY <1>2, <1>4

(* A file without digits is plain.                                         *)
LEMMA LettersArePlain ==
    ASSUME \A i \in 1..bytesToTransfer : \A n \in Numbers :
               \A p \in 1..Digits(n) : Source[i] # Text[n][p]
    PROVE  PlainFile
<1> SUFFICES ASSUME NEW a \in 1..bytesToTransfer, NEW first \in 1..a,
                    NEW n \in SegmentNumbers,
                    NEW len \in 0..(bytesToTransfer + 1 - a),
                    ReadsAs([seq |-> a, from |-> first, len |-> len], n)
             PROVE  n <= a
  BY DEF PlainFile
<1>1. a \in Numbers /\ n \in Numbers /\ first \in 1..bytesToTransfer
  BY DEF SegmentNumbers, Numbers
<1>2. Digits(a) \in Nat \ {0} /\ Digits(n) \in Nat \ {0}
  BY <1>1, NumeralAssumption DEF AreNumerals, Digits
<1>3. Digits(n) <= Digits(a)
  <2> SUFFICES ASSUME Digits(a) < Digits(n) PROVE FALSE
    BY <1>2
  <2>1. Digits(a) + 1 \in 1..Digits(n)
    BY <1>2
  <2>2. Source[first] = Text[n][Digits(a) + 1]
    BY <1>2, <2>1 DEF ReadsAs, Symbol, Origin
  <2> QED BY <1>1, <2>1, <2>2
<1>4. \A p \in 1..Digits(n) : Text[a][p] = Text[n][p]
  BY <1>2, <1>3 DEF ReadsAs, Symbol
<1> QED BY <1>1, <1>3, <1>4, BeginningIsSmaller

(* What the receiver waits for is the number of a segment, or the one past *)
(* the last byte.                                                          *)
LEMMA AwaitedNumber ==
    ASSUME IInv, WrittenInv, rpc = "loop"
    PROVE  ACK_TO_SEND \in SegmentNumbers /\ ACK_TO_SEND \in Numbers
<1>1. Len(written) \in Nat /\ ACK_TO_SEND = Len(written) + 1
  BY DEF IInv, TypeOK, ReceiverTypeOK, ReceiverInv
<1>2. ACK_TO_SEND \in 1..(bytesToTransfer + 1)
  BY <1>1 DEF WrittenInv
<1>3. ACK_TO_SEND = bytesToTransfer + 1 \/ ACK_TO_SEND % MSS = 1 % MSS
  BY <1>1, OneOver DEF WrittenInv
<1> QED BY <1>2, <1>3 DEF SegmentNumbers, Numbers

(* A datagram that reads as the awaited number is not of a smaller one,    *)
(* since the file is plain; of a larger one it was sent in its turn, since *)
(* what is sent again is not ahead of the receiver, and no such number     *)
(* begins with the awaited one, unless that is 1.                          *)
LEMMA Told ==
    ASSUME PlainFile, PlainNumbers, IInv, SequenceInv, StartInv, WrittenInv,
           rpc = "loop", NEW m \in DataSent, Expected(m)
    PROVE  m.seq = ACK_TO_SEND
<1> DEFINE a == m.seq
           n == ACK_TO_SEND
<1>1. /\ m \in Datagram /\ a \in Numbers /\ a \in 1..(bytesToTransfer + 1)
      /\ m.from \in 1..a /\ m.len \in Nat
      /\ a + m.len - 1 <= bytesToTransfer
      /\ m = [seq |-> a, from |-> m.from, len |-> m.len]
  BY DEF IInv, SegmentInv, Numbers, Datagram
<1>2. n \in SegmentNumbers /\ n \in Numbers /\ n = Len(written) + 1
  BY AwaitedNumber DEF IInv, ReceiverInv
<1>3. ReadsAs(m, n)
  BY DEF Expected
<1>4. /\ Digits(a) \in Nat \ {0} /\ Digits(n) \in Nat \ {0}
      /\ Len(written) \in Nat
      /\ n \in Nat \ {0} /\ n <= bytesToTransfer + 1 /\ a \in Nat
  BY <1>1, <1>2, NumeralAssumption DEF AreNumerals, Digits, SegmentNumbers,
     IInv, TypeOK, ReceiverTypeOK
<1>5. n <= a
  <2>1. CASE a = bytesToTransfer + 1
    BY <1>4, <2>1
  <2>2. CASE a # bytesToTransfer + 1
    <3>1. a \in 1..bytesToTransfer /\ m.len \in 0..(bytesToTransfer + 1 - a)
      BY <1>1, <2>2
    <3> HIDE DEF a, n
    <3> QED BY <1>1, <1>2, <1>3, <3>1 DEF PlainFile
  <2> QED BY <2>1, <2>2
<1>6. CASE a <= Len(written) + 1
  BY <1>2, <1>4, <1>5, <1>6
<1>7. CASE a \in SegmentNumbers
  <2>1. CASE Digits(n) <= Digits(a)
    <3>1. ReadsAs([seq |-> a, from |-> 1, len |-> 0], n)
      BY <1>3, <1>4, <2>1 DEF ReadsAs, Size, Symbol
    <3>2. n \in {1, a}
      BY <1>2, <1>7, <3>1 DEF PlainNumbers
    <3>3. n = 1 => a = 1
      BY DEF StartInv
    <3> QED BY <3>2, <3>3
  <2>2. CASE Digits(a) < Digits(n)
    <3>1. \A p \in 1..Digits(a) : Text[n][p] = Text[a][p]
      BY <1>3, <1>4, <2>2 DEF ReadsAs, Symbol
    <3>2. Digits(a) <= Digits(n)
      BY <1>4, <2>2
    <3> HIDE DEF a, n
    <3>3. a <= n
      BY <1>1, <1>2, <3>1, <3>2, BeginningIsSmaller
    <3>4. a = n
      BY <1>4, <1>5, <3>3
    <3> QED BY <3>4 DEF a, n
  <2> QED BY <1>4, <2>1, <2>2
<1> QED BY <1>6, <1>7 DEF SequenceInv

-----------------------------------------------------------------------------
(* The receiver's file                                                     *)

LEMMA WrittenStep ==
    ASSUME PlainFile, PlainNumbers, IInv, LengthInv, SequenceInv, StartInv,
           WrittenInv, Next
    PROVE  WrittenInv'
<1>1. CASE UNCHANGED written
  BY <1>1 DEF WrittenInv
<1>2. ASSUME NEW m \in DataSent, AcceptSegment(m)
      PROVE  WrittenInv'
  <2> DEFINE n == PayloadLength(m)
  <2>1. /\ Len(written) \in Nat /\ n \in Nat
        /\ ACK_TO_SEND = Len(written) + 1
        /\ Len(written') = Len(written) + n
    BY <1>2, AcceptGrows
  <2>2. m.seq = ACK_TO_SEND
    BY <1>2, Told DEF AcceptSegment
  <2>3. /\ m \in Datagram /\ m.seq \in Numbers /\ m.len \in Nat
        /\ m.seq + m.len - 1 <= bytesToTransfer
    BY DEF IInv, SegmentInv, Datagram, Numbers
  <2>4. n = IF m.len < MSS THEN m.len ELSE MSS
    BY <2>2, <2>3, AwaitedPayload
  <2> HIDE DEF n
  <2>5. Len(written') <= bytesToTransfer
    BY <2>1, <2>2, <2>3, <2>4
  <2>6. CASE n = MSS
    <3>1. CASE Len(written) = bytesToTransfer
      BY <2>1, <2>5, <2>6, <3>1
    <3>2. CASE \E k \in Nat : Len(written) = k * MSS
      <4>1. PICK k \in Nat : Len(written) = k * MSS
        BY <3>2
      <4>2. (k + 1) * MSS = k * MSS + MSS
        OBVIOUS
      <4>3. Len(written') = (k + 1) * MSS
        BY <2>1, <2>6, <4>1, <4>2
      <4> QED BY <2>5, <4>3 DEF WrittenInv
    <3> QED BY <3>1, <3>2 DEF WrittenInv
  <2>7. CASE n # MSS
    <3>1. m.len < MSS /\ n = m.len
      BY <2>3, <2>4, <2>7
    <3>2. m.seq + m.len - 1 = bytesToTransfer
      BY <3>1 DEF LengthInv, IsLength
    <3>3. Len(written') = bytesToTransfer
      BY <2>1, <2>2, <2>3, <3>1, <3>2
    <3> QED BY <3>3 DEF WrittenInv
  <2> QED BY <2>6, <2>7
<1> QED BY <1>1, <1>2, ReceiverSteps

(* A segment that carries its own bytes continues a right file.            *)
LEMMA Continues ==
    ASSUME IInv, NEW m \in DataSent, AcceptSegment(m), m.seq = ACK_TO_SEND,
           m.from = m.seq
    PROVE  \A i \in (Len(written) + 1)..Len(written') : written'[i] = i
<1>1. /\ Len(written) \in Nat /\ ACK_TO_SEND = Len(written) + 1
      /\ PayloadLength(m) \in Nat
      /\ Payload(m) \in Seq(0..bytesToTransfer)
      /\ Len(Payload(m)) = PayloadLength(m)
      /\ Len(written') = Len(written) + PayloadLength(m)
  BY AcceptGrows
<1>2. written' = written \o Payload(m) /\ written \in Seq(0..bytesToTransfer)
  BY DEF AcceptSegment, IInv, TypeOK, ReceiverTypeOK
<1>3. m \in Datagram /\ m.seq \in Numbers
  BY DEF IInv, SegmentInv, Numbers
<1>4. \A i \in 1..PayloadLength(m) : Payload(m)[i] = m.from + i - 1
  BY <1>3, AwaitedPayload
<1>5. ASSUME NEW i \in (Len(written) + 1)..Len(written')
      PROVE  written'[i] = i
  <2>1. written'[i] = Payload(m)[i - Len(written)]
    BY <1>1, <1>2, ConcatProperties
  <2>2. i - Len(written) \in 1..PayloadLength(m)
    BY <1>1
  <2>3. written'[i] = m.from + (i - Len(written)) - 1
    BY <1>4, <2>1, <2>2
  <2> QED BY <1>1, <2>2, <2>3
<1> QED BY <1>5

LEMMA Keeps ==
    ASSUME IInv, NEW m \in DataSent, AcceptSegment(m)
    PROVE  \A i \in 1..Len(written) : written'[i] = written[i]
<1>1. /\ Payload(m) \in Seq(0..bytesToTransfer)
      /\ written' = written \o Payload(m) /\ written \in Seq(0..bytesToTransfer)
  BY AcceptGrows DEF AcceptSegment, IInv, TypeOK, ReceiverTypeOK
<1> QED BY <1>1, ConcatProperties

(* What is on the wire stays there, so a segment that was spoiled shows.   *)
LEMMA PlaceStep ==
    ASSUME PlainFile, PlainNumbers, IInv, LengthInv, SequenceInv, StartInv,
           WrittenInv, PlaceInv, Next
    PROVE  PlaceInv'
<1>0. Len(written) \in Nat /\ Len(written') \in Nat
  BY WrittenGrows
<1>1. SegmentsUnharmed' => SegmentsUnharmed
  BY SentSegments DEF SegmentsUnharmed, DataSent
<1>2. CASE UNCHANGED written
  BY <1>1, <1>2 DEF PlaceInv, PrefixDelivered, FirstBytesDelivered
<1>3. ASSUME NEW m \in DataSent, AcceptSegment(m)
      PROVE  PlaceInv'
  <2>1. m.seq = ACK_TO_SEND /\ ACK_TO_SEND = Len(written) + 1
    BY <1>3, Told, AcceptGrows DEF AcceptSegment
  <2>2. SegmentsUnharmed' => PrefixDelivered'
    <3> SUFFICES ASSUME SegmentsUnharmed', NEW i \in 1..Len(written')
                 PROVE  written'[i] = i
      BY DEF PrefixDelivered
    <3>1. m.from = m.seq
      BY <1>1 DEF SegmentsUnharmed
    <3>2. CASE i <= Len(written)
      BY <1>0, <1>1, <1>3, <3>2, Keeps DEF PlaceInv, PrefixDelivered
    <3>3. CASE i > Len(written)
      BY <1>0, <1>3, <2>1, <3>1, <3>3, Continues
    <3> QED BY <1>0, <3>2, <3>3
  <2>3. FirstBytesDelivered'
    <3> SUFFICES ASSUME NEW i \in 1..Len(written'), i <= MSS
                 PROVE  written'[i] = i
      BY DEF FirstBytesDelivered
    <3>1. CASE i <= Len(written)
      BY <1>0, <1>3, <3>1, Keeps DEF PlaceInv, FirstBytesDelivered
    <3>2. CASE i > Len(written)
      <4>1. Len(written) # bytesToTransfer
        BY <1>0, <1>3, <3>2, WrittenStep DEF WrittenInv
      <4>2. PICK k \in Nat : Len(written) = k * MSS
        BY <4>1 DEF WrittenInv
      <4>3. k = 0
        <5>1. k >= 1 => k * MSS >= 1 * MSS
          BY TimesMonotone
        <5> QED BY <1>0, <3>2, <4>2, <5>1
      <4>4. m.seq = 1
        BY <2>1, <4>2, <4>3
      <4>5. m.from = m.seq
        BY <4>4 DEF IInv, SegmentInv
      <4> QED BY <1>0, <1>3, <2>1, <3>2, <4>5, Continues
    <3> QED BY <1>0, <3>1, <3>2
  <2> QED BY <2>2, <2>3 DEF PlaceInv
<1> QED BY <1>2, <1>3, ReceiverSteps

-----------------------------------------------------------------------------
(* The theorems                                                            *)

LEMMA DeliveryInvariance ==
    ASSUME PlainFile, PlainNumbers
    PROVE  Spec => [](IInv /\ DInv)
<1>1. Init => DInv
  BY InitDInv
<1>2. IInv /\ DInv /\ [Next]_vars => DInv'
  <2> SUFFICES ASSUME IInv, DInv, [Next]_vars PROVE DInv'
    OBVIOUS
  <2>1. CASE Next
    BY <2>1, LengthStep, SequenceStep, StartStep, WrittenStep, PlaceStep, FinStep
       DEF DInv
  <2>2. CASE UNCHANGED vars
    BY <2>2 DEF DInv, LengthInv, SequenceInv, StartInv, WrittenInv, PlaceInv, FinInv,
       SegmentsUnharmed, FirstBytesDelivered, DataSent, PrefixDelivered,
       vars, senderVars, receiverVars, wireVars, progress, sent
  <2> QED BY <2>1, <2>2
<1> QED BY <1>1, <1>2, Invariance, PTL DEF Spec

(* No datagram is taken for another, however late it comes, in any plain   *)
(* transfer, with numbers of as many widths as it takes.                   *)
THEOREM NumbersAreTold == Spec => []NeverConfused
<1>1. CASE PlainFile /\ PlainNumbers
  <2>1. IInv /\ DInv => NeverConfused
    BY <1>1, Told DEF DInv, NeverConfused, DataSent
  <2>2. Spec => [](IInv /\ DInv)
    BY <1>1, DeliveryInvariance
  <2> QED BY <2>1, <2>2, PTL
<1>2. CASE ~(PlainFile /\ PlainNumbers)
  <2>1. NeverConfused
    BY <1>2 DEF NeverConfused
  <2> QED BY <2>1, PTL
<1> QED BY <1>1, <1>2

(* As long as no copy has spoiled a segment, the receiver's file is a      *)
(* prefix of the source, whatever the network does to segments and acks.   *)
THEOREM PrefixIsDelivered ==
    ASSUME PlainFile, PlainNumbers
    PROVE  Spec => [](SegmentsUnharmed => PrefixDelivered)
<1>1. DInv => (SegmentsUnharmed => PrefixDelivered)
  BY DEF DInv, PlaceInv
<1> QED BY <1>1, DeliveryInvariance, PTL

(* The bytes of the first segment are delivered in any case.               *)
THEOREM FirstBytesAreDelivered ==
    ASSUME PlainFile, PlainNumbers
    PROVE  Spec => []FirstBytesDelivered
<1>1. DInv => FirstBytesDelivered
  BY DEF DInv, PlaceInv
<1> QED BY <1>1, DeliveryInvariance, PTL

(* A file of one segment has only number 1 and the one past its end.       *)
LEMMA OneSegment ==
    ASSUME bytesToTransfer <= MSS
    PROVE  PlainNumbers
<1> SUFFICES ASSUME NEW a \in SegmentNumbers, NEW n \in SegmentNumbers,
                    ReadsAs([seq |-> a, from |-> 1, len |-> 0], n),
                    n # 1
             PROVE  n = a
  BY DEF PlainNumbers
<1>1. a \in Numbers /\ n \in Numbers
  BY DEF SegmentNumbers, Numbers
<1>2. n = bytesToTransfer + 1
  <2>1. ASSUME n <= bytesToTransfer PROVE FALSE
    <3>1. n \in 2..MSS /\ n % MSS = 1 % MSS
      BY <2>1 DEF SegmentNumbers
    <3>2. 1 % MSS = 1
      BY <3>1
    <3>3. n % MSS = IF n = MSS THEN 0 ELSE n
      BY <3>1
    <3> QED BY <3>1, <3>2, <3>3
  <2> QED BY <2>1 DEF SegmentNumbers
<1>3. n <= a
  <2>1. Digits(a) \in Nat \ {0} /\ Digits(n) \in Nat \ {0}
    BY <1>1, NumeralAssumption DEF AreNumerals, Digits
  <2>2. Digits(n) <= Digits(a) /\ \A p \in 1..Digits(n) : Text[a][p] = Text[n][p]
    BY <2>1 DEF ReadsAs, Size, Symbol
  <2> QED BY <1>1, <2>2, BeginningIsSmaller
<1> QED BY <1>2, <1>3 DEF SegmentNumbers

LEMMA SmallPrefix ==
    ASSUME IInv, DInv, bytesToTransfer <= MSS
    PROVE  PrefixDelivered
<1>1. Len(written) \in Nat /\ Len(written) <= bytesToTransfer
  BY DEF IInv, TypeOK, ReceiverTypeOK, DInv, WrittenInv
<1> QED BY <1>1 DEF DInv, PlaceInv, FirstBytesDelivered, PrefixDelivered

(* A plain file of one segment is delivered as it is, by the code as it    *)
(* allocates its slots.                                                    *)
THEOREM SmallFileIsDelivered ==
    ASSUME PlainFile, bytesToTransfer <= MSS
    PROVE  Spec => []PrefixDelivered
<1>1. IInv /\ DInv => PrefixDelivered
  BY SmallPrefix
<1>2. Spec => [](IInv /\ DInv)
  BY OneSegment, DeliveryInvariance
<1> QED BY <1>1, <1>2, PTL

(* What the last ack but one says of the receiver's file.                  *)
LEMMA WholeAtLast ==
    ASSUME IInv, DInv, LAST_ACK_RECV >= bytesToTransfer
    PROVE  IF bytesToTransfer % MSS = 1 % MSS
           THEN Len(written) \in {bytesToTransfer - 1, bytesToTransfer}
           ELSE Len(written) = bytesToTransfer
<1>1. /\ LAST_ACK_RECV \in Nat /\ Len(written) \in Nat
      /\ LAST_ACK_RECV <= Len(written) + 1
      /\ Len(written) <= bytesToTransfer
  BY DEF IInv, TypeOK, SenderTypeOK, ReceiverTypeOK, AckSound, DInv, WrittenInv
<1>2. Len(written) \in {bytesToTransfer - 1, bytesToTransfer}
  BY <1>1
<1>3. ASSUME Len(written) = bytesToTransfer - 1, Len(written) # bytesToTransfer
      PROVE  bytesToTransfer % MSS = 1 % MSS
  <2>1. PICK k \in Nat : Len(written) = k * MSS
    BY <1>3 DEF DInv, WrittenInv
  <2>2. bytesToTransfer = k * MSS + 1
    BY <1>1, <1>3, <2>1
  <2> QED BY <2>1, <2>2, OneOver
<1> QED BY <1>1, <1>2, <1>3

(* FIN is sent and the file closed only when all of it is there, but for   *)
(* the last byte of files of one byte over a multiple of MSS.              *)
THEOREM FinishedIsDelivered ==
    ASSUME PlainFile, PlainNumbers
    PROVE  Spec => []FinishedMeansDelivered
<1>1. IInv /\ DInv => FinishedMeansDelivered
  BY WholeAtLast DEF DInv, FinInv, FinishedMeansDelivered
<1> QED BY <1>1, DeliveryInvariance, PTL

abstract == <<written, LAST_ACK_RECV - 1, rpc = "done">>

(* An accepted segment is a Deliver, a new ack a Confirm and the receipt   *)
(* of FIN a Close; every other step stutters.                              *)
LEMMA StreamStep ==
    ASSUME IInv, DInv, IInv', DInv', PrefixDelivered', [Next]_vars,
           bytesToTransfer % MSS # 1 % MSS
    PROVE  [S!Next]_abstract
<1> USE DEF abstract
<1> SUFFICES ASSUME Next PROVE [S!Next]_abstract
  BY DEF vars, senderVars, receiverVars, progress
<1>0. /\ Len(written) \in Nat /\ written' \in Seq(0..bytesToTransfer)
      /\ LAST_ACK_RECV \in Nat /\ LAST_ACK_RECV' \in Nat
      /\ LAST_ACK_RECV' <= Len(written') + 1
  BY DEF IInv, TypeOK, SenderTypeOK, ReceiverTypeOK, AckSound
<1>1. CASE UNCHANGED <<progress, written, rpc>>
  BY <1>1 DEF progress
<1>2. ASSUME NEW m \in DataSent, AcceptSegment(m), UNCHANGED senderVars
      PROVE  S!Deliver
  <2>1. Len(written') \in Len(written)..bytesToTransfer
    BY <1>2, <1>0, AcceptGrows DEF DInv, WrittenInv
  <2>2. written' = [i \in 1..Len(written') |-> i]
    BY <1>0 DEF PrefixDelivered
  <2>3. rpc = "loop" /\ UNCHANGED <<LAST_ACK_RECV, rpc>>
    BY <1>2 DEF AcceptSegment, senderVars, progress
  <2> QED BY <2>1, <2>2, <2>3 DEF S!Deliver
<1>3. CASE UNCHANGED receiverVars /\ LAST_ACK_RECV' > LAST_ACK_RECV
  <2>0. Len(written') = Len(written)
    BY <1>3 DEF receiverVars
  <2>1. LAST_ACK_RECV' <= Len(written) + 1
    BY <1>0, <2>0
  <2>2. LAST_ACK_RECV' - 1 \in (LAST_ACK_RECV - 1)..Len(written)
    <3>1. \A a, b, c \in Nat : b > a /\ b <= c + 1 => b - 1 \in (a - 1)..c
      OBVIOUS
    <3> QED BY <1>0, <1>3, <2>1, <3>1
  <2> QED BY <1>3, <2>2 DEF S!Next, S!Confirm, receiverVars
<1>4. CASE ReceiveFin /\ UNCHANGED senderVars
  <2>1. Len(written) = bytesToTransfer
    BY <1>4, WholeAtLast DEF ReceiveFin, DInv, FinInv
  <2> QED BY <1>4, <2>1 DEF S!Next, S!Close, ReceiveFin, senderVars, progress
<1>5. CASE SenderStep
  BY <1>0, <1>1, <1>3, <1>5, ProgressStep DEF SenderStep, receiverVars
<1>6. CASE ReceiverStep
  BY <1>1, <1>2, <1>4, <1>6 DEF ReceiverStep, ReceiverNext, DataSent,
     RejectSegment, RepeatAck, receiverVars, senderVars, S!Next
<1> QED BY <1>5, <1>6 DEF Next

LEMMA StreamInit == Init => S!Init
BY DEF Init, SenderInit, ReceiverInit, S!Init

(* A transfer of any other length in which no copy spoils a segment        *)
(* implements the abstract stream.                                         *)
THEOREM ImplementsStream ==
    ASSUME PlainFile, PlainNumbers, bytesToTransfer % MSS # 1 % MSS
    PROVE  Spec /\ []SegmentsUnharmed => IsStream
<1>1. IInv /\ DInv /\ SegmentsUnharmed => PrefixDelivered
  BY DEF DInv, PlaceInv
<1>2. /\ IInv /\ DInv /\ (IInv /\ DInv)' /\ PrefixDelivered' /\ [Next]_vars
      => [S!Next]_abstract
  BY StreamStep
<1>3. Spec => [](IInv /\ DInv)
  BY DeliveryInvariance
<1> QED BY <1>1, <1>2, <1>3, StreamInit, PTL DEF Spec, IsStream, S!Spec, abstract

(* A transfer of one segment implements it whatever the allocator does.    *)
THEOREM SmallFileImplementsStream ==
    ASSUME PlainFile, bytesToTransfer <= MSS, bytesToTransfer % MSS # 1 % MSS
    PROVE  Spec => IsStream
<1>1. IInv /\ DInv => PrefixDelivered
  BY SmallPrefix
<1>2. /\ IInv /\ DInv /\ (IInv /\ DInv)' /\ PrefixDelivered' /\ [Next]_vars
      => [S!Next]_abstract
  BY StreamStep
<1>3. Spec => [](IInv /\ DInv)
  BY OneSegment, DeliveryInvariance
<1> QED BY <1>1, <1>2, <1>3, StreamInit, PTL DEF Spec, IsStream, S!Spec, abstract

=============================================================================
