----------------------------- MODULE Transport ------------------------------
(* A file transfer of mp2: reliable_sender and reliable_receiver over a    *)
(* network that delays, reorders, repeats and loses their datagrams.       *)
EXTENDS Sender, Receiver

vars == <<senderVars, receiverVars, wireVars>>

Init == SenderInit /\ ReceiverInit /\ WireInit

SenderStep == SenderNext /\ UNCHANGED receiverVars
ReceiverStep == ReceiverNext /\ UNCHANGED senderVars

Next == SenderStep \/ ReceiverStep

Spec == Init /\ [][Next]_vars

(* For liveness: any copy of a datagram may be lost, but one of the copies *)
(* of what is sent again and again arrives.  The sender keeps taking steps *)
(* (all its waits have timeouts), its clock goes on, so that checkTimeout  *)
(* is true at last, and the receiver's acks, repeated every 100 us, find   *)
(* it waiting, which is what it does with nearly all of its time.          *)
LossyNext == Next \/ (Lose /\ UNCHANGED <<senderVars, receiverVars>>)

NewAckArrives == \E ack \in toSender \ {Fin} : ReceiveNewAck(ack)
SegmentArrives == \E m \in toReceiver \ {FinDatagram} : AcceptSegment(m)

FairSpec ==
    /\ Init /\ [][LossyNext]_vars
    /\ WF_vars(SenderStep)
    /\ SF_vars(OnTimeout /\ UNCHANGED receiverVars)
    /\ SF_vars(spc = "recv" /\ RepeatAck /\ UNCHANGED senderVars)
    /\ SF_vars(NewAckArrives /\ UNCHANGED receiverVars)
    /\ SF_vars(SegmentArrives /\ UNCHANGED senderVars)
    /\ SF_vars(ReceiveFin /\ UNCHANGED senderVars)
    /\ SF_vars(ReceiveFinAck /\ UNCHANGED receiverVars)

-----------------------------------------------------------------------------
(* Properties                                                              *)

(* Every variable of the two programs and of the network has its type.     *)
TypeOK ==
    /\ SenderTypeOK
    /\ ReceiverTypeOK
    /\ toReceiver \subseteq Datagram \cup {FinDatagram}
    /\ toSender \subseteq Numbers \cup {Fin}

(* No acknowledgement, in flight or taken over by the sender (possibly cut *)
(* short by receivePacket), runs ahead of what the receiver has written.   *)
AckSound ==
    /\ LAST_ACK_RECV <= Len(written) + 1
    /\ \A ack \in toSender : ack <= Len(written) + 1

(* The sequential reads of sendPacket and the seeks of retransmitPacket    *)
(* both put the bytes behind a sequence number that it names, and never    *)
(* bytes past the end of the transfer.  A copy into SEND_BUFFER that has   *)
(* run over its slot may spoil what is read after it, never segment 1.     *)
SegmentsNameTheirBytes ==
    \A m \in toReceiver \ {FinDatagram} :
        /\ m.seq + m.len - 1 <= bytesToTransfer
        /\ ~Overrun \/ m.seq = 1 => m.from = m.seq

(* checkTimeout and receivePacket index SENT_TIMES with num_pkts_acked:    *)
(* as long as the loop runs, that index is inside the array.               *)
IndexInBounds ==
    spc \in {"recv", "control", "transmit"} => num_pkts_acked < num_segments

(* The numbers that sendPacket gives to segments, and so, as every one of  *)
(* them continues the file, those that the receiver comes to wait for.     *)
SegmentNumbers == {n \in 1..(bytesToTransfer + 1) :
                      n % MSS = 1 % MSS \/ n = bytesToTransfer + 1}

(* Numbers have no end mark.  In a plain file no bytes that may stand      *)
(* behind a number complete it to a larger one that is waited for; and of  *)
(* plain numbers none but 1 is the beginning of a larger one.              *)
PlainFile ==
    \A a \in 1..bytesToTransfer : \A first \in 1..a :
        \A n \in SegmentNumbers : \A len \in 0..(bytesToTransfer + 1 - a) :
            ReadsAs([seq |-> a, from |-> first, len |-> len], n) => n <= a

PlainNumbers ==
    \A a, n \in SegmentNumbers :
        ReadsAs([seq |-> a, from |-> 1, len |-> 0], n) => n \in {1, a}

(* Only the awaited segment is taken for it, in any order of late and      *)
(* repeated ones, though numbers are compared by as many characters as the *)
(* awaited one has and follow each other through widths: if the file is    *)
(* plain and the transfer not so long that one number begins another.      *)
(* DelaysKeepOrder, below, is about a file that is not.                    *)
NeverConfused ==
    PlainFile /\ PlainNumbers /\ rpc = "loop" =>
        \A m \in toReceiver \ {FinDatagram} : Expected(m) => m.seq = ACK_TO_SEND

(* What the receiver has written is the beginning of the file, each byte   *)
(* in its place, whatever was lost, repeated or overtaken.                 *)
PrefixDelivered == \A i \in 1..Len(written) : written[i] = i

(* FIN is sent, and the receiver's file closed, only when the file is      *)
(* there; a last segment of one byte is cut from the one before it, and    *)
(* that byte is lost.                                                      *)
FinishedMeansDelivered ==
    spc \in {"fin", "finwait", "done", "abort"} \/ rpc = "done" =>
        IF bytesToTransfer % MSS = 1 % MSS
        THEN Len(written) \in {bytesToTransfer - 1, bytesToTransfer}
        ELSE Len(written) = bytesToTransfer

(* Fast recovery is entered with three duplicates counted and keeps the    *)
(* count; nothing counts to four, which would skip the test for three.     *)
DuplicatesCounted ==
    /\ DUP_COUNT <= 3
    /\ State = "F" => DUP_COUNT = 3

(* An old, repeated or cut acknowledgement never takes the sender back,    *)
(* and each advance is counted as one acknowledged segment, the index of   *)
(* the times that checkTimeout reads.                                      *)
AcksAdvance ==
    [][/\ LAST_ACK_RECV' >= LAST_ACK_RECV
       /\ num_pkts_acked' = num_pkts_acked
                            + (IF LAST_ACK_RECV' > LAST_ACK_RECV THEN 1 ELSE 0)]_vars

(* The transfer is a stream: bytes arrive once and in order, the sender's  *)
(* knowledge follows the receiver's file, and the file is complete when    *)
(* the receiver leaves its loop.                                           *)
S == INSTANCE Stream WITH Length <- bytesToTransfer,
                          delivered <- written,
                          confirmed <- LAST_ACK_RECV - 1,
                          closed <- rpc = "done"
IsStream == S!Spec

(* Once the sender starts to send FIN, the receiver comes to the end of    *)
(* its loop, however often FIN is lost.                                    *)
FinDelivered == (spc = "fin") ~> (rpc = "done")

(* However often segments and acks are lost, the sender leaves its loop:   *)
(* no pass that drops the ack it has read, repeats an old decision or      *)
(* moves the window without an ack keeps the transfer from going on.  (It  *)
(* may leave it by a crash; see SurvivesDelays.)                           *)
TransferEnds == <>(spc \notin {"start", "recv", "control", "transmit"})

(* Once the receiver has gone the sender comes to its end, too, whatever   *)
(* old acks it still reads, unless the one answer to FIN is lost: nobody   *)
(* is left to give another, and the sender repeats FIN for ever.           *)
SenderFinishes ==
    (rpc = "done") ~> (spc \in {"done", "abort"} \/ Fin \notin toSender)

-----------------------------------------------------------------------------
(* What the repository says of the programs, and what they do instead: the *)
(* runs of these end in a counterexample.                                  *)

(* README.md: TCP "that tolerates packet drops, delays".  An ack that does *)
(* not come within the first 40 ms makes the sender read SENT_TIMES[-1].   *)
SurvivesDelays == spc # "segv"

(* The same sentence.  After a timeout in fast recovery CWND is 1, the     *)
(* next triple duplicate halves it to 0, and congestion avoidance divides  *)
(* by it.                                                                  *)
SurvivesRecovery == spc # "fpe"

(* The same sentence, on any network.  A segment is copied into a slot of  *)
(* SEND_BUFFER that has no room for it, over what fp has read ahead.       *)
SegmentsKeepTheirBytes == PrefixDelivered

(* The same sentence, for any file.  A late segment 1 is behind its number *)
(* made of bytes of the file; if the first of them are digits the two can  *)
(* read as the number that is waited for, and the bytes are written again. *)
DelaysKeepOrder == PrefixDelivered

(* The receiver's "%s received." when it leaves: one byte over a multiple  *)
(* of MSS never arrives.                                                   *)
ReceivedIsWhole == rpc = "done" => Len(written) = bytesToTransfer

(* The same sentence, on any network.  recvfrom is given room for the      *)
(* digits of bytesToTransfer; the ack of the last byte is one more, and if *)
(* that takes another digit it is cut, and cut again when it is repeated.  *)
EveryTransferEnds == TransferEnds

=============================================================================
