------------------------------ MODULE Receiver ------------------------------
(* reliable_receiver (mp2/src/receiver_main.c).  One pass of the loop of   *)
(* reliablyReceive, receivePacket and the sendAck that always follows it,  *)
(* is one action: nothing but its recvfrom waits for anything.             *)
EXTENDS Wire

VARIABLES
    rpc,          \* "loop", "done" after the loop is left
    ACK_TO_SEND,
    heard,        \* a datagram came, so that recvfrom has a timeout
    written       \* the file, each byte as the byte of the source it is

receiverVars == <<rpc, ACK_TO_SEND, heard, written>>

ReceiverTypeOK ==
    /\ rpc \in {"loop", "done"}
    /\ ACK_TO_SEND \in Numbers \cup {Fin}
    /\ heard \in BOOLEAN
    /\ written \in Seq(0..bytesToTransfer)

ReceiverInit ==
    /\ rpc = "loop"
    /\ ACK_TO_SEND = 1
    /\ heard = FALSE
    /\ written = <<>>

(* Mutant: the ack names the byte after the one that is awaited.           *)
SendAckBeyond(ack) == toSender' = toSender \cup {ack + 1}

SendAck(ack) == toSender' = toSender \cup {ack}

(* recvfrom is given room for the digits of the number waited for and MSS  *)
(* bytes, and whatever follows those digits is file contents.              *)
Room == Digits(ACK_TO_SEND) + MSS

PayloadLength(m) == (IF Size(m) < Room THEN Size(m) ELSE Room) - Digits(ACK_TO_SEND)

(* Mutant: the file bytes are taken from the start of the datagram.        *)
PayloadFromStart(m) == [i \in 1..PayloadLength(m) |-> Origin(m, i)]

Payload(m) == [i \in 1..PayloadLength(m) |-> Origin(m, Digits(ACK_TO_SEND) + i)]

(* The first characters of m, as many as n has digits, read as n.          *)
ReadsAs(m, n) ==
    /\ Digits(n) <= Size(m)
    /\ \A p \in 1..Digits(n) : Symbol(m, p) = Text[n][p]

(* Mutant: any number is taken for the awaited one.                        *)
ExpectedAny(m) == Digits(ACK_TO_SEND) <= Size(m)

(* Mutant: the number read ends one digit early.                           *)
ExpectedButLast(m) ==
    /\ Digits(ACK_TO_SEND) <= Size(m)
    /\ \A p \in 1..(Digits(ACK_TO_SEND) - 1) : Symbol(m, p) = Text[ACK_TO_SEND][p]

Expected(m) == ReadsAs(m, ACK_TO_SEND)

AcceptSegment(m) ==
    /\ rpc = "loop"
    /\ Expected(m)
    /\ ACK_TO_SEND + PayloadLength(m) <= MaxNumber
    /\ written' = written \o Payload(m)
    /\ ACK_TO_SEND' = ACK_TO_SEND + PayloadLength(m)
    /\ heard' = TRUE
    /\ SendAck(ACK_TO_SEND + PayloadLength(m))
    /\ UNCHANGED <<rpc, toReceiver>>

RejectSegment(m) ==
    /\ rpc = "loop"
    /\ ~Expected(m)
    /\ heard' = TRUE
    /\ SendAck(ACK_TO_SEND)
    /\ UNCHANGED <<rpc, ACK_TO_SEND, written, toReceiver>>

ReceiveFin ==
    /\ rpc = "loop"
    /\ FinDatagram \in toReceiver
    /\ ACK_TO_SEND' = Fin
    /\ heard' = TRUE
    /\ SendAck(Fin)
    /\ rpc' = "done"
    /\ UNCHANGED <<written, toReceiver>>

(* The 100 us timeout, set after the first datagram, repeats the last ack. *)
RepeatAck ==
    /\ rpc = "loop" /\ heard
    /\ SendAck(ACK_TO_SEND)
    /\ UNCHANGED <<receiverVars, toReceiver>>

ReceiverNext ==
    \/ \E m \in toReceiver \ {FinDatagram} : AcceptSegment(m) \/ RejectSegment(m)
    \/ ReceiveFin
    \/ RepeatAck

=============================================================================
