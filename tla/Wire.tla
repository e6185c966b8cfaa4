-------------------------------- MODULE Wire --------------------------------
(* The UDP path between reliable_sender and reliable_receiver (mp2) and    *)
(* the text the two programs put on it.  A data datagram is the decimal    *)
(* numeral of its sequence number directly followed by file bytes, with    *)
(* nothing between the two; an acknowledgement is a numeral alone; FIN and *)
(* its acknowledgement are the single character '-', written -1 here as in *)
(* the receiver's ACK_TO_SEND.                                             *)
EXTENDS Integers, Sequences

CONSTANTS
    MSS,              \* file bytes per segment (1472 in both programs)
    bytesToTransfer,  \* the sender's fourth argument
    MaxNumber,        \* bound: no number above it is put on the wire
    Text,             \* Text[n]: the numeral of n as a sequence of symbols
    Source            \* Source[i]: the symbol that byte i of the file is

Numbers == 1..MaxNumber

ASSUME SizeAssumption ==
    /\ MSS \in Nat \ {0}
    /\ bytesToTransfer \in Nat
    /\ MaxNumber \in Nat
    /\ MaxNumber > bytesToTransfer

(* What the proofs need of decimal numerals: two numbers have different    *)
(* ones, and cutting one short leaves the numeral of a smaller number.     *)
AreNumerals(text) ==
    /\ DOMAIN text = Numbers
    /\ \A n \in Numbers : Len(text[n]) \in Nat \ {0}
    /\ \A n \in Numbers : DOMAIN text[n] = 1..Len(text[n])
    /\ \A m, n \in Numbers :
          /\ Len(text[m]) = Len(text[n])
          /\ \A p \in 1..Len(text[n]) : text[m][p] = text[n][p]
          => m = n
    /\ \A n \in Numbers : \A d \in 1..Len(text[n]) : \E m \in 1..n :
          /\ Len(text[m]) = d
          /\ \A p \in 1..d : text[m][p] = text[n][p]

ASSUME NumeralAssumption == AreNumerals(Text)

VARIABLES
    toReceiver,       \* datagrams sent to the receiver
    toSender          \* acknowledgements sent to the sender

wireVars == <<toReceiver, toSender>>

Fin == -1

(* A datagram names its bytes by where in the file the first of them is    *)
(* (from) and how many there are (len).                                    *)
Datagram == [seq : Nat, from : Nat, len : Nat]
FinDatagram == [seq |-> Fin, from |-> 0, len |-> 0]

Digits(n) == Len(Text[n])
Size(m) == Digits(m.seq) + m.len

(* The p-th character of a datagram, and the file byte it is (0 if it is   *)
(* part of the numeral).                                                   *)
Origin(m, p) == IF p <= Digits(m.seq) THEN 0 ELSE m.from + p - Digits(m.seq) - 1
Symbol(m, p) == IF p <= Digits(m.seq) THEN Text[m.seq][p] ELSE Source[Origin(m, p)]

(* A datagram is sent into a set that only grows: it can be delivered      *)
(* late, twice, after later ones or never.  Lose is for the specification  *)
(* with fairness, where "never" must not be confused with "not yet".       *)
WireInit ==
    /\ toReceiver = {}
    /\ toSender = {}

LoseDatagram ==
    /\ \E m \in toReceiver : toReceiver' = toReceiver \ {m}
    /\ UNCHANGED toSender

LoseAck ==
    /\ \E a \in toSender : toSender' = toSender \ {a}
    /\ UNCHANGED toReceiver

Lose == LoseDatagram \/ LoseAck

=============================================================================
