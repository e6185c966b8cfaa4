----------------------------- MODULE HttpClient -----------------------------
(* http_client (mp1/src/client.c): sends its request, skips the header of  *)
(* the response, and writes all that follows to the file "output".         *)
EXTENDS Connection

CONSTANTS
    MAXDATASIZE,  \* bytes that are written to the file at a time (100)
    Killable      \* bound: clients that may be killed

ASSUME ClientAssumption ==
    /\ MAXDATASIZE \in Nat \ {0}
    /\ Killable \subseteq Clients

VARIABLES
    client,       \* per client: where it is
    flags,        \* those of firstR, firstN, secR and secN that are set
    buf,          \* bytes read that are not yet in the file
    output        \* the file

clientVars == <<client, flags, buf, output>>

Flags == {"firstR", "firstN", "secR", "secN"}
Alive == {"request", "header", "body"}

ClientTypeOK ==
    /\ client \in [Clients -> {"connect", "done", "dead"} \cup Alive]
    /\ flags \in [Clients -> SUBSET Flags]
    /\ buf \in [Clients -> Seq(Bytes)]
    /\ \A c \in Clients : Len(buf[c]) <= MAXDATASIZE
    /\ output \in [Clients -> Seq(Bytes)]

ClientInit ==
    /\ client = [c \in Clients |-> "connect"]
    /\ flags = [c \in Clients |-> {}]
    /\ buf = [c \in Clients |-> <<>>]
    /\ output = [c \in Clients |-> <<>>]

(* connect succeeds without the server's doing anything.                   *)
Connect(c) ==
    /\ client[c] = "connect"
    /\ client' = [client EXCEPT ![c] = "request"]
    /\ backlog' = backlog \cup {c}
    /\ clientOpen' = [clientOpen EXCEPT ![c] = "both"]
    /\ UNCHANGED <<flags, buf, output, holders, request, response>>

(* send_get_request, in as many pieces as the socket asks for.             *)
SendRequest(c) ==
    /\ client[c] = "request" /\ request[c] < RequestLen
    /\ ~ServerClosed(c)
    /\ \E n \in 1..(RequestLen - request[c]) : request' = [request EXCEPT ![c] = @ + n]
    /\ UNCHANGED <<clientVars, backlog, holders, clientOpen, response>>

ShutDown(c) ==
    /\ client[c] = "request" /\ request[c] = RequestLen
    /\ client' = [client EXCEPT ![c] = "header"]
    /\ clientOpen' = [clientOpen EXCEPT ![c] = "read"]
    /\ UNCHANGED <<flags, buf, output, backlog, holders, request, response>>

(* The process ends where it is: it is killed, or writes to a connection   *)
(* that the server has closed.                                             *)
Close(c, end) ==
    /\ client' = [client EXCEPT ![c] = end]
    /\ clientOpen' = [clientOpen EXCEPT ![c] = "none"]
    /\ response' = [response EXCEPT ![c] = <<>>]

Killed(c) ==
    /\ c \in Killable /\ client[c] \in Alive
    /\ Close(c, "dead")
    /\ UNCHANGED <<flags, buf, output, backlog, holders, request>>

RequestFails(c) ==
    /\ client[c] = "request" /\ request[c] < RequestLen
    /\ ServerClosed(c)
    /\ Close(c, "dead")
    /\ UNCHANGED <<flags, buf, output, backlog, holders, request>>

(* Mutant: the first line end is taken for the blank line.                 *)
NextFlagsHasty(f, byte) ==
    CASE byte = CR -> f \cup {"firstR", "secR"}
      [] byte = LF -> f \cup {"firstN", "secN"}
      [] OTHER -> {}

(* get_server_message                                                      *)
NextFlags(f, byte) ==
    CASE byte = CR -> f \cup {IF {"firstR", "firstN"} \subseteq f THEN "secR" ELSE "firstR"}
      [] byte = LF -> f \cup {IF {"firstR", "firstN", "secR"} \subseteq f
                              THEN "secN" ELSE "firstN"}
      [] OTHER -> {}

ReadHeader(c) ==
    /\ client[c] = "header" /\ response[c] # <<>>
    /\ LET f == NextFlags(flags[c], Head(response[c]))
       IN  /\ flags' = [flags EXCEPT ![c] = f]
           /\ client' = [client EXCEPT ![c] = IF f = Flags THEN "body" ELSE "header"]
    /\ response' = [response EXCEPT ![c] = Tail(@)]
    /\ UNCHANGED <<buf, output, backlog, holders, request, clientOpen>>

EndOfHeader(c) ==
    /\ client[c] = "header" /\ response[c] = <<>> /\ ServerClosed(c)
    /\ Close(c, "done")
    /\ UNCHANGED <<flags, buf, output, backlog, holders, request>>

(* Mutant: each read is given the size of the whole buffer.                *)
RoomWhole(c) == MAXDATASIZE

Room(c) == MAXDATASIZE - Len(buf[c])

(* The buffer is filled, by reads of what has come, before it is written.  *)
ReadBody(c) ==
    /\ client[c] = "body" /\ Len(buf[c]) < MAXDATASIZE /\ response[c] # <<>>
    /\ LET n == IF Len(response[c]) < Room(c) THEN Len(response[c]) ELSE Room(c)
       IN  /\ buf' = [buf EXCEPT ![c] = @ \o SubSeq(response[c], 1, n)]
          /\ response' = [response EXCEPT ![c] = SubSeq(@, n + 1, Len(@))]
    /\ UNCHANGED <<client, flags, output, backlog, holders, request, clientOpen>>

WriteOutput(c) ==
    /\ client[c] = "body" /\ Len(buf[c]) = MAXDATASIZE
    /\ output' = [output EXCEPT ![c] = @ \o buf[c]]
    /\ buf' = [buf EXCEPT ![c] = <<>>]
    /\ UNCHANGED <<client, flags, connectionVars>>

EndOfBody(c) ==
    /\ client[c] = "body" /\ Len(buf[c]) < MAXDATASIZE
    /\ response[c] = <<>> /\ ServerClosed(c)
    /\ output' = [output EXCEPT ![c] = @ \o buf[c]]
    /\ buf' = [buf EXCEPT ![c] = <<>>]
    /\ Close(c, "done")
    /\ UNCHANGED <<flags, backlog, holders, request>>

Proceed(c) ==
    \/ Connect(c) \/ SendRequest(c) \/ ShutDown(c) \/ RequestFails(c)
    \/ ReadHeader(c) \/ EndOfHeader(c)
    \/ ReadBody(c) \/ WriteOutput(c) \/ EndOfBody(c)

=============================================================================
