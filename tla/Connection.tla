----------------------------- MODULE Connection -----------------------------
(* What the HTTP client and server of mp1 share: one TCP connection for    *)
(* each client, in the kernel's queue until the server accepts it, and the *)
(* bytes under way in it.                                                  *)
EXTENDS Integers, Sequences, FiniteSets, SequencesExt

CONSTANTS
    Clients,      \* client processes, and the server's children for them
    Parent,       \* the server process
    File,         \* the file that the server has, as a sequence of bytes
    CR, LF,       \* the two bytes that end a line
    RequestLen    \* bytes of a request

ASSUME ConnectionAssumption ==
    /\ IsFiniteSet(Clients) /\ Parent \notin Clients
    /\ CR # LF /\ {CR, LF} \cap {"200", "400", "404"} = {}
    /\ File \in Seq(Range(File))
    /\ RequestLen \in Nat \ {0}

VARIABLES
    backlog,      \* connections that wait to be accepted
    holders,      \* processes that have the server's end of a connection open
    request,      \* bytes of the request that the client has sent so far
    clientOpen,   \* "both", "read" after shutdown(SHUT_WR), or "none"
    response      \* bytes sent to the client that it has not read

connectionVars == <<backlog, holders, request, clientOpen, response>>

(* What is sent to a client; the words of the status line are one byte.    *)
Bytes == Range(File) \cup {CR, LF, "200", "400", "404"}

ConnectionTypeOK ==
    /\ backlog \subseteq Clients
    /\ holders \in [Clients -> SUBSET (Clients \cup {Parent})]
    /\ request \in [Clients -> 0..RequestLen]
    /\ clientOpen \in [Clients -> {"both", "read", "none"}]
    /\ response \in [Clients -> Seq(Bytes)]

ConnectionInit ==
    /\ backlog = {}
    /\ holders = [c \in Clients |-> {}]
    /\ request = [c \in Clients |-> 0]
    /\ clientOpen = [c \in Clients |-> "none"]
    /\ response = [c \in Clients |-> <<>>]

(* The kernel closes a connection with the last descriptor of it.          *)
ServerClosed(c) == c \notin backlog /\ holders[c] = {}

=============================================================================
