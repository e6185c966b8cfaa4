----------------------------- MODULE HttpServer -----------------------------
(* http_server (mp1/src/server.c): the parent accepts connections and      *)
(* forks a child for each, which answers one request and exits; the        *)
(* SIGCHLD handler interrupts the parent anywhere to wait for the children *)
(* that have ended.  A child has the name of the client it serves.         *)
EXTENDS Connection

CONSTANT
    PieceLen      \* bytes of the file that are read at a time (1024)

ASSUME ServerAssumption == PieceLen \in Nat \ {0}

VARIABLES
    parent,       \* "accept", "fork" or "close"
    new_fd,       \* the connection just accepted, Parent if there is none
    sigchld, inHandler,
    child,        \* per client: "none", a place in the child, "zombie", "reaped"
    bytes_read,
    status,       \* what the child has answered, "none" before
    left,         \* bytes of the file that the child has still to read
    out           \* what the child is in the middle of sending

parentVars == <<parent, new_fd, sigchld, inHandler>>
childVars == <<child, bytes_read, status, left, out>>
serverVars == <<parentVars, childVars>>

ChildRuns == {"read", "answer", "file", "loop"}

ServerTypeOK ==
    /\ parent \in {"accept", "fork", "close"}
    /\ new_fd \in Clients \cup {Parent}
    /\ sigchld \in BOOLEAN /\ inHandler \in BOOLEAN
    /\ child \in [Clients -> {"none", "zombie", "reaped"} \cup ChildRuns]
    /\ bytes_read \in [Clients -> 0..RequestLen]
    /\ status \in [Clients -> {"none", "200", "400", "404"}]
    /\ left \in [Clients -> 0..Len(File)]
    /\ out \in [Clients -> Seq(Bytes)]

ServerInit ==
    /\ parent = "accept" /\ new_fd = Parent
    /\ sigchld = FALSE /\ inHandler = FALSE
    /\ child = [c \in Clients |-> "none"]
    /\ bytes_read = [c \in Clients |-> 0]
    /\ status = [c \in Clients |-> "none"]
    /\ left = [c \in Clients |-> 0]
    /\ out = [c \in Clients |-> <<>>]

-----------------------------------------------------------------------------
(* The parent's accept loop                                                *)

Accept ==
    /\ parent = "accept" /\ ~inHandler
    /\ \E c \in backlog :
          /\ backlog' = backlog \ {c}
          /\ holders' = [holders EXCEPT ![c] = {Parent}]
          /\ new_fd' = c
    /\ parent' = "fork"
    /\ UNCHANGED <<sigchld, inHandler, childVars, request, clientOpen, response>>

(* The child gets a copy of every descriptor that the parent has open.     *)
Fork ==
    /\ parent = "fork" /\ ~inHandler
    /\ child' = [child EXCEPT ![new_fd] = "read"]
    /\ holders' = [d \in Clients |->
           IF Parent \in holders[d] THEN holders[d] \cup {new_fd} ELSE holders[d]]
    /\ parent' = "close"
    /\ UNCHANGED <<new_fd, sigchld, inHandler, bytes_read, status, left, out,
                   backlog, request, clientOpen, response>>

(* fork returns -1, which is not 0: the parent goes on as after a fork.    *)
ForkFails ==
    /\ parent = "fork" /\ ~inHandler
    /\ parent' = "close"
    /\ UNCHANGED <<new_fd, sigchld, inHandler, childVars, connectionVars>>

(* Mutant: the parent keeps its descriptor.                                *)
CloseNewFdForgotten ==
    /\ parent = "close" /\ ~inHandler
    /\ new_fd' = Parent /\ parent' = "accept"
    /\ UNCHANGED <<sigchld, inHandler, childVars, connectionVars>>

CloseNewFd ==
    /\ parent = "close" /\ ~inHandler
    /\ holders' = [holders EXCEPT ![new_fd] = @ \ {Parent}]
    /\ new_fd' = Parent /\ parent' = "accept"
    /\ UNCHANGED <<sigchld, inHandler, childVars, backlog, request, clientOpen, response>>

(* sigchld_handler.  Signals that arrive while one is pending are one; the *)
(* signal is blocked while its handler runs.                               *)
EnterHandler ==
    /\ sigchld /\ ~inHandler
    /\ sigchld' = FALSE /\ inHandler' = TRUE
    /\ UNCHANGED <<parent, new_fd, childVars, connectionVars>>

(* Mutant: one child is waited for per signal.                             *)
ReapOne ==
    /\ inHandler
    /\ \E c \in Clients : child[c] = "zombie" /\ child' = [child EXCEPT ![c] = "reaped"]
    /\ inHandler' = FALSE
    /\ UNCHANGED <<parent, new_fd, sigchld, bytes_read, status, left, out, connectionVars>>

Reap ==
    /\ inHandler
    /\ \E c \in Clients : child[c] = "zombie" /\ child' = [child EXCEPT ![c] = "reaped"]
    /\ UNCHANGED <<parentVars, bytes_read, status, left, out, connectionVars>>

LeaveHandler ==
    /\ inHandler
    /\ \A c \in Clients : child[c] # "zombie"
    /\ inHandler' = FALSE
    /\ UNCHANGED <<parent, new_fd, sigchld, childVars, connectionVars>>

ParentStep == Accept \/ Fork \/ ForkFails \/ CloseNewFd
HandlerStep == EnterHandler \/ Reap \/ LeaveHandler

-----------------------------------------------------------------------------
(* The child                                                               *)

(* The end of the process, which closes all it has open.                   *)
Exit(c) ==
    /\ child' = [child EXCEPT ![c] = "zombie"]
    /\ sigchld' = TRUE
    /\ holders' = [d \in Clients |-> holders[d] \ {c}]

Header(code) == <<code, CR, LF, CR, LF>>

(* read_all_from_socket: what has come so far, which may be any part of    *)
(* the request.  The blank line ends it.  A request has room in the 1024   *)
(* bytes of getRequest; longer ones are not modelled.                      *)
ReadRequest(c) ==
    /\ child[c] = "read" /\ bytes_read[c] < request[c]
    /\ bytes_read' = [bytes_read EXCEPT ![c] = request[c]]
    /\ UNCHANGED <<parentVars, child, status, left, out, connectionVars>>

(* The whole request, or what there is of it when the client has closed    *)
(* its end, is answered.  There need not be a file of the name.            *)
AnswerRequest(c) ==
    /\ child[c] = "read" /\ bytes_read[c] > 0
    /\ \/ bytes_read[c] = RequestLen
       \/ clientOpen[c] = "none" /\ bytes_read[c] = request[c]
    /\ \E code \in IF bytes_read[c] = RequestLen THEN {"200", "404"} ELSE {"400"} :
          /\ status' = [status EXCEPT ![c] = code]
          /\ left' = [left EXCEPT ![c] = IF code = "200" THEN Len(File) ELSE 0]
          /\ out' = [out EXCEPT ![c] = Header(code)]
    /\ child' = [child EXCEPT ![c] = "answer"]
    /\ UNCHANGED <<parentVars, bytes_read, connectionVars>>

NoRequest(c) ==
    /\ child[c] = "read" /\ bytes_read[c] = 0
    /\ clientOpen[c] = "none" /\ request[c] = 0
    /\ Exit(c)
    /\ UNCHANGED <<parent, new_fd, inHandler, bytes_read, status, left, out,
                   backlog, request, clientOpen, response>>

(* write_all_to_socket: send takes any part of what it is given.           *)
SendSome(c) ==
    /\ child[c] \in {"answer", "file", "loop"} /\ out[c] # <<>>
    /\ \E n \in 1..Len(out[c]) :
          /\ response' = [response EXCEPT ![c] =
                 IF clientOpen[c] = "none" THEN <<>> ELSE @ \o SubSeq(out[c], 1, n)]
          /\ out' = [out EXCEPT ![c] = SubSeq(@, n + 1, Len(@))]
    /\ UNCHANGED <<parentVars, child, bytes_read, status, left,
                   backlog, holders, request, clientOpen>>

(* send to a client that is gone ends the child by SIGPIPE, or returns -1  *)
(* (SendFails).                                                            *)
BrokenPipe(c) ==
    /\ child[c] \in {"answer", "file", "loop"} /\ out[c] # <<>>
    /\ clientOpen[c] = "none"
    /\ Exit(c)
    /\ UNCHANGED <<parent, new_fd, inHandler, bytes_read, status, left, out,
                   backlog, request, clientOpen, response>>

Piece(c) == IF left[c] < PieceLen THEN left[c] ELSE PieceLen

FromFile(c, n) ==
    LET pos == Len(File) - left[c]
    IN  /\ out' = [out EXCEPT ![c] = SubSeq(File, pos + 1, pos + n)]
        /\ left' = [left EXCEPT ![c] = @ - n]

(* fread gives less than it is asked for when the file has become shorter  *)
(* than ftell said, and nothing if it is a directory.  From then on it     *)
(* gives nothing, left stays as it is, and the loop over it does not end.  *)
(* The memory of each pass is not modelled.                                *)
ReadPiece(c) ==
    /\ child[c] \in {"answer", "file"} /\ out[c] = <<>> /\ left[c] > 0
    /\ \E n \in 0..Piece(c) :
          /\ FromFile(c, n)
          /\ child' = [child EXCEPT ![c] = IF n = Piece(c) THEN "file" ELSE "loop"]
    /\ UNCHANGED <<parentVars, bytes_read, status, connectionVars>>

(* The first send after the client's reset returns -1 with no SIGPIPE: the *)
(* child gives up what it is sending and goes on.  The bytes of a piece    *)
(* stay counted in the code's left, for which no byte of the file remains, *)
(* so the loop no longer ends: it has one more piece to send, or none.     *)
SendFails(c) ==
    /\ child[c] \in {"answer", "file", "loop"} /\ out[c] # <<>>
    /\ clientOpen[c] = "none"
    /\ \E n \in IF child[c] = "file" THEN 0..Piece(c) ELSE {0} : FromFile(c, n)
    /\ child' = [child EXCEPT ![c] = IF @ = "file" THEN "loop" ELSE @]
    /\ UNCHANGED <<parentVars, bytes_read, status, connectionVars>>

EndOfFile(c) ==
    /\ child[c] \in {"answer", "file"} /\ out[c] = <<>> /\ left[c] = 0
    /\ Exit(c)
    /\ UNCHANGED <<parent, new_fd, inHandler, bytes_read, status, left, out,
                   backlog, request, clientOpen, response>>

ChildStep(c) ==
    \/ ReadRequest(c) \/ AnswerRequest(c) \/ NoRequest(c)
    \/ SendSome(c) \/ BrokenPipe(c) \/ SendFails(c) \/ ReadPiece(c) \/ EndOfFile(c)

ServerNext == ParentStep \/ HandlerStep \/ \E c \in Clients : ChildStep(c)

=============================================================================
