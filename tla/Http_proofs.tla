----------------------------- MODULE Http_proofs ----------------------------
(* The HTTP server's descriptors and signals, and what a client writes: it *)
(* is the server's file, for every file, every number of clients and every *)
(* way of cutting the bytes.                                               *)
EXTENDS Http, SequenceTheorems, TLAPS

USE ConnectionAssumption

-----------------------------------------------------------------------------
(* The inductive invariant: the parent has the connection open that it has *)
(* just accepted, and no other, and none at all in accept.                 *)

HoldersInv ==
    /\ backlog \subseteq Clients
    /\ holders \in [Clients -> SUBSET (Clients \cup {Parent})]
    /\ parent \in {"fork", "close"} => new_fd \in Clients
    /\ parent \in {"accept", "fork", "close"}
    /\ \A c \in Clients : Parent \in holders[c] => parent # "accept" /\ new_fd = c
    /\ OwnConnectionOnly

(* A child that exits gives up what it has and changes nothing else.       *)
LEMMA ExitHolders ==
    ASSUME HoldersInv, NEW c \in Clients, Exit(c),
           UNCHANGED <<parent, new_fd, backlog>>
    PROVE  HoldersInv'
BY DEF HoldersInv, OwnConnectionOnly, Exit

LEMMA ParentHolders ==
    ASSUME HoldersInv, ParentStep
    PROVE  HoldersInv'
<1> USE DEF HoldersInv, OwnConnectionOnly
<1>1. CASE Accept
  <2>1. PICK c \in backlog : holders' = [holders EXCEPT ![c] = {Parent}] /\ new_fd' = c
    BY <1>1 DEF Accept
  <2>2. parent = "accept" /\ parent' = "fork" /\ backlog' \subseteq backlog
    BY <1>1 DEF Accept
  <2> QED BY <2>1, <2>2
<1>2. CASE Fork
  BY <1>2 DEF Fork
<1>3. CASE ForkFails
  BY <1>3 DEF ForkFails, connectionVars
<1>4. CASE CloseNewFd
  BY <1>4 DEF CloseNewFd
<1> QED BY <1>1, <1>2, <1>3, <1>4 DEF ParentStep

LEMMA HandlerHolders ==
    ASSUME HoldersInv, HandlerStep
    PROVE  HoldersInv'
BY DEF HoldersInv, OwnConnectionOnly, HandlerStep, EnterHandler, Reap,
       LeaveHandler, parentVars, connectionVars

LEMMA ChildHolders ==
    ASSUME HoldersInv, NEW c \in Clients, ChildStep(c)
    PROVE  HoldersInv'
<1>1. CASE ReadRequest(c) \/ AnswerRequest(c) \/ SendSome(c) \/ ReadPiece(c) \/ SendFails(c)
  BY <1>1 DEF HoldersInv, OwnConnectionOnly, ReadRequest, AnswerRequest,
              SendSome, ReadPiece, SendFails, parentVars, connectionVars
<1>2. CASE NoRequest(c) \/ BrokenPipe(c) \/ EndOfFile(c)
  <2>1. Exit(c) /\ UNCHANGED <<parent, new_fd, backlog>>
    BY <1>2 DEF NoRequest, BrokenPipe, EndOfFile
  <2> QED BY <2>1, ExitHolders
<1> QED BY <1>1, <1>2 DEF ChildStep

(* A client gets into the queue and touches no descriptor of the server.   *)
LEMMA ClientHolders ==
    ASSUME HoldersInv, NEW c \in Clients, Proceed(c) \/ Killed(c),
           UNCHANGED serverVars
    PROVE  HoldersInv'
<1>1. UNCHANGED <<parent, new_fd, holders>> /\ backlog' \subseteq Clients
  <2> USE DEF HoldersInv, serverVars, parentVars, connectionVars, clientVars
  <2>1. CASE Connect(c) \/ SendRequest(c) \/ ShutDown(c)
    BY <2>1 DEF Connect, SendRequest, ShutDown
  <2>2. CASE RequestFails(c) \/ Killed(c)
    BY <2>2 DEF RequestFails, Killed
  <2>3. CASE ReadHeader(c) \/ EndOfHeader(c)
    BY <2>3 DEF ReadHeader, EndOfHeader
  <2>4. CASE ReadBody(c) \/ WriteOutput(c) \/ EndOfBody(c)
    BY <2>4 DEF ReadBody, WriteOutput, EndOfBody
  <2> QED BY <2>1, <2>2, <2>3, <2>4 DEF Proceed
<1> QED BY <1>1 DEF HoldersInv, OwnConnectionOnly

LEMMA HoldersStep == HoldersInv /\ [Next]_vars => HoldersInv'
<1> SUFFICES ASSUME HoldersInv, [Next]_vars PROVE HoldersInv'
  OBVIOUS
<1>1. CASE ServerNext
  BY <1>1, ParentHolders, HandlerHolders, ChildHolders DEF ServerNext
<1>2. CASE (\E c \in Clients : Proceed(c) \/ Killed(c)) /\ UNCHANGED serverVars
  BY <1>2, ClientHolders
<1>3. CASE UNCHANGED vars
  BY <1>3 DEF vars, connectionVars, serverVars, parentVars, HoldersInv, OwnConnectionOnly
<1> QED BY <1>1, <1>2, <1>3 DEF Next, Progress

LEMMA HoldersInvariance == Spec => []HoldersInv
<1>1. Init => HoldersInv
  BY DEF Init, ConnectionInit, ServerInit, HoldersInv, OwnConnectionOnly
<1> QED BY <1>1, HoldersStep, PTL DEF Spec

(* No process but a connection's own child inherits or keeps its           *)
(* descriptor past the parent's next accept.                               *)
THEOREM OnlyOwnConnection == Spec => []OwnConnectionOnly
<1>1. HoldersInv => OwnConnectionOnly
  BY DEF HoldersInv
<1> QED BY <1>1, HoldersInvariance, PTL

(* Every end of a child sets sigchld anew, and only the handler clears it, *)
(* which it enters and leaves when no child is left to be waited for.      *)
THEOREM NoSignalIsLost == Spec => []EndedIsAnnounced
<1>1. Init => EndedIsAnnounced
  BY DEF Init, ServerInit, EndedIsAnnounced
<1>2. EndedIsAnnounced /\ [Next]_vars => EndedIsAnnounced'
  <2> SUFFICES ASSUME EndedIsAnnounced, [Next]_vars PROVE EndedIsAnnounced'
    OBVIOUS
  <2> USE DEF EndedIsAnnounced
  <2>1. CASE ParentStep
    <3>1. sigchld' = sigchld /\ inHandler' = inHandler
      BY <2>1 DEF ParentStep, Accept, Fork, ForkFails, CloseNewFd
    <3>2. \A c \in Clients : child'[c] = "zombie" => child[c] = "zombie"
      <4>1. CASE Fork
        <5>1. child' = [child EXCEPT ![new_fd] = "read"]
          BY <4>1 DEF Fork
        <5> QED BY <5>1
      <4>2. CASE Accept \/ ForkFails \/ CloseNewFd
        BY <4>2 DEF Accept, ForkFails, CloseNewFd, childVars
      <4> QED BY <2>1, <4>1, <4>2 DEF ParentStep
    <3> QED BY <3>1, <3>2
  <2>2. CASE HandlerStep
    <3>1. CASE EnterHandler
      BY <3>1 DEF EnterHandler
    <3>2. CASE Reap
      BY <3>2 DEF Reap, parentVars
    <3>3. CASE LeaveHandler
      BY <3>3 DEF LeaveHandler, childVars
    <3> QED BY <2>2, <3>1, <3>2, <3>3 DEF HandlerStep
  <2>3. ASSUME NEW c \in Clients, ChildStep(c)
        PROVE  EndedIsAnnounced'
    <3>1. CASE NoRequest(c) \/ BrokenPipe(c) \/ EndOfFile(c)
      BY <3>1 DEF NoRequest, BrokenPipe, EndOfFile, Exit
    <3>2. CASE ReadRequest(c) \/ SendSome(c)
      BY <3>2 DEF ReadRequest, SendSome, parentVars
    <3>3. CASE AnswerRequest(c) \/ ReadPiece(c) \/ SendFails(c)
      <4>1. sigchld' = sigchld /\ inHandler' = inHandler
        BY <3>3 DEF AnswerRequest, ReadPiece, SendFails, parentVars
      <4>2. \E place \in ChildRuns : child' = [child EXCEPT ![c] = place]
        BY <3>3 DEF AnswerRequest, ReadPiece, SendFails, ChildRuns
      <4>3. \A d \in Clients : child'[d] = "zombie" => child[d] = "zombie"
        BY <4>2 DEF ChildRuns
      <4> QED BY <4>1, <4>3
    <3> QED BY <2>3, <3>1, <3>2, <3>3 DEF ChildStep
  <2>4. CASE UNCHANGED serverVars
    BY <2>4 DEF serverVars, parentVars, childVars
  <2> QED BY <2>1, <2>2, <2>3, <2>4 DEF Next, Progress, ServerNext, vars
<1> QED BY <1>1, <1>2, PTL DEF Spec

-----------------------------------------------------------------------------
USE ServerAssumption, ClientAssumption

-----------------------------------------------------------------------------
(* Types                                                                   *)

LEMMA PartType ==
    ASSUME NEW S, NEW s \in Seq(S), NEW m \in Nat, NEW n \in Nat, m >= 1, n <= Len(s)
    PROVE  SubSeq(s, m, n) \in Seq(S)
<1>1. \A i \in m..n : s[i] \in S
  OBVIOUS
<1> QED BY <1>1, SubSeqProperties

LEMMA BytesOfFile == File \in Seq(Bytes)
<1>1. Range(File) \subseteq Bytes
  BY DEF Bytes
<1> QED BY <1>1, SeqMonotonic

LEMMA HeaderType == ASSUME NEW code \in {"200", "400", "404"}
                    PROVE  Header(code) \in Seq(Bytes) /\ Len(Header(code)) = 5
BY DEF Header, Bytes

LEMMA InitType == Init => TypeOK
<1> SUFFICES ASSUME Init PROVE TypeOK
  OBVIOUS
<1>1. [c \in Clients |-> <<>>] \in [Clients -> Seq(Bytes)]
  OBVIOUS
<1>2. ConnectionTypeOK
  BY <1>1 DEF Init, ConnectionInit, ConnectionTypeOK
<1>3. ServerTypeOK
  <2>1. Len(File) \in Nat
    OBVIOUS
  <2>2. /\ sigchld \in BOOLEAN /\ inHandler \in BOOLEAN
        /\ parent \in {"accept", "fork", "close"} /\ new_fd \in Clients \cup {Parent}
    BY DEF Init, ServerInit
  <2>3. /\ child \in [Clients -> {"none", "zombie", "reaped"} \cup ChildRuns]
        /\ status \in [Clients -> {"none", "200", "400", "404"}]
    BY DEF Init, ServerInit
  <2>4. bytes_read \in [Clients -> 0..RequestLen] /\ left \in [Clients -> 0..Len(File)]
    BY <2>1 DEF Init, ServerInit
  <2>5. out \in [Clients -> Seq(Bytes)]
    BY <1>1 DEF Init, ServerInit
  <2> QED BY <2>2, <2>3, <2>4, <2>5 DEF ServerTypeOK
<1>4. ClientTypeOK
  BY <1>1 DEF Init, ClientInit, ClientTypeOK
<1> QED BY <1>2, <1>3, <1>4 DEF TypeOK

LEMMA ParentType ==
    ASSUME TypeOK, HoldersInv, ParentStep \/ HandlerStep, UNCHANGED clientVars
    PROVE  TypeOK'
<1> USE DEF TypeOK, connectionVars, parentVars, childVars, clientVars
<1>1. ConnectionTypeOK'
  <2>1. backlog' \subseteq Clients /\ UNCHANGED <<request, clientOpen, response>>
    BY DEF ParentStep, HandlerStep, Accept, Fork, ForkFails, CloseNewFd,
       EnterHandler, Reap, LeaveHandler, ConnectionTypeOK
  <2>2. holders' \in [Clients -> SUBSET (Clients \cup {Parent})]
    BY ParentHolders, HandlerHolders DEF HoldersInv
  <2> QED BY <2>1, <2>2 DEF ConnectionTypeOK
<1>2. ServerTypeOK'
  <2>1. UNCHANGED <<bytes_read, status, left, out>>
    BY DEF ParentStep, HandlerStep, Accept, Fork, ForkFails, CloseNewFd,
       EnterHandler, Reap, LeaveHandler
  <2>2. CASE ParentStep
    <3>1. parent' \in {"accept", "fork", "close"} /\ UNCHANGED <<sigchld, inHandler>>
      BY <2>2 DEF ParentStep, Accept, Fork, ForkFails, CloseNewFd
    <3>2. new_fd' \in Clients \cup {Parent}
      BY <2>2 DEF ParentStep, Accept, Fork, ForkFails, CloseNewFd, ServerTypeOK,
         ConnectionTypeOK
    <3>3. child' \in [Clients -> {"none", "zombie", "reaped"} \cup ChildRuns]
      <4>1. child' = child \/ child' = [child EXCEPT ![new_fd] = "read"]
        BY <2>2 DEF ParentStep, Accept, Fork, ForkFails, CloseNewFd
      <4> QED BY <4>1 DEF ServerTypeOK, ChildRuns
    <3> QED BY <2>1, <3>1, <3>2, <3>3 DEF ServerTypeOK
  <2>3. CASE HandlerStep
    BY <2>1, <2>3 DEF HandlerStep, EnterHandler, Reap, LeaveHandler, ServerTypeOK
  <2> QED BY <2>2, <2>3
<1>3. ClientTypeOK'
  BY DEF ClientTypeOK
<1> QED BY <1>1, <1>2, <1>3

LEMMA ChildType ==
    ASSUME TypeOK, HoldersInv, NEW c \in Clients, ChildStep(c), UNCHANGED clientVars
    PROVE  TypeOK'
<1> USE DEF TypeOK, connectionVars, parentVars, clientVars
<1>1. ClientTypeOK'
  BY DEF ClientTypeOK
<1>2. holders' \in [Clients -> SUBSET (Clients \cup {Parent})]
  BY ChildHolders DEF HoldersInv
<1>3. CASE ReadRequest(c)
  BY <1>1, <1>3 DEF ReadRequest, ServerTypeOK, ConnectionTypeOK
<1>4. CASE AnswerRequest(c)
  <2>1. PICK code \in {"200", "400", "404"} :
           /\ status' = [status EXCEPT ![c] = code]
           /\ left' = [left EXCEPT ![c] = IF code = "200" THEN Len(File) ELSE 0]
           /\ out' = [out EXCEPT ![c] = Header(code)]
    BY <1>4 DEF AnswerRequest
  <2>2. out' \in [Clients -> Seq(Bytes)]
    BY <2>1, HeaderType DEF ServerTypeOK
  <2>3. left' \in [Clients -> 0..Len(File)]
    <3>1. Len(File) \in Nat
      OBVIOUS
    <3> QED BY <2>1, <3>1 DEF ServerTypeOK
  <2> QED BY <1>1, <1>4, <2>1, <2>2, <2>3
          DEF AnswerRequest, ServerTypeOK, ConnectionTypeOK, ChildRuns
<1>5. CASE NoRequest(c) \/ BrokenPipe(c) \/ EndOfFile(c)
  <2>1. /\ child' = [child EXCEPT ![c] = "zombie"] /\ sigchld' = TRUE
        /\ UNCHANGED <<parent, new_fd, inHandler, bytes_read, status, left, out,
                       backlog, request, clientOpen, response>>
    BY <1>5 DEF NoRequest, BrokenPipe, EndOfFile, Exit
  <2>2. sigchld' \in BOOLEAN
    BY <2>1
  <2> QED BY <1>1, <1>2, <2>1, <2>2 DEF ServerTypeOK, ConnectionTypeOK
<1>6. CASE SendSome(c)
  <2>1. PICK n \in 1..Len(out[c]) :
           /\ response' = [response EXCEPT ![c] =
                  IF clientOpen[c] = "none" THEN <<>> ELSE @ \o SubSeq(out[c], 1, n)]
           /\ out' = [out EXCEPT ![c] = SubSeq(@, n + 1, Len(@))]
    BY <1>6 DEF SendSome
  <2>2. out[c] \in Seq(Bytes) /\ response[c] \in Seq(Bytes)
    BY DEF ServerTypeOK, ConnectionTypeOK
  <2>3. SubSeq(out[c], 1, n) \in Seq(Bytes) /\ SubSeq(out[c], n + 1, Len(out[c])) \in Seq(Bytes)
    BY <2>2, PartType
  <2>4. out' \in [Clients -> Seq(Bytes)]
    BY <2>1, <2>3 DEF ServerTypeOK
  <2>5. response' \in [Clients -> Seq(Bytes)]
    <3>1. response[c] \o SubSeq(out[c], 1, n) \in Seq(Bytes) /\ <<>> \in Seq(Bytes)
      BY <2>2, <2>3
    <3> QED BY <2>1, <3>1 DEF ConnectionTypeOK
  <2> QED BY <1>1, <1>6, <2>4, <2>5 DEF SendSome, ServerTypeOK, ConnectionTypeOK
<1>7. CASE ReadPiece(c)
  <2> DEFINE pos == Len(File) - left[c]
  <2>1. PICK n \in 0..Piece(c) :
           /\ out' = [out EXCEPT ![c] = SubSeq(File, pos + 1, pos + n)]
           /\ left' = [left EXCEPT ![c] = @ - n]
           /\ child' = [child EXCEPT ![c] = IF n = Piece(c) THEN "file" ELSE "loop"]
    BY <1>7 DEF ReadPiece, FromFile
  <2>2. left[c] \in 0..Len(File) /\ Len(File) \in Nat
    BY DEF ServerTypeOK
  <2>3. n \in 0..left[c]
    BY <2>1, <2>2 DEF Piece
  <2>4. SubSeq(File, pos + 1, pos + n) \in Seq(Bytes)
    BY <2>2, <2>3, BytesOfFile, PartType
  <2> HIDE DEF pos
  <2>5. out' \in [Clients -> Seq(Bytes)]
    BY <2>1, <2>4 DEF ServerTypeOK
  <2>6. left' \in [Clients -> 0..Len(File)]
    BY <2>1, <2>2, <2>3 DEF ServerTypeOK
  <2> QED BY <1>1, <1>7, <2>1, <2>5, <2>6
          DEF ReadPiece, ServerTypeOK, ConnectionTypeOK, ChildRuns
<1>8. CASE SendFails(c)
  <2> DEFINE pos == Len(File) - left[c]
  <2>1. PICK n \in 0..Piece(c) \cup {0} :
           /\ out' = [out EXCEPT ![c] = SubSeq(File, pos + 1, pos + n)]
           /\ left' = [left EXCEPT ![c] = @ - n]
    BY <1>8 DEF SendFails, FromFile
  <2>2. left[c] \in 0..Len(File) /\ Len(File) \in Nat
    BY DEF ServerTypeOK
  <2>3. n \in 0..left[c]
    BY <2>1, <2>2 DEF Piece
  <2>4. SubSeq(File, pos + 1, pos + n) \in Seq(Bytes)
    BY <2>2, <2>3, BytesOfFile, PartType
  <2> HIDE DEF pos
  <2>5. out' \in [Clients -> Seq(Bytes)]
    BY <2>1, <2>4 DEF ServerTypeOK
  <2>6. left' \in [Clients -> 0..Len(File)]
    BY <2>1, <2>2, <2>3 DEF ServerTypeOK
  <2>7. child' \in [Clients -> {"none", "zombie", "reaped"} \cup ChildRuns]
    BY <1>8 DEF SendFails, ServerTypeOK, ChildRuns
  <2> QED BY <1>1, <1>8, <2>5, <2>6, <2>7
          DEF SendFails, ServerTypeOK, ConnectionTypeOK
<1> QED BY <1>3, <1>4, <1>5, <1>6, <1>7, <1>8 DEF ChildStep

LEMMA ClosedType ==
    ASSUME TypeOK, NEW c \in Clients, NEW end \in {"done", "dead"}, Close(c, end),
           UNCHANGED <<backlog, holders, request>>
    PROVE  /\ ConnectionTypeOK'
           /\ client' \in [Clients -> {"connect", "done", "dead"} \cup Alive]
<1>1. <<>> \in Seq(Bytes)
  OBVIOUS
<1>2. response' \in [Clients -> Seq(Bytes)]
  BY <1>1 DEF Close, TypeOK, ConnectionTypeOK
<1>3. clientOpen' \in [Clients -> {"both", "read", "none"}]
  BY DEF Close, TypeOK, ConnectionTypeOK
<1>4. client' \in [Clients -> {"connect", "done", "dead"} \cup Alive]
  BY DEF Close, TypeOK, ClientTypeOK
<1> QED BY <1>2, <1>3, <1>4 DEF TypeOK, ConnectionTypeOK

LEMMA ClientStep ==
    ASSUME TypeOK, NEW c \in Clients, Proceed(c) \/ Killed(c), UNCHANGED serverVars
    PROVE  TypeOK'
<1> USE DEF TypeOK, connectionVars, serverVars, parentVars, childVars, clientVars
<1>1. ServerTypeOK'
  BY DEF ServerTypeOK
<1>2. buf[c] \in Seq(Bytes) /\ output[c] \in Seq(Bytes) /\ response[c] \in Seq(Bytes)
  BY DEF ClientTypeOK, ConnectionTypeOK
<1>3. <<>> \in Seq(Bytes) /\ output[c] \o buf[c] \in Seq(Bytes)
  BY <1>2
<1>4. CASE Connect(c) \/ SendRequest(c) \/ ShutDown(c)
  <2>1. UNCHANGED <<flags, buf, output, holders, response>>
    BY <1>4 DEF Connect, SendRequest, ShutDown
  <2>2. backlog' \subseteq Clients
    BY <1>4 DEF Connect, SendRequest, ShutDown, ConnectionTypeOK
  <2>3. clientOpen' \in [Clients -> {"both", "read", "none"}]
    BY <1>4 DEF Connect, SendRequest, ShutDown, ConnectionTypeOK
  <2>4. request' \in [Clients -> 0..RequestLen]
    <3>1. request[c] \in 0..RequestLen
      BY DEF ConnectionTypeOK
    <3>2. request' = request \/ \E n \in 1..(RequestLen - request[c]) :
                                   request' = [request EXCEPT ![c] = @ + n]
      BY <1>4 DEF Connect, SendRequest, ShutDown
    <3>3. \A n \in 1..(RequestLen - request[c]) : request[c] + n \in 0..RequestLen
      BY <3>1
    <3>4. ASSUME NEW n \in 1..(RequestLen - request[c]), request' = [request EXCEPT ![c] = @ + n]
          PROVE  request' \in [Clients -> 0..RequestLen]
      BY <3>3, <3>4 DEF ConnectionTypeOK
    <3> QED BY <3>2, <3>4 DEF ConnectionTypeOK
  <2>5. client' \in [Clients -> {"connect", "done", "dead"} \cup Alive]
    BY <1>4 DEF Connect, SendRequest, ShutDown, ClientTypeOK, Alive
  <2> QED BY <1>1, <2>1, <2>2, <2>3, <2>4, <2>5 DEF ConnectionTypeOK, ClientTypeOK
<1>5. CASE Killed(c) \/ RequestFails(c) \/ EndOfHeader(c)
  BY <1>1, <1>5, ClosedType DEF Killed, RequestFails, EndOfHeader, ClientTypeOK
<1>6. CASE ReadHeader(c)
  <2>1. Tail(response[c]) \in Seq(Bytes)
    BY <1>2, <1>6, HeadTailProperties DEF ReadHeader
  <2>2. response' \in [Clients -> Seq(Bytes)]
    BY <1>6, <2>1 DEF ReadHeader, ConnectionTypeOK
  <2>3. NextFlags(flags[c], Head(response[c])) \in SUBSET Flags
    BY DEF NextFlags, Flags, ClientTypeOK
  <2>4. flags' \in [Clients -> SUBSET Flags]
    BY <1>6, <2>3 DEF ReadHeader, ClientTypeOK
  <2>5. client' \in [Clients -> {"connect", "done", "dead"} \cup Alive]
    BY <1>6 DEF ReadHeader, ClientTypeOK, Alive
  <2> QED BY <1>1, <1>6, <2>2, <2>4, <2>5 DEF ReadHeader, ConnectionTypeOK, ClientTypeOK
<1>7. CASE ReadBody(c)
  <2> DEFINE n == IF Len(response[c]) < Room(c) THEN Len(response[c]) ELSE Room(c)
  <2>1. /\ n \in 0..Len(response[c]) /\ Len(buf[c]) + n <= MAXDATASIZE
        /\ Len(buf[c]) \in Nat
    BY <1>2, <1>7 DEF Room, ReadBody, ClientTypeOK
  <2>2. /\ buf' = [buf EXCEPT ![c] = @ \o SubSeq(response[c], 1, n)]
        /\ response' = [response EXCEPT ![c] = SubSeq(@, n + 1, Len(@))]
        /\ UNCHANGED <<client, flags, output, backlog, holders, request, clientOpen>>
    BY <1>7 DEF ReadBody
  <2> HIDE DEF n
  <2>3. /\ SubSeq(response[c], 1, n) \in Seq(Bytes) /\ Len(SubSeq(response[c], 1, n)) = n
        /\ SubSeq(response[c], n + 1, Len(response[c])) \in Seq(Bytes)
    BY <1>2, <2>1, PartType, SubSeqProperties
  <2>4. /\ buf[c] \o SubSeq(response[c], 1, n) \in Seq(Bytes)
        /\ Len(buf[c] \o SubSeq(response[c], 1, n)) <= MAXDATASIZE
    <3>1. /\ buf[c] \o SubSeq(response[c], 1, n) \in Seq(Bytes)
          /\ Len(buf[c] \o SubSeq(response[c], 1, n))
                = Len(buf[c]) + Len(SubSeq(response[c], 1, n))
      BY <1>2, <2>3, ConcatProperties
    <3> QED BY <2>1, <2>3, <3>1
  <2>5. buf' \in [Clients -> Seq(Bytes)] /\ \A d \in Clients : Len(buf'[d]) <= MAXDATASIZE
    BY <2>2, <2>4 DEF ClientTypeOK
  <2>6. response' \in [Clients -> Seq(Bytes)]
    BY <2>2, <2>3 DEF ConnectionTypeOK
  <2> QED BY <1>1, <2>2, <2>5, <2>6 DEF ConnectionTypeOK, ClientTypeOK
<1>8. CASE WriteOutput(c) \/ EndOfBody(c)
  <2>1. /\ output' = [output EXCEPT ![c] = @ \o buf[c]]
        /\ buf' = [buf EXCEPT ![c] = <<>>]
    BY <1>8 DEF WriteOutput, EndOfBody
  <2>2. output' \in [Clients -> Seq(Bytes)]
    BY <1>3, <2>1 DEF ClientTypeOK
  <2>3. buf' \in [Clients -> Seq(Bytes)] /\ \A d \in Clients : Len(buf'[d]) <= MAXDATASIZE
    <3>1. Len(<<>>) <= MAXDATASIZE
      OBVIOUS
    <3> QED BY <1>3, <2>1, <3>1 DEF ClientTypeOK
  <2>4. CASE WriteOutput(c)
    BY <1>1, <2>2, <2>3, <2>4 DEF WriteOutput, ConnectionTypeOK, ClientTypeOK
  <2>5. CASE EndOfBody(c)
    BY <1>1, <2>2, <2>3, <2>5, ClosedType DEF EndOfBody, ClientTypeOK
  <2> QED BY <1>8, <2>4, <2>5
<1> QED BY <1>4, <1>5, <1>6, <1>7, <1>8 DEF Proceed

LEMMA TypeStep == TypeOK /\ HoldersInv /\ [Next]_vars => TypeOK'
<1> SUFFICES ASSUME TypeOK, HoldersInv, [Next]_vars PROVE TypeOK'
  OBVIOUS
<1>1. CASE ServerNext /\ UNCHANGED clientVars
  BY <1>1, ParentType, ChildType DEF ServerNext
<1>2. CASE (\E c \in Clients : Proceed(c) \/ Killed(c)) /\ UNCHANGED serverVars
  BY <1>2, ClientStep
<1>3. CASE UNCHANGED vars
  BY <1>3 DEF vars, connectionVars, serverVars, parentVars, childVars, clientVars,
     TypeOK, ConnectionTypeOK, ServerTypeOK, ClientTypeOK
<1> QED BY <1>1, <1>2, <1>3 DEF Next, Progress

(* Every variable of the connections and of the processes keeps its type;  *)
(* in particular the client's buffer never holds more than it has room for.*)
THEOREM TypeCorrect == Spec => []TypeOK
BY InitType, TypeStep, HoldersInvariance, PTL DEF Spec

-----------------------------------------------------------------------------
(* The inductive invariant                                                 *)

(* The whole response of a child, and its part after the header.           *)
Body(code) == IF code = "200" THEN File ELSE <<>>
Whole(code) == Header(code) \o Body(code)

(* The flags after k bytes of a header.                                    *)
FlagsAfter(k) ==
    CASE k <= 1 -> {}
      [] k = 2 -> {"firstR"}
      [] k = 3 -> {"firstR", "firstN"}
      [] OTHER -> {"firstR", "firstN", "secR"}

(* A connection is in the queue, then with the parent, then with a child,  *)
(* and never comes back; a running child has it open.                      *)
PlaceInv ==
    /\ parent = "fork" => Parent \in holders[new_fd]
    /\ \A c \in Clients :
          /\ c \in backlog => child[c] = "none" /\ client[c] # "connect"
          /\ parent = "fork" /\ new_fd = c =>
                child[c] = "none" /\ client[c] # "connect" /\ c \notin backlog
          /\ child[c] # "none" => client[c] # "connect"
          /\ child[c] \in ChildRuns => c \in holders[c]
          /\ client[c] = "done" => ServerClosed(c)

(* Before it answers, a child has sent nothing, and its client has nothing.*)
Silent(c) ==
    /\ status[c] = "none" =>
          /\ left[c] = 0 /\ out[c] = <<>> /\ response[c] = <<>>
          /\ client[c] # "body" /\ flags[c] = {}
          /\ output[c] = <<>> /\ buf[c] = <<>>
    /\ child[c] \in {"none", "read"} => status[c] = "none"
    /\ child[c] \in {"answer", "file", "loop"} => status[c] # "none"
    /\ client[c] \in {"connect", "request", "header"} =>
          output[c] = <<>> /\ buf[c] = <<>>
    /\ client[c] \in Alive <=> clientOpen[c] # "none"

(* What a client has taken: a part of the header, or all of it and bytes   *)
(* of the body, up to byte a of the response.                              *)
Taken(c, a) ==
    \/ client[c] \in {"request", "header"} /\ a <= 4 /\ flags[c] = FlagsAfter(a)
    \/ /\ client[c] = "body" /\ a >= 5
       /\ output[c] \o buf[c] = SubSeq(Whole(status[c]), 6, a)

Position(c) == Len(Whole(status[c])) - left[c]

Between(c, a, b) ==
    /\ response[c] = SubSeq(Whole(status[c]), a + 1, b)
    /\ Taken(c, a)

(* The bytes of a response are, in this order, with the client, under way, *)
(* about to be sent, and still in the file.                                *)
Response(c) ==
    status[c] # "none" =>
        /\ left[c] <= Len(Body(status[c]))
        /\ \E b \in 0..Position(c) :
              /\ out[c] = SubSeq(Whole(status[c]), b + 1, Position(c))
              /\ clientOpen[c] # "none" => \E a \in 0..b : Between(c, a, b)

(* A child that ends with its client there has sent everything.            *)
Ended(c) ==
    child[c] \in {"zombie", "reaped"} /\ clientOpen[c] # "none" =>
        status[c] # "none" /\ out[c] = <<>> /\ left[c] = 0

Result(c) ==
    /\ IsPrefix(output[c], File)
    /\ client[c] = "done" => output[c] = IF status[c] = "200" THEN File ELSE <<>>

Account(c) == Silent(c) /\ Response(c) /\ Ended(c) /\ Result(c)

OInv ==
    /\ TypeOK /\ HoldersInv /\ PlaceInv
    /\ \A c \in Clients : Account(c)

-----------------------------------------------------------------------------
(* Where a connection is                                                   *)

LEMMA ParentPlace ==
    ASSUME TypeOK, HoldersInv, PlaceInv, ParentStep \/ HandlerStep, UNCHANGED clientVars
    PROVE  PlaceInv'
<1> USE DEF PlaceInv, ServerClosed, clientVars
<1>0. /\ child \in [Clients -> {"none", "zombie", "reaped"} \cup ChildRuns]
      /\ holders \in [Clients -> SUBSET (Clients \cup {Parent})]
      /\ backlog \subseteq Clients
  BY DEF TypeOK, ServerTypeOK, ConnectionTypeOK
<1>1. CASE Accept
  <2>1. PICK c \in backlog :
           /\ backlog' = backlog \ {c}
           /\ holders' = [holders EXCEPT ![c] = {Parent}]
           /\ new_fd' = c
    BY <1>1 DEF Accept
  <2>2. parent = "accept" /\ parent' = "fork" /\ UNCHANGED <<child, client>>
    BY <1>1 DEF Accept, childVars
  <2>3. c \in Clients /\ child[c] = "none" /\ client[c] # "connect" /\ client[c] # "done"
    BY <1>0, <2>1
  <2>4. holders'[c] = {Parent} /\ \A d \in Clients : d # c => holders'[d] = holders[d]
    BY <1>0, <2>1, <2>3
  <2>5. child[c] \notin ChildRuns
    BY <2>3 DEF ChildRuns
  <2> QED BY <1>0, <2>1, <2>2, <2>3, <2>4, <2>5
<1>2. CASE Fork
  <2>1. /\ parent = "fork" /\ parent' = "close" /\ UNCHANGED <<new_fd, backlog, client>>
        /\ child' = [child EXCEPT ![new_fd] = "read"]
        /\ holders' = [d \in Clients |->
              IF Parent \in holders[d] THEN holders[d] \cup {new_fd} ELSE holders[d]]
    BY <1>2 DEF Fork
  <2>2. /\ new_fd \in Clients /\ Parent \in holders[new_fd]
        /\ \A d \in Clients : Parent \in holders[d] => d = new_fd
    BY <2>1 DEF HoldersInv
  <2>3. /\ child'[new_fd] = "read" /\ new_fd \in holders'[new_fd]
        /\ \A d \in Clients : d # new_fd => child'[d] = child[d] /\ holders'[d] = holders[d]
    BY <1>0, <2>1, <2>2
  <2>4. client[new_fd] # "connect" /\ new_fd \notin backlog /\ client[new_fd] # "done"
    BY <2>1, <2>2
  <2> QED BY <2>1, <2>2, <2>3, <2>4
<1>3. CASE ForkFails
  BY <1>3 DEF ForkFails, connectionVars, childVars
<1>4. CASE CloseNewFd
  <2>1. /\ parent' = "accept" /\ UNCHANGED <<backlog, client, child>>
        /\ holders' = [holders EXCEPT ![new_fd] = @ \ {Parent}]
    BY <1>4 DEF CloseNewFd, childVars
  <2>2. \A d \in Clients : holders'[d] = holders[d] \/ holders'[d] = holders[d] \ {Parent}
    BY <1>0, <2>1
  <2> QED BY <2>1, <2>2
<1>5. CASE HandlerStep
  <2>1. UNCHANGED <<parent, new_fd, backlog, holders, client>>
    BY <1>5 DEF HandlerStep, EnterHandler, Reap, LeaveHandler, parentVars, connectionVars
  <2>2. \A d \in Clients : \/ child'[d] = child[d]
                           \/ child[d] = "zombie" /\ child'[d] = "reaped"
    BY <1>0, <1>5 DEF HandlerStep, EnterHandler, Reap, LeaveHandler, childVars
  <2>3. "reaped" \notin ChildRuns
    BY DEF ChildRuns
  <2> QED BY <2>1, <2>2, <2>3
<1> QED BY <1>1, <1>2, <1>3, <1>4, <1>5 DEF ParentStep

LEMMA ChildPlace ==
    ASSUME TypeOK, HoldersInv, PlaceInv, NEW c \in Clients, ChildStep(c),
           UNCHANGED clientVars
    PROVE  PlaceInv'
<1> USE DEF PlaceInv, ServerClosed, clientVars
<1>0. /\ child \in [Clients -> {"none", "zombie", "reaped"} \cup ChildRuns]
      /\ holders \in [Clients -> SUBSET (Clients \cup {Parent})]
  BY DEF TypeOK, ServerTypeOK, ConnectionTypeOK
<1>1. UNCHANGED <<parent, new_fd, backlog, client>>
  BY DEF ChildStep, ReadRequest, AnswerRequest, NoRequest, SendSome, BrokenPipe,
     ReadPiece, SendFails, EndOfFile, parentVars, connectionVars
<1>2. child[c] \in ChildRuns
  BY DEF ChildStep, ReadRequest, AnswerRequest, NoRequest, SendSome, BrokenPipe,
     ReadPiece, SendFails, EndOfFile, ChildRuns
<1>3. CASE NoRequest(c) \/ BrokenPipe(c) \/ EndOfFile(c)
  <2>1. /\ child' = [child EXCEPT ![c] = "zombie"]
        /\ holders' = [d \in Clients |-> holders[d] \ {c}]
    BY <1>3 DEF NoRequest, BrokenPipe, EndOfFile, Exit
  <2>2. child'[c] = "zombie" /\ \A d \in Clients : d # c => child'[d] = child[d]
    BY <1>0, <2>1
  <2>3. \A d \in Clients : holders'[d] = holders[d] \ {c}
    BY <2>1
  <2>4. Parent # c /\ "zombie" \notin ChildRuns /\ "none" \notin ChildRuns
    BY DEF ChildRuns
  <2>5. parent = "fork" => Parent \in holders'[new_fd]
    BY <1>0, <2>1, <2>4 DEF HoldersInv
  <2> QED BY <1>1, <1>2, <2>2, <2>3, <2>4, <2>5
<1>4. CASE ReadRequest(c) \/ AnswerRequest(c) \/ SendSome(c) \/ ReadPiece(c) \/ SendFails(c)
  <2>1. UNCHANGED holders
    BY <1>4 DEF ReadRequest, AnswerRequest, SendSome, ReadPiece, SendFails, connectionVars
  <2>2. \A d \in Clients : \/ child'[d] = child[d]
                           \/ d = c /\ child'[d] \in {"answer", "file", "loop"}
    BY <1>0, <1>4 DEF ReadRequest, AnswerRequest, SendSome, ReadPiece, SendFails
  <2>3. {"answer", "file", "loop"} \subseteq ChildRuns /\ "none" \notin ChildRuns
    BY DEF ChildRuns
  <2> QED BY <1>1, <1>2, <2>1, <2>2, <2>3
<1> QED BY <1>3, <1>4 DEF ChildStep

LEMMA ClientPlace ==
    ASSUME TypeOK, PlaceInv, NEW c \in Clients, Proceed(c) \/ Killed(c), UNCHANGED serverVars
    PROVE  PlaceInv'
<1> USE DEF PlaceInv, ServerClosed
<1>0. client \in [Clients -> {"connect", "done", "dead"} \cup Alive]
  BY DEF TypeOK, ClientTypeOK
<1>1. UNCHANGED <<parent, new_fd, child, holders>>
  BY DEF serverVars, parentVars, childVars, clientVars, connectionVars, Proceed,
     Connect, SendRequest, ShutDown, RequestFails, ReadHeader, EndOfHeader,
     ReadBody, WriteOutput, EndOfBody, Killed
<1>2. CASE Connect(c)
  <2>1. /\ client[c] = "connect" /\ backlog' = backlog \cup {c}
        /\ client'[c] = "request" /\ \A d \in Clients : d # c => client'[d] = client[d]
    BY <1>0, <1>2 DEF Connect
  <2>2. child[c] = "none"
    BY <2>1
  <2> QED BY <1>1, <2>1, <2>2
<1>3. CASE ~Connect(c)
  <2>1. UNCHANGED backlog /\ client[c] # "connect"
    BY <1>3 DEF Proceed, SendRequest, ShutDown, RequestFails, ReadHeader, EndOfHeader,
       ReadBody, WriteOutput, EndOfBody, Killed, connectionVars, Alive
  <2>2. \A d \in Clients :
           \/ client'[d] = client[d]
           \/ /\ d = c /\ client'[d] # "connect"
              /\ client'[d] = "done" => ServerClosed(d)
    BY <1>0, <1>3 DEF Proceed, SendRequest, ShutDown, RequestFails, ReadHeader, EndOfHeader,
       ReadBody, WriteOutput, EndOfBody, Killed, Close, clientVars
  <2> QED BY <1>1, <2>1, <2>2
<1> QED BY <1>2, <1>3

-----------------------------------------------------------------------------
(* Parts of a response                                                     *)

LEMMA PartLength ==
    ASSUME NEW S, NEW w \in Seq(S), NEW i \in Nat, NEW j \in Nat, i <= j, j <= Len(w)
    PROVE  SubSeq(w, i + 1, j) \in Seq(S) /\ Len(SubSeq(w, i + 1, j)) = j - i
<1>1. \A k \in (i + 1)..j : w[k] \in S
  OBVIOUS
<1> QED BY <1>1, SubSeqProperties

(* The first n bytes of a part, and the others.                            *)
LEMMA PartSplit ==
    ASSUME NEW S, NEW w \in Seq(S), NEW i \in Nat, NEW j \in Nat, i <= j, j <= Len(w),
           NEW n \in 0..(j - i)
    PROVE  /\ SubSeq(SubSeq(w, i + 1, j), 1, n) = SubSeq(w, i + 1, i + n)
           /\ SubSeq(SubSeq(w, i + 1, j), n + 1, j - i) = SubSeq(w, i + n + 1, j)
<1> DEFINE p == SubSeq(w, i + 1, j)
<1>1. p \in Seq(S) /\ Len(p) = j - i
  BY PartLength
<1>2. \A k \in 1..(j - i) : p[k] = w[i + k]
  BY SubSeqProperties
<1>3. SubSeq(p, 1, n) = SubSeq(w, i + 1, i + n)
  <2>1. CASE n = 0
    BY <2>1, SubSeqEmpty
  <2>2. CASE n > 0
    BY <2>2, SubSeqOfSubSeq
  <2> QED BY <2>1, <2>2
<1>4. SubSeq(p, n + 1, j - i) = SubSeq(w, i + n + 1, j)
  <2>1. CASE n = j - i
    BY <2>1, SubSeqEmpty
  <2>2. CASE n < j - i
    BY <2>2, SubSeqOfSubSeq
  <2> QED BY <2>1, <2>2
<1> QED BY <1>3, <1>4

Codes == {"200", "400", "404"}

(* A sequence of five elements with another one after it.                  *)
LEMMA AfterFive ==
    ASSUME NEW S, NEW h \in Seq(S), NEW t \in Seq(S), Len(h) = 5
    PROVE  /\ h \o t \in Seq(S) /\ Len(h \o t) = 5 + Len(t)
           /\ \A k \in 1..5 : (h \o t)[k] = h[k]
           /\ SubSeq(h \o t, 1, 5) = h
<1>1. /\ h \o t \in Seq(S)
      /\ Len(h \o t) = Len(h) + Len(t)
      /\ \A i \in 1..Len(h) + Len(t) :
            (h \o t)[i] = IF i <= Len(h) THEN h[i] ELSE t[i - Len(h)]
  BY ONLY ConcatProperties, h \in Seq(S), t \in Seq(S)
<1>2. Len(t) \in Nat
  OBVIOUS
<1>3. SubSeq(h \o t, 1, 5) = SubSeq(h, 1, 5)
  <2>1. ASSUME NEW m \in 1..Len(h), NEW n \in 1..Len(h)
        PROVE  SubSeq(h \o t, m, n) = SubSeq(h, m, n)
    BY SubSeqOfConcat1
  <2>2. 1 \in 1..Len(h) /\ 5 \in 1..Len(h)
    OBVIOUS
  <2> QED BY <2>1, <2>2, Zenon
<1>4. SubSeq(h, 1, 5) = h
  BY SubSeqFull
<1> QED BY <1>1, <1>2, <1>3, <1>4

LEMMA WholeType ==
    ASSUME NEW code \in Codes
    PROVE  /\ Whole(code) \in Seq(Bytes) /\ Body(code) \in Seq(Bytes)
           /\ Len(Body(code)) \in Nat
           /\ Len(Whole(code)) = 5 + Len(Body(code))
           /\ \A k \in 1..5 : Whole(code)[k] = Header(code)[k]
           /\ SubSeq(Whole(code), 1, 5) = Header(code)
<1>1. Header(code) \in Seq(Bytes) /\ Len(Header(code)) = 5
  BY HeaderType DEF Codes
<1>2. Body(code) \in Seq(Bytes)
  BY BytesOfFile DEF Body
<1>3. Len(Body(code)) \in Nat
  BY <1>2
<1>4. /\ Whole(code) \in Seq(Bytes) /\ Len(Whole(code)) = 5 + Len(Body(code))
      /\ \A k \in 1..5 : Whole(code)[k] = Header(code)[k]
      /\ SubSeq(Whole(code), 1, 5) = Header(code)
  BY <1>1, <1>2, AfterFive DEF Whole
<1> QED BY <1>2, <1>3, <1>4

LEMMA BodyPart ==
    ASSUME NEW code \in Codes, NEW i \in Nat, NEW j \in Nat, i <= j, j <= Len(Body(code))
    PROVE  SubSeq(Whole(code), 5 + i + 1, 5 + j) = SubSeq(Body(code), i + 1, j)
<1>1. Header(code) \in Seq(Bytes) /\ Len(Header(code)) = 5 /\ Body(code) \in Seq(Bytes)
  BY HeaderType, WholeType DEF Codes
<1>2. CASE i = j
  BY <1>2, SubSeqEmpty
<1>3. CASE i < j
  <2> DEFINE h == Header(code)
             t == Body(code)
  <2>1. Len(t) \in Nat
    BY WholeType
  <2>2. /\ 5 + i + 1 \in (Len(h) + 1)..(Len(h) + Len(t))
        /\ 5 + j \in (Len(h) + 1)..(Len(h) + Len(t))
    BY <1>1, <1>3, <2>1
  <2>3. /\ (5 + i + 1) - Len(h) = i + 1
        /\ (5 + j) - Len(h) = j
    BY <1>1
  <2>4. h \in Seq(Bytes) /\ t \in Seq(Bytes)
    BY <1>1
  <2> HIDE DEF h, t
  <2>5. \A m, n \in (Len(h) + 1)..(Len(h) + Len(t)) :
           SubSeq(h \o t, m, n) = SubSeq(t, m - Len(h), n - Len(h))
    BY <2>4, SubSeqOfConcat2
  <2>6. SubSeq(h \o t, 5 + i + 1, 5 + j) = SubSeq(t, i + 1, j)
    BY <2>2, <2>3, <2>5
  <2> USE DEF h, t
  <2> QED BY <2>6 DEF Whole
<1> QED BY <1>2, <1>3

(* The recogniser of the header sees each of its bytes.                    *)
LEMMA FlagsFollow ==
    ASSUME NEW code \in Codes, NEW k \in 0..4
    PROVE  NextFlags(FlagsAfter(k), Header(code)[k + 1])
             = IF k = 4 THEN Flags ELSE FlagsAfter(k + 1)
<1>1. CR # LF /\ code # CR /\ code # LF
  BY DEF Codes
<1>2. /\ Header(code)[1] = code /\ Header(code)[2] = CR /\ Header(code)[3] = LF
      /\ Header(code)[4] = CR /\ Header(code)[5] = LF
  BY DEF Header
<1>3. CASE k = 0
  BY <1>1, <1>2, <1>3 DEF NextFlags, FlagsAfter
<1>4. CASE k = 1
  BY <1>1, <1>2, <1>4 DEF NextFlags, FlagsAfter
<1>5. CASE k = 2
  BY <1>1, <1>2, <1>5 DEF NextFlags, FlagsAfter
<1>6. CASE k = 3
  BY <1>1, <1>2, <1>6 DEF NextFlags, FlagsAfter
<1>7. CASE k = 4
  BY <1>1, <1>2, <1>7 DEF NextFlags, FlagsAfter, Flags
<1> QED BY <1>3, <1>4, <1>5, <1>6, <1>7

LEMMA FlagsNotYet == \A k \in 0..4 : FlagsAfter(k) # Flags
<1>1. "secN" \in Flags
  BY DEF Flags
<1>2. \A k \in 0..4 : "secN" \notin FlagsAfter(k)
  BY DEF FlagsAfter
<1> QED BY <1>1, <1>2

LEMMA PrefixOfFile ==
    ASSUME NEW code \in Codes, NEW n \in 0..Len(Body(code)), NEW x,
           x = SubSeq(Body(code), 1, n)
    PROVE  IsPrefix(x, File)
<1>1. /\ Body(code) \in Seq(Bytes) /\ File \in Seq(Bytes)
      /\ Len(File) \in Nat /\ Len(Body(code)) \in Nat
  BY WholeType, BytesOfFile
<1>2. x \in Seq(Bytes) /\ Len(x) = n
  <2>1. n \in Nat /\ n <= Len(Body(code))
    BY <1>1
  <2> QED BY <1>1, <2>1, PartLength, 0 + 1 = 1
<1>3. SubSeq(x, 1, Len(x)) = x
  BY <1>2, SubSeqFull
<1>4. CASE code = "200"
  BY <1>1, <1>2, <1>3, <1>4 DEF Body, IsPrefix
<1>5. CASE code # "200"
  <2>1. n = 0
    BY <1>5 DEF Body
  <2>2. SubSeq(x, 1, 0) = <<>> /\ SubSeq(File, 1, 0) = <<>>
    BY SubSeqEmpty
  <2> QED BY <1>1, <1>2, <2>1, <2>2 DEF IsPrefix
<1> QED BY <1>4, <1>5

-----------------------------------------------------------------------------
(* What becomes of the bytes                                               *)

LEMMA AccountTypes ==
    ASSUME TypeOK
    PROVE  /\ status \in [Clients -> {"none"} \cup Codes]
           /\ left \in [Clients -> 0..Len(File)] /\ Len(File) \in Nat
           /\ out \in [Clients -> Seq(Bytes)]
           /\ response \in [Clients -> Seq(Bytes)]
           /\ child \in [Clients -> {"none", "zombie", "reaped"} \cup ChildRuns]
           /\ client \in [Clients -> {"connect", "done", "dead"} \cup Alive]
           /\ clientOpen \in [Clients -> {"both", "read", "none"}]
           /\ flags \in [Clients -> SUBSET Flags]
           /\ buf \in [Clients -> Seq(Bytes)]
           /\ output \in [Clients -> Seq(Bytes)]
<1>1. Len(File) \in Nat
  OBVIOUS
<1> QED BY <1>1 DEF TypeOK, ConnectionTypeOK, ServerTypeOK, ClientTypeOK, Codes

(* A step that leaves the bytes of a connection where they are.            *)
Kept(c) == UNCHANGED <<status[c], left[c], out[c], response[c], client[c],
                       flags[c], output[c], buf[c], clientOpen[c]>>

ChildMoves(c) ==
    \/ child'[c] = child[c]
    \/ child[c] = "none" /\ child'[c] = "read"
    \/ child[c] = "zombie" /\ child'[c] = "reaped"
    \/ /\ child'[c] = "zombie"
       /\ \/ clientOpen[c] = "none"
          \/ status[c] # "none" /\ out[c] = <<>> /\ left[c] = 0

LEMMA Frame ==
    ASSUME NEW c \in Clients, Account(c), Kept(c), ChildMoves(c)
    PROVE  Account(c)'
<1>1. Silent(c)'
  BY DEF Account, Silent, Kept, ChildMoves
<1>2. Response(c)'
  BY DEF Account, Response, Between, Taken, Position, Kept
<1>3. Ended(c)'
  BY DEF Account, Silent, Ended, Kept, ChildMoves
<1>4. Result(c)'
  BY DEF Account, Result, Kept
<1> QED BY <1>1, <1>2, <1>3, <1>4 DEF Account

LEMMA ParentAccount ==
    ASSUME OInv, ParentStep \/ HandlerStep, UNCHANGED clientVars, NEW c \in Clients
    PROVE  Account(c)'
<1>1. child \in [Clients -> {"none", "zombie", "reaped"} \cup ChildRuns]
  BY AccountTypes DEF OInv
<1>2. Kept(c)
  BY DEF Kept, ParentStep, HandlerStep, Accept, Fork, ForkFails, CloseNewFd,
     EnterHandler, Reap, LeaveHandler, clientVars, childVars, connectionVars
<1>3. ChildMoves(c)
  <2>1. CASE Fork
    <3>1. parent = "fork" /\ child' = [child EXCEPT ![new_fd] = "read"]
      BY <2>1 DEF Fork
    <3>2. c = new_fd => child[c] = "none"
      BY <3>1 DEF OInv, PlaceInv
    <3> QED BY <1>1, <3>1, <3>2 DEF ChildMoves
  <2>2. CASE Reap
    BY <1>1, <2>2 DEF Reap, ChildMoves
  <2>3. CASE Accept \/ ForkFails \/ CloseNewFd \/ EnterHandler \/ LeaveHandler
    BY <2>3 DEF Accept, ForkFails, CloseNewFd, EnterHandler, LeaveHandler, childVars,
       ChildMoves
  <2> QED BY <2>1, <2>2, <2>3 DEF ParentStep, HandlerStep
<1> QED BY <1>2, <1>3, Frame DEF OInv

(* A child touches no other connection.                                    *)
LEMMA OtherChild ==
    ASSUME OInv, NEW c \in Clients, ChildStep(c), UNCHANGED clientVars,
           NEW d \in Clients, d # c
    PROVE  Account(d)'
<1> USE AccountTypes DEF OInv
<1>1. child'[d] = child[d]
  BY DEF ChildStep, ReadRequest, AnswerRequest, NoRequest, SendSome, BrokenPipe,
     ReadPiece, SendFails, EndOfFile, Exit
<1>2. status'[d] = status[d] /\ left'[d] = left[d] /\ out'[d] = out[d]
  BY DEF ChildStep, ReadRequest, AnswerRequest, NoRequest, SendSome, BrokenPipe,
     ReadPiece, SendFails, EndOfFile, FromFile
<1>3. response'[d] = response[d] /\ UNCHANGED clientOpen
  BY DEF ChildStep, ReadRequest, AnswerRequest, NoRequest, SendSome, BrokenPipe,
     ReadPiece, SendFails, EndOfFile, connectionVars
<1>4. Kept(d)
  BY <1>2, <1>3 DEF Kept, clientVars
<1> QED BY <1>1, <1>4, Frame DEF ChildMoves

LEMMA AnswerAccount ==
    ASSUME OInv, NEW c \in Clients, AnswerRequest(c), UNCHANGED clientVars
    PROVE  Account(c)'
<1> USE DEF OInv, clientVars
<1>1. PICK code \in Codes :
         /\ status' = [status EXCEPT ![c] = code]
         /\ left' = [left EXCEPT ![c] = IF code = "200" THEN Len(File) ELSE 0]
         /\ out' = [out EXCEPT ![c] = Header(code)]
  BY DEF AnswerRequest, Codes
<1>2. /\ status'[c] = code /\ code # "none" /\ out'[c] = Header(code)
      /\ left'[c] = Len(Body(code)) /\ child[c] = "read" /\ child'[c] = "answer"
      /\ UNCHANGED <<response, clientOpen>>
  <2>1. (IF code = "200" THEN Len(File) ELSE 0) = Len(Body(code))
    BY DEF Body
  <2> QED BY <1>1, <2>1, AccountTypes DEF AnswerRequest, Codes, connectionVars
<1>3. /\ status[c] = "none" /\ response[c] = <<>> /\ client[c] # "body"
      /\ flags[c] = {} /\ output[c] = <<>> /\ buf[c] = <<>>
  BY <1>2 DEF Account, Silent
<1>4. client[c] # "done"
  BY <1>2 DEF PlaceInv, ServerClosed, ChildRuns
<1>5. Silent(c)'
  BY <1>2, <1>3 DEF Account, Silent
<1>6. Response(c)'
  <2>1. Position(c)' = 5 /\ left'[c] <= Len(Body(code))
    BY <1>2, WholeType DEF Position
  <2>2. out'[c] = SubSeq(Whole(code), 0 + 1, 5)
    BY <1>2, WholeType, 0 + 1 = 1
  <2>3. response'[c] = SubSeq(Whole(code), 0 + 1, 0)
    BY <1>2, <1>3, SubSeqEmpty
  <2>4. clientOpen'[c] # "none" => Taken(c, 0)'
    BY <1>2, <1>3 DEF Account, Silent, Alive, Taken, FlagsAfter
  <2> QED BY <1>2, <2>1, <2>2, <2>3, <2>4 DEF Response, Between
<1>7. Ended(c)'
  BY <1>2 DEF Ended
<1>8. Result(c)'
  BY <1>4 DEF Account, Result
<1> QED BY <1>5, <1>6, <1>7, <1>8 DEF Account

LEMMA MoveAccount ==
    ASSUME OInv, NEW c \in Clients, UNCHANGED clientVars,
           ReadRequest(c) \/ NoRequest(c) \/ BrokenPipe(c) \/ EndOfFile(c)
    PROVE  Account(c)'
<1>1. child \in [Clients -> {"none", "zombie", "reaped"} \cup ChildRuns]
  BY AccountTypes DEF OInv
<1>2. Kept(c)
  BY DEF Kept, ReadRequest, NoRequest, BrokenPipe, EndOfFile, clientVars, connectionVars
<1>3. EndOfFile(c) => status[c] # "none"
  BY DEF OInv, Account, Silent, EndOfFile
<1>4. ChildMoves(c)
  BY <1>1, <1>3 DEF ReadRequest, NoRequest, BrokenPipe, EndOfFile, Exit, ChildMoves
<1> QED BY <1>2, <1>4, Frame DEF OInv

LEMMA SendAccount ==
    ASSUME OInv, NEW c \in Clients, SendSome(c), UNCHANGED clientVars
    PROVE  Account(c)'
<1> DEFINE w == Whole(status[c])
           p == Position(c)
<1>1. PICK n \in 1..Len(out[c]) :
         /\ response' = [response EXCEPT ![c] =
                IF clientOpen[c] = "none" THEN <<>> ELSE @ \o SubSeq(out[c], 1, n)]
         /\ out' = [out EXCEPT ![c] = SubSeq(@, n + 1, Len(@))]
  BY DEF SendSome
<1>2. /\ child[c] \in {"answer", "file", "loop"}
      /\ UNCHANGED <<child, status, left, clientOpen, client, flags, buf, output>>
  BY DEF SendSome, clientVars
<1>3. status[c] \in Codes
  BY <1>2, AccountTypes DEF OInv, Account, Silent
<1>4. /\ w \in Seq(Bytes) /\ Len(w) \in Nat /\ p \in Nat /\ p <= Len(w)
      /\ left[c] <= Len(Body(status[c]))
  <2>1. left[c] \in Nat
    BY AccountTypes DEF OInv
  <2>2. left[c] <= Len(Body(status[c]))
    BY <1>3 DEF OInv, Account, Response, Codes
  <2>3. /\ Len(Body(status[c])) \in Nat /\ w \in Seq(Bytes)
        /\ Len(w) = 5 + Len(Body(status[c]))
    BY <1>3, WholeType
  <2> QED BY <2>1, <2>2, <2>3 DEF Position
<1>5. PICK b \in 0..p :
         /\ out[c] = SubSeq(w, b + 1, p)
         /\ clientOpen[c] # "none" => \E a \in 0..b : Between(c, a, b)
  BY <1>3 DEF OInv, Account, Response, Codes
<1> HIDE DEF w, p
<1>6. Len(out[c]) = p - b
  BY <1>4, <1>5, PartLength
<1>7. /\ SubSeq(out[c], 1, n) = SubSeq(w, b + 1, b + n)
      /\ SubSeq(out[c], n + 1, Len(out[c])) = SubSeq(w, (b + n) + 1, p)
      /\ b + n \in 0..p
  <2>1. n \in 0..(p - b)
    BY <1>6
  <2> QED BY <1>4, <1>5, <1>6, <2>1, PartSplit
<1>8. out'[c] = SubSeq(w, (b + n) + 1, p)
  BY <1>1, <1>7, AccountTypes DEF OInv
<1>9. ASSUME clientOpen[c] # "none"
      PROVE  \E a \in 0..(b + n) :
                /\ response'[c] = SubSeq(w, a + 1, b + n)
                /\ Taken(c, a)
  <2>1. PICK a \in 0..b : response[c] = SubSeq(w, a + 1, b) /\ Taken(c, a)
    BY <1>5, <1>9 DEF Between, w
  <2>2. SubSeq(w, a + 1, b) \o SubSeq(w, b + 1, b + n) = SubSeq(w, a + 1, b + n)
    <3>1. a + 1 \in 1..Len(w) + 1 /\ b \in (a + 1) - 1..Len(w) /\ b + n \in b..Len(w)
      BY <1>4, <1>5, <1>7
    <3> QED BY <1>4, <3>1, ConcatAdjacentSubSeq
  <2>3. response'[c] = SubSeq(w, a + 1, b + n)
    BY <1>1, <1>7, <1>9, <2>1, <2>2, AccountTypes DEF OInv
  <2> QED BY <1>7, <2>1, <2>3
<1>10. Silent(c)'
  BY <1>2, <1>3 DEF OInv, Account, Silent, Codes
<1>11. Response(c)'
  <2>1. Position(c)' = p /\ Whole(status'[c]) = w
    BY <1>2 DEF Position, p, w
  <2>2. \A a : Taken(c, a) => Taken(c, a)'
    BY <1>2 DEF Taken
  <2> QED BY <1>2, <1>4, <1>7, <1>8, <1>9, <2>1, <2>2 DEF Response, Between
<1>12. Ended(c)'
  BY <1>2 DEF Ended
<1>13. Result(c)'
  BY <1>2 DEF OInv, Account, Result
<1> QED BY <1>10, <1>11, <1>12, <1>13 DEF Account

LEMMA PieceAccount ==
    ASSUME OInv, NEW c \in Clients, ReadPiece(c), UNCHANGED clientVars
    PROVE  Account(c)'
<1> DEFINE w == Whole(status[c])
           p == Position(c)
           pos == Len(File) - left[c]
<1>1. PICK n \in 0..Piece(c) :
         /\ out' = [out EXCEPT ![c] = SubSeq(File, pos + 1, pos + n)]
         /\ left' = [left EXCEPT ![c] = @ - n]
         /\ child' = [child EXCEPT ![c] = IF n = Piece(c) THEN "file" ELSE "loop"]
  BY DEF ReadPiece, FromFile
<1>2. /\ child[c] \in {"answer", "file"} /\ out[c] = <<>> /\ left[c] > 0
      /\ child'[c] \in {"file", "loop"}
      /\ UNCHANGED <<status, response, clientOpen, client, flags, buf, output>>
  BY <1>1, AccountTypes DEF ReadPiece, clientVars, connectionVars, OInv
<1>3. status[c] \in Codes /\ left[c] \in Nat /\ left[c] <= Len(Body(status[c]))
  BY <1>2, AccountTypes DEF OInv, Account, Silent, Response
<1>4. status[c] = "200" /\ Body(status[c]) = File /\ Len(File) \in Nat
  BY <1>2, <1>3, AccountTypes DEF OInv, Body
<1>5. n \in Nat /\ n <= left[c]
  BY <1>1, <1>3 DEF Piece
<1>6. /\ p = 5 + pos /\ w \in Seq(Bytes) /\ Len(w) = 5 + Len(File) /\ pos \in Nat
      /\ p <= Len(w) /\ p \in Nat
  <2>1. w \in Seq(Bytes) /\ Len(w) = 5 + Len(Body(status[c]))
    BY <1>3, WholeType
  <2> QED BY <1>3, <1>4, <2>1 DEF Position
<1>7. PICK b \in 0..p :
         /\ out[c] = SubSeq(w, b + 1, p)
         /\ clientOpen[c] # "none" => \E a \in 0..b : Between(c, a, b)
  BY <1>3 DEF OInv, Account, Response, Codes
<1>8. left'[c] = left[c] - n /\ out'[c] = SubSeq(File, pos + 1, pos + n)
  BY <1>1, AccountTypes DEF OInv
<1>9. Position(c)' = p + n /\ Whole(status'[c]) = w
  BY <1>2, <1>3, <1>4, <1>5, <1>6, <1>8 DEF Position
<1>10. SubSeq(File, pos + 1, pos + n) = SubSeq(w, p + 1, p + n)
  <2>1. pos + n \in Nat /\ pos <= pos + n /\ pos + n <= Len(Body(status[c]))
    <3>1. Len(Body(status[c])) = Len(File)
      BY <1>4
    <3>2. pos + n <= Len(File)
      BY <1>3, <1>4, <1>5
    <3> HIDE DEF pos
    <3> QED BY <1>5, <1>6, <3>1, <3>2
  <2>2. SubSeq(w, 5 + pos + 1, 5 + (pos + n)) = SubSeq(Body(status[c]), pos + 1, pos + n)
    BY <1>3, <1>6, <2>1, BodyPart
  <2>3. p + 1 = 5 + pos + 1 /\ p + n = 5 + (pos + n)
    BY <1>5, <1>6
  <2> QED BY <1>4, <2>2, <2>3
<1> HIDE DEF w, p, pos
<1>11. b = p
  <2>1. Len(SubSeq(w, b + 1, p)) = p - b
    BY <1>6, <1>7, PartLength
  <2>2. Len(out[c]) = 0
    BY <1>2
  <2> QED BY <1>6, <1>7, <2>1, <2>2
<1>12. Silent(c)'
  BY <1>2, <1>4 DEF OInv, Account, Silent
<1>13. Response(c)'
  <2>1. out'[c] = SubSeq(w, b + 1, p + n)
    BY <1>8, <1>10, <1>11
  <2>2. b \in 0..(p + n)
    BY <1>5, <1>6, <1>11
  <2>3. \A a : Between(c, a, b) => Between(c, a, b)'
    BY <1>2 DEF Between, Taken
  <2>4. left'[c] <= Len(Body(status'[c]))
    BY <1>2, <1>3, <1>4, <1>5, <1>8
  <2> QED BY <1>2, <1>7, <1>9, <2>1, <2>2, <2>3, <2>4 DEF Response
<1>14. Ended(c)'
  BY <1>2 DEF Ended
<1>15. Result(c)'
  BY <1>2 DEF OInv, Account, Result
<1> QED BY <1>12, <1>13, <1>14, <1>15 DEF Account

(* The client is gone, so what it has not been sent is with nobody.        *)
LEMMA FailAccount ==
    ASSUME OInv, NEW c \in Clients, SendFails(c), UNCHANGED clientVars
    PROVE  Account(c)'
<1> DEFINE w == Whole(status[c])
           p == Position(c)
           pos == Len(File) - left[c]
<1>1. PICK n \in 0..Piece(c) \cup {0} :
         /\ out' = [out EXCEPT ![c] = SubSeq(File, pos + 1, pos + n)]
         /\ left' = [left EXCEPT ![c] = @ - n]
  BY DEF SendFails, FromFile
<1>2. /\ child[c] \in {"answer", "file", "loop"} /\ clientOpen[c] = "none"
      /\ child'[c] \in {"answer", "file", "loop"}
      /\ UNCHANGED <<status, response, clientOpen, client, flags, buf, output>>
  BY AccountTypes DEF SendFails, clientVars, connectionVars, OInv
<1>3. status[c] \in Codes /\ left[c] \in Nat /\ left[c] <= Len(Body(status[c]))
  BY <1>2, AccountTypes DEF OInv, Account, Silent, Response
<1>4. n \in Nat /\ n <= left[c]
  BY <1>1, <1>3, ServerAssumption DEF Piece
<1>5. /\ w \in Seq(Bytes) /\ Len(w) = 5 + Len(Body(status[c]))
      /\ Len(Body(status[c])) \in Nat
  BY <1>3, WholeType
<1>6. p = Len(w) - left[c] /\ p \in Nat /\ p <= Len(w)
  BY <1>3, <1>5 DEF Position
<1>7. left'[c] = left[c] - n /\ out'[c] = SubSeq(File, pos + 1, pos + n)
  BY <1>1, AccountTypes DEF OInv
<1>8. Position(c)' = p + n /\ Whole(status'[c]) = w
  BY <1>2, <1>3, <1>4, <1>5, <1>7 DEF Position
<1>9. out'[c] = SubSeq(w, p + 1, p + n)
  <2>1. CASE n = 0
    <3>1. pos \in Int
      BY <1>3, AccountTypes DEF OInv
    <3> HIDE DEF w, p, pos
    <3>2. pos + n < pos + 1 /\ p + n < p + 1
      BY <1>6, <2>1, <3>1
    <3>3. SubSeq(File, pos + 1, pos + n) = <<>>
      BY <1>4, <3>1, <3>2, SubSeqEmpty
    <3>4. SubSeq(w, p + 1, p + n) = <<>>
      BY <1>4, <1>5, <1>6, <3>2, SubSeqEmpty
    <3> QED BY <1>7, <3>3, <3>4
  <2>2. CASE n # 0
    <3>1. status[c] = "200" /\ Body(status[c]) = File /\ Len(File) \in Nat
      BY <1>3, <1>4, <2>2 DEF Body
    <3>2. /\ pos \in Nat /\ pos + n \in Nat /\ pos <= pos + n
          /\ pos + n <= Len(Body(status[c]))
      BY <1>3, <1>4, <3>1
    <3>3. SubSeq(w, 5 + pos + 1, 5 + (pos + n)) = SubSeq(Body(status[c]), pos + 1, pos + n)
      BY <1>3, <3>2, BodyPart
    <3>4. p + 1 = 5 + pos + 1 /\ p + n = 5 + (pos + n)
      <4>1. Len(Body(status[c])) = Len(File)
        BY <3>1
      <4>2. Len(w) = 5 + Len(File)
        BY <1>5, <4>1
      <4> HIDE DEF w, p
      <4>3. p = 5 + pos
        BY <1>3, <1>6, <3>1, <4>2
      <4> QED BY <1>3, <1>4, <3>1, <4>3
    <3> QED BY <1>7, <3>1, <3>3, <3>4
  <2> QED BY <2>1, <2>2
<1> HIDE DEF w, p, pos
<1>10. Silent(c)'
  BY <1>2, <1>3 DEF OInv, Account, Silent, Codes
<1>11. Response(c)'
  <2>1. p \in 0..(p + n)
    BY <1>4, <1>6
  <2>2. left'[c] <= Len(Body(status'[c]))
    BY <1>2, <1>3, <1>4, <1>5, <1>7
  <2> QED BY <1>2, <1>8, <1>9, <2>1, <2>2 DEF Response
<1>12. Ended(c)'
  BY <1>2 DEF Ended
<1>13. Result(c)'
  BY <1>2 DEF OInv, Account, Result
<1> QED BY <1>10, <1>11, <1>12, <1>13 DEF Account

LEMMA ChildAccount ==
    ASSUME OInv, NEW c \in Clients, ChildStep(c), UNCHANGED clientVars
    PROVE  \A d \in Clients : Account(d)'
BY OtherChild, MoveAccount, AnswerAccount, SendAccount, PieceAccount, FailAccount
   DEF ChildStep

(* A client touches no other connection.                                   *)
LEMMA OtherClient ==
    ASSUME OInv, NEW c \in Clients, Proceed(c) \/ Killed(c), UNCHANGED serverVars,
           NEW d \in Clients, d # c
    PROVE  Account(d)'
<1> USE AccountTypes DEF OInv
<1>1. /\ child'[d] = child[d] /\ status'[d] = status[d] /\ left'[d] = left[d]
      /\ out'[d] = out[d]
  BY DEF serverVars, childVars
<1>2. response'[d] = response[d] /\ clientOpen'[d] = clientOpen[d]
  BY DEF Proceed, Connect, SendRequest, ShutDown, RequestFails, ReadHeader, EndOfHeader,
     ReadBody, WriteOutput, EndOfBody, Killed, Close, connectionVars
<1>3. client'[d] = client[d] /\ flags'[d] = flags[d]
  BY DEF Proceed, Connect, SendRequest, ShutDown, RequestFails, ReadHeader, EndOfHeader,
     ReadBody, WriteOutput, EndOfBody, Killed, Close, clientVars
<1>4. output'[d] = output[d] /\ buf'[d] = buf[d]
  BY DEF Proceed, Connect, SendRequest, ShutDown, RequestFails, ReadHeader, EndOfHeader,
     ReadBody, WriteOutput, EndOfBody, Killed, Close, clientVars
<1>5. Kept(d)
  BY <1>1, <1>2, <1>3, <1>4 DEF Kept
<1> QED BY <1>1, <1>5, Frame DEF ChildMoves

(* What has been sent is not touched until the header comes in.            *)
LEMMA RequestAccount ==
    ASSUME OInv, NEW c \in Clients, Connect(c) \/ SendRequest(c) \/ ShutDown(c),
           UNCHANGED serverVars
    PROVE  Account(c)'
<1> USE AccountTypes DEF OInv, serverVars, childVars
<1>1. CASE Connect(c)
  <2>1. child[c] = "none" /\ status[c] = "none"
    BY <1>1 DEF Connect, PlaceInv, Account, Silent
  <2>2. /\ client[c] = "connect" /\ client'[c] = "request" /\ clientOpen'[c] = "both"
        /\ UNCHANGED <<child, status, left, out, response, flags, output, buf>>
    BY <1>1 DEF Connect
  <2>3. Silent(c)'
    BY <2>1, <2>2 DEF Account, Silent, Alive
  <2>4. Response(c)' /\ Ended(c)' /\ Result(c)'
    BY <2>1, <2>2 DEF Account, Response, Ended, Result
  <2> QED BY <2>3, <2>4 DEF Account
<1>2. CASE SendRequest(c)
  <2>1. Kept(c) /\ ChildMoves(c)
    BY <1>2 DEF SendRequest, Kept, ChildMoves, clientVars
  <2> QED BY <2>1, Frame
<1>3. CASE ShutDown(c)
  <2>1. /\ client[c] = "request" /\ client'[c] = "header" /\ clientOpen'[c] = "read"
        /\ UNCHANGED <<child, status, left, out, response, flags, output, buf>>
    BY <1>3 DEF ShutDown
  <2>2. clientOpen[c] # "none"
    BY <2>1 DEF Account, Silent, Alive
  <2>3. Silent(c)'
    BY <2>1, <2>2 DEF Account, Silent, Alive
  <2>4. Response(c)'
    <3>1. \A a, b : Between(c, a, b) => Between(c, a, b)'
      BY <2>1 DEF Between, Taken
    <3>2. Position(c)' = Position(c)
      BY <2>1 DEF Position
    <3> QED BY <2>1, <2>2, <3>1, <3>2 DEF Account, Response
  <2>5. Ended(c)' /\ Result(c)'
    BY <2>1, <2>2 DEF Account, Ended, Result
  <2> QED BY <2>3, <2>4, <2>5 DEF Account
<1> QED BY <1>1, <1>2, <1>3

(* A client that is gone has nothing under way.                            *)
LEMMA ClosedAccount ==
    ASSUME OInv, NEW c \in Clients, NEW end \in {"done", "dead"}, Close(c, end),
           UNCHANGED serverVars, client[c] \in Alive,
           IsPrefix(output[c], File)',
           end = "done" => output'[c] = IF status[c] = "200" THEN File ELSE <<>>,
           status[c] = "none" => flags'[c] = {} /\ output'[c] = <<>> /\ buf'[c] = <<>>
    PROVE  Account(c)'
<1> USE AccountTypes DEF OInv, serverVars, childVars
<1>1. /\ client'[c] = end /\ clientOpen'[c] = "none" /\ response'[c] = <<>>
      /\ UNCHANGED <<child, status, left, out>>
  BY DEF Close
<1>2. Silent(c)'
  BY <1>1 DEF Account, Silent, Alive
<1>3. Response(c)'
  <2>1. Position(c)' = Position(c)
    BY <1>1 DEF Position
  <2> QED BY <1>1, <2>1 DEF Account, Response
<1>4. Ended(c)' /\ Result(c)'
  BY <1>1 DEF Ended, Result
<1> QED BY <1>2, <1>3, <1>4 DEF Account

LEMMA DeadAccount ==
    ASSUME OInv, NEW c \in Clients, Killed(c) \/ RequestFails(c), UNCHANGED serverVars
    PROVE  Account(c)'
<1>1. /\ Close(c, "dead") /\ client[c] \in Alive
      /\ UNCHANGED <<flags, buf, output>>
  BY DEF Killed, RequestFails, Alive
<1>2. /\ IsPrefix(output[c], File)
      /\ status[c] = "none" => flags[c] = {} /\ output[c] = <<>> /\ buf[c] = <<>>
  BY DEF OInv, Account, Silent, Result
<1>3. IsPrefix(output[c], File)'
  BY <1>1, <1>2
<1> QED BY <1>1, <1>2, <1>3, ClosedAccount

(* Where a client is in the response.                                      *)
LEMMA WhereAlive ==
    ASSUME OInv, NEW c \in Clients, client[c] \in Alive, status[c] # "none"
    PROVE  /\ status[c] \in Codes /\ clientOpen[c] # "none"
           /\ Position(c) \in Nat /\ Position(c) <= Len(Whole(status[c]))
           /\ \E b \in 0..Position(c) :
                 /\ out[c] = SubSeq(Whole(status[c]), b + 1, Position(c))
                 /\ \E a \in 0..b : Between(c, a, b)
<1>1. status[c] \in Codes
  BY AccountTypes DEF OInv
<1>2. clientOpen[c] # "none"
  BY DEF OInv, Account, Silent
<1>3. Position(c) \in Nat /\ Position(c) <= Len(Whole(status[c]))
  <2>1. left[c] \in Nat
    BY AccountTypes DEF OInv
  <2>2. left[c] <= Len(Body(status[c]))
    BY DEF OInv, Account, Response
  <2>3. /\ Len(Body(status[c])) \in Nat
        /\ Len(Whole(status[c])) = 5 + Len(Body(status[c]))
    BY <1>1, WholeType
  <2> QED BY <2>1, <2>2, <2>3 DEF Position
<1> QED BY <1>1, <1>2, <1>3 DEF OInv, Account, Response

(* After the server's end is closed with the client there, everything is   *)
(* with the client.                                                        *)
LEMMA WhereClosed ==
    ASSUME OInv, NEW c \in Clients, client[c] \in Alive, status[c] # "none",
           ServerClosed(c), response[c] = <<>>
    PROVE  Taken(c, Len(Whole(status[c])))
<1> DEFINE w == Whole(status[c])
<1>1. PICK b \in 0..Position(c) :
         /\ out[c] = SubSeq(w, b + 1, Position(c))
         /\ \E a \in 0..b : Between(c, a, b)
  BY WhereAlive
<1>2. PICK a \in 0..b : response[c] = SubSeq(w, a + 1, b) /\ Taken(c, a)
  BY <1>1 DEF Between
<1>3. /\ status[c] \in Codes /\ clientOpen[c] # "none" /\ w \in Seq(Bytes)
      /\ Position(c) \in Nat /\ Position(c) <= Len(w)
  BY WhereAlive, WholeType
<1>4. child[c] \in {"zombie", "reaped"}
  <2>1. child[c] \notin ChildRuns
    BY DEF OInv, PlaceInv, ServerClosed
  <2>2. child[c] # "none"
    BY DEF OInv, Account, Silent
  <2> QED BY <2>1, <2>2, AccountTypes DEF OInv
<1>5. out[c] = <<>> /\ left[c] = 0
  BY <1>3, <1>4 DEF OInv, Account, Ended
<1>6. Position(c) = Len(w)
  <2>1. Len(w) \in Nat
    BY <1>3
  <2> QED BY <1>5, <2>1 DEF Position
<1> HIDE DEF w
<1>7. b = Len(w)
  <2>1. Len(out[c]) = Position(c) - b
    BY <1>1, <1>3, PartLength
  <2>2. Len(out[c]) = 0
    BY <1>5
  <2> QED BY <1>1, <1>3, <1>6, <2>1, <2>2
<1>8. a = b
  <2>1. Len(response[c]) = b - a
    BY <1>1, <1>2, <1>3, PartLength
  <2>2. Len(response[c]) = 0
    OBVIOUS
  <2> QED BY <1>1, <1>2, <1>3, <2>1, <2>2
<1> QED BY <1>2, <1>7, <1>8 DEF w

LEMMA HeaderAccount ==
    ASSUME OInv, NEW c \in Clients, ReadHeader(c), UNCHANGED serverVars
    PROVE  Account(c)'
<1> USE DEF serverVars, childVars
<1> DEFINE w == Whole(status[c])
           p == Position(c)
           f == NextFlags(flags[c], Head(response[c]))
<1>1. /\ client[c] = "header" /\ response[c] # <<>>
      /\ flags' = [flags EXCEPT ![c] = f]
      /\ client' = [client EXCEPT ![c] = IF f = Flags THEN "body" ELSE "header"]
      /\ response' = [response EXCEPT ![c] = Tail(@)]
      /\ UNCHANGED <<child, status, left, out, buf, output, clientOpen>>
  BY DEF ReadHeader
<1>2. status[c] # "none" /\ output[c] = <<>> /\ buf[c] = <<>> /\ client[c] \in Alive
  BY <1>1 DEF OInv, Account, Silent, Alive
<1>3. PICK b \in 0..p :
         /\ out[c] = SubSeq(w, b + 1, p)
         /\ \E a \in 0..b : Between(c, a, b)
  BY <1>2, WhereAlive
<1>4. PICK a \in 0..b : response[c] = SubSeq(w, a + 1, b) /\ Taken(c, a)
  BY <1>3 DEF Between
<1>5. /\ status[c] \in Codes /\ clientOpen[c] # "none" /\ w \in Seq(Bytes)
      /\ p \in Nat /\ p <= Len(w)
      /\ \A k \in 1..5 : w[k] = Header(status[c])[k]
  BY <1>2, WhereAlive, WholeType
<1>6. /\ f = NextFlags(flags[c], Head(response[c]))
      /\ flags'[c] = f /\ client'[c] = (IF f = Flags THEN "body" ELSE "header")
      /\ response'[c] = Tail(response[c])
  BY <1>1, AccountTypes DEF OInv
<1>7. a <= 4 /\ flags[c] = FlagsAfter(a)
  BY <1>1, <1>4 DEF Taken
<1>8. Position(c)' = p /\ Whole(status'[c]) = w
  BY <1>1 DEF Position
<1>9. SubSeq(w, 6, 5) = <<>>
  BY SubSeqEmpty
<1> HIDE DEF w, p, f
<1>10. a < b /\ a \in 0..4
  <2>1. a = b => SubSeq(w, a + 1, b) = <<>>
    BY <1>3, <1>5, SubSeqEmpty
  <2> QED BY <1>1, <1>3, <1>4, <1>5, <1>7, <2>1
<1>11. Head(response[c]) = w[a + 1] /\ Tail(response[c]) = SubSeq(w, (a + 1) + 1, b)
  <2>1. a + 1 \in 1..Len(w) /\ b \in (a + 1)..Len(w)
    <3>1. PICK n \in Nat : n = Len(w)
      BY <1>5
    <3>2. a + 1 \in 1..n /\ b \in (a + 1)..n
      BY <1>3, <1>5, <1>10, <3>1
    <3> QED BY <3>1, <3>2
  <2> QED BY <1>4, <1>5, <2>1, HeadTailOfSubSeq
<1>12. f = IF a = 4 THEN Flags ELSE FlagsAfter(a + 1)
  <2>1. w[a + 1] = Header(status[c])[a + 1]
    BY <1>5, <1>10
  <2>2. f = NextFlags(FlagsAfter(a), Header(status[c])[a + 1])
    BY <1>6, <1>7, <1>11, <2>1
  <2> QED BY <1>5, <1>10, <2>2, FlagsFollow
<1>13. Taken(c, a + 1)'
  <2>1. CASE a = 4
    <3>1. client'[c] = "body"
      BY <1>6, <1>12, <2>1
    <3>2. a + 1 = 5 /\ <<>> \o <<>> = <<>>
      BY <2>1
    <3>3. output'[c] \o buf'[c] = SubSeq(Whole(status'[c]), 6, a + 1)
      BY <1>1, <1>2, <1>8, <1>9, <3>2
    <3> QED BY <3>1, <3>2, <3>3 DEF Taken
  <2>2. CASE a # 4
    <3>1. a + 1 \in 0..4
      BY <1>10, <2>2
    <3>2. client'[c] = "header" /\ flags'[c] = FlagsAfter(a + 1)
      BY <1>6, <1>12, <2>2, <3>1, FlagsNotYet
    <3> QED BY <3>1, <3>2 DEF Taken
  <2> QED BY <2>1, <2>2
<1>14. Silent(c)'
  BY <1>1, <1>2, <1>6 DEF OInv, Account, Silent, Alive
<1>15. Response(c)'
  <2>1. a + 1 \in 0..b
    BY <1>3, <1>5, <1>10
  <2>2. left'[c] <= Len(Body(status'[c]))
    BY <1>1, <1>2 DEF OInv, Account, Response
  <2> QED BY <1>1, <1>3, <1>6, <1>8, <1>11, <1>13, <2>1, <2>2 DEF Response, Between
<1>16. Ended(c)'
  BY <1>1 DEF OInv, Account, Ended
<1>17. Result(c)'
  BY <1>1, <1>6 DEF OInv, Account, Result
<1> QED BY <1>14, <1>15, <1>16, <1>17 DEF Account

LEMMA EndOfHeaderAccount ==
    ASSUME OInv, NEW c \in Clients, EndOfHeader(c), UNCHANGED serverVars
    PROVE  Account(c)'
<1>1. /\ client[c] = "header" /\ response[c] = <<>> /\ ServerClosed(c)
      /\ Close(c, "done") /\ UNCHANGED <<flags, buf, output>>
  BY DEF EndOfHeader
<1>2. client[c] \in Alive /\ output[c] = <<>> /\ IsPrefix(output[c], File)
  BY <1>1 DEF OInv, Account, Silent, Result, Alive
<1>3. status[c] = "none"
  <2> SUFFICES ASSUME status[c] # "none" PROVE FALSE
    OBVIOUS
  <2>1. Taken(c, Len(Whole(status[c])))
    BY <1>1, <1>2, WhereClosed
  <2>2. Len(Whole(status[c])) <= 4
    BY <1>1, <2>1 DEF Taken
  <2>3. status[c] \in Codes
    BY <1>2, WhereAlive
  <2> QED BY <2>2, <2>3, WholeType
<1>4. flags[c] = {} /\ buf[c] = <<>>
  BY <1>3 DEF OInv, Account, Silent
<1>5. IsPrefix(output[c], File)'
  BY <1>1, <1>2
<1> QED BY <1>1, <1>2, <1>3, <1>4, <1>5, ClosedAccount

Joins(x, y, whole) == whole = x \o y

LEMMA Regroup ==
    ASSUME NEW S, NEW x \in Seq(S), NEW y \in Seq(S), NEW u \in Seq(S),
           NEW q, NEW z, NEW r, Joins(x, y, q), Joins(y, u, z), Joins(q, u, r)
    PROVE  Joins(x, z, r)
<1>1. (x \o y) \o u = x \o (y \o u)
  BY ConcatAssociative
<1> QED BY <1>1 DEF Joins

LEMMA BodyAccount ==
    ASSUME OInv, NEW c \in Clients, ReadBody(c), UNCHANGED serverVars
    PROVE  Account(c)'
<1> USE DEF serverVars, childVars
<1> DEFINE w == Whole(status[c])
           p == Position(c)
<1>1. PICK n :
      /\ n = IF Len(response[c]) < Room(c) THEN Len(response[c]) ELSE Room(c)
      /\ client[c] = "body" /\ response[c] # <<>>
      /\ buf' = [buf EXCEPT ![c] = @ \o SubSeq(response[c], 1, n)]
      /\ response' = [response EXCEPT ![c] = SubSeq(@, n + 1, Len(@))]
      /\ UNCHANGED <<child, status, left, out, client, flags, output, clientOpen>>
  BY DEF ReadBody
<1>2. status[c] # "none" /\ client[c] \in Alive
  BY <1>1 DEF OInv, Account, Silent, Alive
<1>3. PICK b \in 0..p :
         /\ out[c] = SubSeq(w, b + 1, p)
         /\ \E a \in 0..b : Between(c, a, b)
  BY <1>2, WhereAlive
<1>4. PICK a \in 0..b : response[c] = SubSeq(w, a + 1, b) /\ Taken(c, a)
  BY <1>3 DEF Between
<1>5. /\ status[c] \in Codes /\ clientOpen[c] # "none" /\ w \in Seq(Bytes)
      /\ p \in Nat /\ p <= Len(w)
  BY <1>2, WhereAlive, WholeType
<1>6. n \in 0..Len(response[c])
  <2>1. response[c] \in Seq(Bytes) /\ buf[c] \in Seq(Bytes) /\ Len(buf[c]) <= MAXDATASIZE
    BY AccountTypes DEF OInv, TypeOK, ClientTypeOK
  <2> QED BY <1>1, <2>1 DEF Room
<1>7. /\ buf'[c] = buf[c] \o SubSeq(response[c], 1, n)
      /\ response'[c] = SubSeq(response[c], n + 1, Len(response[c]))
  BY <1>1, AccountTypes DEF OInv
<1>8. a >= 5 /\ output[c] \o buf[c] = SubSeq(w, 6, a)
  BY <1>1, <1>4 DEF Taken
<1>9. Position(c)' = p /\ Whole(status'[c]) = w
  BY <1>1 DEF Position
<1> HIDE DEF w, p
<1>10. Len(response[c]) = b - a
  BY <1>3, <1>4, <1>5, PartLength
<1>11. n \in 0..(b - a) /\ a \in Nat /\ b \in Nat /\ b <= Len(w) /\ n \in Nat
  BY <1>3, <1>4, <1>5, <1>6, <1>10
<1>12. /\ SubSeq(response[c], 1, n) = SubSeq(w, a + 1, a + n)
       /\ SubSeq(response[c], n + 1, b - a) = SubSeq(w, (a + n) + 1, b)
  BY <1>4, <1>5, <1>11, PartSplit
<1>13. response'[c] = SubSeq(w, (a + n) + 1, b)
  BY <1>7, <1>10, <1>12
<1>14. output[c] \o buf'[c] = SubSeq(w, 6, a + n)
  <2> DEFINE u == SubSeq(w, a + 1, a + n)
  <2>1. SubSeq(w, 6, a) \o u = SubSeq(w, 6, a + n)
    <3>1. 6 \in 1..Len(w) + 1 /\ a \in 6 - 1..Len(w) /\ a + n \in a..Len(w)
      BY <1>5, <1>8, <1>11
    <3> QED BY <1>5, <3>1, ConcatAdjacentSubSeq
  <2>2. u \in Seq(Bytes)
    <3>1. a + n \in Nat /\ a <= a + n /\ a + n <= Len(w)
      BY <1>5, <1>11
    <3> QED BY <1>5, <1>11, <3>1, PartLength
  <2>3. output[c] \in Seq(Bytes) /\ buf[c] \in Seq(Bytes)
    BY AccountTypes DEF OInv
  <2>4. /\ Joins(output[c], buf[c], SubSeq(w, 6, a))
        /\ Joins(buf[c], u, buf'[c])
        /\ Joins(SubSeq(w, 6, a), u, SubSeq(w, 6, a + n))
    BY <1>7, <1>8, <1>12, <2>1 DEF Joins
  <2> HIDE DEF u
  <2>5. Joins(output[c], buf'[c], SubSeq(w, 6, a + n))
    BY <2>2, <2>3, <2>4, Regroup
  <2> QED BY <2>5 DEF Joins
<1>15. Silent(c)'
  BY <1>1, <1>2 DEF OInv, Account, Silent, Alive
<1>16. Response(c)'
  <2>1. a + n \in 0..b /\ a + n >= 5
    BY <1>8, <1>11
  <2>2. Taken(c, a + n)'
    BY <1>1, <1>9, <1>14, <2>1 DEF Taken
  <2>3. left'[c] <= Len(Body(status'[c]))
    BY <1>1, <1>2 DEF OInv, Account, Response
  <2> QED BY <1>1, <1>3, <1>9, <1>13, <2>1, <2>2, <2>3 DEF Response, Between
<1>17. Ended(c)'
  BY <1>1 DEF OInv, Account, Ended
<1>18. Result(c)'
  BY <1>1 DEF OInv, Account, Result
<1> QED BY <1>15, <1>16, <1>17, <1>18 DEF Account

(* Body bytes that the client has taken are a part of the file.            *)
LEMMA TakenOfFile ==
    ASSUME NEW code \in Codes, NEW a \in Nat, a >= 5, a <= Len(Whole(code)),
           NEW x, x = SubSeq(Whole(code), 6, a)
    PROVE  IsPrefix(x, File) /\ (a = Len(Whole(code)) => x = Body(code))
<1>1. /\ Len(Whole(code)) = 5 + Len(Body(code)) /\ Len(Body(code)) \in Nat
      /\ Body(code) \in Seq(Bytes)
  BY WholeType
<1>2. a - 5 \in 0..Len(Body(code))
  BY <1>1
<1>3. x = SubSeq(Body(code), 1, a - 5)
  <2>1. PICK j \in 0..Len(Body(code)) : j = a - 5
    BY <1>2
  <2>2. 0 \in Nat /\ j \in Nat /\ 0 <= j /\ j <= Len(Body(code))
    BY <1>1, <2>1
  <2>3. SubSeq(Whole(code), 5 + 0 + 1, 5 + j) = SubSeq(Body(code), 0 + 1, j)
    BY <2>2, BodyPart, Zenon
  <2>4. 5 + 0 + 1 = 6 /\ 5 + j = a /\ 0 + 1 = 1
    BY <2>1
  <2> QED BY <2>1, <2>3, <2>4
<1>4. IsPrefix(x, File)
  BY <1>2, <1>3, PrefixOfFile
<1>5. ASSUME a = Len(Whole(code)) PROVE x = Body(code)
  <2>1. a - 5 = Len(Body(code))
    BY <1>1, <1>5
  <2> QED BY <1>1, <1>3, <2>1, SubSeqFull
<1> QED BY <1>4, <1>5

LEMMA WriteAccount ==
    ASSUME OInv, NEW c \in Clients, WriteOutput(c), UNCHANGED serverVars
    PROVE  Account(c)'
<1> USE DEF serverVars, childVars, connectionVars
<1> DEFINE w == Whole(status[c])
<1>1. /\ client[c] = "body"
      /\ output' = [output EXCEPT ![c] = @ \o buf[c]] /\ buf' = [buf EXCEPT ![c] = <<>>]
      /\ UNCHANGED <<child, status, left, out, client, flags, response, clientOpen>>
  BY DEF WriteOutput
<1>2. status[c] # "none" /\ client[c] \in Alive
  BY <1>1 DEF OInv, Account, Silent, Alive
<1>3. PICK b \in 0..Position(c) :
         /\ out[c] = SubSeq(w, b + 1, Position(c))
         /\ \E a \in 0..b : Between(c, a, b)
  BY <1>2, WhereAlive
<1>4. PICK a \in 0..b : response[c] = SubSeq(w, a + 1, b) /\ Taken(c, a)
  BY <1>3 DEF Between
<1>5. /\ status[c] \in Codes /\ Position(c) \in Nat /\ Position(c) <= Len(w)
      /\ w \in Seq(Bytes)
  BY <1>2, WhereAlive, WholeType
<1>6. a >= 5 /\ output[c] \o buf[c] = SubSeq(w, 6, a)
  BY <1>1, <1>4 DEF Taken
<1>7. output'[c] = SubSeq(w, 6, a) /\ buf'[c] = <<>>
  BY <1>1, <1>6, AccountTypes DEF OInv
<1>8. Position(c)' = Position(c) /\ Whole(status'[c]) = w
  BY <1>1 DEF Position
<1> HIDE DEF w
<1>9. output'[c] \o buf'[c] = SubSeq(w, 6, a)
  <2>1. a \in Nat /\ a <= Len(w)
    BY <1>3, <1>4, <1>5
  <2>2. SubSeq(w, 6, a) \in Seq(Bytes)
    <3>1. \A k \in 6..a : w[k] \in Bytes
      BY <1>5, <2>1
    <3> QED BY <2>1, <3>1, SubSeqProperties
  <2> QED BY <1>7, <2>2, ConcatEmptySeq
<1>10. Silent(c)'
  BY <1>1, <1>2 DEF OInv, Account, Silent, Alive
<1>11. Response(c)'
  <2>1. Taken(c, a)'
    BY <1>1, <1>6, <1>8, <1>9 DEF Taken
  <2>2. left'[c] <= Len(Body(status'[c]))
    BY <1>1, <1>2 DEF OInv, Account, Response
  <2> QED BY <1>1, <1>3, <1>4, <1>8, <2>1, <2>2 DEF Response, Between
<1>12. Ended(c)'
  BY <1>1 DEF OInv, Account, Ended
<1>13. Result(c)'
  <2>1. a \in Nat /\ a <= Len(w)
    BY <1>3, <1>4, <1>5
  <2>2. IsPrefix(output'[c], File)
    BY <1>5, <1>6, <1>7, <2>1, TakenOfFile DEF w
  <2> QED BY <1>1, <2>2 DEF Result
<1> QED BY <1>10, <1>11, <1>12, <1>13 DEF Account

LEMMA EndOfBodyAccount ==
    ASSUME OInv, NEW c \in Clients, EndOfBody(c), UNCHANGED serverVars
    PROVE  Account(c)'
<1>1. /\ client[c] = "body" /\ response[c] = <<>> /\ ServerClosed(c)
      /\ output' = [output EXCEPT ![c] = @ \o buf[c]]
      /\ Close(c, "done")
  BY DEF EndOfBody
<1>2. status[c] # "none" /\ client[c] \in Alive
  BY <1>1 DEF OInv, Account, Silent, Alive
<1>3. status[c] \in Codes
  BY <1>2, WhereAlive
<1>4. Taken(c, Len(Whole(status[c])))
  BY <1>1, <1>2, WhereClosed
<1>5. output[c] \o buf[c] = SubSeq(Whole(status[c]), 6, Len(Whole(status[c])))
  BY <1>1, <1>4 DEF Taken
<1>6. output'[c] = output[c] \o buf[c]
  BY <1>1, AccountTypes DEF OInv
<1>7. Len(Whole(status[c])) \in Nat /\ Len(Whole(status[c])) >= 5
  BY <1>3, WholeType
<1>8. IsPrefix(output'[c], File) /\ output'[c] = Body(status[c])
  <2>1. output'[c] = SubSeq(Whole(status[c]), 6, Len(Whole(status[c])))
    BY <1>5, <1>6
  <2>2. PICK a \in Nat : a = Len(Whole(status[c]))
    BY <1>7
  <2>3. a >= 5 /\ a <= Len(Whole(status[c])) /\ output'[c] = SubSeq(Whole(status[c]), 6, a)
    BY <1>7, <2>1, <2>2
  <2> QED BY <1>3, <2>2, <2>3, TakenOfFile
<1>9. output'[c] = IF status[c] = "200" THEN File ELSE <<>>
  BY <1>8 DEF Body
<1>10. IsPrefix(output[c], File)'
  BY <1>8
<1> QED BY <1>1, <1>2, <1>9, <1>10, ClosedAccount

LEMMA ClientAccount ==
    ASSUME OInv, NEW c \in Clients, Proceed(c) \/ Killed(c), UNCHANGED serverVars
    PROVE  \A d \in Clients : Account(d)'
BY OtherClient, RequestAccount, DeadAccount, HeaderAccount, EndOfHeaderAccount,
   BodyAccount, WriteAccount, EndOfBodyAccount DEF Proceed

-----------------------------------------------------------------------------
(* The theorem                                                             *)

LEMMA InitOInv == Init => OInv
<1> SUFFICES ASSUME Init PROVE OInv
  OBVIOUS
<1> USE DEF Init, ConnectionInit, ServerInit, ClientInit
<1>1. TypeOK
  BY InitType
<1>2. HoldersInv
  BY DEF HoldersInv, OwnConnectionOnly
<1>3. PlaceInv
  BY DEF PlaceInv, ChildRuns
<1>4. ASSUME NEW c \in Clients PROVE Account(c)
  <2>1. IsPrefix(<<>>, File)
    <3>1. SubSeq(File, 1, 0) = <<>> /\ SubSeq(<<>>, 1, 0) = <<>> /\ Len(<<>>) = 0
      BY SubSeqEmpty
    <3>2. Len(File) \in Nat
      OBVIOUS
    <3> QED BY <3>1, <3>2 DEF IsPrefix
  <2>2. Silent(c)
    BY DEF Silent, Alive
  <2>3. Response(c) /\ Ended(c) /\ Result(c)
    BY <2>1 DEF Response, Ended, Result
  <2> QED BY <2>2, <2>3 DEF Account
<1> QED BY <1>1, <1>2, <1>3, <1>4 DEF OInv

LEMMA OInvStep == OInv /\ [Next]_vars => OInv'
<1> SUFFICES ASSUME OInv, [Next]_vars PROVE OInv'
  OBVIOUS
<1>1. TypeOK' /\ HoldersInv'
  BY TypeStep, HoldersStep DEF OInv
<1>2. CASE ServerNext /\ UNCHANGED clientVars
  <2>1. CASE ParentStep \/ HandlerStep
    BY <1>1, <1>2, <2>1, ParentPlace, ParentAccount DEF OInv
  <2>2. CASE \E c \in Clients : ChildStep(c)
    BY <1>1, <1>2, <2>2, ChildPlace, ChildAccount DEF OInv
  <2> QED BY <1>2, <2>1, <2>2 DEF ServerNext
<1>3. CASE (\E c \in Clients : Proceed(c) \/ Killed(c)) /\ UNCHANGED serverVars
  BY <1>1, <1>3, ClientPlace, ClientAccount DEF OInv
<1>4. CASE UNCHANGED vars
  <2>1. PlaceInv'
    BY <1>4 DEF OInv, PlaceInv, ServerClosed, vars, connectionVars, serverVars,
       parentVars, childVars, clientVars
  <2>2. ASSUME NEW c \in Clients PROVE Account(c)'
    <3>1. Kept(c) /\ ChildMoves(c)
      BY <1>4 DEF Kept, ChildMoves, vars, connectionVars, serverVars, childVars, clientVars
    <3> QED BY <3>1, Frame DEF OInv
  <2> QED BY <1>1, <2>1, <2>2 DEF OInv
<1> QED BY <1>2, <1>3, <1>4 DEF Next, Progress

(* However the requests and the responses are cut, a client's file is a    *)
(* part of the server's from its beginning, and at the end the whole of it *)
(* after an answer of 200 and nothing after another.                       *)
THEOREM OutputIsTheFile == Spec => []OutputIsFile
<1>1. OInv => OutputIsFile
  BY DEF OInv, Account, Result, OutputIsFile
<1> QED BY <1>1, InitOInv, OInvStep, PTL DEF Spec

=============================================================================
