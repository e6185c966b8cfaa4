-------------------------------- MODULE Http --------------------------------
(* http_server and the http_clients that connect to it (mp1).              *)
EXTENDS HttpServer, HttpClient

vars == <<connectionVars, serverVars, clientVars>>

Init == ConnectionInit /\ ServerInit /\ ClientInit

(* What the processes do by themselves.                                    *)
Progress ==
    \/ ServerNext /\ UNCHANGED clientVars
    \/ (\E c \in Clients : Proceed(c)) /\ UNCHANGED serverVars

Next ==
    \/ Progress
    \/ (\E c \in Clients : Killed(c)) /\ UNCHANGED serverVars

(* As long as a process can take a step, some process takes one.  No more  *)
(* is needed: none of them can go on for ever by itself, but for a child   *)
(* with a file that cannot be read, whose loop changes nothing; the kernel *)
(* gives the others their turn.                                            *)
Fairness == WF_vars(Progress)

Spec == Init /\ [][Next]_vars /\ Fairness

-----------------------------------------------------------------------------
(* Properties                                                              *)

(* Every variable of the connections and of the processes has its type.    *)
TypeOK ==
    /\ ConnectionTypeOK
    /\ ServerTypeOK
    /\ ClientTypeOK

(* However requests and responses are cut into reads and writes, what a    *)
(* client writes is a part of the file from its beginning; it is the whole *)
(* of it for a client that comes to its end after an answer of 200, and    *)
(* nothing after another answer or none.                                   *)
OutputIsFile ==
    \A c \in Clients :
        /\ IsPrefix(output[c], File)
        /\ client[c] = "done" =>
              output[c] = IF status[c] = "200" THEN File ELSE <<>>

(* No child has the descriptor of a connection that is not its own, which  *)
(* would keep that connection's client waiting for the end of the file     *)
(* until this child ends.                                                  *)
OwnConnectionOnly == \A c \in Clients : holders[c] \subseteq {c, Parent}

(* No signal is lost: as long as a child that has ended is not waited for, *)
(* SIGCHLD is pending or its handler still has to look at all children,    *)
(* although signals are not counted and the handler is not interrupted.    *)
EndedIsAnnounced ==
    (\E c \in Clients : child[c] = "zombie") => sigchld \/ inHandler

(* Every client comes to its end: the server accepts it, whatever the      *)
(* other clients do, and closes every copy of its connection.  A child     *)
(* that loops over a file it cannot read keeps its own client, and only    *)
(* that one, waiting.                                                      *)
ClientsEnd ==
    \A c \in Clients :
        client[c] = "connect" ~> client[c] \in {"done", "dead"} \/ child[c] = "loop"

(* No child stays a zombie, although several children may end during one   *)
(* run of the handler or while one signal is pending.                      *)
ChildrenReaped == \A c \in Clients : child[c] = "zombie" ~> child[c] = "reaped"

=============================================================================
