------------------------------- MODULE Routing -------------------------------
(* The main function of linkstate or of distvec (mp3), which differ in how *)
(* they compute the tables only: after the topology file and after each    *)
(* change the tables of all nodes are computed, then the messages are sent *)
(* over them.                                                              *)
EXTENDS LinkState, DistVec, Sequences, Functions

CONSTANT Messages   \* for a set of nodes, the lines <<source, destination>> of its file

(* The messages file names nodes of the topology file.                     *)
ASSUME MessagesAssumption ==
    \A S \in SUBSET Routers : Messages[S] \in Seq(S \X S)

VARIABLES
    program,          \* "linkstate" or "distvec"
    messages,         \* the messages file
    message_file,     \* what has been read of it
    table,            \* the rows printed since the last change
    answers,          \* the lines printed for messages since the last change
    src, dest, curr,  \* a message under way, and where it is
    path              \* the nodes it has left

walk == <<src, dest, curr, path>>
output == <<table, answers>>
vars == <<program, pc, network, tables, node, N, i, todo,
          messages, message_file, output, walk>>

NoMessage == src = NoNode /\ dest = NoNode /\ curr = NoNode /\ path = <<>>

Init ==
    /\ program \in {"linkstate", "distvec"}
    /\ TopologyInit
    /\ N = {} /\ i = 0 /\ todo = {}
    /\ messages = Messages[nodes]
    /\ message_file = <<>> /\ table = {} /\ answers = <<>>
    /\ NoMessage

ComputeLinkState ==
    /\ program = "linkstate" /\ LinkStateNext
    /\ UNCHANGED <<program, i, todo, messages, message_file, output, walk>>

ComputeDistVec ==
    /\ program = "distvec" /\ DistVecNext
    /\ UNCHANGED <<program, N, messages, message_file, output, walk>>

(* Unreachable destinations have no row.                                   *)
RowsOf(u) ==
    {[node |-> u, dest |-> v, next_hop |-> nextHops[u][v],
      cost |-> distance_vectors[u][v]] : v \in {v \in nodes : distance_vectors[u][v] # Infinity}}

StoreForwardingTable ==
    /\ pc = "print"
    /\ table' = UNION {RowsOf(u) : u \in nodes}
    /\ pc' = "messages"
    /\ UNCHANGED <<program, network, tables, node, N, i, todo,
                   messages, message_file, answers, walk>>

storeMessageOutput(path_cost, hops) ==
    answers' = Append(answers, [cost |-> path_cost, hops |-> hops])

(* getShortestPath, which walks nowhere if there is no way.                *)
StartMessage(m) ==
    /\ \/ /\ distance_vectors[m[1]][m[2]] = Infinity
          /\ storeMessageOutput(Infinity, <<>>)
          /\ UNCHANGED <<pc, walk>>
       \/ /\ distance_vectors[m[1]][m[2]] # Infinity
          /\ src' = m[1] /\ dest' = m[2] /\ curr' = m[1] /\ path' = <<>>
          /\ pc' = "walk"
          /\ UNCHANGED answers
    /\ UNCHANGED <<program, network, tables, node, N, i, todo, messages, table>>

(* The first time, each message is sent as its line is read.               *)
ReadMessage ==
    /\ pc = "messages"
    /\ Len(answers) = Len(message_file) /\ Len(message_file) < Len(messages)
    /\ LET m == messages[Len(message_file) + 1]
       IN  message_file' = Append(message_file, m) /\ StartMessage(m)

(* After a change the messages are sent again from memory.                 *)
ResendMessage ==
    /\ pc = "messages" /\ Len(answers) < Len(message_file)
    /\ StartMessage(message_file[Len(answers) + 1])
    /\ UNCHANGED message_file

(* Mutant: each hop is looked up in the table of the source.               *)
ForwardBySource ==
    /\ pc = "walk" /\ curr # dest
    /\ path' = Append(path, curr)
    /\ curr' = nextHops[src][dest]
    /\ UNCHANGED <<program, pc, network, tables, node, N, i, todo,
                   messages, message_file, output, src, dest>>

Forward ==
    /\ pc = "walk" /\ curr # dest
    /\ path' = Append(path, curr)
    /\ curr' = nextHops[curr][dest]
    /\ UNCHANGED <<program, pc, network, tables, node, N, i, todo,
                   messages, message_file, output, src, dest>>

(* Mutant: the destination is taken for one of the hops.                   *)
getHopsAndDest == Append(path, curr)

getHops == path

Deliver ==
    /\ pc = "walk" /\ curr = dest
    /\ storeMessageOutput(distance_vectors[src][dest], getHops)
    /\ src' = NoNode /\ dest' = NoNode /\ curr' = NoNode /\ path' = <<>>
    /\ pc' = "messages"
    /\ UNCHANGED <<program, network, tables, node, N, i, todo,
                   messages, message_file, table>>

(* Removing a link that is not there is left out for linkstate: erase on   *)
(* the end of a set is undefined.  distvec has no sets of neighbours.      *)
ChangeTopology ==
    /\ message_file = messages /\ Len(answers) = Len(messages)
    /\ Change(IF program = "linkstate" THEN DOMAIN edge_cost ELSE Links)
    /\ table' = {} /\ answers' = <<>>
    /\ UNCHANGED <<program, N, i, todo, messages, message_file, walk>>

Proceed ==
    \/ ComputeLinkState \/ ComputeDistVec \/ StoreForwardingTable
    \/ ReadMessage \/ ResendMessage \/ Forward \/ Deliver

Next == Proceed \/ ChangeTopology

Spec == Init /\ [][Next]_vars

(* The programs run on; the changes file may end.                          *)
FairSpec == Spec /\ WF_vars(Proceed)

-----------------------------------------------------------------------------
(* What the programs promise                                               *)

Service == INSTANCE MessageService WITH cost <- edge_cost

Cost(u, v) == Service!Cost(u, v)

-----------------------------------------------------------------------------
(* Properties                                                              *)

(* Every variable has its type.                                            *)
TypeOK ==
    /\ program \in {"linkstate", "distvec"}
    /\ pc \in {"init", "source", "print", "messages", "walk"}
    /\ nodes \subseteq Routers
    /\ DOMAIN edge_cost \subseteq Routers \X Routers
    /\ \A p \in DOMAIN edge_cost : edge_cost[p] \in Costs
    /\ adj_list \in [Routers -> SUBSET Routers]
    /\ distance_vectors \in [Routers -> [Routers -> 0..Infinity]]
    /\ nextHops \in [Routers -> [Routers -> Routers \cup {NoNode, NoHop}]]
    /\ {node, src, dest, curr} \subseteq Routers \cup {NoNode}
    /\ N \subseteq nodes
    /\ i \in Nat /\ todo \subseteq DOMAIN edge_cost
    /\ path \in Seq(Routers)
    /\ {messages, message_file} \subseteq Seq(nodes \X nodes)
    /\ table \subseteq [node : nodes, dest : nodes, cost : 0..Infinity,
                       next_hop : Routers \cup {NoNode, NoHop}]
    /\ answers \in Seq([cost : 0..Infinity, hops : Seq(Routers)])

(* However links are set and removed, the two structures that linkstate    *)
(* keeps of them describe the same network, in both directions.            *)
LinksAgree ==
    \A u, v \in Routers :
        /\ v \in adj_list[u] <=> <<u, v>> \in DOMAIN edge_cost
        /\ <<u, v>> \in DOMAIN edge_cost =>
              /\ <<v, u>> \in DOMAIN edge_cost
              /\ edge_cost[<<u, v>>] = edge_cost[<<v, u>>]

(* The tables that are written out hold the costs of the shortest paths in *)
(* the network as it is after the changes.                                 *)
CostsShortest ==
    pc = "print" => \A u, v \in nodes : distance_vectors[u][v] = Cost(u, v)

(* dijkstra never has to correct a node it has taken into N, and what it   *)
(* has for the others is the cost of a path.                               *)
SettledIsFinal ==
    program = "linkstate" /\ pc = "source" /\ N # {} =>
        \A v \in nodes : IF v \in N THEN Row[v] = Cost(node, v)
                         ELSE Row[v] >= Cost(node, v)

(* At the beginning of round i of updateDistanceVector the paths of up to  *)
(* i + 1 links have been accounted for.                                    *)
RoundsAddLinks ==
    program = "distvec" /\ pc = "source" /\ todo = DOMAIN edge_cost =>
        \A v \in nodes : Row[v] \in Cost(node, v)..Service!Shortest(node, v, i + 1)

(* A message gets to its destination over a path that costs what the       *)
(* source's table says, although each node on it decides by its own table  *)
(* and ties are broken while the tables of later nodes are not yet there.  *)
WalksAreShortest ==
    pc = "walk" =>
        /\ curr \in nodes
        /\ Service!IsLinked(Append(path, curr))
        /\ Service!PathCost(Append(path, curr)) + distance_vectors[curr][dest]
             = distance_vectors[src][dest]

(* A message comes to no node for the second time, so that its path fits   *)
(* into memory, however the tables of its nodes break ties.                *)
WalksDoNotLoop == pc = "walk" => IsInjective(Append(path, curr))

(* Each network gets one table of shortest paths, with next hops that are  *)
(* on them, and then each message one answer with a shortest path, whether *)
(* it is read from the file or sent again after a change.                  *)
IsService == Service!Spec

(* The tables are computed, and every message gets to its answer: no pass  *)
(* over nodes, rounds or next hops goes on for ever.                       *)
EveryMessageAnswered ==
    (pc = "init") ~> (pc = "messages" /\ Len(answers) = Len(messages))

-----------------------------------------------------------------------------
(* README.md: "produce a correct forwarding table depending on network     *)
(* topology".  A change that names a node for the first time does not make *)
(* it one of the nodes; distvec then finds a distance of 0 to it.          *)
TablesFollowTopology == CostsShortest

=============================================================================
