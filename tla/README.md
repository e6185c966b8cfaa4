# Communication networks: specifications

TLA+ specifications of the four programs of this repository: an HTTP client and
server (mp1), a reliable file transfer over UDP (mp2), two routing simulations
(mp3) and a CSMA simulation (mp4). TLC checks them on small instances; TLAPS
proves their safety properties and refinements for every instance.

- [1 The system](#1-the-system)
- [2 The modules](#2-the-modules)
- [3 What is checked](#3-what-is-checked)
- [4 Where the code does not do what it says](#4-where-the-code-does-not-do-what-it-says)
- [5 What is proved](#5-what-is-proved)
- [6 What is not modelled](#6-what-is-not-modelled)
- [7 Plan](#7-plan)

## 1 The system

The programs of one directory work together; the directories have nothing in
common.

### mp2: reliable_sender and reliable_receiver

Two processes and a UDP path in each direction.

*The sender* (`sender_main.c`) keeps the TCP window (`CWND`, `SSTHRESH`,
`DUP_COUNT`, `STATE`, `CWND_START`), what it has sent (`NEXT_BYTE_TO_SEND`,
`BUFFER_IDX`, the position of `fp`, `SEND_BUFFER`), what it knows
(`LAST_ACK_RECV`, `num_pkts_acked`) and the times it measures (`SENT_TIMES`, RTT
and timeout). One pass of its loop receives one acknowledgement, or times out
after 40 ms, moves the state machine (slow start, congestion avoidance, fast
recovery), and sends a new segment, repeats the first one that is not
acknowledged, or does neither. When everything is acknowledged it repeats the
datagram `-` until a `-` comes back.

*The receiver* (`receiver_main.c`) keeps the number of the byte it waits for
(`ACK_TO_SEND`) and the file it writes. Every datagram and every timeout of
100 us is answered with that number; `-` ends it.

Sequence numbers are decimal text with no end mark. The receiver reads as many
characters as the number *it waits for* has digits; the sender gives `recvfrom`
as much room as the number *it hopes for* has digits.

Hard here: datagrams that are lost, late, doubled and overtaken; timeouts that
race with answers; cumulative acks; numbers whose width changes; a file that is
read by two routes (sequentially for new segments, by seeking for repeated
ones); window arithmetic that drifts from what is acknowledged; buffers indexed
with counters that nothing ties to their size. Correct means: the receiver's
file is at all times a prefix of the source; no ack is ahead of it; every
segment carries the bytes its number names; the file is complete when the two
programs say so; both come to an end.

### mp3: linkstate and distvec

Each simulates all routers in one process: it reads a topology, computes the
tables of all nodes, prints them and walks the messages along them, and does the
same again after every line of a changes file. State: `nodes`, `edge_cost`,
`adj_list`, `distance_vectors`, `nextHops`. linkstate runs Dijkstra's algorithm
for each node, with ties broken by walking over the tables as far as they are
computed; distvec relaxes all edges, in place, `nodes.size() - 1` times. The
first time the messages are sent while their file is read, later from memory.

Hard here: two redundant representations of the links; state that outlives a
change; INT_MAX as infinity in sums that wrap; an uninitialised minimum when the
network is not connected; tie breaking that reads half-computed tables; messages
that are walked without a bound. Correct means: the costs are those of the
shortest paths in the network as it now is, every table has one row per destination that can be reached,
every message takes such a path, and each network's messages are all answered, in
order.

### mp4: csma

One process simulates `T` slots of a channel shared by `N` stations that draw
backoffs from ranges `R`. State: the backoff, range index and collision count of
each station; the channel and its sender; counters. Each slot first ends a
transmission that is complete and then advances it, starts one, registers a
collision, or lets the backoffs run down. At the end it writes percentages and
variances of what it counted.

Hard here: two resets (`>= m` and `% m`) in different places that must agree;
the ordering of the two halves of a slot; unguarded decrements; counters that
must add up. Correct means: one sender at a time, backoffs inside the range that
the collisions of the packet determine, every slot counted once.

### mp1: HTTP client and server, talker and listener

The client sends a GET, shuts down its side of the connection, skips the header
of the response with four flags (`firstR`, `firstN`, `secR`, `secN`) and writes
what follows, until the end of the connection, to `output`. The server forks a
child per connection that reads the request, answers 400, 404 or 200, sends the
file in pieces of 1024 bytes and exits; a SIGCHLD handler waits for children that
have ended. They interact through the connection, its descriptors (which fork
copies) and the signal. `talker` and `listener` send and print one datagram and
have no state.

Hard here: TCP splits what is sent anywhere; the client's end of file depends on
every process that holds a copy of a descriptor; fork may fail; clients may go
away in the middle; several children may end while one signal is pending or its
handler runs. Correct means: `output` is the file if the answer was 200, whatever
the sizes of reads and writes; every client comes to its end; no child stays a
zombie; a child that never ends keeps nobody but its own client.

## 2 The modules

| module | models | state and actions |
|---|---|---|
| `Wire` | the UDP path and the text on it | sets of datagrams that only grow, so that each can be delivered late, twice, after later ones or never; `Lose` where loss must be for good. A datagram is `[seq, from, len]`: its number and where in the file its bytes are. `Symbol` and `Text` give it as characters, where the width of a number matters |
| `Sender` | `sender_main.c` | C variables under their names (`STATE` is `State`); a pass of the loop is a `Receive...`, an `On...` (`LeaveSlowStart`) and a `SendPacket...` or `Retransmit...` step; `spc` says which is next. Deaths are the values `segv`, `fpe` and `abort` of `spc` |
| `Receiver` | `receiver_main.c` | a pass of the loop, with the ack that always ends it, is one action |
| `Transport` | both, composed | properties, `FairSpec` |
| `Stream` | what a transfer promises | the abstract specification that `Transport` implements |
| `Decimal`, `MCTransport` | numerals in a base; values of constants | |
| `Topology` | what linkstate and distvec have in common | the network, `changeTopology`, wrapping sums |
| `LinkState`, `DistVec` | `linkstate.cpp`, `distvec.cpp` | one action per pass of the inner loop: a node settled, an edge relaxed |
| `Routing` | `main` of either: tables, messages, changes | a line of a file read, a hop, an answer or a change is one action; properties, `FairSpec` |
| `MessageService` | what either promises | the abstract specification that `Routing` implements: for each network a table and then one answer per message, with shortest paths by enumeration |
| `MCRouting` | values of constants | |
| `Csma` | `csma.cpp` | the two halves of a slot; one action for each thing a slot can be; `Report` at the end |
| `Medium` | what the channel promises | the abstract specification that `Csma` implements: one station holds the channel for `L + 1` slots and then counts a success |
| `MCCsma` | values of constants | |
| `Connection` | what client and server share | the queue of connections, the processes that hold the server's end, bytes under way |
| `HttpServer` | `server.c` | the parent's loop, the handler that interrupts it, and a child for each client |
| `HttpClient` | `client.c` | one action per step of `main`; a read or a write of the socket is one action |
| `Http` | both, composed | properties, fairness |
| `MCHttp` | values of constants | |
| `Transport_proofs`, `Delivery_proofs`, `Decimal_proofs`, `Routing_proofs`, `Csma_proofs`, `Http_proofs` | | the proofs about each component |
| `Sums_proofs`, `Paths_proofs` | | lemmas: sums over finite sets; walks and their costs |

Abstractions that matter:

- *Time* in the sender is left out. `SENT_TIMES` holds absolute times,
  differences, uninitialised memory, or bytes that the copies into `SEND_BUFFER`
  have put there; so `checkTimeout` may answer either way in every pass
  (`OnTimeout` is enabled in every control step). What stays is which elements it
  reads, since reading `SENT_TIMES[-1]` ends the program.
- *SlotBytes*. The sender allocates `sizeof(segment)` for a slot of
  `SEND_BUFFER`, which has no room for the flexible array `app_message`, and then
  copies whole segments in. In the code `SlotBytes` is 0: what a copy runs over
  includes the buffer of `fp`, so that a new segment may carry bytes of an earlier
  one (`ReadFrom`), and the allocator may abort in the closing `fclose`. With
  `SlotBytes = MSS + 1` the copies fit, and the rest of the protocol can be
  examined; most runs do that, and `transport_overrun` shows the code as it is.
- *Bounds.* `WindowBound` caps the inflation of the window by duplicate acks and
  `MaxNumber` the numbers on the wire. Both are in the guards (`OnDupAckInflate`,
  `AcceptSegment`). The window bound is above `bytesToTransfer`, so that
  everything a larger window could send has been sent by then.
- *rand()* in csma may return anything in its range; an uninitialised
  `min_cost_node` may be any node.
- In mp3 the rows that `operator[]` inserts for unknown nodes are there from the
  start, with the 0 they are inserted with. `Messages` gives the messages file that
  belongs to a topology file, by the nodes of the latter. distvec's copies of its neighbours'
  vectors are left out because nothing reads them. `table` is the set of rows that
  were printed, `answers` the cost and hops of each message; the wording of both,
  and the text of the messages, are left out. What is printed for the last network
  is forgotten with the change: nothing reads it again.
- *Removals.* linkstate erases the end iterator of a set when a link is removed
  that is not there, which is undefined; its changes remove links that exist.
  distvec, which has no sets of neighbours, may be told to remove any.
- In csma the averages and variances of the report are rational numbers in the
  code; the model keeps the sum of squared distances, multiplied by the number of
  stations squared, so that it stays whole. The percentages are the two counters
  of slots over `T` and are left as those counters.
- In mp1 a request is so many bytes of which the last end it; the words of a
  status line are one byte; whether the server has a file of the name it is asked
  for is a free choice. A write takes any part of what it is given, a read gives
  what has come: that covers every way in which TCP may cut the bytes. `Killable`
  bounds the clients that may be killed. A file may get shorter
  while it is sent, or be a directory, which `fopen` opens: `fread` then gives less
  than it is asked for and afterwards nothing, and the child goes round the loop over
  `left` for ever (`"loop"`). Other changes to a file are left out. So is the memory
  that each pass of that loop takes and does not give back (`server.c:308`): in the
  code the child that loops ends when there is no more. A
  `send` to a client that is gone ends the child by SIGPIPE (`BrokenPipe`) or,
  the first one after the reset, returns -1 (`SendFails`); then the bytes of the piece stay
  in the code's `left`, so that the loop over the file does not end.
- A request has room in the 1024 bytes of `getRequest` (`server.c:206`). The server
  answers 400 to a longer one, of which it reads the first 1024 bytes, and puts
  the final 0 one byte past them; the model has no such requests.
- A mutant is a definition next to the one it replaces, with the plausible bug
  its comment names; `PROJECT.json` says which property has to notice it.

## 3 What is checked

| run | instance | shows |
|---|---|---|
| `transport` | 14 bytes in segments of 3: five segments, the last of 2; numbers of one and two digits; digits in every byte of the file but the first | all safety properties below; `Spec` implements `Stream` |
| `transport_lossy` | 6 bytes in two segments, any copy lost for good, fair | `FinDelivered`, `TransferEnds`, `SenderFinishes` |
| `csma` | 3 symmetric stations, L = 2, M = 3, 12 slots | all properties of `Csma`; `Spec` implements `Medium` |
| `routing` | both programs; all networks of up to 4 nodes with links of cost 1 and 2; all changes; a message for each pair and one to its own source; fair | all properties of `Routing`; `Spec` implements `MessageService` |
| `http` | 2 clients, one of which may be killed anywhere; forks and sends that fail; requests of 2 bytes; a file of 3 bytes that begins with a line end, in pieces of 2 | all properties of `Http` |

The transport properties:

- `AckSound`: no ack on the wire, nor `LAST_ACK_RECV`, is ahead of the receiver's
  file, though acks overtake each other and are cut to the digits the sender
  makes room for.
- `SegmentsNameTheirBytes`: no segment reaches past the end of the transfer, and
  new and repeated segments put the bytes behind a number that it names. A copy
  into `SEND_BUFFER` that has run over its slot may spoil what is read later
  (`transport_overrun`), never segment 1.
- `IndexInBounds`: `num_pkts_acked` stays an index of `SENT_TIMES`.
- `NeverConfused`: only the awaited segment is taken for it, though numbers have
  no end mark and are compared by as many characters as the awaited one has, if
  the file is plain (`PlainFile`: no bytes that may stand behind a number complete
  it to a larger number that is waited for) and the numbers are (`PlainNumbers`:
  none but 1 is the beginning of a larger one). Files and lengths that are not
  plain are what `transport_confused` is about.
- `PrefixDelivered`: the receiver's file is a prefix of the source.
- `FinishedMeansDelivered`: FIN is sent and the file closed only when the file is
  there, but for the last byte of files of one byte over a multiple of `MSS`
  (section 4).
- `DuplicatesCounted`: the counter of duplicates never skips the test for three.
- `AcksAdvance`: no step takes the sender back, and each advance counts as one
  segment.
- `IsStream`: refinement of `Stream`, with `written`, `LAST_ACK_RECV - 1` and
  `rpc = "done"` for what is delivered, confirmed and closed.
- `FinDelivered`: once the sender is in its closing loop the receiver gets to the
  end.
- `TransferEnds`: the sender leaves the loop over the window (or dies, section 4),
  although a pass may drop the ack it has read, repeat an old decision, or move a
  window that has drifted from what is acknowledged.
- `SenderFinishes`: once the receiver has gone the sender comes to its end, too,
  unless the answer to FIN is lost. The receiver gives it once
  (`receiver_main.c:157`); if that one datagram is lost the sender repeats FIN for
  ever.

Five segments are enough for three duplicates, fast recovery, and a timeout
within it, with segments sent before and after; the numbers on the wire go from
one digit to two between the third segment (7) and the fourth (10).
The file is
the worst that is plain: every byte but the first is the digit 0, so that any
number inside it may be completed by a 0, and only segment 1 could become a number
that is waited for (10). With a 0 in the first byte, too, it does:
`transport_confused`. The five-node
networks that `routing` leaves out would add a fourth hop; 4 nodes already have
all of ties between paths of different lengths, unconnected parts and tables
computed before and after the one that is read. Twelve slots of three stations give a
station three collisions in sequence (`M`), successes before and after them, and a
transmission that ends in a slot in which its sender starts again or collides.

*Fairness* in transport (`FairSpec`). The sender takes steps as long as it can,
since all its waits have timeouts. Its clock goes on, so `checkTimeout`, if asked
again and again, is true at last (strong, `OnTimeout`). Both programs send again
what is not answered (segments on a timeout, acks every 100 us until the receiver
leaves, FIN on every timeout), and a network that loses every copy delivers
nothing at all: one of the copies of an awaited segment, of a new ack, of FIN and
of its answer arrives (strong). A repeated ack is sent while the sender waits for
one, where it spends nearly all of its time. Nothing else is assumed fair: which
branch the state machine takes and which datagrams are lost is free. With it the
transfer of `transport_lossy` ends; that of `transport_digits` does not (section 4).

*Routing*: `LinksAgree` (the two representations of the links), `CostsShortest`
(the tables' costs are those of the best enumerated path), `SettledIsFinal`
(Dijkstra's invariant), `RoundsAddLinks` (Bellman-Ford's, at the beginning of each
round; within a round the relaxation is in place), `WalksAreShortest` (messages
take paths of the cost in the table of the source), `WalksDoNotLoop` (and never come
to a node again, so that the `path` that is collected without a bound stays short), `IsService` (refinement of
`MessageService`: what is printed, row by row and message by message, before and
after changes), `EveryMessageAnswered` (no loop over nodes, rounds or next hops
goes on for ever). Fairness (`FairSpec`) is weak for everything the programs do by
themselves; nobody has to write a changes file. Deadlock is checked: the programs
never lack a next step while there can be changes and messages.

*Csma*: `SlotsAccounted`, `UtilizedByTransmissions`, `CollisionsShared`,
`AttemptsAccounted` (the counters add up: slots, the busy slots of each
transmission, each collision and each attempt of each station), `OneSender`,
`BackoffInRange`, `RangeFollowsCollisions`, `ReportAddsUp` (what is written agrees
with what was counted: no slot is missing or counted twice, and the variances are
those of the counts), `IsMedium` (refinement of `Medium`: the channel is never
passed on early, late or to two).

*Http*: `OutputIsFile` (what a client has is a part of the file from its
beginning, and all of it after a 200), `OwnConnectionOnly` (no child holds the
connection of another), `EndedIsAnnounced` (as long as a child has ended and is not
waited for, a signal is pending or the handler is running), `ClientsEnd`,
`ChildrenReaped`. Two clients are enough
for a child to be forked while another runs, and for two children to end with one
signal. The file is longer than a piece and than the client's buffer, and its
first bytes are those that the recogniser of the header looks for. Either client's file may
get shorter after any of its bytes, which leaves a child that never ends: `ClientsEnd` says that
no other client waits for it. Fairness is weak and for the whole system: as long as
some process can take a step that changes something, one does, since the kernel
gives each its turn. No process can change things for ever by itself, so more is
not needed; nobody has to be killed.

Deadlock is not checked in transport, csma and http, which end.

## 4 Where the code does not do what it says

Each is a run that ends in a counterexample to a sentence of the repository.

- `transport_delay`: the first ack is later than 40 ms. No branch of the state
  machine is taken, `transmit` still has its initial 0, and `retransmitPacket`
  reads `SENT_TIMES[-1]`.
- `transport_recovery`: a timeout in fast recovery sets `CWND` to 1, not `MSS`;
  another triple duplicate halves it to 0, and `MSS / CWND` divides by it.
- `transport_one_over`: one byte over a multiple of `MSS`. A `+ 1` too many makes
  the last new segment `MSS + 1` bytes long; the receiver has room for `MSS`; the
  sender's loop ends one byte early; both report success.
- `transport_overrun`: the slots without room for a segment (above).
- `transport_confused`: a late copy of segment 1 and a file that begins with
  digits. The receiver waits for 10 and takes two characters for the number; the
  datagram has the 1 and the 0 that follows it, and bytes of the first segment are
  written where those of the fourth belong. With `MSS` 1472 it takes a file that
  begins with 473, and number 1473, the second. The number 1473473 begins
  with 1473: in files of 1.5 MB this needs no digits of the file, but a window that
  reaches from the one segment to the other.
- `transport_digits`: nine bytes, or 9999. `recvfrom` is given room for the digits
  of the awaited ack, at most those of `bytesToTransfer`; the ack of the last byte
  is one more, 10 or 10000, and is cut to 1 or 1000, which is an old ack. However
  often it is repeated, the sender never leaves its loop, on a network without
  faults.
- `routing_new_node`: a change links a node that the topology file does not
  name. distvec finds it at distance 0 from everywhere and routes over it.

The first counterexample is possible in every transfer whose round trip is longer
than the timeout; properties of `transport` are about all behaviours, with those
deaths among them.

## 5 What is proved

The theorems hold for every value of the constants that satisfies the named
assumptions of the modules. Every safety property of section 3 is proved, some
under a condition that is stated with them.

### Transport

`Transport_proofs`, for every `MSS`, file length, file contents, numeral system
that satisfies `NumeralAssumption` (numerals differ and a numeral cut short is
that of a smaller number), slot size and bound:

| theorem | property |
|---|---|
| `TypeCorrect` | `TypeOK` |
| `AcksAreSound` | `AckSound` |
| `SegmentsAreNamed` | `SegmentsNameTheirBytes` |
| `IndexIsInBounds` | `IndexInBounds` |
| `AcksMoveForward` | `AcksAdvance` |
| `DuplicatesAreCounted` | `DuplicatesCounted` |

The inductive invariant `IInv` adds to these that the file position is one less
than `NEXT_BYTE_TO_SEND`, which is at the beginning of segment `BUFFER_IDX` or
past the end (`SendInv`); that every segment on the wire ends inside the file
(`SegmentInv`); that `LAST_ACK_RECV` is at least `num_pkts_acked` segments in
while the loop runs (`LoopInv`); and that the receiver waits for the byte after
the last it has (`ReceiverInv`). `AckSound` is not inductive without
`ReceiverInv` and the lemma `ReadingBounded` (a cut ack is no larger than the
ack); `IndexInBounds` follows from `LoopInv` by the arithmetic of `SegmentIndex`.
`AcksAdvance` is an action property and follows from the same invariant, step by
step (`ProgressStep`); `DuplicatesCounted` is inductive together with `TypeOK`.

`Decimal_proofs`: `NumeralsAreText` shows that the numerals of any base satisfy
`NumeralAssumption`, so the theorems above and below are about the decimal numbers
that the programs write. That a numeral is unique and that its prefixes are
those of the quotients is shown by taking the least number of which it is wrong;
that the recursive function `Numeral` satisfies its equation at all, likewise
(`NumeralsUpTo`).

`Delivery_proofs`, for the same constants, slots of any size among them:

| theorem | property | where |
|---|---|---|
| `NumbersAreTold` | `NeverConfused` | |
| `PrefixIsDelivered` | `PrefixDelivered` | plain file and numbers; as long as `SegmentsUnharmed` |
| `FirstBytesAreDelivered` | `PrefixDelivered` for the bytes of the first segment | plain file and numbers |
| `SmallFileIsDelivered` | `PrefixDelivered` | plain file of one segment |
| `FinishedIsDelivered` | `FinishedMeansDelivered` | plain file and numbers |
| `ImplementsStream` | `IsStream` | the same; not one over a multiple of `MSS`; `[]SegmentsUnharmed` |
| `SmallFileImplementsStream` | `IsStream` | plain file of one segment, not of one byte |

*The two conditions.* They are about what the user transfers, and the program is
wrong without them (section 4, `transport_confused`). Every file without digits is
plain (`LettersArePlain`), whatever its length and contents. Numbers
are plain, in the decimal text that the code writes, in every transfer shorter
than `Base * (MSS + 1) - 1` bytes (`FewSegmentsArePlain` in `Decimal_proofs`), which
is 14729 for segments of 1472 bytes; `PlainNumbers` itself holds for most lengths up
to 1.5 MB, where it fails if the ack of the last byte begins with the number of
a segment. Nothing is assumed of the slots.

*The slots.* The copies that run over them spoil new segments, so `PrefixDelivered`
is false in the code as soon as there are two (`transport_overrun`).
`SegmentsUnharmed` says that none of the segments on the wire has been spoiled;
`PrefixIsDelivered` shows that this is the only way in which the receiver's file goes
wrong, in every state, and `SmallFileIsDelivered` that for one segment nothing can.
How many bytes arrive, and when FIN may be sent, does not depend on it
(`FinishedIsDelivered`).

*The argument.* The inductive invariant `DInv` says that a segment is whole or ends
the file and is at most one byte longer (`LengthInv`); that every number on the
wire is one of `SegmentNumbers` or of a byte that the receiver has, since a
retransmission may go by an ack that was cut (`SequenceInv`); that as long as the
receiver waits for number 1, which may begin any other, there is nothing else on
the wire, as it has sent no ack and without one there is only the first segment
(`StartInv`); that the receiver has whole segments or all of the file
(`WrittenInv`), and in their places if none was spoiled (`PlaceInv`); and that
FIN, wherever it is, means that `LAST_ACK_RECV` is at least `bytesToTransfer`
(`FinInv`), from which `AckSound` gives all but one byte and `WrittenInv` the last
one. A datagram that reads as the awaited number is then the awaited segment: an
older one would be completed by bytes of the file, a newer one begin with the
number of another. The refinement maps an accepted segment to `Deliver`, a new ack
to `Confirm` and the receipt of FIN to `Close`.

### Routing

`Routing_proofs`, for every finite set of nodes, of costs that `Infinity` has room
for, and every messages file:

| theorem | property |
|---|---|
| `LinksKeepAgreeing` | `LinksAgree` |
| `RoutingTypes` | `TypeOK` |
| `TablesHoldShortestCosts` | `CostsShortest` |
| `SettledNodesAreFinal` | `SettledIsFinal` |
| `EachRoundAddsALink` | `RoundsAddLinks` |
| `MessagesTakeShortestWalks` | `WalksAreShortest` |
| `MessagesDoNotLoop` | `WalksDoNotLoop` |
| `RoutingIsService` | `IsService` |

All but the first assume `NewRouters = {}`: no change names a node that the
topology file does not. Without it they are false, as `routing_new_node` shows.

*Paths* (`Paths_proofs`). The reference is `MessageService!Shortest`, the least
cost of all sequences of different nodes along links. What the algorithms rely on
is proved about it: the last link of a best path leaves a best path of one link
less (`BestLastLink`), one more link costs no less (`BestTriangle`, `Triangle`), a
walk reversed costs the same (`CostSymmetric`), and the cost of a node that can be
reached is that of the node before it on a shortest path, and one link
(`Predecessor`). `BestTriangle` is the case
that needs an argument, since a path extended by a link may come to a node again:
then what it is cut to is shorter (`CutWalk`). Costs are sums over sets, so these
rest on `Sums_proofs`.

*Tables.* The inductive invariant is `TablesInv`. For a row of linkstate under
construction (`DijkstraRow`): settled nodes have their final cost, no other is
below it, and each link of a settled node has been used. A
node that is left and has the least cost in the row has its final cost, since of
the nodes that are left the one that is nearest has a settled node before it,
whose link has been used (`LeastLeft`); `findLowestCostNode` returns one of these, if any
can be reached (`LowestCost`). For a
row of distvec (`FordRow`): after `r` rounds it is between `Cost` and the best path
of `r + 1` links, although the relaxation is in place, and the edges of the present
round that are no longer in `todo` have been used. For both, `HopsRight`: the
next hop is a neighbour from which the rest costs what the row says, which holds
before the row is final and does not depend on how ties are broken. And
`NextTo`, for the ties of linkstate: until its turn has come, a node has its
neighbours as their own next hops.

*No sum wraps.* In linkstate only final costs are added. In distvec rows are not
final; `RowBound` bounds each entry by the greatest cost times the number of nodes
that have been reached so far, less one, and `TopologyAssumption` keeps that under
`Infinity` (`FordRoom`).

*Messages.* `ServiceInv` adds that the answers are those to the lines read so far,
and that a message is on a walk (`OnTheWay`) each hop of which lowers the cost
that remains; costs of links are at least 1, so no node comes again
(`MessagesDoNotLoop`) and the walk without a bound ends. The refinement maps the
printing of the tables to `PrintTable`, the last hop of a message (or reading one
that has arrived already) to `Answer` and a line of the changes file to `Change`;
everything else stutters.

### Csma

`Csma_proofs`, for every number of stations, packet length, list of ranges and
number of slots: all its invariants, and `ImplementsMedium` (`IsMedium`).

`TypeOK`, `SlotsAccounted`, `OneSender`, `RangeFollowsCollisions`,
`BackoffInRange` and `AttemptsAccounted` are inductive together once they say what
the second half of a pass may rely on (`PassInv`: there is a slot left and the
transmission under way is not complete, without which `pkt_bits_sent` would pass
`L`). `BackoffInRange` needs `OneSender` (a station that ends its transmission is
the only one to draw) and `RangeFollowsCollisions` (the index stays below `M`,
where `R` has a range). `ImplementsMedium` follows from the same invariant: a
completed transmission releases the channel, a busy slot keeps it, a start
acquires it and every other step leaves it alone.

`UtilizedByTransmissions`, `CollisionsShared` and `ReportAddsUp` speak of sums over
the stations and are inductive as `StatInv`: a success adds `L + 1` in one place
(`CompleteStat`), a collision one for each station that is ready, which are two at
least and all at most (`CollisionStat`). That the variance, computed from the
distances from the average, is that of the differences of all pairs is
`VarianceBySpread`, from both being the same function of the sum and the sum of
squares.

### Http

`Http_proofs`, for every number of clients, file, piece, buffer and request length:

| theorem | property |
|---|---|
| `TypeCorrect` | `TypeOK`: no client's buffer overflows |
| `OnlyOwnConnection` | `OwnConnectionOnly` |
| `NoSignalIsLost` | `EndedIsAnnounced` |
| `OutputIsTheFile` | `OutputIsFile` |

`OwnConnectionOnly` needs that the parent holds no connection but the one it has
just accepted, and none when it accepts the next (`HoldersInv`).
`EndedIsAnnounced` is inductive as it stands: a child's end sets `sigchld`, only
entering the handler clears it, and the handler is left when no child is to be
waited for. With fairness it is why `ChildrenReaped` holds.

The assumption of `OutputIsTheFile` is `ConnectionAssumption`: CR and LF differ and
the words of a status line contain neither; the file may hold anything. The
inductive invariant `OInv` follows the bytes of each response `Whole(code)`:
from byte `b` on they are about to be sent and then still in the file, those
from `a` to `b` are under way, and the first `a` are with the client, as flags
while it is in the header and as `output` and `buf` after it (`Response`, `Taken`).
Besides that it needs that nothing has been sent before a child answers
(`Silent`), that a child whose client is there ends only when it has sent
everything (`Ended`), and that a running child has its connection open and a
connection that has left the queue does not come back (`PlaceInv`): so what a
client takes for the end of the response is its end. `FlagsFollow` shows that the
four flags of `get_server_message` complete exactly at the fifth byte of a header.

### How, and what is not

*Folds, recursion, enumeration.* The library's induction theorems take a predicate
as a parameter, which the provers cannot instantiate. `Sums_proofs` states
induction over numbers and over subsets for a *set* of those that have the
property instead (`LeastNumber`, `NumberInduction`, `SubsetInduction`), which follows
from `WFMin` of the library. From these come the equations of the folds of the
community modules, the costs of walks of every length and the equation of `Numeral`.

*Only model-checked*: liveness under fairness (`FinDelivered`, `TransferEnds`,
`SenderFinishes`, `EveryMessageAnswered`, `ClientsEnd`, `ChildrenReaped`), which is
beyond this prover.

## 6 What is not modelled

- `talker` and `listener`: each sends or prints one datagram and ends; they keep
  nothing between two steps of which a property could speak.
- In mp1: URLs and names of files, other web servers than the one here, files whose
  contents change while they are sent, requests of more than 1024 bytes, the
  memory of a child that loops over a file (section 2).
- In mp2: the RTT estimate and what follows from times.
- Command lines, file formats, the wording of what is printed, and in mp3 the text
  of the messages (which is cut at the wrong place when the number of the
  destination has two digits).
- Input that the programs do not defend themselves against: `L`, `M` of 0 or too
  few ranges for csma; in mp3, removal by linkstate of a link that is not there,
  messages to or from nodes that no link names, and rows of nodes that only a
  change names. They are assumptions or guards, named where they are.
- Failures of the operating system other than those of `fork` and of mp1's `send`: `malloc`, `fopen`,
  `sendto`.

## 7 Plan

1. Proofs: the delivery of longer transfers than `PlainNumbers` covers, from a bound
   of what the sender has sent beyond `LAST_ACK_RECV`.
2. An abstract specification of the HTTP programs (a request is answered once, by
   a status and a part of the file), which `Http` implements.
3. Model: the header recogniser on responses of other servers (several lines).
