# Verification of the 457cs network programs

The repository holds the programs of a networking course: each `project*` directory is one
small distributed system, `labs/` and `cryptotest/` are exercises.  This directory models
them in TLA+, checks the models with TLC on small instances and proves the main results with
TLAPS for every instance.

The reliable file transfer of `project2` is the part with the most logic (a sliding window
over cyclic packet numbers, retransmission, a lossy network), and it is modelled, checked and
proved here.  So are the virtual router of `project3`, the learning switch of `project2`'s test
bed and the UDP echo programs of the labs.  The threaded file server of `project1b` is modelled
and checked, and what can end its process is proved.  What is left out, and why, is in section 5.

## 1. Inventory

| system | programs | state | operations | what is hard |
|---|---|---|---|---|
| Reliable UDP transfer | `project2/server.cpp`, `project2/client.cpp` | two windows, two out-of-order stores, counters, the file | send name, send length, fill window, acknowledge, resend, give up, write | loss, duplication, reordering, corruption; ten numbers for any number of packets; timeouts that race answers; a dead peer |
| Test bed | `project2/mininetsetup.txt`, `project2/packetcorrupt.py` | what is in flight; the switch's table of ports | netem faults, bit flips, learning and forwarding | it injects the faults above; a table that is stale when a host moves, flows that are dropped for a while |
| TCP file server | `project1b/tcpserver.c`, `tcpclient.c` | one thread per connection, a shared stack variable, the byte streams, the descriptors of the process | List, Quit, fetch a file | threads that share a stack variable; requests and answers without frames; descriptors that are reused or leak; a signal or `exit` in one thread ends all |
| Virtual router | `project3/router.cpp` (and its first version `newc.c`) | interface table, routing table, a blocking wait for ARP | answer ARP, answer ICMP echo, look up the next hop, ask for its address | a wait that takes any frame for its answer and has no timeout; checksum arithmetic over a buffer that is not yet filled; a lookup that compares 24 bits whatever the prefix; frames of the host's own kernel |
| Encrypted chat | `project4/server_threaded.java`, `client_threaded.java`, `cryptoblob.java` | maps shared by the handlers, one thread per client, one key per client | key exchange, list, broadcast, chat, boot | who closes a socket when (`receiveEncrypted()` closes it in its `finally` after every message, so the commands behind it meet a closed socket); ids that become holes after a boot; check-then-act on shared maps |
| Labs | `labs/lab3`, `lab4`, `lab5`, `labs/java` | sockets, a listener thread | echo and chat | a receive timeout that is only printed, lost datagrams; a few copies exist under several names |
| Cryptography sample | `cryptotest/cryptotest.java` | none | library calls | nothing a model would show |

How the parts of project2 interact: the client sends the name of a file in one datagram; the
server sends the length in one datagram and then packets numbered 1..10 cyclically, at most
five in flight; the client writes packets whose number it expects next, buffers those whose
number is in its window, and acknowledges every packet by its number; the server slides its
window on the acknowledgement of the front packet, stores the other numbers, and sends the
front packet again after a receive timeout.  Both programs are single-threaded loops; all
concurrency is between the two processes and the network.

How the parts of project1b interact: `main` accepts a connection, puts its socket in `ci` and
starts a thread with the address of `ci`; the thread copies it and serves requests until
`recv` fails.  A list is an int and that many names, a file an int and that many bytes.  All
threads share the process: its descriptors, and its end.  What makes it correct: each thread
serves the connection it was started for; a client gets exactly what it asked for and nothing
of an answer is left for the next; no client's behaviour ends the service of the others.

What makes project2 correct: the file that is written is the file that was read; the server says
"File transfer complete" only when the client has all of it; the window moves only over
blocks the client has; nothing of one lap of the numbers is taken for something of another;
the server stops in the end, whatever happens to the client; and it never pops an empty queue.  Of the switch: its table is as new
as what it was shown, and hosts that move can be reached again.

How the parts of project3 interact: the router reads raw frames on one interface (`eth1`),
answers ARP and echo requests for its address there, and for any other packet sends an ARP
request on the interface of the route and waits on that interface's socket for one frame.  The
neighbours are Linux hosts; the router's own kernel sends frames, too, and the packet sockets
see them.  What makes it correct: no neighbour learns a wrong address; echo requests are
answered each once, in order and with their data; ARP requests go out on the link of the
longest prefix; and a request for its address goes unanswered only if a wait takes it for the
reply it waits for, or does not end.

How the echo programs interact: a client sends a line and waits for a datagram; the server
sends each line back to where it came from, and its empty buffer to the last client whenever
five seconds pass without a line.  What makes them correct: a client gets its own lines, in
order, none twice.

## 2. Modules

| module | models | state |
|---|---|---|
| `SeqSpace` | the packet numbers (`nextSeq`) and the byte-order conversions | none |
| `UdpNetwork` | the UDP path: a bounded sequence of datagrams in each direction; the faults of the test bed | `toClient`, `toServer`, `faults` |
| `RudpServer` | `server.cpp` | `srvWindow` (`windowQueue`), `srvOutOfOrder` (`outOfOrder`), the counters, `srvState` (where `main` stands) |
| `RudpClient` | `client.cpp` | `cliWindow`, `cliOutOfOrder`, the counters, `cliState`, `file` (what `fwrite` was given) |
| `RudpTransfer` | server, client and path together, with the properties | all of the above |
| `FileTransfer` | the abstract specification: blocks are written in order, success means all are written | `out`, `verdict` |
| `RudpFifo` | the composition over a path that keeps order and bits, between little-endian hosts, and the inductive invariant | as `RudpTransfer` |
| `UdpNetworkProofs` | lemmas about packet numbers, byte order and channels, for the next two | |
| `RudpProofs` | the proofs about `RudpFifo`: files of any length | |
| `RudpLapProofs` | the proofs about `RudpTransfer` for files of one lap of the numbers: `reSend()` over any path, the rest over a path that also reorders | |
| `MCRudp`, `MCRudpFifo` | what the configurations instantiate | |
| `FileSockets` | what the system keeps for project1b: descriptors, backlog, the two streams of a connection, the directory | `fds`, `backlog`, `requests`, `answers`, `peer`, `closed`, `dirSize`, `up` |
| `FileServer` | `tcpserver.c`: `main` and the threads | `mainAt`, `ci`, and per thread `pc`, `fd`, `sock`, `line`, `file`, `left` |
| `FileClient` | `tcpclient.c` | `cpc`, `want`, `got`, `due` |
| `FileService` | server and clients together, with the properties | all of the above |
| `FileLibrary` | the abstract specification: who asks gets exactly that, whole | `asked`, `given` |
| `FileServiceProofs` | the inductive invariant of the composition, and the proofs | |
| `FileLibraryProofs` | the invariant of hand-over, answers and descriptors, and the proofs that rest on it | |
| `MCFileService` | two clients and one file for the configurations | |
| `LearningSwitch` | `packetcorrupt.py`: the controller, the flows the switch drops, hosts that move | `macToPort`, `held` (`hold_down_expired`), `packetIns`, `messages`, `dropped`, `location` |
| `SwitchProofs`, `MCLearningSwitch` | its proofs and its instance | |
| `Router` | `router.cpp`: the main loop, the checksum loop, the wait | `socks`, `inbox`, `at`, `waitOn`, `resp`, `stale`, `i`, `acc` |
| `RouterNetwork` | the neighbours' kernels and the router's own, with the properties | `cache`, `sent`, `pinged`, `echoed`, `kernel` |
| `RouterProofs`, `MCRouter` | its proofs; r1 of the test bed with its table | |
| `UdpEcho` | `labs/lab5/server.c` and `client.c` over a lossy path, with the properties | `requests`, `line`, `clientaddr`, `inbox`, `state`, `entered`, `answers` |
| `UdpEchoProofs`, `MCUdpEcho` | its proofs; two clients | |

`RudpServer` and `RudpClient` both extend `UdpNetwork`; `RudpTransfer` extends both and
composes them by interleaving, one program step or one fault at a time.

### From the code to the model

Server actions: `RecvName` is `main` from its first `recvfrom` to the `sendto` of the length.
`FillWindow` is one iteration of the loop in `fillWindow()`.  `RecvAck` is a call of
`recvAck()` that receives a datagram, with everything `checkOutOfOrder()` pops (`Drains`
states what the recursion does, and the last call's read of `front()` is in the action).
`Timeout` is a call of `recvAck()` that returns -1, and the `reSend()` after it.  They are
enabled in the order of the main loop: `fillWindow()` has to be done before `recvAck()` runs.

Client actions: `SendName`; `RecvSize`, with the first `fillWindow()`; `RecvInOrder`, an
iteration of `recvFile()` for a packet with the front's number, with everything
`checkOutOfOrder()` writes behind it, all the acknowledgements, and the ten extra copies and
the `exit()` of `sendAck()`; `RecvOutOfOrder`, the other branch; `ClientCrash`, from outside.

Data: a datagram is its first four bytes as an int (`num`) and the number of the block of the
file it carries (`blk`).  The four bytes are all that either program interprets, and because
they are an int in the memory of the hosts, the missing or misplaced `htonl`/`ntohl` calls of
the code are visible in the model: a packet carries its number unconverted, an
acknowledgement converted, and `outOfOrder.insert(seq)` stores it unconverted.  On an
acknowledgement `blk` is auxiliary: it says which block it is about, and the server never
reads it.  `file` records the block that was written, so "the file is right" is
`file[i] = i`; a damaged block is `Damaged`.  `bytesWritten` and `totalBytes` follow the
code's arithmetic, so the length of the last write is checked too.  `tries` is auxiliary: how
often the present front packet has timed out.

Undefined behaviour: `front()` of an empty `std::queue` reads old memory, here any number a
packet can have (`FrontOf`).  `pop()` of one leads to the state `"undefined"`, from which the
loop of `main` goes on (`GoOnUndefined`): `ackCounter` has passed `totalPackets`, so the test of
line 155 is not met again; each round reads a datagram or sends what `front()` reads, for ever
or until the server is `"lost"`, by a crash or after any of its messages.

### project1b: from the code to the model

A thread's step is one system call, because between any two of them another thread may run,
and what they share is the process: `CopyInfo` is the copy of `*arg`, which is `ci` as it is by then; `CallRecv` and
`RecvRequest` / `RecvNothing` / `RecvReset` are the call of `recv` and its return (a thread
that is blocked stays on the connection its descriptor had at the call, whatever is closed
meanwhile); then come the branches of the code: `CloseClient` for Quit, which falls through to
the files as the code does; `OpenFile`, `SendSize`, `SendBody`; `SendCount`, `Rewind`,
`SendName`.  `main` is `MakeSocket` (the socket that is never used), `CallAccept`, which takes
a descriptor before it waits, as Linux does, `Accept` or `AcceptFails`, and `CreateThread`.
`Threads` bounds the threads that are alive at a time: `main` waits for a free one.  That
`pthread_create` fails, which lines 182-183 ignore, is left out.

Descriptors are numbers, the lowest free one is taken, and what each is for is in `fds`; the
directory of a list is never closed in the code and never in the model.  `send` on a socket
that is not connected or was reset ends the process (SIGPIPE), as do `exit(1)` and the
`rewinddir` of a directory that was not opened.  `recv` of 0 leaves the buffer as it was, and
a buffer or `stat` never filled has any value.

A stream is a sequence of units of four bytes: an int, a name, a piece of a file.  A `recv`
returns any number of the units that have arrived, so messages run together as on TCP; that
one send is split inside a unit is left out.  The client reads an int and then units until it
has counted enough.

### project3: from the code to the model

The main loop is one action per branch: `Ignore` (a frame of the router's own kernel, marked
PACKET_OUTGOING), `SendArpReply`, `IgnoreArp`, `StartEcho`, `DropPacket`, `SendArpRequest`.  An
echo reply takes as many steps as its checksum has words: `StartEcho` copies the headers,
`SumWord` is one iteration of `checksum()`, `SendEcho` sends.  The branch of `checksum()` for an
odd length never runs, because a reply has 98 bytes.  The loop sums the data part of the reply
before line 521 fills it, so `stale` is any data, and the checksum fits what is sent only if the
two have the same sum; what a neighbour counts as `echoed` has reached it but has not passed
that test.  `SendArpRequest` and `EndWait` are the two halves of `send_arp_request()`; between
them the main loop stands still, while frames arrive.  A packet socket does not see what is
sent on it.

`rmap` is the table as the program keeps it: keyed by what `inet_addr()` makes of the first eight
characters of a line (`Key`), a later line replacing an earlier one with the same key, the prefix
length forgotten.  Eight characters hold an address like 10.1.0.0 whole; of 10.10.0.0 they hold
"10.10.0.", which is none, of 10.100.2.0 "10.100.2", which is 10.100.0.2, and so on.  A table may
have any lines, in any order, with any octets and lengths of 0 to 32 bits.  `Prefix` is the lookup key
(line 541 reads a fourth octet written one past `pre`, taken to be the 0 that was put there).
`BestRoute` is the longest-prefix rule that the program does not implement; it occurs only in
`AsksOnRoute`.  Whatever is not ARP is taken for ICMP, as in the code.  Left out: header fields
and lengths that neither end reads, the checksum of requests, the `dha` of ARP frames.  r2 is
the same program with an empty table; here it is the silent neighbour of `eth0` that
`setup.py` makes of it (`arp_ignore`).  A request for an address of another host would start a
search that is commented out (line 470), so it is passed over.

### The learning switch: from the code to the model

`HandlePacketIn` is `_handle_PacketIn()` with its answer (`Answer`), the nested `flood` and
`drop` included; `HoldDownExpires` is the time that line 116 compares; `Obey` is the switch
carrying out a message, `Expire` the timeouts that line 175 gives a dropped flow.  Controller
and switch talk over one TCP connection each way, so messages keep their order.  A flow is a
pair of addresses: `ofp_match.from_packet()` without a port matches frames of the pair from
any port.  (That flow also programs the switch, which the module's docstring, line 18, says
never happens.)

A datagram without payload would raise an exception in lines 104-105, before the table learns; the
programs of `project2` send none (`client.cpp:83,90,178,245`, `server.cpp:78,259`), and neither
`Corrupting` nor `HandlePacketIn` has that case.

### The echo programs: from the code to the model

`Echo` is a round of the server's loop with a line, `Timeout` one without: the error is printed,
whatever is in the buffer goes to the address of the last line, the buffer is cleared.  Before
the first line both are uninitialised and the datagram reaches no client.  `Enter`, `GetAnswer`
and `Exit` are the client's loop.  The end of the standard input, at which a client sends an
empty line for ever, is not modelled.

## 3. Runs and bounds

All runs use a window of 2 and 4 packet numbers for the code's 5 and 10: the ratio, which is
what the properties depend on, is the code's.  `MaxResend` is 2 for 15 and `FinalAcks` 1 for
10.  `ChanCap` bounds a direction to 3 or 4 datagrams (a full receive buffer drops, as UDP
does, so this bound is also a fault), `MaxFaults` the number of injected faults.  A file of
4864 bytes is five packets, one more than the numbers, so that a number comes back while an
acknowledgement or copy of its first use can still be there; a file of 2560 bytes is three
packets, the last one short, so one number is never used.  `CHECK_DEADLOCK FALSE` everywhere: the programs end, or wait for ever for
a request that is lost or that nobody has to send.

| run | faults | shows |
|---|---|---|
| `fifo` | lose, duplicate, crash | 5 packets. `FilePrefix`, `AckedWritten`, `BufferOfThisLap`, `CompleteMeansWhole` (success means that a client which was told the right length has every byte and has exited), the refinement `ImplementsTransfer`, and the inductive invariant `FifoInv` that the proofs use |
| `short` | lose, duplicate, reorder | 3 packets: without a second lap the transfer is right under reordering too (`FilePrefix`, `AckedWritten`, `CompleteMeansWhole`, `ImplementsTransfer`), the server gives up only when the front packet has had its tries (`GiveUpEarned`), and it never pops an empty queue (`NoEmptyPop`) |
| `stops` | all five | `ServerStops` under fairness: a server that sends completes or gives up, unless it pops an empty queue |

Each property of these runs is also checked against a mutant of the code's model (PROJECT.json):
no wrap-around of the numbers, an entry left in the client's map, an acknowledgement accepted
for any number, a packet of any lap let into the window, and so on; each is caught.

One run shows what the code does against what it says (`expect: violation`):

* `v_reorder`: a late copy of a packet is taken for the packet with its number a lap later
  (client.cpp:180).  With `fifo` and `short` this marks the boundary: the protocol is right
  for short files under any order, and for every file when the order is kept.

`ServerStops` is stated for behaviours in which `NoEmptyPop` stays true, because in the run
`stops` it does not: a flipped bit makes an acknowledgement that `recvAck()` stores in the form
`checkOutOfOrder()` looks for, and when the last packet is acknowledged the stale front of the
empty queue can have that number (server.cpp:118-124).  From there the server's loop need not end,
and `ServerStops` claims nothing.  Without flipped bits `NoEmptyPop` is checked in `short`, where a
mutant that stores what it looks for breaks it, and proved for every file over a path that keeps
order and for short files over one that reorders (section 4).

Four more things the models show have no run of their own:

* `recvAck()` stores early acknowledgements in network byte order and `checkOutOfOrder()` looks
  for them in host order (server.cpp:164, 118).  On the hosts of the shipped binaries nothing
  stored is ever found.  The transfer still works, because packets acknowledged early are sent
  and acknowledged again; with `LittleEndian = FALSE` the set works as its comments say.
* The length is sent once.  If it is lost (`"lose"` in `Faults`), the client reads the number of
  the first packet as the length (client.cpp:251) and waits for ever, and the server may end with
  "File transfer complete".  `CompleteMeansWhole` is stated for the right length.
* The resend counter is not reset when the window moves (server.cpp:103), so resends of
  different packets with one number add up to "Client probably is dead": `GiveUpEarned`, which
  holds in `short`, fails without any fault for a file of five packets (`FileBytes = 4864`).
* With `"corrupt"` in `Faults`, `FilePrefix` fails: the client's checksum compares a digest with
  itself (client.cpp:64).

The runs of project1b have two clients, one file of two units, a directory of three names and
two threads.  `MaxAsks` bounds the entries of both clients together.  `Crowd` says whether a
client may connect while another is being handed over, `MaxFd` how many descriptors the
process has: 10 or 12 are enough for everything the clients of that run can do, 5 are
exhausted by two connections.  The clients are symmetric in `file_goodbye`.

| run | clients | shows |
|---|---|---|
| `file_service` | come one by one and stay; two entries, so a list and a file of one client or of two | `NothingLeftOver`, `SizeComesFirst`, the refinement `ImplementsLibrary`, and `FetchEnds` under fairness |
| `file_goodbye` | come together, quit, are killed, ask for missing files; few descriptors; a directory that grows | `DiesOnlyAfterGoodbye`: as long as nobody has gone, nothing ends the process but listing a directory that could not be opened; `LatestServed`: when every thread has copied its socket, the connection that was accepted last has a thread, as long as its client is there |

Two runs show what this code does against its comments and prompts:

* `v_handover`: a second connection before the first thread has copied `ci`
  (tcpserver.c:182); "solved by semephores and locking" (179) is not in the code.  With the
  descriptors exhausted the same happens to a client that comes alone, because `accept`
  then fails without waiting and overwrites `ci`.  What is left of the hand-over is
  `LatestServed`, which holds in the middle of that race: what the single `ci` loses, it loses
  to a later connection, and the last one has two threads rather than none.
* `v_quit`: the thread of a client that quits ends the whole process (48-105).

`SizeComesFirst` also fails where its run does not go: with `SharedDir = TRUE` and three entries a name made
between the two passes over the directory (58, 67) stays in the stream and is read as the next
size; with `"Quit"` in `Asks` the thread of a client that has quit may answer on a descriptor
that belongs to a new connection.

The other systems:

| run | instance and bounds | shows |
|---|---|---|
| `router` | r1 with its three interfaces and its table; h1 on `eth1` sends four frames of its own (ARP requests for the gateway or an address nobody has, echo requests to the router, h2, h3, h4 and the broadcast address of its own link), the others one each, r2 never answers, the router's kernel sends one; a word has four values (`Base`), an echo three words and one of data | `CacheRight`, `ChecksumCloses`, `AnswersInOrder`, `AsksOnRoute`, the inductive invariant `RouterInv`, and `AnsweredUnlessTaken` under fairness |
| `switch` | two hosts, two ports, three moves, two frames on the way to or from the controller, with a hold-down | `TableCurrent`, and `ReachableAgain` under fairness |
| `echo` | two clients with three lines each, sockets of two datagrams, one loss | `OwnLinesInOrder`, `OneBehindPerBlank`, the inductive invariant `EchoInv`, and `WaitEnds` under fairness |

Four frames are enough for h1 to resolve its gateway, have a packet routed and two echo
requests wait behind it, and one of them meet the kernel's frame; the proofs remove the bound.
h4 is 10.3.1.201, which the table's 10.3.0.0/16 covers and the program drops.  A packet to
10.1.0.255 needs no ARP of h1's and takes line 2 of `r1-table.txt`, so that the router asks and
waits on `eth1` itself, where the next request for its own address then ends the wait.  With four values
a word overflows, carries and wraps.  Three moves bring a host to the other's port, away, and
back.  Three lines of a client are one that gets a blank answer, one whose answer comes late,
and one that shows that the client stays behind.

`v_wait` (`expect: violation`): any frame that is in the socket ends the wait with "Recieved
responce from arp request" (router.cpp:130-134), such as the neighbour's own ARP request for
the router, which is thereby lost.

What the liveness runs say of the waits: `AnsweredUnlessTaken` has two halves.  Requests for the
router, ARP and echo, get lost only in the step that ends a wait on `eth1`, which is where line 131
takes them for the reply; and if the router returns from `send_arp_request()` again and again,
nothing stays on the way for ever, so that what was not taken is answered.  With a silent next hop
it may stay there for ever.  `WaitEnds` holds because of the server's blank datagrams: a client whose line was lost
waits for ever unless it is the last the server heard of.

### Fairness

`FairSpec` assumes one thing: the server process keeps running (`WF` of its next step).  It
always has one while it sends: `setsockopt(SO_RCVTIMEO)` (server.cpp:191-196) makes
`recvfrom` return with a timeout if nothing arrives, and the user enters that timeout in
seconds; an entry of 0 would block for ever and is excluded.  Nothing is assumed of the
client or of the network; `ServerStops` holds although both may fall silent.

`FairSpec` of `FileService` assumes that the system schedules `main` and every thread, and
that a client goes on reading the answer it waits for.  Nobody has to connect or ask.  The
next step of a thread is never disabled by another actor for longer than it waits for input,
so weak fairness is enough.

`FairSpec` of `RouterNetwork`: the router's process runs, and the neighbours' kernels read what
arrives; nobody has to send.  Of `UdpEcho`: the server runs and its timer fires (5 s without a
line), clients read what has arrived; nobody has to enter a line.  Of `LearningSwitch`:
controller and switch run, their timers expire, and hosts keep sending to each other (strong
fairness, because the bound on frames on the way disables a sender again and again).  The last
is an assumption about the hosts and not about the code: the table learns only from what is
sent.

## 4. Proofs

### The reliable transfer

`RudpProofs` proves, from `SeqSpaceAssumption`, `UdpNetworkAssumption`,
`RudpServerAssumption`, `RudpClientAssumption` and `FifoAssumption`:

| theorem | statement |
|---|---|
| `FifoInvariant` | `Spec => []FifoInv` |
| `TypeCorrect` | `Spec => []TypeOK` |
| `FilePrefixAlways` | `Spec => []FilePrefix` |
| `AckedWrittenAlways` | `Spec => []AckedWritten` |
| `BufferAlwaysOfThisLap` | `Spec => []BufferOfThisLap` |
| `CompleteAlwaysMeansWhole` | `Spec => []CompleteMeansWhole` |
| `NoEmptyPopAlways` | `Spec => []NoEmptyPop` |
| `TransferImplemented` | `Spec => ImplementsTransfer` |

for every window and number space with `2 * WindowSize <= NumMod < 128`, every file of 128
bytes to 16 MB, every channel capacity and any number of losses, duplications and crashes.
`FifoAssumption` excludes reordering and corruption, for which the runs above show the
properties false, and lengths that could themselves be a packet number.

The properties are not inductive.  What they rest on is that a packet number identifies a
block among all those it could be confused with.  `FifoInv` says why: the server never sends
a block that is `WindowSize` or more ahead of the first block not acknowledged, every
acknowledgement in flight is about a block the client has written or holds, and along each
channel, and from one channel to the other, nothing is `WindowSize` or more blocks behind
what precedes it (`Ordered`, `Before`).  Loss and duplication thin out a channel or repeat
parts of it and keep that order (`ThinsKeeps`).  Two blocks with the same number are at least
`NumMod >= 2 * WindowSize` apart (`NumOfSame`), so a number that matches the front of a window
belongs to the front's block (`PacketNumbers`, `AckOfFront`).

Layout of the proof: arithmetic of the numbers and of the byte order; channels; then one lemma
per action (`FifoRecvName`, `FifoFillWindow`, `FifoRecvAck`, `FifoTimeout`, `FifoSendName`,
`FifoRecvSize`, `FifoRecvInOrder`, `FifoRecvOutOfOrder`, `FifoClientCrash`, `FifoNetwork`);
`FifoStep`; the theorems.  In `FifoRecvInOrder` the hardest step is that nothing is left
buffered for the new front of the window (`StillBuffered`): either `checkOutOfOrder()` would
have gone on, or the client has reached the last packet it expects, which is then no earlier
than the server's last.  The refinement maps the written blocks to `out` and the way the
server ended to `verdict`; only `RecvInOrder` writes and only `RecvAck` and `Timeout` end.
`CompleteAlwaysMeansWhole` adds what the client counts (`ClientCounts`): what it has written and
what it still expects make up the packets of the length it was told, and it exits when nothing
is left to expect; with `FifoInv`, which puts the server's acknowledged blocks behind the
written ones, a server that has everything acknowledged has a client that has exited.

`RudpLapProofs` is about files of one lap of the numbers, over a path that does not keep order.  It
proves `GiveUpAlwaysEarned`, `OneLap => (Spec => []GiveUpEarned)`, for the
composition over a path with any faults, reordering and flipped bits included.  `OneLap` is
`0 < Total /\ Total <= NumMod`, and both bounds are needed: the server of an empty file gives up
with nothing to wait for (server.cpp:155), and in a longer file the resends of two packets with
one number add up, because the counter is not reset when the window moves.  Within a lap a
packet's number is its block (`QueueOfOneLap`), so the packet the counter was last moved by is
the front one or one that is acknowledged and never comes back to the front (`CountOfFront`).

For files that leave a number unused the same module proves the rest:

| theorem, under `ShortFile` | statement |
|---|---|
| `ShortFilePrefix` | `Spec => []FilePrefix` |
| `ShortFileAckedWritten` | `Spec => []AckedWritten` |
| `ShortCompleteMeansWhole` | `Spec => []CompleteMeansWhole` |
| `ShortNoEmptyPop` | `Spec => []NoEmptyPop` |
| `ShortTransferImplemented` | `Spec => ImplementsTransfer` |

`ShortFile` is `0 < Total /\ Total < NumMod /\ NumMod < FileBytes`, between little-endian hosts and
without flipped bits; loss, duplication, reordering and a client that dies are all allowed, and so
is any length the client may be told.  For the code this means files of at most nine packets and
of more than ten bytes.  A shorter file has a length that is also a number: a client that takes it
for a packet acknowledges it, the server stores it in network order, and what is stored can be
found by the stale front of the queue, as with a flipped bit.

Without order along the channels `Ordered` is of no use, and without laps it is not needed.
`LapInv` says instead that every packet in flight is named by its block (`InFlight`), that the
client's window names the blocks that follow what it has written as far as there are numbers
(`WindowOfLap`: behind the last number it wraps around and names blocks long written), and that
what is held back is in its own place and does not come before the end of what was sent
(`BufferOfLap`).  An acknowledgement in flight is of a block that the client has written or
holds, so the front packet, once acknowledged, is written: if it were only held back, the next
block would be both the one the client waits for and the one it holds (`FrontIsWritten`).  A
packet that is taken for the length announces more packets than there are numbers
(`WrongLength`), so that such a client writes the file and waits; that is why the theorems need
nothing about the length.

The bound is sharp.  With `Total = NumMod` (`FileBytes = 3600` and `MaxFaults = 3` in `short`)
`FilePrefix` is false: the length is lost, packet 1 is taken for it, and a late copy of packet 1 is
held back when the window has wrapped around to number 1; after the last block the client takes
that copy for a fifth one.

### The file service

`FileServiceProofs` proves, from `FileSocketsAssumption`, `FileServerAssumption`,
`FileClientAssumption` and `FileServiceAssumption`, and nothing else, for any set of clients, files, threads and
requests, any number of descriptors, and with clients that may leave, arrive together and
lengthen the directory: `ServiceInvariant` (`ServiceInv`), `FileTypesCorrect`,
`ServerDiesOnlyAfterGoodbye` and `LatestAlwaysServed`.

What ends the server's process is a `send` to somebody who has gone, a `send` on a descriptor
that is no connection, and the list of a directory that was not opened.  `ServiceInv` says why
the first two do not happen while no client has gone: every connection, in the backlog or in a
descriptor, is to a client that is there (`PeersStay`); nobody asks to quit, so no thread closes
a socket (`NobodyQuits`); every socket that `main` or a thread holds, the stale one it may have
copied from `ci` included, is of a connection, and a thread that serves a request holds one
(`HoldsConnection`); and the file a thread closes at the end is a file and no other thread's
(`HoldsOwnFile`), without which closing it could take a socket away.  `EndsInList` is the third
way to end.  Types need counters that stay above zero (`Counts`), the least free descriptor
(`Least`) and the greatest file size (`Greatest`), which are found by minimal counterexample.
The proof has one lemma for `main`, one for a thread and one for a client, each with a case per
action, for the types and again for `InOrder`.

`LatestAlwaysServed` rests on the race being one-sided.  `main` alone writes `ci`, and it makes a
thread after each write; that thread and any other that has not copied yet will copy what is in
`ci` then, and a thread that has copied the latest connection stays with it while its client is
there (`ServingGoesOn`): only an error of `recv` ends it.  `LatestKept` says that one of the two is
the case from the end of `CreateThread` on, with descriptors that are closed and used again in
the meantime (`ThreadOpensNothing`, `ConnectsOnce`).

`FileLibraryProofs` adds two hypotheses and proves what the clients get:

| theorem | statement |
|---|---|
| `ServiceAlways` | `Spec => []Service` |
| `NeverAnythingLeftOver` | `Spec => []NothingLeftOver` |
| `SizeAlwaysComesFirst` | `Spec => []SizeComesFirst` |
| `LibraryImplemented` | `Spec => ImplementsLibrary` |

`OrderlyUse`: clients come one after the other, ask for lists and existing files, stay, and run
outside the server's directory.  The runs `v_handover` and `v_quit`, and what is said of
`SizeComesFirst` above, show that without each of these the statements are false.
`EnoughDescriptors`: there are finitely many clients, and
`MaxFd > 2 * (Cardinality(Clients) + 1) + MaxAsks`.  The bound comes from the code: `main()`
calls `socket()` in each round for a descriptor it then overwrites by that of `accept()`
(`Spares`), so each client costs two descriptors and so does the round that waits; and a request
opens one file or directory, which for a list is never closed.  Without it `accept()` fails,
overwrites `ci`, and the client before it is lost.  The run `file_service` has two clients, two
requests and ten descriptors, one more than the least the hypothesis allows.

`Service` is inductive in four parts, each resting on those before it.  `HandOver`: at most one
client is between `connect()` and its thread's copy of `ci`, no two threads have the same
connection, and a client has one.  `Exchange`: a thread that has something to send sends it to
the client that asked (`Replies`), and what a client has read, what is in its stream and what
its thread has still to send make up exactly the answer to its request, unit by unit (`InTurn`).
`Accounts`: sockets that are never used, connections and open files are counted against the
rounds of `main()`, the clients and the requests, from which a descriptor is free whenever
`accept()` or `fopen()` needs one (`OneIsFree`).  `HandOver` in turn needs that `accept()` never
fails, so the parts are proved together (`ServiceKept`).  The refinement maps a client's last
request to `asked` and what it has read to `given`; only its reads and its requests are steps of
the library, and `WholeAnswer` says that a client that comes back to its prompt has all of it.

### The router

`RouterProofs` proves, from `RouterAssumption` and `NetworkAssumption`, for every
set of interfaces, every table, every word size and number of data words, any payloads and
bounds: `RouterInvariant` (`RouterInv`), `RouterTypeCorrect`, `CacheAlwaysRight`,
`ChecksumAlwaysCloses`, `AnswersAlwaysInOrder`, and for every table that is a `PlainTable` the
action property `AsksAlwaysOnRoute`.

`RouterInv` adds to the properties what they rest on.  `CacheRight` needs to know what is on
its way: every ARP frame to a neighbour names the router's addresses on that link
(`InboxRight`).  `ChecksumCloses` needs that `acc` is `total` up to multiples of `Base - 1` in
every iteration (`SumRight`) and never 0.  `AnswersInOrder` needs the way of an echo through
socket, buffer and inbox: each one there answers a request that was made (`EchoesRight`), and
everything in a later place is older than everything in an earlier one (`OrderRight`, on sets of
numbers).  That unmarked frames come from the neighbour is `SocksRight`.

`AsksOnRoute` is about what a lookup that knows no lengths does to longest-prefix routing, and it
is false of some tables.  `PlainTable` says of which it is true: no prefix has host bits or more
than 24 bits, of two lines with the same prefix the later is not the shorter, and a next hop is on
the link of the interface of its line.  Each condition excludes something the code reads: a
prefix like 10.1.1.0/16 is found for 10.1.1.x, which 10.1.0.0/20 may route elsewhere; 10.1.0.0/28 is
found for all of 10.1.0.x; and `ShorterLineWins` proves that a later, shorter line with
the same prefix replaces the longer one in `rmap`, which then routes its addresses
(router.cpp:325-329).  Nothing is assumed of which keys `Key` makes: for an address that is cut
in the fourth or the third octet the key ends in a number that `Prefix`, whose fourth octet is
0, does not have, or is the whole prefix (`KeyOfPrefix`).  A line that is found therefore has the
destination's three octets, covers it (`KeyIsBest`), and any longer line that covers it would have
the same prefix and come later (`NoMoreHostBits`, `SameOctet`, `LastOf`).  `MCRouter` assumes that
r1's table is plain, and TLC evaluates that.

### The echo programs

`UdpEchoProofs` proves, from `EchoAssumption`, for any number of clients, lines and losses:
`EchoInvariant` (`EchoInv`), `EchoTypeCorrect`, `OwnLinesAlwaysInOrder` and
`AlwaysOneBehindPerBlank`.  `EchoInv` says that a client has printed an answer for every line but
the one it waits for, and that its lines are in order in what it has printed, then in its
socket, then in the server's (`OrderOf`).  `OneBehindPerBlank` is not inductive over it: that the
k-th answer is at most so many lines behind says nothing of the answers still to come.
`BehindInv` counts instead (`Counted`): the lines that are neither printed nor in one of the two
sockets (`Gone`) are at most as many as `missing` counts.  As the lines printed are in order and
the k-th answer is printed while the k-th line is waited for, a line that is printed is then
behind by the blanks before it, give or take the lines gone.

### The learning switch

`SwitchProofs` proves, from `SwitchAssumption`, for any number of hosts, ports, frames and moves:
`SwitchInvariant`, `SwitchTypeCorrect` and `TableAlwaysCurrent`.  Types and `TableCurrent` are
inductive together; the step that needs an argument is `HandleKeeps`, where the frames move up
by one and the one that is handled may have been its host's last.

### Only model-checked

The liveness properties `ServerStops`, `FetchEnds`, `AnsweredUnlessTaken`, `WaitEnds` and
`ReachableAgain`: liveness under fairness is outside what the prover handles.
The first half of `AnsweredUnlessTaken` is an action property and is checked with the second.
Every other invariant and action property of the passing runs is stated by a theorem.

## 5. Not modelled

In project2: the prompts and the checks of the port; reading the file (each `fread` is taken
to return the next 1000 bytes); a name of a file that does not exist, after which the server
uses an uninitialised `stat` buffer; several clients at one server (it answers whoever wrote
last); `sendto` errors, which the code only logs; the server's `checksum()`, which nothing
calls.  The server's tests for return values -3 are dead code.  An empty file is not in a run
(the server would time out on an empty queue).

In project1b: the prompts, `bind` and its retry; `recv` or `sendfile` that stop in the middle of
an int, a name or a size; a list under fairness (two names that arrive together are one `recv`
for the client, which then waits for ever; the server's `usleep` makes this rare and nothing
excludes it); files that change while they are sent.  `fopen` of a name the server serves,
which truncates it, is left out too.

In project3: forwarding itself, which the program does not do; `newc.c`, its first version, which
answers every ARP request and nothing else (a mutant of `CacheRight`).

project4: `receiveEncrypted()` closes the client's socket in its `finally` clause
(server_threaded.java:264) after every message, and `run()` then calls `getOutputStream()` on
that socket (286), which throws.  A handler exchanges keys, reads one message and ends; `list`,
`boot`, `broadcast` and `chat` never run, and the handlers share nothing that they read.  What
remains is a sequence of library calls.

labs: the TCP chat (two threads, one for each direction, that share a descriptor and nothing
else); `lab4/udpserver.c`, `udpserver1.c` and `udpclient.c`, which do not compile; copies under other
names; `lab4/server.c`, which is `lab5/server.c` without its timeout.  `cryptotest` has no protocol
state.

## 6. Plan

Done, in this order: the reliable transfer with its abstract specification, refinement and
proofs; the TCP file service with its abstract library; the router with its neighbours; the
learning switch; the echo programs; proofs for the last three and for the file service; the
hand-over, the answers and the refinement of the library, `GiveUpEarned`, `CompleteMeansWhole` and
`OneBehindPerBlank`; short files over a path that reorders.

Left, by what it would add:

1. `ShortFile` between big-endian hosts, where stored acknowledgements are found.
2. The TCP chat of the labs: lines that arrive together are printed as one.
3. `ChatServer`, once `receiveEncrypted()` leaves the socket open.
