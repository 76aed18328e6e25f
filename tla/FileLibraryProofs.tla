------------------------- MODULE FileLibraryProofs -------------------------
(***************************************************************************)
(* Proofs about the answers of the file service of project1b.  Clients     *)
(* that come one after the other, ask for lists and files and stay, of a   *)
(* server with enough descriptors, get what they asked for, whole, and     *)
(* nothing of one answer is left over for the next: the threads and the    *)
(* clients implement the abstract library.                                 *)
(***************************************************************************)
EXTENDS FileServiceProofs, SequenceTheorems

(* The clients of this module: they come one after the other, ask for lists *)
(* and files, and stay; they run outside the server's directory.            *)
OrderlyUse == ~Crowd /\ ~MayVanish /\ ~SharedDir /\ Asks \subseteq Files \cup {List}

(* A socket that is never used and a connection for every client and for   *)
(* the round of main() that waits, and one descriptor for every request.   *)
EnoughDescriptors ==
  IsFiniteSet(Clients) /\ MaxFd > 2 * (Cardinality(Clients) + 1) + MaxAsks

-----------------------------------------------------------------------------
(* What does not change. *)
Steady == up /\ closed = {} /\ dirSize = DirAtStart /\ NobodyGone

(* The hand-over: nobody is in the backlog while clientinfo is still to be *)
(* copied, and it holds what the thread that is to copy it was made for.   *)
Copied(t) == pc[t] \notin {"none", "start"}

OneAtATime ==
  /\ backlog # <<>> =>
       Len(backlog) = 1 /\ mainAt = "accept" /\ \A t \in Threads : pc[t] # "start"
  /\ mainAt = "create" => /\ ci # NoFd
                          /\ \A t \in Threads : pc[t] # "start"
                          /\ \A t \in Threads : pc[t] # "none" => made[t] # ci
  /\ \A t \in Threads : pc[t] = "start" => made[t] = ci /\ ci # NoFd

OwnSocket ==
  /\ \A t \in Threads : Copied(t) => fd[t] = made[t] /\ made[t] # NoFd
  /\ \A t, u \in Threads :
       t # u /\ pc[t] # "none" /\ pc[u] # "none" => made[t] # made[u]
  /\ \A t \in Threads : Copied(t) /\ pc[t] # "recv" => sock[t] = fds[fd[t]]

OneConnection ==
  /\ \A f, g \in 1..MaxFd : fds[f] \in Clients /\ fds[f] = fds[g] => f = g
  /\ \A c \in Clients : cpc[c] = "start" \/ (backlog # <<>> /\ c = Head(backlog)) =>
       \A f \in 1..MaxFd : fds[f] # c
  /\ \A c \in Clients : cpc[c] = "start" => backlog = <<>> \/ Head(backlog) # c

HandOver == Steady /\ OneAtATime /\ OwnSocket /\ OneConnection

(* What a thread does, it does for what it was asked. *)
Serves(t) ==
  /\ pc[t] \in {"open", "size", "body"} => line[t] \in Files
  /\ pc[t] \in {"count", "rewind", "names"} => line[t] = List
  /\ pc[t] \in {"size", "body", "rewind", "names"} => file[t] # NoFd
  /\ pc[t] = "names" => left[t] \in 1..DirAtStart

(* The answer to a request: an int, then so many units. *)
LengthOf(request) == IF request = List THEN DirAtStart ELSE FileSize[request]
UnitOf(request, i) == IF i = 1 THEN Size(LengthOf(request)) ELSE Answer(request)[i - 1]

(* What a thread has still to send, and what a client has read. *)
Unsent(t) ==
  CASE pc[t] \in {"open", "size"} -> 1 + FileSize[line[t]]
    [] pc[t] = "body"             -> FileSize[line[t]]
    [] pc[t] = "count"            -> 1 + DirAtStart
    [] pc[t] = "rewind"           -> DirAtStart
    [] pc[t] = "names"            -> left[t]
    [] OTHER                      -> 0

HasRead(c) == IF cpc[c] \in {"listing", "fetching"} THEN 1 + Len(got[c]) ELSE 0

OnItsWay(c) == HasRead(c) + Len(answers[c])

(* A thread that has something to send sends it to the client that asked. *)
Replies(t) ==
  Unsent(t) # 0 =>
    /\ Waiting(sock[t]) /\ requests[sock[t]] = <<>> /\ want[sock[t]] = line[t]
    /\ OnItsWay(sock[t]) + Unsent(t) = 1 + LengthOf(line[t])

(* A client at its prompt has nothing left over, and one that waits reads  *)
(* the answer to its own request from the beginning to the end.            *)
Asked(c) ==
  /\ requests[c] = <<want[c]>> /\ answers[c] = <<>> /\ cpc[c] \in {"counting", "sizing"}

Answered(c) ==
  requests[c] = <<>> /\
    ((\A t \in Threads : sock[t] = c => Unsent(t) = 0) => OnItsWay(c) = 1 + LengthOf(want[c]))

InTurn(c) ==
  IF ~Waiting(c) THEN requests[c] = <<>> /\ answers[c] = <<>>
  ELSE /\ Asked(c) \/ Answered(c)
       /\ \A i \in 1..Len(got[c]) : got[c][i] = UnitOf(want[c], i + 1)
       /\ \A i \in 1..Len(answers[c]) : answers[c][i] = UnitOf(want[c], HasRead(c) + i)

Expects(c) ==
  /\ cpc[c] \in {"counting", "listing"} => want[c] = List
  /\ cpc[c] \in {"sizing", "fetching"} => want[c] \in Files
  /\ cpc[c] \in {"counting", "sizing"} => got[c] = <<>>
  /\ cpc[c] = "listing" => due[c] + Len(got[c]) >= DirAtStart
  /\ cpc[c] = "fetching" => due[c] + Len(got[c]) = FileSize[want[c]] /\ due[c] # 0

Exchange ==
  /\ \A t \in Threads : Serves(t) /\ Replies(t)
  /\ \A c \in Clients : InTurn(c) /\ Expects(c)

(* The descriptors: as many sockets that are not used as connections, one  *)
(* connection for a client, one file or directory for a request.           *)
Holding(uses) == {f \in 1..MaxFd : fds[f] \in uses}
Unserved ==
  {c \in Clients : requests[c] # <<>> \/
                   \E t \in Threads : sock[t] = c /\ pc[t] \in {"open", "count"}}
ToCome == {c \in Clients : cpc[c] = "start" \/ (backlog # <<>> /\ c = Head(backlog))}

Spares == Cardinality(Holding({Spare}))
Connections == Cardinality(Holding(Clients \cup {Reserved}))
Opens == Cardinality(Holding({FileFd, DirFd}))
Coming == Cardinality(ToCome)
Waits == Cardinality(Unserved)

Accounts ==
  /\ Spares = Connections + (IF mainAt = "call" THEN 1 ELSE 0)
  /\ Connections + Coming <= Cardinality(Clients) + (IF mainAt = "accept" THEN 1 ELSE 0)
  /\ Opens + Waits <= asks

Service == Types /\ InOrder /\ HandOver /\ Exchange /\ Accounts

-----------------------------------------------------------------------------
(* A thread that has copied its socket has a connection to a client that is *)
(* there, and no two threads have the same.                                 *)
LEMMA ThreadSocket ==
  ASSUME Types, InOrder, HandOver, NEW t \in Threads, Copied(t)
  PROVE  /\ fd[t] \in 1..MaxFd /\ fd[t] # NoFd /\ fds[fd[t]] \in Clients
         /\ Connected(fd[t])
         /\ pc[t] # "recv" => sock[t] \in Clients /\ sock[t] = fds[fd[t]]
<1>1. fd[t] \in 0..MaxFd /\ fd[t] # NoFd
  BY DEF Types, ServerTypes, HandOver, OwnSocket
<1>2. fds[fd[t]] \in Clients
  BY <1>1 DEF InOrder, HoldsConnection
<1>3. pc[t] # "recv" => sock[t] = fds[fd[t]]
  BY DEF HandOver, OwnSocket
<1> QED BY <1>1, <1>2, <1>3, FileSocketsAssumption DEF Connected, NoFd

(* Two threads that serve requests serve different clients. *)
LEMMA OneThreadEach ==
  ASSUME Types, InOrder, HandOver, NEW t \in Threads, NEW u \in Threads, t # u,
         Copied(t), Copied(u), pc[t] # "recv", pc[u] # "recv"
  PROVE  sock[t] # sock[u]
<1>1. /\ fd[t] \in 1..MaxFd /\ fd[u] \in 1..MaxFd /\ fds[fd[t]] \in Clients
      /\ sock[t] = fds[fd[t]] /\ sock[u] = fds[fd[u]]
  BY ThreadSocket
<1>2. fd[t] # fd[u]
  <2>1. made[t] # made[u] /\ fd[t] = made[t] /\ fd[u] = made[u]
    BY DEF HandOver, OwnSocket, Copied
  <2> QED BY <2>1
<1> QED BY <1>1, <1>2 DEF HandOver, OneConnection

(* What a thread sends reaches the client it serves, behind what is in its stream. *)
LEMMA SendArrives ==
  ASSUME Types, InOrder, HandOver, NEW t \in Threads, Copied(t), pc[t] # "recv",
         NEW units, SendOn(fd[t], units)
  PROVE  /\ up' /\ UNCHANGED peer
         /\ answers' = [answers EXCEPT ![sock[t]] = @ \o units]
<1>1. /\ fd[t] \in 1..MaxFd /\ fds[fd[t]] \in Clients /\ Connected(fd[t])
      /\ sock[t] = fds[fd[t]]
  BY ThreadSocket
<1>2. peer[fds[fd[t]]] = "open"
  BY <1>1 DEF InOrder, PeersStay
<1>3. ~ Deadly(fd[t])
  BY <1>1, <1>2, UsesAreNoClients DEF Deadly
<1> QED BY <1>1, <1>2, <1>3 DEF SendOn

(* A thread that has something to send serves a request. *)
LEMMA SenderServes ==
  ASSUME NEW t, Unsent(t) # 0
  PROVE  Copied(t) /\ pc[t] \in {"open", "size", "body", "count", "rewind", "names"}
BY DEF Unsent, Copied

(* What a thread has still to send is a number. *)
LEMMA UnsentType ==
  ASSUME Types, NEW t \in Threads, Serves(t)
  PROVE  Unsent(t) \in Nat
<1>1. line[t] \in Files => FileSize[line[t]] \in Nat
  BY SizesAreNumbers
<1>2. left[t] \in Nat /\ DirAtStart \in Nat
  BY SizesAreNumbers DEF Types, ServerTypes
<1> QED BY <1>1, <1>2 DEF Serves, Unsent

(* The lengths of answers. *)
LEMMA ListIsNoFile == List \notin Files /\ Quit \notin Files /\ List # Quit
BY FileSocketsAssumption DEF List, Quit

(* An answer is an int and as many units as that int says. *)
LEMMA AnswerLengths ==
  ASSUME NEW request \in Files \cup {List}
  PROVE  /\ LengthOf(request) \in Nat
         /\ Answer(request) \in Seq(Units) /\ Len(Answer(request)) = LengthOf(request)
         /\ \A i \in 1..LengthOf(request) : UnitOf(request, i + 1) = Answer(request)[i]
         /\ UnitOf(request, 1) = Size(LengthOf(request))
<1>1. CASE request = List
  <2>1. LengthOf(List) = DirAtStart /\ Answer(List) = Listing /\ DirAtStart \in Nat
    BY SizesAreNumbers DEF LengthOf, Answer
  <2>2. \A i \in 1..DirAtStart : Name(DirAtStart + 1 - i) \in Units
    BY <2>1 DEF Name, Units
  <2>3. Listing \in Seq(Units) /\ Len(Listing) = DirAtStart
    BY <2>1, <2>2 DEF Listing
  <2>4. \A i \in 1..DirAtStart : i + 1 # 1 /\ (i + 1) - 1 = i
    BY <2>1
  <2> QED BY <1>1, <2>1, <2>3, <2>4 DEF UnitOf
<1>2. CASE request \in Files
  <2>1. /\ LengthOf(request) = FileSize[request] /\ Answer(request) = Pieces(request)
        /\ FileSize[request] \in Nat
    BY <1>2, SizesAreNumbers, ListIsNoFile DEF LengthOf, Answer
  <2>2. Pieces(request) \in Seq(Units) /\ Len(Pieces(request)) = FileSize[request]
    BY <1>2, <2>1, UnitTypes DEF Pieces
  <2>3. \A i \in 1..FileSize[request] : i + 1 # 1 /\ (i + 1) - 1 = i
    BY <2>1
  <2> QED BY <2>1, <2>2, <2>3 DEF UnitOf
<1> QED BY <1>1, <1>2

-----------------------------------------------------------------------------
(* The hand-over. *)
LEMMA ClientsLeaveHandOver ==
  ASSUME HandOver, UNCHANGED <<up, closed, dirSize, mainAt, ci, backlog, pc, made, fd, sock, fds>>,
         \A c \in Clients : cpc'[c] # "gone" /\ (cpc'[c] = "start" <=> cpc[c] = "start")
  PROVE  HandOver'
<1>1. Steady'
  BY DEF HandOver, Steady, NobodyGone
<1>2. OneAtATime' /\ OwnSocket'
  BY DEF HandOver, OneAtATime, OwnSocket, Copied
<1>3. OneConnection'
  BY DEF HandOver, OneConnection
<1> QED BY <1>1, <1>2, <1>3 DEF HandOver

(* Of the descriptors of a thread only those of files and directories change. *)
OnlyFiles == \A f \in 1..MaxFd : fds'[f] = fds[f] \/ (fds[f] \notin Clients /\ fds'[f] \notin Clients)

(* A step of a thread that copies ci, reads a request or serves one keeps HandOver. *)
LEMMA ThreadsLeaveHandOver ==
  ASSUME Types, InOrder, HandOver, NEW t \in Threads, NEW to, OnlyFiles,
         up', UNCHANGED <<closed, dirSize, cpc, backlog, mainAt, ci, made>>,
         pc[t] # "none", pc' = [pc EXCEPT ![t] = to], to \notin {"none", "start"},
         \/ pc[t] = "start" /\ to = "recv" /\ fd' = [fd EXCEPT ![t] = ci] /\ UNCHANGED sock
         \/ pc[t] = "recv" /\ UNCHANGED fd /\ sock' = [sock EXCEPT ![t] = fds[fd[t]]]
         \/ Copied(t) /\ pc[t] # "recv" /\ UNCHANGED <<fd, sock>>
  PROVE  HandOver'
<1>1. Steady'
  BY DEF HandOver, Steady, NobodyGone
<1>2. pc'[t] = to /\ \A u \in Threads : u # t => pc'[u] = pc[u]
  BY DEF Types, ServerTypes
<1>3. \A u \in Threads : (pc'[u] # "none" <=> pc[u] # "none") /\ (pc'[u] = "start" => pc[u] = "start")
  BY <1>2
<1>4. OneAtATime'
  BY <1>3 DEF HandOver, OneAtATime
<1>5. \A u \in Threads : Copied(u)' => fd'[u] = made'[u] /\ made'[u] # NoFd
  <2>1. CASE Copied(t)
    <3>1. fd' = fd
      BY <2>1 DEF Copied
    <3>2. \A u \in Threads : Copied(u)' => Copied(u)
      BY <1>2, <2>1 DEF Copied
    <3> QED BY <3>1, <3>2 DEF HandOver, OwnSocket
  <2>2. CASE pc[t] = "start"
    <3>1. fd' = [fd EXCEPT ![t] = ci]
      BY <2>2 DEF Copied
    <3>2. made[t] = ci /\ ci # NoFd
      BY <2>2 DEF HandOver, OneAtATime
    <3>3. fd'[t] = ci /\ \A u \in Threads : u # t => fd'[u] = fd[u]
      BY <3>1 DEF Types, ServerTypes
    <3>4. \A u \in Threads : u # t /\ Copied(u)' => Copied(u)
      BY <1>2 DEF Copied
    <3> QED BY <3>2, <3>3, <3>4 DEF HandOver, OwnSocket
  <2> QED BY <2>1, <2>2 DEF Copied
<1>6. \A u \in Threads : Copied(u)' /\ pc'[u] # "recv" => sock'[u] = fds'[fd'[u]]
  <2> SUFFICES ASSUME NEW u \in Threads, Copied(u)', pc'[u] # "recv"
               PROVE  sock'[u] = fds'[fd'[u]]
    OBVIOUS
  <2>1. pc[t] # "start" \/ u # t
    BY <1>2 DEF Copied
  <2>2. Copied(u)
    BY <1>2, <2>1 DEF Copied
  <2>3. fd[u] \in 1..MaxFd /\ fds[fd[u]] \in Clients
    BY <2>2, ThreadSocket
  <2>4. fd'[u] = fd[u] /\ fds'[fd[u]] = fds[fd[u]]
    BY <2>1, <2>3 DEF OnlyFiles, Types, ServerTypes, Copied
  <2>5. CASE u = t /\ pc[t] = "recv"
    BY <2>3, <2>4, <2>5 DEF Types, ServerTypes, Copied
  <2>6. CASE u # t \/ pc[t] # "recv"
    <3>1. pc[u] # "recv" /\ sock'[u] = sock[u]
      BY <1>2, <2>1, <2>6 DEF Types, ServerTypes
    <3> QED BY <2>2, <2>4, <3>1, ThreadSocket
  <2> QED BY <2>5, <2>6
<1>7. OwnSocket'
  BY <1>3, <1>5, <1>6 DEF HandOver, OwnSocket
<1>8. OneConnection'
  <2>1. \A f, g \in 1..MaxFd : fds'[f] \in Clients /\ fds'[f] = fds'[g] => f = g
    BY DEF OnlyFiles, HandOver, OneConnection
  <2>2. \A c \in Clients : cpc[c] = "start" \/ (backlog # <<>> /\ c = Head(backlog)) =>
          \A f \in 1..MaxFd : fds'[f] # c
    BY DEF OnlyFiles, HandOver, OneConnection
  <2> QED BY <2>1, <2>2 DEF HandOver, OneConnection
<1> QED BY <1>1, <1>4, <1>7, <1>8 DEF HandOver

(* main() hands over one socket at a time. *)
LEMMA MainHandsOver ==
  ASSUME Types, InOrder, HandOver, LowestFree # NoFd, Main, UNCHANGED cliVars
  PROVE  HandOver'
<1>1. Steady'
  BY DEF HandOver, Steady, NobodyGone, cliVars, Main, MakeSocket, CallAccept, AcceptFails, Accept,
         CreateThread, sockVars
<1>2. CASE MakeSocket \/ CallAccept
  <2>1. /\ mainAt \in {"socket", "call"} /\ mainAt' \in {"call", "accept"}
        /\ UNCHANGED <<backlog, ci, pc, made, fd, sock, cpc>>
        /\ \E use \in {Spare, Reserved} : fds' = [fds EXCEPT ![LowestFree] = use]
    BY <1>2 DEF MakeSocket, CallAccept, cliVars
  <2>2. OnlyFiles
    BY <2>1, LowestFreeIsFree, UsesAreNoClients DEF Types, SocketTypes, OnlyFiles
  <2>3. backlog = <<>>
    BY <2>1 DEF HandOver, OneAtATime
  <2>4. OneAtATime'
    BY <2>1, <2>3 DEF HandOver, OneAtATime
  <2>5. OwnSocket'
    <3>1. \A u \in Threads : Copied(u) => fds'[fd[u]] = fds[fd[u]]
      BY <2>2, ThreadSocket DEF OnlyFiles
    <3> QED BY <2>1, <3>1 DEF HandOver, OwnSocket, Copied
  <2>6. OneConnection'
    BY <2>1, <2>2 DEF OnlyFiles, HandOver, OneConnection
  <2> QED BY <1>1, <2>4, <2>5, <2>6 DEF HandOver
<1>3. CASE AcceptFails
  BY <1>3 DEF AcceptFails
<1>4. CASE Accept
  <2>1. PICK f \in 1..MaxFd : /\ fds[f] = Reserved
                              /\ fds' = [fds EXCEPT ![f] = Head(backlog)]
                              /\ ci' = f
    BY <1>4 DEF Accept
  <2>2. /\ mainAt = "accept" /\ mainAt' = "create" /\ backlog # <<>> /\ backlog' = Tail(backlog)
        /\ UNCHANGED <<pc, made, fd, sock, cpc>>
    BY <1>4 DEF Accept, cliVars
  <2>3. /\ Head(backlog) \in Clients /\ backlog' = <<>>
        /\ \A t \in Threads : pc[t] # "start"
    <3>1. Len(backlog) = 1 /\ \A t \in Threads : pc[t] # "start"
      BY <2>2 DEF HandOver, OneAtATime
    <3>2. backlog \in Seq(Clients)
      BY DEF Types, SocketTypes
    <3>3. Head(backlog) \in Clients /\ Tail(backlog) \in Seq(Clients) /\ Len(Tail(backlog)) = 0
      BY <3>1, <3>2
    <3>4. Tail(backlog) = <<>>
      BY <3>3, EmptySeq
    <3> QED BY <2>2, <3>1, <3>3, <3>4
  <2>4. fds'[f] = Head(backlog) /\ \A g \in 1..MaxFd : g # f => fds'[g] = fds[g]
    BY <2>1 DEF Types, SocketTypes
  <2>5. \A u \in Threads : Copied(u) => fd[u] # f /\ fds'[fd[u]] = fds[fd[u]]
    <3> SUFFICES ASSUME NEW u \in Threads, Copied(u)
                 PROVE  fd[u] # f /\ fds'[fd[u]] = fds[fd[u]]
      OBVIOUS
    <3>1. fd[u] \in 1..MaxFd /\ fds[fd[u]] \in Clients
      BY ThreadSocket
    <3> QED BY <2>1, <2>4, <3>1, UsesAreNoClients
  <2>6. OneAtATime'
    <3>1. f # NoFd
      BY FileSocketsAssumption DEF NoFd
    <3>2. \A u \in Threads : pc[u] # "none" => made[u] # f
      BY <2>3, <2>5 DEF HandOver, OwnSocket, Copied
    <3> QED BY <2>1, <2>2, <2>3, <3>1, <3>2 DEF OneAtATime
  <2>7. OwnSocket'
    BY <2>2, <2>5 DEF HandOver, OwnSocket, Copied
  <2>8. OneConnection'
    <3>1. \A g \in 1..MaxFd : fds[g] # Head(backlog)
      BY <2>2, <2>3 DEF HandOver, OneConnection
    <3>2. \A g, h \in 1..MaxFd : fds'[g] \in Clients /\ fds'[g] = fds'[h] => g = h
      BY <2>4, <3>1 DEF HandOver, OneConnection
    <3>3. \A c \in Clients : cpc[c] = "start" => c # Head(backlog) /\ \A g \in 1..MaxFd : fds'[g] # c
      BY <2>2, <2>4 DEF HandOver, OneConnection
    <3> QED BY <2>2, <2>3, <3>2, <3>3 DEF OneConnection
  <2> QED BY <1>1, <2>6, <2>7, <2>8 DEF HandOver
<1>5. CASE CreateThread
  <2>1. PICK t \in Threads : /\ pc[t] = "none" /\ pc' = [pc EXCEPT ![t] = "start"]
                             /\ made' = [made EXCEPT ![t] = ci]
    BY <1>5 DEF CreateThread
  <2>2. mainAt = "create" /\ mainAt' = "socket" /\ UNCHANGED <<backlog, fds, ci, fd, sock, cpc>>
    BY <1>5 DEF CreateThread, sockVars, cliVars
  <2>3. /\ pc'[t] = "start" /\ made'[t] = ci
        /\ \A u \in Threads : u # t => pc'[u] = pc[u] /\ made'[u] = made[u]
    BY <2>1 DEF Types, ServerTypes
  <2>4. backlog = <<>> /\ ci # NoFd /\ \A u \in Threads : pc[u] # "start"
    BY <2>2 DEF HandOver, OneAtATime
  <2>5. OneAtATime'
    BY <2>2, <2>3, <2>4 DEF OneAtATime
  <2>6. OwnSocket'
    <3>1. \A u \in Threads : Copied(u)' => u # t /\ Copied(u)
      BY <2>3 DEF Copied
    <3>2. \A u, v \in Threads :
            u # v /\ pc'[u] # "none" /\ pc'[v] # "none" => made'[u] # made'[v]
      BY <2>2, <2>3 DEF HandOver, OneAtATime, OwnSocket
    <3> QED BY <2>2, <2>3, <3>1, <3>2 DEF HandOver, OwnSocket
  <2>7. OneConnection'
    BY <2>2 DEF HandOver, OneConnection
  <2> QED BY <1>1, <2>5, <2>6, <2>7 DEF HandOver
<1> QED BY <1>2, <1>3, <1>4, <1>5 DEF Main

(* connect(), of a client that comes while nobody is being handed over. *)
LEMMA ConnectHandsOver ==
  ASSUME Types, HandOver, NEW c \in Clients, Quiet, Connect(c), UNCHANGED srvVars
  PROVE  HandOver'
<1>1. /\ cpc[c] = "start" /\ cpc' = [cpc EXCEPT ![c] = "idle"]
      /\ backlog = <<>> /\ backlog' = Append(backlog, c)
      /\ UNCHANGED <<up, fds, closed, dirSize, mainAt, ci, pc, made, fd, sock>>
  BY DEF Quiet, Connect, srvVars
<1>2. backlog' # <<>> /\ Len(backlog') = 1 /\ Head(backlog') = c
  BY <1>1
<1>3. cpc'[c] = "idle" /\ \A d \in Clients : d # c => cpc'[d] = cpc[d]
  BY <1>1 DEF Types, ClientTypes
<1>4. Steady'
  BY <1>1, <1>3 DEF HandOver, Steady, NobodyGone
<1>5. OneAtATime'
  BY <1>1, <1>2 DEF HandOver, OneAtATime, Quiet
<1>6. OwnSocket'
  BY <1>1 DEF HandOver, OwnSocket, Copied
<1>7. OneConnection'
  BY <1>1, <1>2, <1>3 DEF HandOver, OneConnection
<1> QED BY <1>4, <1>5, <1>6, <1>7 DEF HandOver

(* What a thread sends and closes, in order: every send() arrives, and what *)
(* is closed is the thread's own file.                                      *)
LEMMA BodyCloses ==
  ASSUME Types, InOrder, NEW t \in Threads, Serves(t), SendBody(t)
  PROVE  /\ file[t] \in 1..MaxFd /\ file[t] # NoFd /\ fds[file[t]] = FileFd /\ Opened(t)
         /\ fds' = [fds EXCEPT ![file[t]] = Free] /\ UNCHANGED closed
<1>1. pc[t] = "body" /\ Closes(file[t])
  BY DEF SendBody, Moves
<1>2. file[t] # NoFd /\ file[t] \in 0..MaxFd /\ line[t] \in Files
  BY <1>1 DEF Serves, Types, ServerTypes
<1>3. fds[file[t]] = FileFd
  BY <1>1, <1>2 DEF InOrder, HoldsOwnFile, Sending
<1>4. fds' = [fds EXCEPT ![file[t]] = Free] /\ closed' = closed \cup ({FileFd} \cap Clients)
  BY <1>1, <1>2, <1>3 DEF Closes
<1>5. closed' = closed
  BY <1>4, UsesAreNoClients
<1> QED BY <1>2, <1>3, <1>4, <1>5 DEF Opened, NoFd

(* Every step of a thread keeps HandOver. *)
LEMMA ThreadHandsOver ==
  ASSUME Types, InOrder, HandOver, NEW t \in Threads, Serves(t), Thread(t), UNCHANGED cliVars
  PROVE  HandOver'
<1>0. up /\ UNCHANGED cpc /\ fd[t] \in 0..MaxFd
  BY DEF HandOver, Steady, cliVars, Types, ServerTypes
<1>a. ASSUME UNCHANGED fds PROVE OnlyFiles
  BY <1>a DEF OnlyFiles
<1>1. CASE CopyInfo(t)
  <2>1. PICK to : to \in {"recv"} /\ pc' = [pc EXCEPT ![t] = to]
    BY <1>1 DEF CopyInfo, Moves
  <2>2. /\ pc[t] = "start" /\ fd' = [fd EXCEPT ![t] = ci]
        /\ UNCHANGED <<up, fds, closed, dirSize, backlog, mainAt, ci, made, sock>>
    BY <1>1 DEF CopyInfo, Moves, sockVars
  <2>3. to \notin {"none", "start"} /\ to = "recv"
    BY <2>1
  <2> QED BY <1>0, <1>a, <2>1, <2>2, <2>3, ThreadsLeaveHandOver
<1>2. CASE CallRecv(t)
  <2>1. Copied(t) /\ pc[t] = "recv"
    BY <1>2 DEF CallRecv, Moves, Copied
  <2>2. Connected(fd[t])
    BY <2>1, ThreadSocket
  <2>3. PICK to : to \notin {"none", "start"} /\ pc' = [pc EXCEPT ![t] = to]
    BY <1>2, <2>2 DEF CallRecv, Moves
  <2>4. /\ sock' = [sock EXCEPT ![t] = fds[fd[t]]]
        /\ UNCHANGED <<up, fds, closed, dirSize, backlog, mainAt, ci, made, fd>>
    BY <1>2, <2>2 DEF CallRecv, Moves, sockVars
  <2> QED BY <1>0, <1>a, <2>1, <2>3, <2>4, ThreadsLeaveHandOver
<1>3. CASE RecvRequest(t)
  <2>1. Copied(t) /\ pc[t] = "blocked"
    BY <1>3 DEF RecvRequest, Copied
  <2>2. PICK to : to \notin {"none", "start"} /\ pc' = [pc EXCEPT ![t] = to]
    BY <1>3 DEF RecvRequest, Takes, Moves, Branch
  <2>3. UNCHANGED <<up, fds, closed, dirSize, backlog, mainAt, ci, made, fd, sock>>
    BY <1>3 DEF RecvRequest, Takes
  <2> QED BY <1>0, <1>a, <2>1, <2>2, <2>3, ThreadsLeaveHandOver
<1>4. CASE RecvNothing(t) \/ RecvReset(t)
  <2>1. pc[t] = "blocked" /\ peer[sock[t]] # "open"
    BY <1>4 DEF RecvNothing, RecvReset, Moves
  <2> QED BY <2>1 DEF InOrder, PeersStay
<1>5. CASE CloseClient(t)
  BY <1>5 DEF CloseClient, Moves, InOrder, NobodyQuits
<1>6. CASE OpenFile(t)
  <2>1. PICK to : to \notin {"none", "start"} /\ Copied(t) /\ pc[t] = "open" /\ pc' = [pc EXCEPT ![t] = to]
    BY <1>6 DEF OpenFile, Moves, Copied
  <2>2. UNCHANGED <<up, closed, dirSize, backlog, mainAt, ci, made, fd, sock>>
    BY <1>6 DEF OpenFile, Moves
  <2>3. UNCHANGED fds \/ (LowestFree # NoFd /\ fds' = [fds EXCEPT ![LowestFree] = FileFd])
    BY <1>6 DEF OpenFile
  <2>4. OnlyFiles
    BY <2>3, LowestFreeIsFree, UsesAreNoClients DEF Types, SocketTypes, OnlyFiles
  <2> QED BY <1>0, <2>1, <2>2, <2>4, ThreadsLeaveHandOver
<1>7. CASE SendSize(t)
  <2>1. PICK to : to \notin {"none", "start"} /\ Copied(t) /\ pc[t] = "size" /\ pc' = [pc EXCEPT ![t] = to]
    BY <1>7 DEF SendSize, Moves, Copied
  <2>2. UNCHANGED <<fds, closed, dirSize, backlog, mainAt, ci, made, fd, sock>>
    BY <1>7 DEF SendSize
  <2>3. Connected(fd[t])
    BY <2>1, ThreadSocket
  <2>4. PICK n \in SizesOf(t) : SendOn(fd[t], <<Size(n)>>)
    BY <1>7, <2>3 DEF SendSize
  <2>5. up'
    BY <2>1, <2>4, SendArrives
  <2> QED BY <1>0, <1>a, <2>1, <2>2, <2>5, ThreadsLeaveHandOver
<1>8. CASE SendBody(t)
  <2>1. PICK to : to \notin {"none", "start"} /\ Copied(t) /\ pc[t] = "body" /\ pc' = [pc EXCEPT ![t] = to]
    BY <1>8 DEF SendBody, GoesOn, Moves, Copied
  <2>2. UNCHANGED <<dirSize, backlog, mainAt, ci, made, fd, sock>>
    BY <1>8 DEF SendBody
  <2>3. /\ file[t] \in 1..MaxFd /\ fds[file[t]] = FileFd /\ Opened(t)
        /\ fds' = [fds EXCEPT ![file[t]] = Free] /\ UNCHANGED closed
    BY <1>8, BodyCloses
  <2>4. OnlyFiles
    BY <2>3, UsesAreNoClients DEF Types, SocketTypes, OnlyFiles
  <2>5. SendOn(fd[t], BodyOf(line[t]))
    BY <1>8, <2>3 DEF SendBody
  <2>6. up'
    BY <2>1, <2>5, SendArrives
  <2> QED BY <1>0, <2>1, <2>2, <2>3, <2>4, <2>6, ThreadsLeaveHandOver
<1>9. CASE SendCount(t)
  <2>1. PICK to : to \notin {"none", "start"} /\ Copied(t) /\ pc[t] = "count" /\ pc' = [pc EXCEPT ![t] = to]
    BY <1>9 DEF SendCount, Moves, Copied
  <2>2. UNCHANGED <<closed, dirSize, backlog, mainAt, ci, made, fd, sock>>
    BY <1>9 DEF SendCount
  <2>3. UNCHANGED fds \/ (LowestFree # NoFd /\ fds' = [fds EXCEPT ![LowestFree] = DirFd])
    BY <1>9 DEF SendCount
  <2>4. OnlyFiles
    BY <2>3, LowestFreeIsFree, UsesAreNoClients DEF Types, SocketTypes, OnlyFiles
  <2>5. \E n : SendOn(fd[t], <<Size(n)>>)
    BY <1>9 DEF SendCount
  <2>6. up'
    BY <2>1, <2>5, SendArrives
  <2> QED BY <1>0, <2>1, <2>2, <2>4, <2>6, ThreadsLeaveHandOver
<1>10. CASE Rewind(t)
  <2>1. PICK to : to \notin {"none", "start"} /\ Copied(t) /\ pc[t] = "rewind" /\ pc' = [pc EXCEPT ![t] = to]
    BY <1>10 DEF Rewind, Copied
  <2>2. UNCHANGED <<fds, closed, dirSize, backlog, mainAt, ci, made, fd, sock>>
    BY <1>10 DEF Rewind
  <2>3. up'
    BY <1>10, <2>1 DEF Rewind, Serves
  <2> QED BY <1>0, <1>a, <2>1, <2>2, <2>3, ThreadsLeaveHandOver
<1>11. CASE SendName(t)
  <2>1. Copied(t) /\ pc[t] = "names"
    BY <1>11 DEF SendName, Moves, Copied
  <2>2. PICK to : to \notin {"none", "start"} /\ pc' = [pc EXCEPT ![t] = to]
    BY <1>11 DEF SendName, Moves
  <2>3. UNCHANGED <<fds, closed, dirSize, backlog, mainAt, ci, made, fd, sock>>
    BY <1>11 DEF SendName
  <2>4. SendOn(fd[t], <<Name(left[t])>>)
    BY <1>11 DEF SendName
  <2>5. up'
    BY <2>1, <2>4, SendArrives
  <2> QED BY <1>0, <1>a, <2>1, <2>2, <2>3, <2>5, ThreadsLeaveHandOver
<1> QED BY <1>1, <1>2, <1>3, <1>4, <1>5, <1>6, <1>7, <1>8, <1>9, <1>10, <1>11 DEF Thread

-----------------------------------------------------------------------------
(* The answers on their way. *)
LEMMA OthersKeep ==
  ASSUME Types, NEW t \in Threads, UNCHANGED cliVars,
         \A u \in Threads : u # t => /\ pc'[u] = pc[u] /\ sock'[u] = sock[u] /\ line'[u] = line[u]
                                     /\ file'[u] = file[u] /\ left'[u] = left[u]
  PROVE  /\ \A u \in Threads : u # t => /\ Serves(u)' <=> Serves(u)
                                        /\ Unsent(u)' = Unsent(u)
                                        /\ sock'[u] = sock[u] /\ line'[u] = line[u]
         /\ \A c \in Clients : /\ Waiting(c)' <=> Waiting(c)
                               /\ HasRead(c)' = HasRead(c)
                               /\ Expects(c)' <=> Expects(c)
BY DEF Serves, Unsent, Waiting, HasRead, Expects, cliVars

(* A step of a thread that neither sends nor receives. *)
LEMMA StepKeepsExchange ==
  ASSUME Types, InOrder, HandOver, Exchange, NEW t \in Threads,
         UNCHANGED <<cliVars, requests, answers>>,
         \A u \in Threads : u # t => /\ pc'[u] = pc[u] /\ sock'[u] = sock[u] /\ line'[u] = line[u]
                                     /\ file'[u] = file[u] /\ left'[u] = left[u],
         Serves(t)', Unsent(t)' = Unsent(t),
         Unsent(t) # 0 => sock'[t] = sock[t] /\ line'[t] = line[t]
  PROVE  Exchange'
<1>1. /\ \A u \in Threads : u # t => /\ Serves(u)' <=> Serves(u)
                                     /\ Unsent(u)' = Unsent(u)
                                     /\ sock'[u] = sock[u] /\ line'[u] = line[u]
      /\ \A c \in Clients : /\ Waiting(c)' <=> Waiting(c)
                            /\ HasRead(c)' = HasRead(c)
                            /\ Expects(c)' <=> Expects(c)
  BY OthersKeep
<1>2. UNCHANGED <<want, got, cpc>>
  BY DEF cliVars
<1>3. \A c \in Clients : OnItsWay(c)' = OnItsWay(c) /\ (Asked(c)' <=> Asked(c))
  BY <1>1, <1>2 DEF OnItsWay, Asked
<1>4. \A u \in Threads : /\ Unsent(u)' = Unsent(u)
                         /\ Unsent(u) # 0 => sock'[u] = sock[u] /\ line'[u] = line[u]
  BY <1>1
<1>5. ASSUME NEW u \in Threads PROVE Serves(u)' /\ Replies(u)'
  <2>1. Serves(u)'
    BY <1>1 DEF Exchange
  <2>2. CASE Unsent(u) = 0
    BY <1>4, <2>1, <2>2 DEF Replies
  <2>3. CASE Unsent(u) # 0
    <3>1. /\ Waiting(sock[u]) /\ requests[sock[u]] = <<>> /\ want[sock[u]] = line[u]
          /\ OnItsWay(sock[u]) + Unsent(u) = 1 + LengthOf(line[u])
      BY <2>3 DEF Exchange, Replies
    <3>2. sock[u] \in Clients
      <4>1. Copied(u) /\ pc[u] # "recv"
        BY <2>3, SenderServes
      <4> QED BY <4>1, ThreadSocket
    <3> QED BY <1>1, <1>2, <1>3, <1>4, <2>1, <2>3, <3>1, <3>2 DEF Replies
  <2> QED BY <2>2, <2>3
<1>6. ASSUME NEW c \in Clients PROVE InTurn(c)' /\ Expects(c)'
  <2>1. InTurn(c) /\ Expects(c)
    BY DEF Exchange
  <2>2. (\A u \in Threads : sock'[u] = c => Unsent(u)' = 0) =>
           \A u \in Threads : sock[u] = c => Unsent(u) = 0
    BY <1>4
  <2>3. Answered(c) => Answered(c)'
    BY <1>2, <1>3, <2>2 DEF Answered
  <2> QED BY <1>1, <1>2, <1>3, <2>1, <2>3 DEF InTurn
<1> QED BY <1>5, <1>6 DEF Exchange

(* A thread that has something to send has a client that waits for it. *)
LEMMA SenderHasClient ==
  ASSUME Types, InOrder, HandOver, Exchange, NEW t \in Threads, Unsent(t) # 0
  PROVE  /\ Copied(t) /\ pc[t] # "recv" /\ sock[t] \in Clients /\ Waiting(sock[t])
         /\ requests[sock[t]] = <<>> /\ want[sock[t]] = line[t]
         /\ OnItsWay(sock[t]) + Unsent(t) = 1 + LengthOf(line[t])
         /\ \A u \in Threads : u # t /\ Unsent(u) # 0 => sock[u] # sock[t]
<1>1. \A u \in Threads : Unsent(u) # 0 => Copied(u) /\ pc[u] # "recv"
  BY SenderServes
<1>2. sock[t] \in Clients
  BY <1>1, ThreadSocket
<1>3. \A u \in Threads : u # t /\ Unsent(u) # 0 => sock[u] # sock[t]
  BY <1>1, OneThreadEach
<1> QED BY <1>1, <1>2, <1>3 DEF Exchange, Replies

(* What a client has read and what is in its stream. *)
LEMMA WayType ==
  ASSUME Types, NEW c \in Clients
  PROVE  /\ HasRead(c) \in Nat /\ OnItsWay(c) \in Nat
         /\ answers[c] \in Seq(Units) /\ Len(answers[c]) \in Nat
         /\ OnItsWay(c) = HasRead(c) + Len(answers[c])
         /\ got[c] \in Seq(Units) /\ Len(got[c]) \in Nat
<1>1. answers[c] \in Seq(Units) /\ got[c] \in Seq(Units)
  BY DEF Types, SocketTypes, ClientTypes
<1>2. Len(answers[c]) \in Nat /\ Len(got[c]) \in Nat
  BY <1>1
<1>3. HasRead(c) \in Nat
  BY <1>2 DEF HasRead
<1>4. OnItsWay(c) = HasRead(c) + Len(answers[c])
  BY DEF OnItsWay
<1>5. OnItsWay(c) \in Nat
  BY <1>2, <1>3, <1>4
<1> QED BY <1>1, <1>2, <1>3, <1>4, <1>5

(* A send() of the next units of the answer. *)
LEMMA SendKeepsExchange ==
  ASSUME Types, InOrder, HandOver, Exchange, NEW t \in Threads, Unsent(t) # 0,
         UNCHANGED <<cliVars, requests>>,
         \A u \in Threads : u # t => /\ pc'[u] = pc[u] /\ sock'[u] = sock[u] /\ line'[u] = line[u]
                                     /\ file'[u] = file[u] /\ left'[u] = left[u],
         sock'[t] = sock[t], line'[t] = line[t],
         NEW units \in Seq(Units),
         answers' = [answers EXCEPT ![sock[t]] = @ \o units],
         Serves(t)', Unsent(t)' \in Nat, Unsent(t)' + Len(units) = Unsent(t),
         \A i \in 1..Len(units) :
           units[i] = UnitOf(line[t], 1 + LengthOf(line[t]) - Unsent(t) + i)
  PROVE  Exchange'
<1> DEFINE s == sock[t]
<1>1. /\ \A u \in Threads : u # t => /\ Serves(u)' <=> Serves(u)
                                     /\ Unsent(u)' = Unsent(u)
                                     /\ sock'[u] = sock[u] /\ line'[u] = line[u]
      /\ \A c \in Clients : /\ Waiting(c)' <=> Waiting(c)
                            /\ HasRead(c)' = HasRead(c)
                            /\ Expects(c)' <=> Expects(c)
  BY OthersKeep
<1>2. UNCHANGED <<want, got, cpc, requests>>
  BY DEF cliVars
<1>3. /\ s \in Clients /\ Waiting(s) /\ requests[s] = <<>> /\ want[s] = line[t]
      /\ OnItsWay(s) + Unsent(t) = 1 + LengthOf(line[t])
      /\ \A u \in Threads : u # t /\ Unsent(u) # 0 => sock[u] # s
  BY SenderHasClient
<1>4. answers'[s] = answers[s] \o units /\ \A c \in Clients : c # s => answers'[c] = answers[c]
  BY <1>3 DEF Types, SocketTypes
<1>5. /\ HasRead(s) \in Nat /\ OnItsWay(s) = HasRead(s) + Len(answers[s])
      /\ answers[s] \in Seq(Units) /\ Len(answers[s]) \in Nat
  BY <1>3, WayType
<1>6. /\ Len(answers'[s]) = Len(answers[s]) + Len(units) /\ Len(units) \in Nat
      /\ \A i \in 1..Len(answers[s]) + Len(units) :
           answers'[s][i] = IF i <= Len(answers[s]) THEN answers[s][i] ELSE units[i - Len(answers[s])]
  <2> DEFINE a == answers[s]
  <2>1. a \in Seq(Units) /\ units \in Seq(Units) /\ answers'[s] = a \o units
    BY <1>4, <1>5
  <2> HIDE DEF a
  <2>2. /\ Len(a \o units) = Len(a) + Len(units)
        /\ \A i \in 1..Len(a) + Len(units) :
             (a \o units)[i] = IF i <= Len(a) THEN a[i] ELSE units[i - Len(a)]
    BY <2>1, ConcatProperties
  <2>3. Len(units) \in Nat
    BY <2>1, LenProperties
  <2> QED BY <2>1, <2>2, <2>3 DEF a
<1>7. Unsent(t) \in Nat /\ 1 + LengthOf(line[t]) = HasRead(s) + Len(answers[s]) + Unsent(t)
  BY <1>3, <1>5, UnsentType DEF Exchange
<1>8. OnItsWay(s)' = OnItsWay(s) + Len(units)
  BY <1>1, <1>3, <1>5, <1>6 DEF OnItsWay
<1>9. OnItsWay(s)' + Unsent(t)' = 1 + LengthOf(line[t])
  <2> DEFINE a == OnItsWay(s)
             b == OnItsWay(s)'
             n == Len(units)
             m == Unsent(t)
             k == Unsent(t)'
  <2>1. /\ a = HasRead(s) + Len(answers[s]) /\ a + m = 1 + LengthOf(line[t]) /\ b = a + n
        /\ k + n = m /\ n \in Nat /\ m \in Nat /\ k \in Nat
    BY <1>3, <1>5, <1>6, <1>7, <1>8
  <2>2. a \in Nat
    BY <1>5
  <2> HIDE DEF a, b, n, m, k
  <2>3. b + k = a + m
    <3>1. b = a + n /\ k + n = m /\ n \in Nat /\ k \in Nat
      BY <2>1
    <3> QED BY <2>2, <3>1
  <2> QED BY <2>1, <2>3 DEF b, k
<1>10. \A c \in Clients : c # s => OnItsWay(c)' = OnItsWay(c) /\ (Asked(c)' <=> Asked(c))
  BY <1>1, <1>2, <1>4 DEF OnItsWay, Asked
<1>11. ASSUME NEW u \in Threads PROVE Serves(u)' /\ Replies(u)'
  <2>1. Serves(u)'
    BY <1>1 DEF Exchange
  <2>2. CASE u = t
    BY <1>1, <1>2, <1>3, <1>9, <2>1, <2>2 DEF Replies
  <2>3. CASE u # t /\ Unsent(u) = 0
    BY <1>1, <2>1, <2>3 DEF Replies
  <2>4. CASE u # t /\ Unsent(u) # 0
    <3>1. /\ sock[u] \in Clients /\ Waiting(sock[u]) /\ requests[sock[u]] = <<>>
          /\ want[sock[u]] = line[u] /\ sock[u] # s
          /\ OnItsWay(sock[u]) + Unsent(u) = 1 + LengthOf(line[u])
      BY <1>3, <2>4, SenderHasClient
    <3> QED BY <1>1, <1>2, <1>10, <2>1, <2>4, <3>1 DEF Replies
  <2> QED BY <2>2, <2>3, <2>4
<1>12. ASSUME NEW c \in Clients, c # s PROVE InTurn(c)' /\ Expects(c)'
  <2>1. InTurn(c) /\ Expects(c)
    BY DEF Exchange
  <2>2. (\A u \in Threads : sock'[u] = c => Unsent(u)' = 0) =>
           \A u \in Threads : sock[u] = c => Unsent(u) = 0
    BY <1>1, <1>12
  <2>3. Answered(c) => Answered(c)'
    BY <1>2, <1>10, <1>12, <2>2 DEF Answered
  <2> QED BY <1>1, <1>2, <1>4, <1>10, <1>12, <2>1, <2>3 DEF InTurn
<1>13. InTurn(s)' /\ Expects(s)'
  <2>1. InTurn(s) /\ Expects(s)
    BY <1>3 DEF Exchange
  <2>2. Answered(s)'
    <3>1. ASSUME \A u \in Threads : sock'[u] = s => Unsent(u)' = 0
          PROVE  OnItsWay(s)' = 1 + LengthOf(want'[s])
      <4>1. Unsent(t)' = 0
        BY <3>1
      <4>2. OnItsWay(s)' \in Nat
        BY <1>5, <1>6, <1>8
      <4> QED BY <1>2, <1>3, <1>9, <4>1, <4>2
    <3> QED BY <1>2, <1>3, <3>1 DEF Answered
  <2>3. \A i \in 1..Len(got'[s]) : got'[s][i] = UnitOf(want'[s], i + 1)
    BY <1>2, <1>3, <2>1 DEF InTurn
  <2>4. \A i \in 1..Len(answers[s]) : answers[s][i] = UnitOf(want[s], HasRead(s) + i)
    BY <1>3, <2>1 DEF InTurn
  <2>5. ASSUME NEW i \in 1..Len(answers'[s])
        PROVE  answers'[s][i] = UnitOf(want'[s], HasRead(s)' + i)
    <3>1. HasRead(s)' = HasRead(s) /\ want'[s] = line[t] /\ want[s] = line[t]
      BY <1>1, <1>2, <1>3
    <3>2. CASE i <= Len(answers[s])
      <4>1. i \in 1..Len(answers[s]) /\ answers'[s][i] = answers[s][i]
        BY <1>5, <1>6, <2>5, <3>2
      <4> QED BY <2>4, <3>1, <4>1
    <3>3. CASE ~ (i <= Len(answers[s]))
      <4> DEFINE k == i - Len(answers[s])
      <4>1. k \in 1..Len(units) /\ answers'[s][i] = units[k]
        BY <1>5, <1>6, <2>5, <3>3
      <4>2. 1 + LengthOf(line[t]) - Unsent(t) + k = HasRead(s) + i
        <5> DEFINE l == LengthOf(line[t])
                   h == HasRead(s)
                   a == Len(answers[s])
                   m == Unsent(t)
        <5>1. h \in Nat /\ a \in Nat /\ m \in Nat /\ i \in Int /\ 1 + l = h + a + m
          BY <1>5, <1>7, <2>5
        <5>2. line[t] \in Files \cup {List}
          BY SenderServes DEF Exchange, Serves
        <5>3. l \in Nat
          BY <5>2, AnswerLengths
        <5> HIDE DEF l, h, a, m
        <5>4. 1 + l - m + (i - a) = h + i
          BY <5>1, <5>3
        <5> QED BY <5>4 DEF l, h, a, m
      <4> QED BY <3>1, <4>1, <4>2
    <3> QED BY <3>2, <3>3
  <2> QED BY <1>1, <1>3, <2>1, <2>2, <2>3, <2>5 DEF InTurn
<1> QED BY <1>11, <1>12, <1>13 DEF Exchange

(* A thread takes a request: it is the one that the client of its connection *)
(* waits with.                                                               *)
LEMMA RequestKeepsExchange ==
  ASSUME Types, InOrder, HandOver, Exchange, NEW t \in Threads, RecvRequest(t),
         UNCHANGED cliVars
  PROVE  /\ Exchange'
         /\ pc' = [pc EXCEPT ![t] = IF want[sock[t]] = List THEN "count" ELSE "open"]
         /\ requests' = [requests EXCEPT ![sock[t]] = <<>>]
         /\ sock[t] \in Clients /\ requests[sock[t]] # <<>>
<1> DEFINE s == sock[t]
<1>1. pc[t] = "blocked" /\ requests[s] # <<>> /\ s \in Clients
  BY DEF RecvRequest, Types, Counts
<1>2. Waiting(s) /\ Asked(s) /\ Expects(s) /\ InTurn(s)
  BY <1>1 DEF Exchange, InTurn, Answered
<1>3. /\ requests[s] = <<want[s]>> /\ answers[s] = <<>> /\ cpc[s] \in {"counting", "sizing"}
      /\ want[s] \in Files \cup {List} /\ got[s] = <<>>
  BY <1>2 DEF Asked, Expects
<1>4. Head(requests[s]) = want[s] /\ Len(requests[s]) = 1
  BY <1>3
<1>5. requests' = [requests EXCEPT ![s] = <<>>]
  <2>1. PICK n \in 1..Len(requests[s]) : requests' = [requests EXCEPT ![s] = SubSeq(@, n + 1, Len(@))]
    BY DEF RecvRequest
  <2>2. n + 1 \in Int /\ Len(requests[s]) \in Int /\ Len(requests[s]) < n + 1
    BY <1>4, <2>1
  <2>3. SubSeq(requests[s], n + 1, Len(requests[s])) = <<>>
    BY <2>2, SubSeqEmpty
  <2> QED BY <2>1, <2>3
<1>6. /\ pc' = [pc EXCEPT ![t] = Branch(want[s])] /\ line' = [line EXCEPT ![t] = want[s]]
      /\ UNCHANGED <<sock, file, left, answers, want, got, cpc>>
  BY <1>4 DEF RecvRequest, Takes, Moves, cliVars
<1>7. Branch(want[s]) = IF want[s] = List THEN "count" ELSE "open"
  BY <1>3, ListIsNoFile DEF Branch
<1>8. /\ pc'[t] = Branch(want[s]) /\ line'[t] = want[s]
      /\ \A u \in Threads : u # t => pc'[u] = pc[u] /\ line'[u] = line[u]
  BY <1>6 DEF Types, ServerTypes
<1>9. requests'[s] = <<>> /\ \A c \in Clients : c # s => requests'[c] = requests[c]
  BY <1>1, <1>5 DEF Types, SocketTypes
<1>10. /\ \A u \in Threads : u # t => /\ Serves(u)' <=> Serves(u)
                                      /\ Unsent(u)' = Unsent(u)
                                      /\ sock'[u] = sock[u] /\ line'[u] = line[u]
       /\ \A c \in Clients : /\ Waiting(c)' <=> Waiting(c)
                             /\ HasRead(c)' = HasRead(c)
                             /\ Expects(c)' <=> Expects(c)
  BY <1>6, <1>8, OthersKeep
<1>11. Serves(t)' /\ Unsent(t)' = 1 + LengthOf(want[s])
  BY <1>3, <1>7, <1>8, ListIsNoFile DEF Serves, Unsent, LengthOf
<1>12. OnItsWay(s) = 0 /\ OnItsWay(s)' = 0
  <2>1. HasRead(s) = 0 /\ HasRead(s)' = 0
    BY <1>3, <1>6 DEF HasRead
  <2>2. Len(answers[s]) = 0 /\ Len(answers'[s]) = 0
    BY <1>3, <1>6
  <2> QED BY <1>6, <2>1, <2>2 DEF OnItsWay
<1>13. LengthOf(want[s]) \in Nat
  BY <1>3, AnswerLengths
<1>14. \A c \in Clients : OnItsWay(c)' = OnItsWay(c)
  BY <1>6, <1>10 DEF OnItsWay
<1>15. ASSUME NEW u \in Threads PROVE Serves(u)' /\ Replies(u)'
  <2>1. CASE u = t
    BY <1>2, <1>6, <1>8, <1>9, <1>10, <1>1, <1>11, <1>12, <1>13, <2>1 DEF Replies
  <2>2. CASE u # t
    <3>1. Serves(u)'
      BY <1>10, <2>2 DEF Exchange
    <3>2. CASE Unsent(u) = 0
      BY <1>10, <2>2, <3>1, <3>2 DEF Replies
    <3>3. CASE Unsent(u) # 0
      <4>1. /\ sock[u] \in Clients /\ Waiting(sock[u]) /\ requests[sock[u]] = <<>>
            /\ want[sock[u]] = line[u]
            /\ OnItsWay(sock[u]) + Unsent(u) = 1 + LengthOf(line[u])
        BY <3>3, SenderHasClient
      <4>2. sock[u] # s
        BY <1>1, <4>1
      <4> QED BY <1>6, <1>9, <1>10, <1>14, <2>2, <3>1, <3>3, <4>1, <4>2 DEF Replies
    <3> QED BY <3>2, <3>3
  <2> QED BY <2>1, <2>2
<1>16. ASSUME NEW c \in Clients, c # s PROVE InTurn(c)' /\ Expects(c)'
  <2>1. InTurn(c) /\ Expects(c)
    BY DEF Exchange
  <2>2. (\A u \in Threads : sock'[u] = c => Unsent(u)' = 0) =>
           \A u \in Threads : sock[u] = c => Unsent(u) = 0
    BY <1>10, <1>16
  <2>3. Answered(c) => Answered(c)'
    BY <1>6, <1>9, <1>14, <1>16, <2>2 DEF Answered
  <2>4. Asked(c) => Asked(c)'
    BY <1>6, <1>9, <1>16 DEF Asked
  <2> QED BY <1>6, <1>9, <1>10, <1>16, <2>1, <2>3, <2>4 DEF InTurn
<1>17. InTurn(s)' /\ Expects(s)'
  <2>1. sock'[t] = s /\ Unsent(t)' # 0
    BY <1>6, <1>11, <1>13
  <2>2. Answered(s)'
    BY <1>9, <2>1 DEF Answered
  <2> QED BY <1>1, <1>2, <1>6, <1>10, <2>2 DEF InTurn
<1> QED BY <1>1, <1>5, <1>6, <1>7, <1>15, <1>16, <1>17 DEF Exchange

(* Every step of a thread, with a descriptor to spare. *)
LEMMA ThreadKeepsExchange ==
  ASSUME Types, InOrder, HandOver, Exchange, LowestFree # NoFd,
         NEW t \in Threads, Thread(t), UNCHANGED cliVars
  PROVE  Exchange'
<1>0. /\ Serves(t) /\ Unsent(t) \in Nat
      /\ DirAtStart \in Nat /\ DirAtStart >= 2 /\ dirSize = DirAtStart
      /\ line[t] \in Files => FileSize[line[t]] \in Nat /\ LengthOf(line[t]) = FileSize[line[t]]
      /\ LengthOf(List) = DirAtStart
  BY UnsentType, SizesAreNumbers, ListIsNoFile DEF Exchange, HandOver, Steady, LengthOf
<1>1. CASE CopyInfo(t)
  <2>1. /\ pc[t] = "start" /\ pc'[t] = "recv"
        /\ \A u \in Threads : u # t => pc'[u] = pc[u]
        /\ UNCHANGED <<requests, answers, sock, line, file, left>>
    BY <1>1 DEF CopyInfo, Moves, sockVars, Types, ServerTypes
  <2>2. Serves(t)' /\ Unsent(t)' = 0 /\ Unsent(t) = 0
    BY <2>1 DEF Serves, Unsent
  <2> QED BY <2>1, <2>2, StepKeepsExchange
<1>2. CASE CallRecv(t)
  <2>1. Copied(t) /\ pc[t] = "recv"
    BY <1>2 DEF CallRecv, Moves, Copied
  <2>2. Connected(fd[t])
    BY <2>1, ThreadSocket
  <2>3. /\ pc'[t] = "blocked"
        /\ \A u \in Threads : u # t => pc'[u] = pc[u] /\ sock'[u] = sock[u]
        /\ UNCHANGED <<requests, answers, line, file, left>>
    BY <1>2, <2>2 DEF CallRecv, Moves, sockVars, Types, ServerTypes
  <2>4. Serves(t)' /\ Unsent(t)' = 0 /\ Unsent(t) = 0
    BY <2>1, <2>3 DEF Serves, Unsent
  <2> QED BY <2>3, <2>4, StepKeepsExchange
<1>3. CASE RecvRequest(t)
  BY <1>3, RequestKeepsExchange
<1>4. CASE RecvNothing(t) \/ RecvReset(t)
  <2>1. pc[t] = "blocked" /\ peer[sock[t]] # "open"
    BY <1>4 DEF RecvNothing, RecvReset, Moves
  <2> QED BY <2>1 DEF InOrder, PeersStay
<1>5. CASE CloseClient(t)
  BY <1>5 DEF CloseClient, Moves, InOrder, NobodyQuits
<1>6. CASE OpenFile(t)
  <2>1. pc[t] = "open" /\ line[t] \in Files
    BY <1>0, <1>6 DEF OpenFile, Moves, Serves
  <2>2. /\ pc'[t] = "size" /\ file'[t] = LowestFree
        /\ \A u \in Threads : u # t => pc'[u] = pc[u] /\ file'[u] = file[u]
        /\ UNCHANGED <<requests, answers, sock, line, left>>
    BY <1>6, <2>1 DEF OpenFile, Moves, Types, ServerTypes
  <2>3. Serves(t)' /\ Unsent(t)' = Unsent(t)
    BY <2>1, <2>2 DEF Serves, Unsent
  <2> QED BY <2>2, <2>3, StepKeepsExchange
<1>7. CASE SendSize(t)
  <2>1. pc[t] = "size" /\ line[t] \in Files /\ file[t] # NoFd /\ Copied(t)
    BY <1>0, <1>7 DEF SendSize, Moves, Serves, Copied
  <2>2. /\ pc'[t] = "body" /\ \A u \in Threads : u # t => pc'[u] = pc[u]
        /\ UNCHANGED <<requests, sock, line, file, left>>
    BY <1>7 DEF SendSize, Moves, Types, ServerTypes
  <2>3. Connected(fd[t])
    BY <2>1, ThreadSocket
  <2>4. Opened(t)
    BY <2>1 DEF Opened, InOrder, HoldsOwnFile, Sending
  <2>5. SendOn(fd[t], <<Size(FileSize[line[t]])>>)
    BY <1>7, <2>3, <2>4 DEF SendSize, SizesOf
  <2> DEFINE units == <<Size(FileSize[line[t]])>>
  <2>6. answers' = [answers EXCEPT ![sock[t]] = @ \o units]
    BY <2>1, <2>5, SendArrives
  <2>7. /\ Serves(t)' /\ Unsent(t)' = FileSize[line[t]]
        /\ Unsent(t) = 1 + FileSize[line[t]]
    BY <2>1, <2>2 DEF Serves, Unsent
  <2>8. units \in Seq(Units) /\ Len(units) = 1 /\ units[1] = Size(FileSize[line[t]])
    BY <1>0, <2>1, UnitTypes
  <2>9. UnitOf(line[t], 1) = Size(FileSize[line[t]])
    BY <1>0, <2>1 DEF UnitOf
  <2> DEFINE n == FileSize[line[t]]
  <2>10. n \in Nat /\ LengthOf(line[t]) = n
    BY <1>0, <2>1
  <2> HIDE DEF units
  <2>11. ASSUME NEW i \in 1..Len(units)
         PROVE  units[i] = UnitOf(line[t], 1 + LengthOf(line[t]) - Unsent(t) + i)
    <3>1. i = 1
      BY <2>8
    <3> HIDE DEF n
    <3>2. 1 + n - (1 + n) + 1 = 1
      BY <2>10
    <3>3. 1 + LengthOf(line[t]) - Unsent(t) + i = 1
      BY <2>7, <2>10, <3>1, <3>2 DEF n
    <3> QED BY <2>8, <2>9, <3>1, <3>3
  <2>12. Unsent(t)' \in Nat /\ Unsent(t)' + Len(units) = Unsent(t) /\ Unsent(t) # 0
    <3> HIDE DEF n
    <3>1. n + 1 = 1 + n /\ 1 + n # 0
      BY <2>10
    <3> QED BY <2>7, <2>8, <2>10, <3>1 DEF n
  <2> QED BY <2>2, <2>6, <2>7, <2>8, <2>11, <2>12, SendKeepsExchange
<1>8. CASE SendBody(t)
  <2>1. pc[t] = "body" /\ line[t] \in Files /\ file[t] # NoFd /\ Copied(t)
    BY <1>0, <1>8 DEF SendBody, Moves, Serves, Copied
  <2>2. /\ pc'[t] = "recv" /\ \A u \in Threads : u # t => pc'[u] = pc[u] /\ file'[u] = file[u]
        /\ UNCHANGED <<requests, sock, line, left>>
    BY <1>8 DEF SendBody, GoesOn, Moves, Types, ServerTypes
  <2>3. SendOn(fd[t], BodyOf(line[t]))
    BY <1>0, <1>8, BodyCloses DEF SendBody
  <2> DEFINE units == Pieces(line[t])
             n == FileSize[line[t]]
  <2>4. answers' = [answers EXCEPT ![sock[t]] = @ \o units]
    BY <2>1, <2>3, SendArrives DEF BodyOf
  <2>5. n \in Nat /\ LengthOf(line[t]) = n
    BY <1>0, <2>1
  <2>6. Serves(t)' /\ Unsent(t)' = 0 /\ Unsent(t) = n
    BY <2>1, <2>2 DEF Serves, Unsent
  <2>7. /\ units \in Seq(Units) /\ Len(units) = n
        /\ \A i \in 1..n : UnitOf(line[t], i + 1) = units[i]
    <3>1. Answer(line[t]) = Pieces(line[t])
      BY <2>1, ListIsNoFile DEF Answer
    <3> QED BY <2>1, <2>5, <3>1, AnswerLengths
  <2> HIDE DEF units, n
  <2>8. CASE n = 0
    <3>1. units = <<>>
      BY <2>7, <2>8, EmptySeq
    <3>2. sock[t] \in Clients
      BY <2>1, ThreadSocket
    <3>3. answers[sock[t]] \o <<>> = answers[sock[t]]
      BY <3>2, ConcatEmptySeq DEF Types, SocketTypes
    <3>4. answers' = answers
      BY <2>4, <3>1, <3>3 DEF Types, SocketTypes
    <3> QED BY <2>2, <2>6, <2>8, <3>4, StepKeepsExchange
  <2>9. CASE n # 0
    <3>1. ASSUME NEW i \in 1..Len(units)
          PROVE  units[i] = UnitOf(line[t], 1 + LengthOf(line[t]) - Unsent(t) + i)
      <4>1. 1 + n - n + i = i + 1 /\ i \in 1..n
        BY <2>5, <2>7, <3>1
      <4> QED BY <2>5, <2>6, <2>7, <4>1
    <3>2. Unsent(t)' \in Nat /\ Unsent(t)' + Len(units) = Unsent(t) /\ Unsent(t) # 0
      BY <2>5, <2>6, <2>7, <2>9
    <3> QED BY <2>2, <2>4, <2>6, <2>7, <3>1, <3>2, SendKeepsExchange
  <2> QED BY <2>8, <2>9
<1>9. CASE SendCount(t)
  <2>1. pc[t] = "count" /\ line[t] = List /\ Copied(t)
    BY <1>0, <1>9 DEF SendCount, Moves, Serves, Copied
  <2>2. /\ pc'[t] = "rewind" /\ file'[t] = LowestFree
        /\ \A u \in Threads : u # t => pc'[u] = pc[u] /\ file'[u] = file[u]
        /\ UNCHANGED <<requests, sock, line, left>>
    BY <1>9 DEF SendCount, Moves, Types, ServerTypes
  <2> DEFINE units == <<Size(DirAtStart)>>
             n == DirAtStart
  <2>3. SendOn(fd[t], units)
    BY <1>0, <1>9 DEF SendCount
  <2>4. answers' = [answers EXCEPT ![sock[t]] = @ \o units]
    BY <2>1, <2>3, SendArrives
  <2>5. Serves(t)' /\ Unsent(t)' = n /\ Unsent(t) = 1 + n /\ LengthOf(line[t]) = n /\ n \in Nat
    BY <1>0, <2>1, <2>2 DEF Serves, Unsent
  <2>6. units \in Seq(Units) /\ Len(units) = 1 /\ units[1] = Size(n)
    BY <1>0, UnitTypes
  <2>7. UnitOf(line[t], 1) = Size(n)
    BY <1>0, <2>1 DEF UnitOf
  <2> HIDE DEF units, n
  <2>8. ASSUME NEW i \in 1..Len(units)
        PROVE  units[i] = UnitOf(line[t], 1 + LengthOf(line[t]) - Unsent(t) + i)
    <3>1. i = 1 /\ 1 + n - (1 + n) + 1 = 1
      BY <2>5, <2>6
    <3> QED BY <2>5, <2>6, <2>7, <3>1
  <2>9. Unsent(t)' \in Nat /\ Unsent(t)' + Len(units) = Unsent(t) /\ Unsent(t) # 0
    BY <2>5, <2>6
  <2> QED BY <2>2, <2>4, <2>5, <2>6, <2>8, <2>9, SendKeepsExchange
<1>10. CASE Rewind(t)
  <2>1. pc[t] = "rewind" /\ line[t] = List /\ file[t] # NoFd
    BY <1>0, <1>10 DEF Rewind, Serves
  <2>2. /\ pc'[t] = "names" /\ left'[t] = DirAtStart
        /\ \A u \in Threads : u # t => pc'[u] = pc[u] /\ left'[u] = left[u]
        /\ UNCHANGED <<requests, answers, sock, line, file>>
    BY <1>0, <1>10 DEF Rewind, Types, ServerTypes
  <2>3. Serves(t)' /\ Unsent(t)' = DirAtStart /\ Unsent(t) = DirAtStart
    BY <1>0, <2>1, <2>2 DEF Serves, Unsent
  <2> QED BY <2>2, <2>3, StepKeepsExchange
<1>11. CASE SendName(t)
  <2> DEFINE n == left[t]
             units == <<Name(n)>>
  <2>1. pc[t] = "names" /\ line[t] = List /\ file[t] # NoFd /\ n \in 1..DirAtStart /\ Copied(t)
    BY <1>0, <1>11 DEF SendName, Moves, Serves, Copied
  <2>2. /\ pc'[t] = IF n = 1 THEN "recv" ELSE "names"
        /\ left'[t] = n - 1
        /\ \A u \in Threads : u # t => pc'[u] = pc[u] /\ left'[u] = left[u]
        /\ UNCHANGED <<requests, sock, line, file>>
    BY <1>11 DEF SendName, Moves, NamesDone, Types, ServerTypes
  <2>3. SendOn(fd[t], units)
    BY <1>11 DEF SendName
  <2>4. answers' = [answers EXCEPT ![sock[t]] = @ \o units]
    BY <2>1, <2>3, SendArrives
  <2>5. Unsent(t) = n /\ n \in Nat /\ n # 0 /\ n <= DirAtStart
    BY <1>0, <2>1 DEF Unsent
  <2>6. Serves(t)' /\ Unsent(t)' = n - 1
    <3>1. CASE n = 1
      BY <2>2, <3>1 DEF Serves, Unsent
    <3>2. CASE n # 1
      <4>1. n - 1 \in 1..DirAtStart
        BY <1>0, <2>5, <3>2
      <4> QED BY <2>1, <2>2, <3>2, <4>1 DEF Serves, Unsent
    <3> QED BY <3>1, <3>2
  <2>7. units \in Seq(Units) /\ Len(units) = 1 /\ units[1] = Name(n)
    BY <2>5, UnitTypes
  <2>8. UnitOf(line[t], 1 + DirAtStart - n + 1) = Name(n)
    <3> DEFINE k == 1 + DirAtStart - n
    <3>1. k \in 1..DirAtStart /\ DirAtStart + 1 - k = n
      BY <1>0, <2>5
    <3>2. Answer(List)[k] = Name(n)
      BY <3>1 DEF Answer, Listing
    <3>3. UnitOf(List, k + 1) = Answer(List)[k]
      BY <1>0, <3>1, AnswerLengths
    <3> QED BY <2>1, <3>2, <3>3
  <2> HIDE DEF units
  <2>9. ASSUME NEW i \in 1..Len(units)
        PROVE  units[i] = UnitOf(line[t], 1 + LengthOf(line[t]) - Unsent(t) + i)
    <3>1. i = 1
      BY <2>7
    <3> QED BY <1>0, <2>1, <2>5, <2>7, <2>8, <3>1
  <2>10. Unsent(t)' \in Nat /\ Unsent(t)' + Len(units) = Unsent(t) /\ Unsent(t) # 0
    BY <2>5, <2>6, <2>7
  <2> QED BY <2>2, <2>4, <2>6, <2>7, <2>9, <2>10, SendKeepsExchange
<1> QED BY <1>1, <1>2, <1>3, <1>4, <1>5, <1>6, <1>7, <1>8, <1>9, <1>10, <1>11 DEF Thread

-----------------------------------------------------------------------------
(* A client that waits without a request under way: how much of the answer  *)
(* is on its way, and when that is all of it.                                *)
LEMMA Portion ==
  ASSUME Types, InOrder, HandOver, Exchange, NEW c \in Clients, Waiting(c), Answered(c)
  PROVE  /\ want[c] \in Files \cup {List} /\ LengthOf(want[c]) \in Nat
         /\ OnItsWay(c) <= 1 + LengthOf(want[c])
         /\ OnItsWay(c) = 1 + LengthOf(want[c]) =>
              \A t \in Threads : sock[t] = c => Unsent(t) = 0
<1>1. want[c] \in Files \cup {List}
  BY DEF Exchange, Expects, Waiting
<1>2. LengthOf(want[c]) \in Nat /\ OnItsWay(c) \in Nat
  BY <1>1, AnswerLengths, WayType
<1>3. ASSUME NEW t \in Threads, sock[t] = c, Unsent(t) # 0
      PROVE  OnItsWay(c) < 1 + LengthOf(want[c])
  <2>1. want[c] = line[t] /\ OnItsWay(c) + Unsent(t) = 1 + LengthOf(line[t])
    BY <1>3 DEF Exchange, Replies
  <2>2. Unsent(t) \in Nat
    BY UnsentType DEF Exchange
  <2> DEFINE m == Unsent(t)
             a == OnItsWay(c)
             l == LengthOf(want[c])
  <2>3. m \in Nat /\ m # 0 /\ a \in Nat /\ l \in Nat /\ a + m = 1 + l
    BY <1>2, <1>3, <2>1, <2>2
  <2> HIDE DEF m, a, l
  <2>4. a < 1 + l
    BY <2>3
  <2> QED BY <2>4 DEF a, l
<1>4. OnItsWay(c) <= 1 + LengthOf(want[c])
  BY <1>2, <1>3 DEF Answered
<1>5. OnItsWay(c) = 1 + LengthOf(want[c]) => \A t \in Threads : sock[t] = c => Unsent(t) = 0
  BY <1>2, <1>3
<1> QED BY <1>1, <1>2, <1>4, <1>5

(* A step of one client. *)
LEMMA ClientStepKeepsExchange ==
  ASSUME Types, InOrder, HandOver, Exchange, NEW c \in Clients, UNCHANGED srvVars,
         \A d \in Clients : d # c =>
           /\ cpc'[d] = cpc[d] /\ want'[d] = want[d] /\ got'[d] = got[d] /\ due'[d] = due[d]
           /\ requests'[d] = requests[d] /\ answers'[d] = answers[d],
         \A t \in Threads : sock[t] = c /\ Unsent(t) # 0 =>
           /\ Waiting(c)' /\ requests'[c] = <<>> /\ want'[c] = want[c]
           /\ OnItsWay(c)' = OnItsWay(c),
         InTurn(c)', Expects(c)'
  PROVE  Exchange'
<1>1. \A t \in Threads : /\ Serves(t)' <=> Serves(t)
                         /\ Unsent(t)' = Unsent(t)
                         /\ sock'[t] = sock[t] /\ line'[t] = line[t]
  BY DEF srvVars, Serves, Unsent
<1>2. \A d \in Clients : d # c => /\ Waiting(d)' <=> Waiting(d)
                                  /\ HasRead(d)' = HasRead(d)
                                  /\ OnItsWay(d)' = OnItsWay(d)
                                  /\ Expects(d)' <=> Expects(d)
                                  /\ Asked(d)' <=> Asked(d)
  BY DEF Waiting, HasRead, OnItsWay, Expects, Asked
<1>3. ASSUME NEW t \in Threads PROVE Serves(t)' /\ Replies(t)'
  <2>1. Serves(t)'
    BY <1>1 DEF Exchange
  <2>2. CASE Unsent(t) = 0
    BY <1>1, <2>1, <2>2 DEF Replies
  <2>3. CASE Unsent(t) # 0
    <3>1. /\ sock[t] \in Clients /\ Waiting(sock[t]) /\ requests[sock[t]] = <<>>
          /\ want[sock[t]] = line[t]
          /\ OnItsWay(sock[t]) + Unsent(t) = 1 + LengthOf(line[t])
      BY <2>3, SenderHasClient
    <3>2. CASE sock[t] = c
      BY <1>1, <2>1, <2>3, <3>1, <3>2 DEF Replies
    <3>3. CASE sock[t] # c
      BY <1>1, <1>2, <2>1, <2>3, <3>1, <3>3 DEF Replies
    <3> QED BY <3>2, <3>3
  <2> QED BY <2>2, <2>3
<1>4. ASSUME NEW d \in Clients, d # c PROVE InTurn(d)' /\ Expects(d)'
  <2>1. InTurn(d) /\ Expects(d)
    BY DEF Exchange
  <2>2. (\A t \in Threads : sock'[t] = d => Unsent(t)' = 0) =>
           \A t \in Threads : sock[t] = d => Unsent(t) = 0
    BY <1>1
  <2>3. Answered(d) => Answered(d)'
    BY <1>2, <1>4, <2>2 DEF Answered
  <2> QED BY <1>2, <1>4, <2>1, <2>3 DEF InTurn
<1> QED BY <1>3, <1>4 DEF Exchange

(* A client that connects has asked for nothing. *)
LEMMA ConnectKeepsExchange ==
  ASSUME Types, InOrder, HandOver, Exchange, NEW c \in Clients, Connect(c), UNCHANGED srvVars
  PROVE  Exchange'
<1>1. /\ cpc[c] = "start" /\ cpc'[c] = "idle"
      /\ \A d \in Clients : d # c => cpc'[d] = cpc[d]
      /\ UNCHANGED <<want, got, due, requests, answers>>
  BY DEF Connect, Types, ClientTypes
<1>2. ~ Waiting(c) /\ ~ Waiting(c)'
  BY <1>1 DEF Waiting
<1>3. \A t \in Threads : sock[t] = c => Unsent(t) = 0
  BY <1>2, SenderHasClient
<1>4. InTurn(c) /\ Expects(c)
  BY DEF Exchange
<1>5. InTurn(c)' /\ Expects(c)'
  BY <1>1, <1>2, <1>4 DEF InTurn, Expects
<1> QED BY <1>1, <1>3, <1>5, ClientStepKeepsExchange

(* A client asks: it has read all of the last answer. *)
LEMMA AskKeepsExchange ==
  ASSUME Types, InOrder, HandOver, Exchange, NEW c \in Clients, NEW request, Enters(c, request),
         \/ request = List /\ cpc' = [cpc EXCEPT ![c] = "counting"]
         \/ request \in Files /\ cpc' = [cpc EXCEPT ![c] = "sizing"],
         UNCHANGED srvVars
  PROVE  Exchange'
<1>1. /\ cpc[c] = "idle" /\ want' = [want EXCEPT ![c] = request] /\ got' = [got EXCEPT ![c] = <<>>]
      /\ requests' = [requests EXCEPT ![c] = Append(@, request)]
      /\ UNCHANGED <<answers, due>>
  BY DEF Enters
<1>2. \A d \in Clients : d # c =>
        /\ cpc'[d] = cpc[d] /\ want'[d] = want[d] /\ got'[d] = got[d] /\ due'[d] = due[d]
        /\ requests'[d] = requests[d] /\ answers'[d] = answers[d]
  BY <1>1 DEF Types, SocketTypes, ClientTypes
<1>3. /\ want'[c] = request /\ got'[c] = <<>> /\ requests'[c] = Append(requests[c], request)
      /\ \/ request = List /\ cpc'[c] = "counting"
         \/ request \in Files /\ cpc'[c] = "sizing"
  BY <1>1 DEF Types, SocketTypes, ClientTypes
<1>4. ~ Waiting(c) /\ InTurn(c)
  BY <1>1 DEF Waiting, Exchange
<1>5. requests[c] = <<>> /\ answers[c] = <<>>
  BY <1>4 DEF InTurn
<1>6. Append(<<>>, request) = <<request>>
  OBVIOUS
<1>7. \A t \in Threads : sock[t] = c => Unsent(t) = 0
  BY <1>4, SenderHasClient
<1>8. Asked(c)' /\ Waiting(c)'
  BY <1>1, <1>3, <1>5, <1>6 DEF Asked, Waiting
<1>9. Len(got'[c]) = 0 /\ Len(answers'[c]) = 0
  BY <1>1, <1>3, <1>5
<1>10. InTurn(c)'
  BY <1>8, <1>9 DEF InTurn
<1>11. Expects(c)'
  BY <1>3, ListIsNoFile DEF Expects
<1> QED BY <1>2, <1>7, <1>10, <1>11, ClientStepKeepsExchange

(* The int a client reads is the number of units that follow. *)
LEMMA IntIsLength ==
  ASSUME Types, InOrder, HandOver, Exchange, NEW c \in Clients, NEW from, NEW to,
         from \in {"counting", "sizing"}, RecvInt(c, from, to)
  PROVE  /\ cpc[c] = from /\ Waiting(c) /\ Answered(c) /\ got[c] = <<>>
         /\ want[c] \in Files \cup {List} /\ LengthOf(want[c]) \in Nat
         /\ answers[c] # <<>> /\ answers' = [answers EXCEPT ![c] = Tail(@)]
         /\ due' = [due EXCEPT ![c] = LengthOf(want[c])]
         /\ cpc' = [cpc EXCEPT ![c] = IF LengthOf(want[c]) = 0 THEN "idle" ELSE to]
         /\ UNCHANGED <<requests, want, got>>
<1>1. ~ EndOfAnswers(c)
  BY DEF EndOfAnswers, HandOver, Steady
<1>2. PICK n \in 0..(MaxSize + MaxDir) :
        /\ answers[c] # <<>> /\ n \in Ints(Head(answers[c]))
        /\ answers' = [answers EXCEPT ![c] = Tail(@)]
        /\ due' = [due EXCEPT ![c] = n]
        /\ cpc' = [cpc EXCEPT ![c] = IF n = 0 THEN "idle" ELSE to]
  BY <1>1 DEF RecvInt, ReadInt
<1>3. cpc[c] = from /\ Waiting(c) /\ UNCHANGED <<requests, want, got>>
  BY DEF RecvInt, Waiting
<1>4. InTurn(c) /\ Expects(c)
  BY DEF Exchange
<1>5. Answered(c) /\ got[c] = <<>>
  BY <1>2, <1>3, <1>4 DEF InTurn, Asked, Expects
<1>6. want[c] \in Files \cup {List} /\ LengthOf(want[c]) \in Nat
  BY <1>3, <1>5, Portion
<1>7. answers[c] \in Seq(Units) /\ 1 \in 1..Len(answers[c]) /\ Head(answers[c]) = answers[c][1]
  BY <1>2 DEF Types, SocketTypes
<1>8. HasRead(c) = 0
  BY <1>3 DEF HasRead
<1>9. answers[c][1] = UnitOf(want[c], 1)
  BY <1>3, <1>4, <1>7, <1>8 DEF InTurn
<1>10. Head(answers[c]) = Size(LengthOf(want[c]))
  BY <1>7, <1>9 DEF UnitOf
<1>11. n = LengthOf(want[c])
  BY <1>2, <1>10 DEF Ints, Size
<1> QED BY <1>2, <1>3, <1>5, <1>6, <1>11

(* The client reads the int at the front of its stream. *)
LEMMA IntKeepsExchange ==
  ASSUME Types, InOrder, HandOver, Exchange, NEW c \in Clients,
         RecvCount(c) \/ RecvSize(c), UNCHANGED srvVars
  PROVE  Exchange'
<1>1. PICK from, to : /\ \/ from = "counting" /\ to = "listing"
                         \/ from = "sizing" /\ to = "fetching"
                      /\ RecvInt(c, from, to)
  BY DEF RecvCount, RecvSize
<1>2. from \in {"counting", "sizing"}
  BY <1>1
<1>3. /\ cpc[c] = from /\ Waiting(c) /\ Answered(c) /\ got[c] = <<>>
      /\ want[c] \in Files \cup {List} /\ LengthOf(want[c]) \in Nat
      /\ answers[c] # <<>> /\ answers' = [answers EXCEPT ![c] = Tail(@)]
      /\ due' = [due EXCEPT ![c] = LengthOf(want[c])]
      /\ cpc' = [cpc EXCEPT ![c] = IF LengthOf(want[c]) = 0 THEN "idle" ELSE to]
      /\ UNCHANGED <<requests, want, got>>
  BY <1>1, <1>2, IntIsLength
<1> DEFINE l == LengthOf(want[c])
<1>4. /\ cpc'[c] = IF l = 0 THEN "idle" ELSE to
      /\ due'[c] = l /\ answers'[c] = Tail(answers[c])
      /\ \A d \in Clients : d # c => cpc'[d] = cpc[d] /\ due'[d] = due[d] /\ answers'[d] = answers[d]
  BY <1>3 DEF Types, SocketTypes, ClientTypes
<1>5. /\ answers[c] \in Seq(Units) /\ Tail(answers[c]) \in Seq(Units)
      /\ Len(Tail(answers[c])) = Len(answers[c]) - 1
      /\ \A i \in 1..Len(Tail(answers[c])) : Tail(answers[c])[i] = answers[c][i + 1]
      /\ Len(answers[c]) \in Nat \ {0} /\ Len(got[c]) = 0
  BY <1>3, WayType, HeadTailProperties, EmptySeq
<1>6. HasRead(c) = 0 /\ OnItsWay(c) = Len(answers[c])
  <2>1. HasRead(c) = 0
    BY <1>1, <1>3 DEF HasRead
  <2> QED BY <1>5, <2>1 DEF OnItsWay
<1>7. /\ OnItsWay(c) <= 1 + l /\ requests[c] = <<>>
      /\ OnItsWay(c) = 1 + l => \A t \in Threads : sock[t] = c => Unsent(t) = 0
  BY <1>3, Portion DEF Answered
<1>8. InTurn(c) /\ Expects(c)
  BY DEF Exchange
<1>9. CASE l = 0
  <2>1. Len(answers[c]) = 1 /\ \A t \in Threads : sock[t] = c => Unsent(t) = 0
    <3> DEFINE n == Len(answers[c])
    <3>1. n \in Nat \ {0} /\ n <= 1 + l /\ l = 0
      BY <1>5, <1>6, <1>7, <1>9
    <3> HIDE DEF n, l
    <3>2. n = 1 /\ n = 1 + l
      BY <3>1
    <3> QED BY <1>6, <1>7, <3>2 DEF n, l
  <2>2. answers'[c] = <<>>
    BY <1>4, <1>5, <2>1, EmptySeq
  <2>3. cpc'[c] = "idle" /\ ~ Waiting(c)'
    BY <1>4, <1>9 DEF Waiting
  <2>4. InTurn(c)'
    BY <1>3, <1>7, <2>2, <2>3 DEF InTurn
  <2>5. Expects(c)'
    BY <2>3 DEF Expects
  <2> QED BY <1>3, <1>4, <2>1, <2>4, <2>5, ClientStepKeepsExchange
<1>10. CASE l # 0
  <2>1. cpc'[c] = to /\ to \in {"listing", "fetching"} /\ Waiting(c)'
    BY <1>1, <1>4, <1>10 DEF Waiting
  <2>2. HasRead(c)' = 1
    <3>1. HasRead(c)' = 1 + Len(got'[c])
      BY <2>1 DEF HasRead
    <3> QED BY <1>3, <1>5, <3>1
  <2>3. OnItsWay(c)' = OnItsWay(c)
    <3>1. OnItsWay(c)' = 1 + Len(answers'[c])
      BY <2>2 DEF OnItsWay
    <3>2. 1 + Len(answers'[c]) = Len(answers[c])
      BY <1>4, <1>5
    <3> QED BY <1>6, <3>1, <3>2
  <2>4. Answered(c)'
    BY <1>3, <2>3 DEF Answered, srvVars, Unsent
  <2>5. ASSUME NEW i \in 1..Len(answers'[c])
        PROVE  answers'[c][i] = UnitOf(want'[c], HasRead(c)' + i)
    <3>1. answers'[c][i] = answers[c][i + 1] /\ i + 1 \in 1..Len(answers[c])
      BY <1>4, <1>5
    <3>2. answers[c][i + 1] = UnitOf(want[c], 0 + (i + 1))
      BY <1>3, <1>6, <1>8, <3>1 DEF InTurn
    <3>3. 0 + (i + 1) = 1 + i
      OBVIOUS
    <3> QED BY <1>3, <2>2, <3>1, <3>2, <3>3
  <2>6. InTurn(c)'
    BY <1>3, <1>5, <2>1, <2>4, <2>5 DEF InTurn
  <2>7. Expects(c)'
    <3>1. to = "listing" => want[c] = List
      BY <1>1, <1>3, <1>8 DEF Expects
    <3>2. to = "fetching" => want[c] \in Files
      BY <1>1, <1>3, <1>8 DEF Expects
    <3>3. want[c] = List => l = DirAtStart
      BY DEF LengthOf
    <3>4. want[c] \in Files => l = FileSize[want[c]]
      BY ListIsNoFile DEF LengthOf
    <3>5. l + Len(got[c]) = l
      BY <1>3, <1>5
    <3>6. DirAtStart \in Nat
      BY SizesAreNumbers
    <3> HIDE DEF l
    <3> QED BY <1>3, <1>4, <1>10, <2>1, <3>1, <3>2, <3>3, <3>4, <3>5, <3>6 DEF Expects
  <2> QED BY <1>3, <1>4, <1>7, <2>1, <2>3, <2>6, <2>7, ClientStepKeepsExchange
<1> QED BY <1>9, <1>10

(* recv() returns the first units that have arrived, which come next. *)
LEMMA Reading ==
  ASSUME Types, InOrder, HandOver, Exchange, NEW c \in Clients, NEW k \in Nat,
         cpc[c] \in {"listing", "fetching"}, Reads(c, k)
  PROVE  /\ Waiting(c) /\ Answered(c) /\ want[c] \in Files \cup {List}
         /\ k \in Nat \ {0} /\ k <= Len(answers[c])
         /\ 1 + Len(got[c]) + Len(answers[c]) <= 1 + LengthOf(want[c])
         /\ answers'[c] \in Seq(Units) /\ Len(answers'[c]) + k = Len(answers[c])
         /\ got'[c] \in Seq(Units) /\ Len(got'[c]) = Len(got[c]) + k
         /\ \A i \in 1..Len(got'[c]) : got'[c][i] = UnitOf(want[c], i + 1)
         /\ \A i \in 1..Len(answers'[c]) :
              answers'[c][i] = UnitOf(want[c], 1 + Len(got'[c]) + i)
         /\ \A d \in Clients : d # c => got'[d] = got[d] /\ answers'[d] = answers[d]
<1> DEFINE s == answers[c]
           g == got[c]
           first == SubSeq(s, 1, k)
           rest == SubSeq(s, k + 1, Len(s))
<1>1. /\ s \in Seq(Units) /\ Len(s) \in Nat /\ g \in Seq(Units) /\ Len(g) \in Nat
      /\ OnItsWay(c) = HasRead(c) + Len(s)
  BY WayType
<1>2. k \in 1..Len(s) /\ k \in Nat \ {0} /\ k <= Len(s)
  BY <1>1 DEF Reads
<1>3. /\ got'[c] = g \o first /\ answers'[c] = rest
      /\ \A d \in Clients : d # c => got'[d] = got[d] /\ answers'[d] = answers[d]
  BY DEF Reads, Types, SocketTypes, ClientTypes
<1>4. Waiting(c) /\ InTurn(c) /\ HasRead(c) = 1 + Len(g)
  BY DEF Waiting, Exchange, HasRead
<1>5. Answered(c)
  BY <1>4 DEF InTurn, Asked
<1>6. /\ want[c] \in Files \cup {List}
      /\ 1 + Len(g) + Len(s) <= 1 + LengthOf(want[c])
  BY <1>1, <1>4, <1>5, Portion
<1>7. first \in Seq(Units) /\ Len(first) = k /\ \A i \in 1..k : first[i] = s[i]
  <2>1. \A i \in 1..k : s[i] \in Units
    BY <1>1, <1>2
  <2>2. /\ first \in Seq(Units) /\ Len(first) = IF 1 <= k THEN k - 1 + 1 ELSE 0
        /\ \A i \in 1..(k - 1 + 1) : first[i] = s[1 + i - 1]
    BY <1>2, <2>1, SubSeqProperties
  <2>3. k - 1 + 1 = k /\ 1 <= k /\ \A i \in 1..k : 1 + i - 1 = i
    BY <1>2
  <2> HIDE DEF first
  <2> QED BY <2>2, <2>3
<1>8. rest \in Seq(Units) /\ Len(rest) + k = Len(s) /\ \A i \in 1..Len(rest) : rest[i] = s[k + i]
  <2> DEFINE n == Len(s)
  <2>1. \A i \in (k + 1)..n : s[i] \in Units
    BY <1>1, <1>2
  <2>2. k + 1 \in Int /\ n \in Int
    BY <1>1, <1>2
  <2>3. /\ rest \in Seq(Units) /\ Len(rest) = IF k + 1 <= n THEN n - (k + 1) + 1 ELSE 0
        /\ \A i \in 1..(n - (k + 1) + 1) : rest[i] = s[k + 1 + i - 1]
    BY <2>1, <2>2, SubSeqProperties
  <2>4. n \in Nat /\ k \in Nat /\ k <= n
    BY <1>1, <1>2
  <2> HIDE DEF rest, n
  <2>5. Len(rest) = n - k
    BY <2>3, <2>4
  <2>6. ASSUME NEW i \in 1..Len(rest) PROVE rest[i] = s[k + i]
    <3>1. i \in 1..(n - (k + 1) + 1) /\ k + 1 + i - 1 = k + i
      BY <2>4, <2>5, <2>6
    <3> QED BY <2>3, <3>1
  <2>7. Len(rest) + k = n
    BY <2>4, <2>5
  <2> QED BY <2>3, <2>6, <2>7 DEF n
<1> HIDE DEF first, rest
<1>9. /\ g \o first \in Seq(Units) /\ Len(g \o first) = Len(g) + k
      /\ \A i \in 1..Len(g) + k : (g \o first)[i] = IF i <= Len(g) THEN g[i] ELSE first[i - Len(g)]
  <2>1. Len(first) = k /\ first \in Seq(Units) /\ g \in Seq(Units)
    BY <1>1, <1>7
  <2> HIDE DEF g
  <2> QED BY <2>1, ConcatProperties
<1>10. ASSUME NEW i \in 1..Len(got'[c]) PROVE got'[c][i] = UnitOf(want[c], i + 1)
  <2>1. i \in 1..Len(g) + k
    BY <1>3, <1>9
  <2>2. CASE i <= Len(g)
    <3>1. i \in 1..Len(g) /\ got'[c][i] = g[i]
      BY <1>1, <1>2, <1>3, <1>9, <2>1, <2>2
    <3> QED BY <1>4, <3>1 DEF InTurn
  <2>3. CASE ~ (i <= Len(g))
    <3>1. i - Len(g) \in 1..k /\ got'[c][i] = first[i - Len(g)]
      BY <1>1, <1>2, <1>3, <1>9, <2>1, <2>3
    <3>2. i - Len(g) \in 1..Len(s) /\ got'[c][i] = s[i - Len(g)]
      BY <1>1, <1>2, <1>7, <3>1
    <3>3. s[i - Len(g)] = UnitOf(want[c], 1 + Len(g) + (i - Len(g)))
      BY <1>4, <3>2 DEF InTurn
    <3>4. 1 + Len(g) + (i - Len(g)) = i + 1
      <4> DEFINE n == Len(g)
      <4>1. n \in Nat /\ i \in Int
        BY <1>1, <2>1
      <4> HIDE DEF n
      <4>2. 1 + n + (i - n) = i + 1
        BY <4>1
      <4> QED BY <4>2 DEF n
    <3> QED BY <3>2, <3>3, <3>4
  <2> QED BY <2>2, <2>3
<1>11. ASSUME NEW i \in 1..Len(answers'[c])
       PROVE  answers'[c][i] = UnitOf(want[c], 1 + Len(got'[c]) + i)
  <2>1. answers'[c][i] = s[k + i] /\ k + i \in 1..Len(s)
    <3>1. Len(rest) \in Nat /\ i \in 1..Len(rest)
      BY <1>3, <1>8
    <3> QED BY <1>1, <1>2, <1>3, <1>8, <3>1
  <2>2. s[k + i] = UnitOf(want[c], 1 + Len(g) + (k + i))
    BY <1>4, <2>1 DEF InTurn
  <2>3. 1 + Len(g) + (k + i) = 1 + Len(got'[c]) + i
    <3> DEFINE n == Len(g)
               m == Len(got'[c])
    <3>1. n \in Nat /\ k \in Nat /\ i \in Int /\ m = n + k
      BY <1>1, <1>2, <1>3, <1>9
    <3> HIDE DEF n, m
    <3>2. 1 + n + (k + i) = 1 + m + i
      BY <3>1
    <3> QED BY <3>2 DEF n, m
  <2> QED BY <2>1, <2>2, <2>3
<1>12. /\ answers'[c] \in Seq(Units) /\ Len(answers'[c]) + k = Len(answers[c])
       /\ got'[c] \in Seq(Units) /\ Len(got'[c]) = Len(got[c]) + k
  BY <1>3, <1>8, <1>9
<1> QED BY <1>2, <1>3, <1>4, <1>5, <1>6, <1>10, <1>11, <1>12

(* A client that has read a part goes on when something is due, and when    *)
(* nothing is due it has read all of the answer.                             *)
LEMMA ReadsToTheEnd ==
  ASSUME Types, InOrder, HandOver, Exchange, NEW c \in Clients, NEW k \in Nat, Reads(c, k),
         RecvName(c) \/ RecvBody(c)
  PROVE  \/ /\ cpc'[c] = cpc[c] /\ due'[c] # 0
            /\ cpc[c] = "listing" => due'[c] + Len(got'[c]) >= DirAtStart
            /\ cpc[c] = "fetching" => due'[c] + Len(got'[c]) = FileSize[want[c]]
         \/ /\ cpc'[c] = "idle" /\ answers'[c] = <<>>
            /\ Len(got'[c]) = LengthOf(want[c])
<1>1. cpc[c] \in {"listing", "fetching"}
  BY DEF RecvName, RecvBody
<1>2. /\ want[c] \in Files \cup {List}
      /\ k \in Nat \ {0} /\ k <= Len(answers[c])
      /\ 1 + Len(got[c]) + Len(answers[c]) <= 1 + LengthOf(want[c])
      /\ answers'[c] \in Seq(Units) /\ Len(answers'[c]) + k = Len(answers[c])
      /\ Len(got'[c]) = Len(got[c]) + k
  BY <1>1, Reading
<1>3. Len(got[c]) \in Nat /\ Len(answers[c]) \in Nat /\ due[c] \in Nat /\ Expects(c)
  BY WayType DEF Types, ClientTypes, Exchange
<1>4. Len(answers'[c]) \in Nat
  BY <1>2
<1> DEFINE g == Len(got[c])
           h == Len(got'[c])
           a == Len(answers[c])
           b == Len(answers'[c])
           n == due[c]
           l == LengthOf(want[c])
<1>5. l \in Nat
  BY <1>2, AnswerLengths
<1>6. /\ g \in Nat /\ a \in Nat /\ b \in Nat /\ n \in Nat /\ l \in Nat
      /\ k \in Nat /\ k # 0 /\ k <= a /\ 1 + g + a <= 1 + l /\ b + k = a /\ h = g + k
  BY <1>2, <1>3, <1>4, <1>5
<1>7. b = 0 => answers'[c] = <<>>
  BY <1>2, EmptySeq
<1>8. CASE RecvName(c)
  <2>1. /\ cpc[c] = "listing" /\ due'[c] = n - 1
        /\ cpc'[c] = IF n = 1 THEN "idle" ELSE cpc[c]
    BY <1>8 DEF RecvName, Types, ClientTypes
  <2>2. l = DirAtStart /\ n + g >= l /\ n # 0
    BY <1>3, <2>1 DEF Expects, LengthOf, Types, Counts
  <2> HIDE DEF g, h, a, b, n, l
  <2>3. n = 1 => b = 0 /\ h = l
    BY <1>6, <2>2
  <2>4. n # 1 => n - 1 # 0 /\ n - 1 + h >= l
    BY <1>6, <2>2
  <2>5. CASE n = 1
    <3>1. cpc'[c] = "idle" /\ answers'[c] = <<>> /\ h = l
      BY <1>7, <2>1, <2>3, <2>5
    <3> QED BY <3>1 DEF h, l
  <2>6. CASE n # 1
    <3>1. cpc'[c] = cpc[c] /\ due'[c] # 0 /\ due'[c] + h >= DirAtStart
      BY <2>1, <2>2, <2>4, <2>6
    <3> QED BY <2>1, <3>1 DEF h
  <2> QED BY <2>5, <2>6
<1>9. CASE RecvBody(c)
  <2>1. PICK j \in 1..a : /\ Reads(c, j) /\ due' = [due EXCEPT ![c] = Rest(@, j)]
                          /\ cpc' = [cpc EXCEPT ![c] = IF due'[c] = 0 THEN "idle" ELSE @]
    BY <1>9 DEF RecvBody
  <2>2. cpc[c] = "fetching"
    BY <1>9 DEF RecvBody
  <2>3. Len(got'[c]) = Len(got[c]) + j /\ j \in Nat
    <3>1. j \in Nat /\ Reads(c, j)
      BY <1>6, <2>1
    <3> QED BY <1>1, <3>1, Reading
  <2>4. j = k
    <3>1. g + j = g + k /\ j \in Nat /\ k \in Nat /\ g \in Nat
      BY <1>6, <2>3
    <3> HIDE DEF g
    <3> QED BY <3>1
  <2>5. due'[c] = Rest(n, k) /\ cpc'[c] = IF due'[c] = 0 THEN "idle" ELSE cpc[c]
    BY <2>1, <2>4 DEF Types, ClientTypes
  <2>6. l = FileSize[want[c]] /\ n + g = l
    BY <1>3, <2>2, ListIsNoFile DEF Expects, LengthOf
  <2> HIDE DEF g, h, a, b, n, l
  <2>7. k <= n
    BY <1>6, <2>6
  <2>8. Rest(n, k) = n - k
    BY <1>6, <2>7 DEF Rest
  <2>9. n - k = 0 => b = 0 /\ h = l
    BY <1>6, <2>6
  <2>10. n - k + h = l
    BY <1>6, <2>6
  <2>11. CASE n - k = 0
    <3>1. cpc'[c] = "idle" /\ answers'[c] = <<>> /\ h = l
      BY <1>7, <2>5, <2>8, <2>9, <2>11
    <3> QED BY <3>1 DEF h, l
  <2>12. CASE n - k # 0
    <3>1. cpc'[c] = cpc[c] /\ due'[c] # 0 /\ due'[c] + h = FileSize[want[c]]
      BY <2>5, <2>6, <2>8, <2>10, <2>12
    <3> QED BY <2>2, <3>1 DEF h
  <2> QED BY <2>11, <2>12
<1> QED BY <1>8, <1>9

(* The client reads names or a part of the file. *)
LEMMA ReadKeepsExchange ==
  ASSUME Types, InOrder, HandOver, Exchange, NEW c \in Clients,
         RecvName(c) \/ RecvBody(c), UNCHANGED srvVars
  PROVE  /\ Exchange'
         /\ Waiting(c) /\ want[c] \in Files \cup {List}
         /\ got'[c] \in Seq(Units) /\ \A i \in 1..Len(got'[c]) : got'[c][i] = UnitOf(want[c], i + 1)
         /\ Waiting(c)' \/ Len(got'[c]) = LengthOf(want[c])
<1>1. cpc[c] \in {"listing", "fetching"} /\ UNCHANGED <<requests, want>>
  BY DEF RecvName, RecvBody
<1>2. ~ EndOfAnswers(c)
  BY DEF EndOfAnswers, HandOver, Steady
<1>3. PICK k \in Nat : Reads(c, k)
  <2>1. PICK k : Reads(c, k)
    BY <1>2 DEF RecvName, RecvBody
  <2>2. k \in Nat
    BY <2>1, WayType DEF Reads
  <2> QED BY <2>1, <2>2
<1>4. /\ Waiting(c) /\ Answered(c) /\ want[c] \in Files \cup {List}
      /\ k \in Nat \ {0} /\ k <= Len(answers[c])
      /\ 1 + Len(got[c]) + Len(answers[c]) <= 1 + LengthOf(want[c])
      /\ answers'[c] \in Seq(Units) /\ Len(answers'[c]) + k = Len(answers[c])
      /\ got'[c] \in Seq(Units) /\ Len(got'[c]) = Len(got[c]) + k
      /\ \A i \in 1..Len(got'[c]) : got'[c][i] = UnitOf(want[c], i + 1)
      /\ \A i \in 1..Len(answers'[c]) :
           answers'[c][i] = UnitOf(want[c], 1 + Len(got'[c]) + i)
      /\ \A d \in Clients : d # c => got'[d] = got[d] /\ answers'[d] = answers[d]
  BY <1>1, <1>3, Reading
<1>5. \/ /\ cpc'[c] = cpc[c] /\ due'[c] # 0
         /\ cpc[c] = "listing" => due'[c] + Len(got'[c]) >= DirAtStart
         /\ cpc[c] = "fetching" => due'[c] + Len(got'[c]) = FileSize[want[c]]
      \/ /\ cpc'[c] = "idle" /\ answers'[c] = <<>>
         /\ Len(got'[c]) = LengthOf(want[c])
  BY <1>3, ReadsToTheEnd
<1>6. \A d \in Clients : d # c => cpc'[d] = cpc[d] /\ due'[d] = due[d]
  BY DEF RecvName, RecvBody, Types, ClientTypes
<1>7. Len(got[c]) \in Nat /\ Len(answers[c]) \in Nat /\ OnItsWay(c) = 1 + Len(got[c]) + Len(answers[c])
  <2>1. HasRead(c) = 1 + Len(got[c])
    BY <1>1 DEF HasRead
  <2> QED BY <2>1, WayType
<1>8. Exchange /\ InTurn(c) /\ Expects(c) /\ requests[c] = <<>>
  BY <1>4 DEF Exchange, Answered
<1>9. CASE cpc'[c] = cpc[c]
  <2>1. Waiting(c)' /\ HasRead(c)' = 1 + Len(got'[c])
    BY <1>1, <1>9 DEF Waiting, HasRead
  <2>2. OnItsWay(c)' = OnItsWay(c)
    <3>1. OnItsWay(c)' = 1 + Len(got'[c]) + Len(answers'[c]) /\ Len(answers'[c]) \in Nat
      BY <1>4, <2>1 DEF OnItsWay
    <3> DEFINE g == Len(got[c])
               h == Len(got'[c])
               a == Len(answers[c])
               b == Len(answers'[c])
    <3>2. g \in Nat /\ a \in Nat /\ b \in Nat /\ k \in Nat /\ b + k = a /\ h = g + k
      BY <1>4, <1>7, <3>1
    <3> HIDE DEF g, h, a, b
    <3>3. 1 + h + b = 1 + g + a
      BY <3>2
    <3> QED BY <1>7, <3>1, <3>3 DEF g, h, a, b
  <2>3. Answered(c)'
    BY <1>1, <1>4, <2>2 DEF Answered, srvVars, Unsent
  <2>4. InTurn(c)'
    BY <1>1, <1>4, <2>1, <2>3 DEF InTurn
  <2>5. cpc'[c] \notin {"idle"} /\ due'[c] # 0
    BY <1>1, <1>5, <1>9
  <2>6. Expects(c)'
    BY <1>1, <1>5, <1>8, <1>9, <2>5 DEF Expects
  <2>7. Exchange'
    BY <1>1, <1>4, <1>6, <1>8, <2>1, <2>2, <2>4, <2>6, ClientStepKeepsExchange
  <2> QED BY <1>4, <2>1, <2>7
<1>10. CASE cpc'[c] # cpc[c]
  <2>1. cpc'[c] = "idle" /\ answers'[c] = <<>> /\ Len(got'[c]) = LengthOf(want[c])
    BY <1>5, <1>10
  <2>2. ~ Waiting(c)'
    BY <2>1 DEF Waiting
  <2>3. OnItsWay(c) = 1 + LengthOf(want[c])
    <3> DEFINE g == Len(got[c])
               h == Len(got'[c])
               a == Len(answers[c])
               l == LengthOf(want[c])
    <3>1. g \in Nat /\ a \in Nat /\ k \in Nat /\ 0 + k = a /\ h = g + k /\ h = l
      <4>1. Len(answers'[c]) = 0
        BY <2>1
      <4> QED BY <1>4, <1>7, <2>1, <4>1
    <3> HIDE DEF g, h, a, l
    <3>2. 1 + g + a = 1 + l
      BY <3>1
    <3> QED BY <1>7, <3>2 DEF g, a, l
  <2>4. \A t \in Threads : sock[t] = c => Unsent(t) = 0
    BY <1>4, <2>3, Portion
  <2>5. InTurn(c)'
    BY <1>1, <1>8, <2>1, <2>2 DEF InTurn
  <2>6. Expects(c)'
    BY <2>1 DEF Expects
  <2>7. Exchange'
    BY <1>1, <1>4, <1>6, <2>4, <2>5, <2>6, ClientStepKeepsExchange
  <2> QED BY <1>4, <2>1, <2>7
<1> QED BY <1>9, <1>10

(* Every step of a client keeps Exchange. *)
LEMMA ClientKeepsExchange ==
  ASSUME OrderlyUse, Types, InOrder, HandOver, Exchange, NEW c \in Clients, Client(c),
         UNCHANGED srvVars
  PROVE  HandOver' /\ Exchange'
<1>1. CASE Arrive(c)
  <2>1. Quiet /\ Connect(c)
    BY <1>1 DEF Arrive, OrderlyUse
  <2> QED BY <2>1, ConnectHandsOver, ConnectKeepsExchange
<1>2. CASE AskList(c) \/ AskFile(c)
  <2>1. PICK request, to :
          /\ Enters(c, request) /\ to \in {"counting", "sizing"}
          /\ cpc' = [cpc EXCEPT ![c] = to]
          /\ \/ request = List /\ cpc' = [cpc EXCEPT ![c] = "counting"]
             \/ request \in Files /\ cpc' = [cpc EXCEPT ![c] = "sizing"]
    <3>1. CASE AskList(c)
      BY <3>1 DEF AskList
    <3>2. CASE AskFile(c)
      <4>1. PICK name \in Asks \ {List, Quit} : Enters(c, name)
        BY <3>2 DEF AskFile
      <4>2. name \in Files
        BY <4>1 DEF OrderlyUse
      <4> QED BY <3>2, <4>1, <4>2 DEF AskFile
    <3> QED BY <1>2, <3>1, <3>2
  <2>2. Exchange'
    BY <2>1, AskKeepsExchange
  <2>3. UNCHANGED <<up, closed, dirSize, backlog, fds>> /\ cpc[c] = "idle"
    BY <1>2, <2>1 DEF Enters, AskList, AskFile, OrderlyUse
  <2>4. \A d \in Clients : cpc'[d] # "gone" /\ (cpc'[d] = "start" <=> cpc[d] = "start")
    BY <2>1, <2>3 DEF Types, ClientTypes, HandOver, Steady, NobodyGone
  <2> QED BY <2>2, <2>3, <2>4, ClientsLeaveHandOver DEF srvVars
<1>3. CASE AskQuit(c)
  BY <1>3, ListIsNoFile DEF AskQuit, Enters, OrderlyUse
<1>4. CASE Vanish(c)
  BY <1>4 DEF Vanish, OrderlyUse
<1>5. CASE ClientReads(c)
  <2>1. Exchange'
    BY <1>5, IntKeepsExchange, ReadKeepsExchange DEF ClientReads
  <2>2. /\ UNCHANGED <<up, closed, dirSize, backlog, fds>>
        /\ cpc[c] \in {"counting", "listing", "sizing", "fetching"}
        /\ \E to \in {"idle", "counting", "listing", "sizing", "fetching"} :
             cpc' = [cpc EXCEPT ![c] = to]
    BY <1>5 DEF ClientReads, RecvCount, RecvSize, RecvInt, RecvName, RecvBody
  <2>3. \A d \in Clients : cpc'[d] # "gone" /\ (cpc'[d] = "start" <=> cpc[d] = "start")
    BY <2>2 DEF Types, ClientTypes, HandOver, Steady, NobodyGone
  <2> QED BY <2>1, <2>2, <2>3, ClientsLeaveHandOver DEF srvVars
<1> QED BY <1>1, <1>2, <1>3, <1>4, <1>5 DEF Client, ClientAsks

(* A step that touches no thread's request and no answer. *)
LEMMA FrameKeepsExchange ==
  ASSUME Types, InOrder, HandOver, Exchange,
         UNCHANGED <<cliVars, requests, answers, pc, sock, line, file, left>>
  PROVE  Exchange'
<1>1. \A t \in Threads : (Serves(t)' <=> Serves(t)) /\ Unsent(t)' = Unsent(t)
  BY DEF Serves, Unsent
<1>2. \A c \in Clients : /\ Waiting(c)' <=> Waiting(c)
                         /\ HasRead(c)' = HasRead(c) /\ OnItsWay(c)' = OnItsWay(c)
                         /\ Expects(c)' <=> Expects(c)
                         /\ Asked(c)' <=> Asked(c)
  BY DEF Waiting, HasRead, OnItsWay, Expects, Asked, cliVars
<1>3. ASSUME NEW t \in Threads PROVE Serves(t)' /\ Replies(t)'
  <2>1. CASE Unsent(t) = 0
    BY <1>1, <2>1 DEF Exchange, Replies
  <2>2. CASE Unsent(t) # 0
    BY <1>1, <1>2, <2>2, SenderHasClient DEF Exchange, Replies, cliVars
  <2> QED BY <2>1, <2>2
<1>4. ASSUME NEW c \in Clients PROVE InTurn(c)' /\ Expects(c)'
  <2>1. Answered(c) => Answered(c)'
    BY <1>1, <1>2 DEF Answered, cliVars
  <2> QED BY <1>2, <2>1 DEF Exchange, InTurn, cliVars
<1> QED BY <1>3, <1>4 DEF Exchange

(* main() sends nothing and reads nothing. *)
LEMMA MainKeepsExchange ==
  ASSUME Types, InOrder, HandOver, Exchange, Main, UNCHANGED cliVars
  PROVE  Exchange'
<1>1. UNCHANGED <<requests, answers, sock, line, file, left>>
  BY DEF Main, MakeSocket, CallAccept, AcceptFails, Accept, CreateThread, sockVars
<1>2. CASE CreateThread
  <2>1. PICK t \in Threads : pc[t] = "none" /\ pc' = [pc EXCEPT ![t] = "start"]
    BY <1>2 DEF CreateThread
  <2>2. pc'[t] = "start" /\ \A u \in Threads : u # t => pc'[u] = pc[u]
    BY <2>1 DEF Types, ServerTypes
  <2>3. Serves(t)' /\ Unsent(t)' = 0 /\ Unsent(t) = 0
    BY <2>1, <2>2 DEF Serves, Unsent
  <2> QED BY <1>1, <2>2, <2>3, StepKeepsExchange
<1>3. CASE UNCHANGED pc
  BY <1>1, <1>3, FrameKeepsExchange
<1> QED BY <1>2, <1>3 DEF Main, MakeSocket, CallAccept, AcceptFails, Accept

-----------------------------------------------------------------------------
(* The descriptors in use. *)
LEMMA SomeDescriptors ==
  ASSUME NEW S \in SUBSET (1..MaxFd)
  PROVE  IsFiniteSet(S) /\ Cardinality(S) \in Nat /\ Cardinality(1..MaxFd) = MaxFd
<1>1. 1 \in Int /\ MaxFd \in Int /\ MaxFd >= 1
  BY FileSocketsAssumption
<1>2. IsFiniteSet(1..MaxFd) /\ Cardinality(1..MaxFd) = MaxFd
  BY <1>1, FS_Interval
<1>3. IsFiniteSet(S)
  BY <1>2, FS_Subset
<1> QED BY <1>2, <1>3, FS_CardinalityType

(* Any set of clients is finite. *)
LEMMA SomeClients ==
  ASSUME EnoughDescriptors, NEW S \in SUBSET Clients
  PROVE  IsFiniteSet(S) /\ Cardinality(S) \in Nat /\ Cardinality(Clients) \in Nat
BY FS_Subset, FS_CardinalityType DEF EnoughDescriptors

(* The counts of Accounts are numbers. *)
LEMMA CountTypes ==
  ASSUME EnoughDescriptors
  PROVE  /\ Spares \in Nat /\ Connections \in Nat /\ Opens \in Nat
         /\ Coming \in Nat /\ Waits \in Nat /\ Cardinality(Clients) \in Nat
         /\ Spares' \in Nat /\ Connections' \in Nat /\ Opens' \in Nat
         /\ Coming' \in Nat /\ Waits' \in Nat
<1>1. /\ Holding({Spare}) \in SUBSET (1..MaxFd) /\ Holding({Spare})' \in SUBSET (1..MaxFd)
      /\ Holding(Clients \cup {Reserved}) \in SUBSET (1..MaxFd)
      /\ Holding(Clients \cup {Reserved})' \in SUBSET (1..MaxFd)
      /\ Holding({FileFd, DirFd}) \in SUBSET (1..MaxFd)
      /\ Holding({FileFd, DirFd})' \in SUBSET (1..MaxFd)
  BY DEF Holding
<1>2. /\ ToCome \in SUBSET Clients /\ ToCome' \in SUBSET Clients
      /\ Unserved \in SUBSET Clients /\ Unserved' \in SUBSET Clients
  BY DEF ToCome, Unserved
<1>3. Spares \in Nat /\ Connections \in Nat /\ Opens \in Nat
  BY <1>1, SomeDescriptors DEF Spares, Connections, Opens
<1>4. Spares' \in Nat /\ Connections' \in Nat /\ Opens' \in Nat
  BY <1>1, SomeDescriptors DEF Spares, Connections, Opens
<1>5. Coming \in Nat /\ Waits \in Nat /\ Coming' \in Nat /\ Waits' \in Nat /\ Cardinality(Clients) \in Nat
  BY <1>2, SomeClients DEF Coming, Waits
<1> QED BY <1>3, <1>4, <1>5

(* One descriptor changes. *)
LEMMA OneChanges ==
  ASSUME NEW f \in 1..MaxFd, \A g \in 1..MaxFd : g # f => fds'[g] = fds[g], NEW uses
  PROVE  /\ fds[f] \notin uses /\ fds'[f] \in uses =>
              Cardinality(Holding(uses))' = Cardinality(Holding(uses)) + 1
         /\ fds[f] \in uses /\ fds'[f] \notin uses =>
              Cardinality(Holding(uses))' = Cardinality(Holding(uses)) - 1
         /\ (fds[f] \in uses <=> fds'[f] \in uses) =>
              Cardinality(Holding(uses))' = Cardinality(Holding(uses))
<1>1. Holding(uses) \in SUBSET (1..MaxFd)
  BY DEF Holding
<1>2. IsFiniteSet(Holding(uses)) /\ Cardinality(Holding(uses)) \in Nat
  BY <1>1, SomeDescriptors
<1>3. ASSUME fds[f] \notin uses, fds'[f] \in uses
      PROVE  Cardinality(Holding(uses))' = Cardinality(Holding(uses)) + 1
  <2>1. Holding(uses)' = Holding(uses) \cup {f} /\ f \notin Holding(uses)
    BY <1>3 DEF Holding
  <2> QED BY <1>2, <2>1, FS_AddElement
<1>4. ASSUME fds[f] \in uses, fds'[f] \notin uses
      PROVE  Cardinality(Holding(uses))' = Cardinality(Holding(uses)) - 1
  <2>1. Holding(uses)' = Holding(uses) \ {f} /\ f \in Holding(uses)
    BY <1>4 DEF Holding
  <2> QED BY <1>2, <2>1, FS_RemoveElement
<1>5. ASSUME fds[f] \in uses <=> fds'[f] \in uses
      PROVE  Cardinality(Holding(uses))' = Cardinality(Holding(uses))
  <2>1. Holding(uses)' = Holding(uses)
    BY <1>5 DEF Holding
  <2> QED BY <2>1
<1> QED BY <1>3, <1>4, <1>5

(* What is in use leaves a descriptor free. *)
LEMMA OneIsFree ==
  ASSUME Types, EnoughDescriptors, Accounts
  PROVE  LowestFree # NoFd
<1> SUFFICES ASSUME LowestFree = NoFd PROVE FALSE
  OBVIOUS
<1> DEFINE A == Holding({Spare})
           B == Holding(Clients \cup {Reserved})
           C == Holding({FileFd, DirFd})
<1>1. \A f \in 1..MaxFd : fds[f] # Free
  <2>1. ASSUME NEW f \in 1..MaxFd, fds[f] = Free PROVE FALSE
    <3> DEFINE free == {g \in 1..MaxFd : fds[g] = Free}
    <3>1. free \in SUBSET Nat /\ free # {}
      BY <2>1
    <3>2. \E x \in free : \A y \in free : x =< y
      BY <3>1, Least
    <3>3. Min(free) \in free /\ LowestFree = Min(free)
      BY <3>1, <3>2 DEF Min, LowestFree
    <3> QED BY <3>3 DEF NoFd
  <2> QED BY <2>1
<1>2. 1..MaxFd = A \cup (B \cup C)
  BY <1>1 DEF Holding, Types, SocketTypes, Uses
<1>3. A \in SUBSET (1..MaxFd) /\ B \in SUBSET (1..MaxFd) /\ C \in SUBSET (1..MaxFd)
  BY DEF Holding
<1>4. /\ IsFiniteSet(A) /\ IsFiniteSet(B) /\ IsFiniteSet(C) /\ Cardinality(1..MaxFd) = MaxFd
      /\ IsFiniteSet(A \cap (B \cup C)) /\ IsFiniteSet(B \cap C)
  <2>1. A \cap (B \cup C) \in SUBSET (1..MaxFd) /\ B \cap C \in SUBSET (1..MaxFd)
    BY <1>3
  <2> HIDE DEF A, B, C
  <2> QED BY <1>3, <2>1, SomeDescriptors
<1>5. Cardinality(A) = Spares /\ Cardinality(B) = Connections /\ Cardinality(C) = Opens
  BY DEF Spares, Connections, Opens
<1> HIDE DEF A, B, C
<1>6. /\ IsFiniteSet(B \cup C)
      /\ Cardinality(B \cup C) = Cardinality(B) + Cardinality(C) - Cardinality(B \cap C)
  BY <1>4, FS_Union
<1>7. MaxFd = Cardinality(A) + Cardinality(B \cup C) - Cardinality(A \cap (B \cup C))
  <2> DEFINE E == B \cup C
  <2>1. IsFiniteSet(A) /\ IsFiniteSet(E)
    BY <1>4, <1>6
  <2>2. Cardinality(A \cup E) = MaxFd
    BY <1>2, <1>4
  <2> HIDE DEF E
  <2>3. Cardinality(A \cup E) = Cardinality(A) + Cardinality(E) - Cardinality(A \cap E)
    BY <2>1, FS_Union
  <2>4. MaxFd = Cardinality(A) + Cardinality(E) - Cardinality(A \cap E)
    BY <2>2, <2>3
  <2> QED BY <2>4 DEF E
<1>8. Cardinality(A \cap (B \cup C)) \in Nat /\ Cardinality(B \cap C) \in Nat
  BY <1>4, FS_CardinalityType
<1>9. /\ Spares \in Nat /\ Connections \in Nat /\ Opens \in Nat
      /\ Coming \in Nat /\ Waits \in Nat /\ Cardinality(Clients) \in Nat
  BY CountTypes
<1> DEFINE m == Cardinality(Clients)
           x == Cardinality(A \cap (B \cup C))
           y == Cardinality(B \cap C)
<1>10. MaxFd = Spares + (Connections + Opens - y) - x
  BY <1>5, <1>6, <1>7
<1>11. asks \in Nat /\ asks <= MaxAsks /\ MaxAsks \in Nat /\ MaxFd \in Nat
  BY FileClientAssumption, FileSocketsAssumption DEF Types, ClientTypes
<1>12. x \in Nat /\ y \in Nat /\ m \in Nat /\ MaxFd > 2 * (m + 1) + MaxAsks
  BY <1>8, <1>9 DEF EnoughDescriptors
<1>13. Opens + Waits <= asks /\ Spares + Connections <= 2 * m + 2
  <2>1. CASE mainAt = "accept"
    BY <1>9, <2>1 DEF Accounts
  <2>2. CASE mainAt # "accept"
    BY <1>9, <2>2 DEF Accounts
  <2> QED BY <2>1, <2>2 DEF Accounts
<1> HIDE DEF m, x, y
<1> QED BY <1>9, <1>10, <1>11, <1>12, <1>13

(* No descriptor is counted twice. *)
LEMMA UsesDiffer ==
  /\ Free \notin {Spare} /\ Free \notin Clients \cup {Reserved} /\ Free \notin {FileFd, DirFd}
  /\ Spare \notin Clients \cup {Reserved} /\ Spare \notin {FileFd, DirFd}
  /\ Reserved \notin {Spare} /\ Reserved \notin {FileFd, DirFd}
  /\ FileFd \notin {Spare} /\ FileFd \notin Clients \cup {Reserved}
  /\ DirFd \notin {Spare} /\ DirFd \notin Clients \cup {Reserved}
  /\ \A c \in Clients : c \notin {Spare} /\ c \notin {FileFd, DirFd}
BY FileSocketsAssumption DEF Uses, Free, Spare, Reserved, FileFd, DirFd

(* socket() takes a spare, accept() a connection. *)
LEMMA MainKeepsAccounts ==
  ASSUME Types, HandOver, EnoughDescriptors, Accounts, LowestFree # NoFd,
         Main, UNCHANGED cliVars
  PROVE  Accounts'
<1>1. /\ Spares \in Nat /\ Connections \in Nat /\ Opens \in Nat
      /\ Coming \in Nat /\ Waits \in Nat /\ Cardinality(Clients) \in Nat
  BY CountTypes
<1>2. LowestFree \in 1..MaxFd /\ fds[LowestFree] = Free
  BY LowestFreeIsFree
<1>3. UNCHANGED asks
  BY DEF cliVars
<1>4. Waits' = Waits
  <2>1. UNCHANGED <<requests, sock>>
    BY DEF Main, MakeSocket, CallAccept, AcceptFails, Accept, CreateThread, sockVars
  <2>2. \A t \in Threads : pc'[t] \in {"open", "count"} <=> pc[t] \in {"open", "count"}
    BY DEF Main, MakeSocket, CallAccept, AcceptFails, Accept, CreateThread, Types, ServerTypes
  <2>3. Unserved' = Unserved
    BY <2>1, <2>2 DEF Unserved
  <2> QED BY <2>3 DEF Waits
<1>5. CASE MakeSocket
  <2>1. /\ mainAt = "socket" /\ mainAt' = "call" /\ UNCHANGED <<backlog, cpc>>
        /\ fds' = [fds EXCEPT ![LowestFree] = Spare]
    BY <1>5 DEF MakeSocket, cliVars
  <2>2. fds'[LowestFree] = Spare /\ \A g \in 1..MaxFd : g # LowestFree => fds'[g] = fds[g]
    BY <1>2, <2>1 DEF Types, SocketTypes
  <2>3. Spares' = Spares + 1 /\ Connections' = Connections /\ Opens' = Opens
    BY <1>2, <2>2, UsesDiffer, OneChanges DEF Spares, Connections, Opens
  <2>4. Coming' = Coming
    BY <2>1 DEF Coming, ToCome
  <2> QED BY <1>1, <1>3, <1>4, <2>1, <2>3, <2>4 DEF Accounts
<1>6. CASE CallAccept
  <2>1. /\ mainAt = "call" /\ mainAt' = "accept" /\ UNCHANGED <<backlog, cpc>>
        /\ fds' = [fds EXCEPT ![LowestFree] = Reserved]
    BY <1>6 DEF CallAccept, cliVars
  <2>2. fds'[LowestFree] = Reserved /\ \A g \in 1..MaxFd : g # LowestFree => fds'[g] = fds[g]
    BY <1>2, <2>1 DEF Types, SocketTypes
  <2>3. Spares' = Spares /\ Connections' = Connections + 1 /\ Opens' = Opens
    BY <1>2, <2>2, UsesDiffer, OneChanges DEF Spares, Connections, Opens
  <2>4. Coming' = Coming
    BY <2>1 DEF Coming, ToCome
  <2> QED BY <1>1, <1>3, <1>4, <2>1, <2>3, <2>4 DEF Accounts
<1>7. CASE AcceptFails
  BY <1>7 DEF AcceptFails
<1>8. CASE Accept
  <2>1. PICK f \in 1..MaxFd : fds[f] = Reserved /\ fds' = [fds EXCEPT ![f] = Head(backlog)]
    BY <1>8 DEF Accept
  <2>2. /\ mainAt = "accept" /\ mainAt' = "create" /\ backlog # <<>> /\ backlog' = Tail(backlog)
        /\ UNCHANGED cpc
    BY <1>8 DEF Accept, cliVars
  <2>3. Head(backlog) \in Clients /\ backlog' = <<>>
    <3>1. Len(backlog) = 1 /\ backlog \in Seq(Clients)
      BY <2>2 DEF HandOver, OneAtATime, Types, SocketTypes
    <3>2. Head(backlog) \in Clients /\ Tail(backlog) \in Seq(Clients) /\ Len(Tail(backlog)) = 0
      BY <3>1
    <3> QED BY <2>2, <3>2, EmptySeq
  <2>4. fds'[f] = Head(backlog) /\ \A g \in 1..MaxFd : g # f => fds'[g] = fds[g]
    BY <2>1 DEF Types, SocketTypes
  <2>5. Spares' = Spares /\ Connections' = Connections /\ Opens' = Opens
    BY <2>1, <2>3, <2>4, UsesDiffer, OneChanges DEF Spares, Connections, Opens
  <2>6. Coming' = Coming - 1
    <3>1. ToCome' = ToCome \ {Head(backlog)} /\ Head(backlog) \in ToCome
      BY <2>2, <2>3 DEF ToCome, HandOver, OneConnection
    <3>2. ToCome \in SUBSET Clients
      BY DEF ToCome
    <3>3. IsFiniteSet(ToCome)
      BY <3>2, SomeClients
    <3> QED BY <3>1, <3>3, FS_RemoveElement DEF Coming
  <2> QED BY <1>1, <1>3, <1>4, <2>2, <2>5, <2>6 DEF Accounts
<1>9. CASE CreateThread
  <2>1. mainAt = "create" /\ mainAt' = "socket" /\ UNCHANGED <<fds, backlog, cpc>>
    BY <1>9 DEF CreateThread, sockVars, cliVars
  <2>2. Spares' = Spares /\ Connections' = Connections /\ Opens' = Opens /\ Coming' = Coming
    BY <2>1 DEF Spares, Connections, Opens, Holding, Coming, ToCome
  <2> QED BY <1>1, <1>3, <1>4, <2>1, <2>2 DEF Accounts
<1> QED BY <1>5, <1>6, <1>7, <1>8, <1>9 DEF Main

(* A thread opens one file or one directory for a request, and a request is *)
(* one entry of a client.                                                    *)
LEMMA ThreadKeepsAccounts ==
  ASSUME Types, InOrder, HandOver, Exchange, EnoughDescriptors, Accounts, LowestFree # NoFd,
         NEW t \in Threads, Thread(t), UNCHANGED cliVars
  PROVE  Accounts'
<1>1. /\ Spares \in Nat /\ Connections \in Nat /\ Opens \in Nat
      /\ Coming \in Nat /\ Waits \in Nat /\ Cardinality(Clients) \in Nat /\ Waits' \in Nat
  BY CountTypes
<1>2. UNCHANGED <<mainAt, backlog, cpc, asks>>
  BY DEF Thread, CopyInfo, CallRecv, RecvRequest, RecvNothing, RecvReset, Takes, CloseClient,
         OpenFile, SendSize, SendBody, SendCount, Rewind, SendName, sockVars, cliVars
<1>3. Coming' = Coming
  BY <1>2 DEF Coming, ToCome
<1>4. Unserved \in SUBSET Clients /\ IsFiniteSet(Unserved)
  <2>1. Unserved \in SUBSET Clients
    BY DEF Unserved
  <2> QED BY <2>1, SomeClients
<1>5. Serves(t)
  BY DEF Exchange
<1>6. CASE UNCHANGED fds /\ Unserved' \subseteq Unserved
  <2>1. Spares' = Spares /\ Connections' = Connections /\ Opens' = Opens
    BY <1>6 DEF Spares, Connections, Opens, Holding
  <2>2. Waits' <= Waits
    BY <1>4, <1>6, FS_Subset DEF Waits
  <2>3. asks \in Nat
    BY DEF Types, ClientTypes
  <2>4. Opens + Waits <= asks
    BY DEF Accounts
  <2>5. Opens + Waits' <= asks
    <3> DEFINE a == Opens
               b == Waits
               d == Waits'
    <3>1. a \in Nat /\ b \in Nat /\ d \in Nat /\ asks \in Nat /\ d <= b /\ a + b <= asks
      BY <1>1, <2>2, <2>3, <2>4
    <3> HIDE DEF a, b, d
    <3>2. a + d <= asks
      BY <3>1
    <3> QED BY <3>2 DEF a, d
  <2> QED BY <1>1, <1>2, <1>3, <2>1, <2>5 DEF Accounts
<1>7. CASE CopyInfo(t) \/ CallRecv(t)
  <2>1. pc[t] \in {"start", "recv"} /\ UNCHANGED <<fds, requests>>
    BY <1>7 DEF CopyInfo, CallRecv, Moves, sockVars
  <2>2. pc'[t] \notin {"open", "count"} /\ \A u \in Threads : u # t => pc'[u] = pc[u] /\ sock'[u] = sock[u]
    BY <1>7 DEF CopyInfo, CallRecv, Moves, Returns, Types, ServerTypes
  <2>3. Unserved' \subseteq Unserved
    BY <2>1, <2>2 DEF Unserved
  <2> QED BY <1>6, <2>1, <2>3
<1>8. CASE RecvRequest(t)
  <2>1. /\ sock[t] \in Clients /\ requests[sock[t]] # <<>>
        /\ requests' = [requests EXCEPT ![sock[t]] = <<>>]
        /\ UNCHANGED <<fds, sock>>
        /\ \A u \in Threads : u # t => pc'[u] = pc[u]
    <3>1. /\ sock[t] \in Clients /\ requests[sock[t]] # <<>>
          /\ requests' = [requests EXCEPT ![sock[t]] = <<>>]
      BY <1>8, RequestKeepsExchange
    <3>2. UNCHANGED <<fds, sock>>
      BY <1>8 DEF RecvRequest, Takes
    <3>3. \E to : pc' = [pc EXCEPT ![t] = to]
      BY <1>8 DEF RecvRequest, Takes, Moves
    <3>4. \A u \in Threads : u # t => pc'[u] = pc[u]
      BY <3>3 DEF Types, ServerTypes
    <3> QED BY <3>1, <3>2, <3>4
  <2>2. Unserved' \subseteq Unserved
    <3> SUFFICES ASSUME NEW c \in Unserved' PROVE c \in Unserved
      OBVIOUS
    <3>1. c \in Clients
      BY DEF Unserved
    <3>2. CASE c = sock[t]
      BY <2>1, <3>1, <3>2 DEF Unserved
    <3>3. CASE c # sock[t]
      <4>1. requests'[c] = requests[c]
        BY <2>1, <3>1, <3>3 DEF Types, SocketTypes
      <4> QED BY <2>1, <3>1, <3>3, <4>1 DEF Unserved
    <3> QED BY <3>2, <3>3
  <2> QED BY <1>6, <2>1, <2>2
<1>9. CASE RecvNothing(t) \/ RecvReset(t)
  <2>1. pc[t] = "blocked" /\ peer[sock[t]] # "open"
    BY <1>9 DEF RecvNothing, RecvReset, Moves
  <2> QED BY <2>1 DEF InOrder, PeersStay
<1>10. CASE CloseClient(t)
  BY <1>10 DEF CloseClient, Moves, InOrder, NobodyQuits
<1>11. CASE OpenFile(t) \/ SendCount(t)
  <2>1. /\ pc[t] \in {"open", "count"} /\ pc'[t] \notin {"open", "count"}
        /\ \A u \in Threads : u # t => pc'[u] = pc[u]
        /\ UNCHANGED <<requests, sock>>
    BY <1>11 DEF OpenFile, SendCount, Moves, Types, ServerTypes
  <2>2. PICK use \in {FileFd, DirFd} : fds' = [fds EXCEPT ![LowestFree] = use]
    BY <1>5, <1>11 DEF OpenFile, SendCount, Moves, Serves
  <2>3. LowestFree \in 1..MaxFd /\ fds[LowestFree] = Free
    BY LowestFreeIsFree
  <2>4. fds'[LowestFree] = use /\ \A g \in 1..MaxFd : g # LowestFree => fds'[g] = fds[g]
    BY <2>2, <2>3 DEF Types, SocketTypes
  <2>5. use \notin {Spare} /\ use \notin Clients \cup {Reserved}
    BY UsesDiffer
  <2>6. Spares' = Spares /\ Connections' = Connections /\ Opens' = Opens + 1
    BY <2>3, <2>4, <2>5, UsesDiffer, OneChanges DEF Spares, Connections, Opens
  <2>7. \A u \in Threads : pc[u] \in {"open", "count"} => Copied(u) /\ pc[u] # "recv" /\ Unsent(u) # 0
    <3> SUFFICES ASSUME NEW u \in Threads, pc[u] \in {"open", "count"}
                 PROVE  Copied(u) /\ pc[u] # "recv" /\ Unsent(u) # 0
      OBVIOUS
    <3>1. Serves(u)
      BY DEF Exchange
    <3>2. DirAtStart \in Nat /\ (pc[u] = "open" => FileSize[line[u]] \in Nat)
      BY <3>1, SizesAreNumbers DEF Serves
    <3> QED BY <3>2 DEF Copied, Unsent
  <2>8. /\ sock[t] \in Clients /\ requests[sock[t]] = <<>>
        /\ \A u \in Threads : u # t /\ pc[u] \in {"open", "count"} => sock[u] # sock[t]
    BY <2>1, <2>7, SenderHasClient
  <2>9. Unserved' = Unserved \ {sock[t]} /\ sock[t] \in Unserved
    BY <2>1, <2>8 DEF Unserved
  <2>10. Waits' = Waits - 1
    BY <1>4, <2>9, FS_RemoveElement DEF Waits
  <2>11. asks \in Nat
    BY DEF Types, ClientTypes
  <2> QED BY <1>1, <1>2, <1>3, <2>6, <2>10, <2>11 DEF Accounts
<1>12. CASE SendBody(t)
  <2>1. /\ pc[t] = "body" /\ pc'[t] = "recv" /\ \A u \in Threads : u # t => pc'[u] = pc[u]
        /\ UNCHANGED <<requests, sock>>
    BY <1>12 DEF SendBody, GoesOn, Moves, Types, ServerTypes
  <2>2. /\ file[t] \in 1..MaxFd /\ fds[file[t]] = FileFd
        /\ fds' = [fds EXCEPT ![file[t]] = Free]
    BY <1>5, <1>12, BodyCloses
  <2>3. fds'[file[t]] = Free /\ \A g \in 1..MaxFd : g # file[t] => fds'[g] = fds[g]
    BY <2>2 DEF Types, SocketTypes
  <2>4. Spares' = Spares /\ Connections' = Connections /\ Opens' = Opens - 1
    BY <2>2, <2>3, UsesDiffer, OneChanges DEF Spares, Connections, Opens
  <2>5. Unserved' = Unserved
    BY <2>1 DEF Unserved
  <2>6. Waits' = Waits
    BY <2>5 DEF Waits
  <2>7. asks \in Nat
    BY DEF Types, ClientTypes
  <2> QED BY <1>1, <1>2, <1>3, <2>4, <2>6, <2>7 DEF Accounts
<1>13. CASE SendSize(t) \/ Rewind(t) \/ SendName(t)
  <2>1. /\ pc[t] \notin {"open", "count"} /\ pc'[t] \notin {"open", "count"}
        /\ \A u \in Threads : u # t => pc'[u] = pc[u]
        /\ UNCHANGED <<fds, requests, sock>>
    BY <1>13 DEF SendSize, Rewind, SendName, Moves, NamesDone, Types, ServerTypes
  <2>2. Unserved' \subseteq Unserved
    BY <2>1 DEF Unserved
  <2> QED BY <1>6, <2>1, <2>2
<1> QED BY <1>7, <1>8, <1>9, <1>10, <1>11, <1>12, <1>13 DEF Thread

(* A client that connects or asks moves from one count to another. *)
LEMMA ClientKeepsAccounts ==
  ASSUME OrderlyUse, Types, InOrder, HandOver, EnoughDescriptors, Accounts,
         NEW c \in Clients, Client(c), UNCHANGED srvVars
  PROVE  Accounts'
<1>1. /\ Spares \in Nat /\ Connections \in Nat /\ Opens \in Nat
      /\ Coming \in Nat /\ Waits \in Nat /\ Cardinality(Clients) \in Nat /\ Waits' \in Nat
  BY CountTypes
<1>2. UNCHANGED <<fds, mainAt, pc, sock>>
  BY DEF Client, Arrive, Connect, ClientAsks, AskList, AskFile, AskQuit, Enters, Vanish,
         ClientReads, RecvCount, RecvSize, RecvInt, RecvName, RecvBody, srvVars
<1>3. Spares' = Spares /\ Connections' = Connections /\ Opens' = Opens
  BY <1>2 DEF Spares, Connections, Opens, Holding
<1>4. asks \in Nat
  BY DEF Types, ClientTypes
<1>5. CASE Arrive(c)
  <2>1. Quiet /\ Connect(c)
    BY <1>5 DEF Arrive, OrderlyUse
  <2>2. /\ cpc[c] = "start" /\ cpc'[c] = "idle" /\ \A d \in Clients : d # c => cpc'[d] = cpc[d]
        /\ backlog = <<>> /\ backlog' = Append(backlog, c) /\ UNCHANGED <<requests, asks>>
    BY <2>1 DEF Quiet, Connect, Types, ClientTypes
  <2>3. backlog' # <<>> /\ Head(backlog') = c
    BY <2>2
  <2>4. ToCome' = ToCome /\ Unserved' = Unserved
    BY <1>2, <2>2, <2>3 DEF ToCome, Unserved
  <2>5. Coming' = Coming /\ Waits' = Waits
    BY <2>4 DEF Coming, Waits
  <2> QED BY <1>1, <1>2, <1>3, <2>2, <2>5 DEF Accounts
<1>6. CASE ClientAsks(c)
  <2>1. PICK request : Enters(c, request)
    BY <1>6 DEF ClientAsks, AskList, AskFile, AskQuit
  <2>2. /\ asks' = asks + 1 /\ UNCHANGED backlog
        /\ \A d \in Clients : d # c => requests'[d] = requests[d]
    BY <2>1 DEF Enters, Types, SocketTypes
  <2>3. \A d \in Clients : cpc'[d] = "start" <=> cpc[d] = "start"
    <3>1. cpc[c] = "idle"
      BY <2>1 DEF Enters
    <3> QED BY <1>6, <3>1 DEF ClientAsks, AskList, AskFile, AskQuit, Leaves, Types, ClientTypes
  <2>4. Coming' = Coming
    BY <2>2, <2>3 DEF Coming, ToCome
  <2>5. Unserved' \subseteq Unserved \cup {c}
    BY <1>2, <2>2 DEF Unserved
  <2>6. Waits' <= Waits + 1
    <3>1. Unserved \in SUBSET Clients
      BY DEF Unserved
    <3>2. IsFiniteSet(Unserved)
      BY <3>1, SomeClients
    <3>3. IsFiniteSet(Unserved \cup {c}) /\ Cardinality(Unserved \cup {c}) <= Waits + 1
      BY <1>1, <3>2, FS_AddElement DEF Waits
    <3>4. Waits' <= Cardinality(Unserved \cup {c})
      BY <2>5, <3>3, FS_Subset DEF Waits
    <3>5. Cardinality(Unserved \cup {c}) \in Nat
      BY <3>3, FS_CardinalityType
    <3> QED BY <1>1, <3>3, <3>4, <3>5
  <2>7. Opens + Waits <= asks
    BY DEF Accounts
  <2>8. Opens + Waits' <= asks + 1
    <3> DEFINE a == Opens
               b == Waits
               d == Waits'
    <3>1. a \in Nat /\ b \in Nat /\ d \in Nat /\ asks \in Nat /\ d <= b + 1 /\ a + b <= asks
      BY <1>1, <1>4, <2>6, <2>7
    <3> HIDE DEF a, b, d
    <3>2. a + d <= asks + 1
      BY <3>1
    <3> QED BY <3>2 DEF a, d
  <2> QED BY <1>1, <1>2, <1>3, <2>2, <2>4, <2>8 DEF Accounts
<1>7. CASE Vanish(c)
  BY <1>7 DEF Vanish, OrderlyUse
<1>8. CASE ClientReads(c)
  <2>1. UNCHANGED <<backlog, requests, asks>>
    BY <1>8 DEF ClientReads, RecvCount, RecvSize, RecvInt, RecvName, RecvBody
  <2>2. \A d \in Clients : cpc'[d] = "start" <=> cpc[d] = "start"
    BY <1>8 DEF ClientReads, RecvCount, RecvSize, RecvInt, RecvName, RecvBody, Types, ClientTypes
  <2>3. ToCome' = ToCome /\ Unserved' = Unserved
    BY <1>2, <2>1, <2>2 DEF ToCome, Unserved
  <2>4. Coming' = Coming /\ Waits' = Waits
    BY <2>3 DEF Coming, Waits
  <2> QED BY <1>1, <1>2, <1>3, <2>1, <2>4 DEF Accounts
<1> QED BY <1>5, <1>6, <1>7, <1>8 DEF Client

-----------------------------------------------------------------------------
(* Service is inductive. *)
LEMMA ServiceAtStart ==
  ASSUME EnoughDescriptors, Init
  PROVE  Service
<1> USE DEF Init, SocketsInit, SrvInit, CliInit
<1>1. Types /\ InOrder
  <2>1. NobodyGone
    BY DEF NobodyGone
  <2> QED BY <2>1, TypesAtStart, ServiceInvAtStart DEF ServiceInv
<1>2. HandOver
  <2>1. Steady /\ OneAtATime /\ OwnSocket
    BY DEF Steady, NobodyGone, OneAtATime, OwnSocket, Copied
  <2>2. OneConnection
    BY UsesAreNoClients DEF OneConnection
  <2> QED BY <2>1, <2>2 DEF HandOver
<1>3. Exchange
  <2>1. \A t \in Threads : Serves(t) /\ Replies(t)
    BY DEF Serves, Replies, Unsent
  <2>2. \A c \in Clients : InTurn(c) /\ Expects(c)
    BY DEF InTurn, Waiting, Expects
  <2> QED BY <2>1, <2>2 DEF Exchange
<1>4. Accounts
  <2>1. /\ Holding({Spare}) = {} /\ Holding(Clients \cup {Reserved}) = {}
        /\ Holding({FileFd, DirFd}) = {}
    BY UsesDiffer DEF Holding
  <2>2. Unserved = {} /\ ToCome = Clients
    BY DEF Unserved, ToCome
  <2>3. Spares = 0 /\ Connections = 0 /\ Opens = 0 /\ Waits = 0 /\ Coming = Cardinality(Clients)
    BY <2>1, <2>2, FS_EmptySet DEF Spares, Connections, Opens, Waits, Coming
  <2>4. Cardinality(Clients) \in Nat
    BY SomeClients
  <2> QED BY <2>3, <2>4 DEF Accounts
<1> QED BY <1>1, <1>2, <1>3, <1>4 DEF Service

(* The invariant is inductive. *)
LEMMA ServiceKept ==
  ASSUME OrderlyUse, EnoughDescriptors, Service, [Next]_vars
  PROVE  Service'
<1>1. Types /\ InOrder /\ HandOver /\ Exchange /\ Accounts /\ Types'
  BY TypesKept DEF Service
<1>2. LowestFree # NoFd
  BY <1>1, OneIsFree
<1>3. HandOver' /\ Exchange' /\ Accounts'
  <2>1. CASE Main /\ UNCHANGED cliVars
    BY <1>1, <1>2, <2>1, MainHandsOver, MainKeepsExchange, MainKeepsAccounts
  <2>2. ASSUME NEW t \in Threads, Thread(t), UNCHANGED cliVars
        PROVE  HandOver' /\ Exchange' /\ Accounts'
    <3>1. Serves(t)
      BY <1>1 DEF Exchange
    <3> QED BY <1>1, <1>2, <2>2, <3>1, ThreadHandsOver, ThreadKeepsExchange, ThreadKeepsAccounts
  <2>3. ASSUME NEW c \in Clients, Client(c), UNCHANGED srvVars
        PROVE  HandOver' /\ Exchange' /\ Accounts'
    BY <1>1, <2>3, ClientKeepsExchange, ClientKeepsAccounts
  <2>4. CASE UNCHANGED vars
    <3>1. UNCHANGED <<sockVars, srvVars, cliVars>>
      BY <2>4 DEF vars
    <3>2. HandOver'
      <4>1. \A c \in Clients : cpc'[c] # "gone" /\ (cpc'[c] = "start" <=> cpc[c] = "start")
        BY <1>1, <3>1 DEF cliVars, HandOver, Steady, NobodyGone
      <4> QED BY <1>1, <3>1, <4>1, ClientsLeaveHandOver DEF sockVars, srvVars, cliVars
    <3>3. Exchange'
      BY <1>1, <3>1, FrameKeepsExchange DEF sockVars, srvVars
    <3>4. Accounts'
      BY <1>1, <3>1 DEF Accounts, Spares, Connections, Opens, Coming, Waits, Holding, ToCome,
                        Unserved, sockVars, srvVars, cliVars
    <3> QED BY <3>2, <3>3, <3>4
  <2> QED BY <2>1, <2>2, <2>3, <2>4 DEF Next
<1>4. InOrder'
  <2>1. ServiceInv /\ NobodyGone'
    BY <1>1, <1>3 DEF ServiceInv, HandOver, Steady
  <2> QED BY <2>1, ServiceInvKept DEF ServiceInv
<1> QED BY <1>1, <1>3, <1>4 DEF Service

(* For clients that come one after the other, ask for lists and files and   *)
(* stay, of a server with enough descriptors, the hand-over of sockets, the *)
(* answers on their way and the descriptors in use stay as they should,     *)
(* whatever the interleaving of main(), threads and clients.                *)
THEOREM ServiceAlways ==
  ASSUME OrderlyUse, EnoughDescriptors
  PROVE  Spec => []Service
<1>1. Init => Service
  BY ServiceAtStart
<1>2. Service /\ [Next]_vars => Service'
  BY ServiceKept
<1> QED BY <1>1, <1>2, PTL DEF Spec

(* A client that is back at its prompt has read all of its answer, wherever *)
(* recv() cut the stream.                                                    *)
THEOREM NeverAnythingLeftOver ==
  ASSUME OrderlyUse, EnoughDescriptors
  PROVE  Spec => []NothingLeftOver
<1>1. Service => NothingLeftOver
  BY DEF Service, Exchange, InTurn, Waiting, NothingLeftOver
<1> QED BY <1>1, ServiceAlways, PTL

(* What a client is about to read as the size of a file is the size of the *)
(* file it has asked for.                                                   *)
THEOREM SizeAlwaysComesFirst ==
  ASSUME OrderlyUse, EnoughDescriptors
  PROVE  Spec => []SizeComesFirst
<1>1. Service => SizeComesFirst
  <2> SUFFICES ASSUME Service, NEW c \in Clients, cpc[c] = "sizing", want[c] \in Files,
                      answers[c] # <<>>
               PROVE  Head(answers[c]) = Size(FileSize[want[c]])
    BY DEF SizeComesFirst
  <2>1. InTurn(c) /\ Waiting(c) /\ HasRead(c) = 0
    BY DEF Service, Exchange, Waiting, HasRead
  <2>2. 1 \in 1..Len(answers[c]) /\ Head(answers[c]) = answers[c][1]
    BY DEF Service, Types, SocketTypes
  <2>3. Head(answers[c]) = UnitOf(want[c], 0 + 1)
    BY <2>1, <2>2 DEF InTurn
  <2> QED BY <2>3, ListIsNoFile DEF UnitOf, LengthOf
<1> QED BY <1>1, ServiceAlways, PTL

-----------------------------------------------------------------------------
(* The refinement: only a request changes what is asked, and only the end of *)
(* an answer what is given.                                                   *)
AskedNow == [c \in Clients |-> IF Waiting(c) THEN want[c] ELSE Nothing]
GivenNow == [c \in Clients |-> IF Waiting(c) THEN <<>> ELSE got[c]]

(* A step of one client changes the library's view of that client only. *)
LEMMA OthersSeeNothing ==
  ASSUME NEW c \in Clients,
         \A d \in Clients : d # c => cpc'[d] = cpc[d] /\ want'[d] = want[d] /\ got'[d] = got[d]
  PROVE  /\ AskedNow' = [AskedNow EXCEPT ![c] = IF Waiting(c)' THEN want'[c] ELSE Nothing]
         /\ GivenNow' = [GivenNow EXCEPT ![c] = IF Waiting(c)' THEN <<>> ELSE got'[c]]
         /\ AskedNow[c] = (IF Waiting(c) THEN want[c] ELSE Nothing)
         /\ GivenNow[c] = (IF Waiting(c) THEN <<>> ELSE got[c])
<1>1. \A d \in Clients : d # c => (Waiting(d)' <=> Waiting(d))
  BY DEF Waiting
<1> QED BY <1>1 DEF AskedNow, GivenNow

(* A client that goes on waiting, or has been answered, looks the same. *)
LEMMA SameView ==
  ASSUME NEW c \in Clients,
         \A d \in Clients : d # c => cpc'[d] = cpc[d] /\ want'[d] = want[d] /\ got'[d] = got[d],
         Waiting(c)' <=> Waiting(c), want'[c] = want[c], Waiting(c) \/ got'[c] = got[c]
  PROVE  UNCHANGED <<AskedNow, GivenNow>>
<1>1. /\ AskedNow' = [AskedNow EXCEPT ![c] = AskedNow[c]]
      /\ GivenNow' = [GivenNow EXCEPT ![c] = GivenNow[c]]
  BY OthersSeeNothing
<1> QED BY <1>1 DEF AskedNow, GivenNow

(* What a client has read when it is back at its prompt is the answer. *)
LEMMA WholeAnswer ==
  ASSUME NEW request \in Files \cup {List}, NEW read \in Seq(Units),
         Len(read) = LengthOf(request),
         \A i \in 1..Len(read) : read[i] = UnitOf(request, i + 1)
  PROVE  read = Answer(request)
<1>1. /\ Answer(request) \in Seq(Units) /\ Len(Answer(request)) = Len(read)
      /\ \A i \in 1..Len(read) : read[i] = Answer(request)[i]
  BY AnswerLengths
<1> QED BY <1>1, SeqEqual

(* A client's reads stutter, but for the last, which gives it the whole answer. *)
LEMMA ReadsImplement ==
  ASSUME Types, InOrder, HandOver, Exchange, NEW c \in Clients, ClientReads(c), UNCHANGED srvVars
  PROVE  \/ UNCHANGED <<AskedNow, GivenNow>>
         \/ /\ AskedNow[c] # Nothing
            /\ AskedNow' = [AskedNow EXCEPT ![c] = Nothing]
            /\ GivenNow' = [GivenNow EXCEPT ![c] = Answer(AskedNow[c])]
<1>1. /\ want' = want
      /\ \A d \in Clients : d # c => cpc'[d] = cpc[d] /\ want'[d] = want[d] /\ got'[d] = got[d]
  BY DEF ClientReads, RecvCount, RecvSize, RecvInt, RecvName, RecvBody, Reads, Types, ClientTypes
<1>2. /\ Waiting(c) /\ want[c] \in Files \cup {List}
      /\ got'[c] \in Seq(Units) /\ \A i \in 1..Len(got'[c]) : got'[c][i] = UnitOf(want[c], i + 1)
      /\ Waiting(c)' \/ Len(got'[c]) = LengthOf(want[c])
  <2>1. CASE RecvName(c) \/ RecvBody(c)
    BY <2>1, ReadKeepsExchange
  <2>2. CASE RecvCount(c) \/ RecvSize(c)
    <3>1. PICK from, to : /\ \/ from = "counting" /\ to = "listing"
                             \/ from = "sizing" /\ to = "fetching"
                          /\ RecvInt(c, from, to)
      BY <2>2 DEF RecvCount, RecvSize
    <3>2. from \in {"counting", "sizing"} /\ to \in {"listing", "fetching"}
      BY <3>1
    <3>3. /\ Waiting(c) /\ want[c] \in Files \cup {List} /\ got[c] = <<>> /\ got' = got
          /\ cpc' = [cpc EXCEPT ![c] = IF LengthOf(want[c]) = 0 THEN "idle" ELSE to]
      BY <3>1, <3>2, IntIsLength
    <3>4. got'[c] = <<>> /\ got'[c] \in Seq(Units) /\ Len(got'[c]) = 0
      BY <3>3 DEF Types, ClientTypes
    <3>5. cpc'[c] = IF LengthOf(want[c]) = 0 THEN "idle" ELSE to
      BY <3>3 DEF Types, ClientTypes
    <3>6. Waiting(c)' \/ LengthOf(want[c]) = 0
      BY <3>2, <3>5 DEF Waiting
    <3> QED BY <3>3, <3>4, <3>6
  <2> QED BY <2>1, <2>2 DEF ClientReads
<1>3. CASE Waiting(c)'
  BY <1>1, <1>2, <1>3, SameView
<1>4. CASE ~ Waiting(c)'
  <2>1. got'[c] = Answer(want[c])
    BY <1>2, <1>4, WholeAnswer
  <2>2. want[c] # Nothing
    BY <1>2, FileClientAssumption DEF Nothing, List
  <2>3. /\ AskedNow' = [AskedNow EXCEPT ![c] = Nothing]
        /\ GivenNow' = [GivenNow EXCEPT ![c] = got'[c]]
        /\ AskedNow[c] = want[c]
    BY <1>1, <1>2, <1>4, OthersSeeNothing
  <2> QED BY <2>1, <2>2, <2>3
<1> QED BY <1>3, <1>4

(* A request is a request of the library. *)
LEMMA AsksImplement ==
  ASSUME OrderlyUse, Types, NEW c \in Clients, ClientAsks(c)
  PROVE  \E request \in Files \cup {List} :
           /\ AskedNow[c] = Nothing
           /\ AskedNow' = [AskedNow EXCEPT ![c] = request]
           /\ GivenNow' = [GivenNow EXCEPT ![c] = <<>>]
<1>1. PICK request \in Asks, to \in ClientSteps :
        /\ Enters(c, request) /\ cpc' = [cpc EXCEPT ![c] = to]
        /\ to \in {"counting", "sizing"} \/ request = Quit
  <2>1. CASE AskList(c)
    BY <2>1 DEF AskList, Enters, ClientSteps
  <2>2. CASE AskFile(c)
    BY <2>2 DEF AskFile, Enters, ClientSteps
  <2>3. CASE AskQuit(c)
    BY <2>3 DEF AskQuit, Leaves, Enters, ClientSteps
  <2> QED BY <2>1, <2>2, <2>3 DEF ClientAsks
<1>2. request \in Files \cup {List} /\ to \in {"counting", "sizing"}
  BY <1>1, ListIsNoFile DEF OrderlyUse
<1>3. /\ cpc[c] = "idle" /\ cpc'[c] \in {"counting", "sizing"} /\ want'[c] = request
      /\ \A d \in Clients : d # c => cpc'[d] = cpc[d] /\ want'[d] = want[d] /\ got'[d] = got[d]
  BY <1>1, <1>2 DEF Enters, Types, ClientTypes
<1>4. ~ Waiting(c) /\ Waiting(c)'
  BY <1>3 DEF Waiting
<1>5. /\ AskedNow' = [AskedNow EXCEPT ![c] = request] /\ GivenNow' = [GivenNow EXCEPT ![c] = <<>>]
      /\ AskedNow[c] = Nothing
  BY <1>3, <1>4, OthersSeeNothing
<1> QED BY <1>2, <1>5

(* The initial states of the service are initial states of the library. *)
LEMMA LibraryAtStart == Init => Library!LibraryInit
BY DEF Init, CliInit, Waiting, Library!LibraryInit

(* Every step of the service is a step of the library or a stutter. *)
LEMMA LibraryStep ==
  ASSUME OrderlyUse, EnoughDescriptors, Service, [Next]_vars
  PROVE  [Library!LibraryNext]_(Library!libraryVars)
<1>1. Types /\ InOrder /\ HandOver /\ Exchange
  BY DEF Service
<1>2. CASE UNCHANGED cliVars
  <2>1. UNCHANGED <<want, got, cpc>>
    BY <1>2 DEF cliVars
  <2>2. \A c \in Clients : Waiting(c)' <=> Waiting(c)
    BY <2>1 DEF Waiting
  <2>3. UNCHANGED Library!libraryVars
    BY <2>1, <2>2 DEF Library!libraryVars
  <2> QED BY <2>3
<1>3. ASSUME NEW c \in Clients, Client(c), UNCHANGED srvVars
      PROVE  [Library!LibraryNext]_(Library!libraryVars)
  <2>1. CASE Arrive(c)
    <3>1. /\ UNCHANGED <<want, got>> /\ cpc[c] = "start" /\ cpc'[c] = "idle"
          /\ \A d \in Clients : d # c => cpc'[d] = cpc[d]
      BY <1>1, <2>1 DEF Arrive, Connect, Types, ClientTypes
    <3>2. UNCHANGED <<AskedNow, GivenNow>>
      <4>1. ~ Waiting(c) /\ ~ Waiting(c)'
        BY <3>1 DEF Waiting
      <4> QED BY <3>1, <4>1, SameView
    <3> QED BY <3>2 DEF Library!libraryVars, AskedNow, GivenNow
  <2>2. CASE ClientAsks(c)
    <3>1. PICK request \in Files \cup {List} :
            /\ AskedNow[c] = Nothing
            /\ AskedNow' = [AskedNow EXCEPT ![c] = request]
            /\ GivenNow' = [GivenNow EXCEPT ![c] = <<>>]
      BY <1>1, <2>2, AsksImplement
    <3>2. Library!Ask(c, request)
      BY <3>1 DEF Library!Ask, AskedNow, GivenNow
    <3> QED BY <3>2 DEF Library!LibraryNext
  <2>3. CASE Vanish(c)
    BY <2>3 DEF Vanish, OrderlyUse
  <2>4. CASE ClientReads(c)
    <3>1. \/ UNCHANGED <<AskedNow, GivenNow>>
          \/ /\ AskedNow[c] # Nothing
             /\ AskedNow' = [AskedNow EXCEPT ![c] = Nothing]
             /\ GivenNow' = [GivenNow EXCEPT ![c] = Answer(AskedNow[c])]
      BY <1>1, <1>3, <2>4, ReadsImplement
    <3>2. CASE UNCHANGED <<AskedNow, GivenNow>>
      BY <3>2 DEF Library!libraryVars, AskedNow, GivenNow
    <3>3. CASE ~ UNCHANGED <<AskedNow, GivenNow>>
      <4>1. Library!Give(c)
        BY <3>1, <3>3 DEF Library!Give, AskedNow, GivenNow
      <4> QED BY <4>1 DEF Library!LibraryNext
    <3> QED BY <3>2, <3>3
  <2> QED BY <1>3, <2>1, <2>2, <2>3, <2>4 DEF Client
<1>4. CASE UNCHANGED vars
  BY <1>2, <1>4 DEF vars
<1> QED BY <1>2, <1>3, <1>4 DEF Next

(* The threads of the server and the clients implement the abstract library: *)
(* every list and every file a client has finished reading is exactly what   *)
(* it asked for (tcpclient.c:95, 134), for any number of clients, threads,   *)
(* files and names, however the threads interleave and recv() cuts the       *)
(* stream.                                                                   *)
THEOREM LibraryImplemented ==
  ASSUME OrderlyUse, EnoughDescriptors
  PROVE  Spec => ImplementsLibrary
<1>1. Init => Library!LibraryInit
  BY LibraryAtStart
<1>2. Service /\ [Next]_vars => [Library!LibraryNext]_(Library!libraryVars)
  BY LibraryStep
<1> QED BY <1>1, <1>2, ServiceAlways, PTL DEF Spec, ImplementsLibrary, Library!LibrarySpec
=============================================================================
