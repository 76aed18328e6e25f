-------------------------- MODULE FileServiceProofs --------------------------
(***************************************************************************)
(* Proofs about the file service of project1b: an inductive invariant, for *)
(* every set of clients, files, threads and descriptors, and what follows  *)
(* from it: the types, that the server does not end while every client     *)
(* stays, but in the list of a directory it could not open, and that the   *)
(* connection accepted last is served.                                     *)
(***************************************************************************)
EXTENDS FileService, FiniteSetTheorems, WellFoundedInduction, TLAPS

-----------------------------------------------------------------------------
(* Sets of numbers: every one that is not empty has a least element. *)
LEMMA Least ==
  ASSUME NEW S \in SUBSET Nat, S # {}
  PROVE  \E x \in S : \A y \in S : x <= y
<1> DEFINE R == OpToRel(<, Nat)
<1>1. \E x \in S : \A y \in S : ~ (<<y, x>> \in R)
  BY WFMin, NatLessThanWellFounded
<1>2. PICK x \in S : \A y \in S : ~ (<<y, x>> \in R)
  BY <1>1
<1>3. ASSUME NEW y \in S PROVE x <= y
  <2>1. x \in Nat /\ y \in Nat
    OBVIOUS
  <2>2. y < x => <<y, x>> \in R
    BY <2>1 DEF OpToRel
  <2>3. ~ (<<y, x>> \in R)
    BY <1>2
  <2> HIDE DEF R
  <2>4. ~ (y < x)
    BY <2>2, <2>3
  <2> QED BY <2>1, <2>4
<1> QED BY <1>2, <1>3

(* What a sequence lists is bounded. *)
LEMMA ListedBound ==
  ASSUME NEW n \in Nat, NEW g \in [1..n -> Nat]
  PROVE  \E b \in Nat : \A i \in 1..n : g[i] <= b
<1> DEFINE Unbounded == {k \in 0..n : ~ \E b \in Nat : \A i \in 1..k : g[i] <= b}
<1>1. SUFFICES ASSUME Unbounded # {} PROVE FALSE
  <2>1. n \notin Unbounded => \E b \in Nat : \A i \in 1..n : g[i] <= b
    OBVIOUS
  <2> QED BY <2>1
<1>2. PICK k \in Unbounded : \A m \in Unbounded : k <= m
  <2>1. Unbounded \in SUBSET Nat
    OBVIOUS
  <2> QED BY <1>1, <2>1, Least
<1>3. k # 0
  <2>1. \A i \in 1..0 : g[i] <= 0
    OBVIOUS
  <2> QED BY <1>2, <2>1
<1>4. k - 1 \in 0..n /\ k - 1 \notin Unbounded /\ k \in 1..n
  <2>1. k \in 0..n /\ ~ (k <= k - 1)
    BY <1>2
  <2> HIDE DEF Unbounded
  <2> QED BY <1>2, <1>3, <2>1
<1>5. PICK b \in Nat : \A i \in 1..(k - 1) : g[i] <= b
  BY <1>4
<1>6. PICK d \in Nat : b <= d /\ g[k] <= d
  <2>1. g[k] \in Nat
    BY <1>4
  <2>2. CASE b <= g[k]
    BY <2>1, <2>2
  <2>3. CASE g[k] <= b
    BY <2>1, <2>3
  <2> QED BY <2>1, <2>2, <2>3
<1>7. \A i \in 1..k : g[i] <= d
  <2> TAKE i \in 1..k
  <2>1. CASE i = k
    BY <1>6, <2>1
  <2>2. CASE i # k
    <3>1. i \in 1..(k - 1) /\ g[i] \in Nat
      BY <1>4, <2>2
    <3> QED BY <1>5, <1>6, <3>1
  <2> QED BY <2>1, <2>2
<1> QED BY <1>2, <1>7

(* A finite set of numbers that is not empty has a greatest element. *)
LEMMA Greatest ==
  ASSUME NEW S \in SUBSET Nat, S # {}, IsFiniteSet(S)
  PROVE  Max(S) \in S
<1>1. Cardinality(S) \in Nat /\ ExistsBijection(1..Cardinality(S), S)
  BY FS_CardinalityType
<1>2. PICK g \in [1..Cardinality(S) -> S] : \A x \in S : \E i \in 1..Cardinality(S) : g[i] = x
  BY <1>1 DEF ExistsBijection, Bijection, Surjection, Injection
<1>3. g \in [1..Cardinality(S) -> Nat]
  BY <1>2
<1> DEFINE Bounds == {b \in Nat : \A x \in S : x <= b}
<1>4. PICK b \in Nat : \A i \in 1..Cardinality(S) : g[i] <= b
  BY <1>1, <1>3, ListedBound
<1>5. Bounds # {}
  BY <1>2, <1>4
<1>6. PICK m \in Bounds : \A d \in Bounds : m <= d
  BY <1>5, Least
<1>7. m \in S
  <2>1. SUFFICES ASSUME m \notin S PROVE FALSE
    OBVIOUS
  <2>2. PICK x \in S : TRUE
    OBVIOUS
  <2>3. m # 0
    BY <1>6, <2>1, <2>2
  <2>4. m - 1 \in Bounds
    <3>1. ASSUME NEW y \in S PROVE y <= m - 1
      BY <1>6, <2>1, y \in Nat
    <3> QED BY <1>6, <2>3, <3>1
  <2> QED BY <1>6, <2>4
<1>8. \E x \in S : \A y \in S : x >= y
  BY <1>6, <1>7
<1> QED BY <1>8 DEF Max

LEMMA SizesAreNumbers ==
  /\ MaxSize \in Nat /\ DirAtStart \in Nat /\ DirAtStart >= 2
  /\ \A f \in Files : FileSize[f] \in Nat
<1> DEFINE Sizes == {FileSize[f] : f \in Files}
           size == [f \in Files |-> FileSize[f]]
<1>1. IsFiniteSet(Files) /\ \A f \in Files : FileSize[f] \in Nat
  BY FileSocketsAssumption
<1>2. size \in Surjection(Files, Sizes)
  BY DEF Surjection
<1>3. IsFiniteSet(Sizes)
  BY <1>1, <1>2, FS_Surjection
<1>4. IsFiniteSet(Sizes \cup {2}) /\ Sizes \cup {2} \in SUBSET Nat /\ Sizes \cup {2} # {}
  BY <1>1, <1>3, FS_AddElement
<1>5. MaxSize \in Nat
  BY <1>4, Greatest DEF MaxSize
<1>6. Cardinality(Files) \in Nat
  BY <1>1, FS_CardinalityType
<1> QED BY <1>1, <1>5, <1>6 DEF DirAtStart

(* The lowest free descriptor is free. *)
LEMMA LowestFreeIsFree ==
  /\ LowestFree \in 0..MaxFd
  /\ LowestFree # NoFd => LowestFree \in 1..MaxFd /\ fds[LowestFree] = Free
<1> DEFINE free == {f \in 1..MaxFd : fds[f] = Free}
<1>1. CASE free = {}
  BY <1>1, FileSocketsAssumption DEF LowestFree, NoFd
<1>2. CASE free # {}
  <2>1. free \in SUBSET Nat
    BY FileSocketsAssumption
  <2>2. \E x \in free : \A y \in free : x =< y
    BY <1>2, <2>1, Least
  <2>3. Min(free) \in free
    BY <2>2 DEF Min
  <2>4. LowestFree = Min(free)
    BY <1>2 DEF LowestFree
  <2> QED BY <2>3, <2>4, FileSocketsAssumption DEF NoFd
<1> QED BY <1>1, <1>2

-----------------------------------------------------------------------------
(* The types, by those who write the variables. *)
SocketTypes ==
  /\ up \in BOOLEAN
  /\ fds \in [1..MaxFd -> Clients \cup Uses]
  /\ backlog \in Seq(Clients)
  /\ requests \in [Clients -> Seq(Requests)]
  /\ answers \in [Clients -> Seq(Units)]
  /\ peer \in [Clients -> {"none", "open", "gone", "reset"}]
  /\ closed \subseteq Clients
  /\ dirSize \in Nat

ServerTypes ==
  /\ mainAt \in {"socket", "call", "accept", "create"}
  /\ ci \in 0..MaxFd
  /\ pc \in [Threads -> ThreadSteps]
  /\ made \in [Threads -> 0..MaxFd]
  /\ fd \in [Threads -> 0..MaxFd]
  /\ sock \in [Threads -> Clients \cup {Nobody}]
  /\ line \in [Threads -> Requests \cup {Unset}]
  /\ file \in [Threads -> 0..MaxFd]
  /\ left \in [Threads -> Nat]

ClientTypes ==
  /\ cpc \in [Clients -> ClientSteps]
  /\ want \in [Clients -> Requests \cup {Nothing}]
  /\ got \in [Clients -> Seq(Units)]
  /\ due \in [Clients -> Nat]
  /\ asks \in 0..MaxAsks

(* What is counted down is never below zero: a list that is being sent or  *)
(* read has a name left.  A thread in recv() has a connection.             *)
Counts ==
  /\ dirSize # 0
  /\ \A t \in Threads : pc[t] = "names" => left[t] # 0
  /\ \A t \in Threads : pc[t] = "blocked" => sock[t] \in Clients
  /\ \A c \in Clients : cpc[c] = "listing" => due[c] # 0

Types == SocketTypes /\ ServerTypes /\ ClientTypes /\ Counts

LEMMA TypesAreTypes == Types => FileTypeOK
BY DEF Types, SocketTypes, ServerTypes, ClientTypes, FileTypeOK

(* send() and close() keep the types of what they write. *)
LEMMA SendTypes ==
  ASSUME SocketTypes, NEW f \in 0..MaxFd, NEW units \in Seq(Units), SendOn(f, units)
  PROVE  /\ up' \in BOOLEAN
         /\ answers' \in [Clients -> Seq(Units)]
         /\ peer' \in [Clients -> {"none", "open", "gone", "reset"}]
<1>1. up' \in BOOLEAN
  BY DEF SendOn
<1>2. CASE UNCHANGED <<answers, peer>>
  BY <1>1, <1>2 DEF SocketTypes
<1>3. CASE Connected(f) /\ answers' = [answers EXCEPT ![fds[f]] = @ \o units] /\ UNCHANGED peer
  <2>1. answers[fds[f]] \in Seq(Units)
    BY <1>3 DEF SocketTypes, Connected
  <2>2. answers[fds[f]] \o units \in Seq(Units)
    BY <2>1
  <2> QED BY <1>1, <1>3, <2>2 DEF SocketTypes
<1>4. CASE Connected(f) /\ peer' = [peer EXCEPT ![fds[f]] = "reset"] /\ UNCHANGED answers
  BY <1>1, <1>4 DEF SocketTypes
<1> QED BY <1>2, <1>3, <1>4 DEF SendOn

LEMMA CloseTypes ==
  ASSUME SocketTypes, NEW f \in 0..MaxFd, Closes(f)
  PROVE  /\ fds' \in [1..MaxFd -> Clients \cup Uses]
         /\ closed' \subseteq Clients
<1>1. CASE f = NoFd
  BY <1>1 DEF SocketTypes, Closes
<1>2. CASE f # NoFd
  <2>1. fds' = [fds EXCEPT ![f] = Free] /\ closed' = closed \cup ({fds[f]} \cap Clients)
    BY <1>2 DEF Closes
  <2> QED BY <2>1 DEF SocketTypes, Uses
<1> QED BY <1>1, <1>2

LEMMA UnitTypes ==
  /\ \A n \in Nat : <<Size(n)>> \in Seq(Units) /\ <<Name(n)>> \in Seq(Units)
  /\ \A f \in Files : Pieces(f) \in Seq(Units)
<1>1. \A n \in Nat : Size(n) \in Units /\ Name(n) \in Units
  BY DEF Size, Name, Units
<1>2. ASSUME NEW f \in Files PROVE Pieces(f) \in Seq(Units)
  <2>1. FileSize[f] \in Nat
    BY SizesAreNumbers
  <2>2. \A i \in 1..FileSize[f] : <<f, i>> \in Units
    BY <2>1 DEF Units
  <2> QED BY <2>1, <2>2 DEF Pieces
<1> QED BY <1>1, <1>2

LEMMA MainTypes ==
  ASSUME Types, Main, UNCHANGED cliVars
  PROVE  Types'
<1> USE DEF cliVars
<1>0. ClientTypes'
  BY DEF Types, ClientTypes
<1>1. CASE MakeSocket
  <2>1. SocketTypes'
    BY <1>1, LowestFreeIsFree DEF Types, SocketTypes, MakeSocket, Uses
  <2>2. ServerTypes' /\ Counts'
    BY <1>1 DEF Types, ServerTypes, Counts, MakeSocket
  <2> QED BY <1>0, <2>1, <2>2 DEF Types
<1>2. CASE CallAccept
  <2>1. SocketTypes'
    BY <1>2, LowestFreeIsFree DEF Types, SocketTypes, CallAccept, Uses
  <2>2. ServerTypes' /\ Counts'
    BY <1>2 DEF Types, ServerTypes, Counts, CallAccept
  <2> QED BY <1>0, <2>1, <2>2 DEF Types
<1>3. CASE AcceptFails
  <2>1. SocketTypes'
    BY <1>3 DEF Types, SocketTypes, AcceptFails, sockVars
  <2>2. ServerTypes' /\ Counts'
    BY <1>3, FileSocketsAssumption DEF Types, ServerTypes, Counts, AcceptFails, sockVars, NoFd
  <2> QED BY <1>0, <2>1, <2>2 DEF Types
<1>4. CASE Accept
  <2>1. Head(backlog) \in Clients /\ Tail(backlog) \in Seq(Clients)
    BY <1>4 DEF Types, SocketTypes, Accept
  <2>2. SocketTypes'
    BY <1>4, <2>1 DEF Types, SocketTypes, Accept
  <2>3. ServerTypes' /\ Counts'
    BY <1>4, FileSocketsAssumption DEF Types, ServerTypes, Counts, Accept
  <2> QED BY <1>0, <2>2, <2>3 DEF Types
<1>5. CASE CreateThread
  <2>1. SocketTypes'
    BY <1>5 DEF Types, SocketTypes, CreateThread, sockVars
  <2>2. ServerTypes' /\ Counts'
    BY <1>5 DEF Types, ServerTypes, Counts, CreateThread, sockVars, ThreadSteps
  <2> QED BY <1>0, <2>1, <2>2 DEF Types
<1> QED BY <1>1, <1>2, <1>3, <1>4, <1>5 DEF Main

LEMMA BranchStep == \A request : Branch(request) \in ThreadSteps \ {"blocked", "names"}
BY DEF Branch, ThreadSteps

(* A recv() that returns: only pc and line change in the server. *)
LEMMA TakesTypes ==
  ASSUME Types, NEW t \in Threads, NEW request \in Requests, Takes(t, request)
  PROVE  /\ ServerTypes'
         /\ \A u \in Threads : pc'[u] = "names" => left'[u] # 0
         /\ \A u \in Threads : pc'[u] = "blocked" => sock'[u] \in Clients
<1>1. /\ pc' = [pc EXCEPT ![t] = Branch(request)]
      /\ line' = [line EXCEPT ![t] = request]
      /\ UNCHANGED <<mainAt, ci, made, fd, sock, file, left>>
  BY DEF Takes, Moves
<1>2. Branch(request) \in ThreadSteps \ {"blocked", "names"}
  BY BranchStep
<1>3. ServerTypes'
  BY <1>1, <1>2 DEF Types, ServerTypes
<1>4. \A u \in Threads : pc'[u] = "names" => left'[u] # 0
  BY <1>1, <1>2 DEF Types, ServerTypes, Counts
<1>5. \A u \in Threads : pc'[u] = "blocked" => sock'[u] \in Clients
  BY <1>1, <1>2 DEF Types, ServerTypes, Counts
<1> QED BY <1>3, <1>4, <1>5

LEMMA ThreadTypes ==
  ASSUME Types, NEW t \in Threads, Thread(t), UNCHANGED cliVars
  PROVE  Types'
<1> USE DEF cliVars
<1>0. ClientTypes'
  BY DEF Types, ClientTypes
<1>a. NoFd \in 0..MaxFd
  BY FileSocketsAssumption DEF NoFd
<1>b. fd[t] \in 0..MaxFd /\ file[t] \in 0..MaxFd /\ left[t] \in Nat
  BY DEF Types, ServerTypes
<1>1. CASE CopyInfo(t)
  <2>1. SocketTypes'
    BY <1>1 DEF Types, SocketTypes, CopyInfo, sockVars
  <2>2. ServerTypes' /\ Counts'
    BY <1>1 DEF Types, ServerTypes, Counts, CopyInfo, sockVars, Moves, ThreadSteps
  <2> QED BY <1>0, <2>1, <2>2 DEF Types
<1>2. CASE CallRecv(t)
  <2>1. SocketTypes'
    BY <1>2 DEF Types, SocketTypes, CallRecv, sockVars
  <2>2. CASE Connected(fd[t])
    <3>1. fds[fd[t]] \in Clients
      BY <2>2 DEF Connected
    <3>2. ServerTypes' /\ Counts'
      BY <1>2, <2>2, <3>1 DEF Types, ServerTypes, Counts, CallRecv, sockVars, Moves, ThreadSteps
    <3> QED BY <1>0, <2>1, <3>2 DEF Types
  <2>3. CASE ~ Connected(fd[t])
    <3>1. ServerTypes' /\ Counts'
      BY <1>2, <2>3, <1>a
      DEF Types, ServerTypes, Counts, CallRecv, Returns, sockVars, Moves, ThreadSteps
    <3> QED BY <1>0, <2>1, <3>1 DEF Types
  <2> QED BY <2>2, <2>3
<1>3. CASE RecvRequest(t)
  <2>1. sock[t] \in Clients
    BY <1>3 DEF Types, Counts, RecvRequest
  <2>2. requests[sock[t]] \in Seq(Requests) /\ Head(requests[sock[t]]) \in Requests
    BY <1>3, <2>1 DEF Types, SocketTypes, RecvRequest
  <2>3. SocketTypes'
    <3>1. PICK n \in 1..Len(requests[sock[t]]) :
            requests' = [requests EXCEPT ![sock[t]] = SubSeq(@, n + 1, Len(@))]
      BY <1>3 DEF RecvRequest
    <3>2. SubSeq(requests[sock[t]], n + 1, Len(requests[sock[t]])) \in Seq(Requests)
      BY <2>2
    <3>3. requests' \in [Clients -> Seq(Requests)]
      BY <3>1, <3>2 DEF Types, SocketTypes
    <3> QED BY <1>3, <3>3 DEF Types, SocketTypes, RecvRequest
  <2>4. Takes(t, Head(requests[sock[t]])) /\ UNCHANGED dirSize
    BY <1>3 DEF RecvRequest
  <2>5. ServerTypes' /\ Counts'
    BY <2>2, <2>4, TakesTypes DEF Types, Counts
  <2> QED BY <1>0, <2>3, <2>5 DEF Types
<1>4. CASE RecvNothing(t)
  <2>1. SocketTypes' /\ UNCHANGED dirSize
    BY <1>4 DEF Types, SocketTypes, RecvNothing, sockVars
  <2>2. PICK request \in Requests : Takes(t, request)
    BY <1>4 DEF Types, ServerTypes, RecvNothing
  <2>3. ServerTypes' /\ Counts'
    BY <2>1, <2>2, TakesTypes DEF Types, Counts
  <2> QED BY <1>0, <2>1, <2>3 DEF Types
<1>5. CASE RecvReset(t)
  <2>1. SocketTypes'
    BY <1>5 DEF Types, SocketTypes, RecvReset, sockVars
  <2>2. ServerTypes' /\ Counts'
    BY <1>5, <1>a DEF Types, ServerTypes, Counts, RecvReset, Returns, sockVars, Moves, ThreadSteps
  <2> QED BY <1>0, <2>1, <2>2 DEF Types
<1>6. CASE CloseClient(t)
  <2>1. /\ fds' \in [1..MaxFd -> Clients \cup Uses]
        /\ closed' \subseteq Clients
    BY <1>6, <1>b, CloseTypes DEF CloseClient, Types
  <2>2. SocketTypes'
    BY <1>6, <2>1 DEF Types, SocketTypes, CloseClient
  <2>3. ServerTypes' /\ Counts'
    BY <1>6 DEF Types, ServerTypes, Counts, CloseClient, Moves, ThreadSteps
  <2> QED BY <1>0, <2>2, <2>3 DEF Types
<1>7. CASE OpenFile(t)
  <2>1. SocketTypes'
    BY <1>7, LowestFreeIsFree DEF Types, SocketTypes, OpenFile, Uses
  <2>2. ServerTypes' /\ Counts'
    BY <1>7, <1>a, LowestFreeIsFree DEF Types, ServerTypes, Counts, OpenFile, Moves, ThreadSteps
  <2> QED BY <1>0, <2>1, <2>2 DEF Types
<1>8. CASE SendSize(t)
  <2>1. /\ up' \in BOOLEAN
        /\ answers' \in [Clients -> Seq(Units)]
        /\ peer' \in [Clients -> {"none", "open", "gone", "reset"}]
    <3>1. CASE Connected(fd[t])
      <4>1. PICK n \in SizesOf(t) : SendOn(fd[t], <<Size(n)>>)
        BY <1>8, <3>1 DEF SendSize
      <4>2. n \in Nat
        BY SizesAreNumbers DEF SizesOf, Opened
      <4> QED BY <1>b, <4>1, <4>2, UnitTypes, SendTypes DEF Types
    <3>2. CASE ~ Connected(fd[t])
      BY <1>8, <3>2 DEF SendSize, Types, SocketTypes
    <3> QED BY <3>1, <3>2
  <2>2. SocketTypes'
    BY <1>8, <2>1 DEF Types, SocketTypes, SendSize
  <2>3. ServerTypes' /\ Counts'
    BY <1>8 DEF Types, ServerTypes, Counts, SendSize, Moves, ThreadSteps
  <2> QED BY <1>0, <2>2, <2>3 DEF Types
<1>9. CASE SendBody(t)
  <2>1. /\ up' \in BOOLEAN
        /\ answers' \in [Clients -> Seq(Units)]
        /\ peer' \in [Clients -> {"none", "open", "gone", "reset"}]
    <3>1. CASE Opened(t)
      <4>1. SendOn(fd[t], Pieces(line[t])) /\ line[t] \in Files
        BY <1>9, <3>1 DEF SendBody, BodyOf, Opened
      <4> QED BY <1>b, <4>1, UnitTypes, SendTypes DEF Types
    <3>2. CASE ~ Opened(t)
      BY <1>9, <3>2 DEF SendBody, Types, SocketTypes
    <3> QED BY <3>1, <3>2
  <2>2. /\ fds' \in [1..MaxFd -> Clients \cup Uses]
        /\ closed' \subseteq Clients
    BY <1>9, <1>b, CloseTypes DEF SendBody, Types
  <2>3. SocketTypes'
    BY <1>9, <2>1, <2>2 DEF Types, SocketTypes, SendBody
  <2>4. ServerTypes' /\ Counts'
    BY <1>9, <1>a DEF Types, ServerTypes, Counts, SendBody, GoesOn, Moves, ThreadSteps
  <2> QED BY <1>0, <2>3, <2>4 DEF Types
<1>10. CASE SendCount(t)
  <2>1. \E n \in Nat : SendOn(fd[t], <<Size(n)>>)
    BY <1>10 DEF SendCount, Types, SocketTypes
  <2>2. /\ up' \in BOOLEAN
        /\ answers' \in [Clients -> Seq(Units)]
        /\ peer' \in [Clients -> {"none", "open", "gone", "reset"}]
    BY <1>b, <2>1, UnitTypes, SendTypes DEF Types
  <2>3. SocketTypes'
    BY <1>10, <2>2, LowestFreeIsFree DEF Types, SocketTypes, SendCount, Uses
  <2>4. ServerTypes' /\ Counts'
    BY <1>10, LowestFreeIsFree DEF Types, ServerTypes, Counts, SendCount, Moves, ThreadSteps
  <2> QED BY <1>0, <2>3, <2>4 DEF Types
<1>11. CASE Rewind(t)
  <2>1. SocketTypes'
    BY <1>11 DEF Types, SocketTypes, Rewind
  <2>2. ServerTypes' /\ Counts'
    BY <1>11 DEF Types, SocketTypes, ServerTypes, Counts, Rewind, ThreadSteps
  <2> QED BY <1>0, <2>1, <2>2 DEF Types
<1>12. CASE SendName(t)
  <2>1. /\ up' \in BOOLEAN
        /\ answers' \in [Clients -> Seq(Units)]
        /\ peer' \in [Clients -> {"none", "open", "gone", "reset"}]
    BY <1>12, <1>b, UnitTypes, SendTypes DEF SendName, Types
  <2>2. SocketTypes'
    BY <1>12, <2>1 DEF Types, SocketTypes, SendName
  <2>3. pc[t] = "names" /\ left[t] # 0
    BY <1>12 DEF SendName, Moves, Types, Counts
  <2>4. ServerTypes' /\ Counts'
    BY <1>12, <1>b, <2>3 DEF Types, ServerTypes, Counts, SendName, Moves, ThreadSteps, NamesDone
  <2> QED BY <1>0, <2>2, <2>4 DEF Types
<1> QED BY <1>1, <1>2, <1>3, <1>4, <1>5, <1>6, <1>7, <1>8, <1>9, <1>10, <1>11, <1>12 DEF Thread

LEMMA ReadsTypes ==
  ASSUME Types, NEW c \in Clients, NEW k \in 1..Len(answers[c]), Reads(c, k)
  PROVE  got' \in [Clients -> Seq(Units)] /\ answers' \in [Clients -> Seq(Units)]
<1>1. answers[c] \in Seq(Units) /\ got[c] \in Seq(Units)
  BY DEF Types, SocketTypes, ClientTypes
<1>2. /\ SubSeq(answers[c], 1, k) \in Seq(Units)
      /\ SubSeq(answers[c], k + 1, Len(answers[c])) \in Seq(Units)
  BY <1>1
<1>3. got[c] \o SubSeq(answers[c], 1, k) \in Seq(Units)
  BY <1>1, <1>2
<1> QED BY <1>2, <1>3 DEF Types, SocketTypes, ClientTypes, Reads

LEMMA EntersTypes ==
  ASSUME Types, NEW c \in Clients, NEW request, Enters(c, request)
  PROVE  /\ requests' \in [Clients -> Seq(Requests)]
         /\ want' \in [Clients -> Requests \cup {Nothing}]
         /\ got' \in [Clients -> Seq(Units)]
         /\ asks' \in 0..MaxAsks
         /\ UNCHANGED <<up, fds, backlog, answers, closed, due>>
<1>1. request \in Requests
  BY FileClientAssumption DEF Enters, Requests
<1>2. Append(requests[c], request) \in Seq(Requests)
  BY <1>1 DEF Types, SocketTypes
<1>3. requests' \in [Clients -> Seq(Requests)]
  BY <1>2 DEF Types, SocketTypes, Enters
<1>4. /\ want' \in [Clients -> Requests \cup {Nothing}]
      /\ got' \in [Clients -> Seq(Units)]
  BY <1>1 DEF Types, ClientTypes, Enters
<1>5. asks' \in 0..MaxAsks
  BY FileClientAssumption DEF Types, ClientTypes, Enters
<1> QED BY <1>3, <1>4, <1>5 DEF Enters

LEMMA RecvIntTypes ==
  ASSUME Types, NEW c \in Clients, NEW from, NEW to \in ClientSteps,
         RecvInt(c, from, to), UNCHANGED srvVars
  PROVE  Types'
<1>1. PICK n \in 0..(MaxSize + MaxDir) :
        /\ ReadInt(c, n)
        /\ due' = [due EXCEPT ![c] = n]
        /\ cpc' = [cpc EXCEPT ![c] = IF n = 0 THEN "idle" ELSE to]
  BY DEF RecvInt
<1>2. UNCHANGED <<up, fds, backlog, requests, peer, closed, dirSize, want, got, asks>>
  BY DEF RecvInt
<1>3. n \in Nat
  BY SizesAreNumbers, FileClientAssumption
<1>4. answers' \in [Clients -> Seq(Units)]
  <2>1. CASE UNCHANGED answers
    BY <2>1 DEF Types, SocketTypes
  <2>2. CASE answers[c] # <<>> /\ answers' = [answers EXCEPT ![c] = Tail(@)]
    <3>1. Tail(answers[c]) \in Seq(Units)
      BY <2>2 DEF Types, SocketTypes
    <3> QED BY <2>2, <3>1 DEF Types, SocketTypes
  <2> QED BY <1>1, <2>1, <2>2 DEF ReadInt
<1>5. SocketTypes'
  BY <1>2, <1>4 DEF Types, SocketTypes
<1>6. ClientTypes'
  BY <1>1, <1>2, <1>3 DEF Types, ClientTypes, ClientSteps
<1>7. ServerTypes' /\ Counts'
  BY <1>1, <1>2, <1>3 DEF Types, ServerTypes, ClientTypes, Counts, srvVars
<1> QED BY <1>5, <1>6, <1>7 DEF Types

LEMMA ClientTypesKept ==
  ASSUME Types, NEW c \in Clients, Client(c), UNCHANGED srvVars
  PROVE  Types'
<1> USE DEF srvVars
<1>0. ServerTypes'
  BY DEF Types, ServerTypes
<1>1. CASE Connect(c)
  <2>1. SocketTypes'
    BY <1>1 DEF Types, SocketTypes, Connect
  <2>2. ClientTypes' /\ Counts'
    BY <1>1 DEF Types, ClientTypes, Counts, Connect, ClientSteps
  <2> QED BY <1>0, <2>1, <2>2 DEF Types
<1>2. CASE AskList(c)
  <2>1. /\ Enters(c, List) /\ UNCHANGED <<peer, dirSize>>
        /\ cpc' = [cpc EXCEPT ![c] = "counting"]
    BY <1>2 DEF AskList
  <2>2. SocketTypes'
    BY <2>1, EntersTypes DEF Types, SocketTypes
  <2>3. ClientTypes' /\ Counts'
    BY <2>1, EntersTypes DEF Types, ClientTypes, Counts, ClientSteps
  <2> QED BY <1>0, <2>2, <2>3 DEF Types
<1>3. CASE AskFile(c)
  <2>1. PICK name \in Asks \ {List, Quit} : Enters(c, name)
    BY <1>3 DEF AskFile
  <2>2. /\ cpc' = [cpc EXCEPT ![c] = "sizing"]
        /\ dirSize' = IF SharedDir /\ dirSize < MaxDir THEN dirSize + 1 ELSE dirSize
        /\ UNCHANGED peer
    BY <1>3 DEF AskFile
  <2>3. dirSize' \in Nat /\ dirSize' # 0
    BY <2>2 DEF Types, SocketTypes, Counts
  <2>4. SocketTypes'
    BY <2>1, <2>2, <2>3, EntersTypes DEF Types, SocketTypes
  <2>5. ClientTypes' /\ Counts'
    BY <2>1, <2>2, <2>3, EntersTypes DEF Types, ClientTypes, Counts, ClientSteps
  <2> QED BY <1>0, <2>4, <2>5 DEF Types
<1>4. CASE AskQuit(c)
  <2>1. /\ Enters(c, Quit) /\ UNCHANGED dirSize
        /\ cpc' = [cpc EXCEPT ![c] = "gone"]
        /\ peer' = [peer EXCEPT ![c] = IF answers[c] = <<>> THEN "gone" ELSE "reset"]
    BY <1>4 DEF AskQuit, Leaves
  <2>2. SocketTypes'
    BY <2>1, EntersTypes DEF Types, SocketTypes
  <2>3. ClientTypes' /\ Counts'
    BY <2>1, EntersTypes DEF Types, ClientTypes, Counts, ClientSteps
  <2> QED BY <1>0, <2>2, <2>3 DEF Types
<1>5. CASE Vanish(c)
  <2>1. SocketTypes'
    BY <1>5 DEF Types, SocketTypes, Vanish, Leaves
  <2>2. ClientTypes' /\ Counts'
    BY <1>5 DEF Types, ClientTypes, Counts, Vanish, Leaves, ClientSteps
  <2> QED BY <1>0, <2>1, <2>2 DEF Types
<1>6. CASE RecvCount(c)
  BY <1>6, RecvIntTypes DEF RecvCount, ClientSteps
<1>7. CASE RecvSize(c)
  BY <1>7, RecvIntTypes DEF RecvSize, ClientSteps
<1>8. CASE RecvName(c)
  <2>1. got' \in [Clients -> Seq(Units)] /\ answers' \in [Clients -> Seq(Units)]
    BY <1>8, ReadsTypes DEF RecvName, Types, SocketTypes, ClientTypes
  <2>2. SocketTypes'
    BY <1>8, <2>1 DEF Types, SocketTypes, RecvName
  <2>3. due[c] \in Nat /\ due[c] # 0
    BY <1>8 DEF Types, ClientTypes, Counts, RecvName
  <2>4. /\ due' = [due EXCEPT ![c] = due[c] - 1]
        /\ cpc' = [cpc EXCEPT ![c] = IF due[c] = 1 THEN "idle" ELSE cpc[c]]
        /\ UNCHANGED <<dirSize, want, asks>>
    BY <1>8 DEF RecvName
  <2>5. ClientTypes'
    BY <2>1, <2>3, <2>4 DEF Types, ClientTypes, ClientSteps
  <2>6. \A d \in Clients : cpc'[d] = "listing" => due'[d] # 0
    BY <2>3, <2>4 DEF Types, ClientTypes, Counts
  <2>7. Counts'
    BY <2>4, <2>6 DEF Types, Counts
  <2> QED BY <1>0, <2>2, <2>5, <2>7 DEF Types
<1>9. CASE RecvBody(c)
  <2>1. PICK k \in 1..Len(answers[c]) :
          /\ Reads(c, k)
          /\ due' = [due EXCEPT ![c] = Rest(@, k)]
          /\ cpc' = [cpc EXCEPT ![c] = IF due'[c] = 0 THEN "idle" ELSE @]
    BY <1>9 DEF RecvBody
  <2>2. got' \in [Clients -> Seq(Units)] /\ answers' \in [Clients -> Seq(Units)]
    BY <2>1, ReadsTypes
  <2>3. SocketTypes'
    BY <1>9, <2>2 DEF Types, SocketTypes, RecvBody
  <2>4. due[c] \in Nat /\ Len(answers[c]) \in Nat
    BY DEF Types, SocketTypes, ClientTypes
  <2>5. Rest(due[c], k) \in Nat
    BY <2>4 DEF Rest
  <2>6. cpc[c] = "fetching" /\ UNCHANGED <<dirSize, want, asks>>
    BY <1>9 DEF RecvBody
  <2>7. ClientTypes' /\ Counts'
    BY <2>1, <2>2, <2>5, <2>6 DEF Types, ClientTypes, Counts, ClientSteps
  <2> QED BY <1>0, <2>3, <2>7 DEF Types
<1> QED BY <1>1, <1>2, <1>3, <1>4, <1>5, <1>6, <1>7, <1>8, <1>9
        DEF Client, Arrive, ClientAsks, ClientReads

LEMMA TypesAtStart == Init => Types
<1> SUFFICES ASSUME Init PROVE Types
  OBVIOUS
<1> USE DEF Init, SocketsInit, SrvInit, CliInit
<1>1. SocketTypes
  BY SizesAreNumbers DEF SocketTypes, Uses
<1>2. ServerTypes
  BY FileSocketsAssumption DEF ServerTypes, ThreadSteps, NoFd
<1>3. ClientTypes
  BY FileClientAssumption DEF ClientTypes, ClientSteps
<1>4. Counts
  BY SizesAreNumbers DEF Counts
<1> QED BY <1>1, <1>2, <1>3, <1>4 DEF Types

LEMMA TypesKept == Types /\ [Next]_vars => Types'
<1> SUFFICES ASSUME Types, [Next]_vars PROVE Types'
  OBVIOUS
<1>1. CASE Next
  BY <1>1, MainTypes, ThreadTypes, ClientTypesKept DEF Next
<1>2. CASE UNCHANGED vars
  <2>1. SocketTypes' /\ ServerTypes' /\ ClientTypes'
    BY <1>2 DEF vars, sockVars, srvVars, cliVars, Types, SocketTypes, ServerTypes, ClientTypes
  <2>2. Counts'
    BY <1>2 DEF vars, sockVars, srvVars, cliVars, Types, Counts
  <2> QED BY <2>1, <2>2 DEF Types
<1> QED BY <1>1, <1>2

-----------------------------------------------------------------------------
(* What holds of sockets and threads while no client has gone. *)
NobodyGone == \A c \in Clients : cpc[c] # "gone"

(* Whoever is connected, in the backlog or later, is still there. *)
PeersStay ==
  /\ \A c \in Clients : peer[c] \in {"none", "open"}
  /\ \A i \in 1..Len(backlog) : peer[backlog[i]] = "open"
  /\ \A f \in 1..MaxFd : fds[f] \in Clients => peer[fds[f]] = "open"
  /\ \A t \in Threads : pc[t] = "blocked" => peer[sock[t]] = "open"

(* "Quit" is neither sent nor served. *)
NobodyQuits ==
  /\ \A c \in Clients : \A i \in 1..Len(requests[c]) : requests[c][i] # Quit
  /\ \A t \in Threads : pc[t] # "quit"

(* A socket that main() or a thread holds is one of a connection, and a *)
(* thread that serves a request holds one.                              *)
HoldsConnection ==
  /\ ci # NoFd => fds[ci] \in Clients
  /\ \A t \in Threads : fd[t] # NoFd => fds[fd[t]] \in Clients
  /\ \A t \in Threads : pc[t] \notin {"none", "start", "recv"} => fd[t] # NoFd

(* The file a thread sends is open, and no other thread's: closing it takes *)
(* no socket and no file from another.                                      *)
Sending(t) == pc[t] \in {"size", "body"} /\ file[t] # NoFd

HoldsOwnFile ==
  /\ \A t \in Threads : Sending(t) => fds[file[t]] = FileFd
  /\ \A t, u \in Threads : Sending(t) /\ Sending(u) /\ t # u => file[t] # file[u]

EndsInList == up \/ \E t \in Threads : pc[t] = "names" /\ file[t] = NoFd

InOrder == PeersStay /\ NobodyQuits /\ HoldsConnection /\ HoldsOwnFile /\ EndsInList

ServiceInv == Types /\ (NobodyGone => InOrder)

LEMMA UsesAreNoClients ==
  /\ Free \notin Clients /\ Spare \notin Clients /\ Reserved \notin Clients
  /\ FileFd \notin Clients /\ DirFd \notin Clients
  /\ Free # FileFd
BY FileSocketsAssumption DEF Uses, Free, Spare, Reserved, FileFd, DirFd

(* A send() to a client that is there neither fails nor ends the process. *)
LEMMA SendInOrder ==
  ASSUME Types, PeersStay, NEW f \in 0..MaxFd, f # NoFd, fds[f] \in Clients,
         NEW units, SendOn(f, units)
  PROVE  up' /\ UNCHANGED peer
<1>1. f \in 1..MaxFd /\ peer[fds[f]] = "open"
  BY DEF PeersStay, NoFd
<1>2. Connected(f)
  BY DEF Connected
<1>3. ~ Deadly(f)
  BY <1>1, UsesAreNoClients DEF Deadly
<1> QED BY <1>1, <1>2, <1>3 DEF SendOn

(* No step of main() disturbs the order. *)
LEMMA MainInOrder ==
  ASSUME Types, InOrder, Main, UNCHANGED cliVars
  PROVE  InOrder'
<1> USE DEF InOrder
<1>0. up /\ up'
  BY DEF Main, MakeSocket, CallAccept, AcceptFails, Accept, CreateThread, sockVars
<1>1. EndsInList'
  BY <1>0 DEF EndsInList
<1>2. CASE MakeSocket \/ CallAccept
  <2>1. /\ UNCHANGED <<backlog, requests, peer, ci, pc, fd, sock, file>>
        /\ \/ UNCHANGED fds
           \/ /\ LowestFree # NoFd
              /\ \E use \in {Spare, Reserved} : fds' = [fds EXCEPT ![LowestFree] = use]
    BY <1>2 DEF MakeSocket, CallAccept
  <2>2. \A f \in 1..MaxFd : fds'[f] = fds[f] \/ (fds[f] = Free /\ fds'[f] \notin Clients)
    BY <2>1, LowestFreeIsFree, UsesAreNoClients DEF Types, SocketTypes
  <2>3. PeersStay' /\ NobodyQuits'
    BY <2>1, <2>2 DEF PeersStay, NobodyQuits
  <2>4. HoldsConnection'
    BY <2>1, <2>2, UsesAreNoClients DEF HoldsConnection, Types, ServerTypes, NoFd
  <2>5. HoldsOwnFile'
    BY <2>1, <2>2, UsesAreNoClients DEF HoldsOwnFile, Sending, Types, ServerTypes, NoFd
  <2> QED BY <1>1, <2>3, <2>4, <2>5
<1>3. CASE AcceptFails
  <2>1. UNCHANGED <<backlog, requests, peer, fds, pc, fd, sock, file>> /\ ci' = NoFd
    BY <1>3 DEF AcceptFails, sockVars
  <2>2. PeersStay' /\ NobodyQuits' /\ HoldsConnection'
    BY <2>1 DEF PeersStay, NobodyQuits, HoldsConnection
  <2>3. HoldsOwnFile'
    BY <2>1 DEF HoldsOwnFile, Sending
  <2> QED BY <1>1, <2>2, <2>3
<1>4. CASE Accept
  <2>1. PICK f \in 1..MaxFd : /\ fds[f] = Reserved
                              /\ fds' = [fds EXCEPT ![f] = Head(backlog)]
                              /\ ci' = f
    BY <1>4 DEF Accept
  <2>2. /\ backlog # <<>> /\ backlog' = Tail(backlog)
        /\ UNCHANGED <<requests, peer, pc, fd, sock, file>>
    BY <1>4 DEF Accept
  <2>3. /\ Head(backlog) \in Clients /\ Head(backlog) = backlog[1] /\ 1 \in 1..Len(backlog)
        /\ \A i \in 1..Len(backlog') : i + 1 \in 1..Len(backlog) /\ backlog'[i] = backlog[i + 1]
    BY <2>2 DEF Types, SocketTypes
  <2>4. peer[Head(backlog)] = "open"
    BY <2>3 DEF PeersStay
  <2>5. fds'[f] = Head(backlog) /\ \A g \in 1..MaxFd : g # f => fds'[g] = fds[g]
    BY <2>1 DEF Types, SocketTypes
  <2>6. PeersStay'
    <3>1. \A i \in 1..Len(backlog') : peer[backlog'[i]] = "open"
      BY <2>3 DEF PeersStay
    <3>2. \A g \in 1..MaxFd : fds'[g] \in Clients => peer[fds'[g]] = "open"
      BY <2>4, <2>5 DEF PeersStay
    <3> QED BY <2>2, <3>1, <3>2 DEF PeersStay
  <2>7. NobodyQuits'
    BY <2>2 DEF NobodyQuits
  <2>8. HoldsConnection'
    <3>1. ci' # NoFd => fds'[ci'] \in Clients
      BY <2>1, <2>3, <2>5
    <3>2. \A t \in Threads : fd[t] # NoFd => fds'[fd[t]] \in Clients
      BY <2>1, <2>3, <2>5 DEF HoldsConnection, Types, ServerTypes, NoFd
    <3> QED BY <2>2, <3>1, <3>2 DEF HoldsConnection
  <2>9. HoldsOwnFile'
    <3>1. Reserved # FileFd
      BY DEF Reserved, FileFd
    <3>2. \A t \in Threads : Sending(t) => fds'[file[t]] = FileFd
      BY <2>1, <2>5, <3>1 DEF HoldsOwnFile, Sending, Types, ServerTypes, NoFd
    <3> QED BY <2>2, <3>2 DEF HoldsOwnFile, Sending
  <2> QED BY <1>1, <2>6, <2>7, <2>8, <2>9
<1>5. CASE CreateThread
  <2>1. PICK t \in Threads : pc[t] = "none" /\ pc' = [pc EXCEPT ![t] = "start"]
    BY <1>5 DEF CreateThread
  <2>2. UNCHANGED <<backlog, requests, peer, fds, ci, fd, sock, file>>
    BY <1>5 DEF CreateThread, sockVars
  <2>3. pc'[t] = "start" /\ \A u \in Threads : u # t => pc'[u] = pc[u]
    BY <2>1 DEF Types, ServerTypes
  <2>4. PeersStay' /\ NobodyQuits' /\ HoldsConnection'
    BY <2>2, <2>3 DEF PeersStay, NobodyQuits, HoldsConnection
  <2>5. HoldsOwnFile'
    BY <2>2, <2>3 DEF HoldsOwnFile, Sending
  <2> QED BY <1>1, <2>4, <2>5
<1> QED BY <1>2, <1>3, <1>4, <1>5 DEF Main

(* A step of a thread that does no more than go on, or forget its socket. *)
LEMMA GoesOnInOrder ==
  ASSUME Types, InOrder, NEW t \in Threads, NEW to, up',
         pc' = [pc EXCEPT ![t] = to], to \notin {"quit", "size", "body"},
         to = "blocked" => peer[sock'[t]] = "open",
         \A u \in Threads : u # t => sock'[u] = sock[u],
         fd' = fd \/ (fd' = [fd EXCEPT ![t] = ci] /\ to = "recv")
                  \/ (fd' = [fd EXCEPT ![t] = NoFd] /\ to = "none"),
         to \notin {"none", "start", "recv"} => fd[t] # NoFd,
         \A c \in Clients : \A i \in 1..Len(requests'[c]) : requests'[c][i] # Quit,
         UNCHANGED <<fds, backlog, peer, ci>>,
         \A u \in Threads : u # t => file'[u] = file[u]
  PROVE  InOrder'
<1> USE DEF InOrder
<1>1. pc'[t] = to /\ \A u \in Threads : u # t => pc'[u] = pc[u]
  BY DEF Types, ServerTypes
<1>2. PeersStay'
  BY <1>1 DEF PeersStay
<1>3. NobodyQuits'
  BY <1>1 DEF NobodyQuits
<1>4. HoldsConnection'
  <2>1. \A u \in Threads : u # t => fd'[u] = fd[u]
    BY DEF Types, ServerTypes
  <2>2. \/ fd'[t] = fd[t]
        \/ fd'[t] = ci /\ to = "recv"
        \/ fd'[t] = NoFd /\ to = "none"
    BY DEF Types, ServerTypes
  <2>3. \A u \in Threads : fd'[u] # NoFd => fds[fd'[u]] \in Clients
    BY <2>1, <2>2 DEF HoldsConnection
  <2>4. \A u \in Threads : pc'[u] \notin {"none", "start", "recv"} => fd'[u] # NoFd
    BY <1>1, <2>1, <2>2 DEF HoldsConnection
  <2> QED BY <2>3, <2>4 DEF HoldsConnection
<1>5. HoldsOwnFile'
  <2>1. \A u \in Threads : Sending(u)' => u # t /\ Sending(u) /\ file'[u] = file[u]
    BY <1>1 DEF Sending
  <2> QED BY <2>1 DEF HoldsOwnFile
<1>6. EndsInList'
  BY DEF EndsInList
<1> QED BY <1>2, <1>3, <1>4, <1>5, <1>6

LEMMA ThreadInOrder ==
  ASSUME Types, InOrder, NEW t \in Threads, Thread(t), UNCHANGED cliVars
  PROVE  InOrder'
<1> USE DEF InOrder
<1>0. up /\ fd[t] \in 0..MaxFd /\ file[t] \in 0..MaxFd
  BY DEF Thread, CopyInfo, CallRecv, RecvRequest, RecvNothing, RecvReset, Takes, CloseClient,
         OpenFile, SendSize, SendBody, SendCount, Rewind, SendName, Moves, Types, ServerTypes
<1>1. CASE CopyInfo(t)
  <2>1. /\ pc' = [pc EXCEPT ![t] = "recv"] /\ fd' = [fd EXCEPT ![t] = ci]
        /\ UNCHANGED <<up, fds, backlog, requests, peer, ci, sock, file>>
    BY <1>1 DEF CopyInfo, Moves, sockVars
  <2>2. \A c \in Clients : \A i \in 1..Len(requests'[c]) : requests'[c][i] # Quit
    BY <2>1 DEF NobodyQuits
  <2> QED BY <1>0, <2>1, <2>2, GoesOnInOrder
<1>2. CASE CallRecv(t)
  <2>1. UNCHANGED <<up, fds, backlog, requests, peer, ci, file>>
    BY <1>2 DEF CallRecv, sockVars
  <2>2. \A c \in Clients : \A i \in 1..Len(requests'[c]) : requests'[c][i] # Quit
    BY <2>1 DEF NobodyQuits
  <2>3. CASE Connected(fd[t])
    <3>1. /\ pc' = [pc EXCEPT ![t] = "blocked"] /\ sock' = [sock EXCEPT ![t] = fds[fd[t]]]
          /\ UNCHANGED fd
      BY <1>2, <2>3 DEF CallRecv, Moves
    <3>2. fd[t] # NoFd /\ peer[fds[fd[t]]] = "open"
      BY <1>0, <2>3 DEF Connected, PeersStay, NoFd
    <3>3. sock'[t] = fds[fd[t]] /\ \A u \in Threads : u # t => sock'[u] = sock[u]
      BY <3>1 DEF Types, ServerTypes
    <3> QED BY <1>0, <2>1, <2>2, <3>1, <3>2, <3>3, GoesOnInOrder
  <2>4. CASE ~ Connected(fd[t])
    <3>1. /\ pc' = [pc EXCEPT ![t] = "none"] /\ sock' = [sock EXCEPT ![t] = Nobody]
          /\ fd' = [fd EXCEPT ![t] = NoFd]
      BY <1>2, <2>4 DEF CallRecv, Moves, Returns
    <3>2. \A u \in Threads : u # t => sock'[u] = sock[u]
      BY <3>1 DEF Types, ServerTypes
    <3> QED BY <1>0, <2>1, <2>2, <3>1, <3>2, GoesOnInOrder
  <2> QED BY <2>3, <2>4
<1>3. CASE RecvRequest(t)
  <2>1. sock[t] \in Clients /\ pc[t] = "blocked" /\ fd[t] # NoFd
    BY <1>3 DEF RecvRequest, Types, Counts, HoldsConnection
  <2>2. requests[sock[t]] \in Seq(Requests) /\ requests[sock[t]] # <<>>
    BY <1>3, <2>1 DEF Types, SocketTypes, RecvRequest
  <2>3. Head(requests[sock[t]]) # Quit
    BY <2>1, <2>2 DEF NobodyQuits
  <2>4. /\ Takes(t, Head(requests[sock[t]]))
        /\ UNCHANGED <<up, fds, backlog, peer>>
    BY <1>3 DEF RecvRequest
  <2>5. /\ pc' = [pc EXCEPT ![t] = Branch(Head(requests[sock[t]]))]
        /\ UNCHANGED <<ci, fd, sock, file>>
    BY <2>4 DEF Takes, Moves
  <2>6. Branch(Head(requests[sock[t]])) \in {"count", "open"}
    BY <2>3 DEF Branch
  <2>7. \A c \in Clients : \A i \in 1..Len(requests'[c]) : requests'[c][i] # Quit
    <3>1. PICK n \in 1..Len(requests[sock[t]]) :
            requests' = [requests EXCEPT ![sock[t]] = SubSeq(@, n + 1, Len(@))]
      BY <1>3 DEF RecvRequest
    <3> DEFINE rest == SubSeq(requests[sock[t]], n + 1, Len(requests[sock[t]]))
    <3>2. requests'[sock[t]] = rest /\ \A c \in Clients : c # sock[t] => requests'[c] = requests[c]
      BY <2>1, <3>1 DEF Types, SocketTypes
    <3>3. \A i \in 1..Len(rest) : rest[i] = requests[sock[t]][i + n] /\ i + n \in 1..Len(requests[sock[t]])
      BY <2>2
    <3>4. \A i \in 1..Len(rest) : rest[i] # Quit
      BY <2>1, <3>3 DEF NobodyQuits
    <3> HIDE DEF rest
    <3>5. ASSUME NEW c \in Clients PROVE \A i \in 1..Len(requests'[c]) : requests'[c][i] # Quit
      BY <2>1, <3>2, <3>4 DEF NobodyQuits
    <3> QED BY <3>5
  <2> QED BY <1>0, <2>1, <2>4, <2>5, <2>6, <2>7, GoesOnInOrder
<1>4. CASE RecvNothing(t) \/ RecvReset(t)
  <2>1. pc[t] = "blocked" /\ peer[sock[t]] # "open"
    BY <1>4 DEF RecvNothing, RecvReset, Moves
  <2> QED BY <2>1 DEF PeersStay
<1>5. CASE CloseClient(t)
  BY <1>5 DEF CloseClient, Moves, NobodyQuits
<1>6. CASE OpenFile(t)
  <2>1. /\ pc[t] = "open" /\ pc' = [pc EXCEPT ![t] = "size"]
        /\ UNCHANGED <<up, backlog, requests, peer, ci, fd, sock>>
    BY <1>6 DEF OpenFile, Moves
  <2>2. pc'[t] = "size" /\ \A u \in Threads : u # t => pc'[u] = pc[u]
    BY <2>1 DEF Types, ServerTypes
  <2>3. \/ file'[t] = NoFd /\ UNCHANGED fds
        \/ /\ LowestFree # NoFd /\ file'[t] = LowestFree
           /\ fds' = [fds EXCEPT ![LowestFree] = FileFd]
    BY <1>6 DEF OpenFile, Types, ServerTypes
  <2>4. \A u \in Threads : u # t => file'[u] = file[u]
    BY <1>6 DEF OpenFile, Types, ServerTypes
  <2>5. \A f \in 1..MaxFd : fds'[f] = fds[f] \/ (fds[f] = Free /\ fds'[f] = FileFd)
    BY <2>3, LowestFreeIsFree DEF Types, SocketTypes
  <2>6. PeersStay'
    BY <2>1, <2>2, <2>5, UsesAreNoClients DEF PeersStay
  <2>7. NobodyQuits'
    BY <2>1, <2>2 DEF NobodyQuits
  <2>8. HoldsConnection'
    <3>1. fd[t] # NoFd
      BY <2>1 DEF HoldsConnection
    <3> QED BY <2>1, <2>2, <2>5, <3>1, UsesAreNoClients
            DEF HoldsConnection, Types, ServerTypes, NoFd
  <2>9. HoldsOwnFile'
    <3>1. \A u \in Threads : u # t /\ Sending(u)' =>
            /\ Sending(u) /\ file'[u] = file[u] /\ file[u] \in 1..MaxFd
            /\ fds[file[u]] = FileFd /\ fds'[file'[u]] = FileFd
      BY <2>2, <2>4, <2>5, UsesAreNoClients DEF HoldsOwnFile, Sending, Types, ServerTypes, NoFd
    <3>2. Sending(t)' => fds'[file'[t]] = FileFd /\ fds[file'[t]] = Free
      BY <2>3, LowestFreeIsFree DEF Sending, Types, SocketTypes
    <3> QED BY <3>1, <3>2, UsesAreNoClients DEF HoldsOwnFile
  <2> QED BY <1>0, <2>1, <2>6, <2>7, <2>8, <2>9 DEF EndsInList
<1>7. CASE SendSize(t)
  <2>1. /\ pc[t] = "size" /\ pc' = [pc EXCEPT ![t] = "body"]
        /\ UNCHANGED <<fds, backlog, requests, ci, fd, sock, file>>
    BY <1>7 DEF SendSize, Moves
  <2>2. pc'[t] = "body" /\ \A u \in Threads : u # t => pc'[u] = pc[u]
    BY <2>1 DEF Types, ServerTypes
  <2>3. fd[t] # NoFd /\ fds[fd[t]] \in Clients
    BY <2>1 DEF HoldsConnection
  <2>4. PICK n \in SizesOf(t) : SendOn(fd[t], <<Size(n)>>)
    BY <1>7, <2>3 DEF SendSize, Connected
  <2>5. up' /\ UNCHANGED peer
    BY <1>0, <2>3, <2>4, SendInOrder
  <2>6. PeersStay' /\ NobodyQuits' /\ HoldsConnection'
    BY <2>1, <2>2, <2>3, <2>5 DEF PeersStay, NobodyQuits, HoldsConnection
  <2>7. HoldsOwnFile'
    <3>1. \A u \in Threads : Sending(u)' => Sending(u)
      BY <2>1, <2>2 DEF Sending
    <3> QED BY <2>1, <3>1 DEF HoldsOwnFile
  <2> QED BY <2>5, <2>6, <2>7 DEF EndsInList
<1>8. CASE SendBody(t)
  <2>1. /\ pc[t] = "body" /\ pc' = [pc EXCEPT ![t] = "recv"]
        /\ file' = [file EXCEPT ![t] = NoFd] /\ Closes(file[t])
        /\ UNCHANGED <<backlog, requests, ci, fd, sock>>
    BY <1>8 DEF SendBody, GoesOn, Moves
  <2>2. pc'[t] = "recv" /\ \A u \in Threads : u # t => pc'[u] = pc[u]
    BY <2>1 DEF Types, ServerTypes
  <2>3. fd[t] # NoFd /\ fds[fd[t]] \in Clients
    BY <2>1 DEF HoldsConnection
  <2>4. up' /\ UNCHANGED peer
    <3>1. CASE Opened(t)
      <4>1. SendOn(fd[t], BodyOf(line[t]))
        BY <1>8, <3>1 DEF SendBody
      <4> QED BY <1>0, <2>3, <4>1, SendInOrder
    <3>2. CASE ~ Opened(t)
      BY <1>0, <1>8, <3>2 DEF SendBody
    <3> QED BY <3>1, <3>2
  <2>5. \A f \in 1..MaxFd : fds'[f] = fds[f] \/ (fds[f] = FileFd /\ fds'[f] = Free /\ f = file[t] /\ Sending(t))
    <3>1. CASE file[t] = NoFd
      BY <2>1, <3>1 DEF Closes
    <3>2. CASE file[t] # NoFd
      <4>1. Sending(t) /\ fds[file[t]] = FileFd
        BY <2>1, <3>2 DEF Sending, HoldsOwnFile
      <4>2. fds' = [fds EXCEPT ![file[t]] = Free]
        BY <2>1, <3>2 DEF Closes
      <4> QED BY <4>1, <4>2 DEF Types, SocketTypes
    <3> QED BY <3>1, <3>2
  <2>6. PeersStay'
    BY <2>1, <2>2, <2>4, <2>5, UsesAreNoClients DEF PeersStay
  <2>7. NobodyQuits'
    BY <2>1, <2>2 DEF NobodyQuits
  <2>8. HoldsConnection'
    BY <2>1, <2>2, <2>5, UsesAreNoClients DEF HoldsConnection, Types, ServerTypes, NoFd
  <2>9. HoldsOwnFile'
    <3>1. \A u \in Threads : Sending(u)' => u # t /\ Sending(u) /\ file'[u] = file[u]
      BY <2>1, <2>2 DEF Sending, Types, ServerTypes
    <3>2. \A u \in Threads : Sending(u)' => fds'[file'[u]] = FileFd
      BY <2>5, <3>1 DEF HoldsOwnFile, Sending, Types, ServerTypes, NoFd
    <3> QED BY <3>1, <3>2 DEF HoldsOwnFile
  <2> QED BY <2>4, <2>6, <2>7, <2>8, <2>9 DEF EndsInList
<1>9. CASE SendCount(t)
  <2>1. /\ pc[t] = "count" /\ pc' = [pc EXCEPT ![t] = "rewind"]
        /\ file' = [file EXCEPT ![t] = LowestFree]
        /\ \/ UNCHANGED fds
           \/ LowestFree # NoFd /\ fds' = [fds EXCEPT ![LowestFree] = DirFd]
        /\ UNCHANGED <<backlog, requests, ci, fd, sock>>
    BY <1>9 DEF SendCount, Moves
  <2>2. pc'[t] = "rewind" /\ \A u \in Threads : u # t => pc'[u] = pc[u]
    BY <2>1 DEF Types, ServerTypes
  <2>3. fd[t] # NoFd /\ fds[fd[t]] \in Clients
    BY <2>1 DEF HoldsConnection
  <2>4. \E n : SendOn(fd[t], <<Size(n)>>)
    BY <1>9 DEF SendCount
  <2>5. up' /\ UNCHANGED peer
    BY <1>0, <2>3, <2>4, SendInOrder
  <2>6. \A f \in 1..MaxFd : fds'[f] = fds[f] \/ (fds[f] = Free /\ fds'[f] = DirFd)
    BY <2>1, LowestFreeIsFree DEF Types, SocketTypes
  <2>7. PeersStay'
    BY <2>1, <2>2, <2>5, <2>6, UsesAreNoClients DEF PeersStay
  <2>8. NobodyQuits'
    BY <2>1, <2>2 DEF NobodyQuits
  <2>9. HoldsConnection'
    BY <2>1, <2>2, <2>3, <2>6, UsesAreNoClients DEF HoldsConnection, Types, ServerTypes, NoFd
  <2>10. HoldsOwnFile'
    <3>1. \A u \in Threads : Sending(u)' => u # t /\ Sending(u) /\ file'[u] = file[u]
      BY <2>1, <2>2 DEF Sending, Types, ServerTypes
    <3>2. \A u \in Threads : Sending(u)' => fds'[file'[u]] = FileFd
      BY <2>6, <3>1, UsesAreNoClients DEF HoldsOwnFile, Sending, Types, ServerTypes, NoFd
    <3> QED BY <3>1, <3>2 DEF HoldsOwnFile
  <2> QED BY <2>5, <2>7, <2>8, <2>9, <2>10 DEF EndsInList
<1>10. CASE Rewind(t)
  <2>1. /\ pc[t] = "rewind" /\ pc' = [pc EXCEPT ![t] = "names"] /\ (up' <=> file[t] # NoFd)
        /\ UNCHANGED <<fds, backlog, requests, peer, ci, fd, sock, file>>
    BY <1>10 DEF Rewind
  <2>2. pc'[t] = "names" /\ \A u \in Threads : u # t => pc'[u] = pc[u]
    BY <2>1 DEF Types, ServerTypes
  <2>3. fd[t] # NoFd
    BY <2>1 DEF HoldsConnection
  <2>4. PeersStay' /\ NobodyQuits' /\ HoldsConnection'
    BY <2>1, <2>2, <2>3 DEF PeersStay, NobodyQuits, HoldsConnection
  <2>5. HoldsOwnFile'
    <3>1. \A u \in Threads : Sending(u)' => Sending(u)
      BY <2>1, <2>2 DEF Sending
    <3> QED BY <2>1, <3>1 DEF HoldsOwnFile
  <2>6. EndsInList'
    BY <2>1, <2>2 DEF EndsInList
  <2> QED BY <2>4, <2>5, <2>6
<1>11. CASE SendName(t)
  <2>1. PICK to \in {"recv", "names"} : pc' = [pc EXCEPT ![t] = to]
    BY <1>11 DEF SendName, Moves
  <2>2. /\ pc[t] = "names"
        /\ UNCHANGED <<fds, backlog, requests, ci, fd, sock, file>>
    BY <1>11 DEF SendName, Moves
  <2>3. fd[t] # NoFd /\ fds[fd[t]] \in Clients
    BY <2>2 DEF HoldsConnection
  <2>4. up' /\ UNCHANGED peer
    BY <1>0, <1>11, <2>3, SendInOrder DEF SendName
  <2>5. \A c \in Clients : \A i \in 1..Len(requests'[c]) : requests'[c][i] # Quit
    BY <2>2 DEF NobodyQuits
  <2> QED BY <2>1, <2>2, <2>3, <2>4, <2>5, GoesOnInOrder
<1> QED BY <1>1, <1>2, <1>3, <1>4, <1>5, <1>6, <1>7, <1>8, <1>9, <1>10, <1>11 DEF Thread

(* No step of a client that stays disturbs the order. *)
LEMMA ClientInOrder ==
  ASSUME Types, InOrder, NEW c \in Clients, Client(c), UNCHANGED srvVars, NobodyGone'
  PROVE  InOrder'
<1> USE DEF InOrder
<1>1. UNCHANGED <<up, fds, mainAt, ci, pc, fd, sock, file>>
  BY DEF Client, Arrive, Connect, ClientAsks, AskList, AskFile, AskQuit, Enters, Vanish,
         ClientReads, RecvCount, RecvSize, RecvInt, RecvName, RecvBody, srvVars
<1>2. HoldsConnection' /\ EndsInList'
  BY <1>1 DEF HoldsConnection, EndsInList
<1>3. HoldsOwnFile'
  <2>1. \A u \in Threads : Sending(u)' <=> Sending(u)
    BY <1>1 DEF Sending
  <2> QED BY <1>1, <2>1 DEF HoldsOwnFile
<1>4. ASSUME Leaves(c) PROVE FALSE
  <2>1. cpc' = [cpc EXCEPT ![c] = "gone"]
    BY <1>4 DEF Leaves
  <2> QED BY <2>1 DEF Types, ClientTypes, NobodyGone
<1>5. CASE Connect(c)
  <2>1. /\ peer' = [peer EXCEPT ![c] = "open"] /\ backlog' = Append(backlog, c)
        /\ UNCHANGED requests
    BY <1>5 DEF Connect
  <2>2. peer'[c] = "open" /\ \A d \in Clients : d # c => peer'[d] = peer[d]
    BY <2>1 DEF Types, SocketTypes
  <2>3. \A i \in 1..Len(backlog') : peer'[backlog'[i]] = "open"
    <3>1. backlog \in Seq(Clients)
      BY DEF Types, SocketTypes
    <3>2. \A i \in 1..Len(backlog') : backlog'[i] = c \/ (i \in 1..Len(backlog) /\ backlog'[i] = backlog[i])
      BY <2>1, <3>1
    <3>3. \A i \in 1..Len(backlog) : backlog[i] \in Clients /\ peer[backlog[i]] = "open"
      BY <3>1 DEF PeersStay
    <3> QED BY <2>2, <3>2, <3>3
  <2>4. PeersStay'
    BY <1>1, <2>2, <2>3 DEF PeersStay, Types, Counts
  <2>5. NobodyQuits'
    BY <1>1, <2>1 DEF NobodyQuits
  <2> QED BY <1>2, <1>3, <2>4, <2>5
<1>6. CASE AskList(c) \/ AskFile(c)
  <2>1. PICK request : request # Quit /\ Enters(c, request)
    BY <1>6 DEF AskList, AskFile, List, Quit
  <2>2. UNCHANGED <<backlog, peer>> /\ requests' = [requests EXCEPT ![c] = Append(@, request)]
    BY <1>6, <2>1 DEF AskList, AskFile, Enters
  <2>3. PeersStay'
    BY <1>1, <2>2 DEF PeersStay
  <2>4. NobodyQuits'
    <3>1. requests[c] \in Seq(Requests)
      BY DEF Types, SocketTypes
    <3>2. requests'[c] = Append(requests[c], request) /\ \A d \in Clients : d # c => requests'[d] = requests[d]
      BY <2>2 DEF Types, SocketTypes
    <3>3. \A i \in 1..Len(requests'[c]) :
            requests'[c][i] = request \/ (i \in 1..Len(requests[c]) /\ requests'[c][i] = requests[c][i])
      BY <3>1, <3>2
    <3>4. \A i \in 1..Len(requests'[c]) : requests'[c][i] # Quit
      BY <2>1, <3>3 DEF NobodyQuits
    <3> QED BY <1>1, <3>2, <3>4 DEF NobodyQuits
  <2> QED BY <1>2, <1>3, <2>3, <2>4
<1>7. CASE AskQuit(c) \/ Vanish(c)
  BY <1>4, <1>7 DEF AskQuit, Vanish
<1>8. CASE ClientReads(c)
  <2>1. UNCHANGED <<backlog, requests, peer>>
    BY <1>8 DEF ClientReads, RecvCount, RecvSize, RecvInt, RecvName, RecvBody
  <2>2. PeersStay' /\ NobodyQuits'
    BY <1>1, <2>1 DEF PeersStay, NobodyQuits
  <2> QED BY <1>2, <1>3, <2>2
<1> QED BY <1>5, <1>6, <1>7, <1>8 DEF Client, Arrive, ClientAsks

(* Who is gone stays gone. *)
LEMMA GoneStaysGone ==
  ASSUME Types, Next, NobodyGone'
  PROVE  NobodyGone
<1>1. CASE UNCHANGED cliVars
  BY <1>1 DEF cliVars, NobodyGone
<1>2. ASSUME NEW c \in Clients, Client(c) PROVE NobodyGone
  <2>1. cpc[c] # "gone"
    BY <1>2 DEF Client, Arrive, Connect, ClientAsks, AskList, AskFile, AskQuit, Enters, Vanish,
                ClientReads, RecvCount, RecvSize, RecvInt, RecvName, RecvBody
  <2>2. \E to : cpc' = [cpc EXCEPT ![c] = to]
    BY <1>2 DEF Client, Arrive, Connect, ClientAsks, AskList, AskFile, AskQuit, Vanish, Leaves,
                ClientReads, RecvCount, RecvSize, RecvInt, RecvName, RecvBody
  <2>3. \A d \in Clients : d # c => cpc'[d] = cpc[d]
    BY <2>2 DEF Types, ClientTypes
  <2> QED BY <2>1, <2>3 DEF NobodyGone
<1> QED BY <1>1, <1>2 DEF Next

LEMMA ServiceInvAtStart == Init => ServiceInv
<1> SUFFICES ASSUME Init PROVE InOrder
  BY TypesAtStart DEF ServiceInv
<1> USE DEF Init, SocketsInit, SrvInit, CliInit
<1>1. PeersStay
  BY UsesAreNoClients DEF PeersStay
<1>2. NobodyQuits /\ HoldsConnection /\ HoldsOwnFile /\ EndsInList
  BY DEF NobodyQuits, HoldsConnection, HoldsOwnFile, Sending, EndsInList
<1> QED BY <1>1, <1>2 DEF InOrder

LEMMA ServiceInvKept == ServiceInv /\ [Next]_vars => ServiceInv'
<1> SUFFICES ASSUME ServiceInv, [Next]_vars PROVE ServiceInv'
  OBVIOUS
<1>1. Types /\ Types'
  BY TypesKept DEF ServiceInv
<1>2. ASSUME NobodyGone' PROVE InOrder'
  <2>1. CASE Next
    <3>1. InOrder
      BY <1>1, <1>2, <2>1, GoneStaysGone DEF ServiceInv
    <3> QED BY <1>1, <1>2, <2>1, <3>1, MainInOrder, ThreadInOrder, ClientInOrder DEF Next
  <2>2. CASE UNCHANGED vars
    <3>1. InOrder
      BY <1>2, <2>2 DEF ServiceInv, NobodyGone, vars, cliVars
    <3>2. \A t \in Threads : Sending(t)' <=> Sending(t)
      BY <2>2 DEF vars, srvVars, Sending
    <3> QED BY <2>2, <3>1, <3>2
            DEF InOrder, PeersStay, NobodyQuits, HoldsConnection, HoldsOwnFile, EndsInList,
                vars, sockVars, srvVars, cliVars
  <2> QED BY <2>1, <2>2
<1> QED BY <1>1, <1>2 DEF ServiceInv

(* ServiceInv is inductive: what holds while no client has gone cannot be  *)
(* disturbed by any interleaving of main(), threads and clients.           *)
THEOREM ServiceInvariant == Spec => []ServiceInv
BY ServiceInvAtStart, ServiceInvKept, PTL DEF Spec

(* Every variable of sockets, server and clients keeps its type, for every *)
(* set of clients, threads and files and every number of descriptors.      *)
THEOREM FileTypesCorrect == Spec => []FileTypeOK
<1>1. ServiceInv => FileTypeOK
  BY TypesAreTypes DEF ServiceInv
<1> QED BY <1>1, ServiceInvariant, PTL

(* Whatever they ask for and however many come at once, clients that stay  *)
(* do not end the server's process, but by a list whose directory it could *)
(* not open for want of a descriptor.                                      *)
THEOREM ServerDiesOnlyAfterGoodbye == Spec => []DiesOnlyAfterGoodbye
<1>1. ServiceInv => DiesOnlyAfterGoodbye
  BY DEF ServiceInv, NobodyGone, InOrder, EndsInList, DiesOnlyAfterGoodbye
<1> QED BY <1>1, ServiceInvariant, PTL
-----------------------------------------------------------------------------
(* The connection accepted last.  A client connects once, before it is in *)
(* the backlog or has a descriptor.                                       *)
ConnectsOnce ==
  /\ \A c \in Clients : cpc[c] = "start" => peer[c] = "none"
  /\ \A f \in 1..MaxFd : fds[f] \in Clients => peer[fds[f]] # "none"
  /\ \A i \in 1..Len(backlog) : peer[backlog[i]] # "none"

(* A thread that serves the connection accepted last, or will copy it. *)
TakesCare(t) ==
  \/ pc[t] = "start"
  \/ ServesOn(t, ci) /\ (pc[t] = "blocked" => sock[t] = fds[ci])

LatestKept ==
  up /\ mainAt # "create" /\ Connected(ci) /\ peer[fds[ci]] = "open"
    => \E t \in Threads : TakesCare(t)

(* No step of a thread puts a client on a descriptor or opens a connection. *)
LEMMA ThreadOpensNothing ==
  ASSUME Types, NEW t \in Threads, Thread(t)
  PROVE  /\ up /\ UNCHANGED <<mainAt, ci, backlog>>
         /\ \A f \in 1..MaxFd : fds'[f] \in Clients => fds'[f] = fds[f]
         /\ \A c \in Clients : peer'[c] = peer[c] \/ (peer[c] = "gone" /\ peer'[c] = "reset")
<1>1. up /\ UNCHANGED <<mainAt, ci, backlog>>
  BY DEF Thread, CopyInfo, CallRecv, RecvRequest, RecvNothing, RecvReset, Takes, CloseClient,
         OpenFile, SendSize, SendBody, SendCount, Rewind, SendName, Moves, sockVars
<1>2. \A f \in 1..MaxFd : fds'[f] \in Clients => fds'[f] = fds[f]
  <2>1. ASSUME NEW g, Closes(g) PROVE \A f \in 1..MaxFd : fds'[f] \in Clients => fds'[f] = fds[f]
    BY <2>1, UsesAreNoClients DEF Closes, Types, SocketTypes
  <2>2. CASE CloseClient(t)
    BY <2>1, <2>2 DEF CloseClient
  <2>3. CASE SendBody(t)
    BY <2>1, <2>3 DEF SendBody
  <2>4. CASE OpenFile(t) \/ SendCount(t)
    BY <2>4, LowestFreeIsFree, UsesAreNoClients DEF OpenFile, SendCount, Types, SocketTypes
  <2>5. CASE UNCHANGED fds
    BY <2>5
  <2> QED BY <2>2, <2>3, <2>4, <2>5
          DEF Thread, CopyInfo, CallRecv, RecvRequest, RecvNothing, RecvReset,
              SendSize, Rewind, SendName, sockVars
<1>3. \A c \in Clients : peer'[c] = peer[c] \/ (peer[c] = "gone" /\ peer'[c] = "reset")
  <2>1. ASSUME NEW g, NEW units, SendOn(g, units)
        PROVE  \A c \in Clients : peer'[c] = peer[c] \/ (peer[c] = "gone" /\ peer'[c] = "reset")
    BY <2>1 DEF SendOn, Types, SocketTypes
  <2>2. CASE UNCHANGED peer
    BY <2>2
  <2>3. CASE \E g, units : SendOn(g, units)
    BY <2>1, <2>3
  <2>4. UNCHANGED peer \/ \E g, units : SendOn(g, units)
    BY DEF Thread, CopyInfo, CallRecv, RecvRequest, RecvNothing, RecvReset, CloseClient,
           OpenFile, SendSize, SendBody, SendCount, Rewind, SendName, sockVars
  <2> QED BY <2>2, <2>3, <2>4
<1> QED BY <1>1, <1>2, <1>3

(* A thread that has copied its socket leaves it only when recv() fails. *)
LEMMA ServingGoesOn ==
  ASSUME Types, NEW t \in Threads, Thread(t), NEW u \in Threads, TakesCare(u),
         Connected(ci), fds'[ci] = fds[ci], peer[fds[ci]] # "reset"
  PROVE  TakesCare(u)'
<1>1. ci' = ci
  BY ThreadOpensNothing
<1>2. \A v \in Threads : v # t => pc'[v] = pc[v] /\ fd'[v] = fd[v] /\ sock'[v] = sock[v]
  BY DEF Thread, CopyInfo, CallRecv, Returns, RecvRequest, RecvNothing, RecvReset, Takes,
         CloseClient, OpenFile, SendSize, SendBody, SendCount, Rewind, SendName, Moves,
         Types, ServerTypes
<1>3. CASE u # t
  BY <1>1, <1>2, <1>3 DEF TakesCare, ServesOn
<1>4. CASE u = t
  <2>1. CASE CopyInfo(t)
    BY <1>4, <2>1 DEF CopyInfo, Moves, TakesCare, ServesOn, Types, ServerTypes
  <2>2. CASE CallRecv(t)
    <3>1. pc[t] = "recv" /\ fd[t] = ci
      BY <1>4, <2>2 DEF CallRecv, Moves, TakesCare, ServesOn
    <3>2. Moves(t, "recv", "blocked") /\ sock' = [sock EXCEPT ![t] = fds[ci]] /\ UNCHANGED fd
      BY <2>2, <3>1 DEF CallRecv
    <3> QED BY <1>1, <1>4, <3>1, <3>2 DEF Moves, TakesCare, ServesOn, Types, ServerTypes
  <2>3. CASE RecvRequest(t) \/ RecvNothing(t)
    <3>1. PICK request : Takes(t, request) /\ pc[t] = "blocked"
      BY <2>3 DEF RecvRequest, RecvNothing
    <3>2. Branch(request) \notin {"none", "start", "blocked"}
      BY DEF Branch
    <3>3. pc'[t] = Branch(request) /\ fd'[t] = fd[t]
      BY <3>1 DEF Takes, Moves, Types, ServerTypes
    <3> QED BY <1>1, <1>4, <3>1, <3>2, <3>3 DEF TakesCare, ServesOn
  <2>4. CASE RecvReset(t)
    <3>1. pc[t] = "blocked" /\ peer[sock[t]] = "reset"
      BY <2>4 DEF RecvReset, Moves
    <3> QED BY <1>4, <3>1 DEF TakesCare
  <2>5. CASE \/ CloseClient(t) \/ OpenFile(t) \/ SendSize(t) \/ SendBody(t)
             \/ SendCount(t) \/ Rewind(t) \/ SendName(t)
    <3>1. /\ pc[t] \notin {"none", "start"} /\ pc'[t] \notin {"none", "start", "blocked"}
          /\ fd' = fd
      BY <2>5 DEF CloseClient, OpenFile, SendSize, SendBody, GoesOn, SendCount, Rewind, SendName,
                  Moves, Types, ServerTypes
    <3> QED BY <1>1, <1>4, <3>1 DEF TakesCare, ServesOn
  <2> QED BY <2>1, <2>2, <2>3, <2>4, <2>5 DEF Thread
<1> QED BY <1>3, <1>4

LEMMA MainKeepsLatest ==
  ASSUME Types, ConnectsOnce, LatestKept, Main, UNCHANGED cliVars
  PROVE  ConnectsOnce' /\ LatestKept'
<1>1. UNCHANGED <<up, peer, cpc>>
  BY DEF Main, MakeSocket, CallAccept, AcceptFails, Accept, CreateThread, sockVars, cliVars
<1>2. CASE MakeSocket \/ CallAccept
  <2>1. \A f \in 1..MaxFd : fds'[f] \in Clients => fds'[f] = fds[f]
    BY <1>2, LowestFreeIsFree, UsesAreNoClients DEF MakeSocket, CallAccept, Types, SocketTypes
  <2>2. mainAt # "create" /\ UNCHANGED <<backlog, ci, pc, fd, sock>>
    BY <1>2 DEF MakeSocket, CallAccept
  <2>3. ConnectsOnce'
    BY <1>1, <2>1, <2>2 DEF ConnectsOnce
  <2>4. ASSUME up', Connected(ci)', peer'[fds'[ci']] = "open" PROVE \E t \in Threads : TakesCare(t)'
    <3>1. ci \in 1..MaxFd
      BY <2>2, <2>4, FileSocketsAssumption DEF Connected, NoFd, Types, ServerTypes
    <3>2. fds'[ci] = fds[ci] /\ Connected(ci)
      BY <2>1, <2>2, <2>4, <3>1 DEF Connected
    <3>3. PICK t \in Threads : TakesCare(t)
      BY <1>1, <2>2, <2>4, <3>2 DEF LatestKept
    <3>4. TakesCare(t)'
      BY <2>2, <3>2, <3>3 DEF TakesCare, ServesOn
    <3> QED BY <3>4
  <2> QED BY <2>3, <2>4 DEF LatestKept
<1>3. CASE AcceptFails
  BY <1>1, <1>3 DEF AcceptFails, sockVars, ConnectsOnce, LatestKept
<1>4. CASE Accept
  <2>1. backlog \in Seq(Clients) /\ backlog # <<>>
    BY <1>4 DEF Accept, Types, SocketTypes
  <2>2. peer[Head(backlog)] # "none"
    BY <2>1 DEF ConnectsOnce
  <2>3. \A i \in 1..Len(Tail(backlog)) : peer[Tail(backlog)[i]] # "none"
    <3>1. \A i \in 1..Len(Tail(backlog)) : i + 1 \in 1..Len(backlog) /\ Tail(backlog)[i] = backlog[i + 1]
      BY <2>1
    <3> QED BY <3>1 DEF ConnectsOnce
  <2>4. \A f \in 1..MaxFd : fds'[f] = fds[f] \/ fds'[f] = Head(backlog)
    BY <1>4 DEF Accept, Types, SocketTypes
  <2>5. backlog' = Tail(backlog) /\ mainAt' = "create"
    BY <1>4 DEF Accept
  <2> QED BY <1>1, <2>2, <2>3, <2>4, <2>5 DEF ConnectsOnce, LatestKept
<1>5. CASE CreateThread
  <2>1. PICK t \in Threads : pc' = [pc EXCEPT ![t] = "start"]
    BY <1>5 DEF CreateThread
  <2>2. TakesCare(t)'
    BY <2>1 DEF TakesCare, Types, ServerTypes
  <2>3. UNCHANGED <<fds, backlog>>
    BY <1>5 DEF CreateThread, sockVars
  <2> QED BY <1>1, <2>2, <2>3 DEF ConnectsOnce, LatestKept
<1> QED BY <1>2, <1>3, <1>4, <1>5 DEF Main

LEMMA ThreadKeepsLatest ==
  ASSUME Types, ConnectsOnce, LatestKept, NEW t \in Threads, Thread(t), UNCHANGED cliVars
  PROVE  ConnectsOnce' /\ LatestKept'
<1>1. /\ up /\ UNCHANGED <<mainAt, ci, backlog>>
      /\ \A f \in 1..MaxFd : fds'[f] \in Clients => fds'[f] = fds[f]
      /\ \A c \in Clients : peer'[c] = peer[c] \/ (peer[c] = "gone" /\ peer'[c] = "reset")
  BY ThreadOpensNothing
<1>2. cpc' = cpc
  BY DEF cliVars
<1>3. ConnectsOnce'
  <2>1. \A i \in 1..Len(backlog) : backlog[i] \in Clients
    BY DEF Types, SocketTypes
  <2> QED BY <1>1, <1>2, <2>1 DEF ConnectsOnce
<1>4. ASSUME mainAt' # "create", Connected(ci)', peer'[fds'[ci']] = "open"
      PROVE  \E u \in Threads : TakesCare(u)'
  <2>1. ci \in 1..MaxFd
    BY <1>1, <1>4, FileSocketsAssumption DEF Connected, NoFd, Types, ServerTypes
  <2>2. fds'[ci] = fds[ci] /\ Connected(ci)
    BY <1>1, <1>4, <2>1 DEF Connected
  <2>3. peer[fds[ci]] = "open"
    BY <1>1, <1>4, <2>2 DEF Connected
  <2>4. PICK u \in Threads : TakesCare(u)
    BY <1>1, <1>4, <2>2, <2>3 DEF LatestKept
  <2>5. TakesCare(u)'
    BY <2>2, <2>3, <2>4, ServingGoesOn
  <2> QED BY <2>5
<1> QED BY <1>3, <1>4 DEF LatestKept

LEMMA ClientKeepsLatest ==
  ASSUME Types, ConnectsOnce, LatestKept, NEW c \in Clients, Client(c), UNCHANGED srvVars
  PROVE  ConnectsOnce' /\ LatestKept'
<1>1. UNCHANGED <<up, fds, mainAt, ci, pc, fd, sock>>
  BY DEF Client, Arrive, Connect, ClientAsks, AskList, AskFile, AskQuit, Enters, Vanish,
         ClientReads, RecvCount, RecvSize, RecvInt, RecvName, RecvBody, srvVars
<1>2. \/ Connect(c)
      \/ /\ cpc[c] # "start" /\ cpc'[c] # "start" /\ UNCHANGED backlog
         /\ peer' = peer \/ \E p \in {"gone", "reset"} : peer' = [peer EXCEPT ![c] = p]
  <2>1. CASE Connect(c)
    BY <2>1
  <2>2. CASE ClientAsks(c)
    BY <2>2 DEF ClientAsks, AskList, AskFile, AskQuit, Enters, Leaves, Types, ClientTypes
  <2>3. CASE Vanish(c)
    BY <2>3 DEF Vanish, Leaves, Types, ClientTypes
  <2>4. CASE ClientReads(c)
    BY <2>4 DEF ClientReads, RecvCount, RecvSize, RecvInt, RecvName, RecvBody, Types, ClientTypes
  <2> QED BY <2>1, <2>2, <2>3, <2>4 DEF Client, Arrive
<1>3. \A d \in Clients : d # c => cpc'[d] = cpc[d]
  BY DEF Client, Arrive, Connect, ClientAsks, AskList, AskFile, AskQuit, Vanish, Leaves,
         ClientReads, RecvCount, RecvSize, RecvInt, RecvName, RecvBody, Types, ClientTypes
<1>4. \A i \in 1..Len(backlog) : backlog[i] \in Clients
  BY DEF Types, SocketTypes
<1>5. CASE Connect(c)
  <2>1. /\ cpc[c] = "start" /\ cpc'[c] = "idle"
        /\ peer[c] = "none" /\ peer'[c] = "open"
        /\ \A d \in Clients : d # c => peer'[d] = peer[d]
        /\ backlog' = Append(backlog, c)
    BY <1>5 DEF Connect, ConnectsOnce, Types, SocketTypes, ClientTypes
  <2>2. \A f \in 1..MaxFd : fds[f] \in Clients => fds[f] # c
    BY <2>1 DEF ConnectsOnce
  <2>3. \A i \in 1..Len(backlog') : peer'[backlog'[i]] # "none"
    <3>1. backlog \in Seq(Clients)
      BY DEF Types, SocketTypes
    <3>2. \A i \in 1..Len(backlog') : backlog'[i] = c \/ (i \in 1..Len(backlog) /\ backlog'[i] = backlog[i])
      BY <2>1, <3>1
    <3> QED BY <1>4, <2>1, <3>2 DEF ConnectsOnce
  <2>4. ConnectsOnce'
    BY <1>1, <1>3, <2>1, <2>2, <2>3 DEF ConnectsOnce
  <2>5. LatestKept'
    <3>1. ASSUME Connected(ci) PROVE peer'[fds[ci]] = peer[fds[ci]]
      <4>1. ci \in 1..MaxFd /\ fds[ci] \in Clients
        BY <3>1, FileSocketsAssumption DEF Connected, NoFd, Types, ServerTypes
      <4> QED BY <2>1, <2>2, <4>1
    <3>2. \A t \in Threads : TakesCare(t)' <=> TakesCare(t)
      BY <1>1 DEF TakesCare, ServesOn
    <3> QED BY <1>1, <3>1, <3>2 DEF LatestKept, Connected
  <2> QED BY <2>4, <2>5
<1>6. CASE ~ Connect(c)
  <2>1. cpc[c] # "start" /\ cpc'[c] # "start" /\ backlog' = backlog
    BY <1>2, <1>6
  <2>2. \A d \in Clients : peer'[d] = peer[d] \/ (peer'[d] \in {"gone", "reset"} /\ d = c)
    BY <1>2, <1>6 DEF Types, SocketTypes
  <2>3. ConnectsOnce'
    BY <1>1, <1>3, <1>4, <2>1, <2>2 DEF ConnectsOnce
  <2>4. LatestKept'
    <3>1. Connected(ci) /\ peer'[fds[ci]] = "open" => peer[fds[ci]] = "open"
      BY <2>2 DEF Connected
    <3>2. \A t \in Threads : TakesCare(t)' <=> TakesCare(t)
      BY <1>1 DEF TakesCare, ServesOn
    <3> QED BY <1>1, <3>1, <3>2 DEF LatestKept, Connected
  <2> QED BY <2>3, <2>4
<1> QED BY <1>5, <1>6

(* Nothing a thread copies from main()'s clientinfo (tcpserver.c:26, 174) is *)
(* the wrong socket for the connection accepted last: it is served while its *)
(* client is there, for any clients, threads and descriptors, in a crowd, in *)
(* the middle of other hand-overs, and with clients that go.                 *)
THEOREM LatestAlwaysServed == Spec => []LatestServed
<1>1. Init => ConnectsOnce /\ LatestKept
  BY UsesAreNoClients DEF Init, SocketsInit, SrvInit, CliInit, ConnectsOnce, LatestKept, Connected
<1>2. ConnectsOnce /\ LatestKept /\ Types /\ [Next]_vars => (ConnectsOnce /\ LatestKept)'
  <2> SUFFICES ASSUME ConnectsOnce, LatestKept, Types, [Next]_vars
               PROVE  ConnectsOnce' /\ LatestKept'
    OBVIOUS
  <2>1. CASE Next
    BY <2>1, MainKeepsLatest, ThreadKeepsLatest, ClientKeepsLatest DEF Next
  <2>2. CASE UNCHANGED vars
    <3>1. UNCHANGED <<up, fds, backlog, peer, mainAt, ci, pc, fd, sock, cpc>>
      BY <2>2 DEF vars, sockVars, srvVars, cliVars
    <3>2. \A t \in Threads : TakesCare(t)' <=> TakesCare(t)
      BY <3>1 DEF TakesCare, ServesOn
    <3> QED BY <3>1, <3>2 DEF ConnectsOnce, LatestKept, Connected
  <2> QED BY <2>1, <2>2
<1>3. ConnectsOnce /\ LatestKept => LatestServed
  BY DEF LatestKept, LatestServed, AllCopied, TakesCare
<1>4. ServiceInv => Types
  BY DEF ServiceInv
<1> QED BY <1>1, <1>2, <1>3, <1>4, ServiceInvariant, PTL DEF Spec
=============================================================================
