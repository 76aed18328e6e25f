---------------------------- MODULE FileService ----------------------------
(***************************************************************************)
(* The file server of project1b with its clients: the steps of main(), of  *)
(* every thread and of every client interleave.                            *)
(***************************************************************************)
EXTENDS FileServer, FileClient

CONSTANT Crowd   \* may a client connect while another is being handed over?

vars == <<sockVars, srvVars, cliVars>>

ASSUME FileServiceAssumption == Crowd \in BOOLEAN

Init == SocketsInit /\ SrvInit /\ CliInit

(* main() waits in accept() and every thread has copied its socket. *)
Quiet ==
  /\ backlog = <<>> /\ mainAt = "accept"
  /\ \A t \in Threads : pc[t] # "start"

Arrive(c) == (Crowd \/ Quiet) /\ Connect(c)

Client(c) == Arrive(c) \/ ClientAsks(c) \/ Vanish(c) \/ ClientReads(c)

Next ==
  \/ (Main \/ \E t \in Threads : Thread(t)) /\ UNCHANGED cliVars
  \/ (\E c \in Clients : Client(c)) /\ UNCHANGED srvVars

Spec == Init /\ [][Next]_vars

(* The system schedules main() and every thread, and a client goes on reading *)
(* the answer it waits for.                                                   *)
FairSpec ==
  /\ Spec
  /\ WF_vars(Main /\ UNCHANGED cliVars)
  /\ \A t \in Threads : WF_vars(Thread(t) /\ UNCHANGED cliVars)
  /\ \A c \in Clients : WF_vars(ClientReads(c) /\ UNCHANGED srvVars)

-----------------------------------------------------------------------------
(* Every variable of sockets, server and clients keeps its type. *)
FileTypeOK ==
  /\ up \in BOOLEAN
  /\ fds \in [1..MaxFd -> Clients \cup Uses]
  /\ backlog \in Seq(Clients)
  /\ requests \in [Clients -> Seq(Requests)]
  /\ answers \in [Clients -> Seq(Units)]
  /\ peer \in [Clients -> {"none", "open", "gone", "reset"}]
  /\ closed \subseteq Clients
  /\ dirSize \in Nat
  /\ mainAt \in {"socket", "call", "accept", "create"}
  /\ ci \in 0..MaxFd
  /\ pc \in [Threads -> ThreadSteps]
  /\ made \in [Threads -> 0..MaxFd]
  /\ fd \in [Threads -> 0..MaxFd]
  /\ sock \in [Threads -> Clients \cup {Nobody}]
  /\ line \in [Threads -> Requests \cup {Unset}]
  /\ file \in [Threads -> 0..MaxFd]
  /\ left \in [Threads -> Nat]
  /\ cpc \in [Clients -> ClientSteps]
  /\ want \in [Clients -> Requests \cup {Nothing}]
  /\ got \in [Clients -> Seq(Units)]
  /\ due \in [Clients -> Nat]
  /\ asks \in 0..MaxAsks

(* "solved by semephores and locking" (tcpserver.c:179): each thread serves  *)
(* the socket of the accept() it was created after, whatever main() has done *)
(* with its clientinfo in the meantime.                                      *)
HandedOver ==
  \A t \in Threads : pc[t] \notin {"none", "start"} => fd[t] = made[t]

(* Once the threads made so far have copied their socket, the connection that *)
(* was accepted last has a thread as long as its client is there: what        *)
(* main()'s single clientinfo (tcpserver.c:174) loses, it loses to a later    *)
(* connection, also when descriptors run out and numbers are used again.      *)
ServesOn(t, f) == pc[t] \notin {"none", "start"} /\ fd[t] = f

AllCopied == mainAt # "create" /\ \A t \in Threads : pc[t] # "start"

LatestServed ==
  up /\ AllCopied /\ Connected(ci) /\ peer[fds[ci]] = "open"
    => \E t \in Threads : ServesOn(t, ci)

(* When a client comes back to its prompt it has read all of the answer: the *)
(* int it reads next is the one of the next answer.                          *)
NothingLeftOver ==
  up => \A c \in Clients : cpc[c] = "idle" => answers[c] = <<>>

(* "recieve size" (tcpclient.c:125): what the client is about to read as the *)
(* size of a file is the size of the file it has asked for.                  *)
SizeComesFirst ==
  \A c \in Clients :
    cpc[c] = "sizing" /\ want[c] \in Files /\ answers[c] # <<>>
      => Head(answers[c]) = Size(FileSize[want[c]])

(* "'Quit' to exit" (tcpclient.c:79) and "Client is disconnecting..."          *)
(* (tcpserver.c:49): one client that quits does not end the service of others. *)
QuitIsPrivate == (\E c \in Clients : cpc[c] = "gone") => up

(* Whatever the clients ask for, and however many come at once, the server's  *)
(* process ends (an exit(1), a SIGPIPE or a fault of one of its threads) only *)
(* after some client has gone, or in the list of a directory that it could    *)
(* not open for want of a descriptor (tcpserver.c:55, 65).                    *)
DiesOnlyAfterGoodbye ==
  ~up => \/ \E c \in Clients : cpc[c] = "gone"
         \/ \E t \in Threads : pc[t] = "names" /\ file[t] = NoFd

(* Every fetch of an existing file ends: the sizes that server and client go *)
(* by agree, and no thread or client is left waiting for the other.          *)
FetchEnds ==
  \A c \in Clients :
    cpc[c] \in {"sizing", "fetching"} /\ want[c] \in Files ~> cpc[c] = "idle"

-----------------------------------------------------------------------------
(* The clients' view, which the threads of the server implement. *)
Waiting(c) == cpc[c] \in {"counting", "listing", "sizing", "fetching"}

Listing == [i \in 1..DirAtStart |-> Name(DirAtStart + 1 - i)]
Answer(request) == IF request = List THEN Listing ELSE Pieces(request)

Library == INSTANCE FileLibrary WITH
  Readers <- Clients, Titles <- Files \cup {List}, ContentOf <- Answer,
  NoTitle <- Nothing, Empty <- <<>>,
  asked <- [c \in Clients |-> IF Waiting(c) THEN want[c] ELSE Nothing],
  given <- [c \in Clients |-> IF Waiting(c) THEN <<>> ELSE got[c]]

(* Every list and every file that a client has finished reading is exactly   *)
(* what it asked for, although the threads send it in pieces and recv() cuts *)
(* the stream where it likes.                                                *)
ImplementsLibrary == Library!LibrarySpec
=============================================================================
