---------------------------- MODULE FileSockets ----------------------------
(***************************************************************************)
(* What the operating system keeps for the file server of project1b: the   *)
(* descriptors of the server's process, its backlog of connections, the    *)
(* two byte streams of each connection, and the server's directory.        *)
(*                                                                         *)
(* A request is one send() of the client.  The stream to the client is a   *)
(* sequence of units of four bytes, as long as the int that precedes every *)
(* answer: <<"int", n>>, the i-th name of a list <<"name", i>>, or the     *)
(* i-th piece of a file <<file, i>>.  A connection has no other boundaries *)
(* than these, so a recv() may return several units at once.               *)
(***************************************************************************)
EXTENDS Integers, Sequences, FiniteSets, FiniteSetsExt

CONSTANTS Clients,   \* the client processes
          MaxFd,     \* descriptors the server has left after its listening one
          FileSize   \* the files of the server, with their sizes in units

VARIABLES up,        \* does the server's process run?
          fds,       \* the server's descriptors
          backlog,   \* clients that are connected and not accepted
          requests,  \* what each client has sent and the server not received
          answers,   \* what the server has sent and each client not received
          peer,      \* the client's end: "none", "open", "gone", "reset"
          closed,    \* clients whose connection the server has closed
          dirSize    \* number of names in the server's directory

sockVars == <<up, fds, backlog, requests, answers, peer, closed, dirSize>>

Free == "free"
Spare == "spare"          \* a socket that main() makes and never uses
Reserved == "reserved"    \* for the connection that accept() waits for
FileFd == "file"          \* a file that is being sent
DirFd == "dir"            \* a directory that was listed
Uses == {Free, Spare, Reserved, FileFd, DirFd}
NoFd == 0           \* stands for -1
List == "List"
Quit == "Quit"
Missing == "missing"   \* a name of no file

Files == DOMAIN FileSize
MaxSize == Max({FileSize[f] : f \in Files} \cup {2})
DirAtStart == 2 + Cardinality(Files)   \* with "." and ".."
Size(n) == <<"int", n>>
Name(i) == <<"name", i>>
Pieces(f) == [i \in 1..FileSize[f] |-> <<f, i>>]
Units == ({"int", "name"} \cup Files) \X Nat

ASSUME FileSocketsAssumption ==
  /\ MaxFd \in Nat \ {0}
  /\ IsFiniteSet(Files) /\ \A f \in Files : FileSize[f] \in Nat
  /\ Files \cap {"int", "name", List, Quit, Missing} = {}
  /\ Clients \cap Uses = {}

SocketsInit ==
  /\ up = TRUE
  /\ fds = [f \in 1..MaxFd |-> Free]
  /\ backlog = <<>>
  /\ requests = [c \in Clients |-> <<>>]
  /\ answers = [c \in Clients |-> <<>>]
  /\ peer = [c \in Clients |-> "none"]
  /\ closed = {}
  /\ dirSize = DirAtStart

-----------------------------------------------------------------------------
(* A new descriptor is the lowest free one. *)
LowestFree ==
  LET free == {f \in 1..MaxFd : fds[f] = Free} IN IF free = {} THEN NoFd ELSE Min(free)

Connected(f) == f # NoFd /\ fds[f] \in Clients

(* send() raises SIGPIPE on a socket that is not connected and on one that  *)
(* the peer has reset, and nothing in the server handles it.                *)
Deadly(f) ==
  f # NoFd /\ (fds[f] = Spare \/ (Connected(f) /\ peer[fds[f]] = "reset"))

(* send() and sendfile().  A peer whose process is gone answers with a reset. *)
(* On a descriptor of another kind they fail and change nothing.              *)
SendOn(f, units) ==
  /\ up' = ~Deadly(f)
  /\ IF Connected(f) /\ ~Deadly(f)
     THEN LET c == fds[f] IN
          \/ /\ peer[c] = "open"
             /\ answers' = [answers EXCEPT ![c] = @ \o units]
             /\ UNCHANGED peer
          \/ /\ peer[c] = "gone"
             /\ peer' = [peer EXCEPT ![c] = "reset"]
             /\ UNCHANGED answers
     ELSE UNCHANGED <<answers, peer>>

Closes(f) ==
  IF f = NoFd THEN UNCHANGED <<fds, closed>>
  ELSE /\ fds' = [fds EXCEPT ![f] = Free]
       /\ closed' = closed \cup ({fds[f]} \cap Clients)

(* The client's recv() finds the end of the stream. *)
EndOfAnswers(c) == answers[c] = <<>> /\ (~up \/ c \in closed)
=============================================================================
