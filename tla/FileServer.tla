----------------------------- MODULE FileServer -----------------------------
(***************************************************************************)
(* The threaded file server of project1b (tcpserver.c): main() accepts a   *)
(* connection, writes its socket to the variable ci and starts a thread    *)
(* with the address of ci; recieve_message() copies ci and serves requests.*)
(***************************************************************************)
EXTENDS FileSockets

CONSTANT Threads     \* bound: threads that exist at one time, as numbers

ASSUME FileServerAssumption == Threads \subseteq Nat

VARIABLES mainAt,    \* where main() stands: "socket", "call", "accept", "create"
          ci,        \* clientinfo of the last accept(): its socket
          pc,        \* where a thread stands
          made,      \* auxiliary: the socket the thread was created for
          fd,        \* clientsocket of the thread
          sock,      \* the connection whose recv() it is blocked in
          line,      \* its buffer
          file,      \* the file or directory it has opened
          left       \* names of the list it has still to send

srvVars == <<mainAt, ci, pc, made, fd, sock, line, file, left>>

Nobody == "nobody"
Unset == "unset"     \* the buffer before the first recv() that fills it
Requests == Files \cup {List, Quit, Missing}

ThreadSteps == {"none", "start", "recv", "blocked", "quit", "open", "size",
                "body", "count", "rewind", "names"}

SrvInit ==
  /\ mainAt = "socket"
  /\ ci = NoFd
  /\ pc = [t \in Threads |-> "none"]
  /\ made = [t \in Threads |-> NoFd]
  /\ fd = [t \in Threads |-> NoFd]
  /\ sock = [t \in Threads |-> Nobody]
  /\ line = [t \in Threads |-> Unset]
  /\ file = [t \in Threads |-> NoFd]
  /\ left = [t \in Threads |-> 0]

-----------------------------------------------------------------------------
(* main(): every round begins with a socket that nothing uses. *)
MakeSocket ==
  /\ up /\ mainAt = "socket"
  /\ mainAt' = "call"
  /\ fds' = IF LowestFree = NoFd THEN fds ELSE [fds EXCEPT ![LowestFree] = Spare]
  /\ UNCHANGED <<up, backlog, requests, answers, peer, closed, dirSize,
                 ci, pc, made, fd, sock, line, file, left>>

(* accept() takes its descriptor before it waits.  Without a free one it *)
(* returns -1 at once, and main() starts a thread all the same.          *)
CallAccept ==
  /\ up /\ mainAt = "call"
  /\ LowestFree # NoFd
  /\ fds' = [fds EXCEPT ![LowestFree] = Reserved]
  /\ mainAt' = "accept"
  /\ UNCHANGED <<up, backlog, requests, answers, peer, closed, dirSize,
                 ci, pc, made, fd, sock, line, file, left>>

AcceptFails ==
  /\ up /\ mainAt = "call"
  /\ LowestFree = NoFd
  /\ ci' = NoFd
  /\ mainAt' = "create"
  /\ UNCHANGED <<sockVars, pc, made, fd, sock, line, file, left>>

Accept ==
  /\ up /\ mainAt = "accept" /\ backlog # <<>>
  /\ \E f \in 1..MaxFd :
       /\ fds[f] = Reserved
       /\ fds' = [fds EXCEPT ![f] = Head(backlog)]
       /\ ci' = f
  /\ backlog' = Tail(backlog)
  /\ mainAt' = "create"
  /\ UNCHANGED <<up, requests, answers, peer, closed, dirSize,
                 pc, made, fd, sock, line, file, left>>

CreateThread ==
  /\ up /\ mainAt = "create"
  /\ \E t \in Threads :
       /\ pc[t] = "none" /\ \A u \in Threads : pc[u] = "none" => t <= u
       /\ pc' = [pc EXCEPT ![t] = "start"]
       /\ made' = [made EXCEPT ![t] = ci]
  /\ mainAt' = "socket"
  /\ UNCHANGED <<sockVars, ci, fd, sock, line, file, left>>

Main == MakeSocket \/ CallAccept \/ AcceptFails \/ Accept \/ CreateThread

-----------------------------------------------------------------------------
Moves(t, from, to) == up /\ pc[t] = from /\ pc' = [pc EXCEPT ![t] = to]

(* The address of ci that the thread was given is main()'s only one: what it *)
(* copies is what ci holds by then.                                          *)

CopyInfo(t) ==
  /\ Moves(t, "start", "recv")
  /\ fd' = [fd EXCEPT ![t] = ci]
  /\ UNCHANGED <<sockVars, mainAt, ci, made, sock, line, file, left>>

Returns(t) ==
  /\ fd' = [fd EXCEPT ![t] = NoFd]
  /\ sock' = [sock EXCEPT ![t] = Nobody]
  /\ line' = [line EXCEPT ![t] = Unset]

(* (A fault: the error of recv() is not looked at.) *)
CallRecvUnchecked(t) ==
  /\ UNCHANGED <<sockVars, mainAt, ci, made, fd, file, left>>
  /\ IF Connected(fd[t])
     THEN /\ Moves(t, "recv", "blocked")
          /\ sock' = [sock EXCEPT ![t] = fds[fd[t]]]
          /\ UNCHANGED line
     ELSE /\ Moves(t, "recv", "open")
          /\ line' = [line EXCEPT ![t] = Missing]
          /\ UNCHANGED sock

(* The call of recv(): it blocks on the connection the descriptor has now, *)
(* or fails, and the thread returns.                                       *)
CallRecv(t) ==
  /\ UNCHANGED <<sockVars, mainAt, ci, made, file, left>>
  /\ IF Connected(fd[t])
     THEN /\ Moves(t, "recv", "blocked")
          /\ sock' = [sock EXCEPT ![t] = fds[fd[t]]]
          /\ UNCHANGED <<fd, line>>
     ELSE Moves(t, "recv", "none") /\ Returns(t)

(* Where the comparisons with "Quit" and "List" lead: without an else after *)
(* the first, "Quit" is also looked for as a file.                          *)
Branch(request) ==
  IF request = Quit THEN "quit" ELSE IF request = List THEN "count" ELSE "open"

Takes(t, request) ==
  /\ Moves(t, "blocked", Branch(request))
  /\ line' = [line EXCEPT ![t] = request]
  /\ UNCHANGED <<mainAt, ci, made, fd, sock, file, left>>

(* recv() returns what has arrived: of several requests, only the first is *)
(* looked at.                                                              *)
RecvRequest(t) ==
  LET c == sock[t] IN
  /\ pc[t] = "blocked"
  /\ requests[c] # <<>>
  /\ Takes(t, Head(requests[c]))
  /\ \E n \in 1..Len(requests[c]) :
       requests' = [requests EXCEPT ![c] = SubSeq(@, n + 1, Len(@))]
  /\ UNCHANGED <<up, fds, backlog, answers, peer, closed, dirSize>>

(* The client is gone: recv() returns 0, which the code does not look at, and *)
(* what the buffer held is served again.  A buffer never filled holds what    *)
(* the stack held.                                                            *)
RecvNothing(t) ==
  LET c == sock[t] IN
  /\ pc[t] = "blocked"
  /\ requests[c] = <<>> /\ peer[c] # "open"
  /\ UNCHANGED sockVars
  /\ \/ line[t] # Unset /\ Takes(t, line[t])
     \/ line[t] = Unset /\ \E request \in Requests : Takes(t, request)

(* After a reset recv() may also report an error. *)
RecvReset(t) ==
  LET c == sock[t] IN
  /\ Moves(t, "blocked", "none")
  /\ requests[c] = <<>> /\ peer[c] = "reset"
  /\ Returns(t)
  /\ UNCHANGED <<sockVars, mainAt, ci, made, file, left>>

-----------------------------------------------------------------------------
(* "Client is disconnecting...": the thread closes its socket and goes on. *)
CloseClient(t) ==
  /\ Moves(t, "quit", "open")
  /\ Closes(fd[t])
  /\ UNCHANGED <<up, backlog, requests, answers, peer, dirSize,
                 mainAt, ci, made, fd, sock, line, file, left>>

(* open() fails for a name of no file, and without a free descriptor. *)
OpenFile(t) ==
  /\ Moves(t, "open", "size")
  /\ IF line[t] \in Files /\ LowestFree # NoFd
     THEN /\ file' = [file EXCEPT ![t] = LowestFree]
          /\ fds' = [fds EXCEPT ![LowestFree] = FileFd]
     ELSE file' = [file EXCEPT ![t] = NoFd] /\ UNCHANGED fds
  /\ UNCHANGED <<up, backlog, requests, answers, peer, closed, dirSize,
                 mainAt, ci, made, fd, sock, line, left>>

Opened(t) == line[t] \in Files /\ file[t] # NoFd /\ fds[file[t]] = FileFd

(* (A fault: fstat() is not called.) *)
SizesOnStack(t) == 0..MaxSize

(* fstat() of a file that is not open leaves the size unwritten. *)
SizesOf(t) == IF Opened(t) THEN {FileSize[line[t]]} ELSE 0..MaxSize

(* send() of the size; if that fails, exit(1). *)
SendSize(t) ==
  /\ Moves(t, "size", "body")
  /\ \/ /\ Connected(fd[t])
        /\ \E n \in SizesOf(t) : SendOn(fd[t], <<Size(n)>>)
     \/ ~Connected(fd[t]) /\ up' = FALSE /\ UNCHANGED <<answers, peer>>
  /\ UNCHANGED <<fds, backlog, requests, closed, dirSize,
                 mainAt, ci, made, fd, sock, line, file, left>>

Shortened(name) == Tail(Pieces(name))   \* (A fault: it starts one unit late.)
BodyOf(name) == Pieces(name)

(* sendfile(), which sends nothing of a file that is not open, and close(). *)
(* The thread goes on to the next request.  (A fault: it ends.)             *)
EndsAfterFile == "none"
GoesOn == "recv"

SendBody(t) ==
  /\ Moves(t, "body", GoesOn)
  /\ IF Opened(t) THEN SendOn(fd[t], BodyOf(line[t])) ELSE UNCHANGED <<up, answers, peer>>
  /\ Closes(file[t])
  /\ file' = [file EXCEPT ![t] = NoFd]
  /\ UNCHANGED <<backlog, requests, dirSize, mainAt, ci, made, fd, sock, line, left>>

(* opendir(), whose descriptor is never closed, the first pass and its count; *)
(* the count is 0 when the directory could not be opened.                     *)
SendCount(t) ==
  /\ Moves(t, "count", "rewind")
  /\ file' = [file EXCEPT ![t] = LowestFree]
  /\ fds' = IF LowestFree = NoFd THEN fds ELSE [fds EXCEPT ![LowestFree] = DirFd]
  /\ SendOn(fd[t], <<Size(IF LowestFree = NoFd THEN 0 ELSE dirSize)>>)
  /\ UNCHANGED <<backlog, requests, closed, dirSize, mainAt, ci, made, fd, sock, line, left>>

(* rewinddir(), which a directory that was not opened does not survive, and *)
(* the second pass, which may find more names by now.                       *)
Rewind(t) ==
  /\ pc[t] = "rewind" /\ up
  /\ pc' = [pc EXCEPT ![t] = "names"]
  /\ up' = (file[t] # NoFd)
  /\ left' = [left EXCEPT ![t] = dirSize]
  /\ UNCHANGED <<fds, backlog, requests, answers, peer, closed, dirSize,
                 mainAt, ci, made, fd, sock, line, file>>

NamesOverrun(k) == k = 0    \* (A fault: one name too many.)
NamesDone(k) == k = 1

SendName(t) ==
  /\ Moves(t, "names", IF NamesDone(left[t]) THEN "recv" ELSE "names")
  /\ SendOn(fd[t], <<Name(left[t])>>)
  /\ left' = [left EXCEPT ![t] = @ - 1]
  /\ UNCHANGED <<fds, backlog, requests, closed, dirSize,
                 mainAt, ci, made, fd, sock, line, file>>

Thread(t) ==
  \/ CopyInfo(t) \/ CallRecv(t)
  \/ RecvRequest(t) \/ RecvNothing(t) \/ RecvReset(t)
  \/ CloseClient(t) \/ OpenFile(t) \/ SendSize(t) \/ SendBody(t)
  \/ SendCount(t) \/ Rewind(t) \/ SendName(t)
=============================================================================
