----------------------------- MODULE FileClient -----------------------------
(***************************************************************************)
(* The client of project1b (tcpclient.c): it asks for a list or a file,    *)
(* reads an int, and reads as many names, or as many bytes, as it says.    *)
(***************************************************************************)
EXTENDS FileSockets

CONSTANTS Asks,       \* what the users may enter
          MaxAsks,    \* bound: entries of all users together
          MayVanish,  \* may a client's process be killed?
          SharedDir,  \* do the clients run in the server's directory?
          MaxDir      \* bound: names in that directory

VARIABLES cpc,        \* where a client stands
          want,       \* fname: what it has asked for
          got,        \* what it has read of the answer, after the int
          due,        \* count, or size less what it has read
          asks        \* entries so far

cliVars == <<cpc, want, got, due, asks>>

Nothing == "nothing"
ClientSteps == {"start", "idle", "counting", "listing", "sizing", "fetching", "gone"}

ASSUME FileClientAssumption ==
  /\ Asks \subseteq Files \cup {List, Quit, Missing} /\ Nothing \notin Files
  /\ MaxAsks \in Nat /\ MaxDir \in Nat
  /\ MayVanish \in BOOLEAN /\ SharedDir \in BOOLEAN

CliInit ==
  /\ cpc = [c \in Clients |-> "start"]
  /\ want = [c \in Clients |-> Nothing]
  /\ got = [c \in Clients |-> <<>>]
  /\ due = [c \in Clients |-> 0]
  /\ asks = 0

-----------------------------------------------------------------------------
Connect(c) ==
  /\ up /\ cpc[c] = "start"
  /\ cpc' = [cpc EXCEPT ![c] = "idle"]
  /\ peer' = [peer EXCEPT ![c] = "open"]
  /\ backlog' = Append(backlog, c)
  /\ UNCHANGED <<up, fds, requests, answers, closed, dirSize, want, got, due, asks>>

Enters(c, request) ==
  /\ cpc[c] = "idle" /\ asks < MaxAsks /\ request \in Asks
  /\ asks' = asks + 1
  /\ want' = [want EXCEPT ![c] = request]
  /\ got' = [got EXCEPT ![c] = <<>>]
  /\ requests' = [requests EXCEPT ![c] = Append(@, request)]
  /\ UNCHANGED <<up, fds, backlog, answers, closed, due>>

AskList(c) ==
  /\ Enters(c, List)
  /\ cpc' = [cpc EXCEPT ![c] = "counting"]
  /\ UNCHANGED <<peer, dirSize>>

(* fopen(nname, "w") makes a new name where the client runs. *)
AskFile(c) ==
  /\ \E name \in Asks \ {List, Quit} : Enters(c, name)
  /\ cpc' = [cpc EXCEPT ![c] = "sizing"]
  /\ dirSize' = IF SharedDir /\ dirSize < MaxDir THEN dirSize + 1 ELSE dirSize
  /\ UNCHANGED peer

(* The process ends.  A connection closed with unread data is reset. *)
Leaves(c) ==
  /\ cpc' = [cpc EXCEPT ![c] = "gone"]
  /\ peer' = [peer EXCEPT ![c] = IF answers[c] = <<>> THEN "gone" ELSE "reset"]

AskQuit(c) == Enters(c, Quit) /\ Leaves(c) /\ UNCHANGED dirSize

Vanish(c) ==
  /\ MayVanish /\ cpc[c] \notin {"start", "gone"}
  /\ Leaves(c)
  /\ UNCHANGED <<up, fds, backlog, requests, answers, closed, dirSize,
                 want, got, due, asks>>

-----------------------------------------------------------------------------
(* recv() of sizeof(int) bytes: the value of a unit that is no int may be any; *)
(* at the end of the stream the variable keeps its 0.                          *)
Ints(unit) == IF unit[1] = "int" THEN {unit[2]} ELSE 0..MaxSize

ReadInt(c, n) ==
  \/ /\ answers[c] # <<>>
     /\ n \in Ints(Head(answers[c]))
     /\ answers' = [answers EXCEPT ![c] = Tail(@)]
  \/ EndOfAnswers(c) /\ n = 0 /\ UNCHANGED answers

RecvInt(c, from, to) ==
  /\ cpc[c] = from
  /\ \E n \in 0..(MaxSize + MaxDir) :
       /\ ReadInt(c, n)
       /\ due' = [due EXCEPT ![c] = n]
       /\ cpc' = [cpc EXCEPT ![c] = IF n = 0 THEN "idle" ELSE to]
  /\ UNCHANGED <<up, fds, backlog, requests, peer, closed, dirSize, want, got, asks>>

RecvCount(c) == RecvInt(c, "counting", "listing")
RecvSize(c) == RecvInt(c, "sizing", "fetching")

(* recv() returns the first k units of what has arrived. *)
Reads(c, k) ==
  /\ k \in 1..Len(answers[c])
  /\ got' = [got EXCEPT ![c] = @ \o SubSeq(answers[c], 1, k)]
  /\ answers' = [answers EXCEPT ![c] = SubSeq(@, k + 1, Len(@))]

(* One recv() counts as one name, whatever it returns. *)
RecvName(c) ==
  /\ cpc[c] = "listing"
  /\ \/ \E k \in 1..Len(answers[c]) : Reads(c, k)
     \/ EndOfAnswers(c) /\ UNCHANGED <<got, answers>>
  /\ due' = [due EXCEPT ![c] = @ - 1]
  /\ cpc' = [cpc EXCEPT ![c] = IF due[c] = 1 THEN "idle" ELSE @]
  /\ UNCHANGED <<up, fds, backlog, requests, peer, closed, dirSize, want, asks>>

(* (A fault: one recv() is taken for the whole file.) *)
RestAfterOne(n, k) == 0

(* The loop goes on while total < size; recv() may return more than is due. *)
Rest(n, k) == IF k < n THEN n - k ELSE 0

(* At the end of the stream recv() returns 0 and the loop never ends. *)
RecvBody(c) ==
  /\ cpc[c] = "fetching"
  /\ \E k \in 1..Len(answers[c]) :
       /\ Reads(c, k)
       /\ due' = [due EXCEPT ![c] = Rest(@, k)]
       /\ cpc' = [cpc EXCEPT ![c] = IF due'[c] = 0 THEN "idle" ELSE @]
  /\ UNCHANGED <<up, fds, backlog, requests, peer, closed, dirSize, want, asks>>

ClientReads(c) == RecvCount(c) \/ RecvSize(c) \/ RecvName(c) \/ RecvBody(c)
ClientAsks(c) == AskList(c) \/ AskFile(c) \/ AskQuit(c)
=============================================================================
