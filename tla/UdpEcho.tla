------------------------------ MODULE UdpEcho ------------------------------
(***************************************************************************)
(* The echo programs of labs/lab5 (server.c and client.c).  The server     *)
(* sends every line back to where it came from; when five seconds pass     *)
(* without one, recvfrom() fails, the error is only printed, and the       *)
(* server sends its empty buffer to the last client.  A client enters a    *)
(* line and waits for one answer, whichever it is.                         *)
(*                                                                         *)
(* The programs do nothing about lost datagrams, so the path may lose some *)
(* and a full socket drops what arrives.  It keeps the order.              *)
(***************************************************************************)
EXTENDS Integers, Sequences, FiniteSets

CONSTANTS Clients,
          Nobody,      \* an address that was never set
          Buffer,      \* datagrams a socket holds
          MaxLines,    \* bound: lines a client enters
          MaxLost      \* bound: datagrams the path loses

ASSUME EchoAssumption ==
  Nobody \notin Clients /\ Buffer \in Nat \ {0} /\ MaxLines \in Nat /\ MaxLost \in Nat

(* The n-th line of a client, and the empty string. *)
Text == [by : Clients \cup {Nobody}, n : Nat]
Line(c, n) == [by |-> c, n |-> n]
Blank == Line(Nobody, 0)

VARIABLES
  requests,   \* the server's socket: lines and who sent them
  line,       \* the server's buffer
  clientaddr, \* the address the server sends to
  inbox,      \* each client's socket
  state,      \* each client: "typing", "waiting" in recvfrom(), or "exited"
  entered,    \* how many lines it has entered
  answers,    \* what it has printed as "Got from server"
  lost,       \* the datagrams that the path has lost
  missing     \* auxiliary: how many of a client's lines were lost, on either way

vars == <<requests, line, clientaddr, inbox, state, entered, answers, lost, missing>>

Init ==
  /\ requests = <<>> /\ line = Blank /\ clientaddr = Nobody
  /\ inbox = [c \in Clients |-> <<>>]
  /\ state = [c \in Clients |-> "typing"]
  /\ entered = [c \in Clients |-> 0]
  /\ answers = [c \in Clients |-> <<>>]
  /\ lost = 0
  /\ missing = [c \in Clients |-> 0]

(* sendto(): the datagram arrives, or the path loses it, or there is no room. *)
Arrives(socket) == Len(socket) < Buffer /\ UNCHANGED <<lost, missing>>
Misses(c) == IF c \in Clients THEN [missing EXCEPT ![c] = @ + 1] ELSE missing
Vanishes(socket, text) ==
  /\ \/ lost < MaxLost /\ lost' = lost + 1
     \/ Len(socket) >= Buffer /\ UNCHANGED lost
  /\ missing' = Misses(text.by)

(* To a client: one that has exited has no socket any more, and the address *)
(* that was never set is nobody's.                                          *)
SendToClient(c, text) ==
  \/ /\ c \in Clients /\ state[c] # "exited"
     /\ Arrives(inbox[c])
     /\ inbox' = [inbox EXCEPT ![c] = Append(@, text)]
  \/ /\ c \in Clients /\ state[c] # "exited"
     /\ Vanishes(inbox[c], text)
     /\ UNCHANGED inbox
  \/ /\ c \in Clients => state[c] = "exited"
     /\ UNCHANGED <<inbox, lost, missing>>

-----------------------------------------------------------------------------
(* The server.  What the buffer holds when it waits again.  (A fault: the  *)
(* bzero() is forgotten.)                                                  *)
KeptBuffer(text) == text
Cleared(text) == Blank

(* Who an answer goes to.  (A fault: the server keeps its first client.) *)
FirstSender(request) == IF clientaddr = Nobody THEN request.from ELSE clientaddr
Sender(request) == request.from

Echo ==
  /\ requests # <<>>
  /\ LET request == Head(requests) IN
     /\ clientaddr' = Sender(request)
     /\ SendToClient(Sender(request), request.text)
     /\ line' = Cleared(request.text)
  /\ requests' = Tail(requests)
  /\ UNCHANGED <<state, entered, answers>>

Timeout ==
  /\ requests = <<>>
  /\ SendToClient(clientaddr, line)
  /\ line' = Cleared(line)
  /\ UNCHANGED <<requests, clientaddr, state, entered, answers>>

(* A client. *)
Enter(c) ==
  /\ state[c] = "typing" /\ entered[c] < MaxLines
  /\ entered' = [entered EXCEPT ![c] = @ + 1]
  /\ state' = [state EXCEPT ![c] = "waiting"]
  /\ LET text == Line(c, entered[c] + 1) IN
     \/ /\ Arrives(requests)
        /\ requests' = Append(requests, [from |-> c, text |-> text])
     \/ /\ Vanishes(requests, text)
        /\ UNCHANGED requests
  /\ UNCHANGED <<line, clientaddr, inbox, answers>>

GetAnswer(c) ==
  /\ state[c] = "waiting" /\ inbox[c] # <<>>
  /\ answers' = [answers EXCEPT ![c] = Append(@, Head(inbox[c]))]
  /\ inbox' = [inbox EXCEPT ![c] = Tail(@)]
  /\ state' = [state EXCEPT ![c] = "typing"]
  /\ UNCHANGED <<requests, line, clientaddr, entered, lost, missing>>

Exit(c) ==
  /\ state[c] = "typing"
  /\ state' = [state EXCEPT ![c] = "exited"]
  /\ inbox' = [inbox EXCEPT ![c] = <<>>]
  /\ UNCHANGED <<requests, line, clientaddr, entered, answers, lost, missing>>

Next ==
  \/ Echo \/ Timeout
  \/ \E c \in Clients : Enter(c) \/ GetAnswer(c) \/ Exit(c)

Spec == Init /\ [][Next]_vars

(* The server runs, its timer fires, and what has arrived is read. *)
FairSpec == Spec /\ WF_vars(Echo) /\ WF_vars(Timeout)
                 /\ \A c \in Clients : WF_vars(GetAnswer(c))

-----------------------------------------------------------------------------
(* The type invariant; the server's buffer is blank whenever it waits. *)
EchoTypeOK ==
  /\ requests \in Seq([from : Clients, text : Text]) /\ Len(requests) <= Buffer
  /\ line = Blank /\ clientaddr \in Clients \cup {Nobody}
  /\ inbox \in [Clients -> Seq(Text)] /\ \A c \in Clients : Len(inbox[c]) <= Buffer
  /\ state \in [Clients -> {"typing", "waiting", "exited"}]
  /\ entered \in [Clients -> 0..MaxLines]
  /\ answers \in [Clients -> Seq(Text)]
  /\ lost \in 0..MaxLost /\ missing \in [Clients -> Nat]

(* What a client prints is blank or a line of its own; the lines come in the *)
(* order it entered them, none twice and none before it was entered, however *)
(* many timeouts send something in between and whoever else is served.       *)
OwnLinesInOrder ==
  \A c \in Clients : \A k \in 1..Len(answers[c]) :
    answers[c][k] # Blank =>
      /\ answers[c][k].by = c /\ answers[c][k].n <= k
      /\ \A j \in 1..(k - 1) : answers[c][j] # Blank => answers[c][j].n < answers[c][k].n

(* A client that has printed a blank answer is from then on one line behind:  *)
(* the k-th answer is the k-th line less one for every blank, but for lines   *)
(* that were lost.  Nothing else is ever skipped.                             *)
Blanks(c, k) == Cardinality({j \in 1..k : answers[c][j] = Blank})
OneBehindPerBlank ==
  \A c \in Clients : \A k \in 1..Len(answers[c]) :
    answers[c][k] # Blank =>
      answers[c][k].n \in (k - Blanks(c, k))..(k - Blanks(c, k) + missing[c])

(* The inductive invariant.  A client has an answer for every line but the    *)
(* one it waits for; its lines are in order in what it has printed, behind    *)
(* that in its socket, and behind that in the server's.                       *)
Numbers(s) == {s[k].n : k \in {j \in 1..Len(s) : s[j] # Blank}}
NumbersIncrease(s) ==
  \A k \in 1..Len(s) : \A j \in 1..(k - 1) :
    s[k] # Blank /\ s[j] # Blank => s[j].n < s[k].n
OwnOrBlank(s, c) == \A k \in 1..Len(s) : s[k] # Blank => s[k].by = c

NumbersFrom(s, c) == {s[k].text.n : k \in {j \in 1..Len(s) : s[j].from = c}}
IncreaseFrom(s, c) ==
  \A k \in 1..Len(s) : \A j \in 1..(k - 1) :
    s[k].from = c /\ s[j].from = c => s[j].text.n < s[k].text.n

AllBelow(S, T) == \A m \in S, n \in T : m < n

LinesRight ==
  /\ \A k \in 1..Len(requests) :
       requests[k].text # Blank /\ requests[k].text.by = requests[k].from
  /\ \A c \in Clients : OwnOrBlank(inbox[c], c) /\ OwnOrBlank(answers[c], c)

AnswersCounted ==
  \A c \in Clients :
    /\ Len(answers[c]) = IF state[c] = "waiting" THEN entered[c] - 1 ELSE entered[c]
    /\ \A k \in 1..Len(answers[c]) : answers[c][k] # Blank => answers[c][k].n <= k

OrderOf(c) ==
  /\ IncreaseFrom(requests, c)
  /\ NumbersIncrease(inbox[c]) /\ NumbersIncrease(answers[c])
  /\ AllBelow(Numbers(answers[c]), Numbers(inbox[c]) \cup NumbersFrom(requests, c))
  /\ AllBelow(Numbers(inbox[c]), NumbersFrom(requests, c))
  /\ AllBelow(Numbers(inbox[c]) \cup NumbersFrom(requests, c), {entered[c] + 1})

EchoInv ==
  EchoTypeOK /\ LinesRight /\ AnswersCounted /\ \A c \in Clients : OrderOf(c)

(* A client waits for ever only for a line that was lost, and not even then   *)
(* if it is the last that the server has heard of: the timeout sends it       *)
(* something.                                                                 *)
WaitEnds ==
  \A c \in Clients :
    state[c] = "waiting" /\ (clientaddr = c \/ missing[c] = 0) ~>
      state[c] # "waiting" \/ (clientaddr # c /\ missing[c] > 0)
=============================================================================
