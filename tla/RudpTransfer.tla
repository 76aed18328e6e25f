---------------------------- MODULE RudpTransfer ----------------------------
(***************************************************************************)
(* The server and the client of project2 over the UDP path of its test     *)
(* bed: the composition, what makes a transfer correct, and the abstract   *)
(* transfer it implements.                                                 *)
(***************************************************************************)
EXTENDS RudpServer, RudpClient

vars == <<srvVars, cliVars, toClient, toServer, faults>>

Init == SrvInit /\ CliInit /\ NetInit

Next ==
  \/ SrvNext /\ UNCHANGED cliVars
  \/ CliNext /\ UNCHANGED srvVars
  \/ (Lose \/ Duplicate \/ Reorder \/ Corrupt) /\ UNCHANGED <<srvVars, cliVars>>

Spec == Init /\ [][Next]_vars

(* The server is a running process whose recvfrom() has a timeout, so it      *)
(* always has a next step and takes it: a datagram or, sooner or later, a     *)
(* timeout.  Which of them is not said, and nothing is assumed of the client  *)
(* or of the network.                                                         *)
FairSpec == Spec /\ WF_vars(SrvNext /\ UNCHANGED cliVars)

-----------------------------------------------------------------------------
(* The type invariant. *)
TypeOK ==
  /\ srvState \in SrvStates
  /\ srvWindow \in Seq(Datagram)
  /\ srvOutOfOrder \subseteq Int
  /\ packetsInMem \in Nat /\ ackCounter \in Nat /\ srvSeq \in 0..NumMod
  /\ resendCnt \in 0..MaxResend /\ lastResend \in Int /\ tries \in Nat
  /\ cliState \in CliStates
  /\ cliWindow \in Seq(1..NumMod) /\ cliSeq \in 0..NumMod
  /\ cliOutOfOrder \in [1..NumMod -> Int]
  /\ totalBytes \in Int /\ packetCounter \in Nat /\ bytesWritten \in Int
  /\ file \in Seq(Int)
  /\ toClient \in Seq(Datagram) /\ toServer \in Seq(Datagram)
  /\ faults \in 0..MaxFaults

(* What the client has written is a prefix of the file: no block is missing, *)
(* repeated, damaged or out of its place, however the numbers wrap around    *)
(* and the packets of one lap mix with those of another.                     *)
FilePrefix == \A i \in 1..Len(file) : file[i] = i

(* A block counts as acknowledged ("total packets acknowledged",             *)
(* server.cpp:24) only once the client has written it and all before it.     *)
AckedWritten == ackCounter <= Len(file)

(* Success means that a client which was told the right length has every     *)
(* byte of the file and does not wait for more, in spite of losses, copies    *)
(* and timeouts that race the acknowledgements.                               *)
CompleteMeansWhole ==
  srvState = "complete" /\ totalBytes = FileBytes =>
    /\ cliState = "exited"
    /\ FilePrefix /\ Len(file) = Total /\ bytesWritten = FileBytes

(* "Client probably is dead" (server.cpp:106): the server stops trying only  *)
(* after the front packet itself has timed out more than MaxResend times.    *)
GiveUpEarned == srvState = "gaveUp" => tries > MaxResend

(* What the client holds back for later is what belongs there: a packet whose *)
(* number is expected behind the window's front, and its block is the one of  *)
(* this lap of the numbers, not one that had the same number a lap before.    *)
BufferOfThisLap ==
  \A s \in 1..NumMod : Buffered(s) =>
    \E j \in 2..WindowSize : /\ cliWindow[j] = s
                            /\ cliOutOfOrder[s] = Len(file) + j

(* The server never pops an empty queue (server.cpp:122,148), whatever it    *)
(* has stored and whatever it reads in the place of the front that is gone.   *)
NoEmptyPop == srvState \notin {"undefined", "lost"}

(* A server that sends stops: unless it pops an empty queue, it completes the *)
(* transfer or gives up, even when the client dies or everything is lost or   *)
(* damaged.  (After a pop of the empty queue ackCounter has passed            *)
(* totalPackets, server.cpp:155, and the loop need not end.)                  *)
ServerStops ==
  []NoEmptyPop => (srvState = "sending" ~> srvState \in {"complete", "gaveUp"})

-----------------------------------------------------------------------------
(* The abstract transfer. *)
Verdict == IF srvState \in {"complete", "gaveUp"} THEN srvState ELSE "none"

Abstract == INSTANCE FileTransfer WITH
  Blocks <- Total, MaxBurst <- WindowSize, out <- file, verdict <- Verdict

(* The two programs implement the abstract transfer. *)
ImplementsTransfer == Abstract!FTSpec
=============================================================================
