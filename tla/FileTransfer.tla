---------------------------- MODULE FileTransfer ----------------------------
(***************************************************************************)
(* What a file transfer promises, with no packets, windows or timeouts:    *)
(* the blocks of the file are written in order, each once, and the server  *)
(* reports success only when every block has been written.                 *)
(***************************************************************************)
EXTENDS Naturals, Sequences

CONSTANTS Blocks,      \* the number of blocks of the file
          MaxBurst     \* blocks that may be written in one step

VARIABLES out,         \* the blocks written
          verdict      \* what the server says of the transfer

FTInit == out = <<>> /\ verdict = "none"

Write ==
  /\ \E n \in 1..MaxBurst :
       /\ Len(out) + n <= Blocks
       /\ out' = out \o [j \in 1..n |-> Len(out) + j]
  /\ UNCHANGED verdict

Succeed ==
  /\ verdict = "none"
  /\ Len(out) = Blocks
  /\ verdict' = "complete"
  /\ UNCHANGED out

GiveUp ==
  /\ verdict = "none"
  /\ verdict' = "gaveUp"
  /\ UNCHANGED out

FTNext == Write \/ Succeed \/ GiveUp

FTSpec == FTInit /\ [][FTNext]_<<out, verdict>>
=============================================================================
