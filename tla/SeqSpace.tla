------------------------------ MODULE SeqSpace ------------------------------
(***************************************************************************)
(* The number space shared by project2/server.cpp and project2/client.cpp: *)
(* the cyclic packet numbers 1..NumMod, and what the byte-order            *)
(* conversions do to a 32-bit number on the hosts the programs run on.     *)
(***************************************************************************)
EXTENDS Integers

CONSTANTS WindowSize,        \* packets in flight; the literal 5 of fillWindow()
          NumMod,        \* size of the number space; the literal 10 of nextSeq()
          LittleEndian   \* TRUE for the hosts of the shipped x86-64 binaries

ASSUME SeqSpaceAssumption ==
  /\ WindowSize \in Nat \ {0}
  /\ NumMod \in Nat
  /\ 2 * WindowSize <= NumMod
  /\ NumMod < 128
  /\ LittleEndian \in BOOLEAN

-----------------------------------------------------------------------------
(* The number nextSeq() returns n calls after it returned (or, before the *)
(* first call, was initialised to) s.                                     *)
(* (A fault: the number does not wrap around.)                            *)
NumAfterUnwrapped(s, n) == s + n
NumAfter(s, n) == ((s + n - 1) % NumMod) + 1

(* The bytes of a non-negative 32-bit number in the opposite order. *)
ByteSwap(x) ==
  (x % 256) * 16777216 + ((x \div 256) % 256) * 65536
    + ((x \div 65536) % 256) * 256 + x \div 16777216

(* ntohl() and htonl(): the same permutation of the bytes in both directions. *)
Ntohl(x) == IF LittleEndian THEN ByteSwap(x) ELSE x
Htonl(x) == Ntohl(x)
=============================================================================
