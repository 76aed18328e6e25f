-------------------------- MODULE UdpNetworkProofs --------------------------
(***************************************************************************)
(* What the proofs about the file transfer of project2 have in common:     *)
(* the arithmetic of packet numbers, what the byte-order conversions do to *)
(* a packet number, a length and a name, and what recvfrom(), sendto() and *)
(* the faults of the test bed do to a channel.                             *)
(***************************************************************************)
EXTENDS UdpNetwork, TLAPS

-----------------------------------------------------------------------------
(* What the assumptions say of the window and the number space. *)
LEMMA ConstantTypes ==
  /\ WindowSize \in Nat \ {0} /\ NumMod \in Nat /\ 2 * WindowSize <= NumMod
  /\ NumMod \in 2..127
BY SeqSpaceAssumption DEF SeqSpaceAssumption

(* A quotient and a remainder are determined by their number. *)
LEMMA DivModUnique ==
  ASSUME NEW m \in Nat \ {0}, NEW p \in Int, NEW q \in Int,
         NEW r \in 0..(m - 1), NEW s \in 0..(m - 1),
         m * p + r = m * q + s
  PROVE  p = q /\ r = s
<1>1. CASE p = q
  BY <1>1
<1>2. ASSUME p < q PROVE FALSE
  <2>1. m * (q - p) >= m
    BY <1>2
  <2>2. m * (q - p) = m * q - m * p
    OBVIOUS
  <2> QED BY <2>1, <2>2
<1>3. ASSUME q < p PROVE FALSE
  <2>1. m * (p - q) >= m
    BY <1>3
  <2>2. m * (p - q) = m * p - m * q
    OBVIOUS
  <2> QED BY <2>1, <2>2
<1> QED BY <1>1, <1>2, <1>3

(* The remainder, by the quotient. *)
LEMMA DivMod ==
  ASSUME NEW m \in Nat \ {0}, NEW a \in Int
  PROVE  /\ a % m \in 0..(m - 1) /\ a \div m \in Int
         /\ a % m = a - m * (a \div m)
<1>1. a % m \in 0..(m - 1) /\ a \div m \in Int
  OBVIOUS
<1>2. a % m = a - m * (a \div m)
  OBVIOUS
<1> QED BY <1>1, <1>2

-----------------------------------------------------------------------------
(* The conversions return numbers. *)
LEMMA ByteSwapInt == ASSUME NEW x \in Int PROVE Ntohl(x) \in Int /\ Htonl(x) \in Int
BY SMT DEF Ntohl, Htonl, ByteSwap

(* A number of one byte moves to the other end, and back. *)
LEMMA SwapByte ==
  ASSUME NEW s \in 0..127
  PROVE  ByteSwap(s) = 16777216 * s /\ ByteSwap(16777216 * s) = s
<1>1. ByteSwap(s) = 16777216 * s
  <2>1. s % 256 = s /\ s \div 256 = 0 /\ s \div 65536 = 0 /\ s \div 16777216 = 0
    BY SMT
  <2> QED BY SMT, <2>1 DEF ByteSwap
<1>2. ByteSwap(16777216 * s) = s
  <2> DEFINE x == 16777216 * s
  <2>1. x % 256 = 0 /\ (x \div 256) % 256 = 0 /\ (x \div 65536) % 256 = 0
        /\ x \div 16777216 = s
    BY SMT
  <2> QED BY SMT, <2>1 DEF ByteSwap
<1> QED BY SMT, <1>1, <1>2

(* A number of three bytes, converted, is greater than any of one byte, and  *)
(* converted twice it is as before.                                          *)
LEMMA SwapThreeBytes ==
  ASSUME NEW n \in Int, 0 < n, n < 16777216
  PROVE  ByteSwap(n) \in Nat /\ ByteSwap(n) > 127 /\ ByteSwap(ByteSwap(n)) = n
<1> DEFINE b0 == n % 256
           b1 == (n \div 256) % 256
           b2 == n \div 65536
<1>1. /\ b0 \in 0..255 /\ b1 \in 0..255 /\ b2 \in 0..255
      /\ n = b0 + 256 * b1 + 65536 * b2
      /\ (n \div 65536) % 256 = b2
      /\ n \div 16777216 = 0
      /\ n \in Int /\ n > 0
  BY SMT
<1> HIDE DEF b0, b1, b2
<1>2. ByteSwap(n) = b0 * 16777216 + b1 * 65536 + b2 * 256
  BY SMT, <1>1 DEF ByteSwap, b0, b1
<1> DEFINE y == b0 * 16777216 + b1 * 65536 + b2 * 256
<1>3. y % 256 = 0 /\ (y \div 256) % 256 = b2 /\ (y \div 65536) % 256 = b1
      /\ y \div 16777216 = b0
  <2>1. y % 256 = 0 /\ y \div 256 = b0 * 65536 + b1 * 256 + b2
    BY SMT, <1>1
  <2>2. (b0 * 65536 + b1 * 256 + b2) % 256 = b2
    BY SMT, <1>1
  <2>3. y \div 65536 = b0 * 256 + b1
    BY SMT, <1>1
  <2>4. (b0 * 256 + b1) % 256 = b1
    BY SMT, <1>1
  <2>5. y \div 16777216 = b0
    BY SMT, <1>1
  <2> QED BY SMT, <2>1, <2>2, <2>3, <2>4, <2>5
<1>4. ByteSwap(y) = n
  BY SMT, <1>1, <1>3 DEF ByteSwap
<1>5. y \in Nat /\ y > 127
  BY SMT, <1>1
<1> QED BY SMT, <1>2, <1>4, <1>5

(* A number whose last byte is not zero, as that of a name, stays great. *)
LEMMA SwapName ==
  ASSUME NEW n \in Nat, n % 256 # 0
  PROVE  ByteSwap(n) > 127
<1>1. /\ n % 256 >= 1 /\ (n \div 256) % 256 >= 0
      /\ (n \div 65536) % 256 >= 0 /\ n \div 16777216 >= 0
      /\ n % 256 \in Int /\ (n \div 256) % 256 \in Int
      /\ (n \div 65536) % 256 \in Int /\ n \div 16777216 \in Int
  BY SMT
<1> QED BY SMT, <1>1 DEF ByteSwap

-----------------------------------------------------------------------------
(* The concatenation of two sequences. *)
LEMMA Concatenation ==
  ASSUME NEW S, NEW s \in Seq(S), NEW t \in Seq(S)
  PROVE  /\ s \o t \in Seq(S) /\ Len(s \o t) = Len(s) + Len(t)
         /\ \A i \in 1..(Len(s) + Len(t)) :
              (s \o t)[i] = IF i <= Len(s) THEN s[i] ELSE t[i - Len(s)]
OBVIOUS

(* chan2 holds datagrams of chan, in their order, some missing and some *)
(* repeated.                                                            *)
Thins(chan2, chan) ==
  /\ chan2 \in Seq(Datagram)
  /\ \A i, j \in 1..Len(chan2) : i <= j =>
       \E p, q \in 1..Len(chan) : p <= q /\ chan2[i] = chan[p] /\ chan2[j] = chan[q]

(* recvfrom() thins a channel out. *)
LEMMA TailThins ==
  ASSUME NEW chan \in Seq(Datagram), chan # <<>>
  PROVE  Thins(Tail(chan), chan)
<1>1. Tail(chan) \in Seq(Datagram) /\ Len(Tail(chan)) = Len(chan) - 1
      /\ \A i \in 1..Len(Tail(chan)) : Tail(chan)[i] = chan[i + 1]
  OBVIOUS
<1>2. \A i \in 1..Len(Tail(chan)) : i + 1 \in 1..Len(chan)
  BY <1>1
<1> QED BY <1>1, <1>2 DEF Thins

(* sendto() keeps what it appends or drops some of it. *)
LEMMA PutThins ==
  ASSUME NEW chan \in Seq(Datagram), NEW msgs \in Seq(Datagram)
  PROVE  /\ Thins(Put(chan, msgs), chan \o msgs)
         /\ chan \o msgs \in Seq(Datagram)
<1> DEFINE all == chan \o msgs
<1>1. all \in Seq(Datagram) /\ Len(all) \in Nat /\ ChanCap \in Nat
  BY UdpNetworkAssumption DEF UdpNetworkAssumption
<1> HIDE DEF all
<1>2. CASE Len(all) <= ChanCap
  <2>1. Put(chan, msgs) = all
    BY <1>2 DEF Put, all
  <2> QED BY <1>1, <2>1 DEF Thins, all
<1>3. CASE ~(Len(all) <= ChanCap)
  <2>1. Put(chan, msgs) = SubSeq(all, 1, ChanCap)
    BY <1>3 DEF Put, all
  <2>2. SubSeq(all, 1, ChanCap) \in Seq(Datagram) /\ Len(SubSeq(all, 1, ChanCap)) = ChanCap
        /\ \A i \in 1..ChanCap : SubSeq(all, 1, ChanCap)[i] = all[i] /\ i \in 1..Len(all)
    BY <1>1, <1>3
  <2> QED BY <1>1, <2>1, <2>2 DEF Thins, all
<1> QED BY <1>2, <1>3

(* A lost datagram thins the channel out. *)
LEMMA LossyThins ==
  ASSUME NEW chan \in Seq(Datagram), NEW chan2, Lossy(chan, chan2)
  PROVE  Thins(chan2, chan)
<1>1. PICK k \in 1..Len(chan) : chan2 = RemoveAt(chan, k)
  BY DEF Lossy
<1> DEFINE front == SubSeq(chan, 1, k - 1)
           back == SubSeq(chan, k + 1, Len(chan))
<1>2. front \in Seq(Datagram) /\ Len(front) = k - 1
      /\ \A i \in 1..(k - 1) : front[i] = chan[i]
  OBVIOUS
<1>3. back \in Seq(Datagram) /\ Len(back) = Len(chan) - k
      /\ \A i \in 1..(Len(chan) - k) : back[i] = chan[k + i]
  OBVIOUS
<1>4. chan2 = front \o back
  BY <1>1 DEF RemoveAt
<1> HIDE DEF front, back
<1>5. chan2 \in Seq(Datagram) /\ Len(chan2) = Len(chan) - 1
  <2>0. front \in Seq(Datagram) /\ back \in Seq(Datagram)
    BY <1>2, <1>3
  <2>1. chan2 \in Seq(Datagram) /\ Len(chan2) = Len(front) + Len(back)
    BY <2>0, <1>4
  <2> QED BY <1>2, <1>3, <2>1
<1>6. ASSUME NEW i \in 1..Len(chan2)
      PROVE  chan2[i] = chan[IF i < k THEN i ELSE i + 1]
  <2>1. CASE i < k
    <3>1. chan2[i] = front[i]
      BY <1>2, <1>3, <1>4, <1>5, <2>1
    <3> QED BY <1>2, <2>1, <3>1
  <2>2. CASE ~(i < k)
    <3>1. chan2[i] = back[i - (k - 1)]
      BY <1>2, <1>3, <1>4, <1>5, <2>2
    <3> QED BY <1>3, <1>5, <2>2, <3>1
  <2> QED BY <2>1, <2>2
<1>7. ASSUME NEW i \in 1..Len(chan2), NEW j \in 1..Len(chan2), i <= j
      PROVE  \E p, q \in 1..Len(chan) : p <= q /\ chan2[i] = chan[p] /\ chan2[j] = chan[q]
  <2> DEFINE p == IF i < k THEN i ELSE i + 1
             q == IF j < k THEN j ELSE j + 1
  <2>1. p \in 1..Len(chan) /\ q \in 1..Len(chan) /\ p <= q
    BY <1>5, <1>7
  <2>2. chan2[i] = chan[p] /\ chan2[j] = chan[q]
    BY <1>6
  <2> HIDE DEF p, q
  <2> QED BY <2>1, <2>2
<1> QED BY <1>5, <1>7 DEF Thins

(* So does a duplicate, which follows its original at once. *)
LEMMA DuplicatingThins ==
  ASSUME NEW chan \in Seq(Datagram), NEW chan2, Duplicating(chan, chan2)
  PROVE  Thins(chan2, chan)
<1>1. PICK k \in 1..Len(chan) : chan2 = InsertAt(chan, k, chan[k])
  BY DEF Duplicating
<1> DEFINE front == SubSeq(chan, 1, k - 1)
           back == SubSeq(chan, k, Len(chan))
<1>2. front \in Seq(Datagram) /\ Len(front) = k - 1
      /\ \A i \in 1..(k - 1) : front[i] = chan[i]
  OBVIOUS
<1>3. back \in Seq(Datagram) /\ Len(back) = Len(chan) - k + 1
      /\ \A i \in 1..(Len(chan) - k + 1) : back[i] = chan[k + i - 1]
  OBVIOUS
<1> DEFINE upto == front \o <<chan[k]>>
<1>4. chan2 = upto \o back
  BY <1>1 DEF InsertAt
<1>8. upto \in Seq(Datagram) /\ Len(upto) = k /\ \A i \in 1..k : upto[i] = chan[i]
  <2>1. chan[k] \in Datagram
    OBVIOUS
  <2> HIDE DEF front
  <2> QED BY <1>2, <2>1
<1> HIDE DEF front, back, upto
<1>5. chan2 \in Seq(Datagram) /\ Len(chan2) = Len(chan) + 1
  BY <1>3, <1>4, <1>8
<1>6. ASSUME NEW i \in 1..Len(chan2)
      PROVE  chan2[i] = chan[IF i <= k THEN i ELSE i - 1]
  <2>1. CASE i <= k
    <3>1. chan2[i] = upto[i]
      BY <1>3, <1>4, <1>5, <1>8, <2>1
    <3> QED BY <1>8, <2>1, <3>1
  <2>2. CASE ~(i <= k)
    <3>1. chan2[i] = back[i - k]
      BY <1>3, <1>4, <1>5, <1>8, <2>2
    <3> QED BY <1>3, <1>5, <2>2, <3>1
  <2> QED BY <2>1, <2>2
<1>7. ASSUME NEW i \in 1..Len(chan2), NEW j \in 1..Len(chan2), i <= j
      PROVE  \E p, q \in 1..Len(chan) : p <= q /\ chan2[i] = chan[p] /\ chan2[j] = chan[q]
  <2> DEFINE p == IF i <= k THEN i ELSE i - 1
             q == IF j <= k THEN j ELSE j - 1
  <2>1. p \in 1..Len(chan) /\ q \in 1..Len(chan) /\ p <= q
    BY <1>5, <1>7
  <2>2. chan2[i] = chan[p] /\ chan2[j] = chan[q]
    BY <1>6
  <2> HIDE DEF p, q
  <2> QED BY <2>1, <2>2
<1> QED BY <1>5, <1>7 DEF Thins

(* The fields of a datagram. *)
LEMMA DatagramFields ==
  /\ \A d \in Datagram : d.num \in Int /\ d.blk \in Int
  /\ \A n, b \in Int : [num |-> n, blk |-> b] \in Datagram
BY DEF Datagram

(* Neighbours that change places are still the same datagrams. *)
LEMMA ReorderingKeeps ==
  ASSUME NEW chan \in Seq(Datagram), NEW chan2, Reordering(chan, chan2)
  PROVE  /\ chan2 \in Seq(Datagram)
         /\ \A i \in 1..Len(chan2) : \E p \in 1..Len(chan) : chan2[i] = chan[p]
<1>1. PICK k \in 1..(Len(chan) - 1) :
        chan2 = [chan EXCEPT ![k] = chan[k + 1], ![k + 1] = chan[k]]
  BY DEF Reordering
<1>2. k \in 1..Len(chan) /\ k + 1 \in 1..Len(chan)
  OBVIOUS
<1>3. chan[k] \in Datagram /\ chan[k + 1] \in Datagram
  BY <1>2
<1>4. chan2 \in Seq(Datagram) /\ Len(chan2) = Len(chan)
  BY <1>1, <1>2, <1>3
<1>5. ASSUME NEW i \in 1..Len(chan)
      PROVE  \E p \in 1..Len(chan) : chan2[i] = chan[p]
  <2>1. chan2[i] \in {chan[k], chan[k + 1], chan[i]}
    BY <1>1, <1>2
  <2> QED BY <1>2, <2>1
<1> QED BY <1>4, <1>5

(* Whatever is true of all datagrams of a channel, is true of those that a *)
(* receiver, a loss, a copy or another order leaves there.                 *)
LEMMA StillInChannel ==
  ASSUME NEW chan \in Seq(Datagram), NEW chan2,
         \/ chan2 = chan
         \/ chan # <<>> /\ chan2 = Tail(chan)
         \/ Lossy(chan, chan2) \/ Duplicating(chan, chan2) \/ Reordering(chan, chan2)
  PROVE  /\ chan2 \in Seq(Datagram)
         /\ \A i \in 1..Len(chan2) : \E p \in 1..Len(chan) : chan2[i] = chan[p]
<1>1. CASE Thins(chan2, chan)
  BY <1>1 DEF Thins
<1>2. CASE Reordering(chan, chan2)
  BY <1>2, ReorderingKeeps
<1>3. CASE chan2 = chan
  BY <1>3
<1> QED BY <1>1, <1>2, <1>3, TailThins, LossyThins, DuplicatingThins

(* A channel into which something was sent holds no more than was there and *)
(* was sent.                                                                *)
LEMMA PutInChannel ==
  ASSUME NEW chan \in Seq(Datagram), NEW msgs \in Seq(Datagram)
  PROVE  /\ Put(chan, msgs) \in Seq(Datagram)
         /\ \A i \in 1..Len(Put(chan, msgs)) :
              \/ \E p \in 1..Len(chan) : Put(chan, msgs)[i] = chan[p]
              \/ \E p \in 1..Len(msgs) : Put(chan, msgs)[i] = msgs[p]
<1> DEFINE all == chan \o msgs
           sent == Put(chan, msgs)
<1>1. sent \in Seq(Datagram) /\ \A i \in 1..Len(sent) : \E p \in 1..Len(all) : sent[i] = all[p]
  <2>1. Thins(sent, all)
    BY PutThins
  <2> HIDE DEF sent, all
  <2> QED BY <2>1 DEF Thins
<1>2. ASSUME NEW p \in 1..Len(all)
      PROVE  \/ \E q \in 1..Len(chan) : all[p] = chan[q]
             \/ \E q \in 1..Len(msgs) : all[p] = msgs[q]
  <2>1. CASE p <= Len(chan)
    BY <2>1
  <2>2. CASE p > Len(chan)
    <3>1. p - Len(chan) \in 1..Len(msgs) /\ all[p] = msgs[p - Len(chan)]
      BY <2>2
    <3> QED BY <3>1
  <2> QED BY <2>1, <2>2
<1> HIDE DEF all, sent
<1>3. ASSUME NEW i \in 1..Len(sent)
      PROVE  \/ \E q \in 1..Len(chan) : sent[i] = chan[q]
             \/ \E q \in 1..Len(msgs) : sent[i] = msgs[q]
  <2>1. PICK p \in 1..Len(all) : sent[i] = all[p]
    BY <1>1
  <2> QED BY <1>2, <2>1
<1> QED BY <1>1, <1>3 DEF sent
=============================================================================
