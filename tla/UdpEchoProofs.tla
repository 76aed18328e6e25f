--------------------------- MODULE UdpEchoProofs ---------------------------
(***************************************************************************)
(* Proofs about the echo programs of lab 5: EchoInv is an inductive        *)
(* invariant for any number of clients, lines, losses and any size of the  *)
(* sockets, so that clients print their own lines, in order; and a count   *)
(* of the lines that are gone, so that they fall behind only by a blank or *)
(* a loss.                                                                 *)
(***************************************************************************)
EXTENDS UdpEcho, FiniteSetTheorems, TLAPS

Request == [from : Clients, text : Text]

(* Texts. *)
LEMMA TextTypes ==
  /\ Blank \in Text
  /\ \A c \in Clients, n \in Nat :
       /\ Line(c, n) \in Text /\ Line(c, n) # Blank
       /\ Line(c, n).by = c /\ Line(c, n).n = n
BY EchoAssumption DEF Blank, Line, Text

-----------------------------------------------------------------------------
(* What Tail and Append do to the numbers of the lines in a sequence. *)
LEMMA TailElements ==
  ASSUME NEW S, NEW s \in Seq(S), s # <<>>
  PROVE  /\ Tail(s) \in Seq(S) /\ Head(s) \in S /\ Head(s) = s[1]
         /\ Len(s) \in Nat /\ 1 \in 1..Len(s) /\ Len(Tail(s)) = Len(s) - 1
         /\ \A n \in 1..Len(Tail(s)) : n + 1 \in 1..Len(s) /\ Tail(s)[n] = s[n + 1]
OBVIOUS

LEMMA AppendElements ==
  ASSUME NEW S, NEW s \in Seq(S), NEW e \in S
  PROVE  /\ Append(s, e) \in Seq(S)
         /\ Len(s) \in Nat /\ Len(Append(s, e)) = Len(s) + 1
         /\ Append(s, e)[Len(s) + 1] = e
         /\ \A n \in 1..Len(s) : Append(s, e)[n] = s[n]
         /\ \A n \in 1..Len(Append(s, e)) :
              (n \in 1..Len(s) /\ Append(s, e)[n] = s[n])
                \/ (n = Len(s) + 1 /\ Append(s, e)[n] = e)
<1>1. /\ Append(s, e) \in Seq(S)
      /\ Len(s) \in Nat /\ Len(Append(s, e)) = Len(s) + 1
      /\ Append(s, e)[Len(s) + 1] = e
      /\ \A n \in 1..Len(s) : Append(s, e)[n] = s[n]
  OBVIOUS
<1>2. ASSUME NEW n \in 1..Len(Append(s, e))
      PROVE  (n \in 1..Len(s) /\ Append(s, e)[n] = s[n])
               \/ (n = Len(s) + 1 /\ Append(s, e)[n] = e)
  <2>1. n \in 1..Len(s) \/ n = Len(s) + 1
    BY <1>1
  <2> QED BY <1>1, <2>1
<1> QED BY <1>1, <1>2

LEMMA NumbersTail ==
  ASSUME NEW s \in Seq(Text), s # <<>>, NEW c
  PROVE  /\ Numbers(Tail(s)) \subseteq Numbers(s)
         /\ OwnOrBlank(s, c) =>
              OwnOrBlank(Tail(s), c) /\ (Head(s) # Blank => Head(s).by = c)
         /\ NumbersIncrease(s) => NumbersIncrease(Tail(s))
         /\ NumbersIncrease(s) /\ Head(s) # Blank =>
              Head(s).n \in Numbers(s) /\ AllBelow({Head(s).n}, Numbers(Tail(s)))
<1> DEFINE t == Tail(s)
<1>1. /\ Head(s) = s[1] /\ Len(s) \in Nat /\ 1 \in 1..Len(s) /\ Len(t) = Len(s) - 1
      /\ \A n \in 1..Len(t) : n + 1 \in 1..Len(s) /\ t[n] = s[n + 1]
  BY TailElements
<1> HIDE DEF t
<1>2. Numbers(t) \subseteq Numbers(s)
  BY <1>1 DEF Numbers
<1>3. OwnOrBlank(s, c) => OwnOrBlank(t, c) /\ (Head(s) # Blank => Head(s).by = c)
  BY <1>1 DEF OwnOrBlank
<1>4. ASSUME NumbersIncrease(s) PROVE NumbersIncrease(t)
  <2> SUFFICES ASSUME NEW k \in 1..Len(t), NEW j \in 1..(k - 1), t[k] # Blank, t[j] # Blank
               PROVE  t[j].n < t[k].n
    BY DEF NumbersIncrease
  <2>1. j \in 1..Len(t) /\ j + 1 \in 1..((k + 1) - 1) /\ k + 1 \in 1..Len(s)
    BY <1>1
  <2>2. t[k] = s[k + 1] /\ t[j] = s[j + 1]
    BY <1>1, <2>1
  <2> QED BY <1>4, <2>1, <2>2 DEF NumbersIncrease
<1>5. ASSUME NumbersIncrease(s), Head(s) # Blank
      PROVE  Head(s).n \in Numbers(s) /\ AllBelow({Head(s).n}, Numbers(t))
  <2>1. Head(s).n \in Numbers(s)
    BY <1>1, <1>5 DEF Numbers
  <2>2. ASSUME NEW k \in 1..Len(t), t[k] # Blank PROVE Head(s).n < t[k].n
    <3>1. k + 1 \in 1..Len(s) /\ t[k] = s[k + 1] /\ 1 \in 1..((k + 1) - 1)
      BY <1>1
    <3> QED BY <1>1, <1>5, <2>2, <3>1 DEF NumbersIncrease
  <2> QED BY <2>1, <2>2 DEF AllBelow, Numbers
<1> QED BY <1>2, <1>3, <1>4, <1>5 DEF t

LEMMA NumbersAppend ==
  ASSUME NEW s \in Seq(Text), NEW e \in Text, NEW c
  PROVE  /\ Numbers(Append(s, e)) \subseteq Numbers(s) \cup {e.n}
         /\ e = Blank => Numbers(Append(s, e)) \subseteq Numbers(s)
         /\ OwnOrBlank(s, c) /\ (e # Blank => e.by = c) => OwnOrBlank(Append(s, e), c)
         /\ NumbersIncrease(s) /\ (e # Blank => AllBelow(Numbers(s), {e.n})) =>
              NumbersIncrease(Append(s, e))
<1> DEFINE t == Append(s, e)
<1>1. /\ Len(s) \in Nat /\ Len(t) = Len(s) + 1
      /\ \A n \in 1..Len(s) : t[n] = s[n]
      /\ \A n \in 1..Len(t) : (n \in 1..Len(s) /\ t[n] = s[n]) \/ (n = Len(s) + 1 /\ t[n] = e)
  BY AppendElements
<1> HIDE DEF t
<1>2. Numbers(t) \subseteq Numbers(s) \cup {e.n}
  BY <1>1 DEF Numbers
<1>3. e = Blank => Numbers(t) \subseteq Numbers(s)
  BY <1>1 DEF Numbers
<1>4. OwnOrBlank(s, c) /\ (e # Blank => e.by = c) => OwnOrBlank(t, c)
  BY <1>1 DEF OwnOrBlank
<1>5. ASSUME NumbersIncrease(s), e # Blank => AllBelow(Numbers(s), {e.n})
      PROVE  NumbersIncrease(t)
  <2> SUFFICES ASSUME NEW k \in 1..Len(t), NEW j \in 1..(k - 1), t[k] # Blank, t[j] # Blank
               PROVE  t[j].n < t[k].n
    BY DEF NumbersIncrease
  <2>1. j \in 1..Len(s) /\ t[j] = s[j]
    BY <1>1
  <2>2. CASE k \in 1..Len(s) /\ t[k] = s[k]
    BY <1>5, <2>1, <2>2 DEF NumbersIncrease
  <2>3. CASE t[k] = e
    <3>1. s[j].n \in Numbers(s)
      BY <2>1 DEF Numbers
    <3> QED BY <1>5, <2>1, <2>3, <3>1 DEF AllBelow
  <2> QED BY <1>1, <2>2, <2>3
<1> QED BY <1>2, <1>3, <1>4, <1>5 DEF t

LEMMA RequestsTail ==
  ASSUME NEW s \in Seq(Request), s # <<>>, NEW c
  PROVE  /\ NumbersFrom(Tail(s), c) \subseteq NumbersFrom(s, c)
         /\ IncreaseFrom(s, c) => IncreaseFrom(Tail(s), c)
         /\ IncreaseFrom(s, c) /\ Head(s).from = c =>
              /\ Head(s).text.n \in NumbersFrom(s, c)
              /\ AllBelow({Head(s).text.n}, NumbersFrom(Tail(s), c))
<1> DEFINE t == Tail(s)
<1>1. /\ Head(s) = s[1] /\ Len(s) \in Nat /\ 1 \in 1..Len(s) /\ Len(t) = Len(s) - 1
      /\ \A n \in 1..Len(t) : n + 1 \in 1..Len(s) /\ t[n] = s[n + 1]
  BY TailElements
<1> HIDE DEF t
<1>2. NumbersFrom(t, c) \subseteq NumbersFrom(s, c)
  BY <1>1 DEF NumbersFrom
<1>3. ASSUME IncreaseFrom(s, c) PROVE IncreaseFrom(t, c)
  <2> SUFFICES ASSUME NEW k \in 1..Len(t), NEW j \in 1..(k - 1), t[k].from = c, t[j].from = c
               PROVE  t[j].text.n < t[k].text.n
    BY DEF IncreaseFrom
  <2>1. j \in 1..Len(t) /\ j + 1 \in 1..((k + 1) - 1) /\ k + 1 \in 1..Len(s)
    BY <1>1
  <2>2. t[k] = s[k + 1] /\ t[j] = s[j + 1]
    BY <1>1, <2>1
  <2> QED BY <1>3, <2>1, <2>2 DEF IncreaseFrom
<1>4. ASSUME IncreaseFrom(s, c), Head(s).from = c
      PROVE  Head(s).text.n \in NumbersFrom(s, c)
             /\ AllBelow({Head(s).text.n}, NumbersFrom(t, c))
  <2>1. Head(s).text.n \in NumbersFrom(s, c)
    BY <1>1, <1>4 DEF NumbersFrom
  <2>2. ASSUME NEW k \in 1..Len(t), t[k].from = c PROVE Head(s).text.n < t[k].text.n
    <3>1. k + 1 \in 1..Len(s) /\ t[k] = s[k + 1] /\ 1 \in 1..((k + 1) - 1)
      BY <1>1
    <3> QED BY <1>1, <1>4, <2>2, <3>1 DEF IncreaseFrom
  <2> QED BY <2>1, <2>2 DEF AllBelow, NumbersFrom
<1> QED BY <1>2, <1>3, <1>4 DEF t

LEMMA RequestsAppend ==
  ASSUME NEW s \in Seq(Request), NEW e \in Request, NEW c
  PROVE  /\ NumbersFrom(Append(s, e), c) \subseteq NumbersFrom(s, c) \cup {e.text.n}
         /\ e.from # c => NumbersFrom(Append(s, e), c) \subseteq NumbersFrom(s, c)
         /\ IncreaseFrom(s, c) /\ (e.from = c => AllBelow(NumbersFrom(s, c), {e.text.n})) =>
              IncreaseFrom(Append(s, e), c)
<1> DEFINE t == Append(s, e)
<1>1. /\ Len(s) \in Nat /\ Len(t) = Len(s) + 1
      /\ \A n \in 1..Len(s) : t[n] = s[n]
      /\ \A n \in 1..Len(t) : (n \in 1..Len(s) /\ t[n] = s[n]) \/ (n = Len(s) + 1 /\ t[n] = e)
  BY AppendElements
<1> HIDE DEF t
<1>2. NumbersFrom(t, c) \subseteq NumbersFrom(s, c) \cup {e.text.n}
  BY <1>1 DEF NumbersFrom
<1>3. e.from # c => NumbersFrom(t, c) \subseteq NumbersFrom(s, c)
  BY <1>1 DEF NumbersFrom
<1>4. ASSUME IncreaseFrom(s, c), e.from = c => AllBelow(NumbersFrom(s, c), {e.text.n})
      PROVE  IncreaseFrom(t, c)
  <2> SUFFICES ASSUME NEW k \in 1..Len(t), NEW j \in 1..(k - 1), t[k].from = c, t[j].from = c
               PROVE  t[j].text.n < t[k].text.n
    BY DEF IncreaseFrom
  <2>1. j \in 1..Len(s) /\ t[j] = s[j]
    BY <1>1
  <2>2. CASE k \in 1..Len(s) /\ t[k] = s[k]
    BY <1>4, <2>1, <2>2 DEF IncreaseFrom
  <2>3. CASE t[k] = e
    <3>1. s[j].text.n \in NumbersFrom(s, c)
      BY <2>1 DEF NumbersFrom
    <3> QED BY <1>4, <2>1, <2>3, <3>1 DEF AllBelow
  <2> QED BY <1>1, <2>2, <2>3
<1> QED BY <1>2, <1>3, <1>4 DEF t

-----------------------------------------------------------------------------
(* What sending does, whatever becomes of the datagram. *)
LEMMA Vanished ==
  ASSUME EchoTypeOK, NEW socket, NEW text \in Text, Vanishes(socket, text)
  PROVE  lost' \in 0..MaxLost /\ missing' \in [Clients -> Nat]
<1>1. lost' \in 0..MaxLost
  BY EchoAssumption DEF Vanishes, EchoTypeOK
<1>2. missing' \in [Clients -> Nat]
  <2>1. missing' = Misses(text.by) /\ missing \in [Clients -> Nat]
    BY DEF Vanishes, EchoTypeOK
  <2>2. CASE text.by \in Clients
    <3>1. missing' = [missing EXCEPT ![text.by] = @ + 1] BY <2>1, <2>2 DEF Misses
    <3> QED BY <2>1, <2>2, <3>1
  <2>3. CASE text.by \notin Clients BY <2>1, <2>3 DEF Misses
  <2> QED BY <2>2, <2>3
<1> QED BY <1>1, <1>2

LEMMA SentToClient ==
  ASSUME EchoTypeOK, NEW d, NEW text \in Text, SendToClient(d, text)
  PROVE  /\ inbox' \in [Clients -> Seq(Text)]
         /\ \A c \in Clients : Len(inbox'[c]) <= Buffer
         /\ lost' \in 0..MaxLost /\ missing' \in [Clients -> Nat]
         /\ \A c \in Clients : c # d => inbox'[c] = inbox[c]
         /\ \A c \in Clients : inbox'[c] = inbox[c] \/ inbox'[c] = Append(inbox[c], text)
<1>1. /\ inbox \in [Clients -> Seq(Text)] /\ \A c \in Clients : Len(inbox[c]) <= Buffer
      /\ lost \in 0..MaxLost /\ missing \in [Clients -> Nat] /\ Buffer \in Nat
  BY EchoAssumption DEF EchoTypeOK
<1>2. CASE d \in Clients /\ Arrives(inbox[d])
           /\ inbox' = [inbox EXCEPT ![d] = Append(@, text)]
  <2>1. /\ Append(inbox[d], text) \in Seq(Text)
        /\ Len(Append(inbox[d], text)) = Len(inbox[d]) + 1 /\ Len(inbox[d]) \in Nat
    BY <1>1, <1>2, AppendElements
  <2>2. Len(inbox[d]) < Buffer /\ UNCHANGED <<lost, missing>>
    BY <1>2 DEF Arrives
  <2>3. inbox'[d] = Append(inbox[d], text) /\ \A c \in Clients : c # d => inbox'[c] = inbox[c]
    BY <1>1, <1>2
  <2>4. inbox' \in [Clients -> Seq(Text)]
    BY <1>1, <1>2, <2>1
  <2>5. \A c \in Clients : Len(inbox'[c]) <= Buffer
    BY <1>1, <2>1, <2>2, <2>3
  <2> QED BY <1>1, <2>2, <2>3, <2>4, <2>5
<1>3. CASE UNCHANGED inbox /\ Vanishes(inbox[d], text)
  BY <1>1, <1>3, Vanished
<1>4. CASE UNCHANGED <<inbox, lost, missing>>
  BY <1>1, <1>4
<1> QED BY <1>2, <1>3, <1>4 DEF SendToClient

(* The numbers are numbers. *)
LEMMA NumberTypes ==
  ASSUME EchoTypeOK, NEW c \in Clients
  PROVE  /\ Numbers(inbox[c]) \subseteq Nat /\ Numbers(answers[c]) \subseteq Nat
         /\ NumbersFrom(requests, c) \subseteq Nat /\ entered[c] \in Nat
<1>1. /\ inbox[c] \in Seq(Text) /\ answers[c] \in Seq(Text) /\ requests \in Seq(Request)
      /\ entered[c] \in Nat
  BY EchoAssumption DEF EchoTypeOK, Request
<1>2. ASSUME NEW s \in Seq(Text) PROVE Numbers(s) \subseteq Nat
  <2>1. \A k \in 1..Len(s) : s[k] \in Text
    OBVIOUS
  <2>2. \A k \in 1..Len(s) : s[k].n \in Nat
    BY <2>1 DEF Text
  <2> QED BY <2>2 DEF Numbers
<1>3. ASSUME NEW s \in Seq(Request) PROVE NumbersFrom(s, c) \subseteq Nat
  <2>1. \A k \in 1..Len(s) : s[k] \in Request
    OBVIOUS
  <2>2. \A k \in 1..Len(s) : s[k].text.n \in Nat
    BY <2>1 DEF Request, Text
  <2> QED BY <2>2 DEF NumbersFrom
<1> QED BY <1>1, <1>2, <1>3

-----------------------------------------------------------------------------
(* Every action keeps EchoInv. *)
LEMMA EchoInit == Init => EchoInv
<1> SUFFICES ASSUME Init PROVE EchoInv
  OBVIOUS
<1> USE DEF Init
<1>1. EchoTypeOK
  <2>1. 0 \in 0..MaxLost /\ 0 \in 0..MaxLines /\ 0 <= Buffer
    BY EchoAssumption
  <2>2. /\ requests \in Seq([from : Clients, text : Text]) /\ Len(requests) <= Buffer
        /\ inbox \in [Clients -> Seq(Text)] /\ \A c \in Clients : Len(inbox[c]) <= Buffer
        /\ answers \in [Clients -> Seq(Text)]
    BY <2>1
  <2> QED BY <2>1, <2>2 DEF EchoTypeOK
<1>2. LinesRight
  BY DEF LinesRight, OwnOrBlank
<1>3. AnswersCounted
  BY DEF AnswersCounted
<1>4. ASSUME NEW c \in Clients PROVE OrderOf(c)
  <2>1. Numbers(<<>>) = {} /\ NumbersFrom(<<>>, c) = {}
    BY DEF Numbers, NumbersFrom
  <2>2. NumbersIncrease(<<>>) /\ IncreaseFrom(<<>>, c)
    BY DEF NumbersIncrease, IncreaseFrom
  <2> QED BY <2>1, <2>2 DEF OrderOf, AllBelow
<1> QED BY <1>1, <1>2, <1>3, <1>4 DEF EchoInv

LEMMA EchoStep == ASSUME EchoInv, Echo PROVE EchoInv'
<1> DEFINE r == Head(requests)
<1> USE DEF EchoInv
<1>1. /\ requests \in Seq(Request) /\ requests # <<>> /\ requests' = Tail(requests)
      /\ clientaddr' = r.from /\ SendToClient(r.from, r.text) /\ line' = Blank
      /\ UNCHANGED <<state, entered, answers>>
  BY DEF Echo, EchoTypeOK, Request, Sender, Cleared
<1>2. /\ r \in Request /\ r = requests[1] /\ 1 \in 1..Len(requests)
      /\ Tail(requests) \in Seq(Request) /\ Len(Tail(requests)) = Len(requests) - 1
      /\ Len(requests) \in Nat
      /\ \A k \in 1..Len(Tail(requests)) :
           k + 1 \in 1..Len(requests) /\ Tail(requests)[k] = requests[k + 1]
  BY <1>1, TailElements
<1>3. r.from \in Clients /\ r.text \in Text /\ r.text # Blank /\ r.text.by = r.from
  BY <1>2 DEF LinesRight, Request
<1> HIDE DEF r
<1>4. /\ inbox' \in [Clients -> Seq(Text)] /\ \A c \in Clients : Len(inbox'[c]) <= Buffer
      /\ lost' \in 0..MaxLost /\ missing' \in [Clients -> Nat]
      /\ \A c \in Clients : c # r.from => inbox'[c] = inbox[c]
      /\ \A c \in Clients : inbox'[c] = inbox[c] \/ inbox'[c] = Append(inbox[c], r.text)
  BY <1>1, <1>3, SentToClient
<1>5. EchoTypeOK'
  <2>1. requests' \in Seq([from : Clients, text : Text]) /\ Len(requests') <= Buffer
    BY <1>1, <1>2, EchoAssumption DEF EchoTypeOK, Request
  <2> QED BY <1>1, <1>3, <1>4, <2>1 DEF EchoTypeOK
<1>6. LinesRight'
  <2>1. \A k \in 1..Len(requests') :
          requests'[k].text # Blank /\ requests'[k].text.by = requests'[k].from
    BY <1>1, <1>2 DEF LinesRight
  <2>2. ASSUME NEW c \in Clients PROVE OwnOrBlank(inbox'[c], c)
    <3>1. inbox[c] \in Seq(Text) /\ OwnOrBlank(inbox[c], c)
      BY DEF EchoTypeOK, LinesRight
    <3> QED BY <1>3, <1>4, <3>1, NumbersAppend
  <2> QED BY <1>1, <2>1, <2>2 DEF LinesRight
<1>7. AnswersCounted'
  BY <1>1 DEF AnswersCounted
<1>8. ASSUME NEW c \in Clients PROVE OrderOf(c)'
  <2>1. inbox[c] \in Seq(Text) /\ OrderOf(c)
    BY DEF EchoTypeOK
  <2>2. /\ NumbersFrom(requests', c) \subseteq NumbersFrom(requests, c)
        /\ IncreaseFrom(requests', c)
        /\ r.from = c => /\ r.text.n \in NumbersFrom(requests, c)
                         /\ AllBelow({r.text.n}, NumbersFrom(requests', c))
    BY <1>1, <2>1, RequestsTail DEF OrderOf, r
  <2>3. CASE inbox'[c] = inbox[c]
    BY <1>1, <2>1, <2>2, <2>3 DEF OrderOf, AllBelow
  <2>4. CASE r.from = c /\ inbox'[c] = Append(inbox[c], r.text)
    <3>1. AllBelow(Numbers(inbox[c]), {r.text.n})
      BY <2>1, <2>2, <2>4 DEF OrderOf, AllBelow
    <3>2. /\ NumbersIncrease(inbox'[c])
          /\ Numbers(inbox'[c]) \subseteq Numbers(inbox[c]) \cup {r.text.n}
      BY <1>3, <2>1, <2>4, <3>1, NumbersAppend DEF OrderOf
    <3>3. /\ AllBelow(Numbers(answers'[c]), Numbers(inbox'[c]) \cup NumbersFrom(requests', c))
          /\ AllBelow(Numbers(inbox'[c]), NumbersFrom(requests', c))
          /\ AllBelow(Numbers(inbox'[c]) \cup NumbersFrom(requests', c), {entered'[c] + 1})
      BY <1>1, <2>1, <2>2, <2>4, <3>2 DEF OrderOf, AllBelow
    <3> QED BY <1>1, <2>1, <2>2, <3>2, <3>3 DEF OrderOf, AllBelow
  <2> QED BY <1>4, <2>3, <2>4
<1> QED BY <1>5, <1>6, <1>7, <1>8

LEMMA TimeoutStep == ASSUME EchoInv, Timeout PROVE EchoInv'
<1> USE DEF EchoInv
<1>1. /\ SendToClient(clientaddr, Blank) /\ line' = Blank
      /\ UNCHANGED <<requests, clientaddr, state, entered, answers>>
  BY DEF Timeout, EchoTypeOK, Cleared
<1>2. /\ inbox' \in [Clients -> Seq(Text)] /\ \A c \in Clients : Len(inbox'[c]) <= Buffer
      /\ lost' \in 0..MaxLost /\ missing' \in [Clients -> Nat]
      /\ \A c \in Clients : inbox'[c] = inbox[c] \/ inbox'[c] = Append(inbox[c], Blank)
  BY <1>1, TextTypes, SentToClient
<1>3. EchoTypeOK'
  BY <1>1, <1>2 DEF EchoTypeOK
<1>4. ASSUME NEW c \in Clients
      PROVE  /\ OwnOrBlank(inbox'[c], c) /\ NumbersIncrease(inbox'[c])
             /\ Numbers(inbox'[c]) \subseteq Numbers(inbox[c])
  <2>1. inbox[c] \in Seq(Text) /\ OwnOrBlank(inbox[c], c) /\ NumbersIncrease(inbox[c])
    BY DEF EchoTypeOK, LinesRight, OrderOf
  <2>2. /\ Numbers(Append(inbox[c], Blank)) \subseteq Numbers(inbox[c])
        /\ OwnOrBlank(Append(inbox[c], Blank), c)
        /\ NumbersIncrease(Append(inbox[c], Blank))
    BY <2>1, TextTypes, NumbersAppend
  <2>3. inbox'[c] = inbox[c] \/ inbox'[c] = Append(inbox[c], Blank)
    BY <1>2
  <2>4. CASE inbox'[c] = inbox[c]
    BY <2>1, <2>4 DEF OwnOrBlank, NumbersIncrease, Numbers
  <2>5. CASE inbox'[c] = Append(inbox[c], Blank)
    BY <2>2, <2>5
  <2> QED BY <2>3, <2>4, <2>5
<1>5. LinesRight' /\ AnswersCounted'
  BY <1>1, <1>4 DEF LinesRight, AnswersCounted
<1>6. ASSUME NEW c \in Clients PROVE OrderOf(c)'
  BY <1>1, <1>4 DEF OrderOf, AllBelow
<1> QED BY <1>3, <1>5, <1>6

LEMMA EnterStep == ASSUME EchoInv, NEW d \in Clients, Enter(d) PROVE EchoInv'
<1> DEFINE text == Line(d, entered[d] + 1)
           e == [from |-> d, text |-> text]
<1> USE DEF EchoInv
<1>1. /\ state[d] = "typing" /\ entered[d] < MaxLines
      /\ entered' = [entered EXCEPT ![d] = @ + 1]
      /\ state' = [state EXCEPT ![d] = "waiting"]
      /\ UNCHANGED <<line, clientaddr, inbox, answers>>
  BY DEF Enter
<1>2. \/ Arrives(requests) /\ requests' = Append(requests, e)
      \/ Vanishes(requests, text) /\ requests' = requests
  BY DEF Enter
<1>3. /\ requests \in Seq(Request) /\ Len(requests) <= Buffer /\ Buffer \in Nat
      /\ entered \in [Clients -> 0..MaxLines] /\ MaxLines \in Nat
      /\ state \in [Clients -> {"typing", "waiting", "exited"}]
      /\ lost \in 0..MaxLost /\ missing \in [Clients -> Nat]
  BY EchoAssumption DEF EchoTypeOK, Request
<1>4. /\ text \in Text /\ text # Blank /\ text.by = d /\ text.n = entered[d] + 1
      /\ entered[d] \in Nat
  <2>1. entered[d] \in Nat /\ entered[d] + 1 \in Nat
    BY <1>3
  <2> QED BY <2>1, TextTypes
<1> HIDE DEF text
<1>5. e \in Request /\ e.from = d /\ e.text = text
  BY <1>4 DEF Request
<1> HIDE DEF e
<1>6. entered'[d] = entered[d] + 1 /\ \A c \in Clients : c # d => entered'[c] = entered[c]
  BY <1>1, <1>3
<1>7. EchoTypeOK'
  <2>1. requests' \in Seq(Request) /\ Len(requests') <= Buffer
        /\ lost' \in 0..MaxLost /\ missing' \in [Clients -> Nat]
    <3>1. CASE Arrives(requests) /\ requests' = Append(requests, e)
      <4>1. Append(requests, e) \in Seq(Request)
            /\ Len(Append(requests, e)) = Len(requests) + 1 /\ Len(requests) \in Nat
        BY <1>3, <1>5, AppendElements
      <4> QED BY <1>3, <3>1, <4>1 DEF Arrives
    <3>2. CASE Vanishes(requests, text) /\ requests' = requests
      BY <1>3, <1>4, <3>2, Vanished
    <3> QED BY <1>2, <3>1, <3>2
  <2>2. entered' \in [Clients -> 0..MaxLines]
    BY <1>1, <1>3
  <2>3. state' \in [Clients -> {"typing", "waiting", "exited"}]
    BY <1>1, <1>3
  <2> QED BY <1>1, <2>1, <2>2, <2>3 DEF EchoTypeOK, Request
<1>8. LinesRight'
  <2>1. \A k \in 1..Len(requests') :
          requests'[k].text # Blank /\ requests'[k].text.by = requests'[k].from
    <3>1. CASE requests' = Append(requests, e)
      BY <1>3, <1>4, <1>5, <3>1, AppendElements DEF LinesRight
    <3>2. CASE requests' = requests
      BY <3>2 DEF LinesRight
    <3> QED BY <1>2, <3>1, <3>2
  <2> QED BY <1>1, <2>1 DEF LinesRight
<1>9. AnswersCounted'
  <2> SUFFICES ASSUME NEW c \in Clients
               PROVE  Len(answers'[c]) = IF state'[c] = "waiting" THEN entered'[c] - 1
                                         ELSE entered'[c]
    BY <1>1 DEF AnswersCounted
  <2>1. CASE c = d
    <3>1. Len(answers[d]) = entered[d]
      BY <1>1 DEF AnswersCounted
    <3>2. state'[d] = "waiting" /\ entered'[d] - 1 = entered[d]
      BY <1>1, <1>3, <1>4, <1>6
    <3> QED BY <1>1, <2>1, <3>1, <3>2
  <2>2. CASE c # d
    <3>1. state'[c] = state[c] /\ entered'[c] = entered[c]
      BY <1>1, <1>3, <1>6, <2>2
    <3> QED BY <1>1, <3>1 DEF AnswersCounted
  <2> QED BY <2>1, <2>2
<1>10. ASSUME NEW c \in Clients PROVE OrderOf(c)'
  <2>1. /\ Numbers(inbox[c]) \subseteq Nat /\ Numbers(answers[c]) \subseteq Nat
        /\ NumbersFrom(requests, c) \subseteq Nat /\ entered[c] \in Nat
    BY NumberTypes
  <2>2. OrderOf(c)
    OBVIOUS
  <2>3. CASE requests' = requests
    <3>1. entered'[c] \in {entered[c], entered[c] + 1}
      BY <1>6
    <3> QED BY <1>1, <2>1, <2>2, <2>3, <3>1 DEF OrderOf, AllBelow
  <2>4. CASE requests' = Append(requests, e) /\ c # d
    <3>1. /\ NumbersFrom(requests', c) \subseteq NumbersFrom(requests, c)
          /\ IncreaseFrom(requests', c)
      BY <1>3, <1>5, <2>2, <2>4, RequestsAppend DEF OrderOf
    <3> QED BY <1>1, <1>6, <2>2, <2>4, <3>1 DEF OrderOf, AllBelow
  <2>5. CASE requests' = Append(requests, e) /\ c = d
    <3>1. e.text.n = entered[c] + 1 /\ entered'[c] = entered[c] + 1
      BY <1>4, <1>5, <1>6, <2>5
    <3>2. AllBelow(NumbersFrom(requests, c), {e.text.n})
      BY <2>2, <3>1 DEF OrderOf, AllBelow
    <3>3. /\ NumbersFrom(requests', c) \subseteq NumbersFrom(requests, c) \cup {e.text.n}
          /\ IncreaseFrom(requests', c)
      BY <1>3, <1>5, <2>2, <2>5, <3>2, RequestsAppend DEF OrderOf
    <3>4. /\ AllBelow(Numbers(inbox'[c]), NumbersFrom(requests', c))
          /\ AllBelow(Numbers(inbox'[c]) \cup NumbersFrom(requests', c), {entered'[c] + 1})
      BY <1>1, <2>1, <2>2, <3>1, <3>3 DEF OrderOf, AllBelow
    <3>5. AllBelow(Numbers(answers'[c]), Numbers(inbox'[c]) \cup NumbersFrom(requests', c))
      <4>1. AllBelow(Numbers(answers[c]), {entered[c] + 1})
        <5> SUFFICES ASSUME NEW k \in 1..Len(answers[c]), answers[c][k] # Blank
                     PROVE  answers[c][k].n < entered[c] + 1
          BY DEF AllBelow, Numbers
        <5>1. answers[c][k].n <= k /\ Len(answers[c]) <= entered[c] /\ answers[c] \in Seq(Text)
          <6>1. answers[c][k].n <= k /\ answers[c] \in Seq(Text)
            BY DEF AnswersCounted, EchoTypeOK
          <6>2. Len(answers[c]) = entered[c] - 1 \/ Len(answers[c]) = entered[c]
            BY DEF AnswersCounted
          <6> QED BY <2>1, <6>1, <6>2
        <5>2. answers[c][k] \in Text
          BY <5>1
        <5>3. answers[c][k].n \in Nat /\ Len(answers[c]) \in Nat
          BY <5>1, <5>2 DEF Text
        <5> QED BY <2>1, <5>1, <5>3
      <4> QED BY <1>1, <2>2, <3>1, <3>3, <4>1 DEF OrderOf, AllBelow
    <3> QED BY <1>1, <2>2, <3>3, <3>4, <3>5 DEF OrderOf, AllBelow
  <2> QED BY <1>2, <2>3, <2>4, <2>5
<1> QED BY <1>7, <1>8, <1>9, <1>10

LEMMA GetAnswerStep == ASSUME EchoInv, NEW d \in Clients, GetAnswer(d) PROVE EchoInv'
<1> DEFINE h == Head(inbox[d])
<1> USE DEF EchoInv
<1>1. /\ state[d] = "waiting" /\ inbox[d] # <<>>
      /\ answers' = [answers EXCEPT ![d] = Append(@, h)]
      /\ inbox' = [inbox EXCEPT ![d] = Tail(@)]
      /\ state' = [state EXCEPT ![d] = "typing"]
      /\ UNCHANGED <<requests, line, clientaddr, entered, lost, missing>>
  BY DEF GetAnswer
<1>2. /\ inbox \in [Clients -> Seq(Text)] /\ answers \in [Clients -> Seq(Text)]
      /\ \A c \in Clients : Len(inbox[c]) <= Buffer
      /\ state \in [Clients -> {"typing", "waiting", "exited"}]
      /\ inbox[d] \in Seq(Text) /\ answers[d] \in Seq(Text)
      /\ Buffer \in Nat /\ entered[d] \in Nat
  BY EchoAssumption DEF EchoTypeOK
<1>3. /\ h \in Text /\ h = inbox[d][1] /\ 1 \in 1..Len(inbox[d])
      /\ Tail(inbox[d]) \in Seq(Text) /\ Len(Tail(inbox[d])) = Len(inbox[d]) - 1
      /\ Len(inbox[d]) \in Nat
  BY <1>1, <1>2, TailElements
<1>4. /\ Append(answers[d], h) \in Seq(Text)
      /\ Len(answers[d]) \in Nat /\ Len(Append(answers[d], h)) = Len(answers[d]) + 1
      /\ \A k \in 1..Len(Append(answers[d], h)) :
           (k \in 1..Len(answers[d]) /\ Append(answers[d], h)[k] = answers[d][k])
             \/ (k = Len(answers[d]) + 1 /\ Append(answers[d], h)[k] = h)
  BY <1>2, <1>3, AppendElements
<1>5. /\ inbox'[d] = Tail(inbox[d]) /\ \A c \in Clients : c # d => inbox'[c] = inbox[c]
      /\ answers'[d] = Append(answers[d], h)
      /\ \A c \in Clients : c # d => answers'[c] = answers[c]
      /\ state'[d] = "typing" /\ \A c \in Clients : c # d => state'[c] = state[c]
  BY <1>1, <1>2
<1>6. /\ OwnOrBlank(inbox[d], d) /\ OwnOrBlank(answers[d], d)
      /\ NumbersIncrease(inbox[d]) /\ NumbersIncrease(answers[d]) /\ OrderOf(d)
  BY DEF LinesRight, OrderOf
<1>7. /\ Numbers(inbox'[d]) \subseteq Numbers(inbox[d])
      /\ OwnOrBlank(inbox'[d], d) /\ NumbersIncrease(inbox'[d])
      /\ h # Blank => /\ h.by = d /\ h.n \in Numbers(inbox[d])
                      /\ AllBelow({h.n}, Numbers(inbox'[d]))
  BY <1>1, <1>2, <1>5, <1>6, NumbersTail
<1> HIDE DEF h
<1>8. /\ OwnOrBlank(answers'[d], d) /\ NumbersIncrease(answers'[d])
      /\ Numbers(answers'[d]) \subseteq Numbers(answers[d]) \cup {h.n}
      /\ h = Blank => Numbers(answers'[d]) \subseteq Numbers(answers[d])
  <2>1. h # Blank => AllBelow(Numbers(answers[d]), {h.n})
    BY <1>6, <1>7 DEF OrderOf, AllBelow
  <2> DEFINE q == Append(answers[d], h)
  <2>2. answers[d] \in Seq(Text) /\ h \in Text /\ (h # Blank => h.by = d)
        /\ OwnOrBlank(answers[d], d) /\ NumbersIncrease(answers[d])
    BY <1>2, <1>3, <1>6, <1>7
  <2>3. OwnOrBlank(q, d) /\ Numbers(q) \subseteq Numbers(answers[d]) \cup {h.n}
        /\ (h = Blank => Numbers(q) \subseteq Numbers(answers[d]))
    BY <2>2, NumbersAppend
  <2>4. NumbersIncrease(q)
    BY <2>1, <2>2, NumbersAppend
  <2>5. answers'[d] = q
    BY <1>5
  <2> QED BY <2>3, <2>4, <2>5
<1>9. EchoTypeOK'
  <2>1. inbox' \in [Clients -> Seq(Text)]
    BY <1>1, <1>2, <1>3
  <2>2. \A c \in Clients : Len(inbox'[c]) <= Buffer
    <3>1. Len(inbox'[d]) = Len(inbox[d]) - 1
      BY <1>3, <1>5
    <3>2. Len(inbox[d]) <= Buffer /\ Len(inbox[d]) \in Nat /\ Buffer \in Nat
      BY <1>2, <1>3
    <3>3. Len(inbox'[d]) <= Buffer
      BY <3>1, <3>2
    <3> QED BY <1>2, <1>5, <3>3
  <2>3. answers' \in [Clients -> Seq(Text)]
    BY <1>1, <1>2, <1>4
  <2>4. state' \in [Clients -> {"typing", "waiting", "exited"}]
    BY <1>1, <1>2
  <2> QED BY <1>1, <2>1, <2>2, <2>3, <2>4 DEF EchoTypeOK
<1>10. LinesRight'
  BY <1>1, <1>5, <1>7, <1>8 DEF LinesRight
<1>11. AnswersCounted'
  <2>1. Len(answers[d]) = entered[d] - 1
        /\ \A k \in 1..Len(answers[d]) : answers[d][k] # Blank => answers[d][k].n <= k
    BY <1>1 DEF AnswersCounted
  <2>2. Len(answers'[d]) = entered'[d]
    BY <1>1, <1>2, <1>4, <1>5, <2>1
  <2>3. h # Blank => h.n <= Len(answers[d]) + 1
    <3>1. h # Blank => h.n < entered[d] + 1
      BY <1>6, <1>7 DEF OrderOf, AllBelow
    <3> QED BY <1>2, <1>3, <1>4, <2>1, <3>1 DEF Text
  <2>4. \A k \in 1..Len(answers'[d]) : answers'[d][k] # Blank => answers'[d][k].n <= k
    BY <1>4, <1>5, <2>1, <2>3
  <2> SUFFICES ASSUME NEW c \in Clients
               PROVE  /\ Len(answers'[c]) = IF state'[c] = "waiting" THEN entered'[c] - 1
                                            ELSE entered'[c]
                      /\ \A k \in 1..Len(answers'[c]) :
                           answers'[c][k] # Blank => answers'[c][k].n <= k
    BY DEF AnswersCounted, Blank, Line
  <2>5. CASE c = d
    BY <1>5, <2>2, <2>4, <2>5
  <2>6. CASE c # d
    BY <1>1, <1>5, <2>6 DEF AnswersCounted
  <2> QED BY <2>5, <2>6
<1>12. ASSUME NEW c \in Clients PROVE OrderOf(c)'
  <2>1. CASE c # d
    BY <1>1, <1>5, <2>1 DEF OrderOf, AllBelow
  <2>2. CASE c = d
    <3>1. AllBelow(Numbers(answers'[d]), Numbers(inbox'[d]) \cup NumbersFrom(requests', d))
      BY <1>1, <1>6, <1>7, <1>8 DEF OrderOf, AllBelow
    <3>2. /\ AllBelow(Numbers(inbox'[d]), NumbersFrom(requests', d))
          /\ AllBelow(Numbers(inbox'[d]) \cup NumbersFrom(requests', d), {entered'[d] + 1})
          /\ IncreaseFrom(requests', d)
      BY <1>1, <1>6, <1>7 DEF OrderOf, AllBelow
    <3> QED BY <1>7, <1>8, <2>2, <3>1, <3>2 DEF OrderOf, AllBelow
  <2> QED BY <2>1, <2>2
<1> QED BY <1>9, <1>10, <1>11, <1>12

LEMMA ExitStep == ASSUME EchoInv, NEW d \in Clients, Exit(d) PROVE EchoInv'
<1> USE DEF EchoInv
<1>1. /\ state[d] = "typing" /\ state' = [state EXCEPT ![d] = "exited"]
      /\ inbox' = [inbox EXCEPT ![d] = <<>>]
      /\ UNCHANGED <<requests, line, clientaddr, entered, answers, lost, missing>>
  BY DEF Exit
<1>2. /\ inbox \in [Clients -> Seq(Text)] /\ \A c \in Clients : Len(inbox[c]) <= Buffer
      /\ state \in [Clients -> {"typing", "waiting", "exited"}] /\ Buffer \in Nat
  BY EchoAssumption DEF EchoTypeOK
<1>3. /\ inbox'[d] = <<>> /\ \A c \in Clients : c # d => inbox'[c] = inbox[c]
      /\ state'[d] = "exited" /\ \A c \in Clients : c # d => state'[c] = state[c]
  BY <1>1, <1>2
<1>4. EchoTypeOK'
  <2>1. inbox' \in [Clients -> Seq(Text)] /\ \A c \in Clients : Len(inbox'[c]) <= Buffer
    BY <1>1, <1>2, <1>3
  <2>2. state' \in [Clients -> {"typing", "waiting", "exited"}]
    BY <1>1, <1>2
  <2> QED BY <1>1, <2>1, <2>2 DEF EchoTypeOK
<1>5. Numbers(<<>>) = {} /\ NumbersIncrease(<<>>) /\ OwnOrBlank(<<>>, d)
  BY DEF Numbers, NumbersIncrease, OwnOrBlank
<1>6. LinesRight'
  BY <1>1, <1>3, <1>5 DEF LinesRight
<1>7. AnswersCounted'
  BY <1>1, <1>3 DEF AnswersCounted
<1>8. ASSUME NEW c \in Clients PROVE OrderOf(c)'
  <2>1. CASE c # d
    BY <1>1, <1>3, <2>1 DEF OrderOf, AllBelow
  <2>2. CASE c = d
    BY <1>1, <1>3, <1>5, <2>2 DEF OrderOf, AllBelow
  <2> QED BY <2>1, <2>2
<1> QED BY <1>4, <1>6, <1>7, <1>8

LEMMA EchoStutter == ASSUME EchoInv, UNCHANGED vars PROVE EchoInv'
BY DEF EchoInv, vars, EchoTypeOK, LinesRight, AnswersCounted, OrderOf

(* EchoInv holds in every reachable state of the echo programs. *)
THEOREM EchoInvariant == Spec => []EchoInv
<1>1. Init => EchoInv
  BY EchoInit
<1>2. EchoInv /\ [Next]_vars => EchoInv'
  BY EchoStep, TimeoutStep, EnterStep, GetAnswerStep, ExitStep, EchoStutter DEF Next
<1> QED BY <1>1, <1>2, PTL DEF Spec

(* The type invariant of the echo programs. *)
THEOREM EchoTypeCorrect == Spec => []EchoTypeOK
<1>1. EchoInv => EchoTypeOK
  BY DEF EchoInv
<1> QED BY <1>1, EchoInvariant, PTL

(* Clients print their own lines or blanks, in order, none twice. *)
THEOREM OwnLinesAlwaysInOrder == Spec => []OwnLinesInOrder
<1>1. EchoInv => OwnLinesInOrder
  <2> SUFFICES ASSUME EchoInv, NEW c \in Clients, NEW k \in 1..Len(answers[c]),
                      answers[c][k] # Blank
               PROVE  /\ answers[c][k].by = c /\ answers[c][k].n <= k
                      /\ \A j \in 1..(k - 1) :
                           answers[c][j] # Blank => answers[c][j].n < answers[c][k].n
    BY DEF OwnLinesInOrder
  <2>1. answers[c][k].by = c
    BY DEF EchoInv, LinesRight, OwnOrBlank
  <2>2. answers[c][k].n <= k
    BY DEF EchoInv, AnswersCounted
  <2>3. \A j \in 1..(k - 1) : answers[c][j] # Blank => answers[c][j].n < answers[c][k].n
    BY DEF EchoInv, OrderOf, NumbersIncrease
  <2> QED BY <2>1, <2>2, <2>3
<1> QED BY <1>1, EchoInvariant, PTL

-----------------------------------------------------------------------------
(* How far a client is behind.  A line it has entered is in what it has    *)
(* printed, in its socket or in the server's, unless it was lost; while    *)
(* the client runs, no more are gone than missing counts.                  *)
Present(c) == Numbers(answers[c]) \cup Numbers(inbox[c]) \cup NumbersFrom(requests, c)

Gone(c) == (1..entered[c]) \ Present(c)

Counted(c) == Cardinality(Gone(c)) <= missing[c]

Behind(c) ==
  \A k \in 1..Len(answers[c]) :
    answers[c][k] # Blank =>
      answers[c][k].n \in (k - Blanks(c, k))..(k - Blanks(c, k) + missing[c])

(* What a client that has exited printed does not change any more. *)
BehindInv ==
  \A c \in Clients :
    0 \notin Present(c) /\ IF state[c] = "exited" THEN Behind(c) ELSE Counted(c)

(* No number disappears from a sequence but the one that is taken. *)
LEMMA NumbersOfTail ==
  ASSUME NEW s \in Seq(Text), s # <<>>
  PROVE  /\ Numbers(s) \subseteq Numbers(Tail(s)) \cup {Head(s).n}
         /\ Head(s) = Blank => Numbers(s) \subseteq Numbers(Tail(s))
         /\ Numbers(Tail(s)) \subseteq Numbers(s)
         /\ Head(s) # Blank => Head(s).n \in Numbers(s)
<1> DEFINE t == Tail(s)
<1>1. /\ Head(s) = s[1] /\ Len(s) \in Nat /\ 1 \in 1..Len(s) /\ Len(t) = Len(s) - 1
      /\ \A n \in 1..Len(t) : n + 1 \in 1..Len(s) /\ t[n] = s[n + 1]
  BY TailElements
<1> HIDE DEF t
<1>2. ASSUME NEW k \in 1..Len(s), s[k] # Blank
      PROVE  (k = 1 /\ s[k].n = Head(s).n) \/ s[k].n \in Numbers(t)
  <2>1. CASE k = 1
    BY <1>1, <2>1
  <2>2. CASE k # 1
    <3>1. k - 1 \in 1..Len(t) /\ (k - 1) + 1 = k
      BY <1>1, <2>2
    <3>2. t[k - 1] = s[k]
      BY <1>1, <3>1
    <3> QED BY <1>2, <3>1, <3>2 DEF Numbers
  <2> QED BY <2>1, <2>2
<1>3. Numbers(s) \subseteq Numbers(t) \cup {Head(s).n}
  BY <1>2 DEF Numbers
<1>4. Head(s) = Blank => Numbers(s) \subseteq Numbers(t)
  BY <1>1, <1>2 DEF Numbers
<1>5. Numbers(t) \subseteq Numbers(s) /\ (Head(s) # Blank => Head(s).n \in Numbers(s))
  BY <1>1 DEF Numbers
<1> QED BY <1>3, <1>4, <1>5 DEF t

LEMMA NumbersOfAppend ==
  ASSUME NEW s \in Seq(Text), NEW e \in Text
  PROVE  /\ Numbers(s) \subseteq Numbers(Append(s, e))
         /\ Numbers(Append(s, e)) \subseteq Numbers(s) \cup {e.n}
         /\ e # Blank => e.n \in Numbers(Append(s, e))
         /\ e = Blank => Numbers(Append(s, e)) = Numbers(s)
<1> DEFINE t == Append(s, e)
<1>1. /\ Len(s) \in Nat /\ Len(t) = Len(s) + 1 /\ t[Len(s) + 1] = e
      /\ \A n \in 1..Len(s) : t[n] = s[n]
      /\ \A n \in 1..Len(t) : (n \in 1..Len(s) /\ t[n] = s[n]) \/ (n = Len(s) + 1 /\ t[n] = e)
  BY AppendElements
<1>2. \A n \in 1..Len(s) : n \in 1..Len(t)
  BY <1>1
<1>3. Len(s) + 1 \in 1..Len(t)
  BY <1>1
<1> HIDE DEF t
<1>4. Numbers(s) \subseteq Numbers(t)
  BY <1>1, <1>2 DEF Numbers
<1>5. Numbers(t) \subseteq Numbers(s) \cup {e.n}
  BY <1>1 DEF Numbers
<1>6. e # Blank => e.n \in Numbers(t)
  BY <1>1, <1>3 DEF Numbers
<1>7. e = Blank => Numbers(t) \subseteq Numbers(s)
  BY <1>1 DEF Numbers
<1> QED BY <1>4, <1>5, <1>6, <1>7 DEF t

LEMMA RequestsOfTail ==
  ASSUME NEW s \in Seq(Request), s # <<>>, NEW c
  PROVE  /\ NumbersFrom(s, c) \subseteq NumbersFrom(Tail(s), c) \cup {Head(s).text.n}
         /\ Head(s).from # c => NumbersFrom(s, c) \subseteq NumbersFrom(Tail(s), c)
         /\ NumbersFrom(Tail(s), c) \subseteq NumbersFrom(s, c)
         /\ Head(s).from = c => Head(s).text.n \in NumbersFrom(s, c)
<1> DEFINE t == Tail(s)
<1>1. /\ Head(s) = s[1] /\ Len(s) \in Nat /\ 1 \in 1..Len(s) /\ Len(t) = Len(s) - 1
      /\ \A n \in 1..Len(t) : n + 1 \in 1..Len(s) /\ t[n] = s[n + 1]
  BY TailElements
<1> HIDE DEF t
<1>2. ASSUME NEW k \in 1..Len(s), s[k].from = c
      PROVE  (k = 1 /\ s[k].text.n = Head(s).text.n) \/ s[k].text.n \in NumbersFrom(t, c)
  <2>1. CASE k = 1
    BY <1>1, <2>1
  <2>2. CASE k # 1
    <3>1. k - 1 \in 1..Len(t) /\ (k - 1) + 1 = k
      BY <1>1, <2>2
    <3>2. t[k - 1] = s[k]
      BY <1>1, <3>1
    <3> QED BY <1>2, <3>1, <3>2 DEF NumbersFrom
  <2> QED BY <2>1, <2>2
<1>3. NumbersFrom(s, c) \subseteq NumbersFrom(t, c) \cup {Head(s).text.n}
  BY <1>2 DEF NumbersFrom
<1>4. Head(s).from # c => NumbersFrom(s, c) \subseteq NumbersFrom(t, c)
  BY <1>1, <1>2 DEF NumbersFrom
<1>5. /\ NumbersFrom(t, c) \subseteq NumbersFrom(s, c)
      /\ Head(s).from = c => Head(s).text.n \in NumbersFrom(s, c)
  BY <1>1 DEF NumbersFrom
<1> QED BY <1>3, <1>4, <1>5 DEF t

LEMMA RequestsOfAppend ==
  ASSUME NEW s \in Seq(Request), NEW e \in Request, NEW c
  PROVE  /\ NumbersFrom(s, c) \subseteq NumbersFrom(Append(s, e), c)
         /\ NumbersFrom(Append(s, e), c) \subseteq NumbersFrom(s, c) \cup {e.text.n}
         /\ e.from = c => e.text.n \in NumbersFrom(Append(s, e), c)
         /\ e.from # c => NumbersFrom(Append(s, e), c) = NumbersFrom(s, c)
<1> DEFINE t == Append(s, e)
<1>1. /\ Len(s) \in Nat /\ Len(t) = Len(s) + 1 /\ t[Len(s) + 1] = e
      /\ \A n \in 1..Len(s) : t[n] = s[n]
      /\ \A n \in 1..Len(t) : (n \in 1..Len(s) /\ t[n] = s[n]) \/ (n = Len(s) + 1 /\ t[n] = e)
  BY AppendElements
<1>2. \A n \in 1..Len(s) : n \in 1..Len(t)
  BY <1>1
<1>3. Len(s) + 1 \in 1..Len(t)
  BY <1>1
<1> HIDE DEF t
<1>4. NumbersFrom(s, c) \subseteq NumbersFrom(t, c)
  BY <1>1, <1>2 DEF NumbersFrom
<1>5. NumbersFrom(t, c) \subseteq NumbersFrom(s, c) \cup {e.text.n}
  BY <1>1 DEF NumbersFrom
<1>6. e.from = c => e.text.n \in NumbersFrom(t, c)
  BY <1>1, <1>3 DEF NumbersFrom
<1>7. e.from # c => NumbersFrom(t, c) \subseteq NumbersFrom(s, c)
  BY <1>1 DEF NumbersFrom
<1> QED BY <1>4, <1>5, <1>6, <1>7 DEF t

(* Nothing is gone that is not counted, and what is counted stays counted. *)
LEMMA MissingGrows ==
  ASSUME EchoTypeOK, NEW socket, NEW text \in Text, Vanishes(socket, text), NEW c \in Clients
  PROVE  /\ missing[c] \in Nat /\ missing'[c] \in Nat /\ missing[c] <= missing'[c]
         /\ text.by = c => missing'[c] = missing[c] + 1
<1>1. missing \in [Clients -> Nat] /\ missing' = Misses(text.by)
  BY DEF EchoTypeOK, Vanishes
<1>2. CASE text.by \in Clients
  <2>1. missing' = [missing EXCEPT ![text.by] = @ + 1]
    BY <1>1, <1>2 DEF Misses
  <2> QED BY <1>1, <2>1
<1>3. CASE text.by \notin Clients
  BY <1>1, <1>3 DEF Misses
<1> QED BY <1>2, <1>3

LEMMA GoneFinite ==
  ASSUME NEW n \in Nat, NEW S
  PROVE  IsFiniteSet((1..n) \ S) /\ Cardinality((1..n) \ S) \in Nat
<1>1. IsFiniteSet(1..n)
  BY FS_Interval
<1>2. IsFiniteSet((1..n) \ S)
  BY <1>1, FS_Difference
<1> QED BY <1>2, FS_CardinalityType

LEMMA StillCounted ==
  ASSUME NEW S, NEW T, IsFiniteSet(S), NEW n \in Nat, NEW m \in Nat, Cardinality(S) <= n,
         \/ T \subseteq S /\ n <= m
         \/ (\E x : T \subseteq S \cup {x}) /\ m = n + 1
  PROVE  Cardinality(T) <= m
<1>1. Cardinality(S) \in Nat
  BY FS_CardinalityType
<1>2. CASE T \subseteq S /\ n <= m
  <2>1. IsFiniteSet(T) /\ Cardinality(T) <= Cardinality(S)
    BY <1>2, FS_Subset
  <2>2. Cardinality(T) \in Nat
    BY <2>1, FS_CardinalityType
  <2> QED BY <1>1, <1>2, <2>1, <2>2
<1>3. CASE (\E x : T \subseteq S \cup {x}) /\ m = n + 1
  <2>1. PICK x : T \subseteq S \cup {x}
    BY <1>3
  <2>2. /\ IsFiniteSet(S \cup {x})
        /\ Cardinality(S \cup {x}) = IF x \in S THEN Cardinality(S) ELSE Cardinality(S) + 1
    BY FS_AddElement
  <2>3. IsFiniteSet(T) /\ Cardinality(T) <= Cardinality(S \cup {x})
    BY <2>1, <2>2, FS_Subset
  <2>4. Cardinality(T) \in Nat
    BY <2>3, FS_CardinalityType
  <2> QED BY <1>1, <1>3, <2>2, <2>3, <2>4
<1> QED BY <1>2, <1>3

LEMMA NumbersBelow ==
  ASSUME NEW n \in Nat, n # 0
  PROVE  IsFiniteSet(1..(n - 1)) /\ Cardinality(1..(n - 1)) = n - 1
<1>1. 1 \in Int /\ n - 1 \in Int
  OBVIOUS
<1>2. /\ IsFiniteSet(1..(n - 1))
      /\ Cardinality(1..(n - 1)) = IF 1 > n - 1 THEN 0 ELSE (n - 1) - 1 + 1
  BY <1>1, FS_Interval
<1>3. (IF 1 > n - 1 THEN 0 ELSE (n - 1) - 1 + 1) = n - 1
  OBVIOUS
<1> QED BY <1>2, <1>3

LEMMA Complement ==
  ASSUME NEW S, IsFiniteSet(S), NEW T, T \subseteq S
  PROVE  IsFiniteSet(S \ T) /\ Cardinality(S \ T) = Cardinality(S) - Cardinality(T)
<1>1. S \cap T = T
  OBVIOUS
<1>2. IsFiniteSet(S \ T) /\ Cardinality(S \ T) = Cardinality(S) - Cardinality(S \cap T)
  BY FS_Difference
<1> QED BY <1>1, <1>2

(* The place of a line among the answers: the lines that came before it, of  *)
(* those that were entered before it, are the answers before it that are not *)
(* blank; the others are gone.                                               *)
LEMMA CountedIsBehind ==
  ASSUME EchoInv, NEW c \in Clients, 0 \notin Present(c), Counted(c)
  PROVE  Behind(c)
<1> SUFFICES ASSUME NEW k \in 1..Len(answers[c]), answers[c][k] # Blank
             PROVE  answers[c][k].n \in (k - Blanks(c, k))..(k - Blanks(c, k) + missing[c])
  BY DEF Behind
<1> DEFINE a == answers[c]
           m == a[k].n
           Empty == {j \in 1..k : a[j] = Blank}
           Full == (1..(k - 1)) \ Empty
           Before == {a[j].n : j \in Full}
<1>1. /\ a \in Seq(Text) /\ Len(a) \in Nat /\ k \in 1..Len(a) /\ k \in Nat
      /\ a[k] # Blank /\ m \in Nat /\ entered[c] \in Nat /\ missing[c] \in Nat
      /\ Len(a) <= entered[c] /\ m <= k
  <2>1. a \in Seq(Text) /\ entered[c] \in Nat /\ missing[c] \in Nat
    BY EchoAssumption DEF EchoInv, EchoTypeOK
  <2>2. a[k] \in Text
    BY <2>1
  <2>3. Len(a) = entered[c] - 1 \/ Len(a) = entered[c]
    BY DEF EchoInv, AnswersCounted
  <2>4. m <= k
    BY DEF EchoInv, AnswersCounted
  <2> QED BY <2>1, <2>2, <2>3, <2>4 DEF Text
<1>2. \A j \in 1..Len(a) : a[j] # Blank => a[j].n \in Nat /\ a[j].n \in Present(c) /\ a[j].n # 0
  <2>1. \A j \in 1..Len(a) : a[j] \in Text
    BY <1>1
  <2> QED BY <2>1 DEF Present, Numbers, Text
<1>3. \A j \in 1..Len(a), i \in 1..Len(a) :
        i < j /\ a[i] # Blank /\ a[j] # Blank => a[i].n < a[j].n
  <2>1. NumbersIncrease(a)
    BY DEF EchoInv, OrderOf
  <2>2. \A j \in 1..Len(a), i \in 1..Len(a) : i < j => i \in 1..(j - 1)
    BY <1>1
  <2> QED BY <2>1, <2>2 DEF NumbersIncrease
<1>4. \A x \in Numbers(inbox[c]) \cup NumbersFrom(requests, c) : m < x
  BY <1>1 DEF EchoInv, OrderOf, AllBelow, Numbers
<1>5. Blanks(c, k) = Cardinality(Empty)
  BY DEF Blanks
<1>6. /\ IsFiniteSet(Empty) /\ Cardinality(Empty) \in Nat /\ Empty \subseteq 1..(k - 1)
  <2>1. Empty \subseteq 1..(k - 1) /\ IsFiniteSet(1..(k - 1))
    BY <1>1, NumbersBelow
  <2>2. IsFiniteSet(Empty)
    BY <2>1, FS_Subset
  <2> QED BY <2>1, <2>2, FS_CardinalityType
<1>7. IsFiniteSet(Full) /\ Cardinality(Full) = k - 1 - Cardinality(Empty)
  <2>1. IsFiniteSet(1..(k - 1)) /\ Cardinality(1..(k - 1)) = k - 1
    BY <1>1, NumbersBelow
  <2> QED BY <1>6, <2>1, Complement
<1>8. \A j \in Full : j \in 1..Len(a) /\ j < k /\ a[j] # Blank
  BY <1>1
<1>9. IsFiniteSet(Before) /\ Cardinality(Before) = Cardinality(Full)
  <2> DEFINE f == [j \in Full |-> a[j].n]
  <2>1. f \in [Full -> Before] /\ \A y \in Before : \E j \in Full : f[j] = y
    OBVIOUS
  <2>2. \A i, j \in Full : f[i] = f[j] => i = j
    <3> SUFFICES ASSUME NEW i \in Full, NEW j \in Full, i # j PROVE a[i].n # a[j].n
      OBVIOUS
    <3>1. i \in 1..Len(a) /\ j \in 1..Len(a) /\ a[i] # Blank /\ a[j] # Blank
      BY <1>8
    <3>2. a[i].n \in Nat /\ a[j].n \in Nat
      BY <1>2, <3>1
    <3>3. i < j \/ j < i
      BY <1>1, <3>1
    <3> QED BY <1>3, <3>1, <3>2, <3>3
  <2>3. f \in Bijection(Full, Before)
    BY <2>1, <2>2 DEF Bijection, Injection, Surjection, IsInjective
  <2>4. ExistsBijection(Full, Before)
    BY <2>3 DEF ExistsBijection
  <2> QED BY <1>7, <2>4, FS_Bijection
<1>10. Before \subseteq 1..(m - 1)
  <2> SUFFICES ASSUME NEW j \in Full PROVE a[j].n \in 1..(m - 1)
    OBVIOUS
  <2>1. a[j].n < m /\ a[j].n \in Nat /\ a[j].n # 0
    BY <1>1, <1>2, <1>3, <1>8
  <2> QED BY <1>1, <2>1
<1>11. (1..(m - 1)) \ Before \subseteq Gone(c)
  <2> SUFFICES ASSUME NEW x \in 1..(m - 1), x \notin Before PROVE x \in Gone(c)
    OBVIOUS
  <2>1. x \in 1..entered[c] /\ x < m
    BY <1>1
  <2>2. x \notin Numbers(inbox[c]) \cup NumbersFrom(requests, c)
    BY <1>1, <1>4, <2>1
  <2>3. x \notin Numbers(a)
    <3> SUFFICES ASSUME NEW j \in 1..Len(a), a[j] # Blank, x = a[j].n PROVE FALSE
      BY DEF Numbers
    <3>1. CASE j < k
      <4>1. j \in Full
        BY <1>1, <3>1
      <4> QED BY <4>1
    <3>2. CASE j = k
      BY <1>1, <2>1, <3>2
    <3>3. CASE k < j
      BY <1>1, <1>2, <1>3, <2>1, <3>3
    <3> QED BY <1>1, <3>1, <3>2, <3>3
  <2> QED BY <2>1, <2>2, <2>3 DEF Gone, Present
<1> HIDE DEF Full, Before, Empty, m, a
<1>12. m # 0
  <2>1. a[k].n # 0
    BY <1>1, <1>2
  <2> QED BY <2>1 DEF m
<1>13. IsFiniteSet(1..(m - 1)) /\ Cardinality(1..(m - 1)) = m - 1
  BY <1>1, <1>12, NumbersBelow
<1>14. Cardinality(Before) <= m - 1
  BY <1>10, <1>13, FS_Subset
<1>15. Cardinality((1..(m - 1)) \ Before) = (m - 1) - Cardinality(Before)
  BY <1>10, <1>13, Complement
<1>16. /\ Cardinality((1..(m - 1)) \ Before) <= Cardinality(Gone(c))
       /\ Cardinality((1..(m - 1)) \ Before) \in Nat
  <2>1. IsFiniteSet(Gone(c))
    BY <1>1, GoneFinite DEF Gone
  <2>2. IsFiniteSet((1..(m - 1)) \ Before)
    BY <1>13, FS_Difference
  <2> QED BY <1>11, <2>1, <2>2, FS_Subset, FS_CardinalityType
<1>17. Cardinality(Gone(c)) <= missing[c] /\ Cardinality(Gone(c)) \in Nat
  BY <1>1, GoneFinite DEF Counted, Gone
<1> DEFINE g == Cardinality(Gone(c))
           b == Cardinality(Empty)
           e == Cardinality((1..(m - 1)) \ Before)
           f == Cardinality(Before)
           h == Cardinality(Full)
<1>18. /\ e <= g /\ e \in Nat /\ g <= missing[c] /\ g \in Nat /\ e = (m - 1) - f /\ f <= m - 1
       /\ f = h /\ h = k - 1 - b /\ b \in Nat /\ k \in Nat /\ m \in Nat /\ missing[c] \in Nat
  BY <1>1, <1>6, <1>7, <1>9, <1>14, <1>15, <1>16, <1>17
<1> HIDE DEF g, b, e, f, h
<1>19. m \in (k - b)..(k - b + missing[c])
  BY <1>18
<1> QED BY <1>5, <1>19 DEF b, m, a

-----------------------------------------------------------------------------
(* Every action keeps BehindInv. *)
LEMMA BehindKept ==
  ASSUME EchoInv, NEW c \in Clients, Behind(c), answers'[c] = answers[c],
         missing'[c] \in Nat, missing[c] <= missing'[c]
  PROVE  Behind(c)'
<1> SUFFICES ASSUME NEW k \in 1..Len(answers[c]), answers[c][k] # Blank
             PROVE  answers[c][k].n \in (k - Blanks(c, k)')..(k - Blanks(c, k)' + missing'[c])
  BY DEF Behind, Blank, Line
<1>1. /\ answers[c] \in Seq(Text) /\ missing[c] \in Nat /\ answers[c][k] \in Text
      /\ Len(answers[c]) \in Nat /\ k \in Nat
  BY DEF EchoInv, EchoTypeOK
<1>2. Blanks(c, k)' = Blanks(c, k)
  BY DEF Blanks, Blank, Line
<1>3. Blanks(c, k) \in Nat
  <2>1. IsFiniteSet(1..k)
    BY <1>1, FS_Interval
  <2>2. IsFiniteSet({j \in 1..k : answers[c][j] = Blank})
    BY <2>1, FS_Subset
  <2> QED BY <2>2, FS_CardinalityType DEF Blanks
<1>4. answers[c][k].n \in (k - Blanks(c, k))..(k - Blanks(c, k) + missing[c])
  BY DEF Behind
<1> DEFINE b == Blanks(c, k)
           m == answers[c][k].n
<1>5. m \in Nat /\ m \in (k - b)..(k - b + missing[c]) /\ b \in Nat
  BY <1>1, <1>3, <1>4 DEF Text
<1> HIDE DEF b, m
<1>6. m \in (k - b)..(k - b + missing'[c])
  BY <1>1, <1>5
<1> QED BY <1>2, <1>6 DEF b, m

LEMMA CountedKept ==
  ASSUME EchoInv, NEW c \in Clients, Counted(c), missing'[c] \in Nat,
         \/ Gone(c)' \subseteq Gone(c) /\ missing[c] <= missing'[c]
         \/ (\E x : Gone(c)' \subseteq Gone(c) \cup {x}) /\ missing'[c] = missing[c] + 1
  PROVE  Counted(c)'
<1>1. missing[c] \in Nat /\ entered[c] \in Nat
  BY EchoAssumption DEF EchoInv, EchoTypeOK
<1>2. IsFiniteSet(Gone(c))
  BY <1>1, GoneFinite DEF Gone
<1> QED BY <1>1, <1>2, StillCounted DEF Counted

LEMMA BehindInit == Init => BehindInv
<1> SUFFICES ASSUME Init, NEW c \in Clients
             PROVE  0 \notin Present(c) /\ IF state[c] = "exited" THEN Behind(c) ELSE Counted(c)
  BY DEF BehindInv
<1>1. answers[c] = <<>> /\ inbox[c] = <<>> /\ requests = <<>> /\ entered[c] = 0 /\ missing[c] = 0
      /\ state[c] = "typing"
  BY DEF Init
<1>2. Present(c) = {} /\ Gone(c) = {}
  BY <1>1 DEF Present, Gone, Numbers, NumbersFrom
<1> QED BY <1>1, <1>2, FS_EmptySet DEF Counted

LEMMA EchoBehind == ASSUME EchoInv, BehindInv, Echo PROVE BehindInv'
<1> SUFFICES ASSUME NEW c \in Clients
             PROVE  0 \notin Present(c)' /\ IF state'[c] = "exited" THEN Behind(c)' ELSE Counted(c)'
  BY DEF BehindInv
<1> DEFINE r == Head(requests)
<1>1. /\ requests \in Seq(Request) /\ requests # <<>> /\ requests' = Tail(requests)
      /\ SendToClient(r.from, r.text) /\ UNCHANGED <<state, entered, answers>>
      /\ inbox[c] \in Seq(Text) /\ inbox \in [Clients -> Seq(Text)]
      /\ missing[c] \in Nat /\ EchoTypeOK
  BY DEF EchoInv, Echo, EchoTypeOK, Request, Sender
<1>2. /\ r.from \in Clients /\ r.text \in Text /\ r.text # Blank /\ r.text.by = r.from
  <2>1. r \in Request /\ r = requests[1] /\ 1 \in 1..Len(requests)
    BY <1>1, TailElements
  <2> QED BY <2>1 DEF EchoInv, LinesRight, Request
<1>3. /\ NumbersFrom(requests, c) \subseteq NumbersFrom(requests', c) \cup {r.text.n}
      /\ r.from # c => NumbersFrom(requests, c) \subseteq NumbersFrom(requests', c)
      /\ NumbersFrom(requests', c) \subseteq NumbersFrom(requests, c)
      /\ r.from = c => r.text.n \in NumbersFrom(requests, c)
  BY <1>1, RequestsOfTail
<1> HIDE DEF r
<1>4. /\ missing'[c] \in Nat
      /\ \/ inbox'[c] = inbox[c] /\ missing[c] <= missing'[c] /\ (r.from = c => state[c] = "exited")
         \/ inbox'[c] = inbox[c] /\ missing'[c] = missing[c] + 1 /\ r.from = c
         \/ inbox'[c] = Append(inbox[c], r.text) /\ missing[c] <= missing'[c] /\ r.from = c
  <2>1. CASE Arrives(inbox[r.from]) /\ inbox' = [inbox EXCEPT ![r.from] = Append(@, r.text)]
    <3>1. missing' = missing
      BY <2>1 DEF Arrives
    <3>2. inbox'[c] = IF c = r.from THEN Append(inbox[c], r.text) ELSE inbox[c]
      BY <1>1, <1>2, <2>1
    <3> QED BY <1>1, <3>1, <3>2
  <2>2. CASE Vanishes(inbox[r.from], r.text) /\ UNCHANGED inbox
    <3>1. /\ missing'[c] \in Nat /\ missing[c] <= missing'[c]
          /\ r.from = c => missing'[c] = missing[c] + 1
      BY <1>1, <1>2, <2>2, MissingGrows
    <3> QED BY <2>2, <3>1
  <2>3. CASE state[r.from] = "exited" /\ UNCHANGED <<inbox, lost, missing>>
    BY <1>1, <2>3
  <2> QED BY <1>1, <1>2, <2>1, <2>2, <2>3 DEF SendToClient
<1>5. /\ 0 \notin Present(c)
      /\ IF state[c] = "exited" THEN Behind(c) ELSE Counted(c)
  BY DEF BehindInv
<1>6. Present(c)' \subseteq Present(c)
  <2>1. CASE inbox'[c] = inbox[c]
    BY <1>1, <1>3, <2>1 DEF Present
  <2>2. CASE inbox'[c] = Append(inbox[c], r.text) /\ r.from = c
    <3>1. Numbers(inbox'[c]) \subseteq Numbers(inbox[c]) \cup {r.text.n}
      BY <1>1, <1>2, <2>2, NumbersOfAppend
    <3> QED BY <1>1, <1>3, <2>2, <3>1 DEF Present
  <2> QED BY <1>4, <2>1, <2>2
<1>7. CASE state[c] = "exited"
  <2>1. missing[c] <= missing'[c]
    BY <1>1, <1>4
  <2> QED BY <1>1, <1>4, <1>5, <1>6, <1>7, <2>1, BehindKept
<1>8. CASE state[c] # "exited"
  <2>1. CASE inbox'[c] = inbox[c] /\ missing[c] <= missing'[c] /\ r.from # c
    <3>1. Present(c) \subseteq Present(c)'
      BY <1>1, <1>3, <2>1 DEF Present
    <3>2. Gone(c)' \subseteq Gone(c)
      BY <1>1, <3>1 DEF Gone
    <3> QED BY <1>1, <1>4, <1>5, <1>6, <1>8, <2>1, <3>2, CountedKept
  <2>2. CASE inbox'[c] = inbox[c] /\ missing'[c] = missing[c] + 1
    <3>1. Present(c) \subseteq Present(c)' \cup {r.text.n}
      BY <1>1, <1>3, <2>2 DEF Present
    <3>2. Gone(c)' \subseteq Gone(c) \cup {r.text.n}
      BY <1>1, <3>1 DEF Gone
    <3> QED BY <1>1, <1>4, <1>5, <1>6, <1>8, <2>2, <3>2, CountedKept
  <2>3. CASE inbox'[c] = Append(inbox[c], r.text) /\ missing[c] <= missing'[c]
    <3>1. Numbers(inbox[c]) \subseteq Numbers(inbox'[c]) /\ r.text.n \in Numbers(inbox'[c])
      BY <1>1, <1>2, <2>3, NumbersOfAppend
    <3>2. Present(c) \subseteq Present(c)'
      BY <1>1, <1>3, <3>1 DEF Present
    <3>3. Gone(c)' \subseteq Gone(c)
      BY <1>1, <3>2 DEF Gone
    <3> QED BY <1>1, <1>4, <1>5, <1>6, <1>8, <2>3, <3>3, CountedKept
  <2> QED BY <1>4, <1>8, <2>1, <2>2, <2>3
<1> QED BY <1>7, <1>8

LEMMA TimeoutBehind == ASSUME EchoInv, BehindInv, Timeout PROVE BehindInv'
<1> SUFFICES ASSUME NEW c \in Clients
             PROVE  0 \notin Present(c)' /\ IF state'[c] = "exited" THEN Behind(c)' ELSE Counted(c)'
  BY DEF BehindInv
<1>1. /\ SendToClient(clientaddr, Blank) /\ UNCHANGED <<requests, state, entered, answers>>
      /\ inbox[c] \in Seq(Text) /\ inbox \in [Clients -> Seq(Text)] /\ missing[c] \in Nat
      /\ EchoTypeOK
  BY DEF EchoInv, Timeout, EchoTypeOK
<1>2. Blank \in Text /\ Blank.by \notin Clients
  BY TextTypes, EchoAssumption DEF Blank, Line
<1>3. missing' = missing
  BY <1>1, <1>2 DEF SendToClient, Arrives, Vanishes, Misses
<1>4. inbox'[c] = inbox[c] \/ inbox'[c] = Append(inbox[c], Blank)
  BY <1>1, <1>2, SentToClient
<1>5. Numbers(inbox'[c]) = Numbers(inbox[c])
  BY <1>1, <1>2, <1>4, NumbersOfAppend
<1>6. Present(c)' = Present(c)
  BY <1>1, <1>5 DEF Present
<1>7. Gone(c)' = Gone(c) /\ missing[c] <= missing'[c] /\ missing'[c] \in Nat
  BY <1>1, <1>3, <1>6 DEF Gone
<1>8. /\ 0 \notin Present(c)
      /\ IF state[c] = "exited" THEN Behind(c) ELSE Counted(c)
  BY DEF BehindInv
<1>9. CASE state[c] = "exited"
  BY <1>1, <1>6, <1>7, <1>8, <1>9, BehindKept
<1>10. CASE state[c] # "exited"
  BY <1>1, <1>6, <1>7, <1>8, <1>10, CountedKept
<1> QED BY <1>9, <1>10

LEMMA EnterBehind == ASSUME EchoInv, BehindInv, NEW d \in Clients, Enter(d) PROVE BehindInv'
<1> SUFFICES ASSUME NEW c \in Clients
             PROVE  0 \notin Present(c)' /\ IF state'[c] = "exited" THEN Behind(c)' ELSE Counted(c)'
  BY DEF BehindInv
<1> DEFINE text == Line(d, entered[d] + 1)
           e == [from |-> d, text |-> text]
<1>1. /\ state[d] = "typing" /\ UNCHANGED <<line, clientaddr, inbox, answers>>
      /\ entered' = [entered EXCEPT ![d] = @ + 1]
      /\ state' = [state EXCEPT ![d] = "waiting"]
  BY DEF Enter
<1>2. \/ Arrives(requests) /\ requests' = Append(requests, e)
      \/ Vanishes(requests, text) /\ requests' = requests
  BY DEF Enter
<1>3. /\ requests \in Seq(Request) /\ entered[d] \in Nat /\ entered[c] \in Nat
      /\ missing[c] \in Nat /\ EchoTypeOK
      /\ state'[c] = IF c = d THEN "waiting" ELSE state[c]
      /\ entered'[c] = IF c = d THEN entered[c] + 1 ELSE entered[c]
  <2>1. /\ requests \in Seq(Request) /\ missing[c] \in Nat /\ EchoTypeOK
        /\ entered \in [Clients -> 0..MaxLines] /\ MaxLines \in Nat
        /\ state \in [Clients -> {"typing", "waiting", "exited"}]
    BY EchoAssumption DEF EchoInv, EchoTypeOK, Request
  <2> QED BY <1>1, <2>1
<1>4. /\ text \in Text /\ text.by = d /\ text.n = entered[d] + 1
  <2>1. entered[d] + 1 \in Nat
    BY <1>3
  <2> QED BY <2>1, TextTypes
<1> HIDE DEF text
<1>5. e \in Request /\ e.from = d /\ e.text.n = entered[d] + 1
  BY <1>4 DEF Request
<1> HIDE DEF e
<1>6. /\ 0 \notin Present(c)
      /\ IF state[c] = "exited" THEN Behind(c) ELSE Counted(c)
  BY DEF BehindInv
<1>7. CASE Arrives(requests) /\ requests' = Append(requests, e)
  <2>1. missing'[c] = missing[c] /\ missing[c] <= missing'[c] /\ missing'[c] \in Nat
    BY <1>3, <1>7 DEF Arrives
  <2>2. /\ NumbersFrom(requests, c) \subseteq NumbersFrom(requests', c)
        /\ NumbersFrom(requests', c) \subseteq NumbersFrom(requests, c) \cup {entered[d] + 1}
        /\ d = c => entered[d] + 1 \in NumbersFrom(requests', c)
        /\ d # c => NumbersFrom(requests', c) = NumbersFrom(requests, c)
    BY <1>3, <1>5, <1>7, RequestsOfAppend
  <2>3. 0 \notin Present(c)'
    <3>1. entered[d] + 1 # 0
      BY <1>3
    <3> QED BY <1>1, <1>6, <2>2, <3>1 DEF Present
  <2>4. CASE c # d
    <3>1. Present(c)' = Present(c) /\ Gone(c)' = Gone(c)
      BY <1>1, <1>3, <2>2, <2>4 DEF Present, Gone
    <3>2. CASE state[c] = "exited"
      BY <1>1, <1>3, <1>6, <2>1, <2>3, <2>4, <3>2, BehindKept
    <3>3. CASE state[c] # "exited"
      BY <1>1, <1>3, <1>6, <2>1, <2>3, <2>4, <3>1, <3>3, CountedKept
    <3> QED BY <3>2, <3>3
  <2>5. CASE c = d
    <3>1. Present(c) \cup {entered[c] + 1} \subseteq Present(c)'
      BY <1>1, <2>2, <2>5 DEF Present
    <3>2. 1..entered'[c] \subseteq (1..entered[c]) \cup {entered[c] + 1}
      BY <1>3, <2>5
    <3>3. Gone(c)' \subseteq Gone(c)
      BY <3>1, <3>2 DEF Gone
    <3> QED BY <1>1, <1>3, <1>6, <2>1, <2>3, <2>5, <3>3, CountedKept
  <2> QED BY <2>4, <2>5
<1>8. CASE Vanishes(requests, text) /\ requests' = requests
  <2>1. /\ missing'[c] \in Nat /\ missing[c] <= missing'[c]
        /\ d = c => missing'[c] = missing[c] + 1
    BY <1>3, <1>4, <1>8, MissingGrows
  <2>2. Present(c)' = Present(c)
    BY <1>1, <1>8 DEF Present
  <2>3. CASE c # d
    <3>1. Gone(c)' = Gone(c)
      BY <1>3, <2>2, <2>3 DEF Gone
    <3>2. CASE state[c] = "exited"
      BY <1>1, <1>3, <1>6, <2>1, <2>2, <2>3, <3>2, BehindKept
    <3>3. CASE state[c] # "exited"
      BY <1>1, <1>3, <1>6, <2>1, <2>2, <2>3, <3>1, <3>3, CountedKept
    <3> QED BY <3>2, <3>3
  <2>4. CASE c = d
    <3>1. 1..entered'[c] \subseteq (1..entered[c]) \cup {entered[c] + 1}
      BY <1>3, <2>4
    <3>2. Gone(c)' \subseteq Gone(c) \cup {entered[c] + 1}
      BY <2>2, <3>1 DEF Gone
    <3>3. Counted(c)
      BY <1>1, <1>6, <2>4
    <3>4. missing'[c] = missing[c] + 1 /\ missing'[c] \in Nat
      BY <2>1, <2>4
    <3>5. Counted(c)'
      BY <3>2, <3>3, <3>4, CountedKept
    <3> QED BY <1>3, <1>6, <2>2, <2>4, <3>5
  <2> QED BY <2>3, <2>4
<1> QED BY <1>2, <1>7, <1>8

LEMMA GetAnswerBehind ==
  ASSUME EchoInv, BehindInv, NEW d \in Clients, GetAnswer(d)
  PROVE  BehindInv'
<1> SUFFICES ASSUME NEW c \in Clients
             PROVE  0 \notin Present(c)' /\ IF state'[c] = "exited" THEN Behind(c)' ELSE Counted(c)'
  BY DEF BehindInv
<1> DEFINE h == Head(inbox[d])
<1>1. /\ state[d] = "waiting" /\ inbox[d] # <<>>
      /\ answers' = [answers EXCEPT ![d] = Append(@, h)]
      /\ inbox' = [inbox EXCEPT ![d] = Tail(@)]
      /\ state' = [state EXCEPT ![d] = "typing"]
      /\ UNCHANGED <<requests, entered, missing>>
  BY DEF GetAnswer
<1>2. /\ inbox[d] \in Seq(Text) /\ answers[d] \in Seq(Text) /\ missing[c] \in Nat
      /\ inbox'[c] = IF c = d THEN Tail(inbox[d]) ELSE inbox[c]
      /\ answers'[c] = IF c = d THEN Append(answers[d], h) ELSE answers[c]
      /\ state'[c] = IF c = d THEN "typing" ELSE state[c]
  BY <1>1 DEF EchoInv, EchoTypeOK
<1>3. h \in Text
  BY <1>1, <1>2, TailElements
<1>4. /\ Numbers(inbox[d]) \subseteq Numbers(Tail(inbox[d])) \cup {h.n}
      /\ h = Blank => Numbers(inbox[d]) \subseteq Numbers(Tail(inbox[d]))
      /\ Numbers(Tail(inbox[d])) \subseteq Numbers(inbox[d])
      /\ h # Blank => h.n \in Numbers(inbox[d])
  BY <1>1, <1>2, NumbersOfTail
<1> HIDE DEF h
<1>5. /\ Numbers(answers[d]) \subseteq Numbers(Append(answers[d], h))
      /\ Numbers(Append(answers[d], h)) \subseteq Numbers(answers[d]) \cup {h.n}
      /\ h # Blank => h.n \in Numbers(Append(answers[d], h))
      /\ h = Blank => Numbers(Append(answers[d], h)) = Numbers(answers[d])
  BY <1>2, <1>3, NumbersOfAppend
<1>6. Present(c)' = Present(c)
  <2>1. CASE c = d
    <3>1. CASE h = Blank
      BY <1>1, <1>2, <1>4, <1>5, <2>1, <3>1 DEF Present
    <3>2. CASE h # Blank
      BY <1>1, <1>2, <1>4, <1>5, <2>1, <3>2 DEF Present
    <3> QED BY <3>1, <3>2
  <2>2. CASE c # d
    BY <1>1, <1>2, <2>2 DEF Present
  <2> QED BY <2>1, <2>2
<1>7. /\ 0 \notin Present(c)
      /\ IF state[c] = "exited" THEN Behind(c) ELSE Counted(c)
      /\ missing'[c] \in Nat /\ missing[c] <= missing'[c] /\ Gone(c)' = Gone(c)
  BY <1>1, <1>2, <1>6 DEF BehindInv, Gone
<1>8. CASE state[c] = "exited"
  BY <1>1, <1>2, <1>6, <1>7, <1>8, BehindKept
<1>9. CASE state[c] # "exited"
  BY <1>1, <1>2, <1>6, <1>7, <1>9, CountedKept
<1> QED BY <1>8, <1>9

(* A client that exits has printed its lines where they belong, and what is *)
(* lost afterwards does not matter to it.                                   *)
LEMMA ExitBehind == ASSUME EchoInv, BehindInv, NEW d \in Clients, Exit(d) PROVE BehindInv'
<1> SUFFICES ASSUME NEW c \in Clients
             PROVE  0 \notin Present(c)' /\ IF state'[c] = "exited" THEN Behind(c)' ELSE Counted(c)'
  BY DEF BehindInv
<1>1. /\ state[d] = "typing" /\ state' = [state EXCEPT ![d] = "exited"]
      /\ inbox' = [inbox EXCEPT ![d] = <<>>]
      /\ UNCHANGED <<requests, entered, answers, missing>>
  BY DEF Exit
<1>2. /\ missing[c] \in Nat
      /\ inbox'[c] = IF c = d THEN <<>> ELSE inbox[c]
      /\ state'[c] = IF c = d THEN "exited" ELSE state[c]
  BY <1>1 DEF EchoInv, EchoTypeOK
<1>3. /\ 0 \notin Present(c)
      /\ IF state[c] = "exited" THEN Behind(c) ELSE Counted(c)
      /\ missing'[c] \in Nat /\ missing[c] <= missing'[c]
  BY <1>1, <1>2 DEF BehindInv
<1>4. CASE c = d
  <2>1. Behind(c)
    BY <1>1, <1>3, <1>4, CountedIsBehind
  <2>2. Present(c)' \subseteq Present(c)
    <3>1. Numbers(<<>>) = {}
      BY DEF Numbers
    <3> QED BY <1>1, <1>2, <1>4, <3>1 DEF Present
  <2> QED BY <1>1, <1>2, <1>3, <1>4, <2>1, <2>2, BehindKept
<1>5. CASE c # d
  <2>1. Present(c)' = Present(c) /\ Gone(c)' = Gone(c)
    BY <1>1, <1>2, <1>5 DEF Present, Gone
  <2>2. CASE state[c] = "exited"
    BY <1>1, <1>2, <1>3, <1>5, <2>1, <2>2, BehindKept
  <2>3. CASE state[c] # "exited"
    BY <1>1, <1>2, <1>3, <1>5, <2>1, <2>3, CountedKept
  <2> QED BY <2>2, <2>3
<1> QED BY <1>4, <1>5

LEMMA BehindStutter == ASSUME BehindInv, UNCHANGED vars PROVE BehindInv'
BY DEF BehindInv, vars, Behind, Blanks, Counted, Gone, Present

(* OneBehindPerBlank: a blank answer, sent when recvfrom() times out (server.c *)
(* of lab5), puts a client one line behind for good, and nothing else does but *)
(* a loss.                                                                     *)
THEOREM AlwaysOneBehindPerBlank == Spec => []OneBehindPerBlank
<1>1. Init => BehindInv
  BY BehindInit
<1>2. EchoInv /\ BehindInv /\ [Next]_vars => BehindInv'
  BY EchoBehind, TimeoutBehind, EnterBehind, GetAnswerBehind, ExitBehind, BehindStutter DEF Next
<1>3. EchoInv /\ BehindInv => OneBehindPerBlank
  <2> SUFFICES ASSUME EchoInv, BehindInv, NEW c \in Clients PROVE Behind(c)
    BY DEF OneBehindPerBlank, Behind
  <2> QED BY CountedIsBehind DEF BehindInv
<1> QED BY <1>1, <1>2, <1>3, EchoInvariant, PTL DEF Spec
=============================================================================
