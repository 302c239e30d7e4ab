------------------------ MODULE ChunkTransportProofs ------------------------
(***************************************************************************)
(* Proofs about ChunkTransport, for any number of processes, threads,      *)
(* messages and chunks.                                                    *)
(*                                                                         *)
(* With datagrams lost and messages cut short: what every payload looks    *)
(* like.  With neither: the transport implements MessageChannel.  Both are *)
(* about receivers whose buffers do not mix processes (BuffersApart) and   *)
(* whose reading of the header is good enough (NumbersReadable): the Unix  *)
(* client, and the UDP client up to Base chunks where char is signed.      *)
(***************************************************************************)
EXTENDS ChunkTransport, WellFoundedInduction, TLAPS

USE ConstantsAssumption

LEMMA AppendFacts ==
  ASSUME NEW S, NEW q \in Seq(S), NEW e \in S
  PROVE  /\ Append(q, e) \in Seq(S)
         /\ Len(Append(q, e)) = Len(q) + 1 /\ Len(q) \in Nat
         /\ \A i \in 1..Len(q) : Append(q, e)[i] = q[i]
         /\ Append(q, e)[Len(q) + 1] = e
OBVIOUS

LEMMA TailFacts ==
  ASSUME NEW S, NEW q \in Seq(S), q # <<>>
  PROVE  /\ Head(q) = q[1] /\ Head(q) \in S /\ 1 \in 1..Len(q)
         /\ Tail(q) \in Seq(S)
         /\ Len(Tail(q)) = Len(q) - 1 /\ Len(q) \in Nat
         /\ \A i \in 1..Len(Tail(q)) : i + 1 \in 1..Len(q) /\ Tail(q)[i] = q[i + 1]
OBVIOUS

-----------------------------------------------------------------------------
(* The two bytes of the header.                                            *)

LEMMA DivMod ==
  ASSUME NEW b \in Nat \ {0, 1}, NEW n \in 0..(b * b - 1)
  PROVE  /\ n % b \in 0..(b - 1) /\ n \div b \in 0..(b - 1)
         /\ ((n \div b) * b) + (n % b) = n
<1>1. n % b \in 0..(b - 1)
  OBVIOUS
<1>2. ((n \div b) * b) + (n % b) = n /\ n \div b \in Nat
  OBVIOUS
<1>3. n \div b < b
  <2> SUFFICES ASSUME n \div b >= b PROVE FALSE
    BY <1>2
  <2> DEFINE q == n \div b
  <2>1. q \in Nat /\ q >= b /\ q * b <= n
    BY <1>1, <1>2
  <2> HIDE DEF q
  <2>2. q * b >= b * b
    BY <2>1
  <2> QED BY <2>1, <2>2
<1> QED BY <1>1, <1>2, <1>3

LEMMA SmallMod ==
  ASSUME NEW b \in Nat \ {0}, NEW m \in 0..(b - 1)
  PROVE  m % b = m
OBVIOUS

\* Chunks that exist: their number is below the length of their message.
GoodChunks == {c \in Chunks : c.index < c.msg.n}

Datagrams == {[header |-> Header(c.index, IsLast(c)), chunk |-> c] : c \in GoodChunks}

LEMMA ChunkFields ==
  ASSUME NEW c \in GoodChunks
  PROVE  /\ c.msg.src \in Sources /\ c.msg.no \in 1..MaxMessages /\ c.msg.n \in 1..MaxChunks
         /\ c.index \in Nat /\ c.index < c.msg.n /\ c.msg.no \in Nat /\ c.msg.n \in Nat
         /\ c.msg \in Messages /\ c \in Chunks
BY DEF GoodChunks, Chunks, Messages

\* What the receiver makes of a header is the end marker for the last chunk
\* only, and 0 for the first of several only, which is all that it asks.  With
\* plain char that is signed this holds up to Base chunks: the low byte of a
\* number is taken for the end marker's when it is Base - 1.
NumbersReadable == CharSigned = FALSE \/ MaxChunks <= Base

LEMMA NumberOfHeader ==
  ASSUME NumbersReadable, NEW c \in GoodChunks
  PROVE  LET number == ParseChunkNumber(Header(c.index, IsLast(c)))
         IN  /\ number = EndMarker <=> IsLast(c)
             /\ ~IsLast(c) => (number = 0 <=> c.index = 0)
             /\ EndMarker # 0
<1> DEFINE sq == Base * Base
<1> DEFINE number == ParseChunkNumber(Header(c.index, IsLast(c)))
<1>0. Base \in Nat \ {0, 1} /\ MaxChunks \in Nat /\ MaxChunks <= sq /\ sq \in Nat
  OBVIOUS
<1>1. (Base - 1) * Base + (Base - 1) = sq - 1
  BY <1>0
<1>2. sq >= 2 * Base
  BY <1>0
<1>3. ASSUME IsLast(c)
      PROVE  number = EndMarker
  BY <1>1, <1>3 DEF ParseChunkNumber, Header, EndMarker
<1>4. ASSUME ~IsLast(c)
      PROVE  number # EndMarker /\ (number = 0 <=> c.index = 0)
  <2>1. c.index \in Nat /\ c.index + 1 < c.msg.n /\ c.msg.n <= MaxChunks /\ c.msg.n \in Nat
    BY <1>4, ChunkFields DEF IsLast
  <2> HIDE DEF sq
  <2>2. c.index \in 0..(sq - 1) /\ c.index # sq - 1
    BY <1>0, <2>1
  <2> USE DEF sq
  <2>3. /\ c.index \div Base \in 0..(Base - 1)
        /\ ((c.index \div Base) * Base) + (c.index % Base) = c.index
        /\ c.index % Base \in 0..(Base - 1)
    BY <1>0, <2>2, DivMod
  <2>4. (c.index \div Base) % Base = c.index \div Base
    BY <1>0, <2>3, SmallMod
  <2>5. Header(c.index, IsLast(c)) = [lo |-> c.index % Base, hi |-> c.index \div Base]
    BY <1>4, <2>4 DEF Header
  <2>6. CASE CharSigned /\ c.index % Base >= Base \div 2
    <3>1. MaxChunks <= Base
      BY <2>6 DEF NumbersReadable
    <3>2. c.index < Base - 1
      BY <1>0, <2>1, <3>1
    <3>3. c.index \in 0..(Base - 1) /\ Base \in Nat \ {0}
      BY <1>0, <2>1, <3>2
    <3>4. c.index % Base = c.index
      BY <3>3, SmallMod
    <3>5. number = (Base - 1) * Base + c.index
      BY <2>5, <2>6, <3>4 DEF ParseChunkNumber
    <3>6. c.index # 0
      <4>1. Base \div 2 >= 1
        BY <1>0
      <4> QED BY <2>6, <3>4, <4>1
    <3>7. (Base - 1) * Base \in Nat
      BY <1>0
    <3> QED BY <1>0, <1>1, <2>1, <3>2, <3>5, <3>6, <3>7 DEF EndMarker
  <2>7. CASE ~(CharSigned /\ c.index % Base >= Base \div 2)
    <3>1. number = c.index
      BY <2>3, <2>5, <2>7 DEF ParseChunkNumber
    <3> QED BY <2>2, <3>1 DEF EndMarker
  <2> QED BY <2>6, <2>7
<1>5. EndMarker # 0
  BY <1>0, <1>2 DEF EndMarker
<1> QED BY <1>3, <1>4, <1>5

-----------------------------------------------------------------------------
(* The order of what is under way.                                         *)

\* A process has a buffer to itself: the Unix client keeps the chunks of each
\* sender apart, the UDP client hears of one sender only, the communicator.
BuffersApart == PerSource = TRUE \/ \A s, r \in Sources : s = r

LEMMA SlotIsSlot ==
  /\ \A s \in Sources : Slot(s) \in Slots
  /\ BuffersApart => \A s, r \in Sources : Slot(s) = Slot(r) => s = r
BY DEF Slot, Slots, BuffersApart

\* Sent earlier by the same process: in an earlier message, or as an earlier
\* chunk of the same.
Before(c, d) ==
  /\ c.msg.src = d.msg.src
  /\ c.msg.no < d.msg.no \/ (c.msg = d.msg /\ c.index < d.index)

Ascending(q) == \A i, j \in 1..Len(q) : i < j => Before(q[i], q[j])

\* The chunk a thread sends next.
Upcoming(t) == [msg |-> sending[t].msg, index |-> sending[t].next - 1]

\* A chunk of s that was sent is behind all that s will send.
Passed(s, c) ==
  /\ c.msg.src = s
  /\ c.msg.no <= count[s]
  /\ \A t \in Threads : SourceOf[t] = s /\ sending[t] # Idle => Before(c, Upcoming(t))

Typing ==
  /\ sending \in [Threads -> {Idle} \cup [next : 1..MaxChunks, msg : Messages]]
  /\ \A t \in Threads : sending[t] # Idle => sending[t].next <= sending[t].msg.n
  /\ count \in [Sources -> 0..MaxMessages]
  /\ net \in [Sources -> Seq(Datagrams)]
  /\ stored \in [Slots -> Seq(GoodChunks)]
  /\ delivered \in Seq(Seq(GoodChunks))

\* One thread of a process is in sendMSG, with the message counted last.
Locked ==
  /\ \A t, u \in Threads :
       SourceOf[t] = SourceOf[u] /\ sending[t] # Idle /\ sending[u] # Idle => t = u
  /\ \A t \in Threads : sending[t] # Idle =>
       sending[t].msg.src = SourceOf[t] /\ sending[t].msg.no = count[SourceOf[t]]

InTransit ==
  \A s \in Sources :
    /\ \A i \in 1..Len(net[s]) : Passed(s, net[s][i].chunk)
    /\ \A i, j \in 1..Len(net[s]) : i < j => Before(net[s][i].chunk, net[s][j].chunk)

\* What is put together: no last chunk, and a first chunk only in front.
Partial(q) == \A i \in 1..Len(q) : ~IsLast(q[i]) /\ (q[i].index = 0 => i = 1)

Assembled ==
  \A s \in Sources :
    /\ \A i \in 1..Len(stored[Slot(s)]) : Passed(s, stored[Slot(s)][i])
    /\ \A i \in 1..Len(stored[Slot(s)]), j \in 1..Len(net[s]) : Before(stored[Slot(s)][i], net[s][j].chunk)
    /\ Ascending(stored[Slot(s)])
    /\ Partial(stored[Slot(s)])

\* A payload: what was put together and a last chunk.
Complete(p) ==
  /\ Len(p) >= 1
  /\ IsLast(p[Len(p)])
  /\ Ascending(p)
  /\ \A i \in 1..Len(p) : i < Len(p) /\ p[i].index = 0 => i = 1

HandedOver == \A k \in 1..Len(delivered) : Complete(delivered[k])

IInv == Typing /\ Locked /\ InTransit /\ Assembled /\ HandedOver

LEMMA InitInvariant == Init => IInv
<1> SUFFICES ASSUME Init PROVE IInv
  OBVIOUS
<1>1. \A s \in Sources : Slot(s) \in Slots
  BY SlotIsSlot
<1>2. Typing
  BY DEF Init, Typing
<1>3. \A s \in Sources : net[s] = <<>> /\ stored[Slot(s)] = <<>>
  BY <1>1 DEF Init
<1>4. Locked /\ HandedOver
  BY DEF Init, Locked, HandedOver
<1>5. InTransit /\ Assembled
  BY <1>3 DEF InTransit, Assembled, Ascending, Partial
<1> QED BY <1>2, <1>4, <1>5 DEF IInv

-----------------------------------------------------------------------------
(* What passed stays behind.                                               *)

\* A chunk that is behind stays behind when a message begins, ...
LEMMA PassedBegin ==
  ASSUME Typing, Locked, NEW t \in Threads, BeginMessage(t),
         NEW s \in Sources, NEW c \in GoodChunks, Passed(s, c)
  PROVE  Passed(s, c)'
<1>1. /\ sending[t] = Idle /\ LockFree(SourceOf[t]) /\ SourceOf[t] \in Sources
      /\ count' = [count EXCEPT ![SourceOf[t]] = @ + 1]
  BY DEF BeginMessage
<1>2. PICK n \in 1..MaxChunks : sending' = [sending EXCEPT ![t] =
        [next |-> 1, msg |-> [src |-> SourceOf[t], no |-> count[SourceOf[t]] + 1, n |-> n]]]
  BY DEF BeginMessage
<1>3. count[s] \in Nat /\ c.msg.no \in Nat
  BY ChunkFields DEF Typing
<1>4. c.msg.src = s /\ c.msg.no <= count'[s]
  BY <1>1, <1>3 DEF Passed, Typing
<1>5. ASSUME NEW u \in Threads, SourceOf[u] = s, sending'[u] # Idle
      PROVE  Before(c, Upcoming(u))'
  <2>1. CASE u = t
    <3>1. sending'[u].msg.no = count[s] + 1 /\ sending'[u].msg.src = s
      BY <1>2, <1>5, <2>1 DEF Typing
    <3> QED BY <3>1, <1>3 DEF Before, Upcoming, Passed
  <2>2. CASE u # t
    <3>1. sending'[u] = sending[u]
      BY <1>2, <2>2 DEF Typing
    <3> QED BY <1>5, <3>1 DEF Passed, Before, Upcoming
  <2> QED BY <2>1, <2>2
<1> QED BY <1>4, <1>5 DEF Passed

\* ... and when a chunk is sent, which is then behind too.
LEMMA PassedSend ==
  ASSUME Typing, Locked, NEW t \in Threads, SendChunk(t),
         NEW s \in Sources, NEW c \in GoodChunks,
         Passed(s, c) \/ (SourceOf[t] = s /\ c = Upcoming(t))
  PROVE  Passed(s, c)'
<1>1. /\ sending[t] # Idle /\ UNCHANGED count
      /\ sending' = [sending EXCEPT ![t] =
            IF IsLast(Upcoming(t)) THEN Idle ELSE [sending[t] EXCEPT !.next = @ + 1]]
  BY DEF SendChunk, Upcoming
<1>2. /\ sending[t] \in [next : 1..MaxChunks, msg : Messages]
      /\ sending[t].msg.src = SourceOf[t] /\ sending[t].msg.no = count[SourceOf[t]]
  BY <1>1 DEF Typing, Locked
<1>3. c.msg.src = s /\ c.msg.no <= count'[s]
  <2>1. CASE Passed(s, c)
    BY <1>1, <2>1 DEF Passed
  <2>2. CASE SourceOf[t] = s /\ c = Upcoming(t)
    BY <1>1, <1>2, <2>2 DEF Upcoming, Typing
  <2> QED BY <2>1, <2>2
<1>4. ASSUME NEW u \in Threads, SourceOf[u] = s, sending'[u] # Idle
      PROVE  Before(c, Upcoming(u))'
  <2>1. CASE u = t
    <3>0. sending'[t] = [sending[t] EXCEPT !.next = @ + 1]
      <4>1. sending'[t] = IF IsLast(Upcoming(t)) THEN Idle ELSE [sending[t] EXCEPT !.next = @ + 1]
        BY <1>1 DEF Typing
      <4> QED BY <1>4, <2>1, <4>1
    <3>1. sending'[t].msg = sending[t].msg /\ sending'[t].next = sending[t].next + 1
      BY <1>2, <3>0
    <3>2. Before(c, Upcoming(t)) \/ c = Upcoming(t)
      BY <1>1, <1>4, <2>1 DEF Passed
    <3>3. c.index \in Nat /\ sending[t].next \in Nat
      BY <1>2, ChunkFields
    <3> QED BY <1>2, <1>3, <1>4, <2>1, <3>1, <3>2, <3>3 DEF Before, Upcoming
  <2>2. CASE u # t
    <3>1. sending'[u] = sending[u]
      BY <1>1, <2>2 DEF Typing
    <3>2. SourceOf[t] # s
      BY <1>1, <1>4, <2>2, <3>1 DEF Locked
    <3> QED BY <1>4, <3>1, <3>2 DEF Passed, Before, Upcoming
  <2> QED BY <2>1, <2>2
<1> QED BY <1>3, <1>4 DEF Passed

LEMMA PassedRest ==
  ASSUME Typing, UNCHANGED count,
         \A t \in Threads : sending'[t] = sending[t] \/ sending'[t] = Idle,
         NEW s \in Sources, NEW c, Passed(s, c)
  PROVE  Passed(s, c)'
BY DEF Passed, Before, Upcoming

-----------------------------------------------------------------------------
(* The steps.                                                              *)

LEMMA ChunkOf ==
  ASSUME NEW d \in Datagrams
  PROVE  d.chunk \in GoodChunks /\ d.header = Header(d.chunk.index, IsLast(d.chunk))
<1>1. PICK c \in GoodChunks : d = [header |-> Header(c.index, IsLast(c)), chunk |-> c]
  BY DEF Datagrams
<1> QED BY <1>1

LEMMA Elements ==
  ASSUME Typing, NEW s \in Sources
  PROVE  /\ \A i \in 1..Len(net[s]) : net[s][i] \in Datagrams /\ net[s][i].chunk \in GoodChunks
         /\ \A i \in 1..Len(stored[Slot(s)]) : stored[Slot(s)][i] \in GoodChunks
         /\ net[s] \in Seq(Datagrams) /\ stored[Slot(s)] \in Seq(GoodChunks)
BY ChunkOf, SlotIsSlot DEF Typing

LEMMA BeginKeeps ==
  ASSUME IInv, NEW t \in Threads, BeginMessage(t)
  PROVE  IInv'
<1>0. Typing /\ Locked /\ InTransit /\ Assembled /\ HandedOver
  BY DEF IInv
<1>1. /\ sending[t] = Idle /\ LockFree(SourceOf[t]) /\ SourceOf[t] \in Sources
      /\ count[SourceOf[t]] < MaxMessages
      /\ count' = [count EXCEPT ![SourceOf[t]] = @ + 1]
      /\ UNCHANGED <<net, stored, delivered>>
  BY DEF BeginMessage
<1>2. PICK n \in 1..MaxChunks : sending' = [sending EXCEPT ![t] =
        [next |-> 1, msg |-> [src |-> SourceOf[t], no |-> count[SourceOf[t]] + 1, n |-> n]]]
  BY DEF BeginMessage
<1>3. count[SourceOf[t]] \in Nat /\ count[SourceOf[t]] + 1 \in 1..MaxMessages
  BY <1>0, <1>1 DEF Typing
<1>4. Typing'
  <2>1. [next |-> 1, msg |-> [src |-> SourceOf[t], no |-> count[SourceOf[t]] + 1, n |-> n]]
          \in [next : 1..MaxChunks, msg : Messages]
    BY <1>1, <1>3 DEF Messages
  <2>2. sending' \in [Threads -> {Idle} \cup [next : 1..MaxChunks, msg : Messages]]
    BY <1>0, <1>2, <2>1 DEF Typing
  <2>3. \A u \in Threads : sending'[u] # Idle => sending'[u].next <= sending'[u].msg.n
    BY <1>0, <1>2 DEF Typing
  <2>4. count' \in [Sources -> 0..MaxMessages]
    BY <1>0, <1>1, <1>3 DEF Typing
  <2> QED BY <1>0, <1>1, <2>2, <2>3, <2>4 DEF Typing
<1>5. Locked'
  BY <1>0, <1>1, <1>2 DEF Typing, Locked, LockFree
<1>6. InTransit' /\ Assembled'
  <2>1. \A s \in Sources :
          /\ \A i \in 1..Len(net[s]) : Passed(s, net[s][i].chunk)'
          /\ \A i \in 1..Len(stored[Slot(s)]) : Passed(s, stored[Slot(s)][i])'
    BY <1>0, <1>1, PassedBegin, Elements DEF InTransit, Assembled
  <2> QED BY <1>0, <1>1, <2>1 DEF InTransit, Assembled, Ascending, Partial, Before, IsLast
<1> QED BY <1>0, <1>1, <1>4, <1>5, <1>6 DEF IInv, HandedOver, Complete, Ascending, Before, IsLast

LEMMA SendKeeps ==
  ASSUME IInv, NEW t \in Threads, SendChunk(t)
  PROVE  IInv'
<1>0. Typing /\ Locked /\ InTransit /\ Assembled /\ HandedOver
  BY DEF IInv
<1> DEFINE s == SourceOf[t]
<1>c. PICK c : c = Upcoming(t)
  OBVIOUS
<1>d. PICK d : d = [header |-> Header(c.index, IsLast(c)), chunk |-> c]
  OBVIOUS
<1>1. /\ sending[t] # Idle /\ s \in Sources
      /\ sending[t] \in [next : 1..MaxChunks, msg : Messages]
      /\ sending[t].msg.src = s /\ sending[t].next <= sending[t].msg.n
      /\ UNCHANGED <<count, stored, delivered>>
  BY <1>0 DEF Typing, Locked, SendChunk
<1>2. /\ sending' = [sending EXCEPT ![t] =
            IF IsLast(c) THEN Idle ELSE [sending[t] EXCEPT !.next = @ + 1]]
      /\ net' = [net EXCEPT ![s] = Append(@, d)]
  BY <1>1, <1>c, <1>d DEF SendChunk, Upcoming
<1>3. c \in GoodChunks /\ d \in Datagrams /\ c.msg = sending[t].msg /\ c.index = sending[t].next - 1
  <2>1. c \in GoodChunks /\ c.msg = sending[t].msg /\ c.index = sending[t].next - 1
    BY <1>1, <1>c DEF Upcoming, GoodChunks, Chunks, Messages
  <2> QED BY <1>d, <2>1 DEF Datagrams
<1>4. Typing'
  <2>1. ASSUME ~IsLast(c)
        PROVE  /\ [sending[t] EXCEPT !.next = @ + 1] \in [next : 1..MaxChunks, msg : Messages]
               /\ sending[t].next + 1 <= sending[t].msg.n
    BY <1>1, <1>3, <2>1 DEF IsLast, Messages
  <2>5. \/ sending' = [sending EXCEPT ![t] = Idle]
        \/ ~IsLast(c) /\ sending' = [sending EXCEPT ![t] = [sending[t] EXCEPT !.next = @ + 1]]
    <3>1. CASE IsLast(c)
      BY <1>2, <3>1
    <3>2. CASE ~IsLast(c)
      BY <1>2, <3>2
    <3> QED BY <3>1, <3>2
  <2>2. sending' \in [Threads -> {Idle} \cup [next : 1..MaxChunks, msg : Messages]]
    <3>1. CASE sending' = [sending EXCEPT ![t] = Idle]
      BY <1>0, <3>1 DEF Typing
    <3>2. CASE ~IsLast(c) /\ sending' = [sending EXCEPT ![t] = [sending[t] EXCEPT !.next = @ + 1]]
      BY <1>0, <2>1, <3>2 DEF Typing
    <3> QED BY <2>5, <3>1, <3>2
  <2>3. \A u \in Threads : sending'[u] # Idle => sending'[u].next <= sending'[u].msg.n
    <3>1. CASE sending' = [sending EXCEPT ![t] = Idle]
      BY <1>0, <3>1 DEF Typing
    <3>2. CASE ~IsLast(c) /\ sending' = [sending EXCEPT ![t] = [sending[t] EXCEPT !.next = @ + 1]]
      <4>1. /\ sending'[t].next = sending[t].next + 1 /\ sending'[t].msg = sending[t].msg
            /\ \A u \in Threads : u # t => sending'[u] = sending[u]
        BY <1>0, <1>1, <3>2 DEF Typing
      <4> QED BY <1>0, <2>1, <3>2, <4>1 DEF Typing
    <3> QED BY <2>5, <3>1, <3>2
  <2>4. net' \in [Sources -> Seq(Datagrams)]
    <3>1. Append(net[s], d) \in Seq(Datagrams)
      BY <1>0, <1>1, <1>3, AppendFacts DEF Typing
    <3> QED BY <1>0, <1>2, <3>1 DEF Typing
  <2> QED BY <1>0, <1>1, <2>2, <2>3, <2>4 DEF Typing
<1>5. Locked'
  <2>1. \A u \in Threads : u # t => sending'[u] = sending[u]
    BY <1>0, <1>2 DEF Typing
  <2>2. sending'[t] # Idle => sending'[t].msg = sending[t].msg
    <3>1. sending'[t] = IF IsLast(c) THEN Idle ELSE [sending[t] EXCEPT !.next = @ + 1]
      BY <1>0, <1>2 DEF Typing
    <3> QED BY <1>1, <3>1
  <2> QED BY <1>0, <1>1, <2>1, <2>2 DEF Locked
<1>6. ASSUME NEW q \in Sources, NEW e \in GoodChunks, Passed(q, e) PROVE Passed(q, e)'
  BY <1>0, <1>6, PassedSend
<1>7. Passed(s, c)'
  BY <1>0, <1>1, <1>3, <1>c, PassedSend
<1>8. ASSUME NEW q \in Sources, q # s PROVE net'[q] = net[q]
  BY <1>0, <1>2, <1>8 DEF Typing
<1>9. /\ net'[s] = Append(net[s], d) /\ net[s] \in Seq(Datagrams)
      /\ Len(net'[s]) = Len(net[s]) + 1 /\ Len(net[s]) \in Nat
      /\ \A i \in 1..Len(net[s]) : net'[s][i] = net[s][i]
      /\ net'[s][Len(net[s]) + 1] = d /\ d.chunk = c
  BY <1>0, <1>1, <1>2, <1>3, <1>d, AppendFacts DEF Typing
<1>10. ASSUME NEW e, Passed(s, e) PROVE Before(e, c)
  BY <1>1, <1>c, <1>10 DEF Passed
<1>11. InTransit'
  <2> SUFFICES ASSUME NEW q \in Sources
               PROVE  /\ \A i \in 1..Len(net'[q]) : Passed(q, net[q][i].chunk)'
                      /\ \A i, j \in 1..Len(net'[q]) :
                           i < j => Before(net'[q][i].chunk, net'[q][j].chunk)
    BY DEF InTransit, Before
  <2>1. CASE q # s
    BY <1>0, <1>6, <1>8, <2>1, Elements DEF InTransit
  <2>2. CASE q = s
    <3>1. \A i \in 1..Len(net'[s]) : i \in 1..Len(net[s]) \/ i = Len(net[s]) + 1
      BY <1>9
    <3>2. \A i \in 1..Len(net'[s]) : Passed(s, net[s][i].chunk)'
      BY <1>0, <1>1, <1>6, <1>7, <1>9, <3>1, Elements DEF InTransit
    <3>3. ASSUME NEW i \in 1..Len(net'[s]), NEW j \in 1..Len(net'[s]), i < j
          PROVE  Before(net'[s][i].chunk, net'[s][j].chunk)
      <4>1. i \in 1..Len(net[s]) /\ net'[s][i] = net[s][i]
        BY <1>9, <3>3
      <4>2. CASE j \in 1..Len(net[s])
        BY <1>0, <1>1, <1>9, <3>3, <4>1, <4>2 DEF InTransit
      <4>3. CASE j = Len(net[s]) + 1
        BY <1>0, <1>1, <1>9, <1>10, <4>1, <4>3 DEF InTransit
      <4> QED BY <3>1, <4>2, <4>3
    <3> QED BY <2>2, <3>2, <3>3
  <2> QED BY <2>1, <2>2
<1>12. Assembled'
  <2> SUFFICES ASSUME NEW q \in Sources
               PROVE  /\ \A i \in 1..Len(stored[Slot(q)]) : Passed(q, stored[Slot(q)][i])'
                      /\ \A i \in 1..Len(stored[Slot(q)]), j \in 1..Len(net'[q]) :
                           Before(stored[Slot(q)][i], net'[q][j].chunk)
    BY <1>0, <1>1 DEF Assembled, Before, Ascending, Partial, IsLast
  <2>1. \A i \in 1..Len(stored[Slot(q)]) : Passed(q, stored[Slot(q)][i])'
    <3>1. \A i \in 1..Len(stored[Slot(q)]) : stored[Slot(q)][i] \in GoodChunks /\ Passed(q, stored[Slot(q)][i])
      BY <1>0, Elements DEF Assembled
    <3> QED BY <1>1, <1>6, <3>1
  <2>2. ASSUME NEW i \in 1..Len(stored[Slot(q)]), NEW j \in 1..Len(net'[q])
        PROVE  Before(stored[Slot(q)][i], net'[q][j].chunk)
    <3>1. CASE q # s
      BY <1>0, <1>8, <3>1 DEF Assembled
    <3>2. CASE q = s /\ j \in 1..Len(net[s])
      BY <1>0, <1>9, <3>2 DEF Assembled
    <3>3. CASE q = s /\ j = Len(net[s]) + 1
      BY <1>0, <1>9, <1>10, <3>3 DEF Assembled
    <3> QED BY <1>9, <3>1, <3>2, <3>3
  <2> QED BY <2>1, <2>2
<1>13. HandedOver'
  BY <1>0, <1>1 DEF HandedOver, Complete, Ascending, Before, IsLast
<1> QED BY <1>4, <1>5, <1>11, <1>12, <1>13 DEF IInv

LEMMA AbortKeeps ==
  ASSUME IInv, NEW t \in Threads, AbortMessage(t)
  PROVE  IInv'
<1>0. Typing /\ Locked /\ InTransit /\ Assembled /\ HandedOver
  BY DEF IInv
<1>1. /\ sending' = [sending EXCEPT ![t] = Idle]
      /\ UNCHANGED <<count, net, stored, delivered>>
  BY DEF AbortMessage
<1>2. \A u \in Threads : sending'[u] = sending[u] \/ sending'[u] = Idle
  BY <1>0, <1>1 DEF Typing
<1>3. Typing' /\ Locked'
  BY <1>0, <1>1 DEF Typing, Locked
<1>4. InTransit' /\ Assembled'
  BY <1>0, <1>1, <1>2, PassedRest
  DEF InTransit, Assembled, Ascending, Partial, Before, IsLast
<1> QED BY <1>0, <1>1, <1>3, <1>4 DEF IInv, HandedOver, Complete, Ascending, Before, IsLast

\* A datagram leaves the front of what is under way.
LEMMA DropKeeps ==
  ASSUME IInv, NEW s \in Sources, net[s] # <<>>,
         net' = [net EXCEPT ![s] = Tail(@)], UNCHANGED <<sending, count>>
  PROVE  /\ net' \in [Sources -> Seq(Datagrams)] /\ InTransit' /\ Locked'
         /\ \A q \in Sources : \A j \in 1..Len(net'[q]) : \E k \in 1..Len(net[q]) :
              net'[q][j] = net[q][k] /\ (q = s => k = j + 1)
<1>0. Typing /\ Locked /\ InTransit
  BY DEF IInv
<1>1. net[s] \in Seq(Datagrams) /\ net'[s] = Tail(net[s])
      /\ \A q \in Sources : q # s => net'[q] = net[q]
  BY <1>0 DEF Typing
<1>2. /\ Tail(net[s]) \in Seq(Datagrams)
      /\ Len(net'[s]) = Len(net[s]) - 1 /\ Len(net[s]) \in Nat
      /\ \A i \in 1..Len(net'[s]) : i + 1 \in 1..Len(net[s]) /\ net'[s][i] = net[s][i + 1]
  <2> DEFINE q == net[s]
  <2>1. /\ Tail(q) \in Seq(Datagrams)
        /\ Len(Tail(q)) = Len(q) - 1 /\ Len(q) \in Nat
        /\ \A i \in 1..Len(Tail(q)) : i + 1 \in 1..Len(q) /\ Tail(q)[i] = q[i + 1]
    BY <1>1, TailFacts
  <2> QED BY <1>1, <2>1
<1>3. net' \in [Sources -> Seq(Datagrams)]
  BY <1>0, <1>2 DEF Typing
<1>4. \A q \in Sources : \A j \in 1..Len(net'[q]) : \E k \in 1..Len(net[q]) :
        net'[q][j] = net[q][k] /\ (q = s => k = j + 1)
  <2> SUFFICES ASSUME NEW q \in Sources, NEW j \in 1..Len(net'[q])
               PROVE  \E k \in 1..Len(net[q]) : net'[q][j] = net[q][k] /\ (q = s => k = j + 1)
    OBVIOUS
  <2>1. CASE q = s
    BY <1>2, <2>1
  <2>2. CASE q # s
    BY <1>1, <2>2
  <2> QED BY <2>1, <2>2
<1>5. Locked'
  BY <1>0 DEF Locked
<1>6. ASSUME NEW q \in Sources, NEW e, Passed(q, e) PROVE Passed(q, e)'
  BY <1>6 DEF Passed, Before, Upcoming
<1>7. InTransit'
  <2> SUFFICES ASSUME NEW q \in Sources
               PROVE  /\ \A i \in 1..Len(net'[q]) : Passed(q, net[q][i].chunk)'
                      /\ \A i, j \in 1..Len(net'[q]) :
                           i < j => Before(net'[q][i].chunk, net'[q][j].chunk)
    BY DEF InTransit, Before
  <2>1. CASE q = s
    BY <1>0, <1>2, <1>6, <2>1 DEF InTransit
  <2>2. CASE q # s
    BY <1>0, <1>1, <1>6, <2>2 DEF InTransit
  <2> QED BY <2>1, <2>2
<1> QED BY <1>3, <1>4, <1>5, <1>7

LEMMA LoseKeeps ==
  ASSUME IInv, NEW s \in Sources, LoseDatagram(s)
  PROVE  IInv'
<1>0. Typing /\ Locked /\ InTransit /\ Assembled /\ HandedOver
  BY DEF IInv
<1>1. net[s] # <<>> /\ net' = [net EXCEPT ![s] = Tail(@)]
      /\ UNCHANGED <<sending, count, stored, delivered>>
  BY DEF LoseDatagram
<1>2. /\ net' \in [Sources -> Seq(Datagrams)] /\ InTransit' /\ Locked'
      /\ \A q \in Sources : \A j \in 1..Len(net'[q]) : \E k \in 1..Len(net[q]) :
           net'[q][j] = net[q][k]
  <2>1. /\ net' \in [Sources -> Seq(Datagrams)] /\ InTransit' /\ Locked'
        /\ \A q \in Sources : \A j \in 1..Len(net'[q]) : \E k \in 1..Len(net[q]) :
             net'[q][j] = net[q][k] /\ (q = s => k = j + 1)
    BY <1>1, DropKeeps
  <2> QED BY <2>1
<1>u. stored' = stored /\ delivered' = delivered
  BY <1>1
<1>3. Typing'
  BY <1>0, <1>1, <1>2 DEF Typing
<1>4. ASSUME NEW q \in Sources, NEW e, Passed(q, e) PROVE Passed(q, e)'
  BY <1>1, <1>4 DEF Passed, Before, Upcoming
<1>5. Assembled'
  <2> SUFFICES ASSUME NEW q \in Sources
               PROVE  /\ \A i \in 1..Len(stored[Slot(q)]) : Passed(q, stored[Slot(q)][i])'
                      /\ \A i \in 1..Len(stored[Slot(q)]), j \in 1..Len(net'[q]) :
                           Before(stored[Slot(q)][i], net'[q][j].chunk)
    BY <1>0, <1>u DEF Assembled, Before, Ascending, Partial, IsLast
  <2>1. \A i \in 1..Len(stored[Slot(q)]) : Passed(q, stored[Slot(q)][i])'
    BY <1>0, <1>u, <1>4 DEF Assembled
  <2>2. ASSUME NEW i \in 1..Len(stored[Slot(q)]), NEW j \in 1..Len(net'[q])
        PROVE  Before(stored[Slot(q)][i], net'[q][j].chunk)
    <3>1. PICK k \in 1..Len(net[q]) : net'[q][j] = net[q][k]
      BY <1>2
    <3> QED BY <1>0, <3>1 DEF Assembled
  <2> QED BY <2>1, <2>2
<1>6. HandedOver'
  <2>1. HandedOver
    BY <1>0
  <2> QED BY <1>u, <2>1 DEF HandedOver, Complete, Ascending, Before, IsLast
<1> QED BY <1>2, <1>3, <1>5, <1>6 DEF IInv

LEMMA ReceiveKeeps ==
  ASSUME IInv, BuffersApart, NumbersReadable, NEW s \in Sources, ReceiveDatagram(s)
  PROVE  IInv'
<1>0. Typing /\ Locked /\ InTransit /\ Assembled /\ HandedOver
  BY DEF IInv
<1>1. /\ net[s] # <<>> /\ net' = [net EXCEPT ![s] = Tail(@)]
      /\ UNCHANGED <<sending, count>> /\ Slot(s) \in Slots
  BY SlotIsSlot DEF ReceiveDatagram
<1>2. /\ net' \in [Sources -> Seq(Datagrams)] /\ InTransit' /\ Locked'
      /\ \A q \in Sources : \A j \in 1..Len(net'[q]) : \E k \in 1..Len(net[q]) :
           net'[q][j] = net[q][k] /\ (q = s => k = j + 1)
  BY <1>1, DropKeeps
<1>h. PICK c : c = Head(net[s]).chunk
  OBVIOUS
<1>3. /\ Head(net[s]) = net[s][1] /\ Head(net[s]) \in Datagrams /\ 1 \in 1..Len(net[s])
      /\ c \in GoodChunks /\ Head(net[s]).header = Header(c.index, IsLast(c))
  BY <1>0, <1>1, <1>h, TailFacts, ChunkOf DEF Typing
<1>4. PICK number : number = ParseChunkNumber(Head(net[s]).header)
  OBVIOUS
<1>5. /\ number = EndMarker <=> IsLast(c)
      /\ ~IsLast(c) => (number = 0 <=> c.index = 0)
      /\ EndMarker # 0
  BY <1>3, <1>4, NumberOfHeader
<1>k. PICK kept : kept = Kept(s, number)
  OBVIOUS
<1>6. PICK q : q = Append(kept, c)
  OBVIOUS
<1>7. \/ /\ IsLast(c) /\ delivered' = Append(delivered, q)
         /\ stored' = [stored EXCEPT ![Slot(s)] = <<>>]
      \/ /\ ~IsLast(c) /\ UNCHANGED delivered
         /\ stored' = [stored EXCEPT ![Slot(s)] = q]
  BY <1>1, <1>4, <1>5, <1>6, <1>h, <1>k DEF ReceiveDatagram
<1>8. /\ kept = <<>> \/ (kept = stored[Slot(s)] /\ (~IsLast(c) => c.index # 0))
      /\ kept \in Seq(GoodChunks)
  BY <1>0, <1>1, <1>5, <1>k DEF Kept, Typing
<1>9. /\ q \in Seq(GoodChunks) /\ Len(q) = Len(kept) + 1 /\ Len(kept) \in Nat
      /\ \A i \in 1..Len(kept) : q[i] = kept[i]
      /\ q[Len(kept) + 1] = c
  BY <1>3, <1>6, <1>8, AppendFacts
<1>10. ASSUME NEW r \in Sources, NEW e, Passed(r, e) PROVE Passed(r, e)'
  BY <1>1, <1>10 DEF Passed, Before, Upcoming
<1>11. \A i \in 1..Len(kept) : /\ i \in 1..Len(stored[Slot(s)]) /\ q[i] = stored[Slot(s)][i]
                              /\ Before(q[i], c)
  BY <1>0, <1>3, <1>8, <1>9, <1>h DEF Assembled
<1>12. \A i \in 1..Len(q) : i \in 1..Len(kept) \/ (i = Len(q) /\ q[i] = c)
  BY <1>9
<1>13. Ascending(q)
  <2> SUFFICES ASSUME NEW i \in 1..Len(q), NEW j \in 1..Len(q), i < j
               PROVE  Before(q[i], q[j])
    BY DEF Ascending
  <2>1. i \in 1..Len(kept)
    BY <1>9
  <2>2. CASE j \in 1..Len(kept)
    BY <1>0, <1>11, <2>1, <2>2 DEF Assembled, Ascending
  <2>3. CASE j = Len(q) /\ q[j] = c
    BY <1>11, <2>1, <2>3
  <2> QED BY <1>12, <2>2, <2>3
<1>14. Typing'
  <2>1. stored' \in [Slots -> Seq(GoodChunks)]
    <3>1. <<>> \in Seq(GoodChunks)
      OBVIOUS
    <3>2. stored' = [stored EXCEPT ![Slot(s)] = <<>>] \/ stored' = [stored EXCEPT ![Slot(s)] = q]
      BY <1>7
    <3> QED BY <1>0, <1>9, <3>1, <3>2 DEF Typing
  <2>2. delivered' \in Seq(Seq(GoodChunks))
    <3>1. delivered \in Seq(Seq(GoodChunks)) /\ q \in Seq(GoodChunks)
      BY <1>0, <1>9 DEF Typing
    <3>2. Append(delivered, q) \in Seq(Seq(GoodChunks))
      BY <3>1, AppendFacts
    <3>3. delivered' = delivered \/ delivered' = Append(delivered, q)
      BY <1>7
    <3> QED BY <3>1, <3>2, <3>3
  <2> QED BY <1>0, <1>1, <1>2, <2>1, <2>2 DEF Typing
<1>15. Assembled'
  <2> SUFFICES ASSUME NEW r \in Sources
               PROVE  /\ \A i \in 1..Len(stored'[Slot(r)]) : Passed(r, stored[Slot(r)][i])'
                      /\ \A i \in 1..Len(stored'[Slot(r)]), j \in 1..Len(net'[r]) :
                           Before(stored'[Slot(r)][i], net'[r][j].chunk)
                      /\ Ascending(stored'[Slot(r)]) /\ Partial(stored'[Slot(r)])
    BY DEF Assembled, Before, Ascending, Partial, IsLast
  <2>1. CASE r # s
    <3>1. stored'[Slot(r)] = stored[Slot(r)]
      BY <1>0, <1>7, <2>1, SlotIsSlot DEF Typing, BuffersApart
    <3>2. ASSUME NEW i \in 1..Len(stored[Slot(r)]), NEW j \in 1..Len(net'[r])
          PROVE  Before(stored[Slot(r)][i], net'[r][j].chunk)
      <4>1. PICK k \in 1..Len(net[r]) : net'[r][j] = net[r][k]
        BY <1>2
      <4> QED BY <1>0, <4>1 DEF Assembled
    <3>3. \A i \in 1..Len(stored[Slot(r)]) : Passed(r, stored[Slot(r)][i])
      BY <1>0 DEF Assembled
    <3>4. \A i \in 1..Len(stored'[Slot(r)]) : Passed(r, stored[Slot(r)][i])'
      BY <1>10, <3>1, <3>3
    <3> QED BY <1>0, <3>1, <3>2, <3>4 DEF Assembled
  <2>2. CASE r = s /\ IsLast(c)
    <3>1. stored'[Slot(s)] = <<>>
      BY <1>0, <1>1, <1>7, <2>2 DEF Typing
    <3> QED BY <2>2, <3>1 DEF Ascending, Partial
  <2>3. CASE r = s /\ ~IsLast(c)
    <3>1. stored'[Slot(s)] = q
      BY <1>0, <1>1, <1>7, <2>3 DEF Typing
    <3>2. \A i \in 1..Len(q) : Passed(s, q[i])
      BY <1>0, <1>3, <1>11, <1>12, <1>h DEF Assembled, InTransit
    <3>3. \A i \in 1..Len(stored'[Slot(s)]) : Passed(s, stored[Slot(s)][i])'
      BY <1>10, <3>1, <3>2
    <3>4. ASSUME NEW i \in 1..Len(q), NEW j \in 1..Len(net'[s])
          PROVE  Before(q[i], net'[s][j].chunk)
      <4>1. j \in Nat /\ j + 1 \in 1..Len(net[s]) /\ net'[s][j] = net[s][j + 1] /\ 1 < j + 1
        BY <1>2
      <4>2. CASE i \in 1..Len(kept)
        BY <1>0, <1>11, <4>1, <4>2 DEF Assembled
      <4>3. CASE q[i] = c
        BY <1>0, <1>3, <1>h, <4>1, <4>3 DEF InTransit
      <4> QED BY <1>12, <4>2, <4>3
    <3>5. Partial(q)
      <4>1. ASSUME NEW i \in 1..Len(q)
            PROVE  ~IsLast(q[i]) /\ (q[i].index = 0 => i = 1)
        <5>1. CASE i \in 1..Len(kept)
          BY <1>0, <1>11, <5>1 DEF Assembled, Partial
        <5>2. CASE i = Len(q) /\ q[i] = c
          BY <1>8, <1>9, <2>3, <5>2
        <5> QED BY <1>12, <5>1, <5>2
      <4> QED BY <4>1 DEF Partial
    <3> QED BY <1>13, <2>3, <3>1, <3>3, <3>4, <3>5
  <2> QED BY <2>1, <2>2, <2>3
<1>16. HandedOver'
  <2>1. ASSUME IsLast(c) PROVE Complete(q)
    <3>1. Len(q) >= 1 /\ IsLast(q[Len(q)])
      BY <1>9, <2>1
    <3>2. \A i \in 1..Len(q) : i < Len(q) /\ q[i].index = 0 => i = 1
      BY <1>0, <1>9, <1>11 DEF Assembled, Partial
    <3> QED BY <1>13, <3>1, <3>2 DEF Complete
  <2>2. ASSUME NEW k \in 1..Len(delivered')
        PROVE  Complete(delivered'[k])
    <3>1. CASE ~IsLast(c)
      BY <1>0, <1>7, <2>2, <3>1 DEF HandedOver
    <3>2. CASE IsLast(c)
      <4>1. /\ Len(delivered') = Len(delivered) + 1 /\ Len(delivered) \in Nat
            /\ \A i \in 1..Len(delivered) : delivered'[i] = delivered[i]
            /\ delivered'[Len(delivered) + 1] = q
        <5>1. delivered \in Seq(Seq(GoodChunks)) /\ q \in Seq(GoodChunks)
          BY <1>0, <1>9 DEF Typing
        <5>2. delivered' = Append(delivered, q)
          BY <1>7, <3>2
        <5> QED BY <5>1, <5>2, AppendFacts
      <4>2. CASE k \in 1..Len(delivered)
        BY <1>0, <4>1, <4>2 DEF HandedOver
      <4>3. CASE k = Len(delivered) + 1
        BY <2>1, <3>2, <4>1, <4>3
      <4> QED BY <2>2, <4>1, <4>2, <4>3
    <3> QED BY <3>1, <3>2
  <2> QED BY <2>2 DEF HandedOver, Complete, Ascending, Before, IsLast
<1> QED BY <1>2, <1>14, <1>15, <1>16 DEF IInv

LEMMA Invariance ==
  ASSUME BuffersApart, NumbersReadable
  PROVE  Spec => []IInv
<1>1. ASSUME IInv, [Next]_vars PROVE IInv'
  <2>1. CASE UNCHANGED vars
    <3>1. Typing'
      BY <1>1, <2>1 DEF vars, IInv, Typing
    <3>2. Locked'
      BY <1>1, <2>1 DEF vars, IInv, Locked
    <3>3. InTransit'
      BY <1>1, <2>1 DEF vars, IInv, InTransit, Passed, Upcoming
    <3>4. Assembled'
      BY <1>1, <2>1 DEF vars, IInv, Assembled, Passed, Upcoming
    <3>5. HandedOver'
      BY <1>1, <2>1 DEF vars, IInv, HandedOver
    <3> QED BY <3>1, <3>2, <3>3, <3>4, <3>5 DEF IInv
  <2> QED BY <1>1, <2>1, BeginKeeps, SendKeeps, AbortKeeps, LoseKeeps, ReceiveKeeps DEF Next
<1> QED BY <1>1, InitInvariant, PTL DEF Spec

-----------------------------------------------------------------------------
(* What is handed over.                                                    *)

LEMMA PayloadsComplete ==
  ASSUME IInv, NEW p \in Payloads
  PROVE  p \in Seq(GoodChunks) /\ Complete(p)
BY DEF IInv, Typing, HandedOver, Payloads

\* Every variable keeps its type.
THEOREM TypeCorrect ==
  ASSUME BuffersApart, NumbersReadable
  PROVE  Spec => []TypeOK
<1>1. IInv => TypeOK
  <2> SUFFICES ASSUME IInv PROVE TypeOK
    OBVIOUS
  <2>0. Typing
    BY DEF IInv
  <2>1. \A c \in GoodChunks : Header(c.index, IsLast(c)) \in [lo : 0..Base - 1, hi : 0..Base - 1]
    <3> SUFFICES ASSUME NEW c \in GoodChunks
                 PROVE  Header(c.index, IsLast(c)) \in [lo : 0..Base - 1, hi : 0..Base - 1]
      OBVIOUS
    <3>1. c.index \in Nat /\ Base \in Nat \ {0}
      BY ChunkFields
    <3>2. /\ c.index % Base \in 0..Base - 1 /\ c.index \div Base \in Nat
      BY <3>1
    <3>3. (c.index \div Base) % Base \in 0..Base - 1
      BY <3>1, <3>2
    <3> QED BY <3>1, <3>2, <3>3 DEF Header
  <2>2. \A s \in Sources : \A i \in 1..Len(net[s]) :
          /\ net[s][i].chunk \in Chunks
          /\ net[s][i].header \in [lo : 0..Base - 1, hi : 0..Base - 1]
    <3> SUFFICES ASSUME NEW s \in Sources, NEW i \in 1..Len(net[s])
                 PROVE  /\ net[s][i].chunk \in Chunks
                        /\ net[s][i].header \in [lo : 0..Base - 1, hi : 0..Base - 1]
      OBVIOUS
    <3>1. net[s][i] \in Datagrams
      BY <2>0, Elements
    <3>2. /\ net[s][i].chunk \in GoodChunks
          /\ net[s][i].header = Header(net[s][i].chunk.index, IsLast(net[s][i].chunk))
      BY <3>1, ChunkOf
    <3> QED BY <2>1, <3>2, ChunkFields
  <2>3. GoodChunks \subseteq Chunks
    BY DEF GoodChunks
  <2>4. /\ DOMAIN stored = Slots /\ \A k \in Slots : stored[k] \in Seq(Chunks)
    BY <2>0, <2>3 DEF Typing, Slots
  <2>5. delivered \in Seq(Seq(Chunks))
    <3>1. Seq(GoodChunks) \subseteq Seq(Chunks)
      BY <2>3
    <3> QED BY <2>0, <3>1 DEF Typing
  <2> QED BY <2>0, <2>2, <2>4, <2>5 DEF Typing, TypeOK
<1> QED BY <1>1, Invariance, PTL

\* A payload is a subsequence of what one process sent, in its order, and ends
\* with the last chunk of a message, whatever is lost and whichever threads and
\* processes send at once (sendMSG's lock, receivedChunksBySource).
THEOREM PayloadsAreOrdered ==
  ASSUME BuffersApart, NumbersReadable
  PROVE  Spec => []OrderedPayloads
<1>1. IInv => OrderedPayloads
  <2> SUFFICES ASSUME IInv, NEW p \in Payloads
               PROVE  /\ IsLast(Final(p))
                      /\ \A i \in 1..Len(p) - 1 :
                           p[i].msg.src = p[i + 1].msg.src /\ Precedes(p[i], p[i + 1])
    BY DEF OrderedPayloads
  <2>1. p \in Seq(GoodChunks) /\ Complete(p)
    BY PayloadsComplete
  <2>2. ASSUME NEW i \in 1..Len(p) - 1
        PROVE  p[i].msg.src = p[i + 1].msg.src /\ Precedes(p[i], p[i + 1])
    <3>1. i \in 1..Len(p) /\ i + 1 \in 1..Len(p) /\ i < i + 1
      BY <2>1
    <3>2. Before(p[i], p[i + 1])
      BY <2>1, <3>1 DEF Complete, Ascending
    <3> QED BY <3>2 DEF Before, Precedes
  <2> QED BY <2>1, <2>2 DEF Complete, Final
<1> QED BY <1>1, Invariance, PTL

\* A message whose first chunk arrived is delivered without anything of an
\* earlier one in front: chunk 0 clears what was stored.
THEOREM FirstChunkResyncs ==
  ASSUME BuffersApart, NumbersReadable
  PROVE  Spec => []ResyncOnFirstChunk
<1>1. IInv => ResyncOnFirstChunk
  <2> SUFFICES ASSUME IInv, NEW p \in Payloads, NEW i \in 1..Len(p),
                      p[i].index = 0, p[i].msg = Final(p).msg, p[i].msg.n > 1,
                      NEW j \in 1..Len(p)
               PROVE  p[j].msg = Final(p).msg
    BY DEF ResyncOnFirstChunk
  <2>1. p \in Seq(GoodChunks) /\ Complete(p) /\ Len(p) \in Nat
    BY PayloadsComplete
  <2>2. /\ p[1] \in GoodChunks /\ p[j] \in GoodChunks /\ p[Len(p)] \in GoodChunks
        /\ 1 \in 1..Len(p) /\ Len(p) \in 1..Len(p)
    BY <2>1 DEF Complete
  <2>3. i # Len(p)
    BY <2>1, <2>2, ChunkFields DEF Complete, IsLast, Final
  <2>4. i = 1
    BY <2>1, <2>3 DEF Complete
  <2>5. j = 1 \/ j = Len(p) \/ (Before(p[1], p[j]) /\ Before(p[j], p[Len(p)]))
    BY <2>1, <2>2 DEF Complete, Ascending
  <2>6. /\ p[1].msg.no \in Nat /\ p[j].msg.no \in Nat /\ p[Len(p)].msg.no \in Nat
        /\ p[1].msg = p[Len(p)].msg
    BY <2>2, <2>4, ChunkFields DEF Final
  <2> QED BY <2>4, <2>5, <2>6 DEF Before, Final
<1> QED BY <1>1, Invariance, PTL

-----------------------------------------------------------------------------
(* Ended is a recursive function: what it is at a sequence, at the         *)
(* sequence and one element more, and at its tail.                         *)

\* A set of numbers that is not empty has a least one, so what holds of 0 and
\* is passed on from n to n + 1 holds of every number.
LEMMA LeastNumber ==
  ASSUME NEW X \in SUBSET Nat, X # {}
  PROVE  \E n \in X : \A m \in X : n <= m
<1> DEFINE R == OpToRel(<, Nat)
<1>1. IsWellFoundedOn(R, Nat)
  BY NatLessThanWellFounded
<1> HIDE DEF R
<1>2. PICK n \in X : \A m \in X : ~(<<m, n>> \in R)
  BY <1>1, WFMin
<1>3. \A m \in X : ~(m < n)
  BY <1>2 DEF R, OpToRel
<1> QED BY <1>3

LEMMA Induction ==
  ASSUME NEW X, 0 \in X, \A n \in Nat : n \in X => n + 1 \in X
  PROVE  Nat \subseteq X
<1> DEFINE Y == Nat \ X
<1> SUFFICES ASSUME Y # {} PROVE FALSE
  OBVIOUS
<1>1. PICK n \in Y : \A m \in Y : n <= m
  BY LeastNumber
<1>2. n - 1 \in Nat /\ n - 1 \notin Y
  BY <1>1
<1> QED BY <1>1, <1>2

\* The function that Ended defines, one step and whole.
EndedStep(q, g, i) ==
  IF i = 0 THEN <<>>
  ELSE IF IsLast(q[i].chunk) THEN Append(g[i - 1], q[i].chunk.msg)
  ELSE g[i - 1]

EndedUpTo(q) == CHOOSE g : g = [i \in 0..Len(q) |-> EndedStep(q, g, i)]

LEMMA EndedFunction ==
  ASSUME NEW S, NEW q \in Seq(S)
  PROVE  /\ Ended(q) = EndedUpTo(q)[Len(q)]
         /\ EndedUpTo(q) = [i \in 0..Len(q) |-> EndedStep(q, EndedUpTo(q), i)]
<1>1. Ended(q) = EndedUpTo(q)[Len(q)]
  BY DEF Ended, EndedUpTo, EndedStep
<1> DEFINE X == {n \in Nat : \E g : g = [i \in 0..n |-> EndedStep(q, g, i)]}
<1>2. 0 \in X
  <2> DEFINE g == [i \in 0..0 |-> <<>>]
  <2>1. g = [i \in 0..0 |-> EndedStep(q, g, i)]
    BY DEF EndedStep
  <2> QED BY <2>1
<1>3. ASSUME NEW n \in Nat, n \in X PROVE n + 1 \in X
  <2>1. PICK g : g = [i \in 0..n |-> EndedStep(q, g, i)]
    BY <1>3
  <2> DEFINE h == [i \in 0..(n + 1) |-> IF i = n + 1 THEN EndedStep(q, g, i) ELSE g[i]]
  <2>2. ASSUME NEW i \in 0..(n + 1)
        PROVE  h[i] = EndedStep(q, h, i)
    <3>1. i # 0 => i - 1 \in 0..n /\ h[i - 1] = g[i - 1]
      OBVIOUS
    <3>2. EndedStep(q, h, i) = EndedStep(q, g, i)
      BY <3>1 DEF EndedStep
    <3>3. ASSUME i # n + 1 PROVE g[i] = EndedStep(q, g, i)
      <4>1. i \in 0..n
        BY <3>3
      <4> HIDE DEF h
      <4> QED BY <2>1, <4>1
    <3> QED BY <3>2, <3>3
  <2>3. h = [i \in 0..(n + 1) |-> EndedStep(q, h, i)]
    BY <2>2
  <2> HIDE DEF h
  <2> QED BY <2>3
<1> HIDE DEF X
<1>4. Len(q) \in X
  BY <1>2, <1>3, Induction
<1> USE DEF X
<1>5. \E g : g = [i \in 0..Len(q) |-> EndedStep(q, g, i)]
  BY <1>4
<1> QED BY <1>1, <1>5 DEF EndedUpTo

\* One datagram more.
LEMMA EndedAppend ==
  ASSUME NEW S, NEW q \in Seq(S), NEW e \in S
  PROVE  Ended(Append(q, e)) = IF IsLast(e.chunk) THEN Append(Ended(q), e.chunk.msg) ELSE Ended(q)
<1> DEFINE r == Append(q, e)
<1> DEFINE f == EndedUpTo(q)
<1> DEFINE g == EndedUpTo(r)
<1>1. /\ r \in Seq(S) /\ Len(r) = Len(q) + 1 /\ Len(q) \in Nat /\ r[Len(q) + 1] = e
      /\ \A i \in 1..Len(q) : r[i] = q[i]
  OBVIOUS
<1>2. /\ f = [i \in 0..Len(q) |-> EndedStep(q, f, i)] /\ Ended(q) = f[Len(q)]
      /\ g = [i \in 0..Len(r) |-> EndedStep(r, g, i)] /\ Ended(r) = g[Len(r)]
  BY <1>1, EndedFunction
<1> HIDE DEF r, f, g
<1> DEFINE X == {n \in Nat : n <= Len(q) => g[n] = f[n]}
<1>3. 0 \in X
  BY <1>1, <1>2 DEF EndedStep
<1>4. ASSUME NEW n \in Nat, n \in X PROVE n + 1 \in X
  <2> SUFFICES ASSUME n + 1 <= Len(q) PROVE g[n + 1] = f[n + 1]
    OBVIOUS
  <2>1. n + 1 \in 0..Len(q) /\ n + 1 \in 0..Len(r) /\ n + 1 \in 1..Len(q)
    BY <1>1
  <2>2. g[n] = f[n] /\ r[n + 1] = q[n + 1]
    BY <1>1, <1>4, <2>1
  <2>3. f[n + 1] = EndedStep(q, f, n + 1) /\ g[n + 1] = EndedStep(r, g, n + 1)
    BY <1>2, <2>1
  <2>4. n + 1 # 0 /\ (n + 1) - 1 = n
    OBVIOUS
  <2> QED BY <2>2, <2>3, <2>4 DEF EndedStep
<1> HIDE DEF X
<1>5. Len(q) \in X
  BY <1>1, <1>3, <1>4, Induction
<1> USE DEF X
<1>6. g[Len(q)] = f[Len(q)]
  BY <1>1, <1>5
<1>7. g[Len(r)] = EndedStep(r, g, Len(r))
  <2>1. Len(r) \in 0..Len(r)
    BY <1>1
  <2>2. \A i \in 0..Len(r) : g[i] = EndedStep(r, g, i)
    BY <1>2
  <2> QED BY <2>1, <2>2
<1>8. Len(r) # 0 /\ Len(r) - 1 = Len(q) /\ r[Len(r)] = e
  BY <1>1
<1>9. Ended(r) = IF IsLast(e.chunk) THEN Append(Ended(q), e.chunk.msg) ELSE Ended(q)
  BY <1>2, <1>6, <1>7, <1>8 DEF EndedStep
<1> QED BY <1>9 DEF r

LEMMA AppendToConcat ==
  ASSUME NEW M, NEW a \in Seq(M), NEW b \in Seq(M), NEW x \in M
  PROVE  Append(b, x) \in Seq(M) /\ a \o Append(b, x) = Append(a \o b, x)
OBVIOUS

LEMMA ConcatOne ==
  ASSUME NEW M, NEW b \in Seq(M), NEW x \in M
  PROVE  <<x>> \o b # <<>> /\ Head(<<x>> \o b) = x /\ Tail(<<x>> \o b) = b
OBVIOUS

\* The messages that end in q, one more than in its tail if its first ends one.
LEMMA EndedTail ==
  ASSUME NEW M, NEW S, \A e \in S : e.chunk.msg \in M,
         NEW q \in Seq(S), q # <<>>
  PROVE  /\ Ended(Tail(q)) \in Seq(M)
         /\ Ended(q) = IF IsLast(Head(q).chunk) THEN <<Head(q).chunk.msg>> \o Ended(Tail(q))
                       ELSE Ended(Tail(q))
<1>r. PICK r : r = Tail(q)
  OBVIOUS
<1>f. PICK f : f = EndedUpTo(q)
  OBVIOUS
<1>g. PICK g : g = EndedUpTo(r)
  OBVIOUS
<1>a. PICK front : front = IF IsLast(Head(q).chunk) THEN <<Head(q).chunk.msg>> ELSE <<>>
  OBVIOUS
<1>1. /\ r \in Seq(S) /\ Len(q) = Len(r) + 1 /\ Len(r) \in Nat
      /\ Head(q) = q[1] /\ q[1] \in S
      /\ \A i \in 1..Len(r) : r[i] = q[i + 1] /\ r[i] \in S
  BY <1>r, TailFacts
<1>2. /\ f = [i \in 0..Len(q) |-> EndedStep(q, f, i)] /\ Ended(q) = f[Len(q)]
      /\ g = [i \in 0..Len(r) |-> EndedStep(r, g, i)] /\ Ended(r) = g[Len(r)]
  BY <1>1, <1>f, <1>g, EndedFunction
<1>3. front \in Seq(M) /\ <<>> \in Seq(M)
  BY <1>1, <1>a
<1>4. /\ \A i \in 0..Len(q) : f[i] = EndedStep(q, f, i)
      /\ \A i \in 0..Len(r) : g[i] = EndedStep(r, g, i)
  BY <1>2
<1> DEFINE Same(n) == n <= Len(r) => g[n] \in Seq(M) /\ f[n + 1] = front \o g[n]
<1>5. Same(0)
  <2>1. g[0] = <<>> /\ f[0] = <<>>
    BY <1>1, <1>4 DEF EndedStep
  <2>2. 1 \in 0..Len(q) /\ 1 # 0 /\ 1 - 1 = 0
    BY <1>1
  <2>3. f[1] = IF IsLast(q[1].chunk) THEN Append(f[0], q[1].chunk.msg) ELSE f[0]
    BY <1>4, <2>2 DEF EndedStep
  <2>4. Append(<<>>, q[1].chunk.msg) = <<q[1].chunk.msg>>
    BY <1>1
  <2>5. f[1] = front
    BY <1>1, <1>a, <2>1, <2>3, <2>4
  <2>6. front \o <<>> = front
    BY <1>3
  <2> QED BY <1>3, <2>1, <2>5, <2>6
<1>6. ASSUME NEW n \in Nat, Same(n) PROVE Same(n + 1)
  <2> SUFFICES ASSUME n + 1 <= Len(r)
               PROVE  g[n + 1] \in Seq(M) /\ f[(n + 1) + 1] = front \o g[n + 1]
    OBVIOUS
  <2>1. /\ n + 1 \in 0..Len(r) /\ (n + 1) + 1 \in 0..Len(q) /\ n + 1 \in 1..Len(r)
        /\ n + 1 # 0 /\ (n + 1) - 1 = n /\ (n + 1) + 1 # 0 /\ ((n + 1) + 1) - 1 = n + 1
    BY <1>1
  <2>2. g[n] \in Seq(M) /\ f[n + 1] = front \o g[n]
    BY <1>1, <1>6
  <2>3. /\ f[(n + 1) + 1] = EndedStep(q, f, (n + 1) + 1)
        /\ g[n + 1] = EndedStep(r, g, n + 1)
    BY <1>4, <2>1
  <2>m. PICK m : m = r[n + 1].chunk.msg
    OBVIOUS
  <2>4. r[n + 1] = q[(n + 1) + 1] /\ m \in M
    BY <1>1, <2>1, <2>m
  <2> HIDE DEF Same
  <2>5. /\ front \o Append(g[n], m) = Append(front \o g[n], m)
        /\ Append(g[n], m) \in Seq(M)
    <3>1. \A b \in Seq(M) : front \o Append(b, m) = Append(front \o b, m) /\ Append(b, m) \in Seq(M)
      <4>1. front \in Seq(M) /\ m \in M
        BY <1>3, <2>4
      <4> QED BY ONLY <4>1, AppendToConcat
    <3> QED BY <2>2, <3>1
  <2>6. CASE IsLast(r[n + 1].chunk)
    <3>1. g[n + 1] = Append(g[n], m) /\ f[(n + 1) + 1] = Append(f[n + 1], m)
      BY <2>1, <2>3, <2>4, <2>6, <2>m DEF EndedStep
    <3> QED BY <2>2, <2>5, <3>1
  <2>7. CASE ~IsLast(r[n + 1].chunk)
    <3>1. g[n + 1] = g[n] /\ f[(n + 1) + 1] = f[n + 1]
      BY <2>1, <2>3, <2>4, <2>7 DEF EndedStep
    <3> QED BY <2>2, <3>1
  <2> QED BY <2>6, <2>7
<1>7. Same(Len(r))
  <2> DEFINE X == {n \in Nat : Same(n)}
  <2> HIDE DEF Same
  <2>1. 0 \in X
    BY <1>5
  <2>2. \A n \in Nat : n \in X => n + 1 \in X
    BY <1>6
  <2> HIDE DEF X
  <2>3. Len(r) \in X
    BY <1>1, <2>1, <2>2, Induction
  <2> QED BY <2>3 DEF X
<1>8. Ended(r) \in Seq(M) /\ Ended(q) = front \o Ended(r)
  BY <1>1, <1>2, <1>7
<1>9. <<>> \o Ended(r) = Ended(r)
  BY <1>8
<1> QED BY <1>8, <1>9, <1>a, <1>r

-----------------------------------------------------------------------------
(* With nothing lost and nothing cut short, the datagrams of a process are *)
(* one stream of whole messages: what its buffer holds, what is under way  *)
(* and what is still to be sent follow each other without a gap.           *)

Contiguous(b) == \A i \in 1..Len(b) : b[i].index = i - 1 /\ b[i].msg = b[1].msg

\* Chunk d is the one to be sent after c.
Follows(c, d) ==
  IF IsLast(c) THEN d.index = 0 ELSE d.msg = c.msg /\ d.index = c.index + 1

\* Chunk c is the one that buffer b waits for.
Resumes(b, c) ==
  IF b = <<>> THEN c.index = 0 ELSE c.msg = b[1].msg /\ c.index = Len(b)

Stream(b, q) ==
  /\ Contiguous(b)
  /\ \A i, j \in 1..Len(q) : j = i + 1 => Follows(q[i].chunk, q[j].chunk)
  /\ q # <<>> => Resumes(b, q[1].chunk)

\* Behind the datagrams q comes chunk c, ...
Expects(b, q, c) == IF q = <<>> THEN Resumes(b, c) ELSE Follows(q[Len(q)].chunk, c)

\* ... or a new message.
AtRest(b, q) == IF q = <<>> THEN b = <<>> ELSE IsLast(q[Len(q)].chunk)

Streaming ==
  \A s \in Sources :
    /\ Stream(stored[Slot(s)], net[s])
    /\ \A t \in Threads : SourceOf[t] = s /\ sending[t] # Idle =>
         Expects(stored[Slot(s)], net[s], Upcoming(t))
    /\ LockFree(s) => AtRest(stored[Slot(s)], net[s])

\* A datagram behind the others continues the stream.
LEMMA Enqueue ==
  ASSUME NEW b, NEW q \in Seq(Datagrams), NEW d \in Datagrams,
         Stream(b, q), Expects(b, q, d.chunk)
  PROVE  /\ Stream(b, Append(q, d))
         /\ \A e : Follows(d.chunk, e) => Expects(b, Append(q, d), e)
         /\ IsLast(d.chunk) => AtRest(b, Append(q, d))
<1>q. PICK r : r = Append(q, d)
  OBVIOUS
<1>1. /\ r \in Seq(Datagrams) /\ Len(r) = Len(q) + 1 /\ Len(q) \in Nat /\ r # <<>>
      /\ \A i \in 1..Len(q) : r[i] = q[i]
      /\ r[Len(q) + 1] = d /\ r[Len(r)] = d
  BY <1>q, AppendFacts
<1>2. q = <<>> <=> Len(q) = 0
  OBVIOUS
<1>3. ASSUME NEW i \in 1..Len(r), NEW j \in 1..Len(r), j = i + 1
      PROVE  Follows(r[i].chunk, r[j].chunk)
  <2>1. i \in 1..Len(q) /\ r[i] = q[i]
    BY <1>1, <1>3
  <2>2. CASE j \in 1..Len(q)
    BY <1>1, <1>3, <2>1, <2>2 DEF Stream
  <2>3. CASE j = Len(q) + 1
    BY <1>1, <1>2, <1>3, <2>1, <2>3 DEF Expects
  <2> QED BY <1>1, <2>2, <2>3
<1>4. Resumes(b, r[1].chunk)
  BY <1>1, <1>2 DEF Stream, Expects
<1> QED BY <1>1, <1>3, <1>4, <1>q DEF Stream, Expects, AtRest

\* What the receiver keeps of the first datagram leaves it in the stream.
LEMMA Dequeue ==
  ASSUME NEW b \in Seq(GoodChunks), NEW q \in Seq(Datagrams), q # <<>>, Stream(b, q),
         NEW rest, rest = IF IsLast(Head(q).chunk) THEN <<>> ELSE Append(b, Head(q).chunk)
  PROVE  /\ Stream(rest, Tail(q))
         /\ \A e : Expects(b, q, e) => Expects(rest, Tail(q), e)
         /\ AtRest(b, q) => AtRest(rest, Tail(q))
<1>r. PICK r : r = Tail(q)
  OBVIOUS
<1>c. PICK c : c = Head(q).chunk
  OBVIOUS
<1>1. /\ r \in Seq(Datagrams) /\ Len(r) = Len(q) - 1 /\ Len(q) \in Nat /\ Len(q) # 0
      /\ c = q[1].chunk /\ c \in GoodChunks
      /\ \A i \in 1..Len(r) : i + 1 \in 1..Len(q) /\ r[i] = q[i + 1]
  BY <1>r, <1>c, TailFacts, ChunkOf
<1>2. r = <<>> <=> Len(r) = 0
  BY <1>1
<1>3. Resumes(b, c) /\ Contiguous(b)
  BY <1>1 DEF Stream
<1>4. ASSUME NEW e, Follows(c, e)
      PROVE  Resumes(rest, e)
  <2>1. CASE IsLast(c)
    BY <1>c, <1>4, <2>1 DEF Follows, Resumes
  <2>2. CASE ~IsLast(c)
    <3>1. /\ rest = Append(b, c) /\ rest \in Seq(GoodChunks) /\ rest # <<>>
          /\ Len(rest) = Len(b) + 1 /\ Len(b) \in Nat
          /\ \A i \in 1..Len(b) : rest[i] = b[i]
          /\ rest[Len(b) + 1] = c
      BY <1>1, <1>c, <2>2, AppendFacts
    <3>2. b = <<>> <=> Len(b) = 0
      OBVIOUS
    <3>3. rest[1].msg = c.msg /\ c.index = Len(b)
      BY <1>3, <3>1, <3>2 DEF Resumes
    <3> QED BY <1>4, <2>2, <3>1, <3>3 DEF Follows, Resumes
  <2> QED BY <2>1, <2>2
<1>5. Contiguous(rest)
  <2>1. CASE IsLast(c)
    BY <1>c, <2>1 DEF Contiguous
  <2>2. CASE ~IsLast(c)
    <3>1. /\ rest = Append(b, c)
          /\ Len(rest) = Len(b) + 1 /\ Len(b) \in Nat
          /\ \A i \in 1..Len(b) : rest[i] = b[i]
          /\ rest[Len(b) + 1] = c
      BY <1>1, <1>c, <2>2, AppendFacts
    <3>2. b = <<>> <=> Len(b) = 0
      OBVIOUS
    <3>3. rest[1].msg = c.msg /\ c.index = Len(b)
      BY <1>3, <3>1, <3>2 DEF Resumes
    <3>4. ASSUME NEW i \in 1..Len(rest)
          PROVE  rest[i].index = i - 1 /\ rest[i].msg = rest[1].msg
      <4>1. CASE i \in 1..Len(b)
        BY <1>3, <3>1, <4>1 DEF Contiguous
      <4>2. CASE i = Len(b) + 1
        BY <3>1, <3>3, <4>2
      <4> QED BY <3>1, <4>1, <4>2
    <3> QED BY <3>4 DEF Contiguous
  <2> QED BY <2>1, <2>2
<1>6. \A i, j \in 1..Len(r) : j = i + 1 => Follows(r[i].chunk, r[j].chunk)
  <2> SUFFICES ASSUME NEW i \in 1..Len(r), NEW j \in 1..Len(r), j = i + 1
               PROVE  Follows(r[i].chunk, r[j].chunk)
    OBVIOUS
  <2>1. i + 1 \in 1..Len(q) /\ j + 1 \in 1..Len(q) /\ r[i] = q[i + 1] /\ r[j] = q[j + 1]
    BY <1>1
  <2> QED BY <2>1 DEF Stream
<1>7. r # <<>> => Follows(c, r[1].chunk) /\ r[Len(r)] = q[Len(q)]
  <2> SUFFICES ASSUME r # <<>> PROVE Follows(c, r[1].chunk) /\ r[Len(r)] = q[Len(q)]
    OBVIOUS
  <2>1. /\ 1 \in 1..Len(q) /\ 2 \in 1..Len(q) /\ r[1] = q[2]
        /\ Len(r) \in 1..Len(r) /\ Len(r) + 1 = Len(q)
    BY <1>1, <1>2
  <2> QED BY <1>1, <2>1 DEF Stream
<1>8. r = <<>> => q[Len(q)].chunk = c
  <2>1. r = <<>> => Len(q) = 1
    BY <1>1, <1>2
  <2> QED BY <1>1, <2>1
<1>9. q # <<>>
  OBVIOUS
<1>10. Stream(rest, r)
  BY <1>4, <1>5, <1>6, <1>7 DEF Stream
<1>11. \A e : Expects(b, q, e) => Expects(rest, r, e)
  BY <1>4, <1>7, <1>8, <1>9 DEF Expects
<1>12. AtRest(b, q) => AtRest(rest, r)
  BY <1>7, <1>8, <1>9, <1>c DEF AtRest
<1> QED BY <1>10, <1>11, <1>12, <1>r

\* A buffer and the last chunk that it waits for are one whole message.
LEMMA WholeMessage ==
  ASSUME NEW b \in Seq(GoodChunks), NEW c \in GoodChunks,
         Contiguous(b), Resumes(b, c), IsLast(c)
  PROVE  Append(b, c) = Channel!Whole(c.msg)
<1>q. PICK q : q = Append(b, c)
  OBVIOUS
<1>1. /\ q \in Seq(GoodChunks) /\ Len(q) = Len(b) + 1 /\ Len(b) \in Nat
      /\ \A i \in 1..Len(b) : q[i] = b[i] /\ b[i] \in GoodChunks
      /\ q[Len(b) + 1] = c
  BY <1>q, AppendFacts
<1>2. b = <<>> <=> Len(b) = 0
  OBVIOUS
<1>3. c.index = Len(b) /\ c.msg.n = Len(q)
  BY <1>1, <1>2, ChunkFields DEF Resumes, IsLast
<1>4. ASSUME NEW i \in 1..Len(q)
      PROVE  q[i] = [msg |-> c.msg, index |-> i - 1]
  <2>1. q[i] \in GoodChunks /\ q[i].msg = c.msg /\ q[i].index = i - 1
    <3>1. CASE i \in 1..Len(b)
      BY <1>1, <1>2, <3>1 DEF Contiguous, Resumes
    <3>2. CASE i = Len(b) + 1
      BY <1>1, <1>3, <3>2
    <3> QED BY <1>1, <3>1, <3>2
  <2>2. q[i] \in [msg : Messages, index : 0..MaxChunks - 1]
    BY <2>1 DEF GoodChunks, Chunks
  <2> QED BY <2>1, <2>2
<1>5. q = [i \in 1..Len(q) |-> [msg |-> c.msg, index |-> i - 1]]
  BY <1>1, <1>4
<1> QED BY <1>3, <1>5, <1>q DEF Channel!Whole

-----------------------------------------------------------------------------
(* The steps keep the stream.                                              *)

LEMMA BeginStreams ==
  ASSUME IInv, Streaming, NEW t \in Threads, BeginMessage(t)
  PROVE  Streaming'
<1>0. Typing
  BY DEF IInv
<1>1. /\ sending[t] = Idle /\ LockFree(SourceOf[t]) /\ SourceOf[t] \in Sources
      /\ UNCHANGED <<net, stored>>
  BY DEF BeginMessage
<1>2. PICK m : sending' = [sending EXCEPT ![t] = [next |-> 1, msg |-> m]]
  BY DEF BeginMessage
<1>3. /\ sending'[t] = [next |-> 1, msg |-> m] /\ sending'[t] # Idle
      /\ \A u \in Threads : u # t => sending'[u] = sending[u]
  <2>1. [next |-> 1, msg |-> m].next # Idle.next
    BY DEF Idle
  <2> QED BY <1>0, <1>2, <2>1 DEF Typing
<1>4. Upcoming(t)'.index = 0
  BY <1>3 DEF Upcoming
<1>5. \A u \in Threads : u # t => Upcoming(u)' = Upcoming(u)
  BY <1>3 DEF Upcoming
<1> SUFFICES ASSUME NEW s \in Sources
             PROVE  /\ \A u \in Threads : SourceOf[u] = s /\ sending'[u] # Idle =>
                         Expects(stored[Slot(s)], net[s], Upcoming(u)')
                    /\ LockFree(s)' => AtRest(stored[Slot(s)], net[s])
  BY <1>1 DEF Streaming
<1>6. ASSUME NEW u \in Threads, SourceOf[u] = s, sending'[u] # Idle
      PROVE  Expects(stored[Slot(s)], net[s], Upcoming(u)')
  <2>1. CASE u = t
    <3>1. AtRest(stored[Slot(s)], net[s])
      BY <1>1, <1>6, <2>1 DEF Streaming
    <3> QED BY <1>4, <2>1, <3>1 DEF AtRest, Expects, Resumes, Follows
  <2>2. CASE u # t
    BY <1>3, <1>5, <1>6, <2>2 DEF Streaming
  <2> QED BY <2>1, <2>2
<1>7. LockFree(s)' => LockFree(s)
  BY <1>1, <1>3 DEF LockFree
<1> QED BY <1>6, <1>7 DEF Streaming

LEMMA SendStreams ==
  ASSUME IInv, Streaming, NEW t \in Threads, SendChunk(t)
  PROVE  Streaming'
<1>0. Typing /\ Locked
  BY DEF IInv
<1>s. PICK s : s = SourceOf[t]
  OBVIOUS
<1>c. PICK c : c = Upcoming(t)
  OBVIOUS
<1>d. PICK d : d = [header |-> Header(c.index, IsLast(c)), chunk |-> c]
  OBVIOUS
<1>1. /\ sending[t] # Idle /\ s \in Sources
      /\ sending[t] \in [next : 1..MaxChunks, msg : Messages]
      /\ sending[t].msg.src = s /\ sending[t].next <= sending[t].msg.n
      /\ stored' = stored
  BY <1>0, <1>s DEF Typing, Locked, SendChunk
<1>2. /\ sending' = [sending EXCEPT ![t] =
            IF IsLast(c) THEN Idle ELSE [sending[t] EXCEPT !.next = @ + 1]]
      /\ net' = [net EXCEPT ![s] = Append(@, d)]
  BY <1>1, <1>c, <1>d DEF SendChunk, Upcoming
<1>3. d \in Datagrams /\ d.chunk = c
  <2>1. c \in GoodChunks
    BY <1>1, <1>c DEF Upcoming, GoodChunks, Chunks, Messages
  <2> QED BY <1>d, <2>1 DEF Datagrams
<1>4. /\ sending'[t] = IF IsLast(c) THEN Idle ELSE [sending[t] EXCEPT !.next = @ + 1]
      /\ \A u \in Threads : u # t => sending'[u] = sending[u]
  BY <1>0, <1>2 DEF Typing
<1>5. /\ net'[s] = Append(net[s], d) /\ net[s] \in Seq(Datagrams)
      /\ \A r \in Sources : r # s => net'[r] = net[r]
  BY <1>0, <1>1, <1>2 DEF Typing
<1>b. PICK b : b = stored[Slot(s)]
  OBVIOUS
<1>6. /\ Stream(b, net'[s])
      /\ \A e : Follows(c, e) => Expects(b, net'[s], e)
      /\ IsLast(c) => AtRest(b, net'[s])
  <2>1. Stream(b, net[s]) /\ Expects(b, net[s], c)
    BY <1>1, <1>b, <1>c, <1>s DEF Streaming
  <2> QED BY <1>3, <1>5, <2>1, Enqueue
<1>7. ASSUME ~IsLast(c) PROVE Follows(c, Upcoming(t)')
  <2>1. sending'[t].msg = sending[t].msg /\ sending'[t].next = sending[t].next + 1
    BY <1>1, <1>4, <1>7
  <2> QED BY <1>1, <1>7, <1>c, <2>1 DEF Upcoming, Follows
<1>8. \A u \in Threads : SourceOf[u] = s /\ u # t => sending'[u] = Idle
  BY <1>0, <1>1, <1>4, <1>s DEF Locked
<1> SUFFICES ASSUME NEW r \in Sources
             PROVE  /\ Stream(stored[Slot(r)], net'[r])
                    /\ \A u \in Threads : SourceOf[u] = r /\ sending'[u] # Idle =>
                         Expects(stored[Slot(r)], net'[r], Upcoming(u)')
                    /\ LockFree(r)' => AtRest(stored[Slot(r)], net'[r])
  BY <1>1 DEF Streaming
<1>9. CASE r = s
  <2>1. ASSUME NEW u \in Threads, SourceOf[u] = s, sending'[u] # Idle
        PROVE  Expects(b, net'[s], Upcoming(u)')
    <3>1. u = t /\ ~IsLast(c)
      BY <1>4, <1>8, <2>1
    <3> QED BY <1>6, <1>7, <3>1
  <2>2. ASSUME LockFree(s)' PROVE AtRest(b, net'[s])
    <3>1. sending'[t] = Idle
      BY <1>s, <2>2 DEF LockFree
    <3>2. CASE IsLast(c)
      BY <1>6, <3>2
    <3>3. CASE ~IsLast(c)
      <4>1. sending'[t].next = sending[t].next + 1 /\ sending[t].next \in Nat \ {0}
        BY <1>1, <1>4, <3>3
      <4> QED BY <3>1, <4>1 DEF Idle
    <3> QED BY <3>2, <3>3
  <2> QED BY <1>6, <1>9, <1>b, <2>1, <2>2
<1>10. CASE r # s
  <2>1. \A u \in Threads : SourceOf[u] = r => sending'[u] = sending[u] /\ Upcoming(u)' = Upcoming(u)
    BY <1>4, <1>10, <1>s DEF Upcoming
  <2>2. LockFree(r)' => LockFree(r)
    BY <2>1 DEF LockFree
  <2> QED BY <1>5, <1>10, <2>1, <2>2 DEF Streaming
<1> QED BY <1>9, <1>10

\* The header of the first chunk clears what was stored only when nothing is.
LEMMA ReceiveOne ==
  ASSUME IInv, Streaming, BuffersApart, NumbersReadable, NEW s \in Sources, ReceiveDatagram(s)
  PROVE  LET c == Head(net[s]).chunk
             b == stored[Slot(s)]
         IN  /\ net[s] # <<>> /\ net' = [net EXCEPT ![s] = Tail(@)]
             /\ c \in GoodChunks /\ b \in Seq(GoodChunks) /\ Contiguous(b) /\ Resumes(b, c)
             /\ stored' = [stored EXCEPT ![Slot(s)] = IF IsLast(c) THEN <<>> ELSE Append(b, c)]
             /\ delivered' = IF IsLast(c) THEN Append(delivered, Append(b, c)) ELSE delivered
             /\ UNCHANGED sending
<1> DEFINE q == net[s]
<1> DEFINE b == stored[Slot(s)]
<1>c. PICK c : c = Head(q).chunk
  OBVIOUS
<1>0. Typing
  BY DEF IInv
<1>1. /\ q # <<>> /\ net' = [net EXCEPT ![s] = Tail(@)] /\ UNCHANGED sending
  BY DEF ReceiveDatagram
<1>2. q \in Seq(Datagrams) /\ b \in Seq(GoodChunks)
  BY Elements, <1>0
<1>3. Head(q) = q[1] /\ c \in GoodChunks /\ Head(q).header = Header(c.index, IsLast(c))
  BY <1>1, <1>2, <1>c, TailFacts, ChunkOf
<1>4. Contiguous(b) /\ Resumes(b, c)
  BY <1>1, <1>3, <1>c DEF Streaming, Stream
<1>5. PICK number : number = ParseChunkNumber(Head(q).header)
  OBVIOUS
<1>6. /\ number = EndMarker <=> IsLast(c)
      /\ ~IsLast(c) => (number = 0 <=> c.index = 0)
      /\ EndMarker # 0
  BY <1>3, <1>5, NumberOfHeader
<1>7. Kept(s, number) = b
  <2>1. CASE number # 0
    BY <2>1 DEF Kept
  <2>2. CASE number = 0
    <3>1. c.index = 0
      BY <1>6, <2>2
    <3>2. b = <<>>
      BY <1>2, <1>4, <3>1 DEF Resumes
    <3> QED BY <2>2, <3>2 DEF Kept
  <2> QED BY <2>1, <2>2
<1>8. /\ stored' = [stored EXCEPT ![Slot(s)] = IF IsLast(c) THEN <<>> ELSE Append(b, c)]
      /\ delivered' = IF IsLast(c) THEN Append(delivered, Append(b, c)) ELSE delivered
  BY <1>5, <1>6, <1>7, <1>c DEF ReceiveDatagram
<1> QED BY <1>1, <1>2, <1>3, <1>4, <1>8, <1>c

LEMMA ReceiveStreams ==
  ASSUME IInv, Streaming, BuffersApart, NumbersReadable, NEW s \in Sources, ReceiveDatagram(s)
  PROVE  Streaming'
<1>0. Typing
  BY DEF IInv
<1>q. PICK q : q = net[s]
  OBVIOUS
<1>b. PICK b : b = stored[Slot(s)]
  OBVIOUS
<1>r. PICK rest : rest = IF IsLast(Head(q).chunk) THEN <<>> ELSE Append(b, Head(q).chunk)
  OBVIOUS
<1>1. /\ q # <<>> /\ net' = [net EXCEPT ![s] = Tail(@)]
      /\ b \in Seq(GoodChunks) /\ stored' = [stored EXCEPT ![Slot(s)] = rest]
      /\ sending' = sending
  BY <1>q, <1>b, <1>r, ReceiveOne
<1>2. /\ q \in Seq(Datagrams)
      /\ net'[s] = Tail(q) /\ \A r \in Sources : r # s => net'[r] = net[r]
      /\ stored'[Slot(s)] = rest
      /\ \A r \in Sources : r # s => stored'[Slot(r)] = stored[Slot(r)]
  BY <1>0, <1>1, <1>q, SlotIsSlot DEF Typing
<1>3. /\ Stream(b, q)
      /\ \A t \in Threads : SourceOf[t] = s /\ sending[t] # Idle => Expects(b, q, Upcoming(t))
      /\ LockFree(s) => AtRest(b, q)
  BY <1>b, <1>q DEF Streaming
<1>4. /\ Stream(rest, Tail(q))
      /\ \A e : Expects(b, q, e) => Expects(rest, Tail(q), e)
      /\ AtRest(b, q) => AtRest(rest, Tail(q))
  BY <1>1, <1>2, <1>3, <1>r, Dequeue
<1>5. \A t \in Threads : Upcoming(t)' = Upcoming(t)
  BY <1>1 DEF Upcoming
<1>6. \A r \in Sources : LockFree(r)' <=> LockFree(r)
  BY <1>1 DEF LockFree
<1> SUFFICES ASSUME NEW r \in Sources
             PROVE  /\ Stream(stored'[Slot(r)], net'[r])
                    /\ \A u \in Threads : SourceOf[u] = r /\ sending[u] # Idle =>
                         Expects(stored'[Slot(r)], net'[r], Upcoming(u))
                    /\ LockFree(r) => AtRest(stored'[Slot(r)], net'[r])
  BY <1>1, <1>5, <1>6 DEF Streaming
<1>7. CASE r = s
  BY <1>2, <1>3, <1>4, <1>7
<1>8. CASE r # s
  BY <1>2, <1>8 DEF Streaming
<1> QED BY <1>7, <1>8

LEMMA InitStreams == Init => Streaming
<1> SUFFICES ASSUME Init, NEW s \in Sources
             PROVE  /\ Stream(stored[Slot(s)], net[s])
                    /\ \A t \in Threads : SourceOf[t] = s => sending[t] = Idle
                    /\ AtRest(stored[Slot(s)], net[s])
  BY DEF Streaming
<1>1. net[s] = <<>> /\ stored[Slot(s)] = <<>>
  BY SlotIsSlot DEF Init
<1>2. \A t \in Threads : sending[t] = Idle
  BY DEF Init
<1> QED BY <1>1, <1>2 DEF Stream, Contiguous, AtRest

LEMMA StreamsInvariance ==
  ASSUME BuffersApart, NumbersReadable, Unreliable = FALSE
  PROVE  Spec => [](IInv /\ Streaming)
<1>1. ASSUME IInv, Streaming, [Next]_vars PROVE Streaming'
  <2>1. CASE UNCHANGED vars
    BY <1>1, <2>1
    DEF vars, Streaming, Stream, Contiguous, Follows, Resumes, Expects, AtRest, LockFree,
        Upcoming, IsLast
  <2>2. CASE Next
    <3>1. /\ \A t \in Threads : ~AbortMessage(t)
          /\ \A s \in Sources : ~LoseDatagram(s)
      BY DEF AbortMessage, LoseDatagram
    <3> QED BY <1>1, <2>2, <3>1, BeginStreams, SendStreams, ReceiveStreams DEF Next
  <2> QED BY <1>1, <2>1, <2>2
<1> QED BY <1>1, InitStreams, Invariance, PTL DEF Spec

-----------------------------------------------------------------------------
(* Every step is one of the channel or leaves it alone.                    *)

LEMMA EndedEmpty == Ended(<<>>) = <<>>
<1>1. <<>> \in Seq(Datagrams) /\ Len(<<>>) = 0
  OBVIOUS
<1>2. /\ Ended(<<>>) = EndedUpTo(<<>>)[Len(<<>>)]
      /\ EndedUpTo(<<>>) = [i \in 0..Len(<<>>) |-> EndedStep(<<>>, EndedUpTo(<<>>), i)]
  BY <1>1, EndedFunction
<1> QED BY <1>1, <1>2 DEF EndedStep

LEMMA DatagramMessage ==
  ASSUME NEW d \in Datagrams
  PROVE  d.chunk.msg \in Messages
BY ChunkOf, ChunkFields

LEMMA SendRefines ==
  ASSUME IInv, NEW t \in Threads, SendChunk(t)
  PROVE  [Channel!Next]_<<[s \in Sources |-> Ended(net[s])], delivered>>
<1>0. Typing /\ Locked
  BY DEF IInv
<1>s. PICK s : s = SourceOf[t]
  OBVIOUS
<1>c. PICK c : c = Upcoming(t)
  OBVIOUS
<1>d. PICK d : d = [header |-> Header(c.index, IsLast(c)), chunk |-> c]
  OBVIOUS
<1>1. /\ sending[t] # Idle /\ s \in Sources
      /\ sending[t] \in [next : 1..MaxChunks, msg : Messages]
      /\ sending[t].msg.src = s /\ sending[t].next <= sending[t].msg.n
      /\ delivered' = delivered
  BY <1>0, <1>s DEF Typing, Locked, SendChunk
<1>2. net' = [net EXCEPT ![s] = Append(@, d)]
  BY <1>1, <1>c, <1>d DEF SendChunk, Upcoming
<1>3. d \in Datagrams /\ d.chunk = c /\ c.msg \in Messages /\ c.msg.src = s
  <2>1. c \in GoodChunks /\ c.msg \in Messages /\ c.msg.src = s
    BY <1>1, <1>c DEF Upcoming, GoodChunks, Chunks, Messages
  <2> QED BY <1>d, <2>1 DEF Datagrams
<1>4. /\ net'[s] = Append(net[s], d) /\ net[s] \in Seq(Datagrams)
      /\ \A r \in Sources : r # s => net'[r] = net[r]
  BY <1>0, <1>1, <1>2 DEF Typing
<1>5. Ended(net'[s]) = IF IsLast(c) THEN Append(Ended(net[s]), c.msg) ELSE Ended(net[s])
  <2>1. \A q \in Seq(Datagrams) :
          Ended(Append(q, d)) = IF IsLast(d.chunk) THEN Append(Ended(q), d.chunk.msg) ELSE Ended(q)
    BY <1>3, EndedAppend
  <2> QED BY <1>3, <1>4, <2>1
<1>6. CASE IsLast(c)
  <2>1. [r \in Sources |-> Ended(net'[r])]
          = [[r \in Sources |-> Ended(net[r])] EXCEPT ![c.msg.src] = Append(@, c.msg)]
    BY <1>1, <1>3, <1>4, <1>5, <1>6
  <2>2. Channel!Send(c.msg)
    BY <1>1, <2>1 DEF Channel!Send
  <2> QED BY <1>3, <2>2 DEF Channel!Next
<1>7. CASE ~IsLast(c)
  <2>1. [r \in Sources |-> Ended(net'[r])] = [r \in Sources |-> Ended(net[r])]
    BY <1>4, <1>5, <1>7
  <2> QED BY <1>1, <2>1
<1> QED BY <1>6, <1>7

LEMMA ReceiveRefines ==
  ASSUME IInv, Streaming, BuffersApart, NumbersReadable, NEW s \in Sources, ReceiveDatagram(s)
  PROVE  [Channel!Next]_<<[r \in Sources |-> Ended(net[r])], delivered>>
<1>0. Typing
  BY DEF IInv
<1>q. PICK q : q = net[s]
  OBVIOUS
<1>c. PICK c : c = Head(q).chunk
  OBVIOUS
<1>b. PICK b : b = stored[Slot(s)]
  OBVIOUS
<1>1. /\ q # <<>> /\ net' = [net EXCEPT ![s] = Tail(@)]
      /\ c \in GoodChunks /\ b \in Seq(GoodChunks) /\ Contiguous(b) /\ Resumes(b, c)
      /\ delivered' = IF IsLast(c) THEN Append(delivered, Append(b, c)) ELSE delivered
  BY <1>q, <1>b, <1>c, ReceiveOne
<1>2. /\ q \in Seq(Datagrams) /\ net'[s] = Tail(q)
      /\ \A r \in Sources : r # s => net'[r] = net[r]
  BY <1>0, <1>1, <1>q DEF Typing
<1>3. /\ Ended(Tail(q)) \in Seq(Messages)
      /\ Ended(q) = IF IsLast(c) THEN <<c.msg>> \o Ended(Tail(q)) ELSE Ended(Tail(q))
  BY <1>1, <1>2, <1>c, DatagramMessage, EndedTail
<1>4. CASE IsLast(c)
  <2>1. c.msg \in Messages
    BY <1>1, ChunkFields
  <2>2. Ended(q) # <<>> /\ Head(Ended(q)) = c.msg /\ Tail(Ended(q)) = Ended(Tail(q))
    BY <1>3, <1>4, <2>1, ConcatOne
  <2>3. Append(b, c) = Channel!Whole(c.msg)
    BY <1>1, <1>4, WholeMessage
  <2>4. [r \in Sources |-> Ended(net'[r])]
          = [[r \in Sources |-> Ended(net[r])] EXCEPT ![s] = Tail(@)]
    BY <1>2, <1>q, <2>2
  <2>5. Channel!Deliver(s)
    BY <1>1, <1>4, <1>q, <2>2, <2>3, <2>4 DEF Channel!Deliver
  <2> QED BY <2>5 DEF Channel!Next
<1>5. CASE ~IsLast(c)
  <2>1. [r \in Sources |-> Ended(net'[r])] = [r \in Sources |-> Ended(net[r])]
    BY <1>2, <1>3, <1>5, <1>q
  <2> QED BY <1>1, <1>5, <2>1
<1> QED BY <1>4, <1>5

\* With nothing lost and no message cut short, however the threads of the
\* processes and the receiver interleave, what sendMSG and the receive loop do
\* is a channel of whole messages per process: each is delivered once, whole,
\* and in the order it was sent.
THEOREM TransportIsChannel ==
  ASSUME BuffersApart, NumbersReadable, Unreliable = FALSE
  PROVE  Spec => ImplementsChannel
<1>1. Init => Channel!Init
  BY EndedEmpty DEF Init, Channel!Init
<1>2. ASSUME IInv, Streaming, [Next]_vars
      PROVE  [Channel!Next]_<<[s \in Sources |-> Ended(net[s])], delivered>>
  <2>1. CASE UNCHANGED vars
    BY <2>1 DEF vars
  <2>2. CASE \E t \in Threads : BeginMessage(t)
    BY <2>2 DEF BeginMessage
  <2>3. CASE \E t \in Threads : SendChunk(t)
    BY <1>2, <2>3, SendRefines
  <2>4. CASE \E s \in Sources : ReceiveDatagram(s)
    BY <1>2, <2>4, ReceiveRefines
  <2>5. CASE \E t \in Threads : AbortMessage(t)
    BY <2>5 DEF AbortMessage
  <2>6. CASE \E s \in Sources : LoseDatagram(s)
    BY <2>6 DEF LoseDatagram
  <2> QED BY <1>2, <2>1, <2>2, <2>3, <2>4, <2>5, <2>6 DEF Next
<1> QED BY <1>1, <1>2, StreamsInvariance, PTL DEF Spec, ImplementsChannel, Channel!Spec
=============================================================================
