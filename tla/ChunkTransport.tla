--------------------------- MODULE ChunkTransport ---------------------------
(***************************************************************************)
(* The databus transport: CUDPClient and CUnixDgramClient split a message  *)
(* into datagrams with a two-byte header (chunk_protocol.hpp), and the     *)
(* receive thread puts the chunks it stored together when the end marker   *)
(* arrives.  The number of an intermediate chunk is its header; the last   *)
(* chunk carries the end marker whatever its number.                       *)
(*                                                                         *)
(* The content of a chunk is abstracted to its identity: the message it    *)
(* belongs to and its position.                                            *)
(***************************************************************************)
EXTENDS Naturals, Sequences, FiniteSets

CONSTANTS
  Sources,      \* processes with a socket of their own
  Threads,      \* sending threads: the ID thread, the application's threads
  SourceOf,     \* the process of a thread: Threads -> Sources
  MaxChunks,    \* longest message, in chunks (bound)
  MaxMessages,  \* messages per source (bound)
  Base,         \* values of a byte (256 in the code)
  PerSource,    \* chunks kept per sender path (unix) or in one vector (UDP)
  CharSigned,   \* the header is read through plain char, and char is signed
  Unreliable    \* datagrams may be dropped and sendto may fail

ASSUME ConstantsAssumption ==
  /\ SourceOf \in [Threads -> Sources]
  /\ MaxChunks \in Nat \ {0}
  /\ MaxMessages \in Nat
  /\ Base \in Nat \ {0, 1}
  /\ MaxChunks <= Base * Base  \* more chunks than that wrap the 16-bit number
  /\ {PerSource, CharSigned, Unreliable} \subseteq BOOLEAN

VARIABLES
  sending,    \* per thread: the message under way and its next chunk
  count,      \* messages started per source
  net,        \* datagrams on their way from each source
  stored,     \* receivedChunks, receivedChunksBySource
  delivered   \* the payloads handed to m_callback->onReceive

vars == <<sending, count, net, stored, delivered>>

Messages == [src : Sources, no : 1..MaxMessages, n : 1..MaxChunks]
Chunks == [msg : Messages, index : 0..MaxChunks - 1]
Idle == [next |-> 0]
Slots == IF PerSource THEN Sources ELSE {"all"}
\* Mutant: every sender shares one slot.
SharedSlot(s) == CHOOSE k \in Slots : TRUE

Slot(s) == IF PerSource THEN s ELSE "all"

EndMarker == Base * Base - 1

\* Mutant: the last chunk is numbered like the others.
HeaderNumbered(number, last) == [lo |-> number % Base, hi |-> (number \div Base) % Base]

\* prepareChunkHeader: low byte first; the last chunk is always the end marker.
Header(number, last) ==
  IF last THEN [lo |-> Base - 1, hi |-> Base - 1]
  ELSE [lo |-> number % Base, hi |-> (number \div Base) % Base]

\* parseChunkNumber.  In CUDPClient the buffer is plain char: where char is
\* signed, a low byte of 128 or more is negative and its sign bits fill the
\* high byte.
ParseChunkNumber(h) ==
  IF CharSigned /\ h.lo >= Base \div 2 THEN (Base - 1) * Base + h.lo
  ELSE h.hi * Base + h.lo

\* Mutant: the last chunk is taken to be one further.
IsLastOneFurther(c) == c.index = c.msg.n

IsLast(c) == c.index = c.msg.n - 1

Init ==
  /\ sending = [t \in Threads |-> Idle]
  /\ count = [s \in Sources |-> 0]
  /\ net = [s \in Sources |-> <<>>]
  /\ stored = [k \in Slots |-> <<>>]
  /\ delivered = <<>>

-----------------------------------------------------------------------------
(* sendMSG: m_lock is held from the first chunk to the last.               *)

\* Mutant: sendMSG does not take m_lock.
NoLock(s) == TRUE

LockFree(s) == \A t \in Threads : SourceOf[t] = s => sending[t] = Idle

BeginMessage(t) ==
  LET s == SourceOf[t] IN
  /\ sending[t] = Idle
  /\ LockFree(s)
  /\ count[s] < MaxMessages
  /\ \E n \in 1..MaxChunks :
       sending' = [sending EXCEPT ![t] =
         [next |-> 1, msg |-> [src |-> s, no |-> count[s] + 1, n |-> n]]]
  /\ count' = [count EXCEPT ![s] = @ + 1]
  /\ UNCHANGED <<net, stored, delivered>>

\* One sendto of the loop; the 10 ms sleep lets anything else happen before
\* the next.
SendChunk(t) ==
  /\ sending[t] # Idle
  /\ LET m == sending[t].msg
         c == [msg |-> m, index |-> sending[t].next - 1]
     IN  /\ net' = [net EXCEPT ![m.src] =
                      Append(@, [header |-> Header(c.index, IsLast(c)), chunk |-> c])]
         /\ sending' = [sending EXCEPT ![t] =
                          IF IsLast(c) THEN Idle
                          ELSE [sending[t] EXCEPT !.next = @ + 1]]
  /\ UNCHANGED <<count, stored, delivered>>

\* sendto fails, or stop() is called: the loop ends with the message half sent.
AbortMessage(t) ==
  /\ Unreliable
  /\ sending[t] # Idle
  /\ sending' = [sending EXCEPT ![t] = Idle]
  /\ UNCHANGED <<count, net, stored, delivered>>

\* The network, or a full receive buffer, drops a datagram.
LoseDatagram(s) ==
  /\ Unreliable
  /\ net[s] # <<>>
  /\ net' = [net EXCEPT ![s] = Tail(@)]
  /\ UNCHANGED <<sending, count, stored, delivered>>

-----------------------------------------------------------------------------
(* InternalReceiverEntry: one turn of the receive loop.                    *)

\* Mutant: the first chunk does not clear what was stored.
KeptAlways(s, number) == stored[Slot(s)]

\* What is in front of the chunk that arrives: the first chunk clears the rest.
Kept(s, number) == IF number = 0 THEN <<>> ELSE stored[Slot(s)]

ReceiveDatagram(s) ==
  /\ net[s] # <<>>
  /\ net' = [net EXCEPT ![s] = Tail(@)]
  /\ LET d == Head(net[s])
         number == ParseChunkNumber(d.header)
         chunks == Append(Kept(s, number), d.chunk)
     IN  IF number = EndMarker
         THEN /\ delivered' = Append(delivered, chunks)
              /\ stored' = [stored EXCEPT ![Slot(s)] = <<>>]
         ELSE /\ stored' = [stored EXCEPT ![Slot(s)] = chunks]
              /\ UNCHANGED delivered
  /\ UNCHANGED <<sending, count>>

-----------------------------------------------------------------------------

Next ==
  \/ \E t \in Threads : BeginMessage(t) \/ SendChunk(t) \/ AbortMessage(t)
  \/ \E s \in Sources : LoseDatagram(s) \/ ReceiveDatagram(s)

Spec == Init /\ [][Next]_vars

\* A thread in sendMSG keeps running and the receive thread keeps receiving.
Fairness ==
  /\ \A t \in Threads : WF_vars(SendChunk(t))
  /\ \A s \in Sources : WF_vars(ReceiveDatagram(s))

FairSpec == Spec /\ Fairness

-----------------------------------------------------------------------------
(* Properties.                                                             *)

PayloadOf(m) == [i \in 1..m.n |-> [msg |-> m, index |-> i - 1]]
Payloads == {delivered[i] : i \in 1..Len(delivered)}
Final(payload) == payload[Len(payload)]

\* Every variable has its type.
TypeOK ==
  /\ \A t \in Threads :
       sending[t] = Idle \/ sending[t] \in [next : 1..MaxChunks, msg : Messages]
  /\ count \in [Sources -> 0..MaxMessages]
  /\ \A s \in Sources : \A i \in 1..Len(net[s]) :
       /\ net[s][i].chunk \in Chunks
       /\ net[s][i].header \in [lo : 0..Base - 1, hi : 0..Base - 1]
  /\ DOMAIN stored = Slots
  /\ \A k \in Slots : stored[k] \in Seq(Chunks)
  /\ delivered \in Seq(Seq(Chunks))

\* A payload is a subsequence of what one source sent: chunks of one sender,
\* in the order they were sent, none twice (the receive thread never mixes two
\* senders of the unix socket, and m_lock keeps two threads of one sender
\* apart), and it was completed by the last chunk of a message.
Precedes(c, d) ==
  \/ c.msg.no < d.msg.no
  \/ c.msg.no = d.msg.no /\ c.index < d.index

OrderedPayloads ==
  \A p \in Payloads :
    /\ IsLast(Final(p))
    /\ \A i \in 1..Len(p) - 1 :
         p[i].msg.src = p[i + 1].msg.src /\ Precedes(p[i], p[i + 1])

\* Reassembly recovers by itself: a message of two chunks or more whose first
\* chunk arrived is never delivered with anything of an earlier one in front,
\* however many datagrams were lost or messages cut short before.
ResyncOnFirstChunk ==
  \A p \in Payloads :
    (\E i \in 1..Len(p) : p[i].index = 0 /\ p[i].msg = Final(p).msg /\ p[i].msg.n > 1)
      => \A i \in 1..Len(p) : p[i].msg = Final(p).msg

\* README.md: when a new message sequence starts, any previously stored chunks
\* are cleared, so what is reassembled is one message.
OneMessagePerPayload ==
  \A p \in Payloads : \A i \in 1..Len(p) : p[i].msg = Final(p).msg

\* README.md: the end marker 0xFFFF, and nothing else, indicates the final chunk.
OnlyLastChunkEnds == \A p \in Payloads : IsLast(Final(p))

\* The transport implements whole-message channels: a message is accepted when
\* its last datagram is sent and delivered when that datagram is received.
Ended(q) ==
  LET upTo[i \in 0..Len(q)] ==
        IF i = 0 THEN <<>>
        ELSE IF IsLast(q[i].chunk) THEN Append(upTo[i - 1], q[i].chunk.msg)
        ELSE upTo[i - 1]
  IN  upTo[Len(q)]

Channel == INSTANCE MessageChannel WITH
  queue <- [s \in Sources |-> Ended(net[s])],
  received <- delivered

\* Whatever interleaving of senders and receiver, every payload is exactly one
\* message and each source's messages arrive in order (no datagram lost).
ImplementsChannel == Channel!Spec

\* A message whose sender got through is handed over in the end, whole.
EveryMessageArrives ==
  \A s \in Sources, no \in 1..MaxMessages :
    (count[s] >= no) ~>
      (\E p \in Payloads : \E n \in 1..MaxChunks :
         p = PayloadOf([src |-> s, no |-> no, n |-> n]))
=============================================================================
