--------------------------- MODULE MessageChannel ---------------------------
(***************************************************************************)
(* What the databus transport promises to its users: whole messages, in    *)
(* the order each source sent them, none invented and none mixed up.       *)
(***************************************************************************)
EXTENDS Naturals, Sequences

CONSTANTS
  Sources,   \* the processes that send
  Messages   \* what they may send: a source, a number, a length in chunks

VARIABLES
  queue,     \* per source, the messages accepted and not delivered yet
  received   \* the payloads handed to onReceive, in order

\* The payload of a message is its chunks, first to last.
Whole(m) == [i \in 1..m.n |-> [msg |-> m, index |-> i - 1]]

Init ==
  /\ queue = [s \in Sources |-> <<>>]
  /\ received = <<>>

Send(m) ==
  /\ queue' = [queue EXCEPT ![m.src] = Append(@, m)]
  /\ UNCHANGED received

Deliver(s) ==
  /\ queue[s] # <<>>
  /\ queue' = [queue EXCEPT ![s] = Tail(@)]
  /\ received' = Append(received, Whole(Head(queue[s])))

Next ==
  \/ \E m \in Messages : Send(m)
  \/ \E s \in Sources : Deliver(s)

Spec == Init /\ [][Next]_<<queue, received>>
=============================================================================
