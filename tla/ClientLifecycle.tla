---------------------------- MODULE ClientLifecycle ----------------------------
(***************************************************************************)
(* The threads of a module from CModule::init to CModule::uninit and the   *)
(* end of the process: the two databus clients (udpClient.cpp,             *)
(* unixDgramClient.cpp) with a receiver and an ident thread each, the      *)
(* health thread, application threads that send at any time, and the owner *)
(* that starts and stops them all.  CONFIG_ACTION_Restart calls exit(0) on *)
(* the receiver, whose static destructors stop the module as well.         *)
(***************************************************************************)
EXTENDS Naturals

CONSTANTS Apps,     \* application threads that send
          MaxLives  \* bound on the calls of CModule::init

Clients == {"udp", "unix"}
Receiver == [udp |-> "udpReceiver", unix |-> "unixReceiver"]
Ident == [udp |-> "udpIdent", unix |-> "unixIdent"]
Workers == {Receiver[c] : c \in Clients} \union {Ident[c] : c \in Clients}
Own == {"owner", "health"} \union Workers
Threads == Own \union Apps

ASSUME LifecycleAssumption == MaxLives \in Nat /\ Apps \intersect Own = {}

VARIABLES use,      \* m_use_unix_socket: the client in use
          stopped,  \* m_stopped_called
          started,  \* m_starrted, m_started
          open,     \* m_SocketFD is a socket
          address,  \* the peer's address is there: its pointer is not null
          dangling, \* the UDP client's addresses were deleted, the pointers kept
          held,     \* m_lock is held
          healthExit,  \* m_health_thread_exit
          pc,       \* what a thread does next; "none": no thread to join
          via,      \* the client a thread sends with
          exiting,  \* the thread that called exit, or "nobody"
          process,  \* "up", "exited" or "aborted"
          lives,    \* calls of init so far
          done      \* history: CModule::uninit has stopped the client

clients == <<stopped, started, open, address, dangling>>
vars == <<use, clients, held, healthExit, pc, via, exiting, process, lives, done>>

StopSteps == {"stop", "joinReceiver", "joinIdent", "close", "free", "joinHealth", "destroy"}
SendSteps == {"want", "send", "pause", "last"}
Steps == {"none", "idle", "loop", "recv", "callback", "ended",
          "receiver", "ident", "start", "health", "run"} \union SendSteps \union StopSteps

TypeOK ==
    /\ use \in Clients
    /\ {stopped, started, open, address, held, done} \subseteq [Clients -> BOOLEAN]
    /\ healthExit \in BOOLEAN /\ dangling \in BOOLEAN
    /\ pc \in [Threads -> Steps]
    /\ via \in [Threads -> Clients]
    /\ exiting \in Threads \union {"nobody"}
    /\ process \in {"up", "exited", "aborted"}
    /\ lives \in 0..MaxLives

Init ==
    /\ use \in Clients
    /\ stopped = [c \in Clients |-> FALSE] /\ started = stopped
    /\ open = stopped /\ address = stopped /\ held = stopped /\ done = stopped
    /\ healthExit = FALSE /\ dangling = FALSE
    /\ pc = [t \in Threads |-> IF t \in Apps \union {"owner"} THEN "idle" ELSE "none"]
    /\ via = [t \in Threads |-> use]
    /\ exiting = "nobody" /\ process = "up" /\ lives = 0

At(t, step) == process = "up" /\ pc[t] = step
Goto(t, step) == pc' = [pc EXCEPT ![t] = step]
Set(f, c, value) == [f EXCEPT ![c] = value]
ClientOf(t) == IF t \in {Receiver["udp"], Ident["udp"]} THEN "udp" ELSE "unix"

---------------------------------------------------------------------------
(* The owner: CModule::init. *)

\* The transport is chosen - UDP also when the Unix socket cannot be bound -
\* and its socket made.
InitSocket(c) ==
    /\ At("owner", "idle") /\ exiting = "nobody"
    /\ lives < MaxLives
    /\ lives' = lives + 1
    /\ use' = c
    /\ open' = Set(open, c, TRUE)
    /\ address' = Set(address, c, TRUE)
    /\ Goto("owner", "receiver")
    /\ UNCHANGED <<stopped, started, dangling, held, healthExit, via, exiting, process, done>>

\* CUDPClient::init calls exit: the chunk size is refused or there is no socket,
\* or bind fails after the socket and the addresses were made.  It then closes
\* the one and deletes the others, but keeps the descriptor and the pointers.
InitFails ==
    /\ At("owner", "idle") /\ exiting = "nobody"
    /\ lives < MaxLives
    /\ lives' = lives + 1
    /\ use' = "udp"
    /\ exiting' = "owner"
    /\ Goto("owner", "stop")
    /\ \/ UNCHANGED <<open, address, dangling>>
       \/ /\ open' = Set(open, "udp", TRUE)
          /\ address' = Set(address, "udp", TRUE)
          /\ dangling' = TRUE
    /\ UNCHANGED <<stopped, started, held, healthExit, via, process, done>>

\* start: the threads, then the flag; the health thread last.
Starts(t, step, next) ==
    /\ At("owner", step)
    /\ pc' = [pc EXCEPT !["owner"] = next, ![t] = IF t = "health" THEN "idle" ELSE "loop"]

StartReceiver == Starts(Receiver[use], "receiver", "ident") /\ UNCHANGED <<clients, healthExit>>
StartIdent == Starts(Ident[use], "ident", "start") /\ UNCHANGED <<clients, healthExit>>
SetStarted ==
    /\ At("owner", "start")
    /\ started' = Set(started, use, TRUE)
    /\ Goto("owner", "health")
    /\ UNCHANGED <<stopped, open, address, dangling, healthExit>>
StartHealth == Starts("health", "health", "run") /\ healthExit' = FALSE /\ UNCHANGED clients

Startup ==
    /\ StartReceiver \/ StartIdent \/ SetStarted \/ StartHealth
    /\ UNCHANGED <<use, held, via, exiting, process, lives, done>>

---------------------------------------------------------------------------
(* sendMSG of the clients, called by CModule::sendMSG and by the ident thread. *)

\* Where a thread goes on after sending.
After(t) == IF t \in Workers THEN "loop" ELSE "idle"

\* The first check is made without the lock; only CModule asks isStarted.
BeginSend(t, c) ==
    /\ started[c] \/ t = Ident[c]
    /\ ~stopped[c]
    /\ Goto(t, "want")
    /\ via' = [via EXCEPT ![t] = c]
    /\ UNCHANGED <<use, clients, held, healthExit, exiting, process, lives, done>>

\* The lock, and the second check.
Acquire(t) ==
    LET c == via[t]
    IN  /\ At(t, "want")
        /\ ~held[c]
        /\ IF stopped[c] \/ ~open[c] \/ (c = "udp" /\ ~address[c])
           THEN Goto(t, After(t)) /\ UNCHANGED held
           ELSE Goto(t, "send") /\ held' = Set(held, c, TRUE)
        /\ UNCHANGED <<use, clients, healthExit, via, exiting, process, lives, done>>

\* sendto: the last chunk, or a failure that is given up.  A message has at
\* most two chunks here, or two attempts.
SendLast(t) ==
    /\ At(t, "send") \/ At(t, "last")
    /\ Goto(t, After(t))
    /\ held' = Set(held, via[t], FALSE)
    /\ UNCHANGED <<use, clients, healthExit, via, exiting, process, lives, done>>

\* Before the next chunk or the next attempt there is a pause.
SendFirst(t) ==
    /\ At(t, "send")
    /\ Goto(t, "pause")
    /\ UNCHANGED <<use, clients, held, healthExit, via, exiting, process, lives, done>>

\* After a pause the flag is looked at again.
Resume(t) ==
    /\ At(t, "pause")
    /\ IF stopped[via[t]]
       THEN Goto(t, After(t)) /\ held' = Set(held, via[t], FALSE)
       ELSE Goto(t, "last") /\ UNCHANGED held
    /\ UNCHANGED <<use, clients, healthExit, via, exiting, process, lives, done>>

Sending(t) == Acquire(t) \/ SendLast(t) \/ SendFirst(t) \/ Resume(t)

---------------------------------------------------------------------------
(* The threads of a client and of the module. *)

Moves(t, step, next) ==
    /\ At(t, step)
    /\ Goto(t, next)
    /\ UNCHANGED <<use, clients, held, healthExit, via, exiting, process, lives, done>>

\* InternalReceiverEntry: recvfrom ends with a datagram, even one that comes
\* after the socket was closed under it, or within a second without one.
Receives(c) ==
    LET t == Receiver[c]
    IN  \/ Moves(t, "loop", IF stopped[c] THEN "ended" ELSE "recv")
        \/ Moves(t, "recv", "loop")
        \/ Moves(t, "recv", "callback")
        \/ Moves(t, "callback", "loop")
        \/ At(t, "callback") /\ BeginSend(t, use)
        \/ Sending(t)

\* InternelSenderIDEntry
Identifies(c) ==
    LET t == Ident[c]
    IN  \/ stopped[c] /\ Moves(t, "loop", "ended")
        \/ At(t, "loop") /\ BeginSend(t, c)
        \/ Sending(t)

\* healthHeartbeatLoop
Beats ==
    \/ healthExit /\ Moves("health", "idle", "ended")
    \/ At("health", "idle") /\ ~healthExit /\ BeginSend("health", use)
    \/ Sending("health")

\* The application calls sendMSG when it likes, also after the databus stopped.
AppSends(t) == At(t, "idle") /\ BeginSend(t, use)

---------------------------------------------------------------------------
(* CModule::uninit, run by the owner or by a thread that called exit. *)

Uninit ==
    /\ At("owner", "run") /\ exiting = "nobody"
    /\ Goto("owner", "stop")
    /\ UNCHANGED <<use, clients, held, healthExit, via, exiting, process, lives, done>>

\* main returns, or CONFIG_ACTION_Restart: the static CModule is destroyed.
Exit(t) ==
    /\ \/ t = "owner" /\ (At(t, "run") \/ At(t, "idle"))
       \/ t \in {Receiver[c] : c \in Clients} /\ At(t, "callback")
    /\ exiting = "nobody"
    /\ exiting' = t
    /\ Goto(t, "stop")
    /\ UNCHANGED <<use, clients, held, healthExit, via, process, lives, done>>


\* stop: the Unix client returns when it was not started.
StopFlag(t) ==
    /\ At(t, "stop")
    /\ IF use = "unix" /\ ~started[use]
       THEN Goto(t, "joinHealth") /\ UNCHANGED stopped
       ELSE /\ stopped' = Set(stopped, use, TRUE)
            /\ Goto(t, IF use = "unix" THEN "joinReceiver" ELSE "close")
    /\ UNCHANGED <<use, started, open, address, dangling, held, healthExit, via, exiting,
                   process, lives, done>>

\* Mutant: the socket is closed without the lock.
CloseUnlocked(t) ==
    /\ At(t, "close")
    /\ open' = Set(open, use, FALSE)
    /\ IF use = "unix"
       THEN Goto(t, "joinHealth") /\ started' = Set(started, use, FALSE)
       ELSE Goto(t, IF started[use] THEN "joinReceiver" ELSE "free") /\ UNCHANGED started
    /\ UNCHANGED <<use, stopped, address, dangling, held, healthExit, via, exiting,
                   process, lives, done>>

\* Under the lock: the UDP client before the joins, the Unix client after them.
Close(t) ==
    /\ At(t, "close")
    /\ ~held[use]
    /\ open' = Set(open, use, FALSE)
    /\ IF use = "unix"
       THEN Goto(t, "joinHealth") /\ started' = Set(started, use, FALSE)
       ELSE Goto(t, IF started[use] THEN "joinReceiver" ELSE "free") /\ UNCHANGED started
    /\ UNCHANGED <<use, stopped, address, dangling, held, healthExit, via, exiting,
                   process, lives, done>>

Joined(worker) == pc[worker] \in {"none", "ended"}

\* Mutant: the receiver is left to itself.
JoinReceiverNot(t) ==
    /\ At(t, "joinReceiver")
    /\ t # Receiver[use]
    /\ pc' = [pc EXCEPT ![t] = "joinIdent"]
    /\ UNCHANGED <<use, clients, held, healthExit, via, exiting, process, lives, done>>

\* A thread that joins itself throws: stop of the UDP client catches that and
\* gives up, the other's ends in the destructor and aborts the process.
JoinReceiver(t) ==
    LET worker == Receiver[use]
    IN  /\ At(t, "joinReceiver")
        /\ \/ /\ t # worker /\ Joined(worker)
              /\ pc' = [pc EXCEPT ![t] = "joinIdent", ![worker] = "none"]
              /\ UNCHANGED process
           \/ /\ t = worker /\ use = "udp"
              /\ Goto(t, "joinHealth")
              /\ UNCHANGED process
           \/ /\ t = worker /\ use = "unix"
              /\ process' = "aborted"
              /\ UNCHANGED pc
        /\ UNCHANGED <<use, clients, held, healthExit, via, exiting, lives, done>>

JoinIdent(t) ==
    LET worker == Ident[use]
    IN  /\ At(t, "joinIdent")
        /\ Joined(worker)
        /\ pc' = [pc EXCEPT ![t] = IF use = "unix" THEN "close" ELSE "free", ![worker] = "none"]
        /\ started' = IF use = "unix" THEN started ELSE Set(started, use, FALSE)
        /\ UNCHANGED <<use, stopped, open, address, dangling, held, healthExit, via, exiting,
                       process, lives, done>>

\* The UDP client's addresses are deleted under the lock and the pointers reset.
\* Those that init has deleted are deleted once more: the allocator aborts the
\* process, or does not notice.
Free(t) ==
    /\ At(t, "free")
    /\ ~held[use]
    /\ \/ /\ address' = Set(address, use, FALSE)
          /\ dangling' = FALSE
          /\ Goto(t, "joinHealth")
          /\ UNCHANGED process
       \/ /\ dangling
          /\ process' = "aborted"
          /\ UNCHANGED <<address, dangling, pc>>
    /\ UNCHANGED <<use, stopped, started, open, held, healthExit, via, exiting, lives, done>>

\* The health thread is told and joined.
JoinHealth(t) ==
    /\ At(t, "joinHealth")
    /\ healthExit' = TRUE
    /\ IF Joined("health") /\ healthExit
       THEN /\ pc' = [pc EXCEPT ![t] = IF exiting = t THEN "destroy" ELSE "idle", !["health"] = "none"]
            /\ done' = Set(done, use, TRUE)
       ELSE UNCHANGED <<pc, done>>
    /\ UNCHANGED <<use, clients, held, via, exiting, process, lives>>

\* The clients are destroyed: a thread that was not joined aborts the process.
Destroy(t) ==
    /\ At(t, "destroy")
    /\ process' = IF \E worker \in Workers : pc[worker] # "none" THEN "aborted" ELSE "exited"
    /\ UNCHANGED <<use, clients, held, healthExit, pc, via, exiting, lives, done>>

Stopping(t) ==
    \/ StopFlag(t) \/ Close(t) \/ JoinReceiver(t) \/ JoinIdent(t)
    \/ Free(t) \/ JoinHealth(t) \/ Destroy(t)

---------------------------------------------------------------------------
Stoppers == {"owner"} \union {Receiver[c] : c \in Clients}

Next ==
    \/ \E c \in Clients : InitSocket(c)
    \/ InitFails
    \/ Startup
    \/ \E c \in Clients : Receives(c) \/ Identifies(c)
    \/ Beats
    \/ \E t \in Apps : AppSends(t) \/ Sending(t)
    \/ Uninit
    \/ \E t \in Stoppers : Exit(t) \/ Stopping(t)

Spec == Init /\ [][Next]_vars

\* Every thread is scheduled: recvfrom has a timeout of a second, callbacks
\* return.  The health thread gets the lock in the end, as the ident thread
\* leaves it for a second after each message.  Nobody has to call init, to
\* send or to stop.
Fairness ==
    /\ WF_vars(Startup)
    /\ \A c \in Clients : WF_vars(Receives(c)) /\ WF_vars(Identifies(c))
    /\ WF_vars(Beats)
    /\ \A t \in Apps : WF_vars(Sending(t))
    /\ \A t \in Stoppers : WF_vars(Stopping(t))
    /\ SF_vars(Acquire("health"))

FairSpec == Spec /\ Fairness

---------------------------------------------------------------------------
\* No thread sends on a socket that was closed or to an address that was
\* freed, however stop and the senders interleave ("re-check under lock");
\* and the Unix client's receiver never reads a closed socket.
SocketUsedWhileOpen ==
    /\ \A t \in Threads : pc[t] \in SendSteps \ {"want"} =>
          open[via[t]] /\ (via[t] = "udp" => address[via[t]] /\ ~dangling)
    /\ pc[Receiver["unix"]] = "recv" => open["unix"]

\* What uninit has stopped stays stopped: no callback runs any more and no
\* thread sends with that client - not even after another init, which starts
\* threads that end at once, since m_stopped_called is never reset.
StopIsFinal ==
    \A c \in Clients : done[c] /\ process = "up" /\ exiting \in {"nobody", "owner"} =>
        /\ pc[Receiver[c]] \in {"none", "loop", "ended"}
        /\ pc[Ident[c]] \in {"none", "loop", "ended"}
        /\ \A t \in Threads : pc[t] \in SendSteps \ {"want"} => via[t] # c

=============================================================================
