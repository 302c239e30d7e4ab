------------------------- MODULE ClientLifecycleProofs -------------------------
(***************************************************************************)
(* Proofs about ClientLifecycle, for any number of application threads and *)
(* of calls of init.                                                       *)
(***************************************************************************)
EXTENDS ClientLifecycle, TLAPS

Holding(t) == pc[t] \in {"send", "pause", "last"}
NoHolder(c) == \A t \in Threads : Holding(t) => via[t] # c
NoSender(c) == \A t \in Threads : pc[t] \in SendSteps => via[t] # c
NoWorker(c) == pc[Receiver[c]] = "none" /\ pc[Ident[c]] = "none"

\* The lock of a client is held by one thread, and what it sends with is there.
Locks ==
    /\ \A t \in Threads : Holding(t) =>
          held[via[t]] /\ open[via[t]] /\ (via[t] = "udp" => address[via[t]])
    /\ \A t, u \in Threads : Holding(t) /\ Holding(u) /\ via[t] = via[u] => t = u

\* Only a thread that called exit stops the module next to the owner, and the
\* Unix client's receiver gets no further than to itself.
Stoppage ==
    /\ \A c \in Clients : pc[Receiver[c]] \in StopSteps => exiting = Receiver[c]
    /\ pc["unixReceiver"] \notin {"joinIdent", "close", "free"}
    /\ \A t \in Threads : pc[t] \in StopSteps => t \in Stoppers
    /\ \A c \in Clients : exiting = Receiver[c] => pc[Receiver[c]] \in StopSteps

\* The threads are those of the client in use, from their start to their join.
Running ==
    /\ \A c \in Clients : c # use => NoWorker(c)
    /\ pc["owner"] = "receiver" => exiting = "nobody" /\ NoWorker(use) /\ open[use]
    /\ pc["owner"] = "joinIdent" => pc[Receiver[use]] = "none"
    /\ pc["owner"] = "close" /\ use = "unix" => NoWorker(use)
    /\ pc["unixReceiver"] # "none" => open["unix"]

\* Where the owner is in the life of the client, as long as nobody else stops it.
OwnerStops == exiting \in {"nobody", "owner"}
Past == {"joinHealth", "free", "destroy"}
Owner ==
    OwnerStops =>
        /\ pc["owner"] \in {"idle", "receiver"} \union Past => NoWorker(use)
        /\ pc["owner"] \in Past => ~started[use]
        /\ pc["owner"] = "stop" /\ exiting = "nobody" => started[use]
        /\ pc["owner"] \in {"health", "run", "stop", "joinReceiver", "joinIdent", "close"} =>
              started[use] \/ NoWorker(use)
        /\ pc["owner"] \in {"health", "run"} => started[use]
        /\ pc["owner"] \in {"idle", "receiver", "ident", "start"} => \A c \in Clients : ~started[c]
        /\ \A c \in Clients : c # use => ~started[c]
        /\ exiting = "owner" => pc["owner"] \in StopSteps

\* What was stopped has no senders any more.
Stopped ==
    OwnerStops =>
        /\ \A c \in Clients : c # use => NoHolder(c) /\ (stopped[c] \/ NoSender(c))
        /\ pc["owner"] = "idle" => \A c \in Clients : NoHolder(c) /\ (stopped[c] \/ NoSender(c))
        /\ pc["owner"] = "stop" /\ ~started[use] => NoHolder(use) /\ (stopped[use] \/ NoSender(use))
        /\ pc["owner"] \in {"joinReceiver", "joinIdent", "close"} => stopped[use]
        /\ pc["owner"] \in Past \/ (pc["owner"] \in {"joinReceiver", "joinIdent"} /\ use = "udp") =>
              /\ NoHolder(use)
              /\ stopped[use] \/ (exiting = "owner" /\ ~started[use] /\ NoSender(use))
        /\ \A c \in Clients : done[c] =>
              /\ pc[Receiver[c]] \in {"none", "loop", "ended"}
              /\ pc[Ident[c]] \in {"none", "loop", "ended"}
              /\ NoHolder(c)
              /\ \/ stopped[c]
                 \/ /\ exiting = "owner" /\ pc["owner"] \in {"joinHealth", "destroy"}
                    /\ NoWorker(c) /\ ~started[c] /\ NoSender(c)

\* Addresses that init has deleted are seen by the owner alone, on its way out.
Dangling ==
    dangling =>
        /\ use = "udp" /\ exiting = "owner" /\ ~started["udp"] /\ NoWorker("udp")
        /\ pc["owner"] \in {"stop", "close", "free"}
        /\ NoHolder("udp")
        /\ stopped["udp"] \/ (pc["owner"] = "stop" /\ NoSender("udp"))

---------------------------------------------------------------------------
(* The steps of Next, by what they do. *)

Senders == Workers \union {"health"} \union Apps

StartFrame == UNCHANGED <<use, held, via, exiting, process, lives, done>>
StepReceiver == StartReceiver /\ StartFrame
StepIdent == StartIdent /\ StartFrame
StepStarted == SetStarted /\ StartFrame
StepHealth == StartHealth /\ StartFrame

\* A thread goes on without sending.
StepMoves ==
    \/ \E c \in Clients :
          \/ Moves(Receiver[c], "loop", IF stopped[c] THEN "ended" ELSE "recv")
          \/ Moves(Receiver[c], "recv", "loop") \/ Moves(Receiver[c], "recv", "callback")
          \/ Moves(Receiver[c], "callback", "loop")
          \/ Moves(Ident[c], "loop", "ended")
    \/ Moves("health", "idle", "ended")

\* A thread starts to send: the ident thread with its own client, the others
\* with the one in use.
StepBegin ==
    \E t \in Senders, c \in Clients :
        /\ BeginSend(t, c)
        /\ \/ pc[t] = "loop" /\ t = Ident[c]
           \/ pc[t] \in {"callback", "idle"} /\ c = use

StepAcquire == \E t \in Senders : Acquire(t)
StepSendLast == \E t \in Senders : SendLast(t)
StepSendFirst == \E t \in Senders : SendFirst(t)
StepResume == \E t \in Senders : Resume(t)

StepInit == \E c \in Clients : InitSocket(c)
StepExit == \E t \in Stoppers : Exit(t)
StepStopFlag == \E t \in Stoppers : StopFlag(t)
StepClose == \E t \in Stoppers : Close(t)
StepJoinReceiver == \E t \in Stoppers : JoinReceiver(t)
StepJoinIdent == \E t \in Stoppers : JoinIdent(t)
StepFree == \E t \in Stoppers : Free(t)
StepJoinHealth == \E t \in Stoppers : JoinHealth(t)
StepDestroy == \E t \in Stoppers : Destroy(t)

LEMMA Names ==
    /\ Clients = {"udp", "unix"}
    /\ Receiver["udp"] = "udpReceiver" /\ Receiver["unix"] = "unixReceiver"
    /\ Ident["udp"] = "udpIdent" /\ Ident["unix"] = "unixIdent"
    /\ Workers = {"udpReceiver", "unixReceiver", "udpIdent", "unixIdent"}
    /\ Stoppers = {"owner", "udpReceiver", "unixReceiver"}
    /\ Threads = {"owner", "health"} \union Workers \union Apps
    /\ Senders = {"health", "udpReceiver", "unixReceiver", "udpIdent", "unixIdent"} \union Apps
    /\ \A t \in Apps : t \notin {"owner", "health", "udpReceiver", "unixReceiver", "udpIdent", "unixIdent"}
<1>1. /\ Receiver["udp"] = "udpReceiver" /\ Receiver["unix"] = "unixReceiver"
      /\ Ident["udp"] = "udpIdent" /\ Ident["unix"] = "unixIdent"
  BY DEF Receiver, Ident
<1>2. Workers = {"udpReceiver", "unixReceiver", "udpIdent", "unixIdent"}
  BY <1>1 DEF Workers, Clients
<1>3. Stoppers = {"owner", "udpReceiver", "unixReceiver"}
  BY <1>1 DEF Stoppers, Clients
<1> QED BY <1>1, <1>2, <1>3, LifecycleAssumption DEF Clients, Threads, Own, Senders

Typing ==
    /\ use \in Clients
    /\ stopped \in [Clients -> BOOLEAN] /\ started \in [Clients -> BOOLEAN]
    /\ open \in [Clients -> BOOLEAN] /\ address \in [Clients -> BOOLEAN]
    /\ held \in [Clients -> BOOLEAN] /\ done \in [Clients -> BOOLEAN]
    /\ healthExit \in BOOLEAN /\ dangling \in BOOLEAN
    /\ pc \in [Threads -> Steps]
    /\ via \in [Threads -> Clients]
    /\ exiting \in Threads \union {"nobody"}
    /\ process \in {"up", "exited", "aborted"}
    /\ lives \in 0..MaxLives

LEMMA Typed == TypeOK => Typing
BY DEF TypeOK, Typing

LEMMA SetTyped ==
    ASSUME NEW f \in [Clients -> BOOLEAN], NEW c
    PROVE  /\ [f EXCEPT ![c] = TRUE] \in [Clients -> BOOLEAN]
           /\ [f EXCEPT ![c] = FALSE] \in [Clients -> BOOLEAN]
OBVIOUS

LEMMA GotoTyped ==
    ASSUME pc \in [Threads -> Steps], NEW t, NEW step \in Steps, Goto(t, step)
    PROVE  pc' \in [Threads -> Steps]
BY DEF Goto

LEMMA AfterTyped == ASSUME NEW t PROVE After(t) \in Steps
BY DEF After, Steps

LEMMA StepCases ==
    ASSUME TypeOK, [Next]_vars
    PROVE  \/ StepInit \/ InitFails \/ StepReceiver \/ StepIdent \/ StepStarted \/ StepHealth
           \/ StepMoves \/ StepBegin \/ StepAcquire \/ StepSendLast \/ StepSendFirst
           \/ StepResume \/ Uninit \/ StepExit \/ StepStopFlag \/ StepClose
           \/ StepJoinReceiver \/ StepJoinIdent \/ StepFree \/ StepJoinHealth \/ StepDestroy
           \/ UNCHANGED vars
<1>1. CASE Startup
  BY <1>1 DEF Startup, StepReceiver, StepIdent, StepStarted, StepHealth, StartFrame
<1>2. ASSUME NEW t \in Senders, Sending(t)
      PROVE  StepAcquire \/ StepSendLast \/ StepSendFirst \/ StepResume
  BY <1>2 DEF Sending, StepAcquire, StepSendLast, StepSendFirst, StepResume
<1>3. ASSUME NEW c \in Clients, Receives(c)
      PROVE  StepMoves \/ StepBegin \/ StepAcquire \/ StepSendLast \/ StepSendFirst \/ StepResume
  <2>1. Receiver[c] \in Senders
    BY Names
  <2>2. CASE At(Receiver[c], "callback") /\ BeginSend(Receiver[c], use)
    BY <2>1, <2>2 DEF StepBegin, At, TypeOK
  <2> QED BY <1>2, <1>3, <2>1, <2>2 DEF Receives, StepMoves
<1>4. ASSUME NEW c \in Clients, Identifies(c)
      PROVE  StepMoves \/ StepBegin \/ StepAcquire \/ StepSendLast \/ StepSendFirst \/ StepResume
  <2>1. Ident[c] \in Senders
    BY Names
  <2>2. CASE At(Ident[c], "loop") /\ BeginSend(Ident[c], c)
    BY <2>1, <2>2 DEF StepBegin, At
  <2> QED BY <1>2, <1>4, <2>1, <2>2 DEF Identifies, StepMoves
<1>5. CASE Beats
  <2>1. "health" \in Senders
    BY Names
  <2>2. CASE At("health", "idle") /\ BeginSend("health", use)
    BY <2>1, <2>2 DEF StepBegin, At, TypeOK
  <2> QED BY <1>2, <1>5, <2>1, <2>2 DEF Beats, StepMoves
<1>6. ASSUME NEW t \in Apps, AppSends(t) \/ Sending(t)
      PROVE  StepBegin \/ StepAcquire \/ StepSendLast \/ StepSendFirst \/ StepResume
  <2>1. t \in Senders
    BY DEF Senders
  <2>2. CASE AppSends(t)
    BY <2>1, <2>2 DEF AppSends, StepBegin, At, TypeOK
  <2> QED BY <1>2, <1>6, <2>1, <2>2
<1>7. ASSUME NEW t \in Stoppers, Exit(t) \/ Stopping(t)
      PROVE  \/ StepExit \/ StepStopFlag \/ StepClose \/ StepJoinReceiver \/ StepJoinIdent
             \/ StepFree \/ StepJoinHealth \/ StepDestroy
  BY <1>7 DEF Stopping, StepExit, StepStopFlag, StepClose, StepJoinReceiver, StepJoinIdent,
              StepFree, StepJoinHealth, StepDestroy
<1> QED BY <1>1, <1>3, <1>4, <1>5, <1>6, <1>7 DEF Next, StepInit

IInv == TypeOK /\ Locks /\ Stoppage /\ Running /\ Owner /\ Stopped /\ Dangling

\* Every step keeps the types.
LEMMA TypesKept == ASSUME IInv, [Next]_vars PROVE TypeOK'
<1>0. Typing
  BY Typed DEF IInv
<1> USE Names, <1>0 DEF Typing, IInv, Steps, SendSteps, StopSteps
<1>1. CASE StepInit
  <2>1. pc' \in [Threads -> Steps]
    BY <1>1 DEF StepInit, InitSocket, At, clients, Goto
  <2>2. open' \in [Clients -> BOOLEAN]
    BY <1>1, SetTyped DEF StepInit, InitSocket, At, clients, Set
  <2>3. address' \in [Clients -> BOOLEAN]
    BY <1>1, SetTyped DEF StepInit, InitSocket, At, clients, Set
  <2>4. /\ stopped' \in [Clients -> BOOLEAN]
        /\ started' \in [Clients -> BOOLEAN]
        /\ held' \in [Clients -> BOOLEAN]
        /\ done' \in [Clients -> BOOLEAN]
    BY <1>1 DEF StepInit, InitSocket, At, clients
  <2>5. /\ use' \in Clients /\ healthExit' \in BOOLEAN /\ dangling' \in BOOLEAN
        /\ via' \in [Threads -> Clients]
        /\ exiting' \in Threads \union {"nobody"}
        /\ process' \in {"up", "exited", "aborted"}
        /\ lives' \in 0..MaxLives
    BY <1>1, LifecycleAssumption DEF StepInit, InitSocket, At, clients
  <2> QED BY <2>1, <2>2, <2>3, <2>4, <2>5 DEF TypeOK
<1>2. CASE StepReceiver
  BY <1>2 DEF TypeOK, StepReceiver, StartReceiver, Starts, StartFrame, At, Goto, Set,
      clients
<1>3. CASE StepIdent
  BY <1>3 DEF TypeOK, StepIdent, StartIdent, Starts, StartFrame, At, Goto, Set, clients
<1>4. CASE StepStarted
  BY <1>4 DEF TypeOK, StepStarted, SetStarted, StartFrame, At, Goto, Set, clients
<1>5. CASE StepHealth
  BY <1>5 DEF TypeOK, StepHealth, StartHealth, Starts, StartFrame, At, Goto, Set,
      clients
<1>6. CASE StepMoves
  <2>1. pc' \in [Threads -> Steps]
    BY <1>6, ZenonT(60) DEF StepMoves, Moves, At, clients, Goto
  <2>2. /\ stopped' \in [Clients -> BOOLEAN]
        /\ started' \in [Clients -> BOOLEAN]
        /\ open' \in [Clients -> BOOLEAN]
        /\ address' \in [Clients -> BOOLEAN]
        /\ held' \in [Clients -> BOOLEAN]
        /\ done' \in [Clients -> BOOLEAN]
    BY <1>6 DEF StepMoves, Moves, At, clients
  <2>3. /\ use' \in Clients /\ healthExit' \in BOOLEAN /\ dangling' \in BOOLEAN
        /\ via' \in [Threads -> Clients]
        /\ exiting' \in Threads \union {"nobody"}
        /\ process' \in {"up", "exited", "aborted"}
        /\ lives' \in 0..MaxLives
    BY <1>6 DEF StepMoves, Moves, At, clients
  <2> QED BY <2>1, <2>2, <2>3 DEF TypeOK
<1>7. CASE StepBegin
  BY <1>7 DEF TypeOK, StepBegin, BeginSend, At, Goto, Set, clients
<1>8. CASE StepAcquire
  <2> PICK t \in Senders : Acquire(t)
    BY <1>8 DEF StepAcquire
  <2>1. pc' \in [Threads -> Steps]
    <3>1. Goto(t, After(t)) \/ Goto(t, "send")
      BY DEF Acquire, After
    <3> QED BY <3>1, GotoTyped, AfterTyped
  <2>2. held' \in [Clients -> BOOLEAN]
    <3>1. UNCHANGED held \/ held' = [held EXCEPT ![via[t]] = TRUE]
      BY DEF Acquire, After, clients, Set
    <3> QED BY <3>1, SetTyped
  <2>3. /\ stopped' \in [Clients -> BOOLEAN]
        /\ started' \in [Clients -> BOOLEAN]
        /\ open' \in [Clients -> BOOLEAN]
        /\ address' \in [Clients -> BOOLEAN]
        /\ done' \in [Clients -> BOOLEAN]
    BY DEF Acquire, After, clients
  <2>4. /\ use' \in Clients /\ healthExit' \in BOOLEAN /\ dangling' \in BOOLEAN
        /\ via' \in [Threads -> Clients]
        /\ exiting' \in Threads \union {"nobody"}
        /\ process' \in {"up", "exited", "aborted"}
        /\ lives' \in 0..MaxLives
    BY DEF Acquire, After, clients
  <2> QED BY <2>1, <2>2, <2>3, <2>4 DEF TypeOK
<1>9. CASE StepSendLast
  BY <1>9 DEF TypeOK, StepSendLast, SendLast, After, At, Goto, Set, clients
<1>10. CASE StepSendFirst
  BY <1>10 DEF TypeOK, StepSendFirst, SendFirst, At, Goto, Set, clients
<1>11. CASE StepResume
  <2> PICK t \in Senders : Resume(t)
    BY <1>11 DEF StepResume
  <2>1. pc' \in [Threads -> Steps]
    <3>1. Goto(t, After(t)) \/ Goto(t, "last")
      BY DEF Resume, After
    <3> QED BY <3>1, GotoTyped, AfterTyped
  <2>2. held' \in [Clients -> BOOLEAN]
    <3>1. UNCHANGED held \/ held' = [held EXCEPT ![via[t]] = FALSE]
      BY DEF Resume, After, clients, Set
    <3> QED BY <3>1, SetTyped
  <2>3. /\ stopped' \in [Clients -> BOOLEAN]
        /\ started' \in [Clients -> BOOLEAN]
        /\ open' \in [Clients -> BOOLEAN]
        /\ address' \in [Clients -> BOOLEAN]
        /\ done' \in [Clients -> BOOLEAN]
    BY DEF Resume, After, clients
  <2>4. /\ use' \in Clients /\ healthExit' \in BOOLEAN /\ dangling' \in BOOLEAN
        /\ via' \in [Threads -> Clients]
        /\ exiting' \in Threads \union {"nobody"}
        /\ process' \in {"up", "exited", "aborted"}
        /\ lives' \in 0..MaxLives
    BY DEF Resume, After, clients
  <2> QED BY <2>1, <2>2, <2>3, <2>4 DEF TypeOK
<1>12. CASE Uninit
  BY <1>12 DEF TypeOK, Uninit, At, Goto, Set, clients
<1>13. CASE StepExit
  BY <1>13 DEF TypeOK, StepExit, Exit, At, Goto, Set, clients
<1>14. CASE StepStopFlag
  <2> PICK t \in Stoppers : StopFlag(t)
    BY <1>14 DEF StepStopFlag
  <2>1. pc' \in [Threads -> Steps]
    <3>1. Goto(t, "joinHealth") \/ Goto(t, "joinReceiver") \/ Goto(t, "close")
      BY DEF StopFlag
    <3> QED BY <3>1, GotoTyped, AfterTyped
  <2>2. stopped' \in [Clients -> BOOLEAN]
    <3>1. UNCHANGED stopped \/ stopped' = [stopped EXCEPT ![use] = TRUE]
      BY DEF StopFlag, clients, Set
    <3> QED BY <3>1, SetTyped
  <2>3. /\ started' \in [Clients -> BOOLEAN]
        /\ open' \in [Clients -> BOOLEAN]
        /\ address' \in [Clients -> BOOLEAN]
        /\ held' \in [Clients -> BOOLEAN]
        /\ done' \in [Clients -> BOOLEAN]
    BY DEF StopFlag, clients
  <2>4. /\ use' \in Clients /\ healthExit' \in BOOLEAN /\ dangling' \in BOOLEAN
        /\ via' \in [Threads -> Clients]
        /\ exiting' \in Threads \union {"nobody"}
        /\ process' \in {"up", "exited", "aborted"}
        /\ lives' \in 0..MaxLives
    BY DEF StopFlag, clients
  <2> QED BY <2>1, <2>2, <2>3, <2>4 DEF TypeOK
<1>15. CASE StepClose
  <2> PICK t \in Stoppers : Close(t)
    BY <1>15 DEF StepClose
  <2>1. pc' \in [Threads -> Steps]
    <3>1. Goto(t, "joinHealth") \/ Goto(t, "joinReceiver") \/ Goto(t, "free")
      BY DEF Close
    <3> QED BY <3>1, GotoTyped, AfterTyped
  <2>2. open' \in [Clients -> BOOLEAN]
    <3>1. UNCHANGED open \/ open' = [open EXCEPT ![use] = FALSE]
      BY DEF Close, clients, Set
    <3> QED BY <3>1, SetTyped
  <2>3. started' \in [Clients -> BOOLEAN]
    <3>1. UNCHANGED started \/ started' = [started EXCEPT ![use] = FALSE]
      BY DEF Close, clients, Set
    <3> QED BY <3>1, SetTyped
  <2>4. /\ stopped' \in [Clients -> BOOLEAN]
        /\ address' \in [Clients -> BOOLEAN]
        /\ held' \in [Clients -> BOOLEAN]
        /\ done' \in [Clients -> BOOLEAN]
    BY DEF Close, clients
  <2>5. /\ use' \in Clients /\ healthExit' \in BOOLEAN /\ dangling' \in BOOLEAN
        /\ via' \in [Threads -> Clients]
        /\ exiting' \in Threads \union {"nobody"}
        /\ process' \in {"up", "exited", "aborted"}
        /\ lives' \in 0..MaxLives
    BY DEF Close, clients
  <2> QED BY <2>1, <2>2, <2>3, <2>4, <2>5 DEF TypeOK
<1>16. CASE StepJoinReceiver
  <2>1. pc' \in [Threads -> Steps]
    BY <1>16, ZenonT(60) DEF StepJoinReceiver, JoinReceiver, Joined, At, clients, Goto
  <2>2. /\ stopped' \in [Clients -> BOOLEAN]
        /\ started' \in [Clients -> BOOLEAN]
        /\ open' \in [Clients -> BOOLEAN]
        /\ address' \in [Clients -> BOOLEAN]
        /\ held' \in [Clients -> BOOLEAN]
        /\ done' \in [Clients -> BOOLEAN]
    BY <1>16 DEF StepJoinReceiver, JoinReceiver, Joined, At, clients
  <2>3. /\ use' \in Clients /\ healthExit' \in BOOLEAN /\ dangling' \in BOOLEAN
        /\ via' \in [Threads -> Clients]
        /\ exiting' \in Threads \union {"nobody"}
        /\ process' \in {"up", "exited", "aborted"}
        /\ lives' \in 0..MaxLives
    BY <1>16 DEF StepJoinReceiver, JoinReceiver, Joined, At, clients
  <2> QED BY <2>1, <2>2, <2>3 DEF TypeOK
<1>17. CASE StepJoinIdent
  <2>1. pc' \in [Threads -> Steps]
    BY <1>17, ZenonT(60) DEF StepJoinIdent, JoinIdent, Joined, At, clients, Goto
  <2>2. started' \in [Clients -> BOOLEAN]
    BY <1>17, SetTyped DEF StepJoinIdent, JoinIdent, Joined, At, clients, Set
  <2>3. /\ stopped' \in [Clients -> BOOLEAN]
        /\ open' \in [Clients -> BOOLEAN]
        /\ address' \in [Clients -> BOOLEAN]
        /\ held' \in [Clients -> BOOLEAN]
        /\ done' \in [Clients -> BOOLEAN]
    BY <1>17 DEF StepJoinIdent, JoinIdent, Joined, At, clients
  <2>4. /\ use' \in Clients /\ healthExit' \in BOOLEAN /\ dangling' \in BOOLEAN
        /\ via' \in [Threads -> Clients]
        /\ exiting' \in Threads \union {"nobody"}
        /\ process' \in {"up", "exited", "aborted"}
        /\ lives' \in 0..MaxLives
    BY <1>17 DEF StepJoinIdent, JoinIdent, Joined, At, clients
  <2> QED BY <2>1, <2>2, <2>3, <2>4 DEF TypeOK
<1>18. CASE StepFree
  <2> PICK t \in Stoppers : Free(t)
    BY <1>18 DEF StepFree
  <2>1. pc' \in [Threads -> Steps]
    <3>1. Goto(t, "joinHealth") \/ UNCHANGED pc
      BY DEF Free
    <3> QED BY <3>1, GotoTyped
  <2>2. address' \in [Clients -> BOOLEAN] /\ dangling' \in BOOLEAN
    <3>1. (UNCHANGED address \/ address' = [address EXCEPT ![use] = FALSE])
            /\ (UNCHANGED dangling \/ dangling' = FALSE)
      BY DEF Free, Set
    <3> QED BY <3>1, SetTyped
  <2>3. /\ stopped' \in [Clients -> BOOLEAN]
        /\ started' \in [Clients -> BOOLEAN]
        /\ open' \in [Clients -> BOOLEAN]
        /\ held' \in [Clients -> BOOLEAN]
        /\ done' \in [Clients -> BOOLEAN]
    BY DEF Free
  <2>4. /\ use' \in Clients /\ healthExit' \in BOOLEAN /\ via' \in [Threads -> Clients]
        /\ exiting' \in Threads \union {"nobody"}
        /\ process' \in {"up", "exited", "aborted"}
        /\ lives' \in 0..MaxLives
    BY DEF Free
  <2> QED BY <2>1, <2>2, <2>3, <2>4 DEF TypeOK
<1>19. CASE StepJoinHealth
  <2>1. pc' \in [Threads -> Steps]
    <3>1. PICK t \in Stoppers : JoinHealth(t)
      BY <1>19 DEF StepJoinHealth
    <3>2. UNCHANGED pc \/ pc' = [pc EXCEPT ![t] = IF exiting = t THEN "destroy" ELSE "idle",
                                       !["health"] = "none"]
      BY <3>1 DEF JoinHealth
    <3> QED BY <3>2
  <2>2. done' \in [Clients -> BOOLEAN]
    BY <1>19, SetTyped DEF StepJoinHealth, JoinHealth, Joined, At, clients, Set
  <2>3. /\ stopped' \in [Clients -> BOOLEAN]
        /\ started' \in [Clients -> BOOLEAN]
        /\ open' \in [Clients -> BOOLEAN]
        /\ address' \in [Clients -> BOOLEAN]
        /\ held' \in [Clients -> BOOLEAN]
    BY <1>19 DEF StepJoinHealth, JoinHealth, Joined, At, clients
  <2>4. /\ use' \in Clients /\ healthExit' \in BOOLEAN /\ dangling' \in BOOLEAN
        /\ via' \in [Threads -> Clients]
        /\ exiting' \in Threads \union {"nobody"}
        /\ process' \in {"up", "exited", "aborted"}
        /\ lives' \in 0..MaxLives
    BY <1>19 DEF StepJoinHealth, JoinHealth, Joined, At, clients
  <2> QED BY <2>1, <2>2, <2>3, <2>4 DEF TypeOK
<1>20. CASE StepDestroy
  BY <1>20 DEF TypeOK, StepDestroy, Destroy, At, Goto, Set, clients
<1>21. CASE UNCHANGED vars
  BY <1>21 DEF TypeOK, vars, clients
<1>22. CASE InitFails
  <2>1. pc' \in [Threads -> Steps]
    BY <1>22, GotoTyped DEF InitFails
  <2>2. /\ open' \in [Clients -> BOOLEAN] /\ address' \in [Clients -> BOOLEAN]
        /\ dangling' \in BOOLEAN
    <3>1. \/ UNCHANGED <<open, address, dangling>>
          \/ /\ open' = [open EXCEPT !["udp"] = TRUE]
             /\ address' = [address EXCEPT !["udp"] = TRUE]
             /\ dangling' = TRUE
      BY <1>22 DEF InitFails, Set
    <3> QED BY <3>1, SetTyped
  <2>3. /\ stopped' \in [Clients -> BOOLEAN]
        /\ started' \in [Clients -> BOOLEAN]
        /\ held' \in [Clients -> BOOLEAN]
        /\ done' \in [Clients -> BOOLEAN]
    BY <1>22 DEF InitFails
  <2>4. /\ use' \in Clients /\ healthExit' \in BOOLEAN /\ via' \in [Threads -> Clients]
        /\ exiting' \in Threads \union {"nobody"}
        /\ process' \in {"up", "exited", "aborted"}
        /\ lives' \in 0..MaxLives
    BY <1>22, LifecycleAssumption DEF InitFails
  <2> QED BY <2>1, <2>2, <2>3, <2>4 DEF TypeOK
<1> QED BY StepCases, <1>1, <1>2, <1>3, <1>4, <1>5, <1>6, <1>7, <1>8, <1>9, <1>10,
    <1>11, <1>12, <1>13, <1>14, <1>15, <1>16, <1>17, <1>18, <1>19, <1>20, <1>21, <1>22

\* A client is only closed and freed under its lock.
LEMMA LocksKept == ASSUME IInv, [Next]_vars PROVE Locks'
<1>0. Typing
  BY Typed DEF IInv
<1> USE Names, <1>0 DEF Typing, IInv, Locks, Holding
<1>1. CASE StepInit
  BY <1>1 DEF StepInit, InitSocket, At, Goto, Set, clients
<1>2. CASE StepReceiver
  BY <1>2 DEF StepReceiver, StartReceiver, Starts, StartFrame, At, Goto, Set, clients
<1>3. CASE StepIdent
  BY <1>3 DEF StepIdent, StartIdent, Starts, StartFrame, At, Goto, Set, clients
<1>4. CASE StepStarted
  BY <1>4 DEF StepStarted, SetStarted, StartFrame, At, Goto, Set, clients
<1>5. CASE StepHealth
  BY <1>5 DEF StepHealth, StartHealth, Starts, StartFrame, At, Goto, Set, clients
<1>6. CASE StepMoves
  BY <1>6 DEF StepMoves, Moves, At, Goto, Set, clients
<1>7. CASE StepBegin
  BY <1>7 DEF StepBegin, BeginSend, At, Goto, Set, clients
<1>8. CASE StepAcquire
  BY <1>8 DEF StepAcquire, Acquire, After, At, Goto, Set, clients
<1>9. CASE StepSendLast
  BY <1>9 DEF StepSendLast, SendLast, After, At, Goto, Set, clients
<1>10. CASE StepSendFirst
  BY <1>10 DEF StepSendFirst, SendFirst, At, Goto, Set, clients
<1>11. CASE StepResume
  BY <1>11 DEF StepResume, Resume, After, At, Goto, Set, clients
<1>12. CASE Uninit
  BY <1>12 DEF Uninit, At, Goto, Set, clients
<1>13. CASE StepExit
  BY <1>13 DEF StepExit, Exit, At, Goto, Set, clients
<1>14. CASE StepStopFlag
  BY <1>14 DEF StepStopFlag, StopFlag, At, Goto, Set, clients
<1>15. CASE StepClose
  BY <1>15 DEF StepClose, Close, At, Goto, Set, clients
<1>16. CASE StepJoinReceiver
  BY <1>16 DEF StepJoinReceiver, JoinReceiver, Joined, At, Goto, Set, clients
<1>17. CASE StepJoinIdent
  BY <1>17 DEF StepJoinIdent, JoinIdent, Joined, At, Goto, Set, clients
<1>18. CASE StepFree
  BY <1>18 DEF StepFree, Free, At, Goto, Set, clients
<1>19. CASE StepJoinHealth
  BY <1>19 DEF StepJoinHealth, JoinHealth, Joined, At, Goto, Set, clients
<1>20. CASE StepDestroy
  BY <1>20 DEF StepDestroy, Destroy, At, Goto, Set, clients
<1>21. CASE UNCHANGED vars
  BY <1>21 DEF vars, clients
<1>22. CASE InitFails
  BY <1>22 DEF InitFails, At, Goto, Set, clients
<1> QED BY StepCases, <1>1, <1>2, <1>3, <1>4, <1>5, <1>6, <1>7, <1>8, <1>9, <1>10,
    <1>11, <1>12, <1>13, <1>14, <1>15, <1>16, <1>17, <1>18, <1>19, <1>20, <1>21, <1>22

\* A receiver stops the module only after its call of exit.
LEMMA StoppageKept == ASSUME IInv, [Next]_vars PROVE Stoppage'
<1>0. Typing
  BY Typed DEF IInv
<1> USE Names, <1>0 DEF Typing, IInv, Stoppage, Running, NoWorker, StopSteps, SendSteps
<1>1. CASE StepInit
  BY <1>1 DEF StepInit, InitSocket, At, Goto, Set, clients
<1>2. CASE StepReceiver
  BY <1>2 DEF StepReceiver, StartReceiver, Starts, StartFrame, At, Goto, Set, clients
<1>3. CASE StepIdent
  BY <1>3 DEF StepIdent, StartIdent, Starts, StartFrame, At, Goto, Set, clients
<1>4. CASE StepStarted
  BY <1>4 DEF StepStarted, SetStarted, StartFrame, At, Goto, Set, clients
<1>5. CASE StepHealth
  BY <1>5 DEF StepHealth, StartHealth, Starts, StartFrame, At, Goto, Set, clients
<1>6. CASE StepMoves
  BY <1>6 DEF StepMoves, Moves, At, Goto, Set, clients
<1>7. CASE StepBegin
  BY <1>7 DEF StepBegin, BeginSend, At, Goto, Set, clients
<1>8. CASE StepAcquire
  BY <1>8 DEF StepAcquire, Acquire, After, At, Goto, Set, clients
<1>9. CASE StepSendLast
  BY <1>9 DEF StepSendLast, SendLast, After, At, Goto, Set, clients
<1>10. CASE StepSendFirst
  BY <1>10 DEF StepSendFirst, SendFirst, At, Goto, Set, clients
<1>11. CASE StepResume
  BY <1>11 DEF StepResume, Resume, After, At, Goto, Set, clients
<1>12. CASE Uninit
  BY <1>12 DEF Uninit, At, Goto, Set, clients
<1>13. CASE StepExit
  BY <1>13 DEF StepExit, Exit, At, Goto, Set, clients
<1>14. CASE StepStopFlag
  BY <1>14 DEF StepStopFlag, StopFlag, At, Goto, Set, clients
<1>15. CASE StepClose
  BY <1>15 DEF StepClose, Close, At, Goto, Set, clients
<1>16. CASE StepJoinReceiver
  BY <1>16 DEF StepJoinReceiver, JoinReceiver, Joined, At, Goto, Set, clients
<1>17. CASE StepJoinIdent
  BY <1>17 DEF StepJoinIdent, JoinIdent, Joined, At, Goto, Set, clients
<1>18. CASE StepFree
  BY <1>18 DEF StepFree, Free, At, Goto, Set, clients
<1>19. CASE StepJoinHealth
  BY <1>19 DEF StepJoinHealth, JoinHealth, Joined, At, Goto, Set, clients
<1>20. CASE StepDestroy
  BY <1>20 DEF StepDestroy, Destroy, At, Goto, Set, clients
<1>21. CASE UNCHANGED vars
  BY <1>21 DEF vars, clients
<1>22. CASE InitFails
  BY <1>22 DEF InitFails, At, Goto, Set, clients
<1> QED BY StepCases, <1>1, <1>2, <1>3, <1>4, <1>5, <1>6, <1>7, <1>8, <1>9, <1>10,
    <1>11, <1>12, <1>13, <1>14, <1>15, <1>16, <1>17, <1>18, <1>19, <1>20, <1>21, <1>22

\* Only the client in use has threads.
LEMMA RunningKept == ASSUME IInv, [Next]_vars PROVE Running'
<1>0. Typing
  BY Typed DEF IInv
<1> USE Names, <1>0 DEF Typing, IInv, Stoppage, Running, Owner, OwnerStops, Past,
    NoWorker, StopSteps
<1>1. CASE StepInit
  BY <1>1 DEF StepInit, InitSocket, At, Goto, Set, clients
<1>2. CASE StepReceiver
  BY <1>2 DEF StepReceiver, StartReceiver, Starts, StartFrame, At, Goto, Set, clients
<1>3. CASE StepIdent
  BY <1>3 DEF StepIdent, StartIdent, Starts, StartFrame, At, Goto, Set, clients
<1>4. CASE StepStarted
  BY <1>4 DEF StepStarted, SetStarted, StartFrame, At, Goto, Set, clients
<1>5. CASE StepHealth
  BY <1>5 DEF StepHealth, StartHealth, Starts, StartFrame, At, Goto, Set, clients
<1>6. CASE StepMoves
  BY <1>6 DEF StepMoves, Moves, At, Goto, Set, clients
<1>7. CASE StepBegin
  BY <1>7 DEF StepBegin, BeginSend, At, Goto, Set, clients
<1>8. CASE StepAcquire
  BY <1>8 DEF StepAcquire, Acquire, After, At, Goto, Set, clients
<1>9. CASE StepSendLast
  BY <1>9 DEF StepSendLast, SendLast, After, At, Goto, Set, clients
<1>10. CASE StepSendFirst
  BY <1>10 DEF StepSendFirst, SendFirst, At, Goto, Set, clients
<1>11. CASE StepResume
  BY <1>11 DEF StepResume, Resume, After, At, Goto, Set, clients
<1>12. CASE Uninit
  BY <1>12 DEF Uninit, At, Goto, Set, clients
<1>13. CASE StepExit
  BY <1>13 DEF StepExit, Exit, At, Goto, Set, clients
<1>14. CASE StepStopFlag
  BY <1>14 DEF StepStopFlag, StopFlag, At, Goto, Set, clients
<1>15. CASE StepClose
  BY <1>15 DEF StepClose, Close, At, Goto, Set, clients
<1>16. CASE StepJoinReceiver
  BY <1>16 DEF StepJoinReceiver, JoinReceiver, Joined, At, Goto, Set, clients
<1>17. CASE StepJoinIdent
  BY <1>17 DEF StepJoinIdent, JoinIdent, Joined, At, Goto, Set, clients
<1>18. CASE StepFree
  BY <1>18 DEF StepFree, Free, At, Goto, Set, clients
<1>19. CASE StepJoinHealth
  BY <1>19 DEF StepJoinHealth, JoinHealth, Joined, At, Goto, Set, clients
<1>20. CASE StepDestroy
  BY <1>20 DEF StepDestroy, Destroy, At, Goto, Set, clients
<1>21. CASE UNCHANGED vars
  BY <1>21 DEF vars, clients
<1>22. CASE InitFails
  BY <1>22 DEF InitFails, At, Goto, Set, clients
<1> QED BY StepCases, <1>1, <1>2, <1>3, <1>4, <1>5, <1>6, <1>7, <1>8, <1>9, <1>10,
    <1>11, <1>12, <1>13, <1>14, <1>15, <1>16, <1>17, <1>18, <1>19, <1>20, <1>21, <1>22

\* The owner starts and joins the threads in order.
LEMMA OwnerKept == ASSUME IInv, [Next]_vars PROVE Owner'
<1>0. Typing
  BY Typed DEF IInv
<1> USE Names, <1>0 DEF Typing, IInv, Stoppage, Running, Owner, OwnerStops, Past,
    NoWorker, StopSteps
<1>1. CASE StepInit
  BY <1>1 DEF StepInit, InitSocket, At, Goto, Set, clients
<1>2. CASE StepReceiver
  BY <1>2 DEF StepReceiver, StartReceiver, Starts, StartFrame, At, Goto, Set, clients
<1>3. CASE StepIdent
  BY <1>3 DEF StepIdent, StartIdent, Starts, StartFrame, At, Goto, Set, clients
<1>4. CASE StepStarted
  BY <1>4 DEF StepStarted, SetStarted, StartFrame, At, Goto, Set, clients
<1>5. CASE StepHealth
  BY <1>5 DEF StepHealth, StartHealth, Starts, StartFrame, At, Goto, Set, clients
<1>6. CASE StepMoves
  BY <1>6 DEF StepMoves, Moves, At, Goto, Set, clients
<1>7. CASE StepBegin
  BY <1>7 DEF StepBegin, BeginSend, At, Goto, Set, clients
<1>8. CASE StepAcquire
  BY <1>8 DEF StepAcquire, Acquire, After, At, Goto, Set, clients
<1>9. CASE StepSendLast
  BY <1>9 DEF StepSendLast, SendLast, After, At, Goto, Set, clients
<1>10. CASE StepSendFirst
  BY <1>10 DEF StepSendFirst, SendFirst, At, Goto, Set, clients
<1>11. CASE StepResume
  BY <1>11 DEF StepResume, Resume, After, At, Goto, Set, clients
<1>12. CASE Uninit
  BY <1>12 DEF Uninit, At, Goto, Set, clients
<1>13. CASE StepExit
  BY <1>13 DEF StepExit, Exit, At, Goto, Set, clients
<1>14. CASE StepStopFlag
  BY <1>14 DEF StepStopFlag, StopFlag, At, Goto, Set, clients
<1>15. CASE StepClose
  BY <1>15 DEF StepClose, Close, At, Goto, Set, clients
<1>16. CASE StepJoinReceiver
  BY <1>16 DEF StepJoinReceiver, JoinReceiver, Joined, At, Goto, Set, clients
<1>17. CASE StepJoinIdent
  BY <1>17 DEF StepJoinIdent, JoinIdent, Joined, At, Goto, Set, clients
<1>18. CASE StepFree
  BY <1>18 DEF StepFree, Free, At, Goto, Set, clients
<1>19. CASE StepJoinHealth
  BY <1>19 DEF StepJoinHealth, JoinHealth, Joined, At, Goto, Set, clients
<1>20. CASE StepDestroy
  BY <1>20 DEF StepDestroy, Destroy, At, Goto, Set, clients
<1>21. CASE UNCHANGED vars
  BY <1>21 DEF vars, clients
<1>22. CASE InitFails
  BY <1>22 DEF InitFails, At, Goto, Set, clients
<1> QED BY StepCases, <1>1, <1>2, <1>3, <1>4, <1>5, <1>6, <1>7, <1>8, <1>9, <1>10,
    <1>11, <1>12, <1>13, <1>14, <1>15, <1>16, <1>17, <1>18, <1>19, <1>20, <1>21, <1>22

\* A client that was stopped gets no sender back.
LEMMA StoppedKept == ASSUME IInv, [Next]_vars PROVE Stopped'
<1>0. Typing
  BY Typed DEF IInv
<1> USE Names, <1>0 DEF Typing, IInv, Locks, Holding, Stoppage, Running, Owner,
    Stopped, OwnerStops, Past, NoWorker, NoHolder, NoSender, StopSteps, SendSteps
<1>1. CASE StepInit
  BY <1>1 DEF StepInit, InitSocket, At, Goto, Set, clients
<1>2. CASE StepReceiver
  BY <1>2 DEF StepReceiver, StartReceiver, Starts, StartFrame, At, Goto, Set, clients
<1>3. CASE StepIdent
  BY <1>3 DEF StepIdent, StartIdent, Starts, StartFrame, At, Goto, Set, clients
<1>4. CASE StepStarted
  BY <1>4 DEF StepStarted, SetStarted, StartFrame, At, Goto, Set, clients
<1>5. CASE StepHealth
  BY <1>5 DEF StepHealth, StartHealth, Starts, StartFrame, At, Goto, Set, clients
<1>6. CASE StepMoves
  BY <1>6 DEF StepMoves, Moves, At, Goto, Set, clients
<1>7. CASE StepBegin
  BY <1>7 DEF StepBegin, BeginSend, At, Goto, Set, clients
<1>8. CASE StepAcquire
  BY <1>8 DEF StepAcquire, Acquire, After, At, Goto, Set, clients
<1>9. CASE StepSendLast
  BY <1>9 DEF StepSendLast, SendLast, After, At, Goto, Set, clients
<1>10. CASE StepSendFirst
  BY <1>10 DEF StepSendFirst, SendFirst, At, Goto, Set, clients
<1>11. CASE StepResume
  BY <1>11 DEF StepResume, Resume, After, At, Goto, Set, clients
<1>12. CASE Uninit
  BY <1>12 DEF Uninit, At, Goto, Set, clients
<1>13. CASE StepExit
  BY <1>13 DEF StepExit, Exit, At, Goto, Set, clients
<1>14. CASE StepStopFlag
  BY <1>14 DEF StepStopFlag, StopFlag, At, Goto, Set, clients
<1>15. CASE StepClose
  BY <1>15 DEF StepClose, Close, At, Goto, Set, clients
<1>16. CASE StepJoinReceiver
  BY <1>16 DEF StepJoinReceiver, JoinReceiver, Joined, At, Goto, Set, clients
<1>17. CASE StepJoinIdent
  BY <1>17 DEF StepJoinIdent, JoinIdent, Joined, At, Goto, Set, clients
<1>18. CASE StepFree
  BY <1>18 DEF StepFree, Free, At, Goto, Set, clients
<1>19. CASE StepJoinHealth
  BY <1>19 DEF StepJoinHealth, JoinHealth, Joined, At, Goto, Set, clients
<1>20. CASE StepDestroy
  BY <1>20 DEF StepDestroy, Destroy, At, Goto, Set, clients
<1>21. CASE UNCHANGED vars
  BY <1>21 DEF vars, clients
<1>22. CASE InitFails
  BY <1>22 DEF InitFails, At, Goto, Set, clients
<1> QED BY StepCases, <1>1, <1>2, <1>3, <1>4, <1>5, <1>6, <1>7, <1>8, <1>9, <1>10,
    <1>11, <1>12, <1>13, <1>14, <1>15, <1>16, <1>17, <1>18, <1>19, <1>20, <1>21, <1>22

\* A thread of the module goes on, and does not send.
LEMMA MovesEffect ==
    ASSUME StepMoves
    PROVE  \E t \in Workers \union {"health"}, next \in {"loop", "recv", "callback", "ended"} :
              pc[t] # "none" /\ pc' = [pc EXCEPT ![t] = next]
<1>1. ASSUME NEW t \in Workers \union {"health"}, NEW step \in {"loop", "recv", "callback", "idle"},
             NEW next \in {"loop", "recv", "callback", "ended"}, Moves(t, step, next)
      PROVE  pc[t] # "none" /\ pc' = [pc EXCEPT ![t] = next]
  BY <1>1 DEF Moves, At, Goto
<1>2. \A c \in Clients : Receiver[c] \in Workers /\ Ident[c] \in Workers
  BY Names
<1> QED BY <1>1, <1>2 DEF StepMoves

\* They are as they were left until stop deletes them again.
LEMMA DanglingKept == ASSUME IInv, [Next]_vars PROVE Dangling'
<1>0. Typing
  BY Typed DEF IInv
<1> USE Names, <1>0 DEF Typing, IInv, Locks, Holding, Stoppage, Running, Owner,
    Stopped, Dangling, OwnerStops, Past, NoWorker, NoHolder, NoSender, StopSteps, SendSteps
<1>1. CASE StepInit
  BY <1>1 DEF StepInit, InitSocket, At, Goto, Set, clients
<1>2. CASE StepReceiver
  BY <1>2 DEF StepReceiver, StartReceiver, Starts, StartFrame, At, Goto, Set, clients
<1>3. CASE StepIdent
  BY <1>3 DEF StepIdent, StartIdent, Starts, StartFrame, At, Goto, Set, clients
<1>4. CASE StepStarted
  BY <1>4 DEF StepStarted, SetStarted, StartFrame, At, Goto, Set, clients
<1>5. CASE StepHealth
  BY <1>5 DEF StepHealth, StartHealth, Starts, StartFrame, At, Goto, Set, clients
<1>6. CASE StepMoves
  <2>1. PICK t \in Workers \union {"health"}, next \in {"loop", "recv", "callback", "ended"} :
          pc[t] # "none" /\ pc' = [pc EXCEPT ![t] = next]
    BY <1>6, MovesEffect
  <2>2. UNCHANGED <<use, clients, exiting, via>>
    BY <1>6 DEF StepMoves, Moves
  <2>3. dangling => NoWorker("udp")' /\ pc'["owner"] = pc["owner"]
    BY <2>1
  <2>4. dangling => NoHolder("udp")' /\ (NoSender("udp") => NoSender("udp")')
    BY <2>1, <2>2
  <2> QED BY <2>2, <2>3, <2>4 DEF clients
<1>7. CASE StepBegin
  BY <1>7 DEF StepBegin, BeginSend, At, Goto, Set, clients
<1>8. CASE StepAcquire
  BY <1>8 DEF StepAcquire, Acquire, After, At, Goto, Set, clients
<1>9. CASE StepSendLast
  BY <1>9 DEF StepSendLast, SendLast, After, At, Goto, Set, clients
<1>10. CASE StepSendFirst
  BY <1>10 DEF StepSendFirst, SendFirst, At, Goto, Set, clients
<1>11. CASE StepResume
  BY <1>11 DEF StepResume, Resume, After, At, Goto, Set, clients
<1>12. CASE Uninit
  BY <1>12 DEF Uninit, At, Goto, Set, clients
<1>13. CASE StepExit
  BY <1>13 DEF StepExit, Exit, At, Goto, Set, clients
<1>14. CASE StepStopFlag
  BY <1>14 DEF StepStopFlag, StopFlag, At, Goto, Set, clients
<1>15. CASE StepClose
  BY <1>15 DEF StepClose, Close, At, Goto, Set, clients
<1>16. CASE StepJoinReceiver
  BY <1>16 DEF StepJoinReceiver, JoinReceiver, Joined, At, Goto, Set, clients
<1>17. CASE StepJoinIdent
  BY <1>17 DEF StepJoinIdent, JoinIdent, Joined, At, Goto, Set, clients
<1>18. CASE StepFree
  BY <1>18 DEF StepFree, Free, At, Goto, Set, clients
<1>19. CASE StepJoinHealth
  BY <1>19 DEF StepJoinHealth, JoinHealth, Joined, At, Goto, Set, clients
<1>20. CASE StepDestroy
  BY <1>20 DEF StepDestroy, Destroy, At, Goto, Set, clients
<1>21. CASE UNCHANGED vars
  BY <1>21 DEF vars, clients
<1>22. CASE InitFails
  BY <1>22 DEF InitFails, At, Goto, Set, clients
<1> QED BY StepCases, <1>1, <1>2, <1>3, <1>4, <1>5, <1>6, <1>7, <1>8, <1>9, <1>10,
    <1>11, <1>12, <1>13, <1>14, <1>15, <1>16, <1>17, <1>18, <1>19, <1>20, <1>21, <1>22

LEMMA InitInvariant == Init => IInv
<1> SUFFICES ASSUME Init PROVE IInv
  OBVIOUS
<1> USE Names DEF Init
<1>1. TypeOK
  <2>1. /\ stopped \in [Clients -> BOOLEAN] /\ started \in [Clients -> BOOLEAN]
        /\ open \in [Clients -> BOOLEAN] /\ address \in [Clients -> BOOLEAN]
        /\ held \in [Clients -> BOOLEAN] /\ done \in [Clients -> BOOLEAN]
    OBVIOUS
  <2>2. pc \in [Threads -> Steps] /\ via \in [Threads -> Clients]
    BY DEF Steps
  <2>3. lives \in 0..MaxLives
    BY LifecycleAssumption
  <2>4. healthExit \in BOOLEAN /\ dangling \in BOOLEAN
    OBVIOUS
  <2> QED BY <2>1, <2>2, <2>3, <2>4 DEF TypeOK
<1>2. \A t \in Threads : pc[t] \in {"idle", "none"}
  OBVIOUS
<1>3. /\ \A t \in Threads : pc[t] \notin StopSteps /\ pc[t] \notin SendSteps
      /\ \A c \in Clients : NoWorker(c)
      /\ pc["owner"] = "idle" /\ pc["unixReceiver"] = "none"
  BY <1>2, ZenonT(60) DEF StopSteps, SendSteps, NoWorker
<1>4. Locks /\ Stoppage /\ Running
  BY <1>3, ZenonT(60) DEF Locks, Holding, Stoppage, Running, SendSteps
<1>5. Owner
  BY <1>3 DEF Owner, OwnerStops, Past
<1>6. Stopped
  <2>1. \A c \in Clients : NoHolder(c) /\ NoSender(c) /\ ~done[c]
    BY <1>3 DEF NoHolder, NoSender, Holding, SendSteps
  <2> QED BY <1>3, <2>1 DEF Stopped, OwnerStops, Past
<1>7. Dangling
  BY DEF Dangling
<1> QED BY <1>1, <1>4, <1>5, <1>6, <1>7 DEF IInv

LEMMA Invariance == Spec => []IInv
<1>1. ASSUME IInv, [Next]_vars PROVE IInv'
  BY <1>1, TypesKept, LocksKept, StoppageKept, RunningKept, OwnerKept, StoppedKept,
     DanglingKept DEF
      IInv
<1> QED BY InitInvariant, <1>1, PTL DEF Spec

\* Every variable keeps its type, however init, stop, exit and the senders
\* interleave.
THEOREM TypeCorrect == Spec => []TypeOK
<1>1. IInv => TypeOK
  BY DEF IInv
<1> QED BY <1>1, Invariance, PTL

\* The second check under the lock is enough (sendMSG against stop): no thread
\* sends on a socket that was closed or to an address that was freed, for any
\* number of application threads and of calls of init.
THEOREM SocketOpenWhileUsed == Spec => []SocketUsedWhileOpen
<1>1. IInv => SocketUsedWhileOpen
  <2> SUFFICES ASSUME IInv PROVE SocketUsedWhileOpen
    OBVIOUS
  <2>1. ASSUME NEW t \in Threads, pc[t] \in SendSteps \ {"want"}
        PROVE  open[via[t]] /\ (via[t] = "udp" => address[via[t]] /\ ~dangling)
    BY <2>1, Names DEF IInv, Locks, Holding, NoHolder, Dangling, SendSteps
  <2>2. pc[Receiver["unix"]] = "recv" => open["unix"]
    BY Names DEF IInv, Running
  <2> QED BY <2>1, <2>2 DEF SocketUsedWhileOpen
<1> QED BY <1>1, Invariance, PTL

\* What the owner has stopped stays stopped (CModule::uninit, stop of the
\* clients): no callback and no sender of it is left, also after another init.
THEOREM StoppedStaysStopped == Spec => []StopIsFinal
<1>1. IInv => StopIsFinal
  BY DEF IInv, Stopped, OwnerStops, NoHolder, Holding, SendSteps, StopIsFinal
<1> QED BY <1>1, Invariance, PTL

=============================================================================
