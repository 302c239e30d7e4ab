------------------------------ MODULE CapInvoke ------------------------------
(***************************************************************************)
(* Capability invocation in CModule (de_databus/de_module.cpp): the broker *)
(* sends CAPABILITY_INVOKE messages, and resends them because a datagram   *)
(* may be lost; the module runs the registered handler on a worker with a  *)
(* deadline and answers with CAPABILITY_RESULT.  An id that is in flight   *)
(* or whose result is still cached must not run the handler again.         *)
(*                                                                         *)
(* Threads: the receive thread (Receiver) and one detached manager thread  *)
(* per accepted invoke (Workers).  A region of the code that holds         *)
(* m_cap_lock is one action; whatever the code does between two such       *)
(* regions is interleaved.                                                 *)
(***************************************************************************)
EXTENDS Naturals, Sequences, FiniteSets

CONSTANTS
  Ids,         \* invoke ids the broker uses
  Workers,     \* manager threads that may be alive at once (bound)
  Receiver,    \* the databus receive thread
  CacheSize,   \* results kept for replay (64 in the code)
  MaxDeliver,  \* invokes delivered, first sends and resends (bound)
  Adverts      \* what the application's adverts may make of the invokes

AllVerdicts == {"valid", "unknown action", "invalid params", "throws"}

ASSUME ConstantsAssumption ==
  /\ Receiver \notin Workers
  /\ CacheSize \in Nat \ {0}
  /\ MaxDeliver \in Nat
  /\ Adverts \subseteq [Ids -> AllVerdicts]

VARIABLES
  advert,     \* m_capability_parsed: how the current adverts judge each invoke
  onInvoke,   \* m_onInvoke # nullptr
  pc,         \* control point of every thread
  job,        \* the id a thread works on, its verdict or the result it holds
  handler,    \* the std::async task of every manager thread
  inflight,   \* m_invoke_inflight
  results,    \* m_invoke_results
  order,      \* m_invoke_order
  delivered,  \* history: invokes delivered so far
  runs,       \* history: handler starts for each id
  answers,    \* history: the distinct results handed to the transport
  lapsed,     \* history: ids evicted, or accepted while a result was in between
              \* the in-flight set and the cache
  threw       \* history: ids whose parameter check threw

vars == <<advert, onInvoke, pc, job, handler, inflight, results, order,
          delivered, runs, answers, lapsed, threw>>

Threads == Workers \cup {Receiver}
Failures == {"unknown action", "invalid params", "no invoke handler"}
Results == Failures \cup {"data", "timeout"}
NoJob == [id |-> "none", what |-> "none"]
Jobs == [id : Ids, what : AllVerdicts \cup Results]

WorkerPc == {"free", "wait", "erase", "cache", "send", "drain"}
ReceiverPc == {"idle", "resolve", "spawn", "erase", "cache", "send"}

Holds(t, id) == job[t] # NoJob /\ job[t].id = id

\* A thread owns an id from the moment the id is in flight until it erases it.
Owns(t, id) == pc[t] \in {"resolve", "spawn", "wait", "erase"} /\ Holds(t, id)

\* The result of id has left the in-flight set and is not in the cache yet.
InGap(t, id) == pc[t] = "cache" /\ Holds(t, id)

\* The module as init leaves it: the application may have called setCapabilities
\* and onInvoke already, and no invoke has arrived.
Init ==
  /\ advert \in Adverts
  /\ onInvoke \in BOOLEAN
  /\ pc = [t \in Threads |-> IF t = Receiver THEN "idle" ELSE "free"]
  /\ job = [t \in Threads |-> NoJob]
  /\ handler = [w \in Workers |-> "none"]
  /\ inflight = {}
  /\ results = <<>>
  /\ order = <<>>
  /\ delivered = 0
  /\ runs = [id \in Ids |-> 0]
  /\ answers = [id \in Ids |-> {}]
  /\ lapsed = {}
  /\ threw = {}

Goto(t, point, work) ==
  /\ pc' = [pc EXCEPT ![t] = point]
  /\ job' = [job EXCEPT ![t] = work]

-----------------------------------------------------------------------------
(* The application.                                                        *)

\* setCapabilities: the adverts are replaced as a whole under m_cap_lock.
SetCapabilities ==
  /\ advert' \in Adverts
  /\ UNCHANGED <<onInvoke, pc, job, handler, inflight, results, order,
                 delivered, runs, answers, lapsed, threw>>

\* onInvoke: registers the handler.
OnInvoke ==
  /\ onInvoke' = TRUE
  /\ UNCHANGED <<advert, pc, job, handler, inflight, results, order,
                 delivered, runs, answers, lapsed, threw>>

-----------------------------------------------------------------------------
(* The receive thread.                                                     *)

\* handleCapabilityInvoke, first locked region: replay, ignore or accept.
Replay(id) ==
  /\ id \in DOMAIN results
  /\ answers' = [answers EXCEPT ![id] = @ \cup {results[id]}]
  /\ UNCHANGED <<pc, job, inflight, lapsed>>

Ignore(id) ==
  /\ id \notin DOMAIN results
  /\ id \in inflight
  /\ UNCHANGED <<answers, pc, job, inflight, lapsed>>

\* Mutants: the in-flight set is not looked at, or not added to.
AcceptUnchecked(id) ==
  /\ id \notin DOMAIN results
  /\ inflight' = inflight \cup {id}
  /\ lapsed' = IF \E t \in Threads : InGap(t, id) THEN lapsed \cup {id} ELSE lapsed
  /\ Goto(Receiver, "resolve", [id |-> id, what |-> "valid"])
  /\ UNCHANGED answers

AcceptUnmarked(id) ==
  /\ id \notin DOMAIN results
  /\ id \notin inflight
  /\ lapsed' = IF \E t \in Threads : InGap(t, id) THEN lapsed \cup {id} ELSE lapsed
  /\ Goto(Receiver, "resolve", [id |-> id, what |-> "valid"])
  /\ UNCHANGED <<answers, inflight>>

Accept(id) ==
  /\ id \notin DOMAIN results
  /\ id \notin inflight
  /\ inflight' = inflight \cup {id}
  /\ lapsed' = IF \E t \in Threads : InGap(t, id) THEN lapsed \cup {id} ELSE lapsed
  /\ Goto(Receiver, "resolve", [id |-> id, what |-> "valid"])
  /\ UNCHANGED answers

Deliver(id) ==
  /\ pc[Receiver] = "idle"
  /\ delivered < MaxDeliver
  /\ delivered' = delivered + 1
  /\ Replay(id) \/ Ignore(id) \/ Accept(id)
  /\ UNCHANGED <<advert, onInvoke, handler, results, order, runs, threw>>

\* Second locked region (the action is copied) and capCheckParams on the copy.
\* The check throws where an advert says of a parameter that it is optional, but
\* not with a boolean: capValidateParam lets it pass.  onReceive swallows the
\* exception, and nothing erases the mark.
Resolve ==
  /\ pc[Receiver] = "resolve"
  /\ LET id == job[Receiver].id
         verdict == advert[id]
         next == [id |-> id, what |-> verdict]
     IN  \/ verdict = "valid" /\ Goto(Receiver, "spawn", next) /\ UNCHANGED threw
         \/ verdict \in Failures /\ Goto(Receiver, "erase", next) /\ UNCHANGED threw
         \/ verdict = "throws" /\ Goto(Receiver, "idle", NoJob) /\ threw' = threw \cup {id}
  /\ UNCHANGED <<advert, onInvoke, handler, inflight, results, order,
                 delivered, runs, answers, lapsed>>

\* Mutants: the failure has no reason, or is not published at all.
NoHandlerNoReason ==
  /\ pc[Receiver] = "spawn"
  /\ ~onInvoke
  /\ Goto(Receiver, "erase", job[Receiver])
  /\ UNCHANGED <<advert, onInvoke, handler, inflight, results, order,
                 delivered, runs, answers, lapsed, threw>>

NoHandlerSilent ==
  /\ pc[Receiver] = "spawn"
  /\ ~onInvoke
  /\ Goto(Receiver, "idle", NoJob)
  /\ UNCHANGED <<advert, onInvoke, handler, inflight, results, order,
                 delivered, runs, answers, lapsed, threw>>

\* m_onInvoke is read outside the lock; without a handler the invoke fails.
NoHandler ==
  /\ pc[Receiver] = "spawn"
  /\ ~onInvoke
  /\ Goto(Receiver, "erase", [job[Receiver] EXCEPT !.what = "no invoke handler"])
  /\ UNCHANGED <<advert, onInvoke, handler, inflight, results, order,
                 delivered, runs, answers, lapsed, threw>>

\* runInvokeOnWorker: detaches a manager thread, which starts the handler.  Which
\* of the free threads it is makes no difference.
Spawn(w) ==
  /\ pc[Receiver] = "spawn"
  /\ onInvoke
  /\ pc[w] = "free"
  /\ w = CHOOSE v \in Workers : pc[v] = "free"
  /\ LET id == job[Receiver].id
     IN  /\ pc' = [pc EXCEPT ![Receiver] = "idle", ![w] = "wait"]
         /\ job' = [job EXCEPT ![Receiver] = NoJob, ![w] = job[Receiver]]
         /\ handler' = [handler EXCEPT ![w] = "running"]
         /\ runs' = [runs EXCEPT ![id] = @ + 1]
  /\ UNCHANGED <<advert, onInvoke, inflight, results, order, delivered,
                 answers, lapsed, threw>>

-----------------------------------------------------------------------------
(* The manager threads.                                                    *)

\* The handler returns or throws: the future becomes ready.
HandlerReturns(w) ==
  /\ handler[w] = "running"
  /\ handler' = [handler EXCEPT ![w] = "done"]
  /\ UNCHANGED <<advert, onInvoke, pc, job, inflight, results, order,
                 delivered, runs, answers, lapsed, threw>>

\* fut.wait_for: ready within the deadline, or the deadline passed first.
Ready(w) ==
  /\ pc[w] = "wait"
  /\ handler[w] = "done"
  /\ Goto(w, "erase", [job[w] EXCEPT !.what = "data"])
  /\ handler' = [handler EXCEPT ![w] = "none"]
  /\ UNCHANGED <<advert, onInvoke, inflight, results, order,
                 delivered, runs, answers, lapsed, threw>>

DeadlinePasses(w) ==
  /\ pc[w] = "wait"
  /\ handler[w] = "running"
  /\ Goto(w, "erase", [job[w] EXCEPT !.what = "timeout"])
  /\ UNCHANGED <<advert, onInvoke, handler, inflight, results, order,
                 delivered, runs, answers, lapsed, threw>>

\* Mutant: the late result is published after all.
DrainPublishes(w) ==
  /\ pc[w] = "drain"
  /\ handler[w] = "done"
  /\ Goto(w, "cache", [job[w] EXCEPT !.what = "data"])
  /\ handler' = [handler EXCEPT ![w] = "none"]
  /\ UNCHANGED <<advert, onInvoke, inflight, results, order,
                 delivered, runs, answers, lapsed, threw>>

\* The runaway handler has returned; its result is dropped.
Drain(w) ==
  /\ pc[w] = "drain"
  /\ handler[w] = "done"
  /\ Goto(w, "free", NoJob)
  /\ handler' = [handler EXCEPT ![w] = "none"]
  /\ UNCHANGED <<advert, onInvoke, inflight, results, order,
                 delivered, runs, answers, lapsed, threw>>

-----------------------------------------------------------------------------
(* Publishing a result, by a manager thread or by the fail lambda of the   *)
(* receive thread: erase from the in-flight set, then cache, then send.    *)

Erase(t) ==
  /\ pc[t] = "erase"
  /\ inflight' = inflight \ {job[t].id}
  /\ Goto(t, "cache", job[t])
  /\ UNCHANGED <<advert, onInvoke, handler, results, order,
                 delivered, runs, answers, lapsed, threw>>

\* Mutant: an id that is cached already is queued once more.
RememberTwice(id, result) ==
  LET pushed == Append(order, id)
      kept   == IF Len(pushed) > CacheSize THEN Tail(pushed) ELSE pushed
      stored == [i \in DOMAIN results \cup {id} |->
                   IF i = id THEN result ELSE results[i]]
  IN  /\ order' = kept
      /\ results' = [i \in {j \in DOMAIN stored : Len(pushed) <= CacheSize
                                                  \/ j # Head(pushed)} |-> stored[i]]
      /\ lapsed' = IF Len(pushed) > CacheSize THEN lapsed \cup {Head(pushed)}
                                               ELSE lapsed

\* cacheInvokeResult: a new id goes to the back of the FIFO; the oldest ids
\* fall out when more than CacheSize are kept.
Remember(id, result) ==
  LET pushed == IF id \in DOMAIN results THEN order ELSE Append(order, id)
      kept   == IF Len(pushed) > CacheSize THEN Tail(pushed) ELSE pushed
      stored == [i \in DOMAIN results \cup {id} |->
                   IF i = id THEN result ELSE results[i]]
  IN  /\ order' = kept
      /\ results' = [i \in {j \in DOMAIN stored : Len(pushed) <= CacheSize
                                                  \/ j # Head(pushed)} |-> stored[i]]
      /\ lapsed' = IF Len(pushed) > CacheSize THEN lapsed \cup {Head(pushed)}
                                               ELSE lapsed

Cache(t) ==
  /\ pc[t] = "cache"
  /\ Remember(job[t].id, job[t].what)
  /\ Goto(t, "send", job[t])
  /\ UNCHANGED <<advert, onInvoke, handler, inflight, delivered, runs, answers, threw>>

AfterSend(t) ==
  CASE t = Receiver -> "idle"
    [] t # Receiver /\ job[t].what = "timeout" -> "drain"
    [] OTHER -> "free"

Send(t) ==
  /\ pc[t] = "send"
  /\ answers' = [answers EXCEPT ![job[t].id] = @ \cup {job[t].what}]
  /\ Goto(t, AfterSend(t), IF AfterSend(t) = "drain" THEN job[t] ELSE NoJob)
  /\ UNCHANGED <<advert, onInvoke, handler, inflight, results, order,
                 delivered, runs, lapsed, threw>>

Publish(t) == Erase(t) \/ Cache(t) \/ Send(t)
-----------------------------------------------------------------------------

Next ==
  \/ SetCapabilities
  \/ OnInvoke
  \/ \E id \in Ids : Deliver(id)
  \/ Resolve
  \/ NoHandler
  \/ \E w \in Workers : \/ Spawn(w)
                        \/ HandlerReturns(w)
                        \/ Ready(w)
                        \/ DeadlinePasses(w)
                        \/ Drain(w)
  \/ \E t \in Threads : Publish(t)

Spec == Init /\ [][Next]_vars

\* Threads run: the receive thread finishes the message it handles, and a
\* manager thread does not stall.  Nothing is assumed of the handler, which may
\* never return: wait_for still gives up at the deadline.
Fairness ==
  /\ WF_vars(Resolve)
  /\ WF_vars(NoHandler \/ \E w \in Workers : Spawn(w))
  /\ \A w \in Workers : WF_vars(Ready(w) \/ DeadlinePasses(w))
  /\ \A t \in Threads : WF_vars(Publish(t))

FairSpec == Spec /\ Fairness

-----------------------------------------------------------------------------
(* Properties.                                                             *)

\* Threads are at control points of their own code, with a job between picking
\* an id up and finishing it, and with a result once there is one to publish.
ThreadsOK ==
  /\ pc \in [Threads -> WorkerPc \cup ReceiverPc]
  /\ pc[Receiver] \in ReceiverPc
  /\ \A w \in Workers : pc[w] \in WorkerPc
  /\ job \in [Threads -> Jobs \cup {NoJob}]
  /\ \A t \in Threads : job[t] = NoJob <=> pc[t] \in {"idle", "free"}
  /\ \A t \in Threads : pc[t] \in {"erase", "cache", "send"} => job[t].what \in Results

\* Every variable has its type, and the cache maps ids to results.
TypeOK ==
  /\ ThreadsOK
  /\ advert \in Adverts
  /\ onInvoke \in BOOLEAN
  /\ handler \in [Workers -> {"none", "running", "done"}]
  /\ inflight \subseteq Ids
  /\ DOMAIN results \subseteq Ids
  /\ \A id \in DOMAIN results : results[id] \in Results
  /\ order \in Seq(Ids)
  /\ delivered \in Nat
  /\ runs \in [Ids -> Nat]
  /\ answers \in [Ids -> SUBSET Results]
  /\ lapsed \subseteq Ids
  /\ threw \subseteq Ids

\* The FIFO and the result map agree whatever threads cache concurrently: each
\* cached id is queued once, nothing else is, and no more than CacheSize are
\* kept.  (cacheInvokeResult: a duplicate in m_invoke_order would evict an id
\* early, a missing one would never be evicted.)
CacheFifo ==
  /\ \A i, j \in 1..Len(order) : order[i] = order[j] => i = j
  /\ {order[i] : i \in 1..Len(order)} = DOMAIN results
  /\ Len(order) <= CacheSize

\* An id is worked on by one thread at a time until its deadline, and the mark
\* a thread erases is its own: handleCapabilityInvoke's in-flight check and the
\* three places that erase the mark keep this together.
ExclusiveOwner ==
  /\ \A t \in Threads, id \in Ids : Owns(t, id) => id \in inflight
  /\ \A t, u \in Threads, id \in Ids : Owns(t, id) /\ Owns(u, id) => t = u

\* The handler runs again for an id only after the id was forgotten: evicted
\* from the cache, or resent in the gap between erase and cache.
RerunExplained == \A id \in Ids : runs[id] > 1 => id \in lapsed

\* The broker sees one result per id, however often it resends and even when
\* the handler outlives its deadline, as long as the id was not forgotten.
AnswersAgree ==
  \A id \in Ids : id \notin lapsed =>
    \A a, b \in answers[id] : a = b

\* messages.hpp and de_module.hpp: a repeated id never runs the handler twice.
NeverRunTwice == \A id \in Ids : runs[id] <= 1

\* An accepted invoke is answered and its id leaves the in-flight set, so that
\* a later resend is not ignored for ever.  The one exception is a check that
\* throws: it leaves the id in flight without an answer, and no resend helps.
EveryInvokeAnswered ==
  \A id \in Ids :
    id \in inflight ~> \/ id \notin inflight /\ answers[id] # {}
                       \/ id \in threw

=============================================================================
