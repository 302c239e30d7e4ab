-------------------------- MODULE CapInvokeProofs ---------------------------
(***************************************************************************)
(* What holds of CapInvoke for every set of ids, number of threads, cache  *)
(* size and number of deliveries; and of the parameters of an invoke, for  *)
(* every schema and value (CapSchema, called by PureFunctions).            *)
(***************************************************************************)
EXTENDS CapInvoke, PureFunctions, WellFoundedInduction, TLAPS

-----------------------------------------------------------------------------
(* Type correctness.                                                       *)

\* cacheInvokeResult keeps the FIFO and the map well typed and consistent, puts
\* the new result in the map or the id among the forgotten ones, and touches no
\* other id but the evicted one.
LEMMA RememberEffect ==
  ASSUME ConstantsAssumption,
         NEW id \in Ids, NEW result \in Results,
         order \in Seq(Ids), lapsed \subseteq Ids,
         DOMAIN results \subseteq Ids,
         \A i \in DOMAIN results : results[i] \in Results,
         CacheFifo,
         Remember(id, result)
  PROVE  /\ order' \in Seq(Ids)
         /\ lapsed \subseteq lapsed' /\ lapsed' \subseteq Ids
         /\ DOMAIN results' \subseteq DOMAIN results \cup {id}
         /\ \A i \in DOMAIN results' : results'[i] \in Results
         /\ CacheFifo'
         /\ id \in DOMAIN results' => results'[id] = result
         /\ id \notin DOMAIN results' => id \in lapsed'
         /\ \A i \in DOMAIN results \ {id} :
              \/ i \in DOMAIN results' /\ results'[i] = results[i]
              \/ i \in lapsed'
<1> DEFINE pushed == IF id \in DOMAIN results THEN order ELSE Append(order, id)
           stored == [i \in DOMAIN results \cup {id} |->
                        IF i = id THEN result ELSE results[i]]
           full == Len(pushed) > CacheSize
<1>1. /\ order' = IF full THEN Tail(pushed) ELSE pushed
      /\ results' = [i \in {j \in DOMAIN stored : Len(pushed) <= CacheSize
                                                  \/ j # Head(pushed)} |-> stored[i]]
      /\ lapsed' = IF full THEN lapsed \cup {Head(pushed)} ELSE lapsed
  BY DEF Remember
<1>2. /\ pushed \in Seq(Ids)
      /\ Len(pushed) \in Nat
      /\ CacheSize \in Nat /\ CacheSize > 0
      /\ Len(pushed) <= CacheSize + 1
  BY DEF ConstantsAssumption, CacheFifo
<1>3. /\ \A i, j \in 1..Len(pushed) : pushed[i] = pushed[j] => i = j
      /\ {pushed[i] : i \in 1..Len(pushed)} = DOMAIN stored
  <2>1. CASE id \in DOMAIN results
    BY <2>1 DEF CacheFifo
  <2>2. CASE id \notin DOMAIN results
    <3>1. /\ pushed = Append(order, id)
          /\ Len(pushed) = Len(order) + 1
          /\ pushed[Len(order) + 1] = id
          /\ \A i \in 1..Len(order) : pushed[i] = order[i]
      BY <2>2
    <3>2. \A i \in 1..Len(order) : order[i] # id
      BY <2>2 DEF CacheFifo
    <3>3. \A i, j \in 1..Len(pushed) : pushed[i] = pushed[j] => i = j
      BY <3>1, <3>2 DEF CacheFifo
    <3>4. {pushed[i] : i \in 1..Len(pushed)} = DOMAIN stored
      <4>1. {order[i] : i \in 1..Len(order)} = DOMAIN results
        BY DEF CacheFifo
      <4>2. DOMAIN stored = DOMAIN results \cup {id}
        OBVIOUS
      <4>3. Len(order) \in Nat
        OBVIOUS
      <4>4. ASSUME NEW i \in 1..Len(pushed) PROVE pushed[i] \in DOMAIN results \cup {id}
        <5>1. CASE i = Len(order) + 1
          BY <3>1, <5>1
        <5>2. CASE i \in 1..Len(order)
          BY <3>1, <4>1, <5>2
        <5>. QED BY <3>1, <4>3, <4>4, <5>1, <5>2
      <4>5. ASSUME NEW x \in DOMAIN results \cup {id}
            PROVE  \E i \in 1..Len(pushed) : pushed[i] = x
        <5>1. CASE x = id
          <6>1. Len(order) + 1 \in 1..Len(pushed)
            BY <3>1, <4>3
          <6>. QED BY <3>1, <5>1, <6>1
        <5>2. CASE x \in DOMAIN results
          <6>1. PICK i \in 1..Len(order) : order[i] = x
            BY <4>1, <5>2
          <6>2. i \in 1..Len(pushed)
            BY <3>1, <4>3
          <6>. QED BY <3>1, <6>1, <6>2
        <5>. QED BY <4>5, <5>1, <5>2
      <4>. HIDE DEF pushed, stored
      <4>. QED BY <4>2, <4>4, <4>5
    <3>. QED BY <3>3, <3>4
  <2>. QED BY <2>1, <2>2
<1>4. CASE ~full
  <2>1. order' = pushed /\ lapsed' = lapsed /\ results' = stored
    BY <1>1, <1>2, <1>4
  <2>. QED
    BY <1>2, <1>3, <1>4, <2>1 DEF CacheFifo
<1>5. CASE full
  <2>1. /\ order' = Tail(pushed)
        /\ lapsed' = lapsed \cup {Head(pushed)}
        /\ results' = [i \in DOMAIN stored \ {Head(pushed)} |-> stored[i]]
    <3>1. {j \in DOMAIN stored : Len(pushed) <= CacheSize \/ j # Head(pushed)}
            = DOMAIN stored \ {Head(pushed)}
      BY <1>2, <1>5
    <3>. QED BY <1>1, <1>5, <3>1
  <2>2. /\ pushed # <<>>
        /\ Head(pushed) = pushed[1] /\ Head(pushed) \in Ids
        /\ Len(Tail(pushed)) = Len(pushed) - 1
        /\ Tail(pushed) \in Seq(Ids)
        /\ \A i \in 1..Len(Tail(pushed)) : Tail(pushed)[i] = pushed[i + 1]
    BY <1>2, <1>5
  <2>3. CacheFifo'
    <3>1. \A i, j \in 1..Len(order') : order'[i] = order'[j] => i = j
      <4>1. ASSUME NEW i \in 1..Len(order'), NEW j \in 1..Len(order'),
                   order'[i] = order'[j]
            PROVE  i = j
        <5>1. /\ i + 1 \in 1..Len(pushed) /\ j + 1 \in 1..Len(pushed)
              /\ pushed[i + 1] = pushed[j + 1]
          BY <1>2, <2>1, <2>2, <4>1, SMTT(30)
        <5>2. i + 1 = j + 1
          BY <1>3, <5>1
        <5>3. i \in Nat /\ j \in Nat
          BY <2>1, <2>2, <1>2
        <5>. QED BY <5>2, <5>3
      <4>. QED BY <4>1
    <3>2. {order'[i] : i \in 1..Len(order')} = DOMAIN results'
      <4>1. ASSUME NEW i \in 1..Len(order')  PROVE order'[i] \in DOMAIN results'
        <5>1. i + 1 \in 1..Len(pushed) /\ order'[i] = pushed[i + 1] /\ 1 \in 1..Len(pushed)
          BY <1>2, <2>1, <2>2
        <5>2. pushed[i + 1] \in DOMAIN stored
          BY <1>3, <5>1
        <5>3. pushed[i + 1] # pushed[1]
          <6>1. i \in Nat /\ i + 1 # 1
            BY <1>2, <2>1, <2>2
          <6>. QED BY <1>3, <5>1, <6>1
        <5>. QED BY <2>1, <2>2, <5>1, <5>2, <5>3
      <4>2. ASSUME NEW x \in DOMAIN results'
            PROVE  \E i \in 1..Len(order') : order'[i] = x
        <5>1. PICK k \in 1..Len(pushed) : pushed[k] = x
          BY <1>3, <2>1
        <5>2. k # 1 /\ k - 1 \in 1..Len(order') /\ order'[k - 1] = x
          BY <1>2, <2>1, <2>2, <5>1
        <5>. QED BY <5>2
      <4>. QED BY <4>1, <4>2
    <3>3. Len(order') <= CacheSize
      BY <1>2, <2>1, <2>2
    <3>. QED BY <3>1, <3>2, <3>3 DEF CacheFifo
  <2>. QED
    BY <2>1, <2>2, <2>3
<1>. QED BY <1>4, <1>5


-----------------------------------------------------------------------------
\* Types and the FIFO are one inductive invariant: the FIFO's bound on the
\* queue is what Remember needs to evict exactly one id.
TypeInv == TypeOK /\ CacheFifo

\* A job with an id and something known of it is a job, and not the absence of one.
LEMMA JobValues ==
  /\ \A id \in Ids, v \in AllVerdicts \cup Results :
       /\ [id |-> id, what |-> v] \in Jobs
       /\ [id |-> id, what |-> v] # NoJob
       /\ [id |-> id, what |-> v].id = id /\ [id |-> id, what |-> v].what = v
  /\ \A j \in Jobs :
       /\ j # NoJob /\ j.id \in Ids
       /\ \A v \in AllVerdicts \cup Results : [j EXCEPT !.what = v] = [id |-> j.id, what |-> v]
<1>1. "none" \notin AllVerdicts \cup Results
  BY DEF AllVerdicts, Results, Failures
<1>2. NoJob.what = "none"
  BY DEF NoJob
<1>3. ASSUME NEW j \in Jobs PROVE j # NoJob
  BY <1>1, <1>2 DEF Jobs
<1>4. \A id \in Ids, v \in AllVerdicts \cup Results : [id |-> id, what |-> v] \in Jobs
  BY DEF Jobs
<1>. QED
  BY <1>3, <1>4 DEF Jobs

\* A thread that has picked an id up holds a job.
LEMMA BusyThread ==
  ASSUME ThreadsOK, NEW t \in Threads, pc[t] \notin {"idle", "free"}
  PROVE  job[t] \in Jobs /\ job[t].id \in Ids /\ job[t] # NoJob
  BY JobValues DEF ThreadsOK

\* Moving one thread to a point of its code with a fitting job.
LEMMA GotoTypes ==
  ASSUME ConstantsAssumption, ThreadsOK, NEW t \in Threads, NEW point,
         NEW work \in Jobs \cup {NoJob},
         t = Receiver => point \in ReceiverPc,
         t # Receiver => point \in WorkerPc,
         work = NoJob <=> point \in {"idle", "free"},
         point \in {"erase", "cache", "send"} => work.what \in Results,
         Goto(t, point, work)
  PROVE  ThreadsOK'
<1>1. \A w \in Workers : w # Receiver /\ w \in Threads
  BY DEF ConstantsAssumption, Threads
<1>2. Receiver \in Threads
  BY DEF Threads
<1>3. pc' = [pc EXCEPT ![t] = point] /\ job' = [job EXCEPT ![t] = work]
  BY DEF Goto
<1>4. point \in WorkerPc \cup ReceiverPc
  OBVIOUS
<1>. QED
  BY <1>1, <1>2, <1>3, <1>4 DEF ThreadsOK

\* The FIFO looks at nothing but the cache.
LEMMA FifoUnchanged == CacheFifo /\ UNCHANGED <<results, order>> => CacheFifo'
  BY DEF CacheFifo

LEMMA InitTypes == ConstantsAssumption /\ Init => TypeInv
<1> SUFFICES ASSUME ConstantsAssumption, Init PROVE TypeInv
  OBVIOUS
<1>1. CacheFifo
  BY DEF Init, CacheFifo, ConstantsAssumption
<1>2. ThreadsOK
  BY DEF Init, ThreadsOK, ConstantsAssumption, Threads, WorkerPc, ReceiverPc
<1>. QED
  BY <1>1, <1>2 DEF Init, TypeInv, TypeOK

LEMMA StepTypes == ConstantsAssumption /\ TypeInv /\ [Next]_vars => TypeInv'
<1> SUFFICES ASSUME ConstantsAssumption, TypeInv, [Next]_vars  PROVE TypeInv'
  OBVIOUS
<1>0. ThreadsOK /\ TypeOK /\ CacheFifo
  BY DEF TypeInv, TypeOK
<1>1. CASE SetCapabilities \/ OnInvoke
  <2>1. ThreadsOK'
    BY <1>0, <1>1 DEF ThreadsOK, SetCapabilities, OnInvoke
  <2>. QED
    BY <1>0, <1>1, <2>1, FifoUnchanged DEF TypeInv, TypeOK, SetCapabilities, OnInvoke
<1>2. ASSUME NEW id \in Ids, Deliver(id)  PROVE TypeInv'
  <2>1. CASE Replay(id) \/ Ignore(id)
    <3>1. ThreadsOK'
      BY <1>0, <2>1 DEF ThreadsOK, Replay, Ignore
    <3>2. answers' \in [Ids -> SUBSET Results]
      <4>1. CASE Replay(id)
        <5>1. results[id] \in Results
          BY <1>0, <4>1 DEF TypeOK, Replay
        <5>. QED BY <1>0, <4>1, <5>1 DEF TypeOK, Replay
      <4>2. CASE Ignore(id)
        BY <1>0, <4>2 DEF TypeOK, Ignore
      <4>. QED BY <2>1, <4>1, <4>2
    <3>3. UNCHANGED <<advert, onInvoke, handler, inflight, results, order, runs, lapsed, threw>>
      BY <1>2, <2>1 DEF Deliver, Replay, Ignore
    <3>4. delivered' \in Nat
      BY <1>0, <1>2 DEF TypeOK, Deliver
    <3>. QED
      BY <1>0, <3>1, <3>2, <3>3, <3>4, FifoUnchanged DEF TypeInv, TypeOK
  <2>2. CASE Accept(id)
    <3>. DEFINE work == [id |-> id, what |-> "valid"]
    <3>0. Receiver \in Threads /\ work \in Jobs /\ work # NoJob
      BY JobValues DEF Threads, AllVerdicts
    <3>1. ThreadsOK'
      <4>1. Goto(Receiver, "resolve", work)
        BY <2>2 DEF Accept
      <4>. QED
        BY <1>0, <3>0, <4>1, GotoTypes DEF ReceiverPc
    <3>. QED
      BY <1>0, <1>2, <2>2, <3>1, FifoUnchanged DEF TypeInv, TypeOK, Deliver, Accept
  <2>. QED BY <1>2, <2>1, <2>2 DEF Deliver
<1>3. CASE Resolve
  <2>. DEFINE id == job[Receiver].id
              verdict == advert[id]
              next == [id |-> id, what |-> verdict]
  <2>1. id \in Ids /\ Receiver \in Threads
    BY <1>0, <1>3, BusyThread DEF Resolve, Threads
  <2>2. verdict \in AllVerdicts
    BY <1>0, <2>1 DEF TypeOK, ConstantsAssumption
  <2>3. next \in Jobs /\ next # NoJob /\ next.what = verdict
    BY <2>1, <2>2, JobValues
  <2>4. ThreadsOK'
    <3>1. CASE verdict = "valid" /\ Goto(Receiver, "spawn", next)
      BY <1>0, <2>1, <2>3, <3>1, GotoTypes DEF ReceiverPc
    <3>2. CASE verdict \in Failures /\ Goto(Receiver, "erase", next)
      BY <1>0, <2>1, <2>3, <3>2, GotoTypes DEF ReceiverPc, Results
    <3>3. CASE Goto(Receiver, "idle", NoJob)
      BY <1>0, <2>1, <3>3, GotoTypes DEF ReceiverPc
    <3>. QED BY <1>3, <3>1, <3>2, <3>3 DEF Resolve
  <2>5. threw' \subseteq Ids
    BY <1>0, <1>3, <2>1 DEF TypeOK, Resolve
  <2>6. UNCHANGED <<advert, onInvoke, handler, inflight, results, order,
                    delivered, runs, answers, lapsed>>
    BY <1>3 DEF Resolve
  <2>. QED
    BY <1>0, <2>4, <2>5, <2>6, FifoUnchanged DEF TypeInv, TypeOK
<1>4. CASE NoHandler
  <2>1. job[Receiver] \in Jobs /\ job[Receiver].id \in Ids /\ Receiver \in Threads
    BY <1>0, <1>4, BusyThread DEF NoHandler, Threads
  <2>2. ThreadsOK'
    <3>. DEFINE work == [id |-> job[Receiver].id, what |-> "no invoke handler"]
    <3>1. work \in Jobs /\ work # NoJob /\ work.what \in Results
      BY <2>1, JobValues DEF Results, Failures
    <3>2. [job[Receiver] EXCEPT !.what = "no invoke handler"] = work
      BY <2>1, JobValues DEF Results, Failures
    <3>3. Goto(Receiver, "erase", work)
      BY <1>4, <3>2 DEF NoHandler
    <3>. QED
      BY <1>0, <2>1, <3>1, <3>3, GotoTypes DEF ReceiverPc
  <2>. QED
    BY <1>0, <1>4, <2>2, FifoUnchanged DEF TypeInv, TypeOK, NoHandler
<1>5. ASSUME NEW w \in Workers, Spawn(w)  PROVE TypeInv'
  <2>1. /\ job[Receiver] \in Jobs /\ job[Receiver].id \in Ids /\ job[Receiver] # NoJob
        /\ Receiver \in Threads /\ w \in Threads /\ w # Receiver
    BY <1>0, <1>5, BusyThread DEF Spawn, Threads, ConstantsAssumption
  <2>2. \A v \in Workers : v # Receiver /\ v \in Threads
    BY DEF Threads, ConstantsAssumption
  <2>3. ThreadsOK'
    BY <1>0, <1>5, <2>1, <2>2 DEF ThreadsOK, Spawn, ReceiverPc, WorkerPc
  <2>. QED
    BY <1>0, <1>5, <2>1, <2>3, FifoUnchanged DEF TypeInv, TypeOK, Spawn
<1>6. ASSUME NEW w \in Workers, HandlerReturns(w)  PROVE TypeInv'
  <2>1. ThreadsOK'
    BY <1>0, <1>6 DEF ThreadsOK, HandlerReturns
  <2>. QED
    BY <1>0, <1>6, <2>1, FifoUnchanged DEF TypeInv, TypeOK, HandlerReturns
<1>7. ASSUME NEW w \in Workers, Ready(w) \/ DeadlinePasses(w)  PROVE TypeInv'
  <2>1. job[w] \in Jobs /\ job[w].id \in Ids /\ w \in Threads /\ w # Receiver
    BY <1>0, <1>7, BusyThread DEF Ready, DeadlinePasses, Threads, ConstantsAssumption
  <2>2. ThreadsOK'
    <3>1. ASSUME NEW v \in {"data", "timeout"}, Goto(w, "erase", [job[w] EXCEPT !.what = v])
          PROVE  ThreadsOK'
      <4>. DEFINE work == [id |-> job[w].id, what |-> v]
      <4>1. work \in Jobs /\ work # NoJob /\ work.what \in Results
        BY <2>1, JobValues DEF Results
      <4>2. [job[w] EXCEPT !.what = v] = work
        BY <2>1, JobValues DEF Results
      <4>3. Goto(w, "erase", work)
        BY <3>1, <4>2
      <4>. QED
        BY <1>0, <2>1, <4>1, <4>3, GotoTypes DEF WorkerPc
    <3>. QED BY <1>7, <3>1 DEF Ready, DeadlinePasses
  <2>. QED
    BY <1>0, <1>7, <2>1, <2>2, FifoUnchanged DEF TypeInv, TypeOK, Ready, DeadlinePasses
<1>8. ASSUME NEW w \in Workers, Drain(w)  PROVE TypeInv'
  <2>1. w \in Threads /\ w # Receiver
    BY DEF Threads, ConstantsAssumption
  <2>2. ThreadsOK'
    BY <1>0, <1>8, <2>1, GotoTypes DEF Drain, WorkerPc
  <2>. QED
    BY <1>0, <1>8, <2>1, <2>2, FifoUnchanged DEF TypeInv, TypeOK, Drain
<1>9. ASSUME NEW t \in Threads, Erase(t)  PROVE TypeInv'
  <2>1. job[t] \in Jobs /\ job[t].id \in Ids /\ job[t] # NoJob /\ job[t].what \in Results
    BY <1>0, <1>9, BusyThread DEF Erase, ThreadsOK
  <2>2. ThreadsOK'
    BY <1>0, <1>9, <2>1, GotoTypes DEF Erase, ReceiverPc, WorkerPc
  <2>. QED
    BY <1>0, <1>9, <2>2, FifoUnchanged DEF TypeInv, TypeOK, Erase
<1>10. ASSUME NEW t \in Threads, Cache(t)  PROVE TypeInv'
  <2>1. job[t] \in Jobs /\ job[t].id \in Ids /\ job[t] # NoJob /\ job[t].what \in Results
    BY <1>0, <1>10, BusyThread DEF Cache, ThreadsOK
  <2>2. ThreadsOK'
    BY <1>0, <1>10, <2>1, GotoTypes DEF Cache, ReceiverPc, WorkerPc
  <2>3. Remember(job[t].id, job[t].what)
    BY <1>10 DEF Cache
  <2>4. /\ order' \in Seq(Ids) /\ lapsed' \subseteq Ids
        /\ DOMAIN results' \subseteq Ids
        /\ \A i \in DOMAIN results' : results'[i] \in Results
        /\ CacheFifo'
    BY <1>0, <2>1, <2>3, RememberEffect DEF TypeOK
  <2>. QED
    BY <1>0, <1>10, <2>2, <2>4 DEF TypeInv, TypeOK, Cache
<1>11. ASSUME NEW t \in Threads, Send(t)  PROVE TypeInv'
  <2>1. job[t] \in Jobs /\ job[t].id \in Ids /\ job[t] # NoJob /\ job[t].what \in Results
    BY <1>0, <1>11, BusyThread DEF Send, ThreadsOK
  <2>2. /\ t = Receiver => AfterSend(t) = "idle"
        /\ t # Receiver => AfterSend(t) \in {"drain", "free"}
    BY DEF AfterSend
  <2>3. ThreadsOK'
    BY <1>0, <1>11, <2>1, <2>2, GotoTypes DEF Send, ReceiverPc, WorkerPc
  <2>. QED
    BY <1>0, <1>11, <2>1, <2>3, FifoUnchanged DEF TypeInv, TypeOK, Send
<1>12. CASE UNCHANGED vars
  <2>1. ThreadsOK'
    BY <1>0, <1>12 DEF ThreadsOK, vars
  <2>. QED
    BY <1>0, <1>12, <2>1, FifoUnchanged DEF TypeInv, TypeOK, vars
<1>. QED
  BY <1>1, <1>2, <1>3, <1>4, <1>5, <1>6, <1>7, <1>8, <1>9, <1>10, <1>11, <1>12
     DEF Next, Publish

\* Every reachable state is well typed.
THEOREM TypeCorrect == Spec => []TypeOK
<1>1. TypeInv => TypeOK
  BY DEF TypeInv
<1>. QED
  BY InitTypes, StepTypes, ConstantsAssumption, <1>1, PTL DEF Spec

\* The replay cache stays a FIFO of at most CacheSize distinct ids however many
\* threads cache results (m_invoke_order and m_invoke_results agree).
THEOREM CacheIsFifo == Spec => []CacheFifo
<1>1. TypeInv => CacheFifo
  BY DEF TypeInv
<1>. QED
  BY InitTypes, StepTypes, ConstantsAssumption, <1>1, PTL DEF Spec

-----------------------------------------------------------------------------
(* One owner per id.                                                       *)

\* What a single thread's move does to pc and job.
LEMMA GotoEffect ==
  ASSUME ThreadsOK, NEW t \in Threads, NEW point, NEW work, Goto(t, point, work)
  PROVE  /\ pc'[t] = point /\ job'[t] = work
         /\ \A u \in Threads \ {t} : pc'[u] = pc[u] /\ job'[u] = job[u]
  BY DEF Goto, ThreadsOK

\* What a step may do to the set of (thread, id) ownerships: a step gives up
\* ownerships, or the receive thread accepts an id, or it hands its own over to
\* a manager thread.
LEMMA StepOwner ==
  ASSUME ConstantsAssumption, TypeInv, [Next]_vars
  PROVE  \/ /\ \A t \in Threads, id \in Ids : Owns(t, id)' => Owns(t, id)
            /\ inflight \subseteq inflight'
         \/ \E id \in Ids : Deliver(id) /\ Accept(id)
         \/ \E w \in Workers : Spawn(w)
         \/ \E t \in Threads : Erase(t)
<1>0. ThreadsOK /\ Receiver \in Threads /\ Workers \subseteq Threads
  BY DEF TypeInv, TypeOK, Threads
<1>. USE DEF Owns, Holds
<1>1. CASE SetCapabilities \/ OnInvoke
  BY <1>1 DEF SetCapabilities, OnInvoke
<1>2. ASSUME NEW id \in Ids, Deliver(id), ~Accept(id)
      PROVE  UNCHANGED <<pc, job, inflight>>
  BY <1>2 DEF Deliver, Replay, Ignore
<1>3. CASE Resolve
  <2>1. ASSUME NEW point, NEW what,
               Goto(Receiver, point, [id |-> job[Receiver].id, what |-> what])
        PROVE  \A t \in Threads, id \in Ids : Owns(t, id)' => Owns(t, id)
    <3>1. job[Receiver] # NoJob
      BY <1>0, <1>3 DEF Resolve, ThreadsOK
    <3>. QED BY <1>0, <1>3, <2>1, <3>1, GotoEffect DEF Resolve
  <2>2. ASSUME Goto(Receiver, "idle", NoJob)
        PROVE  \A t \in Threads, id \in Ids : Owns(t, id)' => Owns(t, id)
    BY <1>0, <2>2, GotoEffect
  <2>. QED BY <1>3, <2>1, <2>2 DEF Resolve
<1>4. CASE NoHandler
  <2>1. job[Receiver] \in Jobs /\ job[Receiver] # NoJob
    BY <1>0, <1>4, BusyThread DEF NoHandler
  <2>2. [job[Receiver] EXCEPT !.what = "no invoke handler"].id = job[Receiver].id
    BY <2>1 DEF Jobs
  <2>3. ASSUME NEW work, work.id = job[Receiver].id, Goto(Receiver, "erase", work),
               pc[Receiver] = "spawn"
        PROVE  \A t \in Threads, id \in Ids : Owns(t, id)' => Owns(t, id)
    BY <1>0, <2>1, <2>3, GotoEffect
  <2>. QED BY <1>4, <2>2, <2>3 DEF NoHandler
<1>5. ASSUME NEW w \in Workers, HandlerReturns(w)
      PROVE  UNCHANGED <<pc, job, inflight>>
  BY <1>5 DEF HandlerReturns
<1>6. ASSUME NEW w \in Workers, Ready(w) \/ DeadlinePasses(w)
      PROVE  /\ \A t \in Threads, id \in Ids : Owns(t, id)' => Owns(t, id)
             /\ inflight \subseteq inflight'
  <2>1. job[w] \in Jobs /\ job[w] # NoJob
    BY <1>0, <1>6, BusyThread DEF Ready, DeadlinePasses
  <2>2. \A v : [job[w] EXCEPT !.what = v].id = job[w].id
    BY <2>1 DEF Jobs
  <2>3. ASSUME NEW work, work.id = job[w].id, Goto(w, "erase", work), pc[w] = "wait"
        PROVE  \A t \in Threads, id \in Ids : Owns(t, id)' => Owns(t, id)
    BY <1>0, <2>1, <2>3, GotoEffect
  <2>. QED BY <1>6, <2>2, <2>3 DEF Ready, DeadlinePasses
<1>7. ASSUME NEW w \in Workers, Drain(w)
      PROVE  /\ \A t \in Threads, id \in Ids : Owns(t, id)' => Owns(t, id)
             /\ inflight \subseteq inflight'
  BY <1>0, <1>7, GotoEffect DEF Drain
<1>8. ASSUME NEW t \in Threads, Cache(t)
      PROVE  /\ \A u \in Threads, id \in Ids : Owns(u, id)' => Owns(u, id)
             /\ inflight \subseteq inflight'
  BY <1>0, <1>8, GotoEffect DEF Cache
<1>9. ASSUME NEW t \in Threads, Send(t)
      PROVE  /\ \A u \in Threads, id \in Ids : Owns(u, id)' => Owns(u, id)
             /\ inflight \subseteq inflight'
  <2>1. AfterSend(t) \in {"idle", "drain", "free"}
    BY DEF AfterSend
  <2>. QED BY <1>0, <1>9, <2>1, GotoEffect DEF Send
<1>10. CASE UNCHANGED vars
  BY <1>10 DEF vars
<1>. QED
  BY <1>1, <1>2, <1>3, <1>4, <1>5, <1>6, <1>7, <1>8, <1>9, <1>10 DEF Next, Publish

LEMMA StepExclusive ==
  ConstantsAssumption /\ TypeInv /\ ExclusiveOwner /\ [Next]_vars => ExclusiveOwner'
<1> SUFFICES ASSUME ConstantsAssumption, TypeInv, ExclusiveOwner, [Next]_vars
             PROVE  ExclusiveOwner'
  OBVIOUS
<1>0. ThreadsOK /\ Receiver \in Threads /\ Workers \subseteq Threads /\ Receiver \notin Workers
  BY DEF TypeInv, TypeOK, Threads, ConstantsAssumption
<1>1. CASE /\ \A t \in Threads, id \in Ids : Owns(t, id)' => Owns(t, id)
           /\ inflight \subseteq inflight'
  BY <1>1 DEF ExclusiveOwner
<1>2. ASSUME NEW id \in Ids, Deliver(id), Accept(id)  PROVE ExclusiveOwner'
  <2>1. \A t \in Threads : ~Owns(t, id)
    BY <1>2 DEF ExclusiveOwner, Accept
  <2>2. \A u \in Threads \ {Receiver}, i \in Ids : Owns(u, i)' => Owns(u, i)
    BY <1>0, <1>2, GotoEffect DEF Accept, Owns, Holds
  <2>3. \A i \in Ids : Owns(Receiver, i)' => i = id
    BY <1>0, <1>2, GotoEffect DEF Accept, Owns, Holds
  <2>4. inflight' = inflight \cup {id}
    BY <1>2 DEF Accept
  <2>. QED BY <2>1, <2>2, <2>3, <2>4 DEF ExclusiveOwner
<1>3. ASSUME NEW w \in Workers, Spawn(w)  PROVE ExclusiveOwner'
  <2>1. /\ pc' = [pc EXCEPT ![Receiver] = "idle", ![w] = "wait"]
        /\ job' = [job EXCEPT ![Receiver] = NoJob, ![w] = job[Receiver]]
        /\ inflight' = inflight /\ pc[Receiver] = "spawn"
    BY <1>3 DEF Spawn
  <2>2. \A u \in Threads \ {Receiver, w} : pc'[u] = pc[u] /\ job'[u] = job[u]
    BY <1>0, <2>1 DEF ThreadsOK
  <2>3. \A i \in Ids : ~Owns(Receiver, i)'
    BY <1>0, <2>1 DEF ThreadsOK, Owns
  <2>4. \A i \in Ids : Owns(w, i)' => Owns(Receiver, i)
    BY <1>0, <2>1 DEF ThreadsOK, Owns, Holds
  <2>5. \A u \in Threads \ {Receiver, w}, i \in Ids : Owns(u, i)' => Owns(u, i)
    BY <2>2 DEF Owns, Holds
  <2>. QED BY <1>0, <2>1, <2>3, <2>4, <2>5 DEF ExclusiveOwner
<1>4. ASSUME NEW t \in Threads, Erase(t)  PROVE ExclusiveOwner'
  <2>1. job[t] # NoJob /\ job[t].id \in Ids /\ Owns(t, job[t].id)
    BY <1>0, <1>4, BusyThread DEF Erase, Owns, Holds
  <2>2. \A u \in Threads \ {t}, i \in Ids : Owns(u, i)' => Owns(u, i) /\ i # job[t].id
    BY <1>0, <1>4, <2>1, GotoEffect DEF Erase, Owns, Holds, ExclusiveOwner
  <2>3. \A i \in Ids : ~Owns(t, i)'
    BY <1>0, <1>4, GotoEffect DEF Erase, Owns
  <2>4. inflight' = inflight \ {job[t].id}
    BY <1>4 DEF Erase
  <2>. QED BY <2>2, <2>3, <2>4 DEF ExclusiveOwner
<1>. QED BY <1>1, <1>2, <1>3, <1>4, StepOwner

LEMMA InitExclusive == Init => ExclusiveOwner
<1> SUFFICES ASSUME Init PROVE ExclusiveOwner
  OBVIOUS
<1>1. \A t \in Threads, id \in Ids : ~Owns(t, id)
  BY DEF Init, Owns
<1>. QED BY <1>1 DEF ExclusiveOwner

\* No two threads ever work on one id before its deadline, and a thread that
\* erases an in-flight mark erases its own.
THEOREM OneOwnerPerId == Spec => []ExclusiveOwner
<1>1. TypeInv /\ ExclusiveOwner /\ [Next]_vars => (TypeInv /\ ExclusiveOwner)'
  BY StepTypes, StepExclusive, ConstantsAssumption
<1>2. Init => TypeInv /\ ExclusiveOwner
  BY InitTypes, InitExclusive, ConstantsAssumption
<1>. QED BY <1>1, <1>2, PTL DEF Spec

-----------------------------------------------------------------------------
(* Forgotten ids, repeated runs and disagreeing answers.                   *)

\* An id that ran is remembered somewhere until it is forgotten, and the receive
\* thread brings only a forgotten id to a second run.
Remembered(id) ==
  \/ id \in inflight
  \/ id \in DOMAIN results
  \/ \E t \in Threads : InGap(t, id)

RerunInv ==
  \A id \in Ids :
    id \notin lapsed =>
      /\ runs[id] <= 1
      /\ runs[id] = 1 => Remembered(id)
      /\ runs[id] = 1 => ~(pc[Receiver] \in {"resolve", "spawn"} /\ Holds(Receiver, id))

\* While an id is not forgotten there is one result for it: the answers sent,
\* the cached result and the result a thread is about to send are the same, and
\* an id is in flight, in the gap or cached, never two of these.
AnswerInv ==
  \A id \in Ids :
    id \notin lapsed =>
      /\ \A a \in answers[id] : id \in DOMAIN results /\ results[id] = a
      /\ \A t \in Threads : pc[t] = "send" /\ Holds(t, id) =>
           id \in DOMAIN results /\ results[id] = job[t].what
      /\ id \in DOMAIN results => id \notin inflight /\ \A t \in Threads : ~InGap(t, id)
      /\ \A t \in Threads : InGap(t, id) =>
           id \notin inflight /\ \A u \in Threads : InGap(u, id) => u = t

IInv == TypeInv /\ ExclusiveOwner /\ RerunInv /\ AnswerInv

LEMMA InitIInv == ConstantsAssumption /\ Init => IInv
<1> SUFFICES ASSUME ConstantsAssumption, Init PROVE IInv
  OBVIOUS
<1>1. RerunInv
  BY DEF Init, RerunInv
<1>2. AnswerInv
  <2>1. \A t \in Threads : pc[t] \notin {"send", "cache"}
    BY DEF Init
  <2>2. DOMAIN results = {} /\ \A id \in Ids : answers[id] = {}
    BY DEF Init
  <2>. QED BY <2>1, <2>2 DEF AnswerInv, InGap
<1>. QED BY <1>1, <1>2, InitTypes, InitExclusive DEF IInv

\* A step that only moves threads between points outside the gap and the send,
\* gives no thread an id to resolve, and leaves the rest alone.
LEMMA QuietStep ==
  ASSUME ThreadsOK, RerunInv, AnswerInv,
         UNCHANGED <<inflight, results, runs, lapsed, answers>>,
         \A t \in Threads, id \in Ids : InGap(t, id)' <=> InGap(t, id),
         \A t \in Threads, id \in Ids : (pc[t] = "send" /\ Holds(t, id))' =>
            pc[t] = "send" /\ Holds(t, id) /\ job'[t].what = job[t].what,
         \A id \in Ids : (pc[Receiver] \in {"resolve", "spawn"} /\ Holds(Receiver, id))' =>
            pc[Receiver] \in {"resolve", "spawn"} /\ Holds(Receiver, id)
  PROVE  RerunInv' /\ AnswerInv'
<1>1. RerunInv'
  BY DEF RerunInv, Remembered
<1>2. AnswerInv'
  BY DEF AnswerInv
<1>. QED BY <1>1, <1>2

LEMMA StepHistory ==
  ConstantsAssumption /\ IInv /\ [Next]_vars => RerunInv' /\ AnswerInv'
<1> SUFFICES ASSUME ConstantsAssumption, IInv, [Next]_vars
             PROVE  RerunInv' /\ AnswerInv'
  OBVIOUS
<1>0. /\ ThreadsOK /\ TypeOK /\ RerunInv /\ AnswerInv /\ ExclusiveOwner
      /\ Receiver \in Threads /\ Workers \subseteq Threads /\ Receiver \notin Workers
  BY DEF IInv, TypeInv, TypeOK, Threads, ConstantsAssumption
<1>1. CASE SetCapabilities \/ OnInvoke
  BY <1>0, <1>1, QuietStep DEF SetCapabilities, OnInvoke, InGap, Holds
<1>2. ASSUME NEW id \in Ids, Deliver(id)  PROVE RerunInv' /\ AnswerInv'
  <2>0. UNCHANGED <<results, runs>>
    BY <1>2 DEF Deliver
  <2>1. CASE Replay(id)
    <3>1. UNCHANGED <<pc, job, inflight, lapsed>>
      BY <2>1 DEF Replay
    <3>2. RerunInv'
      BY <1>0, <2>0, <3>1 DEF RerunInv, Remembered, InGap, Holds
    <3>3. \A i \in Ids : \A a \in answers'[i] :
             a \in answers[i] \/ (i \in DOMAIN results /\ a = results[i])
      BY <1>0, <2>1 DEF Replay, TypeOK
    <3>4. AnswerInv'
      BY <1>0, <2>0, <3>1, <3>3 DEF AnswerInv, InGap, Holds
    <3>. QED BY <3>2, <3>4
  <2>2. CASE Ignore(id)
    BY <1>0, <2>0, <2>2, QuietStep DEF Ignore, InGap, Holds
  <2>3. CASE Accept(id)
    <3>. DEFINE work == [id |-> id, what |-> "valid"]
    <3>1. /\ id \notin DOMAIN results /\ id \notin inflight
          /\ inflight' = inflight \cup {id} /\ answers' = answers
          /\ lapsed' = IF \E t \in Threads : InGap(t, id) THEN lapsed \cup {id} ELSE lapsed
          /\ Goto(Receiver, "resolve", work)
          /\ pc[Receiver] = "idle"
      BY <1>2, <2>3 DEF Accept, Deliver
    <3>2. /\ pc'[Receiver] = "resolve" /\ job'[Receiver] = work
          /\ \A u \in Threads \ {Receiver} : pc'[u] = pc[u] /\ job'[u] = job[u]
      BY <1>0, <3>1, GotoEffect
    <3>3. \A t \in Threads, i \in Ids : InGap(t, i)' <=> InGap(t, i)
      BY <3>1, <3>2 DEF InGap, Holds
    <3>4. \A t \in Threads, i \in Ids : (pc[t] = "send" /\ Holds(t, i))' =>
             pc[t] = "send" /\ Holds(t, i) /\ job'[t] = job[t]
      BY <3>2 DEF Holds
    <3>5. id \notin lapsed' => id \notin lapsed /\ \A t \in Threads : ~InGap(t, id)
      BY <3>1
    <3>6. \A i \in Ids : i \notin lapsed' => i \notin lapsed
      BY <3>1
    <3>7. RerunInv'
      <4>. SUFFICES ASSUME NEW i \in Ids, i \notin lapsed'
                    PROVE  /\ runs'[i] <= 1
                           /\ runs'[i] = 1 => Remembered(i)'
                           /\ runs'[i] = 1 =>
                                ~(pc[Receiver] \in {"resolve", "spawn"} /\ Holds(Receiver, i))'
        BY DEF RerunInv
      <4>1. CASE i = id
        BY <1>0, <2>0, <3>1, <3>5, <4>1 DEF RerunInv, Remembered
      <4>2. CASE i # id
        <5>1. ~Holds(Receiver, i)'
          BY <3>2, <4>2 DEF Holds
        <5>2. Remembered(i) => Remembered(i)'
          BY <2>0, <3>1, <3>3 DEF Remembered
        <5>. QED BY <1>0, <2>0, <3>6, <5>1, <5>2 DEF RerunInv
      <4>. QED BY <4>1, <4>2
    <3>8. AnswerInv'
      BY <1>0, <2>0, <3>1, <3>3, <3>4, <3>5, <3>6 DEF AnswerInv
    <3>. QED BY <3>7, <3>8
  <2>. QED BY <1>2, <2>1, <2>2, <2>3 DEF Deliver
<1>3. CASE Resolve
  <2>1. \/ \E work : work.id = job[Receiver].id /\ Goto(Receiver, "spawn", work)
        \/ \E work : work.id = job[Receiver].id /\ Goto(Receiver, "erase", work)
        \/ Goto(Receiver, "idle", NoJob)
    BY <1>3 DEF Resolve
  <2>2. pc[Receiver] = "resolve" /\ job[Receiver] # NoJob
    BY <1>0, <1>3 DEF Resolve, ThreadsOK
  <2>3. UNCHANGED <<inflight, results, runs, lapsed, answers>>
    BY <1>3 DEF Resolve
  <2>. QED BY <1>0, <2>1, <2>2, <2>3, GotoEffect, QuietStep DEF InGap, Holds
<1>4. CASE NoHandler
  <2>1. \E work : Goto(Receiver, "erase", work)
    BY <1>4 DEF NoHandler
  <2>2. pc[Receiver] = "spawn" /\ UNCHANGED <<inflight, results, runs, lapsed, answers>>
    BY <1>4 DEF NoHandler
  <2>. QED BY <1>0, <2>1, <2>2, GotoEffect, QuietStep DEF InGap, Holds
<1>5. ASSUME NEW w \in Workers, Spawn(w)  PROVE RerunInv' /\ AnswerInv'
  <2>. DEFINE id == job[Receiver].id
  <2>1. /\ pc' = [pc EXCEPT ![Receiver] = "idle", ![w] = "wait"]
        /\ job' = [job EXCEPT ![Receiver] = NoJob, ![w] = job[Receiver]]
        /\ runs' = [runs EXCEPT ![id] = @ + 1]
        /\ UNCHANGED <<inflight, results, lapsed, answers>>
        /\ pc[Receiver] = "spawn" /\ pc[w] = "free"
    BY <1>5 DEF Spawn
  <2>2. id \in Ids /\ job[Receiver] # NoJob /\ Owns(Receiver, id)
    BY <1>0, <2>1, BusyThread DEF Owns, Holds
  <2>3. /\ pc'[Receiver] = "idle" /\ pc'[w] = "wait"
        /\ \A u \in Threads \ {Receiver, w} : pc'[u] = pc[u] /\ job'[u] = job[u]
    BY <1>0, <2>1 DEF ThreadsOK
  <2>4. \A t \in Threads, i \in Ids : InGap(t, i)' <=> InGap(t, i)
    BY <2>1, <2>3 DEF InGap, Holds
  <2>5. \A t \in Threads, i \in Ids : (pc[t] = "send" /\ Holds(t, i))' =>
           pc[t] = "send" /\ Holds(t, i) /\ job'[t] = job[t]
    BY <2>3 DEF Holds
  <2>6. AnswerInv'
    <3>1. UNCHANGED <<inflight, results, lapsed, answers>>
      BY <2>1
    <3>. QED BY <1>0, <2>4, <2>5, <3>1 DEF AnswerInv
  <2>7. RerunInv'
    <3>. SUFFICES ASSUME NEW i \in Ids, i \notin lapsed
                  PROVE  runs'[i] <= 1 /\ (Remembered(i)' \/ runs'[i] = 0)
      BY <2>1, <2>3 DEF RerunInv
    <3>1. Remembered(i) => Remembered(i)'
      BY <2>1, <2>4 DEF Remembered
    <3>2. CASE i = id
      <4>1. runs[i] = 0
        <5>1. pc[Receiver] = "spawn" /\ Holds(Receiver, i) /\ runs[i] \in Nat
          BY <1>0, <2>1, <2>2, <3>2 DEF Holds, TypeOK
        <5>. QED BY <1>0, <5>1 DEF RerunInv
      <4>2. id \in inflight
        BY <1>0, <2>2 DEF ExclusiveOwner
      <4>. QED BY <1>0, <2>1, <2>2, <3>2, <4>1, <4>2 DEF Remembered, TypeOK
    <3>3. CASE i # id
      BY <1>0, <2>1, <2>2, <3>1, <3>3 DEF RerunInv, TypeOK
    <3>. QED BY <3>2, <3>3
  <2>. QED BY <2>6, <2>7
<1>6. ASSUME NEW w \in Workers, HandlerReturns(w)  PROVE RerunInv' /\ AnswerInv'
  BY <1>0, <1>6, QuietStep DEF HandlerReturns, InGap, Holds
<1>7. ASSUME NEW w \in Workers, Ready(w) \/ DeadlinePasses(w)
      PROVE  RerunInv' /\ AnswerInv'
  <2>1. \E work : Goto(w, "erase", work)
    BY <1>7 DEF Ready, DeadlinePasses
  <2>2. pc[w] = "wait" /\ UNCHANGED <<inflight, results, runs, lapsed, answers>>
    BY <1>7 DEF Ready, DeadlinePasses
  <2>. QED BY <1>0, <2>1, <2>2, GotoEffect, QuietStep DEF InGap, Holds
<1>8. ASSUME NEW w \in Workers, Drain(w)  PROVE RerunInv' /\ AnswerInv'
  BY <1>0, <1>8, GotoEffect, QuietStep DEF Drain, InGap, Holds
<1>9. ASSUME NEW t \in Threads, Erase(t)  PROVE RerunInv' /\ AnswerInv'
  <2>. DEFINE id == job[t].id
  <2>1. /\ id \in Ids /\ job[t] # NoJob /\ pc[t] = "erase" /\ Owns(t, id)
        /\ id \in inflight /\ inflight' = inflight \ {id}
        /\ UNCHANGED <<results, runs, lapsed, answers>>
    BY <1>0, <1>9, BusyThread DEF Erase, Owns, Holds, ExclusiveOwner
  <2>2. /\ pc'[t] = "cache" /\ job'[t] = job[t]
        /\ \A u \in Threads \ {t} : pc'[u] = pc[u] /\ job'[u] = job[u]
    BY <1>0, <1>9, GotoEffect DEF Erase
  <2>3. \A u \in Threads, i \in Ids : InGap(u, i)' <=> InGap(u, i) \/ (u = t /\ i = id)
    BY <2>1, <2>2 DEF InGap, Holds
  <2>4. \A u \in Threads, i \in Ids : (pc[u] = "send" /\ Holds(u, i))' =>
           pc[u] = "send" /\ Holds(u, i) /\ job'[u] = job[u]
    BY <2>2 DEF Holds
  <2>5. \A i \in Ids : Remembered(i) => Remembered(i)'
    BY <2>1, <2>3 DEF Remembered
  <2>6. RerunInv'
    BY <1>0, <2>1, <2>2, <2>5 DEF RerunInv, Holds
  <2>7. AnswerInv'
    <3>. SUFFICES ASSUME NEW i \in Ids, i \notin lapsed
                  PROVE  /\ \A a \in answers[i] : i \in DOMAIN results /\ results[i] = a
                         /\ \A u \in Threads : (pc[u] = "send" /\ Holds(u, i))' =>
                              i \in DOMAIN results /\ results[i] = job'[u].what
                         /\ i \in DOMAIN results =>
                              i \notin inflight' /\ \A u \in Threads : ~InGap(u, i)'
                         /\ \A u \in Threads : InGap(u, i)' =>
                              i \notin inflight' /\ \A v \in Threads : InGap(v, i)' => v = u
      BY <2>1 DEF AnswerInv
    <3>1. CASE i = id
      BY <1>0, <2>1, <2>3, <2>4, <3>1 DEF AnswerInv
    <3>2. CASE i # id
      BY <1>0, <2>1, <2>3, <2>4, <3>2 DEF AnswerInv
    <3>. QED BY <3>1, <3>2
  <2>. QED BY <2>6, <2>7
<1>10. ASSUME NEW t \in Threads, Cache(t)  PROVE RerunInv' /\ AnswerInv'
  <2>. DEFINE id == job[t].id
              result == job[t].what
  <2>1. /\ id \in Ids /\ job[t] # NoJob /\ pc[t] = "cache" /\ result \in Results
        /\ InGap(t, id) /\ Remember(id, result)
        /\ UNCHANGED <<inflight, runs, answers>>
    BY <1>0, <1>10, BusyThread DEF Cache, InGap, Holds, ThreadsOK
  <2>2. /\ pc'[t] = "send" /\ job'[t] = job[t]
        /\ \A u \in Threads \ {t} : pc'[u] = pc[u] /\ job'[u] = job[u]
    BY <1>0, <1>10, GotoEffect DEF Cache
  <2>3. /\ lapsed \subseteq lapsed'
        /\ DOMAIN results' \subseteq DOMAIN results \cup {id}
        /\ id \in DOMAIN results' => results'[id] = result
        /\ id \notin DOMAIN results' => id \in lapsed'
        /\ \A i \in DOMAIN results \ {id} :
             \/ i \in DOMAIN results' /\ results'[i] = results[i]
             \/ i \in lapsed'
    <3>1. /\ order \in Seq(Ids) /\ lapsed \subseteq Ids /\ DOMAIN results \subseteq Ids
          /\ \A i \in DOMAIN results : results[i] \in Results
          /\ CacheFifo
      BY <1>0 DEF IInv, TypeInv, TypeOK
    <3>. QED BY <2>1, <3>1, RememberEffect
  <2>4. \A u \in Threads, i \in Ids : InGap(u, i)' <=> InGap(u, i) /\ u # t
    BY <2>1, <2>2 DEF InGap, Holds
  <2>5. \A u \in Threads \ {t}, i \in Ids : (pc[u] = "send" /\ Holds(u, i))' =>
           pc[u] = "send" /\ Holds(u, i) /\ job'[u] = job[u]
    BY <2>2 DEF Holds
  <2>6. \A i \in Ids : Holds(t, i)' => i = id
    BY <2>2 DEF Holds
  <2>7. RerunInv'
    <3>1. \A i \in Ids : i \notin lapsed' /\ Remembered(i) => Remembered(i)'
      BY <2>1, <2>3, <2>4, <2>6 DEF Remembered, InGap, Holds
    <3>2. \A i \in Ids : (pc[Receiver] \in {"resolve", "spawn"} /\ Holds(Receiver, i))' =>
             pc[Receiver] \in {"resolve", "spawn"} /\ Holds(Receiver, i)
      BY <1>0, <2>2 DEF Holds
    <3>. QED BY <1>0, <2>1, <2>3, <3>1, <3>2 DEF RerunInv
  <2>8. AnswerInv'
    <3>. SUFFICES ASSUME NEW i \in Ids, i \notin lapsed'
                  PROVE  /\ \A a \in answers[i] : i \in DOMAIN results' /\ results'[i] = a
                         /\ \A u \in Threads : (pc[u] = "send" /\ Holds(u, i))' =>
                              i \in DOMAIN results' /\ results'[i] = job'[u].what
                         /\ i \in DOMAIN results' =>
                              i \notin inflight /\ \A u \in Threads : ~InGap(u, i)'
                         /\ \A u \in Threads : InGap(u, i)' =>
                              i \notin inflight /\ \A v \in Threads : InGap(v, i)' => v = u
      BY <2>1 DEF AnswerInv
    <3>1. i \notin lapsed
      BY <2>3
    <3>2. CASE i = id
      <4>1. /\ id \notin DOMAIN results /\ answers[id] = {} /\ id \notin inflight
            /\ \A u \in Threads : InGap(u, id) => u = t
            /\ \A u \in Threads : ~(pc[u] = "send" /\ Holds(u, id))
        BY <1>0, <2>1, <3>1, <3>2 DEF AnswerInv
      <4>. QED BY <2>2, <2>3, <2>4, <2>5, <3>2, <4>1
    <3>3. CASE i # id
      BY <1>0, <2>3, <2>4, <2>5, <2>6, <3>1, <3>3 DEF AnswerInv
    <3>. QED BY <3>2, <3>3
  <2>. QED BY <2>7, <2>8
<1>11. ASSUME NEW t \in Threads, Send(t)  PROVE RerunInv' /\ AnswerInv'
  <2>. DEFINE id == job[t].id
  <2>1. /\ id \in Ids /\ job[t] # NoJob /\ pc[t] = "send" /\ Holds(t, id)
        /\ answers' = [answers EXCEPT ![id] = @ \cup {job[t].what}]
        /\ UNCHANGED <<inflight, results, runs, lapsed>>
    BY <1>0, <1>11, BusyThread DEF Send, Holds
  <2>2. /\ pc'[t] \in {"idle", "drain", "free"}
        /\ \A u \in Threads \ {t} : pc'[u] = pc[u] /\ job'[u] = job[u]
    <3>1. AfterSend(t) \in {"idle", "drain", "free"}
      BY DEF AfterSend
    <3>. QED BY <1>0, <1>11, <3>1, GotoEffect DEF Send
  <2>3. \A u \in Threads, i \in Ids : InGap(u, i)' <=> InGap(u, i)
    BY <2>1, <2>2 DEF InGap, Holds
  <2>4. RerunInv'
    BY <1>0, <2>1, <2>2, <2>3 DEF RerunInv, Remembered, Holds
  <2>5. \A u \in Threads, i \in Ids : (pc[u] = "send" /\ Holds(u, i))' =>
           pc[u] = "send" /\ Holds(u, i) /\ job'[u] = job[u]
    BY <2>2 DEF Holds
  <2>6. \A i \in Ids : \A a \in answers'[i] :
           a \in answers[i] \/ (i = id /\ a = job[t].what)
    BY <1>0, <2>1 DEF TypeOK
  <2>7. AnswerInv'
    BY <1>0, <2>1, <2>3, <2>5, <2>6 DEF AnswerInv
  <2>. QED BY <2>4, <2>7
<1>12. CASE UNCHANGED vars
  BY <1>0, <1>12, QuietStep DEF vars, InGap, Holds
<1>. QED
  BY <1>1, <1>2, <1>3, <1>4, <1>5, <1>6, <1>7, <1>8, <1>9, <1>10, <1>11, <1>12
     DEF Next, Publish

LEMMA StepIInv == ConstantsAssumption /\ IInv /\ [Next]_vars => IInv'
  BY StepTypes, StepExclusive, StepHistory DEF IInv

LEMMA Inductive == Spec => []IInv
  BY InitIInv, StepIInv, ConstantsAssumption, PTL DEF Spec

\* The handler runs a second time for an id only if the id was evicted from the
\* cache, or resent between the erase and the cache of its result.
THEOREM RerunOnlyWhenForgotten == Spec => []RerunExplained
<1>1. IInv => RerunExplained
  BY DEF IInv, RerunInv, RerunExplained, TypeInv, TypeOK
<1>. QED BY <1>1, Inductive, PTL

\* All answers to an id that was not forgotten are one and the same result,
\* whatever was resent and even when the handler outlived its deadline.
THEOREM OneResultPerId == Spec => []AnswersAgree
<1>1. IInv => AnswersAgree
  BY DEF IInv, AnswerInv, AnswersAgree
<1>. QED BY <1>1, Inductive, PTL


-----------------------------------------------------------------------------
(* The parameters of an invoke: what a handler is given.                   *)

\* A default of a valid parameter is accepted for it.
LEMMA DefaultAccepted ==
  ASSUME NEW param, ValidParam(param), NEW value \in param.default
  PROVE  CheckValue(param, value)
<1> DEFINE schema == [p \in {"p"} |-> param]
           with == [p \in {"p"} |-> value]
<1>1. CheckParams([p |-> param], [p |-> value])
  BY DEF ValidParam, ValidItself, ValidDefault
<1>2. [p |-> param] = schema /\ [p |-> value] = with
  OBVIOUS
<1>3. DOMAIN schema = {"p"} /\ DOMAIN with = {"p"} /\ schema["p"] = param /\ with["p"] = value
  OBVIOUS
<1> HIDE DEF schema, with
<1> QED BY <1>1, <1>2, <1>3 DEF CheckParams

\* What the parameters are filled up to.
LEMMA FilledSuits ==
  ASSUME NEW schema, NEW with, ValidSchema(schema), CheckParams(schema, with)
  PROVE  /\ CheckParams(schema, Filled(schema, with))
         /\ \A name \in DOMAIN schema :
               schema[name].optional \/ name \in DOMAIN Filled(schema, with)
         /\ \A name \in DOMAIN with : Filled(schema, with)[name] = with[name]
<1> DEFINE filled == Filled(schema, with)
           defaulted == {name \in DOMAIN schema \ DOMAIN with : schema[name].default # {}}
<1>1. /\ DOMAIN filled = DOMAIN with \union defaulted
      /\ \A name \in DOMAIN with : filled[name] = with[name]
      /\ \A name \in defaulted : filled[name] \in schema[name].default
  BY DEF Filled
<1> HIDE DEF filled
<1>2. /\ DOMAIN with \subseteq DOMAIN schema
      /\ \A name \in DOMAIN schema :
            IF name \in DOMAIN with THEN CheckValue(schema[name], with[name])
            ELSE schema[name].default # {} \/ schema[name].optional
  BY DEF CheckParams
<1>3. \A name \in defaulted : CheckValue(schema[name], filled[name])
  BY <1>1, DefaultAccepted DEF ValidSchema
<1>4. \A name \in DOMAIN schema :
         IF name \in DOMAIN filled THEN CheckValue(schema[name], filled[name])
         ELSE schema[name].default # {} \/ schema[name].optional
  BY <1>1, <1>2, <1>3
<1>5. DOMAIN filled \subseteq DOMAIN schema
  BY <1>1, <1>2
<1>6. CheckParams(schema, filled)
  BY <1>4, <1>5 DEF CheckParams
<1> QED BY <1>1, <1>2, <1>6 DEF filled

\* For any schema an advert may have and any parameters an invoke may send with
\* it, the handler gets parameters that satisfy the schema, among them all that
\* are not optional and what the invoke said (capCheckParams).
THEOREM HandlerGetsValidParams == Calls => []FilledIsAcceptable
<1> DEFINE Answered ==
      call.of = "fill" /\ returned # <<>> =>
         /\ ValidSchema(call.schema) /\ CheckParams(call.schema, call.with)
         /\ returned = <<Filled(call.schema, call.with)>>
<1>1. CallInit => Answered
  BY DEF CallInit
<1>2. Answered /\ [Return]_callVars => Answered'
  BY DEF Return, Associate, Check, Fill, callVars
<1>3. Answered => FilledIsAcceptable
  <2> SUFFICES ASSUME Answered, call.of = "fill", returned # <<>>
               PROVE  LET filled == returned[1]
                      IN  /\ CheckParams(call.schema, filled)
                          /\ \A name \in DOMAIN call.schema :
                                call.schema[name].optional \/ name \in DOMAIN filled
                          /\ \A name \in DOMAIN call.with : filled[name] = call.with[name]
    BY DEF FilledIsAcceptable
  <2>1. returned[1] = Filled(call.schema, call.with)
    OBVIOUS
  <2> QED BY <2>1, FilledSuits
<1> HIDE DEF Answered
<1> QED BY <1>1, <1>2, <1>3, PTL DEF Calls

-----------------------------------------------------------------------------
(* The parameters of an invoke: how deep they are checked.                 *)

\* What holds of 0, and of n + 1 if of n, holds of every number.
LEMMA Induction ==
  ASSUME NEW X, 0 \in X, \A n \in Nat : n \in X => n + 1 \in X
  PROVE  Nat \subseteq X
<1> DEFINE Y == Nat \ X
           R == OpToRel(<, Nat)
<1> SUFFICES ASSUME Y # {} PROVE FALSE
  OBVIOUS
<1>1. PICK n \in Y : \A m \in Y : ~(<<m, n>> \in R)
  <2>1. IsWellFoundedOn(R, Nat) /\ Y \in SUBSET Nat
    BY NatLessThanWellFounded
  <2> HIDE DEF R, Y
  <2> QED BY <2>1, WFMin
<1>2. \A m \in Y : ~(m < n)
  BY <1>1 DEF OpToRel
<1> HIDE DEF R
<1>3. n \in Nat /\ n # 0 /\ n \notin X
  OBVIOUS
<1>4. n - 1 \in Nat /\ n - 1 < n /\ (n - 1) + 1 = n
  BY <1>3
<1>5. n - 1 \in X
  BY <1>2, <1>4
<1> QED BY <1>3, <1>4, <1>5

\* A set of numbers has a least one.
LEMMA Least ==
  ASSUME NEW s, s \subseteq Nat, s # {}
  PROVE  \E n \in s : \A m \in s : n <= m
<1> DEFINE R == OpToRel(<, Nat)
<1>1. PICK n \in s : \A m \in s : ~(<<m, n>> \in R)
  <2>1. IsWellFoundedOn(R, Nat) /\ s \in SUBSET Nat
    BY NatLessThanWellFounded
  <2> HIDE DEF R
  <2> QED BY <2>1, WFMin
<1>2. \A m \in s : ~(m < n)
  BY <1>1 DEF OpToRel
<1> QED BY <1>2

Containers == {"array", "object"}

\* What is n containers deep around a leaf.
Layer(chain, leaf, scalar, around, n) ==
  IF n = 0 THEN [param |-> leaf, value |-> scalar]
  ELSE [param |-> ParamIn(chain[n], around[n - 1].param),
        value |-> ValueIn(chain[n], around[n - 1].value)]

Around(chain, leaf, scalar, n) ==
  CHOOSE around : around = [k \in 0..n |-> Layer(chain, leaf, scalar, around, k)]

LEMMA LayersExist ==
  ASSUME NEW chain, NEW leaf, NEW scalar, NEW n \in Nat
  PROVE  Around(chain, leaf, scalar, n)
           = [k \in 0..n |-> Layer(chain, leaf, scalar, Around(chain, leaf, scalar, n), k)]
<1> DEFINE X == {m \in Nat : \E g : g = [k \in 0..m |-> Layer(chain, leaf, scalar, g, k)]}
<1>1. 0 \in X
  <2> DEFINE g == [k \in 0..0 |-> [param |-> leaf, value |-> scalar]]
  <2>1. g = [k \in 0..0 |-> Layer(chain, leaf, scalar, g, k)]
    BY DEF Layer
  <2> QED BY <2>1
<1>2. ASSUME NEW m \in Nat, m \in X PROVE m + 1 \in X
  <2>1. PICK g : g = [k \in 0..m |-> Layer(chain, leaf, scalar, g, k)]
    BY <1>2
  <2> DEFINE h == [k \in 0..(m + 1) |-> IF k = m + 1 THEN Layer(chain, leaf, scalar, g, k) ELSE g[k]]
  <2>2. ASSUME NEW k \in 0..(m + 1)
        PROVE  h[k] = Layer(chain, leaf, scalar, h, k)
    <3>1. k # 0 => k - 1 \in 0..m /\ h[k - 1] = g[k - 1]
      OBVIOUS
    <3>2. Layer(chain, leaf, scalar, h, k) = Layer(chain, leaf, scalar, g, k)
      BY <3>1 DEF Layer
    <3>3. ASSUME k # m + 1 PROVE g[k] = Layer(chain, leaf, scalar, g, k)
      <4>1. k \in 0..m
        BY <3>3
      <4> HIDE DEF h
      <4> QED BY <2>1, <4>1
    <3> QED BY <3>2, <3>3
  <2>3. h = [k \in 0..(m + 1) |-> Layer(chain, leaf, scalar, h, k)]
    BY <2>2
  <2> HIDE DEF h
  <2> QED BY <2>3
<1> HIDE DEF X
<1>3. n \in X
  BY <1>1, <1>2, Induction
<1>4. \E g : g = [k \in 0..n |-> Layer(chain, leaf, scalar, g, k)]
  BY <1>3 DEF X
<1> QED BY <1>4 DEF Around

Inner(chain) == [i \in 1..(Len(chain) - 1) |-> chain[i]]

LEMMA NestedEmpty ==
  ASSUME NEW chain, Len(chain) = 0, NEW leaf, NEW scalar
  PROVE  /\ Nested(chain, leaf, scalar).param = leaf
         /\ Nested(chain, leaf, scalar).value = scalar
<1>1. Nested(chain, leaf, scalar) = Around(chain, leaf, scalar, 0)[0]
  BY DEF Nested, Around, Layer
<1> DEFINE f == Around(chain, leaf, scalar, 0)
<1>2. f = [k \in 0..0 |-> Layer(chain, leaf, scalar, f, k)]
  BY LayersExist
<1> HIDE DEF f
<1>3. f[0] = Layer(chain, leaf, scalar, f, 0)
  BY <1>2
<1> QED BY <1>1, <1>3 DEF Layer, f

\* The outermost container of a chain and what is in it.
LEMMA NestedFacts ==
  ASSUME NEW n \in Nat, n # 0, NEW chain, chain \in [1..n -> Containers], NEW leaf, NEW scalar
  PROVE  /\ n - 1 \in Nat
         /\ Inner(chain) \in [1..(n - 1) -> Containers]
         /\ chain[n] \in Containers
         /\ Nested(chain, leaf, scalar).param
              = ParamIn(chain[n], Nested(Inner(chain), leaf, scalar).param)
         /\ Nested(chain, leaf, scalar).value
              = ValueIn(chain[n], Nested(Inner(chain), leaf, scalar).value)
<1>1. Len(chain) = n
  OBVIOUS
<1>2. Nested(chain, leaf, scalar) = Around(chain, leaf, scalar, n)[n]
  BY <1>1 DEF Nested, Around, Layer
<1> DEFINE f == Around(chain, leaf, scalar, n)
<1>3. \A k \in 0..n : f[k] = Layer(chain, leaf, scalar, f, k)
  <2>1. f = [k \in 0..n |-> Layer(chain, leaf, scalar, f, k)]
    BY LayersExist
  <2> HIDE DEF f
  <2> QED BY <2>1
<1> HIDE DEF f
<1>4. n - 1 \in Nat /\ n \in 1..n /\ n - 1 \in 0..n /\ n \in 0..n
  OBVIOUS
<1>5. Inner(chain) \in [1..(n - 1) -> Containers] /\ Len(Inner(chain)) = n - 1
  BY <1>1, <1>4 DEF Inner
<1> DEFINE g == Around(Inner(chain), leaf, scalar, n - 1)
<1>6. Nested(Inner(chain), leaf, scalar) = g[n - 1]
  BY <1>5 DEF Nested, Around, Layer
<1>7. \A k \in 0..(n - 1) : g[k] = Layer(Inner(chain), leaf, scalar, g, k)
  <2>1. g = [k \in 0..(n - 1) |-> Layer(Inner(chain), leaf, scalar, g, k)]
    BY <1>4, LayersExist
  <2> HIDE DEF g
  <2> QED BY <2>1
<1> HIDE DEF g
<1> DEFINE X == {k \in Nat : k <= n - 1 => f[k] = g[k]}
<1>8. 0 \in X
  <2>1. f[0] = Layer(chain, leaf, scalar, f, 0) /\ g[0] = Layer(Inner(chain), leaf, scalar, g, 0)
    BY <1>3, <1>4, <1>7
  <2> QED BY <2>1 DEF Layer
<1>9. ASSUME NEW k \in Nat, k \in X PROVE k + 1 \in X
  <2> SUFFICES ASSUME k + 1 <= n - 1 PROVE f[k + 1] = g[k + 1]
    OBVIOUS
  <2>1. f[k] = g[k] /\ k + 1 \in 0..n /\ k + 1 \in 0..(n - 1) /\ k + 1 # 0 /\ (k + 1) - 1 = k
    BY <1>9
  <2>2. Inner(chain)[k + 1] = chain[k + 1]
    BY <1>1, <2>1 DEF Inner
  <2>3. f[k + 1] = Layer(chain, leaf, scalar, f, k + 1) /\ g[k + 1] = Layer(Inner(chain), leaf, scalar, g, k + 1)
    BY <1>3, <1>7, <2>1
  <2> QED BY <2>1, <2>2, <2>3 DEF Layer
<1> HIDE DEF X
<1>10. n - 1 \in X
  BY <1>4, <1>8, <1>9, Induction
<1>11. f[n - 1] = g[n - 1]
  BY <1>4, <1>10 DEF X
<1>12. f[n] = [param |-> ParamIn(chain[n], f[n - 1].param), value |-> ValueIn(chain[n], f[n - 1].value)]
  BY <1>3, <1>4 DEF Layer
<1> QED BY <1>2, <1>4, <1>5, <1>6, <1>11, <1>12 DEF f

\* Two chains are the same if the outermost containers are and what is in them.
LEMMA SameChain ==
  ASSUME NEW n \in Nat, NEW m \in Nat, n # 0, m # 0,
         NEW chain \in [1..n -> Containers], NEW shape \in [1..m -> Containers]
  PROVE  chain = shape <=> chain[n] = shape[m] /\ Inner(chain) = Inner(shape)
<1>1. Len(chain) = n /\ Len(shape) = m /\ DOMAIN chain = 1..n /\ DOMAIN shape = 1..m
  OBVIOUS
<1>2. ASSUME chain = shape PROVE chain[n] = shape[m] /\ Inner(chain) = Inner(shape)
  BY <1>1, <1>2
<1>3. ASSUME chain[n] = shape[m], Inner(chain) = Inner(shape) PROVE chain = shape
  <2>1. DOMAIN Inner(chain) = 1..(n - 1) /\ DOMAIN Inner(shape) = 1..(m - 1)
    BY <1>1 DEF Inner
  <2>2. n = m
    <3>1. 1..(n - 1) = 1..(m - 1) /\ n - 1 \in Nat /\ m - 1 \in Nat
      BY <1>3, <2>1
    <3>2. n - 1 = m - 1
      <4>1. ASSUME NEW a \in Nat, NEW b \in Nat, 1..a = 1..b, a < b PROVE FALSE
        <5>1. b \in 1..b
          BY <4>1
        <5>2. b \notin 1..a
          BY <4>1
        <5> QED BY <4>1, <5>1, <5>2
      <4> QED BY <3>1, <4>1
    <3> QED BY <3>2
  <2>3. \A i \in 1..(n - 1) : chain[i] = shape[i]
    <3> SUFFICES ASSUME NEW i \in 1..(n - 1) PROVE chain[i] = shape[i]
      OBVIOUS
    <3>1. Inner(chain)[i] = chain[i] /\ Inner(shape)[i] = shape[i]
      BY <1>1, <2>2 DEF Inner
    <3> QED BY <1>3, <3>1
  <2>4. \A i \in 1..n : chain[i] = shape[i]
    BY <1>3, <2>2, <2>3
  <2> QED BY <2>2, <2>4
<1> QED BY <1>2, <1>3

\* The schema and the value with one more container around them.
LEMMA ParamFacts ==
  ASSUME NEW c \in Containers, NEW inner
  PROVE  /\ ParamIn(c, inner).types = <<c>>
         /\ c = "array" => ParamIn(c, inner).items = {inner}
         /\ c = "object" => DOMAIN ParamIn(c, inner).fields = {"f"} /\ ParamIn(c, inner).fields["f"] = inner
BY DEF Containers, ParamIn, Param

LEMMA ValueFacts ==
  ASSUME NEW c \in Containers, NEW part
  PROVE  /\ ValueIn(c, part).kind = c
         /\ c = "array" => ValueIn(c, part).parts = <<part>>
         /\ c = "object" => DOMAIN ValueIn(c, part).fields = {"f"} /\ ValueIn(c, part).fields["f"] = part
BY DEF Containers, ValueIn, Array, Object

\* A container's schema looks for a container of its kind ...
LEMMA ContainerItself ==
  ASSUME NEW c \in Containers, NEW inner, NEW value
  PROVE  /\ CheckItself(ParamIn(c, inner), value) <=> value.kind = c
         /\ value.kind = c => MatchedType(ParamIn(c, inner), value) = c
<1> DEFINE param == ParamIn(c, inner)
<1>1. param.types = <<c>>
  BY ParamFacts
<1> HIDE DEF param
<1>2. DOMAIN param.types = {1} /\ param.types[1] = c
  BY <1>1
<1>3. Matches(value, c) <=> value.kind = c
  BY DEF Matches, Containers
<1>4. Matching(param, value) = IF value.kind = c THEN {1} ELSE {}
  BY <1>2, <1>3 DEF Matching
<1>5. ASSUME value.kind = c PROVE MatchedType(param, value) = c
  <2>1. (CHOOSE i \in {1} : \A k \in {1} : i <= k) = 1
    OBVIOUS
  <2> QED BY <1>2, <1>4, <1>5, <2>1 DEF MatchedType
<1>6. CheckItself(param, value) <=> value.kind = c
  BY <1>4, <1>5 DEF CheckItself, Containers
<1> QED BY <1>5, <1>6 DEF param

\* ... and a leaf's accepts none; it looks at nothing else.
LEMMA LeafItself ==
  ASSUME NEW leaf \in Leaves, NEW value
  PROVE  /\ value.kind \in Containers => ~CheckItself(leaf, value)
         /\ CheckItself(leaf, value) => MatchedType(leaf, value) \notin Containers
<1>1. leaf.types \in Seq(ScalarTypes \union {"enum"})
  BY LeavesAssumption
<1>2. \A i \in DOMAIN leaf.types : leaf.types[i] \in {"bool", "int", "number", "string", "enum"}
  BY <1>1 DEF ScalarTypes, Types
<1>3. ASSUME value.kind \in Containers PROVE ~CheckItself(leaf, value)
  <2>1. \A i \in DOMAIN leaf.types : ~Matches(value, leaf.types[i])
    BY <1>2, <1>3 DEF Matches, IsNumber, Containers
  <2> QED BY <2>1 DEF CheckItself, Matching
<1>4. ASSUME CheckItself(leaf, value) PROVE MatchedType(leaf, value) \notin Containers
  <2> DEFINE matching == Matching(leaf, value)
  <2>1. matching # {} /\ matching \subseteq DOMAIN leaf.types /\ matching \subseteq Nat
    BY <1>1, <1>4 DEF CheckItself, Matching
  <2>2. \E i \in matching : \A k \in matching : i <= k
    <3> HIDE DEF matching
    <3> QED BY <2>1, Least
  <2>3. MatchedType(leaf, value) \in {"bool", "int", "number", "string", "enum"}
    BY <1>2, <2>1, <2>2 DEF MatchedType
  <2> QED BY <2>3 DEF Containers
<1> QED BY <1>3, <1>4

\* A leaf is checked alike at any depth.
LEMMA LeafChecks ==
  ASSUME NEW leaf \in Leaves, NEW value
  PROVE  /\ Check4(leaf, value) <=> CheckItself(leaf, value)
         /\ Check3(leaf, value) <=> CheckItself(leaf, value)
         /\ Check2(leaf, value) <=> CheckItself(leaf, value)
         /\ Check1(leaf, value) <=> CheckItself(leaf, value)
         /\ CheckValue(leaf, value) <=> CheckItself(leaf, value)
<1>1. CheckItself(leaf, value) => MatchedType(leaf, value) \notin {"array", "object"}
  BY LeafItself DEF Containers
<1> QED BY <1>1 DEF Check4, Check3, Check2, Check1, CheckValue, CheckParts

\* A container's schema is one level above that of what is in it.
LEMMA ContainerValid ==
  ASSUME NEW c \in Containers, NEW inner
  PROVE  /\ ~Valid4(ParamIn(c, inner))
         /\ Valid3(ParamIn(c, inner)) => Valid4(inner)
         /\ Valid2(ParamIn(c, inner)) => Valid3(inner)
         /\ Valid1(ParamIn(c, inner)) => Valid2(inner)
         /\ ValidParam(ParamIn(c, inner)) => Valid1(inner)
<1> DEFINE param == ParamIn(c, inner)
<1>1. /\ param.types = <<c>>
      /\ c = "array" => param.items = {inner}
      /\ c = "object" => DOMAIN param.fields = {"f"} /\ param.fields["f"] = inner
  BY ParamFacts
<1> HIDE DEF param
<1>2. /\ param.types[1] = c
      /\ c = "array" => inner \in param.items
      /\ c = "object" => "f" \in DOMAIN param.fields /\ param.fields["f"] = inner
  BY <1>1
<1>3. ~Valid4(param)
  BY <1>2 DEF Valid4, ValidParts, TooDeep, Containers
<1>4. Valid3(param) => Valid4(inner)
  BY <1>2 DEF Valid3, ValidParts, Containers
<1>5. Valid2(param) => Valid3(inner)
  BY <1>2 DEF Valid2, ValidParts, Containers
<1>6. Valid1(param) => Valid2(inner)
  BY <1>2 DEF Valid1, ValidParts, Containers
<1>7. ValidParam(param) => Valid1(inner)
  BY <1>2 DEF ValidParam, ValidParts, Containers
<1> QED BY <1>3, <1>4, <1>5, <1>6, <1>7 DEF param

\* A value in a container suits a schema in one if both are of one kind, and what
\* is in them suits.
LEMMA ContainerChecks ==
  ASSUME NEW c \in Containers, NEW d \in Containers, NEW inner, NEW part,
         NEW param, param = ParamIn(c, inner), NEW value, value = ValueIn(d, part)
  PROVE  /\ Check3(param, value) <=> c = d /\ Check4(inner, part)
         /\ Check2(param, value) <=> c = d /\ Check3(inner, part)
         /\ Check1(param, value) <=> c = d /\ Check2(inner, part)
         /\ CheckValue(param, value) <=> c = d /\ Check1(inner, part)
<1>1. value.kind = d
  BY ValueFacts
<1>2. /\ CheckItself(param, value) <=> c = d
      /\ c = d => MatchedType(param, value) = c
  BY <1>1, ContainerItself
<1>3. CASE c # d
  BY <1>2, <1>3 DEF Check3, Check2, Check1, CheckValue
<1>4. CASE c = d /\ c = "array"
  <2>1. param.items = {inner} /\ value.parts = <<part>>
    <3>1. c = "array" /\ d = "array"
      BY <1>4
    <3>2. ParamIn(c, inner).items = {inner}
      BY <3>1, ParamFacts
    <3>3. ValueIn(d, part).parts = <<part>>
      BY <3>1, ValueFacts
    <3> QED BY <3>2, <3>3
  <2>2. DOMAIN value.parts = {1} /\ value.parts[1] = part
    BY <2>1
  <2>3. CheckItself(param, value) /\ MatchedType(param, value) = "array"
    BY <1>2, <1>4
  <2>4. Check3(param, value) <=> Check4(inner, part)
    BY <2>1, <2>2, <2>3 DEF Check3, CheckParts
  <2>5. Check2(param, value) <=> Check3(inner, part)
    BY <2>1, <2>2, <2>3 DEF Check2, CheckParts
  <2>6. Check1(param, value) <=> Check2(inner, part)
    BY <2>1, <2>2, <2>3 DEF Check1, CheckParts
  <2>7. CheckValue(param, value) <=> Check1(inner, part)
    BY <2>1, <2>2, <2>3 DEF CheckValue, CheckParts
  <2> QED BY <1>4, <2>4, <2>5, <2>6, <2>7
<1>5. CASE c = d /\ c = "object"
  <2>1. c = "object" /\ d = "object"
    BY <1>5
  <2>2. /\ DOMAIN param.fields = {"f"} /\ param.fields["f"] = inner
        /\ DOMAIN value.fields = {"f"} /\ value.fields["f"] = part
    BY <2>1, ParamFacts, ValueFacts
  <2>3. CheckItself(param, value) /\ MatchedType(param, value) = "object"
    BY <1>2, <1>5
  <2>4. Check3(param, value) <=> Check4(inner, part)
    BY <2>2, <2>3 DEF Check3, CheckParts
  <2>5. Check2(param, value) <=> Check3(inner, part)
    BY <2>2, <2>3 DEF Check2, CheckParts
  <2>6. Check1(param, value) <=> Check2(inner, part)
    BY <2>2, <2>3 DEF Check1, CheckParts
  <2>7. CheckValue(param, value) <=> Check1(inner, part)
    BY <2>2, <2>3 DEF CheckValue, CheckParts
  <2> QED BY <1>5, <2>4, <2>5, <2>6, <2>7
<1> QED BY <1>3, <1>4, <1>5 DEF Containers

\* Without the outermost containers: a leaf is left, or no container in the value,
\* or what is in both.
Peeled(chain, shape, leaf, scalar, param, value) ==
  \/ param = leaf /\ (CheckItself(param, value) <=> (chain = shape /\ CheckItself(leaf, scalar)))
  \/ chain # shape /\ ~CheckItself(param, value)
  \/ \E k \in Nat, l \in Nat, c \in Containers, d \in Containers :
       \E inner \in [1..k -> Containers], part \in [1..l -> Containers] :
          /\ param = ParamIn(c, Nested(inner, leaf, scalar).param)
          /\ value = ValueIn(d, Nested(part, leaf, scalar).value)
          /\ chain = shape <=> c = d /\ inner = part

LEMMA Unwrapped ==
  ASSUME NEW n \in Nat, NEW m \in Nat,
         NEW chain \in [1..n -> Containers], NEW shape \in [1..m -> Containers],
         NEW leaf \in Leaves, NEW scalar \in Scalars,
         NEW param, param = Nested(chain, leaf, scalar).param,
         NEW value, value = Nested(shape, leaf, scalar).value
  PROVE  Peeled(chain, shape, leaf, scalar, param, value)
<1>l. Len(chain) = n /\ Len(shape) = m
  OBVIOUS
<1>c. n = 0 => Nested(chain, leaf, scalar).param = leaf
  BY <1>l, NestedEmpty
<1>s. m = 0 => Nested(shape, leaf, scalar).value = scalar
  BY <1>l, NestedEmpty
<1>1. CASE n = 0
  <2>1. param = leaf
    BY <1>1, <1>c
  <2>2. CASE m = 0
    <3>1. value = scalar
      BY <2>2, <1>s
    <3>2. chain = shape
      BY <1>1, <2>2
    <3> QED BY <2>1, <3>1, <3>2 DEF Peeled
  <2>3. CASE m # 0
    <3>1. PICK d \in Containers : \E part : value = ValueIn(d, part)
      <4>1. /\ shape[m] \in Containers
            /\ Nested(shape, leaf, scalar).value
                 = ValueIn(shape[m], Nested(Inner(shape), leaf, scalar).value)
        BY <2>3, NestedFacts
      <4> QED BY <4>1
    <3>2. ~CheckItself(leaf, value)
      <4>1. PICK part : value = ValueIn(d, part)
        BY <3>1
      <4>2. value.kind = d
        BY <4>1, ValueFacts
      <4> QED BY <4>2, LeafItself
    <3>3. chain # shape
      BY <1>1, <2>3
    <3> QED BY <2>1, <3>2, <3>3 DEF Peeled
  <2> QED BY <2>2, <2>3
<1>2. CASE n # 0 /\ m = 0
  <2>1. PICK c \in Containers : \E inner : param = ParamIn(c, inner)
    <3>1. /\ chain[n] \in Containers
          /\ Nested(chain, leaf, scalar).param
               = ParamIn(chain[n], Nested(Inner(chain), leaf, scalar).param)
      BY <1>2, NestedFacts
    <3> QED BY <3>1
  <2>2. value = scalar /\ scalar.kind \notin Containers
    BY <1>2, <1>s, LeavesAssumption DEF Containers
  <2>3. ~CheckItself(param, value)
    <3>1. PICK inner : param = ParamIn(c, inner)
      BY <2>1
    <3> QED BY <2>2, <3>1, ContainerItself
  <2>4. chain # shape
    BY <1>2
  <2> QED BY <2>3, <2>4 DEF Peeled
<1>3. CASE n # 0 /\ m # 0
  <2>1. /\ n - 1 \in Nat /\ Inner(chain) \in [1..(n - 1) -> Containers] /\ chain[n] \in Containers
        /\ param = ParamIn(chain[n], Nested(Inner(chain), leaf, scalar).param)
    BY <1>3, NestedFacts
  <2>2. /\ m - 1 \in Nat /\ Inner(shape) \in [1..(m - 1) -> Containers] /\ shape[m] \in Containers
        /\ value = ValueIn(shape[m], Nested(Inner(shape), leaf, scalar).value)
    BY <1>3, NestedFacts
  <2>3. chain = shape <=> chain[n] = shape[m] /\ Inner(chain) = Inner(shape)
    BY <1>3, SameChain
  <2> QED BY <2>1, <2>2, <2>3 DEF Peeled
<1> QED BY <1>1, <1>2, <1>3

\* What is not deeper than the check goes is checked to the leaf.
LEMMA Agree4 ==
  ASSUME NEW n \in Nat, NEW m \in Nat,
         NEW chain \in [1..n -> Containers], NEW shape \in [1..m -> Containers],
         NEW leaf \in Leaves, NEW scalar \in Scalars,
         Valid4(Nested(chain, leaf, scalar).param)
  PROVE  Check4(Nested(chain, leaf, scalar).param, Nested(shape, leaf, scalar).value)
           <=> (chain = shape /\ CheckItself(leaf, scalar))
<1> DEFINE P(c) == Nested(c, leaf, scalar).param
           Q(c) == Nested(c, leaf, scalar).value
<1> PICK param : param = P(chain)
  OBVIOUS
<1> PICK value : value = Q(shape)
  OBVIOUS
<1>1. \/ param = leaf /\ (CheckItself(param, value) <=> (chain = shape /\ CheckItself(leaf, scalar)))
      \/ chain # shape /\ ~CheckItself(param, value)
      \/ \E k \in Nat, l \in Nat, c \in Containers, d \in Containers :
           \E inner \in [1..k -> Containers], part \in [1..l -> Containers] :
              /\ param = ParamIn(c, P(inner)) /\ value = ValueIn(d, Q(part))
              /\ chain = shape <=> c = d /\ inner = part
  <2>1. Peeled(chain, shape, leaf, scalar, param, value)
    BY Unwrapped
  <2> QED BY <2>1 DEF Peeled
<1>2. Valid4(param)
  OBVIOUS
<1> HIDE DEF P, Q
<1>3. CASE param = leaf /\ (CheckItself(param, value) <=> (chain = shape /\ CheckItself(leaf, scalar)))
  BY <1>3, LeafChecks DEF P, Q
<1>4. CASE chain # shape /\ ~CheckItself(param, value)
  BY <1>4 DEF Check4, P, Q
<1>5. ASSUME NEW k \in Nat, NEW l \in Nat, NEW c \in Containers, NEW d \in Containers,
             NEW inner \in [1..k -> Containers], NEW part \in [1..l -> Containers],
             param = ParamIn(c, P(inner)), value = ValueIn(d, Q(part)),
             chain = shape <=> c = d /\ inner = part
      PROVE  Check4(param, value) <=> (chain = shape /\ CheckItself(leaf, scalar))
  BY <1>2, <1>5, ContainerValid
<1> QED BY <1>1, <1>3, <1>4, <1>5, SMTT(30) DEF P, Q

LEMMA Agree3 ==
  ASSUME NEW n \in Nat, NEW m \in Nat,
         NEW chain \in [1..n -> Containers], NEW shape \in [1..m -> Containers],
         NEW leaf \in Leaves, NEW scalar \in Scalars,
         Valid3(Nested(chain, leaf, scalar).param)
  PROVE  Check3(Nested(chain, leaf, scalar).param, Nested(shape, leaf, scalar).value)
           <=> (chain = shape /\ CheckItself(leaf, scalar))
<1> DEFINE P(c) == Nested(c, leaf, scalar).param
           Q(c) == Nested(c, leaf, scalar).value
<1> PICK param : param = P(chain)
  OBVIOUS
<1> PICK value : value = Q(shape)
  OBVIOUS
<1>1. \/ param = leaf /\ (CheckItself(param, value) <=> (chain = shape /\ CheckItself(leaf, scalar)))
      \/ chain # shape /\ ~CheckItself(param, value)
      \/ \E k \in Nat, l \in Nat, c \in Containers, d \in Containers :
           \E inner \in [1..k -> Containers], part \in [1..l -> Containers] :
              /\ param = ParamIn(c, P(inner)) /\ value = ValueIn(d, Q(part))
              /\ chain = shape <=> c = d /\ inner = part
  <2>1. Peeled(chain, shape, leaf, scalar, param, value)
    BY Unwrapped
  <2> QED BY <2>1 DEF Peeled
<1>2. Valid3(param)
  OBVIOUS
<1> HIDE DEF P, Q
<1>3. CASE param = leaf /\ (CheckItself(param, value) <=> (chain = shape /\ CheckItself(leaf, scalar)))
  BY <1>3, LeafChecks DEF P, Q
<1>4. CASE chain # shape /\ ~CheckItself(param, value)
  BY <1>4 DEF Check3, P, Q
<1>5. ASSUME NEW k \in Nat, NEW l \in Nat, NEW c \in Containers, NEW d \in Containers,
             NEW inner \in [1..k -> Containers], NEW part \in [1..l -> Containers],
             param = ParamIn(c, P(inner)), value = ValueIn(d, Q(part)),
             chain = shape <=> c = d /\ inner = part
      PROVE  Check3(param, value) <=> (chain = shape /\ CheckItself(leaf, scalar))
  <2>1. Valid4(P(inner))
    BY <1>2, <1>5, ContainerValid
  <2>2. Check3(param, value) <=> c = d /\ Check4(P(inner), Q(part))
    BY <1>5, ContainerChecks
  <2>3. Check4(P(inner), Q(part)) <=> (inner = part /\ CheckItself(leaf, scalar))
    BY <2>1, Agree4 DEF P, Q
  <2> QED BY <1>5, <2>2, <2>3
<1> QED BY <1>1, <1>3, <1>4, <1>5, SMTT(30) DEF P, Q

LEMMA Agree2 ==
  ASSUME NEW n \in Nat, NEW m \in Nat,
         NEW chain \in [1..n -> Containers], NEW shape \in [1..m -> Containers],
         NEW leaf \in Leaves, NEW scalar \in Scalars,
         Valid2(Nested(chain, leaf, scalar).param)
  PROVE  Check2(Nested(chain, leaf, scalar).param, Nested(shape, leaf, scalar).value)
           <=> (chain = shape /\ CheckItself(leaf, scalar))
<1> DEFINE P(c) == Nested(c, leaf, scalar).param
           Q(c) == Nested(c, leaf, scalar).value
<1> PICK param : param = P(chain)
  OBVIOUS
<1> PICK value : value = Q(shape)
  OBVIOUS
<1>1. \/ param = leaf /\ (CheckItself(param, value) <=> (chain = shape /\ CheckItself(leaf, scalar)))
      \/ chain # shape /\ ~CheckItself(param, value)
      \/ \E k \in Nat, l \in Nat, c \in Containers, d \in Containers :
           \E inner \in [1..k -> Containers], part \in [1..l -> Containers] :
              /\ param = ParamIn(c, P(inner)) /\ value = ValueIn(d, Q(part))
              /\ chain = shape <=> c = d /\ inner = part
  <2>1. Peeled(chain, shape, leaf, scalar, param, value)
    BY Unwrapped
  <2> QED BY <2>1 DEF Peeled
<1>2. Valid2(param)
  OBVIOUS
<1> HIDE DEF P, Q
<1>3. CASE param = leaf /\ (CheckItself(param, value) <=> (chain = shape /\ CheckItself(leaf, scalar)))
  BY <1>3, LeafChecks DEF P, Q
<1>4. CASE chain # shape /\ ~CheckItself(param, value)
  BY <1>4 DEF Check2, P, Q
<1>5. ASSUME NEW k \in Nat, NEW l \in Nat, NEW c \in Containers, NEW d \in Containers,
             NEW inner \in [1..k -> Containers], NEW part \in [1..l -> Containers],
             param = ParamIn(c, P(inner)), value = ValueIn(d, Q(part)),
             chain = shape <=> c = d /\ inner = part
      PROVE  Check2(param, value) <=> (chain = shape /\ CheckItself(leaf, scalar))
  <2>1. Valid3(P(inner))
    BY <1>2, <1>5, ContainerValid
  <2>2. Check2(param, value) <=> c = d /\ Check3(P(inner), Q(part))
    BY <1>5, ContainerChecks
  <2>3. Check3(P(inner), Q(part)) <=> (inner = part /\ CheckItself(leaf, scalar))
    BY <2>1, Agree3 DEF P, Q
  <2> QED BY <1>5, <2>2, <2>3
<1> QED BY <1>1, <1>3, <1>4, <1>5, SMTT(30) DEF P, Q

LEMMA Agree1 ==
  ASSUME NEW n \in Nat, NEW m \in Nat,
         NEW chain \in [1..n -> Containers], NEW shape \in [1..m -> Containers],
         NEW leaf \in Leaves, NEW scalar \in Scalars,
         Valid1(Nested(chain, leaf, scalar).param)
  PROVE  Check1(Nested(chain, leaf, scalar).param, Nested(shape, leaf, scalar).value)
           <=> (chain = shape /\ CheckItself(leaf, scalar))
<1> DEFINE P(c) == Nested(c, leaf, scalar).param
           Q(c) == Nested(c, leaf, scalar).value
<1> PICK param : param = P(chain)
  OBVIOUS
<1> PICK value : value = Q(shape)
  OBVIOUS
<1>1. \/ param = leaf /\ (CheckItself(param, value) <=> (chain = shape /\ CheckItself(leaf, scalar)))
      \/ chain # shape /\ ~CheckItself(param, value)
      \/ \E k \in Nat, l \in Nat, c \in Containers, d \in Containers :
           \E inner \in [1..k -> Containers], part \in [1..l -> Containers] :
              /\ param = ParamIn(c, P(inner)) /\ value = ValueIn(d, Q(part))
              /\ chain = shape <=> c = d /\ inner = part
  <2>1. Peeled(chain, shape, leaf, scalar, param, value)
    BY Unwrapped
  <2> QED BY <2>1 DEF Peeled
<1>2. Valid1(param)
  OBVIOUS
<1> HIDE DEF P, Q
<1>3. CASE param = leaf /\ (CheckItself(param, value) <=> (chain = shape /\ CheckItself(leaf, scalar)))
  BY <1>3, LeafChecks DEF P, Q
<1>4. CASE chain # shape /\ ~CheckItself(param, value)
  BY <1>4 DEF Check1, P, Q
<1>5. ASSUME NEW k \in Nat, NEW l \in Nat, NEW c \in Containers, NEW d \in Containers,
             NEW inner \in [1..k -> Containers], NEW part \in [1..l -> Containers],
             param = ParamIn(c, P(inner)), value = ValueIn(d, Q(part)),
             chain = shape <=> c = d /\ inner = part
      PROVE  Check1(param, value) <=> (chain = shape /\ CheckItself(leaf, scalar))
  <2>1. Valid2(P(inner))
    BY <1>2, <1>5, ContainerValid
  <2>2. Check1(param, value) <=> c = d /\ Check2(P(inner), Q(part))
    BY <1>5, ContainerChecks
  <2>3. Check2(P(inner), Q(part)) <=> (inner = part /\ CheckItself(leaf, scalar))
    BY <2>1, Agree2 DEF P, Q
  <2> QED BY <1>5, <2>2, <2>3
<1> QED BY <1>1, <1>3, <1>4, <1>5, SMTT(30) DEF P, Q

LEMMA Agree0 ==
  ASSUME NEW n \in Nat, NEW m \in Nat,
         NEW chain \in [1..n -> Containers], NEW shape \in [1..m -> Containers],
         NEW leaf \in Leaves, NEW scalar \in Scalars,
         ValidParam(Nested(chain, leaf, scalar).param)
  PROVE  CheckValue(Nested(chain, leaf, scalar).param, Nested(shape, leaf, scalar).value)
           <=> (chain = shape /\ CheckItself(leaf, scalar))
<1> DEFINE P(c) == Nested(c, leaf, scalar).param
           Q(c) == Nested(c, leaf, scalar).value
<1> PICK param : param = P(chain)
  OBVIOUS
<1> PICK value : value = Q(shape)
  OBVIOUS
<1>1. \/ param = leaf /\ (CheckItself(param, value) <=> (chain = shape /\ CheckItself(leaf, scalar)))
      \/ chain # shape /\ ~CheckItself(param, value)
      \/ \E k \in Nat, l \in Nat, c \in Containers, d \in Containers :
           \E inner \in [1..k -> Containers], part \in [1..l -> Containers] :
              /\ param = ParamIn(c, P(inner)) /\ value = ValueIn(d, Q(part))
              /\ chain = shape <=> c = d /\ inner = part
  <2>1. Peeled(chain, shape, leaf, scalar, param, value)
    BY Unwrapped
  <2> QED BY <2>1 DEF Peeled
<1>2. ValidParam(param)
  OBVIOUS
<1> HIDE DEF P, Q
<1>3. CASE param = leaf /\ (CheckItself(param, value) <=> (chain = shape /\ CheckItself(leaf, scalar)))
  BY <1>3, LeafChecks DEF P, Q
<1>4. CASE chain # shape /\ ~CheckItself(param, value)
  BY <1>4 DEF CheckValue, P, Q
<1>5. ASSUME NEW k \in Nat, NEW l \in Nat, NEW c \in Containers, NEW d \in Containers,
             NEW inner \in [1..k -> Containers], NEW part \in [1..l -> Containers],
             param = ParamIn(c, P(inner)), value = ValueIn(d, Q(part)),
             chain = shape <=> c = d /\ inner = part
      PROVE  CheckValue(param, value) <=> (chain = shape /\ CheckItself(leaf, scalar))
  <2>1. Valid1(P(inner))
    BY <1>2, <1>5, ContainerValid
  <2>2. CheckValue(param, value) <=> c = d /\ Check1(P(inner), Q(part))
    BY <1>5, ContainerChecks
  <2>3. Check1(P(inner), Q(part)) <=> (inner = part /\ CheckItself(leaf, scalar))
    BY <2>1, Agree1 DEF P, Q
  <2> QED BY <1>5, <2>2, <2>3
<1> QED BY <1>1, <1>3, <1>4, <1>5, SMTT(30) DEF P, Q

\* However deep the containers of a schema that was accepted are, the check of a
\* value looks at each of them and at the leaf (capValidateParam, capCheckValue).
THEOREM CheckGoesToTheLeaf == Calls => []CheckedAtEveryLevel
<1> DEFINE Agreed(r) ==
      r <=> (call.shape = call.chain /\ CheckValue(call.leaf, call.scalar))
           Answered ==
      /\ call.of = "check" => /\ call.chain \in Chains /\ call.shape \in Chains
                             /\ call.leaf \in Leaves /\ call.scalar \in Scalars
      /\ call.of = "check" /\ returned # <<>> => Agreed(returned[1])
<1>1. CallInit => Answered
  BY DEF CallInit
<1>2. ASSUME Answered, [Return]_callVars PROVE Answered'
  <2>1. CASE Check
    <3>1. PICK n \in 0..MaxLevels : call.chain \in [1..n -> Containers]
      BY <1>2, <2>1 DEF Check, Chains, Containers
    <3>2. PICK m \in 0..MaxLevels : call.shape \in [1..m -> Containers]
      BY <1>2, <2>1 DEF Check, Chains, Containers
    <3>3. n \in Nat /\ m \in Nat /\ call.leaf \in Leaves /\ call.scalar \in Scalars
      BY <1>2, <2>1, SizesAssumption DEF Check
    <3> DEFINE param == Nested(call.chain, call.leaf, call.scalar).param
               value == Nested(call.shape, call.leaf, call.scalar).value
    <3>4. ValidParam(param) /\ returned' = <<CheckValue(param, value)>> /\ call' = call
      BY <2>1 DEF Check
    <3>5. CheckValue(param, value) <=> (call.chain = call.shape /\ CheckItself(call.leaf, call.scalar))
      BY <3>1, <3>2, <3>3, <3>4, Agree0
    <3>6. CheckValue(call.leaf, call.scalar) <=> CheckItself(call.leaf, call.scalar)
      BY <3>3, LeafChecks
    <3> HIDE DEF param, value
    <3>7. Agreed(returned'[1])
      BY <3>4, <3>5, <3>6
    <3> QED BY <1>2, <3>4, <3>7
  <2>2. CASE Associate \/ Fill \/ UNCHANGED callVars
    BY <1>2, <2>2 DEF Associate, Fill, callVars
  <2> QED BY <1>2, <2>1, <2>2 DEF Return
<1>3. Answered => CheckedAtEveryLevel
  BY DEF CheckedAtEveryLevel
<1> HIDE DEF Answered
<1> QED BY <1>1, <1>2, <1>3, PTL DEF Calls

\* The schemas a check may go on to from one.
Parts(param) ==
  {item \in param.items : \E i \in DOMAIN param.types : param.types[i] = "array"}
    \union {param.fields[name] : name \in {f \in DOMAIN param.fields :
                \E i \in DOMAIN param.types : param.types[i] = "object"}}

\* capValidateParam goes wherever a check may go.
LEMMA ValidGoesOn ==
  ASSUME NEW param, param.types \in Seq(Types), NEW part \in Parts(param)
  PROVE  /\ ~Valid4(param)
         /\ Valid3(param) => Valid4(part)
         /\ Valid2(param) => Valid3(part)
         /\ Valid1(param) => Valid2(part)
         /\ ValidParam(param) => Valid1(part)
<1>1. PICK i \in DOMAIN param.types :
         \/ param.types[i] = "array" /\ part \in param.items
         \/ param.types[i] = "object" /\ \E name \in DOMAIN param.fields : part = param.fields[name]
  BY DEF Parts
<1>2. ASSUME ValidItself(param) PROVE i = 1
  <2>1. param.types[i] \notin ScalarTypes
    BY <1>1 DEF ScalarTypes
  <2>2. ~(Len(param.types) > 1)
    BY <1>2, <2>1 DEF ValidItself
  <2> QED BY <2>2
<1>3. ~Valid4(param)
  BY <1>1, <1>2 DEF Valid4, ValidParts, TooDeep
<1>4. Valid3(param) => Valid4(part)
  BY <1>1, <1>2 DEF Valid3, ValidParts
<1>5. Valid2(param) => Valid3(part)
  BY <1>1, <1>2 DEF Valid2, ValidParts
<1>6. Valid1(param) => Valid2(part)
  BY <1>1, <1>2 DEF Valid1, ValidParts
<1>7. ValidParam(param) => Valid1(part)
  BY <1>1, <1>2 DEF ValidParam, ValidParts
<1> QED BY <1>3, <1>4, <1>5, <1>6, <1>7

\* Of any schema that was accepted, whatever it is made of, the parts that are four
\* levels down have no parts, so that a check that stops at this depth leaves none
\* out (the depths in capValidateParam and capCheckValue).
THEOREM NothingBelowTheCheck ==
  ASSUME NEW Schemata, \A s \in Schemata : s.types \in Seq(Types) /\ Parts(s) \subseteq Schemata,
         NEW p0 \in Schemata, ValidParam(p0),
         NEW p1 \in Parts(p0), NEW p2 \in Parts(p1), NEW p3 \in Parts(p2), NEW p4 \in Parts(p3)
  PROVE  Parts(p4) = {}
<1>1. p1 \in Schemata /\ Valid1(p1)
  BY ValidGoesOn
<1>2. p2 \in Schemata /\ Valid2(p2)
  BY <1>1, ValidGoesOn
<1>3. p3 \in Schemata /\ Valid3(p3)
  BY <1>2, ValidGoesOn
<1>4. p4 \in Schemata /\ Valid4(p4)
  BY <1>3, ValidGoesOn
<1> QED BY <1>4, ValidGoesOn
=============================================================================
