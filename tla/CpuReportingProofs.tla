-------------------------- MODULE CpuReportingProofs --------------------------
(***************************************************************************)
(* Proofs about CpuReporting, for any modules, boards, windows and bounds. *)
(***************************************************************************)
EXTENDS CpuReporting, TLAPS

USE MonitorAssumption, AggregatorAssumption, ReportingAssumption

LEMMA Windows ==
  /\ StaleAfter \in Nat /\ LongAgo \in Nat /\ MaxAge \in Nat
  /\ MaxAge > StaleAfter /\ LongAgo > StaleAfter
  /\ 0 \in 0..MaxAge /\ LongAgo \in 0..LongAgo
BY DEF StaleAfter, LongAgo, MaxAge

LEMMA OlderStays ==
  ASSUME NEW cap \in Nat, NEW age \in 0..cap
  PROVE  Older(age, cap) \in 0..cap /\ Older(age, cap) <= age + 1
BY DEF Older

-----------------------------------------------------------------------------
(* Types.                                                                  *)

\* What a sample does to the monitor keeps the types and closes the window it
\* leads to.
LEMMA OnUsageTypes ==
  ASSUME TypeOK, NEW m \in Modules, NEW u \in Loads, OnUsage(m, u)
  PROVE  /\ state' \in [Modules -> States]
         /\ pending' \in [Modules -> States \cup {"none"}]
         /\ \A n \in Modules : pending'[n] # state'[n]
         /\ held' \in [Modules -> 0..SustainFor]
         /\ \A n \in Modules : n # m => state'[n] = state[n]
<1>1. Wants(m, u) \in States \cup {"none"} /\ Wants(m, u) # state[m]
  BY DEF TypeOK, Wants, States
<1>2. state' \in [Modules -> States] /\ \A n \in Modules : n # m => state'[n] = state[n]
  BY <1>1 DEF TypeOK, OnUsage, Switches, States
<1>3. pending' \in [Modules -> States \cup {"none"}]
  BY <1>1 DEF TypeOK, OnUsage, Switches, States
<1>4. held' \in [Modules -> 0..SustainFor]
  <2>1. held \in [Modules -> 0..SustainFor] /\ 0 \in 0..SustainFor
    BY DEF TypeOK
  <2> QED BY <2>1 DEF OnUsage
<1>5. ASSUME NEW n \in Modules PROVE pending'[n] # state'[n]
  <2>1. CASE n # m
    BY <2>1, <1>2 DEF TypeOK, OnUsage
  <2>2. CASE n = m
    BY <2>2, <1>1 DEF TypeOK, OnUsage, Switches, States
  <2> QED BY <2>1, <2>2
<1> QED BY <1>2, <1>3, <1>4, <1>5

LEMMA ReportTypes ==
  ASSUME TypeOK, NEW m \in Modules, state'[m] \in States, Report(m)
  PROVE  reports' \subseteq Reports /\ sinceReport' \in [Modules -> 0..ReportEvery]
BY DEF TypeOK, Report, Reports

LEMMA InitTypes == Init => TypeOK
<1> SUFFICES ASSUME Init PROVE TypeOK
  OBVIOUS
<1>1. /\ load \in [Boards -> Loads] /\ alive \subseteq Modules
      /\ sinceTurn \in [Modules -> 0..TurnMax]
      /\ usage \in [Modules -> {"none", "baseline", "known"}]
      /\ state \in [Modules -> States] /\ pending \in [Modules -> States \cup {"none"}]
      /\ \A m \in Modules : pending[m] # state[m]
  BY DEF Init, MonitorInit, States
<1>2. /\ held \in [Modules -> 0..SustainFor] /\ sinceReport \in [Modules -> 0..ReportEvery]
      /\ reports \subseteq Reports
  BY DEF Init, MonitorInit
<1>3. /\ latest \in [Modules -> States \cup {"none"}] /\ seen \in [Modules -> 0..MaxAge]
      /\ unit \in States /\ sinceTick \in 0..TickMax
  BY Windows DEF Init, AggregatorInit, States
<1>4. missed \in [Modules -> 0..TooMany] /\ sinceBusy \in [Modules -> 0..LongAgo]
  BY Windows DEF Init, TooMany
<1> QED BY <1>1, <1>2, <1>3, <1>4 DEF TypeOK

LEMMA StepTypes == TypeOK /\ [Next]_vars => TypeOK'
<1> SUFFICES ASSUME TypeOK, [Next]_vars PROVE TypeOK'
  OBVIOUS
<1> USE Windows
<1>1. ASSUME NEW m \in Modules, TakeBaseline(m) PROVE TypeOK'
  BY <1>1 DEF TypeOK, TakeBaseline, Baseline, Turned, aggregatorVars, history
<1>2. ASSUME NEW m \in Modules, Measure(m) PROVE TypeOK'
  <2>1. load[BoardOf[m]] \in Loads
    BY DEF TypeOK
  <2>2. OnUsage(m, load[BoardOf[m]]) /\ Report(m)
    BY <1>2 DEF Measure, Sample
  <2>3. state' \in [Modules -> States] /\ reports' \subseteq Reports
        /\ sinceReport' \in [Modules -> 0..ReportEvery]
    BY <2>1, <2>2, OnUsageTypes, ReportTypes
  <2>4. sinceBusy' \in [Modules -> 0..LongAgo]
    BY <1>2 DEF TypeOK, Measure, Mark
  <2>5. /\ sinceTurn' \in [Modules -> 0..TurnMax]
        /\ usage' \in [Modules -> {"none", "baseline", "known"}]
    BY <1>2 DEF TypeOK, Measure, Sample, Turned
  <2> QED
    BY <1>2, <2>1, <2>2, <2>3, <2>4, <2>5, OnUsageTypes
    DEF TypeOK, Measure, Sample, aggregatorVars
<1>3. ASSUME NEW m \in Modules, Stuck(m) PROVE TypeOK'
  <2>1. state'[m] \in States /\ Report(m)
    BY <1>3 DEF TypeOK, Stuck, SampleStuck
  <2> QED
    BY <1>3, <2>1, ReportTypes DEF TypeOK, Stuck, SampleStuck, Turned, aggregatorVars, history
<1>4. ASSUME NEW m \in Modules, Unreadable(m) PROVE TypeOK'
  BY <1>4 DEF TypeOK, Unreadable, SampleFails, Turned, TooMany, aggregatorVars
<1>5. ASSUME NEW m \in Modules, ModuleCrashes(m) PROVE TypeOK'
  BY <1>5 DEF TypeOK, ModuleCrashes, Crash, TooMany, aggregatorVars
<1>6. ASSUME NEW m \in Modules, ModuleRestarts(m) PROVE TypeOK'
  BY <1>6 DEF TypeOK, ModuleRestarts, Restart, Turned, States, aggregatorVars
<1>7. ASSUME NEW r \in Reports, Arrive(r) PROVE TypeOK'
  <2>1. r.from \in Modules /\ r.s \in States
    BY DEF Reports
  <2> QED
    BY <1>7, <2>1 DEF TypeOK, Arrive, OnReport, TooMany
<1>8. ASSUME NEW r \in Reports, Lose(r) PROVE TypeOK'
  <2>1. r.from \in Modules /\ TooMany \in Nat
    BY DEF Reports, TooMany
  <2>2. Older(missed[r.from], TooMany) \in 0..TooMany
    BY <2>1, OlderStays DEF TypeOK
  <2> QED
    BY <1>8, <2>1, <2>2 DEF TypeOK, Lose, aggregatorVars
<1>9. CASE CommunicatorTicks
  BY <1>9 DEF TypeOK, CommunicatorTicks, Tick, States, monitorVars, history
<1>10. CASE Elapse
  <2>1. held' \in [Modules -> 0..SustainFor] /\ sinceReport' \in [Modules -> 0..ReportEvery]
    BY <1>10, OlderStays DEF TypeOK, Elapse, MonitorElapse
  <2>4. sinceTurn' \in [Modules -> 0..TurnMax] /\ sinceTick' \in 0..TickMax
    BY <1>10, OlderStays DEF TypeOK, Elapse, MonitorElapse, AggregatorElapse
  <2>2. seen' \in [Modules -> 0..MaxAge]
    BY <1>10, OlderStays DEF TypeOK, Elapse, AggregatorElapse
  <2>3. sinceBusy' \in [Modules -> 0..LongAgo]
    BY <1>10, OlderStays DEF TypeOK, Elapse
  <2> QED
    BY <1>10, <2>1, <2>2, <2>3, <2>4 DEF TypeOK, Elapse, MonitorElapse, AggregatorElapse
<1>11. CASE UNCHANGED vars
  BY <1>11 DEF TypeOK, vars, monitorVars, aggregatorVars, history
<1> QED
  BY <1>1, <1>2, <1>3, <1>4, <1>5, <1>6, <1>7, <1>8, <1>9, <1>10, <1>11
  DEF Next, HealthThread

\* Every variable keeps its type, and a monitor's window (m_pending_dir) is never
\* open towards the state it is in.
THEOREM TypeCorrect == Spec => []TypeOK
<1> QED BY InitTypes, StepTypes, PTL DEF Spec

-----------------------------------------------------------------------------
(* The unit is busy only while some board was, within the stale window.    *)

\* A live module that is busy was busy just now.
BusyIsNow ==
  \A m \in alive : state[m] = "SUPER_BUSY" => sinceBusy[m] = 0

\* So was the sender of a report that says so: it arrives in the same second.
ReportsAreTrue ==
  \A r \in reports : r.s = "SUPER_BUSY" => sinceBusy[r.from] = 0

\* The communicator's record is no younger than the truth it records.
RecordsAge ==
  \A m \in Modules :
    latest[m] = "SUPER_BUSY" /\ seen[m] <= StaleAfter => sinceBusy[m] <= seen[m]

\* UnitBusyJustified alone is not inductive: a tick relies on what the records
\* say, a record on the report it came from, a report on the monitor.
IInv == TypeOK /\ BusyIsNow /\ ReportsAreTrue /\ RecordsAge /\ UnitBusyJustified

LEMMA InitIInv == Init => IInv
BY InitTypes DEF Init, MonitorInit, AggregatorInit, IInv, BusyIsNow, ReportsAreTrue,
   RecordsAge, UnitBusyJustified, Ticked

\* A report that is sent by a module whose state is right is right.
LEMMA ReportIsTrue ==
  ASSUME TypeOK, TypeOK', BusyIsNow', ReportsAreTrue,
         NEW m \in Modules, m \in alive', Report(m),
         \A n \in Modules : sinceBusy'[n] = sinceBusy[n] \/ sinceBusy'[n] = 0
  PROVE  ReportsAreTrue'
<1> SUFFICES ASSUME NEW r \in reports', r.s = "SUPER_BUSY"
             PROVE  sinceBusy'[r.from] = 0
  BY DEF ReportsAreTrue
<1>1. CASE r \in reports
  <2>1. r.from \in Modules /\ sinceBusy[r.from] = 0
    BY <1>1 DEF TypeOK, Reports, ReportsAreTrue
  <2> QED BY <2>1
<1>2. CASE r \notin reports
  <2>1. r = [from |-> m, s |-> state'[m]]
    BY <1>2 DEF Report
  <2> QED BY <2>1 DEF BusyIsNow
<1> QED BY <1>1, <1>2

LEMMA StepIInv == IInv /\ [Next]_vars => IInv'
<1> SUFFICES ASSUME IInv, [Next]_vars PROVE IInv'
  OBVIOUS
<1> USE Windows
<1>t. TypeOK /\ TypeOK' /\ BusyIsNow /\ ReportsAreTrue /\ RecordsAge /\ UnitBusyJustified
  BY StepTypes DEF IInv
<1>1. ASSUME NEW m \in Modules, TakeBaseline(m) PROVE IInv'
  BY <1>1, <1>t DEF TakeBaseline, Baseline, aggregatorVars, history, IInv, BusyIsNow,
     ReportsAreTrue, RecordsAge, UnitBusyJustified, Ticked
<1>2. ASSUME NEW m \in Modules, Measure(m) PROVE IInv'
  <2>1. load[BoardOf[m]] \in Loads /\ m \in alive /\ alive' = alive
    BY <1>2, <1>t DEF TypeOK, Measure, Sample, Awake
  <2>2. \A n \in Modules : n # m => state'[n] = state[n]
    BY <1>2, <1>t, <2>1, OnUsageTypes DEF Measure, Sample
  <2>3. /\ \A n \in Modules : sinceBusy'[n] = sinceBusy[n] \/ sinceBusy'[n] = 0
        /\ state'[m] = "SUPER_BUSY" => sinceBusy'[m] = 0
    BY <1>2, <1>t DEF TypeOK, Measure, Mark
  <2>4. BusyIsNow'
    BY <1>t, <2>1, <2>2, <2>3 DEF TypeOK, BusyIsNow
  <2>5. ReportsAreTrue'
    BY <1>2, <1>t, <2>1, <2>3, <2>4, ReportIsTrue DEF Measure, Sample
  <2>6. \A n \in Modules : sinceBusy'[n] <= sinceBusy[n] /\ sinceBusy[n] \in Nat
    BY <1>t, <2>3 DEF TypeOK
  <2>7. UNCHANGED <<latest, seen, unit, sinceTick>> /\ \A n \in Modules : seen[n] \in Nat
    BY <1>2, <1>t DEF TypeOK, Measure, aggregatorVars
  <2>8. RecordsAge'
    <3> SUFFICES ASSUME NEW n \in Modules, latest[n] = "SUPER_BUSY", seen[n] <= StaleAfter
                 PROVE  sinceBusy'[n] <= seen[n]
      BY <2>7 DEF RecordsAge, StaleAfter
    <3>1. sinceBusy[n] <= seen[n] /\ sinceBusy'[n] \in Nat
      BY <1>t DEF RecordsAge, TypeOK
    <3> QED BY <3>1, <2>6, <2>7
  <2>9. UnitBusyJustified'
    <3> SUFFICES ASSUME Ticked, unit = "SUPER_BUSY"
                 PROVE  \E n \in Modules : sinceBusy'[n] <= StaleAfter
      BY <2>7 DEF UnitBusyJustified, Ticked, StaleAfter
    <3>1. PICK n \in Modules : sinceBusy[n] <= StaleAfter
      BY <1>t DEF UnitBusyJustified, Ticked
    <3>2. sinceBusy'[n] \in Nat
      BY <1>t DEF TypeOK
    <3> QED BY <3>1, <3>2, <2>6
  <2> QED BY <1>t, <2>4, <2>5, <2>8, <2>9 DEF IInv
<1>3. ASSUME NEW m \in Modules, Stuck(m) PROVE IInv'
  <2>1. m \in alive' /\ Report(m) /\ UNCHANGED <<state, alive, sinceBusy>>
    BY <1>3, <1>t DEF TypeOK, Stuck, SampleStuck, Awake, history
  <2>2. BusyIsNow'
    BY <1>t, <2>1 DEF BusyIsNow
  <2>3. ReportsAreTrue'
    BY <1>t, <2>1, <2>2, ReportIsTrue
  <2> QED
    BY <1>3, <1>t, <2>1, <2>2, <2>3
    DEF Stuck, aggregatorVars, IInv, RecordsAge, UnitBusyJustified, Ticked
<1>4. ASSUME NEW m \in Modules, Unreadable(m) PROVE IInv'
  BY <1>4, <1>t DEF Unreadable, SampleFails, aggregatorVars, IInv, BusyIsNow,
     ReportsAreTrue, RecordsAge, UnitBusyJustified, Ticked
<1>5. ASSUME NEW m \in Modules, ModuleCrashes(m) PROVE IInv'
  BY <1>5, <1>t DEF ModuleCrashes, Crash, aggregatorVars, IInv, BusyIsNow,
     ReportsAreTrue, RecordsAge, UnitBusyJustified, Ticked
<1>6. ASSUME NEW m \in Modules, ModuleRestarts(m) PROVE IInv'
  <2>1. BusyIsNow'
    BY <1>6, <1>t DEF TypeOK, ModuleRestarts, Restart, BusyIsNow
  <2> QED
    BY <1>6, <1>t, <2>1 DEF ModuleRestarts, Restart, aggregatorVars, IInv,
       ReportsAreTrue, RecordsAge, UnitBusyJustified, Ticked
<1>7. ASSUME NEW r \in Reports, Arrive(r) PROVE IInv'
  <2>1. RecordsAge'
    <3> SUFFICES ASSUME NEW n \in Modules, latest'[n] = "SUPER_BUSY", seen'[n] <= StaleAfter
                 PROVE  sinceBusy[n] <= seen'[n]
      BY <1>7 DEF Arrive, RecordsAge, StaleAfter
    <3>1. CASE n = r.from
      <4>1. r \in reports /\ r.s = "SUPER_BUSY" /\ seen'[n] = 0
        BY <1>7, <1>t, <3>1 DEF TypeOK, Arrive, OnReport
      <4> QED BY <1>t, <4>1, <3>1 DEF ReportsAreTrue
    <3>2. CASE n # r.from
      BY <1>7, <1>t, <3>2 DEF TypeOK, Arrive, OnReport, RecordsAge
    <3> QED BY <3>1, <3>2
  <2> QED
    BY <1>7, <1>t, <2>1 DEF Arrive, OnReport, IInv, BusyIsNow, ReportsAreTrue,
       UnitBusyJustified, Ticked
<1>8. ASSUME NEW r \in Reports, Lose(r) PROVE IInv'
  BY <1>8, <1>t DEF Lose, aggregatorVars, IInv, BusyIsNow, ReportsAreTrue, RecordsAge,
     UnitBusyJustified, Ticked
<1>9. CASE CommunicatorTicks
  <2>1. UNCHANGED <<state, alive, reports, sinceBusy>>
    BY <1>9 DEF CommunicatorTicks, Tick, monitorVars, history
  <2>2. RecordsAge'
    BY <1>9, <1>t, <2>1 DEF TypeOK, CommunicatorTicks, Tick, RecordsAge
  <2>3. UnitBusyJustified'
    <3> SUFFICES ASSUME unit' = "SUPER_BUSY"
                 PROVE  \E m \in Modules : sinceBusy[m] <= StaleAfter
      BY <2>1 DEF UnitBusyJustified, StaleAfter
    <3>1. PICK b \in Boards : BoardBusy(b)
      BY <1>9 DEF CommunicatorTicks, Tick
    <3>2. PICK m \in Modules : latest[m] = "SUPER_BUSY" /\ seen[m] <= StaleAfter
      BY <3>1 DEF BoardBusy, OnBoard, Fresh
    <3>3. sinceBusy[m] <= seen[m] /\ sinceBusy[m] \in Nat /\ seen[m] \in Nat
      BY <1>t, <3>2 DEF RecordsAge, TypeOK
    <3> QED BY <3>2, <3>3
  <2> QED
    BY <1>t, <2>1, <2>2, <2>3 DEF IInv, BusyIsNow, ReportsAreTrue
<1>10. CASE Elapse
  <2>0. ~Ticked'
    BY <1>10, <1>t DEF TypeOK, Elapse, AggregatorElapse, Ticked
  <2>1. BusyIsNow' /\ ReportsAreTrue' /\ UnitBusyJustified'
    BY <1>10, <1>t, <2>0 DEF TypeOK, Elapse, MonitorElapse, AggregatorElapse, BusyIsNow,
       ReportsAreTrue, UnitBusyJustified
  <2>2. RecordsAge'
    <3> SUFFICES ASSUME NEW m \in Modules, latest[m] = "SUPER_BUSY", seen'[m] <= StaleAfter
                 PROVE  sinceBusy'[m] <= seen'[m]
      BY <1>10 DEF Elapse, AggregatorElapse, RecordsAge, StaleAfter
    <3>1. seen[m] \in 0..MaxAge /\ sinceBusy[m] \in 0..LongAgo
      BY <1>t DEF TypeOK
    <3>2. seen'[m] = Older(seen[m], MaxAge)
      BY <1>10, <1>t DEF TypeOK, Elapse, AggregatorElapse
    <3>3. seen'[m] = seen[m] + 1 /\ seen[m] <= StaleAfter
      BY <3>1, <3>2 DEF Older
    <3>4. sinceBusy[m] <= seen[m]
      BY <1>t, <3>3 DEF RecordsAge
    <3>5. sinceBusy'[m] = 0 \/ sinceBusy'[m] = Older(sinceBusy[m], LongAgo)
      BY <1>10 DEF Elapse
    <3>6. /\ Older(sinceBusy[m], LongAgo) \in 0..LongAgo
          /\ Older(sinceBusy[m], LongAgo) <= sinceBusy[m] + 1
      BY <3>1, OlderStays
    <3>7. sinceBusy'[m] <= sinceBusy[m] + 1 /\ sinceBusy'[m] \in Nat
      BY <3>1, <3>5, <3>6
    <3> QED BY <3>1, <3>3, <3>4, <3>7
  <2> QED BY <1>t, <2>1, <2>2 DEF IInv
<1>11. CASE UNCHANGED vars
  BY <1>11, <1>t DEF vars, monitorVars, aggregatorVars, history, IInv, BusyIsNow,
     ReportsAreTrue, RecordsAge, UnitBusyJustified, Ticked
<1> QED
  BY <1>1, <1>2, <1>3, <1>4, <1>5, <1>6, <1>7, <1>8, <1>9, <1>10, <1>11
  DEF Next, HealthThread

\* Whatever is lost, crashes or cannot be read, a unit that is reported busy had
\* a busy module within three periods of the communicator (computeBoardStats, tick).
THEOREM BusyUnitIsJustified == Spec => []UnitBusyJustified
<1>1. IInv => UnitBusyJustified
  BY DEF IInv
<1> QED BY InitIInv, StepIInv, <1>1, PTL DEF Spec

-----------------------------------------------------------------------------
(* Reports that are lost do not free a unit that is busy, as far as the     *)
(* stale window covers them.                                               *)

\* How old a record may be when n reports were lost since it was made.
Slack(n) == n * MaxInterval

InFlight(m) == \E r \in reports : r.from = m

\* A report that is under way was sent at its module's last turn, just now, and
\* is its only one.
ReportsAreFresh ==
  /\ \A r \in reports : sinceTurn[r.from] = 0
  /\ \A r, q \in reports : r.from = q.from => r = q
  /\ \A m \in alive : InFlight(m) => usage[m] = "known" /\ sinceReport[m] = 0

\* A module that is not running reports nothing in time.
DeadAreMissed == \A m \in Modules \ alive : missed[m] = TooMany

\* The communicator knows the module, and missed no more than is tolerated.
Heard(m) == m \in alive /\ missed[m] <= Tolerated /\ latest[m] # "none"

\* How old the record of a module may be besides what was lost: the time since
\* its last report and, once the period is over, since its last turn.
Waited(m) ==
  IF InFlight(m) THEN MaxInterval
  ELSE IF sinceReport[m] < ReportEvery THEN sinceReport[m]
  ELSE ReportEvery - 1 + sinceTurn[m]

\* Such a module reports in time.
OnTime ==
  \A m \in Modules : Heard(m) =>
    /\ usage[m] = "known"
    /\ seen[m] <= Slack(missed[m]) + Waited(m)

\* The losses that are tolerated fit into the window.
Covered == (Tolerated + 1) * MaxInterval <= StaleAfter

HeardBusy ==
  Covered =>
    \A m \in Modules :
      Ticked /\ Heard(m) /\ latest[m] = "SUPER_BUSY" /\ seen[m] > 0 => unit = "SUPER_BUSY"

\* LossesTolerated holds because a tick finds the record fresh, which is a
\* matter of when reports are sent and how many are under way.
LossInv == TypeOK /\ ReportsAreFresh /\ DeadAreMissed /\ OnTime /\ HeardBusy

LEMMA Times == \A a, b, c \in Nat : a <= b => (a + 1) * c = a * c + c /\ a * c <= b * c
<1> SUFFICES ASSUME NEW a \in Nat, NEW b \in Nat, NEW c \in Nat, a <= b
             PROVE  (a + 1) * c = a * c + c /\ a * c <= b * c
  OBVIOUS
<1>1. (a + 1) * c = a * c + c
  OBVIOUS
<1>2. PICK d \in Nat : b = a + d
  <2>1. b - a \in Nat /\ b = a + (b - a)
    OBVIOUS
  <2> QED BY <2>1
<1>3. b * c = a * c + d * c
  BY <1>2
<1>4. d * c \in Nat /\ a * c \in Nat
  OBVIOUS
<1> QED BY <1>1, <1>3, <1>4

LEMMA SlackBounds ==
  /\ MaxInterval \in Nat /\ MaxInterval >= ReportEvery - 1 + TurnMin
  /\ \A n \in 0..TooMany : Slack(n) \in Nat /\ Slack(n + 1) = Slack(n) + MaxInterval
  /\ Covered => \A n \in 0..Tolerated : Slack(n) + MaxInterval <= StaleAfter
  /\ Slack(0) = 0
<1>1. MaxInterval \in Nat /\ MaxInterval >= ReportEvery - 1 + TurnMin
  BY DEF MaxInterval
<1>2. \A n \in Nat : n * MaxInterval \in Nat
  BY <1>1
<1>3. \A n \in Nat : (n + 1) * MaxInterval = n * MaxInterval + MaxInterval
  BY <1>1, Times
<1>4. ASSUME Covered, NEW n \in 0..Tolerated
      PROVE  n * MaxInterval + MaxInterval <= StaleAfter
  <2>1. n + 1 <= Tolerated + 1 /\ n + 1 \in Nat /\ Tolerated + 1 \in Nat
    OBVIOUS
  <2>2. (n + 1) * MaxInterval <= (Tolerated + 1) * MaxInterval
    BY <2>1, <1>1, Times
  <2>3. /\ (n + 1) * MaxInterval = n * MaxInterval + MaxInterval
        /\ n * MaxInterval \in Nat /\ (Tolerated + 1) * MaxInterval \in Nat
    BY <1>2, <1>3, <2>1
  <2> QED BY <1>1, <1>4, <2>2, <2>3, Windows DEF Covered
<1>5. 0 * MaxInterval = 0
  BY <1>1
<1> QED BY <1>1, <1>2, <1>3, <1>4, <1>5 DEF Slack, TooMany

\* What OnTime says of the time waited so far.
LEMMA WaitedBounds ==
  ASSUME TypeOK, NEW m \in Modules
  PROVE  /\ Waited(m) \in Nat /\ Waited(m) <= MaxInterval
         /\ ~InFlight(m) /\ sinceReport[m] = 0 => Waited(m) = 0
<1>1. sinceReport[m] \in 0..ReportEvery /\ sinceTurn[m] \in 0..TurnMax
  BY DEF TypeOK
<1> QED BY <1>1, SlackBounds DEF Waited, MaxInterval

\* What a sample does to the reports under way.
LEMMA ReportInFlight ==
  ASSUME TypeOK, ReportsAreFresh, NEW m \in Modules, Awake(m), Report(m)
  PROVE  /\ \A n \in Modules : n # m => (InFlight(n)' <=> InFlight(n))
         /\ \A n \in Modules : n # m => sinceReport'[n] = sinceReport[n]
         /\ ~InFlight(m)
         /\ InFlight(m)' => sinceReport'[m] = 0
         /\ ~InFlight(m)' => sinceReport'[m] = sinceReport[m] /\ sinceReport[m] < ReportEvery
         /\ \A r \in reports' : r \in reports \/ r.from = m
         /\ \A r, q \in reports' : r.from = m /\ q.from = m => r = q
<1>1. ~InFlight(m)
  <2>1. sinceTurn[m] # 0
    BY DEF Awake, TypeOK
  <2> QED BY <2>1 DEF InFlight, ReportsAreFresh
<1>2. sinceReport \in [Modules -> 0..ReportEvery]
  BY DEF TypeOK
<1>3. CASE state'[m] # state[m] \/ sinceReport[m] >= ReportEvery
  <2>1. /\ reports' = reports \cup {[from |-> m, s |-> state'[m]]}
        /\ sinceReport' = [sinceReport EXCEPT ![m] = 0]
    BY <1>3 DEF Report
  <2>2. \A n \in Modules : n # m => sinceReport'[n] = sinceReport[n]
    BY <1>2, <2>1
  <2>3. sinceReport'[m] = 0
    BY <1>2, <2>1
  <2>4. \A r \in reports' : r \in reports \/ r = [from |-> m, s |-> state'[m]]
    BY <2>1
  <2>5. \A n \in Modules : n # m => (InFlight(n)' <=> InFlight(n))
    BY <2>1, <2>4 DEF InFlight
  <2>6. InFlight(m)'
    <3> DEFINE r == [from |-> m, s |-> state'[m]]
    <3>1. r \in reports' /\ r.from = m
      BY <2>1
    <3> HIDE DEF r
    <3> QED BY <3>1 DEF InFlight
  <2>7. \A r \in reports' : r.from = m => r = [from |-> m, s |-> state'[m]]
    BY <1>1, <2>4 DEF InFlight
  <2>8. \A r \in reports' : r \in reports \/ r.from = m
    BY <2>4
  <2> QED BY <1>1, <2>2, <2>3, <2>5, <2>6, <2>7, <2>8
<1>4. CASE ~(state'[m] # state[m] \/ sinceReport[m] >= ReportEvery)
  <2>1. UNCHANGED <<reports, sinceReport>>
    BY <1>4 DEF Report
  <2> QED BY <1>1, <1>2, <1>4, <2>1 DEF InFlight
<1> QED BY <1>3, <1>4

LEMMA InitLoss == Init => LossInv
BY InitTypes DEF Init, MonitorInit, AggregatorInit, LossInv, ReportsAreFresh, InFlight,
   DeadAreMissed, OnTime, Heard, HeardBusy

LEMMA FreshKept ==
  ASSUME LossInv, [Next]_vars
  PROVE  ReportsAreFresh'
<1>t. TypeOK /\ ReportsAreFresh
  BY DEF LossInv
<1>1. ASSUME NEW m \in Modules, TakeBaseline(m) PROVE ReportsAreFresh'
  BY <1>1, <1>t DEF TypeOK, TakeBaseline, Baseline, Turned, Reports, ReportsAreFresh, InFlight
<1>2. ASSUME NEW m \in Modules, Measure(m) \/ Stuck(m) PROVE ReportsAreFresh'
  <2>1. /\ Awake(m) /\ Report(m) /\ alive' = alive /\ Turned(m)
        /\ usage'[m] = "known" /\ \A n \in Modules : n # m => usage'[n] = usage[n]
    BY <1>2, <1>t DEF TypeOK, Measure, Sample, Stuck, SampleStuck
  <2>a. \A n \in Modules : sinceTurn'[n] = IF n = m THEN 0 ELSE sinceTurn[n]
    BY <1>t, <2>1 DEF TypeOK, Turned
  <2>2. \A r \in reports' : sinceTurn'[r.from] = 0
    <3>1. \A r \in reports : sinceTurn[r.from] = 0 /\ r.from \in Modules
      BY <1>t DEF ReportsAreFresh, TypeOK, Reports
    <3>2. \A r \in reports' : r \in reports \/ r.from = m
      BY <1>t, <2>1, ReportInFlight
    <3> QED BY <2>a, <3>1, <3>2
  <2>3. \A r, q \in reports' : r.from = q.from => r = q
    BY <1>t, <2>1, ReportInFlight DEF ReportsAreFresh
  <2>4. ASSUME NEW n \in alive, InFlight(n)'
        PROVE  usage'[n] = "known" /\ sinceReport'[n] = 0
    <3>1. n \in Modules
      BY <1>t DEF TypeOK
    <3>2. CASE n = m
      BY <1>t, <2>1, <2>4, <3>2, ReportInFlight
    <3>3. CASE n # m
      BY <1>t, <2>1, <2>4, <3>1, <3>3, ReportInFlight DEF ReportsAreFresh
    <3> QED BY <3>2, <3>3
  <2> QED BY <2>1, <2>2, <2>3, <2>4 DEF ReportsAreFresh
<1>3. ASSUME NEW m \in Modules, Unreadable(m) PROVE ReportsAreFresh'
  BY <1>3, <1>t DEF TypeOK, Unreadable, SampleFails, Turned, Reports, ReportsAreFresh, InFlight
<1>4. ASSUME NEW m \in Modules, ModuleCrashes(m) PROVE ReportsAreFresh'
  BY <1>4, <1>t DEF ModuleCrashes, Crash, ReportsAreFresh, InFlight
<1>5. ASSUME NEW m \in Modules, ModuleRestarts(m) PROVE ReportsAreFresh'
  BY <1>5, <1>t DEF TypeOK, ModuleRestarts, Restart, Turned, Reports, ReportsAreFresh, InFlight
<1>6. ASSUME NEW r \in Reports, Arrive(r) \/ Lose(r) PROVE ReportsAreFresh'
  <2>1. UNCHANGED <<alive, usage, sinceReport, sinceTurn>> /\ reports' \subseteq reports
    BY <1>6 DEF Arrive, OnReport, Lose
  <2> QED BY <1>t, <2>1 DEF ReportsAreFresh, InFlight
<1>7. CASE CommunicatorTicks
  BY <1>7, <1>t DEF CommunicatorTicks, Tick, monitorVars, ReportsAreFresh, InFlight
<1>8. CASE Elapse
  <2>1. reports' = {}
    BY <1>8 DEF Elapse, MonitorElapse
  <2> QED BY <2>1 DEF ReportsAreFresh, InFlight
<1>9. CASE UNCHANGED vars
  BY <1>9, <1>t DEF vars, monitorVars, ReportsAreFresh, InFlight
<1> QED
  BY <1>1, <1>2, <1>3, <1>4, <1>5, <1>6, <1>7, <1>8, <1>9 DEF Next, HealthThread

LEMMA DeadKept ==
  ASSUME LossInv, [Next]_vars
  PROVE  DeadAreMissed'
<1>t. TypeOK /\ DeadAreMissed
  BY DEF LossInv
<1>n. missed \in [Modules -> 0..TooMany] /\ TooMany \in Nat
  BY <1>t DEF TypeOK, TooMany
<1>1. CASE UNCHANGED <<alive, missed>>
  BY <1>t, <1>1 DEF DeadAreMissed
<1>2. ASSUME NEW m \in Modules, Unreadable(m) \/ ModuleCrashes(m) \/ ModuleRestarts(m)
      PROVE  DeadAreMissed'
  BY <1>t, <1>n, <1>2
  DEF DeadAreMissed, Unreadable, SampleFails, ModuleCrashes, Crash, ModuleRestarts, Restart
<1>3. ASSUME NEW r \in Reports, Arrive(r) \/ Lose(r) PROVE DeadAreMissed'
  BY <1>t, <1>n, <1>3 DEF DeadAreMissed, Arrive, OnReport, Lose, Older
<1>4. CASE \E m \in Modules : TakeBaseline(m) \/ Measure(m) \/ Stuck(m)
  BY <1>1, <1>4 DEF TakeBaseline, Baseline, Measure, Sample, Stuck, SampleStuck, history
<1>5. CASE CommunicatorTicks \/ Elapse \/ UNCHANGED vars
  BY <1>1, <1>5 DEF CommunicatorTicks, Tick, Elapse, MonitorElapse, vars, monitorVars, history
<1> QED BY <1>2, <1>3, <1>4, <1>5 DEF Next, HealthThread

LEMMA OnTimeKept ==
  ASSUME LossInv, [Next]_vars
  PROVE  OnTime'
<1>t. TypeOK /\ TypeOK' /\ ReportsAreFresh /\ DeadAreMissed /\ OnTime
  BY StepTypes DEF LossInv
<1>n. /\ seen \in [Modules -> 0..MaxAge] /\ missed \in [Modules -> 0..TooMany]
      /\ sinceReport \in [Modules -> 0..ReportEvery]
      /\ sinceTurn \in [Modules -> 0..TurnMax]
      /\ latest \in [Modules -> States \cup {"none"}]
      /\ TooMany = Tolerated + 1 /\ Tolerated \in Nat
  BY <1>t DEF TypeOK, TooMany
<1> SUFFICES ASSUME NEW n \in Modules, Heard(n)'
             PROVE  usage'[n] = "known" /\ seen'[n] <= Slack(missed'[n]) + Waited(n)'
  BY DEF OnTime, Slack, MaxInterval
<1>0. CASE /\ Heard(n) /\ usage'[n] = usage[n] /\ (InFlight(n)' <=> InFlight(n))
           /\ sinceReport'[n] = sinceReport[n] /\ sinceTurn'[n] = sinceTurn[n]
           /\ missed'[n] = missed[n] /\ seen'[n] = seen[n]
  <2>1. Waited(n)' = Waited(n)
    BY <1>0 DEF Waited, MaxInterval
  <2> QED BY <1>0, <1>t, <2>1 DEF OnTime
<1>1. ASSUME NEW m \in Modules, TakeBaseline(m)
      PROVE  usage'[n] = "known" /\ seen'[n] <= Slack(missed'[n]) + Waited(n)'
  <2>1. /\ UNCHANGED <<alive, missed, latest, seen, sinceReport, reports>>
        /\ usage[m] = "none" /\ Turned(m)
        /\ usage' = [usage EXCEPT ![m] = "baseline"]
    BY <1>1 DEF TakeBaseline, Baseline, aggregatorVars, history
  <2>2. Heard(n) /\ (InFlight(n)' <=> InFlight(n))
    BY <2>1 DEF Heard, InFlight
  <2>3. n # m
    BY <1>t, <2>1, <2>2 DEF OnTime
  <2>4. usage'[n] = usage[n] /\ sinceTurn'[n] = sinceTurn[n]
    BY <1>t, <2>1, <2>3 DEF TypeOK, Turned
  <2> QED BY <1>0, <2>1, <2>2, <2>4
<1>2. ASSUME NEW m \in Modules, Measure(m) \/ Stuck(m)
      PROVE  usage'[n] = "known" /\ seen'[n] <= Slack(missed'[n]) + Waited(n)'
  <2>1. /\ Awake(m) /\ Report(m) /\ Turned(m)
        /\ usage'[m] = "known" /\ \A k \in Modules : k # m => usage'[k] = usage[k]
        /\ UNCHANGED <<alive, missed, latest, seen>>
    BY <1>2, <1>t
    DEF TypeOK, Measure, Sample, Stuck, SampleStuck, aggregatorVars, history
  <2>2. Heard(n)
    BY <2>1 DEF Heard
  <2>3. CASE n # m
    <3>1. sinceTurn'[n] = sinceTurn[n]
      BY <1>n, <2>1, <2>3 DEF Turned
    <3>2. (InFlight(n)' <=> InFlight(n)) /\ sinceReport'[n] = sinceReport[n]
      BY <1>t, <2>1, <2>3, ReportInFlight
    <3> QED BY <1>0, <2>1, <2>2, <2>3, <3>1, <3>2
  <2>4. CASE n = m
    <3>1. /\ ~InFlight(m)
          /\ ~InFlight(m)' => sinceReport'[m] = sinceReport[m] /\ sinceReport[m] < ReportEvery
      BY <1>t, <2>1, ReportInFlight
    <3>2. seen[m] <= Slack(missed[m]) + Waited(m)
      BY <1>t, <2>2, <2>4 DEF OnTime
    <3>3. /\ seen[m] \in Nat /\ sinceReport[m] \in 0..ReportEvery
          /\ Slack(missed[m]) \in Nat /\ Waited(m) \in Nat /\ Waited(m) <= MaxInterval
      BY <1>t, <1>n, SlackBounds, Windows, WaitedBounds
    <3>4. CASE InFlight(m)'
      <4>1. Waited(m)' = MaxInterval
        BY <3>4 DEF Waited, MaxInterval
      <4> QED BY <2>1, <2>4, <3>2, <3>3, <4>1, SlackBounds
    <3>5. CASE ~InFlight(m)'
      <4>1. Waited(m)' = Waited(m)
        BY <3>1, <3>5 DEF Waited
      <4> QED BY <2>1, <2>4, <3>2, <4>1
    <3> QED BY <3>4, <3>5
  <2> QED BY <2>3, <2>4
<1>3. ASSUME NEW m \in Modules, Unreadable(m) \/ ModuleCrashes(m) \/ ModuleRestarts(m)
      PROVE  usage'[n] = "known" /\ seen'[n] <= Slack(missed'[n]) + Waited(n)'
  <2>1. UNCHANGED <<latest, seen, reports>>
    BY <1>3 DEF Unreadable, SampleFails, ModuleCrashes, Crash, ModuleRestarts, Restart,
       aggregatorVars
  <2>2. n # m
    <3>1. CASE Unreadable(m) \/ ModuleCrashes(m)
      BY <1>n, <3>1 DEF Unreadable, ModuleCrashes, Heard
    <3>2. CASE ModuleRestarts(m)
      BY <1>t, <1>n, <3>2 DEF ModuleRestarts, Restart, DeadAreMissed, Heard
    <3> QED BY <1>3, <3>1, <3>2
  <2>3. /\ usage'[n] = usage[n] /\ sinceReport'[n] = sinceReport[n] /\ missed'[n] = missed[n]
        /\ sinceTurn'[n] = sinceTurn[n] /\ n \in alive
    BY <1>3, <1>n, <1>t, <2>2
    DEF TypeOK, Heard, Turned, Unreadable, SampleFails, ModuleCrashes, Crash, ModuleRestarts,
        Restart
  <2>4. Heard(n) /\ (InFlight(n)' <=> InFlight(n))
    BY <2>1, <2>3 DEF Heard, InFlight
  <2> QED BY <1>0, <2>1, <2>3, <2>4
<1>4. ASSUME NEW r \in Reports, Arrive(r)
      PROVE  usage'[n] = "known" /\ seen'[n] <= Slack(missed'[n]) + Waited(n)'
  <2>1. /\ UNCHANGED <<alive, usage, sinceReport, sinceTurn>>
        /\ r \in reports /\ reports' = reports \ {r}
        /\ r.from \in Modules
    BY <1>4 DEF Arrive, OnReport, Reports
  <2>2. CASE n = r.from
    <3>1. n \in alive /\ missed'[n] = 0 /\ seen'[n] = 0
      BY <1>4, <1>n, <2>1, <2>2 DEF Arrive, OnReport, Heard
    <3>2. InFlight(n)
      BY <2>1, <2>2 DEF InFlight
    <3>3. usage[n] = "known"
      BY <1>t, <3>1, <3>2 DEF ReportsAreFresh
    <3>4. Waited(n)' \in Nat
      BY <1>t, <2>1, <2>2, SlackBounds DEF TypeOK, Waited, MaxInterval
    <3> QED BY <2>1, <3>1, <3>3, <3>4, SlackBounds
  <2>3. CASE n # r.from
    <3>1. missed'[n] = missed[n] /\ seen'[n] = seen[n] /\ latest'[n] = latest[n]
      BY <1>4, <1>n, <2>3 DEF Arrive, OnReport
    <3>2. Heard(n) /\ (InFlight(n)' <=> InFlight(n))
      BY <2>1, <2>3, <3>1 DEF Heard, InFlight
    <3> QED BY <1>0, <2>1, <3>1, <3>2
  <2> QED BY <2>2, <2>3
<1>5. ASSUME NEW r \in Reports, Lose(r)
      PROVE  usage'[n] = "known" /\ seen'[n] <= Slack(missed'[n]) + Waited(n)'
  <2>1. /\ UNCHANGED <<alive, usage, sinceReport, sinceTurn, latest, seen>>
        /\ r \in reports /\ reports' = reports \ {r}
        /\ r.from \in Modules
    BY <1>5 DEF Lose, aggregatorVars, Reports
  <2>2. CASE n = r.from
    <3>1. missed'[n] = Older(missed[n], TooMany) /\ missed[n] \in 0..TooMany
      BY <1>5, <1>n, <2>2 DEF Lose
    <3>2. n \in alive /\ latest[n] # "none" /\ missed'[n] <= Tolerated
      BY <1>n, <2>1 DEF Heard
    <3>3. missed'[n] = missed[n] + 1 /\ Heard(n)
      BY <1>n, <3>1, <3>2 DEF Older, Heard
    <3>4. InFlight(n) /\ ~InFlight(n)'
      BY <1>t, <2>1, <2>2 DEF ReportsAreFresh, InFlight
    <3>5. usage[n] = "known" /\ seen[n] <= Slack(missed[n]) + MaxInterval
      BY <1>t, <3>3, <3>4 DEF OnTime, Waited
    <3>6. Slack(missed'[n]) = Slack(missed[n]) + MaxInterval /\ Slack(missed'[n]) \in Nat
      BY <1>n, <3>1, <3>2, <3>3, SlackBounds
    <3>7. Waited(n)' \in Nat /\ seen[n] \in Nat
      BY <1>t, <1>n, <2>1, <3>4, SlackBounds, Windows DEF Waited
    <3> QED BY <2>1, <3>5, <3>6, <3>7
  <2>3. CASE n # r.from
    <3>1. missed'[n] = missed[n]
      BY <1>5, <1>n, <2>3 DEF Lose
    <3>2. Heard(n) /\ (InFlight(n)' <=> InFlight(n))
      BY <2>1, <2>3, <3>1 DEF Heard, InFlight
    <3> QED BY <1>0, <2>1, <3>1, <3>2
  <2> QED BY <2>2, <2>3
<1>6. CASE CommunicatorTicks
  <2>1. UNCHANGED <<alive, usage, sinceReport, sinceTurn, reports, missed>>
    BY <1>6 DEF CommunicatorTicks, Tick, monitorVars, history
  <2>2. latest'[n] = latest[n] /\ seen'[n] = seen[n]
    BY <1>6 DEF CommunicatorTicks, Tick, Heard
  <2>3. Heard(n) /\ (InFlight(n)' <=> InFlight(n))
    BY <2>1, <2>2 DEF Heard, InFlight
  <2> QED BY <1>0, <2>1, <2>2, <2>3
<1>7. CASE Elapse
  <2>1. /\ UNCHANGED <<alive, usage, latest, missed>>
        /\ reports = {} /\ reports' = {} /\ \A m \in alive : sinceTurn[m] < TurnMax
        /\ sinceReport'[n] = Older(sinceReport[n], ReportEvery)
        /\ sinceTurn'[n] = Older(sinceTurn[n], TurnMax)
        /\ seen'[n] = IF latest[n] = "none" THEN 0 ELSE Older(seen[n], MaxAge)
    BY <1>7 DEF Elapse, MonitorElapse, AggregatorElapse
  <2>2. Heard(n) /\ sinceTurn[n] < TurnMax
    BY <2>1 DEF Heard
  <2>3. ~InFlight(n) /\ ~InFlight(n)'
    BY <2>1 DEF InFlight
  <2>4. usage[n] = "known" /\ seen[n] <= Slack(missed[n]) + Waited(n)
    BY <1>t, <2>2 DEF OnTime
  <2>5. sinceTurn'[n] = sinceTurn[n] + 1
    BY <2>1, <2>2 DEF Older
  <2>6. seen'[n] <= seen[n] + 1 /\ seen[n] \in Nat /\ seen'[n] \in Nat
    <3>1. seen[n] \in 0..MaxAge /\ MaxAge \in Nat
      BY <1>n, Windows
    <3>2. Older(seen[n], MaxAge) \in 0..MaxAge /\ Older(seen[n], MaxAge) <= seen[n] + 1
      BY <3>1, OlderStays
    <3> QED BY <2>1, <3>1, <3>2
  <2>7. Slack(missed[n]) \in Nat /\ sinceReport[n] \in 0..ReportEvery /\ sinceTurn[n] \in Nat
    BY <1>n, SlackBounds
  <2>8. Waited(n) \in Nat /\ Waited(n)' \in Nat /\ Waited(n)' >= Waited(n) + 1
    <3>1. CASE sinceReport[n] < ReportEvery
      <4>1. sinceReport'[n] = sinceReport[n] + 1
        BY <2>1, <3>1 DEF Older
      <4>2. Waited(n) = sinceReport[n]
        BY <2>3, <3>1 DEF Waited
      <4>3. Waited(n)' = IF sinceReport'[n] < ReportEvery THEN sinceReport'[n]
                         ELSE ReportEvery - 1 + sinceTurn'[n]
        BY <2>3 DEF Waited
      <4>4. CASE sinceReport'[n] < ReportEvery
        BY <2>7, <4>1, <4>2, <4>3, <4>4
      <4>5. CASE ~(sinceReport'[n] < ReportEvery)
        <5>1. Waited(n)' = ReportEvery - 1 + sinceTurn'[n]
          BY <4>3, <4>5
        <5>2. ReportEvery \in Nat /\ sinceReport'[n] = ReportEvery
          BY <2>7, <3>1, <4>1, <4>5, MonitorAssumption
        <5> QED BY <2>5, <2>7, <4>1, <4>2, <5>1, <5>2
      <4> QED BY <4>4, <4>5
    <3>2. CASE sinceReport[n] = ReportEvery
      <4>1. sinceReport'[n] = ReportEvery
        BY <2>1, <3>2 DEF Older
      <4>2. Waited(n) = ReportEvery - 1 + sinceTurn[n]
        BY <2>3, <3>2 DEF Waited
      <4>3. Waited(n)' = ReportEvery - 1 + sinceTurn'[n]
        BY <2>3, <4>1 DEF Waited
      <4> QED BY <2>5, <2>7, <4>2, <4>3
    <3> QED BY <2>7, <3>1, <3>2
  <2> QED BY <2>1, <2>4, <2>6, <2>7, <2>8
<1>8. CASE UNCHANGED vars
  BY <1>0, <1>8 DEF vars, monitorVars, aggregatorVars, history, Heard, InFlight
<1> QED
  BY <1>1, <1>2, <1>3, <1>4, <1>5, <1>6, <1>7, <1>8 DEF Next, HealthThread

LEMMA HeardBusyKept ==
  ASSUME LossInv, [Next]_vars
  PROVE  HeardBusy'
<1>t. TypeOK /\ OnTime /\ DeadAreMissed /\ HeardBusy
  BY DEF LossInv
<1>n. /\ seen \in [Modules -> 0..MaxAge] /\ missed \in [Modules -> 0..TooMany]
      /\ TooMany = Tolerated + 1 /\ Tolerated \in Nat
      /\ latest \in [Modules -> States \cup {"none"}]
  BY <1>t DEF TypeOK, TooMany
<1>1. CASE UNCHANGED <<sinceTick, alive, missed, latest, seen, unit>>
  BY <1>1, <1>t DEF HeardBusy, Heard, Ticked, Covered
<1>2. CASE \E m \in Modules : TakeBaseline(m) \/ Measure(m) \/ Stuck(m)
  BY <1>1, <1>2
  DEF TakeBaseline, Baseline, Measure, Sample, Stuck, SampleStuck, aggregatorVars, history
<1>3. ASSUME NEW m \in Modules, Unreadable(m) \/ ModuleCrashes(m) \/ ModuleRestarts(m)
      PROVE  HeardBusy'
  <2>1. UNCHANGED <<sinceTick, latest, seen, unit>>
    BY <1>3 DEF Unreadable, SampleFails, ModuleCrashes, Crash, ModuleRestarts, Restart,
       aggregatorVars
  <2>2. \A n \in Modules : n # m =>
          missed'[n] = missed[n] /\ (n \in alive' => n \in alive)
    BY <1>n, <1>3
    DEF Unreadable, SampleFails, ModuleCrashes, Crash, ModuleRestarts, Restart
  <2>3. m \in alive' => missed'[m] = TooMany
    BY <1>t, <1>n, <1>3
    DEF DeadAreMissed, Unreadable, SampleFails, ModuleCrashes, Crash, ModuleRestarts, Restart
  <2>4. \A n \in Modules : Heard(n)' => n # m /\ Heard(n)
    BY <1>n, <2>1, <2>2, <2>3 DEF Heard
  <2> QED BY <1>t, <2>1, <2>4 DEF HeardBusy, Ticked, Covered
<1>4. ASSUME NEW r \in Reports, Arrive(r) PROVE HeardBusy'
  BY <1>t, <1>n, <1>4 DEF HeardBusy, Heard, Ticked, Covered, Arrive, OnReport, Reports
<1>5. ASSUME NEW r \in Reports, Lose(r) PROVE HeardBusy'
  <2>1. UNCHANGED <<sinceTick, alive, latest, seen, unit>>
    BY <1>5 DEF Lose, aggregatorVars
  <2>2. \A n \in Modules : missed'[n] <= Tolerated => missed[n] <= Tolerated
    BY <1>5, <1>n DEF Lose, Older, Reports
  <2> QED BY <1>t, <1>n, <2>1, <2>2 DEF HeardBusy, Heard, Ticked, Covered
<1>6. CASE CommunicatorTicks
  <2> SUFFICES ASSUME Covered, NEW n \in Modules, Heard(n)', latest'[n] = "SUPER_BUSY"
               PROVE  unit' = "SUPER_BUSY"
    BY DEF HeardBusy, Covered, MaxInterval, StaleAfter
  <2>1. /\ latest[n] = "SUPER_BUSY" /\ ~Silent(BoardOf[n])
        /\ UNCHANGED <<alive, missed>>
    BY <1>6 DEF CommunicatorTicks, Tick, monitorVars, history
  <2>2. Heard(n)
    BY <2>1 DEF Heard
  <2>3. /\ Slack(missed[n]) + MaxInterval <= StaleAfter /\ Slack(missed[n]) \in Nat
        /\ seen[n] \in Nat /\ MaxInterval \in Nat
    BY <1>n, <2>2, SlackBounds, Windows DEF Heard
  <2>4. seen[n] <= StaleAfter
    <3>1. seen[n] <= Slack(missed[n]) + Waited(n)
      BY <1>t, <2>2 DEF OnTime
    <3>2. Waited(n) \in Nat /\ Waited(n) <= MaxInterval
      BY <1>t, WaitedBounds
    <3> QED BY <2>3, <3>1, <3>2, Windows
  <2>5. BoardBusy(BoardOf[n])
    BY <2>1, <2>4 DEF BoardBusy, OnBoard, Fresh
  <2> QED BY <1>6, <2>1, <2>5 DEF CommunicatorTicks, Tick
<1>7. CASE Elapse
  <2>1. ~Ticked'
    BY <1>7, <1>t DEF TypeOK, Elapse, AggregatorElapse, Ticked
  <2> QED BY <2>1 DEF HeardBusy
<1>8. CASE UNCHANGED vars
  BY <1>1, <1>8 DEF vars, monitorVars, aggregatorVars, history
<1> QED
  BY <1>2, <1>3, <1>4, <1>5, <1>6, <1>7, <1>8 DEF Next, HealthThread

\* As many reports of a busy module lost in a row as the stale window covers do
\* not free the unit, for any report periods of the two sides, any length of the
\* turns and any number of modules (staleWindowMs, healthHeartbeatLoop).
THEOREM LossesDoNotFree == Spec => []LossesTolerated
<1>1. LossInv /\ [Next]_vars => LossInv'
  BY StepTypes, FreshKept, DeadKept, OnTimeKept, HeardBusyKept DEF LossInv
<1>2. LossInv => LossesTolerated
  BY DEF LossInv, TypeOK, HeardBusy, Heard, Covered, LossesTolerated
<1> QED BY InitLoss, <1>1, <1>2, PTL DEF Spec

-----------------------------------------------------------------------------
(* Readings decide a switch.                                               *)

SideOf(s) == IF s = "SUPER_BUSY" THEN "high" ELSE "low"

\* The window a monitor has open is no older than the run of readings on the
\* side it presses for, through samples that fail and seconds that pass.
WindowsCovered ==
  \A m \in Modules :
    pending[m] # "none" => run[m].side = SideOf(pending[m]) /\ held[m] <= run[m].for

RunTypes == run \in [Modules -> [side : Loads \cup {"none"}, for : 0..SustainFor]]

WindowInv == TypeOK /\ RunTypes /\ WindowsCovered

LEMMA InitWindow == Init => WindowInv
<1>1. Init => RunTypes
  BY DEF Init, RunTypes
<1>2. Init => WindowsCovered
  BY DEF Init, MonitorInit, WindowsCovered
<1> QED BY <1>1, <1>2, InitTypes DEF WindowInv

\* A sample opens a window at the reading it sees, or leaves it open on the side
\* of the reading.
LEMMA MeasureCovers ==
  ASSUME WindowInv, NEW m \in Modules, Measure(m)
  PROVE  RunTypes' /\ WindowsCovered'
<1>0. TypeOK /\ RunTypes /\ WindowsCovered
  BY DEF WindowInv
<1>u. PICK u : u = load[BoardOf[m]]
  OBVIOUS
<1>1. /\ u \in Loads /\ OnUsage(m, u)
      /\ run' = [run EXCEPT ![m] = IF @.side = u THEN @ ELSE [side |-> u, for |-> 0]]
  BY <1>0, <1>u DEF TypeOK, Measure, Sample
<1>2. [side |-> u, for |-> 0] \in [side : Loads \cup {"none"}, for : 0..SustainFor]
  BY <1>1
<1>3. RunTypes'
  BY <1>0, <1>1, <1>2 DEF RunTypes
<1>4. /\ run'[m] = IF run[m].side = u THEN run[m] ELSE [side |-> u, for |-> 0]
      /\ \A n \in Modules : n # m =>
           run'[n] = run[n] /\ pending'[n] = pending[n] /\ held'[n] = held[n]
  BY <1>0, <1>1 DEF RunTypes, TypeOK, OnUsage
<1>5. run[m].for \in Nat /\ run'[m].for \in Nat /\ run'[m].side = u
  BY <1>0, <1>4 DEF RunTypes
<1>6. ASSUME pending'[m] # "none"
      PROVE  run'[m].side = SideOf(pending'[m]) /\ held'[m] <= run'[m].for
  <2>w. PICK want : want = Wants(m, u)
    OBVIOUS
  <2>1. /\ pending'[m] = want /\ want # "none" /\ ~Switches(m, want)
        /\ held'[m] = IF pending[m] # want THEN 0 ELSE held[m]
    BY <1>0, <1>1, <1>6, <2>w DEF TypeOK, OnUsage
  <2>2. u = SideOf(want)
    BY <2>1, <2>w DEF Wants, SideOf
  <2>3. CASE pending[m] # want
    BY <1>5, <2>1, <2>2, <2>3
  <2>4. CASE pending[m] = want
    <3>1. run[m].side = u /\ held[m] <= run[m].for
      BY <1>0, <2>1, <2>2, <2>4 DEF WindowsCovered
    <3> QED BY <1>4, <1>5, <2>1, <2>2, <2>4, <3>1
  <2> QED BY <2>3, <2>4
<1>7. WindowsCovered'
  BY <1>0, <1>4, <1>6 DEF WindowsCovered, SideOf
<1> QED BY <1>3, <1>7

LEMMA StepWindow == WindowInv /\ [Next]_vars => WindowInv'
<1> SUFFICES ASSUME WindowInv, [Next]_vars PROVE RunTypes' /\ WindowsCovered'
  BY StepTypes DEF WindowInv
<1>0. TypeOK /\ RunTypes /\ WindowsCovered
  BY DEF WindowInv
<1>1. CASE UNCHANGED <<pending, held, run>>
  BY <1>0, <1>1 DEF RunTypes, WindowsCovered, SideOf
<1>2. CASE \E m \in Modules : Measure(m)
  BY <1>2, MeasureCovers
<1>3. CASE \E m \in Modules : TakeBaseline(m) \/ Stuck(m) \/ Unreadable(m) \/ ModuleCrashes(m)
  BY <1>1, <1>3
  DEF TakeBaseline, Baseline, Stuck, SampleStuck, Unreadable, SampleFails, ModuleCrashes,
      Crash, history
<1>4. ASSUME NEW m \in Modules, ModuleRestarts(m) PROVE RunTypes' /\ WindowsCovered'
  <2>1. /\ run' = [run EXCEPT ![m] = [side |-> "none", for |-> 0]]
        /\ pending' = [pending EXCEPT ![m] = "none"] /\ held' = [held EXCEPT ![m] = 0]
    BY <1>4 DEF ModuleRestarts, Restart
  <2>2. RunTypes'
    BY <1>0, <2>1 DEF RunTypes
  <2>3. /\ pending'[m] = "none"
        /\ \A n \in Modules : n # m =>
             run'[n] = run[n] /\ pending'[n] = pending[n] /\ held'[n] = held[n]
    BY <1>0, <2>1 DEF RunTypes, TypeOK
  <2> QED BY <1>0, <2>2, <2>3 DEF WindowsCovered, SideOf
<1>5. CASE \E r \in Reports : Arrive(r) \/ Lose(r)
  BY <1>1, <1>5 DEF Arrive, OnReport, Lose
<1>6. CASE CommunicatorTicks
  BY <1>1, <1>6 DEF CommunicatorTicks, Tick, monitorVars, history
<1>7. CASE Elapse
  <2>1. /\ run' = [m \in Modules |-> [run[m] EXCEPT !.for = Older(@, SustainFor)]]
        /\ held' = [m \in Modules |-> IF pending[m] = "none" THEN 0
                                      ELSE Older(held[m], SustainFor)]
        /\ pending' = pending
    BY <1>7 DEF Elapse, MonitorElapse
  <2>2. ASSUME NEW m \in Modules
        PROVE  /\ run'[m] \in [side : Loads \cup {"none"}, for : 0..SustainFor]
               /\ run'[m].side = run[m].side /\ run'[m].for = Older(run[m].for, SustainFor)
    <3>1. run[m] \in [side : Loads \cup {"none"}, for : 0..SustainFor]
      BY <1>0 DEF RunTypes
    <3>2. Older(run[m].for, SustainFor) \in 0..SustainFor
      BY <3>1, OlderStays
    <3> QED BY <2>1, <3>1, <3>2
  <2>3. RunTypes'
    BY <2>1, <2>2 DEF RunTypes
  <2>4. ASSUME NEW m \in Modules, pending[m] # "none"
        PROVE  run'[m].side = SideOf(pending[m]) /\ held'[m] <= run'[m].for
    <3>1. /\ run[m].side = SideOf(pending[m]) /\ held[m] <= run[m].for
          /\ held[m] \in 0..SustainFor /\ run[m].for \in 0..SustainFor
      BY <1>0, <2>4 DEF WindowsCovered, RunTypes, TypeOK
    <3>2. Older(held[m], SustainFor) <= Older(run[m].for, SustainFor)
      BY <3>1 DEF Older
    <3> QED BY <2>1, <2>2, <2>4, <3>1, <3>2
  <2> QED BY <2>1, <2>3, <2>4 DEF WindowsCovered, SideOf
<1>8. CASE UNCHANGED vars
  BY <1>1, <1>8 DEF vars, monitorVars, history
<1> QED
  BY <1>2, <1>3, <1>4, <1>5, <1>6, <1>7, <1>8 DEF Next, HealthThread

\* A monitor changes its state only when all it read for sustain_s seconds was on
\* the new side of the thresholds (onUsage), whatever samples failed meanwhile.
THEOREM ReadingsDecide == Spec => SwitchOnlyWhenHeld
<1> DEFINE Decided ==
      \A m \in Modules \cap alive :
        /\ state[m] = "FREE" /\ state'[m] = "SUPER_BUSY"
             => run[m].side = "high" /\ run[m].for >= SustainFor
        /\ state[m] = "SUPER_BUSY" /\ state'[m] = "FREE"
             => run[m].side = "low" /\ run[m].for >= SustainFor
<1>1. ASSUME WindowInv, [Next]_vars PROVE Decided
  <2>0. TypeOK /\ RunTypes /\ WindowsCovered
    BY <1>1 DEF WindowInv
  <2>1. CASE UNCHANGED state
    BY <2>0, <2>1 DEF TypeOK, States
  <2>2. ASSUME NEW m \in Modules, Measure(m) PROVE Decided
    <3>u. PICK u : u = load[BoardOf[m]]
      OBVIOUS
    <3>w. PICK want : want = Wants(m, u)
      OBVIOUS
    <3>1. OnUsage(m, u)
      BY <2>2, <3>u DEF Measure, Sample
    <3>2. /\ state'[m] = IF Switches(m, want) THEN want ELSE state[m]
          /\ \A n \in Modules : n # m => state'[n] = state[n]
      BY <2>0, <3>1, <3>w DEF TypeOK, OnUsage
    <3>3. ASSUME Switches(m, want)
          PROVE  run[m].side = SideOf(want) /\ run[m].for >= SustainFor
      <4>1. run[m].side = SideOf(want) /\ held[m] <= run[m].for /\ held[m] >= SustainFor
        BY <2>0, <3>3 DEF Switches, WindowsCovered
      <4>2. held[m] \in Nat /\ run[m].for \in Nat
        BY <2>0 DEF TypeOK, RunTypes
      <4> QED BY <4>1, <4>2
    <3> QED BY <3>2, <3>3 DEF SideOf
  <2>3. ASSUME NEW m \in Modules, ModuleRestarts(m) PROVE Decided
    BY <2>0, <2>3 DEF TypeOK, ModuleRestarts, Restart
  <2>4. CASE \E m \in Modules : TakeBaseline(m) \/ Stuck(m) \/ Unreadable(m) \/ ModuleCrashes(m)
    BY <2>1, <2>4
    DEF TakeBaseline, Baseline, Stuck, SampleStuck, Unreadable, SampleFails, ModuleCrashes, Crash
  <2>5. CASE \E r \in Reports : Arrive(r) \/ Lose(r)
    BY <2>1, <2>5 DEF Arrive, OnReport, Lose
  <2>6. CASE CommunicatorTicks \/ Elapse \/ UNCHANGED vars
    BY <2>1, <2>6 DEF CommunicatorTicks, Tick, Elapse, MonitorElapse, vars, monitorVars
  <2> QED BY <1>1, <2>2, <2>3, <2>4, <2>5, <2>6 DEF Next, HealthThread
<1> HIDE DEF Decided
<1>2. Spec => []WindowInv
  BY InitWindow, StepWindow, PTL DEF Spec
<1>3. Spec => [][Decided]_vars
  BY <1>1, <1>2, PTL DEF Spec
<1> QED BY <1>3 DEF SwitchOnlyWhenHeld, Decided
=============================================================================
