----------------------------- MODULE CpuReporting -----------------------------
(***************************************************************************)
(* The board CPU feature as a whole: the monitors of several modules, the  *)
(* databus that may lose their reports, and the communicator's aggregator. *)
(*                                                                         *)
(* The health threads and the communicator's tick run at their own pace,   *)
(* in any order.  The unit of time is one in which a report arrives or is  *)
(* lost; how long a turn may take is a constant of each side.              *)
(***************************************************************************)
EXTENDS CpuAggregator

CONSTANTS
  MaxCrashes,  \* modules that crash (bound)
  MaxFails,    \* turns in which a module could not take a sample (bound)
  Tolerated    \* losses in a row that LossesTolerated is about

ASSUME ReportingAssumption == MaxCrashes \in Nat /\ MaxFails \in Nat /\ Tolerated \in Nat

VARIABLES
  crashes, fails,  \* so far
  missed,          \* history: per module, reports lost since the last that
                   \* arrived, or TooMany when it was not reporting in time
  sinceBusy,       \* history: time since the monitor of a module was busy
  run              \* history: per module, the side its readings have been on,
                   \* and for how long

history == <<missed, sinceBusy, run>>
vars == <<monitorVars, aggregatorVars, crashes, fails, history>>

TooMany == Tolerated + 1
LongAgo == StaleAfter + 2

\* The longest time between two reports of a module that takes its samples: the
\* period may end just after a turn.
MaxInterval == ReportEvery - 1 + TurnMax

Init ==
  /\ MonitorInit
  /\ AggregatorInit
  /\ crashes = 0 /\ fails = 0
  /\ missed = [m \in Modules |-> 0]
  /\ sinceBusy = [m \in Modules |-> LongAgo]
  /\ run = [m \in Modules |-> [side |-> "none", for |-> 0]]

-----------------------------------------------------------------------------

Mark(m) ==
  sinceBusy' = [sinceBusy EXCEPT ![m] = IF state'[m] = "SUPER_BUSY" THEN 0 ELSE @]

TakeBaseline(m) ==
  /\ Baseline(m)
  /\ UNCHANGED <<aggregatorVars, crashes, fails, history>>

Measure(m) ==
  /\ Sample(m)
  /\ Mark(m)
  /\ run' = [run EXCEPT ![m] = IF @.side = load[BoardOf[m]] THEN @
                               ELSE [side |-> load[BoardOf[m]], for |-> 0]]
  /\ UNCHANGED <<aggregatorVars, crashes, fails, missed>>

Stuck(m) ==
  /\ SampleStuck(m)
  /\ fails < MaxFails
  /\ fails' = fails + 1
  /\ UNCHANGED <<aggregatorVars, crashes, history>>

Unreadable(m) ==
  /\ SampleFails(m)
  /\ fails < MaxFails
  /\ fails' = fails + 1
  /\ missed' = [missed EXCEPT ![m] = TooMany]
  /\ UNCHANGED <<aggregatorVars, crashes, sinceBusy, run>>

ModuleCrashes(m) ==
  /\ Crash(m)
  /\ crashes < MaxCrashes
  /\ crashes' = crashes + 1
  /\ missed' = [missed EXCEPT ![m] = TooMany]
  /\ UNCHANGED <<aggregatorVars, fails, sinceBusy, run>>

\* Starting a process takes longer than a datagram that is under way.
ModuleRestarts(m) ==
  /\ Restart(m)
  /\ \A r \in reports : r.from # m
  /\ run' = [run EXCEPT ![m] = [side |-> "none", for |-> 0]]
  /\ UNCHANGED <<aggregatorVars, crashes, fails, missed, sinceBusy>>

Arrive(r) ==
  /\ OnReport(r)
  /\ missed' = [missed EXCEPT ![r.from] = IF r.from \in alive THEN 0 ELSE @]
  /\ UNCHANGED <<crashes, fails, sinceBusy, run>>

Lose(r) ==
  /\ r \in reports
  /\ reports' = reports \ {r}
  /\ missed' = [missed EXCEPT ![r.from] = Older(@, TooMany)]
  /\ UNCHANGED <<load, alive, usage, state, pending, held, sinceReport, sinceTurn,
                 aggregatorVars, crashes, fails, sinceBusy, run>>

CommunicatorTicks == Tick /\ UNCHANGED <<crashes, fails, history>>

\* A unit of time passes.
Elapse ==
  /\ reports = {}
  /\ MonitorElapse
  /\ AggregatorElapse
  /\ sinceBusy' = [m \in Modules |-> IF m \in alive /\ state[m] = "SUPER_BUSY" THEN 0
                                     ELSE Older(sinceBusy[m], LongAgo)]
  /\ run' = [m \in Modules |-> [run[m] EXCEPT !.for = Older(@, SustainFor)]]
  /\ UNCHANGED <<crashes, fails, missed>>
-----------------------------------------------------------------------------

HealthThread(m) == TakeBaseline(m) \/ Measure(m) \/ Stuck(m) \/ Unreadable(m)

Next ==
  \/ \E m \in Modules : HealthThread(m) \/ ModuleCrashes(m) \/ ModuleRestarts(m)
  \/ \E r \in Reports : Arrive(r) \/ Lose(r)
  \/ CommunicatorTicks
  \/ Elapse

Spec == Init /\ [][Next]_vars

\* Time passes, the threads of both sides keep having their turns, a
\* crashed module is started again, and not every report is lost.
Fairness ==
  /\ WF_vars(Elapse)
  /\ WF_vars(CommunicatorTicks)
  /\ \A m \in Modules :
       /\ WF_vars(HealthThread(m))
       /\ WF_vars(ModuleRestarts(m))
       /\ WF_vars(\E s \in States : Arrive([from |-> m, s |-> s])
                                       \/ Lose([from |-> m, s |-> s]))
       /\ \A s \in States : SF_vars(Arrive([from |-> m, s |-> s]))

FairSpec == Spec /\ Fairness

-----------------------------------------------------------------------------
(* Properties.                                                             *)

\* Every variable has its type, and a monitor never presses for the state it
\* is in: the window is closed by the switch it leads to.
TypeOK ==
  /\ load \in [Boards -> Loads]
  /\ alive \subseteq Modules
  /\ usage \in [Modules -> {"none", "baseline", "known"}]
  /\ state \in [Modules -> States]
  /\ pending \in [Modules -> States \cup {"none"}]
  /\ \A m \in Modules : pending[m] # state[m]
  /\ held \in [Modules -> 0..SustainFor]
  /\ sinceReport \in [Modules -> 0..ReportEvery]
  /\ sinceTurn \in [Modules -> 0..TurnMax]
  /\ reports \subseteq Reports
  /\ latest \in [Modules -> States \cup {"none"}]
  /\ seen \in [Modules -> 0..MaxAge]
  /\ unit \in States
  /\ sinceTick \in 0..TickMax
  /\ missed \in [Modules -> 0..TooMany]
  /\ sinceBusy \in [Modules -> 0..LongAgo]

Ticked == sinceTick = 0

\* A unit that is said to be busy has a board that was busy within the stale
\* window: a module that went silent, crashed or lost its reports cannot hold
\* the unit busy any longer than that.
UnitBusyJustified ==
  Ticked /\ unit = "SUPER_BUSY" => \E m \in Modules : sinceBusy[m] <= StaleAfter

\* Once the communicator has heard that a module is busy, the unit stays busy
\* as long as the module does and its board is not removed, through as many
\* reports lost in a row as the stale window covers: that many longest intervals
\* and one more, by the module's report_s and the pace of its health thread,
\* must fit into three periods of the communicator's report_s.  With equal
\* report_s that is one loss, and not two: the third report comes a turn or more
\* after the window.  (A report that has just arrived may come after the tick.)
LossesTolerated ==
  (Tolerated + 1) * MaxInterval <= StaleAfter =>
    \A m \in alive :
      Ticked /\ state[m] = "SUPER_BUSY" /\ missed[m] <= Tolerated
        /\ latest[m] = "SUPER_BUSY" /\ seen[m] > 0
      => unit = "SUPER_BUSY"

\* Readings decide a switch: when a monitor changes its state, everything it
\* read in the last sustain_s was on the new side.
SwitchOnlyWhenHeld ==
  [][\A m \in Modules \cap alive :
       /\ state[m] = "FREE" /\ state'[m] = "SUPER_BUSY"
            => run[m].side = "high" /\ run[m].for >= SustainFor
       /\ state[m] = "SUPER_BUSY" /\ state'[m] = "FREE"
            => run[m].side = "low" /\ run[m].for >= SustainFor]_vars

\* The unit follows the boards in the end: a board that stays busy is noticed
\* although reports are lost, and when all stay free so does the unit.
BusyBoardNoticed ==
  \A b \in Boards :
    (\E m \in Modules : BoardOf[m] = b) /\ <>[](load[b] = "high")
      => []<>(unit = "SUPER_BUSY")
FreeUnitSettles ==
  <>[](\A b \in Boards : load[b] = "low") => <>[](unit = "FREE")
=============================================================================
