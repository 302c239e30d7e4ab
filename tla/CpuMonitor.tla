------------------------------ MODULE CpuMonitor ------------------------------
(***************************************************************************)
(* The module side of the board CPU reports: CCpuMonitor                   *)
(* (de_databus/de_cpu_monitor.cpp), a two-state machine with hysteresis,   *)
(* and CModule::cpuReportTick, which feeds it at each turn of the health    *)
(* thread and reports to the communicator on an edge and periodically.     *)
(*                                                                         *)
(* Time is discrete: a step of CpuReporting makes every age one unit older. *)
(* A turn of the health thread is a sleep of a second and its work, so the  *)
(* turns of a module are some units apart, not always as many, and not in   *)
(* step with anybody else's.  A usage figure is the side of the thresholds  *)
(* it falls on.                                                            *)
(***************************************************************************)
EXTENDS Naturals, FiniteSets

CONSTANTS
  Modules,       \* module processes
  Boards,        \* computers
  BoardOf,       \* the board a module runs on: Modules -> Boards
  TurnMin,       \* a turn of the health thread: the second it sleeps,
  TurnMax,       \* and with what it does besides (bound)
  SustainFor,    \* sustain_s
  ReportEvery    \* report_s of the module's configuration

ASSUME MonitorAssumption ==
  /\ BoardOf \in [Modules -> Boards]
  /\ TurnMin \in Nat \ {0} /\ TurnMax \in Nat /\ TurnMin <= TurnMax
  /\ SustainFor \in Nat \ {0}
  /\ ReportEvery \in Nat \ {0}

VARIABLES
  load,         \* usage of every board: at most free_percent, between, at least
                \* super_busy_percent
  alive,        \* modules that run
  usage,        \* m_last_usage is known, or how far the first two samples have got
  state,        \* m_state
  pending,      \* m_pending_dir: the state the usage presses for
  held,         \* now_ms - m_pending_since_ms
  sinceReport,  \* now_ms - m_last_cpu_report_ms, up to ReportEvery
  sinceTurn,    \* time since the health thread's last turn, or its start
  reports       \* MODULE_CPU_STATUS datagrams under way

monitorVars == <<load, alive, usage, state, pending, held, sinceReport, sinceTurn, reports>>

Loads == {"low", "middle", "high"}
States == {"FREE", "SUPER_BUSY"}

\* A report carries the state of the monitor that sent it.
Reports == [from : Modules, s : States]

\* Capped ages: what is older makes no difference to the code.
Older(age, cap) == IF age < cap THEN age + 1 ELSE cap

\* m_last_cpu_report_ms = 0 means that the first report is due at once.
MonitorInit ==
  /\ load \in [Boards -> Loads]
  /\ alive = Modules
  /\ usage = [m \in Modules |-> "none"]
  /\ state = [m \in Modules |-> "FREE"]
  /\ pending = [m \in Modules |-> "none"]
  /\ held = [m \in Modules |-> 0]
  /\ sinceReport = [m \in Modules |-> ReportEvery]
  /\ sinceTurn = [m \in Modules |-> 0]
  /\ reports = {}

-----------------------------------------------------------------------------
(* onUsage                                                                 *)

\* Mutant: nothing presses back.
WantsNeverFree(m, u) ==
  IF u = "high" /\ state[m] = "FREE" THEN "SUPER_BUSY" ELSE "none"

\* The state the usage presses for, if it is not the present one.
Wants(m, u) ==
  IF u = "high" /\ state[m] = "FREE" THEN "SUPER_BUSY"
  ELSE IF u = "low" /\ state[m] = "SUPER_BUSY" THEN "FREE"
  ELSE "none"

\* Mutant: the switch comes with the second sample on the side.
SwitchesAtOnce(m, want) == want # "none" /\ pending[m] = want

\* The pressure has lasted for sustain_s.
Switches(m, want) == want # "none" /\ pending[m] = want /\ held[m] >= SustainFor

\* Mutant: the window is not closed by the switch.
OnUsageKeepsPending(m, u) ==
  LET want == Wants(m, u) IN
  /\ state' = [state EXCEPT ![m] = IF Switches(m, want) THEN want ELSE @]
  /\ pending' = [pending EXCEPT ![m] = want]
  /\ held' = [held EXCEPT ![m] =
                IF want = "none" \/ pending[m] # want THEN 0 ELSE @]

OnUsage(m, u) ==
  LET want == Wants(m, u) IN
  /\ state' = [state EXCEPT ![m] = IF Switches(m, want) THEN want ELSE @]
  /\ pending' = [pending EXCEPT ![m] = IF Switches(m, want) THEN "none" ELSE want]
  /\ held' = [held EXCEPT ![m] =
                IF want = "none" \/ pending[m] # want \/ Switches(m, want) THEN 0 ELSE @]

-----------------------------------------------------------------------------
(* cpuReportTick                                                           *)

\* Mutant: there is no periodic report.
ReportOnlyEdge(m) ==
  IF state'[m] # state[m]
  THEN /\ reports' = reports \cup {[from |-> m, s |-> state'[m]]}
       /\ sinceReport' = [sinceReport EXCEPT ![m] = 0]
  ELSE UNCHANGED <<reports, sinceReport>>

\* A report goes out on an edge, and at the first turn ReportEvery or more after
\* the last one.
Report(m) ==
  IF state'[m] # state[m] \/ sinceReport[m] >= ReportEvery
  THEN /\ reports' = reports \cup {[from |-> m, s |-> state'[m]]}
       /\ sinceReport' = [sinceReport EXCEPT ![m] = 0]
  ELSE UNCHANGED <<reports, sinceReport>>

\* The thread sleeps first.
Awake(m) == m \in alive /\ sinceTurn[m] >= TurnMin
Turned(m) == sinceTurn' = [sinceTurn EXCEPT ![m] = 0]

\* The first sample is the baseline: there is no usage before the second.
Baseline(m) ==
  /\ Awake(m)
  /\ usage[m] = "none"
  /\ usage' = [usage EXCEPT ![m] = "baseline"]
  /\ Turned(m)
  /\ UNCHANGED <<load, alive, state, pending, held, sinceReport, reports>>

Sample(m) ==
  /\ Awake(m)
  /\ usage[m] # "none"
  /\ usage' = [usage EXCEPT ![m] = "known"]
  /\ OnUsage(m, load[BoardOf[m]])
  /\ Report(m)
  /\ Turned(m)
  /\ UNCHANGED <<load, alive>>

\* The counters did not advance: the monitor learns nothing, a periodic report
\* may still be due.
SampleStuck(m) ==
  /\ Awake(m)
  /\ usage[m] = "known"
  /\ UNCHANGED <<load, alive, usage, state, pending, held>>
  /\ Report(m)
  /\ Turned(m)

\* /proc/stat cannot be read.
SampleFails(m) ==
  /\ Awake(m)
  /\ Turned(m)
  /\ UNCHANGED <<load, alive, usage, state, pending, held, sinceReport, reports>>

\* The process ends; a new one starts from init.
Crash(m) ==
  /\ m \in alive
  /\ alive' = alive \ {m}
  /\ UNCHANGED <<load, usage, state, pending, held, sinceReport, sinceTurn, reports>>

Restart(m) ==
  /\ m \notin alive
  /\ alive' = alive \cup {m}
  /\ usage' = [usage EXCEPT ![m] = "none"]
  /\ state' = [state EXCEPT ![m] = "FREE"]
  /\ pending' = [pending EXCEPT ![m] = "none"]
  /\ held' = [held EXCEPT ![m] = 0]
  /\ sinceReport' = [sinceReport EXCEPT ![m] = ReportEvery]
  /\ Turned(m)
  /\ UNCHANGED <<load, reports>>

\* Time passes for the modules, none of which sleeps for ever: the load of the
\* boards may change.
MonitorElapse ==
  /\ \A m \in alive : sinceTurn[m] < TurnMax
  /\ load' \in [Boards -> Loads]
  /\ held' = [m \in Modules |-> IF pending[m] = "none" THEN 0
                                ELSE Older(held[m], SustainFor)]
  /\ sinceReport' = [m \in Modules |-> Older(sinceReport[m], ReportEvery)]
  /\ sinceTurn' = [m \in Modules |-> Older(sinceTurn[m], TurnMax)]
  /\ UNCHANGED <<alive, usage, state, pending, reports>>
=============================================================================
