---------------------------- MODULE CpuAggregator ----------------------------
(***************************************************************************)
(* The communicator's side of the board CPU reports: CCpuAggregator        *)
(* (de_databus/de_cpu_aggregator.cpp) keeps the latest report of every     *)
(* module by board, and its tick folds them into the state of the unit.    *)
(***************************************************************************)
EXTENDS CpuMonitor

CONSTANTS
  ExpectedEvery, \* report_s of the communicator's configuration
  RemoveAfter,   \* BOARD_REMOVE_AFTER_MS
  TickMax        \* longest time between two calls of tick (bound)

ASSUME AggregatorAssumption ==
  ExpectedEvery \in Nat \ {0} /\ RemoveAfter \in Nat /\ TickMax \in Nat \ {0}

VARIABLES
  latest,        \* m_boards: per module, the state it reported, or "none"
  seen,          \* now_ms - seen_at_ms
  unit,          \* m_unit_state; a change of it is the event tick returns
  sinceTick      \* time since the communicator called tick

aggregatorVars == <<latest, seen, unit, sinceTick>>

AggregatorInit ==
  /\ latest = [m \in Modules |-> "none"]
  /\ seen = [m \in Modules |-> 0]
  /\ unit = "FREE"
  /\ sinceTick = TickMax

\* staleWindowMs
StaleAfter == 3 * ExpectedEvery

MaxAge == IF RemoveAfter >= StaleAfter THEN RemoveAfter + 1 ELSE StaleAfter + 1

OnBoard(b) == {m \in Modules : BoardOf[m] = b /\ latest[m] # "none"}

\* Mutant: a report that was not replaced counts for ever.
AlwaysFresh(m) == latest[m] # "none"

\* Mutant: a report counts as fresh for one period only.
FreshForOne(m) == latest[m] # "none" /\ seen[m] <= ExpectedEvery

Fresh(m) == latest[m] # "none" /\ seen[m] <= StaleAfter

\* No module of the board was heard of for RemoveAfter.
Silent(b) == \A m \in OnBoard(b) : seen[m] > RemoveAfter

\* computeBoardStats: any fresh report of the board says busy.
BoardBusy(b) == \E m \in OnBoard(b) : Fresh(m) /\ latest[m] = "SUPER_BUSY"

\* onReport
OnReport(r) ==
  /\ r \in reports
  /\ reports' = reports \ {r}
  /\ latest' = [latest EXCEPT ![r.from] = r.s]
  /\ seen' = [seen EXCEPT ![r.from] = 0]
  /\ UNCHANGED <<load, alive, usage, state, pending, held, sinceReport, sinceTurn,
                 unit, sinceTick>>

\* tick: silent boards go first, with what they last said.
Tick ==
  /\ sinceTick > 0
  /\ sinceTick' = 0
  /\ LET removed == {m \in Modules : Silent(BoardOf[m])}
         busy == \E b \in Boards : ~Silent(b) /\ BoardBusy(b)
     IN  /\ latest' = [m \in Modules |-> IF m \in removed THEN "none" ELSE latest[m]]
         /\ seen' = [m \in Modules |-> IF m \in removed THEN 0 ELSE seen[m]]
         /\ unit' = IF busy THEN "SUPER_BUSY" ELSE "FREE"
  /\ UNCHANGED monitorVars

\* Time passes for the communicator, which calls tick again and again.
AggregatorElapse ==
  /\ sinceTick < TickMax
  /\ seen' = [m \in Modules |-> IF latest[m] = "none" THEN 0 ELSE Older(seen[m], MaxAge)]
  /\ sinceTick' = sinceTick + 1
  /\ UNCHANGED <<latest, unit>>
=============================================================================
