------------------------------- MODULE Assignment -------------------------------
(***************************************************************************)
(* The association of TrackManager: hungarian (track_manager.hpp), and     *)
(* what it is to compute - one column for each row at the least cost.      *)
(* Costs are 1-IoU in whole units, and Big below the gate.                 *)
(***************************************************************************)
EXTENDS Integers, FiniteSets, FiniteSetsExt, Functions

Rows(cost) == DOMAIN cost
Columns(cost) == DOMAIN cost[1]

Total(cost, columnOf) == SumFunction([i \in Rows(cost) |-> cost[i][columnOf[i]]])
Optimum(cost) == Min({Total(cost, f) : f \in Injection(Rows(cost), Columns(cost))})

\* One round of the search for an augmenting path from row s.p[0], at column s.at:
\* s.used are the columns before it, s.minv is the slack of the others, if known,
\* and s.way where it is from; the potentials s.u and s.v change by the least slack,
\* and the search goes on at a column that has it.
Step(cost, s) ==
    LET i0 == s.p[s.at]
        used == s.used \union {s.at}
        free == Columns(cost) \ used
        Slack(j) == cost[i0][j] - s.u[i0] - s.v[j]
        closer == {j \in free : j \in DOMAIN s.minv => Slack(j) < s.minv[j]}
        minv == [j \in free |-> IF j \in closer THEN Slack(j) ELSE s.minv[j]]
        delta == Min({minv[j] : j \in free})
    IN  [p |-> s.p, used |-> used, at |-> Min({j \in free : minv[j] = delta}),
         way |-> [j \in Columns(cost) |-> IF j \in closer THEN s.at ELSE s.way[j]],
         minv |-> [j \in free |-> minv[j] - delta],
         u |-> [i \in DOMAIN s.u |-> IF \E j \in used : s.p[j] = i THEN s.u[i] + delta ELSE s.u[i]],
         v |-> [j \in DOMAIN s.v |-> IF j \in used THEN s.v[j] - delta ELSE s.v[j]]]

\* The search ends at a column that has no row.
Search(cost, start) ==
    LET after[k \in 0..Cardinality(Columns(cost))] ==
            IF k = 0 THEN start
            ELSE LET s == after[k - 1]
                 IN  IF s.p[s.at] = 0 THEN s ELSE Step(cost, s)
    IN  after[Cardinality(Columns(cost))]

\* The path is followed back to column 0 and its rows moved on by one column.
Flip(cost, s) ==
    LET after[k \in 0..(Cardinality(Columns(cost)) + 1)] ==
            IF k = 0 THEN s
            ELSE LET t == after[k - 1]
                 IN  IF t.at = 0 THEN t
                     ELSE [t EXCEPT !.p[t.at] = t.p[t.way[t.at]], !.at = t.way[t.at]]
    IN  after[Cardinality(Columns(cost)) + 1]

\* Mutant: the potentials start at zero again for every row.
InsertFresh(cost, s, i) ==
    Flip(cost, Search(cost, [s EXCEPT !.p[0] = i, !.used = {}, !.at = 0, !.minv = [j \in {} |-> 0],
                                      !.u = [k \in DOMAIN s.u |-> 0], !.v = [j \in DOMAIN s.v |-> 0]]))

\* Row i joins the rows that have a column.
Insert(cost, s, i) ==
    Flip(cost, Search(cost, [s EXCEPT !.p[0] = i, !.used = {}, !.at = 0, !.minv = [j \in {} |-> 0]]))

\* hungarian: the column of each row.
Hungarian(cost) ==
    LET columns == {0} \union Columns(cost)
        none == [p |-> [j \in columns |-> 0], used |-> {}, at |-> 0,
                 way |-> [j \in Columns(cost) |-> 0], minv |-> [j \in {} |-> 0],
                 u |-> [i \in {0} \union Rows(cost) |-> 0], v |-> [j \in columns |-> 0]]
        after[i \in {0} \union Rows(cost)] == IF i = 0 THEN none ELSE Insert(cost, after[i - 1], i)
        p == after[Cardinality(Rows(cost))].p
    IN  [i \in Rows(cost) |-> CHOOSE j \in Columns(cost) : p[j] = i]
=============================================================================
