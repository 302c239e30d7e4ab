---------------------------- MODULE MCCapInvoke ----------------------------
\* TLC instances of CapInvoke.
EXTENDS CapInvoke

\* A check that throws leaves one mark behind for ever, so one such id is enough
\* beside one that is never lost.
SomeAdverts ==
  {judged \in [Ids -> {"valid", "invalid params", "throws"}] :
     \A id \in Ids : judged[id] = "throws" => id = CHOOSE i \in Ids : TRUE}

\* The code detaches a manager thread for every invoke it accepts, so the bound
\* on Workers must never be what makes an invoke wait.
ASSUME EnoughWorkers == Cardinality(Workers) >= MaxDeliver
=============================================================================
