SPECIFICATION Calls
CONSTANTS
    MaxRows = 3
    MaxColumns = 3
    Costs = {0, 1, 4}
    MaxLevels = 6
    Leaves <- MCLeaves
    Scalars <- MCScalars
    Params <- MCParams
INVARIANTS
    AssociationOptimal
    CheckedAtEveryLevel
    FilledIsAcceptable
\* A behaviour is one call, which ends.
CHECK_DEADLOCK FALSE
