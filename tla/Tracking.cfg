SPECIFICATION Spec
CONSTANTS
    Classes = {car}
    MaxDets = 2
    MaxIds = 2
    HitCap = 2
    TrackConfigs <- MCTrackConfigs
    Tracks <- MCIds
    Periods = {1, 2}
    Steady = 2
    PurgeAge = 3
    MaxEntries = 1
    AgeCap = 4
    MaxChanges = 1
INVARIANTS
    PublishedByTheRules
PROPERTIES
    FirstSightReported
    EventsPaced
    FailsClosed
