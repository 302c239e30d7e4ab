--------------------------- MODULE TrackedProjection ---------------------------
(***************************************************************************)
(* The perception path of one camera: the track manager of the detecting   *)
(* process, its frames on their way over the databus, where one may be     *)
(* lost, and the geo projector that makes events of them.  Either may be   *)
(* reconfigured, and the detecting process started again.                  *)
(***************************************************************************)
EXTENDS TrackManager, GeoProjector

CONSTANTS TrackConfigs, \* configurations of the manager, before sanitize
          MaxChanges    \* bound on reconfigurations, resets and restarts

ASSUME ProjectionAssumption ==
    /\ MaxChanges \in Nat /\ Tracks = Ids
    /\ TrackConfigs \subseteq [confirm : Int, misses : Int]
    /\ \A c \in TrackConfigs : c.confirm <= HitCap

VARIABLES changes,    \* so far
          streak,     \* history: per id, the frames in a row it was seen from the first on
          gap,        \* history: per id, the frames since it was seen last
          worst,      \* history: per id, the longest gap after the streak
          changed,    \* history: the manager was reconfigured
          restarted,  \* history: it was started again
          sighted,    \* history: ids whose track was projected since it was born
          since,      \* history: per id, the time since its last event
          named,      \* history: the last configuration names a registry
          broke       \* history: that configuration threw

history == <<streak, gap, worst, changed, restarted, sighted, since, named, broke>>
vars == <<trackVars, geoVars, changes, history>>

None == [id \in {} |-> 0]

Init ==
    /\ \E c \in TrackConfigs : TrackInit(c)
    /\ GeoInit
    /\ changes = 0
    /\ streak = None /\ gap = None /\ worst = None
    /\ changed = FALSE /\ restarted = FALSE
    /\ sighted = {} /\ since = None
    /\ named = active /\ broke = FALSE

---------------------------------------------------------------------------
At(f, id) == IF id \in DOMAIN f THEN f[id] ELSE 0
Capped(n, cap) == IF n > cap THEN cap ELSE n

\* What the ids of a frame say of the past of each id: nothing of the code.
Remember ==
    LET ids == DOMAIN streak \union seen'
        unbroken(id) == At(worst, id) = 0 /\ At(gap, id) = 0
        gapNow(id) == IF id \in seen' THEN 0 ELSE Capped(At(gap, id) + 1, config.misses + 1)
    IN  /\ streak' = [id \in ids |-> IF id \in seen' /\ unbroken(id)
                                     THEN Capped(At(streak, id) + 1, HitCap)
                                     ELSE At(streak, id)]
        /\ gap' = [id \in ids |-> gapNow(id)]
        /\ worst' = [id \in ids |-> IF gapNow(id) > At(worst, id) THEN gapNow(id)
                                    ELSE At(worst, id)]

Forget == streak' = None /\ gap' = None /\ worst' = None

Born == seen' \ DOMAIN tracks

\* A frame goes through the manager, and what it publishes to the projector:
\* of that some tracks meet the ground - none do of a frame that is lost - and
\* some of these moved.
Frame ==
    \E frame \in Frames : \E pairing \in Pairings(frame) :
        /\ Update(frame, pairing)
        /\ Remember
        /\ \/ \E met \in SUBSET published' :
                \E moved \in [met -> BOOLEAN], order \in SetToSeqs(met) :
                    /\ OnObservations(moved, order)
                    /\ sighted' = (sighted \ Born) \union met
           \/ DropObservations /\ sighted' = sighted \ Born
        /\ since' = [id \in DOMAIN since \union fired' |-> IF id \in fired' THEN 0 ELSE since[id]]
        /\ UNCHANGED <<changes, changed, restarted, named, broke>>

Time ==
    /\ Elapse
    /\ since' = [id \in DOMAIN since |-> Older(since[id])]
    /\ UNCHANGED <<trackVars, changes, streak, gap, worst, changed, restarted, sighted, named, broke>>

Change == changes < MaxChanges /\ changes' = changes + 1

TrackerChanges ==
    /\ Change
    /\ \/ /\ Reset
          /\ Forget
          /\ UNCHANGED <<changed, restarted, sighted>>
       \/ /\ \E c \in TrackConfigs : SetConfig(c)
          /\ changed' = TRUE
          /\ UNCHANGED <<streak, gap, worst, restarted, sighted>>
       \/ /\ RestartTracker
          /\ Forget
          /\ restarted' = TRUE
          /\ UNCHANGED <<changed, sighted>>
    /\ Quiet
    /\ UNCHANGED <<settings, throttle, since, named, broke>>

ProjectorChanges ==
    /\ Change
    /\ \E on \in BOOLEAN, rate \in Periods :
        \/ \E names \in BOOLEAN :
             InitThrows(on, rate) /\ named' = names /\ broke' = TRUE
        \/ /\ \/ \E loaded \in {"registry", "absent"} : InitRegistry(on, rate, loaded)
              \/ InitWrongType(on, rate)
           /\ named' = TRUE /\ broke' = FALSE
        \/ /\ \E listed \in {"config", "absent"} : InitTable(on, rate, listed)
           /\ named' = FALSE /\ broke' = FALSE
        \/ SetEnabled(on) /\ UNCHANGED <<named, broke>>
    /\ UNCHANGED <<trackVars, streak, gap, worst, changed, restarted, sighted, since>>

Next == Frame \/ Time \/ TrackerChanges \/ ProjectorChanges

Spec == Init /\ [][Next]_vars

---------------------------------------------------------------------------
TypeOK == TrackTypeOK /\ GeoTypeOK

\* What is published is what the header of track_manager.hpp promises: exactly
\* the tracks of this frame that were seen in confirm_hits frames in a row
\* from their first on, and never missed in more than max_misses in a row.
PublishedByTheRules ==
    ~changed => published = {id \in seen : streak[id] >= config.confirm /\ worst[id] <= config.misses}

\* The first time a track is projected there is an event for it, however the
\* throttle remembers earlier tracks - unless the manager was started again
\* and gives the ids of earlier tracks to new ones.
FirstSightReported == [][~restarted => (DOMAIN projected' \ sighted) \subseteq fired']_vars

\* Events of a track are a period apart, and STEADY_RESEND_US if it did not
\* move; one that is projected after that has its event, whatever else the
\* throttle holds or purges - unless a period is longer than an entry lasts.
EventsPaced ==
    [][\A id \in DOMAIN projected' \intersect DOMAIN since : period <= PurgeAge =>
          (id \in fired' <=> since[id] >= period /\ (projected'[id] \/ since[id] >= Steady))]_vars

\* Nothing is projected with a mount that is not the registry's while the last
\* configuration names a registry, whether or not that could be loaded.
FailsClosed == [][DOMAIN projected' # {} /\ named /\ ~broke => entry = "registry"]_vars
=============================================================================
