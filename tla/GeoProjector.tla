------------------------------ MODULE GeoProjector ------------------------------
(***************************************************************************)
(* CGeoProjectorCore (geo_projector_core.hpp), for the frames of one       *)
(* camera: whether it projects them, with whose mount, and which of the    *)
(* projected observations become detect.detected events.  Time passes in   *)
(* units; an age is the time since the last event of a track.              *)
(***************************************************************************)
EXTENDS Naturals, FiniteSets, SequencesExt

CONSTANTS Tracks,     \* ids an observation may have
          Periods,    \* 1e6 / rate_hz of the configurations
          Steady,     \* STEADY_RESEND_US
          PurgeAge,   \* the age from which a purge removes an entry
          MaxEntries, \* the size from which the throttle is purged
          AgeCap      \* ages are counted up to here; nothing compares beyond

ASSUME GeoAssumption ==
    /\ {Steady, PurgeAge, AgeCap} \subseteq Nat /\ Periods \subseteq Nat
    /\ Steady <= PurgeAge  \* 5 s and 60 s
    /\ \A t \in Periods \union {Steady, PurgeAge} : t < AgeCap

VARIABLES enabled,    \* m_config.enabled
          period,     \* from m_config.rate_hz
          entry,      \* where the camera's entry in m_config.cameras is from
          active,     \* m_registry_active
          throttle,   \* m_throttle: track -> age of its last event
          projected,  \* the tracks the last onObservations projected: did they move?
          fired       \* those of them it fired an event for

geoVars == <<enabled, period, entry, active, throttle, projected, fired>>
settings == <<enabled, period, entry, active>>

GeoTypeOK ==
    /\ enabled \in BOOLEAN
    /\ period \in Periods
    /\ entry \in {"registry", "config", "absent"}
    /\ active \in BOOLEAN
    /\ DOMAIN throttle \subseteq Tracks
    /\ \A id \in DOMAIN throttle : throttle[id] \in 0..AgeCap
    /\ fired \subseteq DOMAIN projected /\ DOMAIN projected \subseteq Tracks

\* A projector that its owner has given a first configuration: it is
\* enabled and knows the camera.
GeoInit ==
    /\ enabled = TRUE
    /\ period \in Periods
    /\ active \in BOOLEAN
    /\ entry = IF active THEN "registry" ELSE "config"
    /\ throttle = [id \in {} |-> 0]
    /\ projected = [id \in {} |-> FALSE] /\ fired = {}

Quiet == projected' = [id \in {} |-> FALSE] /\ fired' = {}

---------------------------------------------------------------------------
(* init, by what its "camera_registry" key is. *)

\* A value of the wrong type throws and leaves it half applied: before it has
\* got to the rate, or after it, when it may be in the midst of the cameras.
InitThrows(on, rate) ==
    /\ \/ enabled' \in {enabled, on} /\ UNCHANGED <<period, entry>>
       \/ /\ enabled' = on /\ period' = rate
          /\ entry' \in {entry, "absent", "config"}
    /\ Quiet
    /\ UNCHANGED <<active, throttle>>

\* Mutant: the registry is active when it is loaded.
InitRegistryOpen(on, rate, loaded) ==
    /\ enabled' = on /\ period' = rate
    /\ active' = (loaded = "registry")
    /\ entry' = loaded
    /\ Quiet
    /\ UNCHANGED throttle

\* It names a file: the entry is the registry's, or there is none - when the
\* file is missing, torn, lists no usable camera or makes the load throw.
InitRegistry(on, rate, loaded) ==
    /\ enabled' = on /\ period' = rate
    /\ active' = TRUE
    /\ entry' = loaded
    /\ Quiet
    /\ UNCHANGED throttle

\* It is there and no string: closed.
InitWrongType(on, rate) == InitRegistry(on, rate, "absent")

\* It is not there: the cameras are the configuration's own.
InitTable(on, rate, listed) ==
    /\ enabled' = on /\ period' = rate
    /\ active' = FALSE
    /\ entry' = listed
    /\ Quiet
    /\ UNCHANGED throttle

\* setEnabled, called for detect.enable and detect.disable.
SetEnabled(on) ==
    /\ enabled' = on
    /\ Quiet
    /\ UNCHANGED <<period, entry, active, throttle>>

---------------------------------------------------------------------------
Without(ages, old) == [id \in DOMAIN ages \ old |-> ages[id]]
With(ages, id) == [i \in DOMAIN ages \union {id} |-> IF i = id THEN 0 ELSE ages[i]]

\* Mutant: a purge removes the entries a steady track may still need.
PurgedEarly(ages) ==
    IF Cardinality(DOMAIN ages) > MaxEntries
    THEN Without(ages, {id \in DOMAIN ages : ages[id] > 0})
    ELSE ages

Purged(ages) ==
    IF Cardinality(DOMAIN ages) > MaxEntries
    THEN Without(ages, {id \in DOMAIN ages : ages[id] > PurgeAge})
    ELSE ages

\* passesThrottle: the first event of a track passes, the next when a period
\* is over and the target moved or was steady for long.
Held(ages, o) ==
    /\ o.id \in DOMAIN ages
    /\ ages[o.id] < period \/ (~o.moved /\ ages[o.id] < Steady)

Throttle(state, o) ==
    LET ages == Purged(state.ages)
    IN  IF Held(ages, o) THEN [state EXCEPT !.ages = ages]
        ELSE [ages |-> With(ages, o.id), fired |-> state.fired \union {o.id}]

\* onObservations: moved are the tracks above min_conf that the pose and the
\* camera's mount project to the ground - are they away from the last event? -
\* and order is their order in the frame.
OnObservations(moved, order) ==
    LET obs == [i \in DOMAIN order |-> [id |-> order[i], moved |-> moved[order[i]]]]
        last == FoldLeft(Throttle, [ages |-> throttle, fired |-> {}], obs)
    IN  /\ enabled
        /\ entry # "absent" \/ ~active
        /\ throttle' = last.ages
        /\ fired' = last.fired
        /\ projected' = moved
        /\ UNCHANGED settings

\* Its early returns: disabled, or a camera the registry does not know.
DropObservations ==
    /\ ~enabled \/ (entry = "absent" /\ active)
    /\ Quiet
    /\ UNCHANGED <<settings, throttle>>

\* Time passes.
Older(age) == IF age = AgeCap THEN AgeCap ELSE age + 1
Elapse ==
    /\ throttle' = [id \in DOMAIN throttle |-> Older(throttle[id])]
    /\ Quiet
    /\ UNCHANGED settings
=============================================================================
