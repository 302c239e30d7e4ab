------------------------------ MODULE TrackManager ------------------------------
(***************************************************************************)
(* TrackManager (track_manager.hpp): turns the detections of one camera,   *)
(* frame by frame, into observations with a stable track id.               *)
(*                                                                         *)
(* Boxes are abstracted to what the association makes of them: for the     *)
(* right overlaps every pairing of detections and tracks of one class is   *)
(* the cheapest above the gate, so a frame comes with one.  That the       *)
(* pairing is the cheapest one is checked in Assignment.                   *)
(***************************************************************************)
EXTENDS Integers, FiniteSets

CONSTANTS Classes,   \* classes of detections
          MaxDets,   \* bound on the detections of a frame
          MaxIds,    \* bound on the ids a manager gives
          HitCap     \* hits are counted up to here; no config asks for more

ASSUME TrackAssumption == {MaxDets, MaxIds, HitCap} \subseteq Nat \ {0}

VARIABLES config,     \* m_config: [confirm, misses]
          tracks,     \* m_tracks: id -> [cls, hits, misses, confirmed]
          nextId,     \* m_next_id
          seen,       \* the ids of the detections of the last frame
          published   \* those of them in the frame that update returned

trackVars == <<config, tracks, nextId, seen, published>>

Ids == 1..MaxIds
Track == [cls : Classes, hits : 0..HitCap, misses : Nat, confirmed : BOOLEAN]

TrackTypeOK ==
    /\ config \in [confirm : 1..HitCap, misses : Nat]
    /\ DOMAIN tracks \subseteq Ids
    /\ \A id \in DOMAIN tracks : tracks[id] \in Track
    /\ nextId \in 1..(MaxIds + 1)
    /\ published \subseteq seen /\ seen \subseteq Ids

\* sanitize: a configuration asks for one hit and no miss at the least.
Sanitize(c) == [confirm |-> IF c.confirm < 1 THEN 1 ELSE c.confirm,
                misses |-> IF c.misses < 0 THEN 0 ELSE c.misses]

TrackInit(c) ==
    /\ config = Sanitize(c)
    /\ tracks = [id \in {} |-> {}]
    /\ nextId = 1
    /\ seen = {} /\ published = {}

\* Frames are the classes of the detections above min_conf, in their order.
Frames == UNION {[1..n -> Classes] : n \in 0..MaxDets}

\* The association: detections to tracks, one to one, within a class.
Pairings(frame) ==
    {pairing \in UNION {[paired -> DOMAIN tracks] : paired \in SUBSET DOMAIN frame} :
        /\ \A d \in DOMAIN pairing : tracks[pairing[d]].cls = frame[d]
        /\ \A d, e \in DOMAIN pairing : pairing[d] = pairing[e] => d = e}

\* Mutant: a tentative track survives misses as a confirmed one does.
DeadLate(track) == track.misses > config.misses

\* Track::dead
Dead(track) ==
    /\ track.misses > 0
    /\ ~track.confirmed \/ track.misses > config.misses

\* Mutant: one hit too few confirms a track.
HitEarly(track) ==
    LET hits == IF track.hits = HitCap THEN HitCap ELSE track.hits + 1
    IN  [track EXCEPT !.hits = hits, !.misses = 0,
                      !.confirmed = @ \/ hits + 1 >= config.confirm]

\* Track::update, and what it confirms.
Hit(track) ==
    LET hits == IF track.hits = HitCap THEN HitCap ELSE track.hits + 1
    IN  [track EXCEPT !.hits = hits, !.misses = 0,
                      !.confirmed = @ \/ hits >= config.confirm]

\* Track::miss
Miss(track) == [track EXCEPT !.misses = @ + 1, !.hits = 0]

Unborn(cls) == [cls |-> cls, hits |-> 0, misses |-> 0, confirmed |-> FALSE]

\* update: matched tracks take their detection, the others miss it, detections
\* without a track start one, the confirmed of this frame are published and
\* the dead dropped.
Update(frame, pairing) ==
    LET unpaired == DOMAIN frame \ DOMAIN pairing
        IdOf(d) == IF d \in DOMAIN pairing THEN pairing[d]
                   ELSE nextId + Cardinality({e \in unpaired : e < d})
        matched == {pairing[d] : d \in DOMAIN pairing}
        born == {IdOf(d) : d \in unpaired}
        After(id) == IF id \in matched THEN Hit(tracks[id])
                     ELSE IF id \in DOMAIN tracks THEN Miss(tracks[id])
                     ELSE Hit(Unborn(frame[CHOOSE d \in unpaired : IdOf(d) = id]))
        next == [id \in DOMAIN tracks \union born |-> After(id)]
    IN  /\ nextId + Cardinality(unpaired) <= MaxIds + 1
        /\ nextId' = nextId + Cardinality(unpaired)
        /\ seen' = matched \union born
        /\ published' = {id \in seen' : next[id].confirmed}
        /\ tracks' = [id \in {i \in DOMAIN next : ~Dead(next[i])} |-> next[id]]
        /\ UNCHANGED config

\* Mutant: the ids start again with the tracks.
ResetIds ==
    /\ tracks' = [id \in {} |-> {}]
    /\ nextId' = 1
    /\ seen' = {} /\ published' = {}
    /\ UNCHANGED config

\* reset: the tracks are forgotten and the ids keep counting up.
Reset ==
    /\ tracks' = [id \in {} |-> {}]
    /\ seen' = {} /\ published' = {}
    /\ UNCHANGED <<config, nextId>>

SetConfig(c) ==
    /\ config' = Sanitize(c)
    /\ seen' = {} /\ published' = {}
    /\ UNCHANGED <<tracks, nextId>>

\* The process with the manager is started again: its ids are those of a new one.
RestartTracker ==
    /\ tracks' = [id \in {} |-> {}]
    /\ nextId' = 1
    /\ seen' = {} /\ published' = {}
    /\ UNCHANGED config
=============================================================================
