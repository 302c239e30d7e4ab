------------------------- MODULE MCTrackedProjection -------------------------
(* Two detections a frame; a manager that asks for two hits and survives one  *)
(* miss, and one that asks for less than sanitize allows.                     *)
EXTENDS TrackedProjection

MCTrackConfigs == {[confirm |-> 2, misses |-> 1], [confirm |-> 0, misses |-> -1]}
MCIds == 1..MaxIds
=============================================================================
