--------------------------- MODULE TrackerHistory ---------------------------
(***************************************************************************)
(* TargetTracker with a memory of the frames that came since the last      *)
(* usable detection and since the last publication.                        *)
(***************************************************************************)
EXTENDS TargetTracker

VARIABLES
  misses,      \* frames without a usable detection since the last with one
  refreshed    \* a usable detection came since the last publication
history == <<misses, refreshed>>

HInit == Init /\ misses = MissedThreshold /\ refreshed = FALSE

HDetection(frame) ==
  /\ DetectionCallback(frame)
  /\ IF \E i \in DOMAIN frame : frame[i].usable
     THEN misses' = 0 /\ refreshed' = TRUE
     ELSE /\ misses' = IF misses < MissedThreshold THEN misses + 1 ELSE misses
          /\ UNCHANGED refreshed

HPublish == PublishError /\ refreshed' = FALSE /\ UNCHANGED misses
HElapse == Elapse /\ UNCHANGED history

HNext == (\E frame \in TrackerFrames : HDetection(frame)) \/ HPublish \/ HElapse
HSpec == HInit /\ [][HNext]_<<vars, history>>

------------------------------------------------------------------------------
\* A target is published as visible only while fewer frames than the threshold
\* lacked it, however the time limits and the resets of the count interleave
\* with the frames.
VisibleWithinGrace ==
  [][PublishError /\ published'.target_visible
       => misses < MissedThreshold]_<<vars, history>>

\* A target that was not visible becomes visible only through a detection that
\* came since: no frame without the target, and no timer, brings a lost target
\* back.
LockNeedsDetection ==
  [][~published.target_visible /\ published'.target_visible => refreshed]_<<vars, history>>
==============================================================================
