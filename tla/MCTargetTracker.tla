--------------------------- MODULE MCTargetTracker ---------------------------
(***************************************************************************)
(* A small instance of TargetTracker with the history of TrackerHistory.   *)
(***************************************************************************)
EXTENDS TrackerHistory

\* A target that is not seen again is given up, whether frames keep coming or
\* the stream stops.
UnseenIsGivenUp ==
  misses = 0 ~> (refreshed \/ published.tracking_state = "SEARCHING")

------------------------------------------------------------------------------
Ball(p, c) == [usable |-> TRUE, place |-> p, confidence |-> c, range |-> "at"]
MCFrames ==
  {<<>>, <<Ball(0, 60)>>,
   <<[Ball(2, 90) EXCEPT !.usable = FALSE], [Ball(1, 50) EXCEPT !.range = "far"]>>,
   <<Ball(0, 40), [Ball(2, 80) EXCEPT !.range = "invalid"]>>}
==============================================================================
