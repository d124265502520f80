----------------------------- MODULE LinkWatchdog -----------------------------
(***************************************************************************)
(* ground_station_watchdog_node: the Pi's verdict on the laptop link.  Ten *)
(* times a second it judges the age of the last heartbeat, publishes the   *)
(* verdict, and on the edge from up to down publishes both requests as     *)
(* FALSE and, when configured, a HOLD action.                              *)
(***************************************************************************)
EXTENDS Naturals

CONSTANTS
  WatchdogHeartbeatAge,     \* max_heartbeat_age_s
  WatchdogDetectionAge,     \* max_detection_age_s
  DeassertOnLinkLoss,       \* deassert_on_link_loss
  RequestHoldOnLinkLoss     \* request_hold_on_link_loss

ASSUME WatchdogAssumption ==
  /\ {WatchdogHeartbeatAge, WatchdogDetectionAge} \subseteq Nat
  /\ {DeassertOnLinkLoss, RequestHoldOnLinkLoss} \subseteq BOOLEAN

VARIABLES
  heartbeat_age,       \* {} or the age of the last heartbeat accepted
  heartbeat_seq,       \* its sequence, 0 before the first
  detection_age,       \* {} or the age of the last detection message
  link_ok, link_initialized,
  reason,              \* what the last LinkStatus says of the link
  deasserted,          \* the last callback published both requests as FALSE
  hold_requested,      \* the last callback published a HOLD action
  tick_due             \* the check has not run yet in this unit of time

watchdog == <<heartbeat_age, heartbeat_seq, detection_age, link_ok,
              link_initialized, reason, deasserted, hold_requested, tick_due>>

Reason == {"none", "OK", "NO_HEARTBEAT", "HEARTBEAT_STALE", "DETECTIONS_STALE"}

WatchdogInit ==
  /\ heartbeat_age = {}
  /\ heartbeat_seq = 0
  /\ detection_age = {}
  /\ link_ok = FALSE
  /\ link_initialized = FALSE
  /\ reason = "none"
  /\ deasserted = FALSE
  /\ hold_requested = FALSE
  /\ tick_due = TRUE

------------------------------------------------------------------------------
SaysNothing == deasserted' = FALSE /\ hold_requested' = FALSE

\* Plausible bug: a sequence that goes back is taken for a replay.
WatchdogOnHeartbeatOnlyForward(seq) ==
  /\ IF seq <= heartbeat_seq
     THEN UNCHANGED <<heartbeat_age, heartbeat_seq>>
     ELSE heartbeat_age' = {0} /\ heartbeat_seq' = seq
  /\ SaysNothing
  /\ UNCHANGED <<detection_age, link_ok, link_initialized, reason, tick_due>>

\* Only an exact duplicate of the last beat is ignored.
WatchdogOnHeartbeat(seq) ==
  /\ IF heartbeat_seq # 0 /\ seq = heartbeat_seq
     THEN UNCHANGED <<heartbeat_age, heartbeat_seq>>
     ELSE heartbeat_age' = {0} /\ heartbeat_seq' = seq
  /\ SaysNothing
  /\ UNCHANGED <<detection_age, link_ok, link_initialized, reason, tick_due>>

\* Plausible bug: a detection message is taken for a sign of life.
WatchdogOnDetectionsAlive ==
  /\ detection_age' = {0}
  /\ heartbeat_age' = {0}
  /\ SaysNothing
  /\ UNCHANGED <<heartbeat_seq, link_ok, link_initialized, reason, tick_due>>

WatchdogOnDetections ==
  /\ detection_age' = {0}
  /\ SaysNothing
  /\ UNCHANGED <<heartbeat_age, heartbeat_seq, link_ok, link_initialized, reason,
                 tick_due>>

HeartbeatOK == \E age \in heartbeat_age : age <= WatchdogHeartbeatAge
DetectionsStale == \E age \in detection_age : age > WatchdogDetectionAge

Verdict == CASE heartbeat_age = {} -> "NO_HEARTBEAT"
             [] heartbeat_age # {} /\ ~HeartbeatOK -> "HEARTBEAT_STALE"
             [] HeartbeatOK /\ DetectionsStale -> "DETECTIONS_STALE"
             [] OTHER -> "OK"

\* Plausible bug: a verdict that flags stale detections is not an up-state.
TickUpOnlyWhenOK ==
  /\ reason' = Verdict
  /\ link_ok' = HeartbeatOK
  /\ link_initialized' = TRUE
  /\ deasserted' = (reason = "OK" /\ ~HeartbeatOK /\ DeassertOnLinkLoss)
  /\ hold_requested' = (reason = "OK" /\ ~HeartbeatOK /\ RequestHoldOnLinkLoss)
  /\ tick_due' = FALSE
  /\ UNCHANGED <<heartbeat_age, heartbeat_seq, detection_age>>

\* The first tick only takes note of the link.
Tick ==
  LET lost == link_initialized /\ link_ok /\ ~HeartbeatOK
  IN
  /\ reason' = Verdict
  /\ link_ok' = HeartbeatOK
  /\ link_initialized' = TRUE
  /\ deasserted' = (lost /\ DeassertOnLinkLoss)
  /\ hold_requested' = (lost /\ RequestHoldOnLinkLoss)
  /\ tick_due' = FALSE
  /\ UNCHANGED <<heartbeat_age, heartbeat_seq, detection_age>>

OlderAge(ages, limit) == {IF age > limit THEN age ELSE age + 1 : age \in ages}

\* One unit of time passes; the check runs at least once in it.
WatchdogElapse ==
  /\ ~tick_due
  /\ tick_due' = TRUE
  /\ heartbeat_age' = OlderAge(heartbeat_age, WatchdogHeartbeatAge)
  /\ detection_age' = OlderAge(detection_age, WatchdogDetectionAge)
  /\ SaysNothing
  /\ UNCHANGED <<heartbeat_seq, link_ok, link_initialized, reason>>
==============================================================================
