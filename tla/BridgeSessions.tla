--------------------------- MODULE BridgeSessions ---------------------------
(***************************************************************************)
(* The sessions of telemetry_node: it connects to PX4, runs its coroutines *)
(* until one of them raises an exception, waits and connects again.  What  *)
(* the loops of one session do is in MavsdkBridge; here are those parts    *)
(* of them that meet the loops of the next session.  asyncio.gather hands  *)
(* the first exception on and leaves the other coroutines running.         *)
(*                                                                         *)
(* A coroutine that can run does so before time passes.  A new server is   *)
(* assumed to hear PX4 although an older one may still be alive.           *)
(***************************************************************************)
EXTENDS Naturals, FiniteSets

CONSTANTS
  Grace,               \* grace_s
  ReconnectInterval, ConnectionTimeout,
  MaxSessions,         \* bound of the runs: sessions that ran their coroutines
  MaxFailures          \* bound of the runs: what fails, see Fail

Session == 1..MaxSessions
Coroutine == {"watch", "stream", "offboard", "action"}

VARIABLES
  main,                \* of _mavsdk_main: "connecting", "streaming", "sleeping"
  waited,              \* for how long, up to what matters
  session,             \* whose System is self._system
  server,              \* the sessions whose MAVSDK server is alive
  coroutines,          \* those running, of each session
  link,                \* PX4 is heard
  down_for,            \* for how long it was not, the last time (history)
  seen,                \* what each session's watcher was told last
  grace_timer,         \* {} or {how long it has run}, of each session
  connected,
  action_handled,      \* the action in the slot was dealt with
  executing,           \* the sessions whose action loop awaits its call
  failures             \* so far

connection == <<main, waited, session, server, connected>>
watching == <<link, down_for, seen, grace_timer>>
acting == <<action_handled, executing>>
vars == <<connection, coroutines, watching, acting, failures>>

Init ==
  /\ main = "connecting" /\ waited = 0
  /\ session = 1 /\ server = {1}
  /\ coroutines = [s \in Session |-> {}]
  /\ link \in BOOLEAN /\ down_for = 0
  /\ seen = [s \in Session |-> TRUE]
  /\ grace_timer = [s \in Session |-> {}]
  /\ connected = FALSE
  /\ action_handled = TRUE /\ executing = {}
  /\ failures = 0

------------------------------------------------------------------------------
(* The connection.                                                         *)

\* The first report of a connected PX4; all coroutines start.
Connect ==
  /\ main = "connecting" /\ session \in server /\ link
  /\ main' = "streaming" /\ waited' = 0
  /\ connected' = TRUE
  /\ coroutines' = [coroutines EXCEPT ![session] = Coroutine]
  /\ UNCHANGED <<session, server, watching, acting, failures>>

Sleep == main' = "sleeping" /\ waited' = 0 /\ connected' = FALSE

\* The time-out is looked at when a report arrives, and only then.
ConnectTimesOut ==
  /\ main = "connecting" /\ session \in server /\ ~link
  /\ waited > ConnectionTimeout
  /\ Sleep
  /\ UNCHANGED <<session, server, coroutines, watching, acting, failures>>

\* Plausible bug: connect again at once.
SleptEnough == TRUE

SleptLongEnough == waited >= ReconnectInterval

\* A new System.  One that never streamed leaves nothing behind, and its number
\* is used again.
Reconnect ==
  /\ main = "sleeping" /\ SleptLongEnough
  /\ main' = "connecting" /\ waited' = 0
  /\ session' = IF coroutines[session] = {} THEN session ELSE session + 1
  /\ session' \in Session
  /\ server' = server \cup {session'}
  /\ seen' = [seen EXCEPT ![session'] = TRUE]
  /\ UNCHANGED <<connected, coroutines, link, down_for, grace_timer, acting, failures>>

------------------------------------------------------------------------------
(* What fails.                                                             *)

\* A session's MAVSDK server dies.
ServerDies(s) ==
  /\ failures < MaxFailures
  /\ s \in server
  /\ server' = server \ {s}
  /\ failures' = failures + 1
  /\ UNCHANGED <<main, waited, session, connected, coroutines, watching, acting>>

\* The exception of a coroutine ends its session, if it is the first; the others
\* go on, and so does a grace timer.
Raise(s, c) ==
  /\ c \in coroutines[s]
  /\ coroutines' = [coroutines EXCEPT ![s] = @ \ {c}]
  /\ IF s = session /\ main = "streaming"
     THEN Sleep ELSE UNCHANGED <<main, waited, connected>>
  /\ UNCHANGED <<session, server, watching, acting>>

\* Streams raise when their server is gone; the action loop handles every
\* exception.
StreamRaises(s, c) ==
  /\ s \notin server /\ c \in {"watch", "stream"}
  /\ Raise(s, c)
  /\ UNCHANGED failures

\* The Offboard loop raises by itself (see UsePrimeHold in MavsdkBridge).
OffboardRaises(s) ==
  /\ failures < MaxFailures
  /\ failures' = failures + 1
  /\ Raise(s, "offboard")

\* connect, or the first reports, raise without a server.
ConnectRaises ==
  /\ main = "connecting" /\ session \notin server
  /\ Sleep
  /\ UNCHANGED <<session, server, coroutines, watching, acting, failures>>

------------------------------------------------------------------------------
(* The connection state of PX4.                                            *)

Watches(s) == s \in server /\ "watch" \in coroutines[s]
Orphaned(s) == s \notin server /\ coroutines[s] \cap {"watch", "stream"} # {}

\* Reports and exceptions are not overtaken by the next change.
Told ==
  /\ \A s \in Session : ~Orphaned(s) /\ (Watches(s) => seen[s] = link)
  /\ main = "connecting" => session \in server /\ ~link

LinkChanges ==
  /\ Told
  /\ link' = ~link
  /\ down_for' = IF link THEN 0 ELSE down_for
  /\ UNCHANGED <<connection, coroutines, seen, grace_timer, acting, failures>>

\* Plausible bug: a loss counts at once.
WatchWithoutGrace(s) ==
  /\ Watches(s) /\ seen[s] # link
  /\ seen' = [seen EXCEPT ![s] = link]
  /\ connected' = link
  /\ UNCHANGED <<main, waited, session, server, coroutines, link, down_for,
                 grace_timer, acting, failures>>

\* Plausible bug: a recovery only cancels the timer.
WatchLossesOnly(s) ==
  /\ Watches(s) /\ seen[s] # link
  /\ seen' = [seen EXCEPT ![s] = link]
  /\ grace_timer' = [grace_timer EXCEPT ![s] = IF link THEN {} ELSE {0}]
  /\ UNCHANGED <<connection, coroutines, link, down_for, acting, failures>>

\* A loss counts when it has lasted for the grace period, a recovery at once.
Watch(s) ==
  /\ Watches(s) /\ seen[s] # link
  /\ seen' = [seen EXCEPT ![s] = link]
  /\ grace_timer' = [grace_timer EXCEPT ![s] = IF link THEN {} ELSE @ \cup {0}]
  /\ connected' = (connected \/ link)
  /\ UNCHANGED <<main, waited, session, server, coroutines, link, down_for, acting,
                 failures>>

GraceOver(s) ==
  /\ Grace \in grace_timer[s]
  /\ grace_timer' = [grace_timer EXCEPT ![s] = {}]
  /\ connected' = FALSE
  /\ UNCHANGED <<main, waited, session, server, coroutines, link, down_for, seen,
                 acting, failures>>

------------------------------------------------------------------------------
(* The action loops, which share the slot, what was handled and the flag.  *)

ActionArrives ==
  /\ action_handled' = FALSE
  /\ UNCHANGED <<connection, coroutines, watching, executing, failures>>

FindsAction(s) == "action" \in coroutines[s] /\ s \notin executing /\ ~action_handled

\* An action too old, or refused by the policy, is handled and not executed.
TakeAction(s) ==
  /\ FindsAction(s)
  /\ action_handled' = TRUE
  /\ \/ connected /\ executing' = executing \cup {s}
     \/ UNCHANGED executing
  /\ UNCHANGED <<connection, coroutines, watching, failures>>

\* The call is answered, or fails.
ActionEnds(s) ==
  /\ s \in executing
  /\ executing' = executing \ {s}
  /\ UNCHANGED <<connection, coroutines, watching, action_handled, failures>>

------------------------------------------------------------------------------
Prompt == \/ Connect \/ ConnectRaises \/ Reconnect
          \/ \E s \in Session :
               \/ Watch(s) \/ GraceOver(s)
               \/ \E c \in Coroutine : StreamRaises(s, c)

AnyDue == \/ ~Told
          \/ main = "sleeping" /\ waited = ReconnectInterval /\ session < MaxSessions
          \/ \E s \in Session : Grace \in grace_timer[s]

Least(a, b) == IF a < b THEN a ELSE b

\* An action that a loop could find has been found when a unit is over, and refused
\* if it was not carried out (see TakeAction).
Tick ==
  /\ ~AnyDue
  /\ waited' = CASE main = "sleeping" -> Least(waited + 1, ReconnectInterval)
                 [] main = "connecting" -> Least(waited + 1, ConnectionTimeout + 1)
                 [] OTHER -> waited
  /\ down_for' = IF link THEN down_for ELSE Least(down_for + 1, Grace)
  /\ grace_timer' = [s \in Session |-> {t + 1 : t \in grace_timer[s]}]
  /\ action_handled' = (action_handled \/ \E s \in Session : FindsAction(s))
  /\ UNCHANGED <<main, session, server, connected, coroutines, link, seen, executing,
                 failures>>

Next ==
  \/ Prompt \/ ConnectTimesOut \/ LinkChanges \/ ActionArrives \/ Tick
  \/ \E s \in Session : \/ ServerDies(s) \/ OffboardRaises(s)
                         \/ TakeAction(s) \/ ActionEnds(s)

Spec == Init /\ [][Next]_vars

\* asyncio resumes what can go on, and time passes.
FairSpec == Spec /\ WF_vars(Prompt) /\ WF_vars(Tick)

------------------------------------------------------------------------------
(* Properties.                                                             *)

\* Only a loss that has lasted for the grace period, or the end of the session,
\* makes the bridge disconnected: no timer of an ended session does.
LossNeedsGrace ==
  [][connected /\ ~connected' =>
       down_for >= Grace \/ (main = "streaming" /\ main' = "sleeping")]_vars

\* A loss that lasts is noticed; and a bridge that has lost its connection, or a
\* session, is connected again when PX4 is heard long enough.
ConnectedFollowsLink ==
  /\ ~link ~> link \/ ~connected
  /\ link ~> ~link \/ connected

\* The node owns a single connection to PX4: an action is given to that one.
ActionsUseTheConnection ==
  [][\A s \in executing' \ executing : s = session]_vars
==============================================================================
