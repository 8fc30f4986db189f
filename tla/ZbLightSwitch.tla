---------------------------- MODULE ZbLightSwitch ----------------------------
(***************************************************************************)
(* The light switch sample (samples/zigbee/light_switch/main.c), compiled  *)
(* as an end device: joining the network, leaving it and rejoining it.     *)
(* Looking for a bulb is ZbSwitchFind.                                     *)
(*                                                                         *)
(* The ZBOSS thread runs signal handlers, callbacks and alarms one after   *)
(* the other; the GPIO interrupt runs the button handler.  A handler of    *)
(* the thread is one action: the interrupt reads waitForUser and           *)
(* startScheduled only, and no handler writes both with something in       *)
(* between that the interrupt could tell.  Alarms expire in any order,     *)
(* because scanning and joining take as long as they take, and setting one *)
(* fails when ZBOSS has no place left; how many places are the switch's or *)
(* free is chosen anew for every handler.                                  *)
(***************************************************************************)
EXTENDS Naturals, Sequences

CONSTANTS RejoinIntervalMax, \* REJOIN_INTERVAL_MAX_S
          Places,            \* places of the alarm table a handler may find left
          MaxCallbacks,      \* bound: start_network_rejoin_ED in the callback queue
          MaxSignals         \* bound: signals waiting for the handler

VARIABLES node,     \* the rejoin flags, the alarms and what ZBOSS knows
          signals,  \* the application signals ZBOSS has queued
          known     \* history: the known mishaps since the procedure began last

vars == <<node, signals, known>>

Alarms == {"steering", "stop", "rejoin"}

\* Signals that are only logged.
Reports == {"LEAVE_INDICATION", "CAN_SLEEP", "DEVICE_UPDATE", "DEVICE_ANNCE"}
Unhandled == {"NO_ACTIVE_LINKS", "F_B_TARGET_FINISHED", "TC_REJOIN_DONE"}

Signal == [sig : {"PRODUCTION_CONFIG_READY", "SKIP_STARTUP", "FIRST_START", "REBOOT",
                  "STEERING", "LEAVE"} \cup Reports \cup Unhandled,
           ok : BOOLEAN]

TypeOK ==
    /\ node \in [joined : BOOLEAN, bdb : {"off", "init", "idle", "steering"},
                 initialised : BOOLEAN, started : BOOLEAN, stopRequested : BOOLEAN,
                 inProgress : BOOLEAN, attempts : Nat, waitForUser : BOOLEAN,
                 startScheduled : BOOLEAN, callbacks : Nat, led : BOOLEAN,
                 fault : BOOLEAN, alarms : [Alarms -> Nat]]
    /\ signals \in Seq(Signal)
    /\ known \subseteq {"late button", "no timeout", "first start failed"}

Init ==
    /\ node = [joined |-> FALSE, bdb |-> "off", initialised |-> FALSE, started |-> FALSE,
               stopRequested |-> FALSE, inProgress |-> FALSE, attempts |-> 0,
               waitForUser |-> FALSE, startScheduled |-> FALSE, callbacks |-> 0,
               led |-> FALSE, fault |-> FALSE, alarms |-> [a \in Alarms |-> 0]]
    /\ signals = <<[sig |-> "PRODUCTION_CONFIG_READY", ok |-> FALSE],
                   [sig |-> "SKIP_STARTUP", ok |-> TRUE]>>
    /\ known = {}

----------------------------------------------------------------------------
(* The rejoin procedure, as functions on the node.                         *)

Runs == ~node.fault

Pending(n) == n.alarms["steering"] + n.alarms["stop"] + n.alarms["rejoin"]

\* ZB_SCHEDULE_APP_ALARM, of `places' that are the switch's or free.
ScheduleAlarm(n, a, places) ==
    IF Pending(n) < places THEN [n EXCEPT !.alarms[a] = @ + 1] ELSE n

Expire(n, a) == [n EXCEPT !.alarms[a] = @ - 1]

\* bdb_start_top_level_commissioning: refused while commissioning runs.
Commission(n, mode) == IF n.bdb \in {"off", "idle"} THEN [n EXCEPT !.bdb = mode] ELSE n

start_network_steering(n) == Commission(n, "steering")

\* The interval doubles until it would pass its maximum.
BackOff(attempts) == IF 2^attempts > RejoinIntervalMax THEN attempts ELSE attempts + 1

\* That an alarm could not be set is only logged: the attempt counts as in progress.
rejoin_the_network(n, places) ==
    CASE ~n.initialised \/ ~n.started -> n
      [] n.initialised /\ n.started /\ n.stopRequested ->
            [n EXCEPT !.started = FALSE, !.stopRequested = FALSE]
      [] n.initialised /\ n.started /\ ~n.stopRequested /\ n.inProgress -> n
      [] OTHER -> [ScheduleAlarm(n, "steering", places) EXCEPT
                      !.attempts = BackOff(@), !.inProgress = TRUE]

MayStart(n) == ~n.joined /\ n.initialised /\ ~n.waitForUser

\* Logged only, too: the procedure then runs without its timeout.
start_network_rejoin(n, places) ==
    CASE ~MayStart(n) -> n
      [] MayStart(n) /\ n.started -> [n EXCEPT !.inProgress = FALSE]
      [] OTHER -> [ScheduleAlarm(n, "stop", places) EXCEPT
                      !.started = TRUE, !.stopRequested = FALSE, !.inProgress = FALSE,
                      !.attempts = 0, !.startScheduled = FALSE]

stop_network_rejoinSilent(n, wasScheduled) ==  \* mutant: the timeout does not let the user in
    CASE ~n.started -> n
      [] n.started /\ n.alarms["steering"] > 0 ->
            [Expire(n, "steering") EXCEPT !.started = FALSE, !.stopRequested = FALSE]
      [] OTHER -> [n EXCEPT !.stopRequested = TRUE]

stop_network_rejoin(n, wasScheduled) ==
    LET m == [n EXCEPT !.waitForUser = wasScheduled] IN
    CASE ~n.started -> m
      [] n.started /\ n.alarms["steering"] > 0 ->
            [Expire(m, "steering") EXCEPT !.started = FALSE, !.stopRequested = FALSE]
      [] OTHER -> [m EXCEPT !.stopRequested = TRUE]

\* Runs in the ZBOSS thread after a button asked for it; its own alarm must be set.
start_network_rejoin_ED(n, places) ==
    LET m == start_network_rejoin([n EXCEPT !.waitForUser = FALSE], places)
        Wanted == ~n.joined /\ n.waitForUser
    IN  CASE ~Wanted -> [n EXCEPT !.startScheduled = FALSE]
          [] Wanted /\ Pending(m) < places ->
                [ScheduleAlarm(m, "rejoin", places) EXCEPT !.startScheduled = FALSE]
          [] OTHER -> [m EXCEPT !.fault = TRUE]

----------------------------------------------------------------------------
(* The signals, zigbee_default_signal_handler.                             *)

SkipStartup(n) == Commission([n EXCEPT !.initialised = TRUE], "init")

FirstStart(n, ok, places) == IF ok THEN start_network_rejoin(n, places) ELSE n

Reboot(n, ok, places) ==
    IF ok THEN stop_network_rejoin(n, FALSE) ELSE start_network_rejoin(n, places)

Steering(n, ok, places) ==
    IF ok THEN stop_network_rejoin(n, FALSE) ELSE start_network_rejoin(n, places)

Leave(n, ok, places) == IF ok THEN start_network_rejoin(n, places) ELSE n

zigbee_default_signal_handler(n, s, places) ==
    rejoin_the_network(
        CASE s.sig = "SKIP_STARTUP" -> SkipStartup(n)
          [] s.sig = "FIRST_START" -> FirstStart(n, s.ok, places)
          [] s.sig = "REBOOT" -> Reboot(n, s.ok, places)
          [] s.sig = "STEERING" -> Steering(n, s.ok, places)
          [] s.sig = "LEAVE" -> Leave(n, s.ok, places)
          [] OTHER -> n,
        places)

zigbee_led_status_update(n, s) ==
    CASE s.sig \in {"REBOOT", "STEERING"} -> [n EXCEPT !.led = s.ok]
      [] s.sig = "LEAVE" -> [n EXCEPT !.led = FALSE]
      [] OTHER -> n

\* The procedure begins anew with its timeout, or without.
Begun(kn, n, m) ==
    IF n.started \/ ~m.started THEN kn
    ELSE IF m.alarms["stop"] > n.alarms["stop"] THEN {} ELSE {"no timeout"}

zboss_signal_handler(places) ==
    /\ signals # <<>> /\ Runs
    /\ LET s == Head(signals) IN
          /\ node' = zigbee_default_signal_handler(zigbee_led_status_update(node, s), s, places)
          /\ known' = IF s.sig = "FIRST_START" /\ ~s.ok
                        THEN known \cup {"first start failed"} ELSE Begun(known, node, node')
    /\ signals' = Tail(signals)

----------------------------------------------------------------------------
(* Alarms, the callback of the ZBOSS thread and the button.                *)

SteeringAlarm ==
    /\ node.alarms["steering"] > 0 /\ Runs
    /\ node' = start_network_steering(Expire(node, "steering"))
    /\ UNCHANGED <<signals, known>>

\* The timeout of a procedure is not cancelled when the procedure ends.
StopAlarm ==
    /\ node.alarms["stop"] > 0 /\ Runs
    /\ node' = stop_network_rejoin(Expire(node, "stop"), TRUE)
    /\ UNCHANGED <<signals, known>>

RejoinAlarm(places) ==
    /\ node.alarms["rejoin"] > 0 /\ Runs
    /\ node' = rejoin_the_network(Expire(node, "rejoin"), places)
    /\ UNCHANGED <<signals, known>>

StartCallback(places) ==
    /\ node.callbacks > 0 /\ Runs
    /\ node' = start_network_rejoin_ED([node EXCEPT !.callbacks = @ - 1], places)
    /\ known' = IF node.started /\ node.stopRequested /\ node.waitForUser /\ ~node.joined
                  THEN known \cup {"late button"} ELSE Begun(known, node, node')
    /\ UNCHANGED signals

\* Called by the button interrupt; that the callback is queued is asserted.
user_input_indicate(queued) ==
    /\ node.waitForUser /\ ~node.startScheduled /\ Runs
    /\ queued => node.callbacks < MaxCallbacks
    /\ node' = IF queued THEN [node EXCEPT !.callbacks = @ + 1, !.startScheduled = TRUE]
                         ELSE [node EXCEPT !.fault = TRUE]
    /\ UNCHANGED <<signals, known>>

----------------------------------------------------------------------------
(* ZBOSS and the network.                                                  *)

Room == Len(signals) < MaxSignals /\ Runs

Queue(s, ok) == signals' = Append(signals, [sig |-> s, ok |-> ok])

\* BDB initialisation ends: a fresh device, or one with a network in NVRAM.
BdbInitialised ==
    /\ node.bdb = "init" /\ Room
    /\ \E s \in {"FIRST_START", "REBOOT"}, ok \in BOOLEAN :
          /\ node' = [node EXCEPT !.bdb = "idle", !.joined = (s = "REBOOT" /\ ok)]
          /\ Queue(s, ok)
    /\ UNCHANGED known

\* Steering of a device that is in the network only reopens it.
SteeringEnds ==
    /\ node.bdb = "steering" /\ Room
    /\ \E ok \in BOOLEAN :
          /\ node.joined => ok
          /\ node' = [node EXCEPT !.bdb = "idle", !.joined = ok]
          /\ Queue("STEERING", ok)
    /\ UNCHANGED known

\* The network is left, or leaving it fails.
LeaveNetwork ==
    /\ node.joined /\ node.bdb = "idle" /\ Room
    /\ \E ok \in BOOLEAN :
          /\ node' = [node EXCEPT !.joined = ~ok]
          /\ Queue("LEAVE", ok)
    /\ UNCHANGED known

\* Signals the sample only logs; the rejoin procedure is looked at all the same.
Report ==
    /\ node.bdb \notin {"off", "init"} /\ signals = <<>> /\ Room
    /\ \E s \in Reports \cup Unhandled : Queue(s, TRUE)
    /\ UNCHANGED <<node, known>>

Thread ==
    \/ SteeringAlarm \/ StopAlarm
    \/ \E places \in Places :
          zboss_signal_handler(places) \/ RejoinAlarm(places) \/ StartCallback(places)

Network == BdbInitialised \/ SteeringEnds \/ LeaveNetwork \/ Report

Halted == node.fault /\ UNCHANGED vars

Next == Thread \/ Network \/ Halted \/ \E queued \in BOOLEAN : user_input_indicate(queued)

Spec == Init /\ [][Next]_vars

----------------------------------------------------------------------------
(* Properties.                                                             *)

\* Nothing that would run by itself is pending.
Quiet == node.bdb = "idle" /\ signals = <<>> /\ node.callbacks = 0
         /\ \A a \in Alarms : node.alarms[a] = 0

\* Out of the network, nothing pending, and a button press would do nothing.
Stuck == Quiet /\ ~node.joined /\ ~node.waitForUser /\ Runs

\* A switch out of the network is trying to join or lets a button start it, as the
\* comment in stop_network_rejoin says, once it has begun with a timeout.
NeverStuck == Stuck => known \cap {"no timeout", "first start failed"} # {}

\* An attempt that could not be scheduled is no reason to be stuck, because the timeout
\* lets the user in.  The reasons are: the very first start failed; the procedure began
\* when there was no place for the timeout either; or a button was pressed between the
\* timeout and the end of the attempt that was running: start_network_rejoin finds the
\* procedure started, does not withdraw the stop request, and the request then ends what
\* the button wanted to begin.
StuckOnlyBy == Stuck => known # {}

=============================================================================
