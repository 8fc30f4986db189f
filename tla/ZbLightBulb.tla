----------------------------- MODULE ZbLightBulb -----------------------------
(***************************************************************************)
(* The light bulb sample (samples/zigbee/light_bulb/main.c), compiled as a *)
(* router: joining the network and rejoining it for as long as it takes.   *)
(* Its lamp is ZbBulbLamp.                                                 *)
(*                                                                         *)
(* Everything runs in the ZBOSS thread: one action per signal handler or   *)
(* alarm.  Alarms expire in any order, because joining takes its time.     *)
(***************************************************************************)
EXTENDS Naturals, Sequences

CONSTANTS RejoinIntervalMax, \* REJOIN_INTERVAL_MAX_S
          MaxAlarms,         \* bound: pending alarms
          MaxSignals         \* bound: signals waiting for the handler

ASSUME BulbAssumption ==
    /\ RejoinIntervalMax \in Nat \ {0}
    /\ MaxAlarms \in Nat \ {0} /\ MaxSignals \in Nat \ {0}

VARIABLES router,   \* the rejoin flags, the steering alarms and what ZBOSS knows
          signals,  \* the application signals ZBOSS has queued
          lost      \* history: why the bulb may have given up

vars == <<router, signals, lost>>

\* Signals that are only logged.
Reports == {"LEAVE_INDICATION", "CAN_SLEEP", "DEVICE_UPDATE", "DEVICE_ANNCE"}
Authorized == {"DEVICE_AUTHORIZED"}
Unhandled == {"NO_ACTIVE_LINKS", "F_B_TARGET_FINISHED", "TC_REJOIN_DONE"}

Signal == [sig : {"PRODUCTION_CONFIG_READY", "SKIP_STARTUP", "FIRST_START", "REBOOT",
                  "STEERING", "LEAVE"} \cup Reports \cup Authorized \cup Unhandled,
           ok : BOOLEAN]

\* The counter stops at the first interval above the maximum.
AttemptOK(k) == k = 0 \/ 2^(k - 1) <= RejoinIntervalMax

TypeOK ==
    /\ router \in [joined : BOOLEAN, bdb : {"off", "init", "idle", "steering"},
                   initialised : BOOLEAN, started : BOOLEAN, stopRequested : BOOLEAN,
                   inProgress : BOOLEAN, attempts : Nat, alarms : Nat, led : BOOLEAN]
    /\ AttemptOK(router.attempts)
    /\ signals \in Seq(Signal)
    /\ lost \subseteq {"alarm", "first start"}

Init ==
    /\ router = [joined |-> FALSE, bdb |-> "off", initialised |-> FALSE, started |-> FALSE,
                 stopRequested |-> FALSE, inProgress |-> FALSE, attempts |-> 0,
                 alarms |-> 0, led |-> FALSE]
    /\ signals = <<[sig |-> "PRODUCTION_CONFIG_READY", ok |-> FALSE],
                   [sig |-> "SKIP_STARTUP", ok |-> TRUE]>>
    /\ lost = {}

----------------------------------------------------------------------------
(* The rejoin procedure, as functions on the router.                       *)

\* bdb_start_top_level_commissioning: refused while commissioning runs.
Commission(r, mode) == IF r.bdb \in {"off", "idle"} THEN [r EXCEPT !.bdb = mode] ELSE r

start_network_steering(r) == Commission(r, "steering")

BackOffForever(attempts) == attempts + 1  \* mutant: the interval has no maximum

\* The interval doubles until it would pass its maximum.
BackOff(attempts) == IF 2^attempts <= RejoinIntervalMax THEN attempts + 1 ELSE attempts

\* rejoin_the_network schedules an attempt: no stop is requested and none is in progress.
NextAttempt(r) == r.initialised /\ r.started /\ ~r.stopRequested /\ ~r.inProgress

\* A full alarm table is logged and forgotten: the attempt counts as in progress.
rejoin_the_network(r, full) ==
    CASE ~r.initialised \/ ~r.started -> r
      [] NextAttempt(r) ->
            [r EXCEPT !.attempts = BackOff(@), !.inProgress = TRUE,
                      !.alarms = IF full THEN @ ELSE @ + 1]
      [] r.initialised /\ r.started /\ r.stopRequested ->
            [r EXCEPT !.started = FALSE, !.stopRequested = FALSE]
      [] OTHER -> r

start_network_rejoinBusy(r) ==  \* mutant: the attempt that failed stays in progress
    IF r.joined \/ ~r.initialised \/ r.started THEN r
    ELSE [r EXCEPT !.started = TRUE, !.stopRequested = FALSE, !.inProgress = FALSE, !.attempts = 0]

start_network_rejoin(r) ==
    CASE r.joined \/ ~r.initialised -> r
      [] ~r.joined /\ r.initialised /\ r.started -> [r EXCEPT !.inProgress = FALSE]
      [] OTHER -> [r EXCEPT !.started = TRUE, !.stopRequested = FALSE,
                            !.inProgress = FALSE, !.attempts = 0]

\* Cancels one steering alarm; without any, the next rejoin_the_network stops.
stop_network_rejoin(r) ==
    CASE ~r.started -> r
      [] r.started /\ r.alarms > 0 ->
            [r EXCEPT !.alarms = @ - 1, !.started = FALSE, !.stopRequested = FALSE]
      [] OTHER -> [r EXCEPT !.stopRequested = TRUE]

----------------------------------------------------------------------------
(* The signals, zigbee_default_signal_handler.                             *)

SkipStartup(r) == Commission([r EXCEPT !.initialised = TRUE], "init")

FirstStart(r, ok) == IF ok THEN start_network_rejoin(r) ELSE r

Reboot(r, ok) == IF ok THEN stop_network_rejoin(r) ELSE start_network_rejoin(r)

Steering(r, ok) == IF ok THEN stop_network_rejoin(r) ELSE start_network_rejoin(r)

Leave(r, ok) == IF ok THEN start_network_rejoin(r) ELSE r

SignalCases(r, s) ==
    CASE s.sig = "SKIP_STARTUP" -> SkipStartup(r)
      [] s.sig = "FIRST_START" -> FirstStart(r, s.ok)
      [] s.sig = "REBOOT" -> Reboot(r, s.ok)
      [] s.sig = "STEERING" -> Steering(r, s.ok)
      [] s.sig = "LEAVE" -> Leave(r, s.ok)
      [] OTHER -> r

zigbee_led_status_update(r, s) ==
    CASE s.sig \in {"REBOOT", "STEERING"} -> [r EXCEPT !.led = s.ok]
      [] s.sig = "LEAVE" -> [r EXCEPT !.led = FALSE]
      [] OTHER -> r

zigbee_default_signal_handler(r, s, full) == rejoin_the_network(SignalCases(r, s), full)

zboss_signal_handler(full) ==
    /\ signals # <<>>
    /\ LET s == Head(signals) IN
          /\ router' = zigbee_default_signal_handler(zigbee_led_status_update(router, s), s, full)
          /\ lost' = lost \cup (IF full /\ NextAttempt(SignalCases(router, s)) THEN {"alarm"} ELSE {})
                          \cup (IF s.sig = "FIRST_START" /\ ~s.ok THEN {"first start"} ELSE {})
    /\ signals' = Tail(signals)

SteeringAlarm ==
    /\ router.alarms > 0
    /\ router' = start_network_steering([router EXCEPT !.alarms = @ - 1])
    /\ UNCHANGED <<signals, lost>>

----------------------------------------------------------------------------
(* ZBOSS and the network.                                                  *)

Room == Len(signals) < MaxSignals

AlarmRoom == router.alarms < MaxAlarms

Queue(s, ok) == signals' = Append(signals, [sig |-> s, ok |-> ok])

\* BDB initialisation ends: a fresh device, or one with a network in NVRAM.
BdbInitialised ==
    /\ router.bdb = "init" /\ Room
    /\ \E s \in {"FIRST_START", "REBOOT"}, ok \in BOOLEAN :
          /\ router' = [router EXCEPT !.bdb = "idle", !.joined = (s = "REBOOT" /\ ok)]
          /\ Queue(s, ok)
    /\ UNCHANGED lost

\* Steering of a device that is in the network only reopens it.
SteeringEnds ==
    /\ router.bdb = "steering" /\ Room /\ AlarmRoom
    /\ \E ok \in BOOLEAN :
          /\ router.joined => ok
          /\ router' = [router EXCEPT !.bdb = "idle", !.joined = ok]
          /\ Queue("STEERING", ok)
    /\ UNCHANGED lost

\* The network is left, or leaving it fails.
LeaveNetwork ==
    /\ router.joined /\ router.bdb = "idle" /\ Room /\ AlarmRoom
    /\ \E ok \in BOOLEAN :
          /\ router' = [router EXCEPT !.joined = ~ok]
          /\ Queue("LEAVE", ok)
    /\ UNCHANGED lost

\* A legacy network without link key exchange: LEAVE, and the failed STEERING after it.
KeyExchangeFails ==
    /\ router.bdb = "steering" /\ ~router.joined
    /\ Len(signals) + 2 <= MaxSignals /\ router.alarms + 1 < MaxAlarms
    /\ router' = [router EXCEPT !.bdb = "idle"]
    /\ signals' = Append(Append(signals, [sig |-> "LEAVE", ok |-> TRUE]),
                         [sig |-> "STEERING", ok |-> FALSE])
    /\ UNCHANGED lost

\* Signals the sample only logs; the rejoin procedure is looked at all the same.
Report ==
    /\ router.bdb \notin {"off", "init"} /\ signals = <<>> /\ AlarmRoom
    /\ \E s \in Reports \cup Authorized \cup Unhandled : Queue(s, TRUE)
    /\ UNCHANGED <<router, lost>>

Handle == \E full \in BOOLEAN : zboss_signal_handler(full)

Network == BdbInitialised \/ SteeringEnds \/ KeyExchangeFails

Next == Handle \/ SteeringAlarm \/ Network \/ LeaveNetwork \/ Report

\* The ZBOSS thread runs, and the stack ends each commissioning it starts.
Fairness == WF_vars(Handle) /\ WF_vars(SteeringAlarm) /\ WF_vars(Network)

Spec == Init /\ [][Next]_vars /\ Fairness

----------------------------------------------------------------------------
(* Properties.                                                             *)

\* A bulb that is out of the network with nothing going on has an attempt scheduled,
\* unless the alarm table was full or its very first start failed.
BulbKeepsTrying ==
    router.initialised /\ ~router.joined /\ router.bdb = "idle" /\ signals = <<>> =>
        router.alarms > 0 \/ lost # {}

\* A bulb outside a network attempts to join again and again until it is in one.
BulbTriesAgain ==
    (router.initialised /\ ~router.joined) ~>
        (router.joined \/ router.bdb = "steering" \/ lost # {})

=============================================================================
