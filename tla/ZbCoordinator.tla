---------------------------- MODULE ZbCoordinator ----------------------------
(***************************************************************************)
(* The coordinator sample (samples/zigbee/coordinator/main.c): forming the *)
(* network, opening it for devices to join, showing that on a LED, moving  *)
(* to another PAN ID on a conflict, and identifying.                       *)
(*                                                                         *)
(* The ZBOSS thread runs signal handlers, callbacks and alarms; the button *)
(* handler runs in the GPIO interrupt and calls ZBOSS from there, so the   *)
(* one handler that cancels and then schedules the same alarm is two steps.*)
(***************************************************************************)
EXTENDS Naturals, SequencesExt, ZbIdentify

CONSTANTS MaxSignals,  \* bound: signals waiting for the handler
          MaxTimers,   \* places of the alarm table left to the LED alarm
          MaxBuffers,  \* bound: buffers held by PAN ID changes
          MaxToggles   \* bound: what identify mode may have scheduled

VARIABLES stack,      \* what ZBOSS knows: network, commissioning, joining period
          timers,     \* LED alarms and ends of the joining period, all equally long
          retries,    \* alarms that start the formation again
          signals,    \* the application signals ZBOSS has queued
          led,        \* ZIGBEE_NETWORK_STATE_LED
          extending,  \* the handler has cancelled the LED alarm and will set it again
          panid,      \* buffers of PAN ID changes: being prepared, and held for ever
          identify,   \* identify mode
          known       \* history: which of the known mishaps has happened

vars == <<stack, timers, retries, signals, led, extending, panid, identify, known>>

\* Signals that are only logged.
Reports == {"LEAVE_INDICATION", "CAN_SLEEP", "DEVICE_UPDATE"}
Authorized == {"DEVICE_AUTHORIZED"}
Unhandled == {"F_B_TARGET_FINISHED"}

Signal == [sig : {"PRODUCTION_CONFIG_READY", "SKIP_STARTUP", "FIRST_START", "REBOOT",
                  "STEERING", "FORMATION", "LEAVE", "DEVICE_ANNCE", "PANID_CONFLICT"}
                 \cup Reports \cup Authorized \cup Unhandled,
           ok : BOOLEAN]

TypeOK ==
    /\ stack \in [joined : BOOLEAN, initialised : BOOLEAN, open : BOOLEAN,
                  bdb : {"off", "init", "idle", "formation", "steering"}]
    /\ timers \in Seq({"finish", "close"})
    /\ retries \in Nat
    /\ signals \in Seq(Signal)
    /\ {led, extending} \subseteq BOOLEAN
    /\ panid \in [preparing : Nat, kept : Nat]
    /\ identify \in Identify
    /\ known \subseteq {"start failed", "refused", "no retry", "twice", "unshown"}

Init ==
    /\ stack = [joined |-> FALSE, initialised |-> FALSE, open |-> FALSE, bdb |-> "off"]
    /\ timers = <<>>
    /\ retries = 0
    /\ signals = <<[sig |-> "PRODUCTION_CONFIG_READY", ok |-> FALSE],
                   [sig |-> "SKIP_STARTUP", ok |-> TRUE]>>
    /\ led = FALSE
    /\ extending = FALSE
    /\ panid = [preparing |-> 0, kept |-> 0]
    /\ identify = NotIdentifying
    /\ known = {}

----------------------------------------------------------------------------
(* ZBOSS calls                                                             *)

\* bdb_start_top_level_commissioning: refused while commissioning runs.
Accepts(s) == s.bdb \in {"off", "idle"}

Commission(s, mode) == IF Accepts(s) THEN [s EXCEPT !.bdb = mode] ELSE s

\* ZB_SCHEDULE_APP_ALARM_CANCEL with ZB_ALARM_ANY_PARAM: one alarm.
CancelFinish(ts) == RemoveFirst(ts, "finish")

\* ZB_SCHEDULE_APP_ALARM: that the table is full is only logged.
SetFinish(ts, full) == IF full THEN ts ELSE Append(ts, "finish")

MayBe(full) == Len(timers) >= MaxTimers => full

\* What that does to the history: the alarm is missing, or set beside another, or alone.
Shown(kn, ts, full) ==
    CASE full -> kn \cup {"unshown"}
      [] ~full /\ Contains(ts, "finish") -> (kn \ {"unshown"}) \cup {"twice"}
      [] OTHER -> kn \ {"unshown", "twice"}

Lit(s, ts) == s.joined /\ Contains(ts, "finish")

\* The network closes before its period is over: of its ends at most one is pending.
ForgetClose(ts) == RemoveFirst(ts, "close")

----------------------------------------------------------------------------
(* The signals, zigbee_default_signal_handler                              *)

SkipStartup(s) == Commission([s EXCEPT !.initialised = TRUE], "init")

FirstStart(s, ok) == IF ok THEN Commission(s, "formation") ELSE s

Formation(s, ok) == IF ok THEN Commission(s, "steering") ELSE s

Leave(s, ok) == IF ok THEN Commission(s, "formation") ELSE s

\* A copy of the buffer goes to change_panid; without a buffer the conflict is skipped.
PanIdConflict(got) == panid' = [panid EXCEPT !.preparing = IF got THEN @ + 1 ELSE @]

\* The stack state after the default handler; the coordinator never rejoins.
zigbee_default_signal_handler(s, sig, ok) ==
    CASE sig = "SKIP_STARTUP" -> SkipStartup(s)
      [] sig = "FIRST_START" -> FirstStart(s, ok)
      [] sig = "FORMATION" -> Formation(s, ok)
      [] sig = "LEAVE" -> Leave(s, ok)
      [] OTHER -> s

\* REBOOT is the sample's own case: reopen the network.
OwnReboot(s, ok) == IF ok THEN Commission(s, "steering") ELSE s

\* STEERING too: the alarm that will show the end of the joining period.
OwnSteering(ts, ok, full) == IF ok THEN SetFinish(ts, full) ELSE ts

\* Formation that failed is tried again a second later.
Retry(n, full) == IF full THEN n ELSE n + 1

\* Formation that is wanted and refused, or whose retry finds no place, is not wanted again.
Mishaps(s, h, full) ==
    (IF h.sig \in {"FIRST_START", "REBOOT"} /\ ~h.ok THEN {"start failed"} ELSE {})
    \cup (IF h.sig \in {"FIRST_START", "LEAVE"} /\ h.ok /\ ~Accepts(s) THEN {"refused"} ELSE {})
    \cup (IF h.sig = "FORMATION" /\ ~h.ok /\ full THEN {"no retry"} ELSE {})

zboss_signal_handler(h, full) ==
    /\ stack' = IF h.sig = "REBOOT" THEN OwnReboot(stack, h.ok)
                                    ELSE zigbee_default_signal_handler(stack, h.sig, h.ok)
    /\ timers' = IF h.sig = "STEERING" THEN OwnSteering(timers, h.ok, full) ELSE timers
    /\ retries' = IF h.sig = "FORMATION" /\ ~h.ok THEN Retry(retries, full) ELSE retries
    /\ IF h.sig = "PANID_CONFLICT" THEN \E got \in BOOLEAN : PanIdConflict(got) ELSE UNCHANGED panid
    /\ known' = Mishaps(stack, h, full)
                  \cup IF h.sig = "STEERING" /\ h.ok THEN Shown(known, timers, full) ELSE known
    /\ led' = Lit(stack', timers')
    /\ signals' = Tail(signals)
    /\ UNCHANGED <<extending, identify>>

Handle ==
    /\ signals # <<>> /\ ~extending
    /\ Head(signals).sig # "DEVICE_ANNCE"
    /\ \E full \in BOOLEAN : MayBe(full) /\ zboss_signal_handler(Head(signals), full)

\* DEVICE_ANNCE, first step: cancel the alarm; without one there is nothing to extend.
DeviceAnnce ==
    /\ signals # <<>> /\ ~extending
    /\ Head(signals).sig = "DEVICE_ANNCE"
    /\ timers' = CancelFinish(timers)
    /\ IF Contains(timers, "finish")
         THEN extending' = TRUE /\ UNCHANGED <<signals, led>>
         ELSE /\ signals' = Tail(signals) /\ led' = Lit(stack, timers)
              /\ UNCHANGED extending
    /\ UNCHANGED <<stack, retries, panid, identify, known>>

ExtendPeriodForgets(full) ==  \* mutant: the cancelled alarm is not set again
    /\ extending
    /\ extending' = FALSE
    /\ signals' = Tail(signals)
    /\ led' = Lit(stack, timers)
    /\ UNCHANGED <<stack, timers, retries, panid, identify, known>>

\* Second step: schedule it anew.
ExtendPeriod(full) ==
    /\ extending /\ MayBe(full)
    /\ extending' = FALSE
    /\ timers' = SetFinish(timers, full)
    /\ signals' = Tail(signals)
    /\ led' = Lit(stack, timers')
    /\ known' = Shown(known, timers, full)
    /\ UNCHANGED <<stack, retries, panid, identify>>

----------------------------------------------------------------------------
(* Alarms, callbacks and buttons                                           *)

steering_finished ==
    /\ ~extending /\ timers # <<>> /\ Head(timers) = "finish"
    /\ timers' = Tail(timers)
    /\ led' = FALSE
    /\ UNCHANGED <<stack, retries, signals, extending, panid, identify, known>>

FormationAlarm ==
    /\ ~extending /\ retries > 0
    /\ retries' = retries - 1
    /\ stack' = Commission(stack, "formation")
    /\ known' = IF Accepts(stack) THEN known ELSE known \cup {"refused"}
    /\ UNCHANGED <<timers, signals, led, extending, panid, identify>>

change_panid_cb(errors, started) ==
    /\ ~extending /\ panid.preparing > 0
    /\ panid' = [preparing |-> panid.preparing - 1,
                 kept |-> IF ~errors /\ started THEN panid.kept ELSE panid.kept + 1]
    /\ UNCHANGED <<stack, timers, retries, signals, led, extending, identify, known>>

\* change_panid, when the preparation cannot even begin.
ChangeRefused == change_panid_cb(TRUE, FALSE)

\* In the interrupt, whatever the thread is doing.
ReopenButton ==
    /\ stack.bdb # "off"
    /\ timers' = CancelFinish(timers)
    /\ stack' = Commission(stack, "steering")
    /\ UNCHANGED <<retries, signals, led, extending, panid, identify, known>>

IdentifyButton(full) ==
    /\ Load(identify) >= MaxToggles => full
    /\ identify' = Schedule(identify, "start_identifying", full)
    /\ UNCHANGED <<stack, timers, retries, signals, led, extending, panid, known>>

IdentifyCallback(full) ==
    /\ IsNext(identify, "start_identifying") /\ ~extending
    /\ identify' = start_identifying(Taken(identify), stack.joined, full)
    /\ UNCHANGED <<stack, timers, retries, signals, led, extending, panid, known>>

\* By its timeout or a command of the network.
IdentifyEnds ==
    /\ identify.on /\ ~extending
    /\ identify' = End(identify)
    /\ UNCHANGED <<stack, timers, retries, signals, led, extending, panid, known>>

Toggle(queue, full) ==
    /\ MayToggle(identify, queue) /\ ~extending
    /\ identify' = toggle_identify_led(identify, queue, full)
    /\ UNCHANGED <<stack, timers, retries, signals, led, extending, panid, known>>

Identifying(full) ==
    \/ IdentifyButton(full) \/ IdentifyCallback(full)
    \/ \E queue \in BOOLEAN : Toggle(queue, full)

----------------------------------------------------------------------------
(* ZBOSS and the network                                                   *)

Room == Len(signals) < MaxSignals /\ ~extending

Queue(s, ok) == signals' = Append(signals, [sig |-> s, ok |-> ok])

BdbInitialised ==
    /\ stack.bdb = "init" /\ Room
    /\ \E s \in {"FIRST_START", "REBOOT"}, ok \in BOOLEAN :
          /\ stack' = [stack EXCEPT !.bdb = "idle", !.joined = (s = "REBOOT" /\ ok)]
          /\ Queue(s, ok)
    /\ UNCHANGED <<timers, retries, led, extending, panid, identify, known>>

FormationEnds ==
    /\ stack.bdb = "formation" /\ Room
    /\ \E ok \in BOOLEAN :
          /\ stack' = [stack EXCEPT !.bdb = "idle", !.joined = ok]
          /\ Queue("FORMATION", ok)
    /\ UNCHANGED <<timers, retries, led, extending, panid, identify, known>>

\* Steering opens the network for the joining period, anew if it was open.
SteeringEnds ==
    /\ stack.bdb = "steering" /\ Room
    /\ IF stack.joined
         THEN /\ stack' = [stack EXCEPT !.bdb = "idle", !.open = TRUE]
              /\ timers' = Append(ForgetClose(timers), "close")
         ELSE stack' = [stack EXCEPT !.bdb = "idle"] /\ UNCHANGED timers
    /\ Queue("STEERING", stack.joined)
    /\ UNCHANGED <<retries, led, extending, panid, identify, known>>

PeriodEnds ==
    /\ ~extending /\ timers # <<>> /\ Head(timers) = "close"
    /\ timers' = Tail(timers)
    /\ stack' = [stack EXCEPT !.open = FALSE]
    /\ UNCHANGED <<retries, signals, led, extending, panid, identify, known>>

LeaveNetwork ==
    /\ stack.joined /\ Room
    /\ stack' = [stack EXCEPT !.joined = FALSE, !.open = FALSE]
    /\ timers' = ForgetClose(timers)
    /\ Queue("LEAVE", TRUE)
    /\ UNCHANGED <<retries, led, extending, panid, identify, known>>

\* A device joins, a conflict is seen, or a signal that is only logged.
Report ==
    /\ stack.joined /\ signals = <<>> /\ Room
    /\ \E s \in {"DEVICE_ANNCE", "PANID_CONFLICT"} \cup Reports \cup Authorized \cup Unhandled :
          /\ s = "PANID_CONFLICT" => panid.preparing + panid.kept < MaxBuffers
          /\ Queue(s, TRUE)
    /\ UNCHANGED <<stack, timers, retries, led, extending, panid, identify, known>>

Signals == Handle \/ DeviceAnnce \/ \E full \in BOOLEAN : ExtendPeriod(full)

Stack == BdbInitialised \/ FormationEnds \/ SteeringEnds

Next ==
    \/ Signals \/ FormationAlarm \/ Stack
    \/ steering_finished \/ ReopenButton
    \/ \E e, s \in BOOLEAN : change_panid_cb(e, s)
    \/ ChangeRefused
    \/ IdentifyEnds \/ \E full \in BOOLEAN : Identifying(full)
    \/ PeriodEnds \/ LeaveNetwork \/ Report

\* The ZBOSS thread handles its signals, alarms expire, commissioning that started ends.
\* Each alarm is held up by the handler of DEVICE_ANNCE for a moment, again and again.
Fairness ==
    /\ WF_vars(Signals) /\ WF_vars(Stack)
    /\ SF_vars(FormationAlarm) /\ SF_vars(steering_finished) /\ SF_vars(PeriodEnds)

Spec == Init /\ [][Next]_vars /\ Fairness

----------------------------------------------------------------------------
(* Properties                                                              *)

Settled == signals = <<>> /\ stack.bdb = "idle"

\* While the network is open its LED is lit, as long as there is a place for its alarm.
LitUnlessFull == stack.open /\ Settled /\ "unshown" \notin known => led

\* What besides a full table leaves it dark: two alarms to put it out were set at once.
LitWhileOpen == "twice" \in known \/ LitUnlessFull

GivenUp == known \cap {"start failed", "refused", "no retry"} # {}

\* The same in time: it gets to forming a network.
EventuallyForms ==
    (stack.initialised /\ ~stack.joined) ~>
        (stack.joined \/ stack.bdb = "formation" \/ GivenUp)

\* The identify LED stops blinking with identify mode.
CoordinatorBlink == BlinksOnlyWhileOn(identify)

=============================================================================
