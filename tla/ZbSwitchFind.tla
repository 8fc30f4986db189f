----------------------------- MODULE ZbSwitchFind -----------------------------
(***************************************************************************)
(* The application part of the light switch sample: finding a bulb,        *)
(* commanding it and identifying.  Joining is ZbLightSwitch; of it only    *)
(* the signals REBOOT and STEERING with status OK, and LEAVE, matter here. *)
(*                                                                         *)
(* The ZBOSS thread runs the signal handler, find_light_bulb, its callback *)
(* and the sending of commands; the timer task runs find_light_bulb_alarm; *)
(* the GPIO interrupt runs the button handler.                             *)
(***************************************************************************)
EXTENDS Naturals, ZbIdentify

CONSTANTS Bulbs,     \* short addresses of the bulbs in the network
          NoBulb,    \* 0xFFFF, which is also the broadcast address
          Commands,  \* the on/off commands a button can send
          MaxFinds,  \* bound: searches waiting for a buffer or outstanding
          MaxToggles \* bound: what identify mode may have scheduled

VARIABLES joined,    \* ZB_JOINED
          find,      \* bulb_ctx, its timer and the searches under way
          sends,     \* commands that wait for a buffer
          dropped,   \* history: a search was given up for want of a buffer
          identify   \* identify mode

vars == <<joined, find, sends, dropped, identify>>

TypeOK ==
    /\ joined \in BOOLEAN /\ dropped \in BOOLEAN
    /\ find \in [addr : Bulbs \cup {NoBulb}, timer : BOOLEAN, wanted : Nat, requests : Nat]
    /\ sends \subseteq Commands
    /\ identify \in Identify

Init ==
    /\ joined = FALSE
    /\ find = [addr |-> NoBulb, timer |-> FALSE, wanted |-> 0, requests |-> 0]
    /\ sends = {}
    /\ dropped = FALSE
    /\ identify = NotIdentifying

----------------------------------------------------------------------------
(* zboss_signal_handler                                                    *)

\* REBOOT or STEERING with status OK: look for a bulb unless one is known.
JoinedSignal ==
    /\ joined' = TRUE
    /\ find' = [find EXCEPT !.timer = @ \/ find.addr = NoBulb]
    /\ UNCHANGED <<sends, dropped, identify>>

\* LEAVE: the bulb is forgotten when the leave resets the device.
LeaveSignal(reset) ==
    /\ joined' = FALSE
    /\ find' = IF reset THEN [find EXCEPT !.addr = NoBulb] ELSE find
    /\ UNCHANGED <<sends, dropped, identify>>

----------------------------------------------------------------------------
(* Finding a bulb                                                          *)

\* The one-shot timer expires in the timer task, which asks ZBOSS for a buffer.
find_light_bulb_alarm(granted) ==
    /\ find.timer
    /\ granted => find.wanted < MaxFinds
    /\ find' = [find EXCEPT !.timer = FALSE, !.wanted = IF granted THEN @ + 1 ELSE @]
    /\ dropped' = (dropped \/ ~granted)
    /\ UNCHANGED <<joined, sends, identify>>

\* ZBOSS has a buffer; the address is reset before the request is sent or fails.
find_light_bulb(sent) ==
    /\ find.wanted > 0
    /\ sent => find.requests < MaxFinds
    /\ find' = [find EXCEPT !.addr = NoBulb, !.wanted = @ - 1,
                            !.requests = IF sent THEN @ + 1 ELSE @]
    /\ dropped' = (dropped \/ ~sent)
    /\ UNCHANGED <<joined, sends, identify>>

\* A response, NoBulb standing for one without a match; the last one is the timeout.
find_light_bulb_cb(match, last) ==
    /\ find.requests > 0
    /\ find' = [find EXCEPT
          !.addr     = IF @ = NoBulb THEN match ELSE @,
          !.timer    = IF find.addr = NoBulb THEN match = NoBulb ELSE @,
          !.requests = IF last THEN @ - 1 ELSE @]
    /\ UNCHANGED <<joined, sends, dropped, identify>>

----------------------------------------------------------------------------
(* The buttons and identify mode                                           *)

\* Without a bulb every button is ignored.  The release of ON or OFF asks ZBOSS for a
\* buffer; long_poll is never set, so a long press sends the same command.
CommandButton(cmd) ==
    /\ find.addr # NoBulb
    /\ sends' = sends \cup {cmd}
    /\ UNCHANGED <<joined, find, dropped, identify>>

IdentifyButton(full) ==
    /\ find.addr # NoBulb /\ (Load(identify) >= MaxToggles => full)
    /\ identify' = Schedule(identify, "start_identifying", full)
    /\ UNCHANGED <<joined, find, sends, dropped>>

\* ZBOSS has a buffer: the command goes to the address of this moment.
light_switch_send_on_off(cmd) ==
    /\ cmd \in sends
    /\ sends' = sends \ {cmd}
    /\ UNCHANGED <<joined, find, dropped, identify>>

IdentifyCallback(full) ==
    /\ IsNext(identify, "start_identifying")
    /\ identify' = start_identifying(Taken(identify), joined, full)
    /\ UNCHANGED <<joined, find, sends, dropped>>

\* Identify mode starts by a command of the network and ends by one or by its timeout.
IdentifyCommand(full) ==
    /\ \/ /\ joined /\ ~identify.on /\ (Load(identify) >= MaxToggles => full)
          /\ identify' = Begin(identify, full)
       \/ identify.on /\ identify' = End(identify)
    /\ UNCHANGED <<joined, find, sends, dropped>>

Toggle(queue, full) ==
    /\ MayToggle(identify, queue)
    /\ identify' = toggle_identify_led(identify, queue, full)
    /\ UNCHANGED <<joined, find, sends, dropped>>

Identifying(full) ==
    \/ IdentifyButton(full) \/ IdentifyCallback(full) \/ IdentifyCommand(full)
    \/ \E queue \in BOOLEAN : Toggle(queue, full)

Next ==
    \/ JoinedSignal
    \/ \E reset \in BOOLEAN : LeaveSignal(reset)
    \/ \E ok \in BOOLEAN : find_light_bulb_alarm(ok) \/ find_light_bulb(ok)
    \/ \E b \in Bulbs : find_light_bulb_cb(b, FALSE)
    \/ \E last \in BOOLEAN : find_light_bulb_cb(NoBulb, last)
    \/ \E c \in Commands : CommandButton(c) \/ light_switch_send_on_off(c)
    \/ \E full \in BOOLEAN : Identifying(full)

Spec == Init /\ [][Next]_vars

----------------------------------------------------------------------------
(* Properties                                                              *)

\* A joined switch that knows no bulb is looking for one, unless ZBOSS had no buffer or
\* could not send the request: nothing retries after that.
SearchGoesOn ==
    joined /\ find.addr = NoBulb /\ ~dropped =>
        find.timer \/ find.wanted > 0 \/ find.requests > 0

\* The identify LED stops blinking with identify mode.
SwitchBlink == BlinksOnlyWhileOn(identify)

===============================================================================
