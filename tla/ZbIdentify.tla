------------------------------ MODULE ZbIdentify ------------------------------
(***************************************************************************)
(* Identify mode of a Zigbee sample, written the same way in all three:    *)
(* start_identifying (a button), identify_cb (the notification of the      *)
(* stack) and toggle_identify_led, which schedules itself every 100 ms.    *)
(* The operators work on a record: on, whether the endpoint identifies;    *)
(* queue, the sample's calls in the callback queue of ZBOSS, in order;     *)
(* alarms, the toggles in its alarm table; overtaken, whether an end of    *)
(* identify mode has overtaken a toggle still in the queue.                *)
(* Nobody looks whether scheduling fails: `full' says that it does.        *)
(***************************************************************************)
EXTENDS Naturals, Sequences

Callbacks == {"start_identifying", "toggle_identify_led"}

Identify == [on : BOOLEAN, queue : Seq(Callbacks), alarms : Nat, overtaken : BOOLEAN]

NotIdentifying == [on |-> FALSE, queue |-> <<>>, alarms |-> 0, overtaken |-> FALSE]

\* ZB_SCHEDULE_APP_CALLBACK
Schedule(i, callback, full) ==
    IF full THEN i ELSE [i EXCEPT !.queue = Append(@, callback)]

\* The callback f is the next one the ZBOSS thread runs.
IsNext(i, f) == i.queue # <<>> /\ Head(i.queue) = f

Taken(i) == [i EXCEPT !.queue = Tail(@)]

Toggling(i) == \E k \in 1..Len(i.queue) : i.queue[k] = "toggle_identify_led"

\* identify_cb with a buffer.
identify_cb_start(i, full) == Schedule(i, "toggle_identify_led", full)

identify_cb_stopKeep(i) ==  \* mutant: the alarm of the toggle is not cancelled
    [i EXCEPT !.overtaken = @ \/ Toggling(i)]

\* identify_cb without one: cancels one alarm of the toggle.
identify_cb_stop(i) ==
    [i EXCEPT !.alarms = IF @ > 0 THEN @ - 1 ELSE @, !.overtaken = @ \/ Toggling(i)]

\* The stack starts and ends identify mode and notifies.
Begin(i, full) == identify_cb_start([i EXCEPT !.on = TRUE], full)
End(i) == identify_cb_stop([i EXCEPT !.on = FALSE])

\* The button: into identify mode, or out of it; only inside a network.
start_identifying(i, joined, full) ==
    CASE ~joined -> i
      [] joined /\ ~i.on -> Begin(i, full)
      [] OTHER -> End(i)

\* The toggle, from the callback queue or from its alarm, arms the next alarm.
toggle_identify_led(i, queue, full) ==
    LET j == IF queue THEN Taken(i) ELSE [i EXCEPT !.alarms = @ - 1]
    IN  [j EXCEPT !.alarms = IF full THEN @ ELSE @ + 1]

MayToggle(i, queue) == IF queue THEN IsNext(i, "toggle_identify_led") ELSE i.alarms > 0

\* What is scheduled of identify mode.
Load(i) == Len(i.queue) + i.alarms

\* An endpoint that does not identify does not blink, unless the end was overtaking.
BlinksOnlyWhileOn(i) == ~i.on /\ ~i.overtaken => ~Toggling(i) /\ i.alarms = 0

===============================================================================
