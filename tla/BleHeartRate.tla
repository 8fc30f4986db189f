----------------------------- MODULE BleHeartRate -----------------------------
(***************************************************************************)
(* The heart rate sensor sample (samples/bluetooth/ble_hrs/main.c): a      *)
(* peripheral that advertises, accepts one connection, and sends a beat    *)
(* each second while the peer is subscribed.                               *)
(*                                                                         *)
(* Everything runs in the host task, from the events of NimBLE's default   *)
(* queue; the timer expires in the timer task of the kernel, which only    *)
(* puts an event there.  NimBLE itself is external: what the sample relies *)
(* on is that a link that breaks first ends the subscription (SUBSCRIBE    *)
(* with cur_notify 0) and then the connection (DISCONNECT), in one turn.   *)
(***************************************************************************)
VARIABLES
    stack,     \* NimBLE: is it synced, advertising, connected
    fault,     \* an assert has failed
    gaveUp,    \* the last blehr_advertise ended with an error while synced
    conn_handle,
    notify_state,
    timer      \* blehr_tx_timer: "off", "armed", its event "queued", or "both"

vars == <<stack, fault, gaveUp, conn_handle, notify_state, timer>>

Timers == {"off", "armed", "queued", "both"}

TypeOK ==
    /\ stack \in [synced : BOOLEAN, advertising : BOOLEAN, link : BOOLEAN]
    /\ fault \in BOOLEAN /\ gaveUp \in BOOLEAN /\ notify_state \in BOOLEAN
    /\ conn_handle \in {"zero", "none", "link"}
    /\ timer \in Timers

Init ==
    /\ stack = [synced |-> FALSE, advertising |-> FALSE, link |-> FALSE]
    /\ fault = FALSE /\ gaveUp = FALSE /\ notify_state = FALSE
    /\ conn_handle = "zero" /\ timer = "off"

\* ble_host_task: the callback is set and the services are added before the
\* event loop runs; a failure there is an assert, and nothing starts.
ble_host_task ==
    /\ ~stack.synced /\ ~fault
    /\ fault' = TRUE
    /\ UNCHANGED <<stack, gaveUp, conn_handle, notify_state, timer>>

\* blehr_advertise in the state s of NimBLE: started, or bailed out of with a
\* message; when NimBLE is not synced, or advertises already, it is refused.
Advertised(s) ==
    IF ~s.synced \/ s.advertising \/ s.link THEN {s}
    ELSE {s, [s EXCEPT !.advertising = TRUE]}

blehr_advertise(s) ==
    /\ stack' \in Advertised(s)
    /\ gaveUp' = (stack'.synced /\ ~stack'.advertising /\ ~stack'.link)

\* blehr_tx_hrate_reset: the timer runs from now, whether it ran or not; an
\* event that is already queued stays.
blehr_tx_hrate_reset == timer' = IF timer \in {"queued", "both"} THEN "both" ELSE "armed"

-------------------------------------------------------------------------------
\* The events of the host

\* The addresses are there or an assert fails.
blehr_on_sync ==
    /\ ~stack.synced /\ ~fault
    /\ \/ blehr_advertise([stack EXCEPT !.synced = TRUE]) /\ UNCHANGED fault
       \/ fault' = TRUE /\ UNCHANGED <<stack, gaveUp>>
    /\ UNCHANGED <<conn_handle, notify_state, timer>>

\* BLE_GAP_EVENT_CONNECT, with its status.
Connect(established) ==
    /\ stack.advertising /\ ~fault
    /\ IF established
       THEN /\ stack' = [stack EXCEPT !.advertising = FALSE, !.link = TRUE]
            /\ conn_handle' = "link"
            /\ UNCHANGED gaveUp
       ELSE /\ blehr_advertise([stack EXCEPT !.advertising = FALSE])
            /\ conn_handle' = "zero"
    /\ UNCHANGED <<fault, notify_state, timer>>

\* BLE_GAP_EVENT_ADV_COMPLETE
AdvComplete ==
    /\ stack.advertising /\ ~fault
    /\ blehr_advertise([stack EXCEPT !.advertising = FALSE])
    /\ UNCHANGED <<fault, conn_handle, notify_state, timer>>

\* BLE_GAP_EVENT_SUBSCRIBE: either way the timer runs, so the beat sees the change.
Subscribe(cur_notify) ==
    /\ stack.link /\ notify_state # cur_notify /\ ~fault
    /\ notify_state' = cur_notify
    /\ blehr_tx_hrate_reset
    /\ UNCHANGED <<stack, fault, gaveUp, conn_handle>>

\* The end of a link: the subscription first, then BLE_GAP_EVENT_DISCONNECT,
\* while NimBLE is in the state s.
Broken(s) ==
    /\ notify_state' = FALSE
    /\ IF notify_state THEN blehr_tx_hrate_reset ELSE UNCHANGED timer
    /\ conn_handle' = "none"
    /\ blehr_advertise([s EXCEPT !.link = FALSE])

Disconnect == stack.link /\ ~fault /\ Broken(stack) /\ UNCHANGED fault

\* The host loses the controller: what was going on is ended one by one, each
\* end told to the sample while the host cannot advertise, until the next sync.
Reset ==
    /\ stack.synced /\ ~fault
    /\ LET down == [stack EXCEPT !.synced = FALSE, !.advertising = FALSE]
       IN  IF stack.link THEN Broken(down)
           ELSE blehr_advertise(down) /\ UNCHANGED <<conn_handle, notify_state, timer>>
    /\ UNCHANGED fault

-------------------------------------------------------------------------------
\* The beat

Expire ==
    /\ timer \in {"armed", "both"} /\ ~fault
    /\ timer' = "queued"
    /\ UNCHANGED <<stack, fault, gaveUp, conn_handle, notify_state>>

blehr_tx_hrateOnce ==  \* mutant: the timer is not started again
    /\ timer \in {"queued", "both"} /\ ~fault
    /\ timer' = IF timer = "both" THEN "armed" ELSE "off"
    /\ UNCHANGED <<stack, fault, gaveUp, conn_handle, notify_state>>

\* blehr_tx_hrate takes the event off the queue.  A notification that cannot be
\* sent, or not be allocated, halts in an assert.
blehr_tx_hrate ==
    /\ timer \in {"queued", "both"} /\ ~fault
    /\ IF notify_state
       THEN /\ timer' = "armed"
            /\ fault' \in {~stack.link \/ conn_handle # "link", TRUE}
       ELSE timer' = "off" /\ UNCHANGED fault
    /\ UNCHANGED <<stack, gaveUp, conn_handle, notify_state>>

Halted == fault /\ UNCHANGED vars

GapEvent ==
    \/ \E established \in BOOLEAN : Connect(established)
    \/ AdvComplete \/ Disconnect
    \/ \E cur_notify \in BOOLEAN : Subscribe(cur_notify)

Beat == Expire \/ blehr_tx_hrate

Next == ble_host_task \/ blehr_on_sync \/ GapEvent \/ Reset \/ Beat \/ Halted

Spec == Init /\ [][Next]_vars

-------------------------------------------------------------------------------
\* While a peer is subscribed the next beat is on its way, however the
\* subscription, the expiry and the handling of the last beat interleave.
HeartBeats == notify_state => timer # "off" \/ fault

\* A beat is only sent to the peer that subscribed, over the link it has:
\* otherwise the notification fails and the assert halts the sensor.
SubscriberIsThere == notify_state => stack.link /\ conn_handle = "link"

\* A sensor that is up can be found or is connected, unless NimBLE refused to
\* advertise: every event that ends one of them starts the other.
Reachable == stack.synced => stack.advertising \/ stack.link \/ gaveUp

===============================================================================
