---------------------------- MODULE BleAdvertiser ----------------------------
(***************************************************************************)
(* The advertising samples (samples/bluetooth): ble_adv only broadcasts,   *)
(* ble_peripheral accepts a connection, ble_pair also secures it.  All     *)
(* they do runs in the host task, one event of NimBLE after the other.     *)
(***************************************************************************)
CONSTANT Bails    \* can NimBLE refuse to advertise while it is synced

VARIABLES
    sample,    \* which of the images this is
    stack,     \* NimBLE: is it synced, advertising, connected
    fault,     \* an assert has failed
    gaveUp,    \* the last advertise bailed out while NimBLE was synced
    conn_handle,
    pairing    \* "none", "going on", "asked" an action of ours, "done"

vars == <<sample, stack, fault, gaveUp, conn_handle, pairing>>

Samples == {"ble_adv", "ble_peripheral", "ble_pair"}
Actions == {"NONE", "OOB", "INPUT", "DISP", "NUMCMP", "OOB_SC"}

TypeOK ==
    /\ sample \in Samples
    /\ stack \in [synced : BOOLEAN, advertising : BOOLEAN, link : BOOLEAN]
    /\ fault \in BOOLEAN /\ gaveUp \in BOOLEAN
    /\ conn_handle \in {"zero", "none", "link"}
    /\ pairing \in {"none", "going on", "asked", "done"}

Init ==
    /\ sample \in Samples
    /\ stack = [synced |-> FALSE, advertising |-> FALSE, link |-> FALSE]
    /\ fault = FALSE /\ gaveUp = FALSE /\ conn_handle = "zero" /\ pairing = "none"

Runs == ~fault

\* NimBLE's answer to a request to advertise in the state s: it refuses while it
\* is not synced, is content when it does so already.
Started(s) == {t \in {s, [s EXCEPT !.advertising = TRUE]} :
                  /\ t.advertising => s.synced
                  /\ s.synced /\ ~Bails => t.advertising}

\* advertise of ble_peripheral and ble_pair: it bails out when NimBLE refuses.
advertise(s) ==
    /\ stack' \in Started(s)
    /\ gaveUp' = (stack'.synced /\ ~stack'.advertising)
    /\ UNCHANGED fault

\* advertise of ble_adv: asserts that NimBLE does not refuse.
broadcast(s) ==
    /\ stack' \in Started(s)
    /\ fault' = ~stack'.advertising
    /\ UNCHANGED gaveUp

-------------------------------------------------------------------------------
\* ble_peripheral and ble_pair

\* BLE_GAP_EVENT_CONNECT: the status is asserted.
PeripheralConnect(established) ==
    /\ sample = "ble_peripheral"
    /\ IF established THEN conn_handle' = "link" /\ UNCHANGED fault
       ELSE fault' = TRUE /\ UNCHANGED conn_handle
    /\ UNCHANGED pairing

\* ble_pair asks for security at once; the request may be refused.
PairConnect(established) ==
    /\ sample = "ble_pair"
    /\ IF established
       THEN conn_handle' = "link" /\ pairing' \in {"none", "going on"} /\ UNCHANGED fault
       ELSE fault' = TRUE /\ UNCHANGED <<conn_handle, pairing>>

Connect(established) ==
    /\ stack.advertising /\ Runs /\ sample # "ble_adv"
    /\ stack' = [stack EXCEPT !.advertising = FALSE, !.link = established]
    /\ PeripheralConnect(established) \/ PairConnect(established)
    /\ UNCHANGED <<sample, gaveUp>>

\* BLE_GAP_EVENT_ADV_COMPLETE: both advertise again, ble_adv only logs.
AdvComplete(s) ==
    IF sample = "ble_adv" THEN stack' = s /\ UNCHANGED <<gaveUp, fault>> ELSE advertise(s)

PeripheralDisconnectOnly(s) ==  \* mutant: nothing follows the end of the link
    conn_handle' = "none" /\ stack' = s /\ UNCHANGED <<gaveUp, fault>>

\* BLE_GAP_EVENT_DISCONNECT, while NimBLE is in the state s.
PeripheralDisconnect(s) == conn_handle' = "none" /\ advertise(s)

Disconnect ==
    /\ stack.link /\ Runs
    /\ PeripheralDisconnect([stack EXCEPT !.link = FALSE])
    /\ pairing' = "none"
    /\ UNCHANGED sample

AdvEnds ==
    /\ stack.advertising /\ Runs
    /\ AdvComplete([stack EXCEPT !.advertising = FALSE])
    /\ UNCHANGED <<sample, conn_handle, pairing>>

\* BLE_GAP_EVENT_PASSKEY_ACTION of ble_pair: three actions are answered, the
\* others only logged, and ble_sm_inject_io may refuse the answer.
Passkey(action) ==
    /\ sample = "ble_pair" /\ pairing = "going on" /\ stack.link /\ Runs
    /\ \/ action \in {"NONE", "DISP", "NUMCMP"} /\ UNCHANGED pairing
       \/ pairing' = "asked"
    /\ UNCHANGED <<sample, stack, fault, gaveUp, conn_handle>>

\* BLE_GAP_EVENT_ENC_CHANGE and PAIRING_COMPLETE change nothing of the sample;
\* a procedure nobody answers is ended by NimBLE, and the link with it.
PairingEnds ==
    /\ pairing = "going on" /\ Runs /\ pairing' = "done"
    /\ UNCHANGED <<sample, stack, fault, gaveUp, conn_handle>>

-------------------------------------------------------------------------------
\* The host

\* on_sync: an address is made up and set, both asserted, then advertise.
on_sync ==
    /\ ~stack.synced /\ Runs
    /\ LET up == [stack EXCEPT !.synced = TRUE]
       IN  \/ IF sample = "ble_adv" THEN broadcast(up) ELSE advertise(up)
           \/ fault' = TRUE /\ UNCHANGED <<stack, gaveUp>>
    /\ UNCHANGED <<sample, conn_handle, pairing>>

\* The host loses the controller: advertising and link are ended, told to the
\* sample one by one before on_reset, which only logs.
Reset ==
    /\ stack.synced /\ Runs
    /\ LET down == [synced |-> FALSE, advertising |-> FALSE, link |-> FALSE]
       IN  IF stack.link THEN PeripheralDisconnect(down) /\ pairing' = "none"
           ELSE /\ IF stack.advertising THEN AdvComplete(down)
                   ELSE stack' = down /\ UNCHANGED <<gaveUp, fault>>
                /\ UNCHANGED <<conn_handle, pairing>>
    /\ UNCHANGED sample

\* ble_host_task: the name is set or an assert fails, before the first sync.
ble_host_task ==
    /\ conn_handle = "zero" /\ ~stack.synced /\ Runs
    /\ fault' = TRUE
    /\ UNCHANGED <<sample, stack, gaveUp, conn_handle, pairing>>

Halted == fault /\ UNCHANGED vars

Next ==
    \/ ble_host_task \/ on_sync \/ Reset \/ Disconnect \/ AdvEnds \/ PairingEnds \/ Halted
    \/ \E established \in BOOLEAN : Connect(established)
    \/ \E action \in Actions : Passkey(action)

Spec == Init /\ [][Next]_vars

-------------------------------------------------------------------------------
\* A sample that is up and accepts connections can be found or is connected,
\* unless NimBLE refused to advertise.
Reachable ==
    stack.synced /\ Runs /\ sample # "ble_adv" => stack.advertising \/ stack.link \/ gaveUp

===============================================================================
