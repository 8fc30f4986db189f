------------------------------ MODULE ZbRadio ------------------------------
(***************************************************************************)
(* The requests of the ZBOSS thread to the 802.15.4 driver other than      *)
(* reception (lib/modules/zigbee/osif/zb_nrf_transceiver.c): transmitting, *)
(* entering receive and sleep, and the energy detection that measures a    *)
(* channel, with the driver callbacks that end them in interrupt context.  *)
(*                                                                         *)
(* The driver is external: it does one thing at a time, may refuse any     *)
(* request, refuses to sleep, transmit or measure while it transmits or    *)
(* measures, and gives up either of the two to enter receive.  A callback  *)
(* is an interrupt: it is never preempted by the thread, and the one for   *)
(* an abandoned operation is served before the thread goes on.             *)
(***************************************************************************)
EXTENDS Naturals

CONSTANT MaxScans  \* bound on the energy detections asked for

ASSUME RadioAssumption == MaxScans \in Nat

VARIABLES
  state,      \* nrf5_data.state
  rssi_wait,  \* the binary semaphore
  value,      \* energy_detection.value: the scan it is of, FALSE for UINT8_MAX
  radio,      \* what the driver does (external)
  measuring,  \* the scan that the driver measures, or measured last
  abandoned,  \* the operation whose end is still to be reported
  pc,         \* where the ZBOSS thread is
  scans,      \* history: calls of zb_trans_start_get_rssi so far
  queries,    \* history: calls of zb_trans_get_rssi that returned
  answer,     \* history: the scan whose value the last of them returned
  refused     \* history: the last request was to transmit, and was refused

edVars == <<rssi_wait, value, measuring>>
history == <<scans, queries, answer>>
vars == <<state, edVars, radio, abandoned, pc, history, refused>>

Init ==
  /\ state = "SLEEP"
  /\ rssi_wait = 1  \* zigbee_nrf_802154_radio_init gives it
  /\ value = [scan |-> 0, measured |-> TRUE]
  /\ radio = "sleep"
  /\ measuring = 0
  /\ abandoned = "none"
  /\ pc = "idle"
  /\ scans = 0
  /\ queries = 0
  /\ answer = 0
  /\ refused = FALSE

Free == radio \in {"sleep", "receive"}
Thread(at) == pc = at /\ abandoned = "none"
-----------------------------------------------------------------------------
(* Energy detection, thread side.                                          *)

StartGetRssi ==
  /\ Thread("idle")
  /\ scans = queries
  /\ scans < MaxScans
  /\ scans' = scans + 1
  /\ pc' = "start"
  /\ UNCHANGED <<state, edVars, radio, abandoned, queries, answer, refused>>

\* zboss_energy_detection_start answers 0.
EdAccepted ==
  /\ Thread("start")
  /\ Free
  /\ radio' = "ed"
  /\ measuring' = scans
  /\ pc' = "idle"
  /\ UNCHANGED <<state, rssi_wait, value, abandoned, history, refused>>

\* It answers -EBUSY: vTaskDelay and once more.
EdRefused ==
  /\ Thread("start")
  /\ pc' = "delay"
  /\ UNCHANGED <<state, edVars, radio, abandoned, history, refused>>

EdRetry ==
  /\ Thread("delay")
  /\ pc' = "start"
  /\ UNCHANGED <<state, edVars, radio, abandoned, history, refused>>

GetRssi ==
  /\ Thread("idle")
  /\ queries < scans
  /\ pc' = "wait"
  /\ UNCHANGED <<state, edVars, radio, abandoned, history, refused>>

GetRssiTake ==
  /\ Thread("wait")
  /\ rssi_wait = 1
  /\ rssi_wait' = 0
  /\ pc' = "read"
  /\ UNCHANGED <<state, value, measuring, radio, abandoned, history, refused>>

GetRssiRead ==
  /\ Thread("read")
  /\ queries' = queries + 1
  /\ answer' = value.scan
  /\ pc' = "idle"
  /\ UNCHANGED <<state, edVars, radio, abandoned, scans, refused>>
-----------------------------------------------------------------------------
(* Energy detection, interrupt side.                                       *)

EnergyDetected ==
  /\ radio = "ed"
  /\ abandoned = "none"
  /\ radio' = "receive"
  /\ value' = [scan |-> measuring, measured |-> TRUE]
  /\ rssi_wait' = 1
  /\ UNCHANGED <<state, measuring, abandoned, pc, history, refused>>

\* energy_detection_failed restarts the detection, from wherever it was.
EdFailed ==
  \/ radio = "ed" /\ abandoned = "none"
  \/ abandoned = "ed"

EdFailedRestart ==
  /\ EdFailed
  /\ radio' = "ed"
  /\ abandoned' = "none"
  /\ UNCHANGED <<state, edVars, pc, history, refused>>

EdFailedSilent ==  \* mutant: nobody is told that the restart failed
  /\ EdFailed
  /\ radio' = "receive"
  /\ abandoned' = "none"
  /\ value' = [scan |-> measuring, measured |-> FALSE]
  /\ UNCHANGED <<state, rssi_wait, measuring, pc, history, refused>>

EdFailedStale ==  \* mutant: the value of an earlier scan stays
  /\ EdFailed
  /\ radio' = "receive"
  /\ abandoned' = "none"
  /\ rssi_wait' = 1
  /\ UNCHANGED <<state, value, measuring, pc, history, refused>>

\* The restart is refused: the value is UINT8_MAX.
EdFailedForGood ==
  /\ EdFailed
  /\ radio' = "receive"
  /\ abandoned' = "none"
  /\ value' = [scan |-> measuring, measured |-> FALSE]
  /\ rssi_wait' = 1
  /\ UNCHANGED <<state, measuring, pc, history, refused>>
-----------------------------------------------------------------------------
(* zb_trans_transmit and how a transmission ends.                          *)

\* The MAC of ZBOSS sends one frame at a time.
Transmit ==
  /\ Thread("idle")
  /\ radio # "transmit"
  /\ state' = "TRANSMIT"
  /\ pc' = "transmit"
  /\ UNCHANGED <<edVars, radio, abandoned, history, refused>>

TransmitAccepted ==
  /\ Thread("transmit")
  /\ Free
  /\ radio' = "transmit"
  /\ refused' = FALSE
  /\ pc' = "idle"
  /\ UNCHANGED <<state, edVars, abandoned, history>>

\* The answer is ZB_FALSE; the state stays.
TransmitRefused ==
  /\ Thread("transmit")
  /\ refused' = TRUE
  /\ pc' = "idle"
  /\ UNCHANGED <<state, edVars, radio, abandoned, history>>

\* The wait type is unknown: the radio is not asked.
TransmitInvalid ==
  /\ Thread("transmit")
  /\ state' = "RECEIVE"
  /\ refused' = TRUE
  /\ pc' = "idle"
  /\ UNCHANGED <<edVars, radio, abandoned, history>>

TransmitEndsForgotten ==  \* mutant: the failure handler forgets the state
  /\ \/ radio = "transmit" /\ abandoned = "none" /\ radio' = "receive"
     \/ abandoned = "transmit" /\ UNCHANGED radio
  /\ abandoned' = "none"
  /\ refused' = FALSE
  /\ UNCHANGED <<state, edVars, pc, history>>

\* transmitted_raw or transmit_failed.
TransmitEnds ==
  /\ \/ radio = "transmit" /\ abandoned = "none" /\ radio' = "receive"
     \/ abandoned = "transmit" /\ UNCHANGED radio
  /\ abandoned' = "none"
  /\ state' = "RECEIVE"
  /\ refused' = FALSE
  /\ UNCHANGED <<edVars, pc, history>>
-----------------------------------------------------------------------------
(* zb_trans_enter_receive and zb_trans_enter_sleep: ask until it works.    *)

EnterReceive ==
  /\ Thread("idle")
  /\ pc' = "enter receive"
  /\ UNCHANGED <<state, edVars, radio, abandoned, history, refused>>

ReceiveAccepted ==
  /\ Thread("enter receive")
  /\ radio' = "receive"
  /\ abandoned' = IF Free THEN "none" ELSE radio
  /\ pc' = "in receive"
  /\ UNCHANGED <<state, edVars, history, refused>>

InReceive ==
  /\ Thread("in receive")
  /\ state' = "RECEIVE"
  /\ refused' = FALSE
  /\ pc' = "idle"
  /\ UNCHANGED <<edVars, radio, abandoned, history>>

EnterSleep ==
  /\ Thread("idle")
  /\ pc' = "enter sleep"
  /\ UNCHANGED <<state, edVars, radio, abandoned, history, refused>>

SleepAccepted ==
  /\ Thread("enter sleep")
  /\ Free
  /\ radio' = "sleep"
  /\ pc' = "in sleep"
  /\ UNCHANGED <<state, edVars, abandoned, history, refused>>

InSleep ==
  /\ Thread("in sleep")
  /\ state' = "SLEEP"
  /\ refused' = FALSE
  /\ pc' = "idle"
  /\ UNCHANGED <<edVars, radio, abandoned, history>>
-----------------------------------------------------------------------------
\* What the thread does once it is inside a call.
Continue ==
  \/ EdRetry \/ GetRssiTake \/ GetRssiRead
  \/ TransmitAccepted \/ TransmitRefused \/ TransmitInvalid
  \/ InReceive \/ InSleep

Interrupt ==
  EnergyDetected \/ EdFailedRestart \/ EdFailedForGood \/ TransmitEnds

Next ==
  \/ StartGetRssi \/ GetRssi \/ Transmit \/ EnterReceive \/ EnterSleep
  \/ EdAccepted \/ EdRefused \/ ReceiveAccepted \/ SleepAccepted
  \/ Continue
  \/ Interrupt

(***************************************************************************)
(* Fairness: the thread goes on, the driver ends what it started and does  *)
(* not restart a detection for ever, and it does not refuse for ever what  *)
(* it could do: the retry loops in the code rest on that.                  *)
(***************************************************************************)
Fairness ==
  /\ WF_vars(Continue)
  /\ WF_vars(Interrupt)
  /\ WF_vars(EnergyDetected)
  /\ SF_vars(EdAccepted)
  /\ SF_vars(ReceiveAccepted)
  /\ SF_vars(SleepAccepted)

Spec == Init /\ [][Next]_vars /\ Fairness
-----------------------------------------------------------------------------
TypeOK ==
  /\ state \in {"SLEEP", "RECEIVE", "TRANSMIT"}
  /\ rssi_wait \in {0, 1}
  /\ value \in [scan : 0..MaxScans, measured : BOOLEAN]
  /\ radio \in {"sleep", "receive", "transmit", "ed"}
  /\ measuring \in 0..MaxScans
  /\ abandoned \in {"none", "transmit", "ed"}
  /\ pc \in {"idle", "start", "delay", "wait", "read", "transmit",
             "enter receive", "in receive", "enter sleep", "in sleep"}
  /\ scans \in 0..MaxScans
  /\ queries \in 0..MaxScans
  /\ answer \in 0..MaxScans
  /\ refused \in BOOLEAN

\* The value that zb_trans_get_rssi returns is that of the scan just started
\* or of the one before it (0: the value set at initialisation), never older.
AtMostOneScanBehind ==
  /\ queries - 1 <= answer /\ answer <= queries
  /\ pc = "read" => value.scan \in {queries, queries + 1}

\* Between calls, zb_trans_is_active and zb_trans_is_receiving tell what the
\* radio does: TRANSMIT while and only while a frame is being sent, and RECEIVE
\* never while it sleeps.  Only a refused transmit request leaves them apart:
\* nothing puts nrf5_data.state back.
StateHonest ==
  pc = "idle" /\ abandoned = "none" /\ ~refused =>
    /\ radio = "transmit" <=> state = "TRANSMIT"
    /\ state = "RECEIVE" => radio # "sleep"

\* Every call of the ZBOSS thread returns: the loops and the wait end.
CallsReturn == pc # "idle" ~> pc = "idle"

\* "Blocking implementation: wait for energy detection to complete": the value
\* returned is that of the detection just started.
GetRssiReturnsThisScan == queries > 0 => answer = queries
=============================================================================
