------------------------------- MODULE BleScan -------------------------------
(***************************************************************************)
(* The scanning sample (samples/bluetooth/ble_scan/main.c): the host task  *)
(* scans in windows and hands each report to a task of lower priority over *)
(* a queue, which prints it.                                               *)
(***************************************************************************)
EXTENDS Naturals

CONSTANT SCAN_Q_DEPTH

VARIABLES
    host,      \* "down", "scanning", or "stopped": synced, and nothing under way
    refused,   \* the last ble_gap_disc was refused; scan does not look
    scan_q,    \* how many reports are in the queue
    printing,  \* the print task is between receiving a report and the next
    dropped,   \* the last report found the queue full
    fault      \* an assert has failed

vars == <<host, refused, scan_q, printing, dropped, fault>>

TypeOK ==
    /\ host \in {"down", "scanning", "stopped"}
    /\ scan_q \in 0..SCAN_Q_DEPTH
    /\ refused \in BOOLEAN /\ printing \in BOOLEAN /\ dropped \in BOOLEAN /\ fault \in BOOLEAN

Init ==
    /\ host = "down" /\ refused = FALSE /\ scan_q = 0
    /\ printing = FALSE /\ dropped = FALSE /\ fault = FALSE

\* scan: the answer of ble_gap_disc is not looked at.
scan(synced) ==
    /\ host' \in IF synced THEN {"scanning", "stopped"} ELSE {"down"}
    /\ refused' = (host' = "stopped")

\* on_sync: the address is asserted to be made up and set, then the first window.
on_sync ==
    /\ host = "down" /\ ~fault
    /\ \/ scan(TRUE) /\ UNCHANGED fault
       \/ fault' = TRUE /\ UNCHANGED <<host, refused>>
    /\ UNCHANGED <<scan_q, printing, dropped>>

\* BLE_GAP_EVENT_DISC with fields that parse; the send does not block.
Report ==
    /\ host = "scanning" /\ ~fault
    /\ dropped' = (scan_q = SCAN_Q_DEPTH)
    /\ scan_q' = IF scan_q = SCAN_Q_DEPTH THEN scan_q ELSE scan_q + 1
    /\ UNCHANGED <<host, refused, printing, fault>>

DiscCompleteOnly(synced) ==  \* mutant: no window follows
    /\ host = "scanning" /\ ~fault
    /\ host' = IF synced THEN "stopped" ELSE "down"
    /\ UNCHANGED <<refused, scan_q, printing, dropped, fault>>

\* BLE_GAP_EVENT_DISC_COMPLETE: the window ended, or the host is resetting.
DiscComplete(synced) ==
    /\ host = "scanning" /\ ~fault
    /\ scan(synced)
    /\ UNCHANGED <<scan_q, printing, dropped, fault>>

\* The host is reset between two windows: no event, and on_reset only logs.
on_reset ==
    /\ host = "stopped" /\ ~fault
    /\ host' = "down" /\ UNCHANGED <<refused, scan_q, printing, dropped, fault>>

\* scan_print_task runs when the host task waits.
Receive ==
    /\ ~printing /\ scan_q > 0 /\ ~fault
    /\ scan_q' = scan_q - 1 /\ printing' = TRUE
    /\ UNCHANGED <<host, refused, dropped, fault>>

Printed ==
    /\ printing /\ ~fault
    /\ printing' = FALSE
    /\ UNCHANGED <<host, refused, scan_q, dropped, fault>>

scan_print_task == Receive \/ Printed

Halted == fault /\ UNCHANGED vars

Next ==
    \/ on_sync \/ Report \/ on_reset \/ scan_print_task \/ Halted
    \/ \E synced \in BOOLEAN : DiscComplete(synced)

\* The print task gets its turn: the host waits for the next report.
Fairness == WF_vars(scan_print_task) /\ WF_vars(on_sync)

Spec == Init /\ [][Next]_vars
FairSpec == Spec /\ Fairness

-------------------------------------------------------------------------------
\* Whatever ended the scan, a window of its own or a reset of the host, another
\* one is begun, unless NimBLE refused a call whose result is not looked at.
ScansAgain == host # "scanning" ~> host = "scanning" \/ refused \/ fault

===============================================================================
