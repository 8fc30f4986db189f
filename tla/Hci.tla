--------------------------------- MODULE Hci ---------------------------------
(***************************************************************************)
(* The HCI transport between the NimBLE host and the SoftDevice Controller *)
(* (lib/modules/bluetooth/hci.c).                                          *)
(*                                                                         *)
(* Four actors.  The host task (priority 2) brings the link layer up,      *)
(* sends commands and data down, and consumes events.  The controller      *)
(* queues messages and raises SWI03; the interrupt notifies mpsl_lp_task   *)
(* (priority 3), which drains the messages in sdc_callback_.  The task     *)
(* preempts the host anywhere outside a critical section; the host never   *)
(* preempts the task.                                                      *)
(***************************************************************************)
EXTENDS HciCommands, Naturals, Sequences, FiniteSets

CONSTANTS
    Commands,        \* the commands the host may send
    Reserved,        \* event buffers no report may take (BLE_TRANSPORT_EVT_COUNT)
    Discardable,     \* event buffers for reports (BLE_TRANSPORT_EVT_DISCARDABLE_COUNT)
    MaxMessages      \* bound: messages waiting in the controller

VARIABLES
    phase,     \* how far ble_transport_ll_init has come
    inbox,     \* the messages sdc_hci_get will return
    swi,       \* SWI03 is pending
    notified,  \* the notification value of mpsl_lp_task is not zero
    lp,        \* mpsl_lp_task: "none" before it exists, "waiting", "draining"
    cut,       \* the last drain ended by a return inside its loop
    held,      \* held[pool][use]: event buffers the host has not freed
    starved,   \* what took the last buffer an event did not get
    host,      \* what the host task is in the middle of
    answer     \* the last command and the event it was answered with

vars == <<phase, inbox, swi, notified, lp, cut, held, starved, host, answer>>

Kinds == {"event", "report", "acl", "iso", "none"}
Pools == {"reserved", "discardable"}
Uses == {"event", "report"}
Idle == [at |-> "idle", cmd |-> "none"]
Complete == [event |-> "complete", length |-> "set"]

\* The steps of ble_transport_ll_init, each of them behind an assert.
Steps == <<"grtc", "lock", "task", "mpsl", "sdc", "enable", "nop", "up">>

TypeOK ==
    /\ phase \in {Steps[i] : i \in DOMAIN Steps} \cup {"fault"}
    /\ inbox \in Seq(Kinds) /\ Len(inbox) <= MaxMessages
    /\ swi \in BOOLEAN /\ notified \in BOOLEAN /\ cut \in BOOLEAN
    /\ lp \in {"none", "waiting", "draining"}
    /\ held \in [Pools -> [Uses -> Nat]]
    /\ starved \in SUBSET Uses
    /\ host \in [at : {"idle", "command", "iso"}, cmd : Commands \cup {"none"}]
    /\ answer \in [cmd : Commands \cup {"none"}, event : {"complete", "status"},
                   length : {"set", "stale"}, called : BOOLEAN]

Init ==
    /\ phase = "grtc" /\ inbox = <<>> /\ swi = FALSE /\ notified = FALSE
    /\ lp = "none" /\ cut = FALSE
    /\ held = [p \in Pools |-> [u \in Uses |-> 0]]
    /\ starved = {} /\ host = Idle
    /\ answer = [cmd |-> "none", event |-> "complete", length |-> "set", called |-> FALSE]

-------------------------------------------------------------------------------
\* The event buffers of the transport

Taken(pool) == held[pool]["event"] + held[pool]["report"]
Size(pool) == IF pool = "reserved" THEN Reserved ELSE Discardable
Free(pool) == Taken(pool) < Size(pool)

\* ble_transport_alloc_evt: the pool the buffer comes from, none when it is NULL;
\* a request that is not discardable may fall back to the discardable pool.
ble_transport_alloc_evt(discardable) ==
    IF ~discardable /\ Free("reserved") THEN {"reserved"}
    ELSE IF Free("discardable") THEN {"discardable"} ELSE {}

Hold(pool, use) == held' = [held EXCEPT ![pool][use] = @ + 1]

IsDiscardableNever(msg) == FALSE  \* mutant: reports may use any buffer

\* A message that is not a report uses the reserved pool.
IsDiscardable(msg) == msg = "report"

-------------------------------------------------------------------------------
\* The host task

\* mpsl_lp_task has nothing to do, so the host runs.
HostRuns == lp # "draining" /\ ~notified /\ phase # "fault"

After(step) == Steps[(CHOOSE i \in DOMAIN Steps : Steps[i] = step) + 1]

\* ble_transport_ll_init up to sdc_enable: a failed call halts in an assert.
BringUp ==
    /\ HostRuns
    /\ phase \in {"grtc", "lock", "task", "mpsl", "sdc", "enable"}
    /\ phase' \in {After(phase), "fault"}
    /\ lp' = IF phase = "task" /\ phase' # "fault" THEN "waiting" ELSE lp
    /\ UNCHANGED <<inbox, swi, notified, cut, held, starved, host, answer>>

\* The event that tells the host the controller is there.
PostNop ==
    /\ HostRuns /\ phase = "nop"
    /\ IF ble_transport_alloc_evt(FALSE) = {}
       THEN phase' = "fault" /\ UNCHANGED held
       ELSE /\ phase' = "up"
            /\ \E pool \in ble_transport_alloc_evt(FALSE) : Hold(pool, "event")
    /\ UNCHANGED <<inbox, swi, notified, lp, cut, starved, host, answer>>

\* ble_transport_to_ll_cmd_impl enters the controller's function for the command.
Command(cmd) ==
    /\ HostRuns /\ phase = "up" /\ host = Idle
    /\ host' = [at |-> "command", cmd |-> cmd]
    /\ UNCHANGED <<phase, inbox, swi, notified, lp, cut, held, starved, answer>>

\* The event the command's own buffer is turned into.  A command no case sets a
\* length for is answered with the length its opcode left in the buffer, plus 4.
AnswerTo(cmd) ==
    [cmd |-> cmd,
     event |-> IF KindOf(cmd) = "status" THEN "status" ELSE "complete",
     length |-> IF KindOf(cmd) = "unlisted" THEN "stale" ELSE "set",
     called |-> KindOf(cmd) \in {"plain", "returns", "status"}]

ble_transport_to_ll_cmd_impl ==
    /\ HostRuns /\ host.at = "command"
    /\ answer' = AnswerTo(host.cmd)
    /\ host' = Idle
    /\ UNCHANGED <<phase, inbox, swi, notified, lp, cut, held, starved>>

\* ble_transport_to_ll_iso_impl copies the chain and calls the controller; the
\* allocation of the copy is asserted.
Iso ==
    /\ HostRuns /\ phase = "up" /\ host = Idle /\ "ISO" \in Options
    /\ \/ host' = [at |-> "iso", cmd |-> "none"] /\ UNCHANGED phase
       \/ phase' = "fault" /\ UNCHANGED host
    /\ UNCHANGED <<inbox, swi, notified, lp, cut, held, starved, answer>>

ble_transport_to_ll_iso_impl ==
    /\ HostRuns /\ host.at = "iso"
    /\ host' = Idle
    /\ UNCHANGED <<phase, inbox, swi, notified, lp, cut, held, starved, answer>>

\* ble_transport_to_ll_acl_impl copies the chain too, and calls the controller in
\* a critical section: no other step falls into the call.  Without memory for the
\* copy an assert halts.
ble_transport_to_ll_acl_impl ==
    /\ HostRuns /\ phase = "up" /\ host = Idle
    /\ phase' \in {"up", "fault"}
    /\ UNCHANGED <<inbox, swi, notified, lp, cut, held, starved, host, answer>>

\* The host handles an event and frees its buffer.
HostFrees ==
    /\ HostRuns /\ phase = "up" /\ host = Idle
    /\ \E pool \in Pools, use \in Uses :
          /\ held[pool][use] > 0
          /\ held' = [held EXCEPT ![pool][use] = @ - 1]
    /\ UNCHANGED <<phase, inbox, swi, notified, lp, cut, starved, host, answer>>

-------------------------------------------------------------------------------
\* The controller, its interrupt and the task that serves it

\* A message for the host, once sdc_enable has been given the callback.  The
\* controller's low priority work is requested in the same stroke.
Controller(msg) ==
    /\ phase \in {"nop", "up"} /\ Len(inbox) < MaxMessages
    /\ msg = "iso" => "ISO" \in Options
    /\ inbox' = Append(inbox, msg) /\ swi' = TRUE
    /\ UNCHANGED <<phase, notified, lp, cut, held, starved, host, answer>>

\* MPSL has low priority work of its own as soon as it is initialised.
MpslWork ==
    /\ phase \in {"sdc", "enable"} /\ swi' = TRUE
    /\ UNCHANGED <<phase, inbox, notified, lp, cut, held, starved, host, answer>>

SWI03_IRQHandler ==
    /\ swi /\ phase # "fault"
    /\ swi' = FALSE /\ notified' = TRUE
    /\ UNCHANGED <<phase, inbox, lp, cut, held, starved, host, answer>>

\* ulTaskNotifyTake clears the value; the mutex is free, nobody else takes it.
mpsl_lp_task ==
    /\ lp = "waiting" /\ notified /\ phase # "fault"
    /\ notified' = FALSE /\ lp' = "draining" /\ cut' = FALSE
    /\ UNCHANGED <<phase, inbox, swi, held, starved, host, answer>>

\* An event or a report: copied to a buffer and given to the host, freed when
\* the host refuses it, lost when there is no buffer.
DrainEvent ==
    /\ Head(inbox) \in Uses
    /\ LET use == Head(inbox)
           pools == ble_transport_alloc_evt(IsDiscardable(use))
       IN  IF pools = {}
           THEN /\ starved' = IF use = "event" THEN {u \in Uses : held["reserved"][u] > 0} ELSE starved
                /\ UNCHANGED held
           ELSE \/ (\E pool \in pools : Hold(pool, use)) /\ UNCHANGED starved
                \/ UNCHANGED <<held, starved>>
    /\ UNCHANGED <<phase, lp, cut>>

\* No message: a NOP is made up, and the loop is left though more may wait.
DrainNone ==
    /\ Head(inbox) = "none"
    /\ LET pools == ble_transport_alloc_evt(FALSE)
       IN  IF pools = {} THEN UNCHANGED <<held, lp, cut>>
           ELSE /\ \/ \E pool \in pools : Hold(pool, "event")
                   \/ UNCHANGED held
                /\ lp' = "waiting" /\ cut' = TRUE
    /\ UNCHANGED <<phase, starved>>

\* Data: given to the host in a chain, or no chain could be filled, which halts
\* for ACL and leaves the loop for ISO.
DrainData ==
    /\ Head(inbox) \in {"acl", "iso"}
    /\ \/ UNCHANGED <<phase, lp, cut>>
       \/ Head(inbox) = "acl" /\ phase' = "fault" /\ UNCHANGED <<lp, cut>>
       \/ Head(inbox) = "iso" /\ lp' = "waiting" /\ cut' = TRUE /\ UNCHANGED phase
    /\ UNCHANGED <<held, starved>>

\* One turn of the loop of sdc_callback_.
sdc_callback_ ==
    /\ lp = "draining" /\ phase # "fault" /\ inbox # <<>>
    /\ inbox' = Tail(inbox)
    /\ DrainEvent \/ DrainNone \/ DrainData
    /\ UNCHANGED <<swi, notified, host, answer>>

DrainedEarly ==  \* mutant: the loop may end before the messages do
    /\ lp = "draining" /\ phase # "fault"
    /\ lp' = "waiting"
    /\ UNCHANGED <<phase, inbox, swi, notified, cut, held, starved, host, answer>>

Drained ==
    /\ lp = "draining" /\ phase # "fault" /\ inbox = <<>>
    /\ lp' = "waiting"
    /\ UNCHANGED <<phase, inbox, swi, notified, cut, held, starved, host, answer>>

\* An assert has failed: the processor stays where it is.
Halted == phase = "fault" /\ UNCHANGED vars

HostTask ==
    \/ BringUp \/ PostNop \/ HostFrees \/ Iso
    \/ (\E cmd \in Commands : Command(cmd))
    \/ ble_transport_to_ll_cmd_impl \/ ble_transport_to_ll_iso_impl
    \/ ble_transport_to_ll_acl_impl

LowPriority == mpsl_lp_task \/ sdc_callback_ \/ Drained

Next ==
    \/ HostTask \/ LowPriority \/ SWI03_IRQHandler \/ MpslWork \/ Halted
    \/ \E msg \in Kinds : Controller(msg)

\* The interrupt is taken, and the task of the highest priority of the image runs.
Fairness == WF_vars(SWI03_IRQHandler) /\ WF_vars(LowPriority)

Spec == Init /\ [][Next]_vars
FairSpec == Spec /\ Fairness

-------------------------------------------------------------------------------
\* An event is only ever lost to other events: a flood of advertising reports
\* cannot take the buffers kept for it (the comment in sdc_callback_).
ReportsNeverStarve == "report" \notin starved

\* Every event a command is answered with has a length of its own, and not the
\* rest of the opcode, as the comment on ble_transport_to_ll_cmd_impl promises
\* of commands that are not supported too.
AnswersWhole == answer.length = "set"

\* A notification that comes while the task drains is not lost: when messages
\* are waiting the task drains them again, unless its last drain left them by
\* a return in the loop, or an assert has failed.
NoMessageForgotten ==
    inbox # <<>> /\ lp = "waiting" ~> lp = "draining" \/ cut \/ phase = "fault"

===============================================================================
