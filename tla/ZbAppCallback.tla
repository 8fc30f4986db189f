--------------------------- MODULE ZbAppCallback ---------------------------
(***************************************************************************)
(* The path by which an application task gets a call executed in the ZBOSS *)
(* thread (lib/modules/zigbee/osif/zb_nrf_platform.c).                     *)
(*                                                                         *)
(*   task --> zb_app_cb_msgq --> zb_app_cb_process --> ZBOSS tables        *)
(*     |                              ^                                    *)
(*     +-> schedule_semaphore -> worker task -> ZBOSS scheduler queue      *)
(*                                                                         *)
(* Every task here runs at priority 3 with time slicing, so each kernel    *)
(* call and each atomic access is a step of its own and any order of the   *)
(* tasks' steps is possible.  The ZBOSS stack is external: a bounded       *)
(* scheduler queue, a bounded alarm table and a bounded list of buffer     *)
(* requests, each of which answers RET_OVERFLOW when it is full.           *)
(***************************************************************************)
EXTENDS Naturals, Sequences, FiniteSets

CONSTANTS
  Tasks,         \* application tasks other than the ZBOSS thread
  Requests,      \* the calls they make, each made at most once
  Process,       \* the scheduler-queue entry that runs zb_app_cb_process
  KindOf,        \* what each request asks of ZBOSS
  CancelTarget,  \* the alarm request a cancel request names
  QueueLength,   \* CONFIG_ZIGBEE_APP_CB_QUEUE_LENGTH
  ZbQueueLength, \* capacity of the ZBOSS scheduler queue
  TableSize,     \* capacity of the ZBOSS alarm table and buffer-request list
  MaxDeinits     \* bound on zigbee_deinit calls

Kinds == {"callback", "alarm", "buffer", "cancel"}

ASSUME RequestAssumption ==
  /\ Process \notin Requests
  /\ KindOf \in [Requests -> Kinds]
  /\ CancelTarget \in [Requests -> Requests]

ASSUME SizeAssumption ==
  /\ QueueLength \in Nat \ {0}
  /\ ZbQueueLength \in Nat \ {0}
  /\ TableSize \in [{"alarm", "buffer"} -> Nat \ {0}]
  /\ MaxDeinits \in Nat

VARIABLES
  zb_app_cb_msgq,               \* the FreeRTOS queue of requests
  schedule_semaphore,           \* binary, wakes the worker
  zb_app_cb_process_scheduled,  \* the atomic flag
  zigbee_event_semaphore,       \* binary, wakes a sleeping ZBOSS thread
  zbq,                          \* ZBOSS scheduler queue (external)
  tables,                       \* pending alarms and buffer requests (external)
  task,                         \* task[t]: "idle" or "give", after xQueueSend
  worker,                       \* where the "zigbee work" task is
  zboss,                        \* where the ZBOSS thread is
  accepted,                     \* history: requests answered RET_OK, in order
  dispatched,                   \* history: requests handed to ZBOSS, in order
  rejected,                     \* history: requests answered RET_OVERFLOW
  direct,                       \* history: calls made inside the ZBOSS thread
  deinits                       \* history: zigbee_deinit calls so far

osVars == <<zb_app_cb_msgq, schedule_semaphore,
            zb_app_cb_process_scheduled, zigbee_event_semaphore>>
stackVars == <<zbq, tables>>
history == <<accepted, dispatched, rejected, direct>>
vars == <<osVars, stackVars, task, worker, zboss, history, deinits>>

Elems(s) == {s[i] : i \in 1..Len(s)}
Made == Elems(accepted) \cup rejected \cup direct

Init ==
  /\ zb_app_cb_msgq = <<>>
  /\ schedule_semaphore = 0
  /\ zb_app_cb_process_scheduled = 0
  /\ zigbee_event_semaphore = 0
  /\ zbq = <<>>
  /\ tables = {}
  /\ task = [t \in Tasks |-> "idle"]
  /\ worker = "take"
  /\ zboss = "down"
  /\ accepted = <<>>
  /\ dispatched = <<>>
  /\ rejected = {}
  /\ direct = {}
  /\ deinits = 0
-----------------------------------------------------------------------------
(* The ZBOSS tables a request ends in.                                     *)

TableFull(k) == Cardinality({r \in tables : KindOf[r] = k}) >= TableSize[k]

\* The ZBOSS call of request r would answer RET_OVERFLOW.  A cancel never does.
Overflows(r) ==
  \/ KindOf[r] = "callback" /\ Len(zbq) >= ZbQueueLength
  \/ KindOf[r] \in {"alarm", "buffer"} /\ TableFull(KindOf[r])

\* The ZBOSS call of request r succeeds.
Hand(r) ==
  \/ /\ KindOf[r] = "callback"
     /\ zbq' = Append(zbq, r)
     /\ UNCHANGED tables
  \/ /\ KindOf[r] \in {"alarm", "buffer"}
     /\ tables' = tables \cup {r}
     /\ UNCHANGED zbq
  \/ /\ KindOf[r] = "cancel"
     /\ tables' = tables \ {CancelTarget[r]}
     /\ UNCHANGED zbq
-----------------------------------------------------------------------------
(* Application tasks: the eight zigbee_schedule_* / zigbee_get_* calls.    *)

\* xQueueSend with no timeout, from outside the ZBOSS thread.
ScheduleSendFront(t, r) ==  \* mutant: the newest request goes first
  /\ task[t] = "idle"
  /\ r \notin Made
  /\ Len(zb_app_cb_msgq) < QueueLength
  /\ zb_app_cb_msgq' = <<r>> \o zb_app_cb_msgq
  /\ accepted' = Append(accepted, r)
  /\ task' = [task EXCEPT ![t] = "give"]
  /\ UNCHANGED <<schedule_semaphore, zb_app_cb_process_scheduled,
                 zigbee_event_semaphore, stackVars, worker, zboss,
                 dispatched, rejected, direct, deinits>>

ScheduleSend(t, r) ==
  /\ task[t] = "idle"
  /\ r \notin Made
  /\ Len(zb_app_cb_msgq) < QueueLength
  /\ zb_app_cb_msgq' = Append(zb_app_cb_msgq, r)
  /\ accepted' = Append(accepted, r)
  /\ task' = [task EXCEPT ![t] = "give"]
  /\ UNCHANGED <<schedule_semaphore, zb_app_cb_process_scheduled,
                 zigbee_event_semaphore, stackVars, worker, zboss,
                 dispatched, rejected, direct, deinits>>

\* The queue is full: the caller is told RET_OVERFLOW.
ScheduleReject(t, r) ==
  /\ task[t] = "idle"
  /\ r \notin Made
  /\ Len(zb_app_cb_msgq) >= QueueLength
  /\ rejected' = rejected \cup {r}
  /\ UNCHANGED <<osVars, stackVars, task, worker, zboss, accepted,
                 dispatched, direct, deinits>>

\* The queue took the request: xSemaphoreGive, then RET_OK.
ScheduleGive(t) ==
  /\ task[t] = "give"
  /\ schedule_semaphore' = 1
  /\ task' = [task EXCEPT ![t] = "idle"]
  /\ UNCHANGED <<zb_app_cb_msgq, zb_app_cb_process_scheduled,
                 zigbee_event_semaphore, stackVars, worker, zboss, history,
                 deinits>>
-----------------------------------------------------------------------------
(* The worker task, zb_app_cb_process_schedule.                            *)

WorkerTake ==
  /\ worker = "take"
  /\ schedule_semaphore = 1
  /\ schedule_semaphore' = 0
  /\ worker' = "peek"
  /\ UNCHANGED <<zb_app_cb_msgq, zb_app_cb_process_scheduled,
                 zigbee_event_semaphore, stackVars, task, zboss, history,
                 deinits>>

WorkerPeek ==
  /\ worker = "peek"
  /\ worker' = IF zb_app_cb_msgq = <<>> THEN "take" ELSE "exchange"
  /\ UNCHANGED <<osVars, stackVars, task, zboss, history, deinits>>

WorkerExchangeBlind ==  \* mutant: schedules whatever the flag said
  /\ worker = "exchange"
  /\ zb_app_cb_process_scheduled' = 1
  /\ worker' = "schedule"
  /\ UNCHANGED <<zb_app_cb_msgq, schedule_semaphore,
                 zigbee_event_semaphore, stackVars, task, zboss, history,
                 deinits>>

WorkerExchangeCount ==  \* mutant: the flag counts instead of being exchanged
  /\ worker = "exchange"
  /\ zb_app_cb_process_scheduled' = zb_app_cb_process_scheduled + 1
  /\ worker' = IF zb_app_cb_process_scheduled = 1 THEN "take" ELSE "schedule"
  /\ UNCHANGED <<zb_app_cb_msgq, schedule_semaphore,
                 zigbee_event_semaphore, stackVars, task, zboss, history,
                 deinits>>

WorkerExchange ==
  /\ worker = "exchange"
  /\ zb_app_cb_process_scheduled' = 1
  /\ worker' = IF zb_app_cb_process_scheduled = 1 THEN "take" ELSE "schedule"
  /\ UNCHANGED <<zb_app_cb_msgq, schedule_semaphore,
                 zigbee_event_semaphore, stackVars, task, zboss, history,
                 deinits>>

\* zb_schedule_app_callback(zb_app_cb_process, 0), retried after a delay.
WorkerSchedule ==
  /\ worker = "schedule"
  /\ IF Len(zbq) < ZbQueueLength
       THEN zbq' = Append(zbq, Process) /\ worker' = "notify"
       ELSE worker' = "delay" /\ UNCHANGED zbq
  /\ UNCHANGED <<osVars, tables, task, zboss, history, deinits>>

WorkerDelay ==
  /\ worker = "delay"
  /\ worker' = "schedule"
  /\ UNCHANGED <<osVars, stackVars, task, zboss, history, deinits>>

WorkerNotifyLost ==  \* mutant: the ZBOSS thread is not notified
  /\ worker = "notify"
  /\ worker' = "take"
  /\ UNCHANGED <<osVars, stackVars, task, zboss, history, deinits>>

WorkerNotify ==
  /\ worker = "notify"
  /\ zigbee_event_semaphore' = 1
  /\ worker' = "take"
  /\ UNCHANGED <<zb_app_cb_msgq, schedule_semaphore,
                 zb_app_cb_process_scheduled, stackVars, task, zboss,
                 history, deinits>>

Worker == \/ WorkerTake \/ WorkerPeek \/ WorkerExchange
          \/ WorkerSchedule \/ WorkerDelay \/ WorkerNotify
-----------------------------------------------------------------------------
(* The ZBOSS thread: the main loop, zb_app_cb_process and event polling.   *)

ZbossEnable ==
  /\ zboss = "down"
  /\ zboss' = "loop"
  /\ UNCHANGED <<osVars, stackVars, task, worker, history, deinits>>

\* The main loop takes the callback of a request and runs it.
ZbossRun ==
  /\ zboss = "loop"
  /\ zbq # <<>>
  /\ Head(zbq) # Process
  /\ zbq' = Tail(zbq)
  /\ UNCHANGED <<osVars, tables, task, worker, zboss, history, deinits>>

\* Code running in the ZBOSS thread calls zigbee_schedule_*: no queue, and the
\* answer of the ZBOSS call is returned (a RET_OVERFLOW changes nothing).
ZbossDirect(r) ==
  /\ zboss = "loop"
  /\ r \notin Made
  /\ ~Overflows(r)
  /\ Hand(r)
  /\ direct' = direct \cup {r}
  /\ UNCHANGED <<osVars, task, worker, zboss, accepted, dispatched, rejected,
                 deinits>>

\* An alarm expires, or a buffer is found for a request; its callback runs.
ZbossServe(r) ==
  /\ zboss = "loop"
  /\ r \in tables
  /\ tables' = tables \ {r}
  /\ UNCHANGED <<osVars, zbq, task, worker, zboss, history, deinits>>

\* The main loop takes the entry that calls zb_app_cb_process.
ZbossEnter ==
  /\ zboss = "loop"
  /\ zbq # <<>>
  /\ Head(zbq) = Process
  /\ zbq' = Tail(zbq)
  /\ zboss' = "clear"
  /\ UNCHANGED <<osVars, tables, task, worker, history, deinits>>

ProcessClearForgotten ==  \* mutant: the flag is never reset
  /\ zboss = "clear"
  /\ zboss' = "drain"
  /\ UNCHANGED <<osVars, stackVars, task, worker, history, deinits>>

ProcessClear ==
  /\ zboss = "clear"
  /\ zb_app_cb_process_scheduled' = 0
  /\ zboss' = "drain"
  /\ UNCHANGED <<zb_app_cb_msgq, schedule_semaphore,
                 zigbee_event_semaphore, stackVars, task, worker, history,
                 deinits>>

\* xQueuePeek, then the ZBOSS call the request asks for.
ProcessDispatch ==
  /\ zboss = "drain"
  /\ zb_app_cb_msgq # <<>>
  /\ LET r == Head(zb_app_cb_msgq) IN
       IF Overflows(r)
         THEN zboss' = "overflow" /\ UNCHANGED <<stackVars, dispatched>>
         ELSE /\ Hand(r)
              /\ dispatched' = Append(dispatched, r)
              /\ zboss' = "flush"
  /\ UNCHANGED <<osVars, task, worker, accepted, rejected, direct, deinits>>

\* xQueueReceive: only now does the request leave the queue.
ProcessFlush ==
  /\ zboss = "flush"
  /\ zb_app_cb_msgq' = Tail(zb_app_cb_msgq)
  /\ zboss' = "drain"
  /\ UNCHANGED <<schedule_semaphore, zb_app_cb_process_scheduled,
                 zigbee_event_semaphore, stackVars, task, worker, history,
                 deinits>>

ProcessDone ==
  /\ zboss = "drain"
  /\ zb_app_cb_msgq = <<>>
  /\ zboss' = "loop"
  /\ UNCHANGED <<osVars, stackVars, task, worker, history, deinits>>

ProcessOverflowSilent ==  \* mutant: the rest of the queue is left for later
  /\ zboss = "overflow"
  /\ zboss' = "loop"
  /\ UNCHANGED <<osVars, stackVars, task, worker, history, deinits>>

ProcessOverflowFlush ==  \* mutant: the refused request is flushed all the same
  /\ zboss = "overflow"
  /\ schedule_semaphore' = 1
  /\ zb_app_cb_msgq' = Tail(zb_app_cb_msgq)
  /\ zboss' = "loop"
  /\ UNCHANGED <<zb_app_cb_process_scheduled, zigbee_event_semaphore,
                 stackVars, task, worker, history, deinits>>

\* Some ZBOSS table was full: ask the worker for another round.
ProcessOverflow ==
  /\ zboss = "overflow"
  /\ schedule_semaphore' = 1
  /\ zboss' = "loop"
  /\ UNCHANGED <<zb_app_cb_msgq, zb_app_cb_process_scheduled,
                 zigbee_event_semaphore, stackVars, task, worker, history,
                 deinits>>

\* Nothing to run: the stack sleeps in zigbee_event_poll.  Its caller in this
\* tree, zb_osif_sleep, needs ZB_USE_SLEEP; a stack that never sleeps has the
\* behaviours without this step.
ZbossPoll ==
  /\ zboss = "loop"
  /\ zbq = <<>>
  /\ zboss' = "poll"
  /\ UNCHANGED <<osVars, stackVars, task, worker, history, deinits>>

ZbossWake ==
  /\ zboss = "poll"
  /\ zigbee_event_semaphore = 1
  /\ zigbee_event_semaphore' = 0
  /\ zboss' = "loop"
  /\ UNCHANGED <<zb_app_cb_msgq, schedule_semaphore,
                 zb_app_cb_process_scheduled, stackVars, task, worker,
                 history, deinits>>

\* Any other notifier: the radio callbacks call zigbee_event_notify too.
RadioNotify ==
  /\ zigbee_event_semaphore' = 1
  /\ UNCHANGED <<zb_app_cb_msgq, schedule_semaphore,
                 zb_app_cb_process_scheduled, stackVars, task, worker,
                 zboss, history, deinits>>

\* zigbee_deinit deletes the ZBOSS thread wherever it is.
Deinit ==
  /\ zboss # "down"
  /\ deinits < MaxDeinits
  /\ deinits' = deinits + 1
  /\ zboss' = "down"
  /\ UNCHANGED <<osVars, stackVars, task, worker, history>>

Zboss == \/ ZbossRun \/ ZbossEnter \/ ProcessClear \/ ProcessDispatch
         \/ ProcessFlush \/ ProcessDone \/ ProcessOverflow
         \/ ZbossPoll \/ ZbossWake
-----------------------------------------------------------------------------
Next ==
  \/ \E t \in Tasks, r \in Requests : ScheduleSend(t, r) \/ ScheduleReject(t, r)
  \/ \E t \in Tasks : ScheduleGive(t)
  \/ Worker
  \/ ZbossEnable
  \/ Zboss
  \/ \E r \in Requests : ZbossDirect(r) \/ ZbossServe(r)
  \/ RadioNotify

Spec == Init /\ [][Next]_vars

\* The ZBOSS thread is also deleted and created again while requests come in.
DeinitSpec == Init /\ [][Next \/ Deinit]_vars

(***************************************************************************)
(* Fairness: FreeRTOS time-slices ready tasks of equal priority, so a task *)
(* that stays ready runs (weak fairness of each task).  zigbee_enable is   *)
(* called by every application.  An alarm expires and a buffer is released *)
(* sooner or later.  Nothing is assumed of the callers or of the radio.    *)
(***************************************************************************)
Fairness ==
  /\ \A t \in Tasks : WF_vars(ScheduleGive(t))
  /\ WF_vars(Worker)
  /\ WF_vars(ZbossEnable)
  /\ WF_vars(Zboss)
  /\ \A r \in Requests : SF_vars(ZbossServe(r))

FairSpec == Spec /\ Fairness
FairDeinitSpec == DeinitSpec /\ Fairness
-----------------------------------------------------------------------------
(* Properties.                                                             *)

\* Every variable stays in its range, and the queues within their capacity.
TypeOK ==
  /\ zb_app_cb_msgq \in Seq(Requests) /\ Len(zb_app_cb_msgq) <= QueueLength
  /\ schedule_semaphore \in {0, 1}
  /\ zb_app_cb_process_scheduled \in {0, 1}
  /\ zigbee_event_semaphore \in {0, 1}
  /\ zbq \in Seq(Requests \cup {Process}) /\ Len(zbq) <= ZbQueueLength
  /\ tables \subseteq Requests
  /\ task \in [Tasks -> {"idle", "give"}]
  /\ worker \in {"take", "peek", "exchange", "schedule", "delay", "notify"}
  /\ zboss \in {"down", "loop", "poll", "clear", "drain", "flush", "overflow"}
  /\ accepted \in Seq(Requests)
  /\ dispatched \in Seq(Requests)
  /\ rejected \subseteq Requests
  /\ direct \subseteq Requests
  /\ deinits \in Nat

\* The worker has claimed the flag and has not yet scheduled the callback.
WorkerClaims == worker \in {"schedule", "delay"}
ProcessQueued == \E i \in 1..Len(zbq) : zbq[i] = Process

\* zb_app_cb_process_scheduled says what its comment says: it is set exactly
\* while one zb_app_cb_process is being scheduled, is queued or has just been
\* entered, and never two of them at a time.
ProcessScheduledOnce ==
  /\ zb_app_cb_process_scheduled = 1 <=>
       WorkerClaims \/ ProcessQueued \/ zboss = "clear"
  /\ WorkerClaims => ~ProcessQueued /\ zboss # "clear"
  /\ ProcessQueued => zboss # "clear"
  /\ \A i, j \in 1..Len(zbq) : zbq[i] = Process /\ zbq[j] = Process => i = j

\* A request in the queue always has somebody on the way to it: its task is
\* about to give the semaphore, the semaphore is given, the worker is between
\* taking it and the flag, the callback is scheduled, or it is draining.
NoLostWakeup ==
  zb_app_cb_msgq # <<>> =>
    \/ \E t \in Tasks : task[t] = "give"
    \/ schedule_semaphore = 1
    \/ worker \in {"peek", "exchange"}
    \/ zb_app_cb_process_scheduled = 1
    \/ zboss \in {"drain", "flush", "overflow"}

\* The requests accepted and not yet handed to ZBOSS.  Between the ZBOSS call
\* and xQueueReceive the head of the queue has been handed over already.
Waiting == IF zboss = "flush" THEN Tail(zb_app_cb_msgq) ELSE zb_app_cb_msgq

\* Requests reach ZBOSS in the order in which their callers were told RET_OK,
\* each once, whatever overflows on the way.
InOrderExactlyOnce == accepted = dispatched \o Waiting

\* The ZBOSS thread never sleeps on an event that will not come while its
\* scheduler queue holds work (zb_osif_sleep: "caused by an empty Zigbee stack
\* scheduler queue").
NoSleepOnWork ==
  zboss = "poll" /\ zbq # <<>> =>
    zigbee_event_semaphore = 1 \/ worker = "notify"

\* Even when the ZBOSS thread is deleted at the worst moment, no accepted
\* request vanishes from both sides, and each deletion repeats at most one.
DeletionLosesNothing ==
  /\ Elems(accepted) = Elems(dispatched) \cup Elems(zb_app_cb_msgq)
  /\ Len(dispatched) + Len(Waiting) <= Len(accepted) + deinits

\* "The user was already informed that the request will be handled": every
\* accepted request is handed to ZBOSS.
AcceptedIsDispatched ==
  \A r \in Requests : r \in Elems(accepted) ~> r \in Elems(dispatched)

\* The same while nobody deletes the ZBOSS thread, of specifications that allow it.
DispatchedIfUndisturbed == [](deinits = 0) => AcceptedIsDispatched

\* The service is a bounded FIFO mailbox that delivers what it accepts.
Mailbox == INSTANCE ZbMailbox
             WITH inbox <- Waiting, outbox <- dispatched,
                  Capacity <- QueueLength
ImplementsMailbox == Mailbox!Spec
=============================================================================
