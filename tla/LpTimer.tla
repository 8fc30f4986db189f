------------------------------- MODULE LpTimer -------------------------------
(***************************************************************************)
(* The low-power timer of the 802.15.4 service layer on one GRTC compare   *)
(* channel, lib/modules/zigbee/nrf_802154_platform_sl_lptimer_grtc.c:      *)
(* scheduling, disabling, and the critical sections that keep its          *)
(* interrupt away, all of which any context may use.                       *)
(*                                                                         *)
(* A context runs until a higher one preempts it, which then runs to its   *)
(* end: the thread, the GRTC interrupt, a radio interrupt.  The functions  *)
(* of nrfx and the service layer's handler are external; cc_absolute_set   *)
(* is called with enable_irq and so enables the channel's interrupt.       *)
(***************************************************************************)
EXTENDS Naturals, FiniteSets

CONSTANTS
  MaxNest,        \* bound: critical sections that one context has open
  MaxCalls,       \* bound: functions of this module one interrupt calls
  ScheduleInside  \* whether the timer is scheduled inside critical sections

ASSUME LpTimerAssumption ==
  /\ MaxNest \in Nat
  /\ MaxCalls \in Nat
  /\ ScheduleInside \in BOOLEAN

Contexts == {"thread", "grtc", "radio"}
Above(c) == CASE c = "thread" -> {"grtc", "radio"}
              [] c = "grtc" -> {"radio"}
              [] c = "radio" -> {}

\* Where a context is: not running; between calls; in the GRTC interrupt
\* before the service layer's handler; or inside schedule_at or disable.
Steps == {"lock", "intoff", "compare", "unlock", "inton"}
Places == {"off", "run", "check", "call"} \cup Steps

VARIABLES
  m_enabled,               \* m_enabled
  int_mask,                \* the channel's bit in int_mask
  m_compare_int_lock_key,  \* m_compare_int_lock_key
  depth,                   \* critical sections each context has open
  irqOn,                   \* the channel's bit in GRTC INTEN
  armed,                   \* the compare channel waits for its time
  fired,                   \* its event is pending
  pc,                      \* where each context is
  op,                      \* the function of the timer being run, or "none"
  calls,                   \* calls that each running interrupt may still make
  key,                     \* its local variable key
  silenced,                \* history: the thread's latest call disabled it
  broken                   \* history: inside the open critical section an
                           \* inner one was left or the timer was scheduled

hwVars == <<irqOn, armed, fired>>
csVars == <<m_compare_int_lock_key, depth>>
callVars == <<pc, op, calls, key>>
vars == <<m_enabled, int_mask, hwVars, csVars, callVars, silenced, broken>>

m_critical_section_cnt == depth["thread"] + depth["grtc"] + depth["radio"]

\* After nrf_802154_platform_sl_lp_timer_init.
Init ==
  /\ m_enabled = FALSE
  /\ int_mask = TRUE
  /\ m_compare_int_lock_key = FALSE
  /\ depth = [c \in Contexts |-> 0]
  /\ irqOn = FALSE /\ armed = FALSE /\ fired = FALSE
  /\ pc = [c \in Contexts |-> IF c = "thread" THEN "run" ELSE "off"]
  /\ op = "none"
  /\ calls = [c \in Contexts |-> MaxCalls]
  /\ key = FALSE
  /\ silenced = FALSE
  /\ broken = FALSE

-----------------------------------------------------------------------------
\* The GRTC interrupt is due and nothing at its level or above is running.
Deliverable == fired /\ irqOn /\ pc["grtc"] = "off" /\ pc["radio"] = "off"

\* c is the context that runs; a deliverable interrupt is taken at once.
Running(c) ==
  /\ \A d \in Above(c) : pc[d] = "off"
  /\ c = "thread" => ~Deliverable

Goto(c, place) == pc' = [pc EXCEPT ![c] = place]

\* c calls a function of this module.
Calls(c) ==
  /\ Running(c) /\ pc[c] = "run"
  /\ IF c = "thread" THEN UNCHANGED calls
     ELSE calls[c] > 0 /\ calls' = [calls EXCEPT ![c] = @ - 1]

\* schedule_at and disable need not be reentrant: no other context is in one.
MayBegin(o) ==
  /\ op = "none"
  /\ o = "schedule" => ScheduleInside \/ m_critical_section_cnt = 0

\* mutant: disable leaves m_enabled set.
BeginKeepEnabled(c, o) ==
  /\ Calls(c)
  /\ MayBegin(o)
  /\ m_enabled' = TRUE
  /\ op' = o
  /\ Goto(c, "lock")
  /\ silenced' = (c = "thread" /\ o = "disable")
  /\ UNCHANGED <<int_mask, hwVars, csVars, key, broken>>

\* nrf_802154_platform_sl_lptimer_schedule_at or _disable sets or clears
\* m_enabled.
Begin(c, o) ==
  /\ Calls(c)
  /\ MayBegin(o)
  /\ m_enabled' = (o = "schedule")
  /\ op' = o
  /\ Goto(c, "lock")
  /\ silenced' = (c = "thread" /\ o = "disable")
  /\ UNCHANGED <<int_mask, hwVars, csVars, key, broken>>

\* compare_int_lock: the bit of int_mask, then the interrupt itself.
Lock(c) ==
  /\ Running(c) /\ pc[c] = "lock"
  /\ key' = int_mask
  /\ int_mask' = FALSE
  /\ Goto(c, "intoff")
  /\ UNCHANGED <<m_enabled, hwVars, csVars, op, calls, silenced, broken>>

LockIntOff(c) ==
  /\ Running(c) /\ pc[c] = "intoff"
  /\ irqOn' = FALSE
  /\ Goto(c, "compare")
  /\ UNCHANGED <<m_enabled, int_mask, armed, fired, csVars, op, calls, key, silenced, broken>>

\* compare_set_nolocks: the new time replaces the old event.
SetCompare(c) ==
  /\ Running(c) /\ pc[c] = "compare" /\ op = "schedule"
  /\ armed' = TRUE
  /\ fired' = FALSE
  /\ irqOn' = TRUE
  /\ broken' = (broken \/ m_critical_section_cnt > 0)
  /\ Goto(c, "unlock")
  /\ UNCHANGED <<m_enabled, int_mask, csVars, op, calls, key, silenced>>

\* nrfx_grtc_syscounter_cc_disable: an event already pending may stay.
DisableCompare(c) ==
  /\ Running(c) /\ pc[c] = "compare" /\ op = "disable"
  /\ armed' = FALSE
  /\ fired' \in {fired, FALSE}
  /\ Goto(c, "unlock")
  /\ UNCHANGED <<m_enabled, int_mask, irqOn, csVars, op, calls, key, silenced, broken>>

\* compare_int_unlock does nothing unless compare_int_lock found the bit set.
Unlock(c) ==
  /\ Running(c) /\ pc[c] = "unlock"
  /\ IF key
     THEN int_mask' = TRUE /\ Goto(c, "inton") /\ UNCHANGED op
     ELSE UNCHANGED int_mask /\ Goto(c, "run") /\ op' = "none"
  /\ key' = FALSE
  /\ UNCHANGED <<m_enabled, hwVars, csVars, calls, silenced, broken>>

UnlockIntOn(c) ==
  /\ Running(c) /\ pc[c] = "inton"
  /\ irqOn' = TRUE
  /\ Goto(c, "run")
  /\ op' = "none"
  /\ UNCHANGED <<m_enabled, int_mask, armed, fired, csVars, calls, key, silenced, broken>>

-----------------------------------------------------------------------------
\* mutant: every enter records whether the interrupt was on.
CriticalEnterEach(c) ==
  /\ Calls(c)
  /\ depth[c] < MaxNest
  /\ depth' = [depth EXCEPT ![c] = @ + 1]
  /\ m_compare_int_lock_key' = int_mask
  /\ int_mask' = FALSE
  /\ irqOn' = FALSE
  /\ broken' = (broken /\ m_critical_section_cnt > 0)
  /\ UNCHANGED <<m_enabled, armed, fired, pc, op, key, silenced>>

\* mutant: the interrupt itself is left enabled.
CriticalEnterMaskOnly(c) ==
  /\ Calls(c)
  /\ depth[c] < MaxNest
  /\ depth' = [depth EXCEPT ![c] = @ + 1]
  /\ IF m_critical_section_cnt = 0
     THEN /\ m_compare_int_lock_key' = int_mask
          /\ int_mask' = FALSE
          /\ broken' = FALSE
     ELSE UNCHANGED <<m_compare_int_lock_key, int_mask, broken>>
  /\ UNCHANGED <<m_enabled, hwVars, pc, op, key, silenced>>

\* nrf_802154_platform_sl_lptimer_critical_section_enter, with interrupts off
\* (nrf_802154_sl_mcu_critical_enter): the outermost one masks the channel.
CriticalEnter(c) ==
  /\ Calls(c)
  /\ depth[c] < MaxNest
  /\ depth' = [depth EXCEPT ![c] = @ + 1]
  /\ IF m_critical_section_cnt = 0
     THEN /\ m_compare_int_lock_key' = int_mask
          /\ int_mask' = FALSE
          /\ irqOn' = FALSE
          /\ broken' = FALSE
     ELSE UNCHANGED <<m_compare_int_lock_key, int_mask, irqOn, broken>>
  /\ UNCHANGED <<m_enabled, armed, fired, pc, op, key, silenced>>

\* nrf_802154_platform_sl_lptimer_critical_section_exit: whether this is the
\* outermost one is not looked at.
CriticalExit(c) ==
  /\ Running(c) /\ pc[c] = "run" /\ depth[c] > 0
  /\ depth' = [depth EXCEPT ![c] = @ - 1]
  /\ IF m_compare_int_lock_key
     THEN int_mask' = TRUE /\ irqOn' = TRUE
     ELSE UNCHANGED <<int_mask, irqOn>>
  /\ broken' = (broken \/ m_critical_section_cnt > 1)
  /\ UNCHANGED <<m_enabled, m_compare_int_lock_key, armed, fired, callVars, silenced>>

-----------------------------------------------------------------------------
\* The compare channel's time comes.
Fire ==
  /\ armed
  /\ armed' = FALSE
  /\ fired' = TRUE
  /\ UNCHANGED <<m_enabled, int_mask, irqOn, csVars, callVars, silenced, broken>>

\* nrfx takes the interrupt, clears the event and calls timer_compare_handler.
TakeIrq ==
  /\ Deliverable
  /\ fired' = FALSE
  /\ Goto("grtc", "check")
  /\ UNCHANGED <<m_enabled, int_mask, irqOn, armed, csVars, op, calls, key, silenced, broken>>

\* timer_compare_handler ignores a late interrupt ...
HandlerCheck ==
  /\ Running("grtc") /\ pc["grtc"] = "check"
  /\ Goto("grtc", IF m_enabled THEN "call" ELSE "off")
  /\ UNCHANGED <<m_enabled, int_mask, hwVars, csVars, op, calls, key, silenced, broken>>

\* ... and otherwise calls nrf_802154_sl_timer_handler.
HandlerCall ==
  /\ Running("grtc") /\ pc["grtc"] = "call"
  /\ Goto("grtc", "run")
  /\ UNCHANGED <<m_enabled, int_mask, hwVars, csVars, op, calls, key, silenced, broken>>

RadioIrq ==
  /\ pc["radio"] = "off"
  /\ Goto("radio", "run")
  /\ UNCHANGED <<m_enabled, int_mask, hwVars, csVars, op, calls, key, silenced, broken>>

\* mutant: it returns with a critical section open.
ReturnInside(c) ==
  /\ c # "thread" /\ Running(c) /\ pc[c] = "run"
  /\ Goto(c, "off")
  /\ calls' = [calls EXCEPT ![c] = MaxCalls]
  /\ UNCHANGED <<m_enabled, int_mask, hwVars, csVars, op, key, silenced, broken>>

\* An interrupt handler returns, having left its critical sections.
Return(c) ==
  /\ c # "thread" /\ Running(c) /\ pc[c] = "run" /\ depth[c] = 0
  /\ Goto(c, "off")
  /\ calls' = [calls EXCEPT ![c] = MaxCalls]
  /\ UNCHANGED <<m_enabled, int_mask, hwVars, csVars, op, key, silenced, broken>>

InCall(c) ==
  \/ Lock(c) \/ LockIntOff(c) \/ SetCompare(c) \/ DisableCompare(c)
  \/ Unlock(c) \/ UnlockIntOn(c)

Next ==
  \/ \E c \in Contexts :
       \/ \E o \in {"schedule", "disable"} : Begin(c, o)
       \/ InCall(c) \/ CriticalEnter(c) \/ CriticalExit(c) \/ Return(c)
  \/ Fire \/ TakeIrq \/ HandlerCheck \/ HandlerCall \/ RadioIrq

\* What c does whatever the caller chooses next.
Proceeds(c) ==
  \/ InCall(c) \/ CriticalExit(c) \/ Return(c)
  \/ c = "grtc" /\ (HandlerCheck \/ HandlerCall)

\* Calls and interrupt handlers end and critical sections are left, whatever
\* preempts them meanwhile; the counter reaches the compare value.
Fairness ==
  /\ WF_vars(Proceeds("radio")) /\ SF_vars(Proceeds("grtc")) /\ SF_vars(Proceeds("thread"))
  /\ WF_vars(Fire) /\ SF_vars(TakeIrq)

Spec == Init /\ [][Next]_vars /\ Fairness

-----------------------------------------------------------------------------
TypeOK ==
  /\ m_enabled \in BOOLEAN /\ int_mask \in BOOLEAN /\ m_compare_int_lock_key \in BOOLEAN
  /\ irqOn \in BOOLEAN /\ armed \in BOOLEAN /\ fired \in BOOLEAN
  /\ depth \in [Contexts -> 0..MaxNest]
  /\ pc \in [Contexts -> Places]
  /\ pc["thread"] \in {"run"} \cup Steps
  /\ op \in {"none", "schedule", "disable"}
  /\ (op = "none") <=> (\A c \in Contexts : pc[c] \notin Steps)
  /\ calls \in [Contexts -> 0..MaxCalls]
  /\ key \in BOOLEAN /\ silenced \in BOOLEAN /\ broken \in BOOLEAN
  /\ \A c \in Contexts : depth[c] > 0 => pc[c] # "off"

\* The interrupt is never left masked: while the channel's bit is clear, a
\* call that found it set, or an open critical section that did, restores it.
NeverLeftMasked ==
  ~int_mask => \/ op # "none" /\ key
               \/ m_critical_section_cnt > 0 /\ m_compare_int_lock_key

\* Two things only let the timer's interrupt into a critical section: leaving
\* an inner one (CriticalExit) and scheduling the timer (SetCompare).
OnlyKnownBreaches == m_critical_section_cnt > 0 /\ ~broken => ~irqOn

\* Once the thread's call of disable has returned, the service layer's handler
\* is not called until the timer is scheduled again, even for an interrupt
\* that was already pending.
DisabledStaysSilent ==
  [][pc["grtc"] = "call" /\ pc'["grtc"] = "run" => ~(silenced /\ pc["thread"] = "run")]_vars

\* A scheduled timer reaches the service layer's handler, unless it is
\* disabled or scheduled anew: no masking is forgotten.
ScheduledIsHandled ==
  m_enabled /\ (armed \/ fired) ~>
    \/ pc["grtc"] = "call"
    \/ ~m_enabled
    \/ op = "schedule"

\* "Critical section can be nested.  Inside critical section calls to
\* nrf_802154_sl_timer_handler do not happen."
NoHandlerInside ==
  [][pc["grtc"] = "call" /\ pc'["grtc"] = "run" => m_critical_section_cnt = 0]_vars
=============================================================================
