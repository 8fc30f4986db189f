-------------------------------- MODULE HwTask --------------------------------
(***************************************************************************)
(* The hardware task of the 802.15.4 service layer: at a given tick of the *)
(* GRTC a compare event triggers a radio task through a (D)PPI channel,    *)
(* without the processor                                                   *)
(* (lib/modules/zigbee/nrf_802154_platform_sl_lptimer_grtc.c:169-267, with *)
(* the connections of nrf_802154_platform_sl_lptimer_grtc_hw_task.c).      *)
(*                                                                         *)
(* The thread and the radio interrupt call it; the interrupt runs to its   *)
(* end between any two steps of the thread, except in a critical section.  *)
(* A call whose compare-and-swap fails changes nothing and is left out.    *)
(* The counter goes on at any time.  GRTC and PPIB are external: a compare *)
(* value that is not two ticks ahead when it is set may be missed.  The    *)
(* mask of the channel's interrupt, which has no handler, is left out.     *)
(***************************************************************************)
EXTENDS Naturals

CONSTANTS
  Channels,  \* the (D)PPI channels of the radio domain
  MaxNow     \* bound on the system counter

NoChannel == "INVALID"  \* NRF_802154_SL_HW_TASK_PPI_INVALID

VARIABLES
  m_hw_task_state,         \* "IDLE", "SETTING_UP", "READY", "CLEANING" or "UPDATING"
  m_hw_task_fire_lpticks,
  now,                     \* the system counter
  compare,                 \* the tick the compare channel waits for, 0 when it does not
  event,                   \* its event register
  published,               \* the channel the PPIB passes the event on to, or NoChannel
  pc,                      \* where each context is
  arg,                     \* the call it makes and its arguments
  late,                    \* those whose !done_on_time or cc_triggered is true
  promise,                 \* history: the channel that SUCCESS was answered for
  triggered                \* history: channels triggered since prepare

taskVars == <<m_hw_task_state, m_hw_task_fire_lpticks>>
grtcVars == <<compare, event, triggered>>
callVars == <<pc, arg, late>>
vars == <<taskVars, now, grtcVars, published, callVars, promise>>

Contexts == {"thread", "radio"}
Calls == {"prepare", "cleanup", "update"}
Lpticks == 1..MaxNow
Arguments == [call : Calls \cup {"none"}, fire : 0..MaxNow, ppi : Channels \cup {NoChannel}]
NoArg == [call |-> "none", fire |-> 0, ppi |-> NoChannel]

Init ==
  /\ m_hw_task_state = "IDLE"
  /\ m_hw_task_fire_lpticks = 0
  /\ now = 0
  /\ compare = 0 /\ event = FALSE /\ triggered = {}
  /\ published = NoChannel  \* ..._cross_domain_connections_setup clears it
  /\ pc = [c \in Contexts |-> "idle"]
  /\ arg = [c \in Contexts |-> NoArg]
  /\ late = {}
  /\ promise = NoChannel

-----------------------------------------------------------------------------
\* Between nrf_802154_sl_mcu_critical_enter and _exit.
InCritical(c) == pc[c] \in {"clear", "disable"} /\ arg[c].call = "prepare"

\* c is the context that runs.
Running(c) ==
  c = "thread" => pc["radio"] = "idle"

MayCall(c) ==
  /\ pc[c] = "idle" /\ Running(c)
  /\ c = "radio" => ~InCritical("thread")

At(c, place) == pc[c] = place /\ Running(c)
Goto(c, place) == pc' = [pc EXCEPT ![c] = place]

\* hw_task_state_set, and the first step of a call that succeeds in it.
Take(c, expected, new, call, place) ==
  /\ MayCall(c)
  /\ m_hw_task_state = expected
  /\ m_hw_task_state' = new
  /\ arg' = [arg EXCEPT ![c] = call]
  /\ late' = late \ {c}
  /\ Goto(c, place)
  /\ promise' = NoChannel

\* ..._hw_task_prepare
Prepare(c, fire, ppi) ==
  /\ Take(c, "IDLE", "SETTING_UP", [call |-> "prepare", fire |-> fire, ppi |-> ppi], "connect")
  /\ triggered' = {}
  /\ UNCHANGED <<m_hw_task_fire_lpticks, now, compare, event, published>>

\* ..._hw_task_cleanup
Cleanup(c) ==
  /\ Take(c, "READY", "CLEANING", [call |-> "cleanup", fire |-> 0, ppi |-> NoChannel], "clear")
  /\ UNCHANGED <<m_hw_task_fire_lpticks, now, grtcVars, published>>

\* ..._hw_task_update_ppi
Update(c, ppi) ==
  /\ Take(c, "READY", "UPDATING", [call |-> "update", fire |-> 0, ppi |-> ppi], "connect")
  /\ UNCHANGED <<m_hw_task_fire_lpticks, now, grtcVars, published>>

\* ..._local_domain_connections_setup; prepare then notes the time.
Connect(c) ==
  /\ At(c, "connect")
  /\ published' = IF arg[c].ppi = NoChannel THEN published ELSE arg[c].ppi
  /\ IF arg[c].call = "prepare"
     THEN m_hw_task_fire_lpticks' = arg[c].fire /\ Goto(c, "set")
     ELSE UNCHANGED m_hw_task_fire_lpticks /\ Goto(c, "event")
  /\ UNCHANGED <<m_hw_task_state, now, grtcVars, arg, late, promise>>

\* What the event triggers: the channel it is passed on to.
Triggers == triggered' = triggered \cup ({published} \ {NoChannel})

\* compare_set_nolocks: the event of an earlier time is cleared; a time too
\* close may be missed, one that has come may count.
SetCompare(c) ==
  /\ At(c, "set")
  /\ \/ arg[c].fire > now
        /\ compare' = arg[c].fire /\ event' = FALSE /\ UNCHANGED triggered
     \/ arg[c].fire <= now + 1
        /\ compare' = 0 /\ event' = FALSE /\ UNCHANGED triggered
     \/ arg[c].fire <= now
        /\ compare' = 0 /\ event' = TRUE /\ Triggers
  /\ Goto(c, "check")
  /\ UNCHANGED <<taskVars, now, published, arg, late, promise>>

\* mutant: a time that is only just ahead counts as in time.
CheckNoMargin(c) ==
  /\ At(c, "check")
  /\ late' = IF now >= arg[c].fire THEN late \cup {c} ELSE late
  /\ Goto(c, IF c \in late' THEN "clear" ELSE "done")
  /\ UNCHANGED <<taskVars, now, grtcVars, published, arg, promise>>

\* The counter is read once the compare value stands; a margin of one tick.
Check(c) ==
  /\ At(c, "check")
  /\ late' = IF now + 1 >= arg[c].fire THEN late \cup {c} ELSE late
  /\ Goto(c, IF c \in late' THEN "clear" ELSE "done")
  /\ UNCHANGED <<taskVars, now, grtcVars, published, arg, promise>>

\* ..._local_domain_connections_clear
Clear(c) ==
  /\ At(c, "clear")
  /\ published' = NoChannel
  /\ Goto(c, "disable")
  /\ UNCHANGED <<taskVars, now, grtcVars, arg, late, promise>>

\* nrfx_grtc_syscounter_cc_disable
Disable(c) ==
  /\ At(c, "disable")
  /\ compare' = 0
  /\ Goto(c, "done")
  /\ UNCHANGED <<taskVars, now, event, triggered, published, arg, late, promise>>

\* The update looks at the event register ...
ReadEvent(c) ==
  /\ At(c, "event")
  /\ late' = IF event THEN late \cup {c} ELSE late
  /\ Goto(c, "time")
  /\ UNCHANGED <<taskVars, now, grtcVars, published, arg, promise>>

\* ... and at the counter, since the interrupt clears the register.
ReadTime(c) ==
  /\ At(c, "time")
  /\ late' = IF now >= m_hw_task_fire_lpticks THEN late \cup {c} ELSE late
  /\ Goto(c, "done")
  /\ UNCHANGED <<taskVars, now, grtcVars, published, arg, promise>>

\* The call gives up the state and answers SUCCESS or, if late, TOO_LATE.
Done(c) ==
  /\ At(c, "done")
  /\ m_hw_task_state' =
       IF arg[c].call = "cleanup" \/ (arg[c].call = "prepare" /\ c \in late)
       THEN "IDLE" ELSE "READY"
  /\ promise' = IF c \in late THEN NoChannel ELSE published
  /\ Goto(c, "idle")
  /\ arg' = [arg EXCEPT ![c] = NoArg]
  /\ late' = late \ {c}
  /\ UNCHANGED <<m_hw_task_fire_lpticks, now, grtcVars, published>>

-----------------------------------------------------------------------------
\* The counter goes on; at the compare value the event triggers its channel.
Tick ==
  /\ now < MaxNow
  /\ now' = now + 1
  /\ IF compare = now' THEN compare' = 0 /\ event' = TRUE /\ Triggers
                       ELSE UNCHANGED grtcVars
  /\ UNCHANGED <<taskVars, published, callVars, promise>>

\* The GRTC interrupt, which the channel has enabled, clears the event.
ClearEvent ==
  /\ event /\ event' = FALSE
  /\ UNCHANGED <<taskVars, now, compare, triggered, published, callVars, promise>>

Next ==
  \/ \E c \in Contexts :
       \/ \E fire \in Lpticks, ppi \in Channels \cup {NoChannel} : Prepare(c, fire, ppi)
       \/ \E ppi \in Channels \cup {NoChannel} : Update(c, ppi)
       \/ Cleanup(c)
       \/ Connect(c) \/ SetCompare(c) \/ Check(c) \/ Clear(c) \/ Disable(c)
       \/ ReadEvent(c) \/ ReadTime(c) \/ Done(c)
  \/ Tick \/ ClearEvent

Spec == Init /\ [][Next]_vars

-----------------------------------------------------------------------------
TypeOK ==
  /\ m_hw_task_state \in {"IDLE", "SETTING_UP", "READY", "CLEANING", "UPDATING"}
  /\ m_hw_task_fire_lpticks \in 0..MaxNow /\ now \in 0..MaxNow /\ compare \in 0..MaxNow
  /\ event \in BOOLEAN
  /\ published \in Channels \cup {NoChannel} /\ promise \in Channels \cup {NoChannel}
  /\ triggered \subseteq Channels
  /\ pc \in [Contexts ->
       {"idle", "connect", "set", "check", "clear", "disable", "event", "time", "done"}]
  /\ arg \in [Contexts -> Arguments]
  /\ late \subseteq Contexts

\* "The (D)PPI channel was connected and it was done on time": whoever was
\* answered SUCCESS has the channel triggered at the time asked for, unless it
\* is cleaned up or given another channel first.
SuccessIsKept ==
  promise # NoChannel /\ now >= m_hw_task_fire_lpticks => promise \in triggered

\* After TOO_LATE from prepare, and after a cleanup, nothing more is triggered.
IdleIsQuiet == m_hw_task_state = "IDLE" => compare = 0 /\ published = NoChannel
=============================================================================
