----------------------------- MODULE MCLpTimer -----------------------------
(***************************************************************************)
(* TLC instance of the low-power timer.  Its two compare channels share no *)
(* state of this module: a behaviour is one of the timer's own channel     *)
(* (LpTimer: every context may nest critical sections) or one of the       *)
(* hardware task's (HwTask: two contexts, two (D)PPI channels and none),   *)
(* chosen initially; the other channel stands still.                       *)
(***************************************************************************)
EXTENDS LpTimer

CONSTANTS Channels, MaxNow

ASSUME HwTaskAssumption ==
  /\ "INVALID" \notin Channels
  /\ MaxNow \in Nat

VARIABLES side, m_hw_task_state, m_hw_task_fire_lpticks, now, compare, event,
          published, triggered, task_pc, task_arg, late, promise

taskSide == <<m_hw_task_state, m_hw_task_fire_lpticks, now, compare, event,
              published, triggered, task_pc, task_arg, late, promise>>
all == <<side, vars, taskSide>>

Task == INSTANCE HwTask WITH pc <- task_pc, arg <- task_arg

SidesInit == side \in {"timer", "task"} /\ Init /\ Task!Init

Timing(A) == side = "timer" /\ A /\ UNCHANGED <<side, taskSide>>
Triggering(A) == side = "task" /\ A /\ UNCHANGED <<side, vars>>

SidesNext == Timing(Next) \/ Triggering(Task!Next)

\* The fairness of LpTimer, for its own channel.
SidesSpec ==
  /\ SidesInit /\ [][SidesNext]_all
  /\ WF_all(Timing(Proceeds("radio")))
  /\ SF_all(Timing(Proceeds("grtc"))) /\ SF_all(Timing(Proceeds("thread")))
  /\ WF_all(Timing(Fire)) /\ SF_all(Timing(TakeIrq))

\* The hardware task's answers are honest: whoever was answered SUCCESS has the
\* channel triggered in time, and after TOO_LATE from prepare, or after a cleanup,
\* nothing is armed that could trigger one.
TaskHonest == Task!TypeOK /\ Task!SuccessIsKept /\ Task!IdleIsQuiet
=============================================================================
