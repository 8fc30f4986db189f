------------------------------- MODULE ModemOs -------------------------------
(***************************************************************************)
(* Waiting and notification in lib/modules/nrf_modem_lib/glue.c: threads   *)
(* of the modem library sleep in nrf_modem_os_timedwait on bits of one     *)
(* FreeRTOS event group, one bit per context, and the library notifies a   *)
(* context from a task or from an interrupt.  From an interrupt FreeRTOS   *)
(* defers the set to the timer task, through a queue of TimerQueue places. *)
(*                                                                         *)
(* The event group, the tick and the timer task are external.  A deleted   *)
(* event group is freed memory that may look as before or not: a thread    *)
(* that uses it finds any bits or sleeps on it.  The library is            *)
(* initialised once, and notifies nobody after its shutdown.               *)
(***************************************************************************)
EXTENDS Integers, Sequences, FiniteSets

CONSTANTS
  Threads,     \* threads that call the modem library
  Contexts,    \* contexts they wait on and the library notifies
  Timeouts,    \* milliseconds, or one of the two values below
  TickRate,    \* configTICK_RATE_HZ
  TimerQueue,  \* configTIMER_QUEUE_LENGTH
  MaxElapsed   \* bound: a longer call is not told from one this long

\* The event group has 24 bits, and a context is one of them.
ASSUME ModemOsAssumption ==
  /\ Contexts \subseteq 0..23
  /\ Timeouts \subseteq Nat \cup {-1}
  /\ TickRate \in Nat \ {0}
  /\ TimerQueue \in Nat \ {0}
  /\ MaxElapsed \in Nat \ {0}

FOREVER == -1  \* NRF_MODEM_OS_FOREVER
NO_WAIT == 0   \* NRF_MODEM_OS_NO_WAIT

MsToTicks(ms) == (ms * TickRate) \div 1000  \* pdMS_TO_TICKS
TicksToMs(n) == (n * 1000) \div TickRate    \* pdTICKS_TO_MS
portMAX_DELAY == -1

\* mutant: every timeout but NO_WAIT waits for ever.
WaitTicksForever(ms) == IF ms = NO_WAIT THEN 0 ELSE portMAX_DELAY

WaitTicks(ms) == IF ms = FOREVER THEN portMAX_DELAY ELSE MsToTicks(ms)

Active == {"enter", "blocked", "expired", "woken"}

VARIABLES
  group,        \* modem_event_group: "none", "up" or "deleted"
  bits,         \* the bits set in it
  pended,       \* contexts whose set the timer task has yet to do
  pc,           \* where each thread is in nrf_modem_os_timedwait
  context,      \* the call's context
  timeout,      \* the call's *timeout, milliseconds
  left,         \* ticks until the wait of a blocked thread ends
  elapsed,      \* ticks since current_ticks was read
  got,          \* the wait returned a bit of its mask
  owed,         \* history: threads notified since they called, none after shutdown
  taken         \* history: owed threads whose event another call took, or
                \* whose notification the full timer queue refused

groupVars == <<group, bits, pended>>
callVars == <<pc, context, timeout, left, elapsed, got>>
vars == <<groupVars, callVars, owed, taken>>

\* nrf_modem_is_initialized(): the library and the event group go together.
initialized == group = "up"

Init ==
  /\ group = "none"
  /\ bits = {}
  /\ pended = <<>>
  /\ pc = [t \in Threads |-> "idle"]
  /\ context = [t \in Threads |-> 0]
  /\ timeout = [t \in Threads |-> 0]
  /\ left = [t \in Threads |-> 0]
  /\ elapsed = [t \in Threads |-> 0]
  /\ got = [t \in Threads |-> FALSE]
  /\ owed = {}
  /\ taken = {}

-----------------------------------------------------------------------------
\* mutant: the bit that addresses every context is left out.
MaskOwn(c) == IF c # 0 THEN {c} ELSE 0..23

\* The bits that a call on context c waits for: its own and that of context
\* 0, or for context 0 every bit.
Mask(c) == IF c # 0 THEN {0, c} ELSE 0..23

\* A notification of context c addresses the call of thread t.
Addressed(t, c) == c = 0 \/ context[t] \in {0, c}

\* Events in B are cleared by calls of the threads in by: another thread that
\* was notified and has yet to look at the bits will not find them.
Miss(B, by) ==
  {t \in owed' \ by : pc[t] \in {"enter", "expired"} /\ \E c \in B : Addressed(t, c)}

\* Library initialisation: nrf_modem_os_init creates the event group.
OsInit ==
  /\ group = "none"
  /\ group' = "up"
  /\ bits' = {}
  /\ UNCHANGED <<pended, callVars, owed, taken>>

\* Library shutdown: nrf_modem_os_shutdown deletes the event group, which
\* releases every thread blocked on it with no bits.
OsShutdown ==
  /\ group = "up"
  /\ group' = "deleted"
  /\ bits' = {}
  /\ pc' = [t \in Threads |-> IF pc[t] = "blocked" THEN "woken" ELSE pc[t]]
  /\ owed' = {} /\ taken' = {}
  /\ UNCHANGED <<pended, context, timeout, left, elapsed, got>>

\* nrf_modem_os_timedwait up to reading current_ticks; without the library it
\* answers -NRF_ESHUTDOWN at once.
Enter(t, c, ms) ==
  /\ pc[t] = "idle"
  /\ initialized
  /\ pc' = [pc EXCEPT ![t] = "enter"]
  /\ context' = [context EXCEPT ![t] = c]
  /\ timeout' = [timeout EXCEPT ![t] = ms]
  /\ UNCHANGED <<groupVars, left, elapsed, got, owed, taken>>

\* xEventGroupWaitBits finds bits and clears them, or times out at once, or
\* blocks.
WaitBits(t) ==
  LET found == bits \cap Mask(context[t]) IN
  /\ pc[t] = "enter"
  /\ group = "up"
  /\ owed' = owed
  /\ \/ /\ found # {} \/ WaitTicks(timeout[t]) = 0
        /\ pc' = [pc EXCEPT ![t] = "woken"]
        /\ got' = [got EXCEPT ![t] = found # {}]
        /\ bits' = bits \ found
        /\ taken' = taken \cup Miss(found, {t})
        /\ UNCHANGED left
     \/ /\ found = {} /\ WaitTicks(timeout[t]) # 0
        /\ pc' = [pc EXCEPT ![t] = "blocked"]
        /\ left' = [left EXCEPT ![t] = WaitTicks(timeout[t])]
        /\ UNCHANGED <<got, bits, taken>>
  /\ UNCHANGED <<group, pended, context, timeout, elapsed>>

\* The wait has timed out: the bits are looked at once more.
Recheck(t) ==
  LET found == bits \cap Mask(context[t]) IN
  /\ pc[t] = "expired"
  /\ group = "up"
  /\ owed' = owed
  /\ pc' = [pc EXCEPT ![t] = "woken"]
  /\ got' = [got EXCEPT ![t] = found # {}]
  /\ bits' = bits \ found
  /\ taken' = taken \cup Miss(found, {t})
  /\ UNCHANGED <<group, pended, context, timeout, left, elapsed>>

\* Either of the two on an event group deleted in the meantime.
WaitDeleted(t) ==
  /\ pc[t] \in {"enter", "expired"}
  /\ group = "deleted"
  /\ \/ /\ pc' = [pc EXCEPT ![t] = "woken"]
        /\ \E found \in BOOLEAN : got' = [got EXCEPT ![t] = found]
        /\ UNCHANGED left
     \/ /\ pc[t] = "enter" /\ WaitTicks(timeout[t]) # 0
        /\ pc' = [pc EXCEPT ![t] = "blocked"]
        /\ left' = [left EXCEPT ![t] = WaitTicks(timeout[t])]
        /\ UNCHANGED got
  /\ UNCHANGED <<groupVars, context, timeout, elapsed, owed, taken>>

\* What the call answers, from its timeout, the time it took and the library.
Outcome(t) ==
  IF timeout[t] = FOREVER THEN "zero"
  ELSE IF timeout[t] - TicksToMs(elapsed[t]) <= 0 THEN "EAGAIN"
  ELSE IF ~initialized THEN "ESHUTDOWN"
  ELSE "zero"

\* The call answers Outcome(t).
Return(t) ==
  /\ pc[t] = "woken"
  /\ pc' = [pc EXCEPT ![t] = "idle"]
  /\ context' = [context EXCEPT ![t] = 0]
  /\ timeout' = [timeout EXCEPT ![t] = 0]
  /\ left' = [left EXCEPT ![t] = 0]
  /\ elapsed' = [elapsed EXCEPT ![t] = 0]
  /\ got' = [got EXCEPT ![t] = FALSE]
  /\ owed' = owed \ {t}
  /\ taken' = taken \ {t}
  /\ UNCHANGED groupVars

-----------------------------------------------------------------------------
\* Every call that a notification of context c addresses is owed the event.
Owe(c) == owed \cup {t \in Threads : pc[t] \in Active \ {"woken"} /\ Addressed(t, c)}

\* xEventGroupSetBits: every blocked thread that waits for bit c is woken, and
\* the bits they wait for are cleared after all of them have been looked at.
SetBits(c) ==
  LET now == bits \cup {c}
      woken == {t \in Threads : pc[t] = "blocked" /\ Mask(context[t]) \cap now # {}}
      clear == UNION {Mask(context[t]) : t \in woken}
  IN /\ bits' = now \ clear
     /\ pc' = [t \in Threads |-> IF t \in woken THEN "woken" ELSE pc[t]]
     /\ got' = [t \in Threads |-> t \in woken \/ got[t]]
     /\ taken' = taken \cup Miss(now \cap clear, woken)

\* nrf_modem_os_event_notify from a task.
NotifyTask(c) ==
  /\ group = "up"
  /\ owed' = Owe(c)
  /\ SetBits(c)
  /\ UNCHANGED <<group, pended, context, timeout, left, elapsed>>

\* nrf_modem_os_event_notify from an interrupt: the set is left to the timer
\* task; a full queue refuses it, which the code does not look at.
NotifyIsr(c) ==
  /\ group = "up"
  /\ owed' = Owe(c)
  /\ IF Len(pended) < TimerQueue
     THEN pended' = Append(pended, c) /\ UNCHANGED taken
     ELSE taken' = taken \cup (owed' \ owed) /\ UNCHANGED pended
  /\ UNCHANGED <<group, bits, callVars>>

\* The timer task sets the bit; after a shutdown it does so in freed memory,
\* which wakes the threads that sleep on it or nobody.
TimerTask ==
  /\ pended # <<>>
  /\ pended' = Tail(pended)
  /\ owed' = owed
  /\ \/ SetBits(Head(pended))
     \/ group = "deleted" /\ UNCHANGED <<bits, pc, got, taken>>
  /\ UNCHANGED <<group, context, timeout, left, elapsed>>

\* A tick: calls get older, and a wait that has used up its ticks ends.
Tick ==
  LET timed == {t \in Threads : pc[t] = "blocked" /\ left[t] > 0} IN
  /\ elapsed' = [t \in Threads |->
       IF pc[t] \in Active /\ timeout[t] # FOREVER /\ elapsed[t] < MaxElapsed
       THEN elapsed[t] + 1 ELSE elapsed[t]]
  /\ left' = [t \in Threads |-> IF t \in timed THEN left[t] - 1 ELSE left[t]]
  /\ pc' = [t \in Threads |-> IF t \in timed /\ left[t] = 1 THEN "expired" ELSE pc[t]]
  /\ UNCHANGED <<groupVars, context, timeout, got, owed, taken>>

Step(t) == WaitBits(t) \/ Recheck(t) \/ WaitDeleted(t) \/ Return(t)

Next ==
  \/ OsInit \/ OsShutdown
  \/ \E t \in Threads : Step(t)
  \/ \E t \in Threads, c \in Contexts, ms \in Timeouts : Enter(t, c, ms)
  \/ \E c \in Contexts : NotifyTask(c) \/ NotifyIsr(c)
  \/ TimerTask
  \/ Tick

\* Time passes and ready tasks run: the scheduler preempts and time-slices.
Fairness ==
  /\ WF_vars(Tick)
  /\ WF_vars(TimerTask)
  /\ \A t \in Threads : WF_vars(Step(t))

Spec == Init /\ [][Next]_vars /\ Fairness

-----------------------------------------------------------------------------
TypeOK ==
  /\ group \in {"none", "up", "deleted"}
  /\ bits \subseteq 0..23
  /\ pended \in Seq(Contexts) /\ Len(pended) <= TimerQueue
  /\ pc \in [Threads -> Active \cup {"idle"}]
  /\ context \in [Threads -> Contexts \cup {0}]
  /\ timeout \in [Threads -> Timeouts \cup {0}]
  /\ left \in [Threads -> Nat \cup {portMAX_DELAY}]
  /\ elapsed \in [Threads -> 0..MaxElapsed]
  /\ got \in [Threads -> BOOLEAN]
  /\ owed \subseteq Threads /\ taken \subseteq owed

\* No lost wake-up: a thread notified after it called nrf_modem_os_timedwait,
\* even before it blocks, does not sleep on, unless the timer task has yet to
\* set its bit, another call that waits for that bit took the event first, or
\* the timer queue had no room for it.
NoSleepOverEvent ==
  \A t \in Threads :
    group = "up" /\ pc[t] = "blocked" /\ t \in owed /\ t \notin taken =>
      \E i \in 1..Len(pended) : Addressed(t, pended[i])

\* A call with a timeout comes back, whatever happens to the events and to the
\* event group in the meantime.
TimedCallsEnd == \A t \in Threads : pc[t] \in Active /\ timeout[t] # FOREVER ~> pc[t] = "idle"

\* "Put a thread to sleep for a specific time or until an event occurs": a
\* call with a timeout answers 0 only if an event has occurred.
ZeroMeansEvent ==
  \A t \in Threads :
    pc[t] = "woken" /\ timeout[t] # FOREVER /\ Outcome(t) = "zero" => got[t]
=============================================================================
