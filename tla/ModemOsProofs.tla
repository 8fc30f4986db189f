---------------------------- MODULE ModemOsProofs ----------------------------
(***************************************************************************)
(* Proofs about ModemOs, for every set of threads, contexts and timeouts   *)
(* and every size of the timer queue: no thread sleeps over an event; and, *)
(* at the end, that what ShmemProofs proves of the heap holds beside it    *)
(* (PartsSpec).                                                            *)
(*                                                                         *)
(* NoSleepOverEvent speaks of blocked threads.  The invariant follows the  *)
(* event from the call on: until the thread has looked at the bits, one of *)
(* its mask is set, or the timer task has yet to set one.  A thread only   *)
(* blocks, and stays blocked, while no bit of its mask is set.             *)
(***************************************************************************)
EXTENDS MCModem, TLAPS

\* The timer task has yet to set a bit of the mask of context x.
Pending(x, p) == \E i \in 1..Len(p) : p[i] \in Mask(x)

\* A bit of the mask of context x is set.
SetFor(x, b) == b \cap Mask(x) # {}

Shape ==
  /\ group \in {"none", "up", "deleted"}
  /\ bits \subseteq 0..23
  /\ pended \in Seq(Contexts)
  /\ pc \in [Threads -> Active \cup {"idle"}]
  /\ context \in [Threads -> 0..23]
  /\ owed \subseteq Threads

Inv ==
  /\ Shape
  /\ \A t \in owed : pc[t] # "idle"
  /\ group = "none" => \A t \in Threads : pc[t] = "idle"
  /\ group = "up" =>
       /\ \A t \in Threads : pc[t] = "blocked" => ~SetFor(context[t], bits)
       /\ \A t \in owed \ taken : pc[t] \in {"enter", "expired", "blocked"} =>
            SetFor(context[t], bits) \/ Pending(context[t], pended)

\* A notification addresses the calls that wait for its bit.
LEMMA AddressedIsMasked ==
  ASSUME NEW t, context[t] \in 0..23, NEW c \in 0..23
  PROVE  Addressed(t, c) <=> c \in Mask(context[t])
BY DEF Addressed, Mask

\* Adding a bit to the queue, and taking the oldest one.
LEMMA PendedLonger ==
  ASSUME NEW p \in Seq(Contexts), NEW c \in Contexts, NEW x
  PROVE  /\ Append(p, c) \in Seq(Contexts)
         /\ Pending(x, p) => Pending(x, Append(p, c))
         /\ c \in Mask(x) => Pending(x, Append(p, c))
<1>1. /\ Append(p, c) \in Seq(Contexts) /\ Len(p) \in Nat
      /\ Len(Append(p, c)) = Len(p) + 1
      /\ \A i \in 1..Len(p) : Append(p, c)[i] = p[i]
      /\ Append(p, c)[Len(p) + 1] = c
  OBVIOUS
<1>2. \A i \in 1..Len(p) : i \in 1..Len(Append(p, c))
  BY <1>1
<1>3. Len(p) + 1 \in 1..Len(Append(p, c))
  BY <1>1
<1>4. QED
  BY <1>1, <1>2, <1>3 DEF Pending

LEMMA PendedShorter ==
  ASSUME NEW p \in Seq(Contexts), p # <<>>, NEW x
  PROVE  /\ Head(p) \in Contexts /\ Tail(p) \in Seq(Contexts)
         /\ Pending(x, p) => Pending(x, Tail(p)) \/ Head(p) \in Mask(x)
<1>1. /\ Head(p) \in Contexts /\ Tail(p) \in Seq(Contexts) /\ Head(p) = p[1]
      /\ Len(p) \in Nat \ {0} /\ Len(Tail(p)) = Len(p) - 1
      /\ \A i \in 1..Len(Tail(p)) : Tail(p)[i] = p[i + 1]
  OBVIOUS
<1>2. ASSUME NEW i \in 1..Len(p), p[i] \in Mask(x)
      PROVE  Pending(x, Tail(p)) \/ Head(p) \in Mask(x)
  <2>1. CASE i = 1
    BY <1>1, <1>2, <2>1
  <2>2. CASE i # 1
    <3>1. i - 1 \in 1..Len(Tail(p)) /\ Tail(p)[i - 1] = p[i]
      BY <1>1, <2>2
    <3>2. QED
      BY <1>2, <3>1 DEF Pending
  <2>3. QED
    BY <2>1, <2>2
<1>3. QED
  BY <1>1, <1>2 DEF Pending

-----------------------------------------------------------------------------
\* A bit is set, by whoever it is: the blocked threads that wait for it are woken, and
\* the others that would have found what those take are missed.
LEMMA SetBitsKeeps ==
  ASSUME Inv, NEW c \in Contexts, SetBits(c),
         UNCHANGED <<group, context>>, owed' = owed \/ owed' = Owe(c),
         pended' \in Seq(Contexts),
         \A x \in 0..23 : Pending(x, pended) => Pending(x, pended') \/ c \in Mask(x)
  PROVE  Inv'
<1> DEFINE now == bits \cup {c}
           woken == {t \in Threads : pc[t] = "blocked" /\ Mask(context[t]) \cap now # {}}
           clear == UNION {Mask(context[t]) : t \in woken}
<1>1. /\ bits' = now \ clear
      /\ pc' = [t \in Threads |-> IF t \in woken THEN "woken" ELSE pc[t]]
      /\ taken' = taken \cup Miss(now \cap clear, woken)
      /\ now \subseteq 0..23
  BY ModemOsAssumption DEF SetBits, Inv, Shape
<1>2. /\ owed' \subseteq Threads /\ owed \subseteq owed'
      /\ \A t \in owed' \ owed : pc[t] \in {"enter", "blocked", "expired"} /\ c \in Mask(context[t])
  BY AddressedIsMasked, ModemOsAssumption DEF Owe, Inv, Shape, Active
<1> HIDE DEF now, woken, clear
<1>3. woken \subseteq Threads /\ \A t \in woken : pc[t] = "blocked"
  BY DEF woken
<1>4. \A t \in Threads : pc'[t] = IF t \in woken THEN "woken" ELSE pc[t]
  BY <1>1
<1>5. Shape'
  <2>1. pc' \in [Threads -> Active \cup {"idle"}]
    BY <1>1 DEF Inv, Shape, Active
  <2>2. bits' \subseteq 0..23
    BY <1>1
  <2>3. QED
    BY <1>2, <2>1, <2>2 DEF Inv, Shape
<1>6. \A t \in owed' : pc'[t] # "idle"
  BY <1>2, <1>3, <1>4 DEF Inv, Shape
<1>7. group' = "none" => \A t \in Threads : pc'[t] = "idle"
  BY <1>3, <1>4 DEF Inv
<1>8. ASSUME NEW t \in Threads, pc'[t] = "blocked"
      PROVE  ~SetFor(context'[t], bits')
  <2>1. t \notin woken /\ pc[t] = "blocked"
    BY <1>4, <1>8
  <2>2. Mask(context[t]) \cap now = {}
    BY <2>1 DEF woken
  <2>3. QED
    BY <1>1, <2>2 DEF SetFor
<1>9. ASSUME group = "up", NEW t \in owed' \ taken', pc'[t] \in {"enter", "expired", "blocked"}
      PROVE  SetFor(context'[t], bits') \/ Pending(context'[t], pended')
  <2>1. t \in Threads /\ t \notin woken /\ pc[t] = pc'[t] /\ context[t] \in 0..23 /\ t \notin taken
    BY <1>1, <1>2, <1>4, <1>9 DEF Inv, Shape
  <2>2. SetFor(context[t], now) \/ Pending(context[t], pended')
    <3>1. CASE t \in owed
      BY <1>9, <2>1, <3>1 DEF Inv, SetFor, now
    <3>2. CASE t \notin owed
      BY <1>2, <1>9, <3>2 DEF SetFor, now
    <3>3. QED
      BY <3>1, <3>2
  <2>3. CASE pc[t] = "blocked"
    <3>1. Mask(context[t]) \cap now = {}
      BY <2>1, <2>3 DEF woken
    <3>2. QED
      BY <2>2, <3>1 DEF SetFor
  <2>4. CASE pc[t] # "blocked"
    <3>1. pc'[t] \in {"enter", "expired"} /\ t \notin Miss(now \cap clear, woken)
      BY <1>1, <1>9, <2>1, <2>4
    <3>2. ASSUME NEW b \in now \cap clear PROVE b \notin Mask(context[t])
      <4>1. b \in 0..23 /\ ~Addressed(t, b)
        BY <1>1, <1>9, <2>1, <2>4, <3>1 DEF Miss
      <4>2. QED
        BY <2>1, <4>1, AddressedIsMasked
    <3>3. SetFor(context[t], now) => SetFor(context[t], bits')
      BY <1>1, <3>2 DEF SetFor
    <3>4. QED
      BY <2>2, <3>3
  <2>5. QED
    BY <2>3, <2>4
<1>10. QED
  BY <1>5, <1>6, <1>7, <1>8, <1>9 DEF Inv

\* A thread looks at the bits, at its call or after its timeout.
LEMMA LooksKeeps ==
  ASSUME Inv, NEW t \in Threads, WaitBits(t) \/ Recheck(t)
  PROVE  Inv'
<1> DEFINE found == bits \cap Mask(context[t])
<1>1. /\ group = "up" /\ pc[t] \in {"enter", "expired"}
      /\ owed' = owed /\ UNCHANGED <<group, pended, context>>
      /\ \/ /\ pc' = [pc EXCEPT ![t] = "woken"]
            /\ bits' = bits \ found
            /\ taken' = taken \cup Miss(found, {t})
         \/ /\ found = {} /\ pc' = [pc EXCEPT ![t] = "blocked"]
            /\ UNCHANGED <<bits, taken>>
  BY DEF WaitBits, Recheck
<1>2. pc \in [Threads -> Active \cup {"idle"}] /\ context \in [Threads -> 0..23] /\ bits \subseteq 0..23
  BY DEF Inv, Shape
<1>3. \A u \in Threads \ {t} : pc'[u] = pc[u]
  BY <1>1, <1>2
<1>4. \/ pc'[t] = "woken"
      \/ pc'[t] = "blocked" /\ found = {} /\ UNCHANGED <<bits, taken>>
  BY <1>1, <1>2
<1>5. Shape'
  BY <1>1, <1>2 DEF Inv, Shape, Active
<1>6. \A u \in owed' : pc'[u] # "idle"
  BY <1>1, <1>3, <1>4 DEF Inv, Shape
<1>7. bits' \subseteq bits
  BY <1>1
<1>8. ASSUME NEW u \in Threads, pc'[u] = "blocked"
      PROVE  ~SetFor(context'[u], bits')
  BY <1>1, <1>3, <1>4, <1>7, <1>8 DEF Inv, SetFor
<1>9. ASSUME NEW u \in owed' \ taken', pc'[u] \in {"enter", "expired", "blocked"}
      PROVE  SetFor(context'[u], bits') \/ Pending(context'[u], pended')
  <2>1. u \in owed /\ u \notin taken /\ u \in Threads /\ context[u] \in 0..23
    BY <1>1, <1>2 DEF Inv, Shape
  <2>2. SetFor(context[u], bits) \/ Pending(context[u], pended)
    BY <1>1, <1>3, <1>9, <2>1 DEF Inv
  <2>3. CASE UNCHANGED bits
    BY <1>1, <2>2, <2>3
  <2>4. CASE u # t /\ bits' = bits \ found /\ taken' = taken \cup Miss(found, {t})
    <3>1. CASE pc[u] = "blocked"
      BY <1>1, <2>1, <2>2, <3>1 DEF Inv
    <3>2. CASE pc[u] # "blocked"
      <4>1. ASSUME NEW b \in found PROVE b \notin Mask(context[u])
        <5>1. pc'[u] \in {"enter", "expired"} /\ u \notin Miss(found, {t})
          BY <1>3, <1>9, <2>1, <2>4, <3>2
        <5>2. b \in 0..23 /\ ~Addressed(u, b)
          BY <1>2, <1>3, <1>9, <2>1, <2>4, <3>2, <5>1 DEF Miss
        <5>3. QED
          BY <2>1, <5>2, AddressedIsMasked
      <4>2. SetFor(context[u], bits) => SetFor(context[u], bits')
        BY <2>4, <4>1 DEF SetFor
      <4>3. QED
        BY <1>1, <2>2, <4>2
    <3>3. QED
      BY <3>1, <3>2
  <2>5. QED
    BY <1>1, <1>4, <1>9, <2>3, <2>4
<1>10. QED
  BY <1>1, <1>5, <1>6, <1>8, <1>9 DEF Inv

-----------------------------------------------------------------------------
\* The steps of a notification.
LEMMA NotifyKeeps ==
  ASSUME Inv, NEW c \in Contexts, NotifyTask(c) \/ NotifyIsr(c)
  PROVE  Inv'
<1>1. CASE NotifyTask(c)
  BY <1>1, SetBitsKeeps DEF NotifyTask, Inv, Shape
<1>2. CASE NotifyIsr(c)
  <2>1. /\ group = "up" /\ owed' = Owe(c) /\ UNCHANGED <<group, bits, pc, context>>
        /\ \/ pended' = Append(pended, c) /\ UNCHANGED taken
           \/ taken' = taken \cup (owed' \ owed) /\ UNCHANGED pended
    BY <1>2 DEF NotifyIsr, callVars
  <2>2. /\ owed' \subseteq Threads /\ owed \subseteq owed'
        /\ \A t \in owed' \ owed : pc[t] # "idle" /\ c \in Mask(context[t])
    BY <2>1, AddressedIsMasked, ModemOsAssumption DEF Owe, Inv, Shape, Active
  <2>3. pended' \in Seq(Contexts)
    BY <2>1, PendedLonger DEF Inv, Shape
  <2>4. ASSUME NEW t \in owed' \ taken', pc'[t] \in {"enter", "expired", "blocked"}
        PROVE  SetFor(context'[t], bits') \/ Pending(context'[t], pended')
    <3>1. /\ Pending(context[t], pended) => Pending(context[t], pended')
          /\ pended' = Append(pended, c) /\ c \in Mask(context[t]) =>
               Pending(context[t], pended')
      <4>1. pended \in Seq(Contexts)
        BY DEF Inv, Shape
      <4>2. QED
        BY <2>1, <4>1, PendedLonger
    <3>2. CASE t \in owed
      <4>1. t \notin taken
        BY <2>1, <2>4
      <4>2. SetFor(context[t], bits) \/ Pending(context[t], pended)
        BY <2>1, <2>4, <3>2, <4>1 DEF Inv
      <4>3. QED
        BY <2>1, <3>1, <4>2
    <3>3. CASE t \notin owed
      <4>1. pended' = Append(pended, c) /\ c \in Mask(context[t])
        BY <2>1, <2>2, <2>4, <3>3
      <4>2. QED
        BY <2>1, <3>1, <4>1
    <3>4. QED
      BY <3>2, <3>3
  <2>5. QED
    BY <2>1, <2>2, <2>3, <2>4 DEF Inv, Shape
<1>3. QED
  BY <1>1, <1>2

\* The timer task does what an interrupt left to it.
LEMMA TimerTaskKeeps ==
  ASSUME Inv, TimerTask
  PROVE  Inv'
<1>1. /\ pended \in Seq(Contexts) /\ pended # <<>>
      /\ pended' = Tail(pended) /\ owed' = owed /\ UNCHANGED <<group, context>>
  BY DEF TimerTask, Inv, Shape
<1>2. Head(pended) \in Contexts /\ pended' \in Seq(Contexts)
  BY <1>1, PendedShorter
<1>3. CASE SetBits(Head(pended))
  <2>1. \A x \in 0..23 : Pending(x, pended) => Pending(x, pended') \/ Head(pended) \in Mask(x)
    BY <1>1, PendedShorter
  <2>2. QED
    BY <1>1, <1>2, <1>3, <2>1, SetBitsKeeps
<1>4. CASE group = "deleted" /\ UNCHANGED <<bits, pc, got, taken>>
  BY <1>1, <1>2, <1>4 DEF Inv, Shape
<1>5. QED
  BY <1>3, <1>4 DEF TimerTask

\* The steps of a call other than its looks at a living event group.
LEMMA CallKeeps ==
  ASSUME Inv, NEW t \in Threads,
         \/ WaitDeleted(t) \/ Return(t)
         \/ \E c \in Contexts, ms \in Timeouts : Enter(t, c, ms)
  PROVE  Inv'
<1>1. CASE WaitDeleted(t)
  <2>1. /\ group = "deleted" /\ UNCHANGED <<group, bits, pended, context, owed, taken>>
        /\ \/ pc' = [pc EXCEPT ![t] = "woken"]
           \/ pc' = [pc EXCEPT ![t] = "blocked"]
    BY <1>1 DEF WaitDeleted, groupVars
  <2>2. pc' \in [Threads -> Active \cup {"idle"}] /\ pc'[t] # "idle"
        /\ \A u \in Threads \ {t} : pc'[u] = pc[u]
    BY <2>1 DEF Inv, Shape, Active
  <2>3. \A u \in owed' : pc'[u] # "idle"
    BY <2>1, <2>2 DEF Inv, Shape
  <2>4. QED
    BY <2>1, <2>2, <2>3 DEF Inv, Shape
<1>2. CASE Return(t)
  <2>1. /\ UNCHANGED <<group, bits, pended>> /\ owed' = owed \ {t} /\ taken' = taken \ {t}
        /\ pc' = [pc EXCEPT ![t] = "idle"] /\ context' = [context EXCEPT ![t] = 0]
    BY <1>2 DEF Return, groupVars
  <2>2. /\ pc' \in [Threads -> Active \cup {"idle"}] /\ pc'[t] = "idle"
        /\ context' \in [Threads -> 0..23]
        /\ \A u \in Threads \ {t} : pc'[u] = pc[u] /\ context'[u] = context[u]
    BY <2>1 DEF Inv, Shape
  <2>3. QED
    BY <2>1, <2>2 DEF Inv, Shape
<1>3. ASSUME NEW c \in Contexts, NEW ms \in Timeouts, Enter(t, c, ms)
      PROVE  Inv'
  <2>1. /\ UNCHANGED <<group, bits, pended, owed, taken>> /\ group = "up" /\ pc[t] = "idle"
        /\ pc' = [pc EXCEPT ![t] = "enter"] /\ context' = [context EXCEPT ![t] = c]
    BY <1>3 DEF Enter, groupVars, initialized
  <2>2. /\ pc' \in [Threads -> Active \cup {"idle"}] /\ pc'[t] = "enter"
        /\ context' \in [Threads -> 0..23]
        /\ \A u \in Threads \ {t} : pc'[u] = pc[u] /\ context'[u] = context[u]
    BY <2>1, ModemOsAssumption DEF Inv, Shape, Active
  <2>3. t \notin owed
    BY <2>1 DEF Inv
  <2>4. QED
    BY <2>1, <2>2, <2>3 DEF Inv, Shape
<1>4. QED
  BY <1>1, <1>2, <1>3

\* Initialisation, shutdown and the passing of time.
LEMMA OtherKeeps ==
  ASSUME Inv, OsInit \/ OsShutdown \/ Tick \/ UNCHANGED vars
  PROVE  Inv'
<1>1. CASE OsInit
  <2>1. /\ group = "none" /\ group' = "up" /\ bits' = {}
        /\ UNCHANGED <<pended, pc, context, owed, taken>>
    BY <1>1 DEF OsInit, callVars
  <2>2. \A t \in Threads : pc'[t] = "idle"
    BY <2>1 DEF Inv
  <2>3. owed' = {}
    BY <2>1 DEF Inv, Shape
  <2>4. QED
    BY <2>1, <2>2, <2>3 DEF Inv, Shape
<1>2. CASE OsShutdown
  <2>1. /\ group' = "deleted" /\ bits' = {} /\ owed' = {} /\ UNCHANGED <<pended, context>>
        /\ pc' = [t \in Threads |-> IF pc[t] = "blocked" THEN "woken" ELSE pc[t]]
    BY <1>2 DEF OsShutdown
  <2>2. pc' \in [Threads -> Active \cup {"idle"}]
    BY <2>1 DEF Inv, Shape, Active
  <2>3. QED
    BY <2>1, <2>2 DEF Inv, Shape
<1>3. CASE Tick
  <2>1. UNCHANGED <<group, bits, pended, context, owed, taken>>
    BY <1>3 DEF Tick, groupVars
  <2>2. /\ pc' \in [Threads -> Active \cup {"idle"}]
        /\ \A t \in Threads : pc'[t] = pc[t] \/ (pc[t] = "blocked" /\ pc'[t] = "expired")
    BY <1>3 DEF Tick, Inv, Shape, Active
  <2>3. QED
    BY <2>1, <2>2 DEF Inv, Shape
<1>4. CASE UNCHANGED vars
  BY <1>4 DEF vars, groupVars, callVars, Inv, Shape, Pending
<1>5. QED
  BY <1>1, <1>2, <1>3, <1>4

-----------------------------------------------------------------------------
\* With one bit of the event group per context, what a notification sets off
\* is followed in every reachable state.
THEOREM InvariantHolds == Spec => []Inv
<1>1. Init => Inv
  BY DEF Init, Inv, Shape, Active
<1>2. Inv /\ [Next]_vars => Inv'
  <2> SUFFICES ASSUME Inv, [Next]_vars PROVE Inv'
    OBVIOUS
  <2>1. CASE OsInit \/ OsShutdown \/ Tick \/ UNCHANGED vars
    BY <2>1, OtherKeeps
  <2>2. ASSUME NEW t \in Threads, Step(t) PROVE Inv'
    BY <2>2, LooksKeeps, CallKeeps DEF Step
  <2>3. ASSUME NEW t \in Threads, NEW c \in Contexts, NEW ms \in Timeouts, Enter(t, c, ms)
        PROVE  Inv'
    BY <2>3, CallKeeps
  <2>4. ASSUME NEW c \in Contexts, NotifyTask(c) \/ NotifyIsr(c) PROVE Inv'
    BY <2>4, NotifyKeeps
  <2>5. CASE TimerTask
    BY <2>5, TimerTaskKeeps
  <2>6. QED
    BY <2>1, <2>2, <2>3, <2>4, <2>5 DEF Next
<1>3. QED
  BY <1>1, <1>2, PTL DEF Spec

\* No lost wake-up, for every number of threads and contexts, every timeout
\* and every size of the timer queue: a thread that nrf_modem_os_event_notify
\* addressed after its call of nrf_modem_os_timedwait sleeps on only while the
\* timer task has yet to set its bit, or after another call took the event or
\* the queue refused it.
THEOREM NoLostEvent == Spec => []NoSleepOverEvent
<1>1. Inv => NoSleepOverEvent
  <2> SUFFICES ASSUME Inv, group = "up", NEW t \in Threads, pc[t] = "blocked",
                      t \in owed, t \notin taken
               PROVE  \E i \in 1..Len(pended) : Addressed(t, pended[i])
    BY DEF NoSleepOverEvent
  <2>1. Pending(context[t], pended)
    BY DEF Inv
  <2>2. PICK i \in 1..Len(pended) : pended[i] \in Mask(context[t])
    BY <2>1 DEF Pending
  <2>3. context[t] \in 0..23 /\ pended[i] \in 0..23
    <3>1. pended \in Seq(Contexts) /\ context[t] \in 0..23
      BY DEF Inv, Shape
    <3>2. pended[i] \in Contexts
      BY <2>2, <3>1
    <3>3. QED
      BY <3>1, <3>2, ModemOsAssumption
  <2>4. QED
    BY <2>2, <2>3, AddressedIsMasked
<1>2. QED
  BY <1>1, InvariantHolds, PTL

-----------------------------------------------------------------------------
(* Types                                                                   *)

\* A wait lasts some number of ticks, or for ever.
LEMMA TicksAre == \A ms \in Timeouts \cup {0} : WaitTicks(ms) \in Nat \cup {portMAX_DELAY}
<1> SUFFICES ASSUME NEW ms \in Timeouts \cup {0}, ms # FOREVER
             PROVE  MsToTicks(ms) \in Nat
  BY DEF WaitTicks
<1>1. ms \in Nat /\ TickRate \in Nat
  BY ModemOsAssumption DEF FOREVER
<1>2. ms * TickRate \in Nat
  BY <1>1
<1>3. QED
  BY <1>2 DEF MsToTicks

\* Only threads that are owed an event can miss it.
LEMMA MissIsOwed == \A B, by : Miss(B, by) \subseteq owed'
BY DEF Miss

\* Initially nobody calls.
LEMMA TypeInit == Init => TypeOK
<1> SUFFICES ASSUME Init PROVE TypeOK
  OBVIOUS
<1>1. 0 \in 0..MaxElapsed /\ 0 \in Nat
  BY ModemOsAssumption
<1>2. pended \in Seq(Contexts) /\ Len(pended) <= TimerQueue
  BY ModemOsAssumption DEF Init
<1>3. QED
  BY <1>1, <1>2 DEF Init, TypeOK, Active

\* A call looks at the bits, or returns.
LEMMA TypeStep ==
  ASSUME TypeOK, NEW t \in Threads, Step(t)
  PROVE  TypeOK'
<1> USE DEF groupVars, callVars, Active
<1>1. CASE WaitBits(t)
  <2>1. WaitTicks(timeout[t]) \in Nat \cup {portMAX_DELAY}
    BY TicksAre DEF TypeOK
  <2>2. bits' \subseteq 0..23
    BY <1>1 DEF WaitBits, TypeOK
  <2>3. /\ pc' \in [Threads -> Active \cup {"idle"}]
        /\ got' \in [Threads -> BOOLEAN]
        /\ left' \in [Threads -> Nat \cup {portMAX_DELAY}]
    BY <1>1, <2>1 DEF WaitBits, TypeOK
  <2>4. owed' \subseteq Threads /\ taken' \subseteq owed'
    BY <1>1, MissIsOwed DEF WaitBits, TypeOK
  <2>5. UNCHANGED <<group, pended, context, timeout, elapsed>>
    BY <1>1 DEF WaitBits
  <2>6. QED
    BY <2>2, <2>3, <2>4, <2>5 DEF TypeOK
<1>2. CASE Recheck(t)
  <2>1. bits' \subseteq 0..23
    BY <1>2 DEF Recheck, TypeOK
  <2>2. pc' \in [Threads -> Active \cup {"idle"}] /\ got' \in [Threads -> BOOLEAN]
    BY <1>2 DEF Recheck, TypeOK
  <2>3. owed' \subseteq Threads /\ taken' \subseteq owed'
    BY <1>2, MissIsOwed DEF Recheck, TypeOK
  <2>4. UNCHANGED <<group, pended, context, timeout, left, elapsed>>
    BY <1>2 DEF Recheck
  <2>5. QED
    BY <2>1, <2>2, <2>3, <2>4 DEF TypeOK
<1>3. CASE WaitDeleted(t)
  <2>1. WaitTicks(timeout[t]) \in Nat \cup {portMAX_DELAY}
    BY TicksAre DEF TypeOK
  <2>2. /\ pc' \in [Threads -> Active \cup {"idle"}]
        /\ got' \in [Threads -> BOOLEAN]
        /\ left' \in [Threads -> Nat \cup {portMAX_DELAY}]
    BY <1>3, <2>1 DEF WaitDeleted, TypeOK
  <2>3. UNCHANGED <<groupVars, context, timeout, elapsed, owed, taken>>
    BY <1>3 DEF WaitDeleted
  <2>4. QED
    BY <2>2, <2>3 DEF TypeOK
<1>4. CASE Return(t)
  <2>1. /\ pc' \in [Threads -> Active \cup {"idle"}]
        /\ context' \in [Threads -> Contexts \cup {0}]
        /\ timeout' \in [Threads -> Timeouts \cup {0}]
        /\ got' \in [Threads -> BOOLEAN]
    BY <1>4 DEF Return, TypeOK
  <2>2. left' \in [Threads -> Nat \cup {portMAX_DELAY}] /\ elapsed' \in [Threads -> 0..MaxElapsed]
    BY <1>4, ModemOsAssumption DEF Return, TypeOK
  <2>3. owed' \subseteq Threads /\ taken' \subseteq owed'
    BY <1>4 DEF Return, TypeOK
  <2>4. UNCHANGED groupVars
    BY <1>4 DEF Return
  <2>5. QED
    BY <2>1, <2>2, <2>3, <2>4 DEF TypeOK
<1>5. QED
  BY <1>1, <1>2, <1>3, <1>4 DEF Step

\* A bit set wakes whom it addresses, and clears what they waited for.
LEMMA TypeSetBits ==
  ASSUME TypeOK, NEW c \in Contexts, SetBits(c), owed' \subseteq Threads, owed \subseteq owed'
  PROVE  /\ bits' \subseteq 0..23
         /\ pc' \in [Threads -> Active \cup {"idle"}] /\ got' \in [Threads -> BOOLEAN]
         /\ taken' \subseteq owed'
<1>1. bits' \subseteq 0..23
  BY ModemOsAssumption DEF SetBits, TypeOK
<1>2. pc' \in [Threads -> Active \cup {"idle"}]
  BY DEF SetBits, TypeOK, Active
<1>3. got' \in [Threads -> BOOLEAN]
  BY Zenon DEF SetBits, TypeOK
<1>4. taken' \subseteq owed'
  BY MissIsOwed DEF SetBits, TypeOK
<1>5. QED
  BY <1>1, <1>2, <1>3, <1>4

\* A notification owes the event to threads only; the timer queue holds TimerQueue sets.
LEMMA TypeNotify ==
  ASSUME TypeOK, NEW c \in Contexts, NotifyTask(c) \/ NotifyIsr(c)
  PROVE  TypeOK'
<1>1. owed' \subseteq Threads /\ owed \subseteq owed'
  BY DEF NotifyTask, NotifyIsr, Owe, TypeOK
<1>2. CASE NotifyTask(c)
  BY <1>1, <1>2, TypeSetBits DEF NotifyTask, TypeOK
<1>3. CASE NotifyIsr(c)
  <2>1. pended' \in Seq(Contexts) /\ Len(pended') <= TimerQueue
    <3>1. pended \in Seq(Contexts) /\ Len(pended) \in Nat /\ Len(pended) <= TimerQueue
      BY DEF TypeOK
    <3>2. Append(pended, c) \in Seq(Contexts) /\ Len(Append(pended, c)) = Len(pended) + 1
      BY <3>1
    <3>3. pended' = pended \/ (pended' = Append(pended, c) /\ Len(pended) < TimerQueue)
      BY <1>3 DEF NotifyIsr
    <3>4. QED
      BY <3>1, <3>2, <3>3, ModemOsAssumption
  <2>2. taken' \subseteq owed'
    BY <1>1, <1>3 DEF NotifyIsr, TypeOK
  <2>3. UNCHANGED <<group, bits, callVars>>
    BY <1>3 DEF NotifyIsr
  <2>4. QED
    BY <1>1, <2>1, <2>2, <2>3 DEF TypeOK, callVars
<1>4. QED
  BY <1>2, <1>3

\* The timer task takes the oldest set off the queue.
LEMMA TypeTimerTask ==
  ASSUME TypeOK, TimerTask
  PROVE  TypeOK'
<1>1. Head(pended) \in Contexts /\ pended' \in Seq(Contexts) /\ Len(pended') <= TimerQueue
  <2>1. pended \in Seq(Contexts) /\ pended # <<>> /\ Len(pended) <= TimerQueue
    BY DEF TimerTask, TypeOK
  <2>2. pended' = Tail(pended) /\ Len(Tail(pended)) = Len(pended) - 1 /\ TimerQueue \in Nat
    BY <2>1, ModemOsAssumption DEF TimerTask
  <2>3. QED
    BY <2>1, <2>2
<1>2. owed' \subseteq Threads /\ owed \subseteq owed'
  BY DEF TimerTask, TypeOK
<1>3. /\ bits' \subseteq 0..23
      /\ pc' \in [Threads -> Active \cup {"idle"}] /\ got' \in [Threads -> BOOLEAN]
      /\ taken' \subseteq owed'
  <2>1. CASE SetBits(Head(pended))
    BY <1>1, <1>2, <2>1, TypeSetBits
  <2>2. CASE UNCHANGED <<bits, pc, got, taken>>
    BY <1>2, <2>2 DEF TypeOK
  <2>3. QED
    BY <2>1, <2>2 DEF TimerTask
<1>4. UNCHANGED <<group, context, timeout, left, elapsed>>
  BY DEF TimerTask
<1>5. QED
  BY <1>1, <1>2, <1>3, <1>4 DEF TypeOK

\* Every step keeps the types.
LEMMA TypeNext == TypeOK /\ [Next]_vars => TypeOK'
<1> SUFFICES ASSUME TypeOK, [Next]_vars PROVE TypeOK'
  OBVIOUS
<1>1. CASE OsInit
  BY <1>1 DEF OsInit, TypeOK, callVars
<1>2. CASE OsShutdown
  <2>1. pc' \in [Threads -> Active \cup {"idle"}]
    BY <1>2 DEF OsShutdown, TypeOK, Active
  <2>2. QED
    BY <1>2, <2>1 DEF OsShutdown, TypeOK
<1>3. ASSUME NEW t \in Threads, NEW c \in Contexts, NEW ms \in Timeouts, Enter(t, c, ms)
      PROVE  TypeOK'
  <2>1. /\ pc' \in [Threads -> Active \cup {"idle"}]
        /\ context' \in [Threads -> Contexts \cup {0}]
        /\ timeout' \in [Threads -> Timeouts \cup {0}]
    BY <1>3 DEF Enter, TypeOK, Active
  <2>2. QED
    BY <1>3, <2>1 DEF Enter, TypeOK, groupVars
<1>4. CASE Tick
  <2>1. pc' \in [Threads -> Active \cup {"idle"}]
    BY <1>4 DEF Tick, TypeOK, Active
  <2>2. elapsed' \in [Threads -> 0..MaxElapsed]
    BY <1>4, ModemOsAssumption DEF Tick, TypeOK
  <2>3. left' \in [Threads -> Nat \cup {portMAX_DELAY}]
    <3>1. \A t \in Threads : left[t] \in Nat \cup {portMAX_DELAY}
      BY DEF TypeOK
    <3>2. \A t \in Threads : left[t] > 0 => left[t] - 1 \in Nat
      BY <3>1 DEF portMAX_DELAY
    <3>3. QED
      BY <1>4, <3>1, <3>2 DEF Tick
  <2>4. QED
    BY <1>4, <2>1, <2>2, <2>3 DEF Tick, TypeOK, groupVars
<1>5. CASE UNCHANGED vars
  BY <1>5 DEF vars, groupVars, callVars, TypeOK
<1>6. QED
  BY <1>1, <1>2, <1>3, <1>4, <1>5, TypeStep, TypeNotify, TypeTimerTask DEF Next

-----------------------------------------------------------------------------
(***************************************************************************)
(* The glue as a whole: in a behaviour of PartsSpec the heap is one of     *)
(* Shmem, whose invariant therefore holds in it.                           *)
(***************************************************************************)
HeapProofs == INSTANCE ShmemProofs

\* The parameters of the heap are those that ShmemProofs asks for.
LEMMA HeapParameters == HeapProofs!Parameters
BY ShmemAssumption DEF HeapProofs!Parameters

\* A step of the whole is one of Shmem or leaves the heap alone.
LEMMA HeapMoves == [PartsNext]_all => [HeapProofs!Next]_(HeapProofs!vars)
<1>1. Heap!Next = HeapProofs!Next
  BY DEF Heap!Next, HeapProofs!Next, Heap!shmem_malloc, HeapProofs!shmem_malloc, Heap!shmem_free,
           HeapProofs!shmem_free, Heap!LibcSbrk, HeapProofs!LibcSbrk, Heap!chunk_end,
           HeapProofs!chunk_end, Heap!Aligned, HeapProofs!Aligned, Heap!AlignTo, HeapProofs!AlignTo,
           Heap!chunk_size, HeapProofs!chunk_size, Heap!sbrk_aligned, HeapProofs!sbrk_aligned,
           Heap!Split, HeapProofs!Split, Heap!FromSbrk, HeapProofs!FromSbrk, Heap!AtTop,
           HeapProofs!AtTop, Heap!FirstFit, HeapProofs!FirstFit, Heap!GrowSize, HeapProofs!GrowSize,
           Heap!GrowLast, HeapProofs!GrowLast, Heap!MergeNext, HeapProofs!MergeNext, Heap!Insert,
           HeapProofs!Insert, Heap!Null, HeapProofs!Null, Heap!HEAD, HeapProofs!HEAD,
           Heap!CHUNK_ALIGN, HeapProofs!CHUNK_ALIGN, Heap!MINSIZE, HeapProofs!MINSIZE,
           Heap!ReplaceAt, HeapProofs!ReplaceAt, Heap!RemoveAt, HeapProofs!RemoveAt, Heap!InsertAt,
           HeapProofs!InsertAt, Heap!Front, HeapProofs!Front, Heap!Last, HeapProofs!Last, Heap!Min,
           HeapProofs!Min, Heap!vars, HeapProofs!vars
<1>2. QED
  BY <1>1 DEF PartsNext, Allocating, Waiting, all, heapVars, HeapProofs!vars

\* So its invariant holds throughout.
LEMMA AllocatingInv == PartsSpec => []HeapProofs!IInv
<1>1. PartsInit => HeapProofs!IInv
  <2>1. PartsInit => HeapProofs!Init
    BY DEF PartsInit, Heap!Init, HeapProofs!Init, Heap!Null, HeapProofs!Null
  <2>2. QED
    BY <2>1, HeapParameters, HeapProofs!InitIInv
<1>2. HeapProofs!IInv /\ [PartsNext]_all => HeapProofs!IInv'
  BY HeapMoves, HeapParameters, HeapProofs!NextStep, HeapProofs!StutterIInv
<1>3. QED
  BY <1>1, <1>2, PTL DEF PartsSpec

\* The free list stays sorted by address, merged and aligned, for every heap, size and
\* increment of the C library (shmem_malloc and shmem_free).
THEOREM ListStaysCoalesced == PartsSpec => []FreeListCoalesced
<1>1. HeapProofs!IInv => FreeListCoalesced
  BY HeapParameters, HeapProofs!IInvMeans
     DEF FreeListCoalesced, Heap!FreeListCoalesced, HeapProofs!FreeListCoalesced,
         Heap!Free, HeapProofs!Free,
         Heap!chunk_end, HeapProofs!chunk_end, Heap!Aligned, HeapProofs!Aligned, Heap!HEAD,
         HeapProofs!HEAD, Heap!CHUNK_ALIGN, HeapProofs!CHUNK_ALIGN, Heap!MINSIZE,
         HeapProofs!MINSIZE
<1>2. QED
  BY <1>1, AllocatingInv, PTL

\* No word of the heap is lost, padding apart, while there is memory above the break
\* (__malloc_sbrk_aligned and __malloc_grow_chunk).
THEOREM NothingLost == PartsSpec => []LostOnlyWhenFull
<1>1. HeapProofs!IInv => LostOnlyWhenFull
  BY HeapParameters, HeapProofs!IInvMeans
     DEF LostOnlyWhenFull, Heap!LostOnlyWhenFull, HeapProofs!LostOnlyWhenFull,
         Heap!WordsOf, HeapProofs!WordsOf,
         Heap!Words, HeapProofs!Words, Heap!Free, HeapProofs!Free, Heap!chunk_end,
         HeapProofs!chunk_end, Heap!Aligned, HeapProofs!Aligned, Heap!HEAD, HeapProofs!HEAD,
         Heap!CHUNK_ALIGN, HeapProofs!CHUNK_ALIGN
<1>2. QED
  BY <1>1, AllocatingInv, PTL

\* shmem_malloc answers NULL only when nothing would fit, in the free list or above it.
THEOREM NullMeansFull == PartsSpec => NullOnlyWhenFull
<1>1. HeapProofs!IInv /\ [PartsNext]_all => [HeapProofs!NullStep]_(HeapProofs!vars)
  BY HeapMoves, HeapParameters, HeapProofs!NullIsFull
<1>2. [HeapProofs!NullStep]_(HeapProofs!vars) =>
        [refused' # 0 =>
           /\ \A c \in Heap!Free : c.size < refused'
           /\ IF Heap!AtTop /\ brk = __malloc_sbrk_top
              THEN Heap!Last(freeList).size + (Limit - brk) < refused'
              ELSE Limit - brk < refused' + (IF Heap!Aligned(brk) THEN 0 ELSE 1)
                                          + Heap!Cardinality(libc' \ libc)]_(Heap!vars)
  BY DEF HeapProofs!NullStep, Heap!vars, HeapProofs!vars, Heap!Cardinality,
         HeapProofs!Cardinality, Heap!Free, HeapProofs!Free, Heap!AtTop, HeapProofs!AtTop,
         Heap!Last, HeapProofs!Last, Heap!chunk_end, HeapProofs!chunk_end, Heap!Aligned,
         HeapProofs!Aligned, Heap!HEAD, HeapProofs!HEAD, Heap!CHUNK_ALIGN,
         HeapProofs!CHUNK_ALIGN
<1>3. QED
  BY <1>1, <1>2, AllocatingInv, PTL DEF PartsSpec, NullOnlyWhenFull, Heap!NullOnlyWhenFull

\* shmem.c hands out disjoint blocks that are large enough and that the C library has not
\* taken, beside the waits of the OS layer as alone.
THEOREM ShmemIsAllocator == PartsSpec => ImplementsAllocator
<1>1. PartsInit => Heap!Promised!Init
  BY DEF PartsInit, Heap!Init, Heap!Promised!Init
<1>2. HeapProofs!IInv /\ [PartsNext]_all => [Heap!Promised!Next]_<<live, libc>>
  <2>1. HeapProofs!IInv /\ [PartsNext]_all => [HeapProofs!Promised!Next]_<<live, libc>>
    BY HeapMoves, HeapParameters, HeapProofs!NextStep DEF HeapProofs!vars
  <2>2. Heap!Promised!Next = HeapProofs!Promised!Next
    BY DEF Heap!Promised!Next, HeapProofs!Promised!Next, Heap!Promised!Take,
           HeapProofs!Promised!Take, Heap!Promised!Alloc, HeapProofs!Promised!Alloc,
           Heap!Promised!Free, HeapProofs!Promised!Free, Heap!Promised!WordsOf,
           HeapProofs!Promised!WordsOf, Heap!Promised!Words, HeapProofs!Promised!Words,
           Heap!HEAD, HeapProofs!HEAD
  <2>3. QED
    BY <2>1, <2>2
<1>3. QED
  BY <1>1, <1>2, AllocatingInv, PTL DEF PartsSpec, ImplementsAllocator, Heap!ImplementsAllocator,
     Heap!Promised!Spec

\* Every variable of the glue keeps its type, for every thread, context, timeout, size of
\* the timer queue and heap: no more sets are pending than the timer queue has places, the
\* break stays inside the heap (nrf_modem_os_event_notify and __malloc_sbrk_aligned).
THEOREM TypesCorrect == PartsSpec => []TypesOK
<1>1. PartsInit => (part \in {"shmem", "os"} /\ TypeOK)
  BY TypeInit DEF PartsInit
<1>2. part \in {"shmem", "os"} /\ TypeOK /\ [PartsNext]_all =>
        (part \in {"shmem", "os"} /\ TypeOK)'
  <2>1. [PartsNext]_all => part' = part /\ [Next]_vars
    BY DEF PartsNext, Allocating, Waiting, all
  <2>2. QED
    BY <2>1, TypeNext
<1>3. HeapProofs!IInv => Heap!TypeOK
  BY HeapParameters, HeapProofs!IInvMeans
     DEF Heap!TypeOK, HeapProofs!TypeOK, Heap!Null, HeapProofs!Null, Heap!Chunks,
         HeapProofs!Chunks
<1>4. QED
  BY <1>1, <1>2, <1>3, AllocatingInv, PTL DEF PartsSpec, TypesOK
=============================================================================
