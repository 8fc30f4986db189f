-------------------------- MODULE ZbLightBulbProofs --------------------------
(***************************************************************************)
(* Proofs about ZbLightBulb, for every interval and every bound: its types *)
(* and that the bulb keeps trying to join.                                 *)
(*                                                                         *)
(* BulbKeepsTrying looks at a bulb with no signal waiting.  The inductive  *)
(* invariant says the same of a bulb with signals on their way: one of     *)
(* them will schedule an attempt and none behind it will cancel it, or an  *)
(* attempt is scheduled and none will cancel it.                           *)
(***************************************************************************)
EXTENDS ZbLightBulb, TLAPS

USE BulbAssumption

\* A signal whose handler schedules an attempt when the bulb is out of the network.
Rescue(s) ==
    \/ s.sig = "FIRST_START"
    \/ s.sig \in {"REBOOT", "STEERING"} /\ ~s.ok
    \/ s.sig = "LEAVE" /\ s.ok

\* A signal whose handler cancels one.
Stops(s) == s.sig \in {"REBOOT", "STEERING"} /\ s.ok

Calm(q) == \A j \in 1..Len(q) : ~Stops(q[j])

Promised(q) == \E i \in 1..Len(q) : Rescue(q[i]) /\ \A j \in i + 1..Len(q) : ~Stops(q[j])

Router == [joined : BOOLEAN, bdb : {"off", "init", "idle", "steering"},
           initialised : BOOLEAN, started : BOOLEAN, stopRequested : BOOLEAN,
           inProgress : BOOLEAN, attempts : Nat, alarms : Nat, led : BOOLEAN]

Typed(r) == r \in Router /\ AttemptOK(r.attempts)

\* A stop request never outlives the handler that made it, and the stack is
\* initialised before anything is commissioned or rejoined.
Settled(r) ==
    /\ ~r.stopRequested
    /\ r.bdb # "off" \/ r.started \/ r.alarms > 0 => r.initialised

OnItsWay ==
    ~router.joined /\ router.bdb = "idle" /\ lost = {} =>
        Promised(signals) \/ (router.alarms > 0 /\ Calm(signals))

IInv == TypeOK /\ Settled(router) /\ OnItsWay

-----------------------------------------------------------------------------
(* The signals that wait.                                                    *)

\* What taking the oldest signal and adding one do to the queue.
LEMMA HeadTail ==
  ASSUME NEW q \in Seq(Signal), q # <<>>
  PROVE  /\ Head(q) \in Signal /\ Tail(q) \in Seq(Signal)
         /\ Len(q) \in Nat \ {0} /\ Len(Tail(q)) = Len(q) - 1
         /\ Head(q) = q[1]
         /\ \A i \in 1..Len(Tail(q)) : Tail(q)[i] = q[i + 1]
  OBVIOUS

LEMMA AppendEnd ==
  ASSUME NEW q \in Seq(Signal), NEW e \in Signal
  PROVE  /\ Append(q, e) \in Seq(Signal) /\ Len(q) \in Nat
         /\ Len(Append(q, e)) = Len(q) + 1
         /\ \A i \in 1..Len(q) : Append(q, e)[i] = q[i]
         /\ Append(q, e)[Len(q) + 1] = e
  OBVIOUS

\* A rescue that is queued is queued behind all that could stop it.
LEMMA AppendRescue ==
  ASSUME NEW q \in Seq(Signal), NEW e \in Signal, Rescue(e)
  PROVE  Promised(Append(q, e))
<1>1. Rescue(Append(q, e)[Len(q) + 1]) /\ Len(q) + 1 \in 1..Len(Append(q, e))
  BY AppendEnd
<1>2. \A j \in (Len(q) + 1) + 1..Len(Append(q, e)) : ~Stops(Append(q, e)[j])
  BY AppendEnd
<1>3. QED
  BY <1>1, <1>2 DEF Promised

\* A signal that stops nothing leaves what is promised as it was.
LEMMA AppendCalm ==
  ASSUME NEW q \in Seq(Signal), NEW e \in Signal, ~Stops(e)
  PROVE  /\ Promised(q) => Promised(Append(q, e))
         /\ Calm(q) => Calm(Append(q, e))
<1>1. \A i \in 1..Len(Append(q, e)) :
          \/ i \in 1..Len(q) /\ Append(q, e)[i] = q[i]
          \/ i = Len(q) + 1 /\ Append(q, e)[i] = e
  BY AppendEnd
<1>2. ASSUME Promised(q) PROVE Promised(Append(q, e))
  <2>1. PICK i \in 1..Len(q) : Rescue(q[i]) /\ \A j \in i + 1..Len(q) : ~Stops(q[j])
    BY <1>2 DEF Promised
  <2>2. i \in 1..Len(Append(q, e)) /\ Rescue(Append(q, e)[i])
    BY <2>1, AppendEnd
  <2>3. ASSUME NEW j \in i + 1..Len(Append(q, e)) PROVE ~Stops(Append(q, e)[j])
    <3>1. j \in 1..Len(Append(q, e))
      BY <2>1
    <3>2. CASE j \in 1..Len(q) /\ Append(q, e)[j] = q[j]
      BY <2>1, <3>2
    <3>3. QED
      BY <1>1, <3>1, <3>2
  <2>4. QED
    BY <2>2, <2>3 DEF Promised
<1>3. ASSUME Calm(q) PROVE Calm(Append(q, e))
  BY <1>1, <1>3 DEF Calm
<1>4. QED
  BY <1>2, <1>3

\* The oldest signal is the one that was promised, or the promise stands without it.
LEMMA TailPromised ==
  ASSUME NEW q \in Seq(Signal), q # <<>>, Promised(q)
  PROVE  \/ Rescue(Head(q)) /\ Calm(Tail(q))
         \/ Promised(Tail(q))
<1>1. PICK i \in 1..Len(q) : Rescue(q[i]) /\ \A j \in i + 1..Len(q) : ~Stops(q[j])
  BY DEF Promised
<1>2. CASE i = 1
  <2>1. \A j \in 1..Len(Tail(q)) : j + 1 \in i + 1..Len(q) /\ Tail(q)[j] = q[j + 1]
    BY <1>2, HeadTail
  <2>2. QED
    BY <1>1, <1>2, <2>1, HeadTail DEF Calm
<1>3. CASE i # 1
  <2>1. i - 1 \in 1..Len(Tail(q)) /\ Tail(q)[i - 1] = q[i]
    BY <1>3, HeadTail
  <2>2. \A j \in (i - 1) + 1..Len(Tail(q)) : j + 1 \in i + 1..Len(q) /\ Tail(q)[j] = q[j + 1]
    BY <2>1, HeadTail
  <2>3. QED
    BY <1>1, <2>1, <2>2 DEF Promised
<1>4. QED
  BY <1>2, <1>3

LEMMA TailCalm ==
  ASSUME NEW q \in Seq(Signal), q # <<>>, Calm(q)
  PROVE  ~Stops(Head(q)) /\ Calm(Tail(q))
<1>1. \A j \in 1..Len(Tail(q)) : j + 1 \in 1..Len(q) /\ Tail(q)[j] = q[j + 1]
  BY HeadTail
<1>2. ~Stops(q[1]) /\ Head(q) = q[1]
  BY HeadTail DEF Calm
<1>3. QED
  BY <1>1, <1>2 DEF Calm

-----------------------------------------------------------------------------
(* The rejoin procedure.                                                     *)

\* The interval stays below its maximum, or is the first to pass it.
LEMMA BackOffTyped ==
  ASSUME NEW k \in Nat, AttemptOK(k)
  PROVE  BackOff(k) \in Nat /\ AttemptOK(BackOff(k))
<1>1. (k + 1) - 1 = k
  OBVIOUS
<1>2. QED
  BY <1>1 DEF BackOff, AttemptOK

LEMMA Rejoined ==
  ASSUME NEW r, Typed(r), NEW full \in BOOLEAN, NEW n, n = rejoin_the_network(r, full)
  PROVE  /\ Typed(n)
         /\ n.joined = r.joined /\ n.bdb = r.bdb /\ n.initialised = r.initialised
         /\ n.alarms >= r.alarms /\ (n.alarms > 0 => r.alarms > 0 \/ r.initialised)
         /\ NextAttempt(r) /\ ~full => n.alarms > 0
         /\ n.started => r.started
         /\ n.stopRequested => r.stopRequested /\ ~(r.started /\ r.initialised)
<1>1. BackOff(r.attempts) \in Nat /\ AttemptOK(BackOff(r.attempts))
  BY BackOffTyped DEF Typed, Router
<1>2. r \in Router /\ r.alarms \in Nat
  BY DEF Typed, Router
<1>3. CASE ~r.initialised \/ ~r.started
  <2>1. n = r
    BY <1>3 DEF rejoin_the_network, NextAttempt
  <2>2. QED
    BY <1>2, <1>3, <2>1 DEF NextAttempt
<1>4. CASE NextAttempt(r)
  <2>1. PICK a \in Nat : a = IF full THEN r.alarms ELSE r.alarms + 1
    BY <1>2
  <2>2. PICK b \in Nat : b = BackOff(r.attempts)
    BY <1>1
  <2>3. n = [r EXCEPT !.attempts = b, !.inProgress = TRUE, !.alarms = a]
    BY <1>4, <2>1, <2>2 DEF rejoin_the_network, NextAttempt
  <2>4. n \in Router
    BY <1>2, <2>1, <2>2, <2>3, Zenon DEF Router
  <2>5. /\ n.attempts = b /\ n.alarms = a
        /\ n.joined = r.joined /\ n.bdb = r.bdb /\ n.initialised = r.initialised
        /\ n.started = r.started /\ n.stopRequested = r.stopRequested
    BY <1>2, <2>3, SMT DEF Router
  <2>6. a >= r.alarms /\ (~full => a > 0)
    BY <1>2, <2>1
  <2>7. QED
    BY <1>1, <1>4, <2>2, <2>4, <2>5, <2>6 DEF NextAttempt, Typed
<1>5. CASE r.initialised /\ r.started /\ ~NextAttempt(r)
  <2>1. \/ n = r /\ ~r.stopRequested
        \/ n = [r EXCEPT !.started = FALSE, !.stopRequested = FALSE]
    BY <1>5 DEF rejoin_the_network, NextAttempt, Typed, Router
  <2>2. CASE n = [r EXCEPT !.started = FALSE, !.stopRequested = FALSE]
    <3>1. n \in Router
      BY <1>2, <2>2, Zenon DEF Router
    <3>2. /\ n.attempts = r.attempts /\ n.alarms = r.alarms
          /\ n.joined = r.joined /\ n.bdb = r.bdb /\ n.initialised = r.initialised
          /\ ~n.started /\ ~n.stopRequested
      BY <1>2, <2>2, SMT DEF Router
    <3>3. QED
      BY <1>2, <1>5, <3>1, <3>2 DEF Typed
  <2>3. CASE n = r /\ ~r.stopRequested
    <3>1. n.alarms >= r.alarms /\ n.alarms = r.alarms
      BY <1>2, <2>3
    <3>2. QED
      BY <1>5, <2>3, <3>1, Zenon
  <2>4. QED
    BY <2>1, <2>2, <2>3
<1>6. QED
  BY <1>3, <1>4, <1>5 DEF NextAttempt

LEMMA Started ==
  ASSUME NEW r, Typed(r), NEW n, n = start_network_rejoin(r)
  PROVE  /\ Typed(n)
         /\ n.joined = r.joined /\ n.bdb = r.bdb /\ n.initialised = r.initialised
         /\ n.alarms = r.alarms
         /\ n.started => r.started \/ r.initialised
         /\ n.stopRequested => r.stopRequested
         /\ ~r.joined /\ r.initialised /\ ~r.stopRequested => NextAttempt(n)
<1>1. r \in Router
  BY DEF Typed
<1>2. CASE r.joined \/ ~r.initialised
  <2>1. n = r
    BY <1>2, Zenon DEF start_network_rejoin
  <2>2. QED
    BY <1>2, <2>1
<1>3. CASE ~r.joined /\ r.initialised /\ r.started
  <2>1. n = [r EXCEPT !.inProgress = FALSE]
    BY <1>3 DEF start_network_rejoin
  <2>2. n \in Router
    BY <1>1, <2>1, Zenon DEF Router
  <2>3. /\ n.attempts = r.attempts /\ n.alarms = r.alarms
        /\ n.joined = r.joined /\ n.bdb = r.bdb /\ n.initialised = r.initialised
        /\ n.started = r.started /\ n.stopRequested = r.stopRequested /\ ~n.inProgress
    BY <1>1, <2>1, SMT DEF Router
  <2>4. QED
    BY <1>3, <2>2, <2>3 DEF Typed, NextAttempt
<1>4. CASE ~r.joined /\ r.initialised /\ ~r.started
  <2>1. n = [r EXCEPT !.started = TRUE, !.stopRequested = FALSE, !.inProgress = FALSE, !.attempts = 0]
    BY <1>4 DEF start_network_rejoin
  <2>2. 0 \in Nat
    OBVIOUS
  <2>3. n \in Router
    BY <1>1, <2>1, <2>2, Zenon DEF Router
  <2>4. /\ n.attempts = 0 /\ n.alarms = r.alarms
        /\ n.joined = r.joined /\ n.bdb = r.bdb /\ n.initialised = r.initialised
        /\ n.started /\ ~n.stopRequested /\ ~n.inProgress
    BY <1>1, <2>1, SMT DEF Router
  <2>5. QED
    BY <1>4, <2>3, <2>4 DEF Typed, NextAttempt, AttemptOK
<1>5. QED
  BY <1>2, <1>3, <1>4

LEMMA Stopped ==
  ASSUME NEW r, Typed(r), NEW n, n = stop_network_rejoin(r)
  PROVE  /\ Typed(n)
         /\ n.joined = r.joined /\ n.bdb = r.bdb /\ n.initialised = r.initialised
         /\ n.started => r.started
         /\ n.alarms > 0 => r.alarms > 0
         /\ n.stopRequested => r.stopRequested \/ n.started
<1>1. r \in Router
  BY DEF Typed
<1>2. CASE ~r.started
  <2>1. n = r
    BY <1>2, Zenon DEF stop_network_rejoin
  <2>2. QED
    BY <1>2, <2>1
<1>3. CASE r.started /\ r.alarms > 0
  <2>1. n = [r EXCEPT !.alarms = @ - 1, !.started = FALSE, !.stopRequested = FALSE]
    BY <1>3 DEF stop_network_rejoin
  <2>2. r.alarms - 1 \in Nat
    BY <1>1, <1>3 DEF Router
  <2>3. n \in Router
    BY <1>1, <2>1, <2>2, Zenon DEF Router
  <2>4. /\ n.attempts = r.attempts /\ n.alarms = r.alarms - 1
        /\ n.joined = r.joined /\ n.bdb = r.bdb /\ n.initialised = r.initialised
        /\ ~n.started /\ ~n.stopRequested
    BY <1>1, <2>1, SMT DEF Router
  <2>5. QED
    BY <1>3, <2>3, <2>4 DEF Typed
<1>4. CASE r.started /\ ~(r.alarms > 0)
  <2>1. n = [r EXCEPT !.stopRequested = TRUE]
    BY <1>4 DEF stop_network_rejoin
  <2>2. n \in Router
    BY <1>1, <2>1, Zenon DEF Router
  <2>3. /\ n.attempts = r.attempts /\ n.alarms = r.alarms
        /\ n.joined = r.joined /\ n.bdb = r.bdb /\ n.initialised = r.initialised
        /\ n.started = r.started /\ n.stopRequested
    BY <1>1, <2>1, SMT DEF Router
  <2>4. QED
    BY <1>4, <2>2, <2>3 DEF Typed
<1>5. QED
  BY <1>2, <1>3, <1>4

-----------------------------------------------------------------------------
(* The handler.                                                              *)

\* Of what the rejoin procedure looks at, the handler leaves the rest alone; it
\* cancels only for a Stop, and schedules an attempt for a Rescue.
LEMMA Handled ==
  ASSUME NEW r, Typed(r), Settled(r), NEW s \in Signal, NEW full \in BOOLEAN,
         NEW n, n = zigbee_default_signal_handler(r, s, full)
  PROVE  /\ Typed(n) /\ Settled(n)
         /\ n.joined = r.joined
         /\ n.bdb = "idle" => r.bdb = "idle"
         /\ ~Stops(s) => n.alarms >= r.alarms
         /\ Rescue(s) /\ ~(s.sig = "FIRST_START" /\ ~s.ok) /\ ~r.joined /\ r.bdb = "idle" =>
                NextAttempt(SignalCases(r, s)) /\ (~full => n.alarms > 0)
<1> DEFINE m == SignalCases(r, s)
<1>0. r \in Router /\ n = rejoin_the_network(m, full)
  BY DEF Typed, zigbee_default_signal_handler
<1>1. CASE m = r /\ ~Rescue(s)
  BY <1>0, <1>1, Rejoined DEF Settled
<1>2. CASE m = start_network_rejoin(r) /\ ~Stops(s)
  <2>1. /\ Typed(m)
        /\ m.joined = r.joined /\ m.bdb = r.bdb /\ m.initialised = r.initialised
        /\ m.alarms = r.alarms
        /\ m.started => r.started \/ r.initialised
        /\ m.stopRequested => r.stopRequested
        /\ ~r.joined /\ r.initialised /\ ~r.stopRequested => NextAttempt(m)
    BY <1>2, Started
  <2>2. /\ Typed(n)
        /\ n.joined = m.joined /\ n.bdb = m.bdb /\ n.initialised = m.initialised
        /\ n.alarms >= m.alarms /\ (n.alarms > 0 => m.alarms > 0 \/ m.initialised)
        /\ NextAttempt(m) /\ ~full => n.alarms > 0
        /\ n.started => m.started
        /\ n.stopRequested => m.stopRequested /\ ~(m.started /\ m.initialised)
    BY <1>0, <2>1, Rejoined
  <2>3. QED
    BY <2>1, <2>2 DEF Settled
<1>3. CASE m = stop_network_rejoin(r) /\ Stops(s)
  <2>1. /\ Typed(m)
        /\ m.joined = r.joined /\ m.bdb = r.bdb /\ m.initialised = r.initialised
        /\ m.started => r.started
        /\ m.alarms > 0 => r.alarms > 0
        /\ m.stopRequested => r.stopRequested \/ m.started
    BY <1>3, Stopped
  <2>2. /\ Typed(n)
        /\ n.joined = m.joined /\ n.bdb = m.bdb /\ n.initialised = m.initialised
        /\ n.alarms > 0 => m.alarms > 0 \/ m.initialised
        /\ n.started => m.started
        /\ n.stopRequested => m.stopRequested /\ ~(m.started /\ m.initialised)
    BY <1>0, <2>1, Rejoined
  <2>3. ~Rescue(s)
    BY <1>3 DEF Rescue, Stops
  <2>4. QED
    BY <1>3, <2>1, <2>2, <2>3 DEF Settled
<1>4. CASE m = SkipStartup(r) /\ ~Rescue(s)
  <2>1. /\ Typed(m) /\ Settled(m)
        /\ m.joined = r.joined /\ m.alarms = r.alarms /\ m.bdb # "idle" /\ m.initialised
    <3>1. PICK b \in {"off", "init", "idle", "steering"} :
              /\ b = IF r.bdb \in {"off", "idle"} THEN "init" ELSE r.bdb
              /\ m = [r EXCEPT !.initialised = TRUE, !.bdb = b]
      BY <1>0, <1>4 DEF SkipStartup, Commission, Router
    <3>2. m \in Router
      BY <1>0, <3>1, Zenon DEF Router
    <3>3. /\ m.attempts = r.attempts /\ m.alarms = r.alarms /\ m.joined = r.joined
          /\ m.stopRequested = r.stopRequested /\ m.bdb = b /\ m.initialised
      BY <1>0, <3>1, SMT DEF Router
    <3>4. QED
      BY <3>1, <3>2, <3>3 DEF Typed, Settled
  <2>2. /\ Typed(n)
        /\ n.joined = m.joined /\ n.bdb = m.bdb /\ n.initialised = m.initialised
        /\ n.alarms >= m.alarms
        /\ n.started => m.started
        /\ n.stopRequested => m.stopRequested
    BY <1>0, <2>1, Rejoined
  <2>3. QED
    BY <1>4, <2>1, <2>2 DEF Settled
<1>5. \/ m = r /\ ~Rescue(s)
      \/ m = start_network_rejoin(r) /\ ~Stops(s)
      \/ m = stop_network_rejoin(r) /\ Stops(s)
      \/ m = SkipStartup(r) /\ ~Rescue(s)
      \/ m = r /\ s.sig = "FIRST_START" /\ ~s.ok
  BY DEF SignalCases, FirstStart, Reboot, Steering, Leave, Rescue, Stops, Signal
<1>6. CASE m = r /\ s.sig = "FIRST_START" /\ ~s.ok
  BY <1>0, <1>6, Rejoined DEF Settled
<1>7. QED
  BY <1>1, <1>2, <1>3, <1>4, <1>5, <1>6

\* The LED has no part in it.
LEMMA Led ==
  ASSUME NEW r, Typed(r), NEW s \in Signal, NEW n, n = zigbee_led_status_update(r, s)
  PROVE  /\ Typed(n)
         /\ n.joined = r.joined /\ n.bdb = r.bdb /\ n.initialised = r.initialised
         /\ n.started = r.started /\ n.stopRequested = r.stopRequested
         /\ n.alarms = r.alarms
<1>1. r \in Router /\ s.ok \in BOOLEAN
  BY DEF Typed, Signal
<1>2. n = r \/ \E l \in BOOLEAN : n = [r EXCEPT !.led = l]
  BY <1>1 DEF zigbee_led_status_update
<1>3. CASE n = r
  BY <1>3
<1>4. ASSUME NEW l \in BOOLEAN, n = [r EXCEPT !.led = l]
      PROVE  /\ Typed(n)
             /\ n.joined = r.joined /\ n.bdb = r.bdb /\ n.initialised = r.initialised
             /\ n.started = r.started /\ n.stopRequested = r.stopRequested
             /\ n.alarms = r.alarms
  <2>1. n \in Router
    BY <1>1, <1>4, Zenon DEF Router
  <2>2. /\ n.attempts = r.attempts
        /\ n.joined = r.joined /\ n.bdb = r.bdb /\ n.initialised = r.initialised
        /\ n.started = r.started /\ n.stopRequested = r.stopRequested
        /\ n.alarms = r.alarms
    BY <1>1, <1>4, SMT DEF Router
  <2>3. QED
    BY <2>1, <2>2 DEF Typed
<1>5. QED
  BY <1>2, <1>3, <1>4

LEMMA TypedRouter == TypeOK <=> Typed(router) /\ signals \in Seq(Signal) /\ lost \subseteq {"alarm", "first start"}
BY DEF TypeOK, Typed, Router

-----------------------------------------------------------------------------
(* The invariant.                                                            *)

LEMMA Initially == Init => IInv
<1> SUFFICES ASSUME Init PROVE IInv
  OBVIOUS
<1>1. Typed(router) /\ Settled(router) /\ router.bdb # "idle"
  BY DEF Init, Typed, Router, Settled, AttemptOK
<1>2. signals \in Seq(Signal)
  BY DEF Init, Signal
<1>3. QED
  BY <1>1, <1>2, TypedRouter DEF IInv, OnItsWay, Init

LEMMA HandlerStep ==
  ASSUME IInv, NEW full \in BOOLEAN, zboss_signal_handler(full)
  PROVE  IInv'
<1> DEFINE s == Head(signals)
<1>1. /\ Typed(router) /\ Settled(router)
      /\ signals \in Seq(Signal) /\ signals # <<>> /\ s \in Signal
      /\ Tail(signals) \in Seq(Signal) /\ signals' = Tail(signals)
      /\ lost \subseteq {"alarm", "first start"}
  BY TypedRouter, HeadTail DEF IInv, zboss_signal_handler
<1>2. PICK u : u = zigbee_led_status_update(router, s)
  OBVIOUS
<1> HIDE DEF s
<1>3. /\ router' = zigbee_default_signal_handler(u, s, full)
      /\ lost' = lost \cup (IF full /\ NextAttempt(SignalCases(router, s)) THEN {"alarm"} ELSE {})
                      \cup (IF s.sig = "FIRST_START" /\ ~s.ok THEN {"first start"} ELSE {})
  BY <1>2 DEF zboss_signal_handler, s
<1>4. /\ Typed(u) /\ Settled(u)
      /\ u.joined = router.joined /\ u.bdb = router.bdb /\ u.alarms = router.alarms
  <2>1. /\ Typed(u)
        /\ u.joined = router.joined /\ u.bdb = router.bdb /\ u.initialised = router.initialised
        /\ u.started = router.started /\ u.stopRequested = router.stopRequested
        /\ u.alarms = router.alarms
    BY <1>1, <1>2, Led
  <2>2. QED
    BY <1>1, <2>1 DEF Settled
<1>5. /\ Typed(router') /\ Settled(router')
      /\ router'.joined = router.joined
      /\ router'.bdb = "idle" => router.bdb = "idle"
      /\ ~Stops(s) => router'.alarms >= router.alarms
      /\ Rescue(s) /\ ~(s.sig = "FIRST_START" /\ ~s.ok) /\ ~router.joined /\ router.bdb = "idle" /\ ~full =>
             router'.alarms > 0
  <2>1. /\ Typed(router') /\ Settled(router')
        /\ router'.joined = u.joined
        /\ router'.bdb = "idle" => u.bdb = "idle"
        /\ ~Stops(s) => router'.alarms >= u.alarms
        /\ Rescue(s) /\ ~(s.sig = "FIRST_START" /\ ~s.ok) /\ ~u.joined /\ u.bdb = "idle" /\ ~full =>
               router'.alarms > 0
    <3>1. PICK n : n = router' /\ n = zigbee_default_signal_handler(u, s, full)
      BY <1>3
    <3>2. /\ Typed(n) /\ Settled(n)
          /\ n.joined = u.joined
          /\ n.bdb = "idle" => u.bdb = "idle"
          /\ ~Stops(s) => n.alarms >= u.alarms
          /\ Rescue(s) /\ ~(s.sig = "FIRST_START" /\ ~s.ok) /\ ~u.joined /\ u.bdb = "idle" =>
                NextAttempt(SignalCases(u, s)) /\ (~full => n.alarms > 0)
      BY <1>1, <1>4, <3>1, Handled
    <3>3. QED
      BY <3>1, <3>2
  <2>2. QED
    BY <1>4, <2>1
<1>6. Rescue(s) /\ ~(s.sig = "FIRST_START" /\ ~s.ok) /\ ~router.joined /\ router.bdb = "idle" =>
          NextAttempt(SignalCases(router, s))
  BY <1>1, Handled
<1>7. TypeOK'
  <2>1. lost' \subseteq {"alarm", "first start"}
    BY <1>1, <1>3
  <2>2. QED
    BY <1>1, <1>5, <2>1 DEF TypeOK, Typed, Router
<1>8. OnItsWay'
  <2> SUFFICES ASSUME ~router'.joined, router'.bdb = "idle", lost' = {}
               PROVE  Promised(Tail(signals)) \/ (router'.alarms > 0 /\ Calm(Tail(signals)))
    BY <1>1 DEF OnItsWay, Promised, Calm
  <2>1. ~router.joined /\ router.bdb = "idle" /\ lost = {}
    BY <1>3, <1>5
  <2>2. ~(s.sig = "FIRST_START" /\ ~s.ok) /\ ~(full /\ NextAttempt(SignalCases(router, s)))
    BY <1>3
  <2>3. CASE Promised(signals)
    <3>1. Rescue(s) => router'.alarms > 0
      BY <1>5, <1>6, <2>1, <2>2
    <3>2. QED
      BY <1>1, <2>3, <3>1, TailPromised DEF s
  <2>4. CASE router.alarms > 0 /\ Calm(signals)
    <3>1. ~Stops(s) /\ Calm(Tail(signals))
      BY <1>1, <2>4, TailCalm DEF s
    <3>2. router.alarms \in Nat /\ router'.alarms \in Nat
      BY <1>1, <1>5 DEF Typed, Router
    <3>3. QED
      BY <1>5, <2>4, <3>1, <3>2
  <2>5. QED
    BY <2>1, <2>3, <2>4 DEF IInv, OnItsWay
<1>9. QED
  BY <1>5, <1>7, <1>8 DEF IInv

LEMMA AlarmStep ==
  ASSUME IInv, SteeringAlarm
  PROVE  IInv'
<1>1. /\ router \in Router /\ AttemptOK(router.attempts) /\ Settled(router)
      /\ router.alarms > 0 /\ router.alarms - 1 \in Nat
  <2>1. Typed(router) /\ Settled(router) /\ router.alarms > 0
    BY TypedRouter DEF IInv, SteeringAlarm
  <2>2. QED
    BY <2>1 DEF Typed, Router
<1>2. PICK b \in {"off", "init", "idle", "steering"} :
          b # "idle" /\ router' = [router EXCEPT !.alarms = router.alarms - 1, !.bdb = b]
  BY <1>1 DEF SteeringAlarm, start_network_steering, Commission, Router
<1>3. router' \in Router
  BY <1>1, <1>2, Zenon DEF Router
<1>4. /\ router'.attempts = router.attempts /\ router'.bdb = b
      /\ router'.started = router.started /\ router'.stopRequested = router.stopRequested
      /\ router'.initialised = router.initialised
  BY <1>1, <1>2, SMT DEF Router
<1>5. TypeOK'
  BY <1>1, <1>3, <1>4 DEF IInv, TypeOK, Router, SteeringAlarm
<1>6. Settled(router')
  BY <1>1, <1>4 DEF Settled
<1>7. OnItsWay'
  BY <1>2, <1>4 DEF OnItsWay
<1>8. QED
  BY <1>5, <1>6, <1>7 DEF IInv

\* A commissioning that ends, or a leave: outside the network a rescue is queued last.
Idle(r, j) == [r EXCEPT !.bdb = "idle", !.joined = j]

LEMMA Ended ==
  ASSUME NEW r \in Router, NEW j \in BOOLEAN, NEW n, n = Idle(r, j)
  PROVE  /\ n \in Router
         /\ n.attempts = r.attempts /\ n.alarms = r.alarms
         /\ n.started = r.started /\ n.stopRequested = r.stopRequested
         /\ n.initialised = r.initialised /\ n.joined = j
<1>1. n \in Router
  BY Zenon DEF Idle, Router
<1>2. QED
  BY <1>1, SMT DEF Idle, Router

LEMMA NetworkStep ==
  ASSUME IInv, NEW j \in BOOLEAN, NEW e \in Signal, NEW q \in Seq(Signal), j # TRUE => Rescue(e),
         router.bdb # "off", router' = Idle(router, j),
         signals' = Append(q, e), UNCHANGED lost
  PROVE  IInv'
<1>1. /\ router \in Router /\ AttemptOK(router.attempts) /\ Settled(router)
      /\ lost \subseteq {"alarm", "first start"}
  BY TypedRouter DEF IInv, Typed
<1>2. PICK n : n = router' /\ n = Idle(router, j)
  OBVIOUS
<1>3. /\ n \in Router
      /\ n.attempts = router.attempts /\ n.alarms = router.alarms
      /\ n.started = router.started /\ n.stopRequested = router.stopRequested
      /\ n.initialised = router.initialised /\ n.joined = j
  <2>1. router \in Router /\ j \in BOOLEAN /\ n = Idle(router, j)
    BY <1>1, <1>2
  <2>2. n \in Router
    BY <2>1, Ended, Zenon
  <2>3. /\ n.attempts = router.attempts /\ n.alarms = router.alarms
        /\ n.started = router.started /\ n.stopRequested = router.stopRequested
        /\ n.initialised = router.initialised 
    BY <2>1, Ended
  <2>4. n.joined = j
    BY <2>1, Ended, Zenon
  <2>5. QED
    BY <2>2, <2>3, <2>4
<1>4. TypeOK'
  <2>1. router' \in Router /\ AttemptOK(router'.attempts)
    BY <1>1, <1>2, <1>3
  <2>2. signals' \in Seq(Signal)
    BY AppendEnd
  <2>3. lost' \subseteq {"alarm", "first start"}
    BY <1>1
  <2>4. QED
    BY <2>1, <2>2, <2>3 DEF TypeOK, Router
<1>5. Settled(router')
  BY <1>1, <1>2, <1>3 DEF Settled
<1>6. j # TRUE => Promised(signals')
  BY AppendRescue
<1>7. OnItsWay'
  BY <1>2, <1>3, <1>6 DEF OnItsWay, Promised
<1>8. QED
  BY <1>4, <1>5, <1>7 DEF IInv

LEMMA ReportStep ==
  ASSUME IInv, Report
  PROVE  IInv'
<1>1. PICK e \in Signal : signals' = Append(signals, e) /\ ~Stops(e)
  <2>1. PICK s \in Reports \cup Authorized \cup Unhandled : signals' = Append(signals, [sig |-> s, ok |-> TRUE])
    BY DEF Report, Queue
  <2>2. [sig |-> s, ok |-> TRUE] \in Signal /\ ~Stops([sig |-> s, ok |-> TRUE])
    BY DEF Signal, Stops, Reports, Authorized, Unhandled
  <2>3. QED
    BY <2>1, <2>2
<1>2. /\ router' = router /\ lost' = lost /\ TypeOK /\ Settled(router) /\ OnItsWay
      /\ signals \in Seq(Signal)
  BY DEF Report, IInv, TypeOK
<1>3. signals' \in Seq(Signal)
  BY <1>1, <1>2, AppendEnd
<1>4. /\ Promised(signals) => Promised(Append(signals, e))
      /\ Calm(signals) => Calm(Append(signals, e))
  BY <1>1, <1>2, AppendCalm
<1>5. OnItsWay'
  BY <1>1, <1>2, <1>4 DEF OnItsWay, Promised, Calm
<1>6. QED
  BY <1>2, <1>3, <1>5 DEF IInv, TypeOK

LEMMA InvStep == IInv /\ [Next]_vars => IInv'
<1> SUFFICES ASSUME IInv, [Next]_vars PROVE IInv'
  OBVIOUS
<1>1. CASE Handle
  BY <1>1, HandlerStep DEF Handle
<1>2. CASE SteeringAlarm
  BY <1>2, AlarmStep
<1>3. CASE BdbInitialised
  <2>1. PICK s \in {"FIRST_START", "REBOOT"}, ok \in BOOLEAN :
            /\ router' = Idle(router, (s = "REBOOT" /\ ok))
            /\ signals' = Append(signals, [sig |-> s, ok |-> ok])
    BY <1>3 DEF BdbInitialised, Queue, Idle
  <2>2. /\ [sig |-> s, ok |-> ok] \in Signal /\ (s = "REBOOT" /\ ok) \in BOOLEAN
        /\ ~(s = "REBOOT" /\ ok) => Rescue([sig |-> s, ok |-> ok])
    BY DEF Signal, Rescue
  <2>3. QED
    BY <1>3, <2>1, <2>2, NetworkStep DEF BdbInitialised, IInv, TypeOK
<1>4. CASE SteeringEnds
  <2>1. PICK ok \in BOOLEAN :
            /\ router' = Idle(router, ok)
            /\ signals' = Append(signals, [sig |-> "STEERING", ok |-> ok])
    BY <1>4 DEF SteeringEnds, Queue, Idle
  <2>2. /\ [sig |-> "STEERING", ok |-> ok] \in Signal
        /\ ~ok => Rescue([sig |-> "STEERING", ok |-> ok])
    BY DEF Signal, Rescue
  <2>3. QED
    BY <1>4, <2>1, <2>2, NetworkStep DEF SteeringEnds, IInv, TypeOK
<1>5. CASE LeaveNetwork
  <2>1. PICK ok \in BOOLEAN :
            /\ router' = [router EXCEPT !.joined = ~ok]
            /\ signals' = Append(signals, [sig |-> "LEAVE", ok |-> ok])
    BY <1>5 DEF LeaveNetwork, Queue
  <2>2. /\ [sig |-> "LEAVE", ok |-> ok] \in Signal /\ (~ok) \in BOOLEAN
        /\ ~(~ok) => Rescue([sig |-> "LEAVE", ok |-> ok])
    BY DEF Signal, Rescue
  <2>3. router \in Router
    BY TypedRouter DEF IInv, Typed
  <2>4. router' = Idle(router, ~ok)
    BY <1>5, <2>1, <2>3 DEF LeaveNetwork, Router, Idle
  <2>5. QED
    BY <1>5, <2>1, <2>2, <2>4, NetworkStep DEF LeaveNetwork, IInv, TypeOK
<1>6. CASE KeyExchangeFails
  <2> DEFINE a == [sig |-> "LEAVE", ok |-> TRUE]
             e == [sig |-> "STEERING", ok |-> FALSE]
  <2>1. a \in Signal /\ e \in Signal /\ Rescue(e)
    BY DEF Signal, Rescue
  <2>2. signals \in Seq(Signal) /\ router \in Router
    BY TypedRouter DEF IInv, Typed
  <2>3. signals' = Append(Append(signals, a), e) /\ Append(signals, a) \in Seq(Signal)
    BY <1>6, <2>1, <2>2 DEF KeyExchangeFails
  <2>4. router' = Idle(router, FALSE)
    BY <1>6, <2>2 DEF KeyExchangeFails, Router, Idle
  <2>5. QED
    BY <1>6, <2>1, <2>3, <2>4, NetworkStep DEF KeyExchangeFails
<1>7. CASE Report
  BY <1>7, ReportStep
<1>8. CASE UNCHANGED vars
  BY <1>8 DEF vars, IInv, TypeOK, OnItsWay, Promised, Calm
<1>9. QED
  BY <1>1, <1>2, <1>3, <1>4, <1>5, <1>6, <1>7, <1>8 DEF Next, Network

THEOREM InvariantHolds == Spec => []IInv
BY Initially, InvStep, PTL DEF Spec

\* The bulb's state has its type: the stop request, the interval (which passes its
\* maximum by at most one doubling) and the queue of signals.
THEOREM TypeCorrect == Spec => []TypeOK
<1>1. IInv => TypeOK
  BY DEF IInv
<1>2. QED
  BY <1>1, InvariantHolds, PTL

\* main.c:675-860: whatever order signals and alarms come in and whatever maximum the
\* interval has, a bulb out of the network with nothing going on has an attempt
\* scheduled, unless the alarm table was full or its first start failed.
THEOREM KeepsTrying == Spec => []BulbKeepsTrying
<1>1. ~Promised(<<>>)
  BY DEF Promised
<1>2. IInv => BulbKeepsTrying
  BY <1>1 DEF IInv, OnItsWay, BulbKeepsTrying, TypeOK
<1>3. QED
  BY <1>2, InvariantHolds, PTL

=============================================================================
