------------------------ MODULE ZbAppCallbackProofs ------------------------
(***************************************************************************)
(* Proofs about ZbAppCallback, for every set of tasks and requests and     *)
(* every size of the queues and tables.  They are about Spec, in which the *)
(* ZBOSS thread is started and never deleted, the last about DeinitSpec.   *)
(***************************************************************************)
EXTENDS ZbAppCallback, TLAPS

USE RequestAssumption, SizeAssumption

\* The head that ProcessDispatch peeked is still there for ProcessFlush to
\* receive: only the ZBOSS thread takes from zb_app_cb_msgq.
FlushHasHead == zboss = "flush" => zb_app_cb_msgq # <<>>

\* The range of zb_app_cb_msgq, of the history and of the program counters is
\* kept by every operation.
LEMMA TypeInit == Init => TypeOK /\ FlushHasHead
  BY DEF Init, TypeOK, FlushHasHead

\* What the queue operations return, on a queue of any elements.
LEMMA HeadTail ==
  ASSUME NEW S, NEW s \in Seq(S), s # <<>>
  PROVE  /\ Head(s) \in S /\ Tail(s) \in Seq(S) /\ Len(Tail(s)) = Len(s) - 1
         /\ Len(s) \in Nat \ {0} /\ Head(s) = s[1]
         /\ \A i \in 1..Len(Tail(s)) : Tail(s)[i] = s[i + 1]
  OBVIOUS

LEMMA AppendEnd ==
  ASSUME NEW S, NEW s \in Seq(S), NEW e \in S
  PROVE  /\ Append(s, e) \in Seq(S) /\ Len(Append(s, e)) = Len(s) + 1
         /\ Len(s) \in Nat /\ Append(s, e) # <<>>
         /\ \A i \in 1..Len(s) : Append(s, e)[i] = s[i]
         /\ Append(s, e)[Len(s) + 1] = e
  OBVIOUS

\* A ZBOSS table that takes a request keeps its range.
LEMMA HandType ==
  ASSUME NEW r \in Requests, TypeOK, ~Overflows(r), Hand(r)
  PROVE  /\ zbq' \in Seq(Requests \cup {Process}) /\ Len(zbq') <= ZbQueueLength
         /\ tables' \subseteq Requests
<1>1. /\ zbq \in Seq(Requests \cup {Process}) /\ Len(zbq) <= ZbQueueLength
      /\ tables \subseteq Requests
  BY DEF TypeOK
<1>2. CASE KindOf[r] = "callback" /\ zbq' = Append(zbq, r) /\ UNCHANGED tables
  <2>1. ~(Len(zbq) >= ZbQueueLength)
    BY <1>2 DEF Overflows
  <2>2. QED
    BY <1>1, <1>2, <2>1, AppendEnd
<1>3. CASE tables' = tables \cup {r} /\ UNCHANGED zbq
  BY <1>1, <1>3
<1>4. CASE tables' = tables \ {CancelTarget[r]} /\ UNCHANGED zbq
  BY <1>1, <1>4
<1>5. QED
  BY <1>2, <1>3, <1>4 DEF Hand

LEMMA TypeStep == TypeOK /\ FlushHasHead /\ [Next]_vars => TypeOK'
<1> SUFFICES ASSUME TypeOK, FlushHasHead, [Next]_vars PROVE TypeOK'
  OBVIOUS
<1> USE DEF TypeOK, osVars, stackVars, history
<1>1. ASSUME NEW t \in Tasks, NEW r \in Requests, ScheduleSend(t, r)
      PROVE  TypeOK'
  BY <1>1 DEF ScheduleSend
<1>2. ASSUME NEW t \in Tasks, NEW r \in Requests, ScheduleReject(t, r)
      PROVE  TypeOK'
  BY <1>2 DEF ScheduleReject
<1>3. ASSUME NEW t \in Tasks, ScheduleGive(t) PROVE TypeOK'
  BY <1>3 DEF ScheduleGive
<1>4. CASE WorkerTake
  BY <1>4 DEF WorkerTake
<1>5. CASE WorkerPeek
  BY <1>5 DEF WorkerPeek
<1>6. CASE WorkerExchange
  BY <1>6 DEF WorkerExchange
<1>7. CASE WorkerSchedule
  <2>1. CASE Len(zbq) < ZbQueueLength
    <3>1. zbq' = Append(zbq, Process) /\ worker' = "notify"
      BY <1>7, <2>1 DEF WorkerSchedule
    <3>2. zbq' \in Seq(Requests \cup {Process}) /\ Len(zbq') <= ZbQueueLength
      BY <2>1, <3>1, AppendEnd
    <3>3. QED
      BY <1>7, <3>1, <3>2 DEF WorkerSchedule
  <2>2. CASE ~(Len(zbq) < ZbQueueLength)
    BY <1>7, <2>2 DEF WorkerSchedule
  <2>3. QED
    BY <2>1, <2>2
<1>8. CASE WorkerDelay
  BY <1>8 DEF WorkerDelay
<1>9. CASE WorkerNotify
  BY <1>9 DEF WorkerNotify
<1>10. CASE ZbossEnable
  BY <1>10 DEF ZbossEnable
<1>11. CASE ZbossRun
  BY <1>11 DEF ZbossRun
<1>12. ASSUME NEW r \in Requests, ZbossDirect(r) PROVE TypeOK'
  BY <1>12, HandType DEF ZbossDirect
<1>13. ASSUME NEW r \in Requests, ZbossServe(r) PROVE TypeOK'
  BY <1>13 DEF ZbossServe
<1>14. CASE ZbossEnter
  BY <1>14 DEF ZbossEnter
<1>15. CASE ProcessClear
  BY <1>15 DEF ProcessClear
<1>16. CASE ProcessDispatch
  <2> DEFINE r == Head(zb_app_cb_msgq)
  <2>1. r \in Requests
    BY <1>16, HeadTail DEF ProcessDispatch
  <2>2. CASE Overflows(r)
    BY <1>16, <2>2 DEF ProcessDispatch
  <2>3. CASE ~Overflows(r)
    <3>1. /\ Hand(r) /\ dispatched' = Append(dispatched, r) /\ zboss' = "flush"
          /\ UNCHANGED <<osVars, task, worker, accepted, rejected, direct, deinits>>
      BY <1>16, <2>3 DEF ProcessDispatch
    <3>2. dispatched' \in Seq(Requests)
      BY <2>1, <3>1, AppendEnd
    <3>3. /\ zbq' \in Seq(Requests \cup {Process}) /\ Len(zbq') <= ZbQueueLength
          /\ tables' \subseteq Requests
      BY <2>1, <2>3, <3>1, HandType
    <3>4. /\ UNCHANGED <<osVars, task, worker, accepted, rejected, direct, deinits>>
          /\ zboss' = "flush"
      BY <3>1
    <3>5. QED
      BY <3>2, <3>3, <3>4
  <2>4. QED
    BY <2>2, <2>3
<1>17. CASE ProcessFlush
  BY <1>17, HeadTail DEF ProcessFlush, FlushHasHead
<1>18. CASE ProcessDone
  BY <1>18 DEF ProcessDone
<1>19. CASE ProcessOverflow
  BY <1>19 DEF ProcessOverflow
<1>20. CASE ZbossPoll
  BY <1>20 DEF ZbossPoll
<1>21. CASE ZbossWake
  BY <1>21 DEF ZbossWake
<1>22. CASE RadioNotify
  BY <1>22 DEF RadioNotify
<1>23. CASE UNCHANGED vars
  BY <1>23 DEF vars
<1>24. QED
  BY <1>1, <1>2, <1>3, <1>4, <1>5, <1>6, <1>7, <1>8, <1>9, <1>10, <1>11,
     <1>12, <1>13, <1>14, <1>15, <1>16, <1>17, <1>18, <1>19, <1>20, <1>21,
     <1>22, <1>23 DEF Next, Worker, Zboss

LEMMA FlushStep == TypeOK /\ FlushHasHead /\ [Next]_vars => FlushHasHead'
<1> SUFFICES ASSUME TypeOK, FlushHasHead, [Next]_vars PROVE FlushHasHead'
  OBVIOUS
<1> USE DEF FlushHasHead, osVars, stackVars, history
<1>1. ASSUME NEW t \in Tasks, NEW r \in Requests, ScheduleSend(t, r)
      PROVE  FlushHasHead'
  <2>1. zb_app_cb_msgq' # <<>>
    BY <1>1, AppendEnd DEF ScheduleSend, TypeOK
  <2>2. QED
    BY <2>1
<1>2. ASSUME NEW t \in Tasks, NEW r \in Requests, ScheduleReject(t, r)
      PROVE  FlushHasHead'
  BY <1>2 DEF ScheduleReject
<1>3. ASSUME NEW t \in Tasks, ScheduleGive(t) PROVE FlushHasHead'
  BY <1>3 DEF ScheduleGive
<1>4. CASE Worker
  BY <1>4 DEF Worker, WorkerTake, WorkerPeek, WorkerExchange, WorkerSchedule,
              WorkerDelay, WorkerNotify
<1>5. CASE ZbossEnable
  BY <1>5 DEF ZbossEnable
<1>6. CASE Zboss
  BY <1>6 DEF Zboss, ZbossRun, ZbossEnter, ProcessClear, ProcessDispatch,
              ProcessFlush, ProcessDone, ProcessOverflow, ZbossPoll, ZbossWake
<1>7. ASSUME NEW r \in Requests, ZbossDirect(r) \/ ZbossServe(r)
      PROVE  FlushHasHead'
  BY <1>7 DEF ZbossDirect, ZbossServe
<1>8. CASE RadioNotify
  BY <1>8 DEF RadioNotify
<1>9. CASE UNCHANGED vars
  BY <1>9 DEF vars
<1>10. QED
  BY <1>1, <1>2, <1>3, <1>4, <1>5, <1>6, <1>7, <1>8, <1>9 DEF Next

LEMMA TypeInvariant == Spec => [](TypeOK /\ FlushHasHead)
  BY TypeInit, TypeStep, FlushStep, PTL DEF Spec

\* Every variable of the deferred-call path stays in its range.
THEOREM TypeCorrect == Spec => []TypeOK
  BY TypeInvariant, PTL
-----------------------------------------------------------------------------
(* The flag zb_app_cb_process_scheduled and the one scheduled callback.    *)

Has(s) == \E i \in 1..Len(s) : s[i] = Process
Once(s) == \A i, j \in 1..Len(s) : s[i] = Process /\ s[j] = Process => i = j

LEMMA AppendOther ==
  ASSUME NEW s \in Seq(Requests \cup {Process}), NEW e \in Requests
  PROVE  /\ Has(Append(s, e)) <=> Has(s)
         /\ Once(s) => Once(Append(s, e))
<1>1. e # Process
  OBVIOUS
<1>2. QED
  BY <1>1, AppendEnd DEF Has, Once

LEMMA AppendProcess ==
  ASSUME NEW s \in Seq(Requests \cup {Process}), ~Has(s)
  PROVE  Has(Append(s, Process)) /\ Once(Append(s, Process))
  BY AppendEnd DEF Has, Once

LEMMA TailOther ==
  ASSUME NEW s \in Seq(Requests \cup {Process}), s # <<>>, Head(s) # Process
  PROVE  /\ Has(Tail(s)) <=> Has(s)
         /\ Once(s) => Once(Tail(s))
<1>1. \A i \in 1..Len(s) : s[i] = Process => i - 1 \in 1..Len(Tail(s))
  BY HeadTail
<1>2. \A i \in 1..Len(Tail(s)) : i + 1 \in 1..Len(s) /\ Tail(s)[i] = s[i + 1]
  BY HeadTail
<1>3. Has(s) => Has(Tail(s))
  <2>1. SUFFICES ASSUME NEW i \in 1..Len(s), s[i] = Process
                 PROVE  Has(Tail(s))
    BY DEF Has
  <2>2. i - 1 \in 1..Len(Tail(s)) /\ Tail(s)[i - 1] = s[(i - 1) + 1]
    BY <1>1, <1>2, <2>1
  <2>3. QED
    BY <2>1, <2>2 DEF Has
<1>4. QED
  BY <1>2, <1>3 DEF Has, Once

LEMMA TailProcess ==
  ASSUME NEW s \in Seq(Requests \cup {Process}), s # <<>>, Head(s) = Process,
         Once(s)
  PROVE  Has(s) /\ ~Has(Tail(s)) /\ Once(Tail(s))
<1>1. /\ 1 \in 1..Len(s) /\ s[1] = Process
      /\ \A i \in 1..Len(Tail(s)) : i + 1 \in 1..Len(s) /\ Tail(s)[i] = s[i + 1]
  BY HeadTail
<1>2. ~Has(Tail(s))
  <2>1. SUFFICES ASSUME NEW i \in 1..Len(Tail(s)), Tail(s)[i] = Process
                 PROVE  FALSE
    BY DEF Has
  <2>2. i + 1 = 1
    BY <1>1, <2>1 DEF Once
  <2>3. QED
    BY <2>2
<1>3. QED
  BY <1>1, <1>2 DEF Has, Once

\* The invariant in terms of Has and Once, the form the steps are proved in.
FlagInv ==
  /\ zb_app_cb_process_scheduled = 1 <=>
       WorkerClaims \/ Has(zbq) \/ zboss = "clear"
  /\ WorkerClaims => ~Has(zbq) /\ zboss # "clear"
  /\ Has(zbq) => zboss # "clear"
  /\ Once(zbq)

LEMMA FlagInvIsProcessScheduledOnce == FlagInv <=> ProcessScheduledOnce
  BY DEF FlagInv, ProcessScheduledOnce, Has, Once, ProcessQueued

\* Handing a request to ZBOSS does not touch the callback's entry.
LEMMA HandFlag ==
  ASSUME NEW r \in Requests, TypeOK, Hand(r), Once(zbq)
  PROVE  (Has(zbq') <=> Has(zbq)) /\ Once(zbq')
<1>1. zbq' = Append(zbq, r) \/ zbq' = zbq
  BY DEF Hand
<1>2. CASE zbq' = Append(zbq, r)
  BY <1>2, AppendOther DEF TypeOK
<1>3. CASE zbq' = zbq
  BY <1>3 DEF Has, Once
<1>4. QED
  BY <1>1, <1>2, <1>3

LEMMA FlagStep ==
  TypeOK /\ FlagInv /\ [Next]_vars => FlagInv'
<1> SUFFICES ASSUME TypeOK, FlagInv, [Next]_vars PROVE FlagInv'
  OBVIOUS
<1> USE DEF FlagInv, WorkerClaims, osVars, stackVars, history
<1> zbq \in Seq(Requests \cup {Process}) /\ zb_app_cb_process_scheduled \in {0, 1}
  BY DEF TypeOK
<1>1. ASSUME NEW t \in Tasks, NEW r \in Requests,
             ScheduleSend(t, r) \/ ScheduleReject(t, r)
      PROVE  FlagInv'
  BY <1>1 DEF ScheduleSend, ScheduleReject
<1>2. ASSUME NEW t \in Tasks, ScheduleGive(t) PROVE FlagInv'
  BY <1>2 DEF ScheduleGive
<1>3. CASE WorkerTake \/ WorkerPeek \/ WorkerDelay \/ WorkerNotify
  BY <1>3 DEF WorkerTake, WorkerPeek, WorkerDelay, WorkerNotify
<1>4. CASE WorkerExchange
  BY <1>4 DEF WorkerExchange
<1>5. CASE WorkerSchedule
  BY <1>5, AppendProcess DEF WorkerSchedule
<1>6. CASE ZbossEnable \/ ZbossPoll \/ ZbossWake
  BY <1>6 DEF ZbossEnable, ZbossPoll, ZbossWake
<1>7. CASE ZbossRun
  BY <1>7, TailOther DEF ZbossRun
<1>8. CASE ZbossEnter
  BY <1>8, TailProcess DEF ZbossEnter
<1>9. ASSUME NEW r \in Requests, ZbossDirect(r) PROVE FlagInv'
  BY <1>9, HandFlag DEF ZbossDirect
<1>10. ASSUME NEW r \in Requests, ZbossServe(r) PROVE FlagInv'
  BY <1>10 DEF ZbossServe
<1>11. CASE ProcessClear
  BY <1>11 DEF ProcessClear
<1>12. CASE ProcessDispatch
  <2> DEFINE r == Head(zb_app_cb_msgq)
  <2>1. r \in Requests
    BY <1>12, HeadTail DEF ProcessDispatch, TypeOK
  <2>2. CASE Overflows(r)
    BY <1>12, <2>2 DEF ProcessDispatch
  <2>3. CASE ~Overflows(r)
    <3>1. Hand(r)
      BY <1>12, <2>3 DEF ProcessDispatch
    <3>2. (Has(zbq') <=> Has(zbq)) /\ Once(zbq')
      BY <2>1, <3>1, HandFlag
    <3>3. /\ zboss # "clear" /\ zboss' # "clear"
          /\ UNCHANGED <<worker, zb_app_cb_process_scheduled>>
      BY <1>12, <2>3 DEF ProcessDispatch
    <3>4. QED
      BY <3>2, <3>3
  <2>4. QED
    BY <2>2, <2>3
<1>13. CASE ProcessFlush \/ ProcessDone \/ ProcessOverflow
  BY <1>13 DEF ProcessFlush, ProcessDone, ProcessOverflow
<1>14. CASE RadioNotify
  BY <1>14 DEF RadioNotify
<1>15. CASE UNCHANGED vars
  BY <1>15 DEF vars
<1>16. QED
  BY <1>1, <1>2, <1>3, <1>4, <1>5, <1>6, <1>7, <1>8, <1>9, <1>10, <1>11,
     <1>12, <1>13, <1>14, <1>15 DEF Next, Worker, Zboss

\* zb_app_cb_process is never scheduled twice at a time, and its flag is never
\* left set with nobody to clear it.
THEOREM ScheduledOnce == Spec => []ProcessScheduledOnce
<1>1. Init => FlagInv
  BY DEF Init, FlagInv, WorkerClaims, Has, Once
<1>2. QED
  BY <1>1, FlagStep, TypeInvariant, FlagInvIsProcessScheduledOnce, PTL DEF Spec
-----------------------------------------------------------------------------
(* No accepted request is left with nobody on the way to it.               *)

LEMMA WakeupStep ==
  TypeOK /\ FlagInv /\ NoLostWakeup /\ [Next]_vars => NoLostWakeup'
<1> SUFFICES ASSUME TypeOK, FlagInv, NoLostWakeup, [Next]_vars
             PROVE  NoLostWakeup'
  OBVIOUS
<1> USE DEF NoLostWakeup, osVars, stackVars, history
<1>1. ASSUME NEW t \in Tasks, NEW r \in Requests, ScheduleSend(t, r)
      PROVE  NoLostWakeup'
  <2>1. task'[t] = "give"
    BY <1>1 DEF ScheduleSend, TypeOK
  <2>2. QED
    BY <2>1
<1>2. ASSUME NEW t \in Tasks, NEW r \in Requests, ScheduleReject(t, r)
      PROVE  NoLostWakeup'
  BY <1>2 DEF ScheduleReject
<1>3. ASSUME NEW t \in Tasks, ScheduleGive(t) PROVE NoLostWakeup'
  BY <1>3 DEF ScheduleGive
<1>4. CASE WorkerTake
  BY <1>4 DEF WorkerTake
<1>5. CASE WorkerPeek
  BY <1>5 DEF WorkerPeek
<1>6. CASE WorkerExchange
  BY <1>6 DEF WorkerExchange
<1>7. CASE WorkerSchedule \/ WorkerDelay \/ WorkerNotify
  BY <1>7 DEF WorkerSchedule, WorkerDelay, WorkerNotify
<1>8. CASE ZbossEnable \/ ZbossPoll \/ ZbossWake \/ ZbossRun \/ ZbossEnter
  BY <1>8 DEF ZbossEnable, ZbossPoll, ZbossWake, ZbossRun, ZbossEnter
<1>9. ASSUME NEW r \in Requests, ZbossDirect(r) \/ ZbossServe(r)
      PROVE  NoLostWakeup'
  BY <1>9 DEF ZbossDirect, ZbossServe
<1>10. CASE ProcessClear
  BY <1>10 DEF ProcessClear
<1>11. CASE ProcessDispatch
  BY <1>11 DEF ProcessDispatch
<1>12. CASE ProcessFlush \/ ProcessDone \/ ProcessOverflow
  BY <1>12 DEF ProcessFlush, ProcessDone, ProcessOverflow
<1>13. CASE RadioNotify
  BY <1>13 DEF RadioNotify
<1>14. CASE UNCHANGED vars
  BY <1>14 DEF vars
<1>15. QED
  BY <1>1, <1>2, <1>3, <1>4, <1>5, <1>6, <1>7, <1>8, <1>9, <1>10, <1>11,
     <1>12, <1>13, <1>14 DEF Next, Worker, Zboss

\* As long as the queue holds a request, some task is on its way to it: the
\* semaphore, the flag and the queue never disagree so that it is forgotten.
THEOREM WakeupNeverLost == Spec => []NoLostWakeup
<1>1. Init => FlagInv /\ NoLostWakeup
  BY DEF Init, FlagInv, WorkerClaims, Has, Once, NoLostWakeup
<1>2. QED
  BY <1>1, FlagStep, WakeupStep, TypeInvariant, PTL DEF Spec
-----------------------------------------------------------------------------
(* Order, and the refinement of the mailbox.                               *)

LEMMA WaitingType ==
  ASSUME TypeOK, FlushHasHead
  PROVE  Waiting \in Seq(Requests) /\ Len(Waiting) <= QueueLength
  BY HeadTail DEF TypeOK, FlushHasHead, Waiting

\* What each kind of step does to the requests that wait.
LEMMA WaitingStep ==
  ASSUME TypeOK, FlushHasHead, [Next]_vars
  PROVE  \/ \E r \in Requests :
              /\ r \notin Made /\ Len(Waiting) < QueueLength
              /\ Waiting' = Append(Waiting, r)
              /\ accepted' = Append(accepted, r)
              /\ dispatched' = dispatched
         \/ /\ Waiting # <<>>
            /\ Waiting' = Tail(Waiting)
            /\ dispatched' = Append(dispatched, Head(Waiting))
            /\ accepted' = accepted
         \/ UNCHANGED <<Waiting, accepted, dispatched>>
<1> USE DEF osVars, stackVars, history
<1>1. ASSUME NEW t \in Tasks, NEW r \in Requests, ScheduleSend(t, r)
      PROVE  /\ r \notin Made /\ Len(Waiting) < QueueLength
             /\ Waiting' = Append(Waiting, r)
             /\ accepted' = Append(accepted, r)
             /\ dispatched' = dispatched
  <2>1. CASE zboss # "flush"
    BY <1>1, <2>1 DEF ScheduleSend, Waiting
  <2>2. CASE zboss = "flush"
    <3>1. zb_app_cb_msgq \in Seq(Requests) /\ zb_app_cb_msgq # <<>>
      BY <2>2 DEF TypeOK, FlushHasHead
    <3>2. /\ Tail(Append(zb_app_cb_msgq, r)) = Append(Tail(zb_app_cb_msgq), r)
          /\ Len(Tail(zb_app_cb_msgq)) < Len(zb_app_cb_msgq)
      BY <3>1
    <3>3. Len(Tail(zb_app_cb_msgq)) < QueueLength
      BY <1>1, <3>1, <3>2, HeadTail DEF ScheduleSend
    <3>4. QED
      BY <1>1, <2>2, <3>2, <3>3 DEF ScheduleSend, Waiting
  <2>3. QED
    BY <2>1, <2>2
<1>2. CASE ProcessDispatch
  <2>1. zboss = "drain" /\ zb_app_cb_msgq # <<>> /\ UNCHANGED <<zb_app_cb_msgq, accepted>>
    BY <1>2 DEF ProcessDispatch
  <2>2. CASE Overflows(Head(zb_app_cb_msgq))
    BY <1>2, <2>1, <2>2 DEF ProcessDispatch, Waiting
  <2>3. CASE ~Overflows(Head(zb_app_cb_msgq))
    BY <1>2, <2>1, <2>3 DEF ProcessDispatch, Waiting
  <2>4. QED
    BY <2>2, <2>3
<1>3. CASE ProcessFlush
  BY <1>3 DEF ProcessFlush, Waiting
<1>4. ASSUME NEW t \in Tasks, NEW r \in Requests, ScheduleReject(t, r)
      PROVE  UNCHANGED <<Waiting, accepted, dispatched>>
  BY <1>4 DEF ScheduleReject, Waiting
<1>5. ASSUME NEW t \in Tasks, ScheduleGive(t)
      PROVE  UNCHANGED <<Waiting, accepted, dispatched>>
  BY <1>5 DEF ScheduleGive, Waiting
<1>6. CASE Worker
  BY <1>6 DEF Worker, WorkerTake, WorkerPeek, WorkerExchange, WorkerSchedule,
              WorkerDelay, WorkerNotify, Waiting
<1>7. CASE ZbossEnable \/ ZbossPoll \/ ZbossWake \/ ZbossRun \/ ZbossEnter
  BY <1>7 DEF ZbossEnable, ZbossPoll, ZbossWake, ZbossRun, ZbossEnter, Waiting
<1>8. ASSUME NEW r \in Requests, ZbossDirect(r) \/ ZbossServe(r)
      PROVE  UNCHANGED <<Waiting, accepted, dispatched>>
  BY <1>8 DEF ZbossDirect, ZbossServe, Waiting
<1>9. CASE ProcessClear \/ ProcessDone \/ ProcessOverflow \/ RadioNotify
  BY <1>9 DEF ProcessClear, ProcessDone, ProcessOverflow, RadioNotify, Waiting
<1>10. CASE UNCHANGED vars
  BY <1>10 DEF vars, Waiting
<1>11. QED
  BY <1>1, <1>2, <1>3, <1>4, <1>5, <1>6, <1>7, <1>8, <1>9, <1>10
     DEF Next, Zboss

\* Appending at the far end, and moving the head across, both keep the whole.
LEMMA AppendAcross ==
  ASSUME NEW S, NEW d \in Seq(S), NEW w \in Seq(S), NEW e \in S
  PROVE  d \o Append(w, e) = Append(d \o w, e)
  OBVIOUS

LEMMA MoveAcross ==
  ASSUME NEW S, NEW d \in Seq(S), NEW w \in Seq(S), w # <<>>
  PROVE  Append(d, Head(w)) \o Tail(w) = d \o w
  OBVIOUS

LEMMA OrderStep ==
  TypeOK /\ FlushHasHead /\ InOrderExactlyOnce /\ [Next]_vars
    => InOrderExactlyOnce'
<1> SUFFICES ASSUME TypeOK, FlushHasHead, InOrderExactlyOnce, [Next]_vars
             PROVE  InOrderExactlyOnce'
  OBVIOUS
<1>1. dispatched \in Seq(Requests) /\ Waiting \in Seq(Requests)
  BY WaitingType DEF TypeOK
<1>2. ASSUME NEW r \in Requests, Waiting' = Append(Waiting, r),
             accepted' = Append(accepted, r), dispatched' = dispatched
      PROVE  InOrderExactlyOnce'
  <2>1. dispatched \o Append(Waiting, r) = Append(dispatched \o Waiting, r)
    BY <1>1, AppendAcross
  <2>2. dispatched' \o Waiting' = Append(dispatched \o Waiting, r)
    BY <1>2, <2>1
  <2>3. QED
    BY <1>2, <2>2 DEF InOrderExactlyOnce
<1>3. CASE /\ Waiting # <<>> /\ Waiting' = Tail(Waiting)
           /\ dispatched' = Append(dispatched, Head(Waiting))
           /\ accepted' = accepted
  <2>1. Append(dispatched, Head(Waiting)) \o Tail(Waiting) = dispatched \o Waiting
    BY <1>1, <1>3, MoveAcross
  <2>2. dispatched' \o Waiting' = dispatched \o Waiting
    BY <1>3, <2>1
  <2>3. QED
    BY <1>3, <2>2 DEF InOrderExactlyOnce
<1>4. CASE UNCHANGED <<Waiting, accepted, dispatched>>
  BY <1>4 DEF InOrderExactlyOnce
<1>5. QED
  BY <1>2, <1>3, <1>4, WaitingStep

\* Requests are handed to ZBOSS in the order they were accepted, each once.
THEOREM OrderKept == Spec => []InOrderExactlyOnce
<1>1. Init => InOrderExactlyOnce
  BY DEF Init, InOrderExactlyOnce, Waiting
<1>2. QED
  BY <1>1, OrderStep, TypeInvariant, PTL DEF Spec

\* An element of either part is an element of the whole.
LEMMA ElemsOfConcat ==
  ASSUME NEW S, NEW d \in Seq(S), NEW w \in Seq(S), NEW a, a = d \o w
  PROVE  /\ \A i \in 1..Len(d) : d[i] \in Elems(a)
         /\ \A i \in 1..Len(w) : w[i] \in Elems(a)
<1>1. /\ Len(d) \in Nat /\ Len(w) \in Nat /\ Len(a) = Len(d) + Len(w)
      /\ \A i \in 1..Len(d) : a[i] = d[i]
      /\ \A i \in 1..Len(w) : a[Len(d) + i] = w[i]
  OBVIOUS
<1>2. ASSUME NEW i \in 1..Len(d) PROVE d[i] \in Elems(a)
  <2>1. i \in 1..Len(a) /\ a[i] = d[i]
    BY <1>1
  <2>2. QED
    BY <2>1 DEF Elems
<1>3. ASSUME NEW i \in 1..Len(w) PROVE w[i] \in Elems(a)
  <2>1. Len(d) + i \in 1..Len(a) /\ a[Len(d) + i] = w[i]
    BY <1>1
  <2>2. QED
    BY <2>1 DEF Elems
<1>4. QED
  BY <1>2, <1>3

LEMMA MailboxStep ==
  TypeOK /\ FlushHasHead /\ InOrderExactlyOnce /\ [Next]_vars
    => [Mailbox!Next]_(Mailbox!vars)
<1> SUFFICES ASSUME TypeOK, FlushHasHead, InOrderExactlyOnce, [Next]_vars
             PROVE  [Mailbox!Next]_(Mailbox!vars)
  OBVIOUS
<1>1. dispatched \in Seq(Requests) /\ Waiting \in Seq(Requests)
  BY WaitingType DEF TypeOK
<1>2. ASSUME NEW r \in Requests, r \notin Made, Len(Waiting) < QueueLength,
             Waiting' = Append(Waiting, r), dispatched' = dispatched
      PROVE  Mailbox!Accept(r)
  <2>1. r \notin Elems(accepted)
    BY <1>2 DEF Made
  <2>2. r \notin Mailbox!Known
    <3>1. /\ \A i \in 1..Len(dispatched) : dispatched[i] \in Elems(accepted)
          /\ \A i \in 1..Len(Waiting) : Waiting[i] \in Elems(accepted)
      BY <1>1, ElemsOfConcat DEF InOrderExactlyOnce
    <3>2. QED
      BY <2>1, <3>1 DEF Mailbox!Known
  <2>3. QED
    BY <1>2, <2>2 DEF Mailbox!Accept
<1>3. CASE /\ Waiting # <<>> /\ Waiting' = Tail(Waiting)
           /\ dispatched' = Append(dispatched, Head(Waiting))
  BY <1>3 DEF Mailbox!Next, Mailbox!Deliver
<1>4. CASE UNCHANGED <<Waiting, accepted, dispatched>>
  BY <1>4 DEF Mailbox!vars
<1>5. QED
  BY <1>2, <1>3, <1>4, WaitingStep DEF Mailbox!Next

\* The worker, the flag, the semaphores and the retries together are a bounded
\* FIFO mailbox: every step of the path is a step of ZbMailbox or a stutter.
THEOREM PathIsMailbox == Spec => ImplementsMailbox
<1>1. Init => InOrderExactlyOnce /\ Mailbox!Init
  BY DEF Init, InOrderExactlyOnce, Waiting, Mailbox!Init
<1>2. Spec => [](TypeOK /\ FlushHasHead /\ InOrderExactlyOnce)
  BY <1>1, OrderStep, TypeInvariant, PTL DEF Spec
<1>3. QED
  BY <1>1, <1>2, MailboxStep, PTL DEF Spec, ImplementsMailbox, Mailbox!Spec
-----------------------------------------------------------------------------
(* The sleeping ZBOSS thread.                                              *)

\* While the ZBOSS thread sleeps, only the worker adds work, and it notifies.
THEOREM NeverSleepsOnWork == Spec => []NoSleepOnWork
<1> USE DEF NoSleepOnWork, osVars, stackVars, history
<1>1. Init => NoSleepOnWork
  BY DEF Init
<1>2. TypeOK /\ NoSleepOnWork /\ [Next]_vars => NoSleepOnWork'
  <2> SUFFICES ASSUME TypeOK, NoSleepOnWork, [Next]_vars PROVE NoSleepOnWork'
    OBVIOUS
  <2>1. ASSUME NEW t \in Tasks, NEW r \in Requests,
               ScheduleSend(t, r) \/ ScheduleReject(t, r)
        PROVE  NoSleepOnWork'
    BY <2>1 DEF ScheduleSend, ScheduleReject
  <2>2. CASE Worker
    BY <2>2 DEF Worker, WorkerTake, WorkerPeek, WorkerExchange, WorkerSchedule,
                WorkerDelay, WorkerNotify
  <2>3. CASE ZbossEnable \/ RadioNotify
    BY <2>3 DEF ZbossEnable, RadioNotify
  <2>4. CASE Zboss
    <3>1. CASE ZbossRun \/ ZbossEnter \/ ProcessClear \/ ProcessFlush
      BY <3>1 DEF ZbossRun, ZbossEnter, ProcessClear, ProcessFlush
    <3>2. CASE ProcessDispatch
      <4>1. zboss' # "poll"
        BY <3>2 DEF ProcessDispatch
      <4>2. QED
        BY <4>1
    <3>3. CASE ProcessDone \/ ProcessOverflow
      BY <3>3 DEF ProcessDone, ProcessOverflow
    <3>4. CASE ZbossPoll \/ ZbossWake
      BY <3>4 DEF ZbossPoll, ZbossWake
    <3>5. QED
      BY <2>4, <3>1, <3>2, <3>3, <3>4 DEF Zboss
  <2>5. ASSUME NEW r \in Requests, ZbossDirect(r) \/ ZbossServe(r)
        PROVE  NoSleepOnWork'
    BY <2>5 DEF ZbossDirect, ZbossServe
  <2>6. ASSUME NEW t \in Tasks, ScheduleGive(t) PROVE NoSleepOnWork'
    BY <2>6 DEF ScheduleGive
  <2>7. CASE UNCHANGED vars
    BY <2>7 DEF vars
  <2>8. QED
    BY <2>1, <2>2, <2>3, <2>4, <2>5, <2>6, <2>7 DEF Next
<1>3. QED
  BY <1>1, <1>2, TypeInvariant, PTL DEF Spec
-----------------------------------------------------------------------------
(* The ZBOSS thread is deleted and created again.                          *)

LEMMA ElemsAppend ==
  ASSUME NEW s \in Seq(Requests), NEW r \in Requests
  PROVE  Elems(Append(s, r)) = Elems(s) \cup {r}
<1>1. /\ Len(Append(s, r)) = Len(s) + 1 /\ Len(s) \in Nat
      /\ \A i \in 1..Len(s) : Append(s, r)[i] = s[i]
      /\ Append(s, r)[Len(s) + 1] = r
  BY AppendEnd
<1>2. \A i \in 1..(Len(s) + 1) : i \in 1..Len(s) \/ i = Len(s) + 1
  BY <1>1
<1>3. \A i \in 1..Len(s) : i \in 1..(Len(s) + 1)
  BY <1>1
<1>4. Len(s) + 1 \in 1..(Len(s) + 1)
  BY <1>1
<1>5. QED
  BY <1>1, <1>2, <1>3, <1>4 DEF Elems

LEMMA ElemsTail ==
  ASSUME NEW s \in Seq(Requests), s # <<>>
  PROVE  Elems(s) = {Head(s)} \cup Elems(Tail(s))
<1>1. /\ Len(Tail(s)) = Len(s) - 1 /\ Len(s) \in Nat \ {0} /\ Head(s) = s[1]
      /\ \A i \in 1..Len(Tail(s)) : Tail(s)[i] = s[i + 1]
  BY HeadTail
<1>2. \A i \in 1..Len(s) : i = 1 \/ (i - 1 \in 1..Len(Tail(s)) /\ s[i] = Tail(s)[i - 1])
  BY <1>1
<1>3. 1 \in 1..Len(s) /\ \A i \in 1..Len(Tail(s)) : i + 1 \in 1..Len(s)
  BY <1>1
<1>4. QED
  BY <1>1, <1>2, <1>3 DEF Elems

\* The head that ProcessFlush will receive has been handed to ZBOSS.
FlushIsSecond == zboss = "flush" => Head(zb_app_cb_msgq) \in Elems(dispatched)

DeletionInv == TypeOK /\ FlushHasHead /\ FlushIsSecond /\ DeletionLosesNothing

\* What a step does to the queue and to the requests of both sides.
LEMMA QueueStep ==
  ASSUME TypeOK, [Next]_vars
  PROVE  /\ deinits' = deinits
         /\ \/ /\ \E r \in Requests : /\ accepted' = Append(accepted, r)
                                      /\ zb_app_cb_msgq' = Append(zb_app_cb_msgq, r)
               /\ UNCHANGED <<dispatched, zboss>>
            \/ /\ zboss # "flush" /\ zboss' = "flush" /\ zb_app_cb_msgq # <<>>
               /\ dispatched' = Append(dispatched, Head(zb_app_cb_msgq))
               /\ UNCHANGED <<accepted, zb_app_cb_msgq>>
            \/ /\ zboss = "flush" /\ zboss' # "flush"
               /\ zb_app_cb_msgq' = Tail(zb_app_cb_msgq)
               /\ UNCHANGED <<accepted, dispatched>>
            \/ /\ UNCHANGED <<accepted, dispatched, zb_app_cb_msgq>>
               /\ zboss' = "flush" <=> zboss = "flush"
<1> USE DEF osVars, stackVars, history
<1>1. CASE \E t \in Tasks, r \in Requests : ScheduleSend(t, r) \/ ScheduleReject(t, r)
  BY <1>1 DEF ScheduleSend, ScheduleReject
<1>2. CASE \E t \in Tasks : ScheduleGive(t)
  BY <1>2 DEF ScheduleGive
<1>3. CASE Worker
  BY <1>3 DEF Worker, WorkerTake, WorkerPeek, WorkerExchange, WorkerSchedule,
              WorkerDelay, WorkerNotify
<1>4. CASE ProcessDispatch
  BY <1>4 DEF ProcessDispatch
<1>5. CASE ProcessFlush
  BY <1>5 DEF ProcessFlush
<1>6. CASE ZbossEnable \/ ZbossRun \/ ZbossEnter \/ ZbossPoll \/ ZbossWake
  BY <1>6 DEF ZbossEnable, ZbossRun, ZbossEnter, ZbossPoll, ZbossWake
<1>7. CASE ProcessClear \/ ProcessDone \/ ProcessOverflow \/ RadioNotify
  BY <1>7 DEF ProcessClear, ProcessDone, ProcessOverflow, RadioNotify
<1>8. CASE \E r \in Requests : ZbossDirect(r) \/ ZbossServe(r)
  BY <1>8 DEF ZbossDirect, ZbossServe
<1>9. CASE UNCHANGED vars
  BY <1>9 DEF vars
<1>10. QED
  BY <1>1, <1>2, <1>3, <1>4, <1>5, <1>6, <1>7, <1>8, <1>9 DEF Next, Zboss

\* Deletion takes nothing: the request in hand, if any, is still in the queue.
LEMMA DeinitKeeps == DeletionInv /\ Deinit => DeletionInv'
<1> SUFFICES ASSUME DeletionInv, Deinit PROVE DeletionInv'
  OBVIOUS
<1>1. /\ zboss' = "down" /\ deinits' = deinits + 1
      /\ UNCHANGED <<osVars, stackVars, task, worker, history>>
  BY DEF Deinit
<1>2. TypeOK'
  BY <1>1 DEF DeletionInv, TypeOK, osVars, stackVars, history
<1>3. FlushHasHead' /\ FlushIsSecond'
  BY <1>1 DEF FlushHasHead, FlushIsSecond
<1>4. DeletionLosesNothing'
  <2>1. Elems(accepted)' = Elems(dispatched)' \cup Elems(zb_app_cb_msgq)'
    <3>1. UNCHANGED <<accepted, dispatched, zb_app_cb_msgq>>
      BY <1>1 DEF osVars, history
    <3>2. /\ Elems(accepted') = Elems(accepted) /\ Elems(dispatched') = Elems(dispatched)
          /\ Elems(zb_app_cb_msgq') = Elems(zb_app_cb_msgq)
      BY <3>1
    <3>3. QED
      BY <3>2 DEF DeletionInv, DeletionLosesNothing, Elems
  <2>2. Len(zb_app_cb_msgq) <= Len(Waiting) + 1
    BY HeadTail DEF DeletionInv, TypeOK, FlushHasHead, Waiting
  <2>3. /\ Waiting' = zb_app_cb_msgq
        /\ dispatched' = dispatched /\ accepted' = accepted
    BY <1>1 DEF Waiting, osVars, history
  <2>4. /\ Len(dispatched) \in Nat /\ Len(Waiting) \in Nat /\ Len(accepted) \in Nat
        /\ Len(zb_app_cb_msgq) \in Nat /\ deinits \in Nat
    BY WaitingType DEF DeletionInv, TypeOK
  <2>5. Len(dispatched) + Len(Waiting) <= Len(accepted) + deinits
    BY DEF DeletionInv, DeletionLosesNothing
  <2>6. Len(dispatched) + Len(zb_app_cb_msgq) <= Len(accepted) + (deinits + 1)
    BY <2>2, <2>4, <2>5
  <2>7. QED
    BY <1>1, <2>1, <2>3, <2>6 DEF DeletionLosesNothing
<1>5. QED
  BY <1>2, <1>3, <1>4 DEF DeletionInv

\* So does every other step.
LEMMA DeletionStep == DeletionInv /\ [Next]_vars => DeletionInv'
<1> SUFFICES ASSUME DeletionInv, [Next]_vars PROVE DeletionInv'
  OBVIOUS
<1>1. TypeOK /\ FlushHasHead /\ TypeOK' /\ FlushHasHead'
  BY TypeStep, FlushStep DEF DeletionInv
<1>2. /\ accepted \in Seq(Requests) /\ dispatched \in Seq(Requests)
      /\ zb_app_cb_msgq \in Seq(Requests) /\ deinits' = deinits
      /\ Waiting \in Seq(Requests) /\ Waiting' \in Seq(Requests)
      /\ dispatched' \in Seq(Requests) /\ accepted' \in Seq(Requests)
  BY <1>1, WaitingType, QueueStep DEF TypeOK, FlushHasHead, Waiting
<1>3. /\ FlushIsSecond'
      /\ Elems(accepted)' = Elems(dispatched)' \cup Elems(zb_app_cb_msgq)'
  <2>1. FlushIsSecond /\ Elems(accepted) = Elems(dispatched) \cup Elems(zb_app_cb_msgq)
    BY DEF DeletionInv, DeletionLosesNothing
  <2>2. ASSUME NEW r \in Requests, accepted' = Append(accepted, r),
               zb_app_cb_msgq' = Append(zb_app_cb_msgq, r), UNCHANGED <<dispatched, zboss>>
        PROVE  /\ FlushIsSecond'
               /\ Elems(accepted)' = Elems(dispatched)' \cup Elems(zb_app_cb_msgq)'
    <3>1. Elems(accepted') = Elems(accepted) \cup {r}
      BY <1>2, <2>2, ElemsAppend
    <3>2. Elems(zb_app_cb_msgq') = Elems(zb_app_cb_msgq) \cup {r}
      BY <1>2, <2>2, ElemsAppend
    <3>3. Elems(dispatched') = Elems(dispatched)
      BY <2>2
    <3>4. zb_app_cb_msgq # <<>> => Head(zb_app_cb_msgq') = Head(zb_app_cb_msgq)
      BY <1>2, <2>2
    <3>5. FlushIsSecond'
      BY <1>1, <2>1, <2>2, <3>3, <3>4 DEF FlushIsSecond, FlushHasHead, Elems
    <3>6. QED
      BY <2>1, <3>1, <3>2, <3>3, <3>5 DEF Elems
  <2>3. CASE /\ zb_app_cb_msgq # <<>>
             /\ dispatched' = Append(dispatched, Head(zb_app_cb_msgq))
             /\ UNCHANGED <<accepted, zb_app_cb_msgq>>
    <3>1. Head(zb_app_cb_msgq) \in Requests /\ Head(zb_app_cb_msgq) \in Elems(zb_app_cb_msgq)
      BY <1>2, <2>3, HeadTail, ElemsTail
    <3>2. Elems(dispatched') = Elems(dispatched) \cup {Head(zb_app_cb_msgq)}
      BY <1>2, <2>3, <3>1, ElemsAppend
    <3>3. Elems(accepted') = Elems(accepted) /\ Elems(zb_app_cb_msgq') = Elems(zb_app_cb_msgq)
      BY <2>3
    <3>4. Head(zb_app_cb_msgq') = Head(zb_app_cb_msgq)
      BY <2>3
    <3>5. FlushIsSecond'
      BY <3>2, <3>4 DEF FlushIsSecond, Elems
    <3>6. QED
      BY <2>1, <3>1, <3>2, <3>3, <3>5 DEF Elems
  <2>4. CASE /\ zboss = "flush" /\ zboss' # "flush"
             /\ zb_app_cb_msgq' = Tail(zb_app_cb_msgq)
             /\ UNCHANGED <<accepted, dispatched>>
    <3>1. Elems(zb_app_cb_msgq) = {Head(zb_app_cb_msgq)} \cup Elems(zb_app_cb_msgq')
      BY <1>1, <1>2, <2>4, ElemsTail DEF FlushHasHead
    <3>2. Head(zb_app_cb_msgq) \in Elems(dispatched)
      BY <2>1, <2>4 DEF FlushIsSecond
    <3>3. Elems(accepted') = Elems(accepted) /\ Elems(dispatched') = Elems(dispatched)
      BY <2>4
    <3>4. FlushIsSecond'
      BY <2>4 DEF FlushIsSecond
    <3>5. QED
      BY <2>1, <3>1, <3>2, <3>3, <3>4 DEF Elems
  <2>5. CASE /\ UNCHANGED <<accepted, dispatched, zb_app_cb_msgq>>
             /\ zboss' = "flush" <=> zboss = "flush"
    <3>1. /\ Elems(accepted') = Elems(accepted) /\ Elems(dispatched') = Elems(dispatched)
          /\ Elems(zb_app_cb_msgq') = Elems(zb_app_cb_msgq)
      BY <2>5
    <3>2. FlushIsSecond'
      BY <2>1, <2>5, <3>1 DEF FlushIsSecond, Elems
    <3>3. QED
      BY <2>1, <3>1, <3>2 DEF Elems
  <2>6. QED
    BY <1>1, <2>2, <2>3, <2>4, <2>5, QueueStep
<1>4. Len(dispatched)' + Len(Waiting)' <= Len(accepted)' + deinits'
  <2>1. Len(dispatched) + Len(Waiting) <= Len(accepted) + deinits
    BY DEF DeletionInv, DeletionLosesNothing
  <2>2. PICK d, w, a, e \in Nat :
          d = Len(dispatched) /\ w = Len(Waiting) /\ a = Len(accepted) /\ e = deinits
    BY <1>1, <1>2 DEF TypeOK
  <2>3. \/ Len(Waiting') = w + 1 /\ Len(accepted') = a + 1 /\ Len(dispatched') = d
        \/ w > 0 /\ Len(Waiting') = w - 1 /\ Len(accepted') = a /\ Len(dispatched') = d + 1
        \/ Len(Waiting') = w /\ Len(accepted') = a /\ Len(dispatched') = d
    <3>1. \/ \E r \in Requests : /\ Waiting' = Append(Waiting, r)
                                 /\ accepted' = Append(accepted, r)
                                 /\ dispatched' = dispatched
          \/ /\ Waiting # <<>> /\ Waiting' = Tail(Waiting)
             /\ dispatched' = Append(dispatched, Head(Waiting)) /\ accepted' = accepted
          \/ UNCHANGED <<Waiting, accepted, dispatched>>
      BY <1>1, WaitingStep
    <3>2. ASSUME NEW r \in Requests, Waiting' = Append(Waiting, r),
                 accepted' = Append(accepted, r), dispatched' = dispatched
          PROVE  Len(Waiting') = w + 1 /\ Len(accepted') = a + 1 /\ Len(dispatched') = d
      BY <1>2, <2>2, <3>2, AppendEnd
    <3>3. CASE /\ Waiting # <<>> /\ Waiting' = Tail(Waiting)
               /\ dispatched' = Append(dispatched, Head(Waiting)) /\ accepted' = accepted
      <4>1. Head(Waiting) \in Requests /\ Len(Tail(Waiting)) = w - 1 /\ w > 0
        BY <1>2, <2>2, <3>3, HeadTail
      <4>2. Len(Append(dispatched, Head(Waiting))) = d + 1
        BY <1>2, <2>2, <4>1, AppendEnd
      <4>3. QED
        BY <2>2, <3>3, <4>1, <4>2
    <3>4. CASE UNCHANGED <<Waiting, accepted, dispatched>>
      BY <2>2, <3>4
    <3>5. QED
      BY <3>1, <3>2, <3>3, <3>4
  <2>4. PICK d2, w2, a2 \in Nat :
          d2 = Len(dispatched') /\ w2 = Len(Waiting') /\ a2 = Len(accepted')
    BY <1>2
  <2>5. d2 + w2 <= a2 + e
    BY <2>1, <2>2, <2>3, <2>4
  <2>6. QED
    BY <1>2, <2>2, <2>4, <2>5
<1>5. QED
  BY <1>1, <1>3, <1>4 DEF DeletionInv, DeletionLosesNothing

\* Deleted wherever it is and created again, however often, the ZBOSS thread takes no
\* accepted request with it (zigbee_deinit, zb_app_cb_process): each is in the queue or has
\* been handed to ZBOSS, and every deletion repeats at most one.
THEOREM NothingLostByDeletion == DeinitSpec => []DeletionLosesNothing
<1>1. Init => DeletionInv
  <2>1. ASSUME Init PROVE FlushIsSecond /\ DeletionLosesNothing
    BY <2>1 DEF Init, FlushIsSecond, DeletionLosesNothing, Elems, Waiting
  <2>2. QED
    BY <2>1, TypeInit DEF DeletionInv
<1>2. DeletionInv /\ [Next \/ Deinit]_vars => DeletionInv'
  BY DeletionStep, DeinitKeeps
<1>3. DeletionInv => DeletionLosesNothing
  BY DEF DeletionInv
<1>4. QED
  BY <1>1, <1>2, <1>3, PTL DEF DeinitSpec
=============================================================================
