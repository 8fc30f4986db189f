---------------------------- MODULE LpTimerProofs ----------------------------
(***************************************************************************)
(* Proofs about LpTimer, for every depth of nesting, every number of calls *)
(* that an interrupt makes, and whether or not the timer is scheduled      *)
(* inside critical sections; and, at the end, about HwTask, alone and on   *)
(* the other compare channel beside it (SidesSpec).                        *)
(***************************************************************************)
EXTENDS MCLpTimer, TLAPS

USE LpTimerAssumption

\* One call of schedule_at or disable at a time, and its key is clear but
\* between compare_int_lock and compare_int_unlock.
OneCall ==
  /\ \A c, d \in Contexts : pc[c] \in Steps /\ pc[d] \in Steps => c = d
  /\ \A c \in Contexts : pc[c] \in {"lock", "inton"} => ~key
  /\ op = "none" => ~key

\* The GRTC interrupt opens critical sections only from the service layer's
\* handler on.
HandlerOutside == \A c \in Contexts : pc[c] \in {"check", "call"} => depth[c] = 0

\* In an open critical section that nothing has broken the bit is clear.
MaskedInside == m_critical_section_cnt > 0 /\ ~broken => ~int_mask

\* A call that will unmask the interrupt, or just has, began outside every
\* critical section: those open now belong to interrupts that preempted it.
UnlockOutside ==
  \A c \in Contexts : pc[c] \in Steps /\ (key \/ pc[c] = "inton") =>
    broken \/ \A d \in Contexts \ Above(c) : depth[d] = 0

\* The thread disabled the timer last: the flag says so, and the GRTC
\* interrupt has not passed timer_compare_handler's test of it.
Silenced ==
  /\ silenced => ~m_enabled
  /\ pc["grtc"] = "call" => ~silenced

Inv == TypeOK /\ OneCall /\ HandlerOutside
MaskInv == NeverLeftMasked /\ MaskedInside /\ UnlockOutside /\ OnlyKnownBreaches

-----------------------------------------------------------------------------
\* Next, one disjunct at a time.
LEMMA Cases ==
  ASSUME [Next]_vars
  PROVE  \/ \E c \in Contexts, o \in {"schedule", "disable"} : Begin(c, o)
         \/ \E c \in Contexts :
              \/ Lock(c) \/ LockIntOff(c) \/ SetCompare(c) \/ DisableCompare(c)
              \/ Unlock(c) \/ UnlockIntOn(c)
              \/ CriticalEnter(c) \/ CriticalExit(c) \/ Return(c)
         \/ Fire \/ TakeIrq \/ HandlerCheck \/ HandlerCall \/ RadioIrq
         \/ UNCHANGED vars
  BY DEF Next, InCall

\* What Goto does to the place of the context that moves and of the others.
LEMMA Move ==
  ASSUME NEW c \in Contexts, NEW place \in Places, pc \in [Contexts -> Places], Goto(c, place)
  PROVE  /\ pc' \in [Contexts -> Places]
         /\ pc'[c] = place
         /\ \A d \in Contexts : d # c => pc'[d] = pc[d]
  BY DEF Goto

\* The same for the number of critical sections of a context.
LEMMA Count ==
  ASSUME NEW c \in Contexts, NEW n \in 0..MaxNest, depth \in [Contexts -> 0..MaxNest],
         depth' = [depth EXCEPT ![c] = n]
  PROVE  /\ depth' \in [Contexts -> 0..MaxNest]
         /\ depth'[c] = n
         /\ \A d \in Contexts : d # c => depth'[d] = depth[d]
  OBVIOUS

\* After initialisation nothing is open.
LEMMA InitInv == Init => Inv
<1> SUFFICES ASSUME Init PROVE Inv
  OBVIOUS
<1>1. depth \in [Contexts -> 0..MaxNest] /\ calls \in [Contexts -> 0..MaxCalls]
  <2>1. 0 \in 0..MaxNest /\ MaxCalls \in 0..MaxCalls
    OBVIOUS
  <2>2. QED
    BY <2>1 DEF Init
<1>2. /\ pc \in [Contexts -> Places]
      /\ \A c \in Contexts : pc[c] \in {"run", "off"} /\ depth[c] = 0
      /\ pc["thread"] = "run"
  BY DEF Init, Contexts, Places
<1>3. TypeOK
  <2>1. \A c \in Contexts : pc[c] \notin Steps
    BY <1>2 DEF Steps
  <2>2. \A c \in Contexts : depth[c] > 0 => pc[c] # "off"
    BY <1>2
  <2>3. /\ m_enabled = FALSE /\ int_mask = TRUE /\ m_compare_int_lock_key = FALSE
        /\ irqOn = FALSE /\ armed = FALSE /\ fired = FALSE
        /\ op = "none" /\ key = FALSE /\ silenced = FALSE /\ broken = FALSE
    BY DEF Init
  <2>4. QED
    BY <1>1, <1>2, <2>1, <2>2, <2>3 DEF TypeOK
<1>4. OneCall /\ HandlerOutside
  BY <1>2 DEF Init, OneCall, HandlerOutside, Steps
<1>5. QED
  BY <1>3, <1>4 DEF Inv

\* One step for each action: first the place of the context that moves, then
\* the three parts of Inv.
LEMMA InvStep == Inv /\ [Next]_vars => Inv'
<1> SUFFICES ASSUME Inv, [Next]_vars PROVE Inv'
  OBVIOUS
<1> USE DEF Inv, hwVars, csVars, callVars
<1>1. ASSUME NEW c \in Contexts, NEW o \in {"schedule", "disable"}, Begin(c, o) PROVE Inv'
  <2>1. /\ pc' \in [Contexts -> Places] /\ pc'[c] = "lock"
        /\ \A d \in Contexts : d # c => pc'[d] = pc[d]
    BY <1>1, Move DEF Begin, Calls, MayBegin, TypeOK, Places, Steps, Contexts
  <2>2. TypeOK'
    BY <1>1, <2>1 DEF Begin, Calls, MayBegin, TypeOK, OneCall, HandlerOutside, Steps, Contexts
  <2>3. OneCall'
    BY <1>1, <2>1 DEF Begin, Calls, MayBegin, TypeOK, OneCall, Steps, Contexts
  <2>4. HandlerOutside'
    BY <1>1, <2>1 DEF Begin, Calls, MayBegin, TypeOK, HandlerOutside, Steps, Contexts
  <2>5. QED
    BY <2>2, <2>3, <2>4
<1>2. ASSUME NEW c \in Contexts, Lock(c) PROVE Inv'
  <2>1. /\ pc' \in [Contexts -> Places] /\ pc'[c] = "intoff"
        /\ \A d \in Contexts : d # c => pc'[d] = pc[d]
    BY <1>2, Move DEF Lock, TypeOK, Places, Steps, Contexts
  <2>2. TypeOK'
    BY <1>2, <2>1 DEF Lock, TypeOK, OneCall, HandlerOutside, Steps, Contexts
  <2>3. OneCall'
    BY <1>2, <2>1 DEF Lock, TypeOK, OneCall, Steps, Contexts
  <2>4. HandlerOutside'
    BY <1>2, <2>1 DEF Lock, TypeOK, HandlerOutside, Steps, Contexts
  <2>5. QED
    BY <2>2, <2>3, <2>4
<1>3. ASSUME NEW c \in Contexts, LockIntOff(c) PROVE Inv'
  <2>1. /\ pc' \in [Contexts -> Places] /\ pc'[c] = "compare"
        /\ \A d \in Contexts : d # c => pc'[d] = pc[d]
    BY <1>3, Move DEF LockIntOff, TypeOK, Places, Steps, Contexts
  <2>2. TypeOK'
    BY <1>3, <2>1 DEF LockIntOff, TypeOK, OneCall, HandlerOutside, Steps, Contexts
  <2>3. OneCall'
    BY <1>3, <2>1 DEF LockIntOff, TypeOK, OneCall, Steps, Contexts
  <2>4. HandlerOutside'
    BY <1>3, <2>1 DEF LockIntOff, TypeOK, HandlerOutside, Steps, Contexts
  <2>5. QED
    BY <2>2, <2>3, <2>4
<1>4. ASSUME NEW c \in Contexts, SetCompare(c) PROVE Inv'
  <2>1. /\ pc' \in [Contexts -> Places] /\ pc'[c] = "unlock"
        /\ \A d \in Contexts : d # c => pc'[d] = pc[d]
    BY <1>4, Move DEF SetCompare, TypeOK, Places, Steps, Contexts
  <2>2. TypeOK'
    BY <1>4, <2>1 DEF SetCompare, TypeOK, OneCall, HandlerOutside, Steps, Contexts
  <2>3. OneCall'
    BY <1>4, <2>1 DEF SetCompare, TypeOK, OneCall, Steps, Contexts
  <2>4. HandlerOutside'
    BY <1>4, <2>1 DEF SetCompare, TypeOK, HandlerOutside, Steps, Contexts
  <2>5. QED
    BY <2>2, <2>3, <2>4
<1>5. ASSUME NEW c \in Contexts, DisableCompare(c) PROVE Inv'
  <2>1. /\ pc' \in [Contexts -> Places] /\ pc'[c] = "unlock"
        /\ \A d \in Contexts : d # c => pc'[d] = pc[d]
    BY <1>5, Move DEF DisableCompare, TypeOK, Places, Steps, Contexts
  <2>2. TypeOK'
    BY <1>5, <2>1 DEF DisableCompare, TypeOK, OneCall, HandlerOutside, Steps, Contexts
  <2>3. OneCall'
    BY <1>5, <2>1 DEF DisableCompare, TypeOK, OneCall, Steps, Contexts
  <2>4. HandlerOutside'
    BY <1>5, <2>1 DEF DisableCompare, TypeOK, HandlerOutside, Steps, Contexts
  <2>5. QED
    BY <2>2, <2>3, <2>4
<1>6. ASSUME NEW c \in Contexts, Unlock(c) PROVE Inv'
  <2>1. /\ pc' \in [Contexts -> Places] /\ pc'[c] = (IF key THEN "inton" ELSE "run")
        /\ \A d \in Contexts : d # c => pc'[d] = pc[d]
    BY <1>6, Move DEF Unlock, TypeOK, Places, Steps, Contexts
  <2>2. TypeOK'
    <3>1. CASE key
      BY <1>6, <2>1, <3>1 DEF Unlock, TypeOK, OneCall, Steps, Contexts
    <3>2. CASE ~key
      BY <1>6, <2>1, <3>2 DEF Unlock, TypeOK, OneCall, Steps, Contexts
    <3>3. QED
      BY <3>1, <3>2
  <2>3. OneCall'
    BY <1>6, <2>1 DEF Unlock, TypeOK, OneCall, Steps, Contexts
  <2>4. HandlerOutside'
    BY <1>6, <2>1 DEF Unlock, TypeOK, HandlerOutside, Steps, Contexts
  <2>5. QED
    BY <2>2, <2>3, <2>4
<1>7. ASSUME NEW c \in Contexts, UnlockIntOn(c) PROVE Inv'
  <2>1. /\ pc' \in [Contexts -> Places] /\ pc'[c] = "run"
        /\ \A d \in Contexts : d # c => pc'[d] = pc[d]
    BY <1>7, Move DEF UnlockIntOn, TypeOK, Places, Steps, Contexts
  <2>2. TypeOK'
    BY <1>7, <2>1 DEF UnlockIntOn, TypeOK, OneCall, HandlerOutside, Steps, Contexts
  <2>3. OneCall'
    BY <1>7, <2>1 DEF UnlockIntOn, TypeOK, OneCall, Steps, Contexts
  <2>4. HandlerOutside'
    BY <1>7, <2>1 DEF UnlockIntOn, TypeOK, HandlerOutside, Steps, Contexts
  <2>5. QED
    BY <2>2, <2>3, <2>4
<1>8. ASSUME NEW c \in Contexts, CriticalEnter(c) PROVE Inv'
  <2>1. /\ depth' \in [Contexts -> 0..MaxNest]
        /\ \A d \in Contexts : d # c => depth'[d] = depth[d]
    <3>1. depth[c] + 1 \in 0..MaxNest
      BY <1>8 DEF CriticalEnter, TypeOK
    <3>2. QED
      BY <1>8, <3>1, Count DEF CriticalEnter, TypeOK
  <2>2. TypeOK'
    <3>1. calls' \in [Contexts -> 0..MaxCalls]
      BY <1>8 DEF CriticalEnter, Calls, TypeOK
    <3>2. \A d \in Contexts : depth'[d] > 0 => pc'[d] # "off"
      BY <1>8, <2>1 DEF CriticalEnter, Calls, TypeOK
    <3>3. QED
      BY <1>8, <2>1, <3>1, <3>2 DEF CriticalEnter, TypeOK
  <2>3. OneCall'
    BY <1>8 DEF CriticalEnter, Calls, TypeOK, OneCall, Steps, Contexts
  <2>4. HandlerOutside'
    BY <1>8 DEF CriticalEnter, Calls, TypeOK, HandlerOutside, Steps, Contexts
  <2>5. QED
    BY <2>2, <2>3, <2>4
<1>9. ASSUME NEW c \in Contexts, CriticalExit(c) PROVE Inv'
  <2>1. /\ depth' \in [Contexts -> 0..MaxNest]
        /\ \A d \in Contexts : d # c => depth'[d] = depth[d]
    <3>1. depth[c] - 1 \in 0..MaxNest
      BY <1>9 DEF CriticalExit, TypeOK
    <3>2. QED
      BY <1>9, <3>1, Count DEF CriticalExit, TypeOK
  <2>2. TypeOK'
    <3>1. \A d \in Contexts : depth'[d] > 0 => pc'[d] # "off"
      BY <1>9, <2>1 DEF CriticalExit, TypeOK
    <3>2. QED
      BY <1>9, <2>1, <3>1 DEF CriticalExit, TypeOK
  <2>3. OneCall'
    BY <1>9 DEF CriticalExit, TypeOK, OneCall, Steps, Contexts
  <2>4. HandlerOutside'
    BY <1>9 DEF CriticalExit, TypeOK, HandlerOutside, Steps, Contexts
  <2>5. QED
    BY <2>2, <2>3, <2>4
<1>10. ASSUME NEW c \in Contexts, Return(c) PROVE Inv'
  <2>1. /\ pc' \in [Contexts -> Places] /\ pc'[c] = "off"
        /\ \A d \in Contexts : d # c => pc'[d] = pc[d]
    BY <1>10, Move DEF Return, TypeOK, Places, Steps, Contexts
  <2>2. TypeOK'
    BY <1>10, <2>1 DEF Return, TypeOK, OneCall, HandlerOutside, Steps, Contexts
  <2>3. OneCall'
    BY <1>10, <2>1 DEF Return, TypeOK, OneCall, Steps, Contexts
  <2>4. HandlerOutside'
    BY <1>10, <2>1 DEF Return, TypeOK, HandlerOutside, Steps, Contexts
  <2>5. QED
    BY <2>2, <2>3, <2>4
<1>11. CASE Fire
  <2>2. TypeOK'
    BY <1>11 DEF Fire, TypeOK, OneCall, HandlerOutside, Steps, Contexts
  <2>3. OneCall'
    BY <1>11 DEF Fire, TypeOK, OneCall, Steps, Contexts
  <2>4. HandlerOutside'
    BY <1>11 DEF Fire, TypeOK, HandlerOutside, Steps, Contexts
  <2>5. QED
    BY <2>2, <2>3, <2>4
<1>12. CASE TakeIrq
  <2>1. /\ pc' \in [Contexts -> Places] /\ pc'["grtc"] = "check"
        /\ \A d \in Contexts : d # "grtc" => pc'[d] = pc[d]
    BY <1>12, Move DEF TakeIrq, Deliverable, TypeOK, Places, Steps, Contexts
  <2>2. TypeOK'
    BY <1>12, <2>1 DEF TakeIrq, Deliverable, TypeOK, OneCall, HandlerOutside, Steps, Contexts
  <2>3. OneCall'
    BY <1>12, <2>1 DEF TakeIrq, Deliverable, TypeOK, OneCall, Steps, Contexts
  <2>4. HandlerOutside'
    BY <1>12, <2>1 DEF TakeIrq, Deliverable, TypeOK, HandlerOutside, Steps, Contexts
  <2>5. QED
    BY <2>2, <2>3, <2>4
<1>13. CASE HandlerCheck
  <2>1. /\ pc' \in [Contexts -> Places] /\ pc'["grtc"] = (IF m_enabled THEN "call" ELSE "off")
        /\ \A d \in Contexts : d # "grtc" => pc'[d] = pc[d]
    BY <1>13, Move DEF HandlerCheck, TypeOK, Places, Steps, Contexts
  <2>2. TypeOK'
    BY <1>13, <2>1 DEF HandlerCheck, TypeOK, OneCall, HandlerOutside, Steps, Contexts
  <2>3. OneCall'
    BY <1>13, <2>1 DEF HandlerCheck, TypeOK, OneCall, Steps, Contexts
  <2>4. HandlerOutside'
    BY <1>13, <2>1 DEF HandlerCheck, TypeOK, HandlerOutside, Steps, Contexts
  <2>5. QED
    BY <2>2, <2>3, <2>4
<1>14. CASE HandlerCall
  <2>1. /\ pc' \in [Contexts -> Places] /\ pc'["grtc"] = "run"
        /\ \A d \in Contexts : d # "grtc" => pc'[d] = pc[d]
    BY <1>14, Move DEF HandlerCall, TypeOK, Places, Steps, Contexts
  <2>2. TypeOK'
    BY <1>14, <2>1 DEF HandlerCall, TypeOK, OneCall, HandlerOutside, Steps, Contexts
  <2>3. OneCall'
    BY <1>14, <2>1 DEF HandlerCall, TypeOK, OneCall, Steps, Contexts
  <2>4. HandlerOutside'
    BY <1>14, <2>1 DEF HandlerCall, TypeOK, HandlerOutside, Steps, Contexts
  <2>5. QED
    BY <2>2, <2>3, <2>4
<1>15. CASE RadioIrq
  <2>1. /\ pc' \in [Contexts -> Places] /\ pc'["radio"] = "run"
        /\ \A d \in Contexts : d # "radio" => pc'[d] = pc[d]
    BY <1>15, Move DEF RadioIrq, TypeOK, Places, Steps, Contexts
  <2>2. TypeOK'
    BY <1>15, <2>1 DEF RadioIrq, TypeOK, OneCall, HandlerOutside, Steps, Contexts
  <2>3. OneCall'
    BY <1>15, <2>1 DEF RadioIrq, TypeOK, OneCall, Steps, Contexts
  <2>4. HandlerOutside'
    BY <1>15, <2>1 DEF RadioIrq, TypeOK, HandlerOutside, Steps, Contexts
  <2>5. QED
    BY <2>2, <2>3, <2>4
<1>16. CASE UNCHANGED vars
  BY <1>16 DEF vars, TypeOK, OneCall, HandlerOutside
<1>17. QED
  BY <1>1, <1>2, <1>3, <1>4, <1>5, <1>6, <1>7, <1>8, <1>9, <1>10, <1>11, <1>12, <1>13, <1>14,
     <1>15, <1>16, Cases

\* Every variable of the timer keeps its type, one call of schedule_at or
\* disable is under way at a time, and an interrupt leaves its sections.
THEOREM TypeCorrect == Spec => []TypeOK
<1>1. Spec => []Inv
  BY InitInv, InvStep, PTL DEF Spec
<1>2. Inv => TypeOK
  BY DEF Inv
<1>3. QED
  BY <1>1, <1>2, PTL

-----------------------------------------------------------------------------
\* The count of open critical sections is zero when no context has one.
LEMMA Counter ==
  ASSUME TypeOK
  PROVE  /\ m_critical_section_cnt \in Nat
         /\ m_critical_section_cnt = 0 <=> \A c \in Contexts : depth[c] = 0
  BY DEF TypeOK, m_critical_section_cnt, Contexts

\* Two contexts: one can preempt the other.
LEMMA Order == \A c, d \in Contexts : c = d \/ d \in Above(c) \/ c \in Above(d)
  BY DEF Contexts, Above

LEMMA AboveType == \A c \in Contexts : Above(c) \subseteq Contexts /\ c \notin Above(c)
  BY DEF Contexts, Above

\* What preempted the running context has ended and left its sections.
LEMMA NothingAbove ==
  ASSUME TypeOK, NEW c \in Contexts, Running(c)
  PROVE  \A d \in Above(c) : pc[d] = "off" /\ depth[d] = 0
<1>1. \A d \in Contexts : pc[d] = "off" => depth[d] = 0
  BY DEF TypeOK
<1>2. QED
  BY <1>1, AboveType DEF Running

\* Enter and exit count up and down.
LEMMA CountUp ==
  ASSUME TypeOK, NEW c \in Contexts, CriticalEnter(c)
  PROVE  /\ m_critical_section_cnt' = m_critical_section_cnt + 1
         /\ \A d \in Contexts : d # c => depth'[d] = depth[d]
  BY DEF TypeOK, CriticalEnter, m_critical_section_cnt, Contexts

LEMMA CountDown ==
  ASSUME TypeOK, NEW c \in Contexts, CriticalExit(c)
  PROVE  /\ m_critical_section_cnt' = m_critical_section_cnt - 1
         /\ \A d \in Contexts : depth'[d] = IF d = c THEN depth[d] - 1 ELSE depth[d]
  BY DEF TypeOK, CriticalExit, m_critical_section_cnt, Contexts

\* A call that is about to unmask the interrupt is not inside a section that
\* nothing has broken: its own context and those below opened none, and those
\* above have ended.
LEMMA OutsideWhenUnlocking ==
  ASSUME Inv, UnlockOutside, NEW c \in Contexts, Running(c),
         pc[c] \in Steps, key \/ pc[c] = "inton", ~broken
  PROVE  m_critical_section_cnt = 0
<1>1. \A d \in Contexts \ Above(c) : depth[d] = 0
  BY DEF UnlockOutside
<1>2. \A d \in Above(c) : depth[d] = 0
  BY NothingAbove DEF Inv
<1>3. QED
  BY <1>1, <1>2, Counter DEF Inv

\* After initialisation the bit is set and the interrupt is off.
LEMMA MaskInit == Init => MaskInv
<1>1. ASSUME Init PROVE m_critical_section_cnt = 0
  BY <1>1 DEF Init, m_critical_section_cnt, Contexts
<1>2. ASSUME Init, NEW c \in Contexts PROVE pc[c] \notin Steps
  BY <1>2 DEF Init, Steps
<1>3. ASSUME Init PROVE int_mask /\ ~irqOn
  BY <1>3 DEF Init
<1>4. ASSUME Init PROVE ~(m_critical_section_cnt > 0)
  BY <1>1, <1>4
<1>5. QED
  BY <1>2, <1>3, <1>4 DEF MaskInv, NeverLeftMasked, MaskedInside, UnlockOutside, OnlyKnownBreaches

\* The four parts of MaskInv, action by action.
LEMMA MaskStep == Inv /\ MaskInv /\ [Next]_vars => MaskInv'
<1> SUFFICES ASSUME Inv, MaskInv, [Next]_vars PROVE MaskInv'
  OBVIOUS
<1> USE DEF hwVars, csVars, callVars
<1>0. /\ TypeOK /\ OneCall /\ NeverLeftMasked /\ MaskedInside /\ UnlockOutside
      /\ OnlyKnownBreaches /\ m_critical_section_cnt \in Nat
  BY Counter DEF Inv, MaskInv
<1>a. ASSUME UNCHANGED depth PROVE UNCHANGED m_critical_section_cnt
  BY <1>a DEF m_critical_section_cnt
<1>1. ASSUME NEW c \in Contexts, NEW o \in {"schedule", "disable"}, Begin(c, o) PROVE MaskInv'
  <2>1. /\ pc'[c] = "lock"
        /\ \A d \in Contexts : d # c => pc'[d] = pc[d]
    BY <1>0, <1>1, Move DEF Begin, Calls, MayBegin, TypeOK, Places, Steps, Contexts
  <2>2. NeverLeftMasked'
    BY <1>0, <1>1, <2>1, <1>a DEF Begin, Calls, MayBegin, NeverLeftMasked, OneCall, TypeOK
  <2>3. MaskedInside'
    BY <1>0, <1>1, <2>1, <1>a DEF Begin, Calls, MayBegin, MaskedInside
  <2>4. UnlockOutside'
    BY <1>0, <1>1, <2>1, <1>a DEF Begin, Calls, MayBegin, UnlockOutside, OneCall, Steps
  <2>5. OnlyKnownBreaches'
    BY <1>0, <1>1, <2>1, <1>a DEF Begin, Calls, MayBegin, OnlyKnownBreaches
  <2>6. QED
    BY <2>2, <2>3, <2>4, <2>5 DEF MaskInv
<1>2. ASSUME NEW c \in Contexts, Lock(c) PROVE MaskInv'
  <2>1. /\ pc'[c] = "intoff"
        /\ \A d \in Contexts : d # c => pc'[d] = pc[d]
    BY <1>0, <1>2, Move DEF Lock, TypeOK, Places, Steps, Contexts
  <2>2. NeverLeftMasked'
    <3>1. op # "none" /\ ~key
      BY <1>0, <1>2 DEF Lock, OneCall, TypeOK, Steps
    <3>2. CASE int_mask
      BY <1>2, <3>1, <3>2 DEF Lock, NeverLeftMasked
    <3>3. CASE ~int_mask
      BY <1>0, <1>2, <1>a, <3>1, <3>3 DEF Lock, NeverLeftMasked
    <3>4. QED
      BY <3>2, <3>3
  <2>3. MaskedInside'
    BY <1>0, <1>2, <2>1, <1>a DEF Lock, MaskedInside
  <2>4. UnlockOutside'
    <3>1. SUFFICES ASSUME NEW d \in Contexts, pc'[d] \in Steps, key', ~broken
                   PROVE  \A e \in Contexts \ Above(d) : depth[e] = 0
      BY <1>0, <1>2, <2>1 DEF Lock, UnlockOutside, OneCall, Steps
    <3>2. ~(m_critical_section_cnt > 0)
      BY <1>0, <1>2, <3>1 DEF Lock, MaskedInside
    <3>3. QED
      BY <1>0, <3>2, Counter
  <2>5. OnlyKnownBreaches'
    BY <1>0, <1>2, <2>1, <1>a DEF Lock, OnlyKnownBreaches
  <2>6. QED
    BY <2>2, <2>3, <2>4, <2>5 DEF MaskInv
<1>3. ASSUME NEW c \in Contexts, LockIntOff(c) PROVE MaskInv'
  <2>1. /\ pc'[c] = "compare"
        /\ \A d \in Contexts : d # c => pc'[d] = pc[d]
    BY <1>0, <1>3, Move DEF LockIntOff, TypeOK, Places, Steps, Contexts
  <2>2. NeverLeftMasked'
    BY <1>0, <1>3, <2>1, <1>a DEF LockIntOff, NeverLeftMasked, OneCall, TypeOK
  <2>3. MaskedInside'
    BY <1>0, <1>3, <2>1, <1>a DEF LockIntOff, MaskedInside
  <2>4. UnlockOutside'
    BY <1>0, <1>3, <2>1, <1>a DEF LockIntOff, UnlockOutside, OneCall, Steps
  <2>5. OnlyKnownBreaches'
    BY <1>0, <1>3, <2>1, <1>a DEF LockIntOff, OnlyKnownBreaches
  <2>6. QED
    BY <2>2, <2>3, <2>4, <2>5 DEF MaskInv
<1>4. ASSUME NEW c \in Contexts, SetCompare(c) PROVE MaskInv'
  <2>1. /\ pc'[c] = "unlock"
        /\ \A d \in Contexts : d # c => pc'[d] = pc[d]
    BY <1>0, <1>4, Move DEF SetCompare, TypeOK, Places, Steps, Contexts
  <2>2. NeverLeftMasked'
    BY <1>0, <1>4, <2>1, <1>a DEF SetCompare, NeverLeftMasked, OneCall, TypeOK
  <2>3. MaskedInside'
    BY <1>0, <1>4, <2>1, <1>a DEF SetCompare, MaskedInside
  <2>4. UnlockOutside'
    BY <1>0, <1>4, <2>1, <1>a DEF SetCompare, UnlockOutside, OneCall, Steps
  <2>5. OnlyKnownBreaches'
    BY <1>0, <1>4, <2>1, <1>a DEF SetCompare, OnlyKnownBreaches
  <2>6. QED
    BY <2>2, <2>3, <2>4, <2>5 DEF MaskInv
<1>5. ASSUME NEW c \in Contexts, DisableCompare(c) PROVE MaskInv'
  <2>1. /\ pc'[c] = "unlock"
        /\ \A d \in Contexts : d # c => pc'[d] = pc[d]
    BY <1>0, <1>5, Move DEF DisableCompare, TypeOK, Places, Steps, Contexts
  <2>2. NeverLeftMasked'
    BY <1>0, <1>5, <2>1, <1>a DEF DisableCompare, NeverLeftMasked, OneCall, TypeOK
  <2>3. MaskedInside'
    BY <1>0, <1>5, <2>1, <1>a DEF DisableCompare, MaskedInside
  <2>4. UnlockOutside'
    BY <1>0, <1>5, <2>1, <1>a DEF DisableCompare, UnlockOutside, OneCall, Steps
  <2>5. OnlyKnownBreaches'
    BY <1>0, <1>5, <2>1, <1>a DEF DisableCompare, OnlyKnownBreaches
  <2>6. QED
    BY <2>2, <2>3, <2>4, <2>5 DEF MaskInv
<1>6. ASSUME NEW c \in Contexts, Unlock(c) PROVE MaskInv'
  <2>1. /\ pc'[c] = (IF key THEN "inton" ELSE "run")
        /\ \A d \in Contexts : d # c => pc'[d] = pc[d]
    BY <1>0, <1>6, Move DEF Unlock, TypeOK, Places, Steps, Contexts
  <2>2. NeverLeftMasked'
    BY <1>0, <1>6, <2>1, <1>a DEF Unlock, NeverLeftMasked, OneCall, TypeOK
  <2>3. MaskedInside'
    <3>1. CASE key /\ ~broken
      <4>1. m_critical_section_cnt = 0
        BY <1>0, <1>6, <3>1, OutsideWhenUnlocking DEF Unlock, Steps
      <4>2. QED
        BY <1>6, <1>a, <4>1 DEF Unlock, MaskedInside
    <3>2. CASE ~key \/ broken
      BY <1>0, <1>6, <1>a, <3>2 DEF Unlock, MaskedInside
    <3>3. QED
      BY <3>1, <3>2
  <2>4. UnlockOutside'
    BY <1>0, <1>6, <2>1, <1>a DEF Unlock, UnlockOutside, OneCall, Steps
  <2>5. OnlyKnownBreaches'
    BY <1>0, <1>6, <2>1, <1>a DEF Unlock, OnlyKnownBreaches
  <2>6. QED
    BY <2>2, <2>3, <2>4, <2>5 DEF MaskInv
<1>7. ASSUME NEW c \in Contexts, UnlockIntOn(c) PROVE MaskInv'
  <2>1. /\ pc'[c] = "run"
        /\ \A d \in Contexts : d # c => pc'[d] = pc[d]
    BY <1>0, <1>7, Move DEF UnlockIntOn, TypeOK, Places, Steps, Contexts
  <2>2. NeverLeftMasked'
    BY <1>0, <1>7, <2>1, <1>a DEF UnlockIntOn, NeverLeftMasked, OneCall, TypeOK
  <2>3. MaskedInside'
    BY <1>0, <1>7, <2>1, <1>a DEF UnlockIntOn, MaskedInside
  <2>4. UnlockOutside'
    BY <1>0, <1>7, <2>1, <1>a DEF UnlockIntOn, UnlockOutside, OneCall, Steps
  <2>5. OnlyKnownBreaches'
    <3>1. CASE ~broken
      <4>1. m_critical_section_cnt = 0
        BY <1>0, <1>7, <3>1, OutsideWhenUnlocking DEF UnlockIntOn, Steps
      <4>2. QED
        BY <1>7, <1>a, <4>1 DEF UnlockIntOn, OnlyKnownBreaches
    <3>2. CASE broken
      BY <1>7, <3>2 DEF UnlockIntOn, OnlyKnownBreaches
    <3>3. QED
      BY <3>1, <3>2
  <2>6. QED
    BY <2>2, <2>3, <2>4, <2>5 DEF MaskInv
<1>8. ASSUME NEW c \in Contexts, CriticalEnter(c) PROVE MaskInv'
  <2>1. m_critical_section_cnt' = m_critical_section_cnt + 1
    BY <1>0, <1>8, CountUp
  <2>2. NeverLeftMasked'
    <3>1. CASE m_critical_section_cnt = 0
      BY <1>0, <1>8, <2>1, <3>1 DEF CriticalEnter, NeverLeftMasked
    <3>2. CASE m_critical_section_cnt # 0
      BY <1>0, <1>8, <2>1, <3>2 DEF CriticalEnter, NeverLeftMasked
    <3>3. QED
      BY <3>1, <3>2
  <2>3. MaskedInside'
    BY <1>0, <1>8 DEF CriticalEnter, Calls, MaskedInside
  <2>4. UnlockOutside'
    <3>1. SUFFICES ASSUME NEW d \in Contexts, pc[d] \in Steps, key \/ pc[d] = "inton", ~broken',
                          NEW e \in Contexts \ Above(d)
                   PROVE  depth'[e] = 0
      BY <1>8 DEF CriticalEnter, UnlockOutside
    <3>2. d # c /\ d \notin Above(c)
      BY <1>8, <3>1 DEF CriticalEnter, Calls, Running, Steps
    <3>3. e # c /\ depth'[e] = depth[e]
      BY <1>0, <1>8, <3>1, <3>2, Order, CountUp
    <3>4. CASE m_critical_section_cnt = 0
      BY <1>0, <3>1, <3>3, <3>4, Counter
    <3>5. CASE m_critical_section_cnt # 0
      BY <1>0, <1>8, <3>1, <3>3, <3>5 DEF CriticalEnter, UnlockOutside
    <3>6. QED
      BY <3>4, <3>5
  <2>5. OnlyKnownBreaches'
    BY <1>0, <1>8 DEF CriticalEnter, Calls, OnlyKnownBreaches
  <2>6. QED
    BY <2>2, <2>3, <2>4, <2>5 DEF MaskInv
<1>9. ASSUME NEW c \in Contexts, CriticalExit(c) PROVE MaskInv'
  <2>1. /\ m_critical_section_cnt' = m_critical_section_cnt - 1
        /\ \A d \in Contexts : depth[d] = 0 => depth'[d] = 0
    <3>1. depth[c] # 0
      BY <1>9 DEF CriticalExit
    <3>2. QED
      BY <1>0, <1>9, <3>1, CountDown
  <2>2. NeverLeftMasked'
    BY <1>0, <1>9 DEF CriticalExit, NeverLeftMasked, TypeOK
  <2>3. m_critical_section_cnt' > 0 => broken'
    <3>1. m_critical_section_cnt' > 0 => m_critical_section_cnt > 1
      BY <1>0, <2>1
    <3>2. QED
      BY <1>9, <3>1 DEF CriticalExit
  <2>4. MaskedInside'
    BY <2>3 DEF MaskedInside
  <2>5. UnlockOutside'
    <3>1. broken => broken'
      BY <1>9 DEF CriticalExit
    <3>2. UNCHANGED <<pc, key>>
      BY <1>9 DEF CriticalExit
    <3>3. QED
      BY <1>0, <2>1, <3>1, <3>2 DEF UnlockOutside
  <2>6. OnlyKnownBreaches'
    BY <2>3 DEF OnlyKnownBreaches
  <2>7. QED
    BY <2>2, <2>4, <2>5, <2>6 DEF MaskInv
<1>10. ASSUME NEW c \in Contexts, Return(c) PROVE MaskInv'
  <2>1. /\ pc'[c] = "off"
        /\ \A d \in Contexts : d # c => pc'[d] = pc[d]
    BY <1>0, <1>10, Move DEF Return, TypeOK, Places, Steps, Contexts
  <2>2. NeverLeftMasked'
    BY <1>0, <1>10, <2>1, <1>a DEF Return, NeverLeftMasked, OneCall, TypeOK
  <2>3. MaskedInside'
    BY <1>0, <1>10, <2>1, <1>a DEF Return, MaskedInside
  <2>4. UnlockOutside'
    BY <1>0, <1>10, <2>1, <1>a DEF Return, UnlockOutside, OneCall, Steps
  <2>5. OnlyKnownBreaches'
    BY <1>0, <1>10, <2>1, <1>a DEF Return, OnlyKnownBreaches
  <2>6. QED
    BY <2>2, <2>3, <2>4, <2>5 DEF MaskInv
<1>11. CASE Fire
  <2>2. NeverLeftMasked'
    BY <1>0, <1>11, <1>a DEF Fire, NeverLeftMasked, OneCall, TypeOK
  <2>3. MaskedInside'
    BY <1>0, <1>11, <1>a DEF Fire, MaskedInside
  <2>4. UnlockOutside'
    BY <1>0, <1>11, <1>a DEF Fire, UnlockOutside, OneCall, Steps
  <2>5. OnlyKnownBreaches'
    BY <1>0, <1>11, <1>a DEF Fire, OnlyKnownBreaches
  <2>6. QED
    BY <2>2, <2>3, <2>4, <2>5 DEF MaskInv
<1>12. CASE TakeIrq
  <2>1. /\ pc'["grtc"] = "check"
        /\ \A d \in Contexts : d # "grtc" => pc'[d] = pc[d]
    BY <1>0, <1>12, Move DEF TakeIrq, Deliverable, TypeOK, Places, Steps, Contexts
  <2>2. NeverLeftMasked'
    BY <1>0, <1>12, <2>1, <1>a DEF TakeIrq, Deliverable, NeverLeftMasked, OneCall, TypeOK
  <2>3. MaskedInside'
    BY <1>0, <1>12, <2>1, <1>a DEF TakeIrq, Deliverable, MaskedInside
  <2>4. UnlockOutside'
    BY <1>0, <1>12, <2>1, <1>a DEF TakeIrq, Deliverable, UnlockOutside, OneCall, Steps
  <2>5. OnlyKnownBreaches'
    BY <1>0, <1>12, <2>1, <1>a DEF TakeIrq, Deliverable, OnlyKnownBreaches
  <2>6. QED
    BY <2>2, <2>3, <2>4, <2>5 DEF MaskInv
<1>13. CASE HandlerCheck
  <2>1. /\ pc'["grtc"] = (IF m_enabled THEN "call" ELSE "off")
        /\ \A d \in Contexts : d # "grtc" => pc'[d] = pc[d]
    BY <1>0, <1>13, Move DEF HandlerCheck, TypeOK, Places, Steps, Contexts
  <2>2. NeverLeftMasked'
    BY <1>0, <1>13, <2>1, <1>a DEF HandlerCheck, NeverLeftMasked, OneCall, TypeOK
  <2>3. MaskedInside'
    BY <1>0, <1>13, <2>1, <1>a DEF HandlerCheck, MaskedInside
  <2>4. UnlockOutside'
    BY <1>0, <1>13, <2>1, <1>a DEF HandlerCheck, UnlockOutside, OneCall, Steps
  <2>5. OnlyKnownBreaches'
    BY <1>0, <1>13, <2>1, <1>a DEF HandlerCheck, OnlyKnownBreaches
  <2>6. QED
    BY <2>2, <2>3, <2>4, <2>5 DEF MaskInv
<1>14. CASE HandlerCall
  <2>1. /\ pc'["grtc"] = "run"
        /\ \A d \in Contexts : d # "grtc" => pc'[d] = pc[d]
    BY <1>0, <1>14, Move DEF HandlerCall, TypeOK, Places, Steps, Contexts
  <2>2. NeverLeftMasked'
    BY <1>0, <1>14, <2>1, <1>a DEF HandlerCall, NeverLeftMasked, OneCall, TypeOK
  <2>3. MaskedInside'
    BY <1>0, <1>14, <2>1, <1>a DEF HandlerCall, MaskedInside
  <2>4. UnlockOutside'
    BY <1>0, <1>14, <2>1, <1>a DEF HandlerCall, UnlockOutside, OneCall, Steps
  <2>5. OnlyKnownBreaches'
    BY <1>0, <1>14, <2>1, <1>a DEF HandlerCall, OnlyKnownBreaches
  <2>6. QED
    BY <2>2, <2>3, <2>4, <2>5 DEF MaskInv
<1>15. CASE RadioIrq
  <2>1. /\ pc'["radio"] = "run"
        /\ \A d \in Contexts : d # "radio" => pc'[d] = pc[d]
    BY <1>0, <1>15, Move DEF RadioIrq, TypeOK, Places, Steps, Contexts
  <2>2. NeverLeftMasked'
    BY <1>0, <1>15, <2>1, <1>a DEF RadioIrq, NeverLeftMasked, OneCall, TypeOK
  <2>3. MaskedInside'
    BY <1>0, <1>15, <2>1, <1>a DEF RadioIrq, MaskedInside
  <2>4. UnlockOutside'
    BY <1>0, <1>15, <2>1, <1>a DEF RadioIrq, UnlockOutside, OneCall, Steps
  <2>5. OnlyKnownBreaches'
    BY <1>0, <1>15, <2>1, <1>a DEF RadioIrq, OnlyKnownBreaches
  <2>6. QED
    BY <2>2, <2>3, <2>4, <2>5 DEF MaskInv
<1>16. CASE UNCHANGED vars
  BY <1>0, <1>a, <1>16 DEF vars, MaskInv, NeverLeftMasked, MaskedInside, UnlockOutside,
     OnlyKnownBreaches
<1>17. QED
  BY <1>1, <1>2, <1>3, <1>4, <1>5, <1>6, <1>7, <1>8, <1>9, <1>10, <1>11, <1>12, <1>13, <1>14,
     <1>15, <1>16, Cases

\* The interrupt is masked only while a call or a critical section that will
\* unmask it is open.
THEOREM MaskNotForgotten == Spec => []NeverLeftMasked
<1>1. Spec => [](Inv /\ MaskInv)
  BY InitInv, InvStep, MaskInit, MaskStep, PTL DEF Spec
<1>2. Inv /\ MaskInv => NeverLeftMasked
  BY DEF MaskInv
<1>3. QED
  BY <1>1, <1>2, PTL

\* Nothing lets the interrupt into a critical section but the exit of an inner
\* one and the scheduling of the timer inside it.
THEOREM NoOtherBreach == Spec => []OnlyKnownBreaches
<1>1. Spec => [](Inv /\ MaskInv)
  BY InitInv, InvStep, MaskInit, MaskStep, PTL DEF Spec
<1>2. Inv /\ MaskInv => OnlyKnownBreaches
  BY DEF MaskInv
<1>3. QED
  BY <1>1, <1>2, PTL

-----------------------------------------------------------------------------
\* Only the thread's disable makes the timer silent, and the handler is called
\* only after the flag has been found set.
LEMMA SilencedStep == Inv /\ Silenced /\ [Next]_vars => Silenced'
<1> SUFFICES ASSUME Inv, Silenced, [Next]_vars PROVE Silenced'
  OBVIOUS
<1> USE DEF hwVars, csVars, callVars
<1>0. /\ pc \in [Contexts -> Places] /\ "grtc" \in Contexts
      /\ m_enabled \in BOOLEAN /\ silenced \in BOOLEAN
      /\ {"off", "run", "check", "call"} \cup Steps \subseteq Places
  BY DEF Inv, TypeOK, Contexts, Places
<1>1. ASSUME NEW c \in Contexts, NEW o \in {"schedule", "disable"}, Begin(c, o)
      PROVE  Silenced'
  <2>1. c = "thread" => pc["grtc"] = "off"
    BY <1>1 DEF Begin, Calls, Running, Above
  <2>2. pc'["grtc"] = "call" => pc["grtc"] = "call"
    BY <1>0, <1>1 DEF Begin, Goto
  <2>3. QED
    BY <1>1, <2>1, <2>2 DEF Begin, Silenced
<1>2. ASSUME NEW c \in Contexts,
             \/ Lock(c) \/ LockIntOff(c) \/ SetCompare(c) \/ DisableCompare(c)
             \/ Unlock(c) \/ UnlockIntOn(c) \/ Return(c)
      PROVE  Silenced'
  <2>1. \E place \in Places \ {"call"} : Goto(c, place)
    BY <1>0, <1>2 DEF Lock, LockIntOff, SetCompare, DisableCompare, Unlock, UnlockIntOn, Return,
                      Places, Steps
  <2>2. pc'["grtc"] = "call" => pc["grtc"] = "call"
    BY <1>0, <2>1 DEF Goto
  <2>3. UNCHANGED <<m_enabled, silenced>>
    BY <1>2 DEF Lock, LockIntOff, SetCompare, DisableCompare, Unlock, UnlockIntOn, Return
  <2>4. QED
    BY <2>2, <2>3 DEF Silenced
<1>3. ASSUME NEW c \in Contexts, CriticalEnter(c) \/ CriticalExit(c) PROVE Silenced'
  BY <1>3 DEF CriticalEnter, CriticalExit, Silenced
<1>4. CASE Fire \/ UNCHANGED vars
  BY <1>4 DEF Fire, vars, Silenced
<1>5. CASE TakeIrq
  BY <1>0, <1>5 DEF TakeIrq, Goto, Silenced
<1>6. CASE HandlerCheck
  <2>1. pc'["grtc"] = "call" => m_enabled
    BY <1>0, <1>6 DEF HandlerCheck, Goto
  <2>2. QED
    BY <1>6, <2>1 DEF HandlerCheck, Silenced
<1>7. CASE HandlerCall
  BY <1>0, <1>7 DEF HandlerCall, Goto, Silenced
<1>8. CASE RadioIrq
  <2>1. pc'["grtc"] = pc["grtc"]
    BY <1>0, <1>8 DEF RadioIrq, Goto
  <2>2. QED
    BY <1>8, <2>1 DEF RadioIrq, Silenced
<1>9. QED
  BY <1>1, <1>2, <1>3, <1>4, <1>5, <1>6, <1>7, <1>8, Cases

\* Once the thread has disabled the timer, no interrupt, however late, calls
\* the service layer's handler.
THEOREM SilentWhenDisabled == Spec => DisabledStaysSilent
<1>1. Init => Silenced
  BY DEF Init, Silenced, Contexts
<1>2. Spec => [](Inv /\ Silenced)
  BY <1>1, InitInv, InvStep, SilencedStep, PTL DEF Spec
<1>3. Inv /\ Silenced =>
        [pc["grtc"] = "call" /\ pc'["grtc"] = "run" => ~(silenced /\ pc["thread"] = "run")]_vars
  BY DEF Silenced
<1>4. QED
  BY <1>2, <1>3, PTL DEF DisabledStaysSilent

-----------------------------------------------------------------------------
(***************************************************************************)
(* The other compare channel: the hardware task's, for any set of (D)PPI   *)
(* channels and any counter.                                               *)
(*                                                                         *)
(* One context at a time is in a call, since the others find the state     *)
(* taken.  A compare value that is set late may be missed; the test after  *)
(* it, with its margin, succeeds only if the value was set in time, and    *)
(* from there on the channel waits for its time or has been triggered.     *)
(***************************************************************************)
USE HwTaskAssumption

StateOf == [prepare |-> "SETTING_UP", cleanup |-> "CLEANING", update |-> "UPDATING"]

\* A context in a call owns the state, and no other one is in a call.
OneTaskCall ==
  /\ \A c \in Task!Contexts : task_pc[c] # "idle" =>
       task_arg[c].call \in Task!Calls /\ m_hw_task_state = StateOf[task_arg[c].call]
  /\ \A c, d \in Task!Contexts : task_pc[c] # "idle" /\ task_pc[d] # "idle" => c = d

\* The steps of each call.
TaskPlaces ==
  \A c \in Task!Contexts :
    /\ task_pc[c] = "connect" => task_arg[c].call \in {"prepare", "update"} /\ c \notin late
    /\ task_pc[c] \in {"set", "check"} => task_arg[c].call = "prepare" /\ c \notin late
    /\ task_pc[c] \in {"clear", "disable"} =>
         task_arg[c].call = "cleanup" \/ (task_arg[c].call = "prepare" /\ c \in late)
    /\ task_pc[c] \in {"event", "time"} => task_arg[c].call = "update"
    /\ task_pc[c] # "idle" /\ task_pc[c] # "connect" /\ task_arg[c].call = "prepare" =>
         m_hw_task_fire_lpticks = task_arg[c].fire

\* The compare channel waits for the time of the task, if it is still to come.
Waits == now < m_hw_task_fire_lpticks => compare = m_hw_task_fire_lpticks

\* The channel connected has been triggered, if that time has come.
Kept ==
  published # Task!NoChannel /\ now >= m_hw_task_fire_lpticks => published \in triggered

\* Where the task is armed: once it is READY, and before it is, when a time well
\* ahead has been set.
Armed ==
  /\ m_hw_task_state \in {"READY", "UPDATING"} => Waits
  /\ \A c \in Task!Contexts :
       /\ task_pc[c] = "check" =>
            (now + 1 < m_hw_task_fire_lpticks => compare = m_hw_task_fire_lpticks)
       /\ task_pc[c] = "done" /\ task_arg[c].call = "prepare" /\ c \notin late => Waits
       /\ task_pc[c] = "done" /\ c \notin late => Kept

\* Where it is not: in the course of a cleanup and when it is IDLE.
Quiet ==
  /\ Task!IdleIsQuiet
  /\ \A c \in Task!Contexts :
       /\ task_pc[c] = "disable" => published = Task!NoChannel
       /\ task_pc[c] = "done" /\ task_arg[c].call = "cleanup" =>
            compare = 0 /\ published = Task!NoChannel
       /\ task_pc[c] = "done" /\ task_arg[c].call = "prepare" /\ c \in late =>
            compare = 0 /\ published = Task!NoChannel

\* A promise stands while the task is READY and no call is under way.
Promised ==
  promise # Task!NoChannel =>
    m_hw_task_state = "READY" /\ promise = published /\ Kept /\ Waits

TaskIInv == Task!TypeOK /\ OneTaskCall /\ TaskPlaces /\ Armed /\ Quiet /\ Promised

-----------------------------------------------------------------------------
\* Nothing is armed or promised initially.
LEMMA TaskInit ==
  Task!Init => TaskIInv
<1> SUFFICES ASSUME Task!Init PROVE TaskIInv
  OBVIOUS
<1>1. Task!TypeOK
  <2>1. Task!NoArg \in Task!Arguments
    BY DEF Task!NoArg, Task!Arguments
  <2>2. task_arg \in [Task!Contexts -> Task!Arguments]
    BY <2>1 DEF Task!Init
  <2>3. QED
    <3>1. m_hw_task_fire_lpticks \in 0..MaxNow /\ now \in 0..MaxNow /\ compare \in 0..MaxNow
      BY DEF Task!Init
    <3>2. event \in BOOLEAN
      BY DEF Task!Init
    <3>3. task_pc \in [Task!Contexts ->
            {"idle", "connect", "set", "check", "clear", "disable", "event", "time", "done"}]
      BY DEF Task!Init
    <3>4. QED
      BY <2>2, <3>1, <3>2, <3>3 DEF Task!Init, Task!TypeOK
<1>2. OneTaskCall /\ TaskPlaces /\ Armed
  BY DEF Task!Init, OneTaskCall, TaskPlaces, Armed
<1>3. Quiet /\ Promised
  BY DEF Task!Init, Quiet, Promised, Task!IdleIsQuiet
<1>4. QED
  BY <1>1, <1>2, <1>3 DEF TaskIInv

\* A call that succeeds in taking the state.
LEMMA TakeIInv ==
  ASSUME TaskIInv, NEW c \in Task!Contexts,
         \/ \E fire \in Task!Lpticks, ppi \in Channels \cup {Task!NoChannel} :
              Task!Prepare(c, fire, ppi)
         \/ \E ppi \in Channels \cup {Task!NoChannel} : Task!Update(c, ppi)
         \/ Task!Cleanup(c)
  PROVE  TaskIInv'
<1> USE DEF Task!Prepare, Task!Update, Task!Cleanup, Task!Take, Task!MayCall, Task!Goto,
            Task!grtcVars
<1>1. Task!TypeOK'
  <2>1. PICK call \in Task!Arguments : task_arg' = [task_arg EXCEPT ![c] = call]
    <3>1. ASSUME NEW fire \in Task!Lpticks, NEW ppi \in Channels \cup {Task!NoChannel},
                 Task!Prepare(c, fire, ppi)
          PROVE  \E call \in Task!Arguments : task_arg' = [task_arg EXCEPT ![c] = call]
      <4> DEFINE args == [call |-> "prepare", fire |-> fire, ppi |-> ppi]
      <4>1. args \in Task!Arguments
        BY DEF Task!Arguments, Task!Lpticks, Task!Calls
      <4>2. task_arg' = [task_arg EXCEPT ![c] = args]
        BY <3>1
      <4>3. QED
        BY <4>1, <4>2
    <3>2. ASSUME NEW ppi \in Channels \cup {Task!NoChannel}, Task!Update(c, ppi)
          PROVE  \E call \in Task!Arguments : task_arg' = [task_arg EXCEPT ![c] = call]
      <4> DEFINE args == [call |-> "update", fire |-> 0, ppi |-> ppi]
      <4>1. args \in Task!Arguments
        BY DEF Task!Arguments, Task!Calls
      <4>2. task_arg' = [task_arg EXCEPT ![c] = args]
        BY <3>2
      <4>3. QED
        BY <4>1, <4>2
    <3>3. CASE Task!Cleanup(c)
      <4> DEFINE args == [call |-> "cleanup", fire |-> 0, ppi |-> Task!NoChannel]
      <4>1. args \in Task!Arguments
        BY DEF Task!Arguments, Task!Calls
      <4>2. task_arg' = [task_arg EXCEPT ![c] = args]
        BY <3>3
      <4>3. QED
        BY <4>1, <4>2
    <3>4. QED
      BY <3>1, <3>2, <3>3
  <2>2. task_arg' \in [Task!Contexts -> Task!Arguments]
    BY <2>1 DEF TaskIInv, Task!TypeOK
  <2>3. QED
    BY <2>2 DEF TaskIInv, Task!TypeOK
<1>2. \A d \in Task!Contexts : task_pc[d] = "idle"
  BY DEF TaskIInv, OneTaskCall, StateOf, Task!Calls
<1>3. /\ task_pc'[c] \in {"connect", "clear"}
      /\ \A d \in Task!Contexts \ {c} : task_pc'[d] = "idle"
  BY <1>2 DEF TaskIInv, Task!TypeOK
<1>4. OneTaskCall'
  BY <1>2, <1>3 DEF TaskIInv, Task!TypeOK, OneTaskCall, StateOf, Task!Calls
<1>5. TaskPlaces'
  BY <1>2, <1>3 DEF TaskIInv, Task!TypeOK, TaskPlaces
<1>6. Armed'
  BY <1>2, <1>3 DEF TaskIInv, Task!TypeOK, Armed, Waits, Kept
<1>7. Quiet'
  BY <1>2, <1>3 DEF TaskIInv, Task!TypeOK, Quiet, Task!IdleIsQuiet
<1>8. Promised'
  BY DEF Promised
<1>9. QED
  BY <1>1, <1>4, <1>5, <1>6, <1>7, <1>8 DEF TaskIInv

\* The steps inside a call.
InTaskCall(c) ==
  \/ Task!Connect(c) \/ Task!SetCompare(c) \/ Task!Check(c) \/ Task!Clear(c) \/ Task!Disable(c)
  \/ Task!ReadEvent(c) \/ Task!ReadTime(c)

\* They keep the invariant.
LEMMA StepIInv ==
  ASSUME TaskIInv, NEW c \in Task!Contexts, InTaskCall(c)
  PROVE  TaskIInv'
<1> USE DEF InTaskCall, Task!Connect, Task!SetCompare, Task!Check, Task!Clear, Task!Disable,
            Task!ReadEvent, Task!ReadTime, Task!At, Task!Goto, Task!taskVars,
            Task!grtcVars, Task!callVars, Task!Triggers
<1>1. Task!TypeOK'
  <2>1. task_arg' = task_arg
    OBVIOUS
  <2>2. published' \in Channels \cup {Task!NoChannel} /\ triggered' \subseteq Channels
    BY DEF TaskIInv, Task!TypeOK, Task!Arguments
  <2>3. compare' \in 0..MaxNow /\ m_hw_task_fire_lpticks' \in 0..MaxNow /\ now' \in 0..MaxNow
    BY DEF TaskIInv, Task!TypeOK, Task!Arguments
  <2>4. event' \in BOOLEAN
    BY DEF TaskIInv, Task!TypeOK
  <2>5. late' \subseteq Task!Contexts
    BY DEF TaskIInv, Task!TypeOK
  <2>6. task_pc' \in [Task!Contexts ->
          {"idle", "connect", "set", "check", "clear", "disable", "event", "time", "done"}]
    BY DEF TaskIInv, Task!TypeOK
  <2>7. QED
    BY <2>1, <2>2, <2>3, <2>4, <2>5, <2>6 DEF TaskIInv, Task!TypeOK
<1>2. /\ task_pc[c] # "idle"
      /\ \A d \in Task!Contexts \ {c} : task_pc[d] = "idle" /\ task_pc'[d] = "idle"
  BY DEF TaskIInv, Task!TypeOK, OneTaskCall
<1>3. m_hw_task_state = StateOf[task_arg[c].call] /\ task_arg[c].call \in Task!Calls
  BY <1>2 DEF TaskIInv, OneTaskCall
<1>4. task_arg'[c].call = task_arg[c].call /\ task_arg'[c].fire = task_arg[c].fire
  BY DEF TaskIInv, Task!TypeOK
<1>5. OneTaskCall'
  BY <1>2, <1>3, <1>4 DEF TaskIInv, Task!TypeOK, OneTaskCall
<1>6. TaskPlaces'
  BY <1>2, <1>3, <1>4 DEF TaskIInv, Task!TypeOK, TaskPlaces
<1>7. Armed'
  <2>1. m_hw_task_state' \in {"READY", "UPDATING"} => Waits'
    BY <1>2, <1>3 DEF TaskIInv, TaskPlaces, Armed, Waits, StateOf, Task!Calls
  <2>2. task_pc'[c] = "check" =>
          (now' + 1 < m_hw_task_fire_lpticks' => compare' = m_hw_task_fire_lpticks')
    BY <1>2 DEF TaskIInv, Task!TypeOK, TaskPlaces
  <2>3. task_pc'[c] = "done" /\ task_arg'[c].call = "prepare" /\ c \notin late' => Waits'
    BY <1>2 DEF TaskIInv, Task!TypeOK, TaskPlaces, Armed, Waits
  <2>4. task_pc'[c] = "done" /\ c \notin late' => Kept'
    BY <1>2 DEF TaskIInv, Task!TypeOK, TaskPlaces, Armed, Waits, Kept, Quiet
  <2>5. QED
    BY <1>2, <2>1, <2>2, <2>3, <2>4 DEF Armed
<1>8. Quiet'
  BY <1>2, <1>3, <1>4 DEF TaskIInv, Task!TypeOK, TaskPlaces, Quiet, Task!IdleIsQuiet,
                             StateOf, Task!Calls
<1>9. Promised'
  BY <1>3 DEF TaskIInv, Promised, StateOf, Task!Calls
<1>10. QED
  BY <1>1, <1>5, <1>6, <1>7, <1>8, <1>9 DEF TaskIInv

\* The end of a call.
LEMMA DoneIInv ==
  ASSUME TaskIInv, NEW c \in Task!Contexts, Task!Done(c)
  PROVE  TaskIInv'
<1> USE DEF Task!Done, Task!At, Task!Goto, Task!grtcVars
<1>1. Task!TypeOK'
  BY DEF TaskIInv, Task!TypeOK, Task!Contexts, Task!Arguments, Task!Calls, Task!NoArg
<1>2. \A d \in Task!Contexts : task_pc'[d] = "idle"
  BY DEF TaskIInv, Task!TypeOK, OneTaskCall
<1>3. task_arg[c].call \in Task!Calls /\ m_hw_task_state = StateOf[task_arg[c].call]
  BY DEF TaskIInv, OneTaskCall
<1>4. OneTaskCall' /\ TaskPlaces'
  BY <1>2 DEF OneTaskCall, TaskPlaces
<1>5. Armed'
  BY <1>2, <1>3 DEF TaskIInv, Armed, Waits, StateOf, Task!Calls
<1>6. Quiet'
  BY <1>2, <1>3 DEF TaskIInv, Quiet, Task!IdleIsQuiet, StateOf, Task!Calls
<1>7. Promised'
  BY <1>3 DEF TaskIInv, Promised, Armed, Quiet, Waits, Kept, StateOf, Task!Calls
<1>8. QED
  BY <1>1, <1>4, <1>5, <1>6, <1>7 DEF TaskIInv

\* The counter and the interrupt: the event triggers what is connected.
LEMMA GrtcIInv ==
  ASSUME TaskIInv, Task!Tick \/ Task!ClearEvent
  PROVE  TaskIInv'
<1> USE DEF Task!Tick, Task!ClearEvent, Task!taskVars,
            Task!grtcVars, Task!callVars, Task!Triggers
<1>1. Task!TypeOK'
  <2>1. task_arg' = task_arg /\ late' = late /\ task_pc' = task_pc
    OBVIOUS
  <2>2. triggered' \subseteq Channels
    BY DEF TaskIInv, Task!TypeOK
  <2>3. now' \in 0..MaxNow /\ compare' \in 0..MaxNow
    BY DEF TaskIInv, Task!TypeOK
  <2>4. event' \in BOOLEAN
    BY Zenon DEF TaskIInv, Task!TypeOK
  <2>5. QED
    BY <2>1, <2>2, <2>3, <2>4 DEF TaskIInv, Task!TypeOK
<1>2. OneTaskCall' /\ TaskPlaces'
  BY DEF TaskIInv, OneTaskCall, TaskPlaces
<1>3. Waits => Waits'
  BY DEF TaskIInv, Task!TypeOK, Waits
<1>4. Waits /\ Kept => Kept'
  BY DEF TaskIInv, Task!TypeOK, Waits, Kept
<1>5. Armed'
  <2>1. m_hw_task_state' \in {"READY", "UPDATING"} => Waits'
    BY <1>3 DEF TaskIInv, Armed
  <2> SUFFICES ASSUME NEW c \in Task!Contexts
               PROVE  /\ task_pc[c] = "check" =>
                           (now' + 1 < m_hw_task_fire_lpticks => compare' = m_hw_task_fire_lpticks)
                      /\ task_pc[c] = "done" /\ task_arg[c].call = "prepare" /\ c \notin late
                           => Waits'
                      /\ task_pc[c] = "done" /\ c \notin late => Kept'
    BY <2>1 DEF Armed
  <2>2. task_pc[c] = "check" =>
          (now' + 1 < m_hw_task_fire_lpticks => compare' = m_hw_task_fire_lpticks)
    BY DEF TaskIInv, Task!TypeOK, Armed
  <2>3. task_pc[c] = "done" /\ task_arg[c].call = "prepare" /\ c \notin late => Waits'
    BY <1>3 DEF TaskIInv, Armed
  <2>4. ASSUME task_pc[c] = "done", c \notin late
        PROVE  Kept'
    <3>1. task_arg[c].call \in Task!Calls /\ m_hw_task_state = StateOf[task_arg[c].call]
      BY <2>4 DEF TaskIInv, OneTaskCall
    <3>2. CASE task_arg[c].call = "cleanup"
      BY <2>4, <3>2 DEF TaskIInv, Quiet, Kept
    <3>3. CASE task_arg[c].call # "cleanup"
      BY <1>4, <2>4, <3>1, <3>3 DEF TaskIInv, Armed, StateOf, Task!Calls
    <3>4. QED
      BY <3>2, <3>3
  <2>5. QED
    BY <2>2, <2>3, <2>4
<1>6. Quiet'
  BY DEF TaskIInv, Task!TypeOK, Quiet, Task!IdleIsQuiet
<1>7. Promised'
  BY <1>3, <1>4 DEF TaskIInv, Promised
<1>8. QED
  BY <1>1, <1>2, <1>5, <1>6, <1>7 DEF TaskIInv

\* Every step keeps the invariant.
LEMMA TaskNext ==
  TaskIInv /\ [Task!Next]_(Task!vars) => TaskIInv'
<1> SUFFICES ASSUME TaskIInv, [Task!Next]_(Task!vars) PROVE TaskIInv'
  OBVIOUS
<1>1. CASE \E c \in Task!Contexts :
             \E fire \in Task!Lpticks, ppi \in Channels \cup {Task!NoChannel} :
               Task!Prepare(c, fire, ppi)
  BY <1>1, TakeIInv
<1>2. CASE \E c \in Task!Contexts : \E ppi \in Channels \cup {Task!NoChannel} : Task!Update(c, ppi)
  BY <1>2, TakeIInv
<1>3. CASE \E c \in Task!Contexts : Task!Cleanup(c)
  BY <1>3, TakeIInv
<1>4. CASE \E c \in Task!Contexts : InTaskCall(c)
  BY <1>4, StepIInv
<1>5. CASE \E c \in Task!Contexts : Task!Done(c)
  BY <1>5, DoneIInv
<1>6. CASE Task!Tick \/ Task!ClearEvent
  BY <1>6, GrtcIInv
<1>7. CASE UNCHANGED Task!vars
  BY <1>7 DEF Task!vars, Task!taskVars, Task!grtcVars, Task!callVars, TaskIInv, Task!TypeOK,
              OneTaskCall, TaskPlaces, Armed, Quiet, Promised, Task!IdleIsQuiet, Waits, Kept
<1>8. QED
  BY <1>1, <1>2, <1>3, <1>4, <1>5, <1>6, <1>7 DEF Task!Next, InTaskCall

\* The invariant is enough.
LEMMA TaskIInvMeans == TaskIInv => Task!TypeOK /\ Task!SuccessIsKept /\ Task!IdleIsQuiet
BY DEF TaskIInv, Promised, Kept, Task!SuccessIsKept, Quiet

\* The invariant holds throughout, with the timer's own channel beside it or not.
LEMMA TaskInv == (Task!Spec => []TaskIInv) /\ (SidesSpec => []TaskIInv)
<1>1. Task!Init => TaskIInv
  BY TaskInit
<1>2. TaskIInv /\ [Task!Next]_(Task!vars) => TaskIInv'
  BY TaskNext
<1>3. SidesInit => Task!Init
  BY DEF SidesInit
<1>4. [SidesNext]_all => [Task!Next]_(Task!vars)
  BY DEF SidesNext, Timing, Triggering, all, taskSide, Task!vars, Task!taskVars,
         Task!grtcVars, Task!callVars
<1>5. QED
  BY <1>1, <1>2, <1>3, <1>4, PTL DEF Task!Spec, SidesSpec

\* Whoever was answered SUCCESS has the channel triggered at the time asked for, unless
\* it cleans the task up or gives it another channel first (hw_task_prepare and
\* hw_task_update_ppi).
THEOREM SuccessKept == Task!Spec => []Task!SuccessIsKept
BY TaskIInvMeans, TaskInv, PTL

\* After TOO_LATE from hw_task_prepare, and after hw_task_cleanup, nothing is armed that
\* could trigger a channel.
THEOREM QuietWhenIdle == Task!Spec => []Task!IdleIsQuiet
BY TaskIInvMeans, TaskInv, PTL

\* Whoever was answered SUCCESS for a hardware task has its channel triggered in time, and
\* after TOO_LATE from prepare, or after a cleanup, nothing is armed
\* (nrf_802154_platform_sl_lptimer_grtc.c:169-267).
THEOREM TaskKeepsItsWord == SidesSpec => []TaskHonest
<1>1. TaskIInv => TaskHonest
  BY TaskIInvMeans DEF TaskHonest
<1>2. QED
  BY <1>1, TaskInv, PTL
=============================================================================
