----------------------------- MODULE ZbMailbox -----------------------------
(***************************************************************************)
(* What the deferred-call service of zb_nrf_platform.c promises to an      *)
(* application task: a request that was answered RET_OK enters a bounded   *)
(* FIFO mailbox, leaves it in order and exactly once.                      *)
(***************************************************************************)
EXTENDS Naturals, Sequences

CONSTANTS Requests,    \* the requests tasks may make
          Capacity     \* how many the mailbox holds

VARIABLES inbox,       \* requests accepted and not yet delivered
          outbox       \* requests delivered to the ZBOSS stack, oldest first

vars == <<inbox, outbox>>

Known == {inbox[i] : i \in 1..Len(inbox)} \cup {outbox[i] : i \in 1..Len(outbox)}

Init == inbox = <<>> /\ outbox = <<>>

Accept(r) ==
  /\ r \notin Known
  /\ Len(inbox) < Capacity
  /\ inbox' = Append(inbox, r)
  /\ UNCHANGED outbox

Deliver ==
  /\ inbox # <<>>
  /\ outbox' = Append(outbox, Head(inbox))
  /\ inbox' = Tail(inbox)

Next == Deliver \/ \E r \in Requests : Accept(r)

Spec == Init /\ [][Next]_vars
=============================================================================
