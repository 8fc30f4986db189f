-------------------------- MODULE MCZbAppCallback --------------------------
(***************************************************************************)
(* Instances of ZbAppCallback for TLC: which of the requests ask for a     *)
(* callback, an alarm, a buffer or the cancellation of an alarm, and       *)
(* tables so small that each of them overflows.                            *)
(***************************************************************************)
EXTENDS ZbAppCallback, TLC

CONSTANTS t1, t2, cb1, cb2, al1, al2, buf, can

MCTableSize == [k \in {"alarm", "buffer"} |-> 1]

MCKindOf ==
  [r \in Requests |->
     IF r \in {cb1, cb2} THEN "callback"
     ELSE IF r \in {al1, al2} THEN "alarm"
     ELSE IF r = buf THEN "buffer" ELSE "cancel"]

\* The cancel request names the first alarm.
MCCancelTarget == [r \in Requests |-> IF al1 \in Requests THEN al1 ELSE r]

Symmetry == Permutations(Tasks)
=============================================================================
