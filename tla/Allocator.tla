------------------------------ MODULE Allocator ------------------------------
(***************************************************************************)
(* What an allocator promises on a heap it shares: a block handed out lies *)
(* inside the heap, is large enough, and shares no word with another block *)
(* or with memory somebody else has taken; a block given back is free.     *)
(***************************************************************************)
EXTENDS Integers, FiniteSets

CONSTANTS
  Heap,      \* the addresses of the heap, in words
  Requests,  \* the sizes asked for, in words
  Header     \* words in front of the storage

VARIABLES
  live,   \* blocks handed out, [addr, size], header included
  others  \* words of the heap taken by others

Words(c) == c.addr .. (c.addr + c.size - 1)
WordsOf(cs) == UNION {Words(c) : c \in cs}

Init == live = {} /\ others = {}

\* The block is whichever one the next state adds.
Alloc(n) ==
  \E c \in live' \ live :
    /\ live' = live \cup {c}
    /\ c.size >= n + Header
    /\ Words(c) \subseteq Heap
    /\ Words(c) \cap (WordsOf(live) \cup others') = {}

Free(c) == c \in live /\ live' = live \ {c} /\ others' = others

\* Others only ever take words that no block has.
Take ==
  /\ others \subseteq others'
  /\ others' \subseteq Heap
  /\ others' \cap WordsOf(live) = {}

Next ==
  \/ Take /\ UNCHANGED live
  \/ Take /\ \E n \in Requests : Alloc(n)
  \/ \E c \in live : Free(c)

Spec == Init /\ [][Next]_<<live, others>>
=============================================================================
