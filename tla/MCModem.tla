------------------------------- MODULE MCModem -------------------------------
(***************************************************************************)
(* TLC instance of the two parts of the modem library's glue, which share  *)
(* no state: a behaviour is one of the waits of the OS layer (ModemOs:     *)
(* threads on the same, different and every context) or one of the heap of *)
(* transmit buffers (Shmem, a heap of a few chunks that starts             *)
(* misaligned), chosen initially; the other part stands still.             *)
(***************************************************************************)
EXTENDS ModemOs

CONSTANTS Base, Limit, Requests, LibcSizes

MCTimeouts == {FOREVER, 1}

ASSUME ShmemAssumption ==
  /\ Base \in Nat \ {0}
  /\ Limit \in Nat /\ Base < Limit
  /\ Requests \subseteq Nat
  /\ LibcSizes \subseteq Nat \ {0}

VARIABLES part, brk, __malloc_sbrk_top, freeList, live, libc, refused

heapVars == <<brk, __malloc_sbrk_top, freeList, live, libc, refused>>
all == <<part, vars, heapVars>>

Heap == INSTANCE Shmem

PartsInit == part \in {"shmem", "os"} /\ Init /\ Heap!Init

Allocating(A) == part = "shmem" /\ A /\ UNCHANGED <<part, vars>>
Waiting(A) == part = "os" /\ A /\ UNCHANGED <<part, heapVars>>

PartsNext == Allocating(Heap!Next) \/ Waiting(Next)

\* The fairness of ModemOs, for its own part.
PartsSpec ==
  /\ PartsInit /\ [][PartsNext]_all
  /\ WF_all(Waiting(Tick)) /\ WF_all(Waiting(TimerTask))
  /\ \A t \in Threads : WF_all(Waiting(Step(t)))

\* The types of both parts.
TypesOK == part \in {"shmem", "os"} /\ TypeOK /\ Heap!TypeOK

\* Free chunks are sorted, disjoint and merged with their neighbours.
FreeListCoalesced == Heap!FreeListCoalesced

\* No word of the heap is lost while there is room.
LostOnlyWhenFull == Heap!LostOnlyWhenFull

\* shmem_malloc answers NULL only when nothing would fit.
NullOnlyWhenFull == Heap!NullOnlyWhenFull

\* shmem.c implements the abstract allocator.
ImplementsAllocator == Heap!ImplementsAllocator
=============================================================================
