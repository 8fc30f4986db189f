-------------------------------- MODULE Shmem --------------------------------
(***************************************************************************)
(* The allocator of lib/modules/nrf_modem_lib/shmem.c, from which the      *)
(* modem library takes its transmit buffers.  It keeps a free list of its  *)
(* own and gets memory from sbrk, which it shares with the C library.      *)
(*                                                                         *)
(* The unit is a word of four bytes: a header is one word and storage is   *)
(* aligned to two, so a chunk starts at an odd word.  Address 0 is NULL.   *)
(* Sizes above MALLOC_MAXSIZE and a second free of a chunk are left out.   *)
(* MALLOC_LOCK expands to nothing in this build (picolibc's                *)
(* __SINGLE_THREAD), so calls are atomic only because one task makes them. *)
(***************************************************************************)
EXTENDS Integers, SequencesExt

CONSTANTS
  Base,      \* _end, where the heap starts
  Limit,     \* __HeapLimit, the first word after the heap
  Requests,  \* sizes asked for, in words
  LibcSizes  \* increments of the C library's own sbrk calls

Null == 0
HEAD == 1         \* MALLOC_HEAD
CHUNK_ALIGN == 2  \* MALLOC_CHUNK_ALIGN; MALLOC_HEAD_ALIGN is one word
MINSIZE == 2      \* MALLOC_MINSIZE

VARIABLES
  brk,                \* end of the memory given out by sbrk
  __malloc_sbrk_top,  \* end of the memory this allocator got last
  freeList,           \* __malloc_free_list, chunks in list order
  live,               \* history: chunks handed out
  libc,               \* history: words owned by the C library
  refused             \* history: chunk size just answered with NULL, or 0

vars == <<brk, __malloc_sbrk_top, freeList, live, libc, refused>>

chunk_end(c) == c.addr + c.size
Aligned(a) == (a + HEAD) % CHUNK_ALIGN = 0
AlignTo(n) == n + (n % CHUNK_ALIGN)
chunk_size(n) ==
  LET padded == AlignTo(n) + HEAD + 1 IN IF padded < MINSIZE THEN MINSIZE ELSE padded

Chunks == [addr : Base..Limit, size : 1..(Limit - Base)]
Words(c) == c.addr .. (chunk_end(c) - 1)

Init ==
  /\ brk = Base
  /\ __malloc_sbrk_top = Null
  /\ freeList = <<>>
  /\ live = {}
  /\ libc = {}
  /\ refused = 0

-----------------------------------------------------------------------------
\* mutant: the padding is taken without asking sbrk for it.
sbrk_alignedUnchecked(b, top, s) ==
  LET moved(a, e) == [addr |-> a, brk |-> e, top |-> e] IN
  IF b + s > Limit THEN [addr |-> Null, brk |-> b, top |-> top]
  ELSE IF Aligned(b) THEN moved(b, b + s)
  ELSE moved(b + 1, b + s + 1)

\* __malloc_sbrk_aligned(s) when sbrk stands at b and the top at top: the
\* address it returns, and where it leaves both.
sbrk_aligned(b, top, s) ==
  LET moved(a, e) == [addr |-> a, brk |-> e, top |-> e] IN
  IF b + s > Limit THEN [addr |-> Null, brk |-> b, top |-> top]
  ELSE IF Aligned(b) THEN moved(b, b + s)
  ELSE IF b + s + 1 > Limit THEN moved(Null, b + s)
  ELSE moved(b + 1, b + s + 1)

\* A free chunk is used: what is left over, if large enough, stays in its place.
Split(i, need) ==
  LET r == freeList[i]
      rest == [addr |-> r.addr + need, size |-> r.size - need]
  IN IF rest.size >= MINSIZE
     THEN /\ freeList' = ReplaceAt(freeList, i, rest)
          /\ live' = live \cup {[r EXCEPT !.size = need]}
     ELSE /\ freeList' = RemoveAt(freeList, i)
          /\ live' = live \cup {r}

\* Memory from sbrk becomes the chunk, or the call fails.
FromSbrk(got, need) ==
  /\ brk' = got.brk
  /\ __malloc_sbrk_top' = got.top
  /\ refused' = IF got.addr = Null THEN need ELSE 0
  /\ live' = IF got.addr = Null THEN live
             ELSE live \cup {[addr |-> got.addr, size |-> need]}
  /\ UNCHANGED freeList

\* The last chunk of the list ends where this allocator's memory ends.
AtTop == freeList # <<>> /\ chunk_end(Last(freeList)) = __malloc_sbrk_top

FirstFit(need) ==
  \E i \in 1..Len(freeList) :
    /\ freeList[i].size >= need
    /\ \A j \in 1..(i - 1) : freeList[j].size < need
    /\ Split(i, need)
    /\ refused' = 0
    /\ UNCHANGED <<brk, __malloc_sbrk_top, libc>>

GrowSize(need) ==
  LET missing == need - Last(freeList).size IN IF missing < MINSIZE THEN MINSIZE ELSE missing

\* mutant: the chunk is extended without looking at what sbrk returned.
GrowLastBlind(need) ==
  LET c == Last(freeList)
      got == sbrk_aligned(brk, __malloc_sbrk_top, GrowSize(need))
  IN /\ freeList' = Front(freeList)
     /\ live' = live \cup {[c EXCEPT !.size = @ + GrowSize(need)]}
     /\ refused' = 0
     /\ brk' = got.brk
     /\ __malloc_sbrk_top' = got.top
     /\ UNCHANGED libc

\* mutant: no room next to the chunk ends the search.
GrowLastOnly(need) ==
  LET got == sbrk_aligned(brk, __malloc_sbrk_top, GrowSize(need))
  IN /\ refused' = need
     /\ brk' = got.brk
     /\ __malloc_sbrk_top' = got.top
     /\ UNCHANGED <<freeList, live, libc>>

\* __malloc_grow_chunk: the last chunk is extended; if sbrk returns other
\* memory than that next to it, the C library's free() gets that memory.
GrowLast(need) ==
  LET c == Last(freeList)
      got == sbrk_aligned(brk, __malloc_sbrk_top, GrowSize(need))
  IN IF got.addr = chunk_end(c)
     THEN /\ freeList' = Front(freeList)
          /\ live' = live \cup {[c EXCEPT !.size = @ + GrowSize(need)]}
          /\ refused' = 0
          /\ brk' = got.brk
          /\ __malloc_sbrk_top' = got.top
          /\ UNCHANGED libc
     ELSE /\ libc' = IF got.addr = Null THEN libc
                     ELSE libc \cup (got.addr .. (got.addr + GrowSize(need) - 1))
          /\ FromSbrk(sbrk_aligned(got.brk, got.top, need), need)

shmem_malloc(n) ==
  LET need == chunk_size(n) IN
  \/ FirstFit(need)
  \/ /\ \A i \in 1..Len(freeList) : freeList[i].size < need
     /\ \/ AtTop /\ GrowLast(need)
        \/ /\ ~AtTop
           /\ FromSbrk(sbrk_aligned(brk, __malloc_sbrk_top, need), need)
           /\ UNCHANGED libc

-----------------------------------------------------------------------------
\* mutant: the successor is never merged.
MergeNextNever(list, i) == list

\* Merge chunk i with its successor where they touch.
MergeNext(list, i) ==
  IF i < Len(list) /\ chunk_end(list[i]) = list[i + 1].addr
  THEN RemoveAt(ReplaceAt(list, i, [list[i] EXCEPT !.size = @ + list[i + 1].size]), i + 1)
  ELSE list

\* mutant: a chunk that ends where c starts takes c over, but not its size.
InsertUncounted(c) ==
  LET before == {i \in 1..Len(freeList) : freeList[i].addr < c.addr}
      i == Cardinality(before)
  IN IF i > 0 /\ chunk_end(freeList[i]) = c.addr THEN freeList
     ELSE MergeNext(InsertAt(freeList, i + 1, c), i + 1)

\* The free list with c put in: before the first chunk after it, or into the
\* chunk that ends where c starts.
Insert(c) ==
  LET stops == {i \in 1..Len(freeList) :
                  c.addr < freeList[i].addr \/ chunk_end(freeList[i]) = c.addr}
      i == IF stops = {} THEN Len(freeList) + 1 ELSE Min(stops)
  IN IF stops # {} /\ chunk_end(freeList[i]) = c.addr
     THEN MergeNext(ReplaceAt(freeList, i, [freeList[i] EXCEPT !.size = @ + c.size]), i)
     ELSE MergeNext(InsertAt(freeList, i, c), i)

shmem_free(c) ==
  /\ c \in live
  /\ live' = live \ {c}
  /\ freeList' = Insert(c)
  /\ refused' = 0
  /\ UNCHANGED <<brk, __malloc_sbrk_top, libc>>

\* The C library takes memory for its own malloc.
LibcSbrk(k) ==
  /\ brk + k <= Limit
  /\ brk' = brk + k
  /\ libc' = libc \cup (brk .. (brk + k - 1))
  /\ refused' = 0
  /\ UNCHANGED <<__malloc_sbrk_top, freeList, live>>

Next ==
  \/ \E n \in Requests : shmem_malloc(n)
  \/ \E c \in live : shmem_free(c)
  \/ \E k \in LibcSizes : LibcSbrk(k)

Spec == Init /\ [][Next]_vars

-----------------------------------------------------------------------------
Free == {freeList[i] : i \in 1..Len(freeList)}
WordsOf(cs) == UNION {Words(c) : c \in cs}

TypeOK ==
  /\ brk \in Base..Limit
  /\ __malloc_sbrk_top \in {Null} \cup (Base..Limit)
  /\ freeList \in Seq(Chunks)
  /\ live \subseteq Chunks
  /\ libc \subseteq Base..(Limit - 1)
  /\ refused \in Nat

\* The free list is what shmem_malloc's first fit and shmem_free's insertion
\* rely on: sorted by address with a gap between neighbours (touching chunks
\* have been merged), each chunk aligned and able to hold its list link.
FreeListCoalesced ==
  /\ \A i \in 1..(Len(freeList) - 1) : chunk_end(freeList[i]) < freeList[i + 1].addr
  /\ \A c \in Free : Aligned(c.addr) /\ c.size >= MINSIZE /\ chunk_end(c) <= brk

\* Every word below the break is free, in use, the C library's, or a single
\* word of padding -- until __malloc_sbrk_aligned fails between its two sbrk
\* calls, which loses the first one's memory and leaves the heap exhausted.
LostOnlyWhenFull ==
  LET lost == (Base .. (brk - 1)) \ (WordsOf(Free \cup live) \cup libc) IN
  brk < Limit => \A w \in lost : ~Aligned(w) /\ w + 1 \notin lost

\* shmem_malloc answers NULL only if no free chunk is large enough and the
\* memory above the break, with the last free chunk where it can be extended,
\* is not enough either.  Where the C library has moved the break, the memory
\* asked for the extension goes to it (__malloc_grow_chunk) and is missing.
NullOnlyWhenFull ==
  [][refused' # 0 =>
       /\ \A c \in Free : c.size < refused'
       /\ IF AtTop /\ brk = __malloc_sbrk_top
          THEN Last(freeList).size + (Limit - brk) < refused'
          ELSE Limit - brk < refused' + (IF Aligned(brk) THEN 0 ELSE 1)
                                      + Cardinality(libc' \ libc)]_vars

\* The allocator hands out disjoint blocks, never one that the C library has.
Promised == INSTANCE Allocator WITH
  Heap <- Base .. (Limit - 1), Header <- HEAD, others <- libc
ImplementsAllocator == Promised!Spec
=============================================================================
