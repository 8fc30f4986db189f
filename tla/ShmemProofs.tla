----------------------------- MODULE ShmemProofs -----------------------------
(***************************************************************************)
(* Proofs about Shmem, for every heap, every size asked for and every      *)
(* increment of the C library: the free list stays sorted and merged, no   *)
(* word is lost while there is room, NULL is only answered when nothing    *)
(* would fit, and the allocator implements Allocator.                      *)
(*                                                                         *)
(* What the chunks of the list mean is the set of their words: an          *)
(* insertion adds the words of one chunk to it, however it merges, and a   *)
(* first fit takes some away.  Sizes are even and chunks aligned, so that  *)
(* a word of padding is always an unaligned one.                           *)
(***************************************************************************)
EXTENDS Shmem, FiniteSetTheorems, SequenceTheorems, WellFoundedInduction, TLAPS

\* The parameters, as the linker script and the callers give them.
Parameters ==
  /\ Base \in Nat \ {0} /\ Limit \in Nat /\ Base < Limit
  /\ Requests \subseteq Nat /\ LibcSizes \subseteq Nat \ {0}

\* A chunk below the break b: aligned, of an even size, and not too small.
Fits(c, b) ==
  /\ Aligned(c.addr) /\ c.size >= MINSIZE /\ c.size % CHUNK_ALIGN = 0
  /\ chunk_end(c) <= b

\* The free list is sorted, and neighbours that touch have been merged.
Listed(list, b) ==
  /\ list \in Seq(Chunks)
  /\ \A k \in 1..Len(list) : Fits(list[k], b)
  /\ \A i, j \in 1..Len(list) : i < j => chunk_end(list[i]) < list[j].addr

ListWords(list) == UNION {Words(list[k]) : k \in 1..Len(list)}

\* The variables keep their types, and the C library has memory below the break only.
Bounds ==
  /\ brk \in Base..Limit
  /\ __malloc_sbrk_top \in {Null} \cup (Base..Limit)
  /\ refused \in Nat
  /\ live \subseteq Chunks
  /\ \A w \in libc : w \in Int /\ Base <= w /\ w < brk

\* Chunks handed out fit too, and share no word.
LivePart ==
  /\ \A c \in live : Fits(c, brk)
  /\ \A c, d \in live : c # d => Words(c) \cap Words(d) = {}

\* What is free, what is handed out and what the C library has share no word.
ApartPart ==
  /\ ListWords(freeList) \cap WordsOf(live) = {}
  /\ libc \cap ListWords(freeList) = {}
  /\ libc \cap WordsOf(live) = {}

\* A word that nobody has is unaligned, as long as there is room.
PaddingPart ==
  brk < Limit =>
    \A w \in Int : Base <= w /\ w < brk =>
      w \in ListWords(freeList) \cup WordsOf(live) \cup libc \/ ~Aligned(w)

IInv == Bounds /\ Listed(freeList, brk) /\ LivePart /\ ApartPart /\ PaddingPart

-----------------------------------------------------------------------------
(* Chunks and words                                                        *)

\* The words of a chunk, by their addresses.
LEMMA WordsAre ==
  ASSUME NEW c \in Chunks, Parameters
  PROVE  /\ c.addr \in Nat /\ c.size \in Nat /\ chunk_end(c) \in Nat
         /\ chunk_end(c) = c.addr + c.size
         /\ \A w : w \in Words(c) <=> w \in Int /\ c.addr <= w /\ w < chunk_end(c)
BY DEF Parameters, Chunks, Words, chunk_end

\* A size in words, with a header and rounded up, is even and holds the storage.
LEMMA SizeIs ==
  ASSUME NEW n \in Nat
  PROVE  /\ chunk_size(n) \in Nat /\ chunk_size(n) >= n + 2
         /\ chunk_size(n) % CHUNK_ALIGN = 0
BY DEF chunk_size, AlignTo, HEAD, MINSIZE, CHUNK_ALIGN

\* Sums and differences of even sizes are even, and even steps keep the alignment.
LEMMA Even ==
  ASSUME NEW m \in Int, NEW n \in Int, n % CHUNK_ALIGN = 0
  PROVE  /\ m % CHUNK_ALIGN = 0 => (m + n) % CHUNK_ALIGN = 0 /\ (m - n) % CHUNK_ALIGN = 0
         /\ Aligned(m) <=> Aligned(m + n)
         /\ Aligned(m) <=> ~Aligned(m + 1)
BY DEF Aligned, HEAD, CHUNK_ALIGN

\* What __malloc_sbrk_aligned does: nothing, use up the heap in vain, or return the
\* next aligned memory.
LEMMA SbrkIs ==
  ASSUME Parameters, NEW b \in Base..Limit, NEW top, NEW s \in Nat, s >= 2, s % CHUNK_ALIGN = 0,
         NEW got, got = sbrk_aligned(b, top, s)
  PROVE  \/ got.addr = Null /\ got.brk = b /\ got.top = top /\ b + s > Limit
         \/ got.addr = Null /\ got.brk = Limit /\ got.top = Limit /\ b + s = Limit /\ ~Aligned(b)
         \/ /\ got.addr = IF Aligned(b) THEN b ELSE b + 1
            /\ Aligned(got.addr) /\ got.addr # Null /\ Aligned(got.addr + s)
            /\ got.brk = got.addr + s /\ got.top = got.addr + s
            /\ got.addr + s <= Limit
<1>1. Aligned(b) \/ Aligned(b + 1)
  BY Even DEF Aligned, HEAD, CHUNK_ALIGN, Parameters
<1>2. Aligned(b) => Aligned(b + s)
  BY Even DEF Parameters
<1>3. Aligned(b + 1) => Aligned((b + 1) + s)
  BY Even DEF Parameters
<1>4. QED
  BY <1>1, <1>2, <1>3 DEF sbrk_aligned, Null, Parameters

-----------------------------------------------------------------------------
(* Lists                                                                   *)

\* A chunk of the list replaced, removed or inserted, by positions.
LEMMA ReplaceIs ==
  ASSUME NEW s \in Seq(Chunks), NEW i \in 1..Len(s), NEW e \in Chunks
  PROVE  /\ ReplaceAt(s, i, e) \in Seq(Chunks) /\ Len(ReplaceAt(s, i, e)) = Len(s)
         /\ ReplaceAt(s, i, e)[i] = e
         /\ \A k \in 1..Len(s) : k # i => ReplaceAt(s, i, e)[k] = s[k]
BY DEF ReplaceAt

LEMMA PrefixIs ==
  ASSUME NEW s \in Seq(Chunks), NEW n \in 0..Len(s)
  PROVE  /\ SubSeq(s, 1, n) \in Seq(Chunks) /\ Len(SubSeq(s, 1, n)) = n
         /\ \A k \in 1..n : SubSeq(s, 1, n)[k] = s[k]
<1>1. Len(s) \in Nat /\ \A k \in 1..Len(s) : s[k] \in Chunks
  BY LenProperties
<1>2. QED
  BY <1>1, SubSeqProperties

LEMMA RemoveIs ==
  ASSUME NEW s \in Seq(Chunks), NEW i \in 1..Len(s)
  PROVE  /\ RemoveAt(s, i) \in Seq(Chunks) /\ Len(RemoveAt(s, i)) = Len(s) - 1
         /\ \A k \in 1..(Len(s) - 1) : k < i => RemoveAt(s, i)[k] = s[k]
         /\ \A k \in 1..(Len(s) - 1) : k >= i => RemoveAt(s, i)[k] = s[k + 1]
<1>1. PICK n \in Nat : n = Len(s)
  BY LenProperties
<1>2. PICK p \in Nat : i = p + 1 /\ p \in 0..(n - 1)
  BY <1>1
<1>3. PICK q \in Nat : p + q = n - 1 /\ q = n - i
  BY <1>2
<1> DEFINE front == SubSeq(s, 1, i - 1)
           back == SubSeq(s, i + 1, n)
<1>4. \A k \in 1..n : s[k] \in Chunks
  BY <1>1, LenProperties
<1>5. /\ front \in Seq(Chunks) /\ Len(front) = p
      /\ \A k \in 1..p : front[k] = s[k]
  BY <1>2, <1>4, SubSeqProperties
<1>6. /\ back \in Seq(Chunks) /\ Len(back) = q
      /\ \A k \in 1..q : back[k] = s[i + k]
  BY <1>2, <1>3, <1>4, SubSeqProperties
<1>7. RemoveAt(s, i) = front \o back
  BY <1>1 DEF RemoveAt
<1> HIDE DEF front, back
<1>8. /\ front \o back \in Seq(Chunks) /\ Len(front \o back) = p + q
      /\ \A k \in 1..(p + q) : (front \o back)[k] = IF k <= p THEN front[k] ELSE back[k - p]
  <2>1. /\ front \o back \in Seq(Chunks) /\ Len(front \o back) = Len(front) + Len(back)
        /\ \A k \in 1..(Len(front) + Len(back)) :
             (front \o back)[k] = IF k <= Len(front) THEN front[k] ELSE back[k - Len(front)]
    BY <1>5, <1>6, ConcatProperties
  <2>2. QED
    BY <1>5, <1>6, <2>1
<1>9. ASSUME NEW k \in 1..(n - 1), k < i PROVE (front \o back)[k] = s[k]
  <2>1. k <= p /\ k \in 1..p /\ k \in 1..(p + q)
    BY <1>2, <1>3, <1>9
  <2>2. QED
    BY <1>5, <1>8, <2>1
<1>10. ASSUME NEW k \in 1..(n - 1), k >= i PROVE (front \o back)[k] = s[k + 1]
  <2>1. ~(k <= p) /\ k - p \in 1..q /\ i + (k - p) = k + 1 /\ k \in 1..(p + q)
    BY <1>2, <1>3, <1>10
  <2>2. back[k - p] = s[i + (k - p)]
    BY <1>6, <2>1
  <2>3. (front \o back)[k] = back[k - p]
    BY <1>8, <2>1
  <2>4. QED
    BY <2>1, <2>2, <2>3
<1>11. QED
  BY <1>1, <1>3, <1>7, <1>8, <1>9, <1>10

LEMMA InsertIs ==
  ASSUME NEW s \in Seq(Chunks), NEW i \in 1..(Len(s) + 1), NEW e \in Chunks
  PROVE  /\ InsertAt(s, i, e) \in Seq(Chunks) /\ Len(InsertAt(s, i, e)) = Len(s) + 1
         /\ InsertAt(s, i, e)[i] = e
         /\ \A k \in 1..(Len(s) + 1) : k < i => InsertAt(s, i, e)[k] = s[k]
         /\ \A k \in 1..(Len(s) + 1) : k > i => InsertAt(s, i, e)[k] = s[k - 1]
<1>1. PICK n \in Nat : n = Len(s)
  BY LenProperties
<1>2. i \in 1..(n + 1)
  BY <1>1
<1> DEFINE front == SubSeq(s, 1, i - 1)
           middle == front \o <<e>>
           back == SubSeq(s, i, n)
<1>3. PICK m \in Nat : i + m = n + 1 /\ m = n + 1 - i
  BY <1>2
<1>4. \A k \in 1..n : s[k] \in Chunks
  BY <1>1, LenProperties
<1>5. /\ front \in Seq(Chunks) /\ Len(front) = i - 1
      /\ \A k \in 1..(i - 1) : front[k] = s[k]
  BY <1>2, <1>4, SubSeqProperties
<1>6. /\ back \in Seq(Chunks) /\ Len(back) = m
      /\ \A k \in 1..m : back[k] = s[i + k - 1]
  BY <1>2, <1>3, <1>4, SubSeqProperties
<1>7. InsertAt(s, i, e) = middle \o back
  BY <1>1 DEF InsertAt
<1>8. <<e>> \in Seq(Chunks) /\ Len(<<e>>) = 1 /\ <<e>>[1] = e
  OBVIOUS
<1> HIDE DEF front, back
<1>9. /\ middle \in Seq(Chunks) /\ Len(middle) = i
      /\ \A k \in 1..i : middle[k] = IF k <= i - 1 THEN front[k] ELSE <<e>>[k - (i - 1)]
  BY <1>2, <1>5, <1>8, ConcatProperties
<1>10. \A k \in 1..i : middle[k] = IF k < i THEN s[k] ELSE e
  BY <1>2, <1>4, <1>5, <1>8, <1>9
<1> HIDE DEF middle
<1>11. /\ middle \o back \in Seq(Chunks) /\ Len(middle \o back) = n + 1
      /\ \A k \in 1..(n + 1) : (middle \o back)[k] = IF k <= i THEN middle[k] ELSE back[k - i]
  <2>1. /\ i \in Nat /\ middle \in Seq(Chunks) /\ Len(middle) = i
        /\ back \in Seq(Chunks) /\ Len(back) = m
    BY <1>2, <1>6, <1>9
  <2>2. /\ middle \o back \in Seq(Chunks) /\ Len(middle \o back) = Len(middle) + Len(back)
        /\ \A k \in 1..(Len(middle) + Len(back)) :
             (middle \o back)[k] = IF k <= Len(middle) THEN middle[k] ELSE back[k - Len(middle)]
    BY <2>1, ConcatProperties
  <2>3. QED
    BY <1>2, <1>3, <2>1, <2>2
<1>12. ASSUME NEW k \in 1..(n + 1)
      PROVE  (middle \o back)[k] = IF k < i THEN s[k] ELSE IF k = i THEN e ELSE s[k - 1]
  <2>1. CASE k <= i
    BY <1>2, <1>10, <1>11, <2>1
  <2>2. CASE k > i
    <3>1. k - i \in 1..m /\ i + (k - i) - 1 = k - 1
      BY <1>2, <1>3, <2>2
    <3>2. back[k - i] = s[i + (k - i) - 1]
      BY <1>6, <3>1
    <3>3. (middle \o back)[k] = back[k - i]
      BY <1>2, <1>11, <2>2
    <3>4. QED
      BY <1>2, <2>2, <3>1, <3>2, <3>3
  <2>3. k <= i \/ k > i
    BY <1>2
  <2>4. QED
    BY <2>1, <2>2, <2>3
<1>13. i \in 1..(n + 1) /\ \A k \in 1..(n + 1) : k > i => ~(k < i) /\ k # i
  BY <1>2
<1>14. QED
  BY <1>1, <1>7, <1>11, <1>12, <1>13

LEMMA FrontIs ==
  ASSUME NEW s \in Seq(Chunks), s # <<>>
  PROVE  /\ Front(s) \in Seq(Chunks) /\ Len(Front(s)) = Len(s) - 1 /\ Len(s) \in 1..Len(s)
         /\ \A k \in 1..(Len(s) - 1) : Front(s)[k] = s[k]
         /\ Last(s) = s[Len(s)] /\ Last(s) \in Chunks
<1>1. Len(s) \in Nat \ {0} /\ \A k \in 1..Len(s) : s[k] \in Chunks
  BY LenProperties, EmptySeq
<1> DEFINE front == SubSeq(s, 1, Len(s) - 1)
<1>2. front \in Seq(Chunks) /\ Len(front) = Len(s) - 1 /\ \A k \in 1..(Len(s) - 1) : front[k] = s[k]
  <2>1. Len(s) - 1 \in 0..Len(s)
    BY <1>1
  <2>2. QED
    BY <2>1, PrefixIs
<1>3. Front(s) = front
  BY DEF Front
<1> HIDE DEF front
<1>4. QED
  BY <1>1, <1>2, <1>3 DEF Last

\* The smallest of a set of positions.
LEMMA MinIs ==
  ASSUME NEW S \in SUBSET Nat, S # {}
  PROVE  Min(S) \in S /\ \A y \in S : Min(S) <= y
<1>1. PICK i \in S : \A j \in S : <<j, i>> \notin OpToRel(<, Nat)
  BY NatLessThanWellFounded, WFMin
<1>2. \A j \in S : i <= j
  <2>1. \A j \in S : ~ j < i
    BY <1>1 DEF OpToRel
  <2>2. QED
    BY <2>1
<1>3. QED
  BY <1>2 DEF Min

-----------------------------------------------------------------------------
(* The free list                                                           *)

\* Chunks i and i + 1 of a list may touch; everywhere else it has gaps.
Sorted(list, i) ==
  \A j, k \in 1..Len(list) :
    j < k => \/ chunk_end(list[j]) < list[k].addr
             \/ j = i /\ k = i + 1 /\ chunk_end(list[j]) = list[k].addr

\* Two chunks that touch, joined into one.
LEMMA JoinedIs ==
  ASSUME Parameters, NEW b \in Base..Limit, NEW c \in Chunks, NEW d \in Chunks,
         Fits(c, b), Fits(d, b), chunk_end(c) = d.addr,
         NEW m, m = [addr |-> c.addr, size |-> c.size + d.size]
  PROVE  /\ [c EXCEPT !.size = @ + d.size] = m
         /\ m \in Chunks /\ Fits(m, b)
         /\ chunk_end(m) = chunk_end(d)
         /\ \A w : w \in Words(m) <=> w \in Words(c) \/ w \in Words(d)
<1> DEFINE x == c.addr
           y == d.addr
           s == c.size
           u == d.size
<1>1. /\ x \in Nat /\ s \in Nat /\ x >= Base /\ s >= 2
      /\ y \in Nat /\ u \in Nat /\ u >= 2
      /\ x + s = y /\ y + u <= b
      /\ s % CHUNK_ALIGN = 0 /\ u % CHUNK_ALIGN = 0 /\ Aligned(x)
  BY DEF Chunks, Fits, chunk_end, MINSIZE, Parameters
<1>2. [c EXCEPT !.size = @ + d.size] = m
  BY DEF Chunks
<1>3. chunk_end(c) = y /\ chunk_end(d) = y + u
  BY DEF chunk_end
<1>4. /\ \A w : w \in Words(c) <=> w \in Int /\ x <= w /\ w < y
      /\ \A w : w \in Words(d) <=> w \in Int /\ y <= w /\ w < y + u
  BY <1>3, WordsAre
<1> HIDE DEF x, y, s, u
<1>5. /\ x \in Base..Limit /\ s + u \in 1..(Limit - Base) /\ x + (s + u) = y + u
      /\ s + u >= 2 /\ y + u \in Nat
      /\ \A w \in Int : x <= w /\ w < y + u <=> (x <= w /\ w < y) \/ (y <= w /\ w < y + u)
  BY <1>1 DEF Parameters
<1>6. m \in Chunks
  BY <1>5 DEF Chunks, x, s, u
<1>7. m.addr = x /\ m.size = s + u
  BY DEF x, s, u
<1>8. chunk_end(m) = y + u
  BY <1>5, <1>7 DEF chunk_end
<1>9. Fits(m, b)
  <2>1. (s + u) % CHUNK_ALIGN = 0
    BY <1>1, Even
  <2>2. QED
    BY <1>1, <1>5, <1>7, <1>8, <2>1 DEF Fits, MINSIZE
<1>10. \A w : w \in Words(m) <=> w \in Int /\ x <= w /\ w < y + u
  BY <1>6, <1>7, <1>8, WordsAre
<1>11. ASSUME NEW w PROVE w \in Words(m) <=> w \in Words(c) \/ w \in Words(d)
  BY <1>4, <1>5, <1>10
<1>12. QED
  BY <1>2, <1>3, <1>6, <1>8, <1>9, <1>11

\* A merge closes the one gap that may be missing, and keeps the words.
LEMMA MergeIs ==
  ASSUME Parameters, NEW b \in Base..Limit, NEW list \in Seq(Chunks), NEW i \in 1..Len(list),
         \A k \in 1..Len(list) : Fits(list[k], b), Sorted(list, i)
  PROVE  Listed(MergeNext(list, i), b) /\ ListWords(MergeNext(list, i)) = ListWords(list)
<1>1. Len(list) \in Nat /\ \A k \in 1..Len(list) : list[k] \in Chunks
  BY LenProperties
<1>2. \A k \in 1..Len(list) :
        /\ list[k].addr \in Nat /\ list[k].size \in Nat
        /\ chunk_end(list[k]) \in Nat /\ chunk_end(list[k]) = list[k].addr + list[k].size
  BY <1>1, WordsAre
<1>3. CASE ~(i < Len(list) /\ chunk_end(list[i]) = list[i + 1].addr)
  <2>1. MergeNext(list, i) = list
    BY <1>3 DEF MergeNext
  <2>2. ASSUME NEW j \in 1..Len(list), NEW k \in 1..Len(list), j < k
        PROVE  chunk_end(list[j]) < list[k].addr
    BY <1>1, <1>3, <2>2 DEF Sorted
  <2>3. QED
    BY <2>1, <2>2 DEF Listed
<1>4. CASE i < Len(list) /\ chunk_end(list[i]) = list[i + 1].addr
  <2> DEFINE m == [addr |-> list[i].addr, size |-> list[i].size + list[i + 1].size]
             kept == ReplaceAt(list, i, m)
             merged == RemoveAt(kept, i + 1)
  <2>1. i + 1 \in 1..Len(list) /\ i + 1 \in Nat
    BY <1>1, <1>4
  <2>2. Fits(list[i], b) /\ Fits(list[i + 1], b)
    BY <2>1
  <2>3. list[i] \in Chunks /\ list[i + 1] \in Chunks
    BY <1>1, <2>1
  <2>4. /\ m \in Chunks /\ Fits(m, b) /\ m.addr = list[i].addr
        /\ chunk_end(m) = chunk_end(list[i + 1])
        /\ \A w : w \in Words(m) <=> w \in Words(list[i]) \/ w \in Words(list[i + 1])
    <3> HIDE DEF m
    <3>1. m = [addr |-> list[i].addr, size |-> list[i].size + list[i + 1].size]
      BY DEF m
    <3>2. m.addr = list[i].addr
      BY <3>1
    <3>3. QED
      BY <1>4, <2>2, <2>3, <3>1, <3>2, JoinedIs
  <2>6. [list[i] EXCEPT !.size = @ + list[i + 1].size] = m
    BY <2>3 DEF Chunks
  <2>7. MergeNext(list, i) = merged
    BY <1>4, <2>6 DEF MergeNext
  <2> HIDE DEF m
  <2>8. /\ kept \in Seq(Chunks) /\ Len(kept) = Len(list)
        /\ kept[i] = m /\ \A k \in 1..Len(list) : k # i => kept[k] = list[k]
    BY <2>4, ReplaceIs
  <2> HIDE DEF kept
  <2>9. /\ merged \in Seq(Chunks) /\ Len(merged) = Len(list) - 1
        /\ \A k \in 1..(Len(list) - 1) : k < i + 1 => merged[k] = kept[k]
        /\ \A k \in 1..(Len(list) - 1) : k >= i + 1 => merged[k] = kept[k + 1]
    <3>1. kept \in Seq(Chunks) /\ i + 1 \in 1..Len(kept)
      BY <2>1, <2>8
    <3>2. /\ merged \in Seq(Chunks) /\ Len(merged) = Len(kept) - 1
          /\ \A k \in 1..(Len(kept) - 1) : k < i + 1 => merged[k] = kept[k]
          /\ \A k \in 1..(Len(kept) - 1) : k >= i + 1 => merged[k] = kept[k + 1]
      BY <3>1, RemoveIs
    <3>3. QED
      BY <2>8, <3>2
  <2>10. /\ \A k \in 1..(Len(list) - 1) : k < i => merged[k] = list[k]
         /\ \A k \in 1..(Len(list) - 1) : k = i => merged[k] = m
         /\ \A k \in 1..(Len(list) - 1) : k > i => merged[k] = list[k + 1]
    <3>1. ASSUME NEW k \in 1..(Len(list) - 1), k > i PROVE merged[k] = list[k + 1]
      <4>1. k >= i + 1 /\ k + 1 \in 1..Len(list) /\ k + 1 # i
        BY <1>1, <3>1
      <4>2. QED
        BY <2>8, <2>9, <4>1
    <3>2. QED
      BY <1>1, <2>8, <2>9, <3>1
  <2> HIDE DEF merged
  <2>11. \A k \in 1..(Len(list) - 1) : Fits(merged[k], b)
    BY <1>1, <2>4, <2>10
  <2>12. ASSUME NEW j \in 1..(Len(list) - 1), NEW k \in 1..(Len(list) - 1), j < k
         PROVE  chunk_end(merged[j]) < merged[k].addr
    <3>1. CASE k < i
      <4>1. merged[j] = list[j] /\ merged[k] = list[k]
        BY <1>1, <2>10, <2>12, <3>1
      <4>2. QED
        BY <1>1, <2>12, <3>1, <4>1 DEF Sorted
    <3>2. CASE k = i
      <4>1. merged[j] = list[j] /\ merged[k].addr = list[i].addr
        BY <1>1, <2>4, <2>10, <2>12, <3>2
      <4>2. j # i /\ j < i
        BY <2>12, <3>2
      <4>3. QED
        BY <1>1, <4>1, <4>2 DEF Sorted
    <3>3. CASE k > i /\ j < i
      <4>1. merged[j] = list[j] /\ merged[k] = list[k + 1] /\ k + 1 \in 1..Len(list)
        BY <1>1, <2>10, <2>12, <3>3
      <4>2. QED
        BY <1>1, <2>12, <3>3, <4>1 DEF Sorted
    <3>4. CASE k > i /\ j = i
      <4>1. /\ chunk_end(merged[j]) = chunk_end(list[i + 1]) /\ merged[k] = list[k + 1]
            /\ k + 1 \in 1..Len(list)
        BY <1>1, <2>4, <2>10, <2>12, <3>4
      <4>2. QED
        BY <1>1, <2>1, <3>4, <4>1 DEF Sorted
    <3>5. CASE k > i /\ j > i
      <4>1. /\ merged[j] = list[j + 1] /\ merged[k] = list[k + 1]
            /\ j + 1 \in 1..Len(list) /\ k + 1 \in 1..Len(list)
        BY <1>1, <2>10, <2>12, <3>5
      <4>2. QED
        BY <1>1, <2>12, <3>5, <4>1 DEF Sorted
    <3>6. QED
      BY <2>12, <3>1, <3>2, <3>3, <3>4, <3>5
  <2>13. Listed(merged, b)
    BY <2>9, <2>11, <2>12 DEF Listed
  <2>14. ASSUME NEW w PROVE w \in ListWords(merged) <=> w \in ListWords(list)
    <3>1. w \in ListWords(merged) <=> \E k \in 1..(Len(list) - 1) : w \in Words(merged[k])
      BY <2>9 DEF ListWords
    <3>2. w \in ListWords(list) <=> \E k \in 1..Len(list) : w \in Words(list[k])
      BY DEF ListWords
    <3>3. ASSUME NEW k \in 1..(Len(list) - 1), w \in Words(merged[k])
          PROVE  \E l \in 1..Len(list) : w \in Words(list[l])
      BY <1>1, <2>1, <2>4, <2>10, <3>3
    <3>4. ASSUME NEW k \in 1..Len(list), w \in Words(list[k])
          PROVE  \E l \in 1..(Len(list) - 1) : w \in Words(merged[l])
      <4>1. CASE k < i
        BY <1>1, <1>4, <2>10, <3>4, <4>1
      <4>2. CASE k = i \/ k = i + 1
        BY <1>1, <1>4, <2>4, <2>10, <3>4, <4>2
      <4>3. CASE k > i + 1
        <5>1. k - 1 \in 1..(Len(list) - 1) /\ merged[k - 1] = list[k]
          BY <1>1, <2>10, <4>3
        <5>2. QED
          BY <3>4, <5>1
      <4>4. QED
        BY <1>1, <4>1, <4>2, <4>3
    <3>5. QED
      BY <3>1, <3>2, <3>3, <3>4
  <2>15. QED
    BY <2>7, <2>13, <2>14
<1>5. QED
  BY <1>3, <1>4

\* Where a chunk starts and ends.
LEMMA ChunkEnds ==
  ASSUME Parameters, NEW c \in Chunks
  PROVE  c.addr \in Nat /\ chunk_end(c) \in Nat /\ c.addr < chunk_end(c) /\ Base <= c.addr
BY DEF Chunks, chunk_end, Parameters

\* Two chunks without a common word: one ends before the other starts.
LEMMA ApartIs ==
  ASSUME Parameters, NEW c \in Chunks, NEW d \in Chunks, \A w \in Words(c) : w \notin Words(d)
  PROVE  chunk_end(c) <= d.addr \/ chunk_end(d) <= c.addr
<1>1. /\ c.addr \in Nat /\ c.size \in Nat /\ c.size >= 1 /\ chunk_end(c) = c.addr + c.size
      /\ d.addr \in Nat /\ d.size \in Nat /\ d.size >= 1 /\ chunk_end(d) = d.addr + d.size
  BY DEF Chunks, chunk_end, Parameters
<1>2. /\ \A w : w \in Words(c) <=> w \in Int /\ c.addr <= w /\ w < chunk_end(c)
      /\ \A w : w \in Words(d) <=> w \in Int /\ d.addr <= w /\ w < chunk_end(d)
  BY WordsAre
<1>3. CASE c.addr <= d.addr
  BY <1>1, <1>2, <1>3
<1>4. CASE d.addr < c.addr
  BY <1>1, <1>2, <1>4
<1>5. QED
  BY <1>1, <1>3, <1>4

\* shmem_free's insertion into a given list.
Place(list, c) ==
  LET stops == {k \in 1..Len(list) : c.addr < list[k].addr \/ chunk_end(list[k]) = c.addr}
      i == IF stops = {} THEN Len(list) + 1 ELSE Min(stops)
  IN IF stops # {} /\ chunk_end(list[i]) = c.addr
     THEN MergeNext(ReplaceAt(list, i, [list[i] EXCEPT !.size = @ + c.size]), i)
     ELSE MergeNext(InsertAt(list, i, c), i)

LEMMA InsertIsPlace == ASSUME NEW c PROVE Insert(c) = Place(freeList, c)
BY DEF Insert, Place

\* It keeps the list sorted and merged, and adds c's words to it.
LEMMA PlaceKeeps ==
  ASSUME Parameters, NEW b \in Base..Limit, NEW list, Listed(list, b),
         NEW c \in Chunks, Fits(c, b), \A w \in Words(c) : w \notin ListWords(list)
  PROVE  /\ Listed(Place(list, c), b)
         /\ ListWords(Place(list, c)) = ListWords(list) \cup Words(c)
<1>1. PICK n \in Nat : n = Len(list)
  BY LenProperties DEF Listed
<1>2. /\ list \in Seq(Chunks)
      /\ \A k \in 1..n : list[k] \in Chunks /\ Fits(list[k], b)
      /\ \A j, k \in 1..n : j < k => chunk_end(list[j]) < list[k].addr
  BY <1>1, LenProperties DEF Listed
<1>3. /\ c.addr \in Nat /\ chunk_end(c) \in Nat /\ c.addr < chunk_end(c)
      /\ \A k \in 1..n :
           /\ list[k].addr \in Nat /\ chunk_end(list[k]) \in Nat
           /\ list[k].addr < chunk_end(list[k])
  BY <1>2, ChunkEnds
<1>4. \A k \in 1..n : chunk_end(c) <= list[k].addr \/ chunk_end(list[k]) <= c.addr
  <2>1. \A k \in 1..n : \A w \in Words(c) : w \notin Words(list[k])
    BY <1>1 DEF ListWords
  <2>2. QED
    BY <1>2, <2>1, ApartIs
<1> DEFINE stops == {k \in 1..n : c.addr < list[k].addr \/ chunk_end(list[k]) = c.addr}
           first == IF stops = {} THEN n + 1 ELSE Min(stops)
<1>5. PICK i \in 1..(n + 1) :
        /\ i = first /\ (i = n + 1 <=> stops = {})
        /\ i # n + 1 => i \in stops
        /\ \A k \in 1..n : k < i => k \notin stops
  <2>1. CASE stops = {}
    BY <2>1
  <2>2. CASE stops # {}
    <3>1. stops \in SUBSET Nat /\ \A k \in stops : k \in 1..n
      OBVIOUS
    <3> HIDE DEF stops
    <3>2. Min(stops) \in stops /\ \A k \in stops : Min(stops) <= k
      BY <2>2, <3>1, MinIs
    <3>3. Min(stops) \in 1..(n + 1) /\ Min(stops) # n + 1 /\ Min(stops) = first
      <4>1. Min(stops) = first
        BY <2>2
      <4>2. Min(stops) \in 1..n
        BY <3>1, <3>2
      <4>3. \A x \in 1..n : x \in 1..(n + 1) /\ x # n + 1
        OBVIOUS
      <4>4. QED
        BY <4>1, <4>2, <4>3
    <3>4. \A k \in 1..n : k < Min(stops) => k \notin stops
      BY <3>1, <3>2, <3>3
    <3>5. QED
      BY <2>2, <3>2, <3>3, <3>4
  <2>3. QED
    BY <2>1, <2>2
<1>6. /\ i \in Nat /\ (i # n + 1 => i \in 1..n)
      /\ i # n + 1 => c.addr < list[i].addr \/ chunk_end(list[i]) = c.addr
      /\ \A k \in 1..n : k < i => ~(c.addr < list[k].addr) /\ chunk_end(list[k]) # c.addr
  BY <1>5
<1>7. Place(list, c) = IF i # n + 1 /\ chunk_end(list[i]) = c.addr
                  THEN MergeNext(ReplaceAt(list, i, [list[i] EXCEPT !.size = @ + c.size]), i)
                  ELSE MergeNext(InsertAt(list, i, c), i)
  BY <1>1, <1>5 DEF Place
<1> HIDE DEF stops, first
<1>8. \A k \in 1..n : k < i => chunk_end(list[k]) < c.addr
  <2>1. ASSUME NEW k \in 1..n, k < i PROVE chunk_end(list[k]) < c.addr
    <3>1. ~(c.addr < list[k].addr) /\ chunk_end(list[k]) # c.addr
      BY <1>6, <2>1
    <3>2. ~(chunk_end(c) <= list[k].addr)
      BY <1>3, <3>1
    <3>3. QED
      BY <1>3, <1>4, <3>1, <3>2
  <2>2. QED
    BY <2>1
<1>9. \A k \in 1..n : k > i => chunk_end(c) <= list[k].addr
  <2>1. ASSUME NEW k \in 1..n, k > i PROVE chunk_end(c) <= list[k].addr
    <3>1. i \in 1..n /\ (c.addr < list[i].addr \/ chunk_end(list[i]) = c.addr)
      BY <1>6, <2>1
    <3>2. chunk_end(list[i]) < list[k].addr
      BY <1>2, <2>1, <3>1
    <3>3. c.addr < list[k].addr
      BY <1>3, <3>1, <3>2
    <3>4. QED
      BY <1>3, <1>4, <3>3
  <2>2. QED
    BY <2>1
<1>10. CASE i # n + 1 /\ chunk_end(list[i]) = c.addr
  <2> DEFINE m == [addr |-> list[i].addr, size |-> list[i].size + c.size]
             kept == ReplaceAt(list, i, m)
  <2>1. i \in 1..n /\ list[i] \in Chunks /\ Fits(list[i], b)
    BY <1>2, <1>6, <1>10
  <2>2. m.addr = list[i].addr /\ m = [addr |-> list[i].addr, size |-> list[i].size + c.size]
    OBVIOUS
  <2> HIDE DEF m
  <2>3. /\ [list[i] EXCEPT !.size = @ + c.size] = m
        /\ m \in Chunks /\ Fits(m, b) /\ chunk_end(m) = chunk_end(c)
        /\ \A w : w \in Words(m) <=> w \in Words(list[i]) \/ w \in Words(c)
    BY <1>10, <2>1, <2>2, JoinedIs
  <2>4. Place(list, c) = MergeNext(kept, i)
    BY <1>7, <1>10, <2>3
  <2>5. /\ kept \in Seq(Chunks) /\ Len(kept) = n
        /\ kept[i] = m /\ \A k \in 1..n : k # i => kept[k] = list[k]
    <3>1. list \in Seq(Chunks) /\ i \in 1..Len(list) /\ m \in Chunks
      BY <1>1, <1>2, <2>1, <2>3
    <3>2. /\ kept \in Seq(Chunks) /\ Len(kept) = Len(list)
          /\ kept[i] = m /\ \A k \in 1..Len(list) : k # i => kept[k] = list[k]
      BY <3>1, ReplaceIs
    <3>3. QED
      BY <1>1, <3>2
  <2> HIDE DEF kept
  <2>6. \A k \in 1..n : Fits(kept[k], b)
    BY <1>2, <2>3, <2>5
  <2>7. ASSUME NEW j \in 1..n, NEW k \in 1..n, j < k
        PROVE  \/ chunk_end(kept[j]) < kept[k].addr
               \/ j = i /\ k = i + 1 /\ chunk_end(kept[j]) = kept[k].addr
    <3>1. chunk_end(list[j]) < list[k].addr
      BY <1>2, <2>7
    <3>2. CASE j = i
      <4>1. chunk_end(kept[j]) = chunk_end(c) /\ kept[k] = list[k]
        BY <2>3, <2>5, <2>7, <3>2
      <4>2. CASE k = i + 1
        BY <1>3, <1>9, <2>7, <3>2, <4>1, <4>2
      <4>3. CASE k # i + 1
        <5>1. i + 1 \in 1..n /\ i + 1 < k /\ i + 1 > i
          BY <2>7, <3>2, <4>3
        <5>2. chunk_end(c) <= list[i + 1].addr
          BY <1>9, <5>1
        <5>3. chunk_end(list[i + 1]) < list[k].addr
          BY <1>2, <5>1
        <5>4. QED
          BY <1>3, <4>1, <5>1, <5>2, <5>3
      <4>4. QED
        BY <4>2, <4>3
    <3>3. CASE j # i
      <4>1. kept[j] = list[j] /\ kept[k].addr = list[k].addr
        BY <2>2, <2>5, <3>3
      <4>2. QED
        BY <3>1, <4>1
    <3>4. QED
      BY <3>2, <3>3
  <2>8. Listed(Place(list, c), b) /\ ListWords(Place(list, c)) = ListWords(kept)
    <3>1. Sorted(kept, i)
      BY <2>5, <2>7 DEF Sorted
    <3>2. QED
      BY <2>1, <2>4, <2>5, <2>6, <3>1, MergeIs
  <2>9. ASSUME NEW w PROVE w \in ListWords(kept) <=> w \in ListWords(list) \/ w \in Words(c)
    <3>1. w \in ListWords(kept) <=> \E k \in 1..n : w \in Words(kept[k])
      BY <2>5 DEF ListWords
    <3>2. w \in ListWords(list) <=> \E k \in 1..n : w \in Words(list[k])
      BY <1>1 DEF ListWords
    <3>3. \A k \in 1..n : w \in Words(kept[k]) <=>
                            w \in Words(list[k]) \/ (k = i /\ w \in Words(c))
      BY <2>3, <2>5
    <3>4. QED
      BY <2>1, <3>1, <3>2, <3>3
  <2>10. QED
    BY <2>8, <2>9
<1>11. CASE ~(i # n + 1 /\ chunk_end(list[i]) = c.addr)
  <2> DEFINE kept == InsertAt(list, i, c)
  <2>1. Place(list, c) = MergeNext(kept, i)
    BY <1>7, <1>11
  <2>2. /\ kept \in Seq(Chunks) /\ Len(kept) = n + 1
        /\ kept[i] = c /\ \A k \in 1..(n + 1) : k < i => kept[k] = list[k]
        /\ \A k \in 1..(n + 1) : k > i => kept[k] = list[k - 1]
    <3>1. list \in Seq(Chunks) /\ i \in 1..(Len(list) + 1) /\ c \in Chunks
      BY <1>1, <1>2
    <3>2. /\ kept \in Seq(Chunks) /\ Len(kept) = Len(list) + 1
          /\ kept[i] = c /\ \A k \in 1..(Len(list) + 1) : k < i => kept[k] = list[k]
          /\ \A k \in 1..(Len(list) + 1) : k > i => kept[k] = list[k - 1]
      BY <3>1, InsertIs
    <3>3. QED
      BY <1>1, <3>2
  <2> HIDE DEF kept
  <2>3. \A k \in 1..n : k >= i => chunk_end(c) <= list[k].addr
    <3>1. ASSUME i # n + 1 PROVE chunk_end(c) <= list[i].addr
      <4>1. c.addr < list[i].addr /\ i \in 1..n
        BY <1>6, <1>11, <3>1
      <4>2. QED
        BY <1>3, <1>4, <4>1
    <3>2. \A k \in 1..n : k = i => chunk_end(c) <= list[k].addr
      BY <3>1
    <3>3. QED
      BY <1>6, <1>9, <3>2
  <2>4. \A k \in 1..(n + 1) : Fits(kept[k], b)
    <3>1. ASSUME NEW k \in 1..(n + 1), k > i PROVE Fits(kept[k], b)
      <4>1. k - 1 \in 1..n /\ kept[k] = list[k - 1]
        BY <2>2, <3>1
      <4>2. QED
        BY <1>2, <4>1
    <3>2. \A k \in 1..(n + 1) : k <= i => Fits(kept[k], b)
      BY <1>2, <2>2
    <3>3. QED
      BY <3>1, <3>2
  <2>5. ASSUME NEW j \in 1..(n + 1), NEW k \in 1..(n + 1), j < k
        PROVE  \/ chunk_end(kept[j]) < kept[k].addr
               \/ j = i /\ k = i + 1 /\ chunk_end(kept[j]) = kept[k].addr
    <3>1. CASE k < i
      <4>1. /\ kept[j] = list[j] /\ kept[k] = list[k] /\ j \in 1..n /\ k \in 1..n
        BY <2>2, <2>5, <3>1
      <4>2. QED
        BY <1>2, <2>5, <4>1
    <3>2. CASE k = i
      <4>1. kept[j] = list[j] /\ kept[k] = c /\ j \in 1..n /\ j < i
        BY <2>2, <2>5, <3>2
      <4>2. QED
        BY <1>8, <4>1
    <3>3. CASE k > i /\ j < i
      <4>1. j \in 1..n /\ k - 1 \in 1..n /\ j < k - 1
        BY <2>5, <3>3
      <4>2. kept[j] = list[j] /\ kept[k] = list[k - 1]
        BY <2>2, <2>5, <3>3
      <4>3. QED
        BY <1>2, <4>1, <4>2
    <3>4. CASE k > i /\ j = i
      <4>1. kept[j] = c /\ kept[k] = list[k - 1] /\ k - 1 \in 1..n /\ k - 1 >= i
        BY <2>2, <2>5, <3>4
      <4>2. CASE k = i + 1
        <5>1. chunk_end(c) <= list[k - 1].addr
          BY <2>3, <4>1
        <5>2. chunk_end(kept[j]) <= kept[k].addr
          BY <4>1, <5>1
        <5>3. QED
          BY <1>3, <3>4, <4>1, <4>2, <5>2
      <4>3. CASE k # i + 1
        <5>1. i \in 1..n /\ i < k - 1
          BY <2>5, <3>4, <4>3
        <5>2. chunk_end(c) <= list[i].addr
          BY <1>6, <2>3, <5>1
        <5>3. chunk_end(list[i]) < list[k - 1].addr
          BY <1>2, <4>1, <5>1
        <5>4. QED
          BY <1>3, <4>1, <5>1, <5>2, <5>3
      <4>4. QED
        BY <4>2, <4>3
    <3>5. CASE k > i /\ j > i
      <4>1. j - 1 \in 1..n /\ k - 1 \in 1..n /\ j - 1 < k - 1
        BY <2>5, <3>5
      <4>2. kept[j] = list[j - 1] /\ kept[k] = list[k - 1]
        BY <2>2, <2>5, <3>5
      <4>3. QED
        BY <1>2, <4>1, <4>2
    <3>6. QED
      BY <2>5, <3>1, <3>2, <3>3, <3>4, <3>5
  <2>6. i \in 1..Len(kept)
    BY <2>2
  <2>7. Listed(Place(list, c), b) /\ ListWords(Place(list, c)) = ListWords(kept)
    <3>1. Sorted(kept, i)
      BY <2>2, <2>5 DEF Sorted
    <3>2. \A k \in 1..Len(kept) : Fits(kept[k], b)
      BY <2>2, <2>4
    <3>3. QED
      BY <2>1, <2>2, <2>6, <3>1, <3>2, MergeIs
  <2>8. ASSUME NEW w PROVE w \in ListWords(kept) <=> w \in ListWords(list) \/ w \in Words(c)
    <3>1. w \in ListWords(kept) <=> \E k \in 1..(n + 1) : w \in Words(kept[k])
      BY <2>2 DEF ListWords
    <3>2. w \in ListWords(list) <=> \E k \in 1..n : w \in Words(list[k])
      BY <1>1 DEF ListWords
    <3>3. ASSUME NEW k \in 1..(n + 1), w \in Words(kept[k])
          PROVE  w \in Words(c) \/ \E l \in 1..n : w \in Words(list[l])
      <4>1. CASE k < i
        BY <2>2, <3>3, <4>1
      <4>2. CASE k = i
        BY <2>2, <3>3, <4>2
      <4>3. CASE k > i
        <5>1. k - 1 \in 1..n /\ kept[k] = list[k - 1]
          BY <2>2, <4>3
        <5>2. QED
          BY <3>3, <5>1
      <4>4. QED
        BY <4>1, <4>2, <4>3
    <3>4. ASSUME NEW k \in 1..n, w \in Words(list[k])
          PROVE  \E l \in 1..(n + 1) : w \in Words(kept[l])
      <4>1. CASE k < i
        BY <2>2, <3>4, <4>1
      <4>2. CASE k >= i
        <5>1. k + 1 \in 1..(n + 1) /\ kept[k + 1] = list[(k + 1) - 1] /\ (k + 1) - 1 = k
          BY <2>2, <4>2
        <5>2. QED
          BY <3>4, <5>1
      <4>3. QED
        BY <4>1, <4>2
    <3>5. ASSUME w \in Words(c) PROVE \E l \in 1..(n + 1) : w \in Words(kept[l])
      BY <2>2, <3>5
    <3>6. QED
      BY <3>1, <3>2, <3>3, <3>4, <3>5
  <2>9. QED
    BY <2>7, <2>8
<1>12. QED
  BY <1>10, <1>11

-----------------------------------------------------------------------------
(* Chunks taken from the free list                                         *)

\* Of the words of a list, chunk d has some and a new list the others.
Taken(list, new, d, b) ==
  /\ Listed(new, b) /\ d \in Chunks /\ Fits(d, b)
  /\ \A w : /\ w \in ListWords(list) <=> w \in Words(d) \/ w \in ListWords(new)
            /\ ~(w \in Words(d) /\ w \in ListWords(new))

\* The start and the end of a list's chunks.
LEMMA ListIs ==
  ASSUME Parameters, NEW b, NEW list, Listed(list, b), NEW n \in Nat, n = Len(list)
  PROVE  /\ list \in Seq(Chunks)
         /\ \A k \in 1..n :
              /\ list[k] \in Chunks /\ Fits(list[k], b)
              /\ list[k].addr \in Nat /\ chunk_end(list[k]) \in Nat
              /\ list[k].addr < chunk_end(list[k])
              /\ \A w : w \in Words(list[k]) <=>
                          w \in Int /\ list[k].addr <= w /\ w < chunk_end(list[k])
         /\ \A j, k \in 1..n : j < k => chunk_end(list[j]) < list[k].addr
         /\ \A w : w \in ListWords(list) <=> \E k \in 1..n : w \in Words(list[k])
<1>1. /\ list \in Seq(Chunks) /\ \A k \in 1..n : list[k] \in Chunks /\ Fits(list[k], b)
      /\ \A j, k \in 1..n : j < k => chunk_end(list[j]) < list[k].addr
  BY LenProperties DEF Listed
<1>2. ASSUME NEW k \in 1..n
      PROVE  /\ list[k].addr \in Nat /\ chunk_end(list[k]) \in Nat
             /\ list[k].addr < chunk_end(list[k])
             /\ \A w : w \in Words(list[k]) <=>
                         w \in Int /\ list[k].addr <= w /\ w < chunk_end(list[k])
  BY <1>1, ChunkEnds, WordsAre
<1>3. \A w : w \in ListWords(list) <=> \E k \in 1..n : w \in Words(list[k])
  BY DEF ListWords
<1>4. QED
  BY <1>1, <1>2, <1>3

\* Chunks of a list share no word.
LEMMA ListApart ==
  ASSUME Parameters, NEW b, NEW list, Listed(list, b), NEW n \in Nat, n = Len(list),
         NEW j \in 1..n, NEW k \in 1..n, NEW w, w \in Words(list[j]), w \in Words(list[k])
  PROVE  j = k
<1>1. /\ w \in Int /\ list[j].addr <= w /\ w < chunk_end(list[j])
      /\ list[k].addr <= w /\ w < chunk_end(list[k])
      /\ list[j].addr \in Nat /\ chunk_end(list[j]) \in Nat
      /\ list[k].addr \in Nat /\ chunk_end(list[k]) \in Nat
  BY ListIs
<1>2. CASE j < k
  <2>1. chunk_end(list[j]) < list[k].addr
    BY <1>2, ListIs
  <2>2. QED
    BY <1>1, <2>1
<1>3. CASE k < j
  <2>1. chunk_end(list[k]) < list[j].addr
    BY <1>3, ListIs
  <2>2. QED
    BY <1>1, <2>1
<1>4. QED
  BY <1>2, <1>3

\* A chunk taken out as a whole.
LEMMA WithoutIs ==
  ASSUME Parameters, NEW b \in Base..Limit, NEW list, Listed(list, b),
         NEW n \in Nat, n = Len(list), NEW i \in 1..n,
         NEW new \in Seq(Chunks), Len(new) = n - 1,
         \A k \in 1..(n - 1) : k < i => new[k] = list[k],
         \A k \in 1..(n - 1) : k >= i => new[k] = list[k + 1]
  PROVE  Taken(list, new, list[i], b)
<1>1. /\ list \in Seq(Chunks)
      /\ \A k \in 1..n : list[k] \in Chunks /\ Fits(list[k], b)
      /\ \A j, k \in 1..n : j < k => chunk_end(list[j]) < list[k].addr
      /\ \A w : w \in ListWords(list) <=> \E k \in 1..n : w \in Words(list[k])
  BY ListIs
<1>2. ASSUME NEW k \in 1..(n - 1)
      PROVE  \E l \in 1..n :
               l # i /\ new[k] = list[l] /\ (l = k \/ (l = k + 1 /\ k >= i)) /\ (k < i => l = k)
  <2>1. CASE k < i
    BY <2>1
  <2>2. CASE k >= i
    <3>1. k + 1 \in 1..n /\ k + 1 # i
      BY <2>2
    <3>2. QED
      BY <2>2, <3>1
  <2>3. QED
    BY <2>1, <2>2
<1>3. ASSUME NEW l \in 1..n, l # i PROVE \E k \in 1..(n - 1) : new[k] = list[l]
  <2>1. CASE l < i
    BY <2>1
  <2>2. CASE l > i
    <3>1. l - 1 \in 1..(n - 1) /\ l - 1 >= i /\ (l - 1) + 1 = l
      BY <2>2
    <3>2. new[l - 1] = list[(l - 1) + 1]
      BY <3>1
    <3>3. QED
      BY <3>1, <3>2
  <2>3. QED
    BY <1>3, <2>1, <2>2
<1>4. Listed(new, b)
  <2>1. \A k \in 1..(n - 1) : Fits(new[k], b)
    BY <1>1, <1>2
  <2>2. ASSUME NEW j \in 1..(n - 1), NEW k \in 1..(n - 1), j < k
        PROVE  chunk_end(new[j]) < new[k].addr
    <3>1. CASE k < i
      BY <1>1, <2>2, <3>1
    <3>2. CASE j < i /\ k >= i
      <4>1. j \in 1..n /\ k + 1 \in 1..n /\ j < k + 1
        BY <2>2, <3>2
      <4>2. QED
        BY <1>1, <3>2, <4>1
    <3>3. CASE j >= i /\ k >= i
      <4>1. j + 1 \in 1..n /\ k + 1 \in 1..n /\ j + 1 < k + 1
        BY <2>2, <3>3
      <4>2. QED
        BY <1>1, <3>3, <4>1
    <3>4. QED
      BY <2>2, <3>1, <3>2, <3>3
  <2>3. QED
    BY <2>1, <2>2 DEF Listed
<1>5. ASSUME NEW w PROVE w \in ListWords(new) <=> \E l \in 1..n : l # i /\ w \in Words(list[l])
  <2>1. w \in ListWords(new) <=> \E k \in 1..(n - 1) : w \in Words(new[k])
    BY DEF ListWords
  <2>2. QED
    BY <1>2, <1>3, <2>1
<1>6. ASSUME NEW w
      PROVE  /\ w \in ListWords(list) <=> w \in Words(list[i]) \/ w \in ListWords(new)
             /\ ~(w \in Words(list[i]) /\ w \in ListWords(new))
  <2>1. w \in ListWords(list) <=> w \in Words(list[i]) \/ w \in ListWords(new)
    BY <1>1, <1>5
  <2>2. ASSUME w \in Words(list[i]), w \in ListWords(new) PROVE FALSE
    BY <1>5, <2>2, ListApart
  <2>3. QED
    BY <2>1, <2>2
<1>7. QED
  BY <1>1, <1>4, <1>6 DEF Taken

\* The first need words of a chunk taken, the rest left in its place.
LEMMA ShrinkIs ==
  ASSUME Parameters, NEW b \in Base..Limit, NEW list, Listed(list, b),
         NEW n \in Nat, n = Len(list), NEW i \in 1..n,
         NEW need \in Nat, need >= 2, need % CHUNK_ALIGN = 0, list[i].size - need >= MINSIZE,
         NEW rest, rest = [addr |-> list[i].addr + need, size |-> list[i].size - need],
         NEW d, d = [addr |-> list[i].addr, size |-> need]
  PROVE  Taken(list, ReplaceAt(list, i, rest), d, b)
<1> DEFINE a == list[i].addr
           s == list[i].size
           e == chunk_end(list[i])
           new == ReplaceAt(list, i, rest)
<1>1. /\ list \in Seq(Chunks)
      /\ \A k \in 1..n : list[k] \in Chunks /\ Fits(list[k], b)
      /\ \A j, k \in 1..n : j < k => chunk_end(list[j]) < list[k].addr
      /\ \A w : w \in ListWords(list) <=> \E k \in 1..n : w \in Words(list[k])
  BY ListIs
<1>2. \A k \in 1..n : list[k].addr \in Nat /\ chunk_end(list[k]) \in Nat
  BY ListIs
<1>3. /\ a \in Nat /\ s \in Nat /\ e \in Nat /\ Base <= a /\ e = a + s /\ e <= b /\ s - need >= 2
      /\ Aligned(a) /\ s % CHUNK_ALIGN = 0
      /\ \A w : w \in Words(list[i]) <=> w \in Int /\ a <= w /\ w < e
  <2>1. list[i] \in Chunks /\ Fits(list[i], b)
    BY <1>1
  <2>2. /\ a \in Nat /\ s \in Nat /\ e \in Nat /\ Base <= a /\ e = a + s
        /\ \A w : w \in Words(list[i]) <=> w \in Int /\ a <= w /\ w < e
    BY <2>1, WordsAre, ChunkEnds
  <2>3. QED
    BY <2>1, <2>2 DEF Fits, MINSIZE
<1>4. rest.addr = a + need /\ rest.size = s - need /\ d.addr = a /\ d.size = need
  OBVIOUS
<1>5. rest = [addr |-> a + need, size |-> s - need] /\ d = [addr |-> a, size |-> need]
  OBVIOUS
<1>6. s - need >= MINSIZE
  OBVIOUS
<1> HIDE DEF a, s, e
<1>7. /\ a + need \in Base..Limit /\ s - need \in 1..(Limit - Base)
      /\ a \in Base..Limit /\ need \in 1..(Limit - Base)
      /\ (a + need) + (s - need) = e /\ a + need <= b /\ a + need < e /\ a < a + need
  BY <1>3 DEF Parameters
<1>8. rest \in Chunks /\ d \in Chunks
  BY <1>5, <1>7 DEF Chunks
<1>9. chunk_end(rest) = e /\ chunk_end(d) = a + need
  BY <1>4, <1>7 DEF chunk_end
<1>10. Aligned(a + need) /\ (s - need) % CHUNK_ALIGN = 0
  BY <1>3, Even
<1>11. Fits(rest, b) /\ Fits(d, b)
  BY <1>3, <1>4, <1>6, <1>7, <1>9, <1>10 DEF Fits, MINSIZE
<1>12. /\ \A w : w \in Words(rest) <=> w \in Int /\ a + need <= w /\ w < e
       /\ \A w : w \in Words(d) <=> w \in Int /\ a <= w /\ w < a + need
  BY <1>4, <1>8, <1>9, WordsAre
<1>13. /\ new \in Seq(Chunks) /\ Len(new) = n
       /\ new[i] = rest /\ \A k \in 1..n : k # i => new[k] = list[k]
  <2>1. list \in Seq(Chunks) /\ i \in 1..Len(list) /\ rest \in Chunks
    BY <1>1, <1>8
  <2>2. /\ new \in Seq(Chunks) /\ Len(new) = Len(list)
        /\ new[i] = rest /\ \A k \in 1..Len(list) : k # i => new[k] = list[k]
    BY <2>1, ReplaceIs
  <2>3. QED
    BY <2>2
<1> HIDE DEF new
<1>14. Listed(new, b)
  <2>1. \A k \in 1..n : Fits(new[k], b)
    BY <1>1, <1>11, <1>13
  <2>2. ASSUME NEW j \in 1..n, NEW k \in 1..n, j < k PROVE chunk_end(new[j]) < new[k].addr
    <3>1. chunk_end(list[j]) < list[k].addr
      BY <1>1, <2>2
    <3>2. CASE j = i
      BY <1>9, <1>13, <2>2, <3>1, <3>2 DEF e
    <3>3. CASE k = i
      <4>1. chunk_end(new[j]) < a /\ chunk_end(new[j]) \in Nat
        BY <1>2, <1>13, <2>2, <3>1, <3>3 DEF a
      <4>2. new[k].addr = a + need
        BY <1>4, <1>13, <3>3
      <4>3. QED
        BY <1>3, <4>1, <4>2
    <3>4. CASE j # i /\ k # i
      BY <1>13, <3>1, <3>4
    <3>5. QED
      BY <3>2, <3>3, <3>4
  <2>3. QED
    BY <1>13, <2>1, <2>2 DEF Listed
<1>15. ASSUME NEW w
       PROVE  /\ w \in ListWords(list) <=> w \in Words(d) \/ w \in ListWords(new)
              /\ ~(w \in Words(d) /\ w \in ListWords(new))
  <2>1. w \in ListWords(new) <=> \E k \in 1..n : w \in Words(new[k])
    BY <1>13 DEF ListWords
  <2>2. /\ w \in Words(list[i]) <=> w \in Words(d) \/ w \in Words(rest)
        /\ ~(w \in Words(d) /\ w \in Words(rest))
    BY <1>3, <1>7, <1>12
  <2>3. w \in ListWords(list) <=> w \in Words(d) \/ w \in ListWords(new)
    BY <1>1, <1>13, <2>1, <2>2
  <2>4. ASSUME w \in Words(d), w \in ListWords(new) PROVE FALSE
    <3>1. PICK k \in 1..n : w \in Words(new[k])
      BY <2>1, <2>4
    <3>2. k # i
      BY <1>13, <2>2, <2>4, <3>1
    <3>3. w \in Words(list[k]) /\ w \in Words(list[i])
      BY <1>13, <2>2, <2>4, <3>1, <3>2
    <3>4. QED
      BY <3>2, <3>3, ListApart
  <2>5. QED
    BY <2>3, <2>4
<1>16. QED
  BY <1>8, <1>11, <1>14, <1>15 DEF Taken, new

-----------------------------------------------------------------------------
(* Steps                                                                   *)

LEMMA LiveWordsIs ==
  ASSUME NEW cs, NEW w
  PROVE  w \in WordsOf(cs) <=> \E c \in cs : w \in Words(c)
BY DEF WordsOf

\* The words of free chunks and of chunks handed out lie below the break.
LEMMA BelowBreak ==
  ASSUME Parameters, IInv
  PROVE  /\ \A w \in ListWords(freeList) : w \in Int /\ Base <= w /\ w < brk
         /\ \A w \in WordsOf(live) : w \in Int /\ Base <= w /\ w < brk
         /\ \A w \in libc : w \in Int /\ Base <= w /\ w < brk
<1>1. /\ brk \in Base..Limit /\ brk \in Nat
      /\ live \subseteq Chunks /\ Listed(freeList, brk)
  BY DEF IInv, Bounds, Parameters
<1>2. ASSUME NEW c \in Chunks, Fits(c, brk), NEW w \in Words(c)
      PROVE  w \in Int /\ Base <= w /\ w < brk
  <2>1. /\ c.addr \in Nat /\ Base <= c.addr /\ chunk_end(c) \in Nat /\ chunk_end(c) <= brk
        /\ w \in Int /\ c.addr <= w /\ w < chunk_end(c)
    BY <1>2, ChunkEnds, WordsAre DEF Fits
  <2>2. QED
    BY <1>1, <2>1 DEF Parameters
<1>3. ASSUME NEW w \in ListWords(freeList) PROVE w \in Int /\ Base <= w /\ w < brk
  <2>1. PICK k \in 1..Len(freeList) : w \in Words(freeList[k])
    BY DEF ListWords
  <2>2. freeList[k] \in Chunks /\ Fits(freeList[k], brk)
    BY <1>1, LenProperties DEF Listed
  <2>3. QED
    BY <1>2, <2>1, <2>2
<1>4. ASSUME NEW w \in WordsOf(live) PROVE w \in Int /\ Base <= w /\ w < brk
  <2>1. PICK c \in live : w \in Words(c)
    BY LiveWordsIs
  <2>2. c \in Chunks /\ Fits(c, brk)
    BY <1>1 DEF IInv, LivePart
  <2>3. QED
    BY <1>2, <2>1, <2>2
<1>5. \A w \in libc : w \in Int /\ Base <= w /\ w < brk
  BY DEF IInv, Bounds
<1>6. QED
  BY <1>3, <1>4, <1>5

\* The C library may take memory above the break, and nobody else changes anything.
LibcGrows ==
  /\ brk' \in brk..Limit
  /\ libc \subseteq libc'
  /\ \A w \in libc' : w \in Int /\ w < brk' /\ (w \in libc \/ w >= brk)

\* What a step leaves behind the break is the C library's, padding, or part of d.
LeavesPadding(d) ==
  brk' < Limit => \A w \in Int :
    brk <= w /\ w < brk' => w \in libc' \/ w \in d \/ ~Aligned(w)

LEMMA FitsLater ==
  ASSUME Parameters, NEW b \in Base..Limit, NEW e \in b..Limit, NEW list
  PROVE  /\ Listed(list, b) => Listed(list, e)
         /\ \A c \in Chunks : Fits(c, b) => Fits(c, e)
<1>1. ASSUME NEW c \in Chunks, Fits(c, b) PROVE Fits(c, e)
  BY <1>1, ChunkEnds DEF Fits, Parameters
<1>2. ASSUME Listed(list, b) PROVE Listed(list, e)
  <2>1. \A k \in 1..Len(list) : list[k] \in Chunks /\ Fits(list[k], b)
    BY <1>2, LenProperties DEF Listed
  <2>2. QED
    BY <1>1, <1>2, <2>1 DEF Listed
<1>3. QED
  BY <1>1, <1>2

\* While nobody takes words away, what was padding stays padding.
LEMMA PaddingStep ==
  ASSUME Parameters, IInv, LibcGrows, NEW d, LeavesPadding(d),
         \A w \in ListWords(freeList) \cup WordsOf(live) \cup d :
           w \in ListWords(freeList') \cup WordsOf(live')
  PROVE  PaddingPart'
<1> SUFFICES ASSUME brk' < Limit, NEW w \in Int, Base <= w, w < brk'
             PROVE  w \in ListWords(freeList') \cup WordsOf(live') \cup libc' \/ ~Aligned(w)
  BY DEF PaddingPart
<1>1. brk \in Base..Limit /\ brk' \in brk..Limit /\ brk < Limit
  BY DEF LibcGrows, IInv, Bounds, Parameters
<1>2. CASE w < brk
  <2>1. w \in ListWords(freeList) \cup WordsOf(live) \cup libc \/ ~Aligned(w)
    BY <1>1, <1>2 DEF IInv, PaddingPart
  <2>2. QED
    BY <2>1 DEF LibcGrows
<1>3. CASE w >= brk
  <2>1. w \in libc' \/ w \in d \/ ~Aligned(w)
    BY <1>3 DEF LeavesPadding
  <2>2. QED
    BY <2>1
<1>4. QED
  BY <1>1, <1>2, <1>3 DEF Parameters

\* The allocator's words are the abstract allocator's.
LEMMA SameWords ==
  ASSUME Parameters, NEW cs \in SUBSET Chunks
  PROVE  Promised!WordsOf(cs) = WordsOf(cs) /\ \A c \in cs : Promised!Words(c) = Words(c)
<1>1. \A c \in cs : Promised!Words(c) = Words(c)
  BY DEF Promised!Words, Words, chunk_end, Chunks, Parameters
<1>2. QED
  BY <1>1 DEF Promised!WordsOf, WordsOf

LEMMA TakeStep ==
  ASSUME Parameters, IInv, LibcGrows
  PROVE  Promised!Take
<1>1. \A w \in WordsOf(live) : w \in Int /\ w < brk /\ w \notin libc
  BY BelowBreak DEF IInv, ApartPart
<1>2. libc' \cap WordsOf(live) = {}
  <2>1. brk \in Int /\ \A w \in libc' : w \in libc \/ w >= brk
    BY DEF LibcGrows, IInv, Bounds, Parameters
  <2>2. \A w \in libc' : w \notin WordsOf(live)
    BY <1>1, <2>1
  <2>3. QED
    BY <2>2
<1>3. libc' \subseteq Base .. (Limit - 1)
  <2>1. brk \in Base..Limit /\ brk' \in brk..Limit
    BY DEF LibcGrows, IInv, Bounds
  <2>2. \A w \in libc' : w \in Int /\ Base <= w /\ w < brk'
    BY <2>1, BelowBreak DEF LibcGrows, Parameters
  <2>3. QED
    BY <2>1, <2>2 DEF Parameters
<1>4. live \subseteq Chunks
  BY DEF IInv, Bounds
<1>5. QED
  BY <1>2, <1>3, <1>4, SameWords DEF Promised!Take, LibcGrows

\* A step that hands nothing out.
LEMMA KeepStep ==
  ASSUME Parameters, IInv, LibcGrows, LeavesPadding({}),
         __malloc_sbrk_top' \in {Null} \cup (Base..Limit), refused' \in Nat,
         UNCHANGED <<freeList, live>>
  PROVE  IInv' /\ Promised!Take
<1>1. /\ brk' \in brk..Limit
      /\ brk \in Base..Limit /\ live \subseteq Chunks /\ Listed(freeList, brk)
  BY DEF LibcGrows, IInv, Bounds
<1>2. Bounds'
  <2>1. brk' \in Base..Limit
    BY <1>1 DEF Parameters
  <2>2. \A w \in libc' : w \in Int /\ Base <= w /\ w < brk'
    BY <1>1, BelowBreak DEF LibcGrows, Parameters
  <2>3. QED
    BY <1>1, <2>1, <2>2 DEF Bounds
<1>3. Listed(freeList, brk') /\ \A c \in live : Fits(c, brk')
  <2>1. \A c \in live : c \in Chunks /\ Fits(c, brk)
    BY <1>1 DEF IInv, LivePart
  <2>2. QED
    BY <1>1, <2>1, FitsLater
<1>4. Listed(freeList, brk)' /\ LivePart'
  BY <1>3 DEF IInv, LivePart, Listed
<1>5. ApartPart'
  <2>1. /\ \A w \in ListWords(freeList) : w \in Int /\ w < brk /\ w \notin libc
        /\ \A w \in WordsOf(live) : w \in Int /\ w < brk /\ w \notin libc
    BY BelowBreak DEF IInv, ApartPart
  <2>2. \A w \in libc' : w \in libc \/ w >= brk
    BY DEF LibcGrows
  <2>3. brk \in Int
    BY <1>1 DEF Parameters
  <2>4. \A w \in libc' : w \notin ListWords(freeList) /\ w \notin WordsOf(live)
    BY <2>1, <2>2, <2>3
  <2>5. ListWords(freeList)' = ListWords(freeList) /\ WordsOf(live)' = WordsOf(live)
    BY DEF ListWords, WordsOf
  <2>6. QED
    BY <2>4, <2>5 DEF IInv, ApartPart
<1>6. PaddingPart'
  <2>1. ListWords(freeList') = ListWords(freeList) /\ WordsOf(live') = WordsOf(live)
    BY DEF ListWords, WordsOf
  <2>2. QED
    BY <2>1, PaddingStep
<1>7. QED
  BY <1>2, <1>4, <1>5, <1>6, TakeStep DEF IInv

\* A step that hands out chunk d, made of free words or of words above the break.
LEMMA HandOutStep ==
  ASSUME Parameters, IInv, LibcGrows, NEW d \in Chunks, LeavesPadding(Words(d)),
         __malloc_sbrk_top' \in {Null} \cup (Base..Limit), refused' \in Nat,
         live' = live \cup {d}, Fits(d, brk'), Listed(freeList', brk'),
         \A w \in Words(d) : \/ w \in ListWords(freeList)
                             \/ w >= brk /\ w \notin libc',
         \A w \in ListWords(freeList') : w \in ListWords(freeList) /\ w \notin Words(d),
         \A w \in ListWords(freeList) : w \in ListWords(freeList') \/ w \in Words(d)
  PROVE  /\ IInv' /\ Promised!Take
         /\ \A n \in Nat : d.size >= n + HEAD => Promised!Alloc(n)
<1>1. /\ brk' \in brk..Limit
      /\ brk \in Base..Limit /\ live \subseteq Chunks
  BY DEF LibcGrows, IInv, Bounds
<1>2. /\ \A w \in ListWords(freeList) :
           w \in Int /\ w < brk /\ w \notin libc /\ w \notin WordsOf(live)
      /\ \A w \in WordsOf(live) : w \in Int /\ w < brk /\ w \notin libc
      /\ \A w \in libc' : w \in libc \/ w >= brk
      /\ brk \in Int /\ brk' \in Int
  BY <1>1, BelowBreak DEF IInv, ApartPart, LibcGrows, Parameters
<1>3. \A w \in Words(d) : w \notin WordsOf(live) /\ w \notin libc'
  BY <1>2
<1>4. Bounds'
  <2>1. brk' \in Base..Limit
    BY <1>1 DEF Parameters
  <2>2. \A w \in libc' : w \in Int /\ Base <= w /\ w < brk'
    BY <1>1, BelowBreak DEF LibcGrows, Parameters
  <2>3. live' \subseteq Chunks
    BY <1>1
  <2>4. QED
    BY <1>1, <2>1, <2>3, <2>2 DEF Bounds
<1>5. LivePart'
  <2>1. \A c \in live' : Fits(c, brk')
    <3>1. \A c \in live : c \in Chunks /\ Fits(c, brk)
      BY <1>1 DEF IInv, LivePart
    <3>2. QED
      BY <1>1, <3>1, FitsLater
  <2>2. \A c \in live : Words(c) \cap Words(d) = {}
    BY <1>3, LiveWordsIs
  <2>3. \A c, e \in live' : c # e => Words(c) \cap Words(e) = {}
    BY <2>2 DEF IInv, LivePart
  <2>4. QED
    BY <2>1, <2>3 DEF LivePart, Fits
<1>6. \A w : w \in WordsOf(live') <=> w \in WordsOf(live) \/ w \in Words(d)
  BY LiveWordsIs
<1>7. ApartPart'
  <2>1. ListWords(freeList') \cap WordsOf(live') = {}
    BY <1>2, <1>6
  <2>2. libc' \cap ListWords(freeList') = {}
    BY <1>2
  <2>3. libc' \cap WordsOf(live') = {}
    BY <1>2, <1>3, <1>6
  <2>4. QED
    BY <2>1, <2>2, <2>3 DEF ApartPart
<1>8. PaddingPart'
  BY <1>6, PaddingStep
<1>9. IInv'
  BY <1>4, <1>5, <1>7, <1>8 DEF IInv
<1>10. ASSUME NEW n \in Nat, d.size >= n + HEAD PROVE Promised!Alloc(n)
  <2>1. d \notin live
    <3>1. d.addr \in Words(d)
      BY ChunkEnds, WordsAre
    <3>2. QED
      BY <1>3, <3>1, LiveWordsIs
  <2>2. Words(d) \subseteq Base .. (Limit - 1)
    <3>1. d.addr \in Nat /\ Base <= d.addr /\ chunk_end(d) \in Nat /\ chunk_end(d) <= brk'
      BY ChunkEnds DEF Fits
    <3>2. \A w \in Words(d) : w \in Int /\ d.addr <= w /\ w < chunk_end(d)
      BY WordsAre
    <3>3. QED
      BY <1>1, <1>2, <3>1, <3>2 DEF Parameters
  <2>3. Words(d) \cap (WordsOf(live) \cup libc') = {}
    BY <1>3
  <2>4. d \in live' \ live
    BY <2>1
  <2>5. {d} \subseteq Chunks /\ Promised!WordsOf(live) = WordsOf(live)
    BY <1>1, SameWords
  <2>6. Promised!Words(d) = Words(d)
    BY <2>5, SameWords
  <2>7. QED
    BY <1>10, <2>2, <2>3, <2>4, <2>5, <2>6 DEF Promised!Alloc
<1>11. QED
  BY <1>9, <1>10, TakeStep

\* A chunk is large enough for its header and the size asked for.
LEMMA NeedIs ==
  ASSUME NEW n \in Nat, NEW need, need = chunk_size(n)
  PROVE  need \in Nat /\ need >= 2 /\ need >= n + HEAD /\ need % CHUNK_ALIGN = 0
<1>1. need \in Nat /\ need >= n + 2 /\ need % CHUNK_ALIGN = 0
  BY SizeIs
<1>2. QED
  BY <1>1 DEF HEAD

\* What shmem_malloc(n) means for the abstract allocator.
Served(n) == Promised!Take /\ (live' = live \/ Promised!Alloc(n))

\* Memory from sbrk, when the C library has the words from brk to b.
LEMMA SbrkStep ==
  ASSUME Parameters, IInv, NEW n \in Nat, NEW need, need = chunk_size(n),
         NEW b \in brk..Limit, NEW top \in {Null} \cup (Base..Limit),
         libc \subseteq libc',
         \A w \in libc' : w \in Int /\ w < b /\ (w \in libc \/ w >= brk),
         b < Limit => \A w \in Int : brk <= w /\ w < b => w \in libc' \/ ~Aligned(w),
         FromSbrk(sbrk_aligned(b, top, need), need)
  PROVE  IInv' /\ Served(n)
<1> DEFINE got == sbrk_aligned(b, top, need)
<1>1. /\ brk \in Base..Limit /\ brk \in Nat /\ Limit \in Nat /\ Base \in Nat
      /\ Listed(freeList, brk) /\ live \subseteq Chunks
  BY DEF IInv, Bounds, Parameters
<1>2. b \in Base..Limit /\ b \in Nat /\ b >= brk
  BY <1>1
<1>3. need \in Nat /\ need >= 2 /\ need >= n + HEAD /\ need % CHUNK_ALIGN = 0
  BY NeedIs
<1>4. got = sbrk_aligned(b, top, need)
  OBVIOUS
<1>5. /\ brk' = got.brk /\ __malloc_sbrk_top' = got.top
      /\ refused' = IF got.addr = Null THEN need ELSE 0
      /\ live' = IF got.addr = Null THEN live
                 ELSE live \cup {[addr |-> got.addr, size |-> need]}
      /\ freeList' = freeList
  BY DEF FromSbrk
<1> HIDE DEF got
<1>6. \/ got.addr = Null /\ got.brk = b /\ got.top = top /\ b + need > Limit
      \/ got.addr = Null /\ got.brk = Limit /\ got.top = Limit /\ b + need = Limit /\ ~Aligned(b)
      \/ /\ got.addr = IF Aligned(b) THEN b ELSE b + 1
         /\ Aligned(got.addr) /\ got.addr # Null /\ Aligned(got.addr + need)
         /\ got.brk = got.addr + need /\ got.top = got.addr + need
         /\ got.addr + need <= Limit
  BY <1>2, <1>3, <1>4, SbrkIs
<1>7. ASSUME got.addr = Null, got.brk = b, got.top = top
      PROVE  IInv' /\ Served(n)
  <2>1. LibcGrows /\ LeavesPadding({})
    BY <1>1, <1>2, <1>5, <1>7 DEF LibcGrows, LeavesPadding
  <2>2. /\ __malloc_sbrk_top' \in {Null} \cup (Base..Limit) /\ refused' \in Nat
        /\ UNCHANGED <<freeList, live>>
    BY <1>3, <1>5, <1>7
  <2>3. QED
    BY <2>1, <2>2, KeepStep DEF Served
<1>8. ASSUME got.addr = Null, got.brk = Limit, got.top = Limit
      PROVE  IInv' /\ Served(n)
  <2>1. brk' = Limit
    BY <1>5, <1>8
  <2>2. LibcGrows
    BY <1>1, <1>2, <2>1 DEF LibcGrows
  <2>3. LeavesPadding({})
    BY <1>1, <2>1 DEF LeavesPadding
  <2>4. Limit \in Base..Limit
    BY <1>1, <1>2
  <2>5. /\ __malloc_sbrk_top' \in {Null} \cup (Base..Limit) /\ refused' \in Nat
        /\ UNCHANGED <<freeList, live>>
    BY <1>3, <1>5, <1>8, <2>4
  <2>6. QED
    BY <2>2, <2>3, <2>5, KeepStep DEF Served
<1>9. ASSUME NEW a, a = IF Aligned(b) THEN b ELSE b + 1, got.addr = a, Aligned(a), a # Null,
             NEW e, e = a + need, got.brk = e, got.top = e, e <= Limit
      PROVE  IInv' /\ Served(n)
  <2> DEFINE d == [addr |-> a, size |-> need]
  <2>1. /\ a \in Nat /\ e \in Nat /\ a >= b /\ a >= Base /\ a <= b + 1 /\ a < e
        /\ (a # b => ~Aligned(b) /\ a = b + 1)
    <3>1. (Aligned(b) /\ a = b) \/ (~Aligned(b) /\ a = b + 1)
      BY <1>9
    <3>2. a \in Nat /\ a >= b /\ a >= Base /\ a <= b + 1
      BY <1>1, <1>2, <3>1
    <3>3. e \in Nat /\ a < e
      BY <1>3, <1>9, <3>2
    <3>4. QED
      BY <3>1, <3>2, <3>3
  <2>2. d.addr = a /\ d.size = need /\ d = [addr |-> a, size |-> need]
    OBVIOUS
  <2> HIDE DEF d
  <2>3. brk' = e /\ __malloc_sbrk_top' = e /\ refused' = 0 /\ live' = live \cup {d}
    BY <1>5, <1>9, <2>2
  <2>4. a \in Base..Limit /\ need \in 1..(Limit - Base) /\ e \in Base..Limit /\ e \in brk..Limit
    BY <1>1, <1>2, <1>3, <1>9, <2>1
  <2>5. d \in Chunks
    BY <2>2, <2>4 DEF Chunks
  <2>6. chunk_end(d) = e
    BY <1>9, <2>2 DEF chunk_end
  <2>7. Fits(d, brk')
    BY <1>3, <1>9, <2>1, <2>2, <2>3, <2>6 DEF Fits, MINSIZE
  <2>8. \A w : w \in Words(d) <=> w \in Int /\ a <= w /\ w < e
    BY <2>2, <2>5, <2>6, WordsAre
  <2>9. LibcGrows
    <3>1. \A w \in libc' : w < e
      BY <1>2, <2>1
    <3>2. QED
      BY <2>3, <2>4, <3>1 DEF LibcGrows
  <2>10. LeavesPadding(Words(d))
    <3>1. ASSUME e < Limit, NEW w \in Int, brk <= w, w < e
          PROVE  w \in libc' \/ w \in Words(d) \/ ~Aligned(w)
      <4>1. CASE w < b
        BY <1>1, <1>2, <2>1, <3>1, <4>1
      <4>2. CASE w >= b /\ w < a
        BY <1>2, <2>1, <4>2
      <4>3. CASE w >= a
        BY <2>8, <3>1, <4>3
      <4>4. QED
        BY <1>2, <2>1, <4>1, <4>2, <4>3
    <3>2. QED
      BY <2>3, <3>1 DEF LeavesPadding
  <2>11. \A w \in Words(d) : w >= brk /\ w \notin libc'
    BY <1>1, <1>2, <2>1, <2>8
  <2>12. \A w \in ListWords(freeList) : w \notin Words(d)
    BY <1>1, <1>2, <2>1, <2>8, BelowBreak
  <2>13. Listed(freeList', brk')
    BY <1>1, <1>5, <2>3, <2>4, FitsLater
  <2>14. __malloc_sbrk_top' \in {Null} \cup (Base..Limit) /\ refused' \in Nat
    BY <2>3, <2>4
  <2>15. freeList' = freeList
    BY <1>5
  <2>16. IInv' /\ Promised!Take /\ (d.size >= n + HEAD => Promised!Alloc(n))
    BY <2>3, <2>5, <2>7, <2>9, <2>10, <2>11, <2>12, <2>13, <2>14, <2>15, HandOutStep
  <2>17. QED
    BY <1>3, <2>2, <2>16 DEF Served
<1>10. QED
  BY <1>6, <1>7, <1>8, <1>9

\* Memory from sbrk while the C library takes none.
LEMMA FromSbrkStep ==
  ASSUME Parameters, IInv, NEW n \in Nat, NEW need, need = chunk_size(n), UNCHANGED libc,
         FromSbrk(sbrk_aligned(brk, __malloc_sbrk_top, need), need)
  PROVE  IInv' /\ Served(n)
<1>1. /\ brk \in brk..Limit /\ __malloc_sbrk_top \in {Null} \cup (Base..Limit)
      /\ \A w \in libc' : w \in Int /\ w < brk
      /\ brk \in Int
  BY DEF IInv, Bounds, Parameters
<1>2. \A w \in Int : ~(brk <= w /\ w < brk)
  BY <1>1
<1>3. QED
  BY <1>1, <1>2, SbrkStep

\* The first chunk that is large enough is used.
LEMMA FirstFitStep ==
  ASSUME Parameters, IInv, NEW n \in Nat, NEW need, need = chunk_size(n), FirstFit(need)
  PROVE  IInv' /\ Served(n)
<1>1. PICK i \in 1..Len(freeList) :
        freeList[i].size >= need /\ Split(i, need) /\ refused' = 0
        /\ UNCHANGED <<brk, __malloc_sbrk_top, libc>>
  BY DEF FirstFit
<1>2. PICK list \in Seq(Chunks) : list = freeList
  BY DEF IInv, Listed
<1>3. PICK m \in Nat : m = Len(list)
  BY LenProperties
<1>4. /\ brk \in Base..Limit /\ brk \in Int /\ Listed(list, brk) /\ i \in 1..m
      /\ __malloc_sbrk_top \in {Null} \cup (Base..Limit)
      /\ \A w \in libc : w \in Int /\ w < brk
  BY <1>1, <1>2, <1>3 DEF IInv, Bounds, Parameters
<1>5. need \in Nat /\ need >= 2 /\ need >= n + HEAD /\ need % CHUNK_ALIGN = 0
  BY NeedIs
<1>6. list[i] \in Chunks /\ Fits(list[i], brk)
  BY <1>3, <1>4, ListIs
<1>7. ASSUME NEW new, NEW d, Taken(list, new, d, brk), freeList' = new, live' = live \cup {d},
             d.size >= need
      PROVE  IInv' /\ Served(n)
  <2>1. LibcGrows /\ LeavesPadding(Words(d))
    BY <1>1, <1>4 DEF LibcGrows, LeavesPadding, Parameters
  <2>2. /\ d \in Chunks /\ Fits(d, brk') /\ Listed(freeList', brk')
        /\ \A w \in Words(d) : w \in ListWords(freeList)
        /\ \A w \in ListWords(freeList') : w \in ListWords(freeList) /\ w \notin Words(d)
        /\ \A w \in ListWords(freeList) : w \in ListWords(freeList') \/ w \in Words(d)
    BY <1>1, <1>2, <1>7 DEF Taken, Fits
  <2>3. __malloc_sbrk_top' \in {Null} \cup (Base..Limit) /\ refused' \in Nat
    BY <1>1, <1>4
  <2>4. d.size >= n + HEAD
    <3>1. d.size \in Nat
      BY <2>2 DEF Chunks, Parameters
    <3>2. QED
      BY <1>5, <1>7, <3>1 DEF HEAD
  <2>5. QED
    BY <1>7, <2>1, <2>2, <2>3, <2>4, HandOutStep DEF Served
<1>8. CASE list[i].size - need >= MINSIZE
  <2> DEFINE rest == [addr |-> list[i].addr + need, size |-> list[i].size - need]
             d == [addr |-> list[i].addr, size |-> need]
  <2>1. /\ freeList' = ReplaceAt(list, i, rest)
        /\ live' = live \cup {[list[i] EXCEPT !.size = need]}
    BY <1>1, <1>2, <1>8 DEF Split
  <2>2. [list[i] EXCEPT !.size = need] = d
    BY <1>6 DEF Chunks
  <2>3. /\ rest = [addr |-> list[i].addr + need, size |-> list[i].size - need]
        /\ d = [addr |-> list[i].addr, size |-> need] /\ d.size = need
    OBVIOUS
  <2> HIDE DEF rest, d
  <2>4. Taken(list, ReplaceAt(list, i, rest), d, brk)
    BY <1>3, <1>4, <1>5, <1>8, <2>3, ShrinkIs
  <2>5. d.size >= need
    BY <1>5, <2>3
  <2>6. QED
    BY <1>7, <2>1, <2>2, <2>4, <2>5
<1>9. CASE ~(list[i].size - need >= MINSIZE)
  <2>1. freeList' = RemoveAt(list, i) /\ live' = live \cup {list[i]}
    BY <1>1, <1>2, <1>9 DEF Split
  <2>2. /\ RemoveAt(list, i) \in Seq(Chunks) /\ Len(RemoveAt(list, i)) = m - 1
        /\ \A k \in 1..(m - 1) : k < i => RemoveAt(list, i)[k] = list[k]
        /\ \A k \in 1..(m - 1) : k >= i => RemoveAt(list, i)[k] = list[k + 1]
    <3>1. list \in Seq(Chunks) /\ i \in 1..Len(list)
      BY <1>3, <1>4 DEF Listed
    <3>2. QED
      BY <1>3, <3>1, RemoveIs
  <2>3. Taken(list, RemoveAt(list, i), list[i], brk)
    BY <1>3, <1>4, <2>2, WithoutIs
  <2>4. QED
    BY <1>1, <1>2, <1>7, <2>1, <2>3
<1>10. QED
  BY <1>8, <1>9

\* The last chunk is too small by an even number of words, which is what sbrk is asked for.
LEMMA MissingIs ==
  ASSUME Parameters, IInv, freeList # <<>>, NEW need \in Nat, need % CHUNK_ALIGN = 0,
         Last(freeList).size < need
  PROVE  LET c == Last(freeList) IN
         /\ c \in Chunks /\ Fits(c, brk) /\ c.size \in Nat
         /\ GrowSize(need) = need - c.size
         /\ GrowSize(need) \in Nat /\ GrowSize(need) >= 2 /\ GrowSize(need) % CHUNK_ALIGN = 0
<1> DEFINE c == Last(freeList)
<1>1. c \in Chunks /\ Fits(c, brk)
  BY FrontIs DEF IInv, Listed
<1>2. c.size \in Nat /\ c.size % CHUNK_ALIGN = 0 /\ c.size < need
  BY <1>1 DEF Chunks, Fits, Parameters
<1>3. GrowSize(need) =
        LET missing == need - c.size IN IF missing < MINSIZE THEN MINSIZE ELSE missing
  BY DEF GrowSize
<1> HIDE DEF c
<1>4. need - c.size >= 2 /\ (need - c.size) % CHUNK_ALIGN = 0
  BY <1>2 DEF CHUNK_ALIGN
<1>5. GrowSize(need) = need - c.size
  BY <1>2, <1>3, <1>4 DEF MINSIZE
<1>6. QED
  BY <1>1, <1>2, <1>4, <1>5 DEF c

\* The last chunk is extended, or the memory goes to the C library.
LEMMA GrowLastStep ==
  ASSUME Parameters, IInv, NEW n \in Nat, NEW need, need = chunk_size(n), AtTop,
         Last(freeList).size < need, GrowLast(need)
  PROVE  IInv' /\ Served(n)
<1>1. PICK list \in Seq(Chunks) : list = freeList /\ list # <<>>
  BY DEF IInv, Listed, AtTop
<1>2. PICK m \in Nat : m = Len(list)
  BY LenProperties
<1>3. PICK c, g : c = Last(list) /\ g = GrowSize(need)
  OBVIOUS
<1>4. /\ brk \in Base..Limit /\ brk \in Nat /\ Limit \in Nat /\ Listed(list, brk)
      /\ __malloc_sbrk_top \in {Null} \cup (Base..Limit)
      /\ \A w \in libc : w \in Int /\ Base <= w /\ w < brk
      /\ Base \in Nat \ {0}
  BY <1>1 DEF IInv, Bounds, Parameters
<1>5. need \in Nat /\ need >= 2 /\ need >= n + HEAD /\ need % CHUNK_ALIGN = 0
  BY NeedIs
<1>6. /\ c \in Chunks /\ Fits(c, brk) /\ c.size \in Nat /\ g = need - c.size
      /\ g \in Nat /\ g >= 2 /\ g % CHUNK_ALIGN = 0
  BY <1>1, <1>3, <1>5, MissingIs
<1>7. PICK got : got = sbrk_aligned(brk, __malloc_sbrk_top, g)
  OBVIOUS
<1>8. \/ got.addr = Null /\ got.brk = brk /\ got.top = __malloc_sbrk_top
      \/ got.addr = Null /\ got.brk = Limit /\ got.top = Limit
      \/ /\ got.addr = IF Aligned(brk) THEN brk ELSE brk + 1
         /\ Aligned(got.addr) /\ got.addr # Null /\ Aligned(got.addr + g)
         /\ got.brk = got.addr + g /\ got.top = got.addr + g
         /\ got.addr + g <= Limit
  BY <1>4, <1>6, <1>7, SbrkIs
<1>9. CASE got.addr = chunk_end(c)
  <2>1. chunk_end(c) \in Nat /\ c.addr < chunk_end(c) /\ chunk_end(c) <= brk /\ Base <= c.addr
        /\ c.addr \in Nat
    BY <1>6, ChunkEnds DEF Fits
  <2>2. got.addr # Null
    BY <1>4, <1>9, <2>1 DEF Null
  <2>3. got.addr = brk /\ got.brk = brk + g /\ got.top = brk + g /\ brk + g <= Limit /\ Aligned(brk)
    BY <1>4, <1>8, <1>9, <2>1, <2>2
  <2>4. /\ freeList' = Front(list)
        /\ live' = live \cup {[c EXCEPT !.size = @ + g]}
        /\ refused' = 0 /\ brk' = got.brk /\ __malloc_sbrk_top' = got.top /\ libc' = libc
    BY <1>1, <1>3, <1>7, <1>9 DEF GrowLast
  <2>5. PICK b \in Base..Limit : b = brk + g /\ b >= brk /\ b \in Nat
    BY <1>4, <1>6, <2>3
  <2> DEFINE more == [addr |-> brk, size |-> g]
             d == [addr |-> c.addr, size |-> c.size + g]
  <2>6. more.addr = brk /\ more.size = g
    OBVIOUS
  <2>7. more \in Chunks
    <3>1. g \in 1..(Limit - Base)
      BY <1>4, <1>6, <2>5
    <3>2. QED
      BY <1>4, <3>1 DEF Chunks
  <2>8. d = [addr |-> c.addr, size |-> c.size + more.size] /\ d.size = c.size + g
    OBVIOUS
  <2> HIDE DEF more, d
  <2>9. chunk_end(more) = b
    BY <2>5, <2>6 DEF chunk_end
  <2>10. Fits(more, b) /\ Fits(c, b)
    <3>1. Fits(more, b)
      BY <1>6, <2>3, <2>5, <2>6, <2>9 DEF Fits, MINSIZE
    <3>2. b \in brk..Limit
      BY <1>4, <2>5
    <3>3. QED
      BY <1>4, <1>6, <3>1, <3>2, FitsLater
  <2>11. /\ [c EXCEPT !.size = @ + more.size] = d /\ d \in Chunks /\ Fits(d, b)
         /\ \A w : w \in Words(d) <=> w \in Words(c) \/ w \in Words(more)
    <3>1. chunk_end(c) = more.addr /\ d = [addr |-> c.addr, size |-> c.size + more.size]
      BY <1>9, <2>3, <2>6, <2>8
    <3>2. c \in Chunks /\ more \in Chunks /\ Fits(c, b) /\ Fits(more, b)
      BY <1>6, <2>7, <2>10
    <3>3. [c EXCEPT !.size = @ + more.size] = d
      BY <3>1, <3>2 DEF Chunks
    <3>4. /\ d \in Chunks /\ Fits(d, b)
          /\ \A w : w \in Words(d) <=> w \in Words(c) \/ w \in Words(more)
      BY <3>1, <3>2, JoinedIs
    <3>5. QED
      BY <3>3, <3>4
  <2>12. \A w : w \in Words(more) <=> w \in Int /\ brk <= w /\ w < b
    BY <2>6, <2>7, <2>9, WordsAre
  <2>13. /\ freeList' = Front(list) /\ live' = live \cup {d} /\ refused' = 0
         /\ brk' = b /\ __malloc_sbrk_top' = b /\ libc' = libc
    BY <2>3, <2>4, <2>5, <2>6, <2>11
  <2>14. Taken(list, Front(list), c, brk)
    <3>1. /\ Front(list) \in Seq(Chunks) /\ Len(Front(list)) = m - 1 /\ m \in 1..m
          /\ \A k \in 1..(m - 1) : Front(list)[k] = list[k]
          /\ c = list[m]
      BY <1>1, <1>2, <1>3, FrontIs
    <3>2. \A k \in 1..(m - 1) : ~(k >= m)
      BY <1>2
    <3>3. Taken(list, Front(list), list[m], brk)
      BY <1>2, <1>4, <3>1, <3>2, WithoutIs
    <3>4. QED
      BY <3>1, <3>3
  <2>15. LibcGrows /\ LeavesPadding(Words(d))
    <3>1. b \in brk..Limit
      BY <1>4, <2>5
    <3>2. \A w \in libc' : w \in Int /\ w < b /\ w \in libc
      BY <1>4, <2>5, <2>13
    <3>3. QED
      BY <2>11, <2>12, <2>13, <3>1, <3>2 DEF LibcGrows, LeavesPadding
  <2>16. \A w \in Words(d) : w \in ListWords(freeList) \/ (w >= brk /\ w \notin libc')
    <3>1. \A w \in Words(c) : w \in ListWords(freeList)
      BY <1>1, <2>14 DEF Taken
    <3>2. \A w \in Words(more) : w >= brk /\ w \notin libc'
      BY <1>4, <2>12, <2>13
    <3>3. QED
      BY <2>11, <3>1, <3>2
  <2>17. \A w \in ListWords(freeList') : w \in ListWords(freeList) /\ w \notin Words(d)
    <3>1. \A w \in ListWords(freeList) : w \in Int /\ w < brk
      BY BelowBreak
    <3>2. \A w \in Words(more) : w \in Int /\ w >= brk
      BY <2>12
    <3>3. \A w \in ListWords(freeList') : w \in ListWords(freeList) /\ w \notin Words(c)
      BY <1>1, <2>13, <2>14 DEF Taken
    <3>4. QED
      BY <1>4, <2>11, <3>1, <3>2, <3>3
  <2>18. \A w \in ListWords(freeList) : w \in ListWords(freeList') \/ w \in Words(d)
    BY <1>1, <2>11, <2>13, <2>14 DEF Taken
  <2>19. Listed(freeList', brk') /\ Fits(d, brk')
    <3>1. Listed(freeList', brk) /\ b \in brk..Limit
      BY <1>4, <2>5, <2>13, <2>14 DEF Taken
    <3>2. Listed(freeList', b)
      BY <1>4, <3>1, FitsLater
    <3>3. QED
      BY <2>11, <2>13, <3>2
  <2>20. d.size >= n + HEAD
    BY <1>5, <1>6, <2>8
  <2>21. QED
    BY <2>11, <2>13, <2>15, <2>16, <2>17, <2>18, <2>19, <2>20, HandOutStep DEF Served
<1>10. CASE got.addr # chunk_end(c)
  <2>1. /\ libc' = IF got.addr = Null THEN libc ELSE libc \cup (got.addr .. (got.addr + g - 1))
        /\ FromSbrk(sbrk_aligned(got.brk, got.top, need), need)
    BY <1>1, <1>3, <1>7, <1>10 DEF GrowLast
  <2>2. CASE got.addr = Null
    <3>1. got.brk \in brk..Limit /\ (got.brk = brk \/ got.brk = Limit)
      BY <1>4, <1>8, <2>2
    <3>2. got.top \in {Null} \cup (Base..Limit)
      BY <1>4, <1>8, <2>2
    <3>3. libc \subseteq libc' /\ \A w \in libc' : w \in Int /\ w < got.brk /\ w \in libc
      BY <1>4, <2>1, <2>2, <3>1
    <3>4. got.brk < Limit => \A w \in Int : ~(brk <= w /\ w < got.brk)
      BY <1>4, <3>1
    <3>5. QED
      BY <2>1, <3>1, <3>2, <3>3, <3>4, SbrkStep
  <2>3. CASE got.addr # Null
    <3>1. PICK a : a = got.addr
      OBVIOUS
    <3>2. /\ (Aligned(brk) /\ a = brk) \/ (~Aligned(brk) /\ a = brk + 1)
          /\ got.brk = a + g /\ got.top = a + g /\ a + g <= Limit
      BY <1>8, <2>3, <3>1
    <3>3. a \in Nat /\ a >= brk /\ a <= brk + 1
      BY <1>4, <3>2
    <3>4. PICK e \in brk..Limit : e = a + g /\ e \in Nat /\ e \in Base..Limit
      BY <1>4, <1>6, <3>2, <3>3
    <3>5. \A w : w \in libc' <=> w \in libc \/ (w \in Int /\ a <= w /\ w < e)
      BY <1>6, <2>1, <2>3, <3>1, <3>3, <3>4
    <3>6. libc \subseteq libc' /\ \A w \in libc' : w \in Int /\ w < e /\ (w \in libc \/ w >= brk)
      BY <1>4, <3>3, <3>4, <3>5
    <3>7. ASSUME NEW w \in Int, brk <= w, w < e PROVE w \in libc' \/ ~Aligned(w)
      <4>1. CASE w >= a
        BY <3>5, <3>7, <4>1
      <4>2. CASE w < a
        BY <1>4, <3>2, <3>7, <4>2
      <4>3. QED
        BY <3>3, <4>1, <4>2
    <3>8. FromSbrk(sbrk_aligned(e, e, need), need)
      BY <2>1, <3>2, <3>4
    <3>9. QED
      BY <3>4, <3>6, <3>7, <3>8, SbrkStep
  <2>4. QED
    BY <2>2, <2>3
<1>11. QED
  BY <1>9, <1>10

\* The C library takes memory of its own.
LEMMA LibcStep ==
  ASSUME Parameters, IInv, NEW k \in LibcSizes, LibcSbrk(k)
  PROVE  IInv' /\ Promised!Take /\ UNCHANGED live
<1>1. /\ k \in Nat \ {0} /\ brk \in Base..Limit /\ brk \in Nat /\ Limit \in Nat /\ Base \in Nat
      /\ __malloc_sbrk_top \in {Null} \cup (Base..Limit)
      /\ \A w \in libc : w \in Int /\ w < brk
  BY DEF IInv, Bounds, Parameters
<1>2. PICK e \in brk..Limit : e = brk + k
  BY <1>1 DEF LibcSbrk
<1>3. /\ brk' = e /\ \A w : w \in libc' <=> w \in libc \/ (w \in Int /\ brk <= w /\ w < e)
  BY <1>1, <1>2 DEF LibcSbrk
<1>4. LibcGrows
  <2>1. \A w \in libc' : w \in Int /\ w < e /\ (w \in libc \/ w >= brk)
    BY <1>1, <1>2, <1>3
  <2>2. QED
    BY <1>2, <1>3, <2>1 DEF LibcGrows
<1>5. LeavesPadding({})
  BY <1>3 DEF LeavesPadding
<1>6. __malloc_sbrk_top' \in {Null} \cup (Base..Limit) /\ refused' \in Nat
  BY <1>1 DEF LibcSbrk
<1>7. UNCHANGED <<freeList, live>>
  BY DEF LibcSbrk
<1>8. QED
  BY <1>4, <1>5, <1>6, <1>7, KeepStep

\* A chunk is put back.
LEMMA FreeStep ==
  ASSUME Parameters, IInv, NEW c \in live, shmem_free(c)
  PROVE  IInv' /\ Promised!Free(c)
<1>1. /\ live' = live \ {c} /\ freeList' = Insert(c) /\ refused' = 0
      /\ UNCHANGED <<brk, __malloc_sbrk_top, libc>>
  BY DEF shmem_free
<1>2. PICK list : list = freeList
  OBVIOUS
<1>3. /\ brk \in Base..Limit /\ Listed(list, brk) /\ c \in Chunks /\ Fits(c, brk)
  BY <1>2 DEF IInv, Bounds, LivePart
<1>4. \A w \in Words(c) : w \in WordsOf(live) /\ w \notin ListWords(list) /\ w \notin libc
  BY <1>2, LiveWordsIs DEF IInv, ApartPart
<1>5. Listed(freeList', brk) /\ ListWords(freeList') = ListWords(freeList) \cup Words(c)
  <2>1. Listed(Place(list, c), brk) /\ ListWords(Place(list, c)) = ListWords(list) \cup Words(c)
    BY <1>3, <1>4, PlaceKeeps
  <2>2. freeList' = Place(list, c)
    BY <1>1, <1>2, InsertIsPlace
  <2>3. QED
    BY <1>2, <2>1, <2>2
<1>6. \A w : w \in WordsOf(live') <=> w \in WordsOf(live) /\ w \notin Words(c)
  <2>1. \A d \in live : d # c => Words(d) \cap Words(c) = {}
    BY DEF IInv, LivePart
  <2>2. QED
    BY <1>1, <2>1, LiveWordsIs
<1>7. Bounds'
  BY <1>1 DEF IInv, Bounds
<1>8. LivePart'
  BY <1>1 DEF IInv, LivePart, Fits
<1>9. ApartPart'
  <2>1. ListWords(freeList') \cap WordsOf(live') = {}
    BY <1>5, <1>6 DEF IInv, ApartPart
  <2>2. libc' \cap ListWords(freeList') = {}
    BY <1>1, <1>4, <1>5 DEF IInv, ApartPart
  <2>3. libc' \cap WordsOf(live') = {}
    BY <1>1, <1>6 DEF IInv, ApartPart
  <2>4. QED
    BY <2>1, <2>2, <2>3 DEF ApartPart
<1>10. PaddingPart'
  BY <1>1, <1>5, <1>6 DEF IInv, PaddingPart
<1>11. Listed(freeList, brk)'
  BY <1>1, <1>5
<1>12. QED
  BY <1>1, <1>7, <1>8, <1>9, <1>10, <1>11 DEF IInv, Promised!Free

\* One step of the allocator, and what it means for the abstract one.
LEMMA NextStep ==
  ASSUME Parameters, IInv, Next
  PROVE  IInv' /\ Promised!Next
<1>1. ASSUME NEW n \in Requests, shmem_malloc(n) PROVE IInv' /\ Served(n)
  <2> DEFINE need == chunk_size(n)
  <2>1. n \in Nat
    BY DEF Parameters
  <2>2. need = chunk_size(n)
    OBVIOUS
  <2>3. \/ FirstFit(need)
        \/ /\ \A i \in 1..Len(freeList) : freeList[i].size < need
           /\ AtTop /\ GrowLast(need)
        \/ /\ FromSbrk(sbrk_aligned(brk, __malloc_sbrk_top, need), need)
           /\ UNCHANGED libc
    BY <1>1 DEF shmem_malloc
  <2> HIDE DEF need
  <2>4. CASE FirstFit(need)
    BY <2>1, <2>2, <2>4, FirstFitStep
  <2>5. CASE AtTop /\ GrowLast(need) /\ \A i \in 1..Len(freeList) : freeList[i].size < need
    <3>1. Last(freeList).size < need
      <4>1. freeList \in Seq(Chunks) /\ freeList # <<>>
        BY <2>5 DEF IInv, Listed, AtTop
      <4>2. Last(freeList) = freeList[Len(freeList)] /\ Len(freeList) \in 1..Len(freeList)
        BY <4>1, FrontIs
      <4>3. QED
        BY <2>5, <4>2
    <3>2. QED
      BY <2>1, <2>2, <2>5, <3>1, GrowLastStep
  <2>6. CASE /\ FromSbrk(sbrk_aligned(brk, __malloc_sbrk_top, need), need)
             /\ UNCHANGED libc
    BY <2>1, <2>2, <2>6, FromSbrkStep
  <2>7. QED
    BY <2>3, <2>4, <2>5, <2>6
<1>2. ASSUME NEW c \in live, shmem_free(c) PROVE IInv' /\ Promised!Free(c)
  BY <1>2, FreeStep
<1>3. ASSUME NEW k \in LibcSizes, LibcSbrk(k) PROVE IInv' /\ Promised!Take /\ UNCHANGED live
  BY <1>3, LibcStep
<1>4. QED
  BY <1>1, <1>2, <1>3 DEF Next, Served, Promised!Next

LEMMA InitIInv == ASSUME Parameters, Init PROVE IInv /\ Promised!Init
<1>1. ListWords(freeList) = {} /\ WordsOf(live) = {}
  BY DEF Init, ListWords, WordsOf
<1>2. Listed(freeList, brk)
  BY DEF Init, Listed
<1>3. Bounds
  BY DEF Init, Bounds, Parameters
<1>4. LivePart
  BY DEF Init, LivePart
<1>5. ApartPart
  BY <1>1 DEF Init, ApartPart
<1>6. PaddingPart
  BY DEF Init, PaddingPart, Parameters
<1>7. QED
  BY <1>2, <1>3, <1>4, <1>5, <1>6 DEF IInv, Init, Promised!Init

LEMMA StutterIInv == ASSUME IInv, UNCHANGED vars PROVE IInv' /\ UNCHANGED <<live, libc>>
<1>1. Bounds' /\ LivePart' /\ ApartPart' /\ PaddingPart' /\ Listed(freeList, brk)'
  BY DEF vars, IInv, Bounds, LivePart, ApartPart, PaddingPart, Listed, Fits, ListWords, WordsOf
<1>2. QED
  BY <1>1 DEF IInv, vars

\* What the invariant says of the properties.
LEMMA IInvMeans ==
  ASSUME Parameters, IInv
  PROVE  TypeOK /\ FreeListCoalesced /\ LostOnlyWhenFull
<1>1. /\ brk \in Base..Limit /\ brk \in Nat /\ Limit \in Nat /\ Base \in Nat
      /\ \A w \in libc : w \in Int /\ Base <= w /\ w < brk
  BY DEF IInv, Bounds, Parameters
<1>2. TypeOK
  <2>1. libc \subseteq Base .. (Limit - 1)
    BY <1>1
  <2>2. QED
    BY <2>1 DEF TypeOK, IInv, Bounds, Listed
<1>3. PICK n \in Nat : n = Len(freeList)
  BY LenProperties DEF IInv, Listed
<1>4. FreeListCoalesced
  <2>1. \A i \in 1..(n - 1) : i \in 1..n /\ i + 1 \in 1..n /\ i < i + 1
    OBVIOUS
  <2>2. \A i \in 1..(n - 1) : chunk_end(freeList[i]) < freeList[i + 1].addr
    BY <1>3, <2>1 DEF IInv, Listed
  <2>3. \A c \in Free : Aligned(c.addr) /\ c.size >= MINSIZE /\ chunk_end(c) <= brk
    BY DEF Free, IInv, Listed, Fits
  <2>4. QED
    BY <1>3, <2>2, <2>3 DEF FreeListCoalesced
<1>5. \A w : w \in WordsOf(Free \cup live) <=> w \in ListWords(freeList) \/ w \in WordsOf(live)
  BY DEF WordsOf, Free, ListWords
<1>6. LostOnlyWhenFull
  <2> DEFINE lost == (Base .. (brk - 1)) \ (WordsOf(Free \cup live) \cup libc)
  <2>1. SUFFICES ASSUME brk < Limit, NEW w \in lost PROVE ~Aligned(w) /\ w + 1 \notin lost
    BY DEF LostOnlyWhenFull
  <2>2. \A x \in lost : x \in Int /\ ~Aligned(x)
    <3>1. ASSUME NEW x \in lost PROVE x \in Int /\ ~Aligned(x)
      <4>1. x \in Int /\ Base <= x /\ x < brk
        BY <1>1
      <4>2. x \notin ListWords(freeList) /\ x \notin WordsOf(live) /\ x \notin libc
        BY <1>5
      <4>3. QED
        BY <2>1, <4>1, <4>2 DEF IInv, PaddingPart
    <3>2. QED
      BY <3>1
  <2>3. w \in Int /\ ~Aligned(w)
    BY <2>2
  <2> HIDE DEF lost
  <2>4. Aligned(w + 1)
    BY <2>3 DEF Aligned, HEAD, CHUNK_ALIGN
  <2>5. QED
    BY <2>2, <2>3, <2>4
<1>7. QED
  BY <1>2, <1>4, <1>6

-----------------------------------------------------------------------------
(* NULL is only answered when nothing would fit                            *)

\* NullOnlyWhenFull, of one step.
NullStep ==
  refused' # 0 =>
    /\ \A c \in Free : c.size < refused'
    /\ IF AtTop /\ brk = __malloc_sbrk_top
       THEN Last(freeList).size + (Limit - brk) < refused'
       ELSE Limit - brk < refused' + (IF Aligned(brk) THEN 0 ELSE 1) + Cardinality(libc' \ libc)

\* What remains above b when sbrk_aligned fails there.
LEMMA NoRoom ==
  ASSUME Parameters, NEW b \in Base..Limit, NEW top, NEW s \in Nat, s >= 2, s % CHUNK_ALIGN = 0,
         sbrk_aligned(b, top, s).addr = Null
  PROVE  Limit - b < s + (IF Aligned(b) THEN 0 ELSE 1)
<1>1. \/ b + s > Limit
      \/ b + s = Limit /\ ~Aligned(b)
  BY SbrkIs
<1>2. QED
  BY <1>1 DEF Parameters

LEMMA NullIsFull ==
  ASSUME Parameters, IInv, Next
  PROVE  NullStep
<1> SUFFICES ASSUME refused' # 0 PROVE NullStep
  BY DEF NullStep
<1>1. PICK n \in Requests : shmem_malloc(n)
  BY DEF Next, shmem_free, LibcSbrk
<1>2. PICK need : need = chunk_size(n)
  OBVIOUS
<1>3. n \in Nat /\ need \in Nat /\ need >= 2 /\ need % CHUNK_ALIGN = 0
  BY <1>2, NeedIs DEF Parameters
<1>4. /\ \A i \in 1..Len(freeList) : freeList[i].size < need
      /\ \/ AtTop /\ GrowLast(need)
         \/ /\ ~AtTop
            /\ FromSbrk(sbrk_aligned(brk, __malloc_sbrk_top, need), need)
            /\ UNCHANGED libc
  BY <1>1, <1>2 DEF shmem_malloc, FirstFit
<1>5. brk \in Base..Limit /\ brk \in Nat /\ Limit \in Nat /\ \A w \in libc : w \in Int /\ w < brk
  BY DEF IInv, Bounds, Parameters
<1>6. \A c \in Free : c.size < need
  BY <1>4 DEF Free
<1>7. CASE ~AtTop
  <2>1. /\ refused' = need /\ sbrk_aligned(brk, __malloc_sbrk_top, need).addr = Null
        /\ libc' \ libc = {}
    BY <1>4, <1>7 DEF FromSbrk
  <2>2. Limit - brk < need + (IF Aligned(brk) THEN 0 ELSE 1)
    BY <1>3, <1>5, <2>1, NoRoom
  <2>3. Cardinality(libc' \ libc) = 0
    BY <2>1, FS_EmptySet
  <2>4. Limit - brk < refused' + (IF Aligned(brk) THEN 0 ELSE 1) + Cardinality(libc' \ libc)
    BY <1>3, <1>5, <2>1, <2>2, <2>3
  <2>5. QED
    BY <1>6, <1>7, <2>1, <2>4 DEF NullStep
<1>8. CASE AtTop
  <2> DEFINE c == Last(freeList)
             g == GrowSize(need)
             got == sbrk_aligned(brk, __malloc_sbrk_top, g)
  <2>1. freeList \in Seq(Chunks) /\ freeList # <<>> /\ chunk_end(c) = __malloc_sbrk_top
    BY <1>8 DEF AtTop, IInv, Listed
  <2>2. c.size < need
    BY <1>4, <2>1, FrontIs
  <2>3. /\ c \in Chunks /\ Fits(c, brk) /\ c.size \in Nat /\ g = need - c.size
        /\ g \in Nat /\ g >= 2 /\ g % CHUNK_ALIGN = 0 /\ g <= need
    <3>1. /\ c \in Chunks /\ Fits(c, brk) /\ c.size \in Nat /\ g = need - c.size
          /\ g \in Nat /\ g >= 2 /\ g % CHUNK_ALIGN = 0
      BY <1>3, <2>1, <2>2, MissingIs
    <3>2. QED
      BY <1>3, <3>1
  <2>4. /\ got.addr # chunk_end(c)
        /\ libc' = IF got.addr = Null THEN libc ELSE libc \cup (got.addr .. (got.addr + g - 1))
        /\ FromSbrk(sbrk_aligned(got.brk, got.top, need), need)
    BY <1>4, <1>8 DEF GrowLast
  <2>5. got = sbrk_aligned(brk, __malloc_sbrk_top, g)
    OBVIOUS
  <2>6. refused' = need /\ sbrk_aligned(got.brk, got.top, need).addr = Null
    BY <2>4 DEF FromSbrk
  <2>7. /\ c.addr \in Nat /\ chunk_end(c) = c.addr + c.size /\ chunk_end(c) \in Nat
        /\ Aligned(chunk_end(c))
    <3>1. c.addr \in Nat /\ chunk_end(c) = c.addr + c.size /\ chunk_end(c) \in Nat
      BY <2>3, WordsAre
    <3>2. Aligned(c.addr) /\ c.size % CHUNK_ALIGN = 0
      BY <2>3 DEF Fits
    <3>3. PICK x \in Nat, s \in Nat : x = c.addr /\ s = c.size
      BY <2>3, <3>1
    <3>4. Aligned(x) /\ s % CHUNK_ALIGN = 0 /\ chunk_end(c) = x + s
      BY <3>1, <3>2, <3>3
    <3>5. Aligned(x + s)
      BY <3>4, Even
    <3>6. QED
      BY <3>1, <3>4, <3>5
  <2> HIDE DEF c, g, got
  <2>8. CASE brk = __malloc_sbrk_top
    <3>1. Aligned(brk) /\ brk = chunk_end(c)
      BY <2>1, <2>7, <2>8
    <3>2. got.addr = Null /\ brk + g > Limit
      BY <1>5, <2>3, <2>4, <2>5, <3>1, SbrkIs
    <3>3. c.size + (Limit - brk) < need
      BY <1>3, <1>5, <2>3, <3>2
    <3>4. Last(freeList).size + (Limit - brk) < refused'
      BY <2>6, <3>3 DEF c
    <3>5. QED
      BY <1>6, <1>8, <2>6, <2>8, <3>4 DEF NullStep
  <2>9. CASE brk # __malloc_sbrk_top
    <3>1. Limit - brk < need + (IF Aligned(brk) THEN 0 ELSE 1) + Cardinality(libc' \ libc)
      <4>1. CASE got.addr = Null
        <5>1. Limit - brk < g + (IF Aligned(brk) THEN 0 ELSE 1)
          BY <1>5, <2>3, <2>5, <4>1, NoRoom
        <5>2. Cardinality(libc' \ libc) = 0
          <6>1. libc' \ libc = {}
            BY <2>4, <4>1
          <6>2. QED
            BY <6>1, FS_EmptySet
        <5>3. QED
          BY <1>3, <1>5, <2>3, <5>1, <5>2
      <4>2. CASE got.addr # Null
        <5>1. PICK a : a = got.addr
          OBVIOUS
        <5>2. /\ a = IF Aligned(brk) THEN brk ELSE brk + 1
              /\ got.brk = a + g /\ a + g <= Limit /\ Aligned(a + g)
          BY <1>5, <2>3, <2>5, <4>2, <5>1, SbrkIs
        <5>3. a \in Nat /\ a >= brk /\ a - brk = (IF Aligned(brk) THEN 0 ELSE 1)
          BY <1>5, <5>2
        <5>4. PICK e \in Base..Limit : e = a + g /\ e \in Nat
          BY <1>5, <2>3, <5>2, <5>3 DEF Parameters
        <5>5. Limit - e < need
          <6>1. sbrk_aligned(e, got.top, need).addr = Null /\ Aligned(e)
            BY <2>6, <5>2, <5>4
          <6>2. QED
            BY <1>3, <6>1, NoRoom
        <5>6. Cardinality(libc' \ libc) = g
          <6>1. libc' \ libc = a .. (a + g - 1)
            BY <1>5, <2>3, <2>4, <4>2, <5>1, <5>3
          <6>2. PICK z \in Int : z = a + g - 1
            BY <2>3, <5>3
          <6>3. Cardinality(a .. z) = IF a > z THEN 0 ELSE z - a + 1
            BY <5>3, FS_Interval
          <6>4. ~(a > z) /\ z - a + 1 = g
            BY <2>3, <5>3, <6>2
          <6>5. QED
            BY <6>1, <6>2, <6>3, <6>4
        <5>7. QED
          BY <1>3, <1>5, <2>3, <5>3, <5>4, <5>5, <5>6
      <4>3. QED
        BY <4>1, <4>2
    <3>2. QED
      BY <1>6, <2>6, <2>9, <3>1 DEF NullStep
  <2>10. QED
    BY <2>8, <2>9
<1>9. QED
  BY <1>7, <1>8

-----------------------------------------------------------------------------
(* Theorems                                                                *)

\* The invariant holds, for every heap, size asked for and increment of the C library.
THEOREM InvariantHolds == ASSUME Parameters PROVE Spec => []IInv
<1>1. Init => IInv
  BY InitIInv
<1>2. IInv /\ [Next]_vars => IInv'
  BY NextStep, StutterIInv
<1>3. QED
  BY <1>1, <1>2, PTL DEF Spec

\* The variables keep their types; every chunk lies inside the heap.
THEOREM TypeCorrect == ASSUME Parameters PROVE Spec => []TypeOK
<1>1. IInv => TypeOK
  BY IInvMeans
<1>2. QED
  BY <1>1, InvariantHolds, PTL

\* shmem_malloc and shmem_free keep the free list sorted, merged and aligned.
THEOREM ListStaysCoalesced == ASSUME Parameters PROVE Spec => []FreeListCoalesced
<1>1. IInv => FreeListCoalesced
  BY IInvMeans
<1>2. QED
  BY <1>1, InvariantHolds, PTL

\* No word is lost, padding apart, while there is memory above the break.
THEOREM NothingLost == ASSUME Parameters PROVE Spec => []LostOnlyWhenFull
<1>1. IInv => LostOnlyWhenFull
  BY IInvMeans
<1>2. QED
  BY <1>1, InvariantHolds, PTL

\* shmem_malloc answers NULL only when neither the free list nor the memory
\* above the break, with the last free chunk where it can grow, is enough.
THEOREM NullMeansFull == ASSUME Parameters PROVE Spec => NullOnlyWhenFull
<1>1. IInv /\ [Next]_vars => [NullStep]_vars
  BY NullIsFull
<1>2. QED
  BY <1>1, InvariantHolds, PTL DEF Spec, NullOnlyWhenFull, NullStep

\* shmem.c implements the allocator that hands out disjoint blocks of the heap.
THEOREM ShmemIsAllocator == ASSUME Parameters PROVE Spec => ImplementsAllocator
<1>1. Init => Promised!Init
  BY InitIInv
<1>2. IInv /\ [Next]_vars => [Promised!Next]_<<live, libc>>
  BY NextStep, StutterIInv
<1>3. QED
  BY <1>1, <1>2, InvariantHolds, PTL DEF Spec, ImplementsAllocator, Promised!Spec
=============================================================================
