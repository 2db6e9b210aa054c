------------------------------- MODULE Malloc -------------------------------
(***************************************************************************)
(* The allocator of the malloc lab (mm.c): an implicit list of blocks with *)
(* boundary tags in a heap that mem_sbrk() extends, searched next-fit and  *)
(* coalesced at once.  Addresses and sizes count words of WSIZE bytes.     *)
(* One client calls it, so a call is a step; the client writes what it     *)
(* likes into its blocks, tags of blocks that do not exist included.       *)
(***************************************************************************)
EXTENDS Integers, Sequences, FiniteSetsExt, Functions

CONSTANTS
    MaxHeap,        \* MAX_HEAP of memlib.c
    Chunk,          \* CHUNKSIZE
    Requests,       \* sizes that are asked for, far below 2^32
    Data            \* the words clients write

Word == [size : Nat, alloc : {0, 1}]    \* a word, read as a tag

ASSUME MallocAssumption ==
    /\ Chunk \in Nat \ {0} /\ Requests \subseteq Nat \ {0}
    /\ MaxHeap \in Nat /\ MaxHeap >= 4 + Chunk + (Chunk % 2)
    /\ Data \subseteq Word

VARIABLES
    mem,            \* the words of the heap, tags and contents
    mem_brk,        \* the end of the heap
    pre_listp,      \* the block where the next search begins
    live            \* the blocks the client holds, with the size it asked for

vars == <<mem, mem_brk, pre_listp, live>>

NULL == 0           \* no block begins there
DSIZE == 2
OVERHEAD == 2
heap_listp == 2     \* the prologue

Addr == 0 .. MaxHeap - 1
Pack(size, alloc) == [size |-> size, alloc |-> alloc]

------------------------------------------------------------------------------
(* Reading and writing the tags of block bp in memory m. *)

HDRP(bp) == bp - 1
GetSize(m, bp) == m[HDRP(bp)].size
IsAlloc(m, bp) == m[HDRP(bp)].alloc = 1
FTRP(m, bp) == bp + GetSize(m, bp) - DSIZE
NextBlkp(m, bp) == bp + GetSize(m, bp)
PrevBlkp(m, bp) == bp - m[bp - DSIZE].size

Put(m, a, w) == [m EXCEPT ![a] = w]

(* Header and footer; the header's size tells where the footer is. *)
PutTags(m, bp, size, alloc) ==
    LET h == Put(m, HDRP(bp), Pack(size, alloc))
    IN  Put(h, FTRP(h, bp), Pack(size, alloc))

(* Mutant of Coalesce: the block before is left alone. *)
CoalesceNext(m, bp) ==
    LET next == NextBlkp(m, bp)
    IN  [mem |-> IF IsAlloc(m, next) THEN m
                 ELSE PutTags(m, bp, GetSize(m, bp) + GetSize(m, next), 0),
         bp |-> bp]

(* coalesce(), as the memory it leaves and the block it returns *)
Coalesce(m, bp) ==
    LET prev == PrevBlkp(m, bp)
        next == NextBlkp(m, bp)
        prev_alloc == m[FTRP(m, prev)].alloc = 1
        size == GetSize(m, bp)
        first == IF prev_alloc THEN bp ELSE prev
        merged == size + (IF prev_alloc THEN 0 ELSE GetSize(m, prev))
                       + (IF IsAlloc(m, next) THEN 0 ELSE GetSize(m, next))
    IN  [mem |-> IF merged = size THEN m ELSE PutTags(m, first, merged, 0),
         bp |-> first]

(* The headers lead from a block to the next: where n of them lead. *)
Walk(m, from) ==
    LET w[n \in 0 .. MaxHeap] == IF n = 0 THEN from ELSE NextBlkp(m, w[n - 1])
    IN  w

IsEpilogue(m, bp) == GetSize(m, bp) = 0 /\ IsAlloc(m, bp)

(* A remainder too small for a block of its own is not left over. *)
Fits(m, bp, asize) ==
    /\ ~IsAlloc(m, bp)
    /\ \/ GetSize(m, bp) = asize
       \/ GetSize(m, bp) >= asize + OVERHEAD

(* From block `from` on, up to the epilogue or to block `to`, the first    *)
(* that fits.                                                              *)
Search(m, from, to, asize) ==
    LET w == Walk(m, from)
        Ends(n) == w[n] = to \/ IsEpilogue(m, w[n])
        Stops(n) == Ends(n) \/ Fits(m, w[n], asize)
        first == CHOOSE n \in 0 .. MaxHeap :
                    Stops(n) /\ \A k \in 0 .. n - 1 : ~Stops(k)
    IN  IF Ends(first) THEN NULL ELSE w[first]

(* Mutant of FindFit: the search does not go round. *)
FindAfter(m, pre, asize) == Search(m, pre, NULL, asize)

(* find_fit(); it also leaves pre_listp at what it has found. *)
FindFit(m, pre, asize) ==
    LET after == Search(m, pre, NULL, asize)
    IN  IF after # NULL THEN after ELSE Search(m, heap_listp, pre, asize)

Place(m, bp, asize) ==
    LET size == GetSize(m, bp)
    IN  IF size >= asize + OVERHEAD
        THEN PutTags(PutTags(PutTags(m, bp, size, 1), bp, asize, 1),
                     bp + asize, size - asize, 0)
        ELSE PutTags(m, bp, size, 1)

(* extend_heap(), when mem_sbrk() has the room: the memory and the block *)
ExtendHeap(m, brk, size) ==
    LET h == PutTags(m, brk, size, 0)
    IN  Coalesce(Put(h, HDRP(NextBlkp(h, brk)), Pack(0, 1)), brk)

AdjustedSize(size) ==
    IF size <= DSIZE THEN DSIZE + OVERHEAD
    ELSE DSIZE * ((size + OVERHEAD + DSIZE - 1) \div DSIZE)

ExtendSize(asize) == LET words == Max({asize, Chunk}) IN words + (words % 2)

(* mm_malloc(size) in memory m that ends at brk: what it leaves, and the   *)
(* block it returns, or NULL.                                              *)
MmMalloc(m, brk, pre, size) ==
    LET asize == AdjustedSize(size)
        fit == FindFit(m, pre, asize)
        extra == ExtendSize(asize)
        x == ExtendHeap(m, brk, extra)
        refit == FindFit(x.mem, pre, asize)
    IN  IF fit # NULL
          THEN [mem |-> Place(m, fit, asize), brk |-> brk, pre |-> fit, bp |-> fit]
        ELSE IF brk + extra > MaxHeap
          THEN [mem |-> m, brk |-> brk, pre |-> pre, bp |-> NULL]
        ELSE IF refit # NULL
          THEN [mem |-> Place(x.mem, refit, asize), brk |-> brk + extra,
                pre |-> refit, bp |-> refit]
        ELSE [mem |-> x.mem, brk |-> brk + extra, pre |-> pre, bp |-> NULL]

(* Mutant of MmFree: the search is to go on behind the block. *)
FreeAndPass(m, ptr) ==
    LET c == Coalesce(PutTags(m, ptr, GetSize(m, ptr), 0), ptr)
    IN  [mem |-> c.mem, bp |-> NextBlkp(c.mem, c.bp)]

(* mm_free() *)
MmFree(m, ptr) == Coalesce(PutTags(m, ptr, GetSize(m, ptr), 0), ptr)

------------------------------------------------------------------------------
(* mm_init() *)
Init ==
    LET size == Chunk + (Chunk % 2)
        zero == [a \in Addr |-> Pack(0, 0)]
        prologue == Put(PutTags(zero, heap_listp, OVERHEAD, 1), HDRP(4), Pack(0, 1))
    IN  /\ mem = ExtendHeap(prologue, 4, size).mem
        /\ mem_brk = 4 + size
        /\ pre_listp = heap_listp
        /\ live = << >>

Malloc(size) ==
    LET r == MmMalloc(mem, mem_brk, pre_listp, size) IN
    /\ mem' = r.mem /\ mem_brk' = r.brk /\ pre_listp' = r.pre
    /\ live' = IF r.bp = NULL THEN live
               ELSE [a \in DOMAIN live \cup {r.bp} |->
                        IF a = r.bp THEN size ELSE live[a]]

(* Mutant of Free: pre_listp stays, in the middle of a block perhaps. *)
FreeKeepsPre(ptr) ==
    LET r == MmFree(mem, ptr) IN
    /\ mem' = r.mem
    /\ live' = Restrict(live, DOMAIN live \ {ptr})
    /\ UNCHANGED <<mem_brk, pre_listp>>

Free(ptr) ==
    LET r == MmFree(mem, ptr) IN
    /\ mem' = r.mem /\ pre_listp' = r.bp
    /\ live' = Restrict(live, DOMAIN live \ {ptr})
    /\ UNCHANGED mem_brk

(* memcpy() of mm_realloc(): GET_SIZE is the size with the tags. *)
Copy(m, new, old, size) ==
    LET copySize == Min({size, GetSize(m, old)})
    IN  [a \in Addr |-> IF a \in new .. new + copySize - 1
                        THEN m[old + (a - new)] ELSE m[a]]

(* Mutant of Realloc: the old block is freed before it is copied. *)
ReallocFreesFirst(ptr, size) ==
    LET f == MmFree(mem, ptr)
        r == MmMalloc(f.mem, mem_brk, f.bp, size)
    IN  /\ r.bp # NULL
        /\ mem' = Copy(r.mem, r.bp, ptr, size)
        /\ mem_brk' = r.brk /\ pre_listp' = r.pre
        /\ live' = [a \in (DOMAIN live \ {ptr}) \cup {r.bp} |->
                       IF a = r.bp THEN size ELSE live[a]]

Realloc(ptr, size) ==
    LET r == MmMalloc(mem, mem_brk, pre_listp, size)
        f == MmFree(Copy(r.mem, r.bp, ptr, size), ptr)
    IN  IF r.bp = NULL
        THEN /\ mem' = r.mem /\ mem_brk' = r.brk /\ pre_listp' = r.pre
             /\ UNCHANGED live
        ELSE /\ mem' = f.mem /\ mem_brk' = r.brk /\ pre_listp' = f.bp
             /\ live' = [a \in (DOMAIN live \ {ptr}) \cup {r.bp} |->
                            IF a = r.bp THEN size ELSE live[a]]

(* The client fills its block. *)
Write(ptr, w) ==
    /\ mem' = [a \in Addr |-> IF a \in ptr .. ptr + live[ptr] - 1
                              THEN w ELSE mem[a]]
    /\ UNCHANGED <<mem_brk, pre_listp, live>>

Next ==
    \/ \E size \in Requests : Malloc(size)
    \/ \E ptr \in DOMAIN live :
          \/ Free(ptr)
          \/ \E size \in Requests : Realloc(ptr, size)
          \/ \E w \in Data : Write(ptr, w)

Spec == Init /\ [][Next]_vars

------------------------------------------------------------------------------
TypeOK ==
    /\ mem \in [Addr -> Word]
    /\ mem_brk \in 0 .. MaxHeap /\ pre_listp \in Addr
    /\ DOMAIN live \subseteq Addr
    /\ \A a \in DOMAIN live : live[a] \in Requests

(* The blocks the headers lead to from the prologue, up to the epilogue or *)
(* to a header that cannot be one.                                         *)
Blocks ==
    LET w == Walk(mem, heap_listp)
        IsBlock(bp) == /\ bp < mem_brk /\ GetSize(mem, bp) >= OVERHEAD
                       /\ NextBlkp(mem, bp) <= mem_brk
        count == CHOOSE n \in 0 .. MaxHeap :
                    ~IsBlock(w[n]) /\ \A k \in 0 .. n - 1 : IsBlock(w[k])
    IN  {w[n] : n \in 0 .. count - 1}

FreeBlocks == {bp \in Blocks : ~IsAlloc(mem, bp)}

(* The tags cut the heap into blocks from prologue to epilogue; the blocks *)
(* in use are the prologue and what the client holds, no less than it has  *)
(* asked for; a block is free only between blocks in use; and the search   *)
(* starts at a block, although mm_free() may merge that block into another.*)
HeapIsBlocks ==
    /\ \E bp \in Blocks : NextBlkp(mem, bp) = mem_brk
    /\ mem[HDRP(mem_brk)] = Pack(0, 1)
    /\ \A bp \in Blocks : mem[FTRP(mem, bp)] = mem[HDRP(bp)]
    /\ Blocks \ FreeBlocks = {heap_listp} \cup DOMAIN live
    /\ \A a \in DOMAIN live : live[a] <= GetSize(mem, a) - OVERHEAD
    /\ \A bp \in FreeBlocks : NextBlkp(mem, bp) \notin FreeBlocks
    /\ pre_listp \in Blocks

(* Next-fit finds a block if there is one; the heap grows only if there is *)
(* none, and mm_malloc() fails only if the heap cannot grow.               *)
MallocFails(size) == MmMalloc(mem, mem_brk, pre_listp, size).bp = NULL
MallocGrows(size) == MmMalloc(mem, mem_brk, pre_listp, size).brk # mem_brk

GrowsOnlyWhenFull ==
    \A size \in Requests :
        MallocFails(size) \/ MallocGrows(size) =>
            /\ \A bp \in FreeBlocks : GetSize(mem, bp) < size + OVERHEAD
            /\ MallocFails(size) =>
                  mem_brk + Max({AdjustedSize(size), Chunk}) > MaxHeap

(* The client's view of the heap. *)
Abstract == INSTANCE Allocator WITH
    Arena <- Addr, Align <- DSIZE,
    store <- [a \in DOMAIN live |-> [i \in 1 .. live[a] |-> mem[a + i - 1]]]

AllocatorSpec == Abstract!Spec
=============================================================================
