------------------------------- MODULE Kalloc -------------------------------
(***************************************************************************)
(* The reference-counting physical page allocator of the copy-on-write     *)
(* kernel (kernel/kalloc.c).  A critical section of kmem.lock is one       *)
(* action.  The free list is a set: which free page kalloc() returns is    *)
(* not something its callers may rely on.                                  *)
(***************************************************************************)
EXTENDS Integers, FiniteSets

CONSTANTS
    Page,           \* pages of physical memory between end and PHYSTOP
    Value,          \* what a page of user memory may hold, one datum a page
    Zero,           \* the value of a page that was memset to 0
    Junk,           \* the fill of kfree() (1) and of kalloc() (5)
    Candidates(_)   \* the pages kalloc() may return, given the free ones

ASSUME PageAssumption == IsFiniteSet(Page)
ASSUME ValueAssumption == Zero \in Value /\ Junk \notin Value
ASSUME CandidatesAssumption ==
    \A F \in SUBSET Page :
        /\ Candidates(F) \subseteq F
        /\ F # {} => Candidates(F) # {}

VARIABLES
    freelist,       \* kmem.freelist
    refarray,       \* kmem.refarray
    content         \* the bytes of every page

kmem == <<freelist, refarray, content>>

KallocTypeOK ==
    /\ freelist \in SUBSET Page
    /\ refarray \in [Page -> Int]
    /\ content \in [Page -> Value \cup {Junk}]

(***************************************************************************)
(* kinit(): freerange() hands every page to kfree(), whose decrement takes *)
(* the count from 0 to -1; the memset that follows clears PHYSTOP/4096     *)
(* bytes, which is a quarter of the array and none of the entries of RAM.  *)
(* used and data are the pages the first process owns and what they hold.  *)
(***************************************************************************)
KallocInit(used, data) ==
    /\ freelist = Page \ used
    /\ refarray = [g \in Page |-> IF g \in used THEN 1 ELSE -1]
    /\ content = [g \in Page |-> IF g \in used THEN data[g] ELSE Junk]

(* Mutant of Kalloc: counts the new reference instead of storing 1, which  *)
(* works for a page that was freed (0) but not for one from kinit() (-1).  *)
KallocCounts(g, fill) ==
    /\ g \in Candidates(freelist)
    /\ freelist' = freelist \ {g}
    /\ refarray' = [refarray EXCEPT ![g] = @ + 1]
    /\ content' = [content EXCEPT ![g] = fill]

(* kalloc() finds a page; fill is what the caller sees in it. *)
Kalloc(g, fill) ==
    /\ g \in Candidates(freelist)
    /\ freelist' = freelist \ {g}
    /\ refarray' = [refarray EXCEPT ![g] = 1]
    /\ content' = [content EXCEPT ![g] = fill]

(* kalloc() returns 0.  It also stores 1 in refarray[0], no page of RAM. *)
KallocFails ==
    /\ freelist = {}
    /\ UNCHANGED kmem

(* First critical section of kfree(): one reference less. *)
KfreeDec(g) ==
    /\ refarray' = [refarray EXCEPT ![g] = @ - 1]
    /\ UNCHANGED <<freelist, content>>

(* Mutant of StillReferenced: the last but one reference frees the page. *)
StillReferencedTwice(g) == refarray[g] - 1 > 1

(* kfree() returns early when the count it just stored is positive. *)
StillReferenced(g) == refarray[g] - 1 > 0

(* The junk fill and the second critical section of kfree(). *)
KfreePush(g) ==
    /\ freelist' = freelist \cup {g}
    /\ content' = [content EXCEPT ![g] = Junk]
    /\ UNCHANGED refarray

Incref(g) ==
    /\ refarray' = [refarray EXCEPT ![g] = @ + 1]
    /\ UNCHANGED <<freelist, content>>

Ref(g) == refarray[g]

(* A store into a page of memory: memmove() or a user instruction. *)
StorePage(g, x) ==
    /\ content' = [content EXCEPT ![g] = x]
    /\ UNCHANGED <<freelist, refarray>>
=============================================================================
