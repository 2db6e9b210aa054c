------------------------------- MODULE MCCowVm -------------------------------
(* Instances of CowVm for TLC. *)
EXTENDS CowVmInvariant, TLC

CONSTANTS p1, p2, p3, NPages

(* Pages are numbers; taking the lowest free one is a choice of names only. *)
MCPage == 1 .. NPages
MCCandidates(F) == {g \in F : \A h \in F : g <= h}

(* One level-0 page table serves the whole of a small address space. *)
OneTable(v) == 0

(* Pages so far apart that each needs a page table of its own: walk() has   *)
(* to allocate, and may fail, in the middle of uvmcopy() and uvmalloc().   *)
TablePerPage(v) == v

(* Pages 1.. in the order trapframe, root, page tables, memory. *)
MCBootPage ==
    [s \in InitSlot |->
        CASE s[2] = Trapframe -> 1
          [] s[2] = Root -> 2
          [] s[2][1] = "table" -> 3 + s[2][2]
          [] OTHER -> 3 + MaxVA + s[2][2]]

(***************************************************************************)
(* A state up to the names of its pages: which slots share a page, with    *)
(* what count and content, and how many pages are free.                    *)
(***************************************************************************)
UpToPageNames ==
    <<[s \in Slot |->
         IF slot[s] \in Page
         THEN <<refarray[slot[s]], content[slot[s]], slot[s] \in freelist,
                {t \in Slot : slot[t] = slot[s]}>>
         ELSE <<>>],
      Cardinality(freelist), writable, cow, user, table, wait_lock,
      pc, locals, todo, at,
      kmem = kmem /\ slot = slot (* has TLC normalise what the view hides *)>>

NoGuard == {}

(* The guard page exec() puts below the stack; the stack is given back, so *)
(* that there is room for both kinds of page in two.                       *)
StackGuard == {1}
Symmetry == Permutations(Proc \ {InitProc})
=============================================================================
