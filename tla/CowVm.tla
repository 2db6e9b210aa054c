-------------------------------- MODULE CowVm --------------------------------
(***************************************************************************)
(* User memory of the copy-on-write kernel (MIT6.S081 Lab 5): the page     *)
(* tables of vm.c, the page-fault branch of usertrap() in trap.c and the   *)
(* system calls of proc.c that build, share, resize and tear down address  *)
(* spaces.  Every process runs its own kernel thread; threads interleave   *)
(* at the critical sections of kmem.lock and at stores to shared pages.    *)
(* Stores to a page table are private to the thread working on it and are  *)
(* merged with the critical section next to them.                          *)
(*                                                                         *)
(* A reference to a page is held in a slot <<p, k>>: a PTE of process p, a *)
(* page-table page, its trapframe, or the local variable (ka, pa, mem) in  *)
(* which p's kernel thread holds a page it has yet to map or to free.      *)
(***************************************************************************)
EXTENDS Kalloc

CONSTANTS
    Proc,           \* the slots of the process table
    InitProc,       \* initproc
    NoProc, NoPage, NoSlot,
    MaxVA,          \* bound: pages of user address space a process may have
    TableOf(_),     \* the page-table page that serves a user address, named
                    \* by the lowest address it serves
    InitSz,         \* pages of the first process once /init runs
    InitGuard,      \* its guard pages: exec() has cleared PTE_U
    BootPage        \* where its pages are

VA == 0 .. MaxVA - 1

Mem(v) == <<"mem", v>>
Table(t) == <<"table", t>>
Trapframe == <<"trapframe", 0>>
Root == <<"root", 0>>
Hand == <<"hand", 0>>

MemKey == {Mem(v) : v \in VA}
TableKey == {Table(v) : v \in VA}
Key == MemKey \cup TableKey \cup {Trapframe, Root, Hand}
Slot == Proc \X Key

InitSlot == {InitProc} \X
    ({Trapframe, Root} \cup {Mem(v) : v \in 0 .. InitSz - 1}
        \cup {Table(TableOf(v)) : v \in 0 .. InitSz - 1})

ASSUME ProcAssumption ==
    /\ IsFiniteSet(Proc) /\ InitProc \in Proc /\ NoProc \notin Proc
    /\ NoPage \notin Page /\ NoSlot \notin Slot
ASSUME AddressAssumption ==
    /\ MaxVA \in Nat \ {0} /\ InitSz \in 0 .. MaxVA
    /\ InitGuard \subseteq 0 .. InitSz - 1
    /\ \A v \in VA : TableOf(v) \in VA
ASSUME BootAssumption ==
    /\ BootPage \in [InitSlot -> Page]
    /\ \A s, t \in InitSlot : BootPage[s] = BootPage[t] => s = t

VARIABLES
    slot,           \* the page a slot refers to, or NoPage
    writable,       \* the slots whose PTE has PTE_W
    cow,            \* the slots whose PTE has PTE_C
    user,           \* the slots whose PTE has PTE_U
    sz,             \* p->sz, in pages
    state,          \* p->state; RUNNABLE stands for RUNNING and SLEEPING too
    parent,         \* p->parent
    wait_lock,      \* the process that holds wait_lock, or NoProc
    pc,             \* where p's kernel thread is
    ret,            \* what it does after a page fault or a free loop
    tgt,            \* the process whose memory it works on (p or np)
    va,             \* the address at which its loop stands
    lim,            \* where that loop ends
    val,            \* what copyout() delivers
    todo,           \* slots still to be freed
    at              \* slot not counted: before incref(), or inside kfree()

pte == <<slot, writable, cow, user>>
table == <<sz, state, parent>>
locals == <<ret, tgt, va, lim, val>>
vars == <<kmem, pte, table, wait_lock, pc, locals, todo, at>>

PteTypeOK ==
    /\ slot \in [Slot -> Page \cup {NoPage}]
    /\ writable \in SUBSET Slot /\ cow \in SUBSET Slot /\ user \in SUBSET Slot

TableTypeOK ==
    /\ sz \in [Proc -> 0 .. MaxVA]
    /\ state \in [Proc -> {"UNUSED", "USED", "RUNNABLE", "ZOMBIE"}]
    /\ parent \in [Proc -> Proc \cup {NoProc}]
    /\ wait_lock \in Proc \cup {NoProc}

Location == {"off", "user", "exit", "ref", "own", "copyalloc", "copy", "copyout",
          "deliver", "free", "push", "root", "uvmcopy", "incref", "grow",
          "growmap"}

Reason == {"none", "fault", "copyout", "wait", "freeproc", "uncopy", "ungrow",
           "shrink"}

LocalsTypeOK ==
    /\ ret \in [Proc -> Reason]
    /\ tgt \in [Proc -> Proc]
    /\ va \in [Proc -> 0 .. MaxVA] /\ lim \in [Proc -> 0 .. MaxVA]
    /\ val \in [Proc -> Value]

ThreadTypeOK ==
    /\ pc \in [Proc -> Location]
    /\ LocalsTypeOK
    /\ todo \in [Proc -> SUBSET Slot]
    /\ at \in [Proc -> Slot \cup {NoSlot}]

(* Every variable has its type. *)
TypeOK == KallocTypeOK /\ PteTypeOK /\ TableTypeOK /\ ThreadTypeOK

(* userinit(), and the exec() of /init by the process it made. *)
Init ==
    /\ KallocInit({BootPage[s] : s \in InitSlot},
                  [g \in Page |-> IF \E v \in 0 .. InitSz - 1 :
                                       BootPage[<<InitProc, Mem(v)>>] = g
                                  THEN Zero ELSE Junk])
    /\ slot = [s \in Slot |-> IF s \in InitSlot THEN BootPage[s] ELSE NoPage]
    /\ writable = {<<InitProc, Mem(v)>> : v \in 0 .. InitSz - 1}
    /\ cow = {}
    /\ user = {<<InitProc, Mem(v)>> : v \in (0 .. InitSz - 1) \ InitGuard}
    /\ sz = [p \in Proc |-> IF p = InitProc THEN InitSz ELSE 0]
    /\ state = [p \in Proc |-> IF p = InitProc THEN "RUNNABLE" ELSE "UNUSED"]
    /\ parent = [p \in Proc |-> NoProc]
    /\ wait_lock = NoProc
    /\ pc = [p \in Proc |-> IF p = InitProc THEN "user" ELSE "off"]
    /\ ret = [p \in Proc |-> "none"]
    /\ tgt = [p \in Proc |-> p]
    /\ va = [p \in Proc |-> 0]
    /\ lim = [p \in Proc |-> 0]
    /\ val = [p \in Proc |-> Zero]
    /\ todo = [p \in Proc |-> {}]
    /\ at = [p \in Proc |-> NoSlot]

------------------------------------------------------------------------------
Goto(p, label) == pc' = [pc EXCEPT ![p] = label]

Locals(p, r, t, v, l, x) ==
    /\ ret' = [ret EXCEPT ![p] = r] /\ tgt' = [tgt EXCEPT ![p] = t]
    /\ va' = [va EXCEPT ![p] = v] /\ lim' = [lim EXCEPT ![p] = l]
    /\ val' = [val EXCEPT ![p] = x]

(* Back to user space; the locals of the system call are dead. *)
Return(p) == Goto(p, "user") /\ Locals(p, "none", p, 0, 0, Zero)

Mapped(s) == slot[s] # NoPage

(* walkpte(): the PTE of v if it is valid and accessible to the user. *)
UserPte(p, v) == Mapped(<<p, Mem(v)>>) /\ <<p, Mem(v)>> \in user

(* The slot of user address v, and those of the addresses in [a, b). *)
MemSlots(p, a, b) == {<<p, Mem(v)>> : v \in a .. b - 1}

(***************************************************************************)
(* User instructions and the page-fault branch of usertrap().              *)
(***************************************************************************)
UserStore(p) ==
    /\ pc[p] = "user"
    /\ \E v \in VA, x \in Value :
        /\ UserPte(p, v) /\ <<p, Mem(v)>> \in writable
        /\ StorePage(slot[<<p, Mem(v)>>], x)
    /\ UNCHANGED <<pte, table, wait_lock, pc, locals, todo, at>>

(* A store to a page mapped without PTE_W, which copy-on-write may permit. *)
CowFault(p) ==
    /\ pc[p] = "user"
    /\ \E v \in VA :
        /\ UserPte(p, v) /\ <<p, Mem(v)>> \notin writable
        /\ <<p, Mem(v)>> \in cow
        /\ Locals(p, "fault", p, v, 0, Zero)
    /\ Goto(p, "ref")
    /\ UNCHANGED <<kmem, pte, table, wait_lock, todo, at>>

(* A load or store elsewhere: p->killed = 1, and usertrap() calls exit(). *)
BadAccess(p) ==
    /\ pc[p] = "user"
    /\ \E v \in VA :
        \/ ~UserPte(p, v)
        \/ <<p, Mem(v)>> \notin writable \cup cow
    /\ Goto(p, "exit")
    /\ UNCHANGED <<kmem, pte, table, wait_lock, locals, todo, at>>

------------------------------------------------------------------------------
(***************************************************************************)
(* The copy-on-write resolution that usertrap() and copyout() share: ref() *)
(* under kmem.lock, then on what it returned either reuse the page or copy *)
(* it and drop the old one.                                                *)
(***************************************************************************)
Here(p) == <<p, Mem(va[p])>>

ReadRef(p) ==
    /\ pc[p] = "ref"
    /\ Goto(p, IF Ref(slot[Here(p)]) = 1 THEN "own" ELSE "copyalloc")
    /\ UNCHANGED <<kmem, pte, table, wait_lock, locals, todo, at>>

MakeWritable(p) ==
    /\ writable' = writable \cup {Here(p)}
    /\ cow' = cow \ {Here(p)}
    /\ UNCHANGED user

ReusePage(p) ==
    /\ pc[p] = "own"
    /\ MakeWritable(p)
    /\ IF ret[p] = "fault" THEN Return(p)
                           ELSE Goto(p, "deliver") /\ UNCHANGED locals
    /\ UNCHANGED <<kmem, slot, table, wait_lock, todo, at>>

AllocCopy(p) ==
    /\ pc[p] = "copyalloc"
    /\ \E g \in Page :
        /\ Kalloc(g, Junk)
        /\ slot' = [slot EXCEPT ![<<p, Hand>>] = g]
    /\ Goto(p, "copy")
    /\ UNCHANGED <<writable, cow, user, table, wait_lock, locals, todo, at>>

(* wait() gives up with -1 and keeps the zombie; copyout() returns -1. *)
Fail(p) ==
    /\ Return(p)
    /\ wait_lock' = IF ret[p] = "wait" THEN NoProc ELSE wait_lock

AllocCopyFails(p) ==
    /\ pc[p] = "copyalloc"
    /\ KallocFails
    /\ IF ret[p] = "fault"
       THEN Goto(p, "exit") /\ Locals(p, "none", p, 0, 0, Zero)
            /\ UNCHANGED wait_lock
       ELSE Fail(p)
    /\ UNCHANGED <<pte, table, todo, at>>

(* Mutant of CopyPage: maps the new page without the memmove(). *)
CopyPageUnfilled(p) ==
    /\ pc[p] = "copy"
    /\ slot' = [slot EXCEPT ![Here(p)] = slot[<<p, Hand>>],
                            ![<<p, Hand>>] = slot[Here(p)]]
    /\ MakeWritable(p)
    /\ todo' = [todo EXCEPT ![p] = {<<p, Hand>>}]
    /\ Goto(p, "free")
    /\ UNCHANGED <<kmem, table, wait_lock, locals, at>>

(* Mutant of CopyPage: does not kfree() the page it replaced. *)
CopyPageLeaks(p) ==
    /\ pc[p] = "copy"
    /\ StorePage(slot[<<p, Hand>>], content[slot[Here(p)]])
    /\ slot' = [slot EXCEPT ![Here(p)] = slot[<<p, Hand>>],
                            ![<<p, Hand>>] = slot[Here(p)]]
    /\ MakeWritable(p)
    /\ Goto(p, "free")
    /\ UNCHANGED <<table, wait_lock, locals, todo, at>>

CopyPage(p) ==
    /\ pc[p] = "copy"
    /\ StorePage(slot[<<p, Hand>>], content[slot[Here(p)]])
    /\ slot' = [slot EXCEPT ![Here(p)] = slot[<<p, Hand>>],
                            ![<<p, Hand>>] = slot[Here(p)]]
    /\ MakeWritable(p)
    /\ todo' = [todo EXCEPT ![p] = {<<p, Hand>>}]
    /\ Goto(p, "free")
    /\ UNCHANGED <<table, wait_lock, locals, at>>

------------------------------------------------------------------------------
(***************************************************************************)
(* copyout(): a system call stores x into the user pages [a, b), one page  *)
(* an iteration.  wait() delivers the exit status in the same way.         *)
(***************************************************************************)
Copyout(p) ==
    /\ pc[p] = "user"
    /\ \E a \in VA, x \in Value : \E b \in a + 1 .. MaxVA :
        Locals(p, "copyout", p, a, b, x)
    /\ Goto(p, "copyout")
    /\ UNCHANGED <<kmem, pte, table, wait_lock, todo, at>>

CopyoutPage(p) ==
    /\ pc[p] = "copyout"
    /\ va[p] < lim[p]
    /\ \/ /\ UserPte(p, va[p])
          /\ \/ Here(p) \in writable /\ Goto(p, "deliver")
             \/ Here(p) \in cow \ writable /\ Goto(p, "ref")
          /\ UNCHANGED <<wait_lock, locals>>
       \/ /\ ~UserPte(p, va[p]) \/ Here(p) \notin writable \cup cow
          /\ Fail(p)
    /\ UNCHANGED <<kmem, pte, table, todo, at>>

Deliver(p) ==
    /\ pc[p] = "deliver"
    /\ StorePage(slot[Here(p)], val[p])
    /\ va' = [va EXCEPT ![p] = @ + 1]
    /\ Goto(p, "copyout")
    /\ UNCHANGED <<pte, table, wait_lock, ret, tgt, lim, val, todo, at>>

CopyoutDone(p) ==
    /\ pc[p] = "copyout"
    /\ va[p] = lim[p]
    /\ ret[p] = "copyout"
    /\ Return(p)
    /\ UNCHANGED <<kmem, pte, table, wait_lock, todo, at>>

------------------------------------------------------------------------------
(***************************************************************************)
(* kfree() of every slot in todo, in the order of the code: a page in hand *)
(* first, then as freeproc() does it trapframe, memory upwards, page-table *)
(* pages and the root.                                                     *)
(***************************************************************************)
Rank(k) ==
    CASE k[1] = "hand"      -> 0
      [] k[1] = "trapframe" -> 1
      [] k[1] = "mem"       -> 2 + k[2]
      [] k[1] = "table"     -> 2 + MaxVA + k[2]
      [] k[1] = "root"      -> 2 + 2 * MaxVA

NextToFree(p, s) ==
    /\ s \in todo[p]
    /\ \A t \in todo[p] : Rank(s[2]) <= Rank(t[2])

(* The PTE, or the variable, is cleared after kfree() returned. *)
ClearSlot(p, s) ==
    /\ slot' = [slot EXCEPT ![s] = NoPage]
    /\ writable' = writable \ {s} /\ cow' = cow \ {s} /\ user' = user \ {s}
    /\ todo' = [todo EXCEPT ![p] = @ \ {s}]

DropReference(p) ==
    /\ pc[p] = "free"
    /\ \E s \in Slot :
        /\ NextToFree(p, s)
        /\ KfreeDec(slot[s])
        /\ IF StillReferenced(slot[s])
           THEN ClearSlot(p, s) /\ UNCHANGED <<pc, at>>
           ELSE /\ at' = [at EXCEPT ![p] = s]
                /\ Goto(p, "push")
                /\ UNCHANGED <<pte, todo>>
    /\ UNCHANGED <<table, wait_lock, locals>>

PushPage(p) ==
    /\ pc[p] = "push"
    /\ KfreePush(slot[at[p]])
    /\ ClearSlot(p, at[p])
    /\ at' = [at EXCEPT ![p] = NoSlot]
    /\ Goto(p, "free")
    /\ UNCHANGED <<table, wait_lock, locals>>

(* What freeproc(np) frees, given the pages uvmfree() is told to unmap. *)
ProcSlots(c, n) ==
    MemSlots(c, 0, n)
        \cup {<<c, k>> : k \in {q \in TableKey \cup {Trapframe, Root} :
                                  Mapped(<<c, q>>)}}

(* A copy-on-write fault is resolved, or copyout() goes on to store. *)
CopyDone(p) ==
    /\ pc[p] = "free" /\ todo[p] = {}
    /\ \/ ret[p] = "fault" /\ Return(p)
       \/ ret[p] \in {"copyout", "wait"} /\ Goto(p, "deliver")
            /\ UNCHANGED locals
    /\ UNCHANGED <<kmem, pte, table, wait_lock, todo, at>>

(* growproc(): p->sz is set after uvmdealloc(); not when uvmalloc() failed. *)
ResizeDone(p) ==
    /\ pc[p] = "free" /\ todo[p] = {}
    /\ \/ ret[p] = "shrink" /\ sz' = [sz EXCEPT ![p] = lim[p]]
       \/ ret[p] = "ungrow" /\ UNCHANGED sz
    /\ Return(p)
    /\ UNCHANGED <<kmem, pte, state, parent, wait_lock, todo, at>>

(* fork(): uvmcopy() undid its mappings, freeproc(np) finds np->sz = 0. *)
UncopyDone(p) ==
    /\ pc[p] = "free" /\ todo[p] = {} /\ ret[p] = "uncopy"
    /\ todo' = [todo EXCEPT ![p] = ProcSlots(tgt[p], 0)]
    /\ ret' = [ret EXCEPT ![p] = "freeproc"]
    /\ UNCHANGED <<kmem, pte, table, wait_lock, pc, tgt, va, lim, val, at>>

FreeprocDone(p) ==
    /\ pc[p] = "free" /\ todo[p] = {} /\ ret[p] = "freeproc"
    /\ sz' = [sz EXCEPT ![tgt[p]] = 0]
    /\ state' = [state EXCEPT ![tgt[p]] = "UNUSED"]
    /\ parent' = [parent EXCEPT ![tgt[p]] = NoProc]
    /\ wait_lock' = IF wait_lock = p THEN NoProc ELSE wait_lock
    /\ Return(p)
    /\ UNCHANGED <<kmem, pte, todo, at>>

------------------------------------------------------------------------------
(***************************************************************************)
(* fork(): allocproc(), uvmcopy(), publication of the child.               *)
(***************************************************************************)
Fork(p) ==
    /\ pc[p] = "user"
    /\ \E c \in Proc, g \in Page :
        /\ state[c] = "UNUSED"
        /\ Kalloc(g, Junk)
        /\ slot' = [slot EXCEPT ![<<c, Trapframe>>] = g]
        /\ state' = [state EXCEPT ![c] = "USED"]
        /\ Locals(p, "none", c, 0, 0, Zero)
    /\ Goto(p, "root")
    /\ UNCHANGED <<writable, cow, user, sz, parent, wait_lock, todo, at>>

(* proc_pagetable(); the page-table pages of the trampoline are one page   *)
(* with the root.                                                          *)
AllocRoot(p) ==
    /\ pc[p] = "root"
    /\ \/ /\ \E g \in Page :
              /\ Kalloc(g, Junk)
              /\ slot' = [slot EXCEPT ![<<tgt[p], Root>>] = g]
          /\ Goto(p, "uvmcopy")
          /\ UNCHANGED <<ret, todo>>
       \/ /\ KallocFails
          /\ Goto(p, "free")
          /\ ret' = [ret EXCEPT ![p] = "freeproc"]
          /\ todo' = [todo EXCEPT ![p] = ProcSlots(tgt[p], 0)]
          /\ UNCHANGED slot
    /\ UNCHANGED <<writable, cow, user, table, wait_lock, tgt, va, lim, val, at>>

(* walk(pagetable, va, 1) has the page-table page it needs. *)
TableSlot(p) == <<tgt[p], Table(TableOf(va[p]))>>
Walkable(p) == Mapped(TableSlot(p))

(* walk() allocates the missing page-table page. *)
WalkAlloc(p) ==
    /\ \/ pc[p] = "uvmcopy" /\ va[p] < sz[p]
       \/ pc[p] = "growmap"
    /\ ~Walkable(p)
    /\ \E g \in Page :
        /\ Kalloc(g, Junk)
        /\ slot' = [slot EXCEPT ![TableSlot(p)] = g]
    /\ UNCHANGED <<writable, cow, user, table, wait_lock, pc, locals, todo, at>>

Child(p) == <<tgt[p], Mem(va[p])>>

(* Mutant of ShareMapping: the parent's PTE keeps PTE_W. *)
ShareMappingWritable(p) ==
    /\ pc[p] = "uvmcopy" /\ va[p] < sz[p] /\ Walkable(p)
    /\ slot' = [slot EXCEPT ![Child(p)] = slot[Here(p)]]
    /\ writable' = writable \ {Child(p)}
    /\ cow' = cow \cup {Child(p), Here(p)}
    /\ user' = IF Here(p) \in user THEN user \cup {Child(p)} ELSE user
    /\ at' = [at EXCEPT ![p] = Child(p)]
    /\ Goto(p, "incref")
    /\ UNCHANGED <<kmem, table, wait_lock, locals, todo>>

(* One page of uvmcopy(): the child's PTE, then the parent's.  incref() is *)
(* yet to come.                                                            *)
ShareMapping(p) ==
    /\ pc[p] = "uvmcopy" /\ va[p] < sz[p] /\ Walkable(p)
    /\ slot' = [slot EXCEPT ![Child(p)] = slot[Here(p)]]
    /\ writable' = writable \ {Child(p), Here(p)}
    /\ cow' = cow \cup {Child(p), Here(p)}
    /\ user' = IF Here(p) \in user THEN user \cup {Child(p)} ELSE user
    /\ at' = [at EXCEPT ![p] = Child(p)]
    /\ Goto(p, "incref")
    /\ UNCHANGED <<kmem, table, wait_lock, locals, todo>>

CountMapping(p) ==
    /\ pc[p] = "incref"
    /\ Incref(slot[Here(p)])
    /\ at' = [at EXCEPT ![p] = NoSlot]
    /\ va' = [va EXCEPT ![p] = @ + 1]
    /\ Goto(p, "uvmcopy")
    /\ UNCHANGED <<pte, table, wait_lock, ret, tgt, lim, val, todo>>

(* Mutant of UvmcopyFails: unmaps the page that could not be mapped too. *)
UvmcopyFailsOneMore(p) ==
    /\ pc[p] = "uvmcopy" /\ va[p] < sz[p] /\ ~Walkable(p)
    /\ KallocFails
    /\ todo' = [todo EXCEPT ![p] = MemSlots(tgt[p], 0, va[p] + 1)]
    /\ ret' = [ret EXCEPT ![p] = "uncopy"]
    /\ Goto(p, "free")
    /\ UNCHANGED <<pte, table, wait_lock, tgt, va, lim, val, at>>

UvmcopyFails(p) ==
    /\ pc[p] = "uvmcopy" /\ va[p] < sz[p] /\ ~Walkable(p)
    /\ KallocFails
    /\ todo' = [todo EXCEPT ![p] = MemSlots(tgt[p], 0, va[p])]
    /\ ret' = [ret EXCEPT ![p] = "uncopy"]
    /\ Goto(p, "free")
    /\ UNCHANGED <<pte, table, wait_lock, tgt, va, lim, val, at>>

(* np->sz, np->parent under wait_lock, np->state.  Nobody looks at the     *)
(* child in between: its parent is here and its state is USED.             *)
ForkDone(p) ==
    /\ pc[p] = "uvmcopy" /\ va[p] = sz[p]
    /\ wait_lock = NoProc
    /\ sz' = [sz EXCEPT ![tgt[p]] = sz[p]]
    /\ parent' = [parent EXCEPT ![tgt[p]] = p]
    /\ state' = [state EXCEPT ![tgt[p]] = "RUNNABLE"]
    /\ pc' = [pc EXCEPT ![p] = "user", ![tgt[p]] = "user"]
    /\ Locals(p, "none", p, 0, 0, Zero)
    /\ UNCHANGED <<kmem, pte, wait_lock, todo, at>>

------------------------------------------------------------------------------
(***************************************************************************)
(* sbrk(): growproc(), uvmalloc(), uvmdealloc().                           *)
(***************************************************************************)
Grow(p) ==
    /\ pc[p] = "user"
    /\ \E n \in sz[p] + 1 .. MaxVA : Locals(p, "none", p, sz[p], n, Zero)
    /\ Goto(p, "grow")
    /\ UNCHANGED <<kmem, pte, table, wait_lock, todo, at>>

GrowAlloc(p) ==
    /\ pc[p] = "grow" /\ va[p] < lim[p]
    /\ \/ /\ \E g \in Page :
              /\ Kalloc(g, Zero)
              /\ slot' = [slot EXCEPT ![<<p, Hand>>] = g]
          /\ Goto(p, "growmap")
          /\ UNCHANGED <<ret, todo>>
       \/ /\ KallocFails
          /\ todo' = [todo EXCEPT ![p] = MemSlots(p, sz[p], va[p])]
          /\ ret' = [ret EXCEPT ![p] = "ungrow"]
          /\ Goto(p, "free")
          /\ UNCHANGED slot
    /\ UNCHANGED <<writable, cow, user, table, wait_lock, tgt, va, lim, val, at>>

GrowMap(p) ==
    /\ pc[p] = "growmap" /\ Walkable(p)
    /\ slot' = [slot EXCEPT ![Here(p)] = slot[<<p, Hand>>],
                            ![<<p, Hand>>] = NoPage]
    /\ writable' = writable \cup {Here(p)}
    /\ user' = user \cup {Here(p)}
    /\ va' = [va EXCEPT ![p] = @ + 1]
    /\ Goto(p, "grow")
    /\ UNCHANGED <<kmem, cow, table, wait_lock, ret, tgt, lim, val, todo, at>>

(* Mutant of GrowMapFails: forgets kfree(mem). *)
GrowMapFailsKeeps(p) ==
    /\ pc[p] = "growmap" /\ ~Walkable(p)
    /\ KallocFails
    /\ todo' = [todo EXCEPT ![p] = MemSlots(p, sz[p], va[p])]
    /\ ret' = [ret EXCEPT ![p] = "ungrow"]
    /\ Goto(p, "free")
    /\ UNCHANGED <<pte, table, wait_lock, tgt, va, lim, val, at>>

(* mappages() failed: kfree(mem), then uvmdealloc() of what was added. *)
GrowMapFails(p) ==
    /\ pc[p] = "growmap" /\ ~Walkable(p)
    /\ KallocFails
    /\ todo' = [todo EXCEPT ![p] =
                    {<<p, Hand>>} \cup MemSlots(p, sz[p], va[p])]
    /\ ret' = [ret EXCEPT ![p] = "ungrow"]
    /\ Goto(p, "free")
    /\ UNCHANGED <<pte, table, wait_lock, tgt, va, lim, val, at>>

GrowDone(p) ==
    /\ pc[p] = "grow" /\ va[p] = lim[p]
    /\ sz' = [sz EXCEPT ![p] = lim[p]]
    /\ Return(p)
    /\ UNCHANGED <<kmem, pte, state, parent, wait_lock, todo, at>>

Shrink(p) ==
    /\ pc[p] = "user"
    /\ \E n \in 0 .. sz[p] - 1 :
        /\ Locals(p, "shrink", p, n, n, Zero)
        /\ todo' = [todo EXCEPT ![p] = MemSlots(p, n, sz[p])]
    /\ Goto(p, "free")
    /\ UNCHANGED <<kmem, pte, table, wait_lock, at>>

------------------------------------------------------------------------------
(***************************************************************************)
(* exit() and wait().  A killed process calls exit() on its next trap, so  *)
(* exit() is enabled whenever its thread is in user space.                 *)
(***************************************************************************)
Exit(p) ==
    /\ pc[p] \in {"user", "exit"}
    /\ p # InitProc
    /\ wait_lock = NoProc
    /\ parent' = [q \in Proc |-> IF parent[q] = p THEN InitProc ELSE parent[q]]
    /\ state' = [state EXCEPT ![p] = "ZOMBIE"]
    /\ Goto(p, "off")
    /\ UNCHANGED <<kmem, pte, sz, wait_lock, locals, todo, at>>

(* wait() found a zombie: with addr = 0 it frees it at once. *)
Wait(p) ==
    /\ pc[p] = "user"
    /\ wait_lock = NoProc
    /\ wait_lock' = p
    /\ \E c \in Proc :
        /\ parent[c] = p /\ state[c] = "ZOMBIE"
        /\ \/ /\ Locals(p, "freeproc", c, 0, 0, Zero)
              /\ todo' = [todo EXCEPT ![p] = ProcSlots(c, sz[c])]
              /\ Goto(p, "free")
           \/ /\ \E a \in VA, x \in Value : Locals(p, "wait", c, a, a + 1, x)
              /\ Goto(p, "copyout")
              /\ UNCHANGED todo
    /\ UNCHANGED <<kmem, pte, table, at>>

(* The exit status is delivered; freeproc(np). *)
WaitReap(p) ==
    /\ pc[p] = "copyout" /\ va[p] = lim[p] /\ ret[p] = "wait"
    /\ ret' = [ret EXCEPT ![p] = "freeproc"]
    /\ todo' = [todo EXCEPT ![p] = ProcSlots(tgt[p], sz[tgt[p]])]
    /\ Goto(p, "free")
    /\ UNCHANGED <<kmem, pte, table, wait_lock, tgt, va, lim, val, at>>

------------------------------------------------------------------------------
UserStep(p) ==
    \/ UserStore(p) \/ CowFault(p) \/ BadAccess(p)
    \/ Copyout(p) \/ Fork(p) \/ Grow(p) \/ Shrink(p) \/ Wait(p) \/ Exit(p)

KernelStep(p) ==
    \/ ReadRef(p) \/ ReusePage(p) \/ AllocCopy(p) \/ AllocCopyFails(p)
    \/ CopyPage(p) \/ CopyoutPage(p) \/ Deliver(p) \/ CopyoutDone(p)
    \/ DropReference(p) \/ PushPage(p) \/ CopyDone(p) \/ ResizeDone(p)
    \/ UncopyDone(p) \/ FreeprocDone(p)
    \/ AllocRoot(p) \/ WalkAlloc(p) \/ ShareMapping(p) \/ CountMapping(p)
    \/ UvmcopyFails(p) \/ ForkDone(p)
    \/ GrowAlloc(p) \/ GrowMap(p) \/ GrowMapFails(p) \/ GrowDone(p)
    \/ WaitReap(p)

Next == \E p \in Proc : UserStep(p) \/ KernelStep(p)

Spec == Init /\ [][Next]_vars

------------------------------------------------------------------------------
(* The references to g that kmem.refarray is meant to count: a mapping     *)
(* whose incref() is still to come, and a slot whose kfree() has already   *)
(* decremented, are not among them.                                        *)
Refs(g) == {s \in Slot : slot[s] = g /\ \A p \in Proc : at[p] # s}

(* The reference count of an allocated page is the number of references to *)
(* it, whatever fork(), page faults, copyout(), sbrk() and wait() of other *)
(* processes do in between (kalloc.c: kfree, kalloc, incref).              *)
RefCountExact ==
    \A g \in Page \ freelist : refarray[g] = Cardinality(Refs(g))

(* No PTE, trapframe, page table or kernel variable refers to a page on    *)
(* the free list: no path frees a page that somebody still uses.           *)
NoUseAfterFree == \A s \in Slot : slot[s] \notin freelist

(* A page a process can write is seen by no other PTE and held by no other *)
(* thread: the two branches of the copy-on-write code that set PTE_W do so *)
(* only on a page nobody shares, although ref() was read earlier.          *)
WritableExclusive ==
    \A s \in writable, t \in Slot : slot[s] = slot[t] => s = t

(* Every page off the free list is held by a process that exists, and one  *)
(* that is in user space holds only the memory below its size, its         *)
(* trapframe and its page table: failed fork() and sbrk(), and faults that *)
(* run out of memory, give back all they took.                             *)
NoLeak ==
    \A g \in Page \ freelist :
        \E s \in Slot :
            /\ slot[s] = g
            /\ state[s[1]] # "UNUSED"
            /\ pc[s[1]] \in {"user", "exit"} =>
                   s[2] \in {Mem(v) : v \in 0 .. sz[s[1]] - 1}
                               \cup TableKey \cup {Trapframe, Root}

(* None of the panics of vm.c can fire: "uvmunmap: not mapped" for a slot  *)
(* about to be freed, "freewalk: leaf" for memory left in a page table     *)
(* being freed, "mappages: remap", "uvmcopy: page not present".            *)
NoPanic ==
    \A p \in Proc :
        /\ \A s \in todo[p] : Mapped(s)
        /\ \A s \in todo[p], v \in VA :
               s[2] = Root /\ Mapped(<<s[1], Mem(v)>>) =>
                   <<s[1], Mem(v)>> \in todo[p]
        /\ pc[p] = "growmap" => ~Mapped(Here(p))
        /\ pc[p] = "uvmcopy" /\ va[p] < sz[p] =>
               Mapped(Here(p)) /\ ~Mapped(Child(p))

------------------------------------------------------------------------------
(* What all this promises to user programs: memory that is private.        *)
Alive == {p \in Proc : state[p] = "RUNNABLE"}

(* While uvmdealloc() runs the pages beyond the new size are gone already. *)
VisibleSz(p) == IF ret[p] = "shrink" THEN lim[p] ELSE sz[p]

UserMemory ==
    [p \in Proc |-> [v \in VA |->
        IF p \in Alive /\ v < VisibleSz(p)
        THEN content[slot[<<p, Mem(v)>>]] ELSE Junk]]

Private == INSTANCE PrivateMemory
               WITH alive <- Alive, mem <- UserMemory, NoVal <- Junk

(* Sharing pages copy-on-write is invisible: processes behave as if fork() *)
(* had copied the parent's memory at once, a store changed the memory of   *)
(* one process only, and failed calls changed nothing.                     *)
PrivateMemorySpec == Private!Spec
=============================================================================
