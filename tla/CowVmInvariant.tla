--------------------------- MODULE CowVmInvariant ---------------------------
(***************************************************************************)
(* The inductive invariant behind the safety properties of CowVm: what is  *)
(* true of every thread between two of its steps.  CowVmProofs proves that *)
(* it is inductive; the runs of MCCowVm check it on small instances.       *)
(***************************************************************************)
EXTENDS CowVm

Resolving == {"ref", "own", "copyalloc", "copy"}
Forking == {"root", "uvmcopy", "incref"}
Growing == {"grow", "growmap"}
Freeing == {"free", "push"}

(* What each program location says of the locals. *)
LocalsAt(p) ==
        /\ pc[p] \in {"off", "user", "exit"} \cup Forking \cup Growing <=>
               ret[p] = "none"
        /\ pc[p] \in {"copyout", "deliver"} => ret[p] \in {"copyout", "wait"}
        /\ pc[p] \in Resolving => ret[p] \in {"fault", "copyout", "wait"}
        /\ tgt[p] # p <=>
               pc[p] \in Forking \/ ret[p] \in {"wait", "freeproc", "uncopy"}
        /\ ret[p] \in {"copyout", "wait"} => va[p] <= lim[p]
        /\ pc[p] = "deliver" => va[p] < lim[p]
        /\ pc[p] \in Resolving => va[p] < MaxVA
        /\ ret[p] \in {"copyout", "wait"} /\ pc[p] \in Resolving \cup Freeing =>
               va[p] < lim[p]
        /\ pc[p] \in Growing => sz[p] <= va[p] /\ va[p] <= lim[p]
        /\ pc[p] = "growmap" => va[p] < lim[p]
        /\ ret[p] = "shrink" => lim[p] < sz[p]
        /\ pc[p] = "root" => va[p] = 0
        /\ pc[p] = "uvmcopy" => va[p] <= sz[p]
        /\ pc[p] = "incref" => va[p] < sz[p]

LocalsInv == \A p \in Proc : LocalsAt(p)

(* A thread works on its own process, on a child it is creating or on a    *)
(* zombie it reaps; nobody else does, and that process does not run.       *)
TargetAt(p) ==
    tgt[p] # p =>
        \/ /\ state[tgt[p]] = "USED"
           /\ pc[p] \in Forking \/ ret[p] \in {"uncopy", "freeproc"}
        \/ /\ state[tgt[p]] = "ZOMBIE" /\ parent[tgt[p]] = p
           /\ ret[p] \in {"wait", "freeproc"}

TargetInv ==
    /\ \A p \in Proc : pc[p] = "off" <=> state[p] # "RUNNABLE"
    /\ \A p \in Proc : TargetAt(p)
    /\ \A p, q \in Proc :
        tgt[p] # p /\ tgt[q] # q /\ tgt[p] = tgt[q] => p = q

(* What a thread is freeing, and the slot that is not counted. *)
TodoAt(p) ==
        /\ todo[p] # {} => pc[p] \in Freeing
        /\ \A s \in todo[p] :
              /\ Mapped(s)
              /\ ret[p] \in {"fault", "copyout", "wait"} => s = <<p, Hand>>
              /\ ret[p] = "ungrow" =>
                    s = <<p, Hand>> \/ s \in MemSlots(p, sz[p], MaxVA)
              /\ ret[p] = "shrink" => s \in MemSlots(p, lim[p], sz[p])
              /\ ret[p] = "uncopy" => s \in MemSlots(tgt[p], 0, MaxVA)
              /\ ret[p] = "freeproc" => s[1] = tgt[p] /\ s[2] # Hand
        /\ pc[p] = "push" => at[p] \in todo[p]
        /\ pc[p] = "incref" => at[p] = Child(p)
        /\ pc[p] \notin {"push", "incref"} => at[p] = NoSlot

TodoInv == \A p \in Proc : TodoAt(p)

(* The addresses at which process p has memory: when it runs, as a zombie, *)
(* and while it is being created.                                          *)
RunningHas(p, v) ==
    \/ v < VisibleSz(p)
    \/ pc[p] \in Growing /\ v < va[p]
    \/ <<p, Mem(v)>> \in todo[p]

ZombieHas(p, v) ==
    /\ v < sz[p]
    /\ \A q \in Proc : tgt[q] = p /\ ret[q] = "freeproc" =>
                          <<p, Mem(v)>> \in todo[q]

EmbryoHas(p, v) ==
    \E q \in Proc :
        /\ q # p /\ tgt[q] = p
        /\ \/ pc[q] = "uvmcopy" /\ v < va[q]
           \/ pc[q] = "incref" /\ v <= va[q]
           \/ <<p, Mem(v)>> \in todo[q]

HasPage(p, v) ==
    \/ state[p] = "RUNNABLE" /\ RunningHas(p, v)
    \/ state[p] = "ZOMBIE" /\ ZombieHas(p, v)
    \/ state[p] = "USED" /\ EmbryoHas(p, v)

MappingInv ==
    /\ \A p \in Proc, v \in VA : Mapped(<<p, Mem(v)>>) <=> HasPage(p, v)
    /\ \A p \in Proc :
        Mapped(<<p, Hand>>) <=>
            pc[p] \in {"copy", "growmap"} \/ <<p, Hand>> \in todo[p]
    /\ \A p \in Proc, k \in Key : state[p] = "UNUSED" => ~Mapped(<<p, k>>)
    /\ \A p \in Proc : pc[p] = "root" =>
        \A k \in Key \ {Trapframe} : ~Mapped(<<tgt[p], k>>)
    /\ \A p \in Proc, k \in Key : ret[p] = "freeproc" =>
        (Mapped(<<tgt[p], k>>) => <<tgt[p], k>> \in todo[p])
    /\ \A p \in Proc : state[p] # "RUNNABLE" /\ state[p] # "ZOMBIE" => sz[p] = 0

(* Flags belong to user mappings, and copy-on-write ones are read-only. *)
FlagInv ==
    /\ \A s \in writable \cup cow \cup user : s[2] \in MemKey /\ Mapped(s)
    /\ writable \cap cow = {}
    /\ \A p \in Proc : pc[p] \in Resolving => Here(p) \in cow
    /\ \A p \in Proc : pc[p] = "deliver" => Here(p) \in writable
    /\ \A p \in Proc : pc[p] \in Freeing /\ ret[p] \in {"copyout", "wait"} =>
                          Here(p) \in writable

(* Who may refer to a page that somebody else refers to. *)
Sharable == cow \cup {<<p, Hand>> : p \in {q \in Proc : pc[q] = "free"}}

Exclusive(s) == \A t \in Slot : slot[t] = slot[s] => t = s

SharingInv ==
    /\ \A s, t \in Slot : s # t /\ Mapped(s) /\ slot[s] = slot[t] =>
            s \in Sharable /\ t \in Sharable
    /\ \A p \in Proc : pc[p] = "own" => Exclusive(Here(p))
    /\ \A p \in Proc : pc[p] = "push" => Exclusive(at[p])
    /\ \A p \in Proc : pc[p] = "incref" =>
            slot[Child(p)] = slot[Here(p)] /\ Here(p) \in cow

IInv ==
    /\ TypeOK
    /\ LocalsInv
    /\ TargetInv
    /\ TodoInv
    /\ MappingInv
    /\ FlagInv
    /\ SharingInv
    /\ NoUseAfterFree
    /\ RefCountExact

(* A page that is not free is held somewhere. *)
HeldInv == \A g \in Page \ freelist : \E s \in Slot : slot[s] = g

(* User memory holds data, and zeros where sbrk() has just made it. *)
DataInv ==
    /\ \A p \in Proc, v \in VA :
        Mapped(<<p, Mem(v)>>) => content[slot[<<p, Mem(v)>>]] \in Value
    /\ \A p \in Proc : pc[p] = "growmap" => content[slot[<<p, Hand>>]] = Zero
    /\ \A p \in Proc : pc[p] \in Growing =>
        \A v \in sz[p] .. va[p] - 1 : content[slot[<<p, Mem(v)>>]] = Zero

(* What uvmcopy() has mapped in the child is what the parent has there. *)
CopiedInv ==
    \A p \in Proc : pc[p] \in {"uvmcopy", "incref"} =>
        \A v \in 0 .. va[p] - 1 : slot[<<tgt[p], Mem(v)>>] = slot[<<p, Mem(v)>>]

(* What is needed besides, to see that memory is private and none is lost. *)
MemoryInv == HeldInv /\ DataInv /\ CopiedInv
=============================================================================
