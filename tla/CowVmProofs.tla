----------------------------- MODULE CowVmProofs -----------------------------
(***************************************************************************)
(* The inductive step of CowVm, first control: types, program locations,   *)
(* who works on which process, and what is being freed; then what is       *)
(* mapped, which flags the mappings have, who shares a page and what       *)
(* kmem.refarray says of it; then the theorems, and the memory: leaks and  *)
(* the refinement.                                                         *)
(***************************************************************************)
EXTENDS CowVmInvariant, TLAPS, FiniteSetTheorems

(* The keys of a process's references are pairwise different, and only
   memory and table slots are indexed by an address. *)
LEMMA KeyFacts ==
    /\ \A v, w \in VA : Mem(v) = Mem(w) => v = w
    /\ \A v \in VA : Mem(v) \in MemKey /\ Mem(v) \in Key
    /\ \A v \in VA : Mem(v) \notin TableKey \cup {Trapframe, Root, Hand}
    /\ \A v \in VA : Table(v) \in TableKey /\ Table(v) \in Key
    /\ Trapframe \in Key /\ Root \in Key /\ Hand \in Key
    /\ Hand \notin MemKey \cup TableKey \cup {Trapframe, Root}
    /\ Trapframe \notin MemKey \cup TableKey \cup {Root, Hand}
    /\ Root \notin MemKey \cup TableKey \cup {Trapframe, Hand}
    /\ \A k \in MemKey : \E v \in VA : k = Mem(v)
    /\ \A k \in Key : k \in MemKey \/ k \in TableKey \cup {Trapframe, Root, Hand}
    /\ TableKey \cap MemKey = {}
  BY DEF Mem, Table, Trapframe, Root, Hand, MemKey, TableKey, Key

(* A slot is a pair of a process and a key. *)
LEMMA SlotFacts ==
    /\ \A p \in Proc, k \in Key : <<p, k>> \in Slot
    /\ \A s \in Slot : s[1] \in Proc /\ s[2] \in Key /\ s = <<s[1], s[2]>>
    /\ \A p, q \in Proc, k, j \in Key : <<p, k>> = <<q, j>> => p = q /\ k = j
    /\ \A p \in Proc, k \in Key : <<p, k>>[1] = p /\ <<p, k>>[2] = k
  BY DEF Slot

(* The slots a thread works on are slots, while its address is in range. *)
LEMMA HereFacts ==
    ASSUME TypeOK, NEW p \in Proc
    PROVE  /\ va[p] < MaxVA => Here(p) \in Slot /\ Child(p) \in Slot
           /\ va[p] < MaxVA => TableSlot(p) \in Slot
           /\ va[p] < MaxVA => va[p] \in VA /\ va[p] + 1 \in 0 .. MaxVA
           /\ <<p, Hand>> \in Slot /\ <<tgt[p], Root>> \in Slot
           /\ <<p, Trapframe>> \in Slot
<1>1. va[p] \in 0 .. MaxVA /\ tgt[p] \in Proc
  BY DEF TypeOK, ThreadTypeOK, LocalsTypeOK
<1>2. va[p] < MaxVA => va[p] \in VA /\ va[p] + 1 \in 0 .. MaxVA
  BY <1>1, AddressAssumption DEF VA
<1> QED
  BY <1>1, <1>2, AddressAssumption, KeyFacts, SlotFacts
     DEF Here, Child, TableSlot

(* Which slots uvmunmap() frees. *)
LEMMA MemSlotsFacts ==
    ASSUME NEW c \in Proc, NEW a \in 0 .. MaxVA, NEW b \in 0 .. MaxVA
    PROVE  /\ MemSlots(c, a, b) \subseteq Slot
           /\ \A v \in VA : <<c, Mem(v)>> \in MemSlots(c, a, b) <=>
                                a <= v /\ v < b
           /\ \A s \in MemSlots(c, a, b) : \E v \in VA :
                  s = <<c, Mem(v)>> /\ a <= v /\ v < b
<1>1. a .. b - 1 \subseteq VA
  BY AddressAssumption DEF VA
<1>2. MemSlots(c, a, b) \subseteq Slot
  BY <1>1, KeyFacts, SlotFacts DEF MemSlots
<1>3. \A s \in MemSlots(c, a, b) : \E v \in VA :
         s = <<c, Mem(v)>> /\ a <= v /\ v < b
  BY <1>1, AddressAssumption DEF MemSlots
<1>4. ASSUME NEW v \in VA, <<c, Mem(v)>> \in MemSlots(c, a, b)
      PROVE  a <= v /\ v < b
  <2>1. PICK w \in VA : <<c, Mem(v)>> = <<c, Mem(w)>> /\ a <= w /\ w < b
    BY <1>3, <1>4
  <2> QED
    BY <2>1, KeyFacts
<1>5. ASSUME NEW v \in VA, a <= v, v < b
      PROVE  <<c, Mem(v)>> \in MemSlots(c, a, b)
  BY <1>5, AddressAssumption DEF MemSlots, VA
<1> QED
  BY <1>2, <1>3, <1>4, <1>5

(* Which slots freeproc() frees. *)
LEMMA ProcSlotsFacts ==
    ASSUME NEW c \in Proc, NEW n \in 0 .. MaxVA
    PROVE  /\ ProcSlots(c, n) \subseteq Slot
           /\ \A k \in Key : <<c, k>> \in ProcSlots(c, n) <=>
                  \/ \E v \in VA : k = Mem(v) /\ v < n
                  \/ k \in TableKey \cup {Trapframe, Root} /\ Mapped(<<c, k>>)
           /\ \A s \in ProcSlots(c, n) : s[1] = c /\ s[2] # Hand
<1>1. 0 \in 0 .. MaxVA
  BY AddressAssumption
<1>2. /\ MemSlots(c, 0, n) \subseteq Slot
      /\ \A s \in MemSlots(c, 0, n) : \E v \in VA :
             s = <<c, Mem(v)>> /\ 0 <= v /\ v < n
      /\ \A v \in VA : <<c, Mem(v)>> \in MemSlots(c, 0, n) <=> 0 <= v /\ v < n
  BY <1>1, MemSlotsFacts
<1>3. \A v \in VA : 0 <= v
  BY AddressAssumption DEF VA
<1> DEFINE Fixed == TableKey \cup {Trapframe, Root}
<1>k. Fixed \subseteq Key /\ Fixed \cap MemKey = {} /\ Hand \notin Fixed
  BY KeyFacts DEF Key
<1>e. \A s : s \in ProcSlots(c, n) <=>
          \/ s \in MemSlots(c, 0, n)
          \/ \E k \in Fixed : Mapped(<<c, k>>) /\ s = <<c, k>>
  BY DEF ProcSlots
<1> HIDE DEF Fixed
<1>5. ASSUME NEW s \in ProcSlots(c, n)
      PROVE  s \in Slot /\ s[1] = c /\ s[2] # Hand
  <2>1. CASE s \in MemSlots(c, 0, n)
    BY <1>2, <2>1, KeyFacts, SlotFacts
  <2>2. CASE \E k \in Fixed : s = <<c, k>>
    BY <1>k, <2>2, SlotFacts
  <2> QED
    BY <1>e, <1>5, <2>1, <2>2
<1>6. ASSUME NEW k \in Key
      PROVE  <<c, k>> \in ProcSlots(c, n) <=>
                  \/ \E v \in VA : k = Mem(v) /\ v < n
                  \/ k \in Fixed /\ Mapped(<<c, k>>)
  <2>1. <<c, k>> \in MemSlots(c, 0, n) <=> \E v \in VA : k = Mem(v) /\ v < n
    BY <1>2, <1>3, KeyFacts, SlotFacts
  <2>2. (\E j \in Fixed : Mapped(<<c, j>>) /\ <<c, k>> = <<c, j>>)
            <=> k \in Fixed /\ Mapped(<<c, k>>)
    BY <1>k, SlotFacts
  <2> QED
    BY <1>e, <2>1, <2>2
<1> QED
  BY <1>5, <1>6 DEF Fixed

(* A process has finitely many slots, so references can be counted. *)
LEMMA SlotFinite == IsFiniteSet(Slot)
<1>1. IsFiniteSet(VA) /\ IsFiniteSet({"mem"}) /\ IsFiniteSet({"table"})
  <2>1. 0 \in Int /\ MaxVA - 1 \in Int
    BY AddressAssumption
  <2>2. IsFiniteSet(VA)
    BY <2>1, FS_Interval DEF VA
  <2> QED
    BY <2>2, FS_Singleton
<1>2. MemKey = {"mem"} \X VA /\ TableKey = {"table"} \X VA
  BY DEF MemKey, TableKey, Mem, Table
<1>3. IsFiniteSet(MemKey) /\ IsFiniteSet(TableKey)
  BY <1>1, <1>2, FS_Product
<1>4. IsFiniteSet({Trapframe, Root, Hand})
  <2>1. {Trapframe, Root, Hand} = ({Trapframe} \cup {Root}) \cup {Hand}
    OBVIOUS
  <2>2. IsFiniteSet({Trapframe}) /\ IsFiniteSet({Root}) /\ IsFiniteSet({Hand})
    BY FS_Singleton
  <2> QED BY <2>1, <2>2, FS_Union
<1>5. IsFiniteSet(MemKey \cup TableKey)
  BY <1>3, FS_Union
<1>6. IsFiniteSet(Key)
  BY <1>4, <1>5, FS_Union DEF Key
<1> QED
  BY <1>6, ProcAssumption, FS_Product DEF Slot

------------------------------------------------------------------------------
(* Type correctness *)

(* The state userinit() leaves is of the right type. *)
LEMMA InitType == Init => TypeOK
<1> SUFFICES ASSUME Init PROVE TypeOK
  OBVIOUS
<1>1. KallocTypeOK
  BY PageAssumption, ValueAssumption DEF Init, KallocInit, KallocTypeOK
<1>2. \A v \in 0 .. InitSz - 1 : <<InitProc, Mem(v)>> \in Slot
  BY ProcAssumption, AddressAssumption, KeyFacts, SlotFacts DEF VA
<1>3. slot \in [Slot -> Page \cup {NoPage}]
  BY BootAssumption DEF Init
<1> QED
  BY <1>1, <1>2, <1>3, ProcAssumption, AddressAssumption, ValueAssumption
     DEF Init, TypeOK, PteTypeOK, TableTypeOK, ThreadTypeOK,
         LocalsTypeOK, Location, Reason

(* The address at which a thread works lies inside the bound. *)
LEMMA StepBounds ==
    ASSUME TypeOK, LocalsInv, NEW p \in Proc
    PROVE  /\ pc[p] \in {"ref", "own", "copyalloc", "copy", "deliver", "incref",
                         "growmap"} => va[p] < MaxVA
           /\ pc[p] = "uvmcopy" /\ va[p] < sz[p] => va[p] < MaxVA
           /\ pc[p] \in {"copyout", "grow"} /\ va[p] < lim[p] => va[p] < MaxVA
  BY AddressAssumption
     DEF TypeOK, TableTypeOK, ThreadTypeOK, LocalsTypeOK,
         LocalsInv, LocalsAt, Resolving, Growing

(* The operations of the allocator preserve its type. *)
LEMMA KmemTypes ==
    ASSUME KallocTypeOK
    PROVE  /\ UNCHANGED kmem => KallocTypeOK'
           /\ \A g, x : Kalloc(g, x) /\ x \in Value \cup {Junk} => KallocTypeOK'
           /\ \A g, x : StorePage(g, x) /\ x \in Value \cup {Junk} => KallocTypeOK'
           /\ \A g \in Page : KfreeDec(g) => KallocTypeOK'
           /\ \A g \in Page : KfreePush(g) => KallocTypeOK'
           /\ \A g \in Page : Incref(g) => KallocTypeOK'
<1>1. UNCHANGED kmem => KallocTypeOK'
  BY DEF kmem, KallocTypeOK
<1>2. ASSUME NEW g, NEW x \in Value \cup {Junk}, Kalloc(g, x)
      PROVE  KallocTypeOK'
  BY <1>2, CandidatesAssumption DEF Kalloc, KallocTypeOK
<1>3. ASSUME NEW g, NEW x \in Value \cup {Junk}, StorePage(g, x)
      PROVE  KallocTypeOK'
  BY <1>3 DEF StorePage, KallocTypeOK
<1>4. ASSUME NEW g \in Page, KfreeDec(g) PROVE KallocTypeOK'
  BY <1>4 DEF KfreeDec, KallocTypeOK
<1>5. ASSUME NEW g \in Page, KfreePush(g) PROVE KallocTypeOK'
  BY <1>5 DEF KfreePush, KallocTypeOK
<1>6. ASSUME NEW g \in Page, Incref(g) PROVE KallocTypeOK'
  BY <1>6 DEF Incref, KallocTypeOK
<1> QED
  BY <1>1, <1>2, <1>3, <1>4, <1>5, <1>6

(* Jumps and assignments to the locals of a thread preserve their types. *)
LEMMA ControlTypes ==
    ASSUME ThreadTypeOK, NEW p \in Proc
    PROVE  /\ \A l \in Location : Goto(p, l) => pc' \in [Proc -> Location]
           /\ \A r \in Reason, t \in Proc, v, l \in 0 .. MaxVA, x \in Value :
                 Locals(p, r, t, v, l, x) => LocalsTypeOK'
           /\ Return(p) => pc' \in [Proc -> Location] /\ LocalsTypeOK'
<1>1. \A l \in Location : Goto(p, l) => pc' \in [Proc -> Location]
  BY DEF Goto, ThreadTypeOK
<1>2. ASSUME NEW r \in Reason, NEW t \in Proc, NEW v \in 0 .. MaxVA,
             NEW l \in 0 .. MaxVA, NEW x \in Value, Locals(p, r, t, v, l, x)
      PROVE  LocalsTypeOK'
  BY <1>2 DEF Locals, ThreadTypeOK, LocalsTypeOK
<1>3. "user" \in Location /\ "none" \in Reason /\ 0 \in 0 .. MaxVA /\ Zero \in Value
  BY AddressAssumption, ValueAssumption DEF Location, Reason
<1>4. Return(p) => pc' \in [Proc -> Location] /\ LocalsTypeOK'
  BY <1>1, <1>2, <1>3 DEF Return
<1> QED
  BY <1>1, <1>2, <1>4

(* A step keeps the type of the allocator's state. *)
LEMMA KallocTypeStep ==
    ASSUME IInv, NEW p \in Proc, UserStep(p) \/ KernelStep(p)
    PROVE  KallocTypeOK'
<1>t. TypeOK
  BY DEF IInv
<1>b. /\ pc[p] \in {"ref", "own", "copyalloc", "copy", "deliver", "incref",
                   "growmap"} => va[p] < MaxVA
      /\ pc[p] = "uvmcopy" /\ va[p] < sz[p] => va[p] < MaxVA
      /\ pc[p] \in {"copyout", "grow"} /\ va[p] < lim[p] => va[p] < MaxVA
  BY <1>t, StepBounds DEF IInv
<1>h. /\ va[p] < MaxVA => Here(p) \in Slot /\ Child(p) \in Slot
      /\ va[p] < MaxVA => TableSlot(p) \in Slot
      /\ va[p] < MaxVA => va[p] \in VA /\ va[p] + 1 \in 0 .. MaxVA
      /\ <<p, Hand>> \in Slot /\ <<tgt[p], Root>> \in Slot
      /\ \A c \in Proc : <<c, Trapframe>> \in Slot
  BY <1>t, HereFacts, KeyFacts, SlotFacts
<1>m. \A c \in Proc, n \in 0 .. MaxVA, m \in 0 .. MaxVA :
         MemSlots(c, n, m) \subseteq Slot /\ ProcSlots(c, n) \subseteq Slot
  BY MemSlotsFacts, ProcSlotsFacts
<1>k. /\ UNCHANGED kmem => KallocTypeOK'
      /\ \A g, x : Kalloc(g, x) /\ x \in Value \cup {Junk} => KallocTypeOK'
      /\ \A g, x : StorePage(g, x) /\ x \in Value \cup {Junk} => KallocTypeOK'
      /\ \A g \in Page : KfreeDec(g) => KallocTypeOK'
      /\ \A g \in Page : KfreePush(g) => KallocTypeOK'
      /\ \A g \in Page : Incref(g) => KallocTypeOK'
  BY <1>t, KmemTypes DEF TypeOK
<1>s. \A s \in Slot : Mapped(s) => slot[s] \in Page
  BY <1>t DEF TypeOK, PteTypeOK, Mapped
<1>r. /\ \A s \in todo[p] : Mapped(s)
      /\ pc[p] = "push" => at[p] \in Slot /\ Mapped(at[p])
      /\ pc[p] \in {"copy", "deliver", "incref"} => Mapped(Here(p))
  BY <1>t DEF IInv, TodoInv, TodoAt, FlagInv, SharingInv, Resolving, TypeOK, ThreadTypeOK
<1>u. CASE UNCHANGED kmem
  BY <1>t, <1>u DEF TypeOK, KallocTypeOK, KallocTypeOK, LocalsTypeOK, kmem, pte, table, locals
<1>1. CASE UserStore(p)
  BY <1>t, <1>1, <1>b, <1>h, <1>k, <1>s, <1>r, ValueAssumption,
      AddressAssumption, ProcAssumption
     DEF UserStore, TypeOK, KallocTypeOK
<1>2. CASE AllocCopy(p)
  BY <1>t, <1>2, <1>b, <1>h, <1>k, <1>s, <1>r, ValueAssumption,
      AddressAssumption, ProcAssumption
     DEF AllocCopy, TypeOK, KallocTypeOK
<1>3. CASE CopyPage(p)
  BY <1>t, <1>3, <1>b, <1>h, <1>k, <1>s, <1>r, ValueAssumption,
      AddressAssumption, ProcAssumption
     DEF CopyPage, MakeWritable, TypeOK, KallocTypeOK
<1>4. CASE Deliver(p)
  BY <1>t, <1>4, <1>b, <1>h, <1>k, <1>s, <1>r, ValueAssumption,
      AddressAssumption, ProcAssumption
     DEF Deliver, TypeOK, KallocTypeOK, ThreadTypeOK, LocalsTypeOK
<1>5. CASE DropReference(p)
  BY <1>t, <1>5, <1>b, <1>h, <1>k, <1>s, <1>r, ValueAssumption,
      AddressAssumption, ProcAssumption
     DEF DropReference, ClearSlot, TypeOK, KallocTypeOK, NextToFree
<1>6. CASE PushPage(p)
  BY <1>t, <1>6, <1>b, <1>h, <1>k, <1>s, <1>r, ValueAssumption,
      AddressAssumption, ProcAssumption
     DEF PushPage, ClearSlot, TypeOK, KallocTypeOK
<1>7. CASE Fork(p)
  BY <1>t, <1>7, <1>b, <1>h, <1>k, <1>s, <1>r, ValueAssumption,
      AddressAssumption, ProcAssumption
     DEF Fork, TypeOK, KallocTypeOK
<1>8. CASE AllocRoot(p)
  BY <1>t, <1>8, <1>b, <1>h, <1>k, <1>s, <1>r, ValueAssumption,
      AddressAssumption, ProcAssumption
     DEF AllocRoot, kmem, TypeOK, KallocTypeOK, KallocFails
<1>9. CASE WalkAlloc(p)
  BY <1>t, <1>9, <1>b, <1>h, <1>k, <1>s, <1>r, ValueAssumption,
      AddressAssumption, ProcAssumption
     DEF WalkAlloc, TypeOK, KallocTypeOK
<1>10. CASE CountMapping(p)
  BY <1>t, <1>10, <1>b, <1>h, <1>k, <1>s, <1>r, ValueAssumption,
      AddressAssumption, ProcAssumption
     DEF CountMapping, TypeOK, KallocTypeOK
<1>11. CASE GrowAlloc(p)
  BY <1>t, <1>11, <1>b, <1>h, <1>k, <1>s, <1>r, ValueAssumption,
      AddressAssumption, ProcAssumption
     DEF GrowAlloc, kmem, TypeOK, KallocTypeOK, KallocFails
<1> QED
  <2>1. UNCHANGED kmem
        \/ UserStore(p)
        \/ AllocCopy(p)
        \/ CopyPage(p)
        \/ Deliver(p)
        \/ DropReference(p)
        \/ PushPage(p)
        \/ Fork(p)
        \/ AllocRoot(p)
        \/ WalkAlloc(p)
        \/ CountMapping(p)
        \/ GrowAlloc(p)
    BY DEF UserStep, KernelStep, CowFault, BadAccess, ReadRef, ReusePage,
        AllocCopyFails, Copyout, CopyoutPage, CopyoutDone, CopyDone, ResizeDone,
        UncopyDone, FreeprocDone, ShareMapping, UvmcopyFails, ForkDone, Grow,
        GrowMap, GrowMapFails, GrowDone, Shrink, Exit, Wait, WaitReap, Fail,
        KallocFails, kmem, locals, pte, table
  <2> QED
    BY <2>1, <1>u, <1>1, <1>2, <1>3, <1>4, <1>5, <1>6, <1>7, <1>8, <1>9,
        <1>10, <1>11

(* A step keeps the type of the page table entries. *)
LEMMA PteTypeStep ==
    ASSUME IInv, NEW p \in Proc, UserStep(p) \/ KernelStep(p)
    PROVE  PteTypeOK'
<1>t. TypeOK
  BY DEF IInv
<1>b. /\ pc[p] \in {"ref", "own", "copyalloc", "copy", "deliver", "incref",
                   "growmap"} => va[p] < MaxVA
      /\ pc[p] = "uvmcopy" /\ va[p] < sz[p] => va[p] < MaxVA
      /\ pc[p] \in {"copyout", "grow"} /\ va[p] < lim[p] => va[p] < MaxVA
  BY <1>t, StepBounds DEF IInv
<1>h. /\ va[p] < MaxVA => Here(p) \in Slot /\ Child(p) \in Slot
      /\ va[p] < MaxVA => TableSlot(p) \in Slot
      /\ va[p] < MaxVA => va[p] \in VA /\ va[p] + 1 \in 0 .. MaxVA
      /\ <<p, Hand>> \in Slot /\ <<tgt[p], Root>> \in Slot
      /\ \A c \in Proc : <<c, Trapframe>> \in Slot
  BY <1>t, HereFacts, KeyFacts, SlotFacts
<1>m. \A c \in Proc, n \in 0 .. MaxVA, m \in 0 .. MaxVA :
         MemSlots(c, n, m) \subseteq Slot /\ ProcSlots(c, n) \subseteq Slot
  BY MemSlotsFacts, ProcSlotsFacts
<1>c. \A g, x : Kalloc(g, x) => g \in Page
  BY <1>t, CandidatesAssumption DEF Kalloc, TypeOK, KallocTypeOK
<1>u. CASE UNCHANGED pte
  BY <1>t, <1>u DEF TypeOK, PteTypeOK, KallocTypeOK, LocalsTypeOK, kmem, pte, table, locals
<1>1. CASE ReusePage(p)
  BY <1>t, <1>1, <1>b, <1>h, <1>c, ValueAssumption, AddressAssumption,
      ProcAssumption
     DEF ReusePage, MakeWritable, locals, kmem, table, TypeOK, PteTypeOK
<1>2. CASE AllocCopy(p)
  BY <1>t, <1>2, <1>b, <1>h, <1>c, ValueAssumption, AddressAssumption,
      ProcAssumption
     DEF AllocCopy, table, locals, TypeOK, PteTypeOK
<1>3. CASE CopyPage(p)
  BY <1>t, <1>3, <1>b, <1>h, <1>c, ValueAssumption, AddressAssumption,
      ProcAssumption
     DEF CopyPage, MakeWritable, table, locals, TypeOK, PteTypeOK
<1>4. CASE DropReference(p)
  BY <1>t, <1>4, <1>b, <1>h, <1>c, ValueAssumption, AddressAssumption,
      ProcAssumption
     DEF DropReference, ClearSlot, pte, table, locals, TypeOK, PteTypeOK
<1>5. CASE PushPage(p)
  BY <1>t, <1>5, <1>b, <1>h, <1>c, ValueAssumption, AddressAssumption,
      ProcAssumption
     DEF PushPage, ClearSlot, table, locals, TypeOK, PteTypeOK
<1>6. CASE Fork(p)
  BY <1>t, <1>6, <1>b, <1>h, <1>c, ValueAssumption, AddressAssumption,
      ProcAssumption
     DEF Fork, TypeOK, PteTypeOK
<1>7. CASE AllocRoot(p)
  BY <1>t, <1>7, <1>b, <1>h, <1>c, ValueAssumption, AddressAssumption,
      ProcAssumption
     DEF AllocRoot, table, kmem, TypeOK, PteTypeOK
<1>8. CASE WalkAlloc(p)
  BY <1>t, <1>8, <1>b, <1>h, <1>c, ValueAssumption, AddressAssumption,
      ProcAssumption
     DEF WalkAlloc, table, locals, TypeOK, PteTypeOK
<1>9. CASE ShareMapping(p)
  BY <1>t, <1>9, <1>b, <1>h, <1>c, ValueAssumption, AddressAssumption,
      ProcAssumption
     DEF ShareMapping, kmem, table, locals, TypeOK, PteTypeOK
<1>10. CASE GrowAlloc(p)
  BY <1>t, <1>10, <1>b, <1>h, <1>c, ValueAssumption, AddressAssumption,
      ProcAssumption
     DEF GrowAlloc, table, kmem, TypeOK, PteTypeOK
<1>11. CASE GrowMap(p)
  BY <1>t, <1>11, <1>b, <1>h, <1>c, ValueAssumption, AddressAssumption,
      ProcAssumption
     DEF GrowMap, kmem, table, TypeOK, PteTypeOK
<1> QED
  <2>1. UNCHANGED pte
        \/ ReusePage(p)
        \/ AllocCopy(p)
        \/ CopyPage(p)
        \/ DropReference(p)
        \/ PushPage(p)
        \/ Fork(p)
        \/ AllocRoot(p)
        \/ WalkAlloc(p)
        \/ ShareMapping(p)
        \/ GrowAlloc(p)
        \/ GrowMap(p)
    BY DEF UserStep, KernelStep, UserStore, CowFault, BadAccess, ReadRef,
        AllocCopyFails, Copyout, CopyoutPage, Deliver, CopyoutDone, CopyDone,
        ResizeDone, UncopyDone, FreeprocDone, CountMapping, UvmcopyFails,
        ForkDone, Grow, GrowMapFails, GrowDone, Shrink, Exit, Wait, WaitReap,
        Fail, KallocFails, kmem, locals, pte, table
  <2> QED
    BY <2>1, <1>u, <1>1, <1>2, <1>3, <1>4, <1>5, <1>6, <1>7, <1>8, <1>9,
        <1>10, <1>11

(* A step keeps the type of the process table. *)
LEMMA TableTypeStep ==
    ASSUME IInv, NEW p \in Proc, UserStep(p) \/ KernelStep(p)
    PROVE  TableTypeOK'
<1>t. TypeOK
  BY DEF IInv
<1>b. /\ pc[p] \in {"ref", "own", "copyalloc", "copy", "deliver", "incref",
                   "growmap"} => va[p] < MaxVA
      /\ pc[p] = "uvmcopy" /\ va[p] < sz[p] => va[p] < MaxVA
      /\ pc[p] \in {"copyout", "grow"} /\ va[p] < lim[p] => va[p] < MaxVA
  BY <1>t, StepBounds DEF IInv
<1>h. /\ va[p] < MaxVA => Here(p) \in Slot /\ Child(p) \in Slot
      /\ va[p] < MaxVA => TableSlot(p) \in Slot
      /\ va[p] < MaxVA => va[p] \in VA /\ va[p] + 1 \in 0 .. MaxVA
      /\ <<p, Hand>> \in Slot /\ <<tgt[p], Root>> \in Slot
      /\ \A c \in Proc : <<c, Trapframe>> \in Slot
  BY <1>t, HereFacts, KeyFacts, SlotFacts
<1>m. \A c \in Proc, n \in 0 .. MaxVA, m \in 0 .. MaxVA :
         MemSlots(c, n, m) \subseteq Slot /\ ProcSlots(c, n) \subseteq Slot
  BY MemSlotsFacts, ProcSlotsFacts
<1>u. CASE UNCHANGED <<table, wait_lock>>
  BY <1>t, <1>u DEF TypeOK, TableTypeOK, KallocTypeOK, LocalsTypeOK, kmem, pte, table, locals
<1>1. CASE AllocCopyFails(p)
  BY <1>t, <1>1, <1>b, <1>h, ValueAssumption, AddressAssumption,
      ProcAssumption
     DEF AllocCopyFails, Fail, pte, table, kmem, TypeOK, TableTypeOK,
         ThreadTypeOK, LocalsTypeOK
<1>2. CASE CopyoutPage(p)
  BY <1>t, <1>2, <1>b, <1>h, ValueAssumption, AddressAssumption,
      ProcAssumption
     DEF CopyoutPage, locals, Fail, kmem, pte, table, TypeOK, TableTypeOK,
         ThreadTypeOK, LocalsTypeOK
<1>3. CASE ResizeDone(p)
  BY <1>t, <1>3, <1>b, <1>h, ValueAssumption, AddressAssumption,
      ProcAssumption
     DEF ResizeDone, kmem, pte, TypeOK, TableTypeOK, ThreadTypeOK,
         LocalsTypeOK
<1>4. CASE FreeprocDone(p)
  BY <1>t, <1>4, <1>b, <1>h, ValueAssumption, AddressAssumption,
      ProcAssumption
     DEF FreeprocDone, kmem, pte, TypeOK, TableTypeOK, ThreadTypeOK,
         LocalsTypeOK
<1>5. CASE Fork(p)
  BY <1>t, <1>5, <1>b, <1>h, ValueAssumption, AddressAssumption,
      ProcAssumption
     DEF Fork, TypeOK, TableTypeOK, ThreadTypeOK, LocalsTypeOK
<1>6. CASE ForkDone(p)
  BY <1>t, <1>6, <1>b, <1>h, ValueAssumption, AddressAssumption,
      ProcAssumption
     DEF ForkDone, kmem, pte, TypeOK, TableTypeOK, ThreadTypeOK, LocalsTypeOK
<1>7. CASE GrowDone(p)
  BY <1>t, <1>7, <1>b, <1>h, ValueAssumption, AddressAssumption,
      ProcAssumption
     DEF GrowDone, kmem, pte, TypeOK, TableTypeOK, ThreadTypeOK, LocalsTypeOK
<1>8. CASE Exit(p)
  BY <1>t, <1>8, <1>b, <1>h, ValueAssumption, AddressAssumption,
      ProcAssumption
     DEF Exit, kmem, pte, locals, TypeOK, TableTypeOK, ThreadTypeOK,
         LocalsTypeOK
<1>9. CASE Wait(p)
  BY <1>t, <1>9, <1>b, <1>h, ValueAssumption, AddressAssumption,
      ProcAssumption
     DEF Wait, VA, kmem, pte, table, TypeOK, TableTypeOK, ThreadTypeOK,
         LocalsTypeOK
<1> QED
  <2>1. UNCHANGED <<table, wait_lock>>
        \/ AllocCopyFails(p)
        \/ CopyoutPage(p)
        \/ ResizeDone(p)
        \/ FreeprocDone(p)
        \/ Fork(p)
        \/ ForkDone(p)
        \/ GrowDone(p)
        \/ Exit(p)
        \/ Wait(p)
    BY DEF UserStep, KernelStep, UserStore, CowFault, BadAccess, ReadRef,
        ReusePage, AllocCopy, CopyPage, Copyout, Deliver, CopyoutDone,
        DropReference, PushPage, CopyDone, UncopyDone, AllocRoot, WalkAlloc,
        ShareMapping, CountMapping, UvmcopyFails, Grow, GrowAlloc, GrowMap,
        GrowMapFails, Shrink, WaitReap, KallocFails, kmem, locals, pte, table
  <2> QED
    BY <2>1, <1>u, <1>1, <1>2, <1>3, <1>4, <1>5, <1>6, <1>7, <1>8, <1>9

(* A step keeps the type of program locations and locals. *)
LEMMA ThreadTypeStep ==
    ASSUME IInv, NEW p \in Proc, UserStep(p) \/ KernelStep(p)
    PROVE  ThreadTypeOK'
<1>t. TypeOK
  BY DEF IInv
<1>b. /\ pc[p] \in {"ref", "own", "copyalloc", "copy", "deliver", "incref",
                   "growmap"} => va[p] < MaxVA
      /\ pc[p] = "uvmcopy" /\ va[p] < sz[p] => va[p] < MaxVA
      /\ pc[p] \in {"copyout", "grow"} /\ va[p] < lim[p] => va[p] < MaxVA
  BY <1>t, StepBounds DEF IInv
<1>h. /\ va[p] < MaxVA => Here(p) \in Slot /\ Child(p) \in Slot
      /\ va[p] < MaxVA => TableSlot(p) \in Slot
      /\ va[p] < MaxVA => va[p] \in VA /\ va[p] + 1 \in 0 .. MaxVA
      /\ <<p, Hand>> \in Slot /\ <<tgt[p], Root>> \in Slot
      /\ \A c \in Proc : <<c, Trapframe>> \in Slot
  BY <1>t, HereFacts, KeyFacts, SlotFacts
<1>m. \A c \in Proc, n \in 0 .. MaxVA, m \in 0 .. MaxVA :
         MemSlots(c, n, m) \subseteq Slot /\ ProcSlots(c, n) \subseteq Slot
  BY MemSlotsFacts, ProcSlotsFacts
<1>g. /\ \A l \in Location : Goto(p, l) => pc' \in [Proc -> Location]
      /\ \A r \in Reason, t \in Proc, v, l \in 0 .. MaxVA, x \in Value :
            Locals(p, r, t, v, l, x) => LocalsTypeOK'
      /\ Return(p) => pc' \in [Proc -> Location] /\ LocalsTypeOK'
  BY <1>t, ControlTypes DEF TypeOK
<1>v. VA \subseteq 0 .. MaxVA /\ 0 \in 0 .. MaxVA /\ Zero \in Value
  BY AddressAssumption, ValueAssumption DEF VA
<1>w. /\ va[p] \in 0 .. MaxVA /\ lim[p] \in 0 .. MaxVA /\ tgt[p] \in Proc
      /\ \A c \in Proc : sz[c] \in 0 .. MaxVA
  BY <1>t DEF TypeOK, TableTypeOK, ThreadTypeOK, LocalsTypeOK
<1>u. CASE UNCHANGED <<pc, locals, todo, at>>
  BY <1>t, <1>u DEF TypeOK, ThreadTypeOK, KallocTypeOK, LocalsTypeOK, kmem, pte, table, locals
<1>1. CASE CowFault(p)
  BY <1>t, <1>1, <1>b, <1>h, <1>g, <1>v, <1>w, ValueAssumption,
      AddressAssumption, ProcAssumption
     DEF CowFault, TypeOK, ThreadTypeOK, Location, Reason, LocalsTypeOK
<1>2. CASE BadAccess(p)
  BY <1>t, <1>2, <1>b, <1>h, <1>g, <1>v, <1>w, ValueAssumption,
      AddressAssumption, ProcAssumption
     DEF BadAccess, locals, TypeOK, ThreadTypeOK, Location, Reason, LocalsTypeOK
<1>3. CASE ReadRef(p)
  BY <1>t, <1>3, <1>b, <1>h, <1>g, <1>v, <1>w, ValueAssumption,
      AddressAssumption, ProcAssumption
     DEF ReadRef, locals, TypeOK, ThreadTypeOK, Location, Reason, LocalsTypeOK
<1>4. CASE ReusePage(p)
  BY <1>t, <1>4, <1>b, <1>h, <1>g, <1>v, <1>w, ValueAssumption,
      AddressAssumption, ProcAssumption
     DEF ReusePage, MakeWritable, locals, TypeOK, ThreadTypeOK, Location, Reason,
         LocalsTypeOK
<1>5. CASE AllocCopy(p)
  BY <1>t, <1>5, <1>b, <1>h, <1>g, <1>v, <1>w, ValueAssumption,
      AddressAssumption, ProcAssumption
     DEF AllocCopy, locals, TypeOK, ThreadTypeOK, Location, Reason, LocalsTypeOK
<1>6. CASE AllocCopyFails(p)
  BY <1>t, <1>6, <1>b, <1>h, <1>g, <1>v, <1>w, ValueAssumption,
      AddressAssumption, ProcAssumption
     DEF AllocCopyFails, Fail, TypeOK, ThreadTypeOK, Location, Reason,
         LocalsTypeOK
<1>7. CASE CopyPage(p)
  BY <1>t, <1>7, <1>b, <1>h, <1>g, <1>v, <1>w, ValueAssumption,
      AddressAssumption, ProcAssumption
     DEF CopyPage, MakeWritable, locals, TypeOK, ThreadTypeOK, Location, Reason,
         LocalsTypeOK
<1>8. CASE Copyout(p)
  BY <1>t, <1>8, <1>b, <1>h, <1>g, <1>v, <1>w, ValueAssumption,
      AddressAssumption, ProcAssumption
     DEF Copyout, TypeOK, ThreadTypeOK, Location, Reason, LocalsTypeOK
<1>9. CASE CopyoutPage(p)
  BY <1>t, <1>9, <1>b, <1>h, <1>g, <1>v, <1>w, ValueAssumption,
      AddressAssumption, ProcAssumption
     DEF CopyoutPage, locals, Fail, TypeOK, ThreadTypeOK, Location, Reason,
         LocalsTypeOK
<1>10. CASE Deliver(p)
  BY <1>t, <1>10, <1>b, <1>h, <1>g, <1>v, <1>w, ValueAssumption,
      AddressAssumption, ProcAssumption
     DEF Deliver, TypeOK, ThreadTypeOK, Location, Reason, LocalsTypeOK
<1>11. CASE CopyoutDone(p)
  BY <1>t, <1>11, <1>b, <1>h, <1>g, <1>v, <1>w, ValueAssumption,
      AddressAssumption, ProcAssumption
     DEF CopyoutDone, TypeOK, ThreadTypeOK, Location, Reason, LocalsTypeOK
<1>12. CASE DropReference(p)
  <2>1. PICK s \in Slot : \/ ClearSlot(p, s) /\ UNCHANGED <<pc, at>>
                          \/ /\ at' = [at EXCEPT ![p] = s]
                             /\ Goto(p, "push") /\ UNCHANGED todo
    BY <1>12 DEF DropReference
  <2>2. pc' \in [Proc -> Location]
    BY <1>t, <1>g, <2>1 DEF TypeOK, ThreadTypeOK, Location
  <2>3. todo' \in [Proc -> SUBSET Slot] /\ at' \in [Proc -> Slot \cup {NoSlot}]
    BY <1>t, <2>1 DEF TypeOK, ThreadTypeOK, ClearSlot
  <2> QED
    BY <1>t, <1>12, <2>2, <2>3
       DEF DropReference, locals, TypeOK, ThreadTypeOK, LocalsTypeOK
<1>13. CASE PushPage(p)
  BY <1>t, <1>13, <1>b, <1>h, <1>g, <1>v, <1>w, ValueAssumption,
      AddressAssumption, ProcAssumption
     DEF PushPage, ClearSlot, locals, TypeOK, ThreadTypeOK, Location, Reason,
         LocalsTypeOK
<1>14. CASE CopyDone(p)
  BY <1>t, <1>14, <1>b, <1>h, <1>g, <1>v, <1>w, ValueAssumption,
      AddressAssumption, ProcAssumption
     DEF CopyDone, locals, TypeOK, ThreadTypeOK, Location, Reason, LocalsTypeOK
<1>15. CASE ResizeDone(p)
  BY <1>t, <1>15, <1>b, <1>h, <1>g, <1>v, <1>w, ValueAssumption,
      AddressAssumption, ProcAssumption
     DEF ResizeDone, TypeOK, ThreadTypeOK, Location, Reason, LocalsTypeOK
<1>16. CASE UncopyDone(p)
  BY <1>t, <1>16, <1>b, <1>h, <1>g, <1>v, <1>w, <1>m, ValueAssumption,
      AddressAssumption, ProcAssumption
     DEF UncopyDone, TypeOK, ThreadTypeOK, Location, Reason, LocalsTypeOK
<1>17. CASE FreeprocDone(p)
  BY <1>t, <1>17, <1>b, <1>h, <1>g, <1>v, <1>w, ValueAssumption,
      AddressAssumption, ProcAssumption
     DEF FreeprocDone, TypeOK, ThreadTypeOK, Location, Reason, LocalsTypeOK
<1>18. CASE Fork(p)
  BY <1>t, <1>18, <1>b, <1>h, <1>g, <1>v, <1>w, ValueAssumption,
      AddressAssumption, ProcAssumption
     DEF Fork, TypeOK, ThreadTypeOK, Location, Reason, LocalsTypeOK
<1>19. CASE AllocRoot(p)
  <2>1. \/ Goto(p, "uvmcopy") /\ UNCHANGED <<ret, todo>>
        \/ /\ Goto(p, "free") /\ ret' = [ret EXCEPT ![p] = "freeproc"]
           /\ todo' = [todo EXCEPT ![p] = ProcSlots(tgt[p], 0)]
    BY <1>19 DEF AllocRoot
  <2>2. pc' \in [Proc -> Location]
    BY <1>g, <2>1 DEF Location
  <2>3. ProcSlots(tgt[p], 0) \subseteq Slot
    BY <1>m, <1>v, <1>w
  <2>4. todo' \in [Proc -> SUBSET Slot] /\ ret' \in [Proc -> Reason]
    BY <1>t, <2>1, <2>3 DEF TypeOK, ThreadTypeOK, LocalsTypeOK, Reason
  <2> QED
    BY <1>t, <1>19, <2>2, <2>4
       DEF AllocRoot, TypeOK, ThreadTypeOK, LocalsTypeOK
<1>20. CASE ShareMapping(p)
  BY <1>t, <1>20, <1>b, <1>h, <1>g, <1>v, <1>w, ValueAssumption,
      AddressAssumption, ProcAssumption
     DEF ShareMapping, locals, TypeOK, ThreadTypeOK, Location, Reason,
         LocalsTypeOK
<1>21. CASE CountMapping(p)
  BY <1>t, <1>21, <1>b, <1>h, <1>g, <1>v, <1>w, ValueAssumption,
      AddressAssumption, ProcAssumption
     DEF CountMapping, TypeOK, ThreadTypeOK, Location, Reason, LocalsTypeOK
<1>22. CASE UvmcopyFails(p)
  BY <1>t, <1>22, <1>b, <1>h, <1>g, <1>v, <1>w, <1>m, ValueAssumption,
      AddressAssumption, ProcAssumption
     DEF UvmcopyFails, TypeOK, ThreadTypeOK, Location, Reason, LocalsTypeOK
<1>23. CASE ForkDone(p)
  BY <1>t, <1>23, <1>b, <1>h, <1>g, <1>v, <1>w, ValueAssumption,
      AddressAssumption, ProcAssumption
     DEF ForkDone, TypeOK, ThreadTypeOK, Location, Reason, LocalsTypeOK
<1>24. CASE Grow(p)
  <2>1. PICK n \in sz[p] + 1 .. MaxVA : Locals(p, "none", p, sz[p], n, Zero)
    BY <1>24 DEF Grow
  <2>2. n \in 0 .. MaxVA
    BY <1>w, AddressAssumption
  <2>3. LocalsTypeOK'
    BY <1>g, <1>v, <1>w, <2>1, <2>2 DEF Reason
  <2>4. pc' \in [Proc -> Location]
    BY <1>24, <1>g DEF Grow, Location
  <2> QED
    BY <1>t, <1>24, <2>3, <2>4 DEF Grow, TypeOK, ThreadTypeOK
<1>25. CASE GrowAlloc(p)
  <2>1. \/ Goto(p, "growmap") /\ UNCHANGED <<ret, todo>>
        \/ /\ Goto(p, "free") /\ ret' = [ret EXCEPT ![p] = "ungrow"]
           /\ todo' = [todo EXCEPT ![p] = MemSlots(p, sz[p], va[p])]
    BY <1>25 DEF GrowAlloc
  <2>2. pc' \in [Proc -> Location]
    BY <1>g, <2>1 DEF Location
  <2>3. MemSlots(p, sz[p], va[p]) \subseteq Slot
    BY <1>m, <1>w
  <2>4. todo' \in [Proc -> SUBSET Slot] /\ ret' \in [Proc -> Reason]
    BY <1>t, <2>1, <2>3 DEF TypeOK, ThreadTypeOK, LocalsTypeOK, Reason
  <2> QED
    BY <1>t, <1>25, <2>2, <2>4
       DEF GrowAlloc, TypeOK, ThreadTypeOK, LocalsTypeOK
<1>26. CASE GrowMap(p)
  BY <1>t, <1>26, <1>b, <1>h, <1>g, <1>v, <1>w, ValueAssumption,
      AddressAssumption, ProcAssumption
     DEF GrowMap, TypeOK, ThreadTypeOK, Location, Reason, LocalsTypeOK
<1>27. CASE GrowMapFails(p)
  <2>1. pc' \in [Proc -> Location]
    BY <1>27, <1>g DEF GrowMapFails, Location
  <2>2. {<<p, Hand>>} \cup MemSlots(p, sz[p], va[p]) \subseteq Slot
    BY <1>m, <1>w, <1>h
  <2>3. todo' \in [Proc -> SUBSET Slot] /\ ret' \in [Proc -> Reason]
    BY <1>t, <1>27, <2>2
       DEF GrowMapFails, TypeOK, ThreadTypeOK, LocalsTypeOK, Reason
  <2> QED
    BY <1>t, <1>27, <2>1, <2>3
       DEF GrowMapFails, TypeOK, ThreadTypeOK, LocalsTypeOK
<1>28. CASE GrowDone(p)
  BY <1>t, <1>28, <1>b, <1>h, <1>g, <1>v, <1>w, ValueAssumption,
      AddressAssumption, ProcAssumption
     DEF GrowDone, TypeOK, ThreadTypeOK, Location, Reason, LocalsTypeOK
<1>29. CASE Shrink(p)
  <2>1. PICK n \in 0 .. sz[p] - 1 :
           /\ Locals(p, "shrink", p, n, n, Zero)
           /\ todo' = [todo EXCEPT ![p] = MemSlots(p, n, sz[p])]
    BY <1>29 DEF Shrink
  <2>2. n \in 0 .. MaxVA
    BY <1>w, AddressAssumption
  <2>3. LocalsTypeOK'
    BY <1>g, <1>v, <2>1, <2>2 DEF Reason
  <2>4. pc' \in [Proc -> Location]
    BY <1>29, <1>g DEF Shrink, Location
  <2>5. MemSlots(p, n, sz[p]) \subseteq Slot
    BY <1>m, <1>w, <2>2
  <2> QED
    BY <1>t, <1>29, <2>1, <2>3, <2>4, <2>5 DEF Shrink, TypeOK, ThreadTypeOK
<1>30. CASE Exit(p)
  BY <1>t, <1>30, <1>b, <1>h, <1>g, <1>v, <1>w, ValueAssumption,
      AddressAssumption, ProcAssumption
     DEF Exit, locals, TypeOK, ThreadTypeOK, Location, Reason, LocalsTypeOK
<1>31. CASE Wait(p)
  <2>1. PICK c \in Proc :
           \/ /\ Locals(p, "freeproc", c, 0, 0, Zero)
              /\ todo' = [todo EXCEPT ![p] = ProcSlots(c, sz[c])]
              /\ Goto(p, "free")
           \/ /\ \E a \in VA, x \in Value : Locals(p, "wait", c, a, a + 1, x)
              /\ Goto(p, "copyout") /\ UNCHANGED todo
    BY <1>31 DEF Wait
  <2>2. \A a \in VA : a \in 0 .. MaxVA /\ a + 1 \in 0 .. MaxVA
    BY AddressAssumption DEF VA
  <2>3. LocalsTypeOK'
    BY <1>g, <1>v, <2>1, <2>2 DEF Reason
  <2>4. pc' \in [Proc -> Location]
    BY <1>g, <2>1 DEF Location
  <2>5. ProcSlots(c, sz[c]) \subseteq Slot
    BY <1>m, <1>w
  <2> QED
    BY <1>t, <1>31, <2>1, <2>3, <2>4, <2>5 DEF Wait, TypeOK, ThreadTypeOK
<1>32. CASE WaitReap(p)
  BY <1>t, <1>32, <1>b, <1>h, <1>g, <1>v, <1>w, <1>m, ValueAssumption,
      AddressAssumption, ProcAssumption
     DEF WaitReap, TypeOK, ThreadTypeOK, Location, Reason, LocalsTypeOK
<1> QED
  <2>1. UNCHANGED <<pc, locals, todo, at>>
        \/ CowFault(p)
        \/ BadAccess(p)
        \/ ReadRef(p)
        \/ ReusePage(p)
        \/ AllocCopy(p)
        \/ AllocCopyFails(p)
        \/ CopyPage(p)
        \/ Copyout(p)
        \/ CopyoutPage(p)
        \/ Deliver(p)
        \/ CopyoutDone(p)
        \/ DropReference(p)
        \/ PushPage(p)
        \/ CopyDone(p)
        \/ ResizeDone(p)
        \/ UncopyDone(p)
        \/ FreeprocDone(p)
        \/ Fork(p)
        \/ AllocRoot(p)
        \/ ShareMapping(p)
        \/ CountMapping(p)
        \/ UvmcopyFails(p)
        \/ ForkDone(p)
        \/ Grow(p)
        \/ GrowAlloc(p)
        \/ GrowMap(p)
        \/ GrowMapFails(p)
        \/ GrowDone(p)
        \/ Shrink(p)
        \/ Exit(p)
        \/ Wait(p)
        \/ WaitReap(p)
    BY DEF UserStep, KernelStep, UserStore, WalkAlloc, locals, pte, table
  <2> QED
    BY <2>1, <1>u, <1>1, <1>2, <1>3, <1>4, <1>5, <1>6, <1>7, <1>8, <1>9,
        <1>10, <1>11, <1>12, <1>13, <1>14, <1>15, <1>16, <1>17, <1>18, <1>19,
        <1>20, <1>21, <1>22, <1>23, <1>24, <1>25, <1>26, <1>27, <1>28, <1>29,
        <1>30, <1>31, <1>32

(* A step of thread p leaves the locals of the others alone; only fork()   *)
(* makes another one run, its child.                                       *)
LEMMA Frame ==
    ASSUME TypeOK, NEW p \in Proc, UserStep(p) \/ KernelStep(p),
           NEW q \in Proc, q # p
    PROVE  /\ ret'[q] = ret[q] /\ tgt'[q] = tgt[q] /\ va'[q] = va[q]
           /\ lim'[q] = lim[q] /\ todo'[q] = todo[q] /\ at'[q] = at[q]
           /\ pc'[q] = pc[q] \/ (ForkDone(p) /\ q = tgt[p])
<1> USE DEF TypeOK, ThreadTypeOK, LocalsTypeOK
<1>1. CASE UserStore(p)
  BY <1>1
     DEF UserStore, table, locals
<1>2. CASE CowFault(p)
  BY <1>2
     DEF CowFault, Locals, Goto, table
<1>3. CASE BadAccess(p)
  BY <1>3
     DEF BadAccess, Goto, table, locals
<1>4. CASE ReadRef(p)
  BY <1>4
     DEF ReadRef, Goto, table, locals
<1>5. CASE ReusePage(p)
  BY <1>5
     DEF ReusePage, Return, Goto, locals, table, Locals
<1>6. CASE AllocCopy(p)
  BY <1>6
     DEF AllocCopy, Goto, table, locals
<1>7. CASE AllocCopyFails(p)
  BY <1>7
     DEF AllocCopyFails, Goto, Locals, Fail, table, Return
<1>8. CASE CopyPage(p)
  BY <1>8
     DEF CopyPage, Goto, table, locals
<1>9. CASE Copyout(p)
  BY <1>9
     DEF Copyout, Locals, Goto, table
<1>10. CASE CopyoutPage(p)
  BY <1>10
     DEF CopyoutPage, Goto, locals, Fail, table, Return, Locals
<1>11. CASE Deliver(p)
  BY <1>11
     DEF Deliver, Goto, table
<1>12. CASE CopyoutDone(p)
  BY <1>12
     DEF CopyoutDone, Return, table, Goto, Locals
<1>13. CASE DropReference(p)
  BY <1>13
     DEF DropReference, ClearSlot, Goto, table, locals
<1>14. CASE PushPage(p)
  BY <1>14
     DEF PushPage, ClearSlot, Goto, table, locals
<1>15. CASE CopyDone(p)
  BY <1>15
     DEF CopyDone, Return, Goto, locals, table, Locals
<1>16. CASE ResizeDone(p)
  BY <1>16
     DEF ResizeDone, Return, Goto, Locals
<1>17. CASE UncopyDone(p)
  BY <1>17
     DEF UncopyDone, table
<1>18. CASE FreeprocDone(p)
  BY <1>18
     DEF FreeprocDone, Return, Goto, Locals
<1>19. CASE Fork(p)
  BY <1>19
     DEF Fork, Locals, Goto
<1>20. CASE AllocRoot(p)
  BY <1>20
     DEF AllocRoot, Goto, table
<1>21. CASE WalkAlloc(p)
  BY <1>21
     DEF WalkAlloc, table, locals
<1>22. CASE ShareMapping(p)
  BY <1>22
     DEF ShareMapping, Goto, table, locals
<1>23. CASE CountMapping(p)
  BY <1>23
     DEF CountMapping, Goto, table
<1>24. CASE UvmcopyFails(p)
  BY <1>24
     DEF UvmcopyFails, Goto, table
<1>25. CASE ForkDone(p)
  BY <1>25
     DEF ForkDone, Locals
<1>26. CASE Grow(p)
  BY <1>26
     DEF Grow, Locals, Goto, table
<1>27. CASE GrowAlloc(p)
  BY <1>27
     DEF GrowAlloc, Goto, table
<1>28. CASE GrowMap(p)
  BY <1>28
     DEF GrowMap, Goto, table
<1>29. CASE GrowMapFails(p)
  BY <1>29
     DEF GrowMapFails, Goto, table
<1>30. CASE GrowDone(p)
  BY <1>30
     DEF GrowDone, Return, Goto, Locals
<1>31. CASE Shrink(p)
  BY <1>31
     DEF Shrink, Locals, Goto, table
<1>32. CASE Exit(p)
  BY <1>32
     DEF Exit, Goto, locals
<1>33. CASE Wait(p)
  BY <1>33
     DEF Wait, Locals, Goto, table
<1>34. CASE WaitReap(p)
  BY <1>34
     DEF WaitReap, Goto, table
<1> QED
  BY <1>1, <1>2, <1>3, <1>4, <1>5, <1>6, <1>7, <1>8, <1>9, <1>10, <1>11,
      <1>12, <1>13, <1>14, <1>15, <1>16, <1>17, <1>18, <1>19, <1>20, <1>21, <1>22,
      <1>23, <1>24, <1>25, <1>26, <1>27, <1>28, <1>29, <1>30, <1>31, <1>32, <1>33,
      <1>34
     DEF UserStep, KernelStep

(* The size, state and parent of a process that neither runs this step nor *)
(* is worked on by the thread that does.                                   *)
LEMMA TableFrame ==
    ASSUME TypeOK, NEW p \in Proc, UserStep(p) \/ KernelStep(p),
           NEW q \in Proc, q # p
    PROVE  /\ sz'[q] = sz[q] \/ ((ForkDone(p) \/ FreeprocDone(p)) /\ q = tgt[p])
           /\ \/ state'[q] = state[q]
              \/ (ForkDone(p) \/ FreeprocDone(p)) /\ q = tgt[p]
              \/ Fork(p) /\ state[q] = "UNUSED" /\ state'[q] = "USED"
           /\ \/ parent'[q] = parent[q]
              \/ (ForkDone(p) \/ FreeprocDone(p)) /\ q = tgt[p]
              \/ Exit(p) /\ parent[q] = p
<1> USE DEF TypeOK, TableTypeOK, ThreadTypeOK, LocalsTypeOK
<1>1. CASE UserStore(p)
  BY <1>1
     DEF UserStore, table
<1>2. CASE CowFault(p)
  BY <1>2
     DEF CowFault, table
<1>3. CASE BadAccess(p)
  BY <1>3
     DEF BadAccess, table
<1>4. CASE ReadRef(p)
  BY <1>4
     DEF ReadRef, table
<1>5. CASE ReusePage(p)
  BY <1>5
     DEF ReusePage, table
<1>6. CASE AllocCopy(p)
  BY <1>6
     DEF AllocCopy, table
<1>7. CASE AllocCopyFails(p)
  BY <1>7
     DEF AllocCopyFails, table
<1>8. CASE CopyPage(p)
  BY <1>8
     DEF CopyPage, table
<1>9. CASE Copyout(p)
  BY <1>9
     DEF Copyout, table
<1>10. CASE CopyoutPage(p)
  BY <1>10
     DEF CopyoutPage, table
<1>11. CASE Deliver(p)
  BY <1>11
     DEF Deliver, table
<1>12. CASE CopyoutDone(p)
  BY <1>12
     DEF CopyoutDone, table
<1>13. CASE DropReference(p)
  BY <1>13
     DEF DropReference, table
<1>14. CASE PushPage(p)
  BY <1>14
     DEF PushPage, table
<1>15. CASE CopyDone(p)
  BY <1>15
     DEF CopyDone, table
<1>16. CASE ResizeDone(p)
  BY <1>16
     DEF ResizeDone
<1>17. CASE UncopyDone(p)
  BY <1>17
     DEF UncopyDone, table
<1>18. CASE FreeprocDone(p)
  BY <1>18
     DEF FreeprocDone
<1>19. CASE Fork(p)
  BY <1>19
     DEF Fork
<1>20. CASE AllocRoot(p)
  BY <1>20
     DEF AllocRoot, table
<1>21. CASE WalkAlloc(p)
  BY <1>21
     DEF WalkAlloc, table
<1>22. CASE ShareMapping(p)
  BY <1>22
     DEF ShareMapping, table
<1>23. CASE CountMapping(p)
  BY <1>23
     DEF CountMapping, table
<1>24. CASE UvmcopyFails(p)
  BY <1>24
     DEF UvmcopyFails, table
<1>25. CASE ForkDone(p)
  BY <1>25
     DEF ForkDone
<1>26. CASE Grow(p)
  BY <1>26
     DEF Grow, table
<1>27. CASE GrowAlloc(p)
  BY <1>27
     DEF GrowAlloc, table
<1>28. CASE GrowMap(p)
  BY <1>28
     DEF GrowMap, table
<1>29. CASE GrowMapFails(p)
  BY <1>29
     DEF GrowMapFails, table
<1>30. CASE GrowDone(p)
  BY <1>30
     DEF GrowDone
<1>31. CASE Shrink(p)
  BY <1>31
     DEF Shrink, table
<1>32. CASE Exit(p)
  BY <1>32
     DEF Exit
<1>33. CASE Wait(p)
  BY <1>33
     DEF Wait, table
<1>34. CASE WaitReap(p)
  BY <1>34
     DEF WaitReap, table
<1> QED
  BY <1>1, <1>2, <1>3, <1>4, <1>5, <1>6, <1>7, <1>8, <1>9, <1>10, <1>11,
      <1>12, <1>13, <1>14, <1>15, <1>16, <1>17, <1>18, <1>19, <1>20, <1>21, <1>22,
      <1>23, <1>24, <1>25, <1>26, <1>27, <1>28, <1>29, <1>30, <1>31, <1>32, <1>33,
      <1>34
     DEF UserStep, KernelStep

(* A step keeps what each program location says of the locals. *)
LEMMA LocalsStep ==
    ASSUME IInv, NEW p \in Proc, UserStep(p) \/ KernelStep(p)
    PROVE  LocalsInv'
<1>t. TypeOK /\ LocalsInv /\ TargetInv
  BY DEF IInv
<1>o. ASSUME NEW q \in Proc, q # p PROVE LocalsAt(q)'
  <2>1. /\ ret'[q] = ret[q] /\ tgt'[q] = tgt[q] /\ va'[q] = va[q]
        /\ lim'[q] = lim[q]
        /\ pc'[q] = pc[q] \/ (ForkDone(p) /\ q = tgt[p])
        /\ sz'[q] = sz[q] \/ ((ForkDone(p) \/ FreeprocDone(p)) /\ q = tgt[p])
    BY <1>t, <1>o, Frame, TableFrame
  <2>2. q = tgt[p] => pc[q] = "off"
    BY <1>t, <1>o DEF TargetInv, TargetAt, TypeOK, ThreadTypeOK, LocalsTypeOK
  <2>3. CASE sz'[q] = sz[q] /\ pc'[q] = pc[q]
    BY <1>t, <2>1, <2>3 DEF LocalsInv, LocalsAt
  <2>4. CASE ForkDone(p) /\ q = tgt[p]
    <3>1. pc'[q] = "user"
      BY <1>t, <1>o, <2>4
         DEF ForkDone, TypeOK, ThreadTypeOK, LocalsTypeOK
    <3> QED
      BY <1>t, <2>1, <2>2, <2>4, <3>1
         DEF LocalsInv, LocalsAt, Resolving, Forking, Growing, Freeing
  <2>5. CASE FreeprocDone(p) /\ q = tgt[p] /\ pc'[q] = pc[q]
    BY <1>t, <2>1, <2>2, <2>5
       DEF LocalsInv, LocalsAt, Resolving, Forking, Growing, Freeing
  <2> QED
    BY <2>1, <2>3, <2>4, <2>5
<1>p. LocalsAt(p)'
  <2>t. /\ pc[p] \in Location /\ ret[p] \in Reason /\ tgt[p] \in Proc
        /\ va[p] \in 0 .. MaxVA /\ lim[p] \in 0 .. MaxVA /\ sz[p] \in 0 .. MaxVA
    BY <1>t DEF TypeOK, TableTypeOK, ThreadTypeOK, LocalsTypeOK
  <2>l. LocalsAt(p)
    BY <1>t DEF LocalsInv
  <2>b. va[p] < lim[p] => va[p] < MaxVA
    BY <2>t, AddressAssumption
  <2>1. CASE UserStore(p)
    BY <1>t, <2>t, <2>l, <2>b, <2>1, AddressAssumption
       DEF UserStore, VA, table, locals, LocalsAt, Resolving, Forking,
           Growing, Freeing, TypeOK, TableTypeOK, ThreadTypeOK, LocalsTypeOK
  <2>2. CASE CowFault(p)
    BY <1>t, <2>t, <2>l, <2>b, <2>2, AddressAssumption
       DEF CowFault, VA, Locals, Goto, table, LocalsAt, Resolving, Forking,
           Growing, Freeing, TypeOK, TableTypeOK, ThreadTypeOK, LocalsTypeOK
  <2>3. CASE BadAccess(p)
    BY <1>t, <2>t, <2>l, <2>b, <2>3, AddressAssumption
       DEF BadAccess, VA, Goto, table, locals, LocalsAt, Resolving, Forking,
           Growing, Freeing, TypeOK, TableTypeOK, ThreadTypeOK, LocalsTypeOK
  <2>4. CASE ReadRef(p)
    BY <1>t, <2>t, <2>l, <2>b, <2>4, AddressAssumption
       DEF ReadRef, Goto, table, locals, LocalsAt, Resolving, Forking,
           Growing, Freeing, TypeOK, TableTypeOK, ThreadTypeOK, LocalsTypeOK
  <2>5. CASE ReusePage(p)
    BY <1>t, <2>t, <2>l, <2>b, <2>5, AddressAssumption
       DEF ReusePage, Return, Goto, locals, table, Locals, LocalsAt,
           Resolving, Forking, Growing, Freeing, TypeOK, TableTypeOK,
           ThreadTypeOK, LocalsTypeOK
  <2>6. CASE AllocCopy(p)
    BY <1>t, <2>t, <2>l, <2>b, <2>6, AddressAssumption
       DEF AllocCopy, Goto, table, locals, LocalsAt, Resolving, Forking,
           Growing, Freeing, TypeOK, TableTypeOK, ThreadTypeOK, LocalsTypeOK
  <2>7. CASE AllocCopyFails(p)
    BY <1>t, <2>t, <2>l, <2>b, <2>7, AddressAssumption
       DEF AllocCopyFails, Goto, Locals, Fail, table, Return, LocalsAt,
           Resolving, Forking, Growing, Freeing, TypeOK, TableTypeOK,
           ThreadTypeOK, LocalsTypeOK
  <2>8. CASE CopyPage(p)
    BY <1>t, <2>t, <2>l, <2>b, <2>8, AddressAssumption
       DEF CopyPage, Goto, table, locals, LocalsAt, Resolving, Forking,
           Growing, Freeing, TypeOK, TableTypeOK, ThreadTypeOK, LocalsTypeOK
  <2>9. CASE Copyout(p)
    BY <1>t, <2>t, <2>l, <2>b, <2>9, AddressAssumption
       DEF Copyout, VA, Locals, Goto, table, LocalsAt, Resolving, Forking,
           Growing, Freeing, TypeOK, TableTypeOK, ThreadTypeOK, LocalsTypeOK
  <2>10. CASE CopyoutPage(p)
    BY <1>t, <2>t, <2>l, <2>b, <2>10, AddressAssumption
       DEF CopyoutPage, Goto, locals, Fail, table, Return, Locals, LocalsAt,
           Resolving, Forking, Growing, Freeing, TypeOK, TableTypeOK,
           ThreadTypeOK, LocalsTypeOK
  <2>11. CASE Deliver(p)
    BY <1>t, <2>t, <2>l, <2>b, <2>11, AddressAssumption
       DEF Deliver, Goto, table, LocalsAt, Resolving, Forking, Growing,
           Freeing, TypeOK, TableTypeOK, ThreadTypeOK, LocalsTypeOK
  <2>12. CASE CopyoutDone(p)
    BY <1>t, <2>t, <2>l, <2>b, <2>12, AddressAssumption
       DEF CopyoutDone, Return, table, Goto, Locals, LocalsAt, Resolving,
           Forking, Growing, Freeing, TypeOK, TableTypeOK, ThreadTypeOK,
           LocalsTypeOK
  <2>13. CASE DropReference(p)
    BY <1>t, <2>t, <2>l, <2>b, <2>13, AddressAssumption
       DEF DropReference, Goto, table, locals, LocalsAt, Resolving, Forking,
           Growing, Freeing, TypeOK, TableTypeOK, ThreadTypeOK, LocalsTypeOK
  <2>14. CASE PushPage(p)
    BY <1>t, <2>t, <2>l, <2>b, <2>14, AddressAssumption
       DEF PushPage, Goto, table, locals, LocalsAt, Resolving, Forking,
           Growing, Freeing, TypeOK, TableTypeOK, ThreadTypeOK, LocalsTypeOK
  <2>15. CASE CopyDone(p)
    BY <1>t, <2>t, <2>l, <2>b, <2>15, AddressAssumption
       DEF CopyDone, Return, Goto, locals, table, Locals, LocalsAt, Resolving,
           Forking, Growing, Freeing, TypeOK, TableTypeOK, ThreadTypeOK,
           LocalsTypeOK
  <2>16. CASE ResizeDone(p)
    BY <1>t, <2>t, <2>l, <2>b, <2>16, AddressAssumption
       DEF ResizeDone, Return, Goto, Locals, LocalsAt, Resolving, Forking,
           Growing, Freeing, TypeOK, TableTypeOK, ThreadTypeOK, LocalsTypeOK
  <2>17. CASE UncopyDone(p)
    BY <1>t, <2>t, <2>l, <2>b, <2>17, AddressAssumption
       DEF UncopyDone, table, LocalsAt, Resolving, Forking, Growing, Freeing,
           TypeOK, TableTypeOK, ThreadTypeOK, LocalsTypeOK
  <2>18. CASE FreeprocDone(p)
    BY <1>t, <2>t, <2>l, <2>b, <2>18, AddressAssumption
       DEF FreeprocDone, Return, Goto, Locals, LocalsAt, Resolving, Forking,
           Growing, Freeing, TypeOK, TableTypeOK, ThreadTypeOK, LocalsTypeOK
  <2>19. CASE Fork(p)
    <3>1. PICK c \in Proc :
           /\ state[c] = "UNUSED"
           /\ Locals(p, "none", c, 0, 0, Zero) /\ Goto(p, "root")
      BY <2>19 DEF Fork
    <3>2. pc[p] = "user" /\ state[p] = "RUNNABLE" /\ sz'[p] = sz[p]
      BY <1>t, <2>19 DEF Fork, TargetInv, table
    <3>3. c # p
      BY <3>1, <3>2
    <3> QED
      BY <1>t, <2>t, <2>l, <3>1, <3>2, <3>3, AddressAssumption
         DEF LocalsAt, Locals, Goto, VA, Resolving, Forking, Growing, Freeing,
            TypeOK, TableTypeOK, ThreadTypeOK, LocalsTypeOK
  <2>20. CASE AllocRoot(p)
    BY <1>t, <2>t, <2>l, <2>b, <2>20, AddressAssumption
       DEF AllocRoot, Goto, table, LocalsAt, Resolving, Forking, Growing,
           Freeing, TypeOK, TableTypeOK, ThreadTypeOK, LocalsTypeOK
  <2>21. CASE WalkAlloc(p)
    BY <1>t, <2>t, <2>l, <2>b, <2>21, AddressAssumption
       DEF WalkAlloc, table, locals, LocalsAt, Resolving, Forking, Growing,
           Freeing, TypeOK, TableTypeOK, ThreadTypeOK, LocalsTypeOK
  <2>22. CASE ShareMapping(p)
    BY <1>t, <2>t, <2>l, <2>b, <2>22, AddressAssumption
       DEF ShareMapping, Goto, table, locals, LocalsAt, Resolving, Forking,
           Growing, Freeing, TypeOK, TableTypeOK, ThreadTypeOK, LocalsTypeOK
  <2>23. CASE CountMapping(p)
    BY <1>t, <2>t, <2>l, <2>b, <2>23, AddressAssumption
       DEF CountMapping, Goto, table, LocalsAt, Resolving, Forking, Growing,
           Freeing, TypeOK, TableTypeOK, ThreadTypeOK, LocalsTypeOK
  <2>24. CASE UvmcopyFails(p)
    BY <1>t, <2>t, <2>l, <2>b, <2>24, AddressAssumption
       DEF UvmcopyFails, Goto, table, LocalsAt, Resolving, Forking, Growing,
           Freeing, TypeOK, TableTypeOK, ThreadTypeOK, LocalsTypeOK
  <2>25. CASE ForkDone(p)
    BY <1>t, <2>t, <2>l, <2>b, <2>25, AddressAssumption
       DEF ForkDone, Locals, LocalsAt, Resolving, Forking, Growing, Freeing,
           TypeOK, TableTypeOK, ThreadTypeOK, LocalsTypeOK
  <2>26. CASE Grow(p)
    BY <1>t, <2>t, <2>l, <2>b, <2>26, AddressAssumption
       DEF Grow, Locals, Goto, table, LocalsAt, Resolving, Forking, Growing,
           Freeing, TypeOK, TableTypeOK, ThreadTypeOK, LocalsTypeOK
  <2>27. CASE GrowAlloc(p)
    BY <1>t, <2>t, <2>l, <2>b, <2>27, AddressAssumption
       DEF GrowAlloc, Goto, table, LocalsAt, Resolving, Forking, Growing,
           Freeing, TypeOK, TableTypeOK, ThreadTypeOK, LocalsTypeOK
  <2>28. CASE GrowMap(p)
    BY <1>t, <2>t, <2>l, <2>b, <2>28, AddressAssumption
       DEF GrowMap, Goto, table, LocalsAt, Resolving, Forking, Growing,
           Freeing, TypeOK, TableTypeOK, ThreadTypeOK, LocalsTypeOK
  <2>29. CASE GrowMapFails(p)
    BY <1>t, <2>t, <2>l, <2>b, <2>29, AddressAssumption
       DEF GrowMapFails, Goto, table, LocalsAt, Resolving, Forking, Growing,
           Freeing, TypeOK, TableTypeOK, ThreadTypeOK, LocalsTypeOK
  <2>30. CASE GrowDone(p)
    BY <1>t, <2>t, <2>l, <2>b, <2>30, AddressAssumption
       DEF GrowDone, Return, Goto, Locals, LocalsAt, Resolving, Forking,
           Growing, Freeing, TypeOK, TableTypeOK, ThreadTypeOK, LocalsTypeOK
  <2>31. CASE Shrink(p)
    BY <1>t, <2>t, <2>l, <2>b, <2>31, AddressAssumption
       DEF Shrink, Locals, Goto, table, LocalsAt, Resolving, Forking, Growing,
           Freeing, TypeOK, TableTypeOK, ThreadTypeOK, LocalsTypeOK
  <2>32. CASE Exit(p)
    BY <1>t, <2>t, <2>l, <2>b, <2>32, AddressAssumption
       DEF Exit, Goto, locals, LocalsAt, Resolving, Forking, Growing, Freeing,
           TypeOK, TableTypeOK, ThreadTypeOK, LocalsTypeOK
  <2>33. CASE Wait(p)
    <3>1. PICK c \in Proc :
           /\ state[c] = "ZOMBIE"
           /\ \/ Locals(p, "freeproc", c, 0, 0, Zero) /\ Goto(p, "free")
              \/ /\ \E a \in VA, x \in Value : Locals(p, "wait", c, a, a + 1, x)
                 /\ Goto(p, "copyout")
      BY <2>33 DEF Wait
    <3>2. pc[p] = "user" /\ state[p] = "RUNNABLE" /\ sz'[p] = sz[p]
      BY <1>t, <2>33 DEF Wait, TargetInv, table
    <3>3. c # p
      BY <3>1, <3>2
    <3> QED
      BY <1>t, <2>t, <2>l, <3>1, <3>2, <3>3, AddressAssumption
         DEF LocalsAt, Locals, Goto, VA, Resolving, Forking, Growing, Freeing,
            TypeOK, TableTypeOK, ThreadTypeOK, LocalsTypeOK
  <2>34. CASE WaitReap(p)
    BY <1>t, <2>t, <2>l, <2>b, <2>34, AddressAssumption
       DEF WaitReap, Goto, table, LocalsAt, Resolving, Forking, Growing,
           Freeing, TypeOK, TableTypeOK, ThreadTypeOK, LocalsTypeOK
  <2> QED
    BY <2>1, <2>2, <2>3, <2>4, <2>5, <2>6, <2>7, <2>8, <2>9, <2>10, <2>11,
        <2>12, <2>13, <2>14, <2>15, <2>16, <2>17, <2>18, <2>19, <2>20, <2>21,
        <2>22, <2>23, <2>24, <2>25, <2>26, <2>27, <2>28, <2>29, <2>30, <2>31,
        <2>32, <2>33, <2>34
       DEF UserStep, KernelStep
<1> QED
  BY <1>o, <1>p DEF LocalsInv

(* Only a running thread takes steps. *)
LEMMA Running ==
    ASSUME IInv, NEW p \in Proc, UserStep(p) \/ KernelStep(p)
    PROVE  pc[p] # "off" /\ state[p] = "RUNNABLE"
<1>1. pc[p] # "off"
  BY DEF UserStep, KernelStep, UserStore, CowFault, BadAccess, ReadRef,
      ReusePage, AllocCopy, AllocCopyFails, CopyPage, Copyout, CopyoutPage,
      Deliver, CopyoutDone, DropReference, PushPage, CopyDone, ResizeDone,
      UncopyDone, FreeprocDone, Fork, AllocRoot, WalkAlloc, ShareMapping,
      CountMapping, UvmcopyFails, ForkDone, Grow, GrowAlloc, GrowMap,
      GrowMapFails, GrowDone, Shrink, Exit, Wait, WaitReap
<1> QED
  BY <1>1 DEF IInv, TargetInv

(* The process a thread works on does not run and is nobody else's. *)
LEMMA TargetFacts ==
    ASSUME TypeOK, LocalsInv, TargetInv, NEW p \in Proc, NEW q \in Proc, q # p
    PROVE  /\ tgt[p] = q => pc[q] = "off" /\ state[q] \in {"USED", "ZOMBIE"}
           /\ tgt[p] = q => tgt[q] = q
           /\ tgt[p] = tgt[q] => tgt[p] \in {p, q}
           /\ pc[p] # "off" /\ pc[q] # "off" =>
                 tgt[p] # q /\ tgt[q] # p /\ tgt[p] # tgt[q]
<1>1. tgt[p] = q => pc[q] = "off" /\ state[q] \in {"USED", "ZOMBIE"}
  BY DEF TargetInv, TargetAt
<1>2. tgt[q] = p => pc[p] = "off"
  BY DEF TargetInv, TargetAt
<1>3. pc[q] = "off" => tgt[q] = q
  BY DEF LocalsInv, LocalsAt, Forking
<1>4. tgt[p] = tgt[q] => tgt[p] \in {p, q}
  BY DEF TargetInv
<1> QED
  BY <1>1, <1>2, <1>3, <1>4

(* A step keeps each process in the hands of at most one thread. *)
LEMMA TargetStep ==
    ASSUME IInv, NEW p \in Proc, UserStep(p) \/ KernelStep(p)
    PROVE  TargetInv'
<1>t. TypeOK /\ LocalsInv /\ TargetInv
  BY DEF IInv
<1>r. pc[p] # "off" /\ state[p] = "RUNNABLE"
  BY Running
<1>y. tgt[p] \in Proc /\ \A q \in Proc : state[q] \in
         {"UNUSED", "USED", "RUNNABLE", "ZOMBIE"}
  BY <1>t DEF TypeOK, TableTypeOK, ThreadTypeOK, LocalsTypeOK
<1>f. ASSUME NEW q \in Proc, q # p
      PROVE  /\ ret'[q] = ret[q] /\ tgt'[q] = tgt[q]
             /\ pc'[q] = pc[q] \/ (ForkDone(p) /\ q = tgt[p])
             /\ \/ state'[q] = state[q]
                \/ (ForkDone(p) \/ FreeprocDone(p)) /\ q = tgt[p]
                \/ state[q] = "UNUSED" /\ state'[q] = "USED"
             /\ \/ parent'[q] = parent[q]
                \/ (ForkDone(p) \/ FreeprocDone(p)) /\ q = tgt[p]
                \/ Exit(p) /\ parent[q] = p
  BY <1>t, <1>f, Frame, TableFrame
<1>1. ASSUME NEW q \in Proc PROVE pc'[q] = "off" <=> state'[q] # "RUNNABLE"
  <2>p. CASE q = p
    <3> (pc'[p] = "off" <=> state'[p] # "RUNNABLE")
      <4>1. CASE UserStore(p)
        BY <1>t, <1>r, <1>y, <4>1
           DEF UserStore, table, locals, TypeOK, TableTypeOK, ThreadTypeOK,
               LocalsTypeOK
      <4>2. CASE CowFault(p)
        BY <1>t, <1>r, <1>y, <4>2
           DEF CowFault, Locals, Goto, table, TypeOK, TableTypeOK,
               ThreadTypeOK, LocalsTypeOK
      <4>3. CASE BadAccess(p)
        BY <1>t, <1>r, <1>y, <4>3
           DEF BadAccess, Goto, table, locals, TypeOK, TableTypeOK,
               ThreadTypeOK, LocalsTypeOK
      <4>4. CASE ReadRef(p)
        BY <1>t, <1>r, <1>y, <4>4
           DEF ReadRef, Goto, table, locals, TypeOK, TableTypeOK,
               ThreadTypeOK, LocalsTypeOK
      <4>5. CASE ReusePage(p)
        BY <1>t, <1>r, <1>y, <4>5
           DEF ReusePage, Return, Goto, locals, table, Locals, TypeOK,
               TableTypeOK, ThreadTypeOK, LocalsTypeOK
      <4>6. CASE AllocCopy(p)
        BY <1>t, <1>r, <1>y, <4>6
           DEF AllocCopy, Goto, table, locals, TypeOK, TableTypeOK,
               ThreadTypeOK, LocalsTypeOK
      <4>7. CASE AllocCopyFails(p)
        BY <1>t, <1>r, <1>y, <4>7
           DEF AllocCopyFails, Goto, Locals, Fail, table, Return, TypeOK,
               TableTypeOK, ThreadTypeOK, LocalsTypeOK
      <4>8. CASE CopyPage(p)
        BY <1>t, <1>r, <1>y, <4>8
           DEF CopyPage, Goto, table, locals, TypeOK, TableTypeOK,
               ThreadTypeOK, LocalsTypeOK
      <4>9. CASE Copyout(p)
        BY <1>t, <1>r, <1>y, <4>9
           DEF Copyout, Locals, Goto, table, TypeOK, TableTypeOK,
               ThreadTypeOK, LocalsTypeOK
      <4>10. CASE CopyoutPage(p)
        BY <1>t, <1>r, <1>y, <4>10
           DEF CopyoutPage, Goto, locals, Fail, table, Return, Locals, TypeOK,
               TableTypeOK, ThreadTypeOK, LocalsTypeOK
      <4>11. CASE Deliver(p)
        BY <1>t, <1>r, <1>y, <4>11
           DEF Deliver, Goto, table, TypeOK, TableTypeOK, ThreadTypeOK,
               LocalsTypeOK
      <4>12. CASE CopyoutDone(p)
        BY <1>t, <1>r, <1>y, <4>12
           DEF CopyoutDone, Return, table, Goto, Locals, TypeOK, TableTypeOK,
               ThreadTypeOK, LocalsTypeOK
      <4>13. CASE DropReference(p)
        BY <1>t, <1>r, <1>y, <4>13
           DEF DropReference, Goto, table, locals, TypeOK, TableTypeOK,
               ThreadTypeOK, LocalsTypeOK
      <4>14. CASE PushPage(p)
        BY <1>t, <1>r, <1>y, <4>14
           DEF PushPage, Goto, table, locals, TypeOK, TableTypeOK,
               ThreadTypeOK, LocalsTypeOK
      <4>15. CASE CopyDone(p)
        BY <1>t, <1>r, <1>y, <4>15
           DEF CopyDone, Return, Goto, locals, table, Locals, TypeOK,
               TableTypeOK, ThreadTypeOK, LocalsTypeOK
      <4>16. CASE ResizeDone(p)
        BY <1>t, <1>r, <1>y, <4>16
           DEF ResizeDone, Return, Goto, Locals, TypeOK, TableTypeOK,
               ThreadTypeOK, LocalsTypeOK
      <4>17. CASE UncopyDone(p)
        BY <1>t, <1>r, <1>y, <4>17
           DEF UncopyDone, table, TypeOK, TableTypeOK, ThreadTypeOK,
               LocalsTypeOK
      <4>18. CASE FreeprocDone(p)
        BY <1>t, <1>r, <1>y, <4>18
           DEF LocalsInv, LocalsAt, Forking, FreeprocDone, Return, Goto, Locals, TypeOK, TableTypeOK,
               ThreadTypeOK, LocalsTypeOK
      <4>19. CASE Fork(p)
        BY <1>t, <1>r, <1>y, <4>19
           DEF Fork, Locals, Goto, TypeOK, TableTypeOK, ThreadTypeOK,
               LocalsTypeOK
      <4>20. CASE AllocRoot(p)
        BY <1>t, <1>r, <1>y, <4>20
           DEF AllocRoot, Goto, table, TypeOK, TableTypeOK, ThreadTypeOK,
               LocalsTypeOK
      <4>21. CASE WalkAlloc(p)
        BY <1>t, <1>r, <1>y, <4>21
           DEF WalkAlloc, table, locals, TypeOK, TableTypeOK, ThreadTypeOK,
               LocalsTypeOK
      <4>22. CASE ShareMapping(p)
        BY <1>t, <1>r, <1>y, <4>22
           DEF ShareMapping, Goto, table, locals, TypeOK, TableTypeOK,
               ThreadTypeOK, LocalsTypeOK
      <4>23. CASE CountMapping(p)
        BY <1>t, <1>r, <1>y, <4>23
           DEF CountMapping, Goto, table, TypeOK, TableTypeOK, ThreadTypeOK,
               LocalsTypeOK
      <4>24. CASE UvmcopyFails(p)
        BY <1>t, <1>r, <1>y, <4>24
           DEF UvmcopyFails, Goto, table, TypeOK, TableTypeOK, ThreadTypeOK,
               LocalsTypeOK
      <4>25. CASE ForkDone(p)
        BY <1>t, <1>r, <1>y, <4>25
           DEF ForkDone, Locals, TypeOK, TableTypeOK, ThreadTypeOK,
               LocalsTypeOK
      <4>26. CASE Grow(p)
        BY <1>t, <1>r, <1>y, <4>26
           DEF Grow, Locals, Goto, table, TypeOK, TableTypeOK, ThreadTypeOK,
               LocalsTypeOK
      <4>27. CASE GrowAlloc(p)
        BY <1>t, <1>r, <1>y, <4>27
           DEF GrowAlloc, Goto, table, TypeOK, TableTypeOK, ThreadTypeOK,
               LocalsTypeOK
      <4>28. CASE GrowMap(p)
        BY <1>t, <1>r, <1>y, <4>28
           DEF GrowMap, Goto, table, TypeOK, TableTypeOK, ThreadTypeOK,
               LocalsTypeOK
      <4>29. CASE GrowMapFails(p)
        BY <1>t, <1>r, <1>y, <4>29
           DEF GrowMapFails, Goto, table, TypeOK, TableTypeOK, ThreadTypeOK,
               LocalsTypeOK
      <4>30. CASE GrowDone(p)
        BY <1>t, <1>r, <1>y, <4>30
           DEF GrowDone, Return, Goto, Locals, TypeOK, TableTypeOK,
               ThreadTypeOK, LocalsTypeOK
      <4>31. CASE Shrink(p)
        BY <1>t, <1>r, <1>y, <4>31
           DEF Shrink, Locals, Goto, table, TypeOK, TableTypeOK, ThreadTypeOK,
               LocalsTypeOK
      <4>32. CASE Exit(p)
        BY <1>t, <1>r, <1>y, <4>32
           DEF Exit, Goto, locals, TypeOK, TableTypeOK, ThreadTypeOK,
               LocalsTypeOK
      <4>33. CASE Wait(p)
        BY <1>t, <1>r, <1>y, <4>33
           DEF Wait, Locals, Goto, table, TypeOK, TableTypeOK, ThreadTypeOK,
               LocalsTypeOK
      <4>34. CASE WaitReap(p)
        BY <1>t, <1>r, <1>y, <4>34
           DEF WaitReap, Goto, table, TypeOK, TableTypeOK, ThreadTypeOK,
               LocalsTypeOK
      <4> QED
        BY <4>1, <4>2, <4>3, <4>4, <4>5, <4>6, <4>7, <4>8, <4>9, <4>10, <4>11,
            <4>12, <4>13, <4>14, <4>15, <4>16, <4>17, <4>18, <4>19, <4>20, <4>21,
            <4>22, <4>23, <4>24, <4>25, <4>26, <4>27, <4>28, <4>29, <4>30, <4>31,
            <4>32, <4>33, <4>34
           DEF UserStep, KernelStep
    <3> QED
      BY <2>p
  <2>o. CASE q # p
    <3>1. CASE ForkDone(p) /\ q = tgt[p]
      BY <1>t, <2>o, <3>1
         DEF ForkDone, TypeOK, TableTypeOK, ThreadTypeOK
    <3>2. CASE FreeprocDone(p) /\ q = tgt[p]
      <4>1. pc[q] = "off"
        BY <1>t, <2>o, <3>2, TargetFacts
      <4>2. pc'[q] = pc[q] /\ state'[q] = "UNUSED"
        BY <1>t, <2>o, <3>2
           DEF FreeprocDone, Return, Goto, TypeOK, TableTypeOK, ThreadTypeOK
      <4> QED
        BY <4>1, <4>2
    <3> QED
      BY <1>t, <1>f, <2>o, <3>1, <3>2 DEF TargetInv
  <2> QED
    BY <2>p, <2>o
<1>2. ASSUME NEW q \in Proc, q # p PROVE TargetAt(q)'
  <2>1. CASE tgt[q] = q
    BY <1>f, <1>2, <2>1 DEF TargetAt
  <2>2. CASE tgt[q] # q
    <3>c. tgt[q] \in Proc /\ TargetAt(q)
      BY <1>t DEF TypeOK, ThreadTypeOK, LocalsTypeOK, TargetInv
    <3>1. tgt[q] # p /\ tgt[q] # tgt[p] /\ q # tgt[p]
      BY <1>t, <1>r, <1>y, <1>2, <2>2, TargetFacts
    <3>2. state'[tgt[q]] = state[tgt[q]]
      BY <1>f, <2>2, <3>c, <3>1 DEF TargetAt
    <3>3. state[tgt[q]] = "ZOMBIE" => parent'[tgt[q]] = parent[tgt[q]]
      BY <1>f, <1>2, <2>2, <3>c, <3>1 DEF TargetAt
    <3>4. pc'[q] = pc[q] /\ ret'[q] = ret[q] /\ tgt'[q] = tgt[q]
      BY <1>f, <1>2, <3>1
    <3> QED
      BY <3>c, <3>2, <3>3, <3>4 DEF TargetAt
  <2> QED
    BY <2>1, <2>2
<1>3. TargetAt(p)'
  <2>1. CASE UserStore(p)
    BY <1>t, <1>r, <1>y, <2>1
       DEF UserStore, table, locals, LocalsInv, LocalsAt, TargetInv, TargetAt,
           Resolving, Forking, Growing, Freeing, TypeOK, TableTypeOK,
           ThreadTypeOK, LocalsTypeOK
  <2>2. CASE CowFault(p)
    BY <1>t, <1>r, <1>y, <2>2
       DEF CowFault, Locals, Goto, table, LocalsInv, LocalsAt, TargetInv,
           TargetAt, Resolving, Forking, Growing, Freeing, TypeOK, TableTypeOK,
           ThreadTypeOK, LocalsTypeOK
  <2>3. CASE BadAccess(p)
    BY <1>t, <1>r, <1>y, <2>3
       DEF BadAccess, Goto, table, locals, LocalsInv, LocalsAt, TargetInv,
           TargetAt, Resolving, Forking, Growing, Freeing, TypeOK, TableTypeOK,
           ThreadTypeOK, LocalsTypeOK
  <2>4. CASE ReadRef(p)
    BY <1>t, <1>r, <1>y, <2>4
       DEF ReadRef, Goto, table, locals, LocalsInv, LocalsAt, TargetInv,
           TargetAt, Resolving, Forking, Growing, Freeing, TypeOK, TableTypeOK,
           ThreadTypeOK, LocalsTypeOK
  <2>5. CASE ReusePage(p)
    BY <1>t, <1>r, <1>y, <2>5
       DEF ReusePage, Return, Goto, locals, table, Locals, LocalsInv,
           LocalsAt, TargetInv, TargetAt, Resolving, Forking, Growing, Freeing,
           TypeOK, TableTypeOK, ThreadTypeOK, LocalsTypeOK
  <2>6. CASE AllocCopy(p)
    BY <1>t, <1>r, <1>y, <2>6
       DEF AllocCopy, Goto, table, locals, LocalsInv, LocalsAt, TargetInv,
           TargetAt, Resolving, Forking, Growing, Freeing, TypeOK, TableTypeOK,
           ThreadTypeOK, LocalsTypeOK
  <2>7. CASE AllocCopyFails(p)
    BY <1>t, <1>r, <1>y, <2>7
       DEF AllocCopyFails, Goto, Locals, Fail, table, Return, LocalsInv,
           LocalsAt, TargetInv, TargetAt, Resolving, Forking, Growing, Freeing,
           TypeOK, TableTypeOK, ThreadTypeOK, LocalsTypeOK
  <2>8. CASE CopyPage(p)
    BY <1>t, <1>r, <1>y, <2>8
       DEF CopyPage, Goto, table, locals, LocalsInv, LocalsAt, TargetInv,
           TargetAt, Resolving, Forking, Growing, Freeing, TypeOK, TableTypeOK,
           ThreadTypeOK, LocalsTypeOK
  <2>9. CASE Copyout(p)
    BY <1>t, <1>r, <1>y, <2>9
       DEF Copyout, Locals, Goto, table, LocalsInv, LocalsAt, TargetInv,
           TargetAt, Resolving, Forking, Growing, Freeing, TypeOK, TableTypeOK,
           ThreadTypeOK, LocalsTypeOK
  <2>10. CASE CopyoutPage(p)
    BY <1>t, <1>r, <1>y, <2>10
       DEF CopyoutPage, Goto, locals, Fail, table, Return, Locals, LocalsInv,
           LocalsAt, TargetInv, TargetAt, Resolving, Forking, Growing, Freeing,
           TypeOK, TableTypeOK, ThreadTypeOK, LocalsTypeOK
  <2>11. CASE Deliver(p)
    BY <1>t, <1>r, <1>y, <2>11
       DEF Deliver, Goto, table, LocalsInv, LocalsAt, TargetInv, TargetAt,
           Resolving, Forking, Growing, Freeing, TypeOK, TableTypeOK,
           ThreadTypeOK, LocalsTypeOK
  <2>12. CASE CopyoutDone(p)
    BY <1>t, <1>r, <1>y, <2>12
       DEF CopyoutDone, Return, table, Goto, Locals, LocalsInv, LocalsAt,
           TargetInv, TargetAt, Resolving, Forking, Growing, Freeing, TypeOK,
           TableTypeOK, ThreadTypeOK, LocalsTypeOK
  <2>13. CASE DropReference(p)
    BY <1>t, <1>r, <1>y, <2>13
       DEF DropReference, Goto, table, locals, LocalsInv, LocalsAt, TargetInv,
           TargetAt, Resolving, Forking, Growing, Freeing, TypeOK, TableTypeOK,
           ThreadTypeOK, LocalsTypeOK
  <2>14. CASE PushPage(p)
    BY <1>t, <1>r, <1>y, <2>14
       DEF PushPage, Goto, table, locals, LocalsInv, LocalsAt, TargetInv,
           TargetAt, Resolving, Forking, Growing, Freeing, TypeOK, TableTypeOK,
           ThreadTypeOK, LocalsTypeOK
  <2>15. CASE CopyDone(p)
    BY <1>t, <1>r, <1>y, <2>15
       DEF CopyDone, Return, Goto, locals, table, Locals, LocalsInv, LocalsAt,
           TargetInv, TargetAt, Resolving, Forking, Growing, Freeing, TypeOK,
           TableTypeOK, ThreadTypeOK, LocalsTypeOK
  <2>16. CASE ResizeDone(p)
    BY <1>t, <1>r, <1>y, <2>16
       DEF ResizeDone, Return, Goto, Locals, LocalsInv, LocalsAt, TargetInv,
           TargetAt, Resolving, Forking, Growing, Freeing, TypeOK, TableTypeOK,
           ThreadTypeOK, LocalsTypeOK
  <2>17. CASE UncopyDone(p)
    BY <1>t, <1>r, <1>y, <2>17
       DEF UncopyDone, table, LocalsInv, LocalsAt, TargetInv, TargetAt,
           Resolving, Forking, Growing, Freeing, TypeOK, TableTypeOK,
           ThreadTypeOK, LocalsTypeOK
  <2>18. CASE FreeprocDone(p)
    BY <1>t, <1>r, <1>y, <2>18
       DEF FreeprocDone, Return, Goto, Locals, LocalsInv, LocalsAt, TargetInv,
           TargetAt, Resolving, Forking, Growing, Freeing, TypeOK, TableTypeOK,
           ThreadTypeOK, LocalsTypeOK
  <2>19. CASE Fork(p)
    BY <1>t, <1>r, <1>y, <2>19
       DEF Fork, Locals, Goto, LocalsInv, LocalsAt, TargetInv, TargetAt,
           Resolving, Forking, Growing, Freeing, TypeOK, TableTypeOK,
           ThreadTypeOK, LocalsTypeOK
  <2>20. CASE AllocRoot(p)
    BY <1>t, <1>r, <1>y, <2>20
       DEF AllocRoot, Goto, table, LocalsInv, LocalsAt, TargetInv, TargetAt,
           Resolving, Forking, Growing, Freeing, TypeOK, TableTypeOK,
           ThreadTypeOK, LocalsTypeOK
  <2>21. CASE WalkAlloc(p)
    BY <1>t, <1>r, <1>y, <2>21
       DEF WalkAlloc, table, locals, LocalsInv, LocalsAt, TargetInv, TargetAt,
           Resolving, Forking, Growing, Freeing, TypeOK, TableTypeOK,
           ThreadTypeOK, LocalsTypeOK
  <2>22. CASE ShareMapping(p)
    BY <1>t, <1>r, <1>y, <2>22
       DEF ShareMapping, Goto, table, locals, LocalsInv, LocalsAt, TargetInv,
           TargetAt, Resolving, Forking, Growing, Freeing, TypeOK, TableTypeOK,
           ThreadTypeOK, LocalsTypeOK
  <2>23. CASE CountMapping(p)
    BY <1>t, <1>r, <1>y, <2>23
       DEF CountMapping, Goto, table, LocalsInv, LocalsAt, TargetInv,
           TargetAt, Resolving, Forking, Growing, Freeing, TypeOK, TableTypeOK,
           ThreadTypeOK, LocalsTypeOK
  <2>24. CASE UvmcopyFails(p)
    BY <1>t, <1>r, <1>y, <2>24
       DEF UvmcopyFails, Goto, table, LocalsInv, LocalsAt, TargetInv,
           TargetAt, Resolving, Forking, Growing, Freeing, TypeOK, TableTypeOK,
           ThreadTypeOK, LocalsTypeOK
  <2>25. CASE ForkDone(p)
    BY <1>t, <1>r, <1>y, <2>25
       DEF ForkDone, Locals, LocalsInv, LocalsAt, TargetInv, TargetAt,
           Resolving, Forking, Growing, Freeing, TypeOK, TableTypeOK,
           ThreadTypeOK, LocalsTypeOK
  <2>26. CASE Grow(p)
    BY <1>t, <1>r, <1>y, <2>26
       DEF Grow, Locals, Goto, table, LocalsInv, LocalsAt, TargetInv,
           TargetAt, Resolving, Forking, Growing, Freeing, TypeOK, TableTypeOK,
           ThreadTypeOK, LocalsTypeOK
  <2>27. CASE GrowAlloc(p)
    BY <1>t, <1>r, <1>y, <2>27
       DEF GrowAlloc, Goto, table, LocalsInv, LocalsAt, TargetInv, TargetAt,
           Resolving, Forking, Growing, Freeing, TypeOK, TableTypeOK,
           ThreadTypeOK, LocalsTypeOK
  <2>28. CASE GrowMap(p)
    BY <1>t, <1>r, <1>y, <2>28
       DEF GrowMap, Goto, table, LocalsInv, LocalsAt, TargetInv, TargetAt,
           Resolving, Forking, Growing, Freeing, TypeOK, TableTypeOK,
           ThreadTypeOK, LocalsTypeOK
  <2>29. CASE GrowMapFails(p)
    BY <1>t, <1>r, <1>y, <2>29
       DEF GrowMapFails, Goto, table, LocalsInv, LocalsAt, TargetInv,
           TargetAt, Resolving, Forking, Growing, Freeing, TypeOK, TableTypeOK,
           ThreadTypeOK, LocalsTypeOK
  <2>30. CASE GrowDone(p)
    BY <1>t, <1>r, <1>y, <2>30
       DEF GrowDone, Return, Goto, Locals, LocalsInv, LocalsAt, TargetInv,
           TargetAt, Resolving, Forking, Growing, Freeing, TypeOK, TableTypeOK,
           ThreadTypeOK, LocalsTypeOK
  <2>31. CASE Shrink(p)
    BY <1>t, <1>r, <1>y, <2>31
       DEF Shrink, Locals, Goto, table, LocalsInv, LocalsAt, TargetInv,
           TargetAt, Resolving, Forking, Growing, Freeing, TypeOK, TableTypeOK,
           ThreadTypeOK, LocalsTypeOK
  <2>32. CASE Exit(p)
    BY <1>t, <1>r, <1>y, <2>32
       DEF Exit, Goto, locals, LocalsInv, LocalsAt, TargetInv, TargetAt,
           Resolving, Forking, Growing, Freeing, TypeOK, TableTypeOK,
           ThreadTypeOK, LocalsTypeOK
  <2>33. CASE Wait(p)
    BY <1>t, <1>r, <1>y, <2>33
       DEF Wait, Locals, Goto, table, LocalsInv, LocalsAt, TargetInv,
           TargetAt, Resolving, Forking, Growing, Freeing, TypeOK, TableTypeOK,
           ThreadTypeOK, LocalsTypeOK
  <2>34. CASE WaitReap(p)
    BY <1>t, <1>r, <1>y, <2>34
       DEF WaitReap, Goto, table, LocalsInv, LocalsAt, TargetInv, TargetAt,
           Resolving, Forking, Growing, Freeing, TypeOK, TableTypeOK,
           ThreadTypeOK, LocalsTypeOK
  <2> QED
    BY <2>1, <2>2, <2>3, <2>4, <2>5, <2>6, <2>7, <2>8, <2>9, <2>10, <2>11,
        <2>12, <2>13, <2>14, <2>15, <2>16, <2>17, <2>18, <2>19, <2>20, <2>21,
        <2>22, <2>23, <2>24, <2>25, <2>26, <2>27, <2>28, <2>29, <2>30, <2>31,
        <2>32, <2>33, <2>34
       DEF UserStep, KernelStep
<1>4. \/ tgt'[p] \in {p, tgt[p]}
      \/ Fork(p) /\ state[tgt'[p]] = "UNUSED"
      \/ Wait(p) /\ state[tgt'[p]] = "ZOMBIE" /\ parent[tgt'[p]] = p
  <2>1. CASE UserStore(p)
    BY <1>t, <2>1
       DEF UserStore, locals, TypeOK, ThreadTypeOK, LocalsTypeOK
  <2>2. CASE CowFault(p)
    BY <1>t, <2>2
       DEF CowFault, Locals, TypeOK, ThreadTypeOK, LocalsTypeOK
  <2>3. CASE BadAccess(p)
    BY <1>t, <2>3
       DEF BadAccess, locals, TypeOK, ThreadTypeOK, LocalsTypeOK
  <2>4. CASE ReadRef(p)
    BY <1>t, <2>4
       DEF ReadRef, locals, TypeOK, ThreadTypeOK, LocalsTypeOK
  <2>5. CASE ReusePage(p)
    BY <1>t, <2>5
       DEF ReusePage, Return, locals, Locals, TypeOK, ThreadTypeOK,
           LocalsTypeOK
  <2>6. CASE AllocCopy(p)
    BY <1>t, <2>6
       DEF AllocCopy, locals, TypeOK, ThreadTypeOK, LocalsTypeOK
  <2>7. CASE AllocCopyFails(p)
    BY <1>t, <2>7
       DEF AllocCopyFails, Locals, Fail, Return, TypeOK, ThreadTypeOK,
           LocalsTypeOK
  <2>8. CASE CopyPage(p)
    BY <1>t, <2>8
       DEF CopyPage, locals, TypeOK, ThreadTypeOK, LocalsTypeOK
  <2>9. CASE Copyout(p)
    BY <1>t, <2>9
       DEF Copyout, Locals, TypeOK, ThreadTypeOK, LocalsTypeOK
  <2>10. CASE CopyoutPage(p)
    BY <1>t, <2>10
       DEF CopyoutPage, locals, Fail, Return, Locals, TypeOK, ThreadTypeOK,
           LocalsTypeOK
  <2>11. CASE Deliver(p)
    BY <1>t, <2>11
       DEF Deliver, TypeOK, ThreadTypeOK, LocalsTypeOK
  <2>12. CASE CopyoutDone(p)
    BY <1>t, <2>12
       DEF CopyoutDone, Return, Locals, TypeOK, ThreadTypeOK, LocalsTypeOK
  <2>13. CASE DropReference(p)
    BY <1>t, <2>13
       DEF DropReference, locals, TypeOK, ThreadTypeOK, LocalsTypeOK
  <2>14. CASE PushPage(p)
    BY <1>t, <2>14
       DEF PushPage, locals, TypeOK, ThreadTypeOK, LocalsTypeOK
  <2>15. CASE CopyDone(p)
    BY <1>t, <2>15
       DEF CopyDone, Return, locals, Locals, TypeOK, ThreadTypeOK,
           LocalsTypeOK
  <2>16. CASE ResizeDone(p)
    BY <1>t, <2>16
       DEF ResizeDone, Return, Locals, TypeOK, ThreadTypeOK, LocalsTypeOK
  <2>17. CASE UncopyDone(p)
    BY <1>t, <2>17
       DEF UncopyDone, TypeOK, ThreadTypeOK, LocalsTypeOK
  <2>18. CASE FreeprocDone(p)
    BY <1>t, <2>18
       DEF FreeprocDone, Return, Locals, TypeOK, ThreadTypeOK, LocalsTypeOK
  <2>19. CASE Fork(p)
    BY <1>t, <2>19
       DEF Fork, Locals, TypeOK, ThreadTypeOK, LocalsTypeOK
  <2>20. CASE AllocRoot(p)
    BY <1>t, <2>20
       DEF AllocRoot, TypeOK, ThreadTypeOK, LocalsTypeOK
  <2>21. CASE WalkAlloc(p)
    BY <1>t, <2>21
       DEF WalkAlloc, locals, TypeOK, ThreadTypeOK, LocalsTypeOK
  <2>22. CASE ShareMapping(p)
    BY <1>t, <2>22
       DEF ShareMapping, locals, TypeOK, ThreadTypeOK, LocalsTypeOK
  <2>23. CASE CountMapping(p)
    BY <1>t, <2>23
       DEF CountMapping, TypeOK, ThreadTypeOK, LocalsTypeOK
  <2>24. CASE UvmcopyFails(p)
    BY <1>t, <2>24
       DEF UvmcopyFails, TypeOK, ThreadTypeOK, LocalsTypeOK
  <2>25. CASE ForkDone(p)
    BY <1>t, <2>25
       DEF ForkDone, Locals, TypeOK, ThreadTypeOK, LocalsTypeOK
  <2>26. CASE Grow(p)
    BY <1>t, <2>26
       DEF Grow, Locals, TypeOK, ThreadTypeOK, LocalsTypeOK
  <2>27. CASE GrowAlloc(p)
    BY <1>t, <2>27
       DEF GrowAlloc, TypeOK, ThreadTypeOK, LocalsTypeOK
  <2>28. CASE GrowMap(p)
    BY <1>t, <2>28
       DEF GrowMap, TypeOK, ThreadTypeOK, LocalsTypeOK
  <2>29. CASE GrowMapFails(p)
    BY <1>t, <2>29
       DEF GrowMapFails, TypeOK, ThreadTypeOK, LocalsTypeOK
  <2>30. CASE GrowDone(p)
    BY <1>t, <2>30
       DEF GrowDone, Return, Locals, TypeOK, ThreadTypeOK, LocalsTypeOK
  <2>31. CASE Shrink(p)
    BY <1>t, <2>31
       DEF Shrink, Locals, TypeOK, ThreadTypeOK, LocalsTypeOK
  <2>32. CASE Exit(p)
    BY <1>t, <2>32
       DEF Exit, locals, TypeOK, ThreadTypeOK, LocalsTypeOK
  <2>33. CASE Wait(p)
    BY <1>t, <2>33
       DEF Wait, Locals, TypeOK, ThreadTypeOK, LocalsTypeOK
  <2>34. CASE WaitReap(p)
    BY <1>t, <2>34
       DEF WaitReap, TypeOK, ThreadTypeOK, LocalsTypeOK
  <2> QED
    BY <2>1, <2>2, <2>3, <2>4, <2>5, <2>6, <2>7, <2>8, <2>9, <2>10, <2>11,
        <2>12, <2>13, <2>14, <2>15, <2>16, <2>17, <2>18, <2>19, <2>20, <2>21,
        <2>22, <2>23, <2>24, <2>25, <2>26, <2>27, <2>28, <2>29, <2>30, <2>31,
        <2>32, <2>33, <2>34
       DEF UserStep, KernelStep
<1>5. ASSUME NEW q \in Proc, q # p, tgt'[p] # p, tgt'[q] # q
      PROVE  tgt'[p] # tgt'[q]
  <2>1. tgt'[q] = tgt[q] /\ tgt[q] # q /\ TargetAt(q)
    BY <1>t, <1>f, <1>5 DEF TargetInv
  <2> QED
    BY <1>t, <1>4, <1>5, <2>1 DEF TargetInv, TargetAt
<1>6. ASSUME NEW q \in Proc, NEW r \in Proc, q # p, r # p,
             tgt'[q] # q, tgt'[r] # r, tgt'[q] = tgt'[r]
      PROVE  q = r
  BY <1>t, <1>f, <1>6 DEF TargetInv
<1> QED
  BY <1>1, <1>2, <1>3, <1>5, <1>6 DEF TargetInv

------------------------------------------------------------------------------
(* What a thread frees belongs to its own process or to the one it works on. *)
LEMMA TodoOwner ==
    ASSUME TypeOK, LocalsInv, TodoInv, NEW p \in Proc, NEW s \in todo[p]
    PROVE  /\ s \in Slot /\ s[1] \in {p, tgt[p]}
           /\ pc[p] \in Freeing
<1>1. s \in Slot /\ TodoAt(p) /\ LocalsAt(p) /\ tgt[p] \in Proc
  BY DEF TypeOK, ThreadTypeOK, LocalsTypeOK, TodoInv, LocalsInv
<1>2. /\ sz[p] \in 0 .. MaxVA /\ lim[p] \in 0 .. MaxVA
      /\ MaxVA \in 0 .. MaxVA /\ 0 \in 0 .. MaxVA
  BY AddressAssumption DEF TypeOK, TableTypeOK, ThreadTypeOK, LocalsTypeOK
<1>3. pc[p] \in Freeing
  BY <1>1 DEF TodoAt
<1>4. ret[p] # "none" /\ ret[p] \in Reason
  BY <1>1, <1>3
     DEF LocalsAt, Freeing, Forking, Growing, TypeOK, ThreadTypeOK, LocalsTypeOK
<1>m. \A c \in Proc, a, b \in 0 .. MaxVA :
         \A t \in MemSlots(c, a, b) : t[1] = c
  BY MemSlotsFacts, KeyFacts, SlotFacts
<1>h. <<p, Hand>>[1] = p
  OBVIOUS
<1>5. CASE ret[p] \in {"fault", "copyout", "wait"}
  BY <1>1, <1>3, <1>5, <1>h DEF TodoAt
<1>6. CASE ret[p] = "ungrow"
  BY <1>1, <1>2, <1>3, <1>6, <1>h, <1>m DEF TodoAt
<1>7. CASE ret[p] = "shrink"
  BY <1>1, <1>2, <1>3, <1>7, <1>m DEF TodoAt
<1>8. CASE ret[p] = "uncopy"
  BY <1>1, <1>2, <1>3, <1>8, <1>m DEF TodoAt
<1>9. CASE ret[p] = "freeproc"
  BY <1>1, <1>3, <1>9 DEF TodoAt
<1> QED
  BY <1>1, <1>3, <1>4, <1>5, <1>6, <1>7, <1>8, <1>9 DEF Reason

(* A step touches the PTEs of the thread's own process and of the process  *)
(* it works on, or the trapframe of an unused one.                         *)
LEMMA SlotFrame ==
    ASSUME IInv, NEW p \in Proc, UserStep(p) \/ KernelStep(p),
           NEW q \in Proc, q # p, q # tgt[p], NEW k \in Key
    PROVE  /\ \/ slot'[<<q, k>>] = slot[<<q, k>>]
              \/ Fork(p) /\ state[q] = "UNUSED"
           /\ <<q, k>> \in writable' <=> <<q, k>> \in writable
           /\ <<q, k>> \in cow' <=> <<q, k>> \in cow
           /\ <<q, k>> \in user' <=> <<q, k>> \in user
<1> DEFINE s == <<q, k>>
<1>t. TypeOK /\ LocalsInv /\ TargetInv /\ TodoInv
  BY DEF IInv
<1>s. s \in Slot /\ s[1] = q
  BY SlotFacts
<1>d. \A j : <<p, j>> # s /\ <<tgt[p], j>> # s
  OBVIOUS
<1>o. /\ \A t \in todo[p] : t # s
      /\ pc[p] = "push" => at[p] \in todo[p]
  BY <1>t, <1>s, TodoOwner DEF TodoInv, TodoAt
<1>h. Here(p) # s /\ Child(p) # s /\ TableSlot(p) # s
  BY <1>d DEF Here, Child, TableSlot
<1> HIDE DEF s
<1> SUFFICES /\ slot'[s] = slot[s] \/ (Fork(p) /\ state[q] = "UNUSED")
             /\ s \in writable' <=> s \in writable
             /\ s \in cow' <=> s \in cow
             /\ s \in user' <=> s \in user
  BY DEF s
<1>1. CASE UserStore(p)
  BY <1>t, <1>s, <1>d, <1>o, <1>h, <1>1
     DEF UserStore, pte, TypeOK, PteTypeOK
<1>2. CASE CowFault(p)
  BY <1>t, <1>s, <1>d, <1>o, <1>h, <1>2
     DEF CowFault, pte, TypeOK, PteTypeOK
<1>3. CASE BadAccess(p)
  BY <1>t, <1>s, <1>d, <1>o, <1>h, <1>3
     DEF BadAccess, pte, TypeOK, PteTypeOK
<1>4. CASE ReadRef(p)
  BY <1>t, <1>s, <1>d, <1>o, <1>h, <1>4
     DEF ReadRef, pte, TypeOK, PteTypeOK
<1>5. CASE ReusePage(p)
  BY <1>t, <1>s, <1>d, <1>o, <1>h, <1>5
     DEF ReusePage, MakeWritable, TypeOK, PteTypeOK
<1>6. CASE AllocCopy(p)
  BY <1>t, <1>s, <1>d, <1>o, <1>h, <1>6
     DEF AllocCopy, TypeOK, PteTypeOK
<1>7. CASE AllocCopyFails(p)
  BY <1>t, <1>s, <1>d, <1>o, <1>h, <1>7
     DEF AllocCopyFails, pte, TypeOK, PteTypeOK
<1>8. CASE CopyPage(p)
  BY <1>t, <1>s, <1>d, <1>o, <1>h, <1>8
     DEF CopyPage, MakeWritable, TypeOK, PteTypeOK
<1>9. CASE Copyout(p)
  BY <1>t, <1>s, <1>d, <1>o, <1>h, <1>9
     DEF Copyout, pte, TypeOK, PteTypeOK
<1>10. CASE CopyoutPage(p)
  BY <1>t, <1>s, <1>d, <1>o, <1>h, <1>10
     DEF CopyoutPage, pte, TypeOK, PteTypeOK
<1>11. CASE Deliver(p)
  BY <1>t, <1>s, <1>d, <1>o, <1>h, <1>11
     DEF Deliver, pte, TypeOK, PteTypeOK
<1>12. CASE CopyoutDone(p)
  BY <1>t, <1>s, <1>d, <1>o, <1>h, <1>12
     DEF CopyoutDone, pte, TypeOK, PteTypeOK
<1>13. CASE DropReference(p)
  BY <1>t, <1>s, <1>d, <1>o, <1>h, <1>13
     DEF DropReference, ClearSlot, pte, NextToFree, TypeOK, PteTypeOK
<1>14. CASE PushPage(p)
  BY <1>t, <1>s, <1>d, <1>o, <1>h, <1>14
     DEF PushPage, ClearSlot, TypeOK, PteTypeOK
<1>15. CASE CopyDone(p)
  BY <1>t, <1>s, <1>d, <1>o, <1>h, <1>15
     DEF CopyDone, pte, TypeOK, PteTypeOK
<1>16. CASE ResizeDone(p)
  BY <1>t, <1>s, <1>d, <1>o, <1>h, <1>16
     DEF ResizeDone, pte, TypeOK, PteTypeOK
<1>17. CASE UncopyDone(p)
  BY <1>t, <1>s, <1>d, <1>o, <1>h, <1>17
     DEF UncopyDone, pte, TypeOK, PteTypeOK
<1>18. CASE FreeprocDone(p)
  BY <1>t, <1>s, <1>d, <1>o, <1>h, <1>18
     DEF FreeprocDone, pte, TypeOK, PteTypeOK
<1>19. CASE Fork(p)
  <2>1. PICK c \in Proc, g \in Page :
           state[c] = "UNUSED" /\ slot' = [slot EXCEPT ![<<c, Trapframe>>] = g]
    BY <1>19 DEF Fork
  <2>2. slot'[s] = slot[s] \/ s = <<c, Trapframe>>
    BY <1>t, <1>s, <2>1 DEF TypeOK, PteTypeOK
  <2> QED
    <3>1. s = <<c, Trapframe>> => c = q
      BY <1>s
    <3> QED
      BY <1>19, <2>1, <2>2, <3>1 DEF Fork
<1>20. CASE AllocRoot(p)
  BY <1>t, <1>s, <1>d, <1>o, <1>h, <1>20
     DEF AllocRoot, TypeOK, PteTypeOK
<1>21. CASE WalkAlloc(p)
  BY <1>t, <1>s, <1>d, <1>o, <1>h, <1>21
     DEF WalkAlloc, TypeOK, PteTypeOK
<1>22. CASE ShareMapping(p)
  BY <1>t, <1>s, <1>d, <1>o, <1>h, <1>22
     DEF ShareMapping, TypeOK, PteTypeOK
<1>23. CASE CountMapping(p)
  BY <1>t, <1>s, <1>d, <1>o, <1>h, <1>23
     DEF CountMapping, pte, TypeOK, PteTypeOK
<1>24. CASE UvmcopyFails(p)
  BY <1>t, <1>s, <1>d, <1>o, <1>h, <1>24
     DEF UvmcopyFails, pte, TypeOK, PteTypeOK
<1>25. CASE ForkDone(p)
  BY <1>t, <1>s, <1>d, <1>o, <1>h, <1>25
     DEF ForkDone, pte, TypeOK, PteTypeOK
<1>26. CASE Grow(p)
  BY <1>t, <1>s, <1>d, <1>o, <1>h, <1>26
     DEF Grow, pte, TypeOK, PteTypeOK
<1>27. CASE GrowAlloc(p)
  BY <1>t, <1>s, <1>d, <1>o, <1>h, <1>27
     DEF GrowAlloc, TypeOK, PteTypeOK
<1>28. CASE GrowMap(p)
  BY <1>t, <1>s, <1>d, <1>o, <1>h, <1>28
     DEF GrowMap, TypeOK, PteTypeOK
<1>29. CASE GrowMapFails(p)
  BY <1>t, <1>s, <1>d, <1>o, <1>h, <1>29
     DEF GrowMapFails, pte, TypeOK, PteTypeOK
<1>30. CASE GrowDone(p)
  BY <1>t, <1>s, <1>d, <1>o, <1>h, <1>30
     DEF GrowDone, pte, TypeOK, PteTypeOK
<1>31. CASE Shrink(p)
  BY <1>t, <1>s, <1>d, <1>o, <1>h, <1>31
     DEF Shrink, pte, TypeOK, PteTypeOK
<1>32. CASE Exit(p)
  BY <1>t, <1>s, <1>d, <1>o, <1>h, <1>32
     DEF Exit, pte, TypeOK, PteTypeOK
<1>33. CASE Wait(p)
  BY <1>t, <1>s, <1>d, <1>o, <1>h, <1>33
     DEF Wait, pte, TypeOK, PteTypeOK
<1>34. CASE WaitReap(p)
  BY <1>t, <1>s, <1>d, <1>o, <1>h, <1>34
     DEF WaitReap, pte, TypeOK, PteTypeOK
<1> QED
  BY <1>1, <1>2, <1>3, <1>4, <1>5, <1>6, <1>7, <1>8, <1>9, <1>10, <1>11,
      <1>12, <1>13, <1>14, <1>15, <1>16, <1>17, <1>18, <1>19, <1>20, <1>21, <1>22,
      <1>23, <1>24, <1>25, <1>26, <1>27, <1>28, <1>29, <1>30, <1>31, <1>32, <1>33,
      <1>34
     DEF UserStep, KernelStep

(* Memory that is there by the size of the process. *)
LEMMA MappedMemory ==
    ASSUME IInv, NEW p \in Proc, NEW v \in VA
    PROVE  /\ state[p] = "RUNNABLE" /\ v < VisibleSz(p) => Mapped(<<p, Mem(v)>>)
           /\ state[p] = "RUNNABLE" /\ pc[p] \in Growing /\ v < va[p] =>
                 Mapped(<<p, Mem(v)>>)
           /\ \A q \in Proc :
                 tgt[q] = p /\ q # p /\ pc[q] = "uvmcopy" /\ v < va[q] =>
                    Mapped(<<p, Mem(v)>>)
           /\ /\ state[p] = "ZOMBIE" /\ v < sz[p]
              /\ \A q \in Proc : tgt[q] = p => ret[q] # "freeproc"
              => Mapped(<<p, Mem(v)>>)
<1>1. Mapped(<<p, Mem(v)>>) <=> HasPage(p, v)
  BY DEF IInv, MappingInv
<1>2. ASSUME NEW q \in Proc, tgt[q] = p, q # p, pc[q] = "uvmcopy"
      PROVE  state[p] = "USED"
  BY <1>2 DEF IInv, LocalsInv, LocalsAt, TargetInv, TargetAt, Forking
<1> QED
  BY <1>1, <1>2 DEF HasPage, RunningHas, ZombieHas, EmbryoHas

(* What freeproc() frees is mapped, or an address below its size. *)
LEMMA ProcSlotsMapped ==
    ASSUME NEW c \in Proc, NEW n \in 0 .. MaxVA, NEW s \in ProcSlots(c, n)
    PROVE  Mapped(s) \/ \E v \in VA : s = <<c, Mem(v)>> /\ v < n
<1>1. s \in Slot /\ s[1] = c
  BY ProcSlotsFacts
<1>2. s = <<c, s[2]>> /\ s[2] \in Key
  BY <1>1, SlotFacts
<1> QED
  BY <1>2, ProcSlotsFacts

(* A step keeps what is known of the slots a thread has yet to free. *)
LEMMA TodoStep ==
    ASSUME IInv, NEW p \in Proc, UserStep(p) \/ KernelStep(p)
    PROVE  TodoInv'
<1>t. TypeOK /\ LocalsInv /\ TargetInv /\ TodoInv
  BY DEF IInv
<1>r. pc[p] # "off" /\ state[p] = "RUNNABLE"
  BY Running
<1>y. tgt[p] \in Proc
  BY <1>t DEF TypeOK, ThreadTypeOK, LocalsTypeOK
<1>o. ASSUME NEW q \in Proc, q # p PROVE TodoAt(q)'
  <2>l. TodoAt(q) /\ tgt[q] \in Proc
    BY <1>t DEF TodoInv, TypeOK, ThreadTypeOK, LocalsTypeOK
  <2>1. /\ ret'[q] = ret[q] /\ tgt'[q] = tgt[q] /\ va'[q] = va[q]
        /\ lim'[q] = lim[q] /\ todo'[q] = todo[q] /\ at'[q] = at[q]
        /\ pc'[q] = pc[q] \/ (ForkDone(p) /\ q = tgt[p])
        /\ sz'[q] = sz[q] \/ q = tgt[p]
    BY <1>t, <1>o, Frame, TableFrame
  <2>2. CASE q = tgt[p]
    <3>1. pc[q] = "off"
      BY <1>t, <1>o, <2>2, TargetFacts
    <3>2. todo[q] = {} /\ at[q] = NoSlot
      BY <2>l, <3>1 DEF TodoAt, Freeing
    <3>3. pc'[q] \in {"off", "user"}
      BY <1>t, <1>o, <2>1, <2>2, <3>1
         DEF ForkDone, TypeOK, ThreadTypeOK, LocalsTypeOK
    <3> QED
      BY <2>1, <3>2, <3>3 DEF TodoAt
  <2>3. CASE q # tgt[p]
    <3>1. ASSUME NEW s \in todo[q] PROVE Mapped(s)'
      <4>1. s \in Slot /\ s[1] \in {q, tgt[q]} /\ pc[q] \in Freeing /\ Mapped(s)
        BY <1>t, <2>l, TodoOwner DEF TodoAt
      <4>2. s[1] # p /\ s[1] # tgt[p] /\ s[1] \in Proc /\ s[2] \in Key
            /\ s = <<s[1], s[2]>>
        BY <1>t, <1>o, <1>r, <2>3, <4>1, TargetFacts, SlotFacts DEF Freeing
      <4>3. state[s[1]] # "UNUSED"
        BY <1>t, <1>o, <2>l, <4>1 DEF TargetInv, TargetAt, Freeing
      <4>4. slot'[<<s[1], s[2]>>] = slot[<<s[1], s[2]>>]
        BY <4>2, <4>3, SlotFrame
      <4> QED
        BY <4>1, <4>2, <4>4 DEF Mapped
    <3>2. pc'[q] = pc[q] /\ sz'[q] = sz[q]
      BY <2>1, <2>3
    <3>3. Child(q)' = Child(q) /\ MemSlots(q, sz[q], MaxVA)' = MemSlots(q, sz[q], MaxVA)
          /\ MemSlots(q, lim[q], sz[q])' = MemSlots(q, lim[q], sz[q])
          /\ MemSlots(tgt[q], 0, MaxVA)' = MemSlots(tgt[q], 0, MaxVA)
      BY <2>1, <3>2 DEF Child, MemSlots
    <3> QED
      BY <2>l, <2>1, <3>1, <3>2, <3>3 DEF TodoAt
  <2> QED
    BY <2>2, <2>3
<1>p. TodoAt(p)'
  <2>l. TodoAt(p) /\ LocalsAt(p)
    BY <1>t DEF TodoInv, LocalsInv
  <2>e. pc[p] \notin Freeing => todo[p] = {}
    BY <2>l DEF TodoAt
  <2>v. /\ va[p] \in 0 .. MaxVA /\ lim[p] \in 0 .. MaxVA
        /\ sz[p] \in 0 .. MaxVA /\ sz[tgt[p]] \in 0 .. MaxVA
        /\ \A c \in Proc : sz[c] \in 0 .. MaxVA
        /\ 0 \in 0 .. MaxVA /\ MaxVA \in 0 .. MaxVA
    BY <1>t, <1>y, AddressAssumption
       DEF TypeOK, TableTypeOK, ThreadTypeOK, LocalsTypeOK
  <2>1. CASE UserStore(p)
    BY <1>t, <1>r, <1>y, <2>l, <2>e, <2>v, <2>1
       DEF UserStore, pte, table, locals, LocalsAt, TodoAt, Mapped, Child,
           Resolving, Forking, Growing, Freeing, TypeOK, PteTypeOK, ThreadTypeOK,
           LocalsTypeOK
  <2>2. CASE CowFault(p)
    BY <1>t, <1>r, <1>y, <2>l, <2>e, <2>v, <2>2
       DEF CowFault, Locals, Goto, pte, table, LocalsAt, TodoAt, Mapped,
           Child, Resolving, Forking, Growing, Freeing, TypeOK, PteTypeOK,
           ThreadTypeOK, LocalsTypeOK
  <2>3. CASE BadAccess(p)
    BY <1>t, <1>r, <1>y, <2>l, <2>e, <2>v, <2>3
       DEF BadAccess, Goto, pte, table, locals, LocalsAt, TodoAt, Mapped,
           Child, Resolving, Forking, Growing, Freeing, TypeOK, PteTypeOK,
           ThreadTypeOK, LocalsTypeOK
  <2>4. CASE ReadRef(p)
    BY <1>t, <1>r, <1>y, <2>l, <2>e, <2>v, <2>4
       DEF ReadRef, Goto, pte, table, locals, LocalsAt, TodoAt, Mapped, Child,
           Resolving, Forking, Growing, Freeing, TypeOK, PteTypeOK, ThreadTypeOK,
           LocalsTypeOK
  <2>5. CASE ReusePage(p)
    BY <1>t, <1>r, <1>y, <2>l, <2>e, <2>v, <2>5
       DEF ReusePage, Return, Goto, locals, table, Locals, LocalsAt, TodoAt,
           Mapped, Child, Resolving, Forking, Growing, Freeing, TypeOK, PteTypeOK,
           ThreadTypeOK, LocalsTypeOK
  <2>6. CASE AllocCopy(p)
    BY <1>t, <1>r, <1>y, <2>l, <2>e, <2>v, <2>6
       DEF AllocCopy, Goto, table, locals, LocalsAt, TodoAt, Mapped, Child,
           Resolving, Forking, Growing, Freeing, TypeOK, PteTypeOK, ThreadTypeOK,
           LocalsTypeOK
  <2>7. CASE AllocCopyFails(p)
    BY <1>t, <1>r, <1>y, <2>l, <2>e, <2>v, <2>7
       DEF AllocCopyFails, Goto, Locals, Fail, pte, table, Return, LocalsAt,
           TodoAt, Mapped, Child, Resolving, Forking, Growing, Freeing, TypeOK,
           PteTypeOK, ThreadTypeOK, LocalsTypeOK
  <2>8. CASE CopyPage(p)
    <3>1. Here(p) \in Slot /\ <<p, Hand>> \in Slot /\ Mapped(Here(p))
          /\ Here(p) # <<p, Hand>>
      <4>1. va[p] < MaxVA /\ Here(p) \in cow
        BY <1>t, <2>8, StepBounds DEF CopyPage, IInv, FlagInv, Resolving
      <4> QED
        BY <1>t, <4>1, HereFacts, KeyFacts, SlotFacts DEF Here, IInv, FlagInv
    <3>2. slot'[<<p, Hand>>] = slot[Here(p)]
      BY <1>t, <2>8, <3>1 DEF CopyPage, TypeOK, PteTypeOK
    <3>3. todo'[p] = {<<p, Hand>>} /\ pc'[p] = "free"
          /\ UNCHANGED <<table, locals, at>>
      BY <1>t, <2>8 DEF CopyPage, Goto, TypeOK, ThreadTypeOK
    <3> QED
      BY <2>l, <2>8, <3>1, <3>2, <3>3
         DEF CopyPage, TodoAt, LocalsAt, Mapped, Resolving, Freeing, Forking,
             Growing, locals
  <2>9. CASE Copyout(p)
    BY <1>t, <1>r, <1>y, <2>l, <2>e, <2>v, <2>9
       DEF Copyout, Locals, Goto, pte, table, LocalsAt, TodoAt, Mapped, Child,
           Resolving, Forking, Growing, Freeing, TypeOK, PteTypeOK, ThreadTypeOK,
           LocalsTypeOK
  <2>10. CASE CopyoutPage(p)
    BY <1>t, <1>r, <1>y, <2>l, <2>e, <2>v, <2>10
       DEF CopyoutPage, Goto, locals, Fail, pte, table, Return, Locals,
           LocalsAt, TodoAt, Mapped, Child, Resolving, Forking, Growing, Freeing,
           TypeOK, PteTypeOK, ThreadTypeOK, LocalsTypeOK
  <2>11. CASE Deliver(p)
    BY <1>t, <1>r, <1>y, <2>l, <2>e, <2>v, <2>11
       DEF Deliver, Goto, pte, table, LocalsAt, TodoAt, Mapped, Child,
           Resolving, Forking, Growing, Freeing, TypeOK, PteTypeOK, ThreadTypeOK,
           LocalsTypeOK
  <2>12. CASE CopyoutDone(p)
    BY <1>t, <1>r, <1>y, <2>l, <2>e, <2>v, <2>12
       DEF CopyoutDone, Return, pte, table, Goto, Locals, LocalsAt, TodoAt,
           Mapped, Child, Resolving, Forking, Growing, Freeing, TypeOK, PteTypeOK,
           ThreadTypeOK, LocalsTypeOK
  <2>13. CASE DropReference(p)
    <3>1. PICK s \in Slot : /\ s \in todo[p]
                            /\ \/ ClearSlot(p, s) /\ UNCHANGED <<pc, at>>
                               \/ /\ at' = [at EXCEPT ![p] = s]
                                  /\ Goto(p, "push") /\ UNCHANGED <<pte, todo>>
      BY <2>13 DEF DropReference, NextToFree
    <3>2. pc[p] = "free" /\ UNCHANGED <<table, locals>>
      BY <2>13 DEF DropReference
    <3>3. CASE ClearSlot(p, s) /\ UNCHANGED <<pc, at>>
      <4>1. /\ todo'[p] = todo[p] \ {s}
            /\ \A u \in Slot : u # s => slot'[u] = slot[u]
        BY <1>t, <3>3
           DEF ClearSlot, TypeOK, PteTypeOK, ThreadTypeOK
      <4> QED
        BY <1>t, <2>l, <3>2, <3>3, <4>1
           DEF TodoAt, MemSlots, Child, Mapped, table, locals, TypeOK, ThreadTypeOK
    <3>4. CASE /\ at' = [at EXCEPT ![p] = s]
               /\ Goto(p, "push") /\ UNCHANGED <<pte, todo>>
      BY <1>t, <2>l, <3>1, <3>2, <3>4
         DEF TodoAt, MemSlots, Child, Mapped, Goto, Freeing, pte, table, locals,
             TypeOK, ThreadTypeOK
    <3> QED
      BY <3>1, <3>3, <3>4
  <2>14. CASE PushPage(p)
    <3>1. /\ pc[p] = "push" /\ at[p] \in todo[p] /\ at[p] \in Slot
          /\ ClearSlot(p, at[p]) /\ UNCHANGED <<table, locals>>
          /\ at' = [at EXCEPT ![p] = NoSlot] /\ Goto(p, "free")
      BY <1>t, <2>l, <2>14 DEF PushPage, TodoAt, TypeOK, ThreadTypeOK
    <3>2. /\ todo'[p] = todo[p] \ {at[p]} /\ pc'[p] = "free" /\ at'[p] = NoSlot
          /\ \A u \in Slot : u # at[p] => slot'[u] = slot[u]
      BY <1>t, <3>1
         DEF ClearSlot, Goto, TypeOK, PteTypeOK, ThreadTypeOK
    <3> QED
      BY <1>t, <2>l, <3>1, <3>2
         DEF TodoAt, MemSlots, Mapped, Freeing, table, locals, TypeOK, ThreadTypeOK
  <2>15. CASE CopyDone(p)
    BY <1>t, <1>r, <1>y, <2>l, <2>e, <2>v, <2>15
       DEF CopyDone, Return, Goto, locals, pte, table, Locals, LocalsAt,
           TodoAt, Mapped, Child, Resolving, Forking, Growing, Freeing, TypeOK,
           PteTypeOK, ThreadTypeOK, LocalsTypeOK
  <2>16. CASE ResizeDone(p)
    BY <1>t, <1>r, <1>y, <2>l, <2>e, <2>v, <2>16
       DEF ResizeDone, Return, pte, Goto, Locals, LocalsAt, TodoAt, Mapped,
           Child, Resolving, Forking, Growing, Freeing, TypeOK, PteTypeOK,
           ThreadTypeOK, LocalsTypeOK
  <2>17. CASE UncopyDone(p)
    <3>1. \A s \in ProcSlots(tgt[p], 0) :
             Mapped(s) /\ s[1] = tgt[p] /\ s[2] # Hand
      <4>1. \A v \in VA : ~(v < 0)
        BY AddressAssumption DEF VA
      <4> QED
        BY <1>y, <2>v, <4>1, ProcSlotsMapped, ProcSlotsFacts
    <3>2. /\ todo'[p] = ProcSlots(tgt[p], 0) /\ ret'[p] = "freeproc"
          /\ pc'[p] = "free" /\ at'[p] = NoSlot
          /\ UNCHANGED <<slot, tgt, sz, va, lim>>
      BY <1>t, <2>l, <2>17 DEF UncopyDone, pte, table, TodoAt,
         TypeOK, ThreadTypeOK, LocalsTypeOK
    <3> QED
      BY <3>1, <3>2 DEF TodoAt, Mapped, Freeing
  <2>18. CASE FreeprocDone(p)
    BY <1>t, <1>r, <1>y, <2>l, <2>e, <2>v, <2>18
       DEF FreeprocDone, Return, pte, Goto, Locals, LocalsAt, TodoAt, Mapped,
           Child, Resolving, Forking, Growing, Freeing, TypeOK, PteTypeOK,
           ThreadTypeOK, LocalsTypeOK
  <2>19. CASE Fork(p)
    BY <1>t, <1>r, <1>y, <2>l, <2>e, <2>v, <2>19
       DEF Fork, Locals, Goto, LocalsAt, TodoAt, Mapped, Child, Resolving,
           Forking, Growing, Freeing, TypeOK, PteTypeOK, ThreadTypeOK,
           LocalsTypeOK
  <2>20. CASE AllocRoot(p)
    <3>1. \A s \in ProcSlots(tgt[p], 0) :
             Mapped(s) /\ s[1] = tgt[p] /\ s[2] # Hand
      <4>1. \A v \in VA : ~(v < 0)
        BY AddressAssumption DEF VA
      <4> QED
        BY <1>y, <2>v, <4>1, ProcSlotsMapped, ProcSlotsFacts
    <3>2. pc[p] = "root" /\ at'[p] = NoSlot
      BY <2>l, <2>20 DEF AllocRoot, TodoAt
    <3>3. CASE /\ pc' = [pc EXCEPT ![p] = "uvmcopy"] /\ UNCHANGED todo
      BY <1>t, <2>e, <3>2, <3>3 DEF TodoAt, Freeing, TypeOK, ThreadTypeOK
    <3>4. CASE /\ pc' = [pc EXCEPT ![p] = "free"] /\ UNCHANGED <<slot, tgt>>
               /\ ret' = [ret EXCEPT ![p] = "freeproc"]
               /\ todo' = [todo EXCEPT ![p] = ProcSlots(tgt[p], 0)]
      BY <1>t, <3>1, <3>2, <3>4
         DEF TodoAt, Mapped, Freeing, TypeOK, ThreadTypeOK, LocalsTypeOK
    <3> QED
      BY <2>20, <3>3, <3>4 DEF AllocRoot, Goto
  <2>21. CASE WalkAlloc(p)
    BY <1>t, <1>r, <1>y, <2>l, <2>e, <2>v, <2>21
       DEF WalkAlloc, table, locals, LocalsAt, TodoAt, Mapped, Child,
           Resolving, Forking, Growing, Freeing, TypeOK, PteTypeOK, ThreadTypeOK,
           LocalsTypeOK
  <2>22. CASE ShareMapping(p)
    BY <1>t, <1>r, <1>y, <2>l, <2>e, <2>v, <2>22
       DEF ShareMapping, Goto, table, locals, LocalsAt, TodoAt, Mapped, Child,
           Resolving, Forking, Growing, Freeing, TypeOK, PteTypeOK, ThreadTypeOK,
           LocalsTypeOK
  <2>23. CASE CountMapping(p)
    BY <1>t, <1>r, <1>y, <2>l, <2>e, <2>v, <2>23
       DEF CountMapping, Goto, pte, table, LocalsAt, TodoAt, Mapped, Child,
           Resolving, Forking, Growing, Freeing, TypeOK, PteTypeOK, ThreadTypeOK,
           LocalsTypeOK
  <2>24. CASE UvmcopyFails(p)
    <3>1. \A s \in MemSlots(tgt[p], 0, va[p]) : Mapped(s)
      <4>1. tgt[p] # p /\ pc[p] = "uvmcopy"
        BY <2>l, <2>24 DEF UvmcopyFails, LocalsAt, Forking
      <4> QED
        BY <1>y, <2>v, <4>1, MemSlotsFacts, MappedMemory
    <3>2. MemSlots(tgt[p], 0, va[p]) \subseteq MemSlots(tgt[p], 0, MaxVA)
      BY <2>v DEF MemSlots
    <3>3. /\ todo'[p] = MemSlots(tgt[p], 0, va[p]) /\ ret'[p] = "uncopy"
          /\ pc'[p] = "free" /\ at'[p] = NoSlot
          /\ UNCHANGED <<slot, tgt, sz, va, lim>>
      BY <1>t, <2>l, <2>24 DEF UvmcopyFails, Goto, pte, table, TodoAt,
         TypeOK, ThreadTypeOK, LocalsTypeOK
    <3>4. MemSlots(tgt[p], 0, MaxVA)' = MemSlots(tgt[p], 0, MaxVA)
      BY <3>3 DEF MemSlots
    <3> QED
      BY <3>1, <3>2, <3>3, <3>4 DEF TodoAt, Mapped, Freeing
  <2>25. CASE ForkDone(p)
    BY <1>t, <1>r, <1>y, <2>l, <2>e, <2>v, <2>25
       DEF ForkDone, Locals, pte, LocalsAt, TodoAt, Mapped, Child, Resolving,
           Forking, Growing, Freeing, TypeOK, PteTypeOK, ThreadTypeOK,
           LocalsTypeOK
  <2>26. CASE Grow(p)
    BY <1>t, <1>r, <1>y, <2>l, <2>e, <2>v, <2>26
       DEF Grow, Locals, Goto, pte, table, LocalsAt, TodoAt, Mapped, Child,
           Resolving, Forking, Growing, Freeing, TypeOK, PteTypeOK, ThreadTypeOK,
           LocalsTypeOK
  <2>27. CASE GrowAlloc(p)
    <3>1. \A s \in MemSlots(p, sz[p], va[p]) : Mapped(s)
      BY <1>r, <2>v, <2>27, MemSlotsFacts, MappedMemory DEF GrowAlloc, Growing
    <3>2. MemSlots(p, sz[p], va[p]) \subseteq MemSlots(p, sz[p], MaxVA)
      BY <2>v DEF MemSlots
    <3>3. /\ pc[p] = "grow" /\ at'[p] = NoSlot
          /\ UNCHANGED <<tgt, sz, va, lim>>
      BY <2>l, <2>27 DEF GrowAlloc, TodoAt, table
    <3>4. CASE pc' = [pc EXCEPT ![p] = "growmap"] /\ UNCHANGED todo
      BY <1>t, <2>e, <3>3, <3>4 DEF TodoAt, Freeing, TypeOK, ThreadTypeOK
    <3>5. CASE /\ pc' = [pc EXCEPT ![p] = "free"] /\ UNCHANGED slot
               /\ ret' = [ret EXCEPT ![p] = "ungrow"]
               /\ todo' = [todo EXCEPT ![p] = MemSlots(p, sz[p], va[p])]
      <4>1. MemSlots(p, sz[p], MaxVA)' = MemSlots(p, sz[p], MaxVA)
        BY <3>3 DEF MemSlots
      <4>2. /\ todo'[p] = MemSlots(p, sz[p], va[p]) /\ ret'[p] = "ungrow"
            /\ pc'[p] = "free" /\ UNCHANGED slot
        BY <1>t, <3>5 DEF TypeOK, ThreadTypeOK, LocalsTypeOK
      <4> QED
        BY <3>1, <3>2, <3>3, <4>1, <4>2 DEF TodoAt, Mapped, Freeing
    <3> QED
      BY <2>27, <3>4, <3>5 DEF GrowAlloc, Goto
  <2>28. CASE GrowMap(p)
    BY <1>t, <1>r, <1>y, <2>l, <2>e, <2>v, <2>28
       DEF GrowMap, Goto, table, LocalsAt, TodoAt, Mapped, Child, Resolving,
           Forking, Growing, Freeing, TypeOK, PteTypeOK, ThreadTypeOK,
           LocalsTypeOK
  <2>29. CASE GrowMapFails(p)
    <3>1. \A s \in MemSlots(p, sz[p], va[p]) : Mapped(s)
      BY <1>r, <2>v, <2>29, MemSlotsFacts, MappedMemory
         DEF GrowMapFails, Growing
    <3>2. MemSlots(p, sz[p], va[p]) \subseteq MemSlots(p, sz[p], MaxVA)
      BY <2>v DEF MemSlots
    <3>3. Mapped(<<p, Hand>>)
      BY <2>29 DEF GrowMapFails, IInv, MappingInv
    <3>4. /\ todo'[p] = {<<p, Hand>>} \cup MemSlots(p, sz[p], va[p])
          /\ ret'[p] = "ungrow" /\ pc'[p] = "free" /\ at'[p] = NoSlot
          /\ UNCHANGED <<slot, tgt, sz, va, lim>>
      BY <1>t, <2>l, <2>29 DEF GrowMapFails, Goto, pte, table, TodoAt,
         TypeOK, ThreadTypeOK, LocalsTypeOK
    <3>5. MemSlots(p, sz[p], MaxVA)' = MemSlots(p, sz[p], MaxVA)
      BY <3>4 DEF MemSlots
    <3> QED
      BY <3>1, <3>2, <3>3, <3>4, <3>5 DEF TodoAt, Mapped, Freeing
  <2>30. CASE GrowDone(p)
    BY <1>t, <1>r, <1>y, <2>l, <2>e, <2>v, <2>30
       DEF GrowDone, Return, pte, Goto, Locals, LocalsAt, TodoAt, Mapped,
           Child, Resolving, Forking, Growing, Freeing, TypeOK, PteTypeOK,
           ThreadTypeOK, LocalsTypeOK
  <2>31. CASE Shrink(p)
    <3>1. PICK n \in 0 .. sz[p] - 1 :
             /\ Locals(p, "shrink", p, n, n, Zero)
             /\ todo' = [todo EXCEPT ![p] = MemSlots(p, n, sz[p])]
      BY <2>31 DEF Shrink
    <3>2. n \in 0 .. MaxVA /\ ret[p] = "none"
      BY <2>v, <2>l, <2>31, AddressAssumption DEF Shrink, LocalsAt
    <3>3. \A s \in MemSlots(p, n, sz[p]) : Mapped(s)
      BY <1>r, <2>v, <3>2, MemSlotsFacts, MappedMemory DEF VisibleSz
    <3>4. /\ todo'[p] = MemSlots(p, n, sz[p]) /\ ret'[p] = "shrink"
          /\ lim'[p] = n /\ pc'[p] = "free" /\ at'[p] = NoSlot
          /\ UNCHANGED <<slot, sz>>
      BY <1>t, <2>l, <2>31, <3>1 DEF Shrink, Locals, Goto, pte, table, TodoAt,
         TypeOK, ThreadTypeOK, LocalsTypeOK
    <3>5. MemSlots(p, lim[p], sz[p])' = MemSlots(p, n, sz[p])
      BY <3>4 DEF MemSlots
    <3> QED
      BY <3>3, <3>4, <3>5 DEF TodoAt, Mapped, Freeing
  <2>32. CASE Exit(p)
    BY <1>t, <1>r, <1>y, <2>l, <2>e, <2>v, <2>32
       DEF Exit, Goto, pte, locals, LocalsAt, TodoAt, Mapped, Child,
           Resolving, Forking, Growing, Freeing, TypeOK, PteTypeOK, ThreadTypeOK,
           LocalsTypeOK
  <2>33. CASE Wait(p)
    <3>1. PICK c \in Proc :
           /\ parent[c] = p /\ state[c] = "ZOMBIE"
           /\ \/ /\ Locals(p, "freeproc", c, 0, 0, Zero)
                 /\ todo' = [todo EXCEPT ![p] = ProcSlots(c, sz[c])]
                 /\ Goto(p, "free")
              \/ Goto(p, "copyout") /\ UNCHANGED todo
      BY <2>33 DEF Wait
    <3>2. pc[p] = "user" /\ at'[p] = NoSlot /\ UNCHANGED <<slot, sz>>
      BY <2>l, <2>33 DEF Wait, TodoAt, pte, table
    <3>3. CASE Goto(p, "copyout") /\ UNCHANGED todo
      BY <1>t, <2>e, <3>2, <3>3 DEF TodoAt, Goto, Freeing, TypeOK, ThreadTypeOK
    <3>4. CASE /\ Locals(p, "freeproc", c, 0, 0, Zero)
               /\ todo' = [todo EXCEPT ![p] = ProcSlots(c, sz[c])]
               /\ Goto(p, "free")
      <4>1. \A q \in Proc : tgt[q] = c => ret[q] # "freeproc"
        BY <1>t, <2>l, <3>1, <3>2
           DEF LocalsInv, LocalsAt, TargetInv, TargetAt, Forking
      <4>2. \A s \in ProcSlots(c, sz[c]) :
               Mapped(s) /\ s[1] = c /\ s[2] # Hand
        BY <2>v, <3>1, <4>1, ProcSlotsMapped, ProcSlotsFacts, MappedMemory
      <4>3. /\ todo'[p] = ProcSlots(c, sz[c]) /\ ret'[p] = "freeproc"
            /\ tgt'[p] = c /\ pc'[p] = "free"
        BY <1>t, <3>4
           DEF Locals, Goto, TypeOK, ThreadTypeOK, LocalsTypeOK
      <4> QED
        BY <3>2, <4>2, <4>3 DEF TodoAt, Mapped, Freeing
    <3> QED
      BY <3>1, <3>3, <3>4
  <2>34. CASE WaitReap(p)
    <3>1. /\ state[tgt[p]] = "ZOMBIE" /\ tgt[p] # p
          /\ \A q \in Proc : tgt[q] = tgt[p] => ret[q] # "freeproc"
      BY <1>t, <1>y, <2>l, <2>34
         DEF WaitReap, LocalsInv, LocalsAt, TargetInv, TargetAt, Forking
    <3>2. \A s \in ProcSlots(tgt[p], sz[tgt[p]]) :
             Mapped(s) /\ s[1] = tgt[p] /\ s[2] # Hand
      BY <1>y, <2>v, <3>1, ProcSlotsMapped, ProcSlotsFacts, MappedMemory
    <3>3. /\ todo'[p] = ProcSlots(tgt[p], sz[tgt[p]]) /\ ret'[p] = "freeproc"
          /\ pc'[p] = "free" /\ at'[p] = NoSlot
          /\ UNCHANGED <<slot, tgt>>
      BY <1>t, <2>l, <2>34 DEF WaitReap, Goto, pte, TodoAt,
         TypeOK, ThreadTypeOK, LocalsTypeOK
    <3> QED
      BY <3>2, <3>3 DEF TodoAt, Mapped, Freeing
  <2> QED
    BY <2>1, <2>2, <2>3, <2>4, <2>5, <2>6, <2>7, <2>8, <2>9, <2>10, <2>11,
        <2>12, <2>13, <2>14, <2>15, <2>16, <2>17, <2>18, <2>19, <2>20, <2>21,
        <2>22, <2>23, <2>24, <2>25, <2>26, <2>27, <2>28, <2>29, <2>30, <2>31,
        <2>32, <2>33, <2>34
       DEF UserStep, KernelStep
<1> QED
  BY <1>o, <1>p DEF TodoInv


------------------------------------------------------------------------------

(* The slots of the memory of p differ from its hand, and from each other. *)
LEMMA OwnSlots ==
    ASSUME NEW p \in Proc, NEW v \in VA
    PROVE  /\ <<p, Mem(v)>> \in Slot /\ <<p, Mem(v)>> # <<p, Hand>>
           /\ \A q \in Proc, w \in VA : <<p, Mem(v)>> = <<q, Mem(w)>> =>
                  p = q /\ v = w
           /\ \A q \in Proc, k \in TableKey \cup {Trapframe, Root, Hand} :
                  <<p, Mem(v)>> # <<q, k>>
           /\ v \in Int /\ 0 <= v /\ v < MaxVA
<1>1. v \in Int /\ 0 <= v /\ v < MaxVA
  BY AddressAssumption DEF VA
<1> QED
  BY <1>1, KeyFacts, SlotFacts

(* The memory of the process that takes the step. *)
LEMMA OwnMemoryStep ==
    ASSUME IInv, NEW p \in Proc, UserStep(p) \/ KernelStep(p), NEW v \in VA
    PROVE  Mapped(<<p, Mem(v)>>)' <=> HasPage(p, v)'
<1>t. TypeOK /\ LocalsInv /\ TargetInv /\ TodoInv
  BY DEF IInv
<1>r. pc[p] # "off" /\ state[p] = "RUNNABLE"
  BY Running
<1>l. LocalsAt(p) /\ TodoAt(p) /\ tgt[p] \in Proc
  BY <1>t DEF LocalsInv, TodoInv, TypeOK, ThreadTypeOK, LocalsTypeOK
<1>e. pc[p] \notin Freeing => todo[p] = {}
  BY <1>l DEF TodoAt
<1>s. /\ <<p, Mem(v)>> \in Slot /\ <<p, Mem(v)>> # <<p, Hand>>
      /\ \A q \in Proc, w \in VA : <<p, Mem(v)>> = <<q, Mem(w)>> =>
             p = q /\ v = w
      /\ \A q \in Proc, k \in TableKey \cup {Trapframe, Root, Hand} :
             <<p, Mem(v)>> # <<q, k>>
      /\ v \in Int /\ 0 <= v /\ v < MaxVA
  BY OwnSlots
<1>m. Mapped(<<p, Mem(v)>>) <=> RunningHas(p, v)
  BY <1>r DEF IInv, MappingInv, HasPage
<1>v. /\ va[p] \in 0 .. MaxVA /\ lim[p] \in 0 .. MaxVA /\ sz[p] \in 0 .. MaxVA
  BY <1>t DEF TypeOK, TableTypeOK, ThreadTypeOK, LocalsTypeOK
<1>g. state'[p] = "RUNNABLE" /\ (Mapped(<<p, Mem(v)>>)' <=> RunningHas(p, v)') =>
         (Mapped(<<p, Mem(v)>>)' <=> HasPage(p, v)')
  BY DEF HasPage
<1>1. CASE UserStore(p)
  BY <1>t, <1>r, <1>l, <1>e, <1>s, <1>v, <1>m, <1>g, <1>1
     DEF UserStore, pte, table, locals, LocalsAt, RunningHas, VisibleSz,
         Mapped, Resolving, Forking, Growing, Freeing, TypeOK, PteTypeOK,
         TableTypeOK, ThreadTypeOK, LocalsTypeOK
<1>2. CASE CowFault(p)
  BY <1>t, <1>r, <1>l, <1>e, <1>s, <1>v, <1>m, <1>g, <1>2
     DEF CowFault, Locals, Goto, pte, table, LocalsAt, RunningHas, VisibleSz,
         Mapped, Resolving, Forking, Growing, Freeing, TypeOK, PteTypeOK,
         TableTypeOK, ThreadTypeOK, LocalsTypeOK
<1>3. CASE BadAccess(p)
  BY <1>t, <1>r, <1>l, <1>e, <1>s, <1>v, <1>m, <1>g, <1>3
     DEF BadAccess, Goto, pte, table, locals, LocalsAt, RunningHas, VisibleSz,
         Mapped, Resolving, Forking, Growing, Freeing, TypeOK, PteTypeOK,
         TableTypeOK, ThreadTypeOK, LocalsTypeOK
<1>4. CASE ReadRef(p)
  BY <1>t, <1>r, <1>l, <1>e, <1>s, <1>v, <1>m, <1>g, <1>4
     DEF ReadRef, Goto, pte, table, locals, LocalsAt, RunningHas, VisibleSz,
         Mapped, Resolving, Forking, Growing, Freeing, TypeOK, PteTypeOK,
         TableTypeOK, ThreadTypeOK, LocalsTypeOK
<1>5. CASE ReusePage(p)
  BY <1>t, <1>r, <1>l, <1>e, <1>s, <1>v, <1>m, <1>g, <1>5
     DEF ReusePage, Return, Goto, locals, table, Locals, LocalsAt, RunningHas,
         VisibleSz, Mapped, Resolving, Forking, Growing, Freeing, TypeOK,
         PteTypeOK, TableTypeOK, ThreadTypeOK, LocalsTypeOK
<1>6. CASE AllocCopy(p)
  BY <1>t, <1>r, <1>l, <1>e, <1>s, <1>v, <1>m, <1>g, <1>6
     DEF AllocCopy, Goto, table, locals, LocalsAt, RunningHas, VisibleSz,
         Mapped, Resolving, Forking, Growing, Freeing, TypeOK, PteTypeOK,
         TableTypeOK, ThreadTypeOK, LocalsTypeOK
<1>7. CASE AllocCopyFails(p)
  BY <1>t, <1>r, <1>l, <1>e, <1>s, <1>v, <1>m, <1>g, <1>7
     DEF AllocCopyFails, Goto, Locals, Fail, pte, table, Return, LocalsAt,
         RunningHas, VisibleSz, Mapped, Resolving, Forking, Growing, Freeing,
         TypeOK, PteTypeOK, TableTypeOK, ThreadTypeOK, LocalsTypeOK
<1>8. CASE CopyPage(p)
  <2>1. Here(p) \in Slot /\ <<p, Hand>> \in Slot /\ Mapped(Here(p))
        /\ Here(p) # <<p, Hand>> /\ Mapped(<<p, Hand>>)
    <3>1. va[p] < MaxVA /\ Here(p) \in cow
      BY <1>t, <1>8, StepBounds DEF CopyPage, IInv, FlagInv, Resolving
    <3>2. Mapped(<<p, Hand>>)
      BY <1>8 DEF CopyPage, IInv, MappingInv
    <3> QED
      BY <1>t, <3>1, <3>2, HereFacts, KeyFacts, SlotFacts DEF Here, IInv, FlagInv
  <2>2. Mapped(<<p, Mem(v)>>)' <=> Mapped(<<p, Mem(v)>>)
    BY <1>t, <1>s, <1>8, <2>1 DEF CopyPage, Mapped, TypeOK, PteTypeOK
  <2>3. todo'[p] = {<<p, Hand>>} /\ pc'[p] = "free" /\ pc[p] = "copy"
        /\ UNCHANGED <<table, locals, at>>
    BY <1>t, <1>8 DEF CopyPage, Goto, TypeOK, ThreadTypeOK
  <2> QED
    BY <1>r, <1>e, <1>s, <1>m, <1>g, <2>2, <2>3
       DEF RunningHas, VisibleSz, Growing, Freeing, table, locals
<1>9. CASE Copyout(p)
  BY <1>t, <1>r, <1>l, <1>e, <1>s, <1>v, <1>m, <1>g, <1>9
     DEF Copyout, Locals, Goto, pte, table, LocalsAt, RunningHas, VisibleSz,
         Mapped, Resolving, Forking, Growing, Freeing, TypeOK, PteTypeOK,
         TableTypeOK, ThreadTypeOK, LocalsTypeOK
<1>10. CASE CopyoutPage(p)
  BY <1>t, <1>r, <1>l, <1>e, <1>s, <1>v, <1>m, <1>g, <1>10
     DEF CopyoutPage, Goto, locals, Fail, pte, table, Return, Locals,
         LocalsAt, RunningHas, VisibleSz, Mapped, Resolving, Forking, Growing,
         Freeing, TypeOK, PteTypeOK, TableTypeOK, ThreadTypeOK, LocalsTypeOK
<1>11. CASE Deliver(p)
  BY <1>t, <1>r, <1>l, <1>e, <1>s, <1>v, <1>m, <1>g, <1>11
     DEF Deliver, Goto, pte, table, LocalsAt, RunningHas, VisibleSz, Mapped,
         Resolving, Forking, Growing, Freeing, TypeOK, PteTypeOK, TableTypeOK,
         ThreadTypeOK, LocalsTypeOK
<1>12. CASE CopyoutDone(p)
  BY <1>t, <1>r, <1>l, <1>e, <1>s, <1>v, <1>m, <1>g, <1>12
     DEF CopyoutDone, Return, pte, table, Goto, Locals, LocalsAt, RunningHas,
         VisibleSz, Mapped, Resolving, Forking, Growing, Freeing, TypeOK,
         PteTypeOK, TableTypeOK, ThreadTypeOK, LocalsTypeOK
<1>13. CASE DropReference(p)
  <2>0. PICK s \in Slot : /\ s \in todo[p]
                            /\ \/ ClearSlot(p, s) /\ UNCHANGED <<pc, at>>
                               \/ /\ at' = [at EXCEPT ![p] = s]
                                  /\ Goto(p, "push") /\ UNCHANGED <<pte, todo>>
    BY <1>13 DEF DropReference, NextToFree
  <2>1. \A u \in todo[p] : u = <<p, Mem(v)>> => ~(v < VisibleSz(p)) /\ pc[p] \notin Growing
    <3>1. MaxVA \in 0 .. MaxVA
      BY AddressAssumption
    <3>2. pc[p] \in Freeing /\ ret[p] # "none" /\ ret[p] \in Reason
      BY <1>t, <1>l, <1>13 DEF DropReference, LocalsAt, Freeing, Forking, Growing, TypeOK,
         ThreadTypeOK, LocalsTypeOK
    <3>3. /\ <<p, Mem(v)>> \in MemSlots(p, sz[p], MaxVA) => sz[p] <= v
          /\ <<p, Mem(v)>> \in MemSlots(p, lim[p], sz[p]) => lim[p] <= v
      BY <1>v, <3>1, MemSlotsFacts
    <3>4. \A c \in Proc, a, b \in 0 .. MaxVA :
             <<p, Mem(v)>> \in MemSlots(c, a, b) => c = p
      BY <1>s, MemSlotsFacts
    <3>5. ret[p] \in {"uncopy", "freeproc"} => tgt[p] # p
      BY <1>l DEF LocalsAt
    <3>6. 0 \in 0 .. MaxVA
      BY AddressAssumption
    <3>7. \A u \in todo[p] : u = <<p, Mem(v)>> => ret[p] \in {"ungrow", "shrink"}
      BY <1>l, <1>s, <3>1, <3>2, <3>4, <3>5, <3>6, SlotFacts, KeyFacts DEF TodoAt, Reason
    <3>8. \A u \in todo[p] : u = <<p, Mem(v)>> =>
             /\ ret[p] = "ungrow" => sz[p] <= v
             /\ ret[p] = "shrink" => lim[p] <= v
      BY <1>l, <1>s, <3>3 DEF TodoAt
    <3> QED
      BY <1>s, <1>v, <3>2, <3>7, <3>8 DEF VisibleSz, Freeing, Growing
  <2>2. pc[p] = "free" /\ UNCHANGED <<table, locals>>
    BY <1>13 DEF DropReference
  <2>3. CASE ClearSlot(p, s) /\ UNCHANGED <<pc, at>>
    <3>1. /\ todo'[p] = todo[p] \ {s}
          /\ \A u \in Slot : Mapped(u)' <=> Mapped(u) /\ u # s
      BY <1>t, <2>3 DEF ClearSlot, Mapped, TypeOK, PteTypeOK, ThreadTypeOK
    <3> QED
      BY <1>r, <1>s, <1>m, <1>g, <2>0, <2>1, <2>2, <2>3, <3>1
         DEF RunningHas, VisibleSz, table, locals
  <2>4. CASE Goto(p, "push") /\ UNCHANGED <<pte, todo>>
    BY <1>t, <1>r, <1>m, <1>g, <2>2, <2>4
       DEF Goto, RunningHas, VisibleSz, Growing, Mapped, pte, table, locals,
           TypeOK, ThreadTypeOK
  <2> QED
    BY <2>0, <2>3, <2>4
<1>14. CASE PushPage(p)
  <2>0. /\ at[p] \in todo[p] /\ at[p] \in Slot /\ ClearSlot(p, at[p])
        /\ pc[p] = "push" /\ pc'[p] = "free" /\ UNCHANGED <<table, locals>>
    BY <1>t, <1>l, <1>14 DEF PushPage, Goto, TodoAt, TypeOK, ThreadTypeOK
  <2>1. \A u \in todo[p] : u = <<p, Mem(v)>> => ~(v < VisibleSz(p)) /\ pc[p] \notin Growing
    <3>1. MaxVA \in 0 .. MaxVA
      BY AddressAssumption
    <3>2. pc[p] \in Freeing /\ ret[p] # "none" /\ ret[p] \in Reason
      BY <1>t, <1>l, <1>14 DEF PushPage, LocalsAt, Freeing, Forking, Growing, TypeOK,
         ThreadTypeOK, LocalsTypeOK
    <3>3. /\ <<p, Mem(v)>> \in MemSlots(p, sz[p], MaxVA) => sz[p] <= v
          /\ <<p, Mem(v)>> \in MemSlots(p, lim[p], sz[p]) => lim[p] <= v
      BY <1>v, <3>1, MemSlotsFacts
    <3>4. \A c \in Proc, a, b \in 0 .. MaxVA :
             <<p, Mem(v)>> \in MemSlots(c, a, b) => c = p
      BY <1>s, MemSlotsFacts
    <3>5. ret[p] \in {"uncopy", "freeproc"} => tgt[p] # p
      BY <1>l DEF LocalsAt
    <3>6. 0 \in 0 .. MaxVA
      BY AddressAssumption
    <3>7. \A u \in todo[p] : u = <<p, Mem(v)>> => ret[p] \in {"ungrow", "shrink"}
      BY <1>l, <1>s, <3>1, <3>2, <3>4, <3>5, <3>6, SlotFacts, KeyFacts DEF TodoAt, Reason
    <3>8. \A u \in todo[p] : u = <<p, Mem(v)>> =>
             /\ ret[p] = "ungrow" => sz[p] <= v
             /\ ret[p] = "shrink" => lim[p] <= v
      BY <1>l, <1>s, <3>3 DEF TodoAt
    <3> QED
      BY <1>s, <1>v, <3>2, <3>7, <3>8 DEF VisibleSz, Freeing, Growing
  <2>2. /\ todo'[p] = todo[p] \ {at[p]}
        /\ \A u \in Slot : Mapped(u)' <=> Mapped(u) /\ u # at[p]
    BY <1>t, <2>0 DEF ClearSlot, Mapped, TypeOK, PteTypeOK, ThreadTypeOK
  <2> QED
    BY <1>r, <1>s, <1>m, <1>g, <2>0, <2>1, <2>2
       DEF RunningHas, VisibleSz, Growing, table, locals
<1>15. CASE CopyDone(p)
  BY <1>t, <1>r, <1>l, <1>e, <1>s, <1>v, <1>m, <1>g, <1>15
     DEF CopyDone, Return, Goto, locals, pte, table, Locals, LocalsAt,
         RunningHas, VisibleSz, Mapped, Resolving, Forking, Growing, Freeing,
         TypeOK, PteTypeOK, TableTypeOK, ThreadTypeOK, LocalsTypeOK
<1>16. CASE ResizeDone(p)
  BY <1>t, <1>r, <1>l, <1>e, <1>s, <1>v, <1>m, <1>g, <1>16
     DEF ResizeDone, Return, pte, Goto, Locals, LocalsAt, RunningHas,
         VisibleSz, Mapped, Resolving, Forking, Growing, Freeing, TypeOK,
         PteTypeOK, TableTypeOK, ThreadTypeOK, LocalsTypeOK
<1>17. CASE UncopyDone(p)
  <2>1. \A s \in ProcSlots(tgt[p], 0) : s # <<p, Mem(v)>>
    <3>1. tgt[p] # p /\ 0 \in 0 .. MaxVA
      BY <1>l, <1>17, AddressAssumption DEF UncopyDone, LocalsAt, Forking
    <3> QED
      BY <1>t, <1>l, <1>s, <1>v, <3>1, ProcSlotsFacts, SlotFacts, KeyFacts
  <2> QED
    BY <1>t, <1>r, <1>l, <1>e, <1>m, <1>g, <1>17, <2>1
       DEF UncopyDone, Goto, pte, table, LocalsAt, RunningHas, VisibleSz, Growing,
           Freeing, Forking, Mapped, TypeOK, PteTypeOK, ThreadTypeOK, LocalsTypeOK
<1>18. CASE FreeprocDone(p)
  <2>1. tgt[p] # p /\ todo[p] = {} /\ ret[p] = "freeproc" /\ pc[p] = "free"
    BY <1>l, <1>18 DEF FreeprocDone, LocalsAt
  <2>2. /\ state'[p] = state[p] /\ sz'[p] = sz[p] /\ UNCHANGED <<slot, todo>>
        /\ ret'[p] = "none" /\ pc'[p] = "user"
    BY <1>t, <1>l, <1>18, <2>1
       DEF FreeprocDone, Return, Goto, Locals, pte, TypeOK, TableTypeOK,
           ThreadTypeOK, LocalsTypeOK
  <2> QED
    BY <1>r, <1>m, <1>g, <2>1, <2>2 DEF RunningHas, VisibleSz, Growing, Mapped
<1>19. CASE Fork(p)
  <2>1. PICK c \in Proc, g \in Page :
           /\ state[c] = "UNUSED"
           /\ slot' = [slot EXCEPT ![<<c, Trapframe>>] = g]
           /\ state' = [state EXCEPT ![c] = "USED"]
           /\ Locals(p, "none", c, 0, 0, Zero)
    BY <1>19 DEF Fork
  <2>2. c # p /\ pc[p] = "user" /\ pc'[p] = "root" /\ UNCHANGED <<sz, todo>>
    BY <1>t, <1>r, <1>19, <2>1 DEF Fork, Goto, TypeOK, ThreadTypeOK
  <2>3. slot'[<<p, Mem(v)>>] = slot[<<p, Mem(v)>>] /\ state'[p] = "RUNNABLE"
        /\ ret'[p] = "none" /\ ret[p] = "none"
    BY <1>t, <1>r, <1>l, <1>s, <2>1, <2>2
       DEF Locals, LocalsAt, TypeOK, PteTypeOK, TableTypeOK, ThreadTypeOK,
           LocalsTypeOK
  <2> QED
    BY <1>m, <1>g, <2>2, <2>3 DEF RunningHas, VisibleSz, Growing, Mapped
<1>20. CASE AllocRoot(p)
  <2>0. /\ pc[p] = "root" /\ tgt[p] # p /\ UNCHANGED table
    BY <1>l, <1>20 DEF AllocRoot, LocalsAt, Forking
  <2>1. \A s \in ProcSlots(tgt[p], 0) : s # <<p, Mem(v)>>
    <3>1. 0 \in 0 .. MaxVA
      BY AddressAssumption
    <3> QED
      BY <1>l, <1>s, <2>0, <3>1, ProcSlotsFacts, SlotFacts, KeyFacts
  <2>2. slot'[<<p, Mem(v)>>] = slot[<<p, Mem(v)>>]
    BY <1>t, <1>l, <1>s, <1>20 DEF AllocRoot, TypeOK, PteTypeOK
  <2>3. /\ pc'[p] \in {"uvmcopy", "free"}
        /\ todo'[p] \in {todo[p], ProcSlots(tgt[p], 0)}
        /\ ret'[p] \in {ret[p], "freeproc"}
    BY <1>t, <1>20 DEF AllocRoot, Goto, TypeOK, ThreadTypeOK, LocalsTypeOK
  <2> QED
    BY <1>r, <1>l, <1>e, <1>m, <1>g, <2>0, <2>1, <2>2, <2>3
       DEF LocalsAt, RunningHas, VisibleSz, Growing, Freeing, Forking, Mapped, table
<1>21. CASE WalkAlloc(p)
  <2>1. slot'[<<p, Mem(v)>>] = slot[<<p, Mem(v)>>]
    <3>1. va[p] \in VA /\ TableSlot(p) \in Slot
      BY <1>t, <1>21, StepBounds, HereFacts DEF WalkAlloc
    <3>2. TableSlot(p) # <<p, Mem(v)>>
      BY <1>l, <1>s, <3>1, KeyFacts, AddressAssumption DEF TableSlot
    <3> QED
      BY <1>t, <1>s, <1>21, <3>2 DEF WalkAlloc, TypeOK, PteTypeOK
  <2> QED
    BY <1>r, <1>m, <1>g, <1>21, <2>1
       DEF WalkAlloc, RunningHas, VisibleSz, Mapped, table, locals
<1>22. CASE ShareMapping(p)
  <2>1. tgt[p] # p /\ pc[p] = "uvmcopy" /\ va[p] \in VA
    BY <1>t, <1>l, <1>22, StepBounds, HereFacts DEF ShareMapping, LocalsAt, Forking
  <2>2. slot'[<<p, Mem(v)>>] = slot[<<p, Mem(v)>>]
    BY <1>t, <1>l, <1>s, <1>22, <2>1 DEF ShareMapping, Child, TypeOK, PteTypeOK
  <2>3. /\ pc'[p] = "incref" /\ UNCHANGED <<table, locals, todo>>
    BY <1>t, <1>22 DEF ShareMapping, Goto, TypeOK, ThreadTypeOK
  <2> QED
    BY <1>r, <1>m, <1>g, <2>1, <2>2, <2>3
       DEF RunningHas, VisibleSz, Growing, Mapped, table, locals
<1>23. CASE CountMapping(p)
  BY <1>t, <1>r, <1>l, <1>e, <1>s, <1>v, <1>m, <1>g, <1>23
     DEF CountMapping, Goto, pte, table, LocalsAt, RunningHas, VisibleSz,
         Mapped, Resolving, Forking, Growing, Freeing, TypeOK, PteTypeOK,
         TableTypeOK, ThreadTypeOK, LocalsTypeOK
<1>24. CASE UvmcopyFails(p)
  <2>1. \A s \in MemSlots(tgt[p], 0, va[p]) : s # <<p, Mem(v)>>
    <3>1. tgt[p] # p /\ 0 \in 0 .. MaxVA
      BY <1>l, <1>24, AddressAssumption DEF UvmcopyFails, LocalsAt, Forking
    <3> QED
      BY <1>t, <1>l, <1>s, <1>v, <3>1, MemSlotsFacts, SlotFacts, KeyFacts
  <2> QED
    BY <1>t, <1>r, <1>l, <1>e, <1>m, <1>g, <1>24, <2>1
       DEF UvmcopyFails, Goto, pte, table, LocalsAt, RunningHas, VisibleSz, Growing,
           Freeing, Forking, Mapped, TypeOK, PteTypeOK, ThreadTypeOK, LocalsTypeOK
<1>25. CASE ForkDone(p)
  <2>1. tgt[p] # p /\ pc[p] = "uvmcopy"
    BY <1>l, <1>25 DEF ForkDone, LocalsAt, Forking
  <2>2. /\ state'[p] = state[p] /\ sz'[p] = sz[p] /\ UNCHANGED <<slot, todo>>
        /\ ret'[p] = "none" /\ pc'[p] = "user" /\ ret[p] = "none"
    BY <1>t, <1>l, <1>25, <2>1
       DEF ForkDone, Locals, pte, LocalsAt, Forking, TypeOK, TableTypeOK,
           ThreadTypeOK, LocalsTypeOK
  <2> QED
    BY <1>r, <1>m, <1>g, <2>1, <2>2 DEF RunningHas, VisibleSz, Growing, Mapped
<1>26. CASE Grow(p)
  BY <1>t, <1>r, <1>l, <1>e, <1>s, <1>v, <1>m, <1>g, <1>26
     DEF Grow, Locals, Goto, pte, table, LocalsAt, RunningHas, VisibleSz,
         Mapped, Resolving, Forking, Growing, Freeing, TypeOK, PteTypeOK,
         TableTypeOK, ThreadTypeOK, LocalsTypeOK
<1>27. CASE GrowAlloc(p)
  <2>0. pc[p] = "grow" /\ UNCHANGED <<table, va, lim>>
    BY <1>27 DEF GrowAlloc
  <2>a. CASE /\ \E g \in Page : slot' = [slot EXCEPT ![<<p, Hand>>] = g]
             /\ Goto(p, "growmap") /\ UNCHANGED <<ret, todo>>
    <3>1. slot'[<<p, Mem(v)>>] = slot[<<p, Mem(v)>>] /\ pc'[p] = "growmap"
      BY <1>t, <1>s, <2>a DEF Goto, TypeOK, PteTypeOK, ThreadTypeOK
    <3> QED
      BY <1>r, <1>m, <1>g, <2>0, <2>a, <3>1
         DEF RunningHas, VisibleSz, Growing, Mapped, table
  <2>b. CASE /\ todo' = [todo EXCEPT ![p] = MemSlots(p, sz[p], va[p])]
             /\ ret' = [ret EXCEPT ![p] = "ungrow"]
             /\ Goto(p, "free") /\ UNCHANGED slot
    <3>1. /\ ret'[p] = "ungrow" /\ pc'[p] = "free" /\ UNCHANGED <<slot, table, lim>>
          /\ pc[p] \in Growing /\ ret[p] = "none" /\ todo[p] = {} /\ sz[p] <= va[p]
          /\ todo'[p] = MemSlots(p, sz[p], va[p])
      BY <1>t, <1>l, <1>e, <2>0, <2>b
         DEF Goto, pte, table, LocalsAt, Growing, Freeing, TypeOK,
             ThreadTypeOK, LocalsTypeOK
    <3>2. <<p, Mem(v)>> \in MemSlots(p, sz[p], va[p]) <=> sz[p] <= v /\ v < va[p]
      BY <1>v, MemSlotsFacts
    <3> QED
      BY <1>r, <1>s, <1>v, <1>m, <1>g, <3>1, <3>2
         DEF RunningHas, VisibleSz, Growing, Mapped, table
  <2> QED
    BY <1>27, <2>a, <2>b DEF GrowAlloc
<1>28. CASE GrowMap(p)
  <2>1. pc[p] = "growmap" /\ va[p] \in VA /\ Mapped(<<p, Hand>>)
        /\ <<p, Hand>> \in Slot /\ sz[p] <= va[p]
    BY <1>t, <1>l, <1>28, StepBounds, HereFacts
       DEF GrowMap, LocalsAt, Growing, IInv, MappingInv
  <2>2. Mapped(<<p, Mem(v)>>)' <=> Mapped(<<p, Mem(v)>>) \/ v = va[p]
    BY <1>t, <1>s, <1>28, <2>1 DEF GrowMap, Here, Mapped, TypeOK, PteTypeOK
  <2>3. /\ pc'[p] = "grow" /\ va'[p] = va[p] + 1
        /\ UNCHANGED <<table, ret, lim, todo>>
    BY <1>t, <1>28 DEF GrowMap, Goto, TypeOK, ThreadTypeOK, LocalsTypeOK
  <2> QED
    BY <1>r, <1>s, <1>v, <1>m, <1>g, <2>1, <2>2, <2>3
       DEF RunningHas, VisibleSz, Growing, table
<1>29. CASE GrowMapFails(p)
  <2>1. /\ ret'[p] = "ungrow" /\ pc'[p] = "free" /\ UNCHANGED <<slot, table, lim>>
        /\ pc[p] \in Growing /\ ret[p] = "none" /\ todo[p] = {} /\ sz[p] <= va[p]
        /\ todo'[p] = {<<p, Hand>>} \cup MemSlots(p, sz[p], va[p])
    BY <1>t, <1>l, <1>e, <1>29
       DEF GrowMapFails, Goto, pte, table, LocalsAt, Growing, Freeing, TypeOK,
           ThreadTypeOK, LocalsTypeOK
  <2>2. <<p, Mem(v)>> \in MemSlots(p, sz[p], va[p]) <=> sz[p] <= v /\ v < va[p]
    BY <1>v, MemSlotsFacts
  <2> QED
    BY <1>r, <1>s, <1>v, <1>m, <1>g, <2>1, <2>2
       DEF RunningHas, VisibleSz, Growing, Mapped, table
<1>30. CASE GrowDone(p)
  BY <1>t, <1>r, <1>l, <1>e, <1>s, <1>v, <1>m, <1>g, <1>30
     DEF GrowDone, Return, pte, Goto, Locals, LocalsAt, RunningHas, VisibleSz,
         Mapped, Resolving, Forking, Growing, Freeing, TypeOK, PteTypeOK,
         TableTypeOK, ThreadTypeOK, LocalsTypeOK
<1>31. CASE Shrink(p)
  <2>1. PICK n \in 0 .. sz[p] - 1 :
             /\ Locals(p, "shrink", p, n, n, Zero)
             /\ todo' = [todo EXCEPT ![p] = MemSlots(p, n, sz[p])]
    BY <1>31 DEF Shrink
  <2>2. n \in 0 .. MaxVA /\ ret[p] = "none" /\ todo[p] = {} /\ pc[p] = "user"
    BY <1>l, <1>e, <1>v, <1>31, AddressAssumption DEF Shrink, LocalsAt, Freeing
  <2>3. <<p, Mem(v)>> \in MemSlots(p, n, sz[p]) <=> n <= v /\ v < sz[p]
    BY <1>v, <2>2, MemSlotsFacts
  <2>4. /\ todo'[p] = MemSlots(p, n, sz[p]) /\ ret'[p] = "shrink"
        /\ lim'[p] = n /\ pc'[p] = "free" /\ UNCHANGED <<slot, table>>
    BY <1>t, <1>31, <2>1 DEF Shrink, Locals, Goto, pte, TypeOK, ThreadTypeOK,
       LocalsTypeOK
  <2> QED
    BY <1>r, <1>s, <1>v, <1>m, <1>g, <2>1, <2>2, <2>3, <2>4
       DEF RunningHas, VisibleSz, Growing, Mapped, table
<1>32. CASE Exit(p)
  <2>1. /\ state'[p] = "ZOMBIE" /\ pc[p] \in {"user", "exit"}
        /\ UNCHANGED <<slot, sz, tgt, ret, todo>>
    BY <1>t, <1>32 DEF Exit, pte, locals, TypeOK, TableTypeOK
  <2>2. ret[p] = "none" /\ todo[p] = {}
    BY <1>l, <1>e, <2>1 DEF LocalsAt, Freeing
  <2>3. \A q \in Proc : ~(tgt[q] = p /\ ret[q] = "freeproc")
    BY <1>t, <1>r, <2>2 DEF TargetInv, TargetAt
  <2>4. Mapped(<<p, Mem(v)>>) <=> v < sz[p]
    BY <1>m, <2>1, <2>2 DEF RunningHas, VisibleSz, Growing
  <2> QED
    BY <2>1, <2>3, <2>4 DEF HasPage, ZombieHas, Mapped
<1>33. CASE Wait(p)
  <2>1. PICK c \in Proc :
           /\ parent[c] = p /\ state[c] = "ZOMBIE"
           /\ \/ /\ Locals(p, "freeproc", c, 0, 0, Zero)
                 /\ todo' = [todo EXCEPT ![p] = ProcSlots(c, sz[c])]
                 /\ Goto(p, "free")
              \/ /\ \E a \in VA, x \in Value : Locals(p, "wait", c, a, a + 1, x)
                 /\ Goto(p, "copyout") /\ UNCHANGED todo
    BY <1>33 DEF Wait
  <2>2. c # p /\ pc[p] = "user" /\ UNCHANGED <<slot, table>>
    BY <1>r, <1>33, <2>1 DEF Wait, pte
  <2>3. \A s \in ProcSlots(c, sz[c]) : s # <<p, Mem(v)>>
    BY <1>t, <1>s, <2>2, ProcSlotsFacts, SlotFacts DEF TypeOK, TableTypeOK
  <2>4. /\ pc'[p] \in {"free", "copyout"} /\ ret'[p] \in {"freeproc", "wait"}
        /\ todo'[p] \in {todo[p], ProcSlots(c, sz[c])}
    BY <1>t, <2>1 DEF Goto, Locals, TypeOK, ThreadTypeOK, LocalsTypeOK
  <2> QED
    BY <1>r, <1>l, <1>e, <1>m, <1>g, <2>2, <2>3, <2>4
       DEF LocalsAt, RunningHas, VisibleSz, Growing, Freeing, Forking, Mapped, table
<1>34. CASE WaitReap(p)
  <2>1. \A s \in ProcSlots(tgt[p], sz[tgt[p]]) : s # <<p, Mem(v)>>
    <3>1. tgt[p] # p /\ sz[tgt[p]] \in 0 .. MaxVA
      BY <1>t, <1>l, <1>34 DEF WaitReap, LocalsAt, TypeOK, TableTypeOK
    <3> QED
      BY <1>t, <1>l, <1>s, <1>v, <3>1, ProcSlotsFacts, SlotFacts, KeyFacts
  <2> QED
    BY <1>t, <1>r, <1>l, <1>e, <1>m, <1>g, <1>34, <2>1
       DEF WaitReap, Goto, pte, table, LocalsAt, RunningHas, VisibleSz, Growing,
           Freeing, Forking, Mapped, TypeOK, PteTypeOK, ThreadTypeOK, LocalsTypeOK
<1> QED
  BY <1>1, <1>2, <1>3, <1>4, <1>5, <1>6, <1>7, <1>8, <1>9, <1>10, <1>11,
      <1>12, <1>13, <1>14, <1>15, <1>16, <1>17, <1>18, <1>19, <1>20, <1>21, <1>22,
      <1>23, <1>24, <1>25, <1>26, <1>27, <1>28, <1>29, <1>30, <1>31, <1>32, <1>33,
      <1>34
     DEF UserStep, KernelStep

(* A process that neither takes the step nor is worked on keeps its memory. *)
LEMMA BystanderMemoryStep ==
    ASSUME IInv, NEW p \in Proc, UserStep(p) \/ KernelStep(p), NEW v \in VA,
           NEW q \in Proc, q # p, q # tgt[p], q # tgt'[p]
    PROVE  Mapped(<<q, Mem(v)>>)' <=> HasPage(q, v)'
<1>t. TypeOK /\ LocalsInv /\ TargetInv
  BY DEF IInv
<1>f. ASSUME NEW r \in Proc, r # p
      PROVE  /\ ret'[r] = ret[r] /\ tgt'[r] = tgt[r] /\ va'[r] = va[r]
             /\ lim'[r] = lim[r] /\ todo'[r] = todo[r]
             /\ pc'[r] = pc[r] \/ (r = tgt[p] /\ tgt[r] = r)
  BY <1>t, <1>f, Frame, TargetFacts
<1>1. ~(Fork(p) /\ state[q] # state'[q])
  <2>1. ASSUME NEW c \in Proc, state' = [state EXCEPT ![c] = "USED"],
               Locals(p, "none", c, 0, 0, Zero)
        PROVE  state'[q] = state[q]
    BY <1>t, <2>1 DEF Locals, TypeOK, TableTypeOK, ThreadTypeOK, LocalsTypeOK
  <2> QED
    BY <2>1 DEF Fork
<1>2. sz'[q] = sz[q] /\ state'[q] = state[q] /\ pc'[q] = pc[q]
  BY <1>t, <1>1, <1>f, TableFrame
<1>3. slot'[<<q, Mem(v)>>] = slot[<<q, Mem(v)>>]
  <2>1. ~(Fork(p) /\ state[q] = "UNUSED" /\ state'[q] = "USED")
    BY <1>1
  <2>2. Fork(p) => slot'[<<q, Mem(v)>>] = slot[<<q, Mem(v)>>]
    BY <1>t, OwnSlots DEF Fork, TypeOK, PteTypeOK
  <2> QED
    BY <2>2, KeyFacts, SlotFrame
<1>4. RunningHas(q, v)' <=> RunningHas(q, v)
  BY <1>f, <1>2 DEF RunningHas, VisibleSz
<1>5. ZombieHas(q, v)' <=> ZombieHas(q, v)
  BY <1>f, <1>2 DEF ZombieHas
<1>6. EmbryoHas(q, v)' <=> EmbryoHas(q, v)
  <2>1. ASSUME NEW r \in Proc, r # p, tgt[r] = q, r # q
        PROVE  pc'[r] = pc[r]
    BY <1>f, <2>1
  <2> QED
    BY <1>f, <2>1 DEF EmbryoHas
<1> QED
  BY <1>2, <1>3, <1>4, <1>5, <1>6 DEF HasPage, Mapped, IInv, MappingInv

(* A process that p begins to work on: a new child, or a zombie. *)
LEMMA NewTargetMemoryStep ==
    ASSUME IInv, NEW p \in Proc, Fork(p) \/ Wait(p), NEW v \in VA,
           NEW q \in Proc, q # p, q = tgt'[p]
    PROVE  Mapped(<<q, Mem(v)>>)' <=> HasPage(q, v)'
<1>t. TypeOK /\ LocalsInv /\ TargetInv /\ TodoInv
  BY DEF IInv
<1>l. LocalsAt(p) /\ TodoAt(p)
  BY <1>t DEF LocalsInv, TodoInv
<1>0. UserStep(p) \/ KernelStep(p)
  BY DEF UserStep
<1>f. ASSUME NEW r \in Proc, r # p
      PROVE  /\ ret'[r] = ret[r] /\ tgt'[r] = tgt[r] /\ todo'[r] = todo[r]
  BY <1>t, <1>0, <1>f, Frame
<1>p. pc[p] = "user" /\ ret[p] = "none" /\ todo[p] = {}
  BY <1>l DEF Fork, Wait, LocalsAt, TodoAt, Freeing
<1>1. CASE Fork(p)
  <2>1. state[q] = "UNUSED" /\ slot'[<<q, Mem(v)>>] = slot[<<q, Mem(v)>>]
        /\ state'[q] = "USED" /\ pc'[p] = "root" /\ UNCHANGED todo
    BY <1>t, <1>1, OwnSlots DEF Fork, Locals, Goto, TypeOK, PteTypeOK,
       TableTypeOK, ThreadTypeOK, LocalsTypeOK
  <2>2. ~Mapped(<<q, Mem(v)>>)
    BY <2>1, KeyFacts DEF IInv, MappingInv
  <2>3. \A r \in Proc : tgt'[r] = q /\ r # q => r = p
    BY <1>t, <1>f, <2>1 DEF TargetInv, TargetAt
  <2> QED
    BY <1>p, <2>1, <2>2, <2>3 DEF Mapped, HasPage, EmbryoHas
<1>2. CASE Wait(p)
  <2>1. /\ parent[q] = p /\ state[q] = "ZOMBIE"
        /\ \/ ret'[p] = "freeproc" /\ todo'[p] = ProcSlots(q, sz[q])
           \/ ret'[p] = "wait"
    BY <1>t, <1>2 DEF Wait, Locals, TypeOK, ThreadTypeOK, LocalsTypeOK
  <2>2. UNCHANGED <<slot, sz, state>>
    BY <1>2 DEF Wait, pte, table
  <2>3. \A r \in Proc : tgt[r] = q /\ r # q => r = p
    BY <1>t, <2>1 DEF TargetInv, TargetAt
  <2>4. tgt[p] = p /\ ret[q] = "none"
    BY <1>t, <1>l, <1>p, <2>1 DEF LocalsAt, Forking, LocalsInv, TargetInv
  <2>5. Mapped(<<q, Mem(v)>>) <=> v < sz[q]
    BY <2>1, <2>3, <2>4 DEF IInv, MappingInv, HasPage, ZombieHas
  <2>6. <<q, Mem(v)>> \in ProcSlots(q, sz[q]) <=> v < sz[q]
    BY <1>t, KeyFacts, ProcSlotsFacts DEF TypeOK, TableTypeOK
  <2>7. \A r \in Proc : tgt'[r] = q /\ ret'[r] = "freeproc" => r = p
    BY <1>f, <2>3, <2>4
  <2> QED
    BY <2>1, <2>2, <2>5, <2>6, <2>7 DEF Mapped, HasPage, ZombieHas
<1> QED
  BY <1>1, <1>2

(* The process that p works on. *)
LEMMA TargetMemoryStep ==
    ASSUME IInv, NEW p \in Proc, UserStep(p) \/ KernelStep(p), NEW v \in VA,
           NEW q \in Proc, q # p, q = tgt[p]
    PROVE  Mapped(<<q, Mem(v)>>)' <=> HasPage(q, v)'
<1>t. TypeOK /\ LocalsInv /\ TargetInv /\ TodoInv
  BY DEF IInv
<1>l. LocalsAt(p) /\ TodoAt(p) /\ TargetAt(p)
  BY <1>t DEF LocalsInv, TodoInv, TargetInv
<1>e. pc[p] \notin Freeing => todo[p] = {}
  BY <1>l DEF TodoAt
<1>q. /\ pc[q] = "off" /\ state[q] \in {"USED", "ZOMBIE"}
      /\ ret[q] = "none" /\ todo[q] = {} /\ tgt[q] = q
  BY <1>t, TargetFacts
     DEF LocalsInv, LocalsAt, TodoInv, TodoAt, Freeing
<1>s. /\ <<q, Mem(v)>> \in Slot
      /\ \A k \in Key : <<p, k>> # <<q, Mem(v)>>
      /\ \A w \in VA : <<q, Mem(v)>> = <<q, Mem(w)>> => v = w
      /\ \A k \in TableKey \cup {Trapframe, Root, Hand} :
             <<q, Mem(v)>> # <<q, k>>
      /\ v \in Int /\ 0 <= v /\ v < MaxVA
  BY OwnSlots, SlotFacts, KeyFacts
<1>v. /\ va[p] \in 0 .. MaxVA /\ sz[p] \in 0 .. MaxVA /\ sz[q] \in 0 .. MaxVA
  BY <1>t DEF TypeOK, TableTypeOK, ThreadTypeOK, LocalsTypeOK
<1>u. ASSUME NEW r \in Proc, r # p
      PROVE  /\ ret'[r] = ret[r] /\ tgt'[r] = tgt[r] /\ todo'[r] = todo[r]
             /\ tgt[r] = q => r = q
  BY <1>t, <1>u, Frame, TargetFacts
<1>m. /\ state[q] = "USED" => (Mapped(<<q, Mem(v)>>) <=>
             \/ pc[p] = "uvmcopy" /\ v < va[p]
             \/ pc[p] = "incref" /\ v <= va[p]
             \/ <<q, Mem(v)>> \in todo[p])
      /\ state[q] = "ZOMBIE" => (Mapped(<<q, Mem(v)>>) <=>
             v < sz[q] /\ (ret[p] = "freeproc" => <<q, Mem(v)>> \in todo[p]))
  <2>1. Mapped(<<q, Mem(v)>>) <=> HasPage(q, v)
    BY DEF IInv, MappingInv
  <2>2. EmbryoHas(q, v) <=>
             \/ pc[p] = "uvmcopy" /\ v < va[p]
             \/ pc[p] = "incref" /\ v <= va[p]
             \/ <<q, Mem(v)>> \in todo[p]
    BY <1>u DEF EmbryoHas
  <2>3. ZombieHas(q, v) <=>
             v < sz[q] /\ (ret[p] = "freeproc" => <<q, Mem(v)>> \in todo[p])
    BY <1>q, <1>u DEF ZombieHas
  <2> QED
    BY <2>1, <2>2, <2>3 DEF HasPage
<1>g. ASSUME tgt'[p] = q, state'[q] = "USED",
             Mapped(<<q, Mem(v)>>)' <=>
                 \/ pc'[p] = "uvmcopy" /\ v < va'[p]
                 \/ pc'[p] = "incref" /\ v <= va'[p]
                 \/ <<q, Mem(v)>> \in todo'[p]
      PROVE  Mapped(<<q, Mem(v)>>)' <=> HasPage(q, v)'
  BY <1>g, <1>u DEF HasPage, EmbryoHas
<1>z. ASSUME tgt'[p] \in {p, q}, state'[q] = "ZOMBIE",
             Mapped(<<q, Mem(v)>>)' <=> v < sz'[q] /\
                 (tgt'[p] = q /\ ret'[p] = "freeproc" => <<q, Mem(v)>> \in todo'[p])
      PROVE  Mapped(<<q, Mem(v)>>)' <=> HasPage(q, v)'
  BY <1>z, <1>q, <1>u DEF HasPage, ZombieHas
<1>1. CASE UserStore(p)
  BY <1>l, <1>1
     DEF UserStore, LocalsAt, Forking, Growing, Freeing
<1>2. CASE CowFault(p)
  BY <1>l, <1>2
     DEF CowFault, LocalsAt, Forking, Growing, Freeing
<1>3. CASE BadAccess(p)
  BY <1>l, <1>3
     DEF BadAccess, LocalsAt, Forking, Growing, Freeing
<1>4. CASE ReadRef(p)
  BY <1>t, <1>l, <1>e, <1>q, <1>s, <1>v, <1>m, <1>g, <1>z, <1>4
     DEF ReadRef, Goto, pte, table, locals, LocalsAt, TargetAt, Mapped,
         Resolving, Forking, Growing, Freeing, TypeOK, PteTypeOK, TableTypeOK,
         ThreadTypeOK, LocalsTypeOK
<1>5. CASE ReusePage(p)
  BY <1>t, <1>l, <1>e, <1>q, <1>s, <1>v, <1>m, <1>g, <1>z, <1>5
     DEF ReusePage, Return, Goto, locals, table, Locals, LocalsAt, TargetAt,
         Mapped, Resolving, Forking, Growing, Freeing, TypeOK, PteTypeOK,
         TableTypeOK, ThreadTypeOK, LocalsTypeOK
<1>6. CASE AllocCopy(p)
  BY <1>t, <1>l, <1>e, <1>q, <1>s, <1>v, <1>m, <1>g, <1>z, <1>6
     DEF AllocCopy, Goto, table, locals, LocalsAt, TargetAt, Mapped,
         Resolving, Forking, Growing, Freeing, TypeOK, PteTypeOK, TableTypeOK,
         ThreadTypeOK, LocalsTypeOK
<1>7. CASE AllocCopyFails(p)
  BY <1>t, <1>l, <1>e, <1>q, <1>s, <1>v, <1>m, <1>g, <1>z, <1>7
     DEF AllocCopyFails, Goto, Locals, Fail, pte, table, Return, LocalsAt,
         TargetAt, Mapped, Resolving, Forking, Growing, Freeing, TypeOK,
         PteTypeOK, TableTypeOK, ThreadTypeOK, LocalsTypeOK
<1>8. CASE CopyPage(p)
  <2>1. pc[p] = "copy" /\ va[p] \in VA /\ state[q] = "ZOMBIE" /\ ret[p] = "wait"
    BY <1>t, <1>l, <1>8, StepBounds, HereFacts
       DEF CopyPage, LocalsAt, TargetAt, Forking, Resolving
  <2>2. slot'[<<q, Mem(v)>>] = slot[<<q, Mem(v)>>]
    BY <1>t, <1>s, <1>8, <2>1, KeyFacts DEF CopyPage, Here, TypeOK, PteTypeOK
  <2>3. UNCHANGED <<table, locals>>
    BY <1>8 DEF CopyPage
  <2> QED
    BY <1>m, <1>z, <2>1, <2>2, <2>3 DEF Mapped, table, locals
<1>9. CASE Copyout(p)
  BY <1>l, <1>9
     DEF Copyout, LocalsAt, Forking, Growing, Freeing
<1>10. CASE CopyoutPage(p)
  BY <1>t, <1>l, <1>e, <1>q, <1>s, <1>v, <1>m, <1>g, <1>z, <1>10
     DEF CopyoutPage, Goto, locals, Fail, pte, table, Return, Locals,
         LocalsAt, TargetAt, Mapped, Resolving, Forking, Growing, Freeing, TypeOK,
         PteTypeOK, TableTypeOK, ThreadTypeOK, LocalsTypeOK
<1>11. CASE Deliver(p)
  BY <1>t, <1>l, <1>e, <1>q, <1>s, <1>v, <1>m, <1>g, <1>z, <1>11
     DEF Deliver, Goto, pte, table, LocalsAt, TargetAt, Mapped, Resolving,
         Forking, Growing, Freeing, TypeOK, PteTypeOK, TableTypeOK, ThreadTypeOK,
         LocalsTypeOK
<1>12. CASE CopyoutDone(p)
  BY <1>l, <1>12
     DEF CopyoutDone, LocalsAt, Forking, Growing, Freeing
<1>13. CASE DropReference(p)
  <2>0. PICK s \in Slot : /\ s \in todo[p]
                          /\ \/ ClearSlot(p, s) /\ UNCHANGED <<pc, at>>
                             \/ Goto(p, "push") /\ UNCHANGED <<pte, todo>>
    BY <1>13 DEF DropReference, NextToFree
  <2>1. pc[p] = "free" /\ UNCHANGED <<table, locals>>
    BY <1>13 DEF DropReference
  <2>2. ret[p] = "wait" => <<q, Mem(v)>> \notin todo[p]
    BY <1>l, <1>s, SlotFacts, KeyFacts DEF TodoAt
  <2>3. /\ state[q] = "ZOMBIE" => ret[p] \in {"wait", "freeproc"}
    BY <1>l, <1>q DEF TargetAt
  <2>4. CASE ClearSlot(p, s) /\ UNCHANGED <<pc, at>>
    <3>1. /\ todo'[p] = todo[p] \ {s}
          /\ \A u \in Slot : Mapped(u)' <=> Mapped(u) /\ u # s
      BY <1>t, <2>4 DEF ClearSlot, Mapped, TypeOK, PteTypeOK, ThreadTypeOK
    <3> QED
      BY <1>q, <1>s, <1>m, <1>g, <1>z, <2>0, <2>1, <2>2, <2>3, <2>4, <3>1
         DEF table, locals
  <2>5. CASE Goto(p, "push") /\ UNCHANGED <<pte, todo>>
    BY <1>t, <1>q, <1>m, <1>g, <1>z, <2>1, <2>5
       DEF Goto, Mapped, pte, table, locals, TypeOK, ThreadTypeOK
  <2> QED
    BY <2>0, <2>4, <2>5
<1>14. CASE PushPage(p)
  <2>1. /\ at[p] \in todo[p] /\ at[p] \in Slot /\ ClearSlot(p, at[p])
        /\ pc[p] = "push" /\ pc'[p] = "free" /\ UNCHANGED <<table, locals>>
    BY <1>t, <1>l, <1>14 DEF PushPage, Goto, TodoAt, TypeOK, ThreadTypeOK
  <2>2. ret[p] = "wait" => <<q, Mem(v)>> \notin todo[p]
    BY <1>l, <1>s, SlotFacts, KeyFacts DEF TodoAt
  <2>3. /\ state[q] = "ZOMBIE" => ret[p] \in {"wait", "freeproc"}
    BY <1>l, <1>q DEF TargetAt
  <2>4. /\ todo'[p] = todo[p] \ {at[p]}
        /\ \A u \in Slot : Mapped(u)' <=> Mapped(u) /\ u # at[p]
    BY <1>t, <2>1 DEF ClearSlot, Mapped, TypeOK, PteTypeOK, ThreadTypeOK
  <2> QED
    BY <1>q, <1>s, <1>m, <1>g, <1>z, <2>1, <2>2, <2>3, <2>4 DEF table, locals
<1>15. CASE CopyDone(p)
  BY <1>t, <1>l, <1>e, <1>q, <1>s, <1>v, <1>m, <1>g, <1>z, <1>15
     DEF CopyDone, Return, Goto, locals, pte, table, Locals, LocalsAt,
         TargetAt, Mapped, Resolving, Forking, Growing, Freeing, TypeOK,
         PteTypeOK, TableTypeOK, ThreadTypeOK, LocalsTypeOK
<1>16. CASE ResizeDone(p)
  BY <1>l, <1>16
     DEF ResizeDone, LocalsAt, Forking, Growing, Freeing
<1>17. CASE UncopyDone(p)
  <2>1. /\ ret[p] = "uncopy" /\ todo[p] = {} /\ state[q] = "USED" /\ pc[p] = "free"
    BY <1>l, <1>17 DEF UncopyDone, TargetAt
  <2>2. /\ todo'[p] = ProcSlots(q, 0) /\ UNCHANGED <<slot, tgt, pc, va, state>>
    BY <1>t, <1>17 DEF UncopyDone, pte, table, TypeOK, ThreadTypeOK
  <2>3. <<q, Mem(v)>> \notin ProcSlots(q, 0)
    <3>1. 0 \in 0 .. MaxVA
      BY AddressAssumption
    <3> QED
      BY <1>s, <3>1, KeyFacts, ProcSlotsFacts
  <2> QED
    BY <1>m, <1>g, <2>1, <2>2, <2>3 DEF Mapped
<1>18. CASE FreeprocDone(p)
  <2>1. ~Mapped(<<q, Mem(v)>>)
    BY <1>18, KeyFacts DEF FreeprocDone, IInv, MappingInv
  <2>2. state'[q] = "UNUSED" /\ UNCHANGED slot
    BY <1>t, <1>18 DEF FreeprocDone, pte, TypeOK, TableTypeOK
  <2> QED
    BY <2>1, <2>2 DEF HasPage, Mapped
<1>19. CASE Fork(p)
  BY <1>l, <1>19
     DEF Fork, LocalsAt, Forking, Growing, Freeing
<1>20. CASE AllocRoot(p)
  <2>1. /\ pc[p] = "root" /\ todo[p] = {} /\ state[q] = "USED"
    BY <1>l, <1>e, <1>20 DEF AllocRoot, LocalsAt, TargetAt, Forking, Freeing
  <2>2. slot'[<<q, Mem(v)>>] = slot[<<q, Mem(v)>>]
    BY <1>t, <1>s, <1>20 DEF AllocRoot, TypeOK, PteTypeOK
  <2>3. /\ tgt'[p] = q /\ state'[q] = "USED"
        /\ \/ pc'[p] = "uvmcopy" /\ va'[p] = va[p] /\ todo'[p] = {}
           \/ pc'[p] = "free" /\ todo'[p] = ProcSlots(q, 0)
    BY <1>t, <1>20, <2>1 DEF AllocRoot, Goto, table, TypeOK, ThreadTypeOK
  <2>4. <<q, Mem(v)>> \notin ProcSlots(q, 0)
    <3>1. 0 \in 0 .. MaxVA
      BY AddressAssumption
    <3> QED
      BY <1>s, <3>1, KeyFacts, ProcSlotsFacts
  <2>5. va[p] = 0
    BY <1>l, <2>1 DEF LocalsAt
  <2> QED
    BY <1>s, <1>m, <1>g, <2>1, <2>2, <2>3, <2>4, <2>5 DEF Mapped
<1>21. CASE WalkAlloc(p)
  <2>1. pc[p] = "uvmcopy" /\ state[q] = "USED"
    BY <1>l, <1>21 DEF WalkAlloc, LocalsAt, TargetAt, Forking, Growing
  <2>2. slot'[<<q, Mem(v)>>] = slot[<<q, Mem(v)>>]
    <3>1. va[p] \in VA /\ TableSlot(p) \in Slot
      BY <1>t, <1>21, StepBounds, HereFacts DEF WalkAlloc
    <3>2. TableSlot(p) # <<q, Mem(v)>>
      BY <1>s, <3>1, KeyFacts, AddressAssumption DEF TableSlot
    <3> QED
      BY <1>t, <1>s, <1>21, <3>2 DEF WalkAlloc, TypeOK, PteTypeOK
  <2> QED
    BY <1>m, <1>g, <1>21, <2>1, <2>2 DEF WalkAlloc, Mapped, table, locals
<1>22. CASE ShareMapping(p)
  <2>1. pc[p] = "uvmcopy" /\ va[p] \in VA /\ state[q] = "USED" /\ todo[p] = {}
        /\ ret[p] = "none" /\ va[p] < sz[p]
    BY <1>t, <1>l, <1>e, <1>22, StepBounds, HereFacts
       DEF ShareMapping, LocalsAt, TargetAt, Forking, Growing, Freeing
  <2>2. Mapped(Here(p))
    <3>1. state[p] = "RUNNABLE"
      BY Running
    <3> QED
      BY <2>1, <3>1, MappedMemory DEF VisibleSz, Here
  <2>3. Mapped(<<q, Mem(v)>>)' <=> Mapped(<<q, Mem(v)>>) \/ v = va[p]
    BY <1>t, <1>s, <1>22, <2>1, <2>2
       DEF ShareMapping, Child, Mapped, TypeOK, PteTypeOK
  <2>4. pc'[p] = "incref" /\ UNCHANGED <<table, locals, todo>>
    BY <1>t, <1>22 DEF ShareMapping, Goto, TypeOK, ThreadTypeOK
  <2> QED
    BY <1>s, <1>v, <1>m, <1>g, <2>1, <2>3, <2>4 DEF table, locals
<1>23. CASE CountMapping(p)
  BY <1>t, <1>l, <1>e, <1>q, <1>s, <1>v, <1>m, <1>g, <1>z, <1>23
     DEF CountMapping, Goto, pte, table, LocalsAt, TargetAt, Mapped,
         Resolving, Forking, Growing, Freeing, TypeOK, PteTypeOK, TableTypeOK,
         ThreadTypeOK, LocalsTypeOK
<1>24. CASE UvmcopyFails(p)
  <2>1. /\ pc[p] = "uvmcopy" /\ todo[p] = {} /\ state[q] = "USED"
    BY <1>l, <1>e, <1>24 DEF UvmcopyFails, LocalsAt, TargetAt, Forking, Freeing
  <2>2. /\ todo'[p] = MemSlots(q, 0, va[p]) /\ pc'[p] = "free"
        /\ UNCHANGED <<slot, tgt, state>>
    BY <1>t, <1>24 DEF UvmcopyFails, Goto, pte, table, TypeOK, ThreadTypeOK
  <2>3. <<q, Mem(v)>> \in MemSlots(q, 0, va[p]) <=> v < va[p]
    <3>1. 0 \in 0 .. MaxVA
      BY AddressAssumption
    <3> QED
      BY <1>s, <1>v, <3>1, MemSlotsFacts
  <2> QED
    BY <1>m, <1>g, <2>1, <2>2, <2>3 DEF Mapped
<1>25. CASE ForkDone(p)
  <2>1. /\ pc[p] = "uvmcopy" /\ va[p] = sz[p] /\ todo[p] = {}
        /\ state[q] = "USED"
    BY <1>l, <1>e, <1>25 DEF ForkDone, LocalsAt, TargetAt, Forking, Freeing
  <2>2. /\ state'[q] = "RUNNABLE" /\ sz'[q] = sz[p] /\ UNCHANGED slot
        /\ pc'[q] = "user" /\ ret'[q] = "none" /\ todo'[q] = {}
    BY <1>t, <1>q, <1>u, <1>25
       DEF ForkDone, pte, TypeOK, TableTypeOK, ThreadTypeOK
  <2> QED
    BY <1>m, <2>1, <2>2 DEF HasPage, RunningHas, VisibleSz, Growing, Mapped
<1>26. CASE Grow(p)
  BY <1>l, <1>26
     DEF Grow, LocalsAt, Forking, Growing, Freeing
<1>27. CASE GrowAlloc(p)
  BY <1>l, <1>27
     DEF GrowAlloc, LocalsAt, Forking, Growing, Freeing
<1>28. CASE GrowMap(p)
  BY <1>l, <1>28
     DEF GrowMap, LocalsAt, Forking, Growing, Freeing
<1>29. CASE GrowMapFails(p)
  BY <1>l, <1>29
     DEF GrowMapFails, LocalsAt, Forking, Growing, Freeing
<1>30. CASE GrowDone(p)
  BY <1>l, <1>30
     DEF GrowDone, LocalsAt, Forking, Growing, Freeing
<1>31. CASE Shrink(p)
  BY <1>l, <1>31
     DEF Shrink, LocalsAt, Forking, Growing, Freeing
<1>32. CASE Exit(p)
  BY <1>l, <1>32
     DEF Exit, LocalsAt, Forking, Growing, Freeing
<1>33. CASE Wait(p)
  BY <1>l, <1>33
     DEF Wait, LocalsAt, Forking, Growing, Freeing
<1>34. CASE WaitReap(p)
  <2>1. /\ ret[p] = "wait" /\ state[q] = "ZOMBIE"
    BY <1>l, <1>34 DEF WaitReap, TargetAt, Forking
  <2>2. /\ todo'[p] = ProcSlots(q, sz[q]) /\ ret'[p] = "freeproc"
        /\ UNCHANGED <<slot, tgt, state, sz>>
    BY <1>t, <1>34 DEF WaitReap, pte, table, TypeOK, ThreadTypeOK, LocalsTypeOK
  <2>3. <<q, Mem(v)>> \in ProcSlots(q, sz[q]) <=> v < sz[q]
    BY <1>s, <1>v, KeyFacts, ProcSlotsFacts
  <2> QED
    BY <1>m, <1>z, <2>1, <2>2, <2>3 DEF Mapped
<1> QED
  BY <1>1, <1>2, <1>3, <1>4, <1>5, <1>6, <1>7, <1>8, <1>9, <1>10, <1>11,
      <1>12, <1>13, <1>14, <1>15, <1>16, <1>17, <1>18, <1>19, <1>20, <1>21, <1>22,
      <1>23, <1>24, <1>25, <1>26, <1>27, <1>28, <1>29, <1>30, <1>31, <1>32, <1>33,
      <1>34
     DEF UserStep, KernelStep

(* What a step may do to a slot. *)
LEMMA SlotEffect ==
    ASSUME IInv, NEW p \in Proc, UserStep(p) \/ KernelStep(p), NEW s \in Slot
    PROVE  \/ slot'[s] = slot[s]
           \/ (AllocCopy(p) \/ GrowAlloc(p)) /\ s = <<p, Hand>>
           \/ Fork(p) /\ s = <<tgt'[p], Trapframe>> /\ state[tgt'[p]] = "UNUSED"
           \/ AllocRoot(p) /\ s = <<tgt[p], Root>>
           \/ WalkAlloc(p) /\ s = TableSlot(p)
           \/ ShareMapping(p) /\ s = Child(p)
           \/ (CopyPage(p) \/ GrowMap(p)) /\ s \in {Here(p), <<p, Hand>>}
           \/ (DropReference(p) \/ PushPage(p))
                 /\ s \in todo[p] /\ s \notin todo'[p] /\ slot'[s] = NoPage
<1>t. TypeOK /\ TodoInv
  BY DEF IInv
<1>l. TodoAt(p)
  BY <1>t DEF TodoInv
<1>1. CASE UserStore(p)
  BY <1>1 DEF UserStore, pte
<1>2. CASE CowFault(p)
  BY <1>2 DEF CowFault, pte
<1>3. CASE BadAccess(p)
  BY <1>3 DEF BadAccess, pte
<1>4. CASE ReadRef(p)
  BY <1>4 DEF ReadRef, pte
<1>5. CASE ReusePage(p)
  BY <1>5 DEF ReusePage, pte
<1>6. CASE AllocCopy(p)
  BY <1>t, <1>6 DEF AllocCopy, TypeOK, PteTypeOK
<1>7. CASE AllocCopyFails(p)
  BY <1>7 DEF AllocCopyFails, pte
<1>8. CASE CopyPage(p)
  BY <1>t, <1>8 DEF CopyPage, TypeOK, PteTypeOK
<1>9. CASE Copyout(p)
  BY <1>9 DEF Copyout, pte
<1>10. CASE CopyoutPage(p)
  BY <1>10 DEF CopyoutPage, pte
<1>11. CASE Deliver(p)
  BY <1>11 DEF Deliver, pte
<1>12. CASE CopyoutDone(p)
  BY <1>12 DEF CopyoutDone, pte
<1>13. CASE DropReference(p)
  <2>1. PICK u \in todo[p] : ClearSlot(p, u) \/ UNCHANGED pte
    BY <1>13 DEF DropReference, NextToFree
  <2> QED
    BY <1>t, <1>13, <2>1
       DEF ClearSlot, pte, TypeOK, PteTypeOK, ThreadTypeOK
<1>14. CASE PushPage(p)
  <2>1. at[p] \in todo[p] /\ ClearSlot(p, at[p])
    BY <1>l, <1>14 DEF PushPage, TodoAt
  <2> QED
    BY <1>t, <1>14, <2>1 DEF ClearSlot, TypeOK, PteTypeOK, ThreadTypeOK
<1>15. CASE CopyDone(p)
  BY <1>15 DEF CopyDone, pte
<1>16. CASE ResizeDone(p)
  BY <1>16 DEF ResizeDone, pte
<1>17. CASE UncopyDone(p)
  BY <1>17 DEF UncopyDone, pte
<1>18. CASE FreeprocDone(p)
  BY <1>18 DEF FreeprocDone, pte
<1>19. CASE Fork(p)
  <2>1. PICK c \in Proc, g \in Page :
           /\ state[c] = "UNUSED"
           /\ slot' = [slot EXCEPT ![<<c, Trapframe>>] = g]
           /\ Locals(p, "none", c, 0, 0, Zero)
    BY <1>19 DEF Fork
  <2> QED
    BY <1>t, <1>19, <2>1
       DEF Locals, TypeOK, PteTypeOK, ThreadTypeOK, LocalsTypeOK
<1>20. CASE AllocRoot(p)
  BY <1>t, <1>20 DEF AllocRoot, TypeOK, PteTypeOK
<1>21. CASE WalkAlloc(p)
  BY <1>t, <1>21 DEF WalkAlloc, TypeOK, PteTypeOK
<1>22. CASE ShareMapping(p)
  BY <1>t, <1>22 DEF ShareMapping, TypeOK, PteTypeOK
<1>23. CASE CountMapping(p)
  BY <1>23 DEF CountMapping, pte
<1>24. CASE UvmcopyFails(p)
  BY <1>24 DEF UvmcopyFails, pte
<1>25. CASE ForkDone(p)
  BY <1>25 DEF ForkDone, pte
<1>26. CASE Grow(p)
  BY <1>26 DEF Grow, pte
<1>27. CASE GrowAlloc(p)
  BY <1>t, <1>27 DEF GrowAlloc, TypeOK, PteTypeOK
<1>28. CASE GrowMap(p)
  BY <1>t, <1>28 DEF GrowMap, TypeOK, PteTypeOK
<1>29. CASE GrowMapFails(p)
  BY <1>29 DEF GrowMapFails, pte
<1>30. CASE GrowDone(p)
  BY <1>30 DEF GrowDone, pte
<1>31. CASE Shrink(p)
  BY <1>31 DEF Shrink, pte
<1>32. CASE Exit(p)
  BY <1>32 DEF Exit, pte
<1>33. CASE Wait(p)
  BY <1>33 DEF Wait, pte
<1>34. CASE WaitReap(p)
  BY <1>34 DEF WaitReap, pte
<1> QED
  BY <1>1, <1>2, <1>3, <1>4, <1>5, <1>6, <1>7, <1>8, <1>9, <1>10, <1>11,
      <1>12, <1>13, <1>14, <1>15, <1>16, <1>17, <1>18, <1>19, <1>20, <1>21, <1>22,
      <1>23, <1>24, <1>25, <1>26, <1>27, <1>28, <1>29, <1>30, <1>31, <1>32, <1>33,
      <1>34
     DEF UserStep, KernelStep

(* The hand of another thread. *)
LEMMA OtherHand ==
    ASSUME IInv, NEW p \in Proc, UserStep(p) \/ KernelStep(p),
           NEW q \in Proc, q # p
    PROVE  Mapped(<<q, Hand>>)' <=>
               pc'[q] \in {"copy", "growmap"} \/ <<q, Hand>> \in todo'[q]
<1>t. TypeOK /\ LocalsInv /\ TargetInv /\ TodoInv
  BY DEF IInv
<1>1. Mapped(<<q, Hand>>) <=>
          pc[q] \in {"copy", "growmap"} \/ <<q, Hand>> \in todo[q]
  BY DEF IInv, MappingInv
<1>2. <<q, Hand>> \in Slot /\ todo'[q] = todo[q]
  BY <1>t, KeyFacts, SlotFacts, Frame
<1>3. pc'[q] = pc[q] \/ (pc'[q] = "user" /\ pc[q] = "off")
  BY <1>t, Frame, TargetFacts
     DEF ForkDone, TypeOK, ThreadTypeOK, LocalsTypeOK
<1>4. <<q, Hand>> \in todo[p] => tgt[p] = q
  BY <1>t, TodoOwner, SlotFacts, KeyFacts
<1>5. tgt[p] = q => ~Mapped(<<q, Hand>>)
  BY <1>t, <1>1, TargetFacts DEF TodoInv, TodoAt, Freeing
<1>6. <<q, Hand>> \notin todo[p]
  BY <1>t, <1>4, <1>5 DEF TodoInv, TodoAt
<1>7. /\ <<q, Hand>> # <<p, Hand>> /\ <<q, Hand>> # Here(p)
      /\ \A c \in Proc : <<q, Hand>> # <<c, Trapframe>> /\ <<q, Hand>> # <<c, Root>>
  BY KeyFacts, SlotFacts DEF Here, Mem, Hand
<1>8. <<q, Hand>> # TableSlot(p) /\ <<q, Hand>> # Child(p)
  BY DEF TableSlot, Child, Table, Mem, Hand
<1>9. tgt[p] \in Proc /\ (Fork(p) => tgt'[p] \in Proc)
  BY <1>t DEF Fork, Locals, TypeOK, ThreadTypeOK, LocalsTypeOK
<1>10. slot'[<<q, Hand>>] = slot[<<q, Hand>>]
  BY <1>2, <1>6, <1>7, <1>8, <1>9, SlotEffect
<1> QED
  BY <1>1, <1>2, <1>3, <1>10 DEF Mapped

(* The page in the hand of the thread that takes the step. *)
LEMMA OwnHand ==
    ASSUME IInv, NEW p \in Proc, UserStep(p) \/ KernelStep(p)
    PROVE  Mapped(<<p, Hand>>)' <=>
               pc'[p] \in {"copy", "growmap"} \/ <<p, Hand>> \in todo'[p]
<1>t. TypeOK /\ LocalsInv /\ TargetInv /\ TodoInv
  BY DEF IInv
<1>l. LocalsAt(p) /\ TodoAt(p) /\ tgt[p] \in Proc
  BY <1>t DEF LocalsInv, TodoInv, TypeOK, ThreadTypeOK, LocalsTypeOK
<1>e. pc[p] \notin Freeing => todo[p] = {}
  BY <1>l DEF TodoAt
<1>s. /\ <<p, Hand>> \in Slot
      /\ \A q \in Proc, k \in TableKey \cup {Trapframe, Root} :
             <<q, k>> # <<p, Hand>>
      /\ Here(p) # <<p, Hand>> /\ Child(p) # <<p, Hand>>
      /\ TableSlot(p) # <<p, Hand>>
  BY KeyFacts, SlotFacts DEF Here, Child, TableSlot, Mem, Table, Hand
<1>m. Mapped(<<p, Hand>>) <=>
          pc[p] \in {"copy", "growmap"} \/ <<p, Hand>> \in todo[p]
  BY DEF IInv, MappingInv
<1>v. /\ va[p] \in 0 .. MaxVA /\ sz[p] \in 0 .. MaxVA
      /\ 0 \in 0 .. MaxVA /\ \A q \in Proc : sz[q] \in 0 .. MaxVA
  BY <1>t, AddressAssumption
     DEF TypeOK, TableTypeOK, ThreadTypeOK, LocalsTypeOK
<1>n. /\ \A c \in Proc, a, b \in 0 .. MaxVA : <<p, Hand>> \notin MemSlots(c, a, b)
      /\ \A c \in Proc, n \in 0 .. MaxVA : <<p, Hand>> \notin ProcSlots(c, n)
  BY MemSlotsFacts, ProcSlotsFacts, SlotFacts, KeyFacts
<1>p. \A g \in Page : g # NoPage
  BY ProcAssumption
<1>1. CASE UserStore(p)
  BY <1>t, <1>l, <1>e, <1>s, <1>m, <1>v, <1>n, <1>p, <1>1
     DEF UserStore, pte, table, locals, LocalsAt, Resolving, Growing, Forking,
         Freeing, Mapped, TypeOK, PteTypeOK, ThreadTypeOK
<1>2. CASE CowFault(p)
  BY <1>t, <1>l, <1>e, <1>s, <1>m, <1>v, <1>n, <1>p, <1>2
     DEF CowFault, Goto, pte, table, LocalsAt, Resolving, Growing, Forking,
         Freeing, Mapped, TypeOK, PteTypeOK, ThreadTypeOK
<1>3. CASE BadAccess(p)
  BY <1>t, <1>l, <1>e, <1>s, <1>m, <1>v, <1>n, <1>p, <1>3
     DEF BadAccess, Goto, pte, table, locals, LocalsAt, Resolving, Growing,
         Forking, Freeing, Mapped, TypeOK, PteTypeOK, ThreadTypeOK
<1>4. CASE ReadRef(p)
  BY <1>t, <1>l, <1>e, <1>s, <1>m, <1>v, <1>n, <1>p, <1>4
     DEF ReadRef, Goto, pte, table, locals, LocalsAt, Resolving, Growing,
         Forking, Freeing, Mapped, TypeOK, PteTypeOK, ThreadTypeOK
<1>5. CASE ReusePage(p)
  BY <1>t, <1>l, <1>e, <1>s, <1>m, <1>v, <1>n, <1>p, <1>5
     DEF ReusePage, Return, Goto, locals, table, LocalsAt, Resolving, Growing,
         Forking, Freeing, Mapped, TypeOK, PteTypeOK, ThreadTypeOK
<1>6. CASE AllocCopy(p)
  BY <1>t, <1>l, <1>e, <1>s, <1>m, <1>v, <1>n, <1>p, <1>6
     DEF AllocCopy, Goto, table, locals, LocalsAt, Resolving, Growing,
         Forking, Freeing, Mapped, TypeOK, PteTypeOK, ThreadTypeOK
<1>7. CASE AllocCopyFails(p)
  BY <1>t, <1>l, <1>e, <1>s, <1>m, <1>v, <1>n, <1>p, <1>7
     DEF AllocCopyFails, Goto, Fail, pte, table, Return, LocalsAt, Resolving,
         Growing, Forking, Freeing, Mapped, TypeOK, PteTypeOK, ThreadTypeOK
<1>8. CASE CopyPage(p)
  <2>1. va[p] < MaxVA /\ Here(p) \in cow
    BY <1>t, <1>8, StepBounds DEF CopyPage, IInv, FlagInv, Resolving
  <2>2. Mapped(Here(p)) /\ Here(p) \in Slot
    BY <1>t, <2>1, HereFacts DEF IInv, FlagInv
  <2> QED
    BY <1>t, <1>s, <1>8, <2>2
       DEF CopyPage, Mapped, TypeOK, PteTypeOK, ThreadTypeOK
<1>9. CASE Copyout(p)
  BY <1>t, <1>l, <1>e, <1>s, <1>m, <1>v, <1>n, <1>p, <1>9
     DEF Copyout, Goto, pte, table, LocalsAt, Resolving, Growing, Forking,
         Freeing, Mapped, TypeOK, PteTypeOK, ThreadTypeOK
<1>10. CASE CopyoutPage(p)
  BY <1>t, <1>l, <1>e, <1>s, <1>m, <1>v, <1>n, <1>p, <1>10
     DEF CopyoutPage, Goto, locals, Fail, pte, table, Return, LocalsAt,
         Resolving, Growing, Forking, Freeing, Mapped, TypeOK, PteTypeOK,
         ThreadTypeOK
<1>11. CASE Deliver(p)
  BY <1>t, <1>l, <1>e, <1>s, <1>m, <1>v, <1>n, <1>p, <1>11
     DEF Deliver, Goto, pte, table, LocalsAt, Resolving, Growing, Forking,
         Freeing, Mapped, TypeOK, PteTypeOK, ThreadTypeOK
<1>12. CASE CopyoutDone(p)
  BY <1>t, <1>l, <1>e, <1>s, <1>m, <1>v, <1>n, <1>p, <1>12
     DEF CopyoutDone, Return, pte, table, Goto, LocalsAt, Resolving, Growing,
         Forking, Freeing, Mapped, TypeOK, PteTypeOK, ThreadTypeOK
<1>13. CASE DropReference(p)
  <2>0. PICK s \in todo[p] :
           /\ pc[p] = "free" /\ pc'[p] \in {"free", "push"}
           /\ ClearSlot(p, s) \/ UNCHANGED <<pte, todo>>
    BY <1>t, <1>13 DEF DropReference, NextToFree, Goto, TypeOK, ThreadTypeOK
  <2>1. CASE ClearSlot(p, s)
    <3>1. /\ todo'[p] = todo[p] \ {s}
          /\ \A u \in Slot : Mapped(u)' <=> Mapped(u) /\ u # s
      BY <1>t, <2>1 DEF ClearSlot, Mapped, TypeOK, PteTypeOK, ThreadTypeOK
    <3> QED
      BY <1>s, <1>m, <2>0, <3>1 DEF Freeing
  <2>2. CASE UNCHANGED <<pte, todo>>
    BY <1>m, <2>0, <2>2 DEF pte, Mapped
  <2> QED
    BY <2>0, <2>1, <2>2
<1>14. CASE PushPage(p)
  <2> DEFINE s == at[p]
  <2>0. s \in todo[p] /\ ClearSlot(p, s) /\ pc[p] = "push" /\ pc'[p] = "free"
    BY <1>t, <1>l, <1>14 DEF PushPage, TodoAt, Goto, TypeOK, ThreadTypeOK
  <2>1. CASE ClearSlot(p, s)
    <3>1. /\ todo'[p] = todo[p] \ {s}
          /\ \A u \in Slot : Mapped(u)' <=> Mapped(u) /\ u # s
      BY <1>t, <2>1 DEF ClearSlot, Mapped, TypeOK, PteTypeOK, ThreadTypeOK
    <3> QED
      BY <1>s, <1>m, <2>0, <3>1 DEF Freeing
  <2> QED
    BY <2>0, <2>1
<1>15. CASE CopyDone(p)
  BY <1>t, <1>l, <1>e, <1>s, <1>m, <1>v, <1>n, <1>p, <1>15
     DEF CopyDone, Return, Goto, locals, pte, table, LocalsAt, Resolving,
         Growing, Forking, Freeing, Mapped, TypeOK, PteTypeOK, ThreadTypeOK
<1>16. CASE ResizeDone(p)
  BY <1>t, <1>l, <1>e, <1>s, <1>m, <1>v, <1>n, <1>p, <1>16
     DEF ResizeDone, Return, pte, Goto, LocalsAt, Resolving, Growing, Forking,
         Freeing, Mapped, TypeOK, PteTypeOK, ThreadTypeOK
<1>17. CASE UncopyDone(p)
  BY <1>t, <1>l, <1>e, <1>s, <1>m, <1>v, <1>n, <1>p, <1>17
     DEF UncopyDone, pte, table, LocalsAt, Resolving, Growing, Forking,
         Freeing, Mapped, TypeOK, PteTypeOK, ThreadTypeOK
<1>18. CASE FreeprocDone(p)
  BY <1>t, <1>l, <1>e, <1>s, <1>m, <1>v, <1>n, <1>p, <1>18
     DEF FreeprocDone, Return, pte, Goto, LocalsAt, Resolving, Growing,
         Forking, Freeing, Mapped, TypeOK, PteTypeOK, ThreadTypeOK
<1>19. CASE Fork(p)
  BY <1>t, <1>l, <1>e, <1>s, <1>m, <1>v, <1>n, <1>p, <1>19
     DEF Fork, Goto, LocalsAt, Resolving, Growing, Forking, Freeing, Mapped,
         TypeOK, PteTypeOK, ThreadTypeOK
<1>20. CASE AllocRoot(p)
  BY <1>t, <1>l, <1>e, <1>s, <1>m, <1>v, <1>n, <1>p, <1>20
     DEF AllocRoot, Goto, table, LocalsAt, Resolving, Growing, Forking,
         Freeing, Mapped, TypeOK, PteTypeOK, ThreadTypeOK
<1>21. CASE WalkAlloc(p)
  BY <1>t, <1>l, <1>e, <1>s, <1>m, <1>v, <1>n, <1>p, <1>21
     DEF WalkAlloc, table, locals, LocalsAt, Resolving, Growing, Forking,
         Freeing, Mapped, TypeOK, PteTypeOK, ThreadTypeOK
<1>22. CASE ShareMapping(p)
  BY <1>t, <1>l, <1>e, <1>s, <1>m, <1>v, <1>n, <1>p, <1>22
     DEF ShareMapping, Goto, table, locals, LocalsAt, Resolving, Growing,
         Forking, Freeing, Mapped, TypeOK, PteTypeOK, ThreadTypeOK
<1>23. CASE CountMapping(p)
  BY <1>t, <1>l, <1>e, <1>s, <1>m, <1>v, <1>n, <1>p, <1>23
     DEF CountMapping, Goto, pte, table, LocalsAt, Resolving, Growing,
         Forking, Freeing, Mapped, TypeOK, PteTypeOK, ThreadTypeOK
<1>24. CASE UvmcopyFails(p)
  BY <1>t, <1>l, <1>e, <1>s, <1>m, <1>v, <1>n, <1>p, <1>24
     DEF UvmcopyFails, Goto, pte, table, LocalsAt, Resolving, Growing,
         Forking, Freeing, Mapped, TypeOK, PteTypeOK, ThreadTypeOK
<1>25. CASE ForkDone(p)
  <2>1. pc[p] = "uvmcopy" /\ pc'[p] = "user" /\ UNCHANGED <<slot, todo>>
    BY <1>t, <1>l, <1>25 DEF ForkDone, pte, TypeOK, ThreadTypeOK
  <2> QED
    BY <1>e, <1>m, <2>1 DEF Freeing, Mapped
<1>26. CASE Grow(p)
  BY <1>t, <1>l, <1>e, <1>s, <1>m, <1>v, <1>n, <1>p, <1>26
     DEF Grow, Goto, pte, table, LocalsAt, Resolving, Growing, Forking,
         Freeing, Mapped, TypeOK, PteTypeOK, ThreadTypeOK
<1>27. CASE GrowAlloc(p)
  BY <1>t, <1>l, <1>e, <1>s, <1>m, <1>v, <1>n, <1>p, <1>27
     DEF GrowAlloc, Goto, table, LocalsAt, Resolving, Growing, Forking,
         Freeing, Mapped, TypeOK, PteTypeOK, ThreadTypeOK
<1>28. CASE GrowMap(p)
  <2>1. va[p] < MaxVA
    BY <1>t, <1>28, StepBounds DEF GrowMap
  <2>2. Here(p) \in Slot /\ pc[p] = "growmap"
    BY <1>t, <1>28, <2>1, HereFacts DEF GrowMap
  <2> QED
    BY <1>t, <1>e, <1>s, <1>28, <2>2
       DEF GrowMap, Goto, Freeing, Mapped, TypeOK, PteTypeOK, ThreadTypeOK
<1>29. CASE GrowMapFails(p)
  BY <1>t, <1>m, <1>29
     DEF GrowMapFails, pte, Mapped, TypeOK, ThreadTypeOK
<1>30. CASE GrowDone(p)
  BY <1>t, <1>l, <1>e, <1>s, <1>m, <1>v, <1>n, <1>p, <1>30
     DEF GrowDone, Return, pte, Goto, LocalsAt, Resolving, Growing, Forking,
         Freeing, Mapped, TypeOK, PteTypeOK, ThreadTypeOK
<1>31. CASE Shrink(p)
  <2>1. PICK n \in 0 .. sz[p] - 1 :
             todo' = [todo EXCEPT ![p] = MemSlots(p, n, sz[p])]
    BY <1>31 DEF Shrink
  <2>2. n \in 0 .. MaxVA
    BY <1>v, AddressAssumption
  <2> QED
    BY <1>t, <1>e, <1>m, <1>v, <1>n, <1>31, <2>1, <2>2
       DEF Shrink, Goto, pte, Freeing, Mapped, TypeOK, ThreadTypeOK
<1>32. CASE Exit(p)
  BY <1>t, <1>l, <1>e, <1>s, <1>m, <1>v, <1>n, <1>p, <1>32
     DEF Exit, Goto, pte, locals, LocalsAt, Resolving, Growing, Forking,
         Freeing, Mapped, TypeOK, PteTypeOK, ThreadTypeOK
<1>33. CASE Wait(p)
  <2>1. PICK c \in Proc :
           \/ todo' = [todo EXCEPT ![p] = ProcSlots(c, sz[c])] /\ Goto(p, "free")
           \/ Goto(p, "copyout") /\ UNCHANGED todo
    BY <1>33 DEF Wait
  <2>2. pc[p] = "user" /\ UNCHANGED slot
    BY <1>33 DEF Wait, pte
  <2> QED
    BY <1>t, <1>e, <1>m, <1>v, <1>n, <2>1, <2>2
       DEF Goto, Freeing, Mapped, TypeOK, ThreadTypeOK
<1>34. CASE WaitReap(p)
  BY <1>t, <1>l, <1>e, <1>s, <1>m, <1>v, <1>n, <1>p, <1>34
     DEF WaitReap, Goto, pte, table, LocalsAt, Resolving, Growing, Forking,
         Freeing, Mapped, TypeOK, PteTypeOK, ThreadTypeOK
<1> QED
  BY <1>1, <1>2, <1>3, <1>4, <1>5, <1>6, <1>7, <1>8, <1>9, <1>10, <1>11,
      <1>12, <1>13, <1>14, <1>15, <1>16, <1>17, <1>18, <1>19, <1>20, <1>21, <1>22,
      <1>23, <1>24, <1>25, <1>26, <1>27, <1>28, <1>29, <1>30, <1>31, <1>32, <1>33,
      <1>34
     DEF UserStep, KernelStep

(* What a thread works on is out of reach of the others. *)
LEMMA TargetSlots ==
    ASSUME IInv, NEW p \in Proc, UserStep(p) \/ KernelStep(p),
           NEW q \in Proc, q # p, tgt[q] # q, NEW k \in Key
    PROVE  slot'[<<tgt[q], k>>] = slot[<<tgt[q], k>>]
<1>t. TypeOK /\ LocalsInv /\ TargetInv
  BY DEF IInv
<1>1. tgt[q] \in Proc
  BY <1>t DEF TypeOK, ThreadTypeOK, LocalsTypeOK
<1>2. state[tgt[q]] \in {"USED", "ZOMBIE"} /\ pc[tgt[q]] = "off"
  BY <1>t, <1>1, TargetFacts
<1>3. tgt[q] # p /\ tgt[q] # tgt[p]
  BY <1>t, <1>2, Running, TargetFacts
<1> QED
  BY <1>1, <1>2, <1>3, SlotFrame

(* freeproc() frees all that a process which does not run still has. *)
LEMMA ProcSlotsCover ==
    ASSUME IInv, NEW c \in Proc, pc[c] = "off", NEW n \in 0 .. MaxVA,
           \A v \in VA : Mapped(<<c, Mem(v)>>) => v < n, NEW k \in Key
    PROVE  Mapped(<<c, k>>) => <<c, k>> \in ProcSlots(c, n)
<1>1. ~Mapped(<<c, Hand>>)
  BY DEF IInv, MappingInv, TodoInv, TodoAt, Freeing
<1>2. k \in MemKey \/ k \in TableKey \cup {Trapframe, Root} \/ k = Hand
  BY KeyFacts
<1> QED
  BY <1>1, <1>2, KeyFacts, ProcSlotsFacts

(* What freeproc() still has to free, after a step that reaches it. *)
LEMMA FreeprocStep ==
    ASSUME IInv, NEW p \in Proc, UserStep(p) \/ KernelStep(p), NEW k \in Key,
           ret'[p] = "freeproc"
    PROVE  (Mapped(<<tgt[p], k>>) => <<tgt[p], k>> \in todo[p])'
<1>t. TypeOK /\ LocalsInv /\ TargetInv /\ TodoInv
  BY DEF IInv
<1>l. LocalsAt(p) /\ TodoAt(p) /\ TargetAt(p) /\ tgt[p] \in Proc
  BY <1>t DEF LocalsInv, TodoInv, TargetInv, TypeOK, ThreadTypeOK, LocalsTypeOK
<1>f. ret[p] = "freeproc" => tgt[p] # p /\ pc[p] \in Freeing
  BY <1>t, <1>l DEF LocalsAt, Forking, Growing, Resolving, Freeing, Location,
     TypeOK, ThreadTypeOK
<1>h. ret[p] = "freeproc" =>
          (Mapped(<<tgt[p], k>>) => <<tgt[p], k>> \in todo[p])
  BY DEF IInv, MappingInv
<1>c. /\ \A v \in VA : ~(v < 0)
      /\ 0 \in 0 .. MaxVA /\ \A c \in Proc : sz[c] \in 0 .. MaxVA
  BY <1>t, AddressAssumption DEF VA, TypeOK, TableTypeOK
<1>1. CASE UserStore(p)
  BY <1>t, <1>l, <1>f, <1>1
     DEF UserStore, locals, pte, LocalsAt, Forking, Growing, Freeing
<1>2. CASE CowFault(p)
  BY <1>t, <1>f, <1>h, <1>2
     DEF CowFault, Locals, Goto, pte, table, Freeing, TypeOK, ThreadTypeOK,
         LocalsTypeOK
<1>3. CASE BadAccess(p)
  BY <1>t, <1>l, <1>f, <1>3
     DEF BadAccess, locals, pte, Goto, LocalsAt, Forking, Growing, Freeing
<1>4. CASE ReadRef(p)
  BY <1>t, <1>l, <1>f, <1>4
     DEF ReadRef, locals, pte, Goto, LocalsAt, Forking, Growing, Freeing
<1>5. CASE ReusePage(p)
  BY <1>t, <1>f, <1>h, <1>5
     DEF ReusePage, Return, Goto, locals, table, Locals, Freeing, TypeOK,
         ThreadTypeOK, LocalsTypeOK
<1>6. CASE AllocCopy(p)
  BY <1>t, <1>l, <1>f, <1>6
     DEF AllocCopy, locals, Goto, LocalsAt, Forking, Growing, Freeing
<1>7. CASE AllocCopyFails(p)
  BY <1>t, <1>f, <1>h, <1>7
     DEF AllocCopyFails, Goto, Locals, Fail, pte, table, Return, Freeing,
         TypeOK, ThreadTypeOK, LocalsTypeOK
<1>8. CASE CopyPage(p)
  BY <1>t, <1>l, <1>f, <1>8
     DEF CopyPage, locals, MakeWritable, Goto, LocalsAt, Forking, Growing,
         Freeing
<1>9. CASE Copyout(p)
  BY <1>t, <1>f, <1>h, <1>9
     DEF Copyout, Locals, Goto, pte, table, Freeing, TypeOK, ThreadTypeOK,
         LocalsTypeOK
<1>10. CASE CopyoutPage(p)
  BY <1>t, <1>f, <1>h, <1>10
     DEF CopyoutPage, Goto, locals, Fail, pte, table, Return, Locals, Freeing,
         TypeOK, ThreadTypeOK, LocalsTypeOK
<1>11. CASE Deliver(p)
  BY <1>t, <1>l, <1>f, <1>11
     DEF Deliver, pte, Goto, LocalsAt, Forking, Growing, Freeing
<1>12. CASE CopyoutDone(p)
  BY <1>t, <1>f, <1>h, <1>12
     DEF CopyoutDone, Return, pte, table, Goto, Locals, Freeing, TypeOK,
         ThreadTypeOK, LocalsTypeOK
<1>13. CASE DropReference(p)
  <2>0. PICK s \in todo[p] :
           /\ ClearSlot(p, s) \/ UNCHANGED <<pte, todo>>
           /\ UNCHANGED locals
    BY <1>13 DEF DropReference, NextToFree
  <2>1. CASE ClearSlot(p, s)
    <3>1. /\ todo'[p] = todo[p] \ {s} /\ tgt' = tgt /\ ret' = ret
          /\ \A u \in Slot : Mapped(u)' <=> Mapped(u) /\ u # s
      BY <1>t, <2>0, <2>1
         DEF ClearSlot, Mapped, locals, TypeOK, PteTypeOK, ThreadTypeOK
    <3> QED
      BY <1>l, <1>h, <3>1, SlotFacts
  <2>2. CASE UNCHANGED <<pte, todo>>
    BY <1>h, <2>0, <2>2 DEF pte, Mapped, locals
  <2> QED
    BY <2>0, <2>1, <2>2
<1>14. CASE PushPage(p)
  <2> DEFINE s == at[p]
  <2>0. UNCHANGED locals
    BY <1>14 DEF PushPage
  <2>1. ClearSlot(p, s)
    BY <1>14 DEF PushPage
  <2> QED
    <3>1. /\ todo'[p] = todo[p] \ {s} /\ tgt' = tgt /\ ret' = ret
          /\ \A u \in Slot : Mapped(u)' <=> Mapped(u) /\ u # s
      BY <1>t, <2>0, <2>1
         DEF ClearSlot, Mapped, locals, TypeOK, PteTypeOK, ThreadTypeOK
    <3> QED
      BY <1>l, <1>h, <3>1, SlotFacts
<1>15. CASE CopyDone(p)
  BY <1>t, <1>f, <1>h, <1>15
     DEF CopyDone, Return, Goto, locals, pte, table, Locals, Freeing, TypeOK,
         ThreadTypeOK, LocalsTypeOK
<1>16. CASE ResizeDone(p)
  BY <1>t, <1>f, <1>h, <1>16
     DEF ResizeDone, Return, pte, Goto, Locals, Freeing, TypeOK, ThreadTypeOK,
         LocalsTypeOK
<1>17. CASE UncopyDone(p)
  <2>1. tgt[p] # p /\ state[tgt[p]] = "USED" /\ pc[tgt[p]] = "off"
    BY <1>t, <1>l, <1>17
       DEF UncopyDone, LocalsAt, TargetInv, TargetAt, Forking
  <2>2. \A v \in VA : ~Mapped(<<tgt[p], Mem(v)>>)
    <3>1. \A v \in VA : <<tgt[p], Mem(v)>> \notin todo[p]
      BY <1>l, <1>17 DEF UncopyDone, TodoAt, Freeing
    <3>2. \A q \in Proc : q # tgt[p] /\ tgt[q] = tgt[p] => q = p
      BY <1>t, <1>l, <2>1, TargetFacts
    <3> QED
      BY <1>l, <1>17, <2>1, <3>1, <3>2
         DEF UncopyDone, IInv, MappingInv, HasPage, EmbryoHas
  <2>3. Mapped(<<tgt[p], k>>) => <<tgt[p], k>> \in ProcSlots(tgt[p], 0)
    BY <1>l, <1>c, <2>1, <2>2, ProcSlotsCover
  <2> QED
    BY <1>t, <1>17, <2>3
       DEF UncopyDone, pte, Mapped, TypeOK, ThreadTypeOK
<1>18. CASE FreeprocDone(p)
  BY <1>t, <1>f, <1>h, <1>18
     DEF FreeprocDone, Return, pte, Goto, Locals, Freeing, TypeOK,
         ThreadTypeOK, LocalsTypeOK
<1>19. CASE Fork(p)
  BY <1>t, <1>f, <1>h, <1>19
     DEF Fork, Locals, Goto, Freeing, TypeOK, ThreadTypeOK, LocalsTypeOK
<1>20. CASE AllocRoot(p)
  <2>1. tgt[p] # p /\ state[tgt[p]] = "USED" /\ pc[tgt[p]] = "off"
    BY <1>t, <1>l, <1>20
       DEF AllocRoot, LocalsAt, TargetInv, TargetAt, Forking
  <2>2. \A v \in VA : ~Mapped(<<tgt[p], Mem(v)>>)
    <3>1. \A v \in VA : <<tgt[p], Mem(v)>> \notin todo[p]
      BY <1>l, <1>20 DEF AllocRoot, TodoAt, Freeing
    <3>2. \A q \in Proc : q # tgt[p] /\ tgt[q] = tgt[p] => q = p
      BY <1>t, <1>l, <2>1, TargetFacts
    <3> QED
      BY <1>l, <1>20, <2>1, <3>1, <3>2
         DEF AllocRoot, IInv, MappingInv, HasPage, EmbryoHas
  <2>3. Mapped(<<tgt[p], k>>) => <<tgt[p], k>> \in ProcSlots(tgt[p], 0)
    BY <1>l, <1>c, <2>1, <2>2, ProcSlotsCover
  <2>4. ret[p] = "none" /\ tgt' = tgt
    BY <1>l, <1>20 DEF AllocRoot, LocalsAt, Forking
  <2>5. todo'[p] = ProcSlots(tgt[p], 0) /\ UNCHANGED slot
    BY <1>t, <1>20, <2>4
       DEF AllocRoot, TypeOK, ThreadTypeOK, LocalsTypeOK
  <2> QED
    BY <2>3, <2>4, <2>5 DEF Mapped
<1>21. CASE WalkAlloc(p)
  BY <1>t, <1>l, <1>f, <1>21
     DEF WalkAlloc, locals, LocalsAt, Forking, Growing, Freeing
<1>22. CASE ShareMapping(p)
  BY <1>t, <1>l, <1>f, <1>22
     DEF ShareMapping, locals, Goto, LocalsAt, Forking, Growing, Freeing
<1>23. CASE CountMapping(p)
  BY <1>t, <1>l, <1>f, <1>23
     DEF CountMapping, pte, Goto, LocalsAt, Forking, Growing, Freeing
<1>24. CASE UvmcopyFails(p)
  BY <1>t, <1>l, <1>f, <1>24
     DEF UvmcopyFails, LocalsAt, Forking, Growing, Freeing, TypeOK, ThreadTypeOK,
         LocalsTypeOK
<1>25. CASE ForkDone(p)
  BY <1>t, <1>f, <1>h, <1>25
     DEF ForkDone, Locals, pte, Freeing, TypeOK, ThreadTypeOK, LocalsTypeOK
<1>26. CASE Grow(p)
  BY <1>t, <1>f, <1>h, <1>26
     DEF Grow, Locals, Goto, pte, table, Freeing, TypeOK, ThreadTypeOK,
         LocalsTypeOK
<1>27. CASE GrowAlloc(p)
  BY <1>t, <1>l, <1>f, <1>27
     DEF GrowAlloc, LocalsAt, Forking, Growing, Freeing, TypeOK, ThreadTypeOK,
         LocalsTypeOK
<1>28. CASE GrowMap(p)
  BY <1>t, <1>l, <1>f, <1>28
     DEF GrowMap, Goto, LocalsAt, Forking, Growing, Freeing
<1>29. CASE GrowMapFails(p)
  BY <1>t, <1>l, <1>f, <1>29
     DEF GrowMapFails, LocalsAt, Forking, Growing, Freeing, TypeOK, ThreadTypeOK,
         LocalsTypeOK
<1>30. CASE GrowDone(p)
  BY <1>t, <1>f, <1>h, <1>30
     DEF GrowDone, Return, pte, Goto, Locals, Freeing, TypeOK, ThreadTypeOK,
         LocalsTypeOK
<1>31. CASE Shrink(p)
  BY <1>t, <1>f, <1>h, <1>31
     DEF Shrink, Locals, Goto, pte, table, Freeing, TypeOK, ThreadTypeOK,
         LocalsTypeOK
<1>32. CASE Exit(p)
  BY <1>t, <1>l, <1>f, <1>32
     DEF Exit, locals, pte, Goto, LocalsAt, Forking, Growing, Freeing
<1>33. CASE Wait(p)
  <2>1. PICK c \in Proc :
           /\ parent[c] = p /\ state[c] = "ZOMBIE"
           /\ \/ /\ Locals(p, "freeproc", c, 0, 0, Zero)
                 /\ todo' = [todo EXCEPT ![p] = ProcSlots(c, sz[c])]
              \/ \E a \in VA, x \in Value : Locals(p, "wait", c, a, a + 1, x)
    BY <1>33 DEF Wait
  <2>2. tgt'[p] = c /\ todo'[p] = ProcSlots(c, sz[c]) /\ UNCHANGED slot
    BY <1>t, <1>33, <2>1
       DEF Wait, Locals, pte, TypeOK, ThreadTypeOK, LocalsTypeOK
  <2>3. pc[c] = "off"
    BY <1>t, <2>1 DEF TargetInv
  <2>4. \A v \in VA : Mapped(<<c, Mem(v)>>) => v < sz[c]
    BY <2>1 DEF IInv, MappingInv, HasPage, ZombieHas
  <2>5. Mapped(<<c, k>>) => <<c, k>> \in ProcSlots(c, sz[c])
    BY <1>c, <2>3, <2>4, ProcSlotsCover
  <2> QED
    BY <2>2, <2>5 DEF Mapped
<1>34. CASE WaitReap(p)
  <2>1. /\ state[tgt[p]] = "ZOMBIE" /\ tgt[p] # p /\ pc[tgt[p]] = "off"
        /\ ret[p] = "wait"
    BY <1>t, <1>l, <1>34
       DEF WaitReap, LocalsAt, TargetInv, TargetAt, Forking
  <2>2. \A v \in VA : Mapped(<<tgt[p], Mem(v)>>) => v < sz[tgt[p]]
    BY <1>l, <2>1 DEF IInv, MappingInv, HasPage, ZombieHas
  <2>3. Mapped(<<tgt[p], k>>) => <<tgt[p], k>> \in ProcSlots(tgt[p], sz[tgt[p]])
    BY <1>l, <1>c, <2>1, <2>2, ProcSlotsCover
  <2> QED
    BY <1>t, <1>34, <2>3
       DEF WaitReap, pte, Mapped, TypeOK, ThreadTypeOK
<1> QED
  BY <1>1, <1>2, <1>3, <1>4, <1>5, <1>6, <1>7, <1>8, <1>9, <1>10, <1>11,
      <1>12, <1>13, <1>14, <1>15, <1>16, <1>17, <1>18, <1>19, <1>20, <1>21, <1>22,
      <1>23, <1>24, <1>25, <1>26, <1>27, <1>28, <1>29, <1>30, <1>31, <1>32, <1>33,
      <1>34
     DEF UserStep, KernelStep

(* What a thread turns to, and how. *)
LEMMA StepKinds ==
    ASSUME IInv, NEW p \in Proc, UserStep(p) \/ KernelStep(p)
    PROVE  /\ Fork(p) \/ Wait(p) \/ tgt'[p] \in {p, tgt[p]}
           /\ pc'[p] = "root" => Fork(p)
           /\ state'[p] \in {"RUNNABLE", "ZOMBIE"}
           /\ pc'[p] = "own" => ReadRef(p)
           /\ pc'[p] = "push" => DropReference(p)
           /\ pc'[p] = "incref" => ShareMapping(p)
<1>t. TypeOK /\ LocalsInv
  BY DEF IInv
<1>r. state[p] = "RUNNABLE"
  BY Running
<1>l. tgt[p] \in Proc /\ LocalsAt(p)
  BY <1>t DEF LocalsInv, TypeOK, ThreadTypeOK, LocalsTypeOK
<1>1. CASE UserStore(p)
  BY <1>t, <1>r, <1>l, <1>1
     DEF UserStore, table, locals, TypeOK, TableTypeOK, ThreadTypeOK,
         LocalsTypeOK
<1>2. CASE CowFault(p)
  BY <1>t, <1>r, <1>l, <1>2
     DEF CowFault, Locals, Goto, table, TypeOK, TableTypeOK, ThreadTypeOK,
         LocalsTypeOK
<1>3. CASE BadAccess(p)
  BY <1>t, <1>r, <1>l, <1>3
     DEF BadAccess, Goto, table, locals, TypeOK, TableTypeOK, ThreadTypeOK,
         LocalsTypeOK
<1>4. CASE ReadRef(p)
  BY <1>t, <1>r, <1>l, <1>4
     DEF ReadRef, Goto, table, locals, TypeOK, TableTypeOK, ThreadTypeOK,
         LocalsTypeOK
<1>5. CASE ReusePage(p)
  BY <1>t, <1>r, <1>l, <1>5
     DEF ReusePage, Return, Goto, locals, table, Locals, TypeOK, TableTypeOK,
         ThreadTypeOK, LocalsTypeOK
<1>6. CASE AllocCopy(p)
  BY <1>t, <1>r, <1>l, <1>6
     DEF AllocCopy, Goto, table, locals, TypeOK, TableTypeOK, ThreadTypeOK,
         LocalsTypeOK
<1>7. CASE AllocCopyFails(p)
  BY <1>t, <1>r, <1>l, <1>7
     DEF AllocCopyFails, Goto, Locals, Fail, table, Return, TypeOK,
         TableTypeOK, ThreadTypeOK, LocalsTypeOK
<1>8. CASE CopyPage(p)
  BY <1>t, <1>r, <1>l, <1>8
     DEF CopyPage, Goto, table, locals, TypeOK, TableTypeOK, ThreadTypeOK,
         LocalsTypeOK
<1>9. CASE Copyout(p)
  BY <1>t, <1>r, <1>l, <1>9
     DEF Copyout, Locals, Goto, table, TypeOK, TableTypeOK, ThreadTypeOK,
         LocalsTypeOK
<1>10. CASE CopyoutPage(p)
  BY <1>t, <1>r, <1>l, <1>10
     DEF CopyoutPage, Goto, locals, Fail, table, Return, Locals, TypeOK,
         TableTypeOK, ThreadTypeOK, LocalsTypeOK
<1>11. CASE Deliver(p)
  BY <1>t, <1>r, <1>l, <1>11
     DEF Deliver, Goto, table, TypeOK, TableTypeOK, ThreadTypeOK, LocalsTypeOK
<1>12. CASE CopyoutDone(p)
  BY <1>t, <1>r, <1>l, <1>12
     DEF CopyoutDone, Return, table, Goto, Locals, TypeOK, TableTypeOK,
         ThreadTypeOK, LocalsTypeOK
<1>13. CASE DropReference(p)
  BY <1>t, <1>r, <1>l, <1>13
     DEF DropReference, Goto, table, locals, TypeOK, TableTypeOK,
         ThreadTypeOK, LocalsTypeOK
<1>14. CASE PushPage(p)
  BY <1>t, <1>r, <1>l, <1>14
     DEF PushPage, Goto, table, locals, TypeOK, TableTypeOK, ThreadTypeOK,
         LocalsTypeOK
<1>15. CASE CopyDone(p)
  BY <1>t, <1>r, <1>l, <1>15
     DEF CopyDone, Return, Goto, locals, table, Locals, TypeOK, TableTypeOK,
         ThreadTypeOK, LocalsTypeOK
<1>16. CASE ResizeDone(p)
  BY <1>t, <1>r, <1>l, <1>16
     DEF ResizeDone, Return, Goto, Locals, TypeOK, TableTypeOK, ThreadTypeOK,
         LocalsTypeOK
<1>17. CASE UncopyDone(p)
  BY <1>t, <1>r, <1>l, <1>17
     DEF UncopyDone, table, TypeOK, TableTypeOK, ThreadTypeOK, LocalsTypeOK
<1>18. CASE FreeprocDone(p)
  BY <1>t, <1>r, <1>l, <1>18
     DEF FreeprocDone, Return, Goto, Locals, LocalsAt, TypeOK, TableTypeOK,
         ThreadTypeOK, LocalsTypeOK
<1>19. CASE Fork(p)
  <2>1. PICK c \in Proc : /\ state[c] = "UNUSED"
                          /\ state' = [state EXCEPT ![c] = "USED"]
    BY <1>19 DEF Fork
  <2>2. pc'[p] = "root"
    BY <1>t, <1>19 DEF Fork, Goto, TypeOK, ThreadTypeOK
  <2> QED
    BY <1>t, <1>r, <1>19, <2>1, <2>2 DEF TypeOK, TableTypeOK
<1>20. CASE AllocRoot(p)
  BY <1>t, <1>r, <1>l, <1>20
     DEF AllocRoot, Goto, table, TypeOK, TableTypeOK, ThreadTypeOK,
         LocalsTypeOK
<1>21. CASE WalkAlloc(p)
  BY <1>t, <1>r, <1>l, <1>21
     DEF WalkAlloc, table, locals, TypeOK, TableTypeOK, ThreadTypeOK,
         LocalsTypeOK
<1>22. CASE ShareMapping(p)
  BY <1>t, <1>r, <1>l, <1>22
     DEF ShareMapping, Goto, table, locals, TypeOK, TableTypeOK, ThreadTypeOK,
         LocalsTypeOK
<1>23. CASE CountMapping(p)
  BY <1>t, <1>r, <1>l, <1>23
     DEF CountMapping, Goto, table, TypeOK, TableTypeOK, ThreadTypeOK,
         LocalsTypeOK
<1>24. CASE UvmcopyFails(p)
  BY <1>t, <1>r, <1>l, <1>24
     DEF UvmcopyFails, Goto, table, TypeOK, TableTypeOK, ThreadTypeOK,
         LocalsTypeOK
<1>25. CASE ForkDone(p)
  BY <1>t, <1>r, <1>l, <1>25
     DEF ForkDone, Locals, LocalsAt, Forking, TypeOK, TableTypeOK,
         ThreadTypeOK, LocalsTypeOK
<1>26. CASE Grow(p)
  BY <1>t, <1>r, <1>l, <1>26
     DEF Grow, Locals, Goto, table, TypeOK, TableTypeOK, ThreadTypeOK,
         LocalsTypeOK
<1>27. CASE GrowAlloc(p)
  BY <1>t, <1>r, <1>l, <1>27
     DEF GrowAlloc, Goto, table, TypeOK, TableTypeOK, ThreadTypeOK,
         LocalsTypeOK
<1>28. CASE GrowMap(p)
  BY <1>t, <1>r, <1>l, <1>28
     DEF GrowMap, Goto, table, TypeOK, TableTypeOK, ThreadTypeOK, LocalsTypeOK
<1>29. CASE GrowMapFails(p)
  BY <1>t, <1>r, <1>l, <1>29
     DEF GrowMapFails, Goto, table, TypeOK, TableTypeOK, ThreadTypeOK,
         LocalsTypeOK
<1>30. CASE GrowDone(p)
  BY <1>t, <1>r, <1>l, <1>30
     DEF GrowDone, Return, Goto, Locals, TypeOK, TableTypeOK, ThreadTypeOK,
         LocalsTypeOK
<1>31. CASE Shrink(p)
  BY <1>t, <1>r, <1>l, <1>31
     DEF Shrink, Locals, Goto, table, TypeOK, TableTypeOK, ThreadTypeOK,
         LocalsTypeOK
<1>32. CASE Exit(p)
  BY <1>t, <1>r, <1>l, <1>32
     DEF Exit, Goto, locals, TypeOK, TableTypeOK, ThreadTypeOK, LocalsTypeOK
<1>33. CASE Wait(p)
  BY <1>t, <1>r, <1>l, <1>33
     DEF Wait, Locals, Goto, table, TypeOK, TableTypeOK, ThreadTypeOK,
         LocalsTypeOK
<1>34. CASE WaitReap(p)
  BY <1>t, <1>r, <1>l, <1>34
     DEF WaitReap, Goto, table, TypeOK, TableTypeOK, ThreadTypeOK,
         LocalsTypeOK
<1> QED
  BY <1>1, <1>2, <1>3, <1>4, <1>5, <1>6, <1>7, <1>8, <1>9, <1>10, <1>11,
      <1>12, <1>13, <1>14, <1>15, <1>16, <1>17, <1>18, <1>19, <1>20, <1>21, <1>22,
      <1>23, <1>24, <1>25, <1>26, <1>27, <1>28, <1>29, <1>30, <1>31, <1>32, <1>33,
      <1>34
     DEF UserStep, KernelStep

(* A step keeps a process's mappings those of the memory it has. *)
LEMMA MappingStep ==
    ASSUME IInv, NEW p \in Proc, UserStep(p) \/ KernelStep(p)
    PROVE  MappingInv'
<1>t. TypeOK /\ LocalsInv /\ TargetInv /\ TodoInv /\ TypeOK' /\ TargetInv'
  BY TargetStep, KallocTypeStep, PteTypeStep, TableTypeStep, ThreadTypeStep
     DEF IInv, TypeOK
<1>y. tgt[p] \in Proc /\ tgt'[p] \in Proc
  BY <1>t DEF TypeOK, ThreadTypeOK, LocalsTypeOK
<1>1. ASSUME NEW q \in Proc, NEW v \in VA
      PROVE  Mapped(<<q, Mem(v)>>)' <=> HasPage(q, v)'
  <2>1. CASE q = p
    BY <2>1, OwnMemoryStep
  <2>2. CASE q # p /\ q = tgt[p]
    BY <2>2, TargetMemoryStep
  <2>3. CASE q # p /\ q # tgt[p] /\ q = tgt'[p]
    BY <2>3, StepKinds, NewTargetMemoryStep
  <2>4. CASE q # p /\ q # tgt[p] /\ q # tgt'[p]
    BY <2>4, BystanderMemoryStep
  <2> QED
    BY <2>1, <2>2, <2>3, <2>4
<1>2. ASSUME NEW q \in Proc
      PROVE  (Mapped(<<q, Hand>>) <=>
                 pc[q] \in {"copy", "growmap"} \/ <<q, Hand>> \in todo[q])'
  BY OwnHand, OtherHand
<1>f. FreeprocDone(p) =>
          tgt[p] # p /\ \A k \in Key : slot'[<<tgt[p], k>>] = slot[<<tgt[p], k>>]
                                         /\ ~Mapped(<<tgt[p], k>>)
  <2>1. ASSUME FreeprocDone(p), NEW k \in Key
        PROVE  ~Mapped(<<tgt[p], k>>) /\ UNCHANGED slot /\ tgt[p] # p
    <3>1. ret[p] = "freeproc" /\ todo[p] = {} /\ UNCHANGED slot
      BY <2>1 DEF FreeprocDone, pte
    <3> QED
      BY <1>t, <3>1 DEF IInv, MappingInv, LocalsInv, LocalsAt
  <2> QED
    BY <2>1, KeyFacts
<1>3. ASSUME NEW q \in Proc, NEW k \in Key, state'[q] = "UNUSED"
      PROVE  ~Mapped(<<q, k>>)'
  <2>1. q # p
    BY <1>3, StepKinds
  <2>2. CASE q = tgt[p]
    <3>1. state[q] \in {"USED", "ZOMBIE"}
      BY <1>t, <2>1, <2>2, TargetFacts
    <3>2. FreeprocDone(p)
      BY <1>3, <1>t, <2>1, <2>2, <3>1, TableFrame
         DEF ForkDone, TypeOK, TableTypeOK, ThreadTypeOK, LocalsTypeOK
    <3> QED
      BY <1>f, <2>2, <3>2 DEF Mapped
  <2>3. CASE q # tgt[p]
    <3>1. state[q] = "UNUSED"
      BY <1>3, <1>t, <2>1, <2>3, TableFrame
    <3>2. slot'[<<q, k>>] = slot[<<q, k>>]
      <4>1. <<q, k>> \in Slot
        BY SlotFacts
      <4>2. ASSUME Fork(p) PROVE tgt'[p] # q
        BY <1>t, <1>3, <4>2
           DEF Fork, Locals, TypeOK, TableTypeOK, ThreadTypeOK, LocalsTypeOK
      <4>3. Fork(p) => <<q, k>> # <<tgt'[p], Trapframe>>
        BY <1>y, <4>2, KeyFacts, SlotFacts
      <4>4. ASSUME NEW c \in Proc, NEW g \in Page, Fork(p),
                   slot' = [slot EXCEPT ![<<c, Trapframe>>] = g],
                   Locals(p, "none", c, 0, 0, Zero)
            PROVE  slot'[<<q, k>>] = slot[<<q, k>>]
        <5>1. tgt'[p] = c
          BY <1>t, <4>4 DEF Locals, TypeOK, ThreadTypeOK, LocalsTypeOK
        <5> QED
          BY <1>t, <4>1, <4>3, <4>4, <5>1 DEF TypeOK, PteTypeOK
      <4>5. Fork(p) => slot'[<<q, k>>] = slot[<<q, k>>]
        BY <4>4 DEF Fork
      <4> QED
        BY <2>1, <2>3, <4>5, SlotFrame
    <3> QED
      BY <3>1, <3>2 DEF Mapped, IInv, MappingInv
  <2> QED
    BY <2>2, <2>3
<1>4. ASSUME NEW q \in Proc, pc'[q] = "root", NEW k \in Key \ {Trapframe}
      PROVE  ~Mapped(<<tgt[q], k>>)'
  <2>1. CASE q = p
    <3>1. Fork(p)
      BY <1>4, <2>1, StepKinds
    <3>2. PICK c \in Proc, g \in Page :
             /\ state[c] = "UNUSED" /\ tgt'[p] = c
             /\ slot' = [slot EXCEPT ![<<c, Trapframe>>] = g]
      BY <1>t, <3>1 DEF Fork, Locals, TypeOK, ThreadTypeOK, LocalsTypeOK
    <3>3. ~Mapped(<<c, k>>) /\ <<c, k>> \in Slot /\ <<c, k>> # <<c, Trapframe>>
      BY <3>2, SlotFacts, KeyFacts DEF IInv, MappingInv
    <3>4. slot'[<<c, k>>] = slot[<<c, k>>]
      BY <1>t, <3>2, <3>3 DEF TypeOK, PteTypeOK
    <3> QED
      BY <2>1, <3>2, <3>3, <3>4 DEF Mapped
  <2>2. CASE q # p
    <3>1. pc[q] = "root" /\ tgt'[q] = tgt[q]
      BY <1>4, <1>t, <2>2, Frame
         DEF ForkDone, TypeOK, ThreadTypeOK, LocalsTypeOK
    <3>2. tgt[q] # q
      BY <1>t, <3>1 DEF LocalsInv, LocalsAt, Forking
    <3>3. slot'[<<tgt[q], k>>] = slot[<<tgt[q], k>>]
      BY <2>2, <3>2, TargetSlots
    <3>4. ~Mapped(<<tgt[q], k>>)
      BY <3>1 DEF IInv, MappingInv
    <3> QED
      BY <3>1, <3>3, <3>4 DEF Mapped
  <2> QED
    BY <2>1, <2>2
<1>5. ASSUME NEW q \in Proc, NEW k \in Key, ret'[q] = "freeproc"
      PROVE  (Mapped(<<tgt[q], k>>) => <<tgt[q], k>> \in todo[q])'
  <2>1. CASE q = p
    BY <1>5, <2>1, FreeprocStep
  <2>2. CASE q # p
    <3>1. ret[q] = "freeproc" /\ tgt'[q] = tgt[q] /\ todo'[q] = todo[q]
      BY <1>5, <1>t, <2>2, Frame
    <3>2. tgt[q] # q
      BY <1>t, <3>1 DEF LocalsInv, LocalsAt
    <3>3. slot'[<<tgt[q], k>>] = slot[<<tgt[q], k>>]
      BY <2>2, <3>2, TargetSlots
    <3> QED
      BY <3>1, <3>3 DEF Mapped, IInv, MappingInv
  <2> QED
    BY <2>1, <2>2
<1>6. ASSUME NEW q \in Proc, state'[q] # "RUNNABLE", state'[q] # "ZOMBIE"
      PROVE  sz'[q] = 0
  <2>1. q # p
    BY <1>6, StepKinds
  <2>2. CASE FreeprocDone(p) /\ q = tgt[p]
    BY <1>t, <2>2 DEF FreeprocDone, TypeOK, TableTypeOK
  <2>3. ~(ForkDone(p) /\ q = tgt[p])
    BY <1>6, <1>t DEF ForkDone, TypeOK, TableTypeOK
  <2>4. CASE ~(FreeprocDone(p) /\ q = tgt[p])
    <3>1. sz'[q] = sz[q] /\ (state'[q] = state[q] \/ state[q] = "UNUSED")
      BY <1>t, <2>1, <2>3, <2>4, TableFrame
    <3> QED
      BY <1>6, <3>1 DEF IInv, MappingInv
  <2> QED
    BY <2>2, <2>4
<1> QED
  BY <1>1, <1>2, <1>3, <1>4, <1>5, <1>6 DEF MappingInv

(* Flags stay on mapped user memory, and PTE_W and PTE_C exclude each other. *)
LEMMA FlagSetStep ==
    ASSUME IInv, NEW p \in Proc, UserStep(p) \/ KernelStep(p)
    PROVE  /\ \A s \in writable' \cup cow' \cup user' : s[2] \in MemKey /\ Mapped(s)'
           /\ writable' \cap cow' = {}
<1>t. TypeOK /\ LocalsInv /\ TargetInv /\ TodoInv
  BY DEF IInv
<1>r. state[p] = "RUNNABLE"
  BY Running
<1>l. LocalsAt(p) /\ TodoAt(p) /\ tgt[p] \in Proc
  BY <1>t DEF LocalsInv, TodoInv, TypeOK, ThreadTypeOK, LocalsTypeOK
<1>f. /\ \A s \in writable \cup cow \cup user : s[2] \in MemKey /\ Mapped(s)
      /\ writable \cap cow = {}
  BY DEF IInv, FlagInv
<1>s. writable \subseteq Slot /\ cow \subseteq Slot /\ user \subseteq Slot
  BY <1>t DEF TypeOK, PteTypeOK
<1>k. /\ Hand \notin MemKey /\ \A g \in Page : g # NoPage
      /\ <<p, Hand>>[2] = Hand
  BY KeyFacts, SlotFacts, ProcAssumption
<1>a. ASSUME NEW s \in Slot, NEW g \in Page, slot' = [slot EXCEPT ![s] = g],
             UNCHANGED <<writable, cow, user>>
      PROVE  /\ \A u \in writable' \cup cow' \cup user' : u[2] \in MemKey /\ Mapped(u)'
             /\ writable' \cap cow' = {}
  BY <1>t, <1>f, <1>s, <1>k, <1>a DEF Mapped, TypeOK, PteTypeOK
<1>h. pc[p] \in Resolving => Here(p) \in cow
  BY DEF IInv, FlagInv
<1>1. CASE UserStore(p)
  BY <1>f, <1>1 DEF UserStore, pte, Mapped
<1>2. CASE CowFault(p)
  BY <1>f, <1>2 DEF CowFault, pte, Mapped
<1>3. CASE BadAccess(p)
  BY <1>f, <1>3 DEF BadAccess, pte, Mapped
<1>4. CASE ReadRef(p)
  BY <1>f, <1>4 DEF ReadRef, pte, Mapped
<1>5. CASE ReusePage(p)
  <2>1. Here(p) \in cow
    BY <1>h, <1>5 DEF ReusePage, Resolving
  <2> QED
    BY <1>f, <1>s, <1>5, <2>1 DEF ReusePage, MakeWritable, Mapped
<1>6. CASE AllocCopy(p)
  BY <1>t, <1>a, <1>6, HereFacts DEF AllocCopy
<1>7. CASE AllocCopyFails(p)
  BY <1>f, <1>7 DEF AllocCopyFails, pte, Mapped
<1>8. CASE CopyPage(p)
  <2>1. Here(p) \in cow
    BY <1>h, <1>8 DEF CopyPage, Resolving
  <2>2. Here(p) \in Slot /\ <<p, Hand>> \in Slot /\ Mapped(<<p, Hand>>)
        /\ Mapped(Here(p)) /\ Here(p)[2] \in MemKey
    BY <1>t, <1>f, <1>s, <1>8, <2>1, HereFacts
       DEF CopyPage, IInv, MappingInv
  <2>3. \A u \in Slot : Mapped(u)' <=> Mapped(u)
    BY <1>t, <1>8, <2>2 DEF CopyPage, Mapped, TypeOK, PteTypeOK
  <2> QED
    BY <1>f, <1>s, <1>8, <2>1, <2>2, <2>3 DEF CopyPage, MakeWritable
<1>9. CASE Copyout(p)
  BY <1>f, <1>9 DEF Copyout, pte, Mapped
<1>10. CASE CopyoutPage(p)
  BY <1>f, <1>10 DEF CopyoutPage, pte, Mapped
<1>11. CASE Deliver(p)
  BY <1>f, <1>11 DEF Deliver, pte, Mapped
<1>12. CASE CopyoutDone(p)
  BY <1>f, <1>12 DEF CopyoutDone, pte, Mapped
<1>13. CASE DropReference(p)
  <2>1. \A s \in Slot : ClearSlot(p, s) =>
           /\ \A u \in writable' \cup cow' \cup user' : u[2] \in MemKey /\ Mapped(u)'
           /\ writable' \cap cow' = {}
    BY <1>t, <1>f, <1>s DEF ClearSlot, Mapped, TypeOK, PteTypeOK
  <2>2. CASE UNCHANGED pte
    BY <1>f, <2>2 DEF pte, Mapped
  <2> QED
    BY <1>13, <2>1, <2>2 DEF DropReference
<1>14. CASE PushPage(p)
  <2>1. \A s \in Slot : ClearSlot(p, s) =>
           /\ \A u \in writable' \cup cow' \cup user' : u[2] \in MemKey /\ Mapped(u)'
           /\ writable' \cap cow' = {}
    BY <1>t, <1>f, <1>s DEF ClearSlot, Mapped, TypeOK, PteTypeOK
  <2>2. at[p] \in Slot /\ ClearSlot(p, at[p])
    BY <1>t, <1>l, <1>14 DEF PushPage, TodoAt, TypeOK, ThreadTypeOK
  <2> QED
    BY <2>1, <2>2
<1>15. CASE CopyDone(p)
  BY <1>f, <1>15 DEF CopyDone, pte, Mapped
<1>16. CASE ResizeDone(p)
  BY <1>f, <1>16 DEF ResizeDone, pte, Mapped
<1>17. CASE UncopyDone(p)
  BY <1>f, <1>17 DEF UncopyDone, pte, Mapped
<1>18. CASE FreeprocDone(p)
  BY <1>f, <1>18 DEF FreeprocDone, pte, Mapped
<1>19. CASE Fork(p)
  <2>1. PICK c \in Proc, g \in Page : slot' = [slot EXCEPT ![<<c, Trapframe>>] = g]
    BY <1>19 DEF Fork
  <2>2. <<c, Trapframe>> \in Slot /\ UNCHANGED <<writable, cow, user>>
    BY <1>19, KeyFacts, SlotFacts DEF Fork
  <2> QED
    BY <1>a, <2>1, <2>2
<1>20. CASE AllocRoot(p)
  <2>1. CASE UNCHANGED slot
    BY <1>f, <1>20, <2>1 DEF AllocRoot, Mapped
  <2>2. CASE \E g \in Page : slot' = [slot EXCEPT ![<<tgt[p], Root>>] = g]
    BY <1>t, <1>a, <1>20, <2>2, HereFacts DEF AllocRoot
  <2> QED
    BY <1>20, <2>1, <2>2 DEF AllocRoot
<1>21. CASE WalkAlloc(p)
  BY <1>t, <1>a, <1>21, StepBounds, HereFacts DEF WalkAlloc
<1>22. CASE ShareMapping(p)
  <2>1. va[p] \in VA /\ Here(p) \in Slot /\ Child(p) \in Slot /\ ret[p] = "none"
        /\ va[p] < sz[p]
    BY <1>t, <1>l, <1>22, StepBounds, HereFacts
       DEF ShareMapping, LocalsAt, Forking
  <2>2. Mapped(Here(p)) /\ Here(p)[2] \in MemKey /\ Child(p)[2] \in MemKey
    BY <1>l, <1>r, <2>1, KeyFacts, SlotFacts, MappedMemory
       DEF VisibleSz, Here, Child
  <2>3. \A u \in Slot : Mapped(u)' <=> Mapped(u) \/ u = Child(p)
    BY <1>t, <1>22, <2>1, <2>2 DEF ShareMapping, Mapped, TypeOK, PteTypeOK
  <2> QED
    BY <1>f, <1>s, <1>22, <2>1, <2>2, <2>3 DEF ShareMapping
<1>23. CASE CountMapping(p)
  BY <1>f, <1>23 DEF CountMapping, pte, Mapped
<1>24. CASE UvmcopyFails(p)
  BY <1>f, <1>24 DEF UvmcopyFails, pte, Mapped
<1>25. CASE ForkDone(p)
  BY <1>f, <1>25 DEF ForkDone, pte, Mapped
<1>26. CASE Grow(p)
  BY <1>f, <1>26 DEF Grow, pte, Mapped
<1>27. CASE GrowAlloc(p)
  <2>1. CASE UNCHANGED slot
    BY <1>f, <1>27, <2>1 DEF GrowAlloc, Mapped
  <2>2. CASE \E g \in Page : slot' = [slot EXCEPT ![<<p, Hand>>] = g]
    BY <1>t, <1>a, <1>27, <2>2, HereFacts DEF GrowAlloc
  <2> QED
    BY <1>27, <2>1, <2>2 DEF GrowAlloc
<1>28. CASE GrowMap(p)
  <2>1. va[p] \in VA /\ Here(p) \in Slot /\ <<p, Hand>> \in Slot
        /\ pc[p] = "growmap" /\ sz[p] <= va[p] /\ ret[p] = "none" /\ todo[p] = {}
    BY <1>t, <1>l, <1>28, StepBounds, HereFacts
       DEF GrowMap, LocalsAt, TodoAt, Growing, Freeing
  <2>2. Mapped(<<p, Hand>>) /\ Here(p)[2] \in MemKey /\ Here(p) # <<p, Hand>>
    BY <2>1, KeyFacts, SlotFacts DEF Here, IInv, MappingInv
  <2>3. ~Mapped(Here(p))
    <3>1. va[p] \in Int /\ sz[p] \in Int
      BY <1>t, AddressAssumption DEF TypeOK, TableTypeOK, ThreadTypeOK, LocalsTypeOK
    <3>2. ~RunningHas(p, va[p])
      BY <2>1, <3>1 DEF RunningHas, VisibleSz
    <3> QED
      BY <1>r, <2>1, <3>2 DEF Here, IInv, MappingInv, HasPage
  <2>4. \A u \in Slot : Mapped(u)' <=>
           (Mapped(u) \/ u = Here(p)) /\ u # <<p, Hand>>
    BY <1>t, <1>28, <2>1, <2>2 DEF GrowMap, Mapped, TypeOK, PteTypeOK
  <2> QED
    BY <1>f, <1>s, <1>k, <1>28, <2>1, <2>2, <2>3, <2>4 DEF GrowMap
<1>29. CASE GrowMapFails(p)
  BY <1>f, <1>29 DEF GrowMapFails, pte, Mapped
<1>30. CASE GrowDone(p)
  BY <1>f, <1>30 DEF GrowDone, pte, Mapped
<1>31. CASE Shrink(p)
  BY <1>f, <1>31 DEF Shrink, pte, Mapped
<1>32. CASE Exit(p)
  BY <1>f, <1>32 DEF Exit, pte, Mapped
<1>33. CASE Wait(p)
  BY <1>f, <1>33 DEF Wait, pte, Mapped
<1>34. CASE WaitReap(p)
  BY <1>f, <1>34 DEF WaitReap, pte, Mapped
<1> QED
  BY <1>1, <1>2, <1>3, <1>4, <1>5, <1>6, <1>7, <1>8, <1>9, <1>10, <1>11,
      <1>12, <1>13, <1>14, <1>15, <1>16, <1>17, <1>18, <1>19, <1>20, <1>21, <1>22,
      <1>23, <1>24, <1>25, <1>26, <1>27, <1>28, <1>29, <1>30, <1>31, <1>32, <1>33,
      <1>34
     DEF UserStep, KernelStep

(* The PTE a fault is about is copy-on-write until it is made writable. *)
LEMMA OwnFlagStep ==
    ASSUME IInv, NEW p \in Proc, UserStep(p) \/ KernelStep(p)
    PROVE  /\ (pc[p] \in Resolving => Here(p) \in cow)'
           /\ (pc[p] = "deliver" => Here(p) \in writable)'
           /\ (pc[p] \in Freeing /\ ret[p] \in {"copyout", "wait"} =>
                  Here(p) \in writable)'
<1>t. TypeOK /\ LocalsInv /\ TodoInv
  BY DEF IInv
<1>l. LocalsAt(p) /\ TodoAt(p) /\ tgt[p] \in Proc
  BY <1>t DEF LocalsInv, TodoInv, TypeOK, ThreadTypeOK, LocalsTypeOK
<1>f. /\ pc[p] \in Resolving => Here(p) \in cow
      /\ pc[p] = "deliver" => Here(p) \in writable
      /\ pc[p] \in Freeing /\ ret[p] \in {"copyout", "wait"} => Here(p) \in writable
      /\ writable \cap cow = {}
  BY DEF IInv, FlagInv
<1>1. CASE UserStore(p)
  BY <1>t, <1>l, <1>f, <1>1
     DEF UserStore, pte, table, locals, Here, LocalsAt, Resolving, Forking,
         Growing, Freeing, TypeOK, ThreadTypeOK, LocalsTypeOK
<1>2. CASE CowFault(p)
  <2>1. PICK v \in VA : <<p, Mem(v)>> \in cow /\ Locals(p, "fault", p, v, 0, Zero)
    BY <1>2 DEF CowFault
  <2>2. /\ pc'[p] = "ref" /\ va'[p] = v /\ UNCHANGED cow /\ ret'[p] = "fault"
    BY <1>t, <1>2, <2>1
       DEF CowFault, Goto, Locals, pte, TypeOK, ThreadTypeOK, LocalsTypeOK
  <2> QED
    BY <2>1, <2>2 DEF Here, Resolving, Freeing
<1>3. CASE BadAccess(p)
  BY <1>t, <1>l, <1>f, <1>3
     DEF BadAccess, Goto, pte, table, locals, Here, LocalsAt, Resolving,
         Forking, Growing, Freeing, TypeOK, ThreadTypeOK, LocalsTypeOK
<1>4. CASE ReadRef(p)
  BY <1>t, <1>l, <1>f, <1>4
     DEF ReadRef, Goto, Here, pte, table, locals, LocalsAt, Resolving,
         Forking, Growing, Freeing, TypeOK, ThreadTypeOK, LocalsTypeOK
<1>5. CASE ReusePage(p)
  BY <1>t, <1>l, <1>f, <1>5
     DEF ReusePage, MakeWritable, Return, Goto, locals, table, Here, Locals,
         LocalsAt, Resolving, Forking, Growing, Freeing, TypeOK, ThreadTypeOK,
         LocalsTypeOK
<1>6. CASE AllocCopy(p)
  BY <1>t, <1>l, <1>f, <1>6
     DEF AllocCopy, Goto, table, locals, Here, LocalsAt, Resolving, Forking,
         Growing, Freeing, TypeOK, ThreadTypeOK, LocalsTypeOK
<1>7. CASE AllocCopyFails(p)
  BY <1>t, <1>l, <1>f, <1>7
     DEF AllocCopyFails, Goto, Locals, Fail, pte, table, Return, Here,
         LocalsAt, Resolving, Forking, Growing, Freeing, TypeOK, ThreadTypeOK,
         LocalsTypeOK
<1>8. CASE CopyPage(p)
  BY <1>t, <1>l, <1>f, <1>8
     DEF CopyPage, Here, MakeWritable, Goto, table, locals, LocalsAt,
         Resolving, Forking, Growing, Freeing, TypeOK, ThreadTypeOK, LocalsTypeOK
<1>9. CASE Copyout(p)
  BY <1>t, <1>l, <1>f, <1>9
     DEF Copyout, Locals, Goto, pte, table, Here, LocalsAt, Resolving,
         Forking, Growing, Freeing, TypeOK, ThreadTypeOK, LocalsTypeOK
<1>10. CASE CopyoutPage(p)
  BY <1>t, <1>l, <1>f, <1>10
     DEF CopyoutPage, Here, Goto, locals, Fail, pte, table, Return, Locals,
         LocalsAt, Resolving, Forking, Growing, Freeing, TypeOK, ThreadTypeOK,
         LocalsTypeOK
<1>11. CASE Deliver(p)
  BY <1>t, <1>l, <1>f, <1>11
     DEF Deliver, Here, Goto, pte, table, LocalsAt, Resolving, Forking,
         Growing, Freeing, TypeOK, ThreadTypeOK, LocalsTypeOK
<1>12. CASE CopyoutDone(p)
  BY <1>t, <1>l, <1>f, <1>12
     DEF CopyoutDone, Return, pte, table, Goto, Locals, Here, LocalsAt,
         Resolving, Forking, Growing, Freeing, TypeOK, ThreadTypeOK, LocalsTypeOK
<1>13. CASE DropReference(p)
  <2>0. PICK s \in todo[p] :
           /\ pc[p] = "free" /\ pc'[p] \in {"free", "push"}
           /\ ClearSlot(p, s) \/ UNCHANGED pte
           /\ UNCHANGED locals
    BY <1>t, <1>13 DEF DropReference, NextToFree, Goto, TypeOK, ThreadTypeOK
  <2>1. s # Here(p) \/ ret[p] \notin {"copyout", "wait"}
    BY <1>l, <2>0 DEF TodoAt, Here, Mem, Hand
  <2>2. Here(p)' = Here(p)
    BY <2>0 DEF Here, locals
  <2> QED
    BY <1>f, <2>0, <2>1, <2>2 DEF ClearSlot, Resolving, Freeing, pte, locals
<1>14. CASE PushPage(p)
  <2> DEFINE s == at[p]
  <2>0. /\ pc[p] = "push" /\ pc'[p] = "free" /\ s \in todo[p]
        /\ ClearSlot(p, s) /\ UNCHANGED locals
    BY <1>t, <1>l, <1>14 DEF PushPage, Goto, TodoAt, TypeOK, ThreadTypeOK
  <2>1. s # Here(p) \/ ret[p] \notin {"copyout", "wait"}
    BY <1>l, <2>0 DEF TodoAt, Here, Mem, Hand
  <2>2. Here(p)' = Here(p)
    BY <2>0 DEF Here, locals
  <2> QED
    BY <1>f, <2>0, <2>1, <2>2 DEF ClearSlot, Resolving, Freeing, locals
<1>15. CASE CopyDone(p)
  BY <1>t, <1>l, <1>f, <1>15
     DEF CopyDone, Return, Goto, locals, pte, table, Locals, Here, LocalsAt,
         Resolving, Forking, Growing, Freeing, TypeOK, ThreadTypeOK, LocalsTypeOK
<1>16. CASE ResizeDone(p)
  BY <1>t, <1>l, <1>f, <1>16
     DEF ResizeDone, Return, pte, Goto, Locals, Here, LocalsAt, Resolving,
         Forking, Growing, Freeing, TypeOK, ThreadTypeOK, LocalsTypeOK
<1>17. CASE UncopyDone(p)
  BY <1>t, <1>l, <1>f, <1>17
     DEF UncopyDone, pte, table, Here, LocalsAt, Resolving, Forking, Growing,
         Freeing, TypeOK, ThreadTypeOK, LocalsTypeOK
<1>18. CASE FreeprocDone(p)
  BY <1>t, <1>l, <1>f, <1>18
     DEF FreeprocDone, Return, pte, Goto, Locals, Here, LocalsAt, Resolving,
         Forking, Growing, Freeing, TypeOK, ThreadTypeOK, LocalsTypeOK
<1>19. CASE Fork(p)
  BY <1>t, <1>l, <1>f, <1>19
     DEF Fork, Locals, Goto, Here, LocalsAt, Resolving, Forking, Growing,
         Freeing, TypeOK, ThreadTypeOK, LocalsTypeOK
<1>20. CASE AllocRoot(p)
  BY <1>t, <1>l, <1>f, <1>20
     DEF AllocRoot, Goto, table, Here, LocalsAt, Resolving, Forking, Growing,
         Freeing, TypeOK, ThreadTypeOK, LocalsTypeOK
<1>21. CASE WalkAlloc(p)
  BY <1>t, <1>l, <1>f, <1>21
     DEF WalkAlloc, table, locals, Here, LocalsAt, Resolving, Forking,
         Growing, Freeing, TypeOK, ThreadTypeOK, LocalsTypeOK
<1>22. CASE ShareMapping(p)
  BY <1>t, <1>22
     DEF ShareMapping, Goto, Resolving, Freeing, TypeOK, ThreadTypeOK
<1>23. CASE CountMapping(p)
  BY <1>t, <1>l, <1>f, <1>23
     DEF CountMapping, Here, Goto, pte, table, LocalsAt, Resolving, Forking,
         Growing, Freeing, TypeOK, ThreadTypeOK, LocalsTypeOK
<1>24. CASE UvmcopyFails(p)
  BY <1>t, <1>l, <1>f, <1>24
     DEF UvmcopyFails, Goto, pte, table, Here, LocalsAt, Resolving, Forking,
         Growing, Freeing, TypeOK, ThreadTypeOK, LocalsTypeOK
<1>25. CASE ForkDone(p)
  BY <1>t, <1>l, <1>f, <1>25
     DEF ForkDone, Locals, pte, Here, LocalsAt, Resolving, Forking, Growing,
         Freeing, TypeOK, ThreadTypeOK, LocalsTypeOK
<1>26. CASE Grow(p)
  BY <1>t, <1>l, <1>f, <1>26
     DEF Grow, Locals, Goto, pte, table, Here, LocalsAt, Resolving, Forking,
         Growing, Freeing, TypeOK, ThreadTypeOK, LocalsTypeOK
<1>27. CASE GrowAlloc(p)
  BY <1>t, <1>l, <1>f, <1>27
     DEF GrowAlloc, Goto, table, Here, LocalsAt, Resolving, Forking, Growing,
         Freeing, TypeOK, ThreadTypeOK, LocalsTypeOK
<1>28. CASE GrowMap(p)
  BY <1>t, <1>l, <1>f, <1>28
     DEF GrowMap, Here, Goto, table, LocalsAt, Resolving, Forking, Growing,
         Freeing, TypeOK, ThreadTypeOK, LocalsTypeOK
<1>29. CASE GrowMapFails(p)
  BY <1>t, <1>l, <1>f, <1>29
     DEF GrowMapFails, Goto, pte, table, Here, LocalsAt, Resolving, Forking,
         Growing, Freeing, TypeOK, ThreadTypeOK, LocalsTypeOK
<1>30. CASE GrowDone(p)
  BY <1>t, <1>l, <1>f, <1>30
     DEF GrowDone, Return, pte, Goto, Locals, Here, LocalsAt, Resolving,
         Forking, Growing, Freeing, TypeOK, ThreadTypeOK, LocalsTypeOK
<1>31. CASE Shrink(p)
  <2>1. pc'[p] = "free" /\ ret'[p] = "shrink"
    BY <1>t, <1>31 DEF Shrink, Goto, Locals, TypeOK, ThreadTypeOK, LocalsTypeOK
  <2> QED
    BY <2>1 DEF Resolving, Freeing
<1>32. CASE Exit(p)
  BY <1>t, <1>l, <1>f, <1>32
     DEF Exit, Goto, pte, locals, Here, LocalsAt, Resolving, Forking, Growing,
         Freeing, TypeOK, ThreadTypeOK, LocalsTypeOK
<1>33. CASE Wait(p)
  <2>1. \/ pc'[p] = "free" /\ ret'[p] = "freeproc"
        \/ pc'[p] = "copyout"
    BY <1>t, <1>33 DEF Wait, Goto, Locals, TypeOK, ThreadTypeOK, LocalsTypeOK
  <2> QED
    BY <2>1 DEF Resolving, Freeing
<1>34. CASE WaitReap(p)
  BY <1>t, <1>l, <1>f, <1>34
     DEF WaitReap, Goto, pte, table, Here, LocalsAt, Resolving, Forking,
         Growing, Freeing, TypeOK, ThreadTypeOK, LocalsTypeOK
<1> QED
  BY <1>1, <1>2, <1>3, <1>4, <1>5, <1>6, <1>7, <1>8, <1>9, <1>10, <1>11,
      <1>12, <1>13, <1>14, <1>15, <1>16, <1>17, <1>18, <1>19, <1>20, <1>21, <1>22,
      <1>23, <1>24, <1>25, <1>26, <1>27, <1>28, <1>29, <1>30, <1>31, <1>32, <1>33,
      <1>34
     DEF UserStep, KernelStep

(* A step keeps the flags of PTEs consistent with the resolutions going on. *)
LEMMA FlagStep ==
    ASSUME IInv, NEW p \in Proc, UserStep(p) \/ KernelStep(p)
    PROVE  FlagInv'
<1>t. TypeOK /\ LocalsInv /\ TargetInv
  BY DEF IInv
<1>1. ASSUME NEW q \in Proc, q # p,
             pc'[q] \in Resolving \cup {"deliver"} \cup Freeing
      PROVE  /\ pc'[q] = pc[q] /\ ret'[q] = ret[q] /\ Here(q)' = Here(q)
             /\ Here(q) \in cow' <=> Here(q) \in cow
             /\ Here(q) \in writable' <=> Here(q) \in writable
  <2>1. /\ ret'[q] = ret[q] /\ va'[q] = va[q]
        /\ pc'[q] = pc[q] \/ (ForkDone(p) /\ q = tgt[p])
    BY <1>t, <1>1, Frame
  <2>2. q # tgt[p] /\ pc'[q] = pc[q]
    <3>1. tgt[p] = q => pc[q] = "off"
      BY <1>t, <1>1, TargetFacts
    <3>2. ForkDone(p) /\ q = tgt[p] => pc'[q] = "user"
      BY <1>t DEF ForkDone, TypeOK, ThreadTypeOK
    <3> QED
      BY <1>1, <2>1, <3>1, <3>2 DEF Resolving, Freeing
  <2>3. va[q] < MaxVA \/ pc[q] \in Freeing
    BY <1>1, <1>t, <2>2, StepBounds DEF Resolving
  <2>4. Here(q)' = Here(q)
    BY <2>1 DEF Here
  <2>5. CASE va[q] < MaxVA
    <3>1. va[q] \in VA
      BY <1>t, <2>5, HereFacts
    <3> QED
      BY <1>1, <2>1, <2>2, <2>4, <3>1, SlotFrame, KeyFacts DEF Here
  <2>6. CASE ~(va[q] < MaxVA)
    <3>1. Here(q) \notin Slot
      <4>1. va[q] \notin VA
        BY <2>6, AddressAssumption DEF VA
      <4> QED
        BY <4>1 DEF Here, Slot, Key, MemKey, TableKey, Mem, Table, Trapframe, Root, Hand
    <3>2. writable \subseteq Slot /\ cow \subseteq Slot /\ writable' \subseteq Slot
          /\ cow' \subseteq Slot
      BY <1>t, PteTypeStep DEF TypeOK, PteTypeOK
    <3> QED
      BY <2>1, <2>2, <2>4, <3>1, <3>2
  <2> QED
    BY <2>5, <2>6
<1>2. ASSUME NEW q \in Proc
      PROVE  /\ (pc[q] \in Resolving => Here(q) \in cow)'
             /\ (pc[q] = "deliver" => Here(q) \in writable)'
             /\ (pc[q] \in Freeing /\ ret[q] \in {"copyout", "wait"} =>
                    Here(q) \in writable)'
  <2>1. CASE q = p
    BY <2>1, OwnFlagStep
  <2>2. CASE q # p
    BY <1>1, <2>2 DEF IInv, FlagInv
  <2> QED
    BY <2>1, <2>2
<1> QED
  BY <1>2, FlagSetStep DEF FlagInv

(* Page g, from the free list, is put into the empty slot s. *)
Fresh(p, g, s) ==
    /\ g \in freelist
    /\ freelist' = freelist \ {g}
    /\ refarray' = [refarray EXCEPT ![g] = 1]
    /\ s \in Slot /\ ~Mapped(s) /\ s[2] \notin MemKey
    /\ slot' = [slot EXCEPT ![s] = g]
    /\ UNCHANGED <<at, cow>>

(* What a step does to pages and their references. *)
LEMMA Effects ==
    ASSUME IInv, NEW p \in Proc, UserStep(p) \/ KernelStep(p)
    PROVE  \/ UNCHANGED <<freelist, refarray, slot, at, cow>>
           \/ ReusePage(p) /\ UNCHANGED <<freelist, refarray, slot, at>>
           \/ \E g \in Page, s \in Slot : Fresh(p, g, s)
           \/ CopyPage(p) \/ GrowMap(p) \/ ShareMapping(p) \/ CountMapping(p)
           \/ DropReference(p) \/ PushPage(p)
<1>t. TypeOK /\ LocalsInv
  BY DEF IInv
<1>l. LocalsAt(p) /\ tgt[p] \in Proc
  BY <1>t DEF LocalsInv, TypeOK, ThreadTypeOK, LocalsTypeOK
<1>k. /\ Hand \notin MemKey /\ Trapframe \notin MemKey /\ Root \notin MemKey
      /\ <<p, Hand>>[2] = Hand /\ <<tgt[p], Root>>[2] = Root
      /\ \A c \in Proc : <<c, Trapframe>> \in Slot /\ <<c, Trapframe>>[2] = Trapframe
      /\ <<p, Hand>> \in Slot /\ <<tgt[p], Root>> \in Slot
  BY <1>l, KeyFacts, SlotFacts
<1>a. ASSUME NEW g \in Page, NEW x, NEW s \in Slot, Kalloc(g, x),
             ~Mapped(s), s[2] \notin MemKey,
             slot' = [slot EXCEPT ![s] = g], UNCHANGED <<at, cow>>
      PROVE  \E h \in Page, u \in Slot : Fresh(p, h, u)
  <2>1. g \in freelist
    BY <1>t, <1>a, CandidatesAssumption DEF Kalloc, TypeOK, KallocTypeOK
  <2> QED
    BY <1>a, <2>1 DEF Fresh, Kalloc
<1>m. todo[p] = {} => (Mapped(<<p, Hand>>) <=> pc[p] \in {"copy", "growmap"})
  BY DEF IInv, MappingInv
<1>e. pc[p] \notin Freeing => todo[p] = {}
  BY DEF IInv, TodoInv, TodoAt
<1>1. CASE UserStore(p)
  BY <1>1
     DEF UserStore, StorePage, pte
<1>2. CASE CowFault(p)
  BY <1>2
     DEF CowFault, kmem, pte
<1>3. CASE BadAccess(p)
  BY <1>3
     DEF BadAccess, kmem, pte
<1>4. CASE ReadRef(p)
  BY <1>4
     DEF ReadRef, kmem, pte
<1>5. CASE ReusePage(p)
  BY <1>5 DEF ReusePage, kmem
<1>6. CASE AllocCopy(p)
  BY <1>k, <1>a, <1>m, <1>e, <1>6 DEF AllocCopy, Freeing
<1>7. CASE AllocCopyFails(p)
  BY <1>7
     DEF AllocCopyFails, KallocFails, kmem, pte
<1>8. CASE CopyPage(p)
  BY <1>8
<1>9. CASE Copyout(p)
  BY <1>9
     DEF Copyout, kmem, pte
<1>10. CASE CopyoutPage(p)
  BY <1>10
     DEF CopyoutPage, kmem, pte
<1>11. CASE Deliver(p)
  BY <1>11
     DEF Deliver, StorePage, pte
<1>12. CASE CopyoutDone(p)
  BY <1>12
     DEF CopyoutDone, kmem, pte
<1>13. CASE DropReference(p)
  BY <1>13
<1>14. CASE PushPage(p)
  BY <1>14
<1>15. CASE CopyDone(p)
  BY <1>15
     DEF CopyDone, kmem, pte
<1>16. CASE ResizeDone(p)
  BY <1>16
     DEF ResizeDone, kmem, pte
<1>17. CASE UncopyDone(p)
  BY <1>17
     DEF UncopyDone, kmem, pte
<1>18. CASE FreeprocDone(p)
  BY <1>18
     DEF FreeprocDone, kmem, pte
<1>19. CASE Fork(p)
  <2>1. PICK c \in Proc, g \in Page :
           /\ state[c] = "UNUSED" /\ Kalloc(g, Junk)
           /\ slot' = [slot EXCEPT ![<<c, Trapframe>>] = g]
    BY <1>19 DEF Fork
  <2>2. ~Mapped(<<c, Trapframe>>)
    BY <2>1, KeyFacts DEF IInv, MappingInv
  <2>3. UNCHANGED <<at, cow>>
    BY <1>19 DEF Fork
  <2> QED
    BY <1>k, <1>a, <2>1, <2>2, <2>3
<1>20. CASE AllocRoot(p)
  <2>1. CASE \E g \in Page : Kalloc(g, Junk)
                 /\ slot' = [slot EXCEPT ![<<tgt[p], Root>>] = g]
    <3>1. ~Mapped(<<tgt[p], Root>>)
      BY <1>20, KeyFacts DEF AllocRoot, IInv, MappingInv
    <3> QED
      BY <1>k, <1>a, <1>20, <2>1, <3>1 DEF AllocRoot
  <2>2. CASE KallocFails /\ UNCHANGED slot
    BY <1>20, <2>2 DEF AllocRoot, KallocFails, kmem
  <2> QED
    BY <1>20, <2>1, <2>2 DEF AllocRoot
<1>21. CASE WalkAlloc(p)
  <2>1. PICK g \in Page : Kalloc(g, Junk) /\ slot' = [slot EXCEPT ![TableSlot(p)] = g]
    BY <1>21 DEF WalkAlloc
  <2>2. TableSlot(p) \in Slot /\ va[p] \in VA
    BY <1>t, <1>21, StepBounds, HereFacts DEF WalkAlloc
  <2>3. TableSlot(p)[2] \notin MemKey
    BY <1>l, <2>2, KeyFacts, SlotFacts, AddressAssumption DEF TableSlot
  <2>4. ~Mapped(TableSlot(p)) /\ UNCHANGED <<at, cow>>
    BY <1>21 DEF WalkAlloc, Walkable
  <2> QED
    BY <1>a, <2>1, <2>2, <2>3, <2>4
<1>22. CASE ShareMapping(p)
  BY <1>22
<1>23. CASE CountMapping(p)
  BY <1>23
<1>24. CASE UvmcopyFails(p)
  BY <1>24
     DEF UvmcopyFails, KallocFails, kmem, pte
<1>25. CASE ForkDone(p)
  BY <1>25
     DEF ForkDone, kmem, pte
<1>26. CASE Grow(p)
  BY <1>26
     DEF Grow, kmem, pte
<1>27. CASE GrowAlloc(p)
  <2>1. CASE \E g \in Page : Kalloc(g, Zero) /\ slot' = [slot EXCEPT ![<<p, Hand>>] = g]
    BY <1>k, <1>a, <1>m, <1>e, <1>27, <2>1 DEF GrowAlloc, Freeing
  <2>2. CASE KallocFails /\ UNCHANGED slot
    BY <1>27, <2>2 DEF GrowAlloc, KallocFails, kmem
  <2> QED
    BY <1>27, <2>1, <2>2 DEF GrowAlloc
<1>28. CASE GrowMap(p)
  BY <1>28
<1>29. CASE GrowMapFails(p)
  BY <1>29
     DEF GrowMapFails, KallocFails, kmem, pte
<1>30. CASE GrowDone(p)
  BY <1>30
     DEF GrowDone, kmem, pte
<1>31. CASE Shrink(p)
  BY <1>31
     DEF Shrink, kmem, pte
<1>32. CASE Exit(p)
  BY <1>32
     DEF Exit, kmem, pte
<1>33. CASE Wait(p)
  BY <1>33
     DEF Wait, kmem, pte
<1>34. CASE WaitReap(p)
  BY <1>34
     DEF WaitReap, kmem, pte
<1> QED
  BY <1>1, <1>2, <1>3, <1>4, <1>5, <1>6, <1>7, <1>8, <1>9, <1>10, <1>11,
      <1>12, <1>13, <1>14, <1>15, <1>16, <1>17, <1>18, <1>19, <1>20, <1>21, <1>22,
      <1>23, <1>24, <1>25, <1>26, <1>27, <1>28, <1>29, <1>30, <1>31, <1>32, <1>33,
      <1>34
     DEF UserStep, KernelStep

(* The reference a thread has not counted yet, or no longer counts. *)
LEMMA AtFacts ==
    ASSUME IInv, NEW r \in Proc, at[r] # NoSlot
    PROVE  /\ at[r] \in Slot /\ Mapped(at[r]) /\ at[r][1] \in {r, tgt[r]}
           /\ pc[r] \in {"push", "incref"} /\ slot[at[r]] \in Page
<1>t. TypeOK /\ LocalsInv /\ TargetInv /\ TodoInv
  BY DEF IInv
<1>1. TodoAt(r) /\ LocalsAt(r) /\ tgt[r] \in Proc
  BY <1>t DEF TodoInv, LocalsInv, TypeOK, ThreadTypeOK, LocalsTypeOK
<1>2. pc[r] \in {"push", "incref"}
  BY <1>1 DEF TodoAt
<1>3. CASE pc[r] = "push"
  BY <1>t, <1>1, <1>3, TodoOwner DEF TodoAt, Mapped, TypeOK, PteTypeOK
<1>4. CASE pc[r] = "incref"
  <2>1. va[r] \in VA /\ Child(r) \in Slot /\ at[r] = Child(r)
    BY <1>t, <1>1, <1>4, StepBounds, HereFacts DEF TodoAt
  <2>2. at[r][1] = tgt[r]
    BY <1>1, <2>1, SlotFacts, KeyFacts DEF Child
  <2>3. Mapped(Here(r)) /\ slot[Child(r)] = slot[Here(r)]
    BY <1>4 DEF IInv, SharingInv, FlagInv
  <2> QED
    BY <1>t, <1>4, <2>1, <2>2, <2>3 DEF Mapped, TypeOK, PteTypeOK
<1> QED
  BY <1>2, <1>3, <1>4

(* It is none of those that another running thread works with. *)
LEMMA AtApart ==
    ASSUME IInv, NEW p \in Proc, pc[p] # "off", NEW r \in Proc, r # p,
           NEW s \in Slot, s[1] \in {p, tgt[p]}
    PROVE  at[r] # s
<1>t. TypeOK /\ LocalsInv /\ TargetInv
  BY DEF IInv
<1>1. ASSUME at[r] = s PROVE FALSE
  <2>1. s # NoSlot
    BY ProcAssumption
  <2>2. s[1] \in {r, tgt[r]} /\ pc[r] # "off"
    BY <1>1, <2>1, AtFacts
  <2> QED
    BY <1>t, <2>2, TargetFacts
<1> QED
  BY <1>1

(* If kmem.refarray says so, the reference in hand is the only one. *)
LEMMA SoleReference ==
    ASSUME IInv, NEW p \in Proc, pc[p] # "off", at[p] = NoSlot,
           NEW s \in Slot, s[1] \in {p, tgt[p]}, Mapped(s),
           refarray[slot[s]] <= 1
    PROVE  Exclusive(s) /\ refarray[slot[s]] = 1
<1> DEFINE g == slot[s]
<1>t. TypeOK /\ LocalsInv /\ TargetInv
  BY DEF IInv
<1>1. g \in Page \ freelist
  BY <1>t DEF IInv, NoUseAfterFree, Mapped, TypeOK, PteTypeOK
<1>2. s \in Refs(g)
  <2>1. \A r \in Proc : at[r] # s
    BY AtApart, ProcAssumption
  <2> QED
    BY <2>1 DEF Refs
<1>3. IsFiniteSet(Refs(g)) /\ refarray[g] = Cardinality(Refs(g))
  BY <1>1, SlotFinite, FS_Subset DEF IInv, RefCountExact, Refs
<1>4. Refs(g) = {s} /\ refarray[g] = 1
  <2>1. Cardinality(Refs(g) \ {s}) = Cardinality(Refs(g)) - 1
        /\ IsFiniteSet(Refs(g) \ {s})
    BY <1>2, <1>3, FS_RemoveElement
  <2>2. Cardinality(Refs(g) \ {s}) \in Nat /\ Cardinality(Refs(g)) \in Nat
    BY <1>3, <2>1, FS_CardinalityType
  <2>3. Cardinality(Refs(g) \ {s}) = 0
    BY <1>3, <2>1, <2>2
  <2>4. Refs(g) \ {s} = {}
    BY <2>1, <2>3, FS_EmptySet
  <2> QED
    BY <1>2, <1>3, <2>1, <2>2, <2>3, <2>4
<1>5. ASSUME NEW t \in Slot, slot[t] = g, t # s PROVE FALSE
  <2>1. PICK r \in Proc : at[r] = t
    BY <1>4, <1>5 DEF Refs
  <2>2. t # NoSlot /\ r # p
    BY <2>1, ProcAssumption
  <2>3. pc[r] \in {"push", "incref"}
    BY <2>1, <2>2, AtFacts
  <2>4. CASE pc[r] = "push"
    BY <1>5, <2>1, <2>4 DEF IInv, SharingInv, Exclusive
  <2>5. CASE pc[r] = "incref"
    <3>1. t = Child(r) /\ slot[Here(r)] = g /\ Here(r) \in Slot /\ va[r] \in VA
      BY <1>t, <1>5, <2>1, <2>5, StepBounds, HereFacts
         DEF IInv, SharingInv, TodoInv, TodoAt
    <3>2. Here(r)[1] = r
      BY <3>1, SlotFacts, KeyFacts DEF Here
    <3>3. r # p /\ tgt[p] # r
      BY <1>t, <2>2, <2>5, TargetFacts
    <3>4. \A q \in Proc : at[q] # Here(r)
      <4>1. at[r] # Here(r)
        <5>1. tgt[r] # r /\ tgt[r] \in Proc
          BY <1>t, <2>5 DEF LocalsInv, LocalsAt, Forking, TypeOK, ThreadTypeOK,
             LocalsTypeOK
        <5> QED
          BY <2>1, <3>1, <5>1, SlotFacts, KeyFacts DEF Here, Child
      <4>2. pc[r] # "off"
        BY <2>5
      <4> QED
        BY <3>1, <3>2, <4>1, <4>2, AtApart
    <3>5. Here(r) \in Refs(g)
      BY <3>1, <3>4 DEF Refs
    <3> QED
      BY <1>4, <3>2, <3>3, <3>5
  <2> QED
    BY <2>3, <2>4, <2>5
<1> QED
  BY <1>4, <1>5 DEF Exclusive

(* The page in hand is the first one a thread gives back. *)
LEMMA RankFacts == \A k \in Key : Rank(k) <= Rank(Hand) => k = Hand
<1>1. Rank(Hand) = 0
  BY DEF Rank, Hand
<1>2. \A v \in VA : Rank(Mem(v)) = 2 + v
  BY DEF Rank, Mem
<1>3. \A v \in VA : Rank(Table(v)) = 2 + MaxVA + v
  BY DEF Rank, Table
<1>4. Rank(Trapframe) = 1 /\ Rank(Root) = 2 + 2 * MaxVA
  BY DEF Rank, Trapframe, Root
<1>5. MaxVA \in Nat /\ \A v \in VA : v \in Nat
  BY AddressAssumption DEF VA
<1> QED
  BY <1>1, <1>2, <1>3, <1>4, <1>5 DEF Key, MemKey, TableKey

(* The slots of a copy-on-write resolution and of sbrk() are apart. *)
LEMMA Exchange ==
    ASSUME IInv, NEW p \in Proc, CopyPage(p) \/ GrowMap(p)
    PROVE  /\ Here(p) \in Slot /\ <<p, Hand>> \in Slot /\ Here(p) # <<p, Hand>>
           /\ va[p] \in VA /\ Here(p)[1] = p /\ Here(p)[2] \in MemKey
           /\ Mapped(<<p, Hand>>) /\ <<p, Hand>> \notin Sharable
           /\ at[p] = NoSlot /\ UNCHANGED <<freelist, refarray, at>>
           /\ CopyPage(p) => Mapped(Here(p)) /\ pc'[p] = "free"
           /\ GrowMap(p) => ~Mapped(Here(p))
<1>t. TypeOK /\ LocalsInv /\ TargetInv /\ TodoInv
  BY DEF IInv
<1>1. va[p] \in VA /\ Here(p) \in Slot /\ <<p, Hand>> \in Slot
      /\ pc[p] \in {"copy", "growmap"}
  BY <1>t, StepBounds, HereFacts DEF CopyPage, GrowMap
<1>2. /\ Here(p)[1] = p /\ Here(p)[2] \in MemKey /\ Here(p) # <<p, Hand>>
      /\ <<p, Hand>>[2] \notin MemKey
  BY <1>1, KeyFacts, SlotFacts DEF Here
<1>3. <<p, Hand>> \notin Sharable
  <2>1. <<p, Hand>> \notin cow
    BY <1>2 DEF IInv, FlagInv
  <2>2. \A q \in Proc : <<p, Hand>> = <<q, Hand>> => q = p
    OBVIOUS
  <2> QED
    BY <1>1, <2>1, <2>2 DEF Sharable
<1>4. Mapped(<<p, Hand>>)
  BY <1>1 DEF IInv, MappingInv
<1>5. at[p] = NoSlot /\ todo[p] = {}
  BY <1>t, <1>1 DEF TodoInv, TodoAt, Freeing
<1>6. CopyPage(p) => Mapped(Here(p)) /\ pc'[p] = "free"
  BY <1>t DEF CopyPage, Goto, Resolving, IInv, FlagInv, TypeOK, ThreadTypeOK
<1>7. GrowMap(p) => ~Mapped(Here(p))
  <2>1. ASSUME GrowMap(p) PROVE ~RunningHas(p, va[p])
    <3>1. ret[p] = "none" /\ sz[p] <= va[p] /\ va[p] \in Int /\ sz[p] \in Int
      BY <1>t, <2>1, AddressAssumption
         DEF GrowMap, LocalsInv, LocalsAt, Growing, TypeOK, TableTypeOK,
             ThreadTypeOK, LocalsTypeOK
    <3> QED
      BY <1>5, <3>1 DEF RunningHas, VisibleSz
  <2>2. GrowMap(p) => state[p] = "RUNNABLE"
    BY Running DEF KernelStep
  <2> QED
    BY <1>1, <2>1, <2>2 DEF Here, IInv, MappingInv, HasPage
<1>8. UNCHANGED <<freelist, refarray, at>>
  BY DEF CopyPage, GrowMap, StorePage, kmem
<1> QED
  BY <1>1, <1>2, <1>3, <1>4, <1>5, <1>6, <1>7, <1>8

(* One page of uvmcopy(). *)
LEMMA Sharing ==
    ASSUME IInv, NEW p \in Proc, ShareMapping(p)
    PROVE  /\ Here(p) \in Slot /\ Child(p) \in Slot /\ Here(p) # Child(p)
           /\ va[p] \in VA /\ Here(p)[1] = p /\ Child(p)[1] = tgt[p]
           /\ Mapped(Here(p)) /\ ~Mapped(Child(p)) /\ at[p] = NoSlot
           /\ at' = [at EXCEPT ![p] = Child(p)] /\ UNCHANGED kmem
           /\ Here(p)' = Here(p) /\ Child(p)' = Child(p)
<1>t. TypeOK /\ LocalsInv /\ TargetInv /\ TodoInv
  BY DEF IInv
<1>0. pc[p] = "uvmcopy" /\ va[p] < sz[p]
  BY DEF ShareMapping
<1>1. /\ va[p] \in VA /\ Here(p) \in Slot /\ Child(p) \in Slot /\ va[p] < sz[p]
      /\ pc[p] = "uvmcopy" /\ tgt[p] \in Proc /\ ret[p] = "none" /\ tgt[p] # p
      /\ todo[p] = {} /\ at[p] = NoSlot /\ va[p] \in Int
  <2>1. va[p] \in VA /\ Here(p) \in Slot /\ Child(p) \in Slot
    BY <1>t, <1>0, StepBounds, HereFacts
  <2>2. LocalsAt(p) /\ TodoAt(p) /\ tgt[p] \in Proc
    BY <1>t DEF LocalsInv, TodoInv, TypeOK, ThreadTypeOK, LocalsTypeOK
  <2>3. ret[p] = "none" /\ tgt[p] # p
    BY <1>0, <2>2 DEF LocalsAt, Forking
  <2>4. todo[p] = {} /\ at[p] = NoSlot
    BY <1>0, <2>2 DEF TodoAt, Freeing
  <2>5. va[p] \in Int
    BY <2>1, AddressAssumption DEF VA
  <2> QED
    BY <1>0, <2>1, <2>2, <2>3, <2>4, <2>5
<1>2. Here(p)[1] = p /\ Child(p)[1] = tgt[p] /\ Here(p) # Child(p)
  BY <1>1, KeyFacts, SlotFacts DEF Here, Child
<1>3. Mapped(Here(p))
  <2>1. state[p] = "RUNNABLE"
    BY Running DEF KernelStep
  <2> QED
    BY <1>1, <2>1, MappedMemory DEF VisibleSz, Here
<1>4. ~Mapped(Child(p))
  <2>1. state[tgt[p]] = "USED" /\ \A q \in Proc : tgt[q] = tgt[p] /\ q # tgt[p] => q = p
    BY <1>t, <1>1, TargetFacts DEF TargetInv, TargetAt, Forking
  <2>2. ~EmbryoHas(tgt[p], va[p])
    BY <1>1, <2>1 DEF EmbryoHas
  <2> QED
    BY <1>1, <2>1, <2>2 DEF Child, IInv, MappingInv, HasPage
<1> QED
  BY <1>1, <1>2, <1>3, <1>4 DEF ShareMapping, Here, Child, locals

(* NoUseAfterFree is preserved. *)
LEMMA FreeStep ==
    ASSUME IInv, NEW p \in Proc, UserStep(p) \/ KernelStep(p)
    PROVE  NoUseAfterFree'
<1>t. TypeOK /\ LocalsInv /\ TargetInv /\ TodoInv
  BY DEF IInv
<1>n. /\ \A s \in Slot : slot[s] \notin freelist
      /\ freelist \subseteq Page /\ NoPage \notin Page
      /\ slot \in [Slot -> Page \cup {NoPage}]
  BY <1>t, ProcAssumption
     DEF IInv, NoUseAfterFree, TypeOK, KallocTypeOK, PteTypeOK
<1>1. CASE UNCHANGED <<freelist, slot>>
  BY <1>n, <1>1 DEF NoUseAfterFree
<1>2. CASE \E g \in Page, s \in Slot : Fresh(p, g, s)
  BY <1>n, <1>2 DEF Fresh, NoUseAfterFree
<1>3. CASE CopyPage(p) \/ GrowMap(p)
  <2>1. Here(p) \in Slot /\ <<p, Hand>> \in Slot /\ UNCHANGED freelist
    BY <1>3, Exchange
  <2> QED
    BY <1>n, <1>3, <2>1 DEF CopyPage, GrowMap, NoUseAfterFree
<1>4. CASE ShareMapping(p)
  <2>1. Here(p) \in Slot /\ Child(p) \in Slot /\ UNCHANGED freelist
    BY <1>4, Sharing DEF kmem
  <2> QED
    BY <1>n, <1>4, <2>1 DEF ShareMapping, NoUseAfterFree
<1>5. CASE CountMapping(p)
  BY <1>n, <1>5 DEF CountMapping, Incref, pte, NoUseAfterFree
<1>6. CASE DropReference(p)
  BY <1>n, <1>6 DEF DropReference, KfreeDec, ClearSlot, pte, NoUseAfterFree
<1>7. CASE PushPage(p)
  <2>1. Exclusive(at[p]) /\ at[p] \in Slot /\ slot[at[p]] # NoPage
    BY <1>t, <1>7
       DEF PushPage, IInv, SharingInv, TodoInv, TodoAt, Mapped, TypeOK, ThreadTypeOK
  <2> QED
    BY <1>n, <1>7, <2>1
       DEF PushPage, KfreePush, ClearSlot, Exclusive, NoUseAfterFree
<1> QED
  BY <1>1, <1>2, <1>3, <1>4, <1>5, <1>6, <1>7, Effects

(* Sets of references that differ in one slot. *)
LEMMA RefsFinite == \A g : IsFiniteSet(Refs(g))
  BY SlotFinite, FS_Subset DEF Refs

(* A set that loses an element. *)
LEMMA OneLess ==
    ASSUME NEW S, IsFiniteSet(S), NEW s \in S
    PROVE  Cardinality(S \ {s}) = Cardinality(S) - 1
  BY FS_RemoveElement

(* A set that gains an element. *)
LEMMA OneMore ==
    ASSUME NEW S, IsFiniteSet(S), NEW s, s \notin S
    PROVE  Cardinality(S \cup {s}) = Cardinality(S) + 1
  BY FS_AddElement

(* A set that exchanges an element for another. *)
LEMMA OneOther ==
    ASSUME NEW S, IsFiniteSet(S), NEW s \in S, NEW u, u \notin S
    PROVE  Cardinality((S \ {s}) \cup {u}) = Cardinality(S)
<1>1. IsFiniteSet(S \ {s}) /\ Cardinality(S \ {s}) = Cardinality(S) - 1
  BY FS_RemoveElement
<1>2. Cardinality((S \ {s}) \cup {u}) = Cardinality(S \ {s}) + 1
  BY <1>1, FS_AddElement
<1> QED
  BY <1>1, <1>2, FS_CardinalityType

(* RefCountExact is preserved: kmem.refarray follows the references. *)
LEMMA CountStep ==
    ASSUME IInv, NEW p \in Proc, UserStep(p) \/ KernelStep(p)
    PROVE  RefCountExact'
<1>t. TypeOK /\ LocalsInv /\ TargetInv /\ TodoInv
  BY DEF IInv
<1>y. /\ slot \in [Slot -> Page \cup {NoPage}] /\ NoPage \notin Page
      /\ refarray \in [Page -> Int] /\ at \in [Proc -> Slot \cup {NoSlot}]
      /\ freelist \subseteq Page /\ NoSlot \notin Slot
  BY <1>t, ProcAssumption
     DEF TypeOK, KallocTypeOK, PteTypeOK, ThreadTypeOK
<1>c. \A g \in Page \ freelist : refarray[g] = Cardinality(Refs(g))
  BY DEF IInv, RefCountExact
<1>r. pc[p] # "off"
  BY Running
<1>1. CASE UNCHANGED <<freelist, refarray, slot, at>>
  BY <1>c, <1>1 DEF RefCountExact, Refs
<1>2. ASSUME NEW g \in Page, NEW s \in Slot, Fresh(p, g, s)
      PROVE  RefCountExact'
  <2>1. \A q \in Proc : at[q] # s
    BY <1>2, <1>y, AtFacts DEF Fresh
  <2>2. \A u \in Slot : slot[u] # g
    BY <1>2 DEF Fresh, IInv, NoUseAfterFree
  <2>3. Refs(g)' = {s}
    BY <1>y, <1>2, <2>1, <2>2 DEF Refs, Fresh
  <2>4. Cardinality({s}) = 1
    BY FS_Singleton
  <2>5. \A h \in Page : h # g => Refs(h)' = Refs(h)
    BY <1>y, <1>2 DEF Refs, Fresh, Mapped
  <2> QED
    BY <1>y, <1>c, <1>2, <2>3, <2>4, <2>5 DEF RefCountExact, Fresh
<1>3. CASE CopyPage(p) \/ GrowMap(p)
  <2> DEFINE a == Here(p)
             b == <<p, Hand>>
  <2>1. /\ a \in Slot /\ b \in Slot /\ a # b /\ a[1] = p /\ b[1] = p
        /\ at[p] = NoSlot /\ UNCHANGED <<freelist, refarray, at>>
        /\ Mapped(b) /\ b \notin Sharable
        /\ GrowMap(p) => ~Mapped(a)
    BY <1>3, Exchange
  <2>2. \A q \in Proc : at[q] # a /\ at[q] # b
    BY <1>r, <1>y, <2>1, AtApart
  <2>3. \A u \in Slot : u # a /\ u # b => slot'[u] = slot[u]
    BY <1>y, <1>3, <2>1 DEF CopyPage, GrowMap
  <2>4. slot'[a] = slot[b] /\ slot'[b] = IF CopyPage(p) THEN slot[a] ELSE NoPage
    BY <1>y, <1>3, <2>1 DEF CopyPage, GrowMap
  <2>5. ASSUME NEW g \in Page \ freelist PROVE Cardinality(Refs(g)') = Cardinality(Refs(g))
    <3>1. CASE g = slot[a] /\ g # slot[b]
      <4>1. CopyPage(p)
        BY <1>3, <1>y, <2>1, <3>1 DEF Mapped
      <4>2. Refs(g)' = (Refs(g) \ {a}) \cup {b} /\ a \in Refs(g) /\ b \notin Refs(g)
        BY <2>1, <2>2, <2>3, <2>4, <3>1, <4>1 DEF Refs
      <4> QED
        BY <4>2, RefsFinite, OneOther
    <3>2. CASE g = slot[b] /\ g # slot[a]
      <4>1. Refs(g)' = (Refs(g) \ {b}) \cup {a} /\ b \in Refs(g) /\ a \notin Refs(g)
        BY <1>y, <2>1, <2>2, <2>3, <2>4, <3>2 DEF Refs
      <4> QED
        BY <4>1, RefsFinite, OneOther
    <3>3. CASE g # slot[b] /\ g # slot[a]
      <4>1. Refs(g)' = Refs(g)
        BY <1>y, <2>1, <2>2, <2>3, <2>4, <3>3 DEF Refs
      <4> QED
        BY <4>1
    <3>4. slot[a] # slot[b]
      BY <2>1 DEF IInv, SharingInv, Mapped
    <3> QED
      BY <3>1, <3>2, <3>3, <3>4
  <2> QED
    BY <1>c, <2>1, <2>5 DEF RefCountExact
<1>4. CASE ShareMapping(p)
  <2>1. /\ Here(p) \in Slot /\ Child(p) \in Slot /\ ~Mapped(Child(p))
        /\ at[p] = NoSlot /\ at' = [at EXCEPT ![p] = Child(p)] /\ UNCHANGED kmem
    BY <1>4, Sharing
  <2>2. slot' = [slot EXCEPT ![Child(p)] = slot[Here(p)]]
    BY <1>4 DEF ShareMapping
  <2>3. \A g \in Page : Refs(g)' = Refs(g)
    BY <1>y, <2>1, <2>2 DEF Refs, Mapped
  <2> QED
    BY <1>c, <2>1, <2>3 DEF RefCountExact, kmem
<1>5. CASE CountMapping(p)
  <2>1. at[p] = Child(p) /\ slot[Child(p)] = slot[Here(p)] /\ pc[p] = "incref"
    BY <1>5 DEF CountMapping, IInv, TodoInv, TodoAt, SharingInv
  <2>2. va[p] \in VA /\ Child(p) \in Slot /\ Here(p) \in Slot /\ tgt[p] \in Proc
    BY <1>t, <2>1, StepBounds, HereFacts DEF TypeOK, ThreadTypeOK, LocalsTypeOK
  <2>3. Child(p)[1] = tgt[p]
    BY <2>2, SlotFacts, KeyFacts DEF Child
  <2>4. \A q \in Proc : q # p => at[q] # Child(p)
    BY <1>r, <2>2, <2>3, AtApart
  <2>5. PICK g \in Page : g = slot[Here(p)]
    BY <1>y, <2>1, <2>2, AtFacts
  <2>6. PICK c \in Slot : c = Child(p)
    BY <2>2
  <2>7. /\ refarray' = [refarray EXCEPT ![g] = @ + 1] /\ UNCHANGED <<freelist, slot>>
        /\ at' = [at EXCEPT ![p] = NoSlot]
    BY <1>5, <2>5 DEF CountMapping, Incref, pte
  <2>8. c \notin Refs(g) /\ Refs(g)' = Refs(g) \cup {c}
    BY <1>y, <2>1, <2>4, <2>5, <2>6, <2>7 DEF Refs
  <2>9. \A h \in Page : h # g => Refs(h)' = Refs(h)
    BY <1>y, <2>1, <2>5, <2>6, <2>7 DEF Refs
  <2>10. Cardinality(Refs(g)') = Cardinality(Refs(g)) + 1
    BY <2>8, RefsFinite, OneMore
  <2> QED
    BY <1>y, <1>c, <2>7, <2>9, <2>10 DEF RefCountExact
<1>6. CASE DropReference(p)
  <2>1. PICK s \in todo[p] :
           /\ KfreeDec(slot[s])
           /\ \/ ClearSlot(p, s) /\ UNCHANGED at
              \/ at' = [at EXCEPT ![p] = s] /\ UNCHANGED pte
    BY <1>6 DEF DropReference, NextToFree
  <2>2. /\ s \in Slot /\ s[1] \in {p, tgt[p]} /\ Mapped(s) /\ at[p] = NoSlot
    BY <1>t, <1>6, TodoOwner DEF DropReference, TodoInv, TodoAt
  <2>3. \A q \in Proc : at[q] # s
    BY <1>r, <1>y, <2>2, AtApart
  <2>4. PICK g \in Page : g = slot[s]
    BY <1>y, <2>2 DEF Mapped
  <2>5. s \in Refs(g) /\ \A h \in Page : h # g => s \notin Refs(h)
    BY <2>2, <2>3, <2>4 DEF Refs
  <2>6. \A h \in Page : Refs(h)' = Refs(h) \ {s}
    BY <1>y, <2>1, <2>2, <2>3 DEF Refs, ClearSlot, pte
  <2>7. Cardinality(Refs(g)') = Cardinality(Refs(g)) - 1
    BY <2>5, <2>6, RefsFinite, OneLess
  <2>8. \A h \in Page : h # g => Refs(h)' = Refs(h)
    BY <2>5, <2>6
  <2>9. refarray' = [refarray EXCEPT ![g] = @ - 1] /\ UNCHANGED freelist
    BY <2>1, <2>4 DEF KfreeDec
  <2> QED
    BY <1>y, <1>c, <2>7, <2>8, <2>9 DEF RefCountExact
<1>7. CASE PushPage(p)
  <2> DEFINE s == at[p]
             g == slot[s]
  <2>1. s \in Slot /\ g \in Page
    BY <1>t, <1>7, <1>y, AtFacts
       DEF PushPage, TodoInv, TodoAt, TypeOK, ThreadTypeOK
  <2>2. /\ freelist' = freelist \cup {g} /\ UNCHANGED refarray
        /\ slot' = [slot EXCEPT ![s] = NoPage] /\ at' = [at EXCEPT ![p] = NoSlot]
    BY <1>7 DEF PushPage, KfreePush, ClearSlot
  <2>3. \A h \in Page : h # g => Refs(h)' = Refs(h)
    BY <1>y, <2>1, <2>2 DEF Refs
  <2> QED
    BY <1>c, <2>2, <2>3 DEF RefCountExact
<1> QED
  BY <1>1, <1>2, <1>3, <1>4, <1>5, <1>6, <1>7, Effects

(* Which slots stop being sharable. *)
LEMMA SharableStep ==
    ASSUME IInv, NEW p \in Proc, UserStep(p) \/ KernelStep(p),
           NEW t \in Slot, t \in Sharable, Mapped(t)
    PROVE  \/ t \in Sharable'
           \/ ~Mapped(t)'
           \/ (ReusePage(p) \/ CopyPage(p)) /\ t = Here(p)
           \/ DropReference(p) /\ pc'[p] = "push" /\ t = <<p, Hand>> /\ t \in todo[p]
<1>t. TypeOK /\ LocalsInv /\ TargetInv /\ TodoInv
  BY DEF IInv
<1>1. CASE t \in cow
  <2>1. \A s \in Slot : ClearSlot(p, s) => t \in cow' \/ ~Mapped(t)'
    BY <1>t, <1>1 DEF ClearSlot, Mapped, TypeOK, PteTypeOK
  <2>2. PushPage(p) => t \in cow' \/ ~Mapped(t)'
    BY <1>t, <2>1 DEF PushPage, TodoInv, TodoAt, TypeOK, ThreadTypeOK
  <2>3. DropReference(p) => t \in cow' \/ ~Mapped(t)'
    BY <1>1, <2>1 DEF DropReference, pte
  <2>4. ReusePage(p) \/ CopyPage(p) => t \in cow' \/ t = Here(p)
    BY <1>1 DEF ReusePage, CopyPage, MakeWritable
  <2>5. (\E g \in Page, s \in Slot : Fresh(p, g, s)) => t \in cow'
    BY <1>1 DEF Fresh
  <2>6. GrowMap(p) \/ ShareMapping(p) \/ CountMapping(p) => t \in cow'
    BY <1>1 DEF GrowMap, ShareMapping, CountMapping, pte
  <2> QED
    BY <1>1, <2>2, <2>3, <2>4, <2>5, <2>6, Effects DEF Sharable
<1>2. ASSUME NEW q \in Proc, pc[q] = "free", t = <<q, Hand>>, q # p
      PROVE  t \in Sharable'
  <2>1. pc'[q] = pc[q]
    BY <1>t, <1>2, Frame, TargetFacts
  <2> QED
    BY <1>2, <2>1 DEF Sharable
<1>3. CASE pc[p] = "free" /\ t = <<p, Hand>>
  <2>1. t \in todo[p]
    BY <1>3 DEF IInv, MappingInv
  <2>2. DropReference(p)
    BY <1>3, <2>1
      DEF UserStep, KernelStep, UserStore, CowFault, BadAccess, ReadRef,
      ReusePage, AllocCopy, AllocCopyFails, CopyPage, Copyout, CopyoutPage,
      Deliver, CopyoutDone, DropReference, PushPage, CopyDone, ResizeDone,
      UncopyDone, FreeprocDone, Fork, AllocRoot, WalkAlloc, ShareMapping,
      CountMapping, UvmcopyFails, ForkDone, Grow, GrowAlloc, GrowMap,
      GrowMapFails, GrowDone, Shrink, Exit, Wait, WaitReap
  <2>3. pc'[p] \in {"free", "push"}
    BY <1>t, <1>3, <2>2 DEF DropReference, Goto, TypeOK, ThreadTypeOK
  <2> QED
    BY <1>3, <2>1, <2>2, <2>3 DEF Sharable
<1> QED
  BY <1>1, <1>2, <1>3 DEF Sharable

(* A page nobody else refers to stays so while others take steps. *)
LEMMA ExclusiveFrame ==
    ASSUME IInv, NEW p \in Proc, UserStep(p) \/ KernelStep(p), NEW s \in Slot,
           Mapped(s), Exclusive(s), slot'[s] = slot[s],
           s # Here(p), s # <<p, Hand>>
    PROVE  Exclusive(s)'
<1>t. TypeOK /\ TodoInv
  BY DEF IInv
<1>y. /\ slot \in [Slot -> Page \cup {NoPage}] /\ slot[s] # NoPage
      /\ \A t \in Slot : slot[t] = slot[s] => t = s
  BY <1>t DEF TypeOK, PteTypeOK, Mapped, Exclusive
<1>1. CASE UNCHANGED slot
  BY <1>1, <1>y DEF Exclusive
<1>2. CASE \E g \in Page, u \in Slot : Fresh(p, g, u)
  <2>1. slot[s] \notin freelist
    BY DEF IInv, NoUseAfterFree
  <2> QED
    BY <1>2, <1>y, <2>1 DEF Exclusive, Fresh
<1>3. CASE CopyPage(p) \/ GrowMap(p)
  <2>1. Here(p) \in Slot /\ <<p, Hand>> \in Slot
    BY <1>3, Exchange
  <2> QED
    BY <1>3, <1>y, <2>1 DEF CopyPage, GrowMap, Exclusive
<1>4. CASE ShareMapping(p)
  <2>1. Here(p) \in Slot
    BY <1>4, Sharing
  <2> QED
    BY <1>4, <1>y, <2>1 DEF ShareMapping, Exclusive
<1>5. CASE CountMapping(p)
  BY <1>5, <1>y DEF CountMapping, Exclusive, pte
<1>6. CASE DropReference(p)
  BY <1>6, <1>y DEF DropReference, ClearSlot, Exclusive, pte
<1>7. CASE PushPage(p)
  BY <1>7, <1>y DEF PushPage, ClearSlot, Exclusive
<1> QED
  BY <1>1, <1>2, <1>3, <1>4, <1>5, <1>6, <1>7, Effects

(* A slot kfree() has counted down to zero was the last one. *)
LEMMA LastReference ==
    ASSUME IInv, NEW p \in Proc, DropReference(p), pc'[p] = "push"
    PROVE  /\ at'[p] \in todo[p] /\ at'[p] \in Slot /\ Exclusive(at'[p])
           /\ <<p, Hand>> \in todo[p] => at'[p] = <<p, Hand>>
           /\ UNCHANGED slot
<1>t. TypeOK /\ LocalsInv /\ TargetInv /\ TodoInv
  BY DEF IInv
<1>1. PICK s \in Slot :
         /\ NextToFree(p, s)
         /\ IF StillReferenced(slot[s])
            THEN UNCHANGED pc
            ELSE at' = [at EXCEPT ![p] = s] /\ UNCHANGED pte
  BY DEF DropReference
<1>2. pc[p] = "free" /\ at[p] = NoSlot
  BY <1>t DEF DropReference, TodoInv, TodoAt
<1>3. ~StillReferenced(slot[s]) /\ at'[p] = s /\ UNCHANGED slot
  BY <1>t, <1>1, <1>2 DEF pte, TypeOK, ThreadTypeOK
<1>4. s \in todo[p] /\ Mapped(s) /\ s[1] \in {p, tgt[p]}
  BY <1>t, <1>1, TodoOwner DEF NextToFree, TodoInv, TodoAt
<1>5. slot[s] \in Page /\ refarray[slot[s]] \in Int
  BY <1>t, <1>4 DEF Mapped, TypeOK, PteTypeOK, KallocTypeOK
<1>6. Exclusive(s)
  <2>1. refarray[slot[s]] <= 1
    BY <1>3, <1>5 DEF StillReferenced
  <2> QED
    BY <1>2, <1>4, <2>1, SoleReference
<1>7. <<p, Hand>> \in todo[p] => s = <<p, Hand>>
  <2>1. ASSUME <<p, Hand>> \in todo[p] PROVE s[2] = Hand
    <3>1. Rank(s[2]) <= Rank(Hand)
      BY <1>1, <2>1, SlotFacts DEF NextToFree, Hand
    <3> QED
      BY <3>1, SlotFacts, RankFacts
  <2>2. s[2] = Hand => s = <<p, Hand>>
    <3>1. s = <<s[1], s[2]>> /\ tgt[p] \in Proc
      BY <1>t, SlotFacts DEF TypeOK, ThreadTypeOK, LocalsTypeOK
    <3>2. tgt[p] # p => ~Mapped(<<tgt[p], Hand>>)
      BY <1>t, <3>1, TargetFacts
         DEF IInv, MappingInv, TodoInv, TodoAt, Freeing
    <3> QED
      BY <1>4, <3>1, <3>2
  <2> QED
    BY <2>1, <2>2
<1> QED
  BY <1>3, <1>4, <1>6, <1>7

(* Only sharable slots share pages. *)
LEMMA SharedStep ==
    ASSUME IInv, NEW p \in Proc, UserStep(p) \/ KernelStep(p),
           NEW s \in Slot, NEW u \in Slot, s # u,
           Mapped(s)', slot'[s] = slot'[u]
    PROVE  s \in Sharable'
<1>t. TypeOK /\ LocalsInv /\ TargetInv /\ TodoInv
  BY DEF IInv
<1>y. /\ slot \in [Slot -> Page \cup {NoPage}] /\ NoPage \notin Page
      /\ slot'[s] # NoPage /\ Mapped(u)'
  BY <1>t, ProcAssumption DEF TypeOK, PteTypeOK, Mapped
<1>i. \A a, b \in Slot : a # b /\ Mapped(a) /\ slot[a] = slot[b] =>
           a \in Sharable /\ b \in Sharable
  BY DEF IInv, SharingInv
<1>o. ASSUME slot[s] = slot[u], slot'[s] = slot[s],
             ~(CopyPage(p) /\ s = Here(p))
      PROVE  s \in Sharable'
  <2>1. s \in Sharable /\ Mapped(s)
    BY <1>i, <1>o, <1>y DEF Mapped
  <2>2. ~(ReusePage(p) /\ s = Here(p))
    BY <1>o DEF ReusePage, IInv, SharingInv, Exclusive
  <2>3. ~(DropReference(p) /\ pc'[p] = "push" /\ s = <<p, Hand>> /\ s \in todo[p])
    BY <1>o, LastReference DEF Exclusive
  <2> QED
    BY <1>o, <2>1, <2>2, <2>3, SharableStep
<1>1. CASE UNCHANGED slot
  <2>1. ~(CopyPage(p) /\ s = Here(p))
    <3>1. ASSUME CopyPage(p), s = Here(p) PROVE FALSE
      <4>1. /\ Here(p) \in Slot /\ <<p, Hand>> \in Slot /\ Mapped(<<p, Hand>>)
            /\ Here(p) # <<p, Hand>> /\ <<p, Hand>> \notin Sharable
        BY <3>1, Exchange
      <4>2. slot'[Here(p)] = slot[<<p, Hand>>]
        BY <1>y, <3>1, <4>1 DEF CopyPage
      <4> QED
        BY <1>1, <1>i, <4>1, <4>2
    <3> QED
      BY <3>1
  <2> QED
    BY <1>1, <1>o, <2>1
<1>2. ASSUME NEW g \in Page, NEW x \in Slot, Fresh(p, g, x)
      PROVE  s \in Sharable'
  <2>1. slot' = [slot EXCEPT ![x] = g] /\ \A a \in Slot : slot[a] # g
    BY <1>2 DEF Fresh, IInv, NoUseAfterFree
  <2>2. slot'[s] = slot[s] /\ slot'[u] = slot[u]
    BY <1>y, <2>1
  <2>3. ~CopyPage(p)
    BY <1>2 DEF CopyPage, StorePage, Fresh
  <2> QED
    BY <1>o, <2>2, <2>3
<1>3. CASE CopyPage(p) \/ GrowMap(p)
  <2> DEFINE a == Here(p)
             b == <<p, Hand>>
  <2>1. /\ a \in Slot /\ b \in Slot /\ a # b /\ Mapped(b) /\ b \notin Sharable
        /\ CopyPage(p) => pc'[p] = "free" /\ Mapped(a)
    BY <1>3, Exchange
  <2>2. \A x \in Slot : x # a /\ x # b => slot'[x] = slot[x]
    BY <1>y, <1>3, <2>1 DEF CopyPage, GrowMap
  <2>3. slot'[a] = slot[b] /\ slot'[b] \in {slot[a], NoPage}
        /\ (slot'[b] # NoPage => CopyPage(p))
    BY <1>y, <1>3, <2>1 DEF CopyPage, GrowMap
  <2>4. \A x \in Slot : x # b => slot[x] # slot[b]
    BY <1>i, <2>1
  <2>5. CASE s = a
    <3>1. slot'[u] = slot[b]
      BY <2>3, <2>5
    <3>2. u = b
      BY <2>2, <2>4, <2>5, <3>1
    <3> QED
      BY <1>y, <2>1, <2>3, <2>4, <2>5, <3>1, <3>2 DEF Mapped
  <2>6. CASE s = b
    <3>1. CopyPage(p)
      BY <1>y, <2>3, <2>6
    <3> QED
      BY <2>1, <2>6, <3>1 DEF Sharable
  <2>7. CASE s # a /\ s # b
    <3>1. CASE u = a
      BY <2>1, <2>2, <2>3, <2>4, <2>7, <3>1
    <3>2. CASE u = b
      <4>1. slot[s] = slot[a] /\ CopyPage(p)
        BY <1>y, <2>2, <2>3, <2>7, <3>2
      <4>2. s \in Sharable /\ Mapped(s)
        BY <1>i, <2>1, <2>7, <4>1 DEF Mapped
      <4>3. ~ReusePage(p) /\ ~DropReference(p)
        BY <4>1 DEF CopyPage, ReusePage, DropReference
      <4> QED
        BY <2>7, <4>2, <4>3, SharableStep
    <3>3. CASE u # a /\ u # b
      BY <1>o, <2>2, <2>7, <3>3
    <3> QED
      BY <3>1, <3>2, <3>3
  <2> QED
    BY <2>5, <2>6, <2>7
<1>4. CASE ShareMapping(p)
  <2> DEFINE h == Here(p)
             c == Child(p)
  <2>1. h \in Slot /\ c \in Slot /\ h # c /\ Mapped(h) /\ ~Mapped(c)
    BY <1>4, Sharing
  <2>2. slot' = [slot EXCEPT ![c] = slot[h]] /\ cow' = cow \cup {c, h}
    BY <1>4 DEF ShareMapping
  <2>3. CASE s = c \/ s = h
    BY <2>2, <2>3 DEF Sharable
  <2>4. CASE s # c /\ s # h
    <3>1. slot'[s] = slot[s] /\ (u # c => slot'[u] = slot[u])
      BY <1>y, <2>1, <2>2, <2>4
    <3>2. CASE u = c
      <4>1. slot[s] = slot[h]
        BY <1>y, <2>1, <2>2, <3>1, <3>2
      <4>2. s \in Sharable /\ Mapped(s)
        BY <1>i, <2>1, <2>4, <4>1 DEF Mapped
      <4>3. ~ReusePage(p) /\ ~DropReference(p) /\ ~CopyPage(p)
        BY <1>4 DEF ShareMapping, CopyPage, ReusePage, DropReference
      <4> QED
        BY <4>2, <4>3, SharableStep
    <3>3. CASE u # c
      BY <1>o, <2>4, <3>1, <3>3 DEF ShareMapping
    <3> QED
      BY <3>2, <3>3
  <2> QED
    BY <2>3, <2>4
<1>5. CASE CountMapping(p)
  BY <1>1, <1>5 DEF CountMapping, pte
<1>6. CASE DropReference(p) \/ PushPage(p)
  <2>1. slot'[s] = slot[s] /\ slot'[u] = slot[u]
    BY <1>t, <1>y, <1>6, SlotEffect DEF Mapped, CopyPage, GrowMap, AllocCopy,
       GrowAlloc, Fork, AllocRoot, WalkAlloc, ShareMapping, DropReference, PushPage
  <2>2. ~CopyPage(p)
    BY <1>6 DEF CopyPage, DropReference, PushPage
  <2> QED
    BY <1>o, <2>1, <2>2
<1> QED
  BY <1>1, <1>2, <1>3, <1>4, <1>5, <1>6, Effects

(* A step lets only copy-on-write mappings share a page. *)
LEMMA SharingStep ==
    ASSUME IInv, NEW p \in Proc, UserStep(p) \/ KernelStep(p)
    PROVE  SharingInv'
<1>t. TypeOK /\ LocalsInv /\ TargetInv /\ TodoInv
  BY DEF IInv
<1>s. /\ \A r \in Proc : pc[r] = "own" => Exclusive(Here(r)) /\ Here(r) \in cow
      /\ \A r \in Proc : pc[r] = "push" => Exclusive(at[r])
      /\ \A r \in Proc : pc[r] = "incref" =>
             slot[Child(r)] = slot[Here(r)] /\ Here(r) \in cow
  BY DEF IInv, SharingInv, FlagInv, Resolving
<1>r. pc[p] # "off"
  BY Running
<1>1. ASSUME NEW s \in Slot, NEW u \in Slot, s # u, Mapped(s)',
             slot'[s] = slot'[u]
      PROVE  s \in Sharable' /\ u \in Sharable'
  BY <1>1, SharedStep DEF Mapped
<1>f. ASSUME NEW q \in Proc, q # p, pc'[q] # "user"
      PROVE  /\ pc'[q] = pc[q] /\ va'[q] = va[q] /\ tgt'[q] = tgt[q]
             /\ at'[q] = at[q] /\ Here(q)' = Here(q) /\ Child(q)' = Child(q)
  <2>1. pc'[q] = pc[q]
    BY <1>t, <1>f, Frame DEF ForkDone, TypeOK, ThreadTypeOK, LocalsTypeOK
  <2> QED
    BY <1>t, <1>f, <2>1, Frame DEF Here, Child
<1>a. ASSUME NEW q \in Proc, q # p, pc[q] # "off"
      PROVE  q # tgt[p] /\ tgt[q] # p /\ tgt[q] # tgt[p]
  BY <1>t, <1>r, <1>a, TargetFacts
<1>h. ASSUME NEW q \in Proc, q # p, pc[q] # "off", va[q] < MaxVA
      PROVE  /\ slot'[Here(q)] = slot[Here(q)] /\ Here(q) \in Slot
             /\ Here(q) \in cow' <=> Here(q) \in cow
             /\ Here(q) # Here(p) /\ Here(q) # <<p, Hand>>
  <2>1. va[q] \in VA /\ q # tgt[p] /\ Here(q) \in Slot
    BY <1>t, <1>h, <1>a, HereFacts
  <2>2. state[q] # "UNUSED"
    BY <1>t, <1>h DEF TargetInv
  <2>3. Here(q) # Here(p) /\ Here(q) # <<p, Hand>>
    BY <1>h DEF Here
  <2> QED
    BY <1>h, <2>1, <2>2, <2>3, SlotFrame, KeyFacts DEF Here
<1>2. ASSUME NEW q \in Proc, pc'[q] = "own"
      PROVE  Exclusive(Here(q))'
  <2>1. CASE q = p
    <3>1. ReadRef(p)
      BY <1>2, <2>1, StepKinds
    <3>2. refarray[slot[Here(p)]] = 1 /\ pc[p] = "ref"
      BY <1>t, <1>2, <2>1, <3>1 DEF ReadRef, Goto, Ref, TypeOK, ThreadTypeOK
    <3>3. Here(p) \in Slot /\ Mapped(Here(p)) /\ Here(p)[1] = p /\ at[p] = NoSlot
      <4>1. va[p] \in VA /\ Here(p) \in Slot
        BY <1>t, <3>2, StepBounds, HereFacts
      <4> QED
        BY <1>t, <3>2, <4>1, SlotFacts, KeyFacts
           DEF Here, IInv, FlagInv, Resolving, TodoInv, TodoAt
    <3>4. Exclusive(Here(p))
      BY <1>r, <3>2, <3>3, SoleReference
    <3> QED
      BY <2>1, <3>1, <3>4 DEF ReadRef, Exclusive, Here, pte, locals
  <2>2. CASE q # p
    <3>1. pc[q] = "own" /\ Here(q)' = Here(q)
      BY <1>2, <1>f, <2>2
    <3>2. va[q] < MaxVA
      BY <1>t, <3>1, StepBounds
    <3>3. Exclusive(Here(q)) /\ Mapped(Here(q))
      BY <1>s, <3>1 DEF IInv, FlagInv
    <3>4. Exclusive(Here(q))' <=> (\A t \in Slot : slot'[t] = slot'[Here(q)] => t = Here(q))
      BY <3>1 DEF Exclusive
    <3>5. PICK s \in Slot : s = Here(q)
      BY <1>h, <2>2, <3>1, <3>2
    <3>6. Exclusive(s)'
      BY <1>h, <2>2, <3>1, <3>2, <3>3, <3>5, ExclusiveFrame
    <3> QED
      BY <3>4, <3>5, <3>6 DEF Exclusive
  <2> QED
    BY <2>1, <2>2
<1>3. ASSUME NEW q \in Proc, pc'[q] = "push"
      PROVE  Exclusive(at[q])'
  <2>1. CASE q = p
    <3>1. DropReference(p)
      BY <1>3, <2>1, StepKinds
    <3> QED
      BY <1>3, <2>1, <3>1, LastReference DEF Exclusive
  <2>2. CASE q # p
    <3>1. pc[q] = "push" /\ at'[q] = at[q]
      BY <1>3, <1>f, <2>2
    <3>2. /\ at[q] \in Slot /\ Mapped(at[q]) /\ Exclusive(at[q])
          /\ at[q][1] \in {q, tgt[q]}
      <4>1. at[q] # NoSlot
        BY <1>t, <3>1, ProcAssumption
           DEF TodoInv, TodoAt, TypeOK, ThreadTypeOK
      <4> QED
        BY <1>s, <3>1, <4>1, AtFacts
    <3>3. PICK s \in Slot : s = at[q]
      BY <3>2
    <3>4. /\ s = <<s[1], s[2]>> /\ s[1] \in Proc /\ s[2] \in Key
          /\ s[1] # p /\ s[1] # tgt[p]
      BY <1>a, <2>2, <3>1, <3>2, <3>3, SlotFacts
    <3>5. state[s[1]] # "UNUSED"
      BY <1>t, <3>1, <3>2, <3>3 DEF TargetInv, TargetAt
    <3>6. slot'[s] = slot[s]
      BY <3>4, <3>5, SlotFrame
    <3>7. s # Here(p) /\ s # <<p, Hand>>
      BY <3>4 DEF Here
    <3>8. Exclusive(s)'
      BY <3>2, <3>3, <3>6, <3>7, ExclusiveFrame
    <3> QED
      BY <3>1, <3>3, <3>8 DEF Exclusive
  <2> QED
    BY <2>1, <2>2
<1>4. ASSUME NEW q \in Proc, pc'[q] = "incref"
      PROVE  (slot[Child(q)] = slot[Here(q)] /\ Here(q) \in cow)'
  <2>1. CASE q = p
    <3>1. ShareMapping(p)
      BY <1>4, <2>1, StepKinds
    <3>2. /\ Here(p) \in Slot /\ Child(p) \in Slot /\ Here(p) # Child(p)
          /\ Here(p)' = Here(p) /\ Child(p)' = Child(p)
      BY <3>1, Sharing
    <3>3. slot'[Child(p)] = slot[Here(p)] /\ slot'[Here(p)] = slot[Here(p)]
          /\ Here(p) \in cow'
      BY <1>t, <3>1, <3>2 DEF ShareMapping, TypeOK, PteTypeOK
    <3> QED
      BY <2>1, <3>2, <3>3
  <2>2. CASE q # p
    <3>1. pc[q] = "incref" /\ Here(q)' = Here(q) /\ Child(q)' = Child(q)
      BY <1>4, <1>f, <2>2
    <3>2. va[q] < MaxVA /\ va[q] \in VA
      BY <1>t, <3>1, StepBounds, HereFacts
    <3>3. tgt[q] # q
      BY <1>t, <3>1 DEF LocalsInv, LocalsAt, Forking
    <3>4. slot'[Child(q)] = slot[Child(q)]
      BY <2>2, <3>2, <3>3, TargetSlots, KeyFacts DEF Child
    <3> QED
      BY <1>s, <1>h, <2>2, <3>1, <3>2, <3>4
  <2> QED
    BY <2>1, <2>2
<1> QED
  BY <1>1, <1>2, <1>3, <1>4 DEF SharingInv

------------------------------------------------------------------------------
(* The invariant holds initially: every page of the first process has one  *)
(* reference.                                                              *)
LEMMA InitInvariant == Init => IInv
<1> SUFFICES ASSUME Init PROVE IInv
  OBVIOUS
<1>t. TypeOK
  BY InitType
<1>i. /\ InitSlot \subseteq Slot
      /\ \A v \in VA : <<InitProc, Mem(v)>> \in InitSlot <=> v < InitSz
      /\ \A s \in InitSlot : s[1] = InitProc /\ s[2] # Hand
  <2>1. \A v \in 0 .. InitSz - 1 : v \in VA /\ TableOf(v) \in VA
    BY AddressAssumption DEF VA
  <2>2. InitSlot \subseteq Slot
    BY <2>1, ProcAssumption, KeyFacts DEF InitSlot, Slot
  <2>3. \A s \in InitSlot : s[1] = InitProc /\ s[2] # Hand
    BY <2>1, KeyFacts DEF InitSlot
  <2>4. \A v \in VA : v \in 0 .. InitSz - 1 <=> v < InitSz
    BY AddressAssumption DEF VA
  <2>5. \A v \in VA : <<InitProc, Mem(v)>> \in InitSlot <=> v < InitSz
    BY <2>1, <2>4, KeyFacts DEF InitSlot
  <2> QED
    BY <2>2, <2>3, <2>5
<1>s. /\ slot = [s \in Slot |-> IF s \in InitSlot THEN BootPage[s] ELSE NoPage]
      /\ BootPage \in [InitSlot -> Page] /\ NoPage \notin Page
      /\ \A s, u \in InitSlot : BootPage[s] = BootPage[u] => s = u
  BY BootAssumption, ProcAssumption DEF Init
<1>e. \A s \in Slot : Mapped(s) <=> s \in InitSlot
  BY <1>s DEF Mapped
<1>x. \A s \in Slot : Mapped(s) => Exclusive(s)
  BY <1>s, <1>e DEF Exclusive
<1>p. /\ pc = [p \in Proc |-> IF p = InitProc THEN "user" ELSE "off"]
      /\ state = [p \in Proc |-> IF p = InitProc THEN "RUNNABLE" ELSE "UNUSED"]
      /\ sz = [p \in Proc |-> IF p = InitProc THEN InitSz ELSE 0]
      /\ ret = [p \in Proc |-> "none"] /\ tgt = [p \in Proc |-> p]
      /\ todo = [p \in Proc |-> {}] /\ at = [p \in Proc |-> NoSlot]
      /\ InitProc \in Proc
  BY ProcAssumption DEF Init
<1>1. LocalsInv
  BY <1>p DEF LocalsInv, LocalsAt, Forking, Growing, Resolving, Freeing
<1>2. TargetInv
  BY <1>p DEF TargetInv, TargetAt
<1>3. TodoInv
  BY <1>p DEF TodoInv, TodoAt, Freeing
<1>4. MappingInv
  <2>1. ASSUME NEW p \in Proc, NEW v \in VA
        PROVE  Mapped(<<p, Mem(v)>>) <=> HasPage(p, v)
    <3>1. Mapped(<<p, Mem(v)>>) <=> <<p, Mem(v)>> \in InitSlot
      BY <1>e, SlotFacts, KeyFacts
    <3>2. CASE p = InitProc
      BY <1>i, <1>p, <3>1, <3>2
         DEF HasPage, RunningHas, VisibleSz, Growing
    <3>3. CASE p # InitProc
      <4>1. <<p, Mem(v)>> \notin InitSlot
        BY <1>i, <3>3
      <4> QED
        BY <1>p, <3>1, <3>3, <4>1 DEF HasPage
    <3> QED
      BY <3>2, <3>3
  <2>2. \A p \in Proc : ~Mapped(<<p, Hand>>)
    BY <1>e, <1>i, SlotFacts, KeyFacts
  <2>3. \A p \in Proc, k \in Key : state[p] = "UNUSED" => ~Mapped(<<p, k>>)
    BY <1>e, <1>i, <1>p, SlotFacts
  <2> QED
    BY <1>p, <2>1, <2>2, <2>3 DEF MappingInv
<1>5. FlagInv
  <2>1. \A v \in 0 .. InitSz - 1 :
           <<InitProc, Mem(v)>>[2] \in MemKey /\ Mapped(<<InitProc, Mem(v)>>)
    <3>1. \A v \in 0 .. InitSz - 1 : v \in VA /\ v < InitSz
      BY AddressAssumption DEF VA
    <3> QED
      BY <1>e, <1>i, <1>p, <3>1, SlotFacts, KeyFacts
  <2>2. \A s \in writable \cup cow \cup user : s[2] \in MemKey /\ Mapped(s)
    BY <2>1 DEF Init
  <2> QED
    BY <1>p, <2>2 DEF Init, FlagInv, Resolving, Freeing
<1>6. SharingInv
  BY <1>x, <1>p DEF SharingInv, Exclusive, Mapped
<1>7. NoUseAfterFree
  BY <1>s DEF Init, KallocInit, NoUseAfterFree
<1>8. RefCountExact
  <2>1. ASSUME NEW g \in Page \ freelist
        PROVE  refarray[g] = 1 /\ Cardinality(Refs(g)) = 1
    <3>1. PICK s \in InitSlot : BootPage[s] = g
      BY <2>1 DEF Init, KallocInit
    <3>2. Refs(g) = {s}
      <4>1. s \in Slot /\ slot[s] = g /\ \A p \in Proc : at[p] # s
        BY <1>i, <1>s, <1>p, <3>1, ProcAssumption
      <4>2. \A u \in Slot : slot[u] = g => u = s
        BY <1>s, <2>1, <3>1
      <4> QED
        BY <4>1, <4>2 DEF Refs
    <3> QED
      BY <2>1, <3>1, <3>2, FS_Singleton DEF Init, KallocInit
  <2> QED
    BY <2>1 DEF RefCountExact
<1> QED
  BY <1>t, <1>1, <1>2, <1>3, <1>4, <1>5, <1>6, <1>7, <1>8 DEF IInv

(* Every step preserves the invariant. *)
LEMMA StepInvariant == IInv /\ [Next]_vars => IInv'
<1> SUFFICES ASSUME IInv, [Next]_vars PROVE IInv'
  OBVIOUS
<1>1. ASSUME NEW p \in Proc, UserStep(p) \/ KernelStep(p) PROVE IInv'
  <2>1. TypeOK'
    BY <1>1, KallocTypeStep, PteTypeStep, TableTypeStep, ThreadTypeStep DEF TypeOK
  <2>2. LocalsInv' /\ TargetInv' /\ TodoInv'
    BY <1>1, LocalsStep, TargetStep, TodoStep
  <2>3. MappingInv' /\ FlagInv' /\ SharingInv'
    BY <1>1, MappingStep, FlagStep, SharingStep
  <2>4. NoUseAfterFree' /\ RefCountExact'
    BY <1>1, FreeStep, CountStep
  <2> QED
    BY <2>1, <2>2, <2>3, <2>4 DEF IInv
<1>2. CASE UNCHANGED vars
  <2> USE <1>2 DEF vars, kmem, pte, table, locals
  <2>1. TypeOK'
    BY DEF IInv, TypeOK, KallocTypeOK, PteTypeOK, TableTypeOK, ThreadTypeOK,
       LocalsTypeOK
  <2>2. LocalsInv'
    BY DEF IInv, LocalsInv, LocalsAt
  <2>3. TargetInv'
    BY DEF IInv, TargetInv, TargetAt
  <2>4. TodoInv'
    BY DEF IInv, TodoInv, TodoAt, Mapped, MemSlots, Child
  <2>5. MappingInv'
    BY DEF IInv, MappingInv, Mapped, HasPage, RunningHas, ZombieHas, EmbryoHas,
       VisibleSz
  <2>6. FlagInv'
    BY DEF IInv, FlagInv, Mapped, Here
  <2>7. SharingInv'
    BY DEF IInv, SharingInv, Sharable, Mapped, Exclusive, Here, Child
  <2>8. NoUseAfterFree' /\ RefCountExact'
    BY DEF IInv, NoUseAfterFree, RefCountExact, Refs
  <2> QED
    BY <2>1, <2>2, <2>3, <2>4, <2>5, <2>6, <2>7, <2>8 DEF IInv
<1> QED
  BY <1>1, <1>2 DEF Next

(* The inductive invariant: what every thread may rely on between two of   *)
(* its critical sections, for any number of processes, pages and addresses. *)
THEOREM Invariance == Spec => []IInv
  BY InitInvariant, StepInvariant, PTL DEF Spec

(* Every variable keeps its type. *)
THEOREM TypeCorrectness == Spec => []TypeOK
<1>1. IInv => TypeOK
  BY DEF IInv
<1> QED
  BY <1>1, Invariance, PTL

(* kmem.refarray counts the references to every allocated page, although   *)
(* mapping a page and counting the mapping are separate steps (vm.c:       *)
(* uvmcopy, kalloc.c: incref, kfree).                                      *)
THEOREM RefCounting == Spec => []RefCountExact
<1>1. IInv => RefCountExact
  BY DEF IInv
<1> QED
  BY <1>1, Invariance, PTL

(* No reference to a page on the free list remains, whatever order         *)
(* processes fork, fault, copy out, shrink and are reaped in (kalloc.c:    *)
(* kfree).                                                                 *)
THEOREM UseAfterFreeFreedom == Spec => []NoUseAfterFree
<1>1. IInv => NoUseAfterFree
  BY DEF IInv
<1> QED
  BY <1>1, Invariance, PTL

(* A page one process can write is mapped by nobody else: the copy-on-write *)
(* branches of usertrap() and copyout() never set PTE_W too early.         *)
THEOREM WriteExclusion == Spec => []WritableExclusive
<1>1. IInv => WritableExclusive
  <2> SUFFICES ASSUME IInv, NEW s \in writable, NEW t \in Slot, slot[s] = slot[t]
               PROVE  s = t
    BY DEF WritableExclusive
  <2>1. s \in Slot /\ Mapped(s) /\ s \notin cow /\ s[2] \in MemKey
    BY DEF IInv, FlagInv, TypeOK, PteTypeOK
  <2>2. s \notin Sharable
    BY <2>1, KeyFacts DEF Sharable
  <2> QED
    BY <2>1, <2>2 DEF IInv, SharingInv
<1> QED
  BY <1>1, Invariance, PTL

(* The panics of uvmunmap(), freewalk(), mappages() and uvmcopy() are      *)
(* unreachable (vm.c).                                                     *)
THEOREM PanicFreedom == Spec => []NoPanic
<1>1. IInv => NoPanic
  <2> SUFFICES ASSUME IInv, NEW p \in Proc
               PROVE  /\ \A s \in todo[p] : Mapped(s)
                      /\ \A s \in todo[p], v \in VA :
                             s[2] = Root /\ Mapped(<<s[1], Mem(v)>>) =>
                                 <<s[1], Mem(v)>> \in todo[p]
                      /\ pc[p] = "growmap" => ~Mapped(Here(p))
                      /\ pc[p] = "uvmcopy" /\ va[p] < sz[p] =>
                             Mapped(Here(p)) /\ ~Mapped(Child(p))
    BY DEF NoPanic
  <2>t. TypeOK /\ LocalsInv /\ TargetInv /\ TodoInv
    BY DEF IInv
  <2>l. LocalsAt(p) /\ TodoAt(p) /\ tgt[p] \in Proc
    BY <2>t DEF LocalsInv, TodoInv, TypeOK, ThreadTypeOK, LocalsTypeOK
  <2>1. \A s \in todo[p] : Mapped(s)
    BY <2>l DEF TodoAt
  <2>2. ASSUME NEW s \in todo[p], NEW v \in VA, s[2] = Root,
               Mapped(<<s[1], Mem(v)>>)
        PROVE  <<s[1], Mem(v)>> \in todo[p]
    <3>1. ret[p] = "freeproc"
      <4>1. \A c \in Proc, a, b \in 0 .. MaxVA : s \notin MemSlots(c, a, b)
        BY <2>2, MemSlotsFacts, SlotFacts, KeyFacts
      <4>2. /\ sz[p] \in 0 .. MaxVA /\ lim[p] \in 0 .. MaxVA
            /\ MaxVA \in 0 .. MaxVA /\ 0 \in 0 .. MaxVA
        BY <2>t, AddressAssumption
           DEF TypeOK, TableTypeOK, ThreadTypeOK, LocalsTypeOK
      <4>3. s # <<p, Hand>>
        BY <2>2, SlotFacts, KeyFacts
      <4>4. ret[p] # "none" /\ ret[p] \in Reason
        BY <2>t, <2>l, TodoOwner
           DEF LocalsAt, Freeing, Forking, Growing, TypeOK, ThreadTypeOK,
               LocalsTypeOK
      <4> QED
        BY <2>l, <4>1, <4>2, <4>3, <4>4 DEF TodoAt, Reason
    <3>2. s[1] = tgt[p]
      BY <2>l, <3>1 DEF TodoAt
    <3> QED
      BY <2>2, <3>1, <3>2, KeyFacts DEF IInv, MappingInv
  <2>3. ASSUME pc[p] = "growmap" PROVE ~Mapped(Here(p))
    <3>1. /\ va[p] \in VA /\ ret[p] = "none" /\ sz[p] <= va[p] /\ todo[p] = {}
          /\ state[p] = "RUNNABLE"
      BY <2>t, <2>l, <2>3, StepBounds, HereFacts
         DEF LocalsAt, TodoAt, TargetInv, Growing, Freeing
    <3>2. va[p] \in Int /\ sz[p] \in Int
      BY <2>t, AddressAssumption
         DEF TypeOK, TableTypeOK, ThreadTypeOK, LocalsTypeOK
    <3>3. ~RunningHas(p, va[p])
      BY <3>1, <3>2 DEF RunningHas, VisibleSz
    <3> QED
      BY <3>1, <3>3 DEF Here, IInv, MappingInv, HasPage
  <2>4. ASSUME pc[p] = "uvmcopy", va[p] < sz[p]
        PROVE  Mapped(Here(p)) /\ ~Mapped(Child(p))
    <3>1. /\ va[p] \in VA /\ ret[p] = "none" /\ todo[p] = {}
          /\ state[p] = "RUNNABLE" /\ tgt[p] # p
      BY <2>t, <2>l, <2>4, StepBounds, HereFacts
         DEF LocalsAt, TodoAt, TargetInv, Forking, Freeing
    <3>2. Mapped(Here(p))
      BY <2>4, <3>1, MappedMemory DEF VisibleSz, Here
    <3>3. state[tgt[p]] = "USED"
          /\ \A q \in Proc : tgt[q] = tgt[p] /\ q # tgt[p] => q = p
      BY <2>t, <2>l, <2>4, <3>1, TargetFacts DEF TargetInv, TargetAt, Forking
    <3>4. ~EmbryoHas(tgt[p], va[p])
      <4>1. va[p] \in Int
        BY <3>1, AddressAssumption DEF VA
      <4> QED
        BY <2>4, <3>1, <3>3, <4>1 DEF EmbryoHas
    <3> QED
      BY <2>l, <3>1, <3>2, <3>3, <3>4 DEF Child, IInv, MappingInv, HasPage
  <2> QED
    BY <2>1, <2>2, <2>3, <2>4
<1> QED
  BY <1>1, Invariance, PTL

(***************************************************************************)
(* What the invariant is for: no page is lost, and the memory of each      *)
(* process is its own, as PrivateMemory says.                              *)
(***************************************************************************)
(* Which pages a step writes, by the reference they are reached through.   *)
LEMMA ContentFrame ==
    ASSUME IInv, NEW p \in Proc, UserStep(p) \/ KernelStep(p),
           NEW s \in Slot, Mapped(s)
    PROVE  \/ content'[slot[s]] = content[slot[s]]
           \/ UserStore(p) /\ s \in writable /\ s[1] = p
           \/ Deliver(p) /\ s = Here(p)
           \/ CopyPage(p) /\ s = <<p, Hand>>
           \/ PushPage(p) /\ s = at[p]
<1>t. TypeOK /\ LocalsInv /\ TargetInv /\ TodoInv
  BY DEF IInv
<1>y. /\ content \in [Page -> Value \cup {Junk}] /\ slot[s] \in Page \ freelist
      /\ freelist \subseteq Page
  BY <1>t DEF TypeOK, KallocTypeOK, PteTypeOK, Mapped, IInv, NoUseAfterFree
<1>k. ASSUME NEW g, NEW x, Kalloc(g, x) PROVE content'[slot[s]] = content[slot[s]]
  BY <1>k, <1>y, CandidatesAssumption DEF Kalloc
<1>x. ASSUME NEW t \in Slot, NEW x, Mapped(t), t \notin Sharable,
             content' = [content EXCEPT ![slot[t]] = x], t # s
      PROVE  content'[slot[s]] = content[slot[s]]
  <2>1. slot[t] # slot[s]
    BY <1>x DEF IInv, SharingInv
  <2> QED
    BY <1>x, <1>y, <2>1
<1>w. \A t \in writable : t \in Slot /\ Mapped(t) /\ t \notin Sharable /\ t[2] \in MemKey
  BY <1>t, KeyFacts DEF IInv, FlagInv, TypeOK, PteTypeOK, Sharable
<1>u. UNCHANGED kmem => content'[slot[s]] = content[slot[s]]
  BY DEF kmem
<1>1. CASE UserStore(p)
  <2>1. PICK v \in VA, x \in Value :
           <<p, Mem(v)>> \in writable /\ StorePage(slot[<<p, Mem(v)>>], x)
    BY <1>1 DEF UserStore
  <2>2. <<p, Mem(v)>>[1] = p
    OBVIOUS
  <2> QED
    BY <1>1, <1>w, <1>x, <2>1, <2>2 DEF StorePage
<1>6. CASE AllocCopy(p)
  BY <1>6, <1>k DEF AllocCopy
<1>8. CASE CopyPage(p)
  <2>1. <<p, Hand>> \in Slot /\ Mapped(<<p, Hand>>) /\ <<p, Hand>> \notin Sharable
    BY <1>8, Exchange
  <2> QED
    BY <1>8, <1>x, <2>1 DEF CopyPage, StorePage
<1>11. CASE Deliver(p)
  <2>1. Here(p) \in writable
    BY <1>11 DEF Deliver, IInv, FlagInv
  <2> QED
    BY <1>11, <1>w, <1>x, <2>1 DEF Deliver, StorePage
<1>14. CASE PushPage(p)
  <2>1. Exclusive(at[p])
    BY <1>14 DEF PushPage, IInv, SharingInv
  <2>2. s # at[p] => slot[s] # slot[at[p]]
    BY <2>1 DEF Exclusive
  <2> QED
    BY <1>14, <1>y, <2>2 DEF PushPage, KfreePush
<1>19. CASE Fork(p)
  BY <1>19, <1>k DEF Fork
<1>20. CASE AllocRoot(p)
  BY <1>20, <1>k, <1>u DEF AllocRoot, KallocFails
<1>21. CASE WalkAlloc(p)
  BY <1>21, <1>k DEF WalkAlloc
<1>27. CASE GrowAlloc(p)
  BY <1>27, <1>k, <1>u DEF GrowAlloc, KallocFails
<1>2. CASE CowFault(p) \/ BadAccess(p) \/ ReadRef(p) \/ ReusePage(p) \/ AllocCopyFails(p)
  BY <1>2, <1>u DEF CowFault, BadAccess, ReadRef, ReusePage, AllocCopyFails, KallocFails
<1>3. CASE Copyout(p) \/ CopyoutPage(p) \/ CopyoutDone(p) \/ CopyDone(p) \/ ResizeDone(p)
  BY <1>3, <1>u DEF Copyout, CopyoutPage, CopyoutDone, CopyDone, ResizeDone
<1>4. CASE UncopyDone(p) \/ FreeprocDone(p) \/ ShareMapping(p) \/ UvmcopyFails(p)
           \/ ForkDone(p)
  BY <1>4, <1>u DEF UncopyDone, FreeprocDone, ShareMapping, UvmcopyFails, ForkDone, KallocFails
<1>5. CASE Grow(p) \/ GrowMap(p) \/ GrowMapFails(p) \/ GrowDone(p) \/ Shrink(p)
  BY <1>5, <1>u DEF Grow, GrowMap, GrowMapFails, GrowDone, Shrink, KallocFails
<1>7. CASE Exit(p) \/ Wait(p) \/ WaitReap(p)
  BY <1>7, <1>u DEF Exit, Wait, WaitReap
<1>9. CASE DropReference(p) \/ CountMapping(p)
  BY <1>9 DEF DropReference, KfreeDec, CountMapping, Incref
<1> QED
  BY <1>1, <1>2, <1>3, <1>4, <1>5, <1>6, <1>7, <1>8, <1>9, <1>11, <1>14, <1>19,
     <1>20, <1>21, <1>27
     DEF UserStep, KernelStep

(* The datum a slot of user memory refers to. *)
Data(s) == content[slot[s]]

(* User memory that a step neither frees nor stores to keeps its datum.    *)
LEMMA Undisturbed ==
    ASSUME IInv, NEW p \in Proc, UserStep(p) \/ KernelStep(p),
           NEW s \in Slot, s[2] \in MemKey, Mapped(s)
    PROVE  \/ Mapped(s)' /\ Data(s)' = Data(s)
           \/ ~Mapped(s)' /\ s \in todo[p] /\ (DropReference(p) \/ PushPage(p))
           \/ UserStore(p) /\ s \in writable /\ s[1] = p
           \/ Deliver(p) /\ s = Here(p)
<1>t. TypeOK /\ LocalsInv /\ TargetInv /\ TodoInv
  BY DEF IInv
<1>k. s # <<p, Hand>> /\ \A c \in Proc : s # <<c, Trapframe>> /\ s # <<c, Root>>
  BY KeyFacts, SlotFacts
<1>g. tgt[p] \in Proc /\ (Fork(p) => tgt'[p] \in Proc)
  BY <1>t DEF Fork, Locals, TypeOK, ThreadTypeOK, LocalsTypeOK
<1>w. WalkAlloc(p) => s # TableSlot(p)
  <2>1. ASSUME WalkAlloc(p) PROVE TableSlot(p)[2] \in TableKey
    <3>1. va[p] \in VA
      BY <1>t, <2>1, StepBounds, HereFacts DEF WalkAlloc
    <3> QED
      BY <1>g, <3>1, AddressAssumption, KeyFacts, SlotFacts DEF TableSlot
  <2> QED
    BY <2>1, KeyFacts
<1>1. CASE slot'[s] = slot[s]
  <2>1. ASSUME PushPage(p) PROVE s # at[p]
    <3>1. slot'[at[p]] = NoPage
      BY <1>t, <2>1, AtFacts DEF PushPage, ClearSlot, TodoInv, TodoAt, TypeOK,
         PteTypeOK, ThreadTypeOK
    <3> QED
      BY <1>1, <3>1 DEF Mapped
  <2> QED
    BY <1>1, <1>k, <2>1, ContentFrame DEF Mapped, Data
<1>2. CASE CopyPage(p) /\ s = Here(p)
  <2>1. <<p, Hand>> \in Slot /\ Here(p) # <<p, Hand>> /\ Mapped(<<p, Hand>>)
    BY <1>2, Exchange
  <2>2. slot'[s] = slot[<<p, Hand>>] /\ content'[slot[<<p, Hand>>]] = content[slot[s]]
    BY <1>t, <1>2, <2>1
       DEF CopyPage, StorePage, TypeOK, KallocTypeOK, PteTypeOK, Mapped
  <2> QED
    BY <2>1, <2>2 DEF Mapped, Data
<1>3. CASE GrowMap(p) /\ s = Here(p)
  BY <1>3, Exchange
<1>4. CASE ShareMapping(p) /\ s = Child(p)
  BY <1>4, Sharing
<1>5. CASE (DropReference(p) \/ PushPage(p)) /\ s \in todo[p] /\ slot'[s] = NoPage
  BY <1>5 DEF Mapped
<1> QED
  BY <1>1, <1>2, <1>3, <1>4, <1>5, <1>k, <1>g, <1>w, SlotEffect

(* Every page off the free list stays in some slot.                        *)
LEMMA HeldStep ==
    ASSUME IInv, HeldInv, NEW p \in Proc, UserStep(p) \/ KernelStep(p)
    PROVE  HeldInv'
<1> SUFFICES ASSUME NEW g \in Page \ freelist' PROVE \E s \in Slot : slot'[s] = g
  BY DEF HeldInv
<1>t. TypeOK /\ LocalsInv /\ TodoInv
  BY DEF IInv
<1>y. slot \in [Slot -> Page \cup {NoPage}] /\ g # NoPage
  BY <1>t, ProcAssumption DEF TypeOK, PteTypeOK
<1>1. CASE UNCHANGED <<freelist, slot>>
  BY <1>1 DEF HeldInv
<1>2. CASE \E h \in Page, u \in Slot : Fresh(p, h, u)
  BY <1>y, <1>2 DEF Fresh, HeldInv, Mapped
<1>3. CASE CopyPage(p) \/ GrowMap(p)
  <2>1. PICK t \in Slot : slot[t] = g
    BY <1>3, Exchange DEF HeldInv
  <2>2. /\ Here(p) \in Slot /\ <<p, Hand>> \in Slot /\ Here(p) # <<p, Hand>>
        /\ GrowMap(p) => slot[Here(p)] = NoPage
    BY <1>3, Exchange DEF Mapped
  <2>3. \/ slot' = [slot EXCEPT ![Here(p)] = slot[<<p, Hand>>],
                                ![<<p, Hand>>] = slot[Here(p)]]
        \/ slot' = [slot EXCEPT ![Here(p)] = slot[<<p, Hand>>],
                                ![<<p, Hand>>] = NoPage] /\ GrowMap(p)
    BY <1>3 DEF CopyPage, GrowMap
  <2> QED
    BY <1>y, <2>1, <2>2, <2>3
<1>4. CASE ShareMapping(p)
  <2>1. PICK t \in Slot : slot[t] = g
    BY <1>4, Sharing DEF HeldInv, kmem
  <2>2. slot'[t] = g
    BY <1>y, <1>4, <2>1, Sharing DEF ShareMapping, Mapped
  <2> QED
    BY <2>2
<1>5. CASE DropReference(p)
  <2>1. PICK s \in Slot :
           /\ NextToFree(p, s) /\ KfreeDec(slot[s])
           /\ IF StillReferenced(slot[s]) THEN ClearSlot(p, s) ELSE UNCHANGED pte
    BY <1>5 DEF DropReference
  <2>2. PICK t \in Slot : slot[t] = g
    BY <2>1 DEF HeldInv, KfreeDec
  <2>3. CASE ~StillReferenced(slot[s])
    BY <2>1, <2>2, <2>3 DEF pte
  <2>4. CASE StillReferenced(slot[s])
    <3>1. slot' = [slot EXCEPT ![s] = NoPage]
      BY <2>1, <2>4 DEF ClearSlot
    <3>2. CASE slot[s] # g
      BY <1>y, <2>2, <3>1, <3>2
    <3>3. CASE slot[s] = g
      <4>1. g \in Page \ freelist /\ refarray[g] \in Int /\ refarray[g] > 1
        BY <1>t, <2>1, <2>4, <3>3
           DEF StillReferenced, TypeOK, KallocTypeOK, KfreeDec
      <4>2. Cardinality(Refs(g)) > 1
        BY <4>1 DEF IInv, RefCountExact
      <4>3. Cardinality(Refs(g) \ {s}) # 0
        <5>1. IsFiniteSet(Refs(g)) /\ Cardinality(Refs(g)) \in Nat
          BY RefsFinite, FS_CardinalityType
        <5>2. CASE s \in Refs(g)
          <6>1. Cardinality(Refs(g) \ {s}) = Cardinality(Refs(g)) - 1
            BY <5>1, <5>2, OneLess
          <6> QED
            BY <4>2, <5>1, <6>1
        <5>3. CASE s \notin Refs(g)
          <6>1. Refs(g) \ {s} = Refs(g)
            BY <5>3
          <6> QED
            BY <4>2, <5>1, <6>1
        <5> QED
          BY <5>2, <5>3
      <4>4. PICK u \in Refs(g) : u # s
        BY <4>3, FS_EmptySet
      <4> QED
        BY <1>y, <3>1, <4>4 DEF Refs
    <3> QED
      BY <3>2, <3>3
  <2> QED
    BY <2>3, <2>4
<1>6. CASE PushPage(p)
  <2>1. /\ freelist' = freelist \cup {slot[at[p]]}
        /\ slot' = [slot EXCEPT ![at[p]] = NoPage]
    BY <1>6 DEF PushPage, KfreePush, ClearSlot
  <2>2. PICK t \in Slot : slot[t] = g
    BY <2>1 DEF HeldInv
  <2> QED
    BY <1>y, <2>1, <2>2
<1>7. CASE CountMapping(p) \/ ReusePage(p)
  BY <1>1, <1>7 DEF CountMapping, Incref, pte, ReusePage, kmem
<1> QED
  BY <1>1, <1>2, <1>3, <1>4, <1>5, <1>6, <1>7, Effects

(* Which steps lead to the loops of uvmalloc() and uvmcopy().              *)
LEMMA LoopSteps ==
    ASSUME IInv, NEW p \in Proc, UserStep(p) \/ KernelStep(p)
    PROVE  /\ pc'[p] \in Growing =>
                  Grow(p) \/ GrowAlloc(p) \/ GrowMap(p) \/ WalkAlloc(p)
           /\ pc'[p] \in {"uvmcopy", "incref"} =>
                  \/ AllocRoot(p) \/ WalkAlloc(p) \/ ShareMapping(p)
                  \/ CountMapping(p)
<1>t. pc \in [Proc -> Location]
  BY DEF IInv, TypeOK, ThreadTypeOK
<1> USE DEF Growing
<1>1. CASE UserStep(p)
  <2>1. CASE UserStore(p) \/ CowFault(p) \/ BadAccess(p) \/ Copyout(p) \/ Fork(p)
             \/ Shrink(p) \/ Exit(p)
    BY <1>t, <2>1 DEF UserStore, CowFault, BadAccess, Copyout, Fork, Shrink, Exit, Goto
  <2>2. CASE Wait(p)
    BY <1>t, <2>2 DEF Wait, Goto
  <2>3. CASE Grow(p)
    BY <1>t, <2>3 DEF Grow, Goto
  <2> QED
    BY <1>1, <2>1, <2>2, <2>3 DEF UserStep
<1>2. CASE ReadRef(p) \/ ReusePage(p) \/ AllocCopy(p) \/ AllocCopyFails(p) \/ CopyPage(p)
  BY <1>t, <1>2 DEF ReadRef, ReusePage, AllocCopy, AllocCopyFails, Fail, CopyPage,
     Return, Goto
<1>3. CASE CopyoutPage(p) \/ Deliver(p) \/ CopyoutDone(p) \/ CopyDone(p)
  BY <1>t, <1>3 DEF CopyoutPage, Deliver, CopyoutDone, CopyDone, Fail, Return, Goto
<1>4. CASE DropReference(p) \/ PushPage(p)
  BY <1>t, <1>4 DEF DropReference, PushPage, Goto
<1>5. CASE ResizeDone(p) \/ UncopyDone(p) \/ FreeprocDone(p)
  BY <1>t, <1>5 DEF ResizeDone, UncopyDone, FreeprocDone, Return, Goto
<1>6. CASE UvmcopyFails(p) \/ GrowMapFails(p) \/ GrowDone(p) \/ WaitReap(p)
  BY <1>t, <1>6 DEF UvmcopyFails, GrowMapFails, GrowDone, WaitReap, Return, Goto
<1>7. CASE ForkDone(p)
  BY <1>t, <1>7 DEF ForkDone
<1>8. CASE AllocRoot(p) \/ ShareMapping(p) \/ CountMapping(p) \/ GrowAlloc(p) \/ GrowMap(p)
  BY <1>t, <1>8 DEF AllocRoot, ShareMapping, CountMapping, GrowAlloc, GrowMap, Goto
<1>9. CASE WalkAlloc(p)
  BY <1>9
<1> QED
  BY <1>1, <1>2, <1>3, <1>4, <1>5, <1>6, <1>7, <1>8, <1>9 DEF KernelStep

(* The two steps that map a page of user memory.                           *)
LEMMA NewMemory ==
    ASSUME IInv, NEW p \in Proc, UserStep(p) \/ KernelStep(p),
           NEW s \in Slot, s[2] \in MemKey, ~Mapped(s), Mapped(s)'
    PROVE  /\ \/ GrowMap(p) /\ s = Here(p) /\ slot'[s] = slot[<<p, Hand>>]
              \/ ShareMapping(p) /\ s = Child(p) /\ slot'[s] = slot[Here(p)]
           /\ UNCHANGED kmem
<1>t. TypeOK /\ LocalsInv
  BY DEF IInv
<1>y. slot \in [Slot -> Page \cup {NoPage}]
  BY <1>t DEF TypeOK, PteTypeOK
<1>k. s # <<p, Hand>> /\ \A c \in Proc : s # <<c, Trapframe>> /\ s # <<c, Root>>
  BY KeyFacts, SlotFacts
<1>g. tgt[p] \in Proc /\ (Fork(p) => tgt'[p] \in Proc)
  BY <1>t DEF Fork, Locals, TypeOK, ThreadTypeOK, LocalsTypeOK
<1>w. WalkAlloc(p) => s # TableSlot(p)
  <2>1. ASSUME WalkAlloc(p) PROVE TableSlot(p)[2] \in TableKey
    <3>1. va[p] \in VA
      BY <1>t, <2>1, StepBounds, HereFacts DEF WalkAlloc
    <3> QED
      BY <1>g, <3>1, AddressAssumption, KeyFacts, SlotFacts DEF TableSlot
  <2> QED
    BY <2>1, KeyFacts
<1>1. slot'[s] # slot[s] /\ slot'[s] # NoPage
  BY DEF Mapped
<1>2. ~(CopyPage(p) /\ s = Here(p))
  BY Exchange
<1>3. \/ GrowMap(p) /\ s = Here(p)
      \/ ShareMapping(p) /\ s = Child(p)
  BY <1>1, <1>2, <1>k, <1>g, <1>w, SlotEffect
<1>4. CASE GrowMap(p) /\ s = Here(p)
  BY <1>y, <1>k, <1>4 DEF GrowMap
<1>5. CASE ShareMapping(p) /\ s = Child(p)
  BY <1>y, <1>5 DEF ShareMapping
<1> QED
  BY <1>3, <1>4, <1>5

(* The memory of a process that runs is not touched by another's step.     *)
LEMMA OthersMemory ==
    ASSUME IInv, NEW p \in Proc, UserStep(p) \/ KernelStep(p),
           NEW q \in Proc, q # p, pc[q] # "off"
    PROVE  /\ q # tgt[p] /\ state[q] = "RUNNABLE"
           /\ \A k \in Key : slot'[<<q, k>>] = slot[<<q, k>>]
           /\ \A k \in Key : Mapped(<<q, k>>) => Data(<<q, k>>)' = Data(<<q, k>>)
           /\ pc'[q] = pc[q] /\ sz'[q] = sz[q] /\ va'[q] = va[q] /\ tgt'[q] = tgt[q]
           /\ ret'[q] = ret[q] /\ lim'[q] = lim[q] /\ state'[q] = state[q]
<1>t. TypeOK /\ LocalsInv /\ TargetInv /\ TodoInv
  BY DEF IInv
<1>1. q # tgt[p] /\ state[q] = "RUNNABLE"
  BY <1>t, TargetFacts DEF TargetInv
<1>2. \A k \in Key : slot'[<<q, k>>] = slot[<<q, k>>]
  BY <1>1, SlotFrame
<1>3. ASSUME NEW k \in Key, Mapped(<<q, k>>) PROVE Data(<<q, k>>)' = Data(<<q, k>>)
  <2>1. <<q, k>> \in Slot /\ <<q, k>>[1] = q /\ <<q, k>> # Here(p)
        /\ <<q, k>> # <<p, Hand>>
    BY SlotFacts DEF Here
  <2>2. PushPage(p) => <<q, k>> # at[p]
    <3>1. ASSUME PushPage(p) PROVE at[p] # NoSlot
      <4>1. at[p] \in todo[p]
        BY <1>t, <3>1 DEF PushPage, TodoInv, TodoAt
      <4> QED
        BY <1>t, <4>1, ProcAssumption DEF TypeOK, ThreadTypeOK
    <3> QED
      BY <1>1, <2>1, <3>1, AtFacts
  <2>3. content'[slot[<<q, k>>]] = content[slot[<<q, k>>]]
    BY <1>3, <2>1, <2>2, ContentFrame
  <2> QED
    BY <1>2, <2>3 DEF Data
<1>4. pc'[q] = pc[q] /\ va'[q] = va[q] /\ tgt'[q] = tgt[q] /\ ret'[q] = ret[q]
      /\ lim'[q] = lim[q]
  BY <1>t, <1>1, Frame
<1>5. sz'[q] = sz[q] /\ state'[q] = state[q]
  BY <1>t, <1>1, TableFrame
<1> QED
  BY <1>1, <1>2, <1>3, <1>4, <1>5

(* User memory goes on holding data, and fresh memory zeros.               *)
LEMMA DataStep ==
    ASSUME IInv, DataInv, NEW p \in Proc, UserStep(p) \/ KernelStep(p)
    PROVE  DataInv'
<1>t. TypeOK /\ LocalsInv /\ TargetInv /\ TodoInv
  BY DEF IInv
<1>y. /\ slot \in [Slot -> Page \cup {NoPage}] /\ NoPage \notin Page
      /\ content \in [Page -> Value \cup {Junk}] /\ Zero \in Value
      /\ val[p] \in Value
  BY <1>t, ProcAssumption, ValueAssumption
     DEF TypeOK, PteTypeOK, KallocTypeOK, ThreadTypeOK, LocalsTypeOK
<1>h. pc[p] = "growmap" => Mapped(<<p, Hand>>)
  BY DEF IInv, MappingInv
<1>1. ASSUME NEW q \in Proc, NEW v \in VA, Mapped(<<q, Mem(v)>>)'
      PROVE  Data(<<q, Mem(v)>>)' \in Value
  <2> DEFINE s == <<q, Mem(v)>>
  <2>s. s \in Slot /\ s[2] \in MemKey
    BY KeyFacts, SlotFacts
  <2>1. CASE Mapped(s)
    <3>0. Data(s) \in Value /\ slot[s] \in Page
      BY <1>y, <2>s, <2>1 DEF DataInv, Data, Mapped
    <3>1. CASE UserStore(p)
      <4>1. PICK w \in VA, x \in Value :
               /\ content' = [content EXCEPT ![slot[<<p, Mem(w)>>]] = x]
               /\ UNCHANGED slot
        BY <3>1 DEF UserStore, StorePage, pte
      <4> QED
        BY <1>y, <3>0, <4>1 DEF Data
    <3>2. CASE Deliver(p)
      BY <1>y, <3>0, <3>2 DEF Deliver, StorePage, pte, Data
    <3> QED
      BY <1>1, <2>1, <2>s, <3>0, <3>1, <3>2, Undisturbed
  <2>2. CASE ~Mapped(s)
    <3>1. \/ GrowMap(p) /\ s = Here(p) /\ slot'[s] = slot[<<p, Hand>>]
          \/ ShareMapping(p) /\ s = Child(p) /\ slot'[s] = slot[Here(p)]
      BY <1>1, <2>2, <2>s, NewMemory
    <3>c. content' = content
      BY <1>1, <2>2, <2>s, NewMemory DEF kmem
    <3>2. CASE GrowMap(p) /\ slot'[s] = slot[<<p, Hand>>]
      BY <1>y, <3>2, <3>c DEF GrowMap, DataInv, Data
    <3>3. CASE ShareMapping(p) /\ slot'[s] = slot[Here(p)]
      <4>1. va[p] \in VA /\ Mapped(Here(p))
        BY <3>3, Sharing
      <4> QED
        BY <3>3, <3>c, <4>1 DEF DataInv, Data, Here
    <3> QED
      BY <3>1, <3>2, <3>3
  <2> QED
    BY <2>1, <2>2
<1>2. ASSUME NEW q \in Proc, pc'[q] = "growmap" PROVE Data(<<q, Hand>>)' = Zero
  <2>1. CASE q # p
    <3>1. pc[q] # "off" /\ pc[q] = "growmap"
      BY <1>t, <1>2, <2>1, Frame, OthersMemory DEF ForkDone, TypeOK, ThreadTypeOK
    <3> QED
      BY <2>1, <3>1, OthersMemory, KeyFacts DEF DataInv, Data, IInv, MappingInv
  <2>2. CASE q = p /\ GrowAlloc(p)
    <3>1. PICK g \in Page : Kalloc(g, Zero) /\ slot' = [slot EXCEPT ![<<p, Hand>>] = g]
      BY <1>t, <1>2, <2>2 DEF GrowAlloc, Goto, TypeOK, ThreadTypeOK
    <3>2. slot'[<<p, Hand>>] = g /\ content'[g] = Zero
      BY <1>y, <3>1, SlotFacts, KeyFacts DEF Kalloc
    <3> QED
      BY <2>2, <3>2 DEF Data
  <2>3. CASE q = p /\ WalkAlloc(p)
    <3>1. pc[p] = "growmap"
      BY <1>2, <2>3 DEF WalkAlloc
    <3>2. /\ va[p] \in VA /\ <<p, Hand>> \in Slot /\ TableSlot(p) \in Slot
          /\ TableSlot(p) # <<p, Hand>>
      <4>1. va[p] \in VA /\ tgt[p] \in Proc
        BY <1>t, <3>1, StepBounds, HereFacts DEF TypeOK, ThreadTypeOK, LocalsTypeOK
      <4> QED
        BY <4>1, AddressAssumption, KeyFacts, SlotFacts DEF TableSlot
    <3>3. slot'[<<p, Hand>>] = slot[<<p, Hand>>]
      BY <1>y, <2>3, <3>2 DEF WalkAlloc
    <3>4. content'[slot[<<p, Hand>>]] = content[slot[<<p, Hand>>]]
      BY <1>h, <3>1, <3>2, ContentFrame DEF UserStore, Deliver, CopyPage, PushPage
    <3> QED
      BY <2>3, <3>1, <3>3, <3>4 DEF DataInv, Data
  <2>4. CASE q = p /\ (Grow(p) \/ GrowMap(p))
    BY <1>t, <1>2, <2>4 DEF Grow, GrowMap, Goto, TypeOK, ThreadTypeOK
  <2> QED
    BY <1>2, <2>1, <2>2, <2>3, <2>4, LoopSteps DEF Growing
<1>3. ASSUME NEW q \in Proc, pc'[q] \in Growing, NEW v \in sz'[q] .. va'[q] - 1
      PROVE  Data(<<q, Mem(v)>>)' = Zero
  <2>t. \A r \in Proc : sz[r] \in 0 .. MaxVA /\ va[r] \in 0 .. MaxVA /\ lim[r] \in 0 .. MaxVA
    BY <1>t DEF TypeOK, TableTypeOK, ThreadTypeOK, LocalsTypeOK
  <2>m. ASSUME NEW w \in sz[q] .. va[q] - 1, pc[q] \in Growing
        PROVE  /\ w \in VA /\ <<q, Mem(w)>> \in Slot /\ <<q, Mem(w)>>[2] \in MemKey
               /\ Mapped(<<q, Mem(w)>>) /\ Data(<<q, Mem(w)>>) = Zero
    <3>1. w \in VA /\ w < va[q]
      BY <2>t, <2>m, AddressAssumption DEF VA
    <3>2. state[q] = "RUNNABLE"
      BY <1>t, <2>m DEF TargetInv, Growing
    <3> QED
      BY <2>m, <3>1, <3>2, MappedMemory, SlotFacts, KeyFacts DEF DataInv, Data
  <2>1. CASE q # p
    <3>1. pc[q] # "off" /\ pc[q] \in Growing
      BY <1>t, <1>3, <2>1, Frame, OthersMemory
         DEF ForkDone, TypeOK, ThreadTypeOK, Growing
    <3>2. v \in sz[q] .. va[q] - 1
      BY <1>3, <2>1, <3>1, OthersMemory
    <3> QED
      BY <2>1, <2>m, <3>1, <3>2, OthersMemory, KeyFacts
  <2>k. ASSUME q = p, pc[p] \in Growing, NEW w \in sz[p] .. va[p] - 1
        PROVE  Data(<<p, Mem(w)>>)' = Zero
    <3>1. todo[p] = {}
      BY <1>t, <2>k DEF TodoInv, TodoAt, Growing, Freeing
    <3> QED
      BY <2>k, <2>m, <3>1, Undisturbed DEF Growing, UserStore, Deliver
  <2>2. CASE q = p /\ Grow(p)
    <3>1. sz'[p] = sz[p] /\ va'[p] = sz[p]
      BY <1>t, <2>2 DEF Grow, Locals, table, TypeOK, ThreadTypeOK, LocalsTypeOK
    <3> QED
      BY <1>3, <2>2, <2>t, <3>1, AddressAssumption
  <2>3. CASE q = p /\ (GrowAlloc(p) \/ WalkAlloc(p))
    <3>1. sz'[p] = sz[p] /\ va'[p] = va[p] /\ pc[p] \in Growing
      BY <1>3, <2>3 DEF GrowAlloc, WalkAlloc, table, locals, Growing
    <3> QED
      BY <1>3, <2>3, <2>k, <3>1
  <2>4. CASE q = p /\ GrowMap(p)
    <3>1. sz'[p] = sz[p] /\ va'[p] = va[p] + 1 /\ pc[p] = "growmap" /\ content' = content
      BY <1>t, <2>4 DEF GrowMap, table, TypeOK, ThreadTypeOK, LocalsTypeOK, kmem
    <3>2. CASE v = va[p]
      <4>1. slot'[Here(p)] = slot[<<p, Hand>>]
        BY <1>y, <2>4, Exchange DEF GrowMap
      <4> QED
        BY <2>4, <3>1, <3>2, <4>1 DEF Data, DataInv, Here
    <3>3. CASE v # va[p]
      <4>1. v \in sz[p] .. va[p] - 1
        BY <1>3, <2>4, <2>t, <3>1, <3>3, AddressAssumption
      <4> QED
        BY <2>4, <2>k, <3>1, <4>1 DEF Growing
    <3> QED
      BY <3>2, <3>3
  <2> QED
    BY <1>3, <2>1, <2>2, <2>3, <2>4, LoopSteps
<1> QED
  BY <1>1, <1>2, <1>3 DEF DataInv, Data

(* The child's copy keeps pace with the parent's memory.                   *)
LEMMA CopiedStep ==
    ASSUME IInv, CopiedInv, NEW p \in Proc, UserStep(p) \/ KernelStep(p)
    PROVE  CopiedInv'
<1> SUFFICES ASSUME NEW q \in Proc, pc'[q] \in {"uvmcopy", "incref"},
                    NEW v \in 0 .. va'[q] - 1
             PROVE  slot'[<<tgt'[q], Mem(v)>>] = slot'[<<q, Mem(v)>>]
  BY DEF CopiedInv
<1>t. TypeOK /\ LocalsInv /\ TargetInv /\ TodoInv
  BY DEF IInv
<1>y. /\ slot \in [Slot -> Page \cup {NoPage}]
      /\ \A r \in Proc : tgt[r] \in Proc /\ va[r] \in 0 .. MaxVA
  BY <1>t DEF TypeOK, PteTypeOK, ThreadTypeOK, LocalsTypeOK
<1>m. \A r \in Proc : \A w \in 0 .. va[r] - 1 : w \in VA /\ Mem(w) \in Key
  BY <1>y, AddressAssumption, KeyFacts DEF VA
<1>1. CASE q # p
  <2>1. pc[q] # "off" /\ pc[q] \in {"uvmcopy", "incref"}
    BY <1>t, <1>1, Frame, OthersMemory DEF ForkDone, TypeOK, ThreadTypeOK
  <2>2. tgt'[q] = tgt[q] /\ v \in 0 .. va[q] - 1 /\ tgt[q] # q
    BY <1>t, <1>1, <2>1, OthersMemory DEF LocalsInv, LocalsAt, Forking
  <2> QED
    BY <1>1, <1>m, <2>1, <2>2, OthersMemory, TargetSlots DEF CopiedInv
<1>2. CASE q = p /\ AllocRoot(p)
  <2>1. va'[p] = 0
    BY <1>t, <1>2 DEF AllocRoot, LocalsInv, LocalsAt
  <2> QED
    BY <1>2, <2>1
<1>3. CASE q = p /\ WalkAlloc(p)
  <2>1. tgt'[p] = tgt[p] /\ va'[p] = va[p] /\ pc'[p] = pc[p]
    BY <1>3 DEF WalkAlloc, locals
  <2>2. va[p] \in VA /\ TableSlot(p) \in Slot
    BY <1>t, <1>3, StepBounds, HereFacts DEF WalkAlloc
  <2>3. \A c \in Proc : <<c, Mem(v)>> # TableSlot(p) /\ <<c, Mem(v)>> \in Slot
    BY <1>3, <1>m, <1>y, <2>1, <2>2, AddressAssumption, KeyFacts, SlotFacts DEF TableSlot
  <2>4. \A c \in Proc : slot'[<<c, Mem(v)>>] = slot[<<c, Mem(v)>>]
    BY <1>3, <1>y, <2>3 DEF WalkAlloc
  <2> QED
    BY <1>3, <1>y, <2>1, <2>4 DEF CopiedInv
<1>4. CASE q = p /\ ShareMapping(p)
  <2>1. tgt'[p] = tgt[p] /\ va'[p] = va[p] /\ pc[p] = "uvmcopy" /\ va[p] \in VA
    BY <1>4, Sharing DEF ShareMapping, locals
  <2>2. v \in VA /\ v # va[p]
    BY <1>4, <1>m, <1>y, <2>1, AddressAssumption
  <2>3. \A c \in Proc : <<c, Mem(v)>> # Child(p) /\ <<c, Mem(v)>> \in Slot
    BY <1>y, <2>1, <2>2, KeyFacts, SlotFacts DEF Child
  <2>4. \A c \in Proc : slot'[<<c, Mem(v)>>] = slot[<<c, Mem(v)>>]
    BY <1>4, <1>y, <2>3 DEF ShareMapping
  <2> QED
    BY <1>4, <1>y, <2>1, <2>4 DEF CopiedInv
<1>5. CASE q = p /\ CountMapping(p)
  <2>1. /\ tgt'[p] = tgt[p] /\ va'[p] = va[p] + 1 /\ pc[p] = "incref"
        /\ slot' = slot
    BY <1>t, <1>5 DEF CountMapping, pte, TypeOK, ThreadTypeOK, LocalsTypeOK
  <2>2. CASE v = va[p]
    BY <1>5, <2>1, <2>2 DEF IInv, SharingInv, Child, Here
  <2>3. CASE v # va[p]
    <3>1. v \in 0 .. va[p] - 1
      BY <1>5, <1>y, <2>1, <2>3, AddressAssumption
    <3> QED
      BY <1>5, <2>1, <3>1 DEF CopiedInv
  <2> QED
    BY <2>2, <2>3
<1> QED
  BY <1>1, <1>2, <1>3, <1>4, <1>5, LoopSteps

(* Initially the pages in use are those of the first process.              *)
LEMMA InitMemory == Init => MemoryInv
<1> SUFFICES ASSUME Init PROVE MemoryInv
  OBVIOUS
<1>s. /\ InitSlot \subseteq Slot
      /\ slot = [s \in Slot |-> IF s \in InitSlot THEN BootPage[s] ELSE NoPage]
      /\ BootPage \in [InitSlot -> Page] /\ NoPage \notin Page
      /\ \A v \in VA : v < InitSz <=> v \in 0 .. InitSz - 1
  <2>1. \A v \in 0 .. InitSz - 1 : v \in VA /\ TableOf(v) \in VA
    BY AddressAssumption DEF VA
  <2>2. InitSlot \subseteq Slot
    BY <2>1, ProcAssumption, KeyFacts DEF InitSlot, Slot
  <2>3. \A v \in VA : v < InitSz <=> v \in 0 .. InitSz - 1
    BY AddressAssumption DEF VA
  <2> QED
    BY <2>2, <2>3, BootAssumption, ProcAssumption DEF Init
<1>c. /\ freelist = Page \ {BootPage[s] : s \in InitSlot}
      /\ content = [g \in Page |->
            IF g \in {BootPage[s] : s \in InitSlot}
            THEN IF \E v \in 0 .. InitSz - 1 : BootPage[<<InitProc, Mem(v)>>] = g
                 THEN Zero ELSE Junk
            ELSE Junk]
  BY DEF Init, KallocInit
<1>1. HeldInv
  BY <1>s, <1>c DEF HeldInv
<1>2. \A p \in Proc : pc[p] \in {"user", "off"}
  BY DEF Init
<1>3. ASSUME NEW p \in Proc, NEW v \in VA, Mapped(<<p, Mem(v)>>)
      PROVE  content[slot[<<p, Mem(v)>>]] = Zero
  <2>1. <<p, Mem(v)>> \in InitSlot
    BY <1>3, <1>s, SlotFacts, KeyFacts DEF Mapped
  <2>2. p = InitProc
    BY <2>1 DEF InitSlot
  <2>3. v \in 0 .. InitSz - 1
    <3>1. HasPage(InitProc, v)
      BY <1>3, <2>2, InitInvariant DEF IInv, MappingInv
    <3>2. /\ state[p] = "RUNNABLE" /\ pc[p] = "user" /\ ret[p] = "none"
          /\ todo[p] = {} /\ sz[p] = InitSz
      BY <2>2 DEF Init
    <3> QED
      BY <1>s, <2>2, <3>1, <3>2 DEF HasPage, RunningHas, VisibleSz, Growing
  <2> QED
    BY <1>s, <1>c, <2>1, <2>2, <2>3
<1> QED
  BY <1>1, <1>2, <1>3, ValueAssumption
     DEF MemoryInv, DataInv, CopiedInv, Growing

(* Every step preserves what is known of the memory.                       *)
LEMMA StepMemory == IInv /\ MemoryInv /\ [Next]_vars => MemoryInv'
<1> SUFFICES ASSUME IInv, MemoryInv, [Next]_vars PROVE MemoryInv'
  OBVIOUS
<1>1. CASE Next
  BY <1>1, HeldStep, DataStep, CopiedStep DEF Next, MemoryInv
<1>2. CASE UNCHANGED vars
  BY <1>2 DEF vars, kmem, pte, table, locals, MemoryInv, HeldInv, DataInv, CopiedInv,
     Mapped
<1> QED
  BY <1>1, <1>2

(* The invariant of the memory: who holds which page, and what is in it.   *)
THEOREM MemoryInvariance == Spec => [](IInv /\ MemoryInv)
  BY InitInvariant, StepInvariant, InitMemory, StepMemory, PTL DEF Spec

(* Every page off the free list belongs to a process that exists, and in   *)
(* user space to its memory, its trapframe or its page table: no failed    *)
(* fork(), sbrk() or page fault loses a page (vm.c, proc.c, trap.c).       *)
THEOREM LeakFreedom == Spec => []NoLeak
<1>1. IInv /\ MemoryInv => NoLeak
  <2> SUFFICES ASSUME IInv, MemoryInv, NEW g \in Page \ freelist
               PROVE  \E s \in Slot :
                         /\ slot[s] = g
                         /\ state[s[1]] # "UNUSED"
                         /\ pc[s[1]] \in {"user", "exit"} =>
                               s[2] \in {Mem(v) : v \in 0 .. sz[s[1]] - 1}
                                           \cup TableKey \cup {Trapframe, Root}
    BY DEF NoLeak
  <2>t. TypeOK /\ LocalsInv /\ TargetInv /\ TodoInv
    BY DEF IInv
  <2>1. PICK s \in Slot : slot[s] = g
    BY DEF MemoryInv, HeldInv
  <2>2. Mapped(s) /\ s[1] \in Proc /\ s[2] \in Key /\ s = <<s[1], s[2]>>
    BY <2>1, ProcAssumption, SlotFacts DEF Mapped
  <2>3. state[s[1]] # "UNUSED"
    BY <2>2 DEF IInv, MappingInv
  <2>4. ASSUME pc[s[1]] \in {"user", "exit"}
        PROVE  s[2] \in {Mem(v) : v \in 0 .. sz[s[1]] - 1}
                            \cup TableKey \cup {Trapframe, Root}
    <3> DEFINE q == s[1]
    <3>1. /\ state[q] = "RUNNABLE" /\ todo[q] = {} /\ ret[q] = "none"
          /\ sz[q] \in 0 .. MaxVA
      BY <2>t, <2>2, <2>4
         DEF TargetInv, TodoInv, TodoAt, LocalsInv, LocalsAt, Freeing, TypeOK,
             TableTypeOK
    <3>2. s[2] # Hand
      BY <2>2, <2>4, <3>1 DEF IInv, MappingInv
    <3>3. ASSUME NEW v \in VA, s[2] = Mem(v) PROVE v \in 0 .. sz[q] - 1
      <4>1. RunningHas(q, v)
        BY <2>2, <3>1, <3>3 DEF IInv, MappingInv, HasPage
      <4>2. v < sz[q]
        BY <2>4, <3>1, <4>1 DEF RunningHas, VisibleSz, Growing
      <4> QED
        BY <3>1, <4>2, AddressAssumption DEF VA
    <3> QED
      BY <2>2, <3>2, <3>3, KeyFacts
  <2> QED
    BY <2>1, <2>3, <2>4
<1> QED
  BY <1>1, MemoryInvariance, PTL

------------------------------------------------------------------------------
(***************************************************************************)
(* The refinement of PrivateMemory.  A store changes one datum of one      *)
(* process, fork() copies when it publishes the child, sbrk() resizes when *)
(* it sets p->sz or begins to unmap; every other step is invisible.        *)
(***************************************************************************)

(* A writable page is seen through no other slot.                          *)
LEMMA WritableAlone ==
    ASSUME IInv, NEW s \in writable, NEW u \in Slot, slot[u] = slot[s]
    PROVE  u = s
<1>1. s \in Slot /\ Mapped(s) /\ s \notin cow /\ s[2] \in MemKey
  BY DEF IInv, FlagInv, TypeOK, PteTypeOK
<1>2. s \notin Sharable
  BY <1>1, KeyFacts DEF Sharable
<1> QED
  BY <1>1, <1>2 DEF IInv, SharingInv

(* The memory below the visible size is mapped, and holds data.            *)
LEMMA VisibleMemory ==
    ASSUME IInv, DataInv, NEW q \in Alive, NEW v \in VA, v < VisibleSz(q)
    PROVE  /\ <<q, Mem(v)>> \in Slot /\ <<q, Mem(v)>>[1] = q
           /\ <<q, Mem(v)>>[2] \in MemKey
           /\ Mapped(<<q, Mem(v)>>) /\ Data(<<q, Mem(v)>>) \in Value
           /\ Data(<<q, Mem(v)>>) # Junk
<1>1. Mapped(<<q, Mem(v)>>)
  BY MappedMemory DEF Alive
<1> QED
  BY <1>1, SlotFacts, KeyFacts, ValueAssumption DEF Alive, DataInv, Data

(* Which steps change the set of processes that run, or a visible size.    *)
LEMMA ViewEffect ==
    ASSUME IInv, NEW p \in Proc, UserStep(p) \/ KernelStep(p),
           ~(ForkDone(p) \/ Exit(p) \/ GrowDone(p) \/ Shrink(p))
    PROVE  Alive' = Alive /\ \A q \in Alive : VisibleSz(q)' = VisibleSz(q)
<1>t. TypeOK /\ LocalsInv /\ TargetInv /\ TodoInv
  BY DEF IInv
<1>y. /\ state \in [Proc -> {"UNUSED", "USED", "RUNNABLE", "ZOMBIE"}]
      /\ sz \in [Proc -> 0 .. MaxVA] /\ ret \in [Proc -> Reason]
      /\ lim \in [Proc -> 0 .. MaxVA] /\ tgt[p] \in Proc
  BY <1>t DEF TypeOK, TableTypeOK, ThreadTypeOK, LocalsTypeOK
<1>r. pc[p] # "off" /\ state[p] = "RUNNABLE"
  BY Running
<1>l. LocalsAt(p)
  BY <1>t DEF LocalsInv
<1>1. ASSUME NEW q \in Proc, q # p
      PROVE  /\ q \in Alive' <=> q \in Alive
             /\ q \in Alive => VisibleSz(q)' = VisibleSz(q)
  <2>1. q \in Alive => pc[q] # "off"
    BY <1>t DEF Alive, TargetInv
  <2>2. FreeprocDone(p) /\ q = tgt[p] => q \notin Alive /\ q \notin Alive'
    BY <1>1, <1>t, <1>y, TargetFacts DEF FreeprocDone, Alive
  <2>3. q \notin Alive => q \notin Alive'
    BY <1>1, <1>t, <2>2, TableFrame DEF Alive
  <2>4. q \in Alive => q \in Alive' /\ VisibleSz(q)' = VisibleSz(q)
    BY <1>1, <2>1, OthersMemory DEF Alive, VisibleSz
  <2> QED
    BY <2>3, <2>4
<1>2. state'[p] = state[p] /\ VisibleSz(p)' = VisibleSz(p)
  <2> USE <1>y
  <2>1. CASE UserStore(p)
    BY <2>1 DEF UserStore, table, locals, VisibleSz
  <2>2. CASE CowFault(p) \/ BadAccess(p) \/ Copyout(p) \/ Grow(p)
    BY <2>2, <1>l DEF CowFault, BadAccess, Copyout, Grow, Locals, table, locals,
       VisibleSz, LocalsAt, Growing
  <2>3. CASE Fork(p)
    <3>1. PICK c \in Proc : /\ state[c] = "UNUSED" /\ state' = [state EXCEPT ![c] = "USED"]
                            /\ Locals(p, "none", c, 0, 0, Zero)
      BY <2>3 DEF Fork
    <3> QED
      BY <1>r, <1>l, <2>3, <3>1 DEF Fork, Locals, VisibleSz, LocalsAt
  <2>4. CASE Wait(p)
    <3>1. ret[p] = "none" /\ table' = table /\ ret'[p] # "shrink"
      BY <2>4, <1>l DEF Wait, Locals, LocalsAt
    <3> QED
      BY <3>1 DEF VisibleSz, table
  <2>5. CASE ReadRef(p) \/ AllocCopy(p) \/ CopyPage(p) \/ DropReference(p) \/ PushPage(p)
             \/ WalkAlloc(p) \/ ShareMapping(p)
    BY <2>5 DEF ReadRef, AllocCopy, CopyPage, DropReference, PushPage, WalkAlloc,
       ShareMapping, table, locals, VisibleSz
  <2>6. CASE ReusePage(p) \/ AllocCopyFails(p)
    BY <2>6, <1>l DEF ReusePage, AllocCopyFails, Fail, Return, Locals, table, locals,
       VisibleSz, LocalsAt, Resolving
  <2>7. CASE CopyoutPage(p) \/ CopyoutDone(p) \/ CopyDone(p) \/ Deliver(p)
    BY <2>7, <1>l DEF CopyoutPage, CopyoutDone, CopyDone, Deliver, Fail, Return, Locals,
       table, locals, VisibleSz, LocalsAt
  <2>8. CASE ResizeDone(p)
    BY <2>8, <1>l DEF ResizeDone, Return, Locals, VisibleSz
  <2>9. CASE UncopyDone(p)
    BY <2>9 DEF UncopyDone, table, VisibleSz
  <2>10. CASE FreeprocDone(p)
    <3>1. tgt[p] # p
      BY <2>10, <1>l DEF FreeprocDone, LocalsAt
    <3> QED
      BY <2>10, <3>1 DEF FreeprocDone, Return, Locals, VisibleSz
  <2>11. CASE AllocRoot(p) \/ GrowAlloc(p) \/ UvmcopyFails(p) \/ GrowMapFails(p)
    BY <2>11, <1>l DEF AllocRoot, GrowAlloc, UvmcopyFails, GrowMapFails, table,
       VisibleSz, LocalsAt, Forking, Growing
  <2>12. CASE CountMapping(p) \/ GrowMap(p)
    BY <2>12 DEF CountMapping, GrowMap, table, VisibleSz
  <2>13. CASE WaitReap(p)
    BY <2>13 DEF WaitReap, table, VisibleSz
  <2> QED
    BY <2>1, <2>2, <2>3, <2>4, <2>5, <2>6, <2>7, <2>8, <2>9, <2>10, <2>11, <2>12,
       <2>13 DEF UserStep, KernelStep
<1>3. p \in Alive /\ p \in Alive'
  BY <1>r, <1>2 DEF Alive
<1> QED
  BY <1>1, <1>2, <1>3 DEF Alive

(* The other steps leave what programs see as it is.                       *)
LEMMA Invisible ==
    ASSUME IInv, IInv', DataInv, NEW p \in Proc, UserStep(p) \/ KernelStep(p),
           ~(ForkDone(p) \/ Exit(p) \/ GrowDone(p) \/ Shrink(p)),
           ~(UserStore(p) \/ Deliver(p))
    PROVE  Alive' = Alive /\ UserMemory' = UserMemory
<1>1. Alive' = Alive /\ \A q \in Alive : VisibleSz(q)' = VisibleSz(q)
  BY ViewEffect
<1>2. ASSUME NEW q \in Alive, NEW v \in VA, v < VisibleSz(q)
      PROVE  Data(<<q, Mem(v)>>)' = Data(<<q, Mem(v)>>)
  <2>1. /\ <<q, Mem(v)>> \in Slot /\ <<q, Mem(v)>>[2] \in MemKey
        /\ Mapped(<<q, Mem(v)>>) /\ q \in Proc
    BY <1>2, VisibleMemory DEF Alive
  <2>2. state'[q] = "RUNNABLE" /\ v < VisibleSz(q)'
    BY <1>1, <1>2 DEF Alive
  <2>3. Mapped(<<q, Mem(v)>>)'
    BY <2>1, <2>2 DEF IInv, MappingInv, HasPage, RunningHas
  <2> QED
    BY <2>1, <2>3, Undisturbed
<1>3. \A q \in Proc, v \in VA :
         q \in Alive /\ v < VisibleSz(q) =>
             content'[slot'[<<q, Mem(v)>>]] = content[slot[<<q, Mem(v)>>]]
  BY <1>2 DEF Data
<1> QED
  BY <1>1, <1>3 DEF UserMemory

(* A store is seen by the process that made it only.                       *)
LEMMA StoreSeen ==
    ASSUME IInv, DataInv, NEW p \in Alive, NEW v \in VA, v < VisibleSz(p),
           NEW x \in Value, <<p, Mem(v)>> \in writable,
           StorePage(slot[<<p, Mem(v)>>], x),
           UNCHANGED <<slot, table, ret, lim>>
    PROVE  Private!Store(p, v, x)
<1> DEFINE s == <<p, Mem(v)>>
<1>1. Alive' = Alive /\ \A q \in Proc : VisibleSz(q)' = VisibleSz(q)
  BY DEF Alive, VisibleSz, table
<1>2. UserMemory[p][v] # Junk
  BY VisibleMemory DEF UserMemory, Data, Alive
<1>3. content \in [Page -> Value \cup {Junk}] /\ slot \in [Slot -> Page \cup {NoPage}]
  BY DEF IInv, TypeOK, KallocTypeOK, PteTypeOK
<1>4. ASSUME NEW q \in Alive, NEW w \in VA, w < VisibleSz(q)
      PROVE  content'[slot[<<q, Mem(w)>>]] =
                 IF q = p /\ w = v THEN x ELSE content[slot[<<q, Mem(w)>>]]
  <2>1. /\ <<q, Mem(w)>> \in Slot /\ slot[<<q, Mem(w)>>] \in Page
        /\ s \in Slot /\ slot[s] \in Page
    BY <1>3, <1>4, VisibleMemory DEF Mapped
  <2>2. CASE q = p /\ w = v
    BY <1>3, <2>1, <2>2 DEF StorePage
  <2>3. CASE ~(q = p /\ w = v)
    <3>1. <<q, Mem(w)>> # s
      BY <2>3, SlotFacts, KeyFacts DEF Alive
    <3>2. slot[<<q, Mem(w)>>] # slot[s]
      BY <2>1, <3>1, WritableAlone
    <3> QED
      BY <1>3, <2>1, <2>3, <3>2 DEF StorePage
  <2> QED
    BY <2>2, <2>3
<1>5. \A q \in Proc, w \in VA :
         UserMemory'[q][w] = IF q = p /\ w = v THEN x ELSE UserMemory[q][w]
  BY <1>1, <1>4 DEF UserMemory
<1>6. UserMemory' = [UserMemory EXCEPT ![p][v] = x]
  <2>1. UserMemory' = [q \in Proc |-> [w \in VA |-> UserMemory'[q][w]]]
    BY DEF UserMemory
  <2>2. [UserMemory EXCEPT ![p][v] = x] =
            [q \in Proc |-> [w \in VA |->
                IF q = p /\ w = v THEN x ELSE UserMemory[q][w]]]
    BY DEF UserMemory, Alive
  <2> QED
    BY <1>5, <2>1, <2>2
<1> QED
  BY <1>1, <1>2, <1>6 DEF Private!Store

(* Where a thread may store.                                               *)
LEMMA StorePossible ==
    ASSUME IInv, NEW p \in Proc, state[p] = "RUNNABLE", NEW v \in VA,
           <<p, Mem(v)>> \in writable, pc[p] \in {"user", "deliver"}
    PROVE  p \in Alive /\ v < VisibleSz(p)
<1>1. Mapped(<<p, Mem(v)>>) /\ todo[p] = {}
  BY DEF IInv, FlagInv, TodoInv, TodoAt, Freeing
<1>2. RunningHas(p, v)
  BY <1>1 DEF IInv, MappingInv, HasPage
<1> QED
  BY <1>1, <1>2 DEF RunningHas, Growing, Alive

LEMMA StoreStep ==
    ASSUME IInv, DataInv, NEW p \in Proc, UserStore(p) \/ Deliver(p)
    PROVE  Private!Next
<1>t. TypeOK /\ LocalsInv
  BY DEF IInv
<1>r. state[p] = "RUNNABLE"
  BY Running DEF UserStep, KernelStep
<1>1. CASE UserStore(p)
  <2>1. PICK v \in VA, x \in Value :
           <<p, Mem(v)>> \in writable /\ StorePage(slot[<<p, Mem(v)>>], x)
    BY <1>1 DEF UserStore
  <2>2. pc[p] = "user" /\ UNCHANGED <<slot, table, ret, lim>>
    BY <1>1 DEF UserStore, pte, locals
  <2>3. p \in Alive /\ v < VisibleSz(p)
    BY <1>r, <2>1, <2>2, StorePossible
  <2>4. Private!Store(p, v, x)
    BY <2>1, <2>2, <2>3, StoreSeen
  <2> QED
    BY <2>4 DEF Private!Next, Private!Address, VA
<1>2. CASE Deliver(p)
  <2>1. /\ pc[p] = "deliver" /\ StorePage(slot[Here(p)], val[p])
        /\ UNCHANGED <<slot, table, ret, lim>>
    BY <1>2 DEF Deliver, pte
  <2>2. va[p] \in VA /\ val[p] \in Value
    BY <1>t, <2>1, StepBounds, HereFacts DEF TypeOK, ThreadTypeOK, LocalsTypeOK
  <2>3. <<p, Mem(va[p])>> \in writable
    BY <2>1 DEF IInv, FlagInv, Here
  <2>4. p \in Alive /\ va[p] < VisibleSz(p)
    BY <1>r, <2>1, <2>2, <2>3, StorePossible
  <2>5. Private!Store(p, va[p], val[p])
    BY <2>1, <2>2, <2>3, <2>4, StoreSeen DEF Here
  <2> QED
    BY <2>2, <2>5 DEF Private!Next, Private!Address, VA
<1> QED
  BY <1>1, <1>2

(* The child appears with all of its parent's memory at once.              *)
LEMMA ForkStep ==
    ASSUME IInv, DataInv, CopiedInv, NEW p \in Proc, ForkDone(p)
    PROVE  Private!Next
<1>t. TypeOK /\ LocalsInv /\ TargetInv
  BY DEF IInv
<1>c. PICK c \in Proc : c = tgt[p]
  BY <1>t DEF TypeOK, ThreadTypeOK, LocalsTypeOK
<1>1. /\ pc[p] = "uvmcopy" /\ va[p] = sz[p] /\ ret[p] = "none" /\ c # p
      /\ state[p] = "RUNNABLE" /\ c \in Proc
  BY <1>t, <1>c DEF ForkDone, LocalsInv, LocalsAt, Forking, TargetInv, TypeOK, ThreadTypeOK,
     LocalsTypeOK
<1>2. pc[c] = "off" /\ state[c] # "RUNNABLE" /\ ret[c] = "none"
  BY <1>t, <1>c, <1>1, TargetFacts DEF TargetInv, LocalsInv, LocalsAt
<1>3. /\ sz' = [sz EXCEPT ![c] = sz[p]] /\ state' = [state EXCEPT ![c] = "RUNNABLE"]
      /\ ret' = [ret EXCEPT ![p] = "none"] /\ lim' = [lim EXCEPT ![p] = 0]
      /\ UNCHANGED <<slot, content>>
  BY <1>c DEF ForkDone, Locals, pte, kmem
<1>4. /\ state \in [Proc -> {"UNUSED", "USED", "RUNNABLE", "ZOMBIE"}]
      /\ sz \in [Proc -> 0 .. MaxVA] /\ ret \in [Proc -> Reason]
      /\ lim \in [Proc -> 0 .. MaxVA]
  BY <1>t DEF TypeOK, TableTypeOK, ThreadTypeOK, LocalsTypeOK
<1>5. Alive' = Alive \cup {c} /\ c \notin Alive /\ p \in Alive
  BY <1>1, <1>2, <1>3, <1>4 DEF Alive
<1>6. /\ \A q \in Proc \ {c} : VisibleSz(q)' = VisibleSz(q)
      /\ VisibleSz(c)' = VisibleSz(p)
  BY <1>1, <1>2, <1>3, <1>4 DEF VisibleSz
<1>7. \A v \in VA : v < VisibleSz(p) => slot[<<c, Mem(v)>>] = slot[<<p, Mem(v)>>]
  BY <1>c, <1>1, <1>4, AddressAssumption DEF VA, VisibleSz, CopiedInv
<1>8. UserMemory' = [UserMemory EXCEPT ![c] = UserMemory[p]]
  <2>1. \A q \in Proc, v \in VA :
           UserMemory'[q][v] = IF q = c THEN UserMemory[p][v] ELSE UserMemory[q][v]
    <3>1. \A v \in VA : UserMemory'[c][v] = UserMemory[p][v]
      BY <1>1, <1>3, <1>5, <1>6, <1>7 DEF UserMemory
    <3>2. \A q \in Proc \ {c}, v \in VA : UserMemory'[q][v] = UserMemory[q][v]
      BY <1>3, <1>5, <1>6 DEF UserMemory
    <3> QED
      BY <3>1, <3>2
  <2>2. UserMemory' = [q \in Proc |-> [v \in VA |-> UserMemory'[q][v]]]
    BY DEF UserMemory
  <2>3. [UserMemory EXCEPT ![c] = UserMemory[p]] =
            [q \in Proc |-> [v \in VA |->
                IF q = c THEN UserMemory[p][v] ELSE UserMemory[q][v]]]
    BY <1>1 DEF UserMemory
  <2> QED
    BY <2>1, <2>2, <2>3
<1>9. Private!Fork(p, c)
  BY <1>5, <1>8 DEF Private!Fork
<1> QED
  BY <1>1, <1>9 DEF Private!Next

(* The memory of a process that exits is gone for the others.              *)
LEMMA ExitStep ==
    ASSUME IInv, NEW p \in Proc, Exit(p)
    PROVE  Private!Next
<1>1. state[p] = "RUNNABLE"
  BY Running DEF UserStep
<1>2. /\ state' = [state EXCEPT ![p] = "ZOMBIE"]
      /\ UNCHANGED <<slot, content, sz, ret, lim>>
  BY DEF Exit, pte, kmem, locals
<1>3. state \in [Proc -> {"UNUSED", "USED", "RUNNABLE", "ZOMBIE"}]
  BY DEF IInv, TypeOK, TableTypeOK
<1>4. Alive' = Alive \ {p} /\ p \in Alive
  BY <1>1, <1>2, <1>3 DEF Alive
<1>5. UserMemory' = [UserMemory EXCEPT ![p] = [v \in VA |-> Junk]]
  <2>1. \A q \in Proc, v \in VA :
           UserMemory'[q][v] = IF q = p THEN Junk ELSE UserMemory[q][v]
    BY <1>2, <1>4 DEF UserMemory, VisibleSz
  <2>2. UserMemory' = [q \in Proc |-> [v \in VA |-> UserMemory'[q][v]]]
    BY DEF UserMemory
  <2>3. [UserMemory EXCEPT ![p] = [v \in VA |-> Junk]] =
            [q \in Proc |-> [v \in VA |-> IF q = p THEN Junk ELSE UserMemory[q][v]]]
    BY DEF UserMemory
  <2> QED
    BY <2>1, <2>2, <2>3
<1>6. Private!Exit(p)
  BY <1>4, <1>5 DEF Private!Exit, Private!Address, VA
<1> QED
  BY <1>6 DEF Private!Next

(* The new size shows when p->sz is set, or when unmapping begins.         *)
LEMMA ResizeStep ==
    ASSUME IInv, DataInv, NEW p \in Proc, GrowDone(p) \/ Shrink(p)
    PROVE  Private!Next
<1>t. TypeOK /\ LocalsInv
  BY DEF IInv
<1>0. /\ state[p] = "RUNNABLE" /\ ret[p] = "none" /\ LocalsAt(p)
  <2>1. state[p] = "RUNNABLE"
    BY Running DEF UserStep, KernelStep
  <2> QED
    BY <1>t, <2>1 DEF LocalsInv, LocalsAt, GrowDone, Shrink, Growing
<1>4. /\ sz \in [Proc -> 0 .. MaxVA] /\ ret \in [Proc -> Reason]
      /\ lim \in [Proc -> 0 .. MaxVA] /\ va \in [Proc -> 0 .. MaxVA]
  BY <1>t DEF TypeOK, TableTypeOK, ThreadTypeOK, LocalsTypeOK
<1>1. UNCHANGED <<slot, content, state>>
  BY DEF GrowDone, Shrink, pte, kmem, table
<1>2. PICK n \in 0 .. MaxVA :
         /\ VisibleSz(p)' = n
         /\ \A v \in VA : v < n /\ ~(v < VisibleSz(p)) => Data(<<p, Mem(v)>>) = Zero
         /\ \A q \in Proc \ {p} : VisibleSz(q)' = VisibleSz(q)
  <2>1. CASE GrowDone(p)
    <3>1. /\ sz' = [sz EXCEPT ![p] = lim[p]] /\ ret' = [ret EXCEPT ![p] = "none"]
          /\ lim' = [lim EXCEPT ![p] = 0] /\ pc[p] = "grow" /\ va[p] = lim[p]
      BY <2>1 DEF GrowDone, Return, Locals
    <3>2. VisibleSz(p)' = lim[p]
      BY <1>4, <3>1 DEF VisibleSz
    <3>3. \A v \in VA : v < lim[p] /\ ~(v < VisibleSz(p)) => v \in sz[p] .. va[p] - 1
      BY <1>0, <1>4, <3>1, AddressAssumption DEF VA, VisibleSz
    <3>4. \A v \in VA : v < lim[p] /\ ~(v < VisibleSz(p)) => Data(<<p, Mem(v)>>) = Zero
      BY <3>1, <3>3 DEF DataInv, Data, Growing
    <3>5. \A q \in Proc \ {p} : VisibleSz(q)' = VisibleSz(q)
      BY <1>4, <3>1 DEF VisibleSz
    <3> QED
      BY <1>4, <3>2, <3>4, <3>5
  <2>2. CASE Shrink(p)
    <3>1. PICK n \in 0 .. sz[p] - 1 : Locals(p, "shrink", p, n, n, Zero)
      BY <2>2 DEF Shrink
    <3>2. n \in 0 .. MaxVA /\ n < sz[p] /\ n \in Int /\ sz[p] \in Int
      BY <1>4, <3>1, AddressAssumption
    <3>3. sz' = sz
      BY <2>2 DEF Shrink, table
    <3>4. VisibleSz(p)' = n /\ \A q \in Proc \ {p} : VisibleSz(q)' = VisibleSz(q)
      BY <1>4, <3>1, <3>3 DEF VisibleSz, Locals
    <3>5. \A v \in VA : v < n => v < VisibleSz(p)
      BY <1>0, <3>2, AddressAssumption DEF VisibleSz, VA
    <3> QED
      BY <3>2, <3>4, <3>5
  <2> QED
    BY <2>1, <2>2
<1>3. Alive' = Alive /\ p \in Alive
  BY <1>0, <1>1 DEF Alive
<1>5. ASSUME NEW v \in VA
      PROVE  UserMemory'[p][v] =
                 IF v >= n THEN Junk
                 ELSE IF UserMemory[p][v] = Junk THEN Zero ELSE UserMemory[p][v]
  <2>1. v \in Int /\ n \in Int
    BY <1>2, AddressAssumption DEF VA
  <2>2. UserMemory'[p][v] = IF v < n THEN Data(<<p, Mem(v)>>) ELSE Junk
    BY <1>1, <1>2, <1>3 DEF UserMemory, Data
  <2>3. UserMemory[p][v] = IF v < VisibleSz(p) THEN Data(<<p, Mem(v)>>) ELSE Junk
    BY <1>3 DEF UserMemory, Data
  <2>4. v < VisibleSz(p) => Data(<<p, Mem(v)>>) # Junk
    BY <1>3, VisibleMemory
  <2> QED
    BY <1>2, <2>1, <2>2, <2>3, <2>4
<1>6. \A q \in Proc \ {p}, v \in VA : UserMemory'[q][v] = UserMemory[q][v]
  BY <1>1, <1>2, <1>3 DEF UserMemory
<1>7. Private!Resize(p, n)
  <2> DEFINE new == [v \in VA |-> IF v >= n THEN Junk
                        ELSE IF UserMemory[p][v] = Junk THEN Zero ELSE UserMemory[p][v]]
  <2>1. UserMemory' = [q \in Proc |-> [v \in VA |-> UserMemory'[q][v]]]
    BY DEF UserMemory
  <2>2. UserMemory = [q \in Proc |-> [v \in VA |-> UserMemory[q][v]]]
    BY DEF UserMemory
  <2>3. UserMemory' = [UserMemory EXCEPT ![p] = new]
    BY <1>5, <1>6, <2>1, <2>2
  <2> QED
    BY <1>3, <2>3 DEF Private!Resize, Private!Address, VA
<1> QED
  BY <1>7 DEF Private!Next

(* Sharing pages is invisible: the kernel gives each process memory of its *)
(* own (vm.c, trap.c, proc.c).                                             *)
THEOREM Privacy == Spec => PrivateMemorySpec
<1>1. Init => Private!Init
  <2> SUFFICES ASSUME Init PROVE Private!Init
    OBVIOUS
  <2>1. IInv /\ DataInv
    BY InitInvariant, InitMemory DEF MemoryInv
  <2>2. /\ Alive = {InitProc} /\ InitProc \in Proc /\ VisibleSz(InitProc) = InitSz
    BY ProcAssumption DEF Init, Alive, VisibleSz
  <2>3. ASSUME NEW v \in VA, v < InitSz PROVE content[slot[<<InitProc, Mem(v)>>]] = Zero
    <3>1. v \in 0 .. InitSz - 1
      BY <2>3, AddressAssumption DEF VA
    <3>2. <<InitProc, Mem(v)>> \in InitSlot
      BY <3>1 DEF InitSlot
    <3>3. <<InitProc, Mem(v)>> \in Slot
      BY <2>2, <2>3, SlotFacts, KeyFacts
    <3> QED
      BY <3>1, <3>2, <3>3, BootAssumption DEF Init, KallocInit
  <2>4. UserMemory = [p \in Proc |-> [v \in VA |->
                         IF p = InitProc /\ v < InitSz THEN Zero ELSE Junk]]
    BY <2>2, <2>3 DEF UserMemory
  <2> QED
    BY <2>2, <2>4 DEF Private!Init, Private!Address, VA
<1>2. IInv /\ MemoryInv /\ IInv' /\ [Next]_vars => [Private!Next]_(Private!memory)
  <2> SUFFICES ASSUME IInv, MemoryInv, IInv', [Next]_vars
               PROVE  [Private!Next]_(Private!memory)
    OBVIOUS
  <2>1. CASE UNCHANGED vars
    BY <2>1 DEF vars, kmem, pte, table, locals, Private!memory, Alive, UserMemory,
       VisibleSz
  <2>2. ASSUME NEW p \in Proc, UserStep(p) \/ KernelStep(p)
        PROVE  [Private!Next]_(Private!memory)
    <3>1. CASE UserStore(p) \/ Deliver(p)
      BY <3>1, StoreStep DEF MemoryInv
    <3>2. CASE ForkDone(p)
      BY <3>2, ForkStep DEF MemoryInv
    <3>3. CASE Exit(p)
      BY <3>3, ExitStep
    <3>4. CASE GrowDone(p) \/ Shrink(p)
      BY <3>4, ResizeStep DEF MemoryInv
    <3> QED
      BY <2>2, <3>1, <3>2, <3>3, <3>4, Invisible DEF MemoryInv, Private!memory
  <2> QED
    BY <2>1, <2>2 DEF Next
<1> QED
  BY <1>1, <1>2, MemoryInvariance, PTL DEF Spec, PrivateMemorySpec, Private!Spec
=============================================================================
