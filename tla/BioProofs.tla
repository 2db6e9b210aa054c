------------------------------ MODULE BioProofs ------------------------------
(***************************************************************************)
(* Proofs about Bio, for any threads, blocks, buffers and descriptors: its *)
(* types; what a buffer counts; where the descriptors are; that whoever    *)
(* sleeps will be woken; that what is recycled is on the disk; and that it *)
(* implements BlockStore.                                                  *)
(***************************************************************************)
EXTENDS Bio, FiniteSetTheorems, TLAPS

(* Where threads are, and who is in virtio_disk_rw() among them. *)
Label == Holding \cup {"idle", "lock", "lock_sleep", "rw", "desc_sleep",
                       "disk_sleep", "disk_awake", "unref", "panic"}
DiskPc == {"rw", "desc_sleep", "disk_sleep", "disk_awake"}

(* A thread has a buffer between bget() and brelse(), and the sleep lock   *)
(* of it, which nobody else has, while it may touch the data.              *)
LockInv ==
    /\ \A p \in Proc :
          /\ buf[p] = None <=> pc[p] \in {"idle", "panic"}
          /\ buf[p] # None => blockno[buf[p]] # None
          /\ HasLock(p) => lock[buf[p]] = p
          /\ pc[p] = "lock_sleep" => lock[buf[p]] # None
    /\ \A b \in Buf : lock[b] # None => HasLock(lock[b]) /\ buf[lock[b]] = b

(* Who may touch the data, or writes them, has read them; who is in the    *)
(* driver otherwise has not.  What is pinned has been read.                *)
ValidInv ==
    /\ \A p \in Proc :
          /\ writes[p] => pc[p] \in DiskPc
          /\ pc[p] \in Holding => valid[buf[p]]
          /\ pc[p] \in DiskPc => (valid[buf[p]] <=> writes[p])
    /\ \A b \in Buf : valid[b] => blockno[b] # None
    /\ \A b \in pinned : valid[b]

(* Each buffer counts its users and its pin, and each block has one buffer. *)
CountInv ==
    \A b \in Buf :
        refcnt[b] = Cardinality(Users(b)) + (IF b \in pinned THEN 1 ELSE 0)
UniqueInv ==
    \A b, c \in Buf : blockno[b] = blockno[c] /\ blockno[b] # None => b = c

(* A thread has three descriptors while its request is with the driver;    *)
(* the others are free.                                                    *)
Three(s) == \E d, e, f \in Desc : d # e /\ e # f /\ f # d /\ s = <<d, e, f>>
ChainInv ==
    /\ \A p \in Proc : IF InFlight(p) THEN Three(idx[p]) ELSE idx[p] = <<>>
    /\ \A d \in Desc : d \in free \/ \E p \in Proc : d \in Chain(p)
    /\ \A p \in Proc : free \cap Chain(p) = {}
    /\ \A p, q \in Proc : p # q => Chain(p) \cap Chain(q) = {}

(* The device has, or has served, exactly the requests of the threads whose *)
(* buffers it owns, each once, and info says whose they are.               *)
Served == {used[i] : i \in DOMAIN used}
Distinct(s) == \A i, j \in DOMAIN s : s[i] = s[j] => i = j
First(p) == idx[p][1]
RequestInv ==
    /\ \A p \in Proc :
          /\ pc[p] = "disk_sleep" => owned[buf[p]]
          /\ InFlight(p) => /\ owned[buf[p]] <=> First(p) \in avail \cup Served
                            /\ info[First(p)] = [b |-> buf[p],
                                                 block |-> blockno[buf[p]],
                                                 write |-> writes[p]]
    /\ \A d \in avail \cup Served : \E p \in Proc : InFlight(p) /\ First(p) = d
    /\ \A b \in Buf : owned[b] => \E p \in Proc : InFlight(p) /\ buf[p] = b
    /\ avail \cap Served = {} /\ Distinct(used)

(* Completions are announced, and whoever waits for descriptors waits for  *)
(* some request.                                                           *)
WakeInv ==
    /\ used # <<>> => irq \/ intr = "loop"
    /\ \A p \in Proc : pc[p] = "desc_sleep" => \E q \in Proc : InFlight(q)

(* A buffer is like the disk if it is valid, unless it is pinned or being  *)
(* written, and also when its request has been served.                     *)
Clean(b) == data[b] = disk[blockno[b]]
CleanInv ==
    /\ \A b \in Buf :
          ~valid[b] \/ b \in pinned \/ Clean(b)
                    \/ \E p \in Proc : writes[p] /\ buf[p] = b
    /\ \A p \in Proc :
          /\ pc[p] = "wrote" => Clean(buf[p])
          /\ InFlight(p) /\ First(p) \notin avail => Clean(buf[p])

(* The inductive invariant. *)
IInv ==
    /\ TypeOK /\ LockInv /\ ValidInv /\ CountInv /\ UniqueInv
    /\ ChainInv /\ RequestInv /\ WakeInv /\ CleanInv

------------------------------------------------------------------------------
(* A step that leaves the driver and its requests as they are. *)
Same(p) ==
    /\ InFlight(p)' <=> InFlight(p)
    /\ InFlight(p) =>
          /\ buf'[p] = buf[p] /\ blockno'[buf[p]] = blockno[buf[p]]
          /\ writes'[p] = writes[p]
          /\ pc'[p] = "disk_sleep" => owned[buf[p]]
Frame == /\ UNCHANGED <<free, info, avail, used, idx, owned>>
         /\ \A p \in Proc : Same(p)

------------------------------------------------------------------------------
(* What the proofs use of the constants. *)
LEMMA ConstFacts ==
    /\ IsFiniteSet(Proc) /\ None \notin Proc /\ None \notin Block /\ Value # {}
    /\ None \notin Buf /\ MaxPinned \in Nat /\ MaxChanges \in Nat
    /\ InitDisk \subseteq [Block -> Value]
BY ProcAssumption, BlockAssumption, BufAssumption, BoundAssumption

(* The steps, one by one. *)
LEMMA StepCases ==
    ASSUME [Next]_vars
    PROVE  \/ \E p \in Proc, blk \in Block :
                 Hit(p, blk) \/ Recycle(p, blk) \/ Panic(p, blk)
           \/ \E p \in Proc : AcquireSleep(p) \/ Submit(p) \/ NoDesc(p)
                 \/ SleepAgain(p) \/ Done(p) \/ Install(p) \/ Unpin(p)
                 \/ Release(p) \/ Unref(p) \/ Kill(p)
           \/ \E p \in Proc, v \in Value : WriteLog(p, v) \/ LogWrite(p, v)
           \/ \E d \in Desc : Serve(d)
           \/ IntrEnter \/ IntrNext \/ IntrLast \/ IntrExit \/ UNCHANGED vars
BY Zenon DEF Next, ProcStep, Intr

(* What the steps do to pc keeps its type. *)
LEMMA GotoType ==
    ASSUME TypeOK, NEW p \in Proc, NEW l \in Label, Goto(p, l)
    PROVE  pc' \in [Proc -> Label]
<1>1. pc \in [Proc -> Label]
  BY DEF TypeOK, Label
<1>. QED BY <1>1 DEF Goto

(* The same, when others are woken. *)
LEMMA GotoWakingType ==
    ASSUME TypeOK, NEW p \in Proc, NEW l \in Label, NEW Q, NEW m \in Label,
           GotoWaking(p, l, Q, m)
    PROVE  pc' \in [Proc -> Label]
<1>1. pc \in [Proc -> Label]
  BY DEF TypeOK, Label
<1>. QED BY <1>1 DEF GotoWaking

(* alloc3_desc() finds three different free descriptors if there are so many. *)
LEMMA Alloc3Facts ==
    ASSUME TypeOK, CanAlloc3
    PROVE  \E d, e, f \in free : d # e /\ e # f /\ f # d /\ Alloc3 = <<d, e, f>>
<1>. DEFINE d == FirstFree(free)  e == FirstFree(Rest(free))
            f == FirstFree(Rest(Rest(free)))
<1>1. free \in SUBSET Desc /\ Rest(free) \in SUBSET Desc
      /\ Rest(Rest(free)) \in SUBSET Desc
  BY DEF TypeOK, Rest
<1>2. d \in free /\ e \in Rest(free) /\ f \in Rest(Rest(free))
  BY <1>1, DescAssumption DEF CanAlloc3
<1>3. d # e /\ e # f /\ f # d /\ e \in free /\ f \in free
  BY <1>2 DEF Rest
<1>. QED BY <1>2, <1>3 DEF Alloc3

(* It fails only while a descriptor is in use. *)
LEMMA CanAlloc3Facts ==
    ASSUME free = Desc
    PROVE  CanAlloc3
<1>1. PICK d, e, f \in Desc : d # e /\ e # f /\ f # d
  BY DescAssumption
<1>2. free # {} /\ Rest(free) # {} /\ Rest(Rest(free)) # {}
  BY <1>1 DEF Rest
<1>. QED BY <1>2 DEF CanAlloc3

(* The descriptors of a request, as a set. *)
LEMMA ThreeFacts ==
    ASSUME NEW s, Three(s)
    PROVE  /\ s \in Seq(Desc) /\ DOMAIN s = 1 .. 3
           /\ s[1] \in Desc /\ s[2] \in Desc /\ s[3] \in Desc
           /\ s[1] # s[2] /\ s[2] # s[3] /\ s[3] # s[1]
           /\ {s[i] : i \in DOMAIN s} = {s[1], s[2], s[3]}
           /\ {s[i] : i \in 1 .. 3} = {s[1], s[2], s[3]}
<1>1. PICK d, e, f \in Desc : d # e /\ e # f /\ f # d /\ s = <<d, e, f>>
  BY DEF Three
<1>2. s \in Seq(Desc) /\ DOMAIN s = 1 .. 3 /\ s[1] = d /\ s[2] = e /\ s[3] = f
  BY <1>1
<1>3. ASSUME NEW x, x \in {s[i] : i \in 1 .. 3} PROVE x \in {s[1], s[2], s[3]}
  BY <1>3
<1>. QED BY <1>1, <1>2, <1>3

(* A thread has descriptors only while its request is in the driver. *)
LEMMA ChainFacts ==
    ASSUME ChainInv, NEW p \in Proc
    PROVE  /\ InFlight(p) => /\ Chain(p) = {idx[p][1], idx[p][2], idx[p][3]}
                             /\ Chain(p) \subseteq Desc
                             /\ First(p) \in Chain(p) /\ First(p) \in Desc
           /\ ~InFlight(p) => Chain(p) = {}
<1>1. CASE InFlight(p)
  <2>1. Three(idx[p])
    BY <1>1 DEF ChainInv
  <2>. QED BY <1>1, <2>1, ThreeFacts DEF Chain, First
<1>2. CASE ~InFlight(p)
  <2>1. idx[p] = <<>>
    BY <1>2 DEF ChainInv
  <2>. QED BY <1>2, <2>1 DEF Chain
<1>. QED BY <1>1, <1>2

(* Requests of different threads have different descriptors. *)
LEMMA FirstFacts ==
    ASSUME ChainInv, NEW p \in Proc, NEW q \in Proc, InFlight(p), InFlight(q)
    PROVE  /\ First(p) = First(q) => p = q
           /\ First(p) \notin free
BY ChainFacts DEF ChainInv

(* What a thread that has a lock shares with no other. *)
LEMMA LockFacts ==
    ASSUME TypeOK, LockInv, NEW p \in Proc, NEW q \in Proc, HasLock(p)
    PROVE  /\ buf[p] \in Buf /\ blockno[buf[p]] \in Block
           /\ HasLock(q) /\ buf[p] = buf[q] => p = q
BY ConstFacts DEF TypeOK, LockInv, HasLock

(* The ring of served requests. *)
LEMMA ServedAppend ==
    ASSUME used \in Seq(Desc), NEW d \in Desc, used' = Append(used, d)
    PROVE  /\ Served' = Served \cup {d} /\ used' \in Seq(Desc)
           /\ Distinct(used) /\ d \notin Served => Distinct(used')
<1>1. /\ Len(used) \in Nat /\ DOMAIN used = 1 .. Len(used)
      /\ DOMAIN used' = 1 .. Len(used) + 1 /\ used' \in Seq(Desc)
      /\ \A i \in 1 .. Len(used) : used'[i] = used[i]
      /\ used'[Len(used) + 1] = d
  OBVIOUS
<1>2. ASSUME NEW x, x \in Served' PROVE x \in Served \cup {d}
  BY <1>1, <1>2 DEF Served
<1>3. ASSUME NEW x, x \in Served PROVE x \in Served'
  BY <1>1, <1>3 DEF Served
<1>4. d \in Served'
  <2>1. Len(used) + 1 \in DOMAIN used'
    BY <1>1
  <2>. QED BY <1>1, <2>1 DEF Served
<1>5. ASSUME Distinct(used), d \notin Served PROVE Distinct(used')
  BY <1>1, <1>5 DEF Distinct, Served
<1>. QED BY <1>1, <1>2, <1>3, <1>4, <1>5

(* virtio_disk_intr() takes the oldest. *)
LEMMA ServedTail ==
    ASSUME used \in Seq(Desc), used # <<>>, used' = Tail(used), Distinct(used)
    PROVE  /\ Served' = Served \ {Head(used)} /\ used' \in Seq(Desc)
           /\ Head(used) \in Served /\ Head(used) \in Desc /\ Distinct(used')
<1>1. /\ Len(used) \in Nat \ {0} /\ DOMAIN used = 1 .. Len(used)
      /\ DOMAIN used' = 1 .. Len(used) - 1 /\ used' \in Seq(Desc)
      /\ \A i \in 1 .. Len(used) - 1 : used'[i] = used[i + 1]
      /\ Head(used) = used[1] /\ 1 \in DOMAIN used /\ used[1] \in Desc
  OBVIOUS
<1>2. ASSUME NEW x, x \in Served' PROVE x \in Served \ {Head(used)}
  <2>1. PICK i \in 1 .. Len(used) - 1 : x = used[i + 1]
    BY <1>1, <1>2 DEF Served
  <2>2. i + 1 \in DOMAIN used /\ i + 1 # 1
    BY <1>1
  <2>. QED BY <1>1, <2>1, <2>2 DEF Served, Distinct
<1>3. ASSUME NEW x, x \in Served \ {Head(used)} PROVE x \in Served'
  <2>1. PICK i \in 1 .. Len(used) : x = used[i]
    BY <1>1, <1>3 DEF Served
  <2>2. i # 1 /\ i - 1 \in 1 .. Len(used) - 1 /\ (i - 1) + 1 = i
    BY <1>1, <1>3, <2>1
  <2>3. used'[i - 1] = x
    BY <1>1, <2>1, <2>2
  <2>. QED BY <1>1, <2>2, <2>3 DEF Served
<1>4. Distinct(used')
  <2>1. SUFFICES ASSUME NEW i \in DOMAIN used', NEW j \in DOMAIN used',
                        used'[i] = used'[j]
                 PROVE  i = j
    BY DEF Distinct
  <2>2. used[i + 1] = used[j + 1] /\ i + 1 \in DOMAIN used /\ j + 1 \in DOMAIN used
    BY <1>1, <2>1
  <2>3. i + 1 = j + 1
    BY <2>2 DEF Distinct
  <2>. QED BY <1>1, <2>3
<1>. QED BY <1>1, <1>2, <1>3, <1>4 DEF Served

(* virtio_disk_rw() with its three descriptors d, e and f. *)
Submitted(p) ==
    /\ pc[p] = "rw" /\ pc' = [pc EXCEPT ![p] = "disk_sleep"]
    /\ \E d, e, f \in free :
          /\ d # e /\ e # f /\ f # d
          /\ free' = free \ {d, e, f}
          /\ idx' = [idx EXCEPT ![p] = <<d, e, f>>]
          /\ info' = [info EXCEPT ![d] = [b |-> buf[p], block |-> blockno[buf[p]],
                                          write |-> writes[p]]]
          /\ avail' = avail \cup {d}
    /\ owned' = [owned EXCEPT ![buf[p]] = TRUE]
    /\ UNCHANGED <<disk, cache, valid, data, lock, used, irq, intr, buf, writes>>

(* It is what Submit does. *)
LEMMA SubmitEffect ==
    ASSUME TypeOK, NEW p \in Proc, Submit(p)
    PROVE  Submitted(p)
<1>1. PICK d, e, f \in free : d # e /\ e # f /\ f # d /\ Alloc3 = <<d, e, f>>
  <2>1. CanAlloc3
    BY DEF Submit
  <2>. QED BY <2>1, Alloc3Facts
<1>2. Alloc3[1] = d /\ {Alloc3[i] : i \in 1 .. 3} = {d, e, f}
  <2>1. Three(Alloc3)
    BY <1>1 DEF TypeOK, Three
  <2>. QED BY <1>1, <2>1, ThreeFacts
<1>3. /\ free' = free \ {Alloc3[i] : i \in 1 .. 3}
      /\ idx' = [idx EXCEPT ![p] = Alloc3]
      /\ info' = [info EXCEPT ![Alloc3[1]] =
                     [b |-> buf[p], block |-> blockno[buf[p]], write |-> writes[p]]]
      /\ avail' = avail \cup {Alloc3[1]}
  BY DEF Submit
<1>4. /\ free' = free \ {d, e, f} /\ idx' = [idx EXCEPT ![p] = <<d, e, f>>]
      /\ info' = [info EXCEPT ![d] = [b |-> buf[p], block |-> blockno[buf[p]],
                                      write |-> writes[p]]]
      /\ avail' = avail \cup {d}
  BY <1>1, <1>2, <1>3
<1>5. /\ pc[p] = "rw" /\ pc' = [pc EXCEPT ![p] = "disk_sleep"]
      /\ owned' = [owned EXCEPT ![buf[p]] = TRUE]
      /\ UNCHANGED <<disk, cache, valid, data, lock, used, irq, intr, buf, writes>>
  BY DEF Submit, Goto
<1>. QED BY <1>1, <1>4, <1>5 DEF Submitted

(* The end of virtio_disk_rw(), when the request has been served. *)
Finished(p) ==
    /\ pc[p] = "disk_awake" /\ ~owned[buf[p]]
    /\ free' = free \cup Chain(p)
    /\ info' = [info EXCEPT ![First(p)] = NoRequest]
    /\ idx' = [idx EXCEPT ![p] = <<>>]
    /\ valid' = [valid EXCEPT ![buf[p]] = TRUE]
    /\ writes' = [writes EXCEPT ![p] = FALSE]
    /\ pc' = [q \in Proc |-> IF q = p THEN IF writes[p] THEN "wrote" ELSE "hold"
                             ELSE IF pc[q] = "desc_sleep" THEN "rw" ELSE pc[q]]
    /\ UNCHANGED <<disk, cache, data, owned, lock, avail, used, irq, intr, buf>>

(* It is what Done does. *)
LEMMA DoneEffect ==
    ASSUME TypeOK, ChainInv, NEW p \in Proc, Done(p)
    PROVE  Finished(p)
<1>1. /\ pc[p] = "disk_awake" /\ ~owned[buf[p]]
      /\ info' = [info EXCEPT ![First(p)] = NoRequest]
      /\ idx' = [idx EXCEPT ![p] = <<>>]
      /\ valid' = [valid EXCEPT ![buf[p]] = TRUE]
      /\ writes' = [writes EXCEPT ![p] = FALSE]
      /\ UNCHANGED <<disk, cache, data, owned, lock, avail, used, irq, intr, buf>>
      /\ free' = free \cup {idx[p][i] : i \in 1 .. 3}
  BY DEF Done, First
<1>2. {idx[p][i] : i \in 1 .. 3} = Chain(p)
  <2>1. Three(idx[p])
    BY <1>1 DEF ChainInv, InFlight
  <2>. QED BY <2>1, ThreeFacts DEF Chain
<1>3. pc' = [q \in Proc |-> IF q = p THEN IF writes[p] THEN "wrote" ELSE "hold"
                            ELSE IF pc[q] = "desc_sleep" THEN "rw" ELSE pc[q]]
  <2>1. GotoWaking(p, IF writes[p] THEN "wrote" ELSE "hold", DescSleepers, "rw")
    BY Zenon DEF Done
  <2>. QED BY <2>1 DEF GotoWaking, DescSleepers
<1>. QED BY <1>1, <1>2, <1>3, Zenon DEF Finished

(* alloc3_desc() fails, and p sleeps. *)
Refused(p) ==
    /\ pc[p] = "rw" /\ ~CanAlloc3
    /\ pc'[p] = "desc_sleep" /\ DOMAIN pc' = Proc
    /\ pc' = [q \in Proc |-> pc'[q]]
    /\ \A q \in Proc \ {p} :
          pc'[q] = pc[q] \/ (pc[q] = "desc_sleep" /\ pc'[q] = "rw")
    /\ UNCHANGED <<disk, cache, buffers, queue, irq, intr, buf, writes, idx>>

(* It is what NoDesc does. *)
LEMMA NoDescEffect ==
    ASSUME NEW p \in Proc, NoDesc(p)
    PROVE  Refused(p)
<1>1. PICK Q \in SUBSET DescSleepers :
           GotoWaking(p, "desc_sleep", Q, "rw")
  BY DEF NoDesc
<1>2. /\ pc'[p] = "desc_sleep" /\ DOMAIN pc' = Proc
      /\ pc' = [q \in Proc |-> pc'[q]]
      /\ \A q \in Proc \ {p} :
            pc'[q] = pc[q] \/ (pc[q] = "desc_sleep" /\ pc'[q] = "rw")
  BY <1>1 DEF GotoWaking, DescSleepers
<1>3. /\ pc[p] = "rw" /\ ~CanAlloc3
      /\ UNCHANGED <<disk, cache, buffers, queue, irq, intr, buf, writes, idx>>
  BY DEF NoDesc
<1>. QED BY <1>2, <1>3 DEF Refused

(* A buffer counts as many users as it has, and one more if it is pinned. *)
LEMMA CountFacts ==
    ASSUME CountInv, NEW b \in Buf
    PROVE  /\ IsFiniteSet(Users(b)) /\ Cardinality(Users(b)) \in Nat
           /\ refcnt[b] = Cardinality(Users(b)) + (IF b \in pinned THEN 1 ELSE 0)
           /\ refcnt[b] \in Nat
           /\ (b \in pinned \/ Users(b) # {}) => refcnt[b] - 1 \in Nat
           /\ refcnt[b] = 0 => b \notin pinned /\ Users(b) = {}
<1>1. IsFiniteSet(Users(b))
  BY ConstFacts, FS_Subset DEF Users
<1>2. Cardinality(Users(b)) \in Nat
      /\ (Users(b) # {} => Cardinality(Users(b)) # 0)
  BY <1>1, FS_CardinalityType, FS_EmptySet
<1>3. refcnt[b] = Cardinality(Users(b)) + (IF b \in pinned THEN 1 ELSE 0)
  BY DEF CountInv
<1>. QED BY <1>1, <1>2, <1>3

(* A request that the device has is that of a thread in the driver. *)
LEMMA ServeFacts ==
    ASSUME IInv, NEW d \in avail \cup Served
    PROVE  \E p \in Proc :
              /\ InFlight(p) /\ HasLock(p) /\ First(p) = d
              /\ buf[p] \in Buf /\ blockno[buf[p]] \in Block
              /\ lock[buf[p]] = p /\ owned[buf[p]]
              /\ info[d] = [b |-> buf[p], block |-> blockno[buf[p]],
                            write |-> writes[p]]
<1>1. PICK p \in Proc : InFlight(p) /\ First(p) = d
  BY DEF IInv, RequestInv
<1>2. HasLock(p)
  BY <1>1 DEF InFlight, HasLock
<1>3. buf[p] \in Buf /\ blockno[buf[p]] \in Block
  BY <1>2, LockFacts DEF IInv
<1>4. lock[buf[p]] = p
  BY <1>2 DEF IInv, LockInv
<1>5. owned[buf[p]] /\ info[d] = [b |-> buf[p], block |-> blockno[buf[p]],
                                  write |-> writes[p]]
  BY <1>1 DEF IInv, RequestInv
<1>. QED BY <1>1, <1>2, <1>3, <1>4, <1>5

(* Such a step keeps what is known of the requests. *)
LEMMA ChainFrame ==
    ASSUME ChainInv, UNCHANGED <<free, idx>>,
           \A p \in Proc : InFlight(p)' <=> InFlight(p)
    PROVE  ChainInv'
<1>1. \A p \in Proc : Chain(p)' = Chain(p)
  BY DEF Chain
<1>2. \A p \in Proc : IF InFlight(p)' THEN Three(idx'[p]) ELSE idx'[p] = <<>>
  BY DEF ChainInv
<1>3. /\ \A d \in Desc : d \in free' \/ \E p \in Proc : d \in Chain(p)'
      /\ \A p \in Proc : free' \cap Chain(p)' = {}
      /\ \A p, q \in Proc : p # q => Chain(p)' \cap Chain(q)' = {}
  BY <1>1 DEF ChainInv
<1>. QED BY <1>2, <1>3 DEF ChainInv, Three

(* The same for the requests. *)
LEMMA RequestFrame ==
    ASSUME IInv, Frame
    PROVE  RequestInv'
<1>1. /\ \A p \in Proc : First(p)' = First(p)
      /\ Served' = Served /\ (Distinct(used))' = Distinct(used)
      /\ avail' = avail /\ owned' = owned /\ info' = info
  BY DEF Frame, First, Served, Distinct
<1>2. \A p \in Proc : pc'[p] = "disk_sleep" => InFlight(p)'
  BY DEF InFlight
<1>. QED BY <1>1, <1>2 DEF Frame, Same, IInv, RequestInv

------------------------------------------------------------------------------
(* All but four actions are such steps. *)
LEMMA FrameStep ==
    ASSUME IInv, [Next]_vars
    PROVE  \/ Frame \/ IntrNext \/ (\E d \in Desc : Serve(d))
           \/ \E p \in Proc : Submit(p) \/ Done(p)
<1>0. \A q \in Proc : pc[q] = "disk_sleep" => owned[buf[q]]
  BY DEF IInv, RequestInv
<1>. USE <1>0, ConstFacts DEF IInv, TypeOK, Frame, Same, InFlight, cache,
   buffers, queue, locals
<1>1. ASSUME NEW p \in Proc, NEW blk \in Block, Hit(p, blk) PROVE Frame
  BY <1>1 DEF Hit, Goto
<1>2. ASSUME NEW p \in Proc, NEW blk \in Block, Recycle(p, blk) PROVE Frame
  <2>1. PICK b \in Buf :
            /\ refcnt[b] = 0
            /\ blockno' = [blockno EXCEPT ![b] = blk]
            /\ buf' = [buf EXCEPT ![p] = b]
    BY <1>2 DEF Recycle, Unused
  <2>2. \A q \in Proc : buf[q] # b
    BY <2>1, CountFacts DEF Users
  <2>. QED BY <1>2, <2>1, <2>2 DEF Recycle, Goto
<1>3. ASSUME NEW p \in Proc, NEW blk \in Block, Panic(p, blk) PROVE Frame
  BY <1>3 DEF Panic, Goto
<1>4. ASSUME NEW p \in Proc, AcquireSleep(p) PROVE Frame
  BY <1>4 DEF AcquireSleep, Goto
<1>5. ASSUME NEW p \in Proc, NoDesc(p) PROVE Frame
  <2>1. Refused(p)
    BY <1>5, NoDescEffect, Zenon
  <2>. QED BY <2>1 DEF Refused
<1>6. ASSUME NEW p \in Proc, SleepAgain(p) PROVE Frame
  BY <1>6 DEF SleepAgain, Goto
<1>7. CASE IntrEnter
  BY <1>7 DEF IntrEnter
<1>8. CASE IntrLast
  BY <1>8 DEF IntrLast
<1>9. CASE IntrExit
  BY <1>9 DEF IntrExit
<1>10. ASSUME NEW p \in Proc, NEW v \in Value, WriteLog(p, v) PROVE Frame
  <2>1. pc[p] = "hold" /\ writes' = [writes EXCEPT ![p] = TRUE]
    BY <1>10 DEF WriteLog, Change, Bwrite
  <2>2. \A q \in Proc \ {p} : writes'[q] = writes[q]
    BY <2>1
  <2>. QED BY <1>10, <2>1, <2>2 DEF WriteLog, Change, Bwrite, Goto
<1>11. ASSUME NEW p \in Proc, Install(p) PROVE Frame
  <2>1. pc[p] = "hold" /\ writes' = [writes EXCEPT ![p] = TRUE]
    BY <1>11 DEF Install, Bwrite
  <2>2. \A q \in Proc \ {p} : writes'[q] = writes[q]
    BY <2>1
  <2>. QED BY <1>11, <2>1, <2>2 DEF Install, Bwrite, Goto
<1>12. ASSUME NEW p \in Proc, NEW v \in Value, LogWrite(p, v) PROVE Frame
  BY <1>12 DEF LogWrite, Change
<1>13. ASSUME NEW p \in Proc, Unpin(p) PROVE Frame
  BY <1>13 DEF Unpin, Goto
<1>14. ASSUME NEW p \in Proc, Release(p) PROVE Frame
  BY <1>14 DEF Release, GotoWaking, LockSleepers
<1>15. ASSUME NEW p \in Proc, Unref(p) PROVE Frame
  BY <1>15 DEF Unref, Goto
<1>16. ASSUME NEW p \in Proc, Kill(p) PROVE Frame
  BY <1>16 DEF Kill, Goto
<1>17. CASE UNCHANGED vars
  BY <1>17 DEF vars
<1>. QED BY <1>1, <1>2, <1>3, <1>4, <1>5, <1>6, <1>7, <1>8, <1>9, <1>10,
   <1>11, <1>12, <1>13, <1>14, <1>15, <1>16, <1>17, StepCases

(* Each step keeps the types. *)
LEMMA TypeOKStep == ASSUME IInv, [Next]_vars PROVE TypeOK'
<1>. USE ConstFacts DEF IInv, cache, buffers, queue, locals
<1>1. ASSUME NEW p \in Proc, NEW blk \in Block, Hit(p, blk) PROVE TypeOK'
  BY <1>1 DEF Hit, Goto, TypeOK, Request, NoRequest, Holding
<1>2. ASSUME NEW p \in Proc, NEW blk \in Block, Recycle(p, blk) PROVE TypeOK'
  BY <1>2 DEF Recycle, Goto, Unused, Cached, TypeOK, Request, NoRequest,
     Holding
<1>3. ASSUME NEW p \in Proc, NEW blk \in Block, Panic(p, blk) PROVE TypeOK'
  BY <1>3 DEF Panic, Goto, TypeOK, Request, NoRequest, Holding
<1>4. ASSUME NEW p \in Proc, AcquireSleep(p) PROVE TypeOK'
  <2>1. \E l \in Label : Goto(p, l)
    BY <1>4 DEF AcquireSleep, Label, Holding
  <2>2. pc' \in [Proc -> Label]
    BY <2>1, GotoType
  <2>3. lock' \in [Buf -> Proc \cup {None}]
    <3>1. lock' = lock \/ lock' = [lock EXCEPT ![buf[p]] = p]
      BY <1>4 DEF AcquireSleep
    <3>. QED BY <3>1 DEF TypeOK
  <2>. QED BY <1>4, <2>2, <2>3 DEF AcquireSleep, TypeOK, Label
<1>5. ASSUME NEW p \in Proc, Submit(p) PROVE TypeOK'
  <2>1. Submitted(p)
    BY <1>5, SubmitEffect, Zenon
  <2>2. PICK d, e, f \in free :
            /\ d # e /\ e # f /\ f # d
            /\ free' = free \ {d, e, f}
            /\ idx' = [idx EXCEPT ![p] = <<d, e, f>>]
            /\ info' = [info EXCEPT ![d] = [b |-> buf[p], block |-> blockno[buf[p]],
                                            write |-> writes[p]]]
            /\ avail' = avail \cup {d}
    BY <2>1 DEF Submitted
  <2>3. HasLock(p)
    BY <2>1 DEF Submitted, HasLock
  <2>4. buf[p] \in Buf /\ blockno[buf[p]] \in Block /\ writes[p] \in BOOLEAN
    BY <2>3, LockFacts DEF TypeOK
  <2>5. info' \in [Desc -> Request \cup {NoRequest}]
    BY <2>2, <2>4 DEF TypeOK, Request
  <2>6. idx' \in [Proc -> Seq(Desc)]
    <3>1. <<d, e, f>> \in Seq(Desc)
      BY DEF TypeOK
    <3>. QED BY <2>2, <3>1 DEF TypeOK
  <2>7. free' \subseteq Desc /\ avail' \subseteq Desc
    BY <2>2 DEF TypeOK
  <2>8. pc' \in [Proc -> Label]
    BY <2>1 DEF Submitted, Label, Holding, TypeOK
  <2>9. owned' \in [Buf -> BOOLEAN]
    BY <2>1 DEF Submitted, TypeOK
  <2>. QED BY <2>1, <2>5, <2>6, <2>7, <2>8, <2>9 DEF Submitted, TypeOK, Label
<1>6. ASSUME NEW p \in Proc, NoDesc(p) PROVE TypeOK'
  <2>1. Refused(p)
    BY <1>6, NoDescEffect, Zenon
  <2>2. pc' = [q \in Proc |-> pc'[q]] /\ \A q \in Proc : pc'[q] \in Label
    <3>1. \A q \in Proc : pc[q] \in Label
      BY DEF TypeOK, Label
    <3>. QED BY <2>1, <3>1 DEF Refused, Label
  <2>3. pc' \in [Proc -> Label]
    BY <2>2
  <2>. QED BY <2>1, <2>3 DEF Refused, TypeOK, Label
<1>7. ASSUME NEW p \in Proc, SleepAgain(p) PROVE TypeOK'
  BY <1>7 DEF SleepAgain, Goto, TypeOK, Request, NoRequest, Holding
<1>8. ASSUME NEW p \in Proc, Done(p) PROVE TypeOK'
  <2>1. Finished(p)
    BY <1>8, DoneEffect, Zenon
  <2>2. pc' \in [Proc -> Label]
    BY <2>1 DEF Finished, Label, Holding, TypeOK
  <2>3. free' \subseteq Desc
    BY <2>1, ChainFacts DEF Finished, TypeOK, InFlight
  <2>4. idx' \in [Proc -> Seq(Desc)]
    BY <2>1 DEF Finished, TypeOK
  <2>5. info' \in [Desc -> Request \cup {NoRequest}]
    BY <2>1 DEF Finished, TypeOK
  <2>6. valid' \in [Buf -> BOOLEAN] /\ writes' \in [Proc -> BOOLEAN]
    BY <2>1 DEF Finished, TypeOK
  <2>. QED BY <2>1, <2>2, <2>3, <2>4, <2>5, <2>6 DEF Finished, TypeOK, Label
<1>9. ASSUME NEW d \in Desc, Serve(d) PROVE TypeOK'
  <2>1. PICK p \in Proc :
            /\ buf[p] \in Buf /\ blockno[buf[p]] \in Block
            /\ info[d] = [b |-> buf[p], block |-> blockno[buf[p]],
                          write |-> writes[p]]
    BY <1>9, ServeFacts, Zenon DEF Serve
  <2>2. disk' \in [Block -> Value] /\ data' \in [Buf -> Value]
    <3>1. /\ info[d].b = buf[p] /\ info[d].block = blockno[buf[p]]
          /\ data \in [Buf -> Value] /\ disk \in [Block -> Value]
      BY <2>1 DEF TypeOK
    <3>2. \/ /\ disk' = [disk EXCEPT ![blockno[buf[p]]] = data[buf[p]]]
             /\ data' = data
          \/ /\ data' = [data EXCEPT ![buf[p]] = disk[blockno[buf[p]]]]
             /\ disk' = disk
      BY <1>9, <3>1, Zenon DEF Serve
    <3>. QED BY <2>1, <3>1, <3>2
  <2>3. used' \in Seq(Desc) /\ avail' \subseteq Desc
    BY <1>9, ServedAppend DEF Serve, TypeOK
  <2>. QED BY <1>9, <2>2, <2>3 DEF Serve, TypeOK
<1>10. CASE IntrEnter
  BY <1>10 DEF IntrEnter, TypeOK, Request, NoRequest, Holding
<1>11. CASE IntrNext
  <2>1. used' \in Seq(Desc)
    BY <1>11, ServedTail DEF IntrNext, TypeOK, RequestInv
  <2>2. pc' \in [Proc -> Label]
    BY <1>11 DEF IntrNext, TypeOK, Label, Holding
  <2>3. owned' \in [Buf -> BOOLEAN]
    BY <1>11 DEF IntrNext, TypeOK
  <2>. QED BY <1>11, <2>1, <2>2, <2>3 DEF IntrNext, TypeOK, Label
<1>12. CASE IntrLast
  BY <1>12 DEF IntrLast, TypeOK, Request, NoRequest, Holding
<1>13. CASE IntrExit
  BY <1>13 DEF IntrExit, TypeOK, Request, NoRequest, Holding
<1>14. ASSUME NEW p \in Proc, NEW v \in Value, WriteLog(p, v) PROVE TypeOK'
  <2>1. changes' = changes + 1 /\ data' = [data EXCEPT ![buf[p]] = v]
    BY <1>14 DEF WriteLog, LogWrite, Change
  <2>2. changes' \in Nat
    BY <2>1 DEF TypeOK
  <2>3. data' \in [Buf -> Value]
    BY <2>1 DEF TypeOK
  <2>4. Goto(p, "rw") /\ writes' \in [Proc -> BOOLEAN]
    BY <1>14 DEF WriteLog, Bwrite, TypeOK
  <2>5. pc' \in [Proc -> Label]
    BY <2>4, GotoType DEF Label
  <2>. QED BY <1>14, <2>2, <2>3, <2>4, <2>5 DEF WriteLog, Bwrite, TypeOK, Label
<1>15. ASSUME NEW p \in Proc, Install(p) PROVE TypeOK'
  BY <1>15 DEF Install, Bwrite, Goto, TypeOK, Request, NoRequest, Holding
<1>16. ASSUME NEW p \in Proc, NEW v \in Value, LogWrite(p, v) PROVE TypeOK'
  <2>1. changes' = changes + 1 /\ data' = [data EXCEPT ![buf[p]] = v]
    BY <1>16 DEF WriteLog, LogWrite, Change
  <2>2. changes' \in Nat
    BY <2>1 DEF TypeOK
  <2>3. data' \in [Buf -> Value]
    BY <2>1 DEF TypeOK
  <2>4. buf[p] \in Buf
    <3>1. HasLock(p)
      BY <1>16 DEF LogWrite, Change, HasLock
    <3>. QED BY <3>1, LockFacts
  <2>5. refcnt' \in [Buf -> Nat]
    <3>1. refcnt \in [Buf -> Nat]
      BY DEF TypeOK
    <3>2. refcnt' = refcnt \/ refcnt' = [refcnt EXCEPT ![buf[p]] = @ + 1]
      BY <1>16 DEF LogWrite
    <3>. QED BY <2>4, <3>1, <3>2
  <2>6. pinned' \subseteq Buf
    BY <1>16, <2>4 DEF LogWrite, TypeOK
  <2>. QED BY <1>16, <2>2, <2>3, <2>5, <2>6 DEF LogWrite, TypeOK
<1>17. ASSUME NEW p \in Proc, Unpin(p) PROVE TypeOK'
  <2>1. buf[p] \in Buf /\ buf[p] \in pinned /\ Goto(p, "hold")
    BY <1>17 DEF Unpin, TypeOK
  <2>2. refcnt[buf[p]] - 1 \in Nat
    BY <2>1, CountFacts
  <2>3. refcnt' \in [Buf -> Nat] /\ pinned' \subseteq Buf
    BY <1>17, <2>2 DEF Unpin, TypeOK
  <2>4. pc' \in [Proc -> Label]
    BY <2>1, GotoType DEF Label, Holding
  <2>. QED BY <1>17, <2>3, <2>4 DEF Unpin, TypeOK, Label
<1>18. ASSUME NEW p \in Proc, Release(p) PROVE TypeOK'
  BY <1>18 DEF Release, GotoWaking, LockSleepers, TypeOK, Request, NoRequest,
     Holding
<1>19. ASSUME NEW p \in Proc, Unref(p) PROVE TypeOK'
  <2>1. buf[p] \in Buf /\ p \in Users(buf[p]) /\ Goto(p, "idle")
    <3>1. pc[p] = "unref" /\ Goto(p, "idle")
      BY <1>19 DEF Unref
    <3>2. buf[p] # None /\ buf[p] \in Buf \cup {None}
      BY <3>1 DEF LockInv, TypeOK
    <3>. QED BY <3>1, <3>2 DEF Users
  <2>2. refcnt[buf[p]] - 1 \in Nat
    BY <2>1, CountFacts
  <2>3. refcnt' \in [Buf -> Nat] /\ buf' \in [Proc -> Buf \cup {None}]
    BY <1>19, <2>2 DEF Unref, TypeOK
  <2>4. pc' \in [Proc -> Label]
    BY <2>1, GotoType DEF Label
  <2>. QED BY <1>19, <2>3, <2>4 DEF Unref, TypeOK, Label
<1>20. ASSUME NEW p \in Proc, Kill(p) PROVE TypeOK'
  BY <1>20 DEF Kill, Goto, TypeOK, Request, NoRequest, Holding
<1>21. CASE UNCHANGED vars
  BY <1>21 DEF vars, TypeOK, Request, NoRequest, Holding
<1>. QED BY <1>1, <1>2, <1>3, <1>4, <1>5, <1>6, <1>7, <1>8, <1>9, <1>10,
   <1>11, <1>12, <1>13, <1>14, <1>15, <1>16, <1>17, <1>18, <1>19, <1>20,
   <1>21, StepCases

(* acquiresleep() and releasesleep() keep a lock with its holder. *)
LEMMA LockInvStep == ASSUME IInv, [Next]_vars PROVE LockInv'
<1>. USE ConstFacts DEF IInv, cache, buffers, queue, locals
<1>1. ASSUME NEW p \in Proc, NEW blk \in Block, Hit(p, blk) PROVE LockInv'
  BY <1>1 DEF Hit, Goto, TypeOK, LockInv, Holding, HasLock
<1>2. ASSUME NEW p \in Proc, NEW blk \in Block, Recycle(p, blk) PROVE
   LockInv'
  BY <1>2 DEF Recycle, Goto, Unused, Cached, TypeOK, LockInv, Holding,
     HasLock
<1>3. ASSUME NEW p \in Proc, NEW blk \in Block, Panic(p, blk) PROVE LockInv'
  BY <1>3 DEF Panic, Goto, TypeOK, LockInv, Holding, HasLock
<1>4. ASSUME NEW p \in Proc, AcquireSleep(p) PROVE LockInv'
  <2>. DEFINE b == buf[p]
  <2>1. /\ pc[p] = "lock" /\ b \in Buf
        /\ UNCHANGED <<blockno, buf>>
    <3>1. pc[p] = "lock" /\ UNCHANGED <<blockno, buf>>
      BY <1>4 DEF AcquireSleep
    <3>2. b # None /\ b \in Buf \cup {None}
      BY <3>1 DEF LockInv, TypeOK
    <3>. QED BY <3>1, <3>2
  <2>2. CASE lock[b] # None
    <3>1. pc' = [pc EXCEPT ![p] = "lock_sleep"] /\ lock' = lock
      BY <1>4, <2>2 DEF AcquireSleep, Goto
    <3>. QED BY <2>1, <2>2, <3>1 DEF TypeOK, LockInv, HasLock
  <2>3. CASE lock[b] = None
    <3>1. PICK l \in {"hold", "rw"} : pc' = [pc EXCEPT ![p] = l]
      BY <1>4, <2>3 DEF AcquireSleep, Goto
    <3>2. lock' = [lock EXCEPT ![b] = p]
      BY <1>4, <2>3 DEF AcquireSleep
    <3>3. \A q \in Proc : HasLock(q)' <=> HasLock(q) \/ q = p
      BY <2>1, <3>1 DEF TypeOK, HasLock
    <3>4. \A q \in Proc : HasLock(q) => buf[q] # b
      BY <2>3, ConstFacts DEF LockInv
    <3>. QED BY <2>1, <2>3, <3>1, <3>2, <3>3, <3>4 DEF TypeOK, LockInv
  <2>. QED BY <2>2, <2>3
<1>5. ASSUME NEW p \in Proc, Submit(p) PROVE LockInv'
  <2>1. Submitted(p)
    BY <1>5, SubmitEffect, Zenon
  <2>. QED BY <2>1 DEF Submitted, TypeOK, LockInv, Holding, HasLock
<1>6. ASSUME NEW p \in Proc, NoDesc(p) PROVE LockInv'
  <2>1. Refused(p)
    BY <1>6, NoDescEffect, Zenon
  <2>2. \A q \in Proc : /\ HasLock(q)' <=> HasLock(q)
                        /\ pc'[q] = "lock_sleep" <=> pc[q] = "lock_sleep"
                        /\ pc'[q] \in {"idle", "panic"} <=>
                              pc[q] \in {"idle", "panic"}
    <3>1. ASSUME NEW q \in Proc
          PROVE  \/ pc'[q] = pc[q]
                 \/ /\ pc[q] \in {"rw", "desc_sleep"}
                    /\ pc'[q] \in {"rw", "desc_sleep"}
      BY <2>1 DEF Refused
    <3>. QED BY <3>1 DEF HasLock
  <2>3. UNCHANGED <<buf, blockno, lock>>
    BY <2>1 DEF Refused
  <2>. QED BY <2>2, <2>3 DEF LockInv, HasLock, TypeOK
<1>7. ASSUME NEW p \in Proc, SleepAgain(p) PROVE LockInv'
  BY <1>7 DEF SleepAgain, Goto, TypeOK, LockInv, Holding, HasLock
<1>8. ASSUME NEW p \in Proc, Done(p) PROVE LockInv'
  <2>1. Finished(p)
    BY <1>8, DoneEffect, Zenon
  <2>. QED BY <2>1 DEF Finished, TypeOK, LockInv, Holding, HasLock
<1>9. ASSUME NEW d \in Desc, Serve(d) PROVE LockInv'
  BY <1>9 DEF Serve, TypeOK, LockInv, Holding, HasLock
<1>10. CASE IntrEnter
  BY <1>10 DEF IntrEnter, TypeOK, LockInv, Holding, HasLock
<1>11. CASE IntrNext
  BY <1>11 DEF IntrNext, DiskSleepers, TypeOK, LockInv, Holding, HasLock
<1>12. CASE IntrLast
  BY <1>12 DEF IntrLast, TypeOK, LockInv, Holding, HasLock
<1>13. CASE IntrExit
  BY <1>13 DEF IntrExit, TypeOK, LockInv, Holding, HasLock
<1>14. ASSUME NEW p \in Proc, NEW v \in Value, WriteLog(p, v) PROVE LockInv'
  BY <1>14 DEF WriteLog, Change, Bwrite, Goto, TypeOK, LockInv, Holding,
     HasLock
<1>15. ASSUME NEW p \in Proc, Install(p) PROVE LockInv'
  BY <1>15 DEF Install, Bwrite, Goto, TypeOK, LockInv, Holding, HasLock
<1>16. ASSUME NEW p \in Proc, NEW v \in Value, LogWrite(p, v) PROVE LockInv'
  BY <1>16 DEF LogWrite, Change, TypeOK, LockInv, Holding, HasLock
<1>17. ASSUME NEW p \in Proc, Unpin(p) PROVE LockInv'
  BY <1>17 DEF Unpin, Goto, TypeOK, LockInv, Holding, HasLock
<1>18. ASSUME NEW p \in Proc, Release(p) PROVE LockInv'
  <2>. DEFINE b == buf[p]
  <2>1. /\ pc[p] \in Holding /\ HasLock(p) /\ UNCHANGED <<buf, blockno>>
        /\ lock' = [lock EXCEPT ![b] = None]
    BY <1>18 DEF Release, Holding, HasLock
  <2>2. b \in Buf /\ lock[b] = p
    BY <2>1, LockFacts DEF LockInv
  <2>3. \A q \in Proc \ {p} : /\ HasLock(q)' <=> HasLock(q)
                              /\ HasLock(q) => buf[q] # b
                              /\ pc'[q] \in {"idle", "panic"} <=>
                                    pc[q] \in {"idle", "panic"}
                              /\ pc'[q] = "lock_sleep" =>
                                    pc[q] = "lock_sleep" /\ buf[q] # b
    <3>1. ASSUME NEW q \in Proc \ {p}
          PROVE  \/ pc'[q] = pc[q] /\ (pc[q] = "lock_sleep" => buf[q] # b)
                 \/ pc[q] = "lock_sleep" /\ pc'[q] = "lock"
      BY <1>18 DEF Release, GotoWaking, LockSleepers
    <3>2. \A q \in Proc \ {p} : HasLock(q) => buf[q] # b
      BY <2>1, LockFacts
    <3>. QED BY <3>1, <3>2 DEF HasLock
  <2>4. pc'[p] = "unref"
    BY <1>18 DEF Release, GotoWaking
  <2>5. \A c \in Buf : c # b => lock'[c] = lock[c]
    BY <2>1, <2>2 DEF TypeOK
  <2>10. \A q \in Proc : pc[q] \notin {"idle", "panic"} => buf[q] \in Buf
    BY DEF LockInv, TypeOK
  <2>6. \A q \in Proc : pc'[q] = "lock_sleep" => lock'[buf'[q]] # None
    BY <2>1, <2>3, <2>4, <2>5, <2>10 DEF LockInv
  <2>7. \A q \in Proc : HasLock(q)' => lock'[buf'[q]] = q
    <3>1. ~HasLock(p)'
      BY <2>4 DEF HasLock
    <3>2. ASSUME NEW q \in Proc \ {p}, HasLock(q) PROVE lock'[buf[q]] = q
      BY <2>3, <2>5, <2>10, <3>2, LockFacts DEF LockInv
    <3>. QED BY <2>1, <2>3, <3>1, <3>2 DEF HasLock
  <2>8. \A q \in Proc : /\ buf'[q] = None <=> pc'[q] \in {"idle", "panic"}
                        /\ buf'[q] # None => blockno'[buf'[q]] # None
    BY <2>1, <2>3, <2>4 DEF LockInv, Holding
  <2>9. ASSUME NEW c \in Buf, lock'[c] # None
        PROVE  HasLock(lock[c])' /\ buf'[lock'[c]] = c
    <3>1. c # b /\ lock'[c] = lock[c] /\ lock[c] \in Proc
      BY <2>1, <2>2, <2>9 DEF TypeOK
    <3>2. HasLock(lock[c]) /\ buf[lock[c]] = c
      BY <2>9, <3>1 DEF LockInv
    <3>3. lock[c] # p
      BY <3>1, <3>2
    <3>. QED BY <2>1, <2>3, <3>1, <3>2, <3>3 DEF HasLock
  <2>. QED BY <2>6, <2>7, <2>8, <2>9 DEF LockInv, HasLock
<1>19. ASSUME NEW p \in Proc, Unref(p) PROVE LockInv'
  BY <1>19 DEF Unref, Goto, TypeOK, LockInv, Holding, HasLock
<1>20. ASSUME NEW p \in Proc, Kill(p) PROVE LockInv'
  <2>1. \A q \in Proc :
            \/ pc'[q] = pc[q]
            \/ pc[q] = "lock_sleep" /\ pc'[q] = "lock"
            \/ pc[q] = "desc_sleep" /\ pc'[q] = "rw"
            \/ pc[q] = "disk_sleep" /\ pc'[q] = "disk_awake"
    BY <1>20 DEF Kill, Goto, TypeOK
  <2>2. \A q \in Proc : /\ HasLock(q)' <=> HasLock(q)
                        /\ pc'[q] = "lock_sleep" => pc[q] = "lock_sleep"
                        /\ pc'[q] \in {"idle", "panic"} <=>
                              pc[q] \in {"idle", "panic"}
    BY <2>1 DEF HasLock
  <2>3. UNCHANGED <<buf, blockno, lock>>
    BY <1>20 DEF Kill
  <2>. QED BY <2>2, <2>3 DEF LockInv, HasLock, TypeOK
<1>21. CASE UNCHANGED vars
  BY <1>21 DEF vars, TypeOK, LockInv, Holding, HasLock
<1>. QED BY <1>1, <1>2, <1>3, <1>4, <1>5, <1>6, <1>7, <1>8, <1>9, <1>10,
   <1>11, <1>12, <1>13, <1>14, <1>15, <1>16, <1>17, <1>18, <1>19, <1>20,
   <1>21, StepCases

(* Data are valid from the first bread() on until bget() recycles the buffer. *)
LEMMA ValidInvStep == ASSUME IInv, [Next]_vars PROVE ValidInv'
<1>. USE ConstFacts DEF IInv, cache, buffers, queue, locals
<1>1. ASSUME NEW p \in Proc, NEW blk \in Block, Hit(p, blk) PROVE ValidInv'
  BY <1>1 DEF Hit, Goto, TypeOK, ValidInv, Holding, DiskPc
<1>2. ASSUME NEW p \in Proc, NEW blk \in Block, Recycle(p, blk) PROVE
   ValidInv'
  <2>1. PICK b \in Buf :
            /\ refcnt[b] = 0
            /\ blockno' = [blockno EXCEPT ![b] = blk]
            /\ valid' = [valid EXCEPT ![b] = FALSE]
            /\ buf' = [buf EXCEPT ![p] = b]
    BY <1>2 DEF Recycle, Unused
  <2>2. b \notin pinned /\ \A q \in Proc : buf[q] # b
    BY <2>1, CountFacts DEF Users
  <2>3. pc[p] = "idle" /\ pc' = [pc EXCEPT ![p] = "lock"] /\ UNCHANGED <<writes, pinned>>
    BY <1>2 DEF Recycle, Goto
  <2>4. \A q \in Proc \ {p} : buf'[q] = buf[q] /\ pc'[q] = pc[q]
    BY <2>1, <2>3 DEF TypeOK
  <2>5. \A q \in Proc \ {p} : buf[q] # None => valid'[buf[q]] = valid[buf[q]]
    BY <2>1, <2>2 DEF TypeOK
  <2>6. \A q \in Proc : pc[q] \in DiskPc \cup Holding => buf[q] # None
    BY DEF LockInv, DiskPc, Holding
  <2>7. pc'[p] = "lock" /\ ~writes[p]
    BY <2>3 DEF ValidInv, DiskPc, TypeOK
  <2>8. \A q \in Proc : /\ writes'[q] => pc'[q] \in DiskPc
                        /\ pc'[q] \in Holding => valid'[buf'[q]]
                        /\ pc'[q] \in DiskPc => (valid'[buf'[q]] <=> writes'[q])
    BY <2>3, <2>4, <2>5, <2>6, <2>7 DEF ValidInv, DiskPc, Holding
  <2>9. \A c \in Buf : valid'[c] => valid[c] /\ c # b
    BY <2>1 DEF TypeOK
  <2>10. \A c \in Buf : valid'[c] => blockno'[c] # None
    BY <2>1, <2>9 DEF ValidInv, TypeOK
  <2>11. \A c \in pinned : valid'[c]
    BY <2>1, <2>2 DEF ValidInv, TypeOK
  <2>. QED BY <2>3, <2>8, <2>10, <2>11 DEF ValidInv, DiskPc, Holding
<1>3. ASSUME NEW p \in Proc, NEW blk \in Block, Panic(p, blk) PROVE ValidInv'
  BY <1>3 DEF Panic, Goto, TypeOK, ValidInv, Holding, DiskPc
<1>4. ASSUME NEW p \in Proc, AcquireSleep(p) PROVE ValidInv'
  BY <1>4 DEF AcquireSleep, Goto, TypeOK, ValidInv, Holding, DiskPc
<1>5. ASSUME NEW p \in Proc, Submit(p) PROVE ValidInv'
  <2>1. Submitted(p)
    BY <1>5, SubmitEffect, Zenon
  <2>. QED BY <2>1 DEF Submitted, TypeOK, ValidInv, Holding, DiskPc
<1>6. ASSUME NEW p \in Proc, NoDesc(p) PROVE ValidInv'
  <2>1. Refused(p)
    BY <1>6, NoDescEffect, Zenon
  <2>. QED BY <2>1 DEF Refused, TypeOK, ValidInv, Holding, DiskPc
<1>7. ASSUME NEW p \in Proc, SleepAgain(p) PROVE ValidInv'
  BY <1>7 DEF SleepAgain, Goto, TypeOK, ValidInv, Holding, DiskPc
<1>8. ASSUME NEW p \in Proc, Done(p) PROVE ValidInv'
  <2>1. Finished(p)
    BY <1>8, DoneEffect, Zenon
  <2>2. HasLock(p) /\ buf[p] \in Buf /\ blockno[buf[p]] # None
    BY <2>1, LockFacts DEF Finished, HasLock
  <2>3. /\ valid' = [valid EXCEPT ![buf[p]] = TRUE]
        /\ writes' = [writes EXCEPT ![p] = FALSE]
        /\ UNCHANGED <<buf, blockno, pinned>>
    BY <2>1 DEF Finished
  <2>4. pc'[p] \in Holding /\ pc'[p] \notin DiskPc /\ valid'[buf[p]] /\ ~writes'[p]
    BY <2>1, <2>2 DEF Finished, Holding, DiskPc, TypeOK
  <2>5. ASSUME NEW q \in Proc \ {p}
        PROVE  /\ pc'[q] \in DiskPc <=> pc[q] \in DiskPc
               /\ pc'[q] \in Holding <=> pc[q] \in Holding
               /\ writes'[q] = writes[q]
    BY <2>1 DEF Finished, DiskPc, Holding, TypeOK
  <2>6. ASSUME NEW q \in Proc \ {p}, pc[q] \in DiskPc \cup Holding
        PROVE  valid'[buf[q]] = valid[buf[q]]
    <3>1. HasLock(q)
      BY <2>6 DEF DiskPc, Holding, HasLock
    <3>2. buf[q] # buf[p] /\ buf[q] \in Buf
      BY <2>2, <3>1, LockFacts
    <3>. QED BY <2>3, <3>2 DEF TypeOK
  <2>7. ASSUME NEW q \in Proc
        PROVE  /\ writes'[q] => pc'[q] \in DiskPc
               /\ pc'[q] \in Holding => valid'[buf'[q]]
               /\ pc'[q] \in DiskPc => (valid'[buf'[q]] <=> writes'[q])
    <3>1. CASE q = p
      BY <2>3, <2>4, <3>1
    <3>2. CASE q # p
      BY <2>3, <2>5, <2>6, <3>2 DEF ValidInv
    <3>. QED BY <3>1, <3>2
  <2>8. \A b \in Buf : valid'[b] <=> valid[b] \/ b = buf[p]
    BY <2>2, <2>3 DEF TypeOK
  <2>9. /\ \A b \in Buf : valid'[b] => blockno'[b] # None
        /\ \A b \in pinned' : valid'[b]
    BY <2>2, <2>3, <2>8 DEF ValidInv, TypeOK
  <2>. QED BY <2>7, <2>9 DEF ValidInv, DiskPc, Holding
<1>9. ASSUME NEW d \in Desc, Serve(d) PROVE ValidInv'
  BY <1>9 DEF Serve, TypeOK, ValidInv, Holding, DiskPc
<1>10. CASE IntrEnter
  BY <1>10 DEF IntrEnter, TypeOK, ValidInv, Holding, DiskPc
<1>11. CASE IntrNext
  BY <1>11 DEF IntrNext, DiskSleepers, TypeOK, ValidInv, Holding, DiskPc
<1>12. CASE IntrLast
  BY <1>12 DEF IntrLast, TypeOK, ValidInv, Holding, DiskPc
<1>13. CASE IntrExit
  BY <1>13 DEF IntrExit, TypeOK, ValidInv, Holding, DiskPc
<1>14. ASSUME NEW p \in Proc, NEW v \in Value, WriteLog(p, v) PROVE ValidInv'
  BY <1>14 DEF WriteLog, Change, Bwrite, Goto, TypeOK, ValidInv, Holding,
     DiskPc
<1>15. ASSUME NEW p \in Proc, Install(p) PROVE ValidInv'
  BY <1>15 DEF Install, Bwrite, Goto, TypeOK, ValidInv, Holding, DiskPc
<1>16. ASSUME NEW p \in Proc, NEW v \in Value, LogWrite(p, v) PROVE ValidInv'
  BY <1>16 DEF LogWrite, Change, TypeOK, ValidInv, Holding, DiskPc
<1>17. ASSUME NEW p \in Proc, Unpin(p) PROVE ValidInv'
  BY <1>17 DEF Unpin, Goto, TypeOK, ValidInv, Holding, DiskPc
<1>18. ASSUME NEW p \in Proc, Release(p) PROVE ValidInv'
  BY <1>18 DEF Release, GotoWaking, LockSleepers, TypeOK, ValidInv, Holding,
     DiskPc
<1>19. ASSUME NEW p \in Proc, Unref(p) PROVE ValidInv'
  BY <1>19 DEF Unref, Goto, TypeOK, ValidInv, Holding, DiskPc
<1>20. ASSUME NEW p \in Proc, Kill(p) PROVE ValidInv'
  BY <1>20 DEF Kill, Goto, TypeOK, ValidInv, Holding, DiskPc
<1>21. CASE UNCHANGED vars
  BY <1>21 DEF vars, TypeOK, ValidInv, Holding, DiskPc
<1>. QED BY <1>1, <1>2, <1>3, <1>4, <1>5, <1>6, <1>7, <1>8, <1>9, <1>10,
   <1>11, <1>12, <1>13, <1>14, <1>15, <1>16, <1>17, <1>18, <1>19, <1>20,
   <1>21, StepCases

(* bget(), bpin(), bunpin() and brelse() count. *)
LEMMA CountInvStep == ASSUME IInv, [Next]_vars PROVE CountInv'
<1>. USE DEF IInv
<1>1. CASE UNCHANGED <<buf, refcnt, pinned>>
  <2>1. \A b \in Buf : Users(b)' = Users(b)
    BY <1>1 DEF Users
  <2>. QED BY <1>1, <2>1 DEF CountInv
<1>2. ASSUME NEW p \in Proc, NEW blk \in Block, Hit(p, blk) PROVE CountInv'
  <2>1. PICK b \in Buf : /\ refcnt' = [refcnt EXCEPT ![b] = @ + 1]
                         /\ buf' = [buf EXCEPT ![p] = b]
    BY <1>2 DEF Hit
  <2>2. buf[p] = None /\ pinned' = pinned
    BY <1>2 DEF Hit, LockInv
  <2>3. /\ p \notin Users(b) /\ Users(b)' = Users(b) \cup {p}
        /\ \A c \in Buf \ {b} : Users(c)' = Users(c)
    <3>1. buf'[p] = b /\ \A q \in Proc \ {p} : buf'[q] = buf[q]
      BY <2>1 DEF TypeOK
    <3>2. p \notin Users(b) /\ Users(b)' = Users(b) \cup {p}
      BY <2>2, <3>1, ConstFacts DEF Users
    <3>3. ASSUME NEW c \in Buf \ {b} PROVE Users(c)' = Users(c)
      BY <2>2, <3>1, <3>3, ConstFacts DEF Users
    <3>. QED BY <3>2, <3>3
  <2>4. Cardinality(Users(b)') = Cardinality(Users(b)) + 1
    <3>1. IsFiniteSet(Users(b))
      BY CountFacts
    <3>. QED BY <2>3, <3>1, FS_AddElement
  <2>5. refcnt'[b] = Cardinality(Users(b)') + (IF b \in pinned THEN 1 ELSE 0)
    BY <2>1, <2>4, CountFacts DEF TypeOK
  <2>6. \A c \in Buf \ {b} : refcnt'[c] = refcnt[c]
    BY <2>1 DEF TypeOK
  <2>. QED BY <2>2, <2>3, <2>5, <2>6 DEF CountInv
<1>3. ASSUME NEW p \in Proc, NEW blk \in Block, Recycle(p, blk) PROVE CountInv'
  <2>1. PICK b \in Buf : /\ refcnt[b] = 0
                         /\ refcnt' = [refcnt EXCEPT ![b] = 1]
                         /\ buf' = [buf EXCEPT ![p] = b]
    BY <1>3 DEF Recycle, Unused
  <2>2. buf[p] = None /\ pinned' = pinned /\ b \notin pinned /\ Users(b) = {}
    BY <1>3, <2>1, CountFacts DEF Recycle, LockInv
  <2>3. /\ Users(b)' = {p}
        /\ \A c \in Buf \ {b} : Users(c)' = Users(c)
    <3>1. buf'[p] = b /\ \A q \in Proc \ {p} : buf'[q] = buf[q] /\ buf[q] # b
      BY <2>1, <2>2 DEF Users, TypeOK
    <3>. QED BY <2>2, <3>1, ConstFacts DEF Users
  <2>4. Cardinality(Users(b)') = 1
    BY <2>3, FS_Singleton
  <2>5. refcnt'[b] = 1 /\ \A c \in Buf \ {b} : refcnt'[c] = refcnt[c]
    BY <2>1 DEF TypeOK
  <2>. QED BY <2>2, <2>3, <2>4, <2>5 DEF CountInv
<1>4. ASSUME NEW p \in Proc, NEW v \in Value, LogWrite(p, v) PROVE CountInv'
  <2>1. \A b \in Buf : Users(b)' = Users(b)
    BY <1>4 DEF LogWrite, locals, Users
  <2>2. CASE buf[p] \in pinned
    BY <1>4, <1>1, <2>2 DEF LogWrite, locals
  <2>3. CASE buf[p] \notin pinned
    <3>1. /\ refcnt' = [refcnt EXCEPT ![buf[p]] = @ + 1]
          /\ pinned' = pinned \cup {buf[p]}
      BY <1>4, <2>3 DEF LogWrite
    <3>. QED BY <2>1, <2>3, <3>1, CountFacts DEF CountInv, TypeOK
  <2>. QED BY <2>2, <2>3
<1>5. ASSUME NEW p \in Proc, Unpin(p) PROVE CountInv'
  <2>1. /\ buf[p] \in pinned /\ pinned' = pinned \ {buf[p]}
        /\ refcnt' = [refcnt EXCEPT ![buf[p]] = @ - 1]
        /\ \A b \in Buf : Users(b)' = Users(b)
    BY <1>5 DEF Unpin, Users
  <2>. QED BY <2>1, CountFacts DEF CountInv, TypeOK
<1>6. ASSUME NEW p \in Proc, Unref(p) PROVE CountInv'
  <2>1. PICK b \in Buf : b = buf[p]
    <3>1. pc[p] = "unref"
      BY <1>6 DEF Unref
    <3>2. buf[p] # None /\ buf[p] \in Buf \cup {None}
      BY <3>1 DEF LockInv, TypeOK
    <3>. QED BY <3>2
  <2>2. /\ refcnt' = [refcnt EXCEPT ![b] = @ - 1]
        /\ buf' = [buf EXCEPT ![p] = None] /\ pinned' = pinned
    BY <1>6, <2>1 DEF Unref
  <2>3. /\ p \in Users(b) /\ Users(b)' = Users(b) \ {p}
        /\ \A c \in Buf \ {b} : Users(c)' = Users(c)
    <3>1. buf'[p] = None /\ \A q \in Proc \ {p} : buf'[q] = buf[q]
      BY <2>2 DEF TypeOK
    <3>. QED BY <2>1, <3>1, ConstFacts DEF Users
  <2>4. Cardinality(Users(b)') = Cardinality(Users(b)) - 1
    BY <2>3, CountFacts, FS_RemoveElement
  <2>5. refcnt'[b] = Cardinality(Users(b)') + (IF b \in pinned THEN 1 ELSE 0)
    BY <2>2, <2>4, CountFacts DEF TypeOK
  <2>6. \A c \in Buf \ {b} : refcnt'[c] = refcnt[c]
    BY <2>2 DEF TypeOK
  <2>. QED BY <2>2, <2>3, <2>5, <2>6 DEF CountInv
<1>7. ASSUME NEW p \in Proc, \/ \E blk \in Block : Panic(p, blk)
                             \/ \E v \in Value : WriteLog(p, v)
                             \/ AcquireSleep(p) \/ Submit(p) \/ NoDesc(p)
      PROVE  CountInv'
  BY <1>1, <1>7 DEF Panic, WriteLog, Bwrite, AcquireSleep, Submit, NoDesc, cache
<1>8. ASSUME NEW p \in Proc, SleepAgain(p) \/ Done(p) \/ Install(p) \/ Release(p)
                             \/ Kill(p)
      PROVE  CountInv'
  BY <1>1, <1>8 DEF SleepAgain, Done, Install, Bwrite, Release, Kill, cache
<1>9. ASSUME NEW d \in Desc, Serve(d) PROVE CountInv'
  BY <1>1, <1>9 DEF Serve, cache, locals
<1>10. CASE IntrEnter \/ IntrNext \/ IntrLast \/ IntrExit \/ UNCHANGED vars
  BY <1>1, <1>10 DEF IntrEnter, IntrNext, IntrLast, IntrExit, vars, cache, locals
<1>. QED BY <1>2, <1>3, <1>4, <1>5, <1>6, <1>7, <1>8, <1>9, <1>10, StepCases

(* bget() gives a block a second buffer never. *)
LEMMA UniqueInvStep == ASSUME IInv, [Next]_vars PROVE UniqueInv'
<1>. USE ConstFacts DEF IInv, cache, buffers, queue, locals
<1>1. ASSUME NEW p \in Proc, NEW blk \in Block, Hit(p, blk) PROVE UniqueInv'
  BY <1>1 DEF Hit, Goto, TypeOK, UniqueInv
<1>2. ASSUME NEW p \in Proc, NEW blk \in Block, Recycle(p, blk) PROVE
   UniqueInv'
  BY <1>2 DEF Recycle, Goto, Unused, Cached, TypeOK, UniqueInv
<1>3. ASSUME NEW p \in Proc, NEW blk \in Block, Panic(p, blk) PROVE
   UniqueInv'
  BY <1>3 DEF Panic, Goto, TypeOK, UniqueInv
<1>4. ASSUME NEW p \in Proc, AcquireSleep(p) PROVE UniqueInv'
  BY <1>4 DEF AcquireSleep, Goto, TypeOK, UniqueInv
<1>5. ASSUME NEW p \in Proc, Submit(p) PROVE UniqueInv'
  <2>1. Submitted(p)
    BY <1>5, SubmitEffect, Zenon
  <2>. QED BY <2>1 DEF Submitted, TypeOK, UniqueInv
<1>6. ASSUME NEW p \in Proc, NoDesc(p) PROVE UniqueInv'
  <2>1. Refused(p)
    BY <1>6, NoDescEffect, Zenon
  <2>. QED BY <2>1 DEF Refused, TypeOK, UniqueInv
<1>7. ASSUME NEW p \in Proc, SleepAgain(p) PROVE UniqueInv'
  BY <1>7 DEF SleepAgain, Goto, TypeOK, UniqueInv
<1>8. ASSUME NEW p \in Proc, Done(p) PROVE UniqueInv'
  <2>1. Finished(p)
    BY <1>8, DoneEffect, Zenon
  <2>. QED BY <2>1 DEF Finished, TypeOK, UniqueInv
<1>9. ASSUME NEW d \in Desc, Serve(d) PROVE UniqueInv'
  BY <1>9 DEF Serve, TypeOK, UniqueInv
<1>10. CASE IntrEnter
  BY <1>10 DEF IntrEnter, TypeOK, UniqueInv
<1>11. CASE IntrNext
  BY <1>11 DEF IntrNext, DiskSleepers, TypeOK, UniqueInv
<1>12. CASE IntrLast
  BY <1>12 DEF IntrLast, TypeOK, UniqueInv
<1>13. CASE IntrExit
  BY <1>13 DEF IntrExit, TypeOK, UniqueInv
<1>14. ASSUME NEW p \in Proc, NEW v \in Value, WriteLog(p, v) PROVE
   UniqueInv'
  BY <1>14 DEF WriteLog, Change, Bwrite, Goto, TypeOK, UniqueInv
<1>15. ASSUME NEW p \in Proc, Install(p) PROVE UniqueInv'
  BY <1>15 DEF Install, Bwrite, Goto, TypeOK, UniqueInv
<1>16. ASSUME NEW p \in Proc, NEW v \in Value, LogWrite(p, v) PROVE
   UniqueInv'
  BY <1>16 DEF LogWrite, Change, TypeOK, UniqueInv
<1>17. ASSUME NEW p \in Proc, Unpin(p) PROVE UniqueInv'
  BY <1>17 DEF Unpin, Goto, TypeOK, UniqueInv
<1>18. ASSUME NEW p \in Proc, Release(p) PROVE UniqueInv'
  BY <1>18 DEF Release, GotoWaking, LockSleepers, TypeOK, UniqueInv
<1>19. ASSUME NEW p \in Proc, Unref(p) PROVE UniqueInv'
  BY <1>19 DEF Unref, Goto, TypeOK, UniqueInv
<1>20. ASSUME NEW p \in Proc, Kill(p) PROVE UniqueInv'
  BY <1>20 DEF Kill, Goto, TypeOK, UniqueInv
<1>21. CASE UNCHANGED vars
  BY <1>21 DEF vars, TypeOK, UniqueInv
<1>. QED BY <1>1, <1>2, <1>3, <1>4, <1>5, <1>6, <1>7, <1>8, <1>9, <1>10,
   <1>11, <1>12, <1>13, <1>14, <1>15, <1>16, <1>17, <1>18, <1>19, <1>20,
   <1>21, StepCases

(* Descriptors move between disk.free and requests. *)
LEMMA ChainInvStep == ASSUME IInv, [Next]_vars PROVE ChainInv'
<1>. USE DEF IInv
<1>1. CASE Frame
  BY <1>1, ChainFrame DEF Frame, Same
<1>2. CASE IntrNext
  BY <1>2, ChainFrame DEF IntrNext, DiskSleepers, InFlight, TypeOK
<1>3. ASSUME NEW d \in Desc, Serve(d) PROVE ChainInv'
  BY <1>3, ChainFrame DEF Serve, InFlight, locals
<1>4. ASSUME NEW p \in Proc, Submit(p) PROVE ChainInv'
  <2>1. Submitted(p)
    BY <1>4, SubmitEffect, Zenon
  <2>2. PICK d, e, f \in free :
            /\ d # e /\ e # f /\ f # d
            /\ free' = free \ {d, e, f}
            /\ idx' = [idx EXCEPT ![p] = <<d, e, f>>]
    BY <2>1 DEF Submitted
  <2>3. /\ InFlight(p)' /\ ~InFlight(p)
        /\ \A q \in Proc \ {p} : InFlight(q)' <=> InFlight(q)
    BY <2>1 DEF Submitted, InFlight, TypeOK
  <2>4. /\ Three(idx'[p]) /\ Chain(p)' = {d, e, f} /\ Chain(p) = {}
        /\ \A q \in Proc \ {p} : idx'[q] = idx[q] /\ Chain(q)' = Chain(q)
    <3>1. Three(<<d, e, f>>) /\ idx'[p] = <<d, e, f>>
      BY <2>2 DEF Three, TypeOK
    <3>2. Chain(p)' = {d, e, f}
      BY <3>1, ThreeFacts DEF Chain
    <3>3. \A q \in Proc \ {p} : idx'[q] = idx[q]
      BY <2>2 DEF TypeOK
    <3>. QED BY <2>3, <3>1, <3>2, <3>3, ChainFacts DEF Chain
  <2>5. \A c \in Desc : c \in free' \/ \E q \in Proc : c \in Chain(q)'
    BY <2>2, <2>4 DEF ChainInv
  <2>6. \A q \in Proc : free' \cap Chain(q)' = {}
    BY <2>2, <2>4 DEF ChainInv
  <2>7. \A q, r \in Proc : q # r => Chain(q)' \cap Chain(r)' = {}
    BY <2>2, <2>4 DEF ChainInv
  <2>8. \A q \in Proc : IF InFlight(q)' THEN Three(idx'[q]) ELSE idx'[q] = <<>>
    BY <2>3, <2>4 DEF ChainInv
  <2>. QED BY <2>5, <2>6, <2>7, <2>8 DEF ChainInv, Three
<1>5. ASSUME NEW p \in Proc, Done(p) PROVE ChainInv'
  <2>1. Finished(p)
    BY <1>5, DoneEffect, Zenon
  <2>2. ~InFlight(p)' /\ \A q \in Proc \ {p} : InFlight(q)' <=> InFlight(q)
    BY <2>1 DEF Finished, InFlight, TypeOK
  <2>3. /\ idx'[p] = <<>> /\ Chain(p)' = {}
        /\ \A q \in Proc \ {p} : idx'[q] = idx[q] /\ Chain(q)' = Chain(q)
    BY <2>1 DEF Finished, Chain, TypeOK
  <2>4. free' = free \cup Chain(p)
    BY <2>1 DEF Finished
  <2>5. \A c \in Desc : c \in free' \/ \E q \in Proc : c \in Chain(q)'
    BY <2>3, <2>4 DEF ChainInv
  <2>6. \A q \in Proc : free' \cap Chain(q)' = {}
    BY <2>3, <2>4 DEF ChainInv
  <2>7. \A q, r \in Proc : q # r => Chain(q)' \cap Chain(r)' = {}
    BY <2>3 DEF ChainInv
  <2>8. \A q \in Proc : IF InFlight(q)' THEN Three(idx'[q]) ELSE idx'[q] = <<>>
    BY <2>2, <2>3 DEF ChainInv
  <2>. QED BY <2>5, <2>6, <2>7, <2>8 DEF ChainInv, Three
<1>. QED BY <1>1, <1>2, <1>3, <1>4, <1>5, FrameStep

(* Requests move from thread to device, to the used ring, and back. *)
LEMMA RequestInvStep == ASSUME IInv, [Next]_vars PROVE RequestInv'
<1>. USE DEF IInv, RequestInv
<1>1. CASE Frame
  BY <1>1, RequestFrame
<1>2. CASE IntrNext
  <2>. DEFINE h == Head(used)
  <2>1. /\ Served' = Served \ {h} /\ h \in Served /\ h \in Desc
        /\ (Distinct(used))'
    BY <1>2, ServedTail DEF IntrNext, TypeOK, Distinct
  <2>2. PICK p \in Proc :
            /\ InFlight(p) /\ HasLock(p) /\ First(p) = h
            /\ buf[p] \in Buf /\ info[h].b = buf[p]
    <3>1. PICK p \in Proc :
              /\ InFlight(p) /\ HasLock(p) /\ First(p) = h /\ buf[p] \in Buf
              /\ info[h] = [b |-> buf[p], block |-> blockno[buf[p]],
                            write |-> writes[p]]
      BY <2>1, ServeFacts, Zenon
    <3>2. info[h].b = buf[p]
      BY <3>1
    <3>. QED BY <3>1, <3>2
  <2>3. /\ owned' = [owned EXCEPT ![buf[p]] = FALSE]
        /\ pc' = [q \in Proc |-> IF q \in DiskSleepers(buf[p]) THEN "disk_awake"
                                 ELSE pc[q]]
        /\ UNCHANGED <<info, avail, buf, blockno, writes, idx>>
    BY <1>2, <2>2 DEF IntrNext, cache
  <2>4. /\ \A q \in Proc : First(q)' = First(q) /\ (InFlight(q)' <=> InFlight(q))
        /\ \A q \in Proc : pc'[q] = "disk_sleep" =>
               pc[q] = "disk_sleep" /\ buf[q] # buf[p]
    BY <2>3 DEF First, InFlight, DiskSleepers, TypeOK
  <2>5. \A q \in Proc : InFlight(q) /\ q # p => First(q) # h /\ buf[q] # buf[p]
    BY <2>2, FirstFacts, LockFacts DEF InFlight, HasLock
  <2>6. ~owned'[buf[p]] /\ \A b \in Buf \ {buf[p]} : owned'[b] = owned[b]
    BY <2>2, <2>3 DEF TypeOK
  <2>13. \A q \in Proc : InFlight(q) => HasLock(q) /\ buf[q] \in Buf
    BY LockFacts DEF InFlight, HasLock
  <2>7. h \notin avail
    BY <2>1
  <2>8. \A q \in Proc : pc'[q] = "disk_sleep" => owned'[buf'[q]]
    <3>. SUFFICES ASSUME NEW q \in Proc, pc'[q] = "disk_sleep"
                  PROVE  owned'[buf[q]]
      BY <2>3
    <3>1. pc[q] = "disk_sleep" /\ buf[q] # buf[p]
      BY <2>4
    <3>2. buf[q] \in Buf
      BY <2>13, <3>1 DEF InFlight
    <3>3. owned[buf[q]]
      BY <3>1
    <3>. QED BY <2>6, <3>1, <3>2, <3>3
  <2>9. \A q \in Proc : InFlight(q)' =>
            /\ owned'[buf'[q]] <=> First(q)' \in avail' \cup Served'
            /\ info'[First(q)'] = [b |-> buf'[q], block |-> blockno'[buf'[q]],
                                   write |-> writes'[q]]
    <3>. SUFFICES ASSUME NEW q \in Proc, InFlight(q)
                  PROVE  /\ owned'[buf[q]] <=> First(q) \in avail \cup Served'
                         /\ info[First(q)] = [b |-> buf[q], block |-> blockno[buf[q]],
                                              write |-> writes[q]]
      BY <2>3, <2>4
    <3>1. CASE q = p
      BY <2>1, <2>2, <2>6, <2>7, <3>1
    <3>2. CASE q # p
      BY <2>1, <2>5, <2>6, <2>13, <3>2
    <3>. QED BY <3>1, <3>2
  <2>10. \A d \in avail' \cup Served' : \E q \in Proc : InFlight(q)' /\ First(q)' = d
    BY <2>1, <2>3, <2>4
  <2>11. \A b \in Buf : owned'[b] => \E q \in Proc : InFlight(q)' /\ buf'[q] = b
    BY <2>2, <2>3, <2>4 DEF TypeOK
  <2>12. avail' \cap Served' = {}
    BY <2>1, <2>3
  <2>. QED BY <2>1, <2>8, <2>9, <2>10, <2>11, <2>12
<1>3. ASSUME NEW d \in Desc, Serve(d) PROVE RequestInv'
  <2>1. d \in avail /\ d \notin Served
    BY <1>3 DEF Serve
  <2>2. Served' = Served \cup {d} /\ avail' = avail \ {d} /\ (Distinct(used))'
    BY <1>3, <2>1, ServedAppend DEF Serve, TypeOK, Distinct
  <2>3. /\ \A p \in Proc : First(p)' = First(p) /\ (InFlight(p)' <=> InFlight(p))
        /\ UNCHANGED <<owned, info, pc, buf, blockno, writes>>
    BY <1>3 DEF Serve, First, InFlight, locals, cache
  <2>4. avail' \cup Served' = avail \cup Served /\ avail' \cap Served' = {}
    BY <2>1, <2>2
  <2>. QED BY <2>2, <2>3, <2>4
<1>4. ASSUME NEW p \in Proc, Submit(p) PROVE RequestInv'
  <2>1. Submitted(p)
    BY <1>4, SubmitEffect, Zenon
  <2>2. PICK d \in free :
            /\ \E e, f \in free : idx' = [idx EXCEPT ![p] = <<d, e, f>>]
            /\ info' = [info EXCEPT ![d] = [b |-> buf[p], block |-> blockno[buf[p]],
                                            write |-> writes[p]]]
            /\ avail' = avail \cup {d}
    BY <2>1 DEF Submitted
  <2>3. HasLock(p) /\ ~InFlight(p)
    BY <2>1 DEF Submitted, HasLock, InFlight
  <2>4. buf[p] \in Buf /\ \A q \in Proc : InFlight(q) => buf[q] # buf[p]
    BY <2>3, LockFacts DEF InFlight, HasLock
  <2>5. /\ First(p)' = d /\ d \in Desc
        /\ \A q \in Proc \ {p} : First(q)' = First(q)
    BY <2>2 DEF First, TypeOK
  <2>6. /\ InFlight(p)' /\ \A q \in Proc \ {p} : InFlight(q)' <=> InFlight(q)
        /\ \A q \in Proc \ {p} : pc'[q] = pc[q]
    BY <2>1 DEF Submitted, InFlight, TypeOK
  <2>7. \A q \in Proc : InFlight(q) => First(q) # d
    BY FirstFacts
  <2>8. d \notin avail \cup Served
    BY <2>7
  <2>9. /\ owned' = [owned EXCEPT ![buf[p]] = TRUE] /\ Served' = Served
        /\ UNCHANGED <<used, buf, blockno, writes>>
        /\ (Distinct(used))'
    BY <2>1 DEF Submitted, cache, Served, Distinct
  <2>10. /\ owned'[buf[p]]
         /\ \A q \in Proc : InFlight(q) => owned'[buf[q]] = owned[buf[q]]
    <3>1. \A q \in Proc : InFlight(q) => buf[q] \in Buf
      BY LockFacts DEF InFlight, HasLock
    <3>. QED BY <2>4, <2>9, <3>1 DEF TypeOK
  <2>11. \A q \in Proc : pc'[q] = "disk_sleep" => owned'[buf'[q]]
    BY <2>6, <2>9, <2>10 DEF InFlight
  <2>12. \A q \in Proc : InFlight(q)' =>
            /\ owned'[buf'[q]] <=> First(q)' \in avail' \cup Served'
            /\ info'[First(q)'] = [b |-> buf'[q], block |-> blockno'[buf'[q]],
                                   write |-> writes'[q]]
    <3>1. ASSUME NEW q \in Proc \ {p}, InFlight(q)
          PROVE  info'[First(q)] = info[First(q)]
      BY <2>2, <2>7, <3>1, ChainFacts DEF TypeOK
    <3>2. info'[d] = [b |-> buf[p], block |-> blockno[buf[p]], write |-> writes[p]]
      BY <2>2, <2>5 DEF TypeOK
    <3>. SUFFICES ASSUME NEW q \in Proc, InFlight(q)'
                  PROVE  /\ owned'[buf[q]] <=> First(q)' \in avail' \cup Served
                         /\ info'[First(q)'] = [b |-> buf[q],
                                                block |-> blockno[buf[q]],
                                                write |-> writes[q]]
      BY <2>9
    <3>3. CASE q = p
      BY <2>2, <2>5, <2>10, <3>2, <3>3
    <3>4. CASE q # p
      <4>1. InFlight(q) /\ First(q)' = First(q) /\ First(q) # d
        BY <2>5, <2>6, <2>7, <3>4
      <4>. QED BY <2>2, <2>10, <3>1, <3>4, <4>1
    <3>. QED BY <3>3, <3>4
  <2>13. \A c \in avail' \cup Served' : \E q \in Proc : InFlight(q)' /\ First(q)' = c
    BY <2>2, <2>3, <2>5, <2>6, <2>9
  <2>14. \A b \in Buf : owned'[b] => \E q \in Proc : InFlight(q)' /\ buf'[q] = b
    BY <2>3, <2>6, <2>9 DEF TypeOK
  <2>15. avail' \cap Served' = {}
    BY <2>2, <2>8, <2>9
  <2>. QED BY <2>9, <2>11, <2>12, <2>13, <2>14, <2>15
<1>5. ASSUME NEW p \in Proc, Done(p) PROVE RequestInv'
  <2>1. Finished(p)
    BY <1>5, DoneEffect, Zenon
  <2>2. InFlight(p) /\ ~owned[buf[p]] /\ First(p) \notin avail \cup Served
    BY <2>1 DEF Finished, InFlight
  <2>3. /\ ~InFlight(p)' /\ \A q \in Proc \ {p} : InFlight(q)' <=> InFlight(q)
        /\ \A q \in Proc : pc'[q] = "disk_sleep" => pc[q] = "disk_sleep"
    BY <2>1 DEF Finished, InFlight, TypeOK
  <2>4. /\ \A q \in Proc \ {p} : First(q)' = First(q) /\ writes'[q] = writes[q]
        /\ UNCHANGED <<owned, avail, used, buf, blockno>>
        /\ Served' = Served /\ (Distinct(used))'
    BY <2>1 DEF Finished, First, cache, Served, Distinct, TypeOK
  <2>5. ASSUME NEW q \in Proc \ {p}, InFlight(q)
        PROVE  info'[First(q)] = info[First(q)]
    <3>1. First(q) # First(p) /\ First(q) \in Desc
      BY <2>2, <2>5, FirstFacts, ChainFacts
    <3>. QED BY <2>1, <3>1 DEF Finished, TypeOK
  <2>6. \A c \in avail' \cup Served' : \E q \in Proc : InFlight(q)' /\ First(q)' = c
    BY <2>2, <2>3, <2>4
  <2>7. \A b \in Buf : owned'[b] => \E q \in Proc : InFlight(q)' /\ buf'[q] = b
    BY <2>2, <2>3, <2>4
  <2>8. \A q \in Proc : InFlight(q)' =>
            /\ owned'[buf'[q]] <=> First(q)' \in avail' \cup Served'
            /\ info'[First(q)'] = [b |-> buf'[q], block |-> blockno'[buf'[q]],
                                   write |-> writes'[q]]
    BY <2>3, <2>4, <2>5
  <2>. QED BY <2>3, <2>4, <2>6, <2>7, <2>8
<1>. QED BY <1>1, <1>2, <1>3, <1>4, <1>5, FrameStep

(* An interrupt is pending while completions wait for it. *)
LEMMA WakeInvStep == ASSUME IInv, [Next]_vars PROVE WakeInv'
<1>. USE ConstFacts DEF IInv, cache, buffers, queue, locals
<1>1. ASSUME NEW p \in Proc, NEW blk \in Block, Hit(p, blk) PROVE WakeInv'
  BY <1>1 DEF Hit, Goto, TypeOK, WakeInv, InFlight
<1>2. ASSUME NEW p \in Proc, NEW blk \in Block, Recycle(p, blk) PROVE
   WakeInv'
  BY <1>2 DEF Recycle, Goto, Unused, Cached, TypeOK, WakeInv, InFlight
<1>3. ASSUME NEW p \in Proc, NEW blk \in Block, Panic(p, blk) PROVE WakeInv'
  BY <1>3 DEF Panic, Goto, TypeOK, WakeInv, InFlight
<1>4. ASSUME NEW p \in Proc, AcquireSleep(p) PROVE WakeInv'
  <2>1. /\ UNCHANGED <<used, irq, intr>> /\ pc[p] = "lock"
        /\ \A q \in Proc \ {p} : pc'[q] = pc[q]
        /\ pc'[p] \in {"lock_sleep", "hold", "rw"}
    BY <1>4 DEF AcquireSleep, Goto, TypeOK
  <2>. QED BY <2>1 DEF WakeInv, InFlight
<1>5. ASSUME NEW p \in Proc, Submit(p) PROVE WakeInv'
  <2>1. Submitted(p)
    BY <1>5, SubmitEffect, Zenon
  <2>. QED BY <2>1 DEF Submitted, TypeOK, WakeInv, InFlight
<1>6. ASSUME NEW p \in Proc, NoDesc(p) PROVE WakeInv'
  <2>1. Refused(p)
    BY <1>6, NoDescEffect, Zenon
  <2>2. \A q \in Proc : InFlight(q)' <=> InFlight(q)
    BY <2>1 DEF Refused, InFlight
  <2>3. \E q \in Proc : InFlight(q)
    <3>1. SUFFICES ASSUME \A q \in Proc : ~InFlight(q) PROVE FALSE
      OBVIOUS
    <3>2. \A q \in Proc : Chain(q) = {}
      BY <3>1, ChainFacts
    <3>3. free = Desc
      BY <3>2 DEF ChainInv, TypeOK
    <3>. QED BY <2>1, <3>3, CanAlloc3Facts DEF Refused
  <2>. QED BY <2>1, <2>2, <2>3 DEF Refused, WakeInv
<1>7. ASSUME NEW p \in Proc, SleepAgain(p) PROVE WakeInv'
  BY <1>7 DEF SleepAgain, Goto, TypeOK, WakeInv, InFlight
<1>8. ASSUME NEW p \in Proc, Done(p) PROVE WakeInv'
  <2>1. Finished(p)
    BY <1>8, DoneEffect, Zenon
  <2>. QED BY <2>1 DEF Finished, TypeOK, WakeInv, InFlight
<1>9. ASSUME NEW d \in Desc, Serve(d) PROVE WakeInv'
  BY <1>9 DEF Serve, TypeOK, WakeInv, InFlight
<1>10. CASE IntrEnter
  BY <1>10 DEF IntrEnter, TypeOK, WakeInv, InFlight
<1>11. CASE IntrNext
  BY <1>11 DEF IntrNext, DiskSleepers, TypeOK, WakeInv, InFlight
<1>12. CASE IntrLast
  BY <1>12 DEF IntrLast, TypeOK, WakeInv, InFlight
<1>13. CASE IntrExit
  BY <1>13 DEF IntrExit, TypeOK, WakeInv, InFlight
<1>14. ASSUME NEW p \in Proc, NEW v \in Value, WriteLog(p, v) PROVE WakeInv'
  BY <1>14 DEF WriteLog, Change, Bwrite, Goto, TypeOK, WakeInv, InFlight
<1>15. ASSUME NEW p \in Proc, Install(p) PROVE WakeInv'
  BY <1>15 DEF Install, Bwrite, Goto, TypeOK, WakeInv, InFlight
<1>16. ASSUME NEW p \in Proc, NEW v \in Value, LogWrite(p, v) PROVE WakeInv'
  BY <1>16 DEF LogWrite, Change, TypeOK, WakeInv, InFlight
<1>17. ASSUME NEW p \in Proc, Unpin(p) PROVE WakeInv'
  BY <1>17 DEF Unpin, Goto, TypeOK, WakeInv, InFlight
<1>18. ASSUME NEW p \in Proc, Release(p) PROVE WakeInv'
  BY <1>18 DEF Release, GotoWaking, LockSleepers, TypeOK, WakeInv, InFlight
<1>19. ASSUME NEW p \in Proc, Unref(p) PROVE WakeInv'
  BY <1>19 DEF Unref, Goto, TypeOK, WakeInv, InFlight
<1>20. ASSUME NEW p \in Proc, Kill(p) PROVE WakeInv'
  BY <1>20 DEF Kill, Goto, TypeOK, WakeInv, InFlight
<1>21. CASE UNCHANGED vars
  BY <1>21 DEF vars, TypeOK, WakeInv, InFlight
<1>. QED BY <1>1, <1>2, <1>3, <1>4, <1>5, <1>6, <1>7, <1>8, <1>9, <1>10,
   <1>11, <1>12, <1>13, <1>14, <1>15, <1>16, <1>17, <1>18, <1>19, <1>20,
   <1>21, StepCases

(* Writes make a buffer like the disk before it is let go. *)
LEMMA CleanInvStep == ASSUME IInv, [Next]_vars PROVE CleanInv'
<1>. USE ConstFacts DEF IInv, cache, buffers, queue, locals
<1>1. ASSUME NEW p \in Proc, NEW blk \in Block, Hit(p, blk) PROVE CleanInv'
  <2>1. PICK b \in Buf : buf' = [buf EXCEPT ![p] = b]
    BY <1>1 DEF Hit
  <2>2. /\ pc[p] = "idle" /\ pc' = [pc EXCEPT ![p] = "lock"]
        /\ UNCHANGED <<disk, blockno, valid, data, pinned, avail, writes, idx>>
    BY <1>1 DEF Hit, Goto
  <2>3. ~writes[p]
    BY <2>2 DEF ValidInv, DiskPc
  <2>4. \A q \in Proc \ {p} : buf'[q] = buf[q] /\ pc'[q] = pc[q]
    BY <2>1, <2>2 DEF TypeOK
  <2>5. pc'[p] = "lock"
    BY <2>2 DEF TypeOK
  <2>. QED BY <2>2, <2>3, <2>4, <2>5 DEF CleanInv, Clean, InFlight, First
<1>2. ASSUME NEW p \in Proc, NEW blk \in Block, Recycle(p, blk) PROVE
   CleanInv'
  <2>1. PICK b \in Buf :
            /\ refcnt[b] = 0
            /\ blockno' = [blockno EXCEPT ![b] = blk]
            /\ valid' = [valid EXCEPT ![b] = FALSE]
            /\ buf' = [buf EXCEPT ![p] = b]
    BY <1>2 DEF Recycle, Unused
  <2>2. \A q \in Proc : buf[q] # b
    BY <2>1, CountFacts DEF Users
  <2>3. /\ pc[p] = "idle" /\ pc' = [pc EXCEPT ![p] = "lock"]
        /\ UNCHANGED <<disk, data, pinned, avail, writes, idx>>
    BY <1>2 DEF Recycle, Goto
  <2>4. ~writes[p]
    BY <2>3 DEF ValidInv, DiskPc
  <2>5. \A q \in Proc \ {p} : buf'[q] = buf[q] /\ pc'[q] = pc[q]
    BY <2>1, <2>3 DEF TypeOK
  <2>6. pc'[p] = "lock"
    BY <2>3 DEF TypeOK
  <2>7. \A c \in Buf \ {b} : blockno'[c] = blockno[c] /\ valid'[c] = valid[c]
    BY <2>1 DEF TypeOK
  <2>8. ~valid'[b]
    BY <2>1 DEF TypeOK
  <2>9. \A c \in Buf : ~valid'[c] \/ c \in pinned' \/ Clean(c)'
                          \/ \E q \in Proc : writes'[q] /\ buf'[q] = c
    BY <2>3, <2>4, <2>5, <2>7, <2>8 DEF CleanInv, Clean
  <2>10. \A q \in Proc : pc[q] # "idle" /\ pc[q] # "panic" => buf[q] \in Buf \ {b}
    BY <2>2 DEF LockInv, TypeOK
  <2>11. \A q \in Proc : /\ pc'[q] = "wrote" => Clean(buf[q])
                         /\ InFlight(q)' /\ First(q)' \notin avail => Clean(buf[q])
    BY <2>3, <2>5, <2>6 DEF CleanInv, InFlight, First
  <2>12. \A q \in Proc : /\ pc'[q] = "wrote" => Clean(buf[q])'
                         /\ InFlight(q)' /\ First(q)' \notin avail' => Clean(buf[q])'
    BY <2>3, <2>5, <2>6, <2>7, <2>10, <2>11 DEF Clean, InFlight
  <2>. QED BY <2>9, <2>12 DEF CleanInv, Clean, InFlight
<1>3. ASSUME NEW p \in Proc, NEW blk \in Block, Panic(p, blk) PROVE CleanInv'
  BY <1>3 DEF Panic, Goto, TypeOK, CleanInv, Holding, Clean, InFlight, First
<1>4. ASSUME NEW p \in Proc, AcquireSleep(p) PROVE CleanInv'
  BY <1>4 DEF AcquireSleep, Goto, TypeOK, CleanInv, Holding, Clean, InFlight,
     First
<1>5. ASSUME NEW p \in Proc, Submit(p) PROVE CleanInv'
  <2>1. Submitted(p)
    BY <1>5, SubmitEffect, Zenon
  <2>. QED BY <2>1 DEF Submitted, TypeOK, CleanInv, Holding, Clean, InFlight,
     First
<1>6. ASSUME NEW p \in Proc, NoDesc(p) PROVE CleanInv'
  <2>1. Refused(p)
    BY <1>6, NoDescEffect, Zenon
  <2>2. \A q \in Proc : /\ InFlight(q)' <=> InFlight(q)
                        /\ pc'[q] = "wrote" => pc[q] = "wrote"
    BY <2>1 DEF Refused, InFlight
  <2>3. UNCHANGED <<disk, blockno, valid, data, pinned, avail, writes, idx, buf>>
    BY <2>1 DEF Refused
  <2>. QED BY <2>2, <2>3 DEF CleanInv, Clean, InFlight, First
<1>7. ASSUME NEW p \in Proc, SleepAgain(p) PROVE CleanInv'
  BY <1>7 DEF SleepAgain, Goto, TypeOK, CleanInv, Holding, Clean, InFlight,
     First
<1>8. ASSUME NEW p \in Proc, Done(p) PROVE CleanInv'
  <2>1. Finished(p)
    BY <1>8, DoneEffect, Zenon
  <2>2. InFlight(p) /\ ~owned[buf[p]]
    BY <2>1 DEF Finished, InFlight
  <2>3. Clean(buf[p]) /\ buf[p] \in Buf
    <3>1. First(p) \notin avail
      BY <2>2 DEF RequestInv
    <3>2. HasLock(p)
      BY <2>2 DEF InFlight, HasLock
    <3>. QED BY <2>2, <3>1, <3>2, LockFacts DEF CleanInv
  <2>4. /\ UNCHANGED <<disk, blockno, data, pinned, avail, buf>>
        /\ \A c \in Buf \ {buf[p]} : valid'[c] = valid[c]
        /\ \A q \in Proc \ {p} : writes'[q] = writes[q] /\ idx'[q] = idx[q]
    BY <2>1 DEF Finished, TypeOK
  <2>5. /\ \A q \in Proc \ {p} : InFlight(q)' <=> InFlight(q)
        /\ \A q \in Proc \ {p} : pc'[q] = "wrote" => pc[q] = "wrote"
        /\ ~InFlight(p)'
    BY <2>1 DEF Finished, InFlight, TypeOK
  <2>6. \A b \in Buf : Clean(b)' <=> Clean(b)
    BY <2>4 DEF Clean
  <2>7. ASSUME NEW b \in Buf
        PROVE  ~valid'[b] \/ b \in pinned' \/ Clean(b)'
                          \/ \E q \in Proc : writes'[q] /\ buf'[q] = b
    <3>1. CASE b = buf[p]
      BY <2>3, <2>6, <3>1
    <3>2. CASE b # buf[p]
      <4>1. \/ ~valid[b] \/ b \in pinned \/ Clean(b)
            \/ \E q \in Proc : writes[q] /\ buf[q] = b
        BY DEF CleanInv
      <4>2. \A q \in Proc : writes[q] /\ buf[q] = b => writes'[q] /\ buf'[q] = b
        BY <2>4, <3>2
      <4>. QED BY <2>4, <2>6, <3>2, <4>1, <4>2
    <3>. QED BY <3>1, <3>2
  <2>8. ASSUME NEW q \in Proc
        PROVE  /\ pc'[q] = "wrote" => Clean(buf[q])
               /\ InFlight(q)' /\ First(q)' \notin avail' => Clean(buf[q])
    BY <2>3, <2>4, <2>5 DEF CleanInv, First
  <2>9. ASSUME NEW q \in Proc PROVE Clean(buf[q])' <=> Clean(buf[q])
    BY <2>4 DEF Clean
  <2>. QED BY <2>7, <2>8, <2>9 DEF CleanInv, InFlight, First, Clean
<1>9. ASSUME NEW d \in Desc, Serve(d) PROVE CleanInv'
  <2>1. d \in avail /\ avail' = avail \ {d}
        /\ UNCHANGED <<blockno, valid, pinned, locals>>
    BY <1>9 DEF Serve
  <2>2. PICK p \in Proc :
            /\ InFlight(p) /\ HasLock(p) /\ First(p) = d
            /\ buf[p] \in Buf /\ blockno[buf[p]] \in Block
            /\ info[d] = [b |-> buf[p], block |-> blockno[buf[p]],
                          write |-> writes[p]]
    BY <2>1, ServeFacts
  <2>. DEFINE b == buf[p]  blk == blockno[buf[p]]
  <2>3. \/ /\ disk' = [disk EXCEPT ![blk] = data[b]] /\ data' = data
        \/ /\ data' = [data EXCEPT ![b] = disk[blk]] /\ disk' = disk
    <3>1. info[d].b = b /\ info[d].block = blk
      BY <2>2
    <3>. QED BY <1>9, <3>1, Zenon DEF Serve
  <2>4. Clean(b)'
    BY <2>1, <2>2, <2>3 DEF Clean, TypeOK
  <2>5. \A c \in Buf \ {b} : blockno[c] # None => (Clean(c)' <=> Clean(c))
    BY <2>1, <2>2, <2>3, ConstFacts DEF Clean, TypeOK, UniqueInv
  <2>6. \A c \in Buf : ~valid'[c] \/ c \in pinned' \/ Clean(c)'
                          \/ \E q \in Proc : writes'[q] /\ buf'[q] = c
    BY <2>1, <2>4, <2>5 DEF CleanInv, ValidInv
  <2>7. ASSUME NEW q \in Proc, pc[q] = "wrote" \/ (InFlight(q) /\ First(q) \notin avail')
        PROVE  Clean(buf[q])'
    <3>1. HasLock(q)
      BY <2>7 DEF HasLock, InFlight
    <3>2. CASE q = p
      BY <2>1, <2>4, <3>2 DEF Clean
    <3>3. CASE q # p
      <4>1. buf[q] \in Buf \ {b} /\ blockno[buf[q]] # None
        BY <2>2, <3>1, <3>3, LockFacts DEF LockInv
      <4>2. Clean(buf[q])
        BY <2>1, <2>2, <2>7, <3>3, FirstFacts DEF CleanInv
      <4>3. Clean(buf[q])' <=> data'[buf[q]] = disk'[blockno[buf[q]]]
        BY <2>1 DEF Clean
      <4>. QED BY <2>1, <2>5, <4>1, <4>2, <4>3 DEF Clean
    <3>. QED BY <3>2, <3>3
  <2>8. \A q \in Proc : /\ pc'[q] = "wrote" => Clean(buf[q])'
                        /\ InFlight(q)' /\ First(q)' \notin avail' => Clean(buf[q])'
    BY <2>1, <2>7 DEF InFlight, First, Clean
  <2>. QED BY <2>6, <2>8 DEF CleanInv, Clean, InFlight, First
<1>10. CASE IntrEnter
  BY <1>10 DEF IntrEnter, TypeOK, CleanInv, Holding, Clean, InFlight, First
<1>11. CASE IntrNext
  BY <1>11 DEF IntrNext, DiskSleepers, TypeOK, CleanInv, Holding, Clean,
     InFlight, First
<1>12. CASE IntrLast
  BY <1>12 DEF IntrLast, TypeOK, CleanInv, Holding, Clean, InFlight, First
<1>13. CASE IntrExit
  BY <1>13 DEF IntrExit, TypeOK, CleanInv, Holding, Clean, InFlight, First
<1>14. ASSUME NEW p \in Proc, NEW v \in Value, WriteLog(p, v) PROVE CleanInv'
  <2>1. /\ data' = [data EXCEPT ![buf[p]] = v] /\ pc[p] = "hold"
        /\ UNCHANGED <<disk, blockno, valid, avail, buf, idx>>
    BY <1>14 DEF WriteLog, Change, Bwrite
  <2>2. HasLock(p)
    BY <2>1 DEF HasLock
  <2>3. /\ buf[p] \in Buf
        /\ \A q \in Proc \ {p} : HasLock(q) => buf[q] \in Buf \ {buf[p]}
    BY <2>2, LockFacts
  <2>4. \A c \in Buf \ {buf[p]} : Clean(c)' <=> Clean(c)
    BY <2>1 DEF Clean, TypeOK
  <2>5. \A c \in Buf : ~valid'[c] \/ c \in pinned' \/ Clean(c)'
                          \/ \E q \in Proc : writes'[q] /\ buf'[q] = c
    <3>1. writes'[p] /\ pinned' = pinned
          /\ \A q \in Proc : writes[q] => writes'[q]
      BY <1>14 DEF WriteLog, Bwrite, TypeOK
    <3>. QED BY <2>1, <2>3, <2>4, <3>1 DEF CleanInv
  <2>6. /\ pc'[p] \in {"hold", "rw"}
        /\ \A q \in Proc \ {p} : pc'[q] = pc[q]
    BY <1>14, <2>1 DEF WriteLog, Bwrite, Goto, TypeOK
  <2>7. ASSUME NEW q \in Proc,
               pc'[q] = "wrote" \/ (InFlight(q)' /\ First(q)' \notin avail')
        PROVE  Clean(buf[q])'
    <3>1. q # p /\ (pc[q] = "wrote" \/ (InFlight(q) /\ First(q) \notin avail))
      BY <2>1, <2>6, <2>7 DEF InFlight, First
    <3>2. HasLock(q) /\ Clean(buf[q])
      BY <3>1 DEF HasLock, InFlight, CleanInv
    <3>3. Clean(buf[q])' <=> data'[buf[q]] = disk[blockno[buf[q]]]
      BY <2>1 DEF Clean
    <3>. QED BY <2>1, <2>3, <2>4, <3>1, <3>2, <3>3 DEF Clean
  <2>8. \A q \in Proc : /\ pc'[q] = "wrote" => Clean(buf[q])'
                        /\ InFlight(q)' /\ First(q)' \notin avail' => Clean(buf[q])'
    BY <2>7 DEF InFlight, First, Clean
  <2>. QED BY <2>5, <2>8 DEF CleanInv, Clean, InFlight, First
<1>15. ASSUME NEW p \in Proc, Install(p) PROVE CleanInv'
  BY <1>15 DEF Install, Bwrite, Goto, TypeOK, CleanInv, Holding, Clean,
     InFlight, First
<1>16. ASSUME NEW p \in Proc, NEW v \in Value, LogWrite(p, v) PROVE CleanInv'
  <2>1. /\ data' = [data EXCEPT ![buf[p]] = v] /\ pc[p] = "hold"
        /\ UNCHANGED <<disk, blockno, valid, avail, buf, idx>>
    BY <1>16 DEF LogWrite, Change
  <2>2. HasLock(p)
    BY <2>1 DEF HasLock
  <2>3. /\ buf[p] \in Buf
        /\ \A q \in Proc \ {p} : HasLock(q) => buf[q] \in Buf \ {buf[p]}
    BY <2>2, LockFacts
  <2>4. \A c \in Buf \ {buf[p]} : Clean(c)' <=> Clean(c)
    BY <2>1 DEF Clean, TypeOK
  <2>5. \A c \in Buf : ~valid'[c] \/ c \in pinned' \/ Clean(c)'
                          \/ \E q \in Proc : writes'[q] /\ buf'[q] = c
    <3>1. writes' = writes /\ buf[p] \in pinned' /\ pinned \subseteq pinned'
      BY <1>16 DEF LogWrite
    <3>. QED BY <2>1, <2>3, <2>4, <3>1 DEF CleanInv
  <2>6. /\ pc'[p] \in {"hold", "rw"}
        /\ \A q \in Proc \ {p} : pc'[q] = pc[q]
    BY <1>16, <2>1 DEF LogWrite, locals, TypeOK
  <2>7. ASSUME NEW q \in Proc,
               pc'[q] = "wrote" \/ (InFlight(q)' /\ First(q)' \notin avail')
        PROVE  Clean(buf[q])'
    <3>1. q # p /\ (pc[q] = "wrote" \/ (InFlight(q) /\ First(q) \notin avail))
      BY <2>1, <2>6, <2>7 DEF InFlight, First
    <3>2. HasLock(q) /\ Clean(buf[q])
      BY <3>1 DEF HasLock, InFlight, CleanInv
    <3>3. Clean(buf[q])' <=> data'[buf[q]] = disk[blockno[buf[q]]]
      BY <2>1 DEF Clean
    <3>. QED BY <2>1, <2>3, <2>4, <3>1, <3>2, <3>3 DEF Clean
  <2>8. \A q \in Proc : /\ pc'[q] = "wrote" => Clean(buf[q])'
                        /\ InFlight(q)' /\ First(q)' \notin avail' => Clean(buf[q])'
    BY <2>7 DEF InFlight, First, Clean
  <2>. QED BY <2>5, <2>8 DEF CleanInv, Clean, InFlight, First
<1>17. ASSUME NEW p \in Proc, Unpin(p) PROVE CleanInv'
  BY <1>17 DEF Unpin, Goto, TypeOK, CleanInv, Holding, Clean, InFlight, First
<1>18. ASSUME NEW p \in Proc, Release(p) PROVE CleanInv'
  BY <1>18 DEF Release, GotoWaking, LockSleepers, TypeOK, CleanInv, Holding,
     Clean, InFlight, First
<1>19. ASSUME NEW p \in Proc, Unref(p) PROVE CleanInv'
  <2>1. /\ pc[p] = "unref" /\ pc' = [pc EXCEPT ![p] = "idle"]
        /\ buf' = [buf EXCEPT ![p] = None]
        /\ UNCHANGED <<disk, blockno, valid, data, pinned, avail, writes, idx>>
    BY <1>19 DEF Unref, Goto
  <2>2. ~writes[p]
    BY <2>1 DEF ValidInv, DiskPc
  <2>3. \A q \in Proc \ {p} : buf'[q] = buf[q] /\ pc'[q] = pc[q]
    BY <2>1 DEF TypeOK
  <2>4. pc'[p] = "idle"
    BY <2>1 DEF TypeOK
  <2>. QED BY <2>1, <2>2, <2>3, <2>4 DEF CleanInv, Clean, InFlight, First
<1>20. ASSUME NEW p \in Proc, Kill(p) PROVE CleanInv'
  BY <1>20 DEF Kill, Goto, TypeOK, CleanInv, Holding, Clean, InFlight, First
<1>21. CASE UNCHANGED vars
  BY <1>21 DEF vars, TypeOK, CleanInv, Holding, Clean, InFlight, First
<1>. QED BY <1>1, <1>2, <1>3, <1>4, <1>5, <1>6, <1>7, <1>8, <1>9, <1>10,
   <1>11, <1>12, <1>13, <1>14, <1>15, <1>16, <1>17, <1>18, <1>19, <1>20,
   <1>21, StepCases

------------------------------------------------------------------------------
(* Nothing is cached, locked, requested or pinned at the start. *)
LEMMA InitIInv == ASSUME Init PROVE IInv
<1>1. TypeOK
  <2>1. disk \in [Block -> Value] /\ (CHOOSE v \in Value : TRUE) \in Value
    BY ConstFacts DEF Init
  <2>2. data \in [Buf -> Value]
    BY <2>1 DEF Init
  <2>3. idx \in [Proc -> Seq(Desc)] /\ used \in Seq(Desc)
    BY DEF Init
  <2>4. info \in [Desc -> Request \cup {NoRequest}]
    BY DEF Init
  <2>. QED BY <2>1, <2>2, <2>3, <2>4 DEF Init, TypeOK
<1>2. LockInv /\ ValidInv
  BY ConstFacts DEF Init, LockInv, HasLock, ValidInv, DiskPc, Holding
<1>3. CountInv
  <2>1. \A b \in Buf : Users(b) = {}
    BY ConstFacts DEF Init, Users
  <2>2. \A b \in Buf : refcnt[b] = 0 /\ b \notin pinned
    BY DEF Init
  <2>. QED BY <2>1, <2>2, FS_EmptySet DEF CountInv
<1>4. UniqueInv /\ WakeInv
  BY DEF Init, UniqueInv, WakeInv
<1>5. ChainInv
  <2>1. \A p \in Proc : Chain(p) = {} /\ ~InFlight(p) /\ idx[p] = <<>>
    BY DEF Init, Chain, InFlight
  <2>. QED BY <2>1 DEF Init, ChainInv
<1>6. RequestInv
  <2>1. Served = {} /\ Distinct(used) /\ \A p \in Proc : ~InFlight(p)
    BY DEF Init, Served, Distinct, InFlight
  <2>. QED BY <2>1 DEF Init, RequestInv
<1>7. CleanInv
  BY DEF Init, CleanInv, InFlight
<1>. QED BY <1>1, <1>2, <1>3, <1>4, <1>5, <1>6, <1>7 DEF IInv

(* Every step keeps the invariant. *)
LEMMA IInvStep == ASSUME IInv, [Next]_vars PROVE IInv'
BY TypeOKStep, LockInvStep, ValidInvStep, CountInvStep, UniqueInvStep,
   ChainInvStep, RequestInvStep, WakeInvStep, CleanInvStep DEF IInv

(* The cache and the driver agree on locks, references, requests and data  *)
(* in every reachable state.                                               *)
THEOREM Invariance == Spec => []IInv
<1>1. Init => IInv
  BY InitIInv
<1>2. IInv /\ [Next]_vars => IInv'
  BY IInvStep
<1>. QED BY <1>1, <1>2, PTL DEF Spec

(* Every variable keeps its type. *)
THEOREM TypeCorrectness == Spec => []TypeOK
<1>1. IInv => TypeOK
  BY DEF IInv
<1>. QED BY <1>1, Invariance, PTL

(* bget(), bpin(), bunpin() and brelse() never lose a reference, no block  *)
(* has two buffers, and no buffer is locked by two threads.                *)
THEOREM BufferCounting == Spec => []BuffersInUse
<1>1. IInv => BuffersInUse
  BY DEF IInv, CountInv, UniqueInv, LockInv, BuffersInUse
<1>. QED BY <1>1, Invariance, PTL

(* virtio_disk_rw() loses no descriptor and shares none.                   *)
THEOREM DescriptorsKept == Spec => []DescriptorsAccounted
<1>1. IInv => DescriptorsAccounted
  <2>. SUFFICES ASSUME IInv PROVE DescriptorsAccounted
    OBVIOUS
  <2>1. free \subseteq Desc /\ \A p \in Proc : Chain(p) \subseteq Desc
    BY ChainFacts DEF IInv, TypeOK
  <2>2. free \cup UNION {Chain(p) : p \in Proc} = Desc
    BY <2>1 DEF IInv, ChainInv
  <2>. QED BY <2>2 DEF IInv, ChainInv, DescriptorsAccounted
<1>. QED BY <1>1, Invariance, PTL

(* acquiresleep() and virtio_disk_rw() sleep only while somebody will wake *)
(* the thread.                                                             *)
THEOREM NoSleeperForgotten == Spec => []SleepersAwaited
<1>1. IInv => SleepersAwaited
  <2>. SUFFICES ASSUME IInv PROVE SleepersAwaited
    OBVIOUS
  <2>1. ASSUME NEW p \in Proc, pc[p] = "disk_sleep"
        PROVE  owned[buf[p]] /\ idx[p][1] \in avail \cup Served
    <3>1. InFlight(p)
      BY <2>1 DEF InFlight
    <3>. QED BY <2>1, <3>1 DEF IInv, RequestInv, First
  <2>2. /\ \A p \in Proc : pc[p] = "lock_sleep" => lock[buf[p]] # None
        /\ \A p \in Proc : pc[p] = "desc_sleep" => \E q \in Proc : InFlight(q)
        /\ used # <<>> => irq \/ intr = "loop"
    BY DEF IInv, LockInv, WakeInv
  <2>. QED BY <2>1, <2>2 DEF SleepersAwaited, Served
<1>. QED BY <1>1, Invariance, PTL

(* bwrite() returns after its write, and bget() recycles no buffer whose   *)
(* data are nowhere else.                                                  *)
THEOREM WritesKept == Spec => []WritesReachDisk
<1>1. IInv => WritesReachDisk
  <2>. SUFFICES ASSUME IInv PROVE WritesReachDisk
    OBVIOUS
  <2>1. \A p \in Proc : pc[p] = "wrote" => disk[blockno[buf[p]]] = data[buf[p]]
    BY DEF IInv, CleanInv, Clean
  <2>2. ASSUME NEW b \in Buf, refcnt[b] = 0, valid[b]
        PROVE  disk[blockno[b]] = data[b]
    <3>1. b \notin pinned /\ \A p \in Proc : buf[p] # b
      BY <2>2, CountFacts DEF IInv, Users
    <3>. QED BY <2>2, <3>1 DEF IInv, CleanInv, Clean
  <2>. QED BY <2>1, <2>2 DEF WritesReachDisk
<1>. QED BY <1>1, Invariance, PTL

------------------------------------------------------------------------------
(* Who has a block for the file system has its buffer locked and read, and *)
(* nobody else has it.                                                     *)
LEMMA HasFacts ==
    ASSUME IInv, NEW p \in Proc, Has(p)
    PROVE  /\ HasLock(p) /\ buf[p] \in Buf /\ valid[buf[p]]
           /\ blockno[buf[p]] \in Block /\ Holder[blockno[buf[p]]] = p
           /\ \A q \in Proc : Has(q) /\ blockno[buf[q]] = blockno[buf[p]] => q = p
<1>1. ASSUME NEW q \in Proc, Has(q)
      PROVE  HasLock(q) /\ buf[q] \in Buf /\ valid[buf[q]] /\ blockno[buf[q]] \in Block
  <2>1. pc[q] \in Holding \cup DiskPc /\ valid[buf[q]]
    BY <1>1 DEF Has, IInv, ValidInv
  <2>2. HasLock(q)
    BY <2>1 DEF Holding, DiskPc, HasLock
  <2>. QED BY <2>1, <2>2, LockFacts DEF IInv
<1>2. \A q \in Proc : Has(q) /\ blockno[buf[q]] = blockno[buf[p]] => q = p
  BY <1>1, LockFacts, ConstFacts DEF IInv, UniqueInv
<1>3. Holder[blockno[buf[p]]] = p
  BY <1>1, <1>2 DEF Holder
<1>. QED BY <1>1, <1>2, <1>3

(* A block nobody has. *)
LEMMA NoHolder ==
    ASSUME IInv, NEW blk \in Block,
           \A p \in Proc : Has(p) => blockno[buf[p]] # blk
    PROVE  Holder[blk] = None
BY DEF Holder

(* A block is what its buffer holds, or else the disk. *)
LEMMA MemFacts ==
    ASSUME UniqueInv, NEW blk \in Block
    PROVE  /\ \A b \in Buf : blockno[b] = blk =>
                 Mem[blk] = IF valid[b] THEN data[b] ELSE disk[blk]
           /\ ~Cached(blk) => Mem[blk] = disk[blk]
<1>1. ASSUME NEW b \in Buf, blockno[b] = blk
      PROVE  Mem[blk] = IF valid[b] THEN data[b] ELSE disk[blk]
  <2>1. Current(blk) = b /\ Cached(blk)
    BY <1>1, ConstFacts DEF UniqueInv, Current, Cached
  <2>. QED BY <2>1 DEF Mem
<1>2. ~Cached(blk) => Mem[blk] = disk[blk]
  BY DEF Mem
<1>. QED BY <1>1, <1>2

(* The same after a step. *)
LEMMA MemFactsNext ==
    ASSUME UniqueInv', NEW blk \in Block
    PROVE  /\ \A b \in Buf : blockno'[b] = blk =>
                 Mem'[blk] = IF valid'[b] THEN data'[b] ELSE disk'[blk]
           /\ (\A b \in Buf : blockno'[b] # blk) => Mem'[blk] = disk'[blk]
<1>1. ASSUME NEW b \in Buf, blockno'[b] = blk
      PROVE  Mem'[blk] = IF valid'[b] THEN data'[b] ELSE disk'[blk]
  <2>1. Current(blk)' = b /\ Cached(blk)'
    BY <1>1, ConstFacts DEF UniqueInv, Current, Cached
  <2>. QED BY <2>1 DEF Mem
<1>2. (\A b \in Buf : blockno'[b] # blk) => Mem'[blk] = disk'[blk]
  BY DEF Mem, Cached
<1>. QED BY <1>1, <1>2

(* A block keeps what it is if its buffer, or the disk, does. *)
LEMMA MemSame ==
    ASSUME UniqueInv, UniqueInv', NEW blk \in Block, NEW b \in Buf,
           blockno[b] = blk, blockno'[b] = blk,
           IF valid'[b] THEN data'[b] = Mem[blk] ELSE disk'[blk] = Mem[blk]
    PROVE  Mem'[blk] = Mem[blk]
BY MemFactsNext

(* A step that changes no contents. *)
LEMMA MemUnchanged ==
    ASSUME UNCHANGED <<disk, blockno, valid, data>>
    PROVE  Mem' = Mem
BY DEF Mem, Cached, Current

(* A step after which the same threads have the same blocks. *)
LEMMA HoldersSame ==
    ASSUME \A p \in Proc : Has(p)' <=> Has(p),
           \A p \in Proc : Has(p) => blockno'[buf'[p]] = blockno[buf[p]]
    PROVE  Holder' = Holder
BY DEF Holder

(* And their contents are the same. *)
LEMMA ViewSame ==
    ASSUME \A p \in Proc : Has(p)' <=> Has(p),
           \A p \in Proc : Has(p) => data'[buf'[p]] = data[buf[p]]
    PROVE  View' = View
BY DEF View

(* A thread gets a block: bread() has what was last left in it. *)
LEMMA LockStep ==
    ASSUME IInv, IInv', NEW p \in Proc, ~Has(p), Has(p)',
           \A q \in Proc \ {p} : Has(q)' <=> Has(q),
           buf[p] \in Buf, blockno[buf[p]] \in Block,
           \A q \in Proc : Has(q) => blockno[buf[q]] # blockno[buf[p]],
           data[buf[p]] = Mem[blockno[buf[p]]],
           UNCHANGED <<disk, blockno, data, buf>>, Mem' = Mem
    PROVE  Store!Lock(p, blockno[buf[p]])
<1>. DEFINE blk == blockno[buf[p]]
<1>1. Holder[blk] = None /\ View[p] = None
  BY NoHolder DEF View
<1>2. Holder' = [Holder EXCEPT ![blk] = p]
  <2>1. Holder'[blk] = p
    <3>1. \A q \in Proc : Has(q)' /\ blockno'[buf'[q]] = blk <=> q = p
      OBVIOUS
    <3>. QED BY <3>1 DEF Holder
  <2>2. ASSUME NEW c \in Block, c # blk PROVE Holder'[c] = Holder[c]
    <3>1. \A q \in Proc : (Has(q)' /\ blockno'[buf'[q]] = c)
                             <=> (Has(q) /\ blockno[buf[q]] = c)
      BY <2>2
    <3>. QED BY <3>1 DEF Holder
  <2>3. Holder = [c \in Block |-> Holder[c]] /\ Holder' = [c \in Block |-> Holder'[c]]
    BY DEF Holder
  <2>. QED BY <2>1, <2>2, <2>3
<1>3. View' = [View EXCEPT ![p] = Mem[blk]]
  BY DEF View
<1>. QED BY <1>1, <1>2, <1>3 DEF Store!Lock

(* A step of the thread that has a block that changes its contents. *)
LEMMA WriteStep ==
    ASSUME IInv, IInv', NEW p \in Proc, NEW v \in Value, Has(p),
           \A q \in Proc : Has(q)' <=> Has(q),
           data' = [data EXCEPT ![buf[p]] = v],
           UNCHANGED <<disk, blockno, valid, buf>>
    PROVE  Store!Write(p, blockno[buf[p]], v)
<1>. DEFINE b == buf[p]  blk == blockno[buf[p]]
<1>1. /\ HasLock(p) /\ b \in Buf /\ valid[b] /\ blk \in Block /\ Holder[blk] = p
      /\ \A q \in Proc : Has(q) /\ q # p => buf[q] # b
  BY HasFacts
<1>2. data'[b] = v /\ \A c \in Buf \ {b} : data'[c] = data[c]
  BY <1>1 DEF IInv, TypeOK
<1>3. Mem' = [Mem EXCEPT ![blk] = v]
  <2>1. Mem'[blk] = v
    BY <1>1, <1>2, MemFactsNext DEF IInv
  <2>2. ASSUME NEW c \in Block, c # blk PROVE Mem'[c] = Mem[c]
    <3>1. CASE Cached(c)
      <4>1. PICK d \in Buf : blockno[d] = c
        BY <3>1 DEF Cached
      <4>2. d # b
        BY <2>2, <4>1
      <4>. QED BY <1>2, <4>1, <4>2, MemFacts, MemFactsNext DEF IInv
    <3>2. CASE ~Cached(c)
      BY <3>2, MemFacts, MemFactsNext DEF IInv, Cached
    <3>. QED BY <3>1, <3>2
  <2>3. Mem = [c \in Block |-> Mem[c]] /\ Mem' = [c \in Block |-> Mem'[c]]
    BY DEF Mem
  <2>. QED BY <2>1, <2>2, <2>3
<1>4. Holder' = Holder
  BY HoldersSame
<1>5. View' = [View EXCEPT ![p] = v]
  <2>1. \A q \in Proc : Has(q) /\ q # p => data'[buf[q]] = data[buf[q]]
    BY <1>1, <1>2, HasFacts
  <2>. QED BY <1>2, <2>1 DEF View
<1>. QED BY <1>1, <1>3, <1>4, <1>5 DEF Store!Write

(* A step that the file system does not see. *)
LEMMA QuietStep ==
    ASSUME UNCHANGED <<disk, blockno, valid, data>>,
           \A p \in Proc : Has(p)' <=> Has(p),
           \A p \in Proc : Has(p) => buf'[p] = buf[p]
    PROVE  UNCHANGED Store!vars
BY MemUnchanged, HoldersSame, ViewSame DEF Store!vars

(* bget() recycles a buffer: both blocks are on the disk as they are. *)
LEMMA RecycleRefines ==
    ASSUME IInv, IInv', NEW p \in Proc, NEW blk \in Block, Recycle(p, blk)
    PROVE  UNCHANGED Store!vars
<1>1. PICK b \in Buf : /\ refcnt[b] = 0
                       /\ blockno' = [blockno EXCEPT ![b] = blk]
                       /\ valid' = [valid EXCEPT ![b] = FALSE]
                       /\ buf' = [buf EXCEPT ![p] = b]
  BY DEF Recycle, Unused
<1>2. /\ pc[p] = "idle" /\ pc' = [pc EXCEPT ![p] = "lock"] /\ ~Cached(blk)
      /\ UNCHANGED <<disk, data, writes>>
  BY DEF Recycle, Goto, locals
<1>3. b \notin pinned /\ \A q \in Proc : buf[q] # b
  BY <1>1, CountFacts DEF IInv, Users
<1>4. /\ blockno'[b] = blk /\ ~valid'[b]
      /\ \A c \in Buf \ {b} : blockno'[c] = blockno[c] /\ valid'[c] = valid[c]
  BY <1>1 DEF IInv, TypeOK
<1>5. Mem' = Mem
  <2>1. ASSUME NEW x \in Block PROVE Mem'[x] = Mem[x]
    <3>1. CASE x = blk
      BY <1>2, <1>4, <3>1, MemFacts, MemFactsNext DEF IInv
    <3>2. CASE x = blockno[b]
      <4>1. valid[b] => data[b] = disk[x]
        BY <1>3, <3>2 DEF IInv, CleanInv, Clean
      <4>2. Mem[x] = disk[x]
        BY <3>2, <4>1, MemFacts DEF IInv
      <4>3. \A c \in Buf : blockno'[c] # x
        BY <1>2, <1>4, <3>2, ConstFacts DEF IInv, UniqueInv, Cached
      <4>. QED BY <1>2, <4>2, <4>3, MemFactsNext DEF IInv
    <3>3. CASE x # blk /\ x # blockno[b]
      <4>1. CASE \E c \in Buf : blockno[c] = x
        <5>1. PICK c \in Buf : blockno[c] = x
          BY <4>1
        <5>. QED BY <1>2, <1>4, <3>3, <5>1, MemFacts, MemFactsNext DEF IInv
      <4>2. CASE ~\E c \in Buf : blockno[c] = x
        BY <1>2, <1>4, <3>3, <4>2, MemFacts, MemFactsNext DEF IInv, Cached
      <4>. QED BY <4>1, <4>2
    <3>. QED BY <3>1, <3>2, <3>3
  <2>2. Mem = [x \in Block |-> Mem[x]] /\ Mem' = [x \in Block |-> Mem'[x]]
    BY DEF Mem
  <2>. QED BY <2>1, <2>2
<1>6. \A q \in Proc : Has(q)' <=> Has(q)
  <2>1. ~Has(p) /\ ~Has(p)'
    <3>1. ~writes[p] /\ pc'[p] = "lock"
      BY <1>2 DEF IInv, TypeOK, ValidInv, DiskPc
    <3>. QED BY <1>2, <3>1 DEF Has, Holding
  <2>2. \A q \in Proc \ {p} : pc'[q] = pc[q]
    BY <1>2 DEF IInv, TypeOK
  <2>. QED BY <1>2, <2>1, <2>2 DEF Has, Holding
<1>7. \A q \in Proc : Has(q) => /\ buf'[q] = buf[q]
                                /\ blockno'[buf'[q]] = blockno[buf[q]]
                                /\ data'[buf'[q]] = data[buf[q]]
  <2>1. ~Has(p)
    <3>1. ~writes[p]
      BY <1>2 DEF IInv, ValidInv, DiskPc
    <3>. QED BY <1>2, <3>1 DEF Has, Holding
  <2>2. \A q \in Proc : Has(q) => buf[q] \in Buf \ {b} /\ buf'[q] = buf[q]
    BY <1>1, <1>3, <2>1, HasFacts DEF IInv, TypeOK
  <2>. QED BY <1>2, <1>4, <2>2
<1>. QED BY <1>2, <1>5, <1>6, <1>7, HoldersSame, ViewSame DEF Store!vars

(* acquiresleep() gives a thread a valid buffer, or one to read. *)
LEMMA AcquireRefines ==
    ASSUME IInv, IInv', NEW p \in Proc, AcquireSleep(p)
    PROVE  Store!Lock(p, blockno[buf[p]]) \/ UNCHANGED Store!vars
<1>1. /\ pc[p] = "lock"
      /\ UNCHANGED <<disk, blockno, valid, data, buf, writes>>
  BY DEF AcquireSleep, cache, locals
<1>2. buf[p] \in Buf /\ blockno[buf[p]] \in Block /\ ~writes[p]
  <2>1. buf[p] # None /\ blockno[buf[p]] # None
    BY <1>1 DEF IInv, LockInv
  <2>2. buf[p] \in Buf /\ blockno[buf[p]] \in Block
    BY <2>1 DEF IInv, TypeOK
  <2>3. ~writes[p]
    BY <1>1 DEF IInv, ValidInv, DiskPc
  <2>. QED BY <2>2, <2>3
<1>3. PICK l \in {"lock_sleep", "hold", "rw"} :
          /\ pc' = [pc EXCEPT ![p] = l]
          /\ l = "hold" => lock[buf[p]] = None /\ valid[buf[p]]
  BY DEF AcquireSleep, Goto
<1>4. pc'[p] = l /\ \A q \in Proc \ {p} : pc'[q] = pc[q]
  BY <1>3 DEF IInv, TypeOK
<1>5. ~Has(p) /\ \A q \in Proc \ {p} : Has(q)' <=> Has(q)
  BY <1>1, <1>2, <1>4 DEF Has, Holding
<1>6. CASE l = "hold"
  <2>1. Has(p)'
    BY <1>4, <1>6 DEF Has, Holding
  <2>2. \A q \in Proc : Has(q) => blockno[buf[q]] # blockno[buf[p]]
    <3>. SUFFICES ASSUME NEW q \in Proc, Has(q), blockno[buf[q]] = blockno[buf[p]]
                  PROVE  FALSE
      OBVIOUS
    <3>1. HasLock(q) /\ buf[q] \in Buf
      BY HasFacts
    <3>2. buf[q] = buf[p]
      BY <1>2, <3>1, ConstFacts DEF IInv, UniqueInv
    <3>. QED BY <1>3, <1>6, <3>1, <3>2, ConstFacts DEF IInv, LockInv
  <2>3. data[buf[p]] = Mem[blockno[buf[p]]]
    BY <1>2, <1>3, <1>6, MemFacts DEF IInv
  <2>4. Mem' = Mem
    BY <1>1, MemUnchanged
  <2>. QED BY <1>1, <1>2, <1>5, <2>1, <2>2, <2>3, <2>4, LockStep
<1>7. CASE l # "hold"
  <2>1. ~Has(p)'
    BY <1>1, <1>2, <1>4, <1>7 DEF Has, Holding
  <2>. QED BY <1>1, <1>5, <2>1, QuietStep
<1>. QED BY <1>6, <1>7

(* virtio_disk_rw() returns: the thread has read its block, or written it. *)
LEMMA DoneRefines ==
    ASSUME IInv, IInv', NEW p \in Proc, Done(p)
    PROVE  Store!Lock(p, blockno[buf[p]]) \/ UNCHANGED Store!vars
<1>1. Finished(p)
  BY DoneEffect, Zenon DEF IInv
<1>2. /\ pc[p] = "disk_awake" /\ ~owned[buf[p]]
      /\ UNCHANGED <<disk, blockno, data, buf>>
      /\ valid' = [valid EXCEPT ![buf[p]] = TRUE]
  BY <1>1 DEF Finished, cache
<1>3. HasLock(p) /\ InFlight(p) /\ Clean(buf[p])
  <2>1. HasLock(p) /\ InFlight(p)
    BY <1>2 DEF HasLock, InFlight
  <2>2. First(p) \notin avail
    BY <1>2, <2>1 DEF IInv, RequestInv
  <2>. QED BY <2>1, <2>2 DEF IInv, CleanInv
<1>4. buf[p] \in Buf /\ blockno[buf[p]] \in Block /\ (valid[buf[p]] <=> writes[p])
  BY <1>2, <1>3, LockFacts DEF IInv, ValidInv, DiskPc
<1>5. valid'[buf[p]] /\ \A c \in Buf \ {buf[p]} : valid'[c] = valid[c]
  BY <1>2, <1>4 DEF IInv, TypeOK
<1>6. Mem' = Mem
  <2>1. ASSUME NEW x \in Block PROVE Mem'[x] = Mem[x]
    <3>1. CASE x = blockno[buf[p]]
      BY <1>2, <1>3, <1>4, <1>5, <3>1, MemFacts, MemFactsNext DEF IInv, Clean
    <3>2. CASE x # blockno[buf[p]] /\ Cached(x)
      <4>1. PICK c \in Buf : blockno[c] = x
        BY <3>2 DEF Cached
      <4>. QED BY <1>2, <1>5, <3>2, <4>1, MemFacts, MemFactsNext DEF IInv
    <3>3. CASE ~Cached(x)
      BY <1>2, <3>3, MemFacts, MemFactsNext DEF IInv, Cached
    <3>. QED BY <3>1, <3>2, <3>3
  <2>2. Mem = [x \in Block |-> Mem[x]] /\ Mem' = [x \in Block |-> Mem'[x]]
    BY DEF Mem
  <2>. QED BY <2>1, <2>2
<1>7. Has(p)' /\ \A q \in Proc \ {p} : Has(q)' <=> Has(q)
  <2>1. pc'[p] \in Holding
    BY <1>1 DEF Finished, Holding
  <2>2. ASSUME NEW q \in Proc \ {p}
        PROVE  /\ writes'[q] = writes[q]
               /\ pc'[q] \in Holding <=> pc[q] \in Holding
               /\ pc'[q] = "idle" <=> pc[q] = "idle"
    BY <1>1 DEF Finished, Holding, IInv, TypeOK
  <2>. QED BY <2>1, <2>2 DEF Has, Holding
<1>8. CASE writes[p]
  <2>1. Has(p)
    BY <1>2, <1>8 DEF Has
  <2>2. \A q \in Proc : Has(q)' <=> Has(q)
    BY <1>7, <2>1
  <2>. QED BY <1>2, <1>6, <2>2, HoldersSame, ViewSame DEF Store!vars
<1>9. CASE ~writes[p]
  <2>1. ~Has(p)
    BY <1>2, <1>9 DEF Has, Holding
  <2>2. \A q \in Proc : Has(q) => blockno[buf[q]] # blockno[buf[p]]
    <3>. SUFFICES ASSUME NEW q \in Proc, Has(q), blockno[buf[q]] = blockno[buf[p]]
                  PROVE  FALSE
      OBVIOUS
    <3>1. HasLock(q) /\ buf[q] \in Buf
      BY HasFacts
    <3>2. buf[q] = buf[p]
      BY <1>4, <3>1, ConstFacts DEF IInv, UniqueInv
    <3>. QED BY <1>3, <2>1, <3>1, <3>2, LockFacts DEF IInv
  <2>3. data[buf[p]] = Mem[blockno[buf[p]]]
    BY <1>3, <1>4, MemFacts DEF IInv, Clean
  <2>. QED BY <1>2, <1>4, <1>6, <1>7, <2>1, <2>2, <2>3, LockStep
<1>. QED BY <1>8, <1>9

(* The device writes a block that a thread has, or reads one into a buffer *)
(* that nobody has yet.                                                    *)
LEMMA ServeRefines ==
    ASSUME IInv, IInv', NEW d \in Desc, Serve(d)
    PROVE  (\E blk \in Block : Store!Sync(blk)) \/ UNCHANGED Store!vars
<1>1. d \in avail /\ UNCHANGED <<blockno, valid, pc, buf, writes>>
  BY DEF Serve, cache, locals
<1>2. PICK p \in Proc :
          /\ InFlight(p) /\ HasLock(p)
          /\ buf[p] \in Buf /\ blockno[buf[p]] \in Block
          /\ info[d] = [b |-> buf[p], block |-> blockno[buf[p]],
                        write |-> writes[p]]
  BY <1>1, ServeFacts
<1>. DEFINE b == buf[p]  blk == blockno[buf[p]]
<1>3. /\ writes[p] => disk' = [disk EXCEPT ![blk] = data[b]] /\ data' = data
      /\ ~writes[p] => data' = [data EXCEPT ![b] = disk[blk]] /\ disk' = disk
  <2>1. info[d].b = b /\ info[d].block = blk /\ info[d].write = writes[p]
    BY <1>2
  <2>. QED BY <2>1 DEF Serve
<1>4. valid[b] <=> writes[p]
  BY <1>2 DEF IInv, ValidInv, InFlight, DiskPc
<1>5. \A q \in Proc : Has(q)' <=> Has(q)
  BY <1>1 DEF Has
<1>6. Holder' = Holder
  BY <1>1, <1>5, HoldersSame
<1>7. Mem = [x \in Block |-> Mem[x]] /\ Mem' = [x \in Block |-> Mem'[x]]
  BY DEF Mem
<1>8. CASE writes[p]
  <2>1. Has(p)
    BY <1>2, <1>8 DEF Has, InFlight
  <2>2. Holder[blk] # None
    BY <2>1, HasFacts, ConstFacts
  <2>3. Mem[blk] = data[b] /\ Mem'[blk] = data[b]
    BY <1>1, <1>2, <1>3, <1>4, <1>8, MemFacts, MemFactsNext DEF IInv
  <2>4. ASSUME NEW x \in Block, x # blk PROVE Mem'[x] = Mem[x]
    <3>1. disk'[x] = disk[x] /\ data' = data
      BY <1>2, <1>3, <1>8, <2>4 DEF IInv, TypeOK
    <3>2. CASE \E c \in Buf : blockno[c] = x
      <4>1. PICK c \in Buf : blockno[c] = x
        BY <3>2
      <4>. QED BY <1>1, <3>1, <4>1, MemFacts, MemFactsNext DEF IInv
    <3>3. CASE ~\E c \in Buf : blockno[c] = x
      BY <1>1, <3>1, <3>3, MemFacts, MemFactsNext DEF IInv, Cached
    <3>. QED BY <3>2, <3>3
  <2>5. Mem' = Mem
    BY <1>7, <2>3, <2>4
  <2>6. View' = View
    BY <1>1, <1>3, <1>5, <1>8, ViewSame
  <2>7. disk' = [disk EXCEPT ![blk] = Mem[blk]]
    BY <1>3, <1>8, <2>3
  <2>8. Store!Sync(blk)
    BY <1>6, <2>2, <2>5, <2>6, <2>7 DEF Store!Sync
  <2>. QED BY <1>2, <2>8
<1>9. CASE ~writes[p]
  <2>1. ~Has(p) /\ ~valid[b]
    BY <1>2, <1>4, <1>9 DEF Has, Holding, InFlight
  <2>2. disk' = disk /\ \A c \in Buf \ {b} : data'[c] = data[c]
    BY <1>2, <1>3, <1>9 DEF IInv, TypeOK
  <2>3. ASSUME NEW x \in Block PROVE Mem'[x] = Mem[x]
    <3>1. CASE \E c \in Buf : blockno[c] = x
      <4>1. PICK c \in Buf : blockno[c] = x
        BY <3>1
      <4>. QED BY <1>1, <2>1, <2>2, <4>1, MemFacts, MemFactsNext DEF IInv
    <3>2. CASE ~\E c \in Buf : blockno[c] = x
      BY <1>1, <2>2, <3>2, MemFacts, MemFactsNext DEF IInv, Cached
    <3>. QED BY <3>1, <3>2
  <2>4. Mem' = Mem
    BY <1>7, <2>3
  <2>5. \A q \in Proc : Has(q) => data'[buf[q]] = data[buf[q]]
    <3>. SUFFICES ASSUME NEW q \in Proc, Has(q) PROVE data'[buf[q]] = data[buf[q]]
      OBVIOUS
    <3>1. HasLock(q) /\ buf[q] \in Buf /\ q # p
      BY <2>1, HasFacts
    <3>2. buf[q] # b
      BY <1>2, <3>1, LockFacts DEF IInv
    <3>. QED BY <2>2, <3>1, <3>2
  <2>6. View' = View
    BY <1>1, <1>5, <2>5, ViewSame
  <2>. QED BY <1>6, <2>2, <2>4, <2>6 DEF Store!vars
<1>. QED BY <1>8, <1>9

(* A change of data, with bwrite() or with log_write(). *)
LEMMA ChangeRefines ==
    ASSUME IInv, IInv', NEW p \in Proc, NEW v \in Value,
           WriteLog(p, v) \/ LogWrite(p, v)
    PROVE  blockno[buf[p]] \in Block /\ Store!Write(p, blockno[buf[p]], v)
<1>1. /\ pc[p] = "hold" /\ data' = [data EXCEPT ![buf[p]] = v]
      /\ UNCHANGED <<disk, blockno, valid, buf>>
  BY DEF WriteLog, LogWrite, Bwrite, Change, locals
<1>2. Has(p)
  BY <1>1 DEF Has, Holding
<1>3. \A q \in Proc : Has(q)' <=> Has(q)
  <2>1. CASE WriteLog(p, v)
    <3>1. writes' = [writes EXCEPT ![p] = TRUE] /\ pc' = [pc EXCEPT ![p] = "rw"]
      BY <2>1 DEF WriteLog, Bwrite, Goto
    <3>2. /\ writes'[p] /\ pc'[p] = "rw"
          /\ \A q \in Proc \ {p} : writes'[q] = writes[q] /\ pc'[q] = pc[q]
      BY <3>1 DEF IInv, TypeOK
    <3>. QED BY <1>2, <3>2 DEF Has, Holding
  <2>2. CASE LogWrite(p, v)
    BY <2>2 DEF LogWrite, locals, Has, Holding
  <2>. QED BY <2>1, <2>2
<1>. QED BY <1>1, <1>2, <1>3, HasFacts, WriteStep

(* brelse() lets go of the block. *)
LEMMA ReleaseRefines ==
    ASSUME IInv, IInv', NEW p \in Proc, Release(p)
    PROVE  blockno[buf[p]] \in Block /\ Store!Unlock(p, blockno[buf[p]])
<1>1. /\ pc[p] \in Holding
      /\ UNCHANGED <<disk, blockno, valid, data, buf, writes>>
  BY DEF Release, Holding, cache
<1>. DEFINE blk == blockno[buf[p]]
<1>2. Has(p) /\ ~writes[p]
  BY <1>1 DEF Has, Holding, IInv, ValidInv, DiskPc
<1>3. ~Has(p)' /\ \A q \in Proc \ {p} : Has(q)' <=> Has(q)
  <2>1. pc'[p] = "unref"
    BY DEF Release, GotoWaking
  <2>2. \A q \in Proc \ {p} : \/ pc'[q] = pc[q]
                              \/ pc[q] = "lock_sleep" /\ pc'[q] = "lock"
    BY DEF Release, GotoWaking, LockSleepers
  <2>. QED BY <1>1, <1>2, <2>1, <2>2 DEF Has, Holding
<1>4. /\ blk \in Block /\ Holder[blk] = p
      /\ \A q \in Proc : Has(q) /\ blockno[buf[q]] = blk => q = p
  BY <1>2, HasFacts
<1>5. Holder' = [Holder EXCEPT ![blk] = None]
  <2>1. Holder'[blk] = None
    <3>1. \A q \in Proc : ~(Has(q)' /\ blockno'[buf'[q]] = blk)
      BY <1>1, <1>3, <1>4
    <3>. QED BY <1>4, <3>1 DEF Holder
  <2>2. ASSUME NEW c \in Block, c # blk PROVE Holder'[c] = Holder[c]
    <3>1. \A q \in Proc : (Has(q)' /\ blockno'[buf'[q]] = c)
                             <=> (Has(q) /\ blockno[buf[q]] = c)
      BY <1>1, <1>3, <2>2
    <3>. QED BY <3>1 DEF Holder
  <2>3. Holder = [c \in Block |-> Holder[c]] /\ Holder' = [c \in Block |-> Holder'[c]]
    BY DEF Holder
  <2>. QED BY <2>1, <2>2, <2>3
<1>6. View' = [View EXCEPT ![p] = None]
  BY <1>1, <1>3 DEF View
<1>7. Mem' = Mem
  BY <1>1, MemUnchanged
<1>. QED BY <1>1, <1>4, <1>5, <1>6, <1>7 DEF Store!Unlock

(* The other steps are not seen. *)
LEMMA OtherRefines ==
    ASSUME IInv, [Next]_vars
    PROVE  \/ UNCHANGED Store!vars
           \/ \E p \in Proc, blk \in Block : Recycle(p, blk)
           \/ \E p \in Proc : AcquireSleep(p) \/ Done(p) \/ Release(p)
           \/ \E p \in Proc, v \in Value : WriteLog(p, v) \/ LogWrite(p, v)
           \/ \E d \in Desc : Serve(d)
<1>. USE DEF IInv, cache, buffers, queue, locals
<1>1. ASSUME NEW p \in Proc, NEW blk \in Block, Hit(p, blk) \/ Panic(p, blk)
      PROVE  UNCHANGED Store!vars
  <2>1. /\ pc[p] = "idle" /\ pc'[p] \in {"lock", "panic"}
        /\ \A q \in Proc \ {p} : pc'[q] = pc[q] /\ buf'[q] = buf[q]
        /\ UNCHANGED <<disk, blockno, valid, data, writes>>
    BY <1>1 DEF Hit, Panic, Goto, TypeOK
  <2>2. ~writes[p]
    BY <2>1 DEF ValidInv, DiskPc
  <2>. QED BY <2>1, <2>2, QuietStep DEF Has, Holding
<1>2. ASSUME NEW p \in Proc, Install(p) PROVE UNCHANGED Store!vars
  <2>1. /\ pc[p] = "hold" /\ writes' = [writes EXCEPT ![p] = TRUE]
        /\ pc' = [pc EXCEPT ![p] = "rw"]
        /\ UNCHANGED <<disk, blockno, valid, data, buf>>
    BY <1>2 DEF Install, Bwrite, Goto
  <2>2. /\ writes'[p] /\ pc'[p] = "rw"
        /\ \A q \in Proc \ {p} : writes'[q] = writes[q] /\ pc'[q] = pc[q]
    BY <2>1 DEF TypeOK
  <2>. QED BY <2>1, <2>2, QuietStep DEF Has, Holding
<1>3. ASSUME NEW p \in Proc, Unref(p) PROVE UNCHANGED Store!vars
  <2>1. /\ pc[p] = "unref" /\ pc'[p] = "idle"
        /\ \A q \in Proc \ {p} : pc'[q] = pc[q] /\ buf'[q] = buf[q]
        /\ UNCHANGED <<disk, blockno, valid, data, writes>>
    BY <1>3 DEF Unref, Goto, TypeOK
  <2>2. ~writes[p]
    BY <2>1 DEF ValidInv, DiskPc
  <2>. QED BY <2>1, <2>2, QuietStep DEF Has, Holding
<1>4. ASSUME NEW p \in Proc, Submit(p) \/ NoDesc(p) \/ SleepAgain(p) \/ Unpin(p)
                             \/ Kill(p)
      PROVE  UNCHANGED Store!vars
  <2>1. UNCHANGED <<disk, blockno, valid, data, writes, buf>>
    BY <1>4 DEF Submit, NoDesc, SleepAgain, Unpin, Kill
  <2>2. \A q \in Proc : /\ pc'[q] \in Holding <=> pc[q] \in Holding
                        /\ pc'[q] = "idle" <=> pc[q] = "idle"
    <3>1. CASE Submit(p)
      BY <3>1 DEF Submit, Goto, TypeOK, Holding
    <3>2. CASE NoDesc(p)
      BY <3>2, NoDescEffect DEF Refused, Holding
    <3>3. CASE SleepAgain(p)
      BY <3>3 DEF SleepAgain, Goto, TypeOK, Holding
    <3>4. CASE Unpin(p)
      BY <3>4 DEF Unpin, Goto, TypeOK, Holding
    <3>5. CASE Kill(p)
      BY <3>5 DEF Kill, Goto, TypeOK, Holding
    <3>. QED BY <1>4, <3>1, <3>2, <3>3, <3>4, <3>5
  <2>. QED BY <2>1, <2>2, QuietStep DEF Has, Holding
<1>5. CASE IntrNext
  <2>1. UNCHANGED <<disk, blockno, valid, data, writes, buf>>
    BY <1>5 DEF IntrNext
  <2>2. \A q \in Proc : \/ pc'[q] = pc[q]
                        \/ pc[q] = "disk_sleep" /\ pc'[q] = "disk_awake"
    BY <1>5 DEF IntrNext, DiskSleepers
  <2>. QED BY <2>1, <2>2, QuietStep DEF Has, Holding
<1>6. CASE IntrEnter \/ IntrLast \/ IntrExit \/ UNCHANGED vars
  <2>1. UNCHANGED <<disk, blockno, valid, data, pc, writes, buf>>
    BY <1>6 DEF IntrEnter, IntrLast, IntrExit, vars
  <2>. QED BY <2>1, QuietStep DEF Has, Holding
<1>. QED BY <1>1, <1>2, <1>3, <1>4, <1>5, <1>6, StepCases

(* Every step of the cache is one of BlockStore or is not seen. *)
LEMMA StepRefines ==
    ASSUME IInv, IInv', [Next]_vars
    PROVE  [Store!Next]_(Store!vars)
<1>1. ASSUME NEW p \in Proc, AcquireSleep(p) \/ Done(p) \/ Release(p)
      PROVE  [Store!Next]_(Store!vars)
  <2>1. CASE Release(p)
    BY <2>1, ReleaseRefines, Zenon DEF Store!Next
  <2>2. CASE AcquireSleep(p) \/ Done(p)
    <3>1. blockno[buf[p]] \in Block
      <4>1. pc[p] \in {"lock", "disk_awake"}
        BY <2>2 DEF AcquireSleep, Done
      <4>2. buf[p] # None /\ blockno[buf[p]] # None
        BY <4>1 DEF IInv, LockInv
      <4>. QED BY <4>2 DEF IInv, TypeOK
    <3>. QED BY <2>2, <3>1, AcquireRefines, DoneRefines, Zenon DEF Store!Next
  <2>. QED BY <1>1, <2>1, <2>2
<1>2. ASSUME NEW p \in Proc, NEW v \in Value, WriteLog(p, v) \/ LogWrite(p, v)
      PROVE  [Store!Next]_(Store!vars)
  BY <1>2, ChangeRefines, Zenon DEF Store!Next
<1>3. ASSUME NEW d \in Desc, Serve(d) PROVE [Store!Next]_(Store!vars)
  BY <1>3, ServeRefines, Zenon DEF Store!Next
<1>. QED BY <1>1, <1>2, <1>3, OtherRefines, RecycleRefines

(* Nothing is cached, and nobody has a block. *)
LEMMA InitRefines == ASSUME Init PROVE Store!Init
<1>1. disk \in [Block -> Value]
  BY ConstFacts DEF Init
<1>2. \A b \in Buf : blockno[b] = None
  BY DEF Init
<1>3. Mem = disk
  <2>1. \A blk \in Block : ~Cached(blk)
    BY <1>2, ConstFacts DEF Cached
  <2>2. Mem = [blk \in Block |-> disk[blk]]
    BY <2>1 DEF Mem
  <2>. QED BY <1>1, <2>2
<1>4. \A p \in Proc : ~Has(p)
  BY DEF Init, Has, Holding
<1>5. Holder = [blk \in Block |-> None] /\ View = [p \in Proc |-> None]
  BY <1>4 DEF Holder, View
<1>. QED BY <1>1, <1>3, <1>5 DEF Store!Init

(* bread(), bwrite() and brelse() implement blocks that are in one place,  *)
(* for one thread at a time, whatever is cached, recycled, in the hands of *)
(* the device or completed late.                                           *)
THEOREM Refinement == Spec => BlockStoreSpec
<1>1. Init => Store!Init
  BY InitRefines
<1>2. IInv /\ IInv' /\ [Next]_vars => [Store!Next]_(Store!vars)
  BY StepRefines
<1>. QED BY <1>1, <1>2, Invariance, PTL DEF Spec, BlockStoreSpec, Store!Spec
=============================================================================
