--------------------------------- MODULE Bio ---------------------------------
(***************************************************************************)
(* The buffer cache of xv6 (kernel/bio.c), the sleep locks of its buffers  *)
(* (sleeplock.c) and the disk driver below it (virtio_disk.c), with the    *)
(* device that answers requests in any order and interrupts.  Kernel       *)
(* threads read, change, write, pin and release one block at a time.  A    *)
(* step is what one of them does under a spinlock.                         *)
(***************************************************************************)
EXTENDS Integers, Sequences, FiniteSets

CONSTANTS
    Proc,           \* kernel threads
    Block,          \* block numbers
    Value,          \* contents of a block
    Buf,            \* buffers: bcache.buf
    Desc,           \* the descriptors of the queue: NUM of them
    FirstFree(_),   \* the descriptor alloc_desc() finds in a set of free ones
    None,           \* no block, no process, no buffer
    InitDisk,       \* bound: the contents the disk may start with
    MaxPinned,      \* bound on the buffers that are pinned
    MaxChanges      \* bound on the changes of blocks

ASSUME ProcAssumption == IsFiniteSet(Proc) /\ None \notin Proc
ASSUME BlockAssumption == None \notin Block /\ Value # {}
ASSUME BufAssumption == IsFiniteSet(Buf) /\ None \notin Buf
ASSUME BoundAssumption ==
    InitDisk \subseteq [Block -> Value] /\ MaxPinned \in Nat /\ MaxChanges \in Nat
ASSUME DescAssumption ==
    /\ \E d, e, f \in Desc : d # e /\ e # f /\ f # d
    /\ \A S \in SUBSET Desc : S # {} => FirstFree(S) \in S

VARIABLES
    disk,           \* the blocks on the disk
    blockno, valid, refcnt, data,   \* of each buffer
    owned,          \* b->disk: the device has the buffer
    lock,           \* b->lock: the process that has it locked, or None
    free,           \* disk.free: the free descriptors
    info,           \* disk.info and disk.ops: requests, by first descriptor
    avail,          \* the requests the device has to serve
    used,           \* the requests it has served, up to disk.used_idx
    irq,            \* the device's interrupt is pending
    intr,           \* where virtio_disk_intr() is; it has vdisk_lock unless off
    pc, buf,        \* where each thread is, and its buffer
    writes,         \* it writes the buffer, rather than reads it
    idx,            \* the three descriptors of its request
    pinned,         \* the buffers log_write() has pinned: log.lh
    changes         \* how often data was changed

cache == <<blockno, refcnt, pinned, changes>>
buffers == <<valid, data, owned, lock>>
queue == <<free, info, avail, used>>
locals == <<pc, buf, writes, idx>>
vars == <<disk, cache, buffers, queue, irq, intr, locals>>

Request == [b : Buf, block : Block, write : BOOLEAN]
NoRequest == [b |-> None, block |-> None, write |-> FALSE]

Holding == {"hold", "wrote"}

TypeOK ==
    /\ disk \in [Block -> Value]
    /\ blockno \in [Buf -> Block \cup {None}]
    /\ valid \in [Buf -> BOOLEAN] /\ owned \in [Buf -> BOOLEAN]
    /\ refcnt \in [Buf -> Nat]
    /\ data \in [Buf -> Value]
    /\ lock \in [Buf -> Proc \cup {None}]
    /\ free \subseteq Desc /\ avail \subseteq Desc /\ used \in Seq(Desc)
    /\ info \in [Desc -> Request \cup {NoRequest}]
    /\ irq \in BOOLEAN /\ intr \in {"off", "loop", "out"}
    /\ pc \in [Proc -> Holding \cup {"idle", "lock", "lock_sleep", "rw",
                                     "desc_sleep", "disk_sleep", "disk_awake",
                                     "unref", "panic"}]
    /\ buf \in [Proc -> Buf \cup {None}]
    /\ writes \in [Proc -> BOOLEAN]
    /\ idx \in [Proc -> Seq(Desc)]
    /\ pinned \subseteq Buf /\ changes \in Nat

Init ==
    /\ disk \in InitDisk
    /\ blockno = [b \in Buf |-> None]
    /\ valid = [b \in Buf |-> FALSE] /\ owned = [b \in Buf |-> FALSE]
    /\ refcnt = [b \in Buf |-> 0]
    /\ data = [b \in Buf |-> CHOOSE v \in Value : TRUE]
    /\ lock = [b \in Buf |-> None]
    /\ free = Desc /\ avail = {} /\ used = <<>>
    /\ info = [d \in Desc |-> NoRequest]
    /\ irq = FALSE /\ intr = "off"
    /\ pc = [p \in Proc |-> "idle"] /\ buf = [p \in Proc |-> None]
    /\ writes = [p \in Proc |-> FALSE] /\ idx = [p \in Proc |-> <<>>]
    /\ pinned = {} /\ changes = 0

------------------------------------------------------------------------------
Goto(p, label) == pc' = [pc EXCEPT ![p] = label]

(* p goes on at label, and wakeup() lets the threads of Q go on at next.   *)
GotoWaking(p, label, Q, next) ==
    pc' = [q \in Proc |-> IF q = p THEN label ELSE IF q \in Q THEN next ELSE pc[q]]

(* The threads asleep in acquiresleep(&b->lock), and in virtio_disk_rw() on *)
(* b and on disk.free[0].                                                   *)
LockSleepers(b) == {q \in Proc : pc[q] = "lock_sleep" /\ buf[q] = b}
DiskSleepers(b) == {q \in Proc : pc[q] = "disk_sleep" /\ buf[q] = b}
DescSleepers == {q \in Proc : pc[q] = "desc_sleep"}

(* bcache.lock is taken and released in a step, but not by panic(). *)
BcacheUnlocked == \A q \in Proc : pc[q] # "panic"

------------------------------------------------------------------------------
(* bget() *)

(* The block is cached. *)
Hit(p, blk) ==
    /\ pc[p] = "idle" /\ BcacheUnlocked
    /\ \E b \in Buf :
          /\ blockno[b] = blk
          /\ refcnt' = [refcnt EXCEPT ![b] = @ + 1]
          /\ buf' = [buf EXCEPT ![p] = b]
    /\ Goto(p, "lock")
    /\ UNCHANGED <<disk, blockno, pinned, changes, buffers, queue, irq, intr,
                   writes, idx>>

Cached(blk) == \E b \in Buf : blockno[b] = blk

(* Mutant of Unused: a buffer that nobody has locked, though one may wait. *)
Unlocked(b) == lock[b] = None

(* Nobody refers to b.  Which of such buffers bget() takes, the least recently *)
(* used, is left out. *)
Unused(b) == refcnt[b] = 0

(* Mutant of Recycle: what was read for another block stays valid. *)
RecycleValid(p, blk) ==
    /\ pc[p] = "idle" /\ BcacheUnlocked /\ ~Cached(blk)
    /\ \E b \in Buf :
          /\ Unused(b)
          /\ blockno' = [blockno EXCEPT ![b] = blk]
          /\ refcnt' = [refcnt EXCEPT ![b] = 1]
          /\ buf' = [buf EXCEPT ![p] = b]
    /\ Goto(p, "lock")
    /\ UNCHANGED <<disk, pinned, changes, buffers, queue, irq, intr, writes, idx>>

Recycle(p, blk) ==
    /\ pc[p] = "idle" /\ BcacheUnlocked /\ ~Cached(blk)
    /\ \E b \in Buf :
          /\ Unused(b)
          /\ blockno' = [blockno EXCEPT ![b] = blk]
          /\ valid' = [valid EXCEPT ![b] = FALSE]
          /\ refcnt' = [refcnt EXCEPT ![b] = 1]
          /\ buf' = [buf EXCEPT ![p] = b]
    /\ Goto(p, "lock")
    /\ UNCHANGED <<disk, pinned, changes, data, owned, lock, queue, irq, intr,
                   writes, idx>>

(* panic("bget: no buffers"), with bcache.lock held. *)
Panic(p, blk) ==
    /\ pc[p] = "idle" /\ BcacheUnlocked /\ ~Cached(blk)
    /\ \A b \in Buf : refcnt[b] # 0
    /\ Goto(p, "panic")
    /\ UNCHANGED <<disk, cache, buffers, queue, irq, intr, buf, writes, idx>>

(* acquiresleep(), and then the test of b->valid in bread(). *)
AcquireSleep(p) ==
    /\ pc[p] = "lock"
    /\ LET b == buf[p]
       IN  IF lock[b] # None
           THEN Goto(p, "lock_sleep") /\ UNCHANGED lock
           ELSE /\ lock' = [lock EXCEPT ![b] = p]
                /\ Goto(p, IF valid[b] THEN "hold" ELSE "rw")
    /\ UNCHANGED <<disk, cache, valid, data, owned, queue, irq, intr, buf,
                   writes, idx>>

------------------------------------------------------------------------------
(* virtio_disk_rw() *)

(* alloc3_desc() takes one free descriptor after the other. *)
Rest(S) == S \ {FirstFree(S)}
Alloc3 == <<FirstFree(free), FirstFree(Rest(free)), FirstFree(Rest(Rest(free)))>>
CanAlloc3 == free # {} /\ Rest(free) # {} /\ Rest(Rest(free)) # {}

(* The request is set up, and the device told.  Then p sleeps. *)
Submit(p) ==
    /\ pc[p] = "rw" /\ intr = "off" /\ CanAlloc3
    /\ LET b == buf[p]
           first == Alloc3[1]
       IN  /\ free' = free \ {Alloc3[i] : i \in 1 .. 3}
           /\ idx' = [idx EXCEPT ![p] = Alloc3]
           /\ info' = [info EXCEPT ![first] =
                          [b |-> b, block |-> blockno[b], write |-> writes[p]]]
           /\ avail' = avail \cup {first}
           /\ owned' = [owned EXCEPT ![b] = TRUE]
    /\ Goto(p, "disk_sleep")
    /\ UNCHANGED <<disk, cache, valid, data, lock, used, irq, intr, buf, writes>>

(* Too few: what alloc3_desc() has taken it gives back, waking the others. *)
NoDesc(p) ==
    /\ pc[p] = "rw" /\ intr = "off" /\ ~CanAlloc3
    /\ GotoWaking(p, "desc_sleep", IF free = {} THEN {} ELSE DescSleepers, "rw")
    /\ UNCHANGED <<disk, cache, buffers, queue, irq, intr, buf, writes, idx>>

(* Woken while the device still has the buffer, by kill(). *)
SleepAgain(p) ==
    /\ pc[p] = "disk_awake" /\ intr = "off" /\ owned[buf[p]]
    /\ Goto(p, "disk_sleep")
    /\ UNCHANGED <<disk, cache, buffers, queue, irq, intr, buf, writes, idx>>

(* Mutant of Done: an if instead of the while around sleep(). *)
DoneOnceAwake(p) ==
    /\ pc[p] = "disk_awake" /\ intr = "off"
    /\ free' = free \cup {idx[p][i] : i \in 1 .. 3}
    /\ info' = [info EXCEPT ![idx[p][1]] = NoRequest]
    /\ idx' = [idx EXCEPT ![p] = <<>>]
    /\ valid' = [valid EXCEPT ![buf[p]] = TRUE]
    /\ writes' = [writes EXCEPT ![p] = FALSE]
    /\ GotoWaking(p, IF writes[p] THEN "wrote" ELSE "hold", DescSleepers, "rw")
    /\ UNCHANGED <<disk, cache, data, owned, lock, avail, used, irq, intr, buf>>

(* Mutant of Done: free_chain() leaves the descriptor of the status. *)
DoneFreesTwo(p) ==
    /\ pc[p] = "disk_awake" /\ intr = "off" /\ ~owned[buf[p]]
    /\ free' = free \cup {idx[p][i] : i \in 1 .. 2}
    /\ info' = [info EXCEPT ![idx[p][1]] = NoRequest]
    /\ idx' = [idx EXCEPT ![p] = <<>>]
    /\ valid' = [valid EXCEPT ![buf[p]] = TRUE]
    /\ writes' = [writes EXCEPT ![p] = FALSE]
    /\ GotoWaking(p, IF writes[p] THEN "wrote" ELSE "hold", DescSleepers, "rw")
    /\ UNCHANGED <<disk, cache, data, owned, lock, avail, used, irq, intr, buf>>

(* free_chain(), and the rest of bread() or bwrite(). *)
Done(p) ==
    /\ pc[p] = "disk_awake" /\ intr = "off" /\ ~owned[buf[p]]
    /\ free' = free \cup {idx[p][i] : i \in 1 .. 3}
    /\ info' = [info EXCEPT ![idx[p][1]] = NoRequest]
    /\ idx' = [idx EXCEPT ![p] = <<>>]
    /\ valid' = [valid EXCEPT ![buf[p]] = TRUE]
    /\ writes' = [writes EXCEPT ![p] = FALSE]
    /\ GotoWaking(p, IF writes[p] THEN "wrote" ELSE "hold", DescSleepers, "rw")
    /\ UNCHANGED <<disk, cache, data, owned, lock, avail, used, irq, intr, buf>>

(* The device serves a request, any of those it has been given. *)
Serve(d) ==
    /\ d \in avail
    /\ LET r == info[d]
       IN  IF r.write
           THEN disk' = [disk EXCEPT ![r.block] = data[r.b]] /\ UNCHANGED data
           ELSE data' = [data EXCEPT ![r.b] = disk[r.block]] /\ UNCHANGED disk
    /\ avail' = avail \ {d} /\ used' = Append(used, d)
    /\ irq' = TRUE
    /\ UNCHANGED <<cache, valid, owned, lock, free, info, intr, locals>>

------------------------------------------------------------------------------
(* virtio_disk_intr() *)

IntrEnter ==
    /\ irq /\ intr = "off"
    /\ irq' = FALSE
    /\ intr' = "loop"
    /\ UNCHANGED <<disk, cache, buffers, queue, locals>>

IntrNext ==
    /\ intr = "loop" /\ used # <<>>
    /\ LET b == info[Head(used)].b
       IN  /\ owned' = [owned EXCEPT ![b] = FALSE]
           /\ pc' = [q \in Proc |-> IF q \in DiskSleepers(b) THEN "disk_awake"
                                    ELSE pc[q]]
    /\ used' = Tail(used)
    /\ UNCHANGED <<disk, cache, valid, data, lock, free, info, avail, irq, intr,
                   buf, writes, idx>>

IntrLast ==
    /\ intr = "loop" /\ used = <<>>
    /\ intr' = "out"
    /\ UNCHANGED <<disk, cache, buffers, queue, irq, locals>>

(* Mutant of IntrExit: the interrupt is acknowledged when all is done. *)
IntrExitAcks ==
    /\ intr = "out"
    /\ intr' = "off" /\ irq' = FALSE
    /\ UNCHANGED <<disk, cache, buffers, queue, locals>>

IntrExit ==
    /\ intr = "out"
    /\ intr' = "off"
    /\ UNCHANGED <<disk, cache, buffers, queue, irq, locals>>

------------------------------------------------------------------------------
(* What a thread does with a buffer it has locked. *)

(* p changes the data of its buffer. *)
Change(p, v) ==
    /\ pc[p] = "hold" /\ v # data[buf[p]] /\ changes < MaxChanges
    /\ data' = [data EXCEPT ![buf[p]] = v]
    /\ changes' = changes + 1

(* bwrite(), which writes the data as it is. *)
Bwrite(p) ==
    /\ writes' = [writes EXCEPT ![p] = TRUE]
    /\ Goto(p, "rw")
    /\ UNCHANGED <<disk, blockno, refcnt, pinned, valid, owned, lock, queue, irq,
                   intr, buf, idx>>

(* write_log() writes new data, to a block that is never pinned, and          *)
(* install_trans() what has been pinned since it was changed.                 *)
WriteLog(p, v) == buf[p] \notin pinned /\ Change(p, v) /\ Bwrite(p)
Install(p) ==
    /\ pc[p] = "hold" /\ buf[p] \in pinned
    /\ Bwrite(p)
    /\ UNCHANGED <<data, changes>>

(* A change, and log_write(), which pins a block that is not in the log. *)
LogWrite(p, v) ==
    /\ Change(p, v) /\ BcacheUnlocked
    /\ IF buf[p] \in pinned
       THEN UNCHANGED <<refcnt, pinned>>
       ELSE /\ Cardinality(pinned) < MaxPinned
            /\ refcnt' = [refcnt EXCEPT ![buf[p]] = @ + 1]
            /\ pinned' = pinned \cup {buf[p]}
    /\ UNCHANGED <<disk, blockno, valid, owned, lock, queue, irq, intr, locals>>

(* install_trans() unpins a block that it has written. *)
Unpin(p) ==
    /\ pc[p] = "wrote" /\ BcacheUnlocked /\ buf[p] \in pinned
    /\ refcnt' = [refcnt EXCEPT ![buf[p]] = @ - 1]
    /\ pinned' = pinned \ {buf[p]}
    /\ Goto(p, "hold")
    /\ UNCHANGED <<disk, blockno, changes, buffers, queue, irq, intr, buf, writes,
                   idx>>

(* brelse(), up to releasesleep() *)
Release(p) ==
    /\ pc[p] \in {"hold", "wrote"}
    /\ lock' = [lock EXCEPT ![buf[p]] = None]
    /\ GotoWaking(p, "unref", LockSleepers(buf[p]), "lock")
    /\ UNCHANGED <<disk, cache, valid, data, owned, queue, irq, intr, buf,
                   writes, idx>>

(* The rest of brelse() *)
Unref(p) ==
    /\ pc[p] = "unref" /\ BcacheUnlocked
    /\ refcnt' = [refcnt EXCEPT ![buf[p]] = @ - 1]
    /\ buf' = [buf EXCEPT ![p] = None]
    /\ Goto(p, "idle")
    /\ UNCHANGED <<disk, blockno, pinned, changes, buffers, queue, irq, intr,
                   writes, idx>>

(* kill() wakes a thread wherever it sleeps. *)
Kill(p) ==
    /\ \/ pc[p] = "lock_sleep" /\ Goto(p, "lock")
       \/ pc[p] = "desc_sleep" /\ Goto(p, "rw")
       \/ pc[p] = "disk_sleep" /\ Goto(p, "disk_awake")
    /\ UNCHANGED <<disk, cache, buffers, queue, irq, intr, buf, writes, idx>>

ProcStep(p) ==
    \/ \E blk \in Block : Hit(p, blk) \/ Recycle(p, blk) \/ Panic(p, blk)
    \/ AcquireSleep(p) \/ Submit(p) \/ NoDesc(p) \/ SleepAgain(p) \/ Done(p)
    \/ \E v \in Value : WriteLog(p, v) \/ LogWrite(p, v)
    \/ Install(p) \/ Unpin(p) \/ Release(p) \/ Unref(p) \/ Kill(p)

Intr == IntrEnter \/ IntrNext \/ IntrLast \/ IntrExit

Next == (\E p \in Proc : ProcStep(p)) \/ (\E d \in Desc : Serve(d)) \/ Intr

Spec == Init /\ [][Next]_vars

------------------------------------------------------------------------------
Users(b) == {p \in Proc : buf[p] = b}
HasLock(p) == pc[p] \notin {"idle", "lock", "lock_sleep", "unref", "panic"}

(* A buffer counts who uses it and bpin(), so that bget() recycles only    *)
(* one that nobody refers to, and panics only when all are in use; each    *)
(* block has one buffer, which one thread at a time has locked.            *)
BuffersInUse ==
    /\ \A b \in Buf :
          refcnt[b] = Cardinality(Users(b)) + (IF b \in pinned THEN 1 ELSE 0)
    /\ \A b, c \in Buf : blockno[b] = blockno[c] /\ blockno[b] # None => b = c
    /\ \A p \in Proc : HasLock(p) => lock[buf[p]] = p

(* Each descriptor is free or part of one request. *)
Chain(p) == {idx[p][i] : i \in DOMAIN idx[p]}
DescriptorsAccounted ==
    /\ free \cup UNION {Chain(p) : p \in Proc} = Desc
    /\ \A p \in Proc : free \cap Chain(p) = {}
    /\ \A p, q \in Proc : p # q => Chain(p) \cap Chain(q) = {}

(* Whoever sleeps will be woken: the buffer is locked, a request will      *)
(* return its descriptors, the device has the buffer and will interrupt.   *)
InFlight(p) == pc[p] \in {"disk_sleep", "disk_awake"}
SleepersAwaited ==
    \A p \in Proc :
        /\ pc[p] = "lock_sleep" => lock[buf[p]] # None
        /\ pc[p] = "desc_sleep" => \E q \in Proc : InFlight(q)
        /\ pc[p] = "disk_sleep" =>
              /\ owned[buf[p]]
              /\ idx[p][1] \in avail \cup {used[i] : i \in DOMAIN used}
        /\ used # <<>> => irq \/ intr = "loop"

(* What bwrite() has written is on the disk, and so is what a buffer holds *)
(* that may be recycled.                                                   *)
WritesReachDisk ==
    /\ \A p \in Proc : pc[p] = "wrote" => disk[blockno[buf[p]]] = data[buf[p]]
    /\ \A b \in Buf : refcnt[b] = 0 /\ valid[b] => disk[blockno[b]] = data[b]

------------------------------------------------------------------------------
(* What the file system sees: blocks that one thread at a time may use. *)
Has(p) == pc[p] \in Holding \/ (writes[p] /\ pc[p] # "idle")
Current(blk) == CHOOSE b \in Buf : blockno[b] = blk
Mem == [blk \in Block |-> IF Cached(blk) /\ valid[Current(blk)]
                          THEN data[Current(blk)] ELSE disk[blk]]
Holder == [blk \in Block |->
              IF \E p \in Proc : Has(p) /\ blockno[buf[p]] = blk
              THEN CHOOSE p \in Proc : Has(p) /\ blockno[buf[p]] = blk
              ELSE None]
View == [p \in Proc |-> IF Has(p) THEN data[buf[p]] ELSE None]

Store == INSTANCE BlockStore
             WITH mem <- Mem, stored <- disk, holder <- Holder, view <- View

BlockStoreSpec == Store!Spec
=============================================================================
