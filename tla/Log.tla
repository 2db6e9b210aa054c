--------------------------------- MODULE Log ---------------------------------
(***************************************************************************)
(* The redo log of xv6 (kernel/log.c) over the buffer cache (bio.c) and a  *)
(* disk that writes one block at a time.  File system calls run between    *)
(* begin_op() and end_op(); the last one to end commits for all of them.   *)
(* The machine may crash between any two steps; recovery runs before any   *)
(* call, and may itself be cut short.                                      *)
(***************************************************************************)
EXTENDS Integers, Sequences, FiniteSets

CONSTANTS
    Op,             \* the file system calls
    Block,          \* the blocks they write
    Boot,           \* the first process, in fsinit()
    NoBlock,        \* no buffer
    MaxOpBlocks,    \* MAXOPBLOCKS: what begin_op() reserves
    OpWrites,       \* how many different blocks a call really writes
    LogSize,        \* LOGSIZE
    Nlog,           \* log.size, from the superblock: with the header block
    MaxCrash        \* bound on the number of crashes

ASSUME ThreadAssumption == Boot \notin Op /\ IsFiniteSet(Op)
ASSUME BlockAssumption == NoBlock \notin Block /\ IsFiniteSet(Block)
ASSUME SizeAssumption ==
    /\ MaxOpBlocks \in Nat \ {0} /\ LogSize \in Nat /\ MaxOpBlocks <= LogSize
    /\ OpWrites \in 1 .. MaxOpBlocks
    /\ Nlog \in Nat \ {0} /\ MaxCrash \in Nat

VARIABLES
    disk,           \* the home location of each block
    logdisk,        \* the data blocks of the on-disk log
    head,           \* the header block of the on-disk log
    cached,         \* the blocks that have a buffer
    cache,          \* the data in those buffers
    pinned,         \* the buffers bpin() keeps in the cache
    lh,             \* log.lh
    outstanding,    \* log.outstanding
    committing,     \* log.committing
    pc,             \* where each call is, and recovery
    tail,           \* loop variable of write_log() and install_trans()
    target,         \* the buffer a call holds
    wrote,          \* the blocks a call has written
    crashes         \* crashes so far

storage == <<disk, logdisk, head>>
buffers == <<cached, cache, pinned>>
log == <<lh, outstanding, committing>>
locals == <<pc, tail, target, wrote>>
vars == <<storage, buffers, log, locals, crashes>>

Thread == Op \cup {Boot}
Content == SUBSET Op
LogBlock == 1 .. Nlog - 1

TypeOK ==
    /\ disk \in [Block -> Content]
    /\ logdisk \in [LogBlock -> Content]
    /\ head \in Seq(Block) /\ lh \in Seq(Block)
    /\ Len(head) <= LogSize /\ Len(lh) <= LogSize
    /\ cached \subseteq Block /\ cache \in [Block -> Content]
    /\ pinned \subseteq cached
    /\ outstanding \in Nat
    /\ committing \in BOOLEAN
    /\ pc \in [Thread -> {"begin", "asleep", "run", "modified", "write_log",
                          "write_head", "install", "clear", "wake", "done",
                          "lost", "read_head", "up"}]
    /\ tail \in [Thread -> 1 .. LogSize]
    /\ target \in [Op -> Block \cup {NoBlock}]
    /\ wrote \in [Op -> SUBSET Block]
    /\ crashes \in 0 .. MaxCrash

Init ==
    /\ disk = [b \in Block |-> {}]
    /\ logdisk = [i \in LogBlock |-> {}]
    /\ head = <<>>
    /\ cached = {} /\ cache = [b \in Block |-> {}] /\ pinned = {}
    /\ lh = <<>> /\ outstanding = 0 /\ committing = FALSE
    /\ pc = [t \in Thread |-> IF t = Boot THEN "read_head" ELSE "begin"]
    /\ tail = [t \in Thread |-> 1]
    /\ target = [o \in Op |-> NoBlock] /\ wrote = [o \in Op |-> {}]
    /\ crashes = 0

------------------------------------------------------------------------------
(* bread(): a buffer, or the home location when there is none. *)
Read(b) == IF b \in cached THEN cache[b] ELSE disk[b]

(* Mutant of Recycle: bpin() does not count. *)
RecyclePinned(b) ==
    /\ b \in cached
    /\ \A o \in Op : target[o] # b
    /\ cached' = cached \ {b}
    /\ cache' = [cache EXCEPT ![b] = {}]
    /\ UNCHANGED <<storage, pinned, log, locals, crashes>>

(* The buffer that is recycled is one with no reference. *)
Recycle(b) ==
    /\ b \in cached \ pinned
    /\ \A o \in Op : target[o] # b
    /\ cached' = cached \ {b}
    /\ cache' = [cache EXCEPT ![b] = {}]
    /\ UNCHANGED <<storage, pinned, log, locals, crashes>>

Logged(b) == \E i \in DOMAIN lh : lh[i] = b

(* wakeup(&log) while t goes on at label. *)
WakeupAt(t, label) ==
    pc' = [u \in Thread |-> IF u = t THEN label
                            ELSE IF pc[u] = "asleep" THEN "begin" ELSE pc[u]]

Goto(t, label) == pc' = [pc EXCEPT ![t] = label]

------------------------------------------------------------------------------
(* begin_op() *)
MustWait ==
    committing \/ Len(lh) + (outstanding + 1) * MaxOpBlocks > LogSize

BeginOp(o) ==
    /\ pc[o] = "begin" /\ pc[Boot] = "up"
    /\ \/ /\ MustWait
          /\ Goto(o, "asleep")
          /\ UNCHANGED outstanding
       \/ /\ ~MustWait
          /\ Goto(o, "run")
          /\ outstanding' = outstanding + 1
    /\ UNCHANGED <<storage, buffers, lh, committing, tail, target, wrote,
                   crashes>>

(* A call modifies a buffer it has locked, then calls log_write(). *)
Modify(o, b) ==
    /\ pc[o] = "run"
    /\ \A q \in Op : target[q] # b
    /\ Cardinality(wrote[o] \cup {b}) <= OpWrites
    /\ cached' = cached \cup {b}
    /\ cache' = [cache EXCEPT ![b] = Read(b) \cup {o}]
    /\ target' = [target EXCEPT ![o] = b]
    /\ wrote' = [wrote EXCEPT ![o] = @ \cup {b}]
    /\ Goto(o, "modified")
    /\ UNCHANGED <<storage, pinned, log, tail, crashes>>

(* log_write() panics when the log is full, even if b is in it. *)
Full == Len(lh) >= LogSize \/ Len(lh) >= Nlog - 1

(* Mutant of LogWrite: no absorption. *)
LogWriteAgain(o) ==
    /\ pc[o] = "modified"
    /\ ~Full /\ outstanding >= 1
    /\ lh' = Append(lh, target[o]) /\ pinned' = pinned \cup {target[o]}
    /\ target' = [target EXCEPT ![o] = NoBlock]
    /\ Goto(o, "run")
    /\ UNCHANGED <<storage, cached, cache, outstanding, committing, tail, wrote,
                   crashes>>

LogWrite(o) ==
    /\ pc[o] = "modified"
    /\ ~Full /\ outstanding >= 1
    /\ LET b == target[o]
       IN  IF Logged(b) THEN UNCHANGED <<lh, pinned>>
           ELSE lh' = Append(lh, b) /\ pinned' = pinned \cup {b}
    /\ target' = [target EXCEPT ![o] = NoBlock]
    /\ Goto(o, "run")
    /\ UNCHANGED <<storage, cached, cache, outstanding, committing, tail, wrote,
                   crashes>>

(* Mutant of EndOp: committing is not set. *)
EndOpUnmarked(o) ==
    /\ pc[o] = "run" /\ ~committing
    /\ outstanding' = outstanding - 1
    /\ IF outstanding = 1
       THEN Goto(o, IF lh = <<>> THEN "wake" ELSE "write_log")
       ELSE WakeupAt(o, "done")
    /\ wrote' = [wrote EXCEPT ![o] = {}]
    /\ UNCHANGED <<storage, buffers, lh, committing, tail, target, crashes>>

(* Mutant of EndOp: nobody is woken for the log space that is free now. *)
EndOpSilent(o) ==
    /\ pc[o] = "run" /\ ~committing
    /\ outstanding' = outstanding - 1
    /\ committing' = (outstanding = 1)
    /\ Goto(o, CASE outstanding # 1 -> "done"
                 [] lh = <<>>       -> "wake"
                 [] OTHER           -> "write_log")
    /\ wrote' = [wrote EXCEPT ![o] = {}]
    /\ UNCHANGED <<storage, buffers, lh, tail, target, crashes>>

(* end_op() *)
EndOp(o) ==
    /\ pc[o] = "run" /\ ~committing
    /\ outstanding' = outstanding - 1
    /\ IF outstanding = 1
       THEN /\ committing' = TRUE
            /\ Goto(o, IF lh = <<>> THEN "wake" ELSE "write_log")
       ELSE /\ WakeupAt(o, "done")
            /\ UNCHANGED committing
    /\ wrote' = [wrote EXCEPT ![o] = {}]
    /\ UNCHANGED <<storage, buffers, lh, tail, target, crashes>>

------------------------------------------------------------------------------
(* commit(), and recover_from_log(). *)

(* One iteration of a loop over the log, or the last. *)
Iterate(t, label) ==
    IF tail[t] < Len(lh)
    THEN tail' = [tail EXCEPT ![t] = @ + 1] /\ UNCHANGED pc
    ELSE tail' = [tail EXCEPT ![t] = 1] /\ Goto(t, label)

WriteLog(o) ==
    /\ pc[o] = "write_log"
    /\ logdisk' = [logdisk EXCEPT ![tail[o]] = Read(lh[tail[o]])]
    /\ Iterate(o, "write_head")
    /\ UNCHANGED <<disk, head, buffers, log, target, wrote, crashes>>

(* write_head(): the true point at which the transaction commits. *)
WriteHead(o) ==
    /\ pc[o] = "write_head"
    /\ head' = lh
    /\ Goto(o, "install")
    /\ UNCHANGED <<disk, logdisk, buffers, log, tail, target, wrote, crashes>>

(* Mutant of ReadHead: recovery clears the log without installing it. *)
ReadHeadForgets ==
    /\ pc[Boot] = "read_head"
    /\ Goto(Boot, "clear")
    /\ UNCHANGED <<storage, buffers, log, tail, target, wrote, crashes>>

ReadHead ==
    /\ pc[Boot] = "read_head"
    /\ lh' = head
    /\ Goto(Boot, IF head = <<>> THEN "clear" ELSE "install")
    /\ UNCHANGED <<storage, buffers, outstanding, committing, tail, target,
                   wrote, crashes>>

Install(t) ==
    /\ pc[t] = "install"
    /\ LET b == lh[tail[t]]
       IN  /\ disk' = [disk EXCEPT ![b] = logdisk[tail[t]]]
           /\ cached' = cached \cup {b}
           /\ cache' = [cache EXCEPT ![b] = logdisk[tail[t]]]
           /\ pinned' = IF t = Boot THEN pinned ELSE pinned \ {b}
    /\ Iterate(t, "clear")
    /\ UNCHANGED <<logdisk, head, log, target, wrote, crashes>>

(* log.lh.n = 0, and write_head() again. *)
Clear(t) ==
    /\ pc[t] = "clear"
    /\ lh' = <<>> /\ head' = <<>>
    /\ Goto(t, IF t = Boot THEN "up" ELSE "wake")
    /\ UNCHANGED <<disk, logdisk, buffers, outstanding, committing, tail,
                   target, wrote, crashes>>

(* Mutant of Wake: no wakeup() after the commit. *)
WakeSilent(o) ==
    /\ pc[o] = "wake"
    /\ committing' = FALSE
    /\ Goto(o, "done")
    /\ UNCHANGED <<storage, buffers, lh, outstanding, tail, target, wrote,
                   crashes>>

(* The end of end_op(), after commit(). *)
Wake(o) ==
    /\ pc[o] = "wake"
    /\ committing' = FALSE
    /\ WakeupAt(o, "done")
    /\ UNCHANGED <<storage, buffers, lh, outstanding, tail, target, wrote,
                   crashes>>

------------------------------------------------------------------------------
(* A crash leaves what is on the disk. *)
Crash ==
    /\ crashes < MaxCrash
    /\ crashes' = crashes + 1
    /\ cached' = {} /\ cache' = [b \in Block |-> {}] /\ pinned' = {}
    /\ lh' = <<>> /\ outstanding' = 0 /\ committing' = FALSE
    /\ pc' = [t \in Thread |->
                 IF t = Boot THEN "read_head"
                 ELSE IF pc[t] = "done" THEN "done"
                 ELSE IF pc[t] \in {"begin", "asleep"} THEN "begin"
                 ELSE "lost"]
    /\ tail' = [t \in Thread |-> 1]
    /\ target' = [o \in Op |-> NoBlock] /\ wrote' = [o \in Op |-> {}]
    /\ UNCHANGED storage

OpStep(o) ==
    \/ BeginOp(o) \/ LogWrite(o) \/ EndOp(o)
    \/ WriteLog(o) \/ WriteHead(o) \/ Install(o) \/ Clear(o) \/ Wake(o)
    \/ \E b \in Block : Modify(o, b)

BootStep == ReadHead \/ Install(Boot) \/ Clear(Boot)

Next ==
    \/ \E o \in Op : OpStep(o)
    \/ BootStep
    \/ \E b \in Block : Recycle(b)
    \/ Crash

(* Threads are scheduled, and a call ends after finitely many writes. *)
Spec ==
    /\ Init /\ [][Next]_vars
    /\ \A o \in Op : WF_vars(OpStep(o)) /\ SF_vars(EndOp(o))
    /\ WF_vars(BootStep)

------------------------------------------------------------------------------
(* What a crash would leave: the on-disk log installed on the disk. *)
Stable ==
    [b \in Block |->
        IF \E i \in DOMAIN head : head[i] = b
        THEN logdisk[CHOOSE i \in DOMAIN head : head[i] = b]
        ELSE disk[b]]

(* What file system calls see, once recovery is done. *)
Mem == IF pc[Boot] = "up" THEN [b \in Block |-> Read(b)] ELSE Stable

Active == {o \in Op : pc[o] \in {"run", "modified"}}

(* The log makes the calls of a transaction atomic against crashes. *)
Atomic == INSTANCE AtomicDisk
              WITH mem <- Mem, stable <- Stable, active <- Active

AtomicDiskSpec == Atomic!Spec

(* end_op() of the last call returns when its transaction, with those of   *)
(* the calls that ended before it, would survive a crash.                  *)
Durability ==
    pc[Boot] = "up" /\ outstanding = 0 /\ ~committing => Stable = Mem

(* A call sleeps in begin_op() only while it must: the last call to end,   *)
(* or the end of the commit, has not let it sleep on.                      *)
NoMissedWakeup == \A o \in Op : pc[o] = "asleep" => MustWait

(* None of the three panics of log.c is reached, by calls that write a     *)
(* block less than begin_op() reserves: log_write() also panics when the   *)
(* log is full and the block already in it, so a full reservation is not   *)
(* enough.                                                                 *)
NoPanic ==
    /\ \A o \in Op : pc[o] = "modified" => ~Full /\ outstanding >= 1
    /\ \A o \in Op : pc[o] = "run" => ~committing

(* Each call that waits for log space is admitted in the end. *)
Admitted == \A o \in Op : pc[o] = "asleep" ~> pc[o] = "run"

=============================================================================
