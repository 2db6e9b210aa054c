# A verification of CSNotes

CSNotes is a collection of course work. Most of it is notes and slides; the
programs worth verifying are the author's solutions of two courses' labs: an
xv6 kernel (`MIT6.S081/Lab`) extended with copy-on-write fork, traps and system
calls, and the system programs of `CSAPP/Lab` (a job-control shell, a malloc, a
caching proxy, a cache simulator). These are small programs with hard
behaviours: kernel threads that interleave at spinlocks, signal handlers that
interrupt a program anywhere, a disk log that must survive a crash at any
moment.

This directory holds TLA+ models of them, translated from the source, TLC
configurations that check the models on small instances, and proofs checked by
TLAPS for every value of the constants.

## 1. Inventory

Paths are relative to `src/`. `K` is `MIT6.S081/Lab/Lab5/kernel`. The ten labs
are ten copies of the kernel. `fs.c`, `log.c`, `bio.c`, `sleeplock.c` and
`virtio_disk.c` are the same in all of them; Lab5 has the author's largest
change, so it is the copy the kernel models are taken from.

| Part | State | Operations | Hard behaviour | What makes it correct |
|---|---|---|---|---|
| Page allocator (`K/kalloc.c`) | free list, reference count per page | kalloc, kfree, incref, ref | two critical sections in one kfree; counts start at -1 | a count is the number of references; no page is free and in use |
| Copy-on-write memory (`K/vm.c`, `K/trap.c`, `K/proc.c`) | page tables, PTE flags, sizes, process table | page fault, copyout, fork, sbrk, exit, wait | counts read and used in different critical sections; allocation fails anywhere | processes behave as if memory were private; nothing leaks |
| Redo log (`K/log.c`) | in-memory and on-disk log, buffers, pins, counters | begin_op, log_write, end_op, commit, recovery | crash between any two block writes; concurrent calls in one transaction; sleeping for space | a transaction is atomic and durable; nobody sleeps for ever |
| Processes (`K/proc.c`, `K/spinlock.c`) | state, channel, parent, killed | scheduler, sleep, wakeup, exit, wait, kill, reparent | lost wakeups; lock order; orphans | each zombie is reaped once; a wakeup is never lost |
| Buffer cache (`K/bio.c`), with its sleep locks (`K/sleeplock.c`) | block, count, data and lock of each buffer | bread, bwrite, brelse, bpin, bunpin | found under one lock, locked under another; waiters count as users | one buffer a block, one user at a time; nothing unwritten is recycled |
| Pipes (`K/pipe.c`) | ring buffer, two counters, two open flags | read, write, close | two channels on one lock; close and kill while asleep | bytes in order, end of file seen, nobody stuck |
| Disk driver (`K/virtio_disk.c`) | descriptors, avail and used rings | rw, intr | device runs concurrently; three descriptors a request | each request wakes its thread, descriptors come back |
| Files, inodes, directories (`K/file.c`, `K/fs.c`, `K/sysfile.c`) | tables with reference counts, sleep locks | open, close, link, unlink, read, write | last close races with lookup; inode freed inside a transaction | counts exact, disk structure consistent |
| exec (`K/exec.c`) | a second page table | exec | failure half way | old image kept on failure, freed on success |
| Alarm (`Lab4/kernel/trap.c`) | ticks, saved registers, in-handler flag | sigalarm, timer, sigreturn | tick inside the handler | interrupted registers restored exactly |
| pgaccess, vmprint, USYSCALL (`Lab3/kernel`) | accessed bits | one system call | unmapped pages | mask bit i describes page i |
| trace, sysinfo (`Lab2/kernel`) | counters | two system calls | none | - |
| tsh (`CSAPP/Lab/Lab6/tsh.c`) | job list, `fg_pid`, blocked signals | eval, bg, fg, quit, three handlers | handlers interrupt everything, and each other; signals merge | one foreground job; list equals children; prompt returns |
| malloc (`CSAPP/Lab/Lab7/mm.c`) | heap with boundary tags, next-fit pointer | malloc, free, realloc | coalescing, pointer into a merged block | blocks disjoint, tags consistent |
| Proxy (`CSAPP/Lab/Lab8`) | bounded connection buffer, LRU cache | accept, worker, cache visit, add, remove | check and act in different critical sections | size bounded, objects whole |
| Cache simulator (`CSAPP/Lab/Lab5/csim.c`) | sets of lines | access | none | equals LRU |
| Splitwise (`CS251/Lab/Lab2`) | debts, 32 bits wide | add_IOU, lookup | client decides on data that has changed | no debt cycle, no overflow |

Interactions: fork, faults and system calls of all processes meet in the
allocator, under `kmem.lock`. exit and wait meet under `wait_lock`. File system
calls meet in the log, and through it in the buffer cache and the driver. The
shell's main program and its handlers share the job list and `fg_pid`, with only
SIGCHLD ever blocked, and only in parts of `eval()` and `waitfg()`.

`PROJECT.json` lists every component with its status, and under "hazards" what
is hard to test, with the line and the properties that cover it.

## 2. Modules

| Module | Models | |
|---|---|---|
| `Kalloc` | `kalloc.c` | the allocator's variables and one operator per critical section |
| `CowVm` | `vm.c`, `trap.c`, `proc.c` | EXTENDS Kalloc; every kernel thread that uses memory |
| `PrivateMemory` | | what CowVm implements: each process has its own memory |
| `CowVmInvariant` | | the inductive invariant |
| `CowVmProofs` | | the proofs: control, then sharing and counting, leaks and the refinement |
| `Log` | `log.c`, parts of `bio.c` | file system calls, commit, crash, recovery |
| `AtomicDisk` | | what Log implements: atomic transactions |
| `LogProofs` | | its inductive invariant and the proofs: control first, then data and the refinement |
| `Bio` | `bio.c`, `sleeplock.c`, `virtio_disk.c` | buffers and their locks, requests, device, interrupt handler |
| `BlockStore` | | what Bio implements: blocks that one thread at a time uses |
| `BioProofs` | | its inductive invariant and the proofs, the refinement included |
| `Proc` | `proc.c` | scheduler, sleep and wakeup, fork, exit, wait, kill, at the level of locks |
| `ProcProofs` | | its inductive invariant and the proofs |
| `Pipe` | `pipe.c`, parts of `file.c` | EXTENDS Proc; processes that share a pipe |
| `PipeProofs` | | its inductive invariant and the proofs |
| `Tsh` | `tsh.c` | shell, handlers, children, terminal |
| `TshProofs` | | its inductive invariant and the proofs |
| `Malloc` | `mm.c`, `memlib.c` | the heap, tag by tag |
| `Allocator` | | what Malloc implements: disjoint blocks that keep their contents |
| `MallocProofs` | | its inductive invariant and the proofs, the refinement included |
| `Proxy` | `proxy.c`, `cache.c`, `sbuf.h` | main thread, workers, connection buffer, cache |
| `ConnQueue` | | what Proxy's buffer implements: a bounded queue |
| `ProxyProofs` | | its inductive invariant and the proofs, the refinement included |
| `MCCowVm`, `MCLog`, `MCBio`, `MCProc`, `MCPipe`, `MCTsh`, `MCMalloc`, `MCProxy` | | instances for TLC |

### Kalloc and CowVm

A reference to a page lives in a *slot* `<<p, k>>`: a PTE of process `p`, one of
its page-table pages, its trapframe, or the local variable (`ka`, `pa`, `mem`) in
which p's kernel thread holds a page it has yet to map or to free ("hand"). The
page tables are the function `slot` with the sets `writable`, `cow` and `user` for
the PTE flags. Each process has a program counter `pc` and locals; one action is
one critical section of `kmem.lock`, or one store to memory others can see.

- A page fault, and copyout for each page, runs `ReadRef`, then `ReusePage` or
  `AllocCopy`, `CopyPage` and the free loop. The count is read in one step and
  acted on in another, as in `trap.c:79-94` and `vm.c:376-391`.
- kfree is two steps, `DropReference` and `PushPage` (`kalloc.c:56-70`).
- fork is `Fork`, `AllocRoot`, then `WalkAlloc`, `ShareMapping`, `CountMapping` for
  each page, then `ForkDone`; each allocation may fail and is undone.
- sbrk is `Grow`, `GrowAlloc`, `WalkAlloc`, `GrowMap`, `GrowDone`, or `Shrink`.
- exit makes a zombie and hands children to init; wait finds a zombie, delivers
  the status by the same copyout steps, and frees it, holding `wait_lock`
  throughout.

Merged steps, and why nothing is lost. A thread's stores to a page table that no
other thread touches are joined with the critical section next to them. kfree's
junk fill is joined with its push, because nobody else refers to the page by then
(this is `SharingInv`, proved). Publishing the child in fork is one step: its state
is USED before, so wait and the scheduler skip it. The upper page tables of the
trampoline count as one page with the root.

Abstractions. A page of user memory holds one datum. The free list is a set.
An `allocproc()` that fails at once changes nothing. wait's copyout stays within
one page. exec, kill, and the read-only copyin are not modelled; a killed process
exits at its next trap, and `Exit` is enabled whenever a thread is in user space.

### Log

One thread per file system call, plus `Boot`, the first process, which runs
recovery. A block's content is the set of calls that have written it. Each disk
write is a step: `WriteLog` (a log block), `WriteHead`, `Install` (a home block,
shared with recovery as in the code), `Clear`. `BeginOp` and `EndOp` are the
critical sections of `log.lock`; sleeping is atomic with releasing it. `Modify` and
`LogWrite` are separate, so calls interleave between a change in a buffer and its
logging. `Recycle` drops any unpinned buffer nobody holds, at any time. `Crash` is
enabled everywhere, recovery included; it keeps the disk, forgets memory, and
starts recovery.

The bound on a call is `OpWrites` different blocks, less than the `MaxOpBlocks`
that begin_op reserves. That is the code's situation (`filewrite()` writes at most
three blocks of data at a time, file.c:155), and it matters: `log_write()` panics
when the log is full even if the block is already in it, so with calls that use
their reservation to the last block `NoPanic` does not hold.

A block write is taken as atomic. The number of log blocks comes from the
superblock, which a tool outside this repository writes.

### Bio

The layer below Log, from `bread()` to the device. A step is a critical section of
`bcache.lock`, of a sleep lock's spinlock or of `vdisk_lock`, and the rest of the code
up to the next. The interrupt handler has three: it acknowledges the interrupt
(`IntrEnter`), takes a served request from the ring (`IntrNext`, each time round its
loop), and leaves after a last look at the ring (`IntrLast`, `IntrExit`); it keeps
`vdisk_lock` from the first to the last, but the device (`Serve`) does not ask for
locks. `Serve` takes any request it has been given, moves the data, adds to the used
ring and raises the interrupt. A panic of bget() keeps `bcache.lock` for ever, and the
others go on until they need it.

sleep() releases its spinlock and goes to sleep in one step, which is what `Proc` shows
of it. `Kill` wakes a thread wherever it sleeps, so each loop around sleep() goes round
more than once.

A thread has one buffer at a time, while `write_log()` and `install_trans()` hold
two: what two buffers in one hand add is the order in which they are asked for, which
is left to Log. Which unreferenced buffer bget() recycles is left open, and the order
of the list with it. `WriteLog`, `Install` and `LogWrite` are the ways the log uses a buffer it has locked;
`changes` only counts, for the bound `MaxChanges`.

### Proc and Pipe

Proc is the same kernel seen from its locks. A process has the fields of `struct
proc` that others read, a lock with a holder, and a program counter for its kernel
thread; `on` counts the CPUs that run on its kernel stack. A step runs from one
acquire to the next, since what a spinlock protects can only be seen between them.
`Schedule`, `Resume` and `Sched` are the three parts of a context switch: p->lock
is taken by one side and released by the other. `SleepOn` and `Wakeup` are sleep()
and one iteration of wakeup(); exit and wait take `wait_lock` first and the locks
of others one by one, as in the code. `p->killed` is read without a lock, in a step
of its own.

Merged steps. The wakeups of init in reparent() are one round, since `wait_lock`
keeps init from going to sleep between them. The loop over the table in kill() and
allocproc() is one step at the slot it ends at; allocproc() may end at any unused
slot. A timer interrupt inside the kernel only delays the thread, which any
interleaving includes when there are as many CPUs as processes.

What user programs do is free, with two exceptions: nobody kills init, which would
panic, and init calls wait() again and again (`user/init.c`). `ForkFail` stands for
all the ways to be out of memory, and `ReapFail` for a status address that is bad;
init passes none. Pids are left out: a slot is its process. An unused slot has pid
0, so kill(0) marks one, and the next process there is born killed; `Kill` has that.

Pipe adds the ends each process has open, the pipe's lock, the number of bytes in
it and its two flags. It reuses the steps of Proc, with fork() copying the ends and
exit() closing them before anything else. pipewrite() and piperead() are split at
every place they give up the pipe's lock or take another one, so a kill arrives
anywhere. Which bytes travel is left out: reading and writing are under one lock,
and the counters say which byte is next. pipealloc() is in the initial state.

### Malloc

A call is a step, as the program that calls it has one thread, but inside it every
store to the heap is computed: `mem` is the heap, word by word, and a word is
either a tag or data that looks like one. `Coalesce`, `FindFit`, `Place` and
`ExtendHeap` are the functions of mm.c on such a heap. The four cases of
coalesce() are one expression: they write tags at the two ends of the merged block,
and the code's different orders read the same sizes. find_fit() finds
the block and the new `pre_listp`, which are always the same. The client writes
words that look like tags of free or of used blocks, so a search that left the
list of blocks would find them. `Walk` follows the headers for as many steps as the
heap has words, which reaches the end of any list of blocks; a search is the first
of these steps that finds a block or the end of its range. Defined by steps and not by
addresses, it has a value for every memory, stray tags included.

Requests are far below 2^32 (the rounding of mm_malloc() wraps for the largest
ones, mm.c:194). `mm_realloc(NULL, n)` and `mm_realloc(p, 0)`, which the code does not
treat specially, are not called. mm_init() always has room for its first words.

### Proxy

`main` and the workers have a program counter each; a step is a semaphore operation,
a critical section of the buffer's mutex or of the cache's lock, or an exchange with
a client or a server. `total_size` is read in a step of its own (`Fits`), as the code
reads it without the lock, and removing and adding a line are two more critical
sections. The cache is a sequence, in order of use; a uri may occur twice, as it can
in the code. The kernel gives `Accept` any descriptor that is closed, so numbers are
used again.

Any error of a system call ends the process, through `unix_error()`: `Exit`. A client
that closes before the blank line keeps its worker in read_requesthdrs() for ever
(`EndInHeaders`). front and rear are taken modulo n: their overflow after 2^31
connections is left out, and so are the bytes of requests and objects and the memory
they live in.

### Tsh

The main program has a program counter; `stack` holds the handlers that
interrupted it, and one another: the handlers' mask is empty (tsh.c:781), so a
handler blocks only its own signal. `pending` is a set, since signals do not
queue. The main program moves only when no handler is active and nothing is
deliverable. That loses no behaviour, because the signal may also arrive later.

Handlers have two steps each: waitpid, then the rest of `sigchld_handler()`; the
choice of a victim, then kill. `fg` and `bg` are split at every place a signal can
change the job list: test, write the state, continue, `waitfg()`.

Children fork, make their process group, stop, are continued, and end, at any
time; each has at most one unreported change. What a forwarded ctrl-c does to a
child is something the child may do anyway. Job IDs, output and command parsing
are left out. So is SIGQUIT, which ends the shell at once.

## 3. What TLC checks

| Run | Instance | Properties |
|---|---|---|
| `CowVm_share` | 3 processes, 1 page each, 2 values, 11 frames | `RefCountExact`, `NoUseAfterFree`, `WritableExclusive`, `PrivateMemorySpec` (refinement) |
| `CowVm_pages` | 2 processes, 2 pages, a page table per page, 9 frames | `NoLeak`, `NoPanic` |
| `Log` | 3 calls, 2 blocks, 2 crashes | `AtomicDiskSpec` (refinement), `Durability`, `NoMissedWakeup`, `NoPanic`, `Admitted` (liveness) |
| `Bio` | 3 threads, 3 buffers, 4 blocks, 7 descriptors | `BuffersInUse`, `DescriptorsAccounted`, `SleepersAwaited`, `WritesReachDisk`, `BlockStoreSpec` (refinement) |
| `Proc` | 3 processes, 3 CPUs | `OneCpuPerStack`, `SchedLocks`, `NoForgottenZombie`, `NoOrphans`, `ExitCompletes` and `OrphansReaped` (liveness), no deadlock |
| `Pipe` | 3 processes, 2 CPUs, a pipe of 1 byte, writes of up to 2 | `PipeTypeOK`, `WriterAwake`, `NoUseAfterFree`, `OnlyKillStrands` (action) |
| `Malloc` | a heap of 8 to 16 words, requests of 2 and 4 | `TypeOK`, `HeapIsBlocks`, `GrowsOnlyWhenFull`, `AllocatorSpec` (refinement), no deadlock |
| `Proxy` | 2 workers, 3 connections, 2 uris, a buffer of 2, a cache of 1 | `TypeOK`, `HeldOnce`, `CacheBound`, `QueueSpec` (refinement), `Served` (liveness) |
| `Tsh` | 2 children, 2 slots, ctrl-c and ctrl-z | `TypeOK`, `AtMostOneForeground`, `PromptHasNoForeground`, `JobListIsChildren`, `BackgroundUndisturbed` |
| `Tsh_reaps` | 2 children | `ReapsAllZombies`: violated |
| `Tsh_waitfg` | 1 child | `WaitfgReturns`: violated |
| `Tsh_ctrlc` | 1 child, ctrl-c | `ShellSurvives`: violated |

Each property of a passing run has a mutant: a plausible bug in one definition
(named in `PROJECT.json`, and defined just before the definition it replaces)
under which TLC finds the property violated.

**Bounds.** Three processes are the fewest for a page shared by processes that
are not parent and child, and for two sharers that resolve it while a third
forks. Two pages are the fewest for a fork or sbrk that fails half way with
something to undo. `CowVm_pages` has
so few frames that each allocation fails on some path, a page table per page
(`TablePerPage`), so that walk fails in the middle of a loop, and a guard page
(`StackGuard`), so that PTE_U is not always set. In Log, calls of two blocks with a
log of six and a reservation of three make two calls run together and the third
wait; two crashes allow one in a commit and one in the recovery after it. With three
or four blocks and symmetry the safety properties hold as well, and section 4 has them
for any number.

Bio needs seven descriptors and three buffers for two requests in flight, completed in
either order, with a third thread that finds one descriptor and gives it back. Three
buffers need a fourth block for one that holds another block to be recycled, and one
pinned buffer and two users make bget() panic. One change of one block is what
`MaxChanges` allows: enough for data to be on its way to the disk when its buffer is
wanted for something else. With two changes, which takes too long for the run, all
properties hold too. In Tsh
two children are enough for merged SIGCHLDs, for a background job beside a
foreground one and for a slot reused by another job. The job list has as many
slots as there are children: a full list is described below.

In Proc, three processes make a parent, a child and init, or two that exit with
init waiting for both; three CPUs let all of them be in the kernel at once. With a
fourth process, which takes too long for the liveness properties, the invariants
hold as well. Pipe has two CPUs, and a write of two bytes into a pipe of one has to
sleep half way. In Malloc the heap grows twice, and the two request sizes leave
remainders that are, and that are not, big enough to be blocks of their own. In
Proxy a cache of one object makes each insertion evict, the second worker makes it
overshoot, and three connections fill the buffer of two with one in main's hands.

**Reductions.** `MCCowVm` numbers the frames and lets kalloc take the lowest free
one. `UpToPageNames`, the VIEW, identifies states that differ only in the names of
pages: it keeps, for each slot, the count, content and sharing of its page. No
property and no action names a particular page. Symmetry is used on processes
other than init, on Bio's threads, blocks and buffers, and on children; not in Log,
which checks liveness, nor in the runs that are expected to fail.

**Fairness.** The safety properties need none, and `Bio` states none: whoever sleeps on a
buffer or a descriptor can be overtaken for ever. `Log` assumes weak fairness of each
thread's steps, since a kernel thread is scheduled again and again, and strong
fairness of `EndOp`, since every file system call makes finitely many writes and
then calls end_op. `Tsh` assumes weak fairness of the shell's own steps, handlers
included; nothing is asked of children or the user.

`Proc` assumes strong fairness of each process in the kernel or at a timer
interrupt: the CPUs scan the table again and again, and a spinlock that is released
again and again is won in the end. It also assumes it of init's calls of wait().
No program is assumed to call anything else. `Proxy` assumes weak fairness of each
thread, which includes that clients and servers answer or close; nobody has to
connect.

**Deadlock** is checked in `Proc` and `Malloc`. In the others it is no error:
processes may all exit or sleep in the pipe, calls may all be done, bget() may have
panicked with everyone waiting for its lock, the shell may
quit, the proxy may have exited or have lost all workers.

### What the runs show

*Copy-on-write.* The count of an allocated page is the number of references to it
in every interleaving. No path uses a freed page. A page is writable by a process
only when nobody else can see it, although the decision rests on a count read
earlier: only the process that sees the count 1 can share the page again, and it
is busy. The error paths give back exactly what they took. Processes behave as if
fork had copied memory.

*Log.* A crash leaves the disk as at a moment when no call was active. When the
last end_op returns its transaction is durable. No call is left asleep without a
reason, and each is admitted.

*Buffers and disk.* A buffer's count is the number of its users, waiting ones included,
and its pin; so bget() never recycles a buffer somebody waits for, or one that the disk
does not have yet, and each block has one buffer. A request keeps its three descriptors
until its completion has been seen, whatever kill() does to the thread. Nobody sleeps
over a completion: the acknowledgement comes before the look at the ring. As long
as someone waits for descriptors, a request is in flight that will return some.

*Processes.* Handing p->lock through swtch() keeps two CPUs off one stack, and wait()
off a child that is still on its own. No wakeup is lost between a parent's scan and
its sleep, also when the child's parent changes in between: the only moment a parent
sleeps over a zombie is while an exit() that made it init's child is about to wake
init. The locks never close a cycle, so an exit, once begun, ends. A kill, however,
can be missed: wait() tests `p->killed` (proc.c:420) before sleep() takes p->lock, and
a kill in between finds the process still running; it then sleeps until a child
exits. OrphansReaped is as strong as the code allows: wait() takes the first
zombie in the table, so zombies that keep coming in lower slots can put off one in a
higher slot for ever.

*Pipe.* A writer never sleeps while there is room, or nobody to read. A reader can be
left asleep with bytes in the pipe, in one way: a writer is killed half way through
pipewrite(), which returns at line 86 without waking readers. The reader goes on when
another write or a close wakes it. The page of the pipe is freed when nobody can
come back to it, sleepers included.

*Malloc.* The heap is at all times a list of blocks without two free neighbours, and
clients see disjoint blocks that keep what is written to them. Setting the search
pointer to what coalesce() returns is what keeps it out of the middle of a block.
The copy in mm_realloc() may read the old block's tags and does no harm.

*Proxy.* The buffer is a bounded queue although main and workers hold items between
semaphore and mutex. MAX_CACHE_SIZE is not a limit: `CacheBound` is what holds, one
object of the largest size more for each worker but one. Connections are closed in the
end, except in two cases: the client that ends in mid-request, whose worker never
comes back, and a worker that others overtake each time it has made room.

*Shell.* Whatever the handlers interrupt, there is at most one foreground job,
none while the prompt is up, the job list matches the children, and keys never
reach a background job. Three statements of the documentation do not hold:

- `sigchld_handler()` "reaps all available zombie children" (tsh.c:508). It makes
  one waitpid call; two SIGCHLDs that merge leave a zombie.
- `waitfg()` blocks "until process pid is no longer the foreground process"
  (tsh.c:486). If the job ends between SIGCONT and the line that clears `fg_pid`,
  the shell waits for ever.
- ctrl-c "does not close the shell" (the lab's README, line 12). Between addjob and
  the child's setpgid, kill fails and `unix_error()` exits.

## 4. What is proved

Every theorem below is for all values of the constants that satisfy the named
assumptions, which TLC evaluates in the runs.

### Copy-on-write memory

`CowVmProofs` proves, for any finite set of processes and pages, any address-space
size and any assignment of addresses to page tables:

- `Invariance`: `Spec => []IInv`
- `TypeCorrectness`: `Spec => []TypeOK`
- `RefCounting`: `Spec => []RefCountExact`
- `UseAfterFreeFreedom`: `Spec => []NoUseAfterFree`
- `WriteExclusion`: `Spec => []WritableExclusive`
- `PanicFreedom`: `Spec => []NoPanic`
- `MemoryInvariance`: `Spec => [](IInv /\ MemoryInv)`
- `LeakFreedom`: `Spec => []NoLeak`
- `Privacy`: `Spec => PrivateMemorySpec`

The assumptions are those named in `Kalloc` and `CowVm`: finite sets, distinct
boot pages, `Zero` a value and `Junk` none, and that `Candidates` returns some free
pages, and at least one when there are any.

**The inductive invariant.** `RefCountExact` alone is not inductive. Whether an
incref or a decrement is right depends on which references exist, which depends
on where each thread is. `IInv` (in `CowVmInvariant`) adds:

- `LocalsInv`: what each program location says of the thread's locals;
- `TargetInv`: a thread works on its own process, on an embryo it created or on a
  zombie it reaps, and no two threads work on the same one;
- `TodoInv`: what is left to free is mapped, and belongs to the target;
- `MappingInv`: which addresses a process has mapped, in terms of its size and of
  the progress of whoever works on it. `NoPanic` follows from it;
- `FlagInv`: a PTE being resolved stays copy-on-write, one being stored to stays
  writable;
- `SharingInv`: only copy-on-write PTEs, and a page in hand about to be freed, share
  a page. `WritableExclusive` follows. It also says that a thread that saw the count
  1 is alone.

The step is proved conjunct by conjunct, action by action: types, `LocalsInv`,
`TargetInv` and `TodoInv` first, then the others. The lemma that does the counting is that `Refs(g)` changes by one slot per step, in line with the
count, for every g.

**Leaks and the refinement.** Two more things are needed, and are inductive only next to
`IInv`: `MemoryInv`. `HeldInv` says that some slot refers to each page that is not free. A step can
only lose a page by clearing its last slot, and then the count, which is exact, was 1, and
kfree is under way with the page in hand. NoLeak follows, because `MappingInv` says which slots a process
may have. `DataInv` and `CopiedInv` are about contents: what sbrk() maps is zero, and what
uvmcopy() has passed is the same page on both sides. The refinement maps a process's memory to the
contents of the pages it has mapped. A store is a store of the abstract memory, since
`SharingInv` leaves the page to the one who writes; resolving a copy-on-write fault
copies before it maps, so nothing changes; fork takes effect when the child is published,
sbrk in its last step, and the status of wait when it is stored.

### Processes

`ProcProofs` proves, for any numbers of process slots and CPUs (`ProcAssumption`):

- `Invariance`: `Spec => []IInv`
- `TypeCorrectness`: `Spec => []TypeOK`
- `StackExclusion`: `Spec => []OneCpuPerStack`
- `SwitchLocks`: `Spec => []SchedLocks`
- `WakeupsReachParents`: `Spec => []NoForgottenZombie`
- `OrphansAdopted`: `Spec => []NoOrphans`

That a stack is used by one CPU is not inductive: it rests on who holds p->lock when
a thread is half way through swtch(), which rests on where that thread is. `IInv`
says, for each program location, which locks the thread holds and what its state
is; that a process is on a CPU exactly when it is between two swtch()s; that an
embryo has one maker, who alone knows it; that the loops over the table start at its
beginning, and what they have left behind them; and that whoever has children is
alive and not past reparent(). No parent forgets a zombie because of two parts: what a
parent that scans has seen so far stays true while it holds wait_lock, and an exiting
child holds wait_lock until it has woken its parent and taken its own lock.

### Log

`LogProofs` is about the control of the log, for any finite sets of calls and blocks,
any sizes and any number of crashes (`ThreadAssumption`, `BlockAssumption`,
`SizeAssumption`), and then about its data:

- `Invariance`: `Spec => []IInv`
- `TypeCorrectness`: `Spec => []TypeOK`
- `WakeupsReachCalls`: `Spec => []NoMissedWakeup`
- `PanicFreedom`: `Slack => (Spec => []NoPanic)`
- `DataInvariance`: `Spec => []DInv`
- `Refinement`: `Spec => AtomicDiskSpec`
- `DurabilityHolds`: `Spec => []Durability`

`Slack` is what PanicFreedom needs besides: calls leave a block of what begin_op()
reserves unused, and two if `log.size` is LOGSIZE, since log_write() panics at
`log.size - 1` even when it has nothing to append. With the code's constants (10, 30
and 30) it says that no call writes more than eight blocks. The run's instance has
less slack; there NoPanic holds because the sizes do not divide evenly.

The control part of the invariant: recovery, active calls and a commit exclude each
other; `outstanding` is the number of active calls; the log is empty between two
commits and not empty in one; the loops stay inside it; the header on disk is empty
or that of the log being installed. That the log never overflows needs a count:
`SpaceInv` gives each active call a credit for every block of its reservation it has
not yet put in the log, and says that the log and all credits fit in LOGSIZE.

The data part, `DInv`: a buffer is pinned exactly when its block is in the log and not yet
at home (`PinInv`), any other buffer is like its home block unless a call is changing it
(`CleanInv`), and the blocks that the loops of a commit have passed are copied
(`CopyInv`). The refinement then goes step by step. Two of them carry it: WriteHead,
where what a crash would leave becomes what calls see, all blocks at once; and
Install, which must change neither, though it writes the home block and the buffer.

### Buffer cache and disk

`BioProofs` proves, for any finite sets of threads and buffers, any blocks and at least
three descriptors (`ProcAssumption`, `BlockAssumption`, `BufAssumption`,
`BoundAssumption`, `DescAssumption`):

- `Invariance`: `Spec => []IInv`
- `TypeCorrectness`: `Spec => []TypeOK`
- `BufferCounting`: `Spec => []BuffersInUse`
- `DescriptorsKept`: `Spec => []DescriptorsAccounted`
- `NoSleeperForgotten`: `Spec => []SleepersAwaited`
- `WritesKept`: `Spec => []WritesReachDisk`
- `Refinement`: `Spec => BlockStoreSpec`

`IInv` has a part for each thing that two threads, or a thread and the device, must
agree on. `LockInv`: who has which buffer, and its sleep lock. `ValidInv`: in the driver,
a buffer is valid exactly if it is being written. `CountInv` and `UniqueInv`: references,
and one buffer a block. `ChainInv` and `RequestInv`: a thread's three descriptors, and
that the device has, or has served, exactly the requests whose buffers it owns, each
with the buffer and the block that `disk.info` says; a request that is in neither ring
has been served, which is what makes the end of virtio_disk_rw() right. `WakeInv`:
completions are announced, and someone short of descriptors waits for a request in
flight. `CleanInv`: a valid buffer is like the disk, unless it is pinned, being written
or in somebody's hands as a write; and so is one whose request has been served.

The refinement maps a block to what its buffer has, if that is valid, and to the disk
otherwise. bread() takes effect when acquiresleep() finds the buffer valid or when
virtio_disk_rw() returns; bwrite() when the device serves it; all else stutters.
Recycling stutters because of `CountInv` and `CleanInv`: nobody uses the buffer, so the
disk has what it held.

### Pipes

`PipeProofs` proves, for any numbers of process slots and CPUs, any size of the pipe and
any bound on a write (`ProcAssumption`, `PipeAssumption`):

- `Invariance`: `PipeSpec => []IInv`
- `TypeCorrectness`: `PipeSpec => []PipeTypeOK`
- `WritersWoken`: `PipeSpec => []WriterAwake`
- `FreedUnused`: `PipeSpec => []NoUseAfterFree`
- `OnlyKilledWritersStrand`: `PipeSpec => OnlyKillStrands`, an action property

A step of proc.c enters the argument through one lemma, `ProcFrame`: it leaves the pipe and
everyone else's place alone, puts nobody to sleep on the pipe, and opens an end for nobody but a
child in the making. The invariant has the reason why sleeping is safe in two halves. `SleepInv`: what a
caller has seen before sleep() still holds when it sleeps, because it has kept pi->lock. `WakeInv`:
whom the loop of wakeup() has passed does not sleep on its channel; so when the loop is
over nobody does. A writer that finds the pipe broken returns without a wakeup. That strands no one if it
was the readers who have left, by `EndsInv`: who sleeps in piperead() has its end open, and an
end that somebody has open is marked open. What is left is the kill.

### Shell

`TshProofs` proves, for any finite set of children, any length of the job list and any keys
(`PidAssumption`, `JobAssumption`, `KeyboardAssumption`):

- `Invariance`: `Spec => []IInv`
- `TypeCorrectness`: `Spec => []TypeOK`
- `SingleForeground`: `Spec => []AtMostOneForeground`
- `IdlePrompt`: `Spec => []PromptHasNoForeground`
- `KeysSpareBackground`: `Spec => []BackgroundUndisturbed`
- `ListIsChildren`: `Spec => []JobListIsChildren`, if `Cardinality(Pid) <= MaxJobs`

The hypothesis of the last is that the list has room for all children; without it addjob() fails
and the statement is false. The invariant says which handler a
report or a victim belongs to, that each signal has one handler at work, and, by where the main program is, whether
there may be a foreground job. That a job is listed once rests on the block of SIGCHLD
between fork and addjob: the handler's stack is empty there, and stays so. That addjob() finds a
slot is a count: the listed children are different children.

### Proxy

`ProxyProofs` proves, for any finite set of workers, any connections, uris and sizes
(`ProxyAssumption`):

- `Invariance`: `Spec => []IInv`
- `TypeCorrectness`: `Spec => []TypeOK`
- `BoundedCache`: `Spec => []CacheBound`
- `OneHolder`: `Spec => []HeldOnce`
- `BufferIsQueue`: `Spec => QueueSpec`

`CountInv` relates the ring to the semaphores: what is between front and rear is what `items`
counts, what workers have got by P but not taken, and what main() has put in but not announced. `HeldInv` says
that main(), the places of the ring and the workers hold different connections, and all the open ones.
`SizeInv` is about the check and the insertion: each worker that has been told that its line
fits has a claim of its length, and the cache with all claims stays within `CacheBound`. Lengths are added up by counting
bytes: the size of a cache is the number of pairs of a line and a byte of it (`Bytes`), which lets
facts about finite sets stand in for an induction over the cache.

### Malloc

`MallocProofs` proves, for any sizes of the heap and of CHUNKSIZE, any requests and any
words that clients write (`MallocAssumption`):

- `Invariance`: `Spec => []IInv`
- `TypeCorrectness`: `Spec => []TypeOK`
- `BlocksStay`: `Spec => []HeapIsBlocks`
- `GrowthIsNeeded`: `Spec => []GrowsOnlyWhenFull`, if `Chunk % 2 = 0`
- `ClientsView`: `Spec => AllocatorSpec`

CHUNKSIZE is a power of two, so the hypothesis of GrowthIsNeeded holds of the code; with an odd one
extend_heap() would round up and fail one word too early.

The invariant says that some set `B` of even addresses is the list of blocks (`Heap`):
the prologue is in it, each block ends where the next one or the epilogue begins,
repeats its header in its footer, and can be reached backwards from what follows it.
No two free blocks touch (`Coalesced`); the blocks in use are the prologue and the client's,
which have room for what was asked for; and `pre_listp` is in `B`. That sizes are even is needed:
it is why a free block of less than `asize + OVERHEAD` words that is large enough fits exactly,
so that the second find_fit(), after the heap has grown, cannot fail.

Everything that changes tags replaces the tags of a run of neighbouring blocks by those of one
block (`Retag`) or cuts one block in two (`Split`); coalesce(), place(), mm_free() and
extend_heap() are sequences of these, and what they do to `B` is one lemma each. `Keeps` says
which blocks they leave alone, tags and contents; the refinement rests on it. For the
search, `WalkLeads` says that the headers lead to every block of `B` in the order of addresses
and then stay at the epilogue, so the two loops of find_fit() together look at all of them,
wherever `pre_listp` is.

### Model-checked only

The type invariants of CowVm, Log, Proc and Bio are proved, so no run checks them. Every
invariant, action property and refinement that a passing run checks is also a theorem. Only
model-checked are the liveness properties, which are beyond the prover, as are ENABLED and
induction with an operator for a parameter. An induction over the natural numbers is
possible where the statement is a concrete one: the set of its counterexamples has a
least element, by the well-foundedness of inclusion on finite sets (`LeastNat`). That is
also how the recursive function of `Walk` is shown to exist and to visit every block.

## 5. Not modelled, and the plan

Behaviours of the modelled parts that no run covers:

- a job list that is full: addjob fails, eval goes on, a foreground wait does not
  end, and a stop of the unlisted child dereferences a null pointer (tsh.c:528).
  `AddJob` and `RecordReport` model it; the runs leave room;
- waitpid without WNOHANG in the handler, which can block the shell until another
  child changes state. It is in the model, but no property bounds it;
- job IDs that repeat after `nextjid` wraps;
- the capacity of the buffer cache under the log: NBUF equals LOGSIZE, so a full log
  would pin every buffer. Bio has the capacity, Log what is pinned.

Behaviours left out of the models are named with each module above. Of the parts that
have no module:

- exec and the tables of files and inodes with their reference counts
  use the mechanisms that CowVm, Log and Proc model; exec would be the next
  extension of CowVm, inodes the next module;
- the initialisation of the disk, and of the other devices;
- sigalarm, pgaccess, and the cache simulator are sequential, and their tests reach
  them;
- the Splitwise contract is another course's exercise, in another language.

Next, in order: exec in CowVm; inodes. Both are additions to the models; the present ones have
no safety property left without a proof.

Left out for good: vendored tools (the Y86 simulator, web3, the lab drivers),
textbook examples, trace and sysinfo, user utilities, bit puzzles, bomb and attack
lab answers, notes and slides.
