-------------------------------- MODULE Proc --------------------------------
(***************************************************************************)
(* Processes of xv6 (kernel/proc.c) on several CPUs: the scheduler and     *)
(* swtch(), sleep() and wakeup(), fork(), exit(), wait() and kill(), down  *)
(* to p->lock and wait_lock.  A step runs from one acquire() to the next:  *)
(* what a spinlock protects changes in one step of its holder.             *)
(***************************************************************************)
EXTENDS Integers, FiniteSetsExt, Functions

CONSTANTS
    NProc,          \* NPROC: proc[1 .. NProc]; proc[1] is initproc
    NCpu            \* NCPU: CPUs, each in scheduler() or in a process

ASSUME ProcAssumption == NProc \in Nat \ {0} /\ NCpu \in Nat \ {0}

VARIABLES
    state,          \* p->state
    chan,           \* p->chan, or None
    killed,         \* p->killed
    parent,         \* p->parent, or None
    plock,          \* the process that holds p->lock, or None
    wait_lock,      \* the process that holds wait_lock, or None
    on,             \* on how many CPUs the stack of a process is in use
    pc,             \* where the kernel thread of each process is
    ret,            \* where it goes on when scheduler() resumes it
    at,             \* loop variable over proc[]
    np              \* the child that fork() makes

Slot == 1 .. NProc
InitProc == 1
None == 0

sched_vars == <<state, chan, plock, on, pc, ret>>
family == <<killed, parent, wait_lock>>
vars == <<sched_vars, family, at, np>>

TypeOK ==
    /\ state \in [Slot -> {"UNUSED", "USED", "SLEEPING", "RUNNABLE", "RUNNING",
                           "ZOMBIE"}]
    /\ chan \in [Slot -> Slot \cup {None}]
    /\ killed \in [Slot -> BOOLEAN]
    /\ parent \in [Slot -> Slot \cup {None}]
    /\ plock \in [Slot -> Slot \cup {None}]
    /\ wait_lock \in Slot \cup {None}
    /\ on \in [Slot -> 0 .. NCpu]
    /\ pc \in [Slot -> {"off", "resume", "sched", "user", "fork", "fork_parent",
                        "fork_run", "exit", "reparent", "wake_init",
                        "wake_parent", "zombie", "wait", "scan", "sleep"}]
    /\ ret \in [Slot -> {"user", "wait", "dead"}]
    /\ at \in [Slot -> 1 .. NProc + 1]
    /\ np \in [Slot -> Slot \cup {None}]

(* init and the shell it has forked. *)
Init ==
    /\ state = [p \in Slot |-> IF p <= 2 THEN "RUNNABLE" ELSE "UNUSED"]
    /\ chan = [p \in Slot |-> None]
    /\ killed = [p \in Slot |-> FALSE]
    /\ parent = [p \in Slot |-> IF p = 2 THEN InitProc ELSE None]
    /\ plock = [p \in Slot |-> None] /\ wait_lock = None
    /\ on = [p \in Slot |-> 0]
    /\ pc = [p \in Slot |-> "off"] /\ ret = [p \in Slot |-> "user"]
    /\ at = [p \in Slot |-> 1] /\ np = [p \in Slot |-> None]

------------------------------------------------------------------------------
(* The scheduler. *)

Goto(p, label) == pc' = [pc EXCEPT ![p] = label]
Lock(p) == plock[p] = None /\ plock' = [plock EXCEPT ![p] = p]

(* scheduler() finds p runnable, and swtch() resumes it with p->lock held. *)
Schedule(p) ==
    /\ SumFunction(on) < NCpu
    /\ state[p] = "RUNNABLE"
    /\ Lock(p)
    /\ state' = [state EXCEPT ![p] = "RUNNING"]
    /\ on' = [on EXCEPT ![p] = @ + 1]
    /\ Goto(p, "resume")
    /\ UNCHANGED <<chan, ret, family, at, np>>

(* Back from sched(), or in forkret(): p releases its lock. *)
Resume(p) ==
    /\ pc[p] = "resume"
    /\ plock' = [plock EXCEPT ![p] = None]
    /\ chan' = [chan EXCEPT ![p] = None]
    /\ Goto(p, ret[p])
    /\ UNCHANGED <<state, on, ret, family, at, np>>

(* swtch() back to scheduler(), which releases p->lock. *)
Sched(p) ==
    /\ pc[p] = "sched"
    /\ on' = [on EXCEPT ![p] = @ - 1]
    /\ plock' = [plock EXCEPT ![p] = None]
    /\ Goto(p, "off")
    /\ UNCHANGED <<state, chan, ret, family, at, np>>

(* A timer interrupt.  usertrap() looks at p->killed before it yields.     *)
(* One that comes inside a system call only delays it.                     *)
Yield(p) ==
    /\ pc[p] = "user" /\ ~killed[p]
    /\ Lock(p)
    /\ state' = [state EXCEPT ![p] = "RUNNABLE"]
    /\ ret' = [ret EXCEPT ![p] = "user"]
    /\ Goto(p, "sched")
    /\ UNCHANGED <<chan, on, family, at, np>>

(* sleep(ch, lk): the caller of this operator releases lk; p takes it      *)
(* again at label.                                                         *)
SleepOn(p, ch, label) ==
    /\ Lock(p)
    /\ chan' = [chan EXCEPT ![p] = ch]
    /\ state' = [state EXCEPT ![p] = "SLEEPING"]
    /\ ret' = [ret EXCEPT ![p] = label]
    /\ Goto(p, "sched")

(* An iteration of wakeup(ch) in p, which goes on at label after the last. *)
Wakeup(p, ch, label) ==
    LET q == at[p] IN
    /\ q # p => plock[q] = None
    /\ state' = IF q # p /\ state[q] = "SLEEPING" /\ chan[q] = ch
                THEN [state EXCEPT ![q] = "RUNNABLE"] ELSE state
    /\ at' = [at EXCEPT ![p] = IF q = NProc THEN 1 ELSE q + 1]
    /\ Goto(p, IF q = NProc THEN label ELSE pc[p])

------------------------------------------------------------------------------
(* fork() *)

(* A system call, by a process that usertrap() does not send to exit(). *)
Calls(p) == pc[p] = "user" /\ ~killed[p]

(* allocproc(); killed is as freeproc() left it, unless kill(0) set it. *)
Fork(p, q) ==
    /\ Calls(p)
    /\ state[q] = "UNUSED" /\ plock[q] = None
    /\ state' = [state EXCEPT ![q] = "USED"]
    /\ plock' = [plock EXCEPT ![q] = p]
    /\ np' = [np EXCEPT ![p] = q]
    /\ ret' = [ret EXCEPT ![q] = "user"]
    /\ Goto(p, "fork")
    /\ UNCHANGED <<chan, on, family, at>>

(* freeproc(q), but for its memory *)
Free(q) ==
    /\ state' = [state EXCEPT ![q] = "UNUSED"]
    /\ killed' = [killed EXCEPT ![q] = FALSE]
    /\ parent' = [parent EXCEPT ![q] = None]
    /\ chan' = [chan EXCEPT ![q] = None]

(* There is no memory for the child. *)
ForkFail(p) ==
    /\ pc[p] = "fork"
    /\ Free(np[p])
    /\ plock' = [plock EXCEPT ![np[p]] = None]
    /\ np' = [np EXCEPT ![p] = None]
    /\ Goto(p, "user")
    /\ UNCHANGED <<on, ret, wait_lock, at>>

ForkCopy(p) ==
    /\ pc[p] = "fork"
    /\ plock' = [plock EXCEPT ![np[p]] = None]
    /\ Goto(p, "fork_parent")
    /\ UNCHANGED <<state, chan, on, ret, family, at, np>>

ForkParent(p) ==
    /\ pc[p] = "fork_parent"
    /\ wait_lock = None
    /\ parent' = [parent EXCEPT ![np[p]] = p]
    /\ Goto(p, "fork_run")
    /\ UNCHANGED <<state, chan, plock, on, ret, killed, wait_lock, at, np>>

ForkRun(p) ==
    /\ pc[p] = "fork_run"
    /\ plock[np[p]] = None
    /\ state' = [state EXCEPT ![np[p]] = "RUNNABLE"]
    /\ np' = [np EXCEPT ![p] = None]
    /\ Goto(p, "user")
    /\ UNCHANGED <<chan, plock, on, ret, family, at>>

------------------------------------------------------------------------------
(* exit() *)

(* exit(), called or because p was killed.  init does not exit. *)
CallExit(p) ==
    /\ pc[p] = "user" /\ p # InitProc
    /\ Goto(p, "exit")
    /\ UNCHANGED <<state, chan, plock, on, ret, family, at, np>>

ExitLock(p) ==
    /\ pc[p] = "exit"
    /\ wait_lock = None
    /\ wait_lock' = p
    /\ Goto(p, "reparent")
    /\ UNCHANGED <<state, chan, plock, on, ret, killed, parent, at, np>>

(* Mutant of Reparent: children that have exited are left behind. *)
ReparentLiving(p) ==
    /\ pc[p] = "reparent"
    /\ parent' = [q \in Slot |-> IF parent[q] = p /\ state[q] # "ZOMBIE"
                                THEN InitProc ELSE parent[q]]
    /\ Goto(p, IF \E q \in Slot : parent[q] = p THEN "wake_init"
                                                ELSE "wake_parent")
    /\ UNCHANGED <<state, chan, plock, on, ret, killed, wait_lock, at, np>>

(* reparent(): one wakeup(initproc) stands for one per child, since        *)
(* wait_lock keeps init from sleeping between them.                        *)
Reparent(p) ==
    /\ pc[p] = "reparent"
    /\ parent' = [q \in Slot |-> IF parent[q] = p THEN InitProc ELSE parent[q]]
    /\ Goto(p, IF \E q \in Slot : parent[q] = p THEN "wake_init"
                                                ELSE "wake_parent")
    /\ UNCHANGED <<state, chan, plock, on, ret, killed, wait_lock, at, np>>

WakeInit(p) ==
    /\ pc[p] = "wake_init"
    /\ Wakeup(p, InitProc, "wake_parent")
    /\ UNCHANGED <<chan, plock, on, ret, family, np>>

(* Mutant of WakeParent: on a channel that nobody sleeps on. *)
WakeItself(p) ==
    /\ pc[p] = "wake_parent"
    /\ Wakeup(p, p, "zombie")
    /\ UNCHANGED <<chan, plock, on, ret, family, np>>

WakeParent(p) ==
    /\ pc[p] = "wake_parent"
    /\ Wakeup(p, parent[p], "zombie")
    /\ UNCHANGED <<chan, plock, on, ret, family, np>>

(* Mutant of Zombie: p->lock is let go before sched(). *)
ZombieUnlocks(p) ==
    /\ pc[p] = "zombie"
    /\ plock[p] = None
    /\ state' = [state EXCEPT ![p] = "ZOMBIE"]
    /\ wait_lock' = None
    /\ ret' = [ret EXCEPT ![p] = "dead"]
    /\ Goto(p, "sched")
    /\ UNCHANGED <<chan, plock, on, killed, parent, at, np>>

Zombie(p) ==
    /\ pc[p] = "zombie"
    /\ Lock(p)
    /\ state' = [state EXCEPT ![p] = "ZOMBIE"]
    /\ wait_lock' = None
    /\ ret' = [ret EXCEPT ![p] = "dead"]
    /\ Goto(p, "sched")
    /\ UNCHANGED <<chan, on, killed, parent, at, np>>

------------------------------------------------------------------------------
(* wait() *)

CallWait(p) ==
    /\ Calls(p)
    /\ Goto(p, "wait")
    /\ UNCHANGED <<state, chan, plock, on, ret, family, at, np>>

(* On entry, and again when sleep() returns. *)
WaitLock(p) ==
    /\ pc[p] = "wait"
    /\ wait_lock = None
    /\ wait_lock' = p
    /\ Goto(p, "scan")
    /\ UNCHANGED <<state, chan, plock, on, ret, killed, parent, at, np>>

Return(p) ==
    /\ wait_lock' = None
    /\ at' = [at EXCEPT ![p] = 1]
    /\ Goto(p, "user")

(* proc[at[p]] is no child of p, or a child that has not exited. *)
ScanNext(p) ==
    /\ pc[p] = "scan" /\ at[p] \in Slot
    /\ parent[at[p]] = p => plock[at[p]] = None /\ state[at[p]] # "ZOMBIE"
    /\ at' = [at EXCEPT ![p] = @ + 1]
    /\ UNCHANGED <<sched_vars, family, np>>

Reap(p) ==
    /\ pc[p] = "scan" /\ at[p] \in Slot
    /\ parent[at[p]] = p /\ plock[at[p]] = None /\ state[at[p]] = "ZOMBIE"
    /\ Free(at[p])
    /\ Return(p)
    /\ UNCHANGED <<plock, on, ret, np>>

(* Mutant of ReapFail: wait_lock is kept. *)
ReapFailLocked(p) ==
    /\ pc[p] = "scan" /\ at[p] \in Slot
    /\ parent[at[p]] = p /\ plock[at[p]] = None /\ state[at[p]] = "ZOMBIE"
    /\ p # InitProc
    /\ at' = [at EXCEPT ![p] = 1]
    /\ Goto(p, "user")
    /\ UNCHANGED <<state, chan, plock, on, ret, family, np>>

(* copyout() fails: the child stays a zombie. *)
ReapFail(p) ==
    /\ pc[p] = "scan" /\ at[p] \in Slot
    /\ parent[at[p]] = p /\ plock[at[p]] = None /\ state[at[p]] = "ZOMBIE"
    /\ p # InitProc
    /\ Return(p)
    /\ UNCHANGED <<state, chan, plock, on, ret, killed, parent, np>>

(* Mutant of ScanEnd: wait_lock is let go before sleep(). *)
ScanEndUnlocks(p) ==
    /\ pc[p] = "scan" /\ at[p] = NProc + 1
    /\ wait_lock' = None
    /\ at' = [at EXCEPT ![p] = 1]
    /\ Goto(p, IF killed[p] \/ \A q \in Slot : parent[q] # p
               THEN "user" ELSE "sleep")
    /\ UNCHANGED <<state, chan, plock, on, ret, killed, parent, np>>

(* p->killed is read without p->lock. *)
ScanEnd(p) ==
    /\ pc[p] = "scan" /\ at[p] = NProc + 1
    /\ IF killed[p] \/ \A q \in Slot : parent[q] # p
       THEN Return(p)
       ELSE /\ Goto(p, "sleep")
            /\ at' = [at EXCEPT ![p] = 1]
            /\ UNCHANGED wait_lock
    /\ UNCHANGED <<state, chan, plock, on, ret, killed, parent, np>>

(* Mutant of WaitSleep: sleep() does not let go of wait_lock. *)
WaitSleepLocked(p) ==
    /\ pc[p] = "sleep"
    /\ SleepOn(p, p, "wait")
    /\ UNCHANGED <<on, family, at, np>>

WaitSleep(p) ==
    /\ pc[p] = "sleep"
    /\ SleepOn(p, p, "wait")
    /\ wait_lock' = None
    /\ UNCHANGED <<on, killed, parent, at, np>>

------------------------------------------------------------------------------
(* kill() at the slot that has the pid.  Unused slots have pid 0, which    *)
(* kill(0) finds.  Nobody kills init: exit() would panic.                  *)
Kill(p, q) ==
    /\ Calls(p)
    /\ q # InitProc /\ plock[q] = None
    /\ killed' = [killed EXCEPT ![q] = TRUE]
    /\ state' = IF state[q] = "SLEEPING"
                THEN [state EXCEPT ![q] = "RUNNABLE"] ELSE state
    /\ UNCHANGED <<chan, plock, on, pc, ret, parent, wait_lock, at, np>>

------------------------------------------------------------------------------
(* The kernel, for p: at most one of these steps is enabled at a time. *)
Switch(p) == Schedule(p) \/ Resume(p) \/ Sched(p)
Forking(p) == ForkFail(p) \/ ForkParent(p) \/ ForkRun(p)
Exiting(p) ==
    ExitLock(p) \/ Reparent(p) \/ WakeInit(p) \/ WakeParent(p) \/ Zombie(p)
Waiting(p) ==
    \/ WaitLock(p) \/ ScanNext(p) \/ Reap(p) \/ ReapFail(p) \/ ScanEnd(p)
    \/ WaitSleep(p)

Kernel(p) ==
    Switch(p) \/ ForkCopy(p) \/ Forking(p) \/ Exiting(p) \/ Waiting(p)

(* A timer interrupt: p yields, or exits if it has been killed. *)
Trap(p) == Yield(p) \/ (killed[p] /\ CallExit(p))

User(p) ==
    \/ CallExit(p) \/ CallWait(p)
    \/ \E q \in Slot : Fork(p, q) \/ Kill(p, q)

Next == \E p \in Slot : Kernel(p) \/ Trap(p) \/ User(p)

(* Each CPU scans proc[] again and again, spinlocks are let go and won in  *)
(* the end, the timer interrupts a process that runs on in user mode; and  *)
(* user/init.c calls wait() again and again.                               *)
Spec ==
    /\ Init /\ [][Next]_vars
    /\ \A p \in Slot : SF_vars(Kernel(p) \/ Trap(p))
    /\ SF_vars(CallWait(InitProc))

------------------------------------------------------------------------------
(* No kernel stack is in use by two CPUs, nor by a process that wait() has *)
(* freed, or fork() taken again, while its CPU is still on the way out of  *)
(* exit(): "make sure the child isn't still in exit() or swtch()".         *)
OneCpuPerStack ==
    \A p \in Slot :
        /\ on[p] <= 1
        /\ state[p] \in {"UNUSED", "USED"} => on[p] = 0

(* sched() does not panic: of all spinlocks p holds just its own. *)
SchedLocks ==
    \A p \in Slot : pc[p] = "sched" =>
        /\ {q \in Slot : plock[q] = p} = {p} /\ wait_lock # p
        /\ state[p] # "RUNNING"

(* A parent never sleeps on in wait() with a child that has exited, be it  *)
(* a child of its own or one that it was left by another's exit().         *)
NoForgottenZombie ==
    \A p, q \in Slot :
        /\ state[p] = "ZOMBIE" /\ parent[p] = q
        /\ state[q] = "SLEEPING" /\ chan[q] = q
        => wait_lock # None /\ pc[wait_lock] = "wake_init"

(* Each process that can run or exit has a parent who can still wait for   *)
(* it, so no zombie stays for good because its parent went first.          *)
NoOrphans ==
    \A p \in Slot \ {InitProc} :
        state[p] \notin {"UNUSED", "USED"} =>
            parent[p] # None /\ state[parent[p]] \notin {"UNUSED", "USED", "ZOMBIE"}

(* Two exits and a wait at once, each after locks of the others, end: what *)
(* has begun to exit becomes a zombie.                                     *)
ExitCompletes == \A p \in Slot : pc[p] = "exit" ~> state[p] = "ZOMBIE"

(* What a parent leaves behind, init reaps; wait() takes the first zombie  *)
(* of the table, so one behind it may have to wait for ever if the slots   *)
(* before it are taken and given up again and again.                       *)
OrphansReaped ==
    \A p \in Slot :
        state[p] = "ZOMBIE" /\ parent[p] = InitProc
        ~> state[p] = "UNUSED" \/ \E q \in 1 .. p - 1 : state[q] = "ZOMBIE"
=============================================================================
