----------------------------- MODULE ProcProofs -----------------------------
(***************************************************************************)
(* Proofs about Proc, for any number of processes and CPUs: its types, one *)
(* CPU per kernel stack, the locks held at sched(), no parent asleep over  *)
(* a zombie, and a living parent for each process.                         *)
(***************************************************************************)
EXTENDS Proc, TLAPS

(* Where p holds wait_lock, where it has a child in the making, and where  *)
(* it hands p->lock over to scheduler() or has got it from there.          *)
Holding == {"reparent", "wake_init", "wake_parent", "zombie", "scan", "sleep"}
Forks == {"fork", "fork_parent", "fork_run"}
Switching == {"resume", "sched"}
Leaving == {"wake_init", "wake_parent", "zombie"}

CpuInv == \A p \in Slot : on[p] = IF pc[p] = "off" THEN 0 ELSE 1

(* A thread that is on a CPU is RUNNING, until it is about to leave it. *)
StateInv ==
    \A p \in Slot :
        /\ pc[p] \notin {"off", "sched"} <=> state[p] = "RUNNING"
        /\ pc[p] = "sched" => state[p] \in {"RUNNABLE", "SLEEPING", "ZOMBIE"}
        /\ ret[p] = "dead" => state[p] \in {"ZOMBIE", "UNUSED"}

(* Who holds p->lock between two steps: p itself, in the middle of swtch(), *)
(* or the parent that is making p.                                         *)
LockInv ==
    \A p, q \in Slot :
        plock[q] = p <=> \/ q = p /\ pc[p] \in Switching
                         \/ q = np[p] /\ pc[p] = "fork"

WaitLockInv == \A p \in Slot : pc[p] \in Holding <=> wait_lock = p

(* A child in the making is USED, and has one maker. *)
ForkInv ==
    \A p, q \in Slot :
        /\ pc[p] \in Forks => np[p] # None
        /\ np[p] = q => /\ pc[p] \in Forks /\ state[q] = "USED"
                        /\ pc[p] = "fork_run" => parent[q] = p

MakerInv == \A p, q \in Slot : np[p] # None /\ np[p] = np[q] => p = q

(* The loops over proc[] start at its beginning. *)
LoopInv ==
    \A p \in Slot :
        /\ pc[p] \notin {"scan", "wake_init", "wake_parent"} => at[p] = 1
        /\ at[p] = NProc + 1 => pc[p] = "scan"

InitProcInv ==
    /\ state[InitProc] \notin {"UNUSED", "USED", "ZOMBIE"}
    /\ pc[InitProc] \notin Leaving \cup {"exit", "reparent"}

(* Who has children is alive, and not beyond reparent(); who is alive, or  *)
(* has exited, has a parent.                                               *)
FamilyInv ==
    /\ \A p, q \in Slot :
          parent[q] = p => /\ state[p] \notin {"UNUSED", "USED", "ZOMBIE"}
                           /\ pc[p] \notin Leaving
    /\ \A p \in Slot \ {InitProc} :
          state[p] \notin {"UNUSED", "USED"} => parent[p] # None

InWait(q) == state[q] = "SLEEPING" /\ chan[q] = q

(* exit(): whom the loop of wakeup() has passed does not sleep in wait(). *)
WakeupInv ==
    \A p, q \in Slot :
        /\ pc[p] = "wake_init" /\ InWait(InitProc) => at[p] = InitProc
        /\ pc[p] = "wake_parent" /\ parent[p] = q /\ InWait(q) => at[p] <= q
        /\ pc[p] = "zombie" /\ parent[p] = q => ~InWait(q)

(* wait(): there is no zombie among the children that the scan has passed, *)
(* nor when it goes to sleep, and none comes up while it sleeps, but those *)
(* that exit() hands to init before it wakes it.                           *)
ScanInv ==
    \A p, c \in Slot :
        parent[c] = p /\ state[c] = "ZOMBIE" =>
            /\ pc[p] = "scan" => at[p] <= c
            /\ pc[p] # "sleep"
            /\ InWait(p) => /\ p = InitProc
                            /\ wait_lock # None /\ pc[wait_lock] = "wake_init"

(* The inductive invariant. *)
IInv ==
    /\ TypeOK /\ CpuInv /\ StateInv /\ LockInv /\ WaitLockInv /\ ForkInv
    /\ MakerInv /\ LoopInv /\ InitProcInv /\ FamilyInv
    /\ WakeupInv /\ ScanInv

(* What the proofs use of the numbers that name slots and CPUs. *)
LEMMA SlotFacts == None \notin Slot /\ InitProc \in Slot
BY ProcAssumption DEF None, Slot, InitProc

LEMMA LoopFacts ==
    /\ InitProc = 1 /\ Slot \subseteq 1 .. NProc + 1 /\ NProc + 1 \notin Slot
    /\ 1 .. NProc + 1 \subseteq Int
    /\ \A a \in 1 .. NProc + 1 : a # NProc + 1 => a \in Slot
    /\ \A a \in Slot : a + 1 \in 1 .. NProc + 1 /\ (a # NProc => a + 1 \in Slot)
BY ProcAssumption DEF InitProc, Slot

LEMMA CpuFacts == 0 \in 0 .. NCpu /\ 1 \in 0 .. NCpu
BY ProcAssumption

(* What a step of the scheduler and the end of a scan do to the state. *)
LEMMA ScheduleEffect ==
    ASSUME NEW p \in Slot, Schedule(p)
    PROVE  /\ state[p] = "RUNNABLE" /\ plock[p] = None
           /\ plock' = [plock EXCEPT ![p] = p]
           /\ state' = [state EXCEPT ![p] = "RUNNING"]
           /\ on' = [on EXCEPT ![p] = @ + 1]
           /\ pc' = [pc EXCEPT ![p] = "resume"]
           /\ UNCHANGED <<chan, ret, family, at, np>>
BY Zenon DEF Schedule, Lock, Goto

LEMMA ScanEndEffect ==
    ASSUME NEW p \in Slot, ScanEnd(p)
    PROVE  /\ pc[p] = "scan" /\ at[p] = NProc + 1
           /\ \/ wait_lock' = None /\ pc' = [pc EXCEPT ![p] = "user"]
              \/ wait_lock' = wait_lock /\ pc' = [pc EXCEPT ![p] = "sleep"]
           /\ at' = [at EXCEPT ![p] = 1]
           /\ UNCHANGED <<state, chan, plock, on, ret, killed, parent, np>>
BY Zenon DEF ScanEnd, Return, Goto

(* Each part of the invariant is kept by each action, in the order of Next. *)
LEMMA TypeOKStep == ASSUME IInv, [Next]_vars PROVE TypeOK'
<1>. USE SlotFacts, LoopFacts, CpuFacts DEF IInv, sched_vars, family
<1>1. ASSUME NEW p \in Slot, Schedule(p) PROVE TypeOK'
  BY <1>1, ScheduleEffect DEF TypeOK, CpuInv, StateInv, LockInv, Switching
<1>2. ASSUME NEW p \in Slot, Resume(p) PROVE TypeOK'
  BY <1>2 DEF Resume, Goto, TypeOK, StateInv
<1>3. ASSUME NEW p \in Slot, Sched(p) PROVE TypeOK'
  BY <1>3 DEF Sched, Goto, TypeOK, CpuInv
<1>4. ASSUME NEW p \in Slot, Yield(p) PROVE TypeOK'
  BY <1>4 DEF Yield, Lock, Goto, TypeOK
<1>5. ASSUME NEW p \in Slot, NEW q \in Slot, Fork(p, q) PROVE TypeOK'
  BY <1>5 DEF Fork, Calls, Goto, TypeOK
<1>6. ASSUME NEW p \in Slot, ForkFail(p) PROVE TypeOK'
  BY <1>6 DEF ForkFail, Free, Goto, TypeOK
<1>7. ASSUME NEW p \in Slot, ForkCopy(p) PROVE TypeOK'
  BY <1>7 DEF ForkCopy, Goto, TypeOK
<1>8. ASSUME NEW p \in Slot, ForkParent(p) PROVE TypeOK'
  BY <1>8 DEF ForkParent, Goto, TypeOK
<1>9. ASSUME NEW p \in Slot, ForkRun(p) PROVE TypeOK'
  BY <1>9 DEF ForkRun, Goto, TypeOK
<1>10. ASSUME NEW p \in Slot, CallExit(p) PROVE TypeOK'
  BY <1>10 DEF CallExit, Goto, TypeOK
<1>11. ASSUME NEW p \in Slot, ExitLock(p) PROVE TypeOK'
  BY <1>11 DEF ExitLock, Goto, TypeOK
<1>12. ASSUME NEW p \in Slot, Reparent(p) PROVE TypeOK'
  BY <1>12 DEF Reparent, Goto, TypeOK
<1>13. ASSUME NEW p \in Slot, WakeInit(p) PROVE TypeOK'
  BY <1>13 DEF WakeInit, Wakeup, Goto, TypeOK, LoopInv
<1>14. ASSUME NEW p \in Slot, WakeParent(p) PROVE TypeOK'
  BY <1>14 DEF WakeParent, Wakeup, Goto, TypeOK, LoopInv
<1>15. ASSUME NEW p \in Slot, Zombie(p) PROVE TypeOK'
  BY <1>15 DEF Zombie, Lock, Goto, TypeOK
<1>16. ASSUME NEW p \in Slot, CallWait(p) PROVE TypeOK'
  BY <1>16 DEF CallWait, Calls, Goto, TypeOK
<1>17. ASSUME NEW p \in Slot, WaitLock(p) PROVE TypeOK'
  BY <1>17 DEF WaitLock, Goto, TypeOK
<1>18. ASSUME NEW p \in Slot, ScanNext(p) PROVE TypeOK'
  BY <1>18 DEF ScanNext, TypeOK
<1>19. ASSUME NEW p \in Slot, Reap(p) PROVE TypeOK'
  BY <1>19 DEF Reap, Free, Return, Goto, TypeOK
<1>20. ASSUME NEW p \in Slot, ReapFail(p) PROVE TypeOK'
  BY <1>20 DEF ReapFail, Return, Goto, TypeOK
<1>21. ASSUME NEW p \in Slot, ScanEnd(p) PROVE TypeOK'
  BY <1>21, ScanEndEffect DEF TypeOK
<1>22. ASSUME NEW p \in Slot, WaitSleep(p) PROVE TypeOK'
  BY <1>22 DEF WaitSleep, SleepOn, Lock, Goto, TypeOK
<1>23. ASSUME NEW p \in Slot, NEW q \in Slot, Kill(p, q) PROVE TypeOK'
  BY <1>23 DEF Kill, Calls, TypeOK
<1>24. CASE UNCHANGED vars
  BY <1>24 DEF vars, TypeOK
<1>. QED BY <1>1, <1>2, <1>3, <1>4, <1>5, <1>6, <1>7, <1>8, <1>9, <1>10,
   <1>11, <1>12, <1>13, <1>14, <1>15, <1>16, <1>17, <1>18, <1>19, <1>20,
   <1>21, <1>22, <1>23, <1>24 DEF Next, Kernel, Trap, User, Switch, Forking,
   Exiting, Waiting

LEMMA CpuInvStep == ASSUME IInv, [Next]_vars PROVE CpuInv'
<1>. USE SlotFacts DEF IInv, sched_vars, family
<1>1. ASSUME NEW p \in Slot, Schedule(p) PROVE CpuInv'
  BY <1>1, ScheduleEffect DEF TypeOK, CpuInv, StateInv, LockInv, Switching
<1>2. ASSUME NEW p \in Slot, Resume(p) PROVE CpuInv'
  BY <1>2 DEF Resume, Goto, TypeOK, CpuInv
<1>3. ASSUME NEW p \in Slot, Sched(p) PROVE CpuInv'
  BY <1>3 DEF Sched, Goto, TypeOK, CpuInv
<1>4. ASSUME NEW p \in Slot, Yield(p) PROVE CpuInv'
  BY <1>4 DEF Yield, Lock, Goto, TypeOK, CpuInv
<1>5. ASSUME NEW p \in Slot, NEW q \in Slot, Fork(p, q) PROVE CpuInv'
  BY <1>5 DEF Fork, Calls, Goto, TypeOK, CpuInv
<1>6. ASSUME NEW p \in Slot, ForkFail(p) PROVE CpuInv'
  BY <1>6 DEF ForkFail, Free, Goto, TypeOK, CpuInv
<1>7. ASSUME NEW p \in Slot, ForkCopy(p) PROVE CpuInv'
  BY <1>7 DEF ForkCopy, Goto, TypeOK, CpuInv
<1>8. ASSUME NEW p \in Slot, ForkParent(p) PROVE CpuInv'
  BY <1>8 DEF ForkParent, Goto, TypeOK, CpuInv
<1>9. ASSUME NEW p \in Slot, ForkRun(p) PROVE CpuInv'
  BY <1>9 DEF ForkRun, Goto, TypeOK, CpuInv
<1>10. ASSUME NEW p \in Slot, CallExit(p) PROVE CpuInv'
  BY <1>10 DEF CallExit, Goto, TypeOK, CpuInv
<1>11. ASSUME NEW p \in Slot, ExitLock(p) PROVE CpuInv'
  BY <1>11 DEF ExitLock, Goto, TypeOK, CpuInv
<1>12. ASSUME NEW p \in Slot, Reparent(p) PROVE CpuInv'
  BY <1>12 DEF Reparent, Goto, TypeOK, CpuInv
<1>13. ASSUME NEW p \in Slot, WakeInit(p) PROVE CpuInv'
  BY <1>13 DEF WakeInit, Wakeup, Goto, TypeOK, CpuInv
<1>14. ASSUME NEW p \in Slot, WakeParent(p) PROVE CpuInv'
  BY <1>14 DEF WakeParent, Wakeup, Goto, TypeOK, CpuInv
<1>15. ASSUME NEW p \in Slot, Zombie(p) PROVE CpuInv'
  BY <1>15 DEF Zombie, Lock, Goto, TypeOK, CpuInv
<1>16. ASSUME NEW p \in Slot, CallWait(p) PROVE CpuInv'
  BY <1>16 DEF CallWait, Calls, Goto, TypeOK, CpuInv
<1>17. ASSUME NEW p \in Slot, WaitLock(p) PROVE CpuInv'
  BY <1>17 DEF WaitLock, Goto, TypeOK, CpuInv
<1>18. ASSUME NEW p \in Slot, ScanNext(p) PROVE CpuInv'
  BY <1>18 DEF ScanNext, TypeOK, CpuInv
<1>19. ASSUME NEW p \in Slot, Reap(p) PROVE CpuInv'
  BY <1>19 DEF Reap, Free, Return, Goto, TypeOK, CpuInv
<1>20. ASSUME NEW p \in Slot, ReapFail(p) PROVE CpuInv'
  BY <1>20 DEF ReapFail, Return, Goto, TypeOK, CpuInv
<1>21. ASSUME NEW p \in Slot, ScanEnd(p) PROVE CpuInv'
  BY <1>21, ScanEndEffect DEF TypeOK, CpuInv
<1>22. ASSUME NEW p \in Slot, WaitSleep(p) PROVE CpuInv'
  BY <1>22 DEF WaitSleep, SleepOn, Lock, Goto, TypeOK, CpuInv
<1>23. ASSUME NEW p \in Slot, NEW q \in Slot, Kill(p, q) PROVE CpuInv'
  BY <1>23 DEF Kill, Calls, TypeOK, CpuInv
<1>24. CASE UNCHANGED vars
  BY <1>24 DEF vars, TypeOK, CpuInv
<1>. QED BY <1>1, <1>2, <1>3, <1>4, <1>5, <1>6, <1>7, <1>8, <1>9, <1>10,
   <1>11, <1>12, <1>13, <1>14, <1>15, <1>16, <1>17, <1>18, <1>19, <1>20,
   <1>21, <1>22, <1>23, <1>24 DEF Next, Kernel, Trap, User, Switch, Forking,
   Exiting, Waiting

LEMMA StateInvStep == ASSUME IInv, [Next]_vars PROVE StateInv'
<1>. USE SlotFacts DEF IInv, sched_vars, family
<1>1. ASSUME NEW p \in Slot, Schedule(p) PROVE StateInv'
  BY <1>1, ScheduleEffect DEF TypeOK, StateInv, LockInv, Switching
<1>2. ASSUME NEW p \in Slot, Resume(p) PROVE StateInv'
  BY <1>2 DEF Resume, Goto, TypeOK, StateInv
<1>3. ASSUME NEW p \in Slot, Sched(p) PROVE StateInv'
  BY <1>3 DEF Sched, Goto, TypeOK, StateInv
<1>4. ASSUME NEW p \in Slot, Yield(p) PROVE StateInv'
  BY <1>4 DEF Yield, Lock, Goto, TypeOK, StateInv
<1>5. ASSUME NEW p \in Slot, NEW q \in Slot, Fork(p, q) PROVE StateInv'
  BY <1>5 DEF Fork, Calls, Goto, TypeOK, StateInv
<1>6. ASSUME NEW p \in Slot, ForkFail(p) PROVE StateInv'
  BY <1>6 DEF ForkFail, Free, Goto, TypeOK, StateInv, ForkInv, Forks
<1>7. ASSUME NEW p \in Slot, ForkCopy(p) PROVE StateInv'
  BY <1>7 DEF ForkCopy, Goto, TypeOK, StateInv
<1>8. ASSUME NEW p \in Slot, ForkParent(p) PROVE StateInv'
  BY <1>8 DEF ForkParent, Goto, TypeOK, StateInv
<1>9. ASSUME NEW p \in Slot, ForkRun(p) PROVE StateInv'
  BY <1>9 DEF ForkRun, Goto, TypeOK, StateInv, ForkInv, Forks
<1>10. ASSUME NEW p \in Slot, CallExit(p) PROVE StateInv'
  BY <1>10 DEF CallExit, Goto, TypeOK, StateInv
<1>11. ASSUME NEW p \in Slot, ExitLock(p) PROVE StateInv'
  BY <1>11 DEF ExitLock, Goto, TypeOK, StateInv
<1>12. ASSUME NEW p \in Slot, Reparent(p) PROVE StateInv'
  BY <1>12 DEF Reparent, Goto, TypeOK, StateInv
<1>13. ASSUME NEW p \in Slot, WakeInit(p) PROVE StateInv'
  BY <1>13 DEF WakeInit, Wakeup, Goto, TypeOK, StateInv
<1>14. ASSUME NEW p \in Slot, WakeParent(p) PROVE StateInv'
  BY <1>14 DEF WakeParent, Wakeup, Goto, TypeOK, StateInv
<1>15. ASSUME NEW p \in Slot, Zombie(p) PROVE StateInv'
  BY <1>15 DEF Zombie, Lock, Goto, TypeOK, StateInv
<1>16. ASSUME NEW p \in Slot, CallWait(p) PROVE StateInv'
  BY <1>16 DEF CallWait, Calls, Goto, TypeOK, StateInv
<1>17. ASSUME NEW p \in Slot, WaitLock(p) PROVE StateInv'
  BY <1>17 DEF WaitLock, Goto, TypeOK, StateInv
<1>18. ASSUME NEW p \in Slot, ScanNext(p) PROVE StateInv'
  BY <1>18 DEF ScanNext, TypeOK, StateInv
<1>19. ASSUME NEW p \in Slot, Reap(p) PROVE StateInv'
  BY <1>19 DEF Reap, Free, Return, Goto, TypeOK, StateInv, LockInv, Switching
<1>20. ASSUME NEW p \in Slot, ReapFail(p) PROVE StateInv'
  BY <1>20 DEF ReapFail, Return, Goto, TypeOK, StateInv
<1>21. ASSUME NEW p \in Slot, ScanEnd(p) PROVE StateInv'
  BY <1>21, ScanEndEffect DEF TypeOK, StateInv
<1>22. ASSUME NEW p \in Slot, WaitSleep(p) PROVE StateInv'
  BY <1>22 DEF WaitSleep, SleepOn, Lock, Goto, TypeOK, StateInv
<1>23. ASSUME NEW p \in Slot, NEW q \in Slot, Kill(p, q) PROVE StateInv'
  BY <1>23 DEF Kill, Calls, TypeOK, StateInv
<1>24. CASE UNCHANGED vars
  BY <1>24 DEF vars, TypeOK, StateInv
<1>. QED BY <1>1, <1>2, <1>3, <1>4, <1>5, <1>6, <1>7, <1>8, <1>9, <1>10,
   <1>11, <1>12, <1>13, <1>14, <1>15, <1>16, <1>17, <1>18, <1>19, <1>20,
   <1>21, <1>22, <1>23, <1>24 DEF Next, Kernel, Trap, User, Switch, Forking,
   Exiting, Waiting

LEMMA LockInvStep == ASSUME IInv, [Next]_vars PROVE LockInv'
<1>. USE SlotFacts DEF IInv, sched_vars, family
<1>1. ASSUME NEW p \in Slot, Schedule(p) PROVE LockInv'
  BY <1>1, ScheduleEffect DEF TypeOK, LockInv, StateInv, Switching
<1>2. ASSUME NEW p \in Slot, Resume(p) PROVE LockInv'
  BY <1>2 DEF Resume, Goto, TypeOK, LockInv, Switching
<1>3. ASSUME NEW p \in Slot, Sched(p) PROVE LockInv'
  BY <1>3 DEF Sched, Goto, TypeOK, LockInv, Switching
<1>4. ASSUME NEW p \in Slot, Yield(p) PROVE LockInv'
  BY <1>4 DEF Yield, Lock, Goto, TypeOK, LockInv, Switching
<1>5. ASSUME NEW p \in Slot, NEW q \in Slot, Fork(p, q) PROVE LockInv'
  BY <1>5 DEF Fork, Calls, Goto, TypeOK, LockInv, Switching
<1>6. ASSUME NEW p \in Slot, ForkFail(p) PROVE LockInv'
  BY <1>6 DEF ForkFail, Free, Goto, TypeOK, LockInv, ForkInv, Switching,
     Forks
<1>7. ASSUME NEW p \in Slot, ForkCopy(p) PROVE LockInv'
  BY <1>7 DEF ForkCopy, Goto, TypeOK, LockInv, ForkInv, Switching, Forks
<1>8. ASSUME NEW p \in Slot, ForkParent(p) PROVE LockInv'
  BY <1>8 DEF ForkParent, Goto, TypeOK, LockInv, Switching
<1>9. ASSUME NEW p \in Slot, ForkRun(p) PROVE LockInv'
  BY <1>9 DEF ForkRun, Goto, TypeOK, LockInv, Switching
<1>10. ASSUME NEW p \in Slot, CallExit(p) PROVE LockInv'
  BY <1>10 DEF CallExit, Goto, TypeOK, LockInv, Switching
<1>11. ASSUME NEW p \in Slot, ExitLock(p) PROVE LockInv'
  BY <1>11 DEF ExitLock, Goto, TypeOK, LockInv, Switching
<1>12. ASSUME NEW p \in Slot, Reparent(p) PROVE LockInv'
  BY <1>12 DEF Reparent, Goto, TypeOK, LockInv, Switching
<1>13. ASSUME NEW p \in Slot, WakeInit(p) PROVE LockInv'
  BY <1>13 DEF WakeInit, Wakeup, Goto, TypeOK, LockInv, Switching
<1>14. ASSUME NEW p \in Slot, WakeParent(p) PROVE LockInv'
  BY <1>14 DEF WakeParent, Wakeup, Goto, TypeOK, LockInv, Switching
<1>15. ASSUME NEW p \in Slot, Zombie(p) PROVE LockInv'
  BY <1>15 DEF Zombie, Lock, Goto, TypeOK, LockInv, Switching
<1>16. ASSUME NEW p \in Slot, CallWait(p) PROVE LockInv'
  BY <1>16 DEF CallWait, Calls, Goto, TypeOK, LockInv, Switching
<1>17. ASSUME NEW p \in Slot, WaitLock(p) PROVE LockInv'
  BY <1>17 DEF WaitLock, Goto, TypeOK, LockInv, Switching
<1>18. ASSUME NEW p \in Slot, ScanNext(p) PROVE LockInv'
  BY <1>18 DEF ScanNext, TypeOK, LockInv, Switching
<1>19. ASSUME NEW p \in Slot, Reap(p) PROVE LockInv'
  BY <1>19 DEF Reap, Free, Return, Goto, TypeOK, LockInv, Switching
<1>20. ASSUME NEW p \in Slot, ReapFail(p) PROVE LockInv'
  BY <1>20 DEF ReapFail, Return, Goto, TypeOK, LockInv, Switching
<1>21. ASSUME NEW p \in Slot, ScanEnd(p) PROVE LockInv'
  BY <1>21, ScanEndEffect DEF TypeOK, LockInv, Switching
<1>22. ASSUME NEW p \in Slot, WaitSleep(p) PROVE LockInv'
  BY <1>22 DEF WaitSleep, SleepOn, Lock, Goto, TypeOK, LockInv, Switching
<1>23. ASSUME NEW p \in Slot, NEW q \in Slot, Kill(p, q) PROVE LockInv'
  BY <1>23 DEF Kill, Calls, TypeOK, LockInv, Switching
<1>24. CASE UNCHANGED vars
  BY <1>24 DEF vars, TypeOK, LockInv, Switching
<1>. QED BY <1>1, <1>2, <1>3, <1>4, <1>5, <1>6, <1>7, <1>8, <1>9, <1>10,
   <1>11, <1>12, <1>13, <1>14, <1>15, <1>16, <1>17, <1>18, <1>19, <1>20,
   <1>21, <1>22, <1>23, <1>24 DEF Next, Kernel, Trap, User, Switch, Forking,
   Exiting, Waiting

LEMMA WaitLockInvStep == ASSUME IInv, [Next]_vars PROVE WaitLockInv'
<1>. USE SlotFacts DEF IInv, sched_vars, family
<1>1. ASSUME NEW p \in Slot, Schedule(p) PROVE WaitLockInv'
  BY <1>1, ScheduleEffect DEF TypeOK, WaitLockInv, StateInv, Holding
<1>2. ASSUME NEW p \in Slot, Resume(p) PROVE WaitLockInv'
  BY <1>2 DEF Resume, Goto, TypeOK, WaitLockInv, Holding
<1>3. ASSUME NEW p \in Slot, Sched(p) PROVE WaitLockInv'
  BY <1>3 DEF Sched, Goto, TypeOK, WaitLockInv, Holding
<1>4. ASSUME NEW p \in Slot, Yield(p) PROVE WaitLockInv'
  BY <1>4 DEF Yield, Lock, Goto, TypeOK, WaitLockInv, Holding
<1>5. ASSUME NEW p \in Slot, NEW q \in Slot, Fork(p, q) PROVE WaitLockInv'
  BY <1>5 DEF Fork, Calls, Goto, TypeOK, WaitLockInv, Holding
<1>6. ASSUME NEW p \in Slot, ForkFail(p) PROVE WaitLockInv'
  BY <1>6 DEF ForkFail, Free, Goto, TypeOK, WaitLockInv, Holding
<1>7. ASSUME NEW p \in Slot, ForkCopy(p) PROVE WaitLockInv'
  BY <1>7 DEF ForkCopy, Goto, TypeOK, WaitLockInv, Holding
<1>8. ASSUME NEW p \in Slot, ForkParent(p) PROVE WaitLockInv'
  BY <1>8 DEF ForkParent, Goto, TypeOK, WaitLockInv, Holding
<1>9. ASSUME NEW p \in Slot, ForkRun(p) PROVE WaitLockInv'
  BY <1>9 DEF ForkRun, Goto, TypeOK, WaitLockInv, Holding
<1>10. ASSUME NEW p \in Slot, CallExit(p) PROVE WaitLockInv'
  BY <1>10 DEF CallExit, Goto, TypeOK, WaitLockInv, Holding
<1>11. ASSUME NEW p \in Slot, ExitLock(p) PROVE WaitLockInv'
  BY <1>11 DEF ExitLock, Goto, TypeOK, WaitLockInv, Holding
<1>12. ASSUME NEW p \in Slot, Reparent(p) PROVE WaitLockInv'
  BY <1>12 DEF Reparent, Goto, TypeOK, WaitLockInv, Holding
<1>13. ASSUME NEW p \in Slot, WakeInit(p) PROVE WaitLockInv'
  BY <1>13 DEF WakeInit, Wakeup, Goto, TypeOK, WaitLockInv, Holding
<1>14. ASSUME NEW p \in Slot, WakeParent(p) PROVE WaitLockInv'
  BY <1>14 DEF WakeParent, Wakeup, Goto, TypeOK, WaitLockInv, Holding
<1>15. ASSUME NEW p \in Slot, Zombie(p) PROVE WaitLockInv'
  BY <1>15 DEF Zombie, Lock, Goto, TypeOK, WaitLockInv, Holding
<1>16. ASSUME NEW p \in Slot, CallWait(p) PROVE WaitLockInv'
  BY <1>16 DEF CallWait, Calls, Goto, TypeOK, WaitLockInv, Holding
<1>17. ASSUME NEW p \in Slot, WaitLock(p) PROVE WaitLockInv'
  BY <1>17 DEF WaitLock, Goto, TypeOK, WaitLockInv, Holding
<1>18. ASSUME NEW p \in Slot, ScanNext(p) PROVE WaitLockInv'
  BY <1>18 DEF ScanNext, TypeOK, WaitLockInv, Holding
<1>19. ASSUME NEW p \in Slot, Reap(p) PROVE WaitLockInv'
  BY <1>19 DEF Reap, Free, Return, Goto, TypeOK, WaitLockInv, Holding
<1>20. ASSUME NEW p \in Slot, ReapFail(p) PROVE WaitLockInv'
  BY <1>20 DEF ReapFail, Return, Goto, TypeOK, WaitLockInv, Holding
<1>21. ASSUME NEW p \in Slot, ScanEnd(p) PROVE WaitLockInv'
  BY <1>21, ScanEndEffect DEF TypeOK, WaitLockInv, Holding
<1>22. ASSUME NEW p \in Slot, WaitSleep(p) PROVE WaitLockInv'
  BY <1>22 DEF WaitSleep, SleepOn, Lock, Goto, TypeOK, WaitLockInv, Holding
<1>23. ASSUME NEW p \in Slot, NEW q \in Slot, Kill(p, q) PROVE WaitLockInv'
  BY <1>23 DEF Kill, Calls, TypeOK, WaitLockInv, Holding
<1>24. CASE UNCHANGED vars
  BY <1>24 DEF vars, TypeOK, WaitLockInv, Holding
<1>. QED BY <1>1, <1>2, <1>3, <1>4, <1>5, <1>6, <1>7, <1>8, <1>9, <1>10,
   <1>11, <1>12, <1>13, <1>14, <1>15, <1>16, <1>17, <1>18, <1>19, <1>20,
   <1>21, <1>22, <1>23, <1>24 DEF Next, Kernel, Trap, User, Switch, Forking,
   Exiting, Waiting

LEMMA ForkInvStep == ASSUME IInv, [Next]_vars PROVE ForkInv'
<1>. USE SlotFacts DEF IInv, sched_vars, family
<1>1. ASSUME NEW p \in Slot, Schedule(p) PROVE ForkInv'
  BY <1>1, ScheduleEffect DEF TypeOK, ForkInv, StateInv, Forks
<1>2. ASSUME NEW p \in Slot, Resume(p) PROVE ForkInv'
  BY <1>2 DEF Resume, Goto, TypeOK, ForkInv, Forks
<1>3. ASSUME NEW p \in Slot, Sched(p) PROVE ForkInv'
  BY <1>3 DEF Sched, Goto, TypeOK, ForkInv, Forks
<1>4. ASSUME NEW p \in Slot, Yield(p) PROVE ForkInv'
  BY <1>4 DEF Yield, Lock, Goto, TypeOK, ForkInv, StateInv, Forks
<1>5. ASSUME NEW p \in Slot, NEW q \in Slot, Fork(p, q) PROVE ForkInv'
  BY <1>5 DEF Fork, Calls, Goto, TypeOK, ForkInv, Forks
<1>6. ASSUME NEW p \in Slot, ForkFail(p) PROVE ForkInv'
  BY <1>6 DEF ForkFail, Free, Goto, TypeOK, ForkInv, MakerInv, StateInv,
     Forks
<1>7. ASSUME NEW p \in Slot, ForkCopy(p) PROVE ForkInv'
  BY <1>7 DEF ForkCopy, Goto, TypeOK, ForkInv, Forks
<1>8. ASSUME NEW p \in Slot, ForkParent(p) PROVE ForkInv'
  BY <1>8 DEF ForkParent, Goto, TypeOK, ForkInv, MakerInv, StateInv, Forks
<1>9. ASSUME NEW p \in Slot, ForkRun(p) PROVE ForkInv'
  BY <1>9 DEF ForkRun, Goto, TypeOK, ForkInv, MakerInv, StateInv, Forks
<1>10. ASSUME NEW p \in Slot, CallExit(p) PROVE ForkInv'
  BY <1>10 DEF CallExit, Goto, TypeOK, ForkInv, Forks
<1>11. ASSUME NEW p \in Slot, ExitLock(p) PROVE ForkInv'
  BY <1>11 DEF ExitLock, Goto, TypeOK, ForkInv, Forks
<1>12. ASSUME NEW p \in Slot, Reparent(p) PROVE ForkInv'
  BY <1>12 DEF Reparent, Goto, TypeOK, ForkInv, Forks
<1>13. ASSUME NEW p \in Slot, WakeInit(p) PROVE ForkInv'
  BY <1>13 DEF WakeInit, Wakeup, Goto, TypeOK, ForkInv, Forks
<1>14. ASSUME NEW p \in Slot, WakeParent(p) PROVE ForkInv'
  BY <1>14 DEF WakeParent, Wakeup, Goto, TypeOK, ForkInv, Forks
<1>15. ASSUME NEW p \in Slot, Zombie(p) PROVE ForkInv'
  BY <1>15 DEF Zombie, Lock, Goto, TypeOK, ForkInv, StateInv, Forks
<1>16. ASSUME NEW p \in Slot, CallWait(p) PROVE ForkInv'
  BY <1>16 DEF CallWait, Calls, Goto, TypeOK, ForkInv, Forks
<1>17. ASSUME NEW p \in Slot, WaitLock(p) PROVE ForkInv'
  BY <1>17 DEF WaitLock, Goto, TypeOK, ForkInv, Forks
<1>18. ASSUME NEW p \in Slot, ScanNext(p) PROVE ForkInv'
  BY <1>18 DEF ScanNext, TypeOK, ForkInv, Forks
<1>19. ASSUME NEW p \in Slot, Reap(p) PROVE ForkInv'
  BY <1>19 DEF Reap, Free, Return, Goto, TypeOK, ForkInv, StateInv, Forks
<1>20. ASSUME NEW p \in Slot, ReapFail(p) PROVE ForkInv'
  BY <1>20 DEF ReapFail, Return, Goto, TypeOK, ForkInv, Forks
<1>21. ASSUME NEW p \in Slot, ScanEnd(p) PROVE ForkInv'
  BY <1>21, ScanEndEffect DEF TypeOK, ForkInv, Forks
<1>22. ASSUME NEW p \in Slot, WaitSleep(p) PROVE ForkInv'
  BY <1>22 DEF WaitSleep, SleepOn, Lock, Goto, TypeOK, ForkInv, StateInv,
     Forks
<1>23. ASSUME NEW p \in Slot, NEW q \in Slot, Kill(p, q) PROVE ForkInv'
  BY <1>23 DEF Kill, Calls, TypeOK, ForkInv, Forks
<1>24. CASE UNCHANGED vars
  BY <1>24 DEF vars, TypeOK, ForkInv, Forks
<1>. QED BY <1>1, <1>2, <1>3, <1>4, <1>5, <1>6, <1>7, <1>8, <1>9, <1>10,
   <1>11, <1>12, <1>13, <1>14, <1>15, <1>16, <1>17, <1>18, <1>19, <1>20,
   <1>21, <1>22, <1>23, <1>24 DEF Next, Kernel, Trap, User, Switch, Forking,
   Exiting, Waiting

LEMMA MakerInvStep == ASSUME IInv, [Next]_vars PROVE MakerInv'
<1>. USE SlotFacts DEF IInv, sched_vars, family
<1>1. ASSUME NEW p \in Slot, Schedule(p) PROVE MakerInv'
  BY <1>1, ScheduleEffect DEF TypeOK, MakerInv
<1>2. ASSUME NEW p \in Slot, Resume(p) PROVE MakerInv'
  BY <1>2 DEF Resume, Goto, TypeOK, MakerInv
<1>3. ASSUME NEW p \in Slot, Sched(p) PROVE MakerInv'
  BY <1>3 DEF Sched, Goto, TypeOK, MakerInv
<1>4. ASSUME NEW p \in Slot, Yield(p) PROVE MakerInv'
  BY <1>4 DEF Yield, Lock, Goto, TypeOK, MakerInv
<1>5. ASSUME NEW p \in Slot, NEW q \in Slot, Fork(p, q) PROVE MakerInv'
  BY <1>5 DEF Fork, Calls, Goto, TypeOK, MakerInv, ForkInv, Forks
<1>6. ASSUME NEW p \in Slot, ForkFail(p) PROVE MakerInv'
  BY <1>6 DEF ForkFail, Free, Goto, TypeOK, MakerInv
<1>7. ASSUME NEW p \in Slot, ForkCopy(p) PROVE MakerInv'
  BY <1>7 DEF ForkCopy, Goto, TypeOK, MakerInv
<1>8. ASSUME NEW p \in Slot, ForkParent(p) PROVE MakerInv'
  BY <1>8 DEF ForkParent, Goto, TypeOK, MakerInv
<1>9. ASSUME NEW p \in Slot, ForkRun(p) PROVE MakerInv'
  BY <1>9 DEF ForkRun, Goto, TypeOK, MakerInv
<1>10. ASSUME NEW p \in Slot, CallExit(p) PROVE MakerInv'
  BY <1>10 DEF CallExit, Goto, TypeOK, MakerInv
<1>11. ASSUME NEW p \in Slot, ExitLock(p) PROVE MakerInv'
  BY <1>11 DEF ExitLock, Goto, TypeOK, MakerInv
<1>12. ASSUME NEW p \in Slot, Reparent(p) PROVE MakerInv'
  BY <1>12 DEF Reparent, Goto, TypeOK, MakerInv
<1>13. ASSUME NEW p \in Slot, WakeInit(p) PROVE MakerInv'
  BY <1>13 DEF WakeInit, Wakeup, Goto, TypeOK, MakerInv
<1>14. ASSUME NEW p \in Slot, WakeParent(p) PROVE MakerInv'
  BY <1>14 DEF WakeParent, Wakeup, Goto, TypeOK, MakerInv
<1>15. ASSUME NEW p \in Slot, Zombie(p) PROVE MakerInv'
  BY <1>15 DEF Zombie, Lock, Goto, TypeOK, MakerInv
<1>16. ASSUME NEW p \in Slot, CallWait(p) PROVE MakerInv'
  BY <1>16 DEF CallWait, Calls, Goto, TypeOK, MakerInv
<1>17. ASSUME NEW p \in Slot, WaitLock(p) PROVE MakerInv'
  BY <1>17 DEF WaitLock, Goto, TypeOK, MakerInv
<1>18. ASSUME NEW p \in Slot, ScanNext(p) PROVE MakerInv'
  BY <1>18 DEF ScanNext, TypeOK, MakerInv
<1>19. ASSUME NEW p \in Slot, Reap(p) PROVE MakerInv'
  BY <1>19 DEF Reap, Free, Return, Goto, TypeOK, MakerInv
<1>20. ASSUME NEW p \in Slot, ReapFail(p) PROVE MakerInv'
  BY <1>20 DEF ReapFail, Return, Goto, TypeOK, MakerInv
<1>21. ASSUME NEW p \in Slot, ScanEnd(p) PROVE MakerInv'
  BY <1>21, ScanEndEffect DEF TypeOK, MakerInv
<1>22. ASSUME NEW p \in Slot, WaitSleep(p) PROVE MakerInv'
  BY <1>22 DEF WaitSleep, SleepOn, Lock, Goto, TypeOK, MakerInv
<1>23. ASSUME NEW p \in Slot, NEW q \in Slot, Kill(p, q) PROVE MakerInv'
  BY <1>23 DEF Kill, Calls, TypeOK, MakerInv
<1>24. CASE UNCHANGED vars
  BY <1>24 DEF vars, TypeOK, MakerInv
<1>. QED BY <1>1, <1>2, <1>3, <1>4, <1>5, <1>6, <1>7, <1>8, <1>9, <1>10,
   <1>11, <1>12, <1>13, <1>14, <1>15, <1>16, <1>17, <1>18, <1>19, <1>20,
   <1>21, <1>22, <1>23, <1>24 DEF Next, Kernel, Trap, User, Switch, Forking,
   Exiting, Waiting

LEMMA LoopInvStep == ASSUME IInv, [Next]_vars PROVE LoopInv'
<1>. USE SlotFacts, LoopFacts DEF IInv, sched_vars, family
<1>1. ASSUME NEW p \in Slot, Schedule(p) PROVE LoopInv'
  BY <1>1, ScheduleEffect DEF TypeOK, LoopInv, StateInv
<1>2. ASSUME NEW p \in Slot, Resume(p) PROVE LoopInv'
  BY <1>2 DEF Resume, Goto, TypeOK, LoopInv
<1>3. ASSUME NEW p \in Slot, Sched(p) PROVE LoopInv'
  BY <1>3 DEF Sched, Goto, TypeOK, LoopInv
<1>4. ASSUME NEW p \in Slot, Yield(p) PROVE LoopInv'
  BY <1>4 DEF Yield, Lock, Goto, TypeOK, LoopInv
<1>5. ASSUME NEW p \in Slot, NEW q \in Slot, Fork(p, q) PROVE LoopInv'
  BY <1>5 DEF Fork, Calls, Goto, TypeOK, LoopInv
<1>6. ASSUME NEW p \in Slot, ForkFail(p) PROVE LoopInv'
  BY <1>6 DEF ForkFail, Free, Goto, TypeOK, LoopInv
<1>7. ASSUME NEW p \in Slot, ForkCopy(p) PROVE LoopInv'
  BY <1>7 DEF ForkCopy, Goto, TypeOK, LoopInv
<1>8. ASSUME NEW p \in Slot, ForkParent(p) PROVE LoopInv'
  BY <1>8 DEF ForkParent, Goto, TypeOK, LoopInv
<1>9. ASSUME NEW p \in Slot, ForkRun(p) PROVE LoopInv'
  BY <1>9 DEF ForkRun, Goto, TypeOK, LoopInv
<1>10. ASSUME NEW p \in Slot, CallExit(p) PROVE LoopInv'
  BY <1>10 DEF CallExit, Goto, TypeOK, LoopInv
<1>11. ASSUME NEW p \in Slot, ExitLock(p) PROVE LoopInv'
  BY <1>11 DEF ExitLock, Goto, TypeOK, LoopInv
<1>12. ASSUME NEW p \in Slot, Reparent(p) PROVE LoopInv'
  BY <1>12 DEF Reparent, Goto, TypeOK, LoopInv
<1>13. ASSUME NEW p \in Slot, WakeInit(p) PROVE LoopInv'
  BY <1>13 DEF WakeInit, Wakeup, Goto, TypeOK, LoopInv
<1>14. ASSUME NEW p \in Slot, WakeParent(p) PROVE LoopInv'
  BY <1>14 DEF WakeParent, Wakeup, Goto, TypeOK, LoopInv
<1>15. ASSUME NEW p \in Slot, Zombie(p) PROVE LoopInv'
  BY <1>15 DEF Zombie, Lock, Goto, TypeOK, LoopInv
<1>16. ASSUME NEW p \in Slot, CallWait(p) PROVE LoopInv'
  BY <1>16 DEF CallWait, Calls, Goto, TypeOK, LoopInv
<1>17. ASSUME NEW p \in Slot, WaitLock(p) PROVE LoopInv'
  BY <1>17 DEF WaitLock, Goto, TypeOK, LoopInv
<1>18. ASSUME NEW p \in Slot, ScanNext(p) PROVE LoopInv'
  BY <1>18 DEF ScanNext, TypeOK, LoopInv
<1>19. ASSUME NEW p \in Slot, Reap(p) PROVE LoopInv'
  BY <1>19 DEF Reap, Free, Return, Goto, TypeOK, LoopInv
<1>20. ASSUME NEW p \in Slot, ReapFail(p) PROVE LoopInv'
  BY <1>20 DEF ReapFail, Return, Goto, TypeOK, LoopInv
<1>21. ASSUME NEW p \in Slot, ScanEnd(p) PROVE LoopInv'
  BY <1>21, ScanEndEffect DEF TypeOK, LoopInv
<1>22. ASSUME NEW p \in Slot, WaitSleep(p) PROVE LoopInv'
  BY <1>22 DEF WaitSleep, SleepOn, Lock, Goto, TypeOK, LoopInv
<1>23. ASSUME NEW p \in Slot, NEW q \in Slot, Kill(p, q) PROVE LoopInv'
  BY <1>23 DEF Kill, Calls, TypeOK, LoopInv
<1>24. CASE UNCHANGED vars
  BY <1>24 DEF vars, TypeOK, LoopInv
<1>. QED BY <1>1, <1>2, <1>3, <1>4, <1>5, <1>6, <1>7, <1>8, <1>9, <1>10,
   <1>11, <1>12, <1>13, <1>14, <1>15, <1>16, <1>17, <1>18, <1>19, <1>20,
   <1>21, <1>22, <1>23, <1>24 DEF Next, Kernel, Trap, User, Switch, Forking,
   Exiting, Waiting

LEMMA InitProcInvStep == ASSUME IInv, [Next]_vars PROVE InitProcInv'
<1>. USE SlotFacts DEF IInv, sched_vars, family
<1>1. ASSUME NEW p \in Slot, Schedule(p) PROVE InitProcInv'
  BY <1>1, ScheduleEffect DEF TypeOK, InitProcInv, Leaving
<1>2. ASSUME NEW p \in Slot, Resume(p) PROVE InitProcInv'
  BY <1>2 DEF Resume, Goto, TypeOK, InitProcInv, Leaving
<1>3. ASSUME NEW p \in Slot, Sched(p) PROVE InitProcInv'
  BY <1>3 DEF Sched, Goto, TypeOK, InitProcInv, Leaving
<1>4. ASSUME NEW p \in Slot, Yield(p) PROVE InitProcInv'
  BY <1>4 DEF Yield, Lock, Goto, TypeOK, InitProcInv, Leaving
<1>5. ASSUME NEW p \in Slot, NEW q \in Slot, Fork(p, q) PROVE InitProcInv'
  BY <1>5 DEF Fork, Calls, Goto, TypeOK, InitProcInv, Leaving
<1>6. ASSUME NEW p \in Slot, ForkFail(p) PROVE InitProcInv'
  BY <1>6 DEF ForkFail, Free, Goto, TypeOK, InitProcInv, ForkInv, Leaving,
     Forks
<1>7. ASSUME NEW p \in Slot, ForkCopy(p) PROVE InitProcInv'
  BY <1>7 DEF ForkCopy, Goto, TypeOK, InitProcInv, Leaving
<1>8. ASSUME NEW p \in Slot, ForkParent(p) PROVE InitProcInv'
  BY <1>8 DEF ForkParent, Goto, TypeOK, InitProcInv, Leaving
<1>9. ASSUME NEW p \in Slot, ForkRun(p) PROVE InitProcInv'
  BY <1>9 DEF ForkRun, Goto, TypeOK, InitProcInv, ForkInv, Leaving, Forks
<1>10. ASSUME NEW p \in Slot, CallExit(p) PROVE InitProcInv'
  BY <1>10 DEF CallExit, Goto, TypeOK, InitProcInv, Leaving
<1>11. ASSUME NEW p \in Slot, ExitLock(p) PROVE InitProcInv'
  BY <1>11 DEF ExitLock, Goto, TypeOK, InitProcInv, Leaving
<1>12. ASSUME NEW p \in Slot, Reparent(p) PROVE InitProcInv'
  BY <1>12 DEF Reparent, Goto, TypeOK, InitProcInv, Leaving
<1>13. ASSUME NEW p \in Slot, WakeInit(p) PROVE InitProcInv'
  BY <1>13 DEF WakeInit, Wakeup, Goto, TypeOK, InitProcInv, Leaving
<1>14. ASSUME NEW p \in Slot, WakeParent(p) PROVE InitProcInv'
  BY <1>14 DEF WakeParent, Wakeup, Goto, TypeOK, InitProcInv, Leaving
<1>15. ASSUME NEW p \in Slot, Zombie(p) PROVE InitProcInv'
  BY <1>15 DEF Zombie, Lock, Goto, TypeOK, InitProcInv, Leaving
<1>16. ASSUME NEW p \in Slot, CallWait(p) PROVE InitProcInv'
  BY <1>16 DEF CallWait, Calls, Goto, TypeOK, InitProcInv, Leaving
<1>17. ASSUME NEW p \in Slot, WaitLock(p) PROVE InitProcInv'
  BY <1>17 DEF WaitLock, Goto, TypeOK, InitProcInv, Leaving
<1>18. ASSUME NEW p \in Slot, ScanNext(p) PROVE InitProcInv'
  BY <1>18 DEF ScanNext, TypeOK, InitProcInv, Leaving
<1>19. ASSUME NEW p \in Slot, Reap(p) PROVE InitProcInv'
  BY <1>19 DEF Reap, Free, Return, Goto, TypeOK, InitProcInv, Leaving
<1>20. ASSUME NEW p \in Slot, ReapFail(p) PROVE InitProcInv'
  BY <1>20 DEF ReapFail, Return, Goto, TypeOK, InitProcInv, Leaving
<1>21. ASSUME NEW p \in Slot, ScanEnd(p) PROVE InitProcInv'
  BY <1>21, ScanEndEffect DEF TypeOK, InitProcInv, Leaving
<1>22. ASSUME NEW p \in Slot, WaitSleep(p) PROVE InitProcInv'
  BY <1>22 DEF WaitSleep, SleepOn, Lock, Goto, TypeOK, InitProcInv, Leaving
<1>23. ASSUME NEW p \in Slot, NEW q \in Slot, Kill(p, q) PROVE InitProcInv'
  BY <1>23 DEF Kill, Calls, TypeOK, InitProcInv, Leaving
<1>24. CASE UNCHANGED vars
  BY <1>24 DEF vars, TypeOK, InitProcInv, Leaving
<1>. QED BY <1>1, <1>2, <1>3, <1>4, <1>5, <1>6, <1>7, <1>8, <1>9, <1>10,
   <1>11, <1>12, <1>13, <1>14, <1>15, <1>16, <1>17, <1>18, <1>19, <1>20,
   <1>21, <1>22, <1>23, <1>24 DEF Next, Kernel, Trap, User, Switch, Forking,
   Exiting, Waiting

LEMMA FamilyInvStep == ASSUME IInv, [Next]_vars PROVE FamilyInv'
<1>. USE SlotFacts DEF IInv, sched_vars, family
<1>1. ASSUME NEW p \in Slot, Schedule(p) PROVE FamilyInv'
  BY <1>1, ScheduleEffect DEF TypeOK, FamilyInv, StateInv, Leaving
<1>2. ASSUME NEW p \in Slot, Resume(p) PROVE FamilyInv'
  BY <1>2 DEF Resume, Goto, TypeOK, FamilyInv, StateInv, Leaving
<1>3. ASSUME NEW p \in Slot, Sched(p) PROVE FamilyInv'
  BY <1>3 DEF Sched, Goto, TypeOK, FamilyInv, StateInv, Leaving
<1>4. ASSUME NEW p \in Slot, Yield(p) PROVE FamilyInv'
  BY <1>4 DEF Yield, Lock, Goto, TypeOK, FamilyInv, StateInv, Leaving
<1>5. ASSUME NEW p \in Slot, NEW q \in Slot, Fork(p, q) PROVE FamilyInv'
  BY <1>5 DEF Fork, Calls, Goto, TypeOK, FamilyInv, StateInv, Leaving
<1>6. ASSUME NEW p \in Slot, ForkFail(p) PROVE FamilyInv'
  BY <1>6 DEF ForkFail, Free, Goto, TypeOK, FamilyInv, StateInv, ForkInv,
     Leaving, Forks
<1>7. ASSUME NEW p \in Slot, ForkCopy(p) PROVE FamilyInv'
  BY <1>7 DEF ForkCopy, Goto, TypeOK, FamilyInv, StateInv, Leaving
<1>8. ASSUME NEW p \in Slot, ForkParent(p) PROVE FamilyInv'
  BY <1>8 DEF ForkParent, Goto, TypeOK, FamilyInv, StateInv, ForkInv,
     Leaving, Forks
<1>9. ASSUME NEW p \in Slot, ForkRun(p) PROVE FamilyInv'
  BY <1>9 DEF ForkRun, Goto, TypeOK, FamilyInv, StateInv, ForkInv, Leaving,
     Forks
<1>10. ASSUME NEW p \in Slot, CallExit(p) PROVE FamilyInv'
  BY <1>10 DEF CallExit, Goto, TypeOK, FamilyInv, StateInv, Leaving
<1>11. ASSUME NEW p \in Slot, ExitLock(p) PROVE FamilyInv'
  BY <1>11 DEF ExitLock, Goto, TypeOK, FamilyInv, StateInv, Leaving
<1>12. ASSUME NEW p \in Slot, Reparent(p) PROVE FamilyInv'
  BY <1>12 DEF Reparent, Goto, TypeOK, FamilyInv, StateInv, InitProcInv,
     Leaving
<1>13. ASSUME NEW p \in Slot, WakeInit(p) PROVE FamilyInv'
  BY <1>13 DEF WakeInit, Wakeup, Goto, TypeOK, FamilyInv, StateInv, Leaving
<1>14. ASSUME NEW p \in Slot, WakeParent(p) PROVE FamilyInv'
  BY <1>14 DEF WakeParent, Wakeup, Goto, TypeOK, FamilyInv, StateInv, Leaving
<1>15. ASSUME NEW p \in Slot, Zombie(p) PROVE FamilyInv'
  BY <1>15 DEF Zombie, Lock, Goto, TypeOK, FamilyInv, StateInv, InitProcInv,
     Leaving
<1>16. ASSUME NEW p \in Slot, CallWait(p) PROVE FamilyInv'
  BY <1>16 DEF CallWait, Calls, Goto, TypeOK, FamilyInv, StateInv, Leaving
<1>17. ASSUME NEW p \in Slot, WaitLock(p) PROVE FamilyInv'
  BY <1>17 DEF WaitLock, Goto, TypeOK, FamilyInv, StateInv, Leaving
<1>18. ASSUME NEW p \in Slot, ScanNext(p) PROVE FamilyInv'
  BY <1>18 DEF ScanNext, TypeOK, FamilyInv, StateInv, Leaving
<1>19. ASSUME NEW p \in Slot, Reap(p) PROVE FamilyInv'
  BY <1>19 DEF Reap, Free, Return, Goto, TypeOK, FamilyInv, StateInv,
     InitProcInv, Leaving
<1>20. ASSUME NEW p \in Slot, ReapFail(p) PROVE FamilyInv'
  BY <1>20 DEF ReapFail, Return, Goto, TypeOK, FamilyInv, StateInv, Leaving
<1>21. ASSUME NEW p \in Slot, ScanEnd(p) PROVE FamilyInv'
  BY <1>21, ScanEndEffect DEF TypeOK, FamilyInv, StateInv, Leaving
<1>22. ASSUME NEW p \in Slot, WaitSleep(p) PROVE FamilyInv'
  BY <1>22 DEF WaitSleep, SleepOn, Lock, Goto, TypeOK, FamilyInv, StateInv,
     Leaving
<1>23. ASSUME NEW p \in Slot, NEW q \in Slot, Kill(p, q) PROVE FamilyInv'
  BY <1>23 DEF Kill, Calls, TypeOK, FamilyInv, StateInv, Leaving
<1>24. CASE UNCHANGED vars
  BY <1>24 DEF vars, TypeOK, FamilyInv, Leaving
<1>. QED BY <1>1, <1>2, <1>3, <1>4, <1>5, <1>6, <1>7, <1>8, <1>9, <1>10,
   <1>11, <1>12, <1>13, <1>14, <1>15, <1>16, <1>17, <1>18, <1>19, <1>20,
   <1>21, <1>22, <1>23, <1>24 DEF Next, Kernel, Trap, User, Switch, Forking,
   Exiting, Waiting

LEMMA WakeupInvStep == ASSUME IInv, [Next]_vars PROVE WakeupInv'
<1>. USE SlotFacts, LoopFacts DEF IInv, sched_vars, family
<1>1. ASSUME NEW p \in Slot, Schedule(p) PROVE WakeupInv'
  BY <1>1, ScheduleEffect DEF TypeOK, WakeupInv, StateInv, InWait
<1>2. ASSUME NEW p \in Slot, Resume(p) PROVE WakeupInv'
  BY <1>2 DEF Resume, Goto, TypeOK, WakeupInv, StateInv, InWait
<1>3. ASSUME NEW p \in Slot, Sched(p) PROVE WakeupInv'
  BY <1>3 DEF Sched, Goto, TypeOK, WakeupInv, StateInv, InWait
<1>4. ASSUME NEW p \in Slot, Yield(p) PROVE WakeupInv'
  BY <1>4 DEF Yield, Lock, Goto, TypeOK, WakeupInv, StateInv, InWait
<1>5. ASSUME NEW p \in Slot, NEW q \in Slot, Fork(p, q) PROVE WakeupInv'
  BY <1>5 DEF Fork, Calls, Goto, TypeOK, WakeupInv, StateInv, InWait
<1>6. ASSUME NEW p \in Slot, ForkFail(p) PROVE WakeupInv'
  BY <1>6 DEF ForkFail, Free, Goto, TypeOK, WakeupInv, StateInv, ForkInv,
     WaitLockInv, InWait, Forks, Holding
<1>7. ASSUME NEW p \in Slot, ForkCopy(p) PROVE WakeupInv'
  BY <1>7 DEF ForkCopy, Goto, TypeOK, WakeupInv, StateInv, InWait
<1>8. ASSUME NEW p \in Slot, ForkParent(p) PROVE WakeupInv'
  BY <1>8 DEF ForkParent, Goto, TypeOK, WakeupInv, StateInv, ForkInv,
     WaitLockInv, InWait, Forks, Holding
<1>9. ASSUME NEW p \in Slot, ForkRun(p) PROVE WakeupInv'
  BY <1>9 DEF ForkRun, Goto, TypeOK, WakeupInv, StateInv, ForkInv,
     WaitLockInv, InWait, Forks, Holding
<1>10. ASSUME NEW p \in Slot, CallExit(p) PROVE WakeupInv'
  BY <1>10 DEF CallExit, Goto, TypeOK, WakeupInv, StateInv, InWait
<1>11. ASSUME NEW p \in Slot, ExitLock(p) PROVE WakeupInv'
  BY <1>11 DEF ExitLock, Goto, TypeOK, WakeupInv, StateInv, InWait
<1>12. ASSUME NEW p \in Slot, Reparent(p) PROVE WakeupInv'
  BY <1>12 DEF Reparent, Goto, TypeOK, WakeupInv, StateInv, LoopInv,
     WaitLockInv, InitProcInv, InWait, Holding, Leaving
<1>13. ASSUME NEW p \in Slot, WakeInit(p) PROVE WakeupInv'
  BY <1>13 DEF WakeInit, Wakeup, Goto, TypeOK, WakeupInv, StateInv,
     InitProcInv, WaitLockInv, InWait, Leaving, Holding
<1>14. ASSUME NEW p \in Slot, WakeParent(p) PROVE WakeupInv'
  BY <1>14 DEF WakeParent, Wakeup, Goto, TypeOK, WakeupInv, StateInv,
     InitProcInv, WaitLockInv, InWait, Leaving, Holding
<1>15. ASSUME NEW p \in Slot, Zombie(p) PROVE WakeupInv'
  BY <1>15 DEF Zombie, Lock, Goto, TypeOK, WakeupInv, StateInv, InWait
<1>16. ASSUME NEW p \in Slot, CallWait(p) PROVE WakeupInv'
  BY <1>16 DEF CallWait, Calls, Goto, TypeOK, WakeupInv, StateInv, InWait
<1>17. ASSUME NEW p \in Slot, WaitLock(p) PROVE WakeupInv'
  BY <1>17 DEF WaitLock, Goto, TypeOK, WakeupInv, StateInv, InWait
<1>18. ASSUME NEW p \in Slot, ScanNext(p) PROVE WakeupInv'
  BY <1>18 DEF ScanNext, TypeOK, WakeupInv, StateInv, InWait
<1>19. ASSUME NEW p \in Slot, Reap(p) PROVE WakeupInv'
  BY <1>19 DEF Reap, Free, Return, Goto, TypeOK, WakeupInv, StateInv,
     WaitLockInv, InWait, Holding
<1>20. ASSUME NEW p \in Slot, ReapFail(p) PROVE WakeupInv'
  BY <1>20 DEF ReapFail, Return, Goto, TypeOK, WakeupInv, StateInv, InWait
<1>21. ASSUME NEW p \in Slot, ScanEnd(p) PROVE WakeupInv'
  BY <1>21, ScanEndEffect DEF TypeOK, WakeupInv, StateInv, InWait
<1>22. ASSUME NEW p \in Slot, WaitSleep(p) PROVE WakeupInv'
  BY <1>22 DEF WaitSleep, SleepOn, Lock, Goto, TypeOK, WakeupInv, StateInv,
     WaitLockInv, InWait, Holding
<1>23. ASSUME NEW p \in Slot, NEW q \in Slot, Kill(p, q) PROVE WakeupInv'
  BY <1>23 DEF Kill, Calls, TypeOK, WakeupInv, StateInv, InWait
<1>24. CASE UNCHANGED vars
  BY <1>24 DEF vars, TypeOK, WakeupInv, InWait
<1>. QED BY <1>1, <1>2, <1>3, <1>4, <1>5, <1>6, <1>7, <1>8, <1>9, <1>10,
   <1>11, <1>12, <1>13, <1>14, <1>15, <1>16, <1>17, <1>18, <1>19, <1>20,
   <1>21, <1>22, <1>23, <1>24 DEF Next, Kernel, Trap, User, Switch, Forking,
   Exiting, Waiting

LEMMA ScanInvStep == ASSUME IInv, [Next]_vars PROVE ScanInv'
<1>. USE SlotFacts, LoopFacts DEF IInv, sched_vars, family
<1>1. ASSUME NEW p \in Slot, Schedule(p) PROVE ScanInv'
  BY <1>1, ScheduleEffect DEF TypeOK, ScanInv, StateInv, InWait
<1>2. ASSUME NEW p \in Slot, Resume(p) PROVE ScanInv'
  BY <1>2 DEF Resume, Goto, TypeOK, ScanInv, StateInv, InWait
<1>3. ASSUME NEW p \in Slot, Sched(p) PROVE ScanInv'
  BY <1>3 DEF Sched, Goto, TypeOK, ScanInv, StateInv, InWait
<1>4. ASSUME NEW p \in Slot, Yield(p) PROVE ScanInv'
  BY <1>4 DEF Yield, Lock, Goto, TypeOK, ScanInv, StateInv, InWait
<1>5. ASSUME NEW p \in Slot, NEW q \in Slot, Fork(p, q) PROVE ScanInv'
  BY <1>5 DEF Fork, Calls, Goto, TypeOK, ScanInv, StateInv, InWait
<1>6. ASSUME NEW p \in Slot, ForkFail(p) PROVE ScanInv'
  BY <1>6 DEF ForkFail, Free, Goto, TypeOK, ScanInv, ForkInv, InWait, Forks
<1>7. ASSUME NEW p \in Slot, ForkCopy(p) PROVE ScanInv'
  BY <1>7 DEF ForkCopy, Goto, TypeOK, ScanInv, StateInv, InWait
<1>8. ASSUME NEW p \in Slot, ForkParent(p) PROVE ScanInv'
  BY <1>8 DEF ForkParent, Goto, TypeOK, ScanInv, ForkInv, InWait, Forks
<1>9. ASSUME NEW p \in Slot, ForkRun(p) PROVE ScanInv'
  BY <1>9 DEF ForkRun, Goto, TypeOK, ScanInv, ForkInv, InWait, Forks
<1>10. ASSUME NEW p \in Slot, CallExit(p) PROVE ScanInv'
  BY <1>10 DEF CallExit, Goto, TypeOK, ScanInv, StateInv, InWait
<1>11. ASSUME NEW p \in Slot, ExitLock(p) PROVE ScanInv'
  BY <1>11 DEF ExitLock, Goto, TypeOK, ScanInv, StateInv, InWait
<1>12. ASSUME NEW p \in Slot, Reparent(p) PROVE ScanInv'
  BY <1>12 DEF Reparent, Goto, TypeOK, ScanInv, WaitLockInv, InWait, Holding
<1>13. ASSUME NEW p \in Slot, WakeInit(p) PROVE ScanInv'
  BY <1>13 DEF WakeInit, Wakeup, Goto, TypeOK, ScanInv, WaitLockInv,
     WakeupInv, LoopInv, InitProcInv, InWait, Holding, Leaving
<1>14. ASSUME NEW p \in Slot, WakeParent(p) PROVE ScanInv'
  BY <1>14 DEF WakeParent, Wakeup, Goto, TypeOK, ScanInv, StateInv, InWait
<1>15. ASSUME NEW p \in Slot, Zombie(p) PROVE ScanInv'
  BY <1>15 DEF Zombie, Lock, Goto, TypeOK, ScanInv, StateInv, WaitLockInv,
     WakeupInv, InWait, Holding
<1>16. ASSUME NEW p \in Slot, CallWait(p) PROVE ScanInv'
  BY <1>16 DEF CallWait, Calls, Goto, TypeOK, ScanInv, StateInv, InWait
<1>17. ASSUME NEW p \in Slot, WaitLock(p) PROVE ScanInv'
  BY <1>17 DEF WaitLock, Goto, TypeOK, ScanInv, LoopInv, WaitLockInv, InWait,
     Holding
<1>18. ASSUME NEW p \in Slot, ScanNext(p) PROVE ScanInv'
  <2>1. ASSUME NEW c \in Slot, parent[c] = p, state[c] = "ZOMBIE"
        PROVE  at[p] + 1 <= c
    <3>1. at[p] <= c /\ at[p] # c
      BY <1>18, <2>1 DEF ScanNext, ScanInv
    <3>2. at[p] \in Int /\ c \in Int
      BY DEF TypeOK
    <3>. QED BY <3>1, <3>2
  <2>. QED BY <1>18, <2>1 DEF ScanNext, TypeOK, ScanInv, InWait
<1>19. ASSUME NEW p \in Slot, Reap(p) PROVE ScanInv'
  BY <1>19 DEF Reap, Free, Return, Goto, TypeOK, ScanInv, StateInv,
     WaitLockInv, InWait, Holding
<1>20. ASSUME NEW p \in Slot, ReapFail(p) PROVE ScanInv'
  BY <1>20 DEF ReapFail, Return, Goto, TypeOK, ScanInv, StateInv,
     WaitLockInv, InWait, Holding
<1>21. ASSUME NEW p \in Slot, ScanEnd(p) PROVE ScanInv'
  BY <1>21, ScanEndEffect DEF TypeOK, ScanInv, StateInv, WaitLockInv, InWait,
     Holding
<1>22. ASSUME NEW p \in Slot, WaitSleep(p) PROVE ScanInv'
  BY <1>22 DEF WaitSleep, SleepOn, Lock, Goto, TypeOK, ScanInv, StateInv,
     WaitLockInv, InWait, Holding
<1>23. ASSUME NEW p \in Slot, NEW q \in Slot, Kill(p, q) PROVE ScanInv'
  BY <1>23 DEF Kill, Calls, TypeOK, ScanInv, StateInv, InWait
<1>24. CASE UNCHANGED vars
  BY <1>24 DEF vars, TypeOK, ScanInv, InWait
<1>. QED BY <1>1, <1>2, <1>3, <1>4, <1>5, <1>6, <1>7, <1>8, <1>9, <1>10,
   <1>11, <1>12, <1>13, <1>14, <1>15, <1>16, <1>17, <1>18, <1>19, <1>20,
   <1>21, <1>22, <1>23, <1>24 DEF Next, Kernel, Trap, User, Switch, Forking,
   Exiting, Waiting

(* It holds at the start, with init and its first child RUNNABLE. *)
LEMMA InitInv == Init => IInv
<1>. SUFFICES ASSUME Init PROVE IInv
  OBVIOUS
<1>. USE SlotFacts
<1>1. TypeOK
  BY LoopFacts, CpuFacts DEF Init, TypeOK
<1>2. CpuInv /\ StateInv /\ WaitLockInv
  BY DEF Init, CpuInv, StateInv, WaitLockInv, Holding
<1>3. LockInv /\ ForkInv /\ MakerInv
  BY DEF Init, LockInv, ForkInv, MakerInv, Switching, Forks
<1>4. LoopInv
  BY ProcAssumption DEF Init, LoopInv, Slot
<1>5. InitProcInv
  BY LoopFacts DEF Init, InitProcInv, Leaving
<1>6. FamilyInv
  BY ProcAssumption DEF Init, FamilyInv, Leaving, Slot, InitProc, None
<1>7. WakeupInv /\ ScanInv
  BY ProcAssumption DEF Init, WakeupInv, ScanInv, InWait, Slot
<1>. QED BY <1>1, <1>2, <1>3, <1>4, <1>5, <1>6, <1>7 DEF IInv

(* The invariant holds in every reachable state. *)
THEOREM Invariance == Spec => []IInv
<1>1. Init => IInv
  BY InitInv
<1>2. IInv /\ [Next]_vars => IInv'
  <2>. SUFFICES ASSUME IInv, [Next]_vars PROVE IInv'
    OBVIOUS
  <2>. QED
    BY TypeOKStep, CpuInvStep, StateInvStep, LockInvStep, WaitLockInvStep,
       ForkInvStep, MakerInvStep, LoopInvStep, InitProcInvStep, FamilyInvStep,
       WakeupInvStep, ScanInvStep DEF IInv
<1>. QED BY <1>1, <1>2, PTL DEF Spec

(* Every variable keeps its type. *)
THEOREM TypeCorrectness == Spec => []TypeOK
<1>1. IInv => TypeOK
  BY DEF IInv
<1>. QED BY <1>1, Invariance, PTL

(* No kernel stack is used by two CPUs, nor given away while one is on it. *)
THEOREM StackExclusion == Spec => []OneCpuPerStack
<1>1. IInv => OneCpuPerStack
  <2>. SUFFICES ASSUME IInv, NEW p \in Slot
                PROVE  /\ on[p] <= 1
                       /\ state[p] \in {"UNUSED", "USED"} => on[p] = 0
    BY DEF OneCpuPerStack
  <2>. QED BY DEF IInv, CpuInv, StateInv
<1>. QED BY <1>1, Invariance, PTL

(* sched() is entered with p->lock and no other spinlock, whatever called *)
(* it: none of its panics about locks and states can fire.                *)
THEOREM SwitchLocks == Spec => []SchedLocks
<1>1. IInv => SchedLocks
  <2>. SUFFICES ASSUME IInv, NEW p \in Slot, pc[p] = "sched"
                PROVE  /\ {q \in Slot : plock[q] = p} = {p} /\ wait_lock # p
                       /\ state[p] # "RUNNING"
    BY DEF SchedLocks
  <2>1. \A q \in Slot : plock[q] = p <=> q = p
    BY DEF IInv, LockInv, Switching
  <2>2. wait_lock # p /\ state[p] # "RUNNING"
    BY DEF IInv, WaitLockInv, StateInv, Holding
  <2>. QED BY <2>1, <2>2
<1>. QED BY <1>1, Invariance, PTL

(* A parent never sleeps on in wait() over a child that has exited: no     *)
(* wakeup() is lost between its scan and its sleep.                        *)
THEOREM WakeupsReachParents == Spec => []NoForgottenZombie
<1>1. IInv => NoForgottenZombie
  BY DEF IInv, ScanInv, InWait, NoForgottenZombie
<1>. QED BY <1>1, Invariance, PTL

(* Each process has a parent that is there to wait for it. *)
THEOREM OrphansAdopted == Spec => []NoOrphans
<1>1. IInv => NoOrphans
  <2>. SUFFICES ASSUME IInv, NEW p \in Slot \ {InitProc},
                       state[p] \notin {"UNUSED", "USED"}
                PROVE  /\ parent[p] # None
                       /\ state[parent[p]] \notin {"UNUSED", "USED", "ZOMBIE"}
    BY DEF NoOrphans
  <2>1. parent[p] # None
    BY DEF IInv, FamilyInv
  <2>2. parent[p] \in Slot
    BY <2>1 DEF IInv, TypeOK
  <2>. QED BY <2>1, <2>2 DEF IInv, FamilyInv
<1>. QED BY <1>1, Invariance, PTL
=============================================================================
