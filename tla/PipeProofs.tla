----------------------------- MODULE PipeProofs -----------------------------
(***************************************************************************)
(* Proofs about Pipe, for any number of processes and CPUs and any size of *)
(* the pipe: its types, no writer left asleep, no use of the pipe after it *)
(* is given back, and what alone can strand a reader.                      *)
(***************************************************************************)
EXTENDS Pipe, TLAPS

(* Labels: the calls on the pipe, those that hold pi->lock, the making of  *)
(* a child, the loops over proc[], and the labels of Proc.                 *)
Writing == {"write_lock", "pipewrite", "write_full", "write_done", "write_sleep"}
Reading == {"read_lock", "piperead", "read_sleep", "read_done"}
Holding == {"pipewrite", "write_full", "write_done", "write_sleep",
            "piperead", "read_sleep", "read_done", "closed_r", "closed_w"}
Forks == {"fork", "fork_parent", "fork_run"}
Loops == {"wake_init", "wake_parent", "write_full", "write_done", "read_done",
          "closed_r", "closed_w"}
ProcLabel == {"off", "resume", "sched", "user", "fork", "fork_parent", "fork_run",
              "exit", "reparent", "wake_init", "wake_parent", "zombie", "wait",
              "scan", "sleep"}

TypeInv ==
    /\ PipeTypeOK
    /\ state \in [Slot -> {"UNUSED", "USED", "SLEEPING", "RUNNABLE", "RUNNING",
                           "ZOMBIE"}]
    /\ pc \in [Slot -> ProcLabel \cup InPipe]
    /\ ret \in [Slot -> {"user", "wait", "dead", "exit", "write_lock", "read_lock"}]
    /\ at \in [Slot -> 1 .. NProc + 1]
    /\ np \in [Slot -> Slot \cup {None}]

(* Who runs in the kernel is RUNNING, and who has left it for good is not; *)
(* a child in the making is USED, and has one maker.                       *)
ThreadInv ==
    /\ \A p \in Slot : pc[p] \notin {"off", "sched"} => state[p] = "RUNNING"
    /\ \A p \in Slot : ret[p] = "dead" => state[p] \in {"UNUSED", "ZOMBIE"}
    /\ \A p \in Slot : pc[p] \in Forks <=> np[p] # None
    /\ \A p \in Slot : np[p] # None => state[np[p]] = "USED" /\ ret[np[p]] = "user"
    /\ \A p, q \in Slot : np[p] # None /\ np[p] = np[q] => p = q

LoopInv ==
    \A p \in Slot :
        /\ pc[p] \notin Loops \cup {"scan"} => at[p] = 1
        /\ at[p] = NProc + 1 => pc[p] = "scan"

PiLockInv == \A p \in Slot : pc[p] \in Holding <=> pi_lock = p

(* Who is in a call on an end of the pipe, or comes back to it from        *)
(* sleep(), has that end open, and an open end is marked so.               *)
EndsInv ==
    /\ \A p \in Slot : ofile[p] \subseteq open
    /\ \A p \in Slot : pc[p] \in Writing \/ ret[p] = "write_lock" => "w" \in ofile[p]
    /\ \A p \in Slot : pc[p] \in Reading \/ ret[p] = "read_lock" => "r" \in ofile[p]
    /\ \A p \in Slot : Asleep(p, ReadChan) => ret[p] = "read_lock"

(* pipeclose() is for the last who had the end, and comes once per end.    *)
ClosingInv ==
    /\ \A p, q \in Slot : pc[p] = "close_r" =>
          "r" \in open /\ "r" \notin ofile[q] /\ (pc[q] = "close_r" => q = p)
    /\ \A p, q \in Slot : pc[p] = "close_w" =>
          "w" \in open /\ "w" \notin ofile[q] /\ (pc[q] = "close_w" => q = p)
    /\ \A p \in Slot :
          pc[p] \in {"close_r", "close_w", "closed_r", "closed_w"} =>
              ret[p] \in {"user", "exit"}
    /\ freed => open = {} /\ pi_lock = None

(* What a caller has seen before it sleeps still holds. *)
SleepInv ==
    /\ \A p \in Slot : pc[p] \in {"write_full", "write_sleep"} =>
          unread = PipeSize /\ "r" \in open
    /\ \A p \in Slot : pc[p] = "read_sleep" => unread = 0 /\ "w" \in open

(* Whom the loop of wakeup() has passed does not sleep on its channel. *)
WakeInv ==
    /\ \A p \in Slot : Asleep(p, WriteChan) =>
          \/ unread = PipeSize /\ "r" \in open
          \/ \E h \in Slot : pi_lock = h /\ pc[h] \in {"read_done", "closed_r"} /\ at[h] <= p
    /\ \A p, h \in Slot :
          Asleep(p, ReadChan) /\ pc[h] \in {"write_full", "write_done", "closed_w"} =>
              at[h] <= p

(* The inductive invariant. *)
IInv ==
    /\ TypeInv /\ ThreadInv /\ LoopInv
    /\ PiLockInv /\ EndsInv /\ ClosingInv
    /\ SleepInv /\ WakeInv

(* What the proofs use of the numbers that name slots and channels. *)
LEMMA SlotFacts == None \notin Slot /\ InitProc \in Slot
BY ProcAssumption DEF None, Slot, InitProc

LEMMA LoopFacts ==
    /\ 1 \in 1 .. NProc + 1 /\ 1 # NProc + 1
    /\ NProc \in Slot /\ NProc + 1 \notin Slot
    /\ \A a \in 1 .. NProc + 1 : a # NProc + 1 => a \in Slot
    /\ \A a \in Slot : a + 1 \in 1 .. NProc + 1 /\ (a # NProc => a + 1 \in Slot)
BY ProcAssumption DEF Slot

LEMMA SlotRange == NProc \in Int /\ \A q \in Slot : q \in Int /\ 1 <= q /\ q <= NProc
BY ProcAssumption DEF Slot

LEMMA ChanFacts ==
    /\ ReadChan \notin Slot \cup {None} /\ WriteChan \notin Slot \cup {None}
    /\ ReadChan # WriteChan
    /\ Slot \cup {None, ReadChan, WriteChan} \subseteq 0 .. NProc + 2
BY ProcAssumption DEF ReadChan, WriteChan, Slot, None

(* An iteration of wakeup(ch): who sleeps on ch in the slot it is at does  *)
(* not sleep after it.                                                     *)
LEMMA WakeupEffect ==
    ASSUME TypeInv, ThreadInv, LoopInv,
           NEW p \in Slot, NEW ch, NEW label, pc[p] \in Loops,
           Wakeup(p, ch, label), chan' = chan
    PROVE  /\ at[p] \in Slot
           /\ state' \in [Slot -> {"UNUSED", "USED", "SLEEPING", "RUNNABLE",
                                   "RUNNING", "ZOMBIE"}]
           /\ \A q \in Slot : \/ state'[q] = state[q]
                              \/ state[q] = "SLEEPING" /\ state'[q] = "RUNNABLE"
           /\ ~(state'[at[p]] = "SLEEPING" /\ chan[at[p]] = ch)
           /\ \/ /\ at[p] = NProc
                 /\ at' = [at EXCEPT ![p] = 1] /\ pc' = [pc EXCEPT ![p] = label]
              \/ /\ at[p] # NProc
                 /\ at' = [at EXCEPT ![p] = at[p] + 1] /\ pc' = pc
<1>1. at[p] \in Slot /\ state[p] = "RUNNING"
  BY LoopFacts DEF TypeInv, LoopInv, ThreadInv, Loops
<1>2. \/ state' = state /\ ~(at[p] # p /\ state[at[p]] = "SLEEPING" /\ chan[at[p]] = ch)
      \/ /\ state[at[p]] = "SLEEPING"
         /\ state' = [state EXCEPT ![at[p]] = "RUNNABLE"]
  BY Zenon DEF Wakeup
<1>5. /\ state' \in [Slot -> {"UNUSED", "USED", "SLEEPING", "RUNNABLE",
                              "RUNNING", "ZOMBIE"}]
      /\ \A q \in Slot : \/ state'[q] = state[q]
                         \/ state[q] = "SLEEPING" /\ state'[q] = "RUNNABLE"
  BY <1>1, <1>2 DEF TypeInv
<1>6. ~(state'[at[p]] = "SLEEPING" /\ chan[at[p]] = ch)
  BY <1>1, <1>2 DEF TypeInv
<1>3. at[p] = NProc => /\ at' = [at EXCEPT ![p] = 1]
                       /\ pc' = [pc EXCEPT ![p] = label]
  BY DEF Wakeup, Goto
<1>4. at[p] # NProc => at' = [at EXCEPT ![p] = at[p] + 1] /\ pc' = pc
  BY DEF Wakeup, Goto, TypeInv
<1>. QED BY <1>1, <1>3, <1>4, <1>5, <1>6

(* Steps of proc.c: types. *)
LEMMA ProcTypes ==
    ASSUME IInv, NEW p \in Slot, ProcKernel(p) \/ ProcCall(p)
    PROVE  TypeInv'
<1>. USE SlotFacts, LoopFacts, ChanFacts DEF IInv, TypeInv, sched_vars, family
<1>1. CASE Schedule(p) /\ UNCHANGED <<ofile, pipe, left>>
  BY <1>1 DEF Schedule, Lock, Goto, PipeTypeOK, pipe, ProcLabel, ThreadInv,
     LoopInv, Loops
<1>2. CASE Resume(p) /\ UNCHANGED <<ofile, pipe, left>>
  <2>1. ret[p] \in {"user", "wait", "exit", "write_lock", "read_lock"}
    BY <1>2 DEF Resume, ThreadInv
  <2>2. pc' \in [Slot -> ProcLabel \cup InPipe]
    BY <1>2, <2>1 DEF Resume, Goto, ProcLabel, InPipe
  <2>. QED BY <1>2, <2>2 DEF Resume, PipeTypeOK, pipe
<1>3. CASE Sched(p) /\ UNCHANGED <<ofile, pipe, left>>
  BY <1>3 DEF Sched, Goto, PipeTypeOK, pipe, ProcLabel, ThreadInv, LoopInv,
     Loops
<1>4. CASE Yield(p) /\ UNCHANGED <<ofile, pipe, left>>
  BY <1>4 DEF Yield, Lock, Goto, PipeTypeOK, pipe, ProcLabel, ThreadInv,
     LoopInv, Loops
<1>5. ASSUME NEW q \in Slot, Fork(p, q), UNCHANGED <<ofile, pipe, left>>
      PROVE  TypeInv'
  BY <1>5 DEF Fork, Calls, Goto, PipeTypeOK, pipe, ProcLabel, ThreadInv,
     LoopInv, Loops
<1>6. CASE ForkFail(p) /\ UNCHANGED <<ofile, pipe, left>>
  BY <1>6 DEF ForkFail, Free, Goto, PipeTypeOK, pipe, ProcLabel, ThreadInv,
     LoopInv, Loops
<1>7. CASE /\ ForkCopy(p) /\ UNCHANGED <<pipe, left>>
           /\ ofile' = [ofile EXCEPT ![np[p]] = ofile[p]]
  BY <1>7 DEF ForkCopy, Goto, PipeTypeOK, pipe, ProcLabel, ThreadInv,
     LoopInv, Loops
<1>8. CASE ForkParent(p) /\ UNCHANGED <<ofile, pipe, left>>
  BY <1>8 DEF ForkParent, Goto, PipeTypeOK, pipe, ProcLabel, ThreadInv,
     LoopInv, Loops
<1>9. CASE ForkRun(p) /\ UNCHANGED <<ofile, pipe, left>>
  BY <1>9 DEF ForkRun, Goto, PipeTypeOK, pipe, ProcLabel, ThreadInv, LoopInv,
     Loops
<1>10. CASE CallExit(p) /\ UNCHANGED <<ofile, pipe, left>>
  BY <1>10 DEF CallExit, Goto, PipeTypeOK, pipe, ProcLabel, ThreadInv,
     LoopInv, Loops
<1>11. CASE ExitLock(p) /\ UNCHANGED <<ofile, pipe, left>>
  BY <1>11 DEF ExitLock, Goto, PipeTypeOK, pipe, ProcLabel, ThreadInv,
     LoopInv, Loops
<1>12. CASE Reparent(p) /\ UNCHANGED <<ofile, pipe, left>>
  BY <1>12 DEF Reparent, Goto, PipeTypeOK, pipe, ProcLabel, ThreadInv,
     LoopInv, Loops
<1>13. CASE WakeInit(p) /\ UNCHANGED <<ofile, pipe, left>>
  <2>1. pc[p] = "wake_init" /\ UNCHANGED <<chan, plock, on, ret, family, np>>
    BY <1>13 DEF WakeInit
  <2>2. pc[p] \in Loops
    BY <2>1 DEF Loops
  <2>3. Wakeup(p, InitProc, "wake_parent")
    BY <1>13 DEF WakeInit
  <2>. QED BY <1>13, <2>1, <2>2, <2>3, WakeupEffect DEF PipeTypeOK, pipe,
     ProcLabel, ThreadInv, LoopInv, Loops
<1>14. CASE WakeParent(p) /\ UNCHANGED <<ofile, pipe, left>>
  <2>1. pc[p] = "wake_parent" /\ UNCHANGED <<chan, plock, on, ret, family, np>>
    BY <1>14 DEF WakeParent
  <2>2. pc[p] \in Loops
    BY <2>1 DEF Loops
  <2>3. Wakeup(p, parent[p], "zombie")
    BY <1>14 DEF WakeParent
  <2>. QED BY <1>14, <2>1, <2>2, <2>3, WakeupEffect DEF PipeTypeOK, pipe,
     ProcLabel, ThreadInv, LoopInv, Loops
<1>15. CASE Zombie(p) /\ UNCHANGED <<ofile, pipe, left>>
  BY <1>15 DEF Zombie, Lock, Goto, PipeTypeOK, pipe, ProcLabel, ThreadInv,
     LoopInv, Loops
<1>16. CASE CallWait(p) /\ UNCHANGED <<ofile, pipe, left>>
  BY <1>16 DEF CallWait, Calls, Goto, PipeTypeOK, pipe, ProcLabel, ThreadInv,
     LoopInv, Loops
<1>17. CASE WaitLock(p) /\ UNCHANGED <<ofile, pipe, left>>
  BY <1>17 DEF WaitLock, Goto, PipeTypeOK, pipe, ProcLabel, ThreadInv,
     LoopInv, Loops
<1>18. CASE ScanNext(p) /\ UNCHANGED <<ofile, pipe, left>>
  BY <1>18 DEF ScanNext, PipeTypeOK, pipe, ProcLabel, ThreadInv, LoopInv,
     Loops
<1>19. CASE Reap(p) /\ UNCHANGED <<ofile, pipe, left>>
  BY <1>19 DEF Reap, Free, Return, Goto, PipeTypeOK, pipe, ProcLabel,
     ThreadInv, LoopInv, Loops
<1>20. CASE ReapFail(p) /\ UNCHANGED <<ofile, pipe, left>>
  BY <1>20 DEF ReapFail, Return, Goto, PipeTypeOK, pipe, ProcLabel,
     ThreadInv, LoopInv, Loops
<1>21. CASE ScanEnd(p) /\ UNCHANGED <<ofile, pipe, left>>
  BY <1>21 DEF ScanEnd, Return, Goto, PipeTypeOK, pipe, ProcLabel, ThreadInv,
     LoopInv, Loops
<1>22. CASE WaitSleep(p) /\ UNCHANGED <<ofile, pipe, left>>
  BY <1>22 DEF WaitSleep, SleepOn, Lock, Goto, PipeTypeOK, pipe, ProcLabel,
     ThreadInv, LoopInv, Loops
<1>23. ASSUME NEW q \in Slot, Kill(p, q), UNCHANGED <<ofile, pipe, left>>
      PROVE  TypeInv'
  BY <1>23 DEF Kill, Calls, PipeTypeOK, pipe, ProcLabel, ThreadInv, LoopInv,
     Loops
<1>. QED BY <1>1, <1>2, <1>3, <1>4, <1>5, <1>6, <1>7, <1>8, <1>9, <1>10,
   <1>11, <1>12, <1>13, <1>14, <1>15, <1>16, <1>17, <1>18, <1>19, <1>20,
   <1>21, <1>22, <1>23 DEF ProcKernel, ProcCall, Trap, User, Switch, Forking,
   Exiting, Waiting

(* Threads, and children in the making. *)
LEMMA ProcThreads ==
    ASSUME IInv, NEW p \in Slot, ProcKernel(p) \/ ProcCall(p)
    PROVE  ThreadInv'
<1>. USE SlotFacts DEF IInv, TypeInv, sched_vars, family
<1>1. CASE Schedule(p) /\ UNCHANGED <<ofile, pipe, left>>
  BY <1>1 DEF Schedule, Lock, Goto, ThreadInv, Forks
<1>2. CASE Resume(p) /\ UNCHANGED <<ofile, pipe, left>>
  BY <1>2 DEF Resume, Goto, ThreadInv, Forks
<1>3. CASE Sched(p) /\ UNCHANGED <<ofile, pipe, left>>
  BY <1>3 DEF Sched, Goto, ThreadInv, Forks
<1>4. CASE Yield(p) /\ UNCHANGED <<ofile, pipe, left>>
  BY <1>4 DEF Yield, Lock, Goto, ThreadInv, Forks
<1>5. ASSUME NEW q \in Slot, Fork(p, q), UNCHANGED <<ofile, pipe, left>>
      PROVE  ThreadInv'
  BY <1>5 DEF Fork, Calls, Goto, ThreadInv, Forks
<1>6. CASE ForkFail(p) /\ UNCHANGED <<ofile, pipe, left>>
  BY <1>6 DEF ForkFail, Free, Goto, ThreadInv, Forks
<1>7. CASE /\ ForkCopy(p) /\ UNCHANGED <<pipe, left>>
           /\ ofile' = [ofile EXCEPT ![np[p]] = ofile[p]]
  BY <1>7 DEF ForkCopy, Goto, ThreadInv, Forks
<1>8. CASE ForkParent(p) /\ UNCHANGED <<ofile, pipe, left>>
  BY <1>8 DEF ForkParent, Goto, ThreadInv, Forks
<1>9. CASE ForkRun(p) /\ UNCHANGED <<ofile, pipe, left>>
  BY <1>9 DEF ForkRun, Goto, ThreadInv, Forks
<1>10. CASE CallExit(p) /\ UNCHANGED <<ofile, pipe, left>>
  BY <1>10 DEF CallExit, Goto, ThreadInv, Forks
<1>11. CASE ExitLock(p) /\ UNCHANGED <<ofile, pipe, left>>
  BY <1>11 DEF ExitLock, Goto, ThreadInv, Forks
<1>12. CASE Reparent(p) /\ UNCHANGED <<ofile, pipe, left>>
  BY <1>12 DEF Reparent, Goto, ThreadInv, Forks
<1>13. CASE WakeInit(p) /\ UNCHANGED <<ofile, pipe, left>>
  <2>1. pc[p] = "wake_init" /\ UNCHANGED <<chan, plock, on, ret, family, np>>
    BY <1>13 DEF WakeInit
  <2>2. pc[p] \in Loops
    BY <2>1 DEF Loops
  <2>3. Wakeup(p, InitProc, "wake_parent")
    BY <1>13 DEF WakeInit
  <2>. QED BY <1>13, <2>1, <2>2, <2>3, WakeupEffect DEF ThreadInv, Forks
<1>14. CASE WakeParent(p) /\ UNCHANGED <<ofile, pipe, left>>
  <2>1. pc[p] = "wake_parent" /\ UNCHANGED <<chan, plock, on, ret, family, np>>
    BY <1>14 DEF WakeParent
  <2>2. pc[p] \in Loops
    BY <2>1 DEF Loops
  <2>3. Wakeup(p, parent[p], "zombie")
    BY <1>14 DEF WakeParent
  <2>. QED BY <1>14, <2>1, <2>2, <2>3, WakeupEffect DEF ThreadInv, Forks
<1>15. CASE Zombie(p) /\ UNCHANGED <<ofile, pipe, left>>
  BY <1>15 DEF Zombie, Lock, Goto, ThreadInv, Forks
<1>16. CASE CallWait(p) /\ UNCHANGED <<ofile, pipe, left>>
  BY <1>16 DEF CallWait, Calls, Goto, ThreadInv, Forks
<1>17. CASE WaitLock(p) /\ UNCHANGED <<ofile, pipe, left>>
  BY <1>17 DEF WaitLock, Goto, ThreadInv, Forks
<1>18. CASE ScanNext(p) /\ UNCHANGED <<ofile, pipe, left>>
  BY <1>18 DEF ScanNext, ThreadInv, Forks
<1>19. CASE Reap(p) /\ UNCHANGED <<ofile, pipe, left>>
  BY <1>19 DEF Reap, Free, Return, Goto, ThreadInv, Forks
<1>20. CASE ReapFail(p) /\ UNCHANGED <<ofile, pipe, left>>
  BY <1>20 DEF ReapFail, Return, Goto, ThreadInv, Forks
<1>21. CASE ScanEnd(p) /\ UNCHANGED <<ofile, pipe, left>>
  BY <1>21 DEF ScanEnd, Return, Goto, ThreadInv, Forks
<1>22. CASE WaitSleep(p) /\ UNCHANGED <<ofile, pipe, left>>
  BY <1>22 DEF WaitSleep, SleepOn, Lock, Goto, ThreadInv, Forks
<1>23. ASSUME NEW q \in Slot, Kill(p, q), UNCHANGED <<ofile, pipe, left>>
      PROVE  ThreadInv'
  BY <1>23 DEF Kill, Calls, ThreadInv, Forks
<1>. QED BY <1>1, <1>2, <1>3, <1>4, <1>5, <1>6, <1>7, <1>8, <1>9, <1>10,
   <1>11, <1>12, <1>13, <1>14, <1>15, <1>16, <1>17, <1>18, <1>19, <1>20,
   <1>21, <1>22, <1>23 DEF ProcKernel, ProcCall, Trap, User, Switch, Forking,
   Exiting, Waiting

(* The loops over proc[] start at its beginning. *)
LEMMA ProcLoops ==
    ASSUME IInv, NEW p \in Slot, ProcKernel(p) \/ ProcCall(p)
    PROVE  LoopInv'
<1>. USE SlotFacts, LoopFacts DEF IInv, TypeInv, sched_vars, family
<1>1. CASE Schedule(p) /\ UNCHANGED <<ofile, pipe, left>>
  BY <1>1 DEF Schedule, Lock, Goto, LoopInv, ThreadInv, Loops
<1>2. CASE Resume(p) /\ UNCHANGED <<ofile, pipe, left>>
  BY <1>2 DEF Resume, Goto, LoopInv, ThreadInv, Loops
<1>3. CASE Sched(p) /\ UNCHANGED <<ofile, pipe, left>>
  BY <1>3 DEF Sched, Goto, LoopInv, ThreadInv, Loops
<1>4. CASE Yield(p) /\ UNCHANGED <<ofile, pipe, left>>
  BY <1>4 DEF Yield, Lock, Goto, LoopInv, ThreadInv, Loops
<1>5. ASSUME NEW q \in Slot, Fork(p, q), UNCHANGED <<ofile, pipe, left>>
      PROVE  LoopInv'
  BY <1>5 DEF Fork, Calls, Goto, LoopInv, ThreadInv, Loops
<1>6. CASE ForkFail(p) /\ UNCHANGED <<ofile, pipe, left>>
  BY <1>6 DEF ForkFail, Free, Goto, LoopInv, ThreadInv, Loops
<1>7. CASE /\ ForkCopy(p) /\ UNCHANGED <<pipe, left>>
           /\ ofile' = [ofile EXCEPT ![np[p]] = ofile[p]]
  BY <1>7 DEF ForkCopy, Goto, LoopInv, ThreadInv, Loops
<1>8. CASE ForkParent(p) /\ UNCHANGED <<ofile, pipe, left>>
  BY <1>8 DEF ForkParent, Goto, LoopInv, ThreadInv, Loops
<1>9. CASE ForkRun(p) /\ UNCHANGED <<ofile, pipe, left>>
  BY <1>9 DEF ForkRun, Goto, LoopInv, ThreadInv, Loops
<1>10. CASE CallExit(p) /\ UNCHANGED <<ofile, pipe, left>>
  BY <1>10 DEF CallExit, Goto, LoopInv, ThreadInv, Loops
<1>11. CASE ExitLock(p) /\ UNCHANGED <<ofile, pipe, left>>
  BY <1>11 DEF ExitLock, Goto, LoopInv, ThreadInv, Loops
<1>12. CASE Reparent(p) /\ UNCHANGED <<ofile, pipe, left>>
  BY <1>12 DEF Reparent, Goto, LoopInv, ThreadInv, Loops
<1>13. CASE WakeInit(p) /\ UNCHANGED <<ofile, pipe, left>>
  <2>1. pc[p] = "wake_init" /\ UNCHANGED <<chan, plock, on, ret, family, np>>
    BY <1>13 DEF WakeInit
  <2>2. pc[p] \in Loops
    BY <2>1 DEF Loops
  <2>3. Wakeup(p, InitProc, "wake_parent")
    BY <1>13 DEF WakeInit
  <2>. QED BY <1>13, <2>1, <2>2, <2>3, WakeupEffect DEF LoopInv, ThreadInv,
     Loops
<1>14. CASE WakeParent(p) /\ UNCHANGED <<ofile, pipe, left>>
  <2>1. pc[p] = "wake_parent" /\ UNCHANGED <<chan, plock, on, ret, family, np>>
    BY <1>14 DEF WakeParent
  <2>2. pc[p] \in Loops
    BY <2>1 DEF Loops
  <2>3. Wakeup(p, parent[p], "zombie")
    BY <1>14 DEF WakeParent
  <2>. QED BY <1>14, <2>1, <2>2, <2>3, WakeupEffect DEF LoopInv, ThreadInv,
     Loops
<1>15. CASE Zombie(p) /\ UNCHANGED <<ofile, pipe, left>>
  BY <1>15 DEF Zombie, Lock, Goto, LoopInv, ThreadInv, Loops
<1>16. CASE CallWait(p) /\ UNCHANGED <<ofile, pipe, left>>
  BY <1>16 DEF CallWait, Calls, Goto, LoopInv, ThreadInv, Loops
<1>17. CASE WaitLock(p) /\ UNCHANGED <<ofile, pipe, left>>
  BY <1>17 DEF WaitLock, Goto, LoopInv, ThreadInv, Loops
<1>18. CASE ScanNext(p) /\ UNCHANGED <<ofile, pipe, left>>
  BY <1>18 DEF ScanNext, LoopInv, ThreadInv, Loops
<1>19. CASE Reap(p) /\ UNCHANGED <<ofile, pipe, left>>
  BY <1>19 DEF Reap, Free, Return, Goto, LoopInv, ThreadInv, Loops
<1>20. CASE ReapFail(p) /\ UNCHANGED <<ofile, pipe, left>>
  BY <1>20 DEF ReapFail, Return, Goto, LoopInv, ThreadInv, Loops
<1>21. CASE ScanEnd(p) /\ UNCHANGED <<ofile, pipe, left>>
  BY <1>21 DEF ScanEnd, Return, Goto, LoopInv, ThreadInv, Loops
<1>22. CASE WaitSleep(p) /\ UNCHANGED <<ofile, pipe, left>>
  BY <1>22 DEF WaitSleep, SleepOn, Lock, Goto, LoopInv, ThreadInv, Loops
<1>23. ASSUME NEW q \in Slot, Kill(p, q), UNCHANGED <<ofile, pipe, left>>
      PROVE  LoopInv'
  BY <1>23 DEF Kill, Calls, LoopInv, ThreadInv, Loops
<1>. QED BY <1>1, <1>2, <1>3, <1>4, <1>5, <1>6, <1>7, <1>8, <1>9, <1>10,
   <1>11, <1>12, <1>13, <1>14, <1>15, <1>16, <1>17, <1>18, <1>19, <1>20,
   <1>21, <1>22, <1>23 DEF ProcKernel, ProcCall, Trap, User, Switch, Forking,
   Exiting, Waiting


(* What a step of p in proc.c leaves alone: the pipe, where the others     *)
(* are, and who sleeps on the pipe, except that he may be woken.           *)
Apart(p) ==
    /\ UNCHANGED <<pipe, left>>
    /\ \A q \in Slot : q # p => pc'[q] = pc[q] /\ at'[q] = at[q]
    /\ pc[p] \notin InPipe
    /\ pc'[p] \in ProcLabel \/ pc'[p] = ret[p]
    /\ \A q \in Slot : \/ ret'[q] = ret[q]
                       \/ /\ q = p \/ state[q] = "UNUSED"
                          /\ ret'[q] \in {"user", "wait", "dead"}
    /\ \A q \in Slot :
          Asleep(q, ReadChan)' => Asleep(q, ReadChan) /\ ret'[q] = ret[q]
    /\ \A q \in Slot : Asleep(q, WriteChan)' => Asleep(q, WriteChan)
    /\ \/ ofile' = ofile
       \/ /\ np[p] # None /\ ofile' = [ofile EXCEPT ![np[p]] = ofile[p]]
          /\ ret' = ret /\ pc' = [pc EXCEPT ![p] = "fork_parent"]


LEMMA ProcFrame ==
    ASSUME IInv, NEW p \in Slot, ProcKernel(p) \/ ProcCall(p)
    PROVE  Apart(p)
<1>. USE SlotFacts, ChanFacts DEF IInv, TypeInv, sched_vars, family
<1>1. CASE Schedule(p) /\ UNCHANGED <<ofile, pipe, left>>
  BY <1>1 DEF Schedule, Lock, Goto, Apart, Asleep, PipeTypeOK, ProcLabel,
     InPipe, ThreadInv, LoopInv, pipe, Forks
<1>2. CASE Resume(p) /\ UNCHANGED <<ofile, pipe, left>>
  BY <1>2 DEF Resume, Goto, Apart, Asleep, PipeTypeOK, ProcLabel, InPipe,
     ThreadInv, LoopInv, pipe, Forks
<1>3. CASE Sched(p) /\ UNCHANGED <<ofile, pipe, left>>
  BY <1>3 DEF Sched, Goto, Apart, Asleep, PipeTypeOK, ProcLabel, InPipe,
     ThreadInv, LoopInv, pipe, Forks
<1>4. CASE Yield(p) /\ UNCHANGED <<ofile, pipe, left>>
  BY <1>4 DEF Yield, Lock, Goto, Apart, Asleep, PipeTypeOK, ProcLabel,
     InPipe, ThreadInv, LoopInv, pipe, Forks
<1>5. ASSUME NEW q \in Slot, Fork(p, q), UNCHANGED <<ofile, pipe, left>>
      PROVE  Apart(p)
  BY <1>5 DEF Fork, Calls, Goto, Apart, Asleep, PipeTypeOK, ProcLabel,
     InPipe, ThreadInv, LoopInv, pipe, Forks
<1>6. CASE ForkFail(p) /\ UNCHANGED <<ofile, pipe, left>>
  BY <1>6 DEF ForkFail, Free, Goto, Apart, Asleep, PipeTypeOK, ProcLabel,
     InPipe, ThreadInv, LoopInv, pipe, Forks
<1>7. CASE /\ ForkCopy(p) /\ UNCHANGED <<pipe, left>>
           /\ ofile' = [ofile EXCEPT ![np[p]] = ofile[p]]
  BY <1>7 DEF ForkCopy, Goto, Apart, Asleep, PipeTypeOK, ProcLabel, InPipe,
     ThreadInv, LoopInv, pipe, Forks
<1>8. CASE ForkParent(p) /\ UNCHANGED <<ofile, pipe, left>>
  BY <1>8 DEF ForkParent, Goto, Apart, Asleep, PipeTypeOK, ProcLabel, InPipe,
     ThreadInv, LoopInv, pipe, Forks
<1>9. CASE ForkRun(p) /\ UNCHANGED <<ofile, pipe, left>>
  BY <1>9 DEF ForkRun, Goto, Apart, Asleep, PipeTypeOK, ProcLabel, InPipe,
     ThreadInv, LoopInv, pipe, Forks
<1>10. CASE CallExit(p) /\ UNCHANGED <<ofile, pipe, left>>
  BY <1>10 DEF CallExit, Goto, Apart, Asleep, PipeTypeOK, ProcLabel, InPipe,
     ThreadInv, LoopInv, pipe, Forks
<1>11. CASE ExitLock(p) /\ UNCHANGED <<ofile, pipe, left>>
  BY <1>11 DEF ExitLock, Goto, Apart, Asleep, PipeTypeOK, ProcLabel, InPipe,
     ThreadInv, LoopInv, pipe, Forks
<1>12. CASE Reparent(p) /\ UNCHANGED <<ofile, pipe, left>>
  BY <1>12 DEF Reparent, Goto, Apart, Asleep, PipeTypeOK, ProcLabel, InPipe,
     ThreadInv, LoopInv, pipe, Forks
<1>13. CASE WakeInit(p) /\ UNCHANGED <<ofile, pipe, left>>
  <2>1. pc[p] = "wake_init" /\ UNCHANGED <<chan, plock, on, ret, family, np>>
    BY <1>13 DEF WakeInit
  <2>2. pc[p] \in Loops
    BY <2>1 DEF Loops
  <2>3. Wakeup(p, InitProc, "wake_parent")
    BY <1>13 DEF WakeInit
  <2>. QED BY <1>13, <2>1, <2>2, <2>3, WakeupEffect DEF Apart, Asleep,
     PipeTypeOK, ProcLabel, InPipe, ThreadInv, LoopInv, pipe, Forks
<1>14. CASE WakeParent(p) /\ UNCHANGED <<ofile, pipe, left>>
  <2>1. pc[p] = "wake_parent" /\ UNCHANGED <<chan, plock, on, ret, family, np>>
    BY <1>14 DEF WakeParent
  <2>2. pc[p] \in Loops
    BY <2>1 DEF Loops
  <2>3. Wakeup(p, parent[p], "zombie")
    BY <1>14 DEF WakeParent
  <2>. QED BY <1>14, <2>1, <2>2, <2>3, WakeupEffect DEF Apart, Asleep,
     PipeTypeOK, ProcLabel, InPipe, ThreadInv, LoopInv, pipe, Forks
<1>15. CASE Zombie(p) /\ UNCHANGED <<ofile, pipe, left>>
  BY <1>15 DEF Zombie, Lock, Goto, Apart, Asleep, PipeTypeOK, ProcLabel,
     InPipe, ThreadInv, LoopInv, pipe, Forks
<1>16. CASE CallWait(p) /\ UNCHANGED <<ofile, pipe, left>>
  BY <1>16 DEF CallWait, Calls, Goto, Apart, Asleep, PipeTypeOK, ProcLabel,
     InPipe, ThreadInv, LoopInv, pipe, Forks
<1>17. CASE WaitLock(p) /\ UNCHANGED <<ofile, pipe, left>>
  BY <1>17 DEF WaitLock, Goto, Apart, Asleep, PipeTypeOK, ProcLabel, InPipe,
     ThreadInv, LoopInv, pipe, Forks
<1>18. CASE ScanNext(p) /\ UNCHANGED <<ofile, pipe, left>>
  BY <1>18 DEF ScanNext, Apart, Asleep, PipeTypeOK, ProcLabel, InPipe,
     ThreadInv, LoopInv, pipe, Forks
<1>19. CASE Reap(p) /\ UNCHANGED <<ofile, pipe, left>>
  BY <1>19 DEF Reap, Free, Return, Goto, Apart, Asleep, PipeTypeOK,
     ProcLabel, InPipe, ThreadInv, LoopInv, pipe, Forks
<1>20. CASE ReapFail(p) /\ UNCHANGED <<ofile, pipe, left>>
  BY <1>20 DEF ReapFail, Return, Goto, Apart, Asleep, PipeTypeOK, ProcLabel,
     InPipe, ThreadInv, LoopInv, pipe, Forks
<1>21. CASE ScanEnd(p) /\ UNCHANGED <<ofile, pipe, left>>
  BY <1>21 DEF ScanEnd, Return, Goto, Apart, Asleep, PipeTypeOK, ProcLabel,
     InPipe, ThreadInv, LoopInv, pipe, Forks
<1>22. CASE WaitSleep(p) /\ UNCHANGED <<ofile, pipe, left>>
  BY <1>22 DEF WaitSleep, SleepOn, Lock, Goto, Apart, Asleep, PipeTypeOK,
     ProcLabel, InPipe, ThreadInv, LoopInv, pipe, Forks
<1>23. ASSUME NEW q \in Slot, Kill(p, q), UNCHANGED <<ofile, pipe, left>>
      PROVE  Apart(p)
  BY <1>23 DEF Kill, Calls, Apart, Asleep, PipeTypeOK, ProcLabel, InPipe,
     ThreadInv, LoopInv, pipe, Forks
<1>. QED BY <1>1, <1>2, <1>3, <1>4, <1>5, <1>6, <1>7, <1>8, <1>9, <1>10,
   <1>11, <1>12, <1>13, <1>14, <1>15, <1>16, <1>17, <1>18, <1>19, <1>20,
   <1>21, <1>22, <1>23 DEF ProcKernel, ProcCall, Trap, User, Switch, Forking,
   Exiting, Waiting

(* A step of proc.c goes on in pipe.c only where sleep() has been called. *)
LEMMA ProcLabels ==
    ASSUME IInv, NEW p \in Slot, ProcKernel(p) \/ ProcCall(p)
    PROVE  /\ \A q \in Slot : pc'[q] \in InPipe \cup Forks =>
                 \/ pc'[q] = pc[q] /\ q # p
                 \/ q = p /\ pc'[p] = ret[p] /\ ret[p] \in {"write_lock", "read_lock"}
                 \/ q = p /\ pc'[p] \in Forks
           /\ pc[p] \notin InPipe
           /\ UNCHANGED <<pipe, left>>
<1>1. Apart(p) /\ TypeInv'
  BY ProcFrame, ProcTypes
<1>2. pc'[p] \in InPipe => pc'[p] = ret[p] /\ ret[p] \in {"write_lock", "read_lock"}
  BY <1>1 DEF Apart, IInv, TypeInv, ProcLabel, InPipe
<1>. QED BY <1>1, <1>2 DEF Apart

LEMMA ProcPiLock ==
    ASSUME IInv, NEW p \in Slot, ProcKernel(p) \/ ProcCall(p)
    PROVE  PiLockInv'
<1>1. ASSUME NEW q \in Slot, pc'[q] \in Holding PROVE pc'[q] = pc[q]
  BY <1>1, ProcLabels DEF Holding, InPipe, Forks
<1>2. ASSUME NEW q \in Slot, pc[q] \in Holding PROVE pc'[q] = pc[q]
  <2>1. pc[q] \in InPipe
    BY <1>2 DEF Holding, InPipe
  <2>. QED BY <2>1, ProcFrame DEF Apart
<1>. QED BY <1>1, <1>2, ProcLabels DEF IInv, PiLockInv, pipe

LEMMA ProcEnds ==
    ASSUME IInv, NEW p \in Slot, ProcKernel(p) \/ ProcCall(p)
    PROVE  EndsInv'
<1>. USE DEF IInv, EndsInv
<1>1. /\ Apart(p) /\ open' = open /\ ofile \in [Slot -> SUBSET End]
      /\ np \in [Slot -> Slot \cup {None}]
  BY ProcFrame, ProcLabels DEF pipe, TypeInv, PipeTypeOK
<1>2. ASSUME NEW q \in Slot
      PROVE  /\ pc'[q] \in Writing => pc[q] \in Writing \/ ret[q] = "write_lock"
             /\ pc'[q] \in Reading => pc[q] \in Reading \/ ret[q] = "read_lock"
             /\ ret'[q] = "write_lock" => ret[q] = "write_lock"
             /\ ret'[q] = "read_lock" => ret[q] = "read_lock"
  BY <1>1, ProcLabels DEF Apart, Writing, Reading, InPipe, Forks
<1>3. CASE ofile' = ofile
  BY <1>1, <1>2, <1>3 DEF Apart
<1>4. CASE /\ np[p] # None /\ ofile' = [ofile EXCEPT ![np[p]] = ofile[p]]
           /\ ret' = ret /\ pc' = [pc EXCEPT ![p] = "fork_parent"]
  <2>1. /\ np[p] \in Slot /\ state[np[p]] = "USED" /\ ret[np[p]] = "user"
        /\ pc[np[p]] \notin Writing \cup Reading
    BY <1>1, <1>4 DEF ThreadInv, Writing, Reading
  <2>2. \A q \in Slot : ofile'[q] = IF q = np[p] THEN ofile[p] ELSE ofile[q]
    BY <1>1, <1>4, <2>1
  <2>. QED BY <1>1, <1>2, <1>4, <2>1, <2>2 DEF Apart
<1>. QED BY <1>1, <1>3, <1>4 DEF Apart

LEMMA ProcClosing ==
    ASSUME IInv, NEW p \in Slot, ProcKernel(p) \/ ProcCall(p)
    PROVE  ClosingInv'
<1>. USE DEF IInv, ClosingInv
<1>1. /\ Apart(p) /\ UNCHANGED <<open, freed, pi_lock>>
      /\ ofile \in [Slot -> SUBSET End] /\ np \in [Slot -> Slot \cup {None}]
  BY ProcFrame, ProcLabels DEF pipe, TypeInv, PipeTypeOK
<1>2. ASSUME NEW q \in Slot, pc'[q] \in {"close_r", "close_w", "closed_r", "closed_w"}
      PROVE  pc'[q] = pc[q]
  BY <1>2, ProcLabels DEF InPipe, Forks
<1>3. ASSUME NEW e, NEW q \in Slot, \A r \in Slot : e \notin ofile[r]
      PROVE  e \notin ofile'[q]
  BY <1>1, <1>3 DEF Apart
<1>4. ASSUME NEW q \in Slot, pc'[q] \in {"close_r", "close_w", "closed_r", "closed_w"}
      PROVE  ret'[q] \in {"user", "exit"}
  <2>1. q # p /\ pc[q] \in {"close_r", "close_w", "closed_r", "closed_w"}
    BY <1>2, <1>4, ProcLabels DEF InPipe
  <2>2. state[q] = "RUNNING"
    BY <2>1 DEF ThreadInv
  <2>. QED BY <1>1, <2>1, <2>2 DEF Apart
<1>. QED BY <1>1, <1>2, <1>3, <1>4

LEMMA ProcSleep ==
    ASSUME IInv, NEW p \in Slot, ProcKernel(p) \/ ProcCall(p)
    PROVE  SleepInv'
<1>1. ASSUME NEW q \in Slot, pc'[q] \in {"write_full", "write_sleep", "read_sleep"}
      PROVE  pc'[q] = pc[q]
  BY <1>1, ProcLabels DEF InPipe, Forks
<1>. QED BY <1>1, ProcLabels DEF IInv, SleepInv, pipe

LEMMA ProcWake ==
    ASSUME IInv, NEW p \in Slot, ProcKernel(p) \/ ProcCall(p)
    PROVE  WakeInv'
<1>. USE DEF IInv, WakeInv
<1>1. Apart(p) /\ UNCHANGED <<unread, open, pi_lock>>
  BY ProcFrame, ProcLabels DEF pipe
<1>2. \A q \in Slot : pc[q] \in {"read_done", "closed_r"} => pc'[q] = pc[q] /\ at'[q] = at[q]
  BY <1>1 DEF Apart, InPipe
<1>3. \A q \in Slot : pc'[q] \in {"write_full", "write_done", "closed_w"} =>
          pc'[q] = pc[q] /\ at'[q] = at[q]
  BY <1>1, ProcLabels DEF Apart, InPipe, Forks
<1>. QED BY <1>1, <1>2, <1>3 DEF Apart


LEMMA PipeFacts ==
    /\ 0 \in 0 .. PipeSize /\ 0 \in 0 .. MaxWrite
    /\ 1 .. MaxWrite \subseteq 0 .. MaxWrite
    /\ \A u \in 0 .. PipeSize : u < PipeSize => u + 1 \in 0 .. PipeSize
    /\ \A u \in 0 .. PipeSize : \A k \in 0 .. u : u - k \in 0 .. PipeSize
    /\ \A n \in 0 .. MaxWrite : n > 0 => n - 1 \in 0 .. MaxWrite
BY PipeAssumption


(* What an iteration of wakeup(ch) under pi->lock does, on the way to      *)
(* label; pipewrite() keeps the lock when it is going to sleep.            *)
Waking(p, ch, label) ==
    /\ at[p] \in Slot
    /\ state' \in [Slot -> {"UNUSED", "USED", "SLEEPING", "RUNNABLE", "RUNNING",
                            "ZOMBIE"}]
    /\ \A q \in Slot : \/ state'[q] = state[q]
                       \/ state[q] = "SLEEPING" /\ state'[q] = "RUNNABLE"
    /\ ~(state'[at[p]] = "SLEEPING" /\ chan[at[p]] = ch)
    /\ UNCHANGED <<chan, ret, np, ofile, unread, open, left>>
    /\ \/ /\ at[p] = NProc
          /\ at' = [at EXCEPT ![p] = 1] /\ pc' = [pc EXCEPT ![p] = label]
          /\ pi_lock' = IF label = "write_sleep" THEN pi_lock ELSE None
       \/ /\ at[p] # NProc
          /\ at' = [at EXCEPT ![p] = at[p] + 1]
          /\ UNCHANGED <<pc, pi_lock>>

LEMMA WakingEffect ==
    ASSUME TypeInv, ThreadInv, LoopInv, ClosingInv, NEW p \in Slot,
           WriteWake(p) \/ ReadWake(p) \/ CloseWake(p)
    PROVE  \/ pc[p] = "write_full" /\ Waking(p, ReadChan, "write_sleep") /\ freed' = freed
           \/ pc[p] = "write_done" /\ Waking(p, ReadChan, "user") /\ freed' = freed
           \/ pc[p] = "read_done" /\ Waking(p, WriteChan, "user") /\ freed' = freed
           \/ /\ pc[p] = "closed_w" /\ ret[p] \in {"user", "exit"}
              /\ Waking(p, ReadChan, ret[p])
              /\ freed' = (freed \/ (pi_lock' = None /\ open = {}))
           \/ /\ pc[p] = "closed_r" /\ ret[p] \in {"user", "exit"}
              /\ Waking(p, WriteChan, ret[p])
              /\ freed' = (freed \/ (pi_lock' = None /\ open = {}))
<1>0. pc \in [Slot -> ProcLabel \cup InPipe]
  BY DEF TypeInv
<1>1. CASE /\ pc[p] = "write_full" /\ Wakeup(p, ReadChan, "write_sleep")
           /\ UNCHANGED <<chan, plock, on, ret, family, np, ofile, pipe, left>>
  <2>1. pc[p] \in Loops /\ chan' = chan
    BY <1>1 DEF Loops
  <2>. QED BY <1>1, <2>1, WakeupEffect DEF Waking, pipe
<1>2. ASSUME NEW ch, NEW label, label \in {"user", "exit"},
             pc[p] \in {"write_done", "read_done", "closed_r", "closed_w"},
             WakeAndUnlock(p, ch, label), UNCHANGED left
      PROVE  Waking(p, ch, label)
  <2>1. pc[p] \in Loops /\ Wakeup(p, ch, label) /\ chan' = chan
    BY <1>2 DEF Loops, WakeAndUnlock
  <2>2. /\ at[p] = NProc => pi_lock' = None
        /\ at[p] # NProc => pi_lock' = pi_lock
    BY <1>0, <1>2, <2>1, WakeupEffect DEF WakeAndUnlock
  <2>3. UNCHANGED <<chan, ret, np, ofile, unread, open, left>>
    BY <1>2 DEF WakeAndUnlock
  <2>. QED BY <1>2, <2>1, <2>2, <2>3, WakeupEffect DEF Waking
<1>3. CASE WriteWake(p)
  BY <1>1, <1>2, <1>3 DEF WriteWake, pipe
<1>4. CASE ReadWake(p)
  BY <1>2, <1>4 DEF ReadWake
<1>5. CASE CloseWake(p)
  BY <1>2, <1>5 DEF CloseWake, ClosingInv
<1>. QED BY <1>3, <1>4, <1>5

LEMMA FileCloseEffect ==
    ASSUME NEW p \in Slot, NEW e \in End, NEW label, FileClose(p, e, label)
    PROVE  /\ e \in ofile[p]
           /\ ofile' = [ofile EXCEPT ![p] = @ \ {e}]
           /\ ret' = [ret EXCEPT ![p] = label]
           /\ UNCHANGED <<at, pipe, left, state, chan, plock, on, family, np>>
           /\ \/ pc' = [pc EXCEPT ![p] = label]
              \/ /\ \A q \in Slot \ {p} : e \notin ofile[q]
                 /\ \/ e = "r" /\ pc' = [pc EXCEPT ![p] = "close_r"]
                    \/ e = "w" /\ pc' = [pc EXCEPT ![p] = "close_w"]
<1>1. CASE \E q \in Slot \ {p} : e \in ofile[q]
  BY <1>1 DEF FileClose, Goto, Quiet
<1>2. CASE ~\E q \in Slot \ {p} : e \in ofile[q]
  BY <1>2 DEF FileClose, Goto, Quiet, End
<1>. QED BY <1>1, <1>2

LEMMA PipeCloseEffect ==
    ASSUME NEW p \in Slot, PipeClose(p)
    PROVE  /\ pi_lock = None /\ pi_lock' = p
           /\ \/ /\ pc[p] = "close_r" /\ open' = open \ {"r"}
                 /\ pc' = [pc EXCEPT ![p] = "closed_r"]
              \/ /\ pc[p] = "close_w" /\ open' = open \ {"w"}
                 /\ pc' = [pc EXCEPT ![p] = "closed_w"]
           /\ UNCHANGED <<ret, at, ofile, unread, freed, left>>
           /\ UNCHANGED <<state, chan, plock, on, family, np>>
<1>1. CASE pc[p] = "close_r"
  BY <1>1 DEF PipeClose, PiLock, Goto, Quiet
<1>2. CASE pc[p] = "close_w"
  BY <1>2 DEF PipeClose, PiLock, Goto, Quiet
<1>. QED BY <1>1, <1>2 DEF PipeClose

(* Steps of pipe.c: types. *)
LEMMA PipeTypes ==
    ASSUME IInv, NEW p \in Slot, PipeKernel(p) \/ PipeUser(p)
    PROVE  TypeInv'
<1>. USE SlotFacts, LoopFacts, ChanFacts, PipeFacts DEF IInv, TypeInv,
   PipeTypeOK, pipe
<1>1. ASSUME NEW n \in 1 .. MaxWrite, CallWrite(p, n) PROVE TypeInv'
  BY <1>1 DEF CallWrite, Calls, PiLock, Goto, Quiet, ProcLabel, InPipe,
     LoopInv
<1>2. CASE WriteLock(p)
  BY <1>2 DEF WriteLock, PiLock, Goto, Quiet, ProcLabel, InPipe, LoopInv
<1>3. CASE WriteByte(p)
  BY <1>3 DEF WriteByte, Broken, Quiet, ProcLabel, InPipe, LoopInv
<1>4. CASE WriteBroken(p)
  BY <1>4 DEF WriteBroken, Broken, Goto, Quiet, ProcLabel, InPipe, LoopInv
<1>5. CASE WriteFull(p)
  BY <1>5 DEF WriteFull, Broken, Goto, Quiet, ProcLabel, InPipe, LoopInv
<1>6. CASE WriteDone(p)
  BY <1>6 DEF WriteDone, Goto, Quiet, ProcLabel, InPipe, LoopInv
<1>7. CASE WriteSleep(p)
  BY <1>7 DEF WriteSleep, SleepOn, Lock, Goto, ProcLabel, InPipe, LoopInv
<1>8. CASE CallRead(p)
  BY <1>8 DEF CallRead, Calls, PiLock, Goto, Quiet, ProcLabel, InPipe,
     LoopInv
<1>9. CASE ReadKilled(p)
  BY <1>9 DEF ReadKilled, Goto, Quiet, ProcLabel, InPipe, LoopInv
<1>10. CASE ReadWait(p)
  BY <1>10 DEF ReadWait, Waits, Goto, Quiet, ProcLabel, InPipe, LoopInv
<1>11. CASE ReadSleep(p)
  BY <1>11 DEF ReadSleep, SleepOn, Lock, Goto, ProcLabel, InPipe, LoopInv
<1>12. ASSUME NEW k \in 0 .. PipeSize, ReadCopy(p, k) PROVE TypeInv'
  BY <1>12 DEF ReadCopy, Waits, Goto, Quiet, ProcLabel, InPipe, LoopInv
<1>13. ASSUME NEW e \in End, NEW label \in {"user", "exit"}, pc[p] = label,
             FileClose(p, e, label)
      PROVE  TypeInv'
  <2>1. ofile' \in [Slot -> SUBSET End]
    BY <1>13, FileCloseEffect
  <2>2. pc' \in [Slot -> ProcLabel \cup InPipe]
    BY <1>13, FileCloseEffect DEF ProcLabel, InPipe
  <2>3. ret' \in [Slot -> {"user", "wait", "dead", "exit", "write_lock", "read_lock"}]
    BY <1>13, FileCloseEffect
  <2>. QED BY <1>13, <2>1, <2>2, <2>3, FileCloseEffect
<1>14. CASE PipeClose(p)
  BY <1>14, PipeCloseEffect DEF ProcLabel, InPipe, LoopInv
<1>15. CASE pc[p] = "write_full" /\ Waking(p, ReadChan, "write_sleep") /\ freed' = freed
  BY <1>15 DEF Waking, ProcLabel, InPipe, LoopInv
<1>16. CASE pc[p] = "write_done" /\ Waking(p, ReadChan, "user") /\ freed' = freed
  BY <1>16 DEF Waking, ProcLabel, InPipe, LoopInv
<1>17. CASE pc[p] = "read_done" /\ Waking(p, WriteChan, "user") /\ freed' = freed
  <2>1. pc' \in [Slot -> ProcLabel \cup InPipe]
    BY <1>17 DEF Waking, ProcLabel, InPipe
  <2>2. at' \in [Slot -> 1 .. NProc + 1]
    BY <1>17 DEF Waking
  <2>. QED BY <1>17, <2>1, <2>2 DEF Waking
<1>18. CASE /\ pc[p] = "closed_w" /\ ret[p] \in {"user", "exit"}
           /\ Waking(p, ReadChan, ret[p])
           /\ freed' = (freed \/ (pi_lock' = None /\ open = {}))
  BY <1>18 DEF Waking, ProcLabel, InPipe, LoopInv
<1>19. CASE /\ pc[p] = "closed_r" /\ ret[p] \in {"user", "exit"}
           /\ Waking(p, WriteChan, ret[p])
           /\ freed' = (freed \/ (pi_lock' = None /\ open = {}))
  BY <1>19 DEF Waking, ProcLabel, InPipe, LoopInv
<1>w. CASE WriteWake(p) \/ ReadWake(p) \/ CloseWake(p)
  BY <1>w, <1>15, <1>16, <1>17, <1>18, <1>19, WakingEffect
<1>. QED BY <1>1, <1>2, <1>3, <1>4, <1>5, <1>6, <1>7, <1>8, <1>9, <1>10,
   <1>11, <1>12, <1>13, <1>14, <1>w DEF PipeKernel, PipeUser, CallClose,
   ExitClose, Calls

(* Threads and children in the making are left alone. *)
LEMMA PipeThreads ==
    ASSUME IInv, NEW p \in Slot, PipeKernel(p) \/ PipeUser(p)
    PROVE  ThreadInv'
<1>. USE SlotFacts DEF IInv, TypeInv, PipeTypeOK, pipe
<1>1. ASSUME NEW n \in 1 .. MaxWrite, CallWrite(p, n) PROVE ThreadInv'
  BY <1>1 DEF CallWrite, Calls, PiLock, Goto, Quiet, ThreadInv, Forks,
     InPipe, family, EndsInv
<1>2. CASE WriteLock(p)
  BY <1>2 DEF WriteLock, PiLock, Goto, Quiet, ThreadInv, Forks, InPipe,
     family, EndsInv
<1>3. CASE WriteByte(p)
  BY <1>3 DEF WriteByte, Broken, Quiet, ThreadInv, Forks, InPipe, family,
     EndsInv
<1>4. CASE WriteBroken(p)
  BY <1>4 DEF WriteBroken, Broken, Goto, Quiet, ThreadInv, Forks, InPipe,
     family, EndsInv
<1>5. CASE WriteFull(p)
  BY <1>5 DEF WriteFull, Broken, Goto, Quiet, ThreadInv, Forks, InPipe,
     family, EndsInv
<1>6. CASE WriteDone(p)
  BY <1>6 DEF WriteDone, Goto, Quiet, ThreadInv, Forks, InPipe, family,
     EndsInv
<1>7. CASE WriteSleep(p)
  BY <1>7 DEF WriteSleep, SleepOn, Lock, Goto, ThreadInv, Forks, InPipe,
     family, EndsInv
<1>8. CASE CallRead(p)
  BY <1>8 DEF CallRead, Calls, PiLock, Goto, Quiet, ThreadInv, Forks, InPipe,
     family, EndsInv
<1>9. CASE ReadKilled(p)
  BY <1>9 DEF ReadKilled, Goto, Quiet, ThreadInv, Forks, InPipe, family,
     EndsInv
<1>10. CASE ReadWait(p)
  BY <1>10 DEF ReadWait, Waits, Goto, Quiet, ThreadInv, Forks, InPipe,
     family, EndsInv
<1>11. CASE ReadSleep(p)
  BY <1>11 DEF ReadSleep, SleepOn, Lock, Goto, ThreadInv, Forks, InPipe,
     family, EndsInv
<1>12. ASSUME NEW k \in 0 .. PipeSize, ReadCopy(p, k) PROVE ThreadInv'
  BY <1>12 DEF ReadCopy, Waits, Goto, Quiet, ThreadInv, Forks, InPipe,
     family, EndsInv
<1>13. ASSUME NEW e \in End, NEW label \in {"user", "exit"}, pc[p] = label,
             FileClose(p, e, label)
      PROVE  ThreadInv'
  BY <1>13, FileCloseEffect DEF End, ThreadInv, Forks, InPipe, family,
     EndsInv
<1>14. CASE PipeClose(p)
  BY <1>14, PipeCloseEffect DEF ThreadInv, Forks, InPipe, family, EndsInv
<1>15. CASE pc[p] = "write_full" /\ Waking(p, ReadChan, "write_sleep") /\ freed' = freed
  BY <1>15 DEF Waking, ThreadInv, Forks, InPipe, family, EndsInv
<1>16. CASE pc[p] = "write_done" /\ Waking(p, ReadChan, "user") /\ freed' = freed
  BY <1>16 DEF Waking, ThreadInv, Forks, InPipe, family, EndsInv
<1>17. CASE pc[p] = "read_done" /\ Waking(p, WriteChan, "user") /\ freed' = freed
  BY <1>17 DEF Waking, ThreadInv, Forks, InPipe, family, EndsInv
<1>18. CASE /\ pc[p] = "closed_w" /\ ret[p] \in {"user", "exit"}
           /\ Waking(p, ReadChan, ret[p])
           /\ freed' = (freed \/ (pi_lock' = None /\ open = {}))
  BY <1>18 DEF Waking, ThreadInv, Forks, InPipe, family, EndsInv
<1>19. CASE /\ pc[p] = "closed_r" /\ ret[p] \in {"user", "exit"}
           /\ Waking(p, WriteChan, ret[p])
           /\ freed' = (freed \/ (pi_lock' = None /\ open = {}))
  BY <1>19 DEF Waking, ThreadInv, Forks, InPipe, family, EndsInv
<1>w. CASE WriteWake(p) \/ ReadWake(p) \/ CloseWake(p)
  BY <1>w, <1>15, <1>16, <1>17, <1>18, <1>19, WakingEffect
<1>. QED BY <1>1, <1>2, <1>3, <1>4, <1>5, <1>6, <1>7, <1>8, <1>9, <1>10,
   <1>11, <1>12, <1>13, <1>14, <1>w DEF PipeKernel, PipeUser, CallClose,
   ExitClose, Calls

(* The loops of wakeup() start at the first slot. *)
LEMMA PipeLoops ==
    ASSUME IInv, NEW p \in Slot, PipeKernel(p) \/ PipeUser(p)
    PROVE  LoopInv'
<1>. USE SlotFacts, LoopFacts DEF IInv, TypeInv, PipeTypeOK, pipe
<1>1. ASSUME NEW n \in 1 .. MaxWrite, CallWrite(p, n) PROVE LoopInv'
  BY <1>1 DEF CallWrite, Calls, PiLock, Goto, Quiet, LoopInv, Loops
<1>2. CASE WriteLock(p)
  BY <1>2 DEF WriteLock, PiLock, Goto, Quiet, LoopInv, Loops
<1>3. CASE WriteByte(p)
  BY <1>3 DEF WriteByte, Broken, Quiet, LoopInv, Loops
<1>4. CASE WriteBroken(p)
  BY <1>4 DEF WriteBroken, Broken, Goto, Quiet, LoopInv, Loops
<1>5. CASE WriteFull(p)
  BY <1>5 DEF WriteFull, Broken, Goto, Quiet, LoopInv, Loops
<1>6. CASE WriteDone(p)
  BY <1>6 DEF WriteDone, Goto, Quiet, LoopInv, Loops
<1>7. CASE WriteSleep(p)
  BY <1>7 DEF WriteSleep, SleepOn, Lock, Goto, LoopInv, Loops
<1>8. CASE CallRead(p)
  BY <1>8 DEF CallRead, Calls, PiLock, Goto, Quiet, LoopInv, Loops
<1>9. CASE ReadKilled(p)
  BY <1>9 DEF ReadKilled, Goto, Quiet, LoopInv, Loops
<1>10. CASE ReadWait(p)
  BY <1>10 DEF ReadWait, Waits, Goto, Quiet, LoopInv, Loops
<1>11. CASE ReadSleep(p)
  BY <1>11 DEF ReadSleep, SleepOn, Lock, Goto, LoopInv, Loops
<1>12. ASSUME NEW k \in 0 .. PipeSize, ReadCopy(p, k) PROVE LoopInv'
  BY <1>12 DEF ReadCopy, Waits, Goto, Quiet, LoopInv, Loops
<1>13. ASSUME NEW e \in End, NEW label \in {"user", "exit"}, pc[p] = label,
             FileClose(p, e, label)
      PROVE  LoopInv'
  BY <1>13, FileCloseEffect DEF End, LoopInv, Loops
<1>14. CASE PipeClose(p)
  BY <1>14, PipeCloseEffect DEF LoopInv, Loops
<1>15. CASE pc[p] = "write_full" /\ Waking(p, ReadChan, "write_sleep") /\ freed' = freed
  BY <1>15 DEF Waking, LoopInv, Loops
<1>16. CASE pc[p] = "write_done" /\ Waking(p, ReadChan, "user") /\ freed' = freed
  BY <1>16 DEF Waking, LoopInv, Loops
<1>17. CASE pc[p] = "read_done" /\ Waking(p, WriteChan, "user") /\ freed' = freed
  BY <1>17 DEF Waking, LoopInv, Loops
<1>18. CASE /\ pc[p] = "closed_w" /\ ret[p] \in {"user", "exit"}
           /\ Waking(p, ReadChan, ret[p])
           /\ freed' = (freed \/ (pi_lock' = None /\ open = {}))
  BY <1>18 DEF Waking, LoopInv, Loops
<1>19. CASE /\ pc[p] = "closed_r" /\ ret[p] \in {"user", "exit"}
           /\ Waking(p, WriteChan, ret[p])
           /\ freed' = (freed \/ (pi_lock' = None /\ open = {}))
  BY <1>19 DEF Waking, LoopInv, Loops
<1>w. CASE WriteWake(p) \/ ReadWake(p) \/ CloseWake(p)
  BY <1>w, <1>15, <1>16, <1>17, <1>18, <1>19, WakingEffect
<1>. QED BY <1>1, <1>2, <1>3, <1>4, <1>5, <1>6, <1>7, <1>8, <1>9, <1>10,
   <1>11, <1>12, <1>13, <1>14, <1>w DEF PipeKernel, PipeUser, CallClose,
   ExitClose, Calls

(* Who holds pi->lock. *)
LEMMA PipePiLock ==
    ASSUME IInv, NEW p \in Slot, PipeKernel(p) \/ PipeUser(p)
    PROVE  PiLockInv'
<1>. USE SlotFacts DEF IInv, TypeInv, PipeTypeOK, pipe
<1>1. ASSUME NEW n \in 1 .. MaxWrite, CallWrite(p, n) PROVE PiLockInv'
  BY <1>1 DEF CallWrite, Calls, PiLock, Goto, Quiet, PiLockInv, Holding
<1>2. CASE WriteLock(p)
  BY <1>2 DEF WriteLock, PiLock, Goto, Quiet, PiLockInv, Holding
<1>3. CASE WriteByte(p)
  BY <1>3 DEF WriteByte, Broken, Quiet, PiLockInv, Holding
<1>4. CASE WriteBroken(p)
  BY <1>4 DEF WriteBroken, Broken, Goto, Quiet, PiLockInv, Holding
<1>5. CASE WriteFull(p)
  BY <1>5 DEF WriteFull, Broken, Goto, Quiet, PiLockInv, Holding
<1>6. CASE WriteDone(p)
  BY <1>6 DEF WriteDone, Goto, Quiet, PiLockInv, Holding
<1>7. CASE WriteSleep(p)
  BY <1>7 DEF WriteSleep, SleepOn, Lock, Goto, PiLockInv, Holding
<1>8. CASE CallRead(p)
  BY <1>8 DEF CallRead, Calls, PiLock, Goto, Quiet, PiLockInv, Holding
<1>9. CASE ReadKilled(p)
  BY <1>9 DEF ReadKilled, Goto, Quiet, PiLockInv, Holding
<1>10. CASE ReadWait(p)
  BY <1>10 DEF ReadWait, Waits, Goto, Quiet, PiLockInv, Holding
<1>11. CASE ReadSleep(p)
  BY <1>11 DEF ReadSleep, SleepOn, Lock, Goto, PiLockInv, Holding
<1>12. ASSUME NEW k \in 0 .. PipeSize, ReadCopy(p, k) PROVE PiLockInv'
  BY <1>12 DEF ReadCopy, Waits, Goto, Quiet, PiLockInv, Holding
<1>13. ASSUME NEW e \in End, NEW label \in {"user", "exit"}, pc[p] = label,
             FileClose(p, e, label)
      PROVE  PiLockInv'
  BY <1>13, FileCloseEffect DEF End, PiLockInv, Holding
<1>14. CASE PipeClose(p)
  BY <1>14, PipeCloseEffect DEF PiLockInv, Holding
<1>15. CASE pc[p] = "write_full" /\ Waking(p, ReadChan, "write_sleep") /\ freed' = freed
  BY <1>15 DEF Waking, PiLockInv, Holding
<1>16. CASE pc[p] = "write_done" /\ Waking(p, ReadChan, "user") /\ freed' = freed
  BY <1>16 DEF Waking, PiLockInv, Holding
<1>17. CASE pc[p] = "read_done" /\ Waking(p, WriteChan, "user") /\ freed' = freed
  BY <1>17 DEF Waking, PiLockInv, Holding
<1>18. CASE /\ pc[p] = "closed_w" /\ ret[p] \in {"user", "exit"}
           /\ Waking(p, ReadChan, ret[p])
           /\ freed' = (freed \/ (pi_lock' = None /\ open = {}))
  BY <1>18 DEF Waking, PiLockInv, Holding
<1>19. CASE /\ pc[p] = "closed_r" /\ ret[p] \in {"user", "exit"}
           /\ Waking(p, WriteChan, ret[p])
           /\ freed' = (freed \/ (pi_lock' = None /\ open = {}))
  BY <1>19 DEF Waking, PiLockInv, Holding
<1>w. CASE WriteWake(p) \/ ReadWake(p) \/ CloseWake(p)
  BY <1>w, <1>15, <1>16, <1>17, <1>18, <1>19, WakingEffect
<1>. QED BY <1>1, <1>2, <1>3, <1>4, <1>5, <1>6, <1>7, <1>8, <1>9, <1>10,
   <1>11, <1>12, <1>13, <1>14, <1>w DEF PipeKernel, PipeUser, CallClose,
   ExitClose, Calls

(* Who has which end open. *)
LEMMA PipeEnds ==
    ASSUME IInv, NEW p \in Slot, PipeKernel(p) \/ PipeUser(p)
    PROVE  EndsInv'
<1>. USE SlotFacts, ChanFacts DEF IInv, TypeInv, PipeTypeOK, pipe
<1>1. ASSUME NEW n \in 1 .. MaxWrite, CallWrite(p, n) PROVE EndsInv'
  BY <1>1 DEF CallWrite, Calls, PiLock, Goto, Quiet, EndsInv, Writing,
     Reading, ThreadInv, Asleep
<1>2. CASE WriteLock(p)
  BY <1>2 DEF WriteLock, PiLock, Goto, Quiet, EndsInv, Writing, Reading,
     ThreadInv, Asleep
<1>3. CASE WriteByte(p)
  BY <1>3 DEF WriteByte, Broken, Quiet, EndsInv, Writing, Reading, ThreadInv,
     Asleep
<1>4. CASE WriteBroken(p)
  BY <1>4 DEF WriteBroken, Broken, Goto, Quiet, EndsInv, Writing, Reading,
     ThreadInv, Asleep
<1>5. CASE WriteFull(p)
  BY <1>5 DEF WriteFull, Broken, Goto, Quiet, EndsInv, Writing, Reading,
     ThreadInv, Asleep
<1>6. CASE WriteDone(p)
  BY <1>6 DEF WriteDone, Goto, Quiet, EndsInv, Writing, Reading, ThreadInv,
     Asleep
<1>7. CASE WriteSleep(p)
  BY <1>7 DEF WriteSleep, SleepOn, Lock, Goto, EndsInv, Writing, Reading,
     ThreadInv, Asleep
<1>8. CASE CallRead(p)
  BY <1>8 DEF CallRead, Calls, PiLock, Goto, Quiet, EndsInv, Writing,
     Reading, ThreadInv, Asleep
<1>9. CASE ReadKilled(p)
  BY <1>9 DEF ReadKilled, Goto, Quiet, EndsInv, Writing, Reading, ThreadInv,
     Asleep
<1>10. CASE ReadWait(p)
  BY <1>10 DEF ReadWait, Waits, Goto, Quiet, EndsInv, Writing, Reading,
     ThreadInv, Asleep
<1>11. CASE ReadSleep(p)
  BY <1>11 DEF ReadSleep, SleepOn, Lock, Goto, EndsInv, Writing, Reading,
     ThreadInv, Asleep
<1>12. ASSUME NEW k \in 0 .. PipeSize, ReadCopy(p, k) PROVE EndsInv'
  BY <1>12 DEF ReadCopy, Waits, Goto, Quiet, EndsInv, Writing, Reading,
     ThreadInv, Asleep
<1>13. ASSUME NEW e \in End, NEW label \in {"user", "exit"}, pc[p] = label,
             FileClose(p, e, label)
      PROVE  EndsInv'
  BY <1>13, FileCloseEffect DEF End, EndsInv, Writing, Reading, ThreadInv,
     Asleep
<1>14. CASE PipeClose(p)
  <2>1. \A q \in Slot : ofile'[q] \subseteq open'
    BY <1>14, PipeCloseEffect DEF EndsInv, ClosingInv
  <2>. QED BY <1>14, <2>1, PipeCloseEffect DEF EndsInv, Writing, Reading,
     Asleep
<1>15. CASE pc[p] = "write_full" /\ Waking(p, ReadChan, "write_sleep") /\ freed' = freed
  BY <1>15 DEF Waking, EndsInv, Writing, Reading, ThreadInv, Asleep
<1>16. CASE pc[p] = "write_done" /\ Waking(p, ReadChan, "user") /\ freed' = freed
  BY <1>16 DEF Waking, EndsInv, Writing, Reading, ThreadInv, Asleep
<1>17. CASE pc[p] = "read_done" /\ Waking(p, WriteChan, "user") /\ freed' = freed
  BY <1>17 DEF Waking, EndsInv, Writing, Reading, ThreadInv, Asleep
<1>18. CASE /\ pc[p] = "closed_w" /\ ret[p] \in {"user", "exit"}
           /\ Waking(p, ReadChan, ret[p])
           /\ freed' = (freed \/ (pi_lock' = None /\ open = {}))
  BY <1>18 DEF Waking, EndsInv, Writing, Reading, ThreadInv, Asleep
<1>19. CASE /\ pc[p] = "closed_r" /\ ret[p] \in {"user", "exit"}
           /\ Waking(p, WriteChan, ret[p])
           /\ freed' = (freed \/ (pi_lock' = None /\ open = {}))
  BY <1>19 DEF Waking, EndsInv, Writing, Reading, ThreadInv, Asleep
<1>w. CASE WriteWake(p) \/ ReadWake(p) \/ CloseWake(p)
  BY <1>w, <1>15, <1>16, <1>17, <1>18, <1>19, WakingEffect
<1>. QED BY <1>1, <1>2, <1>3, <1>4, <1>5, <1>6, <1>7, <1>8, <1>9, <1>10,
   <1>11, <1>12, <1>13, <1>14, <1>w DEF PipeKernel, PipeUser, CallClose,
   ExitClose, Calls

(* The last close of each end. *)
LEMMA PipeClosing ==
    ASSUME IInv, NEW p \in Slot, PipeKernel(p) \/ PipeUser(p)
    PROVE  ClosingInv'
<1>. USE SlotFacts DEF IInv, TypeInv, PipeTypeOK, pipe
<1>1. ASSUME NEW n \in 1 .. MaxWrite, CallWrite(p, n) PROVE ClosingInv'
  BY <1>1 DEF CallWrite, Calls, PiLock, Goto, Quiet, ClosingInv, PiLockInv,
     EndsInv, Holding, Writing, Reading
<1>2. CASE WriteLock(p)
  BY <1>2 DEF WriteLock, PiLock, Goto, Quiet, ClosingInv, PiLockInv, EndsInv,
     Holding, Writing, Reading
<1>3. CASE WriteByte(p)
  BY <1>3 DEF WriteByte, Broken, Quiet, ClosingInv, PiLockInv, EndsInv,
     Holding, Writing, Reading
<1>4. CASE WriteBroken(p)
  BY <1>4 DEF WriteBroken, Broken, Goto, Quiet, ClosingInv, PiLockInv,
     EndsInv, Holding, Writing, Reading
<1>5. CASE WriteFull(p)
  BY <1>5 DEF WriteFull, Broken, Goto, Quiet, ClosingInv, PiLockInv, EndsInv,
     Holding, Writing, Reading
<1>6. CASE WriteDone(p)
  BY <1>6 DEF WriteDone, Goto, Quiet, ClosingInv, PiLockInv, EndsInv,
     Holding, Writing, Reading
<1>7. CASE WriteSleep(p)
  BY <1>7 DEF WriteSleep, SleepOn, Lock, Goto, ClosingInv, PiLockInv,
     EndsInv, Holding, Writing, Reading
<1>8. CASE CallRead(p)
  BY <1>8 DEF CallRead, Calls, PiLock, Goto, Quiet, ClosingInv, PiLockInv,
     EndsInv, Holding, Writing, Reading
<1>9. CASE ReadKilled(p)
  BY <1>9 DEF ReadKilled, Goto, Quiet, ClosingInv, PiLockInv, EndsInv,
     Holding, Writing, Reading
<1>10. CASE ReadWait(p)
  BY <1>10 DEF ReadWait, Waits, Goto, Quiet, ClosingInv, PiLockInv, EndsInv,
     Holding, Writing, Reading
<1>11. CASE ReadSleep(p)
  BY <1>11 DEF ReadSleep, SleepOn, Lock, Goto, ClosingInv, PiLockInv,
     EndsInv, Holding, Writing, Reading
<1>12. ASSUME NEW k \in 0 .. PipeSize, ReadCopy(p, k) PROVE ClosingInv'
  BY <1>12 DEF ReadCopy, Waits, Goto, Quiet, ClosingInv, PiLockInv, EndsInv,
     Holding, Writing, Reading
<1>13. ASSUME NEW e \in End, NEW label \in {"user", "exit"}, pc[p] = label,
             FileClose(p, e, label)
      PROVE  ClosingInv'
  BY <1>13, FileCloseEffect DEF End, ClosingInv, PiLockInv, EndsInv, Holding,
     Writing, Reading
<1>14. CASE PipeClose(p)
  BY <1>14, PipeCloseEffect DEF ClosingInv, PiLockInv, EndsInv, Holding,
     Writing, Reading
<1>15. CASE pc[p] = "write_full" /\ Waking(p, ReadChan, "write_sleep") /\ freed' = freed
  BY <1>15 DEF Waking, ClosingInv, PiLockInv, EndsInv, Holding, Writing,
     Reading
<1>16. CASE pc[p] = "write_done" /\ Waking(p, ReadChan, "user") /\ freed' = freed
  BY <1>16 DEF Waking, ClosingInv, PiLockInv, EndsInv, Holding, Writing,
     Reading
<1>17. CASE pc[p] = "read_done" /\ Waking(p, WriteChan, "user") /\ freed' = freed
  BY <1>17 DEF Waking, ClosingInv, PiLockInv, EndsInv, Holding, Writing,
     Reading
<1>18. CASE /\ pc[p] = "closed_w" /\ ret[p] \in {"user", "exit"}
           /\ Waking(p, ReadChan, ret[p])
           /\ freed' = (freed \/ (pi_lock' = None /\ open = {}))
  BY <1>18 DEF Waking, ClosingInv, PiLockInv, EndsInv, Holding, Writing,
     Reading
<1>19. CASE /\ pc[p] = "closed_r" /\ ret[p] \in {"user", "exit"}
           /\ Waking(p, WriteChan, ret[p])
           /\ freed' = (freed \/ (pi_lock' = None /\ open = {}))
  BY <1>19 DEF Waking, ClosingInv, PiLockInv, EndsInv, Holding, Writing,
     Reading
<1>w. CASE WriteWake(p) \/ ReadWake(p) \/ CloseWake(p)
  BY <1>w, <1>15, <1>16, <1>17, <1>18, <1>19, WakingEffect
<1>. QED BY <1>1, <1>2, <1>3, <1>4, <1>5, <1>6, <1>7, <1>8, <1>9, <1>10,
   <1>11, <1>12, <1>13, <1>14, <1>w DEF PipeKernel, PipeUser, CallClose,
   ExitClose, Calls

(* What has been seen before sleep(). *)
LEMMA PipeSleep ==
    ASSUME IInv, NEW p \in Slot, PipeKernel(p) \/ PipeUser(p)
    PROVE  SleepInv'
<1>. USE SlotFacts DEF IInv, TypeInv, PipeTypeOK, pipe
<1>1. ASSUME NEW n \in 1 .. MaxWrite, CallWrite(p, n) PROVE SleepInv'
  BY <1>1 DEF CallWrite, Calls, PiLock, Goto, Quiet, SleepInv, PiLockInv,
     Holding, Broken
<1>2. CASE WriteLock(p)
  BY <1>2 DEF WriteLock, PiLock, Goto, Quiet, SleepInv, PiLockInv, Holding,
     Broken
<1>3. CASE WriteByte(p)
  BY <1>3 DEF WriteByte, Broken, Quiet, SleepInv, PiLockInv, Holding, Broken
<1>4. CASE WriteBroken(p)
  BY <1>4 DEF WriteBroken, Broken, Goto, Quiet, SleepInv, PiLockInv, Holding,
     Broken
<1>5. CASE WriteFull(p)
  BY <1>5 DEF WriteFull, Broken, Goto, Quiet, SleepInv, PiLockInv, Holding,
     Broken
<1>6. CASE WriteDone(p)
  BY <1>6 DEF WriteDone, Goto, Quiet, SleepInv, PiLockInv, Holding, Broken
<1>7. CASE WriteSleep(p)
  BY <1>7 DEF WriteSleep, SleepOn, Lock, Goto, SleepInv, PiLockInv, Holding,
     Broken
<1>8. CASE CallRead(p)
  BY <1>8 DEF CallRead, Calls, PiLock, Goto, Quiet, SleepInv, PiLockInv,
     Holding, Broken
<1>9. CASE ReadKilled(p)
  BY <1>9 DEF ReadKilled, Goto, Quiet, SleepInv, PiLockInv, Holding, Broken
<1>10. CASE ReadWait(p)
  BY <1>10 DEF ReadWait, Waits, Goto, Quiet, SleepInv, PiLockInv, Holding,
     Broken
<1>11. CASE ReadSleep(p)
  BY <1>11 DEF ReadSleep, SleepOn, Lock, Goto, SleepInv, PiLockInv, Holding,
     Broken
<1>12. ASSUME NEW k \in 0 .. PipeSize, ReadCopy(p, k) PROVE SleepInv'
  BY <1>12 DEF ReadCopy, Waits, Goto, Quiet, SleepInv, PiLockInv, Holding,
     Broken
<1>13. ASSUME NEW e \in End, NEW label \in {"user", "exit"}, pc[p] = label,
             FileClose(p, e, label)
      PROVE  SleepInv'
  BY <1>13, FileCloseEffect DEF End, SleepInv, PiLockInv, Holding, Broken
<1>14. CASE PipeClose(p)
  BY <1>14, PipeCloseEffect DEF SleepInv, PiLockInv, Holding, Broken
<1>15. CASE pc[p] = "write_full" /\ Waking(p, ReadChan, "write_sleep") /\ freed' = freed
  BY <1>15 DEF Waking, SleepInv, PiLockInv, Holding, Broken
<1>16. CASE pc[p] = "write_done" /\ Waking(p, ReadChan, "user") /\ freed' = freed
  BY <1>16 DEF Waking, SleepInv, PiLockInv, Holding, Broken
<1>17. CASE pc[p] = "read_done" /\ Waking(p, WriteChan, "user") /\ freed' = freed
  BY <1>17 DEF Waking, SleepInv, PiLockInv, Holding, Broken
<1>18. CASE /\ pc[p] = "closed_w" /\ ret[p] \in {"user", "exit"}
           /\ Waking(p, ReadChan, ret[p])
           /\ freed' = (freed \/ (pi_lock' = None /\ open = {}))
  BY <1>18 DEF Waking, SleepInv, PiLockInv, Holding, Broken
<1>19. CASE /\ pc[p] = "closed_r" /\ ret[p] \in {"user", "exit"}
           /\ Waking(p, WriteChan, ret[p])
           /\ freed' = (freed \/ (pi_lock' = None /\ open = {}))
  BY <1>19 DEF Waking, SleepInv, PiLockInv, Holding, Broken
<1>w. CASE WriteWake(p) \/ ReadWake(p) \/ CloseWake(p)
  BY <1>w, <1>15, <1>16, <1>17, <1>18, <1>19, WakingEffect
<1>. QED BY <1>1, <1>2, <1>3, <1>4, <1>5, <1>6, <1>7, <1>8, <1>9, <1>10,
   <1>11, <1>12, <1>13, <1>14, <1>w DEF PipeKernel, PipeUser, CallClose,
   ExitClose, Calls

(* Nobody is passed over by wakeup(). *)
LEMMA PipeWake ==
    ASSUME IInv, NEW p \in Slot, PipeKernel(p) \/ PipeUser(p)
    PROVE  WakeInv'
<1>. USE SlotFacts, ChanFacts, LoopFacts DEF IInv, TypeInv, PipeTypeOK, pipe
<1>1. ASSUME NEW n \in 1 .. MaxWrite, CallWrite(p, n) PROVE WakeInv'
  BY <1>1 DEF CallWrite, Calls, PiLock, Goto, Quiet, WakeInv, SleepInv,
     PiLockInv, LoopInv, Loops, Holding, Asleep, ThreadInv, Broken
<1>2. CASE WriteLock(p)
  BY <1>2 DEF WriteLock, PiLock, Goto, Quiet, WakeInv, SleepInv, PiLockInv,
     LoopInv, Loops, Holding, Asleep, ThreadInv, Broken
<1>3. CASE WriteByte(p)
  BY <1>3 DEF WriteByte, Broken, Quiet, WakeInv, SleepInv, PiLockInv,
     LoopInv, Loops, Holding, Asleep, ThreadInv, Broken
<1>4. CASE WriteBroken(p)
  BY <1>4 DEF WriteBroken, Broken, Goto, Quiet, WakeInv, SleepInv, PiLockInv,
     LoopInv, Loops, Holding, Asleep, ThreadInv, Broken
<1>5. CASE WriteFull(p)
  <2>1. ASSUME NEW q \in Slot, Asleep(q, WriteChan)'
        PROVE  \/ unread' = PipeSize /\ "r" \in open'
               \/ \E h \in Slot : /\ pi_lock' = h /\ pc'[h] \in {"read_done", "closed_r"}
                                  /\ at'[h] <= q
    BY <1>5, <2>1, SlotRange DEF WriteFull, Goto, Quiet, WakeInv, Asleep,
       PiLockInv, Holding, LoopInv, Loops
  <2>2. ASSUME NEW q \in Slot, NEW h \in Slot, Asleep(q, ReadChan)',
               pc'[h] \in {"write_full", "write_done", "closed_w"}
        PROVE  at'[h] <= q
    BY <1>5, <2>2, SlotRange DEF WriteFull, Goto, Quiet, WakeInv, Asleep,
       PiLockInv, Holding, LoopInv, Loops
  <2>. QED BY <2>1, <2>2 DEF WakeInv
<1>6. CASE WriteDone(p)
  <2>1. ASSUME NEW q \in Slot, Asleep(q, WriteChan)'
        PROVE  \/ unread' = PipeSize /\ "r" \in open'
               \/ \E h \in Slot : /\ pi_lock' = h /\ pc'[h] \in {"read_done", "closed_r"}
                                  /\ at'[h] <= q
    BY <1>6, <2>1, SlotRange DEF WriteDone, Goto, Quiet, WakeInv, Asleep,
       PiLockInv, Holding, LoopInv, Loops
  <2>2. ASSUME NEW q \in Slot, NEW h \in Slot, Asleep(q, ReadChan)',
               pc'[h] \in {"write_full", "write_done", "closed_w"}
        PROVE  at'[h] <= q
    BY <1>6, <2>2, SlotRange DEF WriteDone, Goto, Quiet, WakeInv, Asleep,
       PiLockInv, Holding, LoopInv, Loops
  <2>. QED BY <2>1, <2>2 DEF WakeInv
<1>7. CASE WriteSleep(p)
  BY <1>7 DEF WriteSleep, SleepOn, Lock, Goto, WakeInv, SleepInv, PiLockInv,
     LoopInv, Loops, Holding, Asleep, ThreadInv, Broken
<1>8. CASE CallRead(p)
  BY <1>8 DEF CallRead, Calls, PiLock, Goto, Quiet, WakeInv, SleepInv,
     PiLockInv, LoopInv, Loops, Holding, Asleep, ThreadInv, Broken
<1>9. CASE ReadKilled(p)
  BY <1>9 DEF ReadKilled, Goto, Quiet, WakeInv, SleepInv, PiLockInv, LoopInv,
     Loops, Holding, Asleep, ThreadInv, Broken
<1>10. CASE ReadWait(p)
  BY <1>10 DEF ReadWait, Waits, Goto, Quiet, WakeInv, SleepInv, PiLockInv,
     LoopInv, Loops, Holding, Asleep, ThreadInv, Broken
<1>11. CASE ReadSleep(p)
  BY <1>11 DEF ReadSleep, SleepOn, Lock, Goto, WakeInv, SleepInv, PiLockInv,
     LoopInv, Loops, Holding, Asleep, ThreadInv, Broken
<1>12. ASSUME NEW k \in 0 .. PipeSize, ReadCopy(p, k) PROVE WakeInv'
  <2>1. pi_lock' = p /\ pc'[p] = "read_done" /\ at'[p] = 1
    BY <1>12 DEF ReadCopy, Goto, Quiet, PiLockInv, Holding, LoopInv, Loops
  <2>2. \A q \in Slot : at'[p] <= q
    BY <2>1, SlotRange
  <2>3. ASSUME NEW q \in Slot, NEW h \in Slot, Asleep(q, ReadChan)',
               pc'[h] \in {"write_full", "write_done", "closed_w"}
        PROVE  at'[h] <= q
    BY <1>12, <2>3 DEF ReadCopy, Goto, Quiet, WakeInv, Asleep
  <2>. QED BY <2>1, <2>2, <2>3 DEF WakeInv
<1>13. ASSUME NEW e \in End, NEW label \in {"user", "exit"}, pc[p] = label,
             FileClose(p, e, label)
      PROVE  WakeInv'
  BY <1>13, FileCloseEffect DEF End, WakeInv, SleepInv, PiLockInv, LoopInv,
     Loops, Holding, Asleep, ThreadInv, Broken
<1>14. CASE PipeClose(p)
  <2>1. ASSUME NEW q \in Slot, Asleep(q, WriteChan)'
        PROVE  \/ unread' = PipeSize /\ "r" \in open'
               \/ \E h \in Slot : /\ pi_lock' = h /\ pc'[h] \in {"read_done", "closed_r"}
                                  /\ at'[h] <= q
    BY <1>14, <2>1, SlotRange, PipeCloseEffect DEF Goto, Quiet, WakeInv,
       Asleep, PiLockInv, Holding, LoopInv, Loops
  <2>2. ASSUME NEW q \in Slot, NEW h \in Slot, Asleep(q, ReadChan)',
               pc'[h] \in {"write_full", "write_done", "closed_w"}
        PROVE  at'[h] <= q
    BY <1>14, <2>2, SlotRange, PipeCloseEffect DEF Goto, Quiet, WakeInv,
       Asleep, PiLockInv, Holding, LoopInv, Loops
  <2>. QED BY <2>1, <2>2 DEF WakeInv
<1>15. CASE pc[p] = "write_full" /\ Waking(p, ReadChan, "write_sleep") /\ freed' = freed
  <2>1. ASSUME NEW q \in Slot, Asleep(q, WriteChan)'
        PROVE  \/ unread' = PipeSize /\ "r" \in open'
               \/ \E h \in Slot : /\ pi_lock' = h /\ pc'[h] \in {"read_done", "closed_r"}
                                  /\ at'[h] <= q
    BY <1>15, <2>1, SlotRange DEF Waking, Goto, Quiet, WakeInv, Asleep,
       PiLockInv, Holding, LoopInv, Loops
  <2>2. ASSUME NEW q \in Slot, NEW h \in Slot, Asleep(q, ReadChan)',
               pc'[h] \in {"write_full", "write_done", "closed_w"}
        PROVE  at'[h] <= q
    BY <1>15, <2>2, SlotRange DEF Waking, Goto, Quiet, WakeInv, Asleep,
       PiLockInv, Holding, LoopInv, Loops
  <2>. QED BY <2>1, <2>2 DEF WakeInv
<1>16. CASE pc[p] = "write_done" /\ Waking(p, ReadChan, "user") /\ freed' = freed
  <2>1. ASSUME NEW q \in Slot, Asleep(q, WriteChan)'
        PROVE  \/ unread' = PipeSize /\ "r" \in open'
               \/ \E h \in Slot : /\ pi_lock' = h /\ pc'[h] \in {"read_done", "closed_r"}
                                  /\ at'[h] <= q
    BY <1>16, <2>1, SlotRange DEF Waking, Goto, Quiet, WakeInv, Asleep,
       PiLockInv, Holding, LoopInv, Loops
  <2>2. ASSUME NEW q \in Slot, NEW h \in Slot, Asleep(q, ReadChan)',
               pc'[h] \in {"write_full", "write_done", "closed_w"}
        PROVE  at'[h] <= q
    BY <1>16, <2>2, SlotRange DEF Waking, Goto, Quiet, WakeInv, Asleep,
       PiLockInv, Holding, LoopInv, Loops
  <2>. QED BY <2>1, <2>2 DEF WakeInv
<1>17. CASE pc[p] = "read_done" /\ Waking(p, WriteChan, "user") /\ freed' = freed
  <2>1. ASSUME NEW q \in Slot, Asleep(q, WriteChan)'
        PROVE  \/ unread' = PipeSize /\ "r" \in open'
               \/ \E h \in Slot : /\ pi_lock' = h /\ pc'[h] \in {"read_done", "closed_r"}
                                  /\ at'[h] <= q
    BY <1>17, <2>1, SlotRange DEF Waking, Goto, Quiet, WakeInv, Asleep,
       PiLockInv, Holding, LoopInv, Loops
  <2>2. ASSUME NEW q \in Slot, NEW h \in Slot, Asleep(q, ReadChan)',
               pc'[h] \in {"write_full", "write_done", "closed_w"}
        PROVE  at'[h] <= q
    BY <1>17, <2>2, SlotRange DEF Waking, Goto, Quiet, WakeInv, Asleep,
       PiLockInv, Holding, LoopInv, Loops
  <2>. QED BY <2>1, <2>2 DEF WakeInv
<1>18. CASE /\ pc[p] = "closed_w" /\ ret[p] \in {"user", "exit"}
           /\ Waking(p, ReadChan, ret[p])
           /\ freed' = (freed \/ (pi_lock' = None /\ open = {}))
  <2>1. ASSUME NEW q \in Slot, Asleep(q, WriteChan)'
        PROVE  \/ unread' = PipeSize /\ "r" \in open'
               \/ \E h \in Slot : /\ pi_lock' = h /\ pc'[h] \in {"read_done", "closed_r"}
                                  /\ at'[h] <= q
    BY <1>18, <2>1, SlotRange DEF Waking, Goto, Quiet, WakeInv, Asleep,
       PiLockInv, Holding, LoopInv, Loops
  <2>2. ASSUME NEW q \in Slot, NEW h \in Slot, Asleep(q, ReadChan)',
               pc'[h] \in {"write_full", "write_done", "closed_w"}
        PROVE  at'[h] <= q
    BY <1>18, <2>2, SlotRange DEF Waking, Goto, Quiet, WakeInv, Asleep,
       PiLockInv, Holding, LoopInv, Loops
  <2>. QED BY <2>1, <2>2 DEF WakeInv
<1>19. CASE /\ pc[p] = "closed_r" /\ ret[p] \in {"user", "exit"}
           /\ Waking(p, WriteChan, ret[p])
           /\ freed' = (freed \/ (pi_lock' = None /\ open = {}))
  <2>1. ASSUME NEW q \in Slot, Asleep(q, WriteChan)'
        PROVE  \/ unread' = PipeSize /\ "r" \in open'
               \/ \E h \in Slot : /\ pi_lock' = h /\ pc'[h] \in {"read_done", "closed_r"}
                                  /\ at'[h] <= q
    BY <1>19, <2>1, SlotRange DEF Waking, Goto, Quiet, WakeInv, Asleep,
       PiLockInv, Holding, LoopInv, Loops
  <2>2. ASSUME NEW q \in Slot, NEW h \in Slot, Asleep(q, ReadChan)',
               pc'[h] \in {"write_full", "write_done", "closed_w"}
        PROVE  at'[h] <= q
    BY <1>19, <2>2, SlotRange DEF Waking, Goto, Quiet, WakeInv, Asleep,
       PiLockInv, Holding, LoopInv, Loops
  <2>. QED BY <2>1, <2>2 DEF WakeInv
<1>w. CASE WriteWake(p) \/ ReadWake(p) \/ CloseWake(p)
  BY <1>w, <1>15, <1>16, <1>17, <1>18, <1>19, WakingEffect
<1>. QED BY <1>1, <1>2, <1>3, <1>4, <1>5, <1>6, <1>7, <1>8, <1>9, <1>10,
   <1>11, <1>12, <1>13, <1>14, <1>w DEF PipeKernel, PipeUser, CallClose,
   ExitClose, Calls

------------------------------------------------------------------------------
(* The theorems.                                                           *)
LEMMA InitInv == PipeInit => IInv
<1>. SUFFICES ASSUME PipeInit PROVE IInv
  OBVIOUS
<1>. USE SlotFacts DEF PipeInit, Init
<1>1. TypeInv
  BY LoopFacts, ChanFacts, PipeFacts DEF TypeInv, PipeTypeOK, ProcLabel, End
<1>2. ThreadInv
  BY DEF ThreadInv, Forks
<1>3. LoopInv
  BY LoopFacts DEF LoopInv
<1>4. PiLockInv /\ ClosingInv /\ SleepInv
  BY DEF PiLockInv, ClosingInv, SleepInv, Holding
<1>5. EndsInv
  BY ChanFacts DEF EndsInv, Writing, Reading, Asleep, End
<1>6. WakeInv
  BY ChanFacts DEF WakeInv, Asleep
<1>. QED BY <1>1, <1>2, <1>3, <1>4, <1>5, <1>6 DEF IInv

LEMMA StepInv == IInv /\ [PipeNext]_pipe_vars => IInv'
<1>. SUFFICES ASSUME IInv, [PipeNext]_pipe_vars PROVE IInv'
  OBVIOUS
<1>1. ASSUME NEW p \in Slot, ProcKernel(p) \/ ProcCall(p) PROVE IInv'
  BY <1>1, ProcTypes, ProcThreads, ProcLoops, ProcPiLock, ProcEnds,
     ProcClosing,
     ProcSleep, ProcWake DEF IInv
<1>2. ASSUME NEW p \in Slot, PipeKernel(p) \/ PipeUser(p) PROVE IInv'
  BY <1>2, PipeTypes, PipeThreads, PipeLoops, PipePiLock, PipeEnds,
     PipeClosing,
     PipeSleep, PipeWake DEF IInv
<1>3. CASE UNCHANGED pipe_vars
  BY <1>3 DEF pipe_vars, pipe, vars, sched_vars, family, IInv, TypeInv,
     PipeTypeOK,
     ThreadInv, LoopInv, PiLockInv, EndsInv, ClosingInv, SleepInv, WakeInv, Asleep
<1>. QED BY <1>1, <1>2, <1>3 DEF PipeNext

(* The invariant holds in every reachable state. *)
THEOREM Invariance == PipeSpec => []IInv
BY InitInv, StepInv, PTL DEF PipeSpec

(* Every variable of the pipe keeps its type: nwrite - nread stays within  *)
(* the buffer, whatever readers and writers do and wherever they sleep.    *)
THEOREM TypeCorrectness == PipeSpec => []PipeTypeOK
<1>1. IInv => PipeTypeOK
  BY DEF IInv, TypeInv
<1>. QED BY <1>1, Invariance, PTL

(* A writer sleeps in pipewrite() only while the pipe is full and has a    *)
(* reader, or somebody under pi->lock is about to wake it: no wakeup() of  *)
(* piperead() or pipeclose() is lost between its test and its sleep().     *)
THEOREM WritersWoken == PipeSpec => []WriterAwake
<1>1. IInv => WriterAwake
  <2>. SUFFICES ASSUME IInv, NEW p \in Slot, Asleep(p, WriteChan),
                       ~(unread = PipeSize /\ "r" \in open)
                PROVE  pi_lock # None /\ pc[pi_lock] \in {"read_done", "closed_r"}
    BY DEF WriterAwake
  <2>. QED BY SlotFacts DEF IInv, WakeInv
<1>. QED BY <1>1, Invariance, PTL

(* kfree() in pipeclose() comes when nobody has the pipe open, is in       *)
(* pipe.c, or sleeps there.                                                *)
THEOREM FreedUnused == PipeSpec => []NoUseAfterFree
<1>1. IInv => NoUseAfterFree
  <2>. SUFFICES ASSUME IInv, freed, NEW p \in Slot
                PROVE  /\ ofile[p] = {} /\ pc[p] \notin InPipe
                       /\ ret[p] \notin {"write_lock", "read_lock"}
    BY DEF NoUseAfterFree
  <2>1. open = {} /\ pi_lock = None
    BY DEF IInv, ClosingInv
  <2>2. ofile[p] = {}
    BY <2>1 DEF IInv, EndsInv
  <2>3. pc[p] \notin Writing \cup Reading \cup Holding \cup {"close_r", "close_w"}
    BY <2>1, <2>2, SlotFacts DEF IInv, EndsInv, PiLockInv, ClosingInv
  <2>4. pc[p] \notin InPipe
    BY <2>3 DEF InPipe, Writing, Reading, Holding
  <2>. QED BY <2>2, <2>4 DEF IInv, EndsInv
<1>. QED BY <1>1, Invariance, PTL

(* A writer that is killed in the middle of pipewrite() returns. *)
KilledInWrite ==
    \E q \in Slot : killed[q] /\ pc[q] = "pipewrite" /\ pc'[q] = "user"

LEMMA PipeStrand ==
    ASSUME IInv, NEW r \in Slot, NEW p \in Slot, PipeKernel(p) \/ PipeUser(p)
    PROVE  Stranded(r)' => Stranded(r) \/ KilledInWrite
<1>. USE SlotFacts, ChanFacts DEF IInv, TypeInv, PipeTypeOK, pipe
<1>1. ASSUME NEW n \in 1 .. MaxWrite, CallWrite(p, n)
      PROVE  Stranded(r)' => Stranded(r) \/ KilledInWrite
  BY <1>1 DEF CallWrite, Calls, PiLock, Goto, Quiet, Stranded, Asleep,
     PiLockInv, Holding, EndsInv, Reading
<1>2. CASE WriteLock(p)
  BY <1>2 DEF WriteLock, PiLock, Goto, Quiet, Stranded, Asleep, PiLockInv,
     Holding, EndsInv, Reading
<1>3. CASE WriteByte(p)
  BY <1>3 DEF WriteByte, Broken, Quiet, Stranded, Asleep, PiLockInv, Holding,
     EndsInv, Reading
<1>4. CASE WriteBroken(p)
  <2>1. CASE killed[p]
    BY <1>4, <2>1 DEF WriteBroken, Goto, KilledInWrite
  <2>2. CASE "r" \notin open
    <3>1. ~Asleep(r, ReadChan)
      BY <2>2 DEF EndsInv
    <3>. QED BY <1>4, <3>1 DEF WriteBroken, Quiet, Stranded, Asleep
  <2>. QED BY <1>4, <2>1, <2>2 DEF WriteBroken, Broken
<1>5. CASE WriteFull(p)
  BY <1>5 DEF WriteFull, Broken, Goto, Quiet, Stranded, Asleep, PiLockInv,
     Holding, EndsInv, Reading
<1>6. CASE WriteDone(p)
  BY <1>6 DEF WriteDone, Goto, Quiet, Stranded, Asleep, PiLockInv, Holding,
     EndsInv, Reading
<1>7. CASE WriteSleep(p)
  BY <1>7 DEF WriteSleep, SleepOn, Lock, Goto, Stranded, Asleep, PiLockInv,
     Holding, EndsInv, Reading
<1>8. CASE CallRead(p)
  BY <1>8 DEF CallRead, Calls, PiLock, Goto, Quiet, Stranded, Asleep,
     PiLockInv, Holding, EndsInv, Reading
<1>9. CASE ReadKilled(p)
  BY <1>9 DEF ReadKilled, Goto, Quiet, Stranded, Asleep, PiLockInv, Holding,
     EndsInv, Reading
<1>10. CASE ReadWait(p)
  BY <1>10 DEF ReadWait, Waits, Goto, Quiet, Stranded, Asleep, PiLockInv,
     Holding, EndsInv, Reading
<1>11. CASE ReadSleep(p)
  BY <1>11 DEF ReadSleep, SleepInv, Stranded
<1>12. ASSUME NEW k \in 0 .. PipeSize, ReadCopy(p, k)
       PROVE  Stranded(r)' => Stranded(r) \/ KilledInWrite
  BY <1>12 DEF ReadCopy, Waits, Goto, Quiet, Stranded, Asleep, PiLockInv,
     Holding, EndsInv, Reading
<1>13. ASSUME NEW e \in End, NEW label \in {"user", "exit"}, pc[p] = label,
             FileClose(p, e, label)
      PROVE  Stranded(r)' => Stranded(r) \/ KilledInWrite
  BY <1>13, FileCloseEffect DEF End, Stranded, Asleep, PiLockInv, Holding,
     EndsInv, Reading
<1>14. CASE PipeClose(p)
  BY <1>14, PipeCloseEffect DEF Stranded, Asleep, PiLockInv, Holding,
     EndsInv, Reading
<1>15. CASE pc[p] = "write_full" /\ Waking(p, ReadChan, "write_sleep") /\ freed' = freed
  <2>1. CASE at[p] = NProc
    <3>1. ASSUME Asleep(r, ReadChan)' PROVE r = NProc
      BY <1>15, <2>1, <3>1, SlotRange DEF Waking, WakeInv, Asleep
    <3>. QED BY <1>15, <2>1, <3>1 DEF Waking, Stranded, Asleep
  <2>2. CASE at[p] # NProc
    BY <1>15, <2>2 DEF Waking, Stranded, Asleep, PiLockInv, Holding
  <2>. QED BY <2>1, <2>2
<1>16. CASE pc[p] = "write_done" /\ Waking(p, ReadChan, "user") /\ freed' = freed
  <2>1. CASE at[p] = NProc
    <3>1. ASSUME Asleep(r, ReadChan)' PROVE r = NProc
      BY <1>16, <2>1, <3>1, SlotRange DEF Waking, WakeInv, Asleep
    <3>. QED BY <1>16, <2>1, <3>1 DEF Waking, Stranded, Asleep
  <2>2. CASE at[p] # NProc
    BY <1>16, <2>2 DEF Waking, Stranded, Asleep, PiLockInv, Holding
  <2>. QED BY <2>1, <2>2
<1>17. CASE pc[p] = "read_done" /\ Waking(p, WriteChan, "user") /\ freed' = freed
  BY <1>17 DEF Waking, Stranded, Asleep, PiLockInv, Holding, EndsInv, Reading
<1>18. CASE /\ pc[p] = "closed_w" /\ ret[p] \in {"user", "exit"}
           /\ Waking(p, ReadChan, ret[p])
           /\ freed' = (freed \/ (pi_lock' = None /\ open = {}))
  <2>1. CASE at[p] = NProc
    <3>1. ASSUME Asleep(r, ReadChan)' PROVE r = NProc
      BY <1>18, <2>1, <3>1, SlotRange DEF Waking, WakeInv, Asleep
    <3>. QED BY <1>18, <2>1, <3>1 DEF Waking, Stranded, Asleep
  <2>2. CASE at[p] # NProc
    BY <1>18, <2>2 DEF Waking, Stranded, Asleep, PiLockInv, Holding
  <2>. QED BY <2>1, <2>2
<1>19. CASE /\ pc[p] = "closed_r" /\ ret[p] \in {"user", "exit"}
           /\ Waking(p, WriteChan, ret[p])
           /\ freed' = (freed \/ (pi_lock' = None /\ open = {}))
  BY <1>19 DEF Waking, Stranded, Asleep, PiLockInv, Holding, EndsInv, Reading
<1>w. CASE WriteWake(p) \/ ReadWake(p) \/ CloseWake(p)
  BY <1>w, <1>15, <1>16, <1>17, <1>18, <1>19, WakingEffect
<1>. QED BY <1>1, <1>2, <1>3, <1>4, <1>5, <1>6, <1>7, <1>8, <1>9, <1>10,
   <1>11, <1>12, <1>13, <1>14, <1>w DEF PipeKernel, PipeUser, CallClose,
   ExitClose, Calls

LEMMA ProcStrand ==
    ASSUME IInv, NEW r \in Slot, NEW p \in Slot, ProcKernel(p) \/ ProcCall(p)
    PROVE  Stranded(r)' => Stranded(r)
<1>1. Apart(p) /\ UNCHANGED <<unread, open, pi_lock>>
  BY ProcFrame DEF Apart, pipe
<1>2. ASSUME NEW h \in Slot, pc[h] \in InPipe PROVE pc'[h] = pc[h]
  BY <1>1, <1>2 DEF Apart
<1>3. /\ pi_lock # None
      /\ pc[pi_lock] \in {"pipewrite", "write_full", "write_done", "closed_w"}
      => pi_lock \in Slot /\ pc'[pi_lock] = pc[pi_lock]
  BY <1>2 DEF IInv, TypeInv, PipeTypeOK, InPipe
<1>. QED BY <1>1, <1>3 DEF Apart, Stranded

(* Nothing strands a reader but the writer that is killed in pipewrite().  *)
(* One that finds no reader returns as early, but then none sleeps, since  *)
(* who sleeps in piperead() has the end open; and the others leave         *)
(* pi->lock after a loop of wakeup() that has come by every reader.        *)
THEOREM OnlyKilledWritersStrand == PipeSpec => OnlyKillStrands
<1>1. ASSUME IInv, [PipeNext]_pipe_vars, NEW r \in Slot, Stranded(r)', ~Stranded(r)
      PROVE  KilledInWrite
  <2>1. ASSUME NEW p \in Slot, ProcKernel(p) \/ ProcCall(p) PROVE KilledInWrite
    BY <1>1, <2>1, ProcStrand
  <2>2. ASSUME NEW p \in Slot, PipeKernel(p) \/ PipeUser(p) PROVE KilledInWrite
    BY <1>1, <2>2, PipeStrand
  <2>3. CASE UNCHANGED pipe_vars
    BY <1>1, <2>3 DEF pipe_vars, pipe, vars, sched_vars, Stranded, Asleep
  <2>. QED BY <1>1, <2>1, <2>2, <2>3 DEF PipeNext
<1>2. IInv /\ [PipeNext]_pipe_vars =>
        [\A p \in Slot : ~Stranded(p) /\ Stranded(p)' =>
            \E q \in Slot : killed[q] /\ pc[q] = "pipewrite" /\ pc[q]' = "user"]_pipe_vars
  <2>. SUFFICES ASSUME IInv, [PipeNext]_pipe_vars, NEW p \in Slot,
                       ~Stranded(p), Stranded(p)'
                PROVE  \E q \in Slot : killed[q] /\ pc[q] = "pipewrite" /\ pc[q]' = "user"
    OBVIOUS
  <2>. QED BY <1>1 DEF KilledInWrite
<1>. QED BY <1>2, Invariance, PTL DEF PipeSpec, OnlyKillStrands
=============================================================================
