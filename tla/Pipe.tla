-------------------------------- MODULE Pipe --------------------------------
(***************************************************************************)
(* A pipe of xv6 (kernel/pipe.c) among the processes of Proc: readers and  *)
(* writers that sleep on two channels under one lock, while others fork,   *)
(* close their ends, are killed and exit.  The shell has made the pipe and *)
(* holds both ends.                                                        *)
(***************************************************************************)
EXTENDS Proc

CONSTANTS
    PipeSize,       \* PIPESIZE
    MaxWrite        \* bound on the bytes of a write()

ASSUME PipeAssumption == PipeSize \in Nat \ {0} /\ MaxWrite \in Nat \ {0}

VARIABLES
    ofile,          \* the ends of the pipe each process has open
    pi_lock,        \* the process that holds pi->lock, or None
    unread,         \* pi->nwrite - pi->nread
    open,           \* the ends with pi->readopen, pi->writeopen set
    freed,          \* pi has been given back by kfree()
    left            \* n - i in pipewrite()

pipe == <<pi_lock, unread, open, freed>>
pipe_vars == <<vars, ofile, pipe, left>>

End == {"r", "w"}
ReadChan == NProc + 1       \* &pi->nread
WriteChan == NProc + 2      \* &pi->nwrite

PipeInit ==
    /\ Init
    /\ ofile = [p \in Slot |-> IF p = 2 THEN End ELSE {}]
    /\ pi_lock = None /\ unread = 0 /\ open = End /\ freed = FALSE
    /\ left = [p \in Slot |-> 0]

(* A step of p in pipe.c that leaves the scheduler alone. *)
Quiet == UNCHANGED <<state, chan, plock, on, family, np>>

(* acquire(&pi->lock), in a call or when sleep() returns *)
PiLock(p) == pi_lock = None /\ pi_lock' = p

(* An iteration of wakeup(ch) under pi->lock, released after the last. *)
WakeAndUnlock(p, ch, label) ==
    /\ Wakeup(p, ch, label)
    /\ pi_lock' = IF pc'[p] = label THEN None ELSE pi_lock
    /\ UNCHANGED <<chan, plock, on, ret, family, np, ofile, unread, open>>

------------------------------------------------------------------------------
(* pipewrite() of n bytes *)
CallWrite(p, n) ==
    /\ Calls(p) /\ "w" \in ofile[p]
    /\ PiLock(p)
    /\ left' = [left EXCEPT ![p] = n]
    /\ Goto(p, "pipewrite")
    /\ UNCHANGED <<ret, at, ofile, unread, open, freed>> /\ Quiet

WriteLock(p) ==
    /\ pc[p] = "write_lock"
    /\ PiLock(p)
    /\ Goto(p, "pipewrite")
    /\ UNCHANGED <<ret, at, ofile, unread, open, freed, left>> /\ Quiet

Broken(p) == "r" \notin open \/ killed[p]

(* Mutant of WriteByte: a full pipe is written on. *)
WriteBeyond(p) ==
    /\ pc[p] = "pipewrite"
    /\ left[p] > 0 /\ ~Broken(p)
    /\ unread' = unread + 1
    /\ left' = [left EXCEPT ![p] = @ - 1]
    /\ UNCHANGED <<pc, ret, at, ofile, pi_lock, open, freed>> /\ Quiet

(* A byte of the loop. *)
WriteByte(p) ==
    /\ pc[p] = "pipewrite"
    /\ left[p] > 0 /\ ~Broken(p) /\ unread < PipeSize
    /\ unread' = unread + 1
    /\ left' = [left EXCEPT ![p] = @ - 1]
    /\ UNCHANGED <<pc, ret, at, ofile, pi_lock, open, freed>> /\ Quiet

(* No reader, or killed: it does not wake the readers of what it has put. *)
WriteBroken(p) ==
    /\ pc[p] = "pipewrite"
    /\ left[p] > 0 /\ Broken(p)
    /\ pi_lock' = None
    /\ left' = [left EXCEPT ![p] = 0]
    /\ Goto(p, "user")
    /\ UNCHANGED <<ret, at, ofile, unread, open, freed>> /\ Quiet

(* The pipe is full, or all bytes are in it, or copyin() fails. *)
WriteFull(p) ==
    /\ pc[p] = "pipewrite"
    /\ left[p] > 0 /\ ~Broken(p) /\ unread = PipeSize
    /\ Goto(p, "write_full")
    /\ UNCHANGED <<ret, at, ofile, pipe, left>> /\ Quiet

(* Mutant of WriteDone: readers are not woken. *)
WriteDoneQuietly(p) ==
    /\ pc[p] = "pipewrite"
    /\ left[p] > 0 => ~Broken(p) /\ unread < PipeSize
    /\ left' = [left EXCEPT ![p] = 0]
    /\ pi_lock' = None
    /\ Goto(p, "user")
    /\ UNCHANGED <<ret, at, ofile, unread, open, freed>> /\ Quiet

WriteDone(p) ==
    /\ pc[p] = "pipewrite"
    /\ left[p] > 0 => ~Broken(p) /\ unread < PipeSize
    /\ left' = [left EXCEPT ![p] = 0]
    /\ Goto(p, "write_done")
    /\ UNCHANGED <<ret, at, ofile, pipe>> /\ Quiet

(* wakeup(&pi->nread), with the pipe full and at the end *)
WriteWake(p) ==
    \/ /\ pc[p] = "write_full"
       /\ Wakeup(p, ReadChan, "write_sleep")
       /\ UNCHANGED <<chan, plock, on, ret, family, np, ofile, pipe, left>>
    \/ /\ pc[p] = "write_done"
       /\ WakeAndUnlock(p, ReadChan, "user")
       /\ UNCHANGED <<freed, left>>

WriteSleep(p) ==
    /\ pc[p] = "write_sleep"
    /\ SleepOn(p, WriteChan, "write_lock")
    /\ pi_lock' = None
    /\ UNCHANGED <<on, family, at, np, ofile, unread, open, freed, left>>

------------------------------------------------------------------------------
(* piperead() *)
CallRead(p) ==
    /\ \/ Calls(p) /\ "r" \in ofile[p]
       \/ pc[p] = "read_lock"
    /\ PiLock(p)
    /\ Goto(p, "piperead")
    /\ UNCHANGED <<ret, at, ofile, unread, open, freed, left>> /\ Quiet

Waits == unread = 0 /\ "w" \in open

ReadKilled(p) ==
    /\ pc[p] = "piperead"
    /\ Waits /\ killed[p]
    /\ pi_lock' = None
    /\ Goto(p, "user")
    /\ UNCHANGED <<ret, at, ofile, unread, open, freed, left>> /\ Quiet

ReadWait(p) ==
    /\ pc[p] = "piperead"
    /\ Waits /\ ~killed[p]
    /\ Goto(p, "read_sleep")
    /\ UNCHANGED <<ret, at, ofile, pipe, left>> /\ Quiet

ReadSleep(p) ==
    /\ pc[p] = "read_sleep"
    /\ SleepOn(p, ReadChan, "read_lock")
    /\ pi_lock' = None
    /\ UNCHANGED <<on, family, at, np, ofile, unread, open, freed, left>>

(* k bytes are read: what was asked for and is there, less if copyout()    *)
(* fails.                                                                  *)
ReadCopy(p, k) ==
    /\ pc[p] = "piperead"
    /\ ~Waits
    /\ k \in 0 .. unread /\ (unread > 0 => k > 0)
    /\ unread' = unread - k
    /\ Goto(p, "read_done")
    /\ UNCHANGED <<ret, at, ofile, pi_lock, open, freed, left>> /\ Quiet

(* Mutant of ReadWake: the readers are woken. *)
ReadWakesReaders(p) ==
    /\ pc[p] = "read_done"
    /\ WakeAndUnlock(p, ReadChan, "user")
    /\ UNCHANGED <<freed, left>>

(* wakeup(&pi->nwrite) *)
ReadWake(p) ==
    /\ pc[p] = "read_done"
    /\ WakeAndUnlock(p, WriteChan, "user")
    /\ UNCHANGED <<freed, left>>

------------------------------------------------------------------------------
(* Mutant of FileClose: the end is closed with the first reference. *)
FileCloseFirst(p, e, label) ==
    /\ e \in ofile[p]
    /\ ofile' = [ofile EXCEPT ![p] = @ \ {e}]
    /\ ret' = [ret EXCEPT ![p] = label]
    /\ Goto(p, IF e = "r" THEN "close_r" ELSE "close_w")
    /\ UNCHANGED <<at, pipe, left>> /\ Quiet

(* fileclose(): the file loses a reference, and with the last one the end  *)
(* is closed.                                                              *)
FileClose(p, e, label) ==
    /\ e \in ofile[p]
    /\ ofile' = [ofile EXCEPT ![p] = @ \ {e}]
    /\ ret' = [ret EXCEPT ![p] = label]
    /\ Goto(p, IF \E q \in Slot \ {p} : e \in ofile[q] THEN label
               ELSE IF e = "r" THEN "close_r" ELSE "close_w")
    /\ UNCHANGED <<at, pipe, left>> /\ Quiet

CallClose(p, e) == Calls(p) /\ FileClose(p, e, "user")
ExitClose(p, e) == pc[p] = "exit" /\ FileClose(p, e, "exit")

(* pipeclose() *)
PipeClose(p) ==
    /\ pc[p] \in {"close_r", "close_w"}
    /\ PiLock(p)
    /\ open' = open \ {IF pc[p] = "close_r" THEN "r" ELSE "w"}
    /\ Goto(p, IF pc[p] = "close_r" THEN "closed_r" ELSE "closed_w")
    /\ UNCHANGED <<ret, at, ofile, unread, freed, left>> /\ Quiet

CloseWake(p) ==
    /\ \/ pc[p] = "closed_w" /\ WakeAndUnlock(p, ReadChan, ret[p])
       \/ pc[p] = "closed_r" /\ WakeAndUnlock(p, WriteChan, ret[p])
    /\ freed' = (freed \/ (pi_lock' = None /\ open = {}))
    /\ UNCHANGED left

------------------------------------------------------------------------------
(* The steps of Proc: fork() dups the ends, exit() closes them first. *)
ProcKernel(p) ==
    /\ \/ /\ ForkCopy(p)
          /\ ofile' = [ofile EXCEPT ![np[p]] = ofile[p]]
       \/ /\ Switch(p) \/ Forking(p) \/ Waiting(p) \/ (ofile[p] = {} /\ Exiting(p))
          /\ UNCHANGED ofile
    /\ UNCHANGED <<pipe, left>>

ProcCall(p) == (Trap(p) \/ User(p)) /\ UNCHANGED <<ofile, pipe, left>>

PipeKernel(p) ==
    \/ WriteLock(p) \/ WriteByte(p) \/ WriteBroken(p) \/ WriteFull(p)
    \/ WriteDone(p) \/ WriteWake(p) \/ WriteSleep(p)
    \/ pc[p] = "read_lock" /\ CallRead(p)
    \/ ReadKilled(p) \/ ReadWait(p) \/ ReadSleep(p) \/ ReadWake(p)
    \/ \E k \in 0 .. PipeSize : ReadCopy(p, k)
    \/ \E e \in End : ExitClose(p, e)
    \/ PipeClose(p) \/ CloseWake(p)

PipeUser(p) ==
    \/ CallRead(p)
    \/ \E n \in 1 .. MaxWrite : CallWrite(p, n)
    \/ \E e \in End : CallClose(p, e)

PipeNext ==
    \E p \in Slot : ProcKernel(p) \/ ProcCall(p) \/ PipeKernel(p) \/ PipeUser(p)

PipeSpec == PipeInit /\ [][PipeNext]_pipe_vars

------------------------------------------------------------------------------
Asleep(p, ch) == state[p] = "SLEEPING" /\ chan[p] = ch

PipeTypeOK ==
    /\ ofile \in [Slot -> SUBSET End]
    /\ pi_lock \in Slot \cup {None}
    /\ unread \in 0 .. PipeSize
    /\ open \subseteq End /\ freed \in BOOLEAN
    /\ left \in [Slot -> 0 .. MaxWrite]
    /\ chan \in [Slot -> 0 .. NProc + 2]

(* A writer sleeps only while the pipe is full and has a reader, unless    *)
(* the holder of pi->lock is about to wake it.                             *)
WriterAwake ==
    \A p \in Slot : Asleep(p, WriteChan) =>
        \/ unread = PipeSize /\ "r" \in open
        \/ pi_lock # None /\ pc[pi_lock] \in {"read_done", "closed_r"}

(* A reader asleep with bytes to read, or with no writer left, whom nobody *)
(* is about to wake.                                                       *)
Stranded(p) ==
    /\ Asleep(p, ReadChan)
    /\ unread > 0 \/ "w" \notin open
    /\ ~(/\ pi_lock # None
         /\ pc[pi_lock] \in {"pipewrite", "write_full", "write_done", "closed_w"})

(* Nothing strands a reader but a writer that is killed in the middle of   *)
(* pipewrite(), which returns without wakeup() for the bytes it has put.   *)
OnlyKillStrands ==
    [][\A p \in Slot : ~Stranded(p) /\ Stranded(p)' =>
          \E q \in Slot : killed[q] /\ pc[q] = "pipewrite" /\ pc[q]' = "user"]_pipe_vars

InPipe == {"write_lock", "pipewrite", "write_full", "write_done", "write_sleep",
           "read_lock", "piperead", "read_sleep", "read_done",
           "close_r", "close_w", "closed_r", "closed_w"}

(* The page of the pipe is given back once, and nobody is in pipe.c, asleep *)
(* there, or able to come back to it then.                                  *)
NoUseAfterFree ==
    freed => \A p \in Slot :
        /\ ofile[p] = {} /\ pc[p] \notin InPipe
        /\ ret[p] \notin {"write_lock", "read_lock"} \/ pc[p] = "user"
=============================================================================
