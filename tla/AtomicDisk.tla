----------------------------- MODULE AtomicDisk -----------------------------
(***************************************************************************)
(* What the log of log.c promises the file system: system calls bracketed  *)
(* by begin_op() and end_op() see each other's writes at once, and after a *)
(* crash the disk is as it was at a moment when no call was active.        *)
(***************************************************************************)
CONSTANTS Op, Block

VARIABLES
    mem,            \* what the file system calls see
    stable,         \* what a crash leaves
    active          \* the calls between begin_op() and end_op()

vars == <<mem, stable, active>>

(* A block is identified by the calls that have written it. *)
Content == SUBSET Op

Init ==
    /\ mem = [b \in Block |-> {}]
    /\ stable = mem
    /\ active = {}

Begin(o) ==
    /\ o \notin active
    /\ active' = active \cup {o}
    /\ UNCHANGED <<mem, stable>>

Write(o, b) ==
    /\ o \in active
    /\ mem' = [mem EXCEPT ![b] = @ \cup {o}]
    /\ UNCHANGED <<stable, active>>

End(o) ==
    /\ o \in active
    /\ active' = active \ {o}
    /\ UNCHANGED <<mem, stable>>

Commit ==
    /\ active = {}
    /\ stable' = mem
    /\ UNCHANGED <<mem, active>>

Crash ==
    /\ mem' = stable
    /\ active' = {}
    /\ UNCHANGED stable

Next ==
    \/ \E o \in Op : Begin(o) \/ End(o) \/ \E b \in Block : Write(o, b)
    \/ Commit
    \/ Crash

Spec == Init /\ [][Next]_vars
=============================================================================
