------------------------------ MODULE BlockStore ------------------------------
(***************************************************************************)
(* What bread(), bwrite() and brelse() promise (kernel/bio.c:8-14): a      *)
(* block is used by one thread at a time, which sees what the last one     *)
(* left in it, wherever it is kept.                                        *)
(***************************************************************************)
CONSTANTS Proc, Block, Value, None

VARIABLES
    mem,            \* what a thread that locks the block will see
    stored,         \* what is on the disk
    holder,         \* the thread that uses a block
    view            \* what a thread sees in the block it uses

vars == <<mem, stored, holder, view>>

Init ==
    /\ mem \in [Block -> Value] /\ stored = mem
    /\ holder = [b \in Block |-> None] /\ view = [p \in Proc |-> None]

(* bread() returns *)
Lock(p, b) ==
    /\ holder[b] = None /\ view[p] = None
    /\ holder' = [holder EXCEPT ![b] = p]
    /\ view' = [view EXCEPT ![p] = mem[b]]
    /\ UNCHANGED <<mem, stored>>

Write(p, b, v) ==
    /\ holder[b] = p
    /\ mem' = [mem EXCEPT ![b] = v]
    /\ view' = [view EXCEPT ![p] = v]
    /\ UNCHANGED <<stored, holder>>

(* The disk has the block, in bwrite(). *)
Sync(b) ==
    /\ holder[b] # None
    /\ stored' = [stored EXCEPT ![b] = mem[b]]
    /\ UNCHANGED <<mem, holder, view>>

(* brelse() *)
Unlock(p, b) ==
    /\ holder[b] = p
    /\ holder' = [holder EXCEPT ![b] = None]
    /\ view' = [view EXCEPT ![p] = None]
    /\ UNCHANGED <<mem, stored>>

Next ==
    \E b \in Block :
        \/ Sync(b)
        \/ \E p \in Proc : Lock(p, b) \/ Unlock(p, b)
        \/ \E p \in Proc, v \in Value : Write(p, b, v)

Spec == Init /\ [][Next]_vars
=============================================================================
