---------------------------- MODULE PrivateMemory ----------------------------
(***************************************************************************)
(* What the kernel promises user programs about memory: each process has   *)
(* its own.  A child starts with a copy of its parent's; a store is seen   *)
(* by the process that made it and by no other.                            *)
(***************************************************************************)
EXTENDS Integers

CONSTANTS Proc, InitProc, MaxVA, InitSz, Value, Zero, NoVal

VARIABLES
    alive,          \* the processes that run user code
    mem             \* the memory of each: a value, or NoVal where it has none

memory == <<alive, mem>>
Address == 0 .. MaxVA - 1

Init ==
    /\ alive = {InitProc}
    /\ mem = [p \in Proc |-> [v \in Address |->
                IF p = InitProc /\ v < InitSz THEN Zero ELSE NoVal]]

Store(p, v, x) ==
    /\ p \in alive
    /\ mem[p][v] # NoVal
    /\ mem' = [mem EXCEPT ![p][v] = x]
    /\ UNCHANGED alive

Fork(p, c) ==
    /\ p \in alive /\ c \notin alive
    /\ alive' = alive \cup {c}
    /\ mem' = [mem EXCEPT ![c] = mem[p]]

(* Memory is kept below the smaller size, and zero where it is new. *)
Resize(p, n) ==
    /\ p \in alive
    /\ mem' = [mem EXCEPT ![p] = [v \in Address |->
                  IF v >= n THEN NoVal
                  ELSE IF mem[p][v] = NoVal THEN Zero ELSE mem[p][v]]]
    /\ UNCHANGED alive

Exit(p) ==
    /\ p \in alive
    /\ alive' = alive \ {p}
    /\ mem' = [mem EXCEPT ![p] = [v \in Address |-> NoVal]]

Next ==
    \E p \in Proc :
        \/ \E v \in Address, x \in Value : Store(p, v, x)
        \/ \E c \in Proc : Fork(p, c)
        \/ \E n \in 0 .. MaxVA : Resize(p, n)
        \/ Exit(p)

Spec == Init /\ [][Next]_memory
=============================================================================
