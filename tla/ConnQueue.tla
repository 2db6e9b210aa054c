------------------------------ MODULE ConnQueue ------------------------------
(***************************************************************************)
(* What the proxy's buffer promises: a bounded queue of connections, taken *)
(* out in the order they were put in.                                      *)
(***************************************************************************)
EXTENDS Integers, Sequences

CONSTANTS Conn, Bound

VARIABLE queue

Init == queue = << >>

Insert ==
    /\ Len(queue) < Bound
    /\ \E c \in Conn : queue' = Append(queue, c)

Remove == queue # << >> /\ queue' = Tail(queue)

(* The process ends. *)
Drop == queue' = << >>

Spec == Init /\ [][Insert \/ Remove \/ Drop]_queue
=============================================================================
