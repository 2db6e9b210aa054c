------------------------------ MODULE Allocator ------------------------------
(***************************************************************************)
(* What malloc promises its clients (mm.h of the malloc lab): each block   *)
(* handed out lies in the arena, apart from the others, and keeps what its *)
(* client has written until the client frees it; realloc() keeps the part  *)
(* that both blocks have room for.                                         *)
(***************************************************************************)
EXTENDS Integers, Sequences

CONSTANTS Arena, Align  \* addresses a block may cover; alignment of blocks

VARIABLE store          \* the words of each block in use, by its address

Extent(a) == a .. a + Len(store[a]) - 1

Separate ==
    \A a \in DOMAIN store :
        /\ a % Align = 0 /\ Extent(a) \subseteq Arena
        /\ \A b \in DOMAIN store \ {a} : Extent(a) \cap Extent(b) = {}

(* The blocks in use afterwards are D; of those, the ones in A may have    *)
(* other contents than before.                                             *)
Becomes(D, A) ==
    /\ DOMAIN store' = D /\ Separate'
    /\ \A a \in D \ A : store'[a] = store[a]

Init == store = << >>

Alloc == \E a \in Arena \ DOMAIN store : Becomes(DOMAIN store \cup {a}, {a})
Free == \E a \in DOMAIN store : Becomes(DOMAIN store \ {a}, {})

Realloc ==
    \E a \in DOMAIN store, b \in Arena \ DOMAIN store :
        /\ Becomes((DOMAIN store \ {a}) \cup {b}, {b})
        /\ \A i \in DOMAIN store[a] \cap DOMAIN store'[b] :
              store'[b][i] = store[a][i]

Write ==
    \E a \in DOMAIN store :
        /\ Becomes(DOMAIN store, {a})
        /\ Len(store'[a]) = Len(store[a])

Next == Alloc \/ Free \/ Realloc \/ Write

Spec == Init /\ [][Next]_store
=============================================================================
