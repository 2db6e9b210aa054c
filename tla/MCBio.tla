-------------------------------- MODULE MCBio --------------------------------
(* Instances of Bio for TLC. *)
EXTENDS Bio, TLC

(* alloc_desc() scans disk.free[] from the start. *)
Lowest(S) == CHOOSE d \in S : \A e \in S : d <= e

Descriptors == 1 .. 7
Blank == {[b \in Block |-> CHOOSE v \in Value : TRUE]}
Symmetry == Permutations(Proc) \cup Permutations(Block) \cup Permutations(Buf)
=============================================================================
