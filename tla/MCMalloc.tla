------------------------------ MODULE MCMalloc ------------------------------
(* Instances of Malloc for TLC. *)
EXTENDS Malloc, TLC

(* A word that looks like the header of a free block, and one that looks   *)
(* like that of a block in use.                                            *)
FakeTags == {Pack(2, 0), Pack(4, 1)}
=============================================================================
