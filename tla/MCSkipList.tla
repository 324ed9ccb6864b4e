----------------------------- MODULE MCSkipList -----------------------------
(* Small instances of SkipList.  Node addresses and pointers are symmetric:
   the code compares pointers for equality only. *)
EXTENDS SkipList, TLC

Symmetry == Permutations(Node) \cup Permutations(Val)

KeysUpTo3   == {1, 2, 3}
TailZero    == {0}      \* a fresh heap page: tail->key reads 0
TailUnset   == {0, 2}   \* recycled memory: any value, above some keys
TailNull    == {Null}
TailWild    == {Null, Wild}
RequestsWild == {-1, 9} \* corrected to 1 and to MaxHeight
=============================================================================
