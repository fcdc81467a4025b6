------------------------------- MODULE MCMkfs -------------------------------
(* Instances of Mkfs for TLC.  An int of the instance counts the bytes of 16 *)
(* inodes: the arguments are on both sides of the overflow to negative sizes *)
(* and of the one back to small sizes.                                       *)
EXTENDS Mkfs, TLC

OneStale   == {BlankInode}
CleanDirty == {{}}

AllInodeArgs == 0 .. 40
AllDataArgs  == {1, 3, 9, 17}

NameSymmetry == Permutations(Names)
=============================================================================
