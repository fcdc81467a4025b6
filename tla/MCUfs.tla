------------------------------- MODULE MCUfs -------------------------------
(* Instances of Ufs for TLC: what an inode mkfs never wrote may hold, and   *)
(* what the uninitialised dirty bitmaps may hold.                           *)
EXTENDS UfsTree, TLC

ZeroInode == [type |-> UFS_DIRECTORY, size |-> 0, direct |-> [s \in Slots |-> 0]]
JunkInode == [type |-> UFS_REGULAR_FILE, size |-> 3, direct |-> NoBlocks]

OneStale == {ZeroInode}
TwoStale == {ZeroInode, JunkInode}

CleanDirty  == {{}}
AnyDirty    == {{}, {0, 2}}

NameSymmetry == Permutations(Names)
=============================================================================
