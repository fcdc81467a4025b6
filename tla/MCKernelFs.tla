----------------------------- MODULE MCKernelFs -----------------------------
(* Instances of KernelFs for TLC.  Memory read as a directory entry may look *)
(* like an unused entry, a directory called d..., or a file.                 *)
EXTENDS KernelFs

ZeroInode == [type |-> UFS_DIRECTORY, size |-> 0, direct |-> [s \in Slots |-> 0]]

OneStale   == {ZeroInode}
CleanDirty == {{}}

AnyEntry == {FreeCell} \cup {Entry(n, i) : n \in Names, i \in {0}}
=============================================================================
