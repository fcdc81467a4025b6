------------------------------ MODULE MCPaging ------------------------------
(* Instances of Paging for TLC: pages of 32 bytes, tables of 8 pages, words  *)
(* of 4 bits, so that 24 frames take 3 tables and a quarter of frames[], six *)
(* frames, is cleared.  Frames and bytes of a page keep the order they have  *)
(* in the kernel, 4096 and 4096.                                             *)
EXTENDS Paging

SmallModules == {k * PageSize : k \in 1 .. 9}
AnyModules   == {k * PageSize : k \in 1 .. 20}

Zeroed      == {{}}
SomeGarbage == SUBSET {6, 9, 13, 22}
SomeSizes   == {1, PageSize, PageSize + 1, 2 * PageSize + 3}
=============================================================================
