------------------------------ MODULE UfsTree ------------------------------
(***************************************************************************)
(* The tree that a ufs file system stores, in core and on the image, and   *)
(* the claim that Ufs implements FileSystem: for clients that do not       *)
(* unlink and only append, and a process that does not end inside a call.  *)
(***************************************************************************)
EXTENDS Ufs, Sequences

\* The behaviours of clients that do not unlink.
GrowNext == Grow \/ Handler \/ Restart
GrowSpec == Init /\ [][GrowNext]_vars

\* The entries that the inode table tab and the blocks hold in directory p, as
\* links <<directory, name, inode>>.
LinksIn(tab, p) ==
  {<<p, x.name, x.inum>> : x \in
     {y \in UNION {{blocks[a][c] : c \in Cells} :
                   a \in {tab[p].direct[s] : s \in Slots} \ {NoBlock}} :
        y.inum # -1 /\ y.name \in Names}}

\* Those of all directories a path of at most n names leads to.
LinksFrom(ibp, tab) ==
  LET reach[n \in 0 .. NumInodes - 1] ==
        IF n = 0 THEN LinksIn(tab, 0)
        ELSE LET links == reach[n - 1]
                 dirs  == {i \in ibp : /\ tab[i].type = UFS_DIRECTORY
                                       /\ \E l \in links : l[3] = i}
             IN links \cup UNION {LinksIn(tab, i) : i \in dirs}
  IN reach[NumInodes - 1]

\* Offset k of file i: the client's datum, or nothing a client wrote.
DatumAt(tab, i, k) ==
  IF tab[i].direct[k \div BlockSize] = NoBlock THEN <<"unreadable">>
  ELSE LET x == DiskCell(blocks, tab, i, k) IN
       IF x.name = FileBytes THEN <<x.inum, x.off>> ELSE <<"not written">>

\* An entry that names a free inode stays a link to nothing.
TreeOf(ibp, tab) ==
  LET links == LinksFrom(ibp, tab)
      files == {i \in ibp : /\ tab[i].type = UFS_REGULAR_FILE
                            /\ \E l \in links : l[3] = i}
  IN [links |-> {IF l[3] \in ibp THEN l ELSE <<l[1], l[2], -1>> : l \in links},
      files |-> [i \in files |-> [k \in 1 .. tab[i].size |-> DatumAt(tab, i, k - 1)]]]

InTree(i) == \E l \in LinksFrom(inode_bp, inodes) : l[3] = i

\* What of FileSystem a state shows.  A commit that has begun is as good as
\* done, for the process does not end inside it.
TreeBar  == TreeOf(inode_bp, inodes)
SavedBar == IF pc \in {"commit", "commit_inode"} THEN TreeOf(inode_bp, inodes)
                                                ELSE TreeOf(disk_inode_bp, disk_inodes)
WritingBar ==
  IF pc = "write" /\ InTree(frame.inum) THEN [file |-> frame.inum, left |-> frame.left]
                                        ELSE [file |-> 0, left |-> 0]
OkBar == pc = "idle" /\ last.ret = 0 /\ last.op \in {"creat", "write", "unlink"}

FS == INSTANCE FileSystem WITH
  Nodes <- Inodes, Root <- 0, FileNames <- Names, MaxLength <- Capacity,
  tree <- TreeBar, saved <- SavedBar, writing <- WritingBar, ok <- OkBar

\* Each call of ufs.c is one of the steps of FileSystem, however many bitmap
\* words, inodes and blocks it writes, and whatever the calls that failed
\* before it left behind in core (ufs.c:302-309): creat is all or nothing, a
\* restart finds the last tree a call made durable, a write that returns 0
\* (ufs.c:482) wrote all that fits below the last direct block.
Implements == FS!Spec
=============================================================================
