--------------------------- MODULE UfsDataProofs ---------------------------
(* Proofs about the data of Ufs, when clients do not unlink: no block is    *)
(* lost, a directory's size counts its entries and lookup finds them, an    *)
(* append-only file reads back what was written, and what was committed     *)
(* survives every later step.                                               *)
EXTENDS UfsProofs

(***************************************************************************)
(* The data of the file system.                                            *)
(***************************************************************************)

\* The cells of inode x fill its slots from the front: a slot is set just
\* when a cell below size lies in it.
Packed(x) ==
  /\ x.size \in 0 .. Capacity
  /\ \A s \in Slots : x.direct[s] # NoBlock <=> s * BlockSize < x.size

\* Cell c of slot s lies below the end of x.
Below(x, s, c) == s * BlockSize + c < x.size

\* What an entry in use holds.
EntryOK(ent) == ent.inum \in Inodes /\ ent.name \in Names \cup {Dot, DotDot}

\* The entries of directory x are its first size cells, the other cells of its
\* blocks are free, and no name occurs twice.
DirOK(x, b) ==
  /\ Packed(x)
  /\ \A s \in Slots, c \in Cells : x.direct[s] # NoBlock =>
       IF Below(x, s, c) THEN EntryOK(b[x.direct[s]][c])
                         ELSE b[x.direct[s]][c].inum = -1
  /\ \A s, u \in Slots, c, d \in Cells :
       (/\ Below(x, s, c) /\ Below(x, u, d)
        /\ b[x.direct[s]][c].name = b[x.direct[u]][d].name
        /\ b[x.direct[s]][c].name \in Names) => s = u /\ c = d

\* File i holds in each cell below its size the bytes written there.
FileOK(i, x, b) ==
  /\ Packed(x)
  /\ \A s \in Slots, c \in Cells :
       Below(x, s, c) => b[x.direct[s]][c] = Byte(i, s * BlockSize + c)

\* An allocated inode is in order, or one that a failed creat leaked: then it
\* has the size mkfs or an earlier file left, and a directory has no block.
InodeOK(i, x, b, lk) ==
  \/ /\ x.type = UFS_DIRECTORY => DirOK(x, b)
     /\ x.type = UFS_REGULAR_FILE /\ AppendOnly => FileOK(i, x, b)
  \/ i \in lk /\ (x.type = UFS_DIRECTORY => x.direct = NoBlocks)

\* Every bit of data bitmap db stands for a block in a slot of an inode.
NoneLost(ib, tab, db) ==
  \A d \in db : \E i \in ib, s \in Slots : tab[i].direct[s] = d + DataStart

\* What is in core extends the committed entry of inode i.
Extends(i) ==
  /\ inodes[i].type = disk_inodes[i].type
  /\ disk_inodes[i].size <= inodes[i].size
  /\ \A s \in Slots : disk_inodes[i].direct[s] # NoBlock =>
                        inodes[i].direct[s] = disk_inodes[i].direct[s]

Committing == {"commit", "commit_inode"}

CoreOK ==
  /\ \A i \in inode_bp : InodeOK(i, inodes[i], blocks, leaked)
  /\ NoneLost(inode_bp, inodes, data_bp)

ImageOK ==
  /\ \A i \in disk_inode_bp : InodeOK(i, disk_inodes[i], blocks, leaked)
  /\ NoneLost(disk_inode_bp, disk_inodes, disk_data_bp)
  /\ disk_inode_bp \subseteq durable

DurableOK ==
  /\ durable \subseteq disk_inode_bp /\ disk_inode_bp \subseteq inode_bp
  /\ \A i \in durable : Extends(i)
  /\ inode_bp \ durable \subseteq
       dirty_inode_bp \cup (IF pc = "commit_inode" THEN {frame.at} ELSE {})
  /\ pc = "commit_inode" => {frame.at} \cap inode_bp \subseteq disk_inode_bp

\* The parent that ufs_creat is about to link the new inode into.
LinkState ==
  LET p == frame.inum IN
  /\ p \in inode_bp /\ frame.new \in inode_bp /\ frame.new # p
  /\ inodes[p].type = UFS_DIRECTORY /\ DirOK(inodes[p], blocks)
  /\ inodes[p].size < Capacity
  /\ frame.full <=> IsFull(p)
  /\ frame.name \in Names
  /\ \A s \in Slots, c \in Cells :
       Below(inodes[p], s, c) => blocks[inodes[p].direct[s]][c].name # frame.name

\* Where ufs_write is in its file.
WriteState ==
  /\ frame.inum \in inode_bp /\ inodes[frame.inum].type = UFS_REGULAR_FILE
  /\ AppendOnly /\ frame.left > 0 =>
       frame.blk * BlockSize + frame.off = inodes[frame.inum].size

DataOK ==
  ~torn =>
    /\ CoreOK /\ DurableOK
    /\ pc \notin Committing => ImageOK
    /\ pc = "link" => LinkState
    /\ pc = "write" => WriteState
    /\ pc \in Dead /\ AppendOnly => leaked # {}

DataInv == OwnedInv /\ DataOK

\* A step that leaves the directories and the blocks of their entries alone,
DirsStay ==
  \A i \in inode_bp :
    /\ inodes'[i].type = inodes[i].type
    /\ inodes[i].type = UFS_DIRECTORY =>
         /\ inodes'[i] = inodes[i]
         /\ \A s \in Slots, c \in Cells : inodes[i].direct[s] # NoBlock =>
              blocks'[inodes[i].direct[s]][c] = blocks[inodes[i].direct[s]][c]

\* and one that puts the entry of the new inode into cell o of slot t of the
\* parent and leaves everything else in use alone.
LinkedAt(t, o) ==
  LET p == frame.inum IN
  /\ t * BlockSize + o = inodes[p].size
  /\ inodes'[p].type = UFS_DIRECTORY /\ inodes'[p].size = inodes[p].size + 1
  /\ DirOK(inodes'[p], blocks')
  /\ blocks'[inodes'[p].direct[t]][o] = Entry(frame.name, frame.new)
  /\ \A s \in Slots, c \in Cells : Below(inodes[p], s, c) =>
       /\ inodes'[p].direct[s] = inodes[p].direct[s]
       /\ blocks'[inodes[p].direct[s]][c] = blocks[inodes[p].direct[s]][c]
  /\ \A i \in inode_bp \ {p} :
       /\ inodes'[i] = inodes[i]
       /\ \A s \in Slots, c \in Cells : inodes[i].direct[s] # NoBlock =>
            blocks'[inodes[i].direct[s]][c] = blocks[inodes[i].direct[s]][c]
  /\ pc' = "commit" /\ UNCHANGED <<inode_bp, disk_inode_bp, disk_inodes, leaked>>

-----------------------------------------------------------------------------
(* Offsets, slots and cells.                                               *)

\* The sizes as the provers need them.
LEMMA Sizes ==
  /\ BlockSize \in Nat /\ BlockSize >= 2 /\ DirectPtrs \in Nat /\ DirectPtrs >= 1
  /\ Capacity \in Nat /\ Capacity >= BlockSize
  /\ \A s \in Slots : s \in Nat /\ s < DirectPtrs /\ s * BlockSize \in Nat
  /\ \A c \in Cells : c \in Nat /\ c < BlockSize
<1>1. BlockSize \in Nat /\ BlockSize >= 2 /\ DirectPtrs \in Nat /\ DirectPtrs >= 1
  BY SizesAssumption
<1>2. Capacity \in Nat /\ Capacity >= BlockSize
  BY <1>1 DEF Capacity
<1>3. \A s \in Slots : s \in Nat /\ s < DirectPtrs /\ s * BlockSize \in Nat
  BY <1>1 DEF Slots
<1> QED BY <1>1, <1>2, <1>3 DEF Cells

\* A slot ends where the next one begins at the latest.
LEMMA SlotOrder ==
  ASSUME NEW s \in Nat, NEW t \in Nat, s < t
  PROVE  s * BlockSize + BlockSize <= t * BlockSize
<1>1. PICK n \in Nat : t = s + 1 + n
  <2>1. t - s - 1 \in Nat /\ t = s + 1 + (t - s - 1)
    OBVIOUS
  <2> QED BY <2>1
<1>2. t * BlockSize = s * BlockSize + BlockSize + n * BlockSize
  BY <1>1, Sizes
<1>3. n * BlockSize >= 0
  BY Sizes
<1> QED BY <1>2, <1>3, Sizes

\* The last slot ends where the inode does.
LEMMA SlotEnds ==
  ASSUME NEW s \in Slots
  PROVE  /\ s * BlockSize + BlockSize <= Capacity
         /\ s + 1 = DirectPtrs => s * BlockSize + BlockSize = Capacity
         /\ s + 1 \in Slots => (s + 1) * BlockSize = s * BlockSize + BlockSize
BY Sizes, SlotOrder DEF Capacity

LEMMA Division ==
  ASSUME NEW k \in Nat
  PROVE  /\ k \div BlockSize \in Nat /\ k % BlockSize \in 0 .. BlockSize - 1
         /\ k = (k \div BlockSize) * BlockSize + (k % BlockSize)
<1>1. BlockSize \in Nat \ {0}
  BY Sizes
<1>2. k = BlockSize * (k \div BlockSize) + (k % BlockSize)
  BY <1>1
<1>3. k \div BlockSize \in Nat /\ k % BlockSize \in 0 .. BlockSize - 1
  BY <1>1
<1>4. BlockSize * (k \div BlockSize) = (k \div BlockSize) * BlockSize
  <2> DEFINE q == k \div BlockSize
  <2>1. q \in Nat
    BY <1>3
  <2> HIDE DEF q
  <2>2. BlockSize * q = q * BlockSize
    BY <2>1, Sizes
  <2> QED BY <2>2 DEF q
<1> QED BY <1>2, <1>3, <1>4

\* An offset determines its slot and cell.
LEMMA OffsetOf ==
  ASSUME NEW s \in Slots, NEW c \in Cells
  PROVE  LET k == s * BlockSize + c IN
         /\ k \in 0 .. Capacity - 1
         /\ k \div BlockSize = s /\ k % BlockSize = c
<1> DEFINE k == s * BlockSize + c
<1>1. k \in 0 .. Capacity - 1
  BY Sizes, SlotEnds
<1>2. k \in Nat /\ s * BlockSize <= k /\ k < s * BlockSize + BlockSize
  BY Sizes
<1> HIDE DEF k
<1>3. /\ k \div BlockSize \in Nat /\ k % BlockSize \in 0 .. BlockSize - 1
      /\ k = (k \div BlockSize) * BlockSize + (k % BlockSize)
  BY <1>2, Division
<1>4. k \div BlockSize = s
  <2> DEFINE q == k \div BlockSize
             r == k % BlockSize
  <2>1. q \in Nat /\ r \in 0 .. BlockSize - 1 /\ k = q * BlockSize + r
    BY <1>3
  <2> HIDE DEF q, r
  <2>2. q < s => q * BlockSize + BlockSize <= s * BlockSize
    BY <2>1, Sizes, SlotOrder
  <2>3. s < q => s * BlockSize + BlockSize <= q * BlockSize
    BY <2>1, Sizes, SlotOrder
  <2>4. q = s
    BY <2>1, <2>2, <2>3, <1>2, Sizes
  <2> QED BY <2>4 DEF q
<1>5. k % BlockSize = c
  <2> DEFINE r == k % BlockSize
  <2>1. r \in Nat /\ k = s * BlockSize + r /\ k = s * BlockSize + c
    BY <1>3, <1>4, Sizes DEF k
  <2> HIDE DEF r
  <2>2. r = c
    BY <2>1, Sizes
  <2> QED BY <2>2 DEF r
<1> QED BY <1>1, <1>4, <1>5 DEF k

LEMMA OffsetSplit ==
  ASSUME NEW k \in 0 .. Capacity - 1
  PROVE  /\ k \div BlockSize \in Slots /\ k % BlockSize \in Cells
         /\ k = (k \div BlockSize) * BlockSize + (k % BlockSize)
<1>1. k \in Nat
  BY Sizes
<1> QED BY <1>1, SlotOfOffset, Division

-----------------------------------------------------------------------------
(* Inodes that stay as they are, are made, and grow.                       *)

\* A cell below the end lies in a slot that is set.
LEMMA CellIsSet ==
  ASSUME NEW x, Packed(x), NEW s \in Slots, NEW c \in Cells, Below(x, s, c)
  PROVE  x.direct[s] # NoBlock
<1>1. x.size \in Int /\ s * BlockSize \in Nat /\ c \in Nat
  BY Sizes DEF Packed
<1>2. s * BlockSize < x.size
  BY <1>1 DEF Below
<1> QED BY <1>2 DEF Packed

\* An inode whose cells keep their contents, of a file those below its end.
LEMMA InodeKept ==
  ASSUME NEW i, NEW x, NEW b, NEW b2, NEW lk, NEW lk2,
         InodeOK(i, x, b, lk), i \in lk => i \in lk2,
         \A s \in Slots, c \in Cells :
           /\ x.direct[s] # NoBlock
           /\ x.type = UFS_DIRECTORY \/ (AppendOnly /\ Below(x, s, c))
           => b2[x.direct[s]][c] = b[x.direct[s]][c]
  PROVE  InodeOK(i, x, b2, lk2)
<1>1. CASE i \in lk /\ (x.type = UFS_DIRECTORY => x.direct = NoBlocks)
  BY <1>1 DEF InodeOK
<1>2. CASE /\ x.type = UFS_DIRECTORY => DirOK(x, b)
           /\ x.type = UFS_REGULAR_FILE /\ AppendOnly => FileOK(i, x, b)
  <2>1. ASSUME DirOK(x, b), x.type = UFS_DIRECTORY PROVE DirOK(x, b2)
    <3>1. \A s \in Slots, c \in Cells : Below(x, s, c) => x.direct[s] # NoBlock
      BY <2>1, CellIsSet DEF DirOK
    <3>2. \A s \in Slots, c \in Cells : x.direct[s] # NoBlock =>
                                        b2[x.direct[s]][c] = b[x.direct[s]][c]
      BY <2>1
    <3>3. Packed(x)
      BY <2>1 DEF DirOK
    <3>4. \A s \in Slots, c \in Cells : x.direct[s] # NoBlock =>
            IF Below(x, s, c) THEN EntryOK(b2[x.direct[s]][c])
                              ELSE b2[x.direct[s]][c].inum = -1
      <4> TAKE s \in Slots, c \in Cells
      <4> HAVE x.direct[s] # NoBlock
      <4>1. IF Below(x, s, c) THEN EntryOK(b[x.direct[s]][c])
                              ELSE b[x.direct[s]][c].inum = -1
        BY <2>1 DEF DirOK
      <4>2. b2[x.direct[s]][c] = b[x.direct[s]][c]
        BY <3>2
      <4> QED BY <4>1, <4>2
    <3>5. \A s, u \in Slots, c, d \in Cells :
            (/\ Below(x, s, c) /\ Below(x, u, d)
             /\ b2[x.direct[s]][c].name = b2[x.direct[u]][d].name
             /\ b2[x.direct[s]][c].name \in Names) => s = u /\ c = d
      <4> TAKE s, u \in Slots, c, d \in Cells
      <4> HAVE /\ Below(x, s, c) /\ Below(x, u, d)
               /\ b2[x.direct[s]][c].name = b2[x.direct[u]][d].name
               /\ b2[x.direct[s]][c].name \in Names
      <4>1. /\ b2[x.direct[s]][c] = b[x.direct[s]][c]
            /\ b2[x.direct[u]][d] = b[x.direct[u]][d]
        BY <3>1, <3>2
      <4> QED BY <2>1, <4>1 DEF DirOK
    <3> QED BY <3>3, <3>4, <3>5 DEF DirOK
  <2>2. ASSUME FileOK(i, x, b), AppendOnly PROVE FileOK(i, x, b2)
    <3>1. \A s \in Slots, c \in Cells : Below(x, s, c) => x.direct[s] # NoBlock
      BY <2>2, CellIsSet DEF FileOK
    <3> QED BY <2>2, <3>1 DEF FileOK
  <2> QED BY <1>2, <2>1, <2>2 DEF InodeOK
<1> QED BY <1>1, <1>2 DEF InodeOK

LEMMA DirIsOK ==
  ASSUME NEW i, NEW x, NEW b, NEW lk, x.type = UFS_DIRECTORY, DirOK(x, b)
  PROVE  InodeOK(i, x, b, lk)
<1>1. x.type # UFS_REGULAR_FILE
  BY DEF UFS_DIRECTORY, UFS_REGULAR_FILE
<1> QED BY <1>1, Zenon DEF InodeOK

LEMMA FileIsOK ==
  ASSUME NEW i, NEW x, NEW b, NEW lk, x.type = UFS_REGULAR_FILE,
         AppendOnly => FileOK(i, x, b)
  PROVE  InodeOK(i, x, b, lk)
<1>1. x.type # UFS_DIRECTORY
  BY DEF UFS_DIRECTORY, UFS_REGULAR_FILE
<1> QED BY <1>1, Zenon DEF InodeOK

LEMMA LeakedFileIsOK ==
  ASSUME NEW i, NEW x, NEW b, NEW lk, i \in lk, x.type = UFS_REGULAR_FILE
  PROVE  InodeOK(i, x, b, lk)
<1>1. x.type # UFS_DIRECTORY
  BY DEF UFS_DIRECTORY, UFS_REGULAR_FILE
<1> QED BY <1>1, Zenon DEF InodeOK

\* A new directory holds . and .. in its one block, a new file nothing.
LEMMA FreshDir ==
  ASSUME NEW x, NEW b, NEW a, a # NoBlock, NEW e \in Inodes, NEW q \in Inodes,
         x.size = 2, x.direct = [NoBlocks EXCEPT ![0] = a], b[a] = EmptyDir(e, q)
  PROVE  DirOK(x, b)
<1>1. /\ 0 \in Slots /\ x.direct[0] = a
      /\ \A s \in Slots \ {0} : x.direct[s] = NoBlock
  BY Addresses DEF NoBlocks
<1>2. \A s \in Slots \ {0} : s * BlockSize >= 2
  BY Sizes, SlotOrder
<1>3. Packed(x)
  BY <1>1, <1>2, Sizes DEF Packed
<1>4. ASSUME NEW s \in Slots, NEW c \in Cells
      PROVE  Below(x, s, c) <=> s = 0 /\ c \in {0, 1}
  BY <1>2, Sizes DEF Below
<1>5. \A c \in Cells : IF c \in {0, 1} THEN EntryOK(b[a][c])
                                        ELSE b[a][c].inum = -1
  BY DEF EmptyDir, Entry, FreeCell, EntryOK
<1>6. \A c \in Cells : c \in {0, 1} => b[a][c].name \notin Names
  BY ClientAssumption DEF EmptyDir, Entry
<1> QED BY <1>1, <1>3, <1>4, <1>5, <1>6 DEF DirOK

LEMMA FreshFile ==
  ASSUME NEW i, NEW x, NEW b, x.size = 0, x.direct = NoBlocks
  PROVE  FileOK(i, x, b)
<1>1. ~ \E s \in Slots, c \in Cells : Below(x, s, c)
  BY Sizes DEF Below
<1>2. \A s \in Slots : x.direct[s] = NoBlock /\ ~(s * BlockSize < x.size)
  BY Sizes DEF NoBlocks
<1> QED BY <1>1, <1>2, Sizes DEF FileOK, Packed

\* z cells more, from cell o of slot t on, which is where x ends.
LEMMA PackedGrows ==
  ASSUME NEW x, Packed(x), NEW t \in Slots, NEW o \in Cells,
         t * BlockSize + o = x.size, NEW z \in 1 .. BlockSize - o,
         NEW y, y.size = x.size + z, y.direct[t] # NoBlock,
         \A s \in Slots \ {t} : y.direct[s] = x.direct[s]
  PROVE  /\ Packed(y)
         /\ \A s \in Slots, c \in Cells :
              Below(y, s, c) <=> Below(x, s, c) \/ (s = t /\ c \in o .. o + z - 1)
<1>1. x.size \in 0 .. Capacity /\ y.size \in 0 .. Capacity
  BY Sizes, SlotEnds DEF Packed
<1>2. ASSUME NEW s \in Slots, s # t
      PROVE  \/ s * BlockSize + BlockSize <= x.size
             \/ s * BlockSize >= y.size
  <2>1. s < t => s * BlockSize + BlockSize <= t * BlockSize
    BY Sizes, SlotOrder
  <2>2. t < s => t * BlockSize + BlockSize <= s * BlockSize
    BY Sizes, SlotOrder
  <2> QED BY <1>1, <1>2, <2>1, <2>2, Sizes
<1>3. \A s \in Slots : y.direct[s] # NoBlock <=> s * BlockSize < y.size
  <2>1. ASSUME NEW s \in Slots, s # t
        PROVE  s * BlockSize < y.size <=> s * BlockSize < x.size
    BY <1>1, <1>2, <2>1, Sizes
  <2>2. t * BlockSize < y.size
    BY Sizes
  <2> QED BY <2>1, <2>2 DEF Packed
<1>4. ASSUME NEW s \in Slots, NEW c \in Cells
      PROVE  Below(y, s, c) <=> Below(x, s, c) \/ (s = t /\ c \in o .. o + z - 1)
  <2>1. CASE s = t
    BY <2>1, <1>1, Sizes DEF Below
  <2>2. CASE s # t
    BY <2>2, <1>1, <1>2, Sizes DEF Below
  <2> QED BY <2>1, <2>2
<1> QED BY <1>1, <1>3, <1>4 DEF Packed

\* One entry more.
LEMMA DirGrows ==
  ASSUME NEW x, NEW b, DirOK(x, b), NEW t \in Slots, NEW o \in Cells,
         t * BlockSize + o = x.size,
         NEW y, y.size = x.size + 1, y.direct[t] # NoBlock,
         \A s \in Slots \ {t} : y.direct[s] = x.direct[s],
         NEW n \in Names, NEW e \in Inodes, NEW b2, b2[y.direct[t]][o] = Entry(n, e),
         \A s \in Slots, c \in Cells :
           Below(x, s, c) => b2[y.direct[s]][c] = b[x.direct[s]][c],
         \A s \in Slots, c \in Cells :
           y.direct[s] # NoBlock /\ ~Below(x, s, c) /\ ~(s = t /\ c = o) =>
             b2[y.direct[s]][c].inum = -1,
         \A s \in Slots, c \in Cells : Below(x, s, c) => b[x.direct[s]][c].name # n
  PROVE  DirOK(y, b2)
<1>1. Packed(x) /\ 1 \in 1 .. BlockSize - o /\ o .. o + 1 - 1 = {o}
  <2>1. 1 \in 1 .. BlockSize - o /\ o .. o + 1 - 1 = {o}
    BY Sizes
  <2> QED BY <2>1 DEF DirOK
<1>2. /\ Packed(y)
      /\ \A s \in Slots, c \in Cells :
           Below(y, s, c) <=> Below(x, s, c) \/ (s = t /\ c = o)
  BY <1>1, PackedGrows
<1>3. \A s \in Slots, c \in Cells : Below(x, s, c) => x.direct[s] # NoBlock
  BY <1>1, CellIsSet
<1>4. b2[y.direct[t]][o].name = n /\ EntryOK(b2[y.direct[t]][o])
  BY DEF Entry, EntryOK
<1>5. ASSUME NEW s \in Slots, NEW c \in Cells, y.direct[s] # NoBlock
      PROVE  IF Below(y, s, c) THEN EntryOK(b2[y.direct[s]][c])
                               ELSE b2[y.direct[s]][c].inum = -1
  <2>1. CASE s = t /\ c = o
    BY <2>1, <1>2, <1>4
  <2>2. CASE ~(s = t /\ c = o)
    BY <2>2, <1>2, <1>3, <1>5 DEF DirOK
  <2> QED BY <2>1, <2>2
<1>6. ASSUME NEW s \in Slots, NEW u \in Slots, NEW c \in Cells, NEW d \in Cells,
             Below(y, s, c), Below(y, u, d),
             b2[y.direct[s]][c].name = b2[y.direct[u]][d].name,
             b2[y.direct[s]][c].name \in Names
      PROVE  s = u /\ c = d
  <2>1. CASE Below(x, s, c) /\ Below(x, u, d)
    <3>1. /\ b[x.direct[s]][c].name = b[x.direct[u]][d].name
          /\ b[x.direct[s]][c].name \in Names
      BY <2>1, <1>6
    <3> QED BY <2>1, <3>1 DEF DirOK
  <2>2. CASE ~(Below(x, s, c) /\ Below(x, u, d))
    BY <2>2, <1>2, <1>4, <1>6, SMTT(40)
  <2> QED BY <2>1, <2>2
<1> QED BY <1>2, <1>5, <1>6 DEF DirOK

\* z cells more of file i.
LEMMA FileGrows ==
  ASSUME NEW i, NEW x, NEW b, FileOK(i, x, b), NEW t \in Slots, NEW o \in Cells,
         t * BlockSize + o = x.size, NEW z \in 1 .. BlockSize - o,
         NEW y, y.size = x.size + z, y.direct[t] # NoBlock,
         \A s \in Slots \ {t} : y.direct[s] = x.direct[s],
         NEW b2,
         \A s \in Slots, c \in Cells :
           Below(x, s, c) => b2[y.direct[s]][c] = b[x.direct[s]][c],
         \A c \in o .. o + z - 1 : b2[y.direct[t]][c] = Byte(i, t * BlockSize + c)
  PROVE  FileOK(i, y, b2)
<1>1. Packed(x)
  BY DEF FileOK
<1>2. /\ Packed(y)
      /\ \A s \in Slots, c \in Cells :
           Below(y, s, c) <=> Below(x, s, c) \/ (s = t /\ c \in o .. o + z - 1)
  BY <1>1, PackedGrows
<1> QED BY <1>2 DEF FileOK

-----------------------------------------------------------------------------
(* What ufs_lookup and ufs_read answer.                                    *)

\* An offset below the end of a packed inode can be read.
LEMMA PackedCell ==
  ASSUME NEW i, Packed(inodes[i]), NEW k \in Nat, k < inodes[i].size
  PROVE  /\ k \in 0 .. Capacity - 1
         /\ k \div BlockSize \in Slots /\ k % BlockSize \in Cells
         /\ Below(inodes[i], k \div BlockSize, k % BlockSize)
         /\ Ptr(i, k) # NoBlock
<1>1. k \in 0 .. Capacity - 1
  BY Sizes DEF Packed
<1>2. /\ k \div BlockSize \in Slots /\ k % BlockSize \in Cells
      /\ k = (k \div BlockSize) * BlockSize + (k % BlockSize)
  BY <1>1, OffsetSplit
<1>3. Below(inodes[i], k \div BlockSize, k % BlockSize)
  BY <1>2 DEF Below
<1>4. Ptr(i, k) # NoBlock
  BY <1>2, <1>3, CellIsSet DEF Ptr
<1> QED BY <1>1, <1>2, <1>3, <1>4

\* In a directory in order ufs_lookup finds the entry of that name, or there
\* is none.
LEMMA LookupOfDir ==
  ASSUME NEW p \in Inodes \cap inode_bp, inodes[p].type = UFS_DIRECTORY,
         DirOK(inodes[p], blocks), NEW n
  PROVE  \/ /\ ufs_lookup(p, n) = -1
            /\ \A s \in Slots, c \in Cells : Below(inodes[p], s, c) =>
                 blocks[inodes[p].direct[s]][c].name # n
         \/ \E s \in Slots, c \in Cells :
              /\ Below(inodes[p], s, c) /\ blocks[inodes[p].direct[s]][c].name = n
              /\ ufs_lookup(p, n) = blocks[inodes[p].direct[s]][c].inum
              /\ ufs_lookup(p, n) \in Inodes
<1> DEFINE x == inodes[p]
<1>1. Packed(x) /\ x.size \in 0 .. Capacity
  BY DEF DirOK, Packed
<1>2. EntriesRead(p) = x.size
  BY <1>1 DEF EntriesRead
<1>3. ASSUME NEW k \in 0 .. x.size - 1
      PROVE  \E s \in Slots, c \in Cells :
               /\ Below(x, s, c) /\ s = k \div BlockSize /\ c = k % BlockSize
               /\ Ptr(p, k) # NoBlock /\ CellAt(p, k) = blocks[x.direct[s]][c]
               /\ CellAt(p, k).inum \in Inodes
  <2> DEFINE s == k \div BlockSize
             c == k % BlockSize
  <2>1. k \in Nat /\ k < x.size
    BY <1>1, Sizes
  <2>2. s \in Slots /\ c \in Cells /\ Below(x, s, c) /\ Ptr(p, k) # NoBlock
    BY <1>1, <2>1, PackedCell
  <2>3. Ptr(p, k) = x.direct[s] /\ CellAt(p, k) = blocks[x.direct[s]][c]
    BY DEF Ptr, CellAt
  <2>4. CellAt(p, k).inum \in Inodes
    BY <2>2, <2>3 DEF DirOK, EntryOK
  <2> QED BY <2>2, <2>3, <2>4
<1>4. -1 \notin Inodes
  BY DEF Inodes
<1>5. LookupStops(p, n) = {k \in 0 .. x.size - 1 : CellAt(p, k).name = n}
  BY <1>2, <1>3, <1>4 DEF LookupStops
<1>6. CASE LookupStops(p, n) = {}
  <2>1. ufs_lookup(p, n) = -1
    BY <1>6 DEF ufs_lookup
  <2>2. ASSUME NEW s \in Slots, NEW c \in Cells, Below(x, s, c)
        PROVE  blocks[x.direct[s]][c].name # n
    <3> DEFINE k == s * BlockSize + c
    <3>1. k \in 0 .. x.size - 1
      BY <1>1, <2>2, Sizes DEF Below
    <3>2. k \div BlockSize = s /\ k % BlockSize = c
      BY OffsetOf
    <3>3. CellAt(p, k).name # n
      BY <1>5, <1>6, <3>1
    <3> QED BY <3>2, <3>3 DEF CellAt, Ptr
  <2> QED BY <2>1, <2>2
<1>7. CASE LookupStops(p, n) # {}
  <2> DEFINE k == Min(LookupStops(p, n))
  <2>1. LookupStops(p, n) \in SUBSET Nat
    BY <1>1, <1>5, Sizes
  <2>2. k \in LookupStops(p, n)
    BY <1>7, <2>1, MinNat
  <2>3. k \in 0 .. x.size - 1 /\ CellAt(p, k).name = n
    BY <1>5, <2>2
  <2>4. PICK s \in Slots, c \in Cells :
               /\ Below(x, s, c)
               /\ Ptr(p, k) # NoBlock /\ CellAt(p, k) = blocks[x.direct[s]][c]
               /\ CellAt(p, k).inum \in Inodes
    BY <1>3, <2>3
  <2>5. ufs_lookup(p, n) = CellAt(p, k).inum
    BY <1>4, <1>7, <2>4 DEF ufs_lookup
  <2> QED BY <2>3, <2>4, <2>5
<1> QED BY <1>6, <1>7

\* The process can only die of a lookup in a directory that was leaked,
LEMMA LookupDies ==
  ASSUME TypeOK, CoreOK, NEW p \in Int, NEW n, Dies(ufs_lookup(p, n))
  PROVE  leaked # {}
<1>1. p \in Inodes \cap inode_bp /\ inodes[p].type = UFS_DIRECTORY
  BY DEF ufs_lookup, Dies, Exits, AssertFails
<1>2. ~DirOK(inodes[p], blocks)
  <2>1. DirOK(inodes[p], blocks) => ufs_lookup(p, n) \in Inodes \cup {-1}
    BY <1>1, LookupOfDir
  <2> QED BY <2>1 DEF Dies, Exits, AssertFails, Inodes
<1> QED BY <1>1, <1>2 DEF CoreOK, InodeOK

\* or of a read from an inode that was leaked.
LEMMA ReadDies ==
  ASSUME TypeOK, CoreOK, AppendOnly, NEW i \in Int, NEW off \in Int, NEW n \in Int,
         Dies(ufs_read(i, off, n))
  PROVE  leaked # {}
<1>1. i \in Inodes \cap inode_bp /\ off >= 0 /\ off + n <= inodes[i].size
  BY DEF ufs_read, Dies, Exits, AssertFails, TypeOK, Inode
<1>2. PICK k \in ReadRange(off, n) : Ptr(i, k) = NoBlock
  BY DEF ufs_read, Dies, Exits, AssertFails
<1>3. inodes[i].type \in {UFS_DIRECTORY, UFS_REGULAR_FILE} /\ inodes[i].size \in Int
  BY <1>1 DEF TypeOK, Inode
<1>4. ~Packed(inodes[i])
  <2>1. k \in Nat /\ k < inodes[i].size
    BY <1>1, <1>3 DEF ReadRange
  <2> QED BY <1>2, <2>1, PackedCell
<1> QED BY <1>1, <1>3, <1>4 DEF CoreOK, InodeOK, DirOK, FileOK

\* A creat that goes on has a parent in order that does not hold the name: a
\* leaked one in which the lookup finds nothing has size zero.
LEMMA ParentInOrder ==
  ASSUME TypeOK, CoreOK, NEW p, NEW n, CreatRefusal(p, n) = 0
  PROVE  /\ p \in Inodes \cap inode_bp /\ inodes[p].type = UFS_DIRECTORY
         /\ DirOK(inodes[p], blocks)
         /\ \A s \in Slots, c \in Cells : Below(inodes[p], s, c) =>
              blocks[inodes[p].direct[s]][c].name # n
<1>1. p \in Inodes \cap inode_bp /\ inodes[p].type = UFS_DIRECTORY
  BY CreatGoesOn DEF CreatArgsRefused
<1>2. ufs_lookup(p, n) = -1
  BY DEF CreatRefusal, Dies, Exits, AssertFails
<1>3. DirOK(inodes[p], blocks)
  <2>1. SUFFICES ASSUME inodes[p].direct = NoBlocks PROVE DirOK(inodes[p], blocks)
    BY <1>1 DEF CoreOK, InodeOK
  <2>2. inodes[p].size = 0
    <3>1. SUFFICES ASSUME inodes[p].size # 0 PROVE FALSE
      OBVIOUS
    <3>2. inodes[p].size \in Int
      BY <1>1 DEF TypeOK, Inode
    <3>3. 0 \in 0 .. EntriesRead(p) - 1
      BY <3>1, <3>2, Sizes DEF EntriesRead
    <3>4. Ptr(p, 0) = NoBlock
      <4>1. 0 \div BlockSize = 0
        BY Sizes
      <4> QED BY <2>1, <4>1, Addresses DEF Ptr, NoBlocks
    <3>5. 0 \in LookupStops(p, n)
      BY <3>3, <3>4 DEF LookupStops
    <3> DEFINE k == Min(LookupStops(p, n))
    <3>6. LookupStops(p, n) \in SUBSET Nat
      <4>1. LookupStops(p, n) \subseteq 0 .. EntriesRead(p) - 1
        BY DEF LookupStops
      <4> QED BY <4>1
    <3>7. k = 0
      BY <3>5, <3>6, MinNat
    <3>8. ufs_lookup(p, n) = Exits
      BY <1>1, <3>4, <3>5, <3>7 DEF ufs_lookup
    <3> QED BY <1>2, <3>8 DEF Exits
  <2>3. ~ \E s \in Slots, c \in Cells : Below(inodes[p], s, c)
    BY <2>2, Sizes DEF Below
  <2>4. \A s \in Slots : inodes[p].direct[s] = NoBlock /\ ~(s * BlockSize < 0)
    BY <2>1, Sizes DEF NoBlocks
  <2> QED BY <2>2, <2>3, <2>4, Sizes DEF DirOK, Packed
<1>4. -1 \notin Inodes
  BY DEF Inodes
<1> QED BY <1>1, <1>2, <1>3, <1>4, LookupOfDir

-----------------------------------------------------------------------------
(* Steps that write no block.                                              *)

\* Core and image stay; more may be marked dirty, more leaked.
LEMMA NothingWritten ==
  ASSUME DataInv, ~torn, pc \notin Committing, pc' # "commit_inode",
         UNCHANGED <<inode_bp, data_bp, inodes, image, durable>>,
         dirty_inode_bp \subseteq dirty_inode_bp', leaked \subseteq leaked'
  PROVE  CoreOK' /\ DurableOK' /\ ImageOK'
<1>1. /\ UNCHANGED <<disk_inode_bp, disk_data_bp, disk_inodes, blocks>>
      /\ CoreOK /\ DurableOK /\ ImageOK
  BY DEF DataInv, DataOK, image
<1>2. ASSUME NEW i, NEW x, InodeOK(i, x, blocks, leaked)
      PROVE  InodeOK(i, x, blocks, leaked')
  BY <1>2, InodeKept
<1>3. CoreOK'
  BY <1>1, <1>2 DEF CoreOK
<1>4. ImageOK'
  BY <1>1, <1>2 DEF ImageOK
<1>5. pc # "commit_inode"
  BY DEF Committing
<1>6. DurableOK'
  BY <1>1, <1>5 DEF DurableOK, Extends
<1> QED BY <1>3, <1>4, <1>6

\* Inodes are only added, marked dirty, and those there are only grow.
LEMMA DurableKept ==
  ASSUME DurableOK, pc # "commit_inode", pc' # "commit_inode",
         UNCHANGED <<disk_inode_bp, disk_inodes, durable>>,
         inode_bp \subseteq inode_bp', dirty_inode_bp \subseteq dirty_inode_bp',
         inode_bp' \ inode_bp \subseteq dirty_inode_bp',
         \A i \in inode_bp :
           /\ disk_inodes[i].size \in Int /\ inodes[i].size \in Int
           /\ inodes'[i].type = inodes[i].type
           /\ inodes'[i].size \in Int /\ inodes[i].size <= inodes'[i].size
           /\ \A s \in Slots : inodes[i].direct[s] # NoBlock =>
                               inodes'[i].direct[s] = inodes[i].direct[s]
  PROVE  DurableOK'
<1>1. \A i \in durable : i \in inode_bp /\ Extends(i)
  BY DEF DurableOK
<1>2. ASSUME NEW i \in durable PROVE Extends(i)'
  <2>1. i \in inode_bp /\ disk_inodes'[i] = disk_inodes[i] /\ Extends(i)
    BY <1>1
  <2>2. disk_inodes[i].size <= inodes'[i].size /\ inodes'[i].type = disk_inodes[i].type
    BY <2>1 DEF Extends
  <2>3. ASSUME NEW s \in Slots, disk_inodes[i].direct[s] # NoBlock
        PROVE  inodes'[i].direct[s] = disk_inodes[i].direct[s]
    BY <2>1, <2>3 DEF Extends
  <2> QED BY <2>1, <2>2, <2>3 DEF Extends
<1> QED BY <1>2 DEF DurableOK

\* Every allocated bit keeps its slot.
LEMMA NoneLostKept ==
  ASSUME NEW ib, NEW tab, NEW db \in SUBSET DataBits, NoneLost(ib, tab, db),
         NEW ib2, ib \subseteq ib2, NEW tab2,
         \A i \in ib, s \in Slots : tab[i].direct[s] # NoBlock =>
                                   tab2[i].direct[s] = tab[i].direct[s]
  PROVE  NoneLost(ib2, tab2, db)
<1>1. ASSUME NEW d \in db
      PROVE  \E i \in ib2, s \in Slots : tab2[i].direct[s] = d + DataStart
  <2>1. PICK i \in ib, s \in Slots : tab[i].direct[s] = d + DataStart
    BY DEF NoneLost
  <2>2. d + DataStart # NoBlock
    BY Addresses
  <2> QED BY <2>1, <2>2
<1> QED BY <1>1 DEF NoneLost

LEMMA NoneLostGiven ==
  ASSUME NEW ib, NEW tab, NEW db, NoneLost(ib, tab, db), NEW d,
         NEW i \in ib, NEW s \in Slots, tab[i].direct[s] = d + DataStart
  PROVE  NoneLost(ib, tab, db \cup {d})
BY DEF NoneLost

\* A block whose bit is clear belongs to no inode.
LEMMA FreeIsUnused ==
  ASSUME NEW ib, NEW tab, NEW db, Owned(ib, tab, db), NEW i \in ib, NEW s \in Slots,
         tab[i].direct[s] # NoBlock, NEW d \in Int, d \notin db
  PROVE  tab[i].direct[s] # d + DataStart
<1>1. tab[i].direct[s] \in DataAddrs /\ tab[i].direct[s] - DataStart \in db
  BY DEF Owned
<1>2. \A a \in DataAddrs : a = d + DataStart => a - DataStart = d
  BY SizesAssumption DEF DataAddrs
<1> QED BY <1>1, <1>2

-----------------------------------------------------------------------------
(* ufs_creat.                                                              *)

LEMMA CreatFailsData ==
  ASSUME DataInv, ~torn, NEW p \in Inums, NEW n \in Names,
         NEW t \in {UFS_DIRECTORY, UFS_REGULAR_FILE}, CreatFails(p, t, n)
  PROVE  DataOK'
<1> DEFINE e == FirstFree(inode_bp, 0, NumInodes)
<1>1. /\ TypeOK /\ CoreOK /\ DurableOK /\ ImageOK /\ pc = "idle"
  BY DEF DataInv, OwnedInv, DurableInv, DataOK, CreatFails, Idle, Committing
<1>2. e \in Inodes /\ e \notin inode_bp
  BY FreeInode, CreatGoesOn DEF CreatFails
<1>3. /\ inode_bp' = inode_bp \cup {e} /\ dirty_inode_bp' = dirty_inode_bp \cup {e}
      /\ inodes' = [inodes EXCEPT ![e].type = t, ![e].direct = NoBlocks]
      /\ leaked' = leaked \cup {e} /\ pc' = "idle"
      /\ UNCHANGED <<data_bp, disk_inode_bp, disk_data_bp, disk_inodes, blocks, durable>>
  BY DEF CreatFails, set_bitmap, Return, image
<1> HIDE DEF e
<1>4. /\ \A i \in inode_bp : inodes'[i] = inodes[i]
      /\ inodes'[e].direct = NoBlocks
  <2>1. inodes \in [Inodes -> Inode] /\ inode_bp \subseteq Inodes
    BY <1>1 DEF TypeOK
  <2>2. inodes'[e] = [inodes[e] EXCEPT !.type = t, !.direct = NoBlocks]
    BY <1>2, <1>3, <2>1
  <2>3. inodes[e] \in Inode
    BY <1>2, <2>1
  <2>4. inodes'[e].direct = NoBlocks
    BY <2>2, <2>3 DEF Inode
  <2> QED BY <1>2, <1>3, <2>1, <2>4
<1>5. ASSUME NEW i, NEW x, InodeOK(i, x, blocks, leaked)
      PROVE  InodeOK(i, x, blocks, leaked')
  BY <1>3, <1>5, InodeKept
<1>6. CoreOK'
  <2>1. InodeOK(e, inodes'[e], blocks, leaked')
    BY <1>3, <1>4 DEF InodeOK
  <2>2. NoneLost(inode_bp', inodes', data_bp)
    <3>1. NoneLost(inode_bp, inodes, data_bp) /\ data_bp \in SUBSET DataBits
      BY <1>1 DEF CoreOK, TypeOK
    <3>2. inode_bp \subseteq inode_bp'
      BY <1>3
    <3>3. \A i \in inode_bp, s \in Slots : inodes[i].direct[s] # NoBlock =>
                                  inodes'[i].direct[s] = inodes[i].direct[s]
      BY <1>4
    <3> QED BY <3>1, <3>2, <3>3, NoneLostKept
  <2> QED BY <1>1, <1>3, <1>4, <1>5, <2>1, <2>2 DEF CoreOK
<1>7. ImageOK'
  BY <1>1, <1>3, <1>5 DEF ImageOK
<1>8. DurableOK'
  <2>1. \A i \in inode_bp : inodes[i].size \in Int /\ disk_inodes[i].size \in Int
    BY <1>1 DEF TypeOK, Inode
  <2>2. \A i \in inode_bp : inodes[i].size <= inodes[i].size
    BY <2>1
  <2>3. pc # "commit_inode"
    BY <1>1
  <2> QED BY <1>1, <1>3, <1>4, <2>1, <2>2, <2>3, DurableKept
<1> QED BY <1>3, <1>6, <1>7, <1>8 DEF DataOK, Dead

LEMMA CreatAllocatesData ==
  ASSUME DataInv, ~torn, NEW p \in Inums, NEW n \in Names,
         NEW t \in {UFS_DIRECTORY, UFS_REGULAR_FILE}, CreatAllocates(p, t, n)
  PROVE  /\ DataOK' /\ DirsStay
         /\ \A i \in inode_bp, s \in Slots : inodes[i].direct[s] # NoBlock =>
              blocks'[inodes[i].direct[s]] = blocks[inodes[i].direct[s]]
<1> DEFINE e  == FirstFree(inode_bp, 0, NumInodes)
           d1 == FirstFree(data_bp, 0, NumData)
           mkdir == t = UFS_DIRECTORY
           x  == [type   |-> t,
                  size   |-> IF mkdir THEN 2 ELSE 0,
                  direct |-> IF mkdir THEN [NoBlocks EXCEPT ![0] = d1 + DataStart]
                                      ELSE NoBlocks]
<1>1. /\ TypeOK /\ CoreOK /\ DurableOK /\ ImageOK /\ pc = "idle"
      /\ Owned(inode_bp, inodes, data_bp)
  BY DEF DataInv, OwnedInv, DurableInv, OwnedEverywhere, DataOK, CreatAllocates, Idle,
         Committing
<1>2. e \in Inodes /\ e \notin inode_bp
  BY FreeInode, CreatGoesOn DEF CreatAllocates
<1>3. mkdir => d1 \in DataBits \ data_bp
  BY FreeData DEF CreatAllocates, NoRoom
<1>4. /\ inode_bp' = inode_bp \cup {e} /\ dirty_inode_bp' = dirty_inode_bp \cup {e}
      /\ inodes' = [inodes EXCEPT ![e] = x]
      /\ data_bp' = IF mkdir THEN data_bp \cup {d1} ELSE data_bp
      /\ blocks' = IF mkdir THEN [blocks EXCEPT ![d1 + DataStart] = EmptyDir(e, p)]
                            ELSE blocks
      /\ pc' = "link"
      /\ frame'.inum = p /\ frame'.new = e /\ frame'.name = n /\ frame'.full = IsFull(p)
      /\ UNCHANGED <<disk_inode_bp, disk_data_bp, disk_inodes, leaked, durable>>
  BY DEF CreatAllocates, set_bitmap, NoFrame, hist
<1>5. /\ p \in Inodes \cap inode_bp /\ inodes[p].type = UFS_DIRECTORY
      /\ DirOK(inodes[p], blocks)
      /\ \A s \in Slots, c \in Cells : Below(inodes[p], s, c) =>
           blocks[inodes[p].direct[s]][c].name # n
      /\ inodes[p].size # Capacity
  BY <1>1, ParentInOrder DEF CreatAllocates, NoRoom
<1> HIDE DEF e, d1
<1>6. /\ \A i \in inode_bp : inodes'[i] = inodes[i]
      /\ inodes'[e] = x
  BY <1>1, <1>2, <1>4 DEF TypeOK
<1> HIDE DEF x
<1>7. ASSUME NEW i \in inode_bp, NEW s \in Slots, inodes[i].direct[s] # NoBlock
      PROVE  blocks'[inodes[i].direct[s]] = blocks[inodes[i].direct[s]]
  <2>1. inodes[i].direct[s] \in BlockAddrs
    BY <1>1, <1>7 DEF TypeOK, Inode
  <2>2. CASE mkdir
    <3>1. inodes[i].direct[s] # d1 + DataStart
      BY <1>1, <1>3, <1>7, <2>2, FreeIsUnused DEF DataBits
    <3> QED BY <1>1, <1>4, <2>1, <2>2, <3>1 DEF TypeOK
  <2> QED BY <1>4, <2>2
<1>8. ASSUME NEW i \in inode_bp, NEW y, InodeOK(i, y, blocks, leaked),
             \A s \in Slots : y.direct[s] # NoBlock => inodes[i].direct[s] = y.direct[s]
      PROVE  InodeOK(i, y, blocks', leaked')
  <2>1. \A s \in Slots, c \in Cells : y.direct[s] # NoBlock =>
          blocks'[y.direct[s]][c] = blocks[y.direct[s]][c]
    BY <1>7, <1>8
  <2>2. i \in leaked => i \in leaked'
    BY <1>4
  <2> QED BY <1>8, <2>1, <2>2, InodeKept
<1>9. InodeOK(e, x, blocks', leaked')
  <2>1. CASE mkdir
    <3>1. /\ d1 + DataStart \in BlockAddrs /\ d1 + DataStart # NoBlock
          /\ blocks'[d1 + DataStart] = EmptyDir(e, p)
      BY <1>1, <1>3, <1>4, <2>1, Addresses DEF TypeOK
    <3>2. /\ x.size = 2 /\ x.direct = [NoBlocks EXCEPT ![0] = d1 + DataStart]
          /\ x.type = UFS_DIRECTORY
      BY <2>1 DEF x
    <3>3. DirOK(x, blocks')
      BY <1>2, <1>5, <3>1, <3>2, FreshDir
    <3> QED BY <3>2, <3>3, DirIsOK
  <2>2. CASE ~mkdir
    <3>1. x.size = 0 /\ x.direct = NoBlocks /\ x.type = UFS_REGULAR_FILE
      BY <2>2 DEF x
    <3> QED BY <3>1, FreshFile, FileIsOK
  <2> QED BY <2>1, <2>2
<1>10. CoreOK'
  <2>1. NoneLost(inode_bp', inodes', data_bp')
    <3>1. mkdir => 0 \in Slots /\ inodes'[e].direct[0] = d1 + DataStart
      BY <1>6, Addresses DEF x, NoBlocks
    <3> QED BY <1>1, <1>4, <1>6, <3>1 DEF CoreOK, NoneLost
  <2> QED BY <1>1, <1>4, <1>6, <1>8, <1>9, <2>1 DEF CoreOK
<1>11. ImageOK'
  BY <1>1, <1>4, <1>8 DEF ImageOK, DurableOK, Extends
<1>12. DurableOK'
  <2>1. \A i \in inode_bp : inodes[i].size \in Int /\ disk_inodes[i].size \in Int
    BY <1>1 DEF TypeOK, Inode
  <2> QED BY <1>1, <1>4, <1>6, <2>1, DurableKept
<1>13. LinkState'
  <2>1. inodes'[p] = inodes[p] /\ e # p
    BY <1>2, <1>5, <1>6
  <2>2. DirOK(inodes[p], blocks')
    <3>1. DirOK(inodes[p], blocks) => DirOK(inodes[p], blocks')
      <4>1. \A s \in Slots, c \in Cells : Below(inodes[p], s, c) =>
              inodes[p].direct[s] # NoBlock
        BY <1>5, CellIsSet DEF DirOK
      <4> QED BY <1>5, <1>7, <4>1, SMTT(40) DEF DirOK
    <3> QED BY <1>5, <3>1
  <2>3. IsFull(p)' <=> IsFull(p)
    BY <1>5, <1>7, <2>1 DEF IsFull, HasFree
  <2>4. inodes[p].size < Capacity
    BY <1>5, Sizes DEF DirOK, Packed
  <2>5. ASSUME NEW s \in Slots, NEW c \in Cells, Below(inodes[p], s, c)
        PROVE  blocks'[inodes[p].direct[s]][c].name # n
    <3>1. inodes[p].direct[s] # NoBlock
      BY <1>5, <2>5, CellIsSet DEF DirOK
    <3> QED BY <1>5, <1>7, <2>5, <3>1
  <2> QED BY <1>4, <1>5, <2>1, <2>2, <2>3, <2>4, <2>5 DEF LinkState
<1>14. DirsStay
  BY <1>6, <1>7 DEF DirsStay
<1> QED BY <1>7, <1>4, <1>10, <1>11, <1>12, <1>13, <1>14 DEF DataOK, Dead

\* A parent without a block to give stays as it is, and the inode is leaked.
LEMMA LinkFailsData ==
  ASSUME DataInv, ~torn, LinkFails
  PROVE  DataOK'
<1>1. /\ UNCHANGED <<inode_bp, data_bp, inodes, image, durable>> /\ pc = "link"
      /\ dirty_inode_bp \subseteq dirty_inode_bp' /\ leaked \subseteq leaked'
      /\ pc' = "idle"
  BY DEF LinkFails, set_bitmap, Return
<1>2. CoreOK' /\ DurableOK' /\ ImageOK'
  BY <1>1, NothingWritten DEF Committing
<1> QED BY <1>1, <1>2 DEF DataOK, Dead

\* In a parent in order the full blocks lie below the end, and the first free
\* entry is the first cell above it.
LEMMA FullSlot ==
  ASSUME NEW x, NEW b, DirOK(x, b), NEW s \in Slots, x.direct[s] # NoBlock,
         ~ \E c \in Cells : b[x.direct[s]][c].inum = -1
  PROVE  s * BlockSize + BlockSize <= x.size
<1>1. BlockSize - 1 \in Cells
  BY Sizes DEF Cells
<1>2. Below(x, s, BlockSize - 1)
  BY <1>1 DEF DirOK
<1> QED BY <1>2, Sizes DEF Below, DirOK, Packed

LEMMA FullParent ==
  ASSUME NEW p \in Inodes, TypeOK, DirOK(inodes[p], blocks), IsFull(p),
         inodes[p].size < Capacity
  PROVE  /\ FirstEmptySlot(p) \in Slots
         /\ inodes[p].direct[FirstEmptySlot(p)] = NoBlock
         /\ FirstEmptySlot(p) * BlockSize = inodes[p].size
<1> DEFINE x     == inodes[p]
           unset == {s \in Slots : x.direct[s] = NoBlock}
           slot  == FirstEmptySlot(p)
<1>1. Packed(x) /\ x.size \in Nat
  BY Sizes DEF DirOK, Packed
<1>2. ASSUME NEW s \in Slots \ unset PROVE s * BlockSize + BlockSize <= x.size
  BY <1>2, FullSlot DEF IsFull, HasFree
<1>3. unset # {}
  <2>1. DirectPtrs - 1 \in Slots
    BY Sizes DEF Slots
  <2>2. (DirectPtrs - 1) * BlockSize + BlockSize = Capacity
    BY <2>1, SlotEnds, Sizes
  <2> QED BY <1>1, <1>2, <2>1, <2>2, Sizes
<1>4. slot \in unset
  BY <1>3, MinSlot DEF FirstEmptySlot
<1>5. \A s \in unset : slot <= s
  <2>1. unset \in SUBSET Nat
    BY DEF Slots
  <2> QED BY <1>3, <2>1, MinNat DEF FirstEmptySlot
<1> HIDE DEF slot
<1>6. slot * BlockSize >= x.size
  BY <1>1, <1>4, Sizes DEF Packed
<1>7. slot * BlockSize <= x.size
  <2>1. CASE slot = 0
    BY <1>1, <2>1, Sizes
  <2>2. CASE slot # 0
    <3>1. slot - 1 \in Slots /\ slot - 1 \notin unset
      <4>1. slot \in Nat /\ slot - 1 \in Slots
        BY <1>4, <2>2, Sizes DEF Slots
      <4>2. slot - 1 \in unset => slot <= slot - 1
        BY <1>5
      <4> QED BY <4>1, <4>2
    <3>2. (slot - 1) * BlockSize + BlockSize = slot * BlockSize
      BY <1>4, <3>1, SlotEnds, Sizes
    <3> QED BY <1>2, <3>1, <3>2
  <2> QED BY <2>1, <2>2
<1>8. slot * BlockSize = x.size
  BY <1>1, <1>4, <1>6, <1>7, Sizes
<1> QED BY <1>4, <1>8 DEF slot

LEMMA RoomInParent ==
  ASSUME NEW p \in Inodes, TypeOK, DirOK(inodes[p], blocks), ~IsFull(p)
  PROVE  LET s == Min(LinkStops(p))
             a == inodes[p].direct[s]
         IN  /\ LinkStops(p) # {} /\ s \in Slots /\ a # NoBlock
             /\ FirstFreeCell(a) \in Cells
             /\ s * BlockSize + FirstFreeCell(a) = inodes[p].size
<1> DEFINE x == inodes[p]
           s == Min(LinkStops(p))
           a == x.direct[s]
           f == FirstFreeCell(a)
<1>1. Packed(x) /\ x.size \in Nat
  BY Sizes DEF DirOK, Packed
<1>2. PICK t \in Slots : x.direct[t] # NoBlock /\ HasFree(x.direct[t])
  BY DEF IsFull
<1>3. t \in LinkStops(p)
  BY <1>2 DEF LinkStops
<1>4. LinkStops(p) \in SUBSET Slots /\ LinkStops(p) \in SUBSET Nat
  BY DEF LinkStops, Slots
<1>5. s \in LinkStops(p) /\ s <= t /\ s \in Slots
  BY <1>3, <1>4, MinNat
<1> HIDE DEF s
<1>6. s * BlockSize <= t * BlockSize
  <2>1. CASE s = t
    BY <2>1, Sizes
  <2>2. CASE s < t
    BY <2>2, <1>5, SlotOrder, Sizes
  <2> QED BY <1>5, <2>1, <2>2, Sizes
<1>7. s * BlockSize < x.size /\ a # NoBlock
  BY <1>1, <1>2, <1>5, <1>6, Sizes DEF Packed
<1>8. HasFree(a)
  BY <1>5, <1>7 DEF LinkStops
<1> DEFINE free == {c \in Cells : blocks[a][c].inum = -1}
<1>9. f \in free /\ \A c \in free : f <= c
  <2>1. free \in SUBSET Nat /\ free # {}
    BY <1>8 DEF HasFree, Cells
  <2> QED BY <2>1, MinNat DEF FirstFreeCell
<1>10. f \in Cells /\ ~Below(x, s, f)
  <2>1. -1 \notin Inodes
    BY DEF Inodes
  <2> QED BY <1>5, <1>7, <1>9, <2>1 DEF DirOK, EntryOK
<1> HIDE DEF f
<1>11. f # 0
  BY <1>5, <1>7, <1>10, Sizes DEF Below
<1>12. Below(x, s, f - 1)
  <2>1. f \in Nat /\ f - 1 \in Cells
    BY <1>10, <1>11, Sizes DEF Cells
  <2>2. f - 1 \notin free
    <3>1. f - 1 \in free => f <= f - 1
      BY <1>9
    <3> QED BY <2>1, <3>1
  <2> QED BY <1>5, <1>7, <2>1, <2>2 DEF DirOK
<1>13. s * BlockSize + f = x.size
  BY <1>1, <1>5, <1>10, <1>12, Sizes DEF Below
<1> QED BY <1>3, <1>5, <1>7, <1>10, <1>13 DEF s, f

LEMMA LinkInNewBlockData ==
  ASSUME DataInv, ~torn, LinkInNewBlock
  PROVE  /\ DataOK'
         /\ \E t \in Slots, o \in Cells : LinkedAt(t, o)
         /\ \A i \in inode_bp, s \in Slots : inodes[i].direct[s] # NoBlock =>
              blocks'[inodes[i].direct[s]] = blocks[inodes[i].direct[s]]
<1> DEFINE p    == frame.inum
           d    == frame.data
           addr == d + DataStart
           slot == FirstEmptySlot(p)
           unset == {s \in Slots : inodes[p].direct[s] = NoBlock}
           x    == inodes[p]
           y    == inodes'[p]
<1>1. /\ TypeOK /\ CoreOK /\ DurableOK /\ LinkState
      /\ Owned(inode_bp, inodes, data_bp) /\ d \in DataBits \ data_bp
  BY DEF DataInv, OwnedInv, DurableInv, OwnedEverywhere, DataOK, LinkInNewBlock, TypeOK
<1>2. /\ p \in Inodes \cap inode_bp /\ frame.new \in Inodes
      /\ inodes[p].type = UFS_DIRECTORY /\ x \in Inode
      /\ DirOK(x, blocks) /\ x.size < Capacity /\ IsFull(p)
  BY <1>1 DEF LinkState, LinkInNewBlock, TypeOK
<1>3. /\ slot \in Slots /\ x.direct[slot] = NoBlock /\ slot * BlockSize = x.size
  BY <1>1, <1>2, FullParent
<1> HIDE DEF slot
<1>4. /\ blocks' = [blocks EXCEPT ![addr] = NewDirBlock(Entry(frame.name, frame.new))]
      /\ data_bp' = data_bp \cup {d} /\ dirty_inode_bp' = dirty_inode_bp \cup {p}
      /\ inodes' = [inodes EXCEPT ![p].size = @ + 1,
                      ![p].direct = [@ EXCEPT ![slot] = addr]]
      /\ pc = "link" /\ pc' = "commit"
      /\ UNCHANGED <<inode_bp, disk_inode_bp, disk_data_bp, disk_inodes, leaked, durable>>
  BY <1>3 DEF LinkInNewBlock, set_bitmap, hist, slot
<1>5. addr \in BlockAddrs /\ addr # NoBlock /\ d \in Int
  BY <1>1, Addresses
<1>6. /\ \A i \in inode_bp \ {p} : inodes'[i] = inodes[i]
      /\ y = [x EXCEPT !.size = @ + 1, !.direct = [@ EXCEPT ![slot] = addr]]
  BY <1>1, <1>2, <1>4 DEF TypeOK
<1>7. /\ y.type = UFS_DIRECTORY /\ y.size = x.size + 1 /\ y.direct[slot] = addr
      /\ \A s \in Slots \ {slot} : y.direct[s] = x.direct[s]
  BY <1>2, <1>3, <1>6 DEF Inode
<1>8. \A i \in inode_bp, s \in Slots : inodes[i].direct[s] # NoBlock =>
        /\ blocks'[inodes[i].direct[s]] = blocks[inodes[i].direct[s]]
        /\ inodes[i].direct[s] # addr
  <2>1. SUFFICES ASSUME NEW i \in inode_bp, NEW s \in Slots, inodes[i].direct[s] # NoBlock
                 PROVE  /\ blocks'[inodes[i].direct[s]] = blocks[inodes[i].direct[s]]
                        /\ inodes[i].direct[s] # addr
    OBVIOUS
  <2>2. inodes[i].direct[s] \in BlockAddrs
    BY <1>1, <2>1 DEF TypeOK, Inode
  <2>3. inodes[i].direct[s] # addr
    BY <1>1, <1>5, <2>1, FreeIsUnused
  <2> QED BY <1>1, <1>4, <2>2, <2>3 DEF TypeOK
<1>9. DirOK(y, blocks')
  <2> DEFINE n == frame.name
             e == frame.new
  <2>1. blocks'[addr] = NewDirBlock(Entry(n, e))
    BY <1>1, <1>4, <1>5 DEF TypeOK
  <2>2. /\ 0 \in Cells /\ blocks'[addr][0] = Entry(n, e)
        /\ \A c \in Cells \ {0} : blocks'[addr][c].inum = -1
    BY <2>1, Addresses DEF NewDirBlock, FreeCell
  <2>3. \A s \in Slots, c \in Cells : Below(x, s, c) =>
          x.direct[s] # NoBlock /\ s # slot
    BY <1>2, <1>3, CellIsSet DEF DirOK
  <2>4. \A s \in Slots, c \in Cells :
          Below(x, s, c) => blocks'[y.direct[s]][c] = blocks[x.direct[s]][c]
    BY <1>2, <1>7, <1>8, <2>3
  <2>5. ASSUME NEW s \in Slots, NEW c \in Cells, y.direct[s] # NoBlock,
               ~Below(x, s, c), ~(s = slot /\ c = 0)
        PROVE  blocks'[y.direct[s]][c].inum = -1
    <3>1. CASE s = slot
      BY <1>7, <2>2, <2>5, <3>1
    <3>2. CASE s # slot
      <4>1. y.direct[s] = x.direct[s] /\ x.direct[s] # NoBlock
        BY <1>7, <2>5, <3>2
      <4>2. blocks[x.direct[s]][c].inum = -1
        BY <1>2, <2>5, <4>1 DEF DirOK
      <4> QED BY <1>2, <1>8, <4>1, <4>2
    <3> QED BY <3>1, <3>2
  <2>6. /\ n \in Names
        /\ \A s \in Slots, c \in Cells : Below(x, s, c) => blocks[x.direct[s]][c].name # n
    BY <1>1 DEF LinkState
  <2>7. slot * BlockSize + 0 = x.size
    BY <1>3, Sizes
  <2>8. y.direct[slot] # NoBlock /\ blocks'[y.direct[slot]][0] = Entry(n, e)
    BY <1>5, <1>7, <2>2
  <2>9. DirOK(x, blocks) /\ e \in Inodes /\ slot \in Slots /\ 0 \in Cells
    BY <1>2, <1>3, Addresses, Sizes DEF Cells
  <2>10. y.size = x.size + 1 /\ \A s \in Slots \ {slot} : y.direct[s] = x.direct[s]
    BY <1>7
  <2> HIDE DEF n, e, x, y
  <2> QED BY <2>2, <2>4, <2>5, <2>6, <2>7, <2>8, <2>9, <2>10, DirGrows
<1>10. CoreOK'
  <2>1. ASSUME NEW i \in inode_bp PROVE InodeOK(i, inodes'[i], blocks', leaked')
    <3>1. CASE i = p
      BY <1>7, <1>9, <3>1, DirIsOK
    <3>2. CASE i # p
      <4>1. /\ inodes'[i] = inodes[i] /\ InodeOK(i, inodes[i], blocks, leaked)
            /\ \A s \in Slots, c \in Cells : inodes[i].direct[s] # NoBlock =>
                 blocks'[inodes[i].direct[s]][c] = blocks[inodes[i].direct[s]][c]
        BY <1>1, <1>6, <1>8, <3>2 DEF CoreOK
      <4>2. i \in leaked => i \in leaked'
        BY <1>4
      <4> QED BY <4>1, <4>2, InodeKept
    <3> QED BY <3>1, <3>2
  <2>2. NoneLost(inode_bp, inodes', data_bp)
    <3>1. ASSUME NEW i \in inode_bp, NEW s \in Slots, inodes[i].direct[s] # NoBlock
          PROVE  inodes'[i].direct[s] = inodes[i].direct[s]
      BY <1>3, <1>6, <1>7, <3>1
    <3>2. NoneLost(inode_bp, inodes, data_bp) /\ data_bp \in SUBSET DataBits
      BY <1>1 DEF CoreOK, TypeOK
    <3> QED BY <3>1, <3>2, NoneLostKept
  <2>3. NoneLost(inode_bp, inodes', data_bp \cup {d})
    BY <1>2, <1>3, <1>7, <2>2, NoneLostGiven
  <2> QED BY <1>4, <2>1, <2>3 DEF CoreOK
<1>11. DurableOK'
  <2>1. \A i \in inode_bp : inodes[i].size \in Int /\ disk_inodes[i].size \in Int
    BY <1>1 DEF TypeOK, Inode
  <2>2. ASSUME NEW i \in inode_bp
        PROVE  /\ inodes'[i].type = inodes[i].type
               /\ inodes'[i].size \in Int /\ inodes[i].size <= inodes'[i].size
               /\ \A s \in Slots : inodes[i].direct[s] # NoBlock =>
                                   inodes'[i].direct[s] = inodes[i].direct[s]
    <3>1. CASE i = p
      BY <1>2, <1>3, <1>7, <2>1, <3>1
    <3>2. CASE i # p
      BY <1>6, <2>1, <3>2
    <3> QED BY <3>1, <3>2
  <2>3. pc # "commit_inode"
    BY <1>4, SMTT(40)
  <2> QED BY <1>1, <1>4, <2>1, <2>2, <2>3, DurableKept
<1>12. LinkedAt(slot, 0)
  <2>1. \A s \in Slots, c \in Cells : Below(x, s, c) =>
          x.direct[s] # NoBlock /\ s # slot
    BY <1>2, <1>3, CellIsSet DEF DirOK
  <2>2. blocks'[addr][0] = Entry(frame.name, frame.new)
    BY <1>1, <1>4, <1>5, Addresses DEF TypeOK, NewDirBlock
  <2>3. slot * BlockSize + 0 = x.size
    BY <1>3, Sizes
  <2> QED BY <1>2, <1>4, <1>6, <1>7, <1>8, <1>9, <2>1, <2>2, <2>3 DEF LinkedAt
<1> QED BY <1>3, <1>4, <1>8, <1>10, <1>11, <1>12, Addresses DEF DataOK, Committing, Dead

LEMMA LinkInFreeEntryData ==
  ASSUME DataInv, ~torn, LinkInFreeEntry
  PROVE  /\ DataOK'
         /\ \E t \in Slots, o \in Cells : LinkedAt(t, o)
         /\ \A i \in inode_bp, s \in Slots, c \in Cells : Below(inodes[i], s, c) =>
              (inodes[i].direct[s] # NoBlock =>
                blocks'[inodes[i].direct[s]][c] = blocks[inodes[i].direct[s]][c])
<1> DEFINE p == frame.inum
           x == inodes[p]
           y == inodes'[p]
           t == Min(LinkStops(p))
           a == x.direct[t]
           f == FirstFreeCell(a)
           ent == Entry(frame.name, frame.new)
<1>1. /\ TypeOK /\ CoreOK /\ DurableOK /\ LinkState
      /\ Owned(inode_bp, inodes, data_bp)
  BY DEF DataInv, OwnedInv, DurableInv, OwnedEverywhere, DataOK, LinkInFreeEntry
<1>2. /\ p \in Inodes \cap inode_bp /\ frame.new \in Inodes
      /\ inodes[p].type = UFS_DIRECTORY /\ x \in Inode
      /\ DirOK(x, blocks) /\ ~IsFull(p)
  BY <1>1 DEF LinkState, LinkInFreeEntry, TypeOK
<1>3. /\ LinkStops(p) # {} /\ t \in Slots /\ a # NoBlock /\ f \in Cells
      /\ t * BlockSize + f = x.size
  BY <1>1, <1>2, RoomInParent
<1>4. a \in DataAddrs /\ a \in BlockAddrs /\ a # Superblock
  <2>1. a \in DataAddrs
    BY <1>1, <1>2, <1>3 DEF Owned
  <2> QED BY <2>1, SizesAssumption DEF DataAddrs, BlockAddrs, Superblock
<1>5. /\ blocks' = [blocks EXCEPT ![a][f] = ent]
      /\ inodes' = [inodes EXCEPT ![p].size = @ + 1]
      /\ dirty_inode_bp' = dirty_inode_bp \cup {p} /\ pc = "link" /\ pc' = "commit"
      /\ UNCHANGED <<inode_bp, data_bp, disk_inode_bp, disk_data_bp, disk_inodes,
                     leaked, durable>>
  BY <1>3, <1>4 DEF LinkInFreeEntry, set_bitmap, hist
<1> HIDE DEF t, f
<1>6. /\ \A i \in inode_bp \ {p} : inodes'[i] = inodes[i]
      /\ y = [x EXCEPT !.size = @ + 1]
  BY <1>1, <1>2, <1>5 DEF TypeOK
<1>7. y.type = UFS_DIRECTORY /\ y.size = x.size + 1 /\ y.direct = x.direct
  BY <1>2, <1>6 DEF Inode
<1>8. ASSUME NEW z \in BlockAddrs, NEW c \in Cells
      PROVE  blocks'[z][c] = IF z = a /\ c = f THEN ent ELSE blocks[z][c]
  BY <1>1, <1>3, <1>4, <1>5 DEF TypeOK
<1>9. ASSUME NEW i \in inode_bp, NEW s \in Slots, inodes[i].direct[s] # NoBlock
      PROVE  /\ inodes[i].direct[s] \in BlockAddrs
             /\ inodes[i].direct[s] = a => i = p /\ s = t
  <2>1. inodes[i].direct[s] \in BlockAddrs
    BY <1>1, <1>9 DEF TypeOK, Inode
  <2>2. inodes[i].direct[s] = a => i = p /\ s = t
    BY <1>1, <1>2, <1>3, <1>9 DEF Owned
  <2> QED BY <2>1, <2>2
<1>10. ~Below(x, t, f)
  BY <1>2, <1>3, Sizes DEF Below, Inode
<1>11. ASSUME NEW i \in inode_bp, NEW s \in Slots, NEW c \in Cells,
              inodes[i].direct[s] # NoBlock, Below(inodes[i], s, c) \/ i # p
       PROVE  blocks'[inodes[i].direct[s]][c] = blocks[inodes[i].direct[s]][c]
  BY <1>8, <1>9, <1>10, <1>11
<1>12. DirOK(y, blocks')
  <2> DEFINE n == frame.name
             e == frame.new
  <2>1. \A s \in Slots, c \in Cells : Below(x, s, c) => x.direct[s] # NoBlock
    BY <1>2, CellIsSet DEF DirOK
  <2>2. \A s \in Slots, c \in Cells :
          Below(x, s, c) => blocks'[y.direct[s]][c] = blocks[x.direct[s]][c]
    BY <1>2, <1>7, <1>11, <2>1
  <2>3. ASSUME NEW s \in Slots, NEW c \in Cells, y.direct[s] # NoBlock,
               ~Below(x, s, c), ~(s = t /\ c = f)
        PROVE  blocks'[y.direct[s]][c].inum = -1
    <3>1. blocks[x.direct[s]][c].inum = -1 /\ x.direct[s] # NoBlock
      BY <1>2, <1>7, <2>3 DEF DirOK
    <3>2. blocks'[x.direct[s]][c] = blocks[x.direct[s]][c]
      BY <1>2, <1>8, <1>9, <2>3, <3>1
    <3> QED BY <1>7, <3>1, <3>2
  <2>4. /\ n \in Names
        /\ \A s \in Slots, c \in Cells : Below(x, s, c) => blocks[x.direct[s]][c].name # n
    BY <1>1 DEF LinkState
  <2>5. y.direct[t] # NoBlock /\ blocks'[y.direct[t]][f] = Entry(n, e)
    BY <1>3, <1>4, <1>7, <1>8
  <2>6. DirOK(x, blocks) /\ e \in Inodes /\ t * BlockSize + f = x.size
    BY <1>2, <1>3
  <2>7. y.size = x.size + 1 /\ \A s \in Slots \ {t} : y.direct[s] = x.direct[s]
    BY <1>7
  <2> HIDE DEF n, e, x, y
  <2> QED BY <1>3, <2>2, <2>3, <2>4, <2>5, <2>6, <2>7, DirGrows
<1>13. CoreOK'
  <2>1. ASSUME NEW i \in inode_bp PROVE InodeOK(i, inodes'[i], blocks', leaked')
    <3>1. CASE i = p
      BY <1>7, <1>12, <3>1, DirIsOK
    <3>2. CASE i # p
      <4>1. /\ inodes'[i] = inodes[i] /\ InodeOK(i, inodes[i], blocks, leaked)
            /\ \A s \in Slots, c \in Cells : inodes[i].direct[s] # NoBlock =>
                 blocks'[inodes[i].direct[s]][c] = blocks[inodes[i].direct[s]][c]
        BY <1>1, <1>6, <1>11, <3>2 DEF CoreOK
      <4>2. i \in leaked => i \in leaked'
        BY <1>5
      <4> QED BY <4>1, <4>2, InodeKept
    <3> QED BY <3>1, <3>2
  <2>2. NoneLost(inode_bp, inodes', data_bp)
    <3>1. ASSUME NEW i \in inode_bp, NEW s \in Slots
          PROVE  inodes'[i].direct[s] = inodes[i].direct[s]
      BY <1>6, <1>7
    <3>2. NoneLost(inode_bp, inodes, data_bp) /\ data_bp \in SUBSET DataBits
      BY <1>1 DEF CoreOK, TypeOK
    <3> QED BY <3>1, <3>2, NoneLostKept
  <2> QED BY <1>5, <2>1, <2>2 DEF CoreOK
<1>14. DurableOK'
  <2>1. \A i \in inode_bp : inodes[i].size \in Int /\ disk_inodes[i].size \in Int
    BY <1>1 DEF TypeOK, Inode
  <2>2. ASSUME NEW i \in inode_bp
        PROVE  /\ inodes'[i].type = inodes[i].type
               /\ inodes'[i].size \in Int /\ inodes[i].size <= inodes'[i].size
               /\ inodes'[i].direct = inodes[i].direct
    <3>1. CASE i = p
      BY <1>2, <1>7, <2>1, <3>1
    <3>2. CASE i # p
      BY <1>6, <2>1, <3>2
    <3> QED BY <3>1, <3>2
  <2>3. pc # "commit_inode"
    BY <1>5, SMTT(40)
  <2> QED BY <1>1, <1>5, <2>1, <2>2, <2>3, DurableKept
<1>15. LinkedAt(t, f)
  <2>1. \A s \in Slots, c \in Cells : Below(x, s, c) => x.direct[s] # NoBlock
    BY <1>2, CellIsSet DEF DirOK
  <2>2. blocks'[y.direct[t]][f] = ent
    BY <1>3, <1>4, <1>7, <1>8
  <2>3. \A s \in Slots, c \in Cells : Below(x, s, c) =>
          /\ y.direct[s] = x.direct[s]
          /\ blocks'[x.direct[s]][c] = blocks[x.direct[s]][c]
    BY <1>2, <1>7, <1>11, <2>1
  <2>4. \A i \in inode_bp \ {p} :
          /\ inodes'[i] = inodes[i]
          /\ \A s \in Slots, c \in Cells : inodes[i].direct[s] # NoBlock =>
               blocks'[inodes[i].direct[s]][c] = blocks[inodes[i].direct[s]][c]
    BY <1>6, <1>11
  <2> QED BY <1>3, <1>5, <1>7, <1>12, <2>2, <2>3, <2>4 DEF LinkedAt
<1> QED BY <1>3, <1>5, <1>11, <1>13, <1>14, <1>15 DEF DataOK, Committing, Dead

-----------------------------------------------------------------------------
(* ufs_write.                                                              *)

LEMMA WriteBeginData ==
  ASSUME DataInv, ~torn, NEW i \in Inums, NEW off \in Offsets, NEW n \in Counts,
         WriteBegin(i, off, n)
  PROVE  DataOK'
<1>1. /\ UNCHANGED <<inode_bp, data_bp, inodes, image, durable, leaked>>
      /\ pc = "idle" /\ pc' = "write" /\ dirty_inode_bp \subseteq dirty_inode_bp'
      /\ frame'.inum = i /\ frame'.blk = off \div BlockSize
      /\ frame'.off = off % BlockSize
  BY DEF WriteBegin, Idle, set_bitmap, NoFrame, hist
<1>2. CoreOK' /\ DurableOK' /\ ImageOK'
  BY <1>1, NothingWritten DEF Committing
<1>3. /\ i \in inode_bp /\ inodes[i].type = UFS_REGULAR_FILE /\ off \in Nat
      /\ AppendOnly => off = inodes[i].size
  BY SizesAssumption DEF WriteBegin, WriteArgsRefused, Offsets
<1>4. WriteState'
  <2>1. off = (off \div BlockSize) * BlockSize + (off % BlockSize)
    BY <1>3, Division
  <2> QED BY <1>1, <1>3, <2>1 DEF WriteState
<1> QED BY <1>1, <1>2, <1>4 DEF DataOK, Dead

LEMMA WriteEndsData ==
  ASSUME DataInv, ~torn, WriteFails \/ WriteEnd
  PROVE  DataOK'
<1>1. /\ UNCHANGED <<inode_bp, data_bp, inodes, image, durable, leaked>>
      /\ pc = "write" /\ pc' \in {"idle", "commit"}
      /\ dirty_inode_bp \subseteq dirty_inode_bp'
  BY DEF WriteFails, WriteEnd, Return, core, hist
<1>2. CoreOK' /\ DurableOK' /\ ImageOK'
  BY <1>1, NothingWritten DEF Committing
<1> QED BY <1>1, <1>2 DEF DataOK, Dead

LEMMA WriteBlockData ==
  ASSUME DataInv, ~torn, WriteBlock
  PROVE  /\ DataOK' /\ DirsStay
         /\ AppendOnly => \A j \in inode_bp, s \in Slots, c \in Cells :
              Below(inodes[j], s, c) => (inodes[j].direct[s] # NoBlock =>
                blocks'[inodes[j].direct[s]][c] = blocks[inodes[j].direct[s]][c])
<1> DEFINE i == frame.inum
           b == frame.blk
           o == frame.off
           a == WriteTarget(i, b)
           z == Min({frame.left, BlockSize - frame.off})
           x == inodes[i]
           y == inodes'[i]
           fresh == x.direct[b] = NoBlock
<1>1. /\ TypeOK /\ CoreOK /\ DurableOK /\ ImageOK /\ WriteState
      /\ Owned(inode_bp, inodes, data_bp)
  BY DEF DataInv, OwnedInv, DurableInv, OwnedEverywhere, DataOK, WriteBlock, Committing
<1>2. /\ i \in Inodes \cap inode_bp /\ b \in Slots /\ o \in Cells /\ x \in Inode
      /\ frame.left \in Nat \ {0} /\ x.type = UFS_REGULAR_FILE
  BY <1>1 DEF WriteState, WriteBlock, TypeOK
<1>3. /\ z \in 1 .. BlockSize - o
      /\ z # frame.left => z = BlockSize - o
  <2>1. /\ {frame.left, BlockSize - o} \in SUBSET Nat /\ BlockSize - o \in Nat \ {0}
    BY <1>2, Sizes
  <2>2. z \in {frame.left, BlockSize - o} /\ z <= frame.left /\ z <= BlockSize - o
    BY <2>1, MinNat
  <2> QED BY <1>2, <2>1, <2>2
<1>4. /\ a \in BlockAddrs /\ a # NoBlock
      /\ fresh => a \in DataAddrs /\ a - DataStart \in DataBits \ data_bp
      /\ ~fresh => a = x.direct[b]
  <2>1. a # NoBlock
    BY DEF WriteBlock
  <2>2. ~fresh => a = x.direct[b]
    BY DEF WriteTarget
  <2> QED BY <1>1, <1>2, <2>1, <2>2, WriteTargetType
<1>5. AppendOnly => b * BlockSize + o = x.size
  BY <1>1, <1>2 DEF WriteState
<1>6. /\ data_bp' = IF fresh THEN data_bp \cup {a - DataStart} ELSE data_bp
      /\ blocks' = [blocks EXCEPT ![a] = [c \in Cells |->
           IF c \in o .. o + z - 1 THEN Byte(i, b * BlockSize + c) ELSE @[c]]]
      /\ inodes' = [inodes EXCEPT ![i].direct[b] = a, ![i].size = @ + z]
      /\ frame' = [frame EXCEPT !.blk = b + 1, !.off = 0, !.left = @ - z]
      /\ pc = "write" /\ pc' = "write"
      /\ UNCHANGED <<inode_bp, dirty_inode_bp, disk_inode_bp, disk_data_bp, disk_inodes,
                     leaked, durable>>
  BY DEF WriteBlock, set_bitmap, hist
<1> HIDE DEF a, z
<1>7. /\ \A j \in inode_bp \ {i} : inodes'[j] = inodes[j]
      /\ y = [x EXCEPT !.direct = [@ EXCEPT ![b] = a], !.size = @ + z]
  BY <1>1, <1>2, <1>6 DEF TypeOK
<1>8. /\ y.type = UFS_REGULAR_FILE /\ y.size = x.size + z /\ y.direct[b] = a
      /\ \A s \in Slots \ {b} : y.direct[s] = x.direct[s]
      /\ \A s \in Slots : x.direct[s] # NoBlock => y.direct[s] = x.direct[s]
  <2>1. y.type = UFS_REGULAR_FILE /\ y.size = x.size + z
        /\ y.direct = [x.direct EXCEPT ![b] = a]
    BY <1>2, <1>7 DEF Inode
  <2>2. y.direct[b] = a /\ \A s \in Slots \ {b} : y.direct[s] = x.direct[s]
    BY <1>2, <2>1 DEF Inode
  <2> QED BY <1>4, <2>1, <2>2
<1>9. ASSUME NEW w \in BlockAddrs, NEW c \in Cells
      PROVE  blocks'[w][c] = IF w = a /\ c \in o .. o + z - 1
                             THEN Byte(i, b * BlockSize + c) ELSE blocks[w][c]
  BY <1>1, <1>4, <1>6 DEF TypeOK
<1>10. ASSUME NEW j \in inode_bp, NEW s \in Slots, inodes[j].direct[s] # NoBlock
       PROVE  /\ inodes[j].direct[s] \in BlockAddrs
              /\ inodes[j].direct[s] = a => j = i /\ s = b
  <2>1. inodes[j].direct[s] \in BlockAddrs
    BY <1>1, <1>10 DEF TypeOK, Inode
  <2>2. CASE fresh
    <3> DEFINE d == a - DataStart
    <3>1. d \in Int /\ d \notin data_bp /\ d + DataStart = a
      BY <1>4, <2>2, SizesAssumption DEF DataBits, DataAddrs
    <3> HIDE DEF d
    <3>2. inodes[j].direct[s] # d + DataStart
      BY <1>1, <1>10, <3>1, FreeIsUnused
    <3> QED BY <2>1, <3>1, <3>2
  <2>3. CASE ~fresh
    <3>1. inodes[j].direct[s] = a => j = i /\ s = b
      BY <1>1, <1>2, <1>4, <1>10, <2>3 DEF Owned
    <3> QED BY <2>1, <3>1
  <2> QED BY <2>2, <2>3
<1>11. ASSUME NEW j \in inode_bp, NEW s \in Slots, NEW c \in Cells,
              inodes[j].direct[s] # NoBlock, j # i \/ (AppendOnly /\ Below(inodes[j], s, c))
       PROVE  blocks'[inodes[j].direct[s]][c] = blocks[inodes[j].direct[s]][c]
  <2>1. CASE inodes[j].direct[s] = a /\ c \in o .. o + z - 1
    <3>1. j = i /\ s = b
      BY <1>10, <1>11, <2>1
    <3>2. ~(b * BlockSize + c < x.size)
      <4>1. b * BlockSize + o = x.size /\ b * BlockSize \in Nat
        BY <1>2, <1>5, <1>11, <3>1, Sizes
      <4>2. c \in Nat /\ o \in Nat
        BY <1>2, Sizes
      <4>3. c >= o
        <5>1. z \in Int /\ c \in o .. o + z - 1
          BY <1>3, <2>1
        <5> HIDE DEF o
        <5> QED BY <4>2, <5>1
      <4> QED BY <4>1, <4>2, <4>3
    <3> QED BY <1>11, <3>1, <3>2 DEF Below
  <2>2. CASE ~(inodes[j].direct[s] = a /\ c \in o .. o + z - 1)
    BY <1>9, <1>10, <1>11, <2>2
  <2> QED BY <2>1, <2>2
<1>12. InodeOK(i, y, blocks', leaked')
  <2>1. CASE i \in leaked
    BY <1>6, <1>8, <2>1, LeakedFileIsOK
  <2>2. CASE ~AppendOnly
    BY <1>8, <2>2, FileIsOK
  <2>3. CASE AppendOnly /\ i \notin leaked
    <3>1. FileOK(i, x, blocks) /\ Packed(x)
      BY <1>1, <1>2, <2>3 DEF CoreOK, InodeOK, FileOK
    <3>2. \A s \in Slots, c \in Cells :
            Below(x, s, c) => blocks'[y.direct[s]][c] = blocks[x.direct[s]][c]
      BY <1>2, <1>8, <1>11, <2>3, <3>1, CellIsSet
    <3>3. \A c \in o .. o + z - 1 : blocks'[y.direct[b]][c] = Byte(i, b * BlockSize + c)
      <4>1. \A c \in o .. o + z - 1 : c \in Cells
        BY <1>2, <1>3, Sizes DEF Cells
      <4> QED BY <1>4, <1>8, <1>9, <4>1
    <3>4. y.direct[b] # NoBlock /\ b * BlockSize + o = x.size
      BY <1>4, <1>5, <1>8, <2>3
    <3>5. FileOK(i, y, blocks')
      <4> HIDE DEF i, b, o, x, y
      <4> QED BY <1>2, <1>3, <1>8, <3>1, <3>2, <3>3, <3>4, FileGrows
    <3> QED BY <1>8, <3>5, FileIsOK
  <2> QED BY <2>1, <2>2, <2>3
<1>13. CoreOK'
  <2>1. ASSUME NEW j \in inode_bp PROVE InodeOK(j, inodes'[j], blocks', leaked')
    <3>1. CASE j = i
      BY <1>12, <3>1
    <3>2. CASE j # i
      <4>1. /\ inodes'[j] = inodes[j] /\ InodeOK(j, inodes[j], blocks, leaked)
            /\ \A s \in Slots, c \in Cells : inodes[j].direct[s] # NoBlock =>
                 blocks'[inodes[j].direct[s]][c] = blocks[inodes[j].direct[s]][c]
        BY <1>1, <1>7, <1>11, <3>2 DEF CoreOK
      <4>2. j \in leaked => j \in leaked'
        BY <1>6
      <4> QED BY <4>1, <4>2, InodeKept
    <3> QED BY <3>1, <3>2
  <2>2. NoneLost(inode_bp, inodes', data_bp)
    <3>1. ASSUME NEW j \in inode_bp, NEW s \in Slots, inodes[j].direct[s] # NoBlock
          PROVE  inodes'[j].direct[s] = inodes[j].direct[s]
      BY <1>7, <1>8, <3>1
    <3>2. NoneLost(inode_bp, inodes, data_bp) /\ data_bp \in SUBSET DataBits
      BY <1>1 DEF CoreOK, TypeOK
    <3> QED BY <3>1, <3>2, NoneLostKept
  <2>3. NoneLost(inode_bp, inodes', data_bp')
    <3>1. CASE ~fresh
      BY <1>6, <2>2, <3>1
    <3>2. CASE fresh
      <4> DEFINE d == a - DataStart
      <4>1. d + DataStart = a
        BY <1>4, <3>2, SizesAssumption DEF DataAddrs
      <4> HIDE DEF d
      <4>2. NoneLost(inode_bp, inodes', data_bp \cup {d})
        BY <1>2, <1>8, <2>2, <4>1, NoneLostGiven
      <4> QED BY <1>6, <3>2, <4>2 DEF d
    <3> QED BY <3>1, <3>2
  <2> QED BY <1>6, <2>1, <2>3 DEF CoreOK
<1>14. DurableOK'
  <2>1. \A j \in inode_bp : inodes[j].size \in Int /\ disk_inodes[j].size \in Int
    BY <1>1 DEF TypeOK, Inode
  <2>2. ASSUME NEW j \in inode_bp
        PROVE  /\ inodes'[j].type = inodes[j].type
               /\ inodes'[j].size \in Int /\ inodes[j].size <= inodes'[j].size
               /\ \A s \in Slots : inodes[j].direct[s] # NoBlock =>
                                   inodes'[j].direct[s] = inodes[j].direct[s]
    <3>1. CASE j = i
      BY <1>2, <1>3, <1>8, <2>1, <3>1, Sizes
    <3>2. CASE j # i
      BY <1>7, <2>1, <3>2
    <3> QED BY <3>1, <3>2
  <2>3. pc # "commit_inode"
    BY <1>6
  <2> QED BY <1>1, <1>6, <2>1, <2>2, <2>3, DurableKept
<1>15. ImageOK'
  <2>1. ASSUME NEW j \in disk_inode_bp
        PROVE  InodeOK(j, disk_inodes[j], blocks', leaked')
    <3>1. j \in inode_bp /\ Extends(j) /\ InodeOK(j, disk_inodes[j], blocks, leaked)
      BY <1>1 DEF ImageOK, DurableOK
    <3>2. disk_inodes[j].size \in Int /\ inodes[j].size \in Int
      BY <1>1, <3>1 DEF TypeOK, Inode
    <3>3. ASSUME NEW s \in Slots, NEW c \in Cells, disk_inodes[j].direct[s] # NoBlock,
                 \/ disk_inodes[j].type = UFS_DIRECTORY
                 \/ AppendOnly /\ Below(disk_inodes[j], s, c)
          PROVE  blocks'[disk_inodes[j].direct[s]][c] = blocks[disk_inodes[j].direct[s]][c]
      <4>1. inodes[j].direct[s] = disk_inodes[j].direct[s] /\ inodes[j].direct[s] # NoBlock
        BY <3>1, <3>3 DEF Extends
      <4>2. disk_inodes[j].type = UFS_DIRECTORY => j # i
        BY <1>2, <3>1 DEF Extends, UFS_DIRECTORY, UFS_REGULAR_FILE
      <4>3. Below(disk_inodes[j], s, c) => Below(inodes[j], s, c)
        BY <3>1, <3>2, Sizes DEF Extends, Below
      <4> QED BY <1>11, <3>1, <3>3, <4>1, <4>2, <4>3
    <3>4. j \in leaked => j \in leaked'
      BY <1>6
    <3> QED BY <3>1, <3>3, <3>4, InodeKept
  <2> QED BY <1>1, <1>6, <2>1 DEF ImageOK
<1>16. WriteState'
  <2>1. frame'.inum = i /\ frame'.blk = b + 1 /\ frame'.off = 0
        /\ frame'.left = frame.left - z
    BY <1>1, <1>6 DEF TypeOK
  <2>2. ASSUME AppendOnly, frame.left - z > 0
        PROVE  (b + 1) * BlockSize + 0 = y.size
    <3>1. z = BlockSize - o
      BY <1>2, <1>3, <2>2
    <3>2. (b + 1) * BlockSize = b * BlockSize + BlockSize /\ b * BlockSize \in Nat
      BY <1>2, Sizes
    <3>3. y.size = b * BlockSize + o + z
      BY <1>5, <1>8, <2>2
    <3> QED BY <1>2, <3>1, <3>2, <3>3, Sizes
  <2> QED BY <1>2, <1>6, <1>8, <2>1, <2>2 DEF WriteState
<1>17. DirsStay
  <2>1. x.type # UFS_DIRECTORY
    BY <1>2 DEF UFS_DIRECTORY, UFS_REGULAR_FILE
  <2>2. ASSUME NEW j \in inode_bp
        PROVE  /\ inodes'[j].type = inodes[j].type
               /\ inodes[j].type = UFS_DIRECTORY => j # i /\ inodes'[j] = inodes[j]
    BY <1>2, <1>7, <1>8, <2>1
  <2>3. ASSUME NEW j \in inode_bp, j # i, NEW s \in Slots, NEW c \in Cells,
               inodes[j].direct[s] # NoBlock
        PROVE  blocks'[inodes[j].direct[s]][c] = blocks[inodes[j].direct[s]][c]
    BY <1>11, <2>3
  <2> HIDE DEF i, x
  <2> QED BY <2>2, <2>3 DEF DirsStay
<1> QED BY <1>6, <1>11, <1>13, <1>14, <1>15, <1>16, <1>17 DEF DataOK, Dead

-----------------------------------------------------------------------------
(* commit_dirty_to_disk, the end of a call, and restarts.                  *)

LEMMA CommitStepData ==
  ASSUME DataInv, ~torn, CommitInodeBit \/ CommitInode \/ CommitData
  PROVE  DataOK'
<1>1. /\ TypeOK /\ CoreOK /\ DurableOK /\ pc \in Committing
      /\ UNCHANGED <<inode_bp, data_bp, inodes, blocks, leaked>> /\ pc' \in Committing
  BY DEF DataInv, OwnedInv, DurableInv, DataOK, CommitInodeBit, CommitInode, CommitData,
         Committing, core, hist
<1>2. CoreOK'
  BY <1>1 DEF CoreOK
<1>3. DurableOK'
  <2>1. CASE CommitInodeBit
    <3> DEFINE i == Min(dirty_inode_bp)
    <3>1. /\ dirty_inode_bp' = dirty_inode_bp \ {i} /\ frame'.at = i
          /\ disk_inode_bp' = WriteWord(disk_inode_bp, inode_bp, i)
          /\ pc = "commit" /\ pc' = "commit_inode"
          /\ UNCHANGED <<disk_inodes, durable>>
      BY <1>1, <2>1 DEF CommitInodeBit, reset_bitmap, TypeOK, hist
    <3> HIDE DEF i
    <3>2. disk_inode_bp \subseteq disk_inode_bp' /\ disk_inode_bp' \subseteq inode_bp
      BY <1>1, <3>1 DEF WriteWord, DurableOK
    <3>3. i \in inode_bp => i \in disk_inode_bp'
      BY <3>1, WordWritten
    <3>4. \A j \in durable : Extends(j)'
      BY <1>1, <3>1 DEF DurableOK, Extends
    <3>5. inode_bp \ durable \subseteq dirty_inode_bp' \cup {i}
      BY <1>1, <3>1 DEF DurableOK
    <3> QED BY <1>1, <3>1, <3>2, <3>3, <3>4, <3>5 DEF DurableOK
  <2>2. CASE CommitInode
    <3> DEFINE i == frame.at
    <3>1. /\ disk_inodes' = [disk_inodes EXCEPT ![i] = inodes[i]]
          /\ durable' = durable \cup ({i} \cap inode_bp) /\ i \in Inodes
          /\ pc = "commit_inode" /\ pc' = "commit"
          /\ UNCHANGED <<disk_inode_bp, dirty_inode_bp>>
      BY <1>1, <2>2 DEF CommitInode, TypeOK, core
    <3> HIDE DEF i
    <3>2. ASSUME NEW j \in durable' PROVE Extends(j)'
      <4>1. j \in Inodes
        BY <1>1, <3>1, <3>2 DEF TypeOK
      <4>2. CASE j = i
        <5>1. disk_inodes'[j] = inodes[j] /\ inodes'[j] = inodes[j]
          BY <1>1, <3>1, <4>1, <4>2 DEF TypeOK
        <5>2. inodes[j].size \in Int
          BY <1>1, <4>1 DEF TypeOK, Inode
        <5> QED BY <5>1, <5>2 DEF Extends
      <4>3. CASE j # i
        <5>1. disk_inodes'[j] = disk_inodes[j] /\ inodes'[j] = inodes[j] /\ Extends(j)
          BY <1>1, <3>1, <3>2, <4>1, <4>3 DEF TypeOK, DurableOK
        <5> QED BY <5>1 DEF Extends
      <4> QED BY <4>2, <4>3
    <3>3. durable' \subseteq disk_inode_bp
      BY <1>1, <3>1 DEF DurableOK, i
    <3>4. inode_bp \ durable' \subseteq dirty_inode_bp
      BY <1>1, <3>1 DEF DurableOK, i
    <3> QED BY <1>1, <3>1, <3>2, <3>3, <3>4 DEF DurableOK
  <2>3. CASE CommitData
    <3>1. pc' = pc /\ frame' = frame
          /\ UNCHANGED <<disk_inode_bp, disk_inodes, dirty_inode_bp, durable>>
      BY <2>3 DEF CommitData, hist
    <3> QED BY <1>1, <3>1 DEF DurableOK, Extends
  <2> QED BY <2>1, <2>2, <2>3
<1> QED BY <1>1, <1>2, <1>3 DEF DataOK, Committing, Dead

LEMMA CommitDoneData ==
  ASSUME DataInv, ~torn, CommitDone
  PROVE  DataOK'
<1>1. /\ TypeOK /\ Coherent /\ CoreOK /\ DurableOK /\ pc = "commit" /\ pc' = "idle"
      /\ dirty_inode_bp = {} /\ dirty_data_bp = {}
      /\ UNCHANGED <<core, image, hist>>
  BY DEF DataInv, OwnedInv, DurableInv, DataOK, CommitDone, Return
<1>2. UNCHANGED <<inode_bp, data_bp, inodes, dirty_inode_bp, disk_inode_bp, disk_data_bp,
                  disk_inodes, blocks, leaked, durable>>
  BY <1>1 DEF core, image, hist
<1>3. inode_bp = disk_inode_bp /\ data_bp = disk_data_bp /\ inodes = disk_inodes
  <2>1. inode_bp = disk_inode_bp
    BY <1>1 DEF Coherent, InodeClean, TypeOK
  <2>2. data_bp = disk_data_bp
    BY <1>1 DEF Coherent, DataClean, TypeOK
  <2>3. inodes = disk_inodes
    BY <1>1 DEF Coherent, InodeClean, TypeOK
  <2> QED BY <2>1, <2>2, <2>3
<1>4. CoreOK'
  BY <1>1, <1>2 DEF CoreOK
<1>5. DurableOK'
  BY <1>1, <1>2 DEF DurableOK, Extends
<1>6. ImageOK'
  <2>1. disk_inode_bp \subseteq durable
    BY <1>1 DEF DurableOK
  <2> QED BY <1>1, <1>2, <1>3, <2>1 DEF CoreOK, ImageOK
<1> QED BY <1>1, <1>4, <1>5, <1>6 DEF DataOK, Committing, Dead

\* A process that dies between calls finds the image in order.
LEMMA RestartData ==
  ASSUME DataInv, Restart, ~torn'
  PROVE  DataOK'
<1>1. /\ ~torn /\ pc \in Dead \cup {"idle"} /\ pc' = "idle"
      /\ inode_bp' = disk_inode_bp /\ data_bp' = disk_data_bp /\ inodes' = disk_inodes
      /\ leaked' = leaked \cap disk_inode_bp
      /\ UNCHANGED <<disk_inode_bp, disk_data_bp, disk_inodes, blocks, durable>>
  BY DEF Restart, image
<1>2. TypeOK /\ DurableOK /\ ImageOK
  BY <1>1 DEF DataInv, OwnedInv, DurableInv, DataOK, Committing, Dead
<1>3. ASSUME NEW i \in disk_inode_bp
      PROVE  InodeOK(i, disk_inodes[i], blocks, leaked')
  <2>1. InodeOK(i, disk_inodes[i], blocks, leaked) /\ (i \in leaked => i \in leaked')
    BY <1>1, <1>2 DEF ImageOK
  <2> QED BY <2>1, InodeKept
<1>4. CoreOK'
  BY <1>1, <1>2, <1>3 DEF CoreOK, ImageOK
<1>5. ImageOK'
  BY <1>1, <1>2, <1>3 DEF ImageOK
<1>6. DurableOK'
  <2>1. durable = disk_inode_bp /\ durable \subseteq Inodes
    BY <1>2 DEF DurableOK, ImageOK, TypeOK
  <2>2. ASSUME NEW i \in durable PROVE Extends(i)'
    <3>1. disk_inodes[i].size \in Int
      BY <1>2, <2>1 DEF TypeOK, Inode
    <3> QED BY <1>1, <3>1 DEF Extends
  <2> QED BY <1>1, <2>1, <2>2 DEF DurableOK
<1> QED BY <1>1, <1>4, <1>5, <1>6 DEF DataOK, Dead

\* A call that answers at once, or ends the process.
LEMMA AnswerData ==
  ASSUME DataInv, ~torn, pc = "idle", NEW op, NEW r, Answer(op, r),
         Dies(r) /\ AppendOnly => leaked # {}
  PROVE  DataOK'
<1>1. /\ UNCHANGED <<inode_bp, data_bp, inodes, dirty_inode_bp, image, leaked, durable>>
      /\ pc' \in {"idle"} \cup Dead /\ (pc' \in Dead => Dies(r))
  BY DEF Answer, Return, Die, Death, Dead, core, hist
<1>2. CoreOK' /\ DurableOK' /\ ImageOK'
  <2>1. pc \notin Committing /\ pc' # "commit_inode"
    BY <1>1 DEF Committing, Dead
  <2>2. UNCHANGED <<inode_bp, data_bp, inodes, image, durable>>
    BY <1>1
  <2> QED BY <1>1, <2>1, <2>2, NothingWritten
<1> QED BY <1>1, <1>2 DEF DataOK, Dead

LEMMA ReplyData ==
  ASSUME DataInv, ~torn, Lookup \/ CreatRefused \/ WriteRefused \/ Read
  PROVE  UNCHANGED vars \/ (DataOK' /\ torn' = torn)
<1>1. ASSUME pc = "idle" PROVE TypeOK /\ CoreOK
  BY DEF DataInv, OwnedInv, DurableInv, DataOK
<1>2. ASSUME NEW op, NEW r, pc = "idle", Answer(op, r),
             Dies(r) /\ AppendOnly => leaked # {}
      PROVE  DataOK' /\ torn' = torn
  BY <1>2, AnswerData DEF Answer, hist
<1>3. CASE Lookup
  <2>1. SUFFICES ASSUME NEW p \in Inums, NEW n \in Names, pc = "idle",
                        Dies(ufs_lookup(p, n)), Answer("lookup", ufs_lookup(p, n))
                 PROVE  DataOK' /\ torn' = torn
    BY <1>3 DEF Lookup, Ask, Idle
  <2>2. leaked # {}
    BY <1>1, <2>1, LookupDies DEF Inums
  <2> QED BY <1>2, <2>1, <2>2
<1>4. CASE CreatRefused
  <2>1. PICK p \in Inums, n \in Names : Answer("creat", CreatRefusal(p, n))
    BY <1>4 DEF CreatRefused
  <2>2. pc = "idle"
    BY <1>4 DEF CreatRefused, Idle
  <2>3. Dies(CreatRefusal(p, n)) => Dies(ufs_lookup(p, n))
    BY DEF CreatRefusal, Dies, Exits, AssertFails
  <2>4. Dies(CreatRefusal(p, n)) => leaked # {}
    BY <1>1, <2>2, <2>3, LookupDies DEF Inums
  <2> QED BY <1>2, <2>1, <2>2, <2>4
<1>5. CASE WriteRefused
  <2>1. pc = "idle" /\ Answer("write", -1) /\ ~Dies(-1)
    BY <1>5 DEF WriteRefused, Idle, Dies, Exits, AssertFails
  <2> QED BY <1>2, <2>1
<1>6. CASE Read
  <2>1. SUFFICES ASSUME NEW i \in Inums, NEW off \in Offsets, NEW n \in Counts,
                        pc = "idle", Dies(ufs_read(i, off, n)),
                        Answer("read", ufs_read(i, off, n))
                 PROVE  DataOK' /\ torn' = torn
    BY <1>6 DEF Read, Ask, Idle
  <2>2. i \in Int /\ off \in Int /\ n \in Int
    BY DEF Inums, Offsets, Counts
  <2>3. AppendOnly => leaked # {}
    BY <1>1, <2>1, <2>2, ReadDies
  <2> QED BY <1>2, <2>1, <2>3
<1> QED BY <1>3, <1>4, <1>5, <1>6

\* What mkfs made: a root directory with . and .., and nothing else.
Formatted ==
  /\ disk_inode_bp = {0} /\ disk_data_bp = {0} /\ disk_inodes[0] = RootInode
  /\ blocks[DataStart] = EmptyDir(0, 0) /\ durable = {0}

\* It has just been read.
FreshlyRead ==
  /\ TypeOK /\ Formatted /\ Synced
  /\ pc = "idle" /\ last.op = "none" /\ leaked = {}

LEMMA RootInOrder ==
  /\ RootInode.type = UFS_DIRECTORY /\ RootInode.size = 2
  /\ RootInode.direct = [NoBlocks EXCEPT ![0] = DataStart]
  /\ RootInode.direct[0] = 0 + DataStart
  /\ DataStart \in BlockAddrs /\ DataStart \in DataAddrs /\ DataStart # NoBlock
<1>1. RootInode.direct[0] = DataStart
  BY Addresses DEF RootInode, NoBlocks
<1>2. DataStart \in BlockAddrs /\ DataStart \in DataAddrs /\ DataStart # NoBlock
  BY SizesAssumption DEF BlockAddrs, DataAddrs, NoBlock
<1> QED BY <1>1, <1>2, SizesAssumption DEF RootInode

LEMMA FreshOwned == FreshlyRead => OwnedInv
<1> SUFFICES ASSUME FreshlyRead PROVE OwnedInv
  OBVIOUS
<1>1. DurableInv
  BY DEF FreshlyRead, Synced, DurableInv, Coherent, InodeClean, DataClean,
         SuccessIsDurable, WriterMarked
<1>2. Owned({0}, disk_inodes, {0})
  <2>1. DataStart - DataStart = 0
    BY SizesAssumption
  <2>2. \A u \in Slots : disk_inodes[0].direct[u] # NoBlock =>
                           u = 0 /\ disk_inodes[0].direct[u] = DataStart
    BY RootInOrder, Addresses DEF FreshlyRead, Formatted, NoBlocks
  <2> QED BY <2>1, <2>2, RootInOrder DEF Owned
<1> QED BY <1>1, <1>2 DEF OwnedInv, OwnedEverywhere, FreshlyRead, Formatted, Synced

LEMMA FreshData == FreshlyRead => DataInv
<1> SUFFICES ASSUME FreshlyRead PROVE DataInv
  OBVIOUS
<1>1. /\ inode_bp = {0} /\ data_bp = {0} /\ inodes = disk_inodes /\ pc = "idle"
      /\ disk_inode_bp = {0} /\ disk_data_bp = {0} /\ durable = {0} /\ leaked = {}
      /\ disk_inodes[0] = RootInode
  BY DEF FreshlyRead, Formatted, Synced
<1>2. DirOK(RootInode, blocks)
  <2>1. 0 \in Inodes /\ blocks[DataStart] = EmptyDir(0, 0)
    BY Addresses DEF FreshlyRead, Formatted
  <2> HIDE DEF NoBlock, RootInode
  <2> QED BY <2>1, RootInOrder, FreshDir
<1>3. InodeOK(0, RootInode, blocks, leaked)
  BY <1>2, RootInOrder, DirIsOK
<1>4. NoneLost({0}, disk_inodes, {0})
  BY <1>1, RootInOrder, Addresses DEF NoneLost
<1>5. Extends(0)
  BY <1>1, RootInOrder DEF Extends
<1>6. CoreOK /\ ImageOK /\ DurableOK
  BY <1>1, <1>3, <1>4, <1>5 DEF CoreOK, ImageOK, DurableOK
<1> QED BY <1>1, <1>6, FreshOwned DEF DataInv, DataOK, Dead

LEMMA InitData == Init => DataInv
<1> SUFFICES ASSUME Init PROVE DataInv
  OBVIOUS
<1>1. PICK s \in [Inodes -> StaleInodes] : disk_inodes = [s EXCEPT ![0] = RootInode]
  BY DEF Init
<1>2. disk_inodes[0] = RootInode
  BY <1>1, Addresses
<1>3. blocks[DataStart] = EmptyDir(0, 0)
  BY RootInOrder DEF Init, MkfsBlocks
<1> QED BY <1>2, <1>3, InitType, FreshData DEF FreshlyRead, Formatted, Synced, Init, ufs_init

LEMMA DataStep ==
  ASSUME "unlink" \notin Ops, DataInv, [Next]_vars
  PROVE  DataInv'
<1>1. OwnedInv'
  BY OwnedStep DEF DataInv
<1> SUFFICES ASSUME ~torn' PROVE DataOK'
  BY <1>1 DEF DataInv, DataOK
<1>2. CASE UNCHANGED vars
  BY <1>2 DEF vars, DataInv, DataOK, CoreOK, ImageOK, DurableOK, Extends, LinkState,
              WriteState, IsFull, HasFree
<1>3. CASE Call
  <2>1. ~ \E p \in Inums, n \in Names \cup {Dot} : UnlinkRefused(p, n) \/ Unlink(p, n)
    BY ZenonT(60) DEF UnlinkRefused, Unlink, Idle
  <2>2. ASSUME NEW p \in Inums, NEW n \in Names,
               NEW t \in {UFS_DIRECTORY, UFS_REGULAR_FILE},
               CreatFails(p, t, n) \/ CreatAllocates(p, t, n)
        PROVE  DataOK'
    <3>1. ~torn
      BY <2>2 DEF CreatFails, CreatAllocates, hist
    <3> QED BY <2>2, <3>1, CreatFailsData, CreatAllocatesData
  <2>3. ASSUME NEW i \in Inums, NEW off \in Offsets, NEW n \in Counts,
               WriteBegin(i, off, n)
        PROVE  DataOK'
    <3>1. ~torn
      BY <2>3 DEF WriteBegin, hist
    <3> QED BY <2>3, <3>1, WriteBeginData
  <2>4. CASE Lookup \/ CreatRefused \/ WriteRefused \/ Read
    <3>1. ~torn \/ UNCHANGED vars
      BY <2>4, RepliesAnswer DEF DataInv, OwnedInv, DurableInv, Answer, hist
    <3> QED BY <1>2, <2>4, <3>1, ReplyData
  <2> QED BY <1>3, <2>1, <2>2, <2>3, <2>4 DEF Call, Grow, Unlinks
<1>4. CASE Handler
  <2>1. ~torn
    BY <1>4 DEF Handler, LinkFails, LinkInNewBlock, LinkInFreeEntry, WriteBlock,
                WriteFails, WriteEnd, CommitInodeBit, CommitInode, CommitData,
                CommitDone, hist
  <2> QED BY <1>4, <2>1, LinkFailsData, LinkInNewBlockData, LinkInFreeEntryData,
             WriteBlockData, WriteEndsData, CommitStepData, CommitDoneData DEF Handler
<1>5. CASE Restart
  BY <1>5, RestartData
<1> QED BY <1>2, <1>3, <1>4, <1>5 DEF Next

LEMMA AlwaysData ==
  ASSUME "unlink" \notin Ops
  PROVE  Spec => []DataInv
<1>1. DataInv /\ [Next]_vars => DataInv'
  BY DataStep
<1> QED BY <1>1, InitData, PTL DEF Spec

-----------------------------------------------------------------------------
(* What the invariant gives.                                               *)

\* Unless clients unlink, every allocated block belongs to an inode, through
\* creat and write calls that fail half way.
THEOREM BlocksNeverLost ==
  ASSUME "unlink" \notin Ops
  PROVE  Spec => []NoBlockLost
<1>1. DataInv => NoBlockLost
  <2>1. SUFFICES ASSUME DataInv, ~torn, NEW d \in data_bp
                 PROVE  \E x \in Owners : AddrOf(x) = d + DataStart
    BY DEF NoBlockLost
  <2>2. TypeOK /\ CoreOK
    BY <2>1 DEF DataInv, OwnedInv, DurableInv, DataOK
  <2>3. PICK i \in inode_bp, s \in Slots : inodes[i].direct[s] = d + DataStart
    BY <2>2 DEF CoreOK, NoneLost
  <2>4. d + DataStart # NoBlock
    BY <2>2, Addresses DEF TypeOK
  <2>5. <<i, s>> \in Owners /\ AddrOf(<<i, s>>) = d + DataStart
    BY <2>3, <2>4 DEF Owners, AddrOf
  <2> QED BY <2>5
<1> QED BY <1>1, AlwaysData, PTL

\* A directory in order that no failed creat left, as the properties name it.
LEMMA DirectoriesOK ==
  ASSUME DataInv, ~torn, NEW p \in Directories
  PROVE  /\ TypeOK /\ p \in Inodes \cap inode_bp
         /\ inodes[p].type = UFS_DIRECTORY /\ DirOK(inodes[p], blocks)
         /\ Owned(inode_bp, inodes, data_bp)
<1>1. /\ TypeOK /\ CoreOK /\ Owned(inode_bp, inodes, data_bp)
      /\ p \in inode_bp /\ p \notin leaked /\ inodes[p].type = UFS_DIRECTORY
  BY DEF DataInv, OwnedInv, DurableInv, OwnedEverywhere, DataOK, Directories
<1> QED BY <1>1 DEF CoreOK, InodeOK, TypeOK

\* The entries of a directory in order are its first cells.
LEMMA EntriesBelow ==
  ASSUME TypeOK, NEW p \in Inodes, DirOK(inodes[p], blocks), NEW e
  PROVE  e \in Entries(p) <=>
           \E s \in Slots, c \in Cells :
             Below(inodes[p], s, c) /\ e = <<inodes[p].direct[s], c>>
<1> DEFINE x == inodes[p]
<1>1. e \in Entries(p) <=> \E s \in Slots, c \in Cells :
         x.direct[s] # NoBlock /\ blocks[x.direct[s]][c].inum # -1 /\ e = <<x.direct[s], c>>
  BY DEF Entries, UsedCells
<1>2. -1 \notin Inodes
  BY DEF Inodes
<1>3. ASSUME NEW s \in Slots, NEW c \in Cells
      PROVE  x.direct[s] # NoBlock /\ blocks[x.direct[s]][c].inum # -1 <=> Below(x, s, c)
  <2>1. Below(x, s, c) => x.direct[s] # NoBlock
    BY CellIsSet DEF DirOK
  <2> QED BY <1>2, <2>1 DEF DirOK, EntryOK
<1> QED BY <1>1, <1>3

\* The entries stand one to one for the offsets below the size.
LEMMA EntriesCounted ==
  ASSUME TypeOK, NEW p \in Inodes \cap inode_bp, DirOK(inodes[p], blocks),
         Owned(inode_bp, inodes, data_bp)
  PROVE  inodes[p].size = Cardinality(Entries(p))
<1> DEFINE x == inodes[p]
           K == 0 .. x.size - 1
           at == [k \in K |-> <<x.direct[k \div BlockSize], k % BlockSize>>]
<1>1. Packed(x) /\ x.size \in 0 .. Capacity /\ x.size \in Nat
  BY Sizes DEF DirOK, Packed
<1>2. ASSUME NEW k \in K
      PROVE  /\ k \in Nat /\ k \div BlockSize \in Slots /\ k % BlockSize \in Cells
             /\ Below(x, k \div BlockSize, k % BlockSize)
             /\ k = (k \div BlockSize) * BlockSize + (k % BlockSize)
             /\ x.direct[k \div BlockSize] # NoBlock
  <2>1. k \in Nat /\ k < x.size
    BY <1>1
  <2>2. k \in 0 .. Capacity - 1
    BY <1>1, Sizes
  <2> QED BY <1>1, <2>1, <2>2, PackedCell, OffsetSplit DEF Ptr
<1>3. at \in [K -> Entries(p)]
  <2>1. \A k \in K : <<x.direct[k \div BlockSize], k % BlockSize>> \in Entries(p)
    BY <1>2, EntriesBelow
  <2> QED BY <2>1
<1>4. ASSUME NEW k \in K, NEW m \in K, at[k] = at[m] PROVE k = m
  <2>1. x.direct[k \div BlockSize] = x.direct[m \div BlockSize] /\ k % BlockSize = m % BlockSize
    BY <1>4
  <2>2. k \div BlockSize = m \div BlockSize
    BY <1>2, <2>1 DEF Owned
  <2> QED BY <1>2, <2>1, <2>2
<1>5. ASSUME NEW e \in Entries(p) PROVE \E k \in K : at[k] = e
  <2>1. PICK s \in Slots, c \in Cells : Below(x, s, c) /\ e = <<x.direct[s], c>>
    BY EntriesBelow
  <2> DEFINE k == s * BlockSize + c
  <2>2. k \in K
    BY <1>1, <2>1, Sizes DEF Below
  <2>3. k \div BlockSize = s /\ k % BlockSize = c
    BY OffsetOf
  <2> QED BY <2>1, <2>2, <2>3
<1>6. at \in Bijection(K, Entries(p))
  <2>1. \A k, m \in K : at[k] = at[m] => k = m
    BY <1>4
  <2>2. \A e \in Entries(p) : \E k \in K : at[k] = e
    BY <1>5
  <2>3. DOMAIN at = K
    OBVIOUS
  <2> HIDE DEF at, K
  <2>4. at \in Injection(K, Entries(p))
    BY <1>3, <2>1, <2>3 DEF Injection, IsInjective
  <2>5. at \in Surjection(K, Entries(p))
    BY <1>3, <2>2 DEF Surjection
  <2> QED BY <2>4, <2>5 DEF Bijection
<1>7. IsFiniteSet(K) /\ Cardinality(K) = x.size
  <2>1. x.size - 1 \in Int /\ 0 \in Int
    BY <1>1
  <2>2. IsFiniteSet(K) /\ Cardinality(K) = IF 0 > x.size - 1 THEN 0 ELSE x.size - 1 - 0 + 1
    BY <2>1, FS_Interval
  <2> QED BY <1>1, <2>2
<1> HIDE DEF K, at
<1>8. Cardinality(Entries(p)) = Cardinality(K)
  BY <1>6, <1>7, FS_Bijection DEF ExistsBijection
<1> QED BY <1>7, <1>8

\* Unless clients unlink, the size of a directory is the number of its used
\* entries, after every allocation and link, failed or not.
THEOREM SizesCount ==
  ASSUME "unlink" \notin Ops
  PROVE  Spec => []SizeCountsEntries
<1>1. DataInv => SizeCountsEntries
  BY DirectoriesOK, EntriesCounted DEF SizeCountsEntries
<1> QED BY <1>1, AlwaysData, PTL

\* Unless clients unlink, ufs_lookup answers with the inode of the entry the
\* directory's blocks hold under that name, or -1 when they hold none.
THEOREM LookupsFind ==
  ASSUME "unlink" \notin Ops
  PROVE  Spec => []LookupIsExact
<1>1. ASSUME DataInv, ~torn, NEW p \in Directories, NEW n \in Names
      PROVE  LET hits == {e \in Entries(p) : EntryAt(e).name = n}
             IN ufs_lookup(p, n) = IF hits = {} THEN -1
                                   ELSE EntryAt(CHOOSE e \in hits : TRUE).inum
  <2> DEFINE x == inodes[p]
             hits == {e \in Entries(p) : EntryAt(e).name = n}
  <2>1. /\ TypeOK /\ p \in Inodes \cap inode_bp
        /\ x.type = UFS_DIRECTORY /\ DirOK(x, blocks)
    BY <1>1, DirectoriesOK
  <2>2. ASSUME NEW e
        PROVE  e \in hits <=> \E s \in Slots, c \in Cells :
                 /\ Below(x, s, c) /\ e = <<x.direct[s], c>>
                 /\ blocks[x.direct[s]][c].name = n
    BY <2>1, EntriesBelow DEF EntryAt
  <2>3. CASE /\ ufs_lookup(p, n) = -1
             /\ \A s \in Slots, c \in Cells : Below(x, s, c) =>
                  blocks[x.direct[s]][c].name # n
    <3>1. hits = {}
      BY <2>2, <2>3
    <3> QED BY <2>3, <3>1
  <2>4. CASE \E s \in Slots, c \in Cells :
               /\ Below(x, s, c) /\ blocks[x.direct[s]][c].name = n
               /\ ufs_lookup(p, n) = blocks[x.direct[s]][c].inum
    <3>1. PICK s \in Slots, c \in Cells :
                 /\ Below(x, s, c) /\ blocks[x.direct[s]][c].name = n
                 /\ ufs_lookup(p, n) = blocks[x.direct[s]][c].inum
      BY <2>4
    <3>2. <<x.direct[s], c>> \in hits
      BY <2>2, <3>1
    <3>3. \A e \in hits : e = <<x.direct[s], c>>
      <4>1. ASSUME NEW e \in hits PROVE e = <<x.direct[s], c>>
        <5>1. PICK u \in Slots, d \in Cells :
                     /\ Below(x, u, d) /\ e = <<x.direct[u], d>>
                     /\ blocks[x.direct[u]][d].name = n
          BY <2>2
        <5>2. u = s /\ d = c
          BY <1>1, <2>1, <3>1, <5>1 DEF DirOK
        <5> QED BY <5>1, <5>2
      <4> QED BY <4>1
    <3> HIDE DEF hits
    <3>4. (CHOOSE e \in hits : TRUE) = <<x.direct[s], c>> /\ hits # {}
      BY <3>2, <3>3
    <3>5. EntryAt(<<x.direct[s], c>>) = blocks[x.direct[s]][c]
      BY DEF EntryAt
    <3>6. EntryAt(CHOOSE e \in hits : TRUE) = blocks[x.direct[s]][c]
      BY <3>4, <3>5
    <3> QED BY <3>1, <3>4, <3>6 DEF hits
  <2> QED BY <2>1, <2>3, <2>4, LookupOfDir
<1>2. DataInv => LookupIsExact
  BY <1>1 DEF LookupIsExact
<1> QED BY <1>2, AlwaysData, PTL

\* A file that clients only append to reads back what they wrote, also when a
\* full disk cut a write short.
THEOREM FilesReadBack ==
  ASSUME "unlink" \notin Ops, AppendOnly
  PROVE  Spec => []FileContents
<1>1. ASSUME DataInv, ~torn, NEW i \in Files
      PROVE  /\ inodes[i].size \in 0 .. Capacity
             /\ \A k \in 0 .. inodes[i].size - 1 :
                  Ptr(i, k) # NoBlock /\ CellAt(i, k) = Byte(i, k)
             /\ \A s \in Slots : inodes[i].direct[s] # NoBlock =>
                  s * BlockSize < inodes[i].size
  <2>1. CoreOK /\ i \in inode_bp /\ i \notin leaked /\ inodes[i].type = UFS_REGULAR_FILE
    BY <1>1 DEF DataInv, DataOK, Files
  <2>2. FileOK(i, inodes[i], blocks)
    BY <2>1 DEF CoreOK, InodeOK
  <2>3. Packed(inodes[i])
    BY <2>2 DEF FileOK
  <2>4. ASSUME NEW k \in 0 .. inodes[i].size - 1
        PROVE  Ptr(i, k) # NoBlock /\ CellAt(i, k) = Byte(i, k)
    <3>1. k \in Nat /\ k < inodes[i].size /\ k \in 0 .. Capacity - 1
      BY <2>3, Sizes DEF Packed
    <3>2. /\ k \div BlockSize \in Slots /\ k % BlockSize \in Cells
          /\ Below(inodes[i], k \div BlockSize, k % BlockSize) /\ Ptr(i, k) # NoBlock
          /\ k = (k \div BlockSize) * BlockSize + (k % BlockSize)
      BY <2>3, <3>1, PackedCell, OffsetSplit
    <3>3. CellAt(i, k) = Byte(i, (k \div BlockSize) * BlockSize + (k % BlockSize))
      BY <2>2, <3>2 DEF FileOK, CellAt, Ptr
    <3> QED BY <3>2, <3>3
  <2> QED BY <2>3, <2>4 DEF Packed
<1>2. DataInv => FileContents
  BY <1>1 DEF FileContents
<1> QED BY <1>2, AlwaysData, PTL

\* With clients that neither unlink nor overwrite, the process dies of a call
\* only after a creat returned -1 and left an inode behind.
THEOREM DeathsNeedLeaks ==
  ASSUME "unlink" \notin Ops, AppendOnly
  PROVE  Spec => []DeathNeedsLeak
<1>1. DataInv => DeathNeedsLeak
  BY DEF DataInv, DataOK, DeathNeedsLeak
<1> QED BY <1>1, AlwaysData, PTL

-----------------------------------------------------------------------------
(* What was committed.                                                     *)

\* No step changes a cell that the core sees in an allocated inode.
LEMMA CoreCellsKept ==
  ASSUME "unlink" \notin Ops, AppendOnly, DataInv, ~torn, [Next]_vars,
         NEW i \in inode_bp, NEW s \in Slots, NEW c \in Cells,
         Below(inodes[i], s, c), inodes[i].direct[s] # NoBlock
  PROVE  blocks'[inodes[i].direct[s]][c] = blocks[inodes[i].direct[s]][c]
<1>1. CASE UNCHANGED blocks
  BY <1>1
<1>2. ASSUME NEW p \in Inums, NEW n \in Names,
             NEW t \in {UFS_DIRECTORY, UFS_REGULAR_FILE}, CreatAllocates(p, t, n)
      PROVE  blocks'[inodes[i].direct[s]][c] = blocks[inodes[i].direct[s]][c]
  BY <1>2, CreatAllocatesData
<1>3. CASE LinkInNewBlock
  BY <1>3, LinkInNewBlockData
<1>4. CASE LinkInFreeEntry
  BY <1>4, LinkInFreeEntryData
<1>5. CASE WriteBlock
  BY <1>5, WriteBlockData
<1>6. CASE UNCHANGED vars
  BY <1>1, <1>6 DEF vars
<1>7. CASE Call
  <2>1. ~ \E p \in Inums, n \in Names \cup {Dot} : UnlinkRefused(p, n) \/ Unlink(p, n)
    BY ZenonT(60) DEF UnlinkRefused, Unlink, Idle
  <2>2. CASE Lookup \/ CreatRefused \/ WriteRefused \/ Read
    BY <1>1, <1>6, <2>2, RepliesAnswer DEF DataInv, OwnedInv, DurableInv, Answer, image
  <2>3. ASSUME NEW p \in Inums, NEW n \in Names,
               NEW t \in {UFS_DIRECTORY, UFS_REGULAR_FILE}, CreatFails(p, t, n)
        PROVE  UNCHANGED blocks
    BY <2>3 DEF CreatFails, image
  <2>4. ASSUME NEW j \in Inums, NEW off \in Offsets, NEW n \in Counts,
               WriteBegin(j, off, n)
        PROVE  UNCHANGED blocks
    BY <2>4 DEF WriteBegin, image
  <2> QED BY <1>1, <1>2, <1>7, <2>1, <2>2, <2>3, <2>4 DEF Call, Grow, Unlinks
<1>8. CASE Handler
  <2>1. LinkFails \/ WriteFails \/ WriteEnd \/ CommitInodeBit \/ CommitInode \/ CommitData
        \/ CommitDone => UNCHANGED blocks
    BY DEF LinkFails, WriteFails, WriteEnd, CommitInodeBit, CommitInode, CommitData,
           CommitDone, image
  <2> QED BY <1>1, <1>3, <1>4, <1>5, <1>8, <2>1 DEF Handler
<1>9. CASE Restart
  BY <1>1, <1>9 DEF Restart, image
<1> QED BY <1>6, <1>7, <1>8, <1>9 DEF Next

\* A committed inode stays committed; its entry on the image stays as it is, or
\* becomes the one in core.
LEMMA EntryOnDisk ==
  ASSUME "unlink" \notin Ops, DataInv, ~torn, [Next]_vars, NEW i \in durable
  PROVE  /\ i \in disk_inode_bp' /\ disk_inodes'[i] \in {disk_inodes[i], inodes[i]}
<1>1. TypeOK /\ DurableOK /\ i \in disk_inode_bp /\ i \in inode_bp /\ i \in Inodes
  BY DEF DataInv, OwnedInv, DurableInv, DataOK, DurableOK, TypeOK
<1>2. CASE UNCHANGED <<disk_inode_bp, disk_inodes>>
  BY <1>1, <1>2
<1>3. CASE CommitInodeBit
  <2>1. disk_inodes' = disk_inodes
    BY <1>3 DEF CommitInodeBit
  <2>2. \E j : disk_inode_bp' = WriteWord(disk_inode_bp, inode_bp, j)
    BY <1>3 DEF CommitInodeBit
  <2>3. i \in disk_inode_bp'
    BY <1>1, <2>2, WordWritten
  <2> QED BY <2>1, <2>3
<1>4. CASE CommitInode
  <2>1. /\ disk_inode_bp' = disk_inode_bp
        /\ disk_inodes' = [disk_inodes EXCEPT ![frame.at] = inodes[frame.at]]
    BY <1>4 DEF CommitInode
  <2> QED BY <1>1, <2>1 DEF TypeOK
<1>5. CASE UNCHANGED vars
  BY <1>2, <1>5 DEF vars
<1>6. CASE Call
  <2>1. ~ \E p \in Inums, n \in Names \cup {Dot} : UnlinkRefused(p, n) \/ Unlink(p, n)
    BY ZenonT(60) DEF UnlinkRefused, Unlink, Idle
  <2>2. CASE Lookup \/ CreatRefused \/ WriteRefused \/ Read
    BY <1>1, <1>2, <1>5, <2>2, RepliesAnswer DEF Answer, image
  <2>3. ASSUME NEW p \in Inums, NEW n \in Names,
               NEW t \in {UFS_DIRECTORY, UFS_REGULAR_FILE},
               CreatFails(p, t, n) \/ CreatAllocates(p, t, n)
        PROVE  UNCHANGED <<disk_inode_bp, disk_inodes>>
    BY <2>3 DEF CreatFails, CreatAllocates, image
  <2>4. ASSUME NEW j \in Inums, NEW off \in Offsets, NEW n \in Counts,
               WriteBegin(j, off, n)
        PROVE  UNCHANGED <<disk_inode_bp, disk_inodes>>
    BY <2>4 DEF WriteBegin, image
  <2> QED BY <1>2, <1>6, <2>1, <2>2, <2>3, <2>4 DEF Call, Grow, Unlinks
<1>7. CASE Handler
  <2>1. LinkFails \/ LinkInNewBlock \/ LinkInFreeEntry \/ WriteBlock \/ WriteFails
        \/ WriteEnd \/ CommitData \/ CommitDone => UNCHANGED <<disk_inode_bp, disk_inodes>>
    BY DEF LinkFails, LinkInNewBlock, LinkInFreeEntry, WriteBlock, WriteFails, WriteEnd,
           CommitData, CommitDone, image
  <2> QED BY <1>2, <1>3, <1>4, <1>7, <2>1 DEF Handler
<1>8. CASE Restart
  BY <1>2, <1>8 DEF Restart, image
<1> QED BY <1>5, <1>6, <1>7, <1>8 DEF Next

LEMMA CommittedStep ==
  ASSUME "unlink" \notin Ops, AppendOnly, DataInv, ~torn, [Next]_vars,
         NEW i \in durable \cap disk_inode_bp, NEW k \in OnDisk(disk_inodes, i)
  PROVE  /\ i \in disk_inode_bp' /\ k \in OnDisk(disk_inodes', i)
         /\ DiskCell(blocks', disk_inodes', i, k) = DiskCell(blocks, disk_inodes, i, k)
<1> DEFINE s == k \div BlockSize
           c == k % BlockSize
<1>1. TypeOK /\ i \in inode_bp /\ i \in Inodes /\ Extends(i)
  BY DEF DataInv, OwnedInv, DurableInv, DataOK, DurableOK, TypeOK
<1>2. /\ k \in 0 .. Capacity - 1 /\ k < disk_inodes[i].size
      /\ disk_inodes[i].direct[s] # NoBlock
  BY DEF OnDisk
<1>3. s \in Slots /\ c \in Cells /\ k = s * BlockSize + c /\ k \in Int
  BY <1>2, OffsetSplit
<1>4. disk_inodes[i].size \in Int /\ inodes[i].size \in Int
  BY <1>1 DEF TypeOK, Inode
<1> HIDE DEF s, c
<1>5. /\ inodes[i].direct[s] = disk_inodes[i].direct[s] /\ k < inodes[i].size
      /\ Below(inodes[i], s, c)
  BY <1>1, <1>2, <1>3, <1>4 DEF Extends, Below
<1>6. blocks'[inodes[i].direct[s]][c] = blocks[inodes[i].direct[s]][c]
  BY <1>1, <1>2, <1>3, <1>5, CoreCellsKept
<1>7. /\ i \in disk_inode_bp' /\ k < disk_inodes'[i].size
      /\ disk_inodes'[i].direct[s] = disk_inodes[i].direct[s]
  BY <1>2, <1>5, EntryOnDisk
<1>8. k \in OnDisk(disk_inodes', i)
  BY <1>2, <1>7 DEF OnDisk, s
<1>9. DiskCell(blocks', disk_inodes', i, k) = DiskCell(blocks, disk_inodes, i, k)
  BY <1>5, <1>6, <1>7 DEF DiskCell, s, c
<1> QED BY <1>7, <1>8, <1>9

\* With clients that neither unlink nor overwrite, no write to the image, in any
\* order of calls and deaths, changes or hides what was committed before.
THEOREM CommittedStays ==
  ASSUME "unlink" \notin Ops, AppendOnly
  PROVE  Spec => CommittedCellsStable
<1>1. DataInv /\ [Next]_vars =>
        [~torn => \A i \in durable \cap disk_inode_bp : \A k \in OnDisk(disk_inodes, i) :
           /\ i \in disk_inode_bp' /\ k \in OnDisk(disk_inodes', i)
           /\ DiskCell(blocks', disk_inodes', i, k) = DiskCell(blocks, disk_inodes, i, k)]_vars
  BY CommittedStep
<1>2. Spec => []DataInv
  BY AlwaysData
<1> QED BY <1>1, <1>2, PTL DEF Spec, CommittedCellsStable

=============================================================================
