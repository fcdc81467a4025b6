--------------------------- MODULE KernelFsProofs ---------------------------
(* Proofs about the kernel's file system: what can make it panic while it   *)
(* prints, what its calls see, and that it prints the tree of the image.    *)
EXTENDS KernelFs, UfsTreeProofs

(***************************************************************************)
(* What the kernel has in core is the image, and inodes it leaked itself.  *)
(***************************************************************************)

KernelPc == {"printing", "halted", "panic", "overflow", "wild"}

ImageInCore ==
  /\ disk_inode_bp \subseteq inode_bp /\ inode_bp \subseteq Inodes
  /\ inodes \in [Inodes -> Inode] /\ disk_inodes \in [Inodes -> Inode]
  /\ blocks \in [BlockAddrs -> [Cells -> Cell]]
  /\ \A i \in disk_inode_bp : inodes[i] = disk_inodes[i]
  /\ \A i \in inode_bp \ disk_inode_bp : inodes[i].direct = NoBlocks

KernelInv ==
  /\ machine \in {"host", "kernel"}
  /\ machine = "host" => TypeOK
  /\ Booted => /\ ImageInCore /\ pc \in KernelPc
               /\ pc = "printing" => inode_bp = disk_inode_bp
               /\ pc = "halted" => todo = <<>>
               /\ PrintingPanics

-----------------------------------------------------------------------------
(* The disk.                                                               *)

\* Blocks are stored one after the other.
LEMMA BlockInImage ==
  ASSUME NEW a \in BlockAddrs, NEW c \in Cells
  PROVE  /\ a * BlockSize + c \in Nat /\ ImageCells \in Nat
         /\ a * BlockSize + c < ImageCells
         /\ a * BlockSize + c + 1 = ImageCells =>
              a = DataStart + NumData - 1 /\ c = BlockSize - 1
<1>1. /\ a \in Nat /\ DataStart + NumData \in Nat
      /\ a < DataStart + NumData /\ c \in Nat /\ c < BlockSize
  BY SizesAssumption DEF BlockAddrs, DataAddrs, Superblock, Cells
<1>2. a * BlockSize + BlockSize <= ImageCells /\ ImageCells \in Nat /\ a * BlockSize \in Nat
  BY <1>1, Sizes, SlotOrder DEF ImageCells
<1>3. a + 1 < DataStart + NumData => a * BlockSize + BlockSize + BlockSize <= ImageCells
  <2>1. SUFFICES ASSUME a + 1 < DataStart + NumData
                 PROVE  a * BlockSize + BlockSize + BlockSize <= ImageCells
    OBVIOUS
  <2>2. (a + 1) * BlockSize + BlockSize <= ImageCells
    BY <1>1, <2>1, Sizes, SlotOrder DEF ImageCells
  <2>3. (a + 1) * BlockSize = a * BlockSize + BlockSize
    BY <1>1, Sizes
  <2> QED BY <2>2, <2>3
<1> HIDE DEF ImageCells
<1>4. \A x \in Nat : x + BlockSize + BlockSize <= ImageCells => x + c + 1 # ImageCells
  BY <1>1, <1>2, Sizes
<1>5. \A x \in Nat : x + BlockSize <= ImageCells =>
        /\ x + c \in Nat /\ x + c < ImageCells
        /\ x + c + 1 = ImageCells => c = BlockSize - 1
  BY <1>1, <1>2, Sizes
<1>6. a * BlockSize + c + 1 = ImageCells => ~(a + 1 < DataStart + NumData)
  BY <1>2, <1>3, <1>4
<1>7. /\ a * BlockSize + c \in Nat /\ a * BlockSize + c < ImageCells
      /\ a * BlockSize + c + 1 = ImageCells => c = BlockSize - 1
  BY <1>2, <1>5
<1>8. a * BlockSize + c + 1 = ImageCells => a = DataStart + NumData - 1
  BY <1>1, <1>6, SizesAssumption
<1> QED BY <1>2, <1>7, <1>8

\* A read succeeds unless it ends at the module's end or past it.
LEMMA ReadInImage ==
  ASSUME NEW addr \in Nat, NEW count \in Nat, addr + count < ImageCells
  PROVE  KRead(addr, count) = 0
<1>1. /\ Space \in Nat /\ Start \in Nat /\ ImageCells \in Nat
      /\ Start + ImageCells < Space
  BY KernelAssumption, SizesAssumption DEF ImageCells
<1> HIDE DEF ImageCells
<1>2. \A x \in Nat : x < Space => x % Space = x
  BY <1>1
<1>3. /\ addr % Space = addr /\ Disk!Address(addr) = Start + addr
      /\ Disk!Address(addr + count) = Start + addr + count
  BY <1>1, <1>2 DEF Disk!Address
<1>4. Disk!initrd_lseek(Disk!BssCursor, addr) = [rc |-> 0, cursor |-> addr]
  BY <1>1, <1>3 DEF Disk!initrd_lseek
<1>5. Disk!initrd_read(addr, count).rc = count
  BY <1>1, <1>3 DEF Disk!initrd_read
<1> QED BY <1>4, <1>5 DEF KRead

\* An address below zero wraps around.
LEMMA Wraps ==
  ASSUME NEW n \in Nat, NEW y \in Nat, y > 0, y < n
  PROVE  (-y) % n = n - y
<1>1. /\ (-y) % n \in 0 .. n - 1 /\ (-y) \div n \in Int
      /\ -y = n * ((-y) \div n) + ((-y) % n)
  OBVIOUS
<1> DEFINE q == (-y) \div n
           r == (-y) % n
<1>2. q \in Int /\ r \in 0 .. n - 1 /\ -y = n * q + r
  BY <1>1
<1> HIDE DEF q, r
<1>3. q < 0
  <2>1. q >= 0 => n * q >= 0
    BY <1>2
  <2> QED BY <1>2, <2>1
<1>4. q >= -1
  <2>1. SUFFICES ASSUME q <= -2 PROVE FALSE
    BY <1>2
  <2>2. n * (q + 2) <= 0
    BY <1>2, <2>1
  <2>3. n * (q + 2) = n * q + 2 * n
    BY <1>2
  <2> QED BY <1>2, <2>2, <2>3
<1>5. q = -1
  BY <1>2, <1>3, <1>4
<1>6. n * q = -n
  BY <1>5
<1>7. r = n - y
  BY <1>2, <1>6
<1> QED BY <1>7 DEF r

\* A cell that cannot be read is the module's last.
LEMMA OnlyLastCell ==
  ASSUME NEW i, NEW k, PtrTo(i, k) \in BlockAddrs \cup {NoBlock},
         Offset(k) % BlockSize \in Cells, ~Readable(i, k)
  PROVE  PtrTo(i, k) = DataStart + NumData - 1 /\ Offset(k) % BlockSize = BlockSize - 1
<1> DEFINE a == PtrTo(i, k)
           c == Offset(k) % BlockSize
<1>1. /\ Space \in Nat /\ Start \in Nat /\ ImageCells \in Nat /\ BlockSize \in Nat
      /\ Start >= BlockSize /\ Start + ImageCells < Space
      /\ ImageCells >= 1 /\ BlockSize >= 1
  <2>1. DataStart \in BlockAddrs /\ 0 \in Cells
    BY Addresses, RootInOrder
  <2>2. /\ ImageCells \in Nat /\ DataStart * BlockSize + 0 \in Nat
        /\ DataStart * BlockSize + 0 < ImageCells
    BY <2>1, BlockInImage
  <2> HIDE DEF ImageCells
  <2> QED BY <2>2, KernelAssumption, Sizes
<1>2. a \in BlockAddrs \cup {NoBlock} /\ c \in Cells /\ c \in Nat /\ c < BlockSize
  BY Sizes
<1>3. CellAddr(i, k) = (a * BlockSize + c) % Space /\ KRead(CellAddr(i, k), 1) # 0
  BY DEF CellAddr, Readable
<1> HIDE DEF a, c, ImageCells
<1>4. CASE a = NoBlock
  <2> DEFINE y == BlockSize - c
             addr == CellAddr(i, k)
  <2>1. a * BlockSize + c = -y
    BY <1>1, <1>2, <1>4 DEF NoBlock
  <2>2. y \in Nat /\ y > 0 /\ y <= BlockSize /\ y < Space
    BY <1>1, <1>2
  <2>3. addr = (-y) % Space
    BY <1>3, <2>1
  <2> HIDE DEF y, addr
  <2>4. (-y) % Space = Space - y
    BY <1>1, <2>2, Wraps
  <2>5. addr = Space - y
    BY <2>3, <2>4
  <2>6. KRead(addr, 1) = 0
    <3>1. \A x \in Nat : x < Space => (Space + x) % Space = x /\ x % Space = x
      BY <1>1
    <3>2. /\ Start + addr = Space + (Start - y) /\ Start - y \in Nat /\ Start - y < Space
          /\ Start + (addr + 1) = Space + (Start - y + 1)
          /\ Start - y + 1 \in Nat /\ Start - y + 1 < Space
          /\ addr \in Nat /\ addr < Space
      BY <1>1, <2>2, <2>5
    <3>3. addr % Space = addr /\ Disk!Address(addr) = Start - y
          /\ Disk!Address(addr + 1) = Start - y + 1
      BY <3>1, <3>2 DEF Disk!Address
    <3>4. Disk!initrd_lseek(Disk!BssCursor, addr) = [rc |-> 0, cursor |-> addr]
      BY <1>1, <2>2, <2>5, <3>3 DEF Disk!initrd_lseek
    <3>5. Disk!initrd_read(addr, 1).rc = 1
      BY <1>1, <2>2, <2>5, <3>3 DEF Disk!initrd_read
    <3> QED BY <3>4, <3>5 DEF KRead
  <2> QED BY <1>3, <2>6 DEF addr
<1>5. CASE a \in BlockAddrs
  <2> DEFINE x == a * BlockSize + c
  <2>1. /\ x \in Nat /\ x < ImageCells
        /\ x + 1 = ImageCells => a = DataStart + NumData - 1 /\ c = BlockSize - 1
    BY <1>2, <1>5, BlockInImage
  <2> HIDE DEF x
  <2>2. CellAddr(i, k) = x
    <3>1. x < Space
      BY <1>1, <2>1
    <3>2. x % Space = x
      BY <1>1, <2>1, <3>1
    <3> QED BY <1>3, <3>2 DEF x
  <2>3. ~(x + 1 < ImageCells)
    BY <1>3, <2>1, <2>2, ReadInImage
  <2>4. x + 1 = ImageCells
    BY <1>1, <2>1, <2>3
  <2> QED BY <2>1, <2>4 DEF a, c
<1> QED BY <1>2, <1>4, <1>5

\* An inode in core with a cell that cannot be read has the module's last.
LEMMA Unreadable ==
  ASSUME ImageInCore, NEW i \in inode_bp, NEW k \in Nat, k < inodes[i].size, ~Readable(i, k)
  PROVE  LastCellUsed
<1> DEFINE o == Offset(k)
<1>1. o \in 0 .. Capacity - 1 /\ o <= k
  BY Sizes DEF Offset
<1>2. o \div BlockSize \in Slots /\ o % BlockSize \in Cells
  BY <1>1, OffsetSplit
<1>3. inodes[i] \in Inode
  BY DEF ImageInCore
<1>4. PtrTo(i, k) = inodes[i].direct[o \div BlockSize]
  BY DEF PtrTo, Ptr
<1> HIDE DEF o
<1>5. PtrTo(i, k) \in BlockAddrs \cup {NoBlock}
  BY <1>2, <1>3, <1>4 DEF Inode
<1>6. PtrTo(i, k) = DataStart + NumData - 1 /\ o % BlockSize = BlockSize - 1
  BY <1>2, <1>5, OnlyLastCell DEF o
<1>7. DataStart + NumData - 1 # NoBlock
  BY SizesAssumption DEF NoBlock
<1>8. i \in disk_inode_bp /\ inodes[i] = disk_inodes[i]
  <2>1. inodes[i].direct # NoBlocks
    BY <1>2, <1>4, <1>6, <1>7 DEF NoBlocks
  <2> QED BY <2>1 DEF ImageInCore
<1>9. o < inodes[i].size
  <2>1. inodes[i].size \in Int
    BY <1>3 DEF Inode
  <2> QED BY <1>1, <2>1, Sizes
<1>10. o \in OnDisk(disk_inodes, i)
  BY <1>1, <1>4, <1>6, <1>7, <1>8, <1>9 DEF OnDisk
<1> QED BY <1>4, <1>6, <1>8, <1>10 DEF LastCellUsed

-----------------------------------------------------------------------------
(* Printing.                                                               *)

LEMMA GrantedIs ==
  ASSUME ImageInCore, NEW i
  PROVE  /\ Granted(i) \in Int
         /\ Granted(i) > 0 => i \in inode_bp /\ Granted(i) = inodes[i].size
<1>1. CASE i \in Inodes \cap inode_bp
  BY <1>1 DEF Granted, ImageInCore, Inode
<1> QED BY <1>1 DEF Granted

\* Printing a directory stops before its end at the first entry it cannot read
\* or that is unused.
LEMMA PrintsUpTo ==
  ASSUME ImageInCore, NEW i, NEW odd
  PROVE  LET n == EntriesPrinted(i, odd) IN
         /\ n \in Int /\ n <= Granted(i)
         /\ n < Granted(i) => n \in Nat /\ n \in EntriesStop(i, odd)
         /\ \A k \in 0 .. n - 1 : Readable(i, k) /\ Seen(i, k, odd).inum # -1
<1> DEFINE S == EntriesStop(i, odd)
           n == EntriesPrinted(i, odd)
           g == Granted(i)
<1> SUFFICES /\ n \in Int /\ n <= g
             /\ n < g => n \in Nat /\ n \in S
             /\ \A k \in 0 .. n - 1 : Readable(i, k) /\ Seen(i, k, odd).inum # -1
  OBVIOUS
<1>1. g \in Int /\ S \in SUBSET Nat /\ \A k \in S : k < g
  BY GrantedIs DEF EntriesStop
<1>2. CASE S = {}
  <2>1. n = g
    BY <1>2 DEF EntriesPrinted
  <2>2. \A k \in 0 .. g - 1 : Readable(i, k) /\ Seen(i, k, odd).inum # -1
    BY <1>2 DEF EntriesStop
  <2> HIDE DEF n, g
  <2>3. n \in Int /\ n <= g /\ ~(n < g)
    BY <1>1, <2>1
  <2>4. \A k \in 0 .. n - 1 : Readable(i, k) /\ Seen(i, k, odd).inum # -1
    BY <2>1, <2>2
  <2> QED BY <2>3, <2>4
<1>3. CASE S # {}
  <2>1. n = Min(S)
    BY <1>3 DEF EntriesPrinted
  <2>2. n \in S /\ \A y \in S : n <= y
    BY <1>1, <1>3, <2>1, MinNat
  <2>3. n \in Nat /\ n < g
    BY <1>1, <2>2
  <2>4. ASSUME NEW k \in 0 .. n - 1 PROVE Readable(i, k) /\ Seen(i, k, odd).inum # -1
    <3>1. k \in 0 .. g - 1 /\ ~(n <= k)
      BY <1>1, <2>3
    <3>2. k \notin S
      BY <2>2, <3>1
    <3> QED BY <3>1, <3>2 DEF EntriesStop
  <2> QED BY <1>1, <2>2, <2>3, <2>4
<1> QED BY <1>2, <1>3

\* The one action of the kernel that reads what it prints.
LEMMA PrintPanics ==
  ASSUME ImageInCore, PrintDirectory, pc' = "panic"
  PROVE  LastCellUsed
<1>1. PICK odd \in Misreads :
        LET i    == Head(todo).inum
            n    == EntriesPrinted(i, odd)
            ents == [k \in 1 .. n |-> Seen(i, k - 1, odd)]
            files == {x.inum : x \in PlainFiles(ents)}
        IN \/ n < Granted(i) /\ ~Readable(i, n)
           \/ \E f \in files : \E k \in 0 .. CellsPrinted(f) - 1 : ~Readable(f, k)
  BY DEF PrintDirectory
<1>2. \E i : \E k \in Nat : k < Granted(i) /\ ~Readable(i, k)
  <2> DEFINE i == Head(todo).inum
             n == EntriesPrinted(i, odd)
  <2>1. CASE n < Granted(i) /\ ~Readable(i, n)
    BY <2>1, PrintsUpTo
  <2>2. CASE \E f : \E k \in 0 .. CellsPrinted(f) - 1 : ~Readable(f, k)
    <3>1. PICK f : \E k \in 0 .. CellsPrinted(f) - 1 : ~Readable(f, k)
      BY <2>2
    <3>2. PICK k \in 0 .. CellsPrinted(f) - 1 : ~Readable(f, k)
      BY <3>1
    <3>3. Granted(f) \in Int
      BY GrantedIs
    <3>4. k \in Nat /\ k < Granted(f)
      BY <3>3 DEF CellsPrinted
    <3> QED BY <3>2, <3>4
  <2> QED BY <1>1, <2>1, <2>2
<1>3. PICK i : \E k \in Nat : k < Granted(i) /\ ~Readable(i, k)
  BY <1>2
<1>4. PICK k \in Nat : k < Granted(i) /\ ~Readable(i, k)
  BY <1>3
<1>5. i \in inode_bp /\ k < inodes[i].size
  BY <1>4, GrantedIs
<1> QED BY <1>4, <1>5, Unreadable

-----------------------------------------------------------------------------
(* The steps of the kernel.                                                *)

\* A call that fails for lack of room leaves an inode without blocks behind.
LeaksInode ==
  \E e \in Inodes \ inode_bp :
    /\ inode_bp' = inode_bp \cup {e} /\ leaked' = leaked \cup {e}
    /\ inodes' \in [Inodes -> Inode] /\ inodes'[e].direct = NoBlocks
    /\ \A i \in Inodes \ {e} : inodes'[i] = inodes[i]

LEMMA KernelCreatFails ==
  ASSUME ImageInCore, NEW p, NEW t \in {UFS_DIRECTORY, UFS_REGULAR_FILE}, NEW n, NEW odd,
         KCreatFails(p, t, n, odd)
  PROVE  LeaksInode
<1> DEFINE e == FirstFree(inode_bp, 0, NumInodes)
           sized == t = UFS_REGULAR_FILE /\ inodes[p].size # Capacity
           z == IF sized THEN 0 ELSE inodes[e].size
<1>1. KCreatRefusal(p, n, odd) = 0
  BY DEF KCreatFails
<1>2. e # -1
  BY <1>1 DEF KCreatRefusal, Dies, Exits, AssertFails
<1>3. e \in Inodes \ inode_bp
  BY <1>2, FreeInode
<1>4. inodes' = [inodes EXCEPT ![e].type = t, ![e].direct = NoBlocks,
                               ![e].size = IF sized THEN 0 ELSE @]
  BY DEF KCreatFails
<1>5. inode_bp' = inode_bp \cup {e} /\ leaked' = leaked \cup {e}
  BY DEF KCreatFails, set_bitmap
<1> HIDE DEF e, sized
<1>6. inodes[e] \in Inode /\ inodes \in [Inodes -> Inode]
  BY <1>3 DEF ImageInCore
<1>7. inodes' = [inodes EXCEPT ![e] =
                   [inodes[e] EXCEPT !.type = t, !.direct = NoBlocks, !.size = z]]
  BY <1>3, <1>4, <1>6
<1>8. /\ [inodes[e] EXCEPT !.type = t, !.direct = NoBlocks, !.size = z] \in Inode
      /\ [inodes[e] EXCEPT !.type = t, !.direct = NoBlocks, !.size = z].direct = NoBlocks
  <2>1. z \in Int /\ NoBlocks \in [Slots -> BlockAddrs \cup {NoBlock}]
    BY <1>6, Addresses DEF Inode
  <2> HIDE DEF z, NoBlocks
  <2> QED BY <1>6, <2>1 DEF Inode
<1> HIDE DEF z
<1>9. /\ inodes' \in [Inodes -> Inode] /\ inodes'[e].direct = NoBlocks
      /\ \A i \in Inodes \ {e} : inodes'[i] = inodes[i]
  BY <1>3, <1>6, <1>7, <1>8
<1> QED BY <1>3, <1>5, <1>9 DEF LeaksInode

\* No call in the kernel changes the image, or what was printed.
LEMMA KernelCallDoes ==
  ASSUME ImageInCore, KernelCall
  PROVE  /\ pc = "halted" /\ pc' \in {"halted", "panic", "wild"}
         /\ UNCHANGED <<image, kernel>>
         /\ UNCHANGED <<inode_bp, inodes, leaked>> \/ LeaksInode
<1>1. pc = "halted"
  BY DEF KernelCall, MayCall
<1>2. CASE KPanic
  BY <1>1, <1>2 DEF KPanic, core, hist
<1>3. ASSUME NEW op, NEW r, KReturn(op, r), UNCHANGED <<core, image, hist, kernel>>
      PROVE  /\ pc' \in {"halted", "panic", "wild"} /\ UNCHANGED <<image, kernel>>
             /\ UNCHANGED <<inode_bp, inodes, leaked>>
  BY <1>3 DEF KReturn, core, hist
<1>4. CASE KLookup \/ KReadCall
  BY <1>2, <1>4 DEF KLookup, KReadCall
<1>5. CASE KCreat
  <2>1. ASSUME NEW p \in Inums, NEW t \in {UFS_DIRECTORY, UFS_REGULAR_FILE},
               NEW n \in Names, NEW odd \in Misreads, KCreatFails(p, t, n, odd)
        PROVE  /\ pc' \in {"halted", "panic", "wild"} /\ UNCHANGED <<image, kernel>>
               /\ LeaksInode
    BY <2>1, KernelCreatFails DEF KCreatFails, KReturn
  <2> QED BY <1>1, <1>2, <1>3, <1>5, <2>1 DEF KCreat
<1>6. CASE KWrite
  <2>1. ASSUME NEW i, NEW n, KWriteFails(i, n)
        PROVE  /\ pc' \in {"halted", "panic", "wild"} /\ UNCHANGED <<image, kernel>>
               /\ UNCHANGED <<inode_bp, inodes, leaked>>
    BY <2>1 DEF KWriteFails, KReturn, hist
  <2> QED BY <1>1, <1>2, <1>3, <1>6, <2>1 DEF KWrite
<1>7. CASE KUnlink
  <2>1. PICK p \in Inums, n \in Names \cup {Dot}, odd \in Misreads :
          \/ KReturn("unlink", -1) /\ UNCHANGED <<core, image, hist, kernel>>
          \/ KPanic
          \/ pc' = "wild" /\ UNCHANGED <<core, image, frame, last, hist, kernel>>
    BY <1>7 DEF KUnlink
  <2>2. CASE pc' = "wild" /\ UNCHANGED <<core, image, frame, last, hist, kernel>>
    BY <1>1, <2>2 DEF core, hist
  <2> QED BY <1>1, <1>2, <1>3, <2>1, <2>2
<1> QED BY <1>4, <1>5, <1>6, <1>7 DEF KernelCall

LEMMA ImageStays ==
  ASSUME ImageInCore, UNCHANGED image,
         UNCHANGED <<inode_bp, inodes>> \/ LeaksInode
  PROVE  ImageInCore' /\ (LastCellUsed <=> LastCellUsed')
<1>1. UNCHANGED <<disk_inode_bp, disk_inodes, blocks>>
  BY DEF image
<1>2. LastCellUsed <=> LastCellUsed'
  BY <1>1 DEF LastCellUsed, OnDisk
<1>3. CASE UNCHANGED <<inode_bp, inodes>>
  BY <1>1, <1>2, <1>3 DEF ImageInCore
<1>4. CASE LeaksInode
  <2>1. PICK e \in Inodes \ inode_bp :
          /\ inode_bp' = inode_bp \cup {e} /\ inodes' \in [Inodes -> Inode]
          /\ inodes'[e].direct = NoBlocks
          /\ \A i \in Inodes \ {e} : inodes'[i] = inodes[i]
    BY <1>4 DEF LeaksInode
  <2>2. e \notin disk_inode_bp /\ disk_inode_bp \subseteq inode_bp'
    BY <2>1 DEF ImageInCore
  <2> QED BY <1>1, <1>2, <2>1, <2>2 DEF ImageInCore
<1> QED BY <1>3, <1>4

\* The mount reads what it needs: no kernel that boots panics before it prints.
LEMMA BootReads == Boot => pc' = "printing"
<1>1. /\ Space \in Nat /\ Start \in Nat /\ ImageCells \in Nat
      /\ Start + ImageCells < Space /\ 0 + 1 < ImageCells
      /\ DataStart * BlockSize \in Nat /\ 0 + DataStart * BlockSize < ImageCells
  <2>1. DataStart \in BlockAddrs /\ 0 \in Cells /\ 1 \in Cells
    BY Addresses, RootInOrder, Sizes DEF Cells
  <2>2. /\ ImageCells \in Nat /\ DataStart * BlockSize + 0 \in Nat
        /\ DataStart * BlockSize + 0 < ImageCells /\ DataStart * BlockSize + 1 < ImageCells
    BY <2>1, BlockInImage
  <2>3. DataStart * BlockSize \in Nat
    BY SizesAssumption
  <2> HIDE DEF ImageCells
  <2> QED BY <2>2, <2>3, KernelAssumption
<1> DEFINE n == DataStart * BlockSize
<1>2. KRead(0, n) = 0
  <2> HIDE DEF n, ImageCells
  <2> QED BY <1>1, ReadInImage DEF n
<1>3. Disk!initrd_read(Disk!BssCursor, 1).rc = 1
  <2> HIDE DEF ImageCells
  <2>1. (Start + (0 + 1)) % Space = Start + 1 /\ Start + 1 < Start + ImageCells
    BY <1>1
  <2> QED BY <1>1, <2>1 DEF Disk!initrd_read, Disk!BssCursor, Disk!Address
<1>4. MountReads
  BY <1>2, <1>3 DEF MountReads
<1> QED BY <1>4 DEF Boot

LEMMA KernelInit == KInit => KernelInv
BY InitType DEF KInit, KernelInv, Booted

LEMMA KernelStep ==
  ASSUME KernelInv, [KNext]_kvars
  PROVE  KernelInv'
<1>1. CASE UNCHANGED kvars
  <2>1. UNCHANGED vars /\ UNCHANGED <<machine, todo, strayed>>
    BY <1>1 DEF kvars, kernel
  <2>2. TypeOK => TypeOK'
    BY <2>1, TypeStep
  <2>3. ImageInCore => ImageInCore' /\ (LastCellUsed <=> LastCellUsed')
    BY <2>1, ImageStays DEF vars, image
  <2> QED BY <2>1, <2>2, <2>3 DEF KernelInv, Booted, PrintingPanics, vars
<1>2. CASE HostGrows \/ HostUnlinks \/ HostHandles \/ HostRestart
  <2>1. machine = "host" /\ machine' = "host" /\ Next
    BY <1>2 DEF HostGrows, HostUnlinks, HostHandles, HostRestart, kernel, Next, Call
  <2> QED BY <2>1, TypeStep DEF KernelInv, Booted
<1>3. CASE Boot
  <2>1. /\ TypeOK /\ machine' = "kernel" /\ pc' = "printing"
        /\ inode_bp' = disk_inode_bp /\ inodes' = disk_inodes
        /\ UNCHANGED <<disk_inode_bp, disk_inodes, blocks>>
    BY <1>3, BootReads DEF Boot, KernelInv, image
  <2>2. ImageInCore'
    BY <2>1 DEF ImageInCore, TypeOK
  <2> QED BY <2>1, <2>2 DEF KernelInv, Booted, PrintingPanics, KernelPc
<1>4. CASE PrintDirectory
  <2>1. Booted /\ ImageInCore /\ inode_bp = disk_inode_bp
    BY <1>4 DEF PrintDirectory, KernelInv, TypeOK, Dead, Booted
  <2>2. /\ UNCHANGED <<image, inode_bp, inodes, disk_inode_bp, machine>>
        /\ pc = "printing" /\ pc' \in {"printing", "overflow", "panic"}
    BY <1>4 DEF PrintDirectory, core, image
  <2>3. ImageInCore' /\ (LastCellUsed <=> LastCellUsed')
    BY <2>1, <2>2, ImageStays
  <2>4. PrintingPanics'
    BY <1>4, <2>1, <2>3, PrintPanics DEF PrintingPanics
  <2> QED BY <2>1, <2>2, <2>3, <2>4 DEF KernelInv, Booted, KernelPc
<1>5. CASE PrintDone
  <2>1. Booted /\ ImageInCore
    BY <1>5 DEF PrintDone, KernelInv, TypeOK, Dead, Booted
  <2>2. /\ UNCHANGED <<image, inode_bp, inodes, machine>>
        /\ todo' = <<>> /\ pc' = "halted"
    BY <1>5 DEF PrintDone, core, kernel
  <2>3. ImageInCore'
    BY <2>1, <2>2, ImageStays
  <2> QED BY <2>1, <2>2, <2>3 DEF KernelInv, Booted, KernelPc, PrintingPanics
<1>6. CASE KernelCall
  <2>1. Booted /\ ImageInCore /\ todo = <<>>
    BY <1>6 DEF KernelCall, MayCall, KernelInv, TypeOK, Dead, Booted
  <2>2. /\ pc' \in {"halted", "panic", "wild"} /\ UNCHANGED <<image, machine, todo>>
        /\ UNCHANGED <<inode_bp, inodes>> \/ LeaksInode
    BY <1>6, <2>1, KernelCallDoes DEF kernel
  <2>3. ImageInCore'
    BY <2>1, <2>2, ImageStays
  <2> QED BY <2>1, <2>2, <2>3 DEF KernelInv, Booted, KernelPc, PrintingPanics
<1> QED BY <1>1, <1>2, <1>3, <1>4, <1>5, <1>6 DEF KNext, Printing

LEMMA AlwaysKernel == KSpec => []KernelInv
<1>1. KernelInv /\ [KNext]_kvars => KernelInv'
  BY KernelStep
<1> QED BY <1>1, KernelInit, PTL DEF KSpec

\* While it prints, the kernel panics only if an inode of the image has the
\* module's last cell, which the driver refuses to read: neither the mount nor
\* any other read can fail, and what an unset pointer leads to is memory.
THEOREM OnlyLastCellPanics == KSpec => []PrintingPanics
<1>1. KernelInv => PrintingPanics
  BY DEF KernelInv, PrintingPanics
<1> QED BY <1>1, AlwaysKernel, PTL

-----------------------------------------------------------------------------
(* The image, when clients do not unlink and the tool does not end inside a *)
(* call.                                                                    *)

GoodImage ==
  /\ 0 \in disk_inode_bp /\ 0 \notin leaked /\ disk_inodes[0].type = UFS_DIRECTORY
  /\ \A i \in disk_inode_bp : InodeOK(i, disk_inodes[i], blocks, leaked)
  /\ Tree(disk_inode_bp, disk_inodes, blocks, disk_inode_bp \ (leaked \cup {0}))

ImageInv ==
  /\ KernelInv /\ ~torn
  /\ machine = "host" => LinksInv
  /\ Booted => GoodImage

LEMMA NotTorn ==
  ASSUME CrashPoints # "any", ~torn, Next
  PROVE  ~torn'
<1>1. CASE Call
  <2>1. CASE Lookup \/ CreatRefused \/ WriteRefused \/ Read
    BY <2>1 DEF Lookup, CreatRefused, WriteRefused, Read, Ask, Answer, vars, hist
  <2>2. CASE \E p \in Inums, n \in Names \cup {Dot} : UnlinkRefused(p, n) \/ Unlink(p, n)
    BY <2>2, ZenonT(40) DEF UnlinkRefused, Unlink, Answer, hist
  <2> QED BY <1>1, <2>1, <2>2, ZenonT(40)
          DEF Call, Grow, Unlinks, CreatFails, CreatAllocates, WriteBegin, hist
<1>2. CASE Handler
  BY <1>2 DEF Handler, LinkFails, LinkInNewBlock, LinkInFreeEntry, WriteBlock,
              WriteFails, WriteEnd, CommitInodeBit, CommitInode, CommitData,
              CommitDone, hist
<1>3. CASE Restart
  BY <1>3, ClientAssumption DEF Restart, MayDie
<1> QED BY <1>1, <1>2, <1>3 DEF Next

\* The inodes that calls in the kernel leak are not those of the image.
LEMMA GoodImageStays ==
  ASSUME GoodImage, disk_inode_bp \subseteq inode_bp, UNCHANGED image,
         leaked' = leaked \/ LeaksInode
  PROVE  GoodImage'
<1>1. UNCHANGED <<disk_inode_bp, disk_inodes, blocks>>
  BY DEF image
<1>2. leaked \subseteq leaked' /\ leaked' \cap disk_inode_bp = leaked \cap disk_inode_bp
  BY DEF LeaksInode
<1>3. /\ disk_inode_bp' \ (leaked' \cup {0}) = disk_inode_bp \ (leaked \cup {0})
      /\ 0 \notin leaked'
  BY <1>1, <1>2 DEF GoodImage
<1>4. \A i \in disk_inode_bp' : InodeOK(i, disk_inodes'[i], blocks', leaked')
  BY <1>1, <1>2 DEF GoodImage, InodeOK
<1> QED BY <1>1, <1>3, <1>4 DEF GoodImage

LEMMA ImageInit == KInit => ImageInv
BY KernelInit, InitLinks DEF KInit, ImageInv, Booted, Init

LEMMA ImageStep ==
  ASSUME "unlink" \notin Ops, CrashPoints # "any", ImageInv, [KNext]_kvars
  PROVE  ImageInv'
<1>0. KernelInv' /\ KernelInv
  BY KernelStep DEF ImageInv
<1>1. CASE UNCHANGED kvars
  <2>1. UNCHANGED vars /\ UNCHANGED machine
    BY <1>1 DEF kvars, kernel
  <2>2. LinksInv => LinksInv'
    BY <2>1, LinksStep
  <2>3. Booted => GoodImage'
    BY <1>0, <2>1, GoodImageStays DEF vars, image, KernelInv, ImageInCore, ImageInv
  <2> QED BY <1>0, <2>1, <2>2, <2>3 DEF ImageInv, Booted, vars
<1>2. CASE HostGrows \/ HostUnlinks \/ HostHandles \/ HostRestart
  <2>1. machine = "host" /\ machine' = "host" /\ Next
    BY <1>2 DEF HostGrows, HostUnlinks, HostHandles, HostRestart, kernel, Next, Call
  <2> QED BY <1>0, <2>1, LinksStep, NotTorn DEF ImageInv, Booted
<1>3. CASE Boot
  <2>1. /\ LinksInv /\ ~torn /\ machine' = "kernel" /\ pc \in Dead \cup {"idle"}
        /\ leaked' = leaked \cap disk_inode_bp /\ torn' = torn
        /\ UNCHANGED <<disk_inode_bp, disk_inodes, blocks>>
    BY <1>3 DEF Boot, ImageInv, image
  <2>2. /\ RootOK /\ 0 \in disk_inode_bp /\ ImageOK
        /\ Tree(disk_inode_bp, disk_inodes, blocks, disk_inode_bp \ (leaked \cup {0}))
    BY <2>1, LinksStart DEF Committing, Dead
  <2>3. disk_inode_bp' \ (leaked' \cup {0}) = disk_inode_bp \ (leaked \cup {0})
    BY <2>1
  <2>4. \A i \in disk_inode_bp' : InodeOK(i, disk_inodes'[i], blocks', leaked')
    BY <2>1, <2>2 DEF ImageOK, InodeOK
  <2>5. GoodImage'
    BY <2>1, <2>2, <2>3, <2>4 DEF GoodImage, RootOK
  <2> QED BY <1>0, <2>1, <2>5 DEF ImageInv, Booted
<1>4. CASE Printing
  <2>1. /\ UNCHANGED <<image, leaked, torn, machine>> /\ machine = "kernel"
    BY <1>0, <1>4 DEF Printing, PrintDirectory, PrintDone, hist, kernel, KernelInv, TypeOK, Dead
  <2> QED BY <1>0, <2>1, GoodImageStays DEF ImageInv, Booted, KernelInv, ImageInCore
<1>5. CASE KernelCall
  <2>1. machine = "kernel" /\ ImageInCore
    BY <1>0, <1>5 DEF KernelCall, MayCall, KernelInv, TypeOK, Dead, Booted
  <2>2. UNCHANGED <<image, machine>> /\ (leaked' = leaked \/ LeaksInode)
    BY <1>5, <2>1, KernelCallDoes DEF kernel
  <2>3. torn' = torn
    BY <1>5 DEF KernelCall, KLookup, KReadCall, KCreat, KCreatFails, KWrite, KWriteFails,
                KUnlink, KPanic, hist
  <2> QED BY <1>0, <2>1, <2>2, <2>3, GoodImageStays DEF ImageInv, Booted, ImageInCore
<1> QED BY <1>1, <1>2, <1>3, <1>4, <1>5 DEF KNext

LEMMA AlwaysImage ==
  ASSUME "unlink" \notin Ops, CrashPoints # "any"
  PROVE  KSpec => []ImageInv
<1>1. ImageInv /\ [KNext]_kvars => ImageInv'
  BY ImageStep
<1> QED BY <1>1, ImageInit, PTL DEF KSpec

-----------------------------------------------------------------------------
(* Reading directories.                                                    *)

\* An offset below the end of a packed inode is not clamped.
LEMMA PackedIsIn ==
  ASSUME NEW i, Packed(inodes[i]), NEW k \in Nat, k < inodes[i].size
  PROVE  /\ Offset(k) = k /\ PtrTo(i, k) = Ptr(i, k) /\ CellOf(i, k) = CellAt(i, k)
         /\ Ptr(i, k) # NoBlock
<1>1. k \in 0 .. Capacity - 1 /\ Ptr(i, k) # NoBlock
  BY PackedCell
<1>2. Offset(k) = k
  BY <1>1, Sizes DEF Offset
<1> QED BY <1>1, <1>2 DEF PtrTo, CellOf

\* The entries of a directory in order are seen as they are.
LEMMA EntrySeen ==
  ASSUME NEW p, DirOK(inodes[p], blocks), NEW k \in Nat, k < inodes[p].size, NEW odd
  PROVE  /\ IsEntry(p, k) /\ Seen(p, k, odd) = CellAt(p, k)
         /\ Ptr(p, k) # NoBlock /\ EntryOK(CellAt(p, k)) /\ CellAt(p, k).inum # -1
<1>1. Packed(inodes[p])
  BY DEF DirOK
<1>2. /\ k \div BlockSize \in Slots /\ k % BlockSize \in Cells
      /\ Below(inodes[p], k \div BlockSize, k % BlockSize)
      /\ PtrTo(p, k) = Ptr(p, k) /\ CellOf(p, k) = CellAt(p, k) /\ Ptr(p, k) # NoBlock
  BY <1>1, PackedCell, PackedIsIn
<1>3. EntryOK(CellAt(p, k))
  BY <1>2 DEF DirOK, CellAt, Ptr
<1>4. FileBytes \notin Names \cup {Dot, DotDot}
  BY ClientAssumption DEF FileBytes, Dot, DotDot
<1>5. -1 \notin Inodes
  BY DEF Inodes
<1> QED BY <1>2, <1>3, <1>4, <1>5 DEF IsEntry, Seen, EntryOK

\* Every directory in core is in order or has no block.
LEMMA DirectoryInCore ==
  ASSUME ImageInCore, GoodImage, NEW p \in inode_bp, inodes[p].type = UFS_DIRECTORY
  PROVE  DirOK(inodes[p], blocks) \/ inodes[p].direct = NoBlocks
BY DEF ImageInCore, GoodImage, InodeOK

\* In a directory in order both programs find the same entry, unless the kernel
\* has to read the module's last cell.
LEMMA SameLookup ==
  ASSUME ImageInCore, NEW p \in Inodes \cap inode_bp, inodes[p].type = UFS_DIRECTORY,
         DirOK(inodes[p], blocks), NEW n, NEW odd
  PROVE  \/ kufs_lookup(p, n, odd) = ufs_lookup(p, n)
         \/ kufs_lookup(p, n, odd) = Exits /\ LastCellUsed
<1> DEFINE K == {k \in 0 .. EntriesRead(p) - 1 :
                  ~Readable(p, k) \/ Seen(p, k, odd).inum = -1 \/ Seen(p, k, odd).name = n}
           H == LookupStops(p, n)
<1>1. inodes[p].size \in 0 .. Capacity
  BY DEF DirOK, Packed
<1>2. EntriesRead(p) = inodes[p].size
  BY <1>1 DEF EntriesRead
<1>3. \A k \in 0 .. EntriesRead(p) - 1 :
        /\ k \in Nat /\ k < inodes[p].size
        /\ Seen(p, k, odd) = CellAt(p, k)
        /\ Ptr(p, k) # NoBlock /\ CellAt(p, k).inum # -1
  <2>1. \A k \in 0 .. EntriesRead(p) - 1 : k \in Nat /\ k < inodes[p].size
    BY <1>1, <1>2, Sizes
  <2> QED BY <2>1, EntrySeen
<1>4. H \subseteq K /\ K \in SUBSET Nat /\ \A k \in K : Readable(p, k) => k \in H
  BY <1>3 DEF LookupStops
<1>5. kufs_lookup(p, n, odd) =
        IF K = {} THEN -1
        ELSE IF ~Readable(p, Min(K)) THEN Exits
        ELSE IF Seen(p, Min(K), odd).inum = -1 THEN AssertFails
        ELSE Seen(p, Min(K), odd).inum
  BY DEF kufs_lookup
<1>6. ufs_lookup(p, n) =
        IF H = {} THEN -1
        ELSE IF Ptr(p, Min(H)) = NoBlock THEN Exits
        ELSE IF CellAt(p, Min(H)).inum = -1 THEN AssertFails
        ELSE CellAt(p, Min(H)).inum
  BY DEF ufs_lookup
<1>7. \A k \in K : /\ k \in Nat /\ k < inodes[p].size /\ Seen(p, k, odd) = CellAt(p, k)
                   /\ Ptr(p, k) # NoBlock /\ CellAt(p, k).inum # -1
  BY <1>3
<1> HIDE DEF K, H
<1>8. CASE K = {}
  BY <1>4, <1>5, <1>6, <1>8
<1>9. CASE K # {}
  <2> DEFINE m == Min(K)
  <2>1. m \in K /\ \A y \in K : m <= y
    BY <1>4, <1>9, MinNat
  <2>2. CASE ~Readable(p, m)
    <3>1. LastCellUsed
      BY <1>7, <2>1, <2>2, Unreadable
    <3> QED BY <1>5, <1>9, <2>2, <3>1
  <2>3. CASE Readable(p, m)
    <3>1. m \in H
      BY <1>4, <2>1, <2>3
    <3>2. Min(H) \in H /\ \A y \in H : Min(H) <= y
      BY <1>4, <3>1, MinNat
    <3>3. Min(H) = m
      <4>1. Min(H) \in Nat /\ m \in Nat /\ m <= Min(H) /\ Min(H) <= m
        BY <1>4, <2>1, <3>1, <3>2
      <4> QED BY <4>1
    <3> QED BY <1>5, <1>6, <1>7, <1>9, <2>1, <2>3, <3>1, <3>3
  <2> QED BY <2>2, <2>3
<1> QED BY <1>8, <1>9

\* In a directory without a block the tool would exit, unless it is empty.
LEMMA LookupWithoutBlocks ==
  ASSUME ImageInCore, NEW p \in Inodes \cap inode_bp, inodes[p].type = UFS_DIRECTORY,
         inodes[p].direct = NoBlocks, NEW n, NEW odd
  PROVE  ufs_lookup(p, n) = Exits \/ kufs_lookup(p, n, odd) = ufs_lookup(p, n)
<1>1. EntriesRead(p) \in Nat
  BY Sizes DEF EntriesRead
<1>2. CASE EntriesRead(p) = 0
  <2>1. \A k \in 0 .. EntriesRead(p) - 1 : FALSE
    BY <1>2
  <2>2. LookupStops(p, n) = {} /\ ufs_lookup(p, n) = -1
    BY <2>1 DEF LookupStops, ufs_lookup
  <2>3. kufs_lookup(p, n, odd) = -1
    BY <2>1 DEF kufs_lookup
  <2> QED BY <2>2, <2>3
<1>3. CASE EntriesRead(p) # 0
  <2>1. Ptr(p, 0) = NoBlock
    <3>1. 0 \div BlockSize = 0
      BY Sizes
    <3> QED BY <3>1, Addresses DEF Ptr, NoBlocks
  <2>2. 0 \in LookupStops(p, n) /\ LookupStops(p, n) \in SUBSET Nat
    BY <1>1, <1>3, <2>1 DEF LookupStops
  <2> DEFINE H == LookupStops(p, n)
  <2>3. Min(H) \in Nat /\ Min(H) <= 0
    <3> HIDE DEF H
    <3> QED BY <2>2, MinNat DEF H
  <2>4. Min(LookupStops(p, n)) = 0
    BY <2>3
  <2>5. ufs_lookup(p, n) = Exits
    BY <2>1, <2>2, <2>4 DEF ufs_lookup
  <2> QED BY <2>5
<1> QED BY <1>2, <1>3

\* Unless clients unlink or the tool ends inside a call, the kernel's copy of
\* ufs_lookup finds what the tool's does, also after calls in the kernel that
\* fail: they differ only where the tool would exit and where the kernel has to
\* read the module's last cell.
THEOREM LookupsAgree ==
  ASSUME "unlink" \notin Ops, CrashPoints # "any"
  PROVE  KSpec => []KernelAgrees
<1>1. ASSUME ImageInv, Booted, NEW p, NEW n, NEW odd
      PROVE  LET k == kufs_lookup(p, n, odd)
                 h == ufs_lookup(p, n)
             IN k = h \/ h = Exits \/ (k = Exits /\ LastCellUsed)
  <2>1. ImageInCore /\ GoodImage
    BY <1>1 DEF ImageInv, KernelInv
  <2>2. CASE p \in Inodes \cap inode_bp /\ inodes[p].type = UFS_DIRECTORY
    BY <2>1, <2>2, DirectoryInCore, SameLookup, LookupWithoutBlocks
  <2>3. CASE ~(p \in Inodes \cap inode_bp /\ inodes[p].type = UFS_DIRECTORY)
    BY <2>3 DEF kufs_lookup, ufs_lookup
  <2> QED BY <2>2, <2>3
<1>2. ImageInv => KernelAgrees
  BY <1>1 DEF KernelAgrees
<1> QED BY <1>2, AlwaysImage, PTL

-----------------------------------------------------------------------------
(* The links of the image.                                                 *)

\* A link is the entry of a cell in use.
LEMMA LinkInCell ==
  ASSUME NEW tab, NEW p, NEW l
  PROVE  l \in LinksIn(tab, p) <=>
           \E s \in Slots, c \in Cells :
             /\ Used(tab[p], blocks, s, c) /\ At(tab[p], blocks, s, c).name \in Names
             /\ l = <<p, At(tab[p], blocks, s, c).name, At(tab[p], blocks, s, c).inum>>
<1>1. l \in LinksIn(tab, p) <=>
        \E y \in UNION {{blocks[a][c] : c \in Cells} :
                        a \in {tab[p].direct[s] : s \in Slots} \ {NoBlock}} :
          y.inum # -1 /\ y.name \in Names /\ l = <<p, y.name, y.inum>>
  BY DEF LinksIn
<1>2. \A y : y \in UNION {{blocks[a][c] : c \in Cells} :
                          a \in {tab[p].direct[s] : s \in Slots} \ {NoBlock}} <=>
             \E s \in Slots, c \in Cells :
               tab[p].direct[s] # NoBlock /\ y = blocks[tab[p].direct[s]][c]
  OBVIOUS
<1> QED BY <1>1, <1>2 DEF Used, At

Linked == disk_inode_bp \ (leaked \cup {0})

\* Links of the image lead to inodes of the image that are in order.
LEMMA ImageLink ==
  ASSUME GoodImage, NEW p \in disk_inode_bp, disk_inodes[p].type = UFS_DIRECTORY,
         NEW l \in LinksIn(disk_inodes, p)
  PROVE  l[1] = p /\ l[2] \in Names /\ l[3] \in Linked
<1>1. PICK s \in Slots, c \in Cells :
        /\ Used(disk_inodes[p], blocks, s, c) /\ At(disk_inodes[p], blocks, s, c).name \in Names
        /\ l = <<p, At(disk_inodes[p], blocks, s, c).name, At(disk_inodes[p], blocks, s, c).inum>>
  BY LinkInCell
<1> DEFINE m == <<p, s, c>>
<1>2. m \in UsedPlaces(disk_inode_bp, disk_inodes, blocks)
  BY <1>1, PlaceIs
<1>3. Held(disk_inodes, blocks, m) = At(disk_inodes[p], blocks, s, c)
  BY DEF Held
<1>4. m \in LinkPlaces(disk_inode_bp, disk_inodes, blocks)
  BY <1>1, <1>2, <1>3 DEF LinkPlaces
<1>5. Target(disk_inodes, blocks, m) \in Linked
  BY <1>4 DEF GoodImage, Tree, Linked
<1> QED BY <1>1, <1>3, <1>5 DEF Target

ImageLinks == LinksFrom(disk_inode_bp, disk_inodes)

\* The directories that hold the links are the root and those the links lead to.
LEMMA ImageLinksAre ==
  ASSUME GoodImage, ImageInCore
  PROVE  \E ds \in SUBSET disk_inode_bp :
           /\ ImageLinks = LinksOf(disk_inodes, ds)
           /\ ds = {0} \cup Heads(disk_inode_bp, disk_inodes, ImageLinks)
           /\ \A i \in ds : disk_inodes[i].type = UFS_DIRECTORY
<1>1. disk_inode_bp \in SUBSET Inodes
  BY DEF ImageInCore
<1>2. PICK ds \in SUBSET Inodes :
        /\ ImageLinks = LinksOf(disk_inodes, ds)
        /\ ds = {0} \cup Heads(disk_inode_bp, disk_inodes, ImageLinks)
  BY <1>1, LinksFromIs DEF ImageLinks
<1>3. ds \subseteq disk_inode_bp /\ \A i \in ds : disk_inodes[i].type = UFS_DIRECTORY
  BY <1>2 DEF Heads, GoodImage
<1> QED BY <1>2, <1>3

LEMMA ImageLinkIs ==
  ASSUME GoodImage, ImageInCore, NEW l \in ImageLinks
  PROVE  /\ l[1] \in disk_inode_bp /\ disk_inodes[l[1]].type = UFS_DIRECTORY
         /\ l \in LinksIn(disk_inodes, l[1]) /\ l[2] \in Names /\ l[3] \in Linked
<1>1. PICK ds \in SUBSET disk_inode_bp :
        /\ ImageLinks = LinksOf(disk_inodes, ds)
        /\ \A i \in ds : disk_inodes[i].type = UFS_DIRECTORY
  BY ImageLinksAre
<1>2. PICK p \in ds : l \in LinksIn(disk_inodes, p)
  BY <1>1 DEF LinksOf
<1> QED BY <1>1, <1>2, ImageLink

\* In core there are the same links, through inodes of the image only.
LEMMA SameLinks ==
  ASSUME GoodImage, ImageInCore
  PROVE  LinksFrom(inode_bp, inodes) = ImageLinks
<1> DEFINE N == NumInodes - 1
<1>1. N \in Nat /\ N \in 0 .. N
  BY SizesAssumption
<1>2. PICK q : ReachesAll(q, inode_bp, inodes)
  <2>1. inode_bp \in SUBSET Inodes
    BY DEF ImageInCore
  <2> QED BY <2>1, LinksFromIs
<1>3. PICK r : ReachesAll(r, disk_inode_bp, disk_inodes)
  <2>1. disk_inode_bp \in SUBSET Inodes
    BY DEF ImageInCore
  <2> QED BY <2>1, LinksFromIs
<1>4. \A i \in disk_inode_bp : LinksIn(inodes, i) = LinksIn(disk_inodes, i)
  BY DEF LinksIn, ImageInCore
<1> DEFINE S == {n \in 0 .. N : q[n] = r[n] /\ \A l \in r[n] : l[3] \in disk_inode_bp}
<1>5. \A n \in 0 .. N :
        /\ q[n] = IF n = 0 THEN LinksIn(inodes, 0)
                  ELSE q[n - 1] \cup UNION {LinksIn(inodes, i) : i \in Heads(inode_bp, inodes, q[n - 1])}
        /\ r[n] = IF n = 0 THEN LinksIn(disk_inodes, 0)
                  ELSE r[n - 1] \cup
                       UNION {LinksIn(disk_inodes, i) : i \in Heads(disk_inode_bp, disk_inodes, r[n - 1])}
  BY <1>2, <1>3 DEF ReachesAll, IsReach
<1>6. 0 \in S
  <2>0. 0 \in 0 .. N
    BY <1>1
  <2>1. 0 \in 0 .. N /\ q[0] = LinksIn(inodes, 0) /\ r[0] = LinksIn(disk_inodes, 0)
    BY <1>5, <2>0, Zenon
  <2>2. \A l \in r[0] : l[3] \in disk_inode_bp
    BY <2>1, ImageLink DEF GoodImage, Linked
  <2> QED BY <1>4, <2>1, <2>2 DEF GoodImage
<1>7. ASSUME NEW n \in 0 .. N - 1, n \in S PROVE n + 1 \in S
  <2> DEFINE hs == Heads(disk_inode_bp, disk_inodes, r[n])
  <2> DEFINE m == n + 1
  <2>1. m \in 0 .. N /\ m # 0 /\ m - 1 = n
    BY <1>1
  <2>2. q[n] = r[n] /\ \A l \in r[n] : l[3] \in disk_inode_bp
    BY <1>7
  <2> HIDE DEF m
  <2>3. Heads(inode_bp, inodes, q[n]) = hs
    BY <2>2 DEF Heads, ImageInCore
  <2>4. r[m] = r[n] \cup UNION {LinksIn(disk_inodes, i) : i \in hs}
    <3>1. r[m] = r[m - 1] \cup
            UNION {LinksIn(disk_inodes, i) : i \in Heads(disk_inode_bp, disk_inodes, r[m - 1])}
      BY <1>5, <2>1, Zenon
    <3> QED BY <2>1, <3>1, Zenon
  <2>5. q[m] = r[n] \cup UNION {LinksIn(inodes, i) : i \in hs}
    <3>1. q[m] = q[m - 1] \cup UNION {LinksIn(inodes, i) : i \in Heads(inode_bp, inodes, q[m - 1])}
      BY <1>5, <2>1, Zenon
    <3> HIDE DEF hs
    <3> QED BY <2>1, <2>2, <2>3, <3>1, Zenon
  <2>6. hs \subseteq disk_inode_bp /\ \A i \in hs : disk_inodes[i].type = UFS_DIRECTORY
    BY DEF Heads
  <2> HIDE DEF hs
  <2>7. {LinksIn(disk_inodes, i) : i \in hs} = {LinksIn(inodes, i) : i \in hs}
    BY <1>4, <2>6
  <2>8. q[m] = r[m]
    BY <2>4, <2>5, <2>7
  <2>9. \A l \in r[m] : l[3] \in disk_inode_bp
    BY <2>2, <2>4, <2>6, ImageLink DEF Linked
  <2> QED BY <2>1, <2>8, <2>9 DEF m
<1>8. 0 .. N \subseteq S
  <2> HIDE DEF S, N
  <2> QED BY <1>1, <1>6, <1>7, UpTo
<1> QED BY <1>1, <1>2, <1>3, <1>8 DEF ReachesAll, ImageLinks

\* And the same data.
LEMMA SameTree ==
  ASSUME GoodImage, ImageInCore
  PROVE  TreeOf(inode_bp, inodes) = TreeOf(disk_inode_bp, disk_inodes)
<1> DEFINE files(ibp, tab) == {i \in ibp : /\ tab[i].type = UFS_REGULAR_FILE
                                          /\ \E l \in ImageLinks : l[3] = i}
           fs == files(disk_inode_bp, disk_inodes)
           text(tab, i) == [k \in 1 .. tab[i].size |-> DatumAt(tab, i, k - 1)]
           shown(ibp) == {IF l[3] \in ibp THEN l ELSE <<l[1], l[2], -1>> : l \in ImageLinks}
<1>1. \A l \in ImageLinks : l[3] \in disk_inode_bp /\ l[3] \in inode_bp
  BY ImageLinkIs DEF Linked, ImageInCore
<1>2. files(inode_bp, inodes) = fs
  BY <1>1 DEF ImageInCore
<1>3. shown(inode_bp) = shown(disk_inode_bp)
  BY <1>1
<1>4. ASSUME NEW i \in fs PROVE text(inodes, i) = text(disk_inodes, i)
  <2>1. inodes[i] = disk_inodes[i]
    BY DEF ImageInCore
  <2>2. \A k : DatumAt(inodes, i, k) = DatumAt(disk_inodes, i, k)
    BY <2>1 DEF DatumAt, DiskCell
  <2> QED BY <2>1, <2>2
<1>5. TreeOf(inode_bp, inodes) =
        [links |-> shown(inode_bp), files |-> [i \in files(inode_bp, inodes) |-> text(inodes, i)]]
  BY SameLinks DEF TreeOf
<1>6. TreeOf(disk_inode_bp, disk_inodes) =
        [links |-> shown(disk_inode_bp), files |-> [i \in fs |-> text(disk_inodes, i)]]
  BY DEF TreeOf, ImageLinks
<1>7. [i \in fs |-> text(inodes, i)] = [i \in fs |-> text(disk_inodes, i)]
  <2> HIDE DEF fs, text
  <2> QED BY <1>4
<1> HIDE DEF fs, files, text, shown
<1> QED BY <1>2, <1>3, <1>5, <1>6, <1>7

\* Unless clients unlink or the tool ends inside a call, calls that return in
\* the kernel leave the tree in core as it is on the module.
THEOREM KernelKeepsTree ==
  ASSUME "unlink" \notin Ops, CrashPoints # "any"
  PROVE  KSpec => []KernelSeesImage
<1>1. ImageInv => KernelSeesImage
  BY SameTree DEF ImageInv, KernelInv, KernelSeesImage
<1> QED BY <1>1, AlwaysImage, PTL

-----------------------------------------------------------------------------
(* The directories the kernel is led to.                                   *)

\* Where links named with a d lead from the directories ds.
LedTo(ds) == {l[3] : l \in {m \in ImageLinks : m[1] \in ds /\ m[2] \in DNames}}

OnwardD == [ds \in SUBSET Inodes |-> ds \cup LedTo(ds)]

IsReachD(q) ==
  q = [n \in 0 .. NumInodes |-> IF n = 0 THEN {0} ELSE q[n - 1] \cup LedTo(q[n - 1])]

LEMMA DirsNamedDReach ==
  ASSUME NEW reach, IsReachD(reach)
  PROVE  \E q : IsReachD(q) /\ DirsNamedD = q[NumInodes]
BY Zenon DEF DirsNamedD, IsReachD, LedTo, ImageLinks

\* They are the least set with the root that is closed under those links.
LEMMA DirsNamedDAre ==
  ASSUME GoodImage, ImageInCore
  PROVE  /\ 0 \in DirsNamedD /\ DirsNamedD \subseteq Linked \cup {0}
         /\ LedTo(DirsNamedD) \subseteq DirsNamedD
         /\ \A ds : 0 \in ds /\ LedTo(ds) \subseteq ds => DirsNamedD \subseteq ds
<1> DEFINE N == NumInodes
           F == OnwardD
<1>1. N \in Nat /\ 0 \in Inodes /\ N \in 0 .. N /\ 0 \in 0 .. N
  BY Addresses, SizesAssumption
<1>2. /\ \A ds : LedTo(ds) \subseteq Linked
      /\ Linked \subseteq Inodes
  <2>1. Linked \subseteq Inodes
    BY DEF Linked, ImageInCore
  <2> QED BY <2>1, ImageLinkIs DEF LedTo
<1>3. \A ds \in SUBSET Inodes :
        F[ds] = ds \cup LedTo(ds) /\ ds \subseteq F[ds] /\ F[ds] \subseteq Inodes
  BY <1>2 DEF OnwardD
<1> HIDE DEF F
<1>4. PICK r : Iterates(r, {0}, F, N)
  BY <1>1, IterationExists
<1>5. \A n \in 0 .. N - 1 : n \in 0 .. N /\ n + 1 \in 0 .. N
  BY <1>1
<1>6. \A n \in 0 .. N : r[n] \in SUBSET Inodes
  <2> DEFINE S == {n \in 0 .. N : r[n] \in SUBSET Inodes}
  <2>1. r[0] = {0} /\ \A n \in 0 .. N - 1 : r[n + 1] = F[r[n]]
    <3> HIDE DEF N
    <3> QED BY <1>1, <1>4, IterationIs
  <2>2. 0 \in S
    BY <1>1, <2>1
  <2>3. ASSUME NEW n \in 0 .. N - 1, n \in S PROVE n + 1 \in S
    BY <1>3, <1>5, <2>1, <2>3
  <2>4. 0 .. N \subseteq S
    <3> HIDE DEF S, N
    <3> QED BY <1>1, <2>2, <2>3, UpTo
  <2> QED BY <2>4
<1>7. IsReachD(r)
  <2>1. r = [n \in 0 .. N |-> IF n = 0 THEN {0} ELSE F[r[n - 1]]]
    BY <1>4 DEF Iterates
  <2>2. \A n \in 0 .. N : n # 0 => n - 1 \in 0 .. N
    BY <1>1
  <2>3. \A n \in 0 .. N : n # 0 => F[r[n - 1]] = r[n - 1] \cup LedTo(r[n - 1])
    BY <1>3, <1>6, <2>2
  <2>4. \A n \in 0 .. N : r[n] = IF n = 0 THEN {0} ELSE r[n - 1] \cup LedTo(r[n - 1])
    BY <2>1, <2>3
  <2>5. r = [n \in 0 .. N |-> r[n]]
    BY <2>1
  <2>6. r = [n \in 0 .. N |-> IF n = 0 THEN {0} ELSE r[n - 1] \cup LedTo(r[n - 1])]
    BY <2>4, <2>5
  <2> QED BY <2>6 DEF IsReachD
<1>8. PICK q : IsReachD(q) /\ DirsNamedD = q[N]
  BY <1>7, DirsNamedDReach
<1>9. \A n \in 0 .. N : q[n] = IF n = 0 THEN {0} ELSE q[n - 1] \cup LedTo(q[n - 1])
  BY <1>8 DEF IsReachD
<1>10. q[0] = {0} /\ \A n \in 0 .. N - 1 : q[n + 1] = q[n] \cup LedTo(q[n])
  <2>1. ASSUME NEW n \in 0 .. N - 1 PROVE q[n + 1] = q[n] \cup LedTo(q[n])
    <3> DEFINE m == n + 1
    <3>1. m \in 0 .. N /\ m # 0 /\ m - 1 = n
      BY <1>1
    <3> HIDE DEF m
    <3>2. q[m] = q[m - 1] \cup LedTo(q[m - 1])
      BY <1>9, <3>1, Zenon
    <3> QED BY <3>1, <3>2 DEF m
  <2> QED BY <1>1, <1>9, <2>1
<1>11. \A n \in 0 .. N : q[n] \in SUBSET Inodes /\ q[n] \subseteq Linked \cup {0}
  <2> DEFINE S == {n \in 0 .. N : q[n] \in SUBSET Inodes /\ q[n] \subseteq Linked \cup {0}}
  <2>1. 0 \in S
    BY <1>1, <1>10
  <2>2. ASSUME NEW n \in 0 .. N - 1, n \in S PROVE n + 1 \in S
    BY <1>2, <1>5, <1>10, <2>2
  <2>3. 0 .. N \subseteq S
    <3> HIDE DEF S, N
    <3> QED BY <1>1, <2>1, <2>2, UpTo
  <2> QED BY <2>3
<1>12. Iterates(q, {0}, F, N)
  <2>1. \A n \in 0 .. N : n # 0 => n - 1 \in 0 .. N
    BY <1>1
  <2>2. \A n \in 0 .. N : n # 0 => F[q[n - 1]] = q[n - 1] \cup LedTo(q[n - 1])
    BY <1>3, <1>11, <2>1
  <2>3. \A n \in 0 .. N : q[n] = IF n = 0 THEN {0} ELSE F[q[n - 1]]
    BY <1>9, <2>2
  <2>4. q = [n \in 0 .. N |-> q[n]]
    BY <1>8 DEF IsReachD
  <2>5. q = [n \in 0 .. N |-> IF n = 0 THEN {0} ELSE F[q[n - 1]]]
    BY <2>3, <2>4
  <2> QED BY <2>5 DEF Iterates
<1>13. q[N] \in SUBSET Inodes /\ {0} \subseteq q[N] /\ F[q[N]] = q[N]
  <2> DEFINE a == {0}
  <2>1. IsFiniteSet(Inodes) /\ Cardinality(Inodes) <= N + 1
    BY <1>1, FS_Interval DEF Inodes
  <2>2. a \in SUBSET Inodes /\ a # {}
    BY <1>1
  <2>3. Climbs(F, Inodes, a, N)
    BY <1>1, <1>3, <2>1, <2>2 DEF Climbs
  <2>4. Iterates(q, a, F, N)
    BY <1>12
  <2> HIDE DEF N, a
  <2>5. q[N] \in SUBSET Inodes /\ a \subseteq q[N] /\ F[q[N]] = q[N]
    BY <2>3, <2>4, FixedPoint
  <2> QED BY <2>5 DEF a
<1>14. 0 \in DirsNamedD /\ LedTo(DirsNamedD) \subseteq DirsNamedD
  BY <1>3, <1>8, <1>13
<1>15. ASSUME NEW ds, 0 \in ds, LedTo(ds) \subseteq ds PROVE q[N] \subseteq ds
  <2> DEFINE S == {n \in 0 .. N : q[n] \subseteq ds}
  <2>1. 0 \in S
    BY <1>1, <1>10, <1>15
  <2>2. ASSUME NEW n \in 0 .. N - 1, n \in S PROVE n + 1 \in S
    <3>1. LedTo(q[n]) \subseteq LedTo(ds)
      BY <2>2 DEF LedTo
    <3> QED BY <1>5, <1>10, <1>15, <2>2, <3>1
  <2>3. 0 .. N \subseteq S
    <3> HIDE DEF S, N
    <3> QED BY <1>1, <2>1, <2>2, UpTo
  <2> QED BY <1>1, <2>3
<1> QED BY <1>1, <1>8, <1>11, <1>14, <1>15

-----------------------------------------------------------------------------
(* What one call of print_fs_contents finds.                               *)

IsAmong(a, s, S) ==
  a = [k \in 0 .. Len(s) |->
         IF k = 0 THEN <<>>
         ELSE IF s[k].name \in S THEN Append(a[k - 1], s[k]) ELSE a[k - 1]]

LEMMA NamedIsAmong ==
  ASSUME NEW s, NEW S, NEW a, IsAmong(a, s, S)
  PROVE  \E b : IsAmong(b, s, S) /\ EntriesNamed(s, S) = b[Len(s)]
BY Zenon DEF EntriesNamed, IsAmong

LEMMA AmongExists ==
  ASSUME NEW T, NEW s \in Seq(T), NEW S
  PROVE  \E a : IsAmong(a, s, S)
<1> DEFINE N == Len(s)
           P == (0 .. N) \X Seq(T)
           F == [y \in P |-> <<y[1] + 1, IF s[y[1] + 1].name \in S
                                         THEN Append(y[2], s[y[1] + 1]) ELSE y[2]>>]
           z == <<0, <<>>>>
<1>1. N \in Nat /\ 0 \in 0 .. N /\ N \in 0 .. N /\ \A k \in 1 .. N : s[k] \in T
  OBVIOUS
<1>2. \A y \in P : F[y] = <<y[1] + 1, IF s[y[1] + 1].name \in S
                                      THEN Append(y[2], s[y[1] + 1]) ELSE y[2]>>
  OBVIOUS
<1>3. \A n \in 0 .. N - 1 : /\ n \in 0 .. N /\ n + 1 \in 0 .. N /\ n + 1 \in 1 .. N
                            /\ n + 1 # 0 /\ n + 1 - 1 = n
  BY <1>1
<1> HIDE DEF F, N, z
<1>4. PICK r : Iterates(r, z, F, N)
  BY <1>1, IterationExists
<1>5. r[0] = z /\ \A n \in 0 .. N - 1 : r[n + 1] = F[r[n]]
  BY <1>1, <1>4, IterationIs
<1> DEFINE Q == {n \in 0 .. N : r[n] \in P /\ r[n][1] = n}
<1>6. 0 \in Q
  <2> DEFINE none == <<>>
  <2>1. r[0] = <<0, none>> /\ none \in Seq(T)
    BY <1>5 DEF z
  <2> HIDE DEF none
  <2>2. r[0] \in P /\ r[0][1] = 0
    BY <1>1, <2>1
  <2> QED BY <1>1, <2>2
<1>7. ASSUME NEW n \in 0 .. N - 1, n \in Q PROVE n + 1 \in Q
  <2>1. r[n] \in P /\ r[n][1] = n /\ r[n][2] \in Seq(T)
    BY <1>7
  <2>2. s[n + 1] \in T /\ n + 1 \in 0 .. N
    BY <1>1, <1>3
  <2>3. Append(r[n][2], s[n + 1]) \in Seq(T)
    BY <2>1, <2>2
  <2>4. r[n + 1] = <<n + 1, IF s[n + 1].name \in S
                            THEN Append(r[n][2], s[n + 1]) ELSE r[n][2]>>
    BY <1>2, <1>5, <2>1
  <2> DEFINE t == IF s[n + 1].name \in S THEN Append(r[n][2], s[n + 1]) ELSE r[n][2]
  <2>5. t \in Seq(T)
    BY <2>1, <2>3
  <2>6. r[n + 1] = <<n + 1, t>>
    BY <2>4
  <2> HIDE DEF t
  <2>7. r[n + 1] \in P /\ r[n + 1][1] = n + 1
    BY <2>2, <2>5, <2>6
  <2> QED BY <2>2, <2>7
<1>8. \A n \in 0 .. N : r[n] \in P /\ r[n][1] = n
  <2>1. 0 .. N \subseteq Q
    <3> HIDE DEF Q
    <3> QED BY <1>1, <1>6, <1>7, UpTo
  <2> QED BY <2>1
<1> DEFINE a == [n \in 0 .. N |-> r[n][2]]
<1>9. \A n \in 0 .. N : a[n] = r[n][2]
  OBVIOUS
<1>10. a[0] = <<>>
  BY <1>1, <1>5, <1>9 DEF z
<1>11. ASSUME NEW k \in 0 .. N, k # 0
       PROVE  a[k] = IF s[k].name \in S THEN Append(a[k - 1], s[k]) ELSE a[k - 1]
  <2> DEFINE n == k - 1
  <2>1. n \in 0 .. N - 1 /\ n \in 0 .. N /\ n + 1 = k
    BY <1>1, <1>11
  <2> HIDE DEF n
  <2>2. r[k] = F[r[n]]
    BY <1>5, <2>1
  <2>3. r[k][2] = IF s[k].name \in S THEN Append(r[n][2], s[k]) ELSE r[n][2]
    BY <1>2, <1>8, <2>1, <2>2
  <2>4. a[k] = r[k][2] /\ a[n] = r[n][2]
    BY <1>9, <2>1
  <2>5. a[k] = IF s[k].name \in S THEN Append(a[n], s[k]) ELSE a[n]
    BY <2>3, <2>4
  <2> QED BY <2>5 DEF n
<1>12. a = [n \in 0 .. N |-> a[n]]
  OBVIOUS
<1> HIDE DEF a
<1>13. a = [k \in 0 .. N |-> IF k = 0 THEN <<>>
                             ELSE IF s[k].name \in S THEN Append(a[k - 1], s[k]) ELSE a[k - 1]]
  BY <1>10, <1>11, <1>12
<1>14. IsAmong(a, s, S)
  BY <1>13 DEF IsAmong, N
<1> QED BY <1>14

\* The entries of a sequence that have one of the names S, and no others.
LEMMA EntriesNamedAre ==
  ASSUME NEW T, NEW s \in Seq(T), NEW S
  PROVE  /\ EntriesNamed(s, S) \in Seq(T)
         /\ \A x : x \in Range(EntriesNamed(s, S)) <=> x \in Range(s) /\ x.name \in S
<1> DEFINE N == Len(s)
<1>1. N \in Nat /\ 0 \in 0 .. N /\ N \in 0 .. N /\ \A k \in 1 .. N : s[k] \in T
  OBVIOUS
<1>2. PICK b : IsAmong(b, s, S) /\ EntriesNamed(s, S) = b[N]
  BY AmongExists, NamedIsAmong
<1>3. \A k \in 0 .. N : b[k] = IF k = 0 THEN <<>>
                               ELSE IF s[k].name \in S THEN Append(b[k - 1], s[k]) ELSE b[k - 1]
  BY <1>2 DEF IsAmong
<1> DEFINE Q == {n \in 0 .. N :
                  /\ b[n] \in Seq(T)
                  /\ \A x : x \in Range(b[n]) <=> x.name \in S /\ \E j \in 1 .. n : x = s[j]}
<1>4. 0 \in Q
  <2>1. b[0] = <<>>
    BY <1>1, <1>3
  <2>2. Range(<<>>) = {} /\ <<>> \in Seq(T) /\ 1 .. 0 = {}
    BY DEF Range
  <2> QED BY <1>1, <2>1, <2>2
<1>5. ASSUME NEW n \in 0 .. N - 1, n \in Q PROVE n + 1 \in Q
  <2> DEFINE m == n + 1
  <2>1. /\ m \in 0 .. N /\ m # 0 /\ m - 1 = n /\ s[m] \in T
        /\ \A j : j \in 1 .. m <=> j \in 1 .. n \/ j = m
    BY <1>1
  <2> HIDE DEF m
  <2>2. b[m] = IF s[m].name \in S THEN Append(b[n], s[m]) ELSE b[n]
    <3>1. b[m] = IF s[m].name \in S THEN Append(b[m - 1], s[m]) ELSE b[m - 1]
      BY <1>3, <2>1
    <3> QED BY <2>1, <3>1
  <2>3. b[n] \in Seq(T) /\ \A x : x \in Range(b[n]) <=> x.name \in S /\ \E j \in 1 .. n : x = s[j]
    BY <1>5
  <2>4. \A x : x \in Range(Append(b[n], s[m])) <=> x \in Range(b[n]) \/ x = s[m]
    <3> DEFINE c == Append(b[n], s[m])
    <3>1. c \in Seq(T) /\ b[n] \in Seq(T) /\ Len(b[n]) \in Nat /\ Len(c) = Len(b[n]) + 1
      BY <2>1, <2>3
    <3>2. \A j \in 1 .. Len(b[n]) : c[j] = b[n][j]
      BY <2>1, <2>3
    <3>3. c[Len(b[n]) + 1] = s[m]
      BY <2>1, <2>3
    <3> HIDE DEF c
    <3>4. DOMAIN c = 1 .. Len(c) /\ DOMAIN b[n] = 1 .. Len(b[n])
      BY <3>1
    <3>5. \A j : j \in DOMAIN c <=> j \in DOMAIN b[n] \/ j = Len(b[n]) + 1
      BY <3>1, <3>4
    <3>6. \A x : x \in Range(c) <=> x \in Range(b[n]) \/ x = s[m]
      BY <3>2, <3>3, <3>4, <3>5, Zenon DEF Range
    <3> QED BY <3>6 DEF c
  <2>5. b[m] \in Seq(T)
    BY <2>1, <2>2, <2>3
  <2>6. \A x : x \in Range(b[m]) <=> x.name \in S /\ \E j \in 1 .. m : x = s[j]
    <3>1. CASE s[m].name \in S
      <4>1. b[m] = Append(b[n], s[m])
        BY <2>2, <3>1
      <4> QED BY <2>1, <2>3, <2>4, <3>1, <4>1, Zenon
    <3>2. CASE s[m].name \notin S
      <4>1. b[m] = b[n]
        BY <2>2, <3>2
      <4> QED BY <2>1, <2>3, <3>2, <4>1, Zenon
    <3> QED BY <3>1, <3>2
  <2>7. m \in Q
    BY <2>1, <2>5, <2>6
  <2> QED BY <2>7 DEF m
<1>6. 0 .. N \subseteq Q
  <2> HIDE DEF Q, N
  <2> QED BY <1>1, <1>4, <1>5, UpTo
<1>7. b[N] \in Seq(T) /\ \A x : x \in Range(b[N]) <=> x.name \in S /\ \E j \in 1 .. N : x = s[j]
  BY <1>1, <1>6
<1>8. \A x : x \in Range(s) <=> \E j \in 1 .. N : x = s[j]
  BY DEF Range
<1> QED BY <1>2, <1>7, <1>8

\* Where the kernel may be led at all, and what it is to print of a file.
Led       == {0} \cup {l[3] : l \in ImageLinks}
TextOf(f) == [k \in 1 .. disk_inodes[f].size |-> Byte(f, k - 1)]

LEMMA LedIs ==
  ASSUME GoodImage, ImageInCore, NEW i \in Led
  PROVE  /\ i \in disk_inode_bp /\ i \in Inodes \cap inode_bp /\ inodes[i] = disk_inodes[i]
         /\ Granted(i) = disk_inodes[i].size
         /\ disk_inodes[i].type \in {UFS_DIRECTORY, UFS_REGULAR_FILE}
         /\ disk_inodes[i].type = UFS_DIRECTORY => DirOK(inodes[i], blocks)
         /\ disk_inodes[i].type = UFS_REGULAR_FILE /\ AppendOnly => FileOK(i, inodes[i], blocks)
<1>1. i \in disk_inode_bp /\ i \notin leaked
  BY ImageLinkIs DEF Led, Linked, GoodImage
<1>2. i \in Inodes \cap inode_bp /\ inodes[i] = disk_inodes[i] /\ disk_inodes[i] \in Inode
  BY <1>1 DEF ImageInCore
<1>3. Granted(i) = disk_inodes[i].size
  BY <1>2 DEF Granted
<1>4. disk_inodes[i].type \in {UFS_DIRECTORY, UFS_REGULAR_FILE}
  BY <1>2 DEF Inode
<1>5. /\ disk_inodes[i].type = UFS_DIRECTORY => DirOK(disk_inodes[i], blocks)
      /\ disk_inodes[i].type = UFS_REGULAR_FILE /\ AppendOnly => FileOK(i, disk_inodes[i], blocks)
  BY <1>1 DEF GoodImage, InodeOK
<1> QED BY <1>1, <1>2, <1>3, <1>4, <1>5

\* The links of a directory the kernel is led to are links of the tree.
LEMMA LinksOfLed ==
  ASSUME GoodImage, ImageInCore, NEW i \in Led, disk_inodes[i].type = UFS_DIRECTORY
  PROVE  LinksIn(disk_inodes, i) \subseteq ImageLinks
<1>1. PICK ds \in SUBSET disk_inode_bp :
        /\ ImageLinks = LinksOf(disk_inodes, ds)
        /\ ds = {0} \cup Heads(disk_inode_bp, disk_inodes, ImageLinks)
  BY ImageLinksAre
<1>2. i \in disk_inode_bp
  BY LedIs
<1>3. i \in ds
  BY <1>1, <1>2 DEF Led, Heads
<1> QED BY <1>1, <1>3 DEF LinksOf

\* Every cell below the end of such a directory is seen as an entry in use,
LEMMA DirectorySeen ==
  ASSUME GoodImage, ImageInCore, NEW i \in Led, disk_inodes[i].type = UFS_DIRECTORY, NEW odd
  PROVE  /\ Granted(i) \in Nat
         /\ \A k \in 0 .. Granted(i) - 1 :
              /\ IsEntry(i, k) /\ Seen(i, k, odd).inum # -1
              /\ Seen(i, k, odd).name \in Names \cup {Dot, DotDot}
              /\ Seen(i, k, odd).name \in Names =>
                   <<i, Seen(i, k, odd).name, Seen(i, k, odd).inum>> \in ImageLinks
         /\ \A l \in LinksIn(disk_inodes, i) :
              \E k \in 0 .. Granted(i) - 1 :
                /\ Seen(i, k, odd).name \in Names
                /\ l = <<i, Seen(i, k, odd).name, Seen(i, k, odd).inum>>
<1>1. /\ inodes[i] = disk_inodes[i] /\ Granted(i) = inodes[i].size
      /\ DirOK(inodes[i], blocks) /\ Packed(inodes[i])
  BY LedIs DEF DirOK
<1>2. Granted(i) \in Nat
  BY <1>1 DEF Packed
<1>3. \A k \in 0 .. Granted(i) - 1 : k \in Nat /\ k < inodes[i].size
  BY <1>1, <1>2
<1>4. \A k \in 0 .. Granted(i) - 1 :
        /\ IsEntry(i, k) /\ Seen(i, k, odd) = CellAt(i, k) /\ Seen(i, k, odd).inum # -1
        /\ Seen(i, k, odd).name \in Names \cup {Dot, DotDot}
  BY <1>1, <1>3, EntrySeen DEF EntryOK
<1>5. ASSUME NEW k \in 0 .. Granted(i) - 1, Seen(i, k, odd).name \in Names
      PROVE  <<i, Seen(i, k, odd).name, Seen(i, k, odd).inum>> \in ImageLinks
  <2> DEFINE s == k \div BlockSize
             c == k % BlockSize
  <2>1. s \in Slots /\ c \in Cells /\ Ptr(i, k) # NoBlock
    BY <1>1, <1>3, PackedCell
  <2>2. At(disk_inodes[i], blocks, s, c) = Seen(i, k, odd) /\ disk_inodes[i].direct[s] # NoBlock
    BY <1>1, <1>4, <2>1 DEF At, CellAt, Ptr
  <2> HIDE DEF s, c
  <2> DEFINE l == <<i, Seen(i, k, odd).name, Seen(i, k, odd).inum>>
  <2>3. /\ Used(disk_inodes[i], blocks, s, c) /\ At(disk_inodes[i], blocks, s, c).name \in Names
        /\ l = <<i, At(disk_inodes[i], blocks, s, c).name, At(disk_inodes[i], blocks, s, c).inum>>
    BY <1>4, <1>5, <2>2 DEF Used
  <2> HIDE DEF l
  <2>4. l \in LinksIn(disk_inodes, i)
    BY <2>1, <2>3, LinkInCell
  <2>5. l \in ImageLinks
    BY <2>4, LinksOfLed
  <2> QED BY <2>5 DEF l
<1>6. ASSUME NEW l \in LinksIn(disk_inodes, i)
      PROVE  \E k \in 0 .. Granted(i) - 1 :
               /\ Seen(i, k, odd).name \in Names
               /\ l = <<i, Seen(i, k, odd).name, Seen(i, k, odd).inum>>
  <2>1. PICK s \in Slots, c \in Cells :
          /\ Used(disk_inodes[i], blocks, s, c) /\ At(disk_inodes[i], blocks, s, c).name \in Names
          /\ l = <<i, At(disk_inodes[i], blocks, s, c).name, At(disk_inodes[i], blocks, s, c).inum>>
    BY LinkInCell
  <2>2. Below(inodes[i], s, c)
    BY <1>1, <2>1 DEF Used, At, DirOK
  <2> DEFINE k == s * BlockSize + c
  <2>3. k \in Nat /\ k \div BlockSize = s /\ k % BlockSize = c
    BY OffsetOf
  <2>4. k \in 0 .. Granted(i) - 1
    BY <1>1, <1>2, <2>2, <2>3 DEF Below
  <2>5. CellAt(i, k) = At(disk_inodes[i], blocks, s, c)
    BY <1>1, <2>3 DEF CellAt, Ptr, At
  <2> HIDE DEF k
  <2> QED BY <1>4, <2>1, <2>4, <2>5
<1> QED BY <1>2, <1>4, <1>5, <1>6

\* and a file is read as it was written.
LEMMA FileSeen ==
  ASSUME GoodImage, ImageInCore, AppendOnly,
         NEW f \in Led, disk_inodes[f].type = UFS_REGULAR_FILE
  PROVE  /\ Granted(f) \in Nat /\ CellsPrinted(f) = Granted(f)
         /\ \A k \in 0 .. Granted(f) - 1 : PtrTo(f, k) # NoBlock /\ ~IsEntry(f, k)
         /\ FileText(f) = TextOf(f)
<1>1. /\ inodes[f] = disk_inodes[f] /\ Granted(f) = inodes[f].size
      /\ FileOK(f, inodes[f], blocks) /\ Packed(inodes[f])
  BY LedIs DEF FileOK
<1>2. Granted(f) \in Nat
  BY <1>1 DEF Packed
<1>3. CellsPrinted(f) = Granted(f)
  BY <1>1 DEF CellsPrinted, UFS_DIRECTORY, UFS_REGULAR_FILE
<1>4. ASSUME NEW k \in 0 .. Granted(f) - 1
      PROVE  PtrTo(f, k) # NoBlock /\ CellOf(f, k) = Byte(f, k)
  <2>1. k \in Nat /\ k < inodes[f].size
    BY <1>1, <1>2
  <2>2. /\ k \div BlockSize \in Slots /\ k % BlockSize \in Cells
        /\ Below(inodes[f], k \div BlockSize, k % BlockSize)
        /\ PtrTo(f, k) = Ptr(f, k) /\ CellOf(f, k) = CellAt(f, k) /\ Ptr(f, k) # NoBlock
    BY <1>1, <2>1, PackedCell, PackedIsIn
  <2>3. (k \div BlockSize) * BlockSize + (k % BlockSize) = k
    BY <2>1, Sizes
  <2> DEFINE s == k \div BlockSize
             c == k % BlockSize
  <2>4. blocks[inodes[f].direct[s]][c] = Byte(f, s * BlockSize + c)
    BY <1>1, <2>2 DEF FileOK
  <2> QED BY <2>2, <2>3, <2>4 DEF CellAt, Ptr
<1>5. \A k \in 0 .. Granted(f) - 1 : ~IsEntry(f, k)
  BY <1>4 DEF IsEntry, Byte
<1>6. ASSUME NEW k \in 1 .. Granted(f)
      PROVE  (IF PtrTo(f, k - 1) = NoBlock THEN ZeroCell ELSE CellOf(f, k - 1)) = Byte(f, k - 1)
  <2>1. k - 1 \in 0 .. Granted(f) - 1
    BY <1>2
  <2> QED BY <1>4, <2>1
<1>7. FileText(f) = TextOf(f)
  <2>1. TextOf(f) = [k \in 1 .. Granted(f) |-> Byte(f, k - 1)]
    BY <1>1 DEF TextOf
  <2>2. FileText(f) = [k \in 1 .. Granted(f) |->
                         IF PtrTo(f, k - 1) = NoBlock THEN ZeroCell ELSE CellOf(f, k - 1)]
    BY <1>3 DEF FileText
  <2> QED BY <1>6, <2>1, <2>2
<1> QED BY <1>2, <1>3, <1>4, <1>5, <1>7

-----------------------------------------------------------------------------
(* What one call of print_fs_contents does.                                *)

\* The entries it reads.
EntriesOf(i, odd) == [k \in 1 .. EntriesPrinted(i, odd) |-> Seen(i, k - 1, odd)]

\* It leaves the directory without an entry being found where there is none.
Straight(i, odd) ==
  \A k \in 0 .. Granted(i) - 1 : k <= EntriesPrinted(i, odd) => IsEntry(i, k)

LEMMA EntriesAre ==
  ASSUME ImageInCore, NEW i, Granted(i) \in Nat, NEW odd
  PROVE  /\ EntriesPrinted(i, odd) \in 0 .. Granted(i)
         /\ EntriesOf(i, odd) \in Seq(Range(EntriesOf(i, odd)))
         /\ \A x : x \in Range(EntriesOf(i, odd)) <=>
                     \E k \in 0 .. EntriesPrinted(i, odd) - 1 : x = Seen(i, k, odd)
<1> DEFINE n == EntriesPrinted(i, odd)
           s == EntriesOf(i, odd)
<1>1. n \in Nat /\ n <= Granted(i)
  BY PrintsUpTo
<1> HIDE DEF n
<1>2. s = [k \in 1 .. n |-> Seen(i, k - 1, odd)]
  BY DEF EntriesOf, n
<1> HIDE DEF s
<1>3. s \in Seq(Range(s))
  <2> DEFINE T == Range(s)
  <2>1. DOMAIN s = 1 .. n /\ s = [k \in 1 .. n |-> s[k]]
    BY <1>2
  <2>2. \A k \in 1 .. n : s[k] \in T
    BY <2>1 DEF Range
  <2> HIDE DEF T
  <2>3. s \in [1 .. n -> T]
    BY <2>1, <2>2
  <2>4. s \in Seq(T)
    BY <1>1, <2>3
  <2> QED BY <2>4 DEF T
<1>4. \A x : x \in Range(s) <=> \E j \in 1 .. n : x = Seen(i, j - 1, odd)
  BY <1>2 DEF Range
<1>5. \A x : (\E j \in 1 .. n : x = Seen(i, j - 1, odd)) <=> \E k \in 0 .. n - 1 : x = Seen(i, k, odd)
  <2>1. ASSUME NEW x, NEW j \in 1 .. n, x = Seen(i, j - 1, odd)
        PROVE  \E k \in 0 .. n - 1 : x = Seen(i, k, odd)
    <3>1. j - 1 \in 0 .. n - 1
      BY <1>1
    <3> QED BY <2>1, <3>1
  <2>2. ASSUME NEW x, NEW k \in 0 .. n - 1, x = Seen(i, k, odd)
        PROVE  \E j \in 1 .. n : x = Seen(i, j - 1, odd)
    <3> DEFINE j == k + 1
    <3>1. j \in 1 .. n /\ j - 1 = k
      BY <1>1
    <3> HIDE DEF j
    <3> QED BY <2>2, <3>1
  <2> QED BY <2>1, <2>2
<1>6. n \in 0 .. Granted(i)
  BY <1>1
<1> QED BY <1>3, <1>4, <1>5, <1>6 DEF n, s

\* What it reads on a straight way are links of the image.
LEMMA EntriesAreLinks ==
  ASSUME GoodImage, ImageInCore, AppendOnly, NEW i \in Led, NEW odd, Straight(i, odd)
  PROVE  /\ Granted(i) \in Nat
         /\ \A x \in Range(EntriesOf(i, odd)) :
              x.name \in Names => <<i, x.name, x.inum>> \in ImageLinks
<1>1. CASE disk_inodes[i].type = UFS_DIRECTORY
  <2>1. /\ Granted(i) \in Nat
        /\ \A k \in 0 .. Granted(i) - 1 : Seen(i, k, odd).name \in Names =>
             <<i, Seen(i, k, odd).name, Seen(i, k, odd).inum>> \in ImageLinks
    BY <1>1, DirectorySeen
  <2>2. \A k \in 0 .. EntriesPrinted(i, odd) - 1 : k \in 0 .. Granted(i) - 1
    BY <2>1, EntriesAre
  <2>3. \A x : x \in Range(EntriesOf(i, odd)) =>
                 \E k \in 0 .. EntriesPrinted(i, odd) - 1 : x = Seen(i, k, odd)
    BY <2>1, EntriesAre
  <2> QED BY <2>1, <2>2, <2>3
<1>2. CASE disk_inodes[i].type = UFS_REGULAR_FILE
  <2>1. /\ Granted(i) \in Nat
        /\ \A k \in 0 .. Granted(i) - 1 : ~IsEntry(i, k)
    BY <1>2, FileSeen
  <2>2. /\ EntriesPrinted(i, odd) \in 0 .. Granted(i)
        /\ \A x : x \in Range(EntriesOf(i, odd)) =>
                    \E k \in 0 .. EntriesPrinted(i, odd) - 1 : x = Seen(i, k, odd)
    BY <2>1, EntriesAre
  <2>3. Granted(i) = 0
    <3>1. SUFFICES ASSUME Granted(i) > 0 PROVE FALSE
      BY <2>1
    <3>2. 0 \in 0 .. Granted(i) - 1 /\ 0 <= EntriesPrinted(i, odd)
      BY <2>1, <2>2, <3>1
    <3> QED BY <2>1, <3>2 DEF Straight
  <2>4. \A k \in 0 .. EntriesPrinted(i, odd) - 1 : FALSE
    BY <2>2, <2>3
  <2> QED BY <2>1, <2>2, <2>4
<1> QED BY <1>1, <1>2, LedIs

\* A directory that is read without a panic is read to its end.
LEMMA EntriesAreAll ==
  ASSUME GoodImage, ImageInCore, NEW i \in Led, disk_inodes[i].type = UFS_DIRECTORY, NEW odd
  PROVE  /\ Straight(i, odd)
         /\ \A x \in Range(EntriesOf(i, odd)) : x.name \in Names \cup {Dot, DotDot}
         /\ ~(EntriesPrinted(i, odd) < Granted(i) /\ ~Readable(i, EntriesPrinted(i, odd))) =>
              \A l \in LinksIn(disk_inodes, i) :
                \E x \in Range(EntriesOf(i, odd)) :
                  x.name \in Names /\ l = <<i, x.name, x.inum>>
<1> DEFINE n == EntriesPrinted(i, odd)
           g == Granted(i)
<1>1. /\ g \in Nat
      /\ \A k \in 0 .. g - 1 : /\ IsEntry(i, k) /\ Seen(i, k, odd).inum # -1
                               /\ Seen(i, k, odd).name \in Names \cup {Dot, DotDot}
      /\ \A l \in LinksIn(disk_inodes, i) :
           \E k \in 0 .. g - 1 :
             /\ Seen(i, k, odd).name \in Names
             /\ l = <<i, Seen(i, k, odd).name, Seen(i, k, odd).inum>>
  BY DirectorySeen
<1>2. /\ n \in 0 .. g
      /\ \A x : x \in Range(EntriesOf(i, odd)) <=> \E k \in 0 .. n - 1 : x = Seen(i, k, odd)
  BY <1>1, EntriesAre
<1>3. Straight(i, odd)
  BY <1>1 DEF Straight
<1>4. \A x \in Range(EntriesOf(i, odd)) : x.name \in Names \cup {Dot, DotDot}
  <2>1. \A k \in 0 .. n - 1 : k \in 0 .. g - 1
    BY <1>1, <1>2
  <2> QED BY <1>1, <1>2, <2>1
<1>5. n < g => ~Readable(i, n)
  <2>1. SUFFICES ASSUME n < g PROVE ~Readable(i, n)
    OBVIOUS
  <2>2. n \in EntriesStop(i, odd)
    BY <2>1, PrintsUpTo
  <2>3. n \in 0 .. g - 1
    BY <1>1, <1>2, <2>1
  <2> QED BY <1>1, <2>2, <2>3 DEF EntriesStop
<1>6. ~(n < g /\ ~Readable(i, n)) => n = g
  BY <1>1, <1>2, <1>5
<1>7. ~(n < g /\ ~Readable(i, n)) =>
        \A l \in LinksIn(disk_inodes, i) :
          \E x \in Range(EntriesOf(i, odd)) : x.name \in Names /\ l = <<i, x.name, x.inum>>
  BY <1>1, <1>2, <1>6
<1> QED BY <1>3, <1>4, <1>7

\* The action, with its names spelled out.
FilesOf(i, odd) == {x.inum : x \in PlainFiles(EntriesOf(i, odd))}
SubsOf(i, odd)  == Subdirs(EntriesOf(i, odd))

Prints(i, odd) ==
  /\ ~(EntriesPrinted(i, odd) < Granted(i) /\ ~Readable(i, EntriesPrinted(i, odd)))
  /\ todo' = [k \in 1 .. Len(SubsOf(i, odd)) |->
                [inum |-> SubsOf(i, odd)[k].inum, depth |-> Head(todo).depth + 1]] \o Tail(todo)
  /\ printed' =
       [entries |-> printed.entries \cup {<<i, x>> : x \in Range(EntriesOf(i, odd))},
        files   |-> printed.files \cup {<<f, FileText(f)>> : f \in FilesOf(i, odd)}]

LEMMA PrintDirectoryDoes ==
  ASSUME PrintDirectory
  PROVE  \E odd \in Misreads :
           LET i == Head(todo).inum IN
           /\ strayed' <=> \/ strayed \/ ~Straight(i, odd)
                           \/ \E f \in FilesOf(i, odd) :
                                \E k \in 0 .. CellsPrinted(f) - 1 : PtrTo(f, k) = NoBlock
           /\ \/ pc' \in {"overflow", "panic"} /\ UNCHANGED <<todo, printed>>
              \/ pc' = pc /\ Prints(i, odd)
<1> DEFINE i == Head(todo).inum
<1>1. PICK odd \in Misreads :
        /\ strayed' = \/ strayed
                      \/ \E k \in 0 .. Granted(i) - 1 : k <= EntriesPrinted(i, odd) /\ ~IsEntry(i, k)
                      \/ \E f \in FilesOf(i, odd) :
                           \E k \in 0 .. CellsPrinted(f) - 1 : PtrTo(f, k) = NoBlock
        /\ \/ pc' = "overflow" /\ UNCHANGED <<todo, printed>>
           \/ pc' = "panic" /\ UNCHANGED <<todo, printed>>
           \/ pc' = pc /\ Prints(i, odd)
  BY Zenon DEF PrintDirectory, Prints, FilesOf, SubsOf, EntriesOf
<1>2. ~Straight(i, odd) <=>
        \E k \in 0 .. Granted(i) - 1 : k <= EntriesPrinted(i, odd) /\ ~IsEntry(i, k)
  BY DEF Straight
<1>3. strayed' <=> \/ strayed \/ ~Straight(i, odd)
                   \/ \E f \in FilesOf(i, odd) :
                        \E k \in 0 .. CellsPrinted(f) - 1 : PtrTo(f, k) = NoBlock
  BY <1>1, <1>2, Zenon
<1> QED BY <1>1, <1>3

-----------------------------------------------------------------------------
(* What is printed and what is left to print.                              *)

LEMMA InRangeOfSeq ==
  ASSUME NEW T, NEW s \in Seq(T)
  PROVE  \A x : x \in Range(s) <=> \E j \in 1 .. Len(s) : x = s[j]
<1>1. DOMAIN s = 1 .. Len(s)
  OBVIOUS
<1> QED BY <1>1 DEF Range

LEMMA RangeOfConcat ==
  ASSUME NEW T, NEW u \in Seq(T), NEW w \in Seq(T)
  PROVE  /\ u \o w \in Seq(T)
         /\ \A x : x \in Range(u \o w) <=> x \in Range(u) \/ x \in Range(w)
<1> DEFINE s == u \o w
           a == Len(u)
           b == Len(w)
<1>1. /\ s \in Seq(T) /\ a \in Nat /\ b \in Nat /\ Len(s) = a + b
      /\ \A j \in 1 .. a + b : s[j] = IF j <= a THEN u[j] ELSE w[j - a]
  OBVIOUS
<1> HIDE DEF s
<1>2. /\ \A x : x \in Range(s) <=> \E j \in 1 .. a + b : x = s[j]
      /\ \A x : x \in Range(u) <=> \E j \in 1 .. a : x = u[j]
      /\ \A x : x \in Range(w) <=> \E j \in 1 .. b : x = w[j]
  <2>1. \A x : x \in Range(s) <=> \E j \in 1 .. Len(s) : x = s[j]
    BY <1>1, InRangeOfSeq
  <2>2. \A x : x \in Range(u) <=> \E j \in 1 .. Len(u) : x = u[j]
    BY InRangeOfSeq
  <2>3. \A x : x \in Range(w) <=> \E j \in 1 .. Len(w) : x = w[j]
    BY InRangeOfSeq
  <2> QED BY <1>1, <2>1, <2>2, <2>3
<1> HIDE DEF a, b
<1>3. ASSUME NEW j \in 1 .. a + b
      PROVE  (j \in 1 .. a /\ s[j] = u[j]) \/ (j - a \in 1 .. b /\ s[j] = w[j - a])
  <2>1. CASE j <= a
    <3>1. j \in 1 .. a
      BY <1>1, <2>1
    <3> QED BY <1>1, <2>1, <3>1
  <2>2. CASE ~(j <= a)
    <3>1. j - a \in 1 .. b
      BY <1>1, <2>2
    <3> QED BY <1>1, <2>2, <3>1
  <2> QED BY <2>1, <2>2
<1>4. ASSUME NEW j \in 1 .. a PROVE j \in 1 .. a + b /\ s[j] = u[j]
  <2>1. j \in 1 .. a + b /\ j <= a
    BY <1>1
  <2> QED BY <1>1, <2>1
<1>5. ASSUME NEW j \in 1 .. b PROVE \E k \in 1 .. a + b : s[k] = w[j]
  <2> DEFINE k == j + a
  <2>1. k \in 1 .. a + b /\ ~(k <= a) /\ k - a = j
    BY <1>1
  <2> HIDE DEF k
  <2> QED BY <1>1, <2>1
<1>6. \A x : x \in Range(s) => x \in Range(u) \/ x \in Range(w)
  BY <1>2, <1>3, Zenon
<1>7. ASSUME NEW x, x \in Range(u) \/ x \in Range(w) PROVE x \in Range(s)
  <2>1. CASE x \in Range(u)
    <3>1. PICK j \in 1 .. a : x = u[j]
      BY <1>2, <2>1
    <3> QED BY <1>2, <1>4, <3>1
  <2>2. CASE x \in Range(w)
    <3>1. PICK j \in 1 .. b : x = w[j]
      BY <1>2, <2>2
    <3>2. PICK k \in 1 .. a + b : s[k] = w[j]
      BY <1>5
    <3> QED BY <1>2, <3>1, <3>2
  <2> QED BY <1>7, <2>1, <2>2
<1> QED BY <1>1, <1>6, <1>7 DEF s

LEMMA RangeOfTail ==
  ASSUME NEW T, NEW u \in Seq(T), u # <<>>
  PROVE  /\ Head(u) \in T /\ Tail(u) \in Seq(T)
         /\ \A x : x \in Range(u) <=> x = Head(u) \/ x \in Range(Tail(u))
<1> DEFINE w == Tail(u)
<1>1. /\ Head(u) \in T /\ w \in Seq(T) /\ Len(u) \in Nat /\ Len(u) # 0 /\ Len(w) = Len(u) - 1
      /\ Head(u) = u[1] /\ \A j \in 1 .. Len(w) : w[j] = u[j + 1]
  OBVIOUS
<1> HIDE DEF w
<1>2. /\ \A x : x \in Range(u) <=> \E j \in 1 .. Len(u) : x = u[j]
      /\ \A x : x \in Range(w) <=> \E j \in 1 .. Len(w) : x = w[j]
  BY <1>1 DEF Range
<1>3. 1 \in 1 .. Len(u) /\ \A j \in 1 .. Len(w) : j + 1 \in 1 .. Len(u)
  BY <1>1
<1>4. ASSUME NEW j \in 1 .. Len(u), j # 1 PROVE \E k \in 1 .. Len(w) : u[j] = w[k]
  <2> DEFINE k == j - 1
  <2>1. k \in 1 .. Len(w) /\ k + 1 = j
    BY <1>1, <1>4
  <2> HIDE DEF k
  <2> QED BY <1>1, <2>1
<1>5. \A x : x \in Range(u) => x = Head(u) \/ x \in Range(w)
  BY <1>1, <1>2, <1>4, ZenonT(40)
<1>6. \A x : x = Head(u) \/ x \in Range(w) => x \in Range(u)
  BY <1>1, <1>2, <1>3, Zenon
<1> QED BY <1>1, <1>5, <1>6 DEF w

Shown   == {<<e[1], e[2].name, e[2].inum>> : e \in {x \in printed.entries : x[2].name \in Names}}
Waiting == {y.inum : y \in Range(todo)}
CallOf  == [inum : Led, depth : Nat]

\* Whatever the names say, the kernel stays in the tree unless it strays.
Loose == ~strayed => todo \in Seq(CallOf) /\ Shown \subseteq ImageLinks

\* Of the directories ds all is printed, and where they lead is printed or waits.
Progress(ds) ==
  /\ 0 \in ds \cup Waiting /\ LedTo(ds) \subseteq ds \cup Waiting
  /\ \A l \in ImageLinks : l[1] \in ds =>
       /\ l \in Shown
       /\ l[2] \notin DNames => <<l[3], TextOf(l[3])>> \in printed.files

\* In an orderly image it does not stray, and nothing else is printed.
Tight ==
  /\ ~strayed /\ Waiting \subseteq DirsNamedD
  /\ \A l \in Shown : l[1] \in DirsNamedD
  /\ \A y \in printed.files :
       \E l \in ImageLinks : /\ l[1] \in DirsNamedD /\ l[2] \notin DNames
                             /\ y = <<l[3], TextOf(l[3])>>
  /\ \E ds : Progress(ds)

PrintInv ==
  /\ ImageInv
  /\ machine = "host" => printed = NothingPrinted /\ ~strayed
  /\ Booted => Loose
  /\ Booted /\ Orderly /\ pc \in {"printing", "halted"} => Tight

\* The calls that are left after one that prints.
LEMMA CallsLeft ==
  ASSUME NEW i, NEW odd, todo \in Seq(CallOf), todo # <<>>, i = Head(todo).inum,
         ImageInCore, Granted(i) \in Nat, Prints(i, odd),
         \A x \in Range(EntriesOf(i, odd)) : x.name \in DNames => x.inum \in Led
  PROVE  /\ todo' \in Seq(CallOf)
         /\ \A j : j \in Waiting <=> j = i \/ \E y \in Range(Tail(todo)) : j = y.inum
         /\ \A j : j \in Waiting' <=>
              \/ \E y \in Range(Tail(todo)) : j = y.inum
              \/ \E x \in Range(EntriesOf(i, odd)) : x.name \in DNames /\ j = x.inum
<1> DEFINE ents == EntriesOf(i, odd)
           subs == SubsOf(i, odd)
           new  == [k \in 1 .. Len(subs) |->
                      [inum |-> subs[k].inum, depth |-> Head(todo).depth + 1]]
<1>1. ents \in Seq(Range(ents))
  BY EntriesAre
<1>2. /\ subs \in Seq(Range(ents))
      /\ \A x : x \in Range(subs) <=> x \in Range(ents) /\ x.name \in DNames
  <2> DEFINE T == Range(ents)
  <2> HIDE DEF T, ents
  <2>1. ents \in Seq(T)
    BY <1>1 DEF T
  <2>2. /\ EntriesNamed(ents, DNames) \in Seq(T)
        /\ \A x : x \in Range(EntriesNamed(ents, DNames)) <=> x \in Range(ents) /\ x.name \in DNames
    BY <2>1, EntriesNamedAre
  <2>3. subs = EntriesNamed(ents, DNames)
    BY DEF SubsOf, Subdirs, ents
  <2> QED BY <2>2, <2>3 DEF T
<1>3. Head(todo) \in CallOf /\ Tail(todo) \in Seq(CallOf)
      /\ \A y : y \in Range(todo) <=> y = Head(todo) \/ y \in Range(Tail(todo))
  BY RangeOfTail
<1>4. Head(todo).depth + 1 \in Nat
  BY <1>3 DEF CallOf
<1> HIDE DEF ents, subs
<1>5. /\ Len(subs) \in Nat
      /\ \A x : x \in Range(subs) <=> \E k \in 1 .. Len(subs) : x = subs[k]
  BY <1>2 DEF Range
<1>6. \A k \in 1 .. Len(subs) : new[k] \in CallOf
  BY <1>2, <1>4, <1>5 DEF CallOf, ents
<1>7. new \in Seq(CallOf)
  BY <1>5, <1>6
<1>8. \A j : (\E y \in Range(new) : j = y.inum) <=> \E x \in Range(subs) : j = x.inum
  <2>1. \A y : y \in Range(new) <=>
          \E k \in 1 .. Len(subs) : y = [inum |-> subs[k].inum, depth |-> Head(todo).depth + 1]
    BY DEF Range
  <2>2. ASSUME NEW j, NEW y \in Range(new), j = y.inum PROVE \E x \in Range(subs) : j = x.inum
    BY <1>5, <2>1, <2>2
  <2>3. ASSUME NEW j, NEW x \in Range(subs), j = x.inum PROVE \E y \in Range(new) : j = y.inum
    <3>1. PICK k \in 1 .. Len(subs) : x = subs[k]
      BY <1>5
    <3> DEFINE y == [inum |-> subs[k].inum, depth |-> Head(todo).depth + 1]
    <3>2. y.inum = j /\ y \in Range(new)
      BY <2>1, <2>3, <3>1
    <3> QED BY <3>2
  <2> QED BY <2>2, <2>3
<1>9. todo' = new \o Tail(todo)
  BY DEF Prints, subs
<1> HIDE DEF new
<1>10. /\ todo' \in Seq(CallOf)
       /\ \A y : y \in Range(todo') <=> y \in Range(new) \/ y \in Range(Tail(todo))
  BY <1>3, <1>7, <1>9, RangeOfConcat
<1>11. \A j : j \in Waiting <=> j = i \/ \E y \in Range(Tail(todo)) : j = y.inum
  BY <1>3 DEF Waiting
<1>12. \A j : j \in Waiting' <=> \E y \in Range(todo') : j = y.inum
  BY DEF Waiting, Range
<1> QED BY <1>2, <1>8, <1>10, <1>11, <1>12 DEF ents

LEMMA ShownThen ==
  ASSUME NEW i, NEW odd, Prints(i, odd)
  PROVE  /\ \A l : l \in Shown' <=>
              \/ l \in Shown
              \/ \E x \in Range(EntriesOf(i, odd)) : x.name \in Names /\ l = <<i, x.name, x.inum>>
         /\ printed'.files = printed.files \cup {<<f, FileText(f)>> : f \in FilesOf(i, odd)}
<1> DEFINE new == {<<i, x>> : x \in Range(EntriesOf(i, odd))}
<1>1. /\ printed'.entries = printed.entries \cup new
      /\ printed'.files = printed.files \cup {<<f, FileText(f)>> : f \in FilesOf(i, odd)}
  BY DEF Prints
<1>2. \A l : l \in Shown <=>
        \E e \in printed.entries : e[2].name \in Names /\ l = <<e[1], e[2].name, e[2].inum>>
  BY DEF Shown
<1>3. \A l : l \in Shown' <=>
        \E e \in printed'.entries : e[2].name \in Names /\ l = <<e[1], e[2].name, e[2].inum>>
  BY DEF Shown
<1>4. \A l : (\E e \in new : e[2].name \in Names /\ l = <<e[1], e[2].name, e[2].inum>>) <=>
        \E x \in Range(EntriesOf(i, odd)) : x.name \in Names /\ l = <<i, x.name, x.inum>>
  <2>1. \A e : e \in new <=> \E x \in Range(EntriesOf(i, odd)) : e = <<i, x>>
    OBVIOUS
  <2>2. \A x : <<i, x>>[1] = i /\ <<i, x>>[2] = x
    OBVIOUS
  <2> HIDE DEF new
  <2>3. ASSUME NEW l, NEW e \in new, e[2].name \in Names, l = <<e[1], e[2].name, e[2].inum>>
        PROVE  \E x \in Range(EntriesOf(i, odd)) : x.name \in Names /\ l = <<i, x.name, x.inum>>
    <3>1. PICK x \in Range(EntriesOf(i, odd)) : e = <<i, x>>
      BY <2>1
    <3> QED BY <2>2, <2>3, <3>1
  <2>4. ASSUME NEW l, NEW x \in Range(EntriesOf(i, odd)), x.name \in Names,
               l = <<i, x.name, x.inum>>
        PROVE  \E e \in new : e[2].name \in Names /\ l = <<e[1], e[2].name, e[2].inum>>
    <3> DEFINE e == <<i, x>>
    <3>1. e \in new /\ e[1] = i /\ e[2] = x
      BY <2>1
    <3> QED BY <2>4, <3>1
  <2> QED BY <2>3, <2>4
<1> HIDE DEF new
<1>5. \A e : e \in printed'.entries <=> e \in printed.entries \/ e \in new
  BY <1>1
<1>6. \A l : l \in Shown' <=>
        \/ l \in Shown
        \/ \E e \in new : e[2].name \in Names /\ l = <<e[1], e[2].name, e[2].inum>>
  BY <1>2, <1>3, <1>5
<1> QED BY <1>1, <1>4, <1>6

\* As long as the image stays, so does what the kernel is to print of it.
LEMMA ImageSame ==
  ASSUME UNCHANGED <<disk_inode_bp, disk_inodes, blocks>>
  PROVE  /\ ImageLinks' = ImageLinks /\ DirsNamedD' = DirsNamedD
         /\ (Orderly' <=> Orderly) /\ Led' = Led
         /\ \A ds : LedTo(ds)' = LedTo(ds)
         /\ \A f : TextOf(f)' = TextOf(f)
<1>1. ImageLinks' = ImageLinks
  BY DEF ImageLinks, LinksFrom, LinksIn
<1>2. DirsNamedD' = DirsNamedD
  BY DEF DirsNamedD, LinksFrom, LinksIn
<1>3. Orderly' <=> Orderly
  BY DEF Orderly, Dense, DiskCell, DirsNamedD, LinksFrom, LinksIn
<1>4. Led' = Led
  BY <1>1 DEF Led
<1>5. \A ds : LedTo(ds)' = LedTo(ds)
  BY <1>1 DEF LedTo
<1>6. \A f : TextOf(f)' = TextOf(f)
  BY DEF TextOf
<1> QED BY <1>1, <1>2, <1>3, <1>4, <1>5, <1>6

LEMMA PrintingStays ==
  ASSUME UNCHANGED <<disk_inode_bp, disk_inodes, blocks, todo, printed>>
  PROVE  /\ Loose /\ (strayed => strayed') => Loose'
         /\ Tight /\ strayed' = strayed => Tight'
<1>1. /\ ImageLinks' = ImageLinks /\ DirsNamedD' = DirsNamedD /\ Led' = Led
      /\ \A ds : LedTo(ds)' = LedTo(ds)
      /\ \A f : TextOf(f)' = TextOf(f)
  BY ImageSame
<1>2. Shown' = Shown /\ Waiting' = Waiting
  BY DEF Shown, Waiting
<1>3. CallOf' = CallOf
  BY <1>1 DEF CallOf
<1>4. Loose /\ (strayed => strayed') => Loose'
  BY <1>1, <1>2, <1>3 DEF Loose
<1>5. \A ds : Progress(ds) => Progress(ds)'
  BY <1>1, <1>2 DEF Progress
<1>6. Tight /\ strayed' = strayed => Tight'
  BY <1>1, <1>2, <1>5 DEF Tight
<1> QED BY <1>4, <1>6

LEMMA LooseStarts ==
  ASSUME UNCHANGED <<disk_inode_bp, disk_inodes, blocks, printed, strayed>>,
         printed = NothingPrinted, ~strayed, todo' = <<[inum |-> 0, depth |-> 1]>>
  PROVE  Loose'
<1>1. Led' = Led /\ 0 \in Led
  BY ImageSame DEF Led
<1>2. Shown' = {}
  BY DEF Shown, NothingPrinted
<1>3. [inum |-> 0, depth |-> 1] \in CallOf
  BY <1>1 DEF CallOf
<1>4. todo' \in Seq(CallOf)
  BY <1>3
<1> QED BY <1>1, <1>2, <1>4 DEF Loose, CallOf

LEMMA RootNamedD == (GoodImage /\ ImageInCore => 0 \in DirsNamedD)'
<1>1. GoodImage /\ ImageInCore => 0 \in DirsNamedD
  BY DirsNamedDAre
<1> QED BY <1>1, PTL

LEMMA TightStarts ==
  ASSUME GoodImage', ImageInCore',
         UNCHANGED <<disk_inode_bp, disk_inodes, blocks, printed, strayed>>,
         printed = NothingPrinted, ~strayed, todo' = <<[inum |-> 0, depth |-> 1]>>
  PROVE  Tight'
<1>1. DirsNamedD' = DirsNamedD /\ \A ds : LedTo(ds)' = LedTo(ds)
  BY ImageSame
<1>2. Shown' = {} /\ printed'.files = {}
  BY DEF Shown, NothingPrinted
<1>3. Waiting' = {0}
  <2> DEFINE call == [inum |-> 0, depth |-> 1]
  <2>1. Range(<<call>>) = {call}
    BY DEF Range
  <2>2. todo' = <<call>> /\ call.inum = 0
    OBVIOUS
  <2> HIDE DEF call
  <2>3. Range(todo') = {call}
    BY <2>1, <2>2
  <2>4. Waiting' = {y.inum : y \in Range(todo')}
    BY DEF Waiting, Range
  <2> QED BY <2>2, <2>3, <2>4
<1>4. 0 \in DirsNamedD
  BY <1>1, RootNamedD
<1>5. LedTo({}) = {}
  BY DEF LedTo
<1>6. Progress({})'
  BY <1>1, <1>3, <1>5 DEF Progress
<1> QED BY <1>1, <1>2, <1>3, <1>4, <1>6 DEF Tight

LEMMA LooseStays ==
  ASSUME GoodImage, ImageInCore, AppendOnly, Loose, PrintDirectory
  PROVE  Loose'
<1>1. PICK odd \in Misreads :
        LET i == Head(todo).inum IN
        /\ strayed' <=> \/ strayed \/ ~Straight(i, odd)
                        \/ \E f \in FilesOf(i, odd) :
                             \E k \in 0 .. CellsPrinted(f) - 1 : PtrTo(f, k) = NoBlock
        /\ \/ pc' \in {"overflow", "panic"} /\ UNCHANGED <<todo, printed>>
           \/ pc' = pc /\ Prints(i, odd)
  BY PrintDirectoryDoes
<1>2. UNCHANGED <<disk_inode_bp, disk_inodes, blocks>> /\ todo # <<>>
  BY DEF PrintDirectory, image
<1>3. SUFFICES ASSUME ~strayed' PROVE Loose'
  BY DEF Loose
<1> DEFINE i == Head(todo).inum
<1>4. ~strayed /\ Straight(i, odd) /\ todo \in Seq(CallOf) /\ Shown \subseteq ImageLinks
  BY <1>1, <1>3 DEF Loose
<1>5. CASE UNCHANGED <<todo, printed>>
  BY <1>2, <1>4, <1>5, PrintingStays
<1>6. CASE Prints(i, odd)
  <2>1. i \in Led
    <3>1. Head(todo) \in CallOf
      BY <1>2, <1>4, RangeOfTail
    <3> QED BY <3>1 DEF CallOf
  <2> HIDE DEF i
  <2>2. /\ Granted(i) \in Nat
        /\ \A x \in Range(EntriesOf(i, odd)) :
             x.name \in Names => <<i, x.name, x.inum>> \in ImageLinks
    BY <1>4, <2>1, EntriesAreLinks
  <2>3. \A x \in Range(EntriesOf(i, odd)) : x.name \in DNames => x.inum \in Led
    <3>1. SUFFICES ASSUME NEW x \in Range(EntriesOf(i, odd)), x.name \in DNames
                   PROVE  x.inum \in Led
      OBVIOUS
    <3> DEFINE l == <<i, x.name, x.inum>>
    <3>2. l \in ImageLinks /\ l[3] = x.inum
      BY <2>2, <3>1, KernelAssumption
    <3> QED BY <3>2 DEF Led
  <2>4. todo' \in Seq(CallOf)
    BY <1>2, <1>4, <1>6, <2>2, <2>3, CallsLeft DEF i
  <2>5. Shown' \subseteq ImageLinks
    BY <1>4, <1>6, <2>2, ShownThen
  <2>6. ImageLinks' = ImageLinks /\ Led' = Led
    BY <1>2, ImageSame
  <2>7. CallOf' = CallOf
    BY <2>6 DEF CallOf
  <2> QED BY <2>4, <2>5, <2>6, <2>7 DEF Loose
<1> QED BY <1>1, <1>5, <1>6

\* One call in an orderly image: the directory is done, where it leads waits.
LEMMA TightStays ==
  ASSUME GoodImage, ImageInCore, AppendOnly, Orderly, Loose, Tight, PrintDirectory,
         pc' \in {"printing", "halted"}
  PROVE  Tight'
<1>1. PICK odd \in Misreads :
        LET i == Head(todo).inum IN
        /\ strayed' <=> \/ strayed \/ ~Straight(i, odd)
                        \/ \E f \in FilesOf(i, odd) :
                             \E k \in 0 .. CellsPrinted(f) - 1 : PtrTo(f, k) = NoBlock
        /\ \/ pc' \in {"overflow", "panic"} /\ UNCHANGED <<todo, printed>>
           \/ pc' = pc /\ Prints(i, odd)
  BY PrintDirectoryDoes
<1> DEFINE i    == Head(todo).inum
           ents == EntriesOf(i, odd)
<1>2. /\ UNCHANGED <<disk_inode_bp, disk_inodes, blocks>>
      /\ todo # <<>> /\ todo \in Seq(CallOf) /\ Shown \subseteq ImageLinks
  BY DEF PrintDirectory, image, Loose, Tight
<1>3. i \in Led /\ i \in DirsNamedD
  <2>1. Head(todo) \in CallOf /\ Head(todo) \in Range(todo)
    BY <1>2, RangeOfTail
  <2> QED BY <2>1 DEF CallOf, Waiting, Tight
<1>4. Prints(i, odd)
  BY <1>1
<1>5. strayed' <=> \/ strayed \/ ~Straight(i, odd)
                   \/ \E f \in FilesOf(i, odd) :
                        \E k \in 0 .. CellsPrinted(f) - 1 : PtrTo(f, k) = NoBlock
  BY <1>1
<1>6. i = Head(todo).inum
  OBVIOUS
<1> HIDE DEF i
<1>7. disk_inodes[i].type = UFS_DIRECTORY
  BY <1>3 DEF Orderly
\* All its entries are read, and their inodes are what their names say.
<1>8. /\ Straight(i, odd) /\ Granted(i) \in Nat
      /\ \A x \in Range(ents) : x.name \in Names \cup {Dot, DotDot}
      /\ \A x \in Range(ents) : x.name \in Names => <<i, x.name, x.inum>> \in ImageLinks
      /\ \A l \in LinksIn(disk_inodes, i) :
           \E x \in Range(ents) : x.name \in Names /\ l = <<i, x.name, x.inum>>
  BY <1>3, <1>4, <1>7, EntriesAreAll, EntriesAreLinks DEF Prints
<1> HIDE DEF ents
<1>9. ASSUME NEW l \in ImageLinks, l[1] = i, l[2] \notin DNames
      PROVE  /\ l[3] \in Led /\ FileText(l[3]) = TextOf(l[3])
             /\ \A k \in 0 .. CellsPrinted(l[3]) - 1 : PtrTo(l[3], k) # NoBlock
  <2>1. l[3] \in Led
    BY DEF Led
  <2>2. disk_inodes[l[3]].type = UFS_REGULAR_FILE
    BY <1>3, <1>9 DEF Orderly, ImageLinks
  <2> QED BY <2>1, <2>2, FileSeen
<1>10. \A f : f \in FilesOf(i, odd) <=>
         \E x \in Range(ents) : x.name \in Names /\ x.name \notin DNames /\ f = x.inum
  <2>1. Dot \notin Names /\ DotDot \notin Names
    BY ClientAssumption
  <2>2. \A f : f \in FilesOf(i, odd) <=>
          \E x \in Range(ents) : x.name \notin DNames \cup {Dot, DotDot} /\ f = x.inum
    BY DEF FilesOf, PlainFiles, ents
  <2> QED BY <1>8, <2>1, <2>2
<1>11. \A f \in FilesOf(i, odd) :
         \E l \in ImageLinks : l[1] = i /\ l[2] \notin DNames /\ l[3] = f
  <2>1. SUFFICES ASSUME NEW f \in FilesOf(i, odd)
                 PROVE  \E l \in ImageLinks : l[1] = i /\ l[2] \notin DNames /\ l[3] = f
    OBVIOUS
  <2>2. PICK x \in Range(ents) : x.name \in Names /\ x.name \notin DNames /\ f = x.inum
    BY <1>10
  <2> DEFINE l == <<i, x.name, x.inum>>
  <2>3. l \in ImageLinks /\ l[1] = i /\ l[2] \notin DNames /\ l[3] = f
    BY <1>8, <2>2
  <2> QED BY <2>3
<1>12. ~strayed'
  <2>1. \A f \in FilesOf(i, odd) : \A k \in 0 .. CellsPrinted(f) - 1 : PtrTo(f, k) # NoBlock
    BY <1>9, <1>11
  <2> QED BY <1>5, <1>8, <2>1 DEF Tight
<1>13. \A x \in Range(ents) : x.name \in DNames => x.inum \in LedTo({i}) /\ x.inum \in Led
  <2>1. SUFFICES ASSUME NEW x \in Range(ents), x.name \in DNames
                 PROVE  x.inum \in LedTo({i}) /\ x.inum \in Led
    OBVIOUS
  <2> DEFINE l == <<i, x.name, x.inum>>
  <2>2. l \in ImageLinks /\ l[1] = i /\ l[2] \in DNames /\ l[3] = x.inum
    BY <1>8, <2>1, KernelAssumption
  <2> QED BY <2>2 DEF LedTo, Led
<1>14. /\ \A j : j \in Waiting <=> j = i \/ \E y \in Range(Tail(todo)) : j = y.inum
       /\ \A j : j \in Waiting' <=>
            \/ \E y \in Range(Tail(todo)) : j = y.inum
            \/ \E x \in Range(ents) : x.name \in DNames /\ j = x.inum
  BY <1>2, <1>4, <1>6, <1>8, <1>13, CallsLeft DEF ents
<1>15. /\ \A l : l \in Shown' <=>
             \/ l \in Shown
             \/ \E x \in Range(ents) : x.name \in Names /\ l = <<i, x.name, x.inum>>
       /\ printed'.files = printed.files \cup {<<f, FileText(f)>> : f \in FilesOf(i, odd)}
  BY <1>4, ShownThen DEF ents
<1>16. /\ ImageLinks' = ImageLinks /\ DirsNamedD' = DirsNamedD
       /\ \A ds : LedTo(ds)' = LedTo(ds)
       /\ \A f : TextOf(f)' = TextOf(f)
  BY <1>2, ImageSame
<1>17. Waiting' \subseteq DirsNamedD
  <2>1. LedTo({i}) \subseteq DirsNamedD
    BY <1>3, DirsNamedDAre DEF LedTo
  <2> QED BY <1>13, <1>14, <2>1 DEF Tight
<1>18. \A l \in Shown' : l[1] \in DirsNamedD
  BY <1>3, <1>15 DEF Tight
<1>19. \A y \in printed'.files :
         \E l \in ImageLinks : /\ l[1] \in DirsNamedD /\ l[2] \notin DNames
                               /\ y = <<l[3], TextOf(l[3])>>
  <2>1. SUFFICES ASSUME NEW f \in FilesOf(i, odd)
                 PROVE  \E l \in ImageLinks : /\ l[1] \in DirsNamedD /\ l[2] \notin DNames
                                              /\ <<f, FileText(f)>> = <<l[3], TextOf(l[3])>>
    BY <1>15 DEF Tight
  <2>2. PICK l \in ImageLinks : l[1] = i /\ l[2] \notin DNames /\ l[3] = f
    BY <1>11
  <2> QED BY <1>3, <1>9, <2>2
<1>20. PICK ds : Progress(ds)
  BY DEF Tight
<1> DEFINE es == ds \cup {i}
<1>21. es \cup Waiting' = (ds \cup Waiting) \cup Waiting'
  BY <1>14
<1>22. LedTo({i}) \subseteq Waiting'
  <2>1. SUFFICES ASSUME NEW l \in ImageLinks, l[1] = i, l[2] \in DNames
                 PROVE  l[3] \in Waiting'
    BY DEF LedTo
  <2>2. l \in LinksIn(disk_inodes, i)
    BY <2>1, ImageLinkIs
  <2>3. PICK x \in Range(ents) : l = <<i, x.name, x.inum>>
    BY <1>8, <2>2
  <2> QED BY <1>14, <2>1, <2>3
<1>23. LedTo(es) = LedTo(ds) \cup LedTo({i})
  BY DEF LedTo
<1>24. ASSUME NEW l \in ImageLinks, l[1] \in es
       PROVE  l \in Shown' /\ (l[2] \notin DNames => <<l[3], TextOf(l[3])>> \in printed'.files)
  <2>1. CASE l[1] \in ds
    BY <1>15, <1>20, <2>1 DEF Progress
  <2>2. CASE l[1] = i
    <3>1. l \in LinksIn(disk_inodes, i)
      BY <2>2, ImageLinkIs
    <3>2. PICK x \in Range(ents) : x.name \in Names /\ l = <<i, x.name, x.inum>>
      BY <1>8, <3>1
    <3>3. l \in Shown'
      BY <1>15, <3>2
    <3>4. ASSUME l[2] \notin DNames PROVE <<l[3], TextOf(l[3])>> \in printed'.files
      <4>1. l[3] \in FilesOf(i, odd)
        BY <1>10, <3>2, <3>4
      <4>2. FileText(l[3]) = TextOf(l[3])
        BY <1>9, <2>2, <3>4
      <4> QED BY <1>15, <4>1, <4>2
    <3> QED BY <3>3, <3>4
  <2> QED BY <1>24, <2>1, <2>2
<1>25. 0 \in es \cup Waiting' /\ LedTo(es) \subseteq es \cup Waiting'
  BY <1>20, <1>21, <1>22, <1>23 DEF Progress
<1> HIDE DEF es
<1>26. PICK fs : fs = es
  OBVIOUS
<1>27. Progress(fs)'
  BY <1>16, <1>24, <1>25, <1>26 DEF Progress
<1> QED BY <1>12, <1>16, <1>17, <1>18, <1>19, <1>27 DEF Tight

-----------------------------------------------------------------------------

LEMMA PrintInit == KInit => PrintInv
BY ImageInit DEF KInit, PrintInv, Booted

LEMMA PrintStep ==
  ASSUME "unlink" \notin Ops, CrashPoints # "any", AppendOnly, PrintInv, [KNext]_kvars
  PROVE  PrintInv'
<1>0. ImageInv /\ ImageInv'
  BY ImageStep DEF PrintInv
<1>1. CASE UNCHANGED kvars
  <2>1. UNCHANGED <<disk_inode_bp, disk_inodes, blocks, todo, printed, strayed, machine, pc>>
    BY <1>1 DEF kvars, vars, image, kernel
  <2>2. (Loose => Loose') /\ (Tight => Tight') /\ (Orderly' <=> Orderly)
    BY <2>1, PrintingStays, ImageSame
  <2> QED BY <1>0, <2>1, <2>2 DEF PrintInv, Booted
<1>2. CASE HostGrows \/ HostUnlinks \/ HostHandles \/ HostRestart
  BY <1>0, <1>2 DEF PrintInv, Booted, HostGrows, HostUnlinks, HostHandles, HostRestart, kernel
<1>3. CASE Boot
  <2>1. /\ machine = "host" /\ machine' = "kernel"
        /\ UNCHANGED <<disk_inode_bp, disk_inodes, blocks, printed, strayed>>
        /\ todo' = <<[inum |-> 0, depth |-> 1]>>
        /\ inode_bp' = disk_inode_bp' /\ inodes' = disk_inodes'
    BY <1>3 DEF Boot, image
  <2>2. printed = NothingPrinted /\ ~strayed
    BY <2>1 DEF PrintInv
  <2>3. Loose'
    BY <2>1, <2>2, LooseStarts
  <2>4. Tight'
    BY <1>0, <2>1, <2>2, TightStarts DEF ImageInv, KernelInv, Booted
  <2> QED BY <1>0, <2>1, <2>3, <2>4 DEF PrintInv
<1>4. CASE PrintDirectory
  <2>1. /\ machine' = machine /\ Booted /\ pc = "printing"
        /\ UNCHANGED <<disk_inode_bp, disk_inodes, blocks>>
    BY <1>0, <1>4 DEF PrintDirectory, image, ImageInv, KernelInv, TypeOK, Dead, Booted
  <2>2. GoodImage /\ ImageInCore /\ Loose
    BY <1>0, <2>1 DEF ImageInv, KernelInv, PrintInv
  <2>3. Loose'
    BY <1>4, <2>2, LooseStays
  <2>4. Orderly' /\ pc' \in {"printing", "halted"} => Tight'
    BY <1>4, <2>1, <2>2, ImageSame, TightStays DEF PrintInv
  <2> QED BY <1>0, <2>1, <2>3, <2>4 DEF PrintInv, Booted
<1>5. CASE PrintDone \/ KernelCall
  <2>1. /\ machine = "kernel" /\ pc \in {"printing", "halted"}
        /\ UNCHANGED <<disk_inode_bp, disk_inodes, blocks, todo, printed, strayed, machine>>
    <3>1. CASE PrintDone
      BY <1>0, <3>1 DEF PrintDone, image, kernel, ImageInv, KernelInv, TypeOK, Dead
    <3>2. CASE KernelCall
      <4>1. machine = "kernel" /\ ImageInCore
        BY <1>0, <3>2 DEF KernelCall, MayCall, ImageInv, KernelInv, TypeOK, Dead, Booted
      <4> QED BY <3>2, <4>1, KernelCallDoes DEF image, kernel
    <3> QED BY <1>5, <3>1, <3>2
  <2>2. (Loose => Loose') /\ (Tight => Tight') /\ (Orderly' <=> Orderly)
    BY <2>1, PrintingStays, ImageSame
  <2> QED BY <1>0, <2>1, <2>2 DEF PrintInv, Booted
<1> QED BY <1>1, <1>2, <1>3, <1>4, <1>5 DEF KNext, Printing

LEMMA AlwaysPrint ==
  ASSUME "unlink" \notin Ops, CrashPoints # "any", AppendOnly
  PROVE  KSpec => []PrintInv
<1>1. PrintInv /\ [KNext]_kvars => PrintInv'
  BY PrintStep
<1> QED BY <1>1, PrintInit, PTL DEF KSpec

\* Nothing waits when the kernel halts: all the directories it is led to are
\* printed, for those that are hold the root and where they lead.
LEMMA AllPrinted ==
  ASSUME GoodImage, ImageInCore, Loose, Tight, todo = <<>>
  PROVE  /\ Shown = {l \in ImageLinks : l[1] \in DirsNamedD}
         /\ printed.files = {<<l[3], TextOf(l[3])>> :
                               l \in {m \in ImageLinks : m[1] \in DirsNamedD /\ m[2] \notin DNames}}
<1>1. Waiting = {}
  BY DEF Waiting, Range
<1>2. PICK ds : Progress(ds)
  BY DEF Tight
<1>3. DirsNamedD \subseteq ds
  BY <1>1, <1>2, DirsNamedDAre DEF Progress
<1>4. Shown = {l \in ImageLinks : l[1] \in DirsNamedD}
  BY <1>2, <1>3 DEF Progress, Loose, Tight
<1>5. \A y \in printed.files :
        \E l \in ImageLinks : /\ l[1] \in DirsNamedD /\ l[2] \notin DNames
                              /\ y = <<l[3], TextOf(l[3])>>
  BY DEF Tight
<1>6. \A l \in ImageLinks : l[1] \in DirsNamedD /\ l[2] \notin DNames =>
        <<l[3], TextOf(l[3])>> \in printed.files
  BY <1>2, <1>3 DEF Progress
<1> QED BY <1>4, <1>5, <1>6

\* On every image that creat and appending write made, with crashes between
\* calls, the kernel shows at most what is there unless it strays; and when
\* names tell directories from files, all there is, and every file's bytes.
THEOREM TreeIsPrinted ==
  ASSUME "unlink" \notin Ops, CrashPoints # "any", AppendOnly
  PROVE  KSpec => []PrintedIsTree
<1>1. ASSUME PrintInv PROVE PrintedIsTree
  <2> DEFINE files == {l[3] : l \in {m \in ImageLinks : m[1] \in DirsNamedD /\ m[2] \notin DNames}}
  <2>1. ~strayed => Shown \subseteq ImageLinks
    <3>1. CASE Booted
      BY <1>1, <3>1 DEF PrintInv, Loose
    <3>2. CASE ~Booted
      BY <1>1, <3>2 DEF PrintInv, Booted, ImageInv, KernelInv, Shown, NothingPrinted
    <3> QED BY <3>1, <3>2
  <2>2. ASSUME Orderly, Booted, pc = "halted"
        PROVE  /\ ~strayed /\ Shown = {l \in ImageLinks : l[1] \in DirsNamedD}
               /\ printed.files = {<<f, TextOf(f)>> : f \in files}
    <3>1. GoodImage /\ ImageInCore /\ todo = <<>> /\ Loose /\ Tight
      BY <1>1, <2>2 DEF PrintInv, ImageInv, KernelInv
    <3>2. printed.files = {<<l[3], TextOf(l[3])>> :
                             l \in {m \in ImageLinks : m[1] \in DirsNamedD /\ m[2] \notin DNames}}
      BY <3>1, AllPrinted
    <3>3. printed.files = {<<f, TextOf(f)>> : f \in files}
      BY <3>2
    <3> QED BY <3>1, <3>3, AllPrinted DEF Tight
  <2> QED BY <2>1, <2>2 DEF PrintedIsTree, Shown, ImageLinks, TextOf
<1>2. PrintInv => PrintedIsTree
  BY <1>1
<1> QED BY <1>2, AlwaysPrint, PTL
=============================================================================
