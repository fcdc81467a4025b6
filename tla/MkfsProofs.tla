----------------------------- MODULE MkfsProofs -----------------------------
(* Proofs about Mkfs, for every size of block, bitmap word and int, and for  *)
(* every argument mkfs is run with; and about the file system from mkfs on.  *)
EXTENDS Mkfs, UfsDataProofs

(***************************************************************************)
(* The layout.                                                             *)
(***************************************************************************)

\* As many blocks as BlocksFor counts hold n things, and it counts no block
\* when there are none.
LEMMA BlocksSuffice ==
  ASSUME NEW n \in Nat, NEW per \in Nat \ {0}
  PROVE  /\ BlocksFor(n, per) \in Nat
         /\ n <= BlocksFor(n, per) * per
<1> DEFINE q == n \div per
           r == n % per
<1>1. q \in Nat /\ r \in 0 .. per - 1
  OBVIOUS
<1>2. n = per * q + r
  OBVIOUS
<1>3. BlocksFor(n, per) = q + (IF r = 0 THEN 0 ELSE 1)
  BY DEF BlocksFor
<1> HIDE DEF q, r
<1>4. (q + 1) * per = per * q + per /\ (q + 0) * per = per * q
  BY <1>1
<1> QED BY <1>1, <1>2, <1>3, <1>4

\* Below half the range of an int the bytes of an inode table do not overflow.
LEMMA BytesFit ==
  ASSUME NEW n \in Nat, n <= (IntBlocks - 1) * InodesPerBlock
  PROVE  InodeBytes(n) = n
<1> DEFINE half == IntBlocks * InodesPerBlock
<1>1. IntBlocks \in Nat \ {0} /\ InodesPerBlock \in Nat \ {0}
  BY MkfsAssumption
<1>2. (IntBlocks - 1) * InodesPerBlock = IntBlocks * InodesPerBlock - InodesPerBlock
  BY <1>1
<1>3. half \in Nat /\ n < half
  BY <1>1, <1>2
<1>4. InodeBytes(n) = ((n + half) % (2 * half)) - half
  BY DEF InodeBytes
<1> HIDE DEF half
<1>5. (n + half) % (2 * half) = n + half
  <2>1. n + half \in 0 .. 2 * half - 1 /\ 2 * half \in Nat \ {0}
    BY <1>3
  <2> QED BY <2>1
<1> QED BY <1>3, <1>4, <1>5

(***************************************************************************)
(* The file mkfs writes.                                                   *)
(***************************************************************************)

\* What mkfs knows: the layout is that of its arguments, and once the loop that
\* writes zeroes is through, the file has every block of it.
MkfsInv ==
  /\ \E ni, nd \in Nat : super = Layout(ni, nd)
  /\ length \in Nat /\ (mk = "super" => length = 0)
  /\ mk \in {"inode bitmap", "data bitmap", "inode table", "root", "done"} =>
       length >= total_blocks
  /\ mk \in Steps \cup {"none", "done", "failed"}

LEMMA LayoutTyped ==
  ASSUME NEW ni \in Nat, NEW nd \in Nat
  PROVE  /\ Layout(ni, nd).data_region_addr \in Int /\ Layout(ni, nd).num_data = nd
         /\ Layout(ni, nd).data_bitmap_addr \in Nat /\ Layout(ni, nd).inode_region_addr \in Nat
<1> DEFINE half == IntBlocks * InodesPerBlock
<1>1. InodeBytes(ni) \in Int
  <2>1. half \in Nat \ {0}
    BY MkfsAssumption
  <2> HIDE DEF half
  <2>2. (ni + half) % (2 * half) \in Int
    BY <2>1
  <2> QED BY <2>1, <2>2 DEF InodeBytes, half
<1>2. BlocksFor(ni, BitsPerBlock) \in Nat /\ BlocksFor(nd, BitsPerBlock) \in Nat
  BY MkfsAssumption, BlocksSuffice
<1>3. BlocksFor(InodeBytes(ni), InodesPerBlock) \in Int
  <2> DEFINE b == InodeBytes(ni)
  <2>1. InodesPerBlock \in Nat \ {0} /\ b \in Int
    BY <1>1, MkfsAssumption
  <2> HIDE DEF b
  <2>2. b \div InodesPerBlock \in Int /\ (-b) \div InodesPerBlock \in Int
    BY <2>1
  <2> QED BY <2>2 DEF BlocksFor, b
<1> QED BY <1>2, <1>3 DEF Layout

LEMMA MaxOfTwo ==
  ASSUME NEW a \in Int, NEW b \in Int
  PROVE  Max({a, b}) = IF a >= b THEN a ELSE b
BY DEF Max

LEMMA MkfsInit == MInit => MkfsInv
BY DEF MInit, MkfsInv, Steps

\* A write leaves the file no shorter, and long enough when the loop ends.
LEMMA WritesKeep ==
  ASSUME MkfsInv, NEW step \in Steps, Writes(step)
  PROVE  MkfsInv'
<1> DEFINE t == Target(step)
<1>1. PICK ni \in Nat, nd \in Nat : super = Layout(ni, nd)
  BY DEF MkfsInv
<1>2. super' = super /\ total_blocks' = total_blocks /\ total_blocks \in Int
  BY <1>1, LayoutTyped DEF Writes, total_blocks
<1>3. length \in Nat /\ t \in Int /\ t >= 0
  <2>1. super.inode_bitmap_addr = 1
    BY <1>1 DEF Layout
  <2>2. /\ super.inode_bitmap_addr \in Int /\ super.data_bitmap_addr \in Int
        /\ super.inode_region_addr \in Int /\ super.data_region_addr \in Int
        /\ length \in Int
    <3>1. super.data_bitmap_addr \in Nat /\ super.inode_region_addr \in Nat
      BY <1>1, LayoutTyped
    <3>2. super.data_region_addr \in Int
      BY <1>1, LayoutTyped
    <3>3. length \in Nat
      BY DEF MkfsInv
    <3> QED BY <2>1, <3>1, <3>2, <3>3
  <2>3. t \in Int
    <3>1. CASE step \in {"super", "zero"}
      <4>1. Target(step) = 0 \/ Target(step) = length
        BY <3>1 DEF Target
      <4> QED BY <2>2, <4>1
    <3>2. CASE step \in {"inode bitmap", "data bitmap"}
      BY <2>2, <3>2 DEF Target
    <3>3. CASE step = "inode table"
      BY <2>2, <3>3 DEF Target
    <3>4. CASE step = "root"
      BY <2>2, <3>4 DEF Target
    <3> QED BY <3>1, <3>2, <3>3, <3>4 DEF Steps
  <2> QED BY <2>3 DEF MkfsInv, Writes
<1>4. length' \in Nat /\ length' >= length /\ length' >= t + 1
  <2>1. length' = Max({length, t + 1})
    BY DEF Writes
  <2> HIDE DEF t
  <2>2. length' = IF length >= t + 1 THEN length ELSE t + 1
    BY <1>3, <2>1, MaxOfTwo
  <2> QED BY <1>3, <2>2
<1>5. mk = step /\ mk' = After(step)
  BY DEF Writes
<1>6. CASE step \in {"super", "zero"}
  <2>1. t = length
    BY <1>5, <1>6 DEF MkfsInv, Target
  <2>2. CASE length + 1 < total_blocks
    <3>1. mk' = "zero"
      BY <1>5, <1>6, <2>2 DEF After, ZeroOr
    <3> QED BY <1>1, <1>2, <1>4, <3>1 DEF MkfsInv, Steps
  <2>3. CASE ~(length + 1 < total_blocks)
    <3>1. mk' = "inode bitmap"
      BY <1>5, <1>6, <2>3 DEF After, ZeroOr
    <3> HIDE DEF t
    <3>2. length' >= total_blocks
      BY <1>2, <1>3, <1>4, <2>1, <2>3
    <3>3. length' >= total_blocks'
      BY <1>2, <3>2
    <3> QED BY <1>1, <1>2, <1>4, <3>1, <3>3 DEF MkfsInv, Steps
  <2> QED BY <2>2, <2>3
<1>7. CASE step \notin {"super", "zero"}
  <2>1. mk' \in {"data bitmap", "inode table", "root", "done"}
    BY <1>5, <1>7 DEF After, Steps
  <2>2. length >= total_blocks
    BY <1>5, <1>7 DEF MkfsInv, Steps
  <2>3. length' >= total_blocks
    BY <1>2, <1>3, <1>4, <2>2
  <2>4. length' >= total_blocks'
    BY <1>2, <2>3
  <2> QED BY <1>1, <1>2, <1>4, <2>1, <2>4 DEF MkfsInv, Steps
<1> QED BY <1>6, <1>7

LEMMA MkfsStep == MkfsInv /\ [MNext]_mvars => MkfsInv'
<1> SUFFICES ASSUME MkfsInv, [MNext]_mvars PROVE MkfsInv'
  OBVIOUS
<1>1. CASE UNCHANGED making
  BY <1>1 DEF making, MkfsInv, total_blocks
<1>2. ASSUME NEW ni \in InodeArgs, NEW nd \in DataArgs, Start(ni, nd) PROVE MkfsInv'
  <2>1. ni \in Nat /\ nd \in Nat
    BY MkfsAssumption
  <2>2. /\ super' = Layout(ni, nd) /\ length' = 0 /\ mk' \in {"failed", "super"}
    BY <1>2 DEF Start
  <2> QED BY <2>1, <2>2 DEF MkfsInv, Steps
<1>3. CASE WriteSuper \/ ZeroBlock \/ WriteInodeBitmap \/ WriteDataBitmap \/ WriteTable \/ WriteRoot
  <2>1. \E step \in Steps : Writes(step)
    BY <1>3 DEF WriteSuper, ZeroBlock, WriteInodeBitmap, WriteDataBitmap, WriteTable,
                WriteRoot, Steps
  <2> QED BY <2>1, WritesKeep
<1>4. CASE MkfsEnds
  BY <1>4 DEF MkfsEnds, MkfsInv, total_blocks
<1>5. CASE Mount
  BY <1>1, <1>5 DEF Mount, MkfsInv, total_blocks
<1> QED BY <1>1, <1>2, <1>3, <1>4, <1>5 DEF MNext, Make, Run, mvars, making

\* Whatever arguments mkfs was run with, an image that ufs_init accepts has
\* regions that hold what the superblock counts and do not overlap, and a
\* finished one all of its data blocks.
THEOREM AcceptedIsSound == MSpec => []LayoutSound
<1>1. MkfsInv => LayoutSound
  <2> SUFFICES ASSUME MkfsInv, Accepted
               PROVE  /\ super.num_inodes <=
                           (super.data_bitmap_addr - super.inode_bitmap_addr) * BitsPerBlock
                      /\ super.num_data <=
                           (super.inode_region_addr - super.data_bitmap_addr) * BitsPerBlock
                      /\ super.num_inodes <=
                           (super.data_region_addr - super.inode_region_addr) * InodesPerBlock
                      /\ mk = "done" => length >= super.data_region_addr + super.num_data
    BY DEF LayoutSound
  <2>1. PICK ni \in Nat, nd \in Nat : super = Layout(ni, nd)
    BY DEF MkfsInv
  <2>2. ni <= (IntBlocks - 1) * InodesPerBlock
    BY <2>1 DEF Accepted, Layout
  <2> DEFINE ib == BlocksFor(ni, BitsPerBlock)
             db == BlocksFor(nd, BitsPerBlock)
             it == BlocksFor(ni, InodesPerBlock)
  <2>3. /\ ib \in Nat /\ ni <= ib * BitsPerBlock
        /\ db \in Nat /\ nd <= db * BitsPerBlock
        /\ it \in Nat /\ ni <= it * InodesPerBlock
    BY MkfsAssumption, BlocksSuffice
  <2>4. /\ super.num_inodes = ni /\ super.num_data = nd
        /\ super.inode_bitmap_addr = 1 /\ super.data_bitmap_addr = 1 + ib
        /\ super.inode_region_addr = 1 + ib + db
        /\ super.data_region_addr = 1 + ib + db + it
    BY <2>1, <2>2, BytesFit DEF Layout
  <2>5. mk = "done" => length >= super.data_region_addr + super.num_data
    BY DEF MkfsInv, total_blocks
  <2> HIDE DEF ib, db, it
  <2>6. /\ super.data_bitmap_addr - super.inode_bitmap_addr = ib
        /\ super.inode_region_addr - super.data_bitmap_addr = db
        /\ super.data_region_addr - super.inode_region_addr = it
    BY <2>3, <2>4
  <2> QED BY <2>3, <2>4, <2>5, <2>6
<1> QED BY <1>1, MkfsInit, MkfsStep, PTL DEF MSpec

-----------------------------------------------------------------------------
(* From mkfs to the clients.                                               *)

\* Until the image is mounted nothing runs, and it holds what mkfs wrote so far;
\* a mkfs that failed with a part of the image written has torn it.
BeforeMount ==
  /\ pc = "idle" /\ last.op = "none" /\ leaked = {}
  /\ mk # "done" => durable = {} /\ blocks = BlankData
  /\ mk = "failed" => torn \/ length = 0
  /\ disk_inode_bp \in {{}, {0}}
  /\ mk \in {"data bitmap", "inode table", "root", "done"} => disk_inode_bp = {0}
  /\ mk \in {"inode table", "root", "done"} => disk_data_bp = {0}
  /\ mk \in {"root", "done"} => disk_inodes[0] = RootInode
  /\ mk = "done" => Formatted

FormatInv ==
  /\ MkfsInv /\ TypeOK
  /\ ~mounted => BeforeMount
  /\ mounted => mk \in {"done", "failed"}

LEMMA BlankTyped ==
  /\ BlankTable \in [Inodes -> Inode] /\ BlankData \in [BlockAddrs -> [Cells -> Cell]]
<1>1. BlankInode \in Inode
  BY DEF BlankInode, Inode, BlockAddrs
<1> QED BY <1>1, CellsTyped DEF BlankTable, BlankData

LEMMA FormatInit == MInit => FormatInv
<1> SUFFICES ASSUME MInit PROVE FormatInv
  OBVIOUS
<1>1. TypeOK
  <2>1. torn \in BOOLEAN
    BY Zenon DEF MInit
  <2> QED BY <2>1, BlankTyped, Addresses DEF MInit, TypeOK
<1> QED BY <1>1, MkfsInit DEF FormatInv, BeforeMount, MInit

\* mkfs's own steps.
LEMMA MakeStep ==
  ASSUME FormatInv, Make
  PROVE  /\ TypeOK' /\ (mounted' = mounted)
         /\ (~mounted => BeforeMount') /\ (mounted => FALSE)
<1>1. TypeOK /\ MkfsInv
  BY DEF FormatInv
<1>2. ASSUME NEW ni \in InodeArgs, NEW nd \in DataArgs, Start(ni, nd)
      PROVE  /\ TypeOK' /\ (mounted' = mounted)
             /\ (~mounted => BeforeMount') /\ (mounted => FALSE)
  <2>1. torn' \in BOOLEAN /\ mk' \in {"failed", "super"} /\ length' = 0
    BY <1>2, Zenon DEF Start
  <2>2. TypeOK'
    BY <1>1, <1>2, <2>1, BlankTyped DEF Start, TypeOK, core
  <2>3. BeforeMount'
    BY <1>2, <2>1 DEF FormatInv, BeforeMount, Start
  <2> QED BY <1>2, <2>2, <2>3 DEF Start
<1>3. ASSUME mk \in Steps, ~mounted, BeforeMount, mounted' = mounted, TypeOK', BeforeMount'
      PROVE  /\ TypeOK' /\ (mounted' = mounted)
             /\ (~mounted => BeforeMount') /\ (mounted => FALSE)
  BY <1>3
<1>4. mk \in Steps => ~mounted /\ BeforeMount
  BY DEF FormatInv, Steps
<1>5. CASE WriteSuper \/ ZeroBlock
  <2>1. /\ mk \in {"super", "zero"} /\ mk' \in {"zero", "inode bitmap"}
        /\ UNCHANGED vars /\ mounted' = mounted
    BY <1>5 DEF WriteSuper, ZeroBlock, Writes, After, ZeroOr
  <2>2. TypeOK'
    BY <1>1, <2>1 DEF TypeOK, vars
  <2>3. BeforeMount'
    BY <1>4, <2>1 DEF BeforeMount, vars, Steps
  <2> QED BY <1>3, <1>4, <2>1, <2>2, <2>3 DEF Steps
<1>6. CASE WriteInodeBitmap
  <2>1. /\ mk = "inode bitmap" /\ mk' = "data bitmap" /\ mounted' = mounted
        /\ disk_inode_bp' = {0}
        /\ UNCHANGED <<core, disk_data_bp, disk_inodes, blocks, pc, frame, last, hist>>
    BY <1>6 DEF WriteInodeBitmap, Writes, After
  <2>2. TypeOK'
    BY <1>1, <2>1, Addresses DEF TypeOK, core, hist
  <2>3. BeforeMount'
    BY <1>4, <2>1 DEF BeforeMount, hist, Steps
  <2> QED BY <1>3, <1>4, <2>1, <2>2, <2>3 DEF Steps
<1>7. CASE WriteDataBitmap
  <2>1. /\ mk = "data bitmap" /\ mk' = "inode table" /\ mounted' = mounted
        /\ disk_data_bp' = {0}
        /\ UNCHANGED <<core, disk_inode_bp, disk_inodes, blocks, pc, frame, last, hist>>
    BY <1>7 DEF WriteDataBitmap, Writes, After
  <2>2. TypeOK'
    BY <1>1, <2>1, Addresses DEF TypeOK, core, hist
  <2>3. BeforeMount'
    BY <1>4, <2>1 DEF BeforeMount, hist, Steps
  <2> QED BY <1>3, <1>4, <2>1, <2>2, <2>3 DEF Steps
<1>8. CASE WriteTable
  <2>1. /\ mk = "inode table" /\ mk' = "root" /\ mounted' = mounted
        /\ UNCHANGED <<core, disk_inode_bp, disk_data_bp, blocks, pc, frame, last, hist>>
    BY <1>8 DEF WriteTable, Writes, After
  <2>2. PICK s \in [Inodes -> StaleInodes] :
          disk_inodes' = [i \in Inodes |-> IF i = 0 THEN RootInode
                            ELSE IF i < InodesPerBlock THEN s[i] ELSE BlankInode]
    BY <1>8 DEF WriteTable
  <2>3. RootInode \in Inode /\ BlankInode \in Inode
    BY RootInOrder, Addresses DEF RootInode, BlankInode, Inode, BlockAddrs
  <2>4. disk_inodes' \in [Inodes -> Inode] /\ disk_inodes'[0] = RootInode
    BY <2>2, <2>3, GarbageAssumption, Addresses
  <2>5. TypeOK'
    BY <1>1, <2>1, <2>4 DEF TypeOK, core, hist
  <2>6. BeforeMount'
    BY <1>4, <2>1, <2>4 DEF BeforeMount, hist, Steps
  <2> QED BY <1>3, <1>4, <2>1, <2>5, <2>6 DEF Steps
<1>9. CASE WriteRoot
  <2>1. /\ mk = "root" /\ mk' = "done" /\ mounted' = mounted
        /\ blocks' = [blocks EXCEPT ![DataStart] = EmptyDir(0, 0)] /\ durable' = {0}
        /\ UNCHANGED <<core, disk_inode_bp, disk_data_bp, disk_inodes, pc, frame, last,
                       leaked, torn>>
    BY <1>9 DEF WriteRoot, Writes, After
  <2>2. blocks' \in [BlockAddrs -> [Cells -> Cell]] /\ blocks'[DataStart] = EmptyDir(0, 0)
    BY <1>1, <2>1, RootInOrder, CellsTyped DEF TypeOK
  <2>3. TypeOK'
    BY <1>1, <2>1, <2>2, Addresses DEF TypeOK, core
  <2>4. BeforeMount'
    BY <1>4, <2>1, <2>2 DEF BeforeMount, Formatted, Steps
  <2> QED BY <1>3, <1>4, <2>1, <2>3, <2>4 DEF Steps
<1>10. CASE MkfsEnds
  <2>1. /\ mk \in Steps /\ mk' = "failed" /\ torn' = TRUE /\ mounted' = mounted
        /\ UNCHANGED <<core, image, pc, frame, last, leaked, durable>>
    BY <1>10 DEF MkfsEnds
  <2>2. TypeOK'
    BY <1>1, <2>1 DEF TypeOK, core, image
  <2>3. BeforeMount'
    BY <1>4, <2>1 DEF BeforeMount, image, Steps
  <2> QED BY <1>3, <1>4, <2>1, <2>2, <2>3
<1> QED BY <1>2, <1>5, <1>6, <1>7, <1>8, <1>9, <1>10 DEF Make

LEMMA FormatStep == FormatInv /\ [MNext]_mvars => FormatInv'
<1> SUFFICES ASSUME FormatInv, [MNext]_mvars PROVE FormatInv'
  OBVIOUS
<1>1. MkfsInv'
  BY MkfsStep DEF FormatInv
<1>2. CASE Make
  BY <1>1, <1>2, MakeStep DEF FormatInv
<1>3. CASE Mount
  <2>1. TypeOK'
    BY <1>3, RestartType DEF FormatInv, Mount
  <2> QED BY <1>1, <1>3, <2>1 DEF FormatInv, Mount
<1>4. CASE Run
  <2>1. TypeOK'
    BY <1>4, TypeStep DEF FormatInv, Run
  <2> QED BY <1>1, <1>4, <2>1 DEF FormatInv, Run, making
<1>5. CASE UNCHANGED mvars
  BY <1>1, <1>5, ZenonT(60) DEF FormatInv, BeforeMount, Formatted, TypeOK, mvars, vars, making
<1> QED BY <1>2, <1>3, <1>4, <1>5 DEF MNext

LEMMA FreshlyReadNext == FreshlyRead' => DataInv'
BY FreshData, PTL

\* Mounted, an image is in order, or mkfs or a later process died and tore it.
MountedInv == FormatInv /\ (mounted => DataInv)

LEMMA MountedInit == MInit => MountedInv
BY FormatInit DEF MountedInv, MInit

LEMMA MountedStep ==
  ASSUME "unlink" \notin Ops, MountedInv, [MNext]_mvars
  PROVE  MountedInv'
<1>1. FormatInv /\ FormatInv'
  BY FormatStep DEF MountedInv
<1> SUFFICES ASSUME mounted' PROVE DataInv'
  BY <1>1 DEF MountedInv
<1>2. CASE Make
  BY <1>1, <1>2, MakeStep
<1>3. CASE Mount
  <2>1. /\ ~mounted /\ BeforeMount /\ Accepted /\ Restart /\ mk \in {"done", "failed"}
    BY <1>1, <1>3 DEF Mount, FormatInv
  <2>2. /\ inode_bp' = disk_inode_bp /\ data_bp' = disk_data_bp /\ inodes' = disk_inodes
        /\ UNCHANGED <<disk_inode_bp, disk_data_bp, disk_inodes, blocks, durable>>
        /\ pc' = "idle" /\ last'.op = "none" /\ leaked' = {} /\ TypeOK'
    BY <1>1, <2>1 DEF Restart, image, BeforeMount, FormatInv
  <2>3. CASE mk = "done"
    <3>1. FreshlyRead'
      BY <2>1, <2>2, <2>3 DEF BeforeMount, FreshlyRead, Formatted, Synced
    <3> QED BY <3>1, FreshlyReadNext
  <2>4. CASE mk = "failed"
    <3>1. torn
      <4>1. PICK ni \in Nat, nd \in Nat : super = Layout(ni, nd)
        BY <1>1 DEF FormatInv, MkfsInv
      <4>2. BlocksFor(ni, BitsPerBlock) \in Nat
        BY MkfsAssumption, BlocksSuffice
      <4>3. length >= 1 + BlocksFor(ni, BitsPerBlock)
        BY <2>1, <4>1 DEF Accepted, Layout
      <4>4. length # 0
        BY <4>2, <4>3
      <4> QED BY <2>1, <2>4, <4>4 DEF BeforeMount
    <3>2. torn'
      BY <2>1, <3>1 DEF Restart
    <3> QED BY <2>2, <3>2 DEF DataInv, DataOK, OwnedInv, OwnedEverywhere, DurableInv,
                Coherent, InodeClean, DataClean, SuccessIsDurable, WriterMarked
  <2> QED BY <2>1, <2>3, <2>4
<1>4. CASE Run
  BY <1>4, DataStep DEF Run, MountedInv
<1>5. CASE UNCHANGED mvars
  <2>1. DataInv /\ [Next]_vars
    BY <1>5 DEF MountedInv, mvars, making
  <2> QED BY <2>1, DataStep
<1> QED BY <1>2, <1>3, <1>4, <1>5 DEF MNext

\* From the first write of mkfs on, through processes that die between any two
\* writes: what an inode held when it was committed stays on the image.
THEOREM CommittedStaysFromMkfs ==
  ASSUME "unlink" \notin Ops, AppendOnly
  PROVE  MSpec => CommittedCellsStable
<1>1. MountedInv /\ [MNext]_mvars => MountedInv'
  BY MountedStep
<1>2. MountedInv /\ [MNext]_mvars =>
        [~torn => \A i \in durable \cap disk_inode_bp : \A k \in OnDisk(disk_inodes, i) :
           /\ i \in disk_inode_bp' /\ k \in OnDisk(disk_inodes', i)
           /\ DiskCell(blocks', disk_inodes', i, k) = DiskCell(blocks, disk_inodes, i, k)]_vars
  <2> SUFFICES ASSUME MountedInv, [MNext]_mvars, ~torn,
                      NEW i \in durable \cap disk_inode_bp, NEW k \in OnDisk(disk_inodes, i),
                      ~UNCHANGED vars
               PROVE  /\ i \in disk_inode_bp' /\ k \in OnDisk(disk_inodes', i)
                      /\ DiskCell(blocks', disk_inodes', i, k) =
                           DiskCell(blocks, disk_inodes, i, k)
    OBVIOUS
  <2>1. CASE Run
    BY <2>1, CommittedStep DEF Run, MountedInv
  <2>2. CASE Mount
    <3>1. UNCHANGED <<disk_inode_bp, disk_inodes, blocks>>
      BY <2>2 DEF Mount, Restart, image
    <3> QED BY <3>1
  <2>3. CASE Make
    <3>1. BeforeMount /\ mk # "done"
      BY <2>3, MakeStep DEF MountedInv, FormatInv, Make, Start, WriteSuper, ZeroBlock,
         WriteInodeBitmap, WriteDataBitmap, WriteTable, WriteRoot, Writes, MkfsEnds, Steps
    <3> QED BY <3>1 DEF BeforeMount
  <2> QED BY <2>1, <2>2, <2>3 DEF MNext, mvars
<1> QED BY <1>1, <1>2, MountedInit, PTL DEF MSpec, CommittedCellsStable

-----------------------------------------------------------------------------
(* The dot of the root.                                                    *)

\* No garbage that mkfs leaves in an inode looks like a pointer to the root's
\* block.
StaleSparesRoot == \A x \in StaleInodes, s \in Slots : x.direct[s] # DataStart

\* In inode table tab the root keeps its first block, and no other inode has it.
RootOf(tab) ==
  /\ tab[0].type = UFS_DIRECTORY /\ tab[0].size >= 1
  /\ tab[0].direct[0] = DataStart
  /\ \A i \in Inodes \ {0}, s \in Slots : tab[i].direct[s] # DataStart

\* In a finished image, torn or not, nobody takes the root's block or writes
\* over its dot.
DotKept ==
  /\ 0 \in inode_bp \cap disk_inode_bp /\ 0 \in data_bp \cap disk_data_bp
  /\ RootOf(inodes) /\ RootOf(disk_inodes)
  /\ blocks[DataStart][0] = Entry(Dot, 0)
  /\ pc = "link" => frame.data # 0
  /\ pc = "write" => inodes[frame.inum].type = UFS_REGULAR_FILE

\* In an unfinished one no dot is that of inode 0, which stays allocated, or
\* the only one that could have been.
NoDot ==
  /\ 0 \in inode_bp \cap disk_inode_bp \/ (inode_bp = {} /\ disk_inode_bp = {})
  /\ \A a \in BlockAddrs, c \in Cells : blocks[a][c].name = Dot => blocks[a][c].inum # 0

DotInv ==
  /\ FormatInv
  /\ mk \in {"root", "done"} => RootOf(disk_inodes)
  /\ mounted => IF mk = "done" THEN DotKept ELSE NoDot

\* What ufs_lookup answers there.
LEMMA DotFound ==
  ASSUME TypeOK, DotKept
  PROVE  ufs_lookup(0, Dot) = 0
<1>1. EntriesRead(0) \in Nat /\ EntriesRead(0) >= 1
  <2>1. inodes[0].size \in Int
    BY Addresses DEF TypeOK, Inode
  <2> QED BY <2>1, Sizes DEF DotKept, RootOf, EntriesRead
<1>2. Ptr(0, 0) = DataStart /\ CellAt(0, 0) = Entry(Dot, 0)
  <2>1. 0 \div BlockSize = 0 /\ 0 % BlockSize = 0
    BY Sizes
  <2> QED BY <2>1 DEF DotKept, RootOf, Ptr, CellAt
<1>3. 0 \in LookupStops(0, Dot)
  BY <1>1, <1>2 DEF LookupStops, Entry
<1>4. Min(LookupStops(0, Dot)) = 0
  <2>1. LookupStops(0, Dot) \in SUBSET Nat
    BY <1>1 DEF LookupStops
  <2> DEFINE stops == LookupStops(0, Dot)
  <2>2. Min(stops) \in stops /\ \A k \in stops : Min(stops) <= k
    BY <1>3, <2>1, MinNat
  <2> HIDE DEF stops
  <2> QED BY <1>3, <2>1, <2>2 DEF stops
<1>5. 0 \in Inodes /\ 0 \in inode_bp /\ inodes[0].type = UFS_DIRECTORY
  BY Addresses DEF DotKept, RootOf
<1>6. DataStart # NoBlock /\ CellAt(0, 0).inum = 0
  BY <1>2, RootInOrder DEF Entry
<1> QED BY <1>2, <1>3, <1>4, <1>5, <1>6 DEF ufs_lookup

LEMMA DotMissing ==
  ASSUME TypeOK, NoDot
  PROVE  ufs_lookup(0, Dot) # 0
<1> DEFINE stops == LookupStops(0, Dot)
           k == Min(stops)
<1>1. CASE 0 \notin inode_bp \/ inodes[0].type # UFS_DIRECTORY \/ stops = {}
  BY <1>1, Addresses DEF ufs_lookup
<1>2. CASE stops # {}
  <2>1. EntriesRead(0) \in 0 .. Capacity
    BY Sizes DEF EntriesRead
  <2>2. stops \in SUBSET Nat
    BY <2>1 DEF LookupStops
  <2>3. k \in stops
    BY <1>2, <2>2, MinNat
  <2> HIDE DEF k
  <2>4. /\ k \in 0 .. Capacity - 1
        /\ Ptr(0, k) = NoBlock \/ CellAt(0, k).inum = -1 \/ CellAt(0, k).name = Dot
    BY <2>1, <2>3, Sizes DEF LookupStops
  <2>5. k \div BlockSize \in Slots /\ k % BlockSize \in Cells
    BY <2>4, OffsetSplit
  <2>6. Ptr(0, k) \in BlockAddrs \cup {NoBlock}
    BY <2>5, Addresses DEF TypeOK, Inode, Ptr
  <2>7. Ptr(0, k) # NoBlock /\ CellAt(0, k).inum # -1 => CellAt(0, k).inum # 0
    BY <2>4, <2>5, <2>6 DEF NoDot, CellAt
  <2> QED BY <1>2, <2>7, Addresses DEF ufs_lookup, k, Exits, AssertFails
<1> QED BY <1>1, <1>2

\* A step that changes neither the core nor the image.
LEMMA DotQuiet ==
  ASSUME UNCHANGED <<inode_bp, data_bp, inodes, image>>,
         pc' \notin {"link", "write"} \/ UNCHANGED <<pc, frame>>
  PROVE  (DotKept => DotKept') /\ (NoDot => NoDot')
BY DEF DotKept, NoDot, RootOf, image

LEMMA DotRestart ==
  ASSUME Restart
  PROVE  (DotKept => DotKept') /\ (NoDot => NoDot')
<1>1. /\ inode_bp' = disk_inode_bp /\ data_bp' = disk_data_bp /\ inodes' = disk_inodes
      /\ UNCHANGED image /\ pc' = "idle"
  BY DEF Restart
<1> QED BY <1>1 DEF DotKept, NoDot, RootOf, image

\* An inode that is not the root's takes pointers that are not to its block.
LEMMA OtherInode ==
  ASSUME NEW tab, NEW tab2, RootOf(tab), NEW i \in Inodes \ {0},
         \A j \in Inodes \ {i} : tab2[j] = tab[j],
         \A s \in Slots : tab2[i].direct[s] # DataStart
  PROVE  RootOf(tab2)
BY Addresses DEF RootOf

LEMMA DotCreatFails ==
  ASSUME TypeOK, NEW p \in Inums, NEW n \in Names,
         NEW t \in {UFS_DIRECTORY, UFS_REGULAR_FILE}, CreatFails(p, t, n)
  PROVE  (DotKept => DotKept') /\ (NoDot => NoDot')
<1> DEFINE e == FirstFree(inode_bp, 0, NumInodes)
<1>1. e \in Inodes /\ e \notin inode_bp /\ p \in inode_bp
  BY FreeInode, CreatGoesOn DEF CreatFails, CreatArgsRefused
<1>2. /\ inode_bp' = inode_bp \cup {e} /\ UNCHANGED <<data_bp, image>> /\ pc' = "idle"
      /\ inodes' = [inodes EXCEPT ![e].type = t, ![e].direct = NoBlocks]
  BY DEF CreatFails, set_bitmap, Return
<1> HIDE DEF e
<1>3. ASSUME DotKept PROVE DotKept'
  <2>1. e \in Inodes \ {0}
    BY <1>1, <1>3 DEF DotKept
  <2>2. \A j \in Inodes \ {e} : inodes'[j] = inodes[j]
    BY <1>2 DEF TypeOK
  <2>3. \A s \in Slots : inodes'[e].direct[s] # DataStart
    BY <1>1, <1>2, RootInOrder DEF TypeOK, Inode, NoBlocks
  <2>4. RootOf(inodes')
    BY <1>3, <2>1, <2>2, <2>3, OtherInode DEF DotKept
  <2> QED BY <1>2, <1>3, <2>4 DEF DotKept, RootOf, image
<1> QED BY <1>1, <1>2, <1>3 DEF NoDot, image

LEMMA DotCreatAllocates ==
  ASSUME TypeOK, NEW p \in Inums, NEW n \in Names,
         NEW t \in {UFS_DIRECTORY, UFS_REGULAR_FILE}, CreatAllocates(p, t, n)
  PROVE  (DotKept => DotKept') /\ (NoDot => NoDot')
<1> DEFINE e  == FirstFree(inode_bp, 0, NumInodes)
           d1 == FirstFree(data_bp, 0, NumData)
           d2 == IF d1 = -1 THEN -1 ELSE FirstFree(data_bp, d1 + 1, NumData)
           mkdir == t = UFS_DIRECTORY
           x  == [type   |-> t,
                  size   |-> IF mkdir THEN 2 ELSE 0,
                  direct |-> IF mkdir THEN [NoBlocks EXCEPT ![0] = d1 + DataStart]
                                      ELSE NoBlocks]
<1>1. e \in Inodes /\ e \notin inode_bp /\ p \in inode_bp
  BY FreeInode, CreatGoesOn DEF CreatAllocates, CreatArgsRefused
<1>2. /\ mkdir => d1 \in DataBits \ data_bp
      /\ d1 # -1 => d1 \in DataBits \ data_bp
      /\ d2 # -1 => d2 \in DataBits \ data_bp
  BY FreeData DEF CreatAllocates, NoRoom
<1>3. /\ inode_bp' = inode_bp \cup {e}
      /\ inodes' = [inodes EXCEPT ![e] = x]
      /\ data_bp' = IF mkdir THEN data_bp \cup {d1} ELSE data_bp
      /\ blocks' = IF mkdir THEN [blocks EXCEPT ![d1 + DataStart] = EmptyDir(e, p)]
                            ELSE blocks
      /\ pc' = "link" /\ frame'.data = IF mkdir THEN d2 ELSE d1
      /\ UNCHANGED <<disk_inode_bp, disk_data_bp, disk_inodes>>
  BY DEF CreatAllocates, set_bitmap, NoFrame
<1> HIDE DEF e, d1, d2
<1>4. ASSUME DotKept PROVE DotKept'
  <2>1. e \in Inodes \ {0} /\ 0 \in data_bp
    BY <1>1, <1>4 DEF DotKept
  <2>2. mkdir => d1 + DataStart # DataStart /\ d1 + DataStart \in BlockAddrs
    BY <1>2, <2>1, Addresses, SizesAssumption
  <2>3. \A j \in Inodes \ {e} : inodes'[j] = inodes[j]
    BY <1>3 DEF TypeOK
  <2>4. \A s \in Slots : inodes'[e].direct[s] # DataStart
    <3>1. inodes'[e] = x
      BY <1>1, <1>3 DEF TypeOK
    <3>2. \A s \in Slots : x.direct[s] \in {NoBlock} \/ (mkdir /\ x.direct[s] = d1 + DataStart)
      BY Addresses DEF NoBlocks
    <3> QED BY <2>2, <3>1, <3>2, RootInOrder
  <2>5. RootOf(inodes')
    BY <1>4, <2>1, <2>3, <2>4, OtherInode DEF DotKept
  <2>6. blocks'[DataStart][0] = Entry(Dot, 0)
    BY <1>3, <1>4, <2>2, RootInOrder DEF DotKept, TypeOK
  <2>7. frame'.data # 0
    BY <1>2, <1>3, <2>1
  <2> QED BY <1>3, <1>4, <2>5, <2>6, <2>7 DEF DotKept, RootOf
<1>5. ASSUME NoDot PROVE NoDot'
  <2>1. 0 \in inode_bp \cap disk_inode_bp /\ e # 0
    BY <1>1, <1>5 DEF NoDot
  <2>2. ASSUME NEW c \in Cells PROVE EmptyDir(e, p)[c].name = Dot => EmptyDir(e, p)[c].inum # 0
    BY <2>1 DEF EmptyDir, Entry, FreeCell, Dot, DotDot, NoName
  <2>3. \A a \in BlockAddrs : blocks'[a] \in {blocks[a], EmptyDir(e, p)}
    BY <1>3 DEF TypeOK
  <2> QED BY <1>3, <1>5, <2>1, <2>2, <2>3 DEF NoDot
<1> QED BY <1>4, <1>5

LEMMA DotWriteBegin ==
  ASSUME TypeOK, NEW i \in Inums, NEW off \in Offsets, NEW n \in Counts,
         WriteBegin(i, off, n)
  PROVE  (DotKept => DotKept') /\ (NoDot => NoDot')
<1>1. /\ UNCHANGED <<inode_bp, data_bp, inodes, image>> /\ pc' = "write"
      /\ frame'.inum = i /\ inodes[i].type = UFS_REGULAR_FILE
  BY DEF WriteBegin, WriteArgsRefused, NoFrame
<1> QED BY <1>1 DEF DotKept, NoDot, RootOf, image

LEMMA DotLink ==
  ASSUME TypeOK, LinkInNewBlock \/ LinkInFreeEntry
  PROVE  (DotKept => DotKept') /\ (NoDot => NoDot')
<1> DEFINE p   == frame.inum
           ent == Entry(frame.name, frame.new)
<1>1. p \in Inodes /\ ent.name # Dot
  BY ClientAssumption DEF TypeOK, Entry, Dot, NoName
<1>2. /\ UNCHANGED <<inode_bp, disk_inode_bp, disk_data_bp, disk_inodes>>
      /\ pc = "link" /\ pc' \notin {"link", "write"}
      /\ data_bp \subseteq data_bp'
  BY DEF LinkInNewBlock, LinkInFreeEntry, Die, set_bitmap
<1>3. CASE LinkInNewBlock
  <2> DEFINE addr  == frame.data + DataStart
             slot  == FirstEmptySlot(p)
             unset == {s \in Slots : inodes[p].direct[s] = NoBlock}
  <2>1. /\ blocks' = [blocks EXCEPT ![addr] = NewDirBlock(ent)]
        /\ inodes' = [inodes EXCEPT ![p].size = @ + 1,
                        ![p].direct = IF unset = {} THEN @ ELSE [@ EXCEPT ![slot] = addr]]
        /\ frame.data \in DataBits
    BY <1>3 DEF LinkInNewBlock, TypeOK
  <2>2. unset # {} => slot \in unset
    BY MinSlot DEF FirstEmptySlot
  <2> HIDE DEF slot, unset
  <2>3. ASSUME DotKept PROVE DotKept'
    <3>1. addr # DataStart /\ addr \in BlockAddrs
      BY <1>2, <2>1, <2>3, Addresses, SizesAssumption DEF DotKept
    <3>2. blocks'[DataStart] = blocks[DataStart]
      BY <2>1, <3>1 DEF TypeOK
    <3>3. \A j \in Inodes \ {p} : inodes'[j] = inodes[j]
      BY <2>1 DEF TypeOK
    <3>4. /\ inodes'[p].type = inodes[p].type /\ inodes'[p].size = inodes[p].size + 1
          /\ \A s \in Slots : \/ inodes'[p].direct[s] = inodes[p].direct[s]
                              \/ s = slot /\ unset # {} /\ inodes'[p].direct[s] = addr
      BY <1>1, <2>1 DEF TypeOK, Inode
    <3>5. RootOf(inodes')
      <4>1. CASE p # 0
        <5>1. \A s \in Slots : inodes'[p].direct[s] # DataStart
          BY <1>1, <2>3, <3>1, <3>4, <4>1 DEF DotKept, RootOf
        <5> QED BY <1>1, <2>3, <3>3, <4>1, <5>1, OtherInode DEF DotKept
      <4>2. CASE p = 0
        <5>1. inodes[0].direct[0] = DataStart
          BY <2>3 DEF DotKept, RootOf
        <5>2. 0 = slot => unset = {}
          BY <2>2, <4>2, <5>1, RootInOrder DEF unset
        <5>3. inodes'[0].direct[0] = DataStart
          BY <3>4, <4>2, <5>1, <5>2, Addresses
        <5>4. inodes[0].size \in Int
          BY Addresses DEF TypeOK, Inode
        <5> QED BY <2>3, <3>3, <3>4, <4>2, <5>3, <5>4 DEF DotKept, RootOf
      <4> QED BY <4>1, <4>2
    <3> QED BY <1>2, <2>3, <3>2, <3>5 DEF DotKept, RootOf
  <2>4. ASSUME NoDot PROVE NoDot'
    <3>1. \A a \in BlockAddrs : blocks'[a] \in {blocks[a], NewDirBlock(ent)}
      BY <2>1 DEF TypeOK
    <3>2. \A c \in Cells : NewDirBlock(ent)[c].name # Dot
      BY <1>1, SMTT(40) DEF NewDirBlock, FreeCell, Dot, NoName
    <3> QED BY <1>2, <2>4, <3>1, <3>2 DEF NoDot
  <2> QED BY <2>3, <2>4
<1>4. CASE LinkInFreeEntry
  <2> DEFINE a == IF LinkStops(p) = {} THEN Superblock
                  ELSE inodes[p].direct[Min(LinkStops(p))]
             f == FirstFreeCell(a)
  <2>1. \/ UNCHANGED <<inodes, blocks>>
        \/ /\ inodes' = [inodes EXCEPT ![p].size = @ + 1]
           /\ blocks' = blocks \/ (a # NoBlock /\ a # Superblock
                                   /\ blocks' = [blocks EXCEPT ![a][f] = ent])
    BY <1>4 DEF LinkInFreeEntry
  <2>2. ASSUME a # Superblock, a # NoBlock
        PROVE  a \in BlockAddrs /\ f \in Cells /\ blocks[a][f].inum = -1
    <3> DEFINE t == Min(LinkStops(p))
    <3>1. LinkStops(p) # {} /\ a = inodes[p].direct[t]
      BY <2>2
    <3>2. t \in LinkStops(p)
      <4>1. LinkStops(p) \in SUBSET Slots
        BY SMTT(40) DEF LinkStops
      <4> QED BY <3>1, <4>1, MinSlot
    <3> HIDE DEF t
    <3>3. a \in BlockAddrs
      BY <1>1, <2>2, <3>1, <3>2, SMTT(40) DEF TypeOK, Inode, LinkStops
    <3>4. HasFree(a)
      BY <2>2, <3>1, <3>2 DEF LinkStops
    <3> HIDE DEF a
    <3> DEFINE free == {c \in Cells : blocks[a][c].inum = -1}
    <3>5. free \in SUBSET Nat /\ free # {}
      BY <3>4 DEF HasFree, Cells
    <3>6. FirstFreeCell(a) \in free
      BY <3>5, MinNat DEF FirstFreeCell
    <3> QED BY <3>3, <3>6
  <2> HIDE DEF a, f
  <2>3. ASSUME DotKept PROVE DotKept'
    <3>1. blocks'[DataStart][0] = blocks[DataStart][0]
      <4>1. CASE blocks' = blocks
        BY <4>1
      <4>2. CASE a # NoBlock /\ a # Superblock /\ blocks' = [blocks EXCEPT ![a][f] = ent]
        <5>1. blocks[DataStart][0].inum = 0
          BY <2>3 DEF DotKept, Entry
        <5>2. ~(a = DataStart /\ f = 0)
          BY <2>2, <4>2, <5>1
        <5> QED BY <2>2, <4>2, <5>2, RootInOrder, Addresses DEF TypeOK
      <4> QED BY <2>1, <4>1, <4>2
    <3>2. RootOf(inodes')
      <4>1. ASSUME NEW j \in Inodes
            PROVE  /\ inodes'[j].type = inodes[j].type /\ inodes'[j].direct = inodes[j].direct
                   /\ inodes'[j].size >= inodes[j].size
        <5>1. inodes[j].size \in Int /\ inodes[j] \in Inode
          BY DEF TypeOK, Inode
        <5>2. inodes'[j] = inodes[j] \/ inodes'[j] = [inodes[j] EXCEPT !.size = @ + 1]
          BY <2>1 DEF TypeOK
        <5> QED BY <5>1, <5>2 DEF Inode
      <4>2. inodes'[0].size \in Int /\ inodes[0].size \in Int
        <5>1. inodes[0].size \in Int /\ inodes[0] \in Inode
          BY Addresses DEF TypeOK, Inode
        <5>2. inodes'[0] = inodes[0] \/ inodes'[0] = [inodes[0] EXCEPT !.size = @ + 1]
          BY <2>1, Addresses DEF TypeOK
        <5> QED BY <5>1, <5>2 DEF Inode
      <4> QED BY <2>3, <4>1, <4>2, Addresses DEF DotKept, RootOf
    <3> QED BY <1>2, <2>3, <3>1, <3>2 DEF DotKept, RootOf
  <2>4. ASSUME NoDot PROVE NoDot'
    <3>1. \A z \in BlockAddrs, c \in Cells : blocks'[z][c] \in {blocks[z][c], ent}
      BY <2>1, <2>2 DEF TypeOK
    <3> QED BY <1>1, <1>2, <2>4, <3>1 DEF NoDot
  <2> QED BY <2>3, <2>4
<1> QED BY <1>3, <1>4

LEMMA DotWrite ==
  ASSUME TypeOK, WriteBlock
  PROVE  (DotKept => DotKept') /\ (NoDot => NoDot')
<1> DEFINE i == frame.inum
           b == frame.blk
           a == WriteTarget(i, b)
           sz == Min({frame.left, BlockSize - frame.off})
           fresh == inodes[i].direct[b] = NoBlock
           range == frame.off .. frame.off + sz - 1
<1>1. i \in Inodes /\ b \in Slots /\ a # NoBlock
  BY DEF WriteBlock, TypeOK
<1>2. /\ data_bp' = IF fresh THEN data_bp \cup {a - DataStart} ELSE data_bp
      /\ blocks' = [blocks EXCEPT ![a] = [c \in Cells |->
           IF c \in range THEN Byte(i, b * BlockSize + c) ELSE @[c]]]
      /\ inodes' = [inodes EXCEPT ![i].direct[b] = a, ![i].size = @ + sz]
      /\ UNCHANGED <<inode_bp, disk_inode_bp, disk_data_bp, disk_inodes>>
      /\ pc = "write" /\ pc' = "write" /\ frame'.inum = i
  BY DEF WriteBlock, set_bitmap, TypeOK
<1>3. /\ a \in BlockAddrs
      /\ IF fresh THEN a \in DataAddrs /\ a - DataStart \in DataBits \ data_bp
                  ELSE a = inodes[i].direct[b]
  BY <1>1, WriteTargetType DEF WriteTarget
<1> HIDE DEF a, sz, range
<1>4. ASSUME NEW z \in BlockAddrs, NEW c \in Cells
      PROVE  \/ blocks'[z][c] = blocks[z][c]
             \/ z = a /\ blocks'[z][c] = Byte(i, b * BlockSize + c)
  BY <1>2, <1>3 DEF TypeOK
<1>5. ASSUME DotKept PROVE DotKept'
  <2>1. i # 0 /\ inodes[i].type = UFS_REGULAR_FILE
    BY <1>2, <1>5 DEF DotKept, RootOf, UFS_DIRECTORY, UFS_REGULAR_FILE
  <2>2. a # DataStart
    <3>1. CASE fresh
      <4>1. a - DataStart # 0
        BY <1>3, <1>5, <3>1 DEF DotKept
      <4> QED BY <4>1, SizesAssumption
    <3>2. CASE ~fresh
      BY <1>1, <1>3, <1>5, <2>1, <3>2 DEF DotKept, RootOf
    <3> QED BY <3>1, <3>2
  <2>3. \A j \in Inodes \ {i} : inodes'[j] = inodes[j]
    BY <1>2 DEF TypeOK
  <2>4. /\ inodes'[i].type = inodes[i].type
        /\ \A s \in Slots : inodes'[i].direct[s] \in {inodes[i].direct[s], a}
    BY <1>1, <1>2 DEF TypeOK, Inode
  <2>5. \A s \in Slots : inodes'[i].direct[s] # DataStart
    BY <1>1, <1>5, <2>1, <2>2, <2>4 DEF DotKept, RootOf
  <2>6. RootOf(inodes')
    BY <1>1, <1>5, <2>1, <2>3, <2>5, OtherInode DEF DotKept
  <2>7. blocks'[DataStart][0] = blocks[DataStart][0]
    BY <1>4, <2>2, RootInOrder, Addresses
  <2>8. 0 \in data_bp'
    BY <1>2, <1>5 DEF DotKept
  <2> QED BY <1>2, <1>5, <2>1, <2>4, <2>6, <2>7, <2>8 DEF DotKept, RootOf
<1>6. ASSUME NoDot PROVE NoDot'
  <2>1. \A k : Byte(i, k).name # Dot
    BY DEF Byte, Dot, FileBytes
  <2> QED BY <1>2, <1>4, <1>6, <2>1 DEF NoDot
<1> QED BY <1>5, <1>6

LEMMA DotCommit ==
  ASSUME TypeOK, CommitInodeBit \/ CommitInode \/ CommitData
  PROVE  (DotKept => DotKept') /\ (NoDot => NoDot')
<1>1. UNCHANGED <<inode_bp, data_bp, inodes, blocks>> /\ pc' \notin {"link", "write"}
  BY DEF CommitInodeBit, CommitInode, CommitData, core
<1>2. CASE CommitInodeBit
  <2>1. /\ UNCHANGED <<disk_data_bp, disk_inodes>>
        /\ \E i : disk_inode_bp' = WriteWord(disk_inode_bp, inode_bp, i)
    BY <1>2 DEF CommitInodeBit
  <2>2. 0 \in inode_bp \cap disk_inode_bp => 0 \in disk_inode_bp'
    BY <2>1, WordWritten
  <2>3. inode_bp = {} /\ disk_inode_bp = {} => disk_inode_bp' = {}
    BY <2>1 DEF WriteWord
  <2> QED BY <1>1, <2>1, <2>2, <2>3 DEF DotKept, NoDot, RootOf
<1>3. CASE CommitInode
  <2>1. /\ disk_inodes' = [disk_inodes EXCEPT ![frame.at] = inodes[frame.at]]
        /\ UNCHANGED <<disk_inode_bp, disk_data_bp>>
    BY <1>3 DEF CommitInode
  <2>2. \A i \in Inodes : disk_inodes'[i] \in {disk_inodes[i], inodes[i]}
    BY <2>1 DEF TypeOK
  <2>3. RootOf(inodes) /\ RootOf(disk_inodes) => RootOf(disk_inodes')
    <3>1. 0 \in Inodes
      BY Addresses
    <3>2. disk_inodes'[0] \in {disk_inodes[0], inodes[0]}
      BY <2>2, <3>1
    <3> QED BY <2>2, <3>2 DEF RootOf
  <2> QED BY <1>1, <2>1, <2>3 DEF DotKept, NoDot
<1>4. CASE CommitData
  <2>1. /\ UNCHANGED <<disk_inode_bp, disk_inodes>>
        /\ \E d : disk_data_bp' = WriteWord(disk_data_bp, data_bp, d)
    BY <1>4 DEF CommitData
  <2>2. 0 \in data_bp \cap disk_data_bp => 0 \in disk_data_bp'
    BY <2>1, WordWritten
  <2> QED BY <1>1, <2>1, <2>2 DEF DotKept, NoDot, RootOf
<1> QED BY <1>2, <1>3, <1>4

LEMMA DotRun ==
  ASSUME "unlink" \notin Ops, TypeOK, [Next]_vars
  PROVE  (DotKept => DotKept') /\ (NoDot => NoDot')
<1>1. CASE UNCHANGED vars
  BY <1>1, DotQuiet DEF vars, image
<1>2. CASE Call
  <2>1. ~ \E p \in Inums, n \in Names \cup {Dot} : UnlinkRefused(p, n) \/ Unlink(p, n)
    BY ZenonT(60) DEF UnlinkRefused, Unlink, Idle
  <2>2. CASE Lookup \/ CreatRefused \/ WriteRefused \/ Read
    <3>1. CASE \E op \in AllOps, r \in Int : Answer(op, r)
      <4>1. UNCHANGED <<inode_bp, data_bp, inodes, image>> /\ pc' \notin {"link", "write"}
        BY <3>1 DEF Answer, Return, Die, Death, core
      <4> QED BY <4>1, DotQuiet
    <3> QED BY <1>1, <2>2, <3>1, RepliesAnswer
  <2> QED BY <1>2, <2>1, <2>2, DotCreatFails, DotCreatAllocates, DotWriteBegin
          DEF Call, Grow, Unlinks
<1>3. CASE Handler
  <2>1. CASE LinkFails \/ WriteFails \/ WriteEnd \/ CommitDone
    <3>1. UNCHANGED <<inode_bp, data_bp, inodes, image>> /\ pc' \notin {"link", "write"}
      BY <2>1 DEF LinkFails, WriteFails, WriteEnd, CommitDone, Return, core
    <3> QED BY <3>1, DotQuiet
  <2> QED BY <1>3, <2>1, DotLink, DotWrite, DotCommit DEF Handler
<1> QED BY <1>1, <1>2, <1>3, DotRestart DEF Next

LEMMA DotStep ==
  ASSUME "unlink" \notin Ops, StaleSparesRoot, DotInv, [MNext]_mvars
  PROVE  DotInv'
<1>1. FormatInv /\ FormatInv'
  BY FormatStep DEF DotInv
<1>2. (mk \in {"root", "done"} => RootOf(disk_inodes))'
  <2>1. CASE UNCHANGED <<mk, disk_inodes>>
    BY <2>1 DEF DotInv, RootOf
  <2>2. CASE WriteTable
    <3>1. PICK s \in [Inodes -> StaleInodes] :
            disk_inodes' = [i \in Inodes |-> IF i = 0 THEN RootInode
                              ELSE IF i < InodesPerBlock THEN s[i] ELSE BlankInode]
      BY <2>2 DEF WriteTable
    <3>2. disk_inodes'[0] = RootInode
      BY <3>1, Addresses
    <3>3. ASSUME NEW i \in Inodes \ {0}, NEW u \in Slots
          PROVE  disk_inodes'[i].direct[u] # DataStart
      <4>1. BlankInode.direct[u] # DataStart
        BY SizesAssumption DEF BlankInode, Superblock
      <4>2. s[i].direct[u] # DataStart
        BY DEF StaleSparesRoot
      <4>3. disk_inodes'[i] \in {s[i], BlankInode}
        BY <3>1
      <4> QED BY <4>1, <4>2, <4>3
    <3>4. RootOf(disk_inodes')
      BY <3>2, <3>3, RootInOrder, SizesAssumption DEF RootOf
    <3> QED BY <3>4
  <2>3. CASE WriteRoot
    <3>1. mk = "root" /\ UNCHANGED disk_inodes
      BY <2>3 DEF WriteRoot, Writes
    <3> QED BY <3>1 DEF DotInv, RootOf
  <2>4. CASE mk' \notin {"root", "done"}
    BY <2>4
  <2>5. CASE Run
    <3>1. mounted /\ mk' = mk /\ (mk = "root" => FALSE)
      BY <1>1, <2>5 DEF Run, making, FormatInv
    <3>2. mk = "done" => DotKept'
      BY <1>1, <2>5, <3>1, DotRun DEF DotInv, Run, FormatInv
    <3> QED BY <3>1, <3>2 DEF DotKept
  <2>6. CASE Mount
    BY <2>1, <2>6 DEF Mount, Restart, image
  <2>7. CASE UNCHANGED mvars
    BY <2>1, <2>7 DEF mvars, vars, making
  <2>8. ASSUME NEW ni \in InodeArgs, NEW nd \in DataArgs, Start(ni, nd)
        PROVE  mk' \notin {"root", "done"}
    BY <2>8 DEF Start
  <2>9. WriteSuper \/ ZeroBlock \/ WriteInodeBitmap \/ WriteDataBitmap \/ MkfsEnds =>
          mk' \notin {"root", "done"}
    BY DEF WriteSuper, ZeroBlock, WriteInodeBitmap, WriteDataBitmap, MkfsEnds, Writes,
           After, ZeroOr
  <2> QED BY <2>2, <2>3, <2>4, <2>5, <2>6, <2>7, <2>8, <2>9 DEF MNext, Make
<1> SUFFICES ASSUME mounted' PROVE IF mk' = "done" THEN DotKept' ELSE NoDot'
  BY <1>1, <1>2 DEF DotInv
<1>3. CASE Make
  BY <1>1, <1>3, MakeStep
<1>4. CASE Mount
  <2>1. ~mounted /\ BeforeMount /\ Restart /\ mk' = mk /\ TypeOK
    BY <1>1, <1>4 DEF Mount, FormatInv
  <2>2. /\ inode_bp' = disk_inode_bp /\ data_bp' = disk_data_bp /\ inodes' = disk_inodes
        /\ UNCHANGED image /\ pc' = "idle"
    BY <2>1 DEF Restart
  <2>3. CASE mk = "done"
    <3>1. RootOf(disk_inodes) /\ Formatted
      BY <2>1, <2>3 DEF DotInv, BeforeMount
    <3>2. EmptyDir(0, 0)[0] = Entry(Dot, 0)
      BY Addresses DEF EmptyDir
    <3> QED BY <2>1, <2>2, <2>3, <3>1, <3>2 DEF DotKept, Formatted, RootOf, image
  <2>4. CASE mk # "done"
    <3>1. blocks = BlankData /\ disk_inode_bp \in {{}, {0}}
      BY <2>1, <2>4 DEF BeforeMount
    <3>2. \A a \in BlockAddrs, c \in Cells : blocks[a][c].name # Dot
      BY <3>1 DEF BlankData, Zeroes, ZeroCell, Dot, NoName
    <3> QED BY <2>1, <2>2, <2>4, <3>1, <3>2 DEF NoDot, image
  <2> QED BY <2>3, <2>4
<1>5. CASE Run \/ UNCHANGED mvars
  <2>1. [Next]_vars /\ UNCHANGED making /\ mounted /\ TypeOK
    BY <1>1, <1>5 DEF Run, mvars, making, FormatInv
  <2> QED BY <2>1, DotRun DEF DotInv, making
<1> QED BY <1>3, <1>4, <1>5 DEF MNext

\* As long as clients do not unlink, a dot in the root tells a finished image
\* from one that mkfs did not finish: through every sequence of calls, and of
\* processes that died between any two writes.
THEOREM DotTellsAlways ==
  ASSUME "unlink" \notin Ops, StaleSparesRoot
  PROVE  MSpec => []DotTells
<1>1. DotInv /\ [MNext]_mvars => DotInv'
  BY DotStep
<1>2. MInit => DotInv
  BY FormatInit DEF DotInv, MInit
<1>3. DotInv => DotTells
  BY DotFound, DotMissing DEF DotInv, FormatInv, DotTells
<1> QED BY <1>1, <1>2, <1>3, PTL DEF MSpec

=============================================================================
