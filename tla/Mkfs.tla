-------------------------------- MODULE Mkfs --------------------------------
(***************************************************************************)
(* mkfs.c, which makes the images that Ufs runs on, from the truncation of *)
(* the image file to the root directory's block, one write at a time; and  *)
(* ufs_init's decision whether an image can be mounted.  mkfs may die or   *)
(* fail between any two writes, may be run again then, and what it left in *)
(* between may be mounted.                                                 *)
(*                                                                         *)
(* mkfs computes the layout for any arguments.  The variables of Ufs show  *)
(* the image only where the arguments are the sizes of the instance.       *)
(***************************************************************************)
EXTENDS Ufs

CONSTANTS
  BitsPerBlock,    \* bits_per_block (32768 in the code)
  InodesPerBlock,  \* UFS_BLOCK_SIZE / sizeof(inode_t) (32 in the code)
  IntBlocks,       \* blocks whose bytes an int can count (2^19 in the code)
  MinCount,        \* the least count of inodes and of blocks (32 in the code)
  InodeArgs, DataArgs  \* the arguments -i and -d it is run with

ASSUME MkfsAssumption ==
  /\ {BitsPerBlock, InodesPerBlock, IntBlocks, MinCount} \subseteq Nat \ {0}
  /\ InodeArgs \subseteq Nat /\ DataArgs \subseteq Nat

VARIABLES
  mk,       \* what mkfs does next: a key of Target, "none", "done" or "failed"
  super,    \* the super_t it computed
  length,   \* the length of the image file, in blocks
  mounted   \* a client's ufs_init has accepted the image

making == <<mk, super, length, mounted>>
mvars  == <<vars, making>>

-----------------------------------------------------------------------------
(* The layout.                                                             *)

\* Blocks for n things of which a block holds per, as C divides.
BlocksFor(n, per) ==
  IF n >= 0 THEN n \div per + (IF n % per = 0 THEN 0 ELSE 1)
            ELSE (IF (-n) % per = 0 THEN 0 ELSE 1) - ((-n) \div per)

\* The bytes of n inodes in an int, counted in inodes.
InodeBytes(n) ==
  LET half == IntBlocks * InodesPerBlock IN ((n + half) % (2 * half)) - half

Layout(ni, nd) ==
  LET ib == BlocksFor(ni, BitsPerBlock)
      db == BlocksFor(nd, BitsPerBlock)
      it == BlocksFor(InodeBytes(ni), InodesPerBlock)
  IN [num_inodes |-> ni, num_data |-> nd,
      inode_bitmap_addr |-> 1,
      data_bitmap_addr  |-> 1 + ib,
      inode_region_addr |-> 1 + ib + db,
      data_region_addr  |-> 1 + ib + db + it]

total_blocks == super.data_region_addr + super.num_data

\* The instance has the layout mkfs gives it; and block addresses overflow an
\* int's bytes to the negative ones only, as they do where bits_per_block is
\* 32768 and IntBlocks 2^19.
ASSUME LayoutAssumption ==
  /\ Layout(NumInodes, NumData).data_region_addr = DataStart
  /\ \A ni \in InodeArgs, nd \in DataArgs : Layout(ni, nd).data_region_addr < 2 * IntBlocks

-----------------------------------------------------------------------------
(* mkfs.                                                                   *)

BlankInode == [type |-> UFS_DIRECTORY, size |-> 0, direct |-> [s \in Slots |-> Superblock]]
BlankTable == [i \in Inodes |-> BlankInode]
BlankData  == [a \in BlockAddrs |-> Zeroes]

MInit ==
  /\ inode_bp = {} /\ data_bp = {} /\ inodes = BlankTable
  /\ dirty_inode_bp = {} /\ dirty_data_bp = {}
  /\ disk_inode_bp = {} /\ disk_data_bp = {} /\ disk_inodes = BlankTable
  /\ blocks = BlankData
  /\ pc = "idle" /\ frame = NoFrame /\ last = [op |-> "none", ret |-> 0]
  /\ leaked = {} /\ durable = {} /\ torn = FALSE
  /\ mk = "none" /\ super = Layout(0, 0) /\ length = 0 /\ mounted = FALSE

\* The file is truncated before the arguments are looked at.  (Bound: nobody
\* formats an image again that was finished, or has been mounted.)
Start(ni, nd) ==
  /\ mk \in {"none", "failed"} /\ ~mounted
  /\ mk' = IF ni < MinCount \/ nd < MinCount THEN "failed" ELSE "super"
  /\ super' = Layout(ni, nd) /\ length' = 0
  /\ disk_inode_bp' = {} /\ disk_data_bp' = {} /\ disk_inodes' = BlankTable
  /\ blocks' = BlankData
  /\ torn' = FALSE
  /\ UNCHANGED <<core, pc, frame, last, leaked, durable, mounted>>

Steps == {"super", "zero", "inode bitmap", "data bitmap", "inode table", "root"}

\* The block each write goes to; the loop's is the one at the end of the file.
Target(step) ==
  CASE step = "super"        -> 0
    [] step = "zero"         -> length
    [] step = "inode bitmap" -> super.inode_bitmap_addr
    [] step = "data bitmap"  -> super.data_bitmap_addr
    [] step = "inode table"  -> super.inode_region_addr
    [] step = "root"         -> super.data_region_addr

ZeroOr(step) == IF length + 1 < total_blocks THEN "zero" ELSE step

FaultyAfterRootFirst(step) ==
  CASE step \in {"super", "zero"} -> ZeroOr("inode bitmap")
    [] step = "inode bitmap" -> "inode table"
    [] step = "inode table"  -> "root"
    [] step = "root"         -> "data bitmap"
    [] step = "data bitmap"  -> "done"

\* What is written after each.
After(step) ==
  CASE step \in {"super", "zero"} -> ZeroOr("inode bitmap")
    [] step = "inode bitmap" -> "data bitmap"
    [] step = "data bitmap"  -> "inode table"
    [] step = "inode table"  -> "root"
    [] step = "root"         -> "done"

\* The offset of a block is an int product.  Where it overflows it is what the
\* compiler makes of it: the block's offset, or a negative one, at which
\* pwrite fails.
Writes(step) ==
  /\ mk = step /\ Target(step) >= 0
  /\ mk' = After(step) /\ length' = Max({length, Target(step) + 1})
  /\ UNCHANGED <<super, mounted>>

WriteSuper == Writes("super") /\ UNCHANGED vars

ZeroBlock == Writes("zero") /\ UNCHANGED vars

WriteInodeBitmap ==
  /\ Writes("inode bitmap") /\ disk_inode_bp' = {0}
  /\ UNCHANGED <<core, disk_data_bp, disk_inodes, blocks, pc, frame, last, hist>>

WriteDataBitmap ==
  /\ Writes("data bitmap") /\ disk_data_bp' = {0}
  /\ UNCHANGED <<core, disk_inode_bp, disk_inodes, blocks, pc, frame, last, hist>>

\* The first block of the table: its inodes but the root's are what the stack held.
WriteTable ==
  /\ Writes("inode table")
  /\ \E s \in [Inodes -> StaleInodes] :
       disk_inodes' = [i \in Inodes |-> IF i = 0 THEN RootInode
                         ELSE IF i < InodesPerBlock THEN s[i] ELSE BlankInode]
  /\ UNCHANGED <<core, disk_inode_bp, disk_data_bp, blocks, pc, frame, last, hist>>

WriteRoot ==
  /\ Writes("root")
  /\ blocks' = [blocks EXCEPT ![DataStart] = EmptyDir(0, 0)]
  /\ durable' = {0}
  /\ UNCHANGED <<core, disk_inode_bp, disk_data_bp, disk_inodes, pc, frame, last, leaked, torn>>

\* A write fails, or the process dies before it.
MkfsEnds ==
  /\ mk \in Steps
  /\ Target(mk) \notin 0 .. IntBlocks - 1 \/ CrashPoints = "any"
  /\ mk' = "failed" /\ torn' = TRUE
  /\ UNCHANGED <<core, image, pc, frame, last, leaked, durable, super, length, mounted>>

Make == \/ \E ni \in InodeArgs, nd \in DataArgs : Start(ni, nd)
        \/ WriteSuper \/ ZeroBlock \/ WriteInodeBitmap \/ WriteDataBitmap
        \/ WriteTable \/ WriteRoot \/ MkfsEnds

-----------------------------------------------------------------------------
(* ufs_init.                                                               *)

\* (What the kernel's filesystem.c:190 tests: the product in 32 bits.)
FaultyAccepted32Bits ==
  LET s == super IN
  /\ length >= s.inode_bitmap_addr + BlocksFor(s.num_inodes, BitsPerBlock)
  /\ length >= s.data_bitmap_addr + BlocksFor(s.num_data, BitsPerBlock)
  /\ length >= s.inode_region_addr + BlocksFor(InodeBytes(s.num_inodes), InodesPerBlock)

\* It reads superblock, bitmaps and table, and exits if one of them is short:
\* the file ends too early, or read(2), which gives no more than fits an int.
Accepted ==
  LET s == super IN
  /\ length >= s.inode_bitmap_addr + BlocksFor(s.num_inodes, BitsPerBlock)
  /\ length >= s.data_bitmap_addr + BlocksFor(s.num_data, BitsPerBlock)
  /\ length >= s.inode_region_addr + BlocksFor(s.num_inodes, InodesPerBlock)
  /\ s.num_inodes <= (IntBlocks - 1) * InodesPerBlock

Mount ==
  /\ mk \in {"done", "failed"} /\ ~mounted /\ Accepted
  /\ super = Layout(NumInodes, NumData)   \* bound: clients of other images are not modelled
  /\ mounted' = TRUE /\ Restart
  /\ UNCHANGED <<mk, super, length>>

Run == mounted /\ Next /\ UNCHANGED making

MNext == Make \/ Mount \/ Run

MSpec == MInit /\ [][MNext]_mvars

-----------------------------------------------------------------------------
(* Properties.                                                             *)

\* Whatever the arguments, an image that ufs_init accepts has its regions in
\* order, each with room for what it holds: where total_inode_bytes overflows
\* (mkfs.c:85) and the inode table runs into the data, or lies behind it,
\* nobody ever mounts the image, finished or not.
LayoutSound ==
  Accepted =>
    /\ super.num_inodes <= (super.data_bitmap_addr - super.inode_bitmap_addr) * BitsPerBlock
    /\ super.num_data   <= (super.inode_region_addr - super.data_bitmap_addr) * BitsPerBlock
    /\ super.num_inodes <= (super.data_region_addr - super.inode_region_addr) * InodesPerBlock
    /\ mk = "done" => length >= super.data_region_addr + super.num_data

\* mkfs writes the superblock first (mkfs.c:97), so an image it did not finish
\* can be mounted, and calls on it may even succeed; but one question tells:
\* only in the root of a finished image is there a dot, whatever clients did
\* to it and wherever they died.
DotTells == mounted => (ufs_lookup(0, Dot) = 0 <=> mk = "done")
=============================================================================
