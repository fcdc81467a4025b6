-------------------------------- MODULE Ufs --------------------------------
(***************************************************************************)
(* The ufs file system, as the host tool fs/ufs.c runs it on a disk image: *)
(* an in-core copy of the two allocation bitmaps and of the inode table,   *)
(* two dirty bitmaps, and the image itself.  A handler changes the in-core *)
(* copy, writes directory and file blocks straight to the image, and then  *)
(* runs commit_dirty_to_disk, which writes the dirty metadata one bitmap   *)
(* word or one inode at a time.  Every write to the image is a step of its *)
(* own, so the process may die between any two of them.                    *)
(*                                                                         *)
(* Data is abstracted to cells of the size of one dir_ent_t (32 bytes): a  *)
(* block has BlockSize cells, sizes and offsets count cells.  A cell is a  *)
(* directory entry, the bytes a client wrote to a file at an offset, or    *)
(* the zeroes of mkfs.                                                     *)
(***************************************************************************)
EXTENDS Integers, FiniteSets, FiniteSetsExt

CONSTANTS
  NumInodes,    \* super_t.num_inodes
  NumData,      \* super_t.num_data
  DataStart,    \* super_t.data_region_addr, in blocks
  DirectPtrs,   \* DIRECT_PTRS (30 in the code)
  BlockSize,    \* UFS_BLOCK_SIZE / sizeof(dir_ent_t) (128 in the code)
  WordBits,     \* bits of a bitmap word (32 in the code)
  Names,        \* the file names clients use
  LongNames,    \* those of them that are longer than 27 bytes
  Ops,          \* the calls clients make, a subset of AllOps
  AppendOnly,   \* TRUE when clients only write at the end of a file
  CrashPoints,  \* when the process may die: "never", "idle" or "any"
  StaleInodes,  \* contents an inode never written by mkfs may have
  DirtyGarbage, \* contents the malloc'ed dirty bitmaps may start with
  MaxFileSize   \* bound: clients stop growing a file at this size

AllOps == {"lookup", "creat", "write", "read", "unlink"}

UFS_DIRECTORY    == 0
UFS_REGULAR_FILE == 1

Dot       == "."
DotDot    == ".."
NoName    == ""         \* the name of a zeroed or uninitialised entry
FileBytes == "<bytes>"  \* what a file's data looks like read as an entry

ASSUME SizesAssumption ==
  /\ NumInodes \in Nat \ {0} /\ NumData \in Nat \ {0}
  /\ DataStart \in Nat \ {0} /\ DirectPtrs \in Nat \ {0}
  /\ BlockSize \in Nat \ {0, 1} /\ WordBits \in Nat \ {0}
  /\ MaxFileSize \in Nat

ASSUME ClientAssumption ==
  /\ {Dot, DotDot, NoName, FileBytes} \cap Names = {}
  /\ LongNames \subseteq Names
  /\ Ops \subseteq AllOps
  /\ AppendOnly \in BOOLEAN
  /\ CrashPoints \in {"never", "idle", "any"}

Inodes    == 0 .. NumInodes - 1
DataBits  == 0 .. NumData - 1
DataAddrs == DataStart .. DataStart + NumData - 1
Slots     == 0 .. DirectPtrs - 1
Cells     == 0 .. BlockSize - 1
Capacity  == DirectPtrs * BlockSize   \* DIRECT_PTRS * UFS_BLOCK_SIZE

Superblock == 0
BlockAddrs == DataAddrs \cup {Superblock}

NoBlock  == -1                        \* (unsigned int)(-1) in direct[]
NoBlocks == [s \in Slots |-> NoBlock]

Inode == [type   : {UFS_DIRECTORY, UFS_REGULAR_FILE}, size : Int,
          direct : [Slots -> BlockAddrs \cup {NoBlock}]]

\* mkfs leaves zeroes or the bytes of its stack in the inodes it does not set.
ASSUME GarbageAssumption ==
  /\ StaleInodes # {} /\ StaleInodes \subseteq Inode
  /\ DirtyGarbage # {} /\ \A g \in DirtyGarbage : g \subseteq Nat

Cell == [name : Names \cup {Dot, DotDot, NoName, FileBytes},
         inum : Int, off : Int]

Entry(n, i) == [name |-> n, inum |-> i, off |-> 0]
Byte(i, k)  == [name |-> FileBytes, inum |-> i, off |-> k]
ZeroCell    == [name |-> NoName, inum |-> 0, off |-> 0]
FreeCell    == [name |-> NoName, inum |-> -1, off |-> 0]

Zeroes == [c \in Cells |-> ZeroCell]

FaultyEmptyDirNoDotDot(i, parent) ==
  [c \in Cells |-> IF c = 0 THEN Entry(Dot, i) ELSE FreeCell]
FaultyEmptyDirOwnParent(i, parent) ==
  [c \in Cells |-> CASE c = 0 -> Entry(Dot, i)
                     [] c = 1 -> Entry(DotDot, i)
                     [] OTHER -> FreeCell]

\* Fresh directory blocks: with one entry, and with . and ..
NewDirBlock(ent)   == [c \in Cells |-> IF c = 0 THEN ent ELSE FreeCell]
EmptyDir(i, parent) ==
  [c \in Cells |-> CASE c = 0 -> Entry(Dot, i)
                     [] c = 1 -> Entry(DotDot, parent)
                     [] OTHER -> FreeCell]

VARIABLES
  \* in core (struct ufs)
  inode_bp, data_bp, inodes, dirty_inode_bp, dirty_data_bp,
  \* the image
  disk_inode_bp, disk_data_bp, disk_inodes, blocks,
  \* the running handler
  pc,       \* where it is; "idle" between calls
  frame,    \* its local variables
  last,     \* the last creat, write or unlink that returned, and its result
  \* history
  leaked,   \* inodes a creat allocated before it returned -1
  durable,  \* allocated inodes whose table entry has been written to the image
  torn      \* the process once died inside a handler

core  == <<inode_bp, data_bp, inodes, dirty_inode_bp, dirty_data_bp>>
image == <<disk_inode_bp, disk_data_bp, disk_inodes, blocks>>
hist  == <<leaked, durable, torn>>
vars  == <<inode_bp, data_bp, inodes, dirty_inode_bp, dirty_data_bp,
           disk_inode_bp, disk_data_bp, disk_inodes, blocks,
           pc, frame, last, leaked, durable, torn>>

Dead == {"exited", "assert_failed", "wild"}  \* exit(1), assert(), inodes[-4]

\* inum, new, name, full, data: the locals of ufs_creat (inum is pinum);
\* inum, blk, off, left: those of ufs_write; op and at: which handler runs
\* commit_dirty_to_disk and the inode it is writing.
NoFrame == [op |-> "none", inum |-> 0, new |-> 0, name |-> NoName,
            full |-> FALSE, data |-> -1, blk |-> 0, off |-> 0, left |-> 0,
            at |-> 0]

-----------------------------------------------------------------------------
(* Bitmaps.  A bitmap is the set of the indices whose bit is set.          *)

\* (Operators whose names start with Faulty are what the definition after them
\* would be with a bug; no specification uses them.  They show that the
\* properties tell the two apart.)

FaultyResetKeepsBit(b, i)   == b
FaultyResetClearsWord(b, i) == {j \in b : j \div WordBits # i \div WordBits}

set_bitmap(b, i)   == b \cup {i}
reset_bitmap(b, i) == b \ {i}

FaultyWriteNextWord(old, new, i) ==
  {j \in old \cup new : IF j \div WordBits = (i \div WordBits) + 1
                        THEN j \in new ELSE j \in old}

\* A bitmap on disk after the word of index i is written from the in-core one.
WriteWord(old, new, i) ==
  {j \in old \cup new : IF j \div WordBits = i \div WordBits
                        THEN j \in new ELSE j \in old}

FaultyFirstFreeToN(b, lo, n) ==
  LET free == (lo .. n) \ b IN IF free = {} THEN -1 ELSE Min(free)
FaultyFirstFreeFromZero(b, lo, n) ==
  LET free == (0 .. n - 1) \ b IN IF free = {} THEN -1 ELSE Min(free)

\* The first clear bit among 0 .. n - 1 from index lo on, or -1.
FirstFree(b, lo, n) ==
  LET free == (lo .. n - 1) \ b IN IF free = {} THEN -1 ELSE Min(free)

-----------------------------------------------------------------------------
(* Reading the tree.                                                       *)

Ptr(i, k)    == inodes[i].direct[k \div BlockSize]
CellAt(i, k) == blocks[Ptr(i, k)][k % BlockSize]

HasFree(a) == \E c \in Cells : blocks[a][c].inum = -1

FaultyIsFullSeesUnset(p) ==
  \A s \in Slots : inodes[p].direct[s] # NoBlock /\ ~HasFree(inodes[p].direct[s])

\* Whether every block of directory p is full: the test of ufs_creat.
IsFull(p) ==
  \A s \in Slots : inodes[p].direct[s] # NoBlock => ~HasFree(inodes[p].direct[s])

\* Answers of ufs_lookup that end the process: a block that cannot be read,
\* and assert(dir_ent.inum != -1).
Exits       == -10
AssertFails == -11
Death(r)    == IF r = Exits THEN "exited" ELSE "assert_failed"
Dies(r)     == r \in {Exits, AssertFails}

FaultyEntriesReadButLast(p) ==
  IF inodes[p].size \in 1 .. Capacity THEN inodes[p].size - 1 ELSE Capacity

\* The number of entries ufs_lookup reads: dir_ent_cnt counts down to zero.
EntriesRead(p) ==
  IF inodes[p].size \in 0 .. Capacity THEN inodes[p].size ELSE Capacity

\* The entries ufs_lookup stops at: unreadable, unused, or called n.
LookupStops(p, n) ==
  {k \in 0 .. EntriesRead(p) - 1 :
     \/ Ptr(p, k) = NoBlock
     \/ CellAt(p, k).inum = -1
     \/ CellAt(p, k).name = n}

ufs_lookup(p, n) ==
  IF p \notin Inodes THEN -2
  ELSE IF p \notin inode_bp THEN -3
  ELSE IF inodes[p].type # UFS_DIRECTORY THEN -4
  ELSE IF LookupStops(p, n) = {} THEN -1
  ELSE LET k == Min(LookupStops(p, n)) IN
       IF Ptr(p, k) = NoBlock THEN Exits
       ELSE IF CellAt(p, k).inum = -1 THEN AssertFails
       ELSE CellAt(p, k).inum

-----------------------------------------------------------------------------
(* mkfs followed by ufs_init.                                              *)

RootInode == [type   |-> UFS_DIRECTORY, size |-> 2,
              direct |-> [NoBlocks EXCEPT ![0] = DataStart]]

MkfsBlocks ==
  [a \in BlockAddrs |-> IF a = DataStart THEN EmptyDir(0, 0) ELSE Zeroes]

\* ufs_init reads bitmaps and inode table; the dirty bitmaps are malloc'ed
\* and never cleared.
ufs_init(ibp, dbp, itable) ==
  /\ inode_bp = ibp /\ data_bp = dbp /\ inodes = itable
  /\ \E g \in DirtyGarbage : dirty_inode_bp = g \cap Inodes
  /\ \E g \in DirtyGarbage : dirty_data_bp = g \cap DataBits

Init ==
  /\ disk_inode_bp = {0} /\ disk_data_bp = {0}
  /\ \E s \in [Inodes -> StaleInodes] :
       disk_inodes = [s EXCEPT ![0] = RootInode]
  /\ blocks = MkfsBlocks
  /\ ufs_init(disk_inode_bp, disk_data_bp, disk_inodes)
  /\ pc = "idle" /\ frame = NoFrame /\ last = [op |-> "none", ret |-> 0]
  /\ leaked = {} /\ durable = {0} /\ torn = FALSE

-----------------------------------------------------------------------------
(* Calls that begin and return.                                            *)

Idle(op) == pc = "idle" /\ op \in Ops

Return(op, r) ==
  /\ pc' = "idle" /\ frame' = NoFrame /\ last' = [op |-> op, ret |-> r]

Die(how) == pc' = how /\ frame' = NoFrame /\ UNCHANGED last

\* The call returns or dies at once and changes nothing.
Answer(op, r) ==
  /\ IF Dies(r) THEN Die(Death(r)) ELSE Return(op, r)
  /\ UNCHANGED <<core, image, hist>>

\* The arguments clients pass: every inode number and one off either end, and
\* every offset and count up to one past the largest that is accepted.
Inums   == -1 .. NumInodes
Offsets == -1 .. MaxFileSize + 1
Counts  == 0 .. BlockSize + 1

\* A call that asks and changes nothing, unless the process dies of it.
Ask(op, answers) ==
  /\ Idle(op)
  /\ \E r \in answers : IF Dies(r) THEN Answer(op, r) ELSE UNCHANGED vars

Lookup == Ask("lookup", {ufs_lookup(p, n) : p \in Inums, n \in Names})

-----------------------------------------------------------------------------
(* ufs_creat(p, t, n): allocate the inode, perhaps with a block of its own *)
(* for a directory, then link it into the parent, then commit.             *)

CreatArgsRefused(p, n) ==
  \/ p \notin Inodes \cap inode_bp
  \/ p \in inode_bp /\ inodes[p].type # UFS_DIRECTORY
  \/ n \in LongNames

\* What a creat of type t in p lacks once it has taken an inode.
NoRoom(p, t, d1, d2) ==
  \/ inodes[p].size = Capacity
  \/ t = UFS_DIRECTORY /\ (d1 = -1 \/ (IsFull(p) /\ d2 = -1))

\* The answer of a creat that returns, or dies, before anything is changed;
\* 0 when it goes on.
CreatRefusal(p, n) ==
  IF CreatArgsRefused(p, n) THEN -1
  ELSE LET r == ufs_lookup(p, n) IN
       IF Dies(r) THEN r
       ELSE IF r # -1 \/ FirstFree(inode_bp, 0, NumInodes) = -1 THEN -1 ELSE 0

CreatRefused ==
  /\ Idle("creat")
  /\ \E r \in {CreatRefusal(p, n) : p \in Inums, n \in Names} \ {0} : Answer("creat", r)

\* The inode is allocated and stays so, though the call then returns -1.
CreatFails(p, t, n) ==
  LET e  == FirstFree(inode_bp, 0, NumInodes)
      d1 == FirstFree(data_bp, 0, NumData)
      d2 == IF d1 = -1 THEN -1 ELSE FirstFree(data_bp, d1 + 1, NumData)
  IN /\ Idle("creat")
     /\ CreatRefusal(p, n) = 0
     /\ NoRoom(p, t, d1, d2)
     /\ inode_bp' = set_bitmap(inode_bp, e)
     /\ dirty_inode_bp' = set_bitmap(dirty_inode_bp, e)
     /\ inodes' = [inodes EXCEPT ![e].type = t, ![e].direct = NoBlocks]
     /\ leaked' = leaked \cup {e}
     /\ Return("creat", -1)
     /\ UNCHANGED <<data_bp, dirty_data_bp, image, durable, torn>>

\* The inode of a new file, or the inode and block of a new directory.
CreatAllocates(p, t, n) ==
  LET e  == FirstFree(inode_bp, 0, NumInodes)
      d1 == FirstFree(data_bp, 0, NumData)
      d2 == IF d1 = -1 THEN -1 ELSE FirstFree(data_bp, d1 + 1, NumData)
      mkdir == t = UFS_DIRECTORY
  IN /\ Idle("creat")
     /\ CreatRefusal(p, n) = 0
     /\ ~NoRoom(p, t, d1, d2)
     /\ inode_bp' = set_bitmap(inode_bp, e)
     /\ dirty_inode_bp' = set_bitmap(dirty_inode_bp, e)
     /\ inodes' = [inodes EXCEPT ![e] =
          [type   |-> t,
           size   |-> IF mkdir THEN 2 ELSE 0,
           direct |-> IF mkdir THEN [NoBlocks EXCEPT ![0] = d1 + DataStart]
                               ELSE NoBlocks]]
     /\ data_bp' = IF mkdir THEN set_bitmap(data_bp, d1) ELSE data_bp
     /\ dirty_data_bp' = IF mkdir THEN set_bitmap(dirty_data_bp, d1)
                                  ELSE dirty_data_bp
     /\ blocks' = IF mkdir THEN [blocks EXCEPT ![d1 + DataStart] = EmptyDir(e, p)]
                           ELSE blocks
     /\ pc' = "link"
     /\ frame' = [NoFrame EXCEPT !.op = "creat", !.inum = p, !.new = e,
                    !.name = n, !.full = IsFull(p),
                    !.data = IF mkdir THEN d2 ELSE d1]
     /\ UNCHANGED <<disk_inode_bp, disk_data_bp, disk_inodes, last, hist>>

\* The first slot of directory p that is empty.
FirstEmptySlot(p) == Min({s \in Slots : inodes[p].direct[s] = NoBlock})

\* The slots of p at which the search for a free entry stops, for the parent
\* is not full: the first unset pointer, which cannot be read, or a free entry.
LinkStops(p) ==
  {s \in Slots : inodes[p].direct[s] = NoBlock \/ HasFree(inodes[p].direct[s])}

FaultyFirstCell(a) == 0
FirstFreeCell(a) == Min({c \in Cells : blocks[a][c].inum = -1})

\* A full parent without a free block: the call returns -1.
LinkFails ==
  /\ pc = "link" /\ frame.full /\ frame.data = -1
  /\ dirty_inode_bp' = set_bitmap(dirty_inode_bp, frame.inum)
  /\ leaked' = leaked \cup {frame.new}
  /\ Return("creat", -1)
  /\ UNCHANGED <<inode_bp, data_bp, inodes, dirty_data_bp, image, durable, torn>>

\* A full parent is given a new block that holds the entry.
LinkInNewBlock ==
  LET p    == frame.inum
      addr == frame.data + DataStart
      slot == FirstEmptySlot(p)
      unset == {s \in Slots : inodes[p].direct[s] = NoBlock}
  IN /\ pc = "link" /\ frame.full /\ frame.data # -1
     /\ dirty_inode_bp' = set_bitmap(dirty_inode_bp, p)
     /\ blocks' = [blocks EXCEPT ![addr] = NewDirBlock(Entry(frame.name, frame.new))]
     /\ data_bp' = set_bitmap(data_bp, frame.data)
     /\ dirty_data_bp' = set_bitmap(dirty_data_bp, frame.data)
     /\ inodes' = [inodes EXCEPT ![p].size = @ + 1,
                     ![p].direct = IF unset = {} THEN @
                                   ELSE [@ EXCEPT ![slot] = addr]]
     /\ pc' = "commit" /\ frame' = [NoFrame EXCEPT !.op = "creat"]
     /\ UNCHANGED <<inode_bp, disk_inode_bp, disk_data_bp, disk_inodes, last, hist>>

\* Otherwise the first free entry is overwritten, unless an unset pointer
\* comes before it: then Read fails and the process exits.
LinkInFreeEntry ==
  LET p == frame.inum
      a == IF LinkStops(p) = {} THEN Superblock   \* none found: no entry written
           ELSE inodes[p].direct[Min(LinkStops(p))]
  IN /\ pc = "link" /\ ~frame.full
     /\ dirty_inode_bp' = set_bitmap(dirty_inode_bp, p)
     /\ IF a = NoBlock
        THEN Die("exited") /\ UNCHANGED <<inodes, blocks>>
        ELSE /\ blocks' = IF a = Superblock THEN blocks
                          ELSE [blocks EXCEPT ![a][FirstFreeCell(a)] =
                                  Entry(frame.name, frame.new)]
             /\ inodes' = [inodes EXCEPT ![p].size = @ + 1]
             /\ pc' = "commit" /\ frame' = [NoFrame EXCEPT !.op = "creat"]
             /\ UNCHANGED last
     /\ UNCHANGED <<inode_bp, data_bp, dirty_data_bp,
                    disk_inode_bp, disk_data_bp, disk_inodes, hist>>

-----------------------------------------------------------------------------
(* commit_dirty_to_disk: every dirty inode's bitmap word and table entry,  *)
(* then every dirty data bit's word; then fsync, and the call returns 0.   *)
(* (ufs_creat has no return statement: its caller sees fsync's 0.)         *)

CommitInodeBit ==
  /\ pc = "commit" /\ dirty_inode_bp # {}
  /\ LET i == Min(dirty_inode_bp) IN
       /\ dirty_inode_bp' = reset_bitmap(dirty_inode_bp, i)
       /\ disk_inode_bp' = WriteWord(disk_inode_bp, inode_bp, i)
       /\ frame' = [frame EXCEPT !.at = i]
  /\ pc' = "commit_inode"
  /\ UNCHANGED <<inode_bp, data_bp, inodes, dirty_data_bp,
                 disk_data_bp, disk_inodes, blocks, last, hist>>

CommitInode ==
  /\ pc = "commit_inode"
  /\ disk_inodes' = [disk_inodes EXCEPT ![frame.at] = inodes[frame.at]]
  /\ durable' = durable \cup ({frame.at} \cap inode_bp)
  /\ pc' = "commit" /\ frame' = [frame EXCEPT !.at = 0]
  /\ UNCHANGED <<core, disk_inode_bp, disk_data_bp, blocks, last, leaked, torn>>

CommitData ==
  /\ pc = "commit" /\ dirty_inode_bp = {} /\ dirty_data_bp # {}
  /\ LET d == Min(dirty_data_bp) IN
       /\ dirty_data_bp' = reset_bitmap(dirty_data_bp, d)
       /\ disk_data_bp' = WriteWord(disk_data_bp, data_bp, d)
  /\ UNCHANGED <<inode_bp, data_bp, inodes, dirty_inode_bp,
                 disk_inode_bp, disk_inodes, blocks, pc, frame, last, hist>>

CommitDone ==
  /\ pc = "commit" /\ dirty_inode_bp = {} /\ dirty_data_bp = {}
  /\ Return(frame.op, 0)
  /\ UNCHANGED <<core, image, hist>>

-----------------------------------------------------------------------------
(* ufs_write and ufs_read of n cells at offset off of file i.              *)

WriteArgsRefused(i, off, n) ==
  \/ i \notin Inodes \cap inode_bp
  \/ n > BlockSize \/ off < 0 \/ n <= 0
  \/ i \in inode_bp /\ (off > inodes[i].size \/ inodes[i].type # UFS_REGULAR_FILE)

WriteRefused ==
  /\ Idle("write")
  /\ {a \in Inums \X Offsets \X Counts : WriteArgsRefused(a[1], a[2], a[3])} # {}
  /\ Answer("write", -1)

WriteBegin(i, off, n) ==
  /\ Idle("write") /\ ~WriteArgsRefused(i, off, n)
  /\ AppendOnly => off = inodes[i].size
  /\ inodes[i].size + n <= MaxFileSize            \* bound
  /\ dirty_inode_bp' = set_bitmap(dirty_inode_bp, i)
  /\ pc' = "write"
  /\ frame' = [NoFrame EXCEPT !.op = "write", !.inum = i,
                 !.blk = off \div BlockSize, !.off = off % BlockSize, !.left = n]
  /\ UNCHANGED <<inode_bp, data_bp, inodes, dirty_data_bp, image, last, hist>>

FaultyWriteTargetAlwaysFree(i, b) ==
  LET d == FirstFree(data_bp, 0, NumData)
  IN IF d = -1 THEN NoBlock ELSE d + DataStart

\* The block that receives slot b of file i: its own, or a free one.
WriteTarget(i, b) ==
  IF inodes[i].direct[b] # NoBlock THEN inodes[i].direct[b]
  ELSE LET d == FirstFree(data_bp, 0, NumData)
       IN IF d = -1 THEN NoBlock ELSE d + DataStart

\* One turn of the loop over the blocks of the file.
WriteBlock ==
  LET i == frame.inum
      b == frame.blk
      a == WriteTarget(i, b)
      sz == Min({frame.left, BlockSize - frame.off})
      fresh == inodes[i].direct[b] = NoBlock
  IN /\ pc = "write" /\ b \in Slots /\ frame.left > 0 /\ a # NoBlock
     /\ data_bp' = IF fresh THEN set_bitmap(data_bp, a - DataStart) ELSE data_bp
     /\ dirty_data_bp' = IF fresh THEN set_bitmap(dirty_data_bp, a - DataStart)
                                  ELSE dirty_data_bp
     /\ blocks' = [blocks EXCEPT ![a] = [c \in Cells |->
          IF c \in frame.off .. frame.off + sz - 1
          THEN Byte(i, b * BlockSize + c) ELSE @[c]]]
     /\ inodes' = [inodes EXCEPT ![i].direct[b] = a, ![i].size = @ + sz]
     /\ frame' = [frame EXCEPT !.blk = b + 1, !.off = 0, !.left = @ - sz]
     /\ UNCHANGED <<inode_bp, dirty_inode_bp, pc, last,
                    disk_inode_bp, disk_data_bp, disk_inodes, hist>>

\* No free block: returns -1 with the earlier turns done but not committed.
WriteFails ==
  /\ pc = "write" /\ frame.blk \in Slots /\ frame.left > 0
  /\ WriteTarget(frame.inum, frame.blk) = NoBlock
  /\ Return("write", -1)
  /\ UNCHANGED <<core, image, hist>>

FaultyWriteEndASlotEarly ==
  /\ pc = "write" /\ (frame.blk \notin Slots \ {DirectPtrs - 1} \/ frame.left = 0)
  /\ pc' = "commit" /\ frame' = [NoFrame EXCEPT !.op = "write"]
  /\ UNCHANGED <<core, image, last, hist>>

WriteEnd ==
  /\ pc = "write" /\ (frame.blk \notin Slots \/ frame.left = 0)
  /\ pc' = "commit" /\ frame' = [NoFrame EXCEPT !.op = "write"]
  /\ UNCHANGED <<core, image, last, hist>>

\* The offsets of file i that a read of n cells at off reads.
ReadRange(off, n) == {k \in off .. off + n - 1 : k < Capacity}

ufs_read(i, off, n) ==
  IF \/ i \notin Inodes \/ i \notin inode_bp
     \/ off < 0 \/ n <= 0 \/ off + n > inodes[i].size
  THEN -1
  ELSE IF \E k \in ReadRange(off, n) : Ptr(i, k) = NoBlock THEN Exits ELSE 0

Read == Ask("read", {ufs_read(i, off, n) : i \in Inums, off \in Offsets, n \in Counts})

-----------------------------------------------------------------------------
(* ufs_unlink(p, n).  A pointer holds a block address, and it is the       *)
(* address itself that is cleared in data_bp and set in dirty_data_bp;     *)
(* bits past the bitmap fall in the slack of its malloc'ed chunk.          *)

FaultyUnlinkTakesFullDirs(p, n) ==
  \/ p \notin Inodes \cap inode_bp \/ n \in {Dot, DotDot}
  \/ ufs_lookup(p, n) = -1

UnlinkArgsRefused(p, n) ==
  \/ p \notin Inodes \cap inode_bp \/ n \in {Dot, DotDot}
  \/ ufs_lookup(p, n) = -1
  \/ LET i == ufs_lookup(p, n) IN
       /\ i \in Inodes
       /\ inodes[i].type = UFS_DIRECTORY /\ inodes[i].size # 2

\* A parent that is not a directory: ufs_lookup's -4 is used as an inode number.
UnlinkRefused(p, n) ==
  /\ Idle("unlink")
  /\ \/ UnlinkArgsRefused(p, n) /\ Answer("unlink", -1)
     \/ /\ ~UnlinkArgsRefused(p, n) /\ ufs_lookup(p, n) \notin Inodes
        /\ Die(IF Dies(ufs_lookup(p, n)) THEN Death(ufs_lookup(p, n)) ELSE "wild")
        /\ UNCHANGED <<core, image, hist>>

FaultyFreedBitsNextBlock(i) ==
  {inodes[i].direct[s] - DataStart + 1 :
     s \in {x \in Slots : inodes[i].direct[x] # NoBlock}}

\* The bits ufs_unlink clears for the pointers of inode i.
FreedBits(i) == {inodes[i].direct[s] : s \in Slots} \ {NoBlock}

\* The used entries of block a, and those of them called n.
UsedCells(a)     == {c \in Cells : blocks[a][c].inum # -1}
CellsNamed(a, n) == {c \in UsedCells(a) : blocks[a][c].name = n}

FaultyParentKeepsSizeWhenLone(p, s, lone) ==
  IF lone THEN [inodes[p] EXCEPT !.direct[s] = NoBlock]
  ELSE [inodes[p] EXCEPT !.size = @ - 1]

\* Directory p once an entry is gone from slot s, where it was alone or not.
ParentWithout(p, s, lone) ==
  [inodes[p] EXCEPT !.size = @ - 1,
                    !.direct = IF lone THEN [@ EXCEPT ![s] = NoBlock] ELSE @]

Unlink(p, n) ==
  LET i     == ufs_lookup(p, n)
      slots == {s \in Slots : /\ inodes[p].direct[s] # NoBlock
                              /\ CellsNamed(inodes[p].direct[s], n) # {}}
      s     == Min(slots)
      a     == inodes[p].direct[s]
      lone  == Cardinality(UsedCells(a)) = 1
      freed == FreedBits(i) \cup (IF lone THEN {a} ELSE {})
  IN /\ Idle("unlink")
     /\ ~UnlinkArgsRefused(p, n) /\ i \in Inodes
     /\ inode_bp' = reset_bitmap(inode_bp, i)
     /\ dirty_inode_bp' = set_bitmap(set_bitmap(dirty_inode_bp, i), p)
     /\ data_bp' = data_bp \ freed
     /\ dirty_data_bp' = dirty_data_bp \cup (freed \cap DataBits)
     /\ inodes' = [inodes EXCEPT ![p] = ParentWithout(p, s, lone)]
     /\ blocks' = IF lone THEN blocks
                  ELSE [blocks EXCEPT ![a][Max(CellsNamed(a, n))] = FreeCell]
     /\ pc' = "commit" /\ frame' = [NoFrame EXCEPT !.op = "unlink"]
     /\ leaked' = leaked \ {i}
     /\ UNCHANGED <<disk_inode_bp, disk_data_bp, disk_inodes, last, durable, torn>>

-----------------------------------------------------------------------------
(* The process ends, between calls or inside one, and ufs_init reads the   *)
(* image again.  Bits of the bitmap files past num_inodes and num_data are *)
(* never read.                                                             *)

MayDie == \/ CrashPoints = "any"
          \/ CrashPoints = "idle" /\ pc \in Dead \cup {"idle"}

Restart ==
  /\ MayDie
  /\ inode_bp' = disk_inode_bp /\ data_bp' = disk_data_bp /\ inodes' = disk_inodes
  /\ \E g \in DirtyGarbage : dirty_inode_bp' = g \cap Inodes
  /\ \E g \in DirtyGarbage : dirty_data_bp' = g \cap DataBits
  /\ pc' = "idle" /\ frame' = NoFrame /\ last' = [op |-> "none", ret |-> 0]
  /\ leaked' = leaked \cap disk_inode_bp
  /\ torn' = (torn \/ pc \notin Dead \cup {"idle"})
  /\ UNCHANGED <<image, durable>>

-----------------------------------------------------------------------------
Grow ==
  \/ Lookup \/ CreatRefused \/ WriteRefused \/ Read
  \/ \E p \in Inums, n \in Names, t \in {UFS_DIRECTORY, UFS_REGULAR_FILE} :
       CreatFails(p, t, n) \/ CreatAllocates(p, t, n)
  \/ \E i \in Inums, off \in Offsets, n \in Counts : WriteBegin(i, off, n)

Unlinks == \E p \in Inums, n \in Names \cup {Dot} : UnlinkRefused(p, n) \/ Unlink(p, n)

Call == Grow \/ Unlinks

Handler ==
  \/ LinkFails \/ LinkInNewBlock \/ LinkInFreeEntry
  \/ WriteBlock \/ WriteFails \/ WriteEnd
  \/ CommitInodeBit \/ CommitInode \/ CommitData \/ CommitDone

Next == Call \/ Handler \/ Restart

\* The process keeps running the handler it is in.
Spec == Init /\ [][Next]_vars /\ WF_vars(Handler)

-----------------------------------------------------------------------------
(* Properties.                                                             *)

TypeOK ==
  /\ inode_bp \subseteq Inodes /\ disk_inode_bp \subseteq Inodes
  /\ data_bp \subseteq DataBits /\ disk_data_bp \subseteq DataBits
  /\ dirty_inode_bp \subseteq Inodes /\ dirty_data_bp \subseteq DataBits
  /\ inodes \in [Inodes -> Inode] /\ disk_inodes \in [Inodes -> Inode]
  /\ blocks \in [BlockAddrs -> [Cells -> Cell]]
  /\ pc \in Dead \cup {"idle", "link", "write", "commit", "commit_inode"}
  /\ frame \in [op : AllOps \cup {"none"}, inum : Inodes, new : Inodes,
                name : Names \cup {NoName}, full : BOOLEAN,
                data : DataBits \cup {-1}, blk : Nat, off : Cells, left : Nat,
                at : Inodes]
  /\ last \in [op : AllOps \cup {"none"}, ret : Int]
  /\ leaked \subseteq Inodes /\ durable \subseteq Inodes /\ torn \in BOOLEAN

\* No in-core change is ever missing from the dirty bitmaps: whatever is not
\* marked dirty is on the image as it is in core.  commit_dirty_to_disk
\* (ufs.c:252) writes nothing else, so a handler that forgets one set_bitmap,
\* on a success or a failure path, loses an update for good.
InodeClean(i) ==
  /\ i \in inode_bp <=> i \in disk_inode_bp
  /\ inodes[i] # disk_inodes[i] => pc = "commit_inode" /\ frame.at = i

DataClean(d) == d \in data_bp <=> d \in disk_data_bp

Coherent ==
  /\ \A i \in Inodes \ dirty_inode_bp : InodeClean(i)
  /\ \A d \in DataBits \ dirty_data_bp : DataClean(d)

\* A creat, write or unlink that reports success has left the image equal to
\* the in-core file system, whatever failed calls before it left behind
\* ("Don't forget to fsync afterwards", ufs.c:251).
Synced ==
  /\ inode_bp = disk_inode_bp /\ data_bp = disk_data_bp /\ inodes = disk_inodes

SuccessIsDurable ==
  (/\ pc = "idle" /\ last.ret = 0
   /\ last.op \in {"creat", "write", "unlink"}) => Synced

\* A block belongs to one slot of one inode, and its bit is set, in every
\* state of every handler: two searches of data_bp (ufs.c:299, 457) never
\* hand out the same block twice.
Owners == {x \in inode_bp \X Slots : inodes[x[1]].direct[x[2]] # NoBlock}
AddrOf(x) == inodes[x[1]].direct[x[2]]

BlocksOwnedOnce ==
  ~torn =>
  /\ \A x, y \in Owners : AddrOf(x) = AddrOf(y) => x = y
  /\ \A x \in Owners : AddrOf(x) \in DataAddrs /\ AddrOf(x) - DataStart \in data_bp

\* Conversely every allocated block is reachable from an inode, also after
\* calls that failed half way: only unlink loses blocks.
NoBlockLost ==
  ~torn => \A d \in data_bp : \E x \in Owners : AddrOf(x) = d + DataStart

\* The entries of directory p, as <<block, cell>> pairs that are in use.
Entries(p) ==
  UNION {{<<a, c>> : c \in UsedCells(a)} :
         a \in {inodes[p].direct[s] : s \in Slots} \ {NoBlock}}
EntryAt(e) == blocks[e[1]][e[2]]

Directories ==
  {p \in inode_bp \ leaked : inodes[p].type = UFS_DIRECTORY}
Files ==
  {i \in inode_bp \ leaked : inodes[i].type = UFS_REGULAR_FILE}

\* A directory's size counts its used entries, the number ufs_lookup trusts
\* as dir_ent_cnt (ufs.c:218), after every allocation, link and unlink.
SizeCountsEntries ==
  ~torn => \A p \in Directories : inodes[p].size = Cardinality(Entries(p))

\* Between calls the entries other than . and .. form a tree of the allocated
\* inodes: each inode but the root and those a failed creat leaked has exactly
\* one entry, in the directory its .. names; a name occurs once in a directory.
\* (A leaked directory is the root of a tree of its own: it has no . and ..)
Links == UNION {{<<p, e>> : e \in {x \in Entries(p) : EntryAt(x).name \in Names}} :
                p \in {d \in inode_bp : inodes[d].type = UFS_DIRECTORY}}

TreeShape ==
  (~torn /\ pc \notin Dead \cup {"link"}) =>
  /\ \A l \in Links : EntryAt(l[2]).inum \in (inode_bp \ leaked) \ {0}
  /\ \A l, m \in Links :
       \/ EntryAt(l[2]).inum = EntryAt(m[2]).inum
       \/ l[1] = m[1] /\ EntryAt(l[2]).name = EntryAt(m[2]).name
       => l = m
  /\ \A i \in (inode_bp \ leaked) \ {0} :
       \E l \in Links : EntryAt(l[2]).inum = i
  /\ \A l \in Links :
       EntryAt(l[2]).inum \in Directories =>
         \E e \in Entries(EntryAt(l[2]).inum) :
           EntryAt(e).name = DotDot /\ EntryAt(e).inum = l[1]

\* ufs_lookup, which walks size entries from the front and stops at the first
\* unused one, finds exactly the entries the blocks of the directory hold.
LookupIsExact ==
  ~torn => \A p \in Directories, n \in Names :
    LET hits == {e \in Entries(p) : EntryAt(e).name = n}
    IN ufs_lookup(p, n) = IF hits = {} THEN -1
                          ELSE EntryAt(CHOOSE e \in hits : TRUE).inum

\* A file that is only appended to reads back what was written to it: every
\* offset below size lies in a block and holds the bytes written there, and
\* no slot past the end is set (a write cut short by a full disk included).
FileContents ==
  ~torn => \A i \in Files :
    /\ inodes[i].size \in 0 .. Capacity
    /\ \A k \in 0 .. inodes[i].size - 1 : Ptr(i, k) # NoBlock /\ CellAt(i, k) = Byte(i, k)
    /\ \A s \in Slots : inodes[i].direct[s] # NoBlock => s * BlockSize < inodes[i].size

\* "everything should work alright provided there are no errors" (ufs.c:309):
\* without unlink the process exits or fails its assertion only after a creat
\* returned -1 and left an inode behind.
DeathNeedsLeak == (pc \in Dead /\ ~torn) => leaked # {}

\* As long as no process has died inside a call, no write to the image changes
\* or hides a cell below the recorded size of a committed inode, up to and
\* including the write of commit_dirty_to_disk after which a process does die.
\* It says nothing of calls after that death: inodes are committed before the
\* data bitmap (ufs.c:266), so the bit of a block that a committed inode points
\* to may be clear, and the next allocation takes the block and overwrites it.
DiskCell(b, tab, i, k) == b[tab[i].direct[k \div BlockSize]][k % BlockSize]
OnDisk(tab, i) == {k \in 0 .. Capacity - 1 :
                     k < tab[i].size /\ tab[i].direct[k \div BlockSize] # NoBlock}

CommittedCellsStable ==
  [][~torn => \A i \in durable \cap disk_inode_bp : \A k \in OnDisk(disk_inodes, i) :
       /\ i \in disk_inode_bp' /\ k \in OnDisk(disk_inodes', i)
       /\ DiskCell(blocks', disk_inodes', i, k) = DiskCell(blocks, disk_inodes, i, k)]_vars

\* assert(dir_ent.inum != -1), ufs.c:241.
AssertionHolds == pc # "assert_failed"

\* "int size;   // bytes", ufs.h:13: a file has no more bytes than its blocks hold.
SizeIsBytes ==
  ~torn => \A i \in Files :
    inodes[i].size <= BlockSize * Cardinality({s \in Slots : inodes[i].direct[s] # NoBlock})

\* Every call comes to an end: the loops over blocks and dirty bits finish.
Running == {"link", "write", "commit", "commit_inode"}
CallsReturn == pc \in Running ~> pc \notin Running
=============================================================================
