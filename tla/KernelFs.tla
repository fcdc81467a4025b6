------------------------------ MODULE KernelFs ------------------------------
(***************************************************************************)
(* The kernel's copy of the file system, kernel/filesystem.c, mounted on   *)
(* the boot module, and what kernel_main does with it: print the tree.     *)
(* The module is an image that the host tool of Ufs made, as it stood      *)
(* between two calls or when a call ended the tool.                        *)
(*                                                                         *)
(* filesystem.c is fs/ufs.c over a disk driver.  Its in-core copy is in    *)
(* the same variables here, for the tool has ended when the kernel boots.  *)
(* It panics where the tool exits; it can read memory that is not a block  *)
(* of the module; and every write to the module panics, so that what a     *)
(* call changed before one is never seen again.                            *)
(***************************************************************************)
EXTENDS UfsTree

CONSTANTS
  Space, Start,  \* the address space and the module's start, see Initrd
  DNames,        \* the names that begin with a d
  StackDepth,    \* calls of print_fs_contents the 16 KiB stack can hold
  Misreads,      \* what memory that holds no directory may look like as an entry
  KernelOps      \* calls made in the kernel after it has printed the tree

ImageCells == (DataStart + NumData) * BlockSize

ASSUME KernelAssumption ==
  /\ Space \in Nat \ {0} /\ Start \in Nat
  /\ Space % BlockSize = 0 /\ Start % BlockSize = 0
  /\ Start >= BlockSize /\ Start + ImageCells < Space
  /\ DNames \subseteq Names /\ StackDepth \in Nat \ {0}
  /\ Misreads # {} /\ KernelOps \subseteq AllOps

Disk == INSTANCE Initrd WITH End <- Start + ImageCells

VARIABLES
  machine,  \* which program runs: "host" or "kernel"
  todo,     \* the directories print_fs_contents is still to be called with
  printed,  \* what it has printed: entries of directories, and files
  strayed   \* an entry was read from memory that holds no directory

kernel == <<machine, todo, printed, strayed>>
kvars  == <<vars, kernel>>

NothingPrinted == [entries |-> {}, files |-> {}]

KInit == Init /\ machine = "host" /\ todo = <<>> /\ printed = NothingPrinted
              /\ strayed = FALSE

-----------------------------------------------------------------------------
(* Access to the disk.                                                     *)

\* Read: the cursor is set first, so no access depends on an earlier one.
KRead(addr, count) ==
  LET s == Disk!initrd_lseek(Disk!BssCursor, addr) IN
  IF s.rc = -1 \/ Disk!initrd_read(s.cursor, count).rc # count THEN -1 ELSE 0

\* A read past the last direct block reads nothing and returns 0: its caller,
\* who reads cell after cell, finds the last cell again.
Offset(k)    == IF k < Capacity THEN k ELSE Capacity - 1
PtrTo(i, k)  == Ptr(i, Offset(k))
CellOf(i, k) == CellAt(i, Offset(k))

\* Where cell k of inode i is on the disk.  The product of an unset pointer,
\* (unsigned int)(-1), wraps around: to the memory before the module.
CellAddr(i, k) == (PtrTo(i, k) * BlockSize + (Offset(k) % BlockSize)) % Space

Readable(i, k) == KRead(CellAddr(i, k), 1) = 0

\* Whether cell k of inode i belongs to a directory, and what a dir_ent_t that
\* is read there holds; odd is what other memory looks like.
IsEntry(i, k)   == PtrTo(i, k) # NoBlock /\ CellOf(i, k).name # FileBytes
Seen(i, k, odd) == IF IsEntry(i, k) THEN CellOf(i, k) ELSE odd

-----------------------------------------------------------------------------
(* ufs_init, and print_fs_contents called by kernel_main.                  *)

\* The first read is of the superblock, at the cursor the bss has; bitmaps and
\* inode table follow, and end where the data blocks begin.
MountReads ==
  /\ Disk!initrd_read(Disk!BssCursor, 1).rc = 1
  /\ KRead(0, DataStart * BlockSize) = 0

Boot ==
  /\ machine = "host" /\ pc \in Dead \cup {"idle"}
  /\ machine' = "kernel"
  /\ inode_bp' = disk_inode_bp /\ data_bp' = disk_data_bp /\ inodes' = disk_inodes
  /\ \E g \in DirtyGarbage : dirty_inode_bp' = g \cap Inodes
  /\ \E g \in DirtyGarbage : dirty_data_bp' = g \cap DataBits
  /\ pc' = IF MountReads THEN "printing" ELSE "panic"
  /\ todo' = <<[inum |-> 0, depth |-> 1]>>
  /\ frame' = NoFrame /\ last' = [op |-> "none", ret |-> 0]
  /\ leaked' = leaked \cap disk_inode_bp
  /\ UNCHANGED <<image, durable, torn, printed, strayed>>

\* The cells of inode i that ufs_read grants one at a time.
Granted(i) == IF i \in Inodes \cap inode_bp THEN inodes[i].size ELSE 0

\* print_fs_contents(i) reads entries up to the first unused or unreadable one.
EntriesStop(i, odd) ==
  {k \in 0 .. Granted(i) - 1 : ~Readable(i, k) \/ Seen(i, k, odd).inum = -1}
EntriesPrinted(i, odd) ==
  IF EntriesStop(i, odd) = {} THEN Granted(i) ELSE Min(EntriesStop(i, odd))

\* print_file(i) prints a byte at a time; the second byte of a directory is
\* not at an offset that can be read.
CellsPrinted(i) ==
  IF Granted(i) > 0 /\ inodes[i].type = UFS_DIRECTORY THEN 1 ELSE Granted(i)
FileText(i) ==
  [k \in 1 .. CellsPrinted(i) |->
     IF PtrTo(i, k - 1) = NoBlock THEN ZeroCell ELSE CellOf(i, k - 1)]

\* The entries of s whose names are in S, in their order.
EntriesNamed(s, S) ==
  LET among[k \in 0 .. Len(s)] ==
        IF k = 0 THEN <<>>
        ELSE IF s[k].name \in S THEN Append(among[k - 1], s[k]) ELSE among[k - 1]
  IN among[Len(s)]

FaultySubdirsNotDot(s) == EntriesNamed(s, Names \cup {NoName})
FaultySubdirsUp(s)     == EntriesNamed(s, DNames \cup {DotDot})
\* Entries that are taken for directories: the test is on the name's first byte.
Subdirs(s)    == EntriesNamed(s, DNames)
PlainFiles(s) == {x \in Range(s) : x.name \notin DNames \cup {Dot, DotDot}}

\* One call of print_fs_contents, without the calls it makes of itself.
PrintDirectory ==
  /\ pc = "printing" /\ todo # <<>>
  /\ \E odd \in Misreads :
       LET i     == Head(todo).inum
           depth == Head(todo).depth
           n     == EntriesPrinted(i, odd)
           ents  == [k \in 1 .. n |-> Seen(i, k - 1, odd)]
           files == {x.inum : x \in PlainFiles(ents)}
           subs  == Subdirs(ents)
       IN /\ strayed' = \/ strayed
                        \/ \E k \in 0 .. Granted(i) - 1 : k <= n /\ ~IsEntry(i, k)
                        \/ \E f \in files : \E k \in 0 .. CellsPrinted(f) - 1 : PtrTo(f, k) = NoBlock
          /\ IF depth > StackDepth
             THEN pc' = "overflow" /\ UNCHANGED <<todo, printed>>
             ELSE IF \/ n < Granted(i) /\ ~Readable(i, n)
                     \/ \E f \in files : \E k \in 0 .. CellsPrinted(f) - 1 : ~Readable(f, k)
             THEN pc' = "panic" /\ UNCHANGED <<todo, printed>>
             ELSE /\ todo' = [k \in 1 .. Len(subs) |-> [inum |-> subs[k].inum, depth |-> depth + 1]]
                             \o Tail(todo)
                  /\ printed' =
                       [entries |-> printed.entries \cup {<<i, x>> : x \in Range(ents)},
                        files   |-> printed.files \cup {<<f, FileText(f)>> : f \in files}]
                  /\ UNCHANGED pc
  /\ UNCHANGED <<core, image, frame, last, hist, machine>>

PrintDone ==
  /\ pc = "printing" /\ todo = <<>> /\ pc' = "halted"
  /\ UNCHANGED <<core, image, frame, last, hist, kernel>>

-----------------------------------------------------------------------------
(* The calls of filesystem.c, which nothing in the kernel makes so far.    *)
(* Of those that get as far as writing to the disk, only the panic is left. *)

KReturn(op, r) == pc' = "halted" /\ last' = [op |-> op, ret |-> r] /\ UNCHANGED frame

KPanic == /\ pc' = "panic"
          /\ UNCHANGED <<core, image, frame, last, hist, kernel>>

FaultyLookupPassesUnused(p, n, odd) ==
  IF p \notin Inodes THEN -2
  ELSE IF p \notin inode_bp THEN -3
  ELSE IF inodes[p].type # UFS_DIRECTORY THEN -4
  ELSE LET stops == {k \in 0 .. EntriesRead(p) - 1 :
                       ~Readable(p, k) \/ Seen(p, k, odd).name = n}
           k == Min(stops)
       IN IF stops = {} THEN -1
          ELSE IF ~Readable(p, k) THEN Exits
          ELSE Seen(p, k, odd).inum

kufs_lookup(p, n, odd) ==
  IF p \notin Inodes THEN -2
  ELSE IF p \notin inode_bp THEN -3
  ELSE IF inodes[p].type # UFS_DIRECTORY THEN -4
  ELSE LET stops == {k \in 0 .. EntriesRead(p) - 1 :
                       \/ ~Readable(p, k)
                       \/ Seen(p, k, odd).inum = -1
                       \/ Seen(p, k, odd).name = n}
           k == Min(stops)
       IN IF stops = {} THEN -1
          ELSE IF ~Readable(p, k) THEN Exits
          ELSE IF Seen(p, k, odd).inum = -1 THEN AssertFails
          ELSE Seen(p, k, odd).inum

\* (Lookups and reads that return change nothing.)
KLookup ==
  \E p \in Inums, n \in Names, odd \in Misreads :
    Dies(kufs_lookup(p, n, odd)) /\ KPanic

\* The kernel panics in a read whose last byte is the module's last.
KReadCall ==
  \E i \in Inodes \cap inode_bp : \E k \in 0 .. inodes[i].size - 1 :
    ~Readable(i, k) /\ KPanic

KCreatRefusal(p, n, odd) ==
  IF CreatArgsRefused(p, n) THEN -1
  ELSE LET r == kufs_lookup(p, n, odd) IN
       IF Dies(r) THEN r
       ELSE IF r # -1 \/ FirstFree(inode_bp, 0, NumInodes) = -1 THEN -1 ELSE 0

\* The search for a block of p with room reads whole blocks.
BlockFails(p, s) == KRead(inodes[p].direct[s] * BlockSize, BlockSize) = -1
RoomStops(p) ==
  {s \in Slots : inodes[p].direct[s] # NoBlock
                   /\ (BlockFails(p, s) \/ HasFree(inodes[p].direct[s]))}
RoomSearchFails(p) == RoomStops(p) # {} /\ BlockFails(p, Min(RoomStops(p)))

\* Whether the call ends for lack of room before it writes to the disk.
KNoRoom(p, t) ==
  LET d1 == FirstFree(data_bp, 0, NumData)
      d2 == IF d1 = -1 THEN -1 ELSE FirstFree(data_bp, d1 + 1, NumData)
  IN \/ inodes[p].size = Capacity
     \/ /\ ~RoomSearchFails(p)
        /\ IF t = UFS_DIRECTORY THEN d1 = -1 \/ (RoomStops(p) = {} /\ d2 = -1)
                                ELSE RoomStops(p) = {} /\ d1 = -1

\* The inode stays allocated; a regular file is given its size, and its parent
\* is marked dirty, before the lack of a block shows.
KCreatFails(p, t, n, odd) ==
  LET e == FirstFree(inode_bp, 0, NumInodes)
      sized == t = UFS_REGULAR_FILE /\ inodes[p].size # Capacity
  IN /\ KCreatRefusal(p, n, odd) = 0 /\ KNoRoom(p, t)
     /\ inode_bp' = set_bitmap(inode_bp, e)
     /\ dirty_inode_bp' = dirty_inode_bp \cup {e} \cup (IF sized THEN {p} ELSE {})
     /\ inodes' = [inodes EXCEPT ![e].type = t, ![e].direct = NoBlocks,
                                 ![e].size = IF sized THEN 0 ELSE @]
     /\ leaked' = leaked \cup {e}
     /\ KReturn("creat", -1)
     /\ UNCHANGED <<data_bp, dirty_data_bp, image, durable, torn, kernel>>

KCreat ==
  \E p \in Inums, t \in {UFS_DIRECTORY, UFS_REGULAR_FILE}, n \in Names, odd \in Misreads :
    \/ /\ KCreatRefusal(p, n, odd) = -1 /\ KReturn("creat", -1)
       /\ UNCHANGED <<core, image, hist, kernel>>
    \/ Dies(KCreatRefusal(p, n, odd)) /\ KPanic
    \/ KCreatFails(p, t, n, odd)
    \/ KCreatRefusal(p, n, odd) = 0 /\ ~KNoRoom(p, t) /\ KPanic

FaultyWriteFailsSized(i, n) ==
  /\ KReturn("write", -1) /\ dirty_inode_bp' = set_bitmap(dirty_inode_bp, i)
  /\ inodes' = [inodes EXCEPT ![i].size = @ + n]
  /\ UNCHANGED <<inode_bp, data_bp, dirty_data_bp, image, hist, kernel>>

\* Without a block for its first turn a write of n cells returns -1, and the
\* inode stays marked dirty.
KWriteFails(i, n) ==
  /\ KReturn("write", -1) /\ dirty_inode_bp' = set_bitmap(dirty_inode_bp, i)
  /\ UNCHANGED <<inode_bp, data_bp, inodes, dirty_data_bp, image, hist, kernel>>

\* Otherwise it writes data, or commits, and panics.
KWrite ==
  \E i \in Inums, off \in Offsets, n \in Counts :
    IF WriteArgsRefused(i, off, n)
    THEN KReturn("write", -1) /\ UNCHANGED <<core, image, hist, kernel>>
    ELSE IF /\ off \div BlockSize \in Slots
            /\ WriteTarget(i, off \div BlockSize) = NoBlock
    THEN KWriteFails(i, n)
    ELSE KPanic

\* Beyond its checks ufs_unlink always writes: the entry, or what it commits.
KUnlink ==
  \E p \in Inums, n \in Names \cup {Dot}, odd \in Misreads :
    LET i == kufs_lookup(p, n, odd) IN
    IF \/ p \notin Inodes \cap inode_bp \/ n = Dot \/ i = -1
       \/ i \in Inodes /\ inodes[i].type = UFS_DIRECTORY /\ inodes[i].size # 2
    THEN KReturn("unlink", -1) /\ UNCHANGED <<core, image, hist, kernel>>
    ELSE IF i \in Inodes \/ Dies(i) THEN KPanic
    ELSE pc' = "wild" /\ UNCHANGED <<core, image, frame, last, hist, kernel>>

MayCall(op) == pc = "halted" /\ op \in KernelOps

KernelCall ==
  \/ MayCall("lookup") /\ KLookup
  \/ MayCall("read")   /\ KReadCall
  \/ MayCall("creat")  /\ KCreat
  \/ MayCall("write")  /\ KWrite
  \/ MayCall("unlink") /\ KUnlink

-----------------------------------------------------------------------------
HostGrows   == machine = "host" /\ Grow /\ UNCHANGED kernel
HostUnlinks == machine = "host" /\ Unlinks /\ UNCHANGED kernel
HostHandles == machine = "host" /\ Handler /\ UNCHANGED kernel
HostRestart == machine = "host" /\ Restart /\ UNCHANGED kernel
Printing    == PrintDirectory \/ PrintDone

KNext == HostGrows \/ HostUnlinks \/ HostHandles \/ HostRestart \/ Boot \/ Printing \/ KernelCall

\* Both programs keep running: the tool's handlers, the kernel's printing.
KSpec == KInit /\ [][KNext]_kvars /\ WF_kvars(HostHandles) /\ WF_kvars(Printing)

-----------------------------------------------------------------------------
(* Properties.                                                             *)

Booted == machine = "kernel"

\* The directories the kernel is led to: from the root along names with a d.
DirsNamedD ==
  LET links == LinksFrom(disk_inode_bp, disk_inodes)
      reach[n \in 0 .. NumInodes] ==
        IF n = 0 THEN {0}
        ELSE LET from == reach[n - 1]
             IN from \cup {l[3] : l \in {m \in links : m[1] \in from /\ m[2] \in DNames}}
  IN reach[NumInodes]

\* Names tell directories from files, and no directory has a gap.
Dense(p) ==
  \A k \in 0 .. disk_inodes[p].size - 1 :
    /\ disk_inodes[p].direct[k \div BlockSize] # NoBlock
    /\ DiskCell(blocks, disk_inodes, p, k).inum # -1

Orderly ==
  /\ \A p \in DirsNamedD : disk_inodes[p].type = UFS_DIRECTORY /\ Dense(p)
  /\ \A l \in LinksFrom(disk_inode_bp, disk_inodes) :
       l[1] \in DirsNamedD /\ l[2] \notin DNames => disk_inodes[l[3]].type = UFS_REGULAR_FILE

\* Once it halts the kernel has printed the tree of the image, each directory
\* with all its entries and each file with what was written to it; if names
\* mislead it or directories have gaps, at most entries that are there.
PrintedIsTree ==
  LET tree == LinksFrom(disk_inode_bp, disk_inodes)
      shown == {<<e[1], e[2].name, e[2].inum>> : e \in
                {x \in printed.entries : x[2].name \in Names}}
      files == {l[3] : l \in {m \in tree : m[1] \in DirsNamedD /\ m[2] \notin DNames}}
  IN /\ ~strayed => shown \subseteq tree
     /\ (Orderly /\ Booted /\ pc = "halted") =>
          /\ ~strayed
          /\ shown = {l \in tree : l[1] \in DirsNamedD}
          /\ printed.files =
               {<<f, [k \in 1 .. disk_inodes[f].size |-> Byte(f, k - 1)]>> : f \in files}

\* Printing panics only if an inode of the image has the module's last cell,
\* which the driver refuses to read (initrd.c:34), or gets lost in other memory.
LastCellUsed ==
  \E i \in disk_inode_bp : \E k \in OnDisk(disk_inodes, i) :
    /\ disk_inodes[i].direct[k \div BlockSize] = DataStart + NumData - 1
    /\ k % BlockSize = BlockSize - 1

PrintingPanics ==
  (Booted /\ pc = "panic" /\ todo # <<>>) => strayed \/ LastCellUsed

\* filesystem.c finds what fs/ufs.c finds, except where the tool would exit,
\* and except in the module's last cell.
KernelAgrees ==
  (Booted /\ pc \in {"printing", "halted"}) =>
    \A p \in Inums, n \in Names, odd \in Misreads :
      LET k == kufs_lookup(p, n, odd)
          h == ufs_lookup(p, n)
      IN k = h \/ h = Exits \/ (k = Exits /\ LastCellUsed)

\* Calls that return in the kernel have changed nothing anybody can see: in
\* core, the tree is that of the module, whatever inodes they leaked.
KernelSeesImage ==
  (Booted /\ pc \in {"printing", "halted"}) =>
    TreeOf(inode_bp, inodes) = TreeOf(disk_inode_bp, disk_inodes)

\* The recursion of print_fs_contents, which follows names instead of types
\* (kernel.c:76), ends before the stack does: no tree that has room on the
\* image is too deep, and no path leads back.
BootEnds == pc = "printing" ~> (pc \in {"halted", "panic"} \/ strayed)
=============================================================================
