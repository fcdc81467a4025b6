----------------------------- MODULE UfsProofs -----------------------------
(* Proofs about Ufs: its type invariant, and that no in-core change ever    *)
(* escapes the dirty bitmaps, so that a call that returns 0 has left the    *)
(* image equal to the in-core file system.                                  *)
EXTENDS Ufs, FiniteSetTheorems, WellFoundedInduction, TLAPS

\* A nonempty set of naturals has a least element, which Min denotes: the
\* searches for a first free bit, cell or slot are written with it.
LEMMA MinNat ==
  ASSUME NEW T \in SUBSET Nat, T # {}
  PROVE  Min(T) \in T /\ \A y \in T : Min(T) <= y
<1> DEFINE R == OpToRel(<, Nat)
<1>1. IsWellFoundedOn(R, Nat)
  BY NatLessThanWellFounded
<1>2. \A y, z \in Nat : <<y, z>> \in R <=> y < z
  BY DEF OpToRel
<1> HIDE DEF R
<1>3. PICK b \in T : \A c \in T : ~(<<c, b>> \in R)
  BY <1>1, WFMin
<1>4. ASSUME NEW y \in T PROVE b <= y
  <2>1. ~(y < b)
    BY <1>2, <1>3
  <2> QED BY <2>1
<1> QED BY <1>4 DEF Min

\* The search of ufs_creat and ufs_write for a clear bit returns one, or -1.
LEMMA FirstFreeIsFree ==
  ASSUME NEW b, NEW lo \in Nat, NEW n \in Nat
  PROVE  \/ FirstFree(b, lo, n) = -1 /\ (lo .. n - 1) \subseteq b
         \/ FirstFree(b, lo, n) \in (lo .. n - 1) \ b
<1> DEFINE free == (lo .. n - 1) \ b
<1>1. CASE free = {}
  BY <1>1 DEF FirstFree
<1>2. CASE free # {}
  <2>1. free \in SUBSET Nat
    OBVIOUS
  <2>2. Min(free) \in free
    BY <1>2, <2>1, MinNat
  <2> QED BY <1>2, <2>2 DEF FirstFree
<1> QED BY <1>1, <1>2


\* Offset k of an inode lies in one of its slots.
LEMMA SlotOfOffset ==
  ASSUME NEW k \in 0 .. Capacity - 1
  PROVE  k \div BlockSize \in Slots /\ k % BlockSize \in Cells
<1>1. BlockSize \in Nat \ {0} /\ DirectPtrs \in Nat \ {0} /\ k \in Nat
  BY SizesAssumption DEF Capacity
<1>2. k % BlockSize \in 0 .. BlockSize - 1
  BY <1>1
<1>3. k = BlockSize * (k \div BlockSize) + (k % BlockSize) /\ k \div BlockSize \in Nat
  BY <1>1
<1>4. k < DirectPtrs * BlockSize
  BY <1>1 DEF Capacity
<1>5. k \div BlockSize < DirectPtrs
  <2>1. SUFFICES ASSUME k \div BlockSize >= DirectPtrs PROVE FALSE
    BY <1>1, <1>3
  <2>2. BlockSize * (k \div BlockSize) >= BlockSize * DirectPtrs
    BY <2>1, <1>1, <1>3
  <2> QED BY <2>2, <1>1, <1>2, <1>3, <1>4
<1> QED BY <1>1, <1>2, <1>3, <1>5 DEF Slots, Cells

\* ufs_lookup answers with an integer.
LEMMA LookupType ==
  ASSUME TypeOK, NEW p \in Int, NEW n
  PROVE  ufs_lookup(p, n) \in Int
<1>1. CASE p \notin Inodes \/ p \notin inode_bp \/ inodes[p].type # UFS_DIRECTORY
           \/ LookupStops(p, n) = {}
  BY <1>1 DEF ufs_lookup
<1>2. CASE ~(p \notin Inodes \/ p \notin inode_bp \/ inodes[p].type # UFS_DIRECTORY
             \/ LookupStops(p, n) = {})
  <2> DEFINE k == Min(LookupStops(p, n))
  <2>1. inodes[p] \in Inode
    BY <1>2 DEF TypeOK
  <2>2. EntriesRead(p) \in 0 .. Capacity /\ Capacity \in Nat
    <3>1. Capacity \in Nat
      BY SizesAssumption DEF Capacity
    <3> QED BY <2>1, <3>1 DEF EntriesRead, Inode
  <2>3. LookupStops(p, n) \in SUBSET Nat /\ LookupStops(p, n) \subseteq 0 .. Capacity - 1
    BY <2>2 DEF LookupStops
  <2>4. k \in 0 .. Capacity - 1
    BY <1>2, <2>3, MinNat
  <2>5. k \div BlockSize \in Slots /\ k % BlockSize \in Cells
    BY <2>4, SlotOfOffset
  <2>6. Ptr(p, k) # NoBlock => Ptr(p, k) \in BlockAddrs
    BY <2>1, <2>5 DEF Ptr, Inode
  <2>7. Ptr(p, k) # NoBlock => CellAt(p, k).inum \in Int
    BY <2>5, <2>6 DEF CellAt, TypeOK, Cell
  <2> HIDE DEF k
  <2> QED BY <1>2, <2>7 DEF ufs_lookup, Exits, AssertFails, k
<1> QED BY <1>1, <1>2


-----------------------------------------------------------------------------
(* Type correctness.                                                       *)

USE DEF AllOps, UFS_DIRECTORY, UFS_REGULAR_FILE

\* The addresses of data blocks and the constant parts of TypeOK.
LEMMA Addresses ==
  /\ 0 \in Inodes
  /\ 0 \in DataBits /\ 0 \in Slots /\ 0 \in Cells
  /\ NoBlocks \in [Slots -> BlockAddrs \cup {NoBlock}]
  /\ \A d \in DataBits : d \in Nat /\ d + DataStart \in DataAddrs
                      /\ d + DataStart \in BlockAddrs /\ d + DataStart # NoBlock
  /\ NoFrame \in [op : AllOps \cup {"none"}, inum : Inodes, new : Inodes,
                  name : Names \cup {NoName}, full : BOOLEAN,
                  data : DataBits \cup {-1}, blk : Nat, off : Cells, left : Nat,
                  at : Inodes]
<1>1. 0 \in Inodes /\ 0 \in DataBits /\ 0 \in Slots /\ 0 \in Cells
  BY SizesAssumption DEF Inodes, DataBits, Slots, Cells
<1>2. \A d \in DataBits : d \in Nat /\ d + DataStart \in DataAddrs
                      /\ d + DataStart \in BlockAddrs /\ d + DataStart # NoBlock
  BY SizesAssumption DEF DataBits, DataAddrs, BlockAddrs, NoBlock
<1>3. NoBlocks \in [Slots -> BlockAddrs \cup {NoBlock}]
  BY DEF NoBlocks
<1> QED BY <1>1, <1>2, <1>3 DEF NoFrame

LEMMA CellsTyped ==
  /\ ZeroCell \in Cell /\ FreeCell \in Cell
  /\ \A n \in Names \cup {Dot, DotDot, NoName}, i \in Int : Entry(n, i) \in Cell
  /\ \A i \in Int, k \in Int : Byte(i, k) \in Cell
  /\ Zeroes \in [Cells -> Cell]
  /\ \A i \in Int, p \in Int : EmptyDir(i, p) \in [Cells -> Cell]
  /\ \A e \in Cell : NewDirBlock(e) \in [Cells -> Cell]
<1>1. ZeroCell \in Cell /\ FreeCell \in Cell
  BY DEF ZeroCell, FreeCell, Cell
<1>2. \A n \in Names \cup {Dot, DotDot, NoName}, i \in Int : Entry(n, i) \in Cell
  BY DEF Entry, Cell
<1>3. \A i \in Int, k \in Int : Byte(i, k) \in Cell
  BY DEF Byte, Cell
<1>4. Zeroes \in [Cells -> Cell]
  BY <1>1 DEF Zeroes
<1>5. \A i \in Int, p \in Int : EmptyDir(i, p) \in [Cells -> Cell]
  BY <1>1, <1>2 DEF EmptyDir
<1>6. \A e \in Cell : NewDirBlock(e) \in [Cells -> Cell]
  BY <1>1 DEF NewDirBlock
<1> QED BY <1>1, <1>2, <1>3, <1>4, <1>5, <1>6

LEMMA InitType == Init => TypeOK
<1> SUFFICES ASSUME Init PROVE TypeOK
  OBVIOUS
<1>1. PICK s \in [Inodes -> StaleInodes] : disk_inodes = [s EXCEPT ![0] = RootInode]
  BY DEF Init
<1>2. RootInode \in Inode
  <2>1. DataStart \in BlockAddrs
    BY SizesAssumption DEF BlockAddrs, DataAddrs
  <2> QED BY <2>1, Addresses DEF RootInode, Inode
<1>3. disk_inodes \in [Inodes -> Inode]
  BY <1>1, <1>2, GarbageAssumption DEF Inode
<1>4. blocks \in [BlockAddrs -> [Cells -> Cell]]
  <2>1. EmptyDir(0, 0) \in [Cells -> Cell] /\ Zeroes \in [Cells -> Cell]
    BY CellsTyped
  <2> QED BY <2>1 DEF Init, MkfsBlocks
<1>5. /\ inode_bp \subseteq Inodes /\ disk_inode_bp \subseteq Inodes
      /\ data_bp \subseteq DataBits /\ disk_data_bp \subseteq DataBits
      /\ dirty_inode_bp \subseteq Inodes /\ dirty_data_bp \subseteq DataBits
      /\ inodes = disk_inodes
      /\ leaked \subseteq Inodes /\ durable \subseteq Inodes
  BY Addresses DEF Init, ufs_init
<1>6. frame = NoFrame /\ pc = "idle"
  BY DEF Init
<1>7. torn \in BOOLEAN
  BY Zenon DEF Init
<1>8. last \in [op : AllOps \cup {"none"}, ret : Int]
  BY DEF Init
<1> QED BY <1>3, <1>4, <1>5, <1>6, <1>7, <1>8, Addresses DEF TypeOK


\* A call that returns or dies at once.
LEMMA AnswerType ==
  ASSUME TypeOK, NEW op \in AllOps, NEW r \in Int, Answer(op, r)
  PROVE  TypeOK'
<1>1. CASE Dies(r)
  BY <1>1, Addresses DEF Answer, Die, Death, Dead, TypeOK, core, image, hist
<1>2. CASE ~Dies(r)
  BY <1>2, Addresses DEF Answer, Return, TypeOK, core, image, hist
<1> QED BY <1>1, <1>2

\* A question changes nothing or ends the process.
LEMMA AskAnswers ==
  ASSUME NEW op \in AllOps, NEW answers \in SUBSET Int, Ask(op, answers)
  PROVE  \/ UNCHANGED vars
         \/ pc = "idle" /\ \E r \in Int : Dies(r) /\ Answer(op, r)
BY DEF Ask, Idle

\* A lookup, a read, and a call that is refused answer at once.
LEMMA RepliesAnswer ==
  ASSUME TypeOK, Lookup \/ CreatRefused \/ WriteRefused \/ Read
  PROVE  \/ UNCHANGED vars
         \/ /\ pc = "idle"
            /\ \E op \in AllOps, r \in Int : (r = -1 \/ Dies(r)) /\ Answer(op, r)
<1>1. CASE Lookup
  <2>1. {ufs_lookup(p, n) : p \in Inums, n \in Names} \in SUBSET Int
    BY LookupType DEF Inums
  <2> QED BY <1>1, <2>1, AskAnswers DEF Lookup
<1>2. CASE CreatRefused
  <2>1. PICK p \in Inums, n \in Names :
               CreatRefusal(p, n) # 0 /\ Answer("creat", CreatRefusal(p, n))
    BY <1>2 DEF CreatRefused
  <2>2. CreatRefusal(p, n) \in Int
    BY LookupType DEF Inums, CreatRefusal
  <2>3. CreatRefusal(p, n) = -1 \/ Dies(CreatRefusal(p, n))
    BY <2>1 DEF CreatRefusal
  <2> QED BY <1>2, <2>1, <2>2, <2>3 DEF CreatRefused, Idle
<1>3. CASE WriteRefused
  BY <1>3 DEF WriteRefused, Idle
<1>4. CASE Read
  <2>1. {ufs_read(i, off, n) : i \in Inums, off \in Offsets, n \in Counts} \in SUBSET Int
    BY DEF ufs_read, Exits
  <2> QED BY <1>4, <2>1, AskAnswers DEF Read
<1> QED BY <1>1, <1>2, <1>3, <1>4

\* A creat that is not refused has an inode to take, in a directory.
LEMMA CreatGoesOn ==
  ASSUME NEW p, NEW n, CreatRefusal(p, n) = 0
  PROVE  ~CreatArgsRefused(p, n) /\ FirstFree(inode_bp, 0, NumInodes) # -1
BY DEF CreatRefusal, Dies, Exits, AssertFails

LEMMA FreeInode ==
  LET e == FirstFree(inode_bp, 0, NumInodes)
  IN  e # -1 => e \in Inodes /\ e \notin inode_bp
BY FirstFreeIsFree, SizesAssumption DEF Inodes

LEMMA FreeData ==
  LET d1 == FirstFree(data_bp, 0, NumData)
      d2 == IF d1 = -1 THEN -1 ELSE FirstFree(data_bp, d1 + 1, NumData)
  IN  /\ d1 # -1 => d1 \in DataBits \ data_bp
      /\ d2 # -1 => d2 \in DataBits \ data_bp /\ d1 \in DataBits /\ d2 # d1
<1> DEFINE d1 == FirstFree(data_bp, 0, NumData)
           d2 == IF d1 = -1 THEN -1 ELSE FirstFree(data_bp, d1 + 1, NumData)
<1>1. d1 # -1 => d1 \in DataBits \ data_bp
  BY FirstFreeIsFree, SizesAssumption DEF DataBits
<1>2. ASSUME d2 # -1 PROVE d2 \in DataBits \ data_bp /\ d1 \in DataBits /\ d2 # d1
  <2>1. d1 \in DataBits /\ d1 # -1
    BY <1>1, <1>2
  <2>2. d1 + 1 \in Nat /\ NumData \in Nat
    BY <2>1, SizesAssumption DEF DataBits
  <2>3. d2 \in (d1 + 1 .. NumData - 1) \ data_bp
    <3> HIDE DEF d1
    <3> QED BY <1>2, <2>1, <2>2, FirstFreeIsFree
  <2> HIDE DEF d1, d2
  <2> QED BY <2>1, <2>3, SizesAssumption DEF DataBits
<1> QED BY <1>1, <1>2

LEMMA CreatFailsType ==
  ASSUME TypeOK, NEW p \in Inums, NEW t \in {UFS_DIRECTORY, UFS_REGULAR_FILE},
         NEW n \in Names, CreatFails(p, t, n)
  PROVE  TypeOK'
<1> DEFINE e == FirstFree(inode_bp, 0, NumInodes)
<1>1. e \in Inodes
  BY FreeInode, CreatGoesOn DEF CreatFails
<1>2. inodes' = [inodes EXCEPT ![e].type = t, ![e].direct = NoBlocks]
  BY DEF CreatFails
<1>3. /\ inode_bp' = inode_bp \cup {e} /\ dirty_inode_bp' = dirty_inode_bp \cup {e}
      /\ leaked' = leaked \cup {e} /\ Return("creat", -1)
      /\ UNCHANGED <<data_bp, dirty_data_bp, image, durable, torn>>
  BY DEF CreatFails, set_bitmap
<1> HIDE DEF e
<1>4. inodes' \in [Inodes -> Inode]
  <2> DEFINE new == [inodes[e] EXCEPT !.type = t, !.direct = NoBlocks]
  <2>1. inodes \in [Inodes -> Inode]
    BY DEF TypeOK
  <2>2. new \in Inode
    <3>1. inodes[e] \in Inode /\ NoBlocks \in [Slots -> BlockAddrs \cup {NoBlock}]
      BY <1>1, <2>1, Addresses
    <3> QED BY <3>1 DEF Inode
  <2>3. inodes' = [inodes EXCEPT ![e] = new]
    BY <1>1, <1>2, <2>1
  <2> QED BY <2>1, <2>2, <2>3
<1> QED BY <1>1, <1>3, <1>4, Addresses DEF TypeOK, Return, image

LEMMA CreatAllocatesType ==
  ASSUME TypeOK, NEW p \in Inums, NEW t \in {UFS_DIRECTORY, UFS_REGULAR_FILE},
         NEW n \in Names, CreatAllocates(p, t, n)
  PROVE  TypeOK'
<1> DEFINE e  == FirstFree(inode_bp, 0, NumInodes)
           d1 == FirstFree(data_bp, 0, NumData)
           d2 == IF d1 = -1 THEN -1 ELSE FirstFree(data_bp, d1 + 1, NumData)
           mkdir == t = UFS_DIRECTORY
           new == [type   |-> t, size |-> IF mkdir THEN 2 ELSE 0,
                   direct |-> IF mkdir THEN [NoBlocks EXCEPT ![0] = d1 + DataStart]
                              ELSE NoBlocks]
<1>1. e \in Inodes
  BY FreeInode, CreatGoesOn DEF CreatAllocates
<1>2. /\ d1 \in DataBits \cup {-1} /\ d2 \in DataBits \cup {-1}
      /\ mkdir => d1 \in DataBits
  BY FreeData DEF CreatAllocates, NoRoom
<1>3. /\ inode_bp' = inode_bp \cup {e} /\ dirty_inode_bp' = dirty_inode_bp \cup {e}
      /\ inodes' = [inodes EXCEPT ![e] = new]
      /\ data_bp' = IF mkdir THEN data_bp \cup {d1} ELSE data_bp
      /\ dirty_data_bp' = IF mkdir THEN dirty_data_bp \cup {d1} ELSE dirty_data_bp
      /\ blocks' = IF mkdir THEN [blocks EXCEPT ![d1 + DataStart] = EmptyDir(e, p)]
                            ELSE blocks
      /\ pc' = "link"
      /\ frame' = [NoFrame EXCEPT !.op = "creat", !.inum = p, !.new = e, !.name = n,
                     !.full = IsFull(p), !.data = IF mkdir THEN d2 ELSE d1]
      /\ UNCHANGED <<disk_inode_bp, disk_data_bp, disk_inodes, last, hist>>
  BY DEF CreatAllocates, set_bitmap
<1>4. p \in Inodes /\ p \in Int /\ e \in Int
  BY <1>1, CreatGoesOn, SizesAssumption DEF CreatAllocates, CreatArgsRefused, Inodes
<1>5. IsFull(p) \in BOOLEAN
  BY DEF IsFull
<1> HIDE DEF e, d1, d2
<1>6. new \in Inode
  BY <1>2, Addresses DEF Inode
<1>7. frame' \in [op : AllOps \cup {"none"}, inum : Inodes, new : Inodes,
                  name : Names \cup {NoName}, full : BOOLEAN,
                  data : DataBits \cup {-1}, blk : Nat, off : Cells, left : Nat,
                  at : Inodes]
  BY <1>1, <1>2, <1>3, <1>4, <1>5, Addresses
<1>8. blocks' \in [BlockAddrs -> [Cells -> Cell]]
  <2>1. EmptyDir(e, p) \in [Cells -> Cell]
    BY <1>4, CellsTyped
  <2> QED BY <1>2, <1>3, <2>1 DEF TypeOK
<1>9. inodes' \in [Inodes -> Inode]
  BY <1>1, <1>3, <1>6 DEF TypeOK
<1> HIDE DEF new
<1> QED BY <1>1, <1>2, <1>3, <1>7, <1>8, <1>9 DEF TypeOK, hist


LEMMA LinkFailsType == TypeOK /\ LinkFails => TypeOK'
<1> SUFFICES ASSUME TypeOK, LinkFails PROVE TypeOK'
  OBVIOUS
<1>1. /\ dirty_inode_bp' = dirty_inode_bp \cup {frame.inum}
      /\ leaked' = leaked \cup {frame.new} /\ Return("creat", -1)
      /\ UNCHANGED <<inode_bp, data_bp, inodes, dirty_data_bp, image, durable, torn>>
  BY DEF LinkFails, set_bitmap
<1>2. frame.inum \in Inodes /\ frame.new \in Inodes
  BY DEF TypeOK
<1> QED BY <1>1, <1>2, Addresses DEF TypeOK, Return, image

\* A nonempty set of slots, or of cells, has a least element.
LEMMA MinSlot ==
  ASSUME NEW S \in SUBSET Slots, S # {}
  PROVE  Min(S) \in S
<1>1. S \in SUBSET Nat
  BY DEF Slots
<1> QED BY <1>1, MinNat

\* An inode whose size and pointers are replaced is an inode.
LEMMA InodeUpdate ==
  ASSUME NEW x \in Inode, NEW z \in Int,
         NEW dir \in [Slots -> BlockAddrs \cup {NoBlock}]
  PROVE  [x EXCEPT !.size = z, !.direct = dir] \in Inode
BY DEF Inode

LEMMA LinkInNewBlockType == TypeOK /\ LinkInNewBlock => TypeOK'
<1> SUFFICES ASSUME TypeOK, LinkInNewBlock PROVE TypeOK'
  OBVIOUS
<1> DEFINE p     == frame.inum
           addr  == frame.data + DataStart
           slot  == FirstEmptySlot(p)
           unset == {s \in Slots : inodes[p].direct[s] = NoBlock}
           new   == [inodes[p] EXCEPT !.size = @ + 1,
                       !.direct = IF unset = {} THEN @ ELSE [@ EXCEPT ![slot] = addr]]
<1>1. /\ p \in Inodes /\ frame.data \in DataBits /\ frame.new \in Int
      /\ frame.name \in Names \cup {Dot, DotDot, NoName}
  BY DEF LinkInNewBlock, TypeOK, Inodes
<1>2. addr \in BlockAddrs
  BY <1>1, Addresses
<1>3. inodes \in [Inodes -> Inode]
  BY DEF TypeOK
<1>4. inodes' = [inodes EXCEPT ![p] = new]
  BY <1>1, <1>3 DEF LinkInNewBlock
<1>5. new \in Inode
  <2> DEFINE dir == IF unset = {} THEN inodes[p].direct
                    ELSE [inodes[p].direct EXCEPT ![slot] = addr]
  <2>1. inodes[p] \in Inode
    BY <1>1, <1>3
  <2>2. dir \in [Slots -> BlockAddrs \cup {NoBlock}]
    BY <1>2, <2>1 DEF Inode
  <2>3. inodes[p].size + 1 \in Int
    BY <2>1 DEF Inode
  <2>4. new = [inodes[p] EXCEPT !.size = inodes[p].size + 1, !.direct = dir]
    BY <2>1 DEF Inode
  <2> HIDE DEF dir, new
  <2> QED BY <2>1, <2>2, <2>3, <2>4, InodeUpdate
<1>6. NewDirBlock(Entry(frame.name, frame.new)) \in [Cells -> Cell]
  BY <1>1, CellsTyped
<1>7. /\ dirty_inode_bp' = dirty_inode_bp \cup {p}
      /\ blocks' = [blocks EXCEPT ![addr] = NewDirBlock(Entry(frame.name, frame.new))]
      /\ data_bp' = data_bp \cup {frame.data}
      /\ dirty_data_bp' = dirty_data_bp \cup {frame.data}
      /\ pc' = "commit" /\ frame' = [NoFrame EXCEPT !.op = "creat"]
      /\ UNCHANGED <<inode_bp, disk_inode_bp, disk_data_bp, disk_inodes, last, hist>>
  BY DEF LinkInNewBlock, set_bitmap
<1>8. inodes' \in [Inodes -> Inode]
  <2> HIDE DEF new
  <2> QED BY <1>1, <1>3, <1>4, <1>5
<1>9. blocks' \in [BlockAddrs -> [Cells -> Cell]]
  BY <1>6, <1>7 DEF TypeOK
<1> HIDE DEF new, unset, slot
<1> QED BY <1>1, <1>7, <1>8, <1>9, Addresses DEF TypeOK, hist

LEMMA LinkInFreeEntryType == TypeOK /\ LinkInFreeEntry => TypeOK'
<1> SUFFICES ASSUME TypeOK, LinkInFreeEntry PROVE TypeOK'
  OBVIOUS
<1> DEFINE p == frame.inum
           a == IF LinkStops(p) = {} THEN Superblock
                ELSE inodes[p].direct[Min(LinkStops(p))]
           ent == Entry(frame.name, frame.new)
<1>1. /\ p \in Inodes /\ frame.new \in Int
      /\ frame.name \in Names \cup {Dot, DotDot, NoName}
  BY DEF TypeOK, Inodes
<1>2. inodes \in [Inodes -> Inode]
  BY DEF TypeOK
<1>3. /\ dirty_inode_bp' = dirty_inode_bp \cup {p}
      /\ UNCHANGED <<inode_bp, data_bp, dirty_data_bp,
                     disk_inode_bp, disk_data_bp, disk_inodes, hist>>
  BY DEF LinkInFreeEntry, set_bitmap
<1>4. CASE a = NoBlock
  <2>1. Die("exited") /\ UNCHANGED <<inodes, blocks>>
    BY <1>4 DEF LinkInFreeEntry
  <2> HIDE DEF a
  <2> QED BY <1>1, <1>3, <2>1, Addresses DEF TypeOK, hist, Die, Dead
<1>5. CASE a # NoBlock
  <2>1. /\ blocks' = IF a = Superblock THEN blocks
                     ELSE [blocks EXCEPT ![a][FirstFreeCell(a)] = ent]
        /\ inodes' = [inodes EXCEPT ![p].size = @ + 1]
        /\ pc' = "commit" /\ frame' = [NoFrame EXCEPT !.op = "creat"]
        /\ UNCHANGED last
    BY <1>5 DEF LinkInFreeEntry
  <2>2. inodes' \in [Inodes -> Inode]
    <3> DEFINE new == [inodes[p] EXCEPT !.size = @ + 1]
    <3>1. inodes' = [inodes EXCEPT ![p] = new]
      BY <1>1, <1>2, <2>1
    <3>2. new \in Inode
      BY <1>1, <1>2 DEF Inode
    <3> QED BY <1>1, <1>2, <3>1, <3>2
  <2>3. blocks' \in [BlockAddrs -> [Cells -> Cell]]
    <3>1. ent \in Cell
      BY <1>1, CellsTyped
    <3> HIDE DEF ent, a
    <3> QED BY <2>1, <3>1 DEF TypeOK
  <2> HIDE DEF a
  <2> QED BY <1>1, <1>3, <2>1, <2>2, <2>3, Addresses DEF TypeOK, hist
<1> QED BY <1>4, <1>5


\* ufs_write: the block written is the slot's own or a free one.
LEMMA WriteTargetType ==
  ASSUME TypeOK, NEW i \in Inodes, NEW b \in Slots
  PROVE  LET a == WriteTarget(i, b) IN
         /\ a \in BlockAddrs \cup {NoBlock}
         /\ a # NoBlock /\ inodes[i].direct[b] = NoBlock =>
              a \in DataAddrs /\ a - DataStart \in DataBits \ data_bp
<1> DEFINE d == FirstFree(data_bp, 0, NumData)
<1>1. d = -1 \/ d \in DataBits \ data_bp
  BY FreeData
<1> HIDE DEF d
<1>2. inodes[i].direct[b] \in BlockAddrs \cup {NoBlock}
  BY DEF TypeOK, Inode
<1>3. CASE inodes[i].direct[b] # NoBlock
  BY <1>2, <1>3 DEF WriteTarget
<1>4. CASE inodes[i].direct[b] = NoBlock /\ d = -1
  BY <1>4 DEF WriteTarget, d
<1>5. CASE inodes[i].direct[b] = NoBlock /\ d # -1
  <2>1. WriteTarget(i, b) = d + DataStart
    BY <1>5 DEF WriteTarget, d
  <2>2. d \in DataBits \ data_bp /\ d \in Int /\ DataStart \in Int
    BY <1>1, <1>5, Addresses, SizesAssumption
  <2>3. d + DataStart \in DataAddrs /\ d + DataStart \in BlockAddrs
        /\ d + DataStart - DataStart = d
    BY <2>2, Addresses
  <2> QED BY <2>1, <2>2, <2>3
<1> QED BY <1>3, <1>4, <1>5

LEMMA WriteBlockType == TypeOK /\ WriteBlock => TypeOK'
<1> SUFFICES ASSUME TypeOK, WriteBlock PROVE TypeOK'
  OBVIOUS
<1> DEFINE i == frame.inum
           b == frame.blk
           a == WriteTarget(i, b)
           sz == Min({frame.left, BlockSize - frame.off})
           fresh == inodes[i].direct[b] = NoBlock
           dir == [inodes[i].direct EXCEPT ![b] = a]
           new == [inodes[i] EXCEPT !.size = inodes[i].size + sz, !.direct = dir]
           data == [c \in Cells |->
             IF c \in frame.off .. frame.off + sz - 1
             THEN Byte(i, b * BlockSize + c) ELSE blocks[a][c]]
<1>1. /\ i \in Inodes /\ i \in Int /\ b \in Slots /\ b \in Nat
      /\ frame.left \in Nat /\ frame.off \in Cells
  BY DEF WriteBlock, TypeOK, Inodes
<1>2. a \in BlockAddrs /\ (fresh => a - DataStart \in DataBits)
  BY <1>1, WriteTargetType DEF WriteBlock
<1>3. sz \in Nat /\ sz <= frame.left
  <2>1. {frame.left, BlockSize - frame.off} \in SUBSET Nat
    BY <1>1, SizesAssumption DEF Cells
  <2> QED BY <2>1, MinNat
<1>4. inodes \in [Inodes -> Inode] /\ blocks \in [BlockAddrs -> [Cells -> Cell]]
  BY DEF TypeOK
<1>5. /\ data_bp' = IF fresh THEN data_bp \cup {a - DataStart} ELSE data_bp
      /\ dirty_data_bp' = IF fresh THEN dirty_data_bp \cup {a - DataStart}
                                   ELSE dirty_data_bp
      /\ frame' = [frame EXCEPT !.blk = b + 1, !.off = 0, !.left = @ - sz]
      /\ UNCHANGED <<inode_bp, dirty_inode_bp, pc, last,
                     disk_inode_bp, disk_data_bp, disk_inodes, hist>>
  BY DEF WriteBlock, set_bitmap
<1>6. blocks' = [blocks EXCEPT ![a] = data]
  BY <1>2, <1>4 DEF WriteBlock
<1>7. inodes' = [inodes EXCEPT ![i] = new]
  BY <1>1, <1>4 DEF WriteBlock, Inode
<1> HIDE DEF sz, a
<1>8. data \in [Cells -> Cell]
  <2>1. \A c \in Cells : Byte(i, b * BlockSize + c) \in Cell
    <3>1. \A c \in Cells : b * BlockSize + c \in Int
      BY <1>1, SizesAssumption DEF Cells
    <3> QED BY <1>1, <3>1, CellsTyped
  <2> QED BY <1>2, <1>4, <2>1
<1>9. new \in Inode
  <2>1. inodes[i] \in Inode
    BY <1>1, <1>4
  <2>2. dir \in [Slots -> BlockAddrs \cup {NoBlock}]
    <3>1. inodes[i].direct \in [Slots -> BlockAddrs \cup {NoBlock}]
      BY <2>1 DEF Inode
    <3> QED BY <1>2, <3>1
  <2>3. inodes[i].size + sz \in Int
    BY <1>3, <2>1 DEF Inode
  <2> HIDE DEF dir
  <2> QED BY <2>1, <2>2, <2>3, InodeUpdate
<1>10. frame' \in [op : AllOps \cup {"none"}, inum : Inodes, new : Inodes,
                  name : Names \cup {NoName}, full : BOOLEAN,
                  data : DataBits \cup {-1}, blk : Nat, off : Cells, left : Nat,
                  at : Inodes]
  <2>1. b + 1 \in Nat /\ frame.left - sz \in Nat /\ 0 \in Cells
    BY <1>1, <1>3, Addresses
  <2> QED BY <1>5, <2>1 DEF TypeOK
<1> HIDE DEF data, new, fresh
<1>11. blocks' \in [BlockAddrs -> [Cells -> Cell]] /\ inodes' \in [Inodes -> Inode]
  BY <1>1, <1>2, <1>4, <1>6, <1>7, <1>8, <1>9
<1> QED BY <1>2, <1>5, <1>10, <1>11 DEF TypeOK, hist

LEMMA WriteBeginType ==
  ASSUME TypeOK, NEW i \in Inums, NEW off \in Offsets, NEW n \in Counts,
         WriteBegin(i, off, n)
  PROVE  TypeOK'
<1>1. i \in Inodes /\ off \in Nat /\ n \in Nat
  BY SizesAssumption DEF WriteBegin, WriteArgsRefused, Offsets, Counts
<1>2. off \div BlockSize \in Nat /\ off % BlockSize \in Cells
  BY <1>1, SizesAssumption DEF Cells
<1> QED BY <1>1, <1>2, Addresses DEF WriteBegin, TypeOK, set_bitmap, image, hist


LEMMA UnlinkType ==
  ASSUME TypeOK, NEW p \in Inums, NEW n \in Names \cup {Dot}, Unlink(p, n)
  PROVE  TypeOK'
<1> DEFINE i     == ufs_lookup(p, n)
           slots == {s \in Slots : /\ inodes[p].direct[s] # NoBlock
                                   /\ CellsNamed(inodes[p].direct[s], n) # {}}
           s     == Min(slots)
           a     == inodes[p].direct[s]
           lone  == Cardinality(UsedCells(a)) = 1
           freed == FreedBits(i) \cup (IF lone THEN {a} ELSE {})
           dir   == IF lone THEN [inodes[p].direct EXCEPT ![s] = NoBlock]
                    ELSE inodes[p].direct
           new   == [inodes[p] EXCEPT !.size = inodes[p].size - 1, !.direct = dir]
           c     == Max(CellsNamed(a, n))
<1>1. i \in Inodes /\ p \in Inodes
  BY DEF Unlink, UnlinkArgsRefused
<1>2. inodes \in [Inodes -> Inode] /\ inodes[p] \in Inode
  BY <1>1 DEF TypeOK
<1>3. inodes' = [inodes EXCEPT ![p] = new]
  BY <1>1, <1>2 DEF Unlink, ParentWithout, Inode
<1>4. /\ inode_bp' = inode_bp \ {i}
      /\ dirty_inode_bp' = dirty_inode_bp \cup {i} \cup {p}
      /\ data_bp' = data_bp \ freed
      /\ dirty_data_bp' = dirty_data_bp \cup (freed \cap DataBits)
      /\ blocks' = IF lone THEN blocks ELSE [blocks EXCEPT ![a][c] = FreeCell]
      /\ pc' = "commit" /\ frame' = [NoFrame EXCEPT !.op = "unlink"]
      /\ leaked' = leaked \ {i}
      /\ UNCHANGED <<disk_inode_bp, disk_data_bp, disk_inodes, last, durable, torn>>
  BY DEF Unlink, set_bitmap, reset_bitmap
<1>5. new \in Inode
  <2>1. inodes[p].direct \in [Slots -> BlockAddrs \cup {NoBlock}]
        /\ inodes[p].size - 1 \in Int
    BY <1>2 DEF Inode
  <2> HIDE DEF s, lone
  <2>2. dir \in [Slots -> BlockAddrs \cup {NoBlock}]
    BY <2>1
  <2> HIDE DEF dir
  <2> QED BY <1>2, <2>1, <2>2, InodeUpdate
<1> HIDE DEF new, lone, a, c, freed, i
<1>6. inodes' \in [Inodes -> Inode]
  BY <1>1, <1>2, <1>3, <1>5
<1>7. blocks' \in [BlockAddrs -> [Cells -> Cell]]
  BY <1>4, CellsTyped DEF TypeOK
<1> QED BY <1>1, <1>4, <1>6, <1>7, Addresses DEF TypeOK

\* The dirty inode, or data bit, commit_dirty_to_disk takes next.
LEMMA MinDirty ==
  ASSUME TypeOK
  PROVE  /\ dirty_inode_bp # {} => Min(dirty_inode_bp) \in dirty_inode_bp
         /\ dirty_data_bp # {} => Min(dirty_data_bp) \in dirty_data_bp
<1>1. dirty_inode_bp \in SUBSET Nat /\ dirty_data_bp \in SUBSET Nat
  BY DEF TypeOK, Inodes, DataBits
<1> QED BY <1>1, MinNat

LEMMA WriteWordType ==
  ASSUME NEW S, NEW old \in SUBSET S, NEW new \in SUBSET S, NEW i
  PROVE  WriteWord(old, new, i) \subseteq S
BY DEF WriteWord

LEMMA CommitType ==
  TypeOK /\ (CommitInodeBit \/ CommitInode \/ CommitData \/ CommitDone) => TypeOK'
<1> SUFFICES ASSUME TypeOK,
                    CommitInodeBit \/ CommitInode \/ CommitData \/ CommitDone
             PROVE  TypeOK'
  OBVIOUS
<1>1. CASE CommitInodeBit
  <2> DEFINE i == Min(dirty_inode_bp)
  <2>1. /\ dirty_inode_bp' = dirty_inode_bp \ {i}
        /\ disk_inode_bp' = WriteWord(disk_inode_bp, inode_bp, i)
        /\ frame' = [frame EXCEPT !.at = i] /\ pc' = "commit_inode"
        /\ UNCHANGED <<inode_bp, data_bp, inodes, dirty_data_bp,
                       disk_data_bp, disk_inodes, blocks, last, hist>>
    BY <1>1 DEF CommitInodeBit, reset_bitmap
  <2>2. i \in Inodes
    BY <1>1, MinDirty DEF CommitInodeBit, TypeOK
  <2>3. disk_inode_bp' \subseteq Inodes
    BY <2>1, WriteWordType DEF TypeOK
  <2> HIDE DEF i
  <2> QED BY <2>1, <2>2, <2>3 DEF TypeOK, hist
<1>2. CASE CommitInode
  <2>1. frame.at \in Inodes /\ inodes[frame.at] \in Inode
    BY DEF TypeOK
  <2>2. disk_inodes' \in [Inodes -> Inode]
    BY <1>2, <2>1 DEF CommitInode, TypeOK
  <2> QED BY <1>2, <2>1, <2>2, Addresses DEF CommitInode, TypeOK, core
<1>3. CASE CommitData
  <2>1. disk_data_bp' \subseteq DataBits
    BY <1>3, WriteWordType DEF CommitData, TypeOK
  <2> QED BY <1>3, <2>1 DEF CommitData, reset_bitmap, TypeOK, hist
<1>4. CASE CommitDone
  BY <1>4, Addresses DEF CommitDone, Return, TypeOK, core, image, hist
<1> QED BY <1>1, <1>2, <1>3, <1>4

LEMMA RestartType == TypeOK /\ Restart => TypeOK'
<1> SUFFICES ASSUME TypeOK, Restart PROVE TypeOK'
  OBVIOUS
<1>1. torn' \in BOOLEAN
  BY DEF Restart, TypeOK
<1>2. dirty_inode_bp' \subseteq Inodes /\ dirty_data_bp' \subseteq DataBits
  BY DEF Restart
<1> QED BY <1>1, <1>2, Addresses DEF Restart, TypeOK, image

LEMMA TypeStep == TypeOK /\ [Next]_vars => TypeOK'
<1> SUFFICES ASSUME TypeOK, [Next]_vars PROVE TypeOK'
  OBVIOUS
<1>1. CASE Lookup \/ CreatRefused \/ WriteRefused \/ Read
  <2>1. CASE UNCHANGED vars
    BY <2>1 DEF vars, TypeOK
  <2> QED BY <1>1, <2>1, RepliesAnswer, AnswerType
<1>4. ASSUME NEW p \in Inums, NEW n \in Names \cup {Dot}, UnlinkRefused(p, n)
      PROVE  TypeOK'
  <2>1. CASE Answer("unlink", -1)
    BY <2>1, AnswerType
  <2>2. CASE \E d \in Dead : Die(d) /\ UNCHANGED <<core, image, hist>>
    BY <2>2, Addresses DEF Die, TypeOK, core, image, hist
  <2> QED BY <1>4, <2>1, <2>2 DEF UnlinkRefused, Death, Dead
<1>5. CASE WriteFails
  BY <1>5, Addresses DEF WriteFails, Return, TypeOK, core, image, hist
<1>6. CASE WriteEnd
  BY <1>6, Addresses DEF WriteEnd, TypeOK, core, image, hist
<1>7. CASE UNCHANGED vars
  BY <1>7 DEF vars, TypeOK
<1>8. CASE Call
  BY <1>1, <1>4, <1>8, CreatFailsType, CreatAllocatesType,
     WriteBeginType, UnlinkType DEF Call, Grow, Unlinks
<1>9. CASE Handler
  BY <1>5, <1>6, <1>9, LinkFailsType, LinkInNewBlockType, LinkInFreeEntryType,
     WriteBlockType, CommitType DEF Handler
<1> QED BY <1>7, <1>8, <1>9, RestartType DEF Next

\* The type invariant of the file system: bitmaps hold indices of inodes and
\* blocks, every pointer is a block of the image or (unsigned int)(-1), and
\* the handlers' locals have their ranges.
THEOREM TypeCorrect == Spec => []TypeOK
BY InitType, TypeStep, PTL DEF Spec

-----------------------------------------------------------------------------
(* The image and the dirty bitmaps.                                        *)

\* While the loop of ufs_write runs, the inode it grows is marked dirty: its
\* set_bitmap comes before the loop, and no commit comes in between.
WriterMarked == pc = "write" => frame.inum \in dirty_inode_bp

\* What the durability of a successful call rests on: the invariants together
\* are inductive.
DurableInv == TypeOK /\ Coherent /\ SuccessIsDurable /\ WriterMarked

\* A word written from the in-core bitmap leaves every clean bit as it was
\* and brings the bit it was written for up to date.
LEMMA WordWritten ==
  ASSUME NEW old, NEW new, NEW i, NEW j
  PROVE  /\ j \in WriteWord(old, new, i) => j \in old \cup new
         /\ (j \in old <=> j \in new) => (j \in WriteWord(old, new, i) <=> j \in new)
         /\ i \in WriteWord(old, new, i) <=> i \in new
BY DEF WriteWord

LEMMA InitDurable == Init => Coherent /\ SuccessIsDurable /\ WriterMarked
BY DEF Init, ufs_init, Coherent, InodeClean, DataClean, SuccessIsDurable, WriterMarked

\* A handler step that changes in-core bits and inodes only where it marks
\* them dirty, and no metadata on the image, keeps them coherent.
LEMMA MarkedIsCoherent ==
  ASSUME DurableInv, pc # "commit_inode",
         UNCHANGED <<disk_inode_bp, disk_data_bp, disk_inodes>>,
         dirty_inode_bp \subseteq dirty_inode_bp',
         dirty_data_bp \subseteq dirty_data_bp',
         \A i \in Inodes \ dirty_inode_bp' :
           (i \in inode_bp' <=> i \in inode_bp) /\ inodes'[i] = inodes[i],
         \A d \in DataBits \ dirty_data_bp' : d \in data_bp' <=> d \in data_bp
  PROVE  Coherent'
BY DEF DurableInv, Coherent, InodeClean, DataClean

\* While a handler runs, or once it has failed, nothing is promised yet.
LEMMA NotYetDurable ==
  ASSUME pc' # "idle" \/ last'.ret = -1 \/ last'.op \notin {"creat", "write", "unlink"}
  PROVE  SuccessIsDurable'
BY DEF SuccessIsDurable

\* Steps that leave the file system and the image alone.
LEMMA NothingMoves ==
  ASSUME DurableInv, pc # "commit_inode", UNCHANGED <<core, image>>
  PROVE  Coherent' /\ (Synced => Synced')
BY DEF DurableInv, Coherent, InodeClean, DataClean, Synced, core, image

LEMMA AnswerDurable ==
  ASSUME DurableInv, pc = "idle", NEW op, NEW r, Answer(op, r),
         r = -1 \/ Dies(r) \/ op \notin {"creat", "write", "unlink"}
  PROVE  Coherent' /\ SuccessIsDurable'
<1>1. Coherent'
  BY NothingMoves DEF Answer
<1>2. CASE Dies(r)
  <2>1. pc' # "idle"
    BY <1>2 DEF Answer, Die, Death
  <2> QED BY <1>1, <2>1, NotYetDurable
<1>3. CASE ~Dies(r)
  <2>1. last' = [op |-> op, ret |-> r]
    BY <1>3 DEF Answer, Return
  <2> QED BY <1>1, <1>3, <2>1, NotYetDurable
<1> QED BY <1>2, <1>3

LEMMA CreatDurable ==
  ASSUME DurableInv, NEW p \in Inums, NEW t \in {UFS_DIRECTORY, UFS_REGULAR_FILE},
         NEW n \in Names, CreatFails(p, t, n) \/ CreatAllocates(p, t, n)
  PROVE  Coherent' /\ SuccessIsDurable'
<1> DEFINE e  == FirstFree(inode_bp, 0, NumInodes)
           d1 == FirstFree(data_bp, 0, NumData)
<1>1. inodes \in [Inodes -> Inode]
  BY DEF DurableInv, TypeOK
<1>2. CASE CreatFails(p, t, n)
  <2>1. /\ pc = "idle" /\ last' = [op |-> "creat", ret |-> -1]
        /\ inode_bp' = inode_bp \cup {e} /\ dirty_inode_bp' = dirty_inode_bp \cup {e}
        /\ inodes' = [inodes EXCEPT ![e].type = t, ![e].direct = NoBlocks]
        /\ UNCHANGED <<data_bp, dirty_data_bp, disk_inode_bp, disk_data_bp, disk_inodes>>
    BY <1>2 DEF CreatFails, set_bitmap, Return, Idle, image
  <2> HIDE DEF e
  <2>2. \A i \in Inodes \ dirty_inode_bp' :
           (i \in inode_bp' <=> i \in inode_bp) /\ inodes'[i] = inodes[i]
    BY <1>1, <2>1
  <2>3. Coherent'
    BY <2>1, <2>2, MarkedIsCoherent
  <2> QED BY <2>1, <2>3, NotYetDurable
<1>3. CASE CreatAllocates(p, t, n)
  <2> DEFINE new == [type   |-> t,
           size   |-> IF t = UFS_DIRECTORY THEN 2 ELSE 0,
           direct |-> IF t = UFS_DIRECTORY THEN [NoBlocks EXCEPT ![0] = d1 + DataStart]
                               ELSE NoBlocks]
  <2>1. /\ pc = "idle" /\ pc' = "link"
        /\ inode_bp' = inode_bp \cup {e} /\ dirty_inode_bp' = dirty_inode_bp \cup {e}
        /\ inodes' = [inodes EXCEPT ![e] = new]
        /\ \/ data_bp' = data_bp \cup {d1} /\ dirty_data_bp' = dirty_data_bp \cup {d1}
           \/ UNCHANGED <<data_bp, dirty_data_bp>>
        /\ UNCHANGED <<disk_inode_bp, disk_data_bp, disk_inodes>>
    BY <1>3 DEF CreatAllocates, set_bitmap, Idle
  <2> HIDE DEF e, d1, new
  <2>2. \A i \in Inodes \ dirty_inode_bp' :
           (i \in inode_bp' <=> i \in inode_bp) /\ inodes'[i] = inodes[i]
    BY <1>1, <2>1
  <2>3. Coherent'
    BY <2>1, <2>2, MarkedIsCoherent
  <2> QED BY <2>1, <2>3, NotYetDurable
<1> QED BY <1>2, <1>3

LEMMA LinkDurable ==
  DurableInv /\ (LinkFails \/ LinkInNewBlock \/ LinkInFreeEntry)
    => Coherent' /\ SuccessIsDurable'
<1> SUFFICES ASSUME DurableInv, LinkFails \/ LinkInNewBlock \/ LinkInFreeEntry
             PROVE  Coherent' /\ SuccessIsDurable'
  OBVIOUS
<1>1. inodes \in [Inodes -> Inode]
  BY DEF DurableInv, TypeOK
<1> DEFINE p == frame.inum
<1>2. CASE LinkFails
  <2>1. Coherent'
    BY <1>2, MarkedIsCoherent DEF LinkFails, set_bitmap, image
  <2> QED BY <1>2, <2>1, NotYetDurable DEF LinkFails, Return
<1>3. CASE LinkInNewBlock
  <2>1. \A i \in Inodes \ {p} : inodes'[i] = inodes[i]
    BY <1>1, <1>3 DEF LinkInNewBlock
  <2>2. Coherent'
    BY <1>3, <2>1, MarkedIsCoherent DEF LinkInNewBlock, set_bitmap
  <2> QED BY <1>3, <2>2, NotYetDurable DEF LinkInNewBlock
<1>4. CASE LinkInFreeEntry
  <2>1. \A i \in Inodes \ {p} : inodes'[i] = inodes[i]
    BY <1>1, <1>4 DEF LinkInFreeEntry
  <2>2. Coherent'
    BY <1>4, <2>1, MarkedIsCoherent DEF LinkInFreeEntry, set_bitmap
  <2>3. pc' # "idle"
    BY <1>4 DEF LinkInFreeEntry, Die
  <2> QED BY <2>2, <2>3, NotYetDurable
<1> QED BY <1>2, <1>3, <1>4

LEMMA WriteDurable ==
  ASSUME DurableInv,
         \/ \E i \in Inums, off \in Offsets, n \in Counts : WriteBegin(i, off, n)
         \/ WriteBlock \/ WriteFails \/ WriteEnd
  PROVE  Coherent' /\ SuccessIsDurable'
<1>1. inodes \in [Inodes -> Inode]
  BY DEF DurableInv, TypeOK
<1>2. CASE \E i \in Inums, off \in Offsets, n \in Counts : WriteBegin(i, off, n)
  <2>1. Coherent'
    BY <1>2, MarkedIsCoherent DEF WriteBegin, set_bitmap, image, Idle
  <2> QED BY <1>2, <2>1, NotYetDurable DEF WriteBegin
<1>3. CASE WriteBlock
  <2> DEFINE i == frame.inum
             a == WriteTarget(i, frame.blk)
  <2>1. \A j \in Inodes \ {i} : inodes'[j] = inodes[j]
    BY <1>1, <1>3 DEF WriteBlock
  <2>2. \A d \in DataBits \ dirty_data_bp' : d \in data_bp' <=> d \in data_bp
    BY <1>3 DEF WriteBlock, set_bitmap
  <2>3. i \in dirty_inode_bp /\ dirty_inode_bp' = dirty_inode_bp
    BY <1>3 DEF DurableInv, WriterMarked, WriteBlock
  <2>4. dirty_data_bp \subseteq dirty_data_bp'
    BY <1>3 DEF WriteBlock, set_bitmap
  <2>5. Coherent'
    BY <1>3, <2>1, <2>2, <2>3, <2>4, MarkedIsCoherent DEF WriteBlock
  <2> QED BY <1>3, <2>5, NotYetDurable DEF WriteBlock
<1>4. CASE WriteFails
  <2>1. Coherent'
    BY <1>4, NothingMoves DEF WriteFails
  <2> QED BY <1>4, <2>1, NotYetDurable DEF WriteFails, Return
<1>5. CASE WriteEnd
  <2>1. Coherent'
    BY <1>5, NothingMoves DEF WriteEnd
  <2> QED BY <1>5, <2>1, NotYetDurable DEF WriteEnd
<1> QED BY <1>2, <1>3, <1>4, <1>5

LEMMA UnlinkDurable ==
  ASSUME DurableInv, NEW p \in Inums, NEW n \in Names \cup {Dot}, Unlink(p, n)
  PROVE  Coherent' /\ SuccessIsDurable'
<1> DEFINE i == ufs_lookup(p, n)
<1>1. inodes \in [Inodes -> Inode]
  BY DEF DurableInv, TypeOK
<1>2. \A j \in Inodes \ {p} : inodes'[j] = inodes[j]
  BY <1>1 DEF Unlink
<1>3. PICK freed : /\ data_bp' = data_bp \ freed
                   /\ dirty_data_bp' = dirty_data_bp \cup (freed \cap DataBits)
  BY DEF Unlink
<1>4. /\ inode_bp' = inode_bp \ {i} /\ dirty_inode_bp' = dirty_inode_bp \cup {i} \cup {p}
      /\ pc = "idle" /\ pc' = "commit"
      /\ UNCHANGED <<disk_inode_bp, disk_data_bp, disk_inodes>>
  BY DEF Unlink, Idle, set_bitmap, reset_bitmap
<1> HIDE DEF i
<1>5. Coherent'
  BY <1>2, <1>3, <1>4, MarkedIsCoherent
<1> QED BY <1>4, <1>5, NotYetDurable

\* commit_dirty_to_disk clears a dirty bit and writes what it stood for: the
\* bitmap word at once, the inode in the next step.
LEMMA CommitDurable ==
  DurableInv /\ (CommitInodeBit \/ CommitInode \/ CommitData \/ CommitDone)
    => Coherent' /\ SuccessIsDurable'
<1> SUFFICES ASSUME DurableInv,
                    CommitInodeBit \/ CommitInode \/ CommitData \/ CommitDone
             PROVE  Coherent' /\ SuccessIsDurable'
  OBVIOUS
<1> USE DEF DurableInv
<1>1. CASE CommitInodeBit
  <2> DEFINE i == Min(dirty_inode_bp)
  <2>1. /\ dirty_inode_bp' = dirty_inode_bp \ {i}
        /\ disk_inode_bp' = WriteWord(disk_inode_bp, inode_bp, i)
        /\ frame' = [frame EXCEPT !.at = i]
        /\ pc = "commit" /\ pc' = "commit_inode"
        /\ UNCHANGED <<inode_bp, data_bp, inodes, dirty_data_bp,
                       disk_data_bp, disk_inodes>>
    BY <1>1 DEF CommitInodeBit, reset_bitmap
  <2>2. frame'.at = i
    BY <2>1 DEF TypeOK
  <2> HIDE DEF i
  <2>3. ASSUME NEW j \in Inodes \ dirty_inode_bp' PROVE InodeClean(j)'
    <3>1. CASE j = i
      BY <2>1, <2>2, <3>1, WordWritten DEF InodeClean
    <3>2. CASE j # i
      <4>1. InodeClean(j)
        BY <2>1, <2>3, <3>2 DEF Coherent
      <4>2. j \in disk_inode_bp' <=> j \in inode_bp
        BY <2>1, <4>1, WordWritten DEF InodeClean
      <4> QED BY <2>1, <4>1, <4>2 DEF InodeClean
    <3> QED BY <3>1, <3>2
  <2>4. Coherent'
    BY <2>1, <2>3 DEF Coherent, DataClean
  <2> QED BY <2>1, <2>4, NotYetDurable
<1>2. CASE CommitInode
  <2>1. disk_inodes \in [Inodes -> Inode] /\ frame.at \in Inodes
    BY DEF TypeOK
  <2>2. /\ disk_inodes' = [disk_inodes EXCEPT ![frame.at] = inodes[frame.at]]
        /\ pc = "commit_inode" /\ pc' = "commit"
        /\ UNCHANGED <<inode_bp, data_bp, inodes, dirty_inode_bp, dirty_data_bp,
                       disk_inode_bp, disk_data_bp>>
    BY <1>2 DEF CommitInode, core
  <2>3. Coherent'
    BY <2>1, <2>2 DEF Coherent, InodeClean, DataClean
  <2> QED BY <2>2, <2>3, NotYetDurable
<1>3. CASE CommitData
  <2> DEFINE d == Min(dirty_data_bp)
  <2>1. /\ dirty_data_bp' = dirty_data_bp \ {d}
        /\ disk_data_bp' = WriteWord(disk_data_bp, data_bp, d)
        /\ pc = "commit"
        /\ UNCHANGED <<inode_bp, data_bp, inodes, dirty_inode_bp,
                       disk_inode_bp, disk_inodes, pc, frame>>
    BY <1>3 DEF CommitData, reset_bitmap
  <2> HIDE DEF d
  <2>2. ASSUME NEW x \in DataBits \ dirty_data_bp' PROVE DataClean(x)'
    <3>1. CASE x = d
      BY <2>1, <3>1, WordWritten DEF DataClean
    <3>2. CASE x # d
      <4>1. DataClean(x)
        BY <2>1, <2>2, <3>2 DEF Coherent
      <4> QED BY <2>1, <4>1, WordWritten DEF DataClean
    <3> QED BY <3>1, <3>2
  <2>3. Coherent'
    BY <2>1, <2>2 DEF Coherent, InodeClean
  <2> QED BY <2>1, <2>3, NotYetDurable
<1>4. CASE CommitDone
  <2>1. /\ dirty_inode_bp = {} /\ dirty_data_bp = {} /\ pc = "commit"
        /\ UNCHANGED <<core, image>>
    BY <1>4 DEF CommitDone
  <2>2. Coherent'
    BY <2>1, NothingMoves
  <2>3. inode_bp = disk_inode_bp /\ data_bp = disk_data_bp
    BY <2>1 DEF Coherent, InodeClean, DataClean, TypeOK
  <2>4. inodes = disk_inodes
    BY <2>1 DEF Coherent, InodeClean, TypeOK
  <2>5. Synced'
    BY <2>1, <2>3, <2>4 DEF Synced, core, image
  <2> QED BY <2>2, <2>5 DEF SuccessIsDurable
<1> QED BY <1>1, <1>2, <1>3, <1>4

LEMMA RestartDurable == DurableInv /\ Restart => Coherent' /\ SuccessIsDurable'
BY DEF Restart, Coherent, InodeClean, DataClean, SuccessIsDurable, Synced, image

LEMMA DurableStep == DurableInv /\ [Next]_vars => DurableInv'
<1> SUFFICES ASSUME DurableInv, [Next]_vars PROVE DurableInv'
  OBVIOUS
<1>1. TypeOK'
  BY TypeStep DEF DurableInv
<1>2. Coherent' /\ SuccessIsDurable'
  <2>0. CASE UNCHANGED vars
    BY <2>0 DEF vars, DurableInv, Coherent, InodeClean, DataClean,
                SuccessIsDurable, Synced
  <2>1. CASE Lookup \/ CreatRefused \/ WriteRefused \/ Read
    BY <2>1, <2>0, RepliesAnswer, AnswerDurable DEF DurableInv
  <2>4. ASSUME NEW p \in Inums, NEW n \in Names \cup {Dot}, UnlinkRefused(p, n)
        PROVE  Coherent' /\ SuccessIsDurable'
    <3>1. CASE Answer("unlink", -1)
      BY <2>4, <3>1, AnswerDurable DEF UnlinkRefused, Idle
    <3>2. CASE UNCHANGED <<core, image, hist>> /\ pc' \in Dead
      <4>1. Coherent'
        BY <2>4, <3>2, NothingMoves DEF UnlinkRefused, Idle
      <4> QED BY <3>2, <4>1, NotYetDurable DEF Dead
    <3> QED BY <2>4, <3>1, <3>2 DEF UnlinkRefused, Die, Death, Dead
  <2>6. CASE Call
    BY <2>1, <2>4, <2>6, CreatDurable, WriteDurable, UnlinkDurable DEF Call, Grow, Unlinks
  <2>7. CASE Handler
    BY <2>7, LinkDurable, WriteDurable, CommitDurable DEF Handler
  <2> QED BY <2>0, <2>6, <2>7, RestartDurable DEF Next
<1>3. WriterMarked'
  <2>1. ASSUME NEW op, NEW r, Answer(op, r) PROVE pc' # "write"
    BY <2>1 DEF Answer, Return, Die, Death
  <2>2. CASE Call
    <3>1. ASSUME NEW i \in Inums, NEW off \in Offsets, NEW n \in Counts,
                 WriteBegin(i, off, n)
          PROVE  WriterMarked'
      <4>1. dirty_inode_bp' = dirty_inode_bp \cup {i} /\ frame'.inum = i
        BY <3>1 DEF WriteBegin, set_bitmap, NoFrame
      <4> QED BY <4>1 DEF WriterMarked
    <3>2. ASSUME ~ \E i \in Inums, off \in Offsets, n \in Counts : WriteBegin(i, off, n)
          PROVE  UNCHANGED vars \/ pc' # "write"
      <4>1. Lookup \/ CreatRefused \/ WriteRefused \/ Read => UNCHANGED vars \/ pc' # "write"
        BY <2>1, RepliesAnswer DEF DurableInv
      <4>2. ASSUME NEW p, NEW t, NEW n
            PROVE  CreatFails(p, t, n) \/ CreatAllocates(p, t, n) => pc' # "write"
        BY <2>1, SMTT(40) DEF CreatFails, CreatAllocates, Return
      <4>4. ASSUME NEW p, NEW n
            PROVE  UnlinkRefused(p, n) \/ Unlink(p, n) => pc' # "write"
        BY <2>1 DEF UnlinkRefused, Unlink, Die, Death
      <4> QED BY <2>2, <3>2, <4>1, <4>2, <4>4 DEF Call, Grow, Unlinks
    <3>3. CASE UNCHANGED vars
      BY <3>3 DEF vars, DurableInv, WriterMarked
    <3> QED BY <3>1, <3>2, <3>3 DEF WriterMarked
  <2>3. CASE Handler
    <3>1. CASE WriteBlock
      <4>1. frame'.inum = frame.inum /\ dirty_inode_bp' = dirty_inode_bp
            /\ frame.inum \in dirty_inode_bp
        BY <3>1 DEF WriteBlock, DurableInv, WriterMarked, TypeOK
      <4> QED BY <4>1 DEF WriterMarked
    <3>2. CASE ~WriteBlock
      <4>1. pc' # "write"
        <5>1. LinkFails \/ LinkInNewBlock \/ WriteFails \/ WriteEnd => pc' # "write"
          BY DEF LinkFails, LinkInNewBlock, WriteFails, WriteEnd, Return
        <5>2. LinkInFreeEntry => pc' # "write"
          BY DEF LinkInFreeEntry, Die
        <5>3. CommitInodeBit \/ CommitInode \/ CommitDone => pc' # "write"
          BY DEF CommitInodeBit, CommitInode, CommitDone, Return
        <5>4. CommitData => pc' # "write"
          BY DEF CommitData
        <5> QED BY <2>3, <3>2, <5>1, <5>2, <5>3, <5>4 DEF Handler
      <4> QED BY <4>1 DEF WriterMarked
    <3> QED BY <3>1, <3>2
  <2>4. CASE Restart
    BY <2>4 DEF Restart, WriterMarked
  <2>5. CASE UNCHANGED vars
    BY <2>5 DEF vars, WriterMarked, DurableInv
  <2> QED BY <2>2, <2>3, <2>4, <2>5 DEF Next
<1> QED BY <1>1, <1>2, <1>3 DEF DurableInv

LEMMA AlwaysDurable == Spec => []DurableInv
<1>1. Init => DurableInv
  BY InitType, InitDurable DEF DurableInv
<1> QED BY <1>1, DurableStep, PTL DEF Spec

\* Whatever a handler changes in core is marked dirty or already on the image,
\* through every failure path and every process death.
THEOREM CoherentAlways == Spec => []Coherent
BY AlwaysDurable, PTL DEF DurableInv

\* When creat, write or unlink has returned 0, the bitmaps and the inode table
\* on the image are the in-core ones.
THEOREM SuccessDurable == Spec => []SuccessIsDurable
BY AlwaysDurable, PTL DEF DurableInv

-----------------------------------------------------------------------------
(* Ownership of blocks, when clients do not unlink.                        *)

\* In inode bitmap ib, table tab and data bitmap db, every pointer is to a
\* data block whose bit is set and that no other slot points to.
Owned(ib, tab, db) ==
  \A i, j \in ib : \A s, u \in Slots :
    tab[i].direct[s] # NoBlock =>
      /\ tab[i].direct[s] \in DataAddrs /\ tab[i].direct[s] - DataStart \in db
      /\ tab[j].direct[u] = tab[i].direct[s] => i = j /\ s = u

\* The in-core file system is always so, the image except while it is being
\* committed, and the block ufs_creat has chosen for the parent stays free
\* until it is linked.
OwnedEverywhere ==
  ~torn =>
    /\ Owned(inode_bp, inodes, data_bp)
    /\ pc \notin {"commit", "commit_inode"} =>
         Owned(disk_inode_bp, disk_inodes, disk_data_bp)
    /\ pc = "link" /\ frame.data # -1 => frame.data \notin data_bp

OwnedInv == DurableInv /\ OwnedEverywhere

LEMMA OwnedIsOwnedOnce ==
  ASSUME TypeOK, Owned(inode_bp, inodes, data_bp)
  PROVE  BlocksOwnedOnce
<1>1. ASSUME NEW x \in Owners
      PROVE  /\ x = <<x[1], x[2]>> /\ x[1] \in inode_bp /\ x[2] \in Slots
             /\ inodes[x[1]].direct[x[2]] # NoBlock
  BY DEF Owners
<1> QED BY <1>1 DEF BlocksOwnedOnce, Owned, AddrOf

\* The pointers, the owning inodes and the allocated bits being the same,
\* ownership is.
LEMMA SamePointers ==
  ASSUME NEW ib, NEW tab, NEW tab2, NEW db, Owned(ib, tab, db),
         \A i \in ib : tab2[i].direct = tab[i].direct
  PROVE  Owned(ib, tab2, db)
BY DEF Owned

\* A fresh inode owns nothing.
LEMMA FreshInode ==
  ASSUME NEW ib, NEW tab, NEW tab2, NEW db, NEW e, Owned(ib, tab, db),
         \A i \in ib : tab2[i].direct = tab[i].direct,
         \A s \in Slots : tab2[e].direct[s] = NoBlock
  PROVE  Owned(ib \cup {e}, tab2, db)
BY DEF Owned

\* A free block given to an unset slot.
LEMMA GiveBlock ==
  ASSUME NEW ib, NEW tab, NEW tab2, NEW db, Owned(ib, tab, db),
         NEW e \in ib, NEW z \in Slots, NEW d \in DataBits, d \notin db,
         \A i \in ib \ {e} : tab2[i].direct = tab[i].direct,
         \A s \in Slots \ {z} : tab2[e].direct[s] = tab[e].direct[s],
         tab2[e].direct[z] = d + DataStart
  PROVE  Owned(ib, tab2, db \cup {d})
<1>1. /\ d + DataStart \in DataAddrs /\ d + DataStart # NoBlock
      /\ d + DataStart - DataStart = d
  BY Addresses, SizesAssumption
<1>2. \A a \in DataAddrs : a = d + DataStart => a - DataStart = d
  BY SizesAssumption DEF DataAddrs, DataBits
<1>3. ASSUME NEW i \in ib, NEW s \in Slots
      PROVE  \/ i = e /\ s = z /\ tab2[i].direct[s] = d + DataStart
             \/ (i # e \/ s # z) /\ tab2[i].direct[s] = tab[i].direct[s]
  OBVIOUS
<1>4. ASSUME NEW i \in ib, NEW s \in Slots, tab[i].direct[s] # NoBlock
      PROVE  tab[i].direct[s] # d + DataStart
  <2>1. tab[i].direct[s] - DataStart \in db /\ tab[i].direct[s] \in DataAddrs
    BY <1>4 DEF Owned
  <2> QED BY <2>1, <1>2
<1>5. ASSUME NEW i \in ib, NEW j \in ib, NEW s \in Slots, NEW u \in Slots,
             tab2[i].direct[s] # NoBlock
      PROVE  /\ tab2[i].direct[s] \in DataAddrs
             /\ tab2[i].direct[s] - DataStart \in db \cup {d}
             /\ tab2[j].direct[u] = tab2[i].direct[s] => i = j /\ s = u
  <2>1. CASE i = e /\ s = z /\ tab2[i].direct[s] = d + DataStart
    <3>1. ASSUME j # e \/ u # z PROVE tab2[j].direct[u] # d + DataStart
      BY <3>1, <1>1, <1>3, <1>4
    <3>2. tab2[i].direct[s] - DataStart = d
      BY <2>1, <1>1, <1>2
    <3> QED BY <2>1, <3>1, <3>2, <1>1
  <2>2. CASE (i # e \/ s # z) /\ tab2[i].direct[s] = tab[i].direct[s]
    <3>1. /\ tab[i].direct[s] \in DataAddrs /\ tab[i].direct[s] - DataStart \in db
          /\ tab[j].direct[u] = tab[i].direct[s] => i = j /\ s = u
      BY <1>5, <2>2 DEF Owned
    <3>2. tab2[i].direct[s] # d + DataStart
      BY <1>4, <1>5, <2>2
    <3> QED BY <2>2, <3>1, <3>2, <1>3
  <2> QED BY <1>3, <2>1, <2>2
<1> QED BY <1>5 DEF Owned

LEMMA OwnedCreat ==
  ASSUME OwnedInv, NEW p \in Inums, NEW t \in {UFS_DIRECTORY, UFS_REGULAR_FILE},
         NEW n \in Names, CreatFails(p, t, n) \/ CreatAllocates(p, t, n)
  PROVE  OwnedEverywhere'
<1> DEFINE e  == FirstFree(inode_bp, 0, NumInodes)
           d1 == FirstFree(data_bp, 0, NumData)
           d2 == IF d1 = -1 THEN -1 ELSE FirstFree(data_bp, d1 + 1, NumData)
           mkdir == t = UFS_DIRECTORY
<1>1. inodes \in [Inodes -> Inode] /\ inode_bp \subseteq Inodes
  BY DEF OwnedInv, DurableInv, TypeOK
<1>2. e \in Inodes /\ e \notin inode_bp /\ pc = "idle" /\ torn' = torn
  BY FreeInode, CreatGoesOn DEF CreatFails, CreatAllocates, Idle, hist
<1> SUFFICES ASSUME ~torn PROVE OwnedEverywhere'
  BY <1>2 DEF OwnedEverywhere
<1>3. /\ Owned(inode_bp, inodes, data_bp)
      /\ Owned(disk_inode_bp, disk_inodes, disk_data_bp)
  BY <1>2 DEF OwnedInv, OwnedEverywhere
<1>4. Owned(disk_inode_bp, disk_inodes, disk_data_bp)'
  BY <1>3 DEF CreatFails, CreatAllocates, image
<1>5. CASE CreatFails(p, t, n)
  <2>1. /\ inode_bp' = inode_bp \cup {e}
        /\ inodes' = [inodes EXCEPT ![e].type = t, ![e].direct = NoBlocks]
        /\ data_bp' = data_bp /\ pc' = "idle"
    BY <1>5 DEF CreatFails, set_bitmap, Return
  <2> HIDE DEF e
  <2>2. \A i \in inode_bp : inodes'[i].direct = inodes[i].direct
    BY <1>1, <1>2, <2>1
  <2>3. \A s \in Slots : inodes'[e].direct[s] = NoBlock
    <3>1. inodes[e] \in Inode /\ inodes'[e] = [inodes[e] EXCEPT !.type = t, !.direct = NoBlocks]
      BY <1>1, <1>2, <2>1
    <3>2. inodes'[e].direct = NoBlocks
      BY <3>1 DEF Inode
    <3> QED BY <3>2 DEF NoBlocks
  <2>4. Owned(inode_bp \cup {e}, inodes', data_bp)
    BY <1>3, <2>2, <2>3, FreshInode
  <2> QED BY <1>4, <2>1, <2>4 DEF OwnedEverywhere
<1>6. CASE CreatAllocates(p, t, n)
  <2> DEFINE dir == IF mkdir THEN [NoBlocks EXCEPT ![0] = d1 + DataStart] ELSE NoBlocks
             new == [type |-> t, size |-> IF mkdir THEN 2 ELSE 0, direct |-> dir]
             bare == [inodes EXCEPT ![e] = [type |-> t, size |-> 0, direct |-> NoBlocks]]
  <2>1. /\ inode_bp' = inode_bp \cup {e}
        /\ inodes' = [inodes EXCEPT ![e] = new]
        /\ data_bp' = IF mkdir THEN data_bp \cup {d1} ELSE data_bp
        /\ pc' = "link" /\ frame'.data = IF mkdir THEN d2 ELSE d1
    BY <1>6 DEF CreatAllocates, set_bitmap, NoFrame
  <2>2. /\ mkdir => d1 \in DataBits \ data_bp
        /\ d1 # -1 => d1 \in DataBits \ data_bp
        /\ d2 # -1 => d2 \notin data_bp /\ d2 # d1
    BY <1>6, FreeData DEF CreatAllocates, NoRoom
  <2> HIDE DEF e, d1, d2
  <2>3. frame'.data # -1 => frame'.data \notin data_bp'
    BY <2>1, <2>2
  <2>4. Owned(inode_bp \cup {e}, bare, data_bp)
    <3>1. \A i \in inode_bp : bare[i].direct = inodes[i].direct
      BY <1>1, <1>2
    <3>2. \A s \in Slots : bare[e].direct[s] = NoBlock
      BY <1>1, <1>2 DEF NoBlocks
    <3> HIDE DEF bare
    <3> QED BY <1>3, <3>1, <3>2, FreshInode
  <2>5. inodes'[e].direct = dir /\ bare[e].direct = NoBlocks
    BY <1>1, <1>2, <2>1
  <2>6. \A i \in inode_bp : inodes'[i].direct = bare[i].direct
    BY <1>1, <1>2, <2>1
  <2> HIDE DEF new, bare
  <2>7. CASE mkdir
    <3>1. /\ inodes'[e].direct[0] = d1 + DataStart
          /\ \A s \in Slots \ {0} : inodes'[e].direct[s] = bare[e].direct[s]
      BY <2>5, <2>7, Addresses DEF NoBlocks
    <3>2. \A i \in (inode_bp \cup {e}) \ {e} : inodes'[i].direct = bare[i].direct
      BY <2>6
    <3>3. Owned(inode_bp \cup {e}, inodes', data_bp \cup {d1})
      BY <2>2, <2>4, <2>7, <3>1, <3>2, Addresses, GiveBlock
    <3> QED BY <1>4, <2>1, <2>3, <2>7, <3>3 DEF OwnedEverywhere
  <2>8. CASE ~mkdir
    <3>1. Owned(inode_bp \cup {e}, inodes', data_bp)
      BY <2>4, <2>5, <2>6, <2>8, SamePointers
    <3> QED BY <1>4, <2>1, <2>3, <2>8, <3>1 DEF OwnedEverywhere
  <2> QED BY <2>7, <2>8
<1> QED BY <1>5, <1>6

LEMMA OwnedLink ==
  ASSUME OwnedInv, LinkFails \/ LinkInNewBlock \/ LinkInFreeEntry
  PROVE  OwnedEverywhere'
<1> DEFINE p == frame.inum
<1>1. /\ inodes \in [Inodes -> Inode] /\ p \in Inodes
      /\ frame.data \in DataBits \cup {-1}
  BY DEF OwnedInv, DurableInv, TypeOK
<1>2. pc = "link" /\ torn' = torn
  BY DEF LinkFails, LinkInNewBlock, LinkInFreeEntry, hist
<1> SUFFICES ASSUME ~torn PROVE OwnedEverywhere'
  BY <1>2 DEF OwnedEverywhere
<1>3. /\ Owned(inode_bp, inodes, data_bp)
      /\ Owned(disk_inode_bp, disk_inodes, disk_data_bp)
      /\ frame.data # -1 => frame.data \notin data_bp
  BY <1>2 DEF OwnedInv, OwnedEverywhere
<1>4. CASE LinkFails
  <2>1. pc' = "idle" /\ UNCHANGED <<inode_bp, data_bp, inodes, image>>
    BY <1>4 DEF LinkFails, Return
  <2> QED BY <1>3, <2>1 DEF OwnedEverywhere, image
<1>5. CASE LinkInNewBlock
  <2> DEFINE d     == frame.data
             slot  == FirstEmptySlot(p)
             unset == {s \in Slots : inodes[p].direct[s] = NoBlock}
             dir   == IF unset = {} THEN inodes[p].direct
                      ELSE [inodes[p].direct EXCEPT ![slot] = d + DataStart]
  <2>1. /\ inodes' = [inodes EXCEPT ![p].size = @ + 1,
                        ![p].direct = IF unset = {} THEN @
                                      ELSE [@ EXCEPT ![slot] = d + DataStart]]
        /\ data_bp' = data_bp \cup {d} /\ d # -1 /\ pc' = "commit"
        /\ inode_bp' = inode_bp
    BY <1>5 DEF LinkInNewBlock, set_bitmap
  <2>2. inodes[p] \in Inode
    BY <1>1
  <2>3. /\ inodes'[p].direct = dir
        /\ \A i \in Inodes \ {p} : inodes'[i] = inodes[i]
    BY <1>1, <2>1, <2>2 DEF Inode
  <2>4. inode_bp \subseteq Inodes
    BY DEF OwnedInv, DurableInv, TypeOK
  <2>5. inodes[p].direct \in [Slots -> BlockAddrs \cup {NoBlock}]
    BY <2>2 DEF Inode
  <2>6. Owned(inode_bp, inodes', data_bp \cup {d})
    <3>1. CASE unset = {} \/ p \notin inode_bp
      <4>1. \A i \in inode_bp : inodes'[i].direct = inodes[i].direct
        BY <2>3, <2>4, <3>1
      <4>2. Owned(inode_bp, inodes', data_bp)
        BY <1>3, <4>1, SamePointers
      <4> QED BY <4>2 DEF Owned
    <3>2. CASE unset # {} /\ p \in inode_bp
      <4>1. slot \in unset
        BY <3>2, MinSlot DEF FirstEmptySlot
      <4> HIDE DEF slot
      <4>2. /\ inodes'[p].direct[slot] = d + DataStart
            /\ \A s \in Slots \ {slot} : inodes'[p].direct[s] = inodes[p].direct[s]
        BY <2>3, <2>5, <3>2, <4>1
      <4>3. \A i \in inode_bp \ {p} : inodes'[i].direct = inodes[i].direct
        BY <2>3, <2>4
      <4>4. d \in DataBits /\ d \notin data_bp /\ slot \in Slots
        BY <1>1, <1>3, <2>1, <4>1
      <4> HIDE DEF p, d
      <4> QED BY <1>3, <3>2, <4>2, <4>3, <4>4, GiveBlock
    <3> QED BY <3>1, <3>2
  <2> QED BY <2>1, <2>6 DEF OwnedEverywhere
<1>6. CASE LinkInFreeEntry
  <2>1. CASE UNCHANGED inodes /\ pc' = "exited"
    BY <1>3, <1>6, <2>1, SMTT(40) DEF LinkInFreeEntry, OwnedEverywhere
  <2>2. CASE inodes' = [inodes EXCEPT ![p].size = @ + 1] /\ pc' = "commit"
    <3>1. inode_bp \subseteq Inodes
      BY DEF OwnedInv, DurableInv, TypeOK
    <3>2. \A i \in inode_bp : inodes'[i].direct = inodes[i].direct
      BY <1>1, <2>2, <3>1 DEF Inode
    <3>3. Owned(inode_bp, inodes', data_bp)
      BY <1>3, <3>2, SamePointers
    <3> QED BY <1>6, <2>2, <3>3 DEF LinkInFreeEntry, OwnedEverywhere
  <2> QED BY <1>6, <2>1, <2>2 DEF LinkInFreeEntry, Die
<1> QED BY <1>4, <1>5, <1>6

LEMMA OwnedWrite ==
  ASSUME OwnedInv, WriteBlock
  PROVE  OwnedEverywhere'
<1> DEFINE i == frame.inum
           b == frame.blk
           a == WriteTarget(i, b)
           fresh == inodes[i].direct[b] = NoBlock
           sz == Min({frame.left, BlockSize - frame.off})
<1>1. /\ inodes \in [Inodes -> Inode] /\ i \in Inodes /\ b \in Slots
      /\ inode_bp \subseteq Inodes
  BY DEF OwnedInv, DurableInv, TypeOK, WriteBlock
<1>2. /\ pc = "write" /\ pc' = "write" /\ torn' = torn /\ a # NoBlock
      /\ data_bp' = IF fresh THEN data_bp \cup {a - DataStart} ELSE data_bp
      /\ inodes' = [inodes EXCEPT ![i].direct[b] = a, ![i].size = @ + sz]
      /\ UNCHANGED <<inode_bp, disk_inode_bp, disk_data_bp, disk_inodes>>
  BY DEF WriteBlock, set_bitmap, hist
<1> SUFFICES ASSUME ~torn PROVE OwnedEverywhere'
  BY <1>2 DEF OwnedEverywhere
<1>3. /\ Owned(inode_bp, inodes, data_bp)
      /\ Owned(disk_inode_bp, disk_inodes, disk_data_bp)
  BY <1>2 DEF OwnedInv, OwnedEverywhere
<1>4. inodes[i] \in Inode
  BY <1>1
<1>5. /\ inodes'[i].direct = [inodes[i].direct EXCEPT ![b] = a]
      /\ \A j \in Inodes \ {i} : inodes'[j] = inodes[j]
  <2> HIDE DEF a, sz
  <2> QED BY <1>1, <1>2, <1>4 DEF Inode
<1>6. inodes[i].direct \in [Slots -> BlockAddrs \cup {NoBlock}]
  BY <1>4 DEF Inode
<1>7. Owned(inode_bp, inodes', data_bp')
  <2>1. CASE ~fresh \/ i \notin inode_bp
    <3>1. \A j \in inode_bp : inodes'[j].direct = inodes[j].direct
      <4>1. ~fresh => a = inodes[i].direct[b]
        BY DEF WriteTarget
      <4> HIDE DEF a
      <4> QED BY <1>1, <1>5, <1>6, <2>1, <4>1
    <3>2. Owned(inode_bp, inodes', data_bp)
      BY <1>3, <3>1, SamePointers
    <3>3. data_bp \subseteq data_bp'
      BY <1>2
    <3> QED BY <3>2, <3>3 DEF Owned
  <2>2. CASE fresh /\ i \in inode_bp
    <3> DEFINE d == a - DataStart
    <3>1. d \in DataBits \ data_bp /\ a \in DataAddrs
      BY <1>1, <1>2, <2>2, WriteTargetType DEF OwnedInv, DurableInv
    <3> HIDE DEF a
    <3>2. d + DataStart = a
      BY <3>1, SizesAssumption DEF DataAddrs
    <3> HIDE DEF d
    <3>3. /\ inodes'[i].direct[b] = d + DataStart
          /\ \A s \in Slots \ {b} : inodes'[i].direct[s] = inodes[i].direct[s]
      BY <1>1, <1>5, <1>6, <3>2
    <3>4. \A j \in inode_bp \ {i} : inodes'[j].direct = inodes[j].direct
      BY <1>1, <1>5
    <3>5. Owned(inode_bp, inodes', data_bp \cup {d})
      <4> HIDE DEF i, b
      <4> QED BY <1>1, <1>3, <2>2, <3>1, <3>3, <3>4, GiveBlock
    <3> QED BY <1>2, <2>2, <3>5 DEF d
  <2> QED BY <2>1, <2>2
<1> HIDE DEF fresh, a, sz
<1> QED BY <1>2, <1>3, <1>7 DEF OwnedEverywhere

LEMMA OwnedCommit ==
  ASSUME OwnedInv, CommitInodeBit \/ CommitInode \/ CommitData \/ CommitDone
  PROVE  OwnedEverywhere'
<1>1. /\ UNCHANGED <<inode_bp, data_bp, inodes, torn>>
      /\ pc \in {"commit", "commit_inode"}
  BY DEF CommitInodeBit, CommitInode, CommitData, CommitDone, core, hist
<1>2. Owned(inode_bp, inodes, data_bp)' \/ torn'
  BY <1>1 DEF OwnedInv, OwnedEverywhere
<1>3. CASE CommitDone
  <2>1. /\ pc' = "idle" /\ UNCHANGED <<disk_inode_bp, disk_data_bp, disk_inodes>>
        /\ dirty_inode_bp = {} /\ dirty_data_bp = {} /\ pc = "commit"
    BY <1>3 DEF CommitDone, Return, image
  <2>2. Coherent /\ TypeOK
    BY DEF OwnedInv, DurableInv
  <2>3. inode_bp = disk_inode_bp
    BY <2>1, <2>2 DEF Coherent, InodeClean, TypeOK
  <2>4. data_bp = disk_data_bp
    BY <2>1, <2>2 DEF Coherent, DataClean, TypeOK
  <2>5. inodes = disk_inodes
    BY <2>1, <2>2 DEF Coherent, InodeClean, TypeOK
  <2> QED BY <1>1, <1>2, <2>1, <2>3, <2>4, <2>5 DEF OwnedEverywhere
<1>4. CASE CommitInodeBit \/ CommitInode \/ CommitData
  <2>1. pc' \in {"commit", "commit_inode"}
    BY <1>4 DEF CommitInodeBit, CommitInode, CommitData
  <2> QED BY <1>2, <2>1 DEF OwnedEverywhere
<1> QED BY <1>3, <1>4

\* A process that dies between calls starts again from an image in order.
LEMMA OwnedRestart == OwnedInv /\ Restart => OwnedEverywhere'
<1> SUFFICES ASSUME OwnedInv, Restart, ~torn' PROVE OwnedEverywhere'
  BY DEF OwnedEverywhere
<1>1. ~torn /\ pc \in Dead \cup {"idle"}
  BY DEF Restart
<1>2. Owned(disk_inode_bp, disk_inodes, disk_data_bp)
  BY <1>1 DEF OwnedInv, OwnedEverywhere, Dead
<1> QED BY <1>2 DEF Restart, OwnedEverywhere, image

LEMMA OwnedStep ==
  ASSUME "unlink" \notin Ops, OwnedInv, [Next]_vars
  PROVE  OwnedInv'
<1>1. DurableInv'
  BY DurableStep DEF OwnedInv
<1> SUFFICES OwnedEverywhere'
  BY <1>1 DEF OwnedInv
<1>2. ASSUME UNCHANGED <<inode_bp, data_bp, inodes, image, torn>>,
             pc \notin {"commit", "commit_inode"}, pc' # "link"
      PROVE  OwnedEverywhere'
  BY <1>2 DEF OwnedInv, OwnedEverywhere, image
<1>3. ASSUME NEW op, NEW r, Answer(op, r), pc = "idle" PROVE OwnedEverywhere'
  <2>1. pc' # "link"
    BY <1>3 DEF Answer, Return, Die, Death
  <2> QED BY <1>2, <1>3, <2>1 DEF Answer, core, hist
<1>0. CASE UNCHANGED vars
  BY <1>0 DEF vars, OwnedInv, OwnedEverywhere
<1>4. CASE Lookup \/ CreatRefused \/ WriteRefused \/ Read
  BY <1>3, <1>4, <1>0, RepliesAnswer DEF OwnedInv, DurableInv
<1>7. ASSUME NEW i \in Inums, NEW off \in Offsets, NEW n \in Counts,
             WriteBegin(i, off, n)
      PROVE  OwnedEverywhere'
  BY <1>2, <1>7 DEF WriteBegin, Idle, hist
<1>8. CASE WriteFails \/ WriteEnd
  <2>1. /\ UNCHANGED <<inode_bp, data_bp, inodes, image, torn>> /\ pc = "write"
        /\ pc' # "link"
    BY <1>8 DEF WriteFails, WriteEnd, Return, core, hist
  <2>2. UNCHANGED <<disk_inode_bp, disk_data_bp, disk_inodes>>
    BY <2>1 DEF image
  <2>3. pc' \in {"idle", "commit"}
    BY <1>8, SMTT(40) DEF WriteFails, WriteEnd, Return
  <2> QED BY <2>1, <2>2, <2>3 DEF OwnedInv, OwnedEverywhere
<1>10. ASSUME NEW p, NEW n, UnlinkRefused(p, n) \/ Unlink(p, n) PROVE FALSE
  BY <1>10 DEF UnlinkRefused, Unlink, Idle
<1>11. CASE Call
  BY <1>4, <1>7, <1>10, <1>11, OwnedCreat DEF Call, Grow, Unlinks
<1>12. CASE Handler
  BY <1>8, <1>12, OwnedLink, OwnedWrite, OwnedCommit DEF Handler
<1> QED BY <1>0, <1>11, <1>12, OwnedRestart DEF Next

LEMMA InitOwned == Init => OwnedInv
<1> SUFFICES ASSUME Init PROVE OwnedInv
  OBVIOUS
<1>1. DurableInv
  BY InitType, InitDurable DEF DurableInv
<1>2. PICK s \in [Inodes -> StaleInodes] : disk_inodes = [s EXCEPT ![0] = RootInode]
  BY DEF Init
<1>3. disk_inodes[0].direct = [NoBlocks EXCEPT ![0] = DataStart]
  BY <1>2, Addresses DEF RootInode
<1>4. Owned({0}, disk_inodes, {0})
  <2>1. DataStart \in DataAddrs /\ DataStart - DataStart = 0
    BY SizesAssumption DEF DataAddrs
  <2>2. \A u \in Slots : disk_inodes[0].direct[u] # NoBlock =>
                           u = 0 /\ disk_inodes[0].direct[u] = DataStart
    BY <1>3, Addresses DEF NoBlocks
  <2> QED BY <2>1, <2>2 DEF Owned
<1>5. /\ inode_bp = {0} /\ data_bp = {0} /\ inodes = disk_inodes
      /\ disk_inode_bp = {0} /\ disk_data_bp = {0} /\ pc = "idle"
  BY DEF Init, ufs_init
<1> QED BY <1>1, <1>4, <1>5 DEF OwnedInv, OwnedEverywhere

\* Unless clients unlink, no block is ever given to two slots, and none in use
\* is taken for free: through creat and write calls that fail half way, and
\* process deaths between calls.
THEOREM BlocksNeverShared ==
  ASSUME "unlink" \notin Ops
  PROVE  Spec => []BlocksOwnedOnce
<1>1. OwnedInv /\ [Next]_vars => OwnedInv'
  BY OwnedStep
<1>2. OwnedInv => BlocksOwnedOnce
  <2>1. CASE torn
    BY <2>1 DEF BlocksOwnedOnce
  <2>2. CASE ~torn
    BY <2>2, OwnedIsOwnedOnce DEF OwnedInv, OwnedEverywhere, DurableInv
  <2> QED BY <2>1, <2>2
<1> QED BY <1>1, <1>2, InitOwned, PTL DEF Spec

=============================================================================
