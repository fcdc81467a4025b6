--------------------------- MODULE UfsTreeProofs ---------------------------
(* Proof that the entries of Ufs form a tree when clients do not unlink,    *)
(* which is said here of places, an inode, a slot and a cell, instead of    *)
(* the blocks that hold the entries; what the links of UfsTree that lead on *)
(* from the root are, whose definition is recursive; and that the calls of  *)
(* Ufs are the steps of FileSystem.                                         *)
EXTENDS UfsTree, UfsDataProofs, SequenceTheorems

(***************************************************************************)
(* Entries in their places.                                                *)
(***************************************************************************)

\* Cell c of slot s of inode x, and whether it is in use.
At(x, b, s, c)   == b[x.direct[s]][c]
Used(x, b, s, c) == x.direct[s] # NoBlock /\ At(x, b, s, c).inum # -1

\* The cells in use of the directories among inodes ib, those of them that
\* hold a client's name, and the inode an entry leads to.
UsedPlaces(ib, tab, b) ==
  {l \in ib \X Slots \X Cells :
     tab[l[1]].type = UFS_DIRECTORY /\ Used(tab[l[1]], b, l[2], l[3])}
Held(tab, b, l)   == At(tab[l[1]], b, l[2], l[3])
LinkPlaces(ib, tab, b) == {l \in UsedPlaces(ib, tab, b) : Held(tab, b, l).name \in Names}
Target(tab, b, l) == Held(tab, b, l).inum

\* The second entry of directory x leads back to inode p.
LeadsBack(x, b, p) == x.direct[0] # NoBlock /\ At(x, b, 0, 1) = Entry(DotDot, p)

\* Exactly the inodes in linked have a link, each one of them, and a directory
\* leads back to where its link is.
Tree(ib, tab, b, linked) ==
  /\ \A l \in LinkPlaces(ib, tab, b) : Target(tab, b, l) \in linked
  /\ \A l, m \in LinkPlaces(ib, tab, b) : Target(tab, b, l) = Target(tab, b, m) => l = m
  /\ \A i \in linked : \E l \in LinkPlaces(ib, tab, b) : Target(tab, b, l) = i
  /\ \A l \in LinkPlaces(ib, tab, b) :
       tab[Target(tab, b, l)].type = UFS_DIRECTORY =>
         LeadsBack(tab[Target(tab, b, l)], b, l[1])

\* The inode ufs_creat has allocated and not linked yet.
Unlinked == IF pc = "link" THEN {frame.new} ELSE {}

\* It is nowhere on the image.
NewOK ==
  /\ frame.new \notin disk_inode_bp \cup leaked
  /\ inodes[frame.new].type = UFS_DIRECTORY =>
       LeadsBack(inodes[frame.new], blocks, frame.inum)

\* The root is a directory, in core and on the image.
RootOK ==
  /\ 0 \in disk_inode_bp \cap inode_bp /\ 0 \notin leaked
  /\ inodes[0].type = UFS_DIRECTORY /\ disk_inodes[0].type = UFS_DIRECTORY

LinksOK ==
  ~torn =>
    /\ leaked \subseteq inode_bp /\ RootOK
    /\ Tree(inode_bp, inodes, blocks, inode_bp \ (leaked \cup Unlinked \cup {0}))
    /\ pc \notin Committing =>
         Tree(disk_inode_bp, disk_inodes, blocks, disk_inode_bp \ (leaked \cup {0}))
    /\ pc = "link" => NewOK

LinksInv == DataInv /\ LinksOK

-----------------------------------------------------------------------------
(* Trees that stay, and trees that grow.                                   *)

\* What the directories among inodes ib have in use stays where it is.
Keeps(ib, tab, b, tab2, b2) ==
  \A i \in ib :
    /\ tab2[i].type = tab[i].type
    /\ tab[i].type = UFS_DIRECTORY =>
         \A s \in Slots, c \in Cells : Used(tab[i], b, s, c) =>
           /\ Used(tab2[i], b2, s, c)
           /\ At(tab2[i], b2, s, c) = At(tab[i], b, s, c)

LEMMA PlaceIs ==
  ASSUME NEW ib, NEW tab, NEW b, NEW l
  PROVE  l \in UsedPlaces(ib, tab, b) <=>
           \E i \in ib, s \in Slots, c \in Cells :
             l = <<i, s, c>> /\ tab[i].type = UFS_DIRECTORY /\ Used(tab[i], b, s, c)
<1>1. l \in ib \X Slots \X Cells <=>
        \E i \in ib, s \in Slots, c \in Cells : l = <<i, s, c>>
  OBVIOUS
<1>2. ASSUME NEW i \in ib, NEW s \in Slots, NEW c \in Cells, l = <<i, s, c>>
      PROVE  l[1] = i /\ l[2] = s /\ l[3] = c
  BY <1>2
<1> QED BY <1>1, <1>2 DEF UsedPlaces

LEMMA LinksKept ==
  ASSUME NEW ib, NEW ib2, ib \subseteq ib2, NEW tab, NEW tab2, NEW b, NEW b2,
         Keeps(ib, tab, b, tab2, b2)
  PROVE  /\ \A l \in UsedPlaces(ib, tab, b) :
              /\ l \in UsedPlaces(ib2, tab2, b2) /\ Held(tab2, b2, l) = Held(tab, b, l)
              /\ l[1] \in ib
         /\ \A l \in LinkPlaces(ib, tab, b) : l \in LinkPlaces(ib2, tab2, b2)
         /\ \A l \in LinkPlaces(ib2, tab2, b2) :
              l \in UsedPlaces(ib, tab, b) => l \in LinkPlaces(ib, tab, b)
<1>1. ASSUME NEW l \in UsedPlaces(ib, tab, b)
      PROVE  /\ l \in UsedPlaces(ib2, tab2, b2) /\ Held(tab2, b2, l) = Held(tab, b, l)
             /\ l[1] \in ib
  <2>1. PICK i \in ib, s \in Slots, c \in Cells :
               l = <<i, s, c>> /\ tab[i].type = UFS_DIRECTORY /\ Used(tab[i], b, s, c)
    BY PlaceIs
  <2>2. /\ tab2[i].type = UFS_DIRECTORY /\ Used(tab2[i], b2, s, c) /\ i \in ib2
        /\ At(tab2[i], b2, s, c) = At(tab[i], b, s, c)
    BY <2>1 DEF Keeps
  <2>3. l \in UsedPlaces(ib2, tab2, b2)
    BY <2>1, <2>2, PlaceIs
  <2>4. l[1] = i /\ l[2] = s /\ l[3] = c
    BY <2>1
  <2> QED BY <2>2, <2>3, <2>4 DEF Held
<1> QED BY <1>1 DEF LinkPlaces

LEMMA LeadsBackKept ==
  ASSUME NEW ib, NEW tab, NEW tab2, NEW b, NEW b2, Keeps(ib, tab, b, tab2, b2),
         NEW i \in ib, tab[i].type = UFS_DIRECTORY, NEW p \in Inodes,
         LeadsBack(tab[i], b, p)
  PROVE  LeadsBack(tab2[i], b2, p)
<1>1. 0 \in Slots /\ 1 \in Cells /\ p # -1
  BY Addresses, Sizes DEF Cells, Inodes
<1>2. Entry(DotDot, p).inum = p
  BY DEF Entry
<1>3. Used(tab[i], b, 0, 1)
  BY <1>1, <1>2 DEF LeadsBack, Used
<1>4. Used(tab2[i], b2, 0, 1) /\ At(tab2[i], b2, 0, 1) = At(tab[i], b, 0, 1)
  BY <1>1, <1>3 DEF Keeps
<1> QED BY <1>4 DEF LeadsBack, Used

\* Without a new link a tree stays a tree.
LEMMA TreeKept ==
  ASSUME NEW ib \in SUBSET Inodes, NEW ib2, ib \subseteq ib2,
         NEW tab, NEW tab2, NEW b, NEW b2, Keeps(ib, tab, b, tab2, b2),
         NEW linked \in SUBSET ib, Tree(ib, tab, b, linked),
         \A l \in LinkPlaces(ib2, tab2, b2) : l \in UsedPlaces(ib, tab, b)
  PROVE  Tree(ib2, tab2, b2, linked)
<1>1. \A l : l \in LinkPlaces(ib2, tab2, b2) <=> l \in LinkPlaces(ib, tab, b)
  BY LinksKept
<1>2. \A l \in LinkPlaces(ib, tab, b) :
        Target(tab2, b2, l) = Target(tab, b, l) /\ l[1] \in ib
  BY LinksKept DEF LinkPlaces, Target
<1>3. ASSUME NEW l \in LinkPlaces(ib, tab, b),
             tab2[Target(tab2, b2, l)].type = UFS_DIRECTORY
      PROVE  LeadsBack(tab2[Target(tab2, b2, l)], b2, l[1])
  <2> DEFINE i == Target(tab, b, l)
  <2>1. i \in ib /\ Target(tab2, b2, l) = i /\ l[1] \in Inodes
    BY <1>2 DEF Tree
  <2>2. tab[i].type = UFS_DIRECTORY
    BY <1>3, <2>1 DEF Keeps
  <2>3. LeadsBack(tab[i], b, l[1])
    BY <2>2 DEF Tree
  <2> HIDE DEF i
  <2> QED BY <2>1, <2>2, <2>3, LeadsBackKept
<1> QED BY <1>1, <1>2, <1>3 DEF Tree

\* One link m more, to an inode e that had none.
LEMMA TreeGrows ==
  ASSUME NEW ib \in SUBSET Inodes, NEW tab, NEW tab2, NEW b, NEW b2,
         Keeps(ib, tab, b, tab2, b2),
         NEW linked \in SUBSET ib, Tree(ib, tab, b, linked),
         NEW e \in ib \ linked, NEW m \in LinkPlaces(ib, tab2, b2),
         Target(tab2, b2, m) = e,
         tab2[e].type = UFS_DIRECTORY => LeadsBack(tab2[e], b2, m[1]),
         \A l \in LinkPlaces(ib, tab2, b2) : l \in UsedPlaces(ib, tab, b) \/ l = m
  PROVE  Tree(ib, tab2, b2, linked \cup {e})
<1>1. \A l : l \in LinkPlaces(ib, tab2, b2) <=> l \in LinkPlaces(ib, tab, b) \/ l = m
  BY LinksKept
<1>2. \A l \in LinkPlaces(ib, tab, b) :
        /\ Target(tab2, b2, l) = Target(tab, b, l) /\ l[1] \in ib
        /\ Target(tab, b, l) \in linked
  BY LinksKept DEF LinkPlaces, Target, Tree
<1>3. ASSUME NEW l \in LinkPlaces(ib, tab, b),
             tab2[Target(tab2, b2, l)].type = UFS_DIRECTORY
      PROVE  LeadsBack(tab2[Target(tab2, b2, l)], b2, l[1])
  <2> DEFINE i == Target(tab, b, l)
  <2>1. i \in ib /\ Target(tab2, b2, l) = i /\ l[1] \in Inodes
    BY <1>2
  <2>2. tab[i].type = UFS_DIRECTORY
    BY <1>3, <2>1 DEF Keeps
  <2>3. LeadsBack(tab[i], b, l[1])
    BY <2>2 DEF Tree
  <2> HIDE DEF i
  <2> QED BY <2>1, <2>2, <2>3, LeadsBackKept
<1> QED BY <1>1, <1>2, <1>3 DEF Tree

-----------------------------------------------------------------------------
(* The steps.                                                              *)

\* What the steps of a process that never died inside a handler start from.
LEMMA LinksStart ==
  ASSUME LinksInv, ~torn
  PROVE  /\ TypeOK /\ CoreOK /\ DurableOK
         /\ inode_bp \in SUBSET Inodes /\ disk_inode_bp \subseteq inode_bp
         /\ leaked \subseteq inode_bp /\ RootOK /\ 0 \in disk_inode_bp \cap inode_bp
         /\ Tree(inode_bp, inodes, blocks, inode_bp \ (leaked \cup Unlinked \cup {0}))
         /\ pc \notin Committing =>
              /\ ImageOK
              /\ Tree(disk_inode_bp, disk_inodes, blocks, disk_inode_bp \ (leaked \cup {0}))
         /\ pc = "link" => NewOK
<1>1. /\ TypeOK /\ CoreOK /\ DurableOK /\ LinksOK
      /\ pc \notin Committing => ImageOK
  BY DEF LinksInv, DataInv, OwnedInv, DurableInv, DataOK
<1> QED BY <1>1 DEF LinksOK, RootOK, DurableOK, TypeOK

\* Inodes and blocks stay, between two calls or in a write.
LEMMA NothingLinked ==
  ASSUME LinksInv, ~torn, pc \notin Committing, pc # "link", pc' # "link",
         UNCHANGED <<inode_bp, inodes, disk_inode_bp, disk_inodes, blocks, leaked>>
  PROVE  LinksOK'
BY LinksStart DEF LinksOK, RootOK, Unlinked

\* The directories that stay in core stay on the image.
LEMMA ImageTreeKept ==
  ASSUME LinksInv, ~torn, pc \notin Committing, DirsStay,
         UNCHANGED <<disk_inode_bp, disk_inodes>>
  PROVE  Tree(disk_inode_bp', disk_inodes', blocks', disk_inode_bp \ (leaked \cup {0}))
<1>1. /\ DurableOK /\ ImageOK /\ disk_inode_bp \in SUBSET Inodes
      /\ disk_inode_bp \subseteq inode_bp
      /\ Tree(disk_inode_bp, disk_inodes, blocks, disk_inode_bp \ (leaked \cup {0}))
  BY LinksStart
<1>2. ASSUME NEW i \in disk_inode_bp, disk_inodes[i].type = UFS_DIRECTORY,
             NEW s \in Slots, NEW c \in Cells
      PROVE  /\ Used(disk_inodes[i], blocks, s, c) <=> Used(disk_inodes[i], blocks', s, c)
             /\ Used(disk_inodes[i], blocks, s, c) =>
                  At(disk_inodes[i], blocks', s, c) = At(disk_inodes[i], blocks, s, c)
  <2>1. i \in inode_bp /\ Extends(i)
    BY <1>1 DEF ImageOK, DurableOK
  <2>2. inodes[i].type = UFS_DIRECTORY
    BY <1>2, <2>1 DEF Extends
  <2>3. disk_inodes[i].direct[s] # NoBlock =>
          blocks'[disk_inodes[i].direct[s]][c] = blocks[disk_inodes[i].direct[s]][c]
    BY <2>1, <2>2 DEF Extends, DirsStay
  <2> QED BY <2>3 DEF Used, At
<1>3. Keeps(disk_inode_bp, disk_inodes, blocks, disk_inodes, blocks')
  BY <1>2 DEF Keeps
<1>4. ASSUME NEW l \in LinkPlaces(disk_inode_bp, disk_inodes, blocks')
      PROVE  l \in UsedPlaces(disk_inode_bp, disk_inodes, blocks)
  <2>1. l \in UsedPlaces(disk_inode_bp, disk_inodes, blocks')
    BY DEF LinkPlaces
  <2> QED BY <1>2, <2>1, PlaceIs
<1>5. disk_inode_bp \ (leaked \cup {0}) \in SUBSET disk_inode_bp
  OBVIOUS
<1>6. Tree(disk_inode_bp, disk_inodes, blocks', disk_inode_bp \ (leaked \cup {0}))
  BY <1>1, <1>3, <1>4, <1>5, TreeKept
<1> QED BY <1>6

\* Directories stay, and an inode is added to those in core, if any, that has
\* no link in it.
LEMMA CoreTreeKept ==
  ASSUME LinksInv, ~torn, DirsStay, inode_bp \subseteq inode_bp',
         \A i \in inode_bp' \ inode_bp, s \in Slots, c \in Cells :
           inodes'[i].type = UFS_DIRECTORY /\ Used(inodes'[i], blocks', s, c) =>
             At(inodes'[i], blocks', s, c).name \notin Names
  PROVE  Tree(inode_bp', inodes', blocks', inode_bp \ (leaked \cup Unlinked \cup {0}))
<1> DEFINE linked == inode_bp \ (leaked \cup Unlinked \cup {0})
<1>1. inode_bp \in SUBSET Inodes /\ Tree(inode_bp, inodes, blocks, linked)
  BY LinksStart
<1>2. ASSUME NEW i \in inode_bp, inodes'[i].type = UFS_DIRECTORY,
             NEW s \in Slots, NEW c \in Cells
      PROVE  /\ inodes[i].type = UFS_DIRECTORY
             /\ Used(inodes[i], blocks, s, c) <=> Used(inodes'[i], blocks', s, c)
  BY <1>2 DEF DirsStay, Used, At
<1>3. Keeps(inode_bp, inodes, blocks, inodes', blocks')
  BY DEF Keeps, DirsStay, Used, At
<1>4. ASSUME NEW l \in LinkPlaces(inode_bp', inodes', blocks')
      PROVE  l \in UsedPlaces(inode_bp, inodes, blocks)
  <2>1. l \in UsedPlaces(inode_bp', inodes', blocks') /\ Held(inodes', blocks', l).name \in Names
    BY DEF LinkPlaces
  <2>2. PICK i \in inode_bp', s \in Slots, c \in Cells :
               /\ l = <<i, s, c>> /\ inodes'[i].type = UFS_DIRECTORY
               /\ Used(inodes'[i], blocks', s, c)
    BY <2>1, PlaceIs
  <2>3. At(inodes'[i], blocks', s, c).name \in Names
    BY <2>1, <2>2 DEF Held
  <2>4. i \in inode_bp
    BY <2>2, <2>3
  <2> QED BY <1>2, <2>2, <2>4, PlaceIs
<1>5. linked \in SUBSET inode_bp
  OBVIOUS
<1> HIDE DEF linked
<1>6. Tree(inode_bp', inodes', blocks', linked)
  BY <1>1, <1>3, <1>4, <1>5, TreeKept
<1> QED BY <1>6 DEF linked

LEMMA CreatFailsLinks ==
  ASSUME LinksInv, ~torn, NEW p \in Inums, NEW n \in Names,
         NEW t \in {UFS_DIRECTORY, UFS_REGULAR_FILE}, CreatFails(p, t, n)
  PROVE  LinksOK'
<1> DEFINE e == FirstFree(inode_bp, 0, NumInodes)
<1>1. /\ TypeOK /\ pc = "idle" /\ disk_inode_bp \subseteq inode_bp
      /\ leaked \subseteq inode_bp /\ 0 \in disk_inode_bp \cap inode_bp
  BY LinksStart DEF CreatFails, Idle
<1>2. e \in Inodes /\ e \notin inode_bp
  BY FreeInode, CreatGoesOn DEF CreatFails
<1>3. /\ inode_bp' = inode_bp \cup {e}
      /\ inodes' = [inodes EXCEPT ![e].type = t, ![e].direct = NoBlocks]
      /\ leaked' = leaked \cup {e} /\ pc' = "idle"
      /\ UNCHANGED <<disk_inode_bp, disk_inodes, blocks>>
  BY DEF CreatFails, set_bitmap, Return, image
<1> HIDE DEF e
<1>4. inodes'[e].direct = NoBlocks /\ \A i \in inode_bp : inodes'[i] = inodes[i]
  <2>1. inodes \in [Inodes -> Inode] /\ inode_bp \subseteq Inodes
    BY <1>1 DEF TypeOK
  <2>2. inodes'[e] = [inodes[e] EXCEPT !.type = t, !.direct = NoBlocks]
    BY <1>2, <1>3, <2>1
  <2>3. inodes[e] \in Inode
    BY <1>2, <2>1
  <2>4. inodes'[e].direct = NoBlocks
    BY <2>2, <2>3 DEF Inode
  <2> QED BY <1>2, <1>3, <2>1, <2>4
<1>5. DirsStay
  BY <1>3, <1>4 DEF DirsStay
<1>6. Tree(inode_bp', inodes', blocks', inode_bp \ (leaked \cup Unlinked \cup {0}))
  <2>1. \A i \in inode_bp' \ inode_bp, s \in Slots, c \in Cells :
          ~Used(inodes'[i], blocks', s, c)
    BY <1>3, <1>4 DEF Used, NoBlocks
  <2> QED BY <1>3, <1>5, <2>1, CoreTreeKept
<1>7. Tree(disk_inode_bp', disk_inodes', blocks', disk_inode_bp \ (leaked \cup {0}))
  BY <1>1, <1>3, <1>5, ImageTreeKept DEF Committing
<1>8. /\ inode_bp' \ (leaked' \cup Unlinked' \cup {0}) =
           inode_bp \ (leaked \cup Unlinked \cup {0})
      /\ disk_inode_bp' \ (leaked' \cup {0}) = disk_inode_bp \ (leaked \cup {0})
  BY <1>1, <1>2, <1>3 DEF Unlinked
<1>9. RootOK'
  BY <1>1, <1>2, <1>3, <1>4, LinksStart DEF RootOK
<1> QED BY <1>1, <1>3, <1>6, <1>7, <1>8, <1>9 DEF LinksOK

\* The inode a creat is going to link, in a directory of no entries but . and ..,
\* if it is one.
LEMMA CreatAllocatesEmpty ==
  ASSUME LinksInv, ~torn, NEW p \in Inums, NEW n \in Names,
         NEW t \in {UFS_DIRECTORY, UFS_REGULAR_FILE}, CreatAllocates(p, t, n)
  PROVE  LET e == frame'.new IN
         /\ e \in Inodes \ inode_bp /\ inode_bp' = inode_bp \cup {e}
         /\ pc = "idle" /\ pc' = "link" /\ frame'.inum = p
         /\ UNCHANGED <<disk_inode_bp, disk_inodes, leaked>>
         /\ \A i \in inode_bp : inodes'[i] = inodes[i]
         /\ inodes'[e].type = UFS_REGULAR_FILE => inodes'[e].size = 0
         /\ inodes'[e].type = UFS_DIRECTORY =>
              /\ LeadsBack(inodes'[e], blocks', p)
              /\ \A s \in Slots, c \in Cells : Used(inodes'[e], blocks', s, c) =>
                   At(inodes'[e], blocks', s, c).name \notin Names
<1> DEFINE e  == FirstFree(inode_bp, 0, NumInodes)
           d1 == FirstFree(data_bp, 0, NumData)
           mkdir == t = UFS_DIRECTORY
           x  == [type   |-> t,
                  size   |-> IF mkdir THEN 2 ELSE 0,
                  direct |-> IF mkdir THEN [NoBlocks EXCEPT ![0] = d1 + DataStart]
                                      ELSE NoBlocks]
<1>1. TypeOK
  BY LinksStart
<1>2. e \in Inodes /\ e \notin inode_bp
  BY FreeInode, CreatGoesOn DEF CreatAllocates
<1>3. mkdir => d1 \in DataBits
  BY FreeData DEF CreatAllocates, NoRoom
<1>4. /\ inode_bp' = inode_bp \cup {e}
      /\ inodes' = [inodes EXCEPT ![e] = x]
      /\ blocks' = IF mkdir THEN [blocks EXCEPT ![d1 + DataStart] = EmptyDir(e, p)]
                            ELSE blocks
      /\ pc = "idle" /\ pc' = "link" /\ frame'.inum = p /\ frame'.new = e
      /\ UNCHANGED <<disk_inode_bp, disk_inodes, leaked>>
  BY DEF CreatAllocates, Idle, set_bitmap, NoFrame, hist
<1> HIDE DEF e, d1
<1>5. inodes'[e] = x /\ \A i \in inode_bp : inodes'[i] = inodes[i]
  BY <1>1, <1>2, <1>4 DEF TypeOK
<1>6. inodes'[e].type = UFS_REGULAR_FILE => inodes'[e].size = 0
  BY <1>5 DEF UFS_REGULAR_FILE, UFS_DIRECTORY
<1>7. ASSUME inodes'[e].type = UFS_DIRECTORY
      PROVE  /\ inodes'[e].direct[0] # NoBlock
             /\ \A s \in Slots : inodes'[e].direct[s] # NoBlock =>
                                   blocks'[inodes'[e].direct[s]] = EmptyDir(e, p)
  <2>1. mkdir
    BY <1>5, <1>7
  <2>2. /\ d1 + DataStart \in BlockAddrs /\ d1 + DataStart # NoBlock
        /\ blocks'[d1 + DataStart] = EmptyDir(e, p)
    BY <1>1, <1>3, <1>4, <2>1, Addresses DEF TypeOK
  <2>3. x.direct = [NoBlocks EXCEPT ![0] = d1 + DataStart]
    BY <2>1
  <2> HIDE DEF x
  <2>4. \A s \in Slots : x.direct[s] = IF s = 0 THEN d1 + DataStart ELSE NoBlock
    BY <2>3, Addresses DEF NoBlocks
  <2> QED BY <1>5, <2>2, <2>4, Addresses
<1>8. \A c \in Cells : EmptyDir(e, p)[c].name \notin Names
  BY ClientAssumption DEF EmptyDir, Entry, FreeCell
<1>9. ASSUME inodes'[e].type = UFS_DIRECTORY
      PROVE  /\ LeadsBack(inodes'[e], blocks', p)
             /\ \A s \in Slots, c \in Cells : Used(inodes'[e], blocks', s, c) =>
                  At(inodes'[e], blocks', s, c).name \notin Names
  <2>1. 1 \in Cells /\ EmptyDir(e, p)[1] = Entry(DotDot, p)
    BY Sizes DEF Cells, EmptyDir
  <2> QED BY <1>7, <1>8, <1>9, <2>1, Addresses DEF LeadsBack, Used, At
<1> HIDE DEF x
<1> QED BY <1>2, <1>4, <1>5, <1>6, <1>9

LEMMA CreatAllocatesLinks ==
  ASSUME LinksInv, ~torn, NEW p \in Inums, NEW n \in Names,
         NEW t \in {UFS_DIRECTORY, UFS_REGULAR_FILE}, CreatAllocates(p, t, n)
  PROVE  LinksOK'
<1> DEFINE e == frame'.new
<1>1. disk_inode_bp \subseteq inode_bp /\ leaked \subseteq inode_bp
  BY LinksStart
<1>2. /\ e \in Inodes \ inode_bp /\ inode_bp' = inode_bp \cup {e}
      /\ pc = "idle" /\ pc' = "link" /\ frame'.inum = p
      /\ UNCHANGED <<disk_inode_bp, disk_inodes, leaked>>
      /\ inodes'[e].type = UFS_DIRECTORY =>
           /\ LeadsBack(inodes'[e], blocks', p)
           /\ \A s \in Slots, c \in Cells : Used(inodes'[e], blocks', s, c) =>
                At(inodes'[e], blocks', s, c).name \notin Names
  BY CreatAllocatesEmpty
<1>3. DirsStay
  BY CreatAllocatesData DEF LinksInv
<1>4. Tree(inode_bp', inodes', blocks', inode_bp \ (leaked \cup Unlinked \cup {0}))
  BY <1>2, <1>3, CoreTreeKept
<1>5. Tree(disk_inode_bp', disk_inodes', blocks', disk_inode_bp \ (leaked \cup {0}))
  BY <1>1, <1>2, <1>3, ImageTreeKept DEF Committing
<1>6. NewOK'
  BY <1>1, <1>2 DEF NewOK
<1>7. /\ inode_bp' \ (leaked' \cup Unlinked' \cup {0}) =
           inode_bp \ (leaked \cup Unlinked \cup {0})
      /\ disk_inode_bp' \ (leaked' \cup {0}) = disk_inode_bp \ (leaked \cup {0})
  BY <1>1, <1>2 DEF Unlinked
<1>8. RootOK'
  BY <1>1, <1>2, <1>3, LinksStart DEF RootOK, DirsStay
<1> QED BY <1>1, <1>2, <1>4, <1>5, <1>6, <1>7, <1>8 DEF LinksOK

\* The inode of a creat that ends without a link is leaked,
LEMMA LinkFailsLinks ==
  ASSUME LinksInv, ~torn, LinkFails
  PROVE  LinksOK'
<1>1. /\ pc = "link" /\ pc' = "idle" /\ leaked' = leaked \cup {frame.new}
      /\ UNCHANGED <<inode_bp, inodes, disk_inode_bp, disk_inodes, blocks>>
  BY DEF LinkFails, Return, image
<1>2. /\ leaked \subseteq inode_bp /\ 0 \in disk_inode_bp \cap inode_bp
      /\ frame.new \notin disk_inode_bp /\ frame.new \in inode_bp
      /\ Tree(inode_bp, inodes, blocks, inode_bp \ (leaked \cup Unlinked \cup {0}))
      /\ Tree(disk_inode_bp, disk_inodes, blocks, disk_inode_bp \ (leaked \cup {0}))
  BY <1>1, LinksStart DEF NewOK, Committing, LinksInv, DataInv, DataOK, LinkState
<1>3. /\ inode_bp' \ (leaked' \cup Unlinked' \cup {0}) =
           inode_bp \ (leaked \cup Unlinked \cup {0})
      /\ disk_inode_bp' \ (leaked' \cup {0}) = disk_inode_bp \ (leaked \cup {0})
  BY <1>1, <1>2 DEF Unlinked
<1>4. RootOK'
  BY <1>1, <1>2, LinksStart DEF RootOK
<1> QED BY <1>1, <1>2, <1>3, <1>4 DEF LinksOK

\* and that of one that gets on has the link then: the parent has cell o of slot
\* t in use besides those it had.
LEMMA LinkedCells ==
  ASSUME LinksInv, ~torn, pc = "link", NEW t \in Slots, NEW o \in Cells, LinkedAt(t, o)
  PROVE  LET x == inodes[frame.inum]
             y == inodes'[frame.inum]
         IN /\ Used(y, blocks', t, o) /\ At(y, blocks', t, o) = Entry(frame.name, frame.new)
            /\ \A s \in Slots, c \in Cells :
                 /\ Used(x, blocks, s, c) <=> Below(x, s, c)
                 /\ Used(y, blocks', s, c) <=> Used(x, blocks, s, c) \/ (s = t /\ c = o)
                 /\ Used(x, blocks, s, c) => At(y, blocks', s, c) = At(x, blocks, s, c)
<1> DEFINE p == frame.inum
           e == frame.new
           n == frame.name
           x == inodes[p]
           y == inodes'[p]
<1>1. DirOK(x, blocks)
  BY DEF LinksInv, DataInv, DataOK, LinkState
<1>2. /\ t * BlockSize + o = x.size
      /\ y.size = x.size + 1 /\ DirOK(y, blocks')
      /\ blocks'[y.direct[t]][o] = Entry(n, e)
      /\ \A s \in Slots, c \in Cells : Below(x, s, c) =>
           /\ y.direct[s] = x.direct[s]
           /\ blocks'[x.direct[s]][c] = blocks[x.direct[s]][c]
  BY DEF LinkedAt
<1>3. \A z, b : DirOK(z, b) =>
        \A s \in Slots, c \in Cells : Used(z, b, s, c) <=> Below(z, s, c)
  <2>1. -1 \notin Inodes
    BY DEF Inodes
  <2> QED BY <2>1, CellIsSet DEF DirOK, EntryOK, Used, At
<1>4. \A s \in Slots, c \in Cells : Below(y, s, c) <=> Below(x, s, c) \/ (s = t /\ c = o)
  <2>1. Packed(x) /\ Packed(y) /\ 1 \in 1 .. BlockSize - o /\ o .. o + 1 - 1 = {o}
    <3>1. Packed(x) /\ Packed(y)
      BY <1>1, <1>2, Zenon DEF DirOK
    <3>2. o \in Nat /\ o < BlockSize
      BY Sizes DEF Cells
    <3> QED BY <3>1, <3>2, Sizes, SMTT(40)
  <2>2. Below(y, t, o)
    BY <1>2, <2>1, Sizes DEF Below, Packed
  <2>3. y.direct[t] # NoBlock
    BY <2>1, <2>2, CellIsSet
  <2>4. ASSUME NEW s \in Slots, NEW c \in Cells
        PROVE  Below(y, s, c) <=> Below(x, s, c) \/ (s = t /\ c = o)
    <3>1. \A u \in Slots, d \in Cells : u * BlockSize + d = t * BlockSize + o => u = t /\ d = o
      BY OffsetOf
    <3>2. s * BlockSize \in Nat /\ c \in Nat /\ x.size \in Int
      BY <2>1, Sizes DEF Packed
    <3> HIDE DEF x, y
    <3> QED BY <1>2, <3>1, <3>2 DEF Below
  <2> QED BY <2>4
<1>5. /\ t \in Slots /\ o \in Cells /\ Used(y, blocks', t, o)
      /\ At(y, blocks', t, o) = Entry(n, e)
  BY <1>2, <1>3, <1>4 DEF At
<1>6. ASSUME NEW s \in Slots, NEW c \in Cells, Used(x, blocks, s, c)
      PROVE  At(y, blocks', s, c) = At(x, blocks, s, c)
  <2>1. Below(x, s, c)
    BY <1>1, <1>3, <1>6
  <2> QED BY <1>2, <2>1 DEF At
<1> QED BY <1>1, <1>2, <1>3, <1>4, <1>5, <1>6

LEMMA LinkedLinks ==
  ASSUME LinksInv, ~torn, pc = "link", NEW t \in Slots, NEW o \in Cells, LinkedAt(t, o)
  PROVE  LinksOK'
<1> DEFINE p == frame.inum
           e == frame.new
           n == frame.name
           x == inodes[p]
           y == inodes'[p]
           m == <<p, t, o>>
           linked == inode_bp \ (leaked \cup Unlinked \cup {0})
<1>1. /\ TypeOK /\ CoreOK /\ inode_bp \in SUBSET Inodes
      /\ leaked \subseteq inode_bp /\ 0 \in disk_inode_bp \cap inode_bp
      /\ Tree(inode_bp, inodes, blocks, linked) /\ NewOK
  BY LinksStart
<1>2. /\ p \in inode_bp /\ e \in inode_bp /\ e # p /\ n \in Names
      /\ x.type = UFS_DIRECTORY /\ DirOK(x, blocks)
  BY DEF LinksInv, DataInv, DataOK, LinkState
<1>3. /\ y.type = UFS_DIRECTORY
      /\ \A i \in inode_bp \ {p} :
           /\ inodes'[i] = inodes[i]
           /\ \A s \in Slots, c \in Cells : inodes[i].direct[s] # NoBlock =>
                blocks'[inodes[i].direct[s]][c] = blocks[inodes[i].direct[s]][c]
      /\ pc' = "commit" /\ UNCHANGED <<inode_bp, disk_inode_bp, disk_inodes, leaked>>
  BY DEF LinkedAt
<1>4. /\ Used(y, blocks', t, o) /\ At(y, blocks', t, o) = Entry(n, e)
      /\ \A s \in Slots, c \in Cells :
           /\ Used(y, blocks', s, c) <=> Used(x, blocks, s, c) \/ (s = t /\ c = o)
           /\ Used(x, blocks, s, c) => At(y, blocks', s, c) = At(x, blocks, s, c)
  BY LinkedCells
<1>5. Keeps(inode_bp, inodes, blocks, inodes', blocks')
  <2>1. ASSUME NEW s \in Slots, NEW c \in Cells, Used(x, blocks, s, c)
        PROVE  Used(y, blocks', s, c) /\ At(y, blocks', s, c) = At(x, blocks, s, c)
    BY <1>4, <2>1
  <2>2. ASSUME NEW i \in inode_bp \ {p}, NEW s \in Slots, NEW c \in Cells,
               Used(inodes[i], blocks, s, c)
        PROVE  /\ Used(inodes'[i], blocks', s, c)
               /\ At(inodes'[i], blocks', s, c) = At(inodes[i], blocks, s, c)
    BY <1>3, <2>2 DEF Used, At
  <2>3. \A i \in inode_bp : inodes'[i].type = inodes[i].type
    BY <1>2, <1>3
  <2> HIDE DEF x, y
  <2> QED BY <1>2, <2>1, <2>2, <2>3 DEF Keeps, x, y
<1>6. m \in LinkPlaces(inode_bp, inodes', blocks') /\ Target(inodes', blocks', m) = e
  <2>1. m[1] = p /\ m[2] = t /\ m[3] = o
    OBVIOUS
  <2>2. m \in UsedPlaces(inode_bp, inodes', blocks')
    BY <1>2, <1>3, <1>4, PlaceIs
  <2>3. Held(inodes', blocks', m) = Entry(n, e)
    BY <1>4, <2>1 DEF Held
  <2>4. Entry(n, e).name = n /\ Entry(n, e).inum = e
    BY DEF Entry
  <2> HIDE DEF m, n, e
  <2> QED BY <1>2, <2>2, <2>3, <2>4 DEF LinkPlaces, Target
<1>7. ASSUME NEW l \in LinkPlaces(inode_bp, inodes', blocks')
      PROVE  l \in UsedPlaces(inode_bp, inodes, blocks) \/ l = m
  <2>1. l \in UsedPlaces(inode_bp, inodes', blocks')
    BY DEF LinkPlaces
  <2>2. PICK i \in inode_bp, s \in Slots, c \in Cells :
               /\ l = <<i, s, c>> /\ inodes'[i].type = UFS_DIRECTORY
               /\ Used(inodes'[i], blocks', s, c)
    BY <2>1, PlaceIs
  <2>3. CASE i = p
    <3>1. Used(x, blocks, s, c) \/ (s = t /\ c = o)
      BY <1>4, <2>2, <2>3
    <3> QED BY <1>2, <2>2, <2>3, <3>1, PlaceIs
  <2>4. CASE i # p
    <3>1. inodes[i].type = UFS_DIRECTORY /\ Used(inodes[i], blocks, s, c)
      BY <1>3, <2>2, <2>4 DEF Used, At
    <3> QED BY <2>2, <3>1, PlaceIs
  <2> QED BY <2>3, <2>4
<1>8. inodes'[e].type = UFS_DIRECTORY => LeadsBack(inodes'[e], blocks', p)
  <2>1. inodes'[e] = inodes[e]
    BY <1>2, <1>3
  <2>2. SUFFICES ASSUME inodes[e].type = UFS_DIRECTORY PROVE LeadsBack(inodes'[e], blocks', p)
    BY <2>1
  <2>3. LeadsBack(inodes[e], blocks, p) /\ p \in Inodes
    BY <1>1, <1>2, <2>2 DEF NewOK
  <2> HIDE DEF e, p
  <2> QED BY <1>2, <1>5, <2>2, <2>3, LeadsBackKept
<1>9. Tree(inode_bp, inodes', blocks', linked \cup {e})
  <2>1. linked \in SUBSET inode_bp /\ e \in inode_bp \ linked /\ m[1] = p
    BY <1>1, <1>2 DEF Unlinked
  <2> HIDE DEF linked, e, m, p
  <2> QED BY <1>1, <1>5, <1>6, <1>7, <1>8, <2>1, TreeGrows
<1>10. inode_bp' \ (leaked' \cup Unlinked' \cup {0}) = linked \cup {e}
  BY <1>1, <1>2, <1>3 DEF Unlinked, NewOK
<1>11. RootOK'
  BY <1>3, LinksStart DEF RootOK
<1> QED BY <1>1, <1>3, <1>9, <1>10, <1>11 DEF LinksOK, Committing

LEMMA WriteBlockLinks ==
  ASSUME LinksInv, ~torn, WriteBlock
  PROVE  LinksOK'
<1>1. /\ pc = "write" /\ pc' = "write" /\ inode_bp' = inode_bp /\ leaked' = leaked
      /\ UNCHANGED <<disk_inode_bp, disk_inodes>> /\ DirsStay
  BY WriteBlockData DEF WriteBlock, hist, LinksInv
<1>2. Tree(inode_bp', inodes', blocks', inode_bp \ (leaked \cup Unlinked \cup {0}))
  BY <1>1, CoreTreeKept
<1>3. Tree(disk_inode_bp', disk_inodes', blocks', disk_inode_bp \ (leaked \cup {0}))
  BY <1>1, ImageTreeKept DEF Committing
<1>4. RootOK'
  BY <1>1, LinksStart DEF RootOK, DirsStay
<1> QED BY <1>1, <1>2, <1>3, <1>4, LinksStart DEF LinksOK, Unlinked

LEMMA CommitLinks ==
  ASSUME LinksInv, ~torn, CommitInodeBit \/ CommitInode \/ CommitData \/ CommitDone
  PROVE  LinksOK'
<1>1. /\ TypeOK /\ disk_inode_bp \subseteq inode_bp
      /\ leaked \subseteq inode_bp /\ 0 \in disk_inode_bp \cap inode_bp
      /\ Tree(inode_bp, inodes, blocks, inode_bp \ (leaked \cup Unlinked \cup {0}))
  BY LinksStart
<1>2. /\ UNCHANGED <<inode_bp, inodes, blocks, leaked>> /\ pc \in Committing
      /\ pc' \in Committing \cup {"idle"}
  BY DEF CommitInodeBit, CommitInode, CommitData, CommitDone, Return, core, image, hist,
         Committing
<1>3. /\ Tree(inode_bp', inodes', blocks', inode_bp' \ (leaked' \cup Unlinked' \cup {0}))
      /\ Unlinked' = {} /\ Unlinked = {}
  BY <1>1, <1>2 DEF Unlinked, Committing
<1>4. CASE CommitInodeBit \/ CommitInode \/ CommitData
  <2>1. pc' \in Committing
    BY <1>4 DEF CommitInodeBit, CommitInode, CommitData, Committing
  <2>2. 0 \in disk_inode_bp'
    BY <1>1, <1>4 DEF CommitInodeBit, CommitInode, CommitData, WriteWord
  <2>3. disk_inodes'[0].type = UFS_DIRECTORY
    BY <1>1, <1>4, LinksStart DEF CommitInodeBit, CommitInode, CommitData, RootOK, TypeOK
  <2>4. RootOK'
    BY <1>1, <1>2, <2>2, <2>3, LinksStart DEF RootOK
  <2> QED BY <1>1, <1>2, <1>3, <2>1, <2>4 DEF LinksOK, Committing
<1>5. CASE CommitDone
  <2>1. /\ UNCHANGED <<disk_inode_bp, disk_inodes>> /\ pc' = "idle"
        /\ dirty_inode_bp = {} /\ pc = "commit" /\ Coherent
    BY <1>5 DEF CommitDone, Return, image, LinksInv, DataInv, OwnedInv, DurableInv
  <2>2. inode_bp = disk_inode_bp /\ inodes = disk_inodes
    <3>1. \A i \in Inodes : (i \in inode_bp <=> i \in disk_inode_bp) /\ inodes[i] = disk_inodes[i]
      BY <2>1 DEF Coherent, InodeClean
    <3>2. inode_bp = disk_inode_bp
      BY <1>1, <3>1 DEF TypeOK
    <3>3. inodes \in [Inodes -> Inode] /\ disk_inodes \in [Inodes -> Inode]
      BY <1>1 DEF TypeOK
    <3>4. inodes = disk_inodes
      BY <3>1, <3>3
    <3> QED BY <3>2, <3>4
  <2>3. RootOK'
    BY <1>2, <2>1, LinksStart DEF RootOK
  <2> QED BY <1>1, <1>2, <1>3, <2>1, <2>2, <2>3 DEF LinksOK
<1> QED BY <1>4, <1>5

\* The image a process finds that follows one that died between calls.
LEMMA RestartLinks ==
  ASSUME LinksInv, Restart, ~torn'
  PROVE  LinksOK'
<1>1. /\ ~torn /\ pc \in Dead \cup {"idle"} /\ pc' = "idle"
      /\ inode_bp' = disk_inode_bp /\ inodes' = disk_inodes
      /\ leaked' = leaked \cap disk_inode_bp
      /\ UNCHANGED <<disk_inode_bp, disk_inodes, blocks>>
  BY DEF Restart, image
<1>2. /\ 0 \in disk_inode_bp
      /\ Tree(disk_inode_bp, disk_inodes, blocks, disk_inode_bp \ (leaked \cup {0}))
  BY <1>1, LinksStart DEF Committing, Dead
<1>3. /\ disk_inode_bp' \ (leaked' \cup {0}) = disk_inode_bp \ (leaked \cup {0})
      /\ inode_bp' \ (leaked' \cup Unlinked' \cup {0}) = disk_inode_bp \ (leaked \cup {0})
  BY <1>1 DEF Unlinked
<1>4. RootOK'
  BY <1>1, LinksStart DEF RootOK
<1> QED BY <1>1, <1>2, <1>3, <1>4 DEF LinksOK

\* The root that mkfs made has no entry but . and ..
LEMMA FreshLinks == FreshlyRead => LinksInv
<1> SUFFICES ASSUME FreshlyRead PROVE LinksInv
  OBVIOUS
<1>1. /\ inode_bp = {0} /\ inodes = disk_inodes /\ pc = "idle"
      /\ disk_inode_bp = {0} /\ leaked = {} /\ disk_inodes[0] = RootInode
      /\ blocks[DataStart] = EmptyDir(0, 0)
  BY DEF FreshlyRead, Formatted, Synced
<1>2. LinkPlaces({0}, disk_inodes, blocks) = {}
  <2>1. SUFFICES ASSUME NEW l \in LinkPlaces({0}, disk_inodes, blocks) PROVE FALSE
    OBVIOUS
  <2>2. /\ l \in UsedPlaces({0}, disk_inodes, blocks)
        /\ Held(disk_inodes, blocks, l).name \in Names
    BY DEF LinkPlaces
  <2>3. PICK s \in Slots, c \in Cells :
               l = <<0, s, c>> /\ Used(disk_inodes[0], blocks, s, c)
    BY <2>2, PlaceIs
  <2>4. RootInode.direct[s] = DataStart
    BY <1>1, <2>3, RootInOrder DEF Used, NoBlocks
  <2>5. Held(disk_inodes, blocks, l) = EmptyDir(0, 0)[c]
    BY <1>1, <2>3, <2>4 DEF Held, At
  <2>6. EmptyDir(0, 0)[c].name \notin Names
    BY ClientAssumption DEF EmptyDir, Entry, FreeCell
  <2> QED BY <2>2, <2>5, <2>6
<1>3. Tree({0}, disk_inodes, blocks, {})
  BY <1>2 DEF Tree
<1>4. inode_bp \ (leaked \cup Unlinked \cup {0}) = {} /\ disk_inode_bp \ (leaked \cup {0}) = {}
  BY <1>1 DEF Unlinked
<1>5. RootOK
  BY <1>1 DEF RootOK, RootInode
<1> QED BY <1>1, <1>3, <1>4, <1>5, FreshData DEF LinksInv, LinksOK

LEMMA InitLinks == Init => LinksInv
<1> SUFFICES ASSUME Init PROVE LinksInv
  OBVIOUS
<1>1. PICK s \in [Inodes -> StaleInodes] : disk_inodes = [s EXCEPT ![0] = RootInode]
  BY DEF Init
<1>2. disk_inodes[0] = RootInode
  BY <1>1, Addresses
<1>3. blocks[DataStart] = EmptyDir(0, 0)
  BY RootInOrder DEF Init, MkfsBlocks
<1> QED BY <1>2, <1>3, InitType, FreshLinks DEF FreshlyRead, Formatted, Synced, Init, ufs_init

LEMMA LinksStep ==
  ASSUME "unlink" \notin Ops, LinksInv, [Next]_vars
  PROVE  LinksInv'
<1>1. DataInv'
  BY DataStep DEF LinksInv
<1> SUFFICES ASSUME ~torn' PROVE LinksOK'
  BY <1>1 DEF LinksInv, LinksOK
<1>2. CASE UNCHANGED vars
  BY <1>2 DEF vars, LinksInv, LinksOK, RootOK, NewOK, Unlinked
<1>3. CASE Call
  <2>1. ~ \E p \in Inums, n \in Names \cup {Dot} : UnlinkRefused(p, n) \/ Unlink(p, n)
    BY ZenonT(40) DEF UnlinkRefused, Unlink, Idle
  <2>2. ASSUME NEW p \in Inums, NEW n \in Names,
               NEW t \in {UFS_DIRECTORY, UFS_REGULAR_FILE},
               CreatFails(p, t, n) \/ CreatAllocates(p, t, n)
        PROVE  LinksOK'
    <3>1. ~torn
      BY <2>2 DEF CreatFails, CreatAllocates, hist
    <3> QED BY <2>2, <3>1, CreatFailsLinks, CreatAllocatesLinks
  <2>3. ASSUME NEW i \in Inums, NEW off \in Offsets, NEW n \in Counts,
               WriteBegin(i, off, n)
        PROVE  LinksOK'
    <3>1. /\ ~torn /\ pc = "idle" /\ pc' = "write"
          /\ UNCHANGED <<inode_bp, inodes, disk_inode_bp, disk_inodes, blocks, leaked>>
      BY <2>3 DEF WriteBegin, Idle, image, hist
    <3> QED BY <3>1, NothingLinked DEF Committing
  <2>4. CASE Lookup \/ CreatRefused \/ WriteRefused \/ Read
    <3>1. ASSUME NEW op, NEW r, Answer(op, r), pc = "idle" PROVE LinksOK'
      <4>1. /\ ~torn /\ pc' # "link"
            /\ UNCHANGED <<inode_bp, inodes, disk_inode_bp, disk_inodes, blocks, leaked>>
        BY <3>1 DEF Answer, Return, Die, Death, core, image, hist
      <4> QED BY <3>1, <4>1, NothingLinked DEF Committing
    <3> QED BY <1>2, <2>4, <3>1, RepliesAnswer DEF LinksInv, DataInv, OwnedInv, DurableInv
  <2> QED BY <1>3, <2>1, <2>2, <2>3, <2>4 DEF Call, Grow, Unlinks
<1>4. CASE Handler
  <2>1. ~torn
    BY <1>4 DEF Handler, LinkFails, LinkInNewBlock, LinkInFreeEntry, WriteBlock,
                WriteFails, WriteEnd, CommitInodeBit, CommitInode, CommitData,
                CommitDone, hist
  <2>2. CASE LinkInNewBlock \/ LinkInFreeEntry
    <3>1. pc = "link" /\ \E t \in Slots, o \in Cells : LinkedAt(t, o)
      BY <2>1, <2>2, LinkInNewBlockData, LinkInFreeEntryData
         DEF LinksInv, LinkInNewBlock, LinkInFreeEntry
    <3> QED BY <2>1, <3>1, LinkedLinks, ZenonT(40)
  <2>3. CASE WriteFails \/ WriteEnd
    <3>1. /\ pc = "write" /\ pc' # "link"
          /\ UNCHANGED <<inode_bp, inodes, disk_inode_bp, disk_inodes, blocks, leaked>>
      BY <2>3 DEF WriteFails, WriteEnd, Return, core, image, hist
    <3> QED BY <2>1, <3>1, NothingLinked DEF Committing
  <2> QED BY <1>4, <2>1, <2>2, <2>3, LinkFailsLinks, WriteBlockLinks, CommitLinks, Zenon DEF Handler
<1>5. CASE Restart
  BY <1>5, RestartLinks
<1> QED BY <1>2, <1>3, <1>4, <1>5 DEF Next

LEMMA AlwaysLinks ==
  ASSUME "unlink" \notin Ops
  PROVE  Spec => []LinksInv
<1>1. LinksInv /\ [Next]_vars => LinksInv'
  BY LinksStep
<1> QED BY <1>1, InitLinks, PTL DEF Spec

-----------------------------------------------------------------------------
(* What the invariant gives.                                               *)

\* Every link of the properties has its place.
LEMMA LinkHasPlace ==
  ASSUME TypeOK, CoreOK, NEW l \in Links
  PROVE  \E i \in inode_bp, s \in Slots, c \in Cells :
           /\ l = <<i, <<inodes[i].direct[s], c>>>> /\ inodes[i].type = UFS_DIRECTORY
           /\ <<i, s, c>> \in LinkPlaces(inode_bp, inodes, blocks)
           /\ EntryAt(l[2]) = Held(inodes, blocks, <<i, s, c>>)
           /\ DirOK(inodes[i], blocks) /\ Below(inodes[i], s, c)
<1>1. PICK i \in inode_bp : inodes[i].type = UFS_DIRECTORY
                         /\ \E e \in Entries(i) : l = <<i, e>> /\ EntryAt(e).name \in Names
  BY DEF Links
<1>2. PICK e \in Entries(i) : l = <<i, e>> /\ EntryAt(e).name \in Names
  BY <1>1
<1>3. PICK s \in Slots, c \in Cells :
             /\ e = <<inodes[i].direct[s], c>> /\ inodes[i].direct[s] # NoBlock
             /\ blocks[inodes[i].direct[s]][c].inum # -1
  BY DEF Entries, UsedCells
<1>4. Used(inodes[i], blocks, s, c) /\ EntryAt(e) = At(inodes[i], blocks, s, c)
  BY <1>3 DEF Used, At, EntryAt
<1>5. Held(inodes, blocks, <<i, s, c>>) = At(inodes[i], blocks, s, c)
  BY DEF Held
<1>6. <<i, s, c>> \in LinkPlaces(inode_bp, inodes, blocks)
  <2>1. <<i, s, c>> \in UsedPlaces(inode_bp, inodes, blocks)
    BY <1>1, <1>4, PlaceIs
  <2> QED BY <1>2, <1>4, <1>5, <2>1 DEF LinkPlaces
<1>7. DirOK(inodes[i], blocks)
  BY <1>1, <1>3 DEF CoreOK, InodeOK, NoBlocks
<1>8. Below(inodes[i], s, c)
  BY <1>3, <1>7 DEF DirOK
<1> QED BY <1>1, <1>2, <1>3, <1>4, <1>5, <1>6, <1>7, <1>8

\* A place is a link of the properties.
LEMMA PlaceIsLink ==
  ASSUME NEW i \in inode_bp, NEW s \in Slots, NEW c \in Cells,
         <<i, s, c>> \in LinkPlaces(inode_bp, inodes, blocks)
  PROVE  \E l \in Links : EntryAt(l[2]) = Held(inodes, blocks, <<i, s, c>>)
<1> DEFINE a == inodes[i].direct[s]
           l == <<i, <<a, c>>>>
<1>1. /\ <<i, s, c>> \in UsedPlaces(inode_bp, inodes, blocks)
      /\ Held(inodes, blocks, <<i, s, c>>).name \in Names
  BY DEF LinkPlaces
<1>2. inodes[i].type = UFS_DIRECTORY /\ Used(inodes[i], blocks, s, c)
  BY <1>1 DEF UsedPlaces
<1>3. EntryAt(<<a, c>>) = Held(inodes, blocks, <<i, s, c>>)
  BY DEF EntryAt, Held, At
<1>4. a # NoBlock /\ c \in UsedCells(a)
  BY <1>2 DEF Used, At, UsedCells
<1>5. <<a, c>> \in Entries(i)
  BY <1>4 DEF Entries
<1>6. l \in Links
  BY <1>1, <1>2, <1>3, <1>5 DEF Links
<1> QED BY <1>3, <1>6

\* Unless clients unlink, the entries that creat makes form a tree: every
\* allocated inode has one, but the root and those a failed creat left behind,
\* and the .. of a directory leads to where its entry is.
THEOREM EntriesFormTree ==
  ASSUME "unlink" \notin Ops
  PROVE  Spec => []TreeShape
<1>1. ASSUME LinksInv, ~torn, pc # "link"
      PROVE  /\ \A l \in Links : EntryAt(l[2]).inum \in (inode_bp \ leaked) \ {0}
             /\ \A l, m \in Links :
                  \/ EntryAt(l[2]).inum = EntryAt(m[2]).inum
                  \/ l[1] = m[1] /\ EntryAt(l[2]).name = EntryAt(m[2]).name
                  => l = m
             /\ \A i \in (inode_bp \ leaked) \ {0} :
                  \E l \in Links : EntryAt(l[2]).inum = i
             /\ \A l \in Links :
                  EntryAt(l[2]).inum \in Directories =>
                    \E e \in Entries(EntryAt(l[2]).inum) :
                      EntryAt(e).name = DotDot /\ EntryAt(e).inum = l[1]
  <2> DEFINE linked == (inode_bp \ leaked) \ {0}
             P == LinkPlaces(inode_bp, inodes, blocks)
  <2>1. TypeOK /\ CoreOK /\ Tree(inode_bp, inodes, blocks, linked)
        /\ inode_bp \in SUBSET Inodes
    <3>1. inode_bp \ (leaked \cup Unlinked \cup {0}) = linked
      BY <1>1 DEF Unlinked
    <3> QED BY <1>1, <3>1, LinksStart
  <2>2. ASSUME NEW l \in Links PROVE EntryAt(l[2]).inum \in linked
    <3>1. PICK k \in P : EntryAt(l[2]) = Held(inodes, blocks, k)
      BY <2>1, LinkHasPlace
    <3> QED BY <2>1, <3>1 DEF Tree, Target
  <2>3. ASSUME NEW l \in Links, NEW m \in Links,
               \/ EntryAt(l[2]).inum = EntryAt(m[2]).inum
               \/ l[1] = m[1] /\ EntryAt(l[2]).name = EntryAt(m[2]).name
        PROVE  l = m
    <3>1. PICK i \in inode_bp, s \in Slots, c \in Cells :
             /\ l = <<i, <<inodes[i].direct[s], c>>>>
             /\ <<i, s, c>> \in P /\ EntryAt(l[2]) = Held(inodes, blocks, <<i, s, c>>)
             /\ DirOK(inodes[i], blocks) /\ Below(inodes[i], s, c)
      BY <2>1, LinkHasPlace
    <3>2. PICK j \in inode_bp, u \in Slots, d \in Cells :
             /\ m = <<j, <<inodes[j].direct[u], d>>>>
             /\ <<j, u, d>> \in P /\ EntryAt(m[2]) = Held(inodes, blocks, <<j, u, d>>)
             /\ Below(inodes[j], u, d)
      BY <2>1, LinkHasPlace
    <3>3. CASE EntryAt(l[2]).inum = EntryAt(m[2]).inum
      <4>1. <<i, s, c>> = <<j, u, d>>
        BY <2>1, <3>1, <3>2, <3>3 DEF Tree, Target
      <4>2. i = j /\ s = u /\ c = d
        BY <4>1
      <4> QED BY <3>1, <3>2, <4>2
    <3>4. CASE l[1] = m[1] /\ EntryAt(l[2]).name = EntryAt(m[2]).name
      <4>1. i = j
        BY <3>1, <3>2, <3>4
      <4>2. /\ EntryAt(l[2]) = blocks[inodes[i].direct[s]][c]
            /\ EntryAt(m[2]) = blocks[inodes[i].direct[u]][d]
        BY <3>1, <3>2, <4>1 DEF Held, At
      <4>3. EntryAt(l[2]).name \in Names
        BY <3>1 DEF LinkPlaces
      <4>4. s = u /\ c = d
        BY <3>1, <3>2, <3>4, <4>1, <4>2, <4>3 DEF DirOK
      <4> QED BY <3>1, <3>2, <4>1, <4>4
    <3> QED BY <2>3, <3>3, <3>4
  <2>4. ASSUME NEW i \in linked PROVE \E l \in Links : EntryAt(l[2]).inum = i
    <3>1. PICK k \in P : Held(inodes, blocks, k).inum = i
      BY <2>1 DEF Tree, Target
    <3>2. k \in UsedPlaces(inode_bp, inodes, blocks)
      BY DEF LinkPlaces
    <3>3. PICK j \in inode_bp, s \in Slots, c \in Cells : k = <<j, s, c>>
      BY <3>2, PlaceIs
    <3> QED BY <3>1, <3>3, PlaceIsLink
  <2>5. ASSUME NEW l \in Links, EntryAt(l[2]).inum \in Directories
        PROVE  \E e \in Entries(EntryAt(l[2]).inum) :
                 EntryAt(e).name = DotDot /\ EntryAt(e).inum = l[1]
    <3>1. PICK p \in inode_bp, s \in Slots, c \in Cells :
             /\ l = <<p, <<inodes[p].direct[s], c>>>> /\ inodes[p].type = UFS_DIRECTORY
             /\ <<p, s, c>> \in P /\ EntryAt(l[2]) = Held(inodes, blocks, <<p, s, c>>)
             /\ DirOK(inodes[p], blocks) /\ Below(inodes[p], s, c)
      BY <2>1, LinkHasPlace, Zenon
    <3> DEFINE i == EntryAt(l[2]).inum
               e == <<inodes[i].direct[0], 1>>
    <3>2. Target(inodes, blocks, <<p, s, c>>) = i /\ inodes[i].type = UFS_DIRECTORY
      BY <2>5, <3>1 DEF Target, Directories
    <3>3. LeadsBack(inodes[i], blocks, p)
      BY <2>1, <3>1, <3>2 DEF Tree
    <3> HIDE DEF i
    <3>4. EntryAt(e) = Entry(DotDot, p) /\ inodes[i].direct[0] # NoBlock
      BY <3>3 DEF EntryAt, LeadsBack, At
    <3>5. e \in Entries(i)
      <4>1. p # -1 /\ 0 \in Slots /\ 1 \in Cells
        BY <2>1, Addresses, Sizes DEF Inodes, Cells
      <4>2. 1 \in UsedCells(inodes[i].direct[0])
        BY <3>3, <4>1 DEF UsedCells, LeadsBack, At, Entry
      <4> QED BY <3>4, <4>1, <4>2 DEF Entries
    <3>6. EntryAt(e).name = DotDot /\ EntryAt(e).inum = p /\ l[1] = p
      BY <3>1, <3>4 DEF Entry
    <3> QED BY <3>5, <3>6 DEF i
  <2> QED BY <2>2, <2>3, <2>4, <2>5
<1>2. LinksInv => TreeShape
  BY <1>1 DEF TreeShape
<1> QED BY <1>2, AlwaysLinks, PTL
-----------------------------------------------------------------------------
(* Recursion.  A property of all numbers up to N is proved as one of the    *)
(* set of those that have it, a recursive function as one that iterates a   *)
(* function on sets.                                                        *)

LEMMA UpTo ==
  ASSUME NEW N \in Nat, NEW S, 0 \in S, \A n \in 0 .. N - 1 : n \in S => n + 1 \in S
  PROVE  0 .. N \subseteq S
<1> DEFINE T == (0 .. N) \ S
<1>1. SUFFICES ASSUME T # {} PROVE FALSE
  OBVIOUS
<1>2. PICK m \in T : \A y \in T : m <= y
  <2>1. T \in SUBSET Nat
    OBVIOUS
  <2> QED BY <1>1, <2>1, MinNat
<1>3. m # 0 /\ m - 1 \in 0 .. N - 1 /\ m - 1 \notin T
  BY <1>2
<1>4. m - 1 \in S /\ m - 1 + 1 = m
  BY <1>3
<1> QED BY <1>2, <1>3, <1>4

\* r iterates F from a.
Iterates(r, a, F, N) == r = [n \in 0 .. N |-> IF n = 0 THEN a ELSE F[r[n - 1]]]

LEMMA IterationExists ==
  ASSUME NEW N \in Nat, NEW a, NEW F
  PROVE  \E r : Iterates(r, a, F, N)
<1> DEFINE S == {n \in 0 .. N : \E r : Iterates(r, a, F, n)}
<1>1. 0 \in S
  <2> DEFINE r == [n \in 0 .. 0 |-> a]
  <2>1. r = [n \in 0 .. 0 |-> IF n = 0 THEN a ELSE F[r[n - 1]]]
    OBVIOUS
  <2> HIDE DEF r
  <2>2. Iterates(r, a, F, 0) /\ 0 \in 0 .. N
    BY <2>1 DEF Iterates
  <2> QED BY <2>2
<1>2. ASSUME NEW n \in 0 .. N - 1, n \in S PROVE n + 1 \in S
  <2>1. PICK q : q = [k \in 0 .. n |-> IF k = 0 THEN a ELSE F[q[k - 1]]]
    BY <1>2 DEF Iterates
  <2> DEFINE r == [k \in 0 .. n + 1 |-> IF k = n + 1 THEN F[q[n]] ELSE q[k]]
  <2>2. ASSUME NEW k \in 0 .. n + 1
        PROVE  r[k] = IF k = 0 THEN a ELSE F[r[k - 1]]
    <3>1. CASE k = n + 1
      <4>1. r[n + 1] = F[q[n]] /\ r[n] = q[n] /\ n + 1 # 0 /\ n + 1 - 1 = n
        OBVIOUS
      <4> QED BY <3>1, <4>1
    <3>2. CASE k # n + 1
      <4>1. k \in 0 .. n /\ r[k] = q[k] /\ (k # 0 => r[k - 1] = q[k - 1])
        BY <3>2
      <4>2. q[k] = IF k = 0 THEN a ELSE F[q[k - 1]]
        BY <2>1, <4>1
      <4> QED BY <4>1, <4>2
    <3> QED BY <3>1, <3>2
  <2>3. r = [k \in 0 .. n + 1 |-> r[k]]
    OBVIOUS
  <2> HIDE DEF r
  <2>4. r = [k \in 0 .. n + 1 |-> IF k = 0 THEN a ELSE F[r[k - 1]]]
    BY <2>2, <2>3
  <2>5. Iterates(r, a, F, n + 1)
    BY <2>4 DEF Iterates
  <2>6. n + 1 \in 0 .. N
    OBVIOUS
  <2> QED BY <2>5, <2>6
<1>3. N \in S
  <2> HIDE DEF S
  <2> QED BY <1>1, <1>2, UpTo
<1> QED BY <1>3

LEMMA IterationIs ==
  ASSUME NEW N \in Nat, NEW a, NEW F, NEW r, Iterates(r, a, F, N)
  PROVE  /\ r[0] = a
         /\ \A n \in 0 .. N - 1 : r[n + 1] = F[r[n]]
<1>1. 0 \in 0 .. N
  OBVIOUS
<1>2. ASSUME NEW n \in 0 .. N - 1
      PROVE  n + 1 \in 0 .. N /\ n + 1 # 0 /\ n + 1 - 1 = n
  OBVIOUS
<1>3. \A n \in 0 .. N : r[n] = IF n = 0 THEN a ELSE F[r[n - 1]]
  BY DEF Iterates
<1> QED BY <1>1, <1>2, <1>3

\* From a on, F only adds elements of U, which has at most N more of them.
Climbs(F, U, a, N) ==
  /\ N \in Nat /\ IsFiniteSet(U) /\ Cardinality(U) <= N + 1
  /\ a \in SUBSET U /\ a # {}
  /\ \A L \in SUBSET U : L \subseteq F[L] /\ F[L] \subseteq U

\* Such a function has reached a fixed point after N turns.
LEMMA FixedPoint ==
  ASSUME NEW F, NEW U, NEW a, NEW N, NEW r, Climbs(F, U, a, N), Iterates(r, a, F, N)
  PROVE  r[N] \in SUBSET U /\ a \subseteq r[N] /\ F[r[N]] = r[N]
<1>0. /\ N \in Nat /\ IsFiniteSet(U) /\ Cardinality(U) <= N + 1
      /\ a \in SUBSET U /\ a # {}
      /\ \A L \in SUBSET U : L \subseteq F[L] /\ F[L] \subseteq U
  BY DEF Climbs
<1>1. /\ r[0] = a /\ \A n \in 0 .. N - 1 : r[n + 1] = F[r[n]]
      /\ \A L \in SUBSET U : L \subseteq F[L] /\ F[L] \subseteq U
  BY <1>0, IterationIs
<1>2. \A n \in 0 .. N : r[n] \in SUBSET U /\ a \subseteq r[n]
  <2> DEFINE S == {n \in 0 .. N : r[n] \in SUBSET U /\ a \subseteq r[n]}
  <2>1. 0 \in S
    BY <1>0, <1>1
  <2>2. ASSUME NEW n \in 0 .. N - 1, n \in S PROVE n + 1 \in S
    <3>1. n + 1 \in 0 .. N /\ r[n + 1] = F[r[n]]
      BY <1>0, <1>1
    <3> QED BY <1>1, <2>2, <3>1
  <2>3. 0 .. N \subseteq S
    <3> HIDE DEF S
    <3> QED BY <1>0, <2>1, <2>2, UpTo
  <2> QED BY <2>3
<1>3. SUFFICES ASSUME F[r[N]] # r[N] PROVE FALSE
  BY <1>0, <1>2
<1>4. ASSUME NEW n \in 0 .. N, F[r[n]] = r[n] PROVE FALSE
  <2> DEFINE S == {k \in 0 .. N : k < n \/ r[k] = r[n]}
  <2>1. 0 \in S
    BY <1>0
  <2>2. ASSUME NEW k \in 0 .. N - 1, k \in S PROVE k + 1 \in S
    <3>1. k + 1 \in 0 .. N /\ r[k + 1] = F[r[k]]
      BY <1>0, <1>1
    <3>2. CASE k < n
      <4>1. k + 1 < n \/ k + 1 = n
        BY <3>2
      <4> QED BY <3>1, <4>1
    <3>3. CASE r[k] = r[n]
      BY <1>4, <3>1, <3>3
    <3> QED BY <2>2, <3>2, <3>3
  <2>3. N \in S
    <3> HIDE DEF S
    <3> QED BY <1>0, <2>1, <2>2, UpTo
  <2>4. r[N] = r[n]
    BY <1>0, <2>3
  <2> QED BY <1>3, <1>4, <2>4
<1>5. ASSUME NEW L \in SUBSET U
      PROVE  IsFiniteSet(L) /\ Cardinality(L) \in Nat /\ Cardinality(L) <= Cardinality(U)
  BY <1>0, FS_Subset, FS_CardinalityType
<1>6. ASSUME NEW L \in SUBSET U, F[L] # L
      PROVE  Cardinality(F[L]) >= Cardinality(L) + 1
  <2>1. F[L] \in SUBSET U /\ L \subseteq F[L]
    BY <1>1
  <2>2. Cardinality(L) <= Cardinality(F[L]) /\ Cardinality(L) # Cardinality(F[L])
    BY <1>0, <1>5, <1>6, <2>1, FS_Subset
  <2> QED BY <1>0, <1>5, <2>1, <2>2
<1>7. \A n \in 0 .. N : Cardinality(r[n]) >= n + 1
  <2> DEFINE S == {n \in 0 .. N : Cardinality(r[n]) >= n + 1}
  <2>1. 0 \in S
    <3>1. Cardinality(a) \in Nat /\ Cardinality(a) # 0
      BY <1>0, <1>5, FS_EmptySet
    <3> QED BY <1>0, <1>1, <3>1
  <2>2. ASSUME NEW n \in 0 .. N - 1, n \in S PROVE n + 1 \in S
    <3>1. n \in 0 .. N /\ n + 1 \in 0 .. N /\ r[n + 1] = F[r[n]]
      BY <1>0, <1>1
    <3>2. r[n] \in SUBSET U /\ F[r[n]] # r[n]
      BY <1>2, <1>4, <3>1
    <3>3. Cardinality(r[n]) \in Nat /\ Cardinality(r[n + 1]) \in Nat
      BY <1>2, <1>5, <3>1
    <3>4. Cardinality(r[n + 1]) >= Cardinality(r[n]) + 1
      BY <1>6, <3>1, <3>2
    <3> QED BY <1>0, <2>2, <3>1, <3>3, <3>4
  <2>3. 0 .. N \subseteq S
    <3> HIDE DEF S
    <3> QED BY <1>0, <2>1, <2>2, UpTo
  <2> QED BY <2>3
<1>8. N \in 0 .. N /\ Cardinality(r[N]) >= N + 1
  BY <1>0, <1>7
<1>9. r[N] \in SUBSET U /\ F[r[N]] \in SUBSET U
  BY <1>1, <1>2, <1>8
<1>10. Cardinality(F[r[N]]) >= Cardinality(r[N]) + 1
  BY <1>3, <1>6, <1>9
<1>11. /\ Cardinality(U) \in Nat /\ Cardinality(r[N]) \in Nat
       /\ Cardinality(F[r[N]]) \in Nat /\ Cardinality(F[r[N]]) <= Cardinality(U)
  BY <1>0, <1>5, <1>9, FS_CardinalityType
<1> QED BY <1>0, <1>8, <1>10, <1>11

-----------------------------------------------------------------------------
(* The links that lead on from the root.                                   *)

\* The links in the directories ds, and the directories that links ls lead to.
LinksOf(tab, ds)    == UNION {LinksIn(tab, i) : i \in ds}
Heads(ibp, tab, ls) == {i \in ibp : tab[i].type = UFS_DIRECTORY /\ \E l \in ls : l[3] = i}

Onward(ibp, tab) == [ds \in SUBSET Inodes |-> ds \cup Heads(ibp, tab, LinksOf(tab, ds))]

\* What LinksFrom is made of.
IsReach(q, ibp, tab) ==
  q = [n \in 0 .. NumInodes - 1 |->
         IF n = 0 THEN LinksIn(tab, 0)
         ELSE q[n - 1] \cup UNION {LinksIn(tab, i) : i \in Heads(ibp, tab, q[n - 1])}]

ReachesAll(q, ibp, tab) == IsReach(q, ibp, tab) /\ LinksFrom(ibp, tab) = q[NumInodes - 1]

LEMMA LinksFromReach ==
  ASSUME NEW ibp, NEW tab, NEW reach, IsReach(reach, ibp, tab)
  PROVE  \E q : ReachesAll(q, ibp, tab)
<1> DEFINE q == CHOOSE f : IsReach(f, ibp, tab)
<1>1. IsReach(q, ibp, tab)
  <2> HIDE DEF IsReach
  <2> QED BY Zenon
<1>2. LinksFrom(ibp, tab) = q[NumInodes - 1]
  BY Zenon DEF LinksFrom, IsReach, Heads
<1> HIDE DEF q
<1> QED BY <1>1, <1>2 DEF ReachesAll

\* LinksFrom are the links of the directories that can be reached: the root and
\* those that LinksFrom lead to, and no others.  No path is longer than the
\* inodes.
LEMMA LinksFromIs ==
  ASSUME NEW ibp \in SUBSET Inodes, NEW tab
  PROVE  /\ \E q : ReachesAll(q, ibp, tab)
         /\ \E ds \in SUBSET Inodes :
              /\ LinksFrom(ibp, tab) = LinksOf(tab, ds)
              /\ ds = {0} \cup Heads(ibp, tab, LinksFrom(ibp, tab))
              /\ \A es : 0 \in es /\ Heads(ibp, tab, LinksOf(tab, es)) \subseteq es
                        => ds \subseteq es
<1> DEFINE N == NumInodes - 1
           F == Onward(ibp, tab)
<1>1. N \in Nat /\ 0 \in Inodes /\ 0 .. N = Inodes
  BY Addresses, SizesAssumption DEF Inodes
<1>2. \A ds \in SUBSET Inodes :
        /\ F[ds] = ds \cup Heads(ibp, tab, LinksOf(tab, ds))
        /\ ds \subseteq F[ds] /\ F[ds] \subseteq Inodes
  BY DEF Onward, Heads
<1> HIDE DEF F
<1>3. PICK r : Iterates(r, {0}, F, N)
  BY <1>1, IterationExists
<1>4. r[N] \in SUBSET Inodes /\ {0} \subseteq r[N] /\ F[r[N]] = r[N]
  <2> DEFINE a == {0}
  <2>1. IsFiniteSet(Inodes) /\ Cardinality(Inodes) <= N + 1
    BY <1>1, FS_Interval DEF Inodes
  <2>2. a \in SUBSET Inodes /\ a # {}
    BY <1>1
  <2>3. Climbs(F, Inodes, a, N)
    BY <1>1, <1>2, <2>1, <2>2 DEF Climbs
  <2>4. Iterates(r, a, F, N)
    BY <1>3
  <2> HIDE DEF N, a
  <2>5. r[N] \in SUBSET Inodes /\ a \subseteq r[N] /\ F[r[N]] = r[N]
    BY <2>3, <2>4, FixedPoint
  <2> QED BY <2>5 DEF a
<1>5. r[0] = {0} /\ \A n \in 0 .. N - 1 : r[n + 1] = F[r[n]]
  <2> HIDE DEF N
  <2> QED BY <1>1, <1>3, IterationIs
<1>6. \A n \in 0 .. N :
        r[n] \in SUBSET Inodes /\ r[n] \subseteq {0} \cup Heads(ibp, tab, LinksOf(tab, r[n]))
  <2> DEFINE S == {n \in 0 .. N : /\ r[n] \in SUBSET Inodes
                                  /\ r[n] \subseteq {0} \cup Heads(ibp, tab, LinksOf(tab, r[n]))}
  <2>1. 0 \in S
    BY <1>1, <1>5
  <2>2. ASSUME NEW n \in 0 .. N - 1, n \in S PROVE n + 1 \in S
    <3>1. n + 1 \in 0 .. N /\ r[n + 1] = F[r[n]]
      BY <1>1, <1>5
    <3>2. /\ r[n + 1] = r[n] \cup Heads(ibp, tab, LinksOf(tab, r[n]))
          /\ r[n + 1] \in SUBSET Inodes
      BY <1>2, <2>2, <3>1
    <3>3. LinksOf(tab, r[n]) \subseteq LinksOf(tab, r[n + 1])
      BY <3>2 DEF LinksOf
    <3>4. Heads(ibp, tab, LinksOf(tab, r[n])) \subseteq Heads(ibp, tab, LinksOf(tab, r[n + 1]))
      BY <3>3 DEF Heads
    <3> QED BY <2>2, <3>1, <3>2, <3>4
  <2>3. 0 .. N \subseteq S
    <3> HIDE DEF S, N
    <3> QED BY <1>1, <2>1, <2>2, UpTo
  <2> QED BY <2>3
<1>7. \A n \in 0 .. N : LinksOf(tab, r[n]) =
        IF n = 0 THEN LinksIn(tab, 0)
        ELSE LinksOf(tab, r[n - 1])
               \cup UNION {LinksIn(tab, i) : i \in Heads(ibp, tab, LinksOf(tab, r[n - 1]))}
  <2>1. LinksOf(tab, {0}) = LinksIn(tab, 0)
    BY DEF LinksOf
  <2>2. ASSUME NEW n \in 0 .. N, n # 0
        PROVE  r[n] = r[n - 1] \cup Heads(ibp, tab, LinksOf(tab, r[n - 1]))
    <3>1. n - 1 \in 0 .. N - 1 /\ n - 1 \in 0 .. N /\ n - 1 + 1 = n
      BY <1>1, <2>2
    <3> QED BY <1>2, <1>5, <1>6, <3>1
  <2>3. \A A, B : LinksOf(tab, A \cup B) =
                    LinksOf(tab, A) \cup UNION {LinksIn(tab, i) : i \in B}
    BY DEF LinksOf
  <2> QED BY <1>5, <2>1, <2>2, <2>3
<1>8. PICK q : ReachesAll(q, ibp, tab)
  <2> DEFINE reach == [n \in 0 .. NumInodes - 1 |-> LinksOf(tab, r[n])]
  <2>1. \A n \in 0 .. N : /\ reach[n] = LinksOf(tab, r[n])
                          /\ n # 0 => reach[n - 1] = LinksOf(tab, r[n - 1])
    BY <1>1
  <2>2. \A n \in 0 .. N : reach[n] =
          IF n = 0 THEN LinksIn(tab, 0)
          ELSE reach[n - 1] \cup UNION {LinksIn(tab, i) : i \in Heads(ibp, tab, reach[n - 1])}
    <3> HIDE DEF reach
    <3> QED BY <1>7, <2>1
  <2>3. reach = [n \in 0 .. NumInodes - 1 |-> reach[n]]
    OBVIOUS
  <2> HIDE DEF reach
  <2>4. IsReach(reach, ibp, tab)
    BY <2>2, <2>3 DEF IsReach
  <2> QED BY <2>4, LinksFromReach
<1>9. \A n \in 0 .. N : q[n] = LinksOf(tab, r[n])
  <2> DEFINE S == {n \in 0 .. N : q[n] = LinksOf(tab, r[n])}
  <2>1. \A n \in 0 .. N : q[n] =
          IF n = 0 THEN LinksIn(tab, 0)
          ELSE q[n - 1] \cup UNION {LinksIn(tab, i) : i \in Heads(ibp, tab, q[n - 1])}
    BY <1>8 DEF ReachesAll, IsReach
  <2>2. 0 \in S
    BY <1>1, <1>7, <2>1
  <2>3. ASSUME NEW n \in 0 .. N - 1, n \in S PROVE n + 1 \in S
    <3> DEFINE m == n + 1
    <3>1. m \in 0 .. N /\ m # 0 /\ m - 1 = n
      BY <1>1
    <3>2. q[m - 1] = LinksOf(tab, r[m - 1])
      BY <2>3, <3>1
    <3> HIDE DEF m
    <3>3. q[m] = LinksOf(tab, r[m])
      BY <1>7, <2>1, <3>1, <3>2
    <3> QED BY <3>1, <3>3 DEF m
  <2>4. 0 .. N \subseteq S
    <3> HIDE DEF S, N
    <3> QED BY <1>1, <2>2, <2>3, UpTo
  <2> QED BY <2>4
<1>10. N \in 0 .. N /\ LinksFrom(ibp, tab) = LinksOf(tab, r[N])
  BY <1>1, <1>8, <1>9 DEF ReachesAll
<1>11. r[N] = r[N] \cup Heads(ibp, tab, LinksOf(tab, r[N]))
  BY <1>2, <1>4
<1>12. r[N] = {0} \cup Heads(ibp, tab, LinksOf(tab, r[N]))
  BY <1>4, <1>6, <1>10, <1>11
<1>13. ASSUME NEW es, 0 \in es, Heads(ibp, tab, LinksOf(tab, es)) \subseteq es
       PROVE  r[N] \subseteq es
  <2> DEFINE S == {n \in 0 .. N : r[n] \subseteq es}
  <2>1. 0 \in S
    BY <1>1, <1>5, <1>13
  <2>2. ASSUME NEW n \in 0 .. N - 1, n \in S PROVE n + 1 \in S
    <3>1. n \in 0 .. N /\ n + 1 \in 0 .. N /\ r[n + 1] = F[r[n]]
      BY <1>1, <1>5
    <3>2. r[n + 1] = r[n] \cup Heads(ibp, tab, LinksOf(tab, r[n]))
      BY <1>2, <1>6, <3>1
    <3>3. LinksOf(tab, r[n]) \subseteq LinksOf(tab, es)
      BY <2>2 DEF LinksOf
    <3>4. Heads(ibp, tab, LinksOf(tab, r[n])) \subseteq Heads(ibp, tab, LinksOf(tab, es))
      BY <3>3 DEF Heads
    <3> QED BY <1>13, <2>2, <3>1, <3>2, <3>4
  <2>3. 0 .. N \subseteq S
    <3> HIDE DEF S, N
    <3> QED BY <1>1, <2>1, <2>2, UpTo
  <2> QED BY <1>1, <2>3
<1> QED BY <1>4, <1>8, <1>10, <1>12, <1>13

(***************************************************************************)
(* Stored trees.                                                           *)
(***************************************************************************)

\* The links that inode x, the directory p, holds in blocks b, those of the
\* directories ds, and the directories they lead to.
LinksHeld(b, x, p) ==
  {<<p, y.name, y.inum>> : y \in
     {z \in UNION {{b[a][c] : c \in Cells} : a \in {x.direct[s] : s \in Slots} \ {NoBlock}} :
        z.inum # -1 /\ z.name \in Names}}
AllLinks(b, tab, ds) == UNION {LinksHeld(b, tab[p], p) : p \in ds}

\* Directories ds hold every directory that a path from the root leads to,
Closed(b, ib, tab, ds) == 0 \in ds /\ Heads(ib, tab, AllLinks(b, tab, ds)) \subseteq ds

\* and nothing else.
Reached(b, ib, tab, ds) ==
  /\ ds = {0} \cup Heads(ib, tab, AllLinks(b, tab, ds))
  /\ \A es : Closed(b, ib, tab, es) => ds \subseteq es

\* The files that links ls lead to, and what a file of n cells holds.
FilesLed(ib, tab, ls) == {i \in ib : tab[i].type = UFS_REGULAR_FILE /\ \E l \in ls : l[3] = i}
Written(i, n)        == [k \in 1 .. n |-> <<i, k - 1>>]

View(b, ib, tab, ds) ==
  [links |-> AllLinks(b, tab, ds),
   files |-> [i \in FilesLed(ib, tab, AllLinks(b, tab, ds)) |-> Written(i, tab[i].size)]]

LEMMA LinkHeldIs ==
  ASSUME NEW b, NEW x, NEW p, NEW l
  PROVE  l \in LinksHeld(b, x, p) <=>
           \E s \in Slots, c \in Cells :
             /\ Used(x, b, s, c) /\ At(x, b, s, c).name \in Names
             /\ l = <<p, At(x, b, s, c).name, At(x, b, s, c).inum>>
<1>1. ASSUME NEW s \in Slots, NEW c \in Cells,
             Used(x, b, s, c), At(x, b, s, c).name \in Names,
             l = <<p, At(x, b, s, c).name, At(x, b, s, c).inum>>
      PROVE  l \in LinksHeld(b, x, p)
  BY <1>1 DEF LinksHeld, Used, At
<1>2. ASSUME l \in LinksHeld(b, x, p)
      PROVE  \E s \in Slots, c \in Cells :
               /\ Used(x, b, s, c) /\ At(x, b, s, c).name \in Names
               /\ l = <<p, At(x, b, s, c).name, At(x, b, s, c).inum>>
  <2>1. PICK a \in {x.direct[s] : s \in Slots} \ {NoBlock}, c \in Cells :
               /\ b[a][c].inum # -1 /\ b[a][c].name \in Names
               /\ l = <<p, b[a][c].name, b[a][c].inum>>
    BY <1>2 DEF LinksHeld
  <2>2. PICK s \in Slots : a = x.direct[s] /\ x.direct[s] # NoBlock
    BY <2>1
  <2> QED BY <2>1, <2>2 DEF Used, At
<1> QED BY <1>1, <1>2

LEMMA LinksAre ==
  ASSUME NEW b, NEW tab, NEW ds, NEW l
  PROVE  /\ l \in AllLinks(b, tab, ds) <=> \E p \in ds : l \in LinksHeld(b, tab[p], p)
         /\ \A p : l \in LinksHeld(b, tab[p], p) => l[1] = p
<1>1. \A p : l \in LinksHeld(b, tab[p], p) => l[1] = p
  BY LinkHeldIs
<1> QED BY <1>1 DEF AllLinks

LEMMA ReachedClosed ==
  ASSUME NEW b, NEW ib, NEW tab, NEW ds, Reached(b, ib, tab, ds)
  PROVE  Closed(b, ib, tab, ds)
BY DEF Reached, Closed

LEMMA ReachedOnce ==
  ASSUME NEW b, NEW ib, NEW tab, NEW ds, Reached(b, ib, tab, ds),
         NEW es, Reached(b, ib, tab, es)
  PROVE  ds = es
<1>1. Closed(b, ib, tab, ds) /\ Closed(b, ib, tab, es)
  BY ReachedClosed
<1> QED BY <1>1 DEF Reached

LEMMA MoreLinks ==
  ASSUME NEW b, NEW ib, NEW tab, NEW ds, NEW es, ds \subseteq es
  PROVE  Heads(ib, tab, AllLinks(b, tab, ds)) \subseteq Heads(ib, tab, AllLinks(b, tab, es))
<1>1. AllLinks(b, tab, ds) \subseteq AllLinks(b, tab, es)
  BY DEF AllLinks
<1> QED BY <1>1 DEF Heads

\* What only adds inodes that no link leads to, and leaves the links of the
\* reached directories and the types of what they lead to, leaves the links.
Unmoved(b, ib, tab, b2, ib2, tab2, ds) ==
  /\ ib \subseteq ib2
  /\ \A p \in ds : LinksHeld(b2, tab2[p], p) = LinksHeld(b, tab[p], p)
  /\ \A l \in AllLinks(b, tab, ds) : l[3] \in ib /\ tab2[l[3]].type = tab[l[3]].type

LEMMA LinksStay ==
  ASSUME NEW b, NEW ib, NEW tab, NEW b2, NEW ib2, NEW tab2, NEW ds,
         Reached(b, ib, tab, ds), Unmoved(b, ib, tab, b2, ib2, tab2, ds)
  PROVE  /\ Reached(b2, ib2, tab2, ds) /\ AllLinks(b2, tab2, ds) = AllLinks(b, tab, ds)
         /\ FilesLed(ib2, tab2, AllLinks(b, tab, ds)) = FilesLed(ib, tab, AllLinks(b, tab, ds))
<1> DEFINE L == AllLinks(b, tab, ds)
<1>1. AllLinks(b2, tab2, ds) = L
  BY DEF Unmoved, AllLinks
<1>2. \A l \in L : l[3] \in ib /\ l[3] \in ib2 /\ tab2[l[3]].type = tab[l[3]].type
  BY DEF Unmoved
<1> HIDE DEF L
<1>3. Heads(ib2, tab2, L) = Heads(ib, tab, L)
  BY <1>2 DEF Heads
<1>4. FilesLed(ib2, tab2, L) = FilesLed(ib, tab, L)
  BY <1>2 DEF FilesLed
<1>5. ASSUME NEW es, Closed(b2, ib2, tab2, es) PROVE ds \subseteq es
  <2> DEFINE fs == es \cap ds
  <2>1. 0 \in fs
    BY <1>5 DEF Reached, Closed
  <2>2. ASSUME NEW i \in Heads(ib, tab, AllLinks(b, tab, fs)) PROVE i \in fs
    <3>1. i \in ds
      <4>1. Heads(ib, tab, AllLinks(b, tab, fs)) \subseteq Heads(ib, tab, AllLinks(b, tab, ds))
        BY MoreLinks
      <4> QED BY <4>1 DEF Reached
    <3>2. PICK l \in AllLinks(b, tab, fs) : l[3] = i
      BY DEF Heads
    <3>3. PICK p \in fs : l \in LinksHeld(b, tab[p], p)
      BY <3>2, LinksAre
    <3>4. l \in L /\ l \in LinksHeld(b2, tab2[p], p)
      BY <3>3 DEF L, AllLinks, Unmoved
    <3>5. l \in AllLinks(b2, tab2, es)
      BY <3>3, <3>4, LinksAre
    <3>6. i \in ib2 /\ tab2[i].type = UFS_DIRECTORY
      BY <1>2, <3>2, <3>4 DEF Heads
    <3>7. i \in es
      BY <1>5, <3>2, <3>5, <3>6 DEF Closed, Heads
    <3> QED BY <3>1, <3>7
  <2>3. Closed(b, ib, tab, fs)
    <3> HIDE DEF fs
    <3> QED BY <2>1, <2>2 DEF Closed
  <2> HIDE DEF fs
  <2>4. ds \subseteq fs
    BY <2>3 DEF Reached
  <2> QED BY <2>4 DEF fs
<1>6. ds = {0} \cup Heads(ib2, tab2, AllLinks(b2, tab2, ds))
  BY <1>1, <1>3 DEF Reached, L
<1> QED BY <1>1, <1>4, <1>5, <1>6 DEF Reached, L

\* With the sizes of the files the whole stored tree stays,
LEMMA ViewKept ==
  ASSUME NEW b, NEW ib, NEW tab, NEW b2, NEW ib2, NEW tab2, NEW ds,
         Reached(b, ib, tab, ds), Unmoved(b, ib, tab, b2, ib2, tab2, ds),
         \A i \in FilesLed(ib, tab, AllLinks(b, tab, ds)) : tab2[i].size = tab[i].size
  PROVE  Reached(b2, ib2, tab2, ds) /\ View(b2, ib2, tab2, ds) = View(b, ib, tab, ds)
<1> DEFINE fs == FilesLed(ib, tab, AllLinks(b, tab, ds))
<1>1. /\ Reached(b2, ib2, tab2, ds) /\ AllLinks(b2, tab2, ds) = AllLinks(b, tab, ds)
      /\ FilesLed(ib2, tab2, AllLinks(b, tab, ds)) = fs
  BY LinksStay
<1> QED BY <1>1 DEF View

LEMMA WrittenMore ==
  ASSUME NEW i, NEW m \in Nat, NEW n \in Nat
  PROVE  /\ Len(Written(i, m)) = m
         /\ Written(i, m + n) = Written(i, m) \o [k \in 1 .. n |-> FS!Datum(i, m + k - 1)]
<1> DEFINE s == Written(i, m)
           t == [k \in 1 .. n |-> FS!Datum(i, m + k - 1)]
           u == Written(i, m + n)
           T == {i} \X Int
<1>1. s \in [1 .. m -> T] /\ u \in [1 .. m + n -> T]
  BY DEF Written
<1>2. t \in [1 .. n -> T]
  BY DEF FS!Datum
<1>3. \A k \in 1 .. m + n : u[k] = <<i, k - 1>>
  BY DEF Written
<1>4. \A k \in 1 .. m : s[k] = <<i, k - 1>>
  BY DEF Written
<1>5. \A k \in 1 .. n : t[k] = <<i, m + k - 1>>
  BY DEF FS!Datum
<1> HIDE DEF s, t, u, T
<1>6. s \in Seq(T) /\ t \in Seq(T) /\ Len(s) = m /\ Len(t) = n
  BY <1>1, <1>2
<1>7. s \o t \in Seq(T) /\ Len(s \o t) = m + n
  BY <1>6
<1>8. s \o t \in [1 .. m + n -> T]
  BY <1>7, LenProperties
<1>9. \A k \in 1 .. m + n : (s \o t)[k] = IF k <= m THEN s[k] ELSE t[k - m]
  BY <1>6, ConcatProperties
<1>10. ASSUME NEW k \in 1 .. m + n PROVE (s \o t)[k] = u[k]
  <2>1. CASE k <= m
    <3>1. k \in 1 .. m
      BY <2>1
    <3>2. (s \o t)[k] = s[k]
      BY <1>9, <2>1
    <3> QED BY <1>3, <1>4, <3>1, <3>2
  <2>2. CASE ~(k <= m)
    <3>1. k - m \in 1 .. n /\ m + (k - m) - 1 = k - 1
      BY <2>2
    <3>2. t[k - m] = <<i, k - 1>>
      BY <1>5, <3>1
    <3> QED BY <1>3, <1>9, <2>2, <3>2
  <2> QED BY <2>1, <2>2
<1>11. u = s \o t
  BY <1>1, <1>8, <1>10
<1> QED BY <1>6, <1>11 DEF s, t, u

\* and when a file i grows, that is all.
LEMMA ViewAppends ==
  ASSUME NEW b, NEW ib, NEW tab, NEW b2, NEW tab2, NEW ds,
         Reached(b, ib, tab, ds), Unmoved(b, ib, tab, b2, ib, tab2, ds),
         NEW i \in FilesLed(ib, tab, AllLinks(b, tab, ds)), tab[i].size \in Nat,
         NEW n \in Nat, tab2[i].size = tab[i].size + n,
         \A j \in FilesLed(ib, tab, AllLinks(b, tab, ds)) \ {i} : tab2[j].size = tab[j].size
  PROVE  /\ Reached(b2, ib, tab2, ds)
         /\ View(b2, ib, tab2, ds) = FS!Append1(View(b, ib, tab, ds), i, n)
         /\ Len(View(b, ib, tab, ds).files[i]) = tab[i].size
<1> DEFINE L  == AllLinks(b, tab, ds)
           fs == FilesLed(ib, tab, L)
           V  == View(b, ib, tab, ds)
           F  == [j \in fs |-> Written(j, tab[j].size)]
           F2 == [j \in fs |-> Written(j, tab2[j].size)]
           more == [k \in 1 .. n |-> FS!Datum(i, tab[i].size + k - 1)]
<1>1. /\ Reached(b2, ib, tab2, ds) /\ AllLinks(b2, tab2, ds) = L
      /\ FilesLed(ib, tab2, L) = fs
  BY LinksStay
<1>2. V = [links |-> L, files |-> F] /\ View(b2, ib, tab2, ds) = [links |-> L, files |-> F2]
  BY <1>1 DEF View
<1>3. /\ Len(Written(i, tab[i].size)) = tab[i].size
      /\ Written(i, tab2[i].size) = Written(i, tab[i].size) \o more
  <2> DEFINE k == tab[i].size
  <2>1. k \in Nat /\ tab2[i].size = k + n
    OBVIOUS
  <2> HIDE DEF k
  <2>2. /\ Len(Written(i, k)) = k
        /\ Written(i, k + n) = Written(i, k) \o [j \in 1 .. n |-> FS!Datum(i, k + j - 1)]
    BY <2>1, WrittenMore
  <2> QED BY <2>1, <2>2 DEF k
<1>4. F[i] = Written(i, tab[i].size) /\ i \in fs
  OBVIOUS
<1>5. F2 = [F EXCEPT ![i] = F[i] \o more]
  <2> HIDE DEF more
  <2> QED BY <1>3, <1>4
<1> HIDE DEF L, fs, F, F2, V
<1>6. V.files = F /\ V.links = L
  BY <1>2
<1>7. FS!Append1(V, i, n) = [links |-> L, files |-> [F EXCEPT ![i] = F[i] \o more]]
  <2>1. Len(V.files[i]) = tab[i].size
    BY <1>3, <1>4, <1>6
  <2>2. FS!Append1(V, i, n) = [V EXCEPT !.files[i] = V.files[i] \o more]
    BY <2>1 DEF FS!Append1
  <2> HIDE DEF more
  <2> QED BY <1>2, <1>6, <2>2
<1> QED BY <1>1, <1>2, <1>3, <1>4, <1>5, <1>6, <1>7 DEF V

\* Directory p gets a link to e, the only one, and e has none yet itself.
Grown(b, ib, tab, b2, tab2, ds, p, n, e) ==
  /\ p \in ds /\ e \in ib \ {0} /\ \A l \in AllLinks(b, tab, ds) : l[3] # e
  /\ LinksHeld(b2, tab2[p], p) = LinksHeld(b, tab[p], p) \cup {<<p, n, e>>}
  /\ \A q \in ds \ {p} : LinksHeld(b2, tab2[q], q) = LinksHeld(b, tab[q], q)
  /\ \A i \in ib : tab2[i].type = tab[i].type
  /\ \A l \in AllLinks(b, tab, ds) :
       tab[l[3]].type = UFS_REGULAR_FILE => tab2[l[3]].size = tab[l[3]].size
  /\ \/ tab[e].type = UFS_DIRECTORY /\ LinksHeld(b2, tab2[e], e) = {}
     \/ tab[e].type = UFS_REGULAR_FILE /\ tab2[e].size = 0

LEMMA ViewGrows ==
  ASSUME NEW b, NEW ib, NEW tab, NEW b2, NEW tab2, NEW ds, NEW p, NEW n, NEW e,
         Reached(b, ib, tab, ds), Grown(b, ib, tab, b2, tab2, ds, p, n, e)
  PROVE  \E es :
           /\ es \subseteq ds \cup {e} /\ Reached(b2, ib, tab2, es)
           /\ View(b2, ib, tab2, es) \in
                {FS!WithDir(View(b, ib, tab, ds), p, n, e), FS!WithFile(View(b, ib, tab, ds), p, n, e)}
<1> DEFINE L  == AllLinks(b, tab, ds)
           m  == <<p, n, e>>
           es == IF tab[e].type = UFS_DIRECTORY THEN ds \cup {e} ELSE ds
<1>0. UFS_DIRECTORY # UFS_REGULAR_FILE
  BY DEF UFS_DIRECTORY, UFS_REGULAR_FILE
<1>1. m[1] = p /\ m[2] = n /\ m[3] = e
  OBVIOUS
<1> HIDE DEF m
<1>2. /\ p \in ds /\ e \in ib /\ e # 0 /\ \A l \in L : l[3] # e
      /\ LinksHeld(b2, tab2[p], p) = LinksHeld(b, tab[p], p) \cup {m}
      /\ \A q \in ds \ {p} : LinksHeld(b2, tab2[q], q) = LinksHeld(b, tab[q], q)
      /\ \A i \in ib : tab2[i].type = tab[i].type
      /\ \A l \in L : tab[l[3]].type = UFS_REGULAR_FILE => tab2[l[3]].size = tab[l[3]].size
      /\ \/ tab[e].type = UFS_DIRECTORY /\ LinksHeld(b2, tab2[e], e) = {}
         \/ tab[e].type = UFS_REGULAR_FILE /\ tab2[e].size = 0
  BY DEF Grown, m
<1>3. e \notin ds
  BY <1>2 DEF Reached, Heads
<1>4. AllLinks(b2, tab2, ds) = L \cup {m}
  <2>1. \A l : l \in AllLinks(b2, tab2, ds) => l \in L \cup {m}
    <3> SUFFICES ASSUME NEW l \in AllLinks(b2, tab2, ds) PROVE l \in L \cup {m}
      OBVIOUS
    <3>1. PICK q \in ds : l \in LinksHeld(b2, tab2[q], q)
      BY LinksAre
    <3> QED BY <1>2, <3>1 DEF AllLinks
  <2>2. m \in AllLinks(b2, tab2, ds)
    BY <1>2 DEF AllLinks
  <2>3. \A l \in L : l \in AllLinks(b2, tab2, ds)
    <3> SUFFICES ASSUME NEW l \in L PROVE l \in AllLinks(b2, tab2, ds)
      OBVIOUS
    <3>1. PICK q \in ds : l \in LinksHeld(b, tab[q], q)
      BY LinksAre
    <3>2. l \in LinksHeld(b2, tab2[q], q)
      BY <1>2, <3>1
    <3> QED BY <3>2, LinksAre
  <2> QED BY <2>1, <2>2, <2>3
<1>5. AllLinks(b2, tab2, es) = L \cup {m}
  <2>1. AllLinks(b2, tab2, ds \cup {e}) = AllLinks(b2, tab2, ds) \cup LinksHeld(b2, tab2[e], e)
    BY DEF AllLinks
  <2> QED BY <1>0, <1>2, <1>4, <2>1
<1>6. Heads(ib, tab2, L \cup {m}) =
        IF tab[e].type = UFS_DIRECTORY THEN Heads(ib, tab, L) \cup {e} ELSE Heads(ib, tab, L)
  <2> HIDE DEF L
  <2>1. ASSUME NEW i \in ib
        PROVE  (\E l \in L \cup {m} : l[3] = i) <=> (\E l \in L : l[3] = i) \/ i = e
    BY <1>1
  <2> QED BY <1>2, <2>1 DEF Heads
<1>7. es = {0} \cup Heads(ib, tab2, AllLinks(b2, tab2, es))
  BY <1>5, <1>6 DEF Reached
<1>8. ASSUME NEW fs, Closed(b2, ib, tab2, fs) PROVE es \subseteq fs
  <2> DEFINE gs == fs \cap ds
  <2>1. 0 \in gs
    BY <1>8 DEF Reached, Closed
  <2>2. ASSUME NEW i \in Heads(ib, tab, AllLinks(b, tab, gs)) PROVE i \in gs
    <3>1. i \in ds
      <4>1. Heads(ib, tab, AllLinks(b, tab, gs)) \subseteq Heads(ib, tab, AllLinks(b, tab, ds))
        BY MoreLinks
      <4> QED BY <4>1 DEF Reached
    <3>2. PICK l \in AllLinks(b, tab, gs) : l[3] = i
      BY DEF Heads
    <3>3. PICK q \in gs : l \in LinksHeld(b, tab[q], q)
      BY <3>2, LinksAre
    <3>4. l \in LinksHeld(b2, tab2[q], q)
      BY <1>2, <3>3
    <3>5. l \in AllLinks(b2, tab2, fs)
      BY <3>3, <3>4, LinksAre
    <3>6. i \in ib /\ tab2[i].type = UFS_DIRECTORY
      BY <1>2 DEF Heads
    <3>7. i \in fs
      BY <1>8, <3>2, <3>5, <3>6 DEF Closed, Heads
    <3> QED BY <3>1, <3>7
  <2>3. Closed(b, ib, tab, gs)
    <3> HIDE DEF gs
    <3> QED BY <2>1, <2>2 DEF Closed
  <2>4. ds \subseteq fs
    <3> HIDE DEF gs
    <3>1. ds \subseteq gs
      BY <2>3 DEF Reached
    <3> QED BY <3>1 DEF gs
  <2>5. ASSUME tab[e].type = UFS_DIRECTORY PROVE e \in fs
    <3>1. m \in LinksHeld(b2, tab2[p], p) /\ p \in fs
      BY <1>2, <2>4
    <3>2. m \in AllLinks(b2, tab2, fs)
      BY <3>1, LinksAre
    <3>3. e \in Heads(ib, tab2, AllLinks(b2, tab2, fs))
      BY <1>1, <1>2, <2>5, <3>2 DEF Heads
    <3> QED BY <1>8, <3>3 DEF Closed
  <2> QED BY <2>4, <2>5
<1>9. Reached(b2, ib, tab2, es)
  <2> HIDE DEF es
  <2> QED BY <1>7, <1>8 DEF Reached
<1> DEFINE fs == FilesLed(ib, tab, L)
           V  == View(b, ib, tab, ds)
<1>10. /\ V.links = L /\ DOMAIN V.files = fs
       /\ V = [links |-> L, files |-> V.files]
       /\ \A i \in fs : V.files[i] = Written(i, tab[i].size)
  BY DEF View
<1>11. FilesLed(ib, tab2, L \cup {m}) =
         IF tab[e].type = UFS_REGULAR_FILE THEN fs \cup {e} ELSE fs
  <2>1. ASSUME NEW i \in ib
        PROVE  (\E l \in L \cup {m} : l[3] = i) <=> (\E l \in L : l[3] = i) \/ i = e
    <3> HIDE DEF L
    <3> QED BY <1>1
  <2> HIDE DEF L
  <2> QED BY <1>2, <2>1 DEF FilesLed
<1>12. \A i \in fs : tab2[i].size = tab[i].size /\ i # e
  BY <1>2 DEF FilesLed
<1>13. View(b2, ib, tab2, es) =
         [links |-> L \cup {m},
          files |-> [i \in FilesLed(ib, tab2, L \cup {m}) |-> Written(i, tab2[i].size)]]
  <2> HIDE DEF L, es
  <2> QED BY <1>5 DEF View
<1> HIDE DEF L, es, fs, V
<1>14. CASE tab[e].type = UFS_DIRECTORY
  <2>1. [i \in FilesLed(ib, tab2, L \cup {m}) |-> Written(i, tab2[i].size)] =
          [i \in fs |-> Written(i, tab[i].size)]
    BY <1>0, <1>11, <1>12, <1>14
  <2>2. View(b2, ib, tab2, es) = [links |-> L \cup {m}, files |-> V.files]
    BY <1>13, <2>1 DEF View, V, L, fs
  <2>3. FS!WithDir(V, p, n, e) = [links |-> L \cup {m}, files |-> V.files]
    BY <1>10 DEF FS!WithDir, m
  <2> QED BY <1>9, <2>2, <2>3 DEF V, es
<1>15. CASE tab[e].type = UFS_REGULAR_FILE
  <2>1. Written(e, tab2[e].size) = <<>>
    BY <1>0, <1>2, <1>15 DEF Written
  <2>2. [i \in FilesLed(ib, tab2, L \cup {m}) |-> Written(i, tab2[i].size)] =
          [i \in DOMAIN V.files \cup {e} |-> IF i = e THEN <<>> ELSE V.files[i]]
    BY <1>10, <1>11, <1>12, <1>15, <2>1
  <2>3. FS!WithFile(V, p, n, e) =
          [links |-> L \cup {m},
           files |-> [i \in DOMAIN V.files \cup {e} |-> IF i = e THEN <<>> ELSE V.files[i]]]
    BY <1>10 DEF FS!WithFile, m
  <2> QED BY <1>9, <1>13, <2>2, <2>3 DEF V, es
<1> QED BY <1>2, <1>14, <1>15

-----------------------------------------------------------------------------
(* The trees that a state stores.                                          *)

Stored(b, ib, tab, t) ==
  \E ds \in SUBSET Inodes : Reached(b, ib, tab, ds) /\ t = View(b, ib, tab, ds)

\* The links of a tree lead to linked inodes.
LEMMA LinksLead ==
  ASSUME NEW b, NEW ib, NEW tab, NEW linked, Tree(ib, tab, b, linked),
         0 \in ib, tab[0].type = UFS_DIRECTORY, NEW ds, Reached(b, ib, tab, ds)
  PROVE  /\ \A p \in ds : p \in ib /\ tab[p].type = UFS_DIRECTORY
         /\ \A l \in AllLinks(b, tab, ds) : l[1] \in ds /\ l[2] \in Names /\ l[3] \in linked
<1>1. \A p \in ds : p \in ib /\ tab[p].type = UFS_DIRECTORY
  BY DEF Reached, Heads
<1>2. ASSUME NEW l \in AllLinks(b, tab, ds)
      PROVE  l[1] \in ds /\ l[2] \in Names /\ l[3] \in linked
  <2>1. PICK p \in ds : l \in LinksHeld(b, tab[p], p)
    BY LinksAre
  <2>2. PICK s \in Slots, c \in Cells :
           /\ Used(tab[p], b, s, c) /\ At(tab[p], b, s, c).name \in Names
           /\ l = <<p, At(tab[p], b, s, c).name, At(tab[p], b, s, c).inum>>
    BY <2>1, LinkHeldIs
  <2> DEFINE k == <<p, s, c>>
  <2>3. k \in UsedPlaces(ib, tab, b) /\ Held(tab, b, k) = At(tab[p], b, s, c)
    <3>1. k[1] = p /\ k[2] = s /\ k[3] = c
      OBVIOUS
    <3> QED BY <1>1, <2>2, <3>1, PlaceIs DEF Held
  <2> HIDE DEF k
  <2>4. k \in LinkPlaces(ib, tab, b) /\ Target(tab, b, k) = l[3]
    BY <2>2, <2>3 DEF LinkPlaces, Target
  <2> QED BY <2>2, <2>4 DEF Tree
<1> QED BY <1>1, <1>2

\* What TreeOf takes from a tree in order.
Sound(b, ib, tab, linked, lk) ==
  /\ Tree(ib, tab, b, linked) /\ linked \subseteq ib \ lk
  /\ 0 \in ib /\ tab[0].type = UFS_DIRECTORY
  /\ \A i \in ib : InodeOK(i, tab[i], b, lk)

LEMMA FileHolds ==
  ASSUME NEW tab, NEW i, FileOK(i, tab[i], blocks)
  PROVE  /\ tab[i].size \in Nat
         /\ [k \in 1 .. tab[i].size |-> DatumAt(tab, i, k - 1)] = Written(i, tab[i].size)
<1> DEFINE x == tab[i]
<1>1. Packed(x) /\ x.size \in 0 .. Capacity
  BY DEF FileOK, Packed
<1>2. ASSUME NEW k \in 1 .. x.size
      PROVE  DatumAt(tab, i, k - 1) = <<i, k - 1>>
  <2> DEFINE j == k - 1
             s == j \div BlockSize
             c == j % BlockSize
  <2>1. j \in 0 .. Capacity - 1 /\ j < x.size
    BY <1>1, Sizes
  <2> HIDE DEF j
  <2>2. s \in Slots /\ c \in Cells /\ j = s * BlockSize + c
    BY <2>1, OffsetSplit
  <2> HIDE DEF s, c
  <2>3. Below(x, s, c)
    BY <2>1, <2>2 DEF Below
  <2>4. x.direct[s] # NoBlock
    BY <1>1, <2>2, <2>3, CellIsSet
  <2>5. blocks[x.direct[s]][c] = Byte(i, j)
    BY <2>2, <2>3 DEF FileOK
  <2>6. DatumAt(tab, i, j) = <<i, j>>
    BY <2>4, <2>5 DEF DatumAt, DiskCell, Byte, s, c
  <2> QED BY <2>6 DEF j
<1> QED BY <1>1, <1>2 DEF Written

LEMMA TreeOfStored ==
  ASSUME AppendOnly, NEW ibp \in SUBSET Inodes, NEW tab, NEW linked, NEW lk,
         Sound(blocks, ibp, tab, linked, lk)
  PROVE  Stored(blocks, ibp, tab, TreeOf(ibp, tab))
<1>1. PICK ds \in SUBSET Inodes :
        /\ LinksFrom(ibp, tab) = LinksOf(tab, ds)
        /\ ds = {0} \cup Heads(ibp, tab, LinksFrom(ibp, tab))
        /\ \A es : 0 \in es /\ Heads(ibp, tab, LinksOf(tab, es)) \subseteq es => ds \subseteq es
  BY LinksFromIs
<1>2. \A es : LinksOf(tab, es) = AllLinks(blocks, tab, es)
  BY DEF LinksOf, AllLinks, LinksIn, LinksHeld
<1>3. Reached(blocks, ibp, tab, ds)
  BY <1>1, <1>2 DEF Reached, Closed
<1> DEFINE L == AllLinks(blocks, tab, ds)
<1>4. \A l \in L : l[3] \in linked /\ l[3] \in ibp /\ l[3] \notin lk
  BY <1>3, LinksLead DEF Sound
<1>5. LinksFrom(ibp, tab) = L
  BY <1>1, <1>2
<1> HIDE DEF L
<1>6. {IF l[3] \in ibp THEN l ELSE <<l[1], l[2], -1>> : l \in L} = L
  BY <1>4
<1>7. \A i \in FilesLed(ibp, tab, L) :
        [k \in 1 .. tab[i].size |-> DatumAt(tab, i, k - 1)] = Written(i, tab[i].size)
  <2> SUFFICES ASSUME NEW i \in FilesLed(ibp, tab, L) PROVE FileOK(i, tab[i], blocks)
    BY FileHolds
  <2>1. i \in ibp /\ i \notin lk /\ tab[i].type = UFS_REGULAR_FILE
    BY <1>4 DEF FilesLed
  <2> QED BY <2>1 DEF Sound, InodeOK
<1> DEFINE fs == {i \in ibp : tab[i].type = UFS_REGULAR_FILE /\ \E l \in L : l[3] = i}
<1>8. fs = FilesLed(ibp, tab, L)
  BY DEF FilesLed
<1>9. TreeOf(ibp, tab) =
        [links |-> {IF l[3] \in ibp THEN l ELSE <<l[1], l[2], -1>> : l \in L},
         files |-> [i \in fs |-> [k \in 1 .. tab[i].size |-> DatumAt(tab, i, k - 1)]]]
  BY <1>5 DEF TreeOf
<1> HIDE DEF fs
<1>10. TreeOf(ibp, tab) = View(blocks, ibp, tab, ds)
  BY <1>6, <1>7, <1>8, <1>9 DEF View, L
<1> QED BY <1>3, <1>10 DEF Stored

LEMMA StoredOnce ==
  ASSUME NEW b, NEW ib, NEW tab, NEW t, Stored(b, ib, tab, t), NEW u, Stored(b, ib, tab, u)
  PROVE  t = u
BY ReachedOnce DEF Stored

\* A tree that is stored twice, where nothing it consists of moved.
LEMMA StoredSame ==
  ASSUME NEW b, NEW ib, NEW tab, NEW t, Stored(b, ib, tab, t),
         NEW b2, NEW ib2, NEW tab2, NEW u, Stored(b2, ib2, tab2, u),
         \A ds : Reached(b, ib, tab, ds) /\ t = View(b, ib, tab, ds) =>
           /\ Unmoved(b, ib, tab, b2, ib2, tab2, ds)
           /\ \A i \in FilesLed(ib, tab, AllLinks(b, tab, ds)) : tab2[i].size = tab[i].size
  PROVE  u = t
<1>1. PICK ds \in SUBSET Inodes : Reached(b, ib, tab, ds) /\ t = View(b, ib, tab, ds)
  BY DEF Stored
<1>2. Reached(b2, ib2, tab2, ds) /\ View(b2, ib2, tab2, ds) = t
  BY <1>1, ViewKept
<1>3. Stored(b2, ib2, tab2, t)
  BY <1>2 DEF Stored
<1> QED BY <1>3, StoredOnce

OnTree(t, i) == \E l \in t.links : l[3] = i

\* What a state shows of FileSystem.
ShowsTrees ==
  /\ Stored(blocks, inode_bp, inodes, TreeBar)
  /\ pc \notin Committing => Stored(blocks, disk_inode_bp, disk_inodes, SavedBar)
  /\ pc \in Committing => SavedBar = TreeBar
  /\ WritingBar = IF pc = "write" /\ OnTree(TreeBar, frame.inum)
                  THEN [file |-> frame.inum, left |-> frame.left] ELSE FS!NoWrite

LEMMA StoresTrees ==
  ASSUME LinksInv, ~torn
  PROVE  /\ Sound(blocks, inode_bp, inodes, inode_bp \ (leaked \cup Unlinked \cup {0}), leaked)
         /\ pc \notin Committing =>
              Sound(blocks, disk_inode_bp, disk_inodes, disk_inode_bp \ (leaked \cup {0}), leaked)
<1>1. /\ CoreOK /\ RootOK /\ disk_inode_bp \subseteq inode_bp
      /\ Tree(inode_bp, inodes, blocks, inode_bp \ (leaked \cup Unlinked \cup {0}))
      /\ pc \notin Committing =>
           /\ ImageOK
           /\ Tree(disk_inode_bp, disk_inodes, blocks, disk_inode_bp \ (leaked \cup {0}))
  BY LinksStart
<1>2. Sound(blocks, inode_bp, inodes, inode_bp \ (leaked \cup Unlinked \cup {0}), leaked)
  BY <1>1 DEF Sound, CoreOK, RootOK
<1>3. ASSUME pc \notin Committing
      PROVE  Sound(blocks, disk_inode_bp, disk_inodes, disk_inode_bp \ (leaked \cup {0}), leaked)
  BY <1>1, <1>3 DEF Sound, ImageOK, RootOK
<1> QED BY <1>2, <1>3

LEMMA AlwaysShowsTrees ==
  ASSUME AppendOnly
  PROVE  LinksInv /\ ~torn => ShowsTrees
<1> SUFFICES ASSUME LinksInv, ~torn PROVE ShowsTrees
  OBVIOUS
<1> DEFINE linked == inode_bp \ (leaked \cup Unlinked \cup {0})
           dlinked == disk_inode_bp \ (leaked \cup {0})
<1>1. /\ inode_bp \in SUBSET Inodes /\ disk_inode_bp \in SUBSET Inodes
      /\ Sound(blocks, inode_bp, inodes, linked, leaked)
      /\ pc \notin Committing => Sound(blocks, disk_inode_bp, disk_inodes, dlinked, leaked)
  BY StoresTrees, LinksStart
<1> HIDE DEF linked, dlinked
<1>2. Stored(blocks, inode_bp, inodes, TreeBar)
  BY <1>1, TreeOfStored DEF TreeBar
<1>3. ASSUME pc \notin Committing PROVE Stored(blocks, disk_inode_bp, disk_inodes, SavedBar)
  <2>1. SavedBar = TreeOf(disk_inode_bp, disk_inodes)
    BY <1>3 DEF SavedBar, Committing
  <2> QED BY <1>1, <1>3, <2>1, TreeOfStored
<1>4. pc \in Committing => SavedBar = TreeBar
  BY DEF SavedBar, TreeBar, Committing
<1>5. \A i : InTree(i) <=> OnTree(TreeBar, i)
  <2>1. /\ \A l \in LinksFrom(inode_bp, inodes) : l[3] \in inode_bp
    <3>1. PICK ds \in SUBSET Inodes :
            /\ LinksFrom(inode_bp, inodes) = LinksOf(inodes, ds)
            /\ ds = {0} \cup Heads(inode_bp, inodes, LinksFrom(inode_bp, inodes))
            /\ \A es : 0 \in es /\ Heads(inode_bp, inodes, LinksOf(inodes, es)) \subseteq es
                         => ds \subseteq es
      BY <1>1, LinksFromIs
    <3>2. \A es : LinksOf(inodes, es) = AllLinks(blocks, inodes, es)
      BY DEF LinksOf, AllLinks, LinksIn, LinksHeld
    <3>3. Reached(blocks, inode_bp, inodes, ds)
      BY <3>1, <3>2 DEF Reached, Closed
    <3>4. \A l \in AllLinks(blocks, inodes, ds) : l[3] \in linked
      BY <1>1, <3>3, LinksLead DEF Sound
    <3>5. linked \subseteq inode_bp
      BY <1>1 DEF Sound
    <3> QED BY <3>1, <3>2, <3>4, <3>5
  <2>2. TreeBar.links =
          {IF l[3] \in inode_bp THEN l ELSE <<l[1], l[2], -1>> : l \in LinksFrom(inode_bp, inodes)}
    BY DEF TreeBar, TreeOf
  <2>3. TreeBar.links = LinksFrom(inode_bp, inodes)
    BY <2>1, <2>2
  <2> QED BY <2>3 DEF InTree, OnTree
<1>6. WritingBar = IF pc = "write" /\ OnTree(TreeBar, frame.inum)
                   THEN [file |-> frame.inum, left |-> frame.left] ELSE FS!NoWrite
  BY <1>5 DEF WritingBar, FS!NoWrite
<1> QED BY <1>2, <1>3, <1>4, <1>6 DEF ShowsTrees

LEMMA NextShowsTrees ==
  ASSUME AppendOnly
  PROVE  LinksInv' /\ ~torn' => ShowsTrees'
<1>1. LinksInv /\ ~torn => ShowsTrees
  BY AlwaysShowsTrees
<1> QED BY <1>1, PTL

-----------------------------------------------------------------------------
(* What the steps do to the trees.                                         *)

\* What ufs_creat is about to link is empty.
BareNew ==
  pc = "link" =>
    /\ inodes[frame.new].type = UFS_DIRECTORY =>
         LinksHeld(blocks, inodes[frame.new], frame.new) = {}
    /\ inodes[frame.new].type = UFS_REGULAR_FILE => inodes[frame.new].size = 0

GrowInv == LinksInv /\ ~torn /\ BareNew

LEMMA HeldSame ==
  ASSUME NEW b, NEW b2, NEW x, NEW y, NEW p,
         \A s \in Slots, c \in Cells :
           /\ Used(y, b2, s, c) <=> Used(x, b, s, c)
           /\ Used(x, b, s, c) => At(y, b2, s, c) = At(x, b, s, c)
  PROVE  LinksHeld(b2, y, p) = LinksHeld(b, x, p)
<1>1. ASSUME NEW l PROVE l \in LinksHeld(b2, y, p) <=> l \in LinksHeld(b, x, p)
  <2>1. l \in LinksHeld(b, x, p) <=>
          \E s \in Slots, c \in Cells :
            /\ Used(x, b, s, c) /\ At(x, b, s, c).name \in Names
            /\ l = <<p, At(x, b, s, c).name, At(x, b, s, c).inum>>
    BY LinkHeldIs
  <2>2. l \in LinksHeld(b2, y, p) <=>
          \E s \in Slots, c \in Cells :
            /\ Used(y, b2, s, c) /\ At(y, b2, s, c).name \in Names
            /\ l = <<p, At(y, b2, s, c).name, At(y, b2, s, c).inum>>
    BY LinkHeldIs
  <2> QED BY <2>1, <2>2
<1> QED BY <1>1

\* The trees of a state, with the directories that are reached.
LEMMA CoreTree ==
  ASSUME LinksInv, ~torn, NEW ds, Reached(blocks, inode_bp, inodes, ds)
  PROVE  /\ \A p \in ds : p \in inode_bp /\ inodes[p].type = UFS_DIRECTORY
         /\ \A l \in AllLinks(blocks, inodes, ds) :
              /\ l[1] \in ds /\ l[2] \in Names
              /\ l[3] \in inode_bp \ (leaked \cup Unlinked \cup {0})
<1> DEFINE linked == inode_bp \ (leaked \cup Unlinked \cup {0})
<1>1. Sound(blocks, inode_bp, inodes, linked, leaked)
  BY StoresTrees
<1> HIDE DEF linked
<1>2. /\ \A p \in ds : p \in inode_bp /\ inodes[p].type = UFS_DIRECTORY
      /\ \A l \in AllLinks(blocks, inodes, ds) : l[1] \in ds /\ l[2] \in Names /\ l[3] \in linked
  BY <1>1, LinksLead DEF Sound
<1> QED BY <1>2 DEF linked

LEMMA CoreUnmoved ==
  ASSUME LinksInv, ~torn, DirsStay, inode_bp \subseteq inode_bp',
         NEW ds, Reached(blocks, inode_bp, inodes, ds)
  PROVE  Unmoved(blocks, inode_bp, inodes, blocks', inode_bp', inodes', ds)
<1>1. /\ \A p \in ds : p \in inode_bp /\ inodes[p].type = UFS_DIRECTORY
      /\ \A l \in AllLinks(blocks, inodes, ds) : l[3] \in inode_bp
  BY CoreTree
<1>2. ASSUME NEW p \in ds
      PROVE  LinksHeld(blocks', inodes'[p], p) = LinksHeld(blocks, inodes[p], p)
  <2>1. \A s \in Slots, c \in Cells :
          /\ Used(inodes'[p], blocks', s, c) <=> Used(inodes[p], blocks, s, c)
          /\ Used(inodes[p], blocks, s, c) =>
               At(inodes'[p], blocks', s, c) = At(inodes[p], blocks, s, c)
    BY <1>1 DEF DirsStay, Used, At
  <2> QED BY <2>1, HeldSame
<1> QED BY <1>1, <1>2 DEF Unmoved, DirsStay

LEMMA CoreKept ==
  ASSUME LinksInv, ~torn, ShowsTrees, ShowsTrees', DirsStay, inode_bp \subseteq inode_bp',
         \A i \in inode_bp : inodes[i].type = UFS_REGULAR_FILE /\ OnTree(TreeBar, i) =>
                            inodes'[i].size = inodes[i].size
  PROVE  TreeBar' = TreeBar
<1> DEFINE t == TreeBar
           u == TreeBar'
<1>1. Stored(blocks, inode_bp, inodes, t) /\ Stored(blocks', inode_bp', inodes', u)
  BY DEF ShowsTrees
<1>2. \A i \in inode_bp : inodes[i].type = UFS_REGULAR_FILE /\ OnTree(t, i) =>
                         inodes'[i].size = inodes[i].size
  OBVIOUS
<1> HIDE DEF t, u
<1>3. ASSUME NEW ds, Reached(blocks, inode_bp, inodes, ds),
             t = View(blocks, inode_bp, inodes, ds)
      PROVE  /\ Unmoved(blocks, inode_bp, inodes, blocks', inode_bp', inodes', ds)
             /\ \A i \in FilesLed(inode_bp, inodes, AllLinks(blocks, inodes, ds)) :
                  inodes'[i].size = inodes[i].size
  <2>1. Unmoved(blocks, inode_bp, inodes, blocks', inode_bp', inodes', ds)
    BY <1>3, CoreUnmoved
  <2>2. t.links = AllLinks(blocks, inodes, ds)
    BY <1>3 DEF View
  <2> QED BY <1>2, <2>1, <2>2 DEF FilesLed, OnTree
<1>4. u = t
  BY <1>1, <1>3, StoredSame
<1> QED BY <1>4 DEF t, u

LEMMA ImageKept ==
  ASSUME LinksInv, ~torn, ShowsTrees, ShowsTrees', DirsStay,
         pc \notin Committing, pc' \notin Committing,
         UNCHANGED <<disk_inode_bp, disk_inodes>>
  PROVE  SavedBar' = SavedBar
<1> DEFINE t == SavedBar
           u == SavedBar'
           linked == disk_inode_bp \ (leaked \cup {0})
<1>1. /\ Stored(blocks, disk_inode_bp, disk_inodes, t)
      /\ Stored(blocks', disk_inode_bp, disk_inodes, u)
  BY DEF ShowsTrees
<1>2. Sound(blocks, disk_inode_bp, disk_inodes, linked, leaked)
  BY StoresTrees
<1>3. linked \subseteq disk_inode_bp
  OBVIOUS
<1> HIDE DEF t, u, linked
<1>4. ASSUME NEW ds, Reached(blocks, disk_inode_bp, disk_inodes, ds)
      PROVE  Unmoved(blocks, disk_inode_bp, disk_inodes, blocks', disk_inode_bp, disk_inodes, ds)
  <2>1. /\ \A p \in ds : p \in disk_inode_bp /\ disk_inodes[p].type = UFS_DIRECTORY
        /\ \A l \in AllLinks(blocks, disk_inodes, ds) : l[3] \in disk_inode_bp
    BY <1>2, <1>3, <1>4, LinksLead DEF Sound
  <2>2. ASSUME NEW p \in ds
        PROVE  LinksHeld(blocks', disk_inodes[p], p) = LinksHeld(blocks, disk_inodes[p], p)
    <3>1. /\ p \in inode_bp /\ Extends(p)
      BY <2>1, LinksStart DEF ImageOK, DurableOK
    <3>2. inodes[p].type = UFS_DIRECTORY
      BY <2>1, <3>1 DEF Extends
    <3>3. \A s \in Slots, c \in Cells : disk_inodes[p].direct[s] # NoBlock =>
            blocks'[disk_inodes[p].direct[s]][c] = blocks[disk_inodes[p].direct[s]][c]
      BY <3>1, <3>2 DEF Extends, DirsStay
    <3>4. \A s \in Slots, c \in Cells :
            /\ Used(disk_inodes[p], blocks', s, c) <=> Used(disk_inodes[p], blocks, s, c)
            /\ Used(disk_inodes[p], blocks, s, c) =>
                 At(disk_inodes[p], blocks', s, c) = At(disk_inodes[p], blocks, s, c)
      BY <3>3 DEF Used, At
    <3> QED BY <3>4, HeldSame
  <2> QED BY <2>1, <2>2 DEF Unmoved
<1>5. u = t
  BY <1>1, <1>4, StoredSame
<1> QED BY <1>5 DEF t, u

\* What is there when ufs_creat has linked: one link more, to an inode that holds
\* nothing yet, of a name that the parent had no link of.
LEMMA NewIsBare ==
  ASSUME LinksInv, ~torn, BareNew, pc = "link", NEW t \in Slots, NEW o \in Cells, LinkedAt(t, o)
  PROVE  LET p == frame.inum
             e == frame.new
         IN /\ p \in inode_bp /\ inodes[p].type = UFS_DIRECTORY /\ frame.name \in Names
            /\ e \in inode_bp \ {0} /\ e \in Inodes /\ e # p
            /\ inode_bp' = inode_bp /\ pc' = "commit"
            /\ \A i \in inode_bp :
                 /\ inodes'[i].type = inodes[i].type
                 /\ inodes[i].type = UFS_REGULAR_FILE => inodes'[i].size = inodes[i].size
            /\ LinksHeld(blocks', inodes'[p], p) =
                 LinksHeld(blocks, inodes[p], p) \cup {<<p, frame.name, e>>}
            /\ \A q \in inode_bp \ {p} :
                 LinksHeld(blocks', inodes'[q], q) = LinksHeld(blocks, inodes[q], q)
            /\ \/ inodes[e].type = UFS_DIRECTORY /\ LinksHeld(blocks', inodes'[e], e) = {}
               \/ inodes[e].type = UFS_REGULAR_FILE /\ inodes'[e].size = 0
            /\ \A l \in LinksHeld(blocks, inodes[p], p) : l[2] # frame.name
<1> DEFINE p == frame.inum
           e == frame.new
           n == frame.name
           x == inodes[p]
           y == inodes'[p]
<1>1. /\ TypeOK /\ inode_bp \in SUBSET Inodes /\ 0 \in disk_inode_bp /\ NewOK
  BY LinksStart
<1>2. /\ p \in inode_bp /\ e \in inode_bp /\ e # p /\ n \in Names
      /\ x.type = UFS_DIRECTORY /\ DirOK(x, blocks)
      /\ \A s \in Slots, c \in Cells :
           Below(x, s, c) => blocks[x.direct[s]][c].name # n
  BY DEF LinksInv, DataInv, DataOK, LinkState
<1>3. e \in inode_bp \ {0} /\ e \in Inodes
  BY <1>1, <1>2 DEF NewOK
<1>4. /\ y.type = UFS_DIRECTORY
      /\ \A i \in inode_bp \ {p} :
           /\ inodes'[i] = inodes[i]
           /\ \A s \in Slots, c \in Cells : inodes[i].direct[s] # NoBlock =>
                blocks'[inodes[i].direct[s]][c] = blocks[inodes[i].direct[s]][c]
      /\ pc' = "commit" /\ inode_bp' = inode_bp
  BY DEF LinkedAt
<1>5. \A i \in inode_bp :
        /\ inodes'[i].type = inodes[i].type
        /\ inodes[i].type = UFS_REGULAR_FILE => inodes'[i].size = inodes[i].size
  BY <1>2, <1>4 DEF UFS_REGULAR_FILE, UFS_DIRECTORY
<1>6. /\ Used(y, blocks', t, o) /\ At(y, blocks', t, o) = Entry(n, e)
      /\ \A s \in Slots, c \in Cells :
           /\ Used(x, blocks, s, c) <=> Below(x, s, c)
           /\ Used(y, blocks', s, c) <=> Used(x, blocks, s, c) \/ (s = t /\ c = o)
           /\ Used(x, blocks, s, c) => At(y, blocks', s, c) = At(x, blocks, s, c)
  BY LinkedCells
<1>7. Entry(n, e).name = n /\ Entry(n, e).inum = e
  BY DEF Entry
<1> DEFINE m == <<p, n, e>>
<1>8. LinksHeld(blocks', y, p) = LinksHeld(blocks, x, p) \cup {m}
  <2> HIDE DEF x, y, p, n, e
  <2>1. ASSUME NEW l \in LinksHeld(blocks', y, p) PROVE l \in LinksHeld(blocks, x, p) \cup {m}
    <3>1. PICK s \in Slots, c \in Cells :
             /\ Used(y, blocks', s, c) /\ At(y, blocks', s, c).name \in Names
             /\ l = <<p, At(y, blocks', s, c).name, At(y, blocks', s, c).inum>>
      BY LinkHeldIs
    <3>2. CASE Used(x, blocks, s, c)
      <4>1. At(y, blocks', s, c) = At(x, blocks, s, c)
        BY <1>6, <3>2
      <4> QED BY <3>1, <3>2, <4>1, LinkHeldIs
    <3>3. CASE ~Used(x, blocks, s, c)
      <4>1. At(y, blocks', s, c) = Entry(n, e)
        BY <1>6, <3>1, <3>3
      <4> QED BY <1>7, <3>1, <4>1
    <3> QED BY <3>2, <3>3
  <2>2. m \in LinksHeld(blocks', y, p)
    BY <1>2, <1>6, <1>7, LinkHeldIs
  <2>3. ASSUME NEW l \in LinksHeld(blocks, x, p) PROVE l \in LinksHeld(blocks', y, p)
    <3>1. PICK s \in Slots, c \in Cells :
             /\ Used(x, blocks, s, c) /\ At(x, blocks, s, c).name \in Names
             /\ l = <<p, At(x, blocks, s, c).name, At(x, blocks, s, c).inum>>
      BY LinkHeldIs
    <3>2. Used(y, blocks', s, c) /\ At(y, blocks', s, c) = At(x, blocks, s, c)
      BY <1>6, <3>1
    <3> QED BY <3>1, <3>2, LinkHeldIs
  <2> QED BY <2>1, <2>2, <2>3
<1>9. ASSUME NEW q \in inode_bp \ {p}
      PROVE  LinksHeld(blocks', inodes'[q], q) = LinksHeld(blocks, inodes[q], q)
  <2>1. \A s \in Slots, c \in Cells :
          /\ Used(inodes'[q], blocks', s, c) <=> Used(inodes[q], blocks, s, c)
          /\ Used(inodes[q], blocks, s, c) =>
               At(inodes'[q], blocks', s, c) = At(inodes[q], blocks, s, c)
    BY <1>4 DEF Used, At
  <2> QED BY <2>1, HeldSame
<1>10. \/ inodes[e].type = UFS_DIRECTORY /\ LinksHeld(blocks', inodes'[e], e) = {}
       \/ inodes[e].type = UFS_REGULAR_FILE /\ inodes'[e].size = 0
  <2>1. inodes[e].type \in {UFS_DIRECTORY, UFS_REGULAR_FILE}
    BY <1>1, <1>3 DEF TypeOK, Inode
  <2>2. inodes[e].type = UFS_DIRECTORY => LinksHeld(blocks, inodes[e], e) = {}
    BY DEF BareNew
  <2>3. inodes[e].type = UFS_REGULAR_FILE => inodes'[e].size = 0
    BY <1>2, <1>5, Zenon DEF BareNew
  <2> QED BY <1>2, <1>9, <2>1, <2>2, <2>3
<1>11. \A l \in LinksHeld(blocks, x, p) : l[2] # n
  <2> SUFFICES ASSUME NEW l \in LinksHeld(blocks, x, p) PROVE l[2] # n
    OBVIOUS
  <2>1. PICK s \in Slots, c \in Cells :
           /\ Used(x, blocks, s, c) /\ At(x, blocks, s, c).name \in Names
           /\ l = <<p, At(x, blocks, s, c).name, At(x, blocks, s, c).inum>>
    BY LinkHeldIs
  <2>2. l[2] = At(x, blocks, s, c).name
    BY <2>1
  <2> QED BY <1>2, <1>6, <2>1, <2>2, Zenon DEF At
<1> HIDE DEF x, y
<1> QED BY <1>2, <1>3, <1>4, <1>5, <1>8, <1>9, <1>10, <1>11 DEF x, y

\* In a parent that the tree reaches the link is a node more for FileSystem, in any
\* other one it is not seen, and what was not durable is going to be.
LEMMA Linking ==
  ASSUME GrowInv, ShowsTrees, ShowsTrees', pc = "link",
         NEW t \in Slots, NEW o \in Cells, LinkedAt(t, o)
  PROVE  FS!Create \/ FS!Save
<1> DEFINE p == frame.inum
           e == frame.new
           n == frame.name
           T == TreeBar
           U == TreeBar'
           m == <<p, n, e>>
<1>1. PICK ds \in SUBSET Inodes :
        Reached(blocks, inode_bp, inodes, ds) /\ T = View(blocks, inode_bp, inodes, ds)
  BY DEF ShowsTrees, Stored
<1> DEFINE L == AllLinks(blocks, inodes, ds)
<1>2. /\ p \in inode_bp /\ inodes[p].type = UFS_DIRECTORY /\ n \in Names
      /\ e \in inode_bp \ {0} /\ e \in Inodes /\ e # p
      /\ inode_bp' = inode_bp /\ pc' = "commit"
      /\ \A i \in inode_bp :
           /\ inodes'[i].type = inodes[i].type
           /\ inodes[i].type = UFS_REGULAR_FILE => inodes'[i].size = inodes[i].size
      /\ LinksHeld(blocks', inodes'[p], p) = LinksHeld(blocks, inodes[p], p) \cup {m}
      /\ \A q \in inode_bp \ {p} :
           LinksHeld(blocks', inodes'[q], q) = LinksHeld(blocks, inodes[q], q)
      /\ \/ inodes[e].type = UFS_DIRECTORY /\ LinksHeld(blocks', inodes'[e], e) = {}
         \/ inodes[e].type = UFS_REGULAR_FILE /\ inodes'[e].size = 0
      /\ \A l \in LinksHeld(blocks, inodes[p], p) : l[2] # n
  BY NewIsBare DEF GrowInv
<1>3. /\ \A q \in ds : q \in inode_bp
      /\ \A l \in L : l[3] \in inode_bp \ {0, e}
  BY <1>1, CoreTree DEF GrowInv, Unlinked
<1>4. /\ ~OkBar' /\ WritingBar = FS!NoWrite /\ WritingBar' = FS!NoWrite
      /\ SavedBar' = TreeBar'
  BY <1>2 DEF OkBar, ShowsTrees, Committing
<1>5. Stored(blocks', inode_bp, inodes', U)
  BY <1>2 DEF ShowsTrees
<1>6. /\ T.links = L /\ T = [links |-> L, files |-> T.files]
      /\ DOMAIN T.files = FilesLed(inode_bp, inodes, L)
  BY <1>1 DEF View
<1> HIDE DEF p, e, n, T, U, m, L
<1>7. ASSUME p \in ds PROVE FS!Create
  <2>1. Grown(blocks, inode_bp, inodes, blocks', inodes', ds, p, n, e)
    BY <1>2, <1>3, <1>7 DEF Grown, L, m
  <2>2. PICK es :
          /\ es \subseteq ds \cup {e} /\ Reached(blocks', inode_bp, inodes', es)
          /\ View(blocks', inode_bp, inodes', es) \in
               {FS!WithDir(View(blocks, inode_bp, inodes, ds), p, n, e),
                FS!WithFile(View(blocks, inode_bp, inodes, ds), p, n, e)}
    BY <1>1, <2>1, ViewGrows
  <2>3. es \in SUBSET Inodes
    BY <1>2, <2>2
  <2>4. U = View(blocks', inode_bp, inodes', es)
    <3>1. Stored(blocks', inode_bp, inodes', View(blocks', inode_bp, inodes', es))
      BY <2>2, <2>3 DEF Stored
    <3> QED BY <1>5, <3>1, StoredOnce
  <2>5. U \in {FS!WithDir(T, p, n, e), FS!WithFile(T, p, n, e)}
    BY <1>1, <2>2, <2>4
  <2>6. U.links = L \cup {m}
    <3>1. FS!WithDir(T, p, n, e).links = L \cup {m}
      BY <1>6 DEF FS!WithDir, m
    <3>2. FS!WithFile(T, p, n, e).links = L \cup {m}
      BY <1>6 DEF FS!WithFile, m
    <3> QED BY <2>5, <3>1, <3>2
  <2>7. m[1] = p /\ m[2] = n /\ m[3] = e
    BY DEF m
  <2>8. m \in U.links \ T.links
    BY <1>3, <1>6, <2>6, <2>7
  <2>9. p \in FS!Directories(T)
    <3>1. CASE p = 0
      BY <3>1 DEF FS!Directories
    <3>2. CASE p # 0
      <4>1. PICK l \in L : l[3] = p
        BY <1>1, <1>7, <3>2 DEF Reached, Heads, L
      <4>2. p \in FS!Linked(T)
        BY <1>6, <4>1 DEF FS!Linked
      <4>3. p \notin DOMAIN T.files
        BY <1>2, <1>6 DEF FilesLed, UFS_DIRECTORY, UFS_REGULAR_FILE
      <4> QED BY <4>2, <4>3 DEF FS!Directories
    <3> QED BY <3>1, <3>2
  <2>10. ~FS!Taken(T, p, n)
    <3> SUFFICES ASSUME NEW l \in L, l[1] = p PROVE l[2] # n
      BY <1>6 DEF FS!Taken
    <3>1. PICK q \in ds : l \in LinksHeld(blocks, inodes[q], q)
      BY LinksAre DEF L
    <3>2. q = p
      BY <3>1, LinksAre
    <3> QED BY <1>2, <3>1, <3>2
  <2>11. e \in Inodes \ ({0} \cup FS!Linked(T))
    BY <1>2, <1>3, <1>6 DEF FS!Linked
  <2>12. \E l \in TreeBar'.links \ TreeBar.links :
           /\ l[1] \in FS!Directories(TreeBar) /\ l[2] \in Names
           /\ ~FS!Taken(TreeBar, l[1], l[2])
           /\ l[3] \in Inodes \ ({0} \cup FS!Linked(TreeBar))
           /\ TreeBar' \in {FS!WithDir(TreeBar, l[1], l[2], l[3]),
                            FS!WithFile(TreeBar, l[1], l[2], l[3])}
    <3>1. /\ m[1] \in FS!Directories(T) /\ m[2] \in Names
          /\ ~FS!Taken(T, m[1], m[2])
          /\ m[3] \in Inodes \ ({0} \cup FS!Linked(T))
          /\ U \in {FS!WithDir(T, m[1], m[2], m[3]), FS!WithFile(T, m[1], m[2], m[3])}
      BY <1>2, <2>5, <2>7, <2>9, <2>10, <2>11
    <3> QED BY <2>8, <3>1 DEF T, U
  <2>13. TreeBar' # TreeBar
    BY <2>8 DEF T, U
  <2> QED BY <1>4, <2>12, <2>13 DEF FS!Create
<1>8. ASSUME p \notin ds PROVE FS!Save
  <2>1. /\ Unmoved(blocks, inode_bp, inodes, blocks', inode_bp, inodes', ds)
        /\ \A i \in FilesLed(inode_bp, inodes, L) : inodes'[i].size = inodes[i].size
    BY <1>2, <1>3, <1>8 DEF Unmoved, FilesLed, L
  <2>2. /\ Reached(blocks', inode_bp, inodes', ds)
        /\ View(blocks', inode_bp, inodes', ds) = View(blocks, inode_bp, inodes, ds)
    BY <1>1, <2>1, ViewKept DEF L
  <2>3. Stored(blocks', inode_bp, inodes', T)
    BY <1>1, <2>2 DEF Stored
  <2>4. U = T
    BY <1>5, <2>3, StoredOnce
  <2>5. WritingBar.left = 0
    BY <1>4 DEF FS!NoWrite
  <2> QED BY <1>4, <2>4, <2>5 DEF FS!Save, T, U
<1> QED BY <1>7, <1>8

\* A turn of ufs_write appends what it writes to its file.
LEMMA BlockAppends ==
  ASSUME LinksInv, ~torn, AppendOnly, WriteBlock
  PROVE  LET i == frame.inum IN
         /\ i \in inode_bp /\ inodes[i].type = UFS_REGULAR_FILE
         /\ \A j \in inode_bp \ {i} : inodes'[j] = inodes[j]
         /\ \E z \in 1 .. frame.left :
              /\ inodes'[i].size = inodes[i].size + z
              /\ inodes[i].size + z <= Capacity
              /\ frame'.inum = i /\ frame'.left = frame.left - z
<1> DEFINE i == frame.inum
           b == frame.blk
           o == frame.off
           z == Min({frame.left, BlockSize - frame.off})
           x == inodes[i]
<1>1. TypeOK /\ WriteState
  BY LinksStart DEF LinksInv, DataInv, DataOK, WriteBlock
<1>2. /\ i \in Inodes \cap inode_bp /\ b \in Slots /\ o \in Cells /\ x \in Inode
      /\ frame.left \in Nat \ {0} /\ x.type = UFS_REGULAR_FILE
      /\ b * BlockSize + o = x.size
  BY <1>1 DEF WriteState, WriteBlock, TypeOK
<1>3. z \in 1 .. frame.left /\ z <= BlockSize - o
  <2>1. /\ {frame.left, BlockSize - o} \in SUBSET Nat /\ BlockSize - o \in Nat \ {0}
    BY <1>2, Sizes
  <2>2. z \in {frame.left, BlockSize - o} /\ z <= frame.left /\ z <= BlockSize - o
    BY <2>1, MinNat
  <2> QED BY <1>2, <2>1, <2>2
<1>4. /\ inodes' = [inodes EXCEPT ![i].direct[b] = WriteTarget(i, b), ![i].size = @ + z]
      /\ frame' = [frame EXCEPT !.blk = b + 1, !.off = 0, !.left = @ - z]
  BY DEF WriteBlock
<1> HIDE DEF z
<1>5. /\ \A j \in inode_bp \ {i} : inodes'[j] = inodes[j]
      /\ inodes'[i].size = x.size + z
  <2>1. /\ \A j \in inode_bp \ {i} : inodes'[j] = inodes[j]
        /\ inodes'[i] = [x EXCEPT !.direct = [@ EXCEPT ![b] = WriteTarget(i, b)], !.size = @ + z]
    BY <1>1, <1>2, <1>4 DEF TypeOK
  <2> QED BY <1>2, <2>1 DEF Inode
<1>6. x.size + z <= Capacity
  <2>1. b * BlockSize + BlockSize <= Capacity /\ b * BlockSize \in Nat
    BY <1>2, SlotEnds, Sizes
  <2>2. o \in Nat /\ z \in Nat /\ BlockSize \in Nat /\ Capacity \in Nat
    BY <1>2, <1>3, Sizes
  <2> HIDE DEF b, o, x
  <2> QED BY <1>2, <1>3, <2>1, <2>2
<1>7. frame'.inum = i /\ frame'.left = frame.left - z
  BY <1>1, <1>4 DEF TypeOK
<1> HIDE DEF x
<1> QED BY <1>2, <1>3, <1>5, <1>6, <1>7 DEF x

\* The files of a tree are in order.
LEMMA OnTreeIs ==
  ASSUME LinksInv, ~torn, ShowsTrees, NEW i \in inode_bp, OnTree(TreeBar, i),
         inodes[i].type = UFS_REGULAR_FILE, AppendOnly
  PROVE  /\ i # 0 /\ FileOK(i, inodes[i], blocks) /\ inodes[i].size \in 0 .. Capacity
         /\ i \in DOMAIN TreeBar.files /\ Len(TreeBar.files[i]) = inodes[i].size
<1> DEFINE T == TreeBar
<1>1. PICK ds \in SUBSET Inodes :
        Reached(blocks, inode_bp, inodes, ds) /\ T = View(blocks, inode_bp, inodes, ds)
  BY DEF ShowsTrees, Stored
<1> DEFINE L == AllLinks(blocks, inodes, ds)
<1>2. /\ T.links = L
      /\ T.files = [j \in FilesLed(inode_bp, inodes, L) |-> Written(j, inodes[j].size)]
  BY <1>1 DEF View
<1>3. OnTree(T, i)
  OBVIOUS
<1> HIDE DEF T, L
<1>4. i \in FilesLed(inode_bp, inodes, L)
  BY <1>2, <1>3 DEF OnTree, FilesLed
<1>5. i \in inode_bp \ (leaked \cup {0})
  BY <1>1, <1>2, <1>3, CoreTree DEF OnTree, L
<1>6. FileOK(i, inodes[i], blocks)
  BY <1>5, LinksStart DEF CoreOK, InodeOK
<1>7. inodes[i].size \in 0 .. Capacity
  BY <1>6 DEF FileOK, Packed
<1>8. i \in DOMAIN T.files /\ T.files[i] = Written(i, inodes[i].size)
  BY <1>2, <1>4
<1>9. Len(T.files[i]) = inodes[i].size
  <2> DEFINE k == inodes[i].size
  <2>1. k \in Nat
    BY <1>7, Sizes
  <2> HIDE DEF k
  <2>2. Len(Written(i, k)) = k
    BY <2>1, WrittenMore
  <2> QED BY <1>8, <2>2 DEF k
<1> QED BY <1>5, <1>6, <1>7, <1>8, <1>9 DEF T

\* The tree shows that if it leads to the file.
LEMMA Appending ==
  ASSUME GrowInv, ShowsTrees, ShowsTrees', AppendOnly, WriteBlock
  PROVE  FS!AppendPart \/ FS!Answer
<1> DEFINE i == frame.inum
           T == TreeBar
           U == TreeBar'
           N == frame.left
<1>1. /\ LinksInv /\ ~torn /\ TypeOK /\ pc = "write" /\ pc' = "write"
      /\ inode_bp' = inode_bp /\ UNCHANGED <<disk_inode_bp, disk_inodes>> /\ DirsStay
  BY WriteBlockData, LinksStart DEF WriteBlock, LinksInv, GrowInv
<1>2. /\ i \in inode_bp /\ inodes[i].type = UFS_REGULAR_FILE
      /\ \A j \in inode_bp \ {i} : inodes'[j] = inodes[j]
  BY <1>1, BlockAppends
<1>3. PICK z \in 1 .. N :
        /\ inodes'[i].size = inodes[i].size + z /\ inodes[i].size + z <= Capacity
        /\ frame'.inum = i /\ frame'.left = N - z
  BY <1>1, BlockAppends
<1>4. SavedBar' = SavedBar /\ ~OkBar'
  BY <1>1, ImageKept DEF OkBar, Committing
<1>5. /\ WritingBar = IF OnTree(T, i) THEN [file |-> i, left |-> N] ELSE FS!NoWrite
      /\ WritingBar' = IF OnTree(U, i) THEN [file |-> i, left |-> N - z] ELSE FS!NoWrite
  BY <1>1, <1>3 DEF ShowsTrees
<1>6. ASSUME ~OnTree(T, i) PROVE FS!Answer
  <2>1. U = T
    <3>1. \A j \in inode_bp : inodes[j].type = UFS_REGULAR_FILE /\ OnTree(TreeBar, j) =>
                                inodes'[j].size = inodes[j].size
      BY <1>2, <1>6 DEF T
    <3> QED BY <1>1, <3>1, CoreKept
  <2> QED BY <1>4, <1>5, <1>6, <2>1 DEF FS!Answer
<1>7. ASSUME OnTree(T, i) PROVE FS!AppendPart
  <2>1. /\ i # 0 /\ inodes[i].size \in Nat /\ i \in DOMAIN T.files
        /\ Len(T.files[i]) = inodes[i].size
    BY <1>1, <1>2, <1>7, OnTreeIs
  <2>2. PICK ds \in SUBSET Inodes :
          Reached(blocks, inode_bp, inodes, ds) /\ T = View(blocks, inode_bp, inodes, ds)
    BY DEF ShowsTrees, Stored
  <2>3. Stored(blocks', inode_bp, inodes', U)
    BY <1>1 DEF ShowsTrees
  <2>4. Unmoved(blocks, inode_bp, inodes, blocks', inode_bp, inodes', ds)
    BY <1>1, <2>2, CoreUnmoved
  <2> HIDE DEF T, U
  <2>5. /\ T.links = AllLinks(blocks, inodes, ds)
        /\ i \in FilesLed(inode_bp, inodes, AllLinks(blocks, inodes, ds))
    BY <1>2, <1>7, <2>2 DEF View, OnTree, FilesLed
  <2>6. \A j \in FilesLed(inode_bp, inodes, AllLinks(blocks, inodes, ds)) \ {i} :
          inodes'[j].size = inodes[j].size
    BY <1>2 DEF FilesLed
  <2>7. z \in Nat /\ N \in Nat
    BY <1>1 DEF TypeOK
  <2> HIDE DEF i, N
  <2>8. /\ Reached(blocks', inode_bp, inodes', ds)
        /\ View(blocks', inode_bp, inodes', ds) = FS!Append1(T, i, z)
    BY <1>3, <2>1, <2>2, <2>4, <2>5, <2>6, <2>7, ViewAppends
  <2>9. Stored(blocks', inode_bp, inodes', FS!Append1(T, i, z))
    BY <2>8 DEF Stored
  <2>10. U = FS!Append1(T, i, z)
    BY <2>3, <2>9, StoredOnce
  <2>11. OnTree(U, i)
    <3>1. U.links = T.links
      BY <2>2, <2>10 DEF FS!Append1, View
    <3> QED BY <1>7, <3>1 DEF OnTree
  <2>12. WritingBar = [file |-> i, left |-> N] /\ WritingBar' = [file |-> i, left |-> N - z]
    BY <1>5, <1>7, <2>11
  <2>13. /\ z \in 1 .. WritingBar.left /\ WritingBar' = [WritingBar EXCEPT !.left = @ - z]
         /\ Len(T.files[WritingBar.file]) + z <= Capacity
         /\ U = FS!Append1(T, WritingBar.file, z)
    BY <1>3, <2>1, <2>10, <2>12
  <2>14. WritingBar # FS!NoWrite
    BY <2>1, <2>12 DEF FS!NoWrite
  <2> QED BY <1>4, <2>13, <2>14 DEF FS!AppendPart, T, U
<1> QED BY <1>6, <1>7

\* The invariant.
LEMMA GrowStep ==
  ASSUME "unlink" \notin Ops, CrashPoints # "any", GrowInv, [GrowNext]_vars
  PROVE  GrowInv'
<1>1. LinksInv /\ ~torn /\ BareNew
  BY DEF GrowInv
<1>2. [Next]_vars
  BY DEF GrowNext, Next, Call
<1>3. LinksInv'
  BY <1>1, <1>2, LinksStep
<1>4. CASE UNCHANGED vars
  <2>1. BareNew'
    BY <1>1, <1>4 DEF vars, BareNew
  <2> QED BY <1>1, <1>3, <1>4, <2>1 DEF vars, GrowInv
<1>5. CASE Grow
  <2>1. ASSUME NEW p \in Inums, NEW n \in Names,
               NEW t \in {UFS_DIRECTORY, UFS_REGULAR_FILE}, CreatFails(p, t, n)
        PROVE  pc' # "link" /\ ~torn'
    BY <1>1, <2>1 DEF CreatFails, Return
  <2>2. ASSUME NEW p \in Inums, NEW n \in Names,
               NEW t \in {UFS_DIRECTORY, UFS_REGULAR_FILE}, CreatAllocates(p, t, n)
        PROVE  BareNew' /\ ~torn'
    <3> DEFINE e == frame'.new
    <3>1. /\ inodes'[e].type = UFS_REGULAR_FILE => inodes'[e].size = 0
          /\ inodes'[e].type = UFS_DIRECTORY =>
               \A s \in Slots, c \in Cells : Used(inodes'[e], blocks', s, c) =>
                 At(inodes'[e], blocks', s, c).name \notin Names
      BY <1>1, <2>2, CreatAllocatesEmpty
    <3>2. ASSUME inodes'[e].type = UFS_DIRECTORY
          PROVE  LinksHeld(blocks', inodes'[e], e) = {}
      <4> SUFFICES ASSUME NEW l \in LinksHeld(blocks', inodes'[e], e) PROVE FALSE
        OBVIOUS
      <4>1. \E s \in Slots, c \in Cells :
              /\ Used(inodes'[e], blocks', s, c) /\ At(inodes'[e], blocks', s, c).name \in Names
              /\ l = <<e, At(inodes'[e], blocks', s, c).name, At(inodes'[e], blocks', s, c).inum>>
        BY LinkHeldIs
      <4> QED BY <3>1, <3>2, <4>1
    <3>3. ~torn'
      BY <1>1, <2>2 DEF CreatAllocates, hist
    <3> QED BY <3>1, <3>2, <3>3 DEF BareNew
  <2>3. ASSUME NEW i \in Inums, NEW off \in Offsets, NEW n \in Counts,
               WriteBegin(i, off, n)
        PROVE  pc' # "link" /\ ~torn'
    BY <1>1, <2>3 DEF WriteBegin, hist
  <2>4. CASE Lookup \/ CreatRefused \/ WriteRefused \/ Read
    <3>1. ASSUME NEW op, NEW r, Answer(op, r) PROVE pc' # "link" /\ ~torn'
      BY <1>1, <3>1 DEF Answer, Return, Die, Death, hist
    <3>2. \/ UNCHANGED vars
          \/ \E op \in AllOps, r \in Int : Answer(op, r)
      BY <1>1, <2>4, RepliesAnswer, LinksStart
    <3>3. CASE \E op \in AllOps, r \in Int : Answer(op, r)
      BY <1>3, <3>1, <3>3 DEF GrowInv, BareNew
    <3> QED BY <1>4, <3>2, <3>3
  <2> QED BY <1>3, <1>5, <2>1, <2>2, <2>3, <2>4 DEF Grow, GrowInv, BareNew
<1>6. CASE Handler
  <2>1. pc' # "link"
    BY <1>6, ZenonT(40) DEF Handler, LinkFails, LinkInNewBlock, LinkInFreeEntry, WriteBlock,
                WriteFails, WriteEnd, CommitInodeBit, CommitInode, CommitData,
                CommitDone, Return, Die
  <2>2. ~torn'
    BY <1>1, <1>6 DEF Handler, LinkFails, LinkInNewBlock, LinkInFreeEntry, WriteBlock,
                WriteFails, WriteEnd, CommitInodeBit, CommitInode, CommitData,
                CommitDone, hist
  <2> QED BY <1>3, <2>1, <2>2, Zenon DEF GrowInv, BareNew
<1>7. CASE Restart
  <2>1. pc' = "idle" /\ ~torn'
    BY <1>1, <1>7 DEF Restart, MayDie
  <2> QED BY <1>3, <2>1 DEF GrowInv, BareNew
<1> QED BY <1>4, <1>5, <1>6, <1>7 DEF GrowNext

-----------------------------------------------------------------------------
(* The other steps as FileSystem sees them.                                *)

\* Trees stay where nothing of them changes.
LEMMA TreesStay ==
  ASSUME ShowsTrees, ShowsTrees', UNCHANGED <<inode_bp, inodes, blocks>>
  PROVE  /\ TreeBar' = TreeBar
         /\ pc \in Committing /\ pc' \in Committing => SavedBar' = SavedBar
         /\ /\ pc \notin Committing /\ pc' \notin Committing
            /\ UNCHANGED <<disk_inode_bp, disk_inodes>>
            => SavedBar' = SavedBar
<1>1. TreeBar' = TreeBar
  <2> DEFINE t == TreeBar
             u == TreeBar'
  <2>1. Stored(blocks, inode_bp, inodes, t) /\ Stored(blocks, inode_bp, inodes, u)
    BY DEF ShowsTrees
  <2> HIDE DEF t, u
  <2>2. u = t
    BY <2>1, StoredOnce
  <2> QED BY <2>2 DEF t, u
<1>2. ASSUME pc \notin Committing, pc' \notin Committing, UNCHANGED <<disk_inode_bp, disk_inodes>>
      PROVE  SavedBar' = SavedBar
  <2> DEFINE t == SavedBar
             u == SavedBar'
  <2>1. Stored(blocks, disk_inode_bp, disk_inodes, t) /\ Stored(blocks, disk_inode_bp, disk_inodes, u)
    BY <1>2 DEF ShowsTrees
  <2> HIDE DEF t, u
  <2>2. u = t
    BY <2>1, StoredOnce
  <2> QED BY <2>2 DEF t, u
<1>3. ASSUME pc \in Committing, pc' \in Committing PROVE SavedBar' = SavedBar
  BY <1>1, <1>3 DEF ShowsTrees
<1> QED BY <1>1, <1>2, <1>3

\* A call that answers at once, or a creat that has nothing to link.
LEMMA Answering ==
  ASSUME GrowInv, ShowsTrees, ShowsTrees', DirsStay, inode_bp \subseteq inode_bp',
         \A i \in inode_bp : inodes[i].type = UFS_REGULAR_FILE => inodes'[i].size = inodes[i].size,
         UNCHANGED <<disk_inode_bp, disk_inodes>>,
         pc \notin Committing \cup {"write"}, pc' \notin Committing \cup {"write"}, ~OkBar'
  PROVE  FS!Answer
<1>1. TreeBar' = TreeBar
  BY CoreKept DEF GrowInv
<1>2. SavedBar' = SavedBar
  BY ImageKept DEF GrowInv
<1>3. WritingBar = FS!NoWrite /\ WritingBar' = FS!NoWrite
  BY DEF ShowsTrees
<1> QED BY <1>1, <1>2, <1>3 DEF FS!Answer

LEMMA Replying ==
  ASSUME GrowInv, ShowsTrees, ShowsTrees', pc = "idle",
         NEW op \in AllOps, NEW r \in Int, r = -1 \/ Dies(r), Answer(op, r)
  PROVE  FS!Answer
<1>1. /\ UNCHANGED <<inode_bp, inodes, blocks, disk_inode_bp, disk_inodes>>
      /\ pc' \in Dead \/ (pc' = "idle" /\ last'.ret = -1)
  BY DEF Answer, Return, Die, Death, Dies, Dead, Exits, AssertFails, core, image
<1>2. ~OkBar' /\ pc' \notin Committing \cup {"write"}
  BY <1>1 DEF OkBar, Dead, Committing
<1>3. DirsStay
  BY <1>1 DEF DirsStay
<1> QED BY <1>1, <1>2, <1>3, Answering DEF Committing

LEMMA Creating ==
  ASSUME GrowInv, ShowsTrees, ShowsTrees', NEW p \in Inums, NEW n \in Names,
         NEW t \in {UFS_DIRECTORY, UFS_REGULAR_FILE},
         CreatFails(p, t, n) \/ CreatAllocates(p, t, n)
  PROVE  FS!Answer
<1>1. LinksInv /\ ~torn
  BY DEF GrowInv
<1>2. CASE CreatFails(p, t, n)
  <2> DEFINE e == FirstFree(inode_bp, 0, NumInodes)
  <2>1. e \in Inodes /\ e \notin inode_bp
    BY <1>2, FreeInode, CreatGoesOn DEF CreatFails
  <2>2. /\ inode_bp' = inode_bp \cup {e}
        /\ inodes' = [inodes EXCEPT ![e].type = t, ![e].direct = NoBlocks]
        /\ pc = "idle" /\ pc' = "idle" /\ last'.ret = -1
        /\ UNCHANGED <<disk_inode_bp, disk_inodes, blocks>>
    BY <1>2 DEF CreatFails, Idle, set_bitmap, Return, image
  <2> HIDE DEF e
  <2>3. \A i \in inode_bp : inodes'[i] = inodes[i]
    <3>1. inodes \in [Inodes -> Inode] /\ inode_bp \subseteq Inodes
      BY <1>1, LinksStart DEF TypeOK
    <3> QED BY <2>1, <2>2, <3>1
  <2>4. DirsStay
    BY <2>2, <2>3 DEF DirsStay
  <2>5. ~OkBar'
    BY <2>2 DEF OkBar
  <2> QED BY <2>2, <2>3, <2>4, <2>5, Answering DEF Committing
<1>3. CASE CreatAllocates(p, t, n)
  <2>1. /\ inode_bp \subseteq inode_bp' /\ pc = "idle" /\ pc' = "link"
        /\ UNCHANGED <<disk_inode_bp, disk_inodes>>
        /\ \A i \in inode_bp : inodes'[i] = inodes[i]
    BY <1>1, <1>3, CreatAllocatesEmpty
  <2>2. DirsStay
    BY <1>1, <1>3, CreatAllocatesData DEF LinksInv
  <2>3. ~OkBar'
    BY <2>1 DEF OkBar
  <2> QED BY <2>1, <2>2, <2>3, Answering DEF Committing
<1> QED BY <1>2, <1>3

LEMMA LinkingFails ==
  ASSUME GrowInv, ShowsTrees, ShowsTrees', LinkFails
  PROVE  FS!Answer
<1>1. /\ UNCHANGED <<inode_bp, inodes, blocks, disk_inode_bp, disk_inodes>>
      /\ pc = "link" /\ pc' = "idle" /\ last'.ret = -1
  BY DEF LinkFails, Return, image
<1>2. ~OkBar' /\ DirsStay
  BY <1>1 DEF OkBar, DirsStay
<1> QED BY <1>1, <1>2, Answering DEF Committing

LEMMA Writing ==
  ASSUME GrowInv, ShowsTrees, ShowsTrees', AppendOnly,
         NEW i \in Inums, NEW off \in Offsets, NEW n \in Counts, WriteBegin(i, off, n)
  PROVE  FS!BeginWrite \/ FS!Answer
<1>1. /\ UNCHANGED <<inode_bp, inodes, blocks, disk_inode_bp, disk_inodes>>
      /\ pc = "idle" /\ pc' = "write" /\ frame'.inum = i
      /\ i \in inode_bp /\ inodes[i].type = UFS_REGULAR_FILE
  BY DEF WriteBegin, WriteArgsRefused, Idle, NoFrame, image
<1>2. TreeBar' = TreeBar /\ SavedBar' = SavedBar /\ WritingBar = FS!NoWrite /\ ~OkBar'
  BY <1>1, TreesStay DEF ShowsTrees, OkBar, Committing
<1>3. WritingBar' = IF OnTree(TreeBar, i) THEN [file |-> i, left |-> frame'.left] ELSE FS!NoWrite
  BY <1>1, <1>2 DEF ShowsTrees
<1>4. CASE OnTree(TreeBar, i)
  <2>1. i # 0 /\ i \in DOMAIN TreeBar.files
    BY <1>1, <1>4, OnTreeIs DEF GrowInv
  <2>2. WritingBar' # FS!NoWrite /\ WritingBar'.file = i
    BY <1>3, <1>4, <2>1 DEF FS!NoWrite
  <2> QED BY <1>2, <2>1, <2>2 DEF FS!BeginWrite
<1>5. CASE ~OnTree(TreeBar, i)
  BY <1>2, <1>3, <1>5 DEF FS!Answer
<1> QED BY <1>4, <1>5

LEMMA WritingFails ==
  ASSUME GrowInv, ShowsTrees, ShowsTrees', AppendOnly, WriteFails
  PROVE  FS!WriteGivesUp \/ FS!Answer
<1> DEFINE i == frame.inum
<1>1. /\ UNCHANGED <<inode_bp, inodes, blocks, disk_inode_bp, disk_inodes>>
      /\ pc = "write" /\ pc' = "idle" /\ last'.ret = -1 /\ frame.left > 0
      /\ i \in inode_bp /\ inodes[i].type = UFS_REGULAR_FILE
  BY DEF WriteFails, Return, core, image, GrowInv, LinksInv, DataInv, DataOK, WriteState
<1>2. TreeBar' = TreeBar /\ SavedBar' = SavedBar /\ WritingBar' = FS!NoWrite /\ ~OkBar'
  BY <1>1, TreesStay DEF ShowsTrees, OkBar, Committing
<1>3. WritingBar = IF OnTree(TreeBar, i) THEN [file |-> i, left |-> frame.left] ELSE FS!NoWrite
  BY <1>1 DEF ShowsTrees
<1>4. CASE OnTree(TreeBar, i)
  <2>1. i # 0
    BY <1>1, <1>4, OnTreeIs DEF GrowInv
  <2>2. WritingBar # FS!NoWrite /\ WritingBar.left = frame.left
    BY <1>3, <1>4, <2>1 DEF FS!NoWrite
  <2> QED BY <1>1, <1>2, <2>2 DEF FS!WriteGivesUp
<1>5. CASE ~OnTree(TreeBar, i)
  BY <1>2, <1>3, <1>5 DEF FS!Answer
<1> QED BY <1>4, <1>5

LEMMA WritingEnds ==
  ASSUME GrowInv, ShowsTrees, ShowsTrees', AppendOnly, WriteEnd
  PROVE  FS!Save
<1> DEFINE i == frame.inum
           T == TreeBar
           k == inodes[i].size
<1>1. /\ UNCHANGED <<inode_bp, inodes, blocks, disk_inode_bp, disk_inodes>>
      /\ pc = "write" /\ pc' = "commit" /\ (frame.blk \notin Slots \/ frame.left = 0)
      /\ i \in inode_bp /\ inodes[i].type = UFS_REGULAR_FILE
      /\ frame.left > 0 => frame.blk * BlockSize + frame.off = k
      /\ LinksInv /\ ~torn /\ TypeOK
  BY LinksStart DEF WriteEnd, core, image, GrowInv, LinksInv, DataInv, DataOK, WriteState
<1>2. TreeBar' = TreeBar /\ SavedBar' = TreeBar' /\ WritingBar' = FS!NoWrite /\ ~OkBar'
  BY <1>1, TreesStay DEF ShowsTrees, OkBar, Committing
<1>3. WritingBar = IF OnTree(T, i) THEN [file |-> i, left |-> frame.left] ELSE FS!NoWrite
  BY <1>1 DEF ShowsTrees
<1>4. ASSUME WritingBar.left > 0 PROVE Len(TreeBar.files[WritingBar.file]) = Capacity
  <2>1. OnTree(T, i)
    BY <1>3, <1>4 DEF FS!NoWrite
  <2>2. k \in 0 .. Capacity /\ Len(T.files[i]) = k
    BY <1>1, <2>1, OnTreeIs
  <2>3. /\ WritingBar.file = i /\ WritingBar.left = frame.left
    BY <1>3, <2>1
  <2>4. k >= Capacity
    <3>1. frame.blk \in Nat /\ frame.off \in Nat /\ frame.blk \notin Slots
      <4>1. frame.blk \in Nat /\ frame.off \in Cells
        BY <1>1 DEF TypeOK
      <4> QED BY <1>1, <1>4, <2>3, <4>1, Sizes
    <3>2. frame.blk >= DirectPtrs
      BY <3>1, Sizes DEF Slots
    <3>3. frame.blk * BlockSize >= DirectPtrs * BlockSize
      <4> DEFINE d == frame.blk - DirectPtrs
      <4>1. d \in Nat /\ frame.blk = DirectPtrs + d
        BY <3>1, <3>2, Sizes
      <4> HIDE DEF d
      <4>2. frame.blk * BlockSize = DirectPtrs * BlockSize + d * BlockSize /\ d * BlockSize >= 0
        BY <4>1, Sizes
      <4> QED BY <4>1, <4>2, Sizes
    <3>4. k = frame.blk * BlockSize + frame.off
      BY <1>1, <1>4, <2>3
    <3> HIDE DEF k
    <3> QED BY <3>1, <3>3, <3>4, Sizes DEF Capacity
  <2>5. k = Capacity
    <3> HIDE DEF k
    <3> QED BY <2>2, <2>4, Sizes
  <2> QED BY <2>2, <2>3, <2>5
<1> QED BY <1>2, <1>4 DEF FS!Save

LEMMA CommittingTrees ==
  ASSUME GrowInv, ShowsTrees, ShowsTrees',
         CommitInodeBit \/ CommitInode \/ CommitData \/ CommitDone
  PROVE  FS!Succeed \/ FS!Answer
<1>1. LinksInv /\ ~torn /\ TypeOK
  BY LinksStart DEF GrowInv
<1>2. /\ UNCHANGED <<inode_bp, inodes, blocks>> /\ pc \in Committing
      /\ pc' \in Committing \cup {"idle"}
  BY DEF CommitInodeBit, CommitInode, CommitData, CommitDone, Return, core, image,
         Committing
<1>3. /\ TreeBar' = TreeBar /\ SavedBar = TreeBar
      /\ WritingBar = FS!NoWrite /\ WritingBar' = FS!NoWrite
  BY <1>2, TreesStay DEF ShowsTrees, Committing
<1>4. CASE CommitInodeBit \/ CommitInode \/ CommitData
  <2>1. pc' \in Committing
    BY <1>4 DEF CommitInodeBit, CommitInode, CommitData, Committing
  <2>2. ~OkBar' /\ SavedBar' = SavedBar
    BY <1>2, <2>1, TreesStay DEF OkBar, Committing
  <2> QED BY <1>3, <2>2 DEF FS!Answer
<1>5. CASE CommitDone
  <2>1. /\ UNCHANGED <<disk_inode_bp, disk_inodes>> /\ pc' = "idle"
        /\ dirty_inode_bp = {} /\ pc = "commit" /\ Coherent
    BY <1>1, <1>5 DEF CommitDone, Return, image, LinksInv, DataInv, OwnedInv, DurableInv
  <2>2. \A i \in Inodes : (i \in inode_bp <=> i \in disk_inode_bp) /\ inodes[i] = disk_inodes[i]
    BY <2>1 DEF Coherent, InodeClean
  <2>3. inode_bp = disk_inode_bp
    BY <1>1, <2>2 DEF TypeOK
  <2>4. inodes = disk_inodes
    <3>1. inodes \in [Inodes -> Inode] /\ disk_inodes \in [Inodes -> Inode]
      BY <1>1 DEF TypeOK
    <3> QED BY <2>2, <3>1
  <2> DEFINE t == TreeBar
             u == SavedBar'
  <2>5. Stored(blocks, inode_bp, inodes, t) /\ Stored(blocks, inode_bp, inodes, u)
    <3>1. Stored(blocks', disk_inode_bp', disk_inodes', SavedBar')
      BY <2>1 DEF ShowsTrees, Committing
    <3> QED BY <1>2, <2>1, <2>3, <2>4, <3>1 DEF ShowsTrees
  <2> HIDE DEF t, u
  <2>6. u = t
    BY <2>5, StoredOnce
  <2>7. SavedBar' = TreeBar
    BY <2>6 DEF t, u
  <2>8. CASE OkBar'
    BY <1>3, <2>7, <2>8 DEF FS!Succeed
  <2>9. CASE ~OkBar'
    BY <1>3, <2>7, <2>9 DEF FS!Answer
  <2> QED BY <2>8, <2>9
<1> QED BY <1>4, <1>5

LEMMA Restarting ==
  ASSUME GrowInv, ShowsTrees, ShowsTrees', CrashPoints # "any", Restart
  PROVE  FS!Restart
<1>1. /\ pc \in Dead \cup {"idle"} /\ pc' = "idle" /\ last'.op = "none"
      /\ inode_bp' = disk_inode_bp /\ inodes' = disk_inodes
      /\ UNCHANGED <<disk_inode_bp, disk_inodes, blocks>>
  BY DEF Restart, MayDie, image
<1> DEFINE s == SavedBar
           t == TreeBar'
           u == SavedBar'
<1>2. /\ Stored(blocks, disk_inode_bp, disk_inodes, s)
      /\ Stored(blocks, disk_inode_bp, disk_inodes, t)
      /\ Stored(blocks, disk_inode_bp, disk_inodes, u)
  BY <1>1 DEF ShowsTrees, Committing, Dead
<1> HIDE DEF s, t, u
<1>3. t = s /\ u = s
  BY <1>2, StoredOnce
<1>4. WritingBar = FS!NoWrite /\ WritingBar' = FS!NoWrite
  BY <1>1 DEF ShowsTrees, Dead
<1>5. ~OkBar'
  BY <1>1 DEF OkBar
<1> QED BY <1>3, <1>4, <1>5 DEF FS!Restart, s, t, u

LEMMA Resting ==
  ASSUME ShowsTrees, ShowsTrees', UNCHANGED vars
  PROVE  UNCHANGED FS!fsvars
<1>1. /\ UNCHANGED <<inode_bp, inodes, blocks, disk_inode_bp, disk_inodes>>
      /\ UNCHANGED <<pc, frame, last>>
  BY DEF vars
<1>2. TreeBar' = TreeBar /\ SavedBar' = SavedBar
  BY <1>1, TreesStay
<1>3. WritingBar' = WritingBar
  BY <1>1, <1>2 DEF ShowsTrees
<1>4. OkBar' = OkBar
  BY <1>1 DEF OkBar
<1> QED BY <1>2, <1>3, <1>4 DEF FS!fsvars

LEMMA GrowIsStep ==
  ASSUME "unlink" \notin Ops, CrashPoints # "any", AppendOnly,
         GrowInv, GrowInv', [GrowNext]_vars
  PROVE  [FS!Next]_(FS!fsvars)
<1>1. ShowsTrees
  BY AlwaysShowsTrees DEF GrowInv
<1>2. ShowsTrees'
  BY NextShowsTrees DEF GrowInv
<1>3. TypeOK /\ LinksInv /\ ~torn
  BY LinksStart DEF GrowInv
<1>4. CASE UNCHANGED vars
  BY <1>1, <1>2, <1>4, Resting
<1>5. CASE Grow
  <2>1. ASSUME NEW p \in Inums, NEW n \in Names,
               NEW t \in {UFS_DIRECTORY, UFS_REGULAR_FILE},
               CreatFails(p, t, n) \/ CreatAllocates(p, t, n)
        PROVE  FS!Next
    BY <1>1, <1>2, <2>1, Creating DEF FS!Next
  <2>2. ASSUME NEW i \in Inums, NEW off \in Offsets, NEW n \in Counts,
               WriteBegin(i, off, n)
        PROVE  FS!Next
    BY <1>1, <1>2, <2>2, Writing DEF FS!Next
  <2>3. CASE Lookup \/ CreatRefused \/ WriteRefused \/ Read
    <3>1. \/ UNCHANGED vars
          \/ /\ pc = "idle"
             /\ \E op \in AllOps, r \in Int : (r = -1 \/ Dies(r)) /\ Answer(op, r)
      BY <1>3, <2>3, RepliesAnswer
    <3>2. ASSUME NEW op \in AllOps, NEW r \in Int, r = -1 \/ Dies(r), Answer(op, r),
                 pc = "idle"
          PROVE  FS!Next
      BY <1>1, <1>2, <3>2, Replying DEF FS!Next
    <3> QED BY <1>4, <3>1, <3>2
  <2> QED BY <1>5, <2>1, <2>2, <2>3 DEF Grow
<1>6. CASE Handler
  <2>1. CASE LinkInNewBlock \/ LinkInFreeEntry
    <3>1. pc = "link" /\ \E t \in Slots, o \in Cells : LinkedAt(t, o)
      BY <1>3, <2>1, LinkInNewBlockData, LinkInFreeEntryData
         DEF LinksInv, LinkInNewBlock, LinkInFreeEntry
    <3> QED BY <1>1, <1>2, <3>1, Linking, ZenonT(40) DEF FS!Next
  <2>2. CASE LinkFails
    BY <1>1, <1>2, <2>2, LinkingFails DEF FS!Next
  <2>3. CASE WriteBlock
    BY <1>1, <1>2, <2>3, Appending DEF FS!Next
  <2>4. CASE WriteFails
    BY <1>1, <1>2, <2>4, WritingFails DEF FS!Next
  <2>5. CASE WriteEnd
    BY <1>1, <1>2, <2>5, WritingEnds DEF FS!Next
  <2>6. CASE CommitInodeBit \/ CommitInode \/ CommitData \/ CommitDone
    BY <1>1, <1>2, <2>6, CommittingTrees DEF FS!Next
  <2> QED BY <1>6, <2>1, <2>2, <2>3, <2>4, <2>5, <2>6 DEF Handler
<1>7. CASE Restart
  BY <1>1, <1>2, <1>7, Restarting DEF FS!Next
<1> QED BY <1>4, <1>5, <1>6, <1>7 DEF GrowNext

LEMMA GrowStarts ==
  ASSUME AppendOnly, Init
  PROVE  GrowInv /\ FS!Init
<1>1. LinksInv /\ ~torn /\ pc = "idle"
  BY InitLinks DEF Init
<1>2. GrowInv
  BY <1>1 DEF GrowInv, BareNew
<1>3. ShowsTrees
  BY <1>1, AlwaysShowsTrees
<1>4. /\ inode_bp = {0} /\ disk_inode_bp = {0} /\ inodes = disk_inodes
      /\ inodes[0] = RootInode /\ blocks[DataStart] = EmptyDir(0, 0)
  <2>1. PICK s \in [Inodes -> StaleInodes] : disk_inodes = [s EXCEPT ![0] = RootInode]
    BY DEF Init
  <2>2. disk_inodes[0] = RootInode
    BY <2>1, Addresses
  <2>3. blocks[DataStart] = EmptyDir(0, 0)
    BY RootInOrder DEF Init, MkfsBlocks
  <2> QED BY <2>2, <2>3 DEF Init, ufs_init
<1> DEFINE T == TreeBar
           S == SavedBar
<1>5. Stored(blocks, inode_bp, inodes, T) /\ Stored(blocks, inode_bp, inodes, S)
  BY <1>1, <1>3, <1>4 DEF ShowsTrees, Committing
<1>6. LinksHeld(blocks, inodes[0], 0) = {}
  <2> SUFFICES ASSUME NEW l \in LinksHeld(blocks, inodes[0], 0) PROVE FALSE
    OBVIOUS
  <2>1. PICK s \in Slots, c \in Cells :
          Used(inodes[0], blocks, s, c) /\ At(inodes[0], blocks, s, c).name \in Names
    BY LinkHeldIs
  <2>2. RootInode.direct[s] = DataStart
    BY <1>4, <2>1, RootInOrder DEF Used, NoBlocks
  <2>3. At(inodes[0], blocks, s, c) = EmptyDir(0, 0)[c]
    BY <1>4, <2>2 DEF At
  <2>4. EmptyDir(0, 0)[c].name \notin Names
    BY ClientAssumption DEF EmptyDir, Entry, FreeCell
  <2> QED BY <2>1, <2>3, <2>4
<1> HIDE DEF T, S
<1>7. T = FS!EmptyTree
  <2>1. PICK ds \in SUBSET Inodes :
          Reached(blocks, inode_bp, inodes, ds) /\ T = View(blocks, inode_bp, inodes, ds)
    BY <1>5 DEF Stored
  <2>2. ds = {0}
    BY <1>4, <2>1 DEF Reached, Heads
  <2>3. AllLinks(blocks, inodes, ds) = {}
    BY <1>6, <2>2 DEF AllLinks
  <2>4. FilesLed(inode_bp, inodes, AllLinks(blocks, inodes, ds)) = {}
    BY <2>3 DEF FilesLed
  <2>5. [i \in FilesLed(inode_bp, inodes, AllLinks(blocks, inodes, ds)) |->
           Written(i, inodes[i].size)] = <<>>
    BY <2>4
  <2> QED BY <2>1, <2>3, <2>5 DEF View, FS!EmptyTree
<1>8. S = FS!EmptyTree
  BY <1>5, <1>7, StoredOnce
<1>9. WritingBar = FS!NoWrite /\ OkBar = FALSE
  BY <1>1, <1>3 DEF ShowsTrees, OkBar, Init
<1> QED BY <1>2, <1>7, <1>8, <1>9 DEF FS!Init, T, S

\* Clients that do not unlink and only append see a file system, as FileSystem
\* says what that is, if the process ends between calls only: every bitmap
\* word, inode and block that a call writes, and whatever earlier calls that
\* failed left behind in core (ufs.c:302-309), is a part of one of its steps.
THEOREM GrowsAsFileSystem ==
  ASSUME "unlink" \notin Ops, CrashPoints # "any", AppendOnly
  PROVE  GrowSpec => Implements
<1>1. Init => GrowInv /\ FS!Init
  BY GrowStarts
<1>2. GrowInv /\ [GrowNext]_vars => GrowInv'
  BY GrowStep
<1>3. GrowInv /\ GrowInv' /\ [GrowNext]_vars => [FS!Next]_(FS!fsvars)
  BY GrowIsStep
<1> QED BY <1>1, <1>2, <1>3, PTL DEF GrowSpec, Implements, FS!Spec
=============================================================================
