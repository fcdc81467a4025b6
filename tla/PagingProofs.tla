---------------------------- MODULE PagingProofs ----------------------------
(* Proofs about Paging: types, exclusive ownership of frames, confinement of *)
(* the damage pfa_free does, and the identity mapping of all memory the      *)
(* kernel has handed out.                                                    *)
EXTENDS Paging, WellFoundedInduction, TLAPS

\* A nonempty set of naturals has a least element, which Min denotes.
LEMMA MinNat ==
  ASSUME NEW T \in SUBSET Nat, T # {}
  PROVE  Min(T) \in T /\ \A y \in T : Min(T) <= y
<1> DEFINE R == OpToRel(<, Nat)
<1>1. IsWellFoundedOn(R, Nat)
  BY NatLessThanWellFounded
<1>2. \A y, z \in Nat : <<y, z>> \in R <=> y < z
  BY DEF OpToRel
<1> HIDE DEF R
<1>3. PICK b \in T : \A c \in T : ~(<<c, b>> \in R)
  BY <1>1, WFMin
<1>4. ASSUME NEW y \in T PROVE b <= y
  <2>1. ~(y < b)
    BY <1>2, <1>3
  <2> QED BY <2>1
<1> QED BY <1>4 DEF Min

\* The search of first_frame returns a clear bit, or -1 when none is clear.
LEMMA FirstFrameIsClear ==
  ASSUME NEW b
  PROVE  \/ FirstFrame(b) = -1 /\ Frames \subseteq b
         \/ /\ FirstFrame(b) \in Frames \ b
            /\ \A f \in Frames \ b : FirstFrame(b) <= f
<1> DEFINE clear == Frames \ b
<1>1. CASE clear = {}
  BY <1>1 DEF FirstFrame
<1>2. CASE clear # {}
  <2>1. clear \in SUBSET Nat
    BY DEF Frames
  <2>2. Min(clear) \in clear /\ \A f \in clear : Min(clear) <= f
    BY <1>2, <2>1, MinNat
  <2> QED BY <1>2, <2>2 DEF FirstFrame
<1> QED BY <1>1, <1>2

\* Page counts are natural, grow with the address, and are exact at page starts.
LEMMA PageCount ==
  ASSUME NEW x \in Nat
  PROVE  /\ PagesUpTo(x) \in Nat
         /\ AlignUp(x) \in Nat /\ x <= AlignUp(x)
<1>1. PageSize \in Nat \ {0}
  BY SizesAssumption
<1> DEFINE y == x + PageSize - 1
<1>2. y \in Nat
  BY <1>1
<1>3. /\ y \div PageSize \in Nat /\ y % PageSize \in 0 .. PageSize - 1
      /\ y = PageSize * (y \div PageSize) + (y % PageSize)
  BY <1>1, <1>2
<1>4. PagesUpTo(x) \in Nat
  BY <1>3 DEF PagesUpTo
<1>5. AlignUp(x) = PageSize * (y \div PageSize)
  BY <1>1, <1>3 DEF AlignUp, PagesUpTo
<1>6. AlignUp(x) \in Nat
  BY <1>1, <1>3, <1>5
<1>7. x <= AlignUp(x)
  BY <1>1, <1>3, <1>5, <1>6
<1> QED BY <1>4, <1>6, <1>7

LEMMA PageCountGrows ==
  ASSUME NEW x \in Nat, NEW z \in Nat, x <= z
  PROVE  PagesUpTo(x) <= PagesUpTo(z)
<1>1. PageSize \in Nat \ {0}
  BY SizesAssumption
<1> DEFINE p == PagesUpTo(x)
           q == PagesUpTo(z)
           u == (x + PageSize - 1) % PageSize
           v == (z + PageSize - 1) % PageSize
<1>2. /\ p \in Nat /\ u \in 0 .. PageSize - 1
      /\ x + PageSize - 1 = PageSize * p + u
  BY <1>1 DEF PagesUpTo
<1>3. /\ q \in Nat /\ v \in 0 .. PageSize - 1
      /\ z + PageSize - 1 = PageSize * q + v
  BY <1>1 DEF PagesUpTo
<1>4. SUFFICES ASSUME p >= q + 1 PROVE FALSE
  BY <1>2, <1>3
<1> HIDE DEF p, q, u, v
<1>5. PageSize * p >= PageSize * (q + 1)
  BY <1>1, <1>2, <1>3, <1>4
<1>6. PageSize * (q + 1) = PageSize * q + PageSize
  BY <1>1, <1>3
<1>7. PageSize * p \in Nat /\ PageSize * q \in Nat
  BY <1>1, <1>2, <1>3
<1> QED BY <1>1, <1>2, <1>3, <1>5, <1>6, <1>7

LEMMA PageCountExact ==
  ASSUME NEW k \in Nat
  PROVE  PagesUpTo(k * PageSize) = k
<1>1. PageSize \in Nat \ {0}
  BY SizesAssumption
<1> DEFINE x == k * PageSize + PageSize - 1
<1>2. x \in Nat /\ k * PageSize \in Nat
  BY <1>1
<1>3. /\ x \div PageSize \in Nat /\ x % PageSize \in 0 .. PageSize - 1
      /\ x = PageSize * (x \div PageSize) + (x % PageSize)
  BY <1>1, <1>2
<1> DEFINE q == x \div PageSize
<1> HIDE DEF q
<1>3a. /\ q \in Nat /\ x % PageSize \in 0 .. PageSize - 1
       /\ x = PageSize * q + (x % PageSize)
  BY <1>3 DEF q
<1>4. ASSUME q >= k + 1 PROVE FALSE
  <2>1. PageSize * q >= PageSize * (k + 1) /\ PageSize * (k + 1) = k * PageSize + PageSize
    BY <1>4, <1>1, <1>3a
  <2> QED BY <2>1, <1>1, <1>2, <1>3a
<1>5. ASSUME q + 1 <= k PROVE FALSE
  <2>1. PageSize * (q + 1) <= PageSize * k /\ PageSize * (q + 1) = PageSize * q + PageSize
    BY <1>5, <1>1, <1>3a
  <2> QED BY <2>1, <1>1, <1>2, <1>3a
<1>6. q = k
  BY <1>3a, <1>4, <1>5
<1> QED BY <1>6 DEF q, PagesUpTo

LEMMA WordsNat == Words \in Nat /\ Frames \subseteq Nat
<1>1. Words \in Nat
  BY SizesAssumption DEF Words
<1> QED BY <1>1 DEF Frames

-----------------------------------------------------------------------------
(* Types.                                                                  *)

\* pfa_alloc, when it does not abort, gives a page that has no frame a clear
\* one, and marks it.
LEMMA Allocates ==
  ASSUME NEW p \in Nat, TypeOK, pfa_alloc(p), ~OutOfFrames(p)
  PROVE  \/ Present(p) /\ UNCHANGED <<frames, ptes>>
         \/ \E f \in Frames \ frames :
              /\ ~Present(p) /\ f = FirstFrame(frames)
              /\ \A g \in Frames \ frames : f <= g
              /\ frames' = frames \cup {f} /\ ptes' = ptes \cup {<<p, f>>}
<1>1. CASE Present(p)
  BY <1>1 DEF pfa_alloc
<1>2. CASE ~Present(p)
  <2>1. FirstFrame(frames) \in Frames \ frames
        /\ \A g \in Frames \ frames : FirstFrame(frames) <= g
    BY <1>2, FirstFrameIsClear DEF OutOfFrames
  <2> QED BY <1>2, <2>1 DEF pfa_alloc, set_frame
<1> QED BY <1>1, <1>2

LEMMA InitType == Init => TypeOK
<1> SUFFICES ASSUME Init PROVE TypeOK
  OBVIOUS
<1>1. /\ free_addr \in Nat /\ at \in Nat /\ end \in Nat
      /\ pc \in Dead \cup {"boot", "map", "idle", "malloc"}
  BY SizesAssumption DEF Init
<1>2. frames = {} /\ tables = {} /\ ptes = {} /\ heap = {}
  BY DEF Init
<1>3. garbage \in Garbage /\ freed \in BOOLEAN
  BY DEF Init
<1> QED BY <1>1, <1>2, <1>3 DEF TypeOK

LEMMA TypeStep == TypeOK /\ [Next]_vars => TypeOK'
<1> SUFFICES ASSUME TypeOK, [Next]_vars PROVE TypeOK'
  OBVIOUS
<1> USE DEF TypeOK, Dead
<1>0. PageSize \in Nat \ {0} /\ TableEntries \in Nat \ {0} /\ Words \in Nat
  BY SizesAssumption, WordsNat
<1>1. ASSUME NEW p \in Nat
      PROVE  TablesWith(p) \subseteq Nat /\ AlignUp(free_addr) + PageSize \in Nat
  <2>1. p \div TableEntries \in Nat
    BY <1>0
  <2>2. AlignUp(free_addr) \in Nat
    BY PageCount
  <2>3. AlignUp(free_addr) + PageSize \in Nat
    BY <1>0, <2>2
  <2>4. TablesWith(p) \subseteq Nat
    BY <2>1 DEF TablesWith
  <2> QED BY <2>3, <2>4
<1>2. CASE InitFrames
  <2>1. AlignUp(free_addr + FramesSize) \in Nat
    BY <1>0, PageCount DEF FramesSize
  <2>2. frames' \subseteq Frames
    BY <1>2, GarbageAssumption DEF InitFrames
  <2> QED BY <1>2, <2>1, <2>2, SizesAssumption DEF InitFrames
<1>3. CASE MapPage
  <2>1. tables' \subseteq Nat /\ free_addr' \in Nat
    BY <1>1, <1>3 DEF MapPage
  <2>2. CASE OutOfFrames(at)
    BY <1>3, <2>1, <2>2 DEF MapPage
  <2>3. CASE ~OutOfFrames(at)
    <3>1. pfa_alloc(at) /\ at' = at + 1 /\ UNCHANGED <<pc, end, garbage, heap, freed>>
      BY <1>3, <2>3 DEF MapPage
    <3> QED BY <2>1, <2>3, <3>1, Allocates
  <2> QED BY <2>2, <2>3
<1>4. CASE EnablePaging
  BY <1>4 DEF EnablePaging
<1>5. CASE MallocPage
  <2>1. CASE OutOfFrames(at)
    BY <1>5, <2>1 DEF MallocPage
  <2>2. CASE ~OutOfFrames(at)
    <3>1. /\ pfa_alloc(at) /\ at' = at + 1 /\ heap' = heap \cup {at}
          /\ UNCHANGED <<pc, free_addr, tables, end, garbage, freed>>
      BY <1>5, <2>2 DEF MallocPage
    <3> QED BY <2>2, <3>1, Allocates
  <2> QED BY <2>1, <2>2
<1>6. CASE MallocTable
  BY <1>1, <1>6 DEF MallocTable
<1>7. CASE MallocReturn
  BY <1>7 DEF MallocReturn
<1>8. ASSUME NEW size \in Sizes, Malloc(size) PROVE TypeOK'
  <2>1. AlignUp(free_addr) \in Nat /\ size \in Nat
    BY PageCount, SizesAssumption
  <2>2. free_addr' \in Nat
    BY <1>8, <2>1 DEF Malloc
  <2>3. at' \in Nat /\ end' \in Nat
    BY <1>8, <2>2, PageCount DEF Malloc
  <2> QED BY <1>8, <2>2, <2>3 DEF Malloc
<1>9. ASSUME NEW e \in ptes, Free(e) PROVE TypeOK'
  BY <1>9 DEF Free, clear_frame
<1>10. CASE UNCHANGED vars
  BY <1>10 DEF vars
<1> QED BY <1>2, <1>3, <1>4, <1>5, <1>6, <1>7, <1>8, <1>9, <1>10 DEF Next, Step

\* Every variable keeps its type, whatever the sizes, the modules and the
\* uncleared part of frames[].
THEOREM TypeCorrect == Spec => []TypeOK
BY InitType, TypeStep, PTL DEF Spec

-----------------------------------------------------------------------------
(* Ownership of frames.                                                    *)

\* What has been freed once stays freed.
LEMMA NotFreed ==
  ASSUME TypeOK, [Next]_vars, ~freed'
  PROVE  /\ ~freed /\ garbage' = garbage
         /\ \A e \in ptes : ~Free(e)
BY DEF Next, Step, InitFrames, MapPage, EnablePaging, MallocPage, MallocTable,
       MallocReturn, Malloc, Free, vars, TypeOK

LEMMA OwnedStep ==
  ASSUME TypeOK, Exclusive, pc = "boot" => ptes = {}, [Next]_vars, ~freed'
  PROVE  Exclusive' /\ (pc = "boot" => ptes = {})'
<1>1. ASSUME NEW p \in Nat, pfa_alloc(p), ~OutOfFrames(p) PROVE Exclusive'
  <2>1. CASE UNCHANGED <<frames, ptes>>
    BY <2>1 DEF Exclusive
  <2>2. CASE \E f \in Frames \ frames :
               frames' = frames \cup {f} /\ ptes' = ptes \cup {<<p, f>>}
    BY <2>2 DEF Exclusive
  <2> QED BY <1>1, <2>1, <2>2, Allocates
<1>2. CASE InitFrames
  BY <1>2 DEF InitFrames, Exclusive
<1>3. CASE MapPage
  <2>1. CASE OutOfFrames(at)
    BY <1>3, <2>1 DEF MapPage, Exclusive
  <2>2. CASE ~OutOfFrames(at)
    BY <1>1, <1>3, <2>2 DEF MapPage, TypeOK
  <2> QED BY <1>3, <2>1, <2>2 DEF MapPage
<1>4. CASE EnablePaging
  BY <1>4 DEF EnablePaging, Exclusive
<1>5. CASE MallocPage
  <2>1. CASE OutOfFrames(at)
    BY <1>5, <2>1 DEF MallocPage, Exclusive
  <2>2. CASE ~OutOfFrames(at)
    BY <1>1, <1>5, <2>2 DEF MallocPage, TypeOK
  <2> QED BY <1>5, <2>1, <2>2 DEF MallocPage
<1>6. CASE MallocTable
  BY <1>6 DEF MallocTable, Exclusive
<1>7. CASE MallocReturn
  BY <1>7 DEF MallocReturn, Exclusive
<1>8. ASSUME NEW size \in Sizes, Malloc(size)
      PROVE  Exclusive' /\ (pc = "boot" => ptes = {})'
  BY <1>8 DEF Malloc, Exclusive
<1>9. ASSUME NEW e \in ptes, Free(e) PROVE FALSE
  BY <1>9, NotFreed
<1>10. CASE UNCHANGED vars
  BY <1>10 DEF vars, Exclusive
<1>11. pc' = "boot" => pc = "boot" /\ UNCHANGED <<ptes>>
  BY DEF Next, Step, InitFrames, MapPage, EnablePaging, MallocPage, MallocTable,
         MallocReturn, Malloc, Free, vars
<1> QED BY <1>2, <1>3, <1>4, <1>5, <1>6, <1>7, <1>8, <1>9, <1>10, <1>11 DEF Next, Step

\* As long as nothing is freed, a frame in use is marked and belongs to one
\* page, for any memory size, any module and any uncleared bits of frames[].
THEOREM FramesNeverShared == Spec => []FramesOwned
<1> DEFINE Inv == ~freed => Exclusive /\ (pc = "boot" => ptes = {})
<1>1. Init => Inv
  BY DEF Init, Exclusive
<1>2. TypeOK /\ Inv /\ [Next]_vars => Inv'
  BY OwnedStep, NotFreed
<1>3. Inv => FramesOwned
  BY DEF FramesOwned
<1> HIDE DEF Inv
<1> QED BY <1>1, <1>2, <1>3, TypeCorrect, PTL DEF Spec

-----------------------------------------------------------------------------
(* The identity mapping.                                                   *)

\* The loops of init_paging and malloc walk up one page after the other, and
\* the first clear frame is always the next page.  How far they have come:
Reached ==
  CASE pc = "map"                    -> at
    [] pc = "idle"                   -> PagesUpTo(free_addr)
    [] pc = "malloc"                 -> at
    [] OTHER                         -> 0

\* It is inductive: all below is mapped to itself, and the loops end where
\* free_addr does.
DenseInv ==
  /\ pc \in {"map", "idle", "malloc"} => MappedTo(Reached)
  /\ pc = "map" => at <= PagesUpTo(free_addr)
  /\ pc = "malloc" => end = PagesUpTo(free_addr) /\ at <= end

\* When pages and frames are in use up to n, pfa_alloc on page n extends both.
LEMMA DenseAlloc ==
  ASSUME NEW STATE n, n \in Nat, TypeOK, MappedTo(n), pfa_alloc(n), ~OutOfFrames(n)
  PROVE  ptes' = {<<p, p>> : p \in 0 .. (n + 1) - 1} /\ frames' = 0 .. (n + 1) - 1
<1>1. ~Present(n)
  BY DEF Present, MappedTo
<1>2. PICK f \in Frames \ frames :
        /\ \A g \in Frames \ frames : f <= g
        /\ frames' = frames \cup {f} /\ ptes' = ptes \cup {<<n, f>>}
  BY <1>1, Allocates
<1>3. f = n
  <2>1. Words \in Nat /\ f \in Nat /\ f >= n
    BY <1>2, WordsNat DEF MappedTo
  <2>2. f \in 0 .. Words * WordBits - 1
    BY DEF Frames
  <2>3. Words * WordBits \in Int
    BY <2>1, SizesAssumption
  <2>4. n \in Frames
    BY <2>1, <2>2, <2>3 DEF Frames
  <2>5. n \notin frames
    BY DEF MappedTo
  <2> QED BY <1>2, <2>1, <2>4, <2>5
<1>4. frames' = 0 .. (n + 1) - 1
  BY <1>2, <1>3 DEF MappedTo
<1>5. ptes' = {<<p, p>> : p \in 0 .. (n + 1) - 1}
  <2>1. 0 .. (n + 1) - 1 = (0 .. n - 1) \cup {n}
    OBVIOUS
  <2> QED BY <1>2, <1>3, <2>1 DEF MappedTo
<1> QED BY <1>4, <1>5

LEMMA DenseStep ==
  ASSUME TypeOK, DenseInv, pc = "boot" => ptes = {}, [Next]_vars,
         garbage = {}, ~freed'
  PROVE  DenseInv' /\ (pc = "boot" => ptes = {})'
<1>0. free_addr \in Nat /\ at \in Nat /\ end \in Nat /\ PageSize \in Nat
      /\ PagesUpTo(free_addr) \in Nat
      /\ AlignUp(free_addr) \in Nat /\ free_addr <= AlignUp(free_addr)
  BY PageCount, SizesAssumption DEF TypeOK
<1>1. CASE InitFrames
  <2>1. ptes' = {} /\ frames' = {} /\ pc' = "map" /\ at' = 0 /\ free_addr' \in Nat
    BY <1>1, TypeStep DEF InitFrames, TypeOK
  <2>2. PagesUpTo(free_addr') \in Nat
    BY <2>1, PageCount
  <2>3. MappedTo(0)'
    BY <2>1 DEF MappedTo
  <2> QED BY <2>1, <2>2, <2>3 DEF DenseInv, Reached
<1>2. CASE MapPage
  <2>1. pc = "map" /\ MappedTo(at) /\ at < PagesUpTo(free_addr)
    BY <1>2 DEF MapPage, MapLimit, DenseInv, Reached
  <2>2. CASE OutOfFrames(at)
    BY <1>2, <2>2 DEF MapPage, DenseInv
  <2>3. CASE ~OutOfFrames(at)
    <3>1. pc' = "map" /\ at' = at + 1 /\ pfa_alloc(at)
      BY <1>2, <2>1, <2>3 DEF MapPage
    <3>2. ptes' = {<<p, p>> : p \in 0 .. (at + 1) - 1} /\ frames' = 0 .. (at + 1) - 1
      BY <1>0, <2>1, <2>3, <3>1, DenseAlloc
    <3>3. MappedTo(at)'
      BY <3>1, <3>2 DEF MappedTo
    <3>4. free_addr' \in Nat /\ free_addr <= free_addr'
      BY <1>0, <1>2 DEF MapPage
    <3>5. PagesUpTo(free_addr) <= PagesUpTo(free_addr') /\ PagesUpTo(free_addr') \in Nat
      BY <1>0, <3>4, PageCount, PageCountGrows
    <3>6. at' <= PagesUpTo(free_addr')
      BY <1>0, <2>1, <3>1, <3>5
    <3> QED BY <3>1, <3>3, <3>6 DEF DenseInv, Reached
  <2> QED BY <2>2, <2>3
<1>3. CASE EnablePaging
  <2>1. pc = "map" /\ MappedTo(at) /\ at = PagesUpTo(free_addr)
    BY <1>0, <1>3 DEF EnablePaging, MapLimit, DenseInv, Reached
  <2>2. MappedTo(PagesUpTo(free_addr))'
    BY <1>3, <2>1 DEF EnablePaging, MappedTo
  <2> QED BY <1>3, <2>2 DEF EnablePaging, DenseInv, Reached
<1>4. CASE MallocPage
  <2>1. pc = "malloc" /\ MappedTo(at) /\ at < end /\ end = PagesUpTo(free_addr)
    BY <1>4 DEF MallocPage, DenseInv, Reached
  <2>2. CASE OutOfFrames(at)
    BY <1>4, <2>2 DEF MallocPage, DenseInv
  <2>3. CASE ~OutOfFrames(at)
    <3>1. /\ pc' = "malloc" /\ at' = at + 1 /\ pfa_alloc(at)
          /\ UNCHANGED <<free_addr, end>>
      BY <1>4, <2>1, <2>3 DEF MallocPage
    <3>2. ptes' = {<<p, p>> : p \in 0 .. (at + 1) - 1} /\ frames' = 0 .. (at + 1) - 1
      BY <1>0, <2>1, <2>3, <3>1, DenseAlloc
    <3>3. MappedTo(at)'
      BY <3>1, <3>2 DEF MappedTo
    <3> QED BY <1>0, <2>1, <3>1, <3>3 DEF DenseInv, Reached
  <2> QED BY <2>2, <2>3
<1>5. CASE MallocTable
  <2>1. MappedTo(at) /\ at < end /\ end = PagesUpTo(free_addr)
    BY <1>5 DEF MallocTable, DenseInv, Reached
  <2>2. ~Present(PagesUpTo(free_addr))
    BY <1>0, <2>1 DEF Present, MappedTo
  <2>3. pc' = "fault"
    BY <1>5, <2>2 DEF MallocTable
  <2> QED BY <2>3 DEF DenseInv
<1>6. CASE MallocReturn
  <2>1. MappedTo(at) /\ at = PagesUpTo(free_addr)
    BY <1>0, <1>6 DEF MallocReturn, DenseInv, Reached
  <2>2. MappedTo(PagesUpTo(free_addr))'
    BY <1>6, <2>1 DEF MallocReturn, MappedTo
  <2> QED BY <1>6, <2>2 DEF MallocReturn, DenseInv, Reached
<1>7. ASSUME NEW size \in Sizes, Malloc(size)
      PROVE  DenseInv' /\ (pc = "boot" => ptes = {})'
  <2>1. /\ pc = "idle" /\ pc' = "malloc" /\ at' = PagesUpTo(free_addr)
        /\ free_addr' = AlignUp(free_addr) + size /\ end' = PagesUpTo(free_addr')
        /\ UNCHANGED <<ptes, frames>>
    BY <1>7 DEF Malloc
  <2>2. MappedTo(PagesUpTo(free_addr))
    BY <2>1 DEF DenseInv, Reached
  <2>3. MappedTo(at)'
    BY <2>1, <2>2 DEF MappedTo
  <2>4. size \in Nat /\ free_addr' \in Nat /\ AlignUp(free_addr) <= free_addr'
    BY <1>0, <2>1, SizesAssumption
  <2>5. PagesUpTo(AlignUp(free_addr)) = PagesUpTo(free_addr)
    BY <1>0, PageCountExact DEF AlignUp
  <2>6. at' <= end'
    BY <1>0, <2>1, <2>4, <2>5, PageCountGrows
  <2> QED BY <2>1, <2>3, <2>6 DEF DenseInv, Reached
<1>8. ASSUME NEW e \in ptes, Free(e) PROVE FALSE
  BY <1>8, NotFreed
<1>9. CASE UNCHANGED vars
  BY <1>9 DEF vars, DenseInv, Reached, MappedTo
<1>10. pc' = "boot" => pc = "boot" /\ UNCHANGED <<ptes>>
  BY DEF Next, Step, InitFrames, MapPage, EnablePaging, MallocPage, MallocTable,
         MallocReturn, Malloc, Free, vars
<1> QED BY <1>1, <1>2, <1>3, <1>4, <1>5, <1>6, <1>7, <1>8, <1>9, <1>10 DEF Next, Step

\* When the memory frames[] lies in happens to be zero, and until something is
\* freed, all memory ever handed out is mapped to itself whenever malloc may be
\* called.
THEOREM MemoryStaysMapped == Spec => []KernelMapped
<1> DEFINE Inv == garbage = {} /\ ~freed => DenseInv /\ (pc = "boot" => ptes = {})
<1>1. Init => Inv
  BY DEF Init, DenseInv
<1>2. TypeOK /\ Inv /\ [Next]_vars => Inv'
  BY DenseStep, NotFreed
<1>3. Inv => KernelMapped
  BY DEF DenseInv, KernelMapped, Reached
<1> HIDE DEF Inv
<1> QED BY <1>1, <1>2, <1>3, TypeCorrect, PTL DEF Spec

-----------------------------------------------------------------------------
(* What pfa_free can damage.                                               *)

\* A frame in use is marked, except perhaps frame 0.
MarkedButZero == \A e \in ptes : e[2] \in frames \/ e[2] = 0

ConfinedInv ==
  SharedOnlyFrameZero /\ MarkedButZero /\ (pc = "boot" => ptes = {})

\* A frame number divided by the page size is 0, so that is the bit it clears.
LEMMA FreeClearsZero ==
  ASSUME NFrames <= PageSize, NEW f \in Frames
  PROVE  f \div PageSize = 0
<1>1. PageSize \in Nat \ {0} /\ NFrames \in Nat /\ WordBits \in Nat \ {0}
  BY SizesAssumption
<1>2. /\ Words \in Nat /\ NFrames % WordBits \in 0 .. WordBits - 1
      /\ NFrames = WordBits * Words + (NFrames % WordBits)
  BY <1>1 DEF Words
<1>3. Words * WordBits <= NFrames /\ Words * WordBits \in Nat
  BY <1>1, <1>2
<1>4. f \in Nat /\ f < PageSize
  BY <1>1, <1>3 DEF Frames
<1> QED BY <1>1, <1>4

LEMMA ConfinedStep ==
  ASSUME NFrames <= PageSize
  PROVE  TypeOK /\ ConfinedInv /\ [Next]_vars => ConfinedInv'
<1> SUFFICES ASSUME TypeOK, ConfinedInv, [Next]_vars PROVE ConfinedInv'
  OBVIOUS
<1> DEFINE Kept == SharedOnlyFrameZero' /\ MarkedButZero'
<1>1. ASSUME UNCHANGED <<frames, ptes>> PROVE Kept
  BY <1>1 DEF ConfinedInv, SharedOnlyFrameZero, MarkedButZero
<1>2. ASSUME NEW STATE p, p \in Nat, pfa_alloc(p), ~OutOfFrames(p) PROVE Kept
  <2>1. CASE \E f \in Frames \ frames :
               frames' = frames \cup {f} /\ ptes' = ptes \cup {<<p, f>>}
    BY <2>1 DEF ConfinedInv, SharedOnlyFrameZero, MarkedButZero
  <2> QED BY <1>1, <1>2, <2>1, Allocates
<1>3. CASE InitFrames
  BY <1>3 DEF InitFrames, ConfinedInv, SharedOnlyFrameZero, MarkedButZero
<1>4. MapPage => Kept
  BY <1>1, <1>2 DEF MapPage, TypeOK
<1>5. MallocPage => Kept
  BY <1>1, <1>2 DEF MallocPage, TypeOK
<1>6. ASSUME NEW e \in ptes, Free(e) PROVE Kept
  <2>1. e[2] \in Frames
    BY DEF TypeOK
  <2>2. ptes' = ptes \ {e} /\ frames' = frames \ {0}
    BY <1>6, <2>1, FreeClearsZero DEF Free, clear_frame
  <2> QED BY <2>2 DEF ConfinedInv, SharedOnlyFrameZero, MarkedButZero
<1>7. EnablePaging \/ MallocTable \/ MallocReturn \/ UNCHANGED vars
      \/ (\E size \in Sizes : Malloc(size)) => Kept
  BY <1>1 DEF EnablePaging, MallocTable, MallocReturn, Malloc, vars
<1>8. pc' = "boot" => pc = "boot" /\ UNCHANGED <<ptes>>
  BY DEF Next, Step, InitFrames, MapPage, EnablePaging, MallocPage, MallocTable,
         MallocReturn, Malloc, Free, vars
<1>9. ~InitFrames => Kept
  BY <1>4, <1>5, <1>6, <1>7 DEF Next, Step
<1>10. CASE ~InitFrames
  BY <1>8, <1>9, <1>10 DEF ConfinedInv
<1>11. InitFrames => pc' = "map"
  BY DEF InitFrames
<1> QED BY <1>3, <1>10, <1>11 DEF ConfinedInv

\* pfa_free marks the wrong frame free.  As there are no more frames than a
\* page has bytes (4096 of each), that is always frame 0, and no other frame is
\* ever given to two pages.
THEOREM DamageConfined ==
  ASSUME NFrames <= PageSize
  PROVE  Spec => []SharedOnlyFrameZero
<1>1. Init => ConfinedInv
  BY DEF Init, ConfinedInv, SharedOnlyFrameZero, MarkedButZero
<1>2. TypeOK /\ ConfinedInv /\ [Next]_vars => ConfinedInv'
  BY ConfinedStep
<1>3. ConfinedInv => SharedOnlyFrameZero
  BY DEF ConfinedInv
<1> QED BY <1>1, <1>2, <1>3, TypeCorrect, PTL DEF Spec
=============================================================================
