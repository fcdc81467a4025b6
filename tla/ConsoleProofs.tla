--------------------------- MODULE ConsoleProofs ---------------------------
(***************************************************************************)
(* Proofs about the terminal of Console, for every width and height and    *)
(* every sequence of texts and numbers: between two characters the screen  *)
(* is the page, and a handler's message stands on it wherever the handler  *)
(* interrupted terminal_putchar.                                           *)
(*                                                                         *)
(* Both follow from one invariant about a text of which the first n        *)
(* characters have been displayed: kernel_main's page with what is still   *)
(* to come, or the handler's message behind the mark where it began.       *)
(*                                                                         *)
(* Then about numbers: what Reliable asks for is enough for printf to show *)
(* what C does.  A buffer is String of the text it holds; each of          *)
(* AppendTo, strcat and strcpy then makes String of another text.          *)
(***************************************************************************)
EXTENDS Console, SequenceTheorems, FiniteSetTheorems, WellFoundedInduction, TLAPS

-----------------------------------------------------------------------------
(* Where characters stand.                                                 *)

\* What every dimension of the screen is.
LEMMA Sizes == Width \in Nat /\ Height \in Nat /\ Width > 0 /\ Height > 0
  BY ConsoleAssumption

\* A nonempty set of naturals has a least element, which Min denotes.
LEMMA MinNat ==
  ASSUME NEW T \in SUBSET Nat, T # {}
  PROVE  Min(T) \in T /\ \A y \in T : Min(T) <= y
<1> DEFINE R == OpToRel(<, Nat)
<1>1. IsWellFoundedOn(R, Nat)
  BY NatLessThanWellFounded
<1>2. \A y, z \in Nat : <<y, z>> \in R <=> y < z
  BY DEF OpToRel
<1> HIDE DEF R
<1>3. PICK b \in T : \A c \in T : ~(<<c, b>> \in R)
  BY <1>1, WFMin
<1>4. ASSUME NEW y \in T PROVE b <= y
  <2>1. ~(y < b)
    BY <1>2, <1>3
  <2> QED BY <2>1
<1> QED BY <1>4 DEF Min

\* The last newline before a character, or 0 on the first line.
LEMMA LineStartOf ==
  ASSUME NEW t, NEW k \in Nat, k > 0
  PROVE  /\ LineStart(t, k) \in 0 .. k - 1
         /\ \A j \in Breaks(t, k) : j <= LineStart(t, k)
         /\ LineStart(t, k) \in {0} \cup Breaks(t, k)
<1> DEFINE S == {0} \cup Breaks(t, k)
           T == {k - x : x \in S}
<1>1. S \subseteq 0 .. k - 1
  BY DEF Breaks
<1>2. T \in SUBSET Nat /\ T # {}
  BY <1>1
<1>3. Min(T) \in T /\ \A y \in T : Min(T) <= y
  <2> HIDE DEF T
  <2> QED BY <1>2, MinNat
<1>4. PICK x \in S : Min(T) = k - x
  BY <1>3
<1>5. \A y \in S : x >= y
  <2>1. ASSUME NEW y \in S PROVE x >= y
    <3>1. k - y \in T
      OBVIOUS
    <3>2. k - x <= k - y
      BY <1>3, <1>4, <3>1
    <3> QED BY <1>1, <3>2
  <2> QED BY <2>1
<1>6. \E z \in S : \A y \in S : z >= y
  BY <1>5
<1>7. Max(S) \in S /\ \A y \in S : Max(S) >= y
  <2> HIDE DEF S
  <2> QED BY <1>6 DEF Max
<1>8. LineStart(t, k) = Max(S)
  BY DEF LineStart
<1> HIDE DEF S
<1>9. LineStart(t, k) \in 0 .. k - 1 /\ \A y \in S : LineStart(t, k) >= y
  BY <1>1, <1>7, <1>8
<1>10. \A j \in Breaks(t, k) : j \in S /\ j \in Int
  BY <1>1 DEF S
<1> QED BY <1>7, <1>8, <1>9, <1>10 DEF S

\* Offsets and rows are naturals.
LEMMA PlaceTyped ==
  ASSUME NEW t, NEW k \in Nat, k > 0
  PROVE  /\ Offset(t, k) \in Nat /\ Offset(t, k) % Width \in 0 .. Width - 1
         /\ IsFiniteSet(RowEnds(t, k)) /\ RowOf(t, k) \in Nat
<1>1. Offset(t, k) \in Nat
  BY LineStartOf DEF Offset
<1>2. Offset(t, k) % Width \in 0 .. Width - 1
  BY <1>1, Sizes
<1>3. IsFiniteSet(RowEnds(t, k))
  <2>1. IsFiniteSet(1 .. k - 1)
    BY FS_Interval
  <2> QED BY <2>1, FS_Subset DEF RowEnds
<1> QED BY <1>1, <1>2, <1>3, FS_CardinalityType DEF RowOf

\* The place after the end of a text's beginning depends on that beginning only.
LEMMA SameBeginning ==
  ASSUME NEW t, NEW u, NEW n \in Nat, \A j \in 1 .. n : t[j] = u[j],
         NEW k \in 1 .. n + 1
  PROVE  Place(t, k) = Place(u, k) /\ RowOf(t, k) = RowOf(u, k) /\ Offset(t, k) = Offset(u, k)
<1>1. ASSUME NEW i \in 1 .. n + 1 PROVE Offset(t, i) = Offset(u, i)
  <2>1. Breaks(t, i) = Breaks(u, i)
    BY DEF Breaks
  <2> QED BY <2>1 DEF Offset, LineStart
<1>2. RowEnds(t, k) = RowEnds(u, k)
  <2>1. \A j \in 1 .. k - 1 : j \in 1 .. n /\ j \in 1 .. n + 1
    OBVIOUS
  <2>2. \A j \in 1 .. k - 1 : t[j] = u[j] /\ Offset(t, j) = Offset(u, j)
    BY <1>1, <2>1
  <2> QED BY <2>2 DEF RowEnds
<1> QED BY <1>1, <1>2 DEF Place, RowOf

\* How one more column or row goes, in numbers.
LEMMA Columns ==
  ASSUME NEW o \in Nat
  PROVE  /\ (o + 1) % Width = 0 <=> (o % Width) + 1 = Width
         /\ (o + 1) % Width # 0 => (o + 1) % Width = (o % Width) + 1
         /\ ColumnAfter(o % Width) = (o + 1) % Width
<1> DEFINE q == o \div Width
           m == o % Width
<1>1. Width \in Nat \ {0}
  BY Sizes
<1>2. o = Width * q + m /\ q \in Nat /\ m \in 0 .. Width - 1
  BY <1>1
<1> HIDE DEF q, m
<1>3. CASE m + 1 = Width
  <2>1. o + 1 = Width * (q + 1)
    BY <1>1, <1>2, <1>3
  <2>2. (o + 1) % Width = 0
    BY <1>1, <1>2, <2>1
  <2>3. (m + 1) % Width = 0
    BY <1>1, <1>3
  <2> QED BY <1>3, <2>2, <2>3 DEF ColumnAfter, m
<1>4. CASE m + 1 # Width
  <2>1. o + 1 = Width * q + (m + 1) /\ m + 1 \in 0 .. Width - 1
    BY <1>1, <1>2, <1>4
  <2>2. (o + 1) % Width = m + 1
    BY <1>1, <1>2, <2>1
  <2>3. (m + 1) % Width = m + 1
    BY <1>1, <2>1
  <2>4. m + 1 # 0
    BY <1>2
  <2> QED BY <1>4, <2>2, <2>3, <2>4 DEF ColumnAfter, m
<1> QED BY <1>3, <1>4

\* What is added to the rows by the character number k.
LEMMA NextPlace ==
  ASSUME NEW t, NEW k \in Nat, k > 0
  PROVE  LET o == Offset(t, k)
             ends == t[k] = NL \/ (o + 1) % Width = 0
         IN  /\ ends  => RowOf(t, k + 1) = RowOf(t, k) + 1 /\ Offset(t, k + 1) % Width = 0
             /\ ~ends => /\ RowOf(t, k + 1) = RowOf(t, k)
                         /\ Offset(t, k + 1) % Width = (o % Width) + 1
<1> DEFINE o == Offset(t, k)
           ends == t[k] = NL \/ (o + 1) % Width = 0
<1>1. Offset(t, k + 1) = IF t[k] = NL THEN 0 ELSE o + 1
  <2>1. CASE t[k] = NL
    <3>1. k \in Breaks(t, k + 1)
      BY <2>1 DEF Breaks
    <3>2. LineStart(t, k + 1) \in 0 .. k /\ k <= LineStart(t, k + 1)
      BY <3>1, LineStartOf
    <3> QED BY <2>1, <3>2 DEF Offset
  <2>2. CASE t[k] # NL
    <3>1. Breaks(t, k + 1) = Breaks(t, k)
      BY <2>2 DEF Breaks
    <3>2. LineStart(t, k + 1) = LineStart(t, k)
      BY <3>1 DEF LineStart
    <3>3. LineStart(t, k) \in Int
      BY LineStartOf
    <3> QED BY <2>2, <3>2, <3>3 DEF Offset
  <2> QED BY <2>1, <2>2
<1>2. RowEnds(t, k + 1) = IF ends THEN RowEnds(t, k) \cup {k} ELSE RowEnds(t, k)
  BY DEF RowEnds
<1>3. IsFiniteSet(RowEnds(t, k)) /\ k \notin RowEnds(t, k)
  <2>1. k \notin 1 .. k - 1
    OBVIOUS
  <2>2. RowEnds(t, k) \subseteq 1 .. k - 1
    BY DEF RowEnds
  <2> QED BY <2>1, <2>2, PlaceTyped
<1>4. o \in Nat /\ 0 % Width = 0
  BY PlaceTyped, Sizes
<1> HIDE DEF o
<1>5. CASE ends
  <2>1. RowOf(t, k + 1) = RowOf(t, k) + 1
    BY <1>2, <1>3, <1>5, FS_AddElement DEF RowOf
  <2>2. Offset(t, k + 1) % Width = 0
    BY <1>1, <1>4, <1>5
  <2> QED BY <1>5, <2>1, <2>2 DEF o
<1>6. CASE ~ends
  <2>1. RowOf(t, k + 1) = RowOf(t, k)
    BY <1>2, <1>6 DEF RowOf
  <2>2. Offset(t, k + 1) % Width = (o % Width) + 1
    BY <1>1, <1>4, <1>6, Columns
  <2> QED BY <1>6, <2>1, <2>2 DEF o
<1> QED BY <1>5, <1>6

\* Rows do not become fewer.
LEMMA RowsGrow ==
  ASSUME NEW t, NEW i \in Nat, NEW k \in Nat, 0 < i, i <= k
  PROVE  RowOf(t, i) <= RowOf(t, k)
<1>1. RowEnds(t, i) \subseteq RowEnds(t, k)
  BY DEF RowEnds
<1>2. IsFiniteSet(RowEnds(t, k))
  BY PlaceTyped
<1> QED BY <1>1, <1>2, FS_Subset DEF RowOf

\* Places go up.
LEMMA PlacesGrow ==
  ASSUME NEW t, NEW i \in Nat, NEW k \in Nat, 0 < i, i < k
  PROVE  /\ Place(t, i) \in Nat /\ Place(t, i) < Place(t, k)
<1> DEFINE r == RowOf(t, i)
           s == RowOf(t, k)
           o == Offset(t, i)
           e == Offset(t, k)
<1>1. /\ r \in Nat /\ s \in Nat /\ r <= s /\ o \in Nat /\ e \in Nat
      /\ o % Width \in 0 .. Width - 1 /\ e % Width \in 0 .. Width - 1 /\ Width \in Nat /\ Width > 0
  BY PlaceTyped, RowsGrow, Sizes
<1>2. Place(t, i) = r * Width + (o % Width) /\ Place(t, k) = s * Width + (e % Width)
  BY DEF Place
<1>3. CASE r < s
  <2> HIDE DEF r, s, o, e
  <2>1. s * Width = (r + 1) * Width + (s - (r + 1)) * Width /\ (s - (r + 1)) * Width \in Nat
    BY <1>1, <1>3
  <2>2. (r + 1) * Width = r * Width + Width /\ r * Width \in Nat
    BY <1>1
  <2> QED BY <1>1, <1>2, <2>1, <2>2
<1>4. CASE r = s
  <2>1. RowEnds(t, i) = RowEnds(t, k)
    <3>1. RowEnds(t, i) \subseteq RowEnds(t, k)
      BY DEF RowEnds
    <3>2. IsFiniteSet(RowEnds(t, k))
      BY PlaceTyped
    <3> QED BY <3>1, <3>2, <1>4, FS_Subset DEF RowOf
  <2>2. \A j \in i .. k - 1 : t[j] # NL /\ (Offset(t, j) + 1) % Width # 0
    <3>1. \A j \in i .. k - 1 : j \in 1 .. k - 1 /\ j \notin 1 .. i - 1
      OBVIOUS
    <3>2. RowEnds(t, i) \subseteq 1 .. i - 1
      BY DEF RowEnds
    <3> QED BY <2>1, <3>1, <3>2 DEF RowEnds
  <2>3. ASSUME NEW j \in i .. k PROVE Offset(t, j) = o + (j - i)
    <3>1. Breaks(t, j) = Breaks(t, i)
      BY <2>2 DEF Breaks
    <3>2. LineStart(t, j) = LineStart(t, i)
      BY <3>1 DEF LineStart
    <3>3. LineStart(t, i) \in Int
      BY LineStartOf
    <3> QED BY <3>2, <3>3 DEF Offset
  <2>4. e = o + (k - i)
    BY <2>3
  <2> HIDE DEF r, s, o, e
  <2> DEFINE q == o \div Width
             c == o % Width
  <2>5. q \in Nat /\ o = Width * q + c /\ c \in 0 .. Width - 1
    BY <1>1
  <2> HIDE DEF q, c
  <2>6. c + (k - i) < Width
    <3>1. SUFFICES ASSUME ~(c + (k - i) < Width) PROVE FALSE
      OBVIOUS
    <3> DEFINE j == i + (Width - 1 - c)
    <3>2. j \in i .. k - 1 /\ j \in i .. k
      BY <1>1, <2>5, <3>1
    <3>3. Offset(t, j) + 1 = Width * (q + 1)
      <4>1. Offset(t, j) = o + (j - i)
        BY <2>3, <3>2
      <4>2. o + (Width - 1 - c) + 1 = Width * q + Width /\ j - i = Width - 1 - c
        BY <1>1, <2>5
      <4>3. Width * (q + 1) = Width * q + Width
        BY <1>1, <2>5
      <4> QED BY <4>1, <4>2, <4>3, <1>1, <2>5
    <3>4. Width * (q + 1) % Width = 0
      BY <1>1, <2>5
    <3> QED BY <2>2, <3>2, <3>3, <3>4
  <2>7. e = Width * q + (c + (k - i)) /\ c + (k - i) \in 0 .. Width - 1
    BY <1>1, <2>4, <2>5, <2>6
  <2>8. e % Width = c + (k - i)
    BY <1>1, <2>5, <2>7
  <2>9. c = o % Width
    BY DEF c
  <2>10. r * Width \in Nat /\ s * Width = r * Width
    BY <1>1, <1>4
  <2> QED BY <1>1, <1>2, <2>5, <2>8, <2>9, <2>10
<1>5. r * Width \in Nat
  BY <1>1
<1>6. Place(t, i) \in Nat /\ (r < s \/ r = s)
  <2> HIDE DEF r, s, o, e
  <2> QED BY <1>1, <1>2, <1>5
<1> QED BY <1>3, <1>4, <1>6

\* A row and a column of the screen make a cell.
LEMMA CellOf ==
  ASSUME NEW r \in 0 .. Height - 1, NEW c \in 0 .. Width - 1
  PROVE  Index(r, c) \in Cells
<1>1. r * Width + Width <= Height * Width
  <2>1. Height - (r + 1) \in Nat /\ Width \in Nat /\ Height \in Nat /\ r \in Nat
    BY Sizes
  <2>2. (Height - (r + 1)) * Width \in Nat
    BY <2>1
  <2>3. Height * Width = (Height - (r + 1)) * Width + (r * Width + Width)
    BY <2>1
  <2>4. r * Width \in Nat /\ Height * Width \in Nat
    BY <2>1
  <2> QED BY <2>1, <2>2, <2>3, <2>4
<1>2. r * Width \in Nat /\ Height * Width \in Nat /\ Height * Width = Width * Height
  BY Sizes
<1> QED BY <1>1, <1>2, Sizes DEF Index, Cells

-----------------------------------------------------------------------------
(* Texts.                                                                  *)

IsText(s) == \E S : s \in Seq(S)

LEMMA TextOfConcat == ASSUME NEW s, NEW t, IsText(s), IsText(t) PROVE IsText(s \o t)
<1>1. PICK S : s \in Seq(S)
  BY DEF IsText
<1>2. PICK T : t \in Seq(T)
  BY DEF IsText
<1>3. s \in Seq(S \cup T) /\ t \in Seq(S \cup T)
  BY <1>1, <1>2
<1>4. s \o t \in Seq(S \cup T)
  BY <1>3, ConcatProperties, Zenon
<1> QED BY <1>4 DEF IsText

\* What a concatenation holds where.
LEMMA ConcatText ==
  ASSUME NEW s, NEW t, IsText(s), IsText(t)
  PROVE  /\ Len(s) \in Nat /\ Len(t) \in Nat /\ Len(s \o t) = Len(s) + Len(t)
         /\ \A i \in 1 .. Len(s) : (s \o t)[i] = s[i]
         /\ \A i \in 1 .. Len(t) : (s \o t)[Len(s) + i] = t[i]
<1>1. PICK S : s \in Seq(S)
  BY DEF IsText
<1>2. PICK T : t \in Seq(T)
  BY DEF IsText
<1>3. s \in Seq(S \cup T) /\ t \in Seq(S \cup T) /\ Len(s) \in Nat /\ Len(t) \in Nat
  BY <1>1, <1>2
<1>4. /\ Len(s \o t) = Len(s) + Len(t)
      /\ \A i \in 1 .. Len(s) + Len(t) :
           (s \o t)[i] = IF i <= Len(s) THEN s[i] ELSE t[i - Len(s)]
  BY <1>3, ConcatProperties, Zenon
<1>5. ASSUME NEW i \in 1 .. Len(s) PROVE (s \o t)[i] = s[i]
  <2>1. i \in 1 .. Len(s) + Len(t) /\ i <= Len(s)
    BY <1>3
  <2> QED BY <1>4, <2>1, Zenon
<1>6. ASSUME NEW i \in 1 .. Len(t) PROVE (s \o t)[Len(s) + i] = t[i]
  <2>1. Len(s) + i \in 1 .. Len(s) + Len(t) /\ ~(Len(s) + i <= Len(s)) /\ (Len(s) + i) - Len(s) = i
    BY <1>3
  <2> QED BY <1>4, <2>1, Zenon
<1> QED BY <1>3, <1>4, <1>5, <1>6, Zenon

\* One character after the other.
LEMMA TailText ==
  ASSUME NEW s, IsText(s), s # <<>>
  PROVE  /\ IsText(Tail(s)) /\ Len(Tail(s)) = Len(s) - 1 /\ Len(s) > 0
         /\ Head(s) = s[1]
         /\ \A i \in 1 .. Len(s) - 1 : Tail(s)[i] = s[i + 1]
<1>1. PICK S : s \in Seq(S)
  BY DEF IsText
<1>2. /\ Tail(s) \in Seq(S) /\ Len(Tail(s)) = Len(s) - 1 /\ Len(s) > 0
      /\ \A i \in 1 .. Len(s) - 1 : Tail(s)[i] = s[i + 1]
  BY <1>1
<1>3. Head(s) = s[1]
  BY <1>1
<1> QED BY <1>2, <1>3 DEF IsText

LEMMA AppendText ==
  ASSUME NEW s, IsText(s), NEW c
  PROVE  /\ IsText(Append(s, c)) /\ Len(Append(s, c)) = Len(s) + 1
         /\ Append(s, c)[Len(s) + 1] = c
         /\ \A i \in 1 .. Len(s) : Append(s, c)[i] = s[i]
<1>1. PICK S : s \in Seq(S)
  BY DEF IsText
<1>2. s \in Seq(S \cup {c})
  BY <1>1
<1>3. Append(s, c) \in Seq(S \cup {c})
  BY <1>2
<1> QED BY <1>2, <1>3 DEF IsText

LEMMA LengthOfText == ASSUME NEW s, IsText(s) PROVE Len(s) \in Nat /\ (Len(s) = 0 <=> s = <<>>)
  BY DEF IsText

\* A string in memory that has an end is read as a text.
LEMMA TextOfBytes ==
  ASSUME NEW b, IsFiniteSet(DOMAIN b)
  PROVE  IsText(Text(b))
<1>1. strlen(b) \in Nat
  <2>1. IsFiniteSet({k \in DOMAIN b : \A j \in 0 .. k : b[j] # NUL})
    BY FS_Subset
  <2> QED BY <2>1, FS_CardinalityType DEF strlen
<1>2. Text(b) \in Seq({b[k - 1] : k \in 1 .. strlen(b)})
  BY <1>1 DEF Text
<1> QED BY <1>2 DEF IsText

\* Whatever it is given, vprintf displays a text.
LEMMA VprintfText == ASSUME NEW d, NEW junk PROVE IsText(vprintf(d, junk))
<1>1. CASE d.length = "hh"
  <2>1. <<d.spec>> \in Seq({d.spec})
    OBVIOUS
  <2> QED BY <1>1, <2>1 DEF vprintf, IsText
<1>2. CASE d.length # "hh"
  <2>1. IsText(Prefix(d))
    <3>1. Prefix(d) \in {<<>>, <<"0">>, <<"0", "x">>}
      BY DEF Prefix
    <3>2. <<>> \in Seq({"0", "x"}) /\ <<"0">> \in Seq({"0", "x"})
          /\ <<"0", "x">> \in Seq({"0", "x"})
      OBVIOUS
    <3> QED BY <3>1, <3>2 DEF IsText
  <2>2. DOMAIN __int_str(d, junk) = 0 .. BufSize - 1
    <3>1. \A s : DOMAIN String(s) = 0 .. BufSize - 1
      BY DEF String
    <3>2. \A b, n, c : DOMAIN AppendTo(b, n, c) = DOMAIN b
      BY DEF AppendTo
    <3>3. \A b, c : DOMAIN strcpy(b, c) = DOMAIN b
      BY DEF strcpy
    <3> QED BY <3>1, <3>2, <3>3 DEF __int_str
  <2>3. IsFiniteSet(0 .. BufSize - 1)
    <3>1. BufSize - 1 \in Int
      BY DEF BufSize
    <3> QED BY <3>1, FS_Interval
  <2>4. IsText(Text(__int_str(d, junk)))
    BY <2>2, <2>3, TextOfBytes
  <2> QED BY <1>2, <2>1, <2>4, TextOfConcat DEF vprintf
<1> QED BY <1>1, <1>2

LEMMA MessageText == ASSUME NEW v PROVE IsText(Message(v))
<1>1. CASE v = 14
  <2>1. <<"P", NL, "k", NL>> \in Seq({"P", "k", NL})
    OBVIOUS
  <2> QED BY <1>1, <2>1 DEF Message, IsText
<1>2. CASE v # 14
  <2>1. <<"E">> \in Seq({"E"}) /\ <<NL>> \in Seq({NL})
    OBVIOUS
  <2>2. IsText(<<"E">>) /\ IsText(<<NL>>)
    BY <2>1 DEF IsText
  <2>3. IsText(<<"E">> \o vprintf(Plain(v), NUL))
    BY <2>2, VprintfText, TextOfConcat
  <2> QED BY <1>2, <2>2, <2>3, TextOfConcat DEF Message
<1> QED BY <1>1, <1>2

\* Formats and their arguments are texts.
LEMMA TextsGiven == ASSUME NEW s \in Texts PROVE IsText(s)
  BY ConsoleAssumption DEF IsText

-----------------------------------------------------------------------------
(* Displaying a text.  Of t, the first n characters are done with; the     *)
(* next is on the screen too while the cursor still has to move.           *)

OnScreen(n) == IF pc = "next" THEN n ELSE n + 1

\* The letters of t behind the first m are where they belong.
Stands(t, n, m) ==
  \A k \in Letters(t) : m < k /\ k <= OnScreen(n) =>
    Place(t, k) \in Cells /\ screen[Place(t, k)] = t[k]

\* The cursor is behind the first n characters, or on its way.
CursorFollows(t, n) ==
  /\ pc \in {"next", "column"} =>
       row = RowOf(t, n + 1) /\ column = Offset(t, n + 1) % Width
  /\ pc = "row" => RowOf(t, n + 2) = row + 1 /\ Offset(t, n + 2) % Width = 0
  /\ pc \in {"row", "clear"} => column = 0
  /\ pc = "clear" => row = 0
  /\ pc = "column" => t[n + 1] # NL

Displays(t, n, m) ==
  /\ Len(t) = n + Len(rest) /\ \A i \in 1 .. Len(rest) : rest[i] = t[n + i]
  /\ CursorFollows(t, n)
  /\ pc # "clear" => Stands(t, n, m)

\* Nothing else is on the screen.
BlankElsewhere(t, n) ==
  pc # "clear" =>
    \A c \in Cells : (\A k \in Letters(t) : k <= OnScreen(n) => Place(t, k) # c) =>
                     screen[c] = BLANK

\* A character that is not yet done with is there.
Pending == /\ pc # "next" => rest # <<>>
           /\ pc # "clear" => at = 0
           /\ IsText(rest) /\ screen = [c \in Cells |-> screen[c]]

\* Places up to the cursor's are on the screen.
LEMMA PlaceBelow ==
  ASSUME NEW t, NEW n \in Nat, RowOf(t, n + 1) < Height
  PROVE  Place(t, n + 1) \in Cells
<1>1. RowOf(t, n + 1) \in 0 .. Height - 1 /\ Offset(t, n + 1) % Width \in 0 .. Width - 1
  BY PlaceTyped, Sizes
<1> QED BY <1>1, CellOf DEF Place, Index

\* Two characters of a text have places of their own: those before the number
\* n + 1 that stand already are not where it goes.
LEMMA PutEntryDisplays ==
  ASSUME TypeOK, Pending, NEW t, NEW n \in Nat, NEW m \in Nat, Displays(t, n, m),
         PutEntry
  PROVE  /\ Displays(t, n, m)'
         /\ BlankElsewhere(t, n) => BlankElsewhere(t, n)'
<1>1. /\ pc = "next" /\ pc' = "column" /\ rest' = rest /\ row' = row /\ column' = column
      /\ rest # <<>> /\ Head(rest) # NL
      /\ screen' = [screen EXCEPT ![Index(row, column)] = Head(rest)]
  BY DEF PutEntry
<1>2. row = RowOf(t, n + 1) /\ column = Offset(t, n + 1) % Width
      /\ Index(row, column) = Place(t, n + 1) /\ Index(row, column) \in Cells
  BY <1>1, CellOf DEF Displays, CursorFollows, Index, Place, TypeOK
<1>3. Head(rest) = t[n + 1] /\ n + 1 \in 1 .. Len(t)
  <2>1. Head(rest) = rest[1] /\ 1 \in 1 .. Len(rest) /\ Len(rest) \in Nat
    BY <1>1, TailText, LengthOfText DEF Pending
  <2>2. rest[1] = t[n + 1] /\ Len(t) = n + Len(rest)
    BY <2>1 DEF Displays
  <2> QED BY <2>1, <2>2
<1>4. screen' = [c \in Cells |-> IF c = Place(t, n + 1) THEN t[n + 1] ELSE screen[c]]
  BY <1>1, <1>2, <1>3 DEF Pending
<1>5. CursorFollows(t, n)'
  BY <1>1, <1>2, <1>3 DEF CursorFollows
<1>6. Stands(t, n, m)'
  <2>1. ASSUME NEW k \in Letters(t), m < k, k <= n + 1
        PROVE  Place(t, k) \in Cells /\ screen'[Place(t, k)] = t[k]
    <3>1. CASE k = n + 1
      BY <1>2, <1>4, <3>1
    <3>2. CASE k # n + 1
      <4>1. k \in Nat /\ 0 < k /\ k <= n
        BY <2>1, <3>2 DEF Letters
      <4>2. Place(t, k) < Place(t, n + 1) /\ Place(t, k) \in Nat /\ Place(t, n + 1) \in Nat
        BY <4>1, PlacesGrow
      <4>3. Place(t, k) \in Cells /\ screen[Place(t, k)] = t[k]
        BY <1>1, <2>1, <4>1 DEF Displays, Stands, OnScreen
      <4> QED BY <1>4, <4>2, <4>3
    <3> QED BY <3>1, <3>2
  <2> QED BY <1>1, <2>1 DEF Stands, OnScreen
<1>7. ASSUME BlankElsewhere(t, n) PROVE BlankElsewhere(t, n)'
  <2>1. ASSUME NEW c \in Cells, \A k \in Letters(t) : k <= n + 1 => Place(t, k) # c
        PROVE  screen'[c] = BLANK
    <3>1. n + 1 \in Letters(t)
      BY <1>1, <1>3 DEF Letters
    <3>2. c # Place(t, n + 1)
      BY <2>1, <3>1
    <3>3. \A k \in Letters(t) : k <= n => Place(t, k) # c
      <4>1. \A k \in Letters(t) : k \in Int
        BY DEF Letters
      <4> QED BY <2>1, <4>1
    <3>4. screen[c] = BLANK
      BY <1>1, <1>7, <3>3 DEF BlankElsewhere, OnScreen
    <3> QED BY <1>4, <3>2, <3>4
  <2> QED BY <1>1, <2>1 DEF BlankElsewhere, OnScreen
<1> QED BY <1>1, <1>5, <1>6, <1>7 DEF Displays

\* The first character that is left is the next of the text.
LEMMA HeadOfRest ==
  ASSUME Pending, NEW t, NEW n \in Nat, rest # <<>>,
         Len(t) = n + Len(rest), \A i \in 1 .. Len(rest) : rest[i] = t[n + i]
  PROVE  /\ Head(rest) = t[n + 1] /\ n + 1 \in 1 .. Len(t)
         /\ IsText(Tail(rest)) /\ Len(t) = (n + 1) + Len(Tail(rest))
         /\ \A i \in 1 .. Len(Tail(rest)) : Tail(rest)[i] = t[(n + 1) + i]
<1>1. /\ IsText(Tail(rest)) /\ Len(Tail(rest)) = Len(rest) - 1 /\ Len(rest) > 0
      /\ Head(rest) = rest[1] /\ \A i \in 1 .. Len(rest) - 1 : Tail(rest)[i] = rest[i + 1]
      /\ Len(rest) \in Nat
  BY TailText, LengthOfText DEF Pending
<1>2. ASSUME NEW i \in 1 .. Len(Tail(rest)) PROVE Tail(rest)[i] = t[(n + 1) + i]
  <2>1. i + 1 \in 1 .. Len(rest) /\ n + (i + 1) = (n + 1) + i
    BY <1>1
  <2> QED BY <1>1, <2>1
<1>3. rest[1] = t[n + 1]
  BY <1>1
<1> QED BY <1>1, <1>2, <1>3

\* Behind a letter the cursor goes on in its row or, from the last column, to
\* the row that the text has ended.
LEMMA NextColumnDisplays ==
  ASSUME TypeOK, Pending, NEW t, NEW n \in Nat, NEW m \in Nat, Displays(t, n, m), NextColumn
  PROVE  /\ pc' = "next" => /\ Displays(t, n + 1, m)'
                            /\ BlankElsewhere(t, n) => BlankElsewhere(t, n + 1)'
         /\ pc' # "next" => /\ Displays(t, n, m)'
                            /\ BlankElsewhere(t, n) => BlankElsewhere(t, n)'
<1>1. /\ pc = "column" /\ column' = ColumnAfter(column) /\ row' = row /\ screen' = screen
      /\ IF column' = 0 THEN pc' = "row" /\ rest' = rest ELSE pc' = "next" /\ rest' = Tail(rest)
  BY DEF NextColumn, Done
<1>2. /\ row = RowOf(t, n + 1) /\ column = Offset(t, n + 1) % Width /\ t[n + 1] # NL
      /\ Len(t) = n + Len(rest) /\ \A i \in 1 .. Len(rest) : rest[i] = t[n + i]
      /\ Stands(t, n, m)
  BY <1>1 DEF Displays, CursorFollows
<1>3. n + 1 \in Nat /\ n + 1 > 0 /\ (n + 1) + 1 = n + 2
  OBVIOUS
<1>4. /\ column' = 0  => RowOf(t, n + 2) = row + 1 /\ Offset(t, n + 2) % Width = 0
      /\ column' # 0 => RowOf(t, n + 2) = row /\ Offset(t, n + 2) % Width = column'
  <2>1. Offset(t, n + 1) \in Nat
    BY <1>3, PlaceTyped
  <2>2. column' = (Offset(t, n + 1) + 1) % Width
    BY <1>1, <1>2, <2>1, Columns
  <2>3. (Offset(t, n + 1) + 1) % Width # 0 => column' = (Offset(t, n + 1) % Width) + 1
    BY <2>1, <2>2, Columns
  <2>4. /\ (Offset(t, n + 1) + 1) % Width = 0 =>
             RowOf(t, n + 2) = RowOf(t, n + 1) + 1 /\ Offset(t, n + 2) % Width = 0
        /\ (Offset(t, n + 1) + 1) % Width # 0 =>
             /\ RowOf(t, n + 2) = RowOf(t, n + 1)
             /\ Offset(t, n + 2) % Width = (Offset(t, n + 1) % Width) + 1
    BY <1>2, <1>3, NextPlace
  <2> QED BY <1>2, <2>2, <2>3, <2>4, Zenon
<1>5. CASE column' = 0
  <2>1. pc' = "row" /\ rest' = rest
    BY <1>1, <1>5
  <2>2. CursorFollows(t, n)'
    BY <1>1, <1>4, <1>5, <2>1 DEF CursorFollows
  <2>3. Stands(t, n, m)' /\ (BlankElsewhere(t, n) => BlankElsewhere(t, n)')
    BY <1>1, <1>2, <2>1 DEF Stands, BlankElsewhere, OnScreen
  <2> QED BY <1>2, <2>1, <2>2, <2>3 DEF Displays
<1>6. CASE column' # 0
  <2>1. pc' = "next" /\ rest' = Tail(rest)
    BY <1>1, <1>6
  <2>2. CursorFollows(t, n + 1)'
    BY <1>1, <1>3, <1>4, <1>6, <2>1 DEF CursorFollows
  <2>3. Stands(t, n + 1, m)' /\ (BlankElsewhere(t, n) => BlankElsewhere(t, n + 1)')
    BY <1>1, <1>2, <2>1 DEF Stands, BlankElsewhere, OnScreen
  <2>4. /\ Len(t) = (n + 1) + Len(rest')
        /\ \A i \in 1 .. Len(rest') : rest'[i] = t[(n + 1) + i]
    BY <1>1, <1>2, <2>1, HeadOfRest DEF Pending
  <2> QED BY <2>1, <2>2, <2>3, <2>4 DEF Displays
<1> QED BY <1>5, <1>6

\* A newline sends the cursor to the row it has begun.
LEMMA NewLineDisplays ==
  ASSUME TypeOK, Pending, NEW t, NEW n \in Nat, NEW m \in Nat, Displays(t, n, m), NewLine
  PROVE  /\ Displays(t, n, m)'
         /\ BlankElsewhere(t, n) => BlankElsewhere(t, n)'
<1>1. /\ pc = "next" /\ pc' = "row" /\ column' = 0 /\ row' = row /\ screen' = screen
      /\ rest' = rest /\ rest # <<>> /\ Head(rest) = NL
  BY DEF NewLine
<1>2. /\ row = RowOf(t, n + 1) /\ Len(t) = n + Len(rest)
      /\ \A i \in 1 .. Len(rest) : rest[i] = t[n + i]
      /\ Stands(t, n, m)
  BY <1>1 DEF Displays, CursorFollows
<1>3. t[n + 1] = NL
  BY <1>1, <1>2, HeadOfRest
<1>4. RowOf(t, n + 2) = row + 1 /\ Offset(t, n + 2) % Width = 0
  <2>1. n + 1 \in Nat /\ n + 1 > 0 /\ (n + 1) + 1 = n + 2
    OBVIOUS
  <2> QED BY <1>2, <1>3, <2>1, NextPlace
<1>5. CursorFollows(t, n)'
  BY <1>1, <1>4 DEF CursorFollows
<1>6. \A k \in Letters(t) : k \in Nat /\ k # n + 1
  BY <1>3 DEF Letters
<1>7. Stands(t, n, m)'
  <2>1. ASSUME NEW k \in Letters(t), m < k, k <= n + 1
        PROVE  Place(t, k) \in Cells /\ screen[Place(t, k)] = t[k]
    BY <1>1, <1>2, <1>6, <2>1 DEF Stands, OnScreen
  <2> QED BY <1>1, <2>1 DEF Stands, OnScreen
<1>8. ASSUME BlankElsewhere(t, n) PROVE BlankElsewhere(t, n)'
  <2>1. ASSUME NEW c \in Cells, \A k \in Letters(t) : k <= n + 1 => Place(t, k) # c
        PROVE  screen[c] = BLANK
    <3>1. \A k \in Letters(t) : k <= n => Place(t, k) # c
      BY <1>6, <2>1
    <3> QED BY <1>1, <1>8, <3>1 DEF BlankElsewhere, OnScreen
  <2> QED BY <1>1, <2>1 DEF BlankElsewhere, OnScreen
<1> QED BY <1>1, <1>2, <1>5, <1>7, <1>8 DEF Displays

\* The cursor reaches the row, or the screen is to be cleared because it is
\* below the last.
LEMMA NextRowDisplays ==
  ASSUME TypeOK, Pending, NEW t, NEW n \in Nat, NEW m \in Nat, Displays(t, n, m), NextRow
  PROVE  /\ pc' = "next"  => /\ Displays(t, n + 1, m)'
                             /\ BlankElsewhere(t, n) => BlankElsewhere(t, n + 1)'
         /\ pc' # "next" => /\ pc' = "clear" /\ Displays(t, n, m)' /\ BlankElsewhere(t, n)'
                            /\ RowOf(t, n + 2) = Height
<1>1. /\ pc = "row" /\ row' = RowAfter(row) /\ column' = column /\ screen' = screen
      /\ IF row' = 0 THEN pc' = "clear" /\ rest' = rest ELSE pc' = "next" /\ rest' = Tail(rest)
  BY DEF NextRow, Done
<1>2. /\ RowOf(t, n + 2) = row + 1 /\ Offset(t, n + 2) % Width = 0 /\ column = 0
      /\ Len(t) = n + Len(rest) /\ \A i \in 1 .. Len(rest) : rest[i] = t[n + i]
      /\ Stands(t, n, m)
  BY <1>1 DEF Displays, CursorFollows
<1>3. IF row + 1 = Height THEN row' = 0 ELSE row' = row + 1 /\ row' # 0
  <2>1. row \in 0 .. Height - 1 /\ Height \in Nat \ {0}
    BY Sizes DEF TypeOK
  <2>2. CASE row + 1 = Height
    <3>1. Height % Height = 0
      BY <2>1
    <3> QED BY <1>1, <2>2, <3>1 DEF RowAfter
  <2>3. CASE row + 1 # Height
    <3>1. row + 1 \in 1 .. Height - 1
      BY <2>1, <2>3
    <3>2. (row + 1) % Height = row + 1
      BY <2>1, <3>1
    <3> QED BY <1>1, <2>3, <3>1, <3>2 DEF RowAfter
  <2> QED BY <2>2, <2>3
<1>5. CASE row' = 0
  <2>1. pc' = "clear" /\ rest' = rest
    BY <1>1, <1>5
  <2>2. CursorFollows(t, n)'
    BY <1>1, <1>2, <1>5, <2>1 DEF CursorFollows
  <2>3. RowOf(t, n + 2) = Height
    BY <1>2, <1>3, <1>5
  <2>4. BlankElsewhere(t, n)'
    BY <2>1 DEF BlankElsewhere
  <2> QED BY <1>2, <2>1, <2>2, <2>3, <2>4 DEF Displays
<1>6. CASE row' # 0
  <2>1. pc' = "next" /\ rest' = Tail(rest) /\ row' = row + 1
    BY <1>1, <1>3, <1>6
  <2>2. CursorFollows(t, n + 1)'
    <3>1. (n + 1) + 1 = n + 2
      OBVIOUS
    <3> QED BY <1>1, <1>2, <2>1, <3>1 DEF CursorFollows
  <2>3. Stands(t, n + 1, m)' /\ (BlankElsewhere(t, n) => BlankElsewhere(t, n + 1)')
    BY <1>1, <1>2, <2>1 DEF Stands, BlankElsewhere, OnScreen
  <2>4. /\ Len(t) = (n + 1) + Len(rest')
        /\ \A i \in 1 .. Len(rest') : rest'[i] = t[(n + 1) + i]
    BY <1>1, <1>2, <2>1, HeadOfRest, ZenonT(60) DEF Pending
  <2> QED BY <2>1, <2>2, <2>3, <2>4 DEF Displays
<1> QED BY <1>5, <1>6

\* A text begins at the top left.
LEMMA TopLeft == ASSUME NEW t PROVE RowOf(t, 1) = 0 /\ Offset(t, 1) % Width = 0
<1>1. RowEnds(t, 1) = {}
  BY DEF RowEnds
<1>2. RowOf(t, 1) = 0
  BY <1>1, FS_EmptySet DEF RowOf
<1>3. LineStart(t, 1) = 0
  <2>1. LineStart(t, 1) \in 0 .. 1 - 1
    BY LineStartOf
  <2> QED BY <2>1
<1>4. Offset(t, 1) = 0 /\ 0 % Width = 0
  BY <1>3, Sizes DEF Offset
<1> QED BY <1>2, <1>4

\* The mark leads to the cursor.
LEMMA MarkLeads ==
  ASSUME TypeOK
  PROVE  /\ IsText(CursorText) /\ Len(CursorText) = row + column
         /\ RowOf(CursorText, row + column + 1) = row
         /\ Offset(CursorText, row + column + 1) % Width = column
<1> DEFINE u == CursorText
<1>1. row \in Nat /\ column \in 0 .. Width - 1 /\ Width \in Nat
  BY Sizes DEF TypeOK
<1>2. u \in Seq({NL, BLANK}) /\ Len(u) = row + column
  BY <1>1 DEF CursorText
<1>3. \A j \in 1 .. row + column : u[j] = NL <=> j <= row
  BY <1>1 DEF CursorText, NL, BLANK
<1> HIDE DEF u
<1>4. ASSUME NEW j \in row + 1 .. row + column + 1 PROVE Offset(u, j) = j - row - 1
  <2>1. Breaks(u, j) = 1 .. row
    BY <1>1, <1>3 DEF Breaks
  <2>2. LineStart(u, j) \in {0} \cup 1 .. row /\ \A i \in 1 .. row : i <= LineStart(u, j)
    BY <1>1, <2>1, LineStartOf
  <2>3. LineStart(u, j) = row
    BY <1>1, <2>2
  <2> QED BY <2>3 DEF Offset
<1>5. Offset(u, row + column + 1) = column /\ column % Width = column
  BY <1>1, <1>4
<1>6. RowEnds(u, row + column + 1) = 1 .. row
  <2>1. ASSUME NEW j \in row + 1 .. row + column PROVE (Offset(u, j) + 1) % Width # 0
    <3>1. Offset(u, j) + 1 = j - row /\ j - row \in 1 .. Width - 1
      BY <1>1, <1>4
    <3>2. (j - row) % Width = j - row
      BY <1>1, <3>1
    <3> QED BY <3>1, <3>2
  <2> QED BY <1>1, <1>3, <2>1 DEF RowEnds
<1>7. RowOf(u, row + column + 1) = row
  <2>1. Cardinality(1 .. row) = row
    BY <1>1, FS_Interval
  <2> QED BY <1>6, <2>1 DEF RowOf
<1> QED BY <1>2, <1>5, <1>7 DEF u, IsText

\* The first character that is left joins those that are done with.
LEMMA MoveOne ==
  ASSUME NEW s, NEW u, IsText(s), IsText(u), u # <<>>
  PROVE  Append(s, Head(u)) \o Tail(u) = s \o u
<1>1. PICK S : s \in Seq(S)
  BY DEF IsText
<1>2. PICK U : u \in Seq(U)
  BY DEF IsText
<1> DEFINE V == S \cup U
<1>3. s \in Seq(V) /\ u \in Seq(V)
  BY <1>1, <1>2
<1> HIDE DEF V
<1>4. Head(u) \in V /\ Tail(u) \in Seq(V)
  BY <1>2, <1>3, HeadTailProperties
<1>5. <<Head(u)>> \in Seq(V) /\ <<Head(u)>> \o Tail(u) = u
  BY <1>3, <1>4, u # <<>>
<1>6. Append(s, Head(u)) = s \o <<Head(u)>>
  BY <1>3, <1>4, AppendIsConcat
<1>7. (s \o <<Head(u)>>) \o Tail(u) = s \o (<<Head(u)>> \o Tail(u))
  <2> DEFINE h == <<Head(u)>>
             r == Tail(u)
  <2>1. h \in Seq(V) /\ r \in Seq(V)
    BY <1>4, <1>5
  <2> HIDE DEF h, r
  <2>2. (s \o h) \o r = s \o (h \o r)
    BY <1>3, <2>1, ConcatAssociative
  <2> QED BY <2>2 DEF h, r
<1> QED BY <1>5, <1>6, <1>7, Zenon

-----------------------------------------------------------------------------
(* The invariant.                                                          *)

\* While kernel_main prints, the text is its page and what is to come.
PageShows ==
  who = "main" =>
    /\ IsText(page)
    /\ \A t, n : t = page \o rest /\ n = Len(page) => Displays(t, n, 0) /\ BlankElsewhere(t, n)
    /\ pc = "clear" => \A c \in Cells : c < at => screen[c] = BLANK

\* In a handler it is the mark and the message, of which rest is still to come.
MessageShows ==
  who # "main" =>
    /\ IsText(mark) /\ IsText(call.text) /\ (who = "hung" => pc = "next" /\ rest = <<>>)
    /\ \A t, n : t = mark \o call.text /\ n = Len(t) - Len(rest)
                 /\ RowOf(t, Len(t) + 1) < Height =>
         n \in Nat /\ pc # "clear" /\ Displays(t, n, Len(mark))

ConsoleInv == TypeOK /\ Pending /\ PageShows /\ MessageShows

LEMMA InitInv == Init => ConsoleInv
<1> SUFFICES ASSUME Init PROVE ConsoleInv
  OBVIOUS
<1>1. /\ who = "main" /\ pc = "next" /\ rest = <<>> /\ at = 0 /\ row = 0 /\ column = 0
      /\ screen = [k \in Cells |-> BLANK] /\ prints = 0 /\ page = <<>>
  BY DEF Init, terminal_initialize
<1>2. 0 \in Cells
  <2>1. Index(0, 0) = 0 /\ 0 \in 0 .. Height - 1 /\ 0 \in 0 .. Width - 1
    BY Sizes DEF Index
  <2> QED BY <2>1, CellOf
<1>3. TypeOK
  BY <1>1, <1>2, Sizes, ConsoleAssumption DEF TypeOK
<1>4. IsText(<<>>) /\ <<>> \o <<>> = <<>> /\ Len(<<>>) = 0
  BY EmptySeq DEF IsText
<1>5. Pending
  BY <1>1, <1>4 DEF Pending
<1>6. Displays(<<>>, 0, 0) /\ BlankElsewhere(<<>>, 0)
  <2>1. CursorFollows(<<>>, 0)
    BY <1>1, TopLeft DEF CursorFollows
  <2>2. Letters(<<>>) = {}
    BY DEF Letters
  <2>3. Stands(<<>>, 0, 0) /\ BlankElsewhere(<<>>, 0)
    BY <1>1, <2>2 DEF Stands, BlankElsewhere
  <2> QED BY <1>1, <1>4, <2>1, <2>3 DEF Displays
<1>7. PageShows
  BY <1>1, <1>4, <1>6 DEF PageShows
<1> QED BY <1>1, <1>3, <1>5, <1>7 DEF ConsoleInv, MessageShows

\* Types, and the character that is not yet done with.
LEMMA NextTyped == ASSUME ConsoleInv, Next PROVE TypeOK' /\ Pending'
<1>1. TypeOK /\ Pending
  BY DEF ConsoleInv
<1>2. Width \in Nat /\ Height \in Nat /\ Width > 0 /\ Height > 0 /\ 0 \in Cells
  <2>1. Index(0, 0) = 0 /\ 0 \in 0 .. Height - 1 /\ 0 \in 0 .. Width - 1
    BY Sizes DEF Index
  <2> QED BY <2>1, CellOf, Sizes
<1>3. rest # <<>> => IsText(Tail(rest))
  BY <1>1, TailText DEF Pending
<1>4. CASE PutEntry
  BY <1>1, <1>4 DEF PutEntry, TypeOK, Pending
<1>5. CASE NextColumn
  <2>1. column' \in 0 .. Width - 1
    <3>1. column' = (column + 1) % Width /\ column \in Nat
      BY <1>1, <1>2, <1>5 DEF NextColumn, ColumnAfter, TypeOK
    <3> QED BY <1>2, <3>1
  <2> QED BY <1>1, <1>3, <1>5, <2>1 DEF NextColumn, Done, TypeOK, Pending
<1>6. CASE NewLine
  BY <1>1, <1>2, <1>6 DEF NewLine, TypeOK, Pending
<1>7. CASE NextRow
  <2>1. row' \in 0 .. Height - 1
    <3>1. row' = (row + 1) % Height /\ row \in Nat
      BY <1>1, <1>2, <1>7 DEF NextRow, RowAfter, TypeOK
    <3> QED BY <1>2, <3>1
  <2> QED BY <1>1, <1>3, <1>7, <2>1 DEF NextRow, Done, TypeOK, Pending
<1>8. CASE Clear
  BY <1>1, <1>2, <1>3, <1>8 DEF Clear, TypeOK, Pending
<1>9. CASE Hang
  BY <1>1, <1>9 DEF Hang, TypeOK, Pending
<1>10. ASSUME NEW s, IsText(s), Prints(s) PROVE TypeOK' /\ Pending'
  <2>1. prints' \in 0 .. MaxPrints
    BY <1>1, <1>10, ConsoleAssumption DEF Prints, TypeOK
  <2> QED BY <1>1, <1>10, <2>1 DEF Prints, TypeOK, Pending
<1>11. CASE \E s \in Texts : PrintText(s)
  BY <1>10, <1>11, TextsGiven DEF PrintText
<1>12. CASE \E d \in Directives : PrintNumber(d)
  BY <1>10, <1>12, VprintfText DEF PrintNumber
<1>13. CASE \E v \in Vectors : Trap(v)
  BY <1>1, <1>2, <1>13, MessageText DEF Trap, TypeOK, Pending
<1> QED BY <1>4, <1>5, <1>6, <1>7, <1>8, <1>9, <1>11, <1>12, <1>13 DEF Next, terminal_putchar

\* What holds of kernel_main's page, between two of its steps.
LEMMA PageNow ==
  ASSUME ConsoleInv, who = "main", NEW t, NEW n, t = page \o rest, n = Len(page)
  PROVE  /\ Displays(t, n, 0) /\ BlankElsewhere(t, n) /\ n \in Nat
         /\ IsText(page) /\ IsText(rest) /\ TypeOK /\ Pending
<1>1. IsText(page) /\ Displays(t, n, 0) /\ BlankElsewhere(t, n)
  BY DEF ConsoleInv, PageShows
<1> QED BY <1>1, LengthOfText DEF ConsoleInv, Pending

\* A step that leaves page and rest alone.
LEMMA SamePage ==
  ASSUME NEW t, NEW n, page' = page, rest' = rest, IsText(page),
         t = page \o rest, n = Len(page), Displays(t, n, 0)', BlankElsewhere(t, n)',
         pc' = "clear" => \A c \in Cells : c < at' => screen'[c] = BLANK
  PROVE  PageShows'
<1>1. \A u, k : u = page' \o rest' /\ k = Len(page') => u = t /\ k = n
  OBVIOUS
<1>2. \A u, k : u = page' \o rest' /\ k = Len(page') => Displays(u, k, 0)' /\ BlankElsewhere(u, k)'
  BY <1>1
<1> QED BY <1>2 DEF PageShows

\* A step after which a character more is done with.
LEMMA LongerPage ==
  ASSUME NEW t, NEW n, page' = Append(page, Head(rest)), rest' = Tail(rest), pc' = "next",
         IsText(page), IsText(rest), rest # <<>>,
         t = page \o rest, n = Len(page), Displays(t, n + 1, 0)', BlankElsewhere(t, n + 1)'
  PROVE  PageShows'
<1>1. page' \o rest' = t
  BY MoveOne
<1>2. IsText(page') /\ Len(page') = n + 1
  BY AppendText
<1>3. \A u, k : u = page' \o rest' /\ k = Len(page') => u = t /\ k = n + 1
  BY <1>1, <1>2
<1>4. \A u, k : u = page' \o rest' /\ k = Len(page') => Displays(u, k, 0)' /\ BlankElsewhere(u, k)'
  BY <1>3
<1> QED BY <1>2, <1>4 DEF PageShows

\* The last cell has been cleared: the page begins anew.
LEMMA NewPage ==
  ASSUME ConsoleInv, who = "main", Clear, pc' = "next"
  PROVE  PageShows'
<1>1. /\ pc = "clear" /\ rest' = Tail(rest) /\ page' = <<>> /\ row' = row /\ column' = column
      /\ screen' = [screen EXCEPT ![at] = BLANK] /\ at + 1 \notin Cells
  BY DEF Clear
<1>2. TypeOK /\ Pending /\ rest # <<>> /\ IsText(rest')
  <2>1. TypeOK /\ Pending /\ rest # <<>>
    BY <1>1 DEF ConsoleInv, Pending
  <2> QED BY <1>1, <2>1, TailText DEF Pending
<1>3. row' = 0 /\ column' = 0
  <2>1. \A t, n : t = page \o rest /\ n = Len(page) => Displays(t, n, 0)
    BY DEF ConsoleInv, PageShows
  <2>2. Displays(page \o rest, Len(page), 0)
    BY <2>1
  <2>3. row = 0 /\ column = 0
    BY <1>1, <2>2 DEF Displays, CursorFollows
  <2> QED BY <1>1, <2>3
<1>4. \A c \in Cells : screen'[c] = BLANK
  <2>1. \A c \in Cells : c < at => screen[c] = BLANK
    BY <1>1 DEF ConsoleInv, PageShows
  <2>2. at \in Nat /\ \A c \in Cells : c \in Nat /\ c <= at
    <3>1. at \in 0 .. Width * Height - 1 /\ ~(at + 1 \in 0 .. Width * Height - 1)
          /\ Width * Height \in Nat
      BY <1>1, <1>2, Sizes DEF TypeOK, Cells
    <3> QED BY <3>1 DEF Cells
  <2>3. screen = [c \in Cells |-> screen[c]]
    BY <1>2 DEF Pending
  <2> QED BY <1>1, <2>1, <2>2, <2>3
<1>5. IsText(<<>>) /\ Len(<<>>) = 0
  BY EmptySeq DEF IsText
<1>6. ASSUME NEW t, NEW n, t = page' \o rest', n = Len(page')
      PROVE  Displays(t, n, 0)' /\ BlankElsewhere(t, n)'
  <2>1. n = 0
    BY <1>1, <1>5, <1>6
  <2>2. Len(t) = n + Len(rest') /\ \A i \in 1 .. Len(rest') : rest'[i] = t[n + i]
    <3>1. t = <<>> \o rest'
      BY <1>1, <1>6
    <3>2. Len(t) = 0 + Len(rest') /\ \A i \in 1 .. Len(rest') : t[0 + i] = rest'[i]
      BY <1>2, <1>5, <3>1, ConcatText
    <3> QED BY <2>1, <3>2
  <2>3. CursorFollows(t, 0)'
    <3>1. 0 + 1 = 1
      OBVIOUS
    <3> QED BY <1>3, <3>1, TopLeft DEF CursorFollows
  <2>4. Stands(t, 0, 0)'
    <3>1. \A k \in Letters(t) : k \in Nat /\ ~(k <= 0)
      BY DEF Letters
    <3> QED BY <3>1 DEF Stands, OnScreen
  <2>5. BlankElsewhere(t, 0)'
    BY <1>4 DEF BlankElsewhere
  <2> QED BY <2>1, <2>2, <2>3, <2>4, <2>5 DEF Displays
<1> QED BY <1>1, <1>5, <1>6 DEF PageShows

\* A cell of the screen more is clear.
LEMMA ClearOne ==
  ASSUME ConsoleInv, who = "main", Clear, pc' # "next"
  PROVE  PageShows'
<1>1. /\ pc = "clear" /\ pc' = "clear" /\ rest' = rest /\ page' = page /\ row' = row
      /\ column' = column /\ screen' = [screen EXCEPT ![at] = BLANK] /\ at' = at + 1
  BY DEF Clear
<1> DEFINE t == page \o rest
           n == Len(page)
<1>2. /\ Displays(t, n, 0) /\ IsText(page) /\ TypeOK /\ Pending
  BY PageNow
<1>3. \A c \in Cells : c < at' => screen'[c] = BLANK
  <2>1. \A c \in Cells : c < at => screen[c] = BLANK
    BY <1>1 DEF ConsoleInv, PageShows
  <2>2. at \in Nat /\ \A c \in Cells : c \in Nat
    BY <1>2, Sizes DEF TypeOK, Cells
  <2>3. screen = [c \in Cells |-> screen[c]]
    BY <1>2 DEF Pending
  <2> QED BY <1>1, <2>1, <2>2, <2>3
<1>4. ASSUME NEW u, NEW k, u = page' \o rest', k = Len(page')
      PROVE  Displays(u, k, 0)' /\ BlankElsewhere(u, k)'
  <2>1. u = t /\ k = n
    BY <1>1, <1>4
  <2> HIDE DEF t, n
  <2>2. Displays(u, k, 0)
    BY <1>2, <2>1
  <2> QED BY <1>1, <2>2 DEF Displays, CursorFollows, BlankElsewhere
<1> QED BY <1>1, <1>2, <1>3, <1>4 DEF PageShows

\* kernel_main has a new piece to print.
LEMMA PrintsPage ==
  ASSUME ConsoleInv, NEW s, IsText(s), Prints(s)
  PROVE  PageShows'
<1>1. /\ who = "main" /\ pc = "next" /\ pc' = "next" /\ rest = <<>> /\ rest' = s /\ row' = row
      /\ column' = column /\ screen' = screen /\ page' = page
  BY DEF Prints
<1>2. PICK t, n : t = page \o rest /\ n = Len(page)
  OBVIOUS
<1>3. /\ Displays(t, n, 0) /\ BlankElsewhere(t, n) /\ n \in Nat
      /\ IsText(page) /\ IsText(rest) /\ TypeOK /\ Pending
  BY <1>1, <1>2, PageNow
<1>4. ASSUME NEW u, NEW k, u = page' \o rest', k = Len(page')
      PROVE  Displays(u, k, 0)' /\ BlankElsewhere(u, k)'
  <2>1. k = n /\ u = page \o s
    BY <1>1, <1>2, <1>4
  <2>2. /\ Len(u) = n + Len(s) /\ \A i \in 1 .. Len(s) : u[n + i] = s[i]
        /\ \A i \in 1 .. n : u[i] = page[i]
    BY <1>2, <1>3, <2>1, ConcatText
  <2>3. \A i \in 1 .. n : t[i] = page[i]
    BY <1>2, <1>3, ConcatText
  <2>4. \A i \in 1 .. n : t[i] = u[i]
    BY <2>2, <2>3
  <2>5. \A i \in 1 .. n + 1 : /\ Place(t, i) = Place(u, i) /\ RowOf(t, i) = RowOf(u, i)
                              /\ Offset(t, i) = Offset(u, i)
    BY <1>3, <2>4, SameBeginning
  <2>6. Len(t) = n
    <3>1. Len(t) = n + Len(rest) /\ Len(<<>>) = 0
      BY <1>3 DEF Displays
    <3> QED BY <1>1, <1>3, <3>1
  <2>7. Len(s) \in Nat
    BY LengthOfText
  <2>8. \A i \in Letters(u) : i <= n => i \in Letters(t) /\ i \in 1 .. n
    BY <1>3, <2>2, <2>4, <2>6, <2>7 DEF Letters
  <2>9. \A i \in Letters(t) : i \in Letters(u) /\ i \in 1 .. n
    BY <1>3, <2>2, <2>4, <2>6, <2>7 DEF Letters
  <2>10. CursorFollows(u, n)'
    <3>1. row = RowOf(t, n + 1) /\ column = Offset(t, n + 1) % Width
      BY <1>1, <1>3 DEF Displays, CursorFollows
    <3>2. n + 1 \in 1 .. n + 1
      BY <1>3
    <3> QED BY <1>1, <2>5, <3>1, <3>2 DEF CursorFollows
  <2>11. Stands(u, n, 0)'
    <3>1. ASSUME NEW i \in Letters(u), 0 < i, i <= n
          PROVE  Place(u, i) \in Cells /\ screen[Place(u, i)] = u[i]
      <4>1. i \in Letters(t) /\ i \in 1 .. n /\ i \in 1 .. n + 1
        BY <1>3, <2>8, <3>1
      <4>2. Place(t, i) \in Cells /\ screen[Place(t, i)] = t[i]
        BY <1>1, <1>3, <3>1, <4>1 DEF Displays, Stands, OnScreen
      <4> QED BY <2>4, <2>5, <4>1, <4>2
    <3> QED BY <1>1, <3>1 DEF Stands, OnScreen
  <2>12. BlankElsewhere(u, n)'
    <3>1. ASSUME NEW c \in Cells, \A i \in Letters(u) : i <= n => Place(u, i) # c
          PROVE  screen[c] = BLANK
      <4>1. \A i \in Letters(t) : i <= n => Place(t, i) # c
        <5>1. \A i \in Letters(t) : i \in 1 .. n + 1
          BY <1>3, <2>9
        <5> QED BY <2>5, <2>9, <3>1, <5>1
      <4> QED BY <1>1, <1>3, <4>1 DEF BlankElsewhere, OnScreen
    <3> QED BY <1>1, <3>1 DEF BlankElsewhere, OnScreen
  <2>13. Displays(u, n, 0)'
    BY <1>1, <2>2, <2>10, <2>11 DEF Displays
  <2> QED BY <2>1, <2>12, <2>13
<1> QED BY <1>1, <1>3, <1>4 DEF PageShows

\* The page after any step.
LEMMA NextPage == ASSUME ConsoleInv, Next PROVE PageShows'
<1> SUFFICES ASSUME who' = "main" PROVE PageShows'
  BY DEF PageShows
<1>1. who = "main"
  BY DEF Next, terminal_putchar, PutEntry, NextColumn, NewLine, NextRow, Clear, Hang,
         PrintText, PrintNumber, Prints, Trap
<1>2. PICK t, n : t = page \o rest /\ n = Len(page)
  OBVIOUS
<1>3. /\ Displays(t, n, 0) /\ BlankElsewhere(t, n) /\ n \in Nat /\ 0 \in Nat
      /\ IsText(page) /\ IsText(rest) /\ TypeOK /\ Pending
  BY <1>1, <1>2, PageNow
<1>4. CASE PutEntry
  <2>1. page' = page /\ rest' = rest /\ pc' = "column"
    BY <1>4 DEF PutEntry
  <2>2. Displays(t, n, 0)' /\ BlankElsewhere(t, n)'
    BY <1>3, <1>4, PutEntryDisplays
  <2> QED BY <1>2, <1>3, <2>1, <2>2, SamePage
<1>5. CASE NextColumn
  <2>1. pc' # "next" => page' = page /\ rest' = rest /\ pc' = "row"
    BY <1>5 DEF NextColumn, Done
  <2>2. pc' = "next" => page' = Append(page, Head(rest)) /\ rest' = Tail(rest) /\ rest # <<>>
    BY <1>1, <1>3, <1>5 DEF NextColumn, Done, Pending
  <2>3. /\ pc' = "next" => Displays(t, n + 1, 0)' /\ BlankElsewhere(t, n + 1)'
        /\ pc' # "next" => Displays(t, n, 0)' /\ BlankElsewhere(t, n)'
    BY <1>3, <1>5, NextColumnDisplays
  <2> QED BY <1>2, <1>3, <2>1, <2>2, <2>3, SamePage, LongerPage
<1>6. CASE NewLine
  <2>1. page' = page /\ rest' = rest /\ pc' = "row"
    BY <1>6 DEF NewLine
  <2>2. Displays(t, n, 0)' /\ BlankElsewhere(t, n)'
    BY <1>3, <1>6, NewLineDisplays
  <2> QED BY <1>2, <1>3, <2>1, <2>2, SamePage
<1>7. CASE NextRow
  <2>1. pc' # "next" => page' = page /\ rest' = rest /\ pc' = "clear" /\ at' = at /\ pc = "row"
    BY <1>7 DEF NextRow, Done
  <2>2. pc' = "next" => page' = Append(page, Head(rest)) /\ rest' = Tail(rest) /\ rest # <<>>
    BY <1>1, <1>3, <1>7 DEF NextRow, Done, Pending
  <2>3. /\ pc' = "next" => Displays(t, n + 1, 0)' /\ BlankElsewhere(t, n + 1)'
        /\ pc' # "next" => Displays(t, n, 0)' /\ BlankElsewhere(t, n)'
    BY <1>3, <1>7, NextRowDisplays
  <2>4. pc' # "next" => \A c \in Cells : ~(c < at')
    <3>1. pc = "row" => at = 0
      BY <1>3 DEF Pending
    <3> QED BY <2>1, <3>1, Sizes DEF Cells
  <2> QED BY <1>2, <1>3, <2>1, <2>2, <2>3, <2>4, SamePage, LongerPage
<1>8. CASE Clear
  BY <1>1, <1>8, NewPage, ClearOne
<1>9. CASE Hang
  BY <1>1, <1>9 DEF Hang
<1>10. CASE \E s \in Texts : PrintText(s)
  BY <1>10, TextsGiven, PrintsPage DEF PrintText
<1>11. CASE \E d \in Directives : PrintNumber(d)
  BY <1>11, VprintfText, PrintsPage DEF PrintNumber
<1>12. CASE \E v \in Vectors : Trap(v)
  BY <1>12 DEF Trap
<1> QED BY <1>4, <1>5, <1>6, <1>7, <1>8, <1>9, <1>10, <1>11, <1>12 DEF Next, terminal_putchar

\* A handler begins: nothing of its message is displayed, and the mark leads to
\* the cursor, which may be on its way to another row or left of what the
\* interrupted character covers.
LEMMA TrapMessage == ASSUME ConsoleInv, NEW v, Trap(v) PROVE MessageShows'
<1>1. /\ who' = "handler" /\ pc' = "next" /\ rest' = Message(v) /\ call'.text = Message(v)
      /\ mark' = CursorText /\ row' = row /\ column' = column
  BY DEF Trap
<1>2. TypeOK
  BY DEF ConsoleInv
<1>3. /\ IsText(mark') /\ Len(mark') = row + column
      /\ RowOf(mark', row + column + 1) = row
      /\ Offset(mark', row + column + 1) % Width = column
  BY <1>1, <1>2, MarkLeads
<1>4. IsText(rest')
  BY <1>1, MessageText
<1>5. ASSUME NEW t, NEW n, t = mark' \o rest', n = Len(t) - Len(rest')
      PROVE  n \in Nat /\ n = Len(mark') /\ Displays(t, n, n)'
  <2>1. /\ Len(t) = Len(mark') + Len(rest') /\ Len(mark') \in Nat /\ Len(rest') \in Nat
        /\ \A i \in 1 .. Len(mark') : t[i] = mark'[i]
        /\ \A i \in 1 .. Len(rest') : t[Len(mark') + i] = rest'[i]
    BY <1>3, <1>4, <1>5, ConcatText
  <2>2. n = Len(mark') /\ n \in Nat /\ n = row + column
    BY <1>3, <1>5, <2>1
  <2>3. RowOf(t, n + 1) = row /\ Offset(t, n + 1) % Width = column
    <3>1. \A i \in 1 .. n : mark'[i] = t[i]
      BY <2>1, <2>2
    <3>2. n + 1 \in 1 .. n + 1
      BY <2>2
    <3>3. RowOf(mark', n + 1) = RowOf(t, n + 1) /\ Offset(mark', n + 1) = Offset(t, n + 1)
      BY <2>2, <3>1, <3>2, SameBeginning
    <3> QED BY <1>3, <2>2, <3>3
  <2>4. CursorFollows(t, n)'
    BY <1>1, <2>3 DEF CursorFollows
  <2>5. Stands(t, n, n)'
    <3>1. \A k \in Letters(t) : k \in Nat /\ ~(n < k /\ k <= n)
      BY <2>2 DEF Letters
    <3> QED BY <1>1, <3>1 DEF Stands, OnScreen
  <2> QED BY <2>1, <2>2, <2>4, <2>5 DEF Displays
<1>6. \A t, n : t = mark' \o call'.text /\ n = Len(t) - Len(rest') =>
                 n \in Nat /\ Displays(t, n, Len(mark))'
  <2> SUFFICES ASSUME NEW t, NEW n, t = mark' \o call'.text, n = Len(t) - Len(rest')
               PROVE  n \in Nat /\ Displays(t, n, Len(mark))'
    OBVIOUS
  <2>1. n \in Nat /\ n = Len(mark') /\ Displays(t, n, n)'
    BY <1>1, <1>5
  <2> QED BY <2>1
<1>7. IsText(call'.text) /\ who' # "hung" /\ pc' # "clear"
  BY <1>1, <1>4
<1> QED BY <1>3, <1>6, <1>7 DEF MessageShows

\* The message after any step.
LEMMA NextMessage == ASSUME ConsoleInv, Next PROVE MessageShows'
<1>1. CASE \E v \in Vectors : Trap(v)
  BY <1>1, TrapMessage
<1>2. CASE ~(\E v \in Vectors : Trap(v)) /\ who = "main"
  <2>1. who' = "main"
    BY <1>2 DEF Next, terminal_putchar, PutEntry, NextColumn, NewLine, NextRow, Clear, Hang,
                PrintText, PrintNumber, Prints
  <2> QED BY <2>1 DEF MessageShows
<1>3. CASE ~(\E v \in Vectors : Trap(v)) /\ who # "main"
  <2>1. /\ IsText(mark) /\ IsText(call.text) /\ TypeOK /\ Pending
        /\ \A t, n : t = mark \o call.text /\ n = Len(t) - Len(rest)
                     /\ RowOf(t, Len(t) + 1) < Height =>
             n \in Nat /\ pc # "clear" /\ Displays(t, n, Len(mark))
    BY <1>3 DEF ConsoleInv, MessageShows
  <2>2. who = "handler" /\ (terminal_putchar \/ Hang)
    BY <1>3, <2>1 DEF Next, terminal_putchar, PutEntry, NextColumn, NewLine, NextRow, Clear,
                      Running, Hang, PrintText, PrintNumber, Prints, TypeOK
  <2>3. mark' = mark /\ call' = call /\ who' = (IF Hang THEN "hung" ELSE "handler")
    BY <2>2 DEF terminal_putchar, PutEntry, NextColumn, NewLine, NextRow, Clear, Hang
  <2>4. who' = "hung" => pc' = "next" /\ rest' = <<>>
    BY <2>3 DEF Hang
  <2>5. Len(mark) \in Nat /\ Len(call.text) \in Nat
    BY <2>1, LengthOfText
  <2>6. ASSUME NEW t, NEW k, t = mark \o call.text, k = Len(t) - Len(rest'),
               RowOf(t, Len(t) + 1) < Height
        PROVE  k \in Nat /\ pc' # "clear" /\ Displays(t, k, Len(mark))'
    <3>1. PICK n : n = Len(t) - Len(rest)
      OBVIOUS
    <3>2. n \in Nat /\ pc # "clear" /\ Displays(t, n, Len(mark))
      BY <2>1, <2>6, <3>1
    <3>3. Len(t) \in Nat /\ Len(rest) \in Nat
      BY <2>1, <2>6, LengthOfText, TextOfConcat DEF Pending
    <3>4. pc # "next" \/ terminal_putchar => rest # <<>>
      BY <2>1 DEF Pending, terminal_putchar, PutEntry, NextColumn, NewLine, NextRow, Clear
    <3>5. \A e : Displays(t, n, Len(mark))' /\ k = n => Displays(t, k, Len(mark))'
      OBVIOUS
    <3>6. CASE rest' = rest /\ Displays(t, n, Len(mark))' /\ pc' # "clear"
      BY <2>6, <3>1, <3>2, <3>6
    <3>7. CASE rest' = Tail(rest) /\ rest # <<>> /\ Displays(t, n + 1, Len(mark))' /\ pc' = "next"
      <4>1. Len(Tail(rest)) = Len(rest) - 1
        BY <2>1, <3>7, TailText DEF Pending
      <4>2. k = n + 1
        BY <2>6, <3>1, <3>2, <3>3, <3>7, <4>1
      <4> QED BY <3>2, <3>7, <4>2
    <3>8. CASE PutEntry
      <4>1. rest' = rest /\ pc' = "column"
        BY <3>8 DEF PutEntry
      <4>2. Displays(t, n, Len(mark))'
        BY <2>1, <2>5, <3>2, <3>8, <2>3, PutEntryDisplays
      <4> QED BY <3>6, <4>1, <4>2
    <3>9. CASE NextColumn
      <4>1. IF pc' = "next" THEN rest' = Tail(rest) /\ rest # <<>> ELSE rest' = rest /\ pc' = "row"
        BY <2>1, <3>9 DEF NextColumn, Done, Pending
      <4>2. IF pc' = "next" THEN Displays(t, n + 1, Len(mark))' ELSE Displays(t, n, Len(mark))'
        BY <2>1, <2>3, <2>5, <3>2, <3>9, NextColumnDisplays
      <4> QED BY <3>6, <3>7, <4>1, <4>2
    <3>10. CASE NewLine
      <4>1. rest' = rest /\ pc' = "row"
        BY <3>10 DEF NewLine
      <4>2. Displays(t, n, Len(mark))'
        BY <2>1, <2>3, <2>5, <3>2, <3>10, NewLineDisplays
      <4> QED BY <3>6, <4>1, <4>2
    <3>11. CASE NextRow
      <4>1. pc' = "next"
        <5>1. n + 2 \in Nat /\ 0 < n + 2 /\ n + 2 <= Len(t) + 1 /\ Len(t) + 1 \in Nat
          <6>1. Len(rest) > 0
            BY <2>1, <3>4, <3>11, TailText DEF Pending, NextRow
          <6> QED BY <3>1, <3>2, <3>3, <6>1
        <5>2. RowOf(t, n + 2) <= RowOf(t, Len(t) + 1)
          BY <5>1, RowsGrow
        <5>3. RowOf(t, n + 2) # Height
          BY <2>6, <5>1, <5>2, PlaceTyped, Sizes
        <5> QED BY <2>1, <2>5, <3>2, <3>11, <5>3, NextRowDisplays
      <4>2. rest' = Tail(rest) /\ rest # <<>>
        BY <2>1, <3>11, <4>1 DEF NextRow, Done, Pending
      <4>3. Displays(t, n + 1, Len(mark))'
        BY <2>1, <2>3, <2>5, <3>2, <3>11, <4>1, NextRowDisplays
      <4> QED BY <3>7, <4>1, <4>2, <4>3
    <3>12. CASE Clear
      BY <3>2, <3>12 DEF Clear
    <3>13. CASE Hang
      <4>1. rest' = rest /\ pc' = pc /\ row' = row /\ column' = column /\ screen' = screen
        BY <3>13 DEF Hang
      <4>2. Displays(t, n, Len(mark))'
        BY <2>3, <3>2, <4>1 DEF Displays, CursorFollows, Stands, OnScreen
      <4> QED BY <3>2, <3>6, <4>1, <4>2
    <3> QED BY <2>2, <3>8, <3>9, <3>10, <3>11, <3>12, <3>13 DEF terminal_putchar
  <2> QED BY <2>1, <2>3, <2>4, <2>6 DEF MessageShows
<1> QED BY <1>1, <1>2, <1>3

\* The invariant holds in every reachable state.
LEMMA InvAlways == Spec => []ConsoleInv
<1>1. ConsoleInv /\ [Next]_vars => ConsoleInv'
  <2> SUFFICES ASSUME ConsoleInv, [Next]_vars PROVE ConsoleInv'
    OBVIOUS
  <2>1. CASE Next
    BY <2>1, NextTyped, NextPage, NextMessage DEF ConsoleInv
  <2>2. CASE UNCHANGED vars
    <3>1. /\ who' = who /\ pc' = pc /\ rest' = rest /\ at' = at /\ row' = row /\ column' = column
          /\ screen' = screen /\ prints' = prints /\ call' = call /\ page' = page /\ mark' = mark
      BY <2>2 DEF vars
    <3>2. TypeOK' /\ Pending'
      BY <3>1 DEF ConsoleInv, TypeOK, Pending
    <3>3. \A t, n, m : Displays(t, n, m) => Displays(t, n, m)'
      BY <3>1 DEF Displays, CursorFollows, Stands, OnScreen
    <3>4. \A t, n : BlankElsewhere(t, n) => BlankElsewhere(t, n)'
      BY <3>1 DEF BlankElsewhere, OnScreen
    <3>5. PageShows'
      BY <3>1, <3>3, <3>4 DEF ConsoleInv, PageShows
    <3>6. MessageShows'
      BY <3>1, <3>3 DEF ConsoleInv, MessageShows
    <3> QED BY <3>2, <3>5, <3>6 DEF ConsoleInv
  <2> QED BY <2>1, <2>2
<1> QED BY InitInv, <1>1, PTL DEF Spec

-----------------------------------------------------------------------------
(* The theorems.                                                           *)

\* The cursor and the cell to be cleared stay on the screen, so that (CellOf)
\* terminal_putchar and terminal_clear store in terminal_buffer only.
THEOREM TypeCorrect == Spec => []TypeOK
<1>1. ConsoleInv => TypeOK
  BY DEF ConsoleInv
<1> QED BY <1>1, InvAlways, PTL

\* Between two characters of kernel_main's the screen is the page it has
\* displayed since the last clear, laid out in lines, and nothing else, for a
\* screen of any size and whatever is printed: terminal_putchar loses, moves and
\* invents nothing.
THEOREM PageOnScreen == Spec => []ScreenIsPage
<1>1. ConsoleInv => ScreenIsPage
  <2> SUFFICES ASSUME ConsoleInv, who = "main", pc = "next"
               PROVE  /\ \A k \in Letters(page) : screen[Place(page, k)] = page[k]
                      /\ \A c \in Cells \ {Place(page, k) : k \in Letters(page)} : screen[c] = BLANK
                      /\ Index(row, column) = Place(page, Len(page) + 1)
    BY DEF ScreenIsPage
  <2>1. PICK t, n : t = page \o rest /\ n = Len(page)
    OBVIOUS
  <2>2. /\ Displays(t, n, 0) /\ BlankElsewhere(t, n) /\ n \in Nat /\ IsText(page) /\ IsText(rest)
    BY <2>1, PageNow
  <2>3. Len(t) = n + Len(rest) /\ Len(rest) \in Nat /\ \A i \in 1 .. n : page[i] = t[i]
    BY <2>1, <2>2, ConcatText
  <2>4. \A i \in 1 .. n + 1 : Place(page, i) = Place(t, i) /\ RowOf(page, i) = RowOf(t, i)
                              /\ Offset(page, i) = Offset(t, i)
    BY <2>2, <2>3, SameBeginning
  <2>5. \A k \in Letters(page) : k \in Letters(t) /\ k \in 1 .. n /\ k \in 1 .. n + 1
                                 /\ 0 < k /\ k <= n
    BY <2>1, <2>2, <2>3 DEF Letters
  <2>6. \A k \in Letters(t) : k <= n => k \in Letters(page)
    BY <2>1, <2>2, <2>3 DEF Letters
  <2>7. ASSUME NEW k \in Letters(page) PROVE screen[Place(page, k)] = page[k]
    <3>1. screen[Place(t, k)] = t[k]
      BY <2>2, <2>5 DEF Displays, Stands, OnScreen
    <3> QED BY <2>3, <2>4, <2>5, <3>1
  <2>8. ASSUME NEW c \in Cells \ {Place(page, k) : k \in Letters(page)} PROVE screen[c] = BLANK
    <3>1. \A k \in Letters(t) : k <= n => Place(t, k) # c
      BY <2>4, <2>5, <2>6
    <3> QED BY <2>2, <3>1 DEF BlankElsewhere, OnScreen
  <2>9. Index(row, column) = Place(page, Len(page) + 1)
    <3>1. row = RowOf(t, n + 1) /\ column = Offset(t, n + 1) % Width
      BY <2>2 DEF Displays, CursorFollows
    <3>2. n + 1 \in 1 .. n + 1
      BY <2>2
    <3> QED BY <2>1, <2>4, <3>1, <3>2 DEF Index, Place
  <2> QED BY <2>7, <2>8, <2>9
<1> QED BY <1>1, InvAlways, PTL

\* Wherever in terminal_putchar, or in terminal_clear, the handler interrupted
\* kernel_main, its message stands on the screen in full when it has stopped the
\* kernel, unless the message itself ended the last row.
THEOREM MessageStands == Spec => []MessageShown
<1>1. ConsoleInv => MessageShown
  <2> DEFINE text == mark \o call.text
  <2> SUFFICES ASSUME ConsoleInv, who = "hung", RowOf(text, Len(text) + 1) < Height,
                      NEW k \in Letters(text) \ DOMAIN mark
               PROVE  screen[Place(text, k)] = text[k]
    BY DEF MessageShown
  <2>1. PICK t, n : t = text /\ n = Len(t) - Len(rest)
    OBVIOUS
  <2> HIDE DEF text
  <2>2. /\ IsText(mark) /\ IsText(call.text) /\ pc = "next" /\ rest = <<>>
        /\ n \in Nat /\ Displays(t, n, Len(mark))
    BY <2>1 DEF ConsoleInv, MessageShows, text
  <2>3. n = Len(t)
    <3>1. Len(<<>>) = 0 /\ Len(t) = n + Len(rest)
      BY <2>2 DEF Displays
    <3> QED BY <2>2, <3>1
  <2>4. Len(mark) < k /\ k \in Letters(t) /\ k <= n
    <3>1. DOMAIN mark = 1 .. Len(mark) /\ Len(mark) \in Nat
      BY <2>2 DEF IsText
    <3> QED BY <2>1, <2>2, <2>3, <3>1 DEF Letters
  <2>5. screen[Place(t, k)] = t[k]
    BY <2>2, <2>4 DEF Displays, Stands, OnScreen
  <2> QED BY <2>1, <2>5
<1> QED BY <1>1, InvAlways, PTL

-----------------------------------------------------------------------------
(* Strings in memory.                                                      *)

\* A text that a buffer can hold: no character of it is NUL.
Plainly(s) == IsText(s) /\ \A k \in 1 .. Len(s) : s[k] # NUL

\* n times c.
Repeat(c, n) == [k \in 1 .. n |-> c]

\* Two texts of the same characters are one.
LEMMA SameText ==
  ASSUME NEW s, NEW t, IsText(s), IsText(t), Len(s) = Len(t),
         \A k \in 1 .. Len(s) : s[k] = t[k]
  PROVE  s = t
<1>1. PICK S : s \in Seq(S)
  BY DEF IsText
<1>2. PICK T : t \in Seq(T)
  BY DEF IsText
<1>3. s = [k \in 1 .. Len(s) |-> s[k]] /\ t = [k \in 1 .. Len(t) |-> t[k]]
  BY <1>1, <1>2
<1> QED BY <1>3

\* A function on 1 .. n is one.
LEMMA FunctionText ==
  ASSUME NEW n \in Nat, NEW s, s = [k \in 1 .. n |-> s[k]]
  PROVE  IsText(s) /\ Len(s) = n
<1>1. s \in Seq({s[k] : k \in 1 .. n})
  OBVIOUS
<1> QED BY <1>1, SMTT(40) DEF IsText

LEMMA EmptyText == Plainly(<<>>) /\ Len(<<>>) = 0
<1>1. <<>> \in Seq({})
  OBVIOUS
<1>2. IsText(<<>>) /\ Len(<<>>) = 0
  BY <1>1 DEF IsText
<1>3. 1 .. Len(<<>>) = {}
  BY <1>2
<1> QED BY <1>2, <1>3 DEF Plainly

LEMMA RepeatText ==
  ASSUME NEW c, NEW n \in Nat
  PROVE  /\ IsText(Repeat(c, n)) /\ Len(Repeat(c, n)) = n
         /\ \A k \in 1 .. n : Repeat(c, n)[k] = c
         /\ (c # NUL => Plainly(Repeat(c, n)))
         /\ (n = 0 => Repeat(c, n) = <<>>)
<1>1. IsText(Repeat(c, n)) /\ Len(Repeat(c, n)) = n
  <2> DEFINE r == Repeat(c, n)
  <2>1. r = [k \in 1 .. n |-> r[k]]
    BY DEF Repeat
  <2> HIDE DEF r
  <2>2. IsText(r) /\ Len(r) = n
    BY <2>1, FunctionText
  <2> QED BY <2>2 DEF r
<1>2. \A k \in 1 .. n : Repeat(c, n)[k] = c
  BY DEF Repeat
<1>3. n = 0 => Repeat(c, n) = <<>>
  BY <1>1, LengthOfText
<1> QED BY <1>1, <1>2, <1>3 DEF Plainly

LEMMA ConcatPlainly ==
  ASSUME NEW s, NEW t, Plainly(s), Plainly(t)
  PROVE  Plainly(s \o t) /\ Len(s \o t) = Len(s) + Len(t)
<1>1. /\ Len(s) \in Nat /\ Len(t) \in Nat /\ Len(s \o t) = Len(s) + Len(t)
      /\ \A i \in 1 .. Len(s) : (s \o t)[i] = s[i]
      /\ \A i \in 1 .. Len(t) : (s \o t)[Len(s) + i] = t[i]
  BY ConcatText DEF Plainly
<1>2. ASSUME NEW k \in 1 .. Len(s \o t) PROVE (s \o t)[k] # NUL
  <2>1. CASE k <= Len(s)
    BY <1>1, <2>1 DEF Plainly
  <2>2. CASE k > Len(s)
    <3>1. k - Len(s) \in 1 .. Len(t) /\ Len(s) + (k - Len(s)) = k
      BY <1>1, <2>2
    <3>2. (s \o t)[k] = t[k - Len(s)]
      BY <1>1, <3>1
    <3> QED BY <3>1, <3>2 DEF Plainly
  <2> QED BY <1>1, <2>1, <2>2
<1>3. IsText(s \o t)
  BY TextOfConcat DEF Plainly
<1> QED BY <1>1, <1>2, <1>3 DEF Plainly

LEMMA ConcatEmpty ==
  ASSUME NEW s, IsText(s)
  PROVE  <<>> \o s = s /\ s \o <<>> = s
<1>1. PICK S : s \in Seq(S)
  BY DEF IsText
<1> QED BY <1>1, ConcatEmptySeq

LEMMA ConcatThree ==
  ASSUME NEW s, NEW t, NEW u, IsText(s), IsText(t), IsText(u)
  PROVE  (s \o t) \o u = s \o (t \o u)
<1>1. PICK S : s \in Seq(S)
  BY DEF IsText
<1>2. PICK T : t \in Seq(T)
  BY DEF IsText
<1>3. PICK U : u \in Seq(U)
  BY DEF IsText
<1>4. {s, t, u} \subseteq Seq(S \cup T \cup U)
  BY <1>1, <1>2, <1>3
<1> QED BY <1>4, ConcatAssociative

\* Where the first NUL is, there a string ends.
LEMMA StrlenIs ==
  ASSUME NEW n \in 0 .. BufSize, NEW b, DOMAIN b = 0 .. BufSize - 1,
         \A k \in 0 .. n - 1 : b[k] # NUL, n < BufSize => b[n] = NUL
  PROVE  strlen(b) = n
<1>1. BufSize \in Nat /\ BufSize > 0
  BY DEF BufSize
<1>2. {k \in DOMAIN b : \A j \in 0 .. k : b[j] # NUL} = 0 .. n - 1
  <2>1. ASSUME NEW k \in DOMAIN b, \A j \in 0 .. k : b[j] # NUL PROVE k \in 0 .. n - 1
    <3>1. CASE k >= n
      <4>1. n \in 0 .. k /\ n < BufSize
        BY <1>1, <3>1
      <4> QED BY <2>1, <4>1
    <3> QED BY <1>1, <3>1
  <2>2. ASSUME NEW k \in 0 .. n - 1 PROVE k \in DOMAIN b /\ \A j \in 0 .. k : b[j] # NUL
    BY <1>1
  <2> QED BY <2>1, <2>2
<1>3. Cardinality(0 .. n - 1) = n
  <2>1. 0 \in Int /\ n - 1 \in Int
    BY <1>1
  <2> QED BY <1>1, <2>1, FS_Interval
<1> QED BY <1>2, <1>3 DEF strlen

\* What a buffer holds is read as it was written.
LEMMA StringRead ==
  ASSUME NEW s, Plainly(s), Len(s) <= BufSize
  PROVE  /\ DOMAIN String(s) = 0 .. BufSize - 1
         /\ \A k \in 0 .. BufSize - 1 : String(s)[k] = IF k < Len(s) THEN s[k + 1] ELSE NUL
         /\ strlen(String(s)) = Len(s)
         /\ Text(String(s)) = s
<1>0. BufSize \in Nat /\ BufSize > 0
  BY DEF BufSize
<1>1. Len(s) \in 0 .. BufSize
  BY <1>0, LengthOfText DEF Plainly
<1>2. /\ DOMAIN String(s) = 0 .. BufSize - 1
      /\ \A k \in 0 .. BufSize - 1 : String(s)[k] = IF k < Len(s) THEN s[k + 1] ELSE NUL
  BY DEF String
<1>3. ASSUME NEW k \in 0 .. Len(s) - 1 PROVE String(s)[k] = s[k + 1] /\ s[k + 1] # NUL
  <2>1. k \in 0 .. BufSize - 1 /\ k < Len(s) /\ k + 1 \in 1 .. Len(s)
    BY <1>0, <1>1
  <2> QED BY <1>2, <2>1 DEF Plainly
<1>4. Len(s) < BufSize => String(s)[Len(s)] = NUL
  <2>1. SUFFICES ASSUME Len(s) < BufSize PROVE String(s)[Len(s)] = NUL
    OBVIOUS
  <2>2. Len(s) \in 0 .. BufSize - 1 /\ ~(Len(s) < Len(s))
    BY <1>0, <1>1, <2>1
  <2> QED BY <1>2, <2>2
<1>5. strlen(String(s)) = Len(s)
  <2> DEFINE b == String(s)
             n == Len(s)
  <2>1. n \in 0 .. BufSize /\ DOMAIN b = 0 .. BufSize - 1 /\ (n < BufSize => b[n] = NUL)
        /\ \A k \in 0 .. n - 1 : b[k] # NUL
    BY <1>1, <1>2, <1>3, <1>4
  <2> HIDE DEF b, n
  <2>2. strlen(b) = n
    BY <2>1, StrlenIs
  <2> QED BY <2>2 DEF b, n
<1>6. Text(String(s)) = s
  <2> DEFINE t == Text(String(s))
  <2>1. t = [k \in 1 .. Len(s) |-> String(s)[k - 1]]
    BY <1>5 DEF Text
  <2>2. ASSUME NEW k \in 1 .. Len(s) PROVE t[k] = s[k]
    <3>1. k - 1 \in 0 .. Len(s) - 1 /\ (k - 1) + 1 = k
      BY <1>1
    <3> QED BY <1>3, <2>1, <3>1
  <2>3. IsText(t) /\ Len(t) = Len(s)
    <3> HIDE DEF t
    <3>1. t = [k \in 1 .. Len(s) |-> t[k]]
      BY <2>1
    <3> QED BY <1>1, <3>1, FunctionText
  <2> HIDE DEF t
  <2>4. t = s
    BY <2>2, <2>3, SameText DEF Plainly
  <2> QED BY <2>4 DEF t
<1> QED BY <1>2, <1>5, <1>6

\* A buffer is the string it holds.
LEMMA HoldsString ==
  ASSUME NEW s, Len(s) \in Nat, NEW b, b = [k \in 0 .. BufSize - 1 |-> b[k]],
         \A k \in 0 .. BufSize - 1 : b[k] = IF k < Len(s) THEN s[k + 1] ELSE NUL
  PROVE  b = String(s)
BY DEF String

\* b[strlen(b)] = c, n times over.
LEMMA Appended ==
  ASSUME NEW s, Plainly(s), NEW n \in Nat, Len(s) + n <= BufSize, NEW c
  PROVE  AppendTo(String(s), n, c) = String(s \o Repeat(c, n))
<1> DEFINE b == String(s)
           r == Repeat(c, n)
           a == AppendTo(b, n, c)
<1>0. BufSize \in Nat /\ BufSize > 0 /\ Len(s) \in Nat /\ Len(s) <= BufSize
  BY LengthOfText DEF BufSize, Plainly
<1>1. /\ DOMAIN b = 0 .. BufSize - 1
      /\ \A k \in 0 .. BufSize - 1 : b[k] = IF k < Len(s) THEN s[k + 1] ELSE NUL
  BY <1>0, StringRead
<1>2. IsText(r) /\ Len(r) = n /\ \A k \in 1 .. n : r[k] = c
  BY RepeatText
<1>3. /\ Len(s \o r) = Len(s) + n
      /\ \A i \in 1 .. Len(s) : (s \o r)[i] = s[i]
      /\ \A i \in 1 .. n : (s \o r)[Len(s) + i] = c
  <2> HIDE DEF r
  <2>0. IsText(s) /\ IsText(r)
    BY <1>2 DEF Plainly
  <2>1. /\ Len(s \o r) = Len(s) + Len(r)
        /\ \A i \in 1 .. Len(s) : (s \o r)[i] = s[i]
        /\ \A i \in 1 .. Len(r) : (s \o r)[Len(s) + i] = r[i]
    BY <2>0, ConcatText
  <2>2. Len(s \o r) = Len(s) + n
    BY <1>2, <2>1, Zenon
  <2>3. \A i \in 1 .. n : (s \o r)[Len(s) + i] = c
    BY <1>2, <2>1, Zenon
  <2> QED BY <2>1, <2>2, <2>3, Zenon
<1>4. \A k \in 0 .. Len(s) - 1 : b[k] # NUL
  <2>1. ASSUME NEW k \in 0 .. Len(s) - 1 PROVE b[k] # NUL
    <3>1. k \in 0 .. BufSize - 1 /\ k < Len(s) /\ k + 1 \in 1 .. Len(s)
      BY <1>0
    <3> HIDE DEF b
    <3> QED BY <1>1, <3>1 DEF Plainly
  <2> QED BY <2>1
<1>5. ASSUME NEW k \in 0 .. BufSize - 1, k >= Len(s)
      PROVE  Cardinality({j \in 0 .. k - 1 : b[j] = NUL}) = k - Len(s)
  <2>1. {j \in 0 .. k - 1 : b[j] = NUL} = Len(s) .. k - 1
    <3>1. \A j \in 0 .. k - 1 : b[j] = NUL <=> j >= Len(s)
      <4> HIDE DEF b
      <4>1. ASSUME NEW j \in 0 .. k - 1 PROVE b[j] = NUL <=> j >= Len(s)
        <5>1. j \in 0 .. BufSize - 1
          BY <1>0
        <5>2. CASE j < Len(s)
          <6>1. j \in 0 .. Len(s) - 1
            BY <1>0, <5>2
          <6> QED BY <1>0, <1>4, <5>1, <6>1
        <5>3. CASE ~(j < Len(s))
          BY <1>0, <1>1, <5>1, <5>3
        <5> QED BY <5>2, <5>3
      <4> QED BY <4>1
    <3> HIDE DEF b
    <3> QED BY <1>0, <3>1
  <2>2. Cardinality(Len(s) .. k - 1) = k - Len(s)
    <3>1. Len(s) \in Int /\ k - 1 \in Int
      BY <1>0
    <3>2. Cardinality(Len(s) .. k - 1) =
            IF Len(s) > k - 1 THEN 0 ELSE (k - 1) - Len(s) + 1
      BY <3>1, FS_Interval
    <3> QED BY <1>0, <1>5, <3>2
  <2> QED BY <2>1, <2>2
<1>6. ASSUME NEW k \in 0 .. BufSize - 1
      PROVE  a[k] = IF k < Len(s \o r) THEN (s \o r)[k + 1] ELSE NUL
  <2>1. a[k] = IF b[k] = NUL /\ Cardinality({j \in 0 .. k - 1 : b[j] = NUL}) < n
               THEN c ELSE b[k]
    <3> HIDE DEF b
    <3> QED BY <1>1 DEF AppendTo
  <2> HIDE DEF a, b, r
  <2>2. CASE k < Len(s)
    <3>1. k \in 0 .. Len(s) - 1 /\ k + 1 \in 1 .. Len(s) /\ k < Len(s) + n
      BY <1>0, <2>2
    <3> QED BY <1>1, <1>3, <1>4, <2>1, <2>2, <3>1
  <2>3. CASE k >= Len(s) /\ k < Len(s) + n
    <3>1. (k - Len(s)) + 1 \in 1 .. n /\ Len(s) + ((k - Len(s)) + 1) = k + 1
          /\ ~(k < Len(s)) /\ k - Len(s) < n
      BY <1>0, <2>3
    <3>2. (s \o r)[k + 1] = c
      BY <1>3, <3>1
    <3> QED BY <1>1, <1>3, <1>5, <2>1, <2>3, <3>1, <3>2
  <2>4. CASE k >= Len(s) + n
    <3>1. ~(k < Len(s)) /\ ~(k < Len(s) + n) /\ ~(k - Len(s) < n) /\ k >= Len(s)
      BY <1>0, <2>4
    <3> QED BY <1>1, <1>3, <1>5, <2>1, <3>1
  <2> QED BY <1>0, <2>2, <2>3, <2>4
<1>7. a = [k \in 0 .. BufSize - 1 |-> a[k]]
  <2> HIDE DEF b
  <2> QED BY <1>1 DEF AppendTo
<1>8. Len(s \o r) \in Nat
  BY <1>0, <1>3
<1> HIDE DEF a, r
<1>9. a = String(s \o r)
  BY <1>6, <1>7, <1>8, HoldsString
<1> QED BY <1>9 DEF a, b, r

LEMMA Catenated ==
  ASSUME NEW s, Plainly(s), NEW t, Plainly(t), Len(s) + Len(t) <= BufSize
  PROVE  strcat(String(s), String(t)) = String(s \o t)
<1> DEFINE a == strcat(String(s), String(t))
<1>0. BufSize \in Nat /\ BufSize > 0 /\ Len(s) \in Nat /\ Len(t) \in Nat
      /\ Len(s) <= BufSize /\ Len(t) <= BufSize
  BY LengthOfText DEF BufSize, Plainly
<1>1. /\ DOMAIN String(s) = 0 .. BufSize - 1 /\ strlen(String(s)) = Len(s)
      /\ \A k \in 0 .. BufSize - 1 : String(s)[k] = IF k < Len(s) THEN s[k + 1] ELSE NUL
  BY <1>0, StringRead
<1>2. /\ strlen(String(t)) = Len(t)
      /\ \A k \in 0 .. BufSize - 1 : String(t)[k] = IF k < Len(t) THEN t[k + 1] ELSE NUL
  BY <1>0, StringRead
<1>3. /\ Len(s \o t) = Len(s) + Len(t)
      /\ \A i \in 1 .. Len(s) : (s \o t)[i] = s[i]
      /\ \A i \in 1 .. Len(t) : (s \o t)[Len(s) + i] = t[i]
  BY ConcatText DEF Plainly
<1>4. a = [k \in 0 .. BufSize - 1 |->
             IF k \in Len(s) .. Len(s) + Len(t) THEN String(t)[k - Len(s)] ELSE String(s)[k]]
  BY <1>1, <1>2 DEF strcat
<1>5. ASSUME NEW k \in 0 .. BufSize - 1
      PROVE  a[k] = IF k < Len(s \o t) THEN (s \o t)[k + 1] ELSE NUL
  <2>1. a[k] = IF k \in Len(s) .. Len(s) + Len(t) THEN String(t)[k - Len(s)] ELSE String(s)[k]
    BY <1>4
  <2> HIDE DEF a
  <2>2. CASE k < Len(s)
    <3>1. k \notin Len(s) .. Len(s) + Len(t) /\ k + 1 \in 1 .. Len(s) /\ k < Len(s) + Len(t)
      BY <1>0, <2>2
    <3> QED BY <1>1, <1>3, <2>1, <2>2, <3>1
  <2>3. CASE k \in Len(s) .. Len(s) + Len(t)
    <3>1. k - Len(s) \in 0 .. BufSize - 1
      BY <1>0, <2>3
    <3>2. a[k] = IF k - Len(s) < Len(t) THEN t[(k - Len(s)) + 1] ELSE NUL
      BY <1>2, <2>1, <2>3, <3>1
    <3>3. CASE k - Len(s) < Len(t)
      <4>1. (k - Len(s)) + 1 \in 1 .. Len(t) /\ Len(s) + ((k - Len(s)) + 1) = k + 1
            /\ k < Len(s) + Len(t)
        BY <1>0, <2>3, <3>3
      <4>2. (s \o t)[k + 1] = t[(k - Len(s)) + 1]
        BY <1>3, <4>1
      <4> QED BY <1>3, <3>2, <3>3, <4>1, <4>2
    <3>4. CASE ~(k - Len(s) < Len(t))
      <4>1. ~(k < Len(s) + Len(t))
        BY <1>0, <3>4
      <4> QED BY <1>3, <3>2, <3>4, <4>1
    <3> QED BY <3>3, <3>4
  <2>4. CASE k > Len(s) + Len(t)
    <3>1. k \notin Len(s) .. Len(s) + Len(t) /\ ~(k < Len(s)) /\ ~(k < Len(s) + Len(t))
      BY <1>0, <2>4
    <3> QED BY <1>1, <1>3, <2>1, <3>1
  <2> QED BY <1>0, <2>2, <2>3, <2>4
<1>6. a = [k \in 0 .. BufSize - 1 |-> a[k]]
  BY <1>4
<1> HIDE DEF a
<1>7. a = String(s \o t)
  <2>1. Len(s \o t) \in Nat
    BY <1>0, <1>3
  <2> QED BY <1>5, <1>6, <2>1, HoldsString
<1> QED BY <1>7 DEF a

\* strcpy is right if the destination already ends within what it copies, or
\* holds the same.
LEMMA Copied ==
  ASSUME NEW s, Plainly(s), NEW t, Plainly(t), Len(s) <= BufSize,
         s = t \/ (Len(t) <= Len(s) /\ Len(s) <= PtrSize + 1)
  PROVE  strcpy(String(t), String(s)) = String(s)
<1> DEFINE a == strcpy(String(t), String(s))
<1>0. BufSize \in Nat /\ BufSize > 0 /\ Len(s) \in Nat /\ Len(t) \in Nat
      /\ Len(s) <= BufSize /\ Len(t) <= BufSize /\ PtrSize \in Nat
  BY LengthOfText, ConsoleAssumption DEF BufSize, Plainly
<1>1. /\ DOMAIN String(t) = 0 .. BufSize - 1
      /\ \A k \in 0 .. BufSize - 1 : String(t)[k] = IF k < Len(t) THEN t[k + 1] ELSE NUL
  BY <1>0, StringRead
<1>2. \A k \in 0 .. BufSize - 1 : String(s)[k] = IF k < Len(s) THEN s[k + 1] ELSE NUL
  BY <1>0, StringRead
<1>3. a = [k \in 0 .. BufSize - 1 |->
             IF k < PtrSize + 1 THEN String(s)[k] ELSE String(t)[k]]
  BY <1>1 DEF strcpy
<1>4. ASSUME NEW k \in 0 .. BufSize - 1
      PROVE  a[k] = IF k < Len(s) THEN s[k + 1] ELSE NUL
  <2>1. a[k] = IF k < PtrSize + 1 THEN String(s)[k] ELSE String(t)[k]
    BY <1>3
  <2> HIDE DEF a
  <2>2. CASE k < PtrSize + 1 \/ s = t
    BY <1>2, <2>1, <2>2
  <2>3. CASE ~(k < PtrSize + 1) /\ s # t
    <3>1. ~(k < Len(s)) /\ ~(k < Len(t))
      BY <1>0, <2>3
    <3> QED BY <1>1, <2>1, <2>3, <3>1
  <2> QED BY <2>2, <2>3
<1>5. a = [k \in 0 .. BufSize - 1 |-> a[k]]
  BY <1>3
<1> HIDE DEF a
<1>6. a = String(s)
  BY <1>0, <1>4, <1>5, HoldsString
<1> QED BY <1>6 DEF a

-----------------------------------------------------------------------------
(* Digits.                                                                 *)

\* What is left of i after so many turns of the loop of __int_str.
Shifted(f, i, radix, n) ==
  f = [k \in 0 .. n |-> IF k = 0 THEN i ELSE f[k - 1] \div radix]

LEMMA ShiftedExists ==
  ASSUME NEW i, NEW radix, NEW N \in Nat
  PROVE  \E f : Shifted(f, i, radix, N)
<1> DEFINE T == {n \in 0 .. N : ~ \E f : Shifted(f, i, radix, n)}
<1>1. SUFFICES ASSUME T # {} PROVE FALSE
  <2>1. N \in 0 .. N
    OBVIOUS
  <2> QED BY <1>1, <2>1
<1>2. PICK m \in T : \A y \in T : m <= y
  <2>1. T \in SUBSET Nat
    OBVIOUS
  <2> HIDE DEF T
  <2> QED BY <1>1, <2>1, MinNat
<1>3. CASE m = 0
  <2> DEFINE f == [k \in 0 .. 0 |-> i]
  <2>1. f = [k \in 0 .. 0 |-> IF k = 0 THEN i ELSE f[k - 1] \div radix]
    OBVIOUS
  <2> HIDE DEF f
  <2>2. Shifted(f, i, radix, 0)
    BY <2>1 DEF Shifted
  <2> QED BY <1>3, <2>2
<1>4. CASE m # 0
  <2>1. m \in Nat /\ m - 1 \in 0 .. N /\ m - 1 < m
    BY <1>4
  <2>2. m - 1 \notin T
    BY <1>2, <2>1
  <2>3. PICK g : Shifted(g, i, radix, m - 1)
    BY <2>1, <2>2
  <2> DEFINE f == [k \in 0 .. m |-> IF k = m THEN g[m - 1] \div radix ELSE g[k]]
  <2>4. ASSUME NEW k \in 0 .. m
        PROVE  f[k] = IF k = 0 THEN i ELSE f[k - 1] \div radix
    <3>1. CASE k = m
      <4>1. m \in 0 .. m /\ m - 1 \in 0 .. m /\ m - 1 # m
        BY <2>1
      <4>2. f[m] = g[m - 1] \div radix /\ f[m - 1] = g[m - 1]
        BY <4>1
      <4> HIDE DEF f
      <4> QED BY <1>4, <3>1, <4>2
    <3>2. CASE k # m
      <4>1. k \in 0 .. m - 1 /\ f[k] = g[k] /\ (k # 0 => f[k - 1] = g[k - 1])
        BY <2>1, <3>2
      <4>2. g[k] = IF k = 0 THEN i ELSE g[k - 1] \div radix
        BY <2>3, <4>1 DEF Shifted
      <4> HIDE DEF f
      <4> QED BY <4>1, <4>2
    <3> QED BY <3>1, <3>2
  <2>5. f = [k \in 0 .. m |-> f[k]]
    OBVIOUS
  <2> HIDE DEF f
  <2>6. Shifted(f, i, radix, m)
    BY <2>4, <2>5 DEF Shifted
  <2> QED BY <2>6
<1> QED BY <1>3, <1>4

\* A number below 8^11 has at most eleven digits, and each is one of its base.
LEMMA DigitsAre ==
  ASSUME NEW i \in Nat, i < 8 * 8 * 8 * 8 * 8 * 8 * 8 * 8 * 8 * 8 * 8, NEW radix \in {8, 10, 16}
  PROVE  \E n \in 1 .. IntDigits : Digits(i, radix) \in [1 .. n -> 0 .. radix - 1]
<1> DEFINE shifter == CHOOSE f : Shifted(f, i, radix, IntDigits)
           n == CHOOSE n \in 1 .. IntDigits : shifter[n] = 0 /\ (n = 1 \/ shifter[n - 1] # 0)
<1>1. Digits(i, radix) = [k \in 1 .. n |-> shifter[n - k] % radix]
  BY DEF Digits, Shifted
<1>2. shifter = [k \in 0 .. IntDigits |-> IF k = 0 THEN i ELSE shifter[k - 1] \div radix]
  <2>1. \E f : Shifted(f, i, radix, IntDigits)
    <3>1. IntDigits \in Nat
      BY DEF IntDigits
    <3> QED BY <3>1, ShiftedExists
  <2>2. Shifted(shifter, i, radix, IntDigits)
    BY <2>1, Zenon DEF shifter
  <2> HIDE DEF shifter
  <2> QED BY <2>2, Zenon DEF Shifted
<1> HIDE DEF shifter
<1>3. shifter[0] = i /\ \A k \in 1 .. 11 : shifter[k] = shifter[k - 1] \div radix
  <2>1. \A k \in 0 .. 11 : shifter[k] = IF k = 0 THEN i ELSE shifter[k - 1] \div radix
    BY <1>2 DEF IntDigits
  <2> QED BY <2>1
<1>4. ASSUME NEW k \in 1 .. 11, shifter[k - 1] \in Nat
      PROVE  shifter[k] \in Nat /\ 8 * shifter[k] <= shifter[k - 1]
  <2>1. \A x \in Nat : x \div radix \in Nat /\ 8 * (x \div radix) <= x
    OBVIOUS
  <2> QED BY <1>3, <1>4, <2>1
<1>5. /\ shifter[1] \in Nat /\ 8 * shifter[1] <= i
      /\ shifter[2] \in Nat /\ 8 * shifter[2] <= shifter[1]
      /\ shifter[3] \in Nat /\ 8 * shifter[3] <= shifter[2]
      /\ shifter[4] \in Nat /\ 8 * shifter[4] <= shifter[3]
  <2>1. shifter[1] \in Nat /\ 8 * shifter[1] <= i
    BY <1>3, <1>4
  <2>2. shifter[2] \in Nat /\ 8 * shifter[2] <= shifter[1]
    BY <1>4, <2>1
  <2>3. shifter[3] \in Nat /\ 8 * shifter[3] <= shifter[2]
    BY <1>4, <2>2
  <2> QED BY <1>4, <2>1, <2>2, <2>3
<1>6. /\ shifter[5] \in Nat /\ 8 * shifter[5] <= shifter[4]
      /\ shifter[6] \in Nat /\ 8 * shifter[6] <= shifter[5]
      /\ shifter[7] \in Nat /\ 8 * shifter[7] <= shifter[6]
      /\ shifter[8] \in Nat /\ 8 * shifter[8] <= shifter[7]
  <2>1. shifter[5] \in Nat /\ 8 * shifter[5] <= shifter[4]
    BY <1>4, <1>5
  <2>2. shifter[6] \in Nat /\ 8 * shifter[6] <= shifter[5]
    BY <1>4, <2>1
  <2>3. shifter[7] \in Nat /\ 8 * shifter[7] <= shifter[6]
    BY <1>4, <2>2
  <2> QED BY <1>4, <2>1, <2>2, <2>3
<1>7. /\ shifter[9] \in Nat /\ 8 * shifter[9] <= shifter[8]
      /\ shifter[10] \in Nat /\ 8 * shifter[10] <= shifter[9]
      /\ shifter[11] \in Nat /\ 8 * shifter[11] <= shifter[10]
  <2>1. shifter[9] \in Nat /\ 8 * shifter[9] <= shifter[8]
    BY <1>4, <1>6
  <2>2. shifter[10] \in Nat /\ 8 * shifter[10] <= shifter[9]
    BY <1>4, <2>1
  <2> QED BY <1>4, <2>1, <2>2
<1>8. shifter[11] = 0
  <2>1. shifter[4] < 8 * 8 * 8 * 8 * 8 * 8 * 8
    BY <1>5
  <2>2. shifter[8] < 8 * 8 * 8
    BY <1>5, <1>6, <2>1
  <2> QED BY <1>6, <1>7, <2>2
<1>9. \A k \in 0 .. 11 : shifter[k] \in Nat
  BY <1>3, <1>5, <1>6, <1>7
<1>10. n \in 1 .. IntDigits
  <2> DEFINE T == {k \in 1 .. 11 : shifter[k] = 0}
  <2>1. T \in SUBSET Nat /\ T # {}
    BY <1>8
  <2>2. PICK m \in T : \A y \in T : m <= y
    <3> HIDE DEF T
    <3>1. Min(T) \in T /\ \A y \in T : Min(T) <= y
      BY <2>1, MinNat, Zenon
    <3> QED BY <3>1
  <2>3. m = 1 \/ shifter[m - 1] # 0
    <3>1. SUFFICES ASSUME m # 1 PROVE m - 1 \in 1 .. 11 /\ m - 1 \notin T
      OBVIOUS
    <3> QED BY <2>2, <3>1
  <2>4. m \in 1 .. IntDigits /\ shifter[m] = 0
    BY <2>2 DEF IntDigits
  <2> QED BY <2>3, <2>4
<1> HIDE DEF n
<1>11. ASSUME NEW k \in 1 .. n PROVE shifter[n - k] % radix \in 0 .. radix - 1
  <2>1. n - k \in 0 .. 11
    BY <1>10 DEF IntDigits
  <2>2. \A x \in Nat : x % radix \in 0 .. radix - 1
    OBVIOUS
  <2> QED BY <1>9, <2>1, <2>2
<1> QED BY <1>1, <1>10, <1>11

LEMMA DecimalPlainly == \A k \in 1 .. 10 : Decimal[k] # NUL
<1>1. \A k \in 1 .. 10 :
        Decimal[k] \in {"0", "1", "2", "3", "4", "5", "6", "7", "8", "9"}
  BY DEF Decimal
<1>2. NUL \notin {"0", "1", "2", "3", "4", "5", "6", "7", "8", "9"}
  BY Zenon DEF NUL
<1> QED BY <1>1, <1>2

\* The digits that strcpy copied.
LEMMA DigitCopied ==
  ASSUME NEW base \in {8, 10, 16, 17}, NEW v \in 0 .. PtrSize
  PROVE  digit(base)[v] = Decimal[v + 1] /\ v + 1 \in 1 .. 9
<1> DEFINE decimal == strcpy(String(<<>>), String(Decimal))
<1>0. PtrSize \in 1 .. 8 /\ BufSize = 32
  BY ConsoleAssumption DEF BufSize
<1>1. /\ DOMAIN decimal = 0 .. BufSize - 1
      /\ \A k \in 0 .. BufSize - 1 :
           decimal[k] = IF k < PtrSize + 1 THEN Decimal[k + 1] ELSE NUL
  <2>1. Len(<<>>) = 0 /\ Len(Decimal) = 10
    BY DEF Decimal
  <2>2. /\ DOMAIN String(<<>>) = 0 .. BufSize - 1
        /\ \A k \in 0 .. BufSize - 1 : String(<<>>)[k] = NUL
    BY <1>0, <2>1 DEF String
  <2>3. \A k \in 0 .. BufSize - 1 : String(Decimal)[k] = IF k < 10 THEN Decimal[k + 1] ELSE NUL
    BY <2>1 DEF String
  <2>4. decimal = [k \in 0 .. BufSize - 1 |->
                     IF k < PtrSize + 1 THEN String(Decimal)[k] ELSE String(<<>>)[k]]
    BY <2>2, Zenon DEF strcpy
  <2> HIDE DEF decimal
  <2>5. ASSUME NEW k \in 0 .. BufSize - 1
        PROVE  decimal[k] = IF k < PtrSize + 1 THEN Decimal[k + 1] ELSE NUL
    <3>1. decimal[k] = IF k < PtrSize + 1 THEN String(Decimal)[k] ELSE String(<<>>)[k]
      BY <2>4, Zenon
    <3>2. k < PtrSize + 1 => k < 10
      BY <1>0
    <3> QED BY <2>2, <2>3, <3>1, <3>2
  <2> QED BY <2>4, <2>5, Zenon
<1>2. \A k \in 1 .. 10 : Decimal[k] # NUL
  BY DecimalPlainly
<1>3. strlen(decimal) = PtrSize + 1
  <2> DEFINE n == PtrSize + 1
  <2>1. \A k \in 0 .. n - 1 : decimal[k] # NUL
    <3> HIDE DEF decimal
    <3> QED BY <1>0, <1>1, <1>2
  <2>2. decimal[n] = NUL /\ n \in 0 .. BufSize
    <3> HIDE DEF decimal
    <3> QED BY <1>0, <1>1
  <2> HIDE DEF decimal, n
  <2>3. strlen(decimal) = n
    BY <1>1, <2>1, <2>2, StrlenIs
  <2> QED BY <2>3 DEF n
<1>4. \A s : strcat(decimal, s)[v] = decimal[v]
  <2> HIDE DEF decimal
  <2>1. v \in 0 .. BufSize - 1 /\ v < PtrSize + 1
    BY <1>0
  <2>2. ASSUME NEW s PROVE strcat(decimal, s)[v] = decimal[v]
    <3>1. v \notin PtrSize + 1 .. PtrSize + 1 + strlen(s)
      BY <1>0, <2>1
    <3> QED BY <1>1, <1>3, <2>1, <3>1 DEF strcat
  <2> QED BY <2>2
<1>5. digit(base)[v] = decimal[v]
  <2> HIDE DEF decimal
  <2>1. digit(base) \in {strcat(decimal, String(Upper)), strcat(decimal, String(Lower)), decimal}
    BY DEF digit, decimal
  <2> QED BY <1>4, <2>1
<1> HIDE DEF decimal
<1> QED BY <1>0, <1>1, <1>5

-----------------------------------------------------------------------------
(* Arguments.                                                              *)

\* What the remainder is, and that adding to a number before or after taking
\* it comes to the same.
LEMMA RemainderIs ==
  ASSUME NEW m \in Nat \ {0}, NEW q \in Int, NEW r \in 0 .. m - 1
  PROVE  (m * q + r) % m = r
<1> DEFINE x == m * q + r
           p == x \div m
           s == x % m
<1>1. x \in Int /\ p \in Int /\ s \in 0 .. m - 1 /\ x = m * p + s
  OBVIOUS
<1>2. x = m * q + r
  OBVIOUS
<1> HIDE DEF x, p, s
<1>3. m * (p - q) = r - s
  <2>1. m * (p - q) = m * p - m * q
    BY <1>1
  <2>2. m * p \in Int /\ m * q \in Int
    BY <1>1
  <2> QED BY <1>1, <1>2, <2>1, <2>2
<1>4. p - q = 0
  <2>1. CASE p - q >= 1
    <3>1. m * (p - q - 1) \in Nat /\ m * (p - q - 1) = m * (p - q) - m
      <4>1. p - q - 1 \in Nat /\ m \in Nat
        BY <1>1, <2>1
      <4>2. \A a, b \in Nat : a * b \in Nat
        OBVIOUS
      <4> QED BY <1>1, <4>1, <4>2
    <3> QED BY <1>1, <1>3, <3>1
  <2>2. CASE p - q <= -1
    <3>1. m * (q - p - 1) \in Nat /\ m * (q - p - 1) = -(m * (p - q)) - m
      <4>1. q - p - 1 \in Nat /\ m \in Nat
        BY <1>1, <2>2
      <4>2. \A a, b \in Nat : a * b \in Nat
        OBVIOUS
      <4> QED BY <1>1, <4>1, <4>2
    <3> QED BY <1>1, <1>3, <3>1
  <2> QED BY <1>1, <2>1, <2>2
<1>5. r = s
  BY <1>1, <1>3, <1>4
<1> QED BY <1>5 DEF x, s

LEMMA RemainderSum ==
  ASSUME NEW m \in Nat \ {0}, NEW n \in Int, NEW c \in Int
  PROVE  ((n % m) + c) % m = (n + c) % m
<1> DEFINE p == n \div m
           a == n % m
           q == (a + c) \div m
           r == (a + c) % m
<1>1. n = m * p + a /\ p \in Int /\ a \in 0 .. m - 1
  OBVIOUS
<1>2. a + c = m * q + r /\ q \in Int /\ r \in 0 .. m - 1
  <2> HIDE DEF p, a
  <2> QED BY <1>1
<1> HIDE DEF p, a, q, r
<1>3. n + c = m * (p + q) + r
  <2>1. m * (p + q) = m * p + m * q
    BY <1>1, <1>2
  <2>2. m * p \in Int /\ m * q \in Int
    BY <1>1, <1>2
  <2> QED BY <1>1, <1>2, <2>1, <2>2
<1>4. (n + c) % m = r
  <2>1. p + q \in Int
    BY <1>1, <1>2
  <2>2. (m * (p + q) + r) % m = r
    BY <1>2, <2>1, RemainderIs
  <2> QED BY <1>3, <2>2
<1> QED BY <1>4 DEF a, r

LEMMA SignedIs ==
  ASSUME NEW n \in Int, NEW m \in Nat \ {0}, -(m \div 2) <= n, n < m \div 2
  PROVE  Signed(n, m) = n
<1>1. m \div 2 \in Nat /\ 2 * (m \div 2) <= m
  OBVIOUS
<1>2. n + m \div 2 \in 0 .. m - 1
  BY <1>1
<1>3. \A x \in 0 .. m - 1 : x % m = x
  <2> TAKE x \in 0 .. m - 1
  <2>1. (m * 0 + x) % m = x
    BY RemainderIs
  <2> QED BY <2>1
<1> QED BY <1>1, <1>2, <1>3 DEF Signed

LEMMA SignedTyped ==
  ASSUME NEW n \in Int, NEW m \in Nat \ {0}
  PROVE  Signed(n, m) \in Int
<1>1. m \div 2 \in Int
  OBVIOUS
<1>2. (n + m \div 2) % m \in Int
  BY <1>1
<1> QED BY <1>1, <1>2 DEF Signed

\* A number that fits an int arrives in __int_str as it is.
LEMMA ArgumentArrives ==
  ASSUME NEW d \in Directives, Reliable(d)
  PROVE  /\ Value(d) \in Int /\ IntArg(d) = Value(d)
         /\ Abs(Value(d)) \in Nat /\ Abs(Value(d)) < IntMod \div 2
         /\ Unsigned(d) => Value(d) \in Nat
<1>0. /\ IntMod \in Nat \ {0} /\ ShortMod \in Nat \ {0} /\ CharMod \in Nat \ {0}
      /\ d.num \in Int /\ d.length # "hh" /\ Abs(Value(d)) < IntMod \div 2
      /\ (d.length = "ll" /\ Unsigned(d)) => d.num \in Nat
  BY ConsoleAssumption, DirectivesAssumption DEF Reliable
<1>1. Value(d) \in Int /\ (Unsigned(d) => Value(d) \in Nat)
  <2>1. d.length = "ll" => Value(d) = d.num
    BY DEF Value
  <2>2. CASE d.length # "ll" /\ Unsigned(d)
    <3>1. PICK m \in {ShortMod, IntMod} : Value(d) = d.num % m
      BY <1>0, <2>2 DEF Value
    <3> QED BY <1>0, <3>1
  <2>3. CASE d.length # "ll" /\ ~Unsigned(d)
    <3>1. PICK m \in {ShortMod, IntMod} : Value(d) = Signed(d.num, m)
      BY <1>0, <2>3 DEF Value
    <3> QED BY <1>0, <2>3, <3>1, SignedTyped
  <2> QED BY <1>0, <2>1, <2>2, <2>3
<1>2. IntArg(d) = Value(d)
  <2>1. CASE d.length \in {"h", "ll"} \/ Unsigned(d)
    <3>1. Held(d) = Value(d)
      BY <1>0, <2>1 DEF Held, Value
    <3>2. -(IntMod \div 2) <= Value(d) /\ Value(d) < IntMod \div 2
      <4>1. IntMod \div 2 \in Int
        BY <1>0
      <4> QED BY <1>0, <1>1, <4>1 DEF Abs
    <3> QED BY <1>0, <1>1, <3>1, <3>2, SignedIs DEF IntArg
  <2>2. CASE ~(d.length \in {"h", "ll"} \/ Unsigned(d))
    <3>1. Held(d) = d.num % IntMod /\ Value(d) = Signed(d.num, IntMod)
      BY <1>0, <2>2 DEF Held, Value
    <3>2. Signed(d.num % IntMod, IntMod) = Signed(d.num, IntMod)
      <4>1. IntMod \div 2 \in Int
        BY <1>0
      <4>2. ((d.num % IntMod) + IntMod \div 2) % IntMod = (d.num + IntMod \div 2) % IntMod
        BY <1>0, <4>1, RemainderSum
      <4> QED BY <4>2 DEF Signed
    <3> QED BY <3>1, <3>2 DEF IntArg
  <2> QED BY <2>1, <2>2
<1>3. Abs(Value(d)) \in Nat
  BY <1>1 DEF Abs
<1> QED BY <1>0, <1>1, <1>2, <1>3

\* Its digits are those of C, for strcpy copied them.
LEMMA NumeralShown ==
  ASSUME NEW d \in Directives, Reliable(d), NEW junk
  PROVE  /\ DigitChars(d, junk) = Numeral(d)
         /\ Plainly(Numeral(d)) /\ Len(Numeral(d)) \in 0 .. IntDigits
<1> DEFINE values == Digits(Abs(Value(d)), Radix(d))
<1>0. PtrSize \in 1 .. 8
  BY ConsoleAssumption
<1>1. /\ IntArg(d) = Value(d) /\ Abs(Value(d)) \in Nat /\ Value(d) \in Int
      /\ Abs(Value(d)) < IntMod \div 2
  BY ArgumentArrives
<1>2. Abs(Value(d)) < 8 * 8 * 8 * 8 * 8 * 8 * 8 * 8 * 8 * 8 * 8
  <2>1. IntMod \in Nat /\ ((IntMod \div 256) \div 256) \div 256 <= 256
    BY ConsoleAssumption
  <2>2. IntMod \div 2 < 8 * 8 * 8 * 8 * 8 * 8 * 8 * 8 * 8 * 8 * 8
    BY <2>1
  <2>3. IntMod \div 2 \in Nat
    BY <2>1
  <2> QED BY <1>1, <2>2, <2>3
<1>3. /\ Base(d) \in {8, 10, 16, 17} /\ Radix(d) \in {8, 10, 16}
  BY DEF Base, Radix
<1>4. PICK n \in 1 .. IntDigits : values \in [1 .. n -> 0 .. Radix(d) - 1]
  BY <1>1, <1>2, <1>3, DigitsAre
<1>5. \A v \in Range(values) : v <= PtrSize
  BY DEF Reliable
<1> HIDE DEF values
<1>6. ASSUME NEW k \in 1 .. n PROVE values[k] \in 0 .. PtrSize
  <2>1. values[k] \in Range(values)
    BY <1>4 DEF Range
  <2>2. values[k] \in 0 .. Radix(d) - 1
    BY <1>4
  <2> QED BY <1>0, <1>3, <1>5, <2>1, <2>2
<1>7. IntArg(d) # IntMin
  <2>1. IntMod \div 2 \in Nat
    BY ConsoleAssumption
  <2> QED BY <1>1, <2>1 DEF IntMin, Abs
<1>8. DigitChars(d, junk) = [k \in 1 .. n |-> digit(Base(d))[values[k]]]
  BY <1>1, <1>4, <1>7 DEF DigitChars, values
<1> DEFINE more == IF d.spec = "x" THEN Lower ELSE Upper
           all == Decimal \o more
<1>9. Numeral(d) = [k \in 1 .. n |-> all[values[k] + 1]]
  BY <1>4 DEF Numeral, values
<1>10. \A k \in 1 .. 9 : all[k] = Decimal[k]
  <2>1. IsText(Decimal) /\ IsText(more)
    <3>1. IsText(Decimal)
      <4>1. Decimal \in Seq({"0", "1", "2", "3", "4", "5", "6", "7", "8", "9"})
        BY DEF Decimal
      <4> QED BY <4>1 DEF IsText
    <3>2. IsText(Lower)
      <4>1. Lower \in Seq({"a", "b", "c", "d", "e", "f"})
        BY DEF Lower
      <4> QED BY <4>1 DEF IsText
    <3>3. IsText(Upper)
      <4>1. Upper \in Seq({"A", "B", "C", "D", "E", "F"})
        BY DEF Upper
      <4> QED BY <4>1 DEF IsText
    <3> QED BY <3>1, <3>2, <3>3
  <2>2. Len(Decimal) = 10
    BY DEF Decimal
  <2> HIDE DEF more
  <2>3. \A k \in 1 .. Len(Decimal) : all[k] = Decimal[k]
    BY <2>1, ConcatText
  <2> HIDE DEF all
  <2> QED BY <2>2, <2>3
<1> HIDE DEF all
<1>11. ASSUME NEW k \in 1 .. n
       PROVE  /\ digit(Base(d))[values[k]] = all[values[k] + 1]
              /\ all[values[k] + 1] # NUL
  <2>1. digit(Base(d))[values[k]] = Decimal[values[k] + 1] /\ values[k] + 1 \in 1 .. 9
    BY <1>3, <1>6, DigitCopied
  <2>2. Decimal[values[k] + 1] # NUL
    BY <2>1, DecimalPlainly
  <2> QED BY <1>10, <2>1, <2>2
<1>12. DigitChars(d, junk) = Numeral(d)
  BY <1>8, <1>9, <1>11
<1>13. IsText(Numeral(d)) /\ Len(Numeral(d)) = n
  <2>1. Numeral(d) = [k \in 1 .. n |-> Numeral(d)[k]]
    BY <1>9
  <2> QED BY <2>1, FunctionText
<1>14. \A k \in 1 .. n : Numeral(d)[k] # NUL
  BY <1>9, <1>11
<1> QED BY <1>4, <1>12, <1>13, <1>14 DEF Plainly, IntDigits

LEMMA OneCharacter == ASSUME NEW c, c # NUL PROVE Plainly(<<c>>) /\ Len(<<c>>) = 1
<1>1. <<c>> \in Seq({c}) /\ Len(<<c>>) = 1 /\ <<c>>[1] = c
  OBVIOUS
<1> DEFINE s == <<c>>
<1>2. s \in Seq({c}) /\ Len(s) = 1 /\ s[1] # NUL
  BY <1>1
<1> HIDE DEF s
<1>3. Plainly(s) /\ Len(s) = 1
  BY <1>2 DEF Plainly, IsText
<1> QED BY <1>3 DEF s

\* The sign is at most one character.
LEMMA SignText ==
  ASSUME NEW i, NEW flag
  PROVE  Plainly(SignOf(i, flag)) /\ Len(SignOf(i, flag)) \in 0 .. 1
<1>1. SignOf(i, flag) \in {<<"-">>, <<"+">>, <<BLANK>>, <<>>}
  BY DEF SignOf
<1>2. "-" # NUL /\ "+" # NUL /\ BLANK # NUL
  BY Zenon DEF NUL, BLANK
<1>3. ASSUME NEW s \in {<<"-">>, <<"+">>, <<BLANK>>, <<>>} PROVE Plainly(s) /\ Len(s) \in 0 .. 1
  <2>1. PICK c : c # NUL /\ (s = <<c>> \/ s = <<>>)
    BY <1>2, Zenon
  <2>2. Plainly(<<c>>) /\ Len(<<c>>) = 1
    BY <2>1, OneCharacter
  <2> QED BY <2>1, <2>2, EmptyText
<1> QED BY <1>1, <1>3

LEMMA PadPlain == ASSUME NEW d PROVE PadChar(d) # NUL
<1>1. "0" # NUL /\ BLANK # NUL
  BY Zenon DEF NUL, BLANK
<1> QED BY <1>1, Zenon DEF PadChar

LEMMA Filling ==
  ASSUME NEW x \in Int
  PROVE  Max({0, x}) = IF x > 0 THEN x ELSE 0
<1> DEFINE m == IF x > 0 THEN x ELSE 0
<1>1. m \in {0, x} /\ \A y \in {0, x} : m >= y
  OBVIOUS
<1>2. ASSUME NEW z \in {0, x}, \A y \in {0, x} : z >= y PROVE z = m
  BY <1>1, <1>2
<1> HIDE DEF m
<1>3. Max({0, x}) = m
  BY <1>1, <1>2 DEF Max
<1> QED BY <1>3 DEF m

\* Prefix, sign, digits and filling in the order of printf and in that of C.
Parts(P, S, N, F) ==
  /\ IsText(P) /\ IsText(S) /\ IsText(N) /\ IsText(F)
  /\ P = <<>> \/ S = <<>>
  /\ P = <<>> \/ F = <<>>

InPrintf(P, S, N, F, left) == P \o (IF left THEN (S \o N) \o F ELSE F \o (S \o N))
InC(P, S, N, F, left, zero) ==
  IF left THEN ((S \o P) \o N) \o F
  ELSE IF zero THEN ((S \o P) \o F) \o N
  ELSE (F \o (S \o P)) \o N

LEMMA SameOrder ==
  ASSUME NEW P, NEW S, NEW N, NEW F, Parts(P, S, N, F),
         NEW left, NEW zero, zero => S = <<>> \/ F = <<>>
  PROVE  InPrintf(P, S, N, F, left) = InC(P, S, N, F, left, zero)
<1> SUFFICES /\ P \o ((S \o N) \o F) = ((S \o P) \o N) \o F
             /\ P \o (F \o (S \o N)) = (F \o (S \o P)) \o N
             /\ S = <<>> \/ F = <<>> => P \o (F \o (S \o N)) = ((S \o P) \o F) \o N
  BY DEF InPrintf, InC
<1>0. /\ IsText(P) /\ IsText(S) /\ IsText(N) /\ IsText(F)
      /\ P = <<>> \/ S = <<>>
      /\ P = <<>> \/ F = <<>>
  BY DEF Parts
<1>1. IsText(S \o N) /\ IsText(S \o P) /\ IsText(P \o N) /\ IsText((S \o N) \o F)
      /\ IsText(F \o N) /\ IsText(F \o (S \o N)) /\ IsText(P \o (S \o N))
  BY <1>0, TextOfConcat
<1>2. CASE P = <<>>
  <2>1. /\ P \o ((S \o N) \o F) = (S \o N) \o F /\ P \o (F \o (S \o N)) = F \o (S \o N)
        /\ S \o P = S
    BY <1>0, <1>1, <1>2, ConcatEmpty
  <2>2. (F \o S) \o N = F \o (S \o N)
    BY <1>0, ConcatThree
  <2>3. S = <<>> => F \o (S \o N) = (S \o F) \o N
    BY <1>0, ConcatEmpty
  <2>4. F = <<>> => F \o (S \o N) = (S \o F) \o N
    BY <1>0, <1>1, ConcatEmpty
  <2> QED BY <2>1, <2>2, <2>3, <2>4
<1>3. CASE S = <<>> /\ F = <<>>
  <2>1. S \o N = N /\ S \o P = P /\ N \o F = N /\ F \o N = N /\ F \o P = P /\ P \o F = P
        /\ (P \o N) \o F = P \o N
    BY <1>0, <1>1, <1>3, ConcatEmpty
  <2> QED BY <2>1
<1> QED BY <1>0, <1>2, <1>3

\* As much of it as fills up to pad characters, of which a prefix leaves none.
LEMMA SamePadding ==
  ASSUME NEW pad \in Nat, NEW used \in Nat, NEW lp \in Nat, lp = 0 \/ ~(pad > used)
  PROVE  Max({0, pad - used - lp}) = Max({0, pad - used})
<1> DEFINE x == pad - used - lp
           y == pad - used
<1>1. x \in Int /\ y \in Int /\ (x = y \/ (~(x > 0) /\ ~(y > 0)))
  <2>1. x \in Int /\ y \in Int /\ x = y - lp
    OBVIOUS
  <2>2. ~(pad > used) => ~(y > 0)
    OBVIOUS
  <2> HIDE DEF x, y
  <2> QED BY <2>1, <2>2
<1> HIDE DEF x, y
<1>2. Max({0, x}) = IF x > 0 THEN x ELSE 0
  BY <1>1, Filling
<1>3. Max({0, y}) = IF y > 0 THEN y ELSE 0
  BY <1>1, Filling
<1>4. Max({0, x}) = Max({0, y})
  BY <1>1, <1>2, <1>3
<1> QED BY <1>4 DEF x, y

\* The number printf displays is the one C has.
LEMMA NumberIsRight ==
  ASSUME NEW d \in Directives, Reliable(d), NEW junk
  PROVE  vprintf(d, junk) = Standard(d)
<1> DEFINE S == CSign(d)
           P == CPrefix(d)
           N == Numeral(d)
           t == S \o N
           len == Len(S) + Len(N)
           f == Max({0, d.pad - len})
           c == PadChar(d)
           F == Repeat(c, f)
<1>0. /\ PtrSize \in 1 .. 8 /\ BufSize = 32 /\ IntDigits = 11
      /\ d.pad \in 0 .. 31 /\ d.left \in BOOLEAN /\ d.zero \in BOOLEAN /\ d.alt \in BOOLEAN
  BY ConsoleAssumption, DirectivesAssumption DEF BufSize, IntDigits
<1>1. /\ IntArg(d) = Value(d) /\ Value(d) \in Int
      /\ Unsigned(d) => Value(d) \in Nat
  BY ArgumentArrives
<1>2. /\ d.length # "hh" /\ (Unsigned(d) => d.sign = "none")
      /\ d.alt => ~(d.pad > len) /\ d.spec # "X" /\ Value(d) # 0
      /\ d.pad > len => d.left \/ d.pad <= PtrSize + 1
      /\ d.zero => ~d.left /\ (S = <<>> \/ ~(d.pad > len))
  BY DEF Reliable
<1>3. /\ DigitChars(d, junk) = N /\ Plainly(N) /\ Len(N) \in 0 .. 11
  BY <1>0, NumeralShown
<1>4. SignOf(IntArg(d), d.sign) = S /\ Plainly(S) /\ Len(S) \in 0 .. 1
  <2>1. SignOf(IntArg(d), d.sign) = S
    BY <1>1, <1>2 DEF CSign
  <2> QED BY <2>1, SignText
<1>5. P = Prefix(d) /\ IsText(P) /\ (P = <<>> \/ S = <<>>) /\ (~d.alt => P = <<>>)
  <2>1. P = Prefix(d) /\ (~d.alt => P = <<>>)
    BY <1>2 DEF CPrefix, Prefix
  <2>2. P \in {<<>>, <<"0">>, <<"0", "x">>}
    BY <2>1 DEF Prefix
  <2>3. IsText(P)
    <3>1. <<>> \in Seq({"0", "x"}) /\ <<"0">> \in Seq({"0", "x"})
          /\ <<"0", "x">> \in Seq({"0", "x"})
      OBVIOUS
    <3> QED BY <2>2, <3>1 DEF IsText
  <2>4. P # <<>> => S = <<>>
    <3>1. SUFFICES ASSUME P # <<>> PROVE S = <<>>
      OBVIOUS
    <3>2. Unsigned(d)
      BY <3>1 DEF CPrefix, Unsigned
    <3>3. ~(Value(d) < 0)
      BY <1>1, <3>2
    <3> QED BY <3>2, <3>3 DEF CSign, SignOf
  <2> QED BY <2>1, <2>3, <2>4
<1>6. c # NUL
  BY PadPlain
<1> HIDE DEF S, P, N, c
<1>7. /\ len \in 0 .. 12 /\ f \in Nat
      /\ f = IF d.pad > len THEN d.pad - len ELSE 0
  <2>1. len \in 0 .. 12
    <3>1. Len(N) \in 0 .. 11
      BY <1>3
    <3>2. Len(S) \in 0 .. 1
      BY <1>4
    <3> DEFINE a == Len(N)
               b == Len(S)
    <3> HIDE DEF a, b
    <3>3. a \in 0 .. 11 /\ b \in 0 .. 1
      BY <3>1, <3>2 DEF a, b
    <3>4. b + a \in 0 .. 12
      BY <3>3
    <3> QED BY <3>4 DEF a, b
  <2> HIDE DEF len
  <2>2. f = IF d.pad - len > 0 THEN d.pad - len ELSE 0
    BY <1>0, <2>1, Filling
  <2> HIDE DEF f
  <2> QED BY <1>0, <2>1, <2>2
<1>8. Plainly(t) /\ Len(t) = len
  BY <1>3, <1>4, ConcatPlainly
<1> HIDE DEF t, len, f
<1>9. Plainly(F) /\ Len(F) = f /\ (f = 0 => F = <<>>)
  BY <1>6, <1>7, RepeatText
<1>10. len + f <= BufSize /\ len <= BufSize /\ f <= BufSize
  BY <1>0, <1>7
<1>11. strlen(String(t)) = len /\ Text(String(t)) = t
  BY <1>8, <1>10, StringRead
<1>12. Text(__int_str(d, junk)) = IF d.left THEN t \o F ELSE F \o t
  <2>1. __int_str(d, junk) =
          IF d.left THEN AppendTo(String(t), f, c)
          ELSE strcpy(String(t), strcat(AppendTo(String(<<>>), f, c), String(t)))
    <3>1. SignOf(IntArg(d), d.sign) \o DigitChars(d, junk) = t
      BY <1>3, <1>4 DEF t
    <3>2. Max({0, d.pad - strlen(String(t))}) = f
      BY <1>11 DEF f
    <3> QED BY <3>1, <3>2 DEF __int_str, c
  <2>2. CASE d.left
    <3>1. AppendTo(String(t), f, c) = String(t \o F)
      BY <1>7, <1>8, <1>10, Appended
    <3>2. Plainly(t \o F) /\ Len(t \o F) <= BufSize
      <4>1. Plainly(t \o F) /\ Len(t \o F) = Len(t) + Len(F)
        BY <1>8, <1>9, ConcatPlainly
      <4> HIDE DEF F
      <4> QED BY <1>8, <1>9, <1>10, <4>1
    <3>3. Text(String(t \o F)) = t \o F
      BY <3>2, StringRead
    <3> QED BY <2>1, <2>2, <3>1, <3>3
  <2>3. CASE ~d.left
    <3>1. AppendTo(String(<<>>), f, c) = String(F)
      <4>1. AppendTo(String(<<>>), f, c) = String(<<>> \o F)
        <5>1. Len(<<>>) + f <= BufSize
          BY <1>7, <1>10, EmptyText
        <5> QED BY <1>7, <5>1, EmptyText, Appended
      <4>2. <<>> \o F = F
        BY <1>9, ConcatEmpty DEF Plainly
      <4> QED BY <4>1, <4>2
    <3>2. strcat(String(F), String(t)) = String(F \o t)
      <4>1. Len(F) + Len(t) <= BufSize
        BY <1>7, <1>8, <1>9, <1>10
      <4> QED BY <1>8, <1>9, <4>1, Catenated
    <3>3. Plainly(F \o t) /\ Len(F \o t) = f + len
      <4>1. Plainly(F \o t) /\ Len(F \o t) = Len(F) + Len(t)
        BY <1>8, <1>9, ConcatPlainly
      <4> HIDE DEF F
      <4> QED BY <1>8, <1>9, <4>1
    <3>4. F \o t = t \/ (Len(t) <= Len(F \o t) /\ Len(F \o t) <= PtrSize + 1)
      <4>1. CASE f = 0
        BY <1>8, <1>9, <4>1, ConcatEmpty DEF Plainly
      <4>2. CASE f # 0
        <5>1. d.pad > len /\ f + len = d.pad /\ d.pad <= PtrSize + 1
          <6>1. d.pad > len /\ f = d.pad - len
            BY <1>7, <4>2
          <6>2. d.pad <= PtrSize + 1
            BY <1>2, <2>3, <6>1
          <6> QED BY <1>0, <1>7, <6>1, <6>2
        <5> QED BY <1>0, <1>7, <1>8, <3>3, <5>1
      <4> QED BY <4>1, <4>2
    <3>5. Len(F \o t) <= BufSize
      BY <1>7, <1>10, <3>3
    <3>6. strcpy(String(t), String(F \o t)) = String(F \o t)
      <4> DEFINE s == F \o t
      <4>1. Plainly(s) /\ Len(s) <= BufSize
            /\ (s = t \/ (Len(t) <= Len(s) /\ Len(s) <= PtrSize + 1))
        BY <3>3, <3>4, <3>5
      <4> HIDE DEF s
      <4>2. strcpy(String(t), String(s)) = String(s)
        BY <1>8, <4>1, Copied
      <4> QED BY <4>2 DEF s
    <3>7. Text(String(F \o t)) = F \o t
      BY <3>3, <3>5, StringRead
    <3> QED BY <2>1, <2>3, <3>1, <3>2, <3>6, <3>7
  <2> QED BY <1>0, <2>2, <2>3
<1>13. P = <<>> \/ F = <<>>
  BY <1>2, <1>5, <1>7, <1>9
<1>14. d.zero => S = <<>> \/ F = <<>>
  BY <1>2, <1>7, <1>9
<1>15. vprintf(d, junk) = InPrintf(P, S, N, F, d.left)
  BY <1>2, <1>5, <1>12 DEF vprintf, InPrintf, t
<1>16. Standard(d) = InC(P, S, N, F, d.left, d.zero)
  <2> DEFINE n == Max({0, d.pad - Len(S \o P) - Len(N)})
             fill == [k \in 1 .. n |-> IF d.left THEN BLANK ELSE c]
  <2>1. n = f
    <3>1. Len(S \o P) = Len(S) + Len(P) /\ Len(P) \in Nat /\ (P = <<>> => Len(P) = 0)
      <4>1. IsText(S) /\ IsText(P)
        BY <1>4, <1>5 DEF Plainly
      <4> QED BY <4>1, ConcatText, LengthOfText
    <3>2. Len(N) \in Nat /\ Len(S) \in Nat /\ d.pad \in Nat
      <4>1. Len(N) \in 0 .. 11
        BY <1>3
      <4>2. Len(S) \in 0 .. 1
        BY <1>4
      <4>3. d.pad \in Nat
        BY <1>0
      <4>4. \A x \in 0 .. 11 : x \in Nat
        OBVIOUS
      <4>5. \A x \in 0 .. 1 : x \in Nat
        OBVIOUS
      <4> QED BY <4>1, <4>2, <4>3, <4>4, <4>5, Zenon
    <3>3. Len(P) = 0 \/ ~(d.pad > Len(S) + Len(N))
      BY <1>2, <1>5, <3>1 DEF len
    <3>4. Max({0, d.pad - (Len(S) + Len(P)) - Len(N)}) = Max({0, d.pad - (Len(S) + Len(N))})
      <4> DEFINE ls == Len(S)
                 ln == Len(N)
                 lp == Len(P)
                 pad == d.pad
      <4>1. pad \in Nat /\ ls \in Nat /\ ln \in Nat
        BY <3>2, Zenon
      <4>2. lp \in Nat
        BY <3>1, Zenon
      <4>3. lp = 0 \/ ~(pad > ls + ln)
        BY <3>3, Zenon
      <4> HIDE DEF ls, ln, lp, pad
      <4>4. Max({0, pad - (ls + lp) - ln}) = Max({0, pad - (ls + ln)})
        <5> DEFINE m == ls + ln
        <5>1. m \in Nat /\ (lp = 0 \/ ~(pad > m))
          BY <4>1, <4>3
        <5>2. pad - (ls + lp) - ln = pad - m - lp
          BY <4>1, <4>2
        <5> HIDE DEF m
        <5>3. Max({0, pad - m - lp}) = Max({0, pad - m})
          BY <4>1, <4>2, <5>1, SamePadding
        <5>4. Max({0, pad - (ls + lp) - ln}) = Max({0, pad - m})
          BY <5>2, <5>3, Zenon
        <5> QED BY <5>4 DEF m
      <4> QED BY <4>4 DEF ls, ln, lp, pad
    <3> QED BY <3>1, <3>4 DEF f, len
  <2>2. d.left => c = BLANK
    BY <1>0, <1>2 DEF c, PadChar
  <2>3. fill = F
    <3> HIDE DEF n
    <3>1. fill = [k \in 1 .. f |-> c]
      BY <2>1, <2>2
    <3> QED BY <3>1 DEF Repeat
  <2>4. Standard(d) = InC(P, S, N, fill, d.left, d.zero)
    BY DEF Standard, InC, S, P, N, c
  <2> HIDE DEF fill, F
  <2> QED BY <2>3, <2>4
<1>17. Parts(P, S, N, F)
  BY <1>3, <1>4, <1>5, <1>9, <1>13 DEF Parts, Plainly
<1> QED BY <1>14, <1>15, <1>16, <1>17, SameOrder

\* What is displayed came out of vprintf.
Numbers ==
  call.of = <<>> \/ \E d \in Directives, junk \in Junk :
                      call.of = <<d>> /\ call.text = vprintf(d, junk)

\* Only PrintNumber and Trap change it.
LEMMA NumbersKept == Numbers /\ [Next]_vars => Numbers'
<1> SUFFICES ASSUME Numbers, [Next]_vars PROVE Numbers'
  OBVIOUS
<1>1. CASE UNCHANGED call
  BY <1>1 DEF Numbers
<1>2. ASSUME NEW d \in Directives, PrintNumber(d) PROVE Numbers'
  BY <1>2 DEF PrintNumber, Numbers
<1>3. ASSUME NEW v, Trap(v) PROVE Numbers'
  BY <1>3 DEF Trap, Numbers
<1>4. CASE terminal_putchar \/ Hang \/ UNCHANGED vars
  <2>1. UNCHANGED call
    BY <1>4 DEF terminal_putchar, PutEntry, NextColumn, NewLine, NextRow, Clear, Hang, vars
  <2> QED BY <1>1, <2>1
<1>5. ASSUME NEW s, PrintText(s) PROVE Numbers'
  BY <1>1, <1>5 DEF PrintText
<1> QED BY <1>2, <1>3, <1>4, <1>5 DEF Next

\* Within its limits printf shows every number as C has it (strcpy.c:4,
\* printf.c:15-72), for every size of a pointer and of an int and every directive.
THEOREM NumbersShown == Spec => []NumbersRight
<1>1. Init => Numbers
  BY DEF Init, NoCall, Numbers
<1>2. Numbers /\ [Next]_vars => Numbers'
  BY NumbersKept
<1>3. Numbers => NumbersRight
  <2> SUFFICES ASSUME Numbers, NEW k \in DOMAIN call.of, Reliable(call.of[k])
               PROVE  call.text = Standard(call.of[k])
    BY DEF NumbersRight
  <2>1. PICK d \in Directives, junk \in Junk :
          call.of = <<d>> /\ call.text = vprintf(d, junk)
    BY DEF Numbers
  <2>2. k = 1 /\ call.of[k] = d
    BY <2>1
  <2> QED BY <2>1, <2>2, NumberIsRight
<1> QED BY <1>1, <1>2, <1>3, PTL DEF Spec
=============================================================================
