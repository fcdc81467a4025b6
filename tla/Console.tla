------------------------------ MODULE Console ------------------------------
(***************************************************************************)
(* What the kernel shows: printf with its conversion of integers, built on *)
(* the kernel's own string functions, and the terminal it prints to, one   *)
(* step per store of terminal_putchar.  A handler that stops the kernel    *)
(* prints its message from wherever the interrupted printf had come, and   *)
(* never returns.                                                          *)
(*                                                                         *)
(* A directive is the record its characters are parsed into; characters    *)
(* are strings of length one, NUL is "".                                   *)
(***************************************************************************)
EXTENDS Integers, Sequences, FiniteSets, FiniteSetsExt, Functions

CONSTANTS
  Width, Height,  \* VGA_WIDTH, VGA_HEIGHT
  PtrSize,        \* sizeof(char *)
  CharMod, ShortMod, IntMod,  \* 2^8, 2^16 and 2^32 in the code
  Junk,           \* what memory outside an array may hold as a character
  Texts,          \* literal pieces of formats, and strings printed with %s
  Directives,     \* the number directives, with their arguments
  Vectors,        \* the interrupts that stop the kernel
  MaxPrints       \* bound: pieces kernel_main prints

Cells == 0 .. Width * Height - 1

ASSUME ConsoleAssumption ==
  /\ Width \in Nat \ {0} /\ Height \in Nat \ {0} /\ PtrSize \in 1 .. 8
  /\ MaxPrints \in Nat
  /\ {CharMod, ShortMod, IntMod} \subseteq Nat \ {0}
  /\ ((IntMod \div 256) \div 256) \div 256 <= 256  \* an int has at most 32 bits
  /\ CharMod % 2 = 0 /\ ShortMod % CharMod = 0 /\ IntMod % ShortMod = 0 /\ Junk # {}
  /\ \A s \in Texts : s \in Seq(Range(s))

VARIABLES
  who,     \* which code prints: kernel_main, a handler, or nothing any more
  pc,      \* where terminal_putchar is; "next" between two characters
  rest,    \* the characters that are still to be displayed
  at,      \* the cell terminal_clear is at
  row, column, screen,  \* terminal_row, terminal_column, terminal_buffer
  prints,  \* history: the pieces kernel_main has printed
  call,    \* history: the last number directive
  page,    \* history: what kernel_main displayed since the last clear
  mark     \* history: the text that would bring the cursor to the handler's start

vars == <<who, pc, rest, at, row, column, screen, prints, call, page, mark>>

NUL   == ""
NL    == "\n"
BLANK == " "

-----------------------------------------------------------------------------
(* Strings: functions from 0 to characters, cut to BufSize cells.           *)

BufSize == 32
String(s) == [k \in 0 .. BufSize - 1 |-> IF k < Len(s) THEN s[k + 1] ELSE NUL]

strlen(b) == Cardinality({k \in DOMAIN b : \A j \in 0 .. k : b[j] # NUL})
Text(b)   == [k \in 1 .. strlen(b) |-> b[k - 1]]

FaultyStrcpyPointerOnly(dest, src) ==
  [k \in DOMAIN dest |-> IF k < PtrSize THEN src[k] ELSE dest[k]]

\* Copies sizeof(src) + 1 bytes, src being a pointer.
strcpy(dest, src) ==
  [k \in DOMAIN dest |-> IF k < PtrSize + 1 THEN src[k] ELSE dest[k]]

strcat(dest, src) ==
  LET n == strlen(dest)
  IN [k \in DOMAIN dest |-> IF k \in n .. n + strlen(src) THEN src[k - n] ELSE dest[k]]

-----------------------------------------------------------------------------
(* vprintf of a number.  A directive has its specifier and length, the     *)
(* argument num, a value of the argument's type, and flags and width; the  *)
(* precision, which numbers ignore, is left out.                           *)

Signed(n, mod) == ((n + mod \div 2) % mod) - mod \div 2

Unsigned(d) == d.spec \in {"u", "o", "x", "X", "p"}

\* The width leaves room for the NUL, and an unsigned argument is not negative.
ASSUME DirectivesAssumption ==
  \A d \in Directives :
    /\ d.num \in Int /\ d.pad \in 0 .. BufSize - 1
    /\ d.left \in BOOLEAN /\ d.zero \in BOOLEAN /\ d.alt \in BOOLEAN
    /\ (d.length = "ll" /\ Unsigned(d)) => d.num \in Nat

\* The base is 17 for %x, which tells its digits from those of %X.
Base(d)  == CASE d.spec = "o" -> 8 [] d.spec \in {"X", "p"} -> 16
              [] d.spec = "x" -> 17 [] OTHER -> 10
Radix(d) == IF Base(d) = 17 THEN 16 ELSE Base(d)

\* What the variable integer holds, and the parameter i of __int_str then.
Held(d) ==
  CASE d.length = "h"  -> IF Unsigned(d) THEN d.num % ShortMod ELSE Signed(d.num, ShortMod)
    [] d.length = "ll" -> d.num
    [] OTHER           -> d.num % IntMod
IntArg(d) == Signed(Held(d), IntMod)

IntMin == -(IntMod \div 2)

Decimal == <<"0", "1", "2", "3", "4", "5", "6", "7", "8", "9">>
Upper   == <<"A", "B", "C", "D", "E", "F">>
Lower   == <<"a", "b", "c", "d", "e", "f">>

\* The array digit.
digit(base) ==
  LET decimal == strcpy(String(<<>>), String(Decimal))
  IN CASE base = 16 -> strcat(decimal, String(Upper))
       [] base = 17 -> strcat(decimal, String(Lower))
       [] OTHER     -> decimal

Abs(i) == IF i < 0 THEN -i ELSE i

\* An int32_t has at most eleven digits, in base 8.
IntDigits == 11

\* The values of the digits of i, the most significant first, and what
\* dividing by the base leaves after so many turns.
Digits(i, radix) ==
  LET shifter[k \in 0 .. IntDigits] == IF k = 0 THEN i ELSE shifter[k - 1] \div radix
      n == CHOOSE n \in 1 .. IntDigits : shifter[n] = 0 /\ (n = 1 \/ shifter[n - 1] # 0)
  IN [k \in 1 .. n |-> shifter[n - k] % radix]

\* The least int stays negative when its sign is turned, and so do its digits,
\* which are looked up before the start of the array.
DigitChars(d, junk) ==
  LET values == Digits(Abs(IntArg(d)), Radix(d))
  IN [k \in DOMAIN values |->
        IF IntArg(d) = IntMin /\ values[k] # 0 THEN junk ELSE digit(Base(d))[values[k]]]

SignOf(i, flag) ==
  IF i < 0 THEN <<"-">>
  ELSE CASE flag = "plus" -> <<"+">> [] flag = "space" -> <<BLANK>> [] OTHER -> <<>>

PadChar(d) == IF d.zero THEN "0" ELSE BLANK

\* n times b[strlen(b)] = c.
AppendTo(b, n, c) ==
  [k \in DOMAIN b |->
     IF b[k] = NUL /\ Cardinality({j \in 0 .. k - 1 : b[j] = NUL}) < n THEN c ELSE b[k]]

\* Padded on the right the bytes behind a NUL come back into view.
__int_str(d, junk) ==
  LET b == String(SignOf(IntArg(d), d.sign) \o DigitChars(d, junk))
      padding == Max({0, d.pad - strlen(b)})
  IN IF d.left THEN AppendTo(b, padding, PadChar(d))
     ELSE strcpy(b, strcat(AppendTo(String(<<>>), padding, PadChar(d)), b))

\* %o, %x and %X with # have a prefix.
Prefix(d) ==
  IF ~d.alt THEN <<>> ELSE
  CASE d.spec = "o" -> <<"0">> [] d.spec \in {"x", "X"} -> <<"0", "x">> [] OTHER -> <<>>

\* What vprintf displays.  Of hh it passes over one h only: the other is the
\* specifier then, which it does not know, and the specifier is a text.
vprintf(d, junk) ==
  IF d.length = "hh" THEN <<d.spec>> ELSE Prefix(d) \o Text(__int_str(d, junk))

-----------------------------------------------------------------------------
(* The terminal.                                                           *)

FaultyIndex(r, c) == r * Height + c
Index(r, c) == r * Width + c

FaultyColumnAfter(c) == (c + 1) % (Width + 1)
ColumnAfter(c) == (c + 1) % Width

FaultyRowAfter(r) == (r + 1) % (Height + 1)

\* The build keeps the incremented row in a register until it is compared.
RowAfter(r) == (r + 1) % Height

Running == who \in {"main", "handler"}

\* The character is done with.
Done ==
  /\ pc' = "next" /\ rest' = Tail(rest)
  /\ page' = IF who = "main" THEN Append(page, Head(rest)) ELSE page

terminal_initialize ==
  /\ row = 0 /\ column = 0 /\ screen = [k \in Cells |-> BLANK]

PutEntry ==
  /\ Running /\ pc = "next" /\ rest # <<>> /\ Head(rest) # NL
  /\ screen' = [screen EXCEPT ![Index(row, column)] = Head(rest)]
  /\ pc' = "column"
  /\ UNCHANGED <<who, rest, at, row, column, prints, call, page, mark>>

NextColumn ==
  /\ Running /\ pc = "column"
  /\ column' = ColumnAfter(column)
  /\ IF column' = 0 THEN pc' = "row" /\ UNCHANGED <<rest, page>> ELSE Done
  /\ UNCHANGED <<who, at, row, screen, prints, call, mark>>

NewLine ==
  /\ Running /\ pc = "next" /\ rest # <<>> /\ Head(rest) = NL
  /\ column' = 0 /\ pc' = "row"
  /\ UNCHANGED <<who, rest, at, row, screen, prints, call, page, mark>>

NextRow ==
  /\ Running /\ pc = "row"
  /\ row' = RowAfter(row)
  /\ IF row' = 0 THEN pc' = "clear" /\ UNCHANGED <<rest, page>> ELSE Done
  /\ UNCHANGED <<who, at, column, screen, prints, call, mark>>

\* terminal_clear, one cell of the screen after the other.
Clear ==
  /\ Running /\ pc = "clear"
  /\ screen' = [screen EXCEPT ![at] = BLANK]
  /\ IF at + 1 \in Cells
     THEN at' = at + 1 /\ UNCHANGED <<pc, rest, page>>
     ELSE at' = 0 /\ pc' = "next" /\ rest' = Tail(rest)
          /\ page' = IF who = "main" THEN <<>> ELSE page
  /\ UNCHANGED <<who, row, column, prints, call, mark>>

-----------------------------------------------------------------------------
(* Who prints.                                                             *)

NoCall == [text |-> <<>>, of |-> <<>>]

Prints(s) ==
  /\ who = "main" /\ pc = "next" /\ rest = <<>>
  /\ prints < MaxPrints           \* bound
  /\ prints' = prints + 1 /\ rest' = s
  /\ UNCHANGED <<who, pc, at, row, column, screen, page, mark>>

PrintText(s) == Prints(s) /\ UNCHANGED call

PrintNumber(d) ==
  /\ \E junk \in Junk :
       LET text == vprintf(d, junk)
       IN Prints(text) /\ call' = [text |-> text, of |-> <<d>>]

\* What interrupt_handler, or page_fault and abort, print before they stop.
Plain(i) == [spec |-> "d", length |-> "", num |-> i, sign |-> "none", pad |-> 0,
             left |-> FALSE, zero |-> FALSE, alt |-> FALSE]
Message(v) ==
  IF v = 14 THEN <<"P", NL, "k", NL>> ELSE <<"E">> \o vprintf(Plain(v), NUL) \o <<NL>>

\* A text of newlines and blanks that leads to the cursor.
CursorText == [k \in 1 .. row + column |-> IF k <= row THEN NL ELSE BLANK]

Trap(v) ==
  /\ who = "main"
  /\ who' = "handler" /\ pc' = "next" /\ at' = 0 /\ rest' = Message(v)
  /\ call' = [text |-> Message(v), of |-> <<>>]
  /\ mark' = CursorText
  /\ UNCHANGED <<row, column, screen, prints, page>>

Hang ==
  /\ who = "handler" /\ pc = "next" /\ rest = <<>>
  /\ who' = "hung"
  /\ UNCHANGED <<pc, rest, at, row, column, screen, prints, call, page, mark>>

Init ==
  /\ who = "main" /\ pc = "next" /\ rest = <<>> /\ at = 0
  /\ terminal_initialize
  /\ prints = 0 /\ call = NoCall /\ page = <<>> /\ mark = <<>>

terminal_putchar == PutEntry \/ NextColumn \/ NewLine \/ NextRow \/ Clear

Next == \/ terminal_putchar \/ Hang
        \/ \E s \in Texts : PrintText(s)
        \/ \E d \in Directives : PrintNumber(d)
        \/ \E v \in Vectors : Trap(v)

Spec == Init /\ [][Next]_vars

-----------------------------------------------------------------------------
(* Properties.                                                             *)

TypeOK ==
  /\ who \in {"main", "handler", "hung"}
  /\ pc \in {"next", "column", "row", "clear"}
  /\ at \in Cells /\ row \in 0 .. Height - 1 /\ column \in 0 .. Width - 1
  /\ DOMAIN screen = Cells /\ prints \in 0 .. MaxPrints

\* The reference: where the character number k of a text stands, counting from
\* the top.  Above it are the rows that end before it, with a newline or with
\* their last column; after a full row a newline ends another.
Breaks(text, k)  == {j \in 1 .. k - 1 : text[j] = NL}
LineStart(text, k) == Max({0} \cup Breaks(text, k))
Offset(text, k)  == k - LineStart(text, k) - 1
RowEnds(text, k) == {j \in 1 .. k - 1 : text[j] = NL \/ (Offset(text, j) + 1) % Width = 0}
RowOf(text, k)   == Cardinality(RowEnds(text, k))
Place(text, k)   == RowOf(text, k) * Width + (Offset(text, k) % Width)
Letters(text)    == {k \in 1 .. Len(text) : text[k] # NL}

\* Between two characters the screen shows all that was displayed since the
\* last clear, laid out in lines, and nothing else, and the cursor stands
\* behind it (tty.c:50): no wrap, newline or clear loses or moves a character.
ScreenIsPage ==
  (who = "main" /\ pc = "next") =>
    /\ \A k \in Letters(page) : screen[Place(page, k)] = page[k]
    /\ \A c \in Cells \ {Place(page, k) : k \in Letters(page)} : screen[c] = BLANK
    /\ Index(row, column) = Place(page, Len(page) + 1)

\* When a handler has stopped the kernel its message stands on the screen in
\* full, wherever it interrupted the printing of another (isr.c:51), unless the
\* message itself reached the last row's end and cleared the screen.
MessageShown ==
  LET text == mark \o call.text
      fits == RowOf(text, Len(text) + 1) < Height
  IN (who = "hung" /\ fits) =>
       \A k \in Letters(text) \ DOMAIN mark : screen[Place(text, k)] = text[k]

\* The reference for numbers, C's: the argument in the type its length says,
\* sign and digits, and prefix, filled up to pad characters.
Value(d) ==
  LET mod == CASE d.length = "hh" -> CharMod [] d.length = "h" -> ShortMod [] OTHER -> IntMod
  IN IF d.length = "ll" THEN d.num
     ELSE IF Unsigned(d) THEN d.num % mod ELSE Signed(d.num, mod)

Numeral(d) ==
  LET values == Digits(Abs(Value(d)), Radix(d))
  IN [k \in DOMAIN values |->
        (Decimal \o (IF d.spec = "x" THEN Lower ELSE Upper))[values[k] + 1]]

CSign(d) == SignOf(Value(d), IF Unsigned(d) THEN "none" ELSE d.sign)

CPrefix(d) ==
  IF ~d.alt \/ Value(d) = 0 THEN <<>> ELSE
  CASE d.spec = "o" -> <<"0">> [] d.spec = "x" -> <<"0", "x">> [] d.spec = "X" -> <<"0", "X">>
    [] OTHER -> <<>>

Standard(d) ==
  LET front == CSign(d) \o CPrefix(d)
      n     == Max({0, d.pad - Len(front) - Len(Numeral(d))})
      fill  == [k \in 1 .. n |-> IF d.left THEN BLANK ELSE PadChar(d)]
  IN IF d.left THEN front \o Numeral(d) \o fill
     ELSE IF d.zero THEN front \o fill \o Numeral(d)
     ELSE fill \o front \o Numeral(d)

\* The numbers printf is sure to get right: they fit an int and have its
\* opposite, and digits that strcpy copied; no flag is there that has no effect;
\* what is padded on the left strcpy copies back, and zeros do not meet a sign,
\* a prefix or the right margin.
Reliable(d) ==
  LET len    == Len(CSign(d)) + Len(Numeral(d))
      padded == d.pad > len
  IN /\ d.length # "hh" /\ Abs(Value(d)) < IntMod \div 2
     /\ \A v \in Range(Digits(Abs(Value(d)), Radix(d))) : v <= PtrSize
     /\ Unsigned(d) => d.sign = "none"
     /\ d.alt => ~padded /\ d.spec # "X" /\ Value(d) # 0
     /\ padded => d.left \/ d.pad <= PtrSize + 1
     /\ d.zero => ~d.left /\ (CSign(d) = <<>> \/ ~padded)

\* Within these limits every number is shown as C has it, though strcpy never
\* copies more than five bytes (strcpy.c:4, printf.c:20, 72), and every argument
\* is an int32_t on its way (printf.c:15).
NumbersRight ==
  \A k \in DOMAIN call.of :
    Reliable(call.of[k]) => call.text = Standard(call.of[k])

\* "in printf trying to print 4096 (%d) only prints 40, not reproduced with
\* other numbers yet", README.md:30: any other number is shown right.
OtherNumbersRight ==
  \A k \in DOMAIN call.of :
    call.of[k].num # 4096 => call.text = Standard(call.of[k])
=============================================================================
