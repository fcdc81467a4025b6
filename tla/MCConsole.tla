----------------------------- MODULE MCConsole -----------------------------
(* Instances of Console for TLC: a terminal of two or three rows of four     *)
(* columns, texts that fill rows exactly, end on a row's end and wrap, and   *)
(* numbers on both sides of what printf does right: digits, signs, padding,  *)
(* prefixes, and arguments that do not fit a short or an int of 14 bits.     *)
EXTENDS Console

SomeTexts == {<<"O", "K", NL>>, <<"a", "b", "c", "d">>,
              <<"l", "o", "n", "g", "e", "r", BLANK, "l", NL>>}

Form(spec, i, pad) == [Plain(i) EXCEPT !.spec = spec, !.pad = pad]
Long(spec, length, i) == [Plain(i) EXCEPT !.spec = spec, !.length = length]

SomeForms ==
  { Plain(0), Plain(-434), Plain(57), Plain(IntMin), Plain(IntMin + 1),
    Form("d", 12, 5), Form("i", 12, 7), Form("u", IntMod - 1, 0),
    [Form("d", 4096, 6) EXCEPT !.left = TRUE],
    [Form("d", IntMin, 6) EXCEPT !.left = TRUE],
    [Form("d", 4, 3) EXCEPT !.zero = TRUE, !.sign = "space"],
    [Form("d", 4, 4) EXCEPT !.zero = TRUE],
    [Form("u", 4, 0) EXCEPT !.sign = "plus"],
    [Form("o", 28, 0) EXCEPT !.alt = TRUE],
    [Form("X", 434, 0) EXCEPT !.alt = TRUE],
    [Form("x", 0, 0) EXCEPT !.alt = TRUE],
    [Form("x", 290, 4) EXCEPT !.sign = "plus"],
    Form("p", 8192, 0), Form("p", 4130, 0),
    Long("d", "h", 298), Long("u", "h", -14), Long("x", "hh", 3),
    Long("d", "ll", 4130), Long("u", "ll", 16384 + 44), Long("d", "l", -30), Long("u", "z", 2114) }

FewForms == {Plain(i) : i \in {12, 5, 4096}}

Faults == {8, 13, 14}

AnyJunk == {NUL, "?"}
=============================================================================
