------------------------------- MODULE Printf -------------------------------
(***************************************************************************)
(* printer::vprintf, print_number and vsnprintf of lab 4 (lib.cc).  A      *)
(* format is a sequence of characters, an argument is a machine word, or a *)
(* sequence of characters for %s; ints have IntBits bits, longs LongBits.  *)
(***************************************************************************)
EXTENDS Integers, Sequences, SequencesExt, FiniteSets, FiniteSetsExt

CONSTANTS
  IntBits, LongBits,
  NUMBUFSIZ,            \* 32
  Words, Strings,       \* the arguments
  FlagSets, Widths, Precisions, Conversions,
  MaxPieces,            \* pieces of a format
  Sizes                 \* sizes of a buffer for vsnprintf

VARIABLE pieces         \* a format with its arguments, as a program writes it

UpperDigits == <<"0", "1", "2", "3", "4", "5", "6", "7", "8", "9", "A", "B", "C", "D", "E", "F">>
LowerDigits == <<"0", "1", "2", "3", "4", "5", "6", "7", "8", "9", "a", "b", "c", "d", "e", "f">>
flag_chars == {"#", "0", "-", " ", "+", "'"}
Decimal == {LowerDigits[k] : k \in 1..10}
DigitOf(c) == CHOOSE k \in 0..9 : LowerDigits[k + 1] = c
Word(bits, w) == w % 2^bits
Signed(bits, w) == IF Word(bits, w) >= 2^(bits - 1) THEN Word(bits, w) - 2^bits ELSE Word(bits, w)

-----------------------------------------------------------------------------
(* print_number: the buffer is filled from its end.                        *)
RECURSIVE Fill(_, _, _, _, _)
Fill(text, val, base, thousands, thousands_pos) ==
  LET group == IF base = 10 THEN 3 ELSE 4
      pos == NUMBUFSIZ - 1 - Len(text)
      here == thousands /\ pos = thousands_pos
      digits == IF base < 0 THEN LowerDigits ELSE UpperDigits
      b == IF base < 0 THEN -base ELSE base
      text2 == <<IF here THEN IF b = 10 THEN "," ELSE "'" ELSE digits[(val % b) + 1]>> \o text
      val2 == IF here THEN val ELSE val \div b
  IN IF val2 # 0 /\ pos - 1 # 0
       THEN Fill(text2, val2, base, thousands, IF here THEN pos - 1 - group ELSE thousands_pos)
       ELSE text2

print_number(val, base, flags) ==
  Fill(<< >>, val, base, "'" \in flags, NUMBUFSIZ - 1 - (IF base = 10 THEN 3 ELSE 4))

-----------------------------------------------------------------------------
(* vprintf: what is between '%' and the conversion character               *)

\* how many characters at the start of f are in the set cs
Run(f, cs) == Min({n \in 0..Len(f) : n = Len(f) \/ f[n + 1] \notin cs})
Drop(f, n) == SubSeq(f, n + 1, Len(f))
Starts(f, cs) == f # << >> /\ Head(f) \in cs
Number(f) == FoldLeft(LAMBDA v, c : 10 * v + DigitOf(c), 0, f)

\* A conversion on its way: what is left of the format and of the arguments, and
\* what has been read.  Each reader takes its part from the front.
Begun(f, args) ==
  [f |-> f, args |-> args, flags |-> {}, width |-> -1, precision |-> -1, long |-> FALSE]

Flags(d) ==
  LET n == Run(d.f, flag_chars) IN [d EXCEPT !.flags = {d.f[k] : k \in 1..n}, !.f = Drop(@, n)]

\* a number whose first digit is in first, or a star
Count(d, first) ==
  IF Starts(d.f, first)
    THEN LET n == Run(d.f, Decimal)
         IN [v |-> Number(SubSeq(d.f, 1, n)), f |-> Drop(d.f, n), args |-> d.args]
  ELSE IF Starts(d.f, {"*"})
    THEN [v |-> Signed(IntBits, Head(d.args)), f |-> Tail(d.f), args |-> Tail(d.args)]
  ELSE [v |-> -1, f |-> d.f, args |-> d.args]

Width(d) ==
  LET c == Count(d, Decimal \ {"0"}) IN [d EXCEPT !.width = c.v, !.f = c.f, !.args = c.args]

Precision(d) ==
  IF ~Starts(d.f, {"."}) THEN d
  ELSE LET c == Count([d EXCEPT !.f = Tail(@)], Decimal)
       IN [d EXCEPT !.precision = Max({c.v, 0}), !.f = c.f, !.args = c.args]

Length(d) == IF Starts(d.f, {"l", "t", "z"}) THEN [d EXCEPT !.long = TRUE, !.f = Tail(@)]
             ELSE IF Starts(d.f, {"h"}) THEN [d EXCEPT !.f = Tail(@)] ELSE d

\* mutant: zero padding forgets the sign or prefix
Zeros_noprefix(flags, numeric, precision, width, prefix, datalen) ==
  IF numeric /\ precision >= 0 THEN Max({precision - datalen, 0})
  ELSE IF numeric /\ "0" \in flags /\ "-" \notin flags THEN Max({width - datalen, 0})
  ELSE 0

Zeros(flags, numeric, precision, width, prefix, datalen) ==
  IF numeric /\ precision >= 0 THEN Max({precision - datalen, 0})
  ELSE IF numeric /\ "0" \in flags /\ "-" \notin flags
    THEN Max({width - datalen - Len(prefix), 0})
  ELSE 0

Times(n, c) == [k \in 1..Max({n, 0}) |-> c]

\* the end of the loop's body: padding, prefix, zeros, data, padding
Field(flags, numeric, precision, width, prefix, data) ==
  LET datalen == IF precision >= 0 /\ ~numeric THEN Min({Len(data), precision}) ELSE Len(data)
      zeros == Zeros(flags, numeric, precision, width, prefix, datalen)
      pad == Times(width - datalen - zeros - Len(prefix), " ")
      left == "-" \in flags
  IN (IF left THEN << >> ELSE pad) \o prefix \o Times(zeros, "0") \o SubSeq(data, 1, datalen)
       \o (IF left THEN pad ELSE << >>)

\* numeric conversions: [num, base, prefix]
Numeric(c, long, flags, w) ==
  LET bits == IF long THEN LongBits ELSE IntBits
      x == Signed(bits, w)
      signed == c \in {"d", "i"}
      num == IF c = "p" THEN w ELSE IF ~signed THEN Word(bits, w) ELSE IF x < 0 THEN -x ELSE x
      alt == "#" \in flags \/ c = "p"
  IN [num |-> num,
      base |-> IF c \in {"x", "p"} THEN -16 ELSE IF c = "X" THEN 16 ELSE 10,
      prefix |-> IF signed THEN IF x < 0 THEN <<"-">>
                                ELSE IF "+" \in flags THEN <<"+">>
                                ELSE IF " " \in flags THEN <<" ">> ELSE << >>
                 ELSE IF alt /\ c \in {"x", "X", "p"} /\ (num # 0 \/ c = "p")
                   THEN <<"0", IF c = "X" THEN "X" ELSE "x">> ELSE << >>]

Put(text, color) == [k \in 1..Len(text) |-> <<text[k], color>>]

\* the field of a conversion, of a number and of anything else
NumberField(d, n) ==
  Field(d.flags, TRUE, d.precision, d.width, n.prefix, print_number(n.num, n.base, d.flags))
TextField(d, c) ==
  Field(d.flags, FALSE, d.precision, d.width, << >>,
        IF c = "s" THEN Head(d.args)
        ELSE IF c = "c" THEN <<LowerDigits[(Head(d.args) % 10) + 1]>>
        ELSE <<IF c = "" THEN "%" ELSE c>>)

\* the characters that vprintf gives to putc, with their colors
RECURSIVE vprintf(_, _, _), Convert(_, _, _, _)
vprintf(color, f, args) ==
  IF f = << >> THEN << >>
  ELSE IF Head(f) # "%" THEN Put(<<Head(f)>>, color) \o vprintf(color, Tail(f), args)
  ELSE LET d == Length(Precision(Width(Flags(Begun(Tail(f), args)))))
       IN IF d.f = << >> THEN Convert(color, d, "", << >>)
          ELSE Convert(color, d, Head(d.f), Tail(d.f))

Convert(color, d, c, rest) ==
  IF c = "C" THEN vprintf(Head(d.args), rest, Tail(d.args))
  ELSE IF c \in {"d", "i", "u", "x", "X", "p"} THEN
    Put(NumberField(d, Numeric(c, d.long, d.flags, Head(d.args))), color)
      \o vprintf(color, rest, Tail(d.args))
  ELSE Put(TextField(d, c), color)
         \o vprintf(color, rest, IF c \in {"s", "c"} THEN Tail(d.args) ELSE d.args)

-----------------------------------------------------------------------------
(* string_printer and vsnprintf, on a buffer whose bytes are "?" before    *)
Buffer == Max(Sizes) + 1

Putc(sp, c) ==
  IF sp.s < sp.size THEN [sp EXCEPT !.s = @ + 1, !.n = @ + 1, !.buf[sp.s + 1] = c]
  ELSE [sp EXCEPT !.n = @ + 1]

\* the null byte ("") after the loop
Terminate(sp) ==
  IF sp.size = 0 THEN sp
  ELSE IF sp.s < sp.size THEN [sp EXCEPT !.buf[sp.s + 1] = ""]
  ELSE [sp EXCEPT !.buf[sp.size] = ""]

vsnprintf(size, text) ==
  Terminate(FoldLeft(Putc, [s |-> 0, size |-> size, n |-> 0, buf |-> [k \in 1..Buffer |-> "?"]], text))

-----------------------------------------------------------------------------
(* Formats as programs write them: conversions with their arguments.  With *)
(* star the width is passed as an argument.                                *)
None == -1
Conversion ==
  {p \in [flags : FlagSets, width : Widths, star : BOOLEAN, precision : Precisions,
          long : BOOLEAN, c : Conversions, w : Words, str : Strings] :
     /\ p.c \notin {"d", "u"} => ~p.long
     /\ p.c = "s" => p.w = Min(Words)
     /\ p.c # "s" => p.str = CHOOSE s \in Strings : TRUE
     /\ p.c \in {"s", "c"} => p.flags \subseteq {"-"}
     /\ p.c \in {"c", "%"} => p.precision = None
     /\ p.width = None => ~p.star}

Init == pieces = << >>
Next == Len(pieces) < MaxPieces /\ \E p \in Conversion : pieces' = Append(pieces, p)
Spec == Init /\ [][Next]_pieces

\* the text of a number below 100
Text(n) == IF n > 9 THEN <<LowerDigits[(n \div 10) + 1], LowerDigits[(n % 10) + 1]>>
           ELSE <<LowerDigits[n + 1]>>
FlagOrder == <<"#", "0", "-", " ", "+", "'">>

Format(p) ==
  <<"%">> \o SelectSeq(FlagOrder, LAMBDA c : c \in p.flags)
    \o (IF p.width = None THEN << >> ELSE IF p.star THEN <<"*">> ELSE Text(p.width))
    \o (IF p.precision = None THEN << >> ELSE <<".">> \o Text(p.precision))
    \o (IF p.long THEN <<"l">> ELSE << >>) \o <<p.c>>
Args(p) ==
  (IF p.star THEN <<p.width>> ELSE << >>)
    \o (IF p.c = "s" THEN <<p.str>> ELSE IF p.c = "%" THEN << >> ELSE <<p.w>>)

Flat(F(_)) == FoldLeft(LAMBDA all, p : all \o F(p), << >>, pieces)
Output == vprintf(7, Flat(Format) \o <<"!">>, Flat(Args))

-----------------------------------------------------------------------------
(* What printf promises                                                    *)
RECURSIVE Digits(_, _)
Digits(v, b) == (IF v < b THEN << >> ELSE Digits(v \div b, b)) \o <<(v % b)>>
RECURSIVE Group(_, _, _)
Group(ds, n, sep) ==
  IF Len(ds) <= n THEN ds
  ELSE Group(SubSeq(ds, 1, Len(ds) - n), n, sep) \o <<sep>> \o SubSeq(ds, Len(ds) - n + 1, Len(ds))

\* sign or prefix, and digits, of a number
Shown(p) ==
  LET bits == IF p.long THEN LongBits ELSE IntBits
      v == IF p.c = "d" THEN Signed(bits, p.w) ELSE IF p.c = "p" THEN p.w ELSE Word(bits, p.w)
      b == IF p.c \in {"d", "u"} THEN 10 ELSE 16
      ds == Digits(IF v < 0 THEN -v ELSE v, b)
      cs == [k \in 1..Len(ds) |-> (IF p.c = "X" THEN UpperDigits ELSE LowerDigits)[ds[k] + 1]]
  IN [prefix |-> IF v < 0 THEN <<"-">>
                 ELSE IF p.c = "d" /\ "+" \in p.flags THEN <<"+">>
                 ELSE IF p.c = "d" /\ " " \in p.flags THEN <<" ">>
                 ELSE IF p.c = "p" \/ (b = 16 /\ "#" \in p.flags /\ v # 0)
                   THEN <<"0", IF p.c = "X" THEN "X" ELSE "x">>
                 ELSE << >>,
      digits |-> IF "'" \notin p.flags THEN cs
                 ELSE IF b = 10 THEN Group(cs, 3, ",") ELSE Group(cs, 4, "'")]

IsNumber(p) == p.c \in {"d", "u", "x", "X", "p"}

\* text is what printf may print for p, which shows a number as num: exactly as wide
\* as it has to be, with the padding on the right side and of the right kind
Prints(p, num, text) ==
  \E before, zeros, after \in 0..Len(text) :
    LET core == IF IsNumber(p) THEN num.prefix \o Times(zeros, "0") \o num.digits
                ELSE IF p.c = "s" THEN
                  IF p.precision = None THEN p.str ELSE SubSeq(p.str, 1, Min({p.precision, Len(p.str)}))
                ELSE IF p.c = "c" THEN <<LowerDigits[(p.w % 10) + 1]>> ELSE <<p.c>>
        filled == IsNumber(p) /\ "0" \in p.flags /\ "-" \notin p.flags /\ p.precision = None
    IN /\ text = Times(before, " ") \o core \o Times(after, " ")
       /\ before = 0 \/ ("-" \notin p.flags /\ ~filled)
       /\ after = 0 \/ "-" \in p.flags
       /\ zeros > 0 => filled \/ (IsNumber(p) /\ zeros = p.precision - Len(num.digits))
       /\ IsNumber(p) => zeros + Len(num.digits) >= p.precision
       /\ Len(text) >= p.width
       /\ before + after > 0 \/ (filled /\ zeros > 0) => Len(text) = p.width

\* vprintf prints the conversions of a format in order, each with its own
\* arguments and in the color that the last %C has set, and nothing else.
FieldsExact ==
  LET Color(k) == FoldLeft(LAMBDA col, p : IF p.c = "C" THEN p.w ELSE col, 7, SubSeq(pieces, 1, k))
      Piece(out, a, b) == [k \in 1..(b - a) |-> out[a + k][1]]
      Exact(out, n) ==
        \E cuts \in [0..Len(pieces) -> 0..(n - 1)] :
          /\ cuts[0] = 0 /\ cuts[Len(pieces)] = n - 1
          /\ \A k \in 1..Len(pieces) :
               /\ cuts[k - 1] <= cuts[k]
               /\ IF pieces[k].c = "C" THEN cuts[k - 1] = cuts[k]
                  ELSE Prints(pieces[k], Shown(pieces[k]), Piece(out, cuts[k - 1], cuts[k]))
               /\ \A j \in (cuts[k - 1] + 1)..cuts[k] : out[j][2] = Color(k - 1)
          /\ out[n] = <<"!", Color(Len(pieces))>>
  IN Exact(Output, Len(Output))

\* snprintf returns the length of the whole text, writes at most size bytes, and
\* leaves a terminated prefix of the text whenever size is not 0.
Bounded ==
  LET Holds(text) ==
        \A size \in Sizes :
          LET sp == vsnprintf(size, text)
              kept == Min({Len(text), size - 1})
          IN /\ sp.n = Len(text)
             /\ \A k \in 1..Buffer :
                  k > size \/ k > Len(text) + 1 => sp.buf[k] = "?"
             /\ size > 0 => sp.buf[kept + 1] = "" /\ \A k \in 1..kept : sp.buf[k] = text[k]
  IN Holds([k \in 1..Len(Output) |-> Output[k][1]])
=============================================================================
