------------------------------ MODULE LibNumber ------------------------------
(***************************************************************************)
(* strtol, strtoul and from_chars (lab 4, lib.cc) on words of W bits,      *)
(* against what the C library's functions of these names do.  Characters   *)
(* are their ASCII codes; a string is what comes before its null byte.     *)
(***************************************************************************)
EXTENDS Integers, Sequences, SequencesExt, FiniteSets, FiniteSetsExt

CONSTANTS
  W,                    \* bits of an unsigned long
  Chars,                \* characters of the strings
  MaxLen,
  Bases

VARIABLE s              \* the string

ULONG == 2^W
ULONG_MAX == ULONG - 1
EOK == 0
E_INVAL == -22
E_RANGE == -34

At(i) == IF i <= Len(s) THEN s[i] ELSE 0
isspace(c) == (9 <= c /\ c <= 13) \/ c = 32
Minus == 45
Plus == 43
Zero == 48
IsChar(c, lower) == c = lower \/ c = lower - 32

-----------------------------------------------------------------------------
\* the digit that from_chars takes a character for, -1 if it stops there
digit(c, base) ==
  IF 48 <= c /\ c < 48 + base THEN c - 48
  ELSE IF 97 <= c /\ c < 97 + base - 10 THEN c - 97 + 10
  ELSE IF 65 <= c /\ c < 65 + base - 10 THEN c - 65 + 10
  ELSE -1

\* how many characters from i on are digits
Digits(i, base) ==
  Min({n \in 0..(Len(s) + 1) : i + n > Len(s) \/ digit(At(i + n), base) = -1})

\* mutant: the multiplication is checked without the digit
Accumulate_late(acc, d, base) ==
  IF acc.x > ULONG_MAX \div base THEN [acc EXCEPT !.overflow = TRUE]
  ELSE [acc EXCEPT !.x = (acc.x * base + d) % ULONG]

Accumulate(acc, d, base) ==
  IF acc.x > (ULONG_MAX - d) \div base THEN [acc EXCEPT !.overflow = TRUE]
  ELSE [acc EXCEPT !.x = acc.x * base + d]

\* from_chars(first, nullptr, x, base)
from_chars(first, base) ==
  LET n == Digits(first, base)
      acc == FoldLeft(LAMBDA a, d : Accumulate(a, d, base), [x |-> 0, overflow |-> FALSE],
                      [k \in 1..n |-> digit(At(first + k - 1), base)])
  IN [ptr |-> first + n,
      ec |-> IF n = 0 THEN E_INVAL ELSE IF acc.overflow THEN E_RANGE ELSE EOK,
      value |-> IF n = 0 \/ acc.overflow THEN 0 ELSE acc.x]

\* the overload for long
from_chars_long(first, base) ==
  LET negative == At(first) = Minus
      u == from_chars(IF negative THEN first + 1 ELSE first, base)
      bound == 2^(W - 1) - (IF negative THEN 0 ELSE 1)
  IN IF u.ec = E_INVAL THEN [ptr |-> first, ec |-> E_INVAL, value |-> 0]
     ELSE IF u.ec = E_RANGE \/ u.value > bound THEN [ptr |-> u.ptr, ec |-> E_RANGE, value |-> 0]
     ELSE [u EXCEPT !.value = IF negative THEN -u.value ELSE u.value]

\* <<t, base>> after the prefix
strtol_fix_base(t, base) ==
  IF base = 0 THEN
    IF At(t) # Zero THEN <<t, 10>>
    ELSE IF IsChar(At(t + 1), 120) THEN <<t + 2, 16>>       \* 'x'
    ELSE IF IsChar(At(t + 1), 111) THEN <<t + 2, 8>>        \* 'o'
    ELSE IF IsChar(At(t + 1), 98) THEN <<t + 2, 2>>         \* 'b'
    ELSE <<t, 8>>
  ELSE IF base = 16 /\ At(t) = Zero /\ IsChar(At(t + 1), 120) THEN <<t + 2, 16>>
  ELSE <<t, base>>

\* spaces and a sign: what strtol and strtoul do first
Spaces == Min({n \in 0..Len(s) : ~isspace(At(n + 1))})
Negative == At(Spaces + 1) = Minus
SignEnd == IF At(Spaces + 1) \in {Minus, Plus} THEN Spaces + 2 ELSE Spaces + 1

Parsed(base) == LET tb == strtol_fix_base(SignEnd, base) IN from_chars(tb[1], tb[2])

\* the result, and how many characters *endptr is after s
strtoul(base) ==
  LET u == Parsed(base)
      x == IF u.ec = E_RANGE THEN ULONG_MAX ELSE u.value
  IN [value |-> IF Negative THEN (-x) % ULONG ELSE x, end |-> IF u.ec = E_INVAL THEN 0 ELSE u.ptr - 1]

strtol(base) ==
  LET u == Parsed(base)
      bound == 2^(W - 1) - (IF Negative THEN 0 ELSE 1)
      x == IF u.ec = E_RANGE \/ u.value > bound THEN bound ELSE u.value
  IN [value |-> IF Negative THEN -x ELSE x, end |-> IF u.ec = E_INVAL THEN 0 ELSE u.ptr - 1]

\* any string
Init == s = << >>
Next == \E c \in Chars : Len(s) < MaxLen /\ s' = Append(s, c)
Spec == Init /\ [][Next]_s

-----------------------------------------------------------------------------
(* The C library's functions.                                              *)
DigitValue(c) ==
  IF 48 <= c /\ c <= 57 THEN c - 48
  ELSE IF 97 <= c /\ c <= 122 THEN c - 87
  ELSE IF 65 <= c /\ c <= 90 THEN c - 55 ELSE 99

\* the base and the first digit: a prefix counts only with a digit after it
CBase(base) ==
  LET p == strtol_fix_base(SignEnd, base)
  IN IF p[1] # SignEnd /\ DigitValue(At(p[1])) >= p[2]
       THEN <<SignEnd, IF base = 0 THEN 8 ELSE base>> ELSE p

CDigits(base) ==
  LET p == CBase(base)
      n == Min({k \in 0..(Len(s) + 1) : DigitValue(At(p[1] + k)) >= p[2]})
  IN [k \in 1..n |-> DigitValue(At(p[1] + k - 1))]

CValue(base) == FoldLeft(LAMBDA v, d : v * CBase(base)[2] + d, 0, CDigits(base))
CEnd(base) == IF CDigits(base) = << >> THEN 0 ELSE CBase(base)[1] + Len(CDigits(base)) - 1

Clamp(v, lo, hi) == IF v < lo THEN lo ELSE IF v > hi THEN hi ELSE v
CLong(base) == Clamp(IF Negative THEN -CValue(base) ELSE CValue(base), -(2^(W - 1)), 2^(W - 1) - 1)
CUlong(base) ==
  IF CValue(base) > ULONG_MAX THEN ULONG_MAX
  ELSE IF Negative THEN (-CValue(base)) % ULONG ELSE CValue(base)

LikeC(base) ==
  /\ strtol(base) = [value |-> CLong(base), end |-> CEnd(base)]
  /\ strtoul(base) = [value |-> CUlong(base), end |-> CEnd(base)]

\* The inputs on which they are not: a character after '9' in a base above 10,
\* a prefix with no digit after it, and a negative number out of range (strtoul).
Odd(base) ==
  \/ \E i \in 1..Len(s) : 57 < s[i] /\ s[i] < 65
  \/ CBase(base) # strtol_fix_base(SignEnd, base)
  \/ Negative /\ CValue(base) > ULONG_MAX

\* On every other string strtol and strtoul give the value, saturated, and the
\* end that the C library gives, and from_chars agrees with strtol on numbers
\* that are in range.
ParsesExact ==
  \A base \in Bases :
    ~Odd(base) =>
      /\ LikeC(base)
      /\ LET l == from_chars_long(1, base)
         IN base # 0 /\ l.ec = EOK =>
              CDigits(base) # << >> /\ (CBase(base)[1] = SignEnd => l.value = strtol(base).value)
=============================================================================
