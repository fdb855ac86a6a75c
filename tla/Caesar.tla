------------------------------- MODULE Caesar -------------------------------
(***************************************************************************)
(* The Caesar cipher of lab 1 (caesar.c): characters are ASCII codes, a    *)
(* text is a sequence of them, and an int goes down to INT_MIN.            *)
(***************************************************************************)
EXTENDS Integers, Sequences

CONSTANT INT_MIN

ASSUME IntAssumption == INT_MIN \in Int /\ INT_MIN < 0

is_alpha(c) == 97 <= c /\ c <= 122
is_upper_alpha(c) == 65 <= c /\ c <= 90
is_numeric(c) == 48 <= c /\ c <= 57
is_alphanumeric(c) == is_alpha(c) \/ is_upper_alpha(c) \/ is_numeric(c)

len(c) == IF is_alpha(c) \/ is_upper_alpha(c) THEN 26 ELSE 10
first_char(c) == IF is_alpha(c) THEN 97 ELSE IF is_upper_alpha(c) THEN 65 ELSE 48
last_char(c) == IF is_alpha(c) THEN 122 ELSE IF is_upper_alpha(c) THEN 90 ELSE 57

\* the remainder of C, which has the sign of x
Rem(x, n) == IF x >= 0 THEN x % n ELSE -((-x) % n)

\* mutant: no wrap below the first character
shift_char_up(c, shift) ==
  LET d == c + Rem(shift, len(c)) IN IF d > last_char(c) THEN d - len(c) ELSE d

shift_char(c, shift) ==
  LET d == c + Rem(shift, len(c))
  IN IF d > last_char(c) THEN d - len(c) ELSE IF d < first_char(c) THEN d + len(c) ELSE d

\* -key: the negation of INT_MIN overflows, and wraps in the build
Negate(key) == IF key = INT_MIN THEN INT_MIN ELSE -key

Illegal(text) == {i \in 1..Len(text) : ~is_alphanumeric(text[i])}

\* the loop of encode and decode, in place: it stops at the first illegal character
Shifted(text, shift) ==
  [i \in 1..Len(text) |-> IF \E j \in Illegal(text) : j <= i THEN text[i] ELSE shift_char(text[i], shift)]

ILLCHAR == <<73, 76, 76, 67, 72, 65, 82>>

encode(text, key) == IF Illegal(text) = {} THEN Shifted(text, key) ELSE ILLCHAR

decode(text, key) == IF Illegal(text) = {} THEN Shifted(text, Negate(key)) ELSE ILLCHAR \o <<10>>
=============================================================================
