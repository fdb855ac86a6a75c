------------------------------ MODULE CmdToken ------------------------------
(***************************************************************************)
(* The tokenizer of the lab 2 shell: parse_gettoken of cmdparse.c on a     *)
(* line of characters, against a definition of what a token is that does   *)
(* not scan.  The line grows a character at a time, so that the invariants *)
(* are about every line.                                                   *)
(***************************************************************************)
EXTENDS Integers, Sequences, FiniteSets, FiniteSetsExt

CONSTANTS
  Chars,                \* the characters that lines are made of
  MaxLine,              \* lines have at most this many characters
  TOKENSIZE

VARIABLE line

Blanks == {" "}
Metas == {"(", ")", ";"}
DQ == "dq"                \* a double quote
BQ == "bq"                \* a backquote
Specials == {<<"<">>, <<">">>, <<"2", ">">>, <<"&">>, <<";">>, <<"|">>, <<"&", "&">>,
             <<"|", "|">>, <<"(">>, <<")">>}

-----------------------------------------------------------------------------
(* parse_gettoken.  str is a position in the line; quote has the bits of   *)
(* quote_state that are set; buf is what token->buffer holds.              *)

Toggle(quote, bit) == IF bit \in quote THEN quote \ {bit} ELSE quote \cup {bit}
Error == [type |-> "error", buf |-> << >>, end |-> 0]

RECURSIVE Skip(_)
Skip(str) == IF str <= Len(line) /\ line[str] \in Blanks THEN Skip(str + 1) ELSE str

\* the token with text buf, after which the parse goes on at str
Finished(str, quote, any, buf) ==
  IF quote # {} THEN Error
  ELSE [type |-> IF any \/ buf \notin Specials THEN "normal" ELSE "special",
        buf |-> buf, end |-> str]

\* mutant: blanks end a token also between quotes
RECURSIVE ScanBlind(_, _, _, _)
ScanBlind(str, quote, any, buf) ==
  LET c == line[str]
      q == IF c = BQ THEN Toggle(quote, 2) ELSE quote
  IN CASE str > Len(line) \/ c \in Blanks -> Finished(str, {}, any, buf)
       [] c = DQ -> ScanBlind(str + 1, Toggle(quote, 1), TRUE, buf)
       [] Len(buf) >= TOKENSIZE - 1 -> Error
       [] c \in Metas /\ q = {} ->
            IF buf = << >> THEN Finished(str + 1, q, any, <<c>>) ELSE Finished(str, q, any, buf)
       [] OTHER -> ScanBlind(str + 1, q, any \/ c = BQ, Append(buf, c))

RECURSIVE Scan(_, _, _, _)
Scan(str, quote, any, buf) ==
  IF str > Len(line) \/ (quote = {} /\ line[str] \in Blanks) THEN Finished(str, quote, any, buf)
  ELSE LET c == line[str]
           q == IF c = BQ THEN Toggle(quote, 2) ELSE quote
       IN CASE c = DQ -> Scan(str + 1, Toggle(quote, 1), TRUE, buf)
            [] Len(buf) >= TOKENSIZE - 1 /\ c # DQ -> Error
            [] Len(buf) < TOKENSIZE - 1 /\ c \in Metas /\ q = {} ->
                 IF buf = << >> THEN Finished(str + 1, q, any, <<c>>)
                                ELSE Finished(str, q, any, buf)
            [] OTHER -> Scan(str + 1, q, any \/ c = BQ, Append(buf, c))

parse_gettoken(position) ==
  LET str == Skip(position)
  IN IF str > Len(line) THEN [type |-> "end", buf |-> << >>, end |-> position]
     ELSE Scan(str, {}, FALSE, << >>)

Init == line = << >>
Next == \E c \in Chars : Len(line) < MaxLine /\ line' = Append(line, c)
Spec == Init /\ [][Next]_line

-----------------------------------------------------------------------------
(* What a token is.                                                        *)

\* the characters from s up to k close every quote they open
Balanced(s, k) ==
  \A c \in {DQ, BQ} : Cardinality({i \in s..(k - 1) : line[i] = c}) % 2 = 0

NonQuotes(s, k) == {i \in s..(k - 1) : line[i] # DQ}

\* A token that begins at s ends before the first blank or metacharacter outside
\* quotes, or at the end of the line; a metacharacter with nothing before it is
\* a token of its own.
Stops(s, k) == Balanced(s, k) /\ (k = Len(line) + 1 \/ line[k] \in Blanks \cup Metas)
Boundary(s) == Min({k \in s..(Len(line) + 1) : Stops(s, k)} \cup {Len(line) + 2})
AtMeta(s) == LET k == Boundary(s)
             IN k <= Len(line) /\ line[k] \in Metas /\ NonQuotes(s, k) = {}

Slice(s) == IF AtMeta(s) THEN s..Boundary(s) ELSE s..(Boundary(s) - 1)
TextLen(s) == Cardinality({i \in Slice(s) : line[i] # DQ})

Unquoted(S) == LET from[k \in 0..Len(line)] ==
                     IF k = 0 THEN << >>
                     ELSE IF k \in S /\ line[k] # DQ THEN Append(from[k - 1], line[k])
                     ELSE from[k - 1]
               IN from[Len(line)]

TokenAt(s) ==
  IF Boundary(s) > Len(line) + 1 \/ TextLen(s) > TOKENSIZE - 1 THEN Error
  ELSE [type |-> IF Unquoted(Slice(s)) \in Specials /\ ~(\E i \in Slice(s) : line[i] \in {DQ, BQ})
                   THEN "special" ELSE "normal",
        buf |-> Unquoted(Slice(s)), end |-> Max(Slice(s)) + 1]

Starts == {s \in 1..Len(line) : line[s] \notin Blanks}

\* text of the greatest length with a metacharacter right after it
AtLimit(s) == LET k == Boundary(s)
              IN k <= Len(line) /\ line[k] \in Metas /\ TextLen(s) = TOKENSIZE - 1 /\ ~AtMeta(s)

-----------------------------------------------------------------------------
(* Properties.                                                             *)

\* Wherever a token begins, parse_gettoken returns its text without the double
\* quotes, its type and its end, and an error for open quotes and long tokens.
\* (AtLimit is apart: there the code refuses a token that fits.)
FindsToken == \A s \in Starts : ~AtLimit(s) => parse_gettoken(s) = TokenAt(s)
=============================================================================
