----------------------------- MODULE CaesarText -----------------------------
(***************************************************************************)
(* Every text over an alphabet and every key, for the Caesar cipher.       *)
(***************************************************************************)
EXTENDS Caesar

CONSTANTS Chars, Keys, MaxLen

ASSUME TextAssumption == Chars \subseteq Int /\ Keys \subseteq Int /\ MaxLen \in Nat

VARIABLE text

Init == text = << >>
Next == \E c \in Chars : Len(text) < MaxLen /\ text' = Append(text, c)
Spec == Init /\ [][Next]_text

\* The variables keep their types.
TypeOK == text \in Seq(Int)

\* caesar.c: decode gives back the text that encode was given, for every text that
\* encode accepts and every key whose negation is an int.
RoundTrip ==
  Illegal(text) = {} => \A key \in Keys \ {INT_MIN} : decode(encode(text, key), key) = text

\* lab1-shell-APIs.txt:27-28: each of the three classes is a loop of its own, in
\* which every character moves by the key, whatever its sign and size; and the
\* illegal character is the only reason for ILLCHAR.
InLoops ==
  \A key \in Keys :
    IF Illegal(text) = {}
      THEN /\ Len(encode(text, key)) = Len(text)
           /\ \A i \in 1..Len(text) :
                encode(text, key)[i] =
                  first_char(text[i]) + ((text[i] - first_char(text[i]) + key) % len(text[i]))
      ELSE encode(text, key) = ILLCHAR
=============================================================================
