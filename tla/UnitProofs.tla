----------------------------- MODULE UnitProofs -----------------------------
(***************************************************************************)
(* Proofs about two components that stand by themselves: the Caesar cipher *)
(* of lab 1, for every text and every key, and the guard of a static       *)
(* variable of lab 4, for any number of processors.                        *)
(***************************************************************************)
EXTENDS CaesarText, TLAPS

-----------------------------------------------------------------------------
(* The Caesar cipher.                                                      *)

\* What the remainder of C has in common with the modulus, for the two lengths of
\* a loop: shift_char reduces the shift before it adds it.
LEMMA RemFacts ==
  ASSUME NEW x \in Int, NEW n \in {10, 26}
  PROVE  /\ Rem(x, n) \in Int
         /\ -n < Rem(x, n) /\ Rem(x, n) < n
         /\ Rem(-x, n) = -Rem(x, n)
         /\ \A y \in Int : (y + Rem(x, n)) % n = (y + x) % n
<1>1. CASE n = 10
  BY <1>1 DEF Rem
<1>2. CASE n = 26
  BY <1>2 DEF Rem
<1>3. QED
  BY <1>1, <1>2

\* One correction brings a place in a loop back into it, as shift_char does.
LEMMA ModCorrect ==
  ASSUME NEW n \in {10, 26}, NEW y \in 0..(n - 1), NEW r \in Int, -n < r, r < n
  PROVE  (y + r) % n = IF y + r > n - 1 THEN y + r - n ELSE IF y + r < 0 THEN y + r + n ELSE y + r
<1>1. CASE n = 10
  BY <1>1
<1>2. CASE n = 26
  BY <1>2
<1>3. QED
  BY <1>1, <1>2

\* shift_char keeps a character in its class.
LEMMA ShiftStays ==
  ASSUME NEW c \in Int, is_alphanumeric(c), NEW k \in Int
  PROVE  /\ shift_char(c, k) \in Int
         /\ is_alphanumeric(shift_char(c, k))
         /\ len(shift_char(c, k)) = len(c)
         /\ first_char(shift_char(c, k)) = first_char(c)
         /\ last_char(shift_char(c, k)) = last_char(c)
<1> DEFINE r == Rem(k, len(c))
<1>1. len(c) \in {10, 26}
  BY DEF len
<1>2. r \in Int /\ -len(c) < r /\ r < len(c)
  BY <1>1, RemFacts
<1>3. first_char(c) <= shift_char(c, k) /\ shift_char(c, k) <= last_char(c) /\ shift_char(c, k) \in Int
  BY <1>2 DEF shift_char, is_alphanumeric, is_alpha, is_upper_alpha, is_numeric, len, first_char, last_char
<1>4. QED
  BY <1>3 DEF is_alphanumeric, is_alpha, is_upper_alpha, is_numeric, len, first_char, last_char

\* shift_char moves a character by the shift in the loop of its class.
LEMMA ShiftExact ==
  ASSUME NEW c \in Int, is_alphanumeric(c), NEW k \in Int
  PROVE  shift_char(c, k) = first_char(c) + ((c - first_char(c) + k) % len(c))
<1> DEFINE r == Rem(k, len(c))
<1>1. len(c) \in {10, 26}
  BY DEF len
<1>2. /\ r \in Int /\ -len(c) < r /\ r < len(c)
      /\ \A y \in Int : (y + r) % len(c) = (y + k) % len(c)
  BY <1>1, RemFacts
<1>3. /\ first_char(c) \in Int /\ last_char(c) \in Int /\ len(c) \in Int
      /\ c - first_char(c) \in 0..(len(c) - 1)
      /\ last_char(c) = first_char(c) + len(c) - 1
  BY DEF is_alphanumeric, is_alpha, is_upper_alpha, is_numeric, len, first_char, last_char
<1>4. ((c - first_char(c)) + r) % len(c) = shift_char(c, k) - first_char(c)
  <2>1. shift_char(c, k) = IF c + r > last_char(c) THEN c + r - len(c)
                           ELSE IF c + r < first_char(c) THEN c + r + len(c) ELSE c + r
    BY <1>2, <1>3 DEF shift_char
  <2> HIDE DEF r
  <2>2. (c - first_char(c)) + r \in Int
    BY <1>2, <1>3
  <2>3. ((c - first_char(c)) + r) % len(c) =
          IF (c - first_char(c)) + r > len(c) - 1 THEN (c - first_char(c)) + r - len(c)
          ELSE IF (c - first_char(c)) + r < 0 THEN (c - first_char(c)) + r + len(c)
          ELSE (c - first_char(c)) + r
    BY <1>1, <1>2, <1>3, ModCorrect
  <2>4. QED
    BY <2>1, <2>2, <2>3, <1>2, <1>3
<1>5. ((c - first_char(c)) + r) % len(c) = (c - first_char(c) + k) % len(c)
  BY <1>2, <1>3
<1>6. shift_char(c, k) \in Int
  BY ShiftStays
<1>7. QED
  BY <1>3, <1>4, <1>5, <1>6

\* Shifting back by the same amount undoes a shift.
LEMMA ShiftBack ==
  ASSUME NEW c \in Int, is_alphanumeric(c), NEW k \in Int
  PROVE  shift_char(shift_char(c, k), -k) = c
<1> DEFINE d == shift_char(c, k)
           r == Rem(k, len(c))
<1>1. len(c) \in {10, 26}
  BY DEF len
<1>2. r \in Int /\ -len(c) < r /\ r < len(c) /\ Rem(-k, len(c)) = -r
  BY <1>1, RemFacts
<1>3. d \in Int /\ len(d) = len(c) /\ first_char(d) = first_char(c) /\ last_char(d) = last_char(c)
  BY ShiftStays
<1>4. /\ first_char(c) \in Int /\ last_char(c) \in Int /\ len(c) \in Int
      /\ first_char(c) <= c /\ c <= last_char(c)
      /\ last_char(c) = first_char(c) + len(c) - 1
  BY DEF is_alphanumeric, is_alpha, is_upper_alpha, is_numeric, len, first_char, last_char
<1>5. d = IF c + r > last_char(c) THEN c + r - len(c)
          ELSE IF c + r < first_char(c) THEN c + r + len(c) ELSE c + r
  BY <1>2, <1>4 DEF shift_char
<1> HIDE DEF d
<1>6. shift_char(d, -k) = IF d + (-r) > last_char(c) THEN d + (-r) - len(c)
                          ELSE IF d + (-r) < first_char(c) THEN d + (-r) + len(c) ELSE d + (-r)
  <2> HIDE DEF r
  <2>1. Rem(-k, len(d)) = -r
    BY <1>2, <1>3
  <2>2. QED
    BY <2>1, <1>2, <1>3, <1>4 DEF shift_char
<1> HIDE DEF r
<1>7. shift_char(d, -k) = c
  BY <1>1, <1>2, <1>3, <1>4, <1>5, <1>6
<1>8. QED
  BY <1>7 DEF d

\* The texts of the specification are sequences of ints.
LEMMA TextType == Spec => []TypeOK
<1>1. Init => TypeOK
  BY DEF Init, TypeOK
<1>2. TypeOK /\ [Next]_text => TypeOK'
  BY TextAssumption DEF TypeOK, Next
<1>3. QED
  BY <1>1, <1>2, PTL DEF Spec

\* A text of letters and digits is encoded and decoded character by character.
LEMMA Encoded ==
  ASSUME NEW t \in Seq(Int), Illegal(t) = {}, NEW k \in Int
  PROVE  /\ Shifted(t, k) = [i \in 1..Len(t) |-> shift_char(t[i], k)]
         /\ Shifted(t, k) \in Seq(Int) /\ Len(Shifted(t, k)) = Len(t)
         /\ Illegal(Shifted(t, k)) = {}
<1>1. \A i \in 1..Len(t) : t[i] \in Int /\ is_alphanumeric(t[i])
  BY DEF Illegal
<1>2. Shifted(t, k) = [i \in 1..Len(t) |-> shift_char(t[i], k)]
  BY DEF Shifted
<1>3. \A i \in 1..Len(t) : shift_char(t[i], k) \in Int /\ is_alphanumeric(shift_char(t[i], k))
  BY <1>1, ShiftStays
<1>4. Len(t) \in Nat
  OBVIOUS
<1>5. Shifted(t, k) \in Seq(Int) /\ Len(Shifted(t, k)) = Len(t)
  BY <1>2, <1>3, <1>4
<1>6. Illegal(Shifted(t, k)) = {}
  BY <1>2, <1>3, <1>5 DEF Illegal
<1>7. QED
  BY <1>2, <1>5, <1>6

\* decode gives back what encode was given: for every text of letters and digits,
\* of any length, and every key but INT_MIN, whose negation is not an int.
THEOREM RoundTripHolds == Spec => []RoundTrip
<1>1. TypeOK => RoundTrip
  <2> SUFFICES ASSUME TypeOK, Illegal(text) = {}, NEW key \in Keys \ {INT_MIN}
               PROVE  decode(encode(text, key), key) = text
    BY DEF RoundTrip
  <2>1. text \in Seq(Int) /\ key \in Int /\ -key \in Int
    BY TextAssumption DEF TypeOK
  <2> DEFINE e == Shifted(text, key)
  <2>2. encode(text, key) = e
    BY DEF encode
  <2>3. e = [i \in 1..Len(text) |-> shift_char(text[i], key)] /\ e \in Seq(Int)
        /\ Len(e) = Len(text) /\ Illegal(e) = {}
    BY <2>1, Encoded
  <2>4. Shifted(e, -key) = [i \in 1..Len(e) |-> shift_char(e[i], -key)]
    BY <2>1, <2>3, Encoded
  <2>5. decode(e, key) = Shifted(e, -key)
    BY <2>3, <2>1 DEF decode, Negate
  <2>6. \A i \in 1..Len(text) : shift_char(shift_char(text[i], key), -key) = text[i]
    BY <2>1, ShiftBack DEF Illegal
  <2>7. \A i \in 1..Len(text) : shift_char(e[i], -key) = text[i]
    BY <2>3, <2>6
  <2> HIDE DEF e
  <2>8. Shifted(e, -key) = [i \in 1..Len(text) |-> text[i]]
    BY <2>3, <2>4, <2>7
  <2>9. text = [i \in 1..Len(text) |-> text[i]]
    BY <2>1
  <2>10. QED
    BY <2>2, <2>5, <2>8, <2>9
<1>2. QED
  BY <1>1, TextType, PTL

\* encode moves every character by the key in the loop of its class, for every
\* text and every key, and says ILLCHAR exactly for the other texts.
THEOREM InLoopsHolds == Spec => []InLoops
<1>1. TypeOK => InLoops
  <2> SUFFICES ASSUME TypeOK, NEW key \in Keys, Illegal(text) = {}
               PROVE  /\ Len(encode(text, key)) = Len(text)
                      /\ \A i \in 1..Len(text) :
                           encode(text, key)[i] =
                             first_char(text[i]) + ((text[i] - first_char(text[i]) + key) % len(text[i]))
    BY DEF InLoops, encode
  <2>1. text \in Seq(Int) /\ key \in Int
    BY TextAssumption DEF TypeOK
  <2>2. encode(text, key) = [i \in 1..Len(text) |-> shift_char(text[i], key)]
        /\ Len(encode(text, key)) = Len(text)
    BY <2>1, Encoded DEF encode
  <2>3. \A i \in 1..Len(text) :
          shift_char(text[i], key) =
            first_char(text[i]) + ((text[i] - first_char(text[i]) + key) % len(text[i]))
    BY <2>1, ShiftExact DEF Illegal
  <2>4. QED
    BY <2>2, <2>3
<1>2. QED
  BY <1>1, TextType, PTL

-----------------------------------------------------------------------------
(* The guard of a static variable.                                         *)

CONSTANT Cpus
VARIABLES guard, inits, pc

G == INSTANCE Guard

\* Who holds the guard: the processor that initializes, or one that has taken the
\* 2 away for a moment.  While somebody holds it, the guard is 1.
Holding == {"init", "release", "restore"}

GuardInv ==
  /\ G!TypeOK
  /\ \A c \in Cpus : pc[c] \in Holding => guard = 1
  /\ \A c, d \in Cpus : pc[c] \in Holding /\ pc[d] \in Holding => c = d
  /\ guard = 0 => inits = {}
  /\ guard = 2 => inits # {}
  /\ \A c \in Cpus : pc[c] = "init" => inits = {}
  /\ \A c \in Cpus : pc[c] = "release" => inits = {c}
  /\ \A c \in Cpus : pc[c] \in {"restore", "use"} => inits # {}
  /\ G!InitializedOnce

\* The invariant holds when no processor has called __cxa_guard_acquire yet.
LEMMA GuardInit == G!Init => GuardInv
  BY DEF G!Init, GuardInv, G!TypeOK, Holding, G!InitializedOnce

\* Each access to the guard keeps it.
LEMMA GuardKeeps == GuardInv /\ [G!Next]_(G!vars) => GuardInv'
<1> SUFFICES ASSUME GuardInv, [G!Next]_(G!vars) PROVE GuardInv'
  OBVIOUS
<1> USE DEF GuardInv, G!TypeOK, Holding, G!InitializedOnce
<1>1. ASSUME NEW c \in Cpus, G!Load(c) PROVE GuardInv'
  BY <1>1 DEF G!Load
<1>2. ASSUME NEW c \in Cpus, G!Exchange(c) PROVE GuardInv'
  <2>1. CASE guard = 0
    BY <1>2, <2>1 DEF G!Exchange
  <2>2. CASE guard = 1
    BY <1>2, <2>2 DEF G!Exchange
  <2>3. CASE guard = 2
    BY <1>2, <2>3 DEF G!Exchange
  <2> QED
    BY <2>1, <2>2, <2>3
<1>3. ASSUME NEW c \in Cpus, G!Restore(c) PROVE GuardInv'
  BY <1>3 DEF G!Restore
<1>4. ASSUME NEW c \in Cpus, G!Initialize(c) PROVE GuardInv'
  BY <1>4 DEF G!Initialize
<1>5. ASSUME NEW c \in Cpus, G!Release(c) PROVE GuardInv'
  BY <1>5 DEF G!Release
<1>6. CASE UNCHANGED G!vars
  BY <1>6 DEF G!vars
<1> QED
  BY <1>1, <1>2, <1>3, <1>4, <1>5, <1>6 DEF G!Next, G!Step

\* The three facts of the guard that the safety theorems need.
LEMMA GuardImplies == GuardInv => G!TypeOK /\ G!InitializedOnce /\ G!UsesInitialized
  BY DEF GuardInv, G!UsesInitialized

\* __cxa_guard_acquire returns 1 to one processor only: for any number of
\* processors the statics are initialized at most once.
THEOREM InitializedOnceHolds == G!Spec => []G!InitializedOnce
  BY GuardInit, GuardKeeps, GuardImplies, PTL DEF G!Spec

\* No processor goes on before the statics are initialized.
THEOREM UsesInitializedHolds == G!Spec => []G!UsesInitialized
  BY GuardInit, GuardKeeps, GuardImplies, PTL DEF G!Spec

\* The guard is 0, 1 or 2 in every state.
THEOREM GuardTypeCorrect == G!Spec => []G!TypeOK
  BY GuardInit, GuardKeeps, GuardImplies, PTL DEF G!Spec
=============================================================================
