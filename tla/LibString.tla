------------------------------ MODULE LibString ------------------------------
(***************************************************************************)
(* The memory and string functions of lab 4 (lib.cc) on a flat memory of   *)
(* bytes.  Pointers are indices, 0 is the null pointer, and a loop over a  *)
(* range is a fold over its steps, so that copies that overlap read what   *)
(* earlier steps have written.                                             *)
(***************************************************************************)
EXTENDS Integers, Sequences, SequencesExt, FiniteSets, FiniteSetsExt

CONSTANTS Bytes, MaxMem

VARIABLE mem            \* the bytes that the caller's objects occupy

Ptr == 1..Len(mem)
Up(n) == [k \in 1..n |-> k - 1]
Down(n) == Reverse(Up(n))
Fits(p, n) == p + n <= Len(mem) + 1

\* byte by byte, in the order of the offsets
Copy(m, dst, src, offsets) ==
  FoldLeft(LAMBDA x, k : [x EXCEPT ![dst + k] = x[src + k]], m, offsets)

memcpy(dst, src, n) == Copy(mem, dst, src, Up(n))

\* mutant: always upwards
memmove_up(dst, src, n) == Copy(mem, dst, src, Up(n))

memmove(dst, src, n) ==
  Copy(mem, dst, src, IF src < dst /\ src + n > dst THEN Down(n) ELSE Up(n))

\* memset
Set(m, p, c, n) == FoldLeft(LAMBDA x, k : [x EXCEPT ![p + k] = c], m, Up(n))

Sign(a, b) == IF a > b THEN 1 ELSE IF a < b THEN -1 ELSE 0
tolower(c) == IF 65 <= c /\ c < 91 THEN c + 32 ELSE c
Fold(c, nocase) == IF nocase THEN tolower(c) ELSE c

memcmp(a, b, n) ==
  LET from[k \in 0..n] ==
        IF k = n THEN 0
        ELSE IF mem[a + k] # mem[b + k] THEN Sign(mem[a + k], mem[b + k]) ELSE from[k + 1]
  IN from[0]

memchr(p, c, n) ==
  LET hits == {k \in 0..(n - 1) : mem[p + k] = c} IN IF hits = {} THEN 0 ELSE p + Min(hits)

\* is there a string at p?
String(p) == \E q \in p..Len(mem) : mem[q] = 0
strlen(p) == Min({n \in 0..(Len(mem) - p) : mem[p + n] = 0})
strnlen(p, maxlen) == Min({maxlen} \cup {n \in 0..(Len(mem) - p) : mem[p + n] = 0})

strcpy(dst, src) == Copy(mem, dst, src, Up(strlen(src) + 1))

strncpy(dst, src, maxlen) ==
  LET n == strnlen(src, maxlen)
  IN Set(Copy(mem, dst, src, Up(n)), dst + n, 0, maxlen - n)

strlcpy(dst, src, maxlen) ==
  LET nn == Min({strlen(src), maxlen - 1})
  IN IF maxlen = 0 THEN mem ELSE [Copy(mem, dst, src, Up(nn)) EXCEPT ![dst + nn] = 0]

\* strcmp, strncmp, strcasecmp and strncasecmp are one loop: nocase is tolower or not,
\* n is the number of bytes to look at (more than there are: no limit)
Compare(a, b, n, nocase) ==
  LET ac(k) == IF k < n THEN Fold(mem[a + k], nocase) ELSE 0
      bc(k) == IF k < n THEN Fold(mem[b + k], nocase) ELSE 0
      from[k \in 0..(Len(mem) + 1)] ==
        IF ac(k) = 0 \/ bc(k) = 0 \/ ac(k) # bc(k) THEN Sign(ac(k), bc(k)) ELSE from[k + 1]
  IN from[0]

strcmp(a, b) == Compare(a, b, Len(mem) + 1, FALSE)
strncmp(a, b, n) == Compare(a, b, n, FALSE)
strcasecmp(a, b) == Compare(a, b, Len(mem) + 1, TRUE)
strncasecmp(a, b, n) == Compare(a, b, n, TRUE)

strchr(p, c) ==
  LET q == p + Min({n \in 0..strlen(p) : mem[p + n] \in {0, c}}) IN IF mem[q] = c THEN q ELSE 0

\* where strstr starts again after a mismatch
Restart(i, j) == i + 1

strstr(hs, ns) ==
  LET from[i \in 0..Len(mem), j \in 0..Len(mem)] ==
        IF mem[hs + i] = 0 \/ mem[ns + j] = 0 THEN IF mem[ns + j] = 0 THEN hs + i ELSE 0
        ELSE IF mem[hs + i + j] = mem[ns + j] THEN from[i, j + 1] ELSE from[Restart(i, j), 0]
  IN from[0, 0]

\* any memory
Init == mem = << >>
Next == \E c \in Bytes : Len(mem) < MaxMem /\ mem' = Append(mem, c)
Spec == Init /\ [][Next]_mem

-----------------------------------------------------------------------------
\* memory with the bytes bs at dst
With(dst, bs) ==
  [p \in Ptr |-> IF dst <= p /\ p < dst + Len(bs) THEN bs[p - dst + 1] ELSE mem[p]]
Bs(p, n) == SubSeq(mem, p, p + n - 1)
Str(p) == Bs(p, strlen(p))
Disjoint(p, n, q, m) == p + n <= q \/ q + m <= p

\* memmove moves what was there before, however the two ranges overlap, and
\* memcpy does if they do not.
MovesOld ==
  \A d, s \in Ptr, n \in 0..Len(mem) : Fits(d, n) /\ Fits(s, n) =>
    /\ memmove(d, s, n) = With(d, Bs(s, n))
    /\ Disjoint(d, n, s, n) => memcpy(d, s, n) = With(d, Bs(s, n))

\* The copies of a string write inside the destination only; strlcpy leaves a
\* string that is as much of the source as fits, strncpy pads with null bytes.
CopiesStrings ==
  \A d, s \in Ptr, n \in 0..Len(mem) :
    String(s) /\ Fits(d, n) /\ Disjoint(d, Max({n, 1}), s, strlen(s) + 1) =>
      /\ n > 0 => strlcpy(d, s, n) = With(d, SubSeq(Str(s), 1, Min({n - 1, strlen(s)})) \o <<0>>)
      /\ strlcpy(d, s, 0) = mem
      /\ strncpy(d, s, n) = With(d, [k \in 1..n |-> IF k <= strlen(s) THEN Str(s)[k] ELSE 0])
      /\ n = strlen(s) + 1 => strcpy(d, s) = With(d, Str(s) \o <<0>>)

\* lexicographic order on sequences of bytes
Less(x, y) ==
  \/ IsStrictPrefix(x, y)
  \/ \E k \in 1..Min({Len(x), Len(y)}) : SubSeq(x, 1, k - 1) = SubSeq(y, 1, k - 1) /\ x[k] < y[k]
Order(x, y) == IF Less(x, y) THEN -1 ELSE IF Less(y, x) THEN 1 ELSE 0
Lower(x) == [k \in 1..Len(x) |-> tolower(x[k])]
Cut(x, n) == SubSeq(x, 1, Min({n, Len(x)}))

\* The comparisons order strings of unsigned bytes lexicographically, the ones
\* with "n" by their first n bytes, and never look behind the end of a string.
ComparesLex ==
  \A a, b \in Ptr : String(a) /\ String(b) =>
    /\ strcmp(a, b) = Order(Str(a), Str(b))
    /\ strcasecmp(a, b) = Order(Lower(Str(a)), Lower(Str(b)))
    /\ \A n \in 0..Len(mem) :
         /\ strncmp(a, b, n) = Order(Cut(Str(a), n), Cut(Str(b), n))
         /\ strncasecmp(a, b, n) = Order(Lower(Cut(Str(a), n)), Lower(Cut(Str(b), n)))
         /\ Fits(a, n) /\ Fits(b, n) => memcmp(a, b, n) = Order(Bs(a, n), Bs(b, n))

\* strstr gives the first occurrence, and null if and only if there is none; so
\* do strchr and memchr.
FindsFirst ==
  \A p, q \in Ptr : String(p) /\ String(q) =>
    LET at == {i \in 0..(strlen(p) - strlen(q)) : Bs(p + i, strlen(q)) = Str(q)}
    IN /\ strstr(p, q) = IF at = {} THEN 0 ELSE p + Min(at)
       /\ \A c \in Bytes : strchr(p, c) = memchr(p, c, strlen(p) + 1)
=============================================================================
