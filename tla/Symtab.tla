------------------------------- MODULE Symtab -------------------------------
(***************************************************************************)
(* lookup_symbol (lab 4, k-hardware.cc): a binary search in the kernel's   *)
(* symbol table, which mkchickadeesymtab has sorted by address.            *)
(***************************************************************************)
EXTENDS Integers, Sequences, FiniteSets, FiniteSetsExt

CONSTANTS
  MaxAddr,              \* addresses are 0..MaxAddr
  MaxSyms, MaxSize,     \* bounds on the table
  Last                  \* 0x1000: how far the last symbol reaches

VARIABLE sym            \* the table: <<[value, size], ...>>

Ends(m) == IF m = Len(sym) THEN sym[m].value + Last ELSE sym[m + 1].value

Inside(m, addr) ==
  /\ sym[m].value <= addr /\ addr < Ends(m)
  /\ sym[m].size = 0 \/ addr <= sym[m].value + sym[m].size

\* mutant: the middle is left out on the way down
Search_low(addr) ==
  LET at[l \in 0..Len(sym), r \in 0..Len(sym)] ==
        LET m == l + ((r - l) \div 2)
        IN IF l >= r THEN 0
           ELSE IF Inside(m + 1, addr) THEN m + 1
           ELSE IF sym[m + 1].value < addr THEN at[m + 1, r] ELSE IF m = 0 THEN 0 ELSE at[l, m - 1]
  IN at[0, Len(sym)]

\* the loop with l and r (symbols are counted from 1 here); 0 is failure
Search(addr) ==
  LET at[l \in 0..Len(sym), r \in 0..Len(sym)] ==
        LET m == l + ((r - l) \div 2)
        IN IF l >= r THEN 0
           ELSE IF Inside(m + 1, addr) THEN m + 1
           ELSE IF sym[m + 1].value < addr THEN at[m + 1, r] ELSE at[l, m]
  IN at[0, Len(sym)]

lookup_symbol(addr) ==
  LET m == Search(addr) IN IF m # 0 /\ sym[m].value = 0 THEN 0 ELSE m

\* any sorted table
Init == sym = << >>
Next ==
  \E v \in 0..MaxAddr, z \in 0..MaxSize :
    /\ Len(sym) < MaxSyms
    /\ sym # << >> => sym[Len(sym)].value <= v
    /\ sym' = Append(sym, [value |-> v, size |-> z])
Spec == Init /\ [][Next]_sym

-----------------------------------------------------------------------------
\* The symbol of an address is the last one that begins at or before it, if the
\* address is within its size, and if it is not at address 0.
Owner(addr) ==
  LET before == {m \in 1..Len(sym) : sym[m].value <= addr}
  IN IF before = {} THEN 0
     ELSE IF Inside(Max(before), addr) /\ sym[Max(before)].value # 0 THEN Max(before) ELSE 0

Distinct == \A j, k \in 1..Len(sym) : j # k => sym[j].value # sym[k].value

\* In a table without two symbols at one address the search finds the symbol of
\* every address.
FindsSymbol == Distinct => \A addr \in 0..(MaxAddr + Last) : lookup_symbol(addr) = Owner(addr)
=============================================================================
