------------------------------- MODULE VmIter -------------------------------
(***************************************************************************)
(* The page-table iterators of WeensyOS (lab 4, k-vmiter.cc, k-vmiter.hh): *)
(* vmiter, a cursor with a cached position in a four-level page table,     *)
(* and ptiter, which visits the pages of the table.  Addresses are in      *)
(* bytes, with Page bytes to a page and Fan entries to a table; the low    *)
(* half of the address space is modelled.                                  *)
(***************************************************************************)
EXTENDS Integers, Sequences, FiniteSets, FiniteSetsExt

CONSTANTS
  Page, Fan,            \* PAGESIZE and the entries of a page-table page, an even number
  TablePages,           \* page numbers that page tables may use, at least five
  Targets,              \* the addresses of pages that the kernel maps
  Pas, Perms            \* the page numbers and permissions that it maps them to

VARIABLES
  mem,                  \* the page-table pages in use
  it,                   \* the iterator
  op                    \* the last call, its argument and its result

vars == <<mem, it, op>>

Top == 3
PWU == {"P", "W", "U"}
Root == Min(TablePages)

Span(level) == Page * Fan^level                  \* pageoffmask(level) + 1
pageindex(a, level) == (a \div Span(level)) % Fan
Full == Span(4)                                  \* VA_NONCANONMAX + 1
LowEnd == Full \div 2                            \* VA_LOWEND

zero_pe == [perm |-> {}, ps |-> FALSE, pa |-> 0]
Entry(pa, perm) == [perm |-> perm, ps |-> FALSE, pa |-> pa]
Large(pa, perm) == [perm |-> perm, ps |-> TRUE, pa |-> pa]
NewTable == [i \in 0..(Fan - 1) |-> zero_pe]

IsTable(e) == "P" \in e.perm /\ ~e.ps

-----------------------------------------------------------------------------
(* vmiter.  pt and idx are the entry that pep_ points to; pt = -1 is       *)
(* zero_pe, at an address that is not canonical.                           *)

Pe(m, i) == IF i.pt = -1 THEN zero_pe ELSE m[i.pt][i.idx]

\* one level down: the permissions of the table on the way are kept in perm_
Below(m, i) ==
  [i EXCEPT !.perm = @ \cap Pe(m, i).perm, !.level = @ - 1, !.pt = Pe(m, i).pa,
            !.idx = pageindex(i.va, i.level - 1)]

\* the loop, for the three levels there can be below
down(m, i) ==
  LET step(u) == IF u.level > 0 /\ IsTable(Pe(m, u)) THEN Below(m, u) ELSE u
  IN step(step(step(i)))

\* mutant: the position is kept although the address is in the next table
real_find_near(m, i, a) ==
  IF i.level = Top \/ a \div Span(i.level + 2) # i.va \div Span(i.level + 2)
    THEN down(m, IF a < LowEnd THEN [i EXCEPT !.level = Top, !.perm = PWU, !.pt = Root,
                                              !.idx = pageindex(a, Top), !.va = a]
                 ELSE [i EXCEPT !.level = Top, !.perm = {}, !.pt = -1,
                                   !.idx = 0, !.va = a])
    ELSE down(m, [i EXCEPT !.idx = pageindex(a, i.level), !.va = a])

real_find(m, i, a) ==
  IF i.level = Top \/ a \div Span(i.level + 1) # i.va \div Span(i.level + 1)
    THEN down(m, IF a < LowEnd THEN [i EXCEPT !.level = Top, !.perm = PWU, !.pt = Root,
                                              !.idx = pageindex(a, Top), !.va = a]
                 ELSE [i EXCEPT !.level = Top, !.perm = {}, !.pt = -1,
                                   !.idx = 0, !.va = a])
    ELSE down(m, [i EXCEPT !.idx = pageindex(a, i.level), !.va = a])

\* vmiter(pt, a)
vmiter(m, a) ==
  real_find(m, [pt |-> Root, idx |-> 0, level |-> Top, perm |-> PWU, va |-> 0], a)

perm(m, i) == LET ph == Pe(m, i).perm \cap i.perm IN IF "P" \in ph THEN ph ELSE {}
pa(m, i) == IF "P" \in Pe(m, i).perm THEN Pe(m, i).pa * Page + (i.va % Span(i.level)) ELSE -1
last_va(i) == (i.va \div Span(i.level) + 1) * Span(i.level)

\* mutant: a mapped large page is skipped as an absent region is
next_any(m, i) == real_find(m, i, (i.va \div Span(i.level) + 1) * Span(i.level))

next(m, i) ==
  LET level == IF i.level > 0 /\ perm(m, i) = {} THEN i.level ELSE 0
  IN real_find(m, i, (i.va \div Span(level) + 1) * Span(level))

next_range(m, i) == real_find(m, i, last_va(i))

\* the do-while loop: another range as long as what is left does not fit
Ranges(m, i, sz) ==
  LET f[n \in 0..LowEnd] ==
        IF n = 0 THEN [it |-> i, p |-> perm(m, i), sz |-> sz]
        ELSE LET s == f[n - 1]
                 j == next_range(m, s.it)
             IN IF "P" \notin s.p \/ s.sz <= Span(s.it.level) THEN s
                ELSE [it |-> j, p |-> s.p \cap perm(m, j), sz |-> s.sz - Span(s.it.level)]
      p == f[LowEnd].p
  IN IF "P" \in p THEN p ELSE {}

range_perm(m, i, sz) ==
  LET rsz == Span(i.level)
  IN IF sz > rsz /\ perm(m, i) # {}
       THEN IF sz > LowEnd - i.va THEN {} ELSE Ranges(m, i, sz + (i.va % rsz))
       ELSE perm(m, i)

-----------------------------------------------------------------------------
(* try_map, and kalloc as it uses it.                                      *)

kalloc(m) == LET free == TablePages \ DOMAIN m IN IF free = {} THEN -1 ELSE Min(free)

Put(m, i, e) == [m EXCEPT ![i.pt][i.idx] = e]

\* a new table page below the iterator, which then goes down into it
Attach(m, i, pt) ==
  LET m2 == [p \in DOMAIN m \cup {pt} |-> IF p = pt THEN NewTable ELSE Put(m, i, Entry(pt, PWU))[p]]
  IN [m |-> m2, i |-> down(m2, i)]

\* the loop of try_map, for at most three new tables
Extended(m, i, p) ==
  LET f[n \in 0..Top] ==
        IF n = 0 THEN [m |-> m, i |-> i]
        ELSE LET s == f[n - 1]
             IN IF s.i.level = 0 \/ p = {} \/ kalloc(s.m) = -1 THEN s
                ELSE Attach(s.m, s.i, kalloc(s.m))
  IN f[Top]

\* find, += and the other moves
Find(a) ==
  /\ it' = IF a = it.va THEN it ELSE real_find(mem, it, a)
  /\ op' = [name |-> "find", arg |-> a]
  /\ UNCHANGED mem

StepNext ==
  /\ it.va < LowEnd /\ it' = next(mem, it)
  /\ op' = [name |-> "next"]
  /\ UNCHANGED mem

StepNextRange ==
  /\ it.va < LowEnd /\ it' = next_range(mem, it)
  /\ op' = [name |-> "next_range"]
  /\ UNCHANGED mem

\* the kernel maps addresses that no large page covers
try_map(page, p) ==
  LET s == Extended(mem, it, p)
      ok == s.i.level = 0 \/ p = {}
  IN /\ it.va \in Targets
     /\ "P" \in Pe(mem, it).perm => it.level = 0
     /\ p \subseteq it.perm                               \* the assertion on perm_
     /\ mem' = IF s.i.level = 0 THEN Put(s.m, s.i, Entry(page, p)) ELSE s.m
     /\ it' = s.i
     /\ op' = [name |-> "try_map", result |-> IF ok THEN 0 ELSE -1,
               arg |-> [pa |-> IF p = {} THEN 0 ELSE page * Page, perm |-> p]]

-----------------------------------------------------------------------------
(* ptiter.  Each turn of the loop in down goes to a table below, to the    *)
(* next entry, or back to the top.                                         *)

PtPe(m, i) == m[i.pt][i.idx]

RECURSIVE pt_down(_, _, _, _)
pt_down(m, i, stop, skip) ==
  LET a == (i.va \div Span(i.level) + 1) * Span(i.level)
  IN IF IsTable(PtPe(m, i)) /\ ~skip
       THEN IF i.level = stop THEN i
            ELSE pt_down(m, [i EXCEPT !.level = @ - 1, !.pt = PtPe(m, i).pa,
                                      !.idx = pageindex(i.va, i.level - 1)], stop, FALSE)
     ELSE IF a \div Span(i.level + 1) # i.va \div Span(i.level + 1)
       THEN IF i.level = Top THEN [i EXCEPT !.va = Full]
            ELSE pt_down(m, [i EXCEPT !.level = Top, !.pt = Root, !.idx = pageindex(i.va, Top)],
                         i.level + 1, FALSE)
     ELSE pt_down(m, [i EXCEPT !.idx = @ + 1, !.va = a], stop, FALSE)

ptiter(m) == pt_down(m, [pt |-> Root, idx |-> 0, level |-> Top, va |-> 0], 1, FALSE)
pt_next(m, i) == pt_down(m, i, 1, TRUE)

\* the pages that the loop of k-vmiter.hh:109 visits, in order
RECURSIVE Visits(_, _)
Visits(m, i) == IF i.va = Full THEN << >> ELSE <<PtPe(m, i).pa>> \o Visits(m, pt_next(m, i))

-----------------------------------------------------------------------------
\* An empty table (kalloc_pagetable), or the kernel's (init_kernel_memory): four
\* levels for the low addresses, and a large page that only the kernel may use.
KernelTable ==
  LET t(k) == CHOOSE p \in TablePages : Cardinality({q \in TablePages : q < p}) = k
  IN [p \in {t(k) : k \in 0..4} |->
        [i \in 0..(Fan - 1) |->
          CASE p = t(0) /\ i = 0 -> Entry(t(1), PWU)
            [] p = t(1) /\ i = 0 -> Entry(t(2), PWU)
            [] p = t(1) /\ i > 0 -> Large(i * Fan^2, {"P", "W"})
            [] p = t(2) /\ i = 0 -> Entry(t(3), PWU)
            [] p = t(2) /\ i = 1 -> Entry(t(4), PWU)
            [] OTHER -> zero_pe]]

Init ==
  /\ mem \in {[p \in {Root} |-> NewTable], KernelTable}
  /\ it = vmiter(mem, 0)
  /\ op = [name |-> "vmiter"]

Next ==
  \/ \E a \in 0..LowEnd : Find(a)
  \/ StepNext \/ StepNextRange
  \/ \E page \in Pas, p \in Perms : try_map(page, p)

Spec == Init /\ [][Next]_vars

-----------------------------------------------------------------------------
(* Properties.                                                             *)

\* The processor's walk: what a page address maps to.
Translate(m, a) ==
  LET step(u) == IF ~IsTable(u.e) THEN u
                 ELSE [e |-> m[u.e.pa][pageindex(a, u.l - 1)], perm |-> u.perm \cap u.e.perm,
                       l |-> u.l - 1]
      r == step(step(step([e |-> m[Root][pageindex(a, Top)], perm |-> PWU, l |-> Top])))
  IN IF "P" \in r.e.perm THEN [pa |-> r.e.pa * Page + (a % Span(r.l)), perm |-> r.perm \cap r.e.perm]
     ELSE [pa |-> 0, perm |-> {}]

\* The iterator's cached entry, level and permissions are always those of a new
\* iterator at the same address: finding a near address without a walk from the
\* top, and mapping through the iterator, leave nothing stale; and its answers
\* are the processor's.
IterExact ==
  /\ it = vmiter(mem, it.va)
  /\ it.va < LowEnd =>
       /\ perm(mem, it) = Translate(mem, it.va).perm
       /\ pa(mem, it) = IF perm(mem, it) = {} THEN -1 ELSE Translate(mem, it.va).pa

PageVas == {a \in 0..(LowEnd - 1) : a % Page = 0}
Shared(a, sz) ==
  LET pages == {x \in PageVas : x + Page > a /\ x < a + sz}
  IN {f \in PWU : \A x \in pages : f \in Translate(mem, x).perm}
RangeOf(a, sz) == LET s == Shared(a, sz) IN IF a + sz <= LowEnd /\ "P" \in s THEN s ELSE {}

\* range_perm of a page-aligned address is the intersection of the permissions of
\* all the pages of the range.
RangePermExact ==
  \A a \in PageVas : \A sz \in 1..(LowEnd - a) :
    range_perm(mem, vmiter(mem, a), sz) = RangeOf(a, sz)

\* ptiter visits every page of the table but the root once, and a page after the
\* pages below it: the loop of k-vmiter.hh:109 can free each page as it comes.
PtIterOrder ==
  LET v == Visits(mem, ptiter(mem))
  IN /\ Len(v) = Cardinality(DOMAIN mem) - 1
     /\ {v[k] : k \in 1..Len(v)} = DOMAIN mem \ {Root}
     /\ \A j, k \in 1..Len(v) :
          (\E x \in 0..(Fan - 1) : IsTable(mem[v[j]][x]) /\ mem[v[j]][x].pa = v[k]) => k < j

VmMap == INSTANCE VmMap WITH
  map <- [a \in PageVas |-> Translate(mem, a)], va <- it.va,
  Values <- {[pa |-> p, perm |-> s] : p \in {q * Page : q \in 0..LowEnd}, s \in SUBSET PWU}

\* The iterator over the table does what its comments say of a map from
\* addresses to pages: moving changes nothing and skips only what is absent, and
\* try_map changes one mapping or, when no page is left, none.
RefinesMap == VmMap!Spec
=============================================================================
