---------------------------- MODULE ProgramImage ----------------------------
(***************************************************************************)
(* The two loaders of lab 4: boot (boot.cc) reads the kernel's segments    *)
(* from the disk, sector by sector; process_setup (kernel.cc) walks the    *)
(* segments of a program image (k-hardware.cc) and copies them.            *)
(***************************************************************************)
EXTENDS Integers, Sequences, FiniteSets, SequencesExt

CONSTANTS
  SECTORSIZE, PAGESIZE,
  Mem,                  \* bytes of memory
  MaxHeaders, MaxOff, MaxSize

VARIABLE ph             \* the program headers of an image

Addr == 0..(Mem - 1)
Data(off) == off + 1            \* every byte of the image is different, and not 0
Junk == [a \in Addr |-> -1]     \* memory before anything is loaded

-----------------------------------------------------------------------------
(* boot.cc *)

\* the loop of boot_readsect: whole sectors, from the one that va is in
ReadSectors(mem, va, src_sect, filesz) ==
  LET ptr == va - (va % SECTORSIZE)
      end == va + filesz
      sectors == IF end <= ptr THEN 0 ELSE (end - ptr + SECTORSIZE - 1) \div SECTORSIZE
  IN [a \in Addr |->
        IF ptr <= a /\ a < ptr + sectors * SECTORSIZE
          THEN Data(src_sect * SECTORSIZE + (a - ptr)) ELSE mem[a]]

boot_readseg(mem, va, src_sect, filesz, memsz) ==
  LET read == ReadSectors(mem, va, src_sect, filesz)
  IN [a \in Addr |-> IF va + filesz <= a /\ a < va + memsz THEN 0 ELSE read[a]]

\* every header is loaded, of whatever type
boot == FoldLeft(LAMBDA mem, h :
          boot_readseg(mem, h.va, h.offset \div SECTORSIZE, h.filesz, h.memsz), Junk, ph)

-----------------------------------------------------------------------------
(* program_image and process_setup *)

\* program_image_segment::fix: the first LOAD header at or after i
fix(i) ==
  LET loads == {j \in i..Len(ph) : ph[j].load}
  IN IF loads = {} THEN Len(ph) + 1 ELSE CHOOSE j \in loads : \A k \in loads : j <= k

begin == fix(1)

\* mutant: operator++ without fix
incr_plain(i) == i + 1

incr(i) == fix(i + 1)

\* the segments that "for (seg = begin(); seg != end(); ++seg)" visits
Segments ==
  LET from[i \in 1..(MaxHeaders + 1)] ==
        IF i > Len(ph) THEN << >> ELSE <<i>> \o from[incr(i)]
  IN from[begin]

\* the pages of a segment: from round_down(va), as long as a < va + size
PagesOf(h) == {p \in 0..(Mem \div PAGESIZE) :
                 h.va \div PAGESIZE <= p /\ p * PAGESIZE < h.va + h.memsz}

\* "assert(physpages[a / PAGESIZE].refcount == 0)" fails
Fails == \E j, k \in 1..Len(Segments) :
           j # k /\ PagesOf(ph[Segments[j]]) \cap PagesOf(ph[Segments[k]]) # {}

\* memset and memcpy of one segment
Copy(mem, h) ==
  [a \in Addr |-> IF h.va <= a /\ a < h.va + h.filesz THEN Data(h.offset + (a - h.va))
                  ELSE IF h.va <= a /\ a < h.va + h.memsz THEN 0 ELSE mem[a]]

Loaded == FoldLeft(LAMBDA mem, i : Copy(mem, ph[i]), Junk, Segments)

-----------------------------------------------------------------------------
(* Images as the linker makes them: the place of a segment in the file and *)
(* its place in memory agree modulo the size of a sector.                  *)
Header ==
  {h \in [load : BOOLEAN, va : Addr, offset : 0..MaxOff, filesz : 0..MaxSize, memsz : 0..MaxSize] :
     /\ h.filesz <= h.memsz /\ h.va + h.memsz <= Mem
     /\ h.va % SECTORSIZE = h.offset % SECTORSIZE}

Init == ph = << >>
Next == Len(ph) < MaxHeaders /\ \E h \in Header : ph' = Append(ph, h)
Spec == Init /\ [][Next]_ph

-----------------------------------------------------------------------------
Holds(mem, h) ==
  \A a \in h.va..(h.va + h.memsz - 1) :
    mem[a] = IF a < h.va + h.filesz THEN Data(h.offset + (a - h.va)) ELSE 0

SectorsOf(h) == (h.va \div SECTORSIZE)..((h.va + h.memsz - 1) \div SECTORSIZE)

\* The boot loader loads every segment as the image has it, with its bss cleared,
\* if no two segments of the image share a sector (the kernel has only one).
BootLoads ==
  (\A j, k \in 1..Len(ph) : j # k => SectorsOf(ph[j]) \cap SectorsOf(ph[k]) = {}) =>
    \A i \in 1..Len(ph) : Holds(boot, ph[i])

\* A process starts with every LOAD segment of its image in memory, and with
\* nothing written outside the pages that were counted for it, unless the
\* kernel's assertion has found two segments on one page.
ProcessLoads ==
  ~Fails =>
    LET loads == {i \in 1..Len(ph) : ph[i].load}
    IN /\ \A i \in loads : Holds(Loaded, ph[i])
       /\ \A a \in Addr : Loaded[a] # -1 => \E i \in loads : a \div PAGESIZE \in PagesOf(ph[i])
=============================================================================
