----------------------------- MODULE MemViewer -----------------------------
(***************************************************************************)
(* What the memory viewer (lab 4, k-memviewer.cc) draws for each physical  *)
(* page of the running kernel, and the page table errors it reports.       *)
(***************************************************************************)
EXTENDS Kernel

Live == {i \in Pids : ptable[i].state # "free"}

\* memusage::refresh: what v_ says of a page.  All mappings are identity mappings.
f_kernel(p) ==
  p = viewer.v \/ p = KernelStart \/ \E i \in Live : p \in ptable[i].tables
f_user(p) == \E i \in Live : p \in ptable[i].user
f_process(p) == {i \in Live : p \in ptable[i].user \cup ptable[i].tables}

is_kernel(p) == ~reserved_physical_address(p) /\ ~allocatable_physical_address(p)

\* memusage::symbol_at, its page_error calls as "error"
symbol_at(p) ==
  IF p = Console THEN "C"
  ELSE IF reserved_physical_address(p) THEN IF f_process(p) # {} THEN "error" ELSE "R"
  ELSE IF is_kernel(p) THEN IF f_process(p) # {} THEN "error" ELSE "K"
  ELSE IF ~f_kernel(p) /\ ~f_user(p) THEN IF refcount[p] # 0 THEN "L" ELSE "."
  ELSE IF f_kernel(p) /\ f_process(p) = {} THEN "K"
  ELSE IF f_kernel(p) /\ f_user(p) THEN "error"
  ELSE IF Cardinality(f_process(p)) > 1 THEN "S" ELSE "P"

\* console_memviewer: the physical memory, and the address space of a process
console_memviewer == [p \in Pages |-> symbol_at(p)]
console_memviewer_virtual(pid) ==
  [a \in ptable[pid].user \cup ptable[pid].kernel |-> symbol_at(a % Mem)]

-----------------------------------------------------------------------------
\* The viewer never has an error to report: no page that is the kernel's, reserved
\* or part of a page table is mapped for a process, in its own map or another's.
NoPageError ==
  viewer.v # 0 =>
    /\ \A p \in Pages : console_memviewer[p] # "error"
    /\ \A i \in Live : \A a \in DOMAIN console_memviewer_virtual(i) :
         console_memviewer_virtual(i)[a] # "error"

\* One program alone leaks no page: all that it and the kernel use is mapped for it
\* or part of a page table.
AloneNoLeak ==
  viewer.v # 0 /\ Live = {1} => \A p \in Pages : console_memviewer[p] # "L"
=============================================================================
