----------------------------- MODULE Backtrace -----------------------------
(***************************************************************************)
(* The backtracer of lab 4 (k-hardware.cc): it follows the saved frame     *)
(* pointers of a stack that may hold anything.  Addresses are in units of  *)
(* four bytes, so that a frame of 16 bytes is four of them.                *)
(***************************************************************************)
EXTENDS Integers, FiniteSets

CONSTANTS
  PAGESIZE,             \* units in a page
  Pages                 \* pages of the address space

VARIABLES
  present,              \* the pages that the page table pt_ maps
  rbp, rsp, stack_top,
  read                  \* the addresses that the last step has read

vars == <<present, rbp, rsp, stack_top, read>>

Addr == 0..(PAGESIZE * Pages - 1)
PageOf(a) == a \div PAGESIZE
round_up(a) == ((a + PAGESIZE - 1) \div PAGESIZE) * PAGESIZE

\* range_perm(16) & PTE_P, as vmiter has it: 16 bytes fit into a page, and only
\* the first page is looked at
range_present(a) == PageOf(a) \in present

\* mutant: the frame may be below the stack pointer
Bad_low(bp, sp, top) ==
  stack_top < bp \/ stack_top - bp < 4 \/ ~range_present(bp) \/ bp % 2 # 0

\* when check() gives up
Bad(bp, sp, top) ==
  bp < sp \/ top < bp \/ top - bp < 4 \/ ~range_present(bp) \/ bp % 2 # 0

\* any registers, in any address space
Init ==
  /\ present \in SUBSET (0..(Pages - 1))
  /\ \E bp, sp \in Addr :
       /\ stack_top = round_up(sp)
       /\ rbp = IF Bad(bp, sp, stack_top) THEN 0 ELSE bp
       /\ rsp = IF Bad(bp, sp, stack_top) THEN 0 ELSE sp
  /\ read = {}

\* ret_rip and step: the words at rbp and rbp + 8 can be any words
step ==
  /\ rsp # 0
  /\ read' = rbp..(rbp + 3)
  /\ \E bp \in Addr :
       LET sp == rbp + 4
       IN /\ rbp' = IF Bad(bp, sp, stack_top) THEN 0 ELSE bp
          /\ rsp' = IF Bad(bp, sp, stack_top) THEN 0 ELSE sp
  /\ UNCHANGED <<present, stack_top>>

\* log_backtrace and error_print_backtrace: as long as bt.ok()
Next == step
Spec == Init /\ [][Next]_vars /\ WF_vars(step)

-----------------------------------------------------------------------------
\* Whatever the stack holds, the kernel reads only words that the page table maps
\* when it prints a backtrace: a panic does not cause a page fault.
ReadsMapped == \A a \in read : PageOf(a) \in present

\* Every backtrace ends, also on a stack whose frames point to each other.
Ends == <>(rsp = 0)
=============================================================================
