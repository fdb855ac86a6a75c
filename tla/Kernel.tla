------------------------------- MODULE Kernel -------------------------------
(***************************************************************************)
(* The WeensyOS kernel of lab 4 (kernel.cc, with the parts of              *)
(* k-hardware.cc and k-exception.S it runs on): boot, physical pages,      *)
(* process page tables, system calls, exceptions, the scheduler, the       *)
(* memory viewer's choice of a process, and the soft reboot.               *)
(*                                                                         *)
(* Addresses are page numbers.  All mappings of the kernel are identity    *)
(* mappings, so that a page table is the set of pages it maps for the user *)
(* and the set it maps for the kernel; VmIter has the tables themselves.   *)
(***************************************************************************)
EXTENDS Integers, FiniteSets, FiniteSetsExt

CONSTANTS
  KernelStart, KernelEnd, StackTop, IoStart, Console, ProcStart, Mem,
  ProcSize,             \* PROC_SIZE
  NPROC, HZ,
  Tables,               \* page-table pages of a process (four in the code)
  Programs,             \* the programs "allocator", "allocator2", ...
  KernelPerms,          \* how process_setup may map kernel pages: {"P"} in the code
  Args,                 \* what programs pass to sys_page_alloc
  Calls,                \* the other system calls that programs make
  Keys                  \* the keys that the user types

VARIABLES
  refcount,             \* physpages[].refcount
  ptable,               \* pid -> [state, user, kernel, kperm, tables, own]
  current,
  mode,                 \* "user", "spin" (in schedule), "panic", "reset" or "off"
  viewer                \* memshow and memusage: [v, showing, age]

vars == <<refcount, ptable, current, mode, viewer>>

Pages == 0..(Mem - 1)
Pids == 0..(NPROC - 1)
Period == HZ \div 2

reserved_physical_address(p) == p = 0 \/ p \in IoStart..(ProcStart - 1)

allocatable_physical_address(p) ==
  /\ ~reserved_physical_address(p)
  /\ p \notin KernelStart..(KernelEnd - 1)
  /\ p # StackTop - 1
  /\ p < Mem

ASSUME KernelAssumption ==
  /\ 1 < KernelStart /\ KernelStart < KernelEnd /\ KernelEnd < StackTop
  /\ StackTop <= IoStart /\ Console \in IoStart..(ProcStart - 1)
  /\ ProcStart + Programs * ProcSize <= Mem /\ ProcSize >= 2
  /\ Programs < NPROC /\ Tables > 0 /\ HZ >= 2
  /\ Cardinality({p \in 0..(ProcStart - 1) : allocatable_physical_address(p)})
       >= Programs * Tables + 2

-----------------------------------------------------------------------------
(* Pages.                                                                  *)

kalloc(refs) ==
  LET free == {p \in Pages : allocatable_physical_address(p) /\ refs[p] = 0}
  IN IF free = {} THEN -1 ELSE Min(free)

Taken(refs, ps) == [p \in Pages |-> IF p \in ps THEN refs[p] + 1 ELSE refs[p]]

\* n pages, one kalloc after the other
RECURSIVE kallocs(_, _)
kallocs(refs, n) ==
  IF n = 0 \/ kalloc(refs) = -1 THEN {}
  ELSE {kalloc(refs)} \cup kallocs(Taken(refs, {kalloc(refs)}), n - 1)

-----------------------------------------------------------------------------
(* Boot.                                                                   *)

entry(pid) == ProcStart + (pid - 1) * ProcSize      \* where the program is linked
stack(pid) == ProcStart + ProcSize * pid - 1
image(pid) == {entry(pid)}                          \* the pages of its segments

NoProc == [state |-> "free", user |-> {}, kernel |-> {}, kperm |-> {}, tables |-> {}, own |-> {}]

\* [PAGESIZE, PROC_START) for the kernel, one range of PROC_SIZE for the user; the
\* image and the stack are taken but not mapped
process_setup(s, pid, kperm) ==
  LET tables == kallocs(s.refs, Tables)
      refs == Taken(s.refs, tables)
      own == image(pid) \cup {stack(pid)}
  IN [refs |-> Taken(refs, own),
      ok |-> s.ok /\ \A a \in own : refs[a] = 0,
      ptable |-> [s.ptable EXCEPT ![pid] =
        [state |-> "runnable", user |-> ProcStart..(ProcStart + ProcSize - 1),
         kernel |-> 1..(ProcStart - 1), kperm |-> kperm, tables |-> tables, own |-> own]]]

RECURSIVE Setup(_, _)
Setup(n, kperm) ==
  IF n = 0 THEN [refs |-> [p \in Pages |-> 0], ok |-> TRUE, ptable |-> [i \in Pids |-> NoProc]]
  ELSE process_setup(Setup(n - 1, kperm), n, kperm)

\* "a" boots the allocators, "f" and "e" boot one program
kernel_start(command, kperm) == Setup(IF command = "a" THEN Programs ELSE 1, kperm)

NewViewer == [v |-> 0, showing |-> 0, age |-> Period]

Init ==
  \E kperm \in KernelPerms :
    LET s == kernel_start("a", kperm)
    IN /\ refcount = s.refs /\ ptable = s.ptable
       /\ mode = IF s.ok THEN "user" ELSE "panic"
       /\ current = 1 /\ viewer = NewViewer

-----------------------------------------------------------------------------
(* What every entry into the kernel does first.                            *)

\* the first pid from `from' on, in cyclic order, that is in S
Cyclic(from, S) ==
  LET ds == {d \in 0..(NPROC - 1) : (from + d) % NPROC \in S}
  IN IF ds = {} THEN from ELSE (from + Min(ds)) % NPROC

\* memshow, and the page that memusage::refresh takes at the first call
memshow ==
  LET switch == viewer.age >= Period
  IN [v |-> IF viewer.v = 0 THEN kalloc(refcount) ELSE viewer.v,
      age |-> IF switch THEN 0 ELSE viewer.age,
      showing |-> Cyclic(IF switch THEN (viewer.showing + 1) % NPROC ELSE viewer.showing,
                         {i \in DOMAIN ptable : ptable[i].state # "free"})]

Shown == IF viewer.v = 0 THEN Taken(refcount, {memshow.v} \cap Pages) ELSE refcount

\* check_keyboard: a soft reboot loses everything the kernel had in memory
Reboot(key) ==
  LET s == kernel_start(key, ptable[1].kperm)
  IN /\ refcount' = s.refs /\ ptable' = s.ptable
     /\ mode' = IF s.ok THEN "user" ELSE "panic"
     /\ current' = 1 /\ viewer' = NewViewer

poweroff == mode' = "off" /\ UNCHANGED <<refcount, ptable, current, viewer>>

check_keyboard(key) == IF key = "q" THEN poweroff ELSE Reboot(key)

\* the processor and syscall_entry write to the kernel stack while the table of
\* the process is loaded, and CR0_WP is set
StackWritable == StackTop - 1 \in ptable[current].kernel /\ "W" \in ptable[current].kperm

-----------------------------------------------------------------------------
(* The scheduler.                                                          *)

\* mutant: the search begins with the first process
schedule_first(pt, pid) ==
  LET next == Cyclic(1, {i \in DOMAIN pt : pt[i].state = "runnable"})
  IN IF pt[next].state = "runnable"
       THEN mode' = "user" /\ current' = next
       ELSE mode' = "spin" /\ current' = pid

schedule(pt, pid) ==
  LET next == Cyclic((pid + 1) % NPROC, {i \in DOMAIN pt : pt[i].state = "runnable"})
  IN IF pt[next].state = "runnable"
       THEN mode' = "user" /\ current' = next
       ELSE mode' = "spin" /\ current' = pid

Running == mode = "user" /\ StackWritable
Runs == Running /\ entry(current) \in ptable[current].user

panic == mode' = "panic" /\ UNCHANGED <<ptable, current>>

-----------------------------------------------------------------------------
(* Exceptions and system calls.                                            *)

Timer ==
  /\ Running
  /\ refcount' = Shown
  /\ viewer' = [memshow EXCEPT !.age = Min({@ + 1, Period})]
  /\ schedule(ptable, current) /\ UNCHANGED ptable

PageFault ==
  /\ Running
  /\ refcount' = Shown /\ viewer' = memshow
  /\ ptable' = [ptable EXCEPT ![current].state = "faulted"]
  /\ schedule(ptable', current)

\* an exception that cannot be delivered resets the machine; syscall_entry's
\* fault is delivered on the stack of the user
NoStack ==
  /\ mode = "user" /\ ~StackWritable
  /\ \/ mode' = "reset"
     \/ mode' = "panic" /\ entry(current) \in ptable[current].user
  /\ UNCHANGED <<refcount, ptable, current, viewer>>

Allocated(a) ==
  /\ refcount' = Taken(Shown, {a})
  /\ ptable' = [ptable EXCEPT ![current].user = @ \cup {a}, ![current].own = @ \cup {a}]
  /\ UNCHANGED <<current, mode>>

\* mutant: the page may be in use
page_alloc_again(a) == Runs /\ viewer' = memshow /\ a \in ProcStart..(Mem - 1) /\ Allocated(a)

\* a = Mem passes the test: physpages[Mem] is past the end of the array, and when
\* it reads as zero the new table is made and memset faults in the kernel
syscall_page_alloc(a) ==
  LET t == kalloc(Shown)
  IN /\ Runs
     /\ viewer' = memshow
     /\ \/ a \notin ProcStart..Mem
           /\ refcount' = Shown /\ UNCHANGED <<ptable, current, mode>>
        \/ a \in ProcStart..(Mem - 1) /\ Shown[a] = 0 /\ Allocated(a)
        \/ a \in ProcStart..Mem /\ (a < Mem => Shown[a] # 0)
           /\ refcount' = Shown /\ panic
        \/ a = Mem
           /\ refcount' = Taken(Shown, {t} \cap Pages)
           /\ ptable' = [ptable EXCEPT ![current].tables = @ \cup ({t} \cap Pages)]
           /\ mode' = (IF t = -1 THEN mode ELSE "panic") /\ UNCHANGED current

\* getpid returns to the process, yield runs another one, the rest panics
syscall(call) ==
  /\ Runs
  /\ refcount' = Shown /\ viewer' = memshow
  /\ \/ call = "getpid" /\ UNCHANGED <<ptable, current, mode>>
     \/ call = "yield" /\ schedule(ptable, current) /\ UNCHANGED ptable
     \/ call \in {"panic", "fork", "exit"} /\ panic

\* a key is seen at any entry, in schedule's loop and in fail
Key(key) ==
  /\ Running \/ mode \in {"spin", "panic"}
  /\ check_keyboard(key)

\* schedule's loop shows the memory every 4096 turns; the timer is off
Spin ==
  /\ mode = "spin"
  /\ refcount' = Shown /\ viewer' = memshow
  /\ UNCHANGED <<ptable, current, mode>>

Next ==
  \/ Timer \/ PageFault \/ NoStack \/ Spin
  \/ \E a \in Args : syscall_page_alloc(a)
  \/ \E call \in Calls : syscall(call)
  \/ \E key \in Keys : Key(key)

\* the timer keeps running while a process does
Interrupt == Timer \/ NoStack

Spec == Init /\ [][Next]_vars /\ WF_vars(Interrupt)

-----------------------------------------------------------------------------
(* Properties.                                                             *)

\* A page is in use once for every reason to be: a page table it is part of, an
\* image, a stack or an allocation of a process, or the viewer's own page.
RefsExact ==
  \A p \in Pages :
    refcount[p] = Cardinality({i \in Pids : p \in ptable[i].tables})
                  + Cardinality({i \in Pids : p \in ptable[i].own})
                  + (IF p = viewer.v /\ p # 0 THEN 1 ELSE 0)

\* the user restarts the kernel again and again
Rebooting == []<><<viewer' = NewViewer /\ \E key \in Keys \ {"q"} : Key(key)>>_vars

\* A runnable process gets the processor: neither a process that computes for ever
\* nor one that yields to itself keeps it from running.
Scheduled ==
  \/ Rebooting
  \/ \A i \in Pids : ptable[i].state = "runnable" ~>
                       (current = i \/ ptable[i].state # "runnable" \/ mode # "user")

\* The viewer comes to every process while one of them runs.
ViewerRotates ==
  \/ Rebooting
  \/ \A i \in Pids : ptable[i].state # "free" ~>
                       (viewer.showing = i \/ ptable[i].state = "free" \/ mode # "user")

\* bug.txt:23-24: the exception and system call entries need the kernel stack.  No
\* program that uses the processor only takes the machine down.
EntriesWork == mode \notin {"reset", "panic"}
=============================================================================
