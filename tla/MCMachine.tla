----------------------------- MODULE MCMachine -----------------------------
(***************************************************************************)
(* The parts of the lab 4 machine beside each other: the kernel with its   *)
(* memory viewer, and the page-table iterators, the guards of static       *)
(* variables, the PCI bus, backtraces and the console.  They share no      *)
(* state, and so a behaviour is about one of them, its part, while the     *)
(* others rest.                                                            *)
(***************************************************************************)
EXTENDS MemViewer

CONSTANTS
  Cpus,                         \* callers of a function with a static variable
  TablePages, Targets, Perms    \* see VmIter

VARIABLES
  part,
  mem, it, op,                                  \* VmIter
  guard, inits, pc,                             \* Guard
  functions, multi, acpi,                       \* Pci
  present, rbp, rsp, stack_top, read,           \* Backtrace
  console, cursorpos, paper, home, pen          \* Console

vmVars == <<mem, it, op>>
guardVars == <<guard, inits, pc>>
pciVars == <<functions, multi, acpi>>
btVars == <<present, rbp, rsp, stack_top, read>>
screenVars == <<console, cursorpos, paper, home, pen>>
allVars == <<part, vars, vmVars, guardVars, pciVars, btVars, screenVars>>

Vm == INSTANCE VmIter WITH Page <- 2, Fan <- 2, Pas <- {7}
Statics == INSTANCE Guard
Bus == INSTANCE Pci WITH Slots <- 4, Funcs <- 3
Trace == INSTANCE Backtrace WITH PAGESIZE <- 16, Pages <- 2
Screen == INSTANCE Console WITH
            CONSOLE_ROWS <- 3, CONSOLE_COLUMNS <- 3, Places <- {4, 9, 10}, MaxRows <- 6,
            Texts <- {<<"a">>, <<"\n">>, <<"b", "\n", "b", "b">>}

\* a part that rests has one state
MachineInit ==
  /\ part \in {"kernel", "vm", "guard", "pci", "backtrace", "console"}
  /\ IF part = "kernel" THEN Init
     ELSE /\ refcount = 0 /\ ptable = [i \in Pids |-> [state |-> "free"]]
          /\ current = 0 /\ mode = "reset" /\ viewer = [showing |-> 0]
  /\ IF part = "vm" THEN Vm!Init ELSE mem = 0 /\ it = 0 /\ op = 0
  /\ Statics!Init
  /\ IF part = "pci" THEN Bus!Init ELSE functions = 0 /\ multi = 0 /\ acpi = 0
  /\ IF part = "backtrace" THEN Trace!Init
     ELSE present = 0 /\ rbp = 0 /\ rsp = 0 /\ stack_top = 0 /\ read = 0
  /\ IF part = "console" THEN Screen!Init
     ELSE console = 0 /\ cursorpos = 0 /\ paper = 0 /\ home = 0 /\ pen = 0

MachineNext ==
  /\ UNCHANGED part
  /\ IF part = "kernel" THEN Next ELSE UNCHANGED vars
  /\ IF part = "vm" THEN Vm!Next ELSE UNCHANGED vmVars
  /\ IF part = "guard" THEN Statics!Next ELSE UNCHANGED guardVars
  /\ IF part = "pci" THEN Bus!Next ELSE UNCHANGED pciVars
  /\ IF part = "backtrace" THEN Trace!Next ELSE UNCHANGED btVars
  /\ IF part = "console" THEN Screen!Next ELSE UNCHANGED screenVars

\* the timer runs, the loop of a backtrace goes on, and so does every processor
MachineSpec ==
  /\ MachineInit /\ [][MachineNext]_allVars
  /\ WF_vars(part = "kernel" /\ Interrupt)
  /\ WF_btVars(part = "backtrace" /\ Trace!step)
  /\ \A c \in Cpus : WF_guardVars(part = "guard" /\ Statics!Step(c))

-----------------------------------------------------------------------------
(* Properties: those of the modules, in the behaviours of their parts.     *)

\* kernel.cc, k-memviewer.cc: reference counts are exact, the viewer has no error
\* to show, and one program alone leaks no page, see Kernel and MemViewer.
PagesCounted == part = "kernel" => RefsExact /\ NoPageError /\ AloneNoLeak

\* kernel.cc, schedule and memshow: a runnable process gets the processor, and the
\* viewer comes to every process, see Kernel.
EachTurn == part = "kernel" => Scheduled /\ ViewerRotates

\* k-vmiter.cc: the iterator's cached entry is never stale; in a table that has
\* just changed range_perm has the permissions of all pages of a range, and ptiter
\* visits every table once, after the tables below it, see VmIter.
IterExact ==
  part = "vm" =>
    /\ Vm!IterExact
    /\ op.name \in {"vmiter", "try_map"} => Vm!RangePermExact /\ Vm!PtIterOrder

\* k-vmiter.cc: the iterator implements a cursor over a map, the module VmMap.
RefinesMap == (part = "vm" => Vm!VmMap!Init) /\ [][part = "vm" => Vm!VmMap!Next]_<<part, vmVars>>

\* k-hardware.cc, __cxa_guard_acquire and __cxa_guard_release: the statics are
\* initialized once, before anyone uses them, and every processor gets to use them.
GuardContract ==
  /\ [](part = "guard" => Statics!InitializedOnce /\ Statics!UsesInitialized)
  /\ part = "guard" => Statics!AllUse

\* k-hardware.cc, pci_find and poweroff: the search sees every function.
SeesAll == part = "pci" => Bus!SeesAll

\* kernel.hh, backtracer: only mapped words are read, and every backtrace ends.
BacktraceSafe ==
  /\ [](part = "backtrace" => Trace!ReadsMapped)
  /\ part = "backtrace" => Trace!Ends

\* lib.cc, console_printer: the screen is a window on what was printed.
Window == part = "console" => Screen!Window
=============================================================================
