------------------------------- MODULE VmMap -------------------------------
(***************************************************************************)
(* What k-vmiter.hh promises of a vmiter: a cursor over a map from page    *)
(* addresses to physical addresses and permissions.                        *)
(***************************************************************************)
EXTENDS Integers

CONSTANTS
  Page,                 \* bytes in a page
  LowEnd,               \* one past the last address of the address space
  Values                \* what an address can map to: [pa, perm]

VARIABLES
  map, va,
  op                    \* the last call, its argument and its result

vars == <<map, va, op>>

PageVas == {a \in 0..(LowEnd - 1) : a % Page = 0}
PageOf(a) == a - (a % Page)
Absent == [pa |-> 0, perm |-> {}]

Init == map \in [PageVas -> Values] /\ va = 0 /\ op = [name |-> "vmiter"]

find ==
  /\ op'.name = "find" /\ va' = op'.arg
  /\ UNCHANGED map

\* k-vmiter.hh:66: to the next larger page-aligned address, over absent regions
next ==
  /\ op' = [name |-> "next"]
  /\ va' > va /\ va' % Page = 0 /\ va' <= LowEnd
  /\ LET m == map
     IN \A x \in PageVas : va < x /\ x < va' => m[x] = Absent
  /\ UNCHANGED map

\* k-vmiter.hh:69: to the end of a range that is mapped as one
next_range ==
  /\ op' = [name |-> "next_range"]
  /\ va' > va /\ va' % Page = 0 /\ va' <= LowEnd
  /\ LET m == map
         v == PageOf(va)
     IN \A x \in PageVas : va < x /\ x < va' =>
          /\ m[x].perm = m[v].perm
          /\ m[x] # Absent => m[x].pa - x = m[v].pa - v
  /\ UNCHANGED map

\* k-vmiter.hh:81-86: the mapping of va changes and no other, or try_map fails
\* and nothing does
try_map ==
  /\ op'.name = "try_map" /\ op'.arg \in Values
  /\ map' = IF op'.result = 0 THEN [map EXCEPT ![va] = op'.arg] ELSE map
  /\ va \in PageVas
  /\ UNCHANGED va

Next == find \/ next \/ next_range \/ try_map

Spec == Init /\ [][Next]_vars
=============================================================================
