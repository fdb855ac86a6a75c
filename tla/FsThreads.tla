----------------------------- MODULE FsThreads -----------------------------
(***************************************************************************)
(* The file system of lab 5 one block transfer at a time: the threads that *)
(* fuse_main starts (lab5fuse.c passes no -s) run the operations of        *)
(* fs5600.c on the root directory, and the process may be killed between   *)
(* any two transfers.  block_read and block_write (misc.c) move the offset *)
(* of one descriptor and then transfer at the offset; alloc_blk tests a    *)
(* bit and then sets it; nothing is locked.                                *)
(***************************************************************************)
EXTENDS Integers, Sequences, FiniteSets, FiniteSetsExt

CONSTANTS
  Threads,              \* the threads of the process
  Names,                \* names in the root directory
  NumBlocks,            \* blocks of the image, more than four
  Ops                   \* the operations that are called

VARIABLES
  img,                  \* the blocks of the image
  map,                  \* block_bitmap
  off,                  \* the offset of disk_fd, as a block number
  th,                   \* for each thread, its operation and local variables
  alive                 \* the process runs

vars == <<img, map, off, th, alive>>

Blocks == 0..(NumBlocks - 1)
Root == 2
Ents == 3
NoEnts == [x \in Names |-> 0]
Blank == [kind |-> "none", ents |-> NoEnts, type |-> "none", ptr |-> 0, size |-> 0]
Idle == [op |-> "none", name |-> CHOOSE x \in Names : TRUE, pc |-> 0, sought |-> FALSE,
         n |-> 0, e |-> 0, ents |-> NoEnts, ino |-> Blank]

-----------------------------------------------------------------------------
(* What an operation does, in its order: a transfer of a block, or a step  *)
(* on the bitmap.  lookup stands for the transfers of path_to_inum.        *)

\* mutant: the entry is written before the inode
fs_create_linked == <<"lookup", "test_n", "set_n", "read_ents", "link", "write_inode">>

fs_create == <<"lookup", "test_n", "set_n", "write_inode", "read_ents", "link">>
fs_mkdir == <<"lookup", "test_n", "set_n", "test_e", "set_e", "write_inode", "read_ents",
              "link", "write_dir">>
fs_unlink == <<"lookup", "read_inode", "free", "write_parent", "read_ents", "unlink">>
fs_write == <<"lookup", "read_inode", "write_size", "test_e", "set_e", "write_ptr",
              "write_data">>

Steps(op) == CASE op = "create" -> fs_create [] op = "mkdir" -> fs_mkdir
               [] op = "unlink" -> fs_unlink [] op = "write" -> fs_write [] OTHER -> << >>

At(t, step) == LET s == Steps(th[t].op) IN th[t].pc \in DOMAIN s /\ s[th[t].pc] = step
Running(t) == alive /\ th[t].op # "none"

\* thread t with the local variables of v goes to its next step, or returns
Goto(t, v) == th' = [th EXCEPT ![t] = IF v.pc = Len(Steps(v.op)) THEN Idle
                                      ELSE [v EXCEPT !.pc = @ + 1, !.sought = FALSE]]

Call(t, op, name) ==
  /\ alive /\ th[t].op = "none"
  /\ th' = [th EXCEPT ![t] = [Idle EXCEPT !.op = op, !.name = name, !.pc = 1]]
  /\ UNCHANGED <<img, map, off, alive>>

-----------------------------------------------------------------------------
(* Transfers.                                                              *)

\* the block that a transfer of thread t is about, 0 for another step
Lba(t) ==
  LET Any(S) == \E s \in S : At(t, s)
  IN CASE Any({"lookup", "read_ents", "link", "unlink"})                    -> Ents
       [] Any({"read_inode", "write_inode", "write_size", "write_ptr"})     -> th[t].n
       [] Any({"write_dir", "write_data"})                                  -> th[t].e
       [] Any({"write_parent"})                                             -> Root
       [] OTHER                                                             -> 0

Lseek(t) ==
  /\ Running(t) /\ Lba(t) # 0 /\ ~th[t].sought
  /\ off' = Lba(t)
  /\ th' = [th EXCEPT ![t].sought = TRUE]
  /\ UNCHANGED <<img, map, alive>>

\* the lookup of an operation that makes a new name, or of one that needs the name
Lookup(t, ents) ==
  LET n == ents[th[t].name]
  IN IF (n = 0) = (th[t].op \in {"create", "mkdir"})
       THEN Goto(t, [th[t] EXCEPT !.n = n])
       ELSE th' = [th EXCEPT ![t] = Idle]

\* a file of size 1 has its block: fs_write returns ENOSPC, or writes it again
\* (not modelled); unlink refuses a directory
ReadInode(t, ino) ==
  IF ino.type = "file" /\ (th[t].op = "write" => ino.size = 0)
    THEN Goto(t, [th[t] EXCEPT !.ino = ino])
    ELSE th' = [th EXCEPT ![t] = Idle]

block_read(t) ==
  /\ Running(t) /\ th[t].sought
  /\ \/ At(t, "lookup") /\ Lookup(t, img[off].ents)
     \/ At(t, "read_inode") /\ ReadInode(t, img[off])
     \/ At(t, "read_ents") /\ Goto(t, [th[t] EXCEPT !.ents = img[off].ents])
  /\ UNCHANGED <<img, map, alive>>
  /\ off' = off + 1

NewInode(t) == [Blank EXCEPT !.kind = "inode", !.ptr = th[t].e,
                             !.type = IF th[t].op = "mkdir" THEN "dir" ELSE "file"]
Entries(ents) == [Blank EXCEPT !.kind = "dirents", !.ents = ents]

\* what a write step of thread t puts into the block
Written(t) ==
  LET v == th[t] IN
  CASE At(t, "write_inode")  -> NewInode(t)
    [] At(t, "link")         -> Entries([v.ents EXCEPT ![v.name] = v.n])
    [] At(t, "unlink")       -> Entries([v.ents EXCEPT ![v.name] = 0])
    [] At(t, "write_dir")    -> Entries(NoEnts)
    [] At(t, "write_size")   -> [v.ino EXCEPT !.size = 1]
    [] At(t, "write_ptr")    -> [v.ino EXCEPT !.size = 1, !.ptr = v.e]
    [] At(t, "write_data")   -> [Blank EXCEPT !.kind = "data"]
    [] At(t, "write_parent") -> [Blank EXCEPT !.kind = "inode", !.type = "dir", !.ptr = Ents]

block_write(t) ==
  /\ Running(t) /\ th[t].sought
  /\ ~At(t, "lookup") /\ ~At(t, "read_inode") /\ ~At(t, "read_ents")
  /\ off \in Blocks /\ img' = [img EXCEPT ![off] = Written(t)]
  /\ off' = off + 1
  /\ Goto(t, th[t])
  /\ UNCHANGED <<map, alive>>

-----------------------------------------------------------------------------
(* The bitmap.                                                             *)

\* the test of alloc_blk; without a free block the assertion of block_write fails
bit_test(t) ==
  LET free == Blocks \ map
      v == IF At(t, "test_n") THEN [th[t] EXCEPT !.n = Min(free)]
                              ELSE [th[t] EXCEPT !.e = Min(free)]
  IN /\ Running(t) /\ (At(t, "test_n") \/ At(t, "test_e"))
     /\ IF free = {} THEN alive' = FALSE /\ UNCHANGED th
                     ELSE Goto(t, v) /\ UNCHANGED alive
     /\ UNCHANGED <<img, map, off>>

bit_set(t) ==
  /\ Running(t) /\ (At(t, "set_n") \/ At(t, "set_e"))
  /\ map' = map \cup {IF At(t, "set_n") THEN th[t].n ELSE th[t].e}
  /\ Goto(t, th[t])
  /\ UNCHANGED <<img, off, alive>>

free_blk(t) ==
  /\ Running(t) /\ At(t, "free")
  /\ map' = (map \ {th[t].n}) \ ({th[t].ino.ptr} \ {0})
  /\ Goto(t, th[t])
  /\ UNCHANGED <<img, off, alive>>

Kill == alive /\ alive' = FALSE /\ UNCHANGED <<img, map, off, th>>

Init ==
  /\ img = [b \in Blocks |->
              CASE b = Root -> [Blank EXCEPT !.kind = "inode", !.type = "dir", !.ptr = Ents]
                [] b = Ents -> Entries(NoEnts)
                [] OTHER    -> Blank]
  /\ map = 0..Ents
  /\ off = 0
  /\ th = [t \in Threads |-> Idle]
  /\ alive = TRUE

Next ==
  \/ \E t \in Threads : \/ \E op \in Ops, name \in Names : Call(t, op, name)
                        \/ Lseek(t) \/ block_read(t) \/ block_write(t)
                        \/ bit_test(t) \/ bit_set(t) \/ free_blk(t)
  \/ Kill

Spec == Init /\ [][Next]_vars

-----------------------------------------------------------------------------
(* Properties.                                                             *)

Linked == {x \in Names : img[Ents].ents[x] # 0}
InodeOf(x) == img[img[Ents].ents[x]]

\* Wherever the process is killed, an entry on the disk leads to an inode that
\* has been written: fs_create and fs_mkdir write the inode before the entry.
EntriesLead == \A x \in Linked : InodeOf(x).kind = "inode"

\* At every transfer, no block of the image belongs to two files: alloc_blk
\* returned a block that was free.
NoSharing ==
  LET Refs == {<<x, "n", img[Ents].ents[x]>> : x \in Linked} \cup
              {<<x, "e", InodeOf(x).ptr>> : x \in {y \in Linked : InodeOf(y).ptr # 0}}
  IN \A r, s \in Refs : r[3] = s[3] => r = s
=============================================================================
