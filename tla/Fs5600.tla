------------------------------- MODULE Fs5600 -------------------------------
(***************************************************************************)
(* The file system of lab 5 (fs5600.c): inodes, directory blocks and data  *)
(* blocks on a disk, and the block bitmap, a copy in memory of block 1.    *)
(* Each FUSE operation is one action: this module is about one operation   *)
(* at a time.  Operations that fail change nothing; the operator that ends *)
(* in Error has the tests an operation makes, in their order, and its      *)
(* return value when one of them fails.                                    *)
(***************************************************************************)
EXTENDS Integers, Sequences, FiniteSets, SequencesExt, FiniteSetsExt

CONSTANTS
  Names, LongNames,     \* names of at most 26 and of more than 27 letters
  NoName,               \* the name in an entry that was never used
  StaleNames,           \* what the uninitialised entries of fs_mkdir may hold
  MaxDepth,             \* paths have at most this many names
  Perms, Times,         \* permission bits; values of time(NULL)
  Data,                 \* the values of a byte
  MaxLen,               \* a call writes at most this many bytes
  DiskSize,             \* num_blocks
  MapBits, StatBits,    \* bits of block_bitmap, and those fs_statfs looks at
  BlockSize,            \* FS_BLOCK_SIZE
  NumPtrs,              \* NUM_PTRS_INODE
  NumDirents,           \* NUM_DIRENT_BLOCK
  Ops                   \* the operations that are called

ASSUME SizeAssumption ==
  /\ BlockSize \in Nat \ {0} /\ NumPtrs \in Nat \ {0} /\ NumDirents \in Nat \ {0}
  /\ DiskSize \in 4..MapBits /\ MapBits \in Nat

VARIABLES
  disk,                 \* the blocks of the image
  map,                  \* block_bitmap: the blocks whose bit is set
  status,               \* the process serves "mounted" or has "aborted"
  tree                  \* history: the files that the disk holds, by path

vars == <<disk, map, status, tree>>

Blocks == 0..(MapBits - 1)
Slots == 0..(NumDirents - 1)
PtrIdx == 0..(NumPtrs - 1)
AllNames == Names \cup LongNames
Paths == UNION {[1..n -> AllNames] : n \in 0..MaxDepth}
Bufs == UNION {[1..n -> Data] : n \in 1..MaxLen}
MaxSize == NumPtrs * BlockSize
Zero == CHOOSE d \in Data : TRUE

ENOENT == -2
EEXIST == -17
ENOTDIR == -20
EISDIR == -21
EINVAL == -22
ENOSPC == -28
ENOTEMPTY == -39

-----------------------------------------------------------------------------
(* Blocks.  Every block has the fields of all kinds of blocks, so that a   *)
(* pointer may lead to any of them.                                        *)

Blank == [kind |-> "none", type |-> "none", perm |-> 0, mtime |-> 0, size |-> 0,
          ptrs |-> [i \in PtrIdx |-> 0],
          ents |-> [i \in Slots |-> [valid |-> FALSE, inode |-> 0, name |-> NoName]],
          data |-> [i \in 0..(BlockSize - 1) |-> Zero], bits |-> {}]

Inode(type, perm, now, ptrs) ==
  [Blank EXCEPT !.kind = "inode", !.type = type, !.perm = perm, !.mtime = now,
                !.ptrs = ptrs]
Dirents(ents) == [Blank EXCEPT !.kind = "dirents", !.ents = ents]
NoPtrs == [i \in PtrIdx |-> 0]

IsDir(n) == disk[n].type = "dir"

\* the smallest number in S, or an error when there is none
FirstOr(S, err) == IF S = {} THEN err ELSE Min(S)

alloc_blk(m) == FirstOr(Blocks \ m, ENOSPC)

get_dirent_index(ents, name) ==
  FirstOr({i \in Slots : ents[i].valid /\ ents[i].name = name}, ENOENT)

DirBlock(n) == disk[n].ptrs[0]
Entries(n) == disk[DirBlock(n)].ents

\* mutant: the walk does not look whether a component is a directory
ResolveAnyType(d, p) ==
  LET walk[i \in 0..Len(p)] ==
        IF i = 0 THEN 2
        ELSE LET n == walk[i - 1]
                 ents == d[d[n].ptrs[0]].ents
                 k == get_dirent_index(ents, p[i])
             IN IF n < 0 THEN n ELSE IF k < 0 THEN k ELSE ents[k].inode
  IN walk[Len(p)]

\* path_to_inum on the disk d
Resolve(d, p) ==
  LET Step(n, name) ==
        LET ents == d[d[n].ptrs[0]].ents
            k == get_dirent_index(ents, name)
        IN IF d[n].type # "dir" THEN ENOTDIR ELSE IF k < 0 THEN k ELSE ents[k].inode
      walk[i \in 0..Len(p)] ==
        IF i = 0 THEN 2
        ELSE LET n == walk[i - 1] IN IF n < 0 THEN n ELSE Step(n, p[i])
  IN walk[Len(p)]

path_to_inum(p) == Resolve(disk, p)

Parent(p) == Front(p)
ParentInum(p) == path_to_inum(Parent(p))

\* the disk after add_dirent, which a full directory leaves as it is
add_dirent(d, blk, n, name) ==
  LET i == FirstOr({k \in Slots : ~d[blk].ents[k].valid}, ENOSPC)
  IN IF i < 0 THEN d
     ELSE [d EXCEPT ![blk].ents[i] = [valid |-> TRUE, inode |-> n, name |-> name]]

\* the disk after the entry of p, which exists, is made invalid
DropDirent(d, p) ==
  LET n == ParentInum(p)
  IN [d EXCEPT ![DirBlock(n)].ents[get_dirent_index(Entries(n), Last(p))].valid = FALSE]

-----------------------------------------------------------------------------
(* Creating.                                                               *)

NewError(p) ==
  CASE path_to_inum(p) > 0        -> EEXIST
    [] ParentInum(p) < 0          -> ENOENT
    [] ~IsDir(ParentInum(p))      -> ENOTDIR
    [] Last(p) \in LongNames      -> EINVAL
    [] OTHER                      -> 0

\* assert(lba > 0) in block_write
Abort == status' = "aborted"

fs_create(p, perm, now) ==
  LET n == alloc_blk(map)
  IN /\ NewError(p) = 0
     /\ IF n < 0 THEN Abort /\ UNCHANGED <<disk, map>>
        ELSE /\ map' = map \cup {n}
             /\ disk' = add_dirent([disk EXCEPT ![n] = Inode("file", perm, now, NoPtrs)],
                                   DirBlock(ParentInum(p)), n, Last(p))
             /\ UNCHANGED status

\* With one free block the inode and its entry are written before the assertion
\* fails for the entry block.
fs_mkdir(p, perm, now) ==
  LET n == alloc_blk(map)
      e == alloc_blk(map \cup {n})
      d == add_dirent([disk EXCEPT ![n] = Inode("dir", perm, now, [NoPtrs EXCEPT ![0] = e])],
                      DirBlock(ParentInum(p)), n, Last(p))
  IN /\ NewError(p) = 0
     /\ CASE n < 0   -> Abort /\ UNCHANGED <<disk, map>>
          [] n > 0 /\ e < 0
                     -> Abort /\ map' = map \cup {n} /\ disk' = d
          [] OTHER   -> /\ map' = map \cup {n, e}
                        /\ \E s \in StaleNames :
                             disk' = [d EXCEPT ![e] = Dirents(
                               [i \in Slots |-> [valid |-> FALSE, inode |-> 0, name |-> s]])]
                        /\ UNCHANGED status

-----------------------------------------------------------------------------
(* Removing.                                                               *)

Used(n) == {disk[n].ptrs[i] : i \in PtrIdx} \ {0}

FileError(p) ==
  LET n == path_to_inum(p)
  IN CASE n < 0 -> n [] IsDir(n) -> EISDIR [] OTHER -> 0

fs_unlink(p, now) ==
  LET n == path_to_inum(p)
  IN /\ FileError(p) = 0
     /\ map' = (map \ {n}) \ Used(n)
     /\ disk' = [DropDirent(disk, p) EXCEPT ![ParentInum(p)].mtime = now]
     /\ UNCHANGED status

RmdirError(p) ==
  LET n == path_to_inum(p)
  IN CASE n < 0                                    -> n
       [] ~IsDir(n)                                -> ENOTDIR
       [] \E i \in Slots : Entries(n)[i].valid     -> ENOTEMPTY
       [] OTHER                                    -> 0

\* mutant: the block of the entries is not freed
fs_rmdir_leak(p, now) ==
  LET n == path_to_inum(p)
  IN /\ RmdirError(p) = 0
     /\ map' = map \ {n}
     /\ disk' = [DropDirent(disk, p) EXCEPT ![ParentInum(p)].mtime = now]
     /\ UNCHANGED status

fs_rmdir(p, now) ==
  LET n == path_to_inum(p)
  IN /\ RmdirError(p) = 0
     /\ map' = map \ {n, DirBlock(n)}
     /\ disk' = [DropDirent(disk, p) EXCEPT ![ParentInum(p)].mtime = now]
     /\ UNCHANGED status

\* mutant: the two directories are not compared
RenameErrorAnyDir(p, r) ==
  CASE path_to_inum(p) < 0     -> ENOENT
    [] path_to_inum(r) > 0     -> EEXIST
    [] OTHER                   -> 0

RenameError(p, r) ==
  CASE path_to_inum(p) < 0     -> ENOENT
    [] path_to_inum(r) > 0     -> EEXIST
    [] Parent(p) # Parent(r)   -> EINVAL
    [] OTHER                   -> 0

\* The first entry with the name, valid or not, gets the new name. A long name
\* is not copied to dst_last_filename, whose contents are then arbitrary.
fs_rename(p, r) ==
  LET blk == DirBlock(ParentInum(p))
      k == FirstOr({i \in Slots : disk[blk].ents[i].name = Last(p)}, ENOENT)
  IN /\ RenameError(p, r) = 0
     /\ \E name \in IF Last(r) \in LongNames THEN Names ELSE {Last(r)} :
          disk' = [disk EXCEPT ![blk].ents[k].name = name]
     /\ UNCHANGED <<map, status>>

-----------------------------------------------------------------------------
(* Attributes.                                                             *)

PathError(p) == IF path_to_inum(p) < 0 THEN path_to_inum(p) ELSE 0

\* the type bits of the mode are kept
fs_chmod(p, perm) ==
  /\ PathError(p) = 0
  /\ disk' = [disk EXCEPT ![path_to_inum(p)].perm = perm]
  /\ UNCHANGED <<map, status>>

fs_utime(p, now) ==
  /\ PathError(p) = 0
  /\ disk' = [disk EXCEPT ![path_to_inum(p)].mtime = now]
  /\ UNCHANGED <<map, status>>

\* the number of blocks goes to st_blksize, st_blocks stays 0
inode_to_stat(n) ==
  [st_ino |-> n, st_type |-> disk[n].type, st_perm |-> disk[n].perm,
   st_mtime |-> disk[n].mtime, st_size |-> disk[n].size, st_blocks |-> 0,
   st_blksize |-> (disk[n].size + BlockSize - 1) \div BlockSize]

fs_getattr(p) == inode_to_stat(path_to_inum(p))

fs_statfs == [f_blocks |-> DiskSize,
              f_bfree |-> DiskSize - Cardinality({i \in map : i < StatBits})]

-----------------------------------------------------------------------------
(* File data.                                                              *)

\* The loops of fs_read and fs_write: done bytes have been transferred, and the
\* next piece ends at the end of the block or of the request.
PieceLen(off, len, done) ==
  LET norm_offset == (off + done) % BlockSize
      n == IF norm_offset + len > BlockSize THEN BlockSize - norm_offset ELSE len
  IN IF done + n > len THEN len - done ELSE n

Pieces(off, len) ==
  LET from[done \in 0..len] ==
        IF done = len THEN << >>
        ELSE LET n == PieceLen(off, len, done)
             IN <<[done |-> done, n |-> n]>> \o from[done + n]
  IN from[0]

ReaddirError(p) ==
  LET n == path_to_inum(p)
  IN CASE n < 0 -> n [] ~IsDir(n) -> ENOTDIR [] OTHER -> 0

\* the names and inode numbers that fs_readdir hands to filler
fs_readdir(p) ==
  LET ents == Entries(path_to_inum(p))
  IN {<<ents[i].name, ents[i].inode>> : i \in {k \in Slots : ents[k].valid}}

\* the bytes that fs_read copies, for a path that is a file
fs_read(p, len, off) ==
  LET ino == disk[path_to_inum(p)]
      n == IF off >= ino.size THEN 0
           ELSE IF off + len > ino.size THEN ino.size - off ELSE len
      Piece(c) == LET o == off + c.done
                      norm_offset == o % BlockSize
                      blk == disk[ino.ptrs[o \div BlockSize]]
                  IN [j \in 1..c.n |-> blk.data[norm_offset + j - 1]]
  IN FoldLeft(LAMBDA acc, c : acc \o Piece(c), << >>, Pieces(off, n))

WriteError(p, len, off) ==
  LET n == path_to_inum(p)
  IN CASE FileError(p) # 0                  -> FileError(p)
       [] off > disk[n].size                -> EINVAL
       [] disk[n].size + len > MaxSize      -> ENOSPC
       [] OTHER                             -> 0

\* One round of the loop of fs_write: the block is allocated if the inode has
\* none, and the piece is copied into it. Without a free block the error number
\* becomes the pointer, and block_write aborts.
WritePiece(st, n, off, buf, c) ==
  LET o == off + c.done
      norm_offset == o % BlockSize
      i == o \div BlockSize
      old == st.disk[n].ptrs[i]
      blk == IF old # 0 THEN old ELSE alloc_blk(st.map)
      d == [st.disk EXCEPT ![n].ptrs[i] = blk]
      bytes == [j \in 0..(BlockSize - 1) |->
                  IF j \in norm_offset..(norm_offset + c.n - 1)
                    THEN buf[c.done + j - norm_offset + 1] ELSE d[blk].data[j]]
  IN CASE st.status = "aborted" -> st
       [] blk < 0               -> [st EXCEPT !.disk = d, !.status = "aborted"]
       [] OTHER                 -> [st EXCEPT
                                     !.disk = [d EXCEPT ![blk] =
                                       [Blank EXCEPT !.kind = "data", !.data = bytes]],
                                     !.map = @ \cup {blk}]

fs_write(p, off, buf, now) ==
  LET n == path_to_inum(p)
      size == IF off + Len(buf) > disk[n].size THEN off + Len(buf) ELSE disk[n].size
      start == [disk |-> [disk EXCEPT ![n].size = size, ![n].mtime = now],
                map |-> map, status |-> status]
      end == FoldLeft(LAMBDA st, c : WritePiece(st, n, off, buf, c),
                      start, Pieces(off, Len(buf)))
  IN /\ WriteError(p, Len(buf), off) = 0
     /\ disk' = end.disk /\ map' = end.map /\ status' = end.status

\* for len = 0; any other length is refused before the path is looked at
fs_truncate(p, now) ==
  LET n == path_to_inum(p)
  IN /\ FileError(p) = 0
     /\ map' = map \ Used(n)
     /\ disk' = [disk EXCEPT ![n].size = 0, ![n].mtime = now, ![n].ptrs = NoPtrs]
     /\ UNCHANGED status

-----------------------------------------------------------------------------
(* The tree of files: what fs_getattr and fs_read show of each path.       *)

Tree == INSTANCE FsTree

Mounted == status = "mounted"
Existing == {p \in Paths : path_to_inum(p) > 0}

\* The bytes that belong to an inode of the disk d.
Content(d, ino) == [k \in 1..ino.size |->
                      d[ino.ptrs[(k - 1) \div BlockSize]].data[(k - 1) % BlockSize]]

TreeOf(d) ==
  LET Node(ino) == [type |-> ino.type, perm |-> ino.perm, mtime |-> ino.mtime,
                    data |-> IF ino.type = "dir" THEN << >> ELSE Content(d, ino)]
  IN [p \in Paths |-> LET n == Resolve(d, p) IN IF n < 0 THEN Tree!None ELSE Node(d[n])]

-----------------------------------------------------------------------------
\* The image that gen-disk.py writes for an empty root directory, whose entries
\* it puts in the last block; block 1 has a bit for every block in use.
Image(perm, now) ==
  [b \in Blocks |->
     CASE b = 1            -> [Blank EXCEPT !.kind = "map", !.bits = {0, 1, 2, DiskSize - 1}]
       [] b = 2            -> Inode("dir", perm, now, [NoPtrs EXCEPT ![0] = DiskSize - 1])
       [] b = DiskSize - 1 -> Dirents(Blank.ents)
       [] OTHER            -> Blank]

\* A mount reads the bitmap from block 1.
Init ==
  /\ \E perm \in Perms, now \in Times : disk = Image(perm, now)
  /\ map = disk[1].bits
  /\ status = "mounted"
  /\ tree = TreeOf(disk)

Call(op) == op \in Ops /\ Mounted
BelowRoot == Paths \ {<< >>}

Operation ==
  \/ \E p \in BelowRoot, now \in Times :
       \/ Call("create") /\ \E perm \in Perms : fs_create(p, perm, now)
       \/ Call("mkdir") /\ \E perm \in Perms : fs_mkdir(p, perm, now)
       \/ Call("unlink") /\ fs_unlink(p, now)
       \/ Call("rmdir") /\ fs_rmdir(p, now)
       \/ Call("truncate") /\ fs_truncate(p, now)
       \/ Call("write") /\ \E buf \in Bufs, off \in 0..MaxSize : fs_write(p, off, buf, now)
  \/ \E p, r \in BelowRoot : Call("rename") /\ fs_rename(p, r)
  \/ \E p \in Paths, perm \in Perms : Call("chmod") /\ fs_chmod(p, perm)
  \/ \E p \in Paths, now \in Times : Call("utime") /\ fs_utime(p, now)

Records == tree' = IF Mounted' THEN TreeOf(disk') ELSE Tree!Lost

Next == Operation /\ Records

Spec == Init /\ [][Next]_vars

\* A second mount of the image: the bitmap is read from block 1, which no
\* operation has written.
fs_init ==
  /\ map' = disk[1].bits
  /\ status' = "mounted"
  /\ UNCHANGED disk

RemountSpec == Init /\ [][Next \/ (fs_init /\ Records)]_vars

-----------------------------------------------------------------------------
(* Properties.                                                             *)

BlockType ==
  [kind: {"none", "inode", "dirents", "data", "map"}, type: {"none", "file", "dir"},
   perm: Perms \cup {0}, mtime: Times \cup {0}, size: 0..MaxSize,
   ptrs: [PtrIdx -> Blocks \cup {ENOSPC}],
   ents: [Slots -> [valid: BOOLEAN, inode: Blocks, name: Names \cup {NoName}]],
   data: [0..(BlockSize - 1) -> Data], bits: SUBSET Blocks]

\* The variables keep their types.
TypeOK ==
  /\ \A b \in Blocks : disk[b] \in BlockType
  /\ map \in SUBSET Blocks
  /\ status \in {"mounted", "aborted"}

\* Who refers to which block: a path to its inode (as -1), an inode to its blocks.
Refs == UNION {{<<p, -1, path_to_inum(p)>>} \cup
               {<<p, i, disk[path_to_inum(p)].ptrs[i]>> :
                  i \in {k \in PtrIdx : disk[path_to_inum(p)].ptrs[k] # 0}} : p \in Existing}
InUse == {ref[3] : ref \in Refs}

\* Every block of a file or directory is marked in the bitmap, so that alloc_blk
\* never hands it out again, and blocks 0 and 1 stay marked.
InUseMarked == Mounted => InUse \cup {0, 1} \subseteq map

\* No block belongs to two files, or twice to one, whatever alloc_blk and
\* free_blk were called for before.
NoSharing == Mounted => \A s, t \in Refs : s[3] = t[3] => s = t

\* Pointers lead to blocks of the right kind: entries to inodes, directories to
\* entry blocks, and files to data blocks.
KindsMatch ==
  Mounted => \A p \in Existing :
    LET ino == disk[path_to_inum(p)]
    IN /\ ino.kind = "inode"
       /\ ino.type = "dir" => disk[ino.ptrs[0]].kind = "dirents"
       /\ ino.type = "file" =>
            \A i \in PtrIdx : ino.ptrs[i] # 0 => disk[ino.ptrs[i]].kind = "data"

\* A file has exactly the blocks its size calls for, from the first pointer on:
\* fs_read never follows a null pointer and nothing is allocated beyond the end.
ExtentMatchesSize ==
  Mounted => \A p \in Existing : ~IsDir(path_to_inum(p)) =>
    LET st == fs_getattr(p)
    IN \A i \in PtrIdx : disk[st.st_ino].ptrs[i] # 0 <=> i < st.st_blksize

\* A directory has one valid entry for a name, so that what fs_readdir lists is
\* what path_to_inum finds.
NamesUnique ==
  Mounted => \A p \in Existing : IsDir(path_to_inum(p)) =>
    \A x, y \in fs_readdir(p) : x[1] = y[1] => x = y

\* f_bfree counts the blocks that belong to no file: what unlink, rmdir and
\* truncate give back is what create, mkdir and write have taken.
FreeExact == Mounted => fs_statfs.f_bfree = DiskSize - Cardinality(InUse \cup {0, 1})

\* fs_read returns the bytes from off to off + len, or to the end of the file,
\* also when they are spread over blocks.
ReadsContent ==
  Mounted => \A p \in Existing : ~IsDir(path_to_inum(p)) =>
    LET c == Content(disk, disk[path_to_inum(p)])
    IN \A off \in 0..MaxSize, len \in 1..MaxSize :
         fs_read(p, len, off) = SubSeq(c, off + 1, Min({off + len, Len(c)}))

\* An operation fails when the comment above it says so, with the error it
\* names: the walk along the blocks of path_to_inum agrees with the tree.
\* (fs_write, and the error that fs_create and fs_mkdir return for a bad parent,
\* are apart.)
ErrorsDocumented ==
  Mounted =>
    /\ \A p \in Paths : /\ PathError(p) = Tree!PathError(p)
                         /\ FileError(p) = Tree!NotADir(p)
                         /\ ReaddirError(p) = Tree!NotAFile(p)
    /\ \A p \in BelowRoot : /\ NewError(p) = 0 <=> Tree!NewError(p) = 0
                             /\ RmdirError(p) = Tree!RmdirError(p)
    /\ \A p, q \in BelowRoot : RenameError(p, q) = Tree!RenameError(p, q)
=============================================================================
