------------------------------- MODULE FsTree -------------------------------
(***************************************************************************)
(* What the file system of lab 5 promises: a tree of directories and       *)
(* files, addressed by path.  The comments above the fs_* functions of     *)
(* fs5600.c are the source of the error codes; there are neither inodes,   *)
(* blocks nor directory entries here.                                      *)
(***************************************************************************)
EXTENDS Integers, Sequences, SequencesExt

CONSTANTS
  Paths,                \* sequences of names, the root is the empty one
  LongNames,            \* names of more than 27 letters
  Perms, Times,         \* permission bits, and clock values
  Bufs,                 \* what a call of write may write
  MaxSize               \* the maximum size of a file

VARIABLE tree           \* what each path stands for, or Lost

ENOENT == -2
EEXIST == -17
ENOTDIR == -20
EISDIR == -21
EINVAL == -22
ENOSPC == -28
ENOTEMPTY == -39

None == [type |-> "none", perm |-> 0, mtime |-> 0, data |-> << >>]
Dir(perm, now) == [type |-> "dir", perm |-> perm, mtime |-> now, data |-> << >>]
File(perm, now) == [type |-> "file", perm |-> perm, mtime |-> now, data |-> << >>]
Lost == << >>           \* the file system has stopped

Parent(p) == Front(p)
Under(p, r) == IsStrictPrefix(p, r)

\* A component of the path does not exist, or is below a file.
PathError(p) ==
  IF tree[p].type # "none" THEN 0
  ELSE IF \E r \in Paths : Under(r, p) /\ tree[r].type = "file" THEN ENOTDIR
  ELSE ENOENT

-----------------------------------------------------------------------------
(* The errors of the operations.                                           *)

\* create and mkdir: "/a/b" must exist, and "/a/b/c" must not
NewError(p) ==
  CASE tree[p].type # "none"          -> EEXIST
    [] PathError(Parent(p)) # 0       -> PathError(Parent(p))
    [] tree[Parent(p)].type # "dir"   -> ENOTDIR
    [] Last(p) \in LongNames          -> EINVAL
    [] OTHER                          -> 0

NotADir(p) == IF PathError(p) = 0 /\ tree[p].type = "dir" THEN EISDIR ELSE PathError(p)

NotAFile(p) == IF PathError(p) = 0 /\ tree[p].type = "file" THEN ENOTDIR ELSE PathError(p)

RmdirError(p) ==
  CASE PathError(p) # 0                                        -> PathError(p)
    [] tree[p].type # "dir"                                    -> ENOTDIR
    [] \E r \in Paths : Under(p, r) /\ tree[r].type # "none"   -> ENOTEMPTY
    [] OTHER                                                   -> 0

RenameError(p, r) ==
  CASE tree[p].type = "none"     -> ENOENT
    [] tree[r].type # "none"     -> EEXIST
    [] Parent(p) # Parent(r)     -> EINVAL
    [] OTHER                     -> 0

WriteError(p, len, off) ==
  CASE NotADir(p) # 0              -> NotADir(p)
    [] off > Len(tree[p].data)     -> EINVAL
    [] off + len > MaxSize         -> ENOSPC
    [] OTHER                       -> 0

-----------------------------------------------------------------------------
(* What the operations do when they succeed.                               *)

\* data with buf written over it from offset off on
Overwrite(data, off, buf) ==
  SubSeq(data, 1, off) \o buf \o SubSeq(data, off + Len(buf) + 1, Len(data))

Create(p, perm, now) == NewError(p) = 0 /\ tree' = [tree EXCEPT ![p] = File(perm, now)]
Mkdir(p, perm, now) == NewError(p) = 0 /\ tree' = [tree EXCEPT ![p] = Dir(perm, now)]

Drop(p, now) == tree' = [tree EXCEPT ![p] = None, ![Parent(p)].mtime = now]
Unlink(p, now) == NotADir(p) = 0 /\ Drop(p, now)
Rmdir(p, now) == RmdirError(p) = 0 /\ Drop(p, now)

Write(p, off, buf, now) ==
  /\ WriteError(p, Len(buf), off) = 0
  /\ tree' = [tree EXCEPT ![p].data = Overwrite(@, off, buf), ![p].mtime = now]

Truncate(p, now) ==
  /\ NotADir(p) = 0
  /\ tree' = [tree EXCEPT ![p].data = << >>, ![p].mtime = now]

Chmod(p, perm) == PathError(p) = 0 /\ tree' = [tree EXCEPT ![p].perm = perm]
Utime(p, now) == PathError(p) = 0 /\ tree' = [tree EXCEPT ![p].mtime = now]

\* what was at p and below it is then at r and below it
Rename(p, r) ==
  /\ RenameError(p, r) = 0
  /\ tree' = [s \in Paths |->
                IF IsPrefix(r, s) THEN tree[p \o SubSeq(s, Len(r) + 1, Len(s))]
                ELSE IF IsPrefix(p, s) THEN None ELSE tree[s]]

\* the process that serves the file system ends
Stop == tree' = Lost

TreeInit == \E perm \in Perms, now \in Times :
              tree = [p \in Paths |-> IF p = << >> THEN Dir(perm, now) ELSE None]

TreeNext ==
  \/ Stop
  \/ /\ tree # Lost
     /\ \E p \in Paths, perm \in Perms, now \in Times :
          \/ /\ p # << >>
             /\ \/ Create(p, perm, now) \/ Mkdir(p, perm, now)
                \/ Unlink(p, now) \/ Rmdir(p, now)
                \/ \E r \in Paths \ {<< >>} : Rename(p, r)
          \/ Chmod(p, perm) \/ Utime(p, now) \/ Truncate(p, now)
          \/ \E buf \in Bufs, off \in 0..MaxSize : Write(p, off, buf, now)

TreeSpec == TreeInit /\ [][TreeNext]_tree
=============================================================================
