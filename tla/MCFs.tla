------------------------------- MODULE MCFs -------------------------------
(***************************************************************************)
(* The file system of lab 5 on four small disks, and its threads.  The     *)
(* parts "names" and "dirs" make files and directories, rename them and    *)
(* remove the ones or the others, "data" writes and truncates files of     *)
(* several blocks, and "all" calls every operation, with long names and    *)
(* stale entries.  The part "killed" is FsThreads, whose process may be    *)
(* killed between any two transfers.                                       *)
(***************************************************************************)
EXTENDS Fs5600, TLC

CONSTANTS APerms, ATimes        \* permission bits and times in the part "all"

VARIABLES
  part,
  img, bitmap, off, th, alive                   \* FsThreads

kVars == <<img, bitmap, off, th, alive>>

R == INSTANCE Fs5600 WITH Ops <- {"create", "mkdir", "rmdir", "rename"}

D == INSTANCE Fs5600 WITH
       MaxDepth <- 1, MaxLen <- 2, DiskSize <- 7, MapBits <- 7, StatBits <- 7,
       BlockSize <- 2, NumPtrs <- 2, Ops <- {"create", "unlink", "write", "truncate"}

A == INSTANCE Fs5600 WITH
       Names <- {"a"}, LongNames <- {"long"}, StaleNames <- {NoName, "a"},
       Perms <- APerms, Times <- ATimes, DiskSize <- 7, MapBits <- 7, StatBits <- 7,
       Ops <- {"create", "mkdir", "unlink", "rmdir", "rename", "write", "truncate", "chmod", "utime"}

K == INSTANCE FsThreads WITH
       Threads <- {"t"}, NumBlocks <- 8, map <- bitmap,
       Ops <- {"create", "mkdir", "unlink", "write"}

\* permission bits and times are only compared for equality
Interchangeable == Permutations(APerms) \cup Permutations(ATimes)

FsInit ==
  /\ part \in {"names", "dirs", "data", "all", "killed"}
  /\ CASE part = "data" -> D!Init [] part = "all" -> A!Init [] OTHER -> Init
  /\ K!Init

FsNext ==
  /\ UNCHANGED part
  /\ \/ part = "names" /\ Next /\ UNCHANGED kVars
     \/ part = "dirs" /\ R!Next /\ UNCHANGED kVars
     \/ part = "data" /\ D!Next /\ UNCHANGED kVars
     \/ part = "all" /\ A!Next /\ UNCHANGED kVars
     \/ part = "killed" /\ K!Next /\ UNCHANGED vars

FsSpec == FsInit /\ [][FsNext]_<<part, vars, kVars>>

-----------------------------------------------------------------------------
(* Properties: those of Fs5600 and FsThreads, each where its operations    *)
(* are called.                                                             *)

\* fs5600.c: the disk is consistent.  The bitmap has exactly the blocks in use, no
\* block belongs to two files, pointers lead to blocks of the right kind, a file
\* has the blocks its size calls for, and a directory has one entry for a name.
Consistent ==
  /\ part \in {"names", "dirs"} =>
       InUseMarked /\ FreeExact /\ NoSharing /\ KindsMatch /\ NamesUnique
  /\ part = "data" => D!NoSharing /\ D!FreeExact /\ D!ExtentMatchesSize
  /\ part = "all" => A!TypeOK

\* fs5600.c: operations fail with the errors of the comments, and fs_read returns
\* the bytes of the file, also across blocks, see Fs5600.
AnswersRight ==
  /\ part \in {"names", "dirs"} => ErrorsDocumented
  /\ part = "data" => D!ReadsContent

\* fs5600.c: every operation is one of the tree of module FsTree.
ImplementsTree ==
  /\ part \in {"names", "dirs"} => Tree!TreeInit
  /\ part = "data" => D!Tree!TreeInit
  /\ part = "all" => A!Tree!TreeInit
  /\ [][CASE part = "data" -> D!Tree!TreeNext
          [] part = "all" -> A!Tree!TreeNext
          [] OTHER -> Tree!TreeNext]_tree

\* fs5600.c, killed: wherever the process ends, an entry on the disk leads to an
\* inode, and no block of the image belongs to two files, see FsThreads.
KilledImage == part = "killed" => K!EntriesLead /\ K!NoSharing
=============================================================================
