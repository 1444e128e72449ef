----------------------------- MODULE Namespace -----------------------------
(***************************************************************************)
(* What a directory tree promises its users, whatever stores it: a file or *)
(* directory has an inode number of its own while it has a name, a name is *)
(* given once per directory, and a directory goes only when it is empty.   *)
(* NaiveFS is shown to implement it through the records in its blocks.     *)
(***************************************************************************)
CONSTANTS Inos, Root, Names

VARIABLES
  dirs,    \* inode numbers of the directories in the tree
  files,   \* inode numbers of the files in the tree
  entry    \* the tree: [dir, name, ino]

nsvars == <<dirs, files, entry>>

NSInit == dirs = {Root} /\ files = {} /\ entry = {}

Absent(d, n) == ~ \E e \in entry : e.dir = d /\ e.name = n
Enter(d, n, i) == entry' = entry \cup {[dir |-> d, name |-> n, ino |-> i]}

CreateFile(d, n, i) ==
  /\ d \in dirs /\ Absent(d, n) /\ i \notin dirs \cup files
  /\ Enter(d, n, i)
  /\ files' = files \cup {i} /\ UNCHANGED dirs

MakeDir(d, n, i) ==
  /\ d \in dirs /\ Absent(d, n) /\ i \notin dirs \cup files
  /\ Enter(d, n, i)
  /\ dirs' = dirs \cup {i} /\ UNCHANGED files

RemoveFile(e) ==
  /\ e.ino \in files
  /\ entry' = entry \ {e}
  /\ files' = files \ {e.ino} /\ UNCHANGED dirs

RemoveDir(e) ==
  /\ e.ino \in dirs /\ ~ \E x \in entry : x.dir = e.ino
  /\ entry' = entry \ {e}
  /\ dirs' = dirs \ {e.ino} /\ UNCHANGED files

NSNext ==
  \/ \E d \in dirs, n \in Names, i \in Inos : CreateFile(d, n, i) \/ MakeDir(d, n, i)
  \/ \E e \in entry : RemoveFile(e) \/ RemoveDir(e)

NSSpec == NSInit /\ [][NSNext]_nsvars
============================================================================
