------------------------------ MODULE FileTree ------------------------------
(***************************************************************************)
(* The part of the VFS the search system call looks at: a tree of files    *)
(* and directories, path lookup, the absolute path of an open directory,   *)
(* and what other processes do to the tree meanwhile.                      *)
(*                                                                         *)
(* Nodes are numbers, which is also the order of the entries of a          *)
(* directory.  A name and a path are sequences of characters.  A removed   *)
(* node keeps its parent and its name, as an unhashed dentry does.         *)
(***************************************************************************)
EXTENDS Integers, Sequences, FiniteSets

CONSTANTS
  NNodes,      \* nodes are 1 .. NNodes, the root is 1
  DirNodes,    \* the nodes that are directories
  NoRead,      \* directories the caller may not read
  NoExec,      \* directories the caller may not search
  Untyped,     \* directories whose file system reports their entry as DT_UNKNOWN
  NewNames,    \* names other processes give
  MaxChanges   \* bound on what other processes do

VARIABLES
  parent, name, gone,   \* the tree; gone is the set of removed nodes
  changes               \* number of changes so far

treeVars == <<parent, name, gone, changes>>

EPERM   == 1
ENOENT  == 2
EIO     == 5
ENOMEM  == 12
EACCES  == 13
EFAULT  == 14
ENODEV  == 19
ENOTDIR == 20
ENFILE  == 23
ERANGE  == 34
ENAMETOOLONG == 36

Nodes == 1 .. NNodes
Root  == 1
Slash == <<"/">>
Dot    == <<".">>
DotDot == <<".", ".">>

\* What other processes and file systems use as the name of a file, and how
\* directories hold files: going up from anywhere ends at the root, and the
\* files of a directory have different names.
IsName(c) == c \in Seq(STRING) /\ c \notin {<<>>, Dot, DotDot} /\ \A i \in DOMAIN c : c[i] \notin {"/", "NUL"}
IsTree(p) ==
  /\ p \in [Nodes -> DirNodes]
  /\ \A S \in SUBSET (Nodes \ {Root}) : S # {} => \E x \in S : p[x] \notin S
AreApart(p, n) == \A x, y \in Nodes \ {Root} : p[x] = p[y] /\ n[x] = n[y] => x = y

Children(d) == {x \in Nodes \ (gone \cup {Root}) : parent[x] = d}

(***************************************************************************)
(* Path lookup (kern_path, vfs_path_lookup): the node that a path names    *)
(* from a starting node on, or a negative error.  The start is also the    *)
(* root of the lookup (LOOKUP_ROOT): ".." does not leave it.               *)
(***************************************************************************)
Components(s) ==
  LET EndOf(k) == CHOOSE e \in k .. Len(s) :
                    /\ \A i \in k .. e : s[i] # "/"
                    /\ e = Len(s) \/ s[e + 1] = "/"
      C[k \in 1 .. Len(s) + 1] ==
        IF k > Len(s) THEN <<>>
        ELSE IF s[k] = "/" THEN C[k + 1]
        ELSE <<SubSeq(s, k, EndOf(k))>> \o C[EndOf(k) + 1]
  IN  C[1]

Step(root, d, c) ==
  IF d \notin DirNodes THEN -ENOTDIR
  ELSE IF d \in NoExec THEN -EACCES
  ELSE IF c = Dot THEN d
  ELSE IF c = DotDot THEN IF d = root THEN d ELSE parent[d]
  ELSE IF \E x \in Children(d) : name[x] = c THEN CHOOSE x \in Children(d) : name[x] = c
  ELSE -ENOENT

Lookup(start, s) ==
  LET cs == Components(s)
      W[k \in 0 .. Len(cs)] ==
        IF k = 0 THEN start
        ELSE IF W[k - 1] < 0 THEN W[k - 1]
        ELSE Step(start, W[k - 1], cs[k])
  IN  W[Len(cs)]

\* filp_open(path, O_DIRECTORY|O_RDONLY) without the errors of open itself.
OpenDir(s) ==
  LET r == Lookup(Root, s)
  IN  IF r < 0 THEN r
      ELSE IF r \notin DirNodes THEN -ENOTDIR
      ELSE IF r \in NoRead THEN -EACCES
      ELSE r

\* d_absolute_path: the names up to the root, removed or not.
AbsPath(d) ==
  LET A[x \in Nodes] == IF x = Root THEN <<>> ELSE A[parent[x]] \o Slash \o name[x]
  IN  IF d = Root THEN Slash ELSE A[d]

(***************************************************************************)
(* The entries a directory still has to deliver, in order: "." and ".."    *)
(* have the numbers -1 and 0.                                              *)
(***************************************************************************)
EntryName(x) == IF x = -1 THEN Dot ELSE IF x = 0 THEN DotDot ELSE name[x]
EntryType(x) == IF x < 1 \/ x \in DirNodes \ Untyped THEN "d" ELSE "o"

EntriesFrom(d, pos) ==
  LET due(x) == x > pos /\ (x < 1 \/ x \in Children(d))
      entry(x) == [type |-> EntryType(x), name |-> EntryName(x), id |-> x]
      E[k \in 0 .. NNodes + 2] ==
        IF k = 0 THEN <<>>
        ELSE IF due(k - 2) THEN Append(E[k - 1], entry(k - 2)) ELSE E[k - 1]
  IN  E[NNodes + 2]

-----------------------------------------------------------------------------
(***************************************************************************)
(* Other processes.                                                        *)
(***************************************************************************)
Above(d) ==
  LET A[y \in Nodes] == IF y = Root THEN {Root} ELSE {y} \cup A[parent[y]]
  IN  A[d]

Below(x, d) == x \in Above(d)

Unlink(x) ==
  /\ x \notin gone \cup {Root}
  /\ Children(x) = {}
  /\ gone' = gone \cup {x}
  /\ UNCHANGED <<parent, name>>

Rename(x, d, c) ==
  /\ x \notin gone \cup {Root}
  /\ d \in DirNodes \ gone
  /\ ~ Below(x, d)
  /\ \A y \in Children(d) : name[y] # c
  /\ parent' = [parent EXCEPT ![x] = d]
  /\ name' = [name EXCEPT ![x] = c]
  /\ UNCHANGED gone

Change ==
  /\ changes < MaxChanges
  /\ changes' = changes + 1
  /\ \E x \in Nodes : Unlink(x) \/ \E d \in DirNodes, c \in NewNames : Rename(x, d, c)

=============================================================================
