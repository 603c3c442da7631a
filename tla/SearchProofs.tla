---------------------------- MODULE SearchProofs ----------------------------
(***************************************************************************)
(* The guarantees of the search system call for every tree, pattern, list  *)
(* of paths, depth and failure, and for everything other processes do.     *)
(*                                                                         *)
(* StackInv follows the recursion: which places have a frame, and that an  *)
(* error only unwinds.  HeapInv is what is allocated at each place, and    *)
(* LeakInv which files are open.  TreeInv says that the files stay a       *)
(* tree, which makes absolute paths and lookups well defined; DataInv      *)
(* gives the types of everything the call keeps.  In a tree at rest        *)
(* KnownInv says that what readdir delivered is there, and PathInv that    *)
(* ds->path follows the stack of frames.  OneInv is about STOPATFIRST.     *)
(* With RoomInv every step is one of ResultBuffer's, so that its theorems  *)
(* hold of every call.                                                     *)
(*                                                                         *)
(* Then a whole search is compared with what it is to find.  In a tree     *)
(* AtRest a path is that of one file, and the matcher's theorems say what  *)
(* its verdicts mean.  WalkInv says that the frames are a chain from the   *)
(* top and that nothing is read twice; an entry is reported, or passed     *)
(* over, or ahead of the walk (IsAhead), and only in this order: OnceInv   *)
(* and FoundInv.                                                           *)
(***************************************************************************)
EXTENDS Search, SequenceTheorems, FiniteSetTheorems, WellFoundedInduction, TLAPS

-----------------------------------------------------------------------------
(***************************************************************************)
(* Induction over numbers.  The library's rules take an operator, which    *)
(* the provers cannot instantiate; here a set of numbers that has 0 and    *)
(* with every number the next one has all of them, since otherwise there   *)
(* is a least number that it lacks.                                        *)
(***************************************************************************)
\* Every set of natural numbers that is not empty has a least element.
LEMMA LeastNat ==
  ASSUME NEW T \in SUBSET Nat, T # {}
  PROVE  \E x \in T : \A y \in T : x <= y
<1>1. PICK x \in T : \A y \in T : ~ (<<y, x>> \in OpToRel(<, Nat))
  BY NatLessThanWellFounded, WFMin
<1>2. \A y \in T : ~ (y < x)
  BY <1>1 DEF OpToRel
<1> QED BY <1>2

\* Induction: what holds of 0 and goes from n to n + 1 holds of all numbers.
LEMMA NatUp ==
  ASSUME NEW S, 0 \in S, \A n \in Nat : n \in S => n + 1 \in S
  PROVE  Nat \subseteq S
<1> SUFFICES ASSUME Nat \ S # {} PROVE FALSE OBVIOUS
<1>1. PICK x \in Nat \ S : \A y \in Nat \ S : x <= y
  BY LeastNat
<1>2. x # 0 /\ x - 1 \in Nat /\ x - 1 \in S
  BY <1>1
<1> QED BY <1>1, <1>2

FramePcs == {"abspath", "driver", "readdir", "walk", "report", "descend", "close"}
LoopPcs  == {"split", "nextpath", "kern_path", "psearch", "finish"}
TopPcs   == {"enter", "getpaths", "getpattern", "setup"} \cup LoopPcs \cup {"unwind", "returned"}

IsStack  == \E S : stack \in Seq(S)
Framed   == /\ pc \in FramePcs => stack # <<>>
            /\ pc \in TopPcs => stack = <<>>
Failing  == status # 0 => pc \in {"back", "close", "unwind", "returned"}

StackInv == IsStack /\ DepthBound /\ Framed /\ Failing

\* The places search_directory and sys_search go from and to.
LEMMA DirectoryPlaces ==
  ASSUME DirectoryStep
  PROVE  /\ UNCHANGED <<treeVars, argVars, sysVars, rest, held, shift>>
         /\ pc \in FramePcs \cup {"open", "back"} /\ pc' \in FramePcs \cup {"open", "back"}
         /\ pc' = "open" => pc = "descend" /\ UNCHANGED stack
  BY DEF DirectoryStep, OpenSkipped, OpenFails, Open, abspath, Readdir, DirectoryFails, Driver,
         NextEntry, EndWalk, Report, ReportFails, Descend, BackInDirectory, Close, heapVars, sysVars, FramePcs

LEMMA SysPlaces ==
  ASSUME SysStep
  PROVE  UNCHANGED <<treeVars, argVars, stack, files, pathbufs>> /\ pc' \notin FramePcs /\ (pc' = "open" => base' = 0)
  BY DEF SysStep, AllocDs, GetPaths, GetPattern, AllocDirs, Acquire, Exit, StripSlashes, Split, NextPath,
         KernPath, Psearch, BackInSearch, Finish, Unwind, heapVars, FramePcs

Prologue == {"ds", "paths", "pattern"}

\* What is allocated at each place.  A pattern without special characters
\* has no ds->dirs, and only such a one moves.
HeapInv ==
  /\ pc = "enter" => held = {}
  /\ pc = "getpaths" => held = {"ds"}
  /\ pc = "getpattern" => held = {"ds", "paths"}
  /\ pc = "setup" => held = Prologue
  /\ pc \in FramePcs \cup LoopPcs \cup {"open", "back"} =>
       held = IF ispattern THEN Prologue \cup {"dirs"} ELSE Prologue
  /\ pc = "unwind" => /\ held = {x \in Freed(label) : x = "dirs" => ispattern}
                      /\ shift # 0 => "pattern" \in Freed(label)
  /\ pc = "returned" => held = IF shift = 0 THEN {} ELSE {"pattern"}
  /\ pc \in {"enter", "getpaths", "getpattern", "setup"} \/ ispattern => shift = 0

-----------------------------------------------------------------------------
\* Replacing the top frame keeps the height of the stack.
LEMMA ReplaceTop ==
  ASSUME NEW S, NEW s \in Seq(S), s # <<>>, NEW f
  PROVE  /\ [s EXCEPT ![Len(s)] = f] \in Seq(S \cup {f})
         /\ Len([s EXCEPT ![Len(s)] = f]) = Len(s)
         /\ [s EXCEPT ![Len(s)] = f] # <<>>
<1> DEFINE t == [s EXCEPT ![Len(s)] = f]
<1>1. s \in Seq(S \cup {f}) /\ Len(s) \in Nat \ {0} /\ DOMAIN s = 1 .. Len(s) OBVIOUS
<1>2. t \in [1 .. Len(s) -> S \cup {f}]
  BY <1>1
<1>3. t \in Seq(S \cup {f}) /\ Len(t) = Len(s)
  BY <1>1, <1>2
<1> QED BY <1>1, <1>3

\* Pushing a frame adds one to the height.
LEMMA Push ==
  ASSUME NEW S, NEW s \in Seq(S), NEW f
  PROVE  /\ Append(s, f) \in Seq(S \cup {f})
         /\ Len(Append(s, f)) = Len(s) + 1
         /\ Append(s, f) # <<>>
<1>1. s \in Seq(S \cup {f}) OBVIOUS
<1> QED BY <1>1

\* Popping a frame takes one from the height.
LEMMA Pop ==
  ASSUME NEW S, NEW s \in Seq(S), s # <<>>
  PROVE  /\ SubSeq(s, 1, Len(s) - 1) \in Seq(S)
         /\ Len(SubSeq(s, 1, Len(s) - 1)) = Len(s) - 1
<1> DEFINE n == Len(s) - 1
<1>1. n \in Nat /\ 1 \in Int /\ \A i \in 1 .. n : s[i] \in S OBVIOUS
<1> HIDE DEF n
<1>2. SubSeq(s, 1, n) \in Seq(S) /\ Len(SubSeq(s, 1, n)) = n
  BY <1>1, SubSeqProperties
<1> QED BY <1>2 DEF n

-----------------------------------------------------------------------------
\* Steps that leave the stack alone.
LEMMA SameStack ==
  ASSUME StackInv, UNCHANGED stack, Framed', Failing'
  PROVE  StackInv'
  BY DEF StackInv, IsStack, DepthBound

LEMMA SysStack ==
  ASSUME StackInv, SysStep
  PROVE  StackInv'
<1> USE DEF FramePcs, TopPcs, LoopPcs
<1>1. CASE AllocDs \/ GetPaths \/ GetPattern \/ AllocDirs
  <2>1. UNCHANGED <<stack, files>> /\ Framed' /\ Failing' /\ status = 0
    BY <1>1 DEF AllocDs, GetPaths, GetPattern, AllocDirs, Acquire, Exit, StackInv, Framed, Failing
  <2> QED BY <2>1, SameStack
<1>2. CASE StripSlashes \/ Split \/ NextPath
  <2>1. UNCHANGED <<stack, files>> /\ Framed' /\ Failing' /\ status = 0
    BY <1>2 DEF StripSlashes, Split, NextPath, StackInv, Framed, Failing
  <2> QED BY <2>1, SameStack
<1>3. CASE KernPath
  <2>1. UNCHANGED <<stack, files>> /\ Framed' /\ Failing' /\ status = 0
    BY <1>3 DEF KernPath, Exit, StackInv, Framed, Failing
  <2> QED BY <2>1, SameStack
<1>4. CASE Psearch
  <2>1. UNCHANGED <<stack, files>> /\ Framed' /\ Failing' /\ status = 0
    BY <1>4 DEF Psearch, Exit, StackInv, Framed, Failing
  <2> QED BY <2>1, SameStack
<1>5. CASE BackInSearch
  <2>1. UNCHANGED <<stack, files, status>> /\ Framed' /\ Failing'
    BY <1>5 DEF BackInSearch, Exit, StackInv, Framed, Failing
  <2> QED BY <2>1, SameStack
<1>6. CASE Finish
  <2>1. UNCHANGED <<stack, files>> /\ Framed' /\ Failing' /\ status = 0
    BY <1>6 DEF Finish, Exit, StackInv, Framed, Failing
  <2> QED BY <2>1, SameStack
<1>7. CASE Unwind
  <2>1. UNCHANGED <<stack, files, status>> /\ Framed' /\ Failing'
    BY <1>7 DEF Unwind, StackInv, Framed, Failing
  <2> QED BY <2>1, SameStack
<1> QED BY <1>1, <1>2, <1>3, <1>4, <1>5, <1>6, <1>7 DEF SysStep

LEMMA DirectoryStack ==
  ASSUME StackInv, DirectoryStep
  PROVE  StackInv'
<1> USE DEF FramePcs, TopPcs, LoopPcs
<1>0. PICK S : stack \in Seq(S)
  BY DEF StackInv, IsStack
<1>1. CASE OpenSkipped \/ OpenFails
  <2>1. UNCHANGED <<stack, files>> /\ Framed' /\ Failing' /\ status = 0
    BY <1>1 DEF OpenSkipped, OpenFails, StackInv, Framed, Failing
  <2> QED BY <2>1, SameStack
<1>2. CASE Open
  <2>1. PICK f : stack' = Append(stack, f)
    BY <1>2 DEF Open
  <2>2. /\ stack' \in Seq(S \cup {f})
        /\ Len(stack') = Len(stack) + 1
        /\ stack' # <<>>
    BY <1>0, <2>1, Push
  <2>3. /\ pc = "open" /\ pc' = "abspath" /\ status' = 0 /\ files' = files + 1
        /\ ~ (Len(stack) >= TREE_DEPTH)
    BY <1>2 DEF Open, TooDeep
  <2>4. Len(stack) \in Nat /\ TREE_DEPTH \in Nat
    BY <1>0, SearchAssumption
  <2>6. IsStack'
    BY <2>2 DEF IsStack
  <2>7. DepthBound'
    BY <2>2, <2>3, <2>4 DEF DepthBound
  <2>8. Framed' /\ Failing'
    BY <2>2, <2>3 DEF Framed, Failing
  <2> QED BY <2>6, <2>7, <2>8 DEF StackInv
<1>3. CASE abspath \/ EndWalk \/ Descend \/ Report
  <2>1. UNCHANGED <<stack, files, status>> /\ Framed' /\ Failing'
    BY <1>3 DEF abspath, EndWalk, Descend, Report, StackInv, Framed, Failing
  <2> QED BY <2>1, SameStack
<1>4. CASE DirectoryFails \/ ReportFails
  <2>1. UNCHANGED <<stack, files>> /\ Framed' /\ Failing' /\ status = 0
    BY <1>4 DEF DirectoryFails, ReportFails, StackInv, Framed, Failing
  <2> QED BY <2>1, SameStack
<1>5. CASE BackInDirectory
  <2>1. UNCHANGED <<stack, files, status>> /\ Framed' /\ Failing'
    BY <1>5 DEF BackInDirectory, StackInv, Framed, Failing
  <2> QED BY <2>1, SameStack
<1>6. CASE Readdir \/ NextEntry
  <2>1. /\ \/ UNCHANGED stack
           \/ \E f : stack' = [stack EXCEPT ![Len(stack)] = f]
        /\ pc \in {"readdir", "walk"} /\ pc' \in {"close", "walk", "report", "descend"}
        /\ UNCHANGED <<status, files>>
    BY <1>6 DEF Readdir, NextEntry, With
  <2>2. stack # <<>> /\ status = 0
    BY <2>1 DEF StackInv, Framed, Failing
  <2>3. CASE UNCHANGED stack
    BY <2>1, <2>2, <2>3, SameStack DEF Framed, Failing
  <2>4. CASE \E f : stack' = [stack EXCEPT ![Len(stack)] = f]
    <3>1. PICK f : stack' = [stack EXCEPT ![Len(stack)] = f]
      BY <2>4
    <3>2. stack' \in Seq(S \cup {f}) /\ Len(stack') = Len(stack) /\ stack' # <<>>
      BY <1>0, <2>2, <3>1, ReplaceTop
    <3> QED BY <2>1, <2>2, <3>2
         DEF StackInv, IsStack, DepthBound, Framed, Failing
  <2> QED BY <2>1, <2>3, <2>4
<1>7. CASE Close
  <2>1. /\ stack # <<>> /\ pc' = "back" /\ UNCHANGED status /\ files' = files - 1
        /\ stack' = SubSeq(stack, 1, Len(stack) - 1)
    BY <1>7 DEF Close, StackInv, Framed
  <2>2. stack' \in Seq(S) /\ Len(stack') = Len(stack) - 1 /\ Len(stack) \in Nat
    BY <1>0, <2>1, Pop
  <2>3. TREE_DEPTH \in Nat
    BY SearchAssumption
  <2>4. IsStack'
    BY <2>2 DEF IsStack
  <2>5. DepthBound'
    BY <2>2, <2>3 DEF StackInv, DepthBound
  <2> QED BY <2>1, <2>2, <2>4, <2>5 DEF StackInv, Framed, Failing
<1>8. ASSUME NEW n \in Answers, Driver(n) PROVE StackInv'
  <2>1. pc = "driver" /\ stack # <<>> /\ status = 0 /\ UNCHANGED files
    BY <1>8 DEF Driver, StackInv, Framed, Failing
  <2>2. CASE pc' = "back"
    <3>1. stack' = SubSeq(stack, 1, Len(stack) - 1)
      BY <1>8, <2>2 DEF Driver
    <3>2. stack' \in Seq(S) /\ Len(stack') = Len(stack) - 1 /\ Len(stack) \in Nat
      BY <1>0, <2>1, <3>1, Pop
    <3>3. TREE_DEPTH \in Nat
      BY SearchAssumption
    <3>4. IsStack' /\ DepthBound'
      BY <3>2, <3>3 DEF StackInv, IsStack, DepthBound
    <3> QED BY <2>2, <3>4 DEF StackInv, Framed, FramePcs, TopPcs, LoopPcs, Failing
  <2>3. CASE pc' # "back"
    <3>1. pc' = "close" /\ UNCHANGED <<status, stack>>
      BY <1>8, <2>3 DEF Driver
    <3> QED BY <2>1, <3>1, SameStack DEF Framed, Failing
  <2> QED BY <2>2, <2>3
<1> QED BY <1>1, <1>2, <1>3, <1>4, <1>5, <1>6, <1>7, <1>8 DEF DirectoryStep

LEMMA StackAlways == Spec => []StackInv
<1>1. Init => StackInv
  BY SearchAssumption
     DEF Init, StackInv, IsStack, DepthBound, Framed, Failing, FramePcs, TopPcs, LoopPcs
<1>2. StackInv /\ [Next]_vars => StackInv'
  <2> SUFFICES ASSUME StackInv, [Next]_vars PROVE StackInv' OBVIOUS
  <2>1. CASE Others
    BY <2>1 DEF Others, StackInv, IsStack, DepthBound, Framed, Failing
  <2>2. CASE UNCHANGED vars
    BY <2>2 DEF vars, StackInv, IsStack, DepthBound, Framed, Failing
  <2> QED BY <2>1, <2>2, SysStack, DirectoryStack DEF Next
<1> QED BY <1>1, <1>2, PTL DEF Spec

\* search_directory uses at most TREE_DEPTH elements of ds->dirs, for every
\* tree and every interleaving with processes that rearrange it.
THEOREM DepthBounded == Spec => []DepthBound
<1>1. StackInv => DepthBound
  BY DEF StackInv
<1> QED BY <1>1, StackAlways, PTL

-----------------------------------------------------------------------------
LEMMA InitHeap == Init => HeapInv
  BY DEF Init, HeapInv, FramePcs, LoopPcs

LEMMA SysHeap ==
  ASSUME HeapInv, SysStep
  PROVE  HeapInv'
<1> USE DEF FramePcs, LoopPcs, Prologue, HeapInv
<1>1. ispattern' = ispattern
  BY SysPlaces DEF argVars, ispattern
<1>2. CASE AllocDs
  BY <1>1, <1>2 DEF AllocDs, Acquire, Exit, Freed
<1>3. CASE GetPaths
  BY <1>1, <1>3 DEF GetPaths, Acquire, Exit, heapVars, Freed
<1>4. CASE GetPattern
  BY <1>1, <1>4 DEF GetPattern, Acquire, Exit, Freed
<1>5. CASE AllocDirs
  BY <1>1, <1>5 DEF AllocDirs, Acquire, Exit, Freed
<1>6. CASE StripSlashes
  BY <1>1, <1>6 DEF StripSlashes
<1>7. CASE Split \/ NextPath
  BY <1>1, <1>7 DEF Split, NextPath, heapVars
<1>8. CASE KernPath \/ Psearch
  BY <1>1, <1>8 DEF KernPath, Psearch, Exit, heapVars, Freed
<1>9. CASE BackInSearch \/ Finish
  BY <1>1, <1>9 DEF BackInSearch, Finish, Exit, heapVars, Freed
<1>10. CASE Unwind
  <2>1. /\ pc = "unwind" /\ pc' = "returned" /\ shift' = shift
        /\ held = {x \in Freed(label) : x = "dirs" => ispattern}
        /\ held' = held \ {x \in Freed(label) : x = "pattern" => shift = 0}
    BY <1>10 DEF Unwind
  <2>2. CASE shift = 0
    <3>1. held' = {}
      BY <2>1, <2>2
    <3> QED BY <2>1, <2>2, <3>1
  <2>3. CASE shift # 0
    <3>1. "pattern" \in Freed(label) /\ ~ ispattern
      BY <2>1, <2>3
    <3>2. held' = {"pattern"}
      BY <2>1, <2>3, <3>1
    <3> QED BY <1>1, <2>1, <2>3, <3>1, <3>2
  <2> QED BY <2>2, <2>3
<1> QED BY <1>2, <1>3, <1>4, <1>5, <1>6, <1>7, <1>8, <1>9, <1>10 DEF SysStep

LEMMA DirectoryHeap ==
  ASSUME HeapInv, DirectoryStep
  PROVE  HeapInv'
<1>1. /\ UNCHANGED <<argVars, held, shift>>
      /\ pc \in FramePcs \cup {"open", "back"}
      /\ pc' \in FramePcs \cup {"open", "back"}
  BY DirectoryPlaces
<1>2. ispattern' = ispattern
  BY <1>1 DEF argVars, ispattern
<1> QED BY <1>1, <1>2 DEF HeapInv, FramePcs, LoopPcs

LEMMA HeapAlways == Spec => []HeapInv
<1>1. HeapInv /\ [Next]_vars => HeapInv'
  <2> SUFFICES ASSUME HeapInv, [Next]_vars PROVE HeapInv' OBVIOUS
  <2>1. CASE Others \/ UNCHANGED vars
    <3>1. UNCHANGED <<argVars, held, shift, pc, label>>
      BY <2>1 DEF Others, vars, heapVars, sysVars
    <3>2. ispattern' = ispattern
      BY <3>1 DEF argVars, ispattern
    <3> QED BY <3>1, <3>2 DEF HeapInv
  <2> QED BY <2>1, SysHeap, DirectoryHeap DEF Next
<1> QED BY <1>1, InitHeap, PTL DEF Spec

-----------------------------------------------------------------------------
(***************************************************************************)
(* Functions defined by recursion up the tree: AbsPath and Above.  One     *)
(* that is r at the root, and g[y] of its value at the parent elsewhere,   *)
(* exists, because going up ends at the root.                              *)
(***************************************************************************)
UpTo(p, r, g, D, f) ==
  /\ D \subseteq Nodes /\ Root \in D
  /\ \A y \in D \ {Root} : p[y] \in D
  /\ f[Root] = r
  /\ \A y \in D \ {Root} : f[y] = g[y][f[p[y]]]

UpFun(p, r, g) == CHOOSE f : UpTo(p, r, g, Nodes, f)

LEMMA NodesFacts ==
  /\ Root \in Nodes /\ Root \in DirNodes /\ DirNodes \subseteq Nodes /\ Nodes \subseteq Int
  /\ \A x \in Nodes : x > 0
  BY SearchAssumption DEF Nodes, Root

LEMMA TreeTyped ==
  ASSUME NEW p, IsTree(p)
  PROVE  p \in [Nodes -> DirNodes] /\ \A x \in Nodes : p[x] \in Nodes /\ p[x] \in DirNodes
<1>1. p \in [Nodes -> DirNodes]
  BY DEF IsTree
<1> QED BY <1>1, NodesFacts

\* What holds of the root and goes down from parent to child holds everywhere.
LEMMA TreeDown ==
  ASSUME NEW p, IsTree(p), NEW G, Root \in G, \A x \in Nodes \ {Root} : p[x] \in G => x \in G
  PROVE  Nodes \subseteq G
<1> DEFINE S == Nodes \ G
<1> SUFFICES ASSUME S # {} PROVE FALSE OBVIOUS
<1>1. S \in SUBSET (Nodes \ {Root}) OBVIOUS
<1>2. PICK x \in S : p[x] \notin S
  BY <1>1 DEF IsTree
<1>3. x \in Nodes \ {Root} /\ p[x] \in Nodes
  BY <1>1, <1>2, NodesFacts DEF IsTree
<1> QED BY <1>2, <1>3

LEMMA UpAgree ==
  ASSUME NEW p, IsTree(p), NEW r, NEW g, NEW D, NEW f, NEW E, NEW h,
         UpTo(p, r, g, D, f), UpTo(p, r, g, E, h), NEW x \in D \cap E
  PROVE  f[x] = h[x]
<1> DEFINE G == {y \in Nodes : y \in D \cap E => f[y] = h[y]}
<1>1. Root \in G
  BY NodesFacts DEF UpTo
<1>2. ASSUME NEW y \in Nodes \ {Root}, p[y] \in G PROVE y \in G
  <2> SUFFICES ASSUME y \in D \cap E PROVE f[y] = h[y] OBVIOUS
  <2>1. p[y] \in D \cap E /\ f[y] = g[y][f[p[y]]] /\ h[y] = g[y][h[p[y]]]
    BY <1>2 DEF UpTo
  <2> QED BY <1>2, <2>1
<1>3. Nodes \subseteq G
  <2> HIDE DEF G
  <2> QED BY <1>1, <1>2, TreeDown
<1> QED BY <1>3 DEF UpTo

LEMMA UpExtends ==
  ASSUME NEW p, NEW r, NEW g, NEW D, NEW f, UpTo(p, r, g, D, f), NEW x \in Nodes \ D, p[x] \in D
  PROVE  \E h : UpTo(p, r, g, D \cup {x}, h)
<1> DEFINE h == [y \in D \cup {x} |-> IF y = x THEN g[x][f[p[x]]] ELSE f[y]]
<1>1. x # Root
  BY DEF UpTo
<1>2. h[Root] = r
  BY <1>1 DEF UpTo
<1>3. ASSUME NEW y \in (D \cup {x}) \ {Root} PROVE p[y] \in D /\ h[y] = g[y][h[p[y]]]
  <2>1. CASE y = x
    BY <2>1
  <2>2. CASE y # x
    <3>1. y \in D \ {Root} /\ p[y] \in D /\ f[y] = g[y][f[p[y]]]
      BY <2>2 DEF UpTo
    <3> QED BY <2>2, <3>1
  <2> QED BY <2>1, <2>2
<1>4. UpTo(p, r, g, D \cup {x}, h)
  <2> HIDE DEF h
  <2> QED BY <1>2, <1>3 DEF UpTo
<1> QED BY <1>4

LEMMA UpExists ==
  ASSUME NEW p, IsTree(p), NEW r, NEW g
  PROVE  UpTo(p, r, g, Nodes, UpFun(p, r, g))
<1> DEFINE G == {x \in Nodes : \E D, f : UpTo(p, r, g, D, f) /\ x \in D}
<1>1. Root \in G
  <2>1. UpTo(p, r, g, {Root}, [y \in {Root} |-> r])
    BY NodesFacts DEF UpTo
  <2> QED BY <2>1, NodesFacts
<1>2. ASSUME NEW x \in Nodes \ {Root}, p[x] \in G PROVE x \in G
  <2>1. PICK D, f : UpTo(p, r, g, D, f) /\ p[x] \in D
    BY <1>2
  <2>2. CASE x \in D
    BY <2>1, <2>2
  <2>3. CASE x \notin D
    <3>1. \E h : UpTo(p, r, g, D \cup {x}, h)
      BY <2>1, <2>3, UpExtends
    <3> QED BY <3>1
  <2> QED BY <2>2, <2>3
<1>3. Nodes \subseteq G
  <2> HIDE DEF G
  <2> QED BY <1>1, <1>2, TreeDown
<1> DEFINE H(x) == CHOOSE h : \E D : UpTo(p, r, g, D, h) /\ x \in D
           F == [x \in Nodes |-> H(x)[x]]
<1>4. ASSUME NEW D, NEW f, UpTo(p, r, g, D, f), NEW x \in D PROVE F[x] = f[x]
  <2>1. \E E : UpTo(p, r, g, E, H(x)) /\ x \in E
    BY <1>4
  <2>2. H(x)[x] = f[x]
    <3> HIDE DEF H
    <3> QED BY <1>4, <2>1, UpAgree
  <2>3. x \in Nodes
    BY <1>4 DEF UpTo
  <2> QED BY <2>2, <2>3
<1>5. F[Root] = r
  <2>1. PICK D, f : UpTo(p, r, g, D, f) /\ Root \in D
    BY <1>3, NodesFacts
  <2>2. F[Root] = f[Root]
    <3> HIDE DEF F
    <3> QED BY <1>4, <2>1
  <2> QED BY <2>1, <2>2 DEF UpTo
<1>6. ASSUME NEW y \in Nodes \ {Root} PROVE F[y] = g[y][F[p[y]]]
  <2>1. PICK D, f : UpTo(p, r, g, D, f) /\ y \in D
    BY <1>3
  <2>2. p[y] \in D /\ f[y] = g[y][f[p[y]]]
    BY <2>1 DEF UpTo
  <2>3. F[y] = f[y] /\ F[p[y]] = f[p[y]]
    <3> HIDE DEF F
    <3> QED BY <1>4, <2>1, <2>2
  <2> QED BY <2>2, <2>3
<1>7. UpTo(p, r, g, Nodes, F)
  <2> HIDE DEF F
  <2> QED BY <1>5, <1>6, NodesFacts, TreeTyped DEF UpTo
<1> QED BY <1>7 DEF UpFun

-----------------------------------------------------------------------------
(***************************************************************************)
(* The tree: what other processes do keeps it a tree, and the absolute     *)
(* path of a directory is that of its parent, a slash and its name.        *)
(***************************************************************************)
Char == STRING \cup {"/", "."}

TreeInv ==
  /\ IsTree(parent)
  /\ name \in [Nodes -> Seq(Char)]
  /\ \A x \in Nodes \ {Root} : IsName(name[x])
  /\ gone \subseteq Nodes \ {Root}
  /\ changes \in Nat
  /\ changes = 0 => gone = {}

LEMMA Separators ==
  /\ Slash \in Seq(Char) /\ Len(Slash) = 1 /\ Slash[1] = "/"
  /\ Dot \in Seq(Char) /\ DotDot \in Seq(Char) /\ <<>> \in Seq(Char)
  BY DEF Slash, Dot, DotDot, Char

\* A path, a slash and a name.
LEMMA Joined ==
  ASSUME NEW s \in Seq(Char), NEW c \in Seq(Char)
  PROVE  /\ s \o Slash \o c \in Seq(Char)
         /\ Len(s \o Slash \o c) = Len(s) + 1 + Len(c)
         /\ \A i \in 1 .. Len(s) : (s \o Slash \o c)[i] = s[i]
         /\ (s \o Slash \o c)[Len(s) + 1] = "/"
         /\ \A i \in 1 .. Len(c) : (s \o Slash \o c)[Len(s) + 1 + i] = c[i]
<1>1. Slash \in Seq(Char) /\ Len(Slash) = 1 /\ Slash[1] = "/"
  BY Separators
<1> DEFINE t == s \o Slash
<1>2. /\ t \in Seq(Char) /\ Len(t) = Len(s) + 1 /\ t[Len(s) + 1] = "/"
      /\ \A i \in 1 .. Len(s) : t[i] = s[i]
  <2>1. ASSUME NEW u \in Seq(Char), Len(u) = 1, u[1] = "/"
        PROVE  /\ s \o u \in Seq(Char) /\ Len(s \o u) = Len(s) + 1 /\ (s \o u)[Len(s) + 1] = "/"
               /\ \A i \in 1 .. Len(s) : (s \o u)[i] = s[i]
    <3>1. /\ s \o u \in Seq(Char) /\ Len(s \o u) = Len(s) + Len(u)
          /\ \A i \in 1 .. Len(s) + Len(u) :
               (s \o u)[i] = IF i <= Len(s) THEN s[i] ELSE u[i - Len(s)]
      BY ConcatProperties
    <3>2. Len(s) \in Nat OBVIOUS
    <3>3. Len(s) + 1 \in 1 .. Len(s) + Len(u) /\ (Len(s) + 1) - Len(s) = 1
      BY <2>1, <3>2
    <3> QED BY <2>1, <3>1, <3>2, <3>3
  <2> QED BY <1>1, <2>1
<1> HIDE DEF t
<1>3. /\ t \o c \in Seq(Char) /\ Len(t \o c) = Len(t) + Len(c)
      /\ \A i \in 1 .. Len(t) : (t \o c)[i] = t[i]
      /\ \A i \in 1 .. Len(c) : (t \o c)[Len(t) + i] = c[i]
  BY <1>2, SMTT(30)
<1>4. Len(s) \in Nat /\ Len(c) \in Nat OBVIOUS
<1>5. /\ Len(t \o c) = Len(s) + 1 + Len(c)
      /\ \A i \in 1 .. Len(s) : (t \o c)[i] = s[i]
      /\ (t \o c)[Len(s) + 1] = "/"
      /\ \A i \in 1 .. Len(c) : (t \o c)[Len(s) + 1 + i] = c[i]
  BY <1>2, <1>3, <1>4
<1> QED BY <1>3, <1>5 DEF t

IsPaths(A) == A = [x \in Nodes |-> IF x = Root THEN <<>> ELSE A[parent[x]] \o Slash \o name[x]]
Paths == CHOOSE A : IsPaths(A)

LEMMA PathsExist ==
  ASSUME TreeInv
  PROVE  /\ IsPaths(Paths)
         /\ \A x \in Nodes : Paths[x] \in Seq(Char)
<1> DEFINE g == [y \in Nodes |-> [v \in Seq(Char) |-> v \o Slash \o name[y]]]
<1>0. Slash \in Seq(Char) /\ \A y \in Nodes : name[y] \in Seq(Char)
  BY Separators DEF TreeInv
<1>t. IsTree(parent) /\ \A y \in Nodes : parent[y] \in Nodes
  BY TreeTyped DEF TreeInv
<1> DEFINE f == UpFun(parent, <<>>, g)
<1>1. /\ f[Root] = <<>>
      /\ \A y \in Nodes \ {Root} : f[y] = g[y][f[parent[y]]]
  <2> HIDE DEF g
  <2>1. UpTo(parent, <<>>, g, Nodes, f)
    BY <1>t, UpExists
  <2> QED BY <2>1 DEF UpTo
<1> HIDE DEF f
<1>2. ASSUME NEW h, h[Root] = <<>>,
             \A y \in Nodes \ {Root} : h[parent[y]] \in Seq(Char) => h[y] = h[parent[y]] \o Slash \o name[y]
      PROVE  \A x \in Nodes : h[x] \in Seq(Char)
  <2> DEFINE G == {x \in Nodes : h[x] \in Seq(Char)}
  <2>1. Root \in G
    BY <1>2, NodesFacts, Separators
  <2>2. ASSUME NEW y \in Nodes \ {Root}, parent[y] \in G PROVE y \in G
    <3>1. h[y] = h[parent[y]] \o Slash \o name[y] /\ h[parent[y]] \in Seq(Char)
      BY <1>2, <2>2
    <3>2. h[y] \in Seq(Char)
      BY <1>0, <3>1
    <3> QED BY <3>2
  <2>3. Nodes \subseteq G
    <3> HIDE DEF G
    <3> QED BY <1>t, <2>1, <2>2, TreeDown
  <2> QED BY <2>3
<1>3. \A y \in Nodes \ {Root} : f[parent[y]] \in Seq(Char) => f[y] = f[parent[y]] \o Slash \o name[y]
  BY <1>1
<1>4. \A x \in Nodes : f[x] \in Seq(Char)
  BY <1>1, <1>2, <1>3
<1>5. \A y \in Nodes \ {Root} : f[y] = f[parent[y]] \o Slash \o name[y]
  BY <1>3, <1>4, <1>t
<1>6. IsPaths([x \in Nodes |-> f[x]])
  BY <1>1, <1>5, <1>t, NodesFacts DEF IsPaths
<1>7. IsPaths(Paths)
  BY <1>6 DEF Paths
<1> DEFINE P == Paths
<1> HIDE DEF P
<1>8. P[Root] = <<>>
      /\ \A y \in Nodes \ {Root} : P[y] = P[parent[y]] \o Slash \o name[y]
  BY <1>7, NodesFacts DEF IsPaths, P
<1>9. \A x \in Nodes : P[x] \in Seq(Char)
  BY <1>2, <1>8
<1> QED BY <1>7, <1>9 DEF P

LEMMA PathsUnfold ==
  ASSUME TreeInv
  PROVE  /\ Paths[Root] = <<>>
         /\ \A x \in Nodes \ {Root} : Paths[x] = Paths[parent[x]] \o Slash \o name[x]
         /\ \A x \in Nodes : Paths[x] \in Seq(Char)
         /\ \A x \in Nodes : AbsPath(x) = IF x = Root THEN Slash ELSE Paths[x]
<1>1. IsPaths(Paths) /\ \A x \in Nodes : Paths[x] \in Seq(Char)
  BY PathsExist
<1>2. \A x \in Nodes : AbsPath(x) = IF x = Root THEN Slash ELSE Paths[x]
  BY DEF AbsPath, Paths, IsPaths
<1>3. Paths = [x \in Nodes |-> IF x = Root THEN <<>> ELSE Paths[parent[x]] \o Slash \o name[x]]
  BY <1>1 DEF IsPaths
<1> HIDE DEF Paths
<1>4. Paths[Root] = <<>> /\ \A x \in Nodes \ {Root} : Paths[x] = Paths[parent[x]] \o Slash \o name[x]
  BY <1>3, NodesFacts
<1> QED BY <1>1, <1>2, <1>4

LEMMA AbsPathType ==
  ASSUME TreeInv, NEW x \in Nodes
  PROVE  AbsPath(x) \in Seq(Char) /\ Len(AbsPath(x)) > 0
<1>1. CASE x = Root
  <2>1. AbsPath(x) = Slash
    BY <1>1, PathsUnfold
  <2> QED BY <2>1, Separators
<1>2. CASE x # Root
  <2>1. /\ AbsPath(x) = Paths[parent[x]] \o Slash \o name[x] /\ Paths[parent[x]] \in Seq(Char)
        /\ Slash \in Seq(Char) /\ Len(Slash) = 1 /\ name[x] \in Seq(Char)
    BY <1>2, PathsUnfold, Separators, TreeTyped DEF TreeInv
  <2> DEFINE s == Paths[parent[x]]
             c == name[x]
  <2>2. s \in Seq(Char) /\ c \in Seq(Char) /\ AbsPath(x) = s \o Slash \o c
    BY <2>1
  <2> HIDE DEF s, c
  <2>3. AbsPath(x) \in Seq(Char) /\ Len(AbsPath(x)) = Len(s) + 1 + Len(c)
    BY <2>2, Joined
  <2> QED BY <2>2, <2>3
<1> QED BY <1>1, <1>2

-----------------------------------------------------------------------------
IsAbove(A) == A = [y \in Nodes |-> IF y = Root THEN {Root} ELSE {y} \cup A[parent[y]]]

LEMMA AboveUnfold ==
  ASSUME IsTree(parent)
  PROVE  /\ Above(Root) = {Root}
         /\ \A y \in Nodes \ {Root} : Above(y) = {y} \cup Above(parent[y])
         /\ \A y \in Nodes : Above(y) \subseteq Nodes
<1> DEFINE g == [y \in Nodes |-> [v \in SUBSET Nodes |-> {y} \cup v]]
           B == CHOOSE A : IsAbove(A)
<1>t. \A y \in Nodes : parent[y] \in Nodes
  BY NodesFacts DEF IsTree
<1> DEFINE f == UpFun(parent, {Root}, g)
<1>1. /\ f[Root] = {Root}
      /\ \A y \in Nodes \ {Root} : f[y] = g[y][f[parent[y]]]
  <2> HIDE DEF g
  <2>1. UpTo(parent, {Root}, g, Nodes, f)
    BY UpExists
  <2> QED BY <2>1 DEF UpTo
<1> HIDE DEF f
<1>2. ASSUME NEW h, h[Root] = {Root},
             \A y \in Nodes \ {Root} : h[parent[y]] \in SUBSET Nodes => h[y] = {y} \cup h[parent[y]]
      PROVE  \A x \in Nodes : h[x] \in SUBSET Nodes
  <2> DEFINE G == {x \in Nodes : h[x] \in SUBSET Nodes}
  <2>1. Root \in G
    BY <1>2, NodesFacts
  <2>2. ASSUME NEW y \in Nodes \ {Root}, parent[y] \in G PROVE y \in G
    <3>1. h[y] = {y} \cup h[parent[y]] /\ h[parent[y]] \in SUBSET Nodes
      BY <1>2, <2>2
    <3> QED BY <3>1
  <2>3. Nodes \subseteq G
    <3> HIDE DEF G
    <3> QED BY <2>1, <2>2, TreeDown
  <2> QED BY <2>3
<1>3. \A y \in Nodes \ {Root} : f[parent[y]] \in SUBSET Nodes => f[y] = {y} \cup f[parent[y]]
  BY <1>1
<1>4. \A x \in Nodes : f[x] \in SUBSET Nodes
  BY <1>1, <1>2, <1>3
<1>5. \A y \in Nodes \ {Root} : f[y] = {y} \cup f[parent[y]]
  BY <1>3, <1>4, <1>t
<1>6. IsAbove([x \in Nodes |-> f[x]])
  BY <1>1, <1>5, <1>t, NodesFacts DEF IsAbove
<1>7. IsAbove(B)
  BY <1>6
<1>8. \A y \in Nodes : Above(y) = B[y]
  BY DEF Above, IsAbove
<1> HIDE DEF B
<1>9. B[Root] = {Root} /\ \A y \in Nodes \ {Root} : B[y] = {y} \cup B[parent[y]]
  BY <1>7, NodesFacts DEF IsAbove
<1>10. \A x \in Nodes : B[x] \in SUBSET Nodes
  BY <1>2, <1>9
<1>11. Above(Root) = {Root} /\ \A y \in Nodes : Above(y) \subseteq Nodes
  BY <1>8, <1>9, <1>10, NodesFacts
<1>12. ASSUME NEW y \in Nodes \ {Root} PROVE Above(y) = {y} \cup Above(parent[y])
  <2>1. Above(y) = B[y] /\ Above(parent[y]) = B[parent[y]]
    BY <1>8, <1>t
  <2> QED BY <1>9, <2>1
<1> QED BY <1>11, <1>12

\* Moving x below a directory that is not below x keeps the tree a tree.
LEMMA MoveKeepsTree ==
  ASSUME IsTree(parent), NEW x \in Nodes \ {Root}, NEW d \in DirNodes, x \notin Above(d)
  PROVE  IsTree([parent EXCEPT ![x] = d])
<1> DEFINE q == [parent EXCEPT ![x] = d]
<1>0. parent \in [Nodes -> DirNodes] /\ d \in Nodes
  BY NodesFacts DEF IsTree
<1>1. q \in [Nodes -> DirNodes]
  BY <1>0
<1>2. ASSUME NEW S \in SUBSET (Nodes \ {Root}), S # {}, \A y \in S : q[y] \in S PROVE FALSE
  <2>1. CASE x \notin S
    <3>1. \A y \in S : parent[y] \in S
      BY <1>0, <1>2, <2>1
    <3> QED BY <1>2, <3>1 DEF IsTree
  <2>2. CASE x \in S
    <3> DEFINE G == {y \in Nodes : y \in S => x \in Above(y)}
    <3>1. Root \in G
      BY NodesFacts
    <3>2. ASSUME NEW y \in Nodes \ {Root}, parent[y] \in G PROVE y \in G
      <4> SUFFICES ASSUME y \in S PROVE x \in Above(y) OBVIOUS
      <4>1. Above(y) = {y} \cup Above(parent[y])
        BY AboveUnfold
      <4>2. CASE y = x
        BY <4>1, <4>2
      <4>3. CASE y # x
        <5>1. parent[y] \in S
          BY <1>0, <1>2, <4>3
        <5> QED BY <3>2, <4>1, <5>1
      <4> QED BY <4>2, <4>3
    <3>3. Nodes \subseteq G
      <4> HIDE DEF G
      <4> QED BY <3>1, <3>2, TreeDown
    <3>4. d \in S
      BY <1>0, <1>2, <2>2
    <3> QED BY <1>0, <3>3, <3>4
  <2> QED BY <2>1, <2>2
<1> HIDE DEF q
<1>3. IsTree(q)
  BY <1>1, <1>2 DEF IsTree
<1> QED BY <1>3 DEF q

LEMMA TreeAlways == Spec => []TreeInv
<1>1. Init => TreeInv
  <2> SUFFICES ASSUME Init PROVE TreeInv OBVIOUS
  <2>1. PICK t \in Trees : parent = t.parent /\ name = t.name
    BY DEF Init
  <2>2. /\ IsTree(t.parent) /\ t.name \in [Nodes -> Seq(STRING)]
        /\ \A x \in Nodes \ {Root} : IsName(t.name[x])
    BY SearchAssumption
  <2>3. name \in [Nodes -> Seq(Char)]
    BY <2>1, <2>2 DEF Char
  <2> QED BY <2>1, <2>2, <2>3 DEF Init, TreeInv
<1>2. TreeInv /\ [Next]_vars => TreeInv'
  <2> SUFFICES ASSUME TreeInv, [Next]_vars PROVE TreeInv' OBVIOUS
  <2>1. CASE UNCHANGED treeVars
    BY <2>1 DEF treeVars, TreeInv
  <2>2. CASE Others
    <3>1. Change /\ changes' = changes + 1 /\ changes \in Nat
      BY <2>2 DEF Others, Change, TreeInv
    <3>2. PICK x \in Nodes : Unlink(x) \/ \E d \in DirNodes, c \in NewNames : Rename(x, d, c)
      BY <3>1 DEF Change
    <3>3. CASE Unlink(x)
      BY <3>1, <3>3 DEF Unlink, TreeInv
    <3>4. ASSUME NEW d \in DirNodes, NEW c \in NewNames, Rename(x, d, c) PROVE TreeInv'
      <4>1. /\ x \in Nodes \ {Root} /\ x \notin Above(d) /\ gone' = gone
            /\ parent' = [parent EXCEPT ![x] = d] /\ name' = [name EXCEPT ![x] = c]
        BY <3>4 DEF Rename, Below
      <4>2. IsTree(parent')
        BY <4>1, MoveKeepsTree DEF TreeInv
      <4>3. IsName(c) /\ c \in Seq(Char)
        BY SearchAssumption DEF IsName, Char
      <4>4. name' \in [Nodes -> Seq(Char)] /\ \A y \in Nodes \ {Root} : IsName(name'[y])
        BY <4>1, <4>3 DEF TreeInv
      <4>5. changes' \in Nat /\ changes' # 0 /\ gone' \subseteq Nodes \ {Root}
        BY <3>1, <4>1 DEF TreeInv
      <4> QED BY <4>2, <4>4, <4>5 DEF TreeInv
    <3> QED BY <3>2, <3>3, <3>4
  <2>3. SysStep => UNCHANGED treeVars
    BY SysPlaces
  <2>4. DirectoryStep => UNCHANGED treeVars
    BY DirectoryPlaces
  <2>5. UNCHANGED vars => UNCHANGED treeVars
    BY DEF vars
  <2> QED BY <2>1, <2>2, <2>3, <2>4, <2>5 DEF Next
<1> QED BY <1>1, <1>2, PTL DEF Spec

-----------------------------------------------------------------------------
(***************************************************************************)
(* The components of a path.  Cuts(s)[k] are those of s from k on.         *)
(***************************************************************************)
IsEnd(s, k, e) ==
  /\ \A i \in k .. e : s[i] # "/"
  /\ e = Len(s) \/ s[e + 1] = "/"
EndOf(s, k) == CHOOSE e \in k .. Len(s) : IsEnd(s, k, e)

CutAt(s, C, k) ==
  IF k > Len(s) THEN <<>>
  ELSE IF s[k] = "/" THEN C[k + 1]
  ELSE <<SubSeq(s, k, EndOf(s, k))>> \o C[EndOf(s, k) + 1]

CutsFrom(s, C, j) == C = [k \in j .. Len(s) + 1 |-> CutAt(s, C, k)]
Cuts(s) == CHOOSE C : CutsFrom(s, C, 1)

IsComponent(c) == c \in Seq(Char) /\ c # <<>> /\ \A i \in 1 .. Len(c) : c[i] # "/"

LEMMA EndOfIs ==
  ASSUME NEW s \in Seq(Char), NEW k \in 1 .. Len(s), s[k] # "/"
  PROVE  EndOf(s, k) \in k .. Len(s) /\ IsEnd(s, k, EndOf(s, k))
<1> DEFINE T == {e \in Nat : e \in k .. Len(s) /\ (e = Len(s) \/ s[e + 1] = "/")}
<1>0. Len(s) \in Nat /\ k \in Nat /\ k >= 1 /\ k <= Len(s) OBVIOUS
<1>1. Len(s) \in T
  BY <1>0
<1>2. PICK e \in T : \A y \in T : e <= y
  <2>1. T \in SUBSET Nat /\ T # {}
    BY <1>1
  <2> HIDE DEF T
  <2> QED BY <2>1, LeastNat
<1>3. e \in k .. Len(s) /\ (e = Len(s) \/ s[e + 1] = "/") /\ e \in Nat
  BY <1>2
<1>4. ASSUME NEW i \in k .. e, s[i] = "/" PROVE FALSE
  <2>1. i \in Nat /\ i > k /\ i <= e
    BY <1>0, <1>3, <1>4
  <2>2. i - 1 \in Nat /\ i - 1 \in k .. Len(s) /\ (i - 1) + 1 = i
    BY <1>0, <1>3, <2>1
  <2>3. i - 1 \in T
    BY <1>4, <2>2
  <2>4. e <= i - 1
    BY <1>2, <2>3
  <2> QED BY <1>3, <2>1, <2>4
<1>5. e \in k .. Len(s) /\ IsEnd(s, k, e)
  BY <1>3, <1>4 DEF IsEnd
<1> QED BY <1>5 DEF EndOf

LEMMA EndIsUnique ==
  ASSUME NEW s \in Seq(Char), NEW k \in 1 .. Len(s), NEW d \in k .. Len(s), NEW e \in k .. Len(s),
         IsEnd(s, k, d), IsEnd(s, k, e)
  PROVE  d = e
<1>0. Len(s) \in Nat /\ k \in Nat /\ d \in Nat /\ e \in Nat OBVIOUS
<1>1. ASSUME NEW x \in k .. Len(s), NEW y \in k .. Len(s), IsEnd(s, k, x), IsEnd(s, k, y), x < y
      PROVE  FALSE
  <2>1. x + 1 \in k .. y /\ x # Len(s)
    BY <1>0, <1>1
  <2> QED BY <1>1, <2>1 DEF IsEnd
<1> QED BY <1>0, <1>1

LEMMA CutsExist ==
  ASSUME NEW s \in Seq(Char)
  PROVE  CutsFrom(s, Cuts(s), 1)
<1> DEFINE N == Len(s)
           S == {m \in Nat : m <= N => \E C : CutsFrom(s, C, N + 1 - m)}
<1>0. N \in Nat OBVIOUS
<1>1. 0 \in S
  <2>1. CutsFrom(s, [k \in N + 1 .. N + 1 |-> <<>>], N + 1)
    BY <1>0 DEF CutsFrom, CutAt
  <2>2. N + 1 - 0 = N + 1
    BY <1>0
  <2> QED BY <2>1, <2>2
<1>2. ASSUME NEW m \in Nat, m \in S PROVE m + 1 \in S
  <2> SUFFICES ASSUME m + 1 <= N PROVE \E C : CutsFrom(s, C, N + 1 - (m + 1)) OBVIOUS
  <2>1. PICK C : CutsFrom(s, C, N + 1 - m)
    BY <1>0, <1>2
  <2> DEFINE j == N - m
             h == [k \in j .. N + 1 |-> IF k = j THEN CutAt(s, C, j) ELSE C[k]]
  <2>2. N + 1 - m = j + 1 /\ N + 1 - (m + 1) = j /\ j \in 1 .. N
    BY <1>0
  <2>3. ASSUME NEW k \in j .. N + 1 PROVE CutAt(s, h, k) = CutAt(s, C, k)
    <3>1. k <= N => k + 1 \in j + 1 .. N + 1 /\ h[k + 1] = C[k + 1]
      BY <1>0, <2>2
    <3>2. k <= N /\ s[k] # "/" => EndOf(s, k) + 1 \in j + 1 .. N + 1
      <4> SUFFICES ASSUME k <= N, s[k] # "/" PROVE EndOf(s, k) + 1 \in j + 1 .. N + 1 OBVIOUS
      <4>1. k \in 1 .. N
        BY <1>0, <2>2
      <4>2. EndOf(s, k) \in k .. N
        BY <4>1, EndOfIs
      <4> QED BY <1>0, <2>2, <4>2
    <3>3. k <= N /\ s[k] # "/" => h[EndOf(s, k) + 1] = C[EndOf(s, k) + 1]
      BY <1>0, <2>2, <3>2
    <3> HIDE DEF h
    <3> QED BY <1>0, <3>1, <3>3 DEF CutAt
  <2>4. ASSUME NEW k \in j .. N + 1 PROVE h[k] = CutAt(s, C, k)
    <3>1. CASE k = j
      BY <3>1
    <3>2. CASE k # j
      <4>1. k \in j + 1 .. N + 1 /\ h[k] = C[k]
        BY <1>0, <2>2, <3>2
      <4>2. C = [x \in j + 1 .. N + 1 |-> CutAt(s, C, x)]
        BY <2>1, <2>2 DEF CutsFrom
      <4>3. C[k] = CutAt(s, C, k)
        BY <4>1, <4>2
      <4> QED BY <4>1, <4>3
    <3> QED BY <3>1, <3>2
  <2>5. h = [k \in j .. N + 1 |-> CutAt(s, h, k)]
    <3>1. \A k \in j .. N + 1 : h[k] = CutAt(s, h, k)
      BY <2>3, <2>4
    <3>2. h = [k \in j .. N + 1 |-> h[k]] OBVIOUS
    <3> HIDE DEF h
    <3> QED BY <3>1, <3>2
  <2>6. CutsFrom(s, h, j)
    BY <2>5 DEF CutsFrom
  <2> QED BY <2>2, <2>6
<1>3. Nat \subseteq S
  <2> HIDE DEF S
  <2> QED BY <1>1, <1>2, NatUp
<1>4. \E C : CutsFrom(s, C, 1)
  <2>1. N \in S /\ N + 1 - N = 1
    BY <1>0, <1>3
  <2> QED BY <1>0, <2>1
<1> QED BY <1>4 DEF Cuts

LEMMA CutsUnfold ==
  ASSUME NEW s \in Seq(Char)
  PROVE  /\ Cuts(s)[Len(s) + 1] = <<>>
         /\ \A k \in 1 .. Len(s) : s[k] = "/" => Cuts(s)[k] = Cuts(s)[k + 1]
         /\ \A k \in 1 .. Len(s) :
              s[k] # "/" => Cuts(s)[k] = <<SubSeq(s, k, EndOf(s, k))>> \o Cuts(s)[EndOf(s, k) + 1]
<1> DEFINE C == Cuts(s)
<1>1. C = [k \in 1 .. Len(s) + 1 |-> CutAt(s, C, k)]
  BY CutsExist DEF CutsFrom
<1>2. Len(s) \in Nat OBVIOUS
<1> HIDE DEF C
<1>3. \A k \in 1 .. Len(s) + 1 : C[k] = CutAt(s, C, k)
  BY <1>1
<1>4. /\ Len(s) + 1 \in 1 .. Len(s) + 1 /\ Len(s) + 1 > Len(s)
      /\ \A k \in 1 .. Len(s) : k \in 1 .. Len(s) + 1 /\ ~ (k > Len(s))
  BY <1>2
<1>5. C[Len(s) + 1] = <<>>
  <2>1. CutAt(s, C, Len(s) + 1) = <<>>
    BY <1>4 DEF CutAt
  <2> QED BY <1>3, <1>4, <2>1
<1>6. \A k \in 1 .. Len(s) : s[k] = "/" => C[k] = C[k + 1]
  BY <1>3, <1>4 DEF CutAt
<1>7. \A k \in 1 .. Len(s) : s[k] # "/" => C[k] = <<SubSeq(s, k, EndOf(s, k))>> \o C[EndOf(s, k) + 1]
  BY <1>3, <1>4 DEF CutAt
<1> QED BY <1>5, <1>6, <1>7 DEF C

LEMMA ComponentsAreCuts ==
  ASSUME NEW s
  PROVE  Components(s) = Cuts(s)[1]
  BY DEF Components, Cuts, CutsFrom, CutAt, EndOf, IsEnd

\* The cuts are sequences of paths, and one more component is one more cut.
LEMMA CutsTyped ==
  ASSUME NEW s \in Seq(Char)
  PROVE  \A k \in 1 .. Len(s) + 1 : Cuts(s)[k] \in Seq(Seq(Char))
<1> DEFINE N == Len(s)
           P == {k \in 1 .. N + 1 : Cuts(s)[k] \in Seq(Seq(Char))}
           S == {m \in Nat : \A k \in 1 .. N + 1 : k >= N + 1 - m => k \in P}
<1>0. N \in Nat OBVIOUS
<1>e. Cuts(s)[N + 1] \in Seq(Seq(Char))
  <2>1. Cuts(s)[N + 1] = <<>> /\ <<>> \in Seq(Seq(Char))
    BY CutsUnfold
  <2> QED BY <2>1
<1>1. 0 \in S
  <2>1. N + 1 \in P
    BY <1>0, <1>e
  <2> HIDE DEF P
  <2> QED BY <1>0, <2>1
<1>2. ASSUME NEW m \in Nat, m \in S PROVE m + 1 \in S
  <2> SUFFICES ASSUME NEW k \in 1 .. N + 1, k >= N + 1 - (m + 1) PROVE k \in P OBVIOUS
  <2>1. \A j \in 1 .. N + 1 : j > k => j \in P
    <3> HIDE DEF P
    <3> QED BY <1>0, <1>2
  <2>2. CASE k = N + 1
    BY <1>0, <1>e, <2>2
  <2>3. CASE k \in 1 .. N /\ s[k] = "/"
    <3>1. k + 1 \in P /\ Cuts(s)[k] = Cuts(s)[k + 1]
      BY <1>0, <2>1, <2>3, CutsUnfold
    <3> QED BY <3>1
  <2>4. CASE k \in 1 .. N /\ s[k] # "/"
    <3> DEFINE e == EndOf(s, k)
    <3>1. e \in k .. N /\ Cuts(s)[k] = <<SubSeq(s, k, e)>> \o Cuts(s)[e + 1]
      BY <2>4, EndOfIs, CutsUnfold
    <3> HIDE DEF e
    <3>2. e + 1 \in P
      BY <1>0, <2>1, <3>1
    <3>3. SubSeq(s, k, e) \in Seq(Char)
      <4>1. k \in Int /\ e \in Int /\ \A i \in k .. e : s[i] \in Char
        BY <1>0, <3>1
      <4> QED BY <4>1, SubSeqProperties
    <3>4. ASSUME NEW x \in Seq(Char), NEW y \in Seq(Seq(Char)) PROVE <<x>> \o y \in Seq(Seq(Char))
      BY <3>4
    <3> QED BY <3>1, <3>2, <3>3, <3>4
  <2> QED BY <1>0, <2>2, <2>3, <2>4
<1>3. Nat \subseteq S
  <2> HIDE DEF S
  <2> QED BY <1>1, <1>2, NatUp
<1>4. \A k \in 1 .. N + 1 : k \in P
  <2> HIDE DEF P
  <2>1. N \in S
    BY <1>0, <1>3
  <2> QED BY <1>0, <2>1
<1> QED BY <1>4

LEMMA CutsOfName ==
  ASSUME NEW s \in Seq(Char), NEW k \in 1 .. Len(s), \A i \in k .. Len(s) : s[i] # "/"
  PROVE  Cuts(s)[k] = <<SubSeq(s, k, Len(s))>>
<1>1. Len(s) \in Nat /\ k \in k .. Len(s) /\ Len(s) \in k .. Len(s) OBVIOUS
<1>2. IsEnd(s, k, Len(s))
  BY DEF IsEnd
<1>3. EndOf(s, k) = Len(s)
  BY <1>1, <1>2, EndOfIs, EndIsUnique
<1>4. Cuts(s)[k] = <<SubSeq(s, k, Len(s))>> \o <<>>
  BY <1>1, <1>3, CutsUnfold
<1> QED BY <1>4

LEMMA SubSeqSame ==
  ASSUME NEW s \in Seq(Char), NEW t \in Seq(Char), NEW k \in Nat, NEW e \in Nat, k >= 1,
         e <= Len(s), NEW o \in Nat, o + e <= Len(t), \A i \in k .. e : t[o + i] = s[i]
  PROVE  SubSeq(t, o + k, o + e) = SubSeq(s, k, e)
<1> DEFINE a == SubSeq(t, o + k, o + e)
           b == SubSeq(s, k, e)
<1>1. /\ \A i \in k .. e : s[i] \in Char
      /\ \A i \in o + k .. o + e : t[i] \in Char
  OBVIOUS
<1>2. /\ b \in Seq(Char) /\ Len(b) = IF k <= e THEN e - k + 1 ELSE 0
      /\ \A i \in 1 .. e - k + 1 : b[i] = s[k + i - 1]
  BY <1>1, SubSeqProperties
<1>3. /\ a \in Seq(Char) /\ Len(a) = IF o + k <= o + e THEN (o + e) - (o + k) + 1 ELSE 0
      /\ \A i \in 1 .. (o + e) - (o + k) + 1 : a[i] = t[(o + k) + i - 1]
  BY <1>1, SubSeqProperties
<1> HIDE DEF a, b
<1>4. Len(a) = Len(b)
  BY <1>2, <1>3
<1>5. ASSUME NEW i \in 1 .. Len(a) PROVE a[i] = b[i]
  <2>1. /\ i \in 1 .. e - k + 1 /\ i \in 1 .. (o + e) - (o + k) + 1
        /\ (o + k) + i - 1 = o + (k + i - 1) /\ k + i - 1 \in k .. e
    BY <1>3
  <2>2. a[i] = t[o + (k + i - 1)] /\ b[i] = s[k + i - 1]
    BY <1>2, <1>3, <2>1
  <2> QED BY <2>1, <2>2
<1> QED BY <1>2, <1>3, <1>4, <1>5, SeqEqual DEF a, b

LEMMA ComponentsOfName ==
  ASSUME NEW c, IsComponent(c)
  PROVE  Components(c) = <<c>>
<1>1. c \in Seq(Char) /\ c # <<>> /\ Len(c) \in Nat /\ \A i \in 1 .. Len(c) : c[i] # "/"
  BY DEF IsComponent
<1>2. Cuts(c)[1] = <<SubSeq(c, 1, Len(c))>>
  BY <1>1, CutsOfName
<1>3. SubSeq(c, 1, Len(c)) = c
  BY <1>1
<1> QED BY <1>2, <1>3, ComponentsAreCuts

LEMMA ComponentsExtend ==
  ASSUME NEW s \in Seq(Char), NEW c, IsComponent(c)
  PROVE  Components(s \o Slash \o c) = Components(s) \o <<c>>
<1> DEFINE t == s \o Slash \o c
           N == Len(s)
           P == {k \in 1 .. N + 1 : Cuts(t)[k] = Cuts(s)[k] \o <<c>>}
           S == {m \in Nat : \A k \in 1 .. N + 1 : k >= N + 1 - m => k \in P}
<1>0. N \in Nat /\ c \in Seq(Char) /\ c # <<>> /\ Len(c) \in Nat \ {0} /\ \A i \in 1 .. Len(c) : c[i] # "/"
  BY DEF IsComponent
<1>1. /\ t \in Seq(Char) /\ Len(t) = N + 1 + Len(c)
      /\ \A i \in 1 .. N : t[i] = s[i]
      /\ t[N + 1] = "/"
      /\ \A i \in 1 .. Len(c) : t[N + 1 + i] = c[i]
  BY <1>0, Joined
<1> HIDE DEF t
<1>3. Cuts(s)[N + 1] = <<>>
  BY CutsUnfold
<1>2. Cuts(t)[N + 1] = Cuts(s)[N + 1] \o <<c>>
  <2>1. N + 1 \in 1 .. Len(t) /\ N + 2 \in 1 .. Len(t) /\ (N + 1) + 1 = N + 2
    BY <1>0, <1>1
  <2>2. Cuts(t)[N + 1] = Cuts(t)[N + 2]
    BY <1>1, <2>1, CutsUnfold
  <2>3. ASSUME NEW i \in N + 2 .. Len(t) PROVE t[i] # "/"
    <3>1. i - (N + 1) \in 1 .. Len(c) /\ N + 1 + (i - (N + 1)) = i
      BY <1>0, <1>1
    <3> QED BY <1>0, <1>1, <3>1, ZenonT(30)
  <2>4. Cuts(t)[N + 2] = <<SubSeq(t, N + 2, Len(t))>>
    BY <1>1, <2>1, <2>3, CutsOfName
  <2>5. SubSeq(t, N + 1 + 1, N + 1 + Len(c)) = SubSeq(c, 1, Len(c))
    <3>1. 1 \in Nat /\ Len(c) \in Nat /\ 1 >= 1 /\ Len(c) <= Len(c) /\ N + 1 \in Nat
          /\ N + 1 + Len(c) <= Len(t)
      BY <1>0, <1>1
    <3> QED BY <1>0, <1>1, <3>1, SubSeqSame
  <2>6. SubSeq(c, 1, Len(c)) = c /\ N + 1 + 1 = N + 2
    BY <1>0
  <2>7. Cuts(t)[N + 1] = <<c>>
    BY <1>1, <2>2, <2>4, <2>5, <2>6
  <2>8. <<>> \o <<c>> = <<c>>
    BY <1>0
  <2> QED BY <1>3, <2>7, <2>8
<1>4. 0 \in S
  <2>1. N + 1 \in P
    BY <1>0, <1>2
  <2> HIDE DEF P
  <2> QED BY <1>0, <2>1
<1>5. ASSUME NEW m \in Nat, m \in S PROVE m + 1 \in S
  <2> SUFFICES ASSUME NEW k \in 1 .. N + 1, k >= N + 1 - (m + 1) PROVE k \in P
    <3> HIDE DEF P
    <3> QED OBVIOUS
  <2>1. \A j \in 1 .. N + 1 : j > k => j \in P
    <3> HIDE DEF P
    <3> QED BY <1>0, <1>5
  <2>2. CASE k = N + 1
    BY <1>0, <1>2, <2>2
  <2>3. CASE k \in 1 .. N /\ s[k] = "/"
    <3>1. k + 1 \in P /\ k \in 1 .. Len(t) /\ t[k] = "/"
      BY <1>0, <1>1, <2>1, <2>3, SMTT(20)
    <3>2. Cuts(s)[k] = Cuts(s)[k + 1] /\ Cuts(t)[k] = Cuts(t)[k + 1]
      BY <1>1, <2>3, <3>1, CutsUnfold
    <3> QED BY <3>1, <3>2
  <2>4. CASE k \in 1 .. N /\ s[k] # "/"
    <3> DEFINE e == EndOf(s, k)
    <3>1. /\ e \in k .. N /\ IsEnd(s, k, e)
          /\ Cuts(s)[k] = <<SubSeq(s, k, e)>> \o Cuts(s)[e + 1]
      BY <2>4, EndOfIs, CutsUnfold
    <3> HIDE DEF e
    <3>2. k \in 1 .. Len(t) /\ t[k] # "/" /\ e \in k .. Len(t)
      BY <1>0, <1>1, <2>4, <3>1
    <3>3. IsEnd(t, k, e)
      <4>1. ASSUME NEW i \in k .. e PROVE t[i] # "/"
        <5>1. i \in 1 .. N /\ s[i] # "/"
          BY <1>0, <2>4, <3>1 DEF IsEnd
        <5> QED BY <1>1, <5>1
      <4>2. t[e + 1] = "/"
        <5>1. CASE e = N
          BY <1>1, <5>1
        <5>2. CASE e # N
          <6>1. e + 1 \in 1 .. N /\ s[e + 1] = "/" BY <1>0, <2>4, <3>1, <5>2 DEF IsEnd
          <6> QED BY <1>1, <6>1
        <5> QED BY <5>1, <5>2
      <4> QED BY <4>1, <4>2 DEF IsEnd
    <3>4. EndOf(t, k) = e
      BY <1>1, <3>2, <3>3, EndOfIs, EndIsUnique
    <3>5. Cuts(t)[k] = <<SubSeq(t, k, e)>> \o Cuts(t)[e + 1]
      BY <1>1, <3>2, <3>4, CutsUnfold
    <3>6. SubSeq(t, 0 + k, 0 + e) = SubSeq(s, k, e)
      <4>1. /\ k \in Nat /\ e \in Nat /\ k >= 1 /\ e <= Len(s) /\ 0 + e <= Len(t)
        BY <1>0, <1>1, <2>4, <3>1
      <4>2. ASSUME NEW i \in k .. e PROVE t[0 + i] = s[i]
        <5>1. i \in 1 .. N /\ 0 + i = i
          BY <1>0, <2>4, <3>1
        <5> QED BY <1>1, <5>1
      <4> QED BY <1>1, <4>1, <4>2, SubSeqSame
    <3>7. 0 + k = k /\ 0 + e = e /\ e + 1 \in P
      <4> HIDE DEF P
      <4> QED BY <1>0, <2>1, <3>1
    <3>8. Cuts(t)[e + 1] = Cuts(s)[e + 1] \o <<c>>
      BY <3>7
    <3>9. Cuts(s)[e + 1] \in Seq(Seq(Char)) /\ SubSeq(s, k, e) \in Seq(Char)
      <4>1. e + 1 \in 1 .. Len(s) + 1
        BY <1>0, <3>1
      <4>2. k \in Int /\ e \in Int /\ \A i \in k .. e : s[i] \in Char
        BY <1>0, <3>1
      <4> QED BY <4>1, <4>2, CutsTyped, SubSeqProperties
    <3>10. ASSUME NEW x \in Seq(Char), NEW y \in Seq(Seq(Char)), NEW z \in Seq(Char)
           PROVE  <<x>> \o (y \o <<z>>) = (<<x>> \o y) \o <<z>>
      <4>1. <<x>> \in Seq(Seq(Char)) /\ <<z>> \in Seq(Seq(Char))
        BY <3>10
      <4> QED BY <4>1, ConcatAssociative
    <3>11. Cuts(t)[k] = <<SubSeq(s, k, e)>> \o (Cuts(s)[e + 1] \o <<c>>)
      BY <3>5, <3>6, <3>7, <3>8
    <3>12. Cuts(t)[k] = Cuts(s)[k] \o <<c>>
      <4> DEFINE x == SubSeq(s, k, e)
                 y == Cuts(s)[e + 1]
      <4>1. x \in Seq(Char) /\ y \in Seq(Seq(Char)) /\ Cuts(t)[k] = <<x>> \o (y \o <<c>>) /\ Cuts(s)[k] = <<x>> \o y
        BY <3>1, <3>9, <3>11
      <4> HIDE DEF x, y
      <4>2. <<x>> \o (y \o <<c>>) = (<<x>> \o y) \o <<c>>
        BY <1>0, <3>10, <4>1
      <4> QED BY <4>1, <4>2
    <3> QED BY <3>12
  <2> QED BY <1>0, <2>2, <2>3, <2>4, SMTT(30)
<1>6. Nat \subseteq S
  <2> HIDE DEF S
  <2> QED BY <1>4, <1>5, NatUp
<1>7. 1 \in P
  <2> HIDE DEF P
  <2>1. N \in S
    BY <1>0, <1>6
  <2> QED BY <1>0, <2>1
<1>8. Components(t) = Cuts(t)[1] /\ Components(s) = Cuts(s)[1]
  BY ComponentsAreCuts
<1>9. Components(t) = Components(s) \o <<c>>
  BY <1>7, <1>8
<1> QED BY <1>9 DEF t

-----------------------------------------------------------------------------
(***************************************************************************)
(* Lookup goes down one component at a time.                               *)
(***************************************************************************)
WalkAt(start, cs, W, k) ==
  IF k = 0 THEN start
  ELSE IF W[k - 1] < 0 THEN W[k - 1]
  ELSE Step(start, W[k - 1], cs[k])
IsWalk(start, cs, n, W) == W = [k \in 0 .. n |-> WalkAt(start, cs, W, k)]
Walk(start, cs) == CHOOSE W : IsWalk(start, cs, Len(cs), W)

LEMMA LookupIsWalk ==
  ASSUME NEW start, NEW s
  PROVE  Lookup(start, s) = Walk(start, Components(s))[Len(Components(s))]
  BY DEF Lookup, Walk, IsWalk, WalkAt

LEMMA WalkExists ==
  ASSUME NEW start, NEW cs, Len(cs) \in Nat
  PROVE  IsWalk(start, cs, Len(cs), Walk(start, cs))
<1> DEFINE S == {n \in Nat : \E W : IsWalk(start, cs, n, W)}
<1>1. 0 \in S
  <2>1. IsWalk(start, cs, 0, [k \in 0 .. 0 |-> start])
    BY DEF IsWalk, WalkAt
  <2> QED BY <2>1
<1>2. ASSUME NEW n \in Nat, n \in S PROVE n + 1 \in S
  <2>1. PICK W : IsWalk(start, cs, n, W)
    BY <1>2
  <2> DEFINE h == [k \in 0 .. n + 1 |-> IF k = n + 1 THEN WalkAt(start, cs, W, n + 1) ELSE W[k]]
  <2>2. ASSUME NEW k \in 0 .. n + 1 PROVE WalkAt(start, cs, h, k) = WalkAt(start, cs, W, k)
    <3>1. k # 0 => h[k - 1] = W[k - 1] OBVIOUS
    <3> HIDE DEF h
    <3> QED BY <3>1 DEF WalkAt
  <2>3. ASSUME NEW k \in 0 .. n + 1 PROVE h[k] = WalkAt(start, cs, W, k)
    <3>1. CASE k = n + 1
      BY <3>1
    <3>2. CASE k # n + 1
      <4>1. k \in 0 .. n /\ h[k] = W[k]
        BY <3>2
      <4>2. W[k] = WalkAt(start, cs, W, k)
        BY <2>1, <4>1 DEF IsWalk
      <4> QED BY <4>1, <4>2
    <3> QED BY <3>1, <3>2
  <2>4. h = [k \in 0 .. n + 1 |-> h[k]] OBVIOUS
  <2> HIDE DEF h
  <2>5. IsWalk(start, cs, n + 1, h)
    BY <2>2, <2>3, <2>4 DEF IsWalk
  <2> QED BY <2>5
<1>3. Nat \subseteq S
  <2> HIDE DEF S
  <2> QED BY <1>1, <1>2, NatUp
<1>4. \E W : IsWalk(start, cs, Len(cs), W)
  BY <1>3
<1> QED BY <1>4 DEF Walk

LEMMA WalkUnfold ==
  ASSUME NEW start, NEW cs, Len(cs) \in Nat
  PROVE  /\ Walk(start, cs)[0] = start
         /\ \A k \in 1 .. Len(cs) :
              Walk(start, cs)[k] = IF Walk(start, cs)[k - 1] < 0 THEN Walk(start, cs)[k - 1]
                                   ELSE Step(start, Walk(start, cs)[k - 1], cs[k])
<1> DEFINE W == Walk(start, cs)
<1>1. W = [k \in 0 .. Len(cs) |-> WalkAt(start, cs, W, k)]
  BY WalkExists DEF IsWalk
<1> HIDE DEF W
<1>2. \A k \in 0 .. Len(cs) : W[k] = WalkAt(start, cs, W, k)
  BY <1>1
<1>3. W[0] = start
  BY <1>2 DEF WalkAt
<1>4. \A k \in 1 .. Len(cs) : W[k] = IF W[k - 1] < 0 THEN W[k - 1] ELSE Step(start, W[k - 1], cs[k])
  BY <1>2 DEF WalkAt
<1> QED BY <1>3, <1>4 DEF W

LookupErrors == {-ENOENT, -ENOTDIR, -EACCES}

LEMMA StepTyped ==
  ASSUME TreeInv, NEW root \in Nodes, NEW d \in Nodes, NEW c
  PROVE  Step(root, d, c) \in Nodes \cup LookupErrors
<1>1. parent[d] \in Nodes
  BY TreeTyped DEF TreeInv
<1>2. CASE \E x \in Children(d) : name[x] = c
  <2>1. (CHOOSE x \in Children(d) : name[x] = c) \in Nodes
    BY <1>2 DEF Children
  <2> QED BY <1>1, <2>1 DEF Step, LookupErrors
<1> QED BY <1>1, <1>2 DEF Step, LookupErrors

LEMMA ErrorsNegative ==
  /\ \A r \in LookupErrors : r \in Int /\ r < 0
  /\ \A r \in Nodes : ~ (r < 0)
  /\ \A r \in Nodes \cup LookupErrors : r \in Int /\ (r < 0 <=> r \in LookupErrors) /\ (r > 0 <=> r \in Nodes)
<1>1. \A r \in LookupErrors : r \in Int /\ r < 0
  BY DEF LookupErrors, ENOENT, ENOTDIR, EACCES
<1>2. \A r \in Nodes : r \in Int /\ r > 0
  BY NodesFacts
<1> QED BY <1>1, <1>2

LEMMA ComponentsTyped ==
  ASSUME NEW s \in Seq(Char)
  PROVE  Components(s) \in Seq(Seq(Char)) /\ Len(Components(s)) \in Nat
<1>1. Cuts(s)[1] \in Seq(Seq(Char))
  <2>1. 1 \in 1 .. Len(s) + 1 OBVIOUS
  <2> QED BY <2>1, CutsTyped
<1> QED BY <1>1, ComponentsAreCuts

LEMMA LookupTyped ==
  ASSUME TreeInv, NEW start \in Nodes, NEW s \in Seq(Char)
  PROVE  Lookup(start, s) \in Nodes \cup LookupErrors
<1> DEFINE cs == Components(s)
           W == Walk(start, cs)
           S == {n \in Nat : n <= Len(cs) => W[n] \in Nodes \cup LookupErrors}
<1>0. Len(cs) \in Nat
  BY ComponentsTyped
<1>1. W[0] = start /\ \A k \in 1 .. Len(cs) : W[k] = IF W[k - 1] < 0 THEN W[k - 1] ELSE Step(start, W[k - 1], cs[k])
  <2> HIDE DEF cs
  <2> QED BY <1>0, WalkUnfold
<1> HIDE DEF cs, W
<1>2. 0 \in S
  BY <1>1
<1>3. ASSUME NEW n \in Nat, n \in S PROVE n + 1 \in S
  <2> SUFFICES ASSUME n + 1 <= Len(cs) PROVE W[n + 1] \in Nodes \cup LookupErrors OBVIOUS
  <2>1. W[n] \in Nodes \cup LookupErrors /\ n + 1 \in 1 .. Len(cs) /\ (n + 1) - 1 = n
    BY <1>0, <1>3
  <2>2. W[n + 1] = IF W[n] < 0 THEN W[n] ELSE Step(start, W[n], cs[n + 1])
    BY <1>1, <2>1
  <2>3. CASE W[n] < 0
    BY <2>1, <2>2, <2>3
  <2>4. CASE ~ (W[n] < 0)
    <3>1. W[n] \in Nodes
      BY <2>1, <2>4, ErrorsNegative
    <3> QED BY <2>2, <2>4, <3>1, StepTyped
  <2> QED BY <2>3, <2>4
<1>4. Nat \subseteq S
  <2> HIDE DEF S
  <2> QED BY <1>2, <1>3, NatUp
<1>5. W[Len(cs)] \in Nodes \cup LookupErrors
  BY <1>0, <1>4
<1> QED BY <1>5, LookupIsWalk DEF cs, W

\* What one more component does to a lookup.
LEMMA LookupExtend ==
  ASSUME TreeInv, NEW start \in Nodes, NEW s \in Seq(Char), NEW c, IsComponent(c)
  PROVE  Lookup(start, s \o Slash \o c) =
           IF Lookup(start, s) < 0 THEN Lookup(start, s) ELSE Step(start, Lookup(start, s), c)
<1> DEFINE cs == Components(s)
           ds == cs \o <<c>>
           V == Walk(start, cs)
           W == Walk(start, ds)
           S == {n \in Nat : n <= Len(cs) => W[n] = V[n]}
<1>0. cs \in Seq(Seq(Char)) /\ Len(cs) \in Nat
  BY ComponentsTyped
<1>a. Components(s \o Slash \o c) = ds
  BY ComponentsExtend
<1> HIDE DEF cs
<1>b. /\ Len(ds) = Len(cs) + 1 /\ Len(ds) \in Nat /\ ds[Len(cs) + 1] = c
      /\ \A i \in 1 .. Len(cs) : ds[i] = cs[i]
  <2>1. c \in Seq(Char)
    BY DEF IsComponent
  <2>2. cs \o <<c>> = Append(cs, c)
    BY <1>0, <2>1, AppendIsConcat
  <2>3. /\ Len(Append(cs, c)) = Len(cs) + 1
        /\ \A i \in 1 .. Len(cs) : Append(cs, c)[i] = cs[i]
        /\ Append(cs, c)[Len(cs) + 1] = c
    BY <1>0, <2>1, AppendProperties
  <2> QED BY <1>0, <2>2, <2>3
<1> HIDE DEF ds
<1>1. V[0] = start /\ \A k \in 1 .. Len(cs) : V[k] = IF V[k - 1] < 0 THEN V[k - 1] ELSE Step(start, V[k - 1], cs[k])
  BY <1>0, WalkUnfold
<1>2. W[0] = start /\ \A k \in 1 .. Len(ds) : W[k] = IF W[k - 1] < 0 THEN W[k - 1] ELSE Step(start, W[k - 1], ds[k])
  BY <1>b, WalkUnfold
<1> HIDE DEF V, W
<1>3. 0 \in S
  BY <1>1, <1>2
<1>4. ASSUME NEW n \in Nat, n \in S PROVE n + 1 \in S
  <2> SUFFICES ASSUME n + 1 <= Len(cs) PROVE W[n + 1] = V[n + 1] OBVIOUS
  <2>1. /\ n + 1 \in 1 .. Len(cs) /\ n + 1 \in 1 .. Len(ds) /\ (n + 1) - 1 = n
        /\ W[n] = V[n]
    BY <1>0, <1>b, <1>4
  <2>2. ds[n + 1] = cs[n + 1]
    BY <1>b, <2>1
  <2>3. V[n + 1] = IF V[n] < 0 THEN V[n] ELSE Step(start, V[n], cs[n + 1])
    BY <1>1, <2>1
  <2>4. W[n + 1] = IF W[n] < 0 THEN W[n] ELSE Step(start, W[n], ds[n + 1])
    BY <1>2, <2>1
  <2> QED BY <2>1, <2>2, <2>3, <2>4
<1>5. Nat \subseteq S
  <2> HIDE DEF S
  <2> QED BY <1>3, <1>4, NatUp
<1>6. W[Len(cs)] = V[Len(cs)]
  BY <1>0, <1>5
<1>7. W[Len(ds)] = IF V[Len(cs)] < 0 THEN V[Len(cs)] ELSE Step(start, V[Len(cs)], c)
  <2>1. Len(ds) \in 1 .. Len(ds) /\ Len(ds) - 1 = Len(cs)
    BY <1>0, <1>b
  <2>2. W[Len(ds)] = IF W[Len(cs)] < 0 THEN W[Len(cs)] ELSE Step(start, W[Len(cs)], ds[Len(ds)])
    BY <1>2, <2>1
  <2> QED BY <1>6, <1>b, <2>2
<1>8. Lookup(start, s) = V[Len(cs)]
  BY LookupIsWalk DEF V, cs
<1>9. Lookup(start, s \o Slash \o c) = W[Len(ds)]
  BY <1>a, LookupIsWalk DEF W
<1> QED BY <1>7, <1>8, <1>9

LEMMA LookupName ==
  ASSUME TreeInv, NEW start \in Nodes, NEW c, IsComponent(c)
  PROVE  Lookup(start, c) = Step(start, start, c)
<1> DEFINE cs == <<c>>
           W == Walk(start, cs)
<1>1. Len(cs) = 1 /\ cs[1] = c /\ Components(c) = cs
  BY ComponentsOfName
<1> HIDE DEF cs
<1>2. Lookup(start, c) = W[1]
  BY <1>1, LookupIsWalk
<1>3. W[0] = start /\ \A k \in 1 .. Len(cs) :
        W[k] = IF W[k - 1] < 0 THEN W[k - 1] ELSE Step(start, W[k - 1], cs[k])
  BY <1>1, WalkUnfold
<1> HIDE DEF W
<1>4. 1 \in 1 .. Len(cs) /\ 1 - 1 = 0
  BY <1>1
<1>5. W[1] = IF W[0] < 0 THEN W[0] ELSE Step(start, W[0], c)
  BY <1>1, <1>3, <1>4
<1>6. ~ (start < 0)
  BY ErrorsNegative
<1> QED BY <1>2, <1>3, <1>5, <1>6

\* The empty path and "/" name the root.
LEMMA LookupTop ==
  ASSUME TreeInv
  PROVE  Lookup(Root, <<>>) = Root /\ Lookup(Root, Slash) = Root
<1>1. Components(<<>>) = <<>>
  <2>1. <<>> \in Seq(Char) /\ Len(<<>>) + 1 = 1
    BY Separators
  <2>2. Cuts(<<>>)[Len(<<>>) + 1] = <<>>
    BY <2>1, CutsUnfold
  <2> QED BY <2>1, <2>2, ComponentsAreCuts
<1>2. Components(Slash) = <<>>
  <2>1. Slash \in Seq(Char) /\ Len(Slash) = 1 /\ Slash[1] = "/"
    BY Separators
  <2>2. ASSUME NEW u \in Seq(Char), Len(u) = 1, u[1] = "/" PROVE Cuts(u)[1] = <<>>
    <3>1. Cuts(u)[Len(u) + 1] = <<>> /\ \A k \in 1 .. Len(u) : u[k] = "/" => Cuts(u)[k] = Cuts(u)[k + 1]
      BY CutsUnfold
    <3>2. 1 \in 1 .. Len(u) /\ Len(u) + 1 = 1 + 1
      BY <2>2
    <3> QED BY <2>2, <3>1, <3>2
  <2> QED BY <2>1, <2>2, ComponentsAreCuts
<1>3. Walk(Root, <<>>)[0] = Root
  <2>1. Len(<<>>) \in Nat OBVIOUS
  <2> QED BY <2>1, WalkUnfold
<1>4. Len(<<>>) = 0 OBVIOUS
<1> QED BY <1>1, <1>2, <1>3, <1>4, LookupIsWalk

-----------------------------------------------------------------------------
(***************************************************************************)
(* The entries of a directory.                                             *)
(***************************************************************************)
DueIds(d, pos) == {x \in -1 .. NNodes : x > pos /\ (x < 1 \/ x \in Children(d))}
EntryOf(x) == [type |-> EntryType(x), name |-> EntryName(x), id |-> x]
DueEntries(d, pos) == {EntryOf(x) : x \in DueIds(d, pos)}

EntriesAt(d, pos, E, k) ==
  IF k = 0 THEN <<>>
  ELSE IF k - 2 > pos /\ (k - 2 < 1 \/ k - 2 \in Children(d)) THEN Append(E[k - 1], EntryOf(k - 2))
  ELSE E[k - 1]
AreEntries(d, pos, n, E) == E = [k \in 0 .. n |-> EntriesAt(d, pos, E, k)]

LEMMA EntriesExist ==
  ASSUME NEW d, NEW pos
  PROVE  \A n \in Nat : \E E : AreEntries(d, pos, n, E)
<1> DEFINE S == {n \in Nat : \E E : AreEntries(d, pos, n, E)}
<1>1. 0 \in S
  <2>1. AreEntries(d, pos, 0, [k \in 0 .. 0 |-> <<>>])
    BY DEF AreEntries, EntriesAt
  <2> QED BY <2>1
<1>2. ASSUME NEW n \in Nat, n \in S PROVE n + 1 \in S
  <2>1. PICK E : AreEntries(d, pos, n, E)
    BY <1>2
  <2> DEFINE h == [k \in 0 .. n + 1 |-> IF k = n + 1 THEN EntriesAt(d, pos, E, n + 1) ELSE E[k]]
  <2>2. ASSUME NEW k \in 0 .. n + 1 PROVE EntriesAt(d, pos, h, k) = EntriesAt(d, pos, E, k)
    <3>1. k # 0 => h[k - 1] = E[k - 1] OBVIOUS
    <3> HIDE DEF h
    <3> QED BY <3>1 DEF EntriesAt
  <2>3. ASSUME NEW k \in 0 .. n + 1 PROVE h[k] = EntriesAt(d, pos, E, k)
    <3>1. CASE k = n + 1
      BY <3>1
    <3>2. CASE k # n + 1
      <4>1. k \in 0 .. n /\ h[k] = E[k]
        BY <3>2
      <4>2. E[k] = EntriesAt(d, pos, E, k)
        BY <2>1, <4>1 DEF AreEntries
      <4> QED BY <4>1, <4>2
    <3> QED BY <3>1, <3>2
  <2>4. h = [k \in 0 .. n + 1 |-> h[k]] OBVIOUS
  <2> HIDE DEF h
  <2>5. AreEntries(d, pos, n + 1, h)
    BY <2>2, <2>3, <2>4 DEF AreEntries
  <2> QED BY <2>5
<1>3. Nat \subseteq S
  <2> HIDE DEF S
  <2> QED BY <1>1, <1>2, NatUp
<1> QED BY <1>3

\* A directory delivers its own entries only, and those behind f_pos.
LEMMA EntriesAreDue ==
  ASSUME NEW d, NEW pos \in Int
  PROVE  EntriesFrom(d, pos) \in Seq(DueEntries(d, pos))
<1> DEFINE n == NNodes + 2
           E == CHOOSE E : AreEntries(d, pos, n, E)
           S == {k \in Nat : k <= n => E[k] \in Seq(DueEntries(d, pos))}
<1>0. n \in Nat /\ NNodes \in Nat
  BY SearchAssumption
<1>1. AreEntries(d, pos, n, E)
  <2> HIDE DEF n
  <2> QED BY <1>0, EntriesExist
<1>2. EntriesFrom(d, pos) = E[n]
  BY DEF EntriesFrom, AreEntries, EntriesAt, EntryOf
<1> HIDE DEF E
<1>3. \A k \in 0 .. n : E[k] = EntriesAt(d, pos, E, k)
  BY <1>1 DEF AreEntries
<1>4. 0 \in S
  <2>1. E[0] = <<>>
    BY <1>0, <1>3 DEF EntriesAt
  <2>2. ASSUME NEW X PROVE <<>> \in Seq(X) OBVIOUS
  <2>3. E[0] \in Seq(DueEntries(d, pos))
    BY <2>1, <2>2
  <2> QED BY <2>3
<1>5. ASSUME NEW k \in Nat, k \in S PROVE k + 1 \in S
  <2> SUFFICES ASSUME k + 1 <= n PROVE E[k + 1] \in Seq(DueEntries(d, pos)) OBVIOUS
  <2>1. E[k] \in Seq(DueEntries(d, pos)) /\ k + 1 \in 0 .. n /\ k + 1 # 0 /\ (k + 1) - 1 = k /\ (k + 1) - 2 = k - 1
    BY <1>0, <1>5
  <2>2. E[k + 1] = IF k - 1 > pos /\ (k - 1 < 1 \/ k - 1 \in Children(d)) THEN Append(E[k], EntryOf(k - 1)) ELSE E[k]
    BY <1>3, <2>1 DEF EntriesAt
  <2>3. CASE k - 1 > pos /\ (k - 1 < 1 \/ k - 1 \in Children(d))
    <3>1. k - 1 \in DueIds(d, pos)
      BY <1>0, <2>1, <2>3 DEF DueIds
    <3>2. EntryOf(k - 1) \in DueEntries(d, pos)
      BY <3>1 DEF DueEntries
    <3>3. E[k + 1] = Append(E[k], EntryOf(k - 1))
      BY <2>2, <2>3
    <3> QED BY <2>1, <3>2, <3>3, AppendProperties
  <2>4. CASE ~ (k - 1 > pos /\ (k - 1 < 1 \/ k - 1 \in Children(d)))
    BY <2>1, <2>2, <2>4
  <2> QED BY <2>3, <2>4
<1>6. Nat \subseteq S
  <2> HIDE DEF S
  <2> QED BY <1>4, <1>5, NatUp
<1>7. E[n] \in Seq(DueEntries(d, pos))
  BY <1>0, <1>6
<1> QED BY <1>2, <1>7

Comps == {c \in Seq(Char) : IsComponent(c)}
Entries == [type : {"d", "o"}, name : Comps, id : Int]

LEMMA NamesAreComponents ==
  ASSUME TreeInv
  PROVE  Dot \in Comps /\ DotDot \in Comps /\ \A x \in Nodes \ {Root} : name[x] \in Comps
<1>1. Dot \in Comps
  BY Separators DEF Comps, IsComponent, Dot
<1>2. DotDot \in Comps
  BY Separators DEF Comps, IsComponent, DotDot
<1>3. ASSUME NEW x \in Nodes \ {Root} PROVE name[x] \in Comps
  <2>1. IsName(name[x])
    BY DEF TreeInv
  <2>2. ASSUME NEW c, IsName(c) PROVE c \in Comps
    <3>1. c \in Seq(STRING) /\ c # <<>> /\ DOMAIN c = 1 .. Len(c) /\ \A i \in DOMAIN c : c[i] # "/"
      BY <2>2 DEF IsName
    <3>2. c \in Seq(Char)
      BY <3>1 DEF Char
    <3> QED BY <3>1, <3>2 DEF Comps, IsComponent
  <2> QED BY <2>1, <2>2
<1> QED BY <1>1, <1>2, <1>3

LEMMA DueEntriesTyped ==
  ASSUME TreeInv, NEW d, NEW pos
  PROVE  DueEntries(d, pos) \subseteq Entries
<1> SUFFICES ASSUME NEW x \in DueIds(d, pos) PROVE EntryOf(x) \in Entries
  BY DEF DueEntries
<1>1. x \in Int /\ (x = -1 \/ x = 0 \/ x \in Nodes \ {Root})
  BY SearchAssumption DEF DueIds, Children
<1>2. EntryName(x) \in Comps
  BY <1>1, NamesAreComponents DEF EntryName
<1>3. EntryType(x) \in {"d", "o"}
  BY DEF EntryType
<1> QED BY <1>1, <1>2, <1>3 DEF EntryOf, Entries

-----------------------------------------------------------------------------
(***************************************************************************)
(* The types of everything the call keeps.  Nothing is said of what the    *)
(* matcher answers.                                                        *)
(***************************************************************************)
Hows == Match!Verdicts \cup {Match!match_pathname(p, pattern) : p \in Seq(Char)}
Frames == [fp : DirNodes, dir : Nat, pos : Int, pending : Seq(Entries),
           entry : Comps \cup {<<>>}, type : {"d", "o"}, how : Hows]

ArgsOK    == paths \in Seq(Seq(Char)) /\ pattern \in Seq(Char) /\ pattern # <<>>
TextOK    == path \in Seq(Char) /\ base \in Nat /\ rest \in Seq(Seq(Char)) /\ shift \in Nat
FramesOK  == stack \in Seq(Frames)
EntryOK   == pc \in {"report", "descend"} => frame.entry \in Comps
PsearchOK == pc = "psearch" => psearch \in Nodes
CountsOK  ==
  /\ pc \in Pcs /\ held \subseteq {"ds", "paths", "pattern", "dirs"}
  /\ files \in Int /\ files >= Len(stack) /\ pathbufs \in Nat
  /\ status \in Int /\ results \in Int
  /\ status = 0 => results >= 0

DataInv == ArgsOK /\ TextOK /\ FramesOK /\ EntryOK /\ PsearchOK /\ CountsOK

LEMMA LeadingIs ==
  ASSUME ArgsOK, ~ ispattern
  PROVE  LeadingSlashes \in 1 .. Len(pattern)
<1> DEFINE N == Len(pattern)
           T == {k \in Nat : k \in 1 .. N /\ (k = N \/ pattern[k + 1] # "/")}
<1>d. pattern \in Seq(Char) /\ DOMAIN pattern = 1 .. N
  BY DEF ArgsOK
<1>0. N \in Nat /\ N >= 1 /\ pattern[1] = "/"
  BY <1>d DEF ArgsOK, ispattern, Match!ispattern
<1> HIDE DEF N
<1>1. N \in T
  BY <1>0
<1>2. PICK k \in T : \A y \in T : k <= y
  <2>1. T \in SUBSET Nat /\ T # {}
    BY <1>1
  <2> HIDE DEF T
  <2> QED BY <2>1, LeastNat
<1>3. k \in 1 .. N /\ (k = N \/ pattern[k + 1] # "/") /\ k \in Nat
  BY <1>2
<1>4. ASSUME NEW i \in 1 .. k, pattern[i] # "/" PROVE FALSE
  <2>1. i \in Nat /\ i > 1 /\ i <= k
    BY <1>0, <1>3, <1>4
  <2>2. i - 1 \in Nat /\ i - 1 \in 1 .. N /\ (i - 1) + 1 = i
    BY <1>0, <1>3, <2>1
  <2>3. i - 1 \in T
    BY <1>4, <2>2
  <2>4. k <= i - 1
    BY <1>2, <2>3
  <2> QED BY <1>3, <2>1, <2>4
<1>5. Match!At(pattern, k + 1) # "/"
  <2>1. CASE k + 1 \in DOMAIN pattern
    <3>1. k + 1 \in 1 .. N
      BY <1>d, <2>1
    <3>2. k # N
      BY <1>0, <1>3, <3>1
    <3> QED BY <1>3, <2>1, <3>2 DEF Match!At
  <2>2. CASE k + 1 \notin DOMAIN pattern
    BY <2>2 DEF Match!At, Match!NUL
  <2> QED BY <2>1, <2>2
<1>6. \E j \in DOMAIN pattern : (\A i \in 1 .. j : pattern[i] = "/") /\ Match!At(pattern, j + 1) # "/"
  BY <1>d, <1>3, <1>4, <1>5
<1>7. LeadingSlashes \in DOMAIN pattern
  BY <1>6 DEF LeadingSlashes
<1> QED BY <1>d, <1>7 DEF N

LEMMA ArgsStay ==
  ASSUME ArgsOK, [Next]_vars
  PROVE  ArgsOK' /\ Hows' = Hows /\ UNCHANGED argVars
<1>1. UNCHANGED argVars
  BY SysPlaces, DirectoryPlaces DEF Next, vars, Others
<1>2. UNCHANGED <<paths, pattern>>
  BY <1>1 DEF argVars
<1>3. ArgsOK'
  BY <1>2 DEF ArgsOK
<1>4. Hows' = Hows
  BY <1>2 DEF Hows
<1> QED BY <1>1, <1>3, <1>4

LEMMA SysText ==
  ASSUME TreeInv, StackInv, DataInv, SysStep
  PROVE  TextOK' /\ PsearchOK' /\ EntryOK' /\ UNCHANGED stack
<1>0. /\ path \in Seq(Char) /\ base \in Nat /\ rest \in Seq(Seq(Char)) /\ shift \in Nat
      /\ paths \in Seq(Seq(Char)) /\ pattern \in Seq(Char)
  BY DEF DataInv, TextOK, ArgsOK
<1>1. CASE AllocDs \/ GetPaths \/ GetPattern \/ AllocDirs
  <2>1. UNCHANGED <<path, base, rest, shift, stack>> /\ pc' \notin {"psearch", "report", "descend"}
    BY <1>1 DEF AllocDs, GetPaths, GetPattern, AllocDirs, Acquire, Exit, heapVars
  <2> QED BY <1>0, <2>1 DEF TextOK, PsearchOK, EntryOK
<1>2. CASE StripSlashes
  <2>1. /\ UNCHANGED <<path, base, rest, stack>> /\ pc' = "split"
        /\ shift' = LeadingSlashes /\ ~ ispattern
    BY <1>2 DEF StripSlashes, sysVars
  <2>2. shift' \in Nat
    BY <2>1, LeadingIs DEF DataInv
  <2> QED BY <1>0, <2>1, <2>2 DEF TextOK, PsearchOK, EntryOK
<1>3. CASE Split
  <2>1. UNCHANGED <<path, base, shift, stack>> /\ pc' = "nextpath" /\ rest' = paths
    BY <1>3 DEF Split, heapVars
  <2> QED BY <1>0, <2>1 DEF TextOK, PsearchOK, EntryOK
<1>4. CASE NextPath
  <2>1. /\ UNCHANGED <<shift, stack>> /\ rest # <<>> /\ path' = Head(rest) /\ rest' = Tail(rest)
        /\ base' = 0 \/ base' = base
        /\ pc' \in {"open", "kern_path"}
    BY <1>4 DEF NextPath, heapVars
  <2>2. Head(rest) \in Seq(Char) /\ Tail(rest) \in Seq(Seq(Char))
    BY <1>0, <2>1, HeadTailProperties
  <2> QED BY <1>0, <2>1, <2>2 DEF TextOK, PsearchOK, EntryOK
<1>5. CASE KernPath
  <2> DEFINE r == Lookup(Root, path)
  <2>1. UNCHANGED <<shift, stack, rest>>
    BY <1>5 DEF KernPath, heapVars
  <2>2. CASE UNCHANGED <<path, base>> /\ pc' \in {"nextpath", "unwind"}
    BY <1>0, <2>1, <2>2 DEF TextOK, PsearchOK, EntryOK
  <2>3. CASE r > 0 /\ psearch' = r /\ base' = Len(path) /\ path' = path \o Slash \o Literal /\ pc' = "psearch"
    <3>1. Literal \in Seq(Char)
      <4>1. shift + 1 \in Int /\ Len(pattern) \in Int /\ \A i \in shift + 1 .. Len(pattern) : pattern[i] \in Char
        BY <1>0
      <4> QED BY <4>1, SubSeqProperties DEF Literal
    <3>2. path' \in Seq(Char) /\ base' \in Nat
      <4> HIDE DEF Literal
      <4>1. path \o Slash \o Literal \in Seq(Char) /\ Len(path) \in Nat
        BY <1>0, <3>1, Joined
      <4> QED BY <2>3, <4>1
    <3>3. r \in Nodes
      BY <1>0, <2>3, LookupTyped, NodesFacts, ErrorsNegative
    <3> QED BY <1>0, <2>1, <2>3, <3>2, <3>3 DEF TextOK, PsearchOK, EntryOK
  <2> QED BY <1>5, <2>2, <2>3 DEF KernPath, Exit
<1>6. CASE Psearch
  <2>1. UNCHANGED <<path, base, rest, shift, stack>> /\ pc' \notin {"psearch", "report", "descend"}
    BY <1>6 DEF Psearch, Exit, heapVars
  <2> QED BY <1>0, <2>1 DEF TextOK, PsearchOK, EntryOK
<1>7. CASE BackInSearch \/ Finish \/ Unwind
  <2>1. UNCHANGED <<path, base, rest, shift, stack>> /\ pc' \notin {"psearch", "report", "descend"}
    BY <1>7 DEF BackInSearch, Finish, Unwind, Exit, heapVars, sysVars
  <2> QED BY <1>0, <2>1 DEF TextOK, PsearchOK, EntryOK
<1> QED BY <1>1, <1>2, <1>3, <1>4, <1>5, <1>6, <1>7 DEF SysStep

ErrorNumbers ==
  /\ ENOENT = 2 /\ EIO = 5 /\ ENOMEM = 12 /\ EACCES = 13 /\ EFAULT = 14
  /\ ENOTDIR = 20 /\ ENFILE = 23 /\ ERANGE = 34 /\ ENAMETOOLONG = 36

LEMMA Errors == ErrorNumbers
  BY DEF ErrorNumbers, ENOENT, EIO, ENOMEM, EACCES, EFAULT, ENOTDIR, ENFILE, ERANGE, ENAMETOOLONG

LEMMA OpenDirTyped ==
  ASSUME TreeInv, path \in Seq(Char)
  PROVE  OpenDir(path) \in Nodes \cup LookupErrors
<1>1. Lookup(Root, path) \in Nodes \cup LookupErrors
  BY LookupTyped, NodesFacts
<1> QED BY <1>1 DEF OpenDir, LookupErrors

LEMMA SysCounts ==
  ASSUME TreeInv, StackInv, DataInv, SysStep
  PROVE  CountsOK'
<1>0. /\ pc \in Pcs /\ held \subseteq {"ds", "paths", "pattern", "dirs"}
      /\ files \in Int /\ files >= Len(stack) /\ pathbufs \in Nat
      /\ status \in Int /\ results \in Int
      /\ status = 0 => results >= 0
  BY DEF DataInv, CountsOK
<1>f. pc \notin {"back", "close", "unwind", "returned"} => status = 0 /\ results >= 0
  BY <1>0 DEF StackInv, Failing
<1>s. UNCHANGED <<stack, files, pathbufs>>
  BY SysPlaces
<1>l. files' \in Int /\ files' >= Len(stack') /\ pathbufs' \in Nat
  BY <1>0, <1>s
<1>1. ASSUME NEW at, NEW what \in {"ds", "paths", "pattern", "dirs"}, NEW errors \in SUBSET Int, NEW l, NEW to \in Pcs,
             at \in {"enter", "getpaths", "getpattern", "setup"}, Acquire(at, what, errors, l, to)
      PROVE  CountsOK'
  <2>1. UNCHANGED results /\ pc = at
    BY <1>1 DEF Acquire, bufVars
  <2>2. held' \subseteq {"ds", "paths", "pattern", "dirs"} /\ pc' \in Pcs /\ status' \in Int
    BY <1>0, <1>1 DEF Acquire, Exit, Pcs
  <2>3. results >= 0
    BY <1>1, <1>f, <2>1
  <2> QED BY <1>0, <1>l, <2>1, <2>2, <2>3 DEF CountsOK
<1>9. ASSUME NEW e \in {-ENOENT, -EFAULT, -ENOMEM}, pc = "getpaths", Exit(e, "exit1"), UNCHANGED <<bufVars, heapVars>>
      PROVE  CountsOK'
  <2>1. UNCHANGED <<held, results>> /\ pc' \in Pcs /\ status' \in Int /\ results >= 0
    BY <1>9, <1>f, Errors DEF Exit, bufVars, heapVars, Pcs, ErrorNumbers
  <2> QED BY <1>0, <1>l, <2>1 DEF CountsOK
<1>2. CASE AllocDs \/ GetPaths \/ GetPattern \/ AllocDirs
  <2>1. /\ {-EFAULT, -ENOMEM} \in SUBSET Int /\ {-EFAULT, -ENOMEM, -ENAMETOOLONG} \in SUBSET Int /\ {0} \in SUBSET Int
    BY Errors DEF ErrorNumbers
  <2>2. {"getpaths", "getpattern", "setup", "split"} \subseteq Pcs
    BY DEF Pcs
  <2> QED BY <1>1, <1>2, <1>9, <2>1, <2>2 DEF AllocDs, GetPaths, GetPattern, AllocDirs
<1>3. CASE StripSlashes \/ Split \/ NextPath
  <2>1. UNCHANGED <<held, status, results>> /\ pc' \in Pcs
    BY <1>3 DEF StripSlashes, Split, NextPath, heapVars, bufVars, Pcs
  <2> QED BY <1>0, <1>l, <2>1 DEF CountsOK
<1>4. CASE KernPath
  <2>1. UNCHANGED <<held, results>> /\ pc' \in Pcs /\ pc = "kern_path"
    BY <1>4 DEF KernPath, heapVars, bufVars, Exit, Pcs
  <2>2. Lookup(Root, path) \in Int
    BY LookupTyped, NodesFacts, ErrorsNegative DEF DataInv, TextOK
  <2>3. status' \in Int
    BY <1>0, <1>4, <2>2 DEF KernPath, Exit
  <2> QED BY <1>0, <1>f, <1>l, <2>1, <2>3 DEF CountsOK
<1>5. CASE Psearch
  <2>1. UNCHANGED held /\ pc' \in Pcs /\ pc = "psearch"
    BY <1>5 DEF Psearch, heapVars, Exit, Pcs
  <2>2. Literal \in Seq(Char)
    <3>1. shift + 1 \in Int /\ Len(pattern) \in Int /\ \A i \in shift + 1 .. Len(pattern) : pattern[i] \in Char
      BY DEF DataInv, TextOK, ArgsOK
    <3> QED BY <3>1, SubSeqProperties DEF Literal
  <2>3. Lookup(psearch, Literal) \in Int
    <3>1. psearch \in Nodes
      BY <2>1 DEF DataInv, PsearchOK
    <3> HIDE DEF Literal
    <3> QED BY <2>2, <3>1, LookupTyped, ErrorsNegative
  <2>4. status' \in Int
    BY <1>0, <1>5, <2>3, Errors DEF Psearch, Exit, ErrorNumbers
  <2>5. results' = results \/ results' = results + 1
    BY <1>5 DEF Psearch, Copy, CopyFails, GetattrFails, bufVars
  <2> QED BY <1>0, <1>f, <1>l, <2>1, <2>4, <2>5 DEF CountsOK
<1>6. CASE BackInSearch
  <2>1. UNCHANGED <<held, status, results>> /\ pc' \in Pcs
    BY <1>6 DEF BackInSearch, Exit, heapVars, bufVars, Pcs
  <2> QED BY <1>0, <1>l, <2>1 DEF CountsOK
<1>7. CASE Finish
  <2>1. UNCHANGED <<held, results>> /\ pc' \in Pcs /\ pc \in {"finish", "nextpath"}
    BY <1>7 DEF Finish, Exit, heapVars, Pcs
  <2>2. status' \in Int
    BY <1>0, <1>7 DEF Finish, Exit
  <2> QED BY <1>0, <1>f, <1>l, <2>1, <2>2 DEF CountsOK
<1>8. CASE Unwind
  <2>1. UNCHANGED <<status, results>> /\ pc' \in Pcs /\ held' \subseteq held
    BY <1>8 DEF Unwind, bufVars, Pcs
  <2> QED BY <1>0, <1>l, <2>1 DEF CountsOK
<1> QED BY <1>2, <1>3, <1>4, <1>5, <1>6, <1>7, <1>8 DEF SysStep

LEMMA DirectoryCounts ==
  ASSUME TreeInv, StackInv, DataInv, DirectoryStep
  PROVE  CountsOK'
<1>0. /\ pc \in Pcs /\ held \subseteq {"ds", "paths", "pattern", "dirs"}
      /\ files \in Int /\ files >= Len(stack) /\ pathbufs \in Nat
      /\ status \in Int /\ results \in Int
      /\ status = 0 => results >= 0
  BY DEF DataInv, CountsOK
<1>f. pc \notin {"back", "close", "unwind", "returned"} => status = 0 /\ results >= 0
  BY <1>0 DEF StackInv, Failing
<1>p. path \in Seq(Char) /\ stack \in Seq(Frames)
  BY DEF DataInv, TextOK, FramesOK
<1>a. UNCHANGED held /\ pc' \in Pcs
  BY DirectoryPlaces DEF FramePcs, Pcs
<1>1. CASE OpenSkipped \/ OpenFails
  <2>1. UNCHANGED <<stack, files, pathbufs, results>> /\ pc = "open"
    BY <1>1 DEF OpenSkipped, OpenFails, heapVars, bufVars
  <2>2. OpenDir(path) \in Int
    BY <1>p, OpenDirTyped, ErrorsNegative
  <2>3. status' \in Int
    BY <1>1, <2>2, Errors DEF OpenSkipped, OpenFails, ErrorNumbers
  <2> QED BY <1>0, <1>f, <1>a, <2>1, <2>3 DEF CountsOK
<1>2. CASE Open
  <2>1. UNCHANGED <<pathbufs, results>> /\ pc = "open" /\ status' = 0 /\ files' = files + 1
    BY <1>2 DEF Open, heapVars, bufVars
  <2>2. PICK f : stack' = Append(stack, f)
    BY <1>2 DEF Open
  <2>3. Len(stack') = Len(stack) + 1 /\ Len(stack) \in Nat
    BY <1>p, <2>2, Push
  <2> QED BY <1>0, <1>f, <1>a, <2>1, <2>3 DEF CountsOK
<1>3. CASE abspath \/ EndWalk \/ Descend \/ BackInDirectory
  <2>1. UNCHANGED <<stack, files, pathbufs, results, status>>
    BY <1>3 DEF abspath, EndWalk, Descend, BackInDirectory, heapVars, bufVars
  <2> QED BY <1>0, <1>a, <2>1 DEF CountsOK
<1>4. CASE Readdir \/ NextEntry
  <2>1. /\ \/ UNCHANGED stack
           \/ \E f : stack' = [stack EXCEPT ![Len(stack)] = f]
        /\ UNCHANGED <<files, pathbufs, results, status>> /\ pc \in FramePcs
    BY <1>4 DEF Readdir, NextEntry, With, heapVars, bufVars, FramePcs
  <2>2. stack # <<>>
    BY <2>1 DEF StackInv, Framed
  <2>3. Len(stack') = Len(stack)
    BY <1>p, <2>1, <2>2, ReplaceTop
  <2> QED BY <1>0, <1>a, <2>1, <2>3 DEF CountsOK
<1>5. CASE DirectoryFails
  <2>1. UNCHANGED <<stack, files, pathbufs, results>> /\ pc \in {"abspath", "readdir"}
    BY <1>5 DEF DirectoryFails, heapVars, bufVars
  <2>2. status' \in Int
    BY <1>5, Errors DEF DirectoryFails, ErrorNumbers
  <2> QED BY <1>0, <1>f, <1>a, <2>1, <2>2 DEF CountsOK
<1>6. CASE Report
  <2>1. UNCHANGED <<stack, files, pathbufs, status>> /\ pc = "report" /\ results' = results + 1
    BY <1>6 DEF Report, Copy, heapVars
  <2> QED BY <1>0, <1>f, <1>a, <2>1 DEF CountsOK
<1>7. CASE ReportFails
  <2>1. UNCHANGED <<stack, files, pathbufs, results>> /\ pc = "report"
    BY <1>7 DEF ReportFails, CopyFails, GetattrFails, heapVars, bufVars
  <2>2. Lookup(fp, frame.entry) \in Int
    <3>1. stack # <<>>
      BY <2>1 DEF StackInv, Framed, FramePcs
    <3>2. frame \in Frames
      BY <1>p, <3>1 DEF frame
    <3>3. fp \in Nodes
      BY <3>2, NodesFacts DEF fp, frame, Frames
    <3>4. frame.entry \in Seq(Char)
      BY <2>1 DEF DataInv, EntryOK, Comps
    <3> QED BY <3>3, <3>4, LookupTyped, ErrorsNegative
  <2>3. status' \in Int
    BY <1>7, <2>2, Errors DEF ReportFails, ErrorNumbers
  <2> QED BY <1>0, <1>f, <1>a, <2>1, <2>3 DEF CountsOK
<1>8. CASE Close
  <2>1. /\ UNCHANGED <<pathbufs, results, status>> /\ files' = files - 1
        /\ stack' = SubSeq(stack, 1, Len(stack) - 1)
    BY <1>8 DEF Close, heapVars, bufVars
  <2>2. stack # <<>>
    BY <1>8 DEF Close, StackInv, Framed, FramePcs
  <2>3. Len(stack') = Len(stack) - 1 /\ Len(stack) \in Nat
    BY <1>p, <2>1, <2>2, Pop
  <2>4. files' \in Int /\ files' >= Len(stack')
    <3> HIDE DEF FramesOK
    <3>1. files' = files - 1
      BY <2>1
    <3> QED BY <1>0, <2>3, <3>1
  <2>5. UNCHANGED <<pathbufs, results, status>>
    BY <2>1
  <2> QED BY <1>0, <1>a, <2>4, <2>5 DEF CountsOK
<1>9. ASSUME NEW n \in Answers, Driver(n) PROVE CountsOK'
  <2>1. /\ UNCHANGED files /\ pathbufs' = pathbufs + 1 /\ pc = "driver"
        /\ n \in Nat /\ -ERANGE \in Int /\ -ERANGE # 0
        /\ results' \in {results + n, results - Buf!ERANGE}
    BY <1>9, SearchAssumption DEF Driver, Buf!driver_search, Buf!driver_search_ERANGE, ERANGE
  <2>2. stack # <<>>
    BY <2>1 DEF StackInv, Framed, FramePcs
  <2>3. CASE pc' = "back"
    <3>1. status' = -ERANGE /\ stack' = SubSeq(stack, 1, Len(stack) - 1)
      BY <1>9, <2>3 DEF Driver
    <3>2. Len(stack') = Len(stack) - 1 /\ Len(stack) \in Nat
      BY <1>p, <2>2, <3>1, Pop
    <3>3. results' \in Int
      BY <1>0, <2>1 DEF Buf!ERANGE
    <3> QED BY <1>0, <1>a, <2>1, <3>1, <3>2, <3>3 DEF CountsOK
  <2>4. CASE pc' # "back"
    <3>1. UNCHANGED <<status, stack>> /\ results' = results + n
      BY <1>9, <2>4 DEF Driver, Buf!driver_search
    <3> QED BY <1>0, <1>a, <1>f, <2>1, <2>4, <3>1 DEF CountsOK
  <2> QED BY <2>3, <2>4
<1> QED BY <1>1, <1>2, <1>3, <1>4, <1>5, <1>6, <1>7, <1>8, <1>9 DEF DirectoryStep

LEMMA TopFrame ==
  ASSUME StackInv, DataInv, stack # <<>>
  PROVE  /\ stack \in Seq(Frames) /\ Len(stack) \in Nat /\ Len(stack) >= 1 /\ Len(stack) \in 1 .. Len(stack)
         /\ frame \in Frames /\ fp = frame.fp /\ fp \in DirNodes /\ fp \in Nodes
<1>1. stack \in Seq(Frames)
  BY DEF DataInv, FramesOK
<1>2. Len(stack) \in Nat /\ Len(stack) >= 1 /\ Len(stack) \in 1 .. Len(stack) /\ stack[Len(stack)] \in Frames
  BY <1>1
<1>3. fp = frame.fp /\ frame \in Frames
  BY <1>2 DEF fp, frame
<1>4. frame.fp \in DirNodes
  BY <1>3 DEF Frames
<1> QED BY <1>1, <1>2, <1>3, <1>4, NodesFacts

LEMMA WithFrame ==
  ASSUME NEW S, NEW s \in Seq(S), s # <<>>, NEW f \in S
  PROVE  /\ [s EXCEPT ![Len(s)] = f] \in Seq(S)
         /\ Len([s EXCEPT ![Len(s)] = f]) = Len(s)
         /\ [s EXCEPT ![Len(s)] = f][Len(s)] = f
         /\ \A k \in 1 .. Len(s) - 1 : [s EXCEPT ![Len(s)] = f][k] = s[k]
<1>1. S \cup {f} = S OBVIOUS
<1>2. [s EXCEPT ![Len(s)] = f] \in Seq(S) /\ Len([s EXCEPT ![Len(s)] = f]) = Len(s)
  BY <1>1, ReplaceTop
<1>3. [s EXCEPT ![Len(s)] = f][Len(s)] = f OBVIOUS
<1>4. ASSUME NEW k \in 1 .. Len(s) - 1 PROVE [s EXCEPT ![Len(s)] = f][k] = s[k]
  <2>1. k \in DOMAIN s /\ k # Len(s) OBVIOUS
  <2> QED BY <2>1
<1> QED BY <1>2, <1>3, <1>4

\* One call of vfs_readdir: the directory is at its end, or it delivers some
\* of its entries and moves f_pos to the last of them.
LEMMA ReaddirDelivers ==
  ASSUME TreeInv, StackInv, DataInv, Readdir
  PROVE  /\ pc = "readdir" /\ stack # <<>>
         /\ \/ UNCHANGED stack /\ pc' = "close"
            \/ /\ pc' = "walk"
               /\ \E batch \in Seq(DueEntries(fp, frame.pos)) :
                    /\ batch # <<>> /\ LastId(batch) \in Int
                    /\ stack' = With([frame EXCEPT !.pos = LastId(batch),
                                                   !.pending = batch, !.dir = Len(path)])
<1>1. pc = "readdir" /\ stack # <<>>
  BY DEF Readdir, StackInv, Framed, FramePcs
<1>2. frame.pos \in Int
  BY <1>1, TopFrame DEF Frames
<1> DEFINE due == EntriesFrom(fp, frame.pos)
           D == DueEntries(fp, frame.pos)
           m == IF Len(due) < BatchSize THEN Len(due) ELSE BatchSize
           batch == SubSeq(due, 1, m)
<1>3. due \in Seq(D)
  BY <1>2, EntriesAreDue
<1>4. D \subseteq Entries
  BY DueEntriesTyped
<1>5. BatchSize \in Nat
  BY SearchAssumption
<1>6. IF batch = <<>> THEN pc' = "close" /\ UNCHANGED stack
      ELSE /\ pc' = "walk"
           /\ stack' = With([frame EXCEPT !.pos = LastId(batch), !.pending = batch, !.dir = Len(path)])
  BY DEF Readdir
<1> HIDE DEF due, D
<1>7. m \in Int /\ 1 \in Int /\ \A i \in 1 .. m : due[i] \in D
  BY <1>3, <1>5
<1> HIDE DEF m
<1>8. batch \in Seq(D)
  BY <1>7, SubSeqProperties
<1> HIDE DEF batch
<1>9. batch # <<>> => LastId(batch) \in Int
  <2> SUFFICES ASSUME batch # <<>> PROVE LastId(batch) \in Int OBVIOUS
  <2>1. batch[Len(batch)] \in D
    BY <1>8
  <2>2. batch[Len(batch)] \in Entries
    BY <1>4, <2>1
  <2> QED BY <2>2 DEF LastId, Entries
<1> QED BY <1>1, <1>6, <1>8, <1>9 DEF D

LEMMA NextEntryTakes ==
  ASSUME TreeInv, StackInv, DataInv, NextEntry
  PROVE  /\ pc = "walk" /\ stack # <<>> /\ frame.pending # <<>> /\ frame.pending \in Seq(Entries)
         /\ Head(frame.pending) \in Entries
         /\ path' = path \o Slash \o Head(frame.pending).name /\ path' \in Seq(Char)
         /\ pc' \in {"report", "descend"}
         /\ \E how \in Hows :
              stack' = With([frame EXCEPT !.pending = Tail(frame.pending), !.entry = Head(frame.pending).name,
                                          !.type = Head(frame.pending).type, !.how = how])
<1>1. pc = "walk" /\ stack # <<>> /\ frame.pending # <<>>
  BY DEF NextEntry, StackInv, Framed, FramePcs
<1>2. frame.pending \in Seq(Entries) /\ Head(frame.pending) \in Entries
  <2>1. frame.pending \in Seq(Entries)
    BY <1>1, TopFrame DEF Frames
  <2> QED BY <1>1, <2>1, HeadTailProperties
<1>3. Head(frame.pending).name \in Seq(Char)
  BY <1>2 DEF Entries, Comps
<1> DEFINE e == Head(frame.pending)
           p == path \o Slash \o e.name
<1>4. path \in Seq(Char) /\ base \in Nat
  BY DEF DataInv, TextOK
<1>5. p \in Seq(Char) /\ path' = p
  <2>1. path' = p
    BY DEF NextEntry
  <2>2. ASSUME NEW c \in Seq(Char) PROVE path \o Slash \o c \in Seq(Char)
    BY <1>4, Joined
  <2> QED BY <1>3, <2>1, <2>2
<1>6. PICK how \in VerdictsOf(p) :
        /\ stack' = With([frame EXCEPT !.pending = Tail(@), !.entry = e.name, !.type = e.type, !.how = how])
        /\ pc' = IF how = Match!SUCCESS THEN "report" ELSE "descend"
  BY DEF NextEntry
<1>7. how \in Hows
  <2> HIDE DEF p
  <2>1. SubSeq(p, base + 1, Len(p)) \in Seq(Char)
    <3>1. base + 1 \in Int /\ Len(p) \in Int /\ \A i \in base + 1 .. Len(p) : p[i] \in Char
      BY <1>4, <1>5
    <3> QED BY <3>1, SubSeqProperties
  <2> QED BY <1>6, <2>1 DEF VerdictsOf, Hows
<1>8. stack' = With([frame EXCEPT !.pending = Tail(frame.pending), !.entry = e.name, !.type = e.type, !.how = how])
  BY <1>6
<1>9. pc' \in {"report", "descend"}
  BY <1>6
<1> QED BY <1>1, <1>2, <1>5, <1>7, <1>8, <1>9

LEMMA DirectoryFrames ==
  ASSUME TreeInv, StackInv, DataInv, DirectoryStep
  PROVE  stack' \in Seq(Frames) /\ EntryOK'
<1>0. stack \in Seq(Frames)
  BY DEF DataInv, FramesOK
<1>1. CASE OpenSkipped \/ OpenFails \/ abspath \/ EndWalk \/ DirectoryFails \/ ReportFails \/ Descend \/ BackInDirectory
  <2>1. UNCHANGED stack /\ pc' \notin {"report", "descend"}
    BY <1>1 DEF OpenSkipped, OpenFails, abspath, EndWalk, DirectoryFails, ReportFails, Descend, BackInDirectory
  <2> QED BY <1>0, <2>1 DEF EntryOK
<1>2. CASE Open
  <2> DEFINE f == [fp |-> OpenDir(path), dir |-> 0, pos |-> -2, pending |-> <<>>,
                   entry |-> <<>>, type |-> "o", how |-> Match!FAILURE]
  <2>1. stack' = Append(stack, f) /\ OpenDir(path) \in DirNodes /\ pc' = "abspath"
    BY <1>2 DEF Open
  <2>2. Match!FAILURE \in Hows
    BY DEF Hows, Match!Verdicts
  <2>3. f \in Frames
    BY <2>1, <2>2 DEF Frames
  <2> HIDE DEF f
  <2> QED BY <1>0, <2>1, <2>3, AppendProperties DEF EntryOK
<1>3. CASE Readdir
  <2>0. pc = "readdir" /\ stack # <<>>
    BY <1>3, ReaddirDelivers
  <2>1. CASE UNCHANGED stack /\ pc' = "close"
    BY <1>0, <2>1 DEF EntryOK
  <2>2. ASSUME NEW batch \in Seq(DueEntries(fp, frame.pos)), LastId(batch) \in Int, pc' = "walk",
               stack' = With([frame EXCEPT !.pos = LastId(batch), !.pending = batch, !.dir = Len(path)])
        PROVE  stack' \in Seq(Frames) /\ EntryOK'
    <3> DEFINE f == [frame EXCEPT !.pos = LastId(batch), !.pending = batch, !.dir = Len(path)]
    <3>1. batch \in Seq(Entries)
      BY DueEntriesTyped
    <3>2. Len(path) \in Nat
      BY DEF DataInv, TextOK
    <3>3. f \in Frames
      BY <2>0, <2>2, <3>1, <3>2, TopFrame DEF Frames
    <3>4. stack' = [stack EXCEPT ![Len(stack)] = f]
      BY <2>2 DEF With
    <3> HIDE DEF f
    <3> QED BY <1>0, <2>0, <2>2, <3>3, <3>4, WithFrame DEF EntryOK
  <2> QED BY <1>3, <2>1, <2>2, ReaddirDelivers
<1>4. CASE NextEntry
  <2> DEFINE e == Head(frame.pending)
  <2>1. /\ stack # <<>> /\ frame.pending # <<>> /\ frame.pending \in Seq(Entries) /\ e \in Entries
    BY <1>4, NextEntryTakes
  <2>2. PICK how \in Hows :
          stack' = With([frame EXCEPT !.pending = Tail(frame.pending), !.entry = e.name,
                                      !.type = e.type, !.how = how])
    BY <1>4, NextEntryTakes
  <2> DEFINE f == [frame EXCEPT !.pending = Tail(frame.pending), !.entry = e.name, !.type = e.type, !.how = how]
  <2>3. Tail(frame.pending) \in Seq(Entries) /\ e.name \in Comps /\ e.type \in {"d", "o"}
    BY <2>1, HeadTailProperties DEF Entries
  <2> HIDE DEF e
  <2>4. f \in Frames /\ f.entry = e.name
    BY <2>1, <2>3, TopFrame DEF Frames
  <2>5. stack' = [stack EXCEPT ![Len(stack)] = f]
    BY <2>2 DEF With
  <2> HIDE DEF f
  <2>6. stack' \in Seq(Frames) /\ Len(stack') = Len(stack) /\ stack'[Len(stack)] = f
    BY <1>0, <2>1, <2>4, <2>5, WithFrame
  <2>7. frame' = f
    BY <2>6 DEF frame
  <2> QED BY <2>3, <2>4, <2>6, <2>7 DEF EntryOK
<1>5. CASE Report
  <2>1. UNCHANGED stack /\ pc = "report"
    BY <1>5 DEF Report
  <2>2. frame.entry \in Comps /\ frame' = frame
    BY <2>1 DEF DataInv, EntryOK, frame
  <2> QED BY <1>0, <2>1, <2>2 DEF EntryOK
<1>6. ASSUME stack # <<>>, stack' = SubSeq(stack, 1, Len(stack) - 1), pc' = "back" PROVE stack' \in Seq(Frames) /\ EntryOK'
  BY <1>0, <1>6, Pop DEF EntryOK
<1>7. CASE Close
  <2>1. stack # <<>>
    BY <1>7 DEF Close, StackInv, Framed, FramePcs
  <2> QED BY <1>6, <1>7, <2>1 DEF Close
<1>8. ASSUME NEW n \in Answers, Driver(n) PROVE stack' \in Seq(Frames) /\ EntryOK'
  <2>1. stack # <<>>
    BY <1>8 DEF Driver, StackInv, Framed, FramePcs
  <2>2. CASE pc' = "back"
    BY <1>6, <1>8, <2>1, <2>2 DEF Driver
  <2>3. CASE pc' # "back"
    <3>1. UNCHANGED stack /\ pc' = "close"
      BY <1>8, <2>3 DEF Driver
    <3> QED BY <1>0, <3>1 DEF EntryOK
  <2> QED BY <2>2, <2>3
<1> QED BY <1>1, <1>2, <1>3, <1>4, <1>5, <1>7, <1>8 DEF DirectoryStep

LEMMA DirectoryText ==
  ASSUME TreeInv, StackInv, DataInv, DirectoryStep
  PROVE  TextOK' /\ PsearchOK'
<1>0. path \in Seq(Char) /\ base \in Nat /\ rest \in Seq(Seq(Char)) /\ shift \in Nat
  BY DEF DataInv, TextOK
<1>1. UNCHANGED <<rest, shift>> /\ pc' # "psearch"
  BY DirectoryPlaces DEF FramePcs
<1>2. path' \in Seq(Char) /\ base' \in Nat
  <2>1. CASE UNCHANGED <<path, base>>
    BY <1>0, <2>1
  <2>2. CASE abspath
    <3>1. stack # <<>>
      BY <2>2 DEF abspath, StackInv, Framed, FramePcs
    <3>2. AbsPath(fp) \in Seq(Char)
      BY <3>1, TopFrame, AbsPathType
    <3>3. Len(AbsPath(fp)) \in Nat
      BY <3>2
    <3> QED BY <1>0, <2>2, <3>2, <3>3 DEF abspath
  <2>3. CASE NextEntry
    <3>1. UNCHANGED base
      BY <2>3 DEF NextEntry
    <3> QED BY <1>0, <2>3, <3>1, NextEntryTakes
  <2>4. ASSUME stack # <<>> PROVE Restored \in Seq(Char)
    <3>1. frame.dir \in Nat
      BY <2>4, TopFrame DEF Frames
    <3>2. frame.dir < Len(path) => SubSeq(path, 1, frame.dir) \in Seq(Char)
      <4> SUFFICES ASSUME frame.dir < Len(path) PROVE SubSeq(path, 1, frame.dir) \in Seq(Char) OBVIOUS
      <4>1. 1 \in Int /\ frame.dir \in Int /\ \A i \in 1 .. frame.dir : path[i] \in Char
        BY <1>0, <3>1
      <4> QED BY <4>1, SubSeqProperties
    <3> QED BY <1>0, <3>2 DEF Restored
  <2>5. CASE Descend \/ BackInDirectory
    <3>1. stack # <<>> /\ (path' = path \/ path' = Restored) /\ UNCHANGED base
      BY <2>5 DEF Descend, BackInDirectory, StackInv, Framed, FramePcs
    <3> QED BY <1>0, <2>4, <3>1
  <2> QED BY <2>1, <2>2, <2>3, <2>5
       DEF DirectoryStep, OpenSkipped, OpenFails, Open, Readdir, DirectoryFails, Driver,
           EndWalk, Report, ReportFails, Close
<1> QED BY <1>0, <1>1, <1>2 DEF TextOK, PsearchOK

LEMMA DataAlways == Spec => []DataInv
<1>1. Init => DataInv
  <2> SUFFICES ASSUME Init PROVE DataInv OBVIOUS
  <2>1. /\ pc = "enter" /\ status = 0 /\ held = {} /\ shift = 0 /\ files = 0 /\ pathbufs = 0 /\ rest = <<>>
        /\ path = <<>> /\ base = 0 /\ stack = <<>> /\ results = 0
        /\ paths \in PathLists /\ pattern \in Patterns
    BY DEF Init
  <2>2. ArgsOK
    <3>1. paths \in Seq(Seq(STRING)) /\ pattern \in Seq(STRING) /\ pattern # <<>>
      BY <2>1, SearchAssumption
    <3>2. paths \in Seq(Seq(Char))
      BY <3>1 DEF Char
    <3>3. pattern \in Seq(Char)
      BY <3>1 DEF Char
    <3> QED BY <3>1, <3>2, <3>3 DEF ArgsOK
  <2>3. TextOK
    BY <2>1, Separators DEF TextOK
  <2>4. FramesOK
    BY <2>1 DEF FramesOK
  <2>5. EntryOK /\ PsearchOK
    BY <2>1 DEF EntryOK, PsearchOK
  <2>6. CountsOK
    BY <2>1 DEF CountsOK, Pcs
  <2> QED BY <2>2, <2>3, <2>4, <2>5, <2>6 DEF DataInv
<1>2. TreeInv /\ StackInv /\ DataInv /\ [Next]_vars => DataInv'
  <2> SUFFICES ASSUME TreeInv, StackInv, DataInv, [Next]_vars PROVE DataInv' OBVIOUS
  <2>1. ArgsOK' /\ Hows' = Hows
    BY ArgsStay DEF DataInv
  <2>2. Frames' = Frames
    BY <2>1 DEF Frames
  <2>3. CASE SysStep
    <3>1. FramesOK'
      BY <2>2, <2>3, SysText DEF DataInv, FramesOK
    <3> QED BY <2>1, <2>3, <3>1, SysText, SysCounts DEF DataInv
  <2>4. CASE DirectoryStep
    <3>1. FramesOK'
      BY <2>2, <2>4, DirectoryFrames DEF FramesOK
    <3> QED BY <2>1, <2>4, <3>1, DirectoryFrames, DirectoryText, DirectoryCounts DEF DataInv
  <2>5. CASE Others \/ UNCHANGED vars
    <3>1. UNCHANGED <<path, base, rest, shift, stack, pc, psearch, held, files, pathbufs, status, results>>
      BY <2>5 DEF Others, vars, heapVars, sysVars, bufVars
    <3>2. TextOK' /\ FramesOK' /\ PsearchOK' /\ CountsOK'
      BY <2>2, <3>1 DEF DataInv, TextOK, FramesOK, PsearchOK, CountsOK
    <3>3. EntryOK'
      BY <3>1 DEF DataInv, EntryOK, frame
    <3> QED BY <2>1, <3>2, <3>3 DEF DataInv
  <2> QED BY <2>3, <2>4, <2>5 DEF Next
<1> QED BY <1>1, <1>2, TreeAlways, StackAlways, PTL DEF Spec

\* At every place the call has the frames it uses, of directories, and its
\* counters are numbers: no path or length is taken of what is not there.
THEOREM SearchTyped == Spec => []TypeOK
<1>1. StackInv /\ DataInv => TypeOK
  <2> SUFFICES ASSUME StackInv, DataInv PROVE TypeOK OBVIOUS
  <2>1. pc \in FramePcs => stack # <<>>
    BY DEF StackInv, Framed
  <2>2. \A k \in DOMAIN stack : stack[k].fp \in DirNodes
    <3> SUFFICES ASSUME NEW k \in DOMAIN stack PROVE stack[k].fp \in DirNodes OBVIOUS
    <3>1. stack[k] \in Frames
      BY DEF DataInv, FramesOK
    <3> QED BY <3>1 DEF Frames
  <2>3. files \in Nat
    <3>1. stack \in Seq(Frames)
      BY DEF DataInv, FramesOK
    <3>2. Len(stack) \in Nat
      BY <3>1
    <3> QED BY <3>2 DEF DataInv, CountsOK
  <2> QED BY <2>1, <2>2, <2>3 DEF TypeOK, DataInv, TextOK, CountsOK, FramePcs
<1> QED BY <1>1, StackAlways, DataAlways, PTL

-----------------------------------------------------------------------------
(***************************************************************************)
(* In a tree at rest the entries still to be looked at are there, so that  *)
(* only a change makes a lookup fail with ENOENT.                          *)
(***************************************************************************)
NamesIn == [d \in DirNodes |-> {Dot, DotDot} \cup {name[x] : x \in Children(d)}]
KnownFrame(N, f) == \A i \in DOMAIN f.pending : f.pending[i].name \in N[f.fp]
KnownInv ==
  changes = 0 =>
    /\ \A k \in 1 .. Len(stack) : KnownFrame(NamesIn, stack[k])
    /\ pc = "report" => frame.entry \in NamesIn[fp]

LEMMA StepsKeepTree ==
  ASSUME SysStep \/ DirectoryStep
  PROVE  UNCHANGED treeVars
  BY SysPlaces, DirectoryPlaces

LEMMA NamesStay ==
  ASSUME UNCHANGED treeVars
  PROVE  NamesIn' = NamesIn
  BY DEF treeVars, NamesIn, Children

LEMMA DueIsKnown ==
  ASSUME NEW d \in DirNodes, NEW pos, NEW e \in DueEntries(d, pos)
  PROVE  e.name \in NamesIn[d]
<1>1. PICK x \in DueIds(d, pos) : e = EntryOf(x)
  BY DEF DueEntries
<1>2. e.name = EntryName(x) /\ x \in Int /\ (x = -1 \/ x = 0 \/ x \in Children(d))
  BY <1>1, SearchAssumption DEF EntryOf, DueIds
<1>3. x \in Children(d) => x > 0
  BY SearchAssumption DEF Children, Nodes
<1> QED BY <1>2, <1>3 DEF EntryName, NamesIn

LEMMA SysKnown ==
  ASSUME StackInv, KnownInv, SysStep
  PROVE  KnownInv'
<1>1. UNCHANGED treeVars /\ changes' = changes
  BY StepsKeepTree DEF treeVars
<1>2. UNCHANGED stack /\ pc' # "report"
  BY SysPlaces DEF FramePcs
<1>3. NamesIn' = NamesIn
  BY <1>1, NamesStay
<1> QED BY <1>1, <1>2, <1>3 DEF KnownInv, KnownFrame

LEMMA DirectoryKnown ==
  ASSUME TreeInv, StackInv, DataInv, KnownInv, DirectoryStep
  PROVE  KnownInv'
<1> DEFINE N == NamesIn
<1>1. UNCHANGED treeVars /\ changes' = changes
  BY StepsKeepTree DEF treeVars
<1>2. NamesIn' = N
  BY <1>1, NamesStay
<1> SUFFICES ASSUME changes = 0
             PROVE  /\ \A k \in 1 .. Len(stack') : KnownFrame(N, stack'[k])
                    /\ pc' = "report" => frame'.entry \in N[fp']
  BY <1>1, <1>2 DEF KnownInv
<1> HIDE DEF N
<1>3. (\A k \in 1 .. Len(stack) : KnownFrame(N, stack[k])) /\ stack \in Seq(Frames)
  BY DEF KnownInv, N, DataInv, FramesOK
<1>4. CASE UNCHANGED stack /\ pc' # "report"
  BY <1>3, <1>4
<1>5. ASSUME stack # <<>>, stack' = SubSeq(stack, 1, Len(stack) - 1), pc' = "back"
      PROVE  (\A k \in 1 .. Len(stack') : KnownFrame(N, stack'[k])) /\ pc' # "report"
  <2> DEFINE n == Len(stack) - 1
  <2>1. n \in Nat /\ \A i \in 1 .. n : stack[i] \in Frames
    BY <1>3, <1>5
  <2> HIDE DEF n
  <2>2. Len(stack') = n /\ \A i \in 1 .. n : stack'[i] = stack[i]
    <3>1. stack' = SubSeq(stack, 1, n)
      BY <1>5 DEF n
    <3>2. /\ Len(SubSeq(stack, 1, n)) = IF 1 <= n THEN n - 1 + 1 ELSE 0
          /\ \A i \in 1 .. n - 1 + 1 : SubSeq(stack, 1, n)[i] = stack[1 + i - 1]
      BY <2>1, SubSeqProperties
    <3>3. \A i \in 1 .. n : i \in 1 .. n - 1 + 1 /\ 1 + i - 1 = i
      BY <2>1
    <3> QED BY <2>1, <3>1, <3>2, <3>3
  <2>3. \A i \in 1 .. n : i \in 1 .. Len(stack)
    BY <1>3 DEF n
  <2> QED BY <1>3, <1>5, <2>2, <2>3
<1>6. ASSUME NEW f \in Frames, stack # <<>>, stack' = With(f), KnownFrame(N, f),
             pc' = "report" => f.entry \in N[f.fp]
      PROVE  /\ \A k \in 1 .. Len(stack') : KnownFrame(N, stack'[k])
             /\ pc' = "report" => frame'.entry \in N[fp']
  <2>1. /\ Len(stack') = Len(stack) /\ stack'[Len(stack)] = f
        /\ \A k \in 1 .. Len(stack) - 1 : stack'[k] = stack[k]
    BY <1>3, <1>6, WithFrame DEF With
  <2>2. frame' = f /\ fp' = f.fp
    BY <2>1 DEF frame, fp
  <2>3. ASSUME NEW k \in 1 .. Len(stack') PROVE KnownFrame(N, stack'[k])
    <3>1. CASE k = Len(stack)
      BY <1>6, <2>1, <3>1
    <3>2. CASE k # Len(stack)
      <4>1. k \in 1 .. Len(stack) - 1 /\ k \in 1 .. Len(stack)
        BY <1>3, <2>1, <3>2
      <4> QED BY <1>3, <2>1, <4>1
    <3> QED BY <3>1, <3>2
  <2> QED BY <1>6, <2>2, <2>3
<1>7. CASE Open
  <2> DEFINE f == [fp |-> OpenDir(path), dir |-> 0, pos |-> -2, pending |-> <<>>,
                   entry |-> <<>>, type |-> "o", how |-> Match!FAILURE]
  <2>1. stack' = Append(stack, f) /\ pc' = "abspath" /\ f \in {f}
    BY <1>7 DEF Open
  <2>2. KnownFrame(N, f)
    BY DEF KnownFrame
  <2> HIDE DEF f
  <2>3. stack \in Seq(Frames \cup {f}) /\ f \in Frames \cup {f}
    BY <1>3
  <2>4. /\ Len(stack') = Len(stack) + 1 /\ stack'[Len(stack) + 1] = f
        /\ \A i \in 1 .. Len(stack) : stack'[i] = stack[i]
    BY <2>1, <2>3, AppendProperties
  <2>5. Len(stack) \in Nat
    BY <1>3
  <2> QED BY <1>3, <2>1, <2>2, <2>4, <2>5
<1>8. CASE Readdir
  <2>0. pc = "readdir" /\ stack # <<>>
    BY <1>8, ReaddirDelivers
  <2>1. CASE UNCHANGED stack /\ pc' = "close"
    BY <1>4, <2>1
  <2>2. ASSUME NEW batch \in Seq(DueEntries(fp, frame.pos)), LastId(batch) \in Int, pc' = "walk",
               stack' = With([frame EXCEPT !.pos = LastId(batch), !.pending = batch, !.dir = Len(path)])
        PROVE  /\ \A k \in 1 .. Len(stack') : KnownFrame(N, stack'[k])
               /\ pc' = "report" => frame'.entry \in N[fp']
    <3> DEFINE f == [frame EXCEPT !.pos = LastId(batch), !.pending = batch, !.dir = Len(path)]
    <3>1. batch \in Seq(Entries)
      BY DueEntriesTyped
    <3>2. Len(path) \in Nat
      BY DEF DataInv, TextOK
    <3>3. f \in Frames /\ f.fp = fp /\ f.pending = batch
      BY <2>0, <2>2, <3>1, <3>2, TopFrame DEF Frames
    <3> HIDE DEF f
    <3>4. ASSUME NEW i \in DOMAIN batch PROVE batch[i].name \in N[fp]
      <4>1. batch[i] \in DueEntries(fp, frame.pos) /\ fp \in DirNodes
        BY <2>0, TopFrame
      <4> QED BY <4>1, DueIsKnown DEF N
    <3>5. KnownFrame(N, f)
      BY <3>3, <3>4 DEF KnownFrame
    <3>6. stack' = With(f)
      BY <2>2 DEF f
    <3> QED BY <1>6, <2>0, <2>2, <3>3, <3>5, <3>6
  <2> QED BY <1>8, <2>1, <2>2, ReaddirDelivers
<1>9. CASE NextEntry
  <2> DEFINE q == frame.pending
             e == Head(q)
  <2>1. stack # <<>> /\ q # <<>> /\ q \in Seq(Entries) /\ e \in Entries
    BY <1>9, NextEntryTakes
  <2>2. PICK how \in Hows :
          stack' = With([frame EXCEPT !.pending = Tail(q), !.entry = e.name, !.type = e.type, !.how = how])
    BY <1>9, NextEntryTakes
  <2> DEFINE f == [frame EXCEPT !.pending = Tail(q), !.entry = e.name, !.type = e.type, !.how = how]
  <2>3. Tail(q) \in Seq(Entries) /\ e.name \in Comps /\ e.type \in {"d", "o"}
    BY <2>1, HeadTailProperties DEF Entries
  <2>4. f \in Frames /\ f.entry = e.name /\ f.fp = fp /\ f.pending = Tail(q)
    <3> HIDE DEF e, q
    <3> QED BY <2>1, <2>3, TopFrame DEF Frames
  <2>5. stack' = With(f)
    BY <2>2
  <2> HIDE DEF f
  <2>6. ASSUME NEW i \in 1 .. Len(q) PROVE q[i].name \in N[fp]
    <3>1. KnownFrame(N, frame) /\ fp = frame.fp
      BY <1>3, <2>1, TopFrame DEF frame
    <3>2. i \in DOMAIN q
      BY <2>1
    <3> QED BY <3>1, <3>2 DEF KnownFrame
  <2> HIDE DEF q
  <2>7. e.name \in N[fp]
    <3>1. e = q[1] /\ 1 \in 1 .. Len(q)
      BY <2>1
    <3> QED BY <2>6, <3>1
  <2>8. KnownFrame(N, f)
    <3>1. ASSUME NEW i \in DOMAIN Tail(q) PROVE Tail(q)[i].name \in N[fp]
      <4>1. Len(Tail(q)) = Len(q) - 1 /\ DOMAIN Tail(q) = 1 .. Len(Tail(q)) /\ Len(q) \in Nat
            /\ \A j \in 1 .. Len(Tail(q)) : Tail(q)[j] = q[j + 1]
        BY <2>1, <2>3, HeadTailProperties
      <4>2. i \in 1 .. Len(Tail(q)) /\ i + 1 \in 1 .. Len(q)
        BY <3>1, <4>1
      <4> QED BY <2>6, <4>1, <4>2
    <3> QED BY <2>4, <3>1 DEF KnownFrame
  <2> QED BY <1>6, <2>1, <2>4, <2>5, <2>7, <2>8
<1>10. CASE Close
  <2>1. stack # <<>>
    BY <1>10 DEF Close, StackInv, Framed, FramePcs
  <2> QED BY <1>5, <1>10, <2>1 DEF Close
<1>11. ASSUME NEW n \in Answers, Driver(n)
       PROVE  (\A k \in 1 .. Len(stack') : KnownFrame(N, stack'[k])) /\ pc' # "report"
  <2>1. stack # <<>>
    BY <1>11 DEF Driver, StackInv, Framed, FramePcs
  <2>2. CASE pc' = "back"
    BY <1>5, <1>11, <2>1, <2>2 DEF Driver
  <2>3. CASE pc' # "back"
    <3>1. UNCHANGED stack /\ pc' = "close"
      BY <1>11, <2>3 DEF Driver
    <3> QED BY <1>3, <3>1
  <2> QED BY <2>2, <2>3
<1>12. OpenSkipped \/ OpenFails \/ abspath \/ EndWalk \/ DirectoryFails \/ Report \/ ReportFails \/ Descend \/ BackInDirectory
       => UNCHANGED stack /\ pc' # "report"
  BY DEF OpenSkipped, OpenFails, abspath, EndWalk, DirectoryFails, Report, ReportFails, Descend, BackInDirectory
<1> QED BY <1>4, <1>7, <1>8, <1>9, <1>10, <1>11, <1>12 DEF DirectoryStep

LEMMA KnownAlways == Spec => []KnownInv
<1>1. Init => KnownInv
  BY DEF Init, KnownInv
<1>2. TreeInv /\ StackInv /\ DataInv /\ KnownInv /\ [Next]_vars => KnownInv'
  <2> SUFFICES ASSUME TreeInv, StackInv, DataInv, KnownInv, [Next]_vars PROVE KnownInv' OBVIOUS
  <2>1. CASE Others
    <3>1. changes' # 0
      BY <2>1 DEF Others, Change, TreeInv
    <3> QED BY <3>1 DEF KnownInv
  <2>2. CASE UNCHANGED vars
    <3>1. UNCHANGED <<treeVars, changes, stack, pc>>
      BY <2>2 DEF vars, treeVars
    <3>2. NamesIn' = NamesIn
      BY <3>1, NamesStay
    <3> QED BY <3>1, <3>2 DEF KnownInv, frame, fp
  <2> QED BY <2>1, <2>2, SysKnown, DirectoryKnown DEF Next
<1> QED BY <1>1, <1>2, TreeAlways, StackAlways, DataAlways, PTL DEF Spec

LEMMA KnownIsFound ==
  ASSUME TreeInv, NEW d \in DirNodes, NEW c \in Comps, c \in NamesIn[d]
  PROVE  Lookup(d, c) # -ENOENT
<1>1. d \in Nodes /\ parent[d] \in Nodes
  BY NodesFacts, TreeTyped DEF TreeInv
<1>2. Lookup(d, c) = Step(d, d, c)
  BY <1>1, LookupName DEF Comps
<1>3. \A x \in Nodes : x # -ENOENT
  BY NodesFacts, Errors DEF ErrorNumbers
<1>4. -ENOTDIR # -ENOENT /\ -EACCES # -ENOENT
  BY Errors DEF ErrorNumbers
<1>5. CASE c \in {Dot, DotDot}
  BY <1>1, <1>2, <1>3, <1>4, <1>5 DEF Step
<1>6. CASE \E x \in Children(d) : name[x] = c
  <2>1. (CHOOSE x \in Children(d) : name[x] = c) \in Nodes
    BY <1>6 DEF Children
  <2> QED BY <1>1, <1>2, <1>3, <1>4, <1>6, <2>1 DEF Step
<1> QED BY <1>5, <1>6 DEF NamesIn

\* As long as no other process changes the tree, the call does not fail with
\* ENOENT, whatever paths it is given other than the empty string: what
\* readdir delivered is still there when it is looked up, a path that does
\* not exist is skipped, and a native search has one error, ERANGE.
THEOREM MissingSkipped == Spec => []MissingIsSkipped
<1>1. Init => MissingIsSkipped
  BY Errors DEF Init, MissingIsSkipped, ErrorNumbers
<1>2. TreeInv /\ StackInv /\ DataInv /\ KnownInv /\ MissingIsSkipped /\ [Next]_vars => MissingIsSkipped'
  <2> SUFFICES ASSUME TreeInv, StackInv, DataInv, KnownInv, MissingIsSkipped, [Next]_vars,
                      status' = -ENOENT, ~ EmptyPaths'
               PROVE  changes' > 0
    BY DEF MissingIsSkipped
  <2>a. ~ EmptyPaths
    BY SysPlaces, DirectoryPlaces DEF EmptyPaths, argVars, Next, Others, vars
  <2>0. changes \in Nat /\ ErrorNumbers /\ results \in Int
    BY Errors DEF TreeInv, DataInv, CountsOK
  <2>1. CASE Others
    BY <2>0, <2>1 DEF Others, Change
  <2>2. CASE UNCHANGED <<status, changes>>
    BY <2>a, <2>2 DEF MissingIsSkipped
  <2>3. CASE SysStep
    <3>1. UNCHANGED changes
      BY <2>3, StepsKeepTree DEF treeVars
    <3>2. AllocDs \/ GetPaths \/ GetPattern \/ AllocDirs => UNCHANGED status
      BY <2>0, <2>a DEF AllocDs, GetPaths, GetPattern, AllocDirs, Acquire, Exit, ErrorNumbers
    <3>3. StripSlashes \/ Split \/ NextPath \/ BackInSearch \/ Unwind => UNCHANGED status
      BY DEF StripSlashes, Split, NextPath, BackInSearch, Unwind, Exit
    <3>4. KernPath => UNCHANGED status
      BY <2>0 DEF KernPath, Exit
    <3>5. Psearch => UNCHANGED status
      BY <2>0 DEF Psearch, Exit, ErrorNumbers
    <3>6. ~ Finish
      <4> SUFFICES ASSUME Finish PROVE FALSE OBVIOUS
      <4>1. results >= 0
        BY DEF Finish, DataInv, CountsOK, StackInv, Failing
      <4> QED BY <2>0, <4>1 DEF Finish, Exit, ErrorNumbers
    <3> QED BY <2>2, <2>3, <3>1, <3>2, <3>3, <3>4, <3>5, <3>6 DEF SysStep
  <2>4. CASE DirectoryStep
    <3>1. UNCHANGED changes
      BY <2>4, StepsKeepTree DEF treeVars
    <3>2. OpenSkipped \/ Open => FALSE
      BY <2>0 DEF OpenSkipped, Open, ErrorNumbers
    <3>3. OpenFails => FALSE
      BY <2>0 DEF OpenFails, Skipped, ErrorNumbers
    <3>4. abspath \/ Readdir \/ NextEntry \/ EndWalk \/ Report \/ Descend \/ BackInDirectory \/ Close => UNCHANGED status
      BY DEF abspath, Readdir, NextEntry, EndWalk, Report, Descend, BackInDirectory, Close
    <3>5. ASSUME NEW n \in Answers, Driver(n) PROVE UNCHANGED status
      BY <2>0, <3>5 DEF Driver, ErrorNumbers
    <3>6. DirectoryFails => changes # 0
      BY <2>0 DEF DirectoryFails, ErrorNumbers, TreeInv
    <3>7. ReportFails => changes # 0
      <4> SUFFICES ASSUME ReportFails, changes = 0 PROVE FALSE OBVIOUS
      <4>1. pc = "report" /\ stack # <<>>
        BY DEF ReportFails, StackInv, Framed, FramePcs
      <4>2. fp \in DirNodes /\ frame.entry \in Comps /\ frame.entry \in NamesIn[fp]
        BY <4>1, TopFrame DEF DataInv, EntryOK, KnownInv
      <4>3. Lookup(fp, frame.entry) # -ENOENT
        BY <4>2, KnownIsFound
      <4> QED BY <2>0, <4>3 DEF ReportFails, ErrorNumbers
    <3> QED BY <2>0, <2>2, <2>4, <3>1, <3>2, <3>3, <3>4, <3>5, <3>6, <3>7 DEF DirectoryStep
  <2>5. UNCHANGED vars => UNCHANGED <<status, changes>>
    BY DEF vars, treeVars
  <2> QED BY <2>1, <2>2, <2>3, <2>4, <2>5 DEF Next
<1> QED BY <1>1, <1>2, TreeAlways, StackAlways, DataAlways, KnownAlways, PTL DEF Spec

-----------------------------------------------------------------------------
(***************************************************************************)
(* In a tree at rest ds->path follows the stack of frames: the path of an  *)
(* inner directory begins with that of the outer one, so that cutting      *)
(* ds->path at ds->dirs[n].dir gives the outer one back.                   *)
(***************************************************************************)
Starts(s, t) == Len(s) <= Len(t) /\ \A i \in 1 .. Len(s) : s[i] = t[i]
Abs == [d \in Nodes |-> AbsPath(d)]

CutPcs == {"walk", "report", "descend", "open", "back"}

Nested  == \A k \in 1 .. Len(stack) - 1 : Starts(Abs[stack[k].fp], Abs[stack[k + 1].fp])
CutsAt  == \A k \in 1 .. Len(stack) :
             k < Len(stack) \/ pc \in CutPcs => stack[k].dir = Len(Abs[stack[k].fp])
AtDir   == pc \in {"driver", "readdir", "walk"} => path = Abs[fp]
AtEntry == pc \in {"report", "descend"} \/ (pc = "open" /\ stack # <<>>) =>
             path = Abs[fp] \o Slash \o frame.entry
ToOpen  == pc = "open" /\ stack # <<>> => frame.entry \in Comps \ {Dot, DotDot}
Inside  == pc \in FramePcs /\ Len(stack) >= 2 => Starts(Abs[stack[Len(stack) - 1].fp], path)
BackIn  == pc = "back" /\ stack # <<>> => Starts(Abs[fp], path)
NoBase  == (pc = "open" /\ stack = <<>>) \/ (pc = "abspath" /\ Len(stack) = 1) => base = 0
HasBase == stack # <<>> /\ status = 0 /\ ~ (pc = "abspath" /\ Len(stack) = 1) =>
             base = Len(Abs[stack[1].fp])

PathFacts == Nested /\ CutsAt /\ AtDir /\ AtEntry /\ ToOpen /\ Inside /\ BackIn /\ NoBase /\ HasBase
PathInv == changes = 0 => PathFacts

LEMMA StartsJoined ==
  ASSUME NEW s \in Seq(Char), NEW t \in Seq(Char), Starts(s, t), NEW c \in Seq(Char)
  PROVE  Starts(s, t \o Slash \o c)
<1>1. /\ Len(t \o Slash \o c) = Len(t) + 1 + Len(c)
      /\ \A i \in 1 .. Len(t) : (t \o Slash \o c)[i] = t[i]
  BY Joined
<1> DEFINE u == t \o Slash \o c
<1>2. Len(u) = Len(t) + 1 + Len(c) /\ \A i \in 1 .. Len(t) : u[i] = t[i]
  BY <1>1
<1> HIDE DEF u
<1>3. Len(s) \in Nat /\ Len(t) \in Nat /\ Len(c) \in Nat OBVIOUS
<1>4. Starts(s, u)
  BY <1>2, <1>3 DEF Starts
<1> QED BY <1>4 DEF u

LEMMA StartsItself ==
  ASSUME NEW s \in Seq(Char)
  PROVE  Starts(s, s)
  BY DEF Starts

LEMMA StartsTrans ==
  ASSUME NEW s \in Seq(Char), NEW t \in Seq(Char), NEW u \in Seq(Char), Starts(s, t), Starts(t, u)
  PROVE  Starts(s, u)
<1>1. Len(s) \in Nat /\ Len(t) \in Nat /\ Len(u) \in Nat OBVIOUS
<1> QED BY <1>1 DEF Starts

LEMMA CutGivesStart ==
  ASSUME NEW s \in Seq(Char), NEW t \in Seq(Char), Starts(s, t)
  PROVE  (IF Len(s) < Len(t) THEN SubSeq(t, 1, Len(s)) ELSE t) = s
<1>0. Len(s) \in Nat /\ Len(t) \in Nat /\ Len(s) <= Len(t) /\ \A i \in 1 .. Len(s) : s[i] = t[i]
  BY DEF Starts
<1>1. CASE Len(s) < Len(t)
  <2> DEFINE u == SubSeq(t, 1, Len(s))
  <2>1. 1 \in Int /\ Len(s) \in Int /\ \A i \in 1 .. Len(s) : t[i] \in Char
    BY <1>0, <1>1
  <2>2. /\ u \in Seq(Char) /\ Len(u) = (IF 1 <= Len(s) THEN Len(s) - 1 + 1 ELSE 0)
        /\ \A i \in 1 .. Len(s) - 1 + 1 : u[i] = t[1 + i - 1]
    BY <2>1, SubSeqProperties
  <2> HIDE DEF u
  <2>3. Len(u) = Len(s)
    BY <1>0, <2>2
  <2>4. ASSUME NEW i \in 1 .. Len(u) PROVE u[i] = s[i]
    <3>1. i \in 1 .. Len(s) /\ i \in 1 .. Len(s) - 1 + 1 /\ 1 + i - 1 = i
      BY <1>0, <2>3
    <3>2. u[i] = t[i]
      BY <2>2, <3>1
    <3> QED BY <1>0, <3>1, <3>2
  <2>5. u = s
    BY <2>2, <2>3, <2>4, SeqEqual
  <2> QED BY <1>1, <2>5 DEF u
<1>2. CASE ~ (Len(s) < Len(t))
  <2>1. Len(s) = Len(t)
    BY <1>0, <1>2
  <2>2. s = t
    BY <1>0, <2>1, SeqEqual
  <2> QED BY <1>2, <2>2
<1> QED BY <1>1, <1>2

\* What a step of a lookup below the root finds has the component's name.
LEMMA StepDown ==
  ASSUME TreeInv, NEW q \in Nodes, NEW c, c \notin {Dot, DotDot}, Step(Root, q, c) \in Nodes
  PROVE  LET r == Step(Root, q, c) IN r \in Nodes \ {Root} /\ parent[r] = q /\ name[r] = c
<1>1. -ENOTDIR \notin Nodes /\ -EACCES \notin Nodes /\ -ENOENT \notin Nodes
  BY NodesFacts, Errors DEF ErrorNumbers
<1>2. (\E x \in Children(q) : name[x] = c) /\ Step(Root, q, c) = CHOOSE x \in Children(q) : name[x] = c
  BY <1>1 DEF Step
<1>3. Step(Root, q, c) \in Children(q) /\ name[Step(Root, q, c)] = c
  BY <1>2
<1> QED BY <1>3 DEF Children

LEMMA ExtendDown ==
  ASSUME TreeInv, NEW s \in Seq(Char), NEW c \in Comps, c \notin {Dot, DotDot},
         Lookup(Root, s \o Slash \o c) \in Nodes
  PROVE  LET q == Lookup(Root, s)
             r == Lookup(Root, s \o Slash \o c)
         IN  q \in Nodes /\ r \in Nodes \ {Root} /\ parent[r] = q /\ Paths[r] = Paths[q] \o Slash \o c
<1> DEFINE q == Lookup(Root, s)
           r == Lookup(Root, s \o Slash \o c)
<1>1. q \in Nodes \cup LookupErrors /\ Root \in Nodes
  BY LookupTyped, NodesFacts
<1>2. r = IF q < 0 THEN q ELSE Step(Root, q, c)
  BY <1>1, LookupExtend DEF Comps
<1>3. ~ (q < 0) /\ q \in Nodes
  BY <1>1, <1>2, ErrorsNegative
<1>4. r \in Nodes \ {Root} /\ parent[r] = q /\ name[r] = c
  <2>1. r = Step(Root, q, c)
    BY <1>2, <1>3
  <2> HIDE DEF q
  <2> QED BY <1>3, <2>1, StepDown
<1> HIDE DEF q, r
<1>5. Paths[r] = Paths[q] \o Slash \o c
  BY <1>4, PathsUnfold
<1> QED BY <1>3, <1>4, <1>5 DEF q, r

\* The absolute path of a directory leads to a node with that path.
LEMMA LookupOfPath ==
  ASSUME TreeInv, NEW d \in Nodes, Lookup(Root, AbsPath(d)) \in Nodes
  PROVE  Paths[Lookup(Root, AbsPath(d))] = Paths[d]
<1> DEFINE G == {x \in Nodes : Lookup(Root, Paths[x]) \in Nodes => Paths[Lookup(Root, Paths[x])] = Paths[x]}
<1>1. Root \in G
  BY PathsUnfold, LookupTop, NodesFacts
<1>2. ASSUME NEW y \in Nodes \ {Root}, parent[y] \in G PROVE y \in G
  <2> SUFFICES ASSUME Lookup(Root, Paths[y]) \in Nodes PROVE Paths[Lookup(Root, Paths[y])] = Paths[y]
    OBVIOUS
  <2> DEFINE s == Paths[parent[y]]
             c == name[y]
  <2>1. s \in Seq(Char) /\ Paths[y] = s \o Slash \o c /\ parent[y] \in Nodes
    BY PathsUnfold, TreeTyped DEF TreeInv
  <2>2. c \in Comps /\ c \notin {Dot, DotDot}
    BY NamesAreComponents DEF TreeInv, IsName
  <2>3. Lookup(Root, s) \in Nodes => Paths[Lookup(Root, s)] = s
    BY <1>2
  <2> HIDE DEF s, c
  <2>4. Lookup(Root, s \o Slash \o c) \in Nodes
    BY <2>1
  <2>5. Lookup(Root, s) \in Nodes /\ Paths[Lookup(Root, s \o Slash \o c)] = Paths[Lookup(Root, s)] \o Slash \o c
    BY <2>1, <2>2, <2>4, ExtendDown
  <2> QED BY <2>1, <2>3, <2>5
<1>3. Nodes \subseteq G
  <2>1. IsTree(parent)
    BY DEF TreeInv
  <2> HIDE DEF G
  <2> QED BY <1>1, <1>2, <2>1, TreeDown
<1>4. CASE d = Root
  BY <1>4, PathsUnfold, LookupTop
<1>5. CASE d # Root
  <2>1. AbsPath(d) = Paths[d]
    BY <1>5, PathsUnfold
  <2> QED BY <1>3, <2>1
<1> QED BY <1>4, <1>5

\* Opening an entry of a directory by its path opens something below it.
LEMMA OpenBelow ==
  ASSUME TreeInv, NEW d \in Nodes, NEW c \in Comps, c \notin {Dot, DotDot},
         Lookup(Root, AbsPath(d) \o Slash \o c) \in Nodes
  PROVE  Starts(AbsPath(d), AbsPath(Lookup(Root, AbsPath(d) \o Slash \o c)))
<1> DEFINE s == AbsPath(d)
           q == Lookup(Root, s)
           r == Lookup(Root, s \o Slash \o c)
<1>1. s \in Seq(Char)
  BY AbsPathType
<1>2. q \in Nodes /\ r \in Nodes \ {Root} /\ Paths[r] = Paths[q] \o Slash \o c
  <2> HIDE DEF s
  <2>1. Lookup(Root, s \o Slash \o c) \in Nodes
    BY DEF s
  <2> QED BY <1>1, <2>1, ExtendDown
<1>3. Paths[q] = Paths[d]
  BY <1>2, LookupOfPath
<1>4. AbsPath(r) = Paths[d] \o Slash \o c
  <2> HIDE DEF r
  <2>1. AbsPath(r) = Paths[r]
    BY <1>2, PathsUnfold
  <2> QED BY <1>2, <1>3, <2>1
<1>5. c \in Seq(Char) /\ Paths[d] \in Seq(Char)
  BY PathsUnfold DEF Comps
<1>6. CASE d # Root
  <2>1. s = Paths[d]
    BY <1>6, PathsUnfold
  <2>2. Starts(s, s \o Slash \o c)
    <3> HIDE DEF s
    <3> QED BY <1>1, <1>5, StartsItself, StartsJoined
  <2> QED BY <1>4, <2>1, <2>2
<1>7. CASE d = Root
  <2>1. s = Slash /\ Paths[d] = <<>>
    BY <1>7, PathsUnfold
  <2>2. /\ (<<>> \o Slash \o c)[Len(<<>>) + 1] = "/" /\ Len(<<>> \o Slash \o c) = Len(<<>>) + 1 + Len(c)
    BY <1>5, Separators, Joined
  <2>3. Len(<<>>) = 0 /\ Len(c) \in Nat /\ Len(Slash) = 1 /\ Slash[1] = "/"
    BY <1>5, Separators
  <2> DEFINE t == <<>> \o Slash \o c
  <2>4. t[1] = "/" /\ Len(t) = 1 + Len(c)
    BY <2>2, <2>3
  <2> HIDE DEF t
  <2>5. Starts(Slash, t)
    BY <2>3, <2>4 DEF Starts
  <2> QED BY <1>4, <2>1, <2>5 DEF t
<1> QED BY <1>6, <1>7

LEMMA AbsStay ==
  ASSUME UNCHANGED treeVars
  PROVE  Abs' = Abs
  BY DEF treeVars, Abs, AbsPath

LEMMA AbsTyped ==
  ASSUME TreeInv, NEW d \in Nodes
  PROVE  Abs[d] = AbsPath(d) /\ Abs[d] \in Seq(Char) /\ Len(Abs[d]) \in Nat /\ Len(Abs[d]) > 0
<1>1. Abs[d] = AbsPath(d)
  BY DEF Abs
<1> QED BY <1>1, AbsPathType

LEMMA FrameTyped ==
  ASSUME DataInv, NEW k \in 1 .. Len(stack)
  PROVE  stack[k] \in Frames /\ stack[k].fp \in DirNodes /\ stack[k].fp \in Nodes /\ stack[k].dir \in Nat
<1>1. stack[k] \in Frames
  BY DEF DataInv, FramesOK
<1> QED BY <1>1, NodesFacts DEF Frames

\* Outside search_directory there is no frame, and NextPath clears ds->base.
LEMMA SysPath ==
  ASSUME StackInv, SysStep
  PROVE  PathFacts'
<1>1. stack = <<>> /\ UNCHANGED stack
  BY SysPlaces DEF SysStep, AllocDs, GetPaths, GetPattern, AllocDirs, Acquire, StripSlashes, Split, NextPath,
         KernPath, Psearch, BackInSearch, Finish, Unwind, StackInv, Framed, TopPcs, LoopPcs
<1>2. pc' \notin FramePcs /\ (pc' = "open" => base' = 0)
  BY SysPlaces
<1>3. stack' = <<>> /\ Len(stack') = 0
  BY <1>1
<1>4. Nested' /\ CutsAt'
  BY <1>3 DEF Nested, CutsAt
<1>5. AtDir' /\ AtEntry' /\ ToOpen' /\ Inside' /\ BackIn'
  BY <1>2, <1>3 DEF AtDir, AtEntry, ToOpen, Inside, BackIn, FramePcs
<1>6. NoBase' /\ HasBase'
  BY <1>2, <1>3 DEF NoBase, HasBase, FramePcs
<1> QED BY <1>4, <1>5, <1>6 DEF PathFacts

\* What a step that keeps the frames keeps.
LEMMA SameFrames ==
  ASSUME PathFacts, UNCHANGED treeVars, UNCHANGED stack
  PROVE  /\ Nested' /\ Abs' = Abs /\ fp' = fp /\ frame' = frame
         /\ (pc' \in CutPcs => pc \in CutPcs) => CutsAt'
<1>1. Abs' = Abs
  BY AbsStay
<1>2. fp' = fp /\ frame' = frame
  BY DEF fp, frame
<1>3. Nested'
  BY <1>1 DEF PathFacts, Nested
<1>4. (pc' \in CutPcs => pc \in CutPcs) => CutsAt'
  BY <1>1 DEF PathFacts, CutsAt
<1> QED BY <1>1, <1>2, <1>3, <1>4

\* What cutting ds->path leaves.
LEMMA RestoredIs ==
  ASSUME TreeInv, StackInv, DataInv, PathFacts, stack # <<>>, pc \in CutPcs, Starts(Abs[fp], path)
  PROVE  Restored = Abs[fp]
<1>1. Len(stack) \in 1 .. Len(stack) /\ fp \in Nodes /\ frame = stack[Len(stack)] /\ fp = frame.fp
  BY TopFrame DEF frame
<1>2. frame.dir = Len(Abs[fp])
  BY <1>1 DEF PathFacts, CutsAt
<1>3. Abs[fp] \in Seq(Char) /\ path \in Seq(Char)
  BY <1>1, AbsTyped DEF DataInv, TextOK
<1> DEFINE s == Abs[fp]
<1>4. frame.dir = Len(s) /\ s \in Seq(Char) /\ Starts(s, path)
  BY <1>2, <1>3
<1> HIDE DEF s
<1>5. Restored = s
  BY <1>3, <1>4, CutGivesStart DEF Restored
<1> QED BY <1>5 DEF s

\* The outer directory's path begins that of the inner one.
LEMMA OuterStarts ==
  ASSUME TreeInv, StackInv, DataInv, PathFacts, Len(stack) >= 2
  PROVE  /\ Starts(Abs[stack[Len(stack) - 1].fp], Abs[fp])
         /\ Abs[stack[Len(stack) - 1].fp] \in Seq(Char) /\ Abs[fp] \in Seq(Char)
<1>1. stack # <<>> /\ Len(stack) \in Nat
  BY DEF DataInv, FramesOK
<1>2. Len(stack) - 1 \in 1 .. Len(stack) - 1 /\ Len(stack) - 1 \in 1 .. Len(stack) /\ Len(stack) - 1 + 1 = Len(stack)
  BY <1>1
<1>3. Starts(Abs[stack[Len(stack) - 1].fp], Abs[stack[Len(stack)].fp])
  BY <1>2 DEF PathFacts, Nested
<1>4. fp \in Nodes /\ stack[Len(stack) - 1].fp \in Nodes
  BY <1>1, <1>2, TopFrame, FrameTyped
<1> QED BY <1>3, <1>4, AbsTyped DEF fp

\* The steps that leave the frames as they are.
LEMMA InPlacePath ==
  ASSUME TreeInv, StackInv, DataInv, PathFacts, UNCHANGED treeVars,
         OpenSkipped \/ OpenFails \/ abspath \/ DirectoryFails \/ EndWalk \/ Report \/ ReportFails
         \/ Descend \/ BackInDirectory
  PROVE  PathFacts'
<1> DEFINE P == Abs
           n == Len(stack)
<1>1. UNCHANGED stack
  BY DEF OpenSkipped, OpenFails, abspath, DirectoryFails, EndWalk, Report, ReportFails, Descend, BackInDirectory
<1>2. Nested' /\ Abs' = P /\ fp' = fp /\ frame' = frame /\ ((pc' \in CutPcs => pc \in CutPcs) => CutsAt')
  BY <1>1, SameFrames
<1>3. CutsAt'
  BY <1>2 DEF OpenSkipped, OpenFails, abspath, DirectoryFails, EndWalk, Report, ReportFails, Descend,
              BackInDirectory, CutPcs
<1>4. /\ path \in Seq(Char) /\ base \in Nat /\ n \in Nat /\ (stack # <<>> <=> n >= 1)
  BY DEF DataInv, TextOK, FramesOK
<1>5. stack # <<>> => fp \in Nodes /\ P[fp] \in Seq(Char) /\ Len(P[fp]) \in Nat /\ Len(P[fp]) > 0
  BY TopFrame, AbsTyped
<1>6. n >= 2 => /\ Starts(P[stack[n - 1].fp], P[fp])
                /\ P[stack[n - 1].fp] \in Seq(Char) /\ P[fp] \in Seq(Char)
  BY OuterStarts
<1>7. /\ pc \in {"driver", "readdir", "walk"} => path = P[fp]
      /\ pc \in {"report", "descend"} \/ (pc = "open" /\ stack # <<>>) => path = P[fp] \o Slash \o frame.entry
      /\ pc \in FramePcs /\ n >= 2 => Starts(P[stack[n - 1].fp], path)
      /\ pc = "back" /\ stack # <<>> => Starts(P[fp], path)
      /\ pc = "abspath" /\ n = 1 => base = 0
      /\ stack # <<>> /\ status = 0 /\ ~ (pc = "abspath" /\ n = 1) => base = Len(P[stack[1].fp])
  BY DEF PathFacts, AtDir, AtEntry, Inside, BackIn, NoBase, HasBase
<1>8. status # 0 => pc \in {"back", "close", "unwind", "returned"}
  BY DEF StackInv, Failing
<1>9. pc \in FramePcs => stack # <<>>
  BY DEF StackInv, Framed
<1>10. stack # <<>> => frame.entry \in Seq(Char)
  <2> SUFFICES ASSUME stack # <<>> PROVE frame.entry \in Seq(Char) OBVIOUS
  <2>1. frame.entry \in Comps \cup {<<>>}
    BY TopFrame DEF Frames
  <2>2. <<>> \in Seq(Char) OBVIOUS
  <2> QED BY <2>1, <2>2 DEF Comps
<1>11. stack # <<>> /\ pc \in {"report", "descend", "open"} => Starts(P[fp], path)
  BY <1>5, <1>7, <1>10, StartsItself, StartsJoined
<1>12. pc = "open" => NoBase' /\ HasBase'
  <2>1. pc = "open" => UNCHANGED base /\ pc' = "back"
    BY DEF OpenSkipped, OpenFails, abspath, DirectoryFails, EndWalk, Report, ReportFails, Descend, BackInDirectory
  <2> QED BY <1>1, <1>2, <1>7, <1>8, <2>1 DEF NoBase, HasBase
<1>13. pc = "abspath" => NoBase' /\ HasBase'
  <2> SUFFICES ASSUME pc = "abspath" PROVE NoBase' /\ HasBase' OBVIOUS
  <2>1. CASE abspath
    <3>1. pc' \in {"driver", "readdir"} /\ base' = IF base = 0 THEN Len(AbsPath(fp)) ELSE base
      BY <2>1 DEF abspath
    <3>2. stack # <<>> /\ AbsPath(fp) = P[fp]
      BY <1>9, TopFrame, AbsTyped DEF FramePcs
    <3>3. CASE n = 1
      BY <1>1, <1>2, <1>7, <3>1, <3>2, <3>3 DEF NoBase, HasBase, fp
    <3>4. CASE n # 1
      <4>1. n >= 2 /\ 1 \in 1 .. n
        <5> HIDE DEF n
        <5> QED BY <1>4, <3>2, <3>4
      <4>2. base = Len(P[stack[1].fp]) /\ base > 0
        <5>1. base = Len(P[stack[1].fp])
          BY <1>7, <1>8, <3>2, <3>4
        <5>2. stack[1].fp \in Nodes
          BY <4>1, FrameTyped
        <5> QED BY <5>1, <5>2, AbsTyped
      <4> QED BY <1>1, <1>2, <3>1, <4>2 DEF NoBase, HasBase
    <3> QED BY <3>3, <3>4
  <2>2. CASE ~ abspath
    <3>1. pc' = "close" /\ status' = -ENAMETOOLONG
      BY <2>2 DEF OpenSkipped, OpenFails, DirectoryFails, EndWalk, Report, ReportFails, Descend, BackInDirectory
    <3>2. status' # 0
      BY <3>1 DEF ENAMETOOLONG
    <3> QED BY <3>1, <3>2 DEF NoBase, HasBase
  <2> QED BY <2>1, <2>2
<1>14. pc \notin {"open", "abspath"} => NoBase' /\ HasBase'
  <2> SUFFICES ASSUME pc \notin {"open", "abspath"} PROVE NoBase' /\ HasBase' OBVIOUS
  <2>1. UNCHANGED base /\ pc' # "abspath" /\ stack # <<>>
    BY <1>9 DEF OpenSkipped, OpenFails, abspath, DirectoryFails, EndWalk, Report, ReportFails, Descend,
                BackInDirectory, FramePcs
  <2>2. pc # "back" \/ UNCHANGED status
    BY DEF OpenSkipped, OpenFails, abspath, DirectoryFails, EndWalk, Report, ReportFails, Descend, BackInDirectory
  <2>3. status' = 0 => status = 0
    <3>1. pc \notin {"close", "unwind", "returned"}
      BY DEF OpenSkipped, OpenFails, abspath, DirectoryFails, EndWalk, Report, ReportFails, Descend, BackInDirectory
    <3> QED BY <1>8, <2>2, <3>1
  <2> QED BY <1>1, <1>2, <1>7, <2>1, <2>3 DEF NoBase, HasBase
<1> HIDE DEF P, n
<1>15. AtDir' /\ AtEntry' /\ ToOpen' /\ Inside' /\ BackIn'
  <2>1. CASE OpenSkipped \/ OpenFails
    <3>1. pc = "open" /\ pc' = "back" /\ UNCHANGED path
      BY <2>1 DEF OpenSkipped, OpenFails
    <3> QED BY <1>1, <1>2, <1>11, <3>1 DEF AtDir, AtEntry, ToOpen, Inside, BackIn, FramePcs
  <2>2. CASE abspath
    <3>1. pc = "abspath" /\ pc' \in {"driver", "readdir"} /\ path' = AbsPath(fp)
      BY <2>2 DEF abspath
    <3>2. stack # <<>> /\ AbsPath(fp) = P[fp]
      BY <1>9, <3>1, TopFrame, AbsTyped DEF FramePcs, P
    <3>3. AtDir' /\ AtEntry' /\ ToOpen' /\ BackIn'
      BY <1>2, <3>1, <3>2 DEF AtDir, AtEntry, ToOpen, BackIn
    <3>4. Inside'
      BY <1>1, <1>2, <1>6, <3>1, <3>2 DEF Inside, n
    <3> QED BY <3>3, <3>4
  <2>3. CASE DirectoryFails \/ ReportFails
    <3>1. pc' = "close" /\ pc \in FramePcs /\ UNCHANGED path
      BY <2>3 DEF DirectoryFails, ReportFails, FramePcs
    <3> QED BY <1>1, <1>2, <1>7, <3>1 DEF AtDir, AtEntry, ToOpen, Inside, BackIn, n
  <2>4. CASE EndWalk
    <3>1. pc' = "readdir" /\ pc = "walk" /\ UNCHANGED path
      BY <2>4 DEF EndWalk
    <3> QED BY <1>1, <1>2, <1>7, <3>1 DEF AtDir, AtEntry, ToOpen, Inside, BackIn, FramePcs, n
  <2>5. CASE Report
    <3>1. pc' \in {"close", "descend"} /\ pc = "report" /\ UNCHANGED path
      BY <2>5 DEF Report
    <3> QED BY <1>1, <1>2, <1>7, <3>1 DEF AtDir, AtEntry, ToOpen, Inside, BackIn, FramePcs, n
  <2>6. ASSUME pc \in CutPcs, stack # <<>>, Starts(P[fp], path), pc' = "walk", path' = Restored
        PROVE  AtDir' /\ AtEntry' /\ ToOpen' /\ Inside' /\ BackIn'
    <3>1. path' = P[fp]
      BY <2>6, RestoredIs DEF P
    <3> QED BY <1>1, <1>2, <1>6, <2>6, <3>1 DEF AtDir, AtEntry, ToOpen, Inside, BackIn, n
  <2>7. CASE Descend
    <3>1. pc = "descend" /\ stack # <<>>
      BY <1>9, <2>7 DEF Descend, FramePcs
    <3>2. CASE Descends
      <4>1. pc' = "open" /\ UNCHANGED path
        BY <2>7, <3>2 DEF Descend
      <4>2. frame.entry \in Comps \ {Dot, DotDot}
        BY <3>1, <3>2 DEF Descends, DataInv, EntryOK
      <4> QED BY <1>1, <1>2, <1>7, <3>1, <4>1, <4>2 DEF AtDir, AtEntry, ToOpen, Inside, BackIn, FramePcs
    <3>3. CASE ~ Descends
      BY <1>11, <2>6, <2>7, <3>1, <3>3 DEF Descend, CutPcs
    <3> QED BY <3>2, <3>3
  <2>8. CASE BackInDirectory
    <3>1. pc = "back" /\ stack # <<>> /\ Starts(P[fp], path)
      BY <1>7, <2>8 DEF BackInDirectory
    <3>2. CASE status # 0 \/ FoundEnough
      <4>1. pc' = "close" /\ UNCHANGED path
        BY <2>8, <3>2 DEF BackInDirectory
      <4>2. n >= 2 => Starts(P[stack[n - 1].fp], path)
        BY <1>4, <1>6, <3>1, StartsTrans
      <4> QED BY <1>1, <1>2, <4>1, <4>2 DEF AtDir, AtEntry, ToOpen, Inside, BackIn, n
    <3>3. CASE ~ (status # 0 \/ FoundEnough)
      BY <2>6, <2>8, <3>1, <3>3 DEF BackInDirectory, CutPcs
    <3> QED BY <3>2, <3>3
  <2> QED BY <2>1, <2>2, <2>3, <2>4, <2>5, <2>7, <2>8
<1> QED BY <1>2, <1>3, <1>12, <1>13, <1>14, <1>15 DEF PathFacts

\* Returning from a directory: the outer ones are as they were.
LEMMA PopPath ==
  ASSUME TreeInv, StackInv, DataInv, PathFacts, UNCHANGED treeVars, stack # <<>>, pc \in FramePcs,
         stack' = SubSeq(stack, 1, Len(stack) - 1), pc' = "back", path' = path, base' = base,
         (pc = "close" /\ status' = status) \/ status' # 0
  PROVE  PathFacts'
<1> DEFINE P == Abs
           n == Len(stack)
           m == n - 1
<1>1. stack \in Seq(Frames) /\ n \in Nat /\ n >= 1 /\ m \in Nat /\ m < n /\ n = m + 1
  BY TopFrame
<1>2. Abs' = P
  BY AbsStay
<1>3. Len(stack') = m /\ \A i \in 1 .. m : stack'[i] = stack[i]
  <2>0. \A i \in 1 .. m : stack[i] \in Frames
    BY <1>1
  <2> HIDE DEF m
  <2>1. /\ Len(SubSeq(stack, 1, m)) = IF 1 <= m THEN m - 1 + 1 ELSE 0
        /\ \A i \in 1 .. m - 1 + 1 : SubSeq(stack, 1, m)[i] = stack[1 + i - 1]
    BY <1>1, <2>0, SubSeqProperties
  <2>2. \A i \in 1 .. m : i \in 1 .. m - 1 + 1 /\ 1 + i - 1 = i
    BY <1>1
  <2>3. stack' = SubSeq(stack, 1, m)
    BY DEF m
  <2> QED BY <1>1, <2>1, <2>2, <2>3
<1>4. /\ \A k \in 1 .. n - 1 : Starts(P[stack[k].fp], P[stack[k + 1].fp])
      /\ \A k \in 1 .. n : k < n => stack[k].dir = Len(P[stack[k].fp])
      /\ n >= 2 => Starts(P[stack[n - 1].fp], path)
      /\ pc = "close" /\ status = 0 => base = Len(P[stack[1].fp])
  BY DEF PathFacts, Nested, CutsAt, Inside, HasBase
<1>5. n - 1 = m OBVIOUS
<1> HIDE DEF P, n, m
<1>6. Nested'
  <2>1. ASSUME NEW k \in 1 .. m - 1 PROVE Starts(P[stack'[k].fp], P[stack'[k + 1].fp])
    <3>1. k \in 1 .. m /\ k + 1 \in 1 .. m
      BY <1>1
    <3>2. k \in 1 .. n - 1
      BY <1>1, <3>1
    <3> QED BY <1>3, <1>4, <3>1, <3>2
  <2> QED BY <1>2, <1>3, <2>1 DEF Nested
<1>7. CutsAt'
  <2>1. ASSUME NEW k \in 1 .. m PROVE stack'[k].dir = Len(P[stack'[k].fp])
    <3>1. k \in 1 .. n /\ k < n
      BY <1>1
    <3> QED BY <1>3, <1>4, <3>1
  <2> QED BY <1>2, <1>3, <2>1 DEF CutsAt
<1>8. BackIn'
  <2> SUFFICES ASSUME stack' # <<>> PROVE Starts(P[fp'], path)
    BY <1>2 DEF BackIn
  <2>1. stack' \in Seq(Frames)
    BY <1>1, Pop DEF n
  <2>2. m >= 1
    BY <1>1, <1>3, <2>1
  <2>3. n >= 2 /\ m \in 1 .. m
    BY <1>1, <2>2
  <2>4. fp' = stack[m].fp
    BY <1>3, <2>3 DEF fp
  <2> QED BY <1>4, <1>5, <2>3, <2>4
<1>9. HasBase'
  <2> SUFFICES ASSUME stack' # <<>>, status' = 0 PROVE base = Len(P[stack'[1].fp])
    BY <1>2 DEF HasBase
  <2>1. stack' \in Seq(Frames)
    BY <1>1, Pop DEF n
  <2>2. m >= 1
    BY <1>1, <1>3, <2>1
  <2>3. stack'[1] = stack[1]
    BY <1>1, <1>3, <2>2
  <2> QED BY <1>4, <2>3
<1>10. AtDir' /\ AtEntry' /\ ToOpen' /\ Inside' /\ NoBase'
  BY DEF AtDir, AtEntry, ToOpen, Inside, NoBase, FramePcs
<1> QED BY <1>6, <1>7, <1>8, <1>9, <1>10 DEF PathFacts

\* A new top frame for the same directory, with its path at ds->dirs[n].dir.
LEMMA WithPath ==
  ASSUME TreeInv, StackInv, DataInv, PathFacts, UNCHANGED treeVars, stack # <<>>, pc \in FramePcs \ {"abspath"},
         NEW f \in Frames, f.fp = fp, f.dir = Len(Abs[fp]), stack' = With(f), base' = base, status' = status,
         pc' \in {"walk", "report", "descend"},
         pc' = "walk" => path' = Abs[fp],
         pc' # "walk" => path' = Abs[fp] \o Slash \o f.entry,
         Starts(Abs[fp], path')
  PROVE  PathFacts'
<1> DEFINE P == Abs
           n == Len(stack)
<1>1. stack \in Seq(Frames) /\ n \in Nat /\ n >= 1
  BY TopFrame
<1>2. Abs' = P
  BY AbsStay
<1>3. /\ Len(stack') = n /\ stack'[n] = f /\ \A k \in 1 .. n - 1 : stack'[k] = stack[k]
  BY <1>1, WithFrame DEF With
<1>4. frame' = f /\ fp' = f.fp
  BY <1>3 DEF frame, fp
<1>5. /\ \A k \in 1 .. n - 1 : Starts(P[stack[k].fp], P[stack[k + 1].fp])
      /\ \A k \in 1 .. n : k < n => stack[k].dir = Len(P[stack[k].fp])
      /\ status = 0 => base = Len(P[stack[1].fp])
  BY DEF PathFacts, Nested, CutsAt, HasBase
<1>6. fp = stack[n].fp /\ f.fp = stack[n].fp /\ f.dir = Len(P[stack[n].fp])
  BY DEF fp
<1>7. n >= 2 => Starts(P[stack[n - 1].fp], path')
  <2> SUFFICES ASSUME n >= 2 PROVE Starts(P[stack[n - 1].fp], path') OBVIOUS
  <2>1. Starts(P[stack[n - 1].fp], P[fp]) /\ P[stack[n - 1].fp] \in Seq(Char) /\ P[fp] \in Seq(Char)
    BY OuterStarts
  <2>2. path' \in Seq(Char)
    <3>1. f.entry \in Seq(Char)
      <4>1. f.entry \in Comps \cup {<<>>}
        BY DEF Frames
      <4>2. <<>> \in Seq(Char) OBVIOUS
      <4> QED BY <4>1, <4>2 DEF Comps
    <3>2. P[fp] \o Slash \o f.entry \in Seq(Char)
      BY <2>1, <3>1, Joined
    <3> QED BY <2>1, <3>2
  <2> QED BY <2>1, <2>2, StartsTrans
<1>8. Starts(P[fp], path') /\ (pc' = "walk" => path' = P[fp]) /\ (pc' # "walk" => path' = P[fp] \o Slash \o f.entry)
  OBVIOUS
<1> HIDE DEF P, n
<1>9. \A k \in 1 .. n : stack'[k].fp = stack[k].fp
  BY <1>1, <1>3, <1>6
<1>10. Nested'
  <2>1. ASSUME NEW k \in 1 .. n - 1 PROVE Starts(P[stack'[k].fp], P[stack'[k + 1].fp])
    <3>1. k \in 1 .. n /\ k + 1 \in 1 .. n
      BY <1>1
    <3> QED BY <1>5, <1>9, <3>1
  <2> QED BY <1>2, <1>3, <2>1 DEF Nested
<1>11. CutsAt'
  <2>1. ASSUME NEW k \in 1 .. n PROVE stack'[k].dir = Len(P[stack'[k].fp])
    <3>1. CASE k = n
      BY <1>3, <1>6, <3>1
    <3>2. CASE k # n
      <4>1. k \in 1 .. n - 1 /\ k < n
        BY <1>1, <3>2
      <4> QED BY <1>3, <1>5, <4>1
    <3> QED BY <3>1, <3>2
  <2> QED BY <1>2, <1>3, <2>1 DEF CutsAt
<1>12. AtDir' /\ AtEntry' /\ ToOpen' /\ BackIn'
  BY <1>2, <1>4, <1>8 DEF AtDir, AtEntry, ToOpen, BackIn
<1>13. Inside'
  <2> SUFFICES ASSUME n >= 2 PROVE Starts(P[stack'[n - 1].fp], path')
    BY <1>2, <1>3 DEF Inside
  <2>1. n - 1 \in 1 .. n - 1
    BY <1>1
  <2> QED BY <1>3, <1>7, <2>1
<1>14. NoBase' /\ HasBase'
  <2>1. 1 \in 1 .. n
    BY <1>1
  <2>2. stack'[1].fp = stack[1].fp
    BY <1>9, <2>1
  <2> QED BY <1>2, <1>5, <2>2 DEF NoBase, HasBase
<1> QED BY <1>10, <1>11, <1>12, <1>13, <1>14 DEF PathFacts

\* Opening an entry of the directory of the top frame.
LEMMA OpenPath ==
  ASSUME TreeInv, StackInv, DataInv, PathFacts, UNCHANGED treeVars, Open
  PROVE  PathFacts'
<1> DEFINE P == Abs
           n == Len(stack)
           r == OpenDir(path)
           f == [fp |-> r, dir |-> 0, pos |-> -2, pending |-> <<>>,
                 entry |-> <<>>, type |-> "o", how |-> Match!FAILURE]
<1>1. /\ pc = "open" /\ pc' = "abspath" /\ stack' = Append(stack, f) /\ path' = path /\ base' = base
      /\ r \in DirNodes /\ status' = 0 /\ status = 0
  BY DEF Open, StackInv, Failing
<1>2. Abs' = P
  BY AbsStay
<1>3. f.fp = r OBVIOUS
<1>4. r \in Nodes /\ r = Lookup(Root, path)
  <2>1. r \in Nodes /\ ~ (r < 0)
    <3> HIDE DEF r
    <3> QED BY <1>1, NodesFacts
  <2>2. -ENOTDIR \notin Nodes /\ -EACCES \notin Nodes
    BY NodesFacts, Errors DEF ErrorNumbers
  <2> QED BY <2>1, <2>2 DEF OpenDir
<1> HIDE DEF f
<1>5. stack \in Seq(Frames) /\ n \in Nat
  BY DEF DataInv, FramesOK
<1>6. /\ Len(stack') = n + 1 /\ stack'[n + 1] = f /\ \A i \in 1 .. n : stack'[i] = stack[i]
  <2>1. stack \in Seq(Frames \cup {f}) /\ f \in Frames \cup {f}
    BY <1>5
  <2> QED BY <1>1, <2>1, AppendProperties
<1>7. /\ \A k \in 1 .. n - 1 : Starts(P[stack[k].fp], P[stack[k + 1].fp])
      /\ \A k \in 1 .. n : stack[k].dir = Len(P[stack[k].fp])
      /\ stack = <<>> => base = 0
      /\ stack # <<>> => /\ base = Len(P[stack[1].fp])
                         /\ path = P[fp] \o Slash \o frame.entry
                         /\ frame.entry \in Comps \ {Dot, DotDot}
  BY <1>1 DEF PathFacts, Nested, CutsAt, NoBase, HasBase, AtEntry, ToOpen, CutPcs
<1>8. n >= 1 => Starts(P[stack[n].fp], path) /\ Starts(P[stack[n].fp], P[r])
  <2> SUFFICES ASSUME n >= 1 PROVE Starts(P[stack[n].fp], path) /\ Starts(P[stack[n].fp], P[r]) OBVIOUS
  <2>1. stack # <<>>
    BY <1>5
  <2> DEFINE s == AbsPath(fp)
             c == frame.entry
  <2>2. fp \in Nodes /\ P[fp] = s /\ s \in Seq(Char) /\ P[r] = AbsPath(r) /\ fp = stack[n].fp
    BY <1>4, <2>1, TopFrame, AbsTyped DEF fp
  <2>3. c \in Comps /\ c \notin {Dot, DotDot} /\ path = s \o Slash \o c /\ c \in Seq(Char)
    BY <1>7, <2>1, <2>2 DEF Comps
  <2>4. Starts(s, AbsPath(r))
    <3> HIDE DEF c
    <3>1. Lookup(Root, s \o Slash \o c) \in Nodes
      BY <1>4, <2>3
    <3> QED BY <1>4, <2>2, <2>3, <3>1, OpenBelow
  <2> HIDE DEF s, c
  <2>5. Starts(s, path)
    BY <2>2, <2>3, StartsItself, StartsJoined
  <2> QED BY <2>2, <2>4, <2>5
<1>9. stack = <<>> <=> n = 0
  BY <1>5
<1> HIDE DEF P, n, r
<1>10. Nested'
  <2>1. ASSUME NEW k \in 1 .. n PROVE Starts(P[stack'[k].fp], P[stack'[k + 1].fp])
    <3>1. CASE k = n
      BY <1>3, <1>5, <1>6, <1>8, <3>1
    <3>2. CASE k # n
      <4>1. k \in 1 .. n - 1 /\ k + 1 \in 1 .. n
        BY <1>5, <3>2
      <4> QED BY <1>6, <1>7, <4>1
    <3> QED BY <3>1, <3>2
  <2>2. Len(stack') - 1 = n
    BY <1>5, <1>6
  <2> QED BY <1>2, <2>1, <2>2 DEF Nested
<1>11. CutsAt'
  <2>1. pc' \notin CutPcs /\ \A k \in 1 .. n + 1 : k < n + 1 => k \in 1 .. n
    BY <1>1, <1>5 DEF CutPcs
  <2> QED BY <1>2, <1>6, <1>7, <2>1 DEF CutsAt
<1>12. Inside'
  <2>0. Len(stack') - 1 = n /\ (Len(stack') >= 2 => n >= 1)
    BY <1>5, <1>6
  <2> SUFFICES ASSUME n >= 1 PROVE Starts(P[stack'[n].fp], path)
    BY <1>1, <1>2, <2>0 DEF Inside
  <2>1. n \in 1 .. n
    BY <1>5
  <2> QED BY <1>6, <1>8, <2>1
<1>13. AtDir' /\ AtEntry' /\ ToOpen' /\ BackIn'
  BY <1>1 DEF AtDir, AtEntry, ToOpen, BackIn
<1>14. NoBase'
  BY <1>1, <1>5, <1>6, <1>7, <1>9 DEF NoBase
<1>15. HasBase'
  <2> SUFFICES ASSUME n + 1 # 1 PROVE base = Len(P[stack'[1].fp])
    BY <1>1, <1>2, <1>6 DEF HasBase
  <2>1. 1 \in 1 .. n /\ n # 0
    BY <1>5
  <2> QED BY <1>6, <1>7, <1>9, <2>1
<1> QED BY <1>10, <1>11, <1>12, <1>13, <1>14, <1>15 DEF PathFacts

LEMMA DirectoryPath ==
  ASSUME TreeInv, StackInv, DataInv, PathFacts, DirectoryStep
  PROVE  PathFacts'
<1>1. UNCHANGED treeVars
  BY StepsKeepTree
<1>2. CASE OpenSkipped \/ OpenFails \/ abspath \/ DirectoryFails \/ EndWalk \/ Report \/ ReportFails
           \/ Descend \/ BackInDirectory
  BY <1>1, <1>2, InPlacePath
<1>3. CASE Open
  BY <1>1, <1>3, OpenPath
<1>4. ASSUME pc \in {"driver", "readdir"}, pc' = "close", UNCHANGED <<stack, path, base, status>>
      PROVE  PathFacts'
  <2>1. Nested' /\ Abs' = Abs /\ CutsAt'
    BY <1>1, <1>4, SameFrames DEF CutPcs
  <2>2. Inside'
    BY <1>4, <2>1 DEF PathFacts, Inside, FramePcs
  <2>3. AtDir' /\ AtEntry' /\ ToOpen' /\ BackIn'
    BY <1>4 DEF AtDir, AtEntry, ToOpen, BackIn
  <2>4. NoBase' /\ HasBase'
    BY <1>4, <2>1 DEF PathFacts, NoBase, HasBase
  <2> QED BY <2>1, <2>2, <2>3, <2>4 DEF PathFacts
<1>5. ASSUME NEW n \in Answers, Driver(n) PROVE PathFacts'
  <2>1. pc = "driver" /\ pc \in FramePcs /\ stack # <<>> /\ path' = path /\ base' = base
    BY <1>5 DEF Driver, StackInv, Framed, FramePcs
  <2>2. CASE pc' = "back"
    <3>1. status' # 0 /\ pc' = "back" /\ stack' = SubSeq(stack, 1, Len(stack) - 1)
      BY <1>5, <2>2 DEF Driver, ERANGE
    <3> QED BY <1>1, <2>1, <3>1, PopPath
  <2>3. CASE pc' # "back"
    BY <1>4, <1>5, <2>1, <2>3 DEF Driver
  <2> QED BY <2>2, <2>3
<1>6. CASE Close
  <2>1. /\ pc = "close" /\ pc \in FramePcs /\ stack # <<>> /\ path' = path /\ base' = base /\ status' = status
        /\ pc' = "back" /\ stack' = SubSeq(stack, 1, Len(stack) - 1)
    BY <1>6 DEF Close, StackInv, Framed, FramePcs
  <2> QED BY <1>1, <2>1, PopPath
<1>7. CASE Readdir
  <2>0. pc = "readdir" /\ pc \in FramePcs \ {"abspath"} /\ stack # <<>> /\ UNCHANGED <<path, base, status>>
    BY <1>7, ReaddirDelivers DEF Readdir, FramePcs
  <2>1. CASE UNCHANGED stack /\ pc' = "close"
    BY <1>4, <2>0, <2>1
  <2>2. ASSUME NEW batch \in Seq(DueEntries(fp, frame.pos)), LastId(batch) \in Int, pc' = "walk",
               stack' = With([frame EXCEPT !.pos = LastId(batch), !.pending = batch, !.dir = Len(path)])
        PROVE  PathFacts'
    <3> DEFINE f == [frame EXCEPT !.pos = LastId(batch), !.pending = batch, !.dir = Len(path)]
    <3>1. batch \in Seq(Entries)
      BY DueEntriesTyped
    <3>2. Len(path) \in Nat /\ path = Abs[fp] /\ fp \in Nodes
      BY <2>0, TopFrame DEF DataInv, TextOK, PathFacts, AtDir
    <3>3. f \in Frames /\ f.fp = fp /\ f.dir = Len(path)
      BY <2>0, <2>2, <3>1, <3>2, TopFrame DEF Frames
    <3>4. stack' = With(f)
      BY <2>2
    <3> HIDE DEF f
    <3>5. Starts(Abs[fp], path') /\ path' = Abs[fp]
      BY <2>0, <3>2, AbsTyped, StartsItself
    <3> QED BY <1>1, <2>0, <2>2, <3>2, <3>3, <3>4, <3>5, WithPath
  <2> QED BY <1>7, <2>1, <2>2, ReaddirDelivers
<1>8. CASE NextEntry
  <2> DEFINE e == Head(frame.pending)
  <2>1. /\ pc = "walk" /\ stack # <<>> /\ frame.pending # <<>> /\ frame.pending \in Seq(Entries) /\ e \in Entries
        /\ path' = path \o Slash \o e.name /\ pc' \in {"report", "descend"}
    BY <1>8, NextEntryTakes
  <2>2. PICK how \in Hows :
          stack' = With([frame EXCEPT !.pending = Tail(frame.pending), !.entry = e.name,
                                      !.type = e.type, !.how = how])
    BY <1>8, NextEntryTakes
  <2> DEFINE f == [frame EXCEPT !.pending = Tail(frame.pending), !.entry = e.name, !.type = e.type, !.how = how]
  <2>3. Tail(frame.pending) \in Seq(Entries) /\ e.name \in Comps /\ e.type \in {"d", "o"}
    BY <2>1, HeadTailProperties DEF Entries
  <2> HIDE DEF e
  <2>4. f \in Frames /\ f.entry = e.name /\ f.fp = fp /\ f.dir = frame.dir
    BY <2>1, <2>3, TopFrame DEF Frames
  <2>5. stack' = With(f)
    BY <2>2
  <2> HIDE DEF f
  <2>6. frame.dir = Len(Abs[fp]) /\ path = Abs[fp] /\ fp \in Nodes
    <3>1. Len(stack) \in 1 .. Len(stack) /\ fp \in Nodes
      BY <2>1, TopFrame
    <3> QED BY <2>1, <3>1 DEF PathFacts, AtDir, CutsAt, CutPcs, frame, fp
  <2>7. UNCHANGED <<base, status>>
    BY <1>8 DEF NextEntry
  <2>8. e.name \in Seq(Char) /\ Abs[fp] \in Seq(Char)
    BY <2>3, <2>6, AbsTyped DEF Comps
  <2>9. Starts(Abs[fp], path') /\ path' = Abs[fp] \o Slash \o f.entry
    BY <2>1, <2>4, <2>6, <2>8, StartsItself, StartsJoined
  <2>10. pc \in FramePcs \ {"abspath"} /\ pc' \in {"walk", "report", "descend"} /\ pc' # "walk"
    BY <2>1 DEF FramePcs
  <2>11. f.dir = Len(Abs[fp])
    BY <2>4, <2>6
  <2> QED BY <1>1, <2>1, <2>4, <2>5, <2>7, <2>9, <2>10, <2>11, WithPath
<1> QED BY <1>2, <1>3, <1>5, <1>6, <1>7, <1>8 DEF DirectoryStep

LEMMA PathAlways == Spec => []PathInv
<1>1. Init => PathInv
  <2> SUFFICES ASSUME Init PROVE PathFacts
    BY DEF PathInv
  <2>1. pc = "enter" /\ stack = <<>> /\ Len(stack) = 0
    BY DEF Init
  <2> QED BY <2>1 DEF PathFacts, Nested, CutsAt, AtDir, AtEntry, ToOpen, Inside, BackIn, NoBase, HasBase, FramePcs
<1>2. TreeInv /\ StackInv /\ DataInv /\ PathInv /\ [Next]_vars => PathInv'
  <2> SUFFICES ASSUME TreeInv, StackInv, DataInv, PathInv, [Next]_vars PROVE PathInv' OBVIOUS
  <2>1. CASE Others
    <3>1. changes' # 0
      BY <2>1 DEF Others, Change, TreeInv
    <3> QED BY <3>1 DEF PathInv
  <2>2. CASE SysStep \/ DirectoryStep
    <3>1. changes' = changes
      BY <2>2, StepsKeepTree DEF treeVars
    <3> QED BY <2>2, <3>1, SysPath, DirectoryPath DEF PathInv
  <2>3. CASE UNCHANGED vars
    <3>1. UNCHANGED <<treeVars, changes, stack, pc, path, base, status>>
      BY <2>3 DEF vars, treeVars
    <3>2. Abs' = Abs
      BY <3>1, AbsStay
    <3>3. UNCHANGED <<fp, frame>>
      BY <3>1 DEF fp, frame
    <3> SUFFICES ASSUME PathFacts PROVE PathFacts'
      BY <3>1 DEF PathInv
    <3>4. Nested' /\ CutsAt' /\ AtDir' /\ AtEntry' /\ ToOpen'
      BY <3>1, <3>2, <3>3 DEF PathFacts, Nested, CutsAt, AtDir, AtEntry, ToOpen
    <3>5. Inside' /\ BackIn' /\ NoBase' /\ HasBase'
      BY <3>1, <3>2, <3>3 DEF PathFacts, Inside, BackIn, NoBase, HasBase
    <3> QED BY <3>4, <3>5 DEF PathFacts
  <2> QED BY <2>1, <2>2, <2>3 DEF Next
<1> QED BY <1>1, <1>2, TreeAlways, StackAlways, DataAlways, PTL DEF Spec

\* As long as no other process changes the tree, ds->path is the canonical
\* path of the directory that is read and the entry that is looked at, and
\* ds->base the end of the top directory: after any number of descents and
\* returns, at any depth, for every tree.
THEOREM PathFollows == Spec => []PathTracks
<1>1. TreeInv /\ StackInv /\ DataInv /\ PathInv => PathTracks
  <2> SUFFICES ASSUME TreeInv, StackInv, DataInv, PathFacts, pc \in {"report", "descend"}
               PROVE  path = AbsPath(fp) \o Slash \o frame.entry /\ base = Len(AbsPath(stack[1].fp))
    BY DEF PathTracks, PathInv
  <2>1. stack # <<>> /\ status = 0
    BY DEF StackInv, Framed, FramePcs, Failing
  <2>2. fp \in Nodes /\ 1 \in 1 .. Len(stack)
    BY <2>1, TopFrame
  <2>3. AbsPath(fp) = Abs[fp] /\ AbsPath(stack[1].fp) = Abs[stack[1].fp]
    BY <2>2, FrameTyped, AbsTyped
  <2> QED BY <2>1, <2>3 DEF PathFacts, AtEntry, HasBase
<1> QED BY <1>1, TreeAlways, StackAlways, DataAlways, PathAlways, PTL

-----------------------------------------------------------------------------
(***************************************************************************)
(* SEARCH_STOPATFIRST: after the first result only returns follow.         *)
(***************************************************************************)
EndPcs == {"close", "back", "finish", "unwind", "returned"}
OneInv ==
  STOPATFIRST =>
    \/ reported = <<>>
    \/ Len(reported) = 1 /\ results > 0 /\ pc \in EndPcs

LEMMA OneAlways == Spec => []OneInv
<1>1. Init => OneInv
  BY DEF Init, OneInv
<1>2. StackInv /\ DataInv /\ OneInv /\ [Next]_vars => OneInv'
  <2> SUFFICES ASSUME StackInv, DataInv, OneInv, [Next]_vars, STOPATFIRST' PROVE OneInv'
    BY DEF OneInv
  <2>0. STOPATFIRST /\ results \in Int /\ (status = 0 => results >= 0)
    BY ArgsStay DEF STOPATFIRST, DataInv, CountsOK, argVars
  <2>1. ASSUME pc \notin EndPcs, status = 0, NEW s, Copy(s), pc' \in EndPcs PROVE OneInv'
    <3>1. reported = <<>> /\ results' > 0
      BY <2>0, <2>1 DEF OneInv, Copy
    <3> DEFINE r == [top |-> Tops, path |-> path]
    <3>2. reported' = Append(<<>>, r)
      BY <2>1, <3>1 DEF Copy
    <3> HIDE DEF r
    <3>3. Len(Append(<<>>, r)) = 1 OBVIOUS
    <3> QED BY <2>1, <3>1, <3>2, <3>3 DEF OneInv
  <2>2. CASE UNCHANGED reported /\ (pc \in EndPcs => UNCHANGED results /\ pc' \in EndPcs)
    BY <2>0, <2>2 DEF OneInv
  <2>3. CASE SysStep
    <3>1. AllocDs \/ GetPaths \/ GetPattern \/ AllocDirs \/ StripSlashes \/ Split \/ NextPath \/ KernPath
          => UNCHANGED reported /\ pc \notin EndPcs
      BY DEF AllocDs, GetPaths, GetPattern, AllocDirs, Acquire, StripSlashes, Split, NextPath, KernPath, EndPcs
    <3>2. CASE Psearch
      <4>1. pc = "psearch" /\ pc \notin EndPcs /\ status = 0
        BY <3>2 DEF Psearch, EndPcs, StackInv, Failing
      <4>2. CASE UNCHANGED reported
        BY <2>2, <4>1, <4>2
      <4>3. CASE Copy(PsearchText) /\ pc' = "finish"
        BY <2>1, <4>1, <4>3 DEF EndPcs
      <4> QED BY <2>0, <3>2, <4>2, <4>3 DEF Psearch, CopyFails, GetattrFails
    <3>3. CASE BackInSearch
      <4>1. UNCHANGED <<reported, results>> /\ pc = "back"
        BY <3>3 DEF BackInSearch, bufVars
      <4>2. reported # <<>> => pc' \in EndPcs
        BY <2>0, <3>3 DEF BackInSearch, OneInv, FoundEnough, Exit, EndPcs
      <4> QED BY <2>2, <4>1, <4>2 DEF OneInv
    <3>4. Finish \/ Unwind => UNCHANGED reported /\ UNCHANGED results /\ pc' \in EndPcs
      BY DEF Finish, Unwind, Exit, EndPcs, bufVars
    <3> QED BY <2>2, <2>3, <3>1, <3>2, <3>3, <3>4 DEF SysStep
  <2>4. CASE DirectoryStep
    <3>1. OpenSkipped \/ OpenFails \/ Open \/ abspath \/ Readdir \/ DirectoryFails \/ NextEntry \/ EndWalk
          \/ ReportFails \/ Descend => UNCHANGED reported /\ pc \notin EndPcs
      BY DEF OpenSkipped, OpenFails, Open, abspath, Readdir, DirectoryFails, NextEntry, EndWalk, ReportFails,
             CopyFails, GetattrFails, Descend, EndPcs
    <3>2. ASSUME NEW n \in Answers, Driver(n) PROVE UNCHANGED reported /\ pc \notin EndPcs
      BY <3>2 DEF Driver, EndPcs
    <3>3. CASE Report
      <4>1. pc = "report" /\ pc \notin EndPcs /\ status = 0 /\ Copy(ReportText) /\ pc' = "close"
        BY <2>0, <3>3 DEF Report, EndPcs, StackInv, Failing
      <4> QED BY <2>1, <4>1 DEF EndPcs
    <3>4. CASE BackInDirectory
      <4>1. UNCHANGED <<reported, results>> /\ pc = "back"
        BY <3>4 DEF BackInDirectory, bufVars
      <4>2. reported # <<>> => pc' \in EndPcs
        BY <2>0, <3>4 DEF BackInDirectory, OneInv, FoundEnough, EndPcs
      <4> QED BY <2>2, <4>1, <4>2 DEF OneInv
    <3>5. Close => UNCHANGED reported /\ UNCHANGED results /\ pc' \in EndPcs
      BY DEF Close, EndPcs, bufVars
    <3> QED BY <2>2, <2>4, <3>1, <3>2, <3>3, <3>4, <3>5 DEF DirectoryStep
  <2>5. CASE Others \/ UNCHANGED vars
    <3>1. UNCHANGED <<reported, results, pc>>
      BY <2>5 DEF Others, vars, bufVars
    <3> QED BY <2>2, <3>1
  <2> QED BY <2>3, <2>4, <2>5 DEF Next
<1> QED BY <1>1, <1>2, StackAlways, DataAlways, PTL DEF Spec

\* A search that is to stop at the first result stores at most one record,
\* whatever directories are nested, whatever tops follow, whatever other
\* processes do and whatever fails.
THEOREM AtMostOneResult == Spec => []AtMostOne
<1>1. OneInv => AtMostOne
  <2>1. reported = <<>> => Len(reported) <= 1 OBVIOUS
  <2>2. Len(reported) = 1 => Len(reported) <= 1 OBVIOUS
  <2> QED BY <2>1, <2>2, Zenon DEF OneInv, AtMostOne
<1> QED BY <1>1, OneAlways, PTL

-----------------------------------------------------------------------------
(***************************************************************************)
(* The call uses the caller's buffer as ResultBuffer allows: each of its   *)
(* steps is one of the buffer's or leaves it alone.  The buffer sees a     *)
(* record that is longer than the caller's len as one of length BufLen+5.  *)
(***************************************************************************)
Phase == IF Ended /\ (label = "success" \/ status = 0) THEN "returned"
         ELSE IF status # 0 THEN "failed" ELSE "filling"
BufErrors == {1, -ENOENT, -EIO, -ENOMEM, -EACCES, -ENOTDIR, -ENFILE, -ENAMETOOLONG, -EFAULT}

EarlyPcs == {"enter", "getpaths", "getpattern", "setup", "split"}
RoomInv ==
  /\ left \in Int /\ left <= BufLen
  /\ pc \in EarlyPcs => nxt = 0 /\ results = 0
  /\ pc = "report" => Len(path) > 0
  /\ pc = "psearch" => base < Len(path)

LEMMA RecordLonger ==
  ASSUME NEW n \in Nat
  PROVE  n + 4 + (IF "METADATA" \in flags THEN StatLen ELSE 0) \in Nat
         /\ n + 4 + (IF "METADATA" \in flags THEN StatLen ELSE 0) >= n + 4
  BY SearchAssumption

\* The text of a record is not empty.
LEMMA TextsAreLong ==
  ASSUME StackInv, DataInv, RoomInv
  PROVE  /\ pc = "report" => RecordLen(ReportText) \in Nat /\ RecordLen(ReportText) >= 5
         /\ pc = "psearch" => RecordLen(PsearchText) \in Nat /\ RecordLen(PsearchText) >= 5
<1>1. path \in Seq(Char) /\ base \in Nat /\ Len(path) \in Nat
  BY DEF DataInv, TextOK
<1>2. ASSUME pc = "report" PROVE Len(ReportText) \in Nat /\ Len(ReportText) >= 1
  <2>1. frame.entry \in Comps /\ Len(path) > 0
    BY <1>2 DEF DataInv, EntryOK, RoomInv
  <2>2. frame.entry \in Seq(Char) /\ frame.entry # <<>>
    BY <2>1 DEF Comps, IsComponent
  <2>3. Len(frame.entry) \in Nat /\ Len(frame.entry) >= 1
    BY <2>2
  <2> QED BY <1>1, <2>1, <2>3 DEF ReportText
<1>3. ASSUME pc = "psearch" PROVE Len(PsearchText) \in Nat /\ Len(PsearchText) >= 1
  <2>1. base < Len(path)
    BY <1>3 DEF RoomInv
  <2>2. base + 1 \in Int /\ Len(path) \in Int /\ \A i \in base + 1 .. Len(path) : path[i] \in Char
    BY <1>1
  <2>3. Len(SubSeq(path, base + 1, Len(path))) = IF base + 1 <= Len(path) THEN Len(path) - (base + 1) + 1 ELSE 0
    BY <2>2, SubSeqProperties
  <2>4. Len(SubSeq(path, base + 1, Len(path))) = Len(path) - base
    BY <1>1, <2>1, <2>3
  <2> QED BY <1>1, <2>1, <2>4 DEF PsearchText
<1> HIDE DEF ReportText, PsearchText
<1> QED BY <1>2, <1>3, RecordLonger DEF RecordLen

LEMMA RoomStep ==
  ASSUME TreeInv, StackInv, DataInv, RoomInv, [Next]_vars
  PROVE  RoomInv'
<1> USE DEF RoomInv
<1>0. /\ left \in Int /\ left <= BufLen /\ BufLen \in Nat
      /\ path \in Seq(Char) /\ base \in Nat /\ Len(path) \in Nat
  BY SearchAssumption DEF DataInv, TextOK
<1>1. CASE Others \/ UNCHANGED vars
  BY <1>1 DEF Others, vars, bufVars
<1>2. CASE AllocDs \/ GetPaths \/ GetPattern \/ AllocDirs \/ StripSlashes \/ Split
  <2>1. UNCHANGED <<nxt, left, results>> /\ pc \in EarlyPcs /\ pc' \notin {"report", "psearch"}
    BY <1>2 DEF AllocDs, GetPaths, GetPattern, AllocDirs, Acquire, Exit, StripSlashes, Split, EarlyPcs, bufVars
  <2> QED BY <1>0, <2>1
<1>3. CASE NextPath \/ BackInSearch \/ Finish \/ Unwind
  <2>1. UNCHANGED <<nxt, left, results>> /\ pc' \notin EarlyPcs \cup {"report", "psearch"}
    BY <1>3 DEF NextPath, BackInSearch, Finish, Unwind, Exit, EarlyPcs, bufVars, Buf!terminate, Buf!terminate_uncopied
  <2> QED BY <1>0, <2>1
<1>4. CASE KernPath
  <2>1. UNCHANGED <<nxt, left, results>> /\ pc' \notin EarlyPcs \cup {"report"}
    BY <1>4 DEF KernPath, Exit, EarlyPcs, bufVars
  <2>2. ASSUME pc' = "psearch" PROVE base' < Len(path')
    <3>1. base' = Len(path) /\ path' = path \o Slash \o Literal
      BY <1>4, <2>2 DEF KernPath, Exit
    <3>2. Literal \in Seq(Char)
      <4>1. pattern \in Seq(Char) /\ shift \in Nat
        BY DEF DataInv, ArgsOK, TextOK
      <4>2. shift + 1 \in Int /\ Len(pattern) \in Int /\ \A i \in shift + 1 .. Len(pattern) : pattern[i] \in Char
        BY <4>1
      <4> QED BY <4>2, SubSeqProperties DEF Literal
    <3> DEFINE c == Literal
    <3>3. c \in Seq(Char) /\ path' = path \o Slash \o c
      BY <3>1, <3>2
    <3> HIDE DEF c
    <3>4. Len(path') = Len(path) + 1 + Len(c)
      BY <1>0, <3>3, Joined
    <3> QED BY <1>0, <3>1, <3>3, <3>4
  <2> QED BY <1>0, <2>1, <2>2
<1>5. ASSUME NEW l \in Nat, left' = left - l \/ left' = left, pc' \notin EarlyPcs \cup {"report", "psearch"} PROVE RoomInv'
  BY <1>0, <1>5
<1>6. CASE Psearch
  <2>1. pc = "psearch" /\ pc' \notin EarlyPcs \cup {"report", "psearch"}
    BY <1>6 DEF Psearch, Exit, EarlyPcs
  <2>2. RecordLen(PsearchText) \in Nat
    BY <2>1, TextsAreLong
  <2>3. left' = left - RecordLen(PsearchText) \/ left' = left
    BY <1>6 DEF Psearch, Copy, CopyFails, GetattrFails, bufVars, Buf!copy_search_result,
                Buf!copy_search_result_EFAULT, Buf!copy_search_result_ERANGE
  <2> QED BY <1>5, <2>1, <2>2, <2>3
<1>7. CASE Report \/ ReportFails
  <2>1. pc = "report" /\ pc' \notin EarlyPcs \cup {"report", "psearch"}
    BY <1>7 DEF Report, ReportFails, EarlyPcs
  <2>2. RecordLen(ReportText) \in Nat
    BY <2>1, TextsAreLong
  <2>3. left' = left - RecordLen(ReportText) \/ left' = left
    BY <1>7 DEF Report, ReportFails, Copy, CopyFails, GetattrFails, bufVars, Buf!copy_search_result,
                Buf!copy_search_result_EFAULT, Buf!copy_search_result_ERANGE
  <2> QED BY <1>5, <2>1, <2>2, <2>3
<1>8. ASSUME NEW n \in Answers, Driver(n) PROVE RoomInv'
  <2>1. n \in Nat /\ pc' \notin EarlyPcs \cup {"report", "psearch"}
    BY <1>8, SearchAssumption DEF Driver, EarlyPcs
  <2>2. left' = left - n \/ left' = left
    BY <1>8 DEF Driver, Buf!driver_search, Buf!driver_search_ERANGE
  <2> QED BY <1>0, <1>5, <2>1, <2>2
<1>9. CASE NextEntry
  <2>1. UNCHANGED <<nxt, left, results>> /\ pc' \notin EarlyPcs \cup {"psearch"}
    BY <1>9 DEF NextEntry, bufVars, EarlyPcs
  <2> DEFINE c == Head(frame.pending).name
  <2>2. path' = path \o Slash \o c /\ c \in Seq(Char)
    BY <1>9, NextEntryTakes DEF Entries, Comps
  <2> HIDE DEF c
  <2>3. Len(path') = Len(path) + 1 + Len(c) /\ Len(c) \in Nat
    BY <1>0, <2>2, Joined
  <2> QED BY <1>0, <2>1, <2>3
<1>10. CASE OpenSkipped \/ OpenFails \/ Open \/ abspath \/ Readdir \/ DirectoryFails \/ EndWalk \/ Descend
            \/ BackInDirectory \/ Close
  <2>1. UNCHANGED <<nxt, left, results>> /\ pc' \notin EarlyPcs \cup {"report", "psearch"}
    BY <1>10 DEF OpenSkipped, OpenFails, Open, abspath, Readdir, DirectoryFails, EndWalk, Descend, BackInDirectory,
                 Close, bufVars, EarlyPcs
  <2> QED BY <1>0, <2>1
<1> QED BY <1>1, <1>2, <1>3, <1>4, <1>6, <1>7, <1>8, <1>9, <1>10 DEF Next, SysStep, DirectoryStep

LEMMA RoomAlways == Spec => []RoomInv
<1>1. Init => RoomInv
  BY SearchAssumption DEF Init, RoomInv
<1>2. TreeInv /\ StackInv /\ DataInv /\ RoomInv /\ [Next]_vars => RoomInv'
  BY RoomStep
<1> QED BY <1>1, <1>2, TreeAlways, StackAlways, DataAlways, PTL DEF Spec

-----------------------------------------------------------------------------
\* The open files are the frames, and one more after a failed native search;
\* ds->next and ds->len add up to the caller's len until then.
LeakInv ==
  /\ nxt \in Int
  /\ files = Len(stack) + (IF DriverFailed THEN 1 ELSE 0)
  /\ DriverFailed => status # 0

LEMMA LeakStep ==
  ASSUME StackInv, DataInv, RoomInv, LeakInv, [Next]_vars
  PROVE  LeakInv'
<1>0. /\ nxt \in Int /\ left \in Int /\ BufLen \in Nat /\ files \in Int
      /\ stack \in Seq(Frames) /\ Len(stack) \in Nat
  BY SearchAssumption DEF LeakInv, RoomInv, DataInv, CountsOK, FramesOK
<1>1. ASSUME UNCHANGED <<nxt, left, stack, files, status>> PROVE LeakInv'
  BY <1>1 DEF LeakInv, DriverFailed
<1>2. ASSUME status = 0, nxt' \in Int, nxt' + left' = nxt + left, files' - Len(stack') = files - Len(stack),
             files' \in Int, Len(stack') \in Int
      PROVE  LeakInv'
  BY <1>0, <1>2 DEF LeakInv, DriverFailed
<1>3. pc \notin {"back", "close", "unwind", "returned"} => status = 0
  BY DEF StackInv, Failing
<1>4. ASSUME NEW s, RecordLen(s) \in Nat, status = 0, UNCHANGED <<stack, files>>,
             Copy(s) \/ (\E code : CopyFails(s, code)) \/ UNCHANGED bufVars
      PROVE  LeakInv'
  <2>1. nxt' \in Int /\ nxt' + left' = nxt + left
    BY <1>0, <1>4 DEF Copy, CopyFails, bufVars, Buf!copy_search_result, Buf!copy_search_result_EFAULT,
                      Buf!copy_search_result_ERANGE
  <2> QED BY <1>0, <1>2, <1>4, <2>1
<1>5. CASE SysStep
  <2>1. UNCHANGED <<stack, files>>
    BY <1>5, SysPlaces
  <2>2. CASE Psearch
    <3>1. pc = "psearch" /\ (Copy(PsearchText) \/ (\E code : CopyFails(PsearchText, code)) \/ UNCHANGED bufVars)
      BY <2>2 DEF Psearch, GetattrFails
    <3> QED BY <1>3, <1>4, <2>1, <3>1, TextsAreLong
  <2>3. CASE ~ Psearch
    <3>1. UNCHANGED <<nxt, left>> /\ (UNCHANGED status \/ pc \notin {"back", "close", "unwind", "returned"})
      BY <1>5, <2>3 DEF SysStep, AllocDs, GetPaths, GetPattern, AllocDirs, Acquire, Exit, StripSlashes, Split,
             NextPath, KernPath, BackInSearch, Finish, Unwind, bufVars, Buf!terminate, Buf!terminate_uncopied
    <3> QED BY <1>0, <1>1, <1>2, <1>3, <2>1, <3>1
  <2> QED BY <2>2, <2>3
<1>6. CASE Report \/ ReportFails
  <2>1. /\ pc = "report" /\ UNCHANGED <<stack, files>>
        /\ Copy(ReportText) \/ (\E code : CopyFails(ReportText, code)) \/ UNCHANGED bufVars
    BY <1>6 DEF Report, ReportFails, GetattrFails
  <2> QED BY <1>3, <1>4, <2>1, TextsAreLong
<1>7. CASE Open
  <2>1. PICK f : stack' = Append(stack, f)
    BY <1>7 DEF Open
  <2>2. pc = "open" /\ files' = files + 1 /\ UNCHANGED <<nxt, left>>
    BY <1>7 DEF Open, bufVars
  <2>3. Len(stack') = Len(stack) + 1
    BY <1>0, <2>1, Push
  <2> QED BY <1>0, <1>2, <1>3, <2>2, <2>3
<1>8. CASE Close
  <2>1. /\ pc = "close" /\ files' = files - 1 /\ UNCHANGED <<nxt, left, status>>
        /\ stack' = SubSeq(stack, 1, Len(stack) - 1)
    BY <1>8 DEF Close, bufVars
  <2>2. Len(stack') = Len(stack) - 1
    BY <1>0, <2>1, Pop DEF StackInv, Framed, FramePcs
  <2>3. DriverFailed' <=> DriverFailed
    BY <2>1 DEF DriverFailed
  <2>4. CASE DriverFailed
    BY <1>0, <2>1, <2>2, <2>3, <2>4 DEF LeakInv
  <2>5. CASE ~ DriverFailed
    <3>1. files' = Len(stack') /\ nxt' \in Int
      BY <1>0, <2>1, <2>2, <2>5 DEF LeakInv
    <3> QED BY <1>0, <2>2, <2>3, <2>5, <3>1 DEF LeakInv
  <2> QED BY <2>4, <2>5
<1>9. ASSUME NEW n \in Answers, Driver(n) PROVE LeakInv'
  <2>1. pc = "driver" /\ status = 0 /\ n \in Nat /\ UNCHANGED files /\ stack # <<>>
    BY <1>3, <1>9, SearchAssumption DEF Driver, StackInv, Framed, FramePcs
  <2>2. CASE pc' # "back"
    <3>1. UNCHANGED stack /\ nxt' = nxt + n /\ left' = left - n
      BY <1>9, <2>2 DEF Driver, Buf!driver_search
    <3> QED BY <1>0, <1>2, <2>1, <3>1
  <2>3. CASE pc' = "back"
    <3>1. /\ stack' = SubSeq(stack, 1, Len(stack) - 1) /\ nxt' = nxt - 34 /\ left' = left /\ status' = -34
      BY <1>9, <2>3 DEF Driver, Buf!driver_search_ERANGE, Buf!ERANGE, ERANGE
    <3>2. Len(stack') = Len(stack) - 1
      BY <1>0, <2>1, <3>1, Pop
    <3>3. nxt + left = BufLen /\ files = Len(stack)
      BY <1>0, <2>1 DEF LeakInv, DriverFailed
    <3>4. DriverFailed' /\ status' # 0 /\ files' = Len(stack') + 1 /\ nxt' \in Int
      BY <1>0, <2>1, <3>1, <3>2, <3>3 DEF DriverFailed
    <3> QED BY <3>4 DEF LeakInv
  <2> QED BY <2>2, <2>3
<1>10. CASE Readdir \/ NextEntry
  <2>1. /\ pc \in {"readdir", "walk"} /\ UNCHANGED <<nxt, left, files>>
        /\ UNCHANGED stack \/ \E f : stack' = [stack EXCEPT ![Len(stack)] = f]
    BY <1>10 DEF Readdir, NextEntry, With, bufVars
  <2>2. Len(stack') = Len(stack)
    BY <1>0, <2>1, ReplaceTop DEF StackInv, Framed, FramePcs
  <2> QED BY <1>0, <1>2, <1>3, <2>1, <2>2
<1>11. CASE OpenSkipped \/ OpenFails \/ abspath \/ DirectoryFails \/ EndWalk \/ Descend \/ BackInDirectory
            \/ Others \/ UNCHANGED vars
  <2>1. /\ UNCHANGED <<nxt, left, stack, files>>
        /\ UNCHANGED status \/ pc \notin {"back", "close", "unwind", "returned"}
    BY <1>11 DEF OpenSkipped, OpenFails, abspath, DirectoryFails, EndWalk, Descend, BackInDirectory, Others, vars, bufVars
  <2> QED BY <1>0, <1>1, <1>2, <1>3, <2>1
<1> QED BY <1>5, <1>6, <1>7, <1>8, <1>9, <1>10, <1>11 DEF Next, DirectoryStep

\* However a call ends, for a pattern or a single file, in every tree, with
\* every failure and interleaving: the directory of a failed native search is
\* the only one it leaves open, and a pattern with leading slashes skipped is
\* all that stays of what the exit ladder is to free.  (No pathbuf of a native
\* search is freed; the theorem does not speak of them.)
THEOREM AllReleased == Spec => []ReleasesAll
<1>1. Init => LeakInv
  BY SearchAssumption DEF Init, LeakInv, DriverFailed
<1>2. StackInv /\ DataInv /\ RoomInv /\ LeakInv /\ [Next]_vars => LeakInv'
  BY LeakStep
<1>3. Spec => []LeakInv
  BY <1>1, <1>2, StackAlways, DataAlways, RoomAlways, PTL DEF Spec
<1>4. StackInv /\ HeapInv /\ LeakInv => ReleasesAll
  <2> SUFFICES ASSUME StackInv, HeapInv, LeakInv, pc = "returned"
               PROVE  /\ files = (IF DriverFailed THEN 1 ELSE 0)
                      /\ held  = (IF shift = 0 THEN {} ELSE {"pattern"})
    BY DEF ReleasesAll
  <2>1. stack = <<>>
    BY DEF StackInv, Framed, TopPcs
  <2> QED BY <2>1 DEF LeakInv, HeapInv
<1> QED BY <1>3, <1>4, StackAlways, HeapAlways, PTL

-----------------------------------------------------------------------------
LEMMA PhaseIs ==
  /\ pc \notin {"unwind", "returned"} => Phase = IF status # 0 THEN "failed" ELSE "filling"
  /\ pc' \notin {"unwind", "returned"} => Phase' = IF status' # 0 THEN "failed" ELSE "filling"
  BY DEF Phase, Ended

\* The ways a step of the call is one of the buffer's.
LEMMA BufStays ==
  ASSUME UNCHANGED bufVars, UNCHANGED status, UNCHANGED pathbufs, Phase' = Phase
  PROVE  UNCHANGED Buf!vars
<1>1. UNCHANGED <<mem, nxt, left, results, pathbufs, status, Phase>>
  BY DEF bufVars
<1> QED BY <1>1 DEF Buf!vars, Phase

LEMMA BufAbandons ==
  ASSUME UNCHANGED bufVars, UNCHANGED pathbufs, Phase = "filling", Phase' = "failed", status' \in BufErrors
  PROVE  Buf!Next
<1>1. Buf!Abandon(status')
  BY DEF Buf!Abandon, Buf!Fail, bufVars, Phase
<1> QED BY <1>1 DEF Buf!Next, BufErrors

LEMMA BufReports ==
  ASSUME RoomInv, Phase = "filling", Phase' = "filling", UNCHANGED status, UNCHANGED pathbufs, NEW s, Copy(s),
         RecordLen(s) \in Nat, RecordLen(s) >= 5
  PROVE  Buf!Next
<1> DEFINE l == RecordLen(s)
<1>1. Buf!copy_search_result(l) /\ results' = results + 1
  BY DEF Copy
<1> HIDE DEF l
<1>2. Buf!Report(l)
  BY <1>1 DEF Buf!Report, Phase
<1>3. l \in 5 .. BufLen + 5
  <2>1. l + 2 <= left /\ left \in Int /\ left <= BufLen /\ BufLen \in Nat
    BY <1>1, SearchAssumption DEF Buf!copy_search_result, Buf!Fits, RoomInv
  <2> QED BY <2>1 DEF l
<1> QED BY <1>2, <1>3 DEF Buf!Next

LEMMA BufReportFails ==
  ASSUME RoomInv, Phase = "filling", Phase' = "failed", NEW s, NEW code, CopyFails(s, code), status' = code,
         UNCHANGED pathbufs, RecordLen(s) \in Nat, RecordLen(s) >= 5
  PROVE  Buf!Next
<1> DEFINE l == RecordLen(s)
<1>0. left \in Int /\ left <= BufLen /\ BufLen \in Nat /\ l \in Nat /\ l >= 5
  BY SearchAssumption DEF RoomInv
<1>1. UNCHANGED results
  BY DEF CopyFails
<1>2. CASE code = -EFAULT /\ Buf!copy_search_result_EFAULT(l)
  <2> HIDE DEF l
  <2>1. Buf!ReportFails(l)
    BY <1>1, <1>2 DEF Buf!ReportFails, Buf!Fail, Phase, EFAULT, Buf!EFAULT
  <2>2. l \in 5 .. BufLen + 5
    <3>1. l + 2 <= left
      BY <1>2 DEF Buf!copy_search_result_EFAULT, Buf!Fits
    <3> QED BY <1>0, <3>1
  <2> QED BY <2>1, <2>2 DEF Buf!Next
<1>3. CASE code = -ERANGE /\ Buf!copy_search_result_ERANGE(l)
  <2> HIDE DEF l
  <2> DEFINE k == IF l <= BufLen + 5 THEN l ELSE BufLen + 5
  <2>1. k \in 5 .. BufLen + 5
    BY <1>0
  <2>2. ~ (l + 2 <= left) /\ UNCHANGED <<mem, nxt, left>>
    BY <1>3 DEF Buf!copy_search_result_ERANGE, Buf!Fits
  <2>3. ~ (k + 2 <= left)
    BY <1>0, <2>2
  <2> HIDE DEF k
  <2>4. Buf!copy_search_result_ERANGE(k)
    BY <2>2, <2>3 DEF Buf!copy_search_result_ERANGE, Buf!Fits
  <2>5. Buf!ReportFails(k)
    BY <1>1, <1>3, <2>4 DEF Buf!ReportFails, Buf!Fail, Phase, ERANGE, Buf!ERANGE
  <2> QED BY <2>1, <2>5 DEF Buf!Next
<1> QED BY <1>2, <1>3 DEF CopyFails

\* The prologue, the loop over the top directories and the end of the call.
LEMMA SysUsesBuffer ==
  ASSUME TreeInv, StackInv, DataInv, RoomInv, SysStep
  PROVE  [Buf!Next]_(Buf!vars)
<1>0. ErrorNumbers /\ UNCHANGED pathbufs
  BY Errors, SysPlaces
<1>1. ASSUME NEW errors \in SUBSET BufErrors, NEW at \in EarlyPcs, NEW what, NEW to \in EarlyPcs,
             NEW l \in {"exit0", "exit1", "exit2"}, Acquire(at, what, errors, l, to)
      PROVE  [Buf!Next]_(Buf!vars)
  <2>1. pc \in EarlyPcs /\ UNCHANGED bufVars /\ status = 0 /\ Phase = "filling"
    BY <1>1, PhaseIs DEF Acquire, EarlyPcs, StackInv, Failing
  <2>2. CASE pc' = to /\ UNCHANGED <<status, label>>
    <3>1. Phase' = "filling"
      BY <2>1, <2>2, PhaseIs DEF EarlyPcs
    <3> QED BY <1>0, <2>1, <2>2, <3>1, BufStays
  <2>3. ASSUME NEW code \in errors, Exit(code, l) PROVE [Buf!Next]_(Buf!vars)
    <3>1. status' \in BufErrors /\ status' # 0 /\ label' # "success"
      BY <1>0, <2>3 DEF Exit, BufErrors, ErrorNumbers
    <3>2. Phase' = "failed"
      BY <3>1 DEF Phase
    <3> QED BY <1>0, <2>1, <3>1, <3>2, BufAbandons
  <2> QED BY <1>1, <2>2, <2>3 DEF Acquire
<1>2. CASE AllocDs \/ GetPaths \/ GetPattern
  <2>1. {-EFAULT, -ENOMEM} \in SUBSET BufErrors /\ {-EFAULT, -ENOMEM, -ENAMETOOLONG} \in SUBSET BufErrors
    BY DEF BufErrors
  <2>2. "enter" \in EarlyPcs /\ "getpaths" \in EarlyPcs /\ "getpattern" \in EarlyPcs /\ "setup" \in EarlyPcs
    BY DEF EarlyPcs
  <2>3. AllocDs => [Buf!Next]_(Buf!vars)
    BY <1>1, <2>1, <2>2 DEF AllocDs
  <2>6. ASSUME NEW e \in {-ENOENT, -EFAULT, -ENOMEM}, pc = "getpaths", Exit(e, "exit1"), UNCHANGED bufVars
        PROVE  Buf!Next
    <3>1. status' \in BufErrors /\ status' # 0 /\ label' # "success" /\ Phase = "filling"
      BY <1>0, <2>6, PhaseIs DEF Exit, BufErrors, ErrorNumbers, StackInv, Failing
    <3>2. Phase' = "failed"
      BY <3>1 DEF Phase
    <3> QED BY <1>0, <2>6, <3>1, <3>2, BufAbandons
  <2>4. GetPaths => [Buf!Next]_(Buf!vars)
    BY <1>1, <2>1, <2>2, <2>6 DEF GetPaths
  <2>5. GetPattern => [Buf!Next]_(Buf!vars)
    BY <1>1, <2>1, <2>2 DEF GetPattern
  <2> QED BY <1>2, <2>3, <2>4, <2>5
<1>3. CASE AllocDirs
  <2>1. pc = "setup" /\ UNCHANGED bufVars /\ status = 0 /\ Phase = "filling" /\ nxt = 0 /\ results = 0
    BY <1>3, PhaseIs DEF AllocDirs, Acquire, EarlyPcs, StackInv, Failing, RoomInv
  <2>2. CASE pc' = "split" /\ UNCHANGED status
    <3>1. Phase' = "filling"
      BY <2>1, <2>2, PhaseIs
    <3> QED BY <1>0, <2>1, <2>2, <3>1, BufStays
  <2>3. CASE Exit(0, "exit3")
    <3>1. status' = 0 /\ Phase' = "returned"
      BY <2>3 DEF Exit, Phase, Ended
    <3>2. Buf!Finish
      BY <1>0, <2>1, <3>1 DEF Buf!Finish, Buf!terminate, Buf!Return, bufVars, Phase
    <3> QED BY <3>2 DEF Buf!Next
  <2> QED BY <1>3, <2>2, <2>3 DEF AllocDirs, Acquire
<1>4. CASE StripSlashes \/ Split \/ NextPath
  <2>1. pc \notin {"unwind", "returned"} /\ pc' \notin {"unwind", "returned"} /\ UNCHANGED bufVars /\ UNCHANGED status
    BY <1>4 DEF StripSlashes, Split, NextPath
  <2> QED BY <1>0, <2>1, PhaseIs, BufStays
<1>5. ASSUME pc \notin {"unwind", "returned"}, status = 0, UNCHANGED bufVars, NEW code \in BufErrors, Exit(code, "exit")
      PROVE  Buf!Next
  <2>1. status' \in BufErrors /\ status' # 0 /\ label' # "success" /\ Phase = "filling"
    BY <1>0, <1>5, PhaseIs DEF Exit, BufErrors, ErrorNumbers
  <2>2. Phase' = "failed"
    BY <2>1 DEF Phase
  <2> QED BY <1>0, <1>5, <2>1, <2>2, BufAbandons
<1>6. ASSUME NEW r \in LookupErrors PROVE r \in BufErrors
  BY DEF LookupErrors, BufErrors
<1>7. CASE KernPath
  <2>1. pc = "kern_path" /\ status = 0 /\ UNCHANGED bufVars
    BY <1>7 DEF KernPath, StackInv, Failing
  <2> DEFINE r == Lookup(Root, path)
  <2>2. r \in Nodes \cup LookupErrors
    BY NodesFacts, LookupTyped DEF DataInv, TextOK
  <2>3. CASE UNCHANGED status /\ pc' \in {"nextpath", "psearch"}
    BY <1>0, <2>1, <2>3, PhaseIs, BufStays
  <2>4. CASE r < 0 /\ Exit(r, "exit")
    <3> HIDE DEF r
    <3>1. r \in LookupErrors
      BY <2>2, <2>4, NodesFacts
    <3> QED BY <1>5, <1>6, <2>1, <2>4, <3>1
  <2> QED BY <1>7, <2>3, <2>4 DEF KernPath
<1>8. CASE Psearch
  <2>1. pc = "psearch" /\ status = 0 /\ Phase = "filling"
    BY <1>8, PhaseIs DEF Psearch, StackInv, Failing
  <2>2. RecordLen(PsearchText) \in Nat /\ RecordLen(PsearchText) >= 5
    BY <2>1, TextsAreLong
  <2> DEFINE r == Lookup(psearch, Literal)
  <2>3. CASE pc' = "nextpath" /\ UNCHANGED <<bufVars, status>>
    BY <1>0, <2>1, <2>3, PhaseIs, BufStays
  <2>4. CASE r < 0 /\ Exit(r, "exit") /\ UNCHANGED bufVars
    <3>1. psearch \in Nodes /\ Literal \in Seq(Char)
      <4>1. pattern \in Seq(Char) /\ shift \in Nat /\ psearch \in Nodes
        BY <2>1 DEF DataInv, ArgsOK, TextOK, PsearchOK
      <4>2. shift + 1 \in Int /\ Len(pattern) \in Int /\ \A i \in shift + 1 .. Len(pattern) : pattern[i] \in Char
        BY <4>1
      <4> QED BY <4>1, <4>2, SubSeqProperties DEF Literal
    <3>2. r \in Nodes \cup LookupErrors
      BY <3>1, LookupTyped
    <3> HIDE DEF r
    <3>3. r \in LookupErrors
      BY <2>4, <3>2, NodesFacts
    <3> QED BY <1>5, <1>6, <2>1, <2>4, <3>3
  <2>5. CASE Copy(PsearchText) /\ pc' \in {"finish", "nextpath"} /\ UNCHANGED status
    <3>1. Phase' = "filling"
      BY <2>1, <2>5, PhaseIs
    <3> QED BY <1>0, <2>1, <2>2, <2>5, <3>1, BufReports
  <2>6. ASSUME NEW code \in {-EFAULT, -ERANGE, -EIO}, CopyFails(PsearchText, code), Exit(code, "exit")
        PROVE  Buf!Next
    <3>1. status' = code /\ status' # 0 /\ label' # "success"
      BY <1>0, <2>6 DEF Exit, ErrorNumbers
    <3>2. Phase' = "failed"
      BY <3>1 DEF Phase
    <3> QED BY <1>0, <2>1, <2>2, <2>6, <3>1, <3>2, BufReportFails
  <2>7. ASSUME NEW code \in {-EFAULT, -ERANGE, -EIO}, GetattrFails(code), Exit(code, "exit")
        PROVE  Buf!Next
    <3>1. code \in BufErrors /\ UNCHANGED bufVars
      BY <2>7 DEF GetattrFails, BufErrors
    <3> QED BY <1>5, <2>1, <2>7, <3>1
  <2> QED BY <1>8, <2>3, <2>4, <2>5, <2>6, <2>7 DEF Psearch
<1>9. CASE BackInSearch
  <2>1. pc = "back" /\ UNCHANGED bufVars /\ UNCHANGED status
    BY <1>9 DEF BackInSearch, Exit
  <2>2. CASE status # 0
    <3>1. label' # "success" /\ Phase = "failed"
      BY <1>9, <2>1, <2>2, PhaseIs DEF BackInSearch, Exit
    <3>2. Phase' = "failed"
      BY <2>1, <2>2, <3>1 DEF Phase
    <3> QED BY <1>0, <2>1, <3>1, <3>2, BufStays
  <2>3. CASE status = 0
    <3>1. pc' \in {"finish", "nextpath"}
      BY <1>9, <2>3 DEF BackInSearch
    <3> QED BY <1>0, <2>1, <3>1, PhaseIs, BufStays
  <2> QED BY <2>2, <2>3
<1>10. CASE Finish
  <2>1. pc \in {"finish", "nextpath"} /\ status = 0 /\ Phase = "filling" /\ UNCHANGED results
    BY <1>10, PhaseIs DEF Finish, StackInv, Failing
  <2>2. CASE Buf!terminate /\ Exit(results, "success")
    <3>1. Phase' = "returned" /\ status' = results
      BY <2>2 DEF Exit, Phase, Ended
    <3>2. Buf!Finish
      BY <1>0, <2>1, <2>2, <3>1 DEF Buf!Finish, Buf!Return, Phase
    <3> QED BY <3>2 DEF Buf!Next
  <2>3. ASSUME NEW k \in 1 .. 2, Buf!terminate_uncopied(k), Exit(k, "exit") PROVE Buf!Next
    <3>1. Phase' = "failed" /\ status' = k
      BY <2>3 DEF Exit, Phase
    <3>2. Buf!FinishFails(k)
      BY <1>0, <2>1, <2>3, <3>1 DEF Buf!FinishFails, Buf!Fail, Phase
    <3> QED BY <3>2 DEF Buf!Next
  <2> QED BY <1>10, <2>2, <2>3 DEF Finish
<1>11. CASE Unwind
  <2>1. pc = "unwind" /\ pc' = "returned" /\ UNCHANGED <<bufVars, status, label>>
    BY <1>11 DEF Unwind, sysVars
  <2>2. Phase' = Phase
    BY <2>1 DEF Phase, Ended
  <2> QED BY <1>0, <2>1, <2>2, BufStays
<1> QED BY <1>2, <1>3, <1>4, <1>7, <1>8, <1>9, <1>10, <1>11 DEF SysStep

LEMMA DirectoryUsesBuffer ==
  ASSUME TreeInv, StackInv, DataInv, RoomInv, DirectoryStep
  PROVE  [Buf!Next]_(Buf!vars)
<1>0. ErrorNumbers /\ (pc # "driver" => UNCHANGED pathbufs)
  BY Errors DEF DirectoryStep, OpenSkipped, OpenFails, Open, abspath, Readdir, DirectoryFails, Driver,
         NextEntry, EndWalk, Report, ReportFails, Descend, BackInDirectory, Close, heapVars
<1>1. pc \notin {"unwind", "returned"} /\ pc' \notin {"unwind", "returned"}
  BY DirectoryPlaces DEF FramePcs
<1>2. /\ Phase = IF status # 0 THEN "failed" ELSE "filling"
      /\ Phase' = IF status' # 0 THEN "failed" ELSE "filling"
  BY <1>1, PhaseIs
<1>3. CASE pc # "driver" /\ UNCHANGED <<bufVars, status>>
  BY <1>0, <1>2, <1>3, BufStays
<1>4. ASSUME pc # "driver", UNCHANGED bufVars, status = 0, status' \in BufErrors PROVE Buf!Next
  <2>1. status' # 0
    BY <1>0, <1>4 DEF BufErrors, ErrorNumbers
  <2> QED BY <1>0, <1>2, <1>4, <2>1, BufAbandons
<1>5. CASE OpenSkipped \/ Open
  <2>1. pc # "driver" /\ UNCHANGED <<bufVars, status>>
    BY <1>5 DEF OpenSkipped, Open, StackInv, Failing
  <2> QED BY <1>3, <2>1
<1>6. CASE OpenFails
  <2>1. pc # "driver" /\ UNCHANGED bufVars /\ status = 0
    BY <1>6 DEF OpenFails, StackInv, Failing
  <2>2. OpenDir(path) \in Nodes \cup LookupErrors
    BY OpenDirTyped DEF DataInv, TextOK
  <2>3. status' \in BufErrors
    <3> DEFINE r == OpenDir(path)
    <3>1. (r < 0 /\ status' = r) \/ status' = -ENFILE
      BY <1>6 DEF OpenFails
    <3> HIDE DEF r
    <3>2. r \in Nodes \cup LookupErrors
      BY <2>2 DEF r
    <3> QED BY <3>1, <3>2, NodesFacts DEF LookupErrors, BufErrors
  <2> QED BY <1>4, <2>1, <2>3
<1>7. CASE DirectoryFails
  <2>1. pc # "driver" /\ UNCHANGED bufVars /\ status = 0 /\ status' \in BufErrors
    BY <1>7 DEF DirectoryFails, StackInv, Failing, BufErrors
  <2> QED BY <1>4, <2>1
<1>8. abspath \/ Readdir \/ NextEntry \/ EndWalk \/ Descend \/ BackInDirectory \/ Close
      => pc # "driver" /\ UNCHANGED <<bufVars, status>>
  BY DEF abspath, Readdir, NextEntry, EndWalk, Descend, BackInDirectory, Close
<1>9. ASSUME NEW n \in Answers, Driver(n) PROVE Buf!Next
  <2>1. status = 0 /\ Phase = "filling" /\ pathbufs' = pathbufs + 1 /\ pathbufs \in Nat
    BY <1>2, <1>9 DEF Driver, StackInv, Failing, DataInv, CountsOK
  <2>2. pathbufs' > 0
    BY <2>1
  <2>3. Buf!Driver(n)
    <3>1. CASE Buf!driver_search(n) /\ UNCHANGED status
      <4>1. Phase' = "filling"
        BY <1>2, <2>1, <3>1
      <4> QED BY <2>1, <2>2, <3>1, <4>1 DEF Buf!Driver, Phase
    <3>2. CASE Buf!driver_search_ERANGE(n) /\ status' = -ERANGE
      <4>1. Phase' = "failed" /\ status' = -Buf!ERANGE
        BY <1>2, <3>2 DEF ERANGE, Buf!ERANGE
      <4> QED BY <2>1, <2>2, <3>2, <4>1 DEF Buf!Driver, Buf!Fail, Phase
    <3> QED BY <1>9, <3>1, <3>2 DEF Driver
  <2> QED BY <1>9, <2>3 DEF Buf!Next
<1>10. CASE Report
  <2>1. pc = "report" /\ status = 0 /\ Copy(ReportText) /\ UNCHANGED status
    BY <1>10 DEF Report, StackInv, Failing
  <2>2. RecordLen(ReportText) \in Nat /\ RecordLen(ReportText) >= 5
    BY <2>1, TextsAreLong
  <2>3. Phase = "filling" /\ Phase' = "filling"
    BY <1>2, <2>1
  <2> QED BY <1>0, <2>1, <2>2, <2>3, BufReports
<1>11. CASE ReportFails
  <2>1. pc = "report" /\ status = 0 /\ stack # <<>>
    BY <1>11 DEF ReportFails, StackInv, Failing, Framed, FramePcs
  <2>2. RecordLen(ReportText) \in Nat /\ RecordLen(ReportText) >= 5
    BY <2>1, TextsAreLong
  <2> DEFINE r == Lookup(fp, frame.entry)
  <2>3. CASE r < 0 /\ status' = r /\ UNCHANGED bufVars
    <3>1. fp \in Nodes /\ frame.entry \in Seq(Char)
      BY <2>1, TopFrame DEF DataInv, EntryOK, Comps
    <3>2. r \in Nodes \cup LookupErrors
      BY <3>1, LookupTyped
    <3> HIDE DEF r
    <3>3. r \in BufErrors
      BY <2>3, <3>2, NodesFacts DEF LookupErrors, BufErrors
    <3> QED BY <1>4, <2>1, <2>3, <3>3
  <2>4. ASSUME NEW code \in {-EFAULT, -ERANGE, -EIO}, CopyFails(ReportText, code), status' = code PROVE Buf!Next
    <3>1. Phase = "filling" /\ Phase' = "failed"
      BY <1>0, <1>2, <2>1, <2>4 DEF ErrorNumbers
    <3> QED BY <1>0, <2>1, <2>2, <2>4, <3>1, BufReportFails
  <2>5. ASSUME NEW code \in {-EFAULT, -ERANGE, -EIO}, GetattrFails(code), status' = code PROVE Buf!Next
    <3>1. code \in BufErrors /\ UNCHANGED bufVars
      BY <2>5 DEF GetattrFails, BufErrors
    <3> QED BY <1>4, <2>1, <2>5, <3>1
  <2> QED BY <1>11, <2>3, <2>4, <2>5 DEF ReportFails
<1> QED BY <1>3, <1>5, <1>6, <1>7, <1>8, <1>9, <1>10, <1>11 DEF DirectoryStep

\* Everything the call stores in the caller's buffer, and every change of
\* ds->next, ds->len and ds->results, is a step of ResultBuffer: for a
\* pattern or a single file, in a busy tree, through all errors.
THEOREM CallUsesBuffer == Spec => UsesBuffer
<1>1. Init => Buf!Init
  BY DEF Init, Buf!Init, Ended
<1>2. TreeInv /\ StackInv /\ DataInv /\ RoomInv /\ [Next]_vars => [Buf!Next]_(Buf!vars)
  <2> SUFFICES ASSUME TreeInv, StackInv, DataInv, RoomInv, [Next]_vars PROVE [Buf!Next]_(Buf!vars)
    OBVIOUS
  <2>1. CASE Others \/ UNCHANGED vars
    <3>1. UNCHANGED <<bufVars, status, label, pc, pathbufs>>
      BY <2>1 DEF Others, vars, sysVars, heapVars
    <3>2. Phase' = Phase
      BY <3>1 DEF Phase, Ended
    <3> QED BY <3>1, <3>2, BufStays
  <2> QED BY <2>1, SysUsesBuffer, DirectoryUsesBuffer DEF Next
<1> QED BY <1>1, <1>2, TreeAlways, StackAlways, DataAlways, RoomAlways, PTL DEF Spec, UsesBuffer, Buf!Spec

-----------------------------------------------------------------------------
(***************************************************************************)
(* What is proved of the buffer on its own therefore holds in every call.  *)
(***************************************************************************)
Area == INSTANCE ResultBufferProofs WITH
  CanFault    <- CanFail,
  native      <- pathbufs > 0,
  ResultLens  <- 5 .. BufLen + 5,
  OtherErrors <- BufErrors,
  phase       <- Phase,
  ret         <- status

LEMMA AreaAssumption ==
  /\ BufLen \in Nat
  /\ 5 .. BufLen + 5 \subseteq Nat \ {0}
  /\ Answers \subseteq Nat
  /\ BufErrors \subseteq Int \ {0}
  /\ CanFail \in BOOLEAN
<1>1. BufErrors \subseteq Int \ {0}
  BY Errors DEF BufErrors, ErrorNumbers
<1>2. 5 .. BufLen + 5 \subseteq Nat \ {0}
  BY SearchAssumption
<1> QED BY <1>1, <1>2, SearchAssumption

LEMMA SameArea ==
  /\ Buf!Init => Area!Init
  /\ [Buf!Next]_(Buf!vars) => [Area!Next]_(Area!vars)
<1>1. Buf!Init => Area!Init
  BY DEF Buf!Init, Area!Init, Buf!Bytes, Area!Bytes, Phase
<1>2. /\ \A l : Buf!Fits(l) <=> Area!Fits(l)
      /\ \A l, n : Buf!Copied(l, n) = Area!Copied(l, n)
      /\ \A n : Buf!Terminated(n) = Area!Terminated(n)
      /\ \A n, last : Buf!Answered(n, last) = Area!Answered(n, last)
  BY DEF Buf!Answered, Area!Answered, Buf!AnswerByte, Area!AnswerByte, Buf!Fits, Area!Fits, Buf!Copied, Area!Copied, Buf!Terminated, Area!Terminated,
         Buf!Bytes, Area!Bytes, Buf!RecordByte, Area!RecordByte
<1>3. \A l : Buf!Report(l) <=> Area!Report(l)
  BY <1>2 DEF Buf!Report, Area!Report, Buf!copy_search_result, Area!copy_search_result, Phase
<1>4. \A l : Buf!ReportFails(l) <=> Area!ReportFails(l)
  BY <1>2 DEF Buf!ReportFails, Area!ReportFails, Buf!Fail, Area!Fail, Buf!EFAULT, Area!EFAULT, Buf!ERANGE, Area!ERANGE,
              Buf!copy_search_result_EFAULT, Area!copy_search_result_EFAULT,
              Buf!copy_search_result_ERANGE, Area!copy_search_result_ERANGE, Phase
<1>5. \A n : Buf!Driver(n) <=> Area!Driver(n)
  BY <1>2 DEF Buf!Driver, Area!Driver, Buf!driver_search, Area!driver_search, Buf!Fail, Area!Fail,
              Buf!driver_search_ERANGE, Area!driver_search_ERANGE, Buf!ERANGE, Area!ERANGE, Phase
<1>6. \A code : Buf!Abandon(code) <=> Area!Abandon(code)
  BY DEF Buf!Abandon, Area!Abandon, Buf!Fail, Area!Fail, Phase
<1>7. Buf!Finish <=> Area!Finish
  BY <1>2 DEF Buf!Finish, Area!Finish, Buf!terminate, Area!terminate, Buf!Return, Area!Return, Phase
<1>8. \A k : Buf!FinishFails(k) <=> Area!FinishFails(k)
  BY <1>2 DEF Buf!FinishFails, Area!FinishFails, Buf!terminate_uncopied, Area!terminate_uncopied,
              Buf!Fail, Area!Fail, Phase
<1>9. Buf!Next <=> Area!Next
  BY <1>3, <1>4, <1>5, <1>6, <1>7, <1>8 DEF Buf!Next, Area!Next, BufErrors
<1>10. UNCHANGED Buf!vars <=> UNCHANGED Area!vars
  BY DEF Buf!vars, Area!vars, Phase
<1> QED BY <1>1, <1>9, <1>10

LEMMA CallIsArea == Spec => Area!Spec
  BY CallUsesBuffer, SameArea, PTL DEF UsesBuffer, Buf!Spec, Area!Spec

\* The one byte a call ever stores outside buf .. buf+len-1, whatever it finds,
\* whatever fails and however it ends, is a NUL right behind it, and that only
\* after a native search whose answer filled the buffer to the last byte.
THEOREM CallStaysInBounds == Spec => []Buf!AtMostOneNulBehind
<1>1. Area!Spec => []Area!AtMostOneNulBehind
  BY AreaAssumption, Area!ResultsStayInBounds
<1>2. Area!AtMostOneNulBehind => Buf!AtMostOneNulBehind
  BY DEF Area!AtMostOneNulBehind, Buf!AtMostOneNulBehind, Area!Bytes, Buf!Bytes, Area!Block, Buf!Block
<1> QED BY <1>1, <1>2, CallIsArea, PTL

\* A call that returns its number of results leaves one string in the buffer,
\* without the last byte that was stored: the bar of the last record, or the
\* last character of a native search's answer.
THEOREM CallLeavesString == Spec => []Buf!FinalString
<1>1. Area!Spec => []Area!FinalString
  BY AreaAssumption, Area!FinalStringTerminated
<1>2. Area!FinalString => Buf!FinalString
  BY DEF Area!FinalString, Buf!FinalString, Phase
<1> QED BY <1>1, <1>2, CallIsArea, PTL

\* While the call runs, and until a native search adds the length of its
\* answer, the count it is going to return is the number of records in the
\* buffer.
THEOREM CallCountsRecords == Spec => []RecordsCounted
<1>1. Area!Spec => []Area!RecordsCounted
  BY AreaAssumption, Area!CountIsRecords
<1>2. Area!RecordsCounted => RecordsCounted
  BY DEF Area!RecordsCounted, RecordsCounted, Buf!RecordsCounted, Area!Cardinality, Buf!Cardinality, Phase
<1> QED BY <1>1, <1>2, CallIsArea, PTL

-----------------------------------------------------------------------------
(***************************************************************************)
(* What the matcher's proofs say, for the matcher as the call uses it.     *)
(***************************************************************************)
Matcher == INSTANCE MatchProofs WITH
  Pathnames <- {}, Patterns <- {}, pathname <- path, verdict <- "none"

LEMMA SameChars ==
  /\ \A s, i : Match!At(s, i) = Matcher!At(s, i)
  /\ \A s, i : Match!ComponentEnd(s, i) = Matcher!ComponentEnd(s, i)
  /\ \A S : Match!Min(S) = Matcher!Min(S)
  /\ Match!SUCCESS = Matcher!SUCCESS /\ Match!PARTIAL = Matcher!PARTIAL
  /\ Match!FAILURE = Matcher!FAILURE /\ Match!OVERFLOW = Matcher!OVERFLOW /\ Match!NUL = Matcher!NUL
  /\ \A s : Match!NoBar(s) = Matcher!NoBar(s)
  BY DEF Match!At, Matcher!At, Match!NUL, Matcher!NUL, Match!ComponentEnd, Matcher!ComponentEnd, Match!Min, Matcher!Min,
         Match!is_filename, Matcher!is_filename, Match!SUCCESS, Matcher!SUCCESS, Match!PARTIAL, Matcher!PARTIAL,
         Match!FAILURE, Matcher!FAILURE, Match!OVERFLOW, Matcher!OVERFLOW, Match!NoBar, Matcher!NoBar

LEMMA SamePattern ==
  /\ \A t : Match!IsPattern(t) = Matcher!IsPattern(t)
  /\ \A t : Match!Wildcards(t) = Matcher!Wildcards(t)
  /\ \A t : Match!AlternativeStarts(t) = Matcher!AlternativeStarts(t)
<1>1. \A t : Match!IsPattern(t) = Matcher!IsPattern(t)
  BY DEF Match!IsPattern, Matcher!IsPattern, Match!At, Matcher!At, Match!NUL, Matcher!NUL
<1>2. \A t : Match!Wildcards(t) = Matcher!Wildcards(t)
  BY DEF Match!Wildcards, Matcher!Wildcards, Match!Cardinality, Matcher!Cardinality
<1>3. \A t : Match!AlternativeStarts(t) = Matcher!AlternativeStarts(t)
  BY DEF Match!AlternativeStarts, Matcher!AlternativeStarts, Match!strchrskip, Matcher!strchrskip, Match!Min, Matcher!Min
<1> QED BY <1>1, <1>2, <1>3

LEMMA SameAlternatives ==
  \A t : Match!Alternatives(t) = Matcher!Alternatives(t)
  BY DEF Match!Alternatives, Matcher!Alternatives, Match!Min, Matcher!Min

LEMMA SameReached ==
  /\ \A s, t, k : Match!Matches(s, t, k) = Matcher!Matches(s, t, k)
  /\ \A s, t, k : Match!Leads(s, t, k) = Matcher!Leads(s, t, k)
<1>1. \A s, t, k : Match!Reached(s, t, k) = Matcher!Reached(s, t, k)
  BY DEF Match!Reached, Matcher!Reached, Match!Moves, Matcher!Moves, Match!At, Matcher!At, Match!NUL, Matcher!NUL,
         Match!is_filename, Matcher!is_filename, Match!ComponentEnd, Matcher!ComponentEnd, Match!Min, Matcher!Min
<1> QED BY <1>1 DEF Match!Matches, Matcher!Matches, Match!Leads, Matcher!Leads

LEMMA SameReference ==
  \A s, t : Match!RefVerdict(s, t) = Matcher!RefVerdict(s, t)
<1>1. \A s, t : Match!Boundaries(s, t) = Matcher!Boundaries(s, t)
  BY DEF Match!Boundaries, Matcher!Boundaries
<1> QED BY <1>1, SameReached, SameChars DEF Match!RefVerdict, Matcher!RefVerdict

LEMMA SameAnswers ==
  \A s, p : Match!__match_pathname(s, p) = Matcher!__match_pathname(s, p)
<1>1. \A s, p, l, n, i : Match!Answer(s, p, l, n, i) = Matcher!Answer(s, p, l, n, i)
  BY DEF Match!Answer, Matcher!Answer, Match!StarStops, Matcher!StarStops, Match!AtPathEnd, Matcher!AtPathEnd,
         Match!FAILURE, Matcher!FAILURE, Match!SUCCESS, Matcher!SUCCESS, Match!PARTIAL, Matcher!PARTIAL,
         Match!OVERFLOW, Matcher!OVERFLOW, Match!At, Matcher!At, Match!NUL, Matcher!NUL, Match!is_filename,
         Matcher!is_filename, Match!ComponentEnd, Matcher!ComponentEnd, Match!Min, Matcher!Min
<1> QED BY <1>1, SameChars DEF Match!__match_pathname, Matcher!__match_pathname

LEMMA SameMatcher ==
  ASSUME NEW s, NEW t
  PROVE  Match!match_pathname(s, t) = Matcher!match_pathname(s, t)
<1> DEFINE M == Match!__match_pathname(s, t)
           A == Match!AlternativeStarts(t)
           P == Match!PathStarts(s)
           At(i) == Match!At(t, i)
           Least(S) == Match!Min(S)
           F == Match!FAILURE
           Try(k, p) == M[p][0][IF At(p) = "/" THEN k ELSE k + 1]
           hits(k) == {p \in A : Try(k, p) # F}
           starts == {k \in P : hits(k) # {}}
           v == IF starts = {} THEN F ELSE Try(Least(starts), Least(hits(Least(starts))))
           Try2(k, p) == Matcher!__match_pathname(s, t)[p][0][IF Matcher!At(t, p) = "/" THEN k ELSE k + 1]
           hits2(k) == {p \in Matcher!AlternativeStarts(t) : Try2(k, p) # Matcher!FAILURE}
           starts2 == {k \in Matcher!PathStarts(s) : hits2(k) # {}}
<1>1. Match!match_pathname(s, t) = v
  BY DEF Match!match_pathname
<1>2. Matcher!match_pathname(s, t) =
        IF starts2 = {} THEN Matcher!FAILURE ELSE Try2(Matcher!Min(starts2), Matcher!Min(hits2(Matcher!Min(starts2))))
  BY DEF Matcher!match_pathname
<1>3. /\ M = Matcher!__match_pathname(s, t) /\ A = Matcher!AlternativeStarts(t) /\ F = Matcher!FAILURE
      /\ P = Matcher!PathStarts(s) /\ \A i : At(i) = Matcher!At(t, i)
  BY SameAnswers, SamePattern, SameChars DEF Match!PathStarts, Matcher!PathStarts
<1>4. \A S : Least(S) = Matcher!Min(S)
  BY SameChars
<1> HIDE DEF M, A, P, At, F, Least
<1>5. \A k, p : Try(k, p) = Try2(k, p)
  BY <1>3
<1> HIDE DEF Try, Try2
<1>6. \A k : hits(k) = hits2(k)
  BY <1>3, <1>5
<1> HIDE DEF hits, hits2
<1>7. starts = starts2
  BY <1>3, <1>6
<1> HIDE DEF starts, starts2
<1>8. Least(starts) = Matcher!Min(starts2)
  BY <1>4, <1>7
<1>9. Least(hits(Least(starts))) = Matcher!Min(hits2(Matcher!Min(starts2)))
  BY <1>4, <1>6, <1>8
<1>10. v = Matcher!match_pathname(s, t)
  BY <1>2, <1>3, <1>5, <1>7, <1>8, <1>9
<1> QED BY <1>1, <1>10

\* A text of a path or a pattern: the matcher takes NUL for its end.
IsText(s) == s \in Seq(Char) /\ \A k \in DOMAIN s : s[k] # "NUL"

LEMMA TextIsMatchers ==
  ASSUME NEW s
  PROVE  /\ Matcher!NoNul(s) <=> IsText(s)
         /\ Matcher!IsPath(s) <=> IsText(s) /\ s # <<>> /\ s[1] = "/"
<1>1. Matcher!NoNul(s) <=> IsText(s)
  BY DEF IsText, Matcher!NoNul, Matcher!Char, Char, Matcher!NUL
<1>2. ASSUME IsText(s) PROVE Matcher!At(s, 1) = "/" <=> s # <<>> /\ s[1] = "/"
  <2>1. 1 \in DOMAIN s <=> s # <<>>
    BY <1>2 DEF IsText
  <2> QED BY <2>1 DEF Matcher!At, Matcher!NUL
<1> QED BY <1>1, <1>2 DEF Matcher!IsPath

LEMMA OneVerdict ==
  ASSUME NEW s, IsText(s), s # <<>>, s[1] = "/", NEW t, Match!IsPattern(t), Match!NoBar(s) \/ Match!NoBar(t)
  PROVE  /\ Match!match_pathname(s, t) = Match!SUCCESS =>
              \E alt \in Match!Alternatives(t) : Match!RefVerdict(s, alt) = Match!SUCCESS
         /\ Match!NoBar(t) /\ Match!Wildcards(t) < MaxNest => Match!match_pathname(s, t) = Match!RefVerdict(s, t)
<1>1. MaxNest \in Nat /\ Matcher!IsPath(s) /\ Matcher!IsPattern(t) /\ (Matcher!NoBar(s) \/ Matcher!NoBar(t))
  BY SearchAssumption, TextIsMatchers, SamePattern, SameChars
<1> DEFINE v == Matcher!match_pathname(s, t)
<1>2. /\ v # Matcher!OVERFLOW => \E alt \in Matcher!Alternatives(t) : v = Matcher!RefVerdict(s, alt)
      /\ (\A alt \in Matcher!Alternatives(t) : Matcher!Wildcards(alt) < MaxNest) => v # Matcher!OVERFLOW
  BY <1>1, Matcher!VerdictRight
<1>3. Matcher!NoBar(t) => Matcher!Alternatives(t) = {t}
  BY <1>1, Matcher!SingleAlternative
<1>4. v = Match!match_pathname(s, t)
  BY SameMatcher
<1> HIDE DEF v
<1>5. Matcher!SUCCESS # Matcher!OVERFLOW
  BY DEF Matcher!SUCCESS, Matcher!OVERFLOW
<1>6. v = Matcher!SUCCESS => \E alt \in Matcher!Alternatives(t) : Matcher!RefVerdict(s, alt) = Matcher!SUCCESS
  BY <1>2, <1>5
<1>7. Matcher!NoBar(t) /\ Matcher!Wildcards(t) < MaxNest => v = Matcher!RefVerdict(s, t)
  BY <1>2, <1>3
<1> QED BY <1>4, <1>6, <1>7, SameChars, SamePattern, SameAlternatives, SameReference

LEMMA LeadsDown ==
  ASSUME NEW s, IsText(s), s # <<>>, s[1] = "/", NEW t, Match!IsPattern(t), Match!NoBar(t),
         Match!Wildcards(t) < MaxNest, t[1] = "/", Match!Matches(s, t, 1), NEW k \in 2 .. Len(s), s[k] = "/"
  PROVE  Match!match_pathname(SubSeq(s, 1, k - 1), t) = Match!PARTIAL
<1>1. MaxNest \in Nat /\ Matcher!IsPath(s) /\ Matcher!IsPattern(t) /\ Matcher!NoBar(t) /\ Matcher!Wildcards(t) < MaxNest
  BY SearchAssumption, TextIsMatchers, SamePattern, SameChars
<1>2. Matcher!At(t, 1) = "/"
  <2>1. t \in Seq(STRING) /\ t # <<>>
    BY <1>1 DEF Matcher!IsPattern
  <2>2. 1 \in DOMAIN t
    BY <2>1
  <2> QED BY <2>2 DEF Matcher!At
<1>3. Matcher!Matches(s, t, 1)
  BY SameReached
<1>4. Matcher!match_pathname(SubSeq(s, 1, k - 1), t) = Matcher!PARTIAL
  BY <1>1, <1>2, <1>3, Matcher!DescentLeads
<1> QED BY <1>4, SameMatcher, SameChars

LEMMA BelowRoot ==
  ASSUME NEW s, IsText(s), s # <<>>, s[1] = "/", NEW q \in 3 .. Len(s), s[q] = "/", s[2] # "/",
         NEW t, Match!IsPattern(t), \A i \in DOMAIN t : t[i] # "/", Match!NoBar(s) \/ Match!NoBar(t)
  PROVE  /\ Match!match_pathname(SubSeq(s, 2, Len(s)), t) = Match!SUCCESS =>
              \E alt \in Match!Alternatives(t) : Match!RefVerdict(s, alt) = Match!SUCCESS
         /\ Match!NoBar(t) /\ Match!Wildcards(t) < MaxNest /\ Match!RefVerdict(s, t) = Match!SUCCESS
            => Match!match_pathname(SubSeq(s, 2, Len(s)), t) = Match!SUCCESS
<1> DEFINE r == SubSeq(s, 2, Len(s))
<1>1. MaxNest \in Nat /\ Matcher!NoNul(s) /\ Matcher!IsPattern(t) /\ (Matcher!NoBar(s) \/ Matcher!NoBar(t))
  BY SearchAssumption, TextIsMatchers, SamePattern, SameChars
<1>2. s \in Seq(Char) /\ Len(s) \in Nat /\ Len(s) >= 3 /\ DOMAIN s = 1 .. Len(s)
  BY DEF IsText
<1>3. r \in Seq(Char) /\ Len(r) = Len(s) - 1 /\ DOMAIN r = 1 .. Len(r) /\ \A i \in 1 .. Len(s) - 1 : r[i] = s[i + 1]
  BY <1>2
<1> HIDE DEF r
<1>4. \A i \in 1 .. Len(r) : i + 1 \in DOMAIN s /\ r[i] = s[i + 1]
  BY <1>2, <1>3
<1>5. IsText(r)
  BY <1>3, <1>4 DEF IsText
<1>6. Matcher!IsBehind(r, s)
  <2>1. Matcher!NoNul(r)
    BY <1>5, TextIsMatchers
  <2>2. Len(s) = Len(r) + 1
    BY <1>2, <1>3
  <2> QED BY <1>1, <1>4, <2>1, <2>2 DEF Matcher!IsBehind
<1>7. q - 1 \in 2 .. Len(r) /\ r[q - 1] = "/" /\ r[1] # "/"
  <2>1. q - 1 \in 1 .. Len(s) - 1 /\ 1 \in 1 .. Len(s) - 1 /\ (q - 1) + 1 = q /\ q - 1 \in 2 .. Len(s) - 1 /\ 1 + 1 = 2
    BY <1>2
  <2> QED BY <1>3, <2>1
<1>8. /\ Matcher!match_pathname(r, t) = Matcher!SUCCESS =>
           \E alt \in Matcher!Alternatives(t) : Matcher!RefVerdict(s, alt) = Matcher!SUCCESS
      /\ Matcher!NoBar(t) /\ Matcher!Wildcards(t) < MaxNest /\ Matcher!RefVerdict(s, t) = Matcher!SUCCESS
         => Matcher!match_pathname(r, t) = Matcher!SUCCESS
  BY <1>1, <1>6, <1>7, Matcher!RootMatch
<1>9. Match!match_pathname(r, t) = Matcher!match_pathname(r, t)
  BY SameMatcher
<1>10. /\ Match!match_pathname(r, t) = Match!SUCCESS =>
            \E alt \in Match!Alternatives(t) : Match!RefVerdict(s, alt) = Match!SUCCESS
       /\ Match!NoBar(t) /\ Match!Wildcards(t) < MaxNest /\ Match!RefVerdict(s, t) = Match!SUCCESS
          => Match!match_pathname(r, t) = Match!SUCCESS
  BY <1>8, <1>9, SameChars, SamePattern, SameAlternatives, SameReference
<1> QED BY <1>10 DEF r

LEMMA OnlyItself ==
  ASSUME NEW s, IsText(s), s # <<>>, s[1] = "/", NEW t, IsText(t), \A i \in DOMAIN t : t[i] \notin {"*", "?", "|"},
         Match!Matches(s, t, 1)
  PROVE  s = t
<1>1. MaxNest \in Nat /\ Matcher!IsPath(s) /\ Matcher!NoNul(t) /\ Matcher!Matches(s, t, 1)
  BY SearchAssumption, TextIsMatchers, SameReached
<1> QED BY <1>1, Matcher!LiteralMatch

\* A pattern without a bar is recursive unless it starts with a slash.
LEMMA Anchored ==
  ASSUME NEW t, Match!IsPattern(t), Match!NoBar(t)
  PROVE  Match!isrecursive(t) <=> t[1] # "/"
<1>0. MaxNest \in Nat /\ Matcher!IsPattern(t)
  BY SearchAssumption, SamePattern
<1>1. t \in Seq(STRING) /\ t # <<>> /\ DOMAIN t = 1 .. Len(t) /\ 1 \in DOMAIN t
  BY DEF Match!IsPattern
<1>2. Matcher!Bars(t, 1) = {}
  BY <1>1 DEF Matcher!Bars, Match!NoBar
<1>3. \A p : p \in Matcher!AlternativeStarts(t) <=> \E b \in Matcher!Bars(t, 1) \cup {0} : p = b + 1
  BY <1>0, Matcher!HeadsOfBars
<1>4. \A p : p \in Match!AlternativeStarts(t) <=> p = 1
  BY <1>2, <1>3, SamePattern
<1>5. Match!At(t, 1) = t[1]
  BY <1>1 DEF Match!At
<1> QED BY <1>4, <1>5 DEF Match!isrecursive

-----------------------------------------------------------------------------
(***************************************************************************)
(* A tree at rest: the files of a directory have different names, so that  *)
(* a path is that of one file.                                             *)
(***************************************************************************)
AtRest == TreeInv /\ gone = {} /\ AreApart(parent, name)
Ids(d) == {-1, 0} \cup Children(d)

\* A component behind a path.
Join(s, c) == s \o Slash \o c

\* Where a path is joined to a component can be seen from the whole.
LEMMA JoinApart ==
  ASSUME NEW s \in Seq(Char), NEW u \in Seq(Char), NEW c \in Comps, NEW e \in Comps,
         Join(s, c) = Join(u, e)
  PROVE  s = u /\ c = e
<1> DEFINE S == s \o Slash \o c
           U == u \o Slash \o e
<1>0. c \in Seq(Char) /\ e \in Seq(Char) /\ (\A i \in 1 .. Len(c) : c[i] # "/") /\ \A i \in 1 .. Len(e) : e[i] # "/"
  BY DEF Comps, IsComponent
<1>1. /\ Len(S) = Len(s) + 1 + Len(c)
      /\ \A i \in 1 .. Len(s) : S[i] = s[i]
      /\ S[Len(s) + 1] = "/"
      /\ \A i \in 1 .. Len(c) : S[Len(s) + 1 + i] = c[i]
  BY <1>0, Joined
<1>2. /\ Len(U) = Len(u) + 1 + Len(e)
      /\ \A i \in 1 .. Len(u) : U[i] = u[i]
      /\ U[Len(u) + 1] = "/"
      /\ \A i \in 1 .. Len(e) : U[Len(u) + 1 + i] = e[i]
  BY <1>0, Joined
<1>3. S = U
  BY DEF Join
<1> HIDE DEF S, U
<1>4. Len(s) \in Nat /\ Len(u) \in Nat /\ Len(c) \in Nat /\ Len(e) \in Nat
  BY <1>0
<1>5. ~ (Len(s) < Len(u))
  <2> SUFFICES ASSUME Len(s) < Len(u) PROVE FALSE OBVIOUS
  <2> DEFINE i == Len(u) - Len(s)
  <2>1. i \in 1 .. Len(c) /\ Len(s) + 1 + i = Len(u) + 1
    BY <1>1, <1>2, <1>3, <1>4
  <2> HIDE DEF i
  <2>2. S[Len(s) + 1 + i] = c[i] /\ c[i] # "/"
    BY <1>0, <1>1, <2>1
  <2> QED BY <1>2, <1>3, <2>1, <2>2
<1>6. ~ (Len(u) < Len(s))
  <2> SUFFICES ASSUME Len(u) < Len(s) PROVE FALSE OBVIOUS
  <2> DEFINE i == Len(s) - Len(u)
  <2>1. i \in 1 .. Len(e) /\ Len(u) + 1 + i = Len(s) + 1
    BY <1>1, <1>2, <1>3, <1>4
  <2> HIDE DEF i
  <2>2. U[Len(u) + 1 + i] = e[i] /\ e[i] # "/"
    BY <1>0, <1>2, <2>1
  <2> QED BY <1>1, <1>3, <2>1, <2>2
<1>7. Len(s) = Len(u) /\ Len(c) = Len(e)
  BY <1>1, <1>2, <1>3, <1>4, <1>5, <1>6
<1>8. s = u
  <2>1. \A i \in 1 .. Len(s) : s[i] = u[i]
    BY <1>1, <1>2, <1>3, <1>7
  <2> QED BY <1>7, <2>1, SeqEqual
<1>9. c = e
  <2>1. \A i \in 1 .. Len(c) : c[i] = e[i]
    BY <1>1, <1>2, <1>3, <1>7
  <2> QED BY <1>0, <1>7, <2>1, SeqEqual
<1> QED BY <1>8, <1>9

LEMMA PathSplits ==
  ASSUME TreeInv, NEW x \in Nodes \ {Root}, NEW y \in Nodes \ {Root}, Paths[x] = Paths[y]
  PROVE  Paths[parent[x]] = Paths[parent[y]] /\ name[x] = name[y]
<1>1. Paths[parent[x]] \in Seq(Char) /\ Paths[parent[y]] \in Seq(Char) /\ name[x] \in Comps /\ name[y] \in Comps
  BY TreeTyped, PathsUnfold, NamesAreComponents DEF TreeInv
<1>2. Join(Paths[parent[x]], name[x]) = Join(Paths[parent[y]], name[y])
  BY PathsUnfold DEF Join
<1> QED BY <1>1, <1>2, JoinApart

LEMMA PathsApart ==
  ASSUME AtRest, NEW d \in Nodes, NEW e \in Nodes, Paths[d] = Paths[e]
  PROVE  d = e
<1> DEFINE G == {x \in Nodes : \A y \in Nodes : Paths[x] = Paths[y] => x = y}
<1>0. TreeInv /\ IsTree(parent)
  BY DEF AtRest, TreeInv
<1>1. ASSUME NEW y \in Nodes \ {Root}
      PROVE  /\ parent[y] \in Nodes /\ Paths[parent[y]] \in Seq(Char) /\ name[y] \in Comps
             /\ Paths[y] = Paths[parent[y]] \o Slash \o name[y] /\ Paths[y] # <<>>
  <2>1. parent[y] \in Nodes /\ Paths[parent[y]] \in Seq(Char) /\ name[y] \in Comps /\ name[y] \in Seq(Char)
        /\ Paths[y] = Paths[parent[y]] \o Slash \o name[y]
    BY <1>0, TreeTyped, PathsUnfold, NamesAreComponents DEF Comps
  <2> DEFINE s == Paths[parent[y]]
             c == name[y]
  <2>2. s \in Seq(Char) /\ c \in Seq(Char)
    BY <2>1
  <2> HIDE DEF s, c
  <2>3. Len(s \o Slash \o c) = Len(s) + 1 + Len(c) /\ Len(s) \in Nat /\ Len(c) \in Nat
    BY <2>2, Joined
  <2>4. s \o Slash \o c # <<>>
    BY <2>3
  <2> QED BY <2>1, <2>4 DEF s, c
<1>2. Root \in G
  <2>1. Paths[Root] = <<>> /\ Root \in Nodes
    BY <1>0, PathsUnfold, NodesFacts
  <2> QED BY <1>1, <2>1
<1>3. ASSUME NEW x \in Nodes \ {Root}, parent[x] \in G PROVE x \in G
  <2> SUFFICES ASSUME NEW y \in Nodes, Paths[x] = Paths[y] PROVE x = y OBVIOUS
  <2>1. y # Root
    BY <1>0, <1>1, PathsUnfold
  <2>2. Paths[parent[x]] = Paths[parent[y]] /\ name[x] = name[y]
    BY <1>0, <2>1, PathSplits
  <2>3. parent[x] = parent[y]
    BY <1>1, <1>3, <2>1, <2>2
  <2> QED BY <2>1, <2>2, <2>3 DEF AtRest, AreApart
<1>4. Nodes \subseteq G
  <2> HIDE DEF G
  <2> QED BY <1>0, <1>2, <1>3, TreeDown
<1> QED BY <1>4

LEMMA AbsApart ==
  ASSUME AtRest, NEW d \in Nodes, NEW e \in Nodes, AbsPath(d) = AbsPath(e)
  PROVE  d = e
<1>0. TreeInv
  BY DEF AtRest
<1>1. ASSUME NEW y \in Nodes \ {Root} PROVE AbsPath(y) = Paths[y] /\ AbsPath(y) # Slash
  <2>1. parent[y] \in Nodes /\ Paths[parent[y]] \in Seq(Char) /\ name[y] \in Comps
        /\ Paths[y] = Paths[parent[y]] \o Slash \o name[y] /\ AbsPath(y) = Paths[y]
    BY <1>0, TreeTyped, PathsUnfold, NamesAreComponents DEF TreeInv
  <2> DEFINE s == Paths[parent[y]]
             c == name[y]
  <2>2. s \in Seq(Char) /\ c \in Seq(Char) /\ c # <<>>
    BY <2>1 DEF Comps, IsComponent
  <2> HIDE DEF s, c
  <2>3. Len(s \o Slash \o c) = Len(s) + 1 + Len(c) /\ Len(s) \in Nat /\ Len(c) \in Nat
    BY <2>2, Joined
  <2>5. Len(c) > 0 /\ Len(Slash) = 1
    BY <2>2, Separators
  <2>4. s \o Slash \o c # Slash
    BY <2>3, <2>5
  <2> QED BY <2>1, <2>4 DEF s, c
<1>2. AbsPath(Root) = Slash /\ Root \in Nodes
  BY <1>0, PathsUnfold, NodesFacts
<1>3. CASE d = Root \/ e = Root
  BY <1>1, <1>2, <1>3
<1>4. CASE d # Root /\ e # Root
  BY <1>1, <1>4, PathsApart
<1> QED BY <1>3, <1>4

LEMMA IdsTyped ==
  ASSUME TreeInv, NEW d, NEW x \in Ids(d)
  PROVE  /\ x \in Int /\ x \in -1 .. NNodes /\ EntryName(x) \in Comps
         /\ x < 1 <=> x \in {-1, 0}
         /\ x \notin {-1, 0} => x \in Nodes \ {Root} /\ x \in Children(d) /\ parent[x] = d /\ EntryName(x) = name[x]
                                 /\ EntryName(x) \notin {Dot, DotDot}
         /\ x \in {-1, 0} => EntryName(x) \in {Dot, DotDot}
<1>0. NNodes \in Nat
  BY SearchAssumption
<1>1. CASE x \in {-1, 0}
  BY <1>0, <1>1, NamesAreComponents DEF EntryName
<1>2. CASE x \notin {-1, 0}
  <2>1. x \in Children(d)
    BY <1>2 DEF Ids
  <2>2. x \in Nodes \ {Root} /\ parent[x] = d
    BY <2>1 DEF Children
  <2>3. x \in Int /\ x >= 1 /\ x \in -1 .. NNodes
    BY <1>0, <2>2 DEF Nodes
  <2>4. EntryName(x) = name[x]
    BY <2>3 DEF EntryName
  <2>5. name[x] \in Comps /\ name[x] \notin {Dot, DotDot}
    BY <2>2, NamesAreComponents DEF TreeInv, IsName
  <2> QED BY <1>2, <2>1, <2>2, <2>3, <2>4, <2>5
<1> QED BY <1>1, <1>2

LEMMA IdsApart ==
  ASSUME AtRest, NEW d, NEW x \in Ids(d), NEW y \in Ids(d), EntryName(x) = EntryName(y)
  PROVE  x = y
<1>0. TreeInv
  BY DEF AtRest
<1>1. CASE x \in {-1, 0} /\ y \in {-1, 0}
  <2>1. Dot # DotDot
    <3>1. Len(Dot) = 1 /\ Len(DotDot) = 2
      BY DEF Dot, DotDot
    <3> QED BY <3>1
  <2>2. EntryName(-1) = Dot /\ EntryName(0) = DotDot
    BY DEF EntryName
  <2> QED BY <1>1, <2>1, <2>2
<1>2. CASE x \notin {-1, 0} /\ y \notin {-1, 0}
  <2>1. x \in Nodes \ {Root} /\ y \in Nodes \ {Root} /\ parent[x] = d /\ parent[y] = d /\ name[x] = name[y]
    BY <1>0, <1>2, IdsTyped
  <2> QED BY <2>1 DEF AtRest, AreApart
<1>3. CASE x \in {-1, 0} /\ y \notin {-1, 0}
  BY <1>0, <1>3, IdsTyped
<1>4. CASE x \notin {-1, 0} /\ y \in {-1, 0}
  BY <1>0, <1>4, IdsTyped
<1> QED BY <1>1, <1>2, <1>3, <1>4

\* Every entry has a path of its own.
LEMMA EntriesApart ==
  ASSUME AtRest, NEW d \in Nodes, NEW e \in Nodes, NEW x \in Ids(d), NEW y \in Ids(e),
         Join(AbsPath(d), EntryName(x)) = Join(AbsPath(e), EntryName(y))
  PROVE  d = e /\ x = y
<1>0. TreeInv
  BY DEF AtRest
<1>1. AbsPath(d) \in Seq(Char) /\ AbsPath(e) \in Seq(Char) /\ EntryName(x) \in Comps /\ EntryName(y) \in Comps
  BY <1>0, AbsPathType, IdsTyped
<1>2. AbsPath(d) = AbsPath(e) /\ EntryName(x) = EntryName(y)
  BY <1>1, JoinApart
<1>3. d = e
  BY <1>2, AbsApart
<1> QED BY <1>2, <1>3, IdsApart

\* The depth of a directory is one more than that of its parent.
IsDepth(D) == D = [x \in Nodes |-> IF x = Root THEN 0 ELSE D[parent[x]] + 1]

LEMMA DepthUnfold ==
  ASSUME IsTree(parent)
  PROVE  /\ DepthOf(Root) = 0
         /\ \A y \in Nodes \ {Root} : DepthOf(y) = DepthOf(parent[y]) + 1
         /\ \A y \in Nodes : DepthOf(y) \in Nat
<1> DEFINE g == [y \in Nodes |-> [v \in Nat |-> v + 1]]
           B == CHOOSE A : IsDepth(A)
<1>t. \A y \in Nodes : parent[y] \in Nodes
  BY NodesFacts DEF IsTree
<1> DEFINE f == UpFun(parent, 0, g)
<1>1. f[Root] = 0 /\ \A y \in Nodes \ {Root} : f[y] = g[y][f[parent[y]]]
  <2> HIDE DEF g
  <2>1. UpTo(parent, 0, g, Nodes, f)
    BY UpExists
  <2> QED BY <2>1 DEF UpTo
<1> HIDE DEF f
<1>2. ASSUME NEW h, h[Root] = 0, \A y \in Nodes \ {Root} : h[parent[y]] \in Nat => h[y] = h[parent[y]] + 1
      PROVE  \A x \in Nodes : h[x] \in Nat
  <2> DEFINE G == {x \in Nodes : h[x] \in Nat}
  <2>1. Root \in G
    BY <1>2, NodesFacts
  <2>2. ASSUME NEW y \in Nodes \ {Root}, parent[y] \in G PROVE y \in G
    <3>1. h[y] = h[parent[y]] + 1 /\ h[parent[y]] \in Nat
      BY <1>2, <2>2
    <3>2. h[y] \in Nat
      BY <3>1
    <3> QED BY <3>2
  <2>3. Nodes \subseteq G
    <3> HIDE DEF G
    <3> QED BY <2>1, <2>2, TreeDown
  <2> QED BY <2>3
<1>3. \A y \in Nodes \ {Root} : f[parent[y]] \in Nat => f[y] = f[parent[y]] + 1
  BY <1>1
<1>4. \A x \in Nodes : f[x] \in Nat
  BY <1>1, <1>2, <1>3
<1>5. \A y \in Nodes \ {Root} : f[y] = f[parent[y]] + 1
  BY <1>3, <1>4, <1>t
<1>6. IsDepth([x \in Nodes |-> f[x]])
  BY <1>1, <1>5, <1>t, NodesFacts DEF IsDepth
<1>7. IsDepth(B)
  BY <1>6
<1>8. \A y \in Nodes : DepthOf(y) = B[y]
  BY DEF DepthOf, IsDepth
<1> HIDE DEF B
<1>9. B[Root] = 0 /\ \A y \in Nodes \ {Root} : B[y] = B[parent[y]] + 1
  BY <1>7, NodesFacts DEF IsDepth
<1>10. \A x \in Nodes : B[x] \in Nat
  BY <1>2, <1>9
<1>11. DepthOf(Root) = 0 /\ \A y \in Nodes : DepthOf(y) \in Nat
  BY <1>8, <1>9, <1>10, NodesFacts
<1>12. ASSUME NEW y \in Nodes \ {Root} PROVE DepthOf(y) = DepthOf(parent[y]) + 1
  <2>1. DepthOf(y) = B[y] /\ DepthOf(parent[y]) = B[parent[y]]
    BY <1>8, <1>t
  <2> QED BY <1>9, <2>1
<1> QED BY <1>11, <1>12

\* Being below is reflexive and transitive, and who is above is less deep.
LEMMA AboveSelf ==
  ASSUME IsTree(parent), NEW d \in Nodes
  PROVE  d \in Above(d) /\ Root \in Above(d) /\ Above(d) \subseteq Nodes
<1> DEFINE G == {x \in Nodes : Root \in Above(x)}
<1>1. Root \in G
  BY AboveUnfold, NodesFacts
<1>2. \A y \in Nodes \ {Root} : parent[y] \in G => y \in G
  BY AboveUnfold
<1>3. Nodes \subseteq G
  <2> HIDE DEF G
  <2> QED BY <1>1, <1>2, TreeDown
<1> QED BY <1>3, AboveUnfold

LEMMA AboveTrans ==
  ASSUME IsTree(parent), NEW z \in Nodes, NEW y \in Above(z), NEW x \in Above(y)
  PROVE  x \in Above(z)
<1> DEFINE G == {w \in Nodes : y \in Above(w) => x \in Above(w)}
<1>1. Root \in G
  BY AboveUnfold, NodesFacts
<1>2. ASSUME NEW w \in Nodes \ {Root}, parent[w] \in G PROVE w \in G
  BY <1>2, AboveUnfold
<1>3. Nodes \subseteq G
  <2> HIDE DEF G
  <2> QED BY <1>1, <1>2, TreeDown
<1> QED BY <1>3

LEMMA AboveDepth ==
  ASSUME IsTree(parent), NEW d \in Nodes, NEW x \in Above(d)
  PROVE  x \in Nodes /\ DepthOf(x) \in Nat /\ DepthOf(d) \in Nat /\ DepthOf(x) <= DepthOf(d) /\ (DepthOf(x) = DepthOf(d) => x = d)
<1> DEFINE D == [w \in Nodes |-> DepthOf(w)]
           G == {w \in Nodes : x \in Above(w) => D[x] <= D[w] /\ (D[x] = D[w] => x = w)}
<1>0. x \in Nodes
  BY AboveSelf
<1>1. D[Root] = 0 /\ (\A y \in Nodes \ {Root} : parent[y] \in Nodes /\ D[y] = D[parent[y]] + 1) /\ \A y \in Nodes : D[y] \in Nat
  BY DepthUnfold, NodesFacts, TreeTyped
<1> HIDE DEF D
<1>2. Root \in G
  BY <1>1, AboveUnfold, NodesFacts
<1>3. ASSUME NEW w \in Nodes \ {Root}, parent[w] \in G PROVE w \in G
  <2> SUFFICES ASSUME x \in Above(w) PROVE D[x] <= D[w] /\ (D[x] = D[w] => x = w) OBVIOUS
  <2>1. x = w \/ x \in Above(parent[w])
    BY AboveUnfold
  <2>2. CASE x = w
    BY <1>1, <2>2
  <2>3. CASE x \in Above(parent[w])
    <3>1. D[x] <= D[parent[w]]
      BY <1>3, <2>3
    <3>2. D[w] = D[parent[w]] + 1 /\ D[x] \in Nat /\ D[parent[w]] \in Nat
      BY <1>0, <1>1
    <3> QED BY <3>1, <3>2
  <2> QED BY <2>1, <2>2, <2>3
<1>4. Nodes \subseteq G
  <2> HIDE DEF G
  <2> QED BY <1>2, <1>3, TreeDown
<1>5. D[x] <= D[d] /\ (D[x] = D[d] => x = d) /\ D[x] \in Nat /\ D[d] \in Nat
  BY <1>0, <1>1, <1>4
<1> QED BY <1>0, <1>5 DEF D

\* The nodes above one node are in a line.
LEMMA AboveLine ==
  ASSUME IsTree(parent), NEW d \in Nodes, NEW x \in Above(d), NEW y \in Above(d)
  PROVE  x \in Above(y) \/ y \in Above(x)
<1> DEFINE G == {w \in Nodes : x \in Above(w) /\ y \in Above(w) => x \in Above(y) \/ y \in Above(x)}
<1>1. Root \in G
  BY AboveUnfold, NodesFacts
<1>2. ASSUME NEW w \in Nodes \ {Root}, parent[w] \in G PROVE w \in G
  BY <1>2, AboveUnfold
<1>3. Nodes \subseteq G
  <2> HIDE DEF G
  <2> QED BY <1>1, <1>2, TreeDown
<1> QED BY <1>3

LEMMA AboveSame ==
  ASSUME IsTree(parent), NEW d \in Nodes, NEW x \in Above(d), d \in Above(x)
  PROVE  x = d
<1>1. x \in Nodes /\ DepthOf(x) \in Nat /\ DepthOf(d) \in Nat /\ DepthOf(x) <= DepthOf(d) /\ (DepthOf(x) = DepthOf(d) => x = d)
  BY AboveDepth
<1>2. DepthOf(d) <= DepthOf(x)
  BY <1>1, AboveDepth
<1> QED BY <1>1, <1>2

\* Between a directory and what is further below is one of its children.
LEMMA ChildBetween ==
  ASSUME IsTree(parent), gone = {}, NEW d \in Nodes, NEW c \in Above(d), c # d
  PROVE  \E y \in Children(c) : y \in Above(d)
<1> DEFINE G == {w \in Nodes : c \in Above(w) /\ c # w => \E y \in Children(c) : y \in Above(w)}
<1>1. Root \in G
  BY AboveUnfold, NodesFacts
<1>2. ASSUME NEW w \in Nodes \ {Root}, parent[w] \in G PROVE w \in G
  <2> SUFFICES ASSUME c \in Above(w), c # w PROVE \E y \in Children(c) : y \in Above(w) OBVIOUS
  <2>1. c \in Above(parent[w]) /\ Above(w) = {w} \cup Above(parent[w])
    BY AboveUnfold
  <2>2. CASE c = parent[w]
    <3>1. w \in Children(c)
      BY <2>2 DEF Children
    <3> QED BY <2>1, <3>1
  <2>3. CASE c # parent[w]
    BY <1>2, <2>1, <2>3
  <2> QED BY <2>2, <2>3
<1>3. Nodes \subseteq G
  <2> HIDE DEF G
  <2> QED BY <1>1, <1>2, TreeDown
<1> QED BY <1>3

LEMMA ChildDepth ==
  ASSUME IsTree(parent), NEW c, NEW y \in Children(c)
  PROVE  /\ y \in Nodes \ {Root} /\ c \in DirNodes /\ c \in Nodes /\ parent[y] = c /\ Above(y) = {y} \cup Above(c)
         /\ c \in Above(y) /\ y \notin Above(c) /\ DepthOf(y) = DepthOf(c) + 1
<1>1. y \in Nodes \ {Root} /\ parent[y] = c
  BY DEF Children
<1>2. c \in DirNodes /\ c \in Nodes /\ y \in Nodes
  BY <1>1, TreeTyped
<1>3. Above(y) = {y} \cup Above(c) /\ DepthOf(y) = DepthOf(c) + 1
  BY <1>1, AboveUnfold, DepthUnfold
<1>4. c \in Above(c)
  BY <1>2, AboveSelf
<1>5. y \notin Above(c)
  <2> SUFFICES ASSUME y \in Above(c) PROVE FALSE OBVIOUS
  <2>1. DepthOf(y) <= DepthOf(c) /\ DepthOf(c) \in Nat
    BY <1>2, AboveDepth
  <2> QED BY <1>3, <2>1
<1> QED BY <1>1, <1>2, <1>3, <1>4, <1>5

\* Two children of a directory have nothing below them in common.
LEMMA ChildrenApart ==
  ASSUME IsTree(parent), NEW c, NEW x \in Children(c), NEW y \in Children(c), NEW d \in Nodes, x \in Above(d), y \in Above(d)
  PROVE  x = y
<1>1. /\ x \in Nodes /\ y \in Nodes /\ DepthOf(x) = DepthOf(c) + 1 /\ DepthOf(y) = DepthOf(c) + 1
  BY ChildDepth
<1>2. x \in Above(y) \/ y \in Above(x)
  BY AboveLine
<1> QED BY <1>1, <1>2, AboveDepth

-----------------------------------------------------------------------------
(***************************************************************************)
(* Lookups in a tree at rest.  A lookup passes all directories above what  *)
(* it finds, and the path of a file leads to it when they may be searched. *)
(***************************************************************************)
Clear(d) == \A x \in Above(d) : x # d => x \notin NoExec

LEMMA StepClear ==
  ASSUME TreeInv, NEW d \in Nodes, Clear(d), NEW c, Step(Root, d, c) \in Nodes
  PROVE  Clear(Step(Root, d, c))
<1>0. IsTree(parent)
  BY DEF TreeInv
<1>1. CASE c = Dot
  <2>1. Step(Root, d, c) = d
    BY <1>1, NodesFacts, Errors DEF Step, ErrorNumbers
  <2> QED BY <2>1
<1>2. CASE c = DotDot /\ c # Dot
  <2>1. Step(Root, d, c) = IF d = Root THEN d ELSE parent[d]
    BY <1>2, NodesFacts, Errors DEF Step, ErrorNumbers
  <2>2. CASE d # Root
    <3>1. Step(Root, d, c) = parent[d] /\ parent[d] \in Nodes /\ Above(d) = {d} \cup Above(parent[d])
      BY <1>0, <2>1, <2>2, TreeTyped, AboveUnfold
    <3>2. d \notin Above(parent[d])
      <4>1. DepthOf(d) = DepthOf(parent[d]) + 1 /\ DepthOf(parent[d]) \in Nat
        BY <1>0, <2>2, <3>1, DepthUnfold
      <4>2. d \in Above(parent[d]) => DepthOf(d) <= DepthOf(parent[d])
        BY <1>0, <3>1, AboveDepth
      <4> QED BY <4>1, <4>2
    <3> QED BY <3>1, <3>2 DEF Clear
  <2> QED BY <2>1, <2>2
<1>3. CASE c \notin {Dot, DotDot}
  <2> DEFINE r == Step(Root, d, c)
  <2>1. r \in Nodes \ {Root} /\ parent[r] = d
    BY <1>3, StepDown
  <2>2. d \notin NoExec
    BY NodesFacts, Errors DEF Step, ErrorNumbers
  <2> HIDE DEF r
  <2>3. Above(r) = {r} \cup Above(d)
    BY <1>0, <2>1, AboveUnfold
  <2>4. Clear(r)
    BY <2>2, <2>3 DEF Clear
  <2> QED BY <2>4 DEF r
<1> QED BY <1>1, <1>2, <1>3

LEMMA LookupClear ==
  ASSUME TreeInv, NEW s \in Seq(Char), Lookup(Root, s) \in Nodes
  PROVE  Clear(Lookup(Root, s))
<1> DEFINE cs == Components(s)
           W == Walk(Root, cs)
           S == {n \in Nat : n <= Len(cs) => W[n] \in Nodes \cup LookupErrors /\ (W[n] \in Nodes => Clear(W[n]))}
<1>0. Len(cs) \in Nat /\ Root \in Nodes
  BY ComponentsTyped, NodesFacts
<1>1. W[0] = Root /\ \A k \in 1 .. Len(cs) : W[k] = IF W[k - 1] < 0 THEN W[k - 1] ELSE Step(Root, W[k - 1], cs[k])
  <2> HIDE DEF cs
  <2> QED BY <1>0, WalkUnfold
<1> HIDE DEF cs, W
<1>2. 0 \in S
  <2>1. Above(Root) = {Root}
    BY AboveUnfold DEF TreeInv
  <2> QED BY <1>0, <1>1, <2>1 DEF Clear
<1>3. ASSUME NEW n \in Nat, n \in S PROVE n + 1 \in S
  <2> SUFFICES ASSUME n + 1 <= Len(cs)
               PROVE  W[n + 1] \in Nodes \cup LookupErrors /\ (W[n + 1] \in Nodes => Clear(W[n + 1]))
    OBVIOUS
  <2>1. W[n] \in Nodes \cup LookupErrors /\ (W[n] \in Nodes => Clear(W[n])) /\ n + 1 \in 1 .. Len(cs) /\ (n + 1) - 1 = n
    BY <1>0, <1>3
  <2>2. W[n + 1] = IF W[n] < 0 THEN W[n] ELSE Step(Root, W[n], cs[n + 1])
    BY <1>1, <2>1
  <2>3. CASE W[n] < 0
    BY <2>1, <2>2, <2>3
  <2>4. CASE ~ (W[n] < 0)
    <3>1. W[n] \in Nodes /\ Clear(W[n])
      BY <2>1, <2>4, ErrorsNegative
    <3> QED BY <1>0, <2>2, <2>4, <3>1, StepTyped, StepClear
  <2> QED BY <2>3, <2>4
<1>4. Nat \subseteq S
  <2> HIDE DEF S
  <2> QED BY <1>2, <1>3, NatUp
<1>5. W[Len(cs)] \in Nodes => Clear(W[Len(cs)])
  BY <1>0, <1>4
<1> QED BY <1>5, LookupIsWalk DEF cs, W

\* A step to a child by its name.
LEMMA StepToChild ==
  ASSUME AtRest, NEW b, NEW d \in Nodes, NEW y \in Children(d)
  PROVE  Step(b, d, name[y]) = IF d \in NoExec THEN -EACCES ELSE y
<1>0. TreeInv /\ y \in Nodes \ {Root} /\ parent[y] = d
  BY DEF AtRest, Children
<1>1. d \in DirNodes
  BY <1>0, TreeTyped DEF TreeInv
<1>2. name[y] \notin {Dot, DotDot}
  BY <1>0 DEF TreeInv, IsName
<1>3. ASSUME NEW x \in Children(d), name[x] = name[y] PROVE x = y
  BY <1>0, <1>3 DEF AtRest, AreApart, Children
<1>4. (CHOOSE x \in Children(d) : name[x] = name[y]) = y
  BY <1>3
<1> QED BY <1>1, <1>2, <1>4 DEF Step

LEMMA LookupReturns ==
  ASSUME AtRest, NEW d \in Nodes, Lookup(Root, AbsPath(d)) \in Nodes
  PROVE  Lookup(Root, AbsPath(d)) = d
<1>1. TreeInv
  BY DEF AtRest
<1>2. Paths[Lookup(Root, AbsPath(d))] = Paths[d]
  BY <1>1, LookupOfPath
<1> QED BY <1>2, PathsApart

LEMMA LookupPath ==
  ASSUME AtRest, NEW d \in Nodes, Clear(d)
  PROVE  Lookup(Root, AbsPath(d)) = d
<1> DEFINE G == {x \in Nodes : Clear(x) => Lookup(Root, Paths[x]) = x}
<1>0. TreeInv /\ IsTree(parent) /\ Root \in Nodes
  BY NodesFacts DEF AtRest, TreeInv
<1>1. Root \in G
  BY <1>0, PathsUnfold, LookupTop
<1>2. ASSUME NEW y \in Nodes \ {Root}, parent[y] \in G PROVE y \in G
  <2> SUFFICES ASSUME Clear(y) PROVE Lookup(Root, Paths[y]) = y OBVIOUS
  <2> DEFINE p == parent[y]
             s == Paths[p]
             c == name[y]
  <2>1. y \in Children(p)
    BY DEF Children, AtRest
  <2>2. p \in Nodes /\ Above(y) = {y} \cup Above(p) /\ p \in Above(y) /\ y \notin Above(p)
    BY <1>0, <2>1, ChildDepth
  <2>3. Clear(p) /\ p \notin NoExec
    BY <2>2 DEF Clear
  <2>4. Lookup(Root, s) = p
    BY <1>2, <2>3
  <2>5. s \in Seq(Char) /\ Paths[y] = s \o Slash \o c /\ IsComponent(c)
    BY <1>0, <2>2, PathsUnfold, NamesAreComponents DEF Comps
  <2>6. Step(Root, p, c) = y
    BY <2>1, <2>2, <2>3, StepToChild
  <2>7. ~ (p < 0)
    BY <2>2, ErrorsNegative
  <2> HIDE DEF s, c, p
  <2>8. Lookup(Root, s \o Slash \o c) = IF Lookup(Root, s) < 0 THEN Lookup(Root, s) ELSE Step(Root, Lookup(Root, s), c)
    BY <1>0, <2>5, LookupExtend
  <2> QED BY <2>4, <2>5, <2>6, <2>7, <2>8
<1>3. Nodes \subseteq G
  <2> HIDE DEF G
  <2> QED BY <1>0, <1>1, <1>2, TreeDown
<1>4. CASE d = Root
  BY <1>0, <1>4, PathsUnfold, LookupTop
<1>5. CASE d # Root
  <2>1. AbsPath(d) = Paths[d]
    BY <1>0, <1>5, PathsUnfold
  <2> QED BY <1>3, <2>1
<1> QED BY <1>4, <1>5

-----------------------------------------------------------------------------
(***************************************************************************)
(* The path of an entry behind that of the top directory.                  *)
(***************************************************************************)
Behind(s, n) == SubSeq(s, n + 1, Len(s))
Rel(b, d) == Behind(Paths[d], Len(Paths[b]))

LEMMA BehindIs ==
  ASSUME NEW s \in Seq(Char), NEW n \in 0 .. Len(s)
  PROVE  /\ Behind(s, n) \in Seq(Char) /\ Len(Behind(s, n)) = Len(s) - n
         /\ \A i \in 1 .. Len(s) - n : Behind(s, n)[i] = s[n + i]
<1> DEFINE u == Behind(s, n)
<1>0. Len(s) \in Nat /\ n \in Nat /\ n + 1 \in Int /\ Len(s) \in Int /\ \A i \in n + 1 .. Len(s) : s[i] \in Char
  OBVIOUS
<1>1. /\ u \in Seq(Char)
      /\ Len(u) = (IF n + 1 <= Len(s) THEN Len(s) - (n + 1) + 1 ELSE 0)
      /\ \A i \in 1 .. Len(s) - (n + 1) + 1 : u[i] = s[n + 1 + i - 1]
  BY <1>0, SubSeqProperties DEF Behind
<1> HIDE DEF u
<1>2. Len(u) = Len(s) - n
  BY <1>0, <1>1
<1>3. ASSUME NEW i \in 1 .. Len(s) - n PROVE u[i] = s[n + i]
  <2>1. i \in 1 .. Len(s) - (n + 1) + 1 /\ n + 1 + i - 1 = n + i
    BY <1>0
  <2> QED BY <1>1, <2>1
<1> QED BY <1>1, <1>2, <1>3 DEF u

LEMMA JoinIs ==
  ASSUME NEW s \in Seq(Char), NEW c \in Seq(Char)
  PROVE  /\ Join(s, c) \in Seq(Char)
         /\ Len(Join(s, c)) = Len(s) + 1 + Len(c)
         /\ \A i \in 1 .. Len(s) : Join(s, c)[i] = s[i]
         /\ Join(s, c)[Len(s) + 1] = "/"
         /\ \A i \in 1 .. Len(c) : Join(s, c)[Len(s) + 1 + i] = c[i]
  BY Joined DEF Join

\* Sequences of the same length and elements.
LEMMA SameSeq ==
  ASSUME NEW s \in Seq(Char), NEW u \in Seq(Char), Len(s) = Len(u), \A i \in 1 .. Len(s) : s[i] = u[i]
  PROVE  s = u
  BY SeqEqual

\* Cutting off the front commutes with joining.
LEMMA BehindJoin ==
  ASSUME NEW s \in Seq(Char), NEW c \in Seq(Char), NEW n \in 0 .. Len(s)
  PROVE  Behind(Join(s, c), n) = Join(Behind(s, n), c)
<1> DEFINE S == Join(s, c)
           B == Behind(s, n)
           L == Behind(S, n)
           R == Join(B, c)
<1>0. Len(s) \in Nat /\ Len(c) \in Nat /\ n \in Nat /\ n <= Len(s) OBVIOUS
<1>1. /\ S \in Seq(Char) /\ Len(S) = Len(s) + 1 + Len(c)
      /\ \A i \in 1 .. Len(s) : S[i] = s[i]
      /\ S[Len(s) + 1] = "/"
      /\ \A i \in 1 .. Len(c) : S[Len(s) + 1 + i] = c[i]
  BY JoinIs
<1>2. B \in Seq(Char) /\ Len(B) = Len(s) - n /\ \A i \in 1 .. Len(s) - n : B[i] = s[n + i]
  BY BehindIs
<1> HIDE DEF S, B
<1>3. n \in 0 .. Len(S)
  BY <1>0, <1>1
<1>4. L \in Seq(Char) /\ Len(L) = Len(S) - n /\ \A i \in 1 .. Len(S) - n : L[i] = S[n + i]
  BY <1>1, <1>3, BehindIs
<1>5. /\ R \in Seq(Char) /\ Len(R) = Len(B) + 1 + Len(c)
      /\ \A i \in 1 .. Len(B) : R[i] = B[i]
      /\ R[Len(B) + 1] = "/"
      /\ \A i \in 1 .. Len(c) : R[Len(B) + 1 + i] = c[i]
  BY <1>2, JoinIs
<1> HIDE DEF L, R
<1>6. Len(L) = Len(R)
  BY <1>0, <1>1, <1>2, <1>4, <1>5
<1>7. ASSUME NEW i \in 1 .. Len(L) PROVE L[i] = R[i]
  <2>0. i \in 1 .. Len(S) - n /\ L[i] = S[n + i] /\ i \in Nat
    BY <1>0, <1>1, <1>4
  <2>1. CASE i <= Len(s) - n
    <3>1. n + i \in 1 .. Len(s) /\ i \in 1 .. Len(B) /\ i \in 1 .. Len(s) - n
      BY <1>0, <1>2, <2>0, <2>1
    <3> QED BY <1>1, <1>2, <1>5, <2>0, <3>1
  <2>2. CASE i = Len(s) - n + 1
    <3>1. n + i = Len(s) + 1 /\ i = Len(B) + 1
      BY <1>0, <1>2, <2>2
    <3> QED BY <1>1, <1>5, <2>0, <3>1
  <2>3. CASE i > Len(s) - n + 1
    <3> DEFINE j == i - (Len(s) - n) - 1
    <3>1. j \in 1 .. Len(c) /\ n + i = Len(s) + 1 + j /\ i = Len(B) + 1 + j
      BY <1>0, <1>1, <1>2, <2>0, <2>3
    <3> HIDE DEF j
    <3> QED BY <1>1, <1>5, <2>0, <3>1
  <2> QED BY <1>0, <2>0, <2>1, <2>2, <2>3
<1>8. L = R
  BY <1>4, <1>5, <1>6, <1>7, SameSeq
<1> QED BY <1>8 DEF L, R, S, B

LEMMA BehindAll ==
  ASSUME NEW s \in Seq(Char)
  PROVE  Behind(s, Len(s)) = <<>> /\ Behind(s, 0) = s
<1>0. Len(s) \in Nat /\ 0 \in 0 .. Len(s) /\ Len(s) \in 0 .. Len(s) OBVIOUS
<1>1. Behind(s, Len(s)) = <<>>
  <2>1. Behind(s, Len(s)) \in Seq(Char) /\ Len(Behind(s, Len(s))) = Len(s) - Len(s)
    BY <1>0, BehindIs
  <2> DEFINE u == Behind(s, Len(s))
  <2>2. u \in Seq(Char) /\ Len(u) = 0
    BY <1>0, <2>1
  <2> HIDE DEF u
  <2>3. u = <<>>
    BY <2>2
  <2> QED BY <2>3 DEF u
<1>2. Behind(s, 0) = s
  <2> DEFINE u == Behind(s, 0)
  <2>1. u \in Seq(Char) /\ Len(u) = Len(s) - 0 /\ \A i \in 1 .. Len(s) - 0 : u[i] = s[0 + i]
    BY <1>0, BehindIs
  <2> HIDE DEF u
  <2>2. Len(u) = Len(s) /\ \A i \in 1 .. Len(u) : u[i] = s[i]
    <3>1. Len(u) = Len(s) /\ \A i \in 1 .. Len(u) : i \in 1 .. Len(s) - 0 /\ 0 + i = i
      BY <1>0, <2>1
    <3> QED BY <2>1, <3>1
  <2>3. u = s
    BY <2>1, <2>2, SameSeq
  <2> QED BY <2>3 DEF u
<1> QED BY <1>1, <1>2

\* The path of a directory begins with those of all above it, and goes on
\* with a slash.
LEMMA PathsBegin ==
  ASSUME TreeInv, NEW d \in Nodes, NEW b \in Above(d)
  PROVE  /\ b \in Nodes /\ Paths[b] \in Seq(Char) /\ Paths[d] \in Seq(Char) /\ Starts(Paths[b], Paths[d])
         /\ b # d => Len(Paths[b]) < Len(Paths[d]) /\ Paths[d][Len(Paths[b]) + 1] = "/"
<1>0. IsTree(parent)
  BY DEF TreeInv
<1>a. b \in Nodes /\ Above(d) \subseteq Nodes
  BY <1>0, AboveSelf
<1>b. \A x \in Nodes : Paths[x] \in Seq(Char)
  BY PathsUnfold
<1> DEFINE G == {x \in Nodes : b \in Above(x) =>
                   Starts(Paths[b], Paths[x]) /\ (b # x => Len(Paths[b]) < Len(Paths[x]) /\ Paths[x][Len(Paths[b]) + 1] = "/")}
<1>1. Root \in G
  BY <1>0, <1>b, AboveUnfold, NodesFacts, StartsItself
<1>2. ASSUME NEW y \in Nodes \ {Root}, parent[y] \in G PROVE y \in G
  <2> SUFFICES ASSUME b \in Above(y), b # y
               PROVE  Starts(Paths[b], Paths[y]) /\ Len(Paths[b]) < Len(Paths[y]) /\ Paths[y][Len(Paths[b]) + 1] = "/"
    BY <1>b, StartsItself
  <2> DEFINE p == Paths[parent[y]]
             c == name[y]
             q == Paths[b]
  <2>1. parent[y] \in Nodes /\ Paths[y] = Join(p, c) /\ c \in Seq(Char) /\ p \in Seq(Char) /\ q \in Seq(Char)
    BY <1>0, <1>a, <1>b, TreeTyped, PathsUnfold, NamesAreComponents DEF Comps, Join
  <2>2. b \in Above(parent[y])
    BY <1>0, AboveUnfold
  <2>3. Starts(q, p) /\ (b # parent[y] => Len(q) < Len(p) /\ p[Len(q) + 1] = "/") /\ (b = parent[y] => q = p)
    BY <1>2, <2>2
  <2> HIDE DEF p, c, q
  <2> DEFINE J == Join(p, c)
  <2>4. Len(J) = Len(p) + 1 + Len(c) /\ J[Len(p) + 1] = "/" /\ \A i \in 1 .. Len(p) : J[i] = p[i]
    BY <2>1, JoinIs
  <2>5. Starts(q, J)
    BY <2>1, <2>3, StartsJoined DEF Join
  <2> HIDE DEF J
  <2>6. Len(p) \in Nat /\ Len(c) \in Nat /\ Len(q) \in Nat /\ Len(q) <= Len(p)
    BY <2>1, <2>3 DEF Starts
  <2>7. Len(q) < Len(J) /\ J[Len(q) + 1] = "/"
    <3>1. CASE b = parent[y]
      BY <2>3, <2>4, <2>6, <3>1
    <3>2. CASE b # parent[y]
      <4>1. Len(q) + 1 \in 1 .. Len(p)
        BY <2>3, <2>6, <3>2
      <4> QED BY <2>3, <2>4, <2>6, <3>2, <4>1
    <3> QED BY <3>1, <3>2
  <2> QED BY <2>1, <2>5, <2>7 DEF J, q
<1>3. Nodes \subseteq G
  <2> HIDE DEF G
  <2> QED BY <1>0, <1>1, <1>2, TreeDown
<1> QED BY <1>3, <1>a, <1>b

LEMMA RelIs ==
  ASSUME TreeInv, NEW d \in Nodes, NEW b \in Above(d)
  PROVE  /\ Rel(b, d) \in Seq(Char) /\ Len(Paths[b]) \in 0 .. Len(Paths[d])
         /\ b = d => Rel(b, d) = <<>>
         /\ b # d => Rel(b, d) # <<>> /\ Rel(b, d)[1] = "/"
<1> DEFINE q == Paths[b]
           p == Paths[d]
           r == Behind(p, Len(q))
<1>1. /\ p \in Seq(Char) /\ q \in Seq(Char) /\ Starts(q, p)
      /\ b # d => Len(q) < Len(p) /\ p[Len(q) + 1] = "/"
  BY PathsBegin
<1>2. b = d => q = p OBVIOUS
<1> HIDE DEF p, q
<1>3. Len(q) \in Nat /\ Len(p) \in Nat /\ Len(q) \in 0 .. Len(p)
  BY <1>1 DEF Starts
<1>4. r \in Seq(Char) /\ Len(r) = Len(p) - Len(q) /\ \A i \in 1 .. Len(p) - Len(q) : r[i] = p[Len(q) + i]
  BY <1>1, <1>3, BehindIs
<1>5. b = d => r = <<>>
  BY <1>1, <1>2, BehindAll
<1> HIDE DEF r
<1>6. ASSUME b # d PROVE r # <<>> /\ r[1] = "/"
  <2>1. 1 \in 1 .. Len(p) - Len(q) /\ Len(r) # 0
    BY <1>1, <1>3, <1>4, <1>6
  <2> QED BY <1>1, <1>4, <1>6, <2>1
<1> QED BY <1>3, <1>4, <1>5, <1>6 DEF Rel, r, p, q

LEMMA RelChild ==
  ASSUME TreeInv, NEW c \in Nodes, NEW b \in Above(c), NEW y \in Children(c)
  PROVE  Rel(b, y) = Join(Rel(b, c), name[y])
<1>1. y \in Nodes \ {Root} /\ parent[y] = c /\ name[y] \in Seq(Char)
  BY NamesAreComponents DEF Children, Comps
<1>2. Paths[y] = Join(Paths[c], name[y]) /\ Paths[c] \in Seq(Char)
  BY <1>1, PathsUnfold DEF Join
<1>3. Len(Paths[b]) \in 0 .. Len(Paths[c])
  BY RelIs
<1> QED BY <1>1, <1>2, <1>3, BehindJoin DEF Rel

LEMMA JoinText ==
  ASSUME NEW s, IsText(s), NEW c, IsText(c)
  PROVE  IsText(Join(s, c))
<1>0. s \in Seq(Char) /\ c \in Seq(Char) /\ DOMAIN s = 1 .. Len(s) /\ DOMAIN c = 1 .. Len(c)
  BY DEF IsText
<1> DEFINE J == Join(s, c)
<1>1. /\ J \in Seq(Char) /\ Len(J) = Len(s) + 1 + Len(c)
      /\ \A i \in 1 .. Len(s) : J[i] = s[i]
      /\ J[Len(s) + 1] = "/"
      /\ \A i \in 1 .. Len(c) : J[Len(s) + 1 + i] = c[i]
  BY <1>0, JoinIs
<1> HIDE DEF J
<1>2. ASSUME NEW i \in DOMAIN J PROVE J[i] # "NUL"
  <2>0. i \in 1 .. Len(J) /\ Len(s) \in Nat /\ Len(c) \in Nat
    BY <1>0, <1>1, <1>2
  <2>1. CASE i \in 1 .. Len(s)
    BY <1>0, <1>1, <2>1 DEF IsText
  <2>2. CASE i = Len(s) + 1
    BY <1>1, <2>2
  <2>3. CASE i > Len(s) + 1
    <3> DEFINE j == i - Len(s) - 1
    <3>1. j \in 1 .. Len(c) /\ i = Len(s) + 1 + j
      BY <1>1, <2>0, <2>3
    <3> HIDE DEF j
    <3> QED BY <1>0, <1>1, <3>1 DEF IsText
  <2> QED BY <2>0, <2>1, <2>2, <2>3
<1>3. IsText(J)
  BY <1>1, <1>2 DEF IsText
<1> QED BY <1>3 DEF J

LEMMA BehindText ==
  ASSUME NEW s, IsText(s), NEW n \in 0 .. Len(s)
  PROVE  IsText(Behind(s, n)) /\ (Match!NoBar(s) => Match!NoBar(Behind(s, n)))
<1>0. s \in Seq(Char) /\ DOMAIN s = 1 .. Len(s) /\ Len(s) \in Nat /\ n \in Nat /\ n <= Len(s)
  BY DEF IsText
<1> DEFINE u == Behind(s, n)
<1>1. u \in Seq(Char) /\ Len(u) = Len(s) - n /\ \A i \in 1 .. Len(s) - n : u[i] = s[n + i]
  BY <1>0, BehindIs
<1> HIDE DEF u
<1>2. \A i \in DOMAIN u : n + i \in DOMAIN s /\ u[i] = s[n + i]
  BY <1>0, <1>1
<1>3. IsText(u) /\ (Match!NoBar(s) => Match!NoBar(u))
  BY <1>1, <1>2 DEF IsText, Match!NoBar
<1> QED BY <1>3 DEF u

LEMMA NameText ==
  ASSUME TreeInv, NEW d, NEW x \in Ids(d)
  PROVE  IsText(EntryName(x))
<1>1. EntryName(x) \in Comps
  BY IdsTyped
<1>2. CASE x \in {-1, 0}
  <2>1. EntryName(x) \in {Dot, DotDot}
    BY <1>2, IdsTyped
  <2>2. IsText(Dot) /\ IsText(DotDot)
    <3>1. Dot \in Seq(Char) /\ DotDot \in Seq(Char)
      BY Separators
    <3>2. (\A i \in DOMAIN Dot : Dot[i] # "NUL") /\ \A i \in DOMAIN DotDot : DotDot[i] # "NUL"
      BY DEF Dot, DotDot
    <3> QED BY <3>1, <3>2 DEF IsText
  <2> QED BY <2>1, <2>2
<1>3. CASE x \notin {-1, 0}
  <2>1. x \in Nodes \ {Root} /\ EntryName(x) = name[x]
    BY <1>3, IdsTyped
  <2>2. IsName(name[x])
    BY <2>1 DEF TreeInv
  <2> QED BY <1>1, <2>1, <2>2 DEF IsText, IsName, Comps
<1> QED BY <1>2, <1>3

\* The path of a file starts with one slash, and has no NUL.
LEMMA PathsText ==
  ASSUME TreeInv, NEW d \in Nodes
  PROVE  /\ IsText(Paths[d])
         /\ d # Root => Len(Paths[d]) >= 2 /\ Paths[d][1] = "/" /\ Paths[d][2] # "/"
<1>0. IsTree(parent)
  BY DEF TreeInv
<1> DEFINE G == {x \in Nodes : /\ IsText(Paths[x])
                               /\ x # Root => Len(Paths[x]) >= 2 /\ Paths[x][1] = "/" /\ Paths[x][2] # "/"}
<1>1. Root \in G
  <2>1. Paths[Root] = <<>> /\ Root \in Nodes
    BY PathsUnfold, NodesFacts
  <2>2. IsText(<<>>)
    BY Separators DEF IsText
  <2> QED BY <2>1, <2>2
<1>2. ASSUME NEW y \in Nodes \ {Root}, parent[y] \in G PROVE y \in G
  <2> DEFINE p == Paths[parent[y]]
             c == name[y]
             J == Join(p, c)
  <2>1. /\ parent[y] \in Nodes /\ Paths[y] = J /\ IsText(p)
        /\ p = <<>> \/ (Len(p) >= 2 /\ p[1] = "/" /\ p[2] # "/")
    BY <1>0, <1>2, TreeTyped, PathsUnfold DEF Join
  <2>2. c \in Comps /\ IsText(c)
    <3>1. c \in Comps
      BY NamesAreComponents
    <3> QED BY <3>1 DEF TreeInv, IsName, IsText, Comps
  <2> HIDE DEF p, c
  <2>3. p \in Seq(Char) /\ c \in Seq(Char) /\ Len(p) \in Nat /\ Len(c) \in Nat /\ Len(c) >= 1 /\ c[1] # "/"
    <3>1. p \in Seq(Char) /\ c \in Seq(Char) /\ c # <<>> /\ \A i \in 1 .. Len(c) : c[i] # "/"
      BY <2>1, <2>2 DEF IsText, Comps, IsComponent
    <3>2. Len(p) \in Nat /\ Len(c) \in Nat /\ Len(c) >= 1
      BY <3>1
    <3>3. 1 \in 1 .. Len(c)
      BY <3>2
    <3> QED BY <3>1, <3>2, <3>3
  <2>4. IsText(J)
    BY <2>1, <2>2, JoinText
  <2>5. /\ Len(J) = Len(p) + 1 + Len(c)
        /\ \A i \in 1 .. Len(p) : J[i] = p[i]
        /\ J[Len(p) + 1] = "/"
        /\ \A i \in 1 .. Len(c) : J[Len(p) + 1 + i] = c[i]
    BY <2>3, JoinIs
  <2> HIDE DEF J
  <2>6. Len(J) >= 2
    BY <2>3, <2>5
  <2>7. CASE p = <<>>
    <3>1. Len(p) = 0 /\ 1 \in 1 .. Len(c) /\ 0 + 1 = 1 /\ 1 + 1 = 2
      BY <2>3, <2>7
    <3>2. J[1] = "/" /\ J[2] = c[1]
      BY <2>5, <3>1
    <3> QED BY <2>1, <2>3, <2>4, <2>6, <3>2
  <2>8. CASE Len(p) >= 2 /\ p[1] = "/" /\ p[2] # "/"
    <3>1. 1 \in 1 .. Len(p) /\ 2 \in 1 .. Len(p)
      BY <2>3, <2>8
    <3> QED BY <2>1, <2>4, <2>5, <2>6, <2>8, <3>1
  <2> QED BY <2>1, <2>7, <2>8
<1>3. Nodes \subseteq G
  <2> HIDE DEF G
  <2> QED BY <1>0, <1>1, <1>2, TreeDown
<1> QED BY <1>3

\* What match_pathname gets for an entry: ds->path behind ds->base.
Seen(b, d, c) == Behind(Join(AbsPath(d), c), Len(AbsPath(b)))

LEMMA TailIsBehind ==
  ASSUME NEW s \in Seq(Char), s # <<>>
  PROVE  Tail(s) = Behind(s, 1)
<1>1. Len(s) \in Nat /\ Len(s) >= 1 /\ 1 \in 0 .. Len(s) OBVIOUS
<1> DEFINE u == Behind(s, 1)
           v == Tail(s)
<1>2. u \in Seq(Char) /\ Len(u) = Len(s) - 1 /\ \A i \in 1 .. Len(s) - 1 : u[i] = s[1 + i]
  BY <1>1, BehindIs
<1>3. v \in Seq(Char) /\ Len(v) = Len(s) - 1 /\ \A i \in 1 .. Len(v) : v[i] = s[i + 1]
  BY HeadTailProperties
<1> HIDE DEF u, v
<1>4. Len(u) = Len(v) /\ \A i \in 1 .. Len(v) : v[i] = u[i]
  <2>1. \A i \in 1 .. Len(v) : i \in 1 .. Len(s) - 1 /\ 1 + i = i + 1
    BY <1>1, <1>3
  <2> QED BY <1>2, <1>3, <2>1
<1>5. v = u
  BY <1>2, <1>3, <1>4, SameSeq
<1> QED BY <1>5 DEF u, v

LEMMA TextsFromTop ==
  ASSUME TreeInv, NEW d \in Nodes, NEW b \in Above(d), NEW c \in Comps
  PROVE  /\ Join(AbsPath(d), c) \in Seq(Char) /\ Len(AbsPath(b)) \in Nat /\ Len(AbsPath(b)) < Len(Join(AbsPath(d), c))
         /\ b # Root => /\ Join(AbsPath(d), c) = Join(Paths[d], c) /\ Len(AbsPath(b)) \in 0 .. Len(Join(AbsPath(d), c))
                        /\ Seen(b, d, c) = Join(Rel(b, d), c)
         /\ b = Root /\ d = Root => /\ Join(AbsPath(d), c)[2] = "/" /\ Join(Rel(b, d), c) = Behind(Join(AbsPath(d), c), 1)
                                    /\ 1 \in 0 .. Len(Join(AbsPath(d), c)) /\ Seen(b, d, c) = Join(Rel(b, d), c)
         /\ b = Root /\ d # Root => /\ Join(AbsPath(d), c)[2] # "/" /\ Join(Rel(b, d), c) = Join(AbsPath(d), c)
                                    /\ Seen(b, d, c) = Behind(Join(Rel(b, d), c), 1)
                                    /\ Len(Join(Rel(b, d), c)) >= 2
<1> DEFINE P == Join(AbsPath(d), c)
<1>0. /\ b \in Nodes /\ Root \in Nodes /\ c \in Seq(Char) /\ AbsPath(d) \in Seq(Char) /\ Paths[d] \in Seq(Char)
      /\ Paths[b] \in Seq(Char) /\ AbsPath(b) \in Seq(Char)
  BY PathsBegin, NodesFacts, AbsPathType DEF Comps
<1>1. /\ P \in Seq(Char) /\ Len(P) = Len(AbsPath(d)) + 1 + Len(c)
      /\ \A i \in 1 .. Len(AbsPath(d)) : P[i] = AbsPath(d)[i]
      /\ P[Len(AbsPath(d)) + 1] = "/"
  BY <1>0, JoinIs
<1>2. Paths[Root] = <<>> /\ AbsPath(Root) = Slash /\ Len(Slash) = 1 /\ Slash \in Seq(Char)
  BY PathsUnfold, NodesFacts, Separators
<1>3. \A x \in Nodes \ {Root} : AbsPath(x) = Paths[x]
  BY PathsUnfold
<1>4. Len(c) \in Nat /\ Len(AbsPath(d)) \in Nat /\ Len(AbsPath(b)) \in Nat /\ Len(Paths[d]) \in Nat
  BY <1>0
<1>5. CASE b # Root
  <2>1. d # Root
    BY <1>5, AboveUnfold DEF TreeInv
  <2>2. AbsPath(d) = Paths[d] /\ AbsPath(b) = Paths[b]
    BY <1>0, <1>3, <1>5, <2>1
  <2>3. Len(Paths[b]) \in 0 .. Len(Paths[d])
    BY RelIs
  <2>4. Seen(b, d, c) = Join(Rel(b, d), c)
    BY <1>0, <2>2, <2>3, BehindJoin DEF Seen, Rel
  <2> QED BY <1>1, <1>4, <1>5, <2>2, <2>3, <2>4
<1>6. CASE b = Root /\ d = Root
  <2>1. Len(AbsPath(d)) = 1 /\ Len(AbsPath(b)) = 1 /\ 1 + 1 = 2
    BY <1>2, <1>6
  <2>2. P[2] = "/"
    BY <1>1, <2>1
  <2>3. Behind(P, 1) = Join(Behind(AbsPath(d), 1), c)
    <3>1. 1 \in 0 .. Len(AbsPath(d))
      BY <2>1
    <3> QED BY <1>0, <3>1, BehindJoin
  <2>4. Behind(AbsPath(d), 1) = <<>>
    BY <1>0, <2>1, BehindAll
  <2>5. Rel(b, d) = <<>>
    BY <1>6, RelIs
  <2> QED BY <1>1, <1>4, <1>6, <2>1, <2>2, <2>3, <2>4, <2>5 DEF Seen
<1>7. CASE b = Root /\ d # Root
  <2>1. AbsPath(d) = Paths[d] /\ Len(AbsPath(b)) = 1
    BY <1>2, <1>3, <1>7
  <2>2. Len(Paths[d]) >= 2 /\ Paths[d][2] # "/"
    BY <1>7, PathsText
  <2>3. P[2] # "/"
    <3>1. 2 \in 1 .. Len(AbsPath(d))
      BY <1>4, <2>1, <2>2
    <3> QED BY <1>1, <2>1, <2>2, <3>1
  <2>4. Rel(b, d) = Paths[d]
    <3>1. Len(Paths[b]) = 0
      BY <1>2, <1>7
    <3> QED BY <1>0, <3>1, BehindAll DEF Rel
  <2> QED BY <1>1, <1>4, <1>7, <2>1, <2>2, <2>3, <2>4 DEF Seen
<1> QED BY <1>5, <1>6, <1>7

LEMMA RelativeIs ==
  ASSUME TreeInv, NEW t, NEW d \in Nodes, TopDir(t) \in Above(d), NEW c \in Comps
  PROVE  Relative(t, Join(AbsPath(d), c)) = Join(Rel(TopDir(t), d), c)
<1> DEFINE P == Join(AbsPath(d), c)
           b == TopDir(t)
<1>0. Relative(t, P) = IF b # Root THEN Behind(P, Len(AbsPath(b))) ELSE IF P[2] = "/" THEN Tail(P) ELSE P
  BY DEF Relative, Behind
<1> HIDE DEF b
<1>1. /\ P \in Seq(Char) /\ Len(AbsPath(b)) \in Nat /\ Len(AbsPath(b)) < Len(P)
      /\ b # Root => Seen(b, d, c) = Join(Rel(b, d), c)
      /\ b = Root /\ d = Root => P[2] = "/" /\ Join(Rel(b, d), c) = Behind(P, 1)
      /\ b = Root /\ d # Root => P[2] # "/" /\ Join(Rel(b, d), c) = P
  BY TextsFromTop DEF b
<1>2. Seen(b, d, c) = Behind(P, Len(AbsPath(b)))
  BY DEF Seen
<1> HIDE DEF P
<1>3. P # <<>>
  BY <1>1
<1>4. Tail(P) = Behind(P, 1)
  BY <1>1, <1>3, TailIsBehind
<1>5. Relative(t, P) = Join(Rel(b, d), c)
  BY <1>0, <1>1, <1>2, <1>4
<1> QED BY <1>5 DEF P, b

LEMMA RelText ==
  ASSUME TreeInv, NEW d \in Nodes, NEW b \in Above(d), NEW x \in Ids(d)
  PROVE  /\ IsText(Join(Rel(b, d), EntryName(x))) /\ Join(Rel(b, d), EntryName(x)) # <<>>
         /\ Join(Rel(b, d), EntryName(x))[1] = "/"
         /\ Match!NoBar(Join(AbsPath(d), EntryName(x))) => Match!NoBar(Join(Rel(b, d), EntryName(x)))
<1> DEFINE c == EntryName(x)
           P == Join(AbsPath(d), c)
           R == Join(Rel(b, d), c)
<1>1. c \in Comps /\ IsText(c)
  BY IdsTyped, NameText
<1>2. IsText(Paths[d]) /\ IsText(Slash) /\ Len(Paths[b]) \in 0 .. Len(Paths[d])
  <2>1. IsText(Slash)
    BY Separators DEF IsText, Slash
  <2> QED BY <2>1, PathsText, RelIs
<1>3. IsText(AbsPath(d)) /\ IsText(Rel(b, d))
  BY <1>2, PathsUnfold, BehindText DEF Rel
<1> HIDE DEF c
<1>4. IsText(P) /\ IsText(R)
  BY <1>1, <1>3, JoinText
<1>5. Match!NoBar(P) => Match!NoBar(R)
  <2>1. CASE b # Root
    BY <1>1, <1>4, <2>1, TextsFromTop, BehindText DEF Seen
  <2>2. CASE b = Root
    BY <1>1, <1>4, <2>2, TextsFromTop, BehindText
  <2> QED BY <2>1, <2>2
<1>6. R # <<>> /\ R[1] = "/"
  <2> DEFINE r == Rel(b, d)
  <2>1. r \in Seq(Char) /\ (r = <<>> \/ r[1] = "/") /\ c \in Seq(Char)
    BY <1>1, RelIs DEF Comps
  <2> HIDE DEF r
  <2>2. /\ Join(r, c) \in Seq(Char) /\ Len(Join(r, c)) = Len(r) + 1 + Len(c) /\ Join(r, c)[Len(r) + 1] = "/"
        /\ \A i \in 1 .. Len(r) : Join(r, c)[i] = r[i]
    BY <2>1, JoinIs
  <2>3. Len(r) \in Nat /\ Len(c) \in Nat
    BY <2>1
  <2> DEFINE J == Join(r, c)
  <2> HIDE DEF J
  <2>4. J # <<>> /\ J[1] = "/"
    <3>1. J # <<>>
      BY <2>2, <2>3 DEF J
    <3>2. CASE r = <<>>
      BY <2>2, <3>2 DEF J
    <3>3. CASE r # <<>>
      <4>1. 1 \in 1 .. Len(r)
        BY <2>1, <3>3
      <4> QED BY <2>1, <2>2, <3>3, <4>1 DEF J
    <3> QED BY <3>1, <3>2, <3>3
  <2> QED BY <2>4 DEF J, r
<1> QED BY <1>4, <1>5, <1>6 DEF c

\* The matcher below the root gets the path without its first slash.
LEMMA RootText ==
  ASSUME TreeInv, NEW d \in Nodes \ {Root}, NEW x \in Ids(d)
  PROVE  LET R == Join(Rel(Root, d), EntryName(x))
         IN  /\ Seen(Root, d, EntryName(x)) = SubSeq(R, 2, Len(R))
             /\ R[2] # "/" /\ \E q \in 3 .. Len(R) : R[q] = "/"
<1> DEFINE c == EntryName(x)
           R == Join(Rel(Root, d), c)
           p == Paths[d]
<1>1. c \in Comps /\ c \in Seq(Char) /\ p \in Seq(Char) /\ Root \in Above(d) /\ Len(p) >= 2 /\ p[2] # "/"
  BY IdsTyped, PathsText, AboveSelf, PathsUnfold DEF TreeInv, Comps
<1>2. /\ R = Join(AbsPath(d), c) /\ AbsPath(d) = p /\ Seen(Root, d, c) = Behind(R, 1)
  BY <1>1, TextsFromTop, PathsUnfold
<1> HIDE DEF p, c
<1>3. R = Join(p, c)
  BY <1>2
<1> HIDE DEF R
<1>4. /\ Len(R) = Len(p) + 1 + Len(c) /\ R[Len(p) + 1] = "/"
      /\ \A i \in 1 .. Len(p) : R[i] = p[i]
  BY <1>1, <1>3, JoinIs
<1>5. Len(p) \in Nat /\ Len(c) \in Nat /\ 2 \in 1 .. Len(p) /\ Len(p) + 1 \in 3 .. Len(R)
  BY <1>1, <1>4
<1>6. Behind(R, 1) = SubSeq(R, 2, Len(R))
  <2>1. 1 + 1 = 2 OBVIOUS
  <2> QED BY <2>1 DEF Behind
<1>7. R[2] # "/"
  BY <1>1, <1>4, <1>5
<1> QED BY <1>2, <1>4, <1>5, <1>6, <1>7 DEF c, R

\* What the matcher takes for a match is one.
LEMMA SeenSound ==
  ASSUME TreeInv, NEW d \in Nodes, NEW b \in Above(d), NEW x \in Ids(d), NEW t, Match!IsPattern(t),
         b = Root => \A i \in DOMAIN t : t[i] # "/",
         Match!NoBar(Join(AbsPath(d), EntryName(x))) \/ Match!NoBar(t),
         Match!match_pathname(Seen(b, d, EntryName(x)), t) = Match!SUCCESS
  PROVE  \E alt \in Match!Alternatives(t) : Match!RefVerdict(Join(Rel(b, d), EntryName(x)), alt) = Match!SUCCESS
<1> DEFINE R == Join(Rel(b, d), EntryName(x))
           m == Seen(b, d, EntryName(x))
<1>1. IsText(R) /\ R # <<>> /\ R[1] = "/" /\ (Match!NoBar(R) \/ Match!NoBar(t))
  BY RelText
<1>2. CASE b # Root \/ d = Root
  <2>1. m = R
    <3>1. d = Root => b = Root
      BY AboveUnfold DEF TreeInv
    <3>2. EntryName(x) \in Comps
      BY IdsTyped
    <3> QED BY <1>2, <3>1, <3>2, TextsFromTop
  <2> HIDE DEF R
  <2> QED BY <1>1, <2>1, OneVerdict DEF R
<1>3. CASE b = Root /\ d # Root
  <2>1. m = SubSeq(R, 2, Len(R)) /\ R[2] # "/" /\ \E q \in 3 .. Len(R) : R[q] = "/"
    BY <1>3, RootText
  <2>2. PICK q \in 3 .. Len(R) : R[q] = "/"
    BY <2>1
  <2> HIDE DEF R, m
  <2>3. Match!match_pathname(SubSeq(R, 2, Len(R)), t) = Match!SUCCESS
    BY <2>1 DEF m
  <2> QED BY <1>1, <1>3, <2>1, <2>2, <2>3, BelowRoot DEF R
<1> QED BY <1>2, <1>3

\* One alternative with less wildcards than the limit: no match is missed.
LEMMA SeenExact ==
  ASSUME TreeInv, NEW d \in Nodes, NEW b \in Above(d), NEW x \in Ids(d), NEW t, Match!IsPattern(t), Match!NoBar(t),
         Match!Wildcards(t) < MaxNest, b = Root => \A i \in DOMAIN t : t[i] # "/",
         Match!RefVerdict(Join(Rel(b, d), EntryName(x)), t) = Match!SUCCESS
  PROVE  Match!match_pathname(Seen(b, d, EntryName(x)), t) = Match!SUCCESS
<1> DEFINE R == Join(Rel(b, d), EntryName(x))
           m == Seen(b, d, EntryName(x))
<1>1. IsText(R) /\ R # <<>> /\ R[1] = "/"
  BY RelText
<1>2. CASE b # Root \/ d = Root
  <2>1. m = R
    <3>1. d = Root => b = Root
      BY AboveUnfold DEF TreeInv
    <3>2. EntryName(x) \in Comps
      BY IdsTyped
    <3> QED BY <1>2, <3>1, <3>2, TextsFromTop
  <2>2. Match!RefVerdict(R, t) = Match!SUCCESS OBVIOUS
  <2> HIDE DEF R
  <2> QED BY <1>1, <2>1, <2>2, OneVerdict
<1>3. CASE b = Root /\ d # Root
  <2>1. m = SubSeq(R, 2, Len(R)) /\ R[2] # "/" /\ \E q \in 3 .. Len(R) : R[q] = "/"
    BY <1>3, RootText
  <2>2. PICK q \in 3 .. Len(R) : R[q] = "/"
    BY <2>1
  <2>3. Match!RefVerdict(R, t) = Match!SUCCESS OBVIOUS
  <2> HIDE DEF R, m
  <2>4. Match!match_pathname(SubSeq(R, 2, Len(R)), t) = Match!SUCCESS
    BY <1>1, <1>3, <2>1, <2>2, <2>3, BelowRoot
  <2> QED BY <2>1, <2>4 DEF m
<1> QED BY <1>2, <1>3

\* Every directory on the way to a match of an anchored pattern leads there.
LEMMA SeenLeads ==
  ASSUME TreeInv, NEW t, Match!IsPattern(t), Match!NoBar(t), Match!Wildcards(t) < MaxNest, t[1] = "/",
         NEW c \in Nodes, NEW b \in Above(c), b # Root, NEW y \in Children(c), NEW d \in Nodes, y \in Above(d),
         NEW x \in Ids(d), Match!Matches(Join(Rel(b, d), EntryName(x)), t, 1)
  PROVE  Match!match_pathname(Seen(b, c, name[y]), t) = Match!PARTIAL
<1>0. IsTree(parent)
  BY DEF TreeInv
<1>1. y \in Nodes \ {Root} /\ b \in Above(y) /\ b # y /\ name[y] \in Comps
  <2>1. y \in Nodes \ {Root} /\ Above(y) = {y} \cup Above(c) /\ y \notin Above(c)
    BY <1>0, ChildDepth
  <2> QED BY <2>1, NamesAreComponents
<1>2. b \in Above(d) /\ b \in Nodes
  BY <1>0, <1>1, AboveTrans, AboveSelf
<1>3. Seen(b, c, name[y]) = Rel(b, y)
  BY <1>1, TextsFromTop, RelChild
<1> DEFINE n == Len(Paths[b])
           u == Paths[y]
           v == Paths[d]
           e == EntryName(x)
           r == Rel(b, y)
           R == Join(Rel(b, d), e)
<1>4. /\ u \in Seq(Char) /\ v \in Seq(Char) /\ Starts(u, v) /\ e \in Seq(Char)
      /\ y # d => Len(u) < Len(v) /\ v[Len(u) + 1] = "/"
      /\ n \in 0 .. Len(u) /\ n \in 0 .. Len(v) /\ r # <<>>
  BY <1>1, <1>2, PathsBegin, RelIs, IdsTyped DEF Comps
<1>5. /\ r = Behind(u, n) /\ Rel(b, d) = Behind(v, n) /\ (y = d => u = v)
  BY DEF Rel
<1>6. IsText(R) /\ R # <<>> /\ R[1] = "/"
  BY <1>2, RelText
<1>7. Match!Matches(R, t, 1) OBVIOUS
<1> HIDE DEF n, u, v, e, r, R
<1>8. Len(u) \in Nat /\ Len(v) \in Nat /\ n \in Nat /\ n <= Len(u) /\ Len(u) <= Len(v) /\ \A i \in 1 .. Len(u) : u[i] = v[i]
  BY <1>4 DEF Starts
<1>9. r \in Seq(Char) /\ Len(r) = Len(u) - n /\ \A i \in 1 .. Len(u) - n : r[i] = u[n + i]
  BY <1>4, <1>5, BehindIs
<1>10. R = Behind(Join(v, e), n)
  BY <1>4, <1>5, BehindJoin DEF R
<1> DEFINE J == Join(v, e)
<1>11. /\ J \in Seq(Char) /\ Len(J) = Len(v) + 1 + Len(e) /\ J[Len(v) + 1] = "/"
       /\ \A i \in 1 .. Len(v) : J[i] = v[i]
  BY <1>4, JoinIs
<1> HIDE DEF J
<1>12. Len(e) \in Nat /\ n \in 0 .. Len(J) /\ R = Behind(J, n)
  BY <1>4, <1>8, <1>10, <1>11 DEF J
<1>13. R \in Seq(Char) /\ Len(R) = Len(J) - n /\ \A i \in 1 .. Len(J) - n : R[i] = J[n + i]
  BY <1>11, <1>12, BehindIs
<1>14. ASSUME NEW i \in 1 .. Len(r) PROVE r[i] = R[i]
  <2>1. n + i \in 1 .. Len(u) /\ n + i \in 1 .. Len(v) /\ i \in 1 .. Len(J) - n /\ i \in 1 .. Len(u) - n
    BY <1>8, <1>9, <1>11, <1>12
  <2> QED BY <1>8, <1>9, <1>11, <1>13, <2>1
<1>15. Len(r) < Len(R) /\ R[Len(r) + 1] = "/"
  <2>1. Len(r) + 1 \in 1 .. Len(J) - n /\ n + (Len(r) + 1) = Len(u) + 1
    BY <1>8, <1>9, <1>11, <1>12
  <2>2. R[Len(r) + 1] = J[Len(u) + 1]
    BY <1>13, <2>1
  <2>3. J[Len(u) + 1] = "/"
    <3>1. CASE y = d
      BY <1>5, <1>11, <3>1
    <3>2. CASE y # d
      <4>1. Len(u) + 1 \in 1 .. Len(v)
        BY <1>4, <1>8, <3>2
      <4> QED BY <1>4, <1>11, <3>2, <4>1
    <3> QED BY <3>1, <3>2
  <2>4. Len(r) < Len(R)
    BY <1>8, <1>9, <1>11, <1>12, <1>13
  <2> QED BY <2>2, <2>3, <2>4
<1>16. Len(r) \in Nat /\ Len(r) >= 1 /\ Len(R) \in Nat
  BY <1>4, <1>9, <1>13
<1>17. Len(r) + 1 \in 2 .. Len(R) /\ (Len(r) + 1) - 1 = Len(r)
  BY <1>15, <1>16
<1>18. Match!match_pathname(SubSeq(R, 1, (Len(r) + 1) - 1), t) = Match!PARTIAL
  BY <1>6, <1>7, <1>15, <1>17, LeadsDown
<1>19. SubSeq(R, 1, Len(r)) = r
  <2>1. Starts(r, R)
    BY <1>14, <1>15, <1>16 DEF Starts
  <2> QED BY <1>9, <1>13, <1>15, <2>1, CutGivesStart
<1> QED BY <1>3, <1>17, <1>18, <1>19 DEF r

-----------------------------------------------------------------------------
(***************************************************************************)
(* What a directory delivers is in the order of the entries, and all that  *)
(* is behind f_pos is delivered.                                           *)
(***************************************************************************)
InOrder(q) == \A i, j \in 1 .. Len(q) : i < j => q[i].id < q[j].id

LEMMA DueIdsAre ==
  ASSUME TreeInv, NEW d, NEW pos \in Int
  PROVE  DueIds(d, pos) = {y \in Ids(d) : y > pos}
<1>0. NNodes \in Nat
  BY SearchAssumption
<1>1. ASSUME NEW y \in DueIds(d, pos) PROVE y \in Ids(d) /\ y > pos
  BY <1>0, <1>1 DEF DueIds, Ids
<1>2. ASSUME NEW y \in Ids(d), y > pos PROVE y \in DueIds(d, pos)
  <2>1. y \in -1 .. NNodes /\ (y = -1 \/ y = 0 \/ y \in Children(d))
    BY IdsTyped DEF Ids
  <2> QED BY <1>2, <2>1 DEF DueIds
<1> QED BY <1>1, <1>2

LEMMA EntriesInOrder ==
  ASSUME NEW d, NEW pos \in Int
  PROVE  LET q == EntriesFrom(d, pos)
         IN  InOrder(q) /\ \A y \in DueIds(d, pos) : \E i \in 1 .. Len(q) : q[i].id = y
<1> DEFINE n == NNodes + 2
           E == CHOOSE E : AreEntries(d, pos, n, E)
           D == DueEntries(d, pos)
           Good(q, k) == /\ q \in Seq(D) /\ InOrder(q) /\ \A i \in 1 .. Len(q) : q[i].id <= k - 2
                         /\ \A y \in DueIds(d, pos) : y <= k - 2 => \E i \in 1 .. Len(q) : q[i].id = y
           S == {k \in Nat : k <= n => Good(E[k], k)}
<1>0. n \in Nat /\ NNodes \in Nat
  BY SearchAssumption
<1>1. AreEntries(d, pos, n, E)
  <2> HIDE DEF n
  <2> QED BY <1>0, EntriesExist
<1>2. EntriesFrom(d, pos) = E[n]
  BY DEF EntriesFrom, AreEntries, EntriesAt, EntryOf
<1> HIDE DEF E
<1>3. \A k \in 0 .. n : E[k] = EntriesAt(d, pos, E, k)
  BY <1>1 DEF AreEntries
<1>4. 0 \in S
  <2>1. E[0] = <<>>
    BY <1>0, <1>3 DEF EntriesAt
  <2>2. <<>> \in Seq(D) /\ Len(<<>>) = 0 OBVIOUS
  <2>3. \A y \in DueIds(d, pos) : ~ (y <= 0 - 2)
    BY <1>0 DEF DueIds
  <2>4. Good(<<>>, 0)
    BY <2>2, <2>3 DEF InOrder
  <2> HIDE DEF Good
  <2> QED BY <2>1, <2>4
<1>5. ASSUME NEW k \in Nat, k \in S PROVE k + 1 \in S
  <2> SUFFICES ASSUME k + 1 <= n PROVE Good(E[k + 1], k + 1) OBVIOUS
  <2>1. Good(E[k], k) /\ k + 1 \in 0 .. n /\ k + 1 # 0 /\ (k + 1) - 1 = k /\ (k + 1) - 2 = k - 1
    BY <1>0, <1>5
  <2>2. E[k + 1] = IF k - 1 > pos /\ (k - 1 < 1 \/ k - 1 \in Children(d)) THEN Append(E[k], EntryOf(k - 1)) ELSE E[k]
    BY <1>3, <2>1 DEF EntriesAt
  <2> DEFINE q == E[k]
             e == EntryOf(k - 1)
             r == Append(q, e)
  <2>3. /\ q \in Seq(D) /\ InOrder(q) /\ \A i \in 1 .. Len(q) : q[i].id <= k - 2
        /\ \A y \in DueIds(d, pos) : y <= k - 2 => \E i \in 1 .. Len(q) : q[i].id = y
    BY <2>1
  <2>4. \A y \in DueIds(d, pos) : y \in Int
    BY <1>0 DEF DueIds
  <2>5. CASE k - 1 > pos /\ (k - 1 < 1 \/ k - 1 \in Children(d))
    <3>1. k - 1 \in DueIds(d, pos)
      BY <1>0, <2>1, <2>5 DEF DueIds
    <3>2. e \in D /\ e.id = k - 1
      BY <3>1 DEF DueEntries, EntryOf
    <3>3. E[k + 1] = r
      BY <2>2, <2>5
    <3> HIDE DEF q, e, D
    <3>4. /\ r \in Seq(D) /\ Len(r) = Len(q) + 1 /\ r[Len(q) + 1] = e
          /\ \A i \in 1 .. Len(q) : r[i] = q[i]
      BY <2>3, <3>2, AppendProperties
    <3>5. Len(q) \in Nat /\ \A i \in 1 .. Len(q) : q[i].id \in Int
      <4>1. Len(q) \in Nat /\ \A i \in 1 .. Len(q) : q[i] \in D
        BY <2>3
      <4>2. \A z \in D : z.id \in Int
        BY <2>4 DEF D, DueEntries, EntryOf
      <4> QED BY <4>1, <4>2
    <3> HIDE DEF r
    <3>6. ASSUME NEW i \in 1 .. Len(r) PROVE r[i].id <= k - 1 /\ (i = Len(q) + 1 \/ i \in 1 .. Len(q))
      <4>1. CASE i = Len(q) + 1
        BY <3>2, <3>4, <4>1
      <4>2. CASE i # Len(q) + 1
        <5>1. i \in 1 .. Len(q)
          BY <3>4, <3>5, <4>2
        <5>2. q[i].id <= k - 2 /\ q[i].id \in Int
          BY <2>3, <3>5, <5>1
        <5> QED BY <3>4, <5>1, <5>2
      <4> QED BY <4>1, <4>2
    <3>7. InOrder(r)
      <4> SUFFICES ASSUME NEW i \in 1 .. Len(r), NEW j \in 1 .. Len(r), i < j PROVE r[i].id < r[j].id
        BY DEF InOrder
      <4>1. i \in 1 .. Len(q) /\ r[i].id = q[i].id /\ q[i].id <= k - 2 /\ q[i].id \in Int
        <5>1. i \in 1 .. Len(q)
          BY <3>4, <3>5
        <5> QED BY <2>3, <3>4, <3>5, <5>1
      <4>2. CASE j = Len(q) + 1
        BY <3>2, <3>4, <4>1, <4>2
      <4>3. CASE j \in 1 .. Len(q)
        BY <2>3, <3>4, <4>1, <4>3 DEF InOrder
      <4> QED BY <3>6, <4>2, <4>3
    <3>8. ASSUME NEW y \in DueIds(d, pos), y <= k - 1 PROVE \E i \in 1 .. Len(r) : r[i].id = y
      <4>1. CASE y = k - 1
        <5>1. Len(q) + 1 \in 1 .. Len(r)
          BY <3>4, <3>5
        <5> QED BY <3>2, <3>4, <4>1, <5>1
      <4>2. CASE y # k - 1
        <5>1. y <= k - 2
          BY <2>4, <3>8, <4>2
        <5>2. PICK i \in 1 .. Len(q) : q[i].id = y
          BY <2>3, <5>1
        <5>3. i \in 1 .. Len(r)
          BY <3>4, <3>5
        <5> QED BY <3>4, <5>2, <5>3
      <4> QED BY <4>1, <4>2
    <3>9. Good(r, k + 1)
      BY <2>1, <3>4, <3>6, <3>7, <3>8
    <3> QED BY <3>3, <3>9
  <2>6. CASE ~ (k - 1 > pos /\ (k - 1 < 1 \/ k - 1 \in Children(d)))
    <3>1. E[k + 1] = q
      BY <2>2, <2>6
    <3>2. k - 1 \notin DueIds(d, pos)
      BY <2>6 DEF DueIds
    <3> HIDE DEF q, D
    <3>3. \A i \in 1 .. Len(q) : q[i].id <= k - 1
      <4> SUFFICES ASSUME NEW i \in 1 .. Len(q) PROVE q[i].id <= k - 1 OBVIOUS
      <4>1. q[i] \in D /\ q[i].id <= k - 2
        BY <2>3
      <4>2. q[i].id \in Int
        BY <2>4, <4>1 DEF D, DueEntries, EntryOf
      <4> QED BY <4>1, <4>2
    <3>4. \A y \in DueIds(d, pos) : y <= k - 1 => y <= k - 2
      BY <2>4, <3>2
    <3>5. Good(q, k + 1)
      BY <2>1, <2>3, <3>3, <3>4
    <3> QED BY <3>1, <3>5
  <2> QED BY <2>5, <2>6
<1>6. Nat \subseteq S
  <2> HIDE DEF S
  <2> QED BY <1>4, <1>5, NatUp
<1>7. Good(E[n], n)
  BY <1>0, <1>6, SMTT(20)
<1> DEFINE q == E[n]
<1>8. InOrder(q) /\ \A y \in DueIds(d, pos) : y <= n - 2 => \E i \in 1 .. Len(q) : q[i].id = y
  BY <1>7
<1>9. \A y \in DueIds(d, pos) : y <= n - 2
  BY <1>0 DEF DueIds
<1> HIDE DEF n
<1> QED BY <1>2, <1>8, <1>9

-----------------------------------------------------------------------------
(***************************************************************************)
(* What a frame has still to look at: the entries delivered and the ones   *)
(* behind f_pos.                                                           *)
(***************************************************************************)
IdsOf == [d \in Nodes |-> Ids(d)]
EntryAt == [x \in -1 .. NNodes |-> EntryOf(x)]

Left(I, f) == {y \in I[f.fp] : y > f.pos \/ \E i \in 1 .. Len(f.pending) : f.pending[i].id = y}
Ordered(I, E, f) ==
  /\ InOrder(f.pending)
  /\ \A i \in 1 .. Len(f.pending) : /\ f.pending[i].id \in I[f.fp] /\ f.pending[i].id <= f.pos
                                    /\ f.pending[i] = E[f.pending[i].id]

LEMMA StaticStays ==
  ASSUME UNCHANGED treeVars
  PROVE  IdsOf' = IdsOf /\ EntryAt' = EntryAt
  BY DEF treeVars, IdsOf, Ids, Children, EntryAt, EntryOf, EntryName

LEMMA StaticIs ==
  ASSUME TreeInv, NEW d \in Nodes
  PROVE  /\ IdsOf[d] = Ids(d)
         /\ \A x \in Ids(d) : x \in Int /\ EntryAt[x] = EntryOf(x) /\ EntryOf(x).name = EntryName(x) /\ EntryOf(x).type = EntryType(x)
<1>1. IdsOf[d] = Ids(d)
  BY DEF IdsOf
<1>2. ASSUME NEW x \in Ids(d)
      PROVE  x \in Int /\ EntryAt[x] = EntryOf(x) /\ EntryOf(x).name = EntryName(x) /\ EntryOf(x).type = EntryType(x)
  <2>1. x \in Int /\ x \in -1 .. NNodes
    BY IdsTyped
  <2> QED BY <2>1 DEF EntryAt, EntryOf
<1> QED BY <1>1, <1>2

\* A call of vfs_readdir moves entries from behind f_pos to the batch.
LEMMA BatchKeepsLeft ==
  ASSUME TreeInv, NEW f \in Frames, f.pending = <<>>, NEW g \in Frames, g.fp = f.fp,
         NEW m \in Nat, m <= Len(EntriesFrom(f.fp, f.pos)), g.pending = SubSeq(EntriesFrom(f.fp, f.pos), 1, m),
         m = 0 => Len(EntriesFrom(f.fp, f.pos)) = 0,
         m # 0 => g.pos = LastId(SubSeq(EntriesFrom(f.fp, f.pos), 1, m))
  PROVE  /\ m = 0 => Left(IdsOf, f) = {}
         /\ m # 0 => Ordered(IdsOf, EntryAt, g) /\ Left(IdsOf, g) = Left(IdsOf, f)
<1> DEFINE q == EntriesFrom(f.fp, f.pos)
           b == SubSeq(q, 1, m)
           D == DueEntries(f.fp, f.pos)
           Y == DueIds(f.fp, f.pos)
<1>0. f.pos \in Int /\ f.fp \in Nodes /\ g.pos \in Int
  BY NodesFacts DEF Frames
<1>1. q \in Seq(D) /\ InOrder(q) /\ \A y \in Y : \E i \in 1 .. Len(q) : q[i].id = y
  BY <1>0, EntriesAreDue, EntriesInOrder
<1>2. Y = {y \in Ids(f.fp) : y > f.pos} /\ IdsOf[f.fp] = Ids(f.fp) /\ Ids(f.fp) \subseteq Int
  BY <1>0, DueIdsAre, StaticIs
<1>3. Left(IdsOf, f) = Y
  <2>1. Len(f.pending) = 0 OBVIOUS
  <2> QED BY <1>2, <2>1 DEF Left
<1>4. m <= Len(q) /\ g.pending = b /\ (m = 0 => Len(q) = 0) /\ (m # 0 => g.pos = LastId(b)) OBVIOUS
<1>5. \A e \in D : e.id \in Y /\ e = EntryAt[e.id] /\ e.id \in Int
  <2> SUFFICES ASSUME NEW y \in Y PROVE EntryOf(y).id \in Y /\ EntryOf(y) = EntryAt[EntryOf(y).id] /\ EntryOf(y).id \in Int
    BY DEF D, DueEntries
  <2>1. EntryOf(y).id = y
    BY DEF EntryOf
  <2> QED BY <1>0, <1>2, <2>1, StaticIs
<1> HIDE DEF q, D, Y
<1>6. Len(q) \in Nat /\ \A i \in 1 .. Len(q) : q[i] \in D /\ q[i].id \in Y /\ q[i].id \in Int
  BY <1>1, <1>5
<1>7. b \in Seq(D) /\ Len(b) = m /\ \A i \in 1 .. m : b[i] = q[i] /\ i \in 1 .. Len(q)
  <2>1. \A i \in 1 .. m : i \in 1 .. Len(q) /\ q[i] \in D
    BY <1>4, <1>6
  <2>2. /\ SubSeq(q, 1, m) \in Seq(D) /\ Len(SubSeq(q, 1, m)) = (IF 1 <= m THEN m - 1 + 1 ELSE 0)
        /\ \A i \in 1 .. m - 1 + 1 : SubSeq(q, 1, m)[i] = q[1 + i - 1]
    <3>1. 1 \in Int /\ m \in Int /\ \A i \in 1 .. m : q[i] \in D
      BY <2>1
    <3> QED BY <3>1, SubSeqProperties
  <2>3. \A i \in 1 .. m : i \in 1 .. m - 1 + 1 /\ 1 + i - 1 = i OBVIOUS
  <2> QED BY <2>1, <2>2, <2>3
<1> HIDE DEF b
<1>8. m = 0 => Y = {}
  BY <1>1, <1>4
<1>9. ASSUME m # 0 PROVE Ordered(IdsOf, EntryAt, g) /\ Left(IdsOf, g) = Y
  <2>1. m \in 1 .. m /\ g.pos = q[m].id
    BY <1>4, <1>7, <1>9 DEF LastId
  <2>2. InOrder(b)
    BY <1>1, <1>7 DEF InOrder
  <2>3. ASSUME NEW i \in 1 .. m PROVE b[i].id \in Y /\ b[i].id <= g.pos /\ b[i] = EntryAt[b[i].id] /\ b[i].id \in IdsOf[f.fp] /\ b[i].id \in Int
    <3>1. b[i] = q[i] /\ i \in 1 .. Len(q) /\ m \in 1 .. Len(q)
      BY <1>7, <2>1
    <3>2. i = m \/ i < m OBVIOUS
    <3>3. q[i].id <= q[m].id
      BY <1>1, <1>6, <3>1, <3>2 DEF InOrder
    <3> QED BY <1>2, <1>5, <1>6, <2>1, <3>1, <3>3
  <2>4. Ordered(IdsOf, EntryAt, g)
    BY <1>4, <1>7, <2>2, <2>3 DEF Ordered
  <2>5. ASSUME NEW y \in Y PROVE y > g.pos \/ \E i \in 1 .. m : b[i].id = y
    <3>1. PICK i \in 1 .. Len(q) : q[i].id = y
      BY <1>1
    <3>2. CASE i <= m
      BY <1>7, <3>1, <3>2
    <3>3. CASE ~ (i <= m)
      <4>1. m < i /\ m \in 1 .. Len(q)
        BY <1>7, <2>1, <3>3
      <4>2. q[m].id < q[i].id /\ q[m].id \in Int /\ q[i].id \in Int
        BY <1>1, <1>6, <4>1 DEF InOrder
      <4> QED BY <2>1, <3>1, <4>2
    <3> QED BY <3>2, <3>3
  <2>6. g.pos \in Y /\ g.pos > f.pos
    <3>1. q[m].id \in Y
      BY <1>6, <1>7, <2>1
    <3> QED BY <1>2, <2>1, <3>1
  <2>7. Left(IdsOf, g) = {y \in Ids(f.fp) : y > g.pos \/ \E i \in 1 .. m : b[i].id = y}
    BY <1>2, <1>4, <1>7 DEF Left
  <2>8. ASSUME NEW y \in Ids(f.fp), y > g.pos \/ \E i \in 1 .. m : b[i].id = y PROVE y \in Y
    <3>1. CASE y > g.pos
      BY <1>0, <1>2, <2>6, <3>1
    <3>2. CASE \E i \in 1 .. m : b[i].id = y
      BY <2>3, <3>2
    <3> QED BY <2>8, <3>1, <3>2
  <2> QED BY <1>2, <2>4, <2>5, <2>7, <2>8
<1> QED BY <1>3, <1>8, <1>9

\* Taking the first delivered entry takes it from what is left.
LEMMA HeadLeaves ==
  ASSUME TreeInv, NEW f \in Frames, Ordered(IdsOf, EntryAt, f), f.pending # <<>>,
         NEW g \in Frames, g.fp = f.fp, g.pos = f.pos, g.pending = Tail(f.pending)
  PROVE  /\ Head(f.pending).id \in Left(IdsOf, f) /\ Head(f.pending) = EntryOf(Head(f.pending).id)
         /\ Head(f.pending).id \in Ids(f.fp)
         /\ Ordered(IdsOf, EntryAt, g) /\ Left(IdsOf, g) = Left(IdsOf, f) \ {Head(f.pending).id}
<1> DEFINE q == f.pending
           r == Tail(q)
           h == Head(q)
           I == Ids(f.fp)
<1>0. f.pos \in Int /\ f.fp \in Nodes /\ q \in Seq(Entries)
  BY NodesFacts DEF Frames
<1>1. IdsOf[f.fp] = I /\ \A x \in I : x \in Int /\ EntryAt[x] = EntryOf(x)
  BY <1>0, StaticIs
<1>2. InOrder(q) /\ q # <<>> /\ \A i \in 1 .. Len(q) : q[i].id \in I /\ q[i].id <= f.pos /\ q[i] = EntryAt[q[i].id] /\ q[i].id \in Int
  BY <1>1 DEF Ordered
<1>3. g.pending = r /\ Left(IdsOf, f) = {y \in I : y > f.pos \/ \E i \in 1 .. Len(q) : q[i].id = y}
      /\ Left(IdsOf, g) = {y \in I : y > f.pos \/ \E i \in 1 .. Len(r) : r[i].id = y}
  BY <1>1 DEF Left
<1> HIDE DEF q, I
<1>4. /\ h = q[1] /\ 1 \in 1 .. Len(q) /\ Len(q) \in Nat /\ Len(r) = Len(q) - 1
      /\ \A i \in 1 .. Len(r) : r[i] = q[i + 1] /\ i + 1 \in 1 .. Len(q)
  <2>1. Len(r) = Len(q) - 1 /\ (\A i \in 1 .. Len(r) : r[i] = q[i + 1]) /\ h = q[1] /\ Len(q) \in Nat /\ Len(q) > 0
    <3>1. r \in Seq(Entries) /\ Len(r) = Len(q) - 1 /\ \A i \in 1 .. Len(r) : r[i] = q[i + 1]
      BY <1>0, <1>2, HeadTailProperties
    <3> QED BY <1>0, <1>2, <3>1
  <2> QED BY <2>1
<1> HIDE DEF r, h
<1>5. h.id \in I /\ h = EntryOf(h.id) /\ h.id \in Int /\ h.id <= f.pos
  BY <1>1, <1>2, <1>4
<1>6. InOrder(r)
  <2> SUFFICES ASSUME NEW i \in 1 .. Len(r), NEW j \in 1 .. Len(r), i < j PROVE r[i].id < r[j].id
    BY DEF InOrder
  <2>1. i + 1 \in 1 .. Len(q) /\ j + 1 \in 1 .. Len(q) /\ i + 1 < j + 1
    BY <1>4
  <2> QED BY <1>2, <1>4, <2>1 DEF InOrder
<1>7. Ordered(IdsOf, EntryAt, g)
  BY <1>1, <1>2, <1>3, <1>4, <1>6 DEF Ordered
<1>8. ASSUME NEW i \in 1 .. Len(r) PROVE r[i].id # h.id
  <2>1. i + 1 \in 1 .. Len(q) /\ 1 < i + 1 /\ r[i] = q[i + 1]
    BY <1>4
  <2>2. q[1].id < q[i + 1].id /\ q[1].id \in Int /\ q[i + 1].id \in Int
    BY <1>2, <1>4, <2>1 DEF InOrder
  <2> QED BY <1>4, <2>1, <2>2
<1>9. ASSUME NEW i \in 1 .. Len(q), q[i].id # h.id PROVE \E j \in 1 .. Len(r) : r[j].id = q[i].id
  <2>1. i # 1
    BY <1>4, <1>9
  <2>2. i - 1 \in 1 .. Len(r) /\ (i - 1) + 1 = i
    BY <1>4, <2>1
  <2> QED BY <1>4, <2>2
<1>10. Left(IdsOf, g) = Left(IdsOf, f) \ {h.id}
  <2>1. ASSUME NEW y \in I, y > f.pos \/ \E i \in 1 .. Len(r) : r[i].id = y
        PROVE  (y > f.pos \/ \E i \in 1 .. Len(q) : q[i].id = y) /\ y # h.id
    <3>1. CASE y > f.pos
      BY <1>0, <1>5, <3>1
    <3>2. CASE \E i \in 1 .. Len(r) : r[i].id = y
      BY <1>4, <1>8, <3>2
    <3> QED BY <2>1, <3>1, <3>2
  <2>2. ASSUME NEW y \in I, y > f.pos \/ \E i \in 1 .. Len(q) : q[i].id = y, y # h.id
        PROVE  y > f.pos \/ \E i \in 1 .. Len(r) : r[i].id = y
    BY <1>9, <2>2
  <2> QED BY <1>3, <2>1, <2>2
<1>11. h.id \in Left(IdsOf, f)
  BY <1>3, <1>4, <1>5
<1> QED BY <1>5, <1>7, <1>10, <1>11 DEF q, r, h, I

-----------------------------------------------------------------------------
(***************************************************************************)
(* The list of top directories: strsep returns them in their order, and    *)
(* what is being searched is the current one.                              *)
(***************************************************************************)
InTopPcs == FramePcs \cup {"open", "back", "kern_path", "psearch"}

RestInv ==
  /\ pattern \in Patterns
  /\ Len(rest) <= Len(paths)
  /\ \A i \in 1 .. Len(rest) : rest[i] = paths[Tops + i]
  /\ pc \in InTopPcs => Tops \in 1 .. Len(paths)
  /\ (pc = "open" /\ stack = <<>>) \/ pc = "kern_path" => path = paths[Tops]
  /\ pc \in {"kern_path", "psearch"} => ~ ispattern
  /\ pc \in FramePcs \cup {"open", "back"} => ispattern

LEMMA RestAlways == Spec => []RestInv
<1>1. Init => RestInv
  <2> SUFFICES ASSUME Init PROVE RestInv OBVIOUS
  <2>1. rest = <<>> /\ Len(rest) = 0 /\ pc = "enter" /\ paths \in Seq(Seq(STRING)) /\ pattern \in Patterns
    BY SearchAssumption DEF Init
  <2>2. Len(rest) <= Len(paths)
    BY <2>1
  <2> QED BY <2>1, <2>2 DEF RestInv, InTopPcs, FramePcs
<1>2. StackInv /\ DataInv /\ RestInv /\ [Next]_vars => RestInv'
  <2> SUFFICES ASSUME StackInv, DataInv, RestInv, [Next]_vars PROVE RestInv' OBVIOUS
  <2>1. paths' = paths /\ pattern' = pattern /\ ispattern' = ispattern /\ pattern \in Patterns
    BY ArgsStay DEF argVars, DataInv, ispattern, RestInv
  <2>2. paths \in Seq(Seq(Char)) /\ rest \in Seq(Seq(Char)) /\ Len(paths) \in Nat /\ Len(rest) \in Nat
    BY DEF DataInv, ArgsOK, TextOK
  <2> DEFINE IsRest == Len(rest) <= Len(paths) /\ \A i \in 1 .. Len(rest) : rest[i] = paths[Tops + i]
  <2>3. IsRest
    BY DEF RestInv
  <2>4. UNCHANGED rest => Tops' = Tops /\ IsRest'
    BY <2>1, <2>3 DEF Tops
  <2>5. CASE NextPath
    <3>1. /\ rest # <<>> /\ path' = Head(rest) /\ rest' = Tail(rest) /\ pc = "nextpath"
          /\ IF ispattern THEN pc' = "open" ELSE pc' = "kern_path"
      BY <2>5 DEF NextPath
    <3> DEFINE r == Tail(rest)
    <3>2. /\ Len(r) = Len(rest) - 1 /\ (\A i \in 1 .. Len(r) : r[i] = rest[i + 1]) /\ Head(rest) = rest[1] /\ Len(rest) > 0
      <4>1. r \in Seq(Seq(Char)) /\ Len(r) = Len(rest) - 1 /\ \A i \in 1 .. Len(r) : r[i] = rest[i + 1]
        BY <2>2, <3>1, HeadTailProperties
      <4> QED BY <2>2, <3>1, <4>1
    <3> HIDE DEF r
    <3>3. Tops' = Tops + 1 /\ rest' = r /\ Tops \in Nat /\ Tops + 1 \in 1 .. Len(paths)
      BY <2>1, <2>2, <2>3, <3>1, <3>2 DEF Tops, r
    <3>4. path' = paths[Tops + 1]
      <4>1. 1 \in 1 .. Len(rest)
        BY <2>2, <3>2
      <4> QED BY <2>3, <3>1, <3>2, <4>1
    <3>5. Len(r) <= Len(paths)
      BY <2>2, <2>3, <3>2
    <3>6. ASSUME NEW i \in 1 .. Len(r) PROVE r[i] = paths[Tops + 1 + i]
      <4>1. i + 1 \in 1 .. Len(rest) /\ Tops + (i + 1) = Tops + 1 + i /\ r[i] = rest[i + 1]
        BY <2>2, <3>2, <3>3
      <4> QED BY <2>3, <4>1
    <3>7. /\ pc' \in {"kern_path", "psearch"} => ~ ispattern
          /\ pc' \in FramePcs \cup {"open", "back"} => ispattern
      BY <3>1 DEF FramePcs
    <3> QED BY <2>1, <3>3, <3>4, <3>5, <3>6, <3>7 DEF RestInv
  <2>6. CASE Split
    <3>1. rest' = paths /\ pc' = "nextpath"
      BY <2>6 DEF Split
    <3>2. Tops' = 0
      BY <2>1, <2>2, <3>1 DEF Tops
    <3>3. \A i \in 1 .. Len(paths) : paths[i] = paths[0 + i]
      BY <2>2
    <3> QED BY <2>1, <2>2, <3>1, <3>2, <3>3 DEF RestInv, InTopPcs, FramePcs
  <2>7. ASSUME UNCHANGED rest, pc' \in InTopPcs => pc \in InTopPcs,
               (pc' = "open" /\ stack' = <<>>) \/ pc' = "kern_path" =>
                 ((pc = "open" /\ stack = <<>>) \/ pc = "kern_path") /\ path' = path,
               pc' \in {"kern_path", "psearch"} => ~ ispattern,
               pc' \in FramePcs \cup {"open", "back"} => ispattern
        PROVE  RestInv'
    BY <2>1, <2>4, <2>7 DEF RestInv
  <2>8. CASE AllocDs \/ GetPaths \/ GetPattern \/ AllocDirs \/ StripSlashes \/ BackInSearch \/ Finish \/ Unwind
    <3>1. UNCHANGED rest /\ pc' \notin InTopPcs
      BY <2>8 DEF AllocDs, GetPaths, GetPattern, AllocDirs, Acquire, Exit, StripSlashes, BackInSearch, Finish, Unwind, sysVars,
              InTopPcs, FramePcs
    <3> QED BY <2>7, <3>1 DEF InTopPcs
  <2>9. CASE KernPath \/ Psearch
    <3>1. UNCHANGED rest /\ pc \in {"kern_path", "psearch"} /\ pc' \notin FramePcs \cup {"open", "back", "kern_path"}
      BY <2>9 DEF KernPath, Psearch, Exit, FramePcs
    <3>2. ~ ispattern
      BY <3>1 DEF RestInv
    <3> QED BY <2>7, <3>1, <3>2 DEF InTopPcs
  <2>10. CASE DirectoryStep
    <3>1. /\ UNCHANGED rest /\ pc \in FramePcs \cup {"open", "back"} /\ pc' \in FramePcs \cup {"open", "back"}
          /\ (pc' = "open" => pc = "descend" /\ UNCHANGED stack)
      BY <2>10, DirectoryPlaces
    <3>2. ispattern
      BY <3>1 DEF RestInv
    <3>3. pc' = "open" => stack' # <<>>
      BY <3>1 DEF StackInv, Framed, FramePcs
    <3>4. pc' \notin {"kern_path", "psearch"}
      BY <3>1 DEF FramePcs
    <3> QED BY <2>7, <3>1, <3>2, <3>3, <3>4 DEF InTopPcs
  <2>11. CASE Others \/ UNCHANGED vars
    <3>1. UNCHANGED <<rest, pc, stack, path>>
      BY <2>11 DEF Others, vars, sysVars
    <3> QED BY <2>7, <3>1 DEF RestInv
  <2> QED BY <2>5, <2>6, <2>8, <2>9, <2>10, <2>11 DEF Next, SysStep
<1> QED BY <1>1, <1>2, StackAlways, DataAlways, PTL DEF Spec

\* The tree is at rest until another process changes it.
ApartInv == changes = 0 => AreApart(parent, name)

LEMMA ApartAlways == Spec => []ApartInv
<1>1. Init => ApartInv
  BY SearchAssumption DEF Init, ApartInv
<1>2. TreeInv /\ ApartInv /\ [Next]_vars => ApartInv'
  <2> SUFFICES ASSUME TreeInv, ApartInv, [Next]_vars PROVE ApartInv' OBVIOUS
  <2>1. CASE Others
    <3>1. changes' # 0
      BY <2>1 DEF Others, Change, TreeInv
    <3> QED BY <3>1 DEF ApartInv
  <2>2. CASE UNCHANGED treeVars
    <3>1. UNCHANGED <<parent, name, changes>>
      BY <2>2 DEF treeVars
    <3> QED BY <3>1 DEF ApartInv, AreApart
  <2> QED BY <2>1, <2>2, StepsKeepTree DEF Next, vars
<1> QED BY <1>1, <1>2, TreeAlways, PTL DEF Spec

LEMMA RestsUntilChanged ==
  ASSUME TreeInv, ApartInv, changes = 0
  PROVE  AtRest
  BY DEF TreeInv, ApartInv, AtRest

-----------------------------------------------------------------------------
(***************************************************************************)
(* The walk in a tree at rest.  The first frame is the top directory, each *)
(* other one is of a child of the directory before, and no frame will come *)
(* to the entry again that it is at.                                       *)
(***************************************************************************)
OpenTop == [t \in DOMAIN paths |-> OpenDir(paths[t])]

Chained(I, s) ==
  \A k \in 1 .. Len(s) - 1 :
    /\ s[k + 1].fp \in I[s[k].fp] /\ s[k + 1].fp \notin Left(I, s[k])
    /\ s[k].fp \notin NoExec /\ s[k + 1].fp \notin NoRead \cup Untyped
AllOrdered(I, E, s) == \A k \in 1 .. Len(s) : Ordered(I, E, s[k])
IsCurrent(I, E, f) ==
  \E x \in I[f.fp] : x \notin Left(I, f) /\ f.entry = E[x].name /\ f.type = E[x].type

TopOpened == stack # <<>> => stack[1].fp = OpenTop[Tops]
ChainOK   == Chained(IdsOf, stack)
OrderOK   == AllOrdered(IdsOf, EntryAt, stack)
CurrentOK == /\ pc \in {"report", "descend", "open"} /\ stack # <<>> => IsCurrent(IdsOf, EntryAt, frame)
             /\ pc = "open" /\ stack # <<>> => frame.type = "d"
FreshOK   == pc \in {"abspath", "driver", "readdir"} => frame.pending = <<>>
HowOK     == /\ pc \in {"report", "descend"} =>
                  frame.how = Match!match_pathname(SubSeq(path, base + 1, Len(path)), pattern)
             /\ pc = "report" => frame.how = Match!SUCCESS

WalkFacts == TopOpened /\ ChainOK /\ OrderOK /\ CurrentOK /\ FreshOK /\ HowOK
WalkInv == changes = 0 => WalkFacts

\* Opening the path of an entry opens that entry.
LEMMA OpensChild ==
  ASSUME AtRest, NEW d \in Nodes, NEW y \in Children(d), OpenDir(Join(AbsPath(d), name[y])) \in Nodes
  PROVE  OpenDir(Join(AbsPath(d), name[y])) = y /\ d \notin NoExec /\ y \notin NoRead
<1> DEFINE c == name[y]
           s == AbsPath(d)
           q == Lookup(Root, s)
           r == Lookup(Root, Join(s, c))
<1>0. TreeInv
  BY DEF AtRest
<1>1. c \in Comps /\ IsComponent(c) /\ s \in Seq(Char) /\ Root \in Nodes
  BY <1>0, NamesAreComponents, AbsPathType, NodesFacts DEF Children, Comps
<1>2. -ENOTDIR \notin Nodes /\ -EACCES \notin Nodes /\ \A x \in Nodes : ~ (x < 0)
  BY NodesFacts, Errors DEF ErrorNumbers
<1>3. OpenDir(Join(s, c)) = r /\ r \in Nodes /\ r \notin NoRead
  BY <1>2 DEF OpenDir
<1>4. r = IF q < 0 THEN q ELSE Step(Root, q, c)
  BY <1>0, <1>1, LookupExtend DEF Join
<1>5. q \in Nodes \/ q < 0
  <2>1. q \in Nodes \cup LookupErrors
    BY <1>0, <1>1, LookupTyped
  <2> QED BY <2>1, Errors DEF LookupErrors, ErrorNumbers
<1>6. q \in Nodes
  BY <1>2, <1>3, <1>4, <1>5
<1>7. q = d
  BY <1>6, LookupReturns
<1>8. r = IF d \in NoExec THEN -EACCES ELSE y
  BY <1>2, <1>4, <1>7, StepToChild
<1> QED BY <1>2, <1>3, <1>8

LEMMA OpensClear ==
  ASSUME AtRest, NEW d \in Nodes, Clear(d), d \notin NoExec, NEW y \in Children(d), y \in DirNodes, y \notin NoRead
  PROVE  OpenDir(Join(AbsPath(d), name[y])) = y
<1> DEFINE c == name[y]
           s == AbsPath(d)
           r == Lookup(Root, Join(s, c))
<1>0. TreeInv
  BY DEF AtRest
<1>1. c \in Comps /\ IsComponent(c) /\ s \in Seq(Char) /\ Root \in Nodes
  BY <1>0, NamesAreComponents, AbsPathType, NodesFacts DEF Children, Comps
<1>2. y \in Nodes /\ ~ (y < 0) /\ ~ (d < 0)
  BY NodesFacts DEF Children
<1>3. Lookup(Root, s) = d
  BY LookupPath
<1>4. r = IF d < 0 THEN d ELSE Step(Root, d, c)
  BY <1>0, <1>1, <1>3, LookupExtend DEF Join
<1>5. r = y
  BY <1>2, <1>4, StepToChild
<1> QED BY <1>2, <1>5 DEF OpenDir

\* The directories of the frames are a path down the tree.
LEMMA ChainChild ==
  ASSUME TreeInv, NEW s \in Seq(Frames), Chained(IdsOf, s), NEW k \in 1 .. Len(s) - 1
  PROVE  /\ k \in 1 .. Len(s) /\ k + 1 \in 1 .. Len(s) /\ s[k].fp \in DirNodes /\ s[k].fp \in Nodes /\ s[k + 1].fp \in DirNodes
         /\ s[k + 1].fp \in Children(s[k].fp) /\ s[k + 1].fp \notin Left(IdsOf, s[k])
         /\ s[k].fp \notin NoExec /\ s[k + 1].fp \notin NoRead /\ s[k + 1].fp \notin Untyped
<1>1. k \in 1 .. Len(s) /\ k + 1 \in 1 .. Len(s) OBVIOUS
<1>2. s[k] \in Frames /\ s[k + 1] \in Frames
  BY <1>1
<1>3. s[k].fp \in DirNodes /\ s[k].fp \in Nodes /\ s[k + 1].fp \in DirNodes /\ s[k + 1].fp \in Nodes
  BY <1>2, NodesFacts DEF Frames
<1>4. s[k + 1].fp \in Ids(s[k].fp)
  BY <1>3 DEF Chained, IdsOf
<1>5. s[k + 1].fp \in Children(s[k].fp)
  BY <1>3, <1>4, NodesFacts DEF Ids
<1> QED BY <1>1, <1>3, <1>5 DEF Chained

LEMMA ChainAbove ==
  ASSUME TreeInv, NEW s \in Seq(Frames), Chained(IdsOf, s), NEW k \in 1 .. Len(s)
  PROVE  \A l \in 1 .. Len(s) : k <= l => /\ s[k].fp \in Above(s[l].fp) /\ s[l].fp \in Nodes
                                          /\ DepthOf(s[l].fp) = DepthOf(s[k].fp) + (l - k)
<1>0. IsTree(parent) /\ Len(s) \in Nat
  BY DEF TreeInv
<1> DEFINE G(l) == s[k].fp \in Above(s[l].fp) /\ s[l].fp \in Nodes /\ DepthOf(s[l].fp) = DepthOf(s[k].fp) + (l - k)
           S == {n \in Nat : k + n <= Len(s) => G(k + n)}
<1>1. s[k].fp \in Nodes /\ s[k].fp \in Above(s[k].fp) /\ DepthOf(s[k].fp) \in Nat
  <2>1. s[k] \in Frames OBVIOUS
  <2>2. s[k].fp \in Nodes
    BY <2>1, NodesFacts DEF Frames
  <2> QED BY <1>0, <2>2, AboveSelf, AboveDepth
<1>2. 0 \in S
  <2>1. k + 0 = k /\ k - k = 0 OBVIOUS
  <2> QED BY <1>1, <2>1
<1>3. ASSUME NEW n \in Nat, n \in S PROVE n + 1 \in S
  <2> SUFFICES ASSUME k + (n + 1) <= Len(s) PROVE G(k + (n + 1)) OBVIOUS
  <2> DEFINE m == k + n
             c == s[m].fp
             y == s[m + 1].fp
  <2>1. m \in 1 .. Len(s) - 1 /\ k + (n + 1) = m + 1 /\ G(m) /\ m \in Nat
    BY <1>0, <1>3
  <2>2. y \in Children(c)
    BY <2>1, ChainChild
  <2>3. c \in Nodes /\ s[k].fp \in Above(c) /\ DepthOf(c) = DepthOf(s[k].fp) + (m - k)
    BY <2>1
  <2> HIDE DEF c, y, m
  <2>4. y \in Nodes /\ c \in Above(y) /\ DepthOf(y) = DepthOf(c) + 1
    <3>1. y \in Nodes \ {Root} /\ parent[y] = c
      BY <2>2 DEF Children
    <3> QED BY <1>0, <2>3, <3>1, DepthUnfold, AboveUnfold, AboveSelf
  <2>5. s[k].fp \in Above(y)
    BY <1>0, <2>3, <2>4, AboveTrans
  <2>6. DepthOf(y) = DepthOf(s[k].fp) + (m + 1 - k)
    BY <1>1, <2>1, <2>3, <2>4
  <2>7. G(m + 1)
    <3>1. s[k].fp \in Above(s[m + 1].fp) /\ s[m + 1].fp \in Nodes
      BY <2>4, <2>5 DEF y
    <3>2. DepthOf(s[m + 1].fp) = DepthOf(s[k].fp) + (m + 1 - k)
      BY <2>6 DEF y
    <3> QED BY <2>1, <3>1, <3>2
  <2> QED BY <2>1, <2>7
<1>4. Nat \subseteq S
  <2> HIDE DEF S
  <2> QED BY <1>2, <1>3, NatUp
<1>5. ASSUME NEW l \in 1 .. Len(s), k <= l PROVE G(l)
  <2>1. l - k \in Nat /\ k + (l - k) = l
    BY <1>5
  <2>2. k + (l - k) <= Len(s) => G(k + (l - k))
    BY <1>4, <2>1
  <2> QED BY <2>1, <2>2
<1> QED BY <1>5

\* What no step of search_directory changes.
Still == UNCHANGED treeVars /\ UNCHANGED argVars /\ UNCHANGED rest

LEMMA DirectoryStill ==
  ASSUME ArgsOK, DirectoryStep
  PROVE  Still
<1>1. UNCHANGED treeVars
  BY StepsKeepTree
<1>2. UNCHANGED argVars /\ UNCHANGED rest
  BY DirectoryPlaces
<1> QED BY <1>1, <1>2 DEF Still

LEMMA StillStays ==
  ASSUME Still
  PROVE  /\ IdsOf' = IdsOf /\ EntryAt' = EntryAt /\ OpenTop' = OpenTop /\ Tops' = Tops
         /\ paths' = paths /\ pattern' = pattern /\ changes' = changes
<1>1. UNCHANGED <<paths, pattern, rest, treeVars, changes>>
  BY DEF Still, argVars, treeVars
<1>2. OpenTop' = OpenTop
  BY <1>1 DEF OpenTop, OpenDir, Lookup, Step, Children, treeVars
<1> QED BY <1>1, <1>2, StaticStays DEF Tops

LEMMA WalkSame ==
  ASSUME WalkFacts, Still, UNCHANGED stack
  PROVE  TopOpened' /\ ChainOK' /\ OrderOK' /\ frame' = frame /\ fp' = fp
<1>1. frame' = frame /\ fp' = fp
  BY DEF frame, fp
<1> QED BY <1>1, StillStays DEF WalkFacts, TopOpened, ChainOK, OrderOK

LEMMA WalkWith ==
  ASSUME StackInv, DataInv, WalkFacts, Still, stack # <<>>, NEW f \in Frames, stack' = With(f), f.fp = fp,
         Ordered(IdsOf, EntryAt, f)
  PROVE  TopOpened' /\ ChainOK' /\ OrderOK' /\ frame' = f /\ fp' = fp
<1> DEFINE n == Len(stack)
           I == IdsOf
           E == EntryAt
<1>0. stack \in Seq(Frames) /\ n \in Nat /\ n >= 1 /\ n \in 1 .. n /\ fp = stack[n].fp
  BY TopFrame DEF fp
<1>1. Len(stack') = n /\ stack'[n] = f /\ \A k \in 1 .. n - 1 : stack'[k] = stack[k]
  BY <1>0, WithFrame DEF With
<1>2. frame' = f /\ fp' = fp
  BY <1>1 DEF frame, fp
<1>3. IdsOf' = I /\ EntryAt' = E /\ OpenTop' = OpenTop /\ Tops' = Tops
  BY StillStays
<1>4. Chained(I, stack) /\ AllOrdered(I, E, stack) /\ stack[1].fp = OpenTop[Tops] /\ Ordered(I, E, f)
  BY DEF WalkFacts, TopOpened, ChainOK, OrderOK
<1> HIDE DEF n, I, E
<1>5. \A k \in 1 .. n : stack'[k].fp = stack[k].fp
  <2> SUFFICES ASSUME NEW k \in 1 .. n PROVE stack'[k].fp = stack[k].fp OBVIOUS
  <2>1. k = n \/ k \in 1 .. n - 1
    BY <1>0
  <2> QED BY <1>0, <1>1, <2>1
<1>6. Chained(I, stack')
  <2> SUFFICES ASSUME NEW k \in 1 .. n - 1
               PROVE  /\ stack'[k + 1].fp \in I[stack'[k].fp] /\ stack'[k + 1].fp \notin Left(I, stack'[k])
                      /\ stack'[k].fp \notin NoExec /\ stack'[k + 1].fp \notin NoRead \cup Untyped
    BY <1>1 DEF Chained
  <2>1. k \in 1 .. n /\ k + 1 \in 1 .. n /\ stack'[k] = stack[k] /\ stack'[k + 1].fp = stack[k + 1].fp
    BY <1>0, <1>1, <1>5
  <2> QED BY <1>4, <2>1 DEF Chained, n
<1>7. AllOrdered(I, E, stack')
  <2> SUFFICES ASSUME NEW k \in 1 .. n PROVE Ordered(I, E, stack'[k])
    BY <1>1 DEF AllOrdered
  <2>1. k = n \/ k \in 1 .. n - 1
    BY <1>0
  <2> QED BY <1>1, <1>4, <2>1 DEF AllOrdered, n
<1>8. stack'[1].fp = OpenTop[Tops]
  <2>1. 1 \in 1 .. n
    BY <1>0
  <2> QED BY <1>4, <1>5, <2>1
<1> QED BY <1>2, <1>3, <1>6, <1>7, <1>8 DEF TopOpened, ChainOK, OrderOK

LEMMA PoppedIs ==
  ASSUME NEW s \in Seq(Frames), s # <<>>, NEW t, t = SubSeq(s, 1, Len(s) - 1)
  PROVE  /\ Len(s) \in Nat /\ Len(s) >= 1 /\ Len(t) = Len(s) - 1
         /\ \A k \in 1 .. Len(s) - 1 : t[k] = s[k] /\ k \in 1 .. Len(s)
<1> DEFINE n == Len(s) - 1
<1>1. n \in Nat /\ Len(s) \in Nat /\ Len(s) >= 1 /\ \A i \in 1 .. n : s[i] \in Frames /\ i \in 1 .. Len(s)
  OBVIOUS
<1> HIDE DEF n
<1>2. /\ Len(SubSeq(s, 1, n)) = IF 1 <= n THEN n - 1 + 1 ELSE 0
      /\ \A i \in 1 .. n - 1 + 1 : SubSeq(s, 1, n)[i] = s[1 + i - 1]
  BY <1>1, SubSeqProperties
<1>3. \A i \in 1 .. n : i \in 1 .. n - 1 + 1 /\ 1 + i - 1 = i
  BY <1>1
<1>4. t = SubSeq(s, 1, n)
  BY DEF n
<1>5. Len(t) = n /\ \A k \in 1 .. n : t[k] = s[k]
  BY <1>1, <1>2, <1>3, <1>4
<1> QED BY <1>1, <1>5 DEF n

LEMMA WalkPop ==
  ASSUME StackInv, DataInv, WalkFacts, Still, stack # <<>>, stack' = SubSeq(stack, 1, Len(stack) - 1)
  PROVE  TopOpened' /\ ChainOK' /\ OrderOK'
<1> DEFINE n == Len(stack) - 1
           I == IdsOf
           E == EntryAt
<1>0. stack \in Seq(Frames) /\ n \in Nat
  BY TopFrame
<1>1. Len(stack') = n /\ \A k \in 1 .. n : stack'[k] = stack[k] /\ k \in 1 .. Len(stack)
  BY <1>0, PoppedIs
<1>3. IdsOf' = I /\ EntryAt' = E /\ OpenTop' = OpenTop /\ Tops' = Tops
  BY StillStays
<1>4. Chained(I, stack) /\ AllOrdered(I, E, stack) /\ stack[1].fp = OpenTop[Tops]
  BY DEF WalkFacts, TopOpened, ChainOK, OrderOK
<1>5. ASSUME NEW k \in 1 .. n - 1 PROVE k \in 1 .. n /\ k + 1 \in 1 .. n /\ k \in 1 .. Len(stack) - 1
  BY <1>0
<1>9. stack' # <<>> => 1 \in 1 .. n
  BY <1>0, <1>1
<1> HIDE DEF n, I, E
<1>6. Chained(I, stack')
  <2> SUFFICES ASSUME NEW k \in 1 .. n - 1
               PROVE  /\ stack'[k + 1].fp \in I[stack'[k].fp] /\ stack'[k + 1].fp \notin Left(I, stack'[k])
                      /\ stack'[k].fp \notin NoExec /\ stack'[k + 1].fp \notin NoRead \cup Untyped
    BY <1>1 DEF Chained
  <2>1. k \in 1 .. Len(stack) - 1 /\ stack'[k] = stack[k] /\ stack'[k + 1] = stack[k + 1]
    BY <1>1, <1>5
  <2> QED BY <1>4, <2>1 DEF Chained
<1>7. AllOrdered(I, E, stack')
  BY <1>1, <1>4 DEF AllOrdered
<1>8. stack' # <<>> => stack'[1].fp = OpenTop[Tops]
  BY <1>1, <1>4, <1>9
<1> QED BY <1>3, <1>6, <1>7, <1>8 DEF TopOpened, ChainOK, OrderOK

\* The entry the top frame is at.
LEMMA CurrentIs ==
  ASSUME AtRest, StackInv, DataInv, PathFacts, WalkFacts, stack # <<>>, pc \in {"report", "descend", "open"}
  PROVE  /\ fp \in Nodes /\ fp \in DirNodes /\ frame.fp = fp
         /\ path = Join(AbsPath(fp), frame.entry)
         /\ \E x \in Ids(fp) : x \notin Left(IdsOf, frame) /\ frame.entry = EntryName(x) /\ frame.type = EntryType(x)
         /\ \A x, y \in Ids(fp) : EntryName(x) = EntryName(y) => x = y
<1>0. TreeInv
  BY DEF AtRest
<1>1. fp \in Nodes /\ fp \in DirNodes /\ frame.fp = fp
  BY TopFrame
<1>2. path = Join(AbsPath(fp), frame.entry)
  BY <1>0, <1>1, AbsTyped DEF PathFacts, AtEntry, Join
<1>3. PICK x \in IdsOf[frame.fp] : x \notin Left(IdsOf, frame) /\ frame.entry = EntryAt[x].name /\ frame.type = EntryAt[x].type
  BY DEF WalkFacts, CurrentOK, IsCurrent
<1>4. x \in Ids(fp) /\ EntryAt[x].name = EntryName(x) /\ EntryAt[x].type = EntryType(x)
  BY <1>0, <1>1, <1>3, StaticIs
<1>5. \A u, v \in Ids(fp) : EntryName(u) = EntryName(v) => u = v
  BY IdsApart
<1> QED BY <1>1, <1>2, <1>3, <1>4, <1>5

\* An entry that is entered is a directory and its type was seen.
LEMMA EnteredIs ==
  ASSUME TreeInv, NEW d, NEW x \in Ids(d), EntryName(x) \notin {Dot, DotDot}, EntryType(x) = "d"
  PROVE  x \in Children(d) /\ x \in DirNodes /\ x \notin Untyped /\ EntryName(x) = name[x]
<1>1. x \in Children(d)
  BY DEF Ids, EntryName
<1>2. x \in Nodes /\ ~ (x < 1) /\ x # -1 /\ x # 0
  BY <1>1, NodesFacts DEF Children
<1>3. "d" # "o" OBVIOUS
<1> QED BY <1>1, <1>2, <1>3 DEF EntryType, EntryName

LEMMA OpenTakes ==
  ASSUME AtRest, StackInv, DataInv, PathFacts, RestInv, WalkFacts, Open
  PROVE  /\ OpenDir(path) \in DirNodes /\ OpenDir(path) \in Nodes
         /\ stack = <<>> => OpenDir(path) = OpenTop[Tops]
         /\ stack # <<>> => /\ fp \in Nodes /\ OpenDir(path) \in Children(fp) /\ frame.entry = name[OpenDir(path)]
                            /\ OpenDir(path) \notin Left(IdsOf, frame)
                            /\ fp \notin NoExec /\ OpenDir(path) \notin NoRead /\ OpenDir(path) \notin Untyped
<1> DEFINE r == OpenDir(path)
<1>0. TreeInv
  BY DEF AtRest
<1>1. pc = "open" /\ r \in DirNodes /\ r \in Nodes
  BY NodesFacts DEF Open
<1>2. stack = <<>> => r = OpenTop[Tops]
  <2>1. stack = <<>> => path = paths[Tops] /\ Tops \in 1 .. Len(paths)
    BY <1>1 DEF RestInv, InTopPcs
  <2>2. Tops \in 1 .. Len(paths) => Tops \in DOMAIN paths
    BY DEF DataInv, ArgsOK
  <2> QED BY <2>1, <2>2 DEF OpenTop
<1>3. ASSUME stack # <<>>
      PROVE  /\ fp \in Nodes /\ r \in Children(fp) /\ frame.entry = name[r] /\ r \notin Left(IdsOf, frame)
             /\ fp \notin NoExec /\ r \notin NoRead /\ r \notin Untyped
  <2>1. fp \in Nodes /\ path = Join(AbsPath(fp), frame.entry)
    BY <1>1, <1>3, CurrentIs
  <2>2. PICK x \in Ids(fp) : x \notin Left(IdsOf, frame) /\ frame.entry = EntryName(x) /\ frame.type = EntryType(x)
    BY <1>1, <1>3, CurrentIs
  <2>3. frame.type = "d" /\ frame.entry \notin {Dot, DotDot}
    BY <1>1, <1>3 DEF WalkFacts, CurrentOK, PathFacts, ToOpen
  <2>4. x \in Children(fp) /\ x \notin Untyped /\ frame.entry = name[x]
    BY <1>0, <2>2, <2>3, EnteredIs
  <2>5. r = x /\ fp \notin NoExec /\ x \notin NoRead
    <3>1. OpenDir(Join(AbsPath(fp), name[x])) \in Nodes
      BY <1>1, <2>1, <2>4
    <3> QED BY <2>1, <2>4, <3>1, OpensChild
  <2> QED BY <2>1, <2>2, <2>4, <2>5
<1> QED BY <1>1, <1>2, <1>3

LEMMA WalkOpen ==
  ASSUME AtRest, StackInv, DataInv, PathFacts, RestInv, WalkFacts, Still, Open
  PROVE  WalkFacts'
<1> DEFINE r == OpenDir(path)
           f == [fp |-> r, dir |-> 0, pos |-> -2, pending |-> <<>>,
                 entry |-> <<>>, type |-> "o", how |-> Match!FAILURE]
           n == Len(stack)
           I == IdsOf
           E == EntryAt
<1>0. TreeInv
  BY DEF AtRest
<1>1. pc' = "abspath" /\ stack' = Append(stack, f)
  BY DEF Open
<1>2. /\ r \in DirNodes /\ r \in Nodes /\ (stack = <<>> => r = OpenTop[Tops])
      /\ stack # <<>> => /\ fp \in Nodes /\ r \in Children(fp) /\ r \notin Left(I, frame)
                         /\ fp \notin NoExec /\ r \notin NoRead /\ r \notin Untyped
  BY OpenTakes
<1>3. f.fp = r /\ f.pending = <<>> /\ Len(f.pending) = 0 OBVIOUS
<1>4. stack \in Seq(Frames) /\ n \in Nat
  BY DEF DataInv, FramesOK
<1> HIDE DEF f, r
<1>5. Len(stack') = n + 1 /\ stack'[n + 1] = f /\ \A k \in 1 .. n : stack'[k] = stack[k]
  <2>1. stack \in Seq(Frames \cup {f}) /\ f \in Frames \cup {f}
    BY <1>4
  <2> QED BY <1>1, <2>1, AppendProperties
<1>6. IdsOf' = I /\ EntryAt' = E /\ OpenTop' = OpenTop /\ Tops' = Tops
  BY StillStays
<1>7. Chained(I, stack) /\ AllOrdered(I, E, stack) /\ (stack # <<>> => stack[1].fp = OpenTop[Tops])
  BY DEF WalkFacts, TopOpened, ChainOK, OrderOK
<1>8. (stack = <<>> <=> n = 0) /\ fp = stack[n].fp /\ frame = stack[n]
  BY <1>4 DEF fp, frame
<1>9. n # 0 => r \in I[fp]
  BY <1>2, <1>8 DEF IdsOf, Ids
<1> HIDE DEF n, I, E
<1>10. Chained(I, stack')
  <2> SUFFICES ASSUME NEW k \in 1 .. n
               PROVE  /\ stack'[k + 1].fp \in I[stack'[k].fp] /\ stack'[k + 1].fp \notin Left(I, stack'[k])
                      /\ stack'[k].fp \notin NoExec /\ stack'[k + 1].fp \notin NoRead \cup Untyped
    <3>1. Len(stack') - 1 = n
      BY <1>4, <1>5
    <3> QED BY <3>1 DEF Chained
  <2>1. stack'[k] = stack[k]
    BY <1>5
  <2>2. CASE k = n
    <3>1. n # 0 /\ stack'[k + 1].fp = r
      BY <1>3, <1>4, <1>5, <2>2
    <3> QED BY <1>2, <1>8, <1>9, <2>1, <2>2, <3>1
  <2>3. CASE k # n
    <3>1. k \in 1 .. n - 1 /\ k + 1 \in 1 .. n
      BY <1>4, <2>3
    <3> QED BY <1>5, <1>7, <2>1, <3>1 DEF Chained, n
  <2> QED BY <2>2, <2>3
<1>11. AllOrdered(I, E, stack')
  <2> SUFFICES ASSUME NEW k \in 1 .. n + 1 PROVE Ordered(I, E, stack'[k])
    BY <1>5 DEF AllOrdered
  <2>1. CASE k = n + 1
    BY <1>3, <1>5, <2>1 DEF Ordered, InOrder
  <2>2. CASE k # n + 1
    <3>1. k \in 1 .. n
      BY <1>4, <2>2
    <3> QED BY <1>5, <1>7, <3>1 DEF AllOrdered, n
  <2> QED BY <2>1, <2>2
<1>12. stack'[1].fp = OpenTop[Tops]
  <2>1. CASE n = 0
    BY <1>2, <1>3, <1>5, <1>8, <2>1
  <2>2. CASE n # 0
    <3>1. 1 \in 1 .. n
      BY <1>4, <2>2
    <3> QED BY <1>5, <1>7, <1>8, <2>2, <3>1
  <2> QED BY <2>1, <2>2
<1>13. frame'.pending = <<>>
  BY <1>3, <1>5 DEF frame
<1>14. TopOpened' /\ ChainOK' /\ OrderOK'
  BY <1>6, <1>10, <1>11, <1>12 DEF TopOpened, ChainOK, OrderOK
<1>15. CurrentOK' /\ FreshOK' /\ HowOK'
  BY <1>1, <1>13 DEF CurrentOK, FreshOK, HowOK
<1> QED BY <1>14, <1>15 DEF WalkFacts

\* A call of vfs_readdir leaves what is left as it is, and ends the directory
\* only when nothing is.
LEMMA ReaddirTakes ==
  ASSUME TreeInv, StackInv, DataInv, WalkFacts, Readdir
  PROVE  /\ pc = "readdir" /\ stack # <<>>
         /\ \/ UNCHANGED stack /\ pc' = "close" /\ Left(IdsOf, frame) = {}
            \/ /\ pc' = "walk"
               /\ \E f \in Frames : /\ stack' = With(f) /\ f.fp = fp /\ Ordered(IdsOf, EntryAt, f)
                                    /\ Left(IdsOf, f) = Left(IdsOf, frame)
<1>1. pc = "readdir" /\ stack # <<>>
  BY DEF Readdir, StackInv, Framed, FramePcs
<1>2. frame \in Frames /\ fp = frame.fp /\ frame.pending = <<>> /\ frame.pos \in Int
  BY <1>1, TopFrame DEF Frames, WalkFacts, FreshOK
<1> DEFINE due == EntriesFrom(fp, frame.pos)
           D == DueEntries(fp, frame.pos)
           m == IF Len(due) < BatchSize THEN Len(due) ELSE BatchSize
           batch == SubSeq(due, 1, m)
           f == [frame EXCEPT !.pos = LastId(batch), !.pending = batch, !.dir = Len(path)]
<1>3. due \in Seq(D) /\ D \subseteq Entries
  BY <1>2, EntriesAreDue, DueEntriesTyped
<1>4. BatchSize \in Nat /\ BatchSize # 0
  BY SearchAssumption
<1>5. IF batch = <<>> THEN pc' = "close" /\ UNCHANGED stack ELSE pc' = "walk" /\ stack' = With(f)
  BY DEF Readdir
<1>0. Len(path) \in Nat
  BY DEF DataInv, TextOK
<1> HIDE DEF due, D
<1>6. m \in Nat /\ m <= Len(due) /\ (m = 0 => Len(due) = 0) /\ \A i \in 1 .. m : due[i] \in D
  BY <1>3, <1>4
<1> HIDE DEF m
<1>7. batch \in Seq(D) /\ Len(batch) = m
  <2>1. 1 \in Int /\ m \in Int /\ \A i \in 1 .. m : due[i] \in D
    BY <1>6
  <2>2. SubSeq(due, 1, m) \in Seq(D) /\ Len(SubSeq(due, 1, m)) = IF 1 <= m THEN m - 1 + 1 ELSE 0
    BY <2>1, SubSeqProperties
  <2> QED BY <1>6, <2>2
<1>8. batch = <<>> <=> m = 0
  <2> HIDE DEF batch
  <2> QED BY <1>6, <1>7
<1>9. m # 0 => LastId(batch) \in Int
  <2> HIDE DEF batch
  <2> SUFFICES ASSUME m # 0 PROVE LastId(batch) \in Int OBVIOUS
  <2>1. batch[Len(batch)] \in D
    BY <1>6, <1>7
  <2> QED BY <1>3, <2>1 DEF LastId, Entries
<1>10. CASE m # 0
  <2>1. batch \in Seq(Entries)
    <3> HIDE DEF batch
    <3> QED BY <1>3, <1>7
  <2>2. f \in Frames /\ f.fp = frame.fp /\ f.pending = batch /\ f.pos = LastId(batch)
    <3> HIDE DEF batch
    <3> QED BY <1>0, <1>2, <1>9, <1>10, <2>1 DEF Frames
  <2> DEFINE b == SubSeq(EntriesFrom(frame.fp, frame.pos), 1, m)
  <2>3. batch = b /\ due = EntriesFrom(frame.fp, frame.pos)
    BY <1>2 DEF due
  <2> HIDE DEF f
  <2>4. Ordered(IdsOf, EntryAt, f) /\ Left(IdsOf, f) = Left(IdsOf, frame)
    <3>1. m <= Len(EntriesFrom(frame.fp, frame.pos)) /\ f.pending = b /\ f.pos = LastId(b)
      BY <1>6, <2>2, <2>3
    <3> QED BY <1>2, <1>6, <1>10, <2>2, <3>1, BatchKeepsLeft
  <2>5. pc' = "walk" /\ stack' = With(f)
    BY <1>5, <1>8, <1>10
  <2> QED BY <1>1, <1>2, <2>2, <2>4, <2>5
<1>11. CASE m = 0
  <2>1. UNCHANGED stack /\ pc' = "close"
    BY <1>5, <1>8, <1>11
  <2>2. DueIds(fp, frame.pos) = {}
    <3>1. Len(due) = 0
      BY <1>6, <1>11
    <3>2. \A y \in DueIds(fp, frame.pos) : \E i \in 1 .. Len(due) : due[i].id = y
      BY <1>2, EntriesInOrder DEF due
    <3> QED BY <3>1, <3>2
  <2>3. DueIds(fp, frame.pos) = {y \in Ids(fp) : y > frame.pos} /\ IdsOf[fp] = Ids(fp)
    BY <1>1, <1>2, DueIdsAre, StaticIs, TopFrame
  <2>4. Len(frame.pending) = 0
    BY <1>2
  <2>5. Left(IdsOf, frame) = {}
    BY <1>2, <2>2, <2>3, <2>4 DEF Left
  <2> QED BY <1>1, <2>1, <2>5
<1> QED BY <1>10, <1>11

\* The top directory is above all the others.
LEMMA TopIsAbove ==
  ASSUME TreeInv, StackInv, DataInv, WalkFacts, stack # <<>>
  PROVE  /\ stack[1].fp \in Above(fp) /\ stack[1].fp \in Nodes /\ stack[1].fp \in DirNodes /\ fp \in Nodes
         /\ DepthOf(fp) = DepthOf(stack[1].fp) + (Len(stack) - 1)
<1>1. stack \in Seq(Frames) /\ Len(stack) \in 1 .. Len(stack) /\ 1 \in 1 .. Len(stack) /\ 1 <= Len(stack) /\ fp = stack[Len(stack)].fp
  BY TopFrame DEF fp
<1>2. Chained(IdsOf, stack)
  BY DEF WalkFacts, ChainOK
<1>3. \A l \in 1 .. Len(stack) : 1 <= l => /\ stack[1].fp \in Above(stack[l].fp) /\ stack[l].fp \in Nodes
                                           /\ DepthOf(stack[l].fp) = DepthOf(stack[1].fp) + (l - 1)
  BY <1>1, <1>2, ChainAbove
<1> QED BY <1>1, <1>3, FrameTyped

LEMMA NextTakes ==
  ASSUME TreeInv, StackInv, DataInv, PathFacts, WalkFacts, NextEntry
  PROVE  /\ pc = "walk" /\ stack # <<>>
         /\ \E f \in Frames, x \in Ids(fp) :
              /\ stack' = With(f) /\ f.fp = fp /\ f.entry = EntryName(x) /\ f.type = EntryType(x)
              /\ x \in Left(IdsOf, frame) /\ Left(IdsOf, f) = Left(IdsOf, frame) \ {x}
              /\ Ordered(IdsOf, EntryAt, f)
              /\ f.how = Match!match_pathname(SubSeq(path', base' + 1, Len(path')), pattern)
              /\ f.how = Match!match_pathname(Seen(stack[1].fp, fp, EntryName(x)), pattern)
              /\ pc' = IF f.how = Match!SUCCESS THEN "report" ELSE "descend"
<1> DEFINE q == frame.pending
           e == Head(q)
           p == path \o Slash \o e.name
<1>1. /\ pc = "walk" /\ stack # <<>> /\ q # <<>> /\ q \in Seq(Entries) /\ e \in Entries /\ path' = p /\ path' \in Seq(Char)
  BY NextEntryTakes
<1>2. frame \in Frames /\ fp = frame.fp /\ fp \in Nodes /\ Ordered(IdsOf, EntryAt, frame)
  BY <1>1, TopFrame DEF WalkFacts, OrderOK, AllOrdered, frame
<1>3. status = 0
  BY <1>1 DEF StackInv, Failing
<1>4. path = Abs[fp] /\ base = Len(Abs[stack[1].fp])
  BY <1>1, <1>3 DEF PathFacts, AtDir, HasBase
<1>5. e.name \in Comps /\ e.name \in Seq(Char) /\ e.type \in {"d", "o"} /\ Tail(q) \in Seq(Entries)
  BY <1>1, HeadTailProperties DEF Entries, Comps
<1>6. base < Len(p)
  <2>1. stack[1].fp \in Above(fp) /\ stack[1].fp \in Nodes
    BY <1>1, TopIsAbove
  <2>2. Abs[fp] = AbsPath(fp) /\ Abs[stack[1].fp] = AbsPath(stack[1].fp)
    BY <1>2, <2>1, AbsTyped
  <2>3. Len(AbsPath(stack[1].fp)) < Len(Join(AbsPath(fp), e.name))
    BY <1>2, <1>5, <2>1, TextsFromTop
  <2> QED BY <1>4, <2>2, <2>3 DEF Join
<1>7. PICK how \in VerdictsOf(p) :
        /\ stack' = With([frame EXCEPT !.pending = Tail(@), !.entry = e.name, !.type = e.type, !.how = how])
        /\ pc' = IF how = Match!SUCCESS THEN "report" ELSE "descend"
  BY DEF NextEntry
<1>8. how = Match!match_pathname(SubSeq(p, base + 1, Len(p)), pattern) /\ base' = base
  BY <1>6, <1>7 DEF VerdictsOf, NextEntry
<1>9. how \in Hows
  <2>1. base \in Nat /\ p \in Seq(Char)
    BY <1>1 DEF DataInv, TextOK
  <2> HIDE DEF p
  <2>2. base + 1 \in Int /\ Len(p) \in Int /\ \A i \in base + 1 .. Len(p) : p[i] \in Char
    BY <2>1
  <2>3. SubSeq(p, base + 1, Len(p)) \in Seq(Char)
    BY <2>2, SubSeqProperties
  <2> QED BY <1>8, <2>3 DEF Hows
<1> DEFINE f == [frame EXCEPT !.pending = Tail(q), !.entry = e.name, !.type = e.type, !.how = how]
<1>10. stack' = With(f)
  BY <1>7
<1>11. f \in Frames /\ f.fp = fp /\ f.pos = frame.pos /\ f.pending = Tail(q) /\ f.entry = e.name /\ f.type = e.type /\ f.how = how
  <2> HIDE DEF q, e
  <2> QED BY <1>2, <1>5, <1>9 DEF Frames
<1> HIDE DEF f
<1>12. /\ e.id \in Left(IdsOf, frame) /\ e = EntryOf(e.id) /\ e.id \in Ids(fp)
       /\ Ordered(IdsOf, EntryAt, f) /\ Left(IdsOf, f) = Left(IdsOf, frame) \ {e.id}
  <2>1. f.fp = frame.fp /\ frame.pending # <<>> /\ f.pending = Tail(frame.pending)
    BY <1>1, <1>2, <1>11
  <2> QED BY <1>2, <1>11, <2>1, HeadLeaves
<1> DEFINE x == e.id
<1>13. e.name = EntryName(x) /\ e.type = EntryType(x)
  <2>1. EntryOf(x).name = EntryName(x) /\ EntryOf(x).type = EntryType(x)
    BY DEF EntryOf
  <2> QED BY <1>12, <2>1
<1>14. f.how = Match!match_pathname(SubSeq(path', base' + 1, Len(path')), pattern)
  BY <1>1, <1>8, <1>11
<1>15. pc' = IF f.how = Match!SUCCESS THEN "report" ELSE "descend"
  BY <1>7, <1>11
<1>16. Seen(stack[1].fp, fp, EntryName(x)) = SubSeq(p, base + 1, Len(p))
  <2>1. Abs[fp] = AbsPath(fp) /\ Abs[stack[1].fp] = AbsPath(stack[1].fp)
    BY <1>1, <1>2, TopIsAbove, AbsTyped
  <2>2. p = Join(AbsPath(fp), EntryName(x)) /\ base = Len(AbsPath(stack[1].fp))
    BY <1>4, <1>13, <2>1 DEF Join
  <2> HIDE DEF p, x
  <2> QED BY <2>2 DEF Seen, Behind
<1>17. f.how = Match!match_pathname(Seen(stack[1].fp, fp, EntryName(x)), pattern)
  BY <1>8, <1>11, <1>16
<1> HIDE DEF x, e
<1> QED BY <1>1, <1>10, <1>11, <1>12, <1>13, <1>14, <1>15, <1>17 DEF x

LEMMA SysWalk ==
  ASSUME StackInv, SysStep
  PROVE  WalkFacts'
<1>1. stack = <<>> /\ UNCHANGED stack
  BY SysPlaces DEF SysStep, AllocDs, GetPaths, GetPattern, AllocDirs, Acquire, StripSlashes, Split, NextPath,
         KernPath, Psearch, BackInSearch, Finish, Unwind, StackInv, Framed, TopPcs, LoopPcs
<1>2. pc' \notin FramePcs
  BY SysPlaces
<1>3. stack' = <<>> /\ Len(stack') = 0
  BY <1>1
<1>4. TopOpened' /\ ChainOK' /\ OrderOK'
  BY <1>3 DEF TopOpened, ChainOK, OrderOK, Chained, AllOrdered
<1>5. CurrentOK' /\ FreshOK' /\ HowOK'
  BY <1>2, <1>3 DEF CurrentOK, FreshOK, HowOK, FramePcs
<1> QED BY <1>4, <1>5 DEF WalkFacts

LEMMA DirectoryWalk ==
  ASSUME AtRest, StackInv, DataInv, PathFacts, RestInv, WalkFacts, DirectoryStep
  PROVE  WalkFacts'
<1>0. TreeInv /\ Still
  BY DirectoryStill DEF AtRest, DataInv
<1>s. IdsOf' = IdsOf /\ EntryAt' = EntryAt /\ pattern' = pattern
  BY <1>0, StillStays
<1>1. CASE OpenSkipped \/ OpenFails \/ abspath \/ DirectoryFails \/ EndWalk \/ ReportFails \/ BackInDirectory
  <2>1. /\ UNCHANGED stack /\ pc' \notin {"report", "descend", "open"}
        /\ pc' \in {"abspath", "driver", "readdir"} => pc = "abspath" \/ frame.pending = <<>>
    BY <1>1 DEF OpenSkipped, OpenFails, abspath, EndWalk, DirectoryFails, ReportFails, BackInDirectory
  <2>2. TopOpened' /\ ChainOK' /\ OrderOK' /\ frame' = frame
    BY <1>0, <2>1, WalkSame
  <2>3. CurrentOK' /\ FreshOK' /\ HowOK'
    BY <2>1, <2>2 DEF WalkFacts, CurrentOK, FreshOK, HowOK
  <2> QED BY <2>2, <2>3 DEF WalkFacts
<1>2. CASE Report
  <2>1. UNCHANGED <<stack, path, base>> /\ pc = "report" /\ pc' \in {"close", "descend"} /\ stack # <<>>
    BY <1>2 DEF Report, StackInv, Framed, FramePcs
  <2>2. TopOpened' /\ ChainOK' /\ OrderOK' /\ frame' = frame
    BY <1>0, <2>1, WalkSame
  <2>3. CurrentOK' /\ FreshOK' /\ HowOK'
    BY <1>s, <2>1, <2>2 DEF WalkFacts, CurrentOK, FreshOK, HowOK
  <2> QED BY <2>2, <2>3 DEF WalkFacts
<1>3. CASE Descend
  <2>1. UNCHANGED stack /\ pc = "descend" /\ pc' \in {"open", "walk"} /\ stack # <<>> /\ (pc' = "open" => frame.type = "d")
    BY <1>3 DEF Descend, Descends, StackInv, Framed, FramePcs
  <2>2. TopOpened' /\ ChainOK' /\ OrderOK' /\ frame' = frame
    BY <1>0, <2>1, WalkSame
  <2>3. CurrentOK' /\ FreshOK' /\ HowOK'
    BY <1>s, <2>1, <2>2 DEF WalkFacts, CurrentOK, FreshOK, HowOK
  <2> QED BY <2>2, <2>3 DEF WalkFacts
<1>4. CASE Open
  BY <1>0, <1>4, WalkOpen
<1>5. CASE Readdir
  <2>1. pc = "readdir" /\ stack # <<>>
    BY <1>0, <1>5, ReaddirTakes
  <2>2. CASE UNCHANGED stack /\ pc' = "close"
    <3>1. TopOpened' /\ ChainOK' /\ OrderOK'
      BY <1>0, <2>2, WalkSame
    <3>2. CurrentOK' /\ FreshOK' /\ HowOK'
      BY <2>2 DEF CurrentOK, FreshOK, HowOK
    <3> QED BY <3>1, <3>2 DEF WalkFacts
  <2>3. ASSUME NEW f \in Frames, stack' = With(f), f.fp = fp, Ordered(IdsOf, EntryAt, f), pc' = "walk"
        PROVE  WalkFacts'
    <3>1. TopOpened' /\ ChainOK' /\ OrderOK'
      BY <1>0, <2>1, <2>3, WalkWith
    <3>2. CurrentOK' /\ FreshOK' /\ HowOK'
      BY <2>3 DEF CurrentOK, FreshOK, HowOK
    <3> QED BY <3>1, <3>2 DEF WalkFacts
  <2> QED BY <1>0, <1>5, <2>2, <2>3, ReaddirTakes
<1>6. CASE NextEntry
  <2>1. pc = "walk" /\ stack # <<>>
    BY <1>0, <1>6, NextTakes
  <2>2. PICK f \in Frames, x \in Ids(fp) :
              /\ stack' = With(f) /\ f.fp = fp /\ f.entry = EntryName(x) /\ f.type = EntryType(x)
              /\ x \in Left(IdsOf, frame) /\ Left(IdsOf, f) = Left(IdsOf, frame) \ {x}
              /\ Ordered(IdsOf, EntryAt, f)
              /\ f.how = Match!match_pathname(SubSeq(path', base' + 1, Len(path')), pattern)
              /\ pc' = IF f.how = Match!SUCCESS THEN "report" ELSE "descend"
    BY <1>0, <1>6, NextTakes
  <2>3. TopOpened' /\ ChainOK' /\ OrderOK' /\ frame' = f
    BY <1>0, <2>1, <2>2, WalkWith
  <2>4. IsCurrent(IdsOf, EntryAt, f)
    <3>1. fp \in Nodes
      BY <2>1, TopFrame
    <3>2. x \in IdsOf[f.fp] /\ EntryAt[x].name = EntryName(x) /\ EntryAt[x].type = EntryType(x)
      BY <1>0, <2>2, <3>1, StaticIs
    <3>3. x \notin Left(IdsOf, f)
      BY <2>2
    <3> QED BY <2>2, <3>2, <3>3 DEF IsCurrent
  <2>5. CurrentOK' /\ FreshOK'
    BY <1>s, <2>2, <2>3, <2>4 DEF CurrentOK, FreshOK
  <2>6. HowOK'
    BY <1>s, <2>2, <2>3 DEF HowOK
  <2> QED BY <2>3, <2>5, <2>6 DEF WalkFacts
<1>7. ASSUME stack # <<>>, stack' = SubSeq(stack, 1, Len(stack) - 1), pc' = "back" PROVE WalkFacts'
  <2>1. TopOpened' /\ ChainOK' /\ OrderOK'
    BY <1>0, <1>7, WalkPop
  <2>2. CurrentOK' /\ FreshOK' /\ HowOK'
    BY <1>7 DEF CurrentOK, FreshOK, HowOK
  <2> QED BY <2>1, <2>2 DEF WalkFacts
<1>8. CASE Close
  <2>1. stack # <<>>
    BY <1>8 DEF Close, StackInv, Framed, FramePcs
  <2> QED BY <1>7, <1>8, <2>1 DEF Close
<1>9. ASSUME NEW n \in Answers, Driver(n) PROVE WalkFacts'
  <2>1. stack # <<>>
    BY <1>9 DEF Driver, StackInv, Framed, FramePcs
  <2>2. CASE pc' = "back"
    BY <1>7, <1>9, <2>1, <2>2 DEF Driver
  <2>3. CASE pc' # "back"
    <3>1. UNCHANGED stack /\ pc' = "close"
      BY <1>9, <2>3 DEF Driver
    <3>2. TopOpened' /\ ChainOK' /\ OrderOK'
      BY <1>0, <3>1, WalkSame
    <3>3. CurrentOK' /\ FreshOK' /\ HowOK'
      BY <3>1 DEF CurrentOK, FreshOK, HowOK
    <3> QED BY <3>2, <3>3 DEF WalkFacts
  <2> QED BY <2>2, <2>3
<1> QED BY <1>1, <1>2, <1>3, <1>4, <1>5, <1>6, <1>8, <1>9 DEF DirectoryStep

LEMMA WalkAlways == Spec => []WalkInv
<1>1. Init => WalkInv
  <2> SUFFICES ASSUME Init PROVE WalkFacts
    BY DEF WalkInv
  <2>1. pc = "enter" /\ stack = <<>> /\ Len(stack) = 0
    BY DEF Init
  <2> QED BY <2>1 DEF WalkFacts, TopOpened, ChainOK, OrderOK, Chained, AllOrdered, CurrentOK, FreshOK, HowOK
<1>2. TreeInv /\ StackInv /\ DataInv /\ PathInv /\ RestInv /\ ApartInv /\ WalkInv /\ [Next]_vars => WalkInv'
  <2> SUFFICES ASSUME TreeInv, StackInv, DataInv, PathInv, RestInv, ApartInv, WalkInv, [Next]_vars PROVE WalkInv'
    OBVIOUS
  <2>1. CASE Others
    <3>1. changes' # 0
      BY <2>1 DEF Others, Change, TreeInv
    <3> QED BY <3>1 DEF WalkInv
  <2>2. CASE SysStep \/ DirectoryStep
    <3>1. changes' = changes
      BY <2>2, StepsKeepTree DEF treeVars
    <3> SUFFICES ASSUME changes = 0 PROVE WalkFacts'
      BY <3>1 DEF WalkInv
    <3>2. AtRest /\ PathFacts /\ WalkFacts
      BY RestsUntilChanged DEF PathInv, WalkInv
    <3> QED BY <2>2, <3>2, SysWalk, DirectoryWalk
  <2>3. CASE UNCHANGED vars
    <3>1. Still /\ UNCHANGED <<stack, pc, path, base>> /\ changes' = changes
      BY <2>3 DEF vars, Still, sysVars, treeVars
    <3> SUFFICES ASSUME WalkFacts PROVE WalkFacts'
      BY <3>1 DEF WalkInv
    <3>2. TopOpened' /\ ChainOK' /\ OrderOK' /\ frame' = frame
      BY <3>1, WalkSame
    <3>3. IdsOf' = IdsOf /\ EntryAt' = EntryAt /\ pattern' = pattern
      BY <3>1, StillStays
    <3>4. CurrentOK' /\ FreshOK' /\ HowOK'
      BY <3>1, <3>2, <3>3 DEF WalkFacts, CurrentOK, FreshOK, HowOK
    <3> QED BY <3>2, <3>4 DEF WalkFacts
  <2> QED BY <2>1, <2>2, <2>3 DEF Next
<1> QED BY <1>1, <1>2, TreeAlways, StackAlways, DataAlways, PathAlways, RestAlways, ApartAlways, PTL DEF Spec

-----------------------------------------------------------------------------
(***************************************************************************)
(* The records.  A record is added by Report and Psearch only.             *)
(***************************************************************************)
Records == [top : Nat, path : Seq(Char)]
Added == reported' = Append(reported, [top |-> Tops, path |-> path])
AddsRecord == /\ Added /\ UNCHANGED <<stack, path, base, rest, shift>>
              /\ pc \in {"report", "psearch"} /\ pc' \in {"close", "descend", "finish", "nextpath"}

LEMMA RecordsGrow ==
  ASSUME [Next]_vars
  PROVE  \/ UNCHANGED reported
         \/ AddsRecord /\ (Report \/ (Psearch /\ Lookup(psearch, Literal) > 0))
<1>1. CASE Report
  <2>1. Added /\ UNCHANGED <<stack, path, base, rest, shift>> /\ pc = "report" /\ pc' \in {"close", "descend"}
    BY <1>1 DEF Report, Copy, Added, sysVars, heapVars
  <2> QED BY <1>1, <2>1 DEF AddsRecord
<1>2. CASE Psearch
  <2>1. CASE Copy(PsearchText) /\ Lookup(psearch, Literal) > 0 /\ pc' \in {"finish", "nextpath"}
    <3>1. Added /\ UNCHANGED <<stack, path, base, rest, shift>> /\ pc = "psearch"
      BY <1>2, <2>1 DEF Psearch, Copy, Added, heapVars
    <3> QED BY <1>2, <2>1, <3>1 DEF AddsRecord
  <2> QED BY <1>2, <2>1 DEF Psearch, CopyFails, GetattrFails
<1>3. SysStep => Psearch \/ UNCHANGED reported
  BY DEF SysStep, AllocDs, GetPaths, GetPattern, AllocDirs, Acquire, StripSlashes, Split, NextPath,
         KernPath, BackInSearch, Finish, Unwind
<1>4. DirectoryStep => Report \/ UNCHANGED reported
  BY DEF DirectoryStep, OpenSkipped, OpenFails, Open, abspath, Readdir, DirectoryFails, Driver,
         NextEntry, EndWalk, ReportFails, CopyFails, GetattrFails, Descend, BackInDirectory, Close
<1>5. Others \/ UNCHANGED vars => UNCHANGED reported
  BY DEF Others, vars
<1> QED BY <1>1, <1>2, <1>3, <1>4, <1>5 DEF Next

RecordsInv ==
  /\ reported \in Seq(Records)
  /\ pc \in EarlyPcs => reported = <<>>
  /\ \A k \in 1 .. Len(reported) : reported[k].top \in 1 .. Tops
  /\ STOPATFIRST /\ reported # <<>> => reported[1].top = Tops

LEMMA AddedIs ==
  ASSUME NEW s \in Seq(Records), NEW r \in Records, NEW u, u = Append(s, r)
  PROVE  /\ u \in Seq(Records) /\ Len(s) \in Nat /\ Len(u) = Len(s) + 1 /\ u[Len(s) + 1] = r
         /\ \A k \in 1 .. Len(s) : u[k] = s[k] /\ s[k] \in Records
         /\ \A k \in 1 .. Len(u) : k = Len(s) + 1 \/ k \in 1 .. Len(s)
<1>1. u \in Seq(Records) /\ Len(u) = Len(s) + 1 /\ u[Len(s) + 1] = r /\ \A k \in 1 .. Len(s) : u[k] = s[k]
  BY AppendProperties
<1>2. Len(s) \in Nat /\ \A k \in 1 .. Len(s) : s[k] \in Records OBVIOUS
<1> QED BY <1>1, <1>2

LEMMA RecordsAlways == Spec => []RecordsInv
<1>1. Init => RecordsInv
  <2> SUFFICES ASSUME Init PROVE RecordsInv OBVIOUS
  <2>1. reported = <<>> /\ Len(reported) = 0 /\ reported \in Seq(Records)
    BY DEF Init
  <2> QED BY <2>1 DEF RecordsInv
<1>2. StackInv /\ DataInv /\ RestInv /\ OneInv /\ RecordsInv /\ [Next]_vars => RecordsInv'
  <2> SUFFICES ASSUME StackInv, DataInv, RestInv, OneInv, RecordsInv, [Next]_vars PROVE RecordsInv'
    OBVIOUS
  <2>0. paths' = paths /\ STOPATFIRST' = STOPATFIRST
    BY ArgsStay DEF argVars, DataInv, STOPATFIRST
  <2>1. CASE AddsRecord
    <3> DEFINE r == [top |-> Tops, path |-> path]
    <3>1. /\ reported' = Append(reported, r) /\ rest' = rest /\ pc \in InTopPcs /\ pc' \notin EarlyPcs
          /\ pc \notin EndPcs
      BY <2>1 DEF AddsRecord, Added, InTopPcs, FramePcs, EarlyPcs, EndPcs
    <3>2. Tops \in 1 .. Len(paths) /\ Tops' = Tops /\ Len(paths) \in Nat
      BY <2>0, <3>1 DEF RestInv, Tops, DataInv, ArgsOK
    <3>3. r \in Records /\ r.top = Tops /\ Tops \in 1 .. Tops
      BY <3>2 DEF DataInv, TextOK, Records
    <3> HIDE DEF r
    <3>4. /\ reported' \in Seq(Records) /\ Len(reported) \in Nat /\ Len(reported') = Len(reported) + 1
          /\ reported'[Len(reported) + 1] = r
          /\ \A k \in 1 .. Len(reported) : reported'[k] = reported[k]
          /\ \A k \in 1 .. Len(reported') : k = Len(reported) + 1 \/ k \in 1 .. Len(reported)
      BY <3>1, <3>3, AddedIs DEF RecordsInv
    <3>5. \A k \in 1 .. Len(reported') : reported'[k].top \in 1 .. Tops
      BY <3>3, <3>4 DEF RecordsInv
    <3>6. STOPATFIRST => reported'[1].top = Tops
      <4> SUFFICES ASSUME STOPATFIRST PROVE reported'[1].top = Tops OBVIOUS
      <4>1. reported = <<>> /\ Len(reported) = 0
        BY <3>1 DEF OneInv
      <4> QED BY <3>3, <3>4, <4>1
    <3> QED BY <2>0, <3>1, <3>2, <3>4, <3>5, <3>6 DEF RecordsInv
  <2>2. CASE UNCHANGED reported
    <3>1. reported \in Seq(Records) /\ (pc' \in EarlyPcs => pc \in EarlyPcs)
      BY DEF RecordsInv, Next, vars, Others, SysStep, AllocDs, GetPaths, GetPattern, AllocDirs, Acquire, Exit, StripSlashes, Split,
         NextPath, KernPath, Psearch, BackInSearch, Finish, Unwind, DirectoryStep, OpenSkipped, OpenFails,
         Open, abspath, Readdir, DirectoryFails, Driver, NextEntry, EndWalk, Report, ReportFails, Descend,
         BackInDirectory, Close, EarlyPcs
    <3>2. CASE NextPath
      <4>1. pc = "nextpath" /\ rest # <<>> /\ rest' = Tail(rest)
        BY <3>2 DEF NextPath
      <4>2. Len(rest') = Len(rest) - 1 /\ Len(rest) \in Nat /\ Len(paths) \in Nat /\ Len(rest) <= Len(paths)
        <5>1. rest \in Seq(Seq(Char))
          BY DEF DataInv, TextOK
        <5>2. Len(Tail(rest)) = Len(rest) - 1
          BY <4>1, <5>1, HeadTailProperties
        <5> QED BY <4>1, <5>1, <5>2 DEF DataInv, ArgsOK, RestInv
      <4>3. Tops' = Tops + 1 /\ Tops \in Nat
        BY <2>0, <4>2 DEF Tops
      <4>4. \A k \in 1 .. Len(reported) : reported[k].top \in 1 .. Tops'
        BY <4>3 DEF RecordsInv
      <4>5. STOPATFIRST => reported = <<>>
        BY <4>1 DEF OneInv, EndPcs
      <4> QED BY <2>0, <2>2, <3>1, <4>4, <4>5 DEF RecordsInv
    <3>3. CASE Split
      <4>1. reported = <<>> /\ Len(reported) = 0
        BY <3>3 DEF Split, RecordsInv, EarlyPcs
      <4> QED BY <2>2, <3>1, <4>1 DEF RecordsInv
    <3>4. CASE UNCHANGED rest
      <4>1. Tops' = Tops
        BY <2>0, <3>4 DEF Tops
      <4> QED BY <2>0, <2>2, <3>1, <4>1 DEF RecordsInv
    <3>5. NextPath \/ Split \/ UNCHANGED rest
      BY DEF Next, vars, Others, SysStep, AllocDs, GetPaths, GetPattern, AllocDirs, Acquire, StripSlashes,
         KernPath, Psearch, BackInSearch, Finish, Unwind, DirectoryStep, OpenSkipped, OpenFails,
         Open, abspath, Readdir, DirectoryFails, Driver, NextEntry, EndWalk, Report, ReportFails, Descend,
         BackInDirectory, Close, sysVars
    <3> QED BY <3>2, <3>3, <3>4, <3>5
  <2> QED BY <2>1, <2>2, RecordsGrow
<1> QED BY <1>1, <1>2, StackAlways, DataAlways, RestAlways, OneAlways, PTL DEF Spec

-----------------------------------------------------------------------------
(***************************************************************************)
(* The directories of the frames are in the scope of the search.           *)
(***************************************************************************)
LEMMA BetweenIsFrame ==
  ASSUME TreeInv, NEW s \in Seq(Frames), Chained(IdsOf, s), NEW k \in 1 .. Len(s),
         NEW x \in Above(s[k].fp), s[1].fp \in Above(x)
  PROVE  \E j \in 1 .. k : x = s[j].fp
<1> DEFINE G(n) == x \in Above(s[n].fp) => \E j \in 1 .. n : x = s[j].fp
           S == {n \in Nat : n + 1 <= Len(s) => G(n + 1)}
<1>0. IsTree(parent) /\ Len(s) \in Nat /\ 1 \in 1 .. Len(s) /\ s[1].fp \in Nodes
  <2>1. Len(s) \in Nat /\ 1 \in 1 .. Len(s) OBVIOUS
  <2>2. s[1] \in Frames
    BY <2>1
  <2> QED BY <2>1, <2>2, NodesFacts DEF TreeInv, Frames
<1>1. 0 \in S
  <2>1. x \in Above(s[1].fp) => x = s[1].fp
    BY <1>0, AboveSame
  <2>2. 0 + 1 = 1 /\ 1 \in 1 .. 1 OBVIOUS
  <2> QED BY <2>1, <2>2
<1>2. ASSUME NEW n \in Nat, n \in S PROVE n + 1 \in S
  <2> SUFFICES ASSUME (n + 1) + 1 <= Len(s), x \in Above(s[(n + 1) + 1].fp) PROVE \E j \in 1 .. (n + 1) + 1 : x = s[j].fp
    OBVIOUS
  <2> DEFINE m == n + 1
  <2>1. m \in 1 .. Len(s) - 1 /\ G(m) /\ m \in Nat
    BY <1>0, <1>2
  <2>2. s[m + 1].fp \in Children(s[m].fp)
    BY <2>1, ChainChild
  <2>3. Above(s[m + 1].fp) = {s[m + 1].fp} \cup Above(s[m].fp)
    BY <1>0, <2>2, ChildDepth
  <2>4. x = s[m + 1].fp \/ x \in Above(s[m].fp)
    BY <2>3
  <2>5. m + 1 \in 1 .. m + 1 /\ \A j \in 1 .. m : j \in 1 .. m + 1
    BY <2>1
  <2> HIDE DEF m
  <2>6. \E j \in 1 .. m + 1 : x = s[j].fp
    BY <2>1, <2>4, <2>5
  <2> QED BY <2>6 DEF m
<1>3. Nat \subseteq S
  <2> HIDE DEF S
  <2> QED BY <1>1, <1>2, NatUp
<1>4. k - 1 \in Nat /\ (k - 1) + 1 = k /\ k <= Len(s)
  BY <1>0
<1>5. G(k)
  BY <1>3, <1>4
<1> QED BY <1>5

\* The top directory was opened by the path it was given with.
LEMMA TopIs ==
  ASSUME TreeInv, StackInv, DataInv, RestInv, WalkFacts, stack # <<>>
  PROVE  /\ Tops \in DOMAIN paths /\ Tops \in 1 .. Len(paths) /\ ispattern
         /\ TopDir(Tops) = stack[1].fp /\ OpenDir(paths[Tops]) = stack[1].fp /\ OpenDir(paths[Tops]) > 0
         /\ stack[1].fp \notin NoRead /\ stack[1].fp \in DirNodes /\ stack[1].fp \in Nodes
<1>1. pc \in FramePcs \cup {"open", "back"}
  <2>1. pc \in Pcs /\ pc \notin TopPcs
    BY DEF DataInv, CountsOK, StackInv, Framed
  <2> QED BY <2>1 DEF Pcs, TopPcs, LoopPcs, FramePcs
<1>2. Tops \in DOMAIN paths /\ Tops \in 1 .. Len(paths) /\ ispattern
  BY <1>1 DEF RestInv, InTopPcs, DataInv, ArgsOK
<1>3. 1 \in 1 .. Len(stack)
  BY TopFrame
<1>4. stack[1].fp \in DirNodes /\ stack[1].fp \in Nodes /\ stack[1].fp = OpenDir(paths[Tops])
  BY <1>2, <1>3, FrameTyped DEF WalkFacts, TopOpened, OpenTop
<1> DEFINE r == OpenDir(paths[Tops])
<1>5. -ENOTDIR \notin Nodes /\ -EACCES \notin Nodes /\ \A x \in Nodes : ~ (x < 0) /\ x > 0
  BY NodesFacts, Errors DEF ErrorNumbers
<1>6. r \in Nodes /\ r = TopDir(Tops) /\ r \notin NoRead
  BY <1>4, <1>5 DEF OpenDir, TopDir
<1> QED BY <1>2, <1>4, <1>5, <1>6

LEMMA FramesInScope ==
  ASSUME TreeInv, StackInv, DataInv, RestInv, WalkFacts, NEW k \in 1 .. Len(stack)
  PROVE  stack[k].fp \in Scope(Tops) /\ TopDir(Tops) \in Above(stack[k].fp)
<1> DEFINE d == stack[k].fp
           b == stack[1].fp
<1>0. stack \in Seq(Frames) /\ Len(stack) \in Nat /\ stack # <<>> /\ 1 \in 1 .. Len(stack) /\ 1 <= k /\ Chained(IdsOf, stack)
  BY DEF DataInv, FramesOK, WalkFacts, ChainOK
<1>1. TopDir(Tops) = b /\ OpenDir(paths[Tops]) > 0 /\ b \notin NoRead /\ b \in Nodes
  BY <1>0, TopIs
<1>2. d \in DirNodes /\ d \in Nodes
  BY FrameTyped
<1>3. b \in Above(d) /\ DepthOf(d) = DepthOf(b) + (k - 1)
  BY <1>0, ChainAbove
<1>4. DepthOf(d) - DepthOf(b) < TREE_DEPTH
  <2>1. DepthOf(b) \in Nat
    BY <1>2, <1>3, AboveDepth DEF TreeInv
  <2>2. k <= TREE_DEPTH /\ TREE_DEPTH \in Nat
    BY <1>0, SearchAssumption DEF StackInv, DepthBound
  <2> QED BY <1>3, <2>1, <2>2
<1>5. ASSUME NEW x \in DirNodes, b \in Above(x), x \in Above(d)
      PROVE  x \notin NoRead /\ (x # d => x \notin NoExec) /\ (x # b => x \notin Untyped)
  <2>1. PICK j \in 1 .. k : x = stack[j].fp
    BY <1>0, <1>5, BetweenIsFrame
  <2>2. CASE j = 1
    <3>1. x = b
      BY <2>1, <2>2
    <3>2. x # d => 1 \in 1 .. Len(stack) - 1
      BY <1>0, <2>1, <2>2
    <3> QED BY <1>0, <1>1, <2>1, <2>2, <3>1, <3>2, ChainChild
  <2>3. CASE j # 1
    <3>1. j - 1 \in 1 .. Len(stack) - 1 /\ (j - 1) + 1 = j
      BY <1>0, <2>3
    <3>2. x \notin NoRead /\ x \notin Untyped
      BY <1>0, <2>1, <3>1, ChainChild
    <3>3. x # d => j \in 1 .. Len(stack) - 1
      BY <1>0, <2>1
    <3>4. x # d => x \notin NoExec
      BY <1>0, <2>1, <3>3, ChainChild
    <3> QED BY <3>2, <3>4
  <2> QED BY <2>2, <2>3
<1> QED BY <1>1, <1>2, <1>3, <1>4, <1>5 DEF Scope, Below

LEMMA CandidateIs ==
  ASSUME TreeInv, StackInv, DataInv, RestInv, WalkFacts, NEW k \in 1 .. Len(stack), NEW x \in Ids(stack[k].fp)
  PROVE  Join(AbsPath(stack[k].fp), EntryName(x)) \in Candidates(Tops)
<1>1. stack[k].fp \in Scope(Tops)
  BY FramesInScope
<1> DEFINE d == stack[k].fp
<1>2. x \in {-1, 0} \cup Children(d)
  BY DEF Ids
<1>3. Join(AbsPath(d), EntryName(x)) \in {AbsPath(d) \o Slash \o EntryName(y) : y \in {-1, 0} \cup Children(d)}
  BY <1>2 DEF Join
<1> QED BY <1>1, <1>3 DEF Candidates

-----------------------------------------------------------------------------
(***************************************************************************)
(* What is reported.                                                       *)
(***************************************************************************)
IsRight(t, s) ==
  IF ispattern
  THEN /\ s \in Candidates(t)
       /\ Promised(t) /\ Match!IsPattern(pattern) /\ (Match!NoBar(s) \/ Match!NoBar(pattern)) => IsMatch(t, s)
  ELSE s = paths[t] \o Slash \o Literal /\ Lookup(TopDir(t), Literal) > 0

PsearchInv == changes = 0 /\ pc = "psearch" => psearch = TopDir(Tops) /\ path = paths[Tops] \o Slash \o Literal

\* An entry that is reported is in scope and matches.
LEMMA ReportIsRight ==
  ASSUME AtRest, StackInv, DataInv, PathFacts, RestInv, WalkFacts, pc = "report"
  PROVE  IsRight(Tops, path)
<1> DEFINE b == stack[1].fp
           t == Tops
<1>0. TreeInv /\ stack # <<>> /\ status = 0
  BY DEF AtRest, StackInv, Framed, FramePcs, Failing
<1>1. fp \in Nodes /\ path = Join(AbsPath(fp), frame.entry)
  BY <1>0, CurrentIs
<1>2. PICK x \in Ids(fp) : frame.entry = EntryName(x)
  BY <1>0, CurrentIs
<1>3. Len(stack) \in 1 .. Len(stack) /\ fp = stack[Len(stack)].fp
  BY <1>0, TopFrame DEF fp
<1>4. path \in Candidates(t)
  BY <1>0, <1>1, <1>2, <1>3, CandidateIs
<1>5. TopDir(t) = b /\ ispattern /\ b \in Above(fp) /\ b \in Nodes
  BY <1>0, TopIs, TopIsAbove
<1>6. base = Len(AbsPath(b))
  BY <1>0, <1>5, AbsTyped DEF PathFacts, HasBase
<1>7. SubSeq(path, base + 1, Len(path)) = Seen(b, fp, EntryName(x))
  BY <1>1, <1>2, <1>6 DEF Seen, Behind
<1>8. Match!match_pathname(Seen(b, fp, EntryName(x)), pattern) = Match!SUCCESS
  BY <1>7 DEF WalkFacts, HowOK
<1>9. ASSUME Promised(t), Match!IsPattern(pattern), Match!NoBar(path) \/ Match!NoBar(pattern)
      PROVE  IsMatch(t, path)
  <2>1. b = Root => \A i \in DOMAIN pattern : pattern[i] # "/"
    BY <1>5, <1>9 DEF Promised
  <2>2. PICK alt \in Match!Alternatives(pattern) : Match!RefVerdict(Join(Rel(b, fp), EntryName(x)), alt) = Match!SUCCESS
    <3>1. Match!NoBar(Join(AbsPath(fp), EntryName(x))) \/ Match!NoBar(pattern)
      BY <1>1, <1>2, <1>9
    <3> QED BY <1>0, <1>1, <1>5, <1>8, <1>9, <2>1, <3>1, SeenSound
  <2>3. Relative(t, path) = Join(Rel(b, fp), EntryName(x))
    <3>1. EntryName(x) \in Comps
      BY <1>0, IdsTyped
    <3>2. Relative(t, Join(AbsPath(fp), EntryName(x))) = Join(Rel(TopDir(t), fp), EntryName(x))
      BY <1>0, <1>1, <1>5, <3>1, RelativeIs
    <3> QED BY <1>1, <1>2, <1>5, <3>2
  <2> QED BY <2>2, <2>3 DEF IsMatch
<1> QED BY <1>4, <1>5, <1>9 DEF IsRight

LEMMA PsearchIsRight ==
  ASSUME RestInv, PsearchInv, changes = 0, pc = "psearch", Lookup(psearch, Literal) > 0
  PROVE  IsRight(Tops, path)
  BY DEF RestInv, PsearchInv, IsRight

LEMMA RightStays ==
  ASSUME UNCHANGED treeVars, UNCHANGED argVars, UNCHANGED shift, NEW t, NEW s
  PROVE  IsRight(t, s)' <=> IsRight(t, s)
<1>1. UNCHANGED <<parent, name, gone, paths, pattern, flags, shift>>
  BY DEF treeVars, argVars
<1> QED
  BY <1>1 DEF IsRight, ispattern, Candidates, Scope, OpenDir, Lookup, Step, Children, TopDir, Below, Above, DepthOf, AbsPath,
     EntryName, Promised, IsMatch, Relative, Literal

LEMMA PsearchAlways == Spec => []PsearchInv
<1>1. Init => PsearchInv
  BY DEF Init, PsearchInv
<1>2. TreeInv /\ DataInv /\ RestInv /\ PsearchInv /\ [Next]_vars => PsearchInv'
  <2> SUFFICES ASSUME TreeInv, DataInv, RestInv, PsearchInv, [Next]_vars, changes' = 0, pc' = "psearch"
               PROVE  (psearch = TopDir(Tops) /\ path = paths[Tops] \o Slash \o Literal)'
    BY DEF PsearchInv
  <2>0. UNCHANGED argVars
    BY ArgsStay DEF DataInv
  <2>1. KernPath \/ Others \/ UNCHANGED vars
    BY DEF Next, SysStep, AllocDs, GetPaths, GetPattern, AllocDirs, Acquire, Exit, StripSlashes, Split, NextPath,
         KernPath, Psearch, BackInSearch, Finish, Unwind, DirectoryStep, OpenSkipped, OpenFails, Open, abspath,
         Readdir, DirectoryFails, Driver, NextEntry, EndWalk, Report, ReportFails, Descend, BackInDirectory, Close
  <2>2. CASE Others
    <3>1. changes' # 0
      BY <2>2 DEF Others, Change, TreeInv
    <3> QED BY <3>1
  <2>3. CASE KernPath
    <3>1. /\ pc = "kern_path" /\ psearch' = Lookup(Root, path) /\ path' = path \o Slash \o Literal
          /\ UNCHANGED <<treeVars, rest, shift>>
      BY <2>3 DEF KernPath, Exit, heapVars
    <3>2. path = paths[Tops]
      BY <3>1 DEF RestInv
    <3>3. UNCHANGED <<parent, name, gone, paths, pattern, rest, shift>>
      BY <2>0, <3>1 DEF argVars, treeVars
    <3>4. TopDir(Tops)' = TopDir(Tops) /\ Tops' = Tops /\ Literal' = Literal
      BY <3>3 DEF TopDir, Tops, Literal, Lookup, Step, Children
    <3> QED BY <3>1, <3>2, <3>3, <3>4 DEF TopDir
  <2>4. CASE UNCHANGED vars
    <3>1. UNCHANGED <<parent, name, gone, changes, paths, pattern, rest, shift, psearch, path, pc>>
      BY <2>4 DEF vars, argVars, treeVars, heapVars, sysVars
    <3>2. TopDir(Tops)' = TopDir(Tops) /\ Tops' = Tops /\ Literal' = Literal
      BY <3>1 DEF TopDir, Tops, Literal, Lookup, Step, Children
    <3> QED BY <3>1, <3>2 DEF PsearchInv
  <2> QED BY <2>1, <2>2, <2>3, <2>4
<1> QED BY <1>1, <1>2, TreeAlways, DataAlways, RestAlways, PTL DEF Spec

OnlyInv == changes = 0 => \A k \in 1 .. Len(reported) : IsRight(reported[k].top, reported[k].path)

LEMMA OnlyStep ==
  ASSUME TreeInv, ApartInv, StackInv, DataInv, PathInv, RestInv, WalkInv, RecordsInv, PsearchInv, OnlyInv, [Next]_vars
  PROVE  OnlyInv'
<1> SUFFICES ASSUME changes' = 0 PROVE (\A k \in 1 .. Len(reported) : IsRight(reported[k].top, reported[k].path))'
  BY DEF OnlyInv
<1>0. UNCHANGED argVars
  BY ArgsStay DEF DataInv
<1>1. UNCHANGED treeVars /\ changes = 0
  <2>1. Others => changes' # 0
    BY DEF Others, Change, TreeInv
  <2>2. UNCHANGED treeVars
    BY <2>1, StepsKeepTree DEF Next, vars
  <2> QED BY <2>2 DEF treeVars
<1>2. UNCHANGED shift \/ reported' = <<>>
  <2>1. StripSlashes \/ UNCHANGED shift
    BY DEF Next, SysStep, AllocDs, GetPaths, GetPattern, AllocDirs, Acquire, Split, NextPath,
         KernPath, Psearch, BackInSearch, Finish, Unwind, DirectoryStep, OpenSkipped, OpenFails, Open, abspath,
         Readdir, DirectoryFails, Driver, NextEntry, EndWalk, Report, ReportFails, Descend, BackInDirectory, Close,
         Others, vars, heapVars
  <2>2. StripSlashes => reported' = reported /\ pc \in EarlyPcs
    BY DEF StripSlashes, EarlyPcs
  <2> QED BY <2>1, <2>2 DEF RecordsInv
<1>3. CASE reported' = <<>>
  <2>1. Len(reported') = 0
    BY <1>3
  <2> QED BY <2>1
<1>4. CASE UNCHANGED shift
  <2>1. \A t, s : IsRight(t, s)' <=> IsRight(t, s)
    BY <1>0, <1>1, <1>4, RightStays
  <2>2. CASE UNCHANGED reported
    BY <1>1, <2>1, <2>2 DEF OnlyInv
  <2>3. CASE AddsRecord /\ (Report \/ (Psearch /\ Lookup(psearch, Literal) > 0))
    <3> DEFINE r == [top |-> Tops, path |-> path]
    <3>1. reported' = Append(reported, r) /\ pc \in InTopPcs
      BY <2>3 DEF AddsRecord, Added, InTopPcs, FramePcs
    <3>2. r \in Records /\ r.top = Tops /\ r.path = path
      BY <3>1 DEF DataInv, TextOK, Records, RestInv
    <3>3. IsRight(Tops, path)
      <4>1. CASE Report
        <5>1. AtRest /\ PathFacts /\ WalkFacts /\ pc = "report"
          BY <1>1, <4>1, RestsUntilChanged DEF PathInv, WalkInv, Report
        <5> QED BY <5>1, ReportIsRight
      <4>2. CASE Psearch /\ Lookup(psearch, Literal) > 0
        <5>1. pc = "psearch"
          BY <4>2 DEF Psearch
        <5> QED BY <1>1, <4>2, <5>1, PsearchIsRight
      <4> QED BY <2>3, <4>1, <4>2
    <3> HIDE DEF r
    <3>4. /\ reported'[Len(reported) + 1] = r
          /\ \A k \in 1 .. Len(reported) : reported'[k] = reported[k]
          /\ \A k \in 1 .. Len(reported') : k = Len(reported) + 1 \/ k \in 1 .. Len(reported)
      BY <3>1, <3>2, AddedIs DEF RecordsInv
    <3>5. \A k \in 1 .. Len(reported) : IsRight(reported[k].top, reported[k].path)
      BY <1>1 DEF OnlyInv
    <3>6. ASSUME NEW k \in 1 .. Len(reported') PROVE IsRight(reported'[k].top, reported'[k].path)
      <4>1. CASE k = Len(reported) + 1
        BY <3>2, <3>3, <3>4, <4>1
      <4>2. CASE k \in 1 .. Len(reported)
        BY <3>4, <3>5, <4>2
      <4> QED BY <3>4, <4>1, <4>2
    <3>7. ASSUME NEW k \in 1 .. Len(reported') PROVE IsRight(reported[k].top, reported[k].path)'
      <4>1. IsRight(reported'[k].top, reported'[k].path)
        BY <3>6
      <4> QED BY <2>1, <4>1
    <3> QED BY <3>7
  <2> QED BY <2>2, <2>3, RecordsGrow
<1> QED BY <1>2, <1>3, <1>4

LEMMA OnlyAlways == Spec => []OnlyInv
<1>1. Init => OnlyInv
  <2> SUFFICES ASSUME Init PROVE OnlyInv OBVIOUS
  <2>1. Len(reported) = 0
    BY DEF Init
  <2> QED BY <2>1 DEF OnlyInv
<1> QED
  BY <1>1, OnlyStep, TreeAlways, ApartAlways, StackAlways, DataAlways, PathAlways, RestAlways, WalkAlways, RecordsAlways,
     PsearchAlways, PTL DEF Spec

\* Whatever a search reports in a tree at rest is an entry of a directory in
\* the scope of its top and, if the pattern is well formed, matches one of its
\* alternatives; a literal pattern reports the one path it names.
THEOREM OnlyMatchesFound == Spec => []FindsOnlyMatches
<1>1. RecordsInv /\ OnlyInv => FindsOnlyMatches
  <2> SUFFICES ASSUME RecordsInv, OnlyInv PROVE FindsOnlyMatches OBVIOUS
  <2>1. DOMAIN reported = 1 .. Len(reported)
    BY DEF RecordsInv
  <2> QED BY <2>1 DEF OnlyInv, FindsOnlyMatches, IsRight
<1> QED BY <1>1, RecordsAlways, OnlyAlways, PTL

-----------------------------------------------------------------------------
(***************************************************************************)
(* What the walk has ahead of it.  Entry x of directory d is ahead if some *)
(* frame still has to come to it, or to an entry that d is below; so are   *)
(* the entry that is about to be reported, what is below the entry that    *)
(* may be entered, and everything below a top that is not opened yet.      *)
(***************************************************************************)
Ups == [d \in Nodes |-> Above(d)]
FrameAhead(I, U, f, d, x) == (d = f.fp /\ x \in Left(I, f)) \/ \E y \in Left(I, f) : y \in U[d]
InFrames(I, U, s, d, x) == \E k \in 1 .. Len(s) : FrameAhead(I, U, s[k], d, x)
AtEntryOf(E, f, d, x) == d = f.fp /\ E[x].name = f.entry
UnderEntryOf(I, U, E, f, d) == \E y \in I[f.fp] : E[y].name = f.entry /\ y \in U[d]
Ahead(I, U, E, top, p, s, d, x) ==
  \/ InFrames(I, U, s, d, x)
  \/ p = "report" /\ AtEntryOf(E, s[Len(s)], d, x)
  \/ p \in {"report", "descend", "open"} /\ s # <<>> /\ UnderEntryOf(I, U, E, s[Len(s)], d)
  \/ p = "open" /\ s = <<>> /\ top \in U[d]
IsAhead(d, x) == Ahead(IdsOf, Ups, EntryAt, OpenTop[Tops], pc, stack, d, x)

LEMMA AheadThen ==
  ASSUME Still, NEW d, NEW x
  PROVE  IsAhead(d, x)' <=> Ahead(IdsOf, Ups, EntryAt, OpenTop[Tops], pc', stack', d, x)
<1>1. Ups' = Ups
  BY DEF Still, treeVars, Ups, Above
<1>2. IdsOf' = IdsOf /\ EntryAt' = EntryAt /\ OpenTop' = OpenTop /\ Tops' = Tops
  BY StillStays
<1> QED BY <1>1, <1>2 DEF IsAhead

\* What is ahead by the frames when one is replaced, pushed or popped.
LEMMA FramesWith ==
  ASSUME NEW s \in Seq(Frames), s # <<>>, NEW f \in Frames, NEW u, u = [s EXCEPT ![Len(s)] = f],
         NEW I, NEW U, NEW d, NEW x
  PROVE  /\ InFrames(I, U, u, d, x) => InFrames(I, U, s, d, x) \/ FrameAhead(I, U, f, d, x)
         /\ InFrames(I, U, s, d, x) => InFrames(I, U, u, d, x) \/ FrameAhead(I, U, s[Len(s)], d, x)
         /\ FrameAhead(I, U, f, d, x) => InFrames(I, U, u, d, x)
         /\ FrameAhead(I, U, s[Len(s)], d, x) => InFrames(I, U, s, d, x)
         /\ u # <<>> /\ u[Len(u)] = f
<1> DEFINE n == Len(s)
<1>1. n \in Nat /\ n \in 1 .. n /\ \A k \in 1 .. n : k = n \/ k \in 1 .. n - 1 OBVIOUS
<1>2. u \in Seq(Frames) /\ Len(u) = n /\ u[n] = f /\ \A k \in 1 .. n - 1 : u[k] = s[k]
  BY WithFrame
<1> HIDE DEF n
<1>3. u # <<>>
  BY <1>1, <1>2
<1>4. \A k \in 1 .. n : k = n \/ u[k] = s[k]
  BY <1>1, <1>2
<1>5. Len(s) = n
  BY DEF n
<1> QED BY <1>1, <1>2, <1>3, <1>4, <1>5 DEF InFrames

LEMMA FramesPush ==
  ASSUME NEW s \in Seq(Frames), NEW f, NEW u, u = Append(s, f), NEW I, NEW U, NEW d, NEW x
  PROVE  InFrames(I, U, u, d, x) <=> InFrames(I, U, s, d, x) \/ FrameAhead(I, U, f, d, x)
<1> DEFINE n == Len(s)
<1>1. n \in Nat /\ n + 1 \in 1 .. n + 1 /\ \A k \in 1 .. n + 1 : k = n + 1 \/ k \in 1 .. n OBVIOUS
<1>2. Len(u) = n + 1 /\ u[n + 1] = f /\ \A k \in 1 .. n : u[k] = s[k]
  <2>1. s \in Seq(Frames \cup {f}) /\ f \in Frames \cup {f} OBVIOUS
  <2> QED BY <2>1, AppendProperties
<1> HIDE DEF n
<1>3. \A k \in 1 .. n : k \in 1 .. n + 1
  BY <1>1
<1>4. Len(s) = n
  BY DEF n
<1> QED BY <1>1, <1>2, <1>3, <1>4 DEF InFrames

LEMMA FramesPop ==
  ASSUME NEW s \in Seq(Frames), s # <<>>, NEW u, u = SubSeq(s, 1, Len(s) - 1), NEW I, NEW U, NEW d, NEW x
  PROVE  InFrames(I, U, s, d, x) <=> InFrames(I, U, u, d, x) \/ FrameAhead(I, U, s[Len(s)], d, x)
<1> DEFINE n == Len(s)
<1>1. /\ n \in Nat /\ n >= 1 /\ Len(u) = n - 1
      /\ \A k \in 1 .. n - 1 : u[k] = s[k] /\ k \in 1 .. n
  BY PoppedIs
<1>4. Len(s) = n
  BY DEF n
<1> HIDE DEF n
<1>2. n \in 1 .. n /\ \A k \in 1 .. n : k = n \/ k \in 1 .. n - 1
  BY <1>1
<1> QED BY <1>1, <1>2, <1>4 DEF InFrames

\* The names of a directory are different, and a frame is at one of them.
LEMMA EntryIs ==
  ASSUME AtRest, NEW c \in Nodes, NEW x0 \in Ids(c), NEW f, f.fp = c, f.entry = EntryName(x0), NEW d \in Nodes, NEW x \in Ids(d)
  PROVE  /\ AtEntryOf(EntryAt, f, d, x) <=> d = c /\ x = x0
         /\ UnderEntryOf(IdsOf, Ups, EntryAt, f, d) <=> x0 \in Above(d)
<1>0. TreeInv
  BY DEF AtRest
<1>1. IdsOf[c] = Ids(c) /\ \A y \in Ids(c) : EntryAt[y].name = EntryName(y)
  BY <1>0, StaticIs
<1>2. EntryAt[x].name = EntryName(x) /\ Ups[d] = Above(d)
  BY <1>0, StaticIs DEF Ups
<1>3. d = c /\ EntryName(x) = EntryName(x0) => x = x0
  BY IdsApart
<1>4. \A y \in Ids(c) : EntryName(y) = EntryName(x0) => y = x0
  BY IdsApart
<1> QED BY <1>1, <1>2, <1>3, <1>4 DEF AtEntryOf, UnderEntryOf

\* What a step of search_directory does to what is ahead.
LEMMA AheadNext ==
  ASSUME AtRest, StackInv, DataInv, PathFacts, WalkFacts, Still, NextEntry
  PROVE  \E x0 \in Ids(fp) :
           /\ pc' = "report" \/ (/\ pc' = "descend"
                                 /\ Match!match_pathname(Seen(stack[1].fp, fp, EntryName(x0)), pattern) # Match!SUCCESS)
           /\ \A d \in Nodes : \A x \in Ids(d) :
                /\ IsAhead(d, x)' => IsAhead(d, x)
                /\ IsAhead(d, x) => IsAhead(d, x)' \/ (pc' = "descend" /\ d = fp /\ x = x0)
<1>0. TreeInv
  BY DEF AtRest
<1>1. pc = "walk" /\ stack # <<>>
  BY <1>0, NextTakes
<1>2. PICK f \in Frames, x0 \in Ids(fp) :
              /\ stack' = With(f) /\ f.fp = fp /\ f.entry = EntryName(x0)
              /\ x0 \in Left(IdsOf, frame) /\ Left(IdsOf, f) = Left(IdsOf, frame) \ {x0}
              /\ f.how = Match!match_pathname(Seen(stack[1].fp, fp, EntryName(x0)), pattern)
              /\ pc' = IF f.how = Match!SUCCESS THEN "report" ELSE "descend"
  BY <1>0, NextTakes
<1>3. stack \in Seq(Frames) /\ frame = stack[Len(stack)] /\ fp = frame.fp /\ fp \in Nodes
  BY <1>1, TopFrame DEF frame
<1>4. pc' = "report" \/ (/\ pc' = "descend"
                         /\ Match!match_pathname(Seen(stack[1].fp, fp, EntryName(x0)), pattern) # Match!SUCCESS)
  BY <1>2
<1>5. ASSUME NEW d \in Nodes, NEW x \in Ids(d)
      PROVE  /\ IsAhead(d, x)' => IsAhead(d, x)
             /\ IsAhead(d, x) => IsAhead(d, x)' \/ (pc' = "descend" /\ d = fp /\ x = x0)
  <2> DEFINE F(s) == InFrames(IdsOf, Ups, s, d, x)
             A(g) == FrameAhead(IdsOf, Ups, g, d, x)
  <2>1. /\ F(stack') => F(stack) \/ A(f)
        /\ F(stack) => F(stack') \/ A(frame)
        /\ A(f) => F(stack')
        /\ A(frame) => F(stack)
        /\ stack' # <<>> /\ stack'[Len(stack')] = f
    BY <1>1, <1>2, <1>3, FramesWith DEF With
  <2>2. Ups[d] = Above(d)
    BY DEF Ups
  <2>3. A(frame) <=> A(f) \/ (d = fp /\ x = x0) \/ x0 \in Above(d)
    BY <1>2, <1>3, <2>2 DEF FrameAhead
  <2>4. /\ AtEntryOf(EntryAt, f, d, x) <=> d = fp /\ x = x0
        /\ UnderEntryOf(IdsOf, Ups, EntryAt, f, d) <=> x0 \in Above(d)
    BY <1>2, <1>3, EntryIs
  <2>5. IsAhead(d, x) <=> F(stack)
    BY <1>1 DEF IsAhead, Ahead
  <2>6. IsAhead(d, x)' <=> F(stack') \/ (pc' = "report" /\ d = fp /\ x = x0) \/ x0 \in Above(d)
    BY <1>4, <2>1, <2>4, AheadThen DEF Ahead
  <2> HIDE DEF F, A
  <2> QED BY <1>4, <2>1, <2>3, <2>5, <2>6
<1> QED BY <1>4, <1>5

LEMMA AheadReaddir ==
  ASSUME AtRest, StackInv, DataInv, PathFacts, WalkFacts, Still, Readdir
  PROVE  /\ pc' = "close" => Left(IdsOf, frame)' = {}
         /\ \A d \in Nodes : \A x \in Ids(d) : IsAhead(d, x)' <=> IsAhead(d, x)
<1>0. TreeInv
  BY DEF AtRest
<1>1. pc = "readdir" /\ stack # <<>>
  BY <1>0, ReaddirTakes
<1>2. stack \in Seq(Frames) /\ frame = stack[Len(stack)] /\ fp = frame.fp /\ fp \in Nodes
  BY <1>1, TopFrame DEF frame
<1>3. CASE UNCHANGED stack /\ pc' = "close" /\ Left(IdsOf, frame) = {}
  <2>1. frame' = frame /\ IdsOf' = IdsOf
    BY <1>3, StillStays DEF frame
  <2>2. Left(IdsOf, frame)' = Left(IdsOf, frame)
    BY <2>1
  <2>3. ASSUME NEW d \in Nodes, NEW x \in Ids(d) PROVE IsAhead(d, x)' <=> IsAhead(d, x)
    BY <1>1, <1>3, AheadThen DEF IsAhead, Ahead
  <2> QED BY <1>3, <2>2, <2>3
<1>4. CASE pc' = "walk" /\ \E f \in Frames : stack' = With(f) /\ f.fp = fp /\ Left(IdsOf, f) = Left(IdsOf, frame)
  <2>1. PICK f \in Frames : stack' = With(f) /\ f.fp = fp /\ Left(IdsOf, f) = Left(IdsOf, frame)
    BY <1>4
  <2>2. ASSUME NEW d \in Nodes, NEW x \in Ids(d) PROVE IsAhead(d, x)' <=> IsAhead(d, x)
    <3> DEFINE F(s) == InFrames(IdsOf, Ups, s, d, x)
               A(g) == FrameAhead(IdsOf, Ups, g, d, x)
    <3>1. /\ F(stack') => F(stack) \/ A(f)
          /\ F(stack) => F(stack') \/ A(frame)
          /\ A(f) => F(stack')
          /\ A(frame) => F(stack)
      BY <1>1, <1>2, <2>1, FramesWith DEF With
    <3>2. A(frame) <=> A(f)
      BY <1>2, <2>1 DEF FrameAhead
    <3>3. (IsAhead(d, x) <=> F(stack)) /\ (IsAhead(d, x)' <=> F(stack'))
      BY <1>1, <1>4, AheadThen DEF IsAhead, Ahead
    <3> HIDE DEF F, A
    <3> QED BY <3>1, <3>2, <3>3
  <2> QED BY <1>4, <2>2
<1> QED BY <1>0, <1>3, <1>4, ReaddirTakes

LEMMA AheadOpen ==
  ASSUME AtRest, StackInv, DataInv, PathFacts, RestInv, WalkFacts, Still, Open
  PROVE  \A d \in Nodes : \A x \in Ids(d) : IsAhead(d, x)' <=> IsAhead(d, x)
<1> DEFINE r == OpenDir(path)
           f == [fp |-> r, dir |-> 0, pos |-> -2, pending |-> <<>>,
                 entry |-> <<>>, type |-> "o", how |-> Match!FAILURE]
<1>0. TreeInv /\ IsTree(parent) /\ gone = {}
  BY DEF AtRest, TreeInv
<1>1. pc = "open" /\ pc' = "abspath" /\ stack' = Append(stack, f) /\ stack \in Seq(Frames)
  BY DEF Open, DataInv, FramesOK
<1>2. /\ r \in DirNodes /\ r \in Nodes /\ (stack = <<>> => r = OpenTop[Tops])
      /\ stack # <<>> => fp \in Nodes /\ r \in Children(fp) /\ frame.entry = name[r]
  BY OpenTakes
<1>3. f.fp = r /\ f.pending = <<>> /\ Len(f.pending) = 0 /\ f.pos = -2 OBVIOUS
<1> HIDE DEF f, r
<1>4. Left(IdsOf, f) = Ids(r)
  <2>1. IdsOf[r] = Ids(r)
    BY <1>0, <1>2, StaticIs
  <2>2. \A y \in Ids(r) : y > -2
    BY <1>0, IdsTyped
  <2> QED BY <1>3, <2>1, <2>2 DEF Left
<1>5. ASSUME NEW d \in Nodes, NEW x \in Ids(d) PROVE IsAhead(d, x)' <=> IsAhead(d, x)
  <2> DEFINE F(s) == InFrames(IdsOf, Ups, s, d, x)
             A(g) == FrameAhead(IdsOf, Ups, g, d, x)
  <2>1. F(stack') <=> F(stack) \/ A(f)
    BY <1>1, FramesPush
  <2>2. Ups[d] = Above(d) /\ Above(d) \subseteq Nodes /\ d \in Above(d)
    BY <1>0, AboveSelf DEF Ups
  <2>3. A(f) <=> r \in Above(d)
    <3>1. A(f) <=> (d = r) \/ \E y \in Ids(r) : y \in Above(d)
      BY <1>3, <1>4, <2>2 DEF FrameAhead
    <3>2. ASSUME NEW y \in Ids(r), y \in Above(d) PROVE r \in Above(d)
      <4>1. y \in Children(r)
        BY <2>2, <3>2, NodesFacts DEF Ids
      <4>2. r \in Above(y)
        BY <1>0, <4>1, ChildDepth
      <4> QED BY <1>0, <3>2, <4>2, AboveTrans
    <3>3. r \in Above(d) /\ d # r => \E y \in Ids(r) : y \in Above(d)
      <4>1. r \in Above(d) /\ d # r => \E y \in Children(r) : y \in Above(d)
        BY <1>0, ChildBetween
      <4> QED BY <4>1 DEF Ids
    <3> QED BY <2>2, <3>1, <3>2, <3>3
  <2>4. IsAhead(d, x)' <=> F(stack')
    BY <1>1, AheadThen DEF Ahead
  <2>5. IsAhead(d, x) <=> F(stack) \/ r \in Above(d)
    <3>1. CASE stack = <<>>
      BY <1>1, <1>2, <2>2, <3>1 DEF IsAhead, Ahead
    <3>2. CASE stack # <<>>
      <4>1. r \in Ids(fp) /\ frame.entry = EntryName(r) /\ frame = stack[Len(stack)] /\ frame.fp = fp
        <5>1. r \in Ids(fp) /\ r \notin {-1, 0}
          BY <1>2, <3>2, NodesFacts DEF Ids
        <5> QED BY <1>0, <1>2, <3>2, <5>1, IdsTyped, TopFrame DEF frame
      <4>2. UnderEntryOf(IdsOf, Ups, EntryAt, frame, d) <=> r \in Above(d)
        BY <1>2, <3>2, <4>1, EntryIs
      <4> QED BY <1>1, <3>2, <4>1, <4>2 DEF IsAhead, Ahead
    <3> QED BY <3>1, <3>2
  <2> HIDE DEF F, A
  <2> QED BY <2>1, <2>3, <2>4, <2>5
<1> QED BY <1>5

LEMMA AheadPop ==
  ASSUME AtRest, StackInv, DataInv, Still, stack # <<>>, pc \in {"close", "driver"}, pc' = "back",
         stack' = SubSeq(stack, 1, Len(stack) - 1)
  PROVE  \A d \in Nodes : \A x \in Ids(d) :
           /\ IsAhead(d, x)' => IsAhead(d, x)
           /\ Left(IdsOf, frame) = {} /\ IsAhead(d, x) => IsAhead(d, x)'
<1>1. stack \in Seq(Frames) /\ frame = stack[Len(stack)]
  BY TopFrame DEF frame
<1> SUFFICES ASSUME NEW d \in Nodes, NEW x \in Ids(d)
             PROVE  /\ IsAhead(d, x)' => IsAhead(d, x)
                    /\ Left(IdsOf, frame) = {} /\ IsAhead(d, x) => IsAhead(d, x)'
  OBVIOUS
<1> DEFINE F(s) == InFrames(IdsOf, Ups, s, d, x)
           A(g) == FrameAhead(IdsOf, Ups, g, d, x)
<1>2. F(stack) <=> F(stack') \/ A(frame)
  BY <1>1, FramesPop
<1>3. Left(IdsOf, frame) = {} => ~ A(frame)
  BY DEF FrameAhead
<1>4. (IsAhead(d, x) <=> F(stack)) /\ (IsAhead(d, x)' <=> F(stack'))
  BY AheadThen DEF IsAhead, Ahead
<1> HIDE DEF F, A
<1> QED BY <1>2, <1>3, <1>4

\* The steps that leave the frames as they are.
LEMMA AheadAt ==
  ASSUME AtRest, StackInv, DataInv, Still, UNCHANGED stack, pc' # "report",
         pc' = "descend" => pc = "report", pc' = "open" => pc = "descend", pc' # pc
  PROVE  \A d \in Nodes : \A x \in Ids(d) :
           /\ IsAhead(d, x)' => IsAhead(d, x)
           /\ IsAhead(d, x) =>
                \/ IsAhead(d, x)'
                \/ pc = "report" /\ AtEntryOf(EntryAt, frame, d, x)
                \/ pc \in {"report", "descend", "open"} /\ pc' \notin {"descend", "open"} /\ stack # <<>>
                   /\ UnderEntryOf(IdsOf, Ups, EntryAt, frame, d)
                \/ pc = "open" /\ stack = <<>> /\ OpenTop[Tops] \in Above(d)
<1> SUFFICES ASSUME NEW d \in Nodes, NEW x \in Ids(d)
             PROVE  /\ IsAhead(d, x)' => IsAhead(d, x)
                    /\ IsAhead(d, x) =>
                         \/ IsAhead(d, x)'
                         \/ pc = "report" /\ AtEntryOf(EntryAt, frame, d, x)
                         \/ pc \in {"report", "descend", "open"} /\ pc' \notin {"descend", "open"} /\ stack # <<>>
                            /\ UnderEntryOf(IdsOf, Ups, EntryAt, frame, d)
                         \/ pc = "open" /\ stack = <<>> /\ OpenTop[Tops] \in Above(d)
  OBVIOUS
<1>1. IsAhead(d, x)' <=> Ahead(IdsOf, Ups, EntryAt, OpenTop[Tops], pc', stack, d, x)
  BY AheadThen
<1>2. frame = stack[Len(stack)] /\ Ups[d] = Above(d) /\ (pc = "descend" => stack # <<>>)
  BY DEF frame, Ups, StackInv, Framed, FramePcs
<1> QED BY <1>1, <1>2 DEF IsAhead, Ahead

LEMMA AheadShrinks ==
  ASSUME AtRest, StackInv, DataInv, PathFacts, RestInv, WalkFacts, DirectoryStep, NEW d \in Nodes, NEW x \in Ids(d), IsAhead(d, x)'
  PROVE  IsAhead(d, x)
<1>0. Still
  BY DirectoryStill DEF DataInv
<1>1. CASE NextEntry
  BY <1>0, <1>1, AheadNext
<1>2. CASE Readdir
  BY <1>0, <1>2, AheadReaddir
<1>3. CASE Open
  BY <1>0, <1>3, AheadOpen
<1>4. CASE stack' = SubSeq(stack, 1, Len(stack) - 1) /\ pc \in {"close", "driver"} /\ pc' = "back"
  <2>1. stack # <<>>
    BY <1>4 DEF StackInv, Framed, FramePcs
  <2> QED BY <1>0, <1>4, <2>1, AheadPop
<1>5. CASE UNCHANGED stack /\ pc' # "report" /\ (pc' = "descend" => pc = "report") /\ (pc' = "open" => pc = "descend") /\ pc' # pc
  BY <1>0, <1>5, AheadAt
<1> QED BY <1>1, <1>2, <1>3, <1>4, <1>5 DEF DirectoryStep, OpenSkipped, OpenFails, abspath, DirectoryFails, Driver,
     EndWalk, Report, ReportFails, Descend, BackInDirectory, Close

\* An entry that its frame has come to is behind the walk.
LEMMA EntryBehind ==
  ASSUME AtRest, StackInv, DataInv, WalkFacts, stack # <<>>, NEW x0 \in Ids(fp), x0 \notin Left(IdsOf, frame)
  PROVE  ~ InFrames(IdsOf, Ups, stack, fp, x0)
<1> DEFINE n == Len(stack)
<1>0. TreeInv /\ IsTree(parent)
  BY DEF AtRest, TreeInv
<1>1. stack \in Seq(Frames) /\ n \in Nat /\ n \in 1 .. n /\ fp = stack[n].fp /\ frame = stack[n] /\ fp \in Nodes
  BY TopFrame DEF fp, frame
<1>2. Chained(IdsOf, stack)
  BY DEF WalkFacts, ChainOK
<1>3. Ups[fp] = Above(fp) /\ Above(fp) \subseteq Nodes
  BY <1>0, <1>1, AboveSelf DEF Ups
<1> HIDE DEF n
<1> SUFFICES ASSUME NEW k \in 1 .. n, FrameAhead(IdsOf, Ups, stack[k], fp, x0) PROVE FALSE
  BY DEF InFrames, n
<1> DEFINE c == stack[k].fp
<1>4. c \in Nodes /\ IdsOf[c] = Ids(c) /\ c \in Above(fp) /\ DepthOf(fp) = DepthOf(c) + (n - k) /\ DepthOf(c) \in Nat
  <2>1. c \in Above(fp) /\ DepthOf(fp) = DepthOf(c) + (n - k)
    BY <1>0, <1>1, <1>2, ChainAbove DEF n
  <2>2. c \in Nodes /\ DepthOf(c) \in Nat
    BY <1>0, <1>1, <2>1, AboveDepth
  <2> QED BY <1>0, <2>1, <2>2, StaticIs
<1>5. k # n => /\ k \in 1 .. Len(stack) - 1 /\ stack[k + 1].fp \in Children(c) /\ stack[k + 1].fp \notin Left(IdsOf, stack[k])
               /\ stack[k + 1].fp \in Above(fp)
  <2> SUFFICES ASSUME k # n
               PROVE  /\ k \in 1 .. Len(stack) - 1 /\ stack[k + 1].fp \in Children(c) /\ stack[k + 1].fp \notin Left(IdsOf, stack[k])
                      /\ stack[k + 1].fp \in Above(fp)
    OBVIOUS
  <2>1. k \in 1 .. Len(stack) - 1 /\ k + 1 \in 1 .. Len(stack) /\ k + 1 <= n /\ n \in 1 .. Len(stack)
    BY <1>1 DEF n
  <2>2. stack[k + 1].fp \in Children(c) /\ stack[k + 1].fp \notin Left(IdsOf, stack[k])
    BY <1>0, <1>1, <1>2, <2>1, ChainChild
  <2>3. stack[k + 1].fp \in Above(fp)
    BY <1>0, <1>1, <1>2, <2>1, ChainAbove
  <2> QED BY <2>1, <2>2, <2>3
<1>6. CASE fp = c /\ x0 \in Left(IdsOf, stack[k])
  <2>1. k = n
    BY <1>1, <1>4, <1>6
  <2> QED BY <1>1, <1>6, <2>1
<1>7. ASSUME NEW y \in Left(IdsOf, stack[k]), y \in Above(fp) PROVE FALSE
  <2>1. y \in Ids(c)
    BY <1>4 DEF Left
  <2>2. y \in Children(c)
    BY <1>3, <1>7, <2>1, NodesFacts DEF Ids
  <2>3. CASE k = n
    BY <1>0, <1>1, <1>7, <2>2, <2>3, ChildDepth
  <2>4. CASE k # n
    BY <1>0, <1>1, <1>5, <1>7, <2>2, <2>4, ChildrenApart
  <2> QED BY <2>3, <2>4
<1> QED BY <1>3, <1>6, <1>7 DEF FrameAhead

\* The entry that is reported was ahead, and is not ahead any more.
LEMMA ReportPasses ==
  ASSUME AtRest, StackInv, DataInv, PathFacts, RestInv, WalkFacts, Report,
         NEW d \in Nodes, NEW x \in Ids(d), path = Join(AbsPath(d), EntryName(x))
  PROVE  IsAhead(d, x) /\ ~ IsAhead(d, x)'
<1>0. Still /\ TreeInv /\ IsTree(parent)
  BY DirectoryStill DEF DataInv, DirectoryStep, AtRest, TreeInv
<1>1. pc = "report" /\ stack # <<>> /\ UNCHANGED stack /\ pc' \in {"close", "descend"}
  BY DEF Report, StackInv, Framed, FramePcs
<1>2. fp \in Nodes /\ frame.fp = fp /\ path = Join(AbsPath(fp), frame.entry) /\ frame = stack[Len(stack)]
  BY <1>1, CurrentIs DEF frame
<1>3. PICK x0 \in Ids(fp) : x0 \notin Left(IdsOf, frame) /\ frame.entry = EntryName(x0)
  BY <1>1, CurrentIs
<1>4. d = fp /\ x = x0
  <2>1. Join(AbsPath(d), EntryName(x)) = Join(AbsPath(fp), EntryName(x0))
    BY <1>2, <1>3
  <2> QED BY <1>2, <1>3, <2>1, EntriesApart
<1>5. /\ AtEntryOf(EntryAt, frame, d, x)
      /\ UnderEntryOf(IdsOf, Ups, EntryAt, frame, d) <=> x0 \in Above(d)
  BY <1>2, <1>3, <1>4, EntryIs
<1>6. x0 \notin Above(fp)
  <2>1. x0 \in Above(fp) => x0 \in Nodes
    BY <1>0, <1>2, AboveSelf
  <2>2. x0 \in Nodes => x0 \in Children(fp)
    BY NodesFacts DEF Ids
  <2> QED BY <1>0, <2>1, <2>2, ChildDepth
<1>7. ~ InFrames(IdsOf, Ups, stack, d, x)
  BY <1>1, <1>3, <1>4, EntryBehind
<1>8. IsAhead(d, x)
  BY <1>1, <1>2, <1>5 DEF IsAhead, Ahead
<1>9. ~ IsAhead(d, x)'
  BY <1>0, <1>1, <1>2, <1>4, <1>5, <1>6, <1>7, AheadThen DEF Ahead
<1> QED BY <1>8, <1>9

-----------------------------------------------------------------------------
(***************************************************************************)
(* Nothing is reported twice: what is ahead was not reported for this top. *)
(***************************************************************************)
WalkPcs == FramePcs \cup {"open", "back"}
Apart == \A i, j \in 1 .. Len(reported) : reported[i] = reported[j] => i = j
NotAhead(s) == \A d \in Nodes : \A x \in Ids(d) : s = Join(AbsPath(d), EntryName(x)) => ~ IsAhead(d, x)
NotAgain ==
  \A k \in 1 .. Len(reported) : reported[k].top = Tops =>
    /\ pc \notin {"kern_path", "psearch"}
    /\ pc \in WalkPcs => NotAhead(reported[k].path)
OnceInv == changes = 0 => Apart /\ NotAgain

LEMMA NotAheadStays ==
  ASSUME AtRest, StackInv, DataInv, PathFacts, RestInv, WalkFacts, DirectoryStep, NEW s, NotAhead(s)
  PROVE  NotAhead(s)'
<1>0. UNCHANGED <<parent, name, gone>>
  BY DirectoryStill DEF DataInv, Still, treeVars
<1>1. \A d, x : (s = Join(AbsPath(d), EntryName(x)))' <=> s = Join(AbsPath(d), EntryName(x))
  BY <1>0 DEF Join, AbsPath, EntryName
<1>2. \A d : Ids(d)' = Ids(d)
  BY <1>0 DEF Ids, Children
<1> SUFFICES ASSUME NEW d \in Nodes, NEW x \in Ids(d)', (s = Join(AbsPath(d), EntryName(x)))', IsAhead(d, x)' PROVE FALSE
  BY DEF NotAhead
<1> QED BY <1>1, <1>2, AheadShrinks DEF NotAhead

LEMMA OnceStep ==
  ASSUME TreeInv, ApartInv, StackInv, DataInv, PathInv, RestInv, WalkInv, RecordsInv, OnceInv, [Next]_vars
  PROVE  OnceInv'
<1> SUFFICES ASSUME changes' = 0 PROVE Apart' /\ NotAgain'
  BY DEF OnceInv
<1>0. UNCHANGED argVars /\ UNCHANGED paths
  BY ArgsStay DEF DataInv, argVars
<1>1. ~ Others /\ UNCHANGED treeVars /\ changes = 0
  <2>1. Others => changes' # 0
    BY DEF Others, Change, TreeInv
  <2>2. UNCHANGED treeVars
    BY <2>1, StepsKeepTree DEF Next, vars
  <2> QED BY <2>1, <2>2 DEF treeVars
<1>2. AtRest /\ PathFacts /\ WalkFacts /\ Apart /\ NotAgain
  BY <1>1, RestsUntilChanged DEF PathInv, WalkInv, OnceInv
<1>r. reported \in Seq(Records) /\ Len(reported) \in Nat
  BY DEF RecordsInv
<1>3. CASE AddsRecord
  <2> DEFINE r == [top |-> Tops, path |-> path]
  <2>1. /\ reported' = Append(reported, r) /\ UNCHANGED <<rest, path>> /\ pc \in InTopPcs /\ pc \in {"report", "psearch"}
        /\ pc' \notin {"kern_path", "psearch"}
    BY <1>3 DEF AddsRecord, Added, InTopPcs, FramePcs
  <2>2. Tops' = Tops /\ Tops \in Nat
    BY <1>0, <2>1 DEF RestInv, Tops
  <2>3. r \in Records /\ r.top = Tops /\ r.path = path
    BY <2>2 DEF DataInv, TextOK, Records
  <2>4. Report \/ (pc = "psearch" /\ pc' \notin WalkPcs)
    <3>1. UNCHANGED reported \/ Report \/ Psearch
      BY RecordsGrow
    <3>2. reported' # reported
      BY <1>r, <2>1, <2>3, AddedIs
    <3>3. Psearch => pc = "psearch" /\ pc' \notin WalkPcs
      BY DEF Psearch, Exit, WalkPcs, FramePcs
    <3> QED BY <3>1, <3>2, <3>3
  <2>5. \A k \in 1 .. Len(reported) : reported[k] # r
    <3> SUFFICES ASSUME NEW k \in 1 .. Len(reported), reported[k].top = Tops, reported[k].path = path PROVE FALSE
      BY <2>3
    <3>1. pc \notin {"kern_path", "psearch"} /\ (pc \in WalkPcs => NotAhead(path))
      BY <1>2 DEF NotAgain
    <3>2. Report /\ pc = "report" /\ NotAhead(path) /\ stack # <<>>
      BY <2>1, <2>4, <3>1 DEF WalkPcs, FramePcs, StackInv, Framed
    <3>3. fp \in Nodes /\ path = Join(AbsPath(fp), frame.entry)
      BY <1>2, <3>2, CurrentIs
    <3>4. PICK x \in Ids(fp) : frame.entry = EntryName(x)
      BY <1>2, <3>2, CurrentIs
    <3>5. path = Join(AbsPath(fp), EntryName(x))
      BY <3>3, <3>4
    <3>6. IsAhead(fp, x)
      BY <1>2, <3>2, <3>3, <3>5, ReportPasses
    <3> QED BY <3>2, <3>3, <3>5, <3>6 DEF NotAhead
  <2>6. pc' \in WalkPcs => NotAhead(path)' /\ DirectoryStep
    <3> SUFFICES ASSUME pc' \in WalkPcs PROVE NotAhead(path)' /\ DirectoryStep OBVIOUS
    <3>1. Report
      BY <2>4
    <3>2. UNCHANGED <<parent, name, gone, path>>
      BY <1>1, <2>1 DEF treeVars
    <3>3. \A d, x : (path = Join(AbsPath(d), EntryName(x)))' <=> path = Join(AbsPath(d), EntryName(x))
      BY <3>2 DEF Join, AbsPath, EntryName
    <3>4. \A d : Ids(d)' = Ids(d)
      BY <3>2 DEF Ids, Children
    <3>5. ASSUME NEW d \in Nodes, NEW x \in Ids(d)', (path = Join(AbsPath(d), EntryName(x)))' PROVE ~ IsAhead(d, x)'
      BY <1>2, <3>1, <3>3, <3>4, <3>5, ReportPasses
    <3> QED BY <3>1, <3>5 DEF NotAhead, DirectoryStep
  <2> HIDE DEF r
  <2>7. /\ Len(reported') = Len(reported) + 1 /\ reported'[Len(reported) + 1] = r
        /\ \A k \in 1 .. Len(reported) : reported'[k] = reported[k]
        /\ \A k \in 1 .. Len(reported') : k = Len(reported) + 1 \/ k \in 1 .. Len(reported)
    BY <1>r, <2>1, <2>3, AddedIs
  <2>8. Apart'
    <3>1. \A i, j \in 1 .. Len(reported) : reported[i] = reported[j] => i = j
      BY <1>2 DEF Apart
    <3>2. \A i, j \in 1 .. Len(reported') : reported'[i] = reported'[j] => i = j
      BY <2>5, <2>7, <3>1
    <3> QED BY <3>2 DEF Apart
  <2>9. ASSUME NEW k \in 1 .. Len(reported'), reported'[k].top = Tops, pc' \in WalkPcs PROVE NotAhead(reported[k].path)'
    <3>1. CASE k = Len(reported) + 1
      <4>1. reported'[k].path = path'
        BY <2>1, <2>3, <2>7, <3>1
      <4> QED BY <2>6, <2>9, <4>1 DEF NotAhead
    <3>2. CASE k \in 1 .. Len(reported)
      <4> DEFINE s == reported[k].path
      <4>1. pc \in WalkPcs
        BY <2>4, <2>9 DEF Report, WalkPcs, FramePcs
      <4>2. reported[k].top = Tops /\ reported'[k].path = s
        BY <2>7, <2>9, <3>2
      <4>3. NotAhead(s)
        BY <1>2, <3>2, <4>1, <4>2 DEF NotAgain
      <4>4. \A u : NotAhead(u) => NotAhead(u)'
        BY <1>2, <2>6, <2>9, NotAheadStays
      <4>5. \A u : u = s => NotAhead(u)'
        BY <4>3, <4>4
      <4> HIDE DEF s
      <4> QED BY <4>2, <4>5 DEF NotAhead
    <3> QED BY <2>7, <3>1, <3>2
  <2> QED BY <2>1, <2>2, <2>8, <2>9 DEF NotAgain
<1>4. CASE UNCHANGED reported
  <2>1. Apart'
    BY <1>2, <1>4 DEF Apart
  <2>2. CASE DirectoryStep
    <3>1. Tops' = Tops /\ pc \in WalkPcs /\ pc' \in WalkPcs
      BY <2>2, StillStays, DirectoryStill, DirectoryPlaces DEF DataInv, WalkPcs
    <3>2. pc' \notin {"kern_path", "psearch"}
      BY <3>1 DEF WalkPcs, FramePcs
    <3>3. \A u : NotAhead(u) => NotAhead(u)'
      BY <1>2, <2>2, NotAheadStays
    <3>4. ASSUME NEW k \in 1 .. Len(reported), reported[k].top = Tops PROVE NotAhead(reported[k].path)'
      <4> DEFINE s == reported[k].path
      <4>1. NotAhead(s)
        BY <1>2, <3>1, <3>4 DEF NotAgain
      <4>2. \A u : u = s => NotAhead(u)'
        BY <3>3, <4>1
      <4>3. reported'[k].path = s
        BY <1>4
      <4> HIDE DEF s
      <4> QED BY <4>2, <4>3 DEF NotAhead
    <3> QED BY <1>4, <2>1, <3>1, <3>2, <3>4 DEF NotAgain
  <2>3. CASE NextPath
    <3>1. \A k \in 1 .. Len(reported) : reported[k].top # Tops'
      <4>1. pc = "nextpath" /\ rest # <<>> /\ rest' = Tail(rest)
        BY <2>3 DEF NextPath
      <4>2. rest \in Seq(Seq(Char)) /\ Len(Tail(rest)) = Len(rest) - 1 /\ Len(rest) \in Nat /\ Len(paths) \in Nat
        BY <4>1, HeadTailProperties DEF DataInv, TextOK, ArgsOK
      <4>3. Tops' = Tops + 1 /\ Tops \in Int
        BY <1>0, <4>1, <4>2 DEF Tops
      <4> QED BY <4>3 DEF RecordsInv
    <3> QED BY <1>4, <2>1, <3>1 DEF NotAgain
  <2>4. CASE KernPath
    <3>1. pc = "kern_path" /\ Tops' = Tops
      BY <1>0, <2>4 DEF KernPath, Tops
    <3> QED BY <1>2, <1>4, <2>1, <3>1 DEF NotAgain
  <2>5. CASE SysStep /\ ~ NextPath /\ ~ KernPath
    <3>1. pc' \notin WalkPcs \cup {"kern_path", "psearch"}
      BY <2>5 DEF SysStep, AllocDs, GetPaths, GetPattern, AllocDirs, Acquire, Exit, StripSlashes, Split, Psearch,
         BackInSearch, Finish, Unwind, WalkPcs, FramePcs
    <3> QED BY <2>1, <3>1 DEF NotAgain
  <2>6. CASE UNCHANGED vars
    <3>1. Still /\ UNCHANGED <<pc, stack, rest, parent, name, gone, reported>>
      BY <2>6 DEF Still, vars, sysVars, treeVars
    <3>2. Tops' = Tops
      BY <3>1, StillStays
    <3>3. \A d, x : IsAhead(d, x)' <=> IsAhead(d, x)
      BY <3>1, AheadThen DEF IsAhead
    <3>4. \A d : Ids(d)' = Ids(d) /\ AbsPath(d)' = AbsPath(d) /\ EntryName(d)' = EntryName(d)
      BY <3>1 DEF Ids, Children, AbsPath, EntryName
    <3>5. \A k \in 1 .. Len(reported) : NotAhead(reported[k].path)' <=> NotAhead(reported[k].path)
      BY <3>1, <3>3, <3>4 DEF NotAhead, Join
    <3> QED BY <1>2, <2>1, <3>1, <3>2, <3>5 DEF NotAgain
  <2> QED BY <1>1, <2>2, <2>3, <2>4, <2>5, <2>6 DEF Next
<1> QED BY <1>3, <1>4, RecordsGrow

LEMMA OnceAlways == Spec => []OnceInv
<1>1. Init => OnceInv
  <2> SUFFICES ASSUME Init PROVE OnceInv OBVIOUS
  <2>1. Len(reported) = 0
    BY DEF Init
  <2> QED BY <2>1 DEF OnceInv, Apart, NotAgain
<1> QED
  BY <1>1, OnceStep, TreeAlways, ApartAlways, StackAlways, DataAlways, PathAlways, RestAlways, WalkAlways, RecordsAlways, PTL DEF Spec

-----------------------------------------------------------------------------
(***************************************************************************)
(* What is to be found.                                                    *)
(***************************************************************************)
IsWanted(t, d, x) == d \in Scope(t) /\ x \in Ids(d) /\ Join(AbsPath(d), EntryName(x)) \in ToFind(t)

LEMMA OnePattern ==
  ASSUME RestInv, OneAlternative
  PROVE  Match!IsPattern(pattern) /\ Match!NoBar(pattern) /\ Match!Wildcards(pattern) < MaxNest
<1>1. pattern \in Seq(STRING) \ {<<>>} /\ \A i \in DOMAIN pattern : pattern[i] # "NUL"
  BY SearchAssumption DEF RestInv
<1>2. Match!NoBar(pattern) /\ Match!Wildcards(pattern) < MaxNest
  BY DEF OneAlternative
<1>3. 1 \in DOMAIN pattern
  BY <1>1
<1> QED BY <1>1, <1>2, <1>3 DEF Match!IsPattern, Match!NoBar, Match!NUL

LEMMA ScopeIs ==
  ASSUME TreeInv, NEW t, NEW d \in Scope(t)
  PROVE  /\ d \in Nodes /\ d \in DirNodes /\ TopDir(t) \in Above(d) /\ TopDir(t) \in Nodes
         /\ OpenDir(paths[t]) > 0 /\ OpenDir(paths[t]) = TopDir(t)
         /\ DepthOf(d) \in Nat /\ DepthOf(TopDir(t)) \in Nat /\ DepthOf(TopDir(t)) <= DepthOf(d)
         /\ DepthOf(d) - DepthOf(TopDir(t)) < TREE_DEPTH
<1>1. d \in DirNodes /\ OpenDir(paths[t]) > 0 /\ TopDir(t) \in Above(d) /\ DepthOf(d) - DepthOf(TopDir(t)) < TREE_DEPTH
  BY DEF Scope, Below
<1>2. d \in Nodes
  BY <1>1, NodesFacts
<1>3. TopDir(t) \in Nodes /\ DepthOf(d) \in Nat /\ DepthOf(TopDir(t)) \in Nat /\ DepthOf(TopDir(t)) <= DepthOf(d)
  BY <1>1, <1>2, AboveDepth DEF TreeInv
<1>4. ~ (-ENOTDIR > 0) /\ ~ (-EACCES > 0) /\ \A n \in Nodes : ~ (n < 0)
  BY Errors, NodesFacts DEF ErrorNumbers, ENOTDIR, EACCES
<1>5. OpenDir(paths[t]) = TopDir(t)
  BY <1>1, <1>3, <1>4 DEF OpenDir, TopDir
<1> QED BY <1>1, <1>2, <1>3, <1>5

LEMMA WantedIs ==
  ASSUME TreeInv, RestInv, OneAlternative, NEW t, NEW d, NEW x, IsWanted(t, d, x)
  PROVE  /\ ispattern /\ TopDir(t) = Root => \A i \in DOMAIN pattern : pattern[i] # "/"
         /\ Match!RefVerdict(Join(Rel(TopDir(t), d), EntryName(x)), pattern) = Match!SUCCESS
         /\ ~ isrecursive => pattern[1] = "/" /\ Match!Matches(Join(Rel(TopDir(t), d), EntryName(x)), pattern, 1)
<1> DEFINE R == Join(Rel(TopDir(t), d), EntryName(x))
           s == Join(AbsPath(d), EntryName(x))
<1>1. d \in Scope(t) /\ x \in Ids(d) /\ s \in ToFind(t)
  BY DEF IsWanted
<1>2. d \in Nodes /\ TopDir(t) \in Above(d) /\ EntryName(x) \in Comps
  BY <1>1, ScopeIs, IdsTyped
<1>3. Relative(t, s) = R
  BY <1>2, RelativeIs
<1>4. IsText(R) /\ R # <<>> /\ R[1] = "/"
  BY <1>1, <1>2, RelText
<1> HIDE DEF R, s
<1>5. /\ Promised(t)
      /\ IF isrecursive THEN Match!RefVerdict(R, pattern) = Match!SUCCESS
                        ELSE Match!Matches(R, pattern, 1)
  BY <1>1, <1>3 DEF ToFind
<1>6. ~ isrecursive => pattern[1] = "/"
  BY OnePattern, Anchored DEF isrecursive
<1>7. ~ isrecursive => Match!RefVerdict(R, pattern) = Match!SUCCESS
  <2> SUFFICES ASSUME ~ isrecursive PROVE Match!RefVerdict(R, pattern) = Match!SUCCESS OBVIOUS
  <2>1. 1 \in DOMAIN R
    BY <1>4 DEF IsText
  <2>2. 1 \in Match!Boundaries(R, pattern)
    BY <1>4, <1>6, <2>1 DEF Match!Boundaries
  <2>3. Match!Matches(R, pattern, 1)
    BY <1>5
  <2> QED BY <2>2, <2>3 DEF Match!RefVerdict
<1> QED BY <1>5, <1>6, <1>7 DEF Promised, R

\* The directories between a frame and what is in scope.
LEMMA ParentIsDir ==
  ASSUME TreeInv, gone = {}, NEW d \in DirNodes, NEW c \in Above(d)
  PROVE  c \in DirNodes
<1>0. IsTree(parent) /\ d \in Nodes
  BY NodesFacts DEF TreeInv
<1>1. CASE c = d
  BY <1>1
<1>2. CASE c # d
  <2>1. PICK y \in Children(c) : y \in Above(d)
    BY <1>0, <1>2, ChildBetween
  <2> QED BY <1>0, <2>1, ChildDepth
<1> QED BY <1>1, <1>2

LEMMA OnTheWay ==
  ASSUME AtRest, StackInv, DataInv, RestInv, WalkFacts, stack # <<>>, NEW x0 \in Ids(fp), NEW d \in Scope(Tops), x0 \in Above(d)
  PROVE  /\ x0 \in Children(fp) /\ EntryName(x0) = name[x0] /\ EntryName(x0) \notin {Dot, DotDot}
         /\ x0 \in DirNodes /\ x0 \notin Untyped /\ x0 \notin NoRead /\ fp \notin NoExec /\ Clear(fp)
         /\ TopDir(Tops) = stack[1].fp /\ TopDir(Tops) \in Above(fp) /\ fp \in Nodes /\ d \in Nodes
         /\ Len(stack) < TREE_DEPTH /\ EntryType(x0) = "d"
<1> DEFINE b == TopDir(Tops)
<1>0. TreeInv /\ IsTree(parent) /\ gone = {}
  BY DEF AtRest, TreeInv
<1>1. /\ d \in Nodes /\ d \in DirNodes /\ b \in Above(d) /\ b \in Nodes
      /\ DepthOf(d) \in Nat /\ DepthOf(b) \in Nat /\ DepthOf(d) - DepthOf(b) < TREE_DEPTH
  BY <1>0, ScopeIs
<1>2. b = stack[1].fp /\ b \in Above(fp) /\ fp \in Nodes /\ DepthOf(fp) = DepthOf(b) + (Len(stack) - 1)
  BY <1>0, TopIs, TopIsAbove
<1>3. x0 \in Nodes /\ x0 \in Children(fp) /\ x0 \notin {-1, 0}
  <2>1. x0 \in Nodes
    BY <1>0, <1>1, AboveSelf
  <2> QED BY <2>1, NodesFacts DEF Ids
<1>4. EntryName(x0) = name[x0] /\ EntryName(x0) \notin {Dot, DotDot} /\ ~ (x0 < 1)
  BY <1>0, <1>3, IdsTyped
<1>5. x0 \in DirNodes
  BY <1>0, <1>1, ParentIsDir
<1>6. Above(x0) = {x0} \cup Above(fp) /\ fp \in Above(x0) /\ x0 \notin Above(fp) /\ DepthOf(x0) = DepthOf(fp) + 1
  BY <1>0, <1>3, ChildDepth
<1>7. fp \in Above(d) /\ b \in Above(x0) /\ x0 # b /\ fp # d
  <2>1. fp \in Above(d)
    BY <1>0, <1>1, <1>6, AboveTrans
  <2> QED BY <1>2, <1>6, <2>1
<1>8. \A z \in DirNodes : b \in Above(z) /\ z \in Above(d) => z \notin NoRead /\ (z # d => z \notin NoExec) /\ (z # b => z \notin Untyped)
  BY DEF Scope, Below
<1>9. x0 \notin Untyped /\ x0 \notin NoRead
  BY <1>5, <1>7, <1>8
<1>10. fp \in DirNodes /\ fp \notin NoExec
  <2>1. fp \in DirNodes
    BY TopFrame
  <2> QED BY <1>2, <1>7, <1>8, <2>1
<1>11. Clear(fp)
  <2> SUFFICES ASSUME NEW z \in Above(fp), z # fp PROVE z \notin NoExec
    BY DEF Clear
  <2>1. z \in DirNodes /\ z \in Above(d) /\ z \in Nodes
    BY <1>0, <1>1, <1>2, <1>7, <1>10, ParentIsDir, AboveTrans, AboveSelf
  <2>2. CASE b \in Above(z)
    <3>1. z # d
      BY <1>0, <1>1, <1>2, <1>7, AboveSame
    <3> QED BY <1>8, <2>1, <2>2, <3>1
  <2>3. CASE z \in Above(b) /\ b \notin Above(z)
    <3>1. z # b
      BY <1>0, <1>1, <2>3, AboveSelf
    <3>2. Clear(b)
      <4>1. Tops \in 1 .. Len(paths) /\ paths \in Seq(Seq(Char))
        BY <1>0, TopIs DEF DataInv, ArgsOK
      <4>2. paths[Tops] \in Seq(Char)
        BY <4>1
      <4> QED BY <1>0, <1>1, <4>2, LookupClear DEF TopDir
    <3> QED BY <2>3, <3>1, <3>2 DEF Clear
  <2> QED BY <1>0, <1>2, <2>2, <2>3, AboveLine
<1>12. Len(stack) < TREE_DEPTH
  <2>1. DepthOf(x0) \in Nat /\ DepthOf(x0) <= DepthOf(d)
    BY <1>0, <1>1, AboveDepth
  <2>2. Len(stack) \in Nat /\ TREE_DEPTH \in Nat
    BY TopFrame, SearchAssumption
  <2> QED BY <1>1, <1>2, <1>6, <2>1, <2>2
<1>13. EntryType(x0) = "d"
  BY <1>5, <1>9 DEF EntryType
<1> QED BY <1>1, <1>2, <1>3, <1>4, <1>5, <1>9, <1>10, <1>11, <1>12, <1>13

\* The walk passes nothing that is to be found.
LEMMA NextPassesNone ==
  ASSUME AtRest, StackInv, DataInv, RestInv, WalkFacts, OneAlternative, stack # <<>>, NEW x, IsWanted(Tops, fp, x)
  PROVE  Match!match_pathname(Seen(stack[1].fp, fp, EntryName(x)), pattern) = Match!SUCCESS
<1> DEFINE b == TopDir(Tops)
<1>0. TreeInv /\ x \in Ids(fp)
  BY DEF AtRest, IsWanted
<1>1. b = stack[1].fp /\ ispattern /\ b \in Above(fp) /\ b \in Nodes /\ fp \in Nodes
  BY <1>0, TopIs, TopIsAbove
<1>2. /\ b = Root => \A i \in DOMAIN pattern : pattern[i] # "/"
      /\ Match!RefVerdict(Join(Rel(b, fp), EntryName(x)), pattern) = Match!SUCCESS
  BY <1>0, <1>1, WantedIs
<1>3. Match!IsPattern(pattern) /\ Match!NoBar(pattern) /\ Match!Wildcards(pattern) < MaxNest
  BY OnePattern
<1> HIDE DEF b
<1> QED BY <1>0, <1>1, <1>2, <1>3, SeenExact

LEMMA DescendPassesNone ==
  ASSUME AtRest, StackInv, DataInv, PathFacts, RestInv, WalkFacts, OneAlternative, pc = "descend",
         NEW x0 \in Ids(fp), frame.entry = EntryName(x0), NEW d, NEW x, IsWanted(Tops, d, x), x0 \in Above(d)
  PROVE  Descends
<1> DEFINE b == TopDir(Tops)
<1>0. TreeInv /\ stack # <<>> /\ status = 0 /\ d \in Scope(Tops) /\ x \in Ids(d)
  BY DEF AtRest, StackInv, Framed, FramePcs, Failing, IsWanted
<1>1. /\ x0 \in Children(fp) /\ EntryName(x0) = name[x0] /\ EntryName(x0) \notin {Dot, DotDot}
      /\ b = stack[1].fp /\ b \in Above(fp) /\ fp \in Nodes /\ d \in Nodes /\ EntryType(x0) = "d"
  BY <1>0, OnTheWay
<1>2. frame.type = "d"
  <2>1. PICK y \in Ids(fp) : frame.entry = EntryName(y) /\ frame.type = EntryType(y)
    BY <1>0, CurrentIs
  <2>2. y = x0
    BY <1>0, <2>1, CurrentIs
  <2> QED BY <1>1, <2>1, <2>2
<1>3. ASSUME ~ isrecursive PROVE frame.how = Match!PARTIAL
  <2>1. pattern[1] = "/" /\ Match!Matches(Join(Rel(b, d), EntryName(x)), pattern, 1)
    BY <1>0, <1>3, WantedIs
  <2>2. b # Root
    <3>1. ispattern /\ (b = Root => \A i \in DOMAIN pattern : pattern[i] # "/")
      BY <1>0, TopIs, WantedIs
    <3>2. 1 \in DOMAIN pattern
      BY DEF DataInv, ArgsOK
    <3> QED BY <2>1, <3>1, <3>2
  <2>3. Match!IsPattern(pattern) /\ Match!NoBar(pattern) /\ Match!Wildcards(pattern) < MaxNest
    BY OnePattern
  <2>4. Match!match_pathname(Seen(b, fp, name[x0]), pattern) = Match!PARTIAL
    <3> HIDE DEF b
    <3> QED BY <1>0, <1>1, <2>1, <2>2, <2>3, SeenLeads
  <2>5. path = Join(AbsPath(fp), name[x0])
    BY <1>0, <1>1, CurrentIs
  <2>6. base = Len(AbsPath(b))
    BY <1>0, <1>1, TopIsAbove, AbsTyped DEF PathFacts, HasBase
  <2>7. SubSeq(path, base + 1, Len(path)) = Seen(b, fp, name[x0])
    BY <2>5, <2>6 DEF Seen, Behind
  <2> QED BY <2>4, <2>7 DEF WalkFacts, HowOK
<1> QED BY <1>1, <1>2, <1>3 DEF Descends

LEMMA SkipPassesNone ==
  ASSUME AtRest, StackInv, DataInv, PathFacts, RestInv, WalkFacts, ~ CanFail, OpenSkipped, stack # <<>>,
         NEW x0 \in Ids(fp), frame.entry = EntryName(x0), NEW d \in Scope(Tops), x0 \in Above(d)
  PROVE  FALSE
<1>0. pc = "open" /\ (TooDeep \/ Skipped(OpenDir(path)))
  BY DEF OpenSkipped
<1>1. /\ x0 \in Children(fp) /\ EntryName(x0) = name[x0] /\ x0 \in DirNodes /\ x0 \notin NoRead /\ fp \notin NoExec /\ Clear(fp)
      /\ fp \in Nodes /\ Len(stack) < TREE_DEPTH
  BY OnTheWay
<1>2. ~ TooDeep
  <2>1. Len(stack) \in Nat /\ TREE_DEPTH \in Nat
    BY TopFrame, SearchAssumption
  <2> QED BY <1>1, <2>1 DEF TooDeep
<1>3. path = Join(AbsPath(fp), name[x0])
  BY <1>0, <1>1, CurrentIs
<1>4. OpenDir(path) = x0
  BY <1>1, <1>3, OpensClear
<1>5. x0 \in Nodes
  BY <1>1 DEF Children
<1>6. ~ Skipped(x0)
  BY <1>5, NodesFacts, Errors DEF ErrorNumbers, Skipped, ENOENT, EPERM, EACCES, ENODEV
<1> QED BY <1>0, <1>2, <1>4, <1>6

LEMMA TopPassesNone ==
  ASSUME TreeInv, RestInv, ~ CanFail, OpenSkipped, stack = <<>>, NEW d \in Scope(Tops)
  PROVE  FALSE
<1>0. pc = "open" /\ (TooDeep \/ Skipped(OpenDir(path))) /\ path = paths[Tops]
  BY DEF OpenSkipped, RestInv
<1>1. /\ OpenDir(paths[Tops]) > 0 /\ DepthOf(d) \in Nat /\ DepthOf(TopDir(Tops)) \in Nat /\ OpenDir(paths[Tops]) = TopDir(Tops)
      /\ DepthOf(TopDir(Tops)) <= DepthOf(d) /\ DepthOf(d) - DepthOf(TopDir(Tops)) < TREE_DEPTH /\ TopDir(Tops) \in Nodes
  BY ScopeIs
<1>2. ~ TooDeep
  BY <1>1, SearchAssumption DEF TooDeep
<1>3. ~ Skipped(OpenDir(path))
  BY <1>0, <1>1, NodesFacts, Errors DEF ErrorNumbers, Skipped, ENOENT, EPERM, EACCES, ENODEV
<1> QED BY <1>0, <1>2, <1>3

-----------------------------------------------------------------------------
Stopped == STOPATFIRST /\ reported # <<>>
Has(t, s) == \E k \in 1 .. Len(reported) : reported[k] = [top |-> t, path |-> s]
Drained == pc = "close" /\ status = 0 /\ ~ Stopped => Left(IdsOf, frame) = {}

\* A step that goes on with the search leaves behind what it reports only.
LEMMA PassesReported ==
  ASSUME AtRest, StackInv, DataInv, PathFacts, RestInv, WalkFacts, OneAlternative, ~ CanFail, NativeDirs = {},
         Drained, FoundEnough => Stopped, status = 0, ~ Stopped, RecordsInv, DirectoryStep, status' = 0, ~ Stopped', pc # "driver",
         NEW d, NEW x, IsWanted(Tops, d, x), IsAhead(d, x), ~ IsAhead(d, x)'
  PROVE  reported' = Append(reported, [top |-> Tops, path |-> Join(AbsPath(d), EntryName(x))])
<1>0. TreeInv /\ Still /\ d \in Scope(Tops) /\ x \in Ids(d) /\ d \in Nodes
  BY DirectoryStill, ScopeIs DEF AtRest, DataInv, IsWanted
<1>1. CASE NextEntry
  <2>1. PICK x0 \in Ids(fp) :
           /\ pc' = "report" \/ (/\ pc' = "descend"
                                 /\ Match!match_pathname(Seen(stack[1].fp, fp, EntryName(x0)), pattern) # Match!SUCCESS)
           /\ \A e \in Nodes : \A y \in Ids(e) :
                IsAhead(e, y) => IsAhead(e, y)' \/ (pc' = "descend" /\ e = fp /\ y = x0)
    BY <1>0, <1>1, AheadNext
  <2>2. d = fp /\ x = x0 /\ Match!match_pathname(Seen(stack[1].fp, fp, EntryName(x)), pattern) # Match!SUCCESS
    BY <1>0, <2>1
  <2>3. stack # <<>>
    BY <1>1 DEF NextEntry, StackInv, Framed, FramePcs
  <2> QED BY <2>2, <2>3, NextPassesNone
<1>2. CASE Readdir
  BY <1>0, <1>2, AheadReaddir
<1>3. CASE Open
  BY <1>0, <1>3, AheadOpen
<1>4. CASE Close
  <2>1. stack # <<>> /\ pc = "close" /\ pc' = "back" /\ stack' = SubSeq(stack, 1, Len(stack) - 1)
    BY <1>4 DEF Close, StackInv, Framed, FramePcs
  <2>2. Left(IdsOf, frame) = {}
    BY <2>1 DEF Drained
  <2> QED BY <1>0, <2>1, <2>2, AheadPop
<1> DEFINE Gone ==
                \/ pc = "report" /\ AtEntryOf(EntryAt, frame, d, x)
                \/ pc \in {"report", "descend", "open"} /\ pc' \notin {"descend", "open"} /\ stack # <<>>
                   /\ UnderEntryOf(IdsOf, Ups, EntryAt, frame, d)
                \/ pc = "open" /\ stack = <<>> /\ OpenTop[Tops] \in Above(d)
<1>5. ASSUME UNCHANGED stack, pc' # "report", pc' = "descend" => pc = "report", pc' = "open" => pc = "descend", pc' # pc
      PROVE  Gone
  BY <1>0, <1>5, AheadAt
<1>6. CASE abspath \/ EndWalk \/ BackInDirectory \/ DirectoryFails
  <2>1. UNCHANGED stack /\ pc \notin {"report", "descend", "open"} /\ pc' \notin {"report", "descend", "open"} /\ pc' # pc
    BY <1>6 DEF abspath, EndWalk, BackInDirectory, DirectoryFails
  <2> QED BY <1>5, <2>1
<1>7. ASSUME stack # <<>>, pc \in {"report", "descend", "open"}
      PROVE  \E x0 \in Ids(fp) : /\ frame.entry = EntryName(x0) /\ path = Join(AbsPath(fp), EntryName(x0))
                                 /\ AtEntryOf(EntryAt, frame, d, x) <=> d = fp /\ x = x0
                                 /\ UnderEntryOf(IdsOf, Ups, EntryAt, frame, d) <=> x0 \in Above(d)
  <2>1. fp \in Nodes /\ frame.fp = fp /\ path = Join(AbsPath(fp), frame.entry)
    BY <1>7, CurrentIs
  <2>2. PICK x0 \in Ids(fp) : frame.entry = EntryName(x0)
    BY <1>7, CurrentIs
  <2>3. /\ AtEntryOf(EntryAt, frame, d, x) <=> d = fp /\ x = x0
        /\ UnderEntryOf(IdsOf, Ups, EntryAt, frame, d) <=> x0 \in Above(d)
    BY <1>0, <2>1, <2>2, EntryIs
  <2>4. path = Join(AbsPath(fp), EntryName(x0))
    BY <2>1, <2>2
  <2> QED BY <2>2, <2>3, <2>4
<1>8. CASE OpenSkipped
  <2>1. UNCHANGED stack /\ pc = "open" /\ pc' = "back"
    BY <1>8 DEF OpenSkipped
  <2>2. CASE stack = <<>>
    BY <1>0, <1>8, <2>2, TopPassesNone
  <2>3. CASE stack # <<>>
    BY <1>0, <1>5, <1>7, <1>8, <2>1, <2>3, SkipPassesNone
  <2> QED BY <2>2, <2>3
<1>9. CASE OpenFails
  <2>1. status' = OpenDir(path) /\ OpenDir(path) < 0
    BY <1>9 DEF OpenFails
  <2> QED BY <2>1
<1>10. CASE Descend
  <2>1. UNCHANGED stack /\ pc = "descend" /\ stack # <<>> /\ (pc' = "open" \/ (pc' = "walk" /\ ~ Descends))
    BY <1>10 DEF Descend, StackInv, Framed, FramePcs
  <2>2. Gone
    BY <1>5, <2>1
  <2>3. PICK x0 \in Ids(fp) : frame.entry = EntryName(x0) /\ (UnderEntryOf(IdsOf, Ups, EntryAt, frame, d) <=> x0 \in Above(d))
    BY <1>7, <2>1
  <2>4. x0 \in Above(d) /\ ~ Descends
    BY <2>1, <2>2, <2>3
  <2> QED BY <2>1, <2>3, <2>4, DescendPassesNone
<1>11. CASE Report
  <2>1. /\ UNCHANGED stack /\ pc = "report" /\ stack # <<>> /\ pc' = IF STOPATFIRST THEN "close" ELSE "descend"
        /\ reported' = Append(reported, [top |-> Tops, path |-> path])
    BY <1>11 DEF Report, Copy, StackInv, Framed, FramePcs
  <2>2. reported' # <<>>
    <3>1. reported \in Seq(Records)
      BY DEF RecordsInv
    <3>2. [top |-> Tops, path |-> path] \in Records
      BY <2>1 DEF Records, RestInv, InTopPcs, FramePcs, DataInv, TextOK
    <3> QED BY <2>1, <3>1, <3>2, AppendProperties
  <2>3. STOPATFIRST' = STOPATFIRST
    BY <1>0 DEF Still, argVars, STOPATFIRST
  <2>4. pc' = "descend"
    BY <2>1, <2>2, <2>3 DEF Stopped
  <2>5. Gone
    BY <1>5, <2>1, <2>4
  <2>6. PICK x0 \in Ids(fp) : path = Join(AbsPath(fp), EntryName(x0)) /\ (AtEntryOf(EntryAt, frame, d, x) <=> d = fp /\ x = x0)
    BY <1>7, <2>1
  <2>7. d = fp /\ x = x0
    BY <2>1, <2>4, <2>5, <2>6
  <2> QED BY <2>1, <2>6, <2>7
<1>12. CASE ReportFails
  <2>1. status' # 0
    BY <1>12, Errors DEF ReportFails, ErrorNumbers, EFAULT, ERANGE, EIO
  <2> QED BY <2>1
<1>13. ~ \E n \in Answers : Driver(n)
  BY DEF Driver
<1> QED BY <1>1, <1>2, <1>3, <1>4, <1>6, <1>8, <1>9, <1>10, <1>11, <1>12, <1>13 DEF DirectoryStep

-----------------------------------------------------------------------------
(***************************************************************************)
(* Without a file system that searches on its own, ds->results counts what *)
(* was copied, and a directory is closed when nothing is left of it, after *)
(* an error, or after the one result that was asked for.                   *)
(***************************************************************************)
CountInv == pc # "driver" /\ (results > 0 => reported # <<>>)

LEMMA CountAlways ==
  ASSUME NativeDirs = {}
  PROVE  Spec => []CountInv
<1>1. Init => CountInv
  BY DEF Init, CountInv
<1>2. DataInv /\ RestInv /\ RecordsInv /\ CountInv /\ [Next]_vars => CountInv'
  <2> SUFFICES ASSUME DataInv, RestInv, RecordsInv, CountInv, [Next]_vars PROVE CountInv' OBVIOUS
  <2>1. pc' # "driver"
    BY DEF CountInv, Next, vars, Others, SysStep, AllocDs, GetPaths, GetPattern, AllocDirs, Acquire, Exit, StripSlashes, Split,
         NextPath, KernPath, Psearch, BackInSearch, Finish, Unwind, DirectoryStep, OpenSkipped, OpenFails,
         Open, abspath, Readdir, DirectoryFails, Driver, NextEntry, EndWalk, Report, ReportFails, Descend,
         BackInDirectory, Close
  <2>2. CASE AddsRecord
    <3> DEFINE r == [top |-> Tops, path |-> path]
    <3>1. reported' = Append(reported, r) /\ pc \in InTopPcs
      BY <2>2 DEF AddsRecord, Added, InTopPcs, FramePcs
    <3>2. r \in Records /\ reported \in Seq(Records)
      BY <3>1 DEF DataInv, TextOK, Records, RestInv, RecordsInv
    <3>3. reported' # <<>>
      BY <3>1, <3>2, AppendProperties
    <3> QED BY <2>1, <3>3 DEF CountInv
  <2>3. CASE UNCHANGED <<reported, results>>
    BY <2>1, <2>3 DEF CountInv
  <2>4. AddsRecord \/ UNCHANGED <<reported, results>>
    <3>1. SysStep => Psearch \/ UNCHANGED <<reported, results>>
      BY DEF SysStep, AllocDs, GetPaths, GetPattern, AllocDirs, Acquire, StripSlashes, Split, NextPath,
         KernPath, BackInSearch, Finish, Unwind, bufVars
    <3>2. DirectoryStep => Report \/ UNCHANGED <<reported, results>>
      BY DEF CountInv, DirectoryStep, OpenSkipped, OpenFails, Open, abspath, Readdir, DirectoryFails, Driver,
         NextEntry, EndWalk, ReportFails, CopyFails, GetattrFails, Descend, BackInDirectory, Close, bufVars
    <3>3. Others \/ UNCHANGED vars => UNCHANGED <<reported, results>>
      BY DEF Others, vars, bufVars
    <3>4. Report => Added
      BY DEF Report, Copy, Added
    <3>5. Psearch => Added \/ UNCHANGED <<reported, results>>
      BY DEF Psearch, Copy, CopyFails, GetattrFails, Added, bufVars
    <3>6. Added => ~ UNCHANGED reported
      <4> SUFFICES ASSUME Added PROVE reported' # reported OBVIOUS
      <4>1. reported \in Seq(Records)
        BY DEF RecordsInv
      <4>2. reported \in Seq(Records \cup {[top |-> Tops, path |-> path]})
        BY <4>1
      <4>3. Len(reported') = Len(reported) + 1 /\ Len(reported) \in Nat
        BY <4>2, AppendProperties DEF Added
      <4> QED BY <4>3
    <3> QED BY <3>1, <3>2, <3>3, <3>4, <3>5, <3>6, RecordsGrow DEF Next
  <2> QED BY <2>2, <2>3, <2>4
<1> QED BY <1>1, <1>2, DataAlways, RestAlways, RecordsAlways, PTL DEF Spec

DrainInv == changes = 0 => Drained

LEMMA DrainAlways ==
  ASSUME NativeDirs = {}
  PROVE  Spec => []DrainInv
<1>1. Init => DrainInv
  BY DEF Init, DrainInv, Drained
<1>2. ASSUME TreeInv, ApartInv, StackInv, DataInv, PathInv, RestInv, WalkInv, RecordsInv, CountInv, OneInv, DrainInv, [Next]_vars
      PROVE  DrainInv'
  <2> SUFFICES ASSUME changes' = 0, pc' = "close", status' = 0, ~ Stopped' PROVE (Left(IdsOf, frame) = {})'
    BY DEF DrainInv, Drained
  <2>0. UNCHANGED argVars /\ STOPATFIRST' = STOPATFIRST
    BY <1>2, ArgsStay DEF DataInv, argVars, STOPATFIRST
  <2>1. ~ Others /\ changes = 0
    <3>1. Others => changes' # 0
      BY <1>2 DEF Others, Change, TreeInv
    <3>2. UNCHANGED treeVars
      BY <1>2, <3>1, StepsKeepTree DEF Next, vars
    <3> QED BY <3>1, <3>2 DEF treeVars
  <2>2. AtRest /\ PathFacts /\ WalkFacts /\ Drained
    BY <1>2, <2>1, RestsUntilChanged DEF PathInv, WalkInv, DrainInv
  <2>3. Readdir \/ DirectoryFails \/ Report \/ ReportFails \/ BackInDirectory \/ UNCHANGED vars
    BY <1>2, <2>1 DEF CountInv, Next, SysStep, AllocDs, GetPaths, GetPattern, AllocDirs, Acquire, Exit, StripSlashes, Split,
         NextPath, KernPath, Psearch, BackInSearch, Finish, Unwind, DirectoryStep, OpenSkipped, OpenFails,
         Open, abspath, Driver, NextEntry, EndWalk, Descend, Close
  <2>4. CASE Readdir
    <3>1. Still
      BY <1>2, <2>4, DirectoryStill DEF DataInv, DirectoryStep
    <3> QED BY <1>2, <2>2, <2>4, <3>1, AheadReaddir
  <2>5. CASE DirectoryFails \/ ReportFails
    <3>1. status' # 0
      BY <2>5, Errors DEF DirectoryFails, ReportFails, ErrorNumbers, EFAULT, ERANGE, EIO, ENOENT, ENAMETOOLONG
    <3> QED BY <3>1
  <2>6. CASE Report
    <3>1. STOPATFIRST /\ reported' = Append(reported, [top |-> Tops, path |-> path]) /\ pc = "report"
      BY <2>6 DEF Report, Copy
    <3>2. reported \in Seq(Records) /\ [top |-> Tops, path |-> path] \in Records
      BY <1>2, <3>1 DEF Records, RestInv, InTopPcs, FramePcs, DataInv, TextOK, RecordsInv
    <3>3. reported' # <<>>
      BY <3>1, <3>2, AppendProperties
    <3> QED BY <2>0, <3>1, <3>3 DEF Stopped
  <2>7. CASE BackInDirectory
    <3>1. UNCHANGED <<reported, status>> /\ FoundEnough
      BY <2>7 DEF BackInDirectory
    <3> QED BY <1>2, <2>0, <3>1 DEF FoundEnough, CountInv, Stopped
  <2>8. CASE UNCHANGED vars
    <3>1. UNCHANGED <<parent, name, gone, stack, pc, status, reported>> /\ UNCHANGED treeVars
      BY <2>8 DEF vars, treeVars
    <3>2. frame' = frame /\ IdsOf' = IdsOf
      BY <3>1, StaticStays DEF frame
    <3>3. Left(IdsOf, frame)' = Left(IdsOf, frame)
      BY <3>2
    <3> QED BY <2>0, <2>2, <3>1, <3>3 DEF Drained, Stopped
  <2> QED BY <2>3, <2>4, <2>5, <2>6, <2>7, <2>8
<1> QED
  BY <1>1, <1>2, TreeAlways, ApartAlways, StackAlways, DataAlways, PathAlways, RestAlways, WalkAlways, RecordsAlways, CountAlways,
     OneAlways, PTL DEF Spec

\* The leading slashes of a literal are skipped.
ShiftInv == pc \in {"split", "nextpath", "kern_path", "psearch"} /\ ~ ispattern => shift = LeadingSlashes

LEMMA ShiftAlways == Spec => []ShiftInv
<1>1. Init => ShiftInv
  BY DEF Init, ShiftInv
<1>2. DataInv /\ RestInv /\ ShiftInv /\ [Next]_vars => ShiftInv'
  <2> SUFFICES ASSUME DataInv, RestInv, ShiftInv, [Next]_vars PROVE ShiftInv' OBVIOUS
  <2>1. ispattern' = ispattern /\ LeadingSlashes' = LeadingSlashes
    BY ArgsStay DEF DataInv, argVars, ispattern, LeadingSlashes
  <2>2. CASE StripSlashes
    BY <2>1, <2>2 DEF StripSlashes, ShiftInv
  <2>3. CASE DirectoryStep \/ BackInSearch
    <3>1. ispattern
      BY <2>3, DirectoryPlaces DEF BackInSearch, RestInv
    <3> QED BY <2>1, <3>1 DEF ShiftInv
  <2>4. CASE AllocDirs
    BY <2>1, <2>4 DEF AllocDirs, ShiftInv
  <2>5. CASE SysStep /\ ~ StripSlashes /\ ~ BackInSearch /\ ~ AllocDirs
    BY <2>1, <2>5 DEF SysStep, AllocDs, GetPaths, GetPattern, Acquire, Exit, Split,
         NextPath, KernPath, Psearch, Finish, Unwind, heapVars, ShiftInv
  <2>6. CASE Others \/ UNCHANGED vars
    BY <2>1, <2>6 DEF Others, vars, heapVars, ShiftInv
  <2> QED BY <2>2, <2>3, <2>4, <2>5, <2>6 DEF Next
<1> QED BY <1>1, <1>2, DataAlways, RestAlways, PTL DEF Spec

-----------------------------------------------------------------------------
(***************************************************************************)
(* A literal pattern that is to be found is found by its lookup.           *)
(***************************************************************************)
LEMMA JoinBehind ==
  ASSUME NEW s \in Seq(Char), NEW c \in Comps
  PROVE  /\ Behind(Join(s, c), 1) = IF s = <<>> THEN c ELSE Join(Behind(s, 1), c)
         /\ Len(Join(s, c)) \in Nat /\ Len(Join(s, c)) >= 2
         /\ Join(s, c)[2] = IF s = <<>> THEN c[1] ELSE IF Len(s) = 1 THEN "/" ELSE s[2]
<1>0. c \in Seq(Char) /\ c # <<>> /\ Len(c) \in Nat /\ Len(c) >= 1 /\ Len(s) \in Nat
  <2>1. c \in Seq(Char) /\ c # <<>>
    BY DEF Comps, IsComponent
  <2> QED BY <2>1
<1> DEFINE J == Join(s, c)
<1>1. /\ J \in Seq(Char) /\ Len(J) = Len(s) + 1 + Len(c)
      /\ \A i \in 1 .. Len(s) : J[i] = s[i]
      /\ J[Len(s) + 1] = "/"
      /\ \A i \in 1 .. Len(c) : J[Len(s) + 1 + i] = c[i]
  BY <1>0, JoinIs
<1>2. CASE s = <<>>
  <2>1. Len(s) = 0
    BY <1>2
  <2> DEFINE u == Behind(J, 1)
  <2>2. u \in Seq(Char) /\ Len(u) = Len(J) - 1 /\ \A i \in 1 .. Len(J) - 1 : u[i] = J[1 + i]
    <3>1. 1 \in 0 .. Len(J)
      BY <1>0, <1>1
    <3> HIDE DEF J
    <3> QED BY <1>1, <3>1, BehindIs
  <2> HIDE DEF u, J
  <2>3. Len(u) = Len(c) /\ \A i \in 1 .. Len(u) : u[i] = c[i]
    <3>1. Len(J) - 1 = Len(c) /\ \A i \in 1 .. Len(c) : i \in 1 .. Len(J) - 1 /\ Len(s) + 1 + i = 1 + i
      BY <1>0, <1>1, <2>1
    <3> QED BY <1>1, <2>2, <3>1
  <2>4. u = c
    BY <1>0, <2>2, <2>3, SameSeq
  <2>5. J[2] = c[1] /\ Len(J) \in Nat /\ Len(J) >= 2
    <3>1. 1 \in 1 .. Len(c) /\ Len(s) + 1 + 1 = 2
      BY <1>0, <2>1
    <3>2. J[2] = c[1]
      BY <1>1, <3>1
    <3> QED BY <1>0, <1>1, <3>2
  <2> QED BY <1>2, <2>4, <2>5 DEF u, J
<1>3. CASE s # <<>>
  <2>1. Len(s) >= 1 /\ 1 \in 0 .. Len(s)
    BY <1>0, <1>3
  <2>2. Behind(J, 1) = Join(Behind(s, 1), c)
    BY <1>0, <2>1, BehindJoin
  <2> HIDE DEF J
  <2>3. J[2] = IF Len(s) = 1 THEN "/" ELSE s[2]
    <3>1. CASE Len(s) = 1
      <4>1. Len(s) + 1 = 2
        BY <3>1
      <4> QED BY <1>1, <3>1, <4>1
    <3>2. CASE Len(s) # 1
      <4>1. \A n \in Nat : n >= 1 /\ n # 1 => 2 \in 1 .. n OBVIOUS
      <4>2. 2 \in 1 .. Len(s)
        BY <1>0, <2>1, <3>2, <4>1
      <4> QED BY <1>1, <3>2, <4>2
    <3> QED BY <3>1, <3>2
  <2>4. Len(J) \in Nat /\ Len(J) >= 2
    BY <1>0, <1>1, <2>1
  <2> QED BY <1>3, <2>2, <2>3, <2>4 DEF J
<1> QED BY <1>2, <1>3

\* From the top, the relative path of a directory names it.
LEMMA RelFound ==
  ASSUME AtRest, NEW b \in Nodes, NEW d \in Nodes, b \in Above(d), b # d
  PROVE  /\ Len(Rel(b, d)) \in Nat /\ Len(Rel(b, d)) >= 2 /\ Rel(b, d)[2] # "/"
         /\ Lookup(b, Behind(Rel(b, d), 1)) \in {d, -EACCES}
<1> DEFINE P(x) == b \in Above(x) /\ b # x =>
                     /\ Len(Rel(b, x)) \in Nat /\ Len(Rel(b, x)) >= 2 /\ Rel(b, x)[2] # "/"
                     /\ Lookup(b, Behind(Rel(b, x), 1)) \in {x, -EACCES}
           G == {x \in Nodes : P(x)}
<1>0. TreeInv /\ IsTree(parent) /\ gone = {}
  BY DEF AtRest, TreeInv
<1>1. Root \in G
  <2>1. Root \in Nodes /\ (b \in Above(Root) => b = Root)
    BY <1>0, AboveUnfold, NodesFacts
  <2> QED BY <2>1
<1>2. ASSUME NEW y \in Nodes \ {Root}, parent[y] \in G PROVE y \in G
  <2> SUFFICES ASSUME b \in Above(y), b # y
               PROVE  /\ Len(Rel(b, y)) \in Nat /\ Len(Rel(b, y)) >= 2 /\ Rel(b, y)[2] # "/"
                      /\ Lookup(b, Behind(Rel(b, y), 1)) \in {y, -EACCES}
    OBVIOUS
  <2> DEFINE c == parent[y]
             r == Rel(b, c)
             e == name[y]
  <2>1. y \in Children(c) /\ c \in Nodes /\ P(c)
    BY <1>0, <1>2 DEF Children
  <2>2. b \in Above(c)
    BY <1>0, <2>1, ChildDepth
  <2>3. e \in Comps /\ r \in Seq(Char) /\ (b = c => r = <<>>) /\ (b # c => r # <<>>)
    BY <1>0, <2>1, <2>2, NamesAreComponents, RelIs
  <2>4. Rel(b, y) = Join(r, e)
    BY <1>0, <2>1, <2>2, RelChild
  <2>5. /\ Behind(Join(r, e), 1) = IF r = <<>> THEN e ELSE Join(Behind(r, 1), e)
        /\ Len(Join(r, e)) \in Nat /\ Len(Join(r, e)) >= 2
        /\ Join(r, e)[2] = IF r = <<>> THEN e[1] ELSE IF Len(r) = 1 THEN "/" ELSE r[2]
    BY <2>3, JoinBehind
  <2>6. Step(b, c, e) \in {y, -EACCES}
    BY <2>1, StepToChild
  <2>7. IsComponent(e) /\ e[1] # "/"
    <3>1. IsComponent(e)
      BY <2>3 DEF Comps
    <3>2. 1 \in 1 .. Len(e)
      BY <3>1 DEF IsComponent
    <3> QED BY <3>1, <3>2 DEF IsComponent
  <2>8. CASE b = c
    <3>1. Lookup(b, e) = Step(b, b, e)
      BY <1>0, <2>7, LookupName
    <3> QED BY <2>3, <2>4, <2>5, <2>6, <2>7, <2>8, <3>1
  <2>9. CASE b # c
    <3> DEFINE l == Behind(r, 1)
    <3>1. Len(r) \in Nat /\ Len(r) >= 2 /\ r[2] # "/" /\ Lookup(b, l) \in {c, -EACCES}
      BY <2>1, <2>2, <2>9
    <3>2. l \in Seq(Char)
      <4>1. 1 \in 0 .. Len(r)
        BY <3>1
      <4> HIDE DEF r
      <4> QED BY <2>3, <4>1, BehindIs
    <3>3. Lookup(b, Join(l, e)) = IF Lookup(b, l) < 0 THEN Lookup(b, l) ELSE Step(b, Lookup(b, l), e)
      <4> HIDE DEF l
      <4> QED BY <1>0, <2>7, <3>2, LookupExtend DEF Join
    <3>4. ~ (c < 0) /\ -EACCES < 0
      <4> HIDE DEF c
      <4> QED BY <2>1, ErrorsNegative DEF LookupErrors
    <3>5. Lookup(b, Join(l, e)) \in {y, -EACCES}
      BY <2>6, <3>1, <3>3, <3>4
    <3>6. Len(r) # 1
      BY <3>1
    <3> QED BY <2>3, <2>4, <2>5, <2>9, <3>1, <3>5, <3>6
  <2> QED BY <2>8, <2>9
<1>3. Nodes \subseteq G
  <2> HIDE DEF G
  <2> QED BY <1>0, <1>1, <1>2, TreeDown
<1> QED BY <1>3

\* So does that of an entry.
LEMMA EntryFound ==
  ASSUME AtRest, NEW b \in Nodes, NEW d \in DirNodes, b \in Above(d), NEW x \in Ids(d)
  PROVE  LET R == Join(Rel(b, d), EntryName(x))
         IN  R \in Seq(Char) /\ Len(R) \in Nat /\ Len(R) >= 2 /\ R[2] # "/" /\ Lookup(b, Behind(R, 1)) # -ENOENT
<1> DEFINE r == Rel(b, d)
           e == EntryName(x)
<1>0. TreeInv /\ IsTree(parent) /\ d \in Nodes
  BY NodesFacts DEF AtRest, TreeInv
<1>1. e \in Comps /\ r \in Seq(Char) /\ (b = d => r = <<>>) /\ (b # d => r # <<>>)
  BY <1>0, IdsTyped, RelIs
<1>2. /\ Behind(Join(r, e), 1) = IF r = <<>> THEN e ELSE Join(Behind(r, 1), e)
      /\ Len(Join(r, e)) \in Nat /\ Len(Join(r, e)) >= 2
      /\ Join(r, e)[2] = IF r = <<>> THEN e[1] ELSE IF Len(r) = 1 THEN "/" ELSE r[2]
  BY <1>1, JoinBehind
<1>3. Step(b, d, e) # -ENOENT
  <2>1. CASE x \in {-1, 0}
    <3>1. e \in {Dot, DotDot}
      BY <1>0, <2>1, IdsTyped
    <3>2. parent[d] \in Nodes /\ -EACCES # -ENOENT /\ \A z \in Nodes : z # -ENOENT
      BY <1>0, TreeTyped, NodesFacts, Errors DEF ErrorNumbers, EACCES, ENOENT
    <3> QED BY <1>0, <3>1, <3>2 DEF Step
  <2>2. CASE x \notin {-1, 0}
    <3>1. x \in Children(d) /\ e = name[x] /\ x \in Nodes
      BY <1>0, <2>2, IdsTyped
    <3>2. Step(b, d, e) = IF d \in NoExec THEN -EACCES ELSE x
      BY <1>0, <3>1, StepToChild, ZenonT(30)
    <3>3. x # -ENOENT /\ -EACCES # -ENOENT
      BY <3>1, NodesFacts, Errors DEF ErrorNumbers, EACCES, ENOENT
    <3> QED BY <3>2, <3>3
  <2> QED BY <2>1, <2>2
<1>4. IsComponent(e) /\ e[1] # "/"
  <2>1. IsComponent(e)
    BY <1>1 DEF Comps
  <2>2. 1 \in 1 .. Len(e)
    BY <2>1 DEF IsComponent
  <2> QED BY <2>1, <2>2 DEF IsComponent
<1>5. Join(r, e) \in Seq(Char)
  BY <1>1, <1>4, JoinIs DEF IsComponent
<1>6. CASE b = d
  <2>1. Lookup(b, e) = Step(b, b, e)
    BY <1>0, <1>4, LookupName
  <2> QED BY <1>1, <1>2, <1>3, <1>4, <1>5, <1>6, <2>1
<1>7. CASE b # d
  <2> DEFINE l == Behind(r, 1)
  <2>1. Len(r) \in Nat /\ Len(r) >= 2 /\ r[2] # "/" /\ Lookup(b, l) \in {d, -EACCES}
    BY <1>0, <1>7, RelFound
  <2>2. l \in Seq(Char)
    <3>1. 1 \in 0 .. Len(r)
      BY <2>1
    <3> HIDE DEF r
    <3> QED BY <1>1, <3>1, BehindIs
  <2>3. Lookup(b, Join(l, e)) = IF Lookup(b, l) < 0 THEN Lookup(b, l) ELSE Step(b, Lookup(b, l), e)
    <3> HIDE DEF l
    <3> QED BY <1>0, <1>4, <2>2, LookupExtend DEF Join
  <2>4. ~ (d < 0) /\ -EACCES < 0 /\ -EACCES # -ENOENT
    BY <1>0, NodesFacts DEF EACCES, ENOENT
  <2>5. Lookup(b, Join(l, e)) # -ENOENT
    BY <1>3, <2>1, <2>3, <2>4
  <2>6. Len(r) # 1
    BY <2>1
  <2> QED BY <1>1, <1>2, <1>5, <1>7, <2>1, <2>5, <2>6
<1> QED BY <1>6, <1>7

LEMMA WantedPair ==
  ASSUME TreeInv, NEW t, NEW s \in ToFind(t)
  PROVE  \E d \in Scope(t) : \E x \in Ids(d) : s = Join(AbsPath(d), EntryName(x)) /\ IsWanted(t, d, x)
<1>1. s \in Candidates(t)
  BY DEF ToFind
<1>2. PICK d \in Scope(t) : s \in {AbsPath(d) \o Slash \o EntryName(x) : x \in {-1, 0} \cup Children(d)}
  BY <1>1 DEF Candidates
<1>3. PICK x \in Ids(d) : s = Join(AbsPath(d), EntryName(x))
  BY <1>2 DEF Ids, Join
<1>4. IsWanted(t, d, x)
  BY <1>3 DEF IsWanted
<1> QED BY <1>3, <1>4

LEMMA JoinRest ==
  ASSUME NEW p \in Seq(Char), NEW u \in Seq(Char), u # <<>>, u[1] = "/"
  PROVE  Join(p, Behind(u, 1)) = p \o u
<1> DEFINE v == Behind(u, 1)
           J == Join(p, v)
           C == p \o u
<1>0. Len(p) \in Nat /\ Len(u) \in Nat /\ Len(u) >= 1 /\ 1 \in 0 .. Len(u) OBVIOUS
<1>1. v \in Seq(Char) /\ Len(v) = Len(u) - 1 /\ \A i \in 1 .. Len(u) - 1 : v[i] = u[1 + i]
  BY <1>0, BehindIs
<1> HIDE DEF v
<1>2. /\ J \in Seq(Char) /\ Len(J) = Len(p) + 1 + Len(v)
      /\ \A i \in 1 .. Len(p) : J[i] = p[i]
      /\ J[Len(p) + 1] = "/"
      /\ \A i \in 1 .. Len(v) : J[Len(p) + 1 + i] = v[i]
  BY <1>1, JoinIs
<1>3. /\ C \in Seq(Char) /\ Len(C) = Len(p) + Len(u)
      /\ \A i \in 1 .. Len(p) + Len(u) : C[i] = IF i <= Len(p) THEN p[i] ELSE u[i - Len(p)]
  BY ConcatProperties
<1> HIDE DEF J, C
<1>4. ASSUME NEW i \in 1 .. Len(J) PROVE J[i] = C[i]
  <2>0. i \in 1 .. Len(p) + Len(u) /\ i \in Nat
    BY <1>0, <1>1, <1>2
  <2>1. CASE i <= Len(p)
    BY <1>0, <1>2, <1>3, <2>0, <2>1
  <2>2. CASE i = Len(p) + 1
    <3>1. i - Len(p) = 1 /\ ~ (i <= Len(p))
      BY <1>0, <2>2
    <3> QED BY <1>2, <1>3, <2>0, <2>2, <3>1
  <2>3. CASE i > Len(p) + 1
    <3> DEFINE k == i - Len(p) - 1
    <3>1. k \in 1 .. Len(v) /\ k \in 1 .. Len(u) - 1 /\ i = Len(p) + 1 + k /\ 1 + k = i - Len(p) /\ ~ (i <= Len(p))
      BY <1>0, <1>1, <2>0, <2>3
    <3> HIDE DEF k
    <3>2. J[i] = v[k] /\ v[k] = u[1 + k]
      BY <1>1, <1>2, <3>1
    <3>3. C[i] = u[i - Len(p)]
      BY <1>3, <2>0, <3>1
    <3> QED BY <3>1, <3>2, <3>3
  <2> QED BY <1>0, <2>0, <2>1, <2>2, <2>3
<1>5. Len(J) = Len(C)
  BY <1>0, <1>1, <1>2, <1>3
<1>6. J = C
  BY <1>2, <1>3, <1>4, <1>5, SameSeq
<1> QED BY <1>6 DEF J, C, v

\* A literal without a doubled slash in front loses one slash.
LEMMA OneSlash ==
  ASSUME ArgsOK, pattern[1] = "/", Len(pattern) >= 2, pattern[2] # "/"
  PROVE  LeadingSlashes = 1
<1>0. DOMAIN pattern = 1 .. Len(pattern) /\ Len(pattern) \in Nat
  BY DEF ArgsOK
<1> DEFINE Q(k) == (\A i \in 1 .. k : pattern[i] = "/") /\ Match!At(pattern, k + 1) # "/"
<1>1. 1 \in DOMAIN pattern /\ 2 \in DOMAIN pattern
  BY <1>0
<1>2. Q(1)
  <2>1. \A i \in 1 .. 1 : i = 1 OBVIOUS
  <2>2. Match!At(pattern, 1 + 1) = pattern[2]
    BY <1>1 DEF Match!At
  <2> QED BY <2>1, <2>2
<1>3. ASSUME NEW k \in DOMAIN pattern, Q(k) PROVE k = 1
  <2>1. k \in 1 .. Len(pattern)
    BY <1>0
  <2>2. k # 1 => 2 \in 1 .. k
    BY <2>1
  <2> QED BY <1>3, <2>2
<1>4. LeadingSlashes = CHOOSE k \in DOMAIN pattern : Q(k)
  BY DEF LeadingSlashes
<1> HIDE DEF Q
<1> QED BY <1>1, <1>2, <1>3, <1>4

LEMMA LiteralIs ==
  ASSUME AtRest, DataInv, RestInv, OneAlternative, ~ ispattern, shift = LeadingSlashes, NEW t \in DOMAIN paths, NEW s \in ToFind(t)
  PROVE  Lookup(TopDir(t), Literal) # -ENOENT /\ Shown(t, s) = paths[t] \o Slash \o Literal
<1> DEFINE b == TopDir(t)
<1>0. TreeInv
  BY DEF AtRest
<1>1. PICK d \in Scope(t) : \E x \in Ids(d) : s = Join(AbsPath(d), EntryName(x)) /\ IsWanted(t, d, x)
  BY <1>0, WantedPair
<1>2. PICK x \in Ids(d) : s = Join(AbsPath(d), EntryName(x)) /\ IsWanted(t, d, x)
  BY <1>1
<1> DEFINE R == Join(Rel(b, d), EntryName(x))
<1>3. d \in Nodes /\ d \in DirNodes /\ b \in Above(d) /\ b \in Nodes /\ EntryName(x) \in Comps
  BY <1>0, <1>1, <1>2, ScopeIs, IdsTyped
<1>4. pattern[1] = "/" /\ \A i \in DOMAIN pattern : pattern[i] \notin {"*", "?", "|"}
  BY DEF ispattern, Match!ispattern
<1>5. ~ isrecursive
  BY <1>4, OnePattern, Anchored DEF isrecursive
<1>6. Match!Matches(R, pattern, 1)
  BY <1>0, <1>2, <1>5, WantedIs
<1>7. IsText(R) /\ R # <<>> /\ R[1] = "/"
  BY <1>0, <1>2, <1>3, RelText
<1>8. IsText(pattern)
  BY SearchAssumption DEF RestInv, DataInv, ArgsOK, IsText
<1>9. R = pattern
  <2> HIDE DEF R
  <2> QED BY <1>4, <1>6, <1>7, <1>8, OnlyItself
<1>10. Len(R) >= 2 /\ R[2] # "/" /\ Lookup(b, Behind(R, 1)) # -ENOENT
  BY <1>2, <1>3, EntryFound
<1>11. shift = 1
  BY <1>4, <1>9, <1>10, OneSlash DEF DataInv
<1>12. Literal = Behind(pattern, 1)
  <2>1. 1 + 1 = 2 OBVIOUS
  <2> QED BY <1>11 DEF Literal, Behind
<1>13. Relative(t, s) = pattern
  <2>1. Relative(t, Join(AbsPath(d), EntryName(x))) = R
    BY <1>0, <1>3, RelativeIs
  <2> QED BY <1>2, <1>9, <2>1
<1>14. paths[t] \o Slash \o Literal = paths[t] \o pattern
  <2>1. paths[t] \in Seq(Char) /\ pattern \in Seq(Char) /\ pattern # <<>>
    BY DEF DataInv, ArgsOK
  <2>2. Join(paths[t], Literal) = paths[t] \o pattern
    BY <1>4, <1>12, <2>1, JoinRest
  <2> QED BY <2>2 DEF Join
<1>15. Shown(t, s) = paths[t] \o pattern
  BY <1>13 DEF Shown
<1>16. Lookup(b, Literal) # -ENOENT
  BY <1>9, <1>10, <1>12
<1> QED BY <1>14, <1>15, <1>16

-----------------------------------------------------------------------------
(***************************************************************************)
(* Nothing is lost: what is to be found and is not ahead was reported.     *)
(***************************************************************************)
Done(t) == \A s \in ToFind(t) : Has(t, Shown(t, s))
AtTop == pc = "open" /\ stack = <<>>
AtEnd == pc = "finish" \/ (pc \in {"unwind", "returned"} /\ label = "success")
Passed ==
  pc \in WalkPcs /\ status = 0 /\ ~ Stopped /\ ~ AtTop =>
    \A t \in DOMAIN paths : \A d \in Nodes : \A x \in Ids(d) : \A s :
      t = Tops /\ s = Join(AbsPath(d), EntryName(x)) /\ IsWanted(t, d, x) /\ ~ IsAhead(d, x) => Has(t, s)
EarlierDone == pc \in InTopPcs \cup {"nextpath"} \/ AtEnd => \A t \in DOMAIN paths : t < Tops => Done(t)
ThisDone == pc = "nextpath" => \A t \in DOMAIN paths : t = Tops => Done(t)
EndDone == AtEnd => Stopped \/ \A t \in DOMAIN paths : Done(t)
FoundFacts == EarlierDone /\ ThisDone /\ Passed /\ EndDone
FoundInv == changes = 0 /\ OneAlternative => FoundFacts

LEMMA HasStays ==
  ASSUME RecordsInv, DataInv, RestInv, [Next]_vars, NEW t, NEW s, Has(t, s)
  PROVE  Has(t, s)'
<1>1. PICK k \in 1 .. Len(reported) : reported[k] = [top |-> t, path |-> s]
  BY DEF Has
<1>2. CASE UNCHANGED reported
  BY <1>1, <1>2 DEF Has
<1>3. CASE AddsRecord
  <2> DEFINE r == [top |-> Tops, path |-> path]
  <2>1. reported' = Append(reported, r) /\ pc \in InTopPcs
    BY <1>3 DEF AddsRecord, Added, InTopPcs, FramePcs
  <2>2. r \in Records /\ reported \in Seq(Records)
    BY <2>1 DEF DataInv, TextOK, Records, RestInv, RecordsInv
  <2> HIDE DEF r
  <2>3. Len(reported') = Len(reported) + 1 /\ Len(reported) \in Nat /\ \A i \in 1 .. Len(reported) : reported'[i] = reported[i]
    BY <2>1, <2>2, AddedIs
  <2>4. k \in 1 .. Len(reported') /\ reported'[k] = [top |-> t, path |-> s]
    BY <1>1, <2>3
  <2> QED BY <2>4 DEF Has
<1> QED BY <1>2, <1>3, RecordsGrow

LEMMA ToFindStays ==
  ASSUME UNCHANGED treeVars, UNCHANGED argVars
  PROVE  /\ \A t : ToFind(t)' = ToFind(t)
         /\ \A t, s : Shown(t, s)' = Shown(t, s)
         /\ \A t, d, x : IsWanted(t, d, x)' <=> IsWanted(t, d, x)
         /\ \A d, x : Join(AbsPath(d), EntryName(x))' = Join(AbsPath(d), EntryName(x))
         /\ \A d : Ids(d)' = Ids(d)
<1>1. UNCHANGED <<parent, name, gone, paths, pattern, flags>>
  BY DEF treeVars, argVars
<1>2. \A t : ToFind(t)' = ToFind(t) /\ Scope(t)' = Scope(t)
  BY <1>1 DEF ToFind, Candidates, Scope, OpenDir, Lookup, Step, Children, TopDir, Below, Above, DepthOf, AbsPath,
     EntryName, Promised, Relative, ispattern, isrecursive
<1>3. \A t, s : Shown(t, s)' = Shown(t, s)
  BY <1>1 DEF Shown, ispattern, Relative, TopDir, Lookup, Step, Children, AbsPath
<1>4. \A d, x : Join(AbsPath(d), EntryName(x))' = Join(AbsPath(d), EntryName(x))
  BY <1>1 DEF Join, AbsPath, EntryName
<1>5. \A d : Ids(d)' = Ids(d)
  BY <1>1 DEF Ids, Children
<1> QED BY <1>2, <1>3, <1>4, <1>5 DEF IsWanted

LEMMA DoneStays ==
  ASSUME RecordsInv, DataInv, RestInv, [Next]_vars, UNCHANGED treeVars, UNCHANGED argVars, NEW t, Done(t)
  PROVE  Done(t)'
<1>1. ToFind(t)' = ToFind(t) /\ \A s : Shown(t, s)' = Shown(t, s)
  BY ToFindStays
<1>2. \A u : Has(t, u) => Has(t, u)'
  BY HasStays
<1> SUFFICES ASSUME NEW s \in ToFind(t)' PROVE Has(t, Shown(t, s))'
  BY DEF Done
<1>3. Has(t, Shown(t, s))
  BY <1>1 DEF Done
<1>4. \A u : u = Shown(t, s) => Has(t, u)'
  BY <1>2, <1>3
<1> QED BY <1>1, <1>4 DEF Has

\* What the steps keep in a tree at rest.
LEMMA FoundStays ==
  ASSUME RecordsInv, DataInv, RestInv, [Next]_vars, UNCHANGED treeVars
  PROVE  /\ UNCHANGED argVars /\ UNCHANGED paths /\ STOPATFIRST' = STOPATFIRST
         /\ \A t : Done(t) => Done(t)'
         /\ \A t, s : Has(t, s) => Has(t, s)'
         /\ Stopped => Stopped'
<1>1. UNCHANGED argVars /\ UNCHANGED paths /\ STOPATFIRST' = STOPATFIRST
  BY ArgsStay DEF DataInv, argVars, STOPATFIRST
<1>2. \A t : Done(t) => Done(t)'
  BY <1>1, DoneStays
<1>3. \A t, s : Has(t, s) => Has(t, s)'
  BY HasStays
<1>4. reported # <<>> => reported' # <<>>
  <2>1. CASE UNCHANGED reported
    BY <2>1
  <2>2. CASE AddsRecord
    <3> DEFINE r == [top |-> Tops, path |-> path]
    <3>1. reported' = Append(reported, r) /\ pc \in InTopPcs
      BY <2>2 DEF AddsRecord, Added, InTopPcs, FramePcs
    <3>2. r \in Records /\ reported \in Seq(Records)
      BY <3>1 DEF DataInv, TextOK, Records, RestInv, RecordsInv
    <3> QED BY <3>1, <3>2, AppendProperties
  <2> QED BY <2>1, <2>2, RecordsGrow
<1> QED BY <1>1, <1>2, <1>3, <1>4 DEF Stopped

LEMMA FoundInDirectory ==
  ASSUME AtRest, StackInv, DataInv, PathFacts, RestInv, WalkFacts, RecordsInv, CountInv, Drained, OneAlternative, ~ CanFail,
         NativeDirs = {}, FoundFacts, DirectoryStep
  PROVE  FoundFacts'
<1>0. Still /\ TreeInv /\ Tops' = Tops /\ UNCHANGED treeVars /\ UNCHANGED argVars /\ paths' = paths /\ [Next]_vars
  BY DirectoryStill, StillStays DEF DataInv, AtRest, Still, Next
<1>1. pc \in WalkPcs /\ pc' \in WalkPcs
  BY DirectoryPlaces DEF WalkPcs
<1>2. /\ \A t : Done(t) => Done(t)'
      /\ \A t, s : Has(t, s) => Has(t, s)'
      /\ Stopped => Stopped'
  BY <1>0, FoundStays
<1>3. EarlierDone' /\ ThisDone' /\ EndDone'
  <2>1. pc \in InTopPcs /\ ~ (pc' = "nextpath") /\ ~ AtEnd'
    BY <1>1 DEF WalkPcs, InTopPcs, FramePcs, AtEnd
  <2>2. \A t \in DOMAIN paths : t < Tops => Done(t)'
    BY <1>2, <2>1 DEF FoundFacts, EarlierDone
  <2> QED BY <1>0, <2>1, <2>2 DEF EarlierDone, ThisDone, EndDone
<1>4. ASSUME pc' \in WalkPcs, status' = 0, ~ Stopped', ~ AtTop', NEW t \in DOMAIN paths', NEW d \in Nodes, NEW x \in Ids(d)', NEW s,
             t = Tops', (s = Join(AbsPath(d), EntryName(x)))', IsWanted(t, d, x)', ~ IsAhead(d, x)'
      PROVE  Has(t, s)'
  <2>1. t = Tops /\ x \in Ids(d) /\ s = Join(AbsPath(d), EntryName(x)) /\ IsWanted(t, d, x) /\ IsWanted(Tops, d, x) /\ ~ Stopped
    BY <1>0, <1>2, <1>4, ToFindStays
  <2>2. status = 0
    <3> SUFFICES ASSUME status # 0 PROVE FALSE OBVIOUS
    <3>1. pc \in {"back", "close", "unwind", "returned"}
      BY DEF StackInv, Failing
    <3>2. UNCHANGED status
      BY <1>1, <3>1 DEF DirectoryStep, OpenSkipped, OpenFails, Open, abspath, Readdir, DirectoryFails, Driver,
         NextEntry, EndWalk, Report, ReportFails, Descend, BackInDirectory, Close
    <3> QED BY <1>4, <3>2
  <2>3. AtTop => IsAhead(d, x)
    <3> SUFFICES ASSUME AtTop PROVE IsAhead(d, x) OBVIOUS
    <3>1. d \in Scope(Tops) /\ Tops \in DOMAIN paths
      BY <1>0, <1>4, <2>1 DEF IsWanted
    <3>2. OpenTop[Tops] \in Above(d)
      BY <1>0, <3>1, ScopeIs DEF OpenTop
    <3>3. OpenTop[Tops] \in Ups[d]
      BY <3>2 DEF Ups
    <3> QED BY <3>3 DEF AtTop, IsAhead, Ahead
  <2>4. CASE ~ IsAhead(d, x)
    <3>1. Has(t, s)
      BY <1>0, <1>1, <2>1, <2>2, <2>3, <2>4 DEF FoundFacts, Passed
    <3> QED BY <1>2, <3>1
  <2>5. CASE IsAhead(d, x)
    <3>1. pc # "driver" /\ (FoundEnough => Stopped)
      BY DEF CountInv, FoundEnough, Stopped
    <3> DEFINE r == [top |-> t, path |-> s]
    <3>2. reported' = Append(reported, [top |-> Tops, path |-> Join(AbsPath(d), EntryName(x))])
      BY <1>4, <2>1, <2>2, <2>5, <3>1, PassesReported
    <3>3. reported' = Append(reported, r)
      BY <2>1, <3>2
    <3>4. reported \in Seq(Records) /\ r \in Records
      <4>1. d \in Nodes /\ AbsPath(d) \in Seq(Char) /\ EntryName(x) \in Seq(Char)
        BY <1>0, <2>1, AbsTyped, IdsTyped DEF Comps
      <4>2. s \in Seq(Char)
        BY <2>1, <4>1, JoinIs
      <4>3. t \in Nat
        BY <1>0, <1>4 DEF DataInv, ArgsOK
      <4> QED BY <4>2, <4>3 DEF RecordsInv, Records
    <3> HIDE DEF r
    <3>5. Len(reported') \in Nat /\ Len(reported') = Len(reported) + 1 /\ Len(reported) \in Nat /\ reported'[Len(reported) + 1] = r
      BY <3>3, <3>4, AddedIs
    <3>6. Len(reported) + 1 \in 1 .. Len(reported')
      BY <3>5
    <3> QED BY <3>5, <3>6 DEF Has, r
  <2> QED BY <2>4, <2>5
<1>5. Passed'
  BY <1>4 DEF Passed
<1> QED BY <1>3, <1>5 DEF FoundFacts

\* A top that is skipped because it does not exist has nothing to be found.
LEMMA NoTopNothing ==
  ASSUME TreeInv, NEW t, TopDir(t) = -ENOENT
  PROVE  ToFind(t) = {}
<1> SUFFICES ASSUME NEW s \in ToFind(t) PROVE FALSE OBVIOUS
<1>1. PICK d \in Scope(t) : TRUE
  BY WantedPair
<1>2. TopDir(t) \in Nodes
  BY <1>1, ScopeIs
<1> QED BY <1>2, NodesFacts, Errors DEF ErrorNumbers

\* Back in sys_search without an error, nothing is ahead.
LEMMA TopIsDone ==
  ASSUME TreeInv, RestInv, FoundFacts, pc = "back", stack = <<>>, status = 0, ~ Stopped, NEW t \in DOMAIN paths, t = Tops
  PROVE  Done(t)
<1> SUFFICES ASSUME NEW s \in ToFind(t) PROVE Has(t, Shown(t, s))
  BY DEF Done
<1>1. PICK d \in Scope(t) : \E x \in Ids(d) : s = Join(AbsPath(d), EntryName(x)) /\ IsWanted(t, d, x)
  BY WantedPair
<1>2. PICK x \in Ids(d) : s = Join(AbsPath(d), EntryName(x)) /\ IsWanted(t, d, x)
  BY <1>1
<1>3. d \in Nodes
  BY <1>1, ScopeIs
<1>4. ~ IsAhead(d, x)
  <2>1. Len(stack) = 0 OBVIOUS
  <2> QED BY <2>1 DEF IsAhead, Ahead, InFrames
<1>5. Has(t, s)
  BY <1>2, <1>3, <1>4 DEF FoundFacts, Passed, WalkPcs, AtTop
<1>6. Shown(t, s) = s
  BY DEF Shown, RestInv
<1> QED BY <1>5, <1>6

LEMMA FoundInSearch ==
  ASSUME AtRest, StackInv, DataInv, RestInv, RecordsInv, CountInv, OneInv, ShiftInv, PsearchInv, changes = 0, OneAlternative,
         FoundFacts, SysStep
  PROVE  FoundFacts'
<1>0. TreeInv /\ UNCHANGED treeVars /\ [Next]_vars
  BY StepsKeepTree DEF AtRest, Next
<1>1. /\ UNCHANGED argVars /\ UNCHANGED paths /\ STOPATFIRST' = STOPATFIRST
      /\ \A t : Done(t) => Done(t)'
      /\ \A t, s : Has(t, s) => Has(t, s)'
      /\ Stopped => Stopped'
  BY <1>0, FoundStays
<1>2. paths \in Seq(Seq(Char)) /\ rest \in Seq(Seq(Char)) /\ Len(paths) \in Nat /\ Len(rest) \in Nat /\ DOMAIN paths = 1 .. Len(paths)
      /\ Tops \in Int /\ Tops = Len(paths) - Len(rest)
  BY DEF DataInv, ArgsOK, TextOK, Tops
<1>3. UNCHANGED rest => Tops' = Tops
  BY <1>1 DEF Tops
<1>4. CASE NextPath
  <2>1. pc = "nextpath" /\ rest # <<>> /\ rest' = Tail(rest) /\ pc' \in {"open", "kern_path"} /\ stack' = stack
    BY <1>4 DEF NextPath
  <2>2. stack = <<>>
    BY <2>1 DEF StackInv, Framed, TopPcs, LoopPcs
  <2>3. Tops' = Tops + 1
    BY <1>1, <1>2, <2>1, HeadTailProperties DEF Tops
  <2>4. \A t \in DOMAIN paths : t < Tops + 1 => Done(t)
    <3> SUFFICES ASSUME NEW t \in DOMAIN paths, t < Tops + 1 PROVE Done(t) OBVIOUS
    <3>0. t \in 1 .. Len(paths) /\ t \in Int /\ Tops \in Int
      BY <1>2
    <3>1. t < Tops \/ t = Tops
      BY <3>0
    <3> QED BY <2>1, <3>1 DEF FoundFacts, EarlierDone, ThisDone
  <2>5. EarlierDone'
    BY <1>1, <2>3, <2>4 DEF EarlierDone
  <2>6. Passed' /\ ThisDone' /\ EndDone'
    BY <2>1, <2>2 DEF Passed, ThisDone, EndDone, AtEnd, AtTop, WalkPcs, FramePcs
  <2> QED BY <2>5, <2>6 DEF FoundFacts
<1>5. ASSUME pc \in InTopPcs \cup {"nextpath"}, UNCHANGED rest PROVE EarlierDone'
  BY <1>1, <1>3, <1>5 DEF FoundFacts, EarlierDone
<1>6. ASSUME pc \in InTopPcs, UNCHANGED rest, pc' = "nextpath", \A t \in DOMAIN paths : t = Tops => Done(t)'
      PROVE  FoundFacts'
  <2>1. EarlierDone' /\ ThisDone'
    BY <1>1, <1>3, <1>5, <1>6 DEF ThisDone
  <2>2. Passed' /\ EndDone'
    BY <1>6 DEF Passed, EndDone, AtEnd, WalkPcs, FramePcs
  <2> QED BY <2>1, <2>2 DEF FoundFacts
<1>7. ASSUME pc \in InTopPcs, UNCHANGED rest, pc' = "finish", Stopped'
      PROVE  FoundFacts'
  <2>1. EarlierDone'
    BY <1>5, <1>7
  <2>2. Passed' /\ ThisDone' /\ EndDone'
    BY <1>7 DEF Passed, ThisDone, EndDone, WalkPcs, FramePcs
  <2> QED BY <2>1, <2>2 DEF FoundFacts
<1>8. ASSUME pc' \in Pcs \ (InTopPcs \cup {"nextpath"}), ~ AtEnd'
      PROVE  FoundFacts'
  BY <1>8 DEF FoundFacts, EarlierDone, ThisDone, Passed, EndDone, WalkPcs, InTopPcs
<1>9. CASE KernPath
  <2>1. pc = "kern_path" /\ pc \in InTopPcs /\ UNCHANGED rest /\ path = paths[Tops]
    BY <1>9 DEF KernPath, InTopPcs, RestInv
  <2>2. CASE Lookup(Root, path) = -ENOENT /\ pc' = "nextpath"
    <3>1. \A t \in DOMAIN paths : t = Tops => Done(t)
      <4> SUFFICES ASSUME NEW t \in DOMAIN paths, t = Tops PROVE Done(t) OBVIOUS
      <4>1. TopDir(t) = -ENOENT
        BY <2>1, <2>2 DEF TopDir
      <4> QED BY <1>0, <4>1, NoTopNothing DEF Done
    <3> QED BY <1>1, <1>6, <2>1, <2>2, <3>1
  <2>3. CASE pc' = "psearch"
    <3>1. EarlierDone'
      BY <1>5, <2>1
    <3>2. Passed' /\ ThisDone' /\ EndDone'
      BY <2>3 DEF Passed, ThisDone, EndDone, AtEnd, WalkPcs, FramePcs
    <3> QED BY <3>1, <3>2 DEF FoundFacts
  <2>4. CASE pc' = "unwind" /\ label' = "exit"
    BY <1>8, <2>4 DEF AtEnd, Pcs, InTopPcs, FramePcs
  <2> QED BY <1>9, <2>2, <2>3, <2>4 DEF KernPath, Exit
<1>10. CASE Psearch
  <2>1. pc = "psearch" /\ pc \in InTopPcs /\ UNCHANGED <<rest, path>> /\ ~ ispattern /\ psearch = TopDir(Tops) /\ shift = LeadingSlashes
        /\ path = paths[Tops] \o Slash \o Literal
    BY <1>10 DEF Psearch, InTopPcs, RestInv, PsearchInv, ShiftInv
  <2>2. \A t \in DOMAIN paths : \A s \in ToFind(t) : Lookup(TopDir(t), Literal) # -ENOENT /\ Shown(t, s) = paths[t] \o Slash \o Literal
    BY <2>1, LiteralIs
  <2>3. CASE Lookup(psearch, Literal) = -ENOENT /\ pc' = "nextpath"
    <3>1. \A t \in DOMAIN paths : t = Tops => Done(t)
      BY <2>1, <2>2, <2>3 DEF Done
    <3> QED BY <1>1, <1>6, <2>1, <2>3, <3>1
  <2>4. CASE pc' = "unwind" /\ label' = "exit"
    BY <1>8, <2>4 DEF AtEnd, Pcs, InTopPcs, FramePcs
  <2>5. CASE Copy(PsearchText) /\ pc' = IF STOPATFIRST THEN "finish" ELSE "nextpath"
    <3> DEFINE r == [top |-> Tops, path |-> path]
    <3>1. reported' = Append(reported, r) /\ r \in Records /\ reported \in Seq(Records)
      BY <2>1, <2>5 DEF Copy, DataInv, TextOK, Records, RestInv, RecordsInv
    <3>2. /\ Len(reported') = Len(reported) + 1 /\ Len(reported) \in Nat /\ reported'[Len(reported) + 1] = r
          /\ reported' # <<>>
      <4> HIDE DEF r
      <4> QED BY <3>1, AddedIs, AppendProperties
    <3>3. Len(reported) + 1 \in 1 .. Len(reported')
      BY <3>2
    <3>4. \A t, u : t = Tops /\ u = path => Has(t, u)'
      BY <3>2, <3>3 DEF Has
    <3>5. ASSUME NEW t \in DOMAIN paths, t = Tops PROVE Done(t)'
      <4>1. ToFind(t)' = ToFind(t) /\ \A s : Shown(t, s)' = Shown(t, s)
        BY <1>0, <1>1, ToFindStays
      <4> SUFFICES ASSUME NEW s \in ToFind(t)' PROVE Has(t, Shown(t, s))'
        BY DEF Done
      <4>2. Shown(t, s)' = path
        BY <2>1, <2>2, <3>5, <4>1
      <4> QED BY <3>2, <3>3, <3>5, <4>2 DEF Has
    <3>6. CASE STOPATFIRST
      BY <1>1, <1>7, <2>1, <2>5, <3>2, <3>6 DEF Stopped
    <3>7. CASE ~ STOPATFIRST
      BY <1>6, <2>1, <2>5, <3>5, <3>7
    <3> QED BY <3>6, <3>7
  <2> QED BY <1>10, <2>3, <2>4, <2>5 DEF Psearch, Exit
<1>11. CASE BackInSearch
  <2>1. pc = "back" /\ pc \in InTopPcs /\ UNCHANGED <<rest, reported>> /\ stack = <<>>
    BY <1>11 DEF BackInSearch, InTopPcs
  <2>2. CASE status # 0
    <3>1. pc' = "unwind" /\ label' = "exit"
      BY <1>11, <2>2 DEF BackInSearch, Exit
    <3> QED BY <1>8, <3>1 DEF AtEnd, Pcs, InTopPcs, FramePcs
  <2>3. CASE status = 0 /\ FoundEnough
    <3>1. pc' = "finish" /\ Stopped
      BY <1>11, <2>3 DEF BackInSearch, FoundEnough, CountInv, Stopped
    <3> QED BY <1>1, <1>7, <2>1, <3>1
  <2>4. CASE status = 0 /\ ~ FoundEnough
    <3>1. pc' = "nextpath" /\ ~ Stopped
      BY <1>11, <2>4 DEF BackInSearch, FoundEnough, OneInv, Stopped
    <3>2. \A t \in DOMAIN paths : t = Tops => Done(t)
      BY <1>0, <2>1, <2>4, <3>1, TopIsDone
    <3> QED BY <1>1, <1>6, <2>1, <3>1, <3>2
  <2> QED BY <2>2, <2>3, <2>4
<1>12. CASE Finish
  <2>1. /\ pc = "finish" \/ (pc = "nextpath" /\ rest = <<>>)
        /\ UNCHANGED rest /\ pc' = "unwind" /\ label' \in {"success", "exit"}
    BY <1>12 DEF Finish, Exit
  <2>2. CASE label' = "exit"
    BY <1>8, <2>1, <2>2 DEF AtEnd, Pcs, InTopPcs, FramePcs
  <2>3. CASE label' = "success"
    <3>1. \A t \in DOMAIN paths : t < Tops => Done(t)
      BY <2>1 DEF FoundFacts, EarlierDone, AtEnd
    <3>2. EarlierDone'
      BY <1>1, <1>3, <2>1, <3>1 DEF EarlierDone
    <3>3. EndDone'
      <4>1. CASE pc = "finish"
        BY <1>1, <4>1 DEF FoundFacts, EndDone, AtEnd
      <4>2. CASE pc = "nextpath" /\ rest = <<>>
        <5>1. \A t \in DOMAIN paths : t < Tops \/ t = Tops
          <6>1. Tops = Len(paths) BY <1>2, <4>2
          <6> QED BY <1>2, <6>1
        <5>2. \A t \in DOMAIN paths : Done(t)
          BY <3>1, <4>2, <5>1 DEF FoundFacts, ThisDone
        <5> QED BY <1>1, <5>2 DEF EndDone
      <4> QED BY <2>1, <4>1, <4>2
    <3>4. Passed' /\ ThisDone'
      BY <2>1 DEF Passed, ThisDone, WalkPcs, FramePcs
    <3> QED BY <3>2, <3>3, <3>4 DEF FoundFacts
  <2> QED BY <2>1, <2>2, <2>3
<1>13. CASE Unwind
  <2>1. pc = "unwind" /\ pc' = "returned" /\ UNCHANGED <<rest, label>>
    BY <1>13 DEF Unwind, sysVars
  <2>2. AtEnd' => AtEnd
    BY <2>1 DEF AtEnd
  <2>3. EarlierDone'
    BY <1>1, <1>3, <2>1, <2>2 DEF FoundFacts, EarlierDone, InTopPcs, FramePcs
  <2>4. EndDone'
    BY <1>1, <2>2 DEF FoundFacts, EndDone
  <2>5. Passed' /\ ThisDone'
    BY <2>1 DEF Passed, ThisDone, WalkPcs, FramePcs
  <2> QED BY <2>3, <2>4, <2>5 DEF FoundFacts
<1>14. CASE Split
  <2>1. pc' = "nextpath" /\ rest' = paths
    BY <1>14 DEF Split
  <2>2. Tops' = 0
    BY <1>1, <1>2, <2>1 DEF Tops
  <2>3. \A t \in DOMAIN paths : ~ (t < 0) /\ t # 0
    BY <1>2
  <2>4. EarlierDone' /\ ThisDone'
    BY <1>1, <2>2, <2>3 DEF EarlierDone, ThisDone
  <2>5. Passed' /\ EndDone'
    BY <2>1 DEF Passed, EndDone, AtEnd, WalkPcs, FramePcs
  <2> QED BY <2>4, <2>5 DEF FoundFacts
<1>15. CASE AllocDs \/ GetPaths \/ GetPattern \/ AllocDirs \/ StripSlashes
  <2>1. \/ pc' \in {"getpaths", "getpattern", "setup", "split"}
        \/ pc' = "unwind" /\ label' \in {"exit0", "exit1", "exit2", "exit3"}
    BY <1>15 DEF AllocDs, GetPaths, GetPattern, AllocDirs, StripSlashes, Acquire, Exit
  <2> QED BY <1>8, <2>1 DEF AtEnd, Pcs, InTopPcs, FramePcs
<1> QED BY <1>4, <1>9, <1>10, <1>11, <1>12, <1>13, <1>14, <1>15 DEF SysStep

LEMMA FoundStep ==
  ASSUME ~ CanFail, NativeDirs = {},
         TreeInv, ApartInv, StackInv, DataInv, PathInv, RestInv, WalkInv, RecordsInv, CountInv, OneInv, ShiftInv, PsearchInv, DrainInv,
         FoundInv, [Next]_vars
  PROVE  FoundInv'
<1> SUFFICES ASSUME changes' = 0, OneAlternative' PROVE FoundFacts'
  BY DEF FoundInv
<1>0. UNCHANGED argVars
  BY ArgsStay DEF DataInv
<1>1. ~ Others /\ UNCHANGED treeVars /\ changes = 0
  <2>1. Others => changes' # 0
    BY DEF Others, Change, TreeInv
  <2>2. UNCHANGED treeVars
    BY <2>1, StepsKeepTree DEF Next, vars
  <2> QED BY <2>1, <2>2 DEF treeVars
<1>2. OneAlternative
  BY <1>0 DEF argVars, OneAlternative
<1>3. AtRest /\ PathFacts /\ WalkFacts /\ Drained /\ FoundFacts
  BY <1>1, <1>2, RestsUntilChanged DEF PathInv, WalkInv, DrainInv, FoundInv
<1>4. CASE DirectoryStep
  BY <1>2, <1>3, <1>4, FoundInDirectory
<1>5. CASE SysStep
  BY <1>1, <1>2, <1>3, <1>5, FoundInSearch
<1>6. CASE UNCHANGED vars
  <2>1. Still /\ UNCHANGED <<pc, status, label, stack, rest, paths, flags, parent, name, gone, reported>>
    BY <1>6 DEF Still, vars, sysVars, treeVars, argVars
  <2>2. Tops' = Tops
    BY <2>1, StillStays
  <2>3. \A d, x : IsAhead(d, x)' <=> IsAhead(d, x)
    BY <2>1, AheadThen DEF IsAhead
  <2>4. /\ \A t, d, x : IsWanted(t, d, x)' <=> IsWanted(t, d, x)
        /\ \A d, x : Join(AbsPath(d), EntryName(x))' = Join(AbsPath(d), EntryName(x))
        /\ \A d : Ids(d)' = Ids(d)
    BY <1>0, <1>1, ToFindStays
  <2>5. (\A t : Done(t) => Done(t)') /\ (\A t, s : Has(t, s)' <=> Has(t, s)) /\ (Stopped' <=> Stopped) /\ (AtEnd' <=> AtEnd) /\ (AtTop' <=> AtTop)
    BY <1>0, <1>1, <2>1, FoundStays DEF Has, Stopped, STOPATFIRST, AtEnd, AtTop
  <2>6. EarlierDone' /\ ThisDone' /\ EndDone'
    BY <1>3, <2>1, <2>2, <2>5 DEF FoundFacts, EarlierDone, ThisDone, EndDone
  <2>7. Passed'
    BY <1>3, <2>1, <2>2, <2>3, <2>4, <2>5 DEF FoundFacts, Passed
  <2> QED BY <2>6, <2>7 DEF FoundFacts
<1> QED BY <1>1, <1>4, <1>5, <1>6 DEF Next

LEMMA FoundAlways ==
  ASSUME ~ CanFail, NativeDirs = {}
  PROVE  Spec => []FoundInv
<1>1. Init => FoundInv
  BY DEF Init, FoundInv, FoundFacts, EarlierDone, ThisDone, Passed, EndDone, AtEnd, WalkPcs, InTopPcs, FramePcs
<1>2. TreeInv /\ ApartInv /\ StackInv /\ DataInv /\ PathInv /\ RestInv /\ WalkInv /\ RecordsInv /\ CountInv /\ OneInv /\ ShiftInv
      /\ PsearchInv /\ DrainInv /\ FoundInv /\ [Next]_vars => FoundInv'
  BY FoundStep
<1> QED
  BY <1>1, <1>2, TreeAlways, ApartAlways, StackAlways, DataAlways, PathAlways, RestAlways, WalkAlways, RecordsAlways, CountAlways,
     OneAlways, ShiftAlways, PsearchAlways, DrainAlways, PTL DEF Spec

\* Where nothing fails and no file system searches on its own, a search that
\* succeeds in a tree at rest has reported every file its pattern matches below
\* every top, once: no batch of sys_search's vfs_readdir, no descent and no
\* return loses an entry or comes to it again.
THEOREM AllFoundOnce ==
  ASSUME ~ CanFail, NativeDirs = {}
  PROVE  Spec => []FindsAllOnce
<1>1. DataInv /\ RecordsInv /\ OnceInv /\ FoundInv => FindsAllOnce
  <2> SUFFICES ASSUME DataInv, RecordsInv, OnceInv, FoundInv, Succeeded, OneAlternative, ~ STOPATFIRST,
                      NEW t \in DOMAIN paths, NEW s \in ToFind(t)
               PROVE  Cardinality({k \in DOMAIN reported : reported[k] = [top |-> t, path |-> Shown(t, s)]}) = 1
    BY DEF FindsAllOnce
  <2> DEFINE r == [top |-> t, path |-> Shown(t, s)]
  <2>1. Has(t, Shown(t, s))
    BY DEF Succeeded, FoundInv, FoundFacts, EndDone, AtEnd, Stopped, Done
  <2>2. PICK k \in 1 .. Len(reported) : reported[k] = r
    BY <2>1 DEF Has
  <2>3. Apart /\ DOMAIN reported = 1 .. Len(reported)
    BY DEF Succeeded, OnceInv, RecordsInv
  <2> HIDE DEF r
  <2>4. {i \in DOMAIN reported : reported[i] = r} = {k}
    BY <2>2, <2>3 DEF Apart
  <2>5. Cardinality({k}) = 1
    BY FS_Singleton
  <2> QED BY <2>4, <2>5 DEF r
<1> QED BY <1>1, DataAlways, RecordsAlways, OnceAlways, FoundAlways, PTL

\* Under the same assumptions SEARCH_STOPATFIRST reports one file if there is
\* one, and none of an earlier top has been passed over.
THEOREM StopsAtFirstFound ==
  ASSUME ~ CanFail, NativeDirs = {}
  PROVE  Spec => []StopsAtFirst
<1>1. DataInv /\ RestInv /\ RecordsInv /\ OneInv /\ FoundInv => StopsAtFirst
  <2> SUFFICES ASSUME DataInv, RestInv, RecordsInv, OneInv, FoundInv, Succeeded, OneAlternative, STOPATFIRST,
                      NEW t \in DOMAIN paths, ToFind(t) # {}
               PROVE  Len(reported) = 1 /\ reported[1].top <= t
    BY DEF StopsAtFirst
  <2>1. AtEnd /\ FoundFacts
    BY DEF Succeeded, FoundInv, AtEnd
  <2>2. ASSUME Done(t)
        PROVE  reported # <<>> /\ \E k \in 1 .. Len(reported) : reported[k].top = t
    <3>1. PICK s \in ToFind(t) : TRUE OBVIOUS
    <3>2. PICK k \in 1 .. Len(reported) : reported[k] = [top |-> t, path |-> Shown(t, s)]
      BY <2>2, <3>1 DEF Done, Has
    <3>3. Len(reported) # 0
      BY <3>2 DEF RecordsInv
    <3> QED BY <3>2, <3>3
  <2>3. Stopped
    BY <2>1, <2>2 DEF FoundFacts, EndDone, Stopped
  <2>4. Len(reported) = 1 /\ reported[1].top = Tops
    BY <2>3 DEF Stopped, OneInv, RecordsInv
  <2>5. t \in Int /\ Tops \in Int
    BY DEF DataInv, ArgsOK, TextOK, Tops
  <2>6. CASE t < Tops
    <3>1. PICK k \in 1 .. Len(reported) : reported[k].top = t
      BY <2>1, <2>2, <2>6 DEF FoundFacts, EarlierDone
    <3>2. k = 1
      BY <2>4, <3>1
    <3> QED BY <2>4, <2>5, <3>1, <3>2
  <2>7. CASE ~ (t < Tops)
    BY <2>4, <2>5, <2>7
  <2> QED BY <2>6, <2>7
<1> QED BY <1>1, DataAlways, RestAlways, RecordsAlways, OneAlways, FoundAlways, PTL

=============================================================================
