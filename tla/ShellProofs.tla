---------------------------- MODULE ShellProofs -----------------------------
(***************************************************************************)
(* Proofs about what is behind a command of the shell: the file system     *)
(* caches that its commands walk, and the keyboard ring and line editor    *)
(* that it reads a command with.                                           *)
(*                                                                         *)
(* The caches, for files, handles and cache sizes without bound: no        *)
(* pointer leads to freed memory, however allocation, eviction, moves to   *)
(* the front of a list, listing and deletion follow each other, also in    *)
(* the middle of one path; an intact cache keeps to its capacity, no       *)
(* deleted file is left in it, and no directory with files is deleted.     *)
(*                                                                         *)
(* The console, for a ring and a line of any length: pointers and line     *)
(* stay in their arrays, no keystroke is returned twice although the       *)
(* handler interrupts the reader between any two steps, and a line is      *)
(* split into exactly its words.                                           *)
(***************************************************************************)
EXTENDS Vfs, Console, FiniteSetTheorems, SequenceTheorems, WellFoundedInduction, TLAPS

-----------------------------------------------------------------------------
(* Lists.                                                                  *)

\* A set of numbers has a least element.
LEMMA Least ==
  ASSUME NEW I, I \subseteq Nat, I # {}
  PROVE  \E m \in I : \A k \in I : m <= k
<1>1. IsWellFoundedOn(OpToRel(<, Nat), Nat)
  BY NatLessThanWellFounded
<1>2. PICK m \in I : \A k \in I : ~(<<k, m>> \in OpToRel(<, Nat))
  BY <1>1, WFMin
<1>3. \A k \in I : ~(k < m)
  BY <1>2 DEF OpToRel
<1> QED
  BY <1>3

\* One item more of the list s without S than f has.
Keep(f, k, s, S) ==
  IF k = 0 THEN << >>
  ELSE IF s[k] \in S THEN f[k - 1] ELSE Append(f[k - 1], s[k])

IsKept(f, n, s, S) == f = [k \in 0 .. n |-> Keep(f, k, s, S)]

LEMMA KeepExists ==
  ASSUME NEW n \in Nat, NEW s, NEW S
  PROVE  \E f : IsKept(f, n, s, S)
<1> USE DEF IsKept
<1> DEFINE Absent == {i \in Nat : ~ \E f : f = [k \in 0 .. i |-> Keep(f, k, s, S)]}
<1> SUFFICES ASSUME Absent # {} PROVE FALSE
  OBVIOUS
<1>1. PICK i \in Absent : \A j \in Absent : i <= j
  BY Least
<1>2. i \in Nat /\ ~ \E f : f = [k \in 0 .. i |-> Keep(f, k, s, S)]
  OBVIOUS
<1>3. CASE i = 0
  <2> DEFINE h == [k \in 0 .. 0 |-> << >>]
  <2>1. h = [k \in 0 .. 0 |-> Keep(h, k, s, S)]
    BY DEF Keep
  <2> HIDE DEF h
  <2> QED
    BY <2>1, <1>2, <1>3
<1>4. CASE i # 0
  <2>1. i - 1 \in Nat /\ ~(i <= i - 1)
    BY <1>2, <1>4
  <2>2. PICK f : f = [k \in 0 .. (i - 1) |-> Keep(f, k, s, S)]
    BY <2>1, <1>1
  <2> DEFINE h == [k \in 0 .. i |-> IF k = i THEN Keep(f, i, s, S) ELSE f[k]]
  <2>4. ASSUME NEW k \in 0 .. i PROVE h[k] = Keep(h, k, s, S)
    <3>1. k = 0 \/ (k - 1 \in 0 .. (i - 1) /\ h[k - 1] = f[k - 1])
      BY <1>2, <1>4
    <3>2. Keep(h, k, s, S) = Keep(f, k, s, S)
      BY <3>1 DEF Keep
    <3>3. k # i => f[k] = Keep(f, k, s, S)
      <4>1. SUFFICES ASSUME k # i PROVE f[k] = Keep(f, k, s, S)
        OBVIOUS
      <4>2. k \in 0 .. (i - 1)
        BY <4>1, <1>2
      <4> QED
        BY <4>2, <2>2
    <3> QED
      BY <3>2, <3>3
  <2>5. h = [k \in 0 .. i |-> Keep(h, k, s, S)]
    BY <2>4
  <2> HIDE DEF h
  <2> QED
    BY <2>5, <1>2
<1> QED
  BY <1>3, <1>4

\* What Without computes, as the value of a function of how far it got.
LEMMA WithoutIs ==
  ASSUME NEW X, NEW s \in Seq(X), NEW S
  PROVE  \E f : IsKept(f, Len(s), s, S) /\ Without(s, S) = f[Len(s)]
<1>1. Len(s) \in Nat
  OBVIOUS
<1>2. \E f : IsKept(f, Len(s), s, S)
  BY <1>1, KeepExists
<1>3. Without(s, S) = (CHOOSE f : IsKept(f, Len(s), s, S))[Len(s)]
  BY DEF Without, Keep, IsKept
<1>4. IsKept(CHOOSE f : IsKept(f, Len(s), s, S), Len(s), s, S)
  BY <1>2
<1> QED
  BY <1>3, <1>4

\* The list g has the first k items of s that are not in S.
KeptOf(g, k, s, S, X) ==
  /\ g \in Seq(X)
  /\ \A x : x \in Range(g) <=> x \notin S /\ \E i \in 1 .. k : x = s[i]
  /\ IsInjective(s) => IsInjective(g)

\* An item more, at the end.
LEMMA Appended ==
  ASSUME NEW X, NEW g \in Seq(X), NEW x \in X
  PROVE  /\ Append(g, x) \in Seq(X)
         /\ \A y : y \in Range(Append(g, x)) <=> y \in Range(g) \/ y = x
         /\ IsInjective(g) /\ x \notin Range(g) => IsInjective(Append(g, x))
<1> DEFINE h == Append(g, x)
<1>1. /\ h \in Seq(X) /\ Len(h) = Len(g) + 1 /\ DOMAIN h = 1 .. Len(h)
      /\ \A i \in 1 .. Len(g) : h[i] = g[i]
      /\ h[Len(g) + 1] = x
      /\ DOMAIN g = 1 .. Len(g) /\ Len(g) \in Nat
  OBVIOUS
<1> HIDE DEF h
<1>2. \A i \in DOMAIN h : i = Len(g) + 1 \/ i \in DOMAIN g
  BY <1>1
<1>3. DOMAIN g \subseteq DOMAIN h /\ Len(g) + 1 \in DOMAIN h
  BY <1>1
<1>4. \A y : y \in Range(h) <=> y \in Range(g) \/ y = x
  BY <1>1, <1>2, <1>3 DEF Range
<1>5. ASSUME IsInjective(g), x \notin Range(g) PROVE IsInjective(h)
  <2>1. \A i \in DOMAIN g : h[i] = g[i] /\ g[i] # x
    BY <1>5, <1>1 DEF Range
  <2>2. ASSUME NEW a \in DOMAIN h, NEW b \in DOMAIN h, h[a] = h[b] PROVE a = b
    <3>1. CASE a \in DOMAIN g /\ b \in DOMAIN g
      BY <3>1, <2>1, <2>2, <1>5 DEF IsInjective
    <3>2. CASE ~(a \in DOMAIN g /\ b \in DOMAIN g)
      BY <3>2, <2>1, <2>2, <1>1, <1>2
    <3> QED
      BY <3>1, <3>2
  <2> QED
    BY <2>2 DEF IsInjective
<1> QED
  BY <1>1, <1>4, <1>5 DEF h

LEMMA KeptStep ==
  ASSUME NEW X, NEW s \in Seq(X), NEW S, NEW k \in 1 .. Len(s), NEW g,
         KeptOf(g, k - 1, s, S, X)
  PROVE  KeptOf(IF s[k] \in S THEN g ELSE Append(g, s[k]), k, s, S, X)
<1>1. /\ Len(s) \in Nat /\ DOMAIN s = 1 .. Len(s) /\ s[k] \in X
      /\ \A i : i \in 1 .. k <=> i \in 1 .. (k - 1) \/ i = k
      /\ k \notin 1 .. (k - 1)
  OBVIOUS
<1>2. CASE s[k] \in S
  BY <1>1, <1>2 DEF KeptOf
<1>3. CASE s[k] \notin S
  <2>1. /\ g \in Seq(X)
        /\ \A x : x \in Range(g) <=> x \notin S /\ \E i \in 1 .. (k - 1) : x = s[i]
        /\ IsInjective(s) => IsInjective(g)
    BY DEF KeptOf
  <2>2. IsInjective(s) => s[k] \notin Range(g)
    <3>1. IsInjective(s) => \A i \in 1 .. (k - 1) : s[i] # s[k]
      BY <1>1 DEF IsInjective
    <3> QED
      BY <3>1, <2>1
  <2>3. /\ Append(g, s[k]) \in Seq(X)
        /\ \A y : y \in Range(Append(g, s[k])) <=> y \in Range(g) \/ y = s[k]
        /\ IsInjective(g) /\ s[k] \notin Range(g) => IsInjective(Append(g, s[k]))
    BY <1>1, <2>1, Appended
  <2>4. \A x : x \in Range(Append(g, s[k]))
                 <=> x \notin S /\ \E i \in 1 .. k : x = s[i]
    BY <2>1, <2>3, <1>1, <1>3
  <2> QED
    BY <1>3, <2>1, <2>2, <2>3, <2>4 DEF KeptOf
<1> QED
  BY <1>2, <1>3

LEMMA WithoutItems ==
  ASSUME NEW X, NEW s \in Seq(X), NEW S
  PROVE  /\ Without(s, S) \in Seq(X)
         /\ Range(Without(s, S)) = Range(s) \ S
         /\ IsInjective(s) => IsInjective(Without(s, S))
<1>1. PICK f : /\ f = [k \in 0 .. Len(s) |-> Keep(f, k, s, S)]
               /\ Without(s, S) = f[Len(s)]
  BY WithoutIs DEF IsKept
<1>2. Len(s) \in Nat /\ DOMAIN s = 1 .. Len(s) /\ \A i \in 1 .. Len(s) : s[i] \in X
  OBVIOUS
<1> DEFINE Bad == {k \in 0 .. Len(s) : ~KeptOf(f[k], k, s, S, X)}
<1>3. Bad = {}
  <2> SUFFICES ASSUME Bad # {} PROVE FALSE
    OBVIOUS
  <2>1. Bad \subseteq Nat
    BY <1>2
  <2> HIDE DEF Bad
  <2>2. PICK m \in Bad : \A k \in Bad : m <= k
    BY <2>1, Least
  <2>3. m \in 0 .. Len(s) /\ ~KeptOf(f[m], m, s, S, X) /\ f[m] = Keep(f, m, s, S)
    BY <2>2, <1>1 DEF Bad
  <2>4. CASE m = 0
    <3>1. f[m] = << >>
      BY <2>3, <2>4 DEF Keep
    <3>2. KeptOf(<< >>, 0, s, S, X)
      BY DEF KeptOf, Range, IsInjective
    <3> QED
      BY <3>1, <3>2, <2>3, <2>4
  <2>5. CASE m # 0
    <3>1. m \in 1 .. Len(s) /\ m - 1 \in 0 .. Len(s) /\ ~(m <= m - 1)
      BY <2>3, <2>5, <1>2
    <3>2. KeptOf(f[m - 1], m - 1, s, S, X)
      BY <3>1, <2>2 DEF Bad
    <3>3. f[m] = IF s[m] \in S THEN f[m - 1] ELSE Append(f[m - 1], s[m])
      BY <2>3, <2>5 DEF Keep
    <3> QED
      BY <3>1, <3>2, <3>3, <2>3, KeptStep
  <2> QED
    BY <2>4, <2>5
<1>4. KeptOf(f[Len(s)], Len(s), s, S, X)
  BY <1>2, <1>3
<1>5. \A x : x \in Range(f[Len(s)]) <=> x \in Range(s) \ S
  BY <1>4, <1>2 DEF Range, KeptOf
<1> QED
  BY <1>1, <1>4, <1>5 DEF KeptOf

\* A list without repetitions is as long as the set of its items.
LEMMA LengthIsSize ==
  ASSUME NEW X, NEW s \in Seq(X), IsInjective(s)
  PROVE  IsFiniteSet(Range(s)) /\ Cardinality(Range(s)) = Len(s)
<1>1. Len(s) \in Nat /\ DOMAIN s = 1 .. Len(s)
  OBVIOUS
<1>2. s \in Bijection(1 .. Len(s), Range(s))
  <2>1. s \in [1 .. Len(s) -> Range(s)]
    BY <1>1 DEF Range
  <2>2. \A a, b \in 1 .. Len(s) : s[a] = s[b] => a = b
    BY <1>1 DEF IsInjective
  <2>3. \A t \in Range(s) : \E i \in 1 .. Len(s) : s[i] = t
    BY <1>1 DEF Range
  <2> QED
    BY <2>1, <2>2, <2>3 DEF Bijection, Injection, Surjection
<1>3. ExistsBijection(1 .. Len(s), Range(s))
  BY <1>2 DEF ExistsBijection
<1> QED
  BY <1>1, <1>3, FS_CountingElements, FS_NatBijection

\* An item more, in front.
LEMMA InFront ==
  ASSUME NEW X, NEW t \in Seq(X), NEW x \in X
  PROVE  /\ <<x>> \o t \in Seq(X) /\ Len(<<x>> \o t) = Len(t) + 1 /\ Len(t) \in Nat
         /\ Range(<<x>> \o t) = Range(t) \cup {x}
         /\ IsInjective(t) /\ x \notin Range(t) => IsInjective(<<x>> \o t)
<1> DEFINE m == <<x>> \o t
<1>3. /\ m \in Seq(X) /\ Len(m) = Len(t) + 1 /\ m[1] = x
      /\ \A i \in 1 .. Len(t) : m[i + 1] = t[i]
      /\ DOMAIN m = 1 .. Len(m) /\ DOMAIN t = 1 .. Len(t) /\ Len(t) \in Nat
  OBVIOUS
<1>4. \A i \in DOMAIN m : i = 1 \/ (i - 1 \in DOMAIN t /\ m[i] = t[i - 1])
  BY <1>3
<1> HIDE DEF m
<1>5. \A y : y \in Range(m) <=> y = x \/ y \in Range(t)
  BY <1>3, <1>4 DEF Range
<1>6. ASSUME IsInjective(t), x \notin Range(t) PROVE IsInjective(m)
  <2>2. \A j \in DOMAIN t : t[j] # x
    BY <1>6 DEF Range
  <2> QED
    BY <1>6, <2>2, <1>3, <1>4 DEF IsInjective
<1> QED
  BY <1>3, <1>5, <1>6 DEF m

\* list_move puts x in front, and nothing else changes.
LEMMA Moved ==
  ASSUME NEW X, NEW s \in Seq(X), NEW x \in X
  PROVE  /\ list_move(s, x) \in Seq(X)
         /\ Range(list_move(s, x)) = Range(s) \cup {x}
         /\ IsInjective(s) => IsInjective(list_move(s, x))
<1> DEFINE t == Without(s, {x})
<1>1. t \in Seq(X) /\ Range(t) = Range(s) \ {x} /\ (IsInjective(s) => IsInjective(t))
  BY WithoutItems
<1>2. list_move(s, x) = <<x>> \o t
  BY DEF list_move
<1> HIDE DEF t
<1>3. x \notin Range(t) /\ Range(t) \cup {x} = Range(s) \cup {x}
  BY <1>1
<1> QED
  BY <1>1, <1>2, <1>3, InFront

LEMMA WithoutLength ==
  ASSUME NEW X, NEW s \in Seq(X), NEW S, IsInjective(s)
  PROVE  /\ Len(Without(s, S)) \in Nat /\ Len(s) \in Nat
         /\ Len(Without(s, S)) <= Len(s)
         /\ S \subseteq Range(s) =>
              IsFiniteSet(S) /\ Len(Without(s, S)) = Len(s) - Cardinality(S)
<1> DEFINE t == Without(s, S)
<1>1. t \in Seq(X) /\ Range(t) = Range(s) \ S /\ IsInjective(t)
  BY WithoutItems
<1> HIDE DEF t
<1>2. IsFiniteSet(Range(s)) /\ Cardinality(Range(s)) = Len(s)
  BY LengthIsSize
<1>3. IsFiniteSet(Range(t)) /\ Cardinality(Range(t)) = Len(t)
  BY <1>1, LengthIsSize
<1>4. Len(t) \in Nat /\ Len(s) \in Nat
  BY <1>1
<1>5. Cardinality(Range(t)) <= Cardinality(Range(s))
  BY <1>1, <1>2, FS_Subset
<1>6. ASSUME S \subseteq Range(s)
      PROVE  IsFiniteSet(S) /\ Len(t) = Len(s) - Cardinality(S)
  <2>1. IsFiniteSet(S) /\ Cardinality(S) \in Nat
    BY <1>2, <1>6, FS_Subset, FS_CardinalityType
  <2>2. Range(s) \cap S = S
    BY <1>6
  <2>3. Cardinality(Range(s) \ S) = Cardinality(Range(s)) - Cardinality(Range(s) \cap S)
    BY <1>2, FS_Difference
  <2> QED
    BY <2>1, <2>2, <2>3, <1>1, <1>2, <1>3
<1> QED
  BY <1>2, <1>3, <1>4, <1>5, <1>6 DEF t

LEMMA MovedLength ==
  ASSUME NEW X, NEW s \in Seq(X), NEW x \in X, IsInjective(s), x \in Range(s)
  PROVE  Len(list_move(s, x)) = Len(s)
<1>1. /\ list_move(s, x) \in Seq(X) /\ IsInjective(list_move(s, x))
      /\ Range(list_move(s, x)) = Range(s) \cup {x}
  BY Moved
<1>2. Range(s) \cup {x} = Range(s)
  OBVIOUS
<1> QED
  BY <1>1, <1>2, LengthIsSize

-----------------------------------------------------------------------------
(* The invariant of the caches, as a call has them.                        *)

Dentry == [path : Paths, parent : Ids \cup {NULL}, home : Ids, count : Int,
           pinned : BOOLEAN]
Inode == [count : Int, pinned : BOOLEAN]

Errors == {"ok", "WILD", "FULL", "NO_MEMORY", "NOTFOUND", "NOT_DIR"}

CacheRec ==
  [dent : [Ids -> Dentry \cup {NULL}], lru : Seq(Ids), hash : SUBSET Ids, size : Int,
   node : [Paths -> Inode \cup {NULL}], ilru : Seq(Paths), isize : Int,
   cur : Ids, new : Ids, left : Int, err : Errors, refused : BOOLEAN,
   held : SUBSET Ids, ghosts : SUBSET Ids]

\* What dentry d says is so: its path is on the card and has an inode, and its
\* parent, if it knows one, is the dentry of the directory it is in.
Rooted(w, E, d) ==
  /\ w.dent[d].path \in E /\ w.node[w.dent[d].path] # NULL
  /\ d # Root => w.dent[d].path # << >>
  /\ w.dent[d].parent # NULL =>
       /\ w.dent[w.dent[d].parent] # NULL
       /\ d # Root => w.dent[w.dent[d].parent].path = Front(w.dent[d].path)

Tree(w, E) ==
  /\ \A d \in Live(w) : Rooted(w, E, d)
  /\ \A p \in Paths : w.node[p] # NULL => p \in E

\* The root is never freed: it is pinned, and so is its inode.
Top(w) ==
  /\ w.dent[Root] # NULL /\ w.dent[Root].path = << >> /\ w.dent[Root].pinned
  /\ w.node[<< >>] # NULL /\ w.node[<< >>].pinned

Lists(w) ==
  /\ IsInjective(w.lru) /\ Range(w.lru) \subseteq Live(w) /\ w.hash \subseteq Live(w)
  /\ IsInjective(w.ilru) /\ Range(w.ilru) = {p \in Paths : w.node[p] # NULL}

\* Every dentry is in the list, but for those in D, until one is refused.
Sizes(w, D) ==
  /\ w.size <= DCap
  /\ ~w.refused => Live(w) \ D \subseteq Range(w.lru) /\ Len(w.lru) <= w.size
  /\ Len(w.ilru) <= w.isize /\ w.isize <= ICap

Sound(w, E, D) ==
  w \in CacheRec /\ Tree(w, E) /\ Top(w) /\ Lists(w) /\ Sizes(w, D)

\* What is in the caches does not depend on where the call stands.
LEMMA Elsewhere ==
  ASSUME NEW w, NEW E, NEW D, Sound(w, E, D), NEW v \in CacheRec,
         v.dent = w.dent, v.lru = w.lru, v.hash = w.hash, v.size = w.size,
         v.node = w.node, v.ilru = w.ilru, v.isize = w.isize, v.refused = w.refused
  PROVE  Sound(v, E, D)
BY DEF Sound, Tree, Top, Lists, Sizes, Live, Rooted

\* Nothing of a dentry changes but its count and whether it is pinned.
SameTree(w, v) ==
  \A e \in Ids :
    /\ v.dent[e] = NULL <=> w.dent[e] = NULL
    /\ w.dent[e] # NULL => /\ v.dent[e].path = w.dent[e].path
                           /\ v.dent[e].parent = w.dent[e].parent

\* Counting and pinning keep the invariant, with the moves in the lists they
\* bring.
LEMMA Retouched ==
  ASSUME NEW w, NEW E, Sound(w, E, {}), NEW v \in CacheRec, SameTree(w, v),
         v.dent[Root].pinned, v.node[<< >>].pinned,
         \A p \in Paths : v.node[p] = NULL <=> w.node[p] = NULL,
         v.hash = w.hash, v.size = w.size, v.isize = w.isize,
         v.refused = w.refused, v.ilru = w.ilru,
         \/ v.lru = w.lru
         \/ \E d \in Live(w) : v.lru = list_move(w.lru, d)
  PROVE  Sound(v, E, {})
<1>1. /\ w \in CacheRec /\ Tree(w, E) /\ Top(w) /\ Lists(w) /\ Sizes(w, {})
      /\ w.lru \in Seq(Ids) /\ Root \in Ids /\ << >> \in Paths
  BY VfsAssumption DEF Sound, CacheRec
<1>2. Live(v) = Live(w)
  BY DEF Live, SameTree
<1>3. \A d \in Live(w) : w.dent[d] # NULL /\ d \in Ids /\ w.dent[d].path \in Paths
                         /\ w.dent[d].parent \in Ids \cup {NULL}
  BY <1>1 DEF Live, CacheRec, Dentry
<1>4. Tree(v, E)
  <2>1. ASSUME NEW d \in Live(w) PROVE Rooted(v, E, d)
    <3>1. Rooted(w, E, d)
      BY <1>1 DEF Tree
    <3>2. v.dent[d].path = w.dent[d].path /\ v.dent[d].parent = w.dent[d].parent
      BY <1>3 DEF SameTree
    <3>3. w.dent[d].parent # NULL =>
            /\ v.dent[w.dent[d].parent] # NULL
            /\ v.dent[w.dent[d].parent].path = w.dent[w.dent[d].parent].path
      BY <3>1, <1>3 DEF SameTree, Rooted
    <3> QED
      BY <3>1, <3>2, <3>3, <1>3 DEF Rooted
  <2> QED
    BY <1>1, <1>2, <2>1 DEF Tree
<1>5. Top(v)
  BY <1>1 DEF Top, SameTree
<1>6. /\ IsInjective(v.lru)
      /\ Range(v.lru) \subseteq Live(w) /\ Range(w.lru) \subseteq Range(v.lru)
      /\ ~w.refused => Len(v.lru) = Len(w.lru)
  <2>1. CASE v.lru = w.lru
    BY <2>1, <1>1 DEF Lists
  <2>2. CASE \E d \in Live(w) : v.lru = list_move(w.lru, d)
    <3>1. PICK d \in Live(w) : v.lru = list_move(w.lru, d)
      BY <2>2
    <3>2. IsInjective(w.lru) /\ Range(w.lru) \subseteq Live(w) /\ d \in Ids
      BY <1>1, <1>3 DEF Lists
    <3>3. Range(v.lru) = Range(w.lru) \cup {d} /\ IsInjective(v.lru)
      BY <3>1, <3>2, <1>1, Moved
    <3>4. ~w.refused => d \in Range(w.lru)
      BY <1>1 DEF Sizes
    <3>5. ~w.refused => Len(v.lru) = Len(w.lru)
      BY <3>1, <3>2, <3>4, <1>1, MovedLength
    <3> QED
      BY <3>2, <3>3, <3>5
  <2> QED
    BY <2>1, <2>2
<1>7. Lists(v)
  BY <1>1, <1>2, <1>6 DEF Lists
<1>8. Sizes(v, {})
  BY <1>1, <1>2, <1>6 DEF Sizes
<1> QED
  BY <1>4, <1>5, <1>7, <1>8 DEF Sound

\* d_inc_count and d_dec_count.
LEMMA Counted ==
  ASSUME NEW w, NEW E, Sound(w, E, {}), NEW d \in Ids, w.dent[d] # NULL, NEW k \in Int,
         NEW v, v = d_count(w, d, k)
  PROVE  /\ Sound(v, E, {}) /\ SameTree(w, v) /\ v.node = w.node
         /\ v.cur = w.cur /\ v.new = w.new /\ v.left = w.left /\ v.err = w.err
         /\ v.held = w.held
<1>1. w \in CacheRec /\ Top(w) /\ w.lru \in Seq(Ids) /\ w.dent \in [Ids -> Dentry \cup {NULL}]
  BY DEF Sound, CacheRec
<1>2. w.dent[d] \in Dentry
  BY <1>1
<1> DEFINE e == [w.dent[d] EXCEPT !.count = @ + k]
<1>3. e \in Dentry /\ e.path = w.dent[d].path /\ e.parent = w.dent[d].parent
      /\ e.pinned = w.dent[d].pinned /\ e # NULL
  BY <1>2, NothingAssumption DEF Dentry
<1> HIDE DEF e
<1> DEFINE t == [w.dent EXCEPT ![d] = e]
<1>4. t \in [Ids -> Dentry \cup {NULL}] /\ t[d] = e /\ \A c \in Ids \ {d} : t[c] = w.dent[c]
  BY <1>1, <1>3
<1> DEFINE m == list_move(w.lru, d)
<1>5. m \in Seq(Ids)
  BY <1>1, Moved
<1>6. v = [w EXCEPT !.dent = t, !.lru = m]
  BY <1>1 DEF d_count, e, CacheRec
<1> HIDE DEF t, m
<1>7. /\ v \in CacheRec /\ v.dent = t /\ v.lru = m
      /\ v.node = w.node /\ v.hash = w.hash /\ v.size = w.size /\ v.ilru = w.ilru
      /\ v.isize = w.isize /\ v.refused = w.refused
      /\ v.cur = w.cur /\ v.new = w.new /\ v.left = w.left /\ v.err = w.err
      /\ v.held = w.held
  BY <1>1, <1>4, <1>5, <1>6 DEF CacheRec
<1>8. SameTree(w, v)
  BY <1>3, <1>4, <1>7 DEF SameTree
<1>9. v.dent[Root].pinned /\ v.node[<< >>].pinned
  BY <1>1, <1>3, <1>4, <1>7, VfsAssumption DEF Top
<1>10. v.lru = list_move(w.lru, d) /\ d \in Live(w)
  BY <1>7 DEF m, Live
<1>11. \A p \in Paths : v.node[p] = NULL <=> w.node[p] = NULL
  BY <1>7
<1> QED
  BY <1>7, <1>8, <1>9, <1>10, <1>11, Retouched

-----------------------------------------------------------------------------
(* Freeing.                                                                *)

\* The dentries in S are gone, and are no longer parents.
Pruned(w, v, S) ==
  \A e \in Ids :
    /\ v.dent[e] = NULL <=> e \in S \/ w.dent[e] = NULL
    /\ v.dent[e] # NULL =>
         /\ v.dent[e].path = w.dent[e].path /\ v.dent[e].pinned = w.dent[e].pinned
         /\ v.dent[e].parent = IF w.dent[e].parent \in S THEN NULL ELSE w.dent[e].parent

\* From w to v the dentries in S and the inodes in P are freed; no dentry loses
\* its inode, and the sizes still cover the lists.
Freed(w, v, S, P) ==
  /\ v \in CacheRec
  /\ S \in SUBSET (Ids \ {Root}) /\ P \in SUBSET (Paths \ {<< >>})
  /\ Pruned(w, v, S)
  /\ \A p \in Paths : v.node[p] = IF p \in P THEN NULL ELSE w.node[p]
  /\ \A d \in Live(w) : w.dent[d].path \in P => d \in S
  /\ v.hash = w.hash \ S /\ v.refused = w.refused
  /\ IsInjective(v.lru) /\ Range(v.lru) = Range(w.lru) \ S
  /\ IsInjective(v.ilru) /\ Range(v.ilru) = Range(w.ilru) \ P
  /\ v.size <= DCap /\ (~w.refused => Len(v.lru) <= v.size)
  /\ Len(v.ilru) <= v.isize /\ v.isize <= ICap

LEMMA Pruning ==
  ASSUME NEW w, NEW E, NEW D, Sound(w, E, D), NEW v, NEW S, NEW P, Freed(w, v, S, P)
  PROVE  Sound(v, E, D) /\ Sound(v, E \ P, D)
<1>0. /\ v \in CacheRec
      /\ S \in SUBSET (Ids \ {Root}) /\ P \in SUBSET (Paths \ {<< >>})
      /\ Pruned(w, v, S)
      /\ \A p \in Paths : v.node[p] = IF p \in P THEN NULL ELSE w.node[p]
      /\ \A d \in Live(w) : w.dent[d].path \in P => d \in S
      /\ v.hash = w.hash \ S /\ v.refused = w.refused
      /\ IsInjective(v.lru) /\ Range(v.lru) = Range(w.lru) \ S
      /\ IsInjective(v.ilru) /\ Range(v.ilru) = Range(w.ilru) \ P
      /\ v.size <= DCap /\ (~w.refused => Len(v.lru) <= v.size)
      /\ Len(v.ilru) <= v.isize /\ v.isize <= ICap
  BY DEF Freed
<1>1. /\ w \in CacheRec /\ Tree(w, E) /\ Top(w) /\ Lists(w) /\ Sizes(w, D)
      /\ Root \in Ids /\ << >> \in Paths
  BY VfsAssumption DEF Sound
<1>2. Live(v) = Live(w) \ S
  BY <1>0 DEF Live, Pruned
<1>3. \A d \in Live(w) : w.dent[d] # NULL /\ d \in Ids /\ w.dent[d].path \in Paths
                         /\ w.dent[d].parent \in Ids \cup {NULL}
  BY <1>1 DEF Live, CacheRec, Dentry
<1>4. \A d \in Live(v) : Rooted(v, E \ P, d)
  <2> SUFFICES ASSUME NEW d \in Live(v) PROVE Rooted(v, E \ P, d)
    OBVIOUS
  <2>1. d \in Live(w) /\ d \notin S /\ d \in Ids /\ v.dent[d] # NULL
    BY <1>2, <1>3 DEF Live
  <2>2. Rooted(w, E, d)
    BY <2>1, <1>1 DEF Tree
  <2>3. /\ v.dent[d].path = w.dent[d].path
        /\ v.dent[d].parent = IF w.dent[d].parent \in S THEN NULL ELSE w.dent[d].parent
    BY <1>0, <2>1 DEF Pruned
  <2>4. w.dent[d].path \notin P /\ w.dent[d].path \in Paths
    BY <1>0, <2>1, <1>3
  <2>5. v.dent[d].path \in E \ P /\ v.node[v.dent[d].path] # NULL
    BY <1>0, <2>2, <2>3, <2>4 DEF Rooted
  <2>6. ASSUME v.dent[d].parent # NULL
        PROVE  /\ v.dent[v.dent[d].parent] # NULL
               /\ d # Root => v.dent[v.dent[d].parent].path = Front(v.dent[d].path)
    <3>1. v.dent[d].parent = w.dent[d].parent /\ w.dent[d].parent \notin S
          /\ w.dent[d].parent \in Ids
      BY <2>3, <2>6, <2>1, <1>3
    <3>2. /\ w.dent[w.dent[d].parent] # NULL
          /\ d # Root => w.dent[w.dent[d].parent].path = Front(w.dent[d].path)
      BY <2>2, <3>1, <2>6 DEF Rooted
    <3>3. v.dent[w.dent[d].parent] # NULL
          /\ v.dent[w.dent[d].parent].path = w.dent[w.dent[d].parent].path
      BY <1>0, <3>1, <3>2 DEF Pruned
    <3> QED
      BY <3>1, <3>2, <3>3, <2>3
  <2> QED
    BY <2>2, <2>3, <2>5, <2>6 DEF Rooted
<1>5. Tree(v, E) /\ Tree(v, E \ P)
  BY <1>0, <1>1, <1>4 DEF Tree, Rooted
<1>6. Top(v)
  <2>1. v.dent[Root] # NULL /\ v.dent[Root].path = << >> /\ v.dent[Root].pinned
    BY <1>0, <1>1 DEF Top, Pruned
  <2> QED
    BY <1>0, <2>1, <1>1 DEF Top
<1>7. Lists(v)
  <2>1. Range(v.lru) \subseteq Live(v) /\ v.hash \subseteq Live(v)
    BY <1>0, <1>1, <1>2 DEF Lists
  <2>2. Range(v.ilru) = {p \in Paths : v.node[p] # NULL}
    BY <1>0, <1>1 DEF Lists
  <2> QED
    BY <1>0, <2>1, <2>2 DEF Lists
<1>8. Sizes(v, D)
  <2>1. ~v.refused => Live(v) \ D \subseteq Range(v.lru)
    BY <1>0, <1>1, <1>2 DEF Sizes
  <2> QED
    BY <1>0, <2>1 DEF Sizes
<1> QED
  BY <1>0, <1>5, <1>6, <1>7, <1>8 DEF Sound

\* Nothing but the caches differs between w and v.
SamePlace(w, v) ==
  v.cur = w.cur /\ v.new = w.new /\ v.left = w.left /\ v.held = w.held

LEMMA FreedDentries ==
  ASSUME NEW w \in CacheRec, NEW S, NEW v, v = free_dentry(w, S)
  PROVE  /\ v \in CacheRec /\ Pruned(w, v, S)
         /\ v.lru = Without(w.lru, S) /\ v.hash = w.hash \ S
         /\ v.size = w.size /\ v.node = w.node /\ v.ilru = w.ilru
         /\ v.isize = w.isize /\ v.refused = w.refused /\ v.err \in {w.err, "WILD"}
         /\ SamePlace(w, v)
<1> DEFINE e0 == IF Misplaced(w, S) THEN "WILD" ELSE w.err
           t == [e \in Ids |->
                   IF e \in S \/ w.dent[e] = NULL THEN NULL
                   ELSE IF w.dent[e].parent \in S THEN [w.dent[e] EXCEPT !.parent = NULL]
                   ELSE w.dent[e]]
<1>1. w.dent \in [Ids -> Dentry \cup {NULL}] /\ w.lru \in Seq(Ids) /\ w.hash \in SUBSET Ids
  BY DEF CacheRec
<1>2. ASSUME NEW e \in Ids, e \notin S, w.dent[e] # NULL
      PROVE  /\ t[e] \in Dentry
             /\ t[e].path = w.dent[e].path /\ t[e].pinned = w.dent[e].pinned
             /\ t[e].parent = IF w.dent[e].parent \in S THEN NULL ELSE w.dent[e].parent
  <2>1. w.dent[e] \in Dentry
    BY <1>1, <1>2
  <2>2. t[e] = IF w.dent[e].parent \in S THEN [w.dent[e] EXCEPT !.parent = NULL]
               ELSE w.dent[e]
    BY <1>2
  <2> QED
    BY <2>1, <2>2 DEF Dentry
<1>3. \A e \in Ids : e \in S \/ w.dent[e] = NULL => t[e] = NULL
  OBVIOUS
<1>4. DOMAIN t = Ids /\ t = [e \in Ids |-> t[e]]
  OBVIOUS
<1>5. v = [w EXCEPT !.err = e0, !.lru = Without(w.lru, S), !.hash = w.hash \ S,
                    !.dent = t]
  BY DEF free_dentry, CacheRec
<1>12. e0 \in {w.err, "WILD"} /\ e0 \in Errors
  BY DEF CacheRec, Errors
<1> HIDE DEF t, e0
<1>6. t \in [Ids -> Dentry \cup {NULL}]
  BY <1>2, <1>3, <1>4
<1>7. Without(w.lru, S) \in Seq(Ids)
  BY <1>1, WithoutItems
<1>8. /\ v.dent = t /\ v.lru = Without(w.lru, S) /\ v.hash = w.hash \ S
      /\ v.size = w.size /\ v.node = w.node /\ v.ilru = w.ilru
      /\ v.isize = w.isize /\ v.refused = w.refused /\ v.err \in {w.err, "WILD"}
      /\ SamePlace(w, v)
  BY <1>5, <1>12 DEF CacheRec, SamePlace
<1>9. v \in CacheRec
  BY <1>1, <1>5, <1>6, <1>7, <1>12 DEF CacheRec
<1>10. Dentry \cap {NULL} = {}
  BY NothingAssumption DEF Dentry
<1>11. Pruned(w, v, S)
  BY <1>2, <1>3, <1>8, <1>10 DEF Pruned
<1> QED
  BY <1>8, <1>9, <1>11

\* The dentries of the inodes in P.
Aliases(w, P) == {d \in Live(w) : w.dent[d].path \in P}

LEMMA FreedInodes ==
  ASSUME NEW w \in CacheRec, NEW P, NEW v, v = free_inode(w, P)
  PROVE  /\ v \in CacheRec
         /\ Pruned(w, v, Aliases(w, P))
         /\ v.lru = Without(w.lru, Aliases(w, P))
         /\ v.hash = w.hash \ Aliases(w, P)
         /\ \A p \in Paths : v.node[p] = IF p \in P THEN NULL ELSE w.node[p]
         /\ v.ilru = Without(w.ilru, P)
         /\ v.size = w.size /\ v.isize = w.isize
         /\ v.refused = w.refused /\ v.err \in {w.err, "WILD"} /\ SamePlace(w, v)
<1> DEFINE S == Aliases(w, P)
           u == free_dentry(w, S)
           n == [p \in Paths |-> IF p \in P THEN NULL ELSE w.node[p]]
           m == Without(w.ilru, P)
<1>1. /\ u \in CacheRec /\ Pruned(w, u, S)
      /\ u.lru = Without(w.lru, S) /\ u.hash = w.hash \ S
      /\ u.size = w.size /\ u.node = w.node /\ u.ilru = w.ilru
      /\ u.isize = w.isize /\ u.refused = w.refused /\ u.err \in {w.err, "WILD"}
      /\ SamePlace(w, u)
  BY FreedDentries
<1>2. w.node \in [Paths -> Inode \cup {NULL}] /\ w.ilru \in Seq(Paths)
  BY DEF CacheRec
<1>3. n \in [Paths -> Inode \cup {NULL}] /\ m \in Seq(Paths)
  BY <1>2, WithoutItems
<1> HIDE DEF S, u
<1>4. v = [u EXCEPT !.ilru = m, !.node = n]
  BY <1>1 DEF free_inode, CacheRec, S, u, Aliases
<1>5. n = [p \in Paths |-> n[p]] /\ \A p \in Paths : n[p] = IF p \in P THEN NULL ELSE w.node[p]
  OBVIOUS
<1> HIDE DEF n, m
<1>6. /\ v \in CacheRec /\ v.dent = u.dent /\ v.lru = u.lru /\ v.hash = u.hash
      /\ v.size = u.size /\ v.isize = u.isize /\ v.node = n /\ v.ilru = m
      /\ v.refused = u.refused /\ v.err = u.err /\ SamePlace(u, v)
  BY <1>1, <1>3, <1>4 DEF CacheRec, SamePlace
<1>7. Pruned(w, v, S)
  BY <1>1, <1>6 DEF Pruned
<1> QED
  BY <1>1, <1>5, <1>6, <1>7 DEF S, m, SamePlace

\* A flush frees items of its list, and none that is pinned.
LEMMA EvictedFrom ==
  ASSUME NEW X, NEW lru \in Seq(X), NEW obj
  PROVE  /\ Evicted(lru, obj) \subseteq Range(lru)
         /\ \A x \in Evicted(lru, obj) : ~obj[x].pinned
BY DEF Evicted, Range

\* An error changes nothing in the caches.
LEMMA Failed ==
  ASSUME NEW w, NEW E, NEW D, Sound(w, E, D), NEW e \in Errors, NEW v, v = Fail(w, e)
  PROVE  /\ Sound(v, E, D) /\ SamePlace(w, v) /\ v.err = e
         /\ v.dent = w.dent /\ v.node = w.node /\ v.size = w.size /\ v.isize = w.isize
<1>1. w \in CacheRec
  BY DEF Sound
<1>2. /\ v \in CacheRec /\ v.err = e /\ SamePlace(w, v)
      /\ v.dent = w.dent /\ v.lru = w.lru /\ v.hash = w.hash /\ v.size = w.size
      /\ v.node = w.node /\ v.ilru = w.ilru /\ v.isize = w.isize
      /\ v.refused = w.refused
  BY <1>1 DEF Fail, CacheRec, SamePlace
<1>3. Sound(v, E, D)
  BY <1>2, Elsewhere
<1> QED
  BY <1>2, <1>3

\* A size that a flush took c items off.
LEMMA SmallerSize ==
  ASSUME NEW w \in CacheRec, NEW c \in Int, NEW v, v = [w EXCEPT !.size = @ - c]
  PROVE  /\ v \in CacheRec /\ v.size = w.size - c
         /\ v.dent = w.dent /\ v.lru = w.lru /\ v.hash = w.hash
         /\ v.node = w.node /\ v.ilru = w.ilru /\ v.isize = w.isize
         /\ v.refused = w.refused /\ v.err = w.err /\ SamePlace(w, v)
<1>1. w.size - c \in Int
  BY DEF CacheRec
<1>2. v = [w EXCEPT !.size = w.size - c]
  OBVIOUS
<1> QED
  BY <1>1, <1>2 DEF CacheRec, SamePlace

LEMMA SmallerISize ==
  ASSUME NEW w \in CacheRec, NEW c \in Int, NEW v, v = [w EXCEPT !.isize = @ - c]
  PROVE  /\ v \in CacheRec /\ v.isize = w.isize - c
         /\ v.dent = w.dent /\ v.lru = w.lru /\ v.hash = w.hash
         /\ v.node = w.node /\ v.ilru = w.ilru /\ v.size = w.size
         /\ v.refused = w.refused /\ v.err = w.err /\ SamePlace(w, v)
<1>1. w.isize - c \in Int
  BY DEF CacheRec
<1>2. v = [w EXCEPT !.isize = w.isize - c]
  OBVIOUS
<1> QED
  BY <1>1, <1>2 DEF CacheRec, SamePlace

\* What is free after a flush is not pinned, and there is room.
FlushedTo(w, v, E, D) ==
  /\ Sound(v, E, D) /\ v.err \in {w.err, "WILD"} /\ SamePlace(w, v) /\ v.refused = w.refused
  /\ \E S \in SUBSET Live(w) : Pruned(w, v, S)

LEMMA FlushedDentries ==
  ASSUME NEW w, NEW E, NEW D, Sound(w, E, D), NEW v, v = flush_d_cache(w)
  PROVE  \/ v = Fail(w, "FULL") \/ v = Fail(w, "WILD")
         \/ /\ FlushedTo(w, v, E, D) /\ v.size < w.size /\ v.node = w.node
            /\ \E S \in SUBSET Range(w.lru) : Pruned(w, v, S)
            /\ Range(v.lru) \subseteq Range(w.lru)
<1> DEFINE S == Evicted(w.lru, w.dent)
<1>1. /\ w \in CacheRec /\ Top(w) /\ Lists(w) /\ Sizes(w, D)
      /\ w.lru \in Seq(Ids) /\ w.size \in Int /\ w.isize \in Int /\ w.ilru \in Seq(Paths)
  BY DEF Sound, CacheRec
<1>2. S \subseteq Range(w.lru) /\ \A x \in S : ~w.dent[x].pinned
  BY <1>1, EvictedFrom
<1>3. v = IF w.ghosts # {} THEN Fail(w, "WILD")
          ELSE IF S = {} THEN Fail(w, "FULL")
          ELSE [free_dentry(w, S) EXCEPT !.size = @ - Cardinality(S)]
  BY DEF flush_d_cache
<1> HIDE DEF S
<1>4. CASE w.ghosts # {} \/ S = {}
  BY <1>3, <1>4
<1>5. CASE w.ghosts = {} /\ S # {}
  <2> DEFINE u == free_dentry(w, S)
  <2>1. /\ u \in CacheRec /\ Pruned(w, u, S)
        /\ u.lru = Without(w.lru, S) /\ u.hash = w.hash \ S
        /\ u.size = w.size /\ u.node = w.node /\ u.ilru = w.ilru
        /\ u.isize = w.isize /\ u.refused = w.refused /\ u.err \in {w.err, "WILD"}
        /\ SamePlace(w, u)
    BY <1>1, FreedDentries
  <2>2. IsInjective(w.lru) /\ Range(w.lru) \subseteq Live(w) /\ IsInjective(w.ilru)
    BY <1>1 DEF Lists
  <2>3. /\ Len(Without(w.lru, S)) = Len(w.lru) - Cardinality(S)
        /\ Len(w.lru) \in Nat /\ IsFiniteSet(S)
    BY <1>1, <1>2, <2>2, WithoutLength
  <2>4. Cardinality(S) \in Nat /\ Cardinality(S) # 0
    BY <2>3, <1>5, FS_CardinalityType, FS_EmptySet
  <2>5. IsInjective(Without(w.lru, S)) /\ Range(Without(w.lru, S)) = Range(w.lru) \ S
    BY <1>1, <2>2, WithoutItems
  <2> HIDE DEF u
  <2>6. v = [u EXCEPT !.size = @ - Cardinality(S)]
    BY <1>3, <1>5 DEF u
  <2>7. /\ v \in CacheRec /\ v.size = u.size - Cardinality(S)
        /\ v.dent = u.dent /\ v.lru = u.lru /\ v.hash = u.hash
        /\ v.node = u.node /\ v.ilru = u.ilru /\ v.isize = u.isize
        /\ v.refused = u.refused /\ v.err = u.err /\ SamePlace(u, v)
    BY <2>1, <2>4, <2>6, SmallerSize
  <2>8. S \subseteq Ids \ {Root} /\ S \subseteq Live(w)
    BY <1>1, <1>2, <2>2 DEF Live, Top
  <2>9. Pruned(w, v, S)
    BY <2>1, <2>7 DEF Pruned
  <2>10. /\ v.size <= DCap /\ v.size < w.size /\ (~w.refused => Len(v.lru) <= v.size)
         /\ Len(v.ilru) <= v.isize /\ v.isize <= ICap
    BY <1>1, <2>1, <2>3, <2>4, <2>7, VfsAssumption DEF Sizes
  <2>11. /\ v.hash = w.hash \ S /\ v.refused = w.refused
         /\ IsInjective(v.lru) /\ Range(v.lru) = Range(w.lru) \ S
         /\ IsInjective(v.ilru) /\ Range(v.ilru) = Range(w.ilru) \ {}
         /\ v.node = w.node /\ v.err \in {w.err, "WILD"}
    BY <2>1, <2>2, <2>5, <2>7
  <2>12. Sound(v, E, D)
    <3> DEFINE P == {}
    <3>1. \A p \in Paths : v.node[p] = IF p \in P THEN NULL ELSE w.node[p]
      BY <2>11
    <3>2. /\ P \in SUBSET (Paths \ {<< >>}) 
          /\ \A d \in Live(w) : w.dent[d].path \in P => d \in S
          /\ Range(v.ilru) = Range(w.ilru) \ P
      BY <2>11
    <3>3. S \in SUBSET (Ids \ {Root})
      BY <2>8
    <3> HIDE DEF P
    <3> QED
      <4>1. Freed(w, v, S, P)
        BY <2>7, <2>9, <2>10, <2>11, <3>1, <3>2, <3>3 DEF Freed
      <4> QED
        BY <4>1, Pruning
  <2>13. SamePlace(w, v)
    BY <2>1, <2>7 DEF SamePlace
  <2> QED
    BY <1>2, <2>8, <2>9, <2>10, <2>11, <2>12, <2>13 DEF FlushedTo
<1> QED
  BY <1>4, <1>5

LEMMA FlushedInodes ==
  ASSUME NEW w, NEW E, NEW D, Sound(w, E, D), NEW v, v = flush_i_cache(w)
  PROVE  \/ v = Fail(w, "FULL")
         \/ /\ FlushedTo(w, v, E, D) /\ v.isize < w.isize
            /\ \A p \in Paths : w.node[p] = NULL => v.node[p] = NULL
<1> DEFINE P == Evicted(w.ilru, w.node)
<1>1. /\ w \in CacheRec /\ Top(w) /\ Lists(w) /\ Sizes(w, D)
      /\ w.lru \in Seq(Ids) /\ w.size \in Int /\ w.isize \in Int /\ w.ilru \in Seq(Paths)
  BY DEF Sound, CacheRec
<1>2. P \subseteq Range(w.ilru) /\ \A x \in P : ~w.node[x].pinned
  BY <1>1, EvictedFrom
<1>3. v = IF P = {} THEN Fail(w, "FULL")
          ELSE [free_inode(w, P) EXCEPT !.isize = @ - Cardinality(P)]
  BY DEF flush_i_cache
<1> HIDE DEF P
<1>4. CASE P = {}
  BY <1>3, <1>4
<1>5. CASE P # {}
  <2> DEFINE u == free_inode(w, P)
             S == Aliases(w, P)
  <2>1. /\ u \in CacheRec /\ Pruned(w, u, S)
        /\ u.lru = Without(w.lru, S) /\ u.hash = w.hash \ S
        /\ \A p \in Paths : u.node[p] = IF p \in P THEN NULL ELSE w.node[p]
        /\ u.ilru = Without(w.ilru, P)
        /\ u.size = w.size /\ u.isize = w.isize
        /\ u.refused = w.refused /\ u.err \in {w.err, "WILD"} /\ SamePlace(w, u)
    BY <1>1, FreedInodes
  <2>2. /\ IsInjective(w.lru) /\ Range(w.lru) \subseteq Live(w) /\ IsInjective(w.ilru)
        /\ Range(w.ilru) \subseteq Paths
    BY <1>1 DEF Lists
  <2>3. /\ Len(Without(w.ilru, P)) = Len(w.ilru) - Cardinality(P)
        /\ Len(w.ilru) \in Nat /\ IsFiniteSet(P)
    BY <1>1, <1>2, <2>2, WithoutLength
  <2>4. Cardinality(P) \in Nat /\ Cardinality(P) # 0
    BY <2>3, <1>5, FS_CardinalityType, FS_EmptySet
  <2>5. /\ IsInjective(Without(w.ilru, P)) /\ Range(Without(w.ilru, P)) = Range(w.ilru) \ P
        /\ IsInjective(Without(w.lru, S)) /\ Range(Without(w.lru, S)) = Range(w.lru) \ S
    BY <1>1, <2>2, WithoutItems
  <2>6. Len(Without(w.lru, S)) <= Len(w.lru) /\ Len(w.lru) \in Nat
        /\ Len(Without(w.lru, S)) \in Nat
    BY <1>1, <2>2, WithoutLength
  <2> HIDE DEF u
  <2>7. v = [u EXCEPT !.isize = @ - Cardinality(P)]
    BY <1>3, <1>5 DEF u
  <2>8. /\ v \in CacheRec /\ v.isize = u.isize - Cardinality(P)
        /\ v.dent = u.dent /\ v.lru = u.lru /\ v.hash = u.hash
        /\ v.node = u.node /\ v.ilru = u.ilru /\ v.size = u.size
        /\ v.refused = u.refused /\ v.err = u.err /\ SamePlace(u, v)
    BY <2>1, <2>4, <2>7, SmallerISize
  <2>9. P \in SUBSET (Paths \ {<< >>})
    BY <1>1, <1>2, <2>2 DEF Top
  <2>10. S \in SUBSET (Ids \ {Root}) /\ S \subseteq Live(w)
    BY <1>1, <2>9 DEF Live, Top, Aliases
  <2>11. Pruned(w, v, S)
    BY <2>1, <2>8 DEF Pruned
  <2>12. /\ v.size <= DCap /\ v.isize < w.isize /\ (~w.refused => Len(v.lru) <= v.size)
         /\ Len(v.ilru) <= v.isize /\ v.isize <= ICap
    <3>1. /\ v.size = w.size /\ v.isize = w.isize - Cardinality(P)
          /\ Len(v.lru) <= Len(w.lru) /\ Len(v.ilru) = Len(w.ilru) - Cardinality(P)
      BY <2>1, <2>3, <2>6, <2>8
    <3>2. Len(v.lru) \in Nat /\ ICap \in Nat /\ DCap \in Nat
      BY <2>1, <2>6, <2>8, VfsAssumption
    <3>3. /\ w.size <= DCap /\ (~w.refused => Len(w.lru) <= w.size)
          /\ Len(w.ilru) <= w.isize /\ w.isize <= ICap
      BY <1>1 DEF Sizes
    <3>4. v.size <= DCap /\ (~w.refused => Len(v.lru) <= v.size)
      BY <1>1, <2>6, <3>1, <3>2, <3>3
    <3>5. PICK c \in Nat \ {0} : c = Cardinality(P)
      BY <2>4
    <3>6. v.isize = w.isize - c /\ Len(v.ilru) = Len(w.ilru) - c
      BY <3>1, <3>5
    <3>7. v.isize < w.isize /\ Len(v.ilru) <= v.isize /\ v.isize <= ICap
      BY <1>1, <2>3, <3>2, <3>3, <3>5, <3>6
    <3> QED
      BY <3>4, <3>7
  <2>13. /\ v.hash = w.hash \ S /\ v.refused = w.refused
         /\ IsInjective(v.lru) /\ Range(v.lru) = Range(w.lru) \ S
         /\ IsInjective(v.ilru) /\ Range(v.ilru) = Range(w.ilru) \ P
         /\ v.err \in {w.err, "WILD"}
         /\ \A p \in Paths : v.node[p] = IF p \in P THEN NULL ELSE w.node[p]
    BY <2>1, <2>2, <2>5, <2>8
  <2>14. \A d \in Live(w) : w.dent[d].path \in P => d \in S
    BY DEF Aliases
  <2> HIDE DEF S
  <2>15. Sound(v, E, D)
    <3>1. S \in SUBSET (Ids \ {Root}) /\ v \in CacheRec
      BY <2>8, <2>10
    <3> QED
      <4>1. Freed(w, v, S, P)
        BY <3>1, <2>9, <2>11, <2>12, <2>13, <2>14 DEF Freed
      <4> QED
        BY <4>1, Pruning
  <2>16. SamePlace(w, v)
    BY <2>1, <2>8 DEF SamePlace
  <2> QED
    BY <2>10, <2>11, <2>12, <2>13, <2>15, <2>16 DEF FlushedTo
<1> QED
  BY <1>4, <1>5

-----------------------------------------------------------------------------
(* Allocating.                                                             *)

WithInode(u, p) == [u.node EXCEPT ![p] = [count |-> 0, pinned |-> FALSE]]

\* The new inode of path p in a cache that has room.
LEMMA InodeAdded ==
  ASSUME NEW u, NEW E, Sound(u, E, {}), NEW p \in Paths, p \in E, u.node[p] = NULL,
         u.isize < ICap,
         NEW v \in CacheRec, v.dent = u.dent, v.lru = u.lru, v.hash = u.hash,
         v.size = u.size, v.refused = u.refused, v.ilru = <<p>> \o u.ilru,
         v.isize = u.isize + 1, v.node = WithInode(u, p)
  PROVE  Sound(v, E, {}) /\ v.node[p] # NULL
<1> DEFINE n == WithInode(u, p)
           m == <<p>> \o u.ilru
<1>1. /\ u \in CacheRec /\ Tree(u, E) /\ Top(u) /\ Lists(u) /\ Sizes(u, {})
      /\ u.node \in [Paths -> Inode \cup {NULL}] /\ u.ilru \in Seq(Paths)
      /\ u.isize \in Int /\ << >> \in Paths
  BY VfsAssumption DEF Sound, CacheRec
<1>2. [count |-> 0, pinned |-> FALSE] \in Inode /\ [count |-> 0, pinned |-> FALSE] # NULL
  <2>1. [count |-> 0, pinned |-> FALSE] \in Inode
    BY DEF Inode
  <2>2. NULL \notin Inode
    BY NothingAssumption DEF Inode
  <2> QED
    BY <2>1, <2>2
<1>3. /\ n \in [Paths -> Inode \cup {NULL}] /\ n[p] # NULL
      /\ \A q \in Paths \ {p} : n[q] = u.node[q]
  BY <1>1, <1>2 DEF WithInode
<1>4. IsInjective(u.ilru) /\ Range(u.ilru) = {q \in Paths : u.node[q] # NULL}
  BY <1>1 DEF Lists
<1>5. /\ m \in Seq(Paths) /\ Len(m) = Len(u.ilru) + 1 /\ Len(u.ilru) \in Nat
      /\ Range(m) = Range(u.ilru) \cup {p} /\ IsInjective(m)
  BY <1>1, <1>4, InFront
<1> HIDE DEF n, m
<1>7. /\ v.dent = u.dent /\ v.lru = u.lru /\ v.hash = u.hash
      /\ v.size = u.size /\ v.node = n /\ v.ilru = m /\ v.isize = u.isize + 1
      /\ v.refused = u.refused
  BY DEF n, m
<1>8. Tree(v, E)
  <2>1. ASSUME NEW d \in Live(u) PROVE Rooted(v, E, d)
    <3>1. Rooted(u, E, d) /\ u.dent[d].path \in Paths
      BY <1>1 DEF Tree, Live, CacheRec, Dentry
    <3> QED
      BY <3>1, <1>3, <1>7 DEF Rooted
  <2>2. Live(v) = Live(u)
    BY <1>7 DEF Live
  <2> QED
    BY <1>1, <1>3, <1>7, <2>1, <2>2 DEF Tree
<1>9. Top(v)
  BY <1>1, <1>3, <1>7 DEF Top
<1>10. Lists(v)
  <2>1. Live(v) = Live(u)
    BY <1>7 DEF Live
  <2>2. Range(m) = {q \in Paths : n[q] # NULL}
    BY <1>3, <1>4, <1>5
  <2> QED
    BY <1>1, <1>5, <1>7, <2>1, <2>2 DEF Lists
<1>11. Sizes(v, {})
  BY <1>1, <1>5, <1>7, VfsAssumption DEF Sizes, Live
<1> QED
  BY <1>3, <1>7, <1>8, <1>9, <1>10, <1>11 DEF Sound

\* Every dentry of v was in w, with the same path.
NoneNew(w, v) ==
  \A e \in Ids : v.dent[e] # NULL => w.dent[e] # NULL /\ v.dent[e].path = w.dent[e].path

LEMMA InodeAllocated ==
  ASSUME NEW w, NEW E, Sound(w, E, {}), Ok(w), NEW p \in Paths, p \in E,
         w.node[p] = NULL, NEW v, v = alloc_inode(w, p)
  PROVE  /\ Sound(v, E, {}) /\ SamePlace(w, v) /\ NoneNew(w, v)
         /\ v.err \in {"ok", "FULL", "WILD"} /\ (Ok(v) => v.node[p] # NULL)
<1> DEFINE u == IF w.isize = ICap THEN flush_i_cache(w) ELSE w
           a == [u EXCEPT !.ilru = <<p>> \o @, !.isize = @ + 1]
<1>1. v = IF Ok(u) THEN IF Ok(a) THEN [a EXCEPT !.node[p] = [count |-> 0, pinned |-> FALSE]]
                        ELSE a
          ELSE u
  BY DEF alloc_inode, add_to_i_cache, Then, Ok
<1>2. w.err = "ok" /\ Sizes(w, {}) /\ w.isize \in Int /\ w \in CacheRec
  BY DEF Ok, Sound, CacheRec
<1>3. \/ u = Fail(w, "FULL")
      \/ /\ Sound(u, E, {}) /\ u.err \in {"ok", "WILD"} /\ SamePlace(w, u)
         /\ u.isize < ICap
         /\ u.node[p] = NULL /\ NoneNew(w, u)
  <2>1. CASE w.isize # ICap
    <3>1. u = w
      BY <2>1
    <3>2. w.isize < ICap
      BY <1>2, <2>1, VfsAssumption DEF Sizes
    <3> QED
      BY <3>1, <3>2, <1>2 DEF SamePlace, NoneNew
  <2>2. CASE w.isize = ICap
    <3>1. u = flush_i_cache(w)
      BY <2>2
    <3> HIDE DEF u
    <3>2. CASE u # Fail(w, "FULL")
      <4>1. /\ FlushedTo(w, u, E, {}) /\ u.isize < w.isize
            /\ \A q \in Paths : w.node[q] = NULL => u.node[q] = NULL
        BY <3>1, <3>2, FlushedInodes
      <4>2. PICK S \in SUBSET Live(w) : Pruned(w, u, S)
        BY <4>1 DEF FlushedTo
      <4>3. NoneNew(w, u)
        BY <4>2 DEF NoneNew, Pruned
      <4> QED
        BY <4>1, <4>3, <1>2, <2>2 DEF FlushedTo
    <3> QED
      BY <3>2
  <2> QED
    BY <2>1, <2>2
<1> HIDE DEF u
<1>4. CASE u = Fail(w, "FULL")
  <2>1. /\ Sound(u, E, {}) /\ SamePlace(w, u) /\ u.err = "FULL" /\ u.dent = w.dent
    <3>1. "FULL" \in Errors
      BY DEF Errors
    <3> QED
      BY <1>4, <3>1, Failed
  <2>2. v = u
    BY <1>1, <2>1 DEF Ok
  <2> QED
    BY <2>1, <2>2 DEF NoneNew, Ok
<1>6. CASE /\ Sound(u, E, {}) /\ u.err = "WILD" /\ SamePlace(w, u) /\ NoneNew(w, u)
  <2>1. v = u
    BY <1>1, <1>6 DEF Ok
  <2> QED
    BY <1>6, <2>1 DEF Ok
<1>5. CASE /\ Sound(u, E, {}) /\ u.err = "ok" /\ SamePlace(w, u) /\ u.isize < ICap
           /\ u.node[p] = NULL /\ NoneNew(w, u)
  <2>1. u \in CacheRec
    BY <1>5 DEF Sound
  <2>2. Ok(u) /\ Ok(a)
    BY <1>5, <2>1 DEF Ok, CacheRec
  <2> DEFINE n == WithInode(u, p)
             m == <<p>> \o u.ilru
             i == u.isize + 1
  <2>3. v = [u EXCEPT !.ilru = m, !.isize = i, !.node = n]
    BY <1>1, <2>1, <2>2 DEF CacheRec, WithInode
  <2>4. n \in [Paths -> Inode \cup {NULL}] /\ i \in Int /\ m \in Seq(Paths)
    BY <2>1, InFront DEF CacheRec, WithInode, Inode
  <2>5. v \in CacheRec
    <3> HIDE DEF n, m, i
    <3> QED
      BY <2>1, <2>3, <2>4 DEF CacheRec
  <2>6. /\ v.dent = u.dent /\ v.lru = u.lru /\ v.hash = u.hash
        /\ v.size = u.size /\ v.node = n /\ v.ilru = m /\ v.isize = i
        /\ v.refused = u.refused /\ v.err = u.err /\ SamePlace(u, v)
    <3> HIDE DEF n, m, i
    <3> QED
      BY <2>1, <2>3 DEF CacheRec, SamePlace
  <2>7. Sound(v, E, {}) /\ v.node[p] # NULL
    BY <1>5, <2>5, <2>6, InodeAdded
  <2> QED
    BY <1>5, <2>6, <2>7 DEF NoneNew, SamePlace
<1> QED
  BY <1>3, <1>4, <1>5, <1>6

\* A dentry that is pending goes into the cache, or is refused.
LEMMA DentryAdded ==
  ASSUME NEW w, NEW E, NEW d \in Live(w), Sound(w, E, {d}), Ok(w), d \notin Range(w.lru),
         NEW v, v = add_to_d_cache(w, d)
  PROVE  /\ Sound(v, E, {}) /\ SamePlace(w, v) /\ NoneNew(w, v) /\ v.node = w.node
         /\ v.err \in {"ok", "FULL", "WILD"}
         /\ v.dent[d] # NULL
         /\ w.dent[d].parent # NULL /\ v.dent[w.dent[d].parent] # NULL =>
              v.dent[d].parent = w.dent[d].parent
<1> DEFINE u == IF w.size = DCap THEN flush_d_cache(w) ELSE w
<1>1. v = IF Ok(u) THEN [u EXCEPT !.lru = <<d>> \o @, !.hash = @ \cup {d}, !.size = @ + 1]
          ELSE [u EXCEPT !.refused = TRUE]
  BY DEF add_to_d_cache
<1>2. /\ w.err = "ok" /\ Sizes(w, {d}) /\ w.size \in Int /\ w \in CacheRec
      /\ Tree(w, E) /\ Rooted(w, E, d) /\ d \in Ids /\ w.dent[d] # NULL
      /\ w.dent[d] \in Dentry /\ NULL \notin Ids
  BY VfsAssumption DEF Ok, Sound, CacheRec, Tree, Live
<1> DEFINE Room == u.size < DCap /\ Range(u.lru) \subseteq Range(w.lru)
           Kept == \E S \in SUBSET Range(w.lru) : Pruned(w, u, S)
<1>3. /\ Sound(u, E, {d}) /\ u.err \in {"ok", "FULL", "WILD"} /\ SamePlace(w, u)
      /\ u.node = w.node /\ NoneNew(w, u) /\ Kept /\ (Ok(u) => Room)
  <2>1. CASE w.size # DCap
    <3>1. u = w
      BY <2>1
    <3>2. w.size < DCap
      BY <1>2, <2>1, VfsAssumption DEF Sizes
    <3>3. {} \in SUBSET Range(w.lru) /\ Pruned(w, w, {})
      BY DEF Pruned
    <3> QED
      BY <3>1, <3>2, <3>3, <1>2 DEF SamePlace, NoneNew
  <2>2. CASE w.size = DCap
    <3>1. u = flush_d_cache(w)
      BY <2>2
    <3> HIDE DEF u
    <3>2. CASE u = Fail(w, "FULL") \/ u = Fail(w, "WILD")
      <4>1. PICK e \in Errors \ {"ok"} : u = Fail(w, e) /\ e \in {"FULL", "WILD"}
        BY <3>2 DEF Errors
      <4>2. /\ Sound(u, E, {d}) /\ SamePlace(w, u) /\ u.err = e /\ u.dent = w.dent
            /\ u.node = w.node
        BY <4>1, Failed
      <4>3. {} \in SUBSET Range(w.lru) /\ Pruned(w, u, {}) /\ NoneNew(w, u)
        BY <4>2 DEF Pruned, NoneNew
      <4> QED
        BY <4>1, <4>2, <4>3 DEF Ok
    <3>3. CASE ~(u = Fail(w, "FULL") \/ u = Fail(w, "WILD"))
      <4>1. /\ FlushedTo(w, u, E, {d}) /\ u.size < w.size /\ u.node = w.node
            /\ \E S \in SUBSET Range(w.lru) : Pruned(w, u, S)
            /\ Range(u.lru) \subseteq Range(w.lru)
        BY <3>1, <3>3, FlushedDentries
      <4>3. NoneNew(w, u)
        BY <4>1 DEF NoneNew, Pruned
      <4> QED
        BY <4>1, <4>3, <1>2, <2>2 DEF FlushedTo
    <3> QED
      BY <3>2, <3>3
  <2> QED
    BY <2>1, <2>2
<1>6. PICK S \in SUBSET Range(w.lru) : Pruned(w, u, S)
  BY <1>3
<1>7. d \notin S /\ u.dent[d] # NULL
      /\ u.dent[d].parent = IF w.dent[d].parent \in S THEN NULL ELSE w.dent[d].parent
  BY <1>2, <1>6 DEF Pruned
<1>8. w.dent[d].parent \in S => u.dent[w.dent[d].parent] = NULL
  <2>1. Range(w.lru) \subseteq Ids
    BY DEF Sound, Lists, Live
  <2> QED
    BY <1>6, <2>1 DEF Pruned
<1> HIDE DEF u
<1>4. CASE ~Ok(u)
  <2>2. v = [u EXCEPT !.refused = TRUE]
    BY <1>1, <1>4
  <2>3. u \in CacheRec
    BY <1>3 DEF Sound
  <2>4. /\ v \in CacheRec /\ v.dent = u.dent /\ v.lru = u.lru /\ v.hash = u.hash
        /\ v.size = u.size /\ v.node = u.node /\ v.ilru = u.ilru /\ v.isize = u.isize
        /\ v.refused = TRUE /\ v.err = u.err /\ SamePlace(u, v)
    BY <2>2, <2>3 DEF CacheRec, SamePlace
  <2>5. Sound(v, E, {})
    <3>1. Tree(u, E) /\ Top(u) /\ Lists(u) /\ Sizes(u, {d})
      BY <1>3 DEF Sound
    <3>2. Tree(v, E) /\ Top(v) /\ Lists(v)
      BY <3>1, <2>4 DEF Tree, Top, Lists, Live, Rooted
    <3>3. Sizes(v, {})
      BY <3>1, <2>4 DEF Sizes
    <3> QED
      BY <2>4, <3>2, <3>3 DEF Sound
  <2> QED
    BY <1>3, <1>7, <1>8, <2>4, <2>5 DEF NoneNew, SamePlace
<1>5. CASE Ok(u)
  <2>1. /\ u \in CacheRec /\ Tree(u, E) /\ Top(u) /\ Lists(u) /\ Sizes(u, {d})
        /\ u.lru \in Seq(Ids) /\ u.size \in Int /\ u.hash \in SUBSET Ids
    BY <1>3 DEF Sound, CacheRec
  <2> DEFINE m == <<d>> \o u.lru
             c == u.hash \cup {d}
  <2>2. d \notin Range(u.lru) /\ IsInjective(u.lru)
    BY <1>3, <1>5, <2>1 DEF Lists
  <2>3. /\ m \in Seq(Ids) /\ Len(m) = Len(u.lru) + 1 /\ Len(u.lru) \in Nat
        /\ Range(m) = Range(u.lru) \cup {d} /\ IsInjective(m)
    BY <1>2, <2>1, <2>2, InFront
  <2>7. v = [u EXCEPT !.lru = m, !.hash = c, !.size = u.size + 1]
    BY <1>1, <1>5, <2>1 DEF CacheRec
  <2>8. c \in SUBSET Ids /\ d \in c /\ c \subseteq u.hash \cup {d}
    BY <1>2, <2>1
  <2> HIDE DEF m, c
  <2>9. /\ v \in CacheRec /\ v.dent = u.dent /\ v.lru = m /\ v.hash = c
        /\ v.size = u.size + 1 /\ v.node = u.node /\ v.ilru = u.ilru
        /\ v.isize = u.isize /\ v.refused = u.refused /\ v.err = u.err
        /\ SamePlace(u, v)
    <3>1. u.size + 1 \in Int
      BY <2>1
    <3> DEFINE i == u.size + 1
    <3>2. v = [u EXCEPT !.lru = m, !.hash = c, !.size = i]
      BY <2>7
    <3> HIDE DEF i
    <3>3. v \in CacheRec
      BY <2>1, <2>3, <2>8, <3>1, <3>2 DEF CacheRec, i
    <3>4. /\ v.dent = u.dent /\ v.lru = m /\ v.hash = c
          /\ v.size = i /\ v.node = u.node /\ v.ilru = u.ilru
          /\ v.isize = u.isize /\ v.refused = u.refused /\ v.err = u.err
          /\ SamePlace(u, v)
      BY <2>1, <3>2 DEF CacheRec, SamePlace
    <3> QED
      BY <3>3, <3>4 DEF i
  <2>10. Live(v) = Live(u) /\ d \in Live(u)
    BY <1>2, <1>7, <2>9 DEF Live
  <2>11. Tree(v, E) /\ Top(v)
    BY <2>1, <2>9, <2>10 DEF Tree, Top, Rooted
  <2>12. Lists(v)
    BY <2>1, <2>3, <2>8, <2>9, <2>10 DEF Lists
  <2>13. Sizes(v, {})
    BY <1>3, <1>5, <2>1, <2>3, <2>9, <2>10, VfsAssumption DEF Sizes
  <2>14. Sound(v, E, {})
    BY <2>9, <2>11, <2>12, <2>13 DEF Sound
  <2> QED
    BY <1>3, <1>5, <1>7, <1>8, <2>9, <2>14 DEF NoneNew, SamePlace, Ok
<1> QED
  BY <1>4, <1>5

\* The new dentry d of path p below the directory w.cur, before it is in the
\* cache.
Pending(w, p, d) ==
  [w EXCEPT !.dent[d] = [path |-> p, parent |-> w.cur, home |-> w.cur, count |-> 0,
                         pinned |-> FALSE],
            !.node[p].count = @ + 1, !.ilru = list_move(@, p), !.new = d]

\* p is a file with an inode in the directory w.cur, and d is free for it.
Allocatable(w, E, p, d) ==
  /\ Sound(w, E, {}) /\ w.dent[w.cur] # NULL
  /\ p \in Paths /\ p \in E /\ p # << >> /\ w.node[p] # NULL
  /\ Front(p) = w.dent[w.cur].path
  /\ d \in Ids /\ w.dent[d] = NULL

LEMMA DentryPending ==
  ASSUME NEW w, NEW E, NEW p, NEW d, Allocatable(w, E, p, d), NEW u, u = Pending(w, p, d)
  PROVE  /\ Sound(u, E, {d}) /\ d \in Live(u) /\ d \notin Range(u.lru)
         /\ u.err = w.err /\ u.cur = w.cur /\ u.left = w.left /\ u.held = w.held
         /\ u.new = d /\ u.dent[d].path = p /\ u.dent[d].parent = w.cur
         /\ \A e \in Ids \ {d} : u.dent[e] = w.dent[e]
<1>0. /\ Sound(w, E, {}) /\ w.dent[w.cur] # NULL
      /\ p \in Paths /\ p \in E /\ p # << >> /\ w.node[p] # NULL
      /\ Front(p) = w.dent[w.cur].path
      /\ d \in Ids /\ w.dent[d] = NULL
  BY DEF Allocatable
<1> USE <1>0
<1> DEFINE x == [path |-> p, parent |-> w.cur, home |-> w.cur, count |-> 0,
                pinned |-> FALSE]
           y == [w.node[p] EXCEPT !.count = @ + 1]
           t == [w.dent EXCEPT ![d] = x]
           n == [w.node EXCEPT ![p] = y]
           m == list_move(w.ilru, p)
<1>1. /\ w \in CacheRec /\ Tree(w, E) /\ Top(w) /\ Lists(w) /\ Sizes(w, {})
      /\ w.dent \in [Ids -> Dentry \cup {NULL}] /\ w.node \in [Paths -> Inode \cup {NULL}]
      /\ w.ilru \in Seq(Paths) /\ w.lru \in Seq(Ids) /\ w.cur \in Ids /\ Root \in Ids
      /\ << >> \in Paths
  BY VfsAssumption DEF Sound, CacheRec
<1>2. x \in Dentry
  BY <1>1 DEF Dentry
<1>3. NULL \notin Dentry /\ NULL \notin Inode
  BY NothingAssumption DEF Dentry, Inode
<1>4. w.node[p] \in Inode
  BY <1>1
<1>5. y \in Inode /\ y.pinned = w.node[p].pinned
  BY <1>4 DEF Inode
<1>6. x.path = p /\ x.parent = w.cur
  OBVIOUS
<1>7. u = [w EXCEPT !.dent = t, !.node = n, !.ilru = m, !.new = d]
  BY <1>1 DEF Pending, CacheRec
<1> HIDE DEF x, y
<1>8. /\ t \in [Ids -> Dentry \cup {NULL}] /\ t[d] = x /\ \A e \in Ids \ {d} : t[e] = w.dent[e]
      /\ n \in [Paths -> Inode \cup {NULL}] /\ n[p] = y
      /\ \A q \in Paths \ {p} : n[q] = w.node[q]
  BY <1>1, <1>2, <1>5
<1>9. /\ IsInjective(w.ilru) /\ p \in Range(w.ilru)
      /\ Range(w.ilru) = {q \in Paths : w.node[q] # NULL}
  BY <1>1 DEF Lists
<1>10. /\ m \in Seq(Paths) /\ Range(m) = Range(w.ilru) \cup {p} /\ IsInjective(m)
       /\ Len(m) = Len(w.ilru)
  <2>1. m \in Seq(Paths) /\ Range(m) = Range(w.ilru) \cup {p} /\ IsInjective(m)
    <3>1. w.ilru \in Seq(Paths) /\ IsInjective(w.ilru)
      BY <1>1, <1>9
    <3> QED
      BY <3>1, Moved
  <2>2. Len(m) = Len(w.ilru)
    BY <1>1, <1>9, MovedLength
  <2> QED
    BY <2>1, <2>2
<1> HIDE DEF t, n, m
<1>11. u \in CacheRec
  BY <1>1, <1>7, <1>8, <1>10 DEF CacheRec
<1>12. /\ u.dent = t /\ u.lru = w.lru /\ u.hash = w.hash /\ u.size = w.size
       /\ u.node = n /\ u.ilru = m /\ u.isize = w.isize /\ u.refused = w.refused
       /\ u.err = w.err /\ u.cur = w.cur /\ u.left = w.left /\ u.held = w.held
       /\ u.new = d
  BY <1>1, <1>7 DEF CacheRec
<1>13. Live(u) = Live(w) \cup {d} /\ d \notin Live(w) /\ d # Root /\ w.cur \in Live(w)
  BY <1>1, <1>2, <1>3, <1>8, <1>12 DEF Live, Top
<1>14. \A q \in Paths : u.node[q] = NULL <=> w.node[q] = NULL
  BY <1>3, <1>5, <1>8, <1>12
<1>15. \A e \in Live(w) : /\ u.dent[e] = w.dent[e] /\ e \in Ids /\ e # d /\ w.dent[e] # NULL
                          /\ w.dent[e].path \in Paths
                          /\ w.dent[e].parent \in Ids \cup {NULL}
  BY <1>1, <1>8, <1>12, <1>13 DEF Live, Dentry
<1>16. Tree(u, E)
  <2>1. ASSUME NEW e \in Live(w) PROVE Rooted(u, E, e)
    <3>1. Rooted(w, E, e)
      BY <1>1 DEF Tree
    <3>2. w.dent[e].parent # NULL => w.dent[e].parent \in Live(w)
      BY <3>1, <1>15 DEF Rooted, Live
    <3> QED
      BY <3>1, <3>2, <1>14, <1>15 DEF Rooted
  <2>2. Rooted(u, E, d)
    <3>1. u.dent[d].path = p /\ u.dent[d].parent = w.cur
      BY <1>6, <1>8, <1>12
    <3>2. u.dent[w.cur] # NULL /\ u.dent[w.cur].path = Front(p) /\ u.node[p] # NULL
      BY <1>13, <1>14, <1>15
    <3> QED
      BY <3>1, <3>2 DEF Rooted
  <2> QED
    BY <1>1, <1>13, <1>14, <2>1, <2>2 DEF Tree
<1>17. Top(u)
  <2>1. u.dent[Root] = w.dent[Root]
    BY <1>1, <1>8, <1>12, <1>13
  <2>2. u.node[<< >>] = w.node[<< >>]
    BY <1>1, <1>8, <1>12
  <2> QED
    BY <1>1, <2>1, <2>2 DEF Top
<1>18. Lists(u)
  <2>1. Range(u.ilru) = {q \in Paths : u.node[q] # NULL}
    BY <1>9, <1>10, <1>12, <1>14
  <2> QED
    BY <1>1, <1>10, <1>12, <1>13, <2>1 DEF Lists
<1>19. Sizes(u, {d})
  BY <1>1, <1>10, <1>12, <1>13 DEF Sizes
<1>20. d \notin Range(u.lru)
  BY <1>1, <1>12, <1>13 DEF Lists
<1> QED
  BY <1>6, <1>8, <1>11, <1>12, <1>13, <1>16, <1>17, <1>18, <1>19, <1>20 DEF Sound

\* What a lookup of path p below w.cur, or an allocation there, comes to.
Found(w, v, E, p) ==
  /\ Sound(v, E, {}) /\ v.cur = w.cur /\ v.left = w.left
  /\ Ok(v) => /\ v.dent[v.new] # NULL /\ v.dent[v.new].path = p
              /\ v.dent[w.cur] # NULL => v.dent[v.new].parent = w.cur
  /\ v.dent[w.cur] # NULL =>
       w.dent[w.cur] # NULL /\ v.dent[w.cur].path = w.dent[w.cur].path
  /\ v.err = "NOTFOUND" => v.dent = w.dent /\ p \notin E

LEMMA DentryAllocated ==
  ASSUME NEW w, NEW E, Sound(w, E, {}), Ok(w), w.dent[w.cur] # NULL,
         NEW p \in Paths, p \in E, p # << >>, w.node[p] # NULL,
         Front(p) = w.dent[w.cur].path,
         NEW v, v = alloc_dentry(w, p)
  PROVE  Found(w, v, E, p) /\ v.err # "NOTFOUND"
<1> DEFINE free == {x \in Ids : w.dent[x] = NULL} \ w.held
<1>1. w.err = "ok" /\ w.cur \in Ids /\ NULL \notin Ids
  BY VfsAssumption DEF Ok, Sound, CacheRec
<1>2. CASE free = {}
  <2>1. v = Fail(w, "NO_MEMORY")
    BY <1>2 DEF alloc_dentry
  <2>2. "NO_MEMORY" \in Errors
    BY DEF Errors
  <2>3. Sound(v, E, {}) /\ SamePlace(w, v) /\ v.err = "NO_MEMORY" /\ v.dent = w.dent
    BY <2>1, <2>2, Failed
  <2> QED
    BY <2>3 DEF Found, Ok, SamePlace
<1>4. CASE free # {} /\ v = Fail(w, "WILD")
  <2>2. "WILD" \in Errors
    BY DEF Errors
  <2>3. Sound(v, E, {}) /\ SamePlace(w, v) /\ v.err = "WILD" /\ v.dent = w.dent
    BY <1>4, <2>2, Failed
  <2> QED
    BY <2>3 DEF Found, Ok, SamePlace
<1>3. CASE free # {} /\ v # Fail(w, "WILD")
  <2>1. PICK d : d = CHOOSE x \in free : TRUE
    OBVIOUS
  <2>2. d \in free
    BY <2>1, <1>3
  <2>3. d \in Ids /\ w.dent[d] = NULL /\ d # w.cur
    BY <2>2
  <2>12. PICK u : u = Pending(w, p, d)
    OBVIOUS
  <2>4. v = add_to_d_cache(u, d)
    BY <2>1, <2>12, <1>3 DEF alloc_dentry, Pending
  <2>5. /\ Sound(u, E, {d}) /\ d \in Live(u) /\ d \notin Range(u.lru)
        /\ u.err = w.err /\ u.cur = w.cur /\ u.left = w.left /\ u.held = w.held
        /\ u.new = d /\ u.dent[d].path = p /\ u.dent[d].parent = w.cur
    <3>1. Allocatable(w, E, p, d)
      BY <2>3 DEF Allocatable
    <3> QED
      BY <2>12, <3>1, DentryPending
  <2>11. u.dent[w.cur] = w.dent[w.cur]
    <3>1. w \in CacheRec
      BY DEF Sound
    <3> QED
      BY <1>1, <2>3, <2>12, <3>1 DEF Pending, CacheRec
  <2>6. Ok(u)
    BY <2>5, <1>1 DEF Ok
  <2>7. /\ Sound(v, E, {}) /\ SamePlace(u, v) /\ NoneNew(u, v)
        /\ v.err \in {"ok", "FULL", "WILD"}
        /\ v.dent[d] # NULL
        /\ u.dent[d].parent # NULL /\ v.dent[u.dent[d].parent] # NULL =>
             v.dent[d].parent = u.dent[d].parent
    BY <2>4, <2>5, <2>6, DentryAdded
  <2>8. v.new = d /\ v.cur = w.cur /\ v.left = w.left /\ v.dent[d].path = p
    BY <2>3, <2>5, <2>7 DEF SamePlace, NoneNew
  <2>9. v.dent[w.cur] # NULL => v.dent[d].parent = w.cur
    BY <1>1, <2>5, <2>7
  <2>10. v.dent[w.cur] # NULL => v.dent[w.cur].path = w.dent[w.cur].path
    BY <1>1, <2>5, <2>7, <2>11 DEF NoneNew
  <2> QED
    BY <2>7, <2>8, <2>9, <2>10 DEF Found
<1> QED
  BY <1>2, <1>3, <1>4

LEMMA BelowAllocated ==
  ASSUME NEW w, NEW E, Sound(w, E, {}), Ok(w),
         NEW p \in Paths, p \in E, p # << >>, w.node[p] # NULL,
         w.dent[w.cur] # NULL => Front(p) = w.dent[w.cur].path,
         NEW v, v = alloc_below(w, p)
  PROVE  Found(w, v, E, p) /\ v.err # "NOTFOUND"
<1>1. CASE w.dent[w.cur] = NULL
  <2>1. v = Fail(w, "WILD")
    BY <1>1 DEF alloc_below
  <2>2. "WILD" \in Errors
    BY DEF Errors
  <2>3. Sound(v, E, {}) /\ SamePlace(w, v) /\ v.err = "WILD" /\ v.dent = w.dent
    BY <2>1, <2>2, Failed
  <2> QED
    BY <1>1, <2>3 DEF Found, Ok, SamePlace
<1>2. CASE w.dent[w.cur] # NULL
  <2>1. v = alloc_dentry(w, p)
    BY <1>2 DEF alloc_below
  <2> QED
    BY <1>2, <2>1, DentryAllocated
<1> QED
  BY <1>1, <1>2

\* read_dentry_from_sfn, or create_dentry_fat32 up to the new dentry.
LEMMA DentryRead ==
  ASSUME NEW w, NEW E, Sound(w, E, {}), Ok(w), w.dent[w.cur] # NULL,
         NEW p \in Paths, p \in E, p # << >>, Front(p) = w.dent[w.cur].path,
         NEW v, v = read_dentry(w, p)
  PROVE  Found(w, v, E, p) /\ v.err # "NOTFOUND"
<1> DEFINE u == IF lookup_i_cache(w, p) THEN w ELSE alloc_inode(w, p)
<1>1. v = IF Ok(u) THEN alloc_below(u, p) ELSE u
  BY DEF read_dentry, Then
<1>2. /\ Sound(u, E, {}) /\ SamePlace(w, u) /\ NoneNew(w, u)
      /\ u.err \in {"ok", "FULL", "WILD"} /\ (Ok(u) => u.node[p] # NULL)
  <2>1. CASE w.node[p] # NULL
    <3>1. u = w
      BY <2>1 DEF lookup_i_cache
    <3> QED
      BY <2>1, <3>1 DEF SamePlace, NoneNew, Ok
  <2>2. CASE w.node[p] = NULL
    <3>1. u = alloc_inode(w, p)
      BY <2>2 DEF lookup_i_cache
    <3> HIDE DEF u
    <3> QED
      BY <2>2, <3>1, InodeAllocated
  <2> QED
    BY <2>1, <2>2
<1> HIDE DEF u
<1>3. CASE ~Ok(u)
  <2>1. v = u /\ v.err \in {"FULL", "WILD"} /\ w.cur \in Ids
    BY <1>1, <1>2, <1>3 DEF Ok, Sound, CacheRec
  <2> QED
    BY <1>2, <1>3, <2>1 DEF Found, SamePlace, NoneNew
<1>4. CASE Ok(u)
  <2>1. w.cur \in Ids
    BY DEF Sound, CacheRec
  <2>2. u.cur = w.cur /\ u.left = w.left
        /\ (u.dent[u.cur] # NULL => Front(p) = u.dent[u.cur].path)
    BY <1>2, <2>1 DEF SamePlace, NoneNew
  <2>3. v = alloc_below(u, p)
    BY <1>1, <1>4
  <2>4. Found(u, v, E, p) /\ v.err # "NOTFOUND"
    BY <1>2, <1>4, <2>2, <2>3, BelowAllocated
  <2>5. v.dent[w.cur] # NULL =>
          w.dent[w.cur] # NULL /\ v.dent[w.cur].path = w.dent[w.cur].path
    BY <1>2, <2>1, <2>2, <2>4 DEF Found, NoneNew
  <2> QED
    BY <2>2, <2>4, <2>5 DEF Found
<1> QED
  BY <1>3, <1>4

\* A lookup in the cache, and then on the card.
LEMMA Looked ==
  ASSUME exists \subseteq Paths,
         NEW w, Sound(w, exists, {}), Ok(w), w.dent[w.cur] # NULL,
         NEW p, p # << >>, Front(p) = w.dent[w.cur].path,
         NEW v, v = find(w, p)
  PROVE  Found(w, v, exists, p)
<1>1. w \in CacheRec /\ w.err = "ok" /\ w.cur \in Ids /\ Lists(w)
  BY DEF Sound, CacheRec, Ok
<1>2. CASE lookup_d_cache(w, p) # {}
  <2>1. PICK d : d = CHOOSE x \in lookup_d_cache(w, p) : TRUE
    OBVIOUS
  <2>2. d \in lookup_d_cache(w, p)
    BY <2>1, <1>2
  <2>3. /\ d \in w.hash /\ d \in Ids /\ w.dent[d] # NULL
        /\ w.dent[d].parent = w.cur /\ w.dent[d].path = p
    BY <2>2, <1>1 DEF lookup_d_cache, Lists, Live
  <2>4. v = [w EXCEPT !.new = d]
    BY <1>2, <2>1 DEF find
  <2>5. /\ v \in CacheRec /\ v.new = d /\ v.cur = w.cur /\ v.left = w.left /\ v.err = w.err
        /\ v.dent = w.dent /\ v.lru = w.lru /\ v.hash = w.hash /\ v.size = w.size
        /\ v.node = w.node /\ v.ilru = w.ilru /\ v.isize = w.isize
        /\ v.refused = w.refused
    BY <1>1, <2>3, <2>4 DEF CacheRec
  <2>6. Sound(v, exists, {})
    BY <2>5, Elsewhere
  <2> QED
    BY <1>1, <2>3, <2>5, <2>6 DEF Found
<1>3. CASE lookup_d_cache(w, p) = {}
  <2>1. v = IF p \in exists THEN read_dentry(w, p) ELSE Fail(w, "NOTFOUND")
    BY <1>3 DEF find, real_lookup
  <2>2. CASE p \in exists
    BY <2>1, <2>2, DentryRead DEF Found
  <2>3. CASE p \notin exists
    <3>1. v = Fail(w, "NOTFOUND") /\ "NOTFOUND" \in Errors
      BY <2>1, <2>3 DEF Errors
    <3>2. Sound(v, exists, {}) /\ SamePlace(w, v) /\ v.err = "NOTFOUND" /\ v.dent = w.dent
      BY <3>1, Failed
    <3> QED
      BY <2>3, <3>2 DEF Found, SamePlace, Ok
  <2> QED
    BY <2>2, <2>3
<1> QED
  BY <1>2, <1>3

-----------------------------------------------------------------------------
(* Path lookup.                                                            *)

LEMMA CountedOrWild ==
  ASSUME NEW w, NEW E, Sound(w, E, {}), NEW d \in Ids, NEW k \in Int,
         NEW v, v = d_count(w, d, k)
  PROVE  /\ Sound(v, E, {}) /\ SameTree(w, v)
         /\ v.cur = w.cur /\ v.new = w.new /\ v.left = w.left
         /\ v.err = IF w.dent[d] = NULL THEN "WILD" ELSE w.err
<1>1. CASE w.dent[d] = NULL
  <2>1. v = Fail(w, "WILD") /\ "WILD" \in Errors
    BY <1>1 DEF d_count, Errors
  <2>2. Sound(v, E, {}) /\ SamePlace(w, v) /\ v.err = "WILD" /\ v.dent = w.dent
    BY <2>1, Failed
  <2> QED
    BY <1>1, <2>2 DEF SamePlace, SameTree
<1>2. CASE w.dent[d] # NULL
  BY <1>2, Counted
<1> QED
  BY <1>1, <1>2

\* The walk is at the dentry it found, or wild.
LEMMA SteppedTo ==
  ASSUME NEW w, NEW E, Sound(w, E, {}), Ok(w), w.dent[w.new] # NULL,
         NEW v, v = Stepped(w)
  PROVE  /\ Sound(v, E, {}) /\ v.left = w.left /\ v.err \in {"ok", "WILD"}
         /\ Ok(v) => /\ v.cur = w.new /\ v.dent[v.cur] # NULL
                     /\ v.dent[v.cur].path = w.dent[w.new].path
<1>1. w.err = "ok" /\ w.cur \in Ids /\ w.new \in Ids
  BY DEF Sound, CacheRec, Ok
<1>2. CASE w.dent[w.cur] = NULL
  <2>1. v = Fail(w, "WILD") /\ "WILD" \in Errors
    BY <1>2 DEF Stepped, Errors
  <2>2. Sound(v, E, {}) /\ SamePlace(w, v) /\ v.err = "WILD"
    BY <2>1, Failed
  <2> QED
    BY <2>2 DEF SamePlace, Ok
<1>3. CASE w.dent[w.cur] # NULL
  <2> DEFINE a == d_count(w, w.cur, -1)
             b == d_count(a, w.new, 1)
  <2>1. v = [b EXCEPT !.cur = w.new]
    BY <1>3 DEF Stepped
  <2>2. /\ Sound(a, E, {}) /\ SameTree(w, a)
        /\ a.cur = w.cur /\ a.new = w.new /\ a.left = w.left /\ a.err = "ok"
    BY <1>1, <1>3, CountedOrWild
  <2> HIDE DEF a
  <2>3. a.dent[w.new] # NULL
    BY <1>1, <2>2 DEF SameTree
  <2>4. /\ Sound(b, E, {}) /\ SameTree(a, b) /\ b.left = w.left /\ b.err = "ok"
    BY <1>1, <2>2, <2>3, CountedOrWild
  <2> HIDE DEF b
  <2>5. b \in CacheRec
    BY <2>4 DEF Sound
  <2>6. /\ v \in CacheRec /\ v.cur = w.new /\ v.left = b.left /\ v.err = b.err
        /\ v.dent = b.dent /\ v.lru = b.lru /\ v.hash = b.hash /\ v.size = b.size
        /\ v.node = b.node /\ v.ilru = b.ilru /\ v.isize = b.isize
        /\ v.refused = b.refused
    BY <1>1, <2>1, <2>5 DEF CacheRec
  <2>7. Sound(v, E, {})
    BY <2>4, <2>6, Elsewhere
  <2>8. b.dent[w.new] # NULL /\ b.dent[w.new].path = w.dent[w.new].path
    BY <1>1, <2>2, <2>3, <2>4 DEF SameTree
  <2> QED
    BY <2>4, <2>6, <2>7, <2>8
<1> QED
  BY <1>2, <1>3

\* The name n in a directory.
LEMMA FrontOfAppend ==
  ASSUME NEW X, NEW q \in Seq(X), NEW n \in X
  PROVE  Append(q, n) # << >> /\ Front(Append(q, n)) = q
<1>2. /\ Append(q, n) \in Seq(X) /\ Len(Append(q, n)) = Len(q) + 1
      /\ Len(q) \in Nat /\ \A i \in 1 .. Len(q) : Append(q, n)[i] = q[i]
  OBVIOUS
<1>3. Front(Append(q, n)) = SubSeq(Append(q, n), 1, Len(q))
  BY <1>2 DEF Front
<1>4. SubSeq(Append(q, n), 1, Len(q)) = q
  BY <1>2
<1>5. Len(<< >>) = 0
  OBVIOUS
<1> QED
  BY <1>2, <1>3, <1>4, <1>5

LEMMA Below ==
  ASSUME NEW q \in Paths, NEW n \in STRING
  PROVE  Append(q, n) # << >> /\ Front(Append(q, n)) = q
<1>1. PICK X : X = STRING
  OBVIOUS
<1>2. q \in Seq(X) /\ n \in X
  BY <1>1, VfsAssumption
<1> QED
  BY <1>2, FrontOfAppend

\* Where one component of a path leads.
LEMMA OneComponent ==
  ASSUME exists \subseteq Paths,
         NEW w, Sound(w, exists, {}), Ok(w), w.dent[w.cur] # NULL,
         NEW n \in STRING, NEW v, v = component(w, n)
  PROVE  /\ Sound(v, exists, {}) /\ v.left = w.left
         /\ Ok(v) => v.dent[v.cur] # NULL
         /\ v.err = "NOTFOUND" =>
              /\ v.dent[v.cur] # NULL
              /\ n # ".." => Append(v.dent[v.cur].path, n) \notin exists
<1>1. /\ w \in CacheRec /\ w.err = "ok" /\ w.cur \in Ids /\ w.cur \in Live(w)
      /\ Tree(w, exists) /\ w.dent[w.cur] \in Dentry /\ w.dent[w.cur].path \in Paths
      /\ w.dent[w.cur].parent \in Ids \cup {NULL} /\ Rooted(w, exists, w.cur)
  BY DEF Sound, CacheRec, Ok, Live, Dentry, Tree
<1>2. CASE n = ".."
  <2>1. v = follow_dotdot(w)
    BY <1>2 DEF component
  <2>2. CASE w.cur = Root
    BY <2>1, <2>2, <1>1, <1>2 DEF follow_dotdot
  <2>3. CASE w.cur # Root /\ w.dent[w.cur].parent = NULL
    <3>1. v = Fail(w, "NOTFOUND") /\ "NOTFOUND" \in Errors
      BY <2>1, <2>3 DEF follow_dotdot, Errors
    <3>2. Sound(v, exists, {}) /\ SamePlace(w, v) /\ v.err = "NOTFOUND"
      BY <3>1, Failed
    <3>3. v.dent = w.dent
      BY <3>1, <1>1 DEF Fail, CacheRec
    <3> QED
      BY <3>2, <3>3, <1>2 DEF SamePlace, Ok
  <2>4. CASE w.cur # Root /\ w.dent[w.cur].parent # NULL
    <3> DEFINE up == w.dent[w.cur].parent
               u == [w EXCEPT !.new = up]
    <3>1. v = Stepped(u)
      BY <2>1, <2>4 DEF follow_dotdot
    <3>2. up \in Ids /\ w.dent[up] # NULL
      BY <1>1, <2>4 DEF Rooted
    <3> HIDE DEF up
    <3>3. /\ u \in CacheRec /\ u.new = up /\ u.left = w.left /\ u.err = w.err
          /\ u.dent = w.dent /\ u.lru = w.lru /\ u.hash = w.hash /\ u.size = w.size
          /\ u.node = w.node /\ u.ilru = w.ilru /\ u.isize = w.isize
          /\ u.refused = w.refused
      BY <1>1, <3>2 DEF CacheRec
    <3> HIDE DEF u
    <3>4. Sound(u, exists, {})
      BY <3>3, Elsewhere
    <3>5. Ok(u) /\ u.dent[u.new] # NULL
      BY <1>1, <3>2, <3>3 DEF Ok
    <3>6. /\ Sound(v, exists, {}) /\ v.left = u.left /\ v.err \in {"ok", "WILD"}
          /\ Ok(v) => v.dent[v.cur] # NULL
      BY <3>1, <3>4, <3>5, SteppedTo
    <3> QED
      BY <1>2, <3>3, <3>6
  <2> QED
    BY <2>2, <2>3, <2>4
<1>4. CASE n = "."
  <2>1. v = w
    BY <1>4 DEF component
  <2> QED
    BY <2>1, <1>1
<1>3. CASE n # ".." /\ n # "."
  <2> DEFINE q == w.dent[w.cur].path
             p == Append(q, n)
  <2>1. v = do_lookup(w, n)
    BY <1>3 DEF component
  <2>2. CASE q \notin Dirs
    <3>1. v = Fail(w, "NOT_DIR") /\ "NOT_DIR" \in Errors
      BY <2>1, <2>2 DEF do_lookup, Errors
    <3>2. Sound(v, exists, {}) /\ SamePlace(w, v) /\ v.err = "NOT_DIR"
      BY <3>1, Failed
    <3> QED
      BY <3>2 DEF SamePlace, Ok
  <2>3. CASE q \in Dirs
    <3> DEFINE u == find(w, p)
    <3>1. v = IF Ok(u) THEN Stepped(u) ELSE u
      BY <2>1, <2>3 DEF do_lookup, Then
    <3>2. p # << >> /\ Front(p) = q
      BY <1>1, Below
    <3>3. q = w.dent[w.cur].path /\ p = Append(q, n)
      OBVIOUS
    <3> HIDE DEF q, p
    <3>4. Found(w, u, exists, p)
      BY <3>2, <3>3, Looked
    <3> HIDE DEF u
    <3>5. CASE Ok(u)
      <4>1. Sound(u, exists, {}) /\ u.dent[u.new] # NULL /\ u.left = w.left
        BY <3>4, <3>5 DEF Found
      <4>2. v = Stepped(u)
        BY <3>1, <3>5
      <4>3. /\ Sound(v, exists, {}) /\ v.left = u.left /\ v.err \in {"ok", "WILD"}
            /\ Ok(v) => v.dent[v.cur] # NULL
        BY <3>5, <4>1, <4>2, SteppedTo
      <4> QED
        BY <4>1, <4>3
    <3>6. CASE ~Ok(u)
      <4>1. v = u /\ v.cur = w.cur /\ v.left = w.left /\ Sound(v, exists, {})
        BY <3>1, <3>4, <3>6 DEF Found
      <4>2. v.err = "NOTFOUND" => v.dent = w.dent /\ p \notin exists
        BY <3>4, <4>1 DEF Found
      <4> QED
        BY <3>3, <3>6, <4>1, <4>2
    <3> QED
      BY <3>5, <3>6
  <2> QED
    BY <2>2, <2>3
<1> QED
  BY <1>2, <1>3, <1>4

\* After k components of comps.
Walking(v, comps, k) ==
  /\ Sound(v, exists, {})
  /\ Ok(v) => v.left = Len(comps) - k /\ v.dent[v.cur] # NULL
  /\ v.err = "NOTFOUND" =>
       /\ v.left >= Len(comps) - k
       /\ v.left = 0 =>
            /\ v.dent[v.cur] # NULL
            /\ Last(comps) # ".." => Append(v.dent[v.cur].path, Last(comps)) \notin exists

LEMMA WalkingOn ==
  ASSUME exists \subseteq Paths, NEW comps \in Seq(STRING), NEW k \in 1 .. Len(comps),
         NEW w, Walking(w, comps, k - 1), NEW v, v = link_path_walk(w, comps[k])
  PROVE  Walking(v, comps, k)
<1>1. /\ comps[k] \in STRING /\ k \in Nat /\ Len(comps) \in Nat /\ k <= Len(comps)
      /\ Sound(w, exists, {}) /\ w \in CacheRec /\ w.left \in Int
  BY DEF Walking, Sound, CacheRec
<1>2. CASE ~Ok(w)
  <2>1. v = w
    BY <1>2 DEF link_path_walk
  <2> QED
    BY <1>1, <1>2, <2>1 DEF Walking
<1>3. CASE Ok(w)
  <2> DEFINE n == comps[k]
             u == component(w, n)
  <2>1. w.left = Len(comps) - (k - 1) /\ w.dent[w.cur] # NULL
    BY <1>3 DEF Walking
  <2>2. v = [u EXCEPT !.left = @ - 1]
    BY <1>3 DEF link_path_walk
  <2>3. n = comps[k] /\ n \in STRING
    BY <1>1
  <2> HIDE DEF n
  <2>4. /\ Sound(u, exists, {}) /\ u.left = w.left
        /\ Ok(u) => u.dent[u.cur] # NULL
        /\ u.err = "NOTFOUND" =>
             /\ u.dent[u.cur] # NULL
             /\ n # ".." => Append(u.dent[u.cur].path, n) \notin exists
    BY <1>1, <1>3, <2>1, <2>3, OneComponent
  <2> HIDE DEF u
  <2>5. u \in CacheRec /\ u.left - 1 \in Int
    BY <1>1, <2>4 DEF Sound
  <2>6. /\ v \in CacheRec /\ v.left = u.left - 1 /\ v.cur = u.cur /\ v.err = u.err
        /\ v.dent = u.dent /\ v.lru = u.lru /\ v.hash = u.hash /\ v.size = u.size
        /\ v.node = u.node /\ v.ilru = u.ilru /\ v.isize = u.isize
        /\ v.refused = u.refused
    <3> DEFINE l == u.left - 1
    <3>1. v = [u EXCEPT !.left = l]
      BY <2>2
    <3>2. l \in Int /\ l = u.left - 1
      BY <2>5
    <3> HIDE DEF l
    <3> QED
      BY <2>5, <3>1, <3>2 DEF CacheRec
  <2>7. Sound(v, exists, {})
    BY <2>4, <2>6, Elsewhere
  <2>8. v.left = Len(comps) - k
    BY <1>1, <2>1, <2>4, <2>6
  <2>9. Ok(v) => v.dent[v.cur] # NULL
    BY <2>4, <2>6 DEF Ok
  <2>10. ASSUME v.err = "NOTFOUND", v.left = 0
         PROVE  /\ v.dent[v.cur] # NULL
                /\ Last(comps) # ".." => Append(v.dent[v.cur].path, Last(comps)) \notin exists
    <3>1. k = Len(comps) /\ Last(comps) = n
      BY <1>1, <2>3, <2>8, <2>10 DEF Last
    <3> QED
      BY <2>4, <2>6, <2>10, <3>1
  <2> QED
    BY <1>1, <2>7, <2>8, <2>9, <2>10 DEF Walking
<1> QED
  BY <1>2, <1>3

\* The k-th value of the walk that f describes.
WalkOn(f, k, w, start, comps) ==
  IF k = 0 THEN [d_count(w, start, 1) EXCEPT !.cur = start, !.left = Len(comps)]
  ELSE link_path_walk(f[k - 1], comps[k])

IsWalk(f, n, w, start, comps) == f = [k \in 0 .. n |-> WalkOn(f, k, w, start, comps)]

LEMMA WalkExists ==
  ASSUME NEW n \in Nat, NEW w, NEW start, NEW comps
  PROVE  \E f : IsWalk(f, n, w, start, comps)
<1> USE DEF IsWalk
<1> DEFINE Absent == {i \in Nat : ~ \E f : f = [k \in 0 .. i |-> WalkOn(f, k, w, start, comps)]}
<1> SUFFICES ASSUME Absent # {} PROVE FALSE
  OBVIOUS
<1>1. PICK i \in Absent : \A j \in Absent : i <= j
  BY Least
<1>2. i \in Nat /\ ~ \E f : f = [k \in 0 .. i |-> WalkOn(f, k, w, start, comps)]
  OBVIOUS
<1>3. CASE i = 0
  <2> DEFINE g == << >>
             h == [k \in 0 .. 0 |-> WalkOn(g, 0, w, start, comps)]
  <2>1. WalkOn(h, 0, w, start, comps) = WalkOn(g, 0, w, start, comps)
    BY DEF WalkOn
  <2>2. h = [k \in 0 .. 0 |-> WalkOn(h, k, w, start, comps)]
    BY <2>1
  <2> HIDE DEF h
  <2> QED
    BY <2>2, <1>2, <1>3
<1>4. CASE i # 0
  <2>1. i - 1 \in Nat /\ ~(i <= i - 1)
    BY <1>2, <1>4
  <2>2. PICK f : f = [k \in 0 .. (i - 1) |-> WalkOn(f, k, w, start, comps)]
    BY <2>1, <1>1
  <2> DEFINE h == [k \in 0 .. i |-> IF k = i THEN WalkOn(f, i, w, start, comps) ELSE f[k]]
  <2>4. ASSUME NEW k \in 0 .. i PROVE h[k] = WalkOn(h, k, w, start, comps)
    <3>1. k = 0 \/ (k - 1 \in 0 .. (i - 1) /\ h[k - 1] = f[k - 1])
      BY <1>2, <1>4
    <3>2. WalkOn(h, k, w, start, comps) = WalkOn(f, k, w, start, comps)
      BY <3>1 DEF WalkOn
    <3>3. k # i => f[k] = WalkOn(f, k, w, start, comps)
      <4>1. SUFFICES ASSUME k # i PROVE f[k] = WalkOn(f, k, w, start, comps)
        OBVIOUS
      <4>2. k \in 0 .. (i - 1)
        BY <4>1, <1>2
      <4> QED
        BY <4>2, <2>2
    <3> QED
      BY <3>2, <3>3
  <2>5. h = [k \in 0 .. i |-> WalkOn(h, k, w, start, comps)]
    BY <2>4
  <2> HIDE DEF h
  <2> QED
    BY <2>5, <1>2
<1> QED
  BY <1>3, <1>4

LEMMA WalkIs ==
  ASSUME NEW w, NEW start, NEW comps \in Seq(STRING)
  PROVE  \E f : /\ IsWalk(f, Len(comps), w, start, comps)
                /\ Walked(w, start, comps) = f[Len(comps)]
<1>1. Len(comps) \in Nat
  OBVIOUS
<1>2. \E f : IsWalk(f, Len(comps), w, start, comps)
  BY <1>1, WalkExists
<1>3. Walked(w, start, comps)
        = (CHOOSE f : IsWalk(f, Len(comps), w, start, comps))[Len(comps)]
  BY DEF Walked, WalkOn, IsWalk
<1> QED
  BY <1>2, <1>3

LEMMA WalkedTo ==
  ASSUME exists \subseteq Paths, NEW w, Sound(w, exists, {}), Ok(w),
         NEW start \in Ids, NEW comps \in Seq(STRING), NEW v, v = Walked(w, start, comps)
  PROVE  Walking(v, comps, Len(comps))
<1>1. PICK f : /\ f = [k \in 0 .. Len(comps) |-> WalkOn(f, k, w, start, comps)]
               /\ Walked(w, start, comps) = f[Len(comps)]
  BY WalkIs DEF IsWalk
<1>2. Len(comps) \in Nat /\ w.err = "ok"
  BY DEF Ok
<1>3. Walking(f[0], comps, 0)
  <2> DEFINE a == d_count(w, start, 1)
             l == Len(comps)
  <2>1. /\ Sound(a, exists, {}) /\ SameTree(w, a)
        /\ a.err = IF w.dent[start] = NULL THEN "WILD" ELSE "ok"
    BY <1>2, CountedOrWild
  <2> HIDE DEF a
  <2>2. f[0] = [a EXCEPT !.cur = start, !.left = l]
    <3>1. 0 \in 0 .. Len(comps)
      BY <1>2
    <3>2. f[0] = WalkOn(f, 0, w, start, comps)
      BY <1>1, <3>1
    <3> QED
      BY <3>2 DEF WalkOn, a
  <2>3. a \in CacheRec /\ l \in Int /\ (Ok(a) => a.dent[start] # NULL)
    BY <1>2, <2>1 DEF Sound, SameTree, Ok
  <2>4. l = Len(comps)
    OBVIOUS
  <2> HIDE DEF l
  <2>5. PICK b : b = f[0]
    OBVIOUS
  <2>6. /\ b \in CacheRec /\ b.left = l /\ b.cur = start /\ b.err = a.err
        /\ b.dent = a.dent /\ b.lru = a.lru /\ b.hash = a.hash /\ b.size = a.size
        /\ b.node = a.node /\ b.ilru = a.ilru /\ b.isize = a.isize
        /\ b.refused = a.refused
    BY <2>2, <2>3, <2>5 DEF CacheRec
  <2>7. Sound(b, exists, {})
    BY <2>1, <2>6, Elsewhere
  <2>8. b.left = Len(comps) - 0
    BY <1>2, <2>4, <2>6
  <2> QED
    BY <2>1, <2>3, <2>5, <2>6, <2>7, <2>8 DEF Walking, Ok
<1> DEFINE Bad == {k \in 0 .. Len(comps) : ~Walking(f[k], comps, k)}
<1>4. Bad = {}
  <2> SUFFICES ASSUME Bad # {} PROVE FALSE
    OBVIOUS
  <2>1. Bad \subseteq Nat
    BY <1>2
  <2> HIDE DEF Bad
  <2>2. PICK m \in Bad : \A k \in Bad : m <= k
    BY <2>1, Least
  <2>3. m \in 0 .. Len(comps) /\ ~Walking(f[m], comps, m)
    BY <2>2 DEF Bad
  <2>4. m # 0
    BY <2>3, <1>3
  <2>5. m \in 1 .. Len(comps) /\ m - 1 \in 0 .. Len(comps) /\ ~(m <= m - 1)
    BY <2>3, <2>4, <1>2
  <2>6. Walking(f[m - 1], comps, m - 1)
    BY <2>5, <2>2 DEF Bad
  <2>7. f[m] = WalkOn(f, m, w, start, comps)
    BY <1>1, <2>3
  <2>8. f[m] = link_path_walk(f[m - 1], comps[m])
    BY <2>7, <2>4 DEF WalkOn
  <2>9. PICK x, y : x = f[m - 1] /\ y = f[m]
    OBVIOUS
  <2>10. Walking(x, comps, m - 1) /\ y = link_path_walk(x, comps[m])
    BY <2>6, <2>8, <2>9
  <2>11. Walking(y, comps, m)
    BY <2>5, <2>10, WalkingOn
  <2> QED
    BY <2>3, <2>9, <2>11
<1>5. Walking(f[Len(comps)], comps, Len(comps))
  BY <1>2, <1>4
<1> QED
  BY <1>1, <1>5

-----------------------------------------------------------------------------
(* Creating.                                                               *)

\* The invariant with more files on the card.
LEMMA Widened ==
  ASSUME NEW w, NEW E, NEW D, Sound(w, E, D), NEW F, E \subseteq F
  PROVE  Sound(w, F, D)
BY DEF Sound, Tree, Rooted

\* fs_close of the directory that got the new entry.
LEMMA ParentWritten ==
  ASSUME NEW w, NEW E, Sound(w, E, {}), Ok(w),
         NEW v, v = close_parent(d_count(w, w.cur, 1), w.cur)
  PROVE  /\ Sound(v, E, {}) /\ v.err \in {"ok", "WILD"}
         /\ Ok(v) => v.cur = w.cur /\ v.new = w.new /\ SameTree(w, v)
<1> DEFINE a == d_count(w, w.cur, 1)
<1>1. w.err = "ok" /\ w.cur \in Ids /\ Top(w)
  BY DEF Sound, CacheRec, Ok
<1>2. /\ Sound(a, E, {}) /\ SameTree(w, a) /\ a.cur = w.cur /\ a.new = w.new
      /\ a.err = IF w.dent[w.cur] = NULL THEN "WILD" ELSE w.err
  BY <1>1, CountedOrWild
<1>3. v = close_parent(a, w.cur)
  OBVIOUS
<1> HIDE DEF a
<1>4. CASE w.cur = Root
  <2>1. v = a /\ w.dent[w.cur] # NULL
    BY <1>1, <1>3, <1>4 DEF close_parent, Top
  <2> QED
    BY <1>1, <1>2, <2>1
<1>5. CASE w.cur # Root /\ (a.dent[w.cur] = NULL \/ a.dent[w.cur].parent = NULL)
  <2>1. v = Fail(a, "WILD") /\ "WILD" \in Errors
    BY <1>3, <1>5 DEF close_parent, Errors
  <2>2. Sound(v, E, {}) /\ v.err = "WILD"
    BY <1>2, <2>1, Failed
  <2> QED
    BY <2>2 DEF Ok
<1>6. CASE w.cur # Root /\ a.dent[w.cur] # NULL /\ a.dent[w.cur].parent # NULL
  <2>1. v = d_count(a, w.cur, -1)
    BY <1>3, <1>6 DEF close_parent
  <2>2. /\ Sound(v, E, {}) /\ SameTree(a, v) /\ v.cur = a.cur /\ v.new = a.new
        /\ v.err = a.err
    BY <1>1, <1>2, <1>6, <2>1, CountedOrWild
  <2>3. w.dent[w.cur] # NULL
    BY <1>1, <1>2, <1>6 DEF SameTree
  <2>4. SameTree(w, v)
    BY <1>2, <2>2 DEF SameTree
  <2> QED
    BY <1>1, <1>2, <2>2, <2>3, <2>4
<1> QED
  BY <1>4, <1>5, <1>6

\* A new dentry: it is found, or the call goes wild.
Made(v, E, p) ==
  \/ v.err = "WILD"
  \/ Ok(v) /\ Sound(v, E, {}) /\ v.dent[v.cur] # NULL /\ v.dent[v.cur].path = p

LEMMA Created ==
  ASSUME exists \subseteq Paths, NEW w, Sound(w, exists, {}), w.dent[w.cur] # NULL,
         NEW p \in Paths, p \notin exists, p # << >>, Front(p) = w.dent[w.cur].path,
         NEW v, v = create_dentry(w, p)
  PROVE  Made(v, exists \cup {p}, p)
<1> DEFINE E == exists \cup {p}
           o == [w EXCEPT !.err = "ok"]
           i == alloc_inode(o, p)
           a == IF Ok(i) THEN alloc_below(i, p) ELSE Fail(i, "WILD")
           c == IF Ok(a) THEN close_parent(d_count(a, a.cur, 1), a.cur)
                ELSE Fail(a, "WILD")
           s == Stepped(c)
<1>1. v = IF Ok(c) THEN d_count(s, s.cur, -1) ELSE c
  BY DEF create_dentry, OrWild, Then
<1>2. /\ w \in CacheRec /\ Tree(w, exists) /\ w.cur \in Ids /\ "ok" \in Errors
      /\ "WILD" \in Errors /\ p \in E
  BY DEF Sound, CacheRec, Errors
<1>3. o = Fail(w, "ok")
  BY DEF Fail
<1>4. Sound(o, exists, {}) /\ SamePlace(w, o) /\ o.err = "ok" /\ o.dent = w.dent
      /\ o.node = w.node
  BY <1>2, <1>3, Failed
<1> HIDE DEF o
<1>5. Sound(o, E, {})
  BY <1>4, Widened
<1> HIDE DEF E
<1>6. o.node[p] = NULL
  BY <1>2, <1>4 DEF Tree
<1>7. Ok(o)
  BY <1>4 DEF Ok
<1>8. /\ Sound(i, E, {}) /\ SamePlace(o, i) /\ NoneNew(o, i)
      /\ i.err \in {"ok", "FULL", "WILD"} /\ (Ok(i) => i.node[p] # NULL)
  BY <1>2, <1>5, <1>6, <1>7, InodeAllocated
<1> HIDE DEF i
<1>9. /\ Ok(a) => Sound(a, E, {}) /\ a.dent[a.new] # NULL /\ a.dent[a.new].path = p
  <2>1. CASE Ok(i)
    <3>1. i.cur = w.cur
      BY <1>4, <1>8 DEF SamePlace
    <3>2. i.dent[i.cur] # NULL => Front(p) = i.dent[i.cur].path
      BY <1>2, <1>4, <1>8, <3>1 DEF NoneNew
    <3>3. a = alloc_below(i, p)
      BY <2>1
    <3> HIDE DEF a
    <3>4. Found(i, a, E, p)
      BY <1>2, <1>8, <2>1, <3>2, <3>3, BelowAllocated
    <3> QED
      BY <3>4 DEF Found
  <2>2. CASE ~Ok(i)
    <3>1. a = Fail(i, "WILD")
      BY <2>2
    <3> HIDE DEF a
    <3>2. a.err = "WILD"
      BY <1>2, <1>8, <3>1, Failed
    <3> QED
      BY <3>2 DEF Ok
  <2> QED
    BY <2>1, <2>2
<1>10. a \in CacheRec
  <2>1. CASE Ok(i)
    <3>1. i.cur = w.cur
      BY <1>4, <1>8 DEF SamePlace
    <3>2. i.dent[i.cur] # NULL => Front(p) = i.dent[i.cur].path
      BY <1>2, <1>4, <1>8, <3>1 DEF NoneNew
    <3>3. a = alloc_below(i, p)
      BY <2>1
    <3> HIDE DEF a
    <3>4. Found(i, a, E, p)
      BY <1>2, <1>8, <2>1, <3>2, <3>3, BelowAllocated
    <3> QED
      BY <3>4 DEF Found, Sound
  <2>2. CASE ~Ok(i)
    <3>1. a = Fail(i, "WILD")
      BY <2>2
    <3> HIDE DEF a
    <3>2. Sound(a, E, {})
      BY <1>2, <1>8, <3>1, Failed
    <3> QED
      BY <3>2 DEF Sound
  <2> QED
    BY <2>1, <2>2
<1> HIDE DEF a
<1>11. CASE ~Ok(a)
  <2>1. c = Fail(a, "WILD")
    BY <1>11
  <2>2. c.err = "WILD"
    BY <2>1, <1>10 DEF Fail, CacheRec
  <2> QED
    BY <1>1, <2>2 DEF Made, Ok
<1>12. CASE Ok(a)
  <2>1. c = close_parent(d_count(a, a.cur, 1), a.cur)
    BY <1>12
  <2> HIDE DEF c
  <2>2. /\ Sound(c, E, {}) /\ c.err \in {"ok", "WILD"}
        /\ Ok(c) => c.cur = a.cur /\ c.new = a.new /\ SameTree(a, c)
    BY <1>9, <1>12, <2>1, ParentWritten
  <2>3. CASE ~Ok(c)
    BY <1>1, <2>2, <2>3 DEF Made, Ok
  <2>4. CASE Ok(c)
    <3>1. a.new \in Ids
      BY <1>9, <1>12 DEF Sound, CacheRec
    <3>2. c.new = a.new /\ c.dent[c.new] # NULL /\ c.dent[c.new].path = p
      BY <1>9, <1>12, <2>2, <2>4, <3>1 DEF SameTree
    <3>3. /\ Sound(s, E, {}) /\ s.err \in {"ok", "WILD"}
          /\ Ok(s) => /\ s.cur = c.new /\ s.dent[s.cur] # NULL
                      /\ s.dent[s.cur].path = c.dent[c.new].path
      BY <2>2, <2>4, <3>2, SteppedTo
    <3> HIDE DEF s
    <3>4. v = d_count(s, s.cur, -1) /\ s.cur \in Ids
      BY <1>1, <2>4, <3>3 DEF Sound, CacheRec
    <3>5. /\ Sound(v, E, {}) /\ SameTree(s, v) /\ v.cur = s.cur
          /\ v.err = IF s.dent[s.cur] = NULL THEN "WILD" ELSE s.err
      BY <3>3, <3>4, CountedOrWild
    <3>6. CASE Ok(s)
      BY <3>2, <3>3, <3>4, <3>5, <3>6 DEF Made, SameTree, Ok, E
    <3>7. CASE ~Ok(s)
      BY <3>3, <3>5, <3>7 DEF Made, Ok
    <3> QED
      BY <3>6, <3>7
  <2> QED
    BY <2>3, <2>4
<1> QED
  BY <1>11, <1>12

\* A lookup from start: it ends wild, or with an error, or at a dentry whose
\* path was on the card or is new there, below a directory that is.
LEMMA PathLookedUp ==
  ASSUME exists \subseteq Paths, NEW comps \in Seq(STRING), NEW create,
         NEW w, Walking(w, comps, Len(comps)), NEW start \in Ids,
         Missing(w, comps, create) => NewPath(w, comps) \in Paths,
         NEW v, v = path_lookup(w, start, comps, create)
  PROVE  \/ v.err = "WILD"
         \/ ~Ok(v) /\ Sound(v, exists, {})
         \/ /\ Ok(v) /\ v.cur \in Ids /\ v.dent[v.cur] # NULL
            /\ v.dent[v.cur].path \in Paths
            /\ Sound(v, exists \cup {v.dent[v.cur].path}, {})
            /\ v.dent[v.cur].path \notin exists => Front(v.dent[v.cur].path) \in exists
<1>1. Sound(w, exists, {}) /\ Len(comps) \in Nat
  BY DEF Walking
<1>2. CASE Missing(w, comps, create)
  <2> DEFINE p == NewPath(w, comps)
  <2>1. w.err = "NOTFOUND" /\ w.left = 0
    BY <1>2 DEF Missing
  <2>2. w.dent[w.cur] # NULL /\ (Last(comps) # ".." => p \notin exists)
    BY <2>1 DEF Walking, NewPath
  <2>3. p \in Paths /\ v = create_dentry(w, p)
    BY <1>2 DEF path_lookup
  <2>4. w.cur \in Live(w) /\ w.dent[w.cur].path \in exists /\ w.dent[w.cur].path \in Paths
    BY <1>1, <2>2 DEF Sound, CacheRec, Live, Tree, Rooted
  <2>5. p # << >> /\ Front(p) = w.dent[w.cur].path /\ Last(comps) # ".."
    <3>1. PICK q, n : q = w.dent[w.cur].path /\ n = Last(comps)
      OBVIOUS
    <3>2. PICK X : X = STRING
      OBVIOUS
    <3>3. q \in Seq(X) /\ p = Append(q, n) /\ p \in Seq(X)
      BY <2>3, <2>4, <3>1, <3>2, VfsAssumption DEF NewPath
    <3>4. Len(q) + 1 \in 1 .. Len(p) /\ p[Len(q) + 1] = n
      BY <3>3
    <3>5. n \in X
      BY <3>3, <3>4
    <3>6. n \in Range(p)
      <4>1. DOMAIN p = 1 .. Len(p)
        BY <3>3
      <4> QED
        BY <3>4, <4>1 DEF Range
    <3>7. n # ".."
      BY <2>3, <3>6, NamesAssumption
    <3> QED
      BY <3>1, <3>3, <3>5, <3>7, FrontOfAppend
  <2> HIDE DEF p
  <2>6. Made(v, exists \cup {p}, p)
    BY <1>1, <2>2, <2>3, <2>5, Created
  <2>7. CASE v.err # "WILD"
    <3>1. /\ Ok(v) /\ Sound(v, exists \cup {p}, {})
          /\ v.dent[v.cur] # NULL /\ v.dent[v.cur].path = p
      BY <2>6, <2>7 DEF Made
    <3>2. v.cur \in Ids
      BY <3>1 DEF Sound, CacheRec
    <3> QED
      BY <2>3, <2>4, <2>5, <3>1, <3>2
  <2> QED
    BY <2>7
<1>3. CASE ~Missing(w, comps, create) /\ w.err = "WILD"
  BY <1>3 DEF path_lookup
<1>4. CASE ~Missing(w, comps, create) /\ w.err # "WILD"
  <2>1. v = d_count(w, start, -1)
    BY <1>4 DEF path_lookup
  <2>2. /\ Sound(v, exists, {}) /\ SameTree(w, v) /\ v.cur = w.cur
        /\ v.err = IF w.dent[start] = NULL THEN "WILD" ELSE w.err
    BY <1>1, <2>1, CountedOrWild
  <2>3. CASE Ok(v)
    <3>1. Ok(w) /\ w.dent[w.cur] # NULL
      BY <2>2, <2>3 DEF Ok, Walking
    <3>2. w.cur \in Ids
      BY <1>1 DEF Sound, CacheRec
    <3>3. v.dent[v.cur] # NULL /\ v.cur \in Live(v) /\ v.cur \in Ids
      BY <2>2, <3>1, <3>2 DEF SameTree, Live
    <3>4. v.dent[v.cur].path \in exists
      BY <2>2, <3>3 DEF Sound, Tree, Rooted
    <3>5. exists \cup {v.dent[v.cur].path} = exists
      BY <3>4
    <3> QED
      BY <2>2, <2>3, <3>3, <3>4, <3>5
  <2> QED
    BY <2>2, <2>3
<1> QED
  BY <1>2, <1>3, <1>4

-----------------------------------------------------------------------------
(* Listing a directory.                                                    *)

WithPin(w, d, b) ==
  [w EXCEPT !.dent[d].pinned = b, !.node[w.dent[d].path].pinned = b]

\* A dentry and its inode are pinned, or given back.
LEMMA Pinned ==
  ASSUME NEW w, NEW E, Sound(w, E, {}), NEW d \in Ids, w.dent[d] # NULL,
         NEW b, b \in BOOLEAN, b = TRUE \/ w.dent[d].path # << >>,
         NEW v, v = WithPin(w, d, b)
  PROVE  /\ Sound(v, E, {}) /\ SameTree(w, v)
         /\ v.cur = w.cur /\ v.new = w.new /\ v.left = w.left /\ v.err = w.err
<1>0. PICK p : p = w.dent[d].path
  OBVIOUS
<1>1. /\ w \in CacheRec /\ Top(w) /\ Tree(w, E)
      /\ w.dent \in [Ids -> Dentry \cup {NULL}] /\ w.node \in [Paths -> Inode \cup {NULL}]
  BY DEF Sound, CacheRec
<1>2. w.dent[d] \in Dentry /\ p \in Paths /\ w.node[p] \in Inode
  <2>1. w.dent[d] \in Dentry
    BY <1>1
  <2>2. p \in Paths
    BY <1>0, <2>1 DEF Dentry
  <2>3. d \in Live(w)
    BY DEF Live
  <2>4. w.node[p] # NULL
    BY <1>0, <1>1, <2>3 DEF Tree, Rooted
  <2> QED
    BY <1>1, <2>1, <2>2, <2>4
<1> DEFINE x == [w.dent[d] EXCEPT !.pinned = b]
           y == [w.node[p] EXCEPT !.pinned = b]
<1>3. /\ x \in Dentry /\ x.path = w.dent[d].path /\ x.parent = w.dent[d].parent
      /\ x.pinned = b /\ x # NULL
  BY <1>2, NothingAssumption DEF Dentry
<1>4. y \in Inode /\ y.pinned = b /\ y # NULL
  BY <1>2, NothingAssumption DEF Inode
<1> HIDE DEF x, y
<1> DEFINE t == [w.dent EXCEPT ![d] = x]
           n == [w.node EXCEPT ![p] = y]
<1>5. /\ t \in [Ids -> Dentry \cup {NULL}] /\ t[d] = x /\ \A e \in Ids \ {d} : t[e] = w.dent[e]
      /\ n \in [Paths -> Inode \cup {NULL}] /\ n[p] = y
      /\ \A q \in Paths \ {p} : n[q] = w.node[q]
  BY <1>1, <1>2, <1>3, <1>4
<1>6. v = [w EXCEPT !.dent = t, !.node = n]
  BY <1>0, <1>1 DEF CacheRec, x, y, WithPin
<1> HIDE DEF t, n
<1>7. /\ v \in CacheRec /\ v.dent = t /\ v.node = n /\ v.lru = w.lru
      /\ v.hash = w.hash /\ v.size = w.size /\ v.ilru = w.ilru
      /\ v.isize = w.isize /\ v.refused = w.refused
      /\ v.cur = w.cur /\ v.new = w.new /\ v.left = w.left /\ v.err = w.err
  BY <1>1, <1>5, <1>6 DEF CacheRec
<1>8. SameTree(w, v)
  BY <1>3, <1>5, <1>7 DEF SameTree
<1>9. \A q \in Paths : v.node[q] = NULL <=> w.node[q] = NULL
  BY <1>2, <1>4, <1>5, <1>7, NothingAssumption DEF Inode
<1>10. v.dent[Root].pinned
  <2>1. CASE d = Root
    <3>1. p = << >>
      BY <1>0, <1>1, <2>1 DEF Top
    <3> QED
      BY <1>0, <3>1, <2>1, <1>3, <1>5, <1>7
  <2>2. CASE d # Root
    BY <1>1, <1>5, <1>7, <2>2, VfsAssumption DEF Top
  <2> QED
    BY <2>1, <2>2
<1>11. v.node[<< >>].pinned
  <2>1. CASE p = << >>
    BY <1>0, <2>1, <1>4, <1>5, <1>7
  <2>2. CASE p # << >>
    BY <1>1, <1>5, <1>7, <2>2, VfsAssumption DEF Top
  <2> QED
    BY <2>1, <2>2
<1> QED
  BY <1>7, <1>8, <1>9, <1>10, <1>11, Retouched

\* The children of d that a listing goes through, and gives back.
LEMMA ListOf ==
  ASSUME NEW S, IsFiniteSet(S)
  PROVE  /\ SetToSeq(S) \in Seq(S) /\ Len(SetToSeq(S)) \in Nat
         /\ \A k \in 1 .. Len(SetToSeq(S)) : SetToSeq(S)[k] \in S
         /\ S # {} => Len(SetToSeq(S)) > 0
<1> DEFINE n == Cardinality(S)
<1>1. n \in Nat /\ ExistsBijection(1 .. n, S)
  BY FS_CardinalityType
<1>2. n = 0 <=> S = {}
  BY FS_EmptySet
<1> HIDE DEF n
<1>3. PICK g \in Bijection(1 .. n, S) : TRUE
  BY <1>1 DEF ExistsBijection
<1>4. g \in [1 .. n -> S] /\ IsInjective(g)
  BY <1>3 DEF Bijection, Injection, IsInjective
<1>5. \E f \in [1 .. n -> S] : IsInjective(f)
  BY <1>4
<1>6. SetToSeq(S) \in [1 .. n -> S]
  BY <1>5 DEF SetToSeq, n
<1>7. PICK s : s = SetToSeq(S)
  OBVIOUS
<1>8. s \in [1 .. n -> S]
  BY <1>6, <1>7
<1>9. s \in Seq(S) /\ Len(s) = n
  BY <1>1, <1>8
<1> QED
  BY <1>1, <1>2, <1>7, <1>8, <1>9

\* Where listing d, from w, has got to; after a child, d has children.
Listed(w, v, d, k) ==
  /\ Sound(v, exists, {})
  /\ Ok(v) => /\ v.dent[d] # NULL /\ v.dent[d].path = w.dent[d].path
              /\ k > 0 => Subdirs(v, d) # {}

LEMMA ChildListed ==
  ASSUME exists \subseteq Paths, NEW w, Sound(w, exists, {}), Ok(w),
         NEW d \in Ids, w.dent[d] # NULL,
         NEW p \in exists, p # << >>, Front(p) = w.dent[d].path,
         NEW v, v = list_child(w, d, p)
  PROVE  Listed(w, v, d, 1)
<1> DEFINE c == [w EXCEPT !.cur = d]
           f == find(c, p)
           u == WithPin(f, f.new, TRUE)
<1>1. v = IF ~Ok(f) THEN Fail(f, "WILD")
          ELSE IF f.dent[d] = NULL THEN Fail(f, "WILD")
          ELSE d_count([f EXCEPT !.dent[f.new].pinned = TRUE, !.node[p].pinned = TRUE],
                       f.new, 1)
  BY DEF list_child, OrWild
<1>2. w \in CacheRec /\ w.err = "ok" /\ "WILD" \in Errors
  BY DEF Sound, Ok, Errors
<1>3. /\ c \in CacheRec /\ c.cur = d /\ c.err = w.err
      /\ c.dent = w.dent /\ c.lru = w.lru /\ c.hash = w.hash /\ c.size = w.size
      /\ c.node = w.node /\ c.ilru = w.ilru /\ c.isize = w.isize
      /\ c.refused = w.refused
  BY <1>2 DEF CacheRec
<1> HIDE DEF c
<1>4. Sound(c, exists, {}) /\ Ok(c)
  BY <1>2, <1>3, Elsewhere DEF Ok
<1>5. Found(c, f, exists, p)
  BY <1>3, <1>4, Looked
<1> HIDE DEF f
<1>6. Sound(f, exists, {})
  BY <1>5 DEF Found
<1>7. CASE ~Ok(f) \/ f.dent[d] = NULL
  <2>1. v = Fail(f, "WILD")
    BY <1>1, <1>7
  <2>2. Sound(v, exists, {}) /\ v.err = "WILD"
    BY <1>2, <1>6, <2>1, Failed
  <2> QED
    BY <2>2 DEF Listed, Ok
<1>8. CASE Ok(f) /\ f.dent[d] # NULL
  <2>1. f.err = "ok"
    BY <1>8 DEF Ok
  <2>2. /\ f.dent[f.new] # NULL /\ f.dent[f.new].path = p /\ f.dent[f.new].parent = d
        /\ f.dent[d].path = w.dent[d].path /\ f.new \in Ids
    BY <1>3, <1>5, <1>6, <1>8 DEF Found, Sound, CacheRec
  <2>9. v = d_count(u, f.new, 1)
    <3>1. p = f.dent[f.new].path
      BY <2>2
    <3>2. v = d_count([f EXCEPT !.dent[f.new].pinned = TRUE, !.node[p].pinned = TRUE],
                      f.new, 1)
      BY <1>1, <1>8
    <3> QED
      BY <3>1, <3>2 DEF WithPin
  <2>3. Sound(u, exists, {}) /\ SameTree(f, u) /\ u.err = f.err
    <3>1. PICK x : x = f.new
      OBVIOUS
    <3>2. u = WithPin(f, x, TRUE)
      BY <3>1 DEF u
    <3>3. x \in Ids /\ f.dent[x] # NULL
      BY <2>2, <3>1
    <3> HIDE DEF u
    <3> QED
      BY <1>6, <3>2, <3>3, Pinned, ZenonT(60)
  <2> HIDE DEF u
  <2>4. u.dent[f.new] # NULL
    BY <2>2, <2>3 DEF SameTree
  <2>5. /\ Sound(v, exists, {}) /\ SameTree(u, v)
        /\ v.err = IF u.dent[f.new] = NULL THEN "WILD" ELSE u.err
    BY <2>9, <2>2, <2>3, CountedOrWild
  <2>6. /\ v.dent[d] # NULL /\ v.dent[d].path = w.dent[d].path
        /\ v.dent[f.new] # NULL /\ v.dent[f.new].path = p /\ v.dent[f.new].parent = d
    BY <1>8, <2>1, <2>2, <2>3, <2>5 DEF SameTree
  <2>7. f.new # Root
    BY <2>5, <2>6 DEF Sound, Top
  <2>8. f.new \in Subdirs(v, d)
    BY <2>2, <2>6, <2>7 DEF Subdirs, Live
  <2> QED
    BY <2>5, <2>6, <2>8 DEF Listed
<1> QED
  BY <1>7, <1>8

\* The k-th value of the listing of d, which goes on from the one before.
ListOn(f, k, w, d, children) ==
  IF k = 0 THEN w
  ELSE IF Ok(f[k - 1]) THEN list_child(f[k - 1], d, children[k]) ELSE f[k - 1]

IsList(f, n, w, d, children) == f = [k \in 0 .. n |-> ListOn(f, k, w, d, children)]

LEMMA ListExists ==
  ASSUME NEW n \in Nat, NEW w, NEW d, NEW children
  PROVE  \E f : IsList(f, n, w, d, children)
<1> USE DEF IsList
<1> DEFINE Absent == {i \in Nat : ~ \E f : f = [k \in 0 .. i |-> ListOn(f, k, w, d, children)]}
<1> SUFFICES ASSUME Absent # {} PROVE FALSE
  OBVIOUS
<1>1. PICK i \in Absent : \A j \in Absent : i <= j
  BY Least
<1>2. i \in Nat /\ ~ \E f : f = [k \in 0 .. i |-> ListOn(f, k, w, d, children)]
  OBVIOUS
<1>3. CASE i = 0
  <2> DEFINE g == << >>
             h == [k \in 0 .. 0 |-> ListOn(g, 0, w, d, children)]
  <2>1. ListOn(h, 0, w, d, children) = ListOn(g, 0, w, d, children)
    BY DEF ListOn
  <2>2. h = [k \in 0 .. 0 |-> ListOn(h, k, w, d, children)]
    BY <2>1
  <2> HIDE DEF h
  <2> QED
    BY <2>2, <1>2, <1>3
<1>4. CASE i # 0
  <2>1. i - 1 \in Nat /\ ~(i <= i - 1)
    BY <1>2, <1>4
  <2>2. PICK f : f = [k \in 0 .. (i - 1) |-> ListOn(f, k, w, d, children)]
    BY <2>1, <1>1
  <2> DEFINE h == [k \in 0 .. i |-> IF k = i THEN ListOn(f, i, w, d, children) ELSE f[k]]
  <2>4. ASSUME NEW k \in 0 .. i PROVE h[k] = ListOn(h, k, w, d, children)
    <3>1. k = 0 \/ (k - 1 \in 0 .. (i - 1) /\ h[k - 1] = f[k - 1])
      BY <1>2, <1>4
    <3>2. ListOn(h, k, w, d, children) = ListOn(f, k, w, d, children)
      BY <3>1 DEF ListOn
    <3>3. k # i => f[k] = ListOn(f, k, w, d, children)
      <4>1. SUFFICES ASSUME k # i PROVE f[k] = ListOn(f, k, w, d, children)
        OBVIOUS
      <4>2. k \in 0 .. (i - 1)
        BY <4>1, <1>2
      <4> QED
        BY <4>2, <2>2
    <3> QED
      BY <3>2, <3>3
  <2>5. h = [k \in 0 .. i |-> ListOn(h, k, w, d, children)]
    BY <2>4
  <2> HIDE DEF h
  <2> QED
    BY <2>5, <1>2
<1> QED
  BY <1>3, <1>4

\* The children of d on the card.
OnCard(w, d) == {p \in exists \ {<< >>} : Front(p) = w.dent[d].path}

LEMMA ListIs ==
  ASSUME exists \subseteq Paths, NEW w, NEW d
  PROVE  \E s, f :
           /\ s \in Seq(OnCard(w, d)) /\ Len(s) \in Nat
           /\ \A k \in 1 .. Len(s) : s[k] \in OnCard(w, d)
           /\ OnCard(w, d) # {} => Len(s) > 0
           /\ IsList(f, Len(s), w, d, s) /\ list_dir(w, d) = f[Len(s)]
<1>1. IsFiniteSet(OnCard(w, d))
  <2>1. OnCard(w, d) \in SUBSET Paths
    BY DEF OnCard
  <2> QED
    BY <2>1, VfsAssumption, FS_Subset
<1>2. PICK s : s = SetToSeq(OnCard(w, d))
  OBVIOUS
<1>3. /\ s \in Seq(OnCard(w, d)) /\ Len(s) \in Nat
      /\ \A k \in 1 .. Len(s) : s[k] \in OnCard(w, d)
      /\ OnCard(w, d) # {} => Len(s) > 0
  BY <1>1, <1>2, ListOf
<1>4. \E f : IsList(f, Len(s), w, d, s)
  BY <1>3, ListExists
<1>5. list_dir(w, d) = (CHOOSE f : IsList(f, Len(s), w, d, s))[Len(s)]
  BY <1>2 DEF list_dir, ListOn, IsList, Then, OnCard
<1> QED
  BY <1>3, <1>4, <1>5

\* After a listing that succeeded, a directory that has children on the card
\* has children in memory.
LEMMA DirListed ==
  ASSUME exists \subseteq Paths, NEW w, Sound(w, exists, {}), Ok(w),
         NEW d \in Ids, w.dent[d] # NULL, NEW v, v = list_dir(w, d)
  PROVE  /\ Sound(v, exists, {})
         /\ Ok(v) => /\ v.dent[d] # NULL /\ v.dent[d].path = w.dent[d].path
                     /\ OnCard(w, d) # {} => Subdirs(v, d) # {}
<1>1. PICK s, f :
           /\ s \in Seq(OnCard(w, d)) /\ Len(s) \in Nat
           /\ \A k \in 1 .. Len(s) : s[k] \in OnCard(w, d)
           /\ OnCard(w, d) # {} => Len(s) > 0
           /\ f = [k \in 0 .. Len(s) |-> ListOn(f, k, w, d, s)] /\ v = f[Len(s)]
  BY ListIs DEF IsList
<1>2. Listed(w, f[0], d, 0)
  <2>1. 0 \in 0 .. Len(s)
    BY <1>1
  <2>2. f[0] = ListOn(f, 0, w, d, s)
    BY <1>1, <2>1
  <2>3. f[0] = w
    BY <2>2 DEF ListOn
  <2> QED
    BY <2>3 DEF Listed
<1> DEFINE Bad == {k \in 0 .. Len(s) : ~Listed(w, f[k], d, k)}
<1>3. Bad = {}
  <2> SUFFICES ASSUME Bad # {} PROVE FALSE
    OBVIOUS
  <2>1. Bad \subseteq Nat
    BY <1>1
  <2> HIDE DEF Bad
  <2>2. PICK m \in Bad : \A k \in Bad : m <= k
    BY <2>1, Least
  <2>3. m \in 0 .. Len(s) /\ ~Listed(w, f[m], d, m)
    BY <2>2 DEF Bad
  <2>4. m # 0
    BY <2>3, <1>2
  <2>5. m \in 1 .. Len(s) /\ m - 1 \in 0 .. Len(s) /\ ~(m <= m - 1) /\ m > 0
    BY <2>3, <2>4, <1>1
  <2>6. Listed(w, f[m - 1], d, m - 1)
    BY <2>5, <2>2 DEF Bad
  <2>7. f[m] = ListOn(f, m, w, d, s)
    BY <1>1, <2>3
  <2>8. f[m] = IF Ok(f[m - 1]) THEN list_child(f[m - 1], d, s[m]) ELSE f[m - 1]
    BY <2>7, <2>4 DEF ListOn
  <2>9. PICK x, y, p : x = f[m - 1] /\ y = f[m] /\ p = s[m]
    OBVIOUS
  <2>10. Listed(w, x, d, m - 1) /\ y = IF Ok(x) THEN list_child(x, d, p) ELSE x
    BY <2>6, <2>8, <2>9
  <2>11. p \in exists /\ p # << >> /\ Front(p) = w.dent[d].path
    BY <2>5, <2>9, <1>1 DEF OnCard
  <2>12. CASE Ok(x)
    <3>1. Sound(x, exists, {}) /\ x.dent[d] # NULL /\ x.dent[d].path = w.dent[d].path
      BY <2>10, <2>12 DEF Listed
    <3>2. y = list_child(x, d, p)
      BY <2>10, <2>12
    <3>3. Listed(x, y, d, 1)
      BY <2>11, <2>12, <3>1, <3>2, ChildListed
    <3>4. Listed(w, y, d, m)
      BY <3>1, <3>3 DEF Listed
    <3> QED
      BY <2>3, <2>9, <3>4
  <2>13. CASE ~Ok(x)
    <3>1. Listed(w, y, d, m)
      BY <2>10, <2>13 DEF Listed
    <3> QED
      BY <2>3, <2>9, <3>1
  <2> QED
    BY <2>12, <2>13
<1>4. Listed(w, f[Len(s)], d, Len(s))
  BY <1>1, <1>3
<1> QED
  BY <1>1, <1>4 DEF Listed

\* The k-th value when the children are given back.
UnlistOn(f, k, w, children) == IF k = 0 THEN w ELSE unlist_child(f[k - 1], children[k])

IsUnlist(f, n, w, children) == f = [k \in 0 .. n |-> UnlistOn(f, k, w, children)]

LEMMA UnlistExists ==
  ASSUME NEW n \in Nat, NEW w, NEW children
  PROVE  \E f : IsUnlist(f, n, w, children)
<1> USE DEF IsUnlist
<1> DEFINE Absent == {i \in Nat : ~ \E f : f = [k \in 0 .. i |-> UnlistOn(f, k, w, children)]}
<1> SUFFICES ASSUME Absent # {} PROVE FALSE
  OBVIOUS
<1>1. PICK i \in Absent : \A j \in Absent : i <= j
  BY Least
<1>2. i \in Nat /\ ~ \E f : f = [k \in 0 .. i |-> UnlistOn(f, k, w, children)]
  OBVIOUS
<1>3. CASE i = 0
  <2> DEFINE g == << >>
             h == [k \in 0 .. 0 |-> UnlistOn(g, 0, w, children)]
  <2>1. UnlistOn(h, 0, w, children) = UnlistOn(g, 0, w, children)
    BY DEF UnlistOn
  <2>2. h = [k \in 0 .. 0 |-> UnlistOn(h, k, w, children)]
    BY <2>1
  <2> HIDE DEF h
  <2> QED
    BY <2>2, <1>2, <1>3
<1>4. CASE i # 0
  <2>1. i - 1 \in Nat /\ ~(i <= i - 1)
    BY <1>2, <1>4
  <2>2. PICK f : f = [k \in 0 .. (i - 1) |-> UnlistOn(f, k, w, children)]
    BY <2>1, <1>1
  <2> DEFINE h == [k \in 0 .. i |-> IF k = i THEN UnlistOn(f, i, w, children) ELSE f[k]]
  <2>4. ASSUME NEW k \in 0 .. i PROVE h[k] = UnlistOn(h, k, w, children)
    <3>1. k = 0 \/ (k - 1 \in 0 .. (i - 1) /\ h[k - 1] = f[k - 1])
      BY <1>2, <1>4
    <3>2. UnlistOn(h, k, w, children) = UnlistOn(f, k, w, children)
      BY <3>1 DEF UnlistOn
    <3>3. k # i => f[k] = UnlistOn(f, k, w, children)
      <4>1. SUFFICES ASSUME k # i PROVE f[k] = UnlistOn(f, k, w, children)
        OBVIOUS
      <4>2. k \in 0 .. (i - 1)
        BY <4>1, <1>2
      <4> QED
        BY <4>2, <2>2
    <3> QED
      BY <3>2, <3>3
  <2>5. h = [k \in 0 .. i |-> UnlistOn(h, k, w, children)]
    BY <2>4
  <2> HIDE DEF h
  <2> QED
    BY <2>5, <1>2
<1> QED
  BY <1>3, <1>4

LEMMA UnlistIs ==
  ASSUME NEW w, NEW d
  PROVE  \E s, f :
           /\ s \in Seq(Subdirs(w, d)) /\ Len(s) \in Nat
           /\ \A k \in 1 .. Len(s) : s[k] \in Subdirs(w, d)
           /\ IsUnlist(f, Len(s), w, s) /\ unlist_dir(w, d) = f[Len(s)]
<1>1. IsFiniteSet(Subdirs(w, d))
  <2>1. Subdirs(w, d) \in SUBSET Ids
    BY DEF Subdirs, Live
  <2> QED
    BY <2>1, VfsAssumption, FS_Subset
<1>2. PICK s : s = SetToSeq(Subdirs(w, d))
  OBVIOUS
<1>3. /\ s \in Seq(Subdirs(w, d)) /\ Len(s) \in Nat
      /\ \A k \in 1 .. Len(s) : s[k] \in Subdirs(w, d)
  BY <1>1, <1>2, ListOf
<1>4. \E f : IsUnlist(f, Len(s), w, s)
  BY <1>3, UnlistExists
<1>5. unlist_dir(w, d) = (CHOOSE f : IsUnlist(f, Len(s), w, s))[Len(s)]
  BY <1>2 DEF unlist_dir, UnlistOn, IsUnlist
<1> QED
  BY <1>3, <1>4, <1>5

LEMMA ChildUnlisted ==
  ASSUME NEW w, NEW E, Sound(w, E, {}), NEW e \in Ids, w.dent[e] # NULL, e # Root,
         NEW v, v = unlist_child(w, e)
  PROVE  Sound(v, E, {}) /\ SameTree(w, v)
<1>1. w.dent[e].path # << >>
  <2>1. e \in Live(w) /\ Tree(w, E)
    BY DEF Live, Sound
  <2> QED
    BY <2>1 DEF Tree, Rooted
<1> DEFINE u == WithPin(w, e, FALSE)
<1>2. v = d_count(u, e, -1)
  BY DEF unlist_child, WithPin
<1>3. u = WithPin(w, e, FALSE)
  OBVIOUS
<1> HIDE DEF u
<1>4. Sound(u, E, {}) /\ SameTree(w, u)
  BY <1>1, <1>3, Pinned, ZenonT(60)
<1>5. u.dent[e] # NULL /\ -1 \in Int
  BY <1>4 DEF SameTree
<1>6. Sound(v, E, {}) /\ SameTree(u, v)
  BY <1>2, <1>4, <1>5, Counted
<1> QED
  BY <1>4, <1>6 DEF SameTree

LEMMA DirUnlisted ==
  ASSUME NEW w, NEW E, Sound(w, E, {}), NEW d, NEW v, v = unlist_dir(w, d)
  PROVE  Sound(v, E, {})
<1>1. PICK s, f :
           /\ s \in Seq(Subdirs(w, d)) /\ Len(s) \in Nat
           /\ \A k \in 1 .. Len(s) : s[k] \in Subdirs(w, d)
           /\ f = [k \in 0 .. Len(s) |-> UnlistOn(f, k, w, s)] /\ v = f[Len(s)]
  BY UnlistIs DEF IsUnlist
<1> DEFINE Given(x) == Sound(x, E, {}) /\ SameTree(w, x)
<1>2. Given(f[0])
  <2>1. 0 \in 0 .. Len(s)
    BY <1>1
  <2>2. f[0] = UnlistOn(f, 0, w, s)
    BY <1>1, <2>1
  <2>3. f[0] = w
    BY <2>2 DEF UnlistOn
  <2> QED
    BY <2>3 DEF SameTree
<1> DEFINE Bad == {k \in 0 .. Len(s) : ~Given(f[k])}
<1> HIDE DEF Given
<1>3. Bad = {}
  <2> SUFFICES ASSUME Bad # {} PROVE FALSE
    OBVIOUS
  <2>1. Bad \subseteq Nat
    BY <1>1
  <2> HIDE DEF Bad
  <2>2. PICK m \in Bad : \A k \in Bad : m <= k
    BY <2>1, Least
  <2>3. m \in 0 .. Len(s) /\ ~Given(f[m])
    BY <2>2 DEF Bad
  <2>4. m # 0
    BY <2>3, <1>2
  <2>5. m \in 1 .. Len(s) /\ m - 1 \in 0 .. Len(s) /\ ~(m <= m - 1)
    BY <2>3, <2>4, <1>1
  <2>6. Given(f[m - 1])
    BY <2>5, <2>2 DEF Bad
  <2>7. f[m] = UnlistOn(f, m, w, s)
    BY <1>1, <2>3
  <2>8. f[m] = unlist_child(f[m - 1], s[m])
    BY <2>7, <2>4 DEF UnlistOn
  <2>9. PICK x, y, e : x = f[m - 1] /\ y = f[m] /\ e = s[m]
    OBVIOUS
  <2>10. Sound(x, E, {}) /\ SameTree(w, x) /\ y = unlist_child(x, e)
    BY <2>6, <2>8, <2>9 DEF Given
  <2>11. e \in Ids /\ w.dent[e] # NULL /\ e # Root
    BY <2>5, <2>9, <1>1 DEF Subdirs, Live
  <2>12. x.dent[e] # NULL
    BY <2>10, <2>11 DEF SameTree
  <2>13. Sound(y, E, {}) /\ SameTree(x, y)
    BY <2>10, <2>11, <2>12, ChildUnlisted
  <2>14. Given(y)
    BY <2>10, <2>13 DEF Given, SameTree
  <2> QED
    BY <2>3, <2>9, <2>14
<1>4. Given(f[Len(s)])
  BY <1>1, <1>3
<1> QED
  BY <1>1, <1>4 DEF Given

-----------------------------------------------------------------------------
(* The invariant, and the calls.                                           *)

Files == [Handles -> [d : Ids, dirt : BOOLEAN] \cup {Closed}]

\* Between two calls the caches are sound, and the files on the card form a
\* tree.
IInv ==
  /\ Sound(Caches, exists, {})
  /\ fp \in Files /\ pwd \in Ids
  /\ exists \subseteq Paths /\ << >> \in exists /\ TreeClosed

LEMMA CachesTyped ==
  ASSUME NEW w \in CacheRec, NEW f \in Files, NEW q \in Ids, NEW v,
         v = [dent |-> w.dent, lru |-> w.lru, hash |-> w.hash, size |-> w.size,
              node |-> w.node, ilru |-> w.ilru, isize |-> w.isize, cur |-> Root,
              new |-> Root, left |-> 0, err |-> "ok", refused |-> w.refused,
              held |-> {q} \cup {f[h].d : h \in {g \in Handles : f[g] # Closed}},
              ghosts |-> w.ghosts]
  PROVE  v \in CacheRec
<1> DEFINE held == {q} \cup {f[h].d : h \in {g \in Handles : f[g] # Closed}}
<1>1. held \in SUBSET Ids
  <2>1. \A h \in Handles : f[h] # Closed => f[h].d \in Ids
    BY DEF Files
  <2> QED
    BY <2>1
<1> HIDE DEF held
<1>2. PICK e : e = "ok"
  OBVIOUS
<1>3. e \in Errors /\ Root \in Ids
  BY <1>2, VfsAssumption DEF Errors
<1>4. v = [dent |-> w.dent, lru |-> w.lru, hash |-> w.hash, size |-> w.size,
           node |-> w.node, ilru |-> w.ilru, isize |-> w.isize, cur |-> Root,
           new |-> Root, left |-> 0, err |-> e, refused |-> w.refused,
           held |-> held, ghosts |-> w.ghosts]
  BY <1>2 DEF held
<1> QED
  BY <1>1, <1>3, <1>4 DEF CacheRec

\* A call that went wild left no trace, any other one left its caches.
LEMMA Became ==
  ASSUME NEW u, NEW E, Become(u), u.err = "WILD" \/ Sound(u, E, {}),
         Sound(Caches, exists, {}), fp' \in Files, pwd' \in Ids,
         exists' = IF u.err = "WILD" THEN exists ELSE E
  PROVE  Sound(Caches', exists', {})
<1>1. PICK w : /\ w = IF u.err = "WILD" THEN Fail(Caches, "WILD") ELSE u
               /\ dent' = w.dent /\ d_lru' = w.lru /\ d_hash' = w.hash
               /\ d_size' = w.size /\ node' = w.node /\ i_lru' = w.ilru
               /\ i_size' = w.isize /\ refused' = w.refused /\ ghosts' = w.ghosts
  BY DEF Become
<1>2. Sound(w, exists', {})
  <2>1. CASE u.err = "WILD"
    <3>1. PICK c, F : c = Caches /\ F = exists'
      OBVIOUS
    <3>2. w = Fail(c, "WILD") /\ "WILD" \in Errors /\ Sound(c, F, {})
      BY <1>1, <2>1, <3>1 DEF Errors
    <3> QED
      BY <3>1, <3>2, Failed
  <2>2. CASE u.err # "WILD"
    BY <1>1, <2>2
  <2> QED
    BY <2>1, <2>2
<1>3. PICK F, f, q : F = exists' /\ f = fp' /\ q = pwd'
  OBVIOUS
<1>4. PICK v : v = Caches'
  OBVIOUS
<1>5. v = [dent |-> w.dent, lru |-> w.lru, hash |-> w.hash, size |-> w.size,
           node |-> w.node, ilru |-> w.ilru, isize |-> w.isize, cur |-> Root,
           new |-> Root, left |-> 0, err |-> "ok", refused |-> w.refused,
           held |-> {q} \cup {f[h].d : h \in {g \in Handles : f[g] # Closed}},
           ghosts |-> w.ghosts]
  BY <1>1, <1>3, <1>4 DEF Caches
<1>6. w \in CacheRec
  BY <1>2 DEF Sound
<1>7. v \in CacheRec
  BY <1>3, <1>5, <1>6, CachesTyped
<1>8. /\ v.dent = w.dent /\ v.lru = w.lru /\ v.hash = w.hash /\ v.size = w.size
      /\ v.node = w.node /\ v.ilru = w.ilru /\ v.isize = w.isize /\ v.refused = w.refused
  BY <1>5
<1>9. Sound(v, F, {})
  BY <1>2, <1>3, <1>7, <1>8, Elsewhere
<1> QED
  BY <1>3, <1>4, <1>9

\* The caches at the start of a call.
LEMMA Begun ==
  ASSUME IInv
  PROVE  /\ Ok(Caches) /\ Caches \in CacheRec /\ Caches.dent = dent /\ Caches.node = node
         /\ Caches.ilru = i_lru
         /\ dent \in [Ids -> Dentry \cup {NULL}]
         /\ \A h \in Handles : fp[h] # Closed => fp[h].d \in Ids /\ fp[h].dirt \in BOOLEAN
         /\ \A d \in Ids : dent[d] # NULL => dent[d].path \in Paths
<1>1. Caches \in CacheRec
  BY DEF IInv, Sound
<1>2. /\ Caches.dent = dent /\ Caches.node = node /\ Caches.ilru = i_lru
      /\ Caches.err = "ok"
  BY DEF Caches
<1>3. dent \in [Ids -> Dentry \cup {NULL}]
  BY <1>1, <1>2 DEF CacheRec
<1>4. \A h \in Handles : fp[h] # Closed => fp[h].d \in Ids /\ fp[h].dirt \in BOOLEAN
  BY DEF IInv, Files
<1>5. \A d \in Ids : dent[d] # NULL => dent[d].path \in Paths
  BY <1>3 DEF Dentry
<1> QED
  BY <1>1, <1>2, <1>3, <1>4, <1>5 DEF Ok

LEMMA CloseStep ==
  ASSUME IInv, NEW h \in Handles, fs_close(h)
  PROVE  IInv'
<1> DEFINE d == fp[h].d
<1>1. PICK w : /\ \/ w = Fail(Caches, "WILD")
                  \/ w = [Caches EXCEPT !.ghosts = @ \cup {d}]
                  \/ dent[d] # NULL /\ w = d_count(Caches, d, -1)
               /\ fp[h] # Closed /\ Become(w) /\ fp' = [fp EXCEPT ![h] = Closed]
               /\ UNCHANGED <<exists, pwd>>
  BY DEF fs_close
<1>2. d \in Ids /\ Caches.dent = dent /\ Sound(Caches, exists, {})
  BY <1>1, Begun DEF IInv
<1>3. fp' \in Files /\ pwd' \in Ids
  BY <1>1 DEF IInv, Files
<1>4. Sound(w, exists, {})
  <2>1. PICK c : c = Caches
    OBVIOUS
  <2>2. CASE w = Fail(c, "WILD")
    <3>1. "WILD" \in Errors
      BY DEF Errors
    <3> QED
      BY <1>2, <2>1, <2>2, <3>1, Failed
  <2>3. CASE c.dent[d] # NULL /\ w = d_count(c, d, -1)
    <3> HIDE DEF d
    <3> QED
      BY <1>2, <2>1, <2>3, Counted
  <2>4. CASE w = [c EXCEPT !.ghosts = @ \cup {d}]
    <3>1. PICK F : F = exists
      OBVIOUS
    <3>2. Sound(c, F, {}) /\ c \in CacheRec /\ d \in Ids
      BY <1>2, <2>1, <3>1 DEF Sound
    <3> HIDE DEF d
    <3>3. c.ghosts \cup {d} \in SUBSET Ids
      BY <3>2 DEF CacheRec
    <3>4. /\ w \in CacheRec
          /\ w.dent = c.dent /\ w.lru = c.lru /\ w.hash = c.hash /\ w.size = c.size
          /\ w.node = c.node /\ w.ilru = c.ilru /\ w.isize = c.isize
          /\ w.refused = c.refused
      BY <2>4, <3>2, <3>3 DEF CacheRec
    <3>5. Sound(w, F, {})
      BY <3>2, <3>4, Elsewhere
    <3> QED
      BY <3>1, <3>5
  <2> QED
    BY <1>1, <1>2, <2>1, <2>2, <2>3, <2>4
<1> HIDE DEF d
<1>5. Sound(Caches', exists', {})
  BY <1>1, <1>2, <1>3, <1>4, Became
<1> QED
  BY <1>1, <1>3, <1>5 DEF IInv, TreeClosed

LEMMA CdStep ==
  ASSUME IInv, NEW h \in Handles, cd(h)
  PROVE  IInv'
<1> DEFINE d == fp[h].d
           w == IF Orphan(d) THEN Fail(Caches, "WILD")
                ELSE IF d = Root THEN Caches ELSE d_count(Caches, d, -1)
<1>1. /\ Held(h) /\ Become(w) /\ fp' = [fp EXCEPT ![h] = Closed]
      /\ pwd' = d /\ exists' = exists
  BY DEF cd
<1>2. d \in Ids /\ Caches.dent = dent /\ dent[d] # NULL /\ Sound(Caches, exists, {})
  BY <1>1, Begun DEF IInv, Held
<1>3. fp' \in Files /\ pwd' \in Ids
  BY <1>1, <1>2 DEF IInv, Files
<1>4. Sound(w, exists, {})
  <2>1. PICK c : c = Caches
    OBVIOUS
  <2>2. CASE w = Fail(c, "WILD")
    <3>1. "WILD" \in Errors
      BY DEF Errors
    <3> HIDE DEF w
    <3> QED
      BY <1>2, <2>1, <2>2, <3>1, Failed
  <2>3. CASE w = d_count(c, d, -1)
    <3> HIDE DEF w, d
    <3> QED
      BY <1>2, <2>1, <2>3, Counted
  <2> QED
    BY <1>2, <2>1, <2>2, <2>3
<1> HIDE DEF w, d
<1>5. Sound(Caches', exists', {})
  BY <1>1, <1>2, <1>3, <1>4, Became
<1> QED
  BY <1>1, <1>3, <1>5 DEF IInv, TreeClosed

LEMMA ListStep ==
  ASSUME IInv, NEW h \in Handles, ls(h)
  PROVE  IInv'
<1> DEFINE d == fp[h].d
           l == list_dir(Caches, d)
           x == IF Ok(l) THEN unlist_dir(l, d) ELSE l
<1>1. PICK w : /\ w = x \/ w = Caches \/ w = Fail(Caches, "WILD")
               /\ Held(h) /\ Become(w) /\ UNCHANGED <<exists, fp, pwd>>
  BY DEF ls, Then
<1>2. /\ d \in Ids /\ Caches.dent = dent /\ dent[d] # NULL /\ Ok(Caches)
      /\ Sound(Caches, exists, {}) /\ exists \subseteq Paths
  BY <1>1, Begun DEF IInv, Held
<1>3. fp' \in Files /\ pwd' \in Ids
  BY <1>1 DEF IInv
<1>4. Sound(l, exists, {})
  <2>1. PICK c : c = Caches
    OBVIOUS
  <2>2. l = list_dir(c, d)
    BY <2>1
  <2> HIDE DEF l, d
  <2> QED
    BY <1>2, <2>1, <2>2, DirListed
<1>5. Sound(x, exists, {})
  <2> HIDE DEF l
  <2>1. CASE Ok(l)
    <3>1. x = unlist_dir(l, d)
      BY <2>1
    <3> HIDE DEF x, d
    <3> QED
      BY <1>4, <3>1, DirUnlisted
  <2> QED
    BY <1>4, <2>1
<1> HIDE DEF x, l, d
<1>7. Sound(w, exists, {})
  <2>1. PICK c, F : c = Caches /\ F = exists
    OBVIOUS
  <2>2. CASE w = Fail(c, "WILD")
    <3>1. "WILD" \in Errors /\ Sound(c, F, {})
      BY <1>2, <2>1 DEF Errors
    <3> QED
      BY <2>1, <2>2, <3>1, Failed
  <2> QED
    BY <1>1, <1>2, <1>5, <2>1, <2>2
<1>6. Sound(Caches', exists', {})
  BY <1>1, <1>2, <1>3, <1>7, Became
<1> QED
  BY <1>1, <1>3, <1>6 DEF IInv, TreeClosed

\* A write moves the inode of the file in its list.
LEMMA InodeMoved ==
  ASSUME NEW w, NEW E, Sound(w, E, {}), NEW p \in Paths, w.node[p] # NULL,
         NEW v \in CacheRec, v.dent = w.dent, v.lru = w.lru, v.hash = w.hash,
         v.size = w.size, v.node = w.node, v.ilru = list_move(w.ilru, p),
         v.isize = w.isize, v.refused = w.refused
  PROVE  Sound(v, E, {})
<1>1. /\ w \in CacheRec /\ Tree(w, E) /\ Top(w) /\ Lists(w) /\ Sizes(w, {})
      /\ w.ilru \in Seq(Paths)
  BY DEF Sound, CacheRec
<1>2. IsInjective(w.ilru) /\ p \in Range(w.ilru)
  BY <1>1 DEF Lists
<1>3. /\ IsInjective(v.ilru) /\ Range(v.ilru) = Range(w.ilru) \cup {p}
      /\ Len(v.ilru) = Len(w.ilru)
  BY <1>1, <1>2, Moved, MovedLength
<1>4. Range(v.ilru) = Range(w.ilru)
  BY <1>2, <1>3
<1>5. Tree(v, E) /\ Top(v)
  BY <1>1 DEF Tree, Top, Live, Rooted
<1>6. Lists(v)
  BY <1>1, <1>3, <1>4 DEF Lists, Live
<1>7. Sizes(v, {})
  BY <1>1, <1>3 DEF Sizes, Live
<1> QED
  BY <1>5, <1>6, <1>7 DEF Sound

LEMMA WriteStep ==
  ASSUME IInv, NEW h \in Handles, NEW grows \in BOOLEAN, fs_write(h, grows)
  PROVE  IInv'
<1> DEFINE p == dent[fp[h].d].path
<1>1. /\ Held(h) /\ node[p] # NULL
      /\ fp' = [fp EXCEPT ![h].dirt = TRUE]
      /\ i_lru' = IF grows THEN list_move(i_lru, p) ELSE i_lru
      /\ UNCHANGED <<exists, dent, d_lru, d_hash, d_size, ghosts, node, i_size, pwd,
                     refused>>
  BY DEF fs_write
<1>2. /\ fp[h].d \in Ids /\ dent[fp[h].d] # NULL /\ p \in Paths
      /\ Sound(Caches, exists, {}) /\ Caches \in CacheRec
  BY <1>1, Begun DEF IInv, Held
<1>3. fp' \in Files /\ pwd' \in Ids
  <2>1. fp[h] \in [d : Ids, dirt : BOOLEAN]
    BY <1>1 DEF IInv, Files, Held
  <2>2. [fp[h] EXCEPT !.dirt = TRUE] \in [d : Ids, dirt : BOOLEAN]
    BY <2>1
  <2> QED
    BY <1>1, <2>2 DEF IInv, Files
<1> HIDE DEF p
<1>4. PICK w : w = Caches
  OBVIOUS
<1> DEFINE m == IF grows THEN list_move(w.ilru, p) ELSE w.ilru
           u == [w EXCEPT !.ilru = m]
<1>5. w.ilru = i_lru /\ w.node = node /\ w.ilru \in Seq(Paths)
  BY <1>2, <1>4 DEF Caches, CacheRec
<1>6. m \in Seq(Paths)
  BY <1>2, <1>5, Moved
<1>7. m = i_lru'
  BY <1>1, <1>5
<1>12. m = IF grows THEN list_move(w.ilru, p) ELSE w.ilru
  OBVIOUS
<1> HIDE DEF m
<1>8. /\ u \in CacheRec /\ u.ilru = m
      /\ u.dent = w.dent /\ u.lru = w.lru /\ u.hash = w.hash /\ u.size = w.size
      /\ u.node = w.node /\ u.isize = w.isize /\ u.refused = w.refused
      /\ u.ghosts = w.ghosts
  BY <1>2, <1>4, <1>6 DEF CacheRec
<1> HIDE DEF u
<1>9. Sound(u, exists, {})
  <2>1. CASE m = w.ilru
    BY <1>2, <1>4, <1>8, <2>1, Elsewhere
  <2>2. CASE m = list_move(w.ilru, p)
    BY <1>1, <1>2, <1>4, <1>5, <1>8, <2>2, InodeMoved
  <2> QED
    BY <2>1, <2>2, <1>12
<1>10. Sound(Caches', exists', {})
  <2>1. PICK F, f, q : F = exists' /\ f = fp' /\ q = pwd'
    OBVIOUS
  <2>2. PICK v : v = Caches'
    OBVIOUS
  <2>3. v = [dent |-> u.dent, lru |-> u.lru, hash |-> u.hash, size |-> u.size,
             node |-> u.node, ilru |-> u.ilru, isize |-> u.isize, cur |-> Root,
             new |-> Root, left |-> 0, err |-> "ok", refused |-> u.refused,
             held |-> {q} \cup {f[g].d : g \in {g \in Handles : f[g] # Closed}},
             ghosts |-> u.ghosts]
    <3>1. /\ u.dent = dent' /\ u.lru = d_lru' /\ u.hash = d_hash' /\ u.size = d_size'
          /\ u.node = node' /\ u.ilru = i_lru' /\ u.isize = i_size'
          /\ u.refused = refused' /\ u.ghosts = ghosts'
      BY <1>1, <1>4, <1>7, <1>8 DEF Caches
    <3> QED
      BY <2>1, <2>2, <3>1 DEF Caches
  <2>4. v \in CacheRec
    BY <1>3, <1>8, <2>1, <2>3, CachesTyped
  <2>5. /\ v.dent = u.dent /\ v.lru = u.lru /\ v.hash = u.hash /\ v.size = u.size
        /\ v.node = u.node /\ v.ilru = u.ilru /\ v.isize = u.isize /\ v.refused = u.refused
    BY <2>3
  <2>6. Sound(v, F, {})
    BY <1>1, <1>9, <2>1, <2>4, <2>5, Elsewhere
  <2> QED
    BY <2>1, <2>2, <2>6
<1> QED
  BY <1>1, <1>3, <1>10 DEF IInv, TreeClosed

LEMMA OpenStep ==
  ASSUME IInv, NEW h \in Handles, NEW r \in Requests, NEW create \in BOOLEAN,
         fs_open(h, r, create)
  PROVE  IInv'
<1> DEFINE start == IF r.abs THEN Root ELSE pwd
           walked == Walked(Caches, start, r.comps)
<1>1. /\ Missing(walked, r.comps, create) => NewPath(walked, r.comps) \in Paths
      /\ pwd' = pwd
      /\ \E w \in {path_lookup(walked, start, r.comps, create)} :
           /\ Become(IF Ok(w) THEN d_count(w, w.cur, 1) ELSE w)
           /\ fp' = [fp EXCEPT ![h] = IF Ok(w) THEN [d |-> w.cur, dirt |-> FALSE]
                                      ELSE Closed]
           /\ exists' = exists \cup IF Ok(w) THEN {w.dent[w.cur].path} ELSE {}
  BY DEF fs_open
<1>2. start \in Ids /\ r.comps \in Seq(STRING)
  BY VfsAssumption DEF IInv
<1>3. /\ Ok(Caches) /\ Caches.dent = dent /\ Sound(Caches, exists, {})
      /\ exists \subseteq Paths /\ << >> \in exists /\ TreeClosed
  BY Begun DEF IInv
<1>4. walked = Walked(Caches, start, r.comps)
  OBVIOUS
<1> HIDE DEF walked, start
<1>5. PICK s, comps : s = start /\ comps = r.comps
  OBVIOUS
<1>6. Walking(walked, comps, Len(comps))
  <2>1. PICK c : c = Caches
    OBVIOUS
  <2>2. walked = Walked(c, s, comps) /\ comps \in Seq(STRING) /\ s \in Ids
    BY <1>2, <1>4, <1>5, <2>1
  <2>3. Ok(c) /\ Sound(c, exists, {})
    BY <1>3, <2>1
  <2> QED
    BY <1>3, <2>2, <2>3, WalkedTo
<1>7. PICK w : /\ w = path_lookup(walked, s, comps, create)
               /\ Become(IF Ok(w) THEN d_count(w, w.cur, 1) ELSE w)
               /\ fp' = [fp EXCEPT ![h] = IF Ok(w) THEN [d |-> w.cur, dirt |-> FALSE]
                                          ELSE Closed]
               /\ exists' = exists \cup IF Ok(w) THEN {w.dent[w.cur].path} ELSE {}
  BY <1>1, <1>5
<1>8. \/ w.err = "WILD"
      \/ ~Ok(w) /\ Sound(w, exists, {})
      \/ /\ Ok(w) /\ w.cur \in Ids /\ w.dent[w.cur] # NULL
         /\ w.dent[w.cur].path \in Paths
         /\ Sound(w, exists \cup {w.dent[w.cur].path}, {})
         /\ w.dent[w.cur].path \notin exists => Front(w.dent[w.cur].path) \in exists
  <2>1. comps \in Seq(STRING) /\ s \in Ids
    BY <1>2, <1>5
  <2>2. Missing(walked, comps, create) => NewPath(walked, comps) \in Paths
    BY <1>1, <1>5
  <2> QED
    BY <1>3, <1>6, <1>7, <2>1, <2>2, PathLookedUp
<1>9. CASE ~Ok(w)
  <2>1. Become(w) /\ fp' = [fp EXCEPT ![h] = Closed] /\ exists' = exists
    BY <1>7, <1>9
  <2>2. fp' \in Files /\ pwd' \in Ids
    BY <1>1, <2>1 DEF IInv, Files
  <2>3. Sound(Caches', exists', {})
    BY <1>3, <1>8, <1>9, <2>1, <2>2, Became
  <2> QED
    BY <1>3, <2>1, <2>2, <2>3 DEF IInv, TreeClosed
<1>10. CASE Ok(w)
  <2> DEFINE u == d_count(w, w.cur, 1)
  <2>1. PICK p, d : p = w.dent[w.cur].path /\ d = w.cur
    OBVIOUS
  <2>2. w.err = "ok"
    BY <1>10 DEF Ok
  <2>3. /\ d \in Ids /\ w.dent[d] # NULL /\ p \in Paths /\ Sound(w, exists \cup {p}, {})
        /\ p \notin exists => Front(p) \in exists
    BY <1>8, <1>10, <2>1, <2>2
  <2>4. Become(u) /\ exists' = exists \cup {p}
    BY <1>7, <1>10, <2>1
  <2>5. fp' = [fp EXCEPT ![h] = [d |-> d, dirt |-> FALSE]]
    BY <1>7, <1>10, <2>1
  <2>6. fp' \in Files /\ pwd' \in Ids
    BY <1>1, <2>3, <2>5 DEF IInv, Files
  <2>7. Sound(u, exists \cup {p}, {}) /\ u.err = w.err
    BY <2>1, <2>3, Counted
  <2> HIDE DEF u
  <2>8. Sound(Caches', exists', {})
    BY <1>3, <2>2, <2>4, <2>6, <2>7, Became
  <2>9. TreeClosed'
    BY <1>3, <2>3, <2>4 DEF TreeClosed
  <2>10. exists' \subseteq Paths /\ << >> \in exists'
    BY <1>3, <2>3, <2>4
  <2> QED
    BY <2>6, <2>8, <2>9, <2>10 DEF IInv
<1> QED
  BY <1>9, <1>10

\* A file that is deleted takes its inode and all its dentries along.
LEMMA InodesDeleted ==
  ASSUME NEW w, NEW E, Sound(w, E, {}), NEW P \in SUBSET (Paths \ {<< >>}),
         NEW v, v = free_inode(w, P)
  PROVE  Sound(v, E \ P, {}) /\ v.err \in {w.err, "WILD"}
<1> DEFINE S == Aliases(w, P)
<1>1. /\ w \in CacheRec /\ Top(w) /\ Lists(w) /\ Sizes(w, {})
      /\ w.lru \in Seq(Ids) /\ w.ilru \in Seq(Paths) /\ w.size \in Int /\ w.isize \in Int
  BY DEF Sound, CacheRec
<1>2. /\ v \in CacheRec /\ Pruned(w, v, S)
      /\ v.lru = Without(w.lru, S) /\ v.hash = w.hash \ S
      /\ \A q \in Paths : v.node[q] = IF q \in P THEN NULL ELSE w.node[q]
      /\ v.ilru = Without(w.ilru, P) /\ v.size = w.size /\ v.isize = w.isize
      /\ v.refused = w.refused /\ v.err \in {w.err, "WILD"}
  BY <1>1, FreedInodes
<1>4. S \in SUBSET (Ids \ {Root})
  BY <1>1 DEF Aliases, Live, Top
<1>5. \A d \in Live(w) : w.dent[d].path \in P => d \in S
  BY DEF Aliases
<1> HIDE DEF S
<1>6. IsInjective(w.lru) /\ IsInjective(w.ilru)
  BY <1>1 DEF Lists
<1>7. /\ IsInjective(Without(w.ilru, P)) /\ Range(Without(w.ilru, P)) = Range(w.ilru) \ P
      /\ IsInjective(Without(w.lru, S)) /\ Range(Without(w.lru, S)) = Range(w.lru) \ S
  BY <1>1, <1>6, WithoutItems
<1>8. /\ Len(Without(w.lru, S)) <= Len(w.lru) /\ Len(w.lru) \in Nat
      /\ Len(Without(w.lru, S)) \in Nat
      /\ Len(Without(w.ilru, P)) <= Len(w.ilru) /\ Len(w.ilru) \in Nat
      /\ Len(Without(w.ilru, P)) \in Nat
  BY <1>1, <1>6, WithoutLength
<1>9. /\ v.size <= DCap /\ (~w.refused => Len(v.lru) <= v.size)
      /\ Len(v.ilru) <= v.isize /\ v.isize <= ICap
  BY <1>1, <1>2, <1>8 DEF Sizes
<1>11. /\ v.hash = w.hash \ S /\ v.refused = w.refused
       /\ IsInjective(v.lru) /\ Range(v.lru) = Range(w.lru) \ S
       /\ IsInjective(v.ilru) /\ Range(v.ilru) = Range(w.ilru) \ P
       /\ \A q \in Paths : v.node[q] = IF q \in P THEN NULL ELSE w.node[q]
       /\ v \in CacheRec /\ Pruned(w, v, S)
  BY <1>2, <1>7
<1>10. Sound(v, E \ P, {})
  <2>1. Freed(w, v, S, P)
    BY <1>4, <1>5, <1>9, <1>11 DEF Freed
  <2> QED
    BY <2>1, Pruning
<1> QED
  BY <1>2, <1>10

LEMMA DeleteStep ==
  ASSUME IInv, NEW h \in Handles, fs_delete(h)
  PROVE  IInv'
<1> DEFINE d == fp[h].d
           p == dent[d].path
           Gone(w) == IF d = Root \/ w.dent[d].parent = NULL THEN Fail(w, "WILD")
                      ELSE free_inode(w, {p})
           empty(w) == Ok(w) /\ Subdirs(w, d) = {}
<1>1. PICK w : /\ w = IF p \in Dirs THEN list_dir(Caches, d) ELSE Caches
               /\ Become(IF empty(w) THEN Gone(w) ELSE w)
               /\ exists' = IF empty(w) /\ Ok(Gone(w)) THEN exists \ {p} ELSE exists
               /\ fp' = [fp EXCEPT ![h].dirt = IF empty(w) THEN FALSE ELSE @]
               /\ Held(h) /\ pwd' = pwd
  BY DEF fs_delete
<1>2. /\ d \in Ids /\ dent[d] # NULL /\ p \in Paths
      /\ Caches.dent = dent /\ Ok(Caches) /\ Sound(Caches, exists, {})
      /\ exists \subseteq Paths /\ << >> \in exists /\ TreeClosed
  BY <1>1, Begun DEF IInv, Held
<1>3. fp' \in Files /\ pwd' \in Ids
  <2>1. fp[h] \in [d : Ids, dirt : BOOLEAN]
    BY <1>1 DEF IInv, Files, Held
  <2> DEFINE x == [fp[h] EXCEPT !.dirt = IF empty(w) THEN FALSE ELSE @]
  <2>2. x \in [d : Ids, dirt : BOOLEAN]
    <3> HIDE DEF empty
    <3> QED
      BY <2>1
  <2>3. fp' = [fp EXCEPT ![h] = x]
    BY <1>1
  <2> HIDE DEF x
  <2> QED
    BY <1>1, <2>2, <2>3 DEF IInv, Files
<1>4. /\ Sound(w, exists, {})
      /\ Ok(w) => /\ w.dent[d] # NULL /\ w.dent[d].path = p
                  /\ p \in Dirs /\ OnCard(Caches, d) # {} => Subdirs(w, d) # {}
  <2>1. PICK c : c = Caches
    OBVIOUS
  <2>2. Ok(c) /\ c.dent = dent /\ Sound(c, exists, {}) /\ d \in Ids /\ c.dent[d] # NULL
        /\ c.dent[d].path = p
    BY <1>2, <2>1
  <2>3. CASE p \in Dirs
    <3>1. w = list_dir(c, d)
      BY <1>1, <2>1, <2>3
    <3> HIDE DEF d, p
    <3>2. /\ Sound(w, exists, {})
          /\ Ok(w) => /\ w.dent[d] # NULL /\ w.dent[d].path = c.dent[d].path
                      /\ OnCard(c, d) # {} => Subdirs(w, d) # {}
      BY <1>2, <2>2, <3>1, DirListed
    <3> QED
      BY <2>1, <2>2, <3>2
  <2>4. CASE p \notin Dirs
    <3>1. w = c
      BY <1>1, <2>1, <2>4
    <3> QED
      BY <2>2, <2>4, <3>1
  <2> QED
    BY <2>3, <2>4
<1>5. OnCard(Caches, d) = {q \in exists \ {<< >>} : Front(q) = p}
  BY <1>2 DEF OnCard
<1>6. CASE ~empty(w)
  <2>1. Become(w) /\ exists' = exists
    BY <1>1, <1>6
  <2> HIDE DEF d, p, empty
  <2>2. Sound(Caches', exists', {})
    BY <1>2, <1>3, <1>4, <2>1, Became
  <2> QED
    BY <1>2, <1>3, <2>1, <2>2 DEF IInv, TreeClosed
<1>7. CASE empty(w) /\ (d = Root \/ w.dent[d].parent = NULL)
  <2> DEFINE u == Fail(w, "WILD")
  <2>1. w \in CacheRec
    BY <1>4 DEF Sound
  <2>2. u.err = "WILD" /\ ~Ok(u)
    BY <2>1 DEF Fail, CacheRec, Ok
  <2>3. Become(u) /\ exists' = exists
    BY <1>1, <1>7, <2>2
  <2> HIDE DEF u, d, p, empty
  <2>4. Sound(Caches', exists', {})
    BY <1>2, <1>3, <2>2, <2>3, Became
  <2> QED
    BY <1>2, <1>3, <2>3, <2>4 DEF IInv, TreeClosed
<1>8. CASE empty(w) /\ ~(d = Root \/ w.dent[d].parent = NULL)
  <2> DEFINE u == free_inode(w, {p})
             E == exists \ {p}
  <2>1. Ok(w) /\ w.err = "ok" /\ Subdirs(w, d) = {}
    BY <1>8 DEF Ok
  <2>7. p \notin Dirs \/ {q \in exists \ {<< >>} : Front(q) = p} = {}
    BY <1>4, <1>5, <2>1
  <2>2. Gone(w) = u
    BY <1>8
  <2>11. p # << >>
    <3>1. d \in Live(w) /\ d # Root /\ w.dent[d].path = p
      BY <1>2, <1>4, <1>8, <2>1 DEF Live
    <3> QED
      BY <1>4, <3>1 DEF Sound, Tree, Rooted
  <2>3. Become(u) /\ exists' = IF Ok(u) THEN exists \ {p} ELSE exists
    BY <1>1, <1>8, <2>2
  <2> HIDE DEF d, p, empty, Gone
  <2>4. Sound(u, exists \ {p}, {}) /\ u.err \in {w.err, "WILD"}
    <3>1. PICK P : P = {p}
      OBVIOUS
    <3>2. P \in SUBSET (Paths \ {<< >>}) /\ u = free_inode(w, P) /\ exists \ {p} = exists \ P
      BY <1>2, <2>11, <3>1
    <3> HIDE DEF u
    <3>3. Sound(u, exists \ P, {}) /\ u.err \in {w.err, "WILD"}
      BY <1>4, <3>2, InodesDeleted
    <3> QED
      BY <3>2, <3>3
  <2> HIDE DEF u, E
  <2>5. CASE u.err = "WILD"
    <3>1. exists' = exists
      BY <2>3, <2>5 DEF Ok
    <3>2. Sound(Caches', exists', {})
      BY <1>2, <1>3, <2>3, <2>5, <3>1, Became
    <3> QED
      BY <1>2, <1>3, <3>1, <3>2 DEF IInv, TreeClosed
  <2>6. CASE u.err # "WILD"
    <3>1. exists' = exists \ {p}
      BY <2>1, <2>3, <2>4, <2>6 DEF Ok
    <3>2. Sound(Caches', exists', {})
      <4>1. Sound(u, E, {}) /\ exists' = E
        BY <2>4, <3>1 DEF E
      <4> QED
        BY <1>2, <1>3, <2>3, <2>6, <4>1, Became
    <3>3. TreeClosed'
      <4>1. ASSUME NEW q \in exists' \ {<< >>} PROVE Front(q) \in exists'
        <5>1. q \in exists \ {<< >>} /\ q \in Paths /\ Front(q) \in exists
          BY <1>2, <3>1, <4>1 DEF TreeClosed
        <5>2. Front(q) \in Dirs
          BY <5>1, VfsAssumption
        <5>3. Front(q) # p
          BY <2>7, <5>1, <5>2
        <5> QED
          BY <3>1, <5>1, <5>3
      <4> QED
        BY <4>1 DEF TreeClosed
    <3>4. exists' \subseteq Paths /\ << >> \in exists'
      BY <1>2, <2>11, <3>1
    <3> QED
      BY <1>3, <3>2, <3>3, <3>4 DEF IInv
  <2> QED
    BY <2>5, <2>6
<1> QED
  BY <1>6, <1>7, <1>8

-----------------------------------------------------------------------------
(* The theorems.                                                           *)

LEMMA InitSound ==
  ASSUME Init
  PROVE  IInv
<1> DEFINE x == New(<< >>)
           y == [count |-> 1, pinned |-> TRUE]
<1>1. /\ exists \subseteq Paths /\ << >> \in exists
      /\ \A p \in exists \ {<< >>} : Front(p) \in exists
      /\ dent = [d \in Ids |-> IF d = Root THEN x ELSE NULL]
      /\ d_lru = <<Root>> /\ d_hash = {Root} /\ d_size = 1
      /\ node = [p \in Paths |-> IF p = << >> THEN y ELSE NULL]
      /\ i_lru = << << >> >> /\ i_size = 1
      /\ fp = [h \in Handles |-> Closed]
      /\ pwd = Root /\ refused = FALSE /\ ghosts = {}
  BY DEF Init
<1>2. << >> \in Paths /\ Root \in Ids /\ DCap \in Nat /\ DCap > 0 /\ ICap \in Nat /\ ICap > 0
  BY VfsAssumption
<1>3. x \in Dentry /\ x.path = << >> /\ x.parent = Root /\ x.pinned
  BY <1>2 DEF Dentry, New
<1>4. y \in Inode /\ y.pinned
  BY DEF Inode
<1> HIDE DEF x, y
<1>21. x # NULL /\ y # NULL
  BY <1>3, <1>4, NothingAssumption DEF Dentry, Inode
<1>5. PICK r, i : r = <<Root>> /\ i = << << >> >>
  OBVIOUS
<1>6. /\ r \in Seq(Ids) /\ Len(r) = 1 /\ IsInjective(r) /\ Range(r) = {Root}
  BY <1>2, <1>5 DEF IsInjective, Range
<1>7. /\ i \in Seq(Paths) /\ Len(i) = 1 /\ IsInjective(i) /\ Range(i) = {<< >>}
  BY <1>2, <1>5 DEF IsInjective, Range
<1>8. PICK w : w = Caches
  OBVIOUS
<1>9. /\ w.dent = dent /\ w.lru = r /\ w.hash = {Root} /\ w.size = 1
      /\ w.node = node /\ w.ilru = i /\ w.isize = 1 /\ w.refused = FALSE
  BY <1>1, <1>5, <1>8 DEF Caches
<1>10. fp \in Files /\ pwd \in Ids
  BY <1>1, <1>2 DEF Files
<1>11. dent \in [Ids -> Dentry \cup {NULL}] /\ node \in [Paths -> Inode \cup {NULL}]
  BY <1>1, <1>3, <1>4
<1>12. w \in CacheRec
  <2>1. PICK u : u = [dent |-> dent, lru |-> r, hash |-> {Root}, size |-> 1, node |-> node,
                      ilru |-> i, isize |-> 1, cur |-> Root, new |-> Root, left |-> 0,
                      err |-> "ok", refused |-> FALSE, held |-> {}, ghosts |-> {}]
    OBVIOUS
  <2>2. PICK e : e = "ok"
    OBVIOUS
  <2>3. e \in Errors
    BY <2>2 DEF Errors
  <2>4. u = [dent |-> dent, lru |-> r, hash |-> {Root}, size |-> 1, node |-> node,
             ilru |-> i, isize |-> 1, cur |-> Root, new |-> Root, left |-> 0,
             err |-> e, refused |-> FALSE, held |-> {}, ghosts |-> {}]
    BY <2>1, <2>2
  <2>5. u \in CacheRec
    BY <1>2, <1>6, <1>7, <1>11, <2>3, <2>4 DEF CacheRec
  <2>6. PICK f, q : f = fp /\ q = pwd
    OBVIOUS
  <2>7. w = [dent |-> u.dent, lru |-> u.lru, hash |-> u.hash, size |-> u.size,
             node |-> u.node, ilru |-> u.ilru, isize |-> u.isize, cur |-> Root,
             new |-> Root, left |-> 0, err |-> "ok", refused |-> u.refused,
             held |-> {q} \cup {f[h].d : h \in {g \in Handles : f[g] # Closed}},
             ghosts |-> u.ghosts]
    BY <1>1, <1>5, <1>8, <2>1, <2>6 DEF Caches
  <2> QED
    BY <1>10, <2>5, <2>6, <2>7, CachesTyped
<1>13. Live(w) = {Root}
  BY <1>1, <1>2, <1>9, <1>21 DEF Live
<1>14. \A p \in Paths : w.node[p] # NULL <=> p = << >>
  BY <1>1, <1>9, <1>21
<1>15. w.dent[Root] = x /\ w.node[<< >>] = y
  BY <1>1, <1>2, <1>9
<1>16. Tree(w, exists)
  BY <1>1, <1>3, <1>4, <1>13, <1>14, <1>15, <1>21 DEF Tree, Rooted
<1>17. Top(w)
  BY <1>3, <1>4, <1>15, <1>21 DEF Top
<1>18. Lists(w)
  <2>1. Range(w.ilru) = {p \in Paths : w.node[p] # NULL}
    BY <1>2, <1>7, <1>9, <1>14
  <2> QED
    BY <1>6, <1>7, <1>9, <1>13, <2>1 DEF Lists
<1>19. Sizes(w, {})
  <2>1. w.size = 1 /\ w.isize = 1 /\ Len(w.lru) = 1 /\ Len(w.ilru) = 1
    BY <1>6, <1>7, <1>9
  <2>2. Live(w) \ {} \subseteq Range(w.lru)
    BY <1>6, <1>9, <1>13
  <2>3. 1 <= DCap /\ 1 <= ICap
    BY <1>2
  <2> QED
    BY <2>1, <2>2, <2>3 DEF Sizes
<1>20. Sound(Caches, exists, {})
  BY <1>8, <1>12, <1>16, <1>17, <1>18, <1>19 DEF Sound
<1> QED
  BY <1>1, <1>10, <1>20 DEF IInv, TreeClosed

LEMMA NothingHappened ==
  ASSUME IInv, UNCHANGED vars
  PROVE  IInv'
BY DEF IInv, Caches, TreeClosed, vars, cacheVars

\* A step that uses freed memory goes wild.
LEMMA WildStep ==
  ASSUME IInv, UNCHANGED <<exists, fp, pwd>>, Become(Fail(Caches, "WILD"))
  PROVE  IInv'
<1>1. PICK c, E, u : c = Caches /\ E = exists /\ u = Fail(c, "WILD")
  OBVIOUS
<1>2. Sound(c, E, {}) /\ "WILD" \in Errors
  BY <1>1 DEF IInv, Errors
<1>3. u.err = "WILD"
  BY <1>1, <1>2, Failed
<1>4. /\ Become(u) /\ Sound(Caches, exists, {}) /\ fp' \in Files /\ pwd' \in Ids
      /\ exists' = IF u.err = "WILD" THEN exists ELSE E
  BY <1>1, <1>3 DEF IInv
<1>5. Sound(Caches', exists', {})
  BY <1>3, <1>4, Became
<1> QED
  BY <1>4, <1>5 DEF IInv, TreeClosed

LEMMA StepSound ==
  ASSUME IInv, [Next]_vars
  PROVE  IInv'
<1>1. CASE Next
  <2>2. CASE memory_reused
    BY <2>2, WildStep DEF memory_reused
  <2>3. CASE \E h \in Handles : use_of_freed(h)
    BY <2>3, WildStep DEF use_of_freed
  <2>1. ASSUME NEW h \in Handles,
          \/ \E r \in Requests, create \in BOOLEAN : fs_open(h, r, create)
          \/ \E grows \in BOOLEAN : fs_write(h, grows)
          \/ fs_close(h) \/ ls(h) \/ cd(h) \/ fs_delete(h)
        PROVE  IInv'
    BY <2>1, OpenStep, WriteStep, CloseStep, ListStep, CdStep, DeleteStep
  <2> QED
    BY <1>1, <2>1, <2>2, <2>3 DEF Next
<1>2. CASE UNCHANGED vars
  BY <1>2, NothingHappened
<1> QED
  BY <1>1, <1>2

\* The caches are sound between any two calls, until one goes wild: it used
\* freed memory, or wrote through a link to it where it is in use again.
THEOREM CachesSound == Spec => []IInv
<1>1. Init => IInv
  BY InitSound
<1>2. IInv /\ [Next]_vars => IInv'
  BY StepSound
<1> QED
  BY <1>1, <1>2, PTL DEF Spec

\* What the invariant says of the variables.
LEMMA InvariantMeans ==
  ASSUME IInv
  PROVE  PointersLive /\ SizeBoundsCache /\ NoStaleDentry /\ TreeClosed
<1>1. PICK w : w = Caches
  OBVIOUS
<1>2. /\ w.dent = dent /\ w.lru = d_lru /\ w.hash = d_hash /\ w.size = d_size
      /\ w.node = node /\ w.ilru = i_lru /\ w.isize = i_size /\ w.refused = refused
  BY <1>1 DEF Caches
<1>3. Tree(w, exists) /\ Lists(w) /\ Sizes(w, {}) /\ w \in CacheRec /\ TreeClosed
  BY <1>1 DEF IInv, Sound
<1>4. InMemory = Live(w)
  BY <1>2 DEF InMemory, Live
<1>5. PointersLive
  <2>1. ASSUME NEW d \in InMemory
        PROVE  /\ node[dent[d].path] # NULL
               /\ dent[d].parent # NULL =>
                    /\ dent[d].parent \in InMemory
                    /\ d # Root => dent[dent[d].parent].path = Front(dent[d].path)
    <3>1. Rooted(w, exists, d) /\ d \in Ids /\ w.dent[d] # NULL
      BY <1>3, <1>4, <2>1 DEF Tree, Live
    <3>2. w.dent[d].parent \in Ids \cup {NULL}
      BY <1>3, <3>1 DEF CacheRec, Dentry
    <3> QED
      BY <1>2, <3>1, <3>2 DEF Rooted, InMemory
  <2>2. /\ IsInjective(d_lru) /\ Range(d_lru) \cup d_hash \subseteq InMemory
        /\ IsInjective(i_lru) /\ Range(i_lru) = {p \in Paths : node[p] # NULL}
    BY <1>2, <1>3, <1>4 DEF Lists
  <2> QED
    BY <2>1, <2>2 DEF PointersLive
<1>6. SizeBoundsCache
  BY <1>2, <1>3 DEF Sizes, SizeBoundsCache
<1>7. NoStaleDentry
  <2>1. ASSUME NEW d \in InMemory PROVE dent[d].path \in exists
    BY <1>2, <1>3, <1>4, <2>1 DEF Tree, Rooted
  <2> QED
    BY <2>1 DEF NoStaleDentry
<1> QED
  BY <1>3, <1>5, <1>6, <1>7

\* Until a call goes wild, no pointer that a lookup follows (inode, parent, hash
\* table) leads to freed memory, and the live items are on their LRU lists once
\* at most, through every eviction and deletion in the middle of other calls.
THEOREM PointersStayLive == Spec => []PointersLive
<1>1. IInv => PointersLive
  BY InvariantMeans
<1> QED
  BY <1>1, CachesSound, PTL

\* The sizes stay within the capacity; that of the inodes covers its list, and
\* that of the dentries does until one is refused.
THEOREM CachesKeepTheirSize == Spec => []SizeBoundsCache
<1>1. IInv => SizeBoundsCache
  BY InvariantMeans
<1> QED
  BY <1>1, CachesSound, PTL

\* No dentry is left of a file that was deleted.
THEOREM DeletedIsForgotten == Spec => []NoStaleDentry
<1>1. IInv => NoStaleDentry
  BY InvariantMeans
<1> QED
  BY <1>1, CachesSound, PTL

\* A directory with files on the card is never deleted, until a call goes wild.
THEOREM DirectoriesStay == Spec => []TreeClosed
<1>1. IInv => TreeClosed
  BY InvariantMeans
<1> QED
  BY <1>1, CachesSound, PTL

-----------------------------------------------------------------------------
(* The keyboard and the line.                                              *)

\* The places of the shell.
Places == {"getkey", "clear", "wipe", "wptr", "rptr", "getchar", "parse", "prompt"}

\* Types of everything the invariants look at.
TypeInv ==
  /\ TypeOK
  /\ at \in Places
  /\ marked \in BOOLEAN /\ returned \in BOOLEAN
  /\ temp \in [mark : BOOLEAN, c : Keys \cup {"none"}]
  /\ str \in Seq(Keys)

\* The marked keystroke is in one place only: in one slot of the ring, or with
\* the reader, or returned.  Between its copy and the clearing of the flag it is
\* in its slot as well, where only the reader looks.
MarkInv ==
  /\ ~marked => ~returned /\ ~temp.mark /\ \A i \in Slots : ~buffer[i]
  /\ \A i, j \in Slots : buffer[i] /\ buffer[j] => i = j
  /\ temp.mark => at \in {"clear", "wipe", "wptr", "rptr", "getchar"} /\ ~returned
  /\ temp.mark => \A i \in Slots : buffer[i] => at = "clear" /\ i = buffer_rptr
  /\ returned => \A i \in Slots : ~buffer[i]

LEMMA RingType ==
  /\ Ring \in Nat \ {0} /\ 0 \in Slots
  /\ \A w \in Slots : w \in Nat /\ After(w) \in Slots
<1>1. Ring \in Nat \ {0} /\ 0 \in Slots /\ \A w \in Slots : w \in Nat
  BY ConsoleAssumption DEF Slots
<1>2. \A w \in Nat : After(w) \in Slots
  BY <1>1 DEF After, Slots
<1> QED BY <1>1, <1>2

LEMMA InitInv == ConsoleInit => TypeInv /\ MarkInv
<1> SUFFICES ASSUME ConsoleInit PROVE TypeInv /\ MarkInv
  OBVIOUS
<1>1. buffer \in [Slots -> BOOLEAN] /\ \A i \in Slots : ~buffer[i]
  BY DEF ConsoleInit, Nothing
<1>2. str \in Seq(Keys) /\ Len(str) = 0
  BY DEF ConsoleInit
<1>3. /\ used = 0 /\ Length \in Nat \ {0}
      /\ at = "getkey" /\ buffer_rptr = 0 /\ buffer_wptr = 0 /\ 0 \in Slots
      /\ ready \in [Slots -> BOOLEAN]
  BY RingType, ConsoleAssumption DEF ConsoleInit, Nothing
<1>4. TypeOK
  BY <1>1, <1>2, <1>3 DEF TypeOK
<1>5. TypeInv
  BY <1>2, <1>3, <1>4, ConsoleAssumption DEF ConsoleInit, TypeInv, NoKey, Places
<1> QED BY <1>1, <1>5 DEF ConsoleInit, MarkInv, NoKey

\* The handler stores a key at any moment.
LEMMA HandlerStep ==
  ASSUME TypeInv, MarkInv, ps2_handler
  PROVE  TypeInv' /\ MarkInv'
<1>1. PICK m \in BOOLEAN :
        /\ m => ~marked
        /\ marked' = (marked \/ m)
        /\ buffer' = [buffer EXCEPT ![buffer_wptr] = m]
        /\ ready' = [ready EXCEPT ![buffer_wptr] = TRUE]
        /\ buffer_wptr' = After(buffer_wptr)
        /\ UNCHANGED <<buffer_rptr, at, temp, str, used, returned, words>>
  BY DEF ps2_handler
<1>2. /\ buffer \in [Slots -> BOOLEAN] /\ ready \in [Slots -> BOOLEAN]
      /\ buffer_wptr \in Slots /\ marked \in BOOLEAN
  BY DEF TypeInv, TypeOK
<1>3. /\ buffer' \in [Slots -> BOOLEAN] /\ ready' \in [Slots -> BOOLEAN]
      /\ buffer_wptr' \in Slots /\ marked' \in BOOLEAN
  BY <1>1, <1>2, RingType
<1>4. TypeInv'
  BY <1>1, <1>3 DEF TypeInv, TypeOK
<1>5. \A i \in Slots : buffer'[i] = IF i = buffer_wptr THEN m ELSE buffer[i]
  BY <1>1, <1>2
<1>6. CASE m
  <2>1. ~marked /\ ~returned /\ ~temp.mark /\ \A i \in Slots : ~buffer[i]
    BY <1>1, <1>6 DEF MarkInv
  <2>2. \A i \in Slots : buffer'[i] => i = buffer_wptr
    BY <2>1, <1>5
  <2>3. marked' /\ ~returned' /\ ~temp'.mark
    BY <2>1, <1>1, <1>6
  <2> QED BY <2>2, <2>3, <1>4 DEF MarkInv
<1>7. CASE ~m
  <2>1. marked' = marked /\ \A i \in Slots : buffer'[i] => buffer[i]
    BY <1>1, <1>2, <1>5, <1>7
  <2>2. returned' = returned /\ temp' = temp /\ at' = at /\ buffer_rptr' = buffer_rptr
    BY <1>1
  <2> QED BY <2>1, <2>2, <1>4 DEF MarkInv
<1> QED BY <1>4, <1>6, <1>7

\* The steps of kernel_getkey and init_buffer.
LEMMA GetkeyStep ==
  ASSUME TypeInv, MarkInv, kernel_getkey
  PROVE  TypeInv' /\ MarkInv'
<1>1. PICK c \in Keys : temp' = [mark |-> buffer[buffer_rptr], c |-> c]
  BY DEF kernel_getkey
<1>2. at = "getkey" /\ at' = "clear" /\ UNCHANGED <<marked, ring, str, used, returned, words>>
  BY DEF kernel_getkey
<1>3. buffer_rptr \in Slots /\ buffer[buffer_rptr] \in BOOLEAN
  BY <1>2 DEF TypeInv, TypeOK
<1>4. TypeInv'
  BY <1>1, <1>2, <1>3 DEF TypeInv, TypeOK, ring, Places
<1>5. temp'.mark = buffer[buffer_rptr]
  BY <1>1
<1>6. MarkInv'
  BY <1>2, <1>3, <1>5 DEF MarkInv, ring
<1> QED BY <1>4, <1>6

LEMMA AdvanceStep ==
  ASSUME TypeInv, MarkInv, getkey_advance
  PROVE  TypeInv' /\ MarkInv'
<1>1. /\ at = "clear"
      /\ ready' = [ready EXCEPT ![buffer_rptr] = FALSE]
      /\ buffer' = [i \in Slots |-> ready'[i] /\ buffer[i]]
      /\ buffer_rptr' = buffer_rptr + 1
      /\ at' = IF buffer_rptr + 1 = Ring THEN "wipe" ELSE "getchar"
      /\ UNCHANGED <<marked, buffer_wptr, temp, str, used, returned, words>>
  BY DEF getkey_advance
<1>2. buffer_rptr \in Slots /\ ready \in [Slots -> BOOLEAN] /\ buffer \in [Slots -> BOOLEAN]
  BY <1>1 DEF TypeInv, TypeOK
<1>3. ready' \in [Slots -> BOOLEAN] /\ ~ready'[buffer_rptr]
  BY <1>1, <1>2
<1>4. buffer' \in [Slots -> BOOLEAN]
  BY <1>1, <1>2, <1>3
<1>5. \A i \in Slots : buffer'[i] => buffer[i] /\ i # buffer_rptr
  BY <1>1, <1>2, <1>3
<1>6. IF at' = "wipe" THEN buffer_rptr' = Ring ELSE buffer_rptr' \in Slots
  BY <1>1, <1>2, RingType DEF Slots
<1>7. TypeInv'
  BY <1>1, <1>3, <1>4, <1>6 DEF TypeInv, TypeOK, Places
<1>8. MarkInv'
  BY <1>1, <1>5 DEF MarkInv
<1> QED BY <1>7, <1>8

LEMMA ResetStep ==
  ASSUME TypeInv, MarkInv, init_buffer_wipe \/ init_buffer_wptr \/ init_buffer_rptr
  PROVE  TypeInv' /\ MarkInv'
<1>1. CASE init_buffer_wipe
  <2>1. buffer' \in [Slots -> BOOLEAN] /\ ready' \in [Slots -> BOOLEAN] /\ \A i \in Slots : ~buffer'[i]
    BY <1>1 DEF init_buffer_wipe, Nothing
  <2>2. TypeInv'
    BY <1>1, <2>1 DEF init_buffer_wipe, TypeInv, TypeOK, Places
  <2>3. MarkInv'
    BY <1>1, <2>1 DEF init_buffer_wipe, MarkInv
  <2> QED BY <2>2, <2>3
<1>2. CASE init_buffer_wptr
  <2>1. TypeInv'
    BY <1>2, RingType DEF init_buffer_wptr, TypeInv, TypeOK, Places
  <2>2. MarkInv'
    BY <1>2 DEF init_buffer_wptr, MarkInv
  <2> QED BY <2>1, <2>2
<1>3. CASE init_buffer_rptr
  <2>1. TypeInv'
    BY <1>3, RingType DEF init_buffer_rptr, TypeInv, TypeOK, Places
  <2>2. MarkInv'
    BY <1>3 DEF init_buffer_rptr, MarkInv
  <2> QED BY <2>1, <2>2
<1> QED BY <1>1, <1>2, <1>3

\* kernel_getkey returns: the keystroke leaves the reader for good.
LEMMA GotStep ==
  ASSUME TypeInv, MarkInv, NEW next \in {"getkey", "parse"}, NEW line \in Seq(Keys),
         NEW n \in Nat,
         Len(line) <= used \/ Len(line) <= n,
         Len(line) <= (IF next = "parse" THEN Length ELSE Length - 1),
         n <= (IF next = "parse" THEN Length + 1 ELSE Length),
         Got(next, line, n)
  PROVE  TypeInv' /\ MarkInv'
<1>1. /\ at = "getchar" /\ returned' = (returned \/ temp.mark)
      /\ temp' = NoKey /\ at' = next /\ str' = line
      /\ used' = IF used < n THEN n ELSE used
      /\ UNCHANGED <<marked, ring, words>>
  BY DEF Got
<1>2. temp.mark \in BOOLEAN /\ NoKey \in [mark : BOOLEAN, c : Keys \cup {"none"}] /\ ~NoKey.mark
  BY DEF TypeInv, NoKey
<1>3. used \in Nat /\ used <= Length /\ Length \in Nat /\ Len(line) \in Nat
  BY <1>1, ConsoleAssumption DEF TypeInv, TypeOK
<1>4. /\ used' \in Nat /\ Len(line) <= used'
      /\ IF next = "parse" THEN Len(line) <= Length /\ used' <= Length + 1
         ELSE Len(line) <= Length - 1 /\ used' <= Length
  BY <1>1, <1>3
<1>5. TypeInv'
  BY <1>1, <1>2, <1>4 DEF TypeInv, TypeOK, ring, Places
<1>6. MarkInv'
  BY <1>1, <1>2 DEF MarkInv, ring, TypeInv
<1> QED BY <1>5, <1>6

\* Taking a character back.
LEMMA FrontType ==
  \A s \in Seq(Keys) : s # << >> =>
    /\ Front(s) \in Seq(Keys) /\ Len(Front(s)) = Len(s) - 1
    /\ \A i \in 1 .. Len(Front(s)) : Front(s)[i] = s[i]
<1> SUFFICES ASSUME NEW s \in Seq(Keys), s # << >>
             PROVE  /\ Front(s) \in Seq(Keys) /\ Len(Front(s)) = Len(s) - 1
                    /\ \A i \in 1 .. Len(Front(s)) : Front(s)[i] = s[i]
  OBVIOUS
<1>1. Len(s) \in Nat /\ Len(s) # 0 /\ \A i \in 1 .. (Len(s) - 1) : s[i] \in Keys
  OBVIOUS
<1>2. PICK n \in Nat : n = Len(s) - 1
  <2>1. PICK k \in Nat : k = Len(s)
    BY <1>1
  <2>2. k - 1 \in Nat
    BY <1>1, <2>1
  <2> QED BY <2>1, <2>2, Zenon
<1>3. /\ SubSeq(s, 1, n) \in Seq(Keys)
      /\ Len(SubSeq(s, 1, n)) = IF 1 <= n THEN n - 1 + 1 ELSE 0
      /\ \A i \in 1 .. n - 1 + 1 : SubSeq(s, 1, n)[i] = s[1 + i - 1]
  BY <1>1, <1>2, SubSeqProperties
<1>4. Len(SubSeq(s, 1, n)) = n /\ \A i \in 1 .. n : SubSeq(s, 1, n)[i] = s[i]
  BY <1>2, <1>3
<1> QED BY <1>2, <1>3, <1>4 DEF Front

\* The line editor keeps the line in its array, the 0 that ends it at most one
\* place behind.
LEMMA EditStep ==
  ASSUME TypeInv, MarkInv, kernel_getchar \/ read_line
  PROVE  TypeInv' /\ MarkInv'
<1>0. Length \in Nat \ {0}
  BY ConsoleAssumption
<1>1. str \in Seq(Keys) /\ Len(str) \in Nat /\ temp.c \in Keys \cup {"none"}
  BY DEF TypeInv
<1>2. at = "getchar" => Len(str) <= Length - 1 /\ Len(str) <= used
  BY DEF TypeInv, TypeOK
<1>3. at = "getchar"
  BY DEF kernel_getchar, read_line, Got
<1>4. CASE Got("getkey", str, 0)
  BY <1>0, <1>1, <1>2, <1>3, <1>4, GotStep
<1>5. CASE temp.c = "enter" /\ Got("parse", Append(str, "enter"), Len(str) + 2)
  <2>1. Append(str, "enter") \in Seq(Keys) /\ Len(Append(str, "enter")) = Len(str) + 1
    BY <1>1, <1>5
  <2>2. /\ Len(str) + 2 \in Nat /\ Len(Append(str, "enter")) <= Len(str) + 2
        /\ Len(Append(str, "enter")) <= Length /\ Len(str) + 2 <= Length + 1
    BY <2>1, <1>0, <1>1, <1>2, <1>3
  <2> QED BY <2>1, <2>2, <1>5, GotStep
<1>6. CASE str # << >> /\ Got("getkey", Front(str), Len(str) + 1)
  <2>1. Front(str) \in Seq(Keys) /\ Len(Front(str)) = Len(str) - 1
    BY <1>1, <1>6, FrontType
  <2>2. /\ Len(str) + 1 \in Nat /\ Len(Front(str)) <= Len(str) + 1
        /\ Len(Front(str)) <= Length - 1 /\ Len(str) + 1 <= Length
    BY <2>1, <1>0, <1>1, <1>2, <1>3
  <2> QED BY <2>1, <2>2, <1>6, GotStep
<1>7. CASE /\ temp.c \in {"x", "space"} /\ HasRoom(str)
           /\ Got("getkey", Append(str, temp.c), Len(str) + 1)
  <2>1. Append(str, temp.c) \in Seq(Keys) /\ Len(Append(str, temp.c)) = Len(str) + 1
    BY <1>1, <1>7
  <2>2. /\ Len(str) + 1 \in Nat /\ Len(Append(str, temp.c)) <= Len(str) + 1
        /\ Len(Append(str, temp.c)) <= Length - 1 /\ Len(str) + 1 <= Length
    BY <2>1, <1>0, <1>1, <1>7 DEF HasRoom
  <2> QED BY <2>1, <2>2, <1>7, GotStep
<1> QED BY <1>4, <1>5, <1>6, <1>7 DEF kernel_getchar, read_line

LEMMA LineStep ==
  ASSUME TypeInv, MarkInv, parse_cmd \/ osh
  PROVE  TypeInv' /\ MarkInv'
<1>1. CASE parse_cmd
  BY <1>1 DEF parse_cmd, TypeInv, TypeOK, MarkInv, ring, Places
<1>2. CASE osh
  <2>1. str' \in Seq(Keys) /\ Len(str') = 0
    BY <1>2 DEF osh
  <2>2. TypeInv'
    BY <1>2, <2>1, ConsoleAssumption DEF osh, TypeInv, TypeOK, ring, Places
  <2>3. MarkInv'
    BY <1>2 DEF osh, MarkInv, ring
  <2> QED BY <2>2, <2>3
<1> QED BY <1>1, <1>2

-----------------------------------------------------------------------------
(* Theorems about the keyboard and the line.                               *)

\* Where the marked keystroke is, in every reachable state of handler and
\* reader (ps2.c ps2_handler, kernel_getkey, init_buffer).
THEOREM RingInvariant == ConsoleSpec => [](TypeInv /\ MarkInv)
<1>1. TypeInv /\ MarkInv /\ [ConsoleNext]_consoleVars => TypeInv' /\ MarkInv'
  <2> SUFFICES ASSUME TypeInv, MarkInv, [ConsoleNext]_consoleVars PROVE TypeInv' /\ MarkInv'
    OBVIOUS
  <2>1. CASE UNCHANGED consoleVars
    BY <2>1 DEF consoleVars, ring, TypeInv, TypeOK, MarkInv
  <2> QED BY <2>1, HandlerStep, GetkeyStep, AdvanceStep, ResetStep, EditStep, LineStep
          DEF ConsoleNext, Shell
<1> QED BY InitInv, <1>1, PTL DEF ConsoleSpec

\* For a ring and a line of any length the pointers stay in the ring and what
\* read_line stores in its array, but for the 0 that ends a line: it is at most
\* one place behind (ps2.c kernel_getkey, shell.c read_line).
THEOREM ConsoleTypes == ConsoleSpec => []TypeOK
<1>1. TypeInv => TypeOK
  BY DEF TypeInv
<1> QED BY <1>1, RingInvariant, PTL

\* No keystroke is returned twice, wherever the handler interrupts the reader
\* and the reset of the ring (ps2.c kernel_getkey, init_buffer).
THEOREM KeysAreReturnedOnce == ConsoleSpec => []ReturnedOnce
<1>1. MarkInv => ReturnedOnce
  BY DEF MarkInv, ReturnedOnce
<1> QED BY <1>1, RingInvariant, PTL

-----------------------------------------------------------------------------
(* The words of a line.                                                    *)

\* A whole line: blanks and letters, then the newline.
Line(s) ==
  /\ s \in Seq(Keys) /\ s # << >> /\ s[Len(s)] = "enter"
  /\ \A i \in 1 .. Len(s) - 1 : s[i] \in {"x", "space"}

\* n characters from i on are a word of their own.
Spans(s, i, n) ==
  /\ n \in 1 .. Len(s) - i + 1
  /\ \A k \in i .. i + n - 1 : s[k] = "x"
  /\ i + n > Len(s) \/ s[i + n] # "x"

\* A word that begins at i ends in one place only.
LEMMA SpansOnce ==
  ASSUME NEW s, Len(s) \in Nat, NEW i \in 1 .. Len(s), NEW n, Spans(s, i, n),
         NEW m, Spans(s, i, m)
  PROVE  n = m
<1>1. /\ n \in Nat /\ m \in Nat /\ n > 0 /\ m > 0
      /\ i + n <= Len(s) + 1 /\ i + m <= Len(s) + 1
  BY DEF Spans
<1>2. ASSUME NEW a \in Nat, NEW b \in Nat, a < b, i + b <= Len(s) + 1, Spans(s, i, a), Spans(s, i, b)
      PROVE  FALSE
  <2>1. i + a \in i .. i + b - 1 /\ i + a <= Len(s)
    BY <1>2
  <2> QED BY <2>1, <1>2 DEF Spans
<1>3. ~(n < m) /\ ~(m < n)
  BY <1>1, <1>2
<1> QED BY <1>1, <1>3

LEMMA WordLength ==
  ASSUME NEW s, Len(s) \in Nat, NEW i \in 1 .. Len(s), NEW n, Spans(s, i, n)
  PROVE  WordAt(s, i) = n
<1> DEFINE W(m) == /\ \A k \in i .. i + m - 1 : s[k] = "x"
                   /\ i + m > Len(s) \/ s[i + m] # "x"
<1>1. WordAt(s, i) = CHOOSE m \in 1 .. Len(s) - i + 1 : W(m)
  BY DEF WordAt
<1>2. n \in 1 .. Len(s) - i + 1 /\ W(n)
  BY DEF Spans
<1> HIDE DEF W
<1>3. WordAt(s, i) \in 1 .. Len(s) - i + 1 /\ W(WordAt(s, i))
  BY <1>1, <1>2
<1>4. Spans(s, i, WordAt(s, i))
  BY <1>3 DEF Spans, W
<1> QED BY <1>4, SpansOnce

\* Letters from i on are part of the word that begins there.
LEMMA LongWord ==
  ASSUME NEW s, Len(s) \in Nat, NEW i \in 1 .. Len(s), NEW a \in Nat \ {0},
         i + a - 1 <= Len(s), \A k \in i .. i + a - 1 : s[k] = "x"
  PROVE  WordAt(s, i) \in Nat /\ WordAt(s, i) >= a
<1> DEFINE Ends == {m \in Nat : i + m > Len(s) \/ s[i + m] # "x"}
<1>1. Len(s) \in Ends
  OBVIOUS
<1>2. PICK n \in Ends : \A m \in Ends : n <= m
  BY <1>1, Least
<1>3. n \in Nat /\ (i + n > Len(s) \/ s[i + n] # "x")
  OBVIOUS
<1>4. ASSUME NEW m \in Nat, m < n PROVE i + m <= Len(s) /\ s[i + m] = "x"
  <2>1. m \notin Ends
    BY <1>2, <1>4
  <2> QED BY <2>1
<1> HIDE DEF Ends
<1>5. n >= a
  <2>1. SUFFICES ASSUME n < a PROVE FALSE
    BY <1>3
  <2>2. i + n \in i .. i + a - 1 /\ i + n <= Len(s)
    BY <2>1, <1>3
  <2> QED BY <2>2, <1>3
<1>6. n - 1 \in Nat /\ n - 1 < n
  BY <1>3, <1>5
<1>7. i + (n - 1) <= Len(s)
  BY <1>4, <1>6
<1>8. ASSUME NEW k \in i .. i + n - 1 PROVE s[k] = "x"
  <2>1. k - i \in Nat /\ k - i < n /\ i + (k - i) = k
    BY <1>3, <1>8
  <2> QED BY <2>1, <1>4
<1>9. n \in 1 .. Len(s) - i + 1
  BY <1>3, <1>5, <1>7
<1>10. Spans(s, i, n)
  BY <1>3, <1>8, <1>9 DEF Spans
<1> QED BY <1>3, <1>5, <1>10, WordLength

-----------------------------------------------------------------------------
(* The state machine of parse_cmd.                                         *)

\* w has the words of the line that begin at B, in their order.
WordsFrom(b, w, s, B) ==
  /\ b \in [1 .. Len(w) -> Begins(s)]
  /\ \A i, j \in 1 .. Len(w) : i < j => b[i] < b[j]
  /\ Range(b) = B
  /\ \A i \in 1 .. Len(w) : w[i] = WordAt(s, b[i])

\* The words that begin up to m.
Started(s, m) == {i \in Begins(s) : i <= m}

\* The last n characters before k are the word being read.
Reading(s, k, n) ==
  /\ n <= k /\ n < ArgLength /\ k < Len(s)
  /\ \A i \in k - n + 1 .. k : s[i] = "x"
  /\ n > 0 => k - n + 1 \in Begins(s)
  /\ n = 0 => k = 0 \/ s[k] # "x"

\* What the machine knows after k characters.
ParseInv(p, s, k) ==
  /\ p \in [words : Seq(Nat), word : Nat, done : BOOLEAN]
  /\ p.done => AreWordsOf(p.words, s)
  /\ ~p.done => /\ \E b : WordsFrom(b, p.words, s, Started(s, k - p.word))
                /\ \A i \in Started(s, k - p.word) : WordAt(s, i) < ArgLength
                /\ Reading(s, k, p.word)

\* A word more.
LEMMA WordListed ==
  ASSUME NEW w \in Seq(Nat), NEW s, Begins(s) \subseteq Nat, NEW m \in Nat, NEW b, WordsFrom(b, w, s, Started(s, m)),
         NEW a \in Begins(s), a > m, NEW n \in Nat, n = WordAt(s, a)
  PROVE  \E c : WordsFrom(c, Append(w, n), s, Started(s, m) \cup {a})
<1>1. /\ Len(w) \in Nat /\ Len(Append(w, n)) = Len(w) + 1 /\ Append(w, n)[Len(w) + 1] = n
      /\ \A i \in 1 .. Len(w) : Append(w, n)[i] = w[i]
  OBVIOUS
<1> DEFINE N == Len(w) + 1
<1> DEFINE c == [i \in 1 .. N |-> IF i = N THEN a ELSE b[i]]
<1>2. /\ b \in [1 .. Len(w) -> Begins(s)]
      /\ \A i, j \in 1 .. Len(w) : i < j => b[i] < b[j]
      /\ Range(b) = Started(s, m)
      /\ \A i \in 1 .. Len(w) : w[i] = WordAt(s, b[i])
  BY DEF WordsFrom
<1>3. \A i \in 1 .. N : i = N \/ i \in 1 .. Len(w)
  BY <1>1
<1>4. 1 .. Len(w) \subseteq 1 .. N /\ N \in 1 .. N /\ N \notin 1 .. Len(w)
  BY <1>1
<1>5. /\ c \in [1 .. N -> Begins(s)] /\ c[N] = a
      /\ \A i \in 1 .. Len(w) : c[i] = b[i]
  BY <1>2, <1>3, <1>4
<1> HIDE DEF c
<1>6. \A i \in 1 .. Len(w) : b[i] \in Nat /\ b[i] < a
  <2>1. \A i \in 1 .. Len(w) : b[i] \in Started(s, m)
    BY <1>2 DEF Range
  <2> QED BY <2>1 DEF Started
<1>7. ASSUME NEW i \in 1 .. N, NEW j \in 1 .. N, i < j PROVE c[i] < c[j]
  <2>1. i \in 1 .. Len(w)
    BY <1>7, <1>1
  <2>2. CASE j = N
    BY <2>1, <2>2, <1>5, <1>6
  <2>3. CASE j # N
    BY <2>1, <2>3, <1>3, <1>5, <1>7, <1>2
  <2> QED BY <2>2, <2>3
<1>8. Range(c) = Started(s, m) \cup {a}
  BY <1>2, <1>3, <1>4, <1>5 DEF Range
<1>9. \A i \in 1 .. N : Append(w, n)[i] = WordAt(s, c[i])
  BY <1>1, <1>2, <1>3, <1>5
<1>10. WordsFrom(c, Append(w, n), s, Started(s, m) \cup {a})
  BY <1>1, <1>5, <1>7, <1>8, <1>9 DEF WordsFrom
<1> QED BY <1>10

\* Nothing has been read.
Unread == [words |-> << >>, word |-> 0, done |-> FALSE]

LEMMA LineLength ==
  ASSUME NEW s, Line(s)
  PROVE  /\ Len(s) \in Nat \ {0} /\ s[Len(s)] = "enter"
         /\ Begins(s) \subseteq 1 .. Len(s)
         /\ \A i \in 1 .. Len(s) : s[i] \in {"x", "space", "enter"} /\ (s[i] = "enter" <=> i = Len(s))
<1>1. /\ s \in Seq(Keys) /\ s # << >> /\ s[Len(s)] = "enter"
      /\ \A i \in 1 .. Len(s) - 1 : s[i] \in {"x", "space"}
  BY DEF Line
<1>2. Len(s) \in Nat /\ Len(s) # 0
  BY <1>1
<1>3. \A i \in 1 .. Len(s) : i = Len(s) \/ i \in 1 .. Len(s) - 1
  BY <1>2
<1> QED BY <1>1, <1>2, <1>3 DEF Begins

LEMMA ParseStarts ==
  ASSUME NEW s, Line(s)
  PROVE  ParseInv(Unread, s, 0)
<1>1. Len(s) \in Nat \ {0} /\ Begins(s) \subseteq 1 .. Len(s)
  BY LineLength
<1>2. Started(s, 0) = {}
  BY <1>1 DEF Started
<1> DEFINE b == [i \in 1 .. 0 |-> 0]
<1>3. WordsFrom(b, << >>, s, {})
  BY DEF WordsFrom, Range
<1>4. Reading(s, 0, 0)
  BY <1>1, ConsoleAssumption DEF Reading
<1>5. /\ Unread \in [words : Seq(Nat), word : Nat, done : BOOLEAN]
      /\ Unread.words = << >> /\ Unread.word = 0 /\ ~Unread.done
  BY DEF Unread
<1> HIDE DEF b
<1>6. 0 - Unread.word = 0
  BY <1>5
<1> QED BY <1>2, <1>3, <1>4, <1>5, <1>6 DEF ParseInv

\* A letter is one more of the word being read.
LEMMA LetterRead ==
  ASSUME NEW s, Line(s), NEW k \in 1 .. Len(s), s[k] = "x", NEW n \in Nat,
         Reading(s, k - 1, n)
  PROVE  /\ k < Len(s) /\ k - n \in Begins(s)
         /\ \A i \in k - n .. k : s[i] = "x"
         /\ n + 1 < ArgLength => Reading(s, k, n + 1)
<1>1. Len(s) \in Nat \ {0} /\ k \in Nat \ {0} /\ k # Len(s)
  BY LineLength
<1>2. k < Len(s)
  BY <1>1
<1>3. /\ n <= k - 1 /\ n < ArgLength
      /\ \A i \in (k - 1) - n + 1 .. k - 1 : s[i] = "x"
      /\ n > 0 => (k - 1) - n + 1 \in Begins(s)
      /\ n = 0 => k - 1 = 0 \/ s[k - 1] # "x"
  BY DEF Reading
<1>4. (k - 1) - n + 1 = k - n
  BY <1>1
<1>5. k - n \in Begins(s)
  <2>1. CASE n > 0
    BY <2>1, <1>3, <1>4
  <2>2. CASE n = 0
    BY <2>2, <1>1, <1>3 DEF Begins
  <2> QED BY <2>1, <2>2
<1>6. \A i \in k - n .. k : s[i] = "x"
  <2>1. \A i \in k - n .. k : i = k \/ i \in (k - 1) - n + 1 .. k - 1
    BY <1>1
  <2> QED BY <2>1, <1>3
<1>7. ASSUME n + 1 < ArgLength PROVE Reading(s, k, n + 1)
  <2>1. k - (n + 1) + 1 = k - n /\ n + 1 <= k /\ n + 1 > 0 /\ n + 1 # 0
    BY <1>1, <1>3
  <2> QED BY <2>1, <1>2, <1>5, <1>6, <1>7 DEF Reading
<1> QED BY <1>2, <1>5, <1>6, <1>7

\* A blank or the newline ends the word being read.
LEMMA BlankRead ==
  ASSUME NEW s, Line(s), NEW k \in 1 .. Len(s), s[k] # "x", NEW n \in Nat,
         Reading(s, k - 1, n)
  PROVE  /\ n = 0 => Started(s, k) = Started(s, k - 1)
         /\ n > 0 => /\ Started(s, k) = Started(s, k - 1 - n) \cup {k - n}
                     /\ k - n \in Begins(s) /\ WordAt(s, k - n) = n
<1>1. /\ Len(s) \in Nat \ {0} /\ k \in Nat \ {0} /\ k <= Len(s)
      /\ Begins(s) \subseteq 1 .. Len(s)
  BY LineLength
<1>2. /\ n <= k - 1 /\ n < ArgLength
      /\ \A i \in (k - 1) - n + 1 .. k - 1 : s[i] = "x"
      /\ n > 0 => (k - 1) - n + 1 \in Begins(s)
  BY DEF Reading
<1>3. (k - 1) - n + 1 = k - n /\ k - 1 - n \in Nat
  BY <1>1, <1>2
<1>4. k \notin Begins(s)
  BY DEF Begins
<1>5. CASE n = 0
  <2>1. \A i \in Begins(s) : i <= k <=> i <= k - 1
    BY <1>1, <1>4
  <2> QED BY <2>1, <1>5 DEF Started
<1>6. CASE n > 0
  <2>1. k - n \in Begins(s)
    BY <1>2, <1>3, <1>6
  <2>2. ASSUME NEW i \in Begins(s), k - n < i PROVE ~(i <= k)
    <3>1. SUFFICES ASSUME i < k PROVE FALSE
      BY <1>1, <1>4, <2>2
    <3>2. i # 1 /\ i - 1 \in (k - 1) - n + 1 .. k - 1
      BY <2>2, <3>1, <1>1, <1>2
    <3>3. s[i - 1] = "x"
      BY <3>2, <1>2
    <3> QED BY <3>2, <3>3 DEF Begins
  <2>3. \A i \in Begins(s) : i <= k <=> i <= k - 1 - n \/ i = k - n
    BY <2>2, <1>1, <1>3
  <2>4. Started(s, k) = Started(s, k - 1 - n) \cup {k - n}
    BY <2>1, <2>3 DEF Started
  <2>5. Spans(s, k - n, n)
    <3>1. n \in 1 .. Len(s) - (k - n) + 1
      BY <1>1, <1>2, <1>6
    <3>2. (k - n) + n - 1 = k - 1 /\ (k - n) + n = k
      BY <1>1
    <3> QED BY <3>1, <3>2, <1>2, <1>3 DEF Spans
  <2>6. k - n \in 1 .. Len(s)
    BY <2>1, <1>1
  <2>7. WordAt(s, k - n) = n
    BY <2>5, <2>6, <1>1, WordLength
  <2> QED BY <2>1, <2>4, <2>7, <1>6
<1> QED BY <1>5, <1>6

\* The words that fit, when the one that begins next does not or there is none.
LEMMA FittingAre ==
  ASSUME NEW s, Line(s), NEW m \in Nat, \A i \in Started(s, m) : WordAt(s, i) < ArgLength,
         \/ \A i \in Begins(s) : i <= m
         \/ m + 1 \in Begins(s) /\ ~(WordAt(s, m + 1) < ArgLength)
  PROVE  Fitting(s) = Started(s, m)
<1>1. Begins(s) \subseteq 1 .. Len(s) /\ Len(s) \in Nat
  BY LineLength
<1>2. \A i \in Begins(s) : i \in Nat
  BY <1>1
<1>3. Started(s, m) \subseteq Fitting(s)
  BY <1>2 DEF Started, Fitting
<1>4. ASSUME NEW i \in Fitting(s), ~(i <= m) PROVE FALSE
  <2>1. i \in Begins(s) /\ \A j \in Begins(s) : j <= i => WordAt(s, j) < ArgLength
    BY DEF Fitting
  <2>2. m + 1 \in Begins(s) /\ ~(WordAt(s, m + 1) < ArgLength)
    BY <1>4, <2>1
  <2>3. m + 1 <= i
    BY <1>2, <1>4, <2>1
  <2> QED BY <2>1, <2>2, <2>3
<1>5. Fitting(s) \subseteq Started(s, m)
  BY <1>4 DEF Fitting, Started
<1> QED BY <1>3, <1>5

\* One character.
LEMMA ParseStep ==
  ASSUME NEW s, Line(s), NEW k \in 1 .. Len(s), NEW p, ParseInv(p, s, k - 1)
  PROVE  ParseInv(ParseChar(p, s[k]), s, k)
<1>1. /\ Len(s) \in Nat \ {0} /\ k \in Nat \ {0} /\ k <= Len(s) /\ k - 1 \in Nat
      /\ Begins(s) \subseteq 1 .. Len(s) /\ Begins(s) \subseteq Nat
      /\ s[k] \in {"x", "space", "enter"} /\ (s[k] = "enter" <=> k = Len(s))
  BY LineLength
<1>2. p \in [words : Seq(Nat), word : Nat, done : BOOLEAN]
  BY DEF ParseInv
<1>3. PICK n : n = p.word
  OBVIOUS
<1>4. PICK w : w = p.words
  OBVIOUS
<1>5. n \in Nat /\ w \in Seq(Nat)
  BY <1>2, <1>3, <1>4
<1>6. CASE p.done
  <2>1. ParseChar(p, s[k]) = p
    BY <1>6 DEF ParseChar
  <2> QED BY <2>1, <1>2, <1>6 DEF ParseInv
<1>7. CASE ~p.done
  <2>1. /\ \E b : WordsFrom(b, w, s, Started(s, k - 1 - n))
        /\ \A i \in Started(s, k - 1 - n) : WordAt(s, i) < ArgLength
        /\ Reading(s, k - 1, n)
    BY <1>3, <1>4, <1>7 DEF ParseInv
  <2>2. k - 1 - n \in Nat /\ n < ArgLength /\ ArgLength \in Nat \ {0, 1}
    BY <2>1, <1>1, <1>5, ConsoleAssumption DEF Reading
  <2>3. CASE s[k] = "x" /\ n < ArgLength - 1
    <3>1. PICK q : q = ParseChar(p, s[k])
      OBVIOUS
    <3>2. q = [p EXCEPT !.word = @ + 1]
      BY <3>1, <2>3, <1>3, <1>7 DEF ParseChar
    <3>3. /\ q \in [words : Seq(Nat), word : Nat, done : BOOLEAN]
          /\ q.words = w /\ q.word = n + 1 /\ q.done = p.done
      BY <3>2, <1>2, <1>3, <1>4
    <3>4. Reading(s, k, n + 1)
      BY <2>1, <2>2, <2>3, <1>5, LetterRead
    <3>5. k - (n + 1) = k - 1 - n
      BY <1>1, <1>5
    <3>6. ParseInv(q, s, k)
      BY <3>3, <3>4, <3>5, <2>1, <1>7 DEF ParseInv
    <3> QED BY <3>1, <3>6
  <2>4. CASE s[k] = "x" /\ ~(n < ArgLength - 1)
    <3>1. PICK q : q = ParseChar(p, s[k])
      OBVIOUS
    <3>2. q = [p EXCEPT !.done = TRUE]
      BY <3>1, <2>4, <1>3, <1>7 DEF ParseChar
    <3>3. /\ q \in [words : Seq(Nat), word : Nat, done : BOOLEAN]
          /\ q.words = w /\ q.done
      BY <3>2, <1>2, <1>4
    <3>4. /\ k - n \in Begins(s)
          /\ \A i \in k - n .. k : s[i] = "x"
      BY <2>1, <2>4, <1>5, LetterRead
    <3>5. WordAt(s, k - n) \in Nat /\ WordAt(s, k - n) >= n + 1
      <4>1. k - n \in 1 .. Len(s) /\ (k - n) + (n + 1) - 1 = k /\ n + 1 \in Nat \ {0}
        BY <3>4, <1>1, <1>5
      <4> QED BY <4>1, <3>4, <1>1, LongWord
    <3>6. ~(WordAt(s, k - n) < ArgLength)
      BY <3>5, <2>2, <2>4, <1>5
    <3>7. (k - 1 - n) + 1 = k - n
      BY <1>1, <1>5
    <3>8. Fitting(s) = Started(s, k - 1 - n)
      BY <3>4, <3>6, <3>7, <2>1, <2>2, FittingAre
    <3>9. AreWordsOf(w, s)
      BY <3>8, <2>1 DEF WordsFrom, AreWordsOf
    <3>10. ParseInv(q, s, k)
      BY <3>3, <3>9 DEF ParseInv
    <3> QED BY <3>1, <3>10
  <2>5. CASE s[k] # "x"
    <3>1. PICK v : v = IF n = 0 THEN w ELSE Append(w, n)
      OBVIOUS
    <3>2. PICK q : q = ParseChar(p, s[k])
      OBVIOUS
    <3>3. /\ q \in [words : Seq(Nat), word : Nat, done : BOOLEAN]
          /\ q.words = v /\ q.word = 0 /\ (q.done <=> s[k] = "enter")
      <4>1. q = [EndWord(p) EXCEPT !.done = (s[k] = "enter")]
        BY <3>2, <2>5, <1>7 DEF ParseChar
      <4>2. v \in Seq(Nat)
        BY <3>1, <1>5
      <4>3. /\ EndWord(p) \in [words : Seq(Nat), word : Nat, done : BOOLEAN]
            /\ EndWord(p).words = v /\ EndWord(p).word = 0
        <5>1. CASE n = 0
          BY <5>1, <3>1, <1>2, <1>3, <1>4 DEF EndWord
        <5>2. CASE n # 0
          BY <5>2, <4>2, <3>1, <1>2, <1>3, <1>4 DEF EndWord
        <5> QED BY <5>1, <5>2
      <4> QED BY <4>1, <4>3
    <3>4. /\ \E b : WordsFrom(b, v, s, Started(s, k))
          /\ \A i \in Started(s, k) : WordAt(s, i) < ArgLength
      <4>1. CASE n = 0
        <5>1. Started(s, k) = Started(s, k - 1) /\ k - 1 - n = k - 1
          BY <4>1, <2>1, <2>5, <1>1, <1>5, BlankRead
        <5> QED BY <5>1, <4>1, <2>1, <3>1
      <4>2. CASE n # 0
        <5>1. /\ Started(s, k) = Started(s, k - 1 - n) \cup {k - n}
              /\ k - n \in Begins(s) /\ WordAt(s, k - n) = n
          BY <4>2, <2>1, <2>5, <1>5, BlankRead
        <5>2. k - n > k - 1 - n
          BY <1>1, <1>5
        <5>3. \E b : WordsFrom(b, Append(w, n), s, Started(s, k - 1 - n) \cup {k - n})
          BY <5>1, <5>2, <2>1, <2>2, <1>1, <1>5, WordListed
        <5> QED BY <5>1, <5>3, <4>2, <3>1, <2>1, <2>2
      <4> QED BY <4>1, <4>2
    <3>5. CASE k = Len(s)
      <4>1. Fitting(s) = Started(s, k)
        BY <3>4, <3>5, <1>1, FittingAre
      <4>2. AreWordsOf(v, s)
        BY <4>1, <3>4 DEF WordsFrom, AreWordsOf
      <4>3. ParseInv(q, s, k)
        BY <4>2, <3>3, <3>5, <1>1 DEF ParseInv
      <4> QED BY <4>3, <3>2
    <3>6. CASE k # Len(s)
      <4>1. Reading(s, k, 0)
        BY <3>6, <2>2, <2>5, <1>1 DEF Reading
      <4>2. ~q.done /\ k - q.word = k
        BY <3>3, <3>6, <1>1
      <4>3. ParseInv(q, s, k)
        BY <4>1, <4>2, <3>3, <3>4 DEF ParseInv
      <4> QED BY <4>3, <3>2
    <3> QED BY <3>5, <3>6
  <2> QED BY <2>3, <2>4, <2>5
<1> QED BY <1>6, <1>7

\* One value more of the function that Parsed reads the line with.
Parses(f, k, s) == IF k = 0 THEN Unread ELSE ParseChar(f[k - 1], s[k])

IsParse(f, n, s) == f = [k \in 0 .. n |-> Parses(f, k, s)]

LEMMA ParseExists ==
  ASSUME NEW n \in Nat, NEW s
  PROVE  \E f : IsParse(f, n, s)
<1> DEFINE Absent == {i \in Nat : ~ \E f : IsParse(f, i, s)}
<1> SUFFICES ASSUME Absent # {} PROVE FALSE
  OBVIOUS
<1>1. PICK i \in Absent : \A j \in Absent : i <= j
  BY Least
<1>2. i \in Nat /\ ~ \E f : IsParse(f, i, s)
  OBVIOUS
<1>3. CASE i = 0
  <2> DEFINE h == [k \in 0 .. 0 |-> Unread]
  <2>1. IsParse(h, 0, s)
    BY DEF IsParse, Parses
  <2> QED BY <2>1, <1>2, <1>3
<1>4. CASE i # 0
  <2>1. i - 1 \in Nat /\ ~(i <= i - 1)
    BY <1>2, <1>4
  <2>2. PICK f : IsParse(f, i - 1, s)
    BY <2>1, <1>1
  <2> DEFINE h == [k \in 0 .. i |-> IF k = i THEN Parses(f, i, s) ELSE f[k]]
  <2>3. ASSUME NEW k \in 0 .. i PROVE h[k] = Parses(h, k, s)
    <3>1. k = 0 \/ (k - 1 \in 0 .. i - 1 /\ h[k - 1] = f[k - 1])
      BY <1>2, <1>4
    <3>2. Parses(h, k, s) = Parses(f, k, s)
      BY <3>1 DEF Parses
    <3>3. CASE k # i
      <4>1. k \in 0 .. i - 1
        BY <3>3, <1>2
      <4>2. f[k] = Parses(f, k, s)
        BY <4>1, <2>2 DEF IsParse
      <4> QED BY <4>2, <3>2, <3>3
    <3> QED BY <3>2, <3>3
  <2>4. h = [k \in 0 .. i |-> h[k]]
    OBVIOUS
  <2> HIDE DEF h
  <2>5. h = [k \in 0 .. i |-> Parses(h, k, s)]
    BY <2>3, <2>4
  <2> QED BY <2>5, <1>2 DEF IsParse
<1> QED BY <1>3, <1>4

\* The words of a line are found, whatever the line.
LEMMA ParsedWords ==
  ASSUME NEW s, Line(s)
  PROVE  AreWordsOf(Parsed(s), s)
<1>1. Len(s) \in Nat \ {0}
  BY LineLength
<1>2. Parsed(s) = (CHOOSE f : IsParse(f, Len(s), s))[Len(s)].words
  BY DEF Parsed, IsParse, Parses, Unread
<1>3. PICK f : f = CHOOSE g : IsParse(g, Len(s), s)
  OBVIOUS
<1>4. IsParse(f, Len(s), s)
  BY <1>1, <1>3, ParseExists
<1>5. /\ f[0] = Unread
      /\ \A k \in 1 .. Len(s) : f[k] = ParseChar(f[k - 1], s[k])
  BY <1>1, <1>4 DEF IsParse, Parses
<1> DEFINE Wrong == {k \in 0 .. Len(s) : ~ParseInv(f[k], s, k)}
<1>6. Wrong = {}
  <2> SUFFICES ASSUME Wrong # {} PROVE FALSE
    OBVIOUS
  <2>0. Wrong \subseteq Nat
    BY <1>1
  <2>1. PICK k \in Wrong : \A j \in Wrong : k <= j
    <3> HIDE DEF Wrong
    <3> QED BY <2>0, Least
  <2>2. k \in 0 .. Len(s) /\ ~ParseInv(f[k], s, k)
    OBVIOUS
  <2>3. k # 0
    BY <2>2, <1>5, ParseStarts
  <2>4. k \in 1 .. Len(s) /\ k - 1 \in 0 .. Len(s) /\ ~(k <= k - 1)
    BY <2>2, <2>3, <1>1
  <2>5. ParseInv(f[k - 1], s, k - 1)
    BY <2>1, <2>4
  <2> QED BY <2>2, <2>4, <2>5, <1>5, ParseStep
<1>7. ParseInv(f[Len(s)], s, Len(s))
  BY <1>1, <1>6
<1>8. f[Len(s)].done
  BY <1>7 DEF ParseInv, Reading
<1> QED BY <1>2, <1>3, <1>7, <1>8 DEF ParseInv

\* A line ends with the newline and has no other; the words are those of the
\* line that was read.
LineInv ==
  /\ IF at \in {"parse", "prompt"} THEN Line(str)
     ELSE str \in Seq(Keys) /\ \A i \in 1 .. Len(str) : str[i] \in {"x", "space"}
  /\ ParsesWords

\* The line editor keeps the line a line.
LEMMA LineInvStep ==
  ASSUME TypeInv, LineInv, [ConsoleNext]_consoleVars
  PROVE  LineInv'
<1>0. str \in Seq(Keys) /\ Len(str) \in Nat /\ temp.c \in Keys \cup {"none"}
  BY DEF TypeInv
<1>1. CASE UNCHANGED <<at, str, words>>
  BY <1>1 DEF LineInv, ParsesWords
<1>2. CASE /\ at \notin {"parse", "prompt"} /\ at' \notin {"parse", "prompt"}
           /\ UNCHANGED str
  BY <1>2, <1>0 DEF LineInv, ParsesWords
<1>3. CASE kernel_getchar
  BY <1>3, <1>2 DEF kernel_getchar, Got
<1>4. CASE temp.c = "enter" /\ Got("parse", Append(str, "enter"), Len(str) + 2)
  <2>1. /\ Append(str, "enter") \in Seq(Keys)
        /\ Len(Append(str, "enter")) = Len(str) + 1
        /\ Append(str, "enter")[Len(str) + 1] = "enter"
        /\ \A i \in 1 .. Len(str) : Append(str, "enter")[i] = str[i]
    BY <1>0, <1>4
  <2>2. at = "getchar" /\ at' = "parse" /\ str' = Append(str, "enter")
    BY <1>4 DEF Got
  <2>3. \A i \in 1 .. Len(str) : str[i] \in {"x", "space"}
    BY <2>2 DEF LineInv
  <2>4. Line(Append(str, "enter"))
    BY <2>1, <2>3, <1>0 DEF Line
  <2> QED BY <2>2, <2>4 DEF LineInv, ParsesWords
<1>5. CASE /\ temp.c = "backspace"
           /\ IF str = << >> THEN Got("getkey", str, 0)
              ELSE Got("getkey", Front(str), Len(str) + 1)
  <2>1. at = "getchar" /\ at' = "getkey"
    BY <1>5 DEF Got
  <2>2. CASE str = << >>
    BY <2>1, <2>2, <1>2, <1>5 DEF Got
  <2>3. CASE str # << >>
    <3>1. str' = Front(str)
      BY <2>3, <1>5 DEF Got
    <3>2. /\ Front(str) \in Seq(Keys) /\ Len(Front(str)) = Len(str) - 1
          /\ \A i \in 1 .. Len(Front(str)) : Front(str)[i] = str[i]
      BY <2>3, <1>0, FrontType
    <3>3. \A i \in 1 .. Len(str) : str[i] \in {"x", "space"}
      BY <2>1 DEF LineInv
    <3>4. \A i \in 1 .. Len(Front(str)) : Front(str)[i] \in {"x", "space"}
      BY <3>2, <3>3, <1>0
    <3> QED BY <2>1, <3>1, <3>2, <3>4 DEF LineInv, ParsesWords
  <2> QED BY <2>2, <2>3
<1>6. CASE /\ temp.c \in {"x", "space"}
           /\ IF HasRoom(str) THEN Got("getkey", Append(str, temp.c), Len(str) + 1)
              ELSE Got("getkey", str, 0)
  <2>1. at = "getchar" /\ at' = "getkey"
    BY <1>6 DEF Got
  <2>2. CASE ~HasRoom(str)
    BY <2>1, <2>2, <1>2, <1>6 DEF Got
  <2>3. CASE HasRoom(str)
    <3>1. PICK c : c = temp.c
      OBVIOUS
    <3>2. c \in {"x", "space"} /\ c \in Keys /\ str' = Append(str, c)
      BY <3>1, <2>3, <1>0, <1>6 DEF Got
    <3>3. /\ Append(str, c) \in Seq(Keys)
          /\ Len(Append(str, c)) = Len(str) + 1
          /\ Append(str, c)[Len(str) + 1] = c
          /\ \A i \in 1 .. Len(str) : Append(str, c)[i] = str[i]
      BY <1>0, <3>2
    <3>4. \A i \in 1 .. Len(str) : str[i] \in {"x", "space"}
      BY <2>1 DEF LineInv
    <3>5. \A i \in 1 .. Len(str) + 1 : Append(str, c)[i] \in {"x", "space"}
      BY <3>2, <3>3, <3>4, <1>0
    <3> QED BY <2>1, <3>2, <3>3, <3>5 DEF LineInv, ParsesWords
  <2> QED BY <2>2, <2>3
<1>7. CASE parse_cmd
  <2>1. /\ at = "parse" /\ at' = "prompt" /\ str' = str /\ words' = Parsed(str)
    BY <1>7 DEF parse_cmd
  <2>2. Line(str) /\ AreWordsOf(Parsed(str), str)
    BY <2>1, ParsedWords DEF LineInv
  <2> QED BY <2>1, <2>2 DEF LineInv, ParsesWords
<1>8. CASE osh
  BY <1>8 DEF osh, LineInv, ParsesWords
<1>9. CASE ps2_handler \/ UNCHANGED consoleVars
  BY <1>9, <1>1 DEF ps2_handler, consoleVars
<1>10. CASE kernel_getkey \/ getkey_advance \/ init_buffer_wipe \/ init_buffer_wptr \/ init_buffer_rptr
  BY <1>10, <1>2 DEF kernel_getkey, getkey_advance, init_buffer_wipe, init_buffer_wptr, init_buffer_rptr
<1> QED BY <1>3, <1>4, <1>5, <1>6, <1>7, <1>8, <1>9, <1>10 DEF ConsoleNext, Shell, read_line

\* parse_cmd finds exactly the words of the line that was read, the last one
\* included, up to the first that does not fit, whatever was typed and for
\* lines and arguments of any length (shell.c read_line, parse_cmd).
THEOREM WordsAreFound == ConsoleSpec => []ParsesWords
<1>1. ConsoleInit => LineInv
  BY DEF ConsoleInit, LineInv, ParsesWords
<1>2. TypeInv /\ LineInv /\ [ConsoleNext]_consoleVars => LineInv'
  BY LineInvStep
<1>3. LineInv => ParsesWords
  BY DEF LineInv
<1> QED BY <1>1, <1>2, <1>3, RingInvariant, PTL DEF ConsoleSpec
=============================================================================
