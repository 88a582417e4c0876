-------------------------------- MODULE Vfs ---------------------------------
(***************************************************************************)
(* Names and the file system caches: path lookup, opening, closing and     *)
(* deleting in kernel/fs/open.c and read_write.c, the dentry and inode     *)
(* caches of kernel/fs/fscache.c, the reference counts of kernel/fs/fs.c   *)
(* and the commands of usr/fs_cmd.c, on one FAT32 partition.               *)
(*                                                                         *)
(* A call is computed on a record w of the caches, because the code walks, *)
(* allocates and evicts in the middle of it; cur is nd_dentry, err the     *)
(* error, and "WILD" says that the call used a dentry that was freed, or   *)
(* an error code as a pointer, or wrote through a link to freed memory that *)
(* is in use again.  What happens after that is not modelled: wild stops   *)
(* the system.                                                             *)
(***************************************************************************)
EXTENDS Integers, Sequences, FiniteSets, SequencesExt

CONSTANTS
  Paths,        \* names of files, as sequences of components; the root is << >>
  Dirs,         \* the paths that are directories
  Ids,          \* addresses of dentries
  Root,         \* the dentry of the root directory
  Handles,      \* struct file objects
  Requests,     \* what programs ask for: [abs, comps]
  DCap, ICap,   \* DCACHE_CAPACITY, ICACHE_CAPACITY
  MaxCount,     \* bound: reference counts of dentries
  NULL, Closed

VARIABLES
  exists,         \* the paths on the card
  dent,           \* the dentries in memory
  d_lru, d_size,  \* dentry cache: LRU list, most recent first, and its size
  d_hash,         \* the dentries in the hash table
  ghosts,         \* freed dentries that fs_close put back on the LRU list
  node,           \* the inodes in memory, by path
  i_lru, i_size,  \* inode cache
  fp,             \* the open files
  pwd,            \* pwd_dentry
  refused,        \* history: add_to_cache refused a dentry
  wild

cacheVars == <<dent, d_lru, d_hash, d_size, ghosts, node, i_lru, i_size, refused>>
vars == <<exists, cacheVars, fp, pwd, wild>>

ASSUME VfsAssumption ==
  /\ << >> \in Dirs /\ Dirs \subseteq Paths
  /\ \A p \in Paths \ {<< >>} : Front(p) \in Dirs
  /\ Root \in Ids /\ NULL \notin Ids /\ {DCap, ICap, MaxCount} \subseteq Nat
  /\ IsFiniteSet(Paths) /\ IsFiniteSet(Ids) /\ DCap > 0 /\ ICap > 0
  /\ Paths \subseteq Seq(STRING)
  /\ Requests \subseteq [abs : BOOLEAN, comps : Seq(STRING)]

\* No file is called "." or "..".
ASSUME NamesAssumption == \A p \in Paths : {".", ".."} \cap Range(p) = {}

\* NULL is no dentry and no inode, Closed no open file.
ASSUME NothingAssumption ==
  /\ NULL \notin [path : Paths, parent : Ids \cup {NULL}, home : Ids,
               count : Int, pinned : BOOLEAN]
  /\ NULL \notin [count : Int, pinned : BOOLEAN]
  /\ Closed \notin [d : Ids, dirt : BOOLEAN]

\* The list s without the items in S, and list_move to its front.
Without(s, S) ==
  LET Kept[k \in 0 .. Len(s)] ==
        IF k = 0 THEN << >>
        ELSE IF s[k] \in S THEN Kept[k - 1] ELSE Append(Kept[k - 1], s[k])
  IN Kept[Len(s)]

list_move(s, x) == <<x>> \o Without(s, {x})

\* The dentries in memory, and those on d_subdirs of d.  A dentry is linked into
\* the d_subdirs of its home: of its parent, or of the memory the parent had.
Live(w) == {d \in Ids : w.dent[d] # NULL}
Subdirs(w, d) == {e \in Live(w) \ {Root} : w.dent[e].parent = d}

Ok(w) == w.err = "ok"
Fail(w, e) == [w EXCEPT !.err = e]

\* What follows a call only if it succeeded: otherwise its error is returned,
\* or used as a pointer.
Then(w, Op(_)) == IF Ok(w) THEN Op(w) ELSE w
OrWild(w, Op(_)) == IF Ok(w) THEN Op(w) ELSE Fail(w, "WILD")

\* d_inc_count and d_dec_count.
d_count(w, d, k) ==
  IF w.dent[d] = NULL THEN Fail(w, "WILD")
  ELSE [w EXCEPT !.dent[d].count = @ + k, !.lru = list_move(@, d)]

-----------------------------------------------------------------------------
(* The caches.                                                             *)

\* Mutant: the children keep their pointer to the freed dentry.
ChildrenKept(w, S) ==
  [w EXCEPT !.lru = Without(@, S), !.hash = @ \ S,
            !.dent = [e \in Ids |-> IF e \in S THEN NULL ELSE @[e]]]

\* A dentry in S whose parent was freed before it, while another dentry has the
\* parent's memory: unlinking d_sibling may write into the list of that one.
Misplaced(w, S) ==
  \E e \in S : w.dent[e].parent = NULL /\ w.dent[w.dent[e].home] # NULL

\* free_dentry of all dentries in S: their children lose their parent, and stay
\* linked to its memory.
free_dentry(w, S) ==
  [w EXCEPT !.err = IF Misplaced(w, S) THEN "WILD" ELSE @,
            !.lru = Without(@, S), !.hash = @ \ S,
            !.dent = [e \in Ids |->
              IF e \in S \/ @[e] = NULL THEN NULL
              ELSE IF @[e].parent \in S THEN [@[e] EXCEPT !.parent = NULL]
              ELSE @[e]]]

\* Mutant: the dentries of a freed inode stay.
AliasesKept(w, P) ==
  [w EXCEPT !.ilru = Without(@, P),
            !.node = [p \in Paths |-> IF p \in P THEN NULL ELSE @[p]]]

\* free_inode of the inodes in P, with every dentry on their i_dentry lists.
\* The size of the dentry cache is not touched.
free_inode(w, P) ==
  [free_dentry(w, {d \in Live(w) : w.dent[d].path \in P}) EXCEPT
     !.ilru = Without(@, P),
     !.node = [p \in Paths |-> IF p \in P THEN NULL ELSE @[p]]]

\* What a flush frees: every unpinned item with count 0, and if there is none
\* the least recently used unpinned one, although it is in use.
Evicted(lru, obj) ==
  LET open == {i \in DOMAIN lru : ~obj[lru[i]].pinned}
      zero == {i \in open : obj[lru[i]].count = 0}
      last == {i \in open : \A j \in open : j <= i}
  IN {lru[i] : i \in IF zero # {} THEN zero ELSE last}

\* A freed dentry on the list would be looked at, and freed once more.
flush_d_cache(w) ==
  LET S == Evicted(w.lru, w.dent)
  IN IF w.ghosts # {} THEN Fail(w, "WILD")
     ELSE IF S = {} THEN Fail(w, "FULL")
     ELSE [free_dentry(w, S) EXCEPT !.size = @ - Cardinality(S)]

flush_i_cache(w) ==
  LET P == Evicted(w.ilru, w.node)
  IN IF P = {} THEN Fail(w, "FULL")
     ELSE [free_inode(w, P) EXCEPT !.isize = @ - Cardinality(P)]

\* Mutant: no room is made.
NeverFlushed(w, d) ==
  [w EXCEPT !.lru = <<d>> \o @, !.hash = @ \cup {d}, !.size = @ + 1]

\* add_to_cache of a dentry that its parent and its inode already point to; if
\* it is refused they still do.
add_to_d_cache(w, d) ==
  LET v == IF w.size = DCap THEN flush_d_cache(w) ELSE w
  IN IF Ok(v) THEN [v EXCEPT !.lru = <<d>> \o @, !.hash = @ \cup {d}, !.size = @ + 1]
     ELSE [v EXCEPT !.refused = TRUE]

add_to_i_cache(w, p) ==
  Then(IF w.isize = ICap THEN flush_i_cache(w) ELSE w,
       LAMBDA v : [v EXCEPT !.ilru = <<p>> \o @, !.isize = @ + 1])

\* alloc_inode_fat32 for path p.
alloc_inode(w, p) ==
  Then(add_to_i_cache(w, p),
       LAMBDA v : [v EXCEPT !.node[p] = [count |-> 0, pinned |-> FALSE]])

\* alloc_dentry_fat32: a dentry for path p below w.cur; it becomes w.new.  One
\* that is still on the LRU list would be linked into it a second time.
alloc_dentry(w, p) ==
  LET free == {x \in Ids : w.dent[x] = NULL} \ w.held
      d == CHOOSE x \in free : TRUE
  IN IF free = {} THEN Fail(w, "NO_MEMORY")
     ELSE IF d \in w.ghosts THEN Fail(w, "WILD")
     ELSE add_to_d_cache(
       [w EXCEPT !.dent[d] = [path |-> p, parent |-> w.cur, home |-> w.cur,
                              count |-> 0, pinned |-> FALSE],
                 !.node[p].count = @ + 1, !.ilru = list_move(@, p),
                 !.new = d], d)

\* A dentry below the directory w.cur, if that was not freed meanwhile.
alloc_below(w, p) ==
  IF w.dent[w.cur] = NULL THEN Fail(w, "WILD") ELSE alloc_dentry(w, p)

\* The inode of path p is in the cache.
lookup_i_cache(w, p) == w.node[p] # NULL

\* read_dentry_from_sfn: the inode comes from the cache if it is there.  Making
\* room for it may free the directory that is being searched.
read_dentry(w, p) ==
  Then(IF lookup_i_cache(w, p) THEN w ELSE alloc_inode(w, p),
       LAMBDA v : alloc_below(v, p))

-----------------------------------------------------------------------------
(* Path lookup.                                                            *)

\* The dentries for path p below w.cur in the cache.
lookup_d_cache(w, p) ==
  {d \in w.hash : w.dent[d].parent = w.cur /\ w.dent[d].path = p}

\* lookup_fat32: the entries of the directory on the card are compared.
real_lookup(w, p) ==
  IF p \in exists THEN read_dentry(w, p) ELSE Fail(w, "NOTFOUND")

\* p below w.cur, from the cache or from the card, becomes w.new.
find(w, p) ==
  LET hit == lookup_d_cache(w, p)
  IN IF hit # {} THEN [w EXCEPT !.new = CHOOSE d \in hit : TRUE]
     ELSE real_lookup(w, p)

\* The walk steps from w.cur to w.new: one count down, one up.
Stepped(w) ==
  IF w.dent[w.cur] = NULL THEN Fail(w, "WILD")
  ELSE [d_count(d_count(w, w.cur, -1), w.new, 1) EXCEPT !.cur = w.new]

do_lookup(w, n) ==
  LET q == w.dent[w.cur].path
  IN IF q \notin Dirs THEN Fail(w, "NOT_DIR")
     ELSE Then(find(w, Append(q, n)), Stepped)

\* A dentry whose parent was evicted has no way up: directories made by this
\* system have no entry "..".
follow_dotdot(w) ==
  LET up == w.dent[w.cur].parent
  IN IF w.cur = Root THEN w
     ELSE IF up = NULL THEN Fail(w, "NOTFOUND")
     ELSE Stepped([w EXCEPT !.new = up])

\* One component of link_path_walk; nothing is done after an error.
component(w, n) ==
  IF n = "." THEN w ELSE IF n = ".." THEN follow_dotdot(w) ELSE do_lookup(w, n)

link_path_walk(w, n) ==
  IF Ok(w) THEN [component(w, n) EXCEPT !.left = @ - 1] ELSE w

\* fs_close of the directory after create_dentry_fat32 wrote the new entry:
\* close_fat32 fails for the root, and then the count is not given back.
close_parent(w, d) ==
  IF d = Root THEN w
  ELSE IF w.dent[d] = NULL \/ w.dent[d].parent = NULL THEN Fail(w, "WILD")
  ELSE d_count(w, d, -1)

\* create_dentry_fat32 for p below w.cur.  An error is used as a dentry.
create_dentry(w, p) ==
  LET Below(v) == alloc_below(v, p)
      Written(u) == close_parent(d_count(u, u.cur, 1), u.cur)
      GivenBack(y) == d_count(y, y.cur, -1)
  IN Then(OrWild(OrWild(alloc_inode([w EXCEPT !.err = "ok"], p), Below), Written),
          LAMBDA x : GivenBack(Stepped(x)))

\* link_path_walk from the dentry start.
Walked(w, start, comps) ==
  LET Walk[k \in 0 .. Len(comps)] ==
        IF k = 0 THEN [d_count(w, start, 1) EXCEPT !.cur = start, !.left = Len(comps)]
        ELSE link_path_walk(Walk[k - 1], comps[k])
  IN Walk[Len(comps)]

\* The last component was not found, and is to be created; and its path.
Missing(w, comps, create) ==
  w.err = "NOTFOUND" /\ create /\ w.left = 0
NewPath(w, comps) == Append(w.dent[w.cur].path, Last(comps))

\* path_lookup after the walk.  It gives back a count of the dentry it started
\* from, and of a new dentry; the one it found keeps the count of the walk.
path_lookup(w, start, comps, create) ==
  IF Missing(w, comps, create) THEN create_dentry(w, NewPath(w, comps))
  ELSE IF w.err = "WILD" THEN w
  ELSE d_count(w, start, -1)

-----------------------------------------------------------------------------
(* Calls.                                                                  *)

\* The caches, as a record.  The address of a freed dentry to which a file or
\* pwd still points is not given out again.
Caches == [dent |-> dent, lru |-> d_lru, hash |-> d_hash, size |-> d_size,
           ghosts |-> ghosts,
           node |-> node, ilru |-> i_lru, isize |-> i_size, cur |-> Root,
           new |-> Root, left |-> 0, err |-> "ok", refused |-> refused,
           held |-> {pwd} \cup {fp[h].d : h \in {g \in Handles : fp[g] # Closed}}]

\* A call that goes wild leaves no state that could be told.
Become(u) ==
  \E w \in {IF u.err = "WILD" THEN Fail(Caches, "WILD") ELSE u} :
  /\ \A d \in Live(w) : w.dent[d].count \in -MaxCount .. MaxCount
  /\ dent' = w.dent /\ d_lru' = w.lru /\ d_hash' = w.hash /\ d_size' = w.size
  /\ ghosts' = w.ghosts
  /\ node' = w.node /\ i_lru' = w.ilru /\ i_size' = w.isize
  /\ refused' = w.refused /\ wild' = (w.err = "WILD")

New(p) == [path |-> p, parent |-> Root, home |-> Root, count |-> 1, pinned |-> TRUE]

Init ==
  /\ exists \in {S \in SUBSET Paths : << >> \in S
                   /\ \A p \in S \ {<< >>} : Front(p) \in S}
  /\ dent = [d \in Ids |-> IF d = Root THEN New(<< >>) ELSE NULL]
  /\ d_lru = <<Root>> /\ d_hash = {Root} /\ d_size = 1 /\ ghosts = {}
  /\ node = [p \in Paths |-> IF p = << >> THEN [count |-> 1, pinned |-> TRUE]
                             ELSE NULL]
  /\ i_lru = << << >> >> /\ i_size = 1
  /\ fp = [h \in Handles |-> Closed]
  /\ pwd = Root /\ refused = FALSE /\ wild = FALSE

\* fs_open: on success one more count for the file.  Bound: nothing is created
\* outside Paths.
fs_open(h, r, create) ==
  LET start == IF r.abs THEN Root ELSE pwd
      walked == Walked(Caches, start, r.comps)
  IN /\ ~wild /\ fp[h] = Closed
     /\ Missing(walked, r.comps, create) => NewPath(walked, r.comps) \in Paths
     /\ \E w \in {path_lookup(walked, start, r.comps, create)} :
          /\ Become(IF Ok(w) THEN d_count(w, w.cur, 1) ELSE w)
          /\ fp' = [fp EXCEPT ![h] = IF Ok(w) THEN [d |-> w.cur, dirt |-> FALSE]
                                     ELSE Closed]
          /\ exists' = exists \cup IF Ok(w) THEN {w.dent[w.cur].path} ELSE {}
     /\ UNCHANGED pwd

\* The dentry of handle h is still in memory.
Held(h) == fp[h] # Closed /\ dent[fp[h].d] # NULL

\* fs_write; when the file grows expand_fat32 moves the inode in its LRU list.
fs_write(h, grows) ==
  LET p == dent[fp[h].d].path
  IN /\ ~wild /\ Held(h) /\ p \notin Dirs /\ node[p] # NULL
     /\ fp' = [fp EXCEPT ![h].dirt = TRUE]
     /\ i_lru' = IF grows THEN list_move(i_lru, p) ELSE i_lru
     /\ UNCHANGED <<exists, dent, d_lru, d_hash, d_size, ghosts, node, i_size, pwd,
                    refused, wild>>

\* fs_close: a written file needs its parent.  A dentry that was freed since,
\* as rm and mv have it done by fs_delete, is moved on the LRU list all the
\* same: it is back there, if its neighbours are still those it had.
fs_close(h) ==
  LET d == fp[h].d
      Lost == Fail(Caches, "WILD")
      Outcomes == IF fp[h].dirt /\ (dent[d] = NULL \/ dent[d].parent = NULL) THEN {Lost}
                  ELSE IF dent[d] = NULL
                    THEN {Lost, [Caches EXCEPT !.ghosts = @ \cup {d}]}
                  ELSE {d_count(Caches, d, -1)}
  IN /\ ~wild /\ fp[h] # Closed
     /\ \E w \in Outcomes : Become(w)
     /\ fp' = [fp EXCEPT ![h] = Closed]
     /\ UNCHANGED <<exists, pwd>>

\* Every other call on a file whose dentry was freed uses freed memory.
use_of_freed(h) ==
  /\ ~wild /\ fp[h] # Closed /\ dent[fp[h].d] = NULL
  /\ Become(Fail(Caches, "WILD"))
  /\ UNCHANGED <<exists, fp, pwd>>

\* Mutant: only the children in memory are looked at.
ListNothing(w, d) == w

\* list_dir_fat32: every child gets a dentry, which is pinned and counted.
list_child(w, d, p) ==
  LET Pin(u) == [u EXCEPT !.dent[u.new].pinned = TRUE, !.node[p].pinned = TRUE]
      Listed(u) == IF u.dent[d] = NULL THEN Fail(u, "WILD")
                   ELSE d_count(Pin(u), u.new, 1)
  IN OrWild(find([w EXCEPT !.cur = d], p), Listed)

list_dir(w, d) ==
  LET children == SetToSeq({p \in exists \ {<< >>} : Front(p) = w.dent[d].path})
      List[k \in 0 .. Len(children)] ==
        IF k = 0 THEN w
        ELSE Then(List[k - 1], LAMBDA v : list_child(v, d, children[k]))
  IN List[Len(children)]

\* ls gives a child back.
unlist_child(w, e) ==
  d_count([w EXCEPT !.dent[e].pinned = FALSE,
                    !.node[w.dent[e].path].pinned = FALSE], e, -1)

unlist_dir(w, d) ==
  LET children == SetToSeq(Subdirs(w, d))
      Back[k \in 0 .. Len(children)] ==
        IF k = 0 THEN w ELSE unlist_child(Back[k - 1], children[k])
  IN Back[Len(children)]

\* ls: the directory is listed, then its children are given back.  The bytes of
\* a file are read as directory entries too, unless it is empty.
ls(h) ==
  LET d == fp[h].d
      Outcomes == IF dent[d].path \in Dirs
        THEN {Then(list_dir(Caches, d), LAMBDA w : unlist_dir(w, d))}
        ELSE {Caches, Fail(Caches, "WILD")}
  IN /\ ~wild /\ Held(h)
     /\ \E w \in Outcomes : Become(w)
     /\ UNCHANGED <<exists, fp, pwd>>

\* On the way from d up to the root a parent was forgotten.
Orphan(d) ==
  LET Up[k \in 0 .. Len(dent[d].path)] ==
        IF k = 0 THEN d
        ELSE IF Up[k - 1] = NULL THEN NULL ELSE dent[Up[k - 1]].parent
  IN Up[Len(dent[d].path)] # Root

\* cd: the path of the new directory is spelled out, parent by parent; then
\* the file is closed, but not when the directory is the root.  That it is a
\* directory is not asked.
cd(h) ==
  LET d == fp[h].d
  IN /\ ~wild /\ Held(h)
     /\ pwd' = d
     /\ Become(IF Orphan(d) THEN Fail(Caches, "WILD")
               ELSE IF d = Root THEN Caches ELSE d_count(Caches, d, -1))
     /\ fp' = [fp EXCEPT ![h] = Closed]
     /\ UNCHANGED exists

\* fs_delete of a directory lists it first, and stops if it has children.  With
\* an empty root the dentry every path starts from is freed.
fs_delete(h) ==
  LET d == fp[h].d
      p == dent[d].path
      Gone(w) == IF d = Root \/ w.dent[d].parent = NULL THEN Fail(w, "WILD")
                 ELSE free_inode(w, {p})
  IN /\ ~wild /\ Held(h)
     /\ \E w \in {IF p \in Dirs THEN list_dir(Caches, d) ELSE Caches} :
          LET empty == Ok(w) /\ Subdirs(w, d) = {}
          IN /\ Become(IF empty THEN Gone(w) ELSE w)
             /\ exists' = IF empty /\ Ok(Gone(w)) THEN exists \ {p} ELSE exists
             /\ fp' = [fp EXCEPT ![h].dirt = IF empty THEN FALSE ELSE @]
     /\ UNCHANGED pwd

\* The memory of a freed dentry that is still linked, itself on the LRU list or
\* by the d_sibling of its children, is given to something else.
memory_reused ==
  /\ ~wild /\ ghosts \cup {d \in Ids : dent[d] # NULL /\ dent[d].parent = NULL} # {}
  /\ Become(Fail(Caches, "WILD"))
  /\ UNCHANGED <<exists, fp, pwd>>

Next == memory_reused \/ \E h \in Handles :
  \/ \E r \in Requests, create \in BOOLEAN : fs_open(h, r, create)
  \/ \E grows \in BOOLEAN : fs_write(h, grows)
  \/ fs_close(h) \/ ls(h) \/ cd(h) \/ fs_delete(h) \/ use_of_freed(h)

Spec == Init /\ [][Next]_vars

-----------------------------------------------------------------------------
(* Properties.                                                             *)

InMemory == {d \in Ids : dent[d] # NULL}

\* Until a call goes wild, no pointer that a lookup follows leads to freed
\* memory: the inode of a dentry is there, its parent is there or forgotten and
\* has its path less the name, whatever memory is given out again; and the
\* LRU lists link every live item at most once, through every eviction and
\* deletion in the middle of other calls (fscache.c free_dentry, free_inode).
\* What fs_close put back on the list after its dentry was freed is in ghosts,
\* not in d_lru.
PointersLive ==
  /\ \A d \in InMemory :
       /\ node[dent[d].path] # NULL
       /\ dent[d].parent # NULL =>
            /\ dent[d].parent \in InMemory
            /\ d # Root => dent[dent[d].parent].path = Front(dent[d].path)
  /\ IsInjective(d_lru) /\ Range(d_lru) \cup d_hash \subseteq InMemory
  /\ IsInjective(i_lru) /\ Range(i_lru) = {p \in Paths : node[p] # NULL}

\* The caches keep to their capacity although deletions and the eviction of
\* inodes free items without counting them (fscache.c add_to_cache, flush_*):
\* the size is never more than the capacity, nor less than the live items in
\* the list.  For dentries the latter ends when one is refused: its parent still
\* lists it, and a later ls moves it into the list uncounted.
SizeBoundsCache ==
  /\ d_size <= DCap /\ (~refused => Len(d_lru) <= d_size)
  /\ Len(i_lru) <= i_size /\ i_size <= ICap

\* A file that was deleted is in no live dentry, under whatever parents it was
\* looked up: a later lookup does not find it (fat.c delete_fat32, free_inode).
NoStaleDentry == \A d \in InMemory : dent[d].path \in exists

\* A directory that has files on the card is never deleted, whether its files
\* are in the cache, lost their parent's dentry or are only on the card: the
\* listing puts them on d_subdirs before that is asked (read_write.c fs_delete,
\* fat.c list_dir_fat32).  Where freeing an orphan writes into the d_subdirs of
\* another dentry nothing is claimed: the call has gone wild.
TreeClosed == \A p \in exists \ {<< >>} : Front(p) \in exists
=============================================================================
