------------------------------- MODULE Fat32 --------------------------------
(***************************************************************************)
(* Files on a FAT32 partition: the file allocation table, the chains of    *)
(* clusters and the directory entries of kernel/fs/fat/fat.c, and the      *)
(* cursor of an open file in kernel/fs/read_write.c and kernel/fs/open.c.  *)
(*                                                                         *)
(* A file exists three times: as an entry and a chain of clusters on the   *)
(* card, as a list of fs_map in its inode, and as a size and a cursor in   *)
(* every handle.  Sizes are counted in units of which a cluster holds      *)
(* BlockSize.  Card errors and a full card are not modelled: an action     *)
(* that needs a cluster waits for one.                                     *)
(***************************************************************************)
EXTENDS Integers, Sequences, FiniteSets

CONSTANTS
  Files,        \* the names in the directory
  Handles,      \* struct file objects
  Modes,        \* modes of fs_open in use: READ, WRITE, READ_WRITE, APPEND
  Clusters,     \* cluster numbers the table covers
  RootClu,      \* dbr_root_clu: the cluster of the directory itself
  BlockSize,    \* s_blocksize
  Bytes,        \* Bytes[f]: values programs write to f
  Garbage,      \* what a cluster holds before it is written
  FREE, END,    \* FAT_ITEM_FREE, FAT_ITEM_END
  NoPage,       \* map_page == nullptr
  Absent,       \* no entry, or no inode in memory
  Closed, Deleted,
  Lens,         \* lengths of reads and writes
  Offsets,      \* offsets of seeks
  Capacity,     \* PCACHE_CAPACITY, less the pages of the directory
  MaxSize       \* bound: the largest file

VARIABLES
  fat,            \* the table on the card
  info_next_clu,  \* hint of the first cluster that may be free
  entry,          \* entry[f]: first cluster and size in the directory
  card,           \* contents of the clusters on the card
  i_data_map,     \* i_data_map[f]: clusters of the inode's fs_map list
  i_size,
  page, p_dirt,   \* the page of a map, by cluster, and its dirty flag
  fp,             \* the open files
  buf,            \* bytes this call copied out, empty unless it is an fs_read
  p_size,         \* size of the page cache: pages read since the machine started
  astray          \* the calls have left what is followed here

cardVars == <<fat, info_next_clu, entry, card>>
vars == <<cardVars, i_data_map, i_size, page, p_dirt, fp, buf, p_size, astray>>

\* struct _file; Closed and Deleted stand for a handle that is none.
HandleRec == [file : Files, mode : Modes \cup {"WRITE"}, f_size : Int,
              f_pos : Int, f_cur_map : Int, f_cur_off : Int, f_dirt : BOOLEAN]

\* What a byte may be, and the contents of a cluster.
Values == {Garbage} \cup UNION {Bytes[f] : f \in Files}
Block == [0 .. BlockSize - 1 -> Values]

ASSUME Fat32Assumption ==
  /\ IsFiniteSet(Clusters) /\ Clusters \subseteq Nat
  /\ RootClu \in Clusters /\ \A c \in Clusters : RootClu <= c
  /\ BlockSize \in Nat \ {0} /\ MaxSize \in Nat
  /\ Lens \subseteq Nat \ {0} /\ Offsets \subseteq Int
  /\ {FREE, END} \cap Clusters = {} /\ FREE # END
  /\ {Closed, Deleted} \cap HandleRec = {}
  /\ {Closed, Deleted} \cap
       [file : Files, mode : Modes \cup {"WRITE"}, pos : Int] = {}
  /\ NoPage \notin Block
  /\ Absent \notin Seq(Values) \cup [first : Clusters, size : Int]

Writes(m) == m # "READ"
Reads(m) == m # "WRITE"

Present(f) == i_data_map[f] # << >>
Usable(h) == fp[h] \notin {Closed, Deleted}
i_blocks(f) == Len(i_data_map[f])
Max2(a, b) == IF a >= b THEN a ELSE b

\* The blocks needed for n more bytes.
Blocks(n) == (n + BlockSize - 1) \div BlockSize

-----------------------------------------------------------------------------
(* The table.                                                              *)

\* Mutant: the hint is taken to be free.
HintIsFree(n) == {s \in [1 .. n -> Clusters] :
                    \A i \in 1 .. n : s[i] = info_next_clu + i - 1}

\* find_free_clu, n times over: the n free clusters that follow the hint, in
\* the order in which they are found.  Empty when the table has fewer.
find_free_clu(n) ==
  {s \in [1 .. n -> Clusters] :
     /\ \A i \in 1 .. n : fat[s[i]] = FREE /\ s[i] >= info_next_clu
     /\ \A i, j \in 1 .. n : i < j => s[i] < s[j]
     /\ \A c \in Clusters :
          fat[c] = FREE /\ c >= info_next_clu /\ (\E i \in 1 .. n : c <= s[i])
            => \E i \in 1 .. n : s[i] = c}

\* The clusters a walk along the table from c meets.
Reach(c) ==
  {d \in Clusters : \A S \in SUBSET Clusters :
     c \in S /\ (\A x \in S : fat[x] \in Clusters => fat[x] \in S) => d \in S}

\* The chain from c, in order: what alloc_inode_fat32 turns into a map.
Chain(c) ==
  UNION {{s \in [1 .. n -> Reach(c)] :
            /\ s[1] = c /\ fat[s[n]] = END
            /\ \A i \in 1 .. n - 1 : s[i + 1] = fat[s[i]]} :
         n \in 1 .. Cardinality(Reach(c))}

\* Mutant: the hint is not lowered.
HintKept(S) == {info_next_clu}

\* update_next_clu when the clusters of S were freed.
update_next_clu(S) ==
  {c \in S \cup {info_next_clu} : \A d \in S \cup {info_next_clu} : c <= d}

\* expand_fat32 links the new clusters s behind cluster c, the first one.
LinkedAt(c, s) ==
  [x \in Clusters |->
     IF x = s[Len(s)] THEN END
     ELSE IF x = c THEN s[1]
     ELSE IF \E i \in 1 .. Len(s) - 1 : s[i] = x
       THEN s[1 + CHOOSE i \in 1 .. Len(s) - 1 : s[i] = x]
     ELSE fat[x]]

\* The cluster behind which expand_fat32 links: SEC_TO_CLU of i_ino.
last_clu_idx(f) == i_data_map[f][1]

-----------------------------------------------------------------------------
(* Opening and closing.                                                    *)

Init ==
  /\ fat = [c \in Clusters |-> IF c = RootClu THEN END ELSE FREE]
  /\ info_next_clu = RootClu
  /\ entry = [f \in Files |-> Absent]
  /\ card = [c \in Clusters |-> [o \in 0 .. BlockSize - 1 |-> Garbage]]
  /\ i_data_map = [f \in Files |-> << >>]
  /\ i_size = [f \in Files |-> 0]
  /\ page = [c \in Clusters |-> NoPage]
  /\ p_dirt = [c \in Clusters |-> FALSE]
  /\ fp = [h \in Handles |-> Closed]
  /\ buf = << >> /\ p_size = 0 /\ astray = FALSE

\* The handle dentry_open_file builds for a file of n bytes and k blocks.
dentry_open_file(f, m, n, k) ==
  IF m = "APPEND"
    THEN [file |-> f, mode |-> m, f_size |-> n, f_pos |-> n, f_cur_map |-> k,
          f_cur_off |-> BlockSize - (k * BlockSize - n), f_dirt |-> FALSE]
    ELSE [file |-> f, mode |-> m, f_size |-> n, f_pos |-> 0, f_cur_map |-> 1,
          f_cur_off |-> 0, f_dirt |-> FALSE]

\* fs_open of a name that is not in the directory: create_dentry_fat32 takes a
\* cluster, marks it END and writes the entry; the hint stays where it is.
create_dentry(h, f, m) ==
  /\ fp[h] = Closed /\ ~Present(f) /\ Writes(m)
  /\ \E s \in find_free_clu(1) :
       /\ fat' = [fat EXCEPT ![s[1]] = END]
       /\ entry' = [entry EXCEPT ![f] = [first |-> s[1], size |-> 0]]
       /\ i_data_map' = [i_data_map EXCEPT ![f] = s]
       /\ i_size' = [i_size EXCEPT ![f] = 0]
       /\ page' = [page EXCEPT ![s[1]] = NoPage]
       /\ p_dirt' = [p_dirt EXCEPT ![s[1]] = FALSE]
  /\ fp' = [fp EXCEPT ![h] = dentry_open_file(f, m, 0, 1)]
  /\ buf' = << >>
  /\ UNCHANGED <<info_next_clu, card, p_size, astray>>

\* No handle on f.
NotOpen(f) == \A h \in Handles : Usable(h) => fp[h].file # f

fs_open(h, f, m) ==
  /\ fp[h] = Closed /\ Present(f) /\ NotOpen(f) /\ m # "WRITE"
  /\ fp' = [fp EXCEPT ![h] = dentry_open_file(f, m, i_size[f], i_blocks(f))]
  /\ buf' = << >>
  /\ UNCHANGED <<cardVars, i_data_map, i_size, page, p_dirt, p_size, astray>>

\* What the clusters a file gives up hold is garbage to whoever takes them next.
Forgotten(S) ==
  [c \in Clusters |-> IF c \in S THEN [o \in 0 .. BlockSize - 1 |-> Garbage]
                      ELSE card[c]]

\* The table after clear_fat32: the chain is cut behind its first cluster.
Cut(f) ==
  LET c == i_data_map[f][1]
  IN [x \in Clusters |->
        IF x = c THEN END ELSE IF x \in Reach(c) THEN FREE ELSE fat[x]]

\* fs_open in mode WRITE empties the file: clear_fat32.
clear(h, f) ==
  LET c == i_data_map[f][1]
      dropped == {i_data_map[f][i] : i \in 2 .. i_blocks(f)}
  IN /\ fp[h] = Closed /\ Present(f) /\ NotOpen(f)
     /\ fat' = Cut(f)
     /\ info_next_clu' \in update_next_clu(Reach(c) \ {c})
     /\ entry' = [entry EXCEPT ![f].size = 0]
     /\ i_data_map' = [i_data_map EXCEPT ![f] = <<c>>]
     /\ i_size' = [i_size EXCEPT ![f] = 0]
     /\ page' = [x \in Clusters |-> IF x \in dropped THEN NoPage ELSE page[x]]
     /\ p_dirt' = [x \in Clusters |-> p_dirt[x] /\ x \notin dropped]
     /\ fp' = [fp EXCEPT ![h] = dentry_open_file(f, "WRITE", 0, 1)]
     /\ card' = Forgotten(dropped)
     /\ buf' = << >>
     /\ UNCHANGED <<p_size, astray>>

\* Mutant: the loop over the maps stops after the first.
FlushedFirst(h) == {c \in Clusters : p_dirt[c] /\ fp[h].f_dirt
                                     /\ i_data_map[fp[h].file][1] = c}

\* The clusters whose pages fs_close writes to the card.
Flushed(h) == {c \in Clusters : p_dirt[c] /\ fp[h].f_dirt
  /\ \E i \in 1 .. i_blocks(fp[h].file) : i_data_map[fp[h].file][i] = c}

\* fs_close of a file that was written: the dirty pages of its maps go to the
\* card, then close_fat32 puts the size into the directory entry.
fs_close(h) ==
  /\ Usable(h)
  /\ card' = [c \in Clusters |-> IF c \in Flushed(h) THEN page[c] ELSE card[c]]
  /\ p_dirt' = [c \in Clusters |-> p_dirt[c] /\ c \notin Flushed(h)]
  /\ entry' = IF fp[h].f_dirt
       THEN [entry EXCEPT ![fp[h].file].size = i_size[fp[h].file]] ELSE entry
  /\ fp' = [fp EXCEPT ![h] = Closed]
  /\ buf' = << >>
  /\ UNCHANGED <<fat, info_next_clu, i_data_map, i_size, page, p_size, astray>>

-----------------------------------------------------------------------------
(* Reading, writing, seeking.                                              *)

\* Mutant: a full block is left at once.
LeavesFullBlock(k, off, n) == k + (off + n) \div BlockSize

\* The loops of fs_read and fs_write: n bytes on from offset off of the k-th
\* map.  A full block is left only when there is another byte to copy.
MapAfter(k, off, n) == k + Max2(0, Blocks(off + n) - 1)
OffAfter(k, off, n) == off + n - (MapAfter(k, off, n) - k) * BlockSize

\* Mutant: the card is read again although a page is there.
ReadAgain(c) == card[c]

\* get_fspage: the page of a cluster, read from the card when it is missing.
get_fspage(c) == IF page[c] = NoPage THEN card[c] ELSE page[c]

\* The byte at position q of the inode's blocks.
ByteAt(f, q) == get_fspage(i_data_map[f][1 + q \div BlockSize])[q % BlockSize]

\* The position of the cursor: of the byte the copy loops start with.
Cursor(h) == (fp[h].f_cur_map - 1) * BlockSize + fp[h].f_cur_off

Moved(h, n) ==
  [fp[h] EXCEPT !.f_pos = @ + n,
                !.f_cur_map = MapAfter(fp[h].f_cur_map, fp[h].f_cur_off, n),
                !.f_cur_off = OffAfter(fp[h].f_cur_map, fp[h].f_cur_off, n)]

\* The blocks that n bytes from the cursor of h need a page for.
Loads(h, n) ==
  {k \in fp[h].f_cur_map .. Moved(h, n).f_cur_map :
     k \in 1 .. i_blocks(fp[h].file) => page[i_data_map[fp[h].file][k]] = NoPage}

\* alloc_fspage counts the pages it reads.  No page that is given back with its
\* map is ever taken off the count.
Counted(h, n) ==
  /\ p_size + Cardinality(Loads(h, n)) <= Capacity
  /\ p_size' = p_size + Cardinality(Loads(h, n))
  /\ UNCHANGED astray

\* A read past the end is refused before anything is changed.
fs_read(h, n) ==
  /\ Usable(h) /\ Reads(fp[h].mode)
  /\ fp[h].f_pos + n <= fp[h].f_size
  /\ Counted(h, n)
  /\ LET f == fp[h].file
         read == {i_data_map[f][k] :
                    k \in fp[h].f_cur_map .. Moved(h, n).f_cur_map}
     IN /\ buf' = [i \in 1 .. n |-> ByteAt(f, Cursor(h) + i - 1)]
        /\ page' = [c \in Clusters |->
                      IF c \in read THEN get_fspage(c) ELSE page[c]]
  /\ fp' = [fp EXCEPT ![h] = Moved(h, n)]
  /\ UNCHANGED <<cardVars, i_data_map, i_size, p_dirt>>

\* The blocks file_expand_to adds for a file of n bytes.
expand_blks(f, n) == Max2(0, Blocks(n - i_blocks(f) * BlockSize))

\* The pages after n bytes b were copied to the cursor of h, with map m.
Copied(h, m, n, b) ==
  [c \in Clusters |->
     IF \E k \in fp[h].f_cur_map .. Moved(h, n).f_cur_map :
          k \in DOMAIN m /\ m[k] = c
       THEN LET k == CHOOSE i \in DOMAIN m : m[i] = c
                q(o) == (k - 1) * BlockSize + o
            IN [o \in 0 .. BlockSize - 1 |->
                  IF q(o) \in Cursor(h) .. Cursor(h) + n - 1
                    THEN b ELSE get_fspage(c)[o]]
       ELSE page[c]]

\* The copy of fs_write, when the inode has the map m and n bytes are written.
Put(h, m, n, b) ==
  LET f == fp[h].file
      size == Max2(fp[h].f_size, fp[h].f_pos + n)
  IN /\ i_data_map' = [i_data_map EXCEPT ![f] = m]
     /\ i_size' = [i_size EXCEPT ![f] = IF size > fp[h].f_size THEN size ELSE @]
     /\ page' = Copied(h, m, n, b)
     /\ p_dirt' = [c \in Clusters |-> p_dirt[c] \/
          \E k \in fp[h].f_cur_map .. Moved(h, n).f_cur_map :
             k \in DOMAIN m /\ m[k] = c]
     /\ fp' = [fp EXCEPT ![h] = [Moved(h, n) EXCEPT !.f_size = size,
                                                    !.f_dirt = TRUE]]

\* fs_write inside the blocks the file has.
fs_write(h, n, b) ==
  /\ Usable(h) /\ Writes(fp[h].mode) /\ b \in Bytes[fp[h].file]
  /\ fp[h].f_pos + n <= MaxSize
  /\ expand_blks(fp[h].file, fp[h].f_pos + n) = 0
  /\ Counted(h, n)
  /\ Put(h, i_data_map[fp[h].file], n, b)
  /\ buf' = << >>
  /\ UNCHANGED cardVars

\* fs_write that needs new blocks: file_expand_to calls expand_fat32, which
\* takes the clusters, links them and moves the hint behind the last one.
fs_write_expands(h, n, b) ==
  /\ Usable(h) /\ Writes(fp[h].mode) /\ b \in Bytes[fp[h].file]
  /\ fp[h].f_pos + n <= MaxSize
  /\ Counted(h, n)
  /\ LET f == fp[h].file
         blks == expand_blks(f, fp[h].f_pos + n)
     IN /\ blks > 0
        /\ \E s \in find_free_clu(blks) :
             /\ fat' = LinkedAt(last_clu_idx(f), s)
             /\ info_next_clu' = s[blks] + 1
             /\ Put(h, i_data_map[f] \o s, n, b)
  /\ buf' = << >>
  /\ UNCHANGED <<entry, card>>

\* Positions are unsigned: a seek before the start is a very large position,
\* and like every position past the end it becomes the end.
SeekTo(h, flag, offset) ==
  LET base == CASE flag = "HEAD" -> 0
                [] flag = "TAIL" -> fp[h].f_size
                [] flag = "CUR" -> fp[h].f_pos
  IN IF base + offset \in 0 .. fp[h].f_size
       THEN base + offset ELSE fp[h].f_size

\* The search for the block goes on while more than a block is left.
fs_seek(h, flag, offset) ==
  /\ Usable(h)
  /\ LET pos == SeekTo(h, flag, offset)
         k == Max2(1, Blocks(pos))
     IN fp' = [fp EXCEPT ![h].f_pos = pos, ![h].f_cur_map = k,
                         ![h].f_cur_off = pos - (k - 1) * BlockSize]
  /\ buf' = << >>
  /\ UNCHANGED <<cardVars, i_data_map, i_size, page, p_dirt, p_size, astray>>

-----------------------------------------------------------------------------
(* Deleting, and switching the machine off.                                *)

\* fs_delete and delete_fat32: the chain is freed, the entry marked, the inode
\* dropped with its pages.  The handle is good for fs_close only.
fs_delete(h) ==
  /\ Usable(h)
  /\ LET f == fp[h].file
         c == i_data_map[f][1]
         dropped == {i_data_map[f][i] : i \in 1 .. i_blocks(f)}
     IN /\ fat' = [x \in Clusters |-> IF x \in Reach(c) THEN FREE ELSE fat[x]]
        /\ info_next_clu' \in update_next_clu(Reach(c))
        /\ card' = Forgotten(dropped)
        /\ entry' = [entry EXCEPT ![f] = Absent]
        /\ i_data_map' = [i_data_map EXCEPT ![f] = << >>]
        /\ i_size' = [i_size EXCEPT ![f] = 0]
        /\ page' = [x \in Clusters |-> IF x \in dropped THEN NoPage ELSE page[x]]
        /\ p_dirt' = [x \in Clusters |-> p_dirt[x] /\ x \notin dropped]
  /\ fp' = [fp EXCEPT ![h] = Deleted]
  /\ buf' = << >>
  /\ UNCHANGED <<p_size, astray>>

\* fs_close of a file that was deleted: f_dirt was reset, nothing is written.
\* Its d_dec_count of the freed dentry concerns the caches (Vfs).
fs_close_deleted(h) ==
  /\ fp[h] = Deleted
  /\ fp' = [fp EXCEPT ![h] = Closed]
  /\ buf' = << >>
  /\ UNCHANGED <<cardVars, i_data_map, i_size, page, p_dirt, p_size, astray>>

\* The card still has the chain of every map.  expand_fat32 breaks this when
\* it extends a file of two or more clusters.
MapIsChain == \A f \in Files : Present(f) =>
  Reach(i_data_map[f][1]) = {i_data_map[f][i] : i \in 1 .. i_blocks(f)}

\* The machine is switched off with every file closed, and started again:
\* get_sb_fat32 reads the hint, and alloc_inode_fat32 builds each map from the
\* chain and takes the size from the entry.
power_cycle ==
  /\ \A h \in Handles : fp[h] = Closed
  /\ MapIsChain
  /\ i_data_map' \in [Files -> {<< >>} \cup UNION
       {Chain(entry[f].first) : f \in {e \in Files : entry[e] # Absent}}]
  /\ \A f \in Files : i_data_map'[f] \in
       (IF entry[f] = Absent THEN {<< >>} ELSE Chain(entry[f].first))
  /\ i_size' = [f \in Files |-> IF entry[f] = Absent THEN 0 ELSE entry[f].size]
  /\ page' = [c \in Clusters |-> NoPage]
  /\ p_dirt' = [c \in Clusters |-> FALSE]
  /\ buf' = << >>
  /\ p_size' = 0
  /\ UNCHANGED <<cardVars, fp, astray>>

-----------------------------------------------------------------------------
(* What is not followed: these calls go on in the code, from where they do *)
(* here into memory that was freed or into another file's bytes.           *)

GoesAstray ==
  /\ astray' = TRUE
  /\ buf' = << >>
  /\ UNCHANGED <<cardVars, i_data_map, i_size, page, p_dirt, fp, p_size>>

\* A file is opened twice: two handles each keep a size and a cursor of their
\* own, of which the other's writes and clear_fat32 know nothing.
fs_open_twice(h, f) ==
  /\ fp[h] = Closed /\ Present(f) /\ ~NotOpen(f)
  /\ GoesAstray

\* A page is read when the cache is full: flush_p_cache frees pages to which
\* their maps go on pointing, and when it finds too few of them the list head.
page_cache_full(h, n) ==
  /\ Usable(h) /\ fp[h].f_pos + n <= MaxSize
  /\ Writes(fp[h].mode) \/ fp[h].f_pos + n <= fp[h].f_size
  /\ p_size + Cardinality(Loads(h, n)) > Capacity
  /\ GoesAstray

\* The machine is started again with a chain that has lost clusters: sizes
\* exceed the maps, and reads run off the end of the list.
power_cycle_broken ==
  /\ \A h \in Handles : fp[h] = Closed
  /\ ~MapIsChain
  /\ GoesAstray

Next ==
  /\ ~astray
  /\ \/ \E h \in Handles, f \in Files, m \in Modes :
          create_dentry(h, f, m) \/ fs_open(h, f, m)
     \/ \E h \in Handles, f \in Files : clear(h, f)
     \/ \E h \in Handles, n \in Lens : fs_read(h, n)
     \/ \E h \in Handles, n \in Lens, b \in UNION {Bytes[f] : f \in Files} :
          fs_write(h, n, b) \/ fs_write_expands(h, n, b)
     \/ \E h \in Handles, flag \in {"HEAD", "TAIL", "CUR"}, o \in Offsets :
          fs_seek(h, flag, o)
     \/ \E h \in Handles : fs_delete(h) \/ fs_close(h) \/ fs_close_deleted(h)
     \/ \E h \in Handles, f \in Files : fs_open_twice(h, f)
     \/ \E h \in Handles, n \in Lens : page_cache_full(h, n)
     \/ power_cycle \/ power_cycle_broken

Spec == Init /\ [][Next]_vars

-----------------------------------------------------------------------------
(* Properties.                                                             *)

Mapped(f) == {i_data_map[f][i] : i \in 1 .. i_blocks(f)}

\* The hint never skips a free cluster: find_free_clu searches upwards only, so
\* a free cluster below the hint would be lost (fat.c 177-212; every operation
\* that frees lowers the hint, every one that takes may only raise it).
NoFreeBelowHint == \A c \in Clusters : fat[c] = FREE => c >= info_next_clu

\* No cluster belongs to two files, in memory or on the card, and no cluster in
\* use is free in the table, whatever is created, extended, emptied and deleted
\* (fat.c expand_fat32, clear_fat32, delete_fat32).
ClustersOwnedOnce ==
  \A f \in Files : Present(f) =>
    /\ entry[f].first = i_data_map[f][1]
    /\ Reach(entry[f].first) \subseteq Mapped(f)
    /\ RootClu \notin Mapped(f)
    /\ \A c \in Mapped(f) : fat[c] # FREE
    /\ \A e \in Files \ {f} : Mapped(e) \cap Mapped(f) = {}

\* The three copies of a position agree: f_pos is where the map and the offset
\* point, the size of the handle is the size of the inode, and an inode has
\* exactly the blocks its size needs (open.c dentry_open_file, read_write.c).
CursorAgrees ==
  /\ \A h \in Handles : Usable(h) =>
       /\ fp[h].f_pos = Cursor(h) /\ fp[h].f_pos <= fp[h].f_size
       /\ fp[h].f_size = i_size[fp[h].file]
       /\ fp[h].f_cur_map \in 1 .. i_blocks(fp[h].file)
       /\ fp[h].f_cur_off \in 0 .. BlockSize
  /\ \A f \in Files : Present(f) => i_blocks(f) = Max2(1, Blocks(i_size[f]))

\* A closed file is on the card as far as its pages and its size go: no close,
\* clear or delete leaves a dirty page or a stale directory entry behind.
FlushedWhenClosed ==
  \A f \in Files : Present(f) /\ NotOpen(f) =>
    /\ entry[f].size = i_size[f]
    /\ \A c \in Mapped(f) : ~p_dirt[c]
    /\ \A c \in Mapped(f) : page[c] # NoPage => page[c] = card[c]

\* What a caller sees of a file and of a handle.
FlatContents == [f \in Files |->
  IF Present(f) THEN [i \in 1 .. i_size[f] |-> ByteAt(f, i - 1)] ELSE Absent]
FlatHandle == [h \in Handles |-> IF Usable(h)
  THEN [file |-> fp[h].file, mode |-> fp[h].mode, pos |-> fp[h].f_pos] ELSE fp[h]]

\* The file system implements flat files: reads return the bytes last written
\* there, a seek out of the file is one to its end, and a power cycle with
\* closed files loses nothing; until a file is opened twice, the page cache is
\* full, or a restart meets a chain that expand_fat32 broke (read_write.c 6-128,
\* open.c 9-55, fscache.c:42, fat.c 483-500).
Flat == INSTANCE FlatFile WITH
  contents <- FlatContents, handle <- FlatHandle, buffer <- buf
ImplementsFlatFile == Flat!Spec
=============================================================================
