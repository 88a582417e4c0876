------------------------------- MODULE Bootmm -------------------------------
(***************************************************************************)
(* The boot memory manager, kernel/mm/bootmm.c, and the hand-over of the   *)
(* memory it left free to the buddy system (init_buddy).                   *)
(*                                                                         *)
(* Memory is a map of used pages; a table of address records describes the *)
(* same memory a second time.  The table is kept as the code keeps it, an  *)
(* array of which the first info_cnt slots are valid: the code also reads  *)
(* the slot behind the last valid one.  Addresses are counted in units of  *)
(* which PageSize make a page.                                             *)
(***************************************************************************)
EXTENDS Integers, SequencesExt

CONSTANTS
  PageNum,       \* boot_mm.page_num
  KernelPages,   \* pages of the kernel image, 16 MB
  PageSize,      \* 1 << PAGE_SHIFT
  MaxInfo,       \* MAX_MMINFO_NUM
  Beyond,        \* what lies in memory behind the table
  PageStruct,    \* sizeof(struct page)
  BuddyBlock,    \* 1 << MAX_BUDDY_ORDER
  MaxLength,     \* bound: the length a record that merges went wrong may reach
  Sizes,         \* sizes callers ask for and give back
  Aligns         \* alignments callers ask for: powers of two, or 0

Up(n, a) == ((n + a - 1) \div a) * a
Down(n, a) == (n \div a) * a

ASSUME BootmmAssumption ==
  /\ {PageNum, KernelPages, PageSize, MaxInfo, PageStruct, BuddyBlock, MaxLength}
       \subseteq Nat \ {0}
  /\ Up(KernelPages + Up(PageNum * PageStruct, PageSize) \div PageSize, BuddyBlock)
       <= PageNum
  /\ Beyond \in [start : Nat, length : Nat]
  /\ Sizes \subseteq Nat /\ Aligns \subseteq Nat

VARIABLES
  page_map,         \* the pages marked PAGE_USED
  last_alloc_end,
  info, info_cnt,
  held,             \* history: how many callers were given each page
  zone              \* buddy_mm.start_pfn and page_num, after init_buddy

vars == <<page_map, last_alloc_end, info, info_cnt, held, zone>>

Pages == 0 .. (PageNum - 1)
Kernel == 0 .. (KernelPages - 1)
NoZone == [start |-> 0, num |-> 0]

-----------------------------------------------------------------------------
(* The table.  T is its value: slots and number of valid slots.            *)

Table == [info |-> info, cnt |-> info_cnt]
Slot(T, i) == IF i < MaxInfo THEN T.info[i] ELSE Beyond
End(r) == r.start + r.length

set_bootmm_info(T, i, start, length) ==
  [T EXCEPT !.info[i] = [start |-> start, length |-> length]]

delete_bootmm_info(T, index) ==
  IF index >= T.cnt THEN T
  ELSE [info |-> [i \in DOMAIN T.info |->
                    IF i \in index .. (T.cnt - 1) THEN Slot(T, i + 1) ELSE T.info[i]],
        cnt  |-> T.cnt - 1]

Append_(T, start, length) ==
  [set_bootmm_info(T, T.cnt, start, length) EXCEPT !.cnt = @ + 1]

Full(T) == T.cnt = MaxInfo

split_bootmm_info(T, index, at) ==
  LET r == Slot(T, index)
  IN  IF index < T.cnt /\ ~Full(T) /\ at > r.start /\ at < End(r)
      THEN [ok |-> TRUE,
            T  |-> Append_([T EXCEPT !.info[index].length = at - r.start],
                           at, End(r) - at)]
      ELSE [ok |-> FALSE, T |-> T]

\* The first record the new one continues, or that is as long as the new one's
\* end address, absorbs it; otherwise it gets a slot, if there is one.
insert_bootmm_info(T, start, length) ==
  LET Joins(i) == \/ End(T.info[i]) = start
                  \/ start + length = T.info[i].length
      first == CHOOSE i \in 0 .. (T.cnt - 1) :
                 Joins(i) /\ \A j \in 0 .. (i - 1) : ~Joins(j)
      behind == Slot(T, first + 1)
  IN  IF \E i \in 0 .. (T.cnt - 1) : Joins(i)
      THEN [ok |-> TRUE,
            T  |-> IF End(T.info[first]) # start
                   THEN [T EXCEPT !.info[first] =
                           [start |-> start, length |-> @.length + length]]
                   ELSE IF start + length = behind.start
                   THEN delete_bootmm_info(
                          [T EXCEPT !.info[first].length = @ + length + behind.length],
                          first + 1)
                   ELSE [T EXCEPT !.info[first].length = @ + length]]
      ELSE IF Full(T) THEN [ok |-> FALSE, T |-> T]
      ELSE [ok |-> TRUE, T |-> Append_(T, start, length)]

-----------------------------------------------------------------------------
(* Looking for pages.                                                      *)

Used(p) == p \in page_map

\* Mutant: a run one page short is taken.
find_pages_short(page_cnt, start, end, align) ==
  LET a == IF align = 0 THEN 1 ELSE align
      Fits == {i \in start .. end : /\ i % a = 0
                                    /\ i + page_cnt - 1 <= end
                                    /\ \A p \in i .. (i + page_cnt - 2) : ~Used(p)}
  IN  IF page_cnt = 0 \/ Fits = {} THEN 0
      ELSE CHOOSE i \in Fits : \A j \in Fits : i <= j

\* From candidate i on the pages are counted until one of them is used.  Zero
\* pages are counted from 2^32 - 1 downwards, past any end.
Obstacle(page_cnt, i, stop) ==
  {j \in i .. stop : /\ Used(j)
                     /\ page_cnt = 0 \/ j < i + page_cnt
                     /\ \A k \in i .. (j - 1) : ~Used(k)}

\* What the loop returns when it comes to candidate i: it goes on behind the
\* used page it met.
Scan(page_cnt, stop, a) ==
  LET from[i \in 0 .. Up(PageNum, a)] ==
        IF Obstacle(page_cnt, i, stop) # {}
        THEN from[Up((CHOOSE j \in Obstacle(page_cnt, i, stop) : TRUE) + 1, a)]
        ELSE IF page_cnt = 0 \/ i + page_cnt - 1 > stop THEN 0 ELSE i
  IN  from

find_pages(page_cnt, start, end, align) ==
  LET a == IF align = 0 THEN 1 ELSE align
      stop == IF PageNum - 1 < end THEN PageNum - 1 ELSE end
  IN  Scan(page_cnt, stop, a)[Up(start, a)]

-----------------------------------------------------------------------------
(* Operations.                                                             *)

Init ==
  /\ page_map = Kernel
  /\ last_alloc_end = 0
  /\ info = [i \in 0 .. (MaxInfo - 1) |->
               [start |-> 0, length |-> IF i = 0 THEN KernelPages * PageSize ELSE 0]]
  /\ info_cnt = 1
  /\ held = [p \in Pages |-> 0]
  /\ zone = NoZone

PageCnt(size) == Up(size, PageSize) \div PageSize
PfnAlign(align) == align \div PageSize

\* Mutant: the search does not start again at page 0.
FoundAhead(size, align) ==
  find_pages(PageCnt(size), last_alloc_end + 1, PageNum - 1, PfnAlign(align))

\* Next fit: behind the last allocation, then from the start up to its end.
Found(size, align) ==
  LET ahead == find_pages(PageCnt(size), last_alloc_end + 1, PageNum - 1, PfnAlign(align))
  IN  IF ahead # 0 THEN ahead
      ELSE find_pages(PageCnt(size), 0, last_alloc_end, PfnAlign(align))

\* A request that finds no pages, or no slot for its record, changes nothing.
Allocate(size, align) ==
  LET res == Found(size, align)
      run == res .. (res + PageCnt(size) - 1)
      ins == insert_bootmm_info(Table, res * PageSize, size)
  IN  /\ res # 0 /\ ins.ok
      /\ \A i \in 0 .. (MaxInfo - 1) : ins.T.info[i].length <= MaxLength
      /\ page_map' = page_map \cup run
      /\ info' = ins.T.info /\ info_cnt' = ins.T.cnt
      /\ last_alloc_end' = res + PageCnt(size) - 1
      /\ held' = [p \in Pages |-> IF p \in run THEN held[p] + 1 ELSE held[p]]

bootmm_alloc_page(size, align) ==
  /\ zone = NoZone
  /\ Allocate(size, align)
  /\ UNCHANGED zone

\* One turn of the loop of bootmm_free_page: a record that holds the address is
\* cut at both ends and the middle deleted; the loop then goes on with the next
\* slot of the table it has just changed.
Visit(addr, size, S, i) ==
  LET r   == S.T.info[i]
      one == split_bootmm_info(S.T, i, addr)
      two == split_bootmm_info(one.T, one.T.cnt - 1, addr + size)
  IN  IF S.stop \/ i >= S.T.cnt \/ addr < r.start \/ addr >= End(r) THEN S
      ELSE IF End(r) - addr < size THEN [S EXCEPT !.stop = TRUE]
      ELSE [T    |-> IF one.ok
                     THEN delete_bootmm_info(two.T, two.T.cnt - (IF two.ok THEN 2 ELSE 1))
                     ELSE delete_bootmm_info(split_bootmm_info(S.T, i, addr + size).T, i),
            cut  |-> TRUE, stop |-> FALSE]

\* Mutant: the part of a page is given back as a whole page.
FreedRoundedUp(pfn, size) == pfn .. (pfn + PageCnt(size))

\* The pages marked free: whole pages of the size only.
Freed(pfn, size) == pfn .. (pfn + (size \div PageSize) - 1)

\* The loop of bootmm_free_page over the table: the records it leaves, and
\* whether it found one to cut.
CutRecords(addr, size) ==
  FoldLeft(LAMBDA S, i : Visit(addr, size, S, i),
           [T |-> Table, cut |-> FALSE, stop |-> FALSE],
           [k \in 1 .. MaxInfo |-> k - 1])

\* A caller gives back pages it holds; an address inside the kernel and less
\* than a page are refused.
bootmm_free_page(pfn, size) ==
  LET mine == pfn .. (pfn + PageCnt(size) - 1)
      S    == CutRecords(pfn * PageSize, size)
  IN  /\ zone = NoZone
      /\ pfn >= KernelPages /\ size >= PageSize
      /\ \A p \in mine : p \in Pages /\ held[p] > 0
      /\ info' = S.T.info /\ info_cnt' = S.T.cnt
      /\ page_map' = IF S.cut THEN page_map \ Freed(pfn, size) ELSE page_map
      /\ held' = [p \in Pages |-> IF p \in mine THEN held[p] - 1 ELSE held[p]]
      /\ UNCHANGED <<last_alloc_end, zone>>

\* Mutant: the zone starts at the block the reserved memory ends in.
ZoneRoundedDown(reserved) ==
  LET start == Down(PageCnt(reserved), BuddyBlock)
  IN  [start |-> start, num |-> Down(PageNum - start, BuddyBlock)]

\* What init_buddy hands over: whole blocks behind the first record.
ZoneBehind(reserved) ==
  LET start == Up(PageCnt(reserved), BuddyBlock)
  IN  [start |-> start, num |-> Down(PageNum - start, BuddyBlock)]

\* init_buddy, the one caller at boot: it takes the page structures from the
\* boot memory and the pages behind the first record for the buddy system.
init_buddy ==
  /\ zone = NoZone /\ page_map = Kernel /\ last_alloc_end = 0
  /\ Allocate(PageNum * PageStruct, PageSize)
  /\ zone' = ZoneBehind(End(info'[0]))

Next ==
  \/ \E size \in Sizes, align \in Aligns : bootmm_alloc_page(size, align)
  \/ \E pfn \in Pages, size \in Sizes : bootmm_free_page(pfn, size)
  \/ init_buddy

Spec == Init /\ [][Next]_vars

-----------------------------------------------------------------------------
(* Properties.                                                             *)

\* A page is given to one caller at a time and stays marked as long as that
\* caller has it, and no caller is given a page of the kernel, whatever the
\* order of requests, sizes, alignments and frees, and although the table of
\* records loses track of the map (bootmm_alloc_page, bootmm_free_page).
GivenOnce ==
  /\ Kernel \subseteq page_map
  /\ \A p \in Pages : held[p] <= (IF p \in page_map \ Kernel THEN 1 ELSE 0)

\* Where a run of n free pages aligned to a starts.
FreeRuns(n, a, lo, hi) ==
  {i \in lo .. hi : /\ i % (IF a = 0 THEN 1 ELSE a) = 0
                    /\ n > 0 /\ i + n - 1 <= hi
                    /\ \A p \in i .. (i + n - 1) : ~Used(p)}

\* find_pages returns the lowest aligned run of free pages between its bounds,
\* and 0 only if there is none: what it skips when it meets a used page never
\* hides a run.
FindsLowest ==
  \A n \in {PageCnt(s) : s \in Sizes}, a \in {PfnAlign(x) : x \in Aligns},
     lo \in Pages, hi \in Pages :
    LET runs == FreeRuns(n, a, lo, hi)
        got  == find_pages(n, lo, hi, a)
    IN  IF runs = {} THEN got = 0 ELSE got \in runs /\ \A i \in runs : got <= i

\* The pages the buddy system is given at boot are free and lie in memory: the
\* first record is all that was used (init_buddy relies on the merge of
\* insert_bootmm_info).
ZoneIsFree ==
  (zone.start .. (zone.start + zone.num - 1)) \cap page_map = {}

\* A refused request leaves a run it could have had only if the table is full
\* or the run contains the end of the last allocation, which neither of the
\* two searches crosses.
RefusesOnlyCrossing ==
  \A size \in Sizes, align \in Aligns :
    Found(size, align) = 0 =>
      \A i \in FreeRuns(PageCnt(size), PfnAlign(align), 0, PageNum - 1) :
        last_alloc_end \in i .. (i + PageCnt(size) - 2)
=============================================================================
