--------------------------------- MODULE Vm ---------------------------------
(***************************************************************************)
(* Virtual memory: page tables and page faults (kernel/vm/vm.c), the TLB   *)
(* (arch/mips32/tlb.c), swapping (kernel/vm/pageswap.c) and shared memory  *)
(* (kernel/vm/shm.c), with the switch of address space (activateMemory of  *)
(* kernel/pc/pc.c).                                                        *)
(*                                                                         *)
(* A user access that finds no valid translation raises an exception; one  *)
(* exception is one action, because the handlers run with interrupts off,  *)
(* and the access is tried again after it.  Addresses are page numbers:    *)
(* programs touch a page at its first byte, as the repository's tests do.  *)
(***************************************************************************)
EXTENDS Integers, Sequences, FiniteSets

CONSTANTS
  Procs,        \* the address spaces; the ASID of one is its number
  Pages,        \* virtual pages, in pairs of an even and an odd one
  Frames,       \* the physical frames of the buddy system
  NoFrame,      \* the frame of an entry whose V bit is clear
  Slots,        \* TLB entries
  Data,         \* Data[p][v]: what program p may store in page v
  Garbage,      \* whatever a frame or block held before
  MaxFrames,    \* MAX_PFN_PER_PROCESS
  MaxBlocks,    \* bound: blocks ever taken from the swap file
  Keys,         \* keys of shared memory
  ShmPages,     \* sizes of shared memory requests, in pages
  Touches,      \* Touches[p]: pages program p uses as its own
  Attaches      \* Attaches[p]: pages at which p attaches shared memory

VARIABLES
  live,         \* address spaces that exist
  mm_current,
  asid,         \* EntryHi.ASID
  pte,          \* pte[p][v]: the frame of a valid entry, or NoFrame
  g,            \* g[p][v]: the G bit of the entry
  info,         \* info[p][v]: swap block of the page, 0 for none
  fifo,         \* fifo[p]: the frames of p, the next victim first
  virtual,      \* struct page.virtual
  free,         \* frames the buddy system can hand out
  mem,          \* contents of the frames
  tlb,
  next_free,    \* page_pool.next_free
  pages,        \* contents of the file /pages, one element per block
  shm_pool,     \* the frames of a key, empty while it is not registered
  retry,        \* retry[p]: page of the instruction p has to try again, or -1
  wrote,        \* history: what p last stored in its own page v
  intact,       \* history: no page was abandoned on its way out or in
  apart,        \* history: the hardware found only entries of the address space
                \* that ran, and nothing was attached over a mapped page
  wild          \* the handler took the head of an empty list for a page

tables == <<pte, g, info>>
frameVars == <<fifo, virtual, free>>
diskVars == <<next_free, pages>>
history == <<wrote, intact, apart, wild>>
vars == <<live, mm_current, asid, tables, frameVars, mem, tlb, diskVars,
          shm_pool, retry, history>>

\* The page shmat gives to frame j of a segment attached at v: after each
\* frame its loop adds the number of that frame to the address.
At(v, j) == v + (j * (j - 1)) \div 2

ASSUME VmAssumption ==
  /\ Procs \subseteq Nat \ {0}
  /\ Pages \subseteq Nat
  /\ \A v \in Pages : {2 * (v \div 2), 2 * (v \div 2) + 1} \subseteq Pages
  /\ NoFrame \notin Frames
  /\ MaxFrames \in Nat \ {0} /\ MaxBlocks \in Nat
  /\ Touches \in [Procs -> SUBSET Pages]
  /\ Attaches \in [Procs -> SUBSET Pages]
  /\ ShmPages \subseteq Nat \ {0}
  /\ \A p \in Procs : \A v \in Attaches[p], n \in ShmPages :
       \A j \in 0 .. (n - 1) : At(v, j) \notin Touches[p]

Pair(v) == v \div 2
Half(v) == v % 2
Page(u, h) == 2 * u + h

\* pf_num and the frames on the fifo of p.
pf_num(p) == Len(fifo[p])
Held(p) == {fifo[p][i] : i \in 1 .. pf_num(p)}

\* An entry that init_tlb left: it matches no user address.
init_tlb == [asid |-> 0, vpn2 |-> -1, g |-> FALSE, lo |-> [h \in 0..1 |-> NoFrame]]

\* Entry s translates page v for address space p: the hardware compares the
\* ASID unless the entry is global, which needs the G bit of both halves.
Matches(s, p, v) == tlb[s].vpn2 = Pair(v) /\ (tlb[s].g \/ tlb[s].asid = p)
FrameIn(s, v) == tlb[s].lo[Half(v)]
Invalid(s, v) == Matches(s, asid, v) /\ FrameIn(s, v) = NoFrame

\* What tlbwi and tlbwr write for page v of p: both halves of its pair.
Entry(p, v) ==
  [asid |-> asid, vpn2 |-> Pair(v),
   g |-> \A h \in 0..1 : g[p][Page(Pair(v), h)],
   lo |-> [h \in 0..1 |-> pte[p][Page(Pair(v), h)]]]

\* The tables of an address space with nothing mapped.
Unmapped(p) ==
  /\ pte' = [pte EXCEPT ![p] = [v \in Pages |-> NoFrame]]
  /\ g' = [g EXCEPT ![p] = [v \in Pages |-> FALSE]]
  /\ info' = [info EXCEPT ![p] = [v \in Pages |-> 0]]
  /\ fifo' = [fifo EXCEPT ![p] = << >>]
  /\ retry' = [retry EXCEPT ![p] = -1]
  /\ wrote' = [wrote EXCEPT ![p] = [v \in Pages |-> Garbage]]

Init ==
  /\ live = {} /\ mm_current = 0 /\ asid = 0
  /\ pte = [p \in Procs |-> [v \in Pages |-> NoFrame]]
  /\ g = [p \in Procs |-> [v \in Pages |-> FALSE]]
  /\ info = [p \in Procs |-> [v \in Pages |-> 0]]
  /\ fifo = [p \in Procs |-> << >>]
  /\ virtual \in [Frames -> {0}] /\ free = Frames
  /\ mem = [f \in Frames |-> Garbage]
  /\ tlb = [s \in Slots |-> init_tlb]
  /\ next_free = 1 /\ pages = << >>
  /\ shm_pool = [k \in Keys |-> << >>]
  /\ retry = [p \in Procs |-> -1]
  /\ wrote = [p \in Procs |-> [v \in Pages |-> Garbage]] 
  /\ intact = TRUE /\ apart = TRUE /\ wild = FALSE

-----------------------------------------------------------------------------
(* Address spaces.                                                         *)

\* create_mm_struct and create_pt.
create_mm_struct(p) ==
  /\ p \notin live
  /\ live' = live \cup {p}
  /\ Unmapped(p)
  /\ UNCHANGED <<mm_current, asid, virtual, free, mem, tlb, diskVars, shm_pool,
                 intact, apart, wild>>

\* activateMemory: the scheduler gives the CPU to a task of address space p.
activateMemory(p) ==
  /\ p \in live
  /\ mm_current' = p
  /\ asid' = p
  /\ UNCHANGED <<live, tables, frameVars, mem, tlb, diskVars, shm_pool,
                 retry, history>>

\* Mutant: the entries stay as they are.
tlb_reset_nothing(p, V) == tlb' = tlb

\* tlb_reset of the pages V of p, whose V bits have been cleared: the halves
\* of the matching entries are written again from the page table.
tlb_reset(p, V) ==
  tlb' = [s \in Slots |->
    IF \E v \in V : Matches(s, p, v)
    THEN [tlb[s] EXCEPT
            !.g = @ /\ \A v \in V : Matches(s, p, v) => g[p][v],
            !.lo = [h \in 0..1 |-> IF Page(tlb[s].vpn2, h) \in V THEN NoFrame ELSE @[h]]]
    ELSE tlb[s]]

\* EntryHi.ASID after tlb_reset of page v of p: that of p, with which it looks
\* for an entry, unless it finds one and reads it back.
EntryHiAfter(p, v) ==
  IF \A s \in Slots : ~Matches(s, p, v) THEN {p}
  ELSE {tlb[s].asid : s \in {t \in Slots : Matches(t, p, v)}}

\* The entries the hardware finds for the pages V were loaded for the address
\* space that runs: none is a global one of another.
FindsOwn(V) == \A s \in Slots : \A v \in V : Matches(s, asid, v) => tlb[s].asid = asid

\* free_mm_struct, called by its owner, which has attached nothing: every
\* frame on the fifo is unmapped, dropped from the TLB and freed.
free_mm_struct(p) ==
  /\ p = mm_current /\ p \in live
  /\ \A v \in Pages \ Touches[p] : pte[p][v] = NoFrame
  /\ live' = live \ {p}
  /\ free' = free \cup Held(p)
  /\ tlb_reset(p, {virtual[f] : f \in Held(p)})
  /\ Unmapped(p)
  /\ mem' = [f \in Frames |-> IF f \in Held(p) THEN Garbage ELSE mem[f]]
  /\ virtual' = [f \in Frames |-> IF f \in Held(p) THEN 0 ELSE virtual[f]]
  /\ asid' \in IF fifo[p] = << >> THEN {asid} ELSE EntryHiAfter(p, virtual[fifo[p][pf_num(p)]])
  /\ apart' = (apart /\ FindsOwn({virtual[f] : f \in Held(p)}))
  /\ UNCHANGED <<mm_current, diskVars, shm_pool, intact, wild>>

-----------------------------------------------------------------------------
(* Swapping.  fs_seek stops at the end of /pages, and a read there fails.  *)

\* write_page_to_disk: the block of a page, a new one at its first time, ...
BlockOf(p, v) == IF info[p][v] = 0 THEN next_free ELSE info[p][v]
TakeBlock(p, v) == next_free' = IF info[p][v] = 0 THEN next_free + 1 ELSE next_free

\* ... and the file after the page was written there.
WriteAt(b, x) ==
  IF b <= Len(pages) THEN [pages EXCEPT ![b] = x] ELSE Append(pages, x)

\* Mutant: the page is not read back.
LoadNothing(b, x) == x

\* load_page_from_disk into a frame that holds x.
LoadFrom(b, x) == IF b \in 1 .. Len(pages') THEN pages'[b] ELSE x

\* Mutant: the frame keeps the address of the page it held before.
BindNothing(f, v) == virtual

\* pagep->virtual = vaddr.
Bind(f, v) == [virtual EXCEPT ![f] = v]

\* swap_one_page: the oldest page of p, read through its own mapping, goes to
\* its block; the new page is loaded into the same frame, if it was ever
\* written out; the victim's entry becomes invalid here and in the TLB.
swap_one_page(p, v) ==
  LET f == fifo[p][1]
      out == virtual[f]
  IN  \E s \in Slots :
        LET r == FrameIn(s, out)
        IN  /\ Matches(s, asid, out) /\ r # NoFrame
            /\ TakeBlock(p, out)
            /\ info' = [info EXCEPT ![p][out] = BlockOf(p, out)]
            /\ pages' = WriteAt(BlockOf(p, out), mem[r])
            /\ mem' = [mem EXCEPT ![r] = LoadFrom(info[p][v], @)]
            /\ tlb_reset(p, {out}) /\ asid' \in EntryHiAfter(p, out)
            /\ apart' = (apart /\ FindsOwn({out}))
            /\ virtual' = Bind(f, v)
            /\ fifo' = [fifo EXCEPT ![p] = Append(Tail(@), f)]
            /\ pte' = [pte EXCEPT ![p][out] = NoFrame, ![p][v] = pte[p][out]]
            /\ g' = [g EXCEPT ![p][v] = TRUE]
            /\ UNCHANGED <<live, mm_current, free, shm_pool, wrote, intact, wild>>

\* swap_one_page when the victim is not in the TLB, or not valid there: the
\* copy to the file faults inside the handler.  The inner handler loads the
\* entry and returns to the user's instruction: the rest of the swap is
\* abandoned, and the block that was taken for the page is not remembered.
swap_abandoned(p) ==
  LET out == virtual[fifo[p][1]]
  IN  /\ TakeBlock(p, out)
      /\ \E s \in Slots :
           /\ Invalid(s, out) \/ \A t \in Slots : ~Matches(t, asid, out)
           /\ tlb' = [tlb EXCEPT ![s] = Entry(p, out)]
      /\ intact' = FALSE
      /\ apart' = (apart /\ FindsOwn({out}))
      /\ UNCHANGED <<live, mm_current, asid, tables, frameVars, mem, pages,
                     shm_pool, wrote, wild>>

-----------------------------------------------------------------------------
(* Accesses and their exceptions.                                          *)

\* Program p runs and uses page v, for the first time or again.
Uses(p, v) ==
  /\ p = mm_current /\ p \in live
  /\ retry[p] \in {-1, v}
  /\ \/ v \in Touches[p]
     \/ v \in Attaches[p] /\ pte[p][v] # NoFrame

\* The access goes through: it stores x, or loads and leaves memory alone.
Access(p, v, M, w) ==
  /\ Uses(p, v)
  /\ \E s \in Slots : /\ Matches(s, asid, v) /\ FrameIn(s, v) # NoFrame
                      /\ mem' = M[FrameIn(s, v)]
  /\ retry' = [retry EXCEPT ![p] = -1]
  /\ wrote' = w
  /\ apart' = (apart /\ FindsOwn({v}))
  /\ UNCHANGED <<live, mm_current, asid, tables, frameVars, tlb, diskVars, shm_pool,
                 intact, wild>>

Load(p, v) == Access(p, v, [f \in Frames |-> mem], wrote)
Store(p, v, x) ==
  Access(p, v, [f \in Frames |-> [mem EXCEPT ![f] = x]],
         IF v \in Touches[p] THEN [wrote EXCEPT ![p][v] = x] ELSE wrote)

\* The access raises an exception: its instruction will be executed again.
Traps(p, v) == Uses(p, v) /\ retry' = [retry EXCEPT ![p] = v]

\* tlb_refill with a valid page table entry: it replaces a random entry.
tlb_refill(p, v) ==
  /\ Traps(p, v) /\ pte[p][v] # NoFrame
  /\ \A s \in Slots : ~Matches(s, asid, v)
  /\ \E s \in Slots : tlb' = [tlb EXCEPT ![s] = Entry(p, v)]
  /\ UNCHANGED <<live, mm_current, asid, tables, frameVars, mem, diskVars,
                 shm_pool, history>>

\* tlb_read_handler and tlb_write_handler for an entry that is there but
\* invalid: the same entry is written again.
tlb_read_handler(p, v) ==
  /\ Traps(p, v) /\ pte[p][v] # NoFrame
  /\ \E s \in Slots : /\ Invalid(s, v)
                      /\ tlb' = [tlb EXCEPT ![s] = Entry(p, v)]
  /\ apart' = (apart /\ FindsOwn({v}))
  /\ UNCHANGED <<live, mm_current, asid, tables, frameVars, mem, diskVars,
                 shm_pool, wrote, intact, wild>>

Faults(p, v) ==
  /\ Traps(p, v) /\ pte[p][v] = NoFrame
  /\ \A s \in Slots : Matches(s, asid, v) => Invalid(s, v)

\* do_pagefault below the limit of the process, with a frame to be had.  The
\* page is not read back from its block, if it was swapped out before.
do_pagefault(p, v, f) ==
  /\ Faults(p, v) /\ pf_num(p) < MaxFrames
  /\ f \in free
  /\ free' = free \ {f}
  /\ virtual' = Bind(f, v)
  /\ fifo' = [fifo EXCEPT ![p] = Append(@, f)]
  /\ pte' = [pte EXCEPT ![p][v] = f]
  /\ g' = [g EXCEPT ![p][v] = TRUE]
  /\ intact' = (intact /\ info[p][v] = 0)
  /\ UNCHANGED <<live, mm_current, asid, info, mem, tlb, diskVars, shm_pool,
                 wrote, apart, wild>>

\* do_pagefault at the limit, or with no frame left.
Swaps(p, v) == Faults(p, v) /\ (pf_num(p) >= MaxFrames \/ free = {})

do_pagefault_swaps(p, v) ==
  /\ Swaps(p, v) /\ fifo[p] # << >>
  /\ info[p][virtual[fifo[p][1]]] # 0 \/ next_free <= MaxBlocks
  /\ swap_one_page(p, v) \/ swap_abandoned(p)

\* swap_one_page of a process that has no frame: its fifo is empty, and the
\* list head in its mm_struct is taken for a struct page.
swap_of_nothing(p, v) ==
  /\ Swaps(p, v) /\ fifo[p] = << >>
  /\ wild' = TRUE
  /\ UNCHANGED <<live, mm_current, asid, tables, frameVars, mem, tlb, diskVars,
                 shm_pool, wrote, intact, apart>>

-----------------------------------------------------------------------------
(* Shared memory.                                                          *)

\* shmget of a key that is not registered: the frames F, in their order.
shmget(k, F) ==
  /\ shm_pool[k] = << >>
  /\ \A i, j \in DOMAIN F : F[i] \in free /\ (F[i] = F[j] => i = j)
  /\ free' = free \ {F[i] : i \in DOMAIN F}
  /\ shm_pool' = [shm_pool EXCEPT ![k] = F]
  /\ UNCHANGED <<live, mm_current, asid, tables, fifo, virtual, mem, tlb,
                 diskVars, retry, history>>

\* Page u is bound to frame i: a later frame replaces an earlier one.
Bound(k, v, u, i) ==
  /\ i \in 0 .. (Len(shm_pool[k]) - 1) /\ At(v, i) = u
  /\ \A j \in (i + 1) .. (Len(shm_pool[k]) - 1) : At(v, j) # u

\* shmat at a page the program has not touched.
shmat(p, k, v) ==
  LET N(u) == {i \in 0 .. (Len(shm_pool[k]) - 1) : Bound(k, v, u, i)}
  IN  /\ p = mm_current /\ p \in live
      /\ v \in Attaches[p] /\ pte[p][v] = NoFrame
      /\ shm_pool[k] # << >>
      /\ pte' = [pte EXCEPT ![p] = [u \in Pages |->
                   IF N(u) = {} THEN pte[p][u]
                   ELSE shm_pool[k][(CHOOSE i \in N(u) : TRUE) + 1]]]
      /\ g' = [g EXCEPT ![p] = [u \in Pages |-> g[p][u] /\ N(u) = {}]]
      /\ apart' = (apart /\ \A u \in Pages : pte[p][u] = NoFrame \/ N(u) = {})
      /\ UNCHANGED <<live, mm_current, asid, info, frameVars, mem, tlb,
                     diskVars, shm_pool, retry, wrote, intact, wild>>

Next ==
  /\ ~wild
  /\ \/ \E p \in Procs :
          \/ create_mm_struct(p) \/ activateMemory(p) \/ free_mm_struct(p)
          \/ \E v \in Pages :
               \/ Load(p, v) \/ \E x \in Data[p][v] : Store(p, v, x)
               \/ tlb_refill(p, v) \/ tlb_read_handler(p, v)
               \/ \E f \in Frames : do_pagefault(p, v, f)
               \/ do_pagefault_swaps(p, v) \/ swap_of_nothing(p, v)
               \/ \E k \in Keys : shmat(p, k, v)
     \/ \E k \in Keys, n \in ShmPages : \E F \in [1..n -> Frames] : shmget(k, F)

Spec == Init /\ [][Next]_vars

-----------------------------------------------------------------------------
(* Properties.                                                             *)

Shared == {f \in Frames : \E k \in Keys : \E i \in DOMAIN shm_pool[k] : shm_pool[k][i] = f}

\* A frame has one owner: it is free, or part of a shared segment, or on the
\* fifo of one process, once, under the page that maps it.
FramesOwnedOnce ==
  /\ free \cap Shared = {}
  /\ \A p \in Procs : \A i \in 1 .. pf_num(p) :
       LET f == fifo[p][i]
       IN  /\ f \notin free \cup Shared
           /\ pte[p][virtual[f]] = f
           /\ \A q \in Procs : \A j \in 1 .. pf_num(q) :
                fifo[q][j] = f => q = p /\ j = i
  /\ \A p \in Procs, v \in Pages :
       pte[p][v] # NoFrame => pte[p][v] \in Held(p) \cup Shared

\* An entry loaded for a program leads, where it is valid, to the frame in the
\* program's page table, and there is one of them for a pair at most: no
\* eviction, swap, exit or switch leaves a stale translation behind.  A page
\* fault makes entries global and shmat does not look at the TLB, so this is
\* claimed until a program is served by an entry of another, or attaches a
\* segment over a page it has (tlb.c tlb_reset, vm.c:186, shm.c:58-69).
LoadedFor(s, p, v) == tlb[s].asid = p /\ tlb[s].vpn2 = Pair(v)

TlbTellsTheTruth ==
  apart =>
    \A p \in live : \A v \in Pages : \A s \in Slots :
      LoadedFor(s, p, v) =>
        /\ FrameIn(s, v) # NoFrame => FrameIn(s, v) = pte[p][v]
        /\ \A t \in Slots : LoadedFor(t, p, v) => s = t

\* What a program finds in its page v: in its frame, or in its swap block.
Content(p, v) ==
  IF pte[p][v] # NoFrame THEN mem[pte[p][v]]
  ELSE IF info[p][v] \in 1 .. Len(pages) THEN pages[info[p][v]]
  ELSE Garbage

\* A page holds what its program last stored in it, through every fault,
\* swap, exit and switch, until a swap is abandoned half way, a page that is in
\* the swap file is given a new frame, or a program is served by an entry of
\* another (vm.c do_pagefault, swap_one_page).
WritesSurvive ==
  intact /\ apart =>
    \A p \in live, v \in Pages : wrote[p][v] # Garbage => Content(p, v) = wrote[p][v]
=============================================================================
